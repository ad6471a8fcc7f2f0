--------------------------- MODULE SubtaskThreads ---------------------------
(***************************************************************************)
(* Scheduler with the threads of its tasks: _select_and_invoke of          *)
(* src/src/agentic_runner/parallel_runner.py, step by step, with the       *)
(* scripted provider (providers/fake.py), the guard (tools/_base.py), the  *)
(* file tools and the composed tool summarize_document over the workspace  *)
(* directory.  The threads of a plan share one provider and one workspace  *)
(* and have no lock.                                                       *)
(*                                                                         *)
(* Abstracted: a byte of a file is the number of the subtask that wrote    *)
(* it, 0 for one that was there before; the model's part in a tool always  *)
(* answers.  Arguments fit the input models, so no thread raises.          *)
(***************************************************************************)
EXTENDS Scheduler, Integers

CONSTANTS
  Jobs,      \* plans with their tool hints, and the script of the provider
  Paths,     \* the paths that occur
  MaxBytes   \* settings.max_file_bytes

Tools   == {"read_file", "write_file", "summarize_document", "finish"}
Readers == {"read_file", "summarize_document"}
Args    == [path : Paths, size : Nat]

ASSUME JobsAssumption ==
  \A j \in Jobs :
    /\ j.shape \in Shapes
    /\ \A t \in Tools : j.script[t] \in Seq(Args) \ {<<>>}
ASSUME BytesAssumption == MaxBytes \in Nat

VARIABLES
  job,       \* the plan's tool hints and the provider's script
  tpc,       \* where each thread is
  toolIdx,   \* FakeProvider._state[key]["tool_idx"]
  seen,      \* per_tool: the position a thread has read
  args,      \* the arguments a thread has got
  disk,      \* the workspace: which files are there and their bytes
  size,      \* st_size, as a thread has read it
  text,      \* the content a thread has read
  result,    \* what _select_and_invoke returns
  served     \* history: the positions of the script that were handed out

ovars == <<seen, args, size, text, result>>
tvars == <<svars, job, tpc, toolIdx, ovars, disk, served>>

Hint(i) == job.hints[i]
File(i) == disk[args[i].path]

\* What a write_file of subtask i writes.
Bytes(i) == [n \in 1 .. args[i].size |-> i]

\* list[min(n, len(list) - 1)], n counted from 0.
Clamped(list, n) == list[IF n < Len(list) THEN n + 1 ELSE Len(list)]

Goes(i, there) == tpc' = [tpc EXCEPT ![i] = there]
Settle(i, r)   == Goes(i, "returning") /\ result' = [result EXCEPT ![i] = r]
-----------------------------------------------------------------------------
TInit ==
  /\ \E j \in Jobs : job = j /\ Fresh(j.shape)
  /\ tpc = [i \in Indices |-> "idle"]
  /\ toolIdx = [t \in Tools |-> 0]
  /\ served = [t \in Tools |-> {}]
  /\ disk \in [Paths -> {[there |-> FALSE, bytes |-> <<>>],
                         [there |-> TRUE, bytes |-> [n \in 1 .. MaxBytes + 1 |-> 0]]}]
  /\ seen = [i \in Indices |-> 0]
  /\ args = [i \in Indices |-> [path |-> CHOOSE p \in Paths : TRUE, size |-> 0]]
  /\ size = [i \in Indices |-> 0]
  /\ text = [i \in Indices |-> <<>>]
  /\ result = [i \in Indices |-> "none"]

StartThread(i) ==
  /\ Start(i)
  /\ Goes(i, "selecting")
  /\ UNCHANGED <<job, toolIdx, ovars, disk, served>>

(* Selector.choose_tool and FakeProvider._select. *)

UnknownTool(i) ==
  /\ tpc[i] = "selecting" /\ Hint(i) \notin Tools
  /\ Settle(i, "no_tool_for_subtask")
  /\ UNCHANGED <<svars, job, toolIdx, seen, args, size, text, disk, served>>

\* per_tool = tool_idx_map.get(tool_name, 0)
ReadPosition(i) ==
  /\ tpc[i] = "selecting" /\ Hint(i) \in Tools
  /\ seen' = [seen EXCEPT ![i] = toolIdx[Hint(i)]]
  /\ Goes(i, "answering")
  /\ UNCHANGED <<svars, job, toolIdx, args, size, text, result, disk, served>>

\* Mutant of WritePosition: the position is counted up where it is by then.
CountPosition(i) ==
  /\ tpc[i] = "answering"
  /\ args' = [args EXCEPT ![i] = Clamped(job.script[Hint(i)], seen[i])]
  /\ toolIdx' = [toolIdx EXCEPT ![Hint(i)] = @ + 1]
  /\ served' = [served EXCEPT ![Hint(i)] = @ \cup {seen[i]}]
  /\ Goes(i, "invoking")
  /\ UNCHANGED <<svars, job, seen, size, text, result, disk>>

\* tool_idx_map[tool_name] = per_tool + 1, whatever it is by then.
WritePosition(i) ==
  /\ tpc[i] = "answering"
  /\ args' = [args EXCEPT ![i] = Clamped(job.script[Hint(i)], seen[i])]
  /\ toolIdx' = [toolIdx EXCEPT ![Hint(i)] = seen[i] + 1]
  /\ served' = [served EXCEPT ![Hint(i)] = @ \cup {seen[i]}]
  /\ Goes(i, "invoking")
  /\ UNCHANGED <<svars, job, seen, size, text, result, disk>>

(* write_file *)

TooLarge(i) ==
  /\ tpc[i] = "invoking" /\ Hint(i) = "write_file" /\ args[i].size > MaxBytes
  /\ Settle(i, "tool_returned_error")
  /\ UNCHANGED <<svars, job, toolIdx, seen, args, size, text, disk, served>>

\* Mutant of OpenFile: what is in the file stays there.
OpenFileInPlace(i) ==
  /\ tpc[i] = "invoking" /\ Hint(i) = "write_file" /\ args[i].size <= MaxBytes
  /\ disk' = [disk EXCEPT ![args[i].path].there = TRUE]
  /\ Goes(i, "writing")
  /\ UNCHANGED <<svars, job, toolIdx, ovars, served>>

\* Mutant of OpenFile: the size is not looked at.
OpenAnyFile(i) ==
  /\ tpc[i] = "invoking" /\ Hint(i) = "write_file"
  /\ disk' = [disk EXCEPT ![args[i].path] = [there |-> TRUE, bytes |-> <<>>]]
  /\ Goes(i, "writing")
  /\ UNCHANGED <<svars, job, toolIdx, ovars, served>>

\* write_bytes opens with "wb": the file is there from now on, and empty.
OpenFile(i) ==
  /\ tpc[i] = "invoking" /\ Hint(i) = "write_file" /\ args[i].size <= MaxBytes
  /\ disk' = [disk EXCEPT ![args[i].path] = [there |-> TRUE, bytes |-> <<>>]]
  /\ Goes(i, "writing")
  /\ UNCHANGED <<svars, job, toolIdx, ovars, served>>

\* Bytes written at the start of a file: the rest of it stays.
Overlay(old, new) == new \o SubSeq(old, Len(new) + 1, Len(old))

WriteBytes(i) ==
  /\ tpc[i] = "writing"
  /\ disk' = [disk EXCEPT ![args[i].path].bytes = Overlay(@, Bytes(i))]
  /\ Goes(i, "back")
  /\ UNCHANGED <<svars, job, toolIdx, ovars, served>>

(* read_file, by itself or as the first step of summarize_document *)

NotAFile(i) ==
  /\ tpc[i] = "invoking" /\ Hint(i) \in Readers /\ ~File(i).there
  /\ Settle(i, "tool_returned_error")
  /\ UNCHANGED <<svars, job, toolIdx, seen, args, size, text, disk, served>>

IsFile(i) ==
  /\ tpc[i] = "invoking" /\ Hint(i) \in Readers /\ File(i).there
  /\ Goes(i, "found")
  /\ UNCHANGED <<svars, job, toolIdx, ovars, disk, served>>

\* stat().st_size against max_file_bytes.
Stat(i) ==
  /\ tpc[i] = "found"
  /\ size' = [size EXCEPT ![i] = Len(File(i).bytes)]
  /\ IF size'[i] > MaxBytes
       THEN Settle(i, "tool_returned_error")
       ELSE Goes(i, "reading") /\ UNCHANGED result
  /\ UNCHANGED <<svars, job, toolIdx, seen, args, text, disk, served>>

\* summarize_document goes on with summarize, whose input must not be empty, and
\* finish: what fails in a step of ComposedTool.invoke is one ToolInvocationError.
InnerStepFails(i) == Hint(i) = "summarize_document" /\ text'[i] = <<>>

\* read_text
ReadText(i) ==
  /\ tpc[i] = "reading"
  /\ text' = [text EXCEPT ![i] = File(i).bytes]
  /\ IF InnerStepFails(i)
       THEN Settle(i, "tool_returned_error")
       ELSE Goes(i, "back") /\ UNCHANGED result
  /\ UNCHANGED <<svars, job, toolIdx, seen, args, size, disk, served>>

FinishTool(i) ==
  /\ tpc[i] = "invoking" /\ Hint(i) = "finish"
  /\ Goes(i, "back")
  /\ UNCHANGED <<svars, job, toolIdx, ovars, disk, served>>

(* The guard's look at the time, the validator, and the end of the thread. *)

TimedOut(i) ==
  /\ tpc[i] = "back"
  /\ Settle(i, "timeout")
  /\ UNCHANGED <<svars, job, toolIdx, seen, args, size, text, disk, served>>

Validate(i) ==
  /\ tpc[i] = "back"
  /\ Settle(i, "valid")
  /\ UNCHANGED <<svars, job, toolIdx, seen, args, size, text, disk, served>>

\* The outcome of the task: that of finish, of another tool, or a failure.
OutcomeOf(i) ==
  IF result[i] # "valid" THEN "failed" ELSE IF Hint(i) = "finish" THEN "finish" ELSE "plain"

Return(i) ==
  /\ tpc[i] = "returning"
  /\ Finish(i) /\ outcome'[i] = OutcomeOf(i)
  /\ Goes(i, "gone")
  /\ UNCHANGED <<job, toolIdx, ovars, disk, served>>

Select(i) == UnknownTool(i) \/ ReadPosition(i) \/ WritePosition(i)
Invoke(i) == TooLarge(i) \/ OpenFile(i) \/ WriteBytes(i) \/ NotAFile(i) \/ IsFile(i)
             \/ Stat(i) \/ ReadText(i) \/ FinishTool(i)
Thread(i) == StartThread(i) \/ Select(i) \/ Invoke(i) \/ TimedOut(i) \/ Validate(i) \/ Return(i)

Loop == Coroutine /\ UNCHANGED <<job, tpc, toolIdx, ovars, disk, served>>

TNext == Loop \/ (\E i \in Indices : Thread(i))
         \/ (spc \in Ended /\ UNCHANGED tvars)

TSpec == TInit /\ [][TNext]_tvars
-----------------------------------------------------------------------------
(* Properties. *)

\* The subtasks that come before i by the dependencies of the plan: those in every
\* set that holds the dependencies of i and, with a subtask, its dependencies.
Before(i) ==
  {j \in Indices : \A S \in SUBSET Indices :
     (\A k \in S \cup {i} : Dependencies(k) \subseteq S) => j \in S}

Invoked == {i \in Indices : tpc[i] \notin {"idle", "selecting", "answering"}}

Writers(p) ==
  {i \in Invoked : Hint(i) = "write_file" /\ args[i].path = p /\ args[i].size <= MaxBytes}

\* Threads that read the same position of the script get the same arguments
\* and may even set it back, but none sets it past arguments nobody has got:
\* a plan that runs in parallel repeats steps of its script and skips none.
ScriptNeverSkips == \A t \in Tools : 0 .. toolIdx[t] - 1 \subseteq served[t]

\* No output holds more than max_file_bytes of a file, though the size a thread
\* compares may be that of other contents than those it reads.
ReadsWithinCap == \A i \in Indices : Len(text[i]) <= MaxBytes

\* A subtask that reads a file which one subtask before it has written last,
\* any other writer being before that one or after the reader, reads all of
\* that and nothing else, and fails only by being slow.  So it is for
\* summarize_document, which is three tool calls in one.
ReadAfterWrite ==
  \A i \in Invoked :
    Hint(i) \in Readers /\ tpc[i] \in {"back", "returning", "gone"} =>
      \A j \in Writers(args[i].path) \cap Before(i) :
        /\ args[j].size > 0
        /\ \A k \in Writers(args[i].path) \ {j} : k \in Before(j) \/ i \in Before(k)
        => /\ result[i] # "tool_returned_error"
           /\ text[i] = Bytes(j) /\ size[i] = Len(text[i])

\* When the threads have ended a file holds what its last writer wrote, if one
\* is the last by the dependencies, also when that call was a timeout.
LastWriteStays ==
  spc \in Ended /\ running = {} =>
    \A p \in Paths : \A j \in Writers(p) :
      (\A k \in Writers(p) \ {j} : k \in Before(j)) => disk[p].bytes = Bytes(j)
=============================================================================
