------------------------ MODULE SubtaskThreadsProofs ------------------------
(***************************************************************************)
(* Proofs about SubtaskThreads, for every plan, script, cap and number of  *)
(* threads: its steps are steps of Scheduler, no position of the script is *)
(* skipped, no output is longer than the cap, and a file has one text for  *)
(* all that depend on its last writer.                                     *)
(***************************************************************************)
EXTENDS SubtaskThreads, SchedulerProofs

-----------------------------------------------------------------------------
(* The threads implement Scheduler. *)

\* A thread's steps but its first and its last are none of the scheduler's.
LEMMA ThreadSteps ==
  ASSUME NEW i, Thread(i)
  PROVE  Start(i) \/ Finish(i) \/ UNCHANGED svars
  BY DEF Thread, StartThread, Return, Select, Invoke, UnknownTool, ReadPosition,
         WritePosition, TooLarge, OpenFile, WriteBytes, NotAFile, IsFile, Stat, ReadText,
         FinishTool, TimedOut, Validate

LEMMA SchedulerStep == [TNext]_tvars => [Next]_svars
  BY ThreadSteps DEF TNext, tvars, Loop, Next, TaskStep

\* _select_and_invoke in its threads, under run_parallel, is what Scheduler says
\* of it, so that all that holds of Scheduler holds here.
THEOREM ThreadsImplementScheduler == TSpec => Spec
  <1>1. TInit => Init
    BY JobsAssumption DEF TInit, Init
  <1> QED
    BY <1>1, SchedulerStep, PTL DEF TSpec, Spec

-----------------------------------------------------------------------------
(* Types: what a thread gets is of the script, and the plan stays. *)

Places == {"idle", "selecting", "answering", "invoking", "writing", "found", "reading",
           "back", "returning", "gone"}
File0  == [there : BOOLEAN, bytes : Seq(Nat)]

TypesInv ==
  /\ job \in Jobs
  /\ tpc \in [Indices -> Places]
  /\ toolIdx \in [Tools -> Nat]
  /\ served \in [Tools -> SUBSET Nat]
  /\ seen \in [Indices -> Nat] /\ size \in [Indices -> Nat]
  /\ args \in [Indices -> Args]
  /\ text \in [Indices -> Seq(Nat)]
  /\ disk \in [Paths -> File0]
  /\ \A i \in Indices : tpc[i] = "answering" => Hint(i) \in Tools

LEMMA PlanStays == [TNext]_tvars => plan' = plan /\ job' = job /\ Indices' = Indices
  BY ThreadSteps
  DEF TNext, tvars, svars, Loop, Coroutine, Schedule, Collect, CollectFailure, CollectRaise,
      Drain, Start, Finish, Indices, Thread, StartThread, Return, Select, Invoke,
      UnknownTool, ReadPosition, WritePosition, TooLarge, OpenFile, WriteBytes, NotAFile,
      IsFile, Stat, ReadText, FinishTool, TimedOut, Validate

\* Where a thread goes, and that the others stay where they are.
LEMMA Moved ==
  ASSUME TypesInv, NEW i \in Indices, NEW there \in Places, Goes(i, there)
  PROVE  /\ tpc' \in [Indices -> Places]
         /\ tpc'[i] = there
         /\ \A k \in Indices : k # i => tpc'[k] = tpc[k]
  BY DEF TypesInv, Goes

\* An answer of the provider is one of the arguments in its script.
LEMMA AnswerTyped ==
  ASSUME TypesInv, NEW t \in Tools, NEW n \in Nat
  PROVE  Clamped(job.script[t], n) \in Args
<1>1. job.script[t] \in Seq(Args) /\ job.script[t] # <<>>
  BY JobsAssumption DEF TypesInv
<1> DEFINE list == job.script[t]
<1>2. Len(list) \in Nat /\ Len(list) > 0 /\ \A k \in 1 .. Len(list) : list[k] \in Args
  BY <1>1
<1> QED
  BY <1>2 DEF Clamped

\* What is written is as long as its argument says, and what is laid over a
\* file is as long as the longer of the two.
LEMMA OverlayLength ==
  ASSUME NEW old \in Seq(Nat), NEW new \in Seq(Nat)
  PROVE  /\ Overlay(old, new) \in Seq(Nat)
         /\ Len(Overlay(old, new)) = IF Len(new) <= Len(old) THEN Len(old) ELSE Len(new)
<1>1. SubSeq(old, Len(new) + 1, Len(old)) \in Seq(Nat)
  OBVIOUS
<1>2. Len(SubSeq(old, Len(new) + 1, Len(old)))
        = IF Len(new) <= Len(old) THEN Len(old) - Len(new) ELSE 0
  OBVIOUS
<1> QED
  BY <1>1, <1>2 DEF Overlay

LEMMA BytesTyped ==
  ASSUME TypesInv, NEW i \in Indices
  PROVE  Bytes(i) \in Seq(Nat) /\ Len(Bytes(i)) = args[i].size
<1>1. args[i] \in Args
  BY DEF TypesInv
<1>2. args[i].size \in Nat /\ i \in Nat
  BY <1>1 DEF Args, Indices
<1> QED
  BY <1>2 DEF Bytes

LEMMA TypesInit == TInit => TypesInv
<1> SUFFICES ASSUME TInit PROVE TypesInv
  OBVIOUS
<1>1. job \in Jobs
  BY DEF TInit
<1>2. args \in [Indices -> Args]
  <2>1. job.script["finish"] \in Seq(Args) /\ job.script["finish"] # <<>>
    BY <1>1, JobsAssumption DEF Tools
  <2>2. job.script["finish"][1] \in Args
    BY <2>1
  <2>3. (CHOOSE p \in Paths : TRUE) \in Paths
    BY <2>2 DEF Args
  <2> QED
    BY <2>3 DEF TInit, Args
<1>3. disk \in [Paths -> File0]
  <2>1. [there |-> FALSE, bytes |-> <<>>] \in File0
    BY DEF File0
  <2>2. [there |-> TRUE, bytes |-> [n \in 1 .. MaxBytes + 1 |-> 0]] \in File0
    BY BytesAssumption DEF File0
  <2> QED
    BY <2>1, <2>2 DEF TInit
<1>4. /\ tpc \in [Indices -> Places] /\ \A k \in Indices : tpc[k] = "idle"
      /\ toolIdx \in [Tools -> Nat] /\ served \in [Tools -> SUBSET Nat]
      /\ seen \in [Indices -> Nat] /\ size \in [Indices -> Nat] /\ text \in [Indices -> Seq(Nat)]
  BY DEF TInit, Places
<1> QED
  BY <1>1, <1>2, <1>3, <1>4 DEF TypesInv

\* What a thread does keeps the types.
LEMMA TypesStep == TypesInv /\ [TNext]_tvars => TypesInv'
<1> SUFFICES ASSUME TypesInv, [TNext]_tvars PROVE TypesInv'
  OBVIOUS
<1>p. plan' = plan /\ job' = job /\ Indices' = Indices
  BY PlanStays
<1> USE <1>p
<1>1. CASE UNCHANGED <<job, tpc, toolIdx, ovars, disk, served>>
  BY <1>1 DEF TypesInv, ovars, Hint
<1>2. ASSUME NEW i \in Indices, Thread(i) PROVE TypesInv'
  <2>h. \A k \in Indices : Hint(k)' = Hint(k)
    BY DEF Hint
  <2>a. args[i] \in Args /\ args[i].path \in Paths /\ args[i].size \in Nat
    BY DEF TypesInv, Args
  <2>f. File(i) \in File0 /\ File(i).bytes \in Seq(Nat)
    BY <2>a DEF TypesInv, File, File0
  <2>1. ASSUME NEW there \in Places \ {"answering"}, Goes(i, there)
        PROVE  /\ tpc' \in [Indices -> Places]
               /\ \A k \in Indices : tpc'[k] = "answering" => Hint(k) \in Tools
    BY <2>1, Moved DEF TypesInv
  <2>2. ASSUME NEW there \in Places \ {"answering"}, Goes(i, there),
               UNCHANGED <<toolIdx, seen, args, size, text, disk, served>>
        PROVE  TypesInv'
    BY <2>1, <2>2, <2>h DEF TypesInv
  <2>3. CASE StartThread(i) \/ IsFile(i) \/ FinishTool(i) \/ Return(i)
    BY <2>2, <2>3 DEF Places, StartThread, IsFile, FinishTool, Return, ovars
  <2>4. CASE UnknownTool(i) \/ TooLarge(i) \/ NotAFile(i) \/ TimedOut(i) \/ Validate(i)
    BY <2>2, <2>4 DEF Places, UnknownTool, TooLarge, NotAFile, TimedOut, Validate, Settle
  <2>5. CASE Stat(i)
    <3>1. size' \in [Indices -> Nat]
      BY <2>5, <2>f DEF Stat, TypesInv
    <3>2. \E there \in {"returning", "reading"} : Goes(i, there)
      BY <2>5 DEF Stat, Settle
    <3> QED
      BY <2>1, <2>5, <2>h, <3>1, <3>2 DEF Stat, TypesInv, Places
  <2>6. CASE ReadPosition(i)
    <3>1. /\ Hint(i) \in Tools /\ Goes(i, "answering")
          /\ seen' = [seen EXCEPT ![i] = toolIdx[Hint(i)]]
          /\ UNCHANGED <<toolIdx, args, size, text, disk, served>>
      BY <2>6 DEF ReadPosition
    <3>2. seen' \in [Indices -> Nat]
      BY <3>1 DEF TypesInv
    <3>3. /\ tpc' \in [Indices -> Places]
          /\ \A k \in Indices : tpc'[k] = "answering" => Hint(k) \in Tools
      BY <3>1, Moved DEF TypesInv, Places
    <3> QED
      BY <2>h, <3>1, <3>2, <3>3 DEF TypesInv
  <2>7. CASE WritePosition(i)
    <3>1. /\ Hint(i) \in Tools /\ seen[i] \in Nat /\ Goes(i, "invoking")
          /\ args' = [args EXCEPT ![i] = Clamped(job.script[Hint(i)], seen[i])]
          /\ toolIdx' = [toolIdx EXCEPT ![Hint(i)] = seen[i] + 1]
          /\ served' = [served EXCEPT ![Hint(i)] = @ \cup {seen[i]}]
          /\ UNCHANGED <<seen, size, text, disk>>
      BY <2>7 DEF WritePosition, TypesInv
    <3>2. args' \in [Indices -> Args]
      BY <3>1, AnswerTyped DEF TypesInv
    <3>3. toolIdx' \in [Tools -> Nat] /\ served' \in [Tools -> SUBSET Nat]
      BY <3>1 DEF TypesInv
    <3> QED
      BY <2>1, <2>h, <3>1, <3>2, <3>3 DEF TypesInv, Places
  <2>8. CASE OpenFile(i) \/ WriteBytes(i)
    <3>1. disk' \in [Paths -> File0]
      <4>1. CASE OpenFile(i)
        <5>1. [there |-> TRUE, bytes |-> <<>>] \in File0
          BY DEF File0
        <5> QED
          BY <4>1, <5>1 DEF OpenFile, TypesInv
      <4>2. CASE WriteBytes(i)
        <5>1. Overlay(File(i).bytes, Bytes(i)) \in Seq(Nat)
          BY <2>f, BytesTyped, OverlayLength
        <5>2. [File(i) EXCEPT !.bytes = Overlay(File(i).bytes, Bytes(i))] \in File0
          BY <2>f, <5>1 DEF File0
        <5>3. disk' = [disk EXCEPT ![args[i].path] =
                         [File(i) EXCEPT !.bytes = Overlay(File(i).bytes, Bytes(i))]]
          BY <4>2 DEF WriteBytes, File
        <5> QED
          BY <5>2, <5>3 DEF TypesInv
      <4> QED
        BY <2>8, <4>1, <4>2
    <3>2. \E there \in {"writing", "back"} : Goes(i, there)
      BY <2>8 DEF OpenFile, WriteBytes
    <3> QED
      BY <2>1, <2>8, <2>h, <3>1, <3>2 DEF OpenFile, WriteBytes, ovars, TypesInv, Places
  <2>9. CASE ReadText(i)
    <3>1. text' \in [Indices -> Seq(Nat)]
      BY <2>9, <2>f DEF ReadText, TypesInv
    <3>2. \E there \in {"returning", "back"} : Goes(i, there)
      BY <2>9 DEF ReadText, Settle
    <3> QED
      BY <2>1, <2>9, <2>h, <3>1, <3>2 DEF ReadText, TypesInv, Places
  <2> QED
    BY <1>2, <2>3, <2>4, <2>5, <2>6, <2>7, <2>8, <2>9 DEF Thread, Select, Invoke
<1> QED
  BY <1>1, <1>2 DEF TNext, tvars, Loop
-----------------------------------------------------------------------------
(* The script: what is below a position that a thread holds is handed out. *)

ScriptInv ==
  /\ ScriptNeverSkips
  /\ \A i \in Indices : tpc[i] = "answering" => 0 .. seen[i] - 1 \subseteq served[Hint(i)]

LEMMA ScriptStep == TypesInv /\ ScriptInv /\ [TNext]_tvars => ScriptInv'
<1> SUFFICES ASSUME TypesInv, ScriptInv, [TNext]_tvars PROVE ScriptInv'
  OBVIOUS
<1>p. plan' = plan /\ job' = job /\ Indices' = Indices
  BY PlanStays
<1>h. \A k \in Indices : Hint(k)' = Hint(k)
  BY <1>p DEF Hint
<1>1. CASE UNCHANGED <<tpc, toolIdx, seen, served>>
  BY <1>1, <1>p, <1>h DEF ScriptInv, ScriptNeverSkips
<1>2. ASSUME NEW i \in Indices, Thread(i) PROVE ScriptInv'
  <2>1. ASSUME NEW there \in Places \ {"answering"}, Goes(i, there),
               UNCHANGED <<toolIdx, seen, served>>
        PROVE  ScriptInv'
    BY <2>1, <1>p, <1>h, Moved DEF ScriptInv, ScriptNeverSkips
  <2>2. CASE ReadPosition(i)
    <3>1. /\ Hint(i) \in Tools /\ Goes(i, "answering")
          /\ seen' = [seen EXCEPT ![i] = toolIdx[Hint(i)]]
          /\ UNCHANGED <<toolIdx, served>>
      BY <2>2 DEF ReadPosition
    <3>2. seen'[i] = toolIdx[Hint(i)] /\ \A k \in Indices : k # i => seen'[k] = seen[k]
      BY <3>1 DEF TypesInv
    <3>3. \A k \in Indices : k # i => tpc'[k] = tpc[k]
      BY <3>1, Moved DEF Places
    <3> QED
      BY <1>p, <1>h, <3>1, <3>2, <3>3 DEF ScriptInv, ScriptNeverSkips
  <2>3. CASE WritePosition(i)
    <3> DEFINE tool == Hint(i)
    <3>1. /\ tool \in Tools /\ seen[i] \in Nat /\ Goes(i, "invoking")
          /\ 0 .. seen[i] - 1 \subseteq served[tool]
          /\ toolIdx' = [toolIdx EXCEPT ![tool] = seen[i] + 1]
          /\ served' = [served EXCEPT ![tool] = @ \cup {seen[i]}]
          /\ UNCHANGED seen
      BY <2>3 DEF WritePosition, TypesInv, ScriptInv
    <3> HIDE DEF tool
    <3>2. /\ toolIdx'[tool] = seen[i] + 1 /\ served'[tool] = served[tool] \cup {seen[i]}
          /\ \A t \in Tools : t # tool => toolIdx'[t] = toolIdx[t] /\ served'[t] = served[t]
      BY <3>1 DEF TypesInv
    <3>3. 0 .. seen[i] \subseteq served'[tool]
      <4>1. 0 .. seen[i] = 0 .. seen[i] - 1 \cup {seen[i]}
        BY <3>1
      <4> QED
        BY <3>1, <3>2, <4>1
    <3>4. ScriptNeverSkips'
      <4>1. toolIdx'[tool] - 1 = seen[i]
        BY <3>1, <3>2
      <4> QED
        BY <3>2, <3>3, <4>1 DEF ScriptInv, ScriptNeverSkips
    <3>5. ASSUME NEW k \in Indices, tpc'[k] = "answering"
          PROVE  0 .. seen'[k] - 1 \subseteq served'[Hint(k)']
      <4>1. tpc[k] = "answering"
        BY <3>1, <3>5, Moved DEF Places
      <4>2. Hint(k) \in Tools /\ 0 .. seen[k] - 1 \subseteq served[Hint(k)]
        BY <4>1 DEF ScriptInv, TypesInv
      <4>3. served[Hint(k)] \subseteq served'[Hint(k)]
        BY <3>2, <4>2
      <4> QED
        BY <1>h, <3>1, <4>2, <4>3
    <3> QED
      BY <1>p, <3>4, <3>5 DEF ScriptInv
  <2>4. CASE StartThread(i) \/ IsFile(i) \/ FinishTool(i) \/ Return(i) \/ OpenFile(i)
             \/ WriteBytes(i)
    BY <2>1, <2>4 DEF StartThread, IsFile, FinishTool, Return, OpenFile, WriteBytes, ovars,
                      Places
  <2>5. CASE UnknownTool(i) \/ TooLarge(i) \/ NotAFile(i) \/ TimedOut(i) \/ Validate(i)
    BY <2>1, <2>5 DEF UnknownTool, TooLarge, NotAFile, TimedOut, Validate, Settle, Places
  <2>6. CASE Stat(i) \/ ReadText(i)
    BY <2>1, <2>6 DEF Stat, ReadText, Settle, Places
  <2> QED
    BY <1>2, <2>2, <2>3, <2>4, <2>5, <2>6 DEF Thread, Select, Invoke
<1> QED
  BY <1>1, <1>2 DEF TNext, tvars, ovars, Loop

\* However many threads read and write back the provider's tool_idx
\* (FakeProvider._select) in whatever order: it never passes arguments that
\* were not handed out.
THEOREM ScriptSafety == TSpec => []ScriptNeverSkips
<1>1. TInit => TypesInv /\ ScriptInv
  <2> SUFFICES ASSUME TInit PROVE ScriptInv
    BY TypesInit
  <2> QED
    BY DEF TInit, ScriptInv, ScriptNeverSkips
<1>2. TypesInv /\ ScriptInv /\ [TNext]_tvars => (TypesInv /\ ScriptInv)'
  BY TypesStep, ScriptStep
<1>3. ScriptInv => ScriptNeverSkips
  BY DEF ScriptInv
<1> QED
  BY <1>1, <1>2, <1>3, PTL DEF TSpec
-----------------------------------------------------------------------------
(* The cap: a file whose size was within it stays within it. *)

\* A thread that writes writes no more than the cap, and a file that was small
\* enough for a thread to read is small enough when the thread reads it.
CapInv ==
  /\ ReadsWithinCap
  /\ \A i \in Indices :
       /\ tpc[i] = "writing" => args[i].size <= MaxBytes
       /\ tpc[i] = "reading" => Len(File(i).bytes) <= MaxBytes

\* No step makes a file longer than the cap that was not.
LEMMA FilesStayShort ==
  ASSUME TypesInv, CapInv, [TNext]_tvars, NEW p \in Paths, Len(disk[p].bytes) <= MaxBytes
  PROVE  Len(disk'[p].bytes) <= MaxBytes
<1>1. CASE disk' = disk
  BY <1>1
<1>2. ASSUME NEW i \in Indices, OpenFile(i)
      PROVE  Len(disk'[p].bytes) <= MaxBytes
  <2>1. disk'[p] = disk[p] \/ disk'[p] = [there |-> TRUE, bytes |-> <<>>]
    BY <1>2 DEF OpenFile, TypesInv
  <2> QED
    BY <2>1, BytesAssumption
<1>3. ASSUME NEW i \in Indices, WriteBytes(i)
      PROVE  Len(disk'[p].bytes) <= MaxBytes
  <2> DEFINE new == Overlay(disk[p].bytes, Bytes(i))
  <2>1. disk[p] \in File0 /\ args[i].size <= MaxBytes
    BY <1>3 DEF TypesInv, CapInv, WriteBytes
  <2>2. Len(new) <= MaxBytes
    BY <2>1, BytesTyped, OverlayLength DEF File0
  <2>3. disk'[p] = disk[p] \/ disk'[p] = [disk[p] EXCEPT !.bytes = new]
    BY <1>3 DEF WriteBytes, TypesInv
  <2>4. [disk[p] EXCEPT !.bytes = new].bytes = new
    BY <2>1 DEF File0
  <2> HIDE DEF new
  <2> QED
    BY <2>2, <2>3, <2>4
<1> QED
  BY <1>1, <1>2, <1>3
  DEF TNext, tvars, Loop, Thread, StartThread, Select, Invoke, UnknownTool, ReadPosition,
      WritePosition, TooLarge, NotAFile, IsFile, Stat, ReadText, FinishTool, TimedOut,
      Validate, Return

LEMMA CapStep == TypesInv /\ CapInv /\ [TNext]_tvars => CapInv'
<1> SUFFICES ASSUME TypesInv, CapInv, [TNext]_tvars PROVE CapInv'
  OBVIOUS
<1>p. plan' = plan /\ job' = job /\ Indices' = Indices
  BY PlanStays
<1>t. \A k \in Indices : args[k] \in Args /\ args[k].path \in Paths
  BY DEF TypesInv, Args
\* What no thread but i can disturb.
<1>k. ASSUME NEW k \in Indices, args'[k] = args[k], tpc'[k] = tpc[k], text'[k] = text[k]
      PROVE  /\ Len(text'[k]) <= MaxBytes
             /\ tpc'[k] = "writing" => args'[k].size <= MaxBytes
             /\ tpc'[k] = "reading" => Len(disk'[args'[k].path].bytes) <= MaxBytes
  BY <1>t, <1>k, FilesStayShort DEF CapInv, ReadsWithinCap, File
<1>1. CASE UNCHANGED <<tpc, args, text, disk>>
  BY <1>p, <1>1, <1>k DEF CapInv, ReadsWithinCap, File
<1>2. ASSUME NEW i \in Indices, Thread(i) PROVE CapInv'
  <2>1. ASSUME NEW k \in Indices, k # i
        PROVE  args'[k] = args[k] /\ tpc'[k] = tpc[k] /\ text'[k] = text[k]
    BY <1>2, <2>1
    DEF TypesInv, Thread, StartThread, Select, Invoke, UnknownTool, ReadPosition,
        WritePosition, TooLarge, OpenFile, WriteBytes, NotAFile, IsFile, Stat, ReadText,
        FinishTool, TimedOut, Validate, Return, Settle, Goes, ovars
  <2>2. /\ Len(text'[i]) <= MaxBytes
        /\ tpc'[i] = "writing" => args'[i].size <= MaxBytes
        /\ tpc'[i] = "reading" => Len(disk'[args'[i].path].bytes) <= MaxBytes
    <3>t. Len(text[i]) <= MaxBytes
      BY DEF CapInv, ReadsWithinCap
    <3>1. ASSUME NEW there \in Places \ {"writing", "reading"}, Goes(i, there),
                 text' = text
          PROVE  /\ Len(text'[i]) <= MaxBytes
                 /\ tpc'[i] \notin {"writing", "reading"}
      BY <3>t, <3>1, Moved
    <3>2. CASE ReadPosition(i) \/ WritePosition(i) \/ WriteBytes(i) \/ StartThread(i)
               \/ IsFile(i) \/ FinishTool(i) \/ Return(i)
      BY <3>1, <3>2 DEF ReadPosition, WritePosition, WriteBytes, StartThread, IsFile,
                        FinishTool, Return, ovars, Places
    <3>3. CASE UnknownTool(i) \/ TooLarge(i) \/ NotAFile(i) \/ TimedOut(i) \/ Validate(i)
      BY <3>1, <3>3 DEF UnknownTool, TooLarge, NotAFile, TimedOut, Validate, Settle, Places
    <3>4. CASE OpenFile(i)
      <4>1. tpc'[i] = "writing" /\ args[i].size <= MaxBytes /\ UNCHANGED <<args, text>>
        BY <3>4, Moved DEF OpenFile, ovars, Places
      <4> QED
        BY <3>t, <4>1
    <3>5. CASE Stat(i)
      <4>1. CASE size'[i] > MaxBytes
        BY <3>1, <3>5, <4>1 DEF Stat, Settle, Places
      <4>2. CASE ~(size'[i] > MaxBytes)
        <5>1. tpc'[i] = "reading" /\ UNCHANGED <<args, text, disk>>
          BY <3>5, <4>2, Moved DEF Stat, Places
        <5>2. Len(File(i).bytes) <= MaxBytes
          <6>1. size'[i] = Len(File(i).bytes)
            BY <3>5 DEF Stat, TypesInv
          <6>2. Len(File(i).bytes) \in Nat
            BY <1>t DEF TypesInv, File, File0
          <6> QED
            BY <4>2, <6>1, <6>2, BytesAssumption
        <5> QED
          BY <3>t, <5>1, <5>2 DEF File
      <4> QED
        BY <4>1, <4>2
    <3>6. CASE ReadText(i)
      <4>1. text'[i] = File(i).bytes /\ Len(File(i).bytes) <= MaxBytes
        BY <3>6 DEF ReadText, TypesInv, CapInv
      <4>2. tpc'[i] \in {"returning", "back"}
        BY <3>6, Moved DEF ReadText, Settle, Places
      <4> QED
        BY <4>1, <4>2
    <3> QED
      BY <1>2, <3>2, <3>3, <3>4, <3>5, <3>6 DEF Thread, Select, Invoke
  <2>3. \A k \in Indices :
          /\ Len(text'[k]) <= MaxBytes
          /\ tpc'[k] = "writing" => args'[k].size <= MaxBytes
          /\ tpc'[k] = "reading" => Len(disk'[args'[k].path].bytes) <= MaxBytes
    BY <1>k, <2>1, <2>2
  <2> QED
    BY <1>p, <2>3 DEF CapInv, ReadsWithinCap, File
<1> QED
  BY <1>1, <1>2 DEF TNext, tvars, ovars, Loop

\* read_file compares one size and reads later (stat, then read_text): no output
\* exceeds max_file_bytes even so, because every writer keeps the same cap.
THEOREM CapSafety == TSpec => []ReadsWithinCap
<1>1. TInit => TypesInv /\ CapInv
  <2> SUFFICES ASSUME TInit PROVE CapInv
    BY TypesInit
  <2> QED
    BY BytesAssumption DEF TInit, CapInv, ReadsWithinCap
<1>2. TypesInv /\ CapInv /\ [TNext]_tvars => (TypesInv /\ CapInv)'
  BY TypesStep, CapStep
<1>3. CapInv => ReadsWithinCap
  BY DEF CapInv
<1> QED
  BY <1>1, <1>2, <1>3, PTL DEF TSpec
-----------------------------------------------------------------------------
(* The files: a thread runs only when those its subtask depends on have ended. *)

Results == {"none", "no_tool_for_subtask", "tool_returned_error", "timeout", "valid"}

\* A thread is where its task and its tool can have brought it.
PlaceInv ==
  /\ result \in [Indices -> Results]
  /\ \A i \in Indices :
       /\ tpc[i] # "idle" => i \in scheduled \ waiting
       /\ tpc[i] \in {"idle", "gone"} \/ i \in running
       /\ outcome[i] # "none" => tpc[i] = "gone"
       /\ tpc[i] \in {"found", "reading"} => Hint(i) \in Readers
       /\ tpc[i] = "writing" => Hint(i) = "write_file"
       /\ tpc[i] \notin {"returning", "gone"} => result[i] = "none"

\* A subtask that has a task comes after others that have ended.
LEMMA BeforeDone ==
  ASSUME SInv, PlaceInv, NEW i \in Indices, i \in scheduled, NEW j \in Before(i)
  PROVE  tpc[j] = "gone"
<1>1. STypeOK /\ DependenciesRespected
  BY DEF SInv
<1>2. completed \subseteq Indices /\ completed \subseteq scheduled
  BY <1>1 DEF STypeOK
<1>3. \A k \in completed \cup {i} : Dependencies(k) \subseteq completed
  <2>1. ASSUME NEW k \in scheduled, NEW d \in Dependencies(k) PROVE d \in completed
    <3>1. k \in Indices /\ d \in Indices
      BY <1>1, PlanShape DEF STypeOK
    <3>2. d < k /\ (d \in plan[k].dependencies \/ Sequential(k))
      BY <1>1, <3>1, DependsOn
    <3> QED BY <1>1, <3>1, <3>2 DEF DependenciesRespected
  <2> QED BY <1>2, <2>1
<1>4. j \in completed
  BY <1>2, <1>3 DEF Before
<1> QED
  BY <1>1, <1>2, <1>4 DEF STypeOK, PlaceInv

\* A step of one thread leaves what the others hold.
LEMMA OthersStay ==
  ASSUME TypesInv, PlaceInv, NEW i \in Indices, Thread(i), NEW k \in Indices, k # i
  PROVE  /\ tpc'[k] = tpc[k] /\ args'[k] = args[k] /\ result'[k] = result[k]
         /\ text'[k] = text[k] /\ size'[k] = size[k]
  BY DEF TypesInv, PlaceInv, Thread, StartThread, Select, Invoke, UnknownTool, ReadPosition,
         WritePosition, TooLarge, OpenFile, WriteBytes, NotAFile, IsFile, Stat, ReadText,
         FinishTool, TimedOut, Validate, Return, Settle, Goes, ovars

\* What a settled thread returns.
LEMMA Settled ==
  ASSUME TypesInv, PlaceInv, NEW i \in Indices, NEW r \in Results, Settle(i, r)
  PROVE  /\ tpc'[i] = "returning" /\ result'[i] = r /\ result' \in [Indices -> Results]
  BY DEF TypesInv, PlaceInv, Settle, Goes

LEMMA PlaceInit == TInit => PlaceInv
  BY DEF TInit, Fresh, PlaceInv, Results, Indices

\* The places of a thread after its own step.
LEMMA PlaceOwnStep ==
  ASSUME TypesInv, PlaceInv, SInv, NEW i \in Indices, Thread(i)
  PROVE  /\ result' \in [Indices -> Results]
         /\ tpc'[i] # "idle" => i \in scheduled' \ waiting'
         /\ tpc'[i] \in {"idle", "gone"} \/ i \in running'
         /\ outcome'[i] # "none" => tpc'[i] = "gone"
         /\ tpc'[i] \in {"found", "reading"} => Hint(i) \in Readers
         /\ tpc'[i] = "writing" => Hint(i) = "write_file"
         /\ tpc'[i] \notin {"returning", "gone"} => result'[i] = "none"
<1>s. STypeOK
  BY DEF SInv
<1>1. CASE StartThread(i)
  <2>1. /\ i \in waiting /\ waiting' = waiting \ {i} /\ running' = running \cup {i}
        /\ scheduled' = scheduled /\ outcome' = outcome /\ result' = result
        /\ tpc'[i] = "selecting"
    BY <1>1, Moved DEF StartThread, Start, ovars, Places
  <2>2. outcome[i] = "none" /\ i \in scheduled
    BY <1>s, <2>1 DEF STypeOK
  <2>3. tpc[i] = "idle"
    BY <2>1 DEF PlaceInv
  <2> QED
    BY <2>1, <2>2, <2>3 DEF PlaceInv
<1>2. CASE Return(i)
  <2>1. /\ tpc'[i] = "gone" /\ waiting' = waiting /\ scheduled' = scheduled /\ result' = result
        /\ tpc[i] = "returning"
    BY <1>2, Moved DEF Return, Finish, ovars, Places
  <2> QED
    BY <2>1 DEF PlaceInv
<1>3. ASSUME UNCHANGED svars, tpc[i] \notin {"idle", "gone"}
      PROVE  /\ i \in scheduled' \ waiting' /\ i \in running' /\ outcome'[i] = "none"
  BY <1>3 DEF svars, PlaceInv
<1>4. CASE UnknownTool(i) \/ TooLarge(i) \/ NotAFile(i) \/ TimedOut(i) \/ Validate(i)
  <2>1. \E r \in Results : Settle(i, r)
    BY <1>4 DEF UnknownTool, TooLarge, NotAFile, TimedOut, Validate, Results
  <2>2. UNCHANGED svars /\ tpc[i] \notin {"idle", "gone"}
    BY <1>4 DEF UnknownTool, TooLarge, NotAFile, TimedOut, Validate
  <2> QED
    BY <1>3, <2>1, <2>2, Settled
<1>5. CASE ReadPosition(i) \/ WritePosition(i) \/ WriteBytes(i) \/ FinishTool(i)
  <2>1. /\ UNCHANGED svars /\ result' = result /\ tpc[i] \notin {"idle", "returning", "gone"}
        /\ tpc'[i] \in {"answering", "invoking", "back"}
    BY <1>5, Moved DEF ReadPosition, WritePosition, WriteBytes, FinishTool, ovars, Places
  <2> QED
    BY <1>3, <2>1 DEF PlaceInv
<1>6. CASE OpenFile(i)
  <2>1. /\ UNCHANGED svars /\ result' = result /\ tpc[i] = "invoking" /\ tpc'[i] = "writing"
        /\ Hint(i) = "write_file"
    BY <1>6, Moved DEF OpenFile, ovars, Places
  <2> QED
    BY <1>3, <2>1 DEF PlaceInv
<1>7. CASE IsFile(i)
  <2>1. /\ UNCHANGED svars /\ result' = result /\ tpc[i] = "invoking" /\ tpc'[i] = "found"
        /\ Hint(i) \in Readers
    BY <1>7, Moved DEF IsFile, ovars, Places
  <2> QED
    BY <1>3, <2>1 DEF PlaceInv
<1>8. CASE Stat(i) \/ ReadText(i)
  <2>1. UNCHANGED svars /\ tpc[i] \in {"found", "reading"}
    BY <1>8 DEF Stat, ReadText
  <2>2. Hint(i) \in Readers /\ result[i] = "none"
    BY <2>1 DEF PlaceInv
  <2>3. \/ Settle(i, "tool_returned_error")
        \/ result' = result /\ \E there \in {"reading", "back"} : Goes(i, there)
    BY <1>8 DEF Stat, ReadText
  <2>4. CASE Settle(i, "tool_returned_error")
    BY <1>3, <2>1, <2>4, Settled DEF Results
  <2>5. CASE result' = result /\ \E there \in {"reading", "back"} : Goes(i, there)
    <3>1. tpc'[i] \in {"reading", "back"}
      BY <2>5, Moved DEF Places
    <3> QED
      BY <1>3, <2>1, <2>2, <2>5, <3>1 DEF PlaceInv
  <2> QED
    BY <2>3, <2>4, <2>5
<1> QED
  BY <1>1, <1>2, <1>4, <1>5, <1>6, <1>7, <1>8 DEF Thread, Select, Invoke

LEMMA PlaceStep == TypesInv /\ SInv /\ PlaceInv /\ [TNext]_tvars => PlaceInv'
<1> SUFFICES ASSUME TypesInv, SInv, PlaceInv, [TNext]_tvars PROVE PlaceInv'
  OBVIOUS
<1>p. plan' = plan /\ job' = job /\ Indices' = Indices /\ \A k \in Indices : Hint(k)' = Hint(k)
  BY PlanStays DEF Hint
<1>1. CASE Loop
  <2>1. /\ UNCHANGED <<tpc, result, running, outcome>>
        /\ \A k \in Indices : k \in scheduled \ waiting => k \in scheduled' \ waiting'
    BY <1>1 DEF Loop, Coroutine, Schedule, Collect, CollectFailure, CollectRaise, Drain, ovars,
                Ready
  <2> QED
    BY <1>p, <2>1 DEF PlaceInv
<1>2. ASSUME NEW i \in Indices, Thread(i) PROVE PlaceInv'
  <2>1. ASSUME NEW k \in Indices, k # i
        PROVE  /\ tpc'[k] = tpc[k] /\ result'[k] = result[k] /\ outcome'[k] = outcome[k]
               /\ k \in scheduled \ waiting => k \in scheduled' \ waiting'
               /\ k \in running => k \in running'
    <3>1. Start(i) \/ Finish(i) \/ UNCHANGED svars
      BY <1>2, ThreadSteps
    <3>2. outcome'[k] = outcome[k]
      BY <2>1, <3>1 DEF Start, Finish, svars, SInv, STypeOK
    <3>3. /\ k \in scheduled \ waiting => k \in scheduled' \ waiting'
          /\ k \in running => k \in running'
      BY <2>1, <3>1 DEF Start, Finish, svars
    <3> QED
      BY <1>2, <2>1, <3>2, <3>3, OthersStay
  <2>2. ASSUME NEW k \in Indices
        PROVE  /\ tpc'[k] # "idle" => k \in scheduled' \ waiting'
               /\ tpc'[k] \in {"idle", "gone"} \/ k \in running'
               /\ outcome'[k] # "none" => tpc'[k] = "gone"
               /\ tpc'[k] \in {"found", "reading"} => Hint(k) \in Readers
               /\ tpc'[k] = "writing" => Hint(k) = "write_file"
               /\ tpc'[k] \notin {"returning", "gone"} => result'[k] = "none"
    <3>1. CASE k = i
      BY <1>2, <3>1, PlaceOwnStep
    <3>2. CASE k # i
      BY <2>1, <3>2 DEF PlaceInv
    <3> QED
      BY <3>1, <3>2
  <2>3. result' \in [Indices -> Results]
    BY <1>2, PlaceOwnStep
  <2> QED
    BY <1>p, <2>2, <2>3 DEF PlaceInv
<1>3. CASE UNCHANGED tvars
  BY <1>p, <1>3 DEF tvars, ovars, svars, PlaceInv
<1> QED
  BY <1>1, <1>2, <1>3 DEF TNext

\* Once a thread has its arguments it keeps them.
LEMMA ArgsKept ==
  ASSUME TypesInv, PlaceInv, [TNext]_tvars, NEW k \in Invoked
  PROVE  k \in Invoked' /\ args'[k] = args[k] /\ Bytes(k)' = Bytes(k)
<1>1. Indices' = Indices /\ k \in Indices /\ tpc[k] \notin {"idle", "selecting", "answering"}
  BY PlanStays DEF Invoked
<1>2. args'[k] = args[k] /\ tpc'[k] \notin {"idle", "selecting", "answering"}
  <2>1. CASE UNCHANGED <<tpc, args>>
    BY <1>1, <2>1
  <2>2. ASSUME NEW i \in Indices, Thread(i), k # i
        PROVE  args'[k] = args[k] /\ tpc'[k] \notin {"idle", "selecting", "answering"}
    BY <1>1, <2>2, OthersStay
  <2>3. CASE Thread(k)
    <3>1. tpc[k] # "idle"
      BY <1>1
    <3>2. ~ StartThread(k)
      <4>1. k \notin waiting
        BY <1>1 DEF PlaceInv
      <4> QED
        BY <4>1 DEF StartThread, Start
    <3>3. ~ UnknownTool(k) /\ ~ ReadPosition(k) /\ ~ WritePosition(k)
      BY <1>1 DEF UnknownTool, ReadPosition, WritePosition
    <3>4. args' = args /\ \E there \in Places \ {"idle", "selecting", "answering"} : Goes(k, there)
      BY <2>3, <3>2, <3>3
      DEF Thread, Select, Invoke, TooLarge, OpenFile, WriteBytes, NotAFile, IsFile, Stat,
          ReadText, FinishTool, TimedOut, Validate, Return, Settle, ovars, Places
    <3> QED
      BY <1>1, <3>4, Moved
  <2> QED
    BY <2>1, <2>2, <2>3 DEF TNext, Loop, tvars, ovars
<1> QED
  BY <1>1, <1>2 DEF Invoked, Bytes

\* A thread that becomes one of the writers has not written yet.
LEMMA WritersGrow ==
  ASSUME TypesInv, PlaceInv, [TNext]_tvars, NEW p
  PROVE  /\ Writers(p) \subseteq Writers(p)'
         /\ \A k \in Writers(p)' : k \in Writers(p) \/ (k \notin Invoked /\ tpc'[k] = "invoking")
<1>p. Indices' = Indices /\ \A k \in Indices : Hint(k)' = Hint(k)
  BY PlanStays DEF Hint
<1>1. Writers(p) \subseteq Writers(p)'
  BY <1>p, ArgsKept DEF Writers, Invoked
<1>2. ASSUME NEW k \in Writers(p)', k \in Invoked PROVE k \in Writers(p)
  BY <1>p, <1>2, ArgsKept DEF Writers, Invoked
<1>3. ASSUME NEW k \in Writers(p)', k \notin Invoked PROVE tpc'[k] = "invoking"
  <2>1. /\ k \in Indices /\ tpc[k] \in {"idle", "selecting", "answering"}
        /\ tpc'[k] \notin {"idle", "selecting", "answering"} /\ Hint(k) \in Tools
    BY <1>p, <1>3 DEF Writers, Invoked, Tools
  <2>2. PICK i \in Indices : Thread(i)
    BY <2>1 DEF TNext, Loop, tvars
  <2>3. k = i
    BY <2>1, <2>2, OthersStay
  <2>4. \E there \in {"selecting", "answering", "invoking"} : Goes(k, there)
    BY <2>1, <2>2, <2>3
    DEF Thread, StartThread, Select, Invoke, UnknownTool, ReadPosition, WritePosition,
        TooLarge, OpenFile, WriteBytes, NotAFile, IsFile, Stat, ReadText, FinishTool,
        TimedOut, Validate, Return
  <2> QED
    BY <2>1, <2>4, Moved DEF Places
<1> QED
  BY <1>1, <1>2, <1>3

LEMMA BeforeStays == [TNext]_tvars => Indices' = Indices /\ \A i : Before(i)' = Before(i)
<1> SUFFICES ASSUME [TNext]_tvars PROVE Indices' = Indices /\ \A i : Before(i)' = Before(i)
  OBVIOUS
<1>1. Indices' = Indices /\ \A i : Dependencies(i)' = Dependencies(i)
  BY PlanStays, SamePlan
<1> QED
  BY <1>1 DEF Before

\* A writer that comes after all the others, and where its file has got to.
Over == {"back", "returning", "gone"}

LastWriter(j, p) == j \in Writers(p) /\ \A k \in Writers(p) \ {j} : k \in Before(j)

Holds(p, bytes) == disk[p].there /\ disk[p].bytes = bytes

DiskInv ==
  \A p \in Paths : \A j \in Indices : LastWriter(j, p) =>
    /\ tpc[j] = "writing" => Holds(p, <<>>)
    /\ tpc[j] \in Over => Holds(p, Bytes(j))

\* Only a writer of a file changes it, and none does while the last one runs.
LEMMA FileKept ==
  ASSUME TypesInv, CapInv, SInv, PlaceInv, NEW p \in Paths, NEW j \in Indices, LastWriter(j, p),
         NEW i \in Indices, Thread(i), i # j
  PROVE  disk'[p] = disk[p]
<1>1. CASE disk' = disk
  BY <1>1
<1>2. CASE OpenFile(i) \/ WriteBytes(i)
  <2>1. args[i].path # p => disk'[p] = disk[p]
    BY <1>2 DEF OpenFile, WriteBytes, TypesInv
  <2>2. ASSUME args[i].path = p PROVE FALSE
    <3>1. tpc[i] \in {"invoking", "writing"} /\ Hint(i) = "write_file" /\ args[i].size <= MaxBytes
      BY <1>2 DEF OpenFile, WriteBytes, PlaceInv, CapInv
    <3>2. i \in Writers(p)
      BY <2>2, <3>1 DEF Writers, Invoked
    <3>3. i \in Before(j) /\ tpc[j] # "idle"
      BY <3>2 DEF LastWriter, Writers, Invoked
    <3>4. tpc[i] = "gone"
      BY <3>3, BeforeDone DEF PlaceInv
    <3> QED
      BY <3>1, <3>4
  <2> QED
    BY <2>1, <2>2
<1> QED
  BY <1>1, <1>2
  DEF Thread, StartThread, Select, Invoke, UnknownTool, ReadPosition, WritePosition, TooLarge,
      NotAFile, IsFile, Stat, ReadText, FinishTool, TimedOut, Validate, Return

\* Bytes laid over an empty file are all of it.
LEMMA OverlayEmpty ==
  ASSUME NEW new \in Seq(Nat)
  PROVE  Overlay(<<>>, new) = new
<1>1. SubSeq(<<>>, Len(new) + 1, Len(<<>>)) = <<>>
  OBVIOUS
<1> QED
  BY <1>1 DEF Overlay

LEMMA DiskOwnStep ==
  ASSUME TypesInv, PlaceInv, DiskInv, NEW p \in Paths, NEW j \in Indices, LastWriter(j, p), Thread(j)
  PROVE  /\ tpc'[j] = "writing" => Holds(p, <<>>)'
         /\ tpc'[j] \in Over => disk'[p].there /\ disk'[p].bytes = Bytes(j)
<1>1. /\ Hint(j) = "write_file" /\ args[j].path = p /\ args[j].size <= MaxBytes
      /\ tpc[j] \notin {"idle", "selecting", "answering", "found", "reading"}
      /\ args[j].size \in Nat /\ MaxBytes \in Nat
  BY BytesAssumption DEF LastWriter, Writers, Invoked, PlaceInv, Readers, TypesInv, Args
<1>2. /\ tpc[j] = "writing" => Holds(p, <<>>)
      /\ tpc[j] \in Over => Holds(p, Bytes(j))
  BY DEF DiskInv
<1>3. CASE OpenFile(j)
  <2>1. tpc'[j] = "writing" /\ disk'[p] = [there |-> TRUE, bytes |-> <<>>]
    BY <1>1, <1>3, Moved DEF OpenFile, TypesInv, Places
  <2> QED
    BY <2>1 DEF Holds, Over
<1>4. CASE WriteBytes(j)
  <2>1. /\ tpc'[j] = "back" /\ disk[p].there /\ disk[p].bytes = <<>>
        /\ disk'[p] = [disk[p] EXCEPT !.bytes = Overlay(disk[p].bytes, Bytes(j))]
    BY <1>1, <1>2, <1>4, Moved DEF WriteBytes, Holds, TypesInv, Places
  <2>2. Overlay(disk[p].bytes, Bytes(j)) = Bytes(j)
    BY <2>1, BytesTyped, OverlayEmpty
  <2> DEFINE b == Bytes(j)
  <2>3. disk[p] \in File0 /\ disk'[p] = [disk[p] EXCEPT !.bytes = b]
    BY <2>1, <2>2 DEF TypesInv
  <2> HIDE DEF b
  <2>4. disk'[p].there = disk[p].there /\ disk'[p].bytes = b
    BY <2>3 DEF File0
  <2> QED
    BY <2>1, <2>4 DEF b
<1>5. CASE TimedOut(j) \/ Validate(j) \/ Return(j)
  <2>1. tpc[j] \in Over /\ disk' = disk /\ tpc'[j] \in {"returning", "gone"}
    BY <1>5, Moved DEF TimedOut, Validate, Return, Settle, Over, Places
  <2> QED
    BY <1>2, <2>1 DEF Holds
<1>6. ~ (\/ StartThread(j) \/ UnknownTool(j) \/ ReadPosition(j) \/ WritePosition(j) \/ TooLarge(j)
         \/ NotAFile(j) \/ IsFile(j) \/ Stat(j) \/ ReadText(j) \/ FinishTool(j))
  <2>1. j \notin waiting
    BY <1>1 DEF PlaceInv
  <2> QED
    BY <1>1, <2>1 DEF StartThread, Start, UnknownTool, ReadPosition, WritePosition, TooLarge,
                      NotAFile, IsFile, Stat, ReadText, FinishTool, Readers, Tools
<1> QED
  BY <1>3, <1>4, <1>5, <1>6 DEF Thread, Select, Invoke

LEMMA DiskStep ==
  TypesInv /\ CapInv /\ SInv /\ PlaceInv /\ DiskInv /\ [TNext]_tvars => DiskInv'
<1> SUFFICES ASSUME TypesInv, CapInv, SInv, PlaceInv, DiskInv, [TNext]_tvars,
                    NEW p \in Paths, NEW j \in Indices, LastWriter(j, p)'
             PROVE  /\ tpc'[j] = "writing" => Holds(p, <<>>)'
                    /\ tpc'[j] \in Over => Holds(p, Bytes(j))'
  BY PlanStays DEF DiskInv
<1>1. CASE j \notin Writers(p)
  BY <1>1, WritersGrow DEF LastWriter, Over
<1>2. CASE j \in Writers(p)
  <2>1. LastWriter(j, p)
    BY <1>2, WritersGrow, BeforeStays DEF LastWriter
  <2>2. Bytes(j)' = Bytes(j)
    BY <1>2, ArgsKept DEF Writers
  <2>3. CASE Thread(j)
    BY <2>1, <2>2, <2>3, DiskOwnStep DEF Holds
  <2>4. ASSUME disk'[p] = disk[p], tpc'[j] = tpc[j]
        PROVE  /\ tpc'[j] = "writing" => Holds(p, <<>>)'
               /\ tpc'[j] \in Over => Holds(p, Bytes(j))'
    BY <2>1, <2>2, <2>4 DEF DiskInv, Holds
  <2>5. ASSUME NEW i \in Indices, Thread(i), i # j
        PROVE  /\ tpc'[j] = "writing" => Holds(p, <<>>)'
               /\ tpc'[j] \in Over => Holds(p, Bytes(j))'
    BY <2>1, <2>4, <2>5, FileKept, OthersStay
  <2> QED
    BY <2>3, <2>4, <2>5 DEF TNext, Loop, tvars
<1> QED
  BY <1>1, <1>2

\* What i reads when j is the writer ReadAfterWrite speaks of.
ReadsOf(i, j) ==
  /\ i \in Invoked /\ Hint(i) \in Readers
  /\ j \in Writers(args[i].path) \cap Before(i) /\ args[j].size > 0
  /\ \A k \in Writers(args[i].path) \ {j} : k \in Before(j) \/ i \in Before(k)

ReadInv ==
  \A i, j \in Indices : ReadsOf(i, j) =>
    /\ result[i] # "tool_returned_error"
    /\ tpc[i] = "reading" => size[i] = Len(Bytes(j))
    /\ tpc[i] \in Over => text[i] = Bytes(j) /\ size[i] = Len(text[i])

\* While i runs, its file holds what j wrote: the writers that come after i have
\* no thread yet.
LEMMA ReadsWhole ==
  ASSUME TypesInv, SInv, PlaceInv, DiskInv, NEW i \in Indices, NEW j \in Indices, ReadsOf(i, j),
         tpc[i] # "gone"
  PROVE  Holds(args[i].path, Bytes(j))
<1> DEFINE p == args[i].path
<1>1. p \in Paths /\ j \in Writers(p) /\ tpc[i] # "idle"
  BY DEF ReadsOf, Invoked, TypesInv, Args
<1>2. tpc[j] = "gone"
  BY <1>1, BeforeDone DEF ReadsOf, PlaceInv
<1>3. ASSUME NEW k \in Writers(p) \ {j} PROVE k \in Before(j)
  <2>1. k \in Indices /\ tpc[k] # "idle"
    BY <1>3 DEF Writers, Invoked
  <2>2. i \notin Before(k)
    BY <2>1, BeforeDone DEF PlaceInv
  <2> QED
    BY <2>2 DEF ReadsOf
<1>4. LastWriter(j, p)
  BY <1>1, <1>3 DEF LastWriter
<1> QED
  BY <1>1, <1>2, <1>4 DEF DiskInv, Over

LEMMA ReadOwnStep ==
  ASSUME TypesInv, SInv, PlaceInv, DiskInv, ReadInv,
         NEW i \in Indices, NEW j \in Indices, ReadsOf(i, j), Thread(i)
  PROVE  /\ result'[i] # "tool_returned_error"
         /\ tpc'[i] = "reading" => size'[i] = Len(Bytes(j))
         /\ tpc'[i] \in Over => text'[i] = Bytes(j) /\ size'[i] = Len(text'[i])
<1>1. /\ result[i] # "tool_returned_error"
      /\ tpc[i] = "reading" => size[i] = Len(Bytes(j))
      /\ tpc[i] \in Over => text[i] = Bytes(j) /\ size[i] = Len(text[i])
  BY DEF ReadInv
<1>2. /\ Hint(i) \in {"read_file", "summarize_document"}
      /\ tpc[i] \notin {"idle", "selecting", "answering", "writing"}
      /\ args[j].size \in Nat /\ args[j].size > 0 /\ args[j].size <= MaxBytes /\ MaxBytes \in Nat
  BY BytesAssumption DEF ReadsOf, Readers, Invoked, Writers, PlaceInv, TypesInv, Args
<1>3. Bytes(j) \in Seq(Nat) /\ Len(Bytes(j)) = args[j].size
  BY BytesTyped
<1>4. ASSUME tpc[i] # "gone" PROVE File(i).there /\ File(i).bytes = Bytes(j)
  BY <1>4, ReadsWhole DEF Holds, File
<1>5. ~ (\/ StartThread(i) \/ UnknownTool(i) \/ ReadPosition(i) \/ WritePosition(i) \/ TooLarge(i)
         \/ OpenFile(i) \/ WriteBytes(i) \/ NotAFile(i) \/ FinishTool(i))
  <2>1. i \notin waiting
    BY <1>2 DEF PlaceInv
  <2> QED
    BY <1>2, <1>4, <2>1 DEF StartThread, Start, UnknownTool, ReadPosition, WritePosition, TooLarge,
                            OpenFile, WriteBytes, NotAFile, FinishTool, Tools
<1>6. CASE IsFile(i)
  <2>1. tpc'[i] = "found" /\ result' = result
    BY <1>6, Moved DEF IsFile, ovars, Places
  <2> QED
    BY <1>1, <2>1 DEF Over
<1>7. CASE Stat(i)
  <2>1. tpc[i] = "found" /\ size'[i] = Len(File(i).bytes)
    BY <1>7 DEF Stat, TypesInv
  <2>2. size'[i] = Len(Bytes(j)) /\ ~ (size'[i] > MaxBytes)
    BY <1>2, <1>3, <1>4, <2>1
  <2>3. Goes(i, "reading") /\ result' = result
    BY <1>7, <2>2 DEF Stat
  <2>4. tpc'[i] = "reading"
    BY <2>3, Moved DEF Places
  <2> QED
    BY <1>1, <2>2, <2>3, <2>4 DEF Over
<1>8. CASE ReadText(i)
  <2>1. tpc[i] = "reading" /\ text'[i] = File(i).bytes /\ size' = size
    BY <1>8 DEF ReadText, TypesInv
  <2>2. text'[i] = Bytes(j) /\ size'[i] = Len(text'[i])
    BY <1>1, <1>4, <2>1
  <2>3. ~ InnerStepFails(i)
    BY <1>2, <1>3, <2>2 DEF InnerStepFails
  <2>4. Goes(i, "back") /\ result' = result
    BY <1>8, <2>3 DEF ReadText
  <2>5. tpc'[i] = "back"
    BY <2>4, Moved DEF Places
  <2> QED
    BY <1>1, <2>2, <2>4, <2>5
<1>9. CASE TimedOut(i) \/ Validate(i)
  <2>1. /\ tpc[i] = "back" /\ size' = size /\ text' = text
        /\ \E r \in {"timeout", "valid"} : Settle(i, r)
    BY <1>9 DEF TimedOut, Validate
  <2>2. tpc'[i] = "returning" /\ result'[i] \in {"timeout", "valid"}
    BY <2>1, Settled DEF Results
  <2> QED
    BY <1>1, <2>1, <2>2 DEF Over
<1>10. CASE Return(i)
  <2>1. tpc[i] = "returning" /\ tpc'[i] = "gone" /\ UNCHANGED <<size, text, result>>
    BY <1>10, Moved DEF Return, ovars, Places
  <2> QED
    BY <1>1, <2>1 DEF Over
<1> QED
  BY <1>5, <1>6, <1>7, <1>8, <1>9, <1>10 DEF Thread, Select, Invoke

LEMMA ReadStep ==
  TypesInv /\ SInv /\ PlaceInv /\ PlaceInv' /\ DiskInv /\ ReadInv /\ [TNext]_tvars => ReadInv'
<1> SUFFICES ASSUME TypesInv, SInv, PlaceInv, PlaceInv', DiskInv, ReadInv, [TNext]_tvars,
                    NEW i \in Indices, NEW j \in Indices, ReadsOf(i, j)'
             PROVE  /\ result'[i] # "tool_returned_error"
                    /\ tpc'[i] = "reading" => size'[i] = Len(Bytes(j)')
                    /\ tpc'[i] \in Over => text'[i] = Bytes(j)' /\ size'[i] = Len(text'[i])
  BY PlanStays DEF ReadInv
<1>p. Indices' = Indices /\ (\A k \in Indices : Hint(k)' = Hint(k)) /\ \A k : Before(k)' = Before(k)
  BY PlanStays, BeforeStays DEF Hint
<1>1. CASE i \notin Invoked
  <2>1. tpc[i] \in {"idle", "selecting", "answering"} /\ tpc'[i] \notin {"idle", "selecting", "answering"}
    BY <1>p, <1>1 DEF ReadsOf, Invoked
  <2>2. PICK k \in Indices : Thread(k)
    BY <2>1 DEF TNext, Loop, tvars
  <2>3. k = i
    BY <2>1, <2>2, OthersStay
  <2>4. Hint(i) \in Tools
    BY <1>p DEF ReadsOf, Readers, Tools
  <2>5. \E there \in {"selecting", "answering", "invoking"} : Goes(i, there)
    BY <2>1, <2>2, <2>3, <2>4
    DEF Thread, StartThread, Select, Invoke, UnknownTool, ReadPosition, WritePosition,
        TooLarge, OpenFile, WriteBytes, NotAFile, IsFile, Stat, ReadText, FinishTool,
        TimedOut, Validate, Return
  <2>6. tpc'[i] = "invoking"
    BY <2>1, <2>5, Moved DEF Places
  <2>7. result'[i] = "none"
    BY <1>p, <2>6 DEF PlaceInv
  <2> QED
    BY <2>6, <2>7 DEF Over
<1>2. CASE i \in Invoked
  <2>1. args'[i] = args[i]
    BY <1>2, ArgsKept
  <2>p. PICK p \in Paths : p = args[i].path
    BY <1>p DEF Invoked, ReadsOf, TypesInv, Args
  <2>2. j \in Before(i) /\ j \in Writers(p)'
    BY <1>p, <2>p, <2>1 DEF ReadsOf
  <2>3. tpc[j] = "gone"
    BY <1>2, <2>2, BeforeDone DEF Invoked, PlaceInv
  <2>4. j \in Writers(p)
    BY <2>2, <2>3, WritersGrow DEF Invoked
  <2>5. args'[j] = args[j] /\ Bytes(j)' = Bytes(j)
    BY <2>4, ArgsKept DEF Writers
  <2>6. Writers(p) \subseteq Writers(p)'
    BY WritersGrow
  <2>7. ReadsOf(i, j)
    BY <1>p, <1>2, <2>p, <2>1, <2>2, <2>4, <2>5, <2>6 DEF ReadsOf
  <2>8. CASE Thread(i)
    BY <2>5, <2>7, <2>8, ReadOwnStep
  <2>9. ASSUME tpc'[i] = tpc[i], result'[i] = result[i], text'[i] = text[i], size'[i] = size[i]
        PROVE  /\ result'[i] # "tool_returned_error"
               /\ tpc'[i] = "reading" => size'[i] = Len(Bytes(j)')
               /\ tpc'[i] \in Over => text'[i] = Bytes(j)' /\ size'[i] = Len(text'[i])
    BY <2>5, <2>7, <2>9 DEF ReadInv
  <2>10. ASSUME NEW k \in Indices, Thread(k), k # i
         PROVE  tpc'[i] = tpc[i] /\ result'[i] = result[i] /\ text'[i] = text[i] /\ size'[i] = size[i]
    BY <2>10, OthersStay
  <2>11. CASE UNCHANGED <<tpc, result, text, size>>
    BY <2>9, <2>11
  <2> QED
    BY <2>8, <2>9, <2>10, <2>11 DEF TNext, Loop, tvars, ovars
<1> QED
  BY <1>1, <1>2

\* FilesInv is inductive together with the invariant of the scheduler.
FilesInv == TypesInv /\ CapInv /\ PlaceInv /\ DiskInv /\ ReadInv

THEOREM FilesInvariant == TSpec => [](SInv /\ FilesInv)
<1>1. TInit => FilesInv
  <2> SUFFICES ASSUME TInit PROVE FilesInv
    OBVIOUS
  <2>1. TypesInv /\ PlaceInv
    BY TypesInit, PlaceInit
  <2>2. CapInv
    BY BytesAssumption DEF TInit, CapInv, ReadsWithinCap
  <2>3. Invoked = {}
    BY DEF TInit, Invoked
  <2>4. DiskInv /\ ReadInv
    BY <2>3 DEF DiskInv, LastWriter, Writers, ReadInv, ReadsOf
  <2> QED
    BY <2>1, <2>2, <2>4 DEF FilesInv
<1>2. SInv /\ FilesInv /\ [TNext]_tvars => FilesInv'
  BY TypesStep, CapStep, PlaceStep, DiskStep, ReadStep DEF FilesInv
<1>3. TSpec => []SInv
  BY ThreadsImplementScheduler, SchedulerInvariant, PTL
<1> QED
  BY <1>1, <1>2, <1>3, PTL DEF TSpec

\* A subtask that reads (read_file, or the first step of summarize_document) what
\* one subtask before it wrote last reads all of it and nothing else, whatever
\* the other threads do in the workspace meanwhile.
THEOREM ReadersSafety == TSpec => []ReadAfterWrite
<1>1. FilesInv => ReadAfterWrite
  BY DEF FilesInv, ReadInv, ReadsOf, ReadAfterWrite, Over, Invoked, Before, Writers
<1> QED
  BY <1>1, FilesInvariant, PTL

\* When run_parallel and its threads have ended, a file holds what its last
\* writer by the dependencies wrote, also when that call was a timeout.
THEOREM WritersSafety == TSpec => []LastWriteStays
<1>1. FilesInv => LastWriteStays
  <2> SUFFICES ASSUME FilesInv, running = {}, NEW p \in Paths, NEW j \in Writers(p),
                      \A k \in Writers(p) \ {j} : k \in Before(j)
               PROVE  disk[p].bytes = Bytes(j)
    BY DEF LastWriteStays
  <2>1. j \in Indices /\ LastWriter(j, p) /\ tpc[j] # "idle"
    BY DEF LastWriter, Writers, Invoked
  <2>2. tpc[j] = "gone"
    BY <2>1 DEF FilesInv, PlaceInv
  <2>3. Holds(p, Bytes(j))
    BY <2>1, <2>2 DEF FilesInv, DiskInv, Over
  <2> QED
    BY <2>3 DEF Holds
<1> QED
  BY <1>1, FilesInvariant, PTL
=============================================================================
