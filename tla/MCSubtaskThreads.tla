-------------------------- MODULE MCSubtaskThreads --------------------------
(***************************************************************************)
(* Small instances of SubtaskThreads: chosen plans of up to four subtasks  *)
(* over two files, each with the script of the provider.                   *)
(***************************************************************************)
EXTENDS SubtaskThreads

Root  == [parallel |-> TRUE, dependencies |-> {}]
On(D) == [parallel |-> FALSE, dependencies |-> D]
Plain == On({})

A(n) == [path |-> "a", size |-> n]
B(n) == [path |-> "b", size |-> n]

Script(w, r) ==
  [write_file |-> w, read_file |-> r, summarize_document |-> r, finish |-> <<A(0)>>]
Job(shape, hints, w, r) == [shape |-> shape, hints |-> hints, script |-> Script(w, r)]

MCJobs ==
  { \* Two writers of one file in any order, then a reader.
    Job(<<Root, Root, On({1, 2})>>, <<"write_file", "write_file", "read_file">>,
        <<A(2), A(1)>>, <<A(0)>>),
    \* A longer text is written over by a shorter one and read twice.
    Job(<<Plain, Plain, Root, On({2})>>,
        <<"write_file", "write_file", "read_file", "summarize_document">>,
        <<A(2), A(1)>>, <<A(0)>>),
    \* One writer, two that depend on it.
    Job(<<Root, On({1}), On({1})>>, <<"write_file", "summarize_document", "read_file">>,
        <<A(2)>>, <<A(0)>>),
    \* Readers that race for the script and with the writer.
    Job(<<Root, Root, Root>>, <<"write_file", "read_file", "read_file">>,
        <<A(1)>>, <<A(0), B(0)>>),
    Job(<<Root, Root, Root>>, <<"read_file", "read_file", "read_file">>,
        <<A(1)>>, <<A(0), B(0)>>),
    Job(<<Root, Root>>, <<"write_file", "summarize_document">>, <<A(2)>>, <<A(0)>>),
    \* A write over the cap beside a good one, and a hint nobody knows.
    Job(<<Root, Root, On({1})>>, <<"write_file", "write_file", "read_file">>,
        <<A(3), A(2)>>, <<A(0)>>),
    Job(<<Root, Root, On({1})>>, <<"write_file", "send_email", "finish">>, <<A(1)>>, <<A(0)>>) }

MCShapes == {j.shape : j \in MCJobs}
=============================================================================
