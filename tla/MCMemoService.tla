--------------------------- MODULE MCMemoService ----------------------------
(* A small device: an array of two memos, three memos dictated. *)
EXTENDS MemoService

MCTasks == {Memo, Other, Terminal}
MCArrays == MemoArrays
MCNoMemos == EmptyArray

\* The link comes once: two memos with a key and a fault, one with a fault and a setting.
MCBounds == {[memos |-> 2, flaps |-> 1, cancels |-> 1, faults |-> 1, sets |-> 0],
             [memos |-> 1, flaps |-> 1, cancels |-> 0, faults |-> 1, sets |-> 1]}

=============================================================================
