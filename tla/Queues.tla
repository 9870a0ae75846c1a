------------------------------- MODULE Queues -------------------------------
(***************************************************************************)
(* components/app_framework/include/app_queue.h: the BSD LIST_* and TAILQ_* *)
(* macros that every queue of the SDK is made of, on sequences whose        *)
(* elements are pairwise distinct, as the addresses of linked entries are.  *)
(***************************************************************************)
LOCAL INSTANCE Integers
LOCAL INSTANCE Sequences

Elems(s) == {s[i] : i \in 1..Len(s)}

NoRepeat(s) == \A i, j \in 1..Len(s) : s[i] = s[j] => i = j

\* LIST_REMOVE, TAILQ_REMOVE of the i-th element
WithoutAt(s, i) == [j \in 1..(Len(s) - 1) |-> s[IF j < i THEN j ELSE j + 1]]

\* TAILQ_REMOVE of element x
Without(s, x) ==
  IF x \in Elems(s) THEN WithoutAt(s, CHOOSE i \in 1..Len(s) : s[i] = x) ELSE s

\* LIST_FIRST, TAILQ_FIRST; nil when the list is empty
FirstOf(s, nil) == IF s = << >> THEN nil ELSE s[1]

\* LIST_NEXT, TAILQ_NEXT of element x; nil at the end of the list
NextOf(s, x, nil) ==
  IF \E i \in 1..(Len(s) - 1) : s[i] = x
    THEN s[1 + CHOOSE i \in 1..(Len(s) - 1) : s[i] = x]
    ELSE nil
=============================================================================
