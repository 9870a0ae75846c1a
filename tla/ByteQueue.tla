----------------------------- MODULE ByteQueue -----------------------------
(***************************************************************************)
(* What app_ring_buffer.h promises to its users: a queue of bytes with room *)
(* for Capacity of them.  A write appends what fits of its data, a read     *)
(* takes the oldest bytes.                                                  *)
(***************************************************************************)
EXTENDS Integers, Sequences

CONSTANTS
  Bytes,          \* values of a byte
  Capacity,       \* bytes the queue has room for
  Inputs          \* the data writers may offer, sequences of bytes

VARIABLES
  queue,          \* bytes written and not read, oldest first
  out,            \* what the last read gave its caller
  ret             \* the value the last call returned

vars == <<queue, out, ret>>

Lesser(a, b) == IF a <= b THEN a ELSE b

Init == queue = << >> /\ out = << >> /\ ret = 0

Write(data) ==
  /\ ret' = Lesser(Len(data), Capacity - Len(queue))
  /\ queue' = queue \o SubSeq(data, 1, ret')
  /\ out' = out

Take(n) ==
  /\ ret' = n
  /\ out' = SubSeq(queue, 1, n)
  /\ queue' = SubSeq(queue, n + 1, Len(queue))

\* up to size bytes
Read(size) == Take(Lesser(size, Len(queue)))

\* size bytes or none
Readn(size) == Take(IF size <= Len(queue) THEN size ELSE 0)

Clear == queue' = << >> /\ UNCHANGED <<out, ret>>

Next == \/ \E data \in Inputs : Write(data)
        \/ \E size \in 1..Capacity + 1 : Read(size) \/ Readn(size)
        \/ Clear

Spec == Init /\ [][Next]_vars
=============================================================================
