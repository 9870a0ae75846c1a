---------------------------- MODULE MCRingBuffer ----------------------------
\* Instances of RingBuffer for TLC: every content of one to three bytes, and
\* one longer than the memory.
EXTENDS RingBuffer

MCBytes == {0, 1}
MCInputs == UNION {[1..n -> MCBytes] : n \in 1..3} \cup {<<1, 0, 0, 1, 1>>}
=============================================================================
