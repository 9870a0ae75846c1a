--------------------------- MODULE MCAppFramework ---------------------------
(* Small instances of AppFramework for TLC.                                *)
EXTENDS AppFramework, TLC

\* The code tells blocks, threads and services apart by identity only.
Symmetry == Permutations(Blocks) \cup Permutations(Threads) \cup Permutations(Apps)

\* An allocator that may return any free block, and one that always returns
\* the same one for the same free blocks (liveness is checked without symmetry).
AnyFree(S) == S
FirstFree(S) == {b \in S : \A c \in S : b <= c}
=============================================================================
