---------------------------- MODULE MCAipRecorder ----------------------------
(* Small instances of AipRecorder for TLC.                                 *)
EXTENDS AipRecorder, TLC

CONSTANTS kww, talk

\* One client records one unit, the other two: sessions end in a frame that
\* the other client still needs, and at the same frame.
TwoLengths == kww :> 2 @@ talk :> 1
=============================================================================
