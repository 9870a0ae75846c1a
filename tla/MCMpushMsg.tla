----------------------------- MODULE MCMpushMsg -----------------------------
(***************************************************************************)
(* Two messages, one that is spoken and one that is a list of music.       *)
(***************************************************************************)
EXTENDS MpushMsg

CONSTANTS text, list
=============================================================================
