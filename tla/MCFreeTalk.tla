----------------------------- MODULE MCFreeTalk -----------------------------
EXTENDS FreeTalk
=============================================================================
