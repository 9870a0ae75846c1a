----------------------------- MODULE ParamStore -----------------------------
(***************************************************************************)
(* What the users of components/device_params_manage rely on: one value,    *)
(* read and changed in memory, of which a restart brings back the one that  *)
(* was kept.  That may be lost for the factory's value, but only while a    *)
(* change is being written, and it never becomes a mixture of two values.   *)
(***************************************************************************)
CONSTANTS Values, Default

VARIABLES
  current,   \* what get_flash_cfg reads
  kept,      \* what the next start will read
  writing    \* a change is being written

storeVars == <<current, kept, writing>>

Init == current \in Values /\ kept = current /\ writing = FALSE

Set == current' \in Values /\ writing' = TRUE /\ UNCHANGED kept

Write == /\ writing /\ writing' \in BOOLEAN
         /\ kept' \in {kept, current, Default}
         /\ UNCHANGED current

Restart == /\ current' \in IF writing THEN {kept, Default} ELSE {kept}
           /\ kept' = current'
           /\ writing' \in BOOLEAN

Next == Set \/ Write \/ Restart

Spec == Init /\ [][Next]_storeVars
=============================================================================
