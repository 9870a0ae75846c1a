------------------------- MODULE MemoService_proofs -------------------------
(***************************************************************************)
(* Proofs about the parameters in flash and the memos kept in them, for    *)
(* any parameters, any number of memos and any pattern of power cuts and   *)
(* flash failures.  Everything the system does to the parameters is a      *)
(* ParamStep; the lemmas about the parameters are about those.             *)
(***************************************************************************)
EXTENDS MemoService, FiniteSetTheorems, SequenceTheorems, WellFoundedInduction, TLAPS

USE ParamsAssumption, MemoAssumption DEF Left

-----------------------------------------------------------------------------
(* The parameters                                                          *)

\* What the callers of device_params_manage.c do: set_flash_cfg of each kind,
\* with memos of A, and the reset, once the device has started; the steps of a
\* save; the loss of power.
ParamStep(A) ==
  \/ UNCHANGED paramVars
  \/ /\ Started
     /\ \/ SetDefault
        \/ \E t \in Tasks : \/ \E v \in Users : SetUser(t, v)
                            \/ SetOta(t, Test)
                            \/ \E a \in A : SetMemos(t, a)
  \/ \E t \in Callers : FlashStep(t) \/ FlashFails(t)
  \/ \E t \in Tasks, f \in {"user", "ota"} : \E v : SetAgain(t, f, v)
  \/ PowerCut

LEMMA DefaultType == Default \in Params
BY DEF Default, Params

LEMMA IdleFacts == Idle.at = "none" /\ Idle.sum = Default /\ Idle.field = "all"
BY DEF Idle

LEMMA ParamTypes ==
  ASSUME ParamTypeOK, NEW A \in SUBSET Arrays, ParamStep(A)
  PROVE  ParamTypeOK'
<1> USE DEF ParamTypeOK, Places
<1>0. /\ Terminal \in Callers /\ Boot \in Callers
      /\ Idle \in [at : Places, field : {"user", "ota", "memos", "all"}, sum : Params]
  BY DefaultType DEF Callers, Idle
<1>1. CASE UNCHANGED paramVars
  BY <1>1 DEF paramVars
<1>2. ASSUME NEW t \in Callers, NEW f \in {"user", "ota", "memos", "all"}, Save(t, f),
             params' \in Params, lock' \in Callers \cup {Nobody}
      PROVE  ParamTypeOK'
  BY <1>2 DEF Save
<1>3. CASE SetDefault
  BY <1>0, <1>2, <1>3, DefaultType DEF SetDefault
<1>4. ASSUME NEW t \in Tasks, NEW v \in Users, SetUser(t, v) PROVE ParamTypeOK'
  <2>1. params' \in Params
    BY <1>4 DEF SetUser, SetField, Params
  <2>2. QED
    BY <1>2, <1>4, <2>1 DEF SetUser, SetField, Callers
<1>5. ASSUME NEW t \in Tasks, SetOta(t, Test) PROVE ParamTypeOK'
  <2>1. params' \in Params
    BY <1>5 DEF SetOta, SetField, Params, OtaMode
  <2>2. QED
    BY <1>2, <1>5, <2>1 DEF SetOta, SetField, Callers
<1>6. ASSUME NEW t \in Tasks, NEW a \in A, SetMemos(t, a) PROVE ParamTypeOK'
  <2>1. params' \in Params
    BY <1>6 DEF SetMemos, Params
  <2>2. QED
    BY <1>2, <1>6, <2>1 DEF SetMemos, Callers
<1>7. ASSUME NEW t \in Callers, Saved(t),
             params' = params, crc' \in Params, image' \in Params \cup {Erased, Torn},
             ret' \in [Callers -> {"OK", "FAIL"}],
             unheard' \in {"no", "not looked at", "set again"}, collided' = collided
      PROVE  ParamTypeOK'
  <2>1. saving' \in [Callers -> [at : Places, field : {"user", "ota", "memos", "all"},
                                sum : Params]]
    <3> DEFINE T == [at : Places, field : {"user", "ota", "memos", "all"}, sum : Params]
    <3>1. [saving[t] EXCEPT !.at = "ota"] \in T /\ Idle \in T /\ saving \in [Callers -> T]
      BY <1>0
    <3>2. \/ saving' = [saving EXCEPT ![t] = [saving[t] EXCEPT !.at = "ota"]]
          \/ saving' = [saving EXCEPT ![t] = Idle]
      BY <1>7 DEF Saved
    <3> HIDE DEF T
    <3>3. saving' \in [Callers -> T]
      BY <3>1, <3>2
    <3>4. QED
      BY <3>3 DEF T
  <2>2. lock' \in Callers \cup {Nobody}
    BY <1>7 DEF Saved, Unlock
  <2>3. QED
    BY <1>7, <2>1, <2>2
<1>8. ASSUME NEW t \in Callers, Erase(t) PROVE ParamTypeOK'
  BY <1>8, DefaultType, ZenonT(40) DEF Erase
<1>9. ASSUME NEW t \in Callers, Write(t) PROVE ParamTypeOK'
  <2>1. /\ params' = params /\ crc' \in Params /\ image' \in Params \cup {Erased, Torn}
        /\ ret' \in [Callers -> {"OK", "FAIL"}] /\ unheard' = "no" /\ collided' = collided
    BY <1>9 DEF Write
  <2>2. QED
    BY <1>7, <1>9, <2>1 DEF Write
<1>10. ASSUME NEW t \in Callers, FlashFails(t) PROVE ParamTypeOK'
  <2>1. crc' \in Params
    BY <1>10 DEF FlashFails
  <2>2. ret' \in [Callers -> {"OK", "FAIL"}] /\ unheard' \in {"no", "not looked at"}
    BY <1>10 DEF FlashFails, Refused
  <2>3. QED
    BY <1>7, <1>10, <2>1, <2>2 DEF FlashFails
<1>11. ASSUME NEW t \in Callers, FallThrough(t) PROVE ParamTypeOK'
  <2>1. CASE params.ota = params.memos.current
    <3>1. saving' \in [Callers -> [at : Places, field : {"user", "ota", "memos", "all"},
                                  sum : Params]]
      BY <1>0, <1>11, <2>1 DEF FallThrough
    <3>2. lock' \in Callers \cup {Nobody}
      BY <1>11, <2>1 DEF FallThrough, Unlock
    <3>3. UNCHANGED <<params, crc, image, ret, unheard, collided>>
      BY <1>11, <2>1 DEF FallThrough
    <3>4. QED
      BY <3>1, <3>2, <3>3
  <2>2. CASE params.ota # params.memos.current
    <3>0. params' = [params EXCEPT !.ota = OtaMode(params.memos.current)] /\ params \in Params
      BY <1>11, <2>2 DEF FallThrough
    <3>1. params' \in Params
      BY <3>0 DEF Params, OtaMode
    <3>2. QED
      BY <1>2, <1>11, <2>2, <3>1 DEF FallThrough
  <2>3. QED
    BY <2>1, <2>2
<1>12. CASE PowerCut
  <2>1. PICK i \in {image, Torn} : /\ image' = i
                                   /\ params' = IF CrcAgrees(i) THEN i ELSE Default
                                   /\ crc' = params'
                                   /\ saving' = [t \in Callers |-> IF t = Boot /\ ~CrcAgrees(i)
                                        THEN [at |-> "erase", field |-> "all", sum |-> Default]
                                        ELSE Idle]
    <3>1. PICK i \in IF Writing THEN {image, Torn} ELSE {image} :
             /\ image' = i
             /\ params' = IF CrcAgrees(i) THEN i ELSE Default
             /\ crc' = params'
             /\ saving' = [t \in Callers |-> IF t = Boot /\ ~CrcAgrees(i)
                  THEN [at |-> "erase", field |-> "all", sum |-> Default] ELSE Idle]
      BY <1>12, Zenon DEF PowerCut
    <3>2. i \in {image, Torn}
      OBVIOUS
    <3>3. QED
      BY <3>1, <3>2, Zenon
  <2>2. params' \in Params /\ crc' \in Params /\ image' \in Params \cup {Erased, Torn}
    BY <2>1, DefaultType DEF CrcAgrees
  <2>3. saving' \in [Callers -> [at : Places, field : {"user", "ota", "memos", "all"},
                                sum : Params]]
    BY <1>0, <2>1, DefaultType
  <2>4. /\ ret' \in [Callers -> {"OK", "FAIL"}] /\ unheard' = "no" /\ collided' = FALSE
        /\ lock' = Nobody
    BY <1>12 DEF PowerCut
  <2>5. QED
    BY <2>2, <2>3, <2>4
<1>13. ASSUME NEW t \in Tasks, NEW f, NEW v, SetAgain(t, f, v) PROVE ParamTypeOK'
  BY <1>13 DEF SetAgain
<1>14. QED
  BY <1>1, <1>3, <1>4, <1>5, <1>6, <1>8, <1>9, <1>10, <1>11, <1>12, <1>13
  DEF ParamStep, FlashStep

-----------------------------------------------------------------------------
(* The store the parameters implement                                      *)

\* A change in memory that a save has begun for is the store's Set, each step
\* of the save its Write, a start its Restart.
LEMMA StepMaps ==
  ASSUME ParamTypeOK, NEW A \in SUBSET Arrays, ParamStep(A)
  PROVE  [Store!Next]_(Store!storeVars)
<1> DEFINE kept == IF CrcAgrees(image) THEN image ELSE Default
<1> USE DEF ParamTypeOK
<1>0. ParamTypeOK' /\ Terminal \in Callers /\ Boot \in Callers
  BY ParamTypes DEF Callers
<1>1. CASE UNCHANGED paramVars
  BY <1>1 DEF paramVars, Store!storeVars, Writing, CrcAgrees
<1>2. ASSUME NEW t \in Callers, NEW f, Save(t, f)
      PROVE  Store!Next
  <2>1. saving'[t].at = "erase" /\ image' = image
    BY <1>2 DEF Save
  <2>2. Writing'
    BY <2>1 DEF Writing
  <2>3. QED
    BY <1>0, <2>1, <2>2 DEF Store!Next, Store!Set, CrcAgrees
<1>3. ASSUME NEW t \in Callers, saving[t].at \in {"erase", "write"},
             params' = params, image' \in {image, params, Erased, Torn}
      PROVE  Store!Next
  <2>1. Writing
    BY <1>3 DEF Writing
  <2>2. kept' \in {kept, params, Default}
    BY <1>3 DEF CrcAgrees
  <2>3. Writing' \in BOOLEAN
    BY DEF Writing
  <2>4. QED
    BY <1>3, <2>1, <2>2, <2>3 DEF Store!Next, Store!Write
<1>4. ASSUME NEW t \in Callers, FallThrough(t) PROVE [Store!Next]_(Store!storeVars)
  <2>1. CASE params.ota = params.memos.current
    <3>1. image' = image /\ params' = params /\ saving' = [saving EXCEPT ![t] = Idle]
      BY <1>4, <2>1 DEF FallThrough
    <3>2. saving[t].at = "ota"
      BY <1>4 DEF FallThrough
    <3>3. \A u \in Callers : saving'[u].at \in {"erase", "write"} <=> saving[u].at \in {"erase", "write"}
      BY <3>1, <3>2, IdleFacts
    <3>4. QED
      BY <3>1, <3>3 DEF Writing, Store!storeVars, CrcAgrees
  <2>2. CASE params.ota # params.memos.current
    BY <1>2, <1>4, <2>2 DEF FallThrough
  <2>3. QED
    BY <2>1, <2>2
<1>5. CASE PowerCut
  <2>1. PICK i \in IF Writing THEN {image, Torn} ELSE {image} :
              /\ image' = i /\ params' = IF CrcAgrees(i) THEN i ELSE Default
    BY <1>5 DEF PowerCut
  <2>2. kept' = params'
    BY <2>1 DEF CrcAgrees
  <2>3. params' \in IF Writing THEN {kept, Default} ELSE {kept}
    BY <2>1 DEF CrcAgrees
  <2>4. Writing' \in BOOLEAN
    BY DEF Writing
  <2>5. QED
    BY <2>2, <2>3, <2>4 DEF Store!Next, Store!Restart
<1>6. ASSUME NEW t \in Callers, Erase(t) \/ Write(t) \/ FlashFails(t) PROVE Store!Next
  BY <1>3, <1>6 DEF Erase, Write, FlashFails
<1>7. CASE SetDefault
  BY <1>0, <1>2, <1>7 DEF SetDefault
<1>8. ASSUME NEW t \in Tasks, NEW v \in Users, SetUser(t, v) PROVE Store!Next
  BY <1>2, <1>8 DEF SetUser, SetField, Callers
<1>9. ASSUME NEW t \in Tasks, SetOta(t, Test) PROVE Store!Next
  BY <1>2, <1>9 DEF SetOta, SetField, Callers
<1>10. ASSUME NEW t \in Tasks, NEW a \in A, SetMemos(t, a) PROVE Store!Next
  BY <1>2, <1>10 DEF SetMemos, Callers
<1>11. ASSUME NEW t \in Tasks, NEW f, NEW v, SetAgain(t, f, v)
       PROVE  UNCHANGED Store!storeVars
  BY <1>11 DEF SetAgain, Store!storeVars, Writing, CrcAgrees
<1>12. QED
  BY <1>1, <1>4, <1>5, <1>6, <1>7, <1>8, <1>9, <1>10, <1>11 DEF ParamStep, FlashStep

-----------------------------------------------------------------------------
(* What is in flash is what was in memory                                  *)

LEMMA IdleIsNotBusy ==
  ASSUME NEW t \in Callers, ~Busy(t)
  PROVE  saving[t].at = "none"
BY IdleFacts DEF Busy

\* A save begins in a task that meets no other, or meets one without the lock.
LEMMA SaveStarts ==
  ASSUME ParamTypeOK, SaveInv, NEW t \in Callers, NEW f, Save(t, f),
         \A u \in Tasks \ {Terminal} : Busy(u) \/ u = t => lock' = u,
         IF t = Boot THEN \A u \in Tasks : ~Busy(u) ELSE ~Busy(Boot),
         ~collided => \A u \in Callers \ {t} : Busy(u) => Terminal \in {t, u}
  PROVE  SaveInv'
<1>1. /\ collided' = (collided \/ \E u \in Callers \ {t} : Busy(u) /\ Terminal \in {t, u})
      /\ saving'[t].at = "erase" /\ saving'[t].sum = params'
      /\ \A u \in Callers \ {t} : saving'[u] = saving[u]
  BY DEF Save, ParamTypeOK
<1>2. ~collided' => ~collided /\ \A u \in Callers \ {t} : ~Busy(u)
  BY <1>1
<1>3. /\ \A u \in Callers \ {t} : Busy(u)' <=> Busy(u)
      /\ Writing'
  BY <1>1 DEF Busy, Writing
<1>4. SavesApart'
  BY <1>2, <1>3 DEF SavesApart, Callers
<1>5. SaveIsWhole'
  BY <1>1, <1>2, IdleIsNotBusy DEF SaveIsWhole
<1>6. QED
  BY <1>3, <1>4, <1>5 DEF SaveInv, KeptUnlessTold

\* A save moves on, or ends and gives the lock back if it has it.
LEMMA SaveGoesOn ==
  ASSUME SavesApart, NEW t \in Callers, Busy(t), collided' = collided,
         \A u \in Callers \ {t} : saving'[u] = saving[u],
         lock' = lock \/ (lock = t /\ ~Busy(t)')
  PROVE  SavesApart' /\ (~collided => \A u \in Callers \ {t} : saving'[u].at = "none")
<1>1. \A u \in Callers \ {t} : Busy(u)' <=> Busy(u)
  BY DEF Busy
<1>2. SavesApart'
  BY <1>1 DEF SavesApart, Callers
<1>3. ~collided => \A u \in Callers \ {t} : saving'[u].at = "none"
  BY IdleIsNotBusy DEF SavesApart
<1>4. QED
  BY <1>2, <1>3

LEMMA ParamSaves ==
  ASSUME ParamTypeOK, SaveInv, NEW A \in SUBSET Arrays, ParamStep(A)
  PROVE  SaveInv'
<1>0. /\ Terminal \in Callers /\ Boot \in Callers /\ Tasks \subseteq Callers
      /\ SavesApart /\ SaveIsWhole /\ KeptUnlessTold
  BY DEF SaveInv, Callers
<1>1. CASE UNCHANGED paramVars
  BY <1>0, <1>1 DEF paramVars, SaveInv, SavesApart, SaveIsWhole, KeptUnlessTold, Busy, Writing
<1>2. ASSUME NEW t \in Tasks, NEW f, Started, lock = Nobody, lock' = t, Save(t, f)
      PROVE  SaveInv'
  <2>1. \A u \in Callers \ {Terminal} : ~Busy(u)
    BY <1>0, <1>2 DEF SavesApart, Started, Callers
  <2>2. QED
    BY <1>0, <1>2, <2>1, SaveStarts DEF Started
<1>3. CASE Started /\ SetDefault
  BY <1>0, <1>3, SaveStarts DEF SetDefault, Started, SavesApart
<1>4. ASSUME NEW t \in Callers, Busy(t), Saved(t), collided' = collided, saving[t].at # "ota"
      PROVE  /\ SavesApart'
             /\ \A u \in Callers \ {t} : ~collided => saving'[u].at = "none"
             /\ saving'[t].at \in {"none", "ota"}
  <2>1. /\ \A u \in Callers \ {t} : saving'[u] = saving[u]
        /\ saving'[t] \in {Idle, [saving[t] EXCEPT !.at = "ota"]}
    BY <1>4 DEF Saved, ParamTypeOK
  <2>2. lock' = lock \/ (lock = t /\ ~Busy(t)')
    <3>1. CASE saving[t].field = "memos"
      BY <1>4, <3>1 DEF Saved
    <3>2. CASE saving[t].field # "memos"
      <4>1. saving'[t] = Idle
        BY <1>4, <3>2 DEF Saved, ParamTypeOK
      <4>2. lock' = lock \/ lock = t
        BY <1>4, <3>2 DEF Saved, Unlock
      <4>3. QED
        BY <4>1, <4>2 DEF Busy
    <3>3. QED
      BY <3>1, <3>2
  <2>3. saving'[t].at \in {"none", "ota"}
    <3>1. saving[t] \in [at : Places, field : {"user", "ota", "memos", "all"}, sum : Params]
      BY DEF ParamTypeOK
    <3>2. [saving[t] EXCEPT !.at = "ota"].at = "ota"
      BY <3>1
    <3>3. QED
      BY <2>1, <3>2, IdleFacts
  <2>4. QED
    BY <1>0, <1>4, <2>1, <2>2, <2>3, SaveGoesOn
<1>5. \A t \in Callers : saving[t].at # "none" => Busy(t)
  BY IdleFacts DEF Busy
<1>6. ASSUME NEW t \in Callers, Erase(t) PROVE SaveInv'
  <2>1. /\ saving'[t].at = "write" /\ \A u \in Callers \ {t} : saving'[u] = saving[u]
        /\ saving[t].at = "erase" /\ image' = Erased /\ crc' = saving[t].sum
        /\ params' = params /\ lock' = lock /\ collided' = collided
    BY <1>6 DEF Erase, ParamTypeOK
  <2>2. SavesApart' /\ (~collided => \A u \in Callers \ {t} : saving'[u].at = "none")
    <3>1. Busy(t)
      BY <1>5, <2>1
    <3>2. QED
      BY <1>0, <2>1, <3>1, SaveGoesOn
  <2>3. SaveIsWhole'
    BY <1>0, <2>1, <2>2 DEF SaveIsWhole
  <2>4. Writing'
    BY <2>1 DEF Writing
  <2>5. QED
    BY <2>2, <2>3, <2>4 DEF SaveInv, KeptUnlessTold
<1>7. ASSUME NEW t \in Callers, Write(t) PROVE SaveInv'
  <2>1. /\ saving[t].at = "write" /\ params' = params /\ collided' = collided
        /\ image' = IF image \in {Erased, params} /\ crc = params THEN params ELSE Torn
    BY <1>7 DEF Write
  <2>2. /\ SavesApart'
        /\ \A u \in Callers \ {t} : ~collided => saving'[u].at = "none"
        /\ saving'[t].at \in {"none", "ota"}
    BY <1>4, <1>5, <1>7 DEF Write
  <2>3. ~collided => image' = params
    BY <1>0, <2>1 DEF SaveIsWhole
  <2>4. QED
    BY <2>1, <2>2, <2>3 DEF SaveInv, SaveIsWhole, KeptUnlessTold
<1>8. ASSUME NEW t \in Callers, FlashFails(t) PROVE SaveInv'
  <2>1. /\ SavesApart'
        /\ \A u \in Callers \ {t} : ~collided => saving'[u].at = "none"
        /\ saving'[t].at \in {"none", "ota"}
    BY <1>4, <1>5, <1>8 DEF FlashFails
  <2>2. ret'[t] = "FAIL" \/ unheard' = "not looked at"
    BY <1>8 DEF FlashFails, Refused, ParamTypeOK
  <2>3. KeptUnlessTold'
    BY <2>2 DEF KeptUnlessTold
  <2>4. QED
    BY <1>8, <2>1, <2>3 DEF FlashFails, SaveInv, SaveIsWhole
<1>9. ASSUME NEW t \in Callers, FallThrough(t) PROVE SaveInv'
  <2>1. Busy(t)
    BY <1>5, <1>9 DEF FallThrough
  <2>2. CASE params.ota = params.memos.current
    <3>1. /\ saving' = [saving EXCEPT ![t] = Idle] /\ Unlock(t)
          /\ UNCHANGED <<params, crc, image, ret, unheard, collided>>
      BY <1>9, <2>2 DEF FallThrough
    <3>2. /\ saving'[t] = Idle /\ \A u \in Callers \ {t} : saving'[u] = saving[u]
      BY <3>1 DEF ParamTypeOK
    <3>3. lock' = lock \/ (lock = t /\ ~Busy(t)')
      BY <3>1, <3>2 DEF Unlock, Busy, Idle, Default
    <3>4. SavesApart'
      BY <1>0, <2>1, <3>1, <3>2, <3>3, SaveGoesOn
    <3>5. \A u \in Callers : saving'[u].at \in {saving[u].at, "none"}
      BY <3>2, IdleFacts
    <3>6. SaveIsWhole'
      BY <1>0, <3>1, <3>2, IdleFacts DEF SaveIsWhole
    <3>7. Writing' <=> Writing
      BY <1>9, <3>2, IdleFacts DEF Writing, FallThrough
    <3>8. QED
      BY <1>0, <3>1, <3>4, <3>6, <3>7 DEF SaveInv, KeptUnlessTold
  <2>3. CASE params.ota # params.memos.current
    <3>1. Save(t, "ota") /\ lock' = lock
      BY <1>9, <2>3 DEF FallThrough
    <3>2. IF t = Boot THEN \A u \in Tasks : ~Busy(u) ELSE ~Busy(Boot)
      BY <1>0, <2>1 DEF SavesApart, Callers
    <3>3. \A u \in Tasks \ {Terminal} : Busy(u) \/ u = t => lock' = u
      BY <1>0, <2>1, <3>1 DEF SavesApart
    <3>4. ~collided => \A u \in Callers \ {t} : Busy(u) => Terminal \in {t, u}
      BY <1>0, <2>1 DEF SavesApart
    <3>5. QED
      BY <3>1, <3>2, <3>3, <3>4, SaveStarts
  <2>4. QED
    BY <2>2, <2>3
<1>10. CASE PowerCut
  <2>1. PICK i \in {image, Torn} :
          /\ image' = i /\ params' = IF CrcAgrees(i) THEN i ELSE Default
          /\ saving' = [t \in Callers |-> IF t = Boot /\ ~CrcAgrees(i)
               THEN [at |-> "erase", field |-> "all", sum |-> Default] ELSE Idle]
    BY <1>10 DEF PowerCut
  <2>2. \A t \in Callers \ {Boot} : saving'[t] = Idle /\ saving'[t].at = "none"
    BY <2>1, IdleFacts
  <2>3. CASE CrcAgrees(i)
    <3>1. params' = image' /\ saving'[Boot] = Idle /\ saving'[Boot].at = "none"
      BY <1>0, <2>1, <2>3, IdleFacts
    <3>2. QED
      BY <2>2, <3>1 DEF SaveInv, SavesApart, SaveIsWhole, KeptUnlessTold, Busy, Callers
  <2>4. CASE ~CrcAgrees(i)
    <3>1. saving'[Boot].at = "erase" /\ saving'[Boot].sum = Default /\ params' = Default
      BY <1>0, <2>1, <2>4
    <3>2. Writing'
      BY <1>0, <3>1 DEF Writing
    <3>3. QED
      BY <2>2, <3>1, <3>2 DEF SaveInv, SavesApart, SaveIsWhole, KeptUnlessTold, Busy, Callers
  <2>5. QED
    BY <2>3, <2>4
<1>11. ASSUME NEW t \in Tasks, Started, NEW v \in Users, SetUser(t, v) PROVE SaveInv'
  BY <1>2, <1>11 DEF SetUser, SetField
<1>12. ASSUME NEW t \in Tasks, Started, SetOta(t, Test) PROVE SaveInv'
  BY <1>2, <1>12 DEF SetOta, SetField
<1>13. ASSUME NEW t \in Tasks, Started, NEW a \in A, SetMemos(t, a) PROVE SaveInv'
  BY <1>2, <1>13 DEF SetMemos
<1>14. ASSUME NEW t \in Tasks, NEW f, NEW v, SetAgain(t, f, v) PROVE SaveInv'
  <2>1. UNCHANGED <<params, crc, image, lock, saving, collided>>
    BY <1>14 DEF SetAgain
  <2>2. /\ ret' = [ret EXCEPT ![t] = "OK"]
        /\ unheard' = IF ret[t] = "FAIL" THEN "set again" ELSE unheard
    BY <1>14 DEF SetAgain
  <2>3. KeptUnlessTold'
    BY <1>0, <2>1, <2>2 DEF KeptUnlessTold, Writing, ParamTypeOK
  <2>4. QED
    BY <1>0, <2>1, <2>3 DEF SaveInv, SavesApart, SaveIsWhole, Busy
<1>15. QED
  BY <1>1, <1>3, <1>6, <1>7, <1>8, <1>9, <1>10, <1>11, <1>12, <1>13, <1>14
  DEF ParamStep, FlashStep

-----------------------------------------------------------------------------
(* The memos                                                               *)

LEMMA ConstantFacts ==
  /\ Epoch \in Nat /\ MaxTicks \in Nat /\ MEMO_EVEVT_MAX \in Nat \ {0} /\ MaxMemos \in Nat \ {0}
  /\ 0 \in Times /\ Epoch + 1 \in Times /\ Times \subseteq Nat
  /\ NoText \in Texts /\ 1 \in Texts /\ 1 \in Slots
  /\ NoEvent \in Event
<1>1. Epoch \in Nat /\ MaxTicks \in Nat /\ MEMO_EVEVT_MAX \in Nat \ {0} /\ MaxMemos \in Nat \ {0}
  OBVIOUS
<1>2. 0 \in Times /\ Epoch + 1 \in Times /\ Times \subseteq Nat
  BY <1>1 DEF Times
<1>3. NoText \in Texts /\ 1 \in Texts /\ 1 \in Slots
  BY <1>1 DEF NoText, Texts, Slots
<1>4. NoEvent \in Event
  BY <1>2, <1>3 DEF NoEvent, Event
<1>5. QED
  BY <1>1, <1>2, <1>3, <1>4

LEMMA SlotsFacts == IsFiniteSet(Slots) /\ Cardinality(Slots) = MEMO_EVEVT_MAX
<1>1. 1 \in Int /\ MEMO_EVEVT_MAX \in Int /\ ~(1 > MEMO_EVEVT_MAX)
      /\ MEMO_EVEVT_MAX - 1 + 1 = MEMO_EVEVT_MAX
  BY ConstantFacts
<1>2. QED
  BY <1>1, FS_Interval DEF Slots

LEMMA UsedFacts ==
  ASSUME NEW a \in MemoArrays
  PROVE  IsFiniteSet(Used(a)) /\ Cardinality(Used(a)) \in 0..MEMO_EVEVT_MAX
<1>1. IsFiniteSet(Slots) /\ Cardinality(Slots) = MEMO_EVEVT_MAX
  BY SlotsFacts
<1>2. Used(a) \in SUBSET Slots
  BY DEF Used
<1>3. IsFiniteSet(Used(a)) /\ Cardinality(Used(a)) <= MEMO_EVEVT_MAX
  BY <1>1, <1>2, FS_Subset
<1>4. Cardinality(Used(a)) \in Nat
  BY <1>3, FS_CardinalityType
<1>5. QED
  BY <1>3, <1>4

LEMMA EmptyCounted == EmptyArray \in Counted
<1>1. EmptyArray \in MemoArrays
  <2>1. [n \in Slots |-> NoEvent] \in [Slots -> Event]
    BY ConstantFacts
  <2>2. 0 \in 0..MEMO_EVEVT_MAX
    BY ConstantFacts
  <2>3. QED
    BY <2>1, <2>2 DEF EmptyArray, MemoArrays
<1>2. Used(EmptyArray) = {}
  BY DEF Used, EmptyArray, NoEvent
<1>3. QED
  BY <1>1, <1>2, FS_EmptySet DEF Counted, EmptyArray

\* add_memo into a free slot, and over another memo: the slots in use are at
\* most those that were and the one written.
LEMMA AddCounted ==
  ASSUME NEW a \in Counted, NEW n, NEW e \in Event
  PROVE  /\ a.current < MEMO_EVEVT_MAX =>
              [current |-> a.current + 1, event |-> [a.event EXCEPT ![n] = e]] \in Counted
         /\ a.current >= MEMO_EVEVT_MAX => [a EXCEPT !.event[n] = e] \in Counted
<1>0. a \in MemoArrays /\ a.current \in Nat /\ Cardinality(Used(a)) <= a.current
  BY DEF Counted, MemoArrays
<1>1. ASSUME NEW b \in MemoArrays, b.event = [a.event EXCEPT ![n] = e]
      PROVE  Cardinality(Used(b)) <= Cardinality(Used(a)) + 1
  <2>1. Used(b) \in SUBSET (Used(a) \cup {n})
    BY <1>0, <1>1 DEF Used, MemoArrays
  <2>2. IsFiniteSet(Used(a)) /\ Cardinality(Used(a)) \in Nat
    BY <1>0, UsedFacts
  <2>3. IsFiniteSet(Used(a) \cup {n}) /\ Cardinality(Used(a) \cup {n}) <= Cardinality(Used(a)) + 1
    <3> DEFINE S == Used(a)
    <3>1. IsFiniteSet(S) /\ Cardinality(S) \in Nat
      BY <2>2
    <3> HIDE DEF S
    <3>2. IsFiniteSet(S \cup {n}) /\ Cardinality(S \cup {n}) \in {Cardinality(S), Cardinality(S) + 1}
      <4>1. /\ IsFiniteSet(S \cup {n})
            /\ Cardinality(S \cup {n}) = IF n \in S THEN Cardinality(S) ELSE Cardinality(S) + 1
        BY <3>1, FS_AddElement, Zenon
      <4>2. QED
        BY <4>1
    <3>3. IsFiniteSet(S \cup {n}) /\ Cardinality(S \cup {n}) <= Cardinality(S) + 1
      BY <3>1, <3>2
    <3>4. QED
      BY <3>3 DEF S
  <2>4. Cardinality(Used(b)) <= Cardinality(Used(a) \cup {n})
    BY <2>1, <2>3, FS_Subset
  <2>5. Cardinality(Used(b)) \in Nat /\ Cardinality(Used(a) \cup {n}) \in Nat
    BY <1>1, <2>3, UsedFacts, FS_CardinalityType
  <2>6. QED
    BY <2>2, <2>3, <2>4, <2>5
<1>2. [a.event EXCEPT ![n] = e] \in [Slots -> Event]
  BY <1>0 DEF MemoArrays
<1>3. ASSUME a.current < MEMO_EVEVT_MAX
      PROVE  [current |-> a.current + 1, event |-> [a.event EXCEPT ![n] = e]] \in Counted
  <2> DEFINE b == [current |-> a.current + 1, event |-> [a.event EXCEPT ![n] = e]]
  <2>1. b \in MemoArrays /\ b.event = [a.event EXCEPT ![n] = e] /\ b.current = a.current + 1
    BY <1>0, <1>2, <1>3 DEF MemoArrays
  <2> HIDE DEF b
  <2>2. Cardinality(Used(b)) <= Cardinality(Used(a)) + 1
    BY <1>1, <2>1
  <2>3. Cardinality(Used(b)) <= b.current
    BY <1>0, <2>1, <2>2, UsedFacts
  <2>4. b \in Counted
    BY <2>1, <2>3 DEF Counted
  <2>5. QED
    BY <2>4 DEF b
<1>4. ASSUME a.current >= MEMO_EVEVT_MAX
      PROVE  [a EXCEPT !.event[n] = e] \in Counted
  <2> DEFINE b == [a EXCEPT !.event[n] = e]
  <2>1. b \in MemoArrays /\ b.current = a.current
    BY <1>0, <1>2 DEF MemoArrays
  <2> HIDE DEF b
  <2>2. Cardinality(Used(b)) <= b.current
    BY <1>0, <1>4, <2>1, UsedFacts DEF MemoArrays
  <2>3. b \in Counted
    BY <2>1, <2>2 DEF Counted
  <2>4. QED
    BY <2>3 DEF b
<1>5. QED
  BY <1>3, <1>4

\* memo_event_handle clears a slot in use: there is a memo to subtract.
LEMMA RemoveCounted ==
  ASSUME NEW a \in Counted, NEW n \in Slots, a.event[n].time # 0
  PROVE  [current |-> a.current - 1, event |-> [a.event EXCEPT ![n] = NoEvent]] \in Counted
<1> DEFINE b == [current |-> a.current - 1, event |-> [a.event EXCEPT ![n] = NoEvent]]
<1>0. /\ a \in MemoArrays /\ a.current \in 0..MEMO_EVEVT_MAX
      /\ Cardinality(Used(a)) <= a.current
      /\ IsFiniteSet(Used(a)) /\ Cardinality(Used(a)) \in Nat
  BY UsedFacts DEF Counted, MemoArrays
<1>1. n \in Used(a)
  BY DEF Used
<1>2. Used(b) = Used(a) \ {n}
  BY <1>0 DEF Used, MemoArrays, NoEvent
<1>3. Cardinality(Used(b)) = Cardinality(Used(a)) - 1 /\ Cardinality(Used(a)) # 0
  <2> DEFINE S == Used(a)
  <2>1. IsFiniteSet(S) /\ n \in S /\ Used(b) = S \ {n} /\ Cardinality(S) \in Nat
    BY <1>0, <1>1, <1>2
  <2> HIDE DEF S, b
  <2>2. Cardinality(S \ {n}) = IF n \in S THEN Cardinality(S) - 1 ELSE Cardinality(S)
    BY <2>1, FS_RemoveElement, Zenon
  <2>3. Cardinality(S) # 0
    BY <2>1, FS_EmptySet
  <2>4. Cardinality(Used(b)) = Cardinality(S) - 1 /\ Cardinality(S) # 0
    BY <2>1, <2>2, <2>3
  <2>5. QED
    BY <2>4 DEF S
<1>4. a.current - 1 \in 0..MEMO_EVEVT_MAX
  BY <1>0, <1>3
<1>5. NoEvent \in Event
  BY ConstantFacts
<1>6. b \in MemoArrays
  BY <1>0, <1>4, <1>5 DEF MemoArrays
<1>7. QED
  BY <1>0, <1>3, <1>6 DEF Counted

LEMMA FirstCounted == FirstArray \in Counted /\ FirstParams \in Params
<1>1. 0 + 1 = 1 /\ EmptyArray.current = 0
  BY DEF EmptyArray
<1>2. FirstMemo \in Event
  BY ConstantFacts DEF FirstMemo, Event
<1>3. FirstArray = [current |-> EmptyArray.current + 1,
                    event |-> [EmptyArray.event EXCEPT ![1] = FirstMemo]]
  <2>1. [n \in Slots |-> IF n = 1 THEN FirstMemo ELSE NoEvent]
          = [[n \in Slots |-> NoEvent] EXCEPT ![1] = FirstMemo]
    OBVIOUS
  <2>2. EmptyArray.event = [n \in Slots |-> NoEvent]
    BY DEF EmptyArray
  <2>3. QED
    BY <1>1, <2>1, <2>2 DEF FirstArray
<1>4. FirstArray \in Counted
  <2>1. EmptyArray.current < MEMO_EVEVT_MAX
    BY <1>1, ConstantFacts
  <2>2. [current |-> EmptyArray.current + 1,
         event |-> [EmptyArray.event EXCEPT ![1] = FirstMemo]] \in Counted
    BY <1>2, <2>1, EmptyCounted, AddCounted
  <2>3. QED
    BY <1>3, <2>2
<1>5. QED
  BY <1>4 DEF Counted, FirstParams, Params

\* The memos among the parameters, and those in flash, come from the memo task,
\* from flash or from the factory.
LEMMA ParamCounted ==
  ASSUME ParamTypeOK, params.memos \in Counted, CrcAgrees(image) => image.memos \in Counted,
         ParamStep(Counted)
  PROVE  params'.memos \in Counted /\ (CrcAgrees(image') => image'.memos \in Counted)
<1> USE DEF ParamTypeOK
<1>0. Default.memos \in Counted /\ ~CrcAgrees(Torn) /\ ~CrcAgrees(Erased)
  BY EmptyCounted DEF Default, CrcAgrees
<1>1. CASE UNCHANGED paramVars
  BY <1>1 DEF paramVars
<1>2. CASE SetDefault
  BY <1>0, <1>2 DEF SetDefault, Save
<1>3. ASSUME NEW t \in Tasks, NEW v \in Users, SetUser(t, v)
      PROVE  params'.memos = params.memos /\ image' = image
  BY <1>3 DEF SetUser, SetField, Save, Params
<1>4. ASSUME NEW t \in Tasks, SetOta(t, Test)
      PROVE  params'.memos = params.memos /\ image' = image
  BY <1>4 DEF SetOta, SetField, Save, Params
<1>5. ASSUME NEW t \in Tasks, NEW a \in Counted, SetMemos(t, a)
      PROVE  params'.memos = a /\ image' = image
  BY <1>5 DEF SetMemos, Save, Params
<1>6. ASSUME NEW t \in Callers, FallThrough(t)
      PROVE  params'.memos = params.memos /\ image' = image
  <2>1. CASE params.ota = params.memos.current
    BY <1>6, <2>1 DEF FallThrough
  <2>2. CASE params.ota # params.memos.current
    <3>1. params' = [params EXCEPT !.ota = OtaMode(params.memos.current)] /\ image' = image
      BY <1>6, <2>2 DEF FallThrough, Save
    <3>2. QED
      BY <3>1 DEF Params
  <2>3. QED
    BY <2>1, <2>2
<1>7. ASSUME NEW t \in Callers, Erase(t) \/ Write(t) \/ FlashFails(t)
      PROVE  params' = params /\ image' \in {image, params, Torn, Erased}
  BY <1>7 DEF Erase, Write, FlashFails
<1>8. CASE PowerCut
  <2>1. PICK i \in {image, Torn} :
          image' = i /\ params' = IF CrcAgrees(i) THEN i ELSE Default
    BY <1>8 DEF PowerCut
  <2>2. QED
    BY <1>0, <2>1
<1>9. ASSUME NEW t \in Tasks, NEW f, NEW v, SetAgain(t, f, v)
      PROVE  params' = params /\ image' = image
  BY <1>9 DEF SetAgain
<1>10. QED
  BY <1>0, <1>1, <1>2, <1>3, <1>4, <1>5, <1>6, <1>7, <1>8, <1>9 DEF ParamStep, FlashStep

\* Everything the system does to the parameters is a ParamStep.
LEMMA NextParamStep ==
  ASSUME DataInv, [Next]_vars
  PROVE  ParamStep(Counted)
<1>0. memo_array \in Counted /\ num \in Slots /\ Memo \in Tasks /\ Other \in Tasks
      /\ Terminal \in Tasks
  BY DEF DataInv, TypeOK
<1>1. ASSUME UNCHANGED paramVars PROVE ParamStep(Counted)
  BY <1>1 DEF ParamStep
<1>2. ASSUME Started, NEW a \in Counted, SetMemos(Memo, a) PROVE ParamStep(Counted)
  BY <1>0, <1>2 DEF ParamStep
<1>3. ASSUME Started, GetMemoResult PROVE ParamStep(Counted)
  BY <1>1, <1>3 DEF GetMemoResult, GetText, Outdated, SetTime, SetStatus
<1>4. ASSUME Started, StoreAdded PROVE ParamStep(Counted)
  BY <1>0, <1>2, <1>4 DEF StoreAdded
<1>5. ASSUME Started, Expire \/ Speak PROVE ParamStep(Counted)
  <2>1. SetMemos(Memo, memo_array')
    BY <1>5 DEF Expire, Speak, RemoveSlot
  <2>2. memo_array' \in Counted
    BY <1>0, <1>5, RemoveCounted DEF Expire, Speak, RemoveSlot, Current
  <2>3. QED
    BY <1>2, <1>5, <2>1, <2>2
<1>6. ASSUME Started, MemoTask, ~StoreAdded, ~Expire, ~Speak PROVE ParamStep(Counted)
  BY <1>1, <1>6 DEF MemoTask, Message, AskTime, Load, AddToArray, ClearEvent, Added, StartScan,
                    Skip, Stored, Remind, Still
<1>7. ASSUME Settings, Started PROVE ParamStep(Counted)
  BY <1>0, <1>7 DEF Settings, ParamStep
<1>s. ASSUME SameSetting, Started PROVE ParamStep(Counted)
  BY <1>0, <1>s DEF SameSetting, ParamStep
<1>8. ASSUME NoTime \/ SetClock \/ Connect \/ Disconnect \/ Cancel \/ Tick
      PROVE  ParamStep(Counted)
  BY <1>1, <1>8 DEF NoTime, SetClock, Connect, Disconnect, Cancel, Tick, Still
<1>9. ASSUME Flash \/ FlashFault \/ Restart PROVE ParamStep(Counted)
  BY <1>9 DEF Flash, FlashFault, Restart, ParamStep
<1>10. QED
  BY <1>1, <1>3, <1>4, <1>5, <1>6, <1>7, <1>8, <1>9, <1>s DEF Next, vars

LEMMA TimeFacts ==
  /\ Times \subseteq Nat /\ 0 \in Times
  /\ \A x \in Nat : x <= Epoch + MaxTicks => x \in Times
  /\ \A x \in Nat, d \in Delays : x <= Epoch + MaxTicks => x + d + 1 \in Times
<1>1. Epoch \in Nat /\ MaxTicks \in Nat /\ \A d \in Delays : d \in 0..MaxTicks
  BY ConstantFacts
<1>2. QED
  BY <1>1 DEF Times

\* The bounds are numbers that are spent.
LEMMA SpendFacts ==
  ASSUME TypeOK, NEW b \in {"memos", "flaps", "cancels", "faults", "sets"}, Spend(b)
  PROVE  left' \in Left
<1>1. MaxMemos \in Nat
  OBVIOUS
<1>2. left \in Left
  BY DEF TypeOK
<1>3. CASE b = "memos"
  BY <1>1, <1>2, <1>3 DEF Spend
<1>4. CASE b = "flaps"
  BY <1>1, <1>2, <1>4 DEF Spend
<1>5. CASE b = "cancels"
  BY <1>1, <1>2, <1>5 DEF Spend
<1>6. CASE b = "faults"
  BY <1>1, <1>2, <1>6 DEF Spend
<1>7. CASE b = "sets"
  BY <1>1, <1>2, <1>7 DEF Spend
<1>8. QED
  BY <1>3, <1>4, <1>5, <1>6, <1>7

\* The part of DataInv that is about the parameters: their types, and that no
\* array among them or in flash has more slots in use than memos.
LEMMA DataInvFrom ==
  ASSUME DataInv, [Next]_vars
  PROVE  /\ ParamTypeOK'
         /\ params'.memos \in Counted
         /\ CrcAgrees(image') => image'.memos \in Counted
<1>1. ParamStep(Counted)
  BY NextParamStep
<1>2. Counted \in SUBSET Arrays
  BY DEF Counted
<1>3. QED
  BY <1>1, <1>2, ParamTypes, ParamCounted DEF DataInv, TypeOK

LEMMA NextDataInv ==
  ASSUME DataInv, [Next]_vars
  PROVE  DataInv'
<1>p. /\ ParamTypeOK' /\ params'.memos \in Counted
      /\ CrcAgrees(image') => image'.memos \in Counted
  BY DataInvFrom
<1>c. /\ TypeOK /\ memo_array \in Counted /\ params.memos \in Counted
      /\ clock \in Nat /\ real \in Nat /\ clock <= real /\ real <= Epoch + MaxTicks
      /\ content # NoText => remind_count < MaxRemind
      /\ Counted \subseteq MemoArrays
      /\ Epoch \in Nat /\ MaxTicks \in Nat /\ MaxRemind \in Nat \ {0, 1}
      /\ MEMO_EVEVT_MAX \in Nat \ {0} /\ MaxMemos \in Nat
  BY TimeFacts, ConstantFacts DEF DataInv, TypeOK, Counted
<1>1. CASE UNCHANGED vars
  BY <1>c, <1>1, <1>p DEF DataInv, TypeOK, vars, shared, memoVars, talkVars, world, observers
<1>2. CASE GetText
  <2>1. /\ exe_time' \in Times
        /\ left' \in Left
    <3>1. PICK d \in Delays : exe_time' = clock + d + 1
      BY <1>2 DEF GetText
    <3>2. clock <= Epoch + MaxTicks
      BY <1>c
    <3>3. exe_time' \in Times
      BY <1>c, <3>1, <3>2, TimeFacts
    <3>4. QED
      BY <1>c, <1>2, <3>3, SpendFacts DEF GetText
  <2>2. Dictated' \in Texts
    BY <1>c, <2>1 DEF Dictated, Texts, NoText
  <2>3. memo_event' \in Event
    BY <1>c, <1>2, <2>2 DEF GetText, Event, TypeOK
  <2>4. QED
    BY <1>c, <1>2, <1>p, <2>1, <2>3 DEF DataInv, TypeOK, GetText, memoVars, world
<1>3. CASE Outdated
  <2>1. memo_event' \in Event /\ exe_time' \in Times
    BY <1>c, <1>3, TimeFacts, ConstantFacts DEF Outdated, Event, TypeOK
  <2>2. QED
    BY <1>c, <1>3, <1>p, <2>1 DEF DataInv, TypeOK, Outdated, memoVars, world, observers
<1>4. CASE SetTime
  <2>1. memo_event' \in Event
    BY <1>c, <1>4 DEF SetTime, Event, TypeOK
  <2>2. QED
    BY <1>c, <1>4, <1>p, <2>1 DEF DataInv, TypeOK, SetTime, memoVars, world, observers
<1>5. CASE SetStatus
  <2>1. due' \in [Memos -> Times]
    BY <1>c, <1>5 DEF SetStatus, TypeOK
  <2>2. QED
    BY <1>c, <1>5, <1>p, <2>1, TimeFacts DEF DataInv, TypeOK, SetStatus, memoVars, world
<1>6. CASE Message
  <2>1. msgs' \in Seq({"connected", "disconnected", "cancel"})
    BY <1>c, <1>6, HeadTailProperties DEF Message, TypeOK
  <2>2. Head(msgs) \in {"connected", "disconnected", "cancel"}
    BY <1>c, <1>6, HeadTailProperties DEF Message, TypeOK
  <2>3. /\ memo_status' \in {"IDLE", "INIT", "ADD", "LOOP"} /\ lost' \subseteq Memos
        /\ content' \in {content, NoText}
    BY <1>c, <1>6, <2>2 DEF Message, Drop, TypeOK
  <2>4. QED
    BY <1>c, <1>6, <1>p, <2>1, <2>3, ConstantFacts DEF DataInv, TypeOK, Message, talkVars
<1>7. CASE AskTime \/ NoTime
  BY <1>c, <1>7, <1>p, ZenonT(40)
  DEF DataInv, TypeOK, AskTime, NoTime, Still, shared, talkVars, world, observers
<1>8. CASE SetClock
  <2>1. clock' \in Times /\ clock' <= real'
    BY <1>c, <1>8 DEF SetClock, TypeOK
  <2>2. QED
    BY <1>c, <1>8, <1>p, <2>1 DEF DataInv, TypeOK, SetClock, shared, talkVars, observers
<1>9. CASE Load
  <2>1. memo_array' \in Counted /\ memo_array' \in MemoArrays
    BY <1>c, <1>9 DEF Load
  <2>2. lost' \subseteq Memos /\ memo_status' \in {"IDLE", "INIT", "ADD", "LOOP"}
    BY <1>c, <1>9 DEF Load, Drop, TypeOK
  <2>3. QED
    BY <1>c, <1>9, <1>p, <2>1, <2>2 DEF DataInv, TypeOK, Load, talkVars, world
<1>10. CASE AddToArray
  <2>1. memo_array.current \in Nat
    BY <1>c DEF MemoArrays
  <2>2. memo_array' \in Counted /\ memo_array' \in MemoArrays
    <3>1. memo_event \in Event
      BY <1>c DEF TypeOK
    <3>2. CASE memo_array.current >= MEMO_EVEVT_MAX
      <4>1. PICK n : memo_array' = [memo_array EXCEPT !.event[n] = memo_event]
        BY <1>c, <1>10, <2>1, <3>2 DEF AddToArray
      <4>2. QED
        BY <1>c, <3>1, <3>2, <4>1, AddCounted
    <3>3. CASE memo_array.current < MEMO_EVEVT_MAX
      <4>1. PICK n : memo_array' = [current |-> memo_array.current + 1,
                                    event |-> [memo_array.event EXCEPT ![n] = memo_event]]
        BY <1>c, <1>10, <2>1, <3>3 DEF AddToArray
      <4>2. QED
        BY <1>c, <3>1, <3>3, <4>1, AddCounted
    <3>4. QED
      BY <1>c, <2>1, <3>2, <3>3
  <2>3. due' \in [Memos -> Times] /\ lost' \subseteq Memos
    BY <1>c, <1>10, TimeFacts DEF AddToArray, Drop, Forget, TypeOK
  <2>4. QED
    BY <1>c, <1>10, <1>p, <2>2, <2>3 DEF DataInv, TypeOK, AddToArray, shared, talkVars, world
<1>11. CASE ClearEvent
  BY <1>c, <1>11, <1>p, ConstantFacts
  DEF DataInv, TypeOK, ClearEvent, talkVars, world, observers
<1>12. CASE StoreAdded
  BY <1>c, <1>12, <1>p DEF DataInv, TypeOK, StoreAdded, shared, talkVars, world, observers
<1>13. CASE Added
  BY <1>c, <1>13, <1>p DEF DataInv, TypeOK, Added, talkVars, world, observers
<1>14. CASE StartScan
  BY <1>c, <1>14, <1>p, ConstantFacts
  DEF DataInv, TypeOK, StartScan, Still, shared, talkVars, world, observers
<1>15. ASSUME NextSlot \/ EndScan
       PROVE  num' \in Slots /\ time_sec' \in Times
                /\ pc' \in {"wait", "clock", "load", "clear", "store", "added", "scan", "stored", "remind"}
  <2>1. CASE EndScan
    BY <1>c, <2>1, TimeFacts, ConstantFacts DEF EndScan
  <2>2. CASE NextSlot /\ num # MEMO_EVEVT_MAX
    BY <1>c, <2>2 DEF NextSlot, Slots, TypeOK
  <2>3. QED
    BY <1>15, <2>1, <2>2 DEF NextSlot
<1>16. CASE Skip \/ Stored
  <2>1. NextSlot \/ EndScan
    BY <1>16 DEF Skip, Stored
  <2>2. QED
    BY <1>c, <1>15, <1>16, <1>p, <2>1, ZenonT(40)
    DEF DataInv, TypeOK, Skip, Stored, Still, shared, talkVars, world, observers
<1>17. CASE Expire \/ Speak
  <2>1. memo_array' \in Counted /\ memo_array' \in MemoArrays
    <3>1. num \in Slots /\ memo_array.event[num].time # 0
      BY <1>c, <1>17 DEF Expire, Speak, Current, TypeOK
    <3>2. memo_array' = [current |-> memo_array.current - 1,
                         event |-> [memo_array.event EXCEPT ![num] = NoEvent]]
      BY <1>17 DEF Expire, Speak, RemoveSlot
    <3>3. QED
      BY <1>c, <3>1, <3>2, RemoveCounted
  <2>2. due' \in [Memos -> Times]
    BY <1>c, <1>17, TimeFacts DEF Expire, Speak, RemoveSlot, Forget, TypeOK
  <2>3. Current.str \in Texts
    BY <1>c DEF Current, MemoArrays, Event, TypeOK
  <2>4. /\ content' \in Texts /\ remind_count' \in 0..MaxRemind
        /\ content' # NoText => remind_count' < MaxRemind
    <3>1. CASE Expire
      BY <1>c, <3>1 DEF Expire, TypeOK
    <3>2. CASE Speak
      BY <1>c, <2>3, <3>2 DEF Speak
    <3>3. QED
      BY <1>17, <3>1, <3>2
  <2>5. QED
    BY <1>c, <1>17, <1>p, <2>1, <2>2, <2>4
    DEF DataInv, TypeOK, Expire, Speak, RemoveSlot, shared, talkVars, world
<1>18. CASE Remind
  <2>1. /\ content' \in Texts /\ remind_count' \in 0..MaxRemind
        /\ content' # NoText => remind_count' < MaxRemind
    <3>1. content \in Texts /\ remind_count \in 0..MaxRemind
      BY <1>c DEF TypeOK
    <3>2. CASE UNCHANGED <<content, remind_count>>
      BY <1>c, <3>1, <3>2
    <3>3. CASE /\ content # NoText
               /\ remind_count' = remind_count + 1
               /\ content' = IF remind_count' = MaxRemind THEN NoText ELSE content
      BY <1>c, <3>1, <3>3, ConstantFacts
    <3>4. QED
      BY <1>18, <3>2, <3>3 DEF Remind
  <2>2. QED
    BY <1>c, <1>18, <1>p, <2>1 DEF DataInv, TypeOK, Remind, shared, talkVars, world, observers
<1>19. CASE Tick
  <2>1. /\ real' \in Nat /\ clock' \in Nat /\ clock' <= real' /\ real' <= Epoch + MaxTicks
    BY <1>c, <1>19 DEF Tick
  <2>2. real' \in Times /\ clock' \in Times
    BY <1>c, <2>1, TimeFacts
  <2>3. QED
    BY <1>c, <1>19, <1>p, <2>1, <2>2, ZenonT(40)
    DEF DataInv, TypeOK, Tick, Rest, shared, memoVars, talkVars, observers
<1>20. CASE Connect
  BY <1>c, <1>20, <1>p, SpendFacts, AppendProperties, ZenonT(40)
  DEF DataInv, TypeOK, Connect, Rest, shared, memoVars, talkVars, observers
<1>21. CASE Disconnect
  BY <1>c, <1>21, <1>p, AppendProperties, ZenonT(40)
  DEF DataInv, TypeOK, Disconnect, Rest, shared, memoVars, talkVars, observers
<1>22. CASE Cancel
  BY <1>c, <1>22, <1>p, SpendFacts, AppendProperties, ZenonT(40)
  DEF DataInv, TypeOK, Cancel, Rest, shared, memoVars, talkVars, observers
<1>23. CASE Flash
  BY <1>c, <1>23, <1>p, ZenonT(40)
  DEF DataInv, TypeOK, Flash, Rest, shared, memoVars, talkVars, world, observers
<1>24. CASE FlashFault
  BY <1>c, <1>24, <1>p, SpendFacts, ZenonT(40)
  DEF DataInv, TypeOK, FlashFault, Rest, shared, memoVars, talkVars, world, observers
<1>25. CASE Settings
  <2>1. lost' \subseteq Memos
    <3>1. lost \subseteq Memos
      BY <1>c DEF TypeOK
    <3>2. QED
      BY <1>25, <3>1 DEF Settings, Drop
  <2>2. QED
    BY <1>c, <1>25, <1>p, <2>1, SpendFacts, SMTT(30)
    DEF DataInv, TypeOK, Settings, Rest, shared, memoVars, talkVars, world
<1>s. CASE SameSetting
  BY <1>c, <1>s, <1>p, ZenonT(40)
  DEF DataInv, TypeOK, SameSetting, Rest, shared, memoVars, talkVars, world, observers
<1>26. CASE Restart
  <2>1. due' \in [Memos -> Times]
    <3> DEFINE E == Entries(params'.memos)
    <3>1. \A e \in E : e.time \in Times
      <4>1. params'.memos \in MemoArrays
        BY <1>c, <1>p
      <4>2. \A n \in Slots : params'.memos.event[n].time \in Times
        BY <4>1 DEF MemoArrays, Event
      <4>3. QED
        BY <4>2 DEF Entries, Used
    <3>2. ASSUME NEW m \in Memos, m \in {e.str : e \in E}
          PROVE  (CHOOSE e \in E : e.str = m).time \in Times
      <4>1. \E e \in E : e.str = m
        BY <3>2
      <4>2. (CHOOSE e \in E : e.str = m) \in E
        BY <4>1
      <4>3. QED
        BY <3>1, <4>2
    <3>3. due' = [m \in Memos |-> IF m \in {e.str : e \in E}
                                     THEN (CHOOSE e \in E : e.str = m).time ELSE 0]
      BY <1>26 DEF Restart
    <3> HIDE DEF E
    <3>4. QED
      BY <3>2, <3>3, TimeFacts
  <2>2. /\ memo_array' \in Counted /\ memo_array' \in MemoArrays /\ memo_event' \in Event
        /\ clock' \in Times /\ time_sec' \in Times /\ exe_time' \in Times
        /\ content' \in Texts /\ num' \in Slots /\ clock' <= real'
        /\ msgs' \in Seq({"connected", "disconnected", "cancel"})
        /\ remind_count' \in 0..MaxRemind /\ content' = NoText
    BY <1>c, <1>26, EmptyCounted, TimeFacts, ConstantFacts, EmptySeq DEF Restart, Restarted
  <2>3. QED
    BY <1>c, <1>26, <1>p, <2>1, <2>2, SpendFacts DEF DataInv, TypeOK, Restart, Restarted
<1>27. QED
  BY <1>1, <1>2, <1>3, <1>4, <1>5, <1>6, <1>7, <1>8, <1>9, <1>10, <1>11, <1>12, <1>13, <1>14,
     <1>16, <1>17, <1>18, <1>19, <1>20, <1>21, <1>22, <1>23, <1>24, <1>25, <1>26, <1>s
  DEF Next, GetMemoResult, MemoTask

-----------------------------------------------------------------------------
(* What is in an array                                                     *)

LEMMA EntryFacts ==
  ASSUME NEW a \in MemoArrays
  PROVE  /\ Entries(a) \subseteq Event /\ Used(a) \subseteq Slots
         /\ \A n \in Slots : a.event[n] \in Event
         /\ \A e \in Entries(a) : \E n \in Used(a) : e = a.event[n]
         /\ \A n \in Used(a) : a.event[n] \in Entries(a)
         /\ \A n \in Slots : n \in Used(a) <=> a.event[n].time # 0
         /\ \A e \in Entries(a) : e.time # 0
BY DEF Entries, Used, MemoArrays

LEMMA EventFacts ==
  ASSUME NEW e \in Event
  PROVE  e.time \in Times /\ e.str \in Texts /\ e = [time |-> e.time, str |-> e.str]
BY DEF Event

LEMMA EmptySound == Used(EmptyArray) = {} /\ Entries(EmptyArray) = {} /\ \A d : Sound(EmptyArray, d)
<1>1. Used(EmptyArray) = {}
  BY DEF Used, EmptyArray, NoEvent
<1>2. EmptyArray.current = 0
  BY DEF EmptyArray
<1>3. QED
  BY <1>1, <1>2, FS_EmptySet DEF Entries, Sound

\* The memos dictated may grow in number.
LEMMA SoundStays ==
  ASSUME NEW a, NEW c \in Nat, NEW d \in Nat, c <= d, Sound(a, c)
  PROVE  Sound(a, d)
BY DEF Sound

\* One memo has one slot.
LEMMA SoundEntries ==
  ASSUME NEW a \in MemoArrays, NEW d \in Nat, Sound(a, d)
  PROVE  /\ \A e \in Entries(a) : e.str \in 1..d
         /\ \A e, f \in Entries(a) : e.str = f.str => e = f
<1>1. \A e \in Entries(a) : e.str \in 1..d
  BY EntryFacts DEF Sound
<1>2. ASSUME NEW e \in Entries(a), NEW f \in Entries(a), e.str = f.str PROVE e = f
  <2>1. PICK n \in Used(a) : e = a.event[n]
    BY EntryFacts
  <2>2. PICK k \in Used(a) : f = a.event[k]
    BY EntryFacts
  <2>3. n = k
    BY <1>2, <2>1, <2>2 DEF Sound
  <2>4. QED
    BY <2>1, <2>2, <2>3
<1>3. QED
  BY <1>1, <1>2

\* Every set of slots has a first.
LEMMA FirstSlot ==
  ASSUME NEW S \in SUBSET Slots, S # {}
  PROVE  \E n \in S : \A k \in S : n <= k
<1>0. MEMO_EVEVT_MAX \in Nat
  BY ConstantFacts
<1> DEFINE T == {1..n : n \in S}
<1>1. T # {} /\ T \subseteq FiniteSubsetsOf(Nat)
  <2>1. ASSUME NEW n \in S PROVE 1..n \in FiniteSubsetsOf(Nat)
    <3>1. n \in Int /\ 1 \in Int
      BY <1>0 DEF Slots
    <3>2. IsFiniteSet(1..n)
      BY <3>1, FS_Interval
    <3>3. 1..n \in SUBSET Nat
      BY <3>1
    <3>4. QED
      BY <3>2, <3>3 DEF FiniteSubsetsOf
  <2>2. QED
    BY <2>1
<1>2. IsWellFoundedOn(StrictSubsetOrdering(Nat), FiniteSubsetsOf(Nat))
  BY FS_StrictSubsetOrderingWellFounded
<1> HIDE DEF T
<1>3. PICK x \in T : \A y \in T : ~(<<y, x>> \in StrictSubsetOrdering(Nat))
  BY <1>1, <1>2, WFMin
<1> USE DEF T
<1>4. PICK n \in S : x = 1..n
  BY <1>3
<1>5. ASSUME NEW k \in S, ~(n <= k) PROVE FALSE
  <2>1. k \in Nat /\ n \in Nat /\ k < n
    BY <1>0, <1>5 DEF Slots
  <2>2. 1..k \in T
    OBVIOUS
  <2>3. ~(<<1..k, 1..n>> \in StrictSubsetOrdering(Nat))
    BY <1>3, <1>4, <2>2
  <2>4. 1..k \in SUBSET Nat /\ 1..n \in SUBSET Nat /\ 1..k \subseteq 1..n
    BY <2>1
  <2>5. n \in 1..n /\ n \notin 1..k
    BY <2>1, <1>0 DEF Slots
  <2>6. 1..k # 1..n
    BY <2>5
  <2>7. QED
    BY <2>3, <2>4, <2>6 DEF StrictSubsetOrdering
<1>6. QED
  BY <1>5

\* An array with fewer memos than slots has a first that is free.
LEMMA FreeFacts ==
  ASSUME NEW a \in MemoArrays, Cardinality(Used(a)) < MEMO_EVEVT_MAX
  PROVE  FirstFree(a) \in Slots /\ FirstFree(a) \notin Used(a)
<1> DEFINE S == Slots \ Used(a)
<1>0. MEMO_EVEVT_MAX \in Nat
  BY ConstantFacts
<1>1. S # {}
  <2>1. Cardinality(Slots) = MEMO_EVEVT_MAX
    BY SlotsFacts
  <2>2. Slots # Used(a)
    BY <1>0, <2>1
  <2>3. QED
    BY <2>2, EntryFacts
<1>2. PICK n \in S : \A k \in S : n <= k
  BY <1>1, FirstSlot
<1>3. ASSUME NEW k \in 1..n - 1 PROVE a.event[k].time # 0
  <2>1. k \in Slots /\ n \in Nat /\ k < n /\ k \in Nat
    BY <1>0 DEF Slots
  <2>2. k \notin S
    BY <1>2, <2>1
  <2>3. QED
    BY <2>1, <2>2, EntryFacts
<1>4. a.event[n].time = 0
  BY <1>2, EntryFacts
<1>5. \E m \in Slots : a.event[m].time = 0 /\ \A k \in 1..m - 1 : a.event[k].time # 0
  BY <1>2, <1>3, <1>4
<1>6. FirstFree(a) \in Slots /\ a.event[FirstFree(a)].time = 0
  BY <1>5 DEF FirstFree
<1>7. QED
  BY <1>6, EntryFacts

\* A full one has all in use, and it is always the first that is overwritten.
LEMMA FullFacts ==
  ASSUME NEW a \in MemoArrays, Cardinality(Used(a)) >= MEMO_EVEVT_MAX
  PROVE  Used(a) = Slots /\ Overwritten(a) = 1 /\ 1 \in Slots
<1>0. MEMO_EVEVT_MAX \in Nat /\ 1 \in Slots /\ Times \subseteq Nat
  BY ConstantFacts
<1>1. Used(a) = Slots
  <2>1. Cardinality(Slots) = MEMO_EVEVT_MAX /\ IsFiniteSet(Slots) /\ Used(a) \in SUBSET Slots
    BY SlotsFacts, EntryFacts
  <2>2. Cardinality(Used(a)) \in 0..MEMO_EVEVT_MAX
    BY UsedFacts
  <2>3. Cardinality(Slots) = Cardinality(Used(a))
    BY <1>0, <2>1, <2>2
  <2>4. QED
    BY <2>1, <2>3, FS_Subset
<1>2. {n \in Slots : a.event[n].time < 0} = {}
  <2>1. \A n \in Slots : a.event[n].time \in Nat
    BY <1>0, EntryFacts, EventFacts
  <2>2. QED
    BY <2>1
<1>3. QED
  BY <1>0, <1>1, <1>2 DEF Overwritten

\* A new memo is written to a slot, another's or a free one: the others stay.
LEMMA AddSound ==
  ASSUME NEW a \in MemoArrays, NEW b \in MemoArrays, NEW d \in Nat, Sound(a, d),
         NEW n \in Slots, NEW x \in Event, x.time # 0, x.str \in 1..d,
         \A e \in Entries(a) : e.str # x.str,
         b.event = [a.event EXCEPT ![n] = x],
         \/ n \notin Used(a) /\ b.current = a.current + 1
         \/ n \in Used(a) /\ b.current = a.current
  PROVE  /\ Sound(b, d) /\ x \in Entries(b)
         /\ \A e \in Entries(b) \ {x} : e \in Entries(a)
         /\ \A e \in Entries(b) \ {x} : n \in Used(a) => e.str # a.event[n].str
         /\ \A e \in Entries(a) : e \in Entries(b) \/ (n \in Used(a) /\ e = a.event[n])
<1>0. a.current \in Nat /\ b.current \in Nat /\ a.current = Cardinality(Used(a))
  BY DEF MemoArrays, Sound
<1>1. b.event[n] = x /\ \A k \in Slots \ {n} : b.event[k] = a.event[k]
  BY DEF MemoArrays
<1>2. Used(b) = Used(a) \cup {n}
  <2>1. \A k \in Slots : k \in Used(b) <=> k \in Used(a) \/ k = n
    BY <1>1, EntryFacts, ZenonT(40)
  <2>2. Used(a) \subseteq Slots /\ Used(b) \subseteq Slots
    BY EntryFacts
  <2>3. QED
    BY <2>1, <2>2
<1>3. Cardinality(Used(b))
        = IF n \in Used(a) THEN Cardinality(Used(a)) ELSE Cardinality(Used(a)) + 1
  <2>1. IsFiniteSet(Used(a))
    BY UsedFacts
  <2>2. Cardinality(Used(a) \cup {n})
          = IF n \in Used(a) THEN Cardinality(Used(a)) ELSE Cardinality(Used(a)) + 1
    BY ONLY <2>1, FS_AddElement
  <2>3. QED
    BY <1>2, <2>2
<1>4. b.current = Cardinality(Used(b))
  BY <1>0, <1>3
<1>5. \A k \in Used(b) : b.event[k].str \in 1..d
  BY <1>1, <1>2, EntryFacts DEF Sound
<1>6. \A k \in Used(b) \ {n} : k \in Used(a) /\ b.event[k] = a.event[k] /\ a.event[k] \in Entries(a)
  BY <1>1, <1>2, EntryFacts
<1>7. \A j, k \in Used(b) : b.event[j].str = b.event[k].str => j = k
  <2>1. ASSUME NEW j \in Used(b), NEW k \in Used(b), b.event[j].str = b.event[k].str, j # k
        PROVE  FALSE
    <3>1. CASE j = n
      BY <1>1, <1>6, <2>1, <3>1
    <3>2. CASE k = n
      BY <1>1, <1>6, <2>1, <3>2
    <3>3. CASE j # n /\ k # n
      BY <1>6, <2>1, <3>3 DEF Sound
    <3>4. QED
      BY <3>1, <3>2, <3>3
  <2>2. QED
    BY <2>1
<1>8. Sound(b, d)
  BY <1>4, <1>5, <1>7 DEF Sound
<1>9. x \in Entries(b)
  BY <1>1, <1>2, EntryFacts
<1>10. ASSUME NEW e \in Entries(b) \ {x}
       PROVE  e \in Entries(a) /\ (n \in Used(a) => e.str # a.event[n].str)
  <2>1. PICK k \in Used(b) : e = b.event[k]
    BY EntryFacts
  <2>2. k # n
    BY <1>1, <1>10, <2>1
  <2>3. k \in Used(a) /\ e = a.event[k]
    BY <1>6, <2>1, <2>2
  <2>4. QED
    BY <2>2, <2>3, EntryFacts DEF Sound
<1>11. ASSUME NEW e \in Entries(a)
       PROVE  e \in Entries(b) \/ (n \in Used(a) /\ e = a.event[n])
  <2>1. PICK k \in Used(a) : e = a.event[k]
    BY EntryFacts
  <2>2. CASE k = n
    BY <2>1, <2>2
  <2>3. CASE k # n
    <3>1. k \in Used(b) /\ e = b.event[k]
      BY <1>1, <1>2, <2>1, <2>3, EntryFacts
    <3>2. QED
      BY <3>1, EntryFacts
  <2>4. QED
    BY <2>2, <2>3
<1>12. QED
  BY <1>8, <1>9, <1>10, <1>11

\* A slot is cleared: the other memos stay.
LEMMA RemoveSound ==
  ASSUME NEW a \in MemoArrays, NEW b \in MemoArrays, NEW d \in Nat, Sound(a, d),
         NEW n \in Used(a), b.current = a.current - 1,
         b.event = [a.event EXCEPT ![n] = NoEvent]
  PROVE  /\ Sound(b, d)
         /\ \A e \in Entries(b) : e \in Entries(a) /\ e.str # a.event[n].str
         /\ \A e \in Entries(a) : e.str # a.event[n].str => e \in Entries(b)
<1>0. a.current \in Nat /\ a.current = Cardinality(Used(a)) /\ n \in Slots
  BY EntryFacts DEF MemoArrays, Sound
<1>1. b.event[n] = NoEvent /\ \A k \in Slots \ {n} : b.event[k] = a.event[k]
  BY <1>0 DEF MemoArrays
<1>2. Used(b) = Used(a) \ {n}
  <2>1. NoEvent.time = 0
    BY DEF NoEvent
  <2>2. QED
    BY <1>1, <2>1, EntryFacts, ZenonT(40)
<1>3. Cardinality(Used(b)) = Cardinality(Used(a)) - 1
  BY <1>2, UsedFacts, FS_RemoveElement, ZenonT(40)
<1>4. \A k \in Used(b) : k \in Used(a) /\ k # n /\ b.event[k] = a.event[k]
  BY <1>1, <1>2, EntryFacts
<1>5. Sound(b, d)
  <2>1. \A k \in Used(b) : b.event[k].str \in 1..d
    BY <1>4 DEF Sound
  <2>2. \A j, k \in Used(b) : b.event[j].str = b.event[k].str => j = k
    BY <1>4 DEF Sound
  <2>3. QED
    BY <1>0, <1>3, <2>1, <2>2 DEF Sound
<1>6. ASSUME NEW e \in Entries(b)
      PROVE  e \in Entries(a) /\ e.str # a.event[n].str
  <2>1. PICK k \in Used(b) : e = b.event[k]
    BY EntryFacts
  <2>2. k \in Used(a) /\ k # n /\ e = a.event[k]
    BY <1>4, <2>1
  <2>3. QED
    BY <2>2, EntryFacts DEF Sound
<1>7. ASSUME NEW e \in Entries(a), e.str # a.event[n].str
      PROVE  e \in Entries(b)
  <2>1. PICK k \in Used(a) : e = a.event[k]
    BY EntryFacts
  <2>2. k # n
    BY <1>7, <2>1
  <2>3. k \in Used(b) /\ e = b.event[k]
    BY <1>1, <1>2, <2>1, <2>2, EntryFacts
  <2>4. QED
    BY <2>3, EntryFacts
<1>8. QED
  BY <1>5, <1>6, <1>7

-----------------------------------------------------------------------------
(* The messages about the link                                             *)

LEMMA NextLinkInv ==
  ASSUME DataInv, LinkInv, [Next]_vars
  PROVE  LinkInv'
<1>c. /\ memo_array \in Counted /\ memo_array.current \in Nat
      /\ params.memos.current \in Nat
      /\ msgs \in Seq({"connected", "disconnected", "cancel"}) /\ Len(msgs) \in Nat
      /\ DOMAIN msgs = 1..Len(msgs) /\ num \in Slots
      /\ online \in BOOLEAN
  BY LenProperties DEF DataInv, TypeOK, Counted, MemoArrays
<1>1. ASSUME msgs' = msgs, online' = online,
             memo_status' = "IDLE" => memo_array'.current = 0
                                      \/ (memo_status = "IDLE" /\ memo_array.current # 0)
      PROVE  LinkInv'
  BY <1>1 DEF LinkInv
<1>2. ASSUME NEW x \in {"connected", "disconnected", "cancel"}, msgs' = Append(msgs, x),
             memo_status' = memo_status, memo_array' = memo_array,
             online' = (x = "connected" \/ (online /\ x = "cancel"))
      PROVE  LinkInv'
  <2>1. /\ DOMAIN msgs' = 1..(Len(msgs) + 1) /\ msgs'[Len(msgs) + 1] = x
        /\ \A i \in 1..Len(msgs) : msgs'[i] = msgs[i]
    <3>1. msgs' \in Seq({"connected", "disconnected", "cancel"}) /\ Len(msgs') = Len(msgs) + 1
          /\ msgs'[Len(msgs) + 1] = x /\ \A i \in 1..Len(msgs) : msgs'[i] = msgs[i]
      BY <1>c, <1>2, AppendProperties
    <3>2. QED
      BY <3>1, LenProperties
  <2>2. CASE x = "disconnected"
    BY <1>2, <2>2 DEF LinkInv
  <2>3. CASE x = "connected"
    <3>1. Len(msgs) + 1 \in DOMAIN msgs' /\ \A j \in 1..Len(msgs) : Len(msgs) + 1 > j
      BY <1>c, <2>1
    <3>2. \A j \in DOMAIN msgs' : j \in 1..Len(msgs) \/ j = Len(msgs) + 1
      BY <1>c, <2>1, SMTT(30)
    <3>3. QED
      BY <2>1, <2>3, <3>1, <3>2 DEF LinkInv
  <2>4. CASE x = "cancel"
    <3>0. online' => online
      BY <1>2, <2>4
    <3>1. \A j \in DOMAIN msgs' : j \in DOMAIN msgs \/ msgs'[j] = "cancel"
      BY <1>c, <2>1, <2>4
    <3>2. \A j \in DOMAIN msgs : j \in DOMAIN msgs' /\ msgs'[j] = msgs[j]
      BY <1>c, <2>1
    <3>3. QED
      BY <1>2, <3>0, <3>1, <3>2 DEF LinkInv
  <2>5. QED
    BY <2>2, <2>3, <2>4
<1>3. CASE Message
  <2>1. /\ msgs # <<>> /\ msgs' = Tail(msgs) /\ online' = online /\ memo_array' = memo_array
    BY <1>3 DEF Message
  <2>2. /\ DOMAIN msgs' = 1..(Len(msgs) - 1) /\ Head(msgs) = msgs[1] /\ 1 \in 1..Len(msgs)
        /\ \A i \in 1..(Len(msgs) - 1) : msgs'[i] = msgs[i + 1]
    <3>1. /\ msgs' \in Seq({"connected", "disconnected", "cancel"}) /\ Len(msgs') = Len(msgs) - 1
          /\ \A i \in 1..Len(msgs') : msgs'[i] = msgs[i + 1]
      BY <1>c, <2>1, HeadTailProperties
    <3>2. Head(msgs) = msgs[1] /\ Len(msgs) # 0
      BY <1>c, <2>1, EmptySeq
    <3>3. QED
      BY <1>c, <3>1, <3>2, LenProperties
  <2>3. ASSUME NEW i \in DOMAIN msgs, i > 1 PROVE i - 1 \in DOMAIN msgs' /\ msgs'[i - 1] = msgs[i]
    BY <1>c, <2>2, <2>3
  <2>4. ASSUME online', NEW j \in DOMAIN msgs', msgs'[j] = "disconnected"
        PROVE  \E i \in DOMAIN msgs' : i > j /\ msgs'[i] = "connected"
    <3>1. j + 1 \in DOMAIN msgs /\ msgs[j + 1] = "disconnected" /\ j \in Nat /\ j >= 1
      BY <1>c, <2>2, <2>4
    <3>2. PICK i \in DOMAIN msgs : i > j + 1 /\ msgs[i] = "connected"
      BY <2>1, <2>4, <3>1 DEF LinkInv
    <3>3. i > 1 /\ i - 1 > j
      BY <1>c, <3>1, <3>2
    <3>4. QED
      BY <2>3, <3>2, <3>3
  <2>5. ASSUME memo_status' = "IDLE", memo_array'.current # 0, online'
        PROVE  \E i \in DOMAIN msgs' : msgs'[i] = "connected"
    <3>1. \E i \in DOMAIN msgs : i > 1 /\ msgs[i] = "connected"
      <4>0. msgs[1] # "connected"
        BY <1>3, <2>2, <2>5 DEF Message
      <4>1. CASE msgs[1] = "disconnected"
        BY <1>c, <2>1, <2>2, <2>5, <4>1 DEF LinkInv
      <4>2. CASE msgs[1] # "disconnected"
        <5>1. memo_status = "IDLE"
          BY <1>3, <2>2, <2>5, <4>0, <4>2 DEF Message
        <5>2. PICK i \in DOMAIN msgs : msgs[i] = "connected"
          BY <2>1, <2>5, <5>1 DEF LinkInv
        <5>3. i > 1
          BY <1>c, <4>0, <5>2
        <5>4. QED
          BY <5>2, <5>3
      <4>3. QED
        BY <4>1, <4>2
    <3>2. QED
      BY <2>3, <3>1
  <2>6. QED
    BY <2>4, <2>5 DEF LinkInv
<1>4. CASE Load
  BY <1>1, <1>4, <1>c DEF Load, world
<1>5. CASE AddToArray
  <2>1. memo_status' = "ADD" /\ msgs' = msgs /\ online' = online
    BY <1>5 DEF AddToArray, shared, world
  <2>2. QED
    BY <1>1, <2>1
<1>6. CASE Expire \/ Speak
  <2>1. memo_array'.current = memo_array.current - 1 /\ memo_array' \in Counted
    <3>1. memo_array' = [current |-> memo_array.current - 1,
                         event |-> [memo_array.event EXCEPT ![num] = NoEvent]]
      BY <1>6 DEF Expire, Speak, RemoveSlot
    <3>2. memo_array.event[num].time # 0
      BY <1>6 DEF Expire, Speak, Current
    <3>3. QED
      BY <1>c, <3>1, <3>2, RemoveCounted
  <2>2. memo_array'.current \in Nat
    BY <2>1 DEF Counted, MemoArrays
  <2>3. memo_array.current # 0
    BY <1>c, <2>1, <2>2
  <2>4. memo_status' = memo_status /\ msgs' = msgs /\ online' = online
    BY <1>6 DEF Expire, Speak, RemoveSlot, shared, world
  <2>5. QED
    BY <1>1, <2>3, <2>4
<1>7. CASE Connect
  BY <1>2, <1>7 DEF Connect, Rest, shared, memoVars
<1>8. CASE Disconnect
  BY <1>2, <1>8 DEF Disconnect, Rest, shared, memoVars
<1>9. CASE Cancel
  BY <1>2, <1>9, <1>c DEF Cancel, Rest, shared, memoVars
<1>10. CASE Restart
  BY <1>10 DEF Restart, Restarted, LinkInv
<1>11. ASSUME msgs' = msgs, online' = online, memo_array' = memo_array,
              memo_status' \in {memo_status, "ADD", "LOOP"}
       PROVE  LinkInv'
  BY <1>1, <1>11
<1>12. CASE GetMemoResult
  BY <1>11, <1>12
  DEF GetMemoResult, GetText, Outdated, SetTime, SetStatus, memoVars, world
<1>13. CASE AskTime \/ NoTime \/ SetClock \/ ClearEvent \/ StoreAdded \/ Added \/ StartScan
            \/ Skip \/ Stored \/ Remind
  BY <1>11, <1>13
  DEF AskTime, NoTime, SetClock, ClearEvent, StoreAdded, Added, StartScan, Skip, Stored, Remind,
      Still, shared, world
<1>14. CASE Tick \/ Flash \/ FlashFault \/ Settings \/ SameSetting \/ UNCHANGED vars
  BY <1>11, <1>14
  DEF Tick, Flash, FlashFault, Settings, SameSetting, Rest, vars, shared, memoVars, world
<1>15. QED
  BY <1>3, <1>4, <1>5, <1>6, <1>7, <1>8, <1>9, <1>10, <1>12, <1>13, <1>14
  DEF Next, MemoTask

-----------------------------------------------------------------------------
(* What was told is what is there                                          *)

Kept == HandOver /\ ArraysSound /\ ArraysAsTold

LEMMA KeptTypes ==
  ASSUME DataInv
  PROVE  /\ memo_array \in MemoArrays /\ params.memos \in MemoArrays /\ memo_event \in Event
         /\ CrcAgrees(image) => image \in Params /\ image.memos \in MemoArrays
         /\ left.memos \in 0..MaxMemos /\ Dictated \in Nat /\ Dictated \in 0..MaxMemos
         /\ due \in [Memos -> Times] /\ num \in Slots /\ MaxMemos \in Nat \ {0}
         /\ Memos \subseteq Nat /\ 0 \notin Memos
         /\ params \in Params
<1>1. MaxMemos \in Nat \ {0}
  BY ConstantFacts
<1>2. left.memos \in 0..MaxMemos
  BY DEF DataInv, TypeOK
<1>3. Dictated \in Nat /\ Dictated \in 0..MaxMemos /\ Memos \subseteq Nat /\ 0 \notin Memos
  BY <1>1, <1>2 DEF Dictated, Memos
<1>4. CrcAgrees(image) => image \in Params /\ image.memos \in MemoArrays
  BY DEF DataInv, TypeOK, ParamTypeOK, CrcAgrees, Counted
<1>5. memo_array \in MemoArrays /\ params.memos \in MemoArrays /\ params \in Params
  BY DEF DataInv, TypeOK, ParamTypeOK, Counted
<1>6. memo_event \in Event /\ due \in [Memos -> Times] /\ num \in Slots
  BY DEF DataInv, TypeOK
<1>7. QED
  BY <1>1, <1>2, <1>3, <1>4, <1>5, <1>6

\* A step that changes neither the memos nor what was told of them, and leaves
\* the memo task where it was in the sense of the invariant.
LEMMA KeptByFrame ==
  ASSUME DataInv, Kept,
         UNCHANGED <<memo_array, due, lost, memo_event, memo_status, talk, exe_time>>,
         left'.memos = left.memos, params'.memos = params.memos,
         CrcAgrees(image') => image' = params \/ (image' = image /\ CrcAgrees(image)),
         Behind' <=> Behind, Adding' <=> Adding, LooksAfter' => LooksAfter,
         pc' \in {"clock", "load"} => memo_status # "LOOP"
  PROVE  Kept'
<1>0. Dictated' = Dictated /\ Told' = Told /\ \A m : AsTold(m)' = AsTold(m)
  BY DEF Dictated, Told, AsTold
<1>1. HandOver'
  BY <1>0 DEF Kept, HandOver
<1>2. ArraysSound'
  BY <1>0 DEF Kept, ArraysSound
<1>3. ArraysAsTold'
  BY <1>0 DEF Kept, ArraysAsTold, AllAsTold
<1>4. QED
  BY <1>1, <1>2, <1>3 DEF Kept

\* What a save does, and the settings others change, leave the memos alone, and
\* what they leave in flash is what is in memory or was there.
LEMMA ParamsFrame ==
  ASSUME ParamTypeOK,
         \/ \E t \in Callers : FlashStep(t) \/ FlashFails(t)
         \/ \E t \in Tasks : SetOta(t, Test) \/ \E v \in Users : SetUser(t, v)
         \/ UNCHANGED paramVars
  PROVE  /\ params'.memos = params.memos
         /\ CrcAgrees(image') => image' = params \/ (image' = image /\ CrcAgrees(image))
<1> USE DEF ParamTypeOK
<1>1. ASSUME NEW t \in Callers, Erase(t) \/ Write(t) \/ FlashFails(t)
      PROVE  params' = params /\ image' \in {image, params, Torn, Erased}
  BY <1>1 DEF Erase, Write, FlashFails
<1>2. ASSUME NEW t \in Callers, FallThrough(t)
      PROVE  params'.memos = params.memos /\ image' = image
  <2>1. CASE params.ota = params.memos.current
    BY <1>2, <2>1 DEF FallThrough
  <2>2. CASE params.ota # params.memos.current
    <3>1. params' = [params EXCEPT !.ota = OtaMode(params.memos.current)] /\ image' = image
      BY <1>2, <2>2 DEF FallThrough, Save
    <3>2. QED
      BY <3>1 DEF Params
  <2>3. QED
    BY <2>1, <2>2
<1>3. ASSUME NEW t \in Tasks, NEW v \in Users, SetUser(t, v)
      PROVE  params'.memos = params.memos /\ image' = image
  BY <1>3 DEF SetUser, SetField, Save, Params
<1>4. ASSUME NEW t \in Tasks, SetOta(t, Test)
      PROVE  params'.memos = params.memos /\ image' = image
  BY <1>4 DEF SetOta, SetField, Save, Params
<1>5. ~CrcAgrees(Torn) /\ ~CrcAgrees(Erased)
  BY DEF CrcAgrees
<1>6. QED
  BY <1>1, <1>2, <1>3, <1>4, <1>5 DEF FlashStep, paramVars

LEMMA StoreFrame ==
  ASSUME ParamTypeOK, NEW a \in Arrays, SetMemos(Memo, a)
  PROVE  params'.memos = a /\ image' = image
BY DEF SetMemos, Save, ParamTypeOK, Params

\* get_memo_result
LEMMA KeptByTalk ==
  ASSUME DataInv, DataInv', Kept, ~mixed', GetMemoResult
  PROVE  Kept'
<1>c. HandOver /\ ArraysSound /\ ArraysAsTold
  BY DEF Kept
<1>p. params' = params /\ image' = image /\ memo_array' = memo_array /\ pc' = pc
      /\ lost' = lost
  BY DEF GetMemoResult, GetText, Outdated, SetTime, SetStatus, paramVars, memoVars, observers
<1>q. (Behind' <=> Behind) /\ (Adding' <=> Adding)
  BY <1>p DEF Behind, Adding
<1>1. CASE GetText
  <2>1. memo_status # "ADD" /\ ~Adding /\ memo_status' = memo_status /\ due' = due
    BY <1>1 DEF GetText
  <2>2. Dictated' = Dictated + 1 /\ Dictated' \in Memos /\ Dictated \in Nat
    <3>1. left.memos \in 1..MaxMemos /\ left'.memos = left.memos - 1
      <4>1. left'.memos = left.memos - 1 /\ left.memos > 0
        <5>1. left \in Left
          BY DEF DataInv, TypeOK
        <5>2. left.memos > 0 /\ left' = [left EXCEPT !.memos = @ - 1]
          BY <1>1 DEF GetText, Spend
        <5>3. QED
          BY <5>1, <5>2
      <4>2. QED
        BY <4>1, KeptTypes
    <3>2. QED
      BY <1>c, <3>1, KeptTypes DEF Dictated, Memos, HandOver
  <2>3. exe_time' # 0
    <3>1. clock \in Nat /\ \A d \in Delays : d \in Nat
      BY TimeFacts, ConstantFacts DEF DataInv, TypeOK
    <3>2. PICK d \in Delays : exe_time' = clock + d + 1
      BY <1>1 DEF GetText
    <3>3. QED
      BY <3>1, <3>2
  <2>4. memo_event'.str = Dictated'
    BY <1>1, KeptTypes DEF GetText, Event
  <2>5. \A m \in Memos : m > Dictated' => due[m] = 0
    BY <1>c, <2>2, KeptTypes DEF HandOver
  <2>6. due[Dictated'] = 0
    BY <1>c, <2>2 DEF HandOver
  <2>7. talk' # "time"
    BY <1>1 DEF GetText
  <2>8. HandOver'
    BY <1>q, <2>1, <2>2, <2>3, <2>4, <2>5, <2>6, <2>7 DEF HandOver
  <2>9. ArraysSound'
    <3>1. Dictated' \in Nat /\ Dictated <= Dictated'
      BY <2>2
    <3>2. QED
      BY <1>c, <1>p, <2>2, <3>1, SoundStays DEF ArraysSound
  <2>10. ArraysAsTold'
    BY <1>c, <1>p, <1>q, <2>1 DEF ArraysAsTold, AllAsTold, Told, AsTold, LooksAfter
  <2>11. QED
    BY <2>8, <2>9, <2>10 DEF Kept
<1>2. CASE Outdated \/ SetTime
  <2>1. memo_status # "ADD" /\ memo_status' = memo_status /\ due' = due /\ left' = left
        /\ ~Adding /\ Dictated' = Dictated
    BY <1>2, <1>c DEF Outdated, SetTime, observers, HandOver, Dictated
  <2>2. HandOver'
    <3>1. CASE Outdated
      BY <1>c, <1>q, <2>1, <3>1 DEF Outdated, HandOver
    <3>2. CASE SetTime
      <4>1. memo_event'.str = memo_event.str /\ memo_event'.time = exe_time
        BY <3>2, KeptTypes DEF SetTime, Event
      <4>2. QED
        BY <1>c, <1>q, <2>1, <3>2, <4>1 DEF SetTime, HandOver
    <3>3. QED
      BY <1>2, <3>1, <3>2
  <2>3. ArraysSound'
    BY <1>c, <1>p, <2>1 DEF ArraysSound
  <2>4. ArraysAsTold'
    BY <1>c, <1>p, <1>q, <2>1 DEF ArraysAsTold, AllAsTold, Told, AsTold, LooksAfter
  <2>5. QED
    BY <2>2, <2>3, <2>4 DEF Kept
<1>3. CASE SetStatus
  <2>1. /\ talk = "time" /\ talk' = "idle" /\ memo_status' = "ADD" /\ memo_status # "ADD"
        /\ memo_event' = memo_event /\ ~Adding /\ ~Behind /\ Dictated' = Dictated
        /\ Dictated \in Memos /\ exe_time # 0 /\ due[Dictated] = 0
        /\ due' = [due EXCEPT ![Dictated] = exe_time]
        /\ memo_event.str = Dictated /\ memo_event.time = exe_time
    BY <1>3, <1>c DEF SetStatus, HandOver, Dictated, Adding, Behind
  <2>2. /\ due'[Dictated] = exe_time /\ \A m \in Memos \ {Dictated} : due'[m] = due[m]
    BY <2>1, KeptTypes
  <2>3. Told' = Told \cup {Dictated} /\ Dictated \notin Told
    BY <2>1, <2>2 DEF Told
  <2>4. \A m \in Told : AsTold(m)' = AsTold(m) /\ m # Dictated
    BY <2>2, <2>3 DEF AsTold, Told
  <2>5. memo_event = AsTold(Dictated)'
    BY <2>1, <2>2, KeptTypes, EventFacts DEF AsTold
  <2>6. \A e \in Entries(memo_array) : e.str # Dictated
    BY <1>c, <2>3 DEF ArraysAsTold, AllAsTold
  <2>7. HandOver'
    <3>1. \A m \in Memos : m > Dictated => due'[m] = 0
      BY <1>c, <2>1, <2>2, KeptTypes DEF HandOver
    <3>2. QED
      BY <1>p, <2>1, <2>3, <2>5, <2>6, <3>1 DEF HandOver
  <2>8. ArraysSound'
    BY <1>c, <1>p, <2>1 DEF ArraysSound
  <2>9. AllAsTold(memo_array)' /\ (~Behind => AllAsTold(params.memos)')
    BY <1>c, <1>p, <2>3, <2>4 DEF ArraysAsTold, AllAsTold
  <2>10. \A m \in Told' \ lost : \/ memo_status' = "ADD" /\ memo_event' = AsTold(m)'
                                 \/ AsTold(m)' \in Entries(params.memos)
    BY <1>c, <2>1, <2>3, <2>4, <2>5 DEF ArraysAsTold
  <2>11. LooksAfter' => LooksAfter
    BY <1>p, <2>1 DEF LooksAfter
  <2>12. ArraysAsTold'
    BY <1>c, <1>p, <1>q, <2>1, <2>9, <2>10, <2>11 DEF ArraysAsTold
  <2>13. QED
    BY <2>7, <2>8, <2>12 DEF Kept
<1>4. QED
  BY <1>1, <1>2, <1>3 DEF GetMemoResult

\* The messages, and the array that is read and stored.
LEMMA KeptByMessage ==
  ASSUME DataInv, Kept, Message
  PROVE  Kept'
<1>c. /\ HandOver /\ ArraysSound /\ ArraysAsTold /\ pc = "wait" /\ pc' = pc
      /\ ~Behind /\ ~Behind' /\ ~Adding /\ ~Adding'
  BY DEF Kept, Message, Behind, Adding
<1>u. UNCHANGED <<params, image, memo_event, memo_array, talk, exe_time, due, left>>
      /\ Dictated' = Dictated /\ Told' = Told /\ \A m : AsTold(m)' = AsTold(m)
  BY DEF Message, paramVars, talkVars, Dictated, Told, AsTold
<1>1. \/ memo_status' = "INIT" /\ Drop(Handed)
      \/ memo_status' \in {memo_status, "IDLE"} /\ lost' = lost
         /\ (memo_status' = memo_status \/ memo_status = "INIT")
  BY DEF Message
<1>2. memo_status' = "ADD" => memo_status = "ADD"
  BY <1>1
<1>3. HandOver'
  BY <1>c, <1>u, <1>2 DEF HandOver
<1>4. ArraysSound'
  BY <1>c, <1>u DEF ArraysSound
<1>5. LooksAfter' => LooksAfter
  BY <1>c, <1>1 DEF LooksAfter
<1>6. ASSUME NEW m \in Told', m \notin lost'
      PROVE  (memo_status' = "ADD" /\ memo_event = AsTold(m)) \/ AsTold(m) \in Entries(params.memos)
  <2>1. m \in Told /\ m \in Memos
    BY <1>u, <1>6 DEF Told
  <2>2. m \notin lost
    BY <1>1, <1>6 DEF Drop
  <2>3. memo_event = AsTold(m) => memo_event.str = m
    BY DEF AsTold
  <2>4. memo_status = "ADD" /\ memo_event = AsTold(m) => memo_status' = "ADD"
    BY <1>1, <1>6, <2>1, <2>3 DEF Drop, Handed
  <2>5. QED
    BY <1>c, <2>1, <2>2, <2>4 DEF ArraysAsTold
<1>7. ArraysAsTold'
  BY <1>c, <1>u, <1>5, <1>6 DEF ArraysAsTold, AllAsTold
<1>8. QED
  BY <1>3, <1>4, <1>7 DEF Kept

LEMMA KeptByLoad ==
  ASSUME DataInv, Kept, Load
  PROVE  Kept'
<1>c. /\ HandOver /\ ArraysSound /\ ArraysAsTold /\ pc = "load" /\ pc' = "wait"
      /\ ~Behind /\ ~Behind' /\ ~Adding /\ ~Adding'
      /\ memo_array' = params.memos /\ memo_status' # "ADD" /\ Drop(Handed)
  BY DEF Kept, Load, Behind, Adding
<1>u. UNCHANGED <<params, image, memo_event, talk, exe_time, due, left>>
      /\ Dictated' = Dictated /\ Told' = Told /\ \A m : AsTold(m)' = AsTold(m)
  BY DEF Load, paramVars, talkVars, Dictated, Told, AsTold
<1>1. HandOver'
  BY <1>c, <1>u DEF HandOver
<1>2. ArraysSound'
  BY <1>c, <1>u DEF ArraysSound
<1>3. ASSUME NEW m \in Told', m \notin lost'
      PROVE  AsTold(m) \in Entries(params.memos)
  <2>1. m \in Told /\ m \in Memos /\ m \notin lost
    BY <1>c, <1>u, <1>3 DEF Told, Drop
  <2>2. memo_event = AsTold(m) => memo_event.str = m
    BY DEF AsTold
  <2>3. ~(memo_status = "ADD" /\ memo_event = AsTold(m))
    BY <1>c, <1>3, <2>1, <2>2 DEF Drop, Handed
  <2>4. QED
    BY <1>c, <2>1, <2>3 DEF ArraysAsTold
<1>4. AllAsTold(params.memos)' /\ AllAsTold(memo_array)'
  BY <1>c, <1>u DEF ArraysAsTold, AllAsTold
<1>5. ArraysAsTold'
  BY <1>c, <1>u, <1>3, <1>4 DEF ArraysAsTold
<1>6. QED
  BY <1>1, <1>2, <1>5 DEF Kept

LEMMA KeptByStore ==
  ASSUME DataInv, Kept, StoreAdded
  PROVE  Kept'
<1>c. /\ HandOver /\ ArraysSound /\ ArraysAsTold /\ pc = "store" /\ pc' = "added"
      /\ Behind /\ ~Behind' /\ Adding /\ Adding'
  BY DEF Kept, StoreAdded, Behind, Adding
<1>u. UNCHANGED <<memo_array, memo_status, memo_event, talk, exe_time, due, lost, left>>
      /\ Dictated' = Dictated /\ Told' = Told /\ \A m : AsTold(m)' = AsTold(m)
  BY DEF StoreAdded, shared, talkVars, observers, Dictated, Told, AsTold
<1>1. params'.memos = memo_array /\ image' = image
  BY StoreFrame DEF StoreAdded, DataInv, TypeOK
<1>2. HandOver'
  BY <1>c, <1>u DEF HandOver
<1>3. ArraysSound'
  BY <1>c, <1>u, <1>1 DEF ArraysSound
<1>4. AllAsTold(params.memos)' /\ AllAsTold(memo_array)'
  BY <1>c, <1>u, <1>1 DEF ArraysAsTold, AllAsTold
<1>5. \A m \in Told \ lost : AsTold(m) \in Entries(memo_array)
  BY <1>c DEF ArraysAsTold
<1>6. ArraysAsTold'
  BY <1>c, <1>u, <1>1, <1>4, <1>5 DEF ArraysAsTold
<1>7. QED
  BY <1>2, <1>3, <1>6 DEF Kept

\* memo_event is zeroed, and the memo task goes back to its memos.
LEMMA KeptByEnd ==
  ASSUME DataInv, Kept, ClearEvent \/ Added
  PROVE  Kept'
<1>c. HandOver /\ ArraysSound /\ ArraysAsTold
  BY DEF Kept
<1>u. UNCHANGED <<params, image, memo_array, talk, exe_time, due, lost, left>>
      /\ Dictated' = Dictated /\ Told' = Told /\ \A m : AsTold(m)' = AsTold(m)
  BY DEF ClearEvent, Added, paramVars, talkVars, observers, Dictated, Told, AsTold
<1>1. ArraysSound'
  BY <1>c, <1>u DEF ArraysSound
<1>2. CASE ClearEvent
  <2>1. /\ pc = "clear" /\ pc' = "store" /\ Behind /\ Behind' /\ Adding /\ Adding'
        /\ ~LooksAfter' /\ memo_status' = memo_status
    BY <1>2 DEF ClearEvent, Behind, Adding, LooksAfter
  <2>2. HandOver'
    BY <1>c, <1>u, <2>1 DEF HandOver
  <2>3. ArraysAsTold'
    BY <1>c, <1>u, <2>1 DEF ArraysAsTold, AllAsTold
  <2>4. QED
    BY <1>1, <2>2, <2>3 DEF Kept
<1>3. CASE Added
  <2>1. /\ pc = "added" /\ pc' = "wait" /\ ~Behind /\ ~Behind' /\ Adding /\ ~Adding'
        /\ LooksAfter /\ memo_status' = "LOOP" /\ memo_event' = memo_event
    BY <1>3 DEF Added, Behind, Adding, LooksAfter
  <2>2. HandOver'
    BY <1>c, <1>u, <2>1 DEF HandOver
  <2>3. AllAsTold(params.memos)' /\ AllAsTold(memo_array)'
    BY <1>c, <1>u, <2>1 DEF ArraysAsTold, AllAsTold
  <2>4. Entries(params.memos) \subseteq Entries(memo_array)
        /\ \A m \in Told \ lost : AsTold(m) \in Entries(params.memos)
    BY <1>c, <2>1 DEF ArraysAsTold
  <2>5. ArraysAsTold'
    BY <1>u, <2>1, <2>3, <2>4 DEF ArraysAsTold
  <2>6. QED
    BY <1>1, <2>2, <2>5 DEF Kept
<1>4. QED
  BY <1>2, <1>3

LEMMA KeptByAdd ==
  ASSUME DataInv, DataInv', Kept, AddToArray
  PROVE  Kept'
<1> DEFINE n == IF memo_array.current >= MEMO_EVEVT_MAX THEN 1 ELSE FirstFree(memo_array)
           old == memo_array.event[n]
<1>c. /\ HandOver /\ ArraysSound /\ ArraysAsTold /\ pc = "wait" /\ pc' = "clear"
      /\ ~Behind /\ Behind' /\ ~Adding /\ Adding' /\ ~LooksAfter'
      /\ memo_status = "ADD" /\ memo_status' = "ADD" /\ talk = "idle"
      /\ memo_event.str \in Told /\ memo_event = AsTold(memo_event.str)
      /\ \A e \in Entries(memo_array) : e.str # memo_event.str
  BY DEF Kept, AddToArray, Behind, Adding, LooksAfter, HandOver, shared
<1>u. UNCHANGED <<params, image, memo_event, talk, exe_time, left>> /\ Dictated' = Dictated
      /\ lost' = lost \cup (Unread \cap Memos)
  BY DEF AddToArray, paramVars, shared, talkVars, Dictated, Drop
<1>t. /\ memo_array \in MemoArrays /\ memo_array' \in MemoArrays /\ memo_event \in Event
      /\ memo_array.current \in Nat /\ MEMO_EVEVT_MAX \in Nat \ {0}
      /\ Sound(memo_array, Dictated) /\ memo_array.current = Cardinality(Used(memo_array))
      /\ Dictated \in Nat
  BY <1>c, KeptTypes, ConstantFacts DEF DataInv, Counted, ArraysSound, Sound, MemoArrays
<1>1. memo_event.time # 0 /\ memo_event.str \in 1..Dictated
  <2>1. memo_event.time = due[memo_event.str]
    BY <1>c DEF AsTold
  <2>2. memo_event.str \in Memos /\ due[memo_event.str] # 0
    BY <1>c DEF Told
  <2>3. ~(memo_event.str > Dictated) /\ memo_event.str \in Nat /\ memo_event.str # 0
    BY <1>c, <2>2, KeptTypes DEF HandOver
  <2>4. QED
    BY <1>t, <2>1, <2>2, <2>3
<1>2. /\ n \in Slots /\ memo_array'.event = [memo_array.event EXCEPT ![n] = memo_event]
      /\ \/ n \notin Used(memo_array) /\ memo_array'.current = memo_array.current + 1
            /\ due' = due
         \/ n \in Used(memo_array) /\ memo_array'.current = memo_array.current
            /\ Forget({old.str})
  <2>1. CASE memo_array.current >= MEMO_EVEVT_MAX
    <3>1. Overwritten(memo_array) = 1 /\ 1 \in Used(memo_array) /\ 1 \in Slots
      BY <1>t, <2>1, FullFacts
    <3>2. memo_array' = [memo_array EXCEPT !.event[1] = memo_event]
          /\ Forget({memo_array.event[1].str})
      BY <1>t, <2>1, <3>1 DEF AddToArray
    <3>3. memo_array'.event = [memo_array.event EXCEPT ![1] = memo_event]
          /\ memo_array'.current = memo_array.current
      BY <1>t, <3>2 DEF MemoArrays
    <3>4. QED
      BY <2>1, <3>1, <3>2, <3>3
  <2>2. CASE memo_array.current < MEMO_EVEVT_MAX
    <3>1. FirstFree(memo_array) \in Slots /\ FirstFree(memo_array) \notin Used(memo_array)
      BY <1>t, <2>2, FreeFacts
    <3>2. /\ memo_array' = [current |-> memo_array.current + 1,
               event |-> [memo_array.event EXCEPT ![FirstFree(memo_array)] = memo_event]]
          /\ due' = due
      BY <1>t, <2>2 DEF AddToArray
    <3>3. QED
      BY <1>t, <2>2, <3>1, <3>2
  <2>3. QED
    BY <1>t, <2>1, <2>2
<1>d. \A m \in Memos : due'[m] = IF n \in Used(memo_array) /\ m = old.str THEN 0 ELSE due[m]
  BY <1>2 DEF Forget
<1> HIDE DEF n
<1>3. /\ Sound(memo_array', Dictated) /\ memo_event \in Entries(memo_array')
      /\ \A e \in Entries(memo_array') \ {memo_event} : e \in Entries(memo_array)
      /\ \A e \in Entries(memo_array') \ {memo_event} :
            n \in Used(memo_array) => e.str # memo_array.event[n].str
      /\ \A e \in Entries(memo_array) :
            e \in Entries(memo_array') \/ (n \in Used(memo_array) /\ e = memo_array.event[n])
  BY <1>c, <1>t, <1>1, <1>2, AddSound
<1>4. n \in Used(memo_array) => memo_event.str # old.str
  BY <1>c, <1>t, EntryFacts
<1>5. \A m \in Memos : due'[m] \in {0, due[m]}
  BY <1>d
<1>6. HandOver'
  BY <1>c, <1>u, <1>5 DEF HandOver
<1>7. ArraysSound'
  BY <1>c, <1>u, <1>3 DEF ArraysSound
<1>8. ASSUME NEW e \in Entries(memo_array')
      PROVE  e.str \in Memos /\ due'[e.str] # 0 /\ e = [time |-> due'[e.str], str |-> e.str]
  <2>1. e.str \in Memos /\ due[e.str] # 0 /\ e = [time |-> due[e.str], str |-> e.str]
    <3>1. CASE e = memo_event
      BY <1>c, <3>1 DEF Told, AsTold
    <3>2. CASE e # memo_event
      BY <1>c, <1>3, <3>2 DEF ArraysAsTold, AllAsTold, Told, AsTold
    <3>3. QED
      BY <3>1, <3>2
  <2>2. n \in Used(memo_array) => e.str # old.str
    BY <1>3, <1>4
  <2>3. due'[e.str] = due[e.str]
    BY <1>d, <2>1, <2>2
  <2>4. QED
    BY <2>1, <2>3
<1>9. AllAsTold(memo_array)'
  BY <1>8 DEF AllAsTold, Told, AsTold
<1>10. ASSUME NEW m \in Memos, due'[m] # 0, m \notin lost'
       PROVE  [time |-> due'[m], str |-> m] \in Entries(memo_array')
  <2>1. due'[m] = due[m] /\ ~(n \in Used(memo_array) /\ m = old.str)
    BY <1>d, <1>10
  <2>2. m \in Told /\ m \notin lost /\ AsTold(m) = [time |-> due[m], str |-> m]
    BY <1>u, <1>10, <2>1 DEF Told, AsTold
  <2>3. CASE memo_event = AsTold(m)
    BY <1>3, <2>1, <2>2, <2>3
  <2>4. CASE AsTold(m) \in Entries(params.memos)
    <3>1. AsTold(m).str = m
      BY <2>2
    <3>2. AsTold(m) \in Entries(memo_array)
      BY <1>u, <1>10, <2>4, <3>1 DEF Unread
    <3>3. AsTold(m) \in Entries(memo_array')
      BY <1>3, <2>1, <3>1, <3>2
    <3>4. QED
      BY <2>1, <2>2, <3>3
  <2>5. QED
    BY <1>c, <2>2, <2>3, <2>4 DEF ArraysAsTold
<1>11. pc' \notin {"clock", "load"}
  BY <1>c
<1>12. ArraysAsTold'
  BY <1>c, <1>9, <1>10, <1>11 DEF ArraysAsTold, Told, AsTold
<1>13. QED
  BY <1>6, <1>7, <1>12 DEF Kept

LEMMA KeptByRemove ==
  ASSUME DataInv, DataInv', Kept, pc = "scan", Current.time # 0, RemoveSlot
  PROVE  Kept'
<1> DEFINE gone == memo_array.event[num].str
<1>c. /\ HandOver /\ ArraysSound /\ ArraysAsTold /\ pc = "scan" /\ pc' = "stored"
      /\ ~Behind /\ ~Behind' /\ ~Adding /\ ~Adding' /\ LooksAfter
  BY DEF Kept, RemoveSlot, Behind, Adding, LooksAfter
<1>u. UNCHANGED <<memo_status, memo_event, talk, exe_time, lost, left>> /\ Dictated' = Dictated
  BY DEF RemoveSlot, shared, talkVars, Dictated
<1>t. /\ memo_array \in MemoArrays /\ memo_array' \in MemoArrays /\ Dictated \in Nat
      /\ Sound(memo_array, Dictated) /\ num \in Slots /\ num \in Used(memo_array)
      /\ memo_array.event[num] \in Entries(memo_array)
  BY <1>c, KeptTypes, EntryFacts DEF DataInv, Counted, ArraysSound, Current
<1>1. /\ memo_array'.event = [memo_array.event EXCEPT ![num] = NoEvent]
      /\ memo_array'.current = memo_array.current - 1
  BY DEF RemoveSlot
<1>2. params'.memos = memo_array' /\ image' = image
  BY <1>t, StoreFrame DEF RemoveSlot, DataInv, TypeOK
<1>3. /\ Sound(memo_array', Dictated)
      /\ \A e \in Entries(memo_array') : e \in Entries(memo_array) /\ e.str # gone
      /\ \A e \in Entries(memo_array) : e.str # gone => e \in Entries(memo_array')
  BY <1>t, <1>1, RemoveSound
<1>d. \A m \in Memos : due'[m] = IF m = gone THEN 0 ELSE due[m]
  BY DEF RemoveSlot, Forget, Current
<1> HIDE DEF gone
<1>4. HandOver'
  <2>1. \A m \in Memos : m > Dictated => due'[m] = 0
    BY <1>c, <1>d DEF HandOver
  <2>2. talk \in {"told", "time"} => due'[Dictated] = 0
    BY <1>c, <1>d DEF HandOver
  <2>3. ASSUME memo_status = "ADD"
        PROVE  /\ memo_event.str \in Memos /\ due'[memo_event.str] # 0
               /\ memo_event = [time |-> due'[memo_event.str], str |-> memo_event.str]
               /\ \A e \in Entries(memo_array') : e.str # memo_event.str
    <3>1. /\ memo_event.str \in Memos /\ due[memo_event.str] # 0
          /\ memo_event = [time |-> due[memo_event.str], str |-> memo_event.str]
          /\ \A e \in Entries(memo_array) : e.str # memo_event.str
      BY <1>c, <2>3 DEF HandOver, Told, AsTold
    <3>2. memo_event.str # gone
      BY <1>t, <3>1 DEF gone
    <3>3. due'[memo_event.str] = due[memo_event.str]
      BY <1>d, <3>1, <3>2
    <3>4. QED
      BY <1>3, <3>1, <3>3
  <2>4. QED
    BY <1>c, <1>u, <2>1, <2>2, <2>3 DEF HandOver, Told, AsTold
<1>5. ArraysSound'
  BY <1>c, <1>u, <1>2, <1>3 DEF ArraysSound
<1>6. ASSUME NEW e \in Entries(memo_array')
      PROVE  e.str \in Memos /\ due'[e.str] # 0 /\ e = [time |-> due'[e.str], str |-> e.str]
  <2>1. e.str \in Memos /\ due[e.str] # 0 /\ e = [time |-> due[e.str], str |-> e.str]
    BY <1>c, <1>3 DEF ArraysAsTold, AllAsTold, Told, AsTold
  <2>2. due'[e.str] = due[e.str]
    BY <1>3, <1>d, <2>1
  <2>3. QED
    BY <2>1, <2>2
<1>7. AllAsTold(memo_array)' /\ AllAsTold(params.memos)'
  BY <1>2, <1>6 DEF AllAsTold, Told, AsTold
<1>8. ASSUME NEW m \in Memos, due'[m] # 0, m \notin lost
      PROVE  \/ memo_status = "ADD" /\ memo_event = [time |-> due'[m], str |-> m]
             \/ [time |-> due'[m], str |-> m] \in Entries(memo_array')
  <2>1. due'[m] = due[m] /\ m # gone
    BY <1>d, <1>8
  <2>2. m \in Told /\ AsTold(m) = [time |-> due[m], str |-> m] /\ AsTold(m).str = m
    BY <1>8, <2>1 DEF Told, AsTold
  <2>3. CASE AsTold(m) \in Entries(params.memos)
    <3>1. AsTold(m) \in Entries(memo_array)
      BY <1>c, <2>3 DEF ArraysAsTold
    <3>2. QED
      BY <1>3, <2>1, <2>2, <3>1
  <2>4. QED
    BY <1>c, <1>8, <2>1, <2>2, <2>3 DEF ArraysAsTold
<1>9. ArraysAsTold'
  BY <1>c, <1>u, <1>2, <1>7, <1>8 DEF ArraysAsTold, Told, AsTold
<1>10. QED
  BY <1>4, <1>5, <1>9 DEF Kept

\* The reset to the factory's parameters: what was told so far is lost.
LEMMA KeptByReset ==
  ASSUME DataInv, Kept, SetDefault, Drop(Told), Rest, UNCHANGED <<due, mixed>>,
         left'.memos = left.memos
  PROVE  Kept'
<1>c. HandOver /\ ArraysSound /\ ArraysAsTold
  BY DEF Kept
<1>u. /\ UNCHANGED <<memo_array, memo_status, memo_event, talk, exe_time, pc>>
      /\ Dictated' = Dictated /\ Told' = Told /\ \A m : AsTold(m)' = AsTold(m)
      /\ (Behind' <=> Behind) /\ (Adding' <=> Adding) /\ (LooksAfter' <=> LooksAfter)
  BY DEF Rest, shared, memoVars, talkVars, Dictated, Told, AsTold, Behind, Adding, LooksAfter
<1>1. params'.memos = EmptyArray /\ image' = image
  BY DEF SetDefault, Save, Default
<1>2. HandOver'
  BY <1>c, <1>u DEF HandOver
<1>3. ArraysSound'
  BY <1>c, <1>u, <1>1, EmptySound DEF ArraysSound
<1>4. Told \ lost' = {}
  BY DEF Drop, Told
<1>5. AllAsTold(memo_array)' /\ AllAsTold(params.memos)'
  BY <1>c, <1>u, <1>1, EmptySound DEF ArraysAsTold, AllAsTold
<1>6. Entries(params'.memos) = {}
  BY <1>1, EmptySound
<1>7. ArraysAsTold'
  BY <1>c, <1>u, <1>4, <1>5, <1>6 DEF ArraysAsTold
<1>8. QED
  BY <1>2, <1>3, <1>7 DEF Kept

\* A restart: what the parameters then hold is what is told.
LEMMA KeptByRestart ==
  ASSUME DataInv, DataInv', Kept, Restart
  PROVE  Kept'
<1> DEFINE E == Entries(params'.memos)
<1>c. HandOver /\ ArraysSound /\ ArraysAsTold
  BY DEF Kept
<1>d. Dictated' = Dictated /\ Dictated \in Nat /\ Dictated \in Memos
  <2>1. left'.memos = left.memos
    <3>1. left \in Left
      BY DEF DataInv, TypeOK
    <3>2. left' = [left EXCEPT !.faults = @ - 1]
      BY DEF Restart, Spend
    <3>3. QED
      BY <3>1, <3>2
  <2>2. QED
    BY <1>c, <2>1, KeptTypes DEF Dictated, HandOver
<1>1. /\ params'.memos \in MemoArrays /\ Sound(params'.memos, Dictated)
      /\ CrcAgrees(image') => Sound(image'.memos, Dictated)
  <2>1. PICK i \in {image, Torn} :
          image' = i /\ params' = IF CrcAgrees(i) THEN i ELSE Default
    BY DEF Restart, PowerCut
  <2>2. ~CrcAgrees(Torn) /\ Default.memos = EmptyArray
    BY DEF CrcAgrees, Default
  <2>3. params'.memos \in MemoArrays
    BY KeptTypes DEF DataInv, Counted
  <2>4. QED
    BY <1>c, <2>1, <2>2, <2>3, EmptySound DEF ArraysSound
<1>2. /\ \A e \in E : e \in Event /\ e.time # 0 /\ e.str \in 1..Dictated
      /\ \A e, f \in E : e.str = f.str => e = f
  BY <1>1, <1>d, EntryFacts, SoundEntries
<1>3. \A e \in E : e.str \in Memos /\ e.str <= Dictated
  BY <1>2, <1>d DEF Memos
<1>4. due' = [m \in Memos |-> IF m \in {e.str : e \in E}
                                THEN (CHOOSE e \in E : e.str = m).time ELSE 0]
  BY DEF Restart
<1>u. /\ memo_status' = "IDLE" /\ memo_array' = EmptyArray /\ pc' = "wait" /\ talk' = "idle"
      /\ lost' = {}
  BY DEF Restart, Restarted
<1> HIDE DEF E
<1>5. ASSUME NEW e \in E PROVE due'[e.str] = e.time
  <2>1. (CHOOSE f \in E : f.str = e.str) = e
    BY <1>2
  <2>2. e.str \in Memos /\ e.str \in {f.str : f \in E}
    BY <1>3
  <2>3. QED
    BY <1>4, <2>1, <2>2
<1>6. ASSUME NEW m \in Memos, due'[m] # 0 PROVE \E e \in E : e.str = m
  BY <1>4, <1>6
<1>7. HandOver'
  <2>1. \A m \in Memos : m > Dictated => due'[m] = 0
    BY <1>3, <1>6, <1>d, KeptTypes
  <2>2. QED
    BY <1>d, <1>u, <2>1 DEF HandOver
<1>8. ArraysSound'
  BY <1>d, <1>u, <1>1, EmptySound DEF ArraysSound
<1>9. \A e \in E : e = [time |-> due'[e.str], str |-> e.str] /\ e.str \in Memos /\ due'[e.str] # 0
  BY <1>2, <1>3, <1>5, EventFacts
<1>10. AllAsTold(params.memos)' /\ AllAsTold(memo_array)'
  BY <1>9, <1>u, EmptySound DEF AllAsTold, Told, AsTold, E
<1>11. ASSUME NEW m \in Memos, due'[m] # 0 PROVE [time |-> due'[m], str |-> m] \in E
  BY <1>6, <1>9, <1>11
<1>12. ~LooksAfter' /\ ~Behind' /\ pc' \notin {"clock", "load"}
  BY <1>u DEF LooksAfter, Behind
<1>13. ArraysAsTold'
  BY <1>10, <1>11, <1>12 DEF ArraysAsTold, Told, AsTold, E
<1>14. QED
  BY <1>7, <1>8, <1>13 DEF Kept

LEMMA NextKept ==
  ASSUME DataInv, DataInv', Kept, ~mixed', [Next]_vars
  PROVE  Kept'
<1>f. ASSUME NEW b \in {"flaps", "cancels", "faults", "sets"}, Spend(b)
      PROVE  left'.memos = left.memos
  <2>1. left \in Left
    BY DEF DataInv, TypeOK
  <2>2. QED
    BY <1>f, <2>1 DEF Spend
<1>p. ParamTypeOK /\ Other \in Tasks /\ Terminal \in Tasks
  BY DEF DataInv, TypeOK
<1>a. ArraysAsTold
  BY DEF Kept
<1>1. CASE UNCHANGED vars
  BY <1>1, <1>p, <1>a, ParamsFrame, KeptByFrame
  DEF vars, shared, memoVars, talkVars, observers, Behind, Adding, LooksAfter, ArraysAsTold
<1>2. CASE AskTime
  BY <1>2, <1>p, ParamsFrame, KeptByFrame
  DEF AskTime, Still, shared, talkVars, observers, Behind, Adding, LooksAfter
<1>3. CASE NoTime
  BY <1>3, <1>p, <1>a, ParamsFrame, KeptByFrame
  DEF NoTime, Still, shared, talkVars, observers, Behind, Adding, LooksAfter, ArraysAsTold
<1>4. CASE SetClock
  BY <1>4, <1>p, <1>a, ParamsFrame, KeptByFrame
  DEF SetClock, shared, talkVars, observers, Behind, Adding, LooksAfter, ArraysAsTold
<1>5. CASE StartScan
  BY <1>5, <1>p, ParamsFrame, KeptByFrame
  DEF StartScan, Still, shared, talkVars, observers, Behind, Adding, LooksAfter
<1>6. CASE Skip \/ Stored
  <2>1. pc \in {"scan", "stored"} /\ pc' \in {"scan", "remind"}
    BY <1>6 DEF Skip, Stored, NextSlot, EndScan
  <2>2. QED
    BY <1>6, <1>p, <2>1, ParamsFrame, KeptByFrame
    DEF Skip, Stored, Still, shared, talkVars, observers, Behind, Adding, LooksAfter
<1>7. CASE Remind
  BY <1>7, <1>p, ParamsFrame, KeptByFrame
  DEF Remind, shared, talkVars, observers, Behind, Adding, LooksAfter
<1>8. ASSUME Rest, UNCHANGED observers, left'.memos = left.memos,
             \/ \E t \in Callers : FlashStep(t) \/ FlashFails(t)
             \/ \E t \in Tasks : SetOta(t, Test) \/ \E v \in Users : SetUser(t, v)
             \/ UNCHANGED paramVars
      PROVE  Kept'
  BY <1>8, <1>p, <1>a, ParamsFrame, KeptByFrame
  DEF Rest, shared, memoVars, talkVars, observers, Behind, Adding, LooksAfter, ArraysAsTold
<1>9. CASE Tick \/ Disconnect \/ Flash
  BY <1>8, <1>9 DEF Tick, Disconnect, Flash
<1>10. CASE Connect \/ Cancel \/ FlashFault
  BY <1>8, <1>10, <1>f DEF Connect, Cancel, FlashFault
<1>11. CASE Settings
  <2>1. Rest /\ UNCHANGED <<due, mixed>> /\ left'.memos = left.memos
    BY <1>11, <1>f DEF Settings
  <2>2. CASE SetDefault /\ Drop(Told)
    BY <2>1, <2>2, KeptByReset
  <2>3. CASE ((\E v \in Users : SetUser(Other, v)) \/ SetOta(Terminal, Test)) /\ UNCHANGED lost
    BY <1>8, <1>p, <2>1, <2>3 DEF observers
  <2>4. QED
    BY <1>11, <2>2, <2>3 DEF Settings
<1>s. CASE SameSetting
  <2>1. UNCHANGED <<params, crc, image>>
    BY <1>s DEF SameSetting, SetAgain
  <2>2. QED
    BY <1>s, <2>1, <1>p, <1>a, KeptByFrame
    DEF SameSetting, Rest, shared, memoVars, talkVars, observers, Behind, Adding, LooksAfter,
        ArraysAsTold
<1>12. CASE GetMemoResult
  BY <1>12, KeptByTalk
<1>13. CASE Expire \/ Speak
  BY <1>13, KeptByRemove DEF Expire, Speak
<1>14. CASE Message \/ Load \/ AddToArray \/ ClearEvent \/ StoreAdded \/ Added \/ Restart
  BY <1>14, KeptByMessage, KeptByLoad, KeptByAdd, KeptByEnd, KeptByStore, KeptByRestart
<1>15. QED
  BY <1>1, <1>2, <1>3, <1>4, <1>5, <1>6, <1>7, <1>9, <1>10, <1>11, <1>12, <1>13, <1>14,
     <1>s
  DEF Next, MemoTask

\* Two memos that were mixed up stay so.
LEMMA MixedStays ==
  ASSUME TypeOK, [Next]_vars, mixed
  PROVE  mixed'
<1>1. CASE GetText
  BY <1>1 DEF GetText
<1>2. CASE UNCHANGED mixed
  BY <1>2
<1>3. CASE ~GetText
  <2>1. CASE UNCHANGED vars
    BY <2>1 DEF vars, observers
  <2>2. CASE Outdated \/ SetTime \/ SetStatus \/ NoTime \/ SetClock \/ Settings \/ SameSetting
             \/ Restart
    BY <2>2 DEF Outdated, SetTime, SetStatus, NoTime, Still, SetClock, Settings, SameSetting,
                Restart, observers
  <2>3. CASE Connect \/ Disconnect \/ Cancel \/ Tick \/ Flash \/ FlashFault
    BY <2>3 DEF Connect, Disconnect, Cancel, Tick, Flash, FlashFault, observers
  <2>4. CASE MemoTask
    BY <2>4
    DEF MemoTask, Message, AskTime, Load, AddToArray, ClearEvent, StoreAdded, Added, StartScan,
        Skip, Expire, Speak, RemoveSlot, Stored, Remind, Still, observers
  <2>5. QED
    BY <1>3, <2>1, <2>2, <2>3, <2>4 DEF Next, GetMemoResult
<1>4. QED
  BY <1>1, <1>3

-----------------------------------------------------------------------------
(* The theorems                                                            *)

IInv == DataInv /\ SaveInv

LEMMA InitIInv == Init => IInv
<1> SUFFICES ASSUME Init PROVE IInv
  OBVIOUS
<1> USE DEF Init, ParamInit
<1>0. \A t \in Callers : saving[t] = Idle /\ saving[t].at = "none" /\ ~Busy(t)
  BY IdleFacts DEF Busy
<1>1. ParamTypeOK
  BY FirstCounted, DefaultType DEF ParamTypeOK, Idle, Places
<1>2. SaveInv
  BY <1>0 DEF SaveInv, SavesApart, SaveIsWhole, KeptUnlessTold, Callers
<1>3. FirstParams.memos \in Counted /\ FirstMemo.time \in Times
  BY FirstCounted, ConstantFacts DEF FirstParams, FirstMemo
<1>4. TypeOK
  <2>1. EmptyArray \in MemoArrays /\ Epoch \in Times
    BY EmptyCounted, TimeFacts, ConstantFacts DEF Counted
  <2>2. due \in [Memos -> Times]
    BY <1>3, TimeFacts
  <2>3. left \in Left
    <3>1. left \in [memos : 0..MaxMemos - 1, flaps : Nat, cancels : Nat, faults : Nat, sets : Nat]
      BY BoundsAssumption
    <3>2. QED
      BY <3>1, ConstantFacts
  <2>4. msgs \in Seq({"connected", "disconnected", "cancel"})
    BY EmptySeq
  <2>5. memo_event \in Event /\ num \in Slots /\ content \in Texts /\ clock \in Times
        /\ time_sec \in Times /\ exe_time \in Times /\ remind_count \in 0..MaxRemind
    BY TimeFacts, ConstantFacts
  <2>6. QED
    BY <1>1, <2>1, <2>2, <2>3, <2>4, <2>5 DEF TypeOK
<1>5. clock <= real /\ real <= Epoch + MaxTicks
  BY ConstantFacts
<1>6. DataInv
  BY <1>3, <1>4, <1>5, EmptyCounted DEF DataInv
<1>7. QED
  BY <1>2, <1>6 DEF IInv

LEMMA IInvAlways == Spec => []IInv
<1>1. IInv /\ [Next]_vars => IInv'
  <2> SUFFICES ASSUME IInv, [Next]_vars PROVE IInv'
    OBVIOUS
  <2>1. ParamStep(Counted) /\ Counted \in SUBSET Arrays
    BY NextParamStep DEF IInv, Counted
  <2>2. QED
    BY <2>1, NextDataInv, ParamSaves DEF IInv, DataInv, TypeOK
<1>2. QED
  BY InitIInv, <1>1, PTL DEF Spec

\* Every variable of the parameters and the memos keeps its type, whatever is
\* dictated, set, lost and restarted, mixed up memos included: the number of
\* memos never goes below zero or above the array.
THEOREM TypeCorrect == Spec => []TypeOK
<1>1. IInv => TypeOK
  BY DEF IInv, DataInv
<1>2. QED
  BY IInvAlways, <1>1, PTL

\* When no save is going on, flash holds what memory holds, unless the last
\* save failed or the reset without the lock met another, for any number of
\* power cuts and failures.
THEOREM ParametersKept == Spec => []KeptUnlessTold
<1>1. IInv => KeptUnlessTold
  BY DEF IInv, SaveInv
<1>2. QED
  BY IInvAlways, <1>1, PTL

\* The parameters in flash, erased and written in place with a CRC, are a value
\* that is read and changed at once and of which a restart brings back the last
\* one written, or the factory's when a change was being written.
THEOREM StoreImplemented == Spec => ImplementsStore
<1>1. Init => Store!Init
  <2> SUFFICES ASSUME Init PROVE Store!Init
    OBVIOUS
  <2>1. params = FirstParams /\ image = FirstParams /\ FirstParams \in Params
    BY FirstCounted DEF Init, ParamInit
  <2>2. CrcAgrees(image)
    BY <2>1 DEF CrcAgrees
  <2>3. ~Writing
    BY IdleFacts DEF Init, ParamInit, Writing
  <2>4. QED
    BY <2>1, <2>2, <2>3 DEF Store!Init
<1>2. IInv /\ [Next]_vars => [Store!Next]_(Store!storeVars)
  BY NextParamStep, StepMaps DEF IInv, DataInv, TypeOK, Counted
<1>3. QED
  BY <1>1, <1>2, IInvAlways, PTL DEF Spec, ImplementsStore, Store!Spec


LEMMA InitMemoInv ==
  ASSUME Init
  PROVE  MemoInv
<1> USE DEF Init, ParamInit
<1>t. DataInv
  BY InitIInv DEF IInv
<1>0. /\ MaxMemos \in Nat \ {0} /\ Epoch \in Nat /\ memo_array = EmptyArray
      /\ params.memos = FirstArray /\ image = FirstParams /\ image.memos = FirstArray
      /\ CrcAgrees(image)
  BY ConstantFacts, FirstCounted DEF FirstParams, CrcAgrees
<1>1. Dictated \in Memos /\ 1 \in Memos /\ Dictated \in Nat /\ Dictated >= 1
  <2>1. left.memos \in 0..MaxMemos - 1
    BY BoundsAssumption
  <2>2. QED
    BY <1>0, <2>1 DEF Dictated, Memos
<1>2. /\ FirstArray \in MemoArrays /\ Used(FirstArray) = {1} /\ FirstArray.event[1] = FirstMemo
      /\ FirstArray.current = 1
  <2>1. FirstArray \in MemoArrays
    BY FirstCounted DEF Counted
  <2>2. \A n \in Slots : FirstArray.event[n] = IF n = 1 THEN FirstMemo ELSE NoEvent
    BY DEF FirstArray
  <2>3. FirstMemo.time # 0 /\ NoEvent.time = 0 /\ 1 \in Slots
    BY ConstantFacts DEF FirstMemo, NoEvent
  <2>4. \A n \in Slots : n \in Used(FirstArray) <=> n = 1
    BY <2>1, <2>2, <2>3, EntryFacts
  <2>5. Used(FirstArray) \subseteq Slots
    BY <2>1, EntryFacts
  <2>6. Used(FirstArray) = {1}
    BY <2>3, <2>4, <2>5
  <2>7. FirstArray.current = 1
    BY DEF FirstArray
  <2>8. QED
    BY <2>1, <2>2, <2>3, <2>6, <2>7
<1>3. Sound(FirstArray, Dictated)
  <2>1. Cardinality(Used(FirstArray)) = 1
    BY <1>2, FS_Singleton
  <2>2. FirstArray.event[1].str = 1
    BY <1>2 DEF FirstMemo
  <2>3. QED
    BY <1>1, <1>2, <2>1, <2>2 DEF Sound
<1>4. Entries(FirstArray) = {FirstMemo}
  BY <1>2 DEF Entries
<1>5. due[1] = FirstMemo.time /\ FirstMemo.time # 0 /\ \A m \in Memos \ {1} : due[m] = 0
  BY <1>0, <1>1 DEF FirstMemo
<1>6. Told = {1} /\ AsTold(1) = FirstMemo
  BY <1>1, <1>5 DEF Told, AsTold, FirstMemo
<1>7. HandOver
  <2>1. \A m \in Memos : m > Dictated => due[m] = 0
    <3>1. \A m \in Memos : m > Dictated => m # 1
      BY <1>1 DEF Memos
    <3>2. QED
      BY <1>5, <3>1
  <2>2. QED
    BY <1>1, <2>1 DEF HandOver, Adding
<1>8. ArraysSound
  BY <1>0, <1>1, <1>3, EmptySound DEF ArraysSound
<1>9. ArraysAsTold
  <2>1. AllAsTold(memo_array) /\ AllAsTold(params.memos)
    BY <1>0, <1>4, <1>6, EmptySound DEF AllAsTold, FirstMemo
  <2>2. ~LooksAfter /\ ~Behind /\ pc \notin {"clock", "load"}
    BY DEF LooksAfter, Behind
  <2>3. \A m \in Told : AsTold(m) \in Entries(params.memos)
    BY <1>0, <1>4, <1>6
  <2>4. QED
    BY <2>1, <2>2, <2>3 DEF ArraysAsTold
<1>10. LinkInv
  BY DEF LinkInv
<1>11. QED
  BY <1>7, <1>8, <1>9, <1>10 DEF MemoInv

LEMMA MemoInvAlways == Spec => [](IInv /\ MemoInv)
<1>1. IInv /\ IInv' /\ MemoInv /\ [Next]_vars => MemoInv'
  <2> SUFFICES ASSUME IInv, IInv', MemoInv, [Next]_vars PROVE MemoInv'
    OBVIOUS
  <2>1. LinkInv'
    BY NextLinkInv DEF IInv, MemoInv
  <2>2. ASSUME ~mixed' PROVE Kept'
    <3>1. ~mixed
      BY <2>2, MixedStays DEF IInv, DataInv
    <3>2. Kept
      BY <3>1 DEF MemoInv, Kept
    <3>3. QED
      BY <2>2, <3>2, NextKept DEF IInv
  <2>3. QED
    BY <2>1, <2>2 DEF MemoInv, Kept
<1>2. QED
  BY InitMemoInv, IInvAlways, <1>1, PTL DEF Spec

\* A memo the user was told was added is handed over or in an array, its text
\* with its own time, and the array holds nothing else and counts it, until it
\* is spoken, has expired, is overwritten or was dropped in a way the code has;
\* and a memo task that is idle has none to look after: for any number of memos,
\* restarts and link changes, as long as no two dictations overlapped.
THEOREM MemosRight == Spec => []MemosAreRight
<1>1. IInv /\ MemoInv => MemosAreRight
  <2> SUFFICES ASSUME IInv, MemoInv PROVE MemosAreRight
    OBVIOUS
  <2>1. TypeOK
    BY DEF IInv, DataInv
  <2>2. MemoIsKept
    BY DEF MemoInv, MemoIsKept, ArraysAsTold, AllAsTold
  <2>3. CountIsRight
    BY DEF MemoInv, CountIsRight, ArraysSound, Sound
  <2>4. IdleHasNone
    <3>1. msgs = <<>> => ~\E i \in DOMAIN msgs : TRUE
      OBVIOUS
    <3>2. QED
      BY <3>1 DEF MemoInv, LinkInv, IdleHasNone
  <2>5. QED
    BY <2>1, <2>2, <2>3, <2>4 DEF MemosAreRight
<1>2. QED
  BY MemoInvAlways, <1>1, PTL

\* What is spoken first is a memo the user was told was added, that was not
\* spoken before, and at the time it was told for.
THEOREM SpeaksInTime == Spec => SpokenInTime
<1> DEFINE InTime == content' \notin {NoText, content} /\ ~mixed => due[content'] = time_sec
<1>1. IInv /\ MemoInv /\ [Next]_vars => [InTime]_vars
  <2> SUFFICES ASSUME IInv, MemoInv, Next, content' \notin {NoText, content}, ~mixed
               PROVE  due[content'] = time_sec
    OBVIOUS
  <2>1. Speak
    BY DEF Next, GetMemoResult, GetText, Outdated, SetTime, SetStatus, memoVars, MemoTask,
           Message, AskTime, Load, AddToArray, ClearEvent, StoreAdded, Added, StartScan, Skip,
           Expire, Stored, Remind, NoTime, SetClock, Connect, Disconnect, Cancel, Settings,
           SameSetting, Tick, Flash, FlashFault, Restart, Restarted, Still, Rest
  <2>2. /\ content' = Current.str /\ Current.time = time_sec /\ Current.time # 0
        /\ num \in Slots /\ memo_array \in MemoArrays
    BY <2>1, KeptTypes DEF Speak, IInv
  <2>3. Current \in Entries(memo_array)
    BY <2>2, EntryFacts DEF Current
  <2>4. Current = AsTold(Current.str)
    BY <2>3 DEF MemoInv, ArraysAsTold, AllAsTold
  <2>5. Current.time = due[Current.str]
    BY <2>4 DEF AsTold
  <2>6. QED
    BY <2>2, <2>5
<1>2. QED
  BY MemoInvAlways, <1>1, PTL DEF Spec, SpokenInTime

=============================================================================
