---------------------------- MODULE DeviceParams ----------------------------
(***************************************************************************)
(* components/device_params_manage/device_params_manage.c and               *)
(* components/sdk_interfaces/flash_operation_interface.c: the parameters    *)
(* of the device, a copy in memory and one in flash that is erased and      *)
(* written in place.  Of the fields, `ota` and `memos` are modelled; `user` *)
(* stands for those set_flash_cfg compares, copies and saves alike.         *)
(*                                                                          *)
(* A save is two operations of the flash, and the power may be cut before   *)
(* each of them; each may fail.  set_flash_cfg holds a lock throughout;     *)
(* init_default_params, which the serial terminal calls, takes none.        *)
(***************************************************************************)
EXTENDS Naturals

CONSTANTS
  Tasks,      \* those that set parameters
  Terminal,   \* the task of the serial terminal, one of them
  Boot,       \* the start of the device, before any of them runs
  Users,      \* values of `user`
  NoUser,     \* what init_device_params_v1 puts there
  Arrays,     \* values of MEMO_ARRAY_T, each with a field `current`
  NoMemos,    \* the one that is all zero
  Formal,     \* OTA_UPDATE_MODE_FORMAL
  Test,       \* OTA_UPDATE_MODE_TEST
  Erased,     \* a flash sector that was erased and not written
  Torn,       \* one whose CRC does not agree with its contents
  Nobody      \* a lock that is free

Params == [user : Users, ota : {0, Formal, Test}, memos : Arrays]

\* init_device_params_v1
Default == [user |-> NoUser, ota |-> 0, memos |-> NoMemos]

ASSUME ParamsAssumption ==
  /\ NoUser \in Users /\ NoMemos \in Arrays /\ NoMemos.current = 0
  /\ \A a \in Arrays : a.current \in Nat /\ a.current < Formal /\ a.current < Test
  /\ Formal \in Nat /\ Test \in Nat /\ Formal # Test
  /\ Terminal \in Tasks /\ Boot \notin Tasks /\ Nobody \notin Tasks \cup {Boot}
  /\ Erased # Torn /\ {Erased, Torn} \cap Params = {}

VARIABLES
  params,    \* g_device_params
  crc,       \* its header's crc32: the parameters it was computed of
  image,     \* the sector of flash
  lock,      \* g_lock_flash_config
  saving,    \* what each task has left to do in set_flash_cfg
  ret,       \* what set_flash_cfg last returned to each, or will return
  unheard,   \* observer: how it is that nobody knows of the last failure of the flash
  collided   \* observer: a save without the lock met another since the start

paramVars == <<params, crc, image, lock, saving, ret, unheard, collided>>

Callers == Tasks \cup {Boot}

\* Where a task is: before the erasure, before the write, or in the case of the
\* OTA mode that the case of the memos falls into.
Places == {"none", "erase", "write", "ota"}

ParamTypeOK ==
  /\ {params, crc} \subseteq Params
  /\ image \in Params \cup {Erased, Torn}
  /\ lock \in Callers \cup {Nobody}
  /\ saving \in [Callers -> [at : Places, field : {"user", "ota", "memos", "all"},
                           sum : Params]]
  /\ ret \in [Callers -> {"OK", "FAIL"}]
  /\ unheard \in {"no", "not looked at", "set again"}
  /\ collided \in BOOLEAN

Idle == [at |-> "none", field |-> "all", sum |-> Default]

\* After init_device_params has found p in flash.
ParamInit(p) ==
  /\ params = p /\ crc = p /\ image = p
  /\ lock = Nobody
  /\ saving = [t \in Callers |-> Idle]
  /\ ret = [t \in Callers |-> "OK"]
  /\ unheard = "no" /\ collided = FALSE

\* The mode that is stored for a number: FORMAL unless it is TEST.
OtaMode(n) == IF n = Test THEN Test ELSE Formal

Busy(t) == saving[t] # Idle

\* Variant: the CRC is that of the parameters before the change.
Save_Stale(t, f) ==
  /\ saving' = [saving EXCEPT ![t] = [at |-> "erase", field |-> f, sum |-> params]]
  /\ ret' = [ret EXCEPT ![t] = "OK"]
  /\ collided' = (collided \/ \E u \in Callers \ {t} : Busy(u) /\ Terminal \in {t, u})
  /\ UNCHANGED <<crc, image, unheard>>

\* The start of save_device_params: the CRC is computed.  It is stored in the
\* header just before the flash is written.
Save(t, f) ==
  /\ saving' = [saving EXCEPT ![t] = [at |-> "erase", field |-> f, sum |-> params']]
  /\ ret' = [ret EXCEPT ![t] = "OK"]
  /\ collided' = (collided \/ \E u \in Callers \ {t} : Busy(u) /\ Terminal \in {t, u})
  /\ UNCHANGED <<crc, image, unheard>>

Unlock(t) == lock' = IF lock = t THEN Nobody ELSE lock

\* set_flash_cfg, up to its first write of the flash: the value is changed in
\* memory first, and nothing is written when memory has it already.
SetField(t, f, v, stored) ==
  /\ lock = Nobody /\ ~Busy(t)
  /\ params[f] # v
  /\ params' = [params EXCEPT ![f] = stored]
  /\ Save(t, f) /\ lock' = t

SetUser(t, v) == SetField(t, "user", v, v)

SetOta(t, v) == SetField(t, "ota", v, OtaMode(v))

SetMemos(t, a) ==
  /\ lock = Nobody /\ ~Busy(t)
  /\ params' = [params EXCEPT !.memos = a]
  /\ Save(t, "memos") /\ lock' = t

\* set_flash_cfg when memory has the value already: 0 is returned, whatever became of
\* the save by which memory got it.
SetAgain(t, f, v) ==
  /\ lock = Nobody /\ ~Busy(t)
  /\ params[f] = v
  /\ ret' = [ret EXCEPT ![t] = "OK"]
  /\ unheard' = IF ret[t] = "FAIL" THEN "set again" ELSE unheard
  /\ UNCHANGED <<params, crc, image, lock, saving, collided>>

\* FLASH_CFG_MEMO_PARAMS has no break: the first word of the array, the number
\* of its memos, is then taken for the OTA mode to set.
FallThrough(t) ==
  /\ saving[t].at = "ota"
  /\ IF params.ota = params.memos.current
       THEN /\ saving' = [saving EXCEPT ![t] = Idle] /\ Unlock(t)
            /\ UNCHANGED <<params, crc, image, ret, unheard, collided>>
       ELSE /\ params' = [params EXCEPT !.ota = OtaMode(params.memos.current)]
            /\ Save(t, "ota") /\ UNCHANGED lock

\* init_default_params: no lock.
SetDefault ==
  /\ ~Busy(Terminal)
  /\ params' = Default /\ Save(Terminal, "all")
  /\ UNCHANGED lock

\* The end of save_device_params.
Saved(t) ==
  IF saving[t].field = "memos"
    THEN saving' = [saving EXCEPT ![t].at = "ota"] /\ UNCHANGED lock
    ELSE saving' = [saving EXCEPT ![t] = Idle] /\ Unlock(t)

\* The header's CRC, and spi_flash_erase_range.
Erase(t) ==
  /\ saving[t].at = "erase"
  /\ crc' = saving[t].sum
  /\ image' = Erased
  /\ saving' = [saving EXCEPT ![t].at = "write", ![t].sum = Default]
  /\ UNCHANGED <<params, lock, ret, unheard, collided>>

\* spi_flash_write: bits can only be cleared.
Write(t) ==
  /\ saving[t].at = "write"
  /\ image' = IF image \in {Erased, params} /\ crc = params THEN params ELSE Torn
  /\ ret' = [ret EXCEPT ![t] = "OK"] /\ unheard' = "no"
  /\ Saved(t)
  /\ UNCHANGED <<params, crc, collided>>

\* What save_device_params returns is returned by set_flash_cfg;
\* init_device_params and init_default_params do not look at it.
Refused(t) ==
  IF saving[t].field = "all"
    THEN unheard' = "not looked at" /\ UNCHANGED ret
    ELSE unheard' = "no" /\ ret' = [ret EXCEPT ![t] = "FAIL"]

\* Either of them fails, before or after it did something.
FlashFails(t) ==
  /\ saving[t].at \in {"erase", "write"}
  /\ image' \in {image, Torn}
  /\ crc' = IF saving[t].at = "erase" THEN saving[t].sum ELSE crc
  /\ Refused(t)
  /\ Saved(t)
  /\ UNCHANGED <<params, collided>>

FlashStep(t) == Erase(t) \/ Write(t) \/ FallThrough(t)

\* Variant: a sector that is not blank is taken for good.
CrcAgrees_NotBlank(i) == i # Erased

CrcAgrees(i) == i \notin {Erased, Torn}

Writing == \E t \in Callers : saving[t].at \in {"erase", "write"}

\* The power is cut, in the middle of a flash operation or not, and comes back:
\* init_device_params up to its save.
PowerCut ==
  \E i \in IF Writing THEN {image, Torn} ELSE {image} :
    /\ image' = i
    /\ params' = IF CrcAgrees(i) THEN i ELSE Default
    /\ crc' = params'
    /\ saving' = [t \in Callers |-> IF t = Boot /\ ~CrcAgrees(i)
                    THEN [at |-> "erase", field |-> "all", sum |-> Default] ELSE Idle]
    /\ lock' = Nobody
    /\ ret' = [t \in Callers |-> "OK"]
    /\ unheard' = "no" /\ collided' = FALSE

\* No service exists before init_device_params has returned.
Started == ~Busy(Boot)

---------------------------------------------------------------------------
(* What it implements. *)

Store == INSTANCE ParamStore
  WITH Values <- Params, current <- params,
       kept <- IF CrcAgrees(image) THEN image ELSE Default,
       writing <- Writing

\* The parameters are such a value: written in place, with a CRC, but whole.
ImplementsStore == Store!Spec

\* When no save is going on, the next start will read what is read now, or a task
\* holds the FAIL that set_flash_cfg returned to it.  It is wrong in three cases, and in
\* no other: the failed save was that of the start or of the reset, which do not look at
\* its result; the task that was told has set a value again that memory has, and was
\* told OK; the reset, which takes no lock, met another save.
KeptUnlessTold ==
  ~Writing /\ ~collided /\ image # params =>
    \/ \E t \in Callers : ret[t] = "FAIL"
    \/ unheard \in {"not looked at", "set again"}

\* Why it is so: the lock keeps two set_flash_cfg apart, and the save of the
\* start is over before there is a task; one save that meets no other leaves in
\* flash what was in memory when its CRC was computed.
SavesApart ==
  /\ \A t \in Tasks \ {Terminal} : Busy(t) => lock = t
  /\ Busy(Boot) => \A t \in Tasks : ~Busy(t)
  /\ ~collided => \A t, u \in Callers : Busy(t) /\ Busy(u) => t = u

SaveIsWhole ==
  ~collided => \A t \in Callers :
     /\ saving[t].at = "erase" => saving[t].sum = params
     /\ saving[t].at = "write" => image = Erased /\ crc = params

SaveInv == SavesApart /\ SaveIsWhole /\ KeptUnlessTold

=============================================================================
