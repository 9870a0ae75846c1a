----------------------------- MODULE PowerManage -----------------------------
(***************************************************************************)
(* components/power_manage/power_manage.c: each second the service looks at *)
(* how long nothing was done, at the battery and at the charger, and puts   *)
(* the device to deep sleep when there is a reason to.                      *)
(*                                                                          *)
(* Idle time is a difference of wall clock times.  The clock is set by      *)
(* memo_service, which notes an activity in its next statement; the stamp   *)
(* is read under the lock and compared after it.  A unit of time is what    *)
(* the constants below count; a pass of the service takes none, and the     *)
(* seconds in which it says something and waits are steps of their own.     *)
(***************************************************************************)
EXTENDS Integers

CONSTANTS
  SleepSec,     \* DEVICE_SLEEP_TIME, in units
  RemindCount,  \* REMIND_COUNT
  RemindGap,    \* the ten seconds between two reminders, in units; 0: shorter than one
  Jump,         \* what the clock is put forward by
  MaxTime,      \* bound: units of time
  MaxJumps,     \* bound: times the clock is set
  MaxPlugs      \* bound: times the charger is plugged in or pulled out

ASSUME TimeAssumption ==
  /\ {SleepSec, RemindCount, Jump} \subseteq Nat \ {0}
  /\ {RemindGap, MaxTime, MaxJumps, MaxPlugs} \subseteq Nat
  /\ SleepSec > 1   \* half an hour, and a pass is made in each second
ASSUME JumpAssumption == Jump >= SleepSec

ChargeStatuses == {"INIT", "IDEL", "CHARGING", "START_CHARGING", "STOP_CHARGING"}

VARIABLES
  sleep_timestamp,       \* g_power_manage_handle->sleep_timestamp
  charge_status,
  lowpower_remind_count,
  play_time,
  pc,                    \* where the task is in its pass
  stamp,                 \* the copy of sleep_timestamp read in this pass
  battery_vol,           \* read at the beginning of this pass: TRUE is low
  now,                   \* the wall clock
  jumping,               \* memo_service is between its two statements
  plugged,               \* get_charging_status
  low,                   \* the battery's voltage is low
  asleep,
  told,                  \* the last of the two charging events broadcast
  reason,                \* observer: why the device says goodbye
  passed,                \* a pass has been made in this unit
  quiet,                 \* observer: units since something was done
  fed,                   \* observer: passes begun with the charger plugged in, up to 5
  judged,                \* observer: quiet when the stamp was read, or SleepSec when
                         \* the clock is set at that moment or before the comparison
  jumps, plugs

params == <<sleep_timestamp>>
charge == <<charge_status, lowpower_remind_count, play_time, told>>
pass == <<pc, stamp, battery_vol, asleep, reason>>
world == <<now, jumping, plugged, low, quiet>>
seen == <<passed, fed, judged>>
counts == <<jumps, plugs>>
powerVars == <<params, charge, pass, world, seen, counts>>

PowerInit ==
  /\ charge_status = "INIT"
  /\ lowpower_remind_count = 0
  /\ play_time = 0
  /\ pc = "wait"
  /\ stamp = 0
  /\ battery_vol = FALSE
  /\ asleep = FALSE
  /\ told = "none"
  /\ reason = "none"
  /\ jumping = FALSE
  /\ passed = FALSE
  /\ quiet = 0
  /\ judged = 0
  /\ now = 0
  /\ sleep_timestamp = 0
  /\ plugged \in BOOLEAN
  /\ low \in BOOLEAN
  /\ fed = 0
  /\ jumps = 0 /\ plugs = 0

Abs(n) == IF n < 0 THEN -n ELSE n

-----------------------------------------------------------------------------
(* The power_manage task: APP_EVENT_DEFAULT_LOOP_TIMEOUT                    *)

At(label) == ~asleep /\ pc = label

BeginPass ==
  /\ At("wait")
  /\ battery_vol' = low
  /\ pc' = "stamp"
  /\ passed' = TRUE
  /\ fed' = IF plugged /\ fed < 5 THEN fed + 1 ELSE fed
  /\ UNCHANGED <<params, charge, stamp, asleep, reason, world, judged, counts>>

\* get_power_mng_sleep_time, under the lock
ReadStamp ==
  /\ At("stamp")
  /\ stamp' = sleep_timestamp
  /\ pc' = "compare"
  /\ judged' = IF jumping THEN SleepSec ELSE quiet
  /\ UNCHANGED <<params, charge, battery_vol, asleep, reason, world, passed, fed, counts>>

\* Variant: the shallow sleep's limit is used for both.
Compare_Shallow ==
  /\ At("compare")
  /\ IF Abs(stamp - now) >= SleepSec - 1
     THEN pc' = "byebye" /\ reason' = "idle"
     ELSE pc' = "charge" /\ UNCHANGED reason
  /\ stamp' = 0 /\ judged' = 0
  /\ UNCHANGED <<params, charge, battery_vol, asleep, world, passed, fed, counts>>

\* the time is read after the lock was given back
Compare ==
  /\ At("compare")
  /\ IF Abs(stamp - now) >= SleepSec
     THEN pc' = "byebye" /\ reason' = "idle"
     ELSE pc' = "charge" /\ UNCHANGED reason
  /\ stamp' = 0 /\ judged' = 0
  /\ UNCHANGED <<params, charge, battery_vol, asleep, world, passed, fed, counts>>

\* four seconds after the goodbye, whatever has been done in them
DeepSleep ==
  /\ At("byebye")
  /\ asleep' = TRUE
  /\ UNCHANGED <<params, charge, pc, stamp, battery_vol, reason, world, seen, counts>>

\* free_talk has been told to switch the device off
Shutdown ==
  /\ At("wait")
  /\ pc' = "byebye"
  /\ reason' = "told"
  /\ UNCHANGED <<params, charge, stamp, battery_vol, asleep, world, seen, counts>>

ChargeAt(s) == At("charge") /\ charge_status = s

\* what was read in this pass is dropped
EndPass ==
  /\ pc' = "wait"
  /\ battery_vol' = FALSE
  /\ UNCHANGED <<stamp, asleep, reason, world, seen, counts>>

ChargeInit ==
  /\ ChargeAt("INIT")
  /\ charge_status' = IF plugged THEN "CHARGING" ELSE "IDEL"
  /\ told' = IF plugged THEN "CHARGING" ELSE told
  /\ UNCHANGED <<params, lowpower_remind_count, play_time>>
  /\ EndPass

\* the reminder is due: the last one is ten seconds old by the clock
Due == Abs(play_time - now) >= RemindGap

Reminded == lowpower_remind_count >= RemindCount

ChargeIdle ==
  /\ ChargeAt("IDEL")
  /\ ~(battery_vol /\ Reminded)
  /\ charge_status' = IF plugged THEN "START_CHARGING" ELSE "IDEL"
  /\ IF battery_vol /\ Due
     THEN lowpower_remind_count' = lowpower_remind_count + 1 /\ play_time' = now
     ELSE UNCHANGED <<lowpower_remind_count, play_time>>
  /\ UNCHANGED <<params, told>>
  /\ EndPass

\* the battery is looked at first, the charger after it
LowBattery ==
  /\ ChargeAt("IDEL")
  /\ battery_vol /\ Reminded
  /\ pc' = "byebye"
  /\ reason' = "low"
  /\ UNCHANGED <<params, charge, stamp, battery_vol, asleep, world, seen, counts>>

\* the tone takes three seconds; then the services are told, plugged in or not
StartCharging ==
  /\ ChargeAt("START_CHARGING")
  /\ told' = "CHARGING"
  /\ charge_status' = "CHARGING"
  /\ UNCHANGED <<params, lowpower_remind_count, play_time>>
  /\ EndPass

\* Variant: a charger pulled out leads to the idle state at once.
Charging_Silent ==
  /\ ChargeAt("CHARGING")
  /\ sleep_timestamp' = now
  /\ charge_status' = IF plugged THEN "CHARGING" ELSE "IDEL"
  /\ UNCHANGED <<lowpower_remind_count, play_time, told>>
  /\ EndPass

\* charging counts as something done
Charging ==
  /\ ChargeAt("CHARGING")
  /\ sleep_timestamp' = now
  /\ charge_status' = IF plugged THEN "CHARGING" ELSE "STOP_CHARGING"
  /\ UNCHANGED <<lowpower_remind_count, play_time, told>>
  /\ EndPass

StopCharging ==
  /\ ChargeAt("STOP_CHARGING")
  /\ told' = "CHARGING_STOP"
  /\ charge_status' = "IDEL"
  /\ UNCHANGED <<params, lowpower_remind_count, play_time>>
  /\ EndPass

PassStep ==
  \/ BeginPass \/ ReadStamp \/ Compare \/ DeepSleep
  \/ ChargeInit \/ ChargeIdle \/ LowBattery \/ StartCharging \/ Charging \/ StopCharging

-----------------------------------------------------------------------------
(* The other tasks and the hardware                                         *)

\* keyboard_service, free_talk and memo_service: update_power_mng_sleep_time
Activity ==
  /\ ~asleep
  /\ sleep_timestamp' = now
  /\ quiet' = 0
  /\ UNCHANGED <<charge, pass, now, jumping, plugged, low, seen, counts>>

\* memo_service has asked for the time and sets it ...
SetClock ==
  /\ ~asleep /\ ~jumping
  /\ jumps < MaxJumps
  /\ jumps' = jumps + 1
  /\ now' = now + Jump
  /\ jumping' = TRUE
  /\ judged' = IF pc = "compare" THEN SleepSec ELSE judged
  /\ UNCHANGED <<params, charge, pass, plugged, low, quiet, passed, fed, plugs>>

\* ... and notes it as an activity
ClockIsSet ==
  /\ ~asleep /\ jumping
  /\ jumping' = FALSE
  /\ sleep_timestamp' = now
  /\ quiet' = 0
  /\ UNCHANGED <<charge, pass, now, plugged, low, seen, counts>>

\* each unit holds a pass at least, and none is longer
Tick ==
  /\ asleep \/ (pc = "wait" /\ passed)
  /\ ~jumping
  /\ now - jumps * Jump < MaxTime
  /\ now' = now + 1
  /\ quiet' = quiet + 1
  /\ passed' = FALSE
  /\ UNCHANGED <<params, charge, pass, jumping, plugged, low, fed, judged, counts>>

Plug ==
  /\ plugs < MaxPlugs
  /\ plugs' = plugs + 1
  /\ plugged' = ~plugged
  /\ fed' = 0
  /\ UNCHANGED <<params, charge, pass, now, jumping, low, quiet, passed, judged, jumps>>

\* the battery runs down, or is charged
Drain ==
  /\ low = plugged
  /\ low' = ~low
  /\ UNCHANGED <<params, charge, pass, now, jumping, plugged, quiet, seen, counts>>

\* a key wakes the device: the program starts anew, the clock has run on
Wake ==
  /\ asleep
  /\ sleep_timestamp' = now
  /\ charge_status' = "INIT"
  /\ lowpower_remind_count' = 0
  /\ play_time' = 0
  /\ told' = "none"
  /\ pc' = "wait"
  /\ stamp' = 0
  /\ battery_vol' = FALSE
  /\ asleep' = FALSE
  /\ reason' = "none"
  /\ quiet' = 0
  /\ passed' = FALSE
  /\ fed' = 0
  /\ judged' = 0
  /\ jumping' = FALSE
  /\ UNCHANGED <<now, plugged, low, counts>>

WorldStep == Activity \/ SetClock \/ ClockIsSet \/ Tick \/ Plug \/ Drain \/ Wake

PowerNext == PassStep \/ Shutdown \/ WorldStep

PowerSpec == PowerInit /\ [][PowerNext]_powerVars

\* the service's task runs again and again, and so does memo_service's
PowerFairSpec == PowerSpec /\ WF_powerVars(PassStep) /\ WF_powerVars(ClockIsSet)

-----------------------------------------------------------------------------
(* Properties                                                               *)

PowerTypeOK ==
  /\ {sleep_timestamp, now, stamp, play_time} \subseteq 0..MaxTime + MaxJumps * Jump
  /\ charge_status \in ChargeStatuses
  /\ lowpower_remind_count \in 0..RemindCount
  /\ pc \in {"wait", "stamp", "compare", "charge", "byebye"}
  /\ {battery_vol, jumping, plugged, low, asleep} \subseteq BOOLEAN
  /\ told \in {"none", "CHARGING", "CHARGING_STOP"}
  /\ reason \in {"none", "idle", "low", "told"}
  /\ quiet \in 0..MaxTime
  /\ fed \in 0..5
  /\ judged \in 0..MaxTime + SleepSec
  /\ passed \in BOOLEAN
  /\ jumps \in 0..MaxJumps /\ plugs \in 0..MaxPlugs

\* What the services were told of the charger agrees with the state the service is in:
\* lights, keyword wakeup and the others act on these two events alone.
ToldAgrees ==
  /\ PowerTypeOK
  /\ charge_status \in {"CHARGING", "STOP_CHARGING"} => told = "CHARGING"
  /\ charge_status \in {"INIT", "IDEL", "START_CHARGING"} => told # "CHARGING"

\* The device says goodbye for idleness only after the half hour without an activity,
\* but for the two statements between the setting of the clock and the note of it, and
\* for what was read before them; and it never does while it is charging: a charger is
\* noticed within five passes, and a low battery is no reason after two.
SleepsForAReason ==
  [][ pc # "byebye" /\ pc' = "byebye"
      => /\ reason' = "idle" => judged >= SleepSec /\ (fed < 5 \/ jumps > 0)
         /\ reason' = "low" => fed < 3 ]_powerVars

\* A charger that stays plugged in is announced, and so is one that stays pulled out,
\* unless the device goes to sleep.
ToldOfCharging ==
  /\ plugged ~> (~plugged \/ told = "CHARGING" \/ pc = "byebye")
  /\ (~plugged /\ told = "CHARGING") ~> (plugged \/ told # "CHARGING" \/ pc = "byebye")
=============================================================================
