---------------------------- MODULE MemoService -----------------------------
(***************************************************************************)
(* components/memo_service/memo_service.c: memos a user dictates, kept in   *)
(* an array that is stored with the device's parameters, and spoken when    *)
(* their time comes.                                                        *)
(*                                                                          *)
(* Two tasks share the handle without a lock.  free_talk's task, in         *)
(* get_memo_result, hands one memo over in memo_event and memo_status.  The *)
(* memo task handles messages and, each second, does what memo_status says: *)
(* asks for the time, adds the memo handed over, or looks which are due.    *)
(*                                                                          *)
(* A unit of time is 30 seconds.  The clock starts at 0 and is wrong until  *)
(* the server was asked.  External: the server, speech, the link.           *)
(***************************************************************************)
EXTENDS DeviceParams, Integers, Sequences, FiniteSets

CONSTANTS
  Memo, Other,       \* the memo task, and one that sets `user`
  MEMO_EVEVT_MAX,    \* memos in the array
  MaxRemind,         \* how often a memo is spoken: 20
  Delays,            \* what executeTimeParseSecond may be
  Epoch,             \* the true time when the device is first started
  MayMix,            \* TRUE: steps are taken after two memos were mixed up
  MaxTicks,          \* bound: units of time that pass
  MaxMemos,          \* bound: memos, the first of which is stored at the start
  Bounds             \* bounds: what is left of each at the start, see BoundsAssumption

NoText == 0
Texts == NoText..MaxMemos      \* a memo's text names it
Times == 0..Epoch + 2 * MaxTicks + 1
Event == [time : Times, str : Texts]
NoEvent == [time |-> 0, str |-> NoText]
Slots == 1..MEMO_EVEVT_MAX
MemoArrays == [current : 0..MEMO_EVEVT_MAX, event : [Slots -> Event]]
EmptyArray == [current |-> 0, event |-> [n \in Slots |-> NoEvent]]
FirstMemo == [time |-> Epoch + 1, str |-> 1]
FirstArray == [current |-> 1, event |-> [n \in Slots |-> IF n = 1 THEN FirstMemo ELSE NoEvent]]
FirstParams == [user |-> NoUser, ota |-> Formal, memos |-> FirstArray]

ASSUME MemoAssumption ==
  /\ Tasks = {Memo, Other, Terminal} /\ Memo # Terminal /\ Other # Terminal
  /\ Arrays = MemoArrays /\ NoMemos = EmptyArray
  /\ MEMO_EVEVT_MAX \in Nat \ {0} /\ MaxRemind \in Nat \ {0, 1}
  /\ Delays \subseteq 0..MaxTicks /\ Epoch \in Nat /\ Epoch > MaxTicks
  /\ MayMix \in BOOLEAN /\ MaxMemos \in Nat \ {0} /\ MaxTicks \in Nat

ASSUME BoundsAssumption ==
  Bounds \subseteq [memos : 0..MaxMemos - 1, flaps : Nat, cancels : Nat, faults : Nat, sets : Nat]

VARIABLES
  clock,         \* time(NULL)
  real,          \* the true time
  online,        \* the link
  msgs,          \* messages the memo task has to handle
  memo_status, memo_event, memo_array,    \* fields of memo_struct_handle
  content, remind_count,                  \* memo_content, memo_remind_count
  pc, num,       \* the memo task, and the slot memo_event_handle is at
  time_sec,      \* its local copy of the time
  talk,          \* free_talk's task in get_memo_result
  exe_time,      \* its local variable
  due,           \* observer: times of the memos the user was told were added and
                 \* that were not yet spoken, expired or overwritten; else 0
  lost,          \* observer: those of them that were dropped (see Drop)
  mixed,         \* observer: one was dictated while another was handed over
  left           \* bounds: memos dictated, connections, keys that end a reminder, power
                 \* cuts and failures of the flash, and settings of others to come

shared == <<memo_status, memo_event>>
memoVars == <<memo_array, content, remind_count, pc, num, time_sec>>
talkVars == <<talk, exe_time>>
world == <<clock, real, online, msgs>>
observers == <<due, lost, mixed>>
vars == <<paramVars, shared, memoVars, talkVars, world, observers, left>>

Left == [memos : 0..MaxMemos, flaps : Nat, cancels : Nat, faults : Nat, sets : Nat]

Memos == 1..MaxMemos
Dictated == MaxMemos - left.memos     \* the memo dictated last

Used(a) == {n \in Slots : a.event[n].time # 0}
Entries(a) == {a.event[n] : n \in Used(a)}
Told == {m \in Memos : due[m] # 0}
AsTold(m) == [time |-> due[m], str |-> m]
Handed == IF memo_status = "ADD" THEN {memo_event.str} ELSE {}
Adding == pc \in {"clear", "store", "added"}

TypeOK ==
  /\ ParamTypeOK
  /\ clock \in Times /\ real \in Times /\ online \in BOOLEAN
  /\ msgs \in Seq({"connected", "disconnected", "cancel"})
  /\ memo_status \in {"IDLE", "INIT", "ADD", "LOOP"}
  /\ memo_event \in Event /\ memo_array \in MemoArrays
  /\ content \in Texts /\ remind_count \in 0..MaxRemind
  /\ pc \in {"wait", "clock", "load", "clear", "store", "added", "scan", "stored", "remind"}
  /\ num \in Slots /\ time_sec \in Times
  /\ talk \in {"idle", "outdated", "told", "time"} /\ exe_time \in Times
  /\ due \in [Memos -> Times] /\ lost \subseteq Memos /\ mixed \in BOOLEAN
  /\ left \in Left

\* memo_service_create zeroes the structure.
Restarted ==
  /\ clock' = 0 /\ online' = FALSE /\ msgs' = <<>>
  /\ memo_status' = "IDLE" /\ memo_event' = NoEvent /\ memo_array' = EmptyArray
  /\ content' = NoText /\ remind_count' = 0
  /\ pc' = "wait" /\ num' = 1 /\ time_sec' = 0
  /\ talk' = "idle" /\ exe_time' = 0

Init ==
  /\ ParamInit(FirstParams)
  /\ clock = 0 /\ real = Epoch /\ online = FALSE /\ msgs = <<>>
  /\ memo_status = "IDLE" /\ memo_event = NoEvent /\ memo_array = EmptyArray
  /\ content = NoText /\ remind_count = 0
  /\ pc = "wait" /\ num = 1 /\ time_sec = 0
  /\ talk = "idle" /\ exe_time = 0
  /\ due = [m \in Memos |-> IF m = 1 THEN FirstMemo.time ELSE 0] /\ lost = {} /\ mixed = FALSE
  /\ left \in Bounds

Spend(b) == left[b] > 0 /\ left' = [left EXCEPT ![b] = @ - 1]

---------------------------------------------------------------------------
(* get_memo_result, in free_talk's task. *)

\* The answer is parsed: the text is written as it is met.
GetText ==
  /\ talk = "idle"
  /\ Spend("memos")
  /\ \E d \in Delays : exe_time' = clock + d + 1
  /\ memo_event' = [memo_event EXCEPT !.str = Dictated']
  /\ talk' \in {"told", "outdated"}
  /\ mixed' = (mixed \/ memo_status = "ADD" \/ Adding)
  /\ UNCHANGED <<paramVars, memo_status, memoVars, world, due, lost>>

\* eventType is outDateError.
Outdated ==
  /\ talk = "outdated" /\ talk' = "idle" /\ exe_time' = 0
  /\ memo_event' = [memo_event EXCEPT !.str = NoText]
  /\ UNCHANGED <<paramVars, memo_status, memoVars, world, observers, left>>

\* The user has been told, and two seconds have passed.
SetTime ==
  /\ talk = "told" /\ talk' = "time"
  /\ memo_event' = [memo_event EXCEPT !.time = exe_time]
  /\ UNCHANGED <<paramVars, memo_status, memoVars, exe_time, world, observers, left>>

SetStatus ==
  /\ talk = "time" /\ talk' = "idle" /\ exe_time' = 0
  /\ memo_status' = "ADD"
  /\ due' = [due EXCEPT ![Dictated] = exe_time]
  /\ UNCHANGED <<paramVars, memo_event, memoVars, world, lost, mixed, left>>

GetMemoResult == GetText \/ Outdated \/ SetTime \/ SetStatus

---------------------------------------------------------------------------
(* The memo task. *)

Drop(S) == lost' = lost \cup (S \cap Memos)

\* Messages of wifi_manage, the keyboard and free_talk.
Message ==
  /\ pc = "wait" /\ msgs # <<>> /\ msgs' = Tail(msgs)
  /\ CASE Head(msgs) = "connected" ->
            memo_status' = "INIT" /\ Drop(Handed) /\ UNCHANGED content
       [] Head(msgs) = "disconnected" ->
            /\ memo_status' = IF memo_status = "INIT" THEN "IDLE" ELSE memo_status
            /\ UNCHANGED <<lost, content>>
       [] OTHER -> content' = NoText /\ UNCHANGED <<memo_status, lost>>
  /\ UNCHANGED <<paramVars, memo_event, memo_array, remind_count, pc, num, time_sec,
                 talkVars, clock, real, online, due, mixed, left>>

Still == UNCHANGED <<paramVars, shared, memo_array, content, remind_count, talkVars,
                     world, observers, left>>

\* init_clock: the server is asked; it may not answer.
AskTime ==
  /\ pc = "wait" /\ memo_status = "INIT" /\ pc' = "clock"
  /\ UNCHANGED <<num, time_sec>> /\ Still

NoTime ==
  /\ pc = "clock" /\ pc' = "wait"
  /\ UNCHANGED <<num, time_sec>> /\ Still

\* settimeofday
SetClock ==
  /\ pc = "clock" /\ online /\ pc' = "load"
  /\ clock' = real
  /\ UNCHANGED <<paramVars, shared, memo_array, content, remind_count, num, time_sec,
                 talkVars, real, online, msgs, observers, left>>

\* get_flash_cfg; a memo handed over meanwhile loses its MEMO_ADD.
Load ==
  /\ pc = "load" /\ lock = Nobody /\ pc' = "wait"
  /\ memo_array' = params.memos
  /\ memo_status' = IF memo_array'.current > 0 THEN "LOOP" ELSE "IDLE"
  /\ Drop(Handed)
  /\ UNCHANGED <<paramVars, memo_event, content, remind_count, num, time_sec, talkVars,
                 world, due, mixed, left>>

\* The slot add_memo takes of a full array: where the smallest time is below
\* time_min, which starts at 0.
Overwritten(a) ==
  LET time_min == 0
      below == {n \in Slots : a.event[n].time < time_min}
  IN IF below = {} THEN 1
     ELSE CHOOSE n \in below : \A k \in below : a.event[n].time <= a.event[k].time

FirstFree(a) == CHOOSE n \in Slots : /\ a.event[n].time = 0
                                     /\ \A k \in 1..n - 1 : a.event[k].time # 0

Forget(S) == due' = [m \in Memos |-> IF m \in S THEN 0 ELSE due[m]]

\* A memo added before the array was read replaces what is stored.
Unread == {e.str : e \in Entries(params.memos) \ Entries(memo_array)}

\* add_memo: the memo goes into the array ...
AddToArray ==
  /\ pc = "wait" /\ memo_status = "ADD"
  /\ \/ /\ memo_array.current >= MEMO_EVEVT_MAX
        /\ LET n == Overwritten(memo_array) IN
             /\ memo_array' = [memo_array EXCEPT !.event[n] = memo_event]
             /\ Forget({memo_array.event[n].str})
     \/ /\ memo_array.current < MEMO_EVEVT_MAX
        /\ memo_array' = [current |-> memo_array.current + 1,
                          event |-> [memo_array.event EXCEPT ![FirstFree(memo_array)] = memo_event]]
        /\ UNCHANGED due
  /\ pc' = "clear"
  /\ Drop(Unread)
  /\ UNCHANGED <<paramVars, shared, content, remind_count, num, time_sec, talkVars,
                 world, mixed, left>>

\* ... memo_event is zeroed ...
ClearEvent ==
  /\ pc = "clear" /\ pc' = "store"
  /\ memo_event' = NoEvent
  /\ UNCHANGED <<paramVars, memo_status, memo_array, content, remind_count, num, time_sec,
                 talkVars, world, observers, left>>

\* ... and the array stored.
StoreAdded ==
  /\ pc = "store" /\ pc' = "added"
  /\ SetMemos(Memo, memo_array)
  /\ UNCHANGED <<shared, memo_array, content, remind_count, num, time_sec, talkVars,
                 world, observers, left>>

Added ==
  /\ pc = "added" /\ ~Busy(Memo) /\ pc' = "wait"
  /\ memo_status' = "LOOP"
  /\ UNCHANGED <<paramVars, memo_event, memo_array, content, remind_count, num, time_sec,
                 talkVars, world, observers, left>>

\* memo_event_handle
StartScan ==
  /\ pc = "wait" /\ memo_status = "LOOP" /\ pc' = "scan"
  /\ time_sec' = clock /\ num' = 1
  /\ Still

Current == memo_array.event[num]
EndScan == pc' = "remind" /\ num' = 1 /\ time_sec' = 0
NextSlot == IF num = MEMO_EVEVT_MAX THEN EndScan
              ELSE pc' = "scan" /\ num' = num + 1 /\ UNCHANGED time_sec

\* Variant: a memo is cleared, and the count forgotten.
RemoveSlot_Uncounted ==
  /\ memo_array' = [memo_array EXCEPT !.event[num] = NoEvent]
  /\ SetMemos(Memo, memo_array')
  /\ Forget({Current.str})
  /\ pc' = "stored"
  /\ UNCHANGED <<num, shared, time_sec, talkVars, world, lost, mixed, left>>

\* The memo of this slot is cleared and the array stored.
RemoveSlot ==
  /\ memo_array' = [current |-> memo_array.current - 1,
                    event |-> [memo_array.event EXCEPT ![num] = NoEvent]]
  /\ SetMemos(Memo, memo_array')
  /\ Forget({Current.str})
  /\ pc' = "stored"
  /\ UNCHANGED <<num, shared, time_sec, talkVars, world, lost, mixed, left>>

Skip ==
  /\ pc = "scan"
  /\ \/ Current.time = 0
     \/ Current.time = time_sec - 1 \/ Current.time > time_sec
  /\ NextSlot
  /\ Still

Expire ==
  /\ pc = "scan" /\ Current.time # 0 /\ Current.time < time_sec - 1
  /\ RemoveSlot
  /\ UNCHANGED <<content, remind_count>>

\* Variant: a memo is spoken whenever its time has come, however long ago.
Speak_Late ==
  /\ pc = "scan" /\ Current.time # 0 /\ Current.time <= time_sec
  /\ RemoveSlot
  /\ content' = Current.str /\ remind_count' = 1

Speak ==
  /\ pc = "scan" /\ Current.time # 0 /\ Current.time = time_sec
  /\ RemoveSlot
  /\ content' = Current.str /\ remind_count' = 1

Stored ==
  /\ pc = "stored" /\ ~Busy(Memo)
  /\ IF memo_array.current = 0 THEN EndScan ELSE NextSlot
  /\ Still

\* What was spoken is spoken again every six seconds, until it has been
\* MaxRemind times.
Remind ==
  /\ pc = "remind" /\ pc' = "wait"
  /\ \/ UNCHANGED <<content, remind_count>>
     \/ /\ content # NoText
        /\ remind_count' = remind_count + 1
        /\ content' = IF remind_count' = MaxRemind THEN NoText ELSE content
  /\ UNCHANGED <<paramVars, shared, memo_array, num, time_sec, talkVars, world,
                 observers, left>>

MemoTask == Message \/ AskTime \/ Load \/ AddToArray \/ ClearEvent \/ StoreAdded
            \/ Added \/ StartScan \/ Skip \/ Expire \/ Speak \/ Stored \/ Remind

---------------------------------------------------------------------------
(* The rest of the device, and the world. *)

Rest == UNCHANGED <<shared, memoVars, talkVars>>

Tick == /\ real < Epoch + MaxTicks
        /\ real' = real + 1 /\ clock' = clock + 1
        /\ Rest /\ UNCHANGED <<paramVars, online, msgs, observers, left>>

Connect == /\ ~online /\ online' = TRUE /\ Spend("flaps")
           /\ msgs' = Append(msgs, "connected")
           /\ Rest /\ UNCHANGED <<paramVars, clock, real, observers>>

Disconnect == /\ online /\ online' = FALSE
              /\ msgs' = Append(msgs, "disconnected")
              /\ Rest /\ UNCHANGED <<paramVars, clock, real, observers, left>>

Cancel == /\ Spend("cancels") /\ content # NoText
          /\ msgs' = Append(msgs, "cancel")
          /\ Rest /\ UNCHANGED <<paramVars, clock, real, online, observers>>

Flash == /\ \E t \in Callers : FlashStep(t)
         /\ Rest /\ UNCHANGED <<world, observers, left>>

FlashFault == /\ \E t \in Callers : FlashFails(t)
              /\ Spend("faults")
              /\ Rest /\ UNCHANGED <<world, observers>>

\* Settings others change; a reset to the factory's drops the memos.
Settings == /\ \/ /\ \/ \E v \in Users : SetUser(Other, v)
                     \/ SetOta(Terminal, Test)
                  /\ UNCHANGED lost
               \/ SetDefault /\ Drop(Told)
            /\ Spend("sets")
            /\ Rest /\ UNCHANGED <<world, due, mixed>>

\* A setting that memory has is set again.
SameSetting == /\ \/ \E v \in Users : SetAgain(Other, "user", v)
                  \/ SetAgain(Terminal, "ota", Test)
               /\ Rest /\ UNCHANGED <<world, observers, left>>

\* After a restart the memos there are, are those that are stored.
Restart == /\ PowerCut
           /\ Spend("faults")
           /\ Restarted /\ UNCHANGED real
           /\ due' = [m \in Memos |->
                        IF m \in {e.str : e \in Entries(params'.memos)}
                          THEN (CHOOSE e \in Entries(params'.memos) : e.str = m).time ELSE 0]
           /\ lost' = {} /\ UNCHANGED mixed

\* What the array holds after two dictations overlapped is a text of the one
\* with the time of the other: without MayMix nothing is looked at after that.
Next ==
  /\ MayMix \/ ~mixed
  /\ \/ /\ Started
        /\ GetMemoResult \/ MemoTask \/ NoTime \/ SetClock
           \/ Connect \/ Disconnect \/ Cancel \/ Settings \/ SameSetting
     \/ Tick \/ Flash \/ FlashFault \/ Restart

Spec == Init /\ [][Next]_vars

---------------------------------------------------------------------------
(* Properties. *)

\* A memo the user was told was added is handed over or in the array, its text
\* with its own time, and the array holds nothing else: until it is spoken, has
\* expired or is overwritten, or was dropped in one of the ways at Drop, or one
\* was dictated before the last had been taken.
MemoIsKept ==
  ~mixed =>
    /\ \A m \in Told \ lost :
         \/ memo_status = "ADD" /\ memo_event = AsTold(m)
         \/ AsTold(m) \in Entries(memo_array) \cup Entries(params.memos)
    /\ \A e \in Entries(memo_array) : e = AsTold(e.str)

\* The number of memos is the number of slots in use: a wrong one would leave
\* memos unspoken or slots unused for ever.
CountIsRight ==
  ~mixed => memo_array.current = Cardinality(Used(memo_array))

\* What keeps the types: an array never has more slots in use than memos, even
\* when two were mixed up; the clock is never ahead of the true time; and what
\* is spoken has been spoken less often than it may be.
Counted == {a \in MemoArrays : Cardinality(Used(a)) <= a.current}

DataInv ==
  /\ TypeOK
  /\ {memo_array, params.memos} \subseteq Counted
  /\ CrcAgrees(image) => image.memos \in Counted
  /\ clock <= real /\ real <= Epoch + MaxTicks
  /\ content # NoText => remind_count < MaxRemind

\* What is spoken first is a memo of this time that was not spoken yet.
SpokenInTime ==
  [][content' \notin {NoText, content} /\ ~mixed => due[content'] = time_sec]_vars

\* With the link up and nothing left to handle, a task that is idle has no memo
\* to look after.
IdleHasNone ==
  online /\ msgs = <<>> /\ pc = "wait" /\ memo_status = "IDLE" => memo_array.current = 0

\* What the user was told is kept is what the device holds, counts and looks after.
MemosAreRight == TypeOK /\ MemoIsKept /\ CountIsRight /\ IdleHasNone

\* Why it is so while no two memos were mixed up.  A memo is handed over whole
\* and is a new one, and the memo task has none of another's in hand meanwhile.
HandOver ==
  /\ Dictated \in Memos /\ \A m \in Memos : m > Dictated => due[m] = 0
  /\ talk # "idle" => memo_status # "ADD" /\ ~Adding
  /\ talk \in {"told", "time"} =>
       memo_event.str = Dictated /\ exe_time # 0 /\ due[Dictated] = 0
  /\ talk = "time" => memo_event.time = exe_time
  /\ memo_status = "ADD" /\ ~Adding =>
       /\ memo_event.str \in Told /\ memo_event = AsTold(memo_event.str)
       /\ \A e \in Entries(memo_array) : e.str # memo_event.str

\* An array of memos dictated up to d counts them, and each has one slot.
Sound(a, d) ==
  /\ a.current = Cardinality(Used(a))
  /\ \A n \in Used(a) : a.event[n].str \in 1..d
  /\ \A n, k \in Used(a) : a.event[n].str = a.event[k].str => n = k

ArraysSound ==
  /\ Sound(memo_array, Dictated) /\ Sound(params.memos, Dictated)
  /\ CrcAgrees(image) => Sound(image.memos, Dictated)

\* The store is behind from the change of the array to its save.
Behind == pc \in {"clear", "store"}

\* A task that looks for memos that are due has all that are stored.
LooksAfter == pc \in {"added", "scan", "stored", "remind"} \/ (pc = "wait" /\ memo_status = "LOOP")

AllAsTold(a) == \A e \in Entries(a) : e.str \in Told /\ e = AsTold(e.str)

\* The array and the store hold what was told, and nothing else.
ArraysAsTold ==
  /\ AllAsTold(memo_array)
  /\ ~Behind => AllAsTold(params.memos)
  /\ LooksAfter => Entries(params.memos) \subseteq Entries(memo_array)
  /\ pc \in {"clock", "load"} => memo_status # "LOOP"
  /\ \A m \in Told \ lost :
       \/ Behind /\ AsTold(m) \in Entries(memo_array)
       \/ ~Adding /\ memo_status = "ADD" /\ memo_event = AsTold(m)
       \/ ~Behind /\ AsTold(m) \in Entries(params.memos)

\* What a task that is idle has to wait for: the message that the link is up is
\* still to come when there are memos, and the last one there says so.
LinkInv ==
  /\ online => \A j \in DOMAIN msgs : msgs[j] = "disconnected" =>
                 \E i \in DOMAIN msgs : i > j /\ msgs[i] = "connected"
  /\ memo_status = "IDLE" /\ memo_array.current # 0 /\ online =>
       \E i \in DOMAIN msgs : msgs[i] = "connected"

MemoInv == (~mixed => HandOver /\ ArraysSound /\ ArraysAsTold) /\ LinkInv

=============================================================================
