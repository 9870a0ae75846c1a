---------------------------- MODULE AipRecorder ----------------------------
(***************************************************************************)
(* components/AIP/aip_interface.c, built with AMC_AIP_SHARED_DATA == 1: the *)
(* recording service shared by the keyword wakeup, free talk, wechat and    *)
(* record playback.  A client is a callback; aip_start_record() numbers a   *)
(* session and sends it to the AIP task, which keeps the open sessions in   *)
(* record_queue and gives each frame of PCM to each of them in turn.  A     *)
(* session ends by its length, by aip_stop_record() or by a new session of  *)
(* the same callback, and the callback is told so by a negative record_id.  *)
(*                                                                          *)
(* A session's number stands for the address of its AIP_RECORD_PARAMS_t.    *)
(* msg_queue is what AppFramework delivers: what a client sends arrives in  *)
(* order, or not at all.  Callbacks run in the AIP task, so handling one    *)
(* message is a step; the loop over the recorders has a step per callback.  *)
(***************************************************************************)
EXTENDS Integers, Sequences, FiniteSets, Queues

CONSTANTS
  Callbacks,      \* the functions registered by the clients
  MaxMs,          \* record_max_ms each client asks for
  FrameMs,        \* the durations audio_record_read may return
  None,           \* the null pointer
  MaxSn,          \* bound: number of sessions
  MaxQueue,       \* bound: messages waiting for the AIP task
  MayFail         \* TRUE: malloc, the bus and the audio driver may fail

Sn == 1..MaxSn

ASSUME ClientsAssumption == MaxMs \in [Callbacks -> Nat \ {0}]
ASSUME FramesAssumption == FrameMs \subseteq Nat \ {0}
ASSUME SnAssumption == MaxSn \in Nat /\ None \notin Sn
ASSUME QueueAssumption == MaxQueue \in Nat /\ MayFail \in BOOLEAN

VARIABLES
  record_sn,      \* the last number given to a session
  calling,        \* numbers a client has taken and not yet sent
  msg_queue,      \* START and STOP messages on their way to the AIP task
  record_queue,   \* the open sessions, first to last
  cb,             \* AIP_RECORD_PARAMS_t.cb of each session
  record_id,      \* rec_result.record_id
  record_ms,      \* rec_result.record_ms
  rec_status,     \* state of the audio driver
  rec_obj,        \* the loop's cursor over record_queue
  pc,             \* "idle", "frame" or "check" in the body of that loop
  len,            \* milliseconds of audio in the frame
  heard,          \* observer: the last record_id a session's callback got
  due             \* observer: sessions the current frame is still owed to

vars == <<record_sn, calling, msg_queue, record_queue, cb, record_id, record_ms,
          rec_status, rec_obj, pc, len, heard, due>>
callVars == <<record_sn, calling>>
objVars  == <<record_queue, cb, record_id, record_ms, heard>>
walkVars == <<rec_status, rec_obj, pc, len, due>>

Init ==
  /\ record_sn = 0
  /\ calling = [c \in Callbacks |-> {}]
  /\ msg_queue = << >>
  /\ record_queue = << >>
  /\ cb = [s \in Sn |-> None]
  /\ record_id = [s \in Sn |-> 0]
  /\ record_ms = [s \in Sn |-> 0]
  /\ rec_status = "IDLE"
  /\ rec_obj = None
  /\ pc = "idle"
  /\ len = 0
  /\ heard = [s \in Sn |-> 0]
  /\ due = {}

-----------------------------------------------------------------------------
(* The clients.  A client's calls come from one task at a time: keyboard    *)
(* for wechat and playback, its own for the wakeup, and free talk keeps its *)
(* lock during aip_start_record.                                            *)

Message(type, c, s) == [type |-> type, cb |-> c, sn |-> s]

\* aip_start_record: take a number under mutex_lock
StartRecord(c) ==
  /\ calling[c] = {}
  /\ record_sn < MaxSn
  /\ record_sn' = record_sn + 1
  /\ calling' = [calling EXCEPT ![c] = @ \cup {record_sn + 1}]
  /\ UNCHANGED <<msg_queue, objVars, walkVars>>

\* app_send_message after the unlock
SendStart(c) ==
  \E s \in calling[c] :
    /\ Len(msg_queue) < MaxQueue
    /\ calling' = [calling EXCEPT ![c] = @ \ {s}]
    /\ msg_queue' = Append(msg_queue, Message("start", c, s))
    /\ UNCHANGED <<record_sn, objVars, walkVars>>

\* the same, when app_send_message fails or the bus drops the copy
SendStartLost(c) ==
  \E s \in calling[c] :
    /\ MayFail
    /\ calling' = [calling EXCEPT ![c] = @ \ {s}]
    /\ UNCHANGED <<record_sn, msg_queue, objVars, walkVars>>

\* aip_stop_record
StopRecord(c) ==
  /\ calling[c] = {}
  /\ Len(msg_queue) < MaxQueue
  /\ msg_queue' = Append(msg_queue, Message("stop", c, None))
  /\ UNCHANGED <<callVars, objVars, walkVars>>

-----------------------------------------------------------------------------
(* aip_event_callback                                                       *)

\* Variant: the sign is changed and the number not advanced.
LastId_Repeated(s) == -record_id[s]

\* record_id++; record_id *= -1
LastId(s) == -(record_id[s] + 1)

\* index of the first open session of a callback, if there is one
OpenOf(c) == {i \in 1..Len(record_queue) : cb[record_queue[i]] = c}
FirstOpen(c) == CHOOSE i \in OpenOf(c) : \A j \in OpenOf(c) : i <= j

\* record_queue and the ids, after the first open session of c was told of
\* its end, unlinked and freed
Closed(c) ==
  IF OpenOf(c) = {}
    THEN [queue |-> record_queue, id |-> record_id]
    ELSE LET i == FirstOpen(c)
             s == record_queue[i]
         IN  [queue |-> WithoutAt(record_queue, i),
              id |-> [record_id EXCEPT ![s] = LastId(s)]]

\* what the callbacks of that end have heard
HeardClosed(c) ==
  IF OpenOf(c) = {}
    THEN heard
    ELSE LET s == record_queue[FirstOpen(c)] IN [heard EXCEPT ![s] = LastId(s)]

\* Variant: the earlier session of the callback is left running.
OnStart_KeepOld ==
  /\ pc = "idle"
  /\ msg_queue # << >> /\ Head(msg_queue).type = "start"
  /\ LET m == Head(msg_queue)
     IN  /\ record_queue' = Append(record_queue, m.sn)
         /\ cb' = [cb EXCEPT ![m.sn] = m.cb]
         /\ UNCHANGED <<record_id, heard>>
  /\ msg_queue' = Tail(msg_queue)
  /\ UNCHANGED <<callVars, record_ms, walkVars>>

\* APP_EVENT_AIP_START_RECORD
OnStart ==
  /\ pc = "idle"
  /\ msg_queue # << >> /\ Head(msg_queue).type = "start"
  /\ LET m == Head(msg_queue)
     IN  /\ record_queue' = Append(Closed(m.cb).queue, m.sn)
         /\ record_id' = Closed(m.cb).id
         /\ heard' = HeardClosed(m.cb)
         /\ cb' = [cb EXCEPT ![m.sn] = m.cb]
  /\ msg_queue' = Tail(msg_queue)
  /\ UNCHANGED <<callVars, record_ms, walkVars>>

\* the same, when rec_queue_obj_new fails
OnStartFail ==
  /\ MayFail
  /\ pc = "idle"
  /\ msg_queue # << >> /\ Head(msg_queue).type = "start"
  /\ msg_queue' = Tail(msg_queue)
  /\ UNCHANGED <<callVars, objVars, walkVars>>

\* Variant: the session is unlinked and its callback not told.
OnStop_Silent ==
  /\ pc = "idle"
  /\ msg_queue # << >> /\ Head(msg_queue).type = "stop"
  /\ record_queue' = Closed(Head(msg_queue).cb).queue
  /\ msg_queue' = Tail(msg_queue)
  /\ UNCHANGED <<callVars, cb, record_id, record_ms, heard, walkVars>>

\* APP_EVENT_AIP_STOP_RECORD
OnStop ==
  /\ pc = "idle"
  /\ msg_queue # << >> /\ Head(msg_queue).type = "stop"
  /\ LET m == Head(msg_queue)
     IN  /\ record_queue' = Closed(m.cb).queue
         /\ record_id' = Closed(m.cb).id
         /\ heard' = HeardClosed(m.cb)
  /\ msg_queue' = Tail(msg_queue)
  /\ UNCHANGED <<callVars, cb, record_ms, walkVars>>

-----------------------------------------------------------------------------
(* aip_record_process, on APP_EVENT_DEFAULT_LOOP_TIMEOUT                    *)

ProcessIdle ==
  /\ pc = "idle" /\ rec_status = "IDLE"
  /\ rec_status' = "START"
  /\ UNCHANGED <<callVars, msg_queue, objVars, rec_obj, pc, len, due>>

\* audio_record_start; a failure is tried again at the next timeout
ProcessStart ==
  /\ pc = "idle" /\ rec_status = "START"
  /\ rec_status' = "READING"
  /\ UNCHANGED <<callVars, msg_queue, objVars, rec_obj, pc, len, due>>

\* audio_record_read returned a frame: TAILQ_FOREACH begins
ReadFrame ==
  /\ pc = "idle" /\ rec_status = "READING"
  /\ len' \in FrameMs
  /\ rec_obj' = FirstOf(record_queue, None)
  /\ pc' = IF record_queue = << >> THEN "idle" ELSE "frame"
  /\ due' = Elems(record_queue)
  /\ UNCHANGED <<callVars, msg_queue, objVars, rec_status>>

ReadNothing ==
  /\ MayFail
  /\ pc = "idle" /\ rec_status = "READING"
  /\ rec_status' = "STOP"
  /\ UNCHANGED <<callVars, msg_queue, objVars, rec_obj, pc, len, due>>

ProcessStop ==
  /\ pc = "idle" /\ rec_status = "STOP"
  /\ rec_status' = "IDLE"
  /\ UNCHANGED <<callVars, msg_queue, objVars, rec_obj, pc, len, due>>

\* the frame is given to the cursor's session
GiveFrame ==
  /\ pc = "frame"
  /\ record_id' = [record_id EXCEPT ![rec_obj] = @ + 1]
  /\ record_ms' = [record_ms EXCEPT ![rec_obj] = @ + len]
  /\ heard' = [heard EXCEPT ![rec_obj] = record_id'[rec_obj]]
  /\ pc' = "check"
  /\ due' = due \ {rec_obj}
  /\ UNCHANGED <<callVars, msg_queue, record_queue, cb, rec_status, rec_obj, len>>

\* the cursor moves to x: the next body of the loop, or its end
GoTo(x) == rec_obj' = x /\ pc' = IF x = None THEN "idle" ELSE "frame"

LongEnough == record_ms[rec_obj] >= MaxMs[cb[rec_obj]]

GoOn ==
  /\ pc = "check"
  /\ ~LongEnough
  /\ GoTo(NextOf(record_queue, rec_obj, None))
  /\ UNCHANGED <<callVars, msg_queue, objVars, rec_status, len, due>>

\* TAILQ_PREV taken before the removal; NULL leaves the loop, otherwise
\* TAILQ_FOREACH steps from it to what followed the session
AfterFinish(i) ==
  IF i = 1 \/ i = Len(record_queue) THEN None ELSE record_queue[i + 1]

\* record_max_ms is reached: last callback, unlink and free
Finish ==
  /\ pc = "check"
  /\ LongEnough
  /\ record_id' = [record_id EXCEPT ![rec_obj] = LastId(rec_obj)]
  /\ heard' = [heard EXCEPT ![rec_obj] = LastId(rec_obj)]
  /\ \E i \in 1..Len(record_queue) :
       /\ record_queue[i] = rec_obj
       /\ record_queue' = WithoutAt(record_queue, i)
       /\ GoTo(AfterFinish(i))
  /\ UNCHANGED <<callVars, msg_queue, cb, record_ms, rec_status, len, due>>

-----------------------------------------------------------------------------
Client(c) == StartRecord(c) \/ SendStart(c) \/ SendStartLost(c) \/ StopRecord(c)

Receive == OnStart \/ OnStartFail \/ OnStop

Process == ProcessIdle \/ ProcessStart \/ ReadFrame \/ ReadNothing \/ ProcessStop
             \/ GiveFrame \/ GoOn \/ Finish

Next == (\E c \in Callbacks : Client(c)) \/ Receive \/ Process

Spec == Init /\ [][Next]_vars

\* app_msg_dispatch takes one message and then looks at the timeout, so the
\* AIP task neither stops reading messages nor stops recording.  Receive is
\* enabled again and again, between two frames, and not during one; the driver
\* may fail, but not every time it is asked for a frame.
FairSpec == Spec /\ SF_vars(Receive) /\ WF_vars(Process) /\ SF_vars(ReadFrame)

-----------------------------------------------------------------------------
(* Properties                                                               *)

Messages == [type : {"start"}, cb : Callbacks, sn : Sn]
              \cup [type : {"stop"}, cb : Callbacks, sn : {None}]

\* Type invariant.
TypeOK ==
  /\ record_sn \in 0..MaxSn
  /\ calling \in [Callbacks -> SUBSET Sn]
  /\ msg_queue \in Seq(Messages)
  /\ record_queue \in Seq(Sn)
  /\ cb \in [Sn -> Callbacks \cup {None}]
  /\ record_id \in [Sn -> Int]
  /\ record_ms \in [Sn -> Nat]
  /\ rec_status \in {"IDLE", "START", "READING", "STOP"}
  /\ rec_obj \in Sn \cup {None}
  /\ pc \in {"idle", "frame", "check"}
  /\ len \in Nat
  /\ heard \in [Sn -> Int]
  /\ due \subseteq Sn

\* The messages of aip_start_record not handled yet, and the numbers taken
Sending(s) == \/ \E c \in Callbacks : s \in calling[c]
              \/ \E i \in 1..Len(msg_queue) : msg_queue[i].sn = s

\* The loop of aip_record_process, which frees elements of the list it walks,
\* never stands on a freed session.
CursorIsOpen == /\ pc # "idle" <=> rec_obj # None
                /\ rec_obj # None => rec_obj \in Elems(record_queue)

\* An open session has been told of its frames and not of an end; one that is
\* not in the queue any more was told of its end exactly when it had begun:
\* no session disappears without its last callback.
EndIsTold ==
  \A s \in Sn : /\ s \in Elems(record_queue) => heard[s] = record_id[s] /\ heard[s] >= 0
                /\ heard[s] > 0 => s \in Elems(record_queue)
                /\ heard[s] # 0 => ~Sending(s)

\* A callback sees the frames of a session as 1, 2, 3..., then, once, the
\* negative number that follows, and nothing afterwards, whichever of the three
\* ways the session ends in; and a frame that was read goes to every session that
\* was open then, unless the one at the head of the queue ended in it.
CallbackProtocol ==
  [][/\ \A s \in Sn : heard'[s] # heard[s] =>
          heard[s] >= 0 /\ heard'[s] \in {heard[s] + 1, -(heard[s] + 1)}
     /\ pc # "idle" /\ pc' = "idle" =>
          due = {} \/ (rec_obj = Head(record_queue) /\ heard'[rec_obj] < 0)]_vars

\* A callback has one open session at most, and it is the youngest of those
\* whose START has arrived: the sessions of a client that waits to be served
\* are all younger than the one it is recording.
OneSessionEach ==
  /\ NoRepeat(record_queue)
  /\ \A i, j \in 1..Len(record_queue) :
        cb[record_queue[i]] = cb[record_queue[j]] => i = j
  /\ \A i \in 1..Len(record_queue) : \A k \in 1..Len(msg_queue) :
        /\ msg_queue[k].type = "start"
        /\ msg_queue[k].cb = cb[record_queue[i]]
        => msg_queue[k].sn > record_queue[i]

\* A session never runs on beyond its length: only the frame that reaches
\* record_max_ms passes it, and the callback in which it does is followed by
\* the end of that session before any other frame is read.
LengthIsKept ==
  \A i \in 1..Len(record_queue) :
     LET s == record_queue[i]
     IN  record_ms[s] >= MaxMs[cb[s]] => pc = "check" /\ rec_obj = s

\* The queue of sessions stays sound while the loop frees what it stands on and starts
\* arrive in another order than their numbers: a client's youngest session is open,
\* for its length and no longer, and none that had begun disappears untold.
SessionsAreSound == TypeOK /\ CursorIsOpen /\ OneSessionEach /\ LengthIsKept /\ EndIsTold

\* Why it is so: a number is in one place on its way to record_queue, and nothing was
\* recorded under it before it got there; what a client sends arrives in the order of
\* its numbers; and what a frame is still owed to comes after the cursor.
OneWay ==
  /\ \A c, d \in Callbacks : \A s \in calling[c], t \in calling[d] : c = d <=> s = t
  /\ \A c \in Callbacks : \A s \in calling[c] : \A k \in 1..Len(msg_queue) : msg_queue[k].sn # s
  /\ \A j, k \in 1..Len(msg_queue) :
       msg_queue[j].type = "start" /\ msg_queue[j].sn = msg_queue[k].sn => j = k

Unused(s) == /\ s \notin Elems(record_queue)
             /\ record_id[s] = 0 /\ record_ms[s] = 0 /\ heard[s] = 0

NotYetOpen ==
  \A s \in Sn : /\ Sending(s) => s <= record_sn
                /\ Sending(s) \/ s > record_sn => Unused(s)

ByAge ==
  \A c \in Callbacks :
    /\ \A s \in calling[c] :
         /\ \A t \in Elems(record_queue) : cb[t] = c => t < s
         /\ \A k \in 1..Len(msg_queue) :
              msg_queue[k].type = "start" /\ msg_queue[k].cb = c => msg_queue[k].sn < s
    /\ \A j, k \in 1..Len(msg_queue) :
         /\ msg_queue[j].type = "start" /\ msg_queue[j].cb = c
         /\ msg_queue[k].type = "start" /\ msg_queue[k].cb = c
         => (j < k => msg_queue[j].sn < msg_queue[k].sn)

\* places in record_queue the current frame is still to be given to
StillToCome ==
  {j \in 1..Len(record_queue) :
     \A i \in 1..Len(record_queue) :
        record_queue[i] = rec_obj => i < j \/ (i = j /\ pc = "frame")}

OwedAhead ==
  pc # "idle" => \A s \in due : \E j \in StillToCome : record_queue[j] = s

SessionInv == SessionsAreSound /\ OneWay /\ NotYetOpen /\ ByAge /\ OwedAhead

\* While the driver goes on delivering frames, every session that was accepted ends,
\* stopped or not, and its callback is told.
SessionsEnd ==
  \A s \in Sn : s \in Elems(record_queue) ~> heard[s] < 0
=============================================================================
