----------------------------- MODULE WechatSend -----------------------------
(***************************************************************************)
(* components/wechat/wechat_service.c: a message that is spoken while a key *)
(* is held, recognised and sent.  The keyboard's task starts the recording  *)
(* when no earlier message is there any more; the recording service's task  *)
(* makes the message at the first frame, in cache_queue, writes each frame  *)
(* to the first message of that queue and hands it to the recognition as    *)
(* well; the result's callback moves the message to upload_queue, and the   *)
(* wechat task encodes and sends it.  Each look at a queue, removal and     *)
(* insertion takes the lock by itself, and a frame is written without it,   *)
(* so that each is a step.                                                  *)
(*                                                                          *)
(* A message is named by its msg_sn.  The recording service and the         *)
(* recognition are composed by what AipRecorder and AsrService say of them. *)
(* The recognition takes the objects of the recording whose first frame it  *)
(* saw last and refuses the others, so that another client's recording      *)
(* takes the result away from this one's.                                   *)
(*                                                                          *)
(* Once torn, a message is written by one task and has been taken by        *)
(* another, perhaps freed: memory is no longer sound, and the model ends.   *)
(***************************************************************************)
EXTENDS Integers, Sequences, FiniteSets, Queues

CONSTANTS
  None,       \* the null pointer
  MaxSn,      \* bound: recordings
  MaxFrames,  \* bound: frames of a recording
  MaxPresses, \* bound: times the key is pressed
  MaxFaults   \* bound: calls that fail, messages lost, recordings interrupted

ASSUME BoundAssumption == {MaxSn, MaxFrames, MaxPresses, MaxFaults} \subseteq Nat
ASSUME NoneAssumption == None \notin 0..MaxSn

Sn == 1..MaxSn

VARIABLES
  upload_queue, upload_cache_queue,
  key,            \* where the keyboard's task is: "idle", "cache", "start"
  button,         \* the key: "up", "down", or let go "unheard" by a service
  wifi_status,    \* the keyboard's
  wechat_status,  \* what free_talk was told
  taken,          \* the last number given by aip_start_record
  aip_queue,      \* START and STOP on their way to the recording service
  recording,      \* its open recording of wechat
  record_id,      \* frames it has given
  step,           \* where set_wechat_record_data is: "between" frames, "remove", "add",
                  \* "look", "write"
  held,           \* the message it has found in the cache
  record_sn,      \* asr_service's: the recording whose objects it takes
  asr,            \* recordings whose end it has, in turn
  msg_obj,        \* the message the result's callback has taken
  new_msgs,       \* NEW_MSG messages on their way
  sending,        \* the message the wechat task encodes and sends
  sent,           \* observer: messages it is done with, in turn
  freed,          \* observer: messages that were freed
  reused,         \* observer: messages whose memory was taken for another one
  strange,        \* observer: the recording whose result did not find its message
  late,           \* observer: messages made after the key's test for the next one
  lacking,        \* observer: recordings whose first frame found no memory
  blended,        \* observer: recordings written to another one's message
  torn,           \* observer: what was held had left the cache when it was used
  presses, faults, bad

keyVars == <<key, button, wifi_status, wechat_status>>
frameVars == <<step, held>>
aipVars == <<aip_queue, recording, record_id, frameVars>>
asrVars == <<record_sn, asr>>
queueVars == <<upload_queue, upload_cache_queue>>
cacheSeenVars == <<late, lacking, blended, torn>>
seenVars == <<sent, freed, reused, strange, cacheSeenVars>>
faultVars == <<faults, bad>>
vars == <<queueVars, keyVars, taken, aipVars, asrVars, msg_obj, new_msgs, sending,
          seenVars, presses, faultVars>>

Init ==
  /\ upload_queue = << >> /\ upload_cache_queue = << >>
  /\ key = "idle" /\ button = "up"
  /\ wifi_status = TRUE /\ wechat_status = FALSE
  /\ taken = 0
  /\ aip_queue = << >> /\ recording = None /\ record_id = 0
  /\ step = "between" /\ held = None
  /\ record_sn = 0 /\ asr = << >>
  /\ msg_obj = None
  /\ new_msgs = 0
  /\ sending = None
  /\ sent = << >> /\ freed = {} /\ reused = {} /\ strange = None
  /\ late = {} /\ lacking = {} /\ blended = {} /\ torn = FALSE
  /\ presses = 0 /\ faults = 0 /\ bad = {}

\* something goes wrong with a recording
Fault(s) ==
  /\ faults < MaxFaults
  /\ faults' = faults + 1
  /\ bad' = bad \cup {s}

-----------------------------------------------------------------------------
(* The keyboard's task                                                      *)

\* KEY_EVENT_WECHAT_START, up to the first test of wechat_record_start; a key pressed
\* again within two seconds does nothing
Press ==
  /\ key = "idle" /\ button # "down"
  /\ presses < MaxPresses
  /\ presses' = presses + 1
  /\ button' = "down"
  /\ \/ key' = IF wifi_status /\ upload_queue = << >> THEN "cache" ELSE "idle"
     \/ UNCHANGED key
  /\ UNCHANGED <<queueVars, wifi_status, wechat_status, taken, aipVars, asrVars, msg_obj, new_msgs,
                 sending, seenVars, faultVars>>

LookInCache ==
  /\ key = "cache"
  /\ IF upload_cache_queue = << >>
     THEN key' = "start" /\ wechat_status' = TRUE
     ELSE key' = "idle" /\ UNCHANGED wechat_status
  /\ UNCHANGED <<queueVars, button, wifi_status, taken, aipVars, asrVars, msg_obj, new_msgs,
                 sending, seenVars, presses, faultVars>>

\* the tone has been played for 800 ms: aip_start_record
StartRecord ==
  /\ key = "start"
  /\ taken < MaxSn
  /\ key' = "idle"
  /\ taken' = taken + 1
  /\ \/ aip_queue' = Append(aip_queue, taken + 1) /\ UNCHANGED faultVars
     \/ Fault(taken + 1) /\ UNCHANGED aip_queue
  /\ UNCHANGED <<queueVars, button, wifi_status, wechat_status, recording, record_id, frameVars,
                 asrVars, msg_obj, new_msgs, sending, seenVars, presses>>

\* Variant: the recording is stopped, and free_talk is not told.
Release_Untold ==
  /\ key = "idle" /\ button = "down"
  /\ button' = IF wifi_status THEN "up" ELSE "unheard"
  /\ aip_queue' = IF wifi_status THEN Append(aip_queue, None) ELSE aip_queue
  /\ UNCHANGED <<queueVars, key, wifi_status, wechat_status, taken, recording, record_id,
                 frameVars, asrVars, msg_obj, new_msgs, sending, seenVars, presses, faultVars>>

\* KEY_EVENT_WECHAT_STOP: nothing at all without a network; with one, the STOP and what
\* free_talk is told are two messages, of which either may be lost
Release ==
  /\ key = "idle" /\ button = "down"
  /\ \/ /\ wifi_status
        /\ button' = "up"
        /\ aip_queue' = Append(aip_queue, None) /\ wechat_status' = FALSE
        /\ UNCHANGED faultVars
     \/ /\ wifi_status
        /\ button' = "unheard"
        /\ Fault(taken)
        /\ \/ UNCHANGED aip_queue /\ wechat_status' = FALSE
           \/ aip_queue' = Append(aip_queue, None) /\ UNCHANGED wechat_status
     \/ /\ ~wifi_status
        /\ button' = "unheard"
        /\ UNCHANGED <<aip_queue, wechat_status, faultVars>>
  /\ UNCHANGED <<queueVars, key, wifi_status, taken, recording, record_id, frameVars, asrVars,
                 msg_obj, new_msgs, sending, seenVars, presses>>

Wifi ==
  /\ key = "idle"
  /\ wifi_status' = ~wifi_status
  /\ UNCHANGED <<queueVars, key, button, wechat_status, taken, aipVars, asrVars, msg_obj, new_msgs,
                 sending, seenVars, presses, faultVars>>

-----------------------------------------------------------------------------
(* The recording service's task: set_wechat_record_data                     *)

\* asr_service_send_request: the first frame's recording is the current one, the
\* objects of another are refused; once the end is filed, there will be a result
Request(s, id) ==
  /\ record_sn' = IF id = 1 THEN s ELSE record_sn
  /\ asr' = IF id < 0 /\ record_sn = s THEN Append(asr, s) ELSE asr

\* The first frame: wechat_cache_queue_first.  The first message of the cache is to make
\* place for the new one.
FirstFrame ==
  /\ step = "between"
  /\ recording # None /\ record_id = 0 /\ record_id < MaxFrames
  /\ record_id' = 1
  /\ \/ \* no memory for the object: nothing else is done
        /\ Fault(recording)
        /\ lacking' = lacking \cup {recording}
        /\ UNCHANGED frameVars
     \/ \* no memory for a new message
        /\ upload_cache_queue = << >>
        /\ Fault(recording)
        /\ lacking' = lacking \cup {recording}
        /\ step' = "look" /\ UNCHANGED held
     \/ /\ upload_cache_queue = << >>
        /\ step' = "add"
        /\ UNCHANGED <<held, lacking, faultVars>>
     \/ /\ upload_cache_queue # << >>
        /\ step' = "remove" /\ held' = Head(upload_cache_queue)
        /\ UNCHANGED <<lacking, faultVars>>
  /\ UNCHANGED <<queueVars, keyVars, taken, aip_queue, recording, asrVars, msg_obj, new_msgs,
                 sending, sent, freed, reused, strange, late, blended, torn, presses>>

\* wechat_cache_queue_remove, and memset without the lock
RemoveHeld ==
  /\ step = "remove"
  /\ \/ /\ held \in Elems(upload_cache_queue)
        /\ upload_cache_queue' = Without(upload_cache_queue, held)
        /\ reused' = reused \cup {held}
        /\ step' = "add" /\ held' = None
        /\ UNCHANGED torn
     \/ /\ held \notin Elems(upload_cache_queue)  \* the result's callback has taken it
        /\ torn' = TRUE
        /\ UNCHANGED <<upload_cache_queue, reused, frameVars>>
  /\ UNCHANGED <<upload_queue, keyVars, taken, aip_queue, recording, record_id, asrVars, msg_obj,
                 new_msgs, sending, sent, freed, strange, late, lacking, blended, presses,
                 faultVars>>

\* wechat_cache_queue_add
AddMessage ==
  /\ step = "add"
  /\ step' = "look"
  /\ upload_cache_queue' = <<recording>> \o upload_cache_queue
  /\ late' = IF key = "start" \/ taken > recording THEN late \cup {recording} ELSE late
  /\ UNCHANGED <<upload_queue, keyVars, taken, aip_queue, recording, record_id, held, asrVars,
                 msg_obj, new_msgs, sending, sent, freed, reused, strange, lacking, blended,
                 torn, presses, faultVars>>

\* any other frame, for which there may be no memory
Frame ==
  /\ step = "between"
  /\ recording # None /\ record_id \in 1..MaxFrames - 1
  /\ record_id' = record_id + 1
  /\ step' \in {"between", "look"}
  /\ UNCHANGED <<queueVars, keyVars, taken, aip_queue, recording, held, asrVars, msg_obj, new_msgs,
                 sending, seenVars, presses, faultVars>>

\* wechat_cache_queue_first, for every frame
LookAtCache ==
  /\ step = "look"
  /\ step' = "write"
  /\ held' = IF upload_cache_queue = << >> THEN None ELSE Head(upload_cache_queue)
  /\ UNCHANGED <<queueVars, keyVars, taken, aip_queue, recording, record_id, asrVars, msg_obj,
                 new_msgs, sending, seenVars, presses, faultVars>>

\* wechat_pcm_to_8k writes to what was found, without the lock; the frame is handed over
WriteFrame ==
  /\ step = "write"
  /\ blended' = IF held \in {None, recording} THEN blended ELSE blended \cup {recording}
  /\ \/ /\ held \in Elems(upload_cache_queue) \cup {None}
        /\ Request(recording, record_id)
        /\ step' = "between" /\ held' = None
        /\ UNCHANGED torn
     \/ /\ held \notin Elems(upload_cache_queue) \cup {None}
        /\ torn' = TRUE
        /\ UNCHANGED <<frameVars, asrVars>>
  /\ UNCHANGED <<queueVars, keyVars, taken, aip_queue, recording, record_id, msg_obj, new_msgs,
                 sending, sent, freed, reused, strange, late, lacking, presses, faultVars>>

\* the open recording is over: its end is handed over, when there is memory for it
End ==
  \/ recording = None /\ UNCHANGED <<asrVars, faultVars>>
  \/ recording # None /\ Request(recording, -1) /\ UNCHANGED faultVars
  \/ recording # None /\ Fault(recording) /\ UNCHANGED asrVars

\* by its length ...
EndByLength ==
  /\ step = "between"
  /\ recording # None /\ record_id = MaxFrames
  /\ End
  /\ recording' = None /\ record_id' = 0
  /\ UNCHANGED <<queueVars, keyVars, taken, aip_queue, frameVars, msg_obj, new_msgs, sending,
                 seenVars, presses>>

\* ... or by a STOP, or by the START of the next
StartOrStop ==
  /\ step = "between"
  /\ aip_queue # << >>
  /\ aip_queue' = Tail(aip_queue)
  /\ End
  /\ recording' = Head(aip_queue) /\ record_id' = 0
  /\ UNCHANGED <<queueVars, keyVars, taken, frameVars, msg_obj, new_msgs, sending, seenVars,
                 presses>>

RecordStep ==
  \/ FirstFrame \/ RemoveHeld \/ AddMessage \/ Frame \/ LookAtCache \/ WriteFrame
  \/ EndByLength \/ StartOrStop

-----------------------------------------------------------------------------
(* The recognition's task                                                   *)

\* another client's recording begins, and the rest of this one's is refused
Interrupted ==
  /\ record_sn # 0
  /\ Fault(record_sn)
  /\ record_sn' = 0
  /\ UNCHANGED <<queueVars, keyVars, taken, aipVars, asr, msg_obj, new_msgs, sending, seenVars,
                 presses>>

\* a request is lost, and with it the result
ResultLost ==
  /\ asr # << >>
  /\ Fault(Head(asr))
  /\ asr' = Tail(asr)
  /\ UNCHANGED <<queueVars, keyVars, taken, aipVars, record_sn, msg_obj, new_msgs, sending,
                 seenVars, presses>>

\* wechat_cache_queue_match_sn, called by wechat_asr_result_cb: a message that is not
\* there is logged through the null pointer
MatchSn ==
  /\ asr # << >> /\ msg_obj = None /\ strange = None
  /\ asr' = Tail(asr)
  /\ IF Head(asr) \in Elems(upload_cache_queue)
     THEN /\ msg_obj' = Head(asr)
          /\ upload_cache_queue' = Without(upload_cache_queue, Head(asr))
          /\ UNCHANGED strange
     ELSE strange' = Head(asr) /\ UNCHANGED <<msg_obj, upload_cache_queue>>
  /\ UNCHANGED <<upload_queue, keyVars, taken, aipVars, record_sn, new_msgs, sending, sent, freed,
                 reused, cacheSeenVars, presses, faultVars>>

\* the speech was too short
Short ==
  /\ msg_obj # None
  /\ freed' = freed \cup {msg_obj}
  /\ msg_obj' = None
  /\ UNCHANGED <<queueVars, keyVars, taken, aipVars, asrVars, new_msgs, sending, sent, reused,
                 strange, cacheSeenVars, presses, faultVars>>

\* Variant: the wechat task is told only of the first message of the queue.
ToUpload_WhenEmpty ==
  /\ msg_obj # None
  /\ upload_queue' = <<msg_obj>> \o upload_queue
  /\ new_msgs' = IF upload_queue = << >> THEN new_msgs + 1 ELSE new_msgs
  /\ msg_obj' = None
  /\ UNCHANGED <<upload_cache_queue, keyVars, taken, aipVars, asrVars, sending, seenVars, presses,
                 faultVars>>

\* any other result, an error too: the message is sent with the text there is
ToUpload ==
  /\ msg_obj # None
  /\ upload_queue' = <<msg_obj>> \o upload_queue
  /\ \/ new_msgs' = new_msgs + 1 /\ UNCHANGED faultVars
     \/ Fault(msg_obj) /\ UNCHANGED new_msgs
  /\ msg_obj' = None
  /\ UNCHANGED <<upload_cache_queue, keyVars, taken, aipVars, asrVars, sending, seenVars, presses>>

AsrStep == MatchSn \/ Short \/ ToUpload

-----------------------------------------------------------------------------
(* The wechat task: APP_EVENT_WECHAT_NEW_MSG                                *)

TakeFirst ==
  /\ new_msgs > 0 /\ sending = None
  /\ new_msgs' = new_msgs - 1
  /\ sending' = IF upload_queue = << >> THEN None ELSE Head(upload_queue)
  /\ UNCHANGED <<queueVars, keyVars, taken, aipVars, asrVars, msg_obj, seenVars, presses,
                 faultVars>>

\* Variant: the first message is taken out, which need not be the one that was sent.
Done_First ==
  /\ sending # None
  /\ upload_queue' = Tail(upload_queue)
  /\ sent' = Append(sent, sending)
  /\ freed' = freed \cup {sending}
  /\ sending' = None
  /\ UNCHANGED <<upload_cache_queue, keyVars, taken, aipVars, asrVars, msg_obj, new_msgs, reused,
                 strange, cacheSeenVars, presses, faultVars>>

\* dcl_mpush_push_msg returned, and whatever it returned, the message is removed and freed
Done ==
  /\ sending # None
  /\ upload_queue' = Without(upload_queue, sending)
  /\ sent' = Append(sent, sending)
  /\ freed' = freed \cup {sending}
  /\ sending' = None
  /\ UNCHANGED <<upload_cache_queue, keyVars, taken, aipVars, asrVars, msg_obj, new_msgs, reused,
                 strange, cacheSeenVars, presses, faultVars>>

WechatStep == TakeFirst \/ Done

Next ==
  /\ ~torn
  /\ \/ Press \/ LookInCache \/ StartRecord \/ Release \/ Wifi
     \/ RecordStep \/ Interrupted \/ ResultLost \/ AsrStep \/ WechatStep

Spec == Init /\ [][Next]_vars

\* the tasks run; a recording has a length; the key may be held for ever
FairSpec ==
  /\ Spec
  /\ WF_vars(LookInCache \/ StartRecord) /\ WF_vars(RecordStep)
  /\ WF_vars(AsrStep) /\ WF_vars(WechatStep)

-----------------------------------------------------------------------------
(* Properties                                                               *)

InQueues == Elems(upload_queue) \cup Elems(upload_cache_queue)

TypeOK ==
  /\ upload_queue \in Seq(Sn) /\ upload_cache_queue \in Seq(Sn)
  /\ key \in {"idle", "cache", "start"}
  /\ button \in {"up", "down", "unheard"}
  /\ {wifi_status, wechat_status, torn} \subseteq BOOLEAN
  /\ taken \in 0..MaxSn /\ record_id \in 0..MaxFrames /\ record_sn \in 0..MaxSn
  /\ aip_queue \in Seq(Sn \cup {None})
  /\ {recording, held, msg_obj, sending, strange} \subseteq Sn \cup {None}
  /\ asr \in Seq(Sn) /\ sent \in Seq(Sn)
  /\ new_msgs \in 0..MaxSn
  /\ step \in {"between", "remove", "add", "look", "write"}
  /\ late \cup lacking \cup blended \subseteq Sn
  /\ freed \cup reused \subseteq Sn /\ bad \subseteq 0..MaxSn

\* A message is in one place at a time and is freed when it is in none: what the wechat
\* task encodes and sends stays in upload_queue meanwhile, whatever is put before it, and
\* no result's callback has it.
OnePlace ==
  /\ NoRepeat(upload_queue) /\ NoRepeat(upload_cache_queue)
  /\ Elems(upload_queue) \cap Elems(upload_cache_queue) = {}
  /\ msg_obj \notin InQueues
  /\ (InQueues \cup ({msg_obj} \ {None})) \cap (freed \cup reused) = {}
  /\ sending # None => sending \in Elems(upload_queue)
  /\ NoRepeat(sent) /\ Elems(sent) \subseteq freed

\* A result finds its message, unless its first frame found no memory, or the message's
\* place was taken.
ResultFindsMessage == strange # None => strange \in lacking \cup reused

\* Only the message of a recording that gave its first frame after the key was pressed
\* for the next one can lose its place to that one, or be taken by its result's callback
\* while the frames' callback has it in hand, which nothing prevents; and a recording
\* is written to its own message, unless its first frame found no memory.
OwnMemory ==
  /\ reused \subseteq late
  /\ torn => held \in late
  /\ blended \subseteq lacking

\* A message is where the task that is to go on with it looks for it, and nowhere else.
MessageIsFound == TypeOK /\ OnePlace /\ ResultFindsMessage /\ OwnMemory

\* When the key is up, the last release was heard and the recording service has its
\* messages, nothing is recorded for a message and free_talk answers to its wakeup word
\* again: whatever STARTs, refusals, ends by length and unheard releases came before.
MicrophoneIsFree ==
  key = "idle" /\ button = "up" /\ aip_queue = << >> => recording = None /\ ~wechat_status

\* A message is sent or thrown away, and the next one can be recorded, unless a call
\* failed or was lost, which need not be one of this message (one lost NEW_MSG of two
\* leaves the other message): then it stays, and no other message is ever recorded.
MessagesGoOn ==
  \A s \in Sn : s \in InQueues ~> s \in freed \cup reused \/ bad # {} \/ strange # None \/ torn
=============================================================================
