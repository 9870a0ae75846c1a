------------------------------ MODULE FreeTalk ------------------------------
(***************************************************************************)
(* components/free_talk/free_talk.c: the conversation.  A wakeup word plays *)
(* a tone, the end of the tone starts a recording, its frames go to the     *)
(* recognition, the result is spoken, and the end of that starts the next   *)
(* recording, until somebody calls free_talk_terminated().  The keys and a  *)
(* pushed message cancel the conversation or translate instead.             *)
(*                                                                          *)
(* The code of one question runs in five tasks that share record_sn and     *)
(* need_cancel_record_sn, mostly without the lock.  todo[t] is what the     *)
(* task t has still to do of the function it is in, one step per access to  *)
(* the shared variables or message.  The recording service, the recognition *)
(* and the tones are composed by the contracts AipRecorder, AsrService and  *)
(* PlayerMiddleware are checked for: a recording's frames come in order and *)
(* then its end; a recording gets one result at most, and none when its     *)
(* first frame was not filed; a tone may be refused, calls back when it is  *)
(* paused, replaced or over, but never when the report of its end finds the *)
(* player's queue of reports full.                                          *)
(***************************************************************************)
EXTENDS Integers, Sequences, FiniteSets, Functions

CONSTANTS
  None,        \* the null pointer
  MaxSn,       \* bound: recordings
  MaxFrames,   \* bound: frames of a recording
  MaxWakes,    \* bound: wakeup notifications
  MaxKeys,     \* bound: keys pressed
  MaxFaults    \* bound: messages, objects, tones and reports lost, wechat messages in
               \* between, and tones paused, which call back and are not over

ASSUME BoundAssumption ==
  {MaxSn, MaxFrames, MaxWakes, MaxKeys, MaxFaults} \subseteq Nat

Sn == 1..MaxSn
\* free_talk's own, the keyboard's (and mpush_msg's), and the player's
Tasks == {"free_talk", "keyboard", "player"}
Modes == {"continue", "translate"}
Tones == {"wakeup", "reply", "plain"}
Starts == {"start_continue", "start_translate", "send", "set"}
Steps == Starts \cup {"cancel", "stop", "say_wakeup", "say_reply", "say_plain"}

ASSUME NoneAssumption == None \notin 0..MaxSn /\ None \notin Tasks \cup Tones

\* the call that starts a recording in the mode m, and the one that plays the tone k
Starting(m) == IF m = "continue" THEN "start_continue" ELSE "start_translate"
Saying(k) == IF k = "wakeup" THEN "say_wakeup" ELSE IF k = "reply" THEN "say_reply" ELSE "say_plain"

VARIABLES
  record_sn, need_cancel_record_sn,
  mode,              \* config.mode
  mutex_lock,        \* the task that holds it
  pcm_queue,         \* what the recordings gave: [sn, end]
  vad_enable,
  inbox,             \* the service's own messages: results and START_SILENT
  online,            \* wifi_status and ota_status are both TRUE
  todo,
  taken,             \* the last number given by aip_start_record
  aip_queue,         \* START and STOP on their way to the recording service
  recording,         \* the open recording
  frames,            \* frames it has given
  filed,             \* asr_service's record_sn: the recording it takes objects of
  asr,               \* recordings whose end the recognition has, in turn
  tone,              \* the tone that is played
  over,              \* it is over, and the report of that was dropped
  answered,          \* observer: the last recording whose result was processed
  cancelled,         \* observer: recordings that were the current one of a cancel
  ended,             \* observer: recordings whose result ends the conversation
  spoiled,           \* observer: recordings that lost something, or were refused
  unstopped,         \* observer: a STOP was lost
  wakes, keys, faults

questionVars == <<record_sn, need_cancel_record_sn, mode, mutex_lock>>
serviceVars == <<vad_enable, online>>
aipVars == <<aip_queue, recording, frames>>
asrVars == <<filed, asr>>
toneVars == <<tone, over>>
seenVars == <<answered, cancelled, ended>>
counts == <<wakes, keys>>
faultVars == <<spoiled, unstopped, faults>>
vars == <<questionVars, pcm_queue, serviceVars, inbox, todo, taken, aipVars, asrVars, toneVars,
          seenVars, counts, faultVars>>

Init ==
  /\ record_sn = 0 /\ need_cancel_record_sn = 0
  /\ mode = "continue"
  /\ mutex_lock = None
  /\ pcm_queue = << >>
  /\ vad_enable = FALSE
  /\ inbox = << >>
  /\ online = FALSE
  /\ todo = [t \in Tasks |-> << >>]
  /\ taken = 0
  /\ aip_queue = << >>
  /\ recording = None
  /\ frames = 0
  /\ filed = 0
  /\ asr = << >>
  /\ tone = None /\ over = FALSE
  /\ answered = 0
  /\ cancelled = {} /\ ended = {}
  /\ spoiled = {} /\ unstopped = FALSE
  /\ wakes = 0 /\ keys = 0 /\ faults = 0

\* something on the way of the recording s is lost
Lose(s) ==
  /\ faults < MaxFaults
  /\ faults' = faults + 1
  /\ spoiled' = spoiled \cup {s}
  /\ UNCHANGED unstopped

Idle(t) == todo[t] = << >>
Now(t, step) == ~Idle(t) /\ Head(todo[t]) = step
Done(t) == todo' = [todo EXCEPT ![t] = Tail(@)]

Cancelled == need_cancel_record_sn = record_sn

-----------------------------------------------------------------------------
(* The functions the tasks are in                                           *)

\* free_talk_terminated: the current recording is the one to cancel ...
Cancel(t) ==
  /\ Now(t, "cancel")
  /\ need_cancel_record_sn' = record_sn
  /\ cancelled' = cancelled \cup {record_sn}
  /\ Done(t)
  /\ UNCHANGED <<record_sn, mode, mutex_lock, pcm_queue, serviceVars, inbox, taken, aipVars,
                 asrVars, toneVars, answered, ended, counts, faultVars>>

\* ... and free_talk_stop
Stop(t) ==
  /\ Now(t, "stop")
  /\ \/ aip_queue' = Append(aip_queue, [type |-> "stop", sn |-> 0]) /\ UNCHANGED faultVars
     \/ /\ faults < MaxFaults
        /\ faults' = faults + 1
        /\ unstopped' = TRUE
        /\ UNCHANGED <<aip_queue, spoiled>>
  /\ Done(t)
  /\ UNCHANGED <<questionVars, pcm_queue, serviceVars, inbox, taken, recording, frames,
                 asrVars, toneVars, seenVars, counts>>

\* Variant: record_sn is set before the message is sent.
Begin_SetFirst(t, m) ==
  /\ Now(t, Starting(m))
  /\ mutex_lock = None
  /\ taken < MaxSn
  /\ mutex_lock' = t
  /\ mode' = m
  /\ taken' = taken + 1
  /\ todo' = [todo EXCEPT ![t] = <<"set", "send">> \o Tail(@)]
  /\ UNCHANGED <<record_sn, need_cancel_record_sn, pcm_queue, serviceVars, inbox, aipVars,
                 asrVars, toneVars, seenVars, counts, faultVars>>

\* free_talk_start and translate_start: the configuration and, in
\* aip_start_record, the number of the recording
Begin(t, m) ==
  /\ Now(t, Starting(m))
  /\ mutex_lock = None
  /\ taken < MaxSn
  /\ mutex_lock' = t
  /\ mode' = m
  /\ taken' = taken + 1
  /\ todo' = [todo EXCEPT ![t] = <<"send", "set">> \o Tail(@)]
  /\ UNCHANGED <<record_sn, need_cancel_record_sn, pcm_queue, serviceVars, inbox, aipVars,
                 asrVars, toneVars, seenVars, counts, faultVars>>

Send(t) ==
  /\ Now(t, "send")
  /\ \/ aip_queue' = Append(aip_queue, [type |-> "start", sn |-> taken]) /\ UNCHANGED faultVars
     \/ Lose(taken) /\ UNCHANGED aip_queue
  /\ Done(t)
  /\ UNCHANGED <<questionVars, pcm_queue, serviceVars, inbox, taken, recording, frames,
                 asrVars, toneVars, seenVars, counts>>

SetSn(t) ==
  /\ Now(t, "set")
  /\ record_sn' = taken
  /\ mutex_lock' = None
  /\ Done(t)
  /\ UNCHANGED <<need_cancel_record_sn, mode, pcm_queue, serviceVars, inbox, taken, aipVars,
                 asrVars, toneVars, seenVars, counts, faultVars>>

StartSilent == [type |-> "silent", sn |-> 0]

\* wakeup_music_event_callback and continue_music_event_callback, in the task t
\* that goes on with the steps rest
CallBack(t, rest) ==
  /\ todo' = [todo EXCEPT ![t] =
                IF tone = "wakeup" THEN <<"start_continue">> \o rest ELSE rest]
  /\ inbox' = IF tone = "reply" THEN Append(inbox, StartSilent) ELSE inbox

\* ... or the message it sends is lost
CallBackUnsent(t, rest) ==
  /\ tone = "reply"
  /\ todo' = [todo EXCEPT ![t] = rest]
  /\ Lose(record_sn)
  /\ UNCHANGED inbox

\* a tone is played NOW: the one it replaces is told STOP
Say(t, k) ==
  /\ Now(t, Saying(k))
  /\ \/ CallBack(t, Tail(todo[t])) /\ UNCHANGED faultVars
     \/ CallBackUnsent(t, Tail(todo[t]))
  /\ tone' = k
  /\ over' = FALSE
  /\ UNCHANGED <<questionVars, pcm_queue, serviceVars, taken, aipVars, asrVars, seenVars,
                 counts>>

\* there is no memory for it, or the player refuses it, after it has replaced the other:
\* nobody asks, and it never calls back
Unsaid(t, k) ==
  /\ Now(t, Saying(k))
  /\ Lose(record_sn)
  /\ \/ Done(t) /\ UNCHANGED <<inbox, toneVars>>
     \/ CallBack(t, Tail(todo[t])) /\ tone' = None /\ over' = FALSE
  /\ UNCHANGED <<questionVars, pcm_queue, serviceVars, taken, aipVars, asrVars, seenVars,
                 counts>>

TaskStep(t) ==
  \/ Cancel(t) \/ Stop(t) \/ Send(t) \/ SetSn(t)
  \/ \E m \in Modes : Begin(t, m)
  \/ \E k \in Tones : Say(t, k) \/ Unsaid(t, k)

-----------------------------------------------------------------------------
(* The free_talk task                                                       *)

\* APP_EVENT_KEYWORD_WAKEUP_NOTIFY: it says nothing during an update or a wechat
\* message, and without a network it says so
Wakeup ==
  /\ Idle("free_talk")
  /\ wakes < MaxWakes
  /\ wakes' = wakes + 1
  /\ \E say \in {<< >>, IF online THEN <<"say_wakeup">> ELSE <<"say_plain">>} :
       todo' = [todo EXCEPT !["free_talk"] = <<"cancel", "stop">> \o say]
  /\ UNCHANGED <<questionVars, pcm_queue, serviceVars, inbox, taken, aipVars, asrVars,
                 toneVars, seenVars, keys, faultVars>>

\* the announcements of wifi_manage and ota_service
Announced ==
  /\ Idle("free_talk")
  /\ online' = ~online
  /\ UNCHANGED <<questionVars, pcm_queue, vad_enable, inbox, todo, taken, aipVars, asrVars,
                 toneVars, seenVars, counts, faultVars>>

Next1(type) == Idle("free_talk") /\ inbox # << >> /\ Head(inbox).type = type

\* what a result makes of the conversation: an answer that is spoken, one that is not,
\* or its end: an error, a goodbye, music, a translation
Outcomes == IF mode = "continue" THEN {"reply", "silent", "end"} ELSE {"end"}

\* Variant: a result is processed whatever was cancelled.
OnResult_Always ==
  LET s == Head(inbox).sn
  IN  /\ Next1("result")
      /\ answered' = s
      /\ \E o \in Outcomes :
           /\ \/ inbox' = (IF o = "silent" THEN Append(Tail(inbox), StartSilent) ELSE Tail(inbox))
                 /\ UNCHANGED faultVars
              \/ o = "silent" /\ inbox' = Tail(inbox) /\ Lose(record_sn)
           /\ todo' = [todo EXCEPT !["free_talk"] =
                         IF o = "reply" THEN <<"say_reply">>
                         ELSE IF o = "end" THEN <<"say_plain">> ELSE << >>]
           /\ ended' = IF o = "end" THEN ended \cup {record_sn} ELSE ended
      /\ UNCHANGED <<questionVars, pcm_queue, serviceVars, taken, aipVars, asrVars, toneVars,
                     cancelled, counts>>

\* APP_EVENT_FREE_TALK_RESULT
OnResult ==
  LET s == Head(inbox).sn
  IN  /\ Next1("result")
      /\ ~Cancelled
      /\ answered' = s
      /\ \E o \in Outcomes :
           /\ \/ inbox' = (IF o = "silent" THEN Append(Tail(inbox), StartSilent) ELSE Tail(inbox))
                 /\ UNCHANGED faultVars
              \/ o = "silent" /\ inbox' = Tail(inbox) /\ Lose(record_sn)
           /\ todo' = [todo EXCEPT !["free_talk"] =
                         IF o = "reply" THEN <<"say_reply">>
                         ELSE IF o = "end" THEN <<"say_plain">> ELSE << >>]
           /\ ended' = IF o = "end" THEN ended \cup {record_sn} ELSE ended
      /\ UNCHANGED <<questionVars, pcm_queue, serviceVars, taken, aipVars, asrVars, toneVars,
                     cancelled, counts>>

\* Variant: the conversation goes on whatever was cancelled.
OnStartSilent_Always ==
  /\ Next1("silent")
  /\ inbox' = Tail(inbox)
  /\ todo' = [todo EXCEPT !["free_talk"] = <<"start_continue">>]
  /\ UNCHANGED <<questionVars, pcm_queue, serviceVars, taken, aipVars, asrVars, toneVars,
                 seenVars, counts, faultVars>>

\* APP_EVENT_FREE_TALK_START_SILENT
OnStartSilent ==
  /\ Next1("silent")
  /\ ~Cancelled
  /\ inbox' = Tail(inbox)
  /\ todo' = [todo EXCEPT !["free_talk"] = <<"start_continue">>]
  /\ UNCHANGED <<questionVars, pcm_queue, serviceVars, taken, aipVars, asrVars, toneVars,
                 seenVars, counts, faultVars>>

\* either of the two, after a cancel
Dismissed ==
  /\ Idle("free_talk") /\ inbox # << >>
  /\ Cancelled
  /\ inbox' = Tail(inbox)
  /\ UNCHANGED <<questionVars, pcm_queue, serviceVars, todo, taken, aipVars, asrVars, toneVars,
                 seenVars, counts, faultVars>>

\* every 50 ms the first of the queue is handed to the recognition, which refuses what
\* is not of the recording whose first frame it took last; the detection of silence may
\* end a recording, the one of this frame or a later one
Process ==
  LET rec == Head(pcm_queue)
  IN  /\ Idle("free_talk")
      /\ online
      /\ ~Cancelled
      /\ mutex_lock = None
      /\ pcm_queue # << >>
      /\ pcm_queue' = Tail(pcm_queue)
      /\ \/ /\ filed' = IF rec.first THEN rec.sn ELSE filed
            /\ asr' = IF rec.end /\ filed = rec.sn THEN Append(asr, rec.sn) ELSE asr
            /\ spoiled' = IF rec.end /\ filed # rec.sn THEN spoiled \cup {rec.sn} ELSE spoiled
            /\ UNCHANGED <<unstopped, faults>>
         \/ /\ Lose(rec.sn)
            /\ filed' \in {filed, IF rec.first THEN rec.sn ELSE filed}
            /\ UNCHANGED asr
      /\ \/ /\ mode = "continue" /\ vad_enable /\ ~rec.end /\ ~rec.first
            /\ vad_enable' = FALSE
            /\ todo' = [todo EXCEPT !["free_talk"] = <<"stop">>]
         \/ /\ vad_enable' = (vad_enable \/ (mode = "continue" /\ rec.first))
            /\ UNCHANGED todo
      /\ UNCHANGED <<questionVars, online, inbox, taken, aipVars, toneVars, seenVars, counts>>

FreeTalkStep == OnResult \/ OnStartSilent \/ Dismissed \/ Process

-----------------------------------------------------------------------------
(* The keyboard task, the player's and the two services                     *)

\* a key that cancels; one that translates; the release of the latter
Key ==
  /\ Idle("keyboard")
  /\ keys < MaxKeys
  /\ keys' = keys + 1
  /\ \E steps \in {<<"cancel", "stop", "say_plain">>,
                   <<"cancel", "stop", "say_plain", "start_translate">>,
                   <<"say_plain", "stop">>} :
       todo' = [todo EXCEPT !["keyboard"] = steps]
  /\ UNCHANGED <<questionVars, pcm_queue, serviceVars, inbox, taken, aipVars, asrVars,
                 toneVars, seenVars, wakes, faultVars>>

\* the tone ends
ToneEnds ==
  /\ Idle("player")
  /\ tone # None /\ ~over
  /\ \/ CallBack("player", << >>) /\ UNCHANGED faultVars
     \/ CallBackUnsent("player", << >>)
  /\ tone' = None
  /\ UNCHANGED <<questionVars, pcm_queue, serviceVars, taken, aipVars, asrVars, over, seenVars,
                 counts>>

\* the report of that finds the queue of reports full: the tone stays in the player's own
\* queue, and calls back when another one replaces it
EndDropped ==
  /\ tone # None /\ ~over
  /\ over' = TRUE
  /\ Lose(record_sn)
  /\ UNCHANGED <<questionVars, pcm_queue, serviceVars, inbox, todo, taken, aipVars, asrVars,
                 tone, seenVars, counts>>

TonePauses ==
  /\ Idle("player")
  /\ tone \in {"wakeup", "reply"} /\ ~over
  /\ faults < MaxFaults
  /\ faults' = faults + 1
  /\ CallBack("player", << >>)
  /\ UNCHANGED <<questionVars, pcm_queue, serviceVars, taken, aipVars, asrVars, toneVars, seenVars,
                 counts, spoiled, unstopped>>

\* Variant: an object without audio is not queued.
Give_Audio(s, end) ==
  /\ mutex_lock = None
  /\ \/ /\ pcm_queue' = IF end THEN pcm_queue
                         ELSE Append(pcm_queue, [sn |-> s, end |-> end, first |-> frames = 0])
        /\ UNCHANGED faultVars
     \/ Lose(s) /\ UNCHANGED pcm_queue

\* free_talk_record_cb: waits for the lock of a start; there may be no memory for an object
Give(s, end) ==
  /\ mutex_lock = None
  /\ \/ /\ pcm_queue' = Append(pcm_queue, [sn |-> s, end |-> end, first |-> ~end /\ frames = 0])
        /\ UNCHANGED faultVars
     \/ Lose(s) /\ UNCHANGED pcm_queue

Frame ==
  /\ recording # None
  /\ frames < MaxFrames
  /\ frames' = frames + 1
  /\ Give(recording, FALSE)
  /\ UNCHANGED <<questionVars, serviceVars, inbox, todo, taken, aip_queue, recording, asrVars,
                 toneVars, seenVars, counts>>

\* the open recording ends: by its length, a STOP, or the START of the next
RecordingEnds ==
  /\ \/ frames = MaxFrames /\ recording # None /\ recording' = None /\ UNCHANGED aip_queue
     \/ /\ aip_queue # << >>
        /\ aip_queue' = Tail(aip_queue)
        /\ recording' = IF Head(aip_queue).type = "start" THEN Head(aip_queue).sn ELSE None
  /\ frames' = 0
  /\ IF recording = None THEN UNCHANGED <<pcm_queue, faultVars>> ELSE Give(recording, TRUE)
  /\ UNCHANGED <<questionVars, serviceVars, inbox, todo, taken, asrVars, toneVars, seenVars,
                 counts>>

\* ft_asr_result_cb, in the task of the recognition
Answer ==
  LET s == Head(asr)
  IN  /\ asr # << >>
      /\ asr' = Tail(asr)
      /\ IF s # record_sn
         THEN UNCHANGED <<inbox, faultVars>>
         ELSE \/ inbox' = Append(inbox, [type |-> "result", sn |-> s]) /\ UNCHANGED faultVars
              \/ Lose(s) /\ UNCHANGED inbox
      /\ UNCHANGED <<questionVars, pcm_queue, serviceVars, todo, taken, aipVars, filed,
                     toneVars, seenVars, counts>>

\* the first frame of a wechat message reaches the recognition in between
Overtaken ==
  /\ filed # 0
  /\ faults < MaxFaults
  /\ faults' = faults + 1
  /\ filed' = 0
  /\ UNCHANGED <<questionVars, pcm_queue, serviceVars, inbox, todo, taken, aipVars, asr,
                 toneVars, seenVars, counts, spoiled, unstopped>>

ServiceStep == Frame \/ RecordingEnds \/ Answer

Next ==
  \/ \E t \in Tasks : TaskStep(t)
  \/ FreeTalkStep \/ Wakeup \/ Announced \/ Key \/ ToneEnds \/ EndDropped \/ TonePauses
  \/ ServiceStep \/ Overtaken

Spec == Init /\ [][Next]_vars

\* tasks run, tones end, told or not, recordings have a length and the recognition
\* answers those whose end it has; nobody has to speak, press a key or bring the network
\* back
FairSpec ==
  /\ Spec
  /\ \A t \in Tasks : WF_vars(TaskStep(t))
  /\ WF_vars(FreeTalkStep) /\ WF_vars(ToneEnds \/ EndDropped)
  /\ WF_vars(Frame) /\ WF_vars(RecordingEnds) /\ WF_vars(Answer)

-----------------------------------------------------------------------------
(* Properties                                                               *)

Frames == [sn : Sn, end : BOOLEAN, first : BOOLEAN]

TypeOK ==
  /\ {record_sn, need_cancel_record_sn, taken, answered} \subseteq 0..MaxSn
  /\ mode \in Modes
  /\ mutex_lock \in Tasks \cup {None}
  /\ pcm_queue \in Seq(Frames)
  /\ {vad_enable, online} \subseteq BOOLEAN
  /\ inbox \in Seq([type : {"result", "silent"}, sn : 0..MaxSn])
  /\ todo \in [Tasks -> Seq(Steps)]
  /\ aip_queue \in Seq([type : {"start", "stop"}, sn : 0..MaxSn])
  /\ recording \in Sn \cup {None} /\ frames \in 0..MaxFrames
  /\ filed \in 0..MaxSn /\ asr \in Seq(Sn)
  /\ tone \in Tones \cup {None} /\ over \in BOOLEAN
  /\ cancelled \cup ended \subseteq 0..MaxSn
  /\ spoiled \subseteq 0..MaxSn /\ unstopped \in BOOLEAN
  /\ wakes \in 0..MaxWakes /\ keys \in 0..MaxKeys
  /\ faults \in 0..MaxFaults

Has(t, step) == step \in Range(todo[t])

\* A cancelled conversation does not listen: when the functions that start or stop a
\* recording have returned and the recording service has their messages, it records
\* nothing for free_talk, unless the STOP was lost.
MicrophoneOff ==
  /\ TypeOK
  /\ Cancelled /\ aip_queue = << >> /\ ~unstopped
     /\ (\A t \in Tasks : ~Has(t, "stop") /\ ~Has(t, "send") /\ ~Has(t, "set"))
     => recording = None

\* Cancelled, with nothing on its way that starts a recording without asking again
Quiet ==
  /\ Cancelled
  /\ tone # "wakeup"
  /\ \A t \in Tasks : \A k \in Starts \cup {"say_wakeup"} : ~Has(t, k)

\* Whatever comes of the questions asked before, a conversation that is cancelled stays
\* so until somebody wakes the device or presses the key that translates.
StaysQuiet ==
  [][Quiet => Quiet' \/ wakes' # wakes \/ keys' # keys]_vars

\* Results are processed in the order of the questions, each once, and never that of
\* a cancelled question, unless another question has been asked since.
AnswersInTurn ==
  [][answered' # answered =>
        /\ answered' > answered
        /\ answered' \in cancelled => record_sn > answered']_vars

\* While the network is there, a question that is not cancelled is followed by another
\* one, or by a result that ends the conversation, unless something was lost on its way
\* (its START, an object, its result or, while it was the current one, a tone, the report
\* or the message of a tone's end), or the recognition refused its end: it had taken no
\* first frame of it, because there was none, or that of a wechat message since.  What
\* another question lost is no excuse.
TalkGoesOn ==
  \A s \in Sn :
     record_sn = s ~> \/ record_sn # s \/ s \in cancelled \/ s \in ended
                      \/ ~online \/ s \in spoiled \/ taken = MaxSn
-----------------------------------------------------------------------------
(* Why the conversation is kept in order: the inductive invariant           *)

\* What a task has still to do: a cancel comes with its stop, the sending of a START
\* with the note of its number, and both come first.
Shaped(q) ==
  /\ \A i \in DOMAIN q : q[i] = "cancel" => i = 1 /\ Len(q) > 1 /\ q[2] = "stop"
  /\ \A i \in DOMAIN q : q[i] = "send" => i = 1 /\ Len(q) > 1 /\ q[2] = "set"
  /\ \A i \in DOMAIN q : q[i] = "set" => i = 1 \/ (i = 2 /\ q[1] = "send")

\* A start holds the lock until it has noted its number.
Locked == \A t \in Tasks : Shaped(todo[t]) /\ (Has(t, "set") => mutex_lock = t)

\* The numbers follow each other: no cancel is ahead of the current question, and no
\* result of the current question or an older one is ahead of it.
Numbered ==
  /\ need_cancel_record_sn <= record_sn /\ record_sn <= taken
  /\ \A t \in Tasks : Has(t, "set") => record_sn < taken
  /\ \A c \in cancelled : c <= need_cancel_record_sn
  /\ \A i \in DOMAIN inbox : inbox[i].type = "result" => inbox[i].sn <= record_sn

\* After a cancel somebody is still stopping or starting the recording, or a STOP is
\* the last that the recording service will hear, or it has nothing to do.
StopComes ==
  Cancelled /\ ~unstopped =>
    \/ \E t \in Tasks : Has(t, "stop") \/ Has(t, "set")
    \/ aip_queue = << >> /\ recording = None
    \/ aip_queue # << >> /\ aip_queue[Len(aip_queue)].type = "stop"

\* Every recording is younger than n from some place of its way on: that of being
\* sent, of a START in the queue, of the recording, of its end in pcm_queue, of the
\* recognition, of the result.
SendAfter(n) == n <= taken /\ \A t \in Tasks : Has(t, "send") => n < taken

StartAfter(n) ==
  SendAfter(n) /\ \A i \in DOMAIN aip_queue : aip_queue[i].type = "start" => aip_queue[i].sn > n

RecordAfter(n) == StartAfter(n) /\ (recording # None => recording > n)

EndAfter(n) ==
  RecordAfter(n) /\ \A i \in DOMAIN pcm_queue : pcm_queue[i].end => pcm_queue[i].sn > n

AsrAfter(n) == EndAfter(n) /\ \A i \in DOMAIN asr : asr[i] > n

ResultAfter(n) ==
  AsrAfter(n) /\ \A i \in DOMAIN inbox : inbox[i].type = "result" => inbox[i].sn > n

\* So each recording n is behind those that began before it, at every place.
StartsInTurn ==
  \A i \in DOMAIN aip_queue : \A n \in 0..MaxSn :
    aip_queue[i].type = "start" /\ aip_queue[i].sn = n =>
      /\ n > 0 /\ SendAfter(n)
      /\ \A j \in DOMAIN aip_queue : j > i /\ aip_queue[j].type = "start" => aip_queue[j].sn > n

RecordInTurn == \A n \in Sn : recording = n => StartAfter(n)

EndsInTurn ==
  \A i \in DOMAIN pcm_queue : \A n \in Sn : pcm_queue[i].end /\ pcm_queue[i].sn = n =>
    /\ RecordAfter(n)
    /\ \A j \in DOMAIN pcm_queue : j > i /\ pcm_queue[j].end => pcm_queue[j].sn > n

AsrInTurn ==
  \A i \in DOMAIN asr : \A n \in Sn : asr[i] = n =>
    EndAfter(n) /\ \A j \in DOMAIN asr : j > i => asr[j] > n

ResultsInTurn ==
  \A i \in DOMAIN inbox : \A n \in 0..MaxSn : inbox[i].type = "result" /\ inbox[i].sn = n =>
    /\ AsrAfter(n)
    /\ \A j \in DOMAIN inbox : j > i /\ inbox[j].type = "result" => inbox[j].sn > n

AnswersAhead == \A n \in 0..MaxSn : answered = n => ResultAfter(n)

InTurn ==
  StartsInTurn /\ RecordInTurn /\ EndsInTurn /\ AsrInTurn /\ ResultsInTurn /\ AnswersAhead

TalkInv == TypeOK /\ Locked /\ Numbered /\ StopComes /\ InTurn
=============================================================================
