------------------------------ MODULE MpushMsg ------------------------------
(***************************************************************************)
(* components/mpush_msg/mpush_msg.c over MpushService: the service that     *)
(* takes a queued message each second, while play_status is not set, and    *)
(* has it spoken by a tone.  The tone's callback runs in the task of        *)
(* whoever ends it and clears play_status; the message task sets it after   *)
(* the call that starts the tone.                                           *)
(*                                                                          *)
(* PlayerMiddleware is composed by its contract: a tone is told one end at  *)
(* most, any time after it was queued, and none when there was no memory    *)
(* for it, the player refused it, or the queue of reports was full when it  *)
(* ended.                                                                   *)
(***************************************************************************)
EXTENDS MpushService

CONSTANT Spoken  \* the messages of type text and link; the others play no tone

ASSUME SpokenAssumption == Spoken \subseteq Messages

VARIABLES
  play_status,  \* handle->play_status
  msg_info,     \* the message being started; None at the loop timeout
  tone,         \* the tone's callback is still to come
  missed        \* observer: a tone's end was not told, or told before play_status was set

msgVars == <<play_status, msg_info, tone, missed>>
vars == <<serviceVars, msgVars>>

Init ==
  /\ ServiceInit
  /\ play_status = 0
  /\ msg_info = None
  /\ tone = FALSE
  /\ missed = FALSE

-----------------------------------------------------------------------------
(* mpush_process_msg                                                        *)

\* Variant: a message is taken whether one is being played or not.
mpush_get_msg_queue_Always ==
  /\ msg_info = None
  /\ msg_queue # << >>
  /\ msg_queue' = Tail(msg_queue)
  /\ taken' = [taken EXCEPT ![Head(msg_queue)] = @ + 1]
  /\ UNCHANGED <<status, update_device_info_count, str_push_msg, str_comm_buf, link, hung, server, sent,
                 unsure, forgotten, unread, again, flaps, faults, cut, play_status>>

\* a message is taken when none is being played
mpush_get_msg_queue ==
  /\ msg_info = None
  /\ play_status = 0
  /\ msg_queue # << >>
  /\ msg_queue' = Tail(msg_queue)
  /\ taken' = [taken EXCEPT ![Head(msg_queue)] = @ + 1]
  /\ UNCHANGED <<status, update_device_info_count, str_push_msg, str_comm_buf, link, hung, server, sent,
                 unsure, forgotten, unread, again, flaps, faults, cut, play_status>>

\* audio_play_tone_with_cb: the tone is queued, or there is no memory for it
StartTone ==
  /\ mpush_get_msg_queue
  /\ Head(msg_queue) \in Spoken
  /\ msg_info' = Head(msg_queue)
  /\ \/ tone' = TRUE /\ UNCHANGED missed
     \/ missed' = TRUE /\ UNCHANGED tone

\* a message of another type, a text that could not be turned into speech twice, a
\* list of music for PlayList
NoTone == mpush_get_msg_queue /\ UNCHANGED <<msg_info, tone, missed>>

\* the player refuses the tone, which is taken out of its queue
Refused ==
  /\ msg_info # None
  /\ tone
  /\ tone' = FALSE
  /\ missed' = TRUE
  /\ UNCHANGED <<serviceVars, play_status, msg_info>>

\* the result of the call is not looked at
SetPlayStatus ==
  /\ msg_info # None
  /\ play_status' = 1
  /\ msg_info' = None
  /\ UNCHANGED <<serviceVars, tone, missed>>

-----------------------------------------------------------------------------
(* mpush_msg_event_notify                                                   *)

\* Variant: a tone that another one replaces is told STOP, which clears nothing.
mpush_msg_event_notify_Finished ==
  /\ tone
  /\ tone' = FALSE
  /\ play_status' \in {play_status, 0}
  /\ missed' = (missed \/ msg_info # None)
  /\ UNCHANGED <<serviceVars, msg_info>>

\* paused, finished, stopped or failed, in the task of whoever found it so
mpush_msg_event_notify ==
  /\ tone
  /\ tone' = FALSE
  /\ play_status' = 0
  /\ missed' = (missed \/ msg_info # None)
  /\ UNCHANGED <<serviceVars, msg_info>>

\* the report of the end finds the queue of reports full, and is dropped
EndDropped ==
  /\ tone
  /\ tone' = FALSE
  /\ missed' = TRUE
  /\ UNCHANGED <<serviceVars, play_status, msg_info>>

MsgStep == StartTone \/ NoTone \/ SetPlayStatus
Next ==
  \/ (WifiEvent \/ ServiceStep \/ WorldStep) /\ UNCHANGED msgVars
  \/ MsgStep \/ Refused \/ mpush_msg_event_notify \/ EndDropped

Spec == Init /\ [][Next]_vars

\* both services' tasks run again and again, and a tone ends, told or not; messages are
\* taken between loop timeouts, so that an announcement is always next
FairSpec ==
  /\ Spec
  /\ WF_vars(WifiEvent /\ UNCHANGED msgVars)
  /\ WF_vars(ServiceStep /\ UNCHANGED msgVars)
  /\ WF_vars(MsgStep)
  /\ WF_vars(mpush_msg_event_notify \/ EndDropped)

-----------------------------------------------------------------------------
(* Properties                                                               *)

TypeOK ==
  /\ ServiceTypeOK
  /\ play_status \in {0, 1}
  /\ msg_info \in Spoken \cup {None}
  /\ {tone, missed} \subseteq BOOLEAN

\* A message a user sent is never lost between the server's store, the connection and
\* the queue, and is queued once, across lost links, second announcements, closed
\* connections and frames given up.  It is lost only if there was no memory for it, or
\* the offline reply that carried it was lost, cut short or longer than str_comm_buf;
\* and queued again only if its acknowledgement was lost, a frame was given up, or a
\* reply without a body left an old one in str_comm_buf.
MessagesAreKept == TypeOK /\ NoneLost /\ OnceEach

\* One message is spoken at a time, and the service waits for one that is being
\* spoken and for nothing else: but a tone that ends before play_status is set for
\* it, or whose end is not told, leaves it waiting for ever.
WaitsForItsTone ==
  /\ msg_info # None /\ tone => play_status = 0
  /\ play_status = 1 /\ msg_info = None => tone \/ missed

\* The inductive invariant; a message being started has a tone to come, or missed it.
MpushInv ==
  /\ MessagesAreKept
  /\ WireInv
  /\ CountInv
  /\ ConnectedIsBound
  /\ WaitsForItsTone
  /\ msg_info # None => tone \/ missed

\* Each message queued is taken in the end, unless the service waits for ever, as it
\* does after a tone that ended too soon, was not played or had its report dropped.
MessagesGoOn ==
  msg_queue # << >> ~> msg_queue = << >> \/ (play_status = 1 /\ missed)

\* A device that is on line is connected and bound, or finds the next loss, unless
\* it writes to what was reset or waits for a reply that will not come.
Reconnects ==
  linked ~> ~linked \/ Stranded \/ (status = "CONNECTED" /\ (peer = "alive" \/ cut))
=============================================================================
