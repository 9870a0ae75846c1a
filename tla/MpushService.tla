---------------------------- MODULE MpushService ----------------------------
(***************************************************************************)
(* components/mpush_service/mpush_service.c: the service that keeps a       *)
(* connection to the push server and queues what is pushed.  Its task works *)
(* through a state machine, one state at each loop timeout, and takes the   *)
(* announcements of wifi_manage in between.                                 *)
(*                                                                          *)
(* The cloud, the server and the socket library are external.  The server   *)
(* keeps a message until it was acknowledged or handed over as an offline   *)
(* message; it knows at once of a connection that either side closes, and   *)
(* later of one that was cut off.  A frame that is longer in coming than    *)
(* its timeouts is given up in its middle, and its rest is taken for what   *)
(* comes next.  The server hands its store over in one reply, which may be  *)
(* lost on its way, cut short or longer than str_comm_buf.  A write to a    *)
(* connection the other side has reset returns a negative number each time, *)
(* which socket.c tries again for ever.                                     *)
(***************************************************************************)
EXTENDS Integers, Sequences, FiniteSets, Functions

CONSTANTS
  Messages,   \* what users send to the device
  None,       \* no message
  MaxFlaps,   \* bound: times the link, the connection or an offline reply is lost, or a write fails
  MaxFaults   \* bound: calls that fail and frames that come too slowly

ASSUME NoneAssumption == None \notin Messages
ASSUME BoundAssumption == {MaxFlaps, MaxFaults} \subseteq Nat

Replying == {"HANDSHAK_WAIT_REPLY", "BINDING_WAIT_REPLY"}
Statuses == Replying \cup
  {"IDEL", "INIT", "UPDATE_DEVICE_INFO", "GET_SERVER_LIST", "GET_OFFLINE_MSG",
   "CONNECTING", "HANDSHAKING", "HANDSHAK_OK", "HANDSHAK_FAIL", "BINDING",
   "BINDING_OK", "BINDING_FAIL", "CONNECTED", "DISCONNECT"}

\* what the server writes, by the command of the frame; the rest of one given up
Replies == {"HANDSHAKE", "BIND"}
Frames == Replies \cup Messages
Rest == "rest"

\* a message is none of the server's other frames
ASSUME FramesAssumption == Messages \cap (Replies \cup {Rest}) = {}

VARIABLES
  status,       \* handler->status
  update_device_info_count,
  msg_queue,    \* handler->msg_queue
  str_push_msg, \* the last message decoded
  str_comm_buf, \* handler->str_comm_buf, by the messages that are decoded from it
  inbox,        \* announcements of wifi_manage
  hung,         \* the task is in sock_write on a connection that was reset
  linked,       \* the device is on line
  peer,         \* other end of server_sock: "none", "alive", "gone" or "reset"
  wire,         \* what has been written to server_sock and not been read
  bound,        \* the server takes the device for bound on this connection
  stored,       \* messages the server keeps for a device that is not there
  pushed,       \* messages it has pushed on this connection, not acknowledged
  sent,         \* observer: messages users have sent
  taken,        \* observer: times each message was taken from msg_queue
  unsure,       \* observer: messages whose acknowledgement was lost
  forgotten,    \* observer: messages there was no memory for
  unread,       \* observer: messages handed over in a reply that could not be read
  again,        \* observer: messages decoded again from what was left in str_comm_buf
  cut,          \* observer: a frame was given up in its middle
  flaps, faults

device == <<status, update_device_info_count, msg_queue, str_push_msg, str_comm_buf>>
link == <<inbox, linked>>
server == <<peer, wire, bound, stored, pushed>>
seen == <<sent, taken, unsure, forgotten, unread, again>>
serviceVars == <<device, link, hung, server, seen, flaps, faults, cut>>

ServiceInit ==
  /\ status = "IDEL"
  /\ update_device_info_count = 0
  /\ msg_queue = << >>
  /\ str_push_msg = None
  /\ str_comm_buf = << >>
  /\ inbox = << >>
  /\ hung = FALSE
  /\ linked = FALSE
  /\ peer = "none"
  /\ wire = << >>
  /\ bound = FALSE
  /\ stored = {}
  /\ pushed = {}
  /\ sent = {}
  /\ taken = [m \in Messages |-> 0]
  /\ unsure = {}
  /\ forgotten = {}
  /\ unread = {}
  /\ again = {}
  /\ cut = FALSE
  /\ flaps = 0
  /\ faults = 0

-----------------------------------------------------------------------------
(* Calls of the cloud, the heap and the socket                              *)

\* a call fails by choice, or because there is no link
Fault == faults < MaxFaults /\ faults' = faults + 1
CallFails == IF linked THEN Fault ELSE UNCHANGED faults
CallSucceeds == linked /\ UNCHANGED faults

\* mpush_add_msg_queue, for each of a sequence of messages
Add(q) ==
  \/ msg_queue' = msg_queue \o q /\ UNCHANGED <<forgotten, faults>>
  \/ \E i \in DOMAIN q :
       /\ Fault
       /\ msg_queue' = msg_queue \o [j \in 1..(Len(q) - 1) |-> IF j < i THEN q[j] ELSE q[j + 1]]
       /\ forgotten' = forgotten \cup {q[i]}

\* sock_close: what the other side had pushed is now in its store
Close ==
  /\ peer' = "none"
  /\ wire' = << >>
  /\ bound' = FALSE
  /\ stored' = stored \cup pushed
  /\ pushed' = {}

\* sock_write to server_sock, answered by the server with reply; what was cut off
\* answers the first write with a reset
Written(reply) ==
  /\ peer \in {"alive", "gone"}
  /\ IF peer = "alive"
     THEN wire' = wire \o reply /\ UNCHANGED peer
     ELSE peer' = "reset" /\ UNCHANGED wire
  /\ UNCHANGED <<hung, faults, flaps>>

\* send returns 0, the one result that sock_write gives up at
NotWritten ==
  /\ flaps < MaxFlaps
  /\ flaps' = flaps + 1
  /\ UNCHANGED <<hung, peer, wire, faults>>

\* send returns a negative number, again and again
Hangs == peer = "reset" /\ hung' = TRUE /\ UNCHANGED <<peer, wire, faults, flaps>>

-----------------------------------------------------------------------------
(* mpush_event_callback and mpush_client_process                            *)

\* the task is at a loop timeout in the state s
At(s) == ~hung /\ status = s

WifiEvent ==
  /\ ~hung
  /\ inbox # << >>
  /\ status' = IF Head(inbox) = "CONNECTED" THEN "INIT" ELSE "DISCONNECT"
  /\ inbox' = Tail(inbox)
  /\ UNCHANGED <<update_device_info_count, msg_queue, str_push_msg, str_comm_buf, hung, linked, server,
                 seen, flaps, faults, cut>>

\* a device without a number asks for one; the count starts again only then
InitState ==
  /\ At("INIT")
  /\ \/ /\ status' = "UPDATE_DEVICE_INFO"
        /\ \/ UNCHANGED <<update_device_info_count, faults>>
           \/ CallSucceeds /\ update_device_info_count' = 0
     \/ CallFails /\ UNCHANGED <<status, update_device_info_count>>
  /\ UNCHANGED <<msg_queue, str_push_msg, str_comm_buf, link, hung, server, seen, flaps, cut>>

Smaller(a, b) == IF a < b THEN a ELSE b

\* the server list: the state s stays what it was when there is none
ServerList(s) ==
  \/ CallSucceeds /\ status' = "GET_OFFLINE_MSG"
  \/ CallFails /\ status' = s

\* the state falls through into the next one, whether the update failed or not; the
\* count is compared with 3 only, and goes no further here
UpdateDeviceInfo ==
  /\ At("UPDATE_DEVICE_INFO")
  /\ \/ linked /\ ServerList("GET_SERVER_LIST") /\ UNCHANGED update_device_info_count
     \/ /\ CallFails
        /\ update_device_info_count' = Smaller(update_device_info_count + 1, 3)
        /\ \/ linked /\ status' = "GET_OFFLINE_MSG"
           \/ status' = IF update_device_info_count' = 3 THEN "GET_SERVER_LIST" ELSE status
  /\ UNCHANGED <<msg_queue, str_push_msg, str_comm_buf, link, hung, server, seen, flaps, cut>>

GetServerList ==
  /\ At("GET_SERVER_LIST")
  /\ ServerList(status)
  /\ UNCHANGED <<update_device_info_count, msg_queue, str_push_msg, str_comm_buf, link, hung, server,
                 seen, flaps, cut>>

\* the reply is lost, comes in part or is an error, and is asked for again; or it is cut
\* to the length of str_comm_buf, or has no list, and nothing is decoded; or it has no
\* body, and what str_comm_buf was left with is decoded
SpoiledReply ==
  /\ flaps < MaxFlaps
  /\ flaps' = flaps + 1
  /\ \E handed \in {{}, stored} : stored' = stored \ handed /\ unread' = unread \cup handed
  /\ \/ UNCHANGED <<status, msg_queue, str_comm_buf, forgotten, again, faults>>
     \/ /\ status' = "CONNECTING"
        /\ str_comm_buf' = << >>
        /\ UNCHANGED <<msg_queue, forgotten, again, faults>>
     \/ /\ status' = "CONNECTING"
        /\ Add(str_comm_buf)
        /\ again' = again \cup Range(str_comm_buf)
        /\ UNCHANGED str_comm_buf

\* the messages in the order the server chooses; the state goes on when the reply was
\* taken, whatever could be made of it
GetOfflineMsg ==
  /\ At("GET_OFFLINE_MSG")
  /\ \/ /\ linked
        /\ \E q \in [1..Cardinality(stored) -> stored] :
             IsInjective(q) /\ Add(q) /\ str_comm_buf' = q
        /\ stored' = {}
        /\ status' = "CONNECTING"
        /\ UNCHANGED <<flaps, unread, again>>
     \/ linked /\ SpoiledReply
     \/ CallFails /\ UNCHANGED <<status, msg_queue, str_comm_buf, stored, forgotten, flaps, unread, again>>
  /\ UNCHANGED <<update_device_info_count, str_push_msg, link, hung, peer, wire, bound, pushed,
                 sent, taken, unsure, cut>>

\* mpush_connect closes the old connection first
Connect ==
  /\ At("CONNECTING")
  /\ \/ CallSucceeds /\ status' = "HANDSHAKING" /\ peer' = "alive"
     \/ CallFails /\ UNCHANGED status /\ peer' = "none"
  /\ wire' = << >>
  /\ bound' = FALSE
  /\ stored' = stored \cup pushed
  /\ pushed' = {}
  /\ UNCHANGED <<update_device_info_count, msg_queue, str_push_msg, str_comm_buf, link, hung, seen, flaps,
                 cut>>

\* mpush_handshake and mpush_bind_user make their frames in str_comm_buf, which begin with
\* a zero byte and leave no text there
Ask(s, reply, next, failed) ==
  /\ At(s)
  /\ \/ Written(<<reply>>) /\ status' = next
     \/ NotWritten /\ status' = failed
     \/ Hangs /\ UNCHANGED status
  /\ bound' = (bound \/ (reply = "BIND" /\ wire' # wire))
  /\ str_comm_buf' = << >>
  /\ UNCHANGED <<update_device_info_count, msg_queue, str_push_msg, link, stored, pushed, seen, cut>>

\* Variant: a handshake that could not be written goes to the state made for it.
Handshake_Fail == Ask("HANDSHAKING", "HANDSHAKE", "HANDSHAK_WAIT_REPLY", "HANDSHAK_FAIL")

Handshake == Ask("HANDSHAKING", "HANDSHAKE", "HANDSHAK_WAIT_REPLY", "CONNECTING")

BindUser == Ask("BINDING", "BIND", "BINDING_WAIT_REPLY", "CONNECTING")

\* Variant: a device that has shaken hands is connected.
Advance_Unbound ==
  /\ \/ At("HANDSHAK_OK") /\ status' = "CONNECTED"
     \/ At("BINDING_OK") /\ status' = "CONNECTED"
  /\ UNCHANGED <<update_device_info_count, msg_queue, str_push_msg, str_comm_buf, link, hung, server,
                 seen, flaps, faults, cut>>

Advance ==
  /\ \/ At("HANDSHAK_OK") /\ status' = "BINDING"
     \/ At("BINDING_OK") /\ status' = "CONNECTED"
  /\ UNCHANGED <<update_device_info_count, msg_queue, str_push_msg, str_comm_buf, link, hung, server,
                 seen, flaps, faults, cut>>

\* Variant: the messages of an old connection are cleared with it.
Disconnect_Clear ==
  /\ At("DISCONNECT")
  /\ Close
  /\ msg_queue' = << >>
  /\ UNCHANGED <<status, update_device_info_count, str_push_msg, str_comm_buf, link, hung, seen, flaps,
                 faults, cut>>

Disconnect ==
  /\ At("DISCONNECT")
  /\ Close
  /\ UNCHANGED <<device, link, hung, seen, flaps, faults, cut>>

-----------------------------------------------------------------------------
(* mpush_client_receive and mpush_client_process_msg                        *)

\* a reply, or a command without effect, found in the state s
Reply(f, s) ==
  /\ status' = CASE f = "HANDSHAKE" -> "HANDSHAK_OK"
                 [] f = "BIND" -> "BINDING_OK"
                 [] OTHER -> s
  /\ UNCHANGED <<msg_queue, pushed, unsure, forgotten>>

\* the acknowledgement, which the server knows by its session number
Acknowledge(m) == pushed' = pushed \ {m}

\* a message is acknowledged and then added; nobody asks if the first was written
Push(m, s) ==
  /\ status' = s
  /\ \/ peer = "alive" /\ Acknowledge(m) /\ UNCHANGED unsure /\ Add(<<m>>)
     \/ /\ peer = "alive" => faults < MaxFaults
        /\ unsure' = unsure \cup {m}
        /\ faults' = IF peer = "alive" THEN faults + 1 ELSE faults
        /\ msg_queue' = Append(msg_queue, m)
        /\ UNCHANGED <<pushed, forgotten>>

\* the first frame has come whole
WholeFrame(s) ==
  LET f == Head(wire)
  IN  /\ f # Rest
      /\ wire' = Tail(wire)
      /\ IF f \in Messages
         THEN str_push_msg' = f /\ Push(f, s)
         ELSE Reply(f, s) /\ UNCHANGED <<str_push_msg, faults>>
      /\ UNCHANGED cut

\* its head or its body is longer in coming than the timeouts allow; what comes of
\* the rest is one or two commands
CutFrame(s) ==
  /\ Head(wire) # Rest
  /\ Fault
  /\ cut' = TRUE
  /\ \E n \in 1..2 : wire' = [i \in 1..n |-> Rest] \o Tail(wire)
  /\ status' = s
  /\ UNCHANGED <<msg_queue, str_push_msg, pushed, unsure, forgotten>>

\* a byte of the rest is taken for a command, a push adding the last one again; or some
\* for the head of a frame, which takes in what comes next
RestOfFrame(s) ==
  /\ Head(wire) = Rest
  /\ \/ \E f \in Replies \cup {Rest} : wire' = Tail(wire) /\ Reply(f, s)
     \/ /\ str_push_msg # None
        /\ wire' = Tail(wire)
        /\ msg_queue' = Append(msg_queue, str_push_msg)
        /\ status' = s
        /\ UNCHANGED <<pushed, unsure, forgotten>>
     \/ /\ Len(wire) > 1
        /\ wire' = Tail(Tail(wire))
        /\ Reply(Rest, s)
  /\ UNCHANGED <<str_push_msg, faults, cut>>

\* what comes in half a second, if anything does
Receive(s) ==
  \/ wire # << >> /\ (WholeFrame(s) \/ CutFrame(s) \/ RestOfFrame(s))
  \/ status' = s /\ UNCHANGED <<msg_queue, str_push_msg, wire, pushed, unsure, forgotten, faults, cut>>

AwaitReply ==
  /\ ~hung /\ status \in Replying
  /\ Receive(status)
  /\ UNCHANGED <<update_device_info_count, link, hung, peer, bound, stored, sent, taken, str_comm_buf,
                 unread, again, flaps>>

\* a heartbeat is written when it is due, and then it receives; after one that could
\* not be written it receives in the state it has changed to
Connected ==
  /\ At("CONNECTED")
  /\ \/ /\ peer' \in {peer, IF peer = "gone" THEN "reset" ELSE peer}
        /\ Receive("CONNECTED")
        /\ UNCHANGED <<hung, flaps>>
     \/ /\ flaps < MaxFlaps
        /\ flaps' = flaps + 1
        /\ Receive("CONNECTING")
        /\ UNCHANGED <<hung, peer>>
     \/ Hangs /\ UNCHANGED <<status, msg_queue, str_push_msg, pushed, unsure, forgotten, cut>>
  /\ UNCHANGED <<update_device_info_count, link, bound, stored, sent, taken, str_comm_buf,
                 unread, again>>

ServiceStep ==
  \/ InitState \/ UpdateDeviceInfo \/ GetServerList \/ GetOfflineMsg \/ Connect
  \/ Handshake \/ BindUser \/ Advance \/ Disconnect
  \/ AwaitReply \/ Connected

-----------------------------------------------------------------------------
(* wifi_manage, the server and its users                                    *)

\* wifi_manage announces each change twice
LinkUp ==
  /\ ~linked
  /\ linked' = TRUE
  /\ inbox' = inbox \o <<"CONNECTED", "CONNECTED">>
  /\ UNCHANGED <<device, hung, server, seen, flaps, faults, cut>>

\* what is on its way is lost, and the server is not told
CutOff == peer' = (IF peer = "none" THEN peer ELSE "gone") /\ wire' = << >>

LinkDown ==
  /\ linked
  /\ flaps < MaxFlaps
  /\ flaps' = flaps + 1
  /\ linked' = FALSE
  /\ inbox' = inbox \o <<"DISCONNECTED", "DISCONNECTED">>
  /\ CutOff
  /\ UNCHANGED <<device, hung, bound, stored, pushed, seen, faults, cut>>

\* the server stops, or closes a connection it has not heard of for long
ServerCloses ==
  /\ peer = "alive"
  /\ flaps < MaxFlaps
  /\ flaps' = flaps + 1
  /\ CutOff
  /\ bound' = FALSE
  /\ stored' = stored \cup pushed
  /\ pushed' = {}
  /\ UNCHANGED <<device, link, hung, seen, faults, cut>>

ServerNotices ==
  /\ peer \in {"gone", "reset"}
  /\ bound
  /\ bound' = FALSE
  /\ stored' = stored \cup pushed
  /\ pushed' = {}
  /\ UNCHANGED <<device, link, hung, peer, wire, seen, flaps, faults, cut>>

UserSends(m) ==
  /\ m \notin sent
  /\ sent' = sent \cup {m}
  /\ IF bound
     THEN /\ pushed' = pushed \cup {m}
          /\ wire' = IF peer = "alive" THEN Append(wire, m) ELSE wire
          /\ UNCHANGED stored
     ELSE stored' = stored \cup {m} /\ UNCHANGED <<pushed, wire>>
  /\ UNCHANGED <<device, link, hung, peer, bound, taken, unsure, forgotten, unread, again,
                 flaps, faults, cut>>

WorldStep == LinkUp \/ LinkDown \/ ServerCloses \/ ServerNotices \/ \E m \in Messages : UserSends(m)

-----------------------------------------------------------------------------
(* Properties                                                               *)

ServiceTypeOK ==
  /\ status \in Statuses
  /\ update_device_info_count \in 0..3
  /\ msg_queue \in Seq(Messages)
  /\ str_push_msg \in Messages \cup {None}
  /\ str_comm_buf \in Seq(sent)
  /\ inbox \in Seq({"CONNECTED", "DISCONNECTED"})
  /\ {hung, linked, bound, cut} \subseteq BOOLEAN
  /\ peer \in {"none", "alive", "gone", "reset"}
  /\ wire \in Seq(Frames \cup {Rest})
  /\ stored \cup pushed \cup unsure \cup forgotten \cup unread \cup again \subseteq sent
  /\ stored \cap pushed = {}
  /\ sent \subseteq Messages
  /\ taken \in [Messages -> Nat]
  /\ flaps \in 0..MaxFlaps /\ faults \in 0..MaxFaults

Times(m) == taken[m] + Cardinality({i \in DOMAIN msg_queue : msg_queue[i] = m})

\* A message a user sent is with the server until the device has it, across every
\* loss of the connection, second announcement and frame given up; only one there
\* is no memory for is lost, as it is acknowledged first, or one in an offline reply
\* that could not be read.
NoneLost == \A m \in sent : m \in stored \cup pushed \cup forgotten \cup unread \/ Times(m) > 0

\* It is queued once, unless its acknowledgement was lost or a frame was given up in
\* its middle: then the server sends it again, or the device decodes it again; or
\* unless a reply without a body had the device decode an old reply again.
OnceEach == \A m \in sent : Times(m) <= 1 \/ m \in unsure \cup again \/ cut

\* The service takes itself for connected only when the server has bound it on this
\* very connection or the connection is no more, unless the bytes of a frame given
\* up were taken for replies.
ConnectedIsBound ==
  status \in {"BINDING_OK", "CONNECTED"} => bound \/ peer # "alive" \/ cut

\* What is on the wire: nothing if the connection is no more, a message only while the
\* server keeps it for this connection, and once; a rest only of a frame given up, and
\* the answer to a bind only of a device that is bound.
WireInv ==
  /\ peer # "alive" => wire = << >>
  /\ \A i \in DOMAIN wire : wire[i] \in Messages => wire[i] \in pushed
  /\ \A i, j \in DOMAIN wire : wire[i] = wire[j] /\ wire[i] \in Messages => i = j
  /\ \A i \in DOMAIN wire : wire[i] = Rest => cut
  /\ \A i \in DOMAIN wire : wire[i] = "BIND" => bound \/ cut

\* What was not sent was not queued, nor was what the server still has, but for a
\* message whose acknowledgement was lost, an old reply or a frame given up; and a
\* reply has each message once.
CountInv ==
  /\ IsFiniteSet(sent)
  /\ str_push_msg # None => str_push_msg \in sent
  /\ IsInjective(str_comm_buf)
  /\ \A m \in Messages \ sent : Times(m) = 0
  /\ \A m \in stored \cup pushed : Times(m) = 0 \/ m \in unsure \cup again \/ cut

\* what the service does not come out of by itself: a write to a connection that was
\* reset, and the wait for a reply that will not come
Stranded ==
  \/ hung
  \/ (status \in Replying /\ wire = << >> /\ (peer # "alive" \/ cut))
=============================================================================
