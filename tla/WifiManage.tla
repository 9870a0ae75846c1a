----------------------------- MODULE WifiManage -----------------------------
(***************************************************************************)
(* components/wifi_manage/wifi_manage.c: brings the device on line, with    *)
(* the networks it has stored or with one a phone sends by smartconfig, and *)
(* tells the other services by broadcasts.                                  *)
(*                                                                          *)
(* Three tasks touch its status.  The wifi task runs wifi_event_process     *)
(* every 500 ms and wifi_event_callback for each message; a handler reads   *)
(* the status, acts and stores the next status, which are two steps here.   *)
(* The driver's event task looks at the status and posts a message, which   *)
(* is lost when the bus has no memory for it.  The smartconfig task looks   *)
(* at the status, stores the phone's network and then a status itself.      *)
(*                                                                          *)
(* External: the radio, a station that joins the network it was configured  *)
(* with, and smartconfig, which listens for one phone each time it is       *)
(* started.  Time is abstract: a wait may end in its timeout at any moment, *)
(* unless here.prompt.                                                      *)
(***************************************************************************)
EXTENDS Integers, Sequences, FiniteSets

CONSTANTS
  Networks,       \* wifi names, each with its password
  Nothing,        \* the empty string, the null pointer
  Default,        \* WIFI_SSID_DEFAULT, which slot 0 holds
  MAX_WIFI_NUM,   \* slots in flash
  Worlds,         \* what may surround the device, see WorldsAssumption
  MaxEvents       \* bound: driver events waiting, and messages waiting

Slots == 0..MAX_WIFI_NUM - 1

\* DEVICE_WIFI_INFOS_T
Infos == [wifi_info : [Slots -> Networks \cup {Nothing}],
          wifi_storage_index : Slots, wifi_connect_index : Slots]

\* What the saves keep: the factory's network in slot 0, each other network once, no
\* empty slot before one that is filled, and a network in the slots of the one saved
\* last and of the one connected last.
Kept(infos) ==
  /\ infos.wifi_info[0] = Default
  /\ \A i, j \in Slots \ {0} :
        infos.wifi_info[i] = infos.wifi_info[j] /\ infos.wifi_info[i] # Nothing => i = j
  /\ \A i \in Slots : infos.wifi_info[i] # Nothing => \A j \in 0..i : infos.wifi_info[j] # Nothing
  /\ infos.wifi_info[infos.wifi_storage_index] # Nothing
  /\ infos.wifi_info[infos.wifi_connect_index] # Nothing

ASSUME NetworksAssumption == Default \in Networks
ASSUME SlotsAssumption == MAX_WIFI_NUM \in Nat /\ MAX_WIFI_NUM >= 2
ASSUME WorldsAssumption ==
  \A w \in Worlds :
    /\ w.reachable \cup w.sent \subseteq Networks  \* in range; what a phone may send
    /\ w.stored \in Infos                          \* what earlier saves left in flash
    /\ Kept(w.stored)
    /\ w.prompt \in BOOLEAN                        \* attempts end before their timeouts
    /\ w.mayFail \in BOOLEAN                       \* calls of the wifi driver may fail
    /\ w.left \in [keys : Nat, phones : Nat, drops : Nat, losses : Nat]  \* bounds
ASSUME EventsAssumption == MaxEvents \in Nat

VARIABLES
  status,         \* g_wifi_manage_handle->status
  next,           \* what the running handler of the wifi task will store
  msgs,           \* messages the wifi task has to handle
  connect_index,  \* the slot tried last, or -1
  connect_count,  \* the static variable of get_wifi_info
  curr_wifi,      \* the network being connected
  flash,          \* FLASH_CFG_WIFI_INFO
  radio,          \* [state, net]: the station and the network it is set to
  events,         \* driver events not yet given to wifi_event_handle_cb
  sc,             \* smartconfig: "off", "listening" or "linked"
  sc_cb,          \* callback of the smartconfig task: the status it will store, or "UPDATE"
                  \* when the phone's network comes first
  sc_net,         \* the network it got from the phone
  acked,          \* observer: the network of the last phone answered, if none was chosen since
  announced,      \* observer: the last CONNECTED or DISCONNECTED broadcast
  tried,          \* observer: networks tried since connect_index was -1
  ignored,        \* observer: this link's loss was passed over, or the message about it lost
  left,           \* environment: key presses, phones, lost links and lost messages to come
  here            \* environment: the one the device is in

taskVars == <<connect_index, connect_count, curr_wifi, flash, announced, tried>>
envVars == <<radio, events, sc, sc_cb, sc_net, acked, ignored, left>>
wifiVars == <<status, next, msgs, taskVars, envVars>>

Sta == {"STA_ON", "STA_CONNECTING", "STA_CONNECT_WAIT", "STA_CONNECT_SUCCESS",
        "STA_CONNECT_FAIL", "STA_CONNECTED", "STA_DISCONNECTED"}
Smartconfig == {"SMARTCONFIG_ON", "SMARTCONFIG_OFF", "SMARTCONFIG_WAITING",
                "SMARTCONFIG_CONNECT_WAIT", "SMARTCONFIG_CONNECT_SUCCESS",
                "SMARTCONFIG_CONNECT_FAIL"}

ASSUME NothingAssumption ==
  Nothing \notin Networks \cup Sta \cup Smartconfig \cup {"CONNECTED", "DISCONNECTED", "UPDATE"}

WifiInit ==
  /\ status = "STA_ON"
  /\ next = Nothing
  /\ msgs = << >>
  /\ connect_index = -1
  /\ connect_count = 0
  /\ curr_wifi = Nothing
  /\ here \in Worlds
  /\ flash = here.stored
  /\ radio = [state |-> "down", net |-> Nothing]
  /\ events = << >>
  /\ sc = "off"
  /\ sc_cb = Nothing
  /\ sc_net = Nothing
  /\ acked = Nothing
  /\ announced = Nothing
  /\ tried = {}
  /\ ignored = FALSE
  /\ left = here.left

-----------------------------------------------------------------------------
(* get_wifi_info and save_wifi_info                                         *)

\* the slot k turns of the loop after the first
Candidate(k) ==
  LET first == IF connect_index = -1 THEN flash.wifi_connect_index ELSE connect_index + 1
  IN  (first + k) % MAX_WIFI_NUM

\* connect_count in that turn
CountAt(k) == (IF connect_index = -1 THEN 0 ELSE connect_count) + k + 1

\* Variant: >= for >.
Found_TooEarly ==
  {k \in Slots : CountAt(k) < MAX_WIFI_NUM /\ flash.wifi_info[Candidate(k)] # Nothing}

\* turns that find a network before connect_count passes MAX_WIFI_NUM
Found ==
  {k \in Slots : CountAt(k) <= MAX_WIFI_NUM /\ flash.wifi_info[Candidate(k)] # Nothing}

FirstFound == CHOOSE k \in Found : \A j \in Found : k <= j

\* wifi_storage_index of the next new network: round the slots, without slot 0
NextStorage ==
  IF flash.wifi_storage_index = MAX_WIFI_NUM - 1 THEN 1 ELSE flash.wifi_storage_index + 1

\* Variant: a network that is stored already is stored again.
Saved_Always(net) ==
  [wifi_info |-> [flash.wifi_info EXCEPT ![NextStorage] = net],
   wifi_storage_index |-> NextStorage,
   wifi_connect_index |-> NextStorage]

\* save_wifi_info
Saved(net) ==
  LET same == {i \in Slots \ {0} : flash.wifi_info[i] = net}
  IN  IF net = Nothing THEN flash
      ELSE IF same # {}
        THEN [flash EXCEPT !.wifi_connect_index =
                CHOOSE i \in same : \A j \in same : i <= j]
        ELSE [wifi_info |-> [flash.wifi_info EXCEPT ![NextStorage] = net],
              wifi_storage_index |-> NextStorage,
              wifi_connect_index |-> NextStorage]

-----------------------------------------------------------------------------
(* The radio                                                                *)

\* esp_wifi_disconnect: the driver reports the end of a link it had
Disconnect ==
  /\ Len(events) < MaxEvents
  /\ radio' = [radio EXCEPT !.state = "down"]
  /\ events' = IF radio.state = "down" THEN events ELSE Append(events, "DISCONNECTED")

\* esp_wifi_set_config and esp_wifi_connect
Join(net) == radio' = [state |-> "joining", net |-> net]

JoinOk ==
  /\ radio.state = "joining" /\ radio.net \in here.reachable
  /\ Len(events) < MaxEvents
  /\ radio' = [radio EXCEPT !.state = "up"]
  /\ events' = Append(events, "GOT_IP")
  /\ ignored' = FALSE
  /\ UNCHANGED <<status, next, msgs, taskVars, sc, sc_cb, sc_net, acked, left>>

JoinFail ==
  /\ radio.state = "joining" /\ radio.net \notin here.reachable
  /\ Len(events) < MaxEvents
  /\ radio' = [radio EXCEPT !.state = "down"]
  /\ events' = Append(events, "DISCONNECTED")
  /\ UNCHANGED <<status, next, msgs, taskVars, sc, sc_cb, sc_net, acked, ignored, left>>

LinkLost ==
  /\ radio.state = "up" /\ left.drops > 0
  /\ Len(events) < MaxEvents
  /\ radio' = [radio EXCEPT !.state = "down"]
  /\ events' = Append(events, "DISCONNECTED")
  /\ left' = [left EXCEPT !.drops = @ - 1]
  /\ UNCHANGED <<status, next, msgs, taskVars, sc, sc_cb, sc_net, acked, ignored>>

\* wifi_event_handle_cb: SYSTEM_EVENT_STA_GOT_IP and _DISCONNECTED.  That
\* app_send_message had no memory is not looked at.
DriverEvent ==
  /\ events # << >> /\ Len(msgs) < MaxEvents
  /\ events' = Tail(events)
  /\ \/ /\ status \in Sta
        /\ msgs' = Append(msgs, IF Head(events) = "GOT_IP" THEN "CONNECTED" ELSE "DISCONNECTED")
        /\ UNCHANGED <<ignored, left>>
     \/ /\ status \in Sta /\ left.losses > 0
        /\ left' = [left EXCEPT !.losses = @ - 1]
        /\ ignored' = (ignored \/ Head(events) = "DISCONNECTED")
        /\ UNCHANGED msgs
     \/ /\ status \notin Sta
        /\ ignored' = (ignored \/ Head(events) = "DISCONNECTED")
        /\ UNCHANGED <<msgs, left>>
  /\ UNCHANGED <<status, next, taskVars, radio, sc, sc_cb, sc_net, acked>>

-----------------------------------------------------------------------------
(* smartconfig_event_handle_cb, in the smartconfig task                     *)

\* is_wifi_smartconfig_mode() in the callback
ScTest(s) == sc_cb' = IF status \in Smartconfig THEN s ELSE Nothing

\* SC_STATUS_LINK: a phone has sent a network
ScLink ==
  /\ sc = "listening" /\ sc_cb = Nothing
  /\ left.phones > 0
  /\ left' = [left EXCEPT !.phones = @ - 1]
  /\ sc' = "linked"
  /\ \E net \in here.sent :
       /\ sc_net' = net
       /\ Join(net)
  /\ ScTest("UPDATE")
  /\ UNCHANGED <<status, next, msgs, taskVars, events, acked, ignored>>

\* the same, when esp_wifi_set_config or esp_wifi_connect fails
ScLinkFail ==
  /\ here.mayFail
  /\ sc = "listening" /\ sc_cb = Nothing
  /\ left.phones > 0
  /\ left' = [left EXCEPT !.phones = @ - 1]
  /\ sc' = "linked"
  /\ ScTest("SMARTCONFIG_CONNECT_FAIL")
  /\ UNCHANGED <<status, next, msgs, taskVars, radio, events, sc_net, acked, ignored>>

\* SC_STATUS_LINK_OVER: the phone has acknowledged the device's address
ScLinkOver ==
  /\ sc = "linked" /\ sc_cb = Nothing
  /\ radio.state = "up"
  /\ sc' = "off"
  /\ acked' = sc_net
  /\ ScTest("SMARTCONFIG_CONNECT_SUCCESS")
  /\ UNCHANGED <<status, next, msgs, taskVars, radio, events, sc_net, ignored, left>>

\* update_current_wifi_info, under the lock ...
ScUpdate ==
  /\ sc_cb = "UPDATE"
  /\ curr_wifi' = sc_net
  /\ sc_cb' = "SMARTCONFIG_CONNECT_WAIT"
  /\ UNCHANGED <<status, next, msgs, connect_index, connect_count, flash, announced, tried,
                 radio, events, sc, sc_net, acked, ignored, left>>

\* ... and set_wifi_manage_status, which takes it again
ScStore ==
  /\ sc_cb \in Smartconfig
  /\ status' = sc_cb
  /\ sc_cb' = Nothing
  /\ ignored' = (ignored \/ radio.state = "down")
  /\ UNCHANGED <<next, msgs, taskVars, radio, events, sc, sc_net, acked, left>>

-----------------------------------------------------------------------------
(* The wifi task: wifi_event_process                                        *)

InStatus(s) == next = Nothing /\ status = s

\* start_wifi_sta_mode
StaOn ==
  /\ InStatus("STA_ON")
  /\ sc' = "off"
  /\ \/ next' = "STA_CONNECTING" /\ connect_index' = -1 /\ tried' = {}
     \/ here.mayFail /\ UNCHANGED <<next, connect_index, tried>>
  /\ UNCHANGED <<status, msgs, connect_count, curr_wifi, flash, announced,
                 radio, events, sc_cb, sc_net, acked, ignored, left>>

\* get_wifi_info, then wifi_connect, which the driver refuses while it joins
StaConnecting ==
  /\ InStatus("STA_CONNECTING")
  /\ Found # {}
  /\ LET net == flash.wifi_info[Candidate(FirstFound)]
     IN  /\ connect_index' = Candidate(FirstFound)
         /\ connect_count' = CountAt(FirstFound)
         /\ curr_wifi' = net
         /\ tried' = tried \cup {net}
         /\ acked' = Nothing
         /\ \/ Join(net) /\ next' = "STA_CONNECT_WAIT"
            \/ (here.mayFail \/ radio.state = "joining") /\ UNCHANGED <<radio, next>>
  /\ UNCHANGED <<status, msgs, flash, announced, events, sc, sc_cb, sc_net, ignored, left>>

\* get_wifi_info fails: every slot has had its turn
StaExhausted ==
  /\ InStatus("STA_CONNECTING")
  /\ Found = {}
  /\ connect_index' = Candidate(MAX_WIFI_NUM - connect_count)
  /\ connect_count' = 0
  /\ next' = "SMARTCONFIG_ON"
  /\ UNCHANGED <<status, msgs, curr_wifi, flash, announced, tried, envVars>>

\* An answer is on its way; when here.prompt it comes before the wait is over.
Answering == radio.state \in {"joining", "up"} \/ events # << >> \/ msgs # << >>

Timeout == /\ here.prompt => ~Answering
           /\ UNCHANGED <<status, msgs, taskVars, envVars>>

StaTimeout == InStatus("STA_CONNECT_WAIT") /\ next' = "STA_CONNECT_FAIL" /\ Timeout

ScTimeout ==
  InStatus("SMARTCONFIG_CONNECT_WAIT") /\ next' = "SMARTCONFIG_CONNECT_FAIL" /\ Timeout

StaConnectSuccess ==
  /\ InStatus("STA_CONNECT_SUCCESS")
  /\ announced' = "CONNECTED"
  /\ flash' = Saved(curr_wifi)
  /\ next' = "STA_CONNECTED"
  /\ connect_index' = -1
  /\ tried' = {}
  /\ UNCHANGED <<status, msgs, connect_count, curr_wifi, envVars>>

\* STA_CONNECT_FAIL, STA_DISCONNECTED and SMARTCONFIG_CONNECT_FAIL, which sleeps
GoOn ==
  /\ next = Nothing
  /\ \/ status = "STA_CONNECT_FAIL" /\ next' = "STA_CONNECTING"
     \/ status = "STA_DISCONNECTED" /\ next' = "STA_ON"
     \/ status = "SMARTCONFIG_CONNECT_FAIL" /\ next' = "SMARTCONFIG_ON"
  /\ UNCHANGED <<status, msgs, taskVars, envVars>>

\* start_wifi_smartconfig_mode
SmartconfigOn ==
  /\ InStatus("SMARTCONFIG_ON")
  /\ Disconnect
  /\ \/ sc' = "listening" /\ next' = "SMARTCONFIG_WAITING"
     \/ here.mayFail /\ sc' = "off" /\ next' = "SMARTCONFIG_OFF"
  /\ UNCHANGED <<status, msgs, taskVars, sc_cb, sc_net, acked, ignored, left>>

ScConnectSuccess ==
  /\ InStatus("SMARTCONFIG_CONNECT_SUCCESS")
  /\ announced' = "CONNECTED"
  /\ sc' = "off"
  /\ flash' = Saved(curr_wifi)
  /\ next' = "STA_CONNECTED"
  /\ UNCHANGED <<status, msgs, connect_index, connect_count, curr_wifi, tried,
                 radio, events, sc_cb, sc_net, acked, ignored, left>>

\* set_wifi_manage_status at the end of a handler
SetStatus ==
  /\ next # Nothing
  /\ status' = next
  /\ next' = Nothing
  /\ UNCHANGED <<msgs, taskVars, envVars>>

-----------------------------------------------------------------------------
(* The wifi task: wifi_event_callback                                       *)

\* wifi_manage_start_smartconfig, on the wifi setting key
PressKey ==
  /\ left.keys > 0 /\ Len(msgs) < MaxEvents
  /\ left' = [left EXCEPT !.keys = @ - 1]
  /\ msgs' = Append(msgs, "CONFIG")
  /\ UNCHANGED <<status, next, taskVars, radio, events, sc, sc_cb, sc_net, acked, ignored>>

Handle(m) == next = Nothing /\ msgs # << >> /\ Head(msgs) = m /\ msgs' = Tail(msgs)

\* APP_EVENT_WIFI_CONFIG: into smartconfig, or out of it
OnConfig ==
  /\ Handle("CONFIG")
  /\ next' = IF status \in Smartconfig THEN "STA_ON" ELSE "SMARTCONFIG_ON"
  /\ announced' = "DISCONNECTED"
  /\ UNCHANGED <<status, connect_index, connect_count, curr_wifi, flash, tried, envVars>>

OnConnected ==
  /\ Handle("CONNECTED")
  /\ next' = "STA_CONNECT_SUCCESS"
  /\ announced' = "CONNECTED"
  /\ UNCHANGED <<status, connect_index, connect_count, curr_wifi, flash, tried, envVars>>

\* Variant: a loss of the link matters while connecting only.
OnDisconnected_WaitOnly ==
  /\ Handle("DISCONNECTED")
  /\ announced' = "DISCONNECTED"
  /\ next' = IF status = "STA_CONNECT_WAIT" THEN "STA_CONNECT_FAIL" ELSE Nothing
  /\ UNCHANGED <<status, connect_index, connect_count, curr_wifi, flash, tried, envVars>>

OnDisconnected ==
  /\ Handle("DISCONNECTED")
  /\ announced' = "DISCONNECTED"
  /\ \/ status = "STA_CONNECTED" /\ next' = "STA_DISCONNECTED" /\ UNCHANGED ignored
     \/ status = "STA_CONNECT_WAIT" /\ next' = "STA_CONNECT_FAIL" /\ UNCHANGED ignored
     \/ /\ status \notin {"STA_CONNECTED", "STA_CONNECT_WAIT"}
        /\ next' = Nothing
        /\ ignored' = TRUE
  /\ UNCHANGED <<status, connect_index, connect_count, curr_wifi, flash, tried,
                 radio, events, sc, sc_cb, sc_net, acked, left>>

-----------------------------------------------------------------------------
Process == \/ StaOn \/ StaConnecting \/ StaExhausted \/ StaTimeout \/ StaConnectSuccess
           \/ GoOn \/ SmartconfigOn \/ ScTimeout \/ ScConnectSuccess \/ SetStatus

Receive == OnConfig \/ OnConnected \/ OnDisconnected

SmartconfigTask == ScLink \/ ScLinkFail \/ ScLinkOver \/ ScUpdate \/ ScStore

Radio == JoinOk \/ JoinFail \/ LinkLost

WifiNext ==
  /\ Process \/ Receive \/ SmartconfigTask \/ Radio \/ DriverEvent \/ PressKey
  /\ UNCHANGED here

WifiSpec == WifiInit /\ [][WifiNext]_<<wifiVars, here>>

\* The wifi task is given its loop timeouts and its messages, the event task its
\* events; the radio ends each attempt to join.  Nobody must press a key, bring a
\* phone or lose the link.
WifiFairSpec ==
  /\ WifiSpec
  /\ WF_wifiVars(Process) /\ SF_wifiVars(Receive) /\ WF_wifiVars(DriverEvent)
  /\ WF_wifiVars(JoinOk \/ JoinFail) /\ WF_wifiVars(ScUpdate \/ ScStore)

-----------------------------------------------------------------------------
(* Properties                                                               *)

\* Type invariant.
WifiTypeOK ==
  /\ status \in Sta \cup Smartconfig
  /\ next \in Sta \cup Smartconfig \cup {Nothing}
  /\ msgs \in Seq({"CONFIG", "CONNECTED", "DISCONNECTED"})
  /\ connect_index \in Slots \cup {-1}
  /\ connect_count \in 0..MAX_WIFI_NUM
  /\ curr_wifi \in Networks \cup {Nothing}
  /\ flash \in Infos
  /\ radio \in [state : {"down", "joining", "up"}, net : Networks \cup {Nothing}]
  /\ events \in Seq({"GOT_IP", "DISCONNECTED"})
  /\ sc \in {"off", "listening", "linked"}
  /\ sc_cb \in Smartconfig \cup {"UPDATE", Nothing}
  /\ sc_net \in Networks \cup {Nothing}
  /\ acked \in Networks \cup {Nothing}
  /\ announced \in {"CONNECTED", "DISCONNECTED", Nothing}
  /\ tried \subseteq Networks
  /\ ignored \in BOOLEAN
  /\ left \in [keys : 0..here.left.keys, phones : 0..here.left.phones,
              drops : 0..here.left.drops, losses : 0..here.left.losses]
  /\ here \in Worlds

StoredNetworks == {flash.wifi_info[i] : i \in Slots} \ {Nothing}

\* When the wifi task turns to smartconfig by itself, and not for the key, it has
\* tried every network it knows, wherever the round of the slots began and whatever
\* was saved in the meantime.
RoundIsWhole ==
  status = "STA_CONNECTING" /\ next' = "SMARTCONFIG_ON" /\ msgs' = msgs
    => next # Nothing \/ StoredNetworks \subseteq tried

\* When smartconfig has succeeded, the network of the phone that was answered is in
\* flash, though another phone may send its network before the wifi task has saved the
\* first; unless the wifi task has turned to another network since the answer.  It is
\* wrong only between the two calls by which the smartconfig task hands the other
\* phone's network over: then that network is saved in place of the one answered.
\* (The key can have a phone answered whose network was not taken, because the status
\* was another when it came.)
PhoneIsSaved ==
  /\ status = "SMARTCONFIG_CONNECT_SUCCESS" /\ next = Nothing /\ next' = "STA_CONNECTED"
  /\ acked # Nothing /\ here.left.keys = 0
  /\ sc_cb # "SMARTCONFIG_CONNECT_WAIT"
  => acked \in StoredNetworks'

\* No network is passed over, neither one that is stored nor one that is sent.
NothingIsSkipped == [][RoundIsWhole /\ PhoneIsSaved]_wifiVars

\* The ring of slots behind wifi_storage_index never overwrites the factory's network,
\* stores a network once, leaves no slot empty before one that is filled, and both of
\* its indices are of networks, before the ring is full and when it goes round again.
SlotsAreKept ==
  /\ WifiTypeOK
  /\ Kept(flash)

Connected == status = "STA_CONNECTED" /\ next = Nothing

\* The wifi task believes it is connected, there is no link, and nothing is on
\* its way that would tell it so.
Deaf == /\ Connected /\ sc_cb = Nothing
        /\ radio.state = "down" /\ events = << >> /\ msgs = << >>

\* When the wifi task has settled on STA_CONNECTED the other services were told
\* last that there is a connection, however the losses, keys and answers of before
\* were interleaved.  It is wrong only when the loss of this link, or of one before it
\* that was reported late, was reported while the status was neither STA_CONNECT_WAIT
\* nor STA_CONNECTED, or before the smartconfig task stored the success it had seen, or
\* when the bus had no memory for the message about it.
ConnectedIsTrue ==
  /\ Connected => announced = "CONNECTED"
  /\ Deaf => ignored

\* With a stored network in range, nobody at the keys and memory for the driver's
\* messages, the device comes on line and stays there: no network out of range stops the
\* round of the slots.
Connects ==
  here.prompt /\ here.left.losses = 0 /\ StoredNetworks \cap here.reachable # {}
    => <>[](status = "STA_CONNECTED" /\ radio.state = "up")
=============================================================================
