-------------------------- MODULE Services_proofs ---------------------------
(***************************************************************************)
(* Proofs about four services that share no state: the networks of          *)
(* WifiManage, the spoken messages of WechatSend, the device's sleep in     *)
(* PowerManage, the music of PlayList.                                      *)
(*                                                                          *)
(* Networks, for any number of slots and anything a world may hold: what    *)
(* the saves keep is inductive by itself (SavedFacts).  LossIsTold follows  *)
(* the loss of a link from the driver's report to the message about it;     *)
(* TurnIs says where the round of the slots is; PhoneInv follows a phone's  *)
(* network from the callback to the current one.                            *)
(*                                                                          *)
(* Spoken messages, for any number of recordings, frames, presses and       *)
(* faults: a message is made of a recording, and what keeps it in one place *)
(* is where its recording is.  WaysApart says that a recording that has not *)
(* given a frame is known to nobody, and that only one that is over has an  *)
(* end, a result or a message to send; InOrder and Cached, that no other    *)
(* recording is under way while a message is in the cache, unless that was  *)
(* made after the key's test for the next one.                              *)
(*                                                                          *)
(* Sleep, for any limits, any length of time and any charger: each note of  *)
(* an activity ties the stamp to the time nothing was done (StampIsNoted),  *)
(* and each pass with the charger plugged in brings the charging state one  *)
(* step nearer to the one that notes an activity itself (ChargerNoticed).   *)
(*                                                                          *)
(* Music, for any callers, lists, lengths of a queue and numbers of plays:  *)
(* an object belongs to who holds it (HandsFull, ObjectOwnership), and the  *)
(* list's play is in its hand, then with the player, then in a status, then *)
(* in an event (PlayedInTurn, EndsAfterPlay), one place after the other.    *)
(***************************************************************************)
EXTENDS WechatSend, PowerManage, PlayList, WifiManage, Queues_proofs, FiniteSetTheorems,
  WellFoundedInduction

-----------------------------------------------------------------------------
(* The slots                                                                *)

LEMMA SlotIs == ASSUME NEW n \in Nat PROVE n % MAX_WIFI_NUM \in Slots
BY SlotsAssumption DEF Slots

\* A set of numbers that is not empty has a least one.
LEMMA LeastExists ==
  ASSUME NEW S \in SUBSET Nat, S # {}
  PROVE  \E k \in S : \A j \in S : k <= j
<1> DEFINE R == {p \in Nat \X Nat : p[1] < p[2]}
<1>1. IsWellFoundedOn(R, Nat)
  BY NatLessThanWellFounded DEF OpToRel
<1>2. PICK k \in S : \A j \in S : <<j, k>> \notin R
  <2> HIDE DEF R
  <2>1. QED
    BY <1>1, WFMin
<1>3. \A j \in S : k <= j
  <2>1. ASSUME NEW j \in S, ~(k <= j) PROVE FALSE
    <3>1. j < k /\ j \in Nat /\ k \in Nat
      BY <2>1
    <3>2. <<j, k>> \in R
      BY <3>1
    <3>3. QED
      BY <1>2, <3>2
  <2>2. QED
    BY <2>1
<1>4. QED
  BY <1>3

LEMMA FirstFoundFacts ==
  ASSUME Found # {}
  PROVE  FirstFound \in Found /\ \A j \in Found : FirstFound <= j
<1>1. Found \in SUBSET Nat
  BY DEF Found, Slots
<1>2. \E k \in Found : \A j \in Found : k <= j
  BY <1>1, LeastExists
<1>3. QED
  BY <1>2 DEF FirstFound

LEMMA CandidateIs ==
  ASSUME WifiTypeOK, NEW k \in Nat
  PROVE  Candidate(k) \in Slots
<1>1. connect_index \in Slots \cup {-1} /\ flash.wifi_connect_index \in Slots
  BY DEF WifiTypeOK, Infos
<1>2. (IF connect_index = -1 THEN flash.wifi_connect_index ELSE connect_index + 1) + k \in Nat
  BY <1>1 DEF Slots
<1>3. QED
  BY <1>2, SlotIs DEF Candidate

\* Where the new network goes is a slot, and not slot 0.
LEMMA NextStorageIs == ASSUME WifiTypeOK PROVE NextStorage \in Slots \ {0}
<1>1. flash.wifi_storage_index \in Slots
  BY DEF WifiTypeOK, Infos
<1>2. QED
  BY <1>1, SlotsAssumption DEF NextStorage, Slots

\* save_wifi_info keeps the ring, and stores the network it is given.
LEMMA SavedFacts ==
  ASSUME SlotsAreKept, NEW net \in Networks \cup {Nothing}
  PROVE  /\ Saved(net) \in Infos /\ Kept(Saved(net))
         /\ net # Nothing => \E i \in Slots : Saved(net).wifi_info[i] = net
<1>0. flash \in Infos /\ Kept(flash) /\ WifiTypeOK
  BY DEF SlotsAreKept, WifiTypeOK
<1>1. /\ flash.wifi_info \in [Slots -> Networks \cup {Nothing}]
      /\ flash.wifi_storage_index \in Slots /\ flash.wifi_connect_index \in Slots
      /\ flash = [wifi_info |-> flash.wifi_info, wifi_storage_index |-> flash.wifi_storage_index,
                  wifi_connect_index |-> flash.wifi_connect_index]
  BY <1>0 DEF Infos
<1>2. CASE net = Nothing
  BY <1>0, <1>2 DEF Saved
<1> DEFINE same == {i \in Slots \ {0} : flash.wifi_info[i] = net}
<1>3. CASE net # Nothing /\ same # {}
  <2>1. same \in SUBSET Nat
    BY DEF Slots
  <2>2. \E i \in same : \A j \in same : i <= j
    <3> HIDE DEF same
    <3>1. QED
      BY <1>3, <2>1, LeastExists
  <2> DEFINE c == CHOOSE i \in same : \A j \in same : i <= j
  <2>3. c \in same
    <3> HIDE DEF same
    <3>1. QED
      BY <2>2
  <2>4. Saved(net) = [flash EXCEPT !.wifi_connect_index = c]
    BY <1>3 DEF Saved
  <2> HIDE DEF c
  <2>5. c \in Slots /\ flash.wifi_info[c] = net
    BY <2>3
  <2>6. /\ Saved(net).wifi_info = flash.wifi_info
        /\ Saved(net).wifi_connect_index = c
        /\ Saved(net).wifi_storage_index = flash.wifi_storage_index
        /\ Saved(net) \in Infos
    BY <1>1, <2>4, <2>5 DEF Infos
  <2>7. QED
    BY <1>0, <1>3, <2>5, <2>6 DEF Kept
<1>4. CASE net # Nothing /\ same = {}
  <2> DEFINE n == NextStorage
             w == [flash.wifi_info EXCEPT ![n] = net]
  <2>1. n \in Slots /\ n # 0
    BY <1>0, NextStorageIs
  <2>2. Saved(net) = [wifi_info |-> w, wifi_storage_index |-> n, wifi_connect_index |-> n]
    BY <1>4 DEF Saved
  <2> HIDE DEF n
  <2>3. /\ w \in [Slots -> Networks \cup {Nothing}] /\ w[n] = net
        /\ \A i \in Slots \ {n} : w[i] = flash.wifi_info[i]
    BY <1>1, <2>1
  <2> HIDE DEF w
  <2>4. /\ Saved(net) \in Infos
        /\ Saved(net).wifi_info = w /\ Saved(net).wifi_connect_index = n
        /\ Saved(net).wifi_storage_index = n
    BY <2>1, <2>2, <2>3 DEF Infos
  <2>5. w[0] = Default
    BY <1>0, <2>1, <2>3, SlotsAssumption DEF Kept, Slots
  <2>6. ASSUME NEW i \in Slots \ {0}, NEW j \in Slots \ {0}, w[i] = w[j], w[i] # Nothing
        PROVE  i = j
    <3>1. CASE i # n /\ j # n
      BY <1>0, <2>3, <2>6, <3>1 DEF Kept
    <3>2. CASE i = n /\ j # n
      BY <1>4, <2>3, <2>6, <3>2
    <3>3. CASE i # n /\ j = n
      BY <1>4, <2>3, <2>6, <3>3
    <3>4. QED
      BY <3>1, <3>2, <3>3
  <2>7. ASSUME NEW i \in Slots, w[i] # Nothing, NEW j \in 0..i
        PROVE  w[j] # Nothing
    <3>0. j \in Slots /\ n \in Nat /\ i \in Nat /\ j <= i
      BY <2>1, <2>7, SlotsAssumption DEF Slots
    <3>1. CASE j = n
      BY <1>4, <2>3, <3>1
    <3>2. CASE j # n /\ i # n
      <4>1. flash.wifi_info[i] # Nothing
        BY <2>3, <2>7, <3>2
      <4>2. flash.wifi_info[j] # Nothing
        BY <1>0, <4>1 DEF Kept
      <4>3. QED
        BY <2>3, <3>0, <3>2, <4>2
    <3>3. CASE j # n /\ i = n
      <4> DEFINE g == flash.wifi_storage_index
      <4>1. g \in Slots /\ flash.wifi_info[g] # Nothing
        BY <1>0, <1>1 DEF Kept
      <4>2. g \in Nat /\ n <= g + 1
        BY <1>1, SlotsAssumption DEF n, NextStorage, Slots
      <4> HIDE DEF g
      <4>3. j \in 0..g
        BY <3>0, <3>3, <4>2
      <4>4. flash.wifi_info[j] # Nothing
        BY <1>0, <4>1, <4>3 DEF Kept
      <4>5. QED
        BY <2>3, <3>0, <3>3, <4>4
    <3>4. QED
      BY <3>1, <3>2, <3>3
  <2>8. QED
    BY <1>4, <2>1, <2>3, <2>4, <2>5, <2>6, <2>7 DEF Kept
<1>5. QED
  BY <1>2, <1>3, <1>4

-----------------------------------------------------------------------------
(* SlotsAreKept                                                             *)

WifiMessages == {"CONFIG", "CONNECTED", "DISCONNECTED"}
DriverReports == {"GOT_IP", "DISCONNECTED"}

\* What may still happen
Budget == [keys : 0..here.left.keys, phones : 0..here.left.phones,
           drops : 0..here.left.drops, losses : 0..here.left.losses]

\* A step that leaves flash alone has only the types to keep.
LEMMA SlotsStay ==
  ASSUME SlotsAreKept, UNCHANGED flash, WifiTypeOK'
  PROVE  SlotsAreKept'
BY DEF SlotsAreKept, Kept

LEMMA SlotsInit == WifiInit => SlotsAreKept
<1> SUFFICES ASSUME WifiInit PROVE SlotsAreKept
  OBVIOUS
<1> USE DEF Budget
<1>1. /\ here \in Worlds /\ here.stored \in Infos /\ Kept(here.stored)
      /\ here.left \in [keys : Nat, phones : Nat, drops : Nat, losses : Nat]
  BY WorldsAssumption DEF WifiInit
<1>2. here.left \in Budget
  BY <1>1
<1>3. msgs \in Seq(WifiMessages) /\ events \in Seq(DriverReports)
  BY DEF WifiInit
<1>4. WifiTypeOK
  <2>1. /\ status \in Sta /\ connect_count \in 0..MAX_WIFI_NUM /\ flash \in Infos
        /\ radio \in [state : {"down", "joining", "up"}, net : Networks \cup {Nothing}]
        /\ left \in Budget
        /\ tried \subseteq Networks /\ sc \in {"off", "listening", "linked"}
    BY <1>1, <1>2, SlotsAssumption DEF WifiInit, Sta
  <2>2. ignored \in BOOLEAN
    BY Zenon DEF WifiInit
  <2>3. QED
    BY <1>1, <1>3, <2>1, <2>2 DEF WifiInit, WifiTypeOK, WifiMessages, DriverReports
<1>5. QED
  BY <1>1, <1>4 DEF SlotsAreKept, WifiInit

LEMMA SlotsNext ==
  ASSUME SlotsAreKept, WifiNext
  PROVE  SlotsAreKept'
<1> USE DEF taskVars, envVars, Budget
<1>0. /\ WifiTypeOK /\ Kept(flash) /\ UNCHANGED here
      /\ msgs \in Seq(WifiMessages) /\ events \in Seq(DriverReports)
  BY DEF SlotsAreKept, WifiNext, WifiTypeOK, WifiMessages, DriverReports
<1>w. /\ here \in Worlds /\ here.left.keys \in Nat /\ here.left.phones \in Nat
      /\ here.left.drops \in Nat /\ here.left.losses \in Nat /\ here.sent \subseteq Networks
  BY <1>0, WorldsAssumption DEF WifiTypeOK
<1>l. /\ left = [keys |-> left.keys, phones |-> left.phones, drops |-> left.drops, losses |-> left.losses]
      /\ left.keys \in 0..here.left.keys /\ left.phones \in 0..here.left.phones
      /\ left.drops \in 0..here.left.drops /\ left.losses \in 0..here.left.losses
  BY <1>0 DEF WifiTypeOK
<1>m. \A m \in WifiMessages : Append(msgs, m) \in Seq(WifiMessages)
  BY <1>0
<1>e. \A e \in DriverReports : Append(events, e) \in Seq(DriverReports)
  BY <1>0
<1>t. /\ msgs # << >> => Tail(msgs) \in Seq(WifiMessages) /\ Head(msgs) \in WifiMessages
      /\ events # << >> => Tail(events) \in Seq(DriverReports) /\ Head(events) \in DriverReports
  BY <1>0
<1>1. CASE StaOn
  <2>1. WifiTypeOK'
    BY <1>0, <1>1 DEF StaOn, WifiTypeOK, Sta
  <2>2. QED
    BY <1>1, <2>1, SlotsStay DEF StaOn
<1>2. CASE StaConnecting
  <2>1. FirstFound \in Nat /\ CountAt(FirstFound) \in 0..MAX_WIFI_NUM /\ FirstFound \in Found
    <3>1. FirstFound \in Found
      BY <1>2, FirstFoundFacts DEF StaConnecting
    <3>2. FirstFound \in Nat /\ CountAt(FirstFound) <= MAX_WIFI_NUM
      BY <3>1 DEF Found, Slots
    <3>3. connect_count \in Nat
      BY <1>0, SlotsAssumption DEF WifiTypeOK
    <3>4. CountAt(FirstFound) \in Nat
      BY <3>2, <3>3 DEF CountAt
    <3>5. QED
      BY <3>1, <3>2, <3>4, SlotsAssumption
  <2>2. Candidate(FirstFound) \in Slots
    BY <1>0, <2>1, CandidateIs
  <2>3. flash.wifi_info[Candidate(FirstFound)] \in Networks
    BY <1>0, <2>1, <2>2 DEF Found, WifiTypeOK, Infos
  <2> DEFINE n == flash.wifi_info[Candidate(FirstFound)]
  <2>4. /\ connect_index' = Candidate(FirstFound) /\ connect_count' = CountAt(FirstFound)
        /\ curr_wifi' = n /\ tried' = tried \cup {n} /\ acked' = Nothing
        /\ radio' \in {radio, [state |-> "joining", net |-> n]}
        /\ next' \in {next, "STA_CONNECT_WAIT"}
        /\ UNCHANGED <<status, msgs, flash, announced, events, sc, sc_cb, sc_net, ignored, left>>
    BY <1>2 DEF StaConnecting, Join
  <2> HIDE DEF n
  <2>5. n \in Networks
    BY <2>3 DEF n
  <2>6. radio' \in [state : {"down", "joining", "up"}, net : Networks \cup {Nothing}]
    BY <1>0, <2>4, <2>5 DEF WifiTypeOK
  <2>7. WifiTypeOK'
    BY <1>0, <2>1, <2>2, <2>4, <2>5, <2>6, SMTT(30) DEF WifiTypeOK, Sta
  <2>8. QED
    BY <2>4, <2>7, SlotsStay
<1>3. CASE StaExhausted
  <2>1. MAX_WIFI_NUM - connect_count \in Nat
    BY <1>0, SlotsAssumption DEF WifiTypeOK
  <2>2. Candidate(MAX_WIFI_NUM - connect_count) \in Slots
    BY <1>0, <2>1, CandidateIs
  <2>3. WifiTypeOK'
    BY <1>0, <1>3, <2>2, SlotsAssumption DEF StaExhausted, WifiTypeOK, Smartconfig
  <2>4. QED
    BY <1>3, <2>3, SlotsStay DEF StaExhausted
<1>4. CASE StaTimeout \/ ScTimeout
  <2>1. WifiTypeOK'
    BY <1>0, <1>4 DEF StaTimeout, ScTimeout, Timeout, WifiTypeOK, Sta, Smartconfig
  <2>2. QED
    BY <1>4, <2>1, SlotsStay DEF StaTimeout, ScTimeout, Timeout
<1>5. CASE StaConnectSuccess
  <2>1. curr_wifi \in Networks \cup {Nothing}
    BY <1>0 DEF WifiTypeOK
  <2>2. flash' \in Infos /\ Kept(flash')
    BY <1>5, <2>1, SavedFacts DEF StaConnectSuccess
  <2>3. WifiTypeOK'
    BY <1>0, <1>5, <2>2 DEF StaConnectSuccess, WifiTypeOK, Sta
  <2>4. QED
    BY <2>2, <2>3 DEF SlotsAreKept
<1>6. CASE GoOn
  <2>1. WifiTypeOK'
    BY <1>0, <1>6 DEF GoOn, WifiTypeOK, Sta, Smartconfig
  <2>2. QED
    BY <1>6, <2>1, SlotsStay DEF GoOn
<1>7. CASE SmartconfigOn
  <2>1. events' \in Seq(DriverReports)
    BY <1>0, <1>7, <1>e DEF SmartconfigOn, Disconnect, DriverReports
  <2>2. radio' \in [state : {"down", "joining", "up"}, net : Networks \cup {Nothing}]
    BY <1>0, <1>7 DEF SmartconfigOn, Disconnect, WifiTypeOK
  <2>3. WifiTypeOK'
    BY <1>0, <1>7, <2>1, <2>2 DEF SmartconfigOn, WifiTypeOK, Smartconfig, DriverReports
  <2>4. QED
    BY <1>7, <2>3, SlotsStay DEF SmartconfigOn
<1>8. CASE ScConnectSuccess
  <2>1. curr_wifi \in Networks \cup {Nothing}
    BY <1>0 DEF WifiTypeOK
  <2>2. flash' \in Infos /\ Kept(flash')
    BY <1>8, <2>1, SavedFacts DEF ScConnectSuccess
  <2>3. WifiTypeOK'
    BY <1>0, <1>8, <2>2 DEF ScConnectSuccess, WifiTypeOK, Sta
  <2>4. QED
    BY <2>2, <2>3 DEF SlotsAreKept
<1>9. CASE SetStatus
  <2>1. WifiTypeOK'
    BY <1>0, <1>9 DEF SetStatus, WifiTypeOK
  <2>2. QED
    BY <1>9, <2>1, SlotsStay DEF SetStatus
<1>10. CASE Receive
  <2>1. /\ msgs' \in Seq(WifiMessages)
        /\ next' \in Sta \cup Smartconfig \cup {Nothing}
        /\ announced' \in {"CONNECTED", "DISCONNECTED"}
        /\ ignored' \in {ignored, TRUE}
        /\ UNCHANGED <<status, connect_index, connect_count, curr_wifi, flash, tried,
                       radio, events, sc, sc_cb, sc_net, acked, left>>
    <3>1. CASE OnConfig
      BY <1>t, <3>1 DEF OnConfig, Handle, Sta, Smartconfig
    <3>2. CASE OnConnected
      BY <1>t, <3>2 DEF OnConnected, Handle, Sta
    <3>3. CASE OnDisconnected
      BY <1>t, <3>3 DEF OnDisconnected, Handle, Sta
    <3>4. QED
      BY <1>10, <3>1, <3>2, <3>3 DEF Receive
  <2>2. ignored' \in BOOLEAN
    BY <1>0, <2>1, Zenon DEF WifiTypeOK
  <2>3. WifiTypeOK'
    BY <1>0, <2>1, <2>2 DEF WifiTypeOK, WifiMessages
  <2>4. QED
    BY <2>1, <2>3, SlotsStay
<1>11. CASE ScLink
  <2>1. PICK net \in here.sent : sc_net' = net /\ radio' = [state |-> "joining", net |-> net]
    BY <1>11 DEF ScLink, Join
  <2>2. left' \in Budget
    BY <1>0, <1>w, <1>l, <1>11, SMTT(30) DEF ScLink
  <2>3. sc_cb' \in {"UPDATE", Nothing}
    BY <1>11 DEF ScLink, ScTest
  <2>4. radio' \in [state : {"down", "joining", "up"}, net : Networks \cup {Nothing}]
    BY <1>w, <2>1
  <2>5. WifiTypeOK'
    BY <1>0, <1>w, <1>11, <2>1, <2>2, <2>3, <2>4 DEF ScLink, WifiTypeOK
  <2>6. QED
    BY <1>11, <2>5, SlotsStay DEF ScLink
<1>12. CASE ScLinkFail
  <2>1. left' \in Budget
    BY <1>0, <1>w, <1>l, <1>12, SMTT(30) DEF ScLinkFail
  <2>2. sc_cb' \in Smartconfig \cup {Nothing}
    BY <1>12 DEF ScLinkFail, ScTest, Smartconfig
  <2>3. WifiTypeOK'
    BY <1>0, <1>12, <2>1, <2>2 DEF ScLinkFail, WifiTypeOK
  <2>4. QED
    BY <1>12, <2>3, SlotsStay DEF ScLinkFail
<1>13. CASE ScLinkOver
  <2>1. sc_cb' \in Smartconfig \cup {Nothing}
    BY <1>13 DEF ScLinkOver, ScTest, Smartconfig
  <2>2. WifiTypeOK'
    BY <1>0, <1>13, <2>1 DEF ScLinkOver, WifiTypeOK
  <2>3. QED
    BY <1>13, <2>2, SlotsStay DEF ScLinkOver
<1>14. CASE ScStore
  <2>1. status' \in Smartconfig /\ ignored' \in BOOLEAN
    BY <1>0, <1>14 DEF ScStore, WifiTypeOK
  <2>2. WifiTypeOK'
    BY <1>0, <1>14, <2>1 DEF ScStore, WifiTypeOK
  <2>3. QED
    BY <1>14, <2>2, SlotsStay DEF ScStore
<1>18. CASE ScUpdate
  <2>1. WifiTypeOK'
    BY <1>0, <1>18 DEF ScUpdate, WifiTypeOK, Smartconfig
  <2>2. QED
    BY <1>18, <2>1, SlotsStay DEF ScUpdate
<1>15. CASE Radio
  <2>1. /\ events' \in Seq(DriverReports)
        /\ radio' \in [state : {"down", "joining", "up"}, net : Networks \cup {Nothing}]
        /\ ignored' \in {ignored, FALSE}
        /\ UNCHANGED <<status, next, msgs, taskVars, sc, sc_cb, sc_net, acked>>
    <3>1. CASE JoinOk
      BY <1>0, <1>e, <3>1 DEF JoinOk, WifiTypeOK, DriverReports
    <3>2. CASE JoinFail
      BY <1>0, <1>e, <3>2 DEF JoinFail, WifiTypeOK, DriverReports
    <3>3. CASE LinkLost
      BY <1>0, <1>e, <3>3 DEF LinkLost, WifiTypeOK, DriverReports
    <3>4. QED
      BY <1>15, <3>1, <3>2, <3>3 DEF Radio
  <2>2. left' \in Budget
    <3>1. CASE left' = left
      BY <1>0, <3>1 DEF WifiTypeOK
    <3>2. CASE LinkLost
      <4>1. /\ left' = [keys |-> left.keys, phones |-> left.phones, drops |-> left.drops - 1,
                       losses |-> left.losses]
            /\ left.drops > 0
        BY <1>l, <3>2 DEF LinkLost
      <4>2. left.drops - 1 \in 0..here.left.drops
        BY <1>w, <1>l, <4>1
      <4>3. QED
        BY <1>0, <1>l, <4>1, <4>2
    <3>3. QED
      BY <1>15, <3>1, <3>2 DEF Radio, JoinOk, JoinFail
  <2>3. ignored' \in BOOLEAN
    BY <1>0, <2>1, Zenon DEF WifiTypeOK
  <2>4. WifiTypeOK'
    BY <1>0, <2>1, <2>2, <2>3 DEF WifiTypeOK, DriverReports
  <2>5. QED
    BY <2>1, <2>4, SlotsStay
<1>16. CASE DriverEvent
  <2>1. /\ events' \in Seq(DriverReports) /\ msgs' \in Seq(WifiMessages) /\ ignored' \in BOOLEAN
        /\ left' \in {left, [left EXCEPT !.losses = @ - 1]} /\ (left' # left => left.losses > 0)
        /\ UNCHANGED <<status, next, taskVars, radio, sc, sc_cb, sc_net, acked>>
    BY <1>0, <1>t, <1>m, <1>16 DEF DriverEvent, WifiTypeOK, WifiMessages
  <2>4. left' \in Budget
    <3>1. CASE left' = left
      BY <1>0, <3>1 DEF WifiTypeOK
    <3>2. CASE left.losses > 0 /\ left' = [left EXCEPT !.losses = @ - 1]
      <4>1. left' = [keys |-> left.keys, phones |-> left.phones, drops |-> left.drops,
                     losses |-> left.losses - 1]
        BY <1>l, <3>2
      <4>2. left.losses - 1 \in 0..here.left.losses
        BY <1>w, <1>l, <3>2
      <4>3. QED
        BY <1>0, <1>l, <4>1, <4>2
    <3>3. QED
      BY <2>1, <3>1, <3>2
  <2>2. WifiTypeOK'
    BY <1>0, <2>1, <2>4 DEF WifiTypeOK, WifiMessages, DriverReports
  <2>3. QED
    BY <1>16, <2>2, SlotsStay DEF DriverEvent
<1>17. CASE PressKey
  <2>1. msgs' \in Seq(WifiMessages)
    BY <1>m, <1>17 DEF PressKey, WifiMessages
  <2>2. left' \in Budget
    BY <1>0, <1>w, <1>l, <1>17, SMTT(30) DEF PressKey
  <2>3. WifiTypeOK'
    BY <1>0, <1>17, <2>1, <2>2 DEF PressKey, WifiTypeOK, WifiMessages
  <2>4. QED
    BY <1>17, <2>3, SlotsStay DEF PressKey
<1>19. QED
  BY <1>1, <1>2, <1>3, <1>4, <1>5, <1>6, <1>7, <1>8, <1>9, <1>10, <1>11, <1>12, <1>13, <1>14, <1>15,
     <1>16, <1>17, <1>18 DEF WifiNext, Process, SmartconfigTask

LEMMA SlotsStep == ASSUME SlotsAreKept, [WifiNext]_<<wifiVars, here>> PROVE SlotsAreKept'
<1>1. CASE UNCHANGED <<wifiVars, here>>
  <2>1. WifiTypeOK' /\ UNCHANGED flash
    BY <1>1 DEF SlotsAreKept, WifiTypeOK, wifiVars, taskVars, envVars
  <2>2. QED
    BY <2>1, SlotsStay
<1>2. QED
  BY <1>1, SlotsNext

\* The ring of slots never overwrites the factory's network, stores a network once and
\* leaves no slot empty before a filled one, whatever the driver, the phones and the keys
\* do, before the ring is full and when it goes round.
THEOREM SlotsKept == WifiSpec => []SlotsAreKept
<1> HIDE DEF SlotsAreKept, WifiInit, WifiNext, wifiVars
<1>1. WifiInit => SlotsAreKept
  BY SlotsInit
<1>2. SlotsAreKept /\ [WifiNext]_<<wifiVars, here>> => SlotsAreKept'
  BY SlotsStep
<1>3. QED
  BY <1>1, <1>2, PTL DEF WifiSpec

-----------------------------------------------------------------------------
(* ConnectedIsTrue                                                          *)

\* The status the wifi task has, or will have when its handler is through
Ahead == IF next = Nothing THEN status ELSE next

Succeeds == {"STA_CONNECT_SUCCESS", "SMARTCONFIG_CONNECT_SUCCESS", "STA_CONNECTED"}

LossIn(s) == \E j \in 1..Len(s) : s[j] = "DISCONNECTED"

\* After each CONNECTED comes a DISCONNECTED.
LossBehind(s) ==
  \A i \in 1..Len(s) : s[i] = "CONNECTED" => \E j \in i + 1..Len(s) : s[j] = "DISCONNECTED"

\* What the driver reports last is how the radio is ...
LastIsLoss == radio.state = "down" /\ events # << >> => events[Len(events)] = "DISCONNECTED"

\* ... and when it has reported the loss, the loss was passed over, or the message
\* about it is behind any that would have the wifi task believe in a link.
LossIsTold ==
  radio.state = "down" /\ ~ignored /\ events = << >> =>
    LossBehind(msgs) /\ (Ahead \in Succeeds => LossIn(msgs))

TellInv == /\ Ahead = "STA_CONNECTED" => announced = "CONNECTED"
           /\ LastIsLoss
           /\ LossIsTold

LEMMA TellInit == WifiInit => TellInv
<1> SUFFICES ASSUME WifiInit PROVE TellInv
  OBVIOUS
<1>1. Ahead = "STA_ON"
  BY DEF WifiInit, Ahead
<1>2. LossBehind(msgs) /\ events = << >>
  BY DEF WifiInit, LossBehind
<1>3. QED
  BY <1>1, <1>2 DEF TellInv, LastIsLoss, LossIsTold, Succeeds

\* A message that is not CONNECTED leaves every loss behind what it was behind.
LEMMA AppendLoss ==
  ASSUME NEW s \in Seq(WifiMessages), NEW m \in WifiMessages
  PROVE  /\ m # "CONNECTED" /\ LossBehind(s) => LossBehind(Append(s, m))
         /\ LossIn(s) => LossIn(Append(s, m))
         /\ m = "DISCONNECTED" => LossBehind(Append(s, m)) /\ LossIn(Append(s, m))
<1>1. /\ Len(s) \in Nat /\ Len(Append(s, m)) = Len(s) + 1
      /\ \A i \in 1..Len(s) : Append(s, m)[i] = s[i]
      /\ Append(s, m)[Len(s) + 1] = m
  BY AppendPlaces
<1> DEFINE t == Append(s, m)
<1> HIDE DEF t
<1>2. /\ Len(s) \in Nat /\ Len(t) = Len(s) + 1
      /\ \A i \in 1..Len(s) : t[i] = s[i]
      /\ t[Len(s) + 1] = m
  BY <1>1 DEF t
<1>3. m # "CONNECTED" /\ LossBehind(s) => LossBehind(t)
  BY <1>2 DEF LossBehind
<1>4. LossIn(s) => LossIn(t)
  BY <1>2 DEF LossIn
<1>5. m = "DISCONNECTED" => LossIn(t)
  BY <1>2 DEF LossIn
<1>6. m = "DISCONNECTED" => LossBehind(t)
  BY <1>2 DEF LossBehind
<1>7. QED
  BY <1>3, <1>4, <1>5, <1>6 DEF t

LEMMA TailLoss ==
  ASSUME NEW s \in Seq(WifiMessages), s # << >>, LossBehind(s)
  PROVE  /\ LossBehind(Tail(s))
         /\ Head(s) = "CONNECTED" \/ (LossIn(s) /\ Head(s) # "DISCONNECTED") => LossIn(Tail(s))
<1> DEFINE t == Tail(s)
<1>1. /\ Len(s) \in Nat /\ Len(s) > 0 /\ Len(t) = Len(s) - 1
      /\ \A i \in 1..Len(t) : t[i] = s[i + 1]
      /\ Head(s) = s[1]
  BY TailPlaces
<1> HIDE DEF t
<1>2. LossBehind(t)
  <2>1. ASSUME NEW i \in 1..Len(t), t[i] = "CONNECTED"
        PROVE  \E j \in i + 1..Len(t) : t[j] = "DISCONNECTED"
    <3>1. PICK j \in i + 2..Len(s) : s[j] = "DISCONNECTED"
      BY <1>1, <2>1 DEF LossBehind
    <3>2. j - 1 \in i + 1..Len(t) /\ t[j - 1] = "DISCONNECTED"
      BY <1>1, <3>1
    <3>3. QED
      BY <3>2
  <2>2. QED
    BY <2>1 DEF LossBehind
<1>3. ASSUME NEW j \in 2..Len(s), s[j] = "DISCONNECTED" PROVE LossIn(t)
  <2>1. j - 1 \in 1..Len(t) /\ t[j - 1] = "DISCONNECTED"
    BY <1>1, <1>3
  <2>2. QED
    BY <2>1 DEF LossIn
<1>4. Head(s) = "CONNECTED" => LossIn(t)
  BY <1>1, <1>3 DEF LossBehind
<1>5. LossIn(s) /\ Head(s) # "DISCONNECTED" => LossIn(t)
  BY <1>1, <1>3 DEF LossIn
<1>6. QED
  BY <1>2, <1>4, <1>5 DEF t

\* A step that leaves the reports and the messages alone and brings no success.
LEMMA TellStays ==
  ASSUME TellInv, UNCHANGED <<events, msgs>>,
         radio'.state = "down" => radio.state = "down", ignored => ignored',
         Ahead' \in Succeeds => Ahead \in Succeeds,
         Ahead' = "STA_CONNECTED" => announced' = "CONNECTED"
  PROVE  TellInv'
BY DEF TellInv, LastIsLoss, LossIsTold

LEMMA TellNext ==
  ASSUME SlotsAreKept, TellInv, WifiNext
  PROVE  TellInv'
<1> USE NothingAssumption DEF taskVars, envVars
<1>0. /\ msgs \in Seq(WifiMessages) /\ events \in Seq(DriverReports)
      /\ status \in Sta \cup Smartconfig /\ next \in Sta \cup Smartconfig \cup {Nothing}
      /\ sc_cb \in Smartconfig \cup {"UPDATE", Nothing} /\ ignored \in BOOLEAN
  BY DEF SlotsAreKept, WifiTypeOK, WifiMessages, DriverReports
<1>a. Ahead = "STA_CONNECTED" => announced = "CONNECTED"
  BY DEF TellInv
<1>1. CASE StaOn \/ StaExhausted \/ StaTimeout \/ ScTimeout \/ GoOn
  <2>1. UNCHANGED <<events, msgs, radio, ignored>> /\ Ahead' \notin Succeeds
    BY <1>1 DEF StaOn, StaExhausted, StaTimeout, ScTimeout, GoOn, Timeout, InStatus, Ahead, Succeeds,
                Sta, Smartconfig
  <2>2. QED
    BY <2>1, TellStays DEF Succeeds
<1>2. CASE StaConnecting
  <2>1. /\ UNCHANGED <<events, msgs, ignored>> /\ Ahead' \notin Succeeds
        /\ radio' = radio \/ radio'.state = "joining"
    BY <1>2 DEF StaConnecting, Join, InStatus, Ahead, Succeeds, Sta
  <2>2. QED
    BY <2>1, TellStays DEF Succeeds
<1>3. CASE StaConnectSuccess \/ ScConnectSuccess
  <2>1. UNCHANGED <<events, msgs, radio, ignored>> /\ Ahead \in Succeeds /\ announced' = "CONNECTED"
    BY <1>3 DEF StaConnectSuccess, ScConnectSuccess, InStatus, Ahead, Succeeds
  <2>2. QED
    BY <2>1, TellStays
<1>4. CASE SmartconfigOn
  <2>1. /\ UNCHANGED <<msgs, ignored>> /\ Ahead' \notin Succeeds
        /\ events' = IF radio.state = "down" THEN events ELSE Append(events, "DISCONNECTED")
    BY <1>4 DEF SmartconfigOn, Disconnect, InStatus, Ahead, Succeeds, Smartconfig
  <2>2. CASE radio.state = "down"
    BY <2>1, <2>2, TellStays DEF Succeeds
  <2>3. CASE radio.state # "down"
    <3>1. events' # << >> /\ events'[Len(events')] = "DISCONNECTED"
      BY <1>0, <2>1, <2>3 DEF DriverReports
    <3>2. QED
      BY <2>1, <3>1 DEF TellInv, LastIsLoss, LossIsTold, Succeeds
  <2>4. QED
    BY <2>2, <2>3
<1>5. CASE SetStatus
  <2>1. UNCHANGED <<events, msgs, radio, ignored, announced>> /\ Ahead' = Ahead
    BY <1>5 DEF SetStatus, Ahead
  <2>2. QED
    BY <1>a, <2>1, TellStays
<1>6. CASE Receive
  <2>1. /\ msgs # << >> /\ msgs' = Tail(msgs) /\ UNCHANGED <<radio, events>>
        /\ ignored => ignored'
        /\ Ahead' # "STA_CONNECTED"
        /\ ignored' \/ (Ahead' \in Succeeds => Head(msgs) = "CONNECTED")
    <3>1. CASE OnConfig
      BY <3>1 DEF OnConfig, Handle, Ahead, Succeeds, Sta, Smartconfig
    <3>2. CASE OnConnected
      BY <3>2 DEF OnConnected, Handle, Ahead, Succeeds, Sta
    <3>3. CASE OnDisconnected
      BY <3>3 DEF OnDisconnected, Handle, Ahead, Succeeds, Sta
    <3>4. QED
      BY <1>6, <3>1, <3>2, <3>3 DEF Receive
  <2>2. ASSUME radio'.state = "down", ~ignored', events' = << >>
        PROVE  LossBehind(msgs') /\ (Ahead' \in Succeeds => LossIn(msgs'))
    <3>1. LossBehind(msgs)
      BY <2>1, <2>2 DEF TellInv, LossIsTold
    <3>2. QED
      BY <1>0, <2>1, <2>2, <3>1, TailLoss
  <2>3. QED
    BY <2>1, <2>2 DEF TellInv, LastIsLoss, LossIsTold
<1>7. CASE ScLink
  <2>1. UNCHANGED <<events, msgs, ignored, announced>> /\ Ahead' = Ahead /\ radio'.state = "joining"
    BY <1>7 DEF ScLink, Join, Ahead
  <2>2. QED
    BY <1>a, <2>1, TellStays
<1>8. CASE ScLinkFail \/ ScLinkOver \/ ScUpdate
  <2>1. UNCHANGED <<events, msgs, ignored, announced, radio>> /\ Ahead' = Ahead
    BY <1>8 DEF ScLinkFail, ScLinkOver, ScUpdate, Ahead
  <2>2. QED
    BY <1>a, <2>1, TellStays
<1>9. CASE ScStore
  <2>1. /\ UNCHANGED <<events, msgs, announced, radio>>
        /\ Ahead' = "STA_CONNECTED" => Ahead = "STA_CONNECTED"
        /\ ignored' = (ignored \/ radio.state = "down")
    BY <1>0, <1>9 DEF ScStore, Ahead, Smartconfig
  <2>2. QED
    BY <1>a, <2>1 DEF TellInv, LastIsLoss, LossIsTold
<1>10. CASE JoinOk
  <2>1. radio'.state = "up" /\ Ahead' = Ahead /\ UNCHANGED announced
    BY <1>0, <1>10 DEF JoinOk, Ahead, SlotsAreKept, WifiTypeOK
  <2>2. QED
    BY <1>a, <2>1 DEF TellInv, LastIsLoss, LossIsTold
<1>11. CASE JoinFail \/ LinkLost
  <2>1. events' = Append(events, "DISCONNECTED") /\ Ahead' = Ahead /\ UNCHANGED announced
    BY <1>11 DEF JoinFail, LinkLost, Ahead
  <2>2. events' # << >> /\ events'[Len(events')] = "DISCONNECTED"
    BY <1>0, <2>1 DEF DriverReports
  <2>3. QED
    BY <1>a, <2>1, <2>2 DEF TellInv, LastIsLoss, LossIsTold
<1>12. CASE DriverEvent
  <2>1. /\ events # << >> /\ events' = Tail(events) /\ UNCHANGED <<radio, announced>> /\ Ahead' = Ahead
        /\ \/ msgs' = Append(msgs, IF Head(events) = "GOT_IP" THEN "CONNECTED" ELSE "DISCONNECTED")
           \/ ignored' = (ignored \/ Head(events) = "DISCONNECTED")
    BY <1>12 DEF DriverEvent, Ahead
  <2>2. /\ Len(events) \in Nat \ {0} /\ Len(events') = Len(events) - 1
        /\ \A i \in 1..Len(events) - 1 : events'[i] = events[i + 1]
        /\ Head(events) = events[1] /\ events' \in Seq(DriverReports)
    BY <1>0, <2>1, TailPlaces
  <2>3. LastIsLoss'
    <3>1. ASSUME radio'.state = "down", events' # << >> PROVE events'[Len(events')] = "DISCONNECTED"
      <4>1. Len(events') # 0
        BY <2>2, <3>1, EmptySeq
      <4>2. events'[Len(events) - 1] = events[Len(events)]
        BY <2>2, <4>1
      <4>3. QED
        BY <2>1, <2>2, <3>1, <4>2 DEF TellInv, LastIsLoss
    <3>2. QED
      BY <3>1 DEF LastIsLoss
  <2>4. ASSUME radio'.state = "down", ~ignored', events' = << >>
        PROVE  LossBehind(msgs') /\ LossIn(msgs')
    <3>1. Len(events') = 0
      BY <2>4
    <3>2. Head(events) = "DISCONNECTED"
      <4>1. Len(events) = 1 /\ Head(events) = events[1]
        BY <2>2, <3>1
      <4>2. radio.state = "down" /\ events # << >>
        BY <2>1, <2>4
      <4>3. events[Len(events)] = "DISCONNECTED"
        BY <4>2 DEF TellInv, LastIsLoss
      <4>4. QED
        BY <4>1, <4>3
    <3>3. msgs' = Append(msgs, "DISCONNECTED")
      BY <2>1, <2>4, <3>2
    <3>4. "DISCONNECTED" \in WifiMessages
      BY DEF WifiMessages
    <3>5. QED
      BY <1>0, <3>3, <3>4, AppendLoss
  <2>5. QED
    BY <1>a, <2>1, <2>3, <2>4 DEF TellInv, LossIsTold
<1>13. CASE PressKey
  <2>1. /\ msgs' = Append(msgs, "CONFIG")
        /\ UNCHANGED <<radio, events, ignored, announced>> /\ Ahead' = Ahead
    BY <1>13 DEF PressKey, Ahead
  <2>2. /\ LossBehind(msgs) => LossBehind(msgs')
        /\ LossIn(msgs) => LossIn(msgs')
    <3>1. "CONFIG" \in WifiMessages /\ "CONFIG" # "CONNECTED"
      BY DEF WifiMessages
    <3>2. QED
      BY <1>0, <2>1, <3>1, AppendLoss
  <2>3. QED
    BY <1>a, <2>1, <2>2 DEF TellInv, LastIsLoss, LossIsTold
<1>14. QED
  BY <1>1, <1>2, <1>3, <1>4, <1>5, <1>6, <1>7, <1>8, <1>9, <1>10, <1>11, <1>12, <1>13
     DEF WifiNext, Process, SmartconfigTask, Radio

LEMMA TellStep ==
  ASSUME SlotsAreKept, TellInv, [WifiNext]_<<wifiVars, here>>
  PROVE  TellInv'
<1>1. CASE UNCHANGED <<wifiVars, here>>
  <2>1. UNCHANGED <<status, next, msgs, events, radio, ignored, announced>>
    BY <1>1 DEF wifiVars, taskVars, envVars
  <2>2. Ahead' = Ahead
    BY <2>1 DEF Ahead
  <2>3. QED
    BY <2>1, <2>2, TellStays DEF TellInv
<1>2. QED
  BY <1>1, TellNext

LEMMA TellIsTrue == ASSUME SlotsAreKept, TellInv PROVE ConnectedIsTrue
<1>1. Connected => Ahead = "STA_CONNECTED"
  BY DEF Connected, Ahead
<1>2. ASSUME Deaf, ~ignored PROVE FALSE
  <2>1. /\ Ahead \in Succeeds /\ radio.state = "down" /\ events = << >> /\ msgs = << >>
    BY <1>1, <1>2 DEF Deaf, Succeeds
  <2>2. LossIn(msgs)
    BY <1>2, <2>1 DEF TellInv, LossIsTold
  <2>3. QED
    BY <2>1, <2>2 DEF LossIn
<1>3. QED
  BY <1>1, <1>2 DEF ConnectedIsTrue, TellInv

\* What the other services were told last is true, and a connection that is gone is
\* noticed unless the report of a loss met a status that passes it over, or the bus had
\* no memory for the message about it.
THEOREM TheServicesKnow == WifiSpec => []ConnectedIsTrue
<1> HIDE DEF SlotsAreKept, TellInv, ConnectedIsTrue, WifiInit, WifiNext, wifiVars
<1>1. WifiInit => SlotsAreKept /\ TellInv
  BY SlotsInit, TellInit
<1>2. SlotsAreKept /\ TellInv /\ [WifiNext]_<<wifiVars, here>> => SlotsAreKept' /\ TellInv'
  BY SlotsStep, TellStep
<1>3. SlotsAreKept /\ TellInv => ConnectedIsTrue
  BY TellIsTrue
<1>4. QED
  BY <1>1, <1>2, <1>3, PTL DEF WifiSpec

-----------------------------------------------------------------------------
(* RoundIsWhole                                                             *)

\* While the wifi task goes round the slots ...
Round == {"STA_CONNECTING", "STA_CONNECT_WAIT", "STA_CONNECT_FAIL"}

\* ... from the one connected last, its n-th turn is at this slot.
Turn(n) == (flash.wifi_connect_index + n) % MAX_WIFI_NUM

\* The turns before the n-th found nothing, or what was tried.
TriedUpTo(n) == \A k \in 0..n - 1 : flash.wifi_info[Turn(k)] \in tried \cup {Nothing}

\* Where the round is
TurnIs ==
  IF connect_index = -1 THEN Ahead = "STA_CONNECTING"
  ELSE /\ connect_count \in 1..MAX_WIFI_NUM
       /\ connect_index = Turn(connect_count - 1)
       /\ TriedUpTo(connect_count)

RoundInv == Ahead \in Round => TurnIs

\* The turns taken so far
Taken == IF connect_index = -1 THEN 0 ELSE connect_count

LEMMA GoRound ==
  ASSUME NEW n \in 0..2 * MAX_WIFI_NUM - 1
  PROVE  n % MAX_WIFI_NUM = IF n < MAX_WIFI_NUM THEN n ELSE n - MAX_WIFI_NUM
BY SlotsAssumption

LEMMA TurnFacts ==
  ASSUME flash.wifi_connect_index \in Slots, NEW n \in Slots
  PROVE  /\ Turn(n) \in Slots
         /\ Turn(n) = IF flash.wifi_connect_index + n < MAX_WIFI_NUM
                      THEN flash.wifi_connect_index + n
                      ELSE flash.wifi_connect_index + n - MAX_WIFI_NUM
<1>1. flash.wifi_connect_index + n \in 0..2 * MAX_WIFI_NUM - 1
  BY SlotsAssumption DEF Slots
<1>2. QED
  BY <1>1, GoRound, SlotsAssumption DEF Turn, Slots

\* The loop of get_wifi_info goes on with the turns of the round.
LEMMA CandidateTurns ==
  ASSUME flash.wifi_connect_index \in Slots, TurnIs, NEW k \in Nat, Taken + k < MAX_WIFI_NUM
  PROVE  Candidate(k) = Turn(Taken + k) /\ CountAt(k) = Taken + k + 1
<1>1. CASE connect_index = -1
  BY <1>1 DEF Candidate, CountAt, Turn, Taken
<1>2. CASE connect_index # -1
  <2> DEFINE f == flash.wifi_connect_index
             c == connect_count
             x == connect_index + 1 + k
  <2>1. /\ c \in 1..MAX_WIFI_NUM /\ f \in 0..MAX_WIFI_NUM - 1 /\ c + k < MAX_WIFI_NUM
        /\ connect_index = Turn(c - 1) /\ MAX_WIFI_NUM \in Nat
    BY <1>2, SlotsAssumption DEF TurnIs, Taken, Slots
  <2>2. connect_index = IF f + (c - 1) < MAX_WIFI_NUM THEN f + (c - 1) ELSE f + (c - 1) - MAX_WIFI_NUM
    BY <2>1, TurnFacts DEF Slots
  <2>3. Turn(c + k) = IF f + (c + k) < MAX_WIFI_NUM THEN f + (c + k) ELSE f + (c + k) - MAX_WIFI_NUM
    BY <2>1, TurnFacts DEF Slots
  <2>4. Candidate(k) = x % MAX_WIFI_NUM /\ CountAt(k) = c + k + 1 /\ Taken = c
    BY <1>2 DEF Candidate, CountAt, Taken
  <2> HIDE DEF f, c
  <2>5. \/ x = f + c + k
        \/ x = f + c + k - MAX_WIFI_NUM /\ f + (c - 1) >= MAX_WIFI_NUM
    BY <2>1, <2>2
  <2> HIDE DEF x
  <2>6. x \in 0..2 * MAX_WIFI_NUM - 1
    BY <2>1, <2>5
  <2>7. x % MAX_WIFI_NUM = IF x < MAX_WIFI_NUM THEN x ELSE x - MAX_WIFI_NUM
    BY <2>6, GoRound
  <2>8. Candidate(k) = Turn(c + k)
    BY <2>1, <2>3, <2>4, <2>5, <2>7
  <2>9. QED
    BY <2>4, <2>8
<1>3. QED
  BY <1>1, <1>2

\* The turns of a whole round are the slots.
LEMMA EverySlotHasATurn ==
  ASSUME flash.wifi_connect_index \in Slots, NEW i \in Slots
  PROVE  \E n \in Slots : Turn(n) = i
<1> DEFINE f == flash.wifi_connect_index
           n == IF i >= f THEN i - f ELSE i - f + MAX_WIFI_NUM
<1>1. f \in 0..MAX_WIFI_NUM - 1 /\ i \in 0..MAX_WIFI_NUM - 1 /\ MAX_WIFI_NUM \in Nat
  BY SlotsAssumption DEF Slots
<1>2. n \in Slots
  BY <1>1 DEF Slots
<1>3. Turn(n) = IF f + n < MAX_WIFI_NUM THEN f + n ELSE f + n - MAX_WIFI_NUM
  <2> HIDE DEF n
  <2>1. QED
    BY <1>2, TurnFacts
<1>4. Turn(n) = i
  BY <1>1, <1>3
<1>5. QED
  BY <1>2, <1>4

LEMMA RoundStays ==
  ASSUME RoundInv, UNCHANGED <<connect_index, connect_count, flash, tried>>,
         Ahead' \in Round => Ahead \in Round /\ (Ahead = "STA_CONNECTING" => Ahead' = "STA_CONNECTING")
  PROVE  RoundInv'
<1>1. ASSUME Ahead' \in Round PROVE TurnIs'
  <2>1. TurnIs /\ (Ahead = "STA_CONNECTING" => Ahead' = "STA_CONNECTING")
    BY <1>1 DEF RoundInv
  <2>2. QED
    BY <2>1 DEF TurnIs, TriedUpTo, Turn
<1>2. QED
  BY <1>1 DEF RoundInv

\* The turn that finds a network tries it, and those before it in this call found none.
LEMMA ConnectingTurn ==
  ASSUME SlotsAreKept, RoundInv, StaConnecting
  PROVE  RoundInv'
<1> DEFINE f == FirstFound
           b == Taken
           t == Taken + FirstFound
<1>0. /\ flash.wifi_connect_index \in Slots /\ MAX_WIFI_NUM \in Nat
      /\ TurnIs /\ Taken \in Nat /\ UNCHANGED flash
      /\ tried' = tried \cup {flash.wifi_info[Candidate(f)]}
      /\ connect_index' = Candidate(f) /\ connect_count' = CountAt(f)
  <2>1. flash.wifi_connect_index \in Slots
    BY DEF SlotsAreKept, WifiTypeOK, Infos
  <2>2. Ahead = "STA_CONNECTING"
    BY DEF StaConnecting, InStatus, Ahead
  <2>3. TurnIs
    BY <2>2 DEF RoundInv, Round
  <2>4. Taken \in Nat
    BY <2>3, SlotsAssumption DEF TurnIs, Taken
  <2>5. QED
    BY <2>1, <2>3, <2>4, SlotsAssumption DEF StaConnecting
<1>1. f \in Found /\ \A k \in Found : f <= k
  BY FirstFoundFacts DEF StaConnecting
<1>2. f \in Slots /\ CountAt(f) <= MAX_WIFI_NUM /\ CountAt(f) = b + f + 1
  BY <1>1 DEF Found, CountAt, Taken
<1>3. f \in Nat /\ t \in Nat /\ t < MAX_WIFI_NUM
  BY <1>0, <1>2 DEF Slots
<1>4. Candidate(f) = Turn(t) /\ CountAt(f) = t + 1
  BY <1>0, <1>3, CandidateTurns
<1>5. t \in Slots /\ Turn(t) \in Slots
  BY <1>0, <1>3, TurnFacts DEF Slots
<1>6. connect_index' = Turn(t) /\ connect_count' = t + 1 /\ connect_index' # -1
  BY <1>0, <1>4, <1>5 DEF Slots
<1>7. ASSUME NEW k \in 0..t PROVE flash.wifi_info[Turn(k)] \in tried' \cup {Nothing}
  <2>1. CASE k < b
    <3>1. connect_index # -1 /\ k \in 0..connect_count - 1
      BY <1>0, <1>7, <2>1 DEF Taken, TurnIs
    <3>2. QED
      BY <1>0, <3>1 DEF TurnIs, TriedUpTo
  <2>2. CASE b <= k /\ k < t
    <3> DEFINE j == k - b
    <3>1. j \in Nat /\ j < f /\ b + j = k /\ j \in Slots
      <4>1. b \in Nat /\ f \in Nat /\ k \in Nat /\ t = b + f /\ f \in 0..MAX_WIFI_NUM - 1
        BY <1>0, <1>2, <1>3, <1>7 DEF Slots
      <4> HIDE DEF b, f, t
      <4>2. j \in Nat /\ j < f /\ b + j = k
        BY <2>2, <4>1
      <4>3. j \in 0..MAX_WIFI_NUM - 1
        BY <1>0, <4>1, <4>2
      <4>4. QED
        BY <4>2, <4>3 DEF Slots
    <3>2. j \notin Found
      BY <1>1, <1>3, <3>1
    <3> HIDE DEF j
    <3>3. Taken + j < MAX_WIFI_NUM
      BY <1>0, <1>3, <1>7, <2>2, <3>1
    <3>4. Candidate(j) = Turn(k) /\ CountAt(j) = k + 1
      BY <1>0, <3>1, <3>3, CandidateTurns
    <3>5. k + 1 <= MAX_WIFI_NUM
      BY <1>0, <1>3, <1>7, <2>2
    <3>6. QED
      BY <3>1, <3>2, <3>4, <3>5 DEF Found
  <2>3. CASE k = t
    BY <1>0, <1>4, <2>3
  <2>4. QED
    BY <1>0, <1>3, <1>7, <2>1, <2>2, <2>3
<1>8. TurnIs'
  <2>1. \A k \in Nat : Turn(k)' = Turn(k)
    BY <1>0 DEF Turn
  <2>2. TriedUpTo(connect_count)'
    BY <1>0, <1>3, <1>6, <1>7 DEF TriedUpTo, Turn
  <2>3. connect_index' = (flash.wifi_connect_index' + ((t + 1) - 1)) % MAX_WIFI_NUM
    <3>1. (t + 1) - 1 = t
      BY <1>3
    <3>2. QED
      BY <1>0, <1>6, <3>1 DEF Turn
  <2>4. connect_count' \in 1..MAX_WIFI_NUM
    BY <1>0, <1>3, <1>6
  <2>5. QED
    BY <1>0, <1>6, <2>2, <2>3, <2>4 DEF TurnIs, Turn
<1>9. QED
  BY <1>8 DEF RoundInv

LEMMA RoundNext ==
  ASSUME SlotsAreKept, RoundInv, WifiNext
  PROVE  RoundInv'
<1> USE NothingAssumption DEF taskVars, envVars
<1>0. /\ status \in Sta \cup Smartconfig /\ next \in Sta \cup Smartconfig \cup {Nothing}
      /\ sc_cb \in Smartconfig \cup {"UPDATE", Nothing}
  BY DEF SlotsAreKept, WifiTypeOK
<1>1. CASE StaOn
  <2>1. CASE next' = "STA_CONNECTING" /\ connect_index' = -1
    BY <2>1 DEF RoundInv, TurnIs, Ahead, Sta
  <2>2. CASE UNCHANGED <<next, connect_index, tried>>
    BY <1>1, <2>2 DEF StaOn, InStatus, RoundInv, Ahead, Round
  <2>3. QED
    BY <1>1, <2>1, <2>2 DEF StaOn
<1>2. CASE StaConnecting
  BY <1>2, ConnectingTurn
<1>3. CASE StaExhausted \/ StaConnectSuccess \/ SmartconfigOn \/ ScTimeout \/ ScConnectSuccess
  <2>1. Ahead' \notin Round
    BY <1>3 DEF StaExhausted, StaConnectSuccess, SmartconfigOn, ScTimeout, ScConnectSuccess, Ahead,
                Round, Sta, Smartconfig
  <2>2. QED
    BY <2>1 DEF RoundInv
<1>4. CASE StaTimeout \/ GoOn
  <2>1. /\ UNCHANGED <<connect_index, connect_count, flash, tried>>
        /\ Ahead' \in Round => Ahead \in Round /\ Ahead # "STA_CONNECTING"
    BY <1>4 DEF StaTimeout, GoOn, Timeout, InStatus, Ahead, Round, Sta, Smartconfig
  <2>2. QED
    BY <2>1, RoundStays
<1>5. CASE SetStatus
  <2>1. Ahead' = Ahead /\ UNCHANGED <<connect_index, connect_count, flash, tried>>
    BY <1>5 DEF SetStatus, Ahead
  <2>2. QED
    BY <2>1, RoundStays
<1>6. CASE Receive
  <2>1. /\ UNCHANGED <<connect_index, connect_count, flash, tried>>
        /\ Ahead' \in Round => Ahead \in Round /\ (Ahead = "STA_CONNECTING" => Ahead' = "STA_CONNECTING")
    <3>1. CASE OnConfig
      BY <3>1 DEF OnConfig, Handle, Ahead, Round, Sta, Smartconfig
    <3>2. CASE OnConnected
      BY <3>2 DEF OnConnected, Handle, Ahead, Round, Sta
    <3>3. CASE OnDisconnected
      BY <3>3 DEF OnDisconnected, Handle, Ahead, Round, Sta
    <3>4. QED
      BY <1>6, <3>1, <3>2, <3>3 DEF Receive
  <2>2. QED
    BY <2>1, RoundStays
<1>7. CASE ScStore
  <2>1. /\ UNCHANGED <<connect_index, connect_count, flash, tried>>
        /\ Ahead' \in Round => Ahead = Ahead'
    BY <1>0, <1>7 DEF ScStore, Ahead, Round, Smartconfig
  <2>2. QED
    BY <2>1, RoundStays
<1>8. CASE ScLink \/ ScLinkFail \/ ScLinkOver \/ ScUpdate \/ Radio \/ DriverEvent \/ PressKey
  <2>1. Ahead' = Ahead /\ UNCHANGED <<connect_index, connect_count, flash, tried>>
    BY <1>8 DEF ScLink, ScLinkFail, ScLinkOver, ScUpdate, Radio, JoinOk, JoinFail, LinkLost, DriverEvent,
                PressKey, Ahead
  <2>2. QED
    BY <2>1, RoundStays
<1>9. QED
  BY <1>1, <1>2, <1>3, <1>4, <1>5, <1>6, <1>7, <1>8 DEF WifiNext, Process, SmartconfigTask

\* When get_wifi_info finds nothing more, its round is whole.
LEMMA ExhaustedTriedAll ==
  ASSUME SlotsAreKept, RoundInv, StaExhausted
  PROVE  StoredNetworks \subseteq tried
<1>0. flash.wifi_connect_index \in Slots /\ TurnIs /\ Found = {} /\ MAX_WIFI_NUM \in Nat
  <2>1. Ahead = "STA_CONNECTING"
    BY DEF StaExhausted, InStatus, Ahead
  <2>2. QED
    BY <2>1, SlotsAssumption DEF RoundInv, Round, StaExhausted, SlotsAreKept, WifiTypeOK, Infos
<1>1. Taken \in Nat
  BY <1>0 DEF TurnIs, Taken
<1>2. ASSUME NEW n \in Slots PROVE flash.wifi_info[Turn(n)] \in tried \cup {Nothing}
  <2>1. CASE n < Taken
    <3>1. connect_index # -1 /\ n \in 0..connect_count - 1
      BY <1>0, <1>2, <2>1 DEF Taken, Slots, TurnIs
    <3>2. QED
      BY <1>0, <3>1 DEF TurnIs, TriedUpTo
  <2>2. CASE n >= Taken
    <3> DEFINE j == n - Taken
    <3>1. j \in Slots /\ j \in Nat /\ Taken + j = n /\ n < MAX_WIFI_NUM
      BY <1>0, <1>1, <1>2, <2>2 DEF Slots
    <3> HIDE DEF j
    <3>2. Candidate(j) = Turn(n) /\ CountAt(j) = n + 1
      BY <1>0, <3>1, CandidateTurns
    <3>3. n + 1 <= MAX_WIFI_NUM
      BY <1>0, <3>1, <1>2 DEF Slots
    <3>4. QED
      BY <1>0, <3>1, <3>2, <3>3 DEF Found
  <2>3. QED
    BY <1>1, <1>2, <2>1, <2>2 DEF Slots
<1>3. ASSUME NEW i \in Slots PROVE flash.wifi_info[i] \in tried \cup {Nothing}
  BY <1>0, <1>2, EverySlotHasATurn
<1>4. QED
  BY <1>3 DEF StoredNetworks

-----------------------------------------------------------------------------
(* PhoneIsSaved                                                             *)

\* A phone's network is being joined, or has been.
Linked == sc = "linked" /\ radio.state # "down"

\* The callback has taken that network, is about to, or was told while the device was
\* not in smartconfig.
NetworkIsTaken ==
  /\ sc_net \in Networks
  /\ \/ sc_cb = "UPDATE"
     \/ sc_cb \in {"SMARTCONFIG_CONNECT_WAIT", Nothing} /\ curr_wifi = sc_net
     \/ sc_cb = Nothing /\ status \in Sta /\ Ahead \in Sta

\* Without a key smartconfig is entered in one way.
NoKey == "CONFIG" \notin Elems(msgs) /\ (status \in Sta /\ next \in Smartconfig => sc = "off")

\* A success that is stored, or will be, is that of the current network, but for the
\* moment in which the callback has taken another one and not yet said so.
SuccessIsOfCurrent ==
  /\ acked # Nothing /\ "SMARTCONFIG_CONNECT_SUCCESS" \in {sc_cb, status}
  /\ sc_cb # "SMARTCONFIG_CONNECT_WAIT"
  => curr_wifi = acked

PhoneInv ==
  /\ next # "SMARTCONFIG_CONNECT_SUCCESS"
  /\ sc = "listening" => radio.state = "down"
  /\ Ahead \in Round => sc = "off"
  /\ here.left.keys = 0 =>
       NoKey /\ (Linked => NetworkIsTaken) /\ SuccessIsOfCurrent

LEMMA PhoneInit == WifiInit => PhoneInv
<1> SUFFICES ASSUME WifiInit PROVE PhoneInv
  OBVIOUS
<1>1. /\ status = "STA_ON" /\ next = Nothing /\ sc = "off" /\ sc_cb = Nothing /\ acked = Nothing
      /\ msgs = << >>
  BY DEF WifiInit
<1>2. Elems(msgs) = {}
  BY <1>1, ElemsEmpty
<1>3. PhoneInv
  BY <1>1, <1>2, NothingAssumption DEF PhoneInv, Ahead, Round, NoKey, Linked, SuccessIsOfCurrent, Smartconfig
<1>4. QED
  BY <1>3

\* A step of the wifi task that leaves smartconfig, the radio, the status and the
\* current network alone, and does not start the round or smartconfig.
LEMMA PhoneStays ==
  ASSUME PhoneInv, UNCHANGED <<status, curr_wifi, radio, sc, sc_cb, sc_net, acked, here>>,
         next' # "SMARTCONFIG_CONNECT_SUCCESS", Ahead' \in Round => Ahead \in Round,
         here.left.keys = 0 => /\ Elems(msgs') \subseteq Elems(msgs) \cup {"CONNECTED", "DISCONNECTED"}
                               /\ next' \in Smartconfig /\ status \in Sta => sc = "off"
                               /\ Ahead \in Sta /\ status \in Sta => Ahead' \in Sta
  PROVE  PhoneInv'
<1>1. ASSUME here.left.keys = 0 PROVE NoKey'
  BY <1>1 DEF PhoneInv, NoKey
<1>2. ASSUME here.left.keys = 0, Linked' PROVE NetworkIsTaken'
  <2>1. NetworkIsTaken
    BY <1>2 DEF PhoneInv, Linked
  <2>2. QED
    BY <1>2, <2>1 DEF NetworkIsTaken
<1>3. ASSUME here.left.keys = 0 PROVE SuccessIsOfCurrent'
  BY <1>3 DEF PhoneInv, SuccessIsOfCurrent
<1>4. QED
  BY <1>1, <1>2, <1>3 DEF PhoneInv

\* A step that ends with smartconfig off.
LEMMA PhoneOff ==
  ASSUME PhoneInv, sc' = "off", UNCHANGED here, next' # "SMARTCONFIG_CONNECT_SUCCESS",
         here.left.keys = 0 => /\ Elems(msgs') \subseteq Elems(msgs)
                               /\ SuccessIsOfCurrent'
  PROVE  PhoneInv'
BY DEF PhoneInv, NoKey, Linked

LEMMA PhoneNext ==
  ASSUME SlotsAreKept, PhoneInv, WifiNext
  PROVE  PhoneInv'
<1> USE NothingAssumption DEF taskVars, envVars
<1>0. /\ msgs \in Seq(WifiMessages) /\ UNCHANGED here /\ here.sent \subseteq Networks
      /\ here.left.keys \in Nat /\ left.keys \in 0..here.left.keys
      /\ status \in Sta \cup Smartconfig /\ next \in Sta \cup Smartconfig \cup {Nothing}
      /\ sc_cb \in Smartconfig \cup {"UPDATE", Nothing} /\ sc \in {"off", "listening", "linked"}
  BY WorldsAssumption DEF SlotsAreKept, WifiTypeOK, WifiMessages, WifiNext
<1>i. /\ next # "SMARTCONFIG_CONNECT_SUCCESS"
      /\ sc = "listening" => radio.state = "down"
      /\ Ahead \in Round => sc = "off"
      /\ here.left.keys = 0 => NoKey /\ (Linked => NetworkIsTaken) /\ SuccessIsOfCurrent
  BY DEF PhoneInv
<1>d. \A s \in Sta : s \notin Smartconfig
  BY DEF Sta, Smartconfig
<1>1. CASE StaOn \/ StaConnecting \/ StaExhausted \/ ScConnectSuccess
  <2>1. /\ sc' = "off" /\ UNCHANGED <<status, msgs, sc_cb>>
        /\ next' # "SMARTCONFIG_CONNECT_SUCCESS"
        /\ UNCHANGED <<curr_wifi, acked>> \/ acked' = Nothing
    <3>1. CASE StaOn
      BY <1>i, <3>1 DEF StaOn
    <3>2. CASE StaConnecting
      <4>1. Ahead \in Round
        BY <3>2 DEF StaConnecting, InStatus, Ahead, Round
      <4>2. QED
        BY <1>i, <3>2, <4>1 DEF StaConnecting
    <3>3. CASE StaExhausted
      <4>1. Ahead \in Round
        BY <3>3 DEF StaExhausted, InStatus, Ahead, Round
      <4>2. QED
        BY <1>i, <3>3, <4>1 DEF StaExhausted
    <3>4. CASE ScConnectSuccess
      BY <3>4 DEF ScConnectSuccess
    <3>5. QED
      BY <1>1, <3>1, <3>2, <3>3, <3>4
  <2>2. here.left.keys = 0 => SuccessIsOfCurrent'
    BY <1>i, <2>1 DEF SuccessIsOfCurrent
  <2>3. QED
    BY <1>0, <2>1, <2>2, PhoneOff
<1>2. CASE StaTimeout \/ ScTimeout \/ GoOn \/ StaConnectSuccess
  <2>1. /\ UNCHANGED <<msgs, status, curr_wifi, radio, sc, sc_cb, sc_net, acked>>
        /\ next' # "SMARTCONFIG_CONNECT_SUCCESS"
    BY <1>2 DEF StaTimeout, ScTimeout, GoOn, Timeout, StaConnectSuccess
  <2>2. /\ Ahead' \in Round => Ahead \in Round
        /\ status \in Sta => next' \in Sta /\ Ahead' \in Sta
    BY <1>2 DEF StaTimeout, ScTimeout, GoOn, StaConnectSuccess, InStatus, Ahead, Round, Sta, Smartconfig
  <2>3. QED
    BY <1>0, <1>d, <2>1, <2>2, PhoneStays
<1>3. CASE SmartconfigOn
  <2>1. /\ UNCHANGED <<msgs, status, curr_wifi, sc_cb, sc_net, acked>>
        /\ status = "SMARTCONFIG_ON" /\ radio'.state = "down"
        /\ next' \in {"SMARTCONFIG_WAITING", "SMARTCONFIG_OFF"}
    <3>1. radio'.state = "down"
      BY <1>3 DEF SmartconfigOn, Disconnect, SlotsAreKept, WifiTypeOK
    <3>2. QED
      BY <1>3, <3>1 DEF SmartconfigOn, InStatus
  <2>2. Ahead' \notin Round /\ next' # "SMARTCONFIG_CONNECT_SUCCESS" /\ status' \notin Sta
    BY <2>1 DEF Ahead, Round, Smartconfig, Sta
  <2>3. ASSUME here.left.keys = 0 PROVE NoKey' /\ SuccessIsOfCurrent'
    BY <1>i, <2>1, <2>2, <2>3 DEF NoKey, SuccessIsOfCurrent
  <2>4. QED
    BY <1>0, <2>1, <2>2, <2>3 DEF PhoneInv, Linked
<1>4. CASE SetStatus
  <2>1. /\ UNCHANGED <<msgs, curr_wifi, radio, sc, sc_cb, sc_net, acked>>
        /\ next # Nothing /\ status' = next /\ next' = Nothing /\ Ahead' = Ahead /\ Ahead = next
    BY <1>4 DEF SetStatus, Ahead
  <2>2. next' # "SMARTCONFIG_CONNECT_SUCCESS" /\ next' \notin Smartconfig
    BY <2>1 DEF Smartconfig
  <2>3. ASSUME here.left.keys = 0 PROVE NoKey' /\ SuccessIsOfCurrent'
    BY <1>i, <2>1, <2>2, <2>3 DEF NoKey, SuccessIsOfCurrent
  <2>4. ASSUME here.left.keys = 0, Linked' PROVE NetworkIsTaken'
    BY <1>i, <2>1, <2>4 DEF Linked, NetworkIsTaken
  <2>5. QED
    BY <1>0, <1>i, <2>1, <2>2, <2>3, <2>4 DEF PhoneInv
<1>5. CASE Receive
  <2>1. /\ UNCHANGED <<status, curr_wifi, radio, sc, sc_cb, sc_net, acked>>
        /\ msgs # << >> /\ msgs' = Tail(msgs)
        /\ next' # "SMARTCONFIG_CONNECT_SUCCESS"
        /\ Ahead' \in Round => Ahead \in Round
        /\ \/ Head(msgs) = "CONFIG"
           \/ next' \in Sta \cup {Nothing} /\ (Ahead \in Sta => Ahead' \in Sta)
    <3>1. CASE OnConfig
      BY <3>1 DEF OnConfig, Handle, Ahead, Round, Sta, Smartconfig
    <3>2. CASE OnConnected
      BY <3>2 DEF OnConnected, Handle, Ahead, Round, Sta
    <3>3. CASE OnDisconnected
      BY <3>3 DEF OnDisconnected, Handle, Ahead, Round, Sta, Smartconfig
    <3>4. QED
      BY <1>5, <3>1, <3>2, <3>3 DEF Receive
  <2>2. Elems(msgs') \subseteq Elems(msgs) /\ Head(msgs) \in Elems(msgs)
    BY <1>0, <2>1, TailPlaces
  <2>3. here.left.keys = 0 => Head(msgs) # "CONFIG"
    BY <1>i, <2>2 DEF NoKey
  <2>4. QED
    BY <1>0, <1>d, <2>1, <2>2, <2>3, PhoneStays
<1>6. CASE ScLink
  <2>1. PICK net \in here.sent : sc_net' = net /\ radio' = [state |-> "joining", net |-> net]
    BY <1>6 DEF ScLink, Join
  <2>2. /\ UNCHANGED <<status, next, msgs, curr_wifi, acked>> /\ Ahead' = Ahead
        /\ sc = "listening" /\ sc_cb = Nothing /\ sc' = "linked" /\ Ahead \notin Round
        /\ sc_cb' = IF status \in Smartconfig THEN "UPDATE" ELSE Nothing
    BY <1>6, <1>i DEF ScLink, ScTest, Ahead
  <2>3. ASSUME here.left.keys = 0 PROVE NoKey' /\ NetworkIsTaken' /\ SuccessIsOfCurrent'
    <3>1. status \in Sta => next \notin Smartconfig
      BY <1>i, <2>2, <2>3 DEF NoKey
    <3>2. NoKey'
      BY <1>i, <2>2, <2>3, <3>1 DEF NoKey
    <3>3. status \in Sta => Ahead \in Sta
      BY <1>0, <3>1 DEF Ahead
    <3>4. NetworkIsTaken'
      BY <1>0, <2>1, <2>2, <3>3 DEF NetworkIsTaken
    <3>5. SuccessIsOfCurrent'
      BY <1>i, <2>2, <2>3 DEF SuccessIsOfCurrent, Smartconfig
    <3>6. QED
      BY <3>2, <3>4, <3>5
  <2>4. QED
    BY <1>0, <1>i, <2>2, <2>3 DEF PhoneInv
<1>7. CASE ScLinkFail
  <2>1. /\ UNCHANGED <<status, next, msgs, curr_wifi, acked, radio>> /\ Ahead' = Ahead
        /\ sc = "listening" /\ sc_cb = Nothing /\ sc' = "linked" /\ Ahead \notin Round
        /\ sc_cb' \in {"SMARTCONFIG_CONNECT_FAIL", Nothing} /\ radio.state = "down"
    BY <1>7, <1>i DEF ScLinkFail, ScTest, Ahead
  <2>2. ASSUME here.left.keys = 0 PROVE NoKey' /\ SuccessIsOfCurrent'
    <3>1. status \in Sta => next \notin Smartconfig
      BY <1>i, <2>1, <2>2 DEF NoKey
    <3>2. NoKey'
      BY <1>i, <2>1, <2>2, <3>1 DEF NoKey
    <3>3. SuccessIsOfCurrent'
      BY <1>i, <2>1, <2>2 DEF SuccessIsOfCurrent, Smartconfig
    <3>4. QED
      BY <3>2, <3>3
  <2>3. QED
    BY <1>0, <1>i, <2>1, <2>2 DEF PhoneInv, Linked
<1>8. CASE ScLinkOver
  <2>1. /\ UNCHANGED <<status, next, msgs, curr_wifi>>
        /\ sc = "linked" /\ sc_cb = Nothing /\ radio.state = "up" /\ sc' = "off" /\ acked' = sc_net
        /\ sc_cb' = IF status \in Smartconfig THEN "SMARTCONFIG_CONNECT_SUCCESS" ELSE Nothing
    BY <1>8 DEF ScLinkOver, ScTest
  <2>2. ASSUME here.left.keys = 0 PROVE SuccessIsOfCurrent'
    <3>1. NetworkIsTaken
      BY <1>i, <2>1, <2>2 DEF Linked
    <3>2. CASE status \in Smartconfig
      <4>1. curr_wifi = sc_net
        BY <1>d, <2>1, <3>1, <3>2 DEF NetworkIsTaken, Smartconfig
      <4>2. QED
        BY <2>1, <4>1 DEF SuccessIsOfCurrent
    <3>3. CASE status \notin Smartconfig
      <4>1. "SMARTCONFIG_CONNECT_SUCCESS" \notin {sc_cb', status'}
        BY <2>1, <3>3 DEF Smartconfig
      <4>2. QED
        BY <4>1 DEF SuccessIsOfCurrent
    <3>4. QED
      BY <3>2, <3>3
  <2>3. QED
    BY <1>0, <1>i, <2>1, <2>2, PhoneOff
<1>9. CASE ScStore
  <2>1. /\ UNCHANGED <<next, msgs, radio, sc, sc_net, acked, curr_wifi>>
        /\ sc_cb \in Smartconfig /\ status' = sc_cb /\ sc_cb' = Nothing
    BY <1>9 DEF ScStore
  <2>2. status' \in Smartconfig /\ status' \notin Sta
    BY <1>0, <1>d, <2>1
  <2>3. Ahead' \in Round => Ahead \in Round
    BY <2>1, <2>2 DEF Ahead, Round, Smartconfig
  <2>4. ASSUME here.left.keys = 0 PROVE NoKey'
    BY <1>i, <2>1, <2>2, <2>4 DEF NoKey
  <2>5. ASSUME here.left.keys = 0, Linked' PROVE NetworkIsTaken'
    <3>0. Linked
      BY <2>1, <2>5 DEF Linked
    <3>1. NetworkIsTaken /\ "UPDATE" \notin Smartconfig /\ sc_cb # Nothing
      BY <1>i, <2>1, <2>5, <3>0 DEF Smartconfig
    <3>2. sc_net \in Networks /\ curr_wifi = sc_net
      BY <2>1, <3>1 DEF NetworkIsTaken
    <3>3. QED
      BY <2>1, <3>2 DEF NetworkIsTaken
  <2>6. ASSUME here.left.keys = 0 PROVE SuccessIsOfCurrent'
    <3>1. CASE sc_cb = "SMARTCONFIG_CONNECT_SUCCESS"
      BY <1>i, <2>1, <2>6, <3>1 DEF SuccessIsOfCurrent
    <3>2. CASE sc_cb # "SMARTCONFIG_CONNECT_SUCCESS"
      <4>1. "SMARTCONFIG_CONNECT_SUCCESS" \notin {sc_cb', status'}
        BY <2>1, <3>2 DEF Smartconfig
      <4>2. QED
        BY <4>1 DEF SuccessIsOfCurrent
    <3>3. QED
      BY <3>1, <3>2
  <2>7. QED
    BY <1>0, <1>i, <2>1, <2>3, <2>4, <2>5, <2>6 DEF PhoneInv
<1>14. CASE ScUpdate
  <2>1. /\ UNCHANGED <<status, next, msgs, radio, sc, sc_net, acked>> /\ Ahead' = Ahead
        /\ sc_cb = "UPDATE" /\ curr_wifi' = sc_net /\ sc_cb' = "SMARTCONFIG_CONNECT_WAIT"
    BY <1>14 DEF ScUpdate, Ahead
  <2>2. ASSUME here.left.keys = 0 PROVE NoKey' /\ SuccessIsOfCurrent'
    BY <1>i, <2>1, <2>2 DEF NoKey, SuccessIsOfCurrent
  <2>3. ASSUME here.left.keys = 0, Linked' PROVE NetworkIsTaken'
    BY <1>i, <2>1, <2>3 DEF Linked, NetworkIsTaken
  <2>4. QED
    BY <1>0, <1>i, <2>1, <2>2, <2>3 DEF PhoneInv
<1>10. CASE Radio
  <2>1. /\ UNCHANGED <<status, next, msgs, curr_wifi, sc, sc_cb, sc_net, acked>> /\ Ahead' = Ahead
        /\ radio'.state # "down" => radio.state # "down"
    <3>1. CASE JoinOk
      BY <3>1 DEF JoinOk, Ahead
    <3>2. CASE JoinFail \/ LinkLost
      <4>1. radio'.state = "down"
        BY <3>2 DEF JoinFail, LinkLost, SlotsAreKept, WifiTypeOK
      <4>2. QED
        BY <3>2, <4>1 DEF JoinFail, LinkLost, Ahead
    <3>3. QED
      BY <1>10, <3>1, <3>2 DEF Radio
  <2>2. ASSUME here.left.keys = 0 PROVE NoKey' /\ SuccessIsOfCurrent'
    BY <1>i, <2>1, <2>2 DEF NoKey, SuccessIsOfCurrent
  <2>3. ASSUME here.left.keys = 0, Linked' PROVE NetworkIsTaken'
    BY <1>i, <2>1, <2>3 DEF Linked, NetworkIsTaken
  <2>4. QED
    BY <1>0, <1>i, <2>1, <2>2, <2>3 DEF PhoneInv
<1>11. CASE DriverEvent
  <2>1. /\ UNCHANGED <<status, next, curr_wifi, radio, sc, sc_cb, sc_net, acked>> /\ Ahead' = Ahead
        /\ \/ msgs' = msgs \/ msgs' = Append(msgs, "CONNECTED") \/ msgs' = Append(msgs, "DISCONNECTED")
    BY <1>11 DEF DriverEvent, Ahead
  <2>2. Elems(msgs') \subseteq Elems(msgs) \cup {"CONNECTED", "DISCONNECTED"}
    <3>1. "CONNECTED" \in WifiMessages /\ "DISCONNECTED" \in WifiMessages
      BY DEF WifiMessages
    <3>2. /\ Elems(Append(msgs, "CONNECTED")) = Elems(msgs) \cup {"CONNECTED"}
          /\ Elems(Append(msgs, "DISCONNECTED")) = Elems(msgs) \cup {"DISCONNECTED"}
      BY <1>0, <3>1, AppendFacts
    <3>3. QED
      BY <2>1, <3>2
  <2>3. here.left.keys = 0 => (next' \in Smartconfig /\ status \in Sta => sc = "off")
    BY <1>i, <2>1 DEF NoKey
  <2>4. QED
    BY <1>0, <1>i, <2>1, <2>2, <2>3, PhoneStays
<1>12. CASE PressKey
  <2>1. /\ UNCHANGED <<status, next, curr_wifi, radio, sc, sc_cb, sc_net, acked>> /\ Ahead' = Ahead
        /\ left.keys > 0
    BY <1>12 DEF PressKey, Ahead
  <2>2. here.left.keys # 0
    BY <1>0, <2>1
  <2>3. QED
    BY <1>0, <1>i, <2>1, <2>2, PhoneStays
<1>15. QED
  BY <1>1, <1>2, <1>3, <1>4, <1>5, <1>6, <1>7, <1>8, <1>9, <1>10, <1>11, <1>12, <1>14
     DEF WifiNext, Process, SmartconfigTask

-----------------------------------------------------------------------------
(* NothingIsSkipped                                                         *)

SkipInv == SlotsAreKept /\ RoundInv /\ PhoneInv

LEMMA SkipInit == WifiInit => SkipInv
<1> SUFFICES ASSUME WifiInit PROVE SkipInv
  OBVIOUS
<1>1. RoundInv
  BY DEF WifiInit, RoundInv, Ahead, Round
<1>2. SlotsAreKept /\ PhoneInv
  BY SlotsInit, PhoneInit
<1>3. QED
  BY <1>1, <1>2 DEF SkipInv

LEMMA SkipStep == ASSUME SkipInv, [WifiNext]_<<wifiVars, here>> PROVE SkipInv'
<1>1. CASE WifiNext
  BY <1>1, SlotsNext, RoundNext, PhoneNext DEF SkipInv
<1>2. CASE UNCHANGED <<wifiVars, here>>
  <2>1. /\ UNCHANGED <<status, next, msgs, connect_index, connect_count, curr_wifi, flash, tried>>
        /\ UNCHANGED <<radio, sc, sc_cb, sc_net, acked, here>>
    BY <1>2 DEF wifiVars, taskVars, envVars
  <2>2. SlotsAreKept'
    BY <1>2, SlotsStep DEF SkipInv
  <2>3. Ahead' = Ahead
    BY <2>1 DEF Ahead
  <2>4. RoundInv'
    BY <2>1, <2>3, RoundStays DEF SkipInv
  <2>5. here.left.keys = 0 => NoKey
    BY DEF SkipInv, PhoneInv
  <2>6. PhoneInv'
    BY <2>1, <2>3, <2>5, PhoneStays DEF SkipInv, PhoneInv, NoKey
  <2>7. QED
    BY <2>2, <2>4, <2>6 DEF SkipInv
<1>3. QED
  BY <1>1, <1>2

\* Only the exhausted round and the key lead from STA_CONNECTING to SMARTCONFIG_ON.
LEMMA WholeRound == ASSUME SkipInv, WifiNext PROVE RoundIsWhole
<1> SUFFICES ASSUME status = "STA_CONNECTING", next' = "SMARTCONFIG_ON", msgs' = msgs, next = Nothing
             PROVE  StoredNetworks \subseteq tried
  BY DEF RoundIsWhole
<1> USE DEF taskVars, envVars
<1>1. CASE StaExhausted
  BY <1>1, ExhaustedTriedAll DEF SkipInv
<1>2. CASE Receive
  <2>1. msgs \in Seq(WifiMessages) /\ msgs # << >> /\ msgs' = Tail(msgs)
    BY <1>2 DEF Receive, OnConfig, OnConnected, OnDisconnected, Handle, SkipInv, SlotsAreKept,
                WifiTypeOK, WifiMessages
  <2>2. Len(Tail(msgs)) = Len(msgs) - 1 /\ Len(msgs) \in Nat
    BY <2>1, TailPlaces
  <2>3. QED
    BY <2>1, <2>2
<1>3. CASE Process /\ ~StaExhausted
  BY <1>3, NothingAssumption DEF Process, StaOn, StaConnecting, StaTimeout, ScTimeout, Timeout, GoOn,
     StaConnectSuccess, SmartconfigOn, ScConnectSuccess, SetStatus, InStatus, Smartconfig
<1>4. CASE SmartconfigTask \/ Radio \/ DriverEvent \/ PressKey
  <2>1. next' = next
    BY <1>4 DEF SmartconfigTask, ScLink, ScLinkFail, ScLinkOver, ScUpdate, ScStore, Radio, JoinOk, JoinFail,
                LinkLost, DriverEvent, PressKey
  <2>2. QED
    BY <2>1, NothingAssumption DEF Smartconfig
<1>5. QED
  BY <1>1, <1>2, <1>3, <1>4 DEF WifiNext

\* Only ScConnectSuccess leads from SMARTCONFIG_CONNECT_SUCCESS to STA_CONNECTED.
LEMMA PhoneSaved == ASSUME SkipInv, WifiNext PROVE PhoneIsSaved
<1> SUFFICES ASSUME status = "SMARTCONFIG_CONNECT_SUCCESS", next = Nothing, next' = "STA_CONNECTED",
                    acked # Nothing, here.left.keys = 0, sc_cb # "SMARTCONFIG_CONNECT_WAIT"
             PROVE  acked \in StoredNetworks'
  BY DEF PhoneIsSaved
<1> USE DEF taskVars, envVars
<1>1. CASE ScConnectSuccess
  <2>1. curr_wifi = acked /\ curr_wifi \in Networks \cup {Nothing} /\ flash' = Saved(curr_wifi)
    BY <1>1 DEF SkipInv, PhoneInv, SuccessIsOfCurrent, SlotsAreKept, WifiTypeOK, ScConnectSuccess
  <2>2. \E i \in Slots : flash'.wifi_info[i] = acked
    BY <2>1, SavedFacts DEF SkipInv
  <2>3. QED
    BY <2>2 DEF StoredNetworks
<1>2. CASE Receive
  BY <1>2, NothingAssumption DEF Receive, OnConfig, OnConnected, OnDisconnected, Sta, Smartconfig
<1>3. CASE Process /\ ~ScConnectSuccess
  BY <1>3 DEF Process, StaOn, StaConnecting, StaExhausted, StaTimeout, ScTimeout, Timeout, GoOn,
     StaConnectSuccess, SmartconfigOn, SetStatus, InStatus
<1>4. CASE SmartconfigTask \/ Radio \/ DriverEvent \/ PressKey
  <2>1. next' = next
    BY <1>4 DEF SmartconfigTask, ScLink, ScLinkFail, ScLinkOver, ScUpdate, ScStore, Radio, JoinOk, JoinFail,
                LinkLost, DriverEvent, PressKey
  <2>2. QED
    BY <2>1, NothingAssumption DEF Sta
<1>5. QED
  BY <1>1, <1>2, <1>3, <1>4 DEF WifiNext

LEMMA SkipNothing ==
  ASSUME SkipInv, [WifiNext]_<<wifiVars, here>>
  PROVE  [RoundIsWhole /\ PhoneIsSaved]_wifiVars
<1>1. CASE WifiNext
  BY <1>1, WholeRound, PhoneSaved
<1>2. CASE UNCHANGED <<wifiVars, here>>
  BY <1>2
<1>3. QED
  BY <1>1, <1>2

\* Every network that is stored is tried before the wifi task turns to smartconfig by
\* itself, and the network of the phone it answered is stored, unless another phone's has
\* just taken its place, for any number of slots, networks, phones, losses and failures.
THEOREM NoNetworkIsSkipped == WifiSpec => NothingIsSkipped
<1> HIDE DEF SkipInv, WifiInit, WifiNext, wifiVars, RoundIsWhole, PhoneIsSaved
<1>1. WifiInit => SkipInv
  BY SkipInit
<1>2. SkipInv /\ [WifiNext]_<<wifiVars, here>> => SkipInv'
  BY SkipStep
<1>3. SkipInv /\ [WifiNext]_<<wifiVars, here>> => [RoundIsWhole /\ PhoneIsSaved]_wifiVars
  BY SkipNothing
<1>4. QED
  BY <1>1, <1>2, <1>3, PTL DEF WifiSpec, NothingIsSkipped

-----------------------------------------------------------------------------
(* Spoken messages                                                          *)

USE BoundAssumption, NoneAssumption

-----------------------------------------------------------------------------
(* Spoken messages: the invariant                                           *)

\* The recording has been asked for and its START is not on its way any more.
Arrived(s) == s <= taken /\ s \notin Elems(aip_queue)

\* It has given its first frame ...
Begun(s) == Arrived(s) /\ (s = recording => record_id > 0)

\* ... and its last one.
Over(s) == Arrived(s) /\ s # recording

\* The recordings whose end has been handed over, or whose message has left the cache.
Past == Elems(asr) \cup Elems(upload_queue) \cup Elems(sent) \cup freed \cup reused
          \cup ({msg_obj} \ {None})

\* Numbers travel one way: a START is under way once, and its number is the recording's
\* only when it has left the queue.
WaysApart ==
  /\ \A i, j \in 1..Len(aip_queue) : aip_queue[i] = aip_queue[j] /\ aip_queue[i] # None => i = j
  /\ \A s \in Elems(aip_queue) : s # None => s <= taken
  /\ recording # None => Arrived(recording)
  /\ \A s \in Past : Over(s)
  /\ \A s \in Elems(upload_cache_queue) : Begun(s)
  /\ record_sn # 0 => Begun(record_sn)
  /\ NoRepeat(asr)

\* A NEW_MSG is on its way for a message that is there or was.
Told == new_msgs <= Cardinality(Elems(upload_queue) \cup Elems(sent))

\* STARTs are heard in the order of their numbers.
InOrder ==
  /\ \A i, j \in 1..Len(aip_queue) :
        i < j /\ aip_queue[i] # None /\ aip_queue[j] # None => aip_queue[i] < aip_queue[j]
  /\ recording # None => \A s \in Elems(aip_queue) : s # None => recording < s

\* The frames' callback has found its own message, or, when the first frame made none,
\* one that was late.
HeldIsKnown ==
  \/ held = recording /\ recording \in Elems(upload_cache_queue)
  \/ recording \in lacking /\ (held = None \/ held \in late)

\* One message is in the cache.  While it is there no other recording is asked for,
\* unless the key had been tested before; and it is the open recording's, when that has
\* begun and found memory.
Cached ==
  /\ \A s, t \in Elems(upload_cache_queue) : s = t
  /\ \A s \in Elems(upload_cache_queue) \ late :
        /\ taken = s /\ key # "start"
        /\ Elems(aip_queue) \subseteq {None} /\ recording \in {s, None}
  /\ step # "between" => recording # None /\ record_id > 0
  /\ step = "remove" => held \in late /\ Over(held) /\ Elems(upload_cache_queue) \subseteq {held}
  /\ step = "add" => Elems(upload_cache_queue) = {}
  /\ recording # None /\ record_id > 0 /\ step \notin {"remove", "add"} =>
       recording \in Elems(upload_cache_queue) \cup lacking
  /\ step = "write" => HeldIsKnown

\* The message of a recording that is, or will be, recognised is in the cache, if one was
\* made and its place was not taken.
InCache ==
  /\ \A s \in Elems(asr) : s \in Elems(upload_cache_queue) \cup lacking \cup reused
  /\ record_sn = recording => recording \in Elems(upload_cache_queue) \cup lacking

\* A key that is up has sent its STOP last.
StopIsLast ==
  /\ key # "idle" => button = "down"
  /\ key = "idle" /\ button = "up" =>
       /\ ~wechat_status
       /\ IF aip_queue = << >> THEN recording = None ELSE aip_queue[Len(aip_queue)] = None

IInv == MessageIsFound /\ WaysApart /\ InOrder /\ Cached /\ Told /\ InCache /\ StopIsLast

\* A step that leaves alone what a conjunct is about.
LEMMA StillOnePlace ==
  ASSUME OnePlace,
         UNCHANGED <<upload_queue, upload_cache_queue, msg_obj, freed, reused, sending, sent>>
  PROVE  OnePlace'
BY DEF OnePlace, InQueues

LEMMA StillFinds ==
  ASSUME ResultFindsMessage, UNCHANGED strange, lacking \subseteq lacking', reused \subseteq reused'
  PROVE  ResultFindsMessage'
BY DEF ResultFindsMessage

LEMMA StillOwn ==
  ASSUME OwnMemory, UNCHANGED <<reused, torn, held, blended>>, late \subseteq late',
         lacking \subseteq lacking'
  PROVE  OwnMemory'
BY DEF OwnMemory

LEMMA StillInOrder ==
  ASSUME InOrder, UNCHANGED <<aip_queue, recording>>
  PROVE  InOrder'
BY DEF InOrder

LEMMA StillCached ==
  ASSUME Cached, key' # "start" \/ key' = key,
         UNCHANGED <<upload_cache_queue, late, taken, aip_queue, recording, record_id, step, held, lacking>>
  PROVE  Cached'
BY DEF Cached, HeldIsKnown, Over, Arrived

LEMMA StillApart ==
  ASSUME WaysApart,
         UNCHANGED <<taken, aip_queue, recording, record_id, record_sn, asr, upload_queue,
                     upload_cache_queue, sent, freed, reused, msg_obj>>
  PROVE  WaysApart'
BY DEF WaysApart, Past, Over, Begun, Arrived

LEMMA StillTold ==
  ASSUME Told, UNCHANGED <<new_msgs, upload_queue, sent>>
  PROVE  Told'
BY DEF Told

LEMMA StillInCache ==
  ASSUME InCache, UNCHANGED <<asr, upload_cache_queue, record_sn, recording>>,
         lacking \subseteq lacking', reused \subseteq reused'
  PROVE  InCache'
BY DEF InCache

LEMMA StillLast ==
  ASSUME StopIsLast, UNCHANGED <<key, button, wechat_status, aip_queue, recording>>
  PROVE  StopIsLast'
BY DEF StopIsLast

LEMMA FaultFacts ==
  ASSUME TypeOK, NEW s \in 0..MaxSn, Fault(s)
  PROVE  bad' \subseteq 0..MaxSn /\ bad \subseteq bad' /\ bad' # {}
BY DEF TypeOK, Fault

-----------------------------------------------------------------------------
(* The keyboard's task                                                      *)

LEMMA PressInv == ASSUME IInv, Press PROVE IInv'
<1> USE DEF Press, queueVars, aipVars, frameVars, asrVars, seenVars, cacheSeenVars, faultVars
<1>1. TypeOK'
  BY DEF IInv, MessageIsFound, TypeOK
<1>2. StopIsLast'
  BY DEF IInv, StopIsLast
<1>3. OnePlace' /\ ResultFindsMessage' /\ OwnMemory'
  BY StillOnePlace, StillFinds, StillOwn DEF IInv, MessageIsFound
<1>4. WaysApart' /\ InOrder' /\ Told' /\ InCache'
  BY StillApart, StillInOrder, StillTold, StillInCache DEF IInv
<1>5. Cached'
  BY StillCached DEF IInv
<1>6. QED
  BY <1>1, <1>2, <1>3, <1>4, <1>5 DEF IInv, MessageIsFound

LEMMA LookInCacheInv == ASSUME IInv, LookInCache PROVE IInv'
<1> USE DEF LookInCache, queueVars, aipVars, frameVars, asrVars, seenVars, cacheSeenVars, faultVars
<1>1. TypeOK'
  BY DEF IInv, MessageIsFound, TypeOK
<1>2. StopIsLast'
  BY DEF IInv, StopIsLast
<1>3. OnePlace' /\ ResultFindsMessage' /\ OwnMemory'
  BY StillOnePlace, StillFinds, StillOwn DEF IInv, MessageIsFound
<1>4. WaysApart' /\ InOrder' /\ Told' /\ InCache'
  BY StillApart, StillInOrder, StillTold, StillInCache DEF IInv
<1>5. Cached'
  <2>1. CASE upload_cache_queue # << >>
    BY <2>1, StillCached DEF IInv
  <2>2. CASE upload_cache_queue = << >>
    <3>1. Elems(upload_cache_queue) = {}
      BY <2>2, ElemsEmpty
    <3>2. QED
      BY <3>1 DEF IInv, Cached, HeldIsKnown, Over, Arrived
  <2>3. QED
    BY <2>1, <2>2
<1>6. QED
  BY <1>1, <1>2, <1>3, <1>4, <1>5 DEF IInv, MessageIsFound

LEMMA WifiInv == ASSUME IInv, Wifi PROVE IInv'
<1> USE DEF Wifi, queueVars, aipVars, frameVars, asrVars, seenVars, cacheSeenVars, faultVars
<1>1. TypeOK'
  BY DEF IInv, MessageIsFound, TypeOK
<1>2. OnePlace' /\ ResultFindsMessage' /\ OwnMemory' /\ WaysApart' /\ InOrder' /\ Told'
  BY StillOnePlace, StillFinds, StillOwn, StillApart, StillInOrder, StillTold DEF IInv, MessageIsFound
<1>3. Cached' /\ InCache' /\ StopIsLast'
  BY StillCached, StillInCache, StillLast DEF IInv
<1>4. QED
  BY <1>1, <1>2, <1>3 DEF IInv, MessageIsFound


\* What is added to aip_queue is not a recording that is known already.
LEMMA QueuedApart ==
  ASSUME TypeOK, WaysApart, taken' \in Nat, taken <= taken',
         NEW x \in {None} \cup (taken + 1 .. taken'),
         aip_queue' = aip_queue \/ (x \in Sn \cup {None} /\ aip_queue' = Append(aip_queue, x)),
         UNCHANGED <<recording, record_id, record_sn, asr, upload_queue, upload_cache_queue, sent,
                     freed, reused, msg_obj>>
  PROVE  WaysApart'
<1>0. taken \in 0..MaxSn /\ aip_queue \in Seq(Sn \cup {None})
  BY DEF TypeOK
<1>1. /\ \A i, j \in 1..Len(aip_queue) : aip_queue[i] = aip_queue[j] /\ aip_queue[i] # None => i = j
      /\ \A s \in Elems(aip_queue) : s # None => s <= taken /\ s \in Sn
  BY <1>0, ElemsType DEF WaysApart
<1>2. /\ \A i, j \in 1..Len(aip_queue)' : aip_queue'[i] = aip_queue'[j] /\ aip_queue'[i] # None => i = j
      /\ Elems(aip_queue') \subseteq Elems(aip_queue) \cup {x}
  <2>1. CASE aip_queue' = aip_queue
    BY <1>1, <2>1
  <2>2. CASE x \in Sn \cup {None} /\ aip_queue' = Append(aip_queue, x)
    <3>1. /\ Len(aip_queue) \in Nat /\ Len(aip_queue)' = Len(aip_queue) + 1
          /\ \A i \in 1..Len(aip_queue) : aip_queue'[i] = aip_queue[i]
          /\ aip_queue'[Len(aip_queue) + 1] = x
      BY <1>0, <2>2, AppendPlaces
    <3>2. Elems(aip_queue') = Elems(aip_queue) \cup {x}
      BY <1>0, <2>2, AppendFacts
    <3>3. x # None => \A i \in 1..Len(aip_queue) : aip_queue[i] # x
      BY <1>0, <1>1 DEF Elems, Sn
    <3>4. ASSUME NEW i \in 1..Len(aip_queue)', NEW j \in 1..Len(aip_queue)',
                 aip_queue'[i] = aip_queue'[j], aip_queue'[i] # None
          PROVE  i = j
      <4>1. CASE i \in 1..Len(aip_queue) /\ j \in 1..Len(aip_queue)
        BY <1>1, <3>1, <3>4, <4>1
      <4>2. CASE i = Len(aip_queue) + 1 \/ j = Len(aip_queue) + 1
        BY <3>1, <3>3, <3>4, <4>2
      <4>3. QED
        BY <3>1, <4>1, <4>2
    <3>5. QED
      BY <3>2, <3>4
  <2>3. QED
    BY <2>1, <2>2
<1>3. \A s \in Elems(aip_queue') : s # None => s <= taken'
  BY <1>0, <1>1, <1>2 DEF Sn
<1>4. \A s \in 0..MaxSn : Arrived(s) => Arrived(s)'
  BY <1>0, <1>2 DEF Arrived
<1>5. Past \subseteq Sn /\ Past' = Past
  BY ElemsType DEF TypeOK, Past
<1>6. Elems(upload_cache_queue) \subseteq Sn
  BY ElemsType DEF TypeOK
<1>7. \A s \in Past' : Over(s)'
  BY <1>4, <1>5 DEF WaysApart, Over, Sn
<1>8. \A s \in Elems(upload_cache_queue)' : Begun(s)'
  BY <1>4, <1>6 DEF WaysApart, Begun, Sn
<1>9. (record_sn # 0 => Begun(record_sn))' /\ (recording # None => Arrived(recording))'
  BY <1>4, SMTT(30) DEF WaysApart, Begun, TypeOK, Sn
<1>10. QED
  BY <1>2, <1>3, <1>7, <1>8, <1>9 DEF WaysApart

\* What is added to aip_queue is a STOP or a number above all that are there.
LEMMA QueuedInOrder ==
  ASSUME TypeOK, WaysApart, InOrder, UNCHANGED recording,
         NEW x \in {None, taken + 1}, x \in Sn \cup {None},
         aip_queue' = aip_queue \/ aip_queue' = Append(aip_queue, x)
  PROVE  InOrder'
<1>1. CASE aip_queue' = aip_queue
  BY <1>1, StillInOrder
<1>2. CASE aip_queue' = Append(aip_queue, x)
  <2>0. taken \in Nat /\ aip_queue \in Seq(Sn \cup {None}) /\ None \notin Sn
    BY DEF TypeOK, Sn
  <2>1. /\ Len(aip_queue) \in Nat /\ Len(aip_queue)' = Len(aip_queue) + 1
        /\ \A i \in 1..Len(aip_queue) : aip_queue'[i] = aip_queue[i]
        /\ aip_queue'[Len(aip_queue) + 1] = x
    BY <1>2, <2>0, AppendPlaces
  <2>2. Elems(aip_queue') = Elems(aip_queue) \cup {x}
    BY <1>2, <2>0, AppendFacts
  <2>3. \A i \in 1..Len(aip_queue) : aip_queue[i] # None => aip_queue[i] <= taken /\ aip_queue[i] \in Sn
    BY <2>0 DEF WaysApart, Elems
  <2>4. ASSUME NEW i \in 1..Len(aip_queue)', NEW j \in 1..Len(aip_queue)', i < j,
               aip_queue'[i] # None, aip_queue'[j] # None
        PROVE  aip_queue'[i] < aip_queue'[j]
    <3>1. i \in 1..Len(aip_queue)
      BY <2>1, <2>4
    <3>2. CASE j \in 1..Len(aip_queue)
      BY <2>1, <2>4, <3>1, <3>2 DEF InOrder
    <3>3. CASE j = Len(aip_queue) + 1
      <4>1. aip_queue'[j] = taken + 1
        BY <2>1, <2>4, <3>3
      <4>2. aip_queue'[i] <= taken /\ aip_queue'[i] \in Nat
        BY <2>1, <2>3, <2>4, <3>1 DEF Sn
      <4>3. QED
        BY <2>0, <4>1, <4>2
    <3>4. QED
      BY <2>1, <3>2, <3>3
  <2>5. ASSUME recording # None, NEW s \in Elems(aip_queue'), s # None PROVE recording < s
    <3>1. CASE s \in Elems(aip_queue)
      BY <2>5, <3>1 DEF InOrder
    <3>2. CASE s = taken + 1
      <4>1. recording <= taken /\ recording \in Nat
        BY <2>5 DEF WaysApart, Arrived, TypeOK, Sn
      <4>2. QED
        BY <2>0, <3>2, <4>1
    <3>3. QED
      BY <2>2, <2>5, <3>1, <3>2
  <2>6. QED
    BY <2>4, <2>5 DEF InOrder
<1>3. QED
  BY <1>1, <1>2

\* No START is added while a message is in the cache that is not late.
LEMMA QueuedCached ==
  ASSUME TypeOK, WaysApart, Cached, key = "start" \/ (taken' = taken /\ Elems(aip_queue') \subseteq Elems(aip_queue) \cup {None}),
         taken' \in Nat, taken <= taken', key' # "start",
         \A s \in Elems(aip_queue') : s \in Elems(aip_queue) \/ s \notin Sn \/ s > taken,
         UNCHANGED <<upload_cache_queue, late, recording, record_id, step, held, lacking>>
  PROVE  Cached'
<1>1. step = "remove" => Over(held)'
  <2> SUFFICES ASSUME step = "remove" PROVE Over(held)'
    OBVIOUS
  <2>1. held \in late /\ Over(held) /\ held \in Sn /\ taken \in Nat
    BY DEF Cached, TypeOK
  <2>2. held <= taken' /\ held \notin Elems(aip_queue')
    BY <2>1 DEF Over, Arrived, Sn
  <2>3. QED
    BY <2>1, <2>2 DEF Over, Arrived
<1>2. ASSUME NEW s \in Elems(upload_cache_queue) \ late
      PROVE  taken' = s /\ Elems(aip_queue') \subseteq {None} /\ recording \in {s, None}
  BY <1>2 DEF Cached
<1>3. QED
  BY <1>1, <1>2 DEF Cached, HeldIsKnown

LEMMA StartRecordInv == ASSUME IInv, StartRecord PROVE IInv'
<1> USE DEF frameVars, StartRecord, queueVars, asrVars, seenVars, cacheSeenVars, faultVars
<1>0. TypeOK /\ taken \in Nat /\ taken + 1 \in Sn
  BY SMTT(30) DEF IInv, MessageIsFound, TypeOK, Sn
<1>1. bad \subseteq bad' /\ bad' \subseteq 0..MaxSn
  <2>1. taken + 1 \in 0..MaxSn /\ bad \subseteq 0..MaxSn
    BY <1>0 DEF TypeOK, Sn
  <2>2. CASE Fault(taken + 1)
    BY <1>0, <2>1, <2>2, FaultFacts
  <2>3. CASE UNCHANGED faultVars
    BY <2>1, <2>3
  <2>4. QED
    BY <2>2, <2>3
<1>2. aip_queue' \in Seq(Sn \cup {None})
  <2>1. aip_queue \in Seq(Sn \cup {None}) /\ taken + 1 \in Sn \cup {None}
    BY <1>0 DEF TypeOK
  <2>2. Append(aip_queue, taken + 1) \in Seq(Sn \cup {None})
    BY <2>1, AppendProperties
  <2>3. QED
    BY <2>1, <2>2
<1>3. TypeOK'
  BY <1>0, <1>1, <1>2, SMTT(30) DEF TypeOK, Sn
<1>4. WaysApart'
  BY <1>0, QueuedApart DEF IInv
<1>5. StopIsLast'
  BY DEF IInv, StopIsLast
<1>6. OnePlace' /\ ResultFindsMessage' /\ OwnMemory' /\ Told' /\ InCache'
  BY StillOnePlace, StillFinds, StillOwn, StillTold, StillInCache DEF IInv, MessageIsFound
<1>7. InOrder'
  BY <1>0, QueuedInOrder DEF IInv
<1>8. Cached'
  <2>1. aip_queue \in Seq(Sn \cup {None}) /\ taken + 1 \in Sn \cup {None}
    BY <1>0 DEF TypeOK
  <2>2. Elems(Append(aip_queue, taken + 1)) = Elems(aip_queue) \cup {taken + 1}
    BY <2>1, AppendFacts
  <2>3. \A s \in Elems(aip_queue') : s \in Elems(aip_queue) \/ s \notin Sn \/ s > taken
    <3>1. aip_queue' = aip_queue \/ aip_queue' = Append(aip_queue, taken + 1)
      OBVIOUS
    <3>2. Elems(aip_queue') \subseteq Elems(aip_queue) \cup {taken + 1}
      BY <2>2, <3>1
    <3>3. taken + 1 > taken
      BY <1>0
    <3>4. QED
      BY <3>2, <3>3
  <2>4. Cached /\ WaysApart
    BY DEF IInv
  <2>5. QED
    BY <1>0, <2>3, <2>4, QueuedCached
<1>9. QED
  BY <1>3, <1>4, <1>5, <1>6, <1>7, <1>8 DEF IInv, MessageIsFound

LEMMA ReleaseInv == ASSUME IInv, Release PROVE IInv'
<1> USE DEF frameVars, Release, queueVars, asrVars, seenVars, cacheSeenVars
<1>0. TypeOK /\ taken \in 0..MaxSn /\ aip_queue \in Seq(Sn \cup {None})
  BY DEF IInv, MessageIsFound, TypeOK
<1>1. bad \subseteq bad' /\ bad' \subseteq 0..MaxSn
  BY <1>0, FaultFacts DEF TypeOK, faultVars
<1>2. aip_queue' = aip_queue \/ aip_queue' = Append(aip_queue, None)
  OBVIOUS
<1>3. aip_queue' \in Seq(Sn \cup {None})
  BY <1>0, <1>2, AppendProperties, SMTT(30)
<1>4. TypeOK'
  BY <1>0, <1>1, <1>3 DEF TypeOK
<1>5. WaysApart'
  BY <1>0, <1>2, QueuedApart DEF IInv
<1>6. StopIsLast'
  <2>1. CASE button' = "up"
    <3>1. aip_queue' = Append(aip_queue, None) /\ wechat_status' = FALSE /\ key' = "idle"
      BY <2>1
    <3>2. aip_queue' # << >> /\ aip_queue'[Len(aip_queue')] = None
      BY <1>0, <3>1, AppendPlaces, EmptySeq
    <3>3. QED
      BY <3>1, <3>2 DEF StopIsLast
  <2>2. CASE button' # "up"
    BY <2>2 DEF StopIsLast
  <2>3. QED
    BY <2>1, <2>2
<1>7. OnePlace' /\ ResultFindsMessage' /\ OwnMemory' /\ Told' /\ InCache'
  BY StillOnePlace, StillFinds, StillOwn, StillTold, StillInCache DEF IInv, MessageIsFound
<1>8. InOrder'
  BY <1>0, <1>2, QueuedInOrder DEF IInv
<1>9. Cached'
  <2>1. Elems(aip_queue') \subseteq Elems(aip_queue) \cup {None}
    <3>1. Elems(Append(aip_queue, None)) = Elems(aip_queue) \cup {None}
      BY <1>0, AppendFacts
    <3>2. QED
      BY <1>2, <3>1
  <2>2. Cached /\ WaysApart /\ None \notin Sn
    BY DEF IInv, Sn
  <2>3. key' # "start" /\ taken' = taken /\ taken \in Nat
    BY <1>0
  <2>4. QED
    BY <1>0, <2>1, <2>2, <2>3, QueuedCached
<1>10. QED
  BY <1>4, <1>5, <1>6, <1>7, <1>8, <1>9 DEF IInv, MessageIsFound

-----------------------------------------------------------------------------
(* The recording service's task                                             *)

\* A step within a recording, after its first frame has begun.
LEMMA WithinApart ==
  ASSUME TypeOK, WaysApart, UNCHANGED <<taken, aip_queue, recording>>, record_id' > 0, recording # None,
         Elems(upload_cache_queue') \subseteq Elems(upload_cache_queue) \cup {recording},
         Past' \subseteq Past \cup {s \in Sn : Over(s)},
         record_sn' \in {0, record_sn, recording}, NoRepeat(asr')
  PROVE  WaysApart'
<1>1. \A s : (Arrived(s)' <=> Arrived(s)) /\ (Over(s)' <=> Over(s)) /\ (Begun(s) => Begun(s)')
  <2>1. \A s : Arrived(s)' <=> Arrived(s)
    BY DEF Arrived
  <2>2. \A s : Begun(s) => Begun(s)'
    BY <2>1 DEF Begun
  <2>3. \A s : Over(s)' <=> Over(s)
    BY <2>1 DEF Over
  <2>4. QED
    BY <2>1, <2>2, <2>3
<1>2. ASSUME NEW s, s = recording PROVE Begun(s)'
  <2>1. Arrived(s)'
    BY <1>1, <1>2 DEF WaysApart
  <2>2. QED
    BY <2>1 DEF Begun
<1>3. ASSUME NEW s \in Past' PROVE Over(s)'
  BY <1>1 DEF WaysApart
<1>4. ASSUME NEW s \in Elems(upload_cache_queue)' PROVE Begun(s)'
  <2>1. s = recording \/ Begun(s)
    BY DEF WaysApart
  <2>2. QED
    BY <2>1, <1>1, <1>2
<1>5. ASSUME NEW s, s = record_sn', s # 0 PROVE Begun(s)'
  <2>1. s = recording \/ Begun(s)
    BY <1>5 DEF WaysApart
  <2>2. QED
    BY <2>1, <1>1, <1>2
<1>6. (record_sn # 0 => Begun(record_sn))'
  BY <1>5
<1>7. (recording # None => Arrived(recording))'
  BY DEF WaysApart, Arrived
<1>8. QED
  BY <1>3, <1>4, <1>6, <1>7 DEF WaysApart

LEMMA FrameInv == ASSUME IInv, Frame PROVE IInv'
<1> USE DEF Frame, queueVars, keyVars, asrVars, seenVars, cacheSeenVars, faultVars
<1>0. TypeOK /\ record_id \in Nat /\ record_id + 1 \in 1..MaxFrames /\ WaysApart
  BY SMTT(30) DEF IInv, MessageIsFound, TypeOK
<1>1. TypeOK'
  BY <1>0, SMTT(30) DEF TypeOK
<1>2. WaysApart'
  <2>1. record_id' > 0 /\ Past' = Past /\ NoRepeat(asr')
    BY <1>0 DEF Past, WaysApart
  <2>2. QED
    BY <1>0, <2>1, WithinApart
<1>3. OnePlace' /\ ResultFindsMessage' /\ OwnMemory' /\ InOrder'
  BY StillOnePlace, StillFinds, StillOwn, StillInOrder DEF IInv, MessageIsFound
<1>4. Told' /\ InCache' /\ StopIsLast'
  BY StillTold, StillInCache, StillLast DEF IInv
<1>5. Cached'
  BY <1>0 DEF IInv, Cached
<1>6. QED
  BY <1>1, <1>2, <1>3, <1>4, <1>5 DEF IInv, MessageIsFound

\* The first message of the cache is one of its messages.
LEMMA FirstIsIn ==
  ASSUME TypeOK, upload_cache_queue # << >>
  PROVE  Head(upload_cache_queue) \in Elems(upload_cache_queue) /\ Head(upload_cache_queue) \in Sn
<1>1. upload_cache_queue \in Seq(Sn)
  BY DEF TypeOK
<1>2. QED
  BY <1>1, TailPlaces

LEMMA FirstFrameInv == ASSUME IInv, ~torn, FirstFrame PROVE IInv'
<1>0. /\ TypeOK /\ WaysApart /\ Cached /\ InCache
      /\ recording # None /\ recording \in Sn /\ recording \in 0..MaxSn
      /\ record_id = 0 /\ 1 \in 0..MaxFrames /\ step = "between"
      /\ record_id' = 1
      /\ UNCHANGED <<upload_queue, upload_cache_queue, key, button, wifi_status, wechat_status, taken,
                     aip_queue, recording, record_sn, asr, msg_obj, new_msgs, sending, sent, freed,
                     reused, strange, late, blended, torn, presses>>
  BY SMTT(30) DEF FirstFrame, IInv, MessageIsFound, TypeOK, queueVars, keyVars, asrVars, Sn
<1>1. recording \notin Elems(upload_cache_queue) /\ record_sn # recording
  BY <1>0 DEF WaysApart, Begun, Sn
<1>2. /\ bad \subseteq bad' /\ bad' \subseteq 0..MaxSn
      /\ lacking' \in {lacking, lacking \cup {recording}}
      /\ \/ step' \in {"between", "look"} /\ held' = held /\ lacking' = lacking \cup {recording}
         \/ step' = "add" /\ held' = held /\ upload_cache_queue = << >> /\ lacking' = lacking
         \/ /\ step' = "remove" /\ upload_cache_queue # << >> /\ held' = Head(upload_cache_queue)
            /\ lacking' = lacking
  BY <1>0, FaultFacts DEF FirstFrame, TypeOK, faultVars, frameVars
<1>3. held' \in Sn \cup {None} /\ lacking' \subseteq Sn
      /\ step' \in {"between", "remove", "add", "look", "write"}
  BY <1>0, <1>2, FirstIsIn DEF TypeOK
<1>4. TypeOK'
  BY <1>0, <1>2, <1>3 DEF TypeOK
<1>5. OnePlace' /\ ResultFindsMessage' /\ InOrder'
  BY <1>0, <1>2, StillOnePlace, StillFinds, StillInOrder DEF IInv, MessageIsFound
<1>6. OwnMemory'
  BY <1>0, <1>2 DEF IInv, MessageIsFound, OwnMemory
<1>7. WaysApart'
  <2>1. record_id' > 0 /\ Past' = Past /\ NoRepeat(asr')
    BY <1>0 DEF Past, WaysApart
  <2>2. QED
    BY <1>0, <2>1, WithinApart
<1>8. Cached'
  <2>1. CASE upload_cache_queue = << >>
    <3>1. Elems(upload_cache_queue) = {}
      BY <2>1, ElemsEmpty
    <3>2. QED
      BY <1>0, <1>2, <2>1, <3>1 DEF Cached
  <2>2. CASE upload_cache_queue # << >>
    <3> DEFINE h == Head(upload_cache_queue)
    <3>1. h \in Elems(upload_cache_queue) /\ h \in Sn /\ h # recording
      BY <1>0, <1>1, <2>2, FirstIsIn
    <3>2. h \in late
      BY <1>0, <1>1, <3>1 DEF Cached
    <3>3. h <= taken' /\ h \notin Elems(aip_queue') /\ h # recording'
      BY <1>0, <3>1 DEF WaysApart, Begun, Arrived
    <3>4. Elems(upload_cache_queue) \subseteq {h}
      BY <1>0, <3>1 DEF Cached
    <3>5. step' = "remove" => held' = h
      BY <1>2
    <3> HIDE DEF h
    <3>6. step' = "remove" => Over(held)'
      BY <3>3, <3>5 DEF Over, Arrived
    <3>7. QED
      BY <1>0, <1>2, <2>2, <3>2, <3>4, <3>5, <3>6 DEF Cached
  <2>3. QED
    BY <2>1, <2>2
<1>9. Told' /\ InCache' /\ StopIsLast'
  BY <1>0, <1>2, StillTold, StillInCache, StillLast DEF IInv
<1>10. QED
  BY <1>4, <1>5, <1>6, <1>7, <1>8, <1>9 DEF IInv, MessageIsFound

LEMMA RemoveHeldInv == ASSUME IInv, ~torn, RemoveHeld PROVE IInv'
<1>0. /\ TypeOK /\ OnePlace /\ WaysApart /\ Cached /\ InCache /\ OwnMemory
      /\ step = "remove" /\ recording # None /\ record_id > 0
      /\ held \in late /\ held \in Sn /\ Over(held) /\ Elems(upload_cache_queue) \subseteq {held}
      /\ UNCHANGED <<upload_queue, key, button, wifi_status, wechat_status, taken,
                     aip_queue, recording, record_id, record_sn, asr, msg_obj, new_msgs, sending, sent,
                     freed, strange, late, lacking, blended, presses, faults, bad>>
  BY DEF RemoveHeld, IInv, MessageIsFound, Cached, TypeOK, keyVars, asrVars, faultVars
<1>1. CASE held \notin Elems(upload_cache_queue)
  <2>1. torn' = TRUE /\ UNCHANGED <<upload_cache_queue, reused, step, held>>
    BY <1>1 DEF RemoveHeld, frameVars
  <2>2. TypeOK'
    BY <1>0, <2>1 DEF TypeOK
  <2>3. OnePlace' /\ ResultFindsMessage' /\ OwnMemory'
    BY <1>0, <2>1, StillOnePlace, StillFinds DEF IInv, MessageIsFound, OwnMemory
  <2>4. WaysApart' /\ InOrder' /\ Cached' /\ Told' /\ InCache' /\ StopIsLast'
    BY <1>0, <2>1, StillApart, StillInOrder, StillCached, StillTold, StillInCache, StillLast DEF IInv
  <2>5. QED
    BY <2>2, <2>3, <2>4 DEF IInv, MessageIsFound
<1>2. CASE held \in Elems(upload_cache_queue)
  <2>1. /\ upload_cache_queue' = Without(upload_cache_queue, held)
        /\ reused' = reused \cup {held} /\ step' = "add" /\ held' = None /\ torn' = torn
    BY <1>2 DEF RemoveHeld
  <2>2. /\ upload_cache_queue' \in Seq(Sn) /\ NoRepeat(upload_cache_queue')
        /\ Elems(upload_cache_queue') = Elems(upload_cache_queue) \ {held}
    BY <1>0, <2>1, WithoutFacts DEF TypeOK, OnePlace
  <2>3. Elems(upload_cache_queue') = {} /\ Elems(upload_cache_queue) = {held} /\ held # recording
    BY <1>0, <1>2, <2>2 DEF Over
  <2>4. TypeOK'
    BY <1>0, <2>1, <2>2 DEF TypeOK
  <2>5. OnePlace' /\ ResultFindsMessage'
    BY <1>0, <1>2, <2>1, <2>2, <2>3, StillFinds DEF IInv, MessageIsFound, OnePlace, InQueues
  <2>6. OwnMemory'
    BY <1>0, <2>1 DEF OwnMemory
  <2>7. WaysApart'
    <3>1. Past' \subseteq Past \cup {s \in Sn : Over(s)} /\ NoRepeat(asr') /\ record_id' > 0
      BY <1>0, <2>1 DEF Past, WaysApart
    <3>2. QED
      BY <1>0, <2>3, <3>1, WithinApart
  <2>8. Cached'
    BY <1>0, <2>1, <2>3 DEF Cached
  <2>9. InCache'
    BY <1>0, <2>1, <2>3 DEF InCache
  <2>10. InOrder' /\ Told' /\ StopIsLast'
    BY <1>0, StillInOrder, StillTold, StillLast DEF IInv
  <2>11. QED
    BY <2>4, <2>5, <2>6, <2>7, <2>8, <2>9, <2>10 DEF IInv, MessageIsFound
<1>3. QED
  BY <1>1, <1>2

LEMMA AddMessageInv == ASSUME IInv, AddMessage PROVE IInv'
<1>0. /\ TypeOK /\ OnePlace /\ WaysApart /\ Cached /\ InCache /\ OwnMemory /\ InOrder
      /\ step = "add" /\ recording # None /\ recording \in Sn /\ record_id > 0
      /\ Elems(upload_cache_queue) = {}
      /\ upload_cache_queue' = <<recording>> \o upload_cache_queue
      /\ late' = (IF key = "start" \/ taken > recording THEN late \cup {recording} ELSE late)
      /\ step' = "look"
      /\ UNCHANGED <<upload_queue, key, button, wifi_status, wechat_status, taken,
                     aip_queue, recording, record_id, held, record_sn, asr, msg_obj, new_msgs, sending,
                     sent, freed, reused, strange, lacking, blended, torn, presses, faults, bad>>
  BY DEF AddMessage, IInv, MessageIsFound, Cached, TypeOK, keyVars, asrVars, faultVars
<1>1. /\ upload_cache_queue' \in Seq(Sn) /\ NoRepeat(upload_cache_queue')
      /\ Elems(upload_cache_queue') = {recording}
  <2>1. upload_cache_queue \in Seq(Sn) /\ NoRepeat(upload_cache_queue)
    BY <1>0 DEF TypeOK, OnePlace
  <2>2. QED
    BY <1>0, <2>1, PushFacts
<1>2. TypeOK'
  BY <1>0, <1>1 DEF TypeOK
<1>3. recording \notin Past
  BY <1>0 DEF WaysApart, Over
<1>4. OnePlace'
  <2>1. recording # msg_obj /\ recording \notin Elems(upload_queue) \cup freed \cup reused
    BY <1>0, <1>3 DEF Past
  <2>2. QED
    BY <1>0, <1>1, <2>1 DEF OnePlace, InQueues
<1>5. late \subseteq late' /\ (recording \notin late' => key # "start" /\ taken <= recording)
  BY <1>0 DEF TypeOK, Sn
<1>6. ResultFindsMessage' /\ OwnMemory' /\ InOrder'
  BY <1>0, <1>5, StillFinds, StillOwn, StillInOrder DEF IInv, MessageIsFound
<1>7. WaysApart'
  <2>1. Past' = Past /\ NoRepeat(asr') /\ record_id' > 0
    BY <1>0 DEF Past, WaysApart
  <2>2. QED
    BY <1>0, <1>1, <2>1, WithinApart
<1>8. Cached'
  <2>1. ASSUME recording \notin late' PROVE taken = recording /\ Elems(aip_queue) \subseteq {None}
    <3>1. taken \in Nat /\ recording \in Nat /\ taken <= recording /\ recording <= taken
      BY <1>0, <1>5, <2>1 DEF WaysApart, Arrived, TypeOK, Sn
    <3>2. ASSUME NEW s \in Elems(aip_queue), s # None PROVE FALSE
      <4>1. s \in Sn \cup {None} /\ recording < s /\ s <= taken
        BY <1>0, <3>2, ElemsType DEF InOrder, WaysApart, TypeOK
      <4>2. QED
        BY <3>1, <3>2, <4>1 DEF Sn
    <3>3. QED
      BY <3>1, <3>2
  <2>2. QED
    BY <1>0, <1>1, <1>5, <2>1 DEF Cached
<1>9. InCache'
  BY <1>0, <1>1 DEF InCache
<1>10. Told' /\ StopIsLast'
  BY <1>0, StillTold, StillLast DEF IInv
<1>11. QED
  BY <1>2, <1>4, <1>6, <1>7, <1>8, <1>9, <1>10 DEF IInv, MessageIsFound

LEMMA LookAtCacheInv == ASSUME IInv, ~torn, LookAtCache PROVE IInv'
<1>0. /\ TypeOK /\ WaysApart /\ Cached /\ OwnMemory
      /\ step = "look" /\ step' = "write" /\ recording # None /\ record_id > 0
      /\ held' = (IF upload_cache_queue = << >> THEN None ELSE Head(upload_cache_queue))
      /\ UNCHANGED <<upload_queue, upload_cache_queue, key, button, wifi_status, wechat_status, taken,
                     aip_queue, recording, record_id, record_sn, asr, msg_obj, new_msgs, sending,
                     sent, freed, reused, strange, late, lacking, blended, torn, presses, faults, bad>>
  BY DEF LookAtCache, IInv, MessageIsFound, Cached, queueVars, keyVars, asrVars, seenVars,
         cacheSeenVars, faultVars
<1>1. held' \in Sn \cup {None} /\ (held' = None \/ held' \in Elems(upload_cache_queue))
  BY <1>0, FirstIsIn
<1>2. TypeOK'
  BY <1>0, <1>1 DEF TypeOK
<1>3. HeldIsKnown'
  <2>1. CASE upload_cache_queue = << >>
    <3>1. Elems(upload_cache_queue) = {}
      BY <2>1, ElemsEmpty
    <3>2. QED
      BY <1>0, <2>1, <3>1 DEF Cached, HeldIsKnown
  <2>2. CASE upload_cache_queue # << >>
    <3>1. held' \in Elems(upload_cache_queue)
      BY <1>0, <2>2, FirstIsIn
    <3>2. QED
      BY <1>0, <3>1 DEF Cached, HeldIsKnown
  <2>3. QED
    BY <2>1, <2>2
<1>4. Cached'
  BY <1>0, <1>3 DEF Cached
<1>5. OwnMemory'
  BY <1>0 DEF OwnMemory
<1>6. OnePlace' /\ ResultFindsMessage' /\ WaysApart' /\ InOrder'
  BY <1>0, StillOnePlace, StillFinds, StillApart, StillInOrder DEF IInv, MessageIsFound
<1>7. Told' /\ InCache' /\ StopIsLast'
  BY <1>0, StillTold, StillInCache, StillLast DEF IInv
<1>8. QED
  BY <1>2, <1>4, <1>5, <1>6, <1>7 DEF IInv, MessageIsFound

LEMMA WriteFrameInv == ASSUME IInv, ~torn, WriteFrame PROVE IInv'
<1>0. /\ TypeOK /\ WaysApart /\ Cached /\ OwnMemory /\ InCache
      /\ step = "write" /\ recording # None /\ recording \in Sn /\ record_id > 0 /\ record_id \in Nat
      /\ HeldIsKnown
      /\ blended' = (IF held \in {None, recording} THEN blended ELSE blended \cup {recording})
      /\ UNCHANGED <<upload_queue, upload_cache_queue, key, button, wifi_status, wechat_status, taken,
                     aip_queue, recording, record_id, msg_obj, new_msgs, sending,
                     sent, freed, reused, strange, late, lacking, presses, faults, bad>>
  BY DEF WriteFrame, IInv, MessageIsFound, Cached, TypeOK, queueVars, keyVars, faultVars
<1>1. \/ /\ asr' = asr /\ record_sn' \in {record_sn, recording}
         /\ step' = "between" /\ held' = None /\ torn' = FALSE
      \/ /\ held \notin Elems(upload_cache_queue) \cup {None}
         /\ torn' = TRUE /\ UNCHANGED <<asr, record_sn, step, held>>
  BY <1>0 DEF WriteFrame, Request, asrVars, frameVars
<1>2. /\ asr' = asr /\ record_sn' \in {record_sn, recording}
      /\ blended' \subseteq lacking /\ blended' \subseteq Sn
      /\ recording \in Elems(upload_cache_queue) \cup lacking
      /\ torn' => held' \in late
  BY <1>0, <1>1 DEF Cached, HeldIsKnown, OwnMemory, TypeOK
<1>3. TypeOK'
  <2>1. record_sn' \in 0..MaxSn
    BY <1>0, <1>2 DEF TypeOK, Sn
  <2>2. held' \in Sn \cup {None} /\ step' \in {"between", "remove", "add", "look", "write"}
    BY <1>0, <1>1 DEF TypeOK
  <2>3. torn' \in BOOLEAN
    BY <1>1
  <2>4. QED
    BY <1>0, <1>2, <2>1, <2>2, <2>3 DEF TypeOK
<1>4. OwnMemory'
  BY <1>0, <1>2 DEF OwnMemory
<1>5. OnePlace' /\ ResultFindsMessage' /\ InOrder'
  BY <1>0, StillOnePlace, StillFinds, StillInOrder DEF IInv, MessageIsFound
<1>6. WaysApart'
  <2>1. Past' = Past /\ NoRepeat(asr') /\ record_id' > 0
    BY <1>0, <1>2 DEF Past, WaysApart
  <2>2. QED
    BY <1>0, <1>2, <2>1, WithinApart
<1>7. Cached'
  <2>1. CASE step' = "write" /\ held' = held
    BY <1>0, <2>1 DEF Cached, HeldIsKnown
  <2>2. CASE step' = "between"
    BY <1>0, <2>2 DEF Cached
  <2>3. QED
    BY <1>0, <1>1, <2>1, <2>2
<1>8. InCache'
  BY <1>0, <1>2 DEF InCache
<1>9. Told' /\ StopIsLast'
  BY <1>0, StillTold, StillLast DEF IInv
<1>10. QED
  BY <1>3, <1>4, <1>5, <1>6, <1>7, <1>8, <1>9 DEF IInv, MessageIsFound

\* The end of a recording reaches the recognition when its first frame did last.
LEMMA EndMay ==
  ASSUME TypeOK, WaysApart, End
  PROVE  /\ asr' \in Seq(Sn) /\ NoRepeat(asr') /\ record_sn' = record_sn
         /\ \A s \in Elems(asr') : s \in Elems(asr) \/ (s \in Sn /\ s = recording /\ s = record_sn)
         /\ bad \subseteq bad' /\ bad' \subseteq 0..MaxSn
<1>0. /\ asr \in Seq(Sn) /\ NoRepeat(asr) /\ bad \subseteq 0..MaxSn
      /\ recording # None => recording \in Sn /\ recording \in 0..MaxSn
  BY DEF TypeOK, WaysApart, Sn
<1>1. CASE recording = None /\ UNCHANGED <<asrVars, faultVars>>
  BY <1>0, <1>1 DEF asrVars, faultVars
<1>2. CASE recording # None /\ Request(recording, -1) /\ UNCHANGED faultVars
  <2>1. record_sn' = record_sn /\ bad' = bad
    BY <1>2 DEF Request, faultVars
  <2>2. CASE record_sn = recording
    <3>1. asr' = Append(asr, recording)
      BY <1>2, <2>2 DEF Request
    <3>2. recording \notin Elems(asr)
      BY <1>2 DEF WaysApart, Past, Over
    <3>3. /\ Append(asr, recording) \in Seq(Sn)
          /\ Elems(Append(asr, recording)) = Elems(asr) \cup {recording}
          /\ NoRepeat(Append(asr, recording))
      BY <1>0, <1>2, <3>2, AppendFacts
    <3>4. QED
      BY <1>0, <1>2, <2>1, <2>2, <3>1, <3>3
  <2>3. CASE record_sn # recording
    <3>1. asr' = asr
      BY <1>2, <2>3 DEF Request
    <3>2. QED
      BY <1>0, <2>1, <3>1
  <2>4. QED
    BY <2>2, <2>3
<1>3. CASE recording # None /\ Fault(recording) /\ UNCHANGED asrVars
  <2>1. bad' \subseteq 0..MaxSn /\ bad \subseteq bad'
    BY <1>0, <1>3, FaultFacts
  <2>2. QED
    BY <1>0, <1>3, <2>1 DEF asrVars
<1>4. QED
  BY <1>1, <1>2, <1>3 DEF End

\* What the recording service's task takes out of its queue.
NextRecording ==
  \/ recording' = None /\ UNCHANGED aip_queue
  \/ aip_queue # << >> /\ recording' = Head(aip_queue) /\ aip_queue' = Tail(aip_queue)

LEMMA NextRecordingMay ==
  ASSUME TypeOK, WaysApart, NextRecording
  PROVE  /\ aip_queue' \in Seq(Sn \cup {None}) /\ Elems(aip_queue') \subseteq Elems(aip_queue)
         /\ recording' \in Sn \cup {None}
         /\ recording' # None => recording' \in Elems(aip_queue) /\ recording' \notin Elems(aip_queue')
         /\ \A i, j \in 1..Len(aip_queue') : aip_queue'[i] = aip_queue'[j] /\ aip_queue'[i] # None => i = j
<1> DEFINE q == aip_queue
<1>0. /\ q \in Seq(Sn \cup {None})
      /\ \A i, j \in 1..Len(q) : q[i] = q[j] /\ q[i] # None => i = j
  BY DEF TypeOK, WaysApart
<1>1. CASE recording' = None /\ aip_queue' = q
  BY <1>0, <1>1
<1>2. CASE q # << >> /\ recording' = Head(q) /\ aip_queue' = Tail(q)
  <2>1. /\ Tail(q) \in Seq(Sn \cup {None})
        /\ Len(q) \in Nat \ {0} /\ Len(Tail(q)) = Len(q) - 1
        /\ Head(q) = q[1] /\ Head(q) \in Sn \cup {None} /\ Head(q) \in Elems(q)
        /\ \A i \in 1..(Len(q) - 1) : Tail(q)[i] = q[i + 1]
        /\ Elems(q) = Elems(Tail(q)) \cup {Head(q)}
    BY <1>0, <1>2, TailPlaces
  <2> HIDE DEF q
  <2>2. Head(q) # None => Head(q) \notin Elems(Tail(q))
    <3> SUFFICES ASSUME Head(q) # None, NEW i \in 1..Len(Tail(q)), Tail(q)[i] = Head(q)
                 PROVE  FALSE
      BY DEF Elems
    <3>1. i + 1 \in 1..Len(q) /\ 1 \in 1..Len(q) /\ q[i + 1] = q[1] /\ i + 1 # 1
      BY <2>1
    <3>2. QED
      BY <1>0, <2>1, <3>1
  <2>3. ASSUME NEW i \in 1..Len(Tail(q)), NEW j \in 1..Len(Tail(q)),
               Tail(q)[i] = Tail(q)[j], Tail(q)[i] # None
        PROVE  i = j
    <3>1. i + 1 \in 1..Len(q) /\ j + 1 \in 1..Len(q) /\ Tail(q)[i] = q[i + 1] /\ Tail(q)[j] = q[j + 1]
      BY <2>1
    <3>2. i + 1 = j + 1
      BY <1>0, <2>3, <3>1
    <3>3. QED
      BY <2>1, <3>2
  <2>4. QED
    BY <1>2, <2>1, <2>2, <2>3 DEF q
<1>3. QED
  BY <1>1, <1>2 DEF NextRecording

LEMMA NextInOrder ==
  ASSUME TypeOK, InOrder, NextRecording
  PROVE  InOrder'
<1>1. CASE recording' = None /\ aip_queue' = aip_queue
  BY <1>1 DEF InOrder
<1>2. CASE aip_queue # << >> /\ recording' = Head(aip_queue) /\ aip_queue' = Tail(aip_queue)
  <2> DEFINE q == aip_queue
             r == Tail(aip_queue)
  <2>0. /\ q \in Seq(Sn \cup {None})
        /\ \A i, j \in 1..Len(q) : i < j /\ q[i] # None /\ q[j] # None => q[i] < q[j]
    BY DEF TypeOK, InOrder
  <2>1. /\ Len(q) \in Nat \ {0} /\ Len(r) = Len(q) - 1
        /\ Head(q) = q[1] /\ \A i \in 1..(Len(q) - 1) : r[i] = q[i + 1]
    BY <1>2, <2>0, TailPlaces
  <2>2. recording' = Head(q) /\ aip_queue' = r
    BY <1>2
  <2> HIDE DEF q, r
  <2>3. \A i \in 1..Len(r) : i + 1 \in 1..Len(q) /\ r[i] = q[i + 1] /\ 1 < i + 1
    BY <2>1
  <2>4. ASSUME NEW i \in 1..Len(r), NEW j \in 1..Len(r), i < j, r[i] # None, r[j] # None
        PROVE  r[i] < r[j]
    <3>1. i + 1 < j + 1
      BY <2>1, <2>4
    <3>2. QED
      BY <2>0, <2>3, <2>4, <3>1
  <2>5. ASSUME Head(q) # None, NEW s \in Elems(r), s # None PROVE Head(q) < s
    <3>1. PICK i \in 1..Len(r) : r[i] = s
      BY DEF Elems
    <3>2. 1 \in 1..Len(q)
      BY <2>1
    <3>3. QED
      BY <2>0, <2>1, <2>3, <2>5, <3>1, <3>2
  <2>6. QED
    BY <2>2, <2>4, <2>5 DEF InOrder
<1>3. QED
  BY <1>1, <1>2 DEF NextRecording

LEMMA RecordingEndsInv ==
  ASSUME IInv, End, NextRecording, record_id' = 0, step = "between",
         UNCHANGED <<queueVars, keyVars, taken, frameVars, msg_obj, new_msgs, sending, seenVars,
                     presses>>
  PROVE  IInv'
<1> USE DEF queueVars, keyVars, frameVars, seenVars, cacheSeenVars
<1>0. TypeOK /\ OnePlace /\ WaysApart /\ InCache /\ Cached
  BY DEF IInv, MessageIsFound
<1>1. /\ asr' \in Seq(Sn) /\ NoRepeat(asr') /\ record_sn' = record_sn
      /\ \A s \in Elems(asr') : s \in Elems(asr) \/ (s \in Sn /\ s = recording /\ s = record_sn)
      /\ bad \subseteq bad' /\ bad' \subseteq 0..MaxSn
  BY <1>0, EndMay
<1>2. /\ aip_queue' \in Seq(Sn \cup {None}) /\ Elems(aip_queue') \subseteq Elems(aip_queue)
      /\ recording' \in Sn \cup {None}
      /\ recording' # None => recording' \in Elems(aip_queue) /\ recording' \notin Elems(aip_queue')
      /\ \A i, j \in 1..Len(aip_queue') : aip_queue'[i] = aip_queue'[j] /\ aip_queue'[i] # None => i = j
  BY <1>0, NextRecordingMay
<1>3. TypeOK'
  BY <1>0, <1>1, <1>2, SMTT(30) DEF TypeOK
<1>4. ASSUME NEW s, Arrived(s), s # None PROVE Arrived(s)' /\ Over(s)' /\ Begun(s)'
  <2>1. s \notin Elems(aip_queue) /\ s <= taken
    BY <1>4 DEF Arrived
  <2>2. Arrived(s)' /\ s # recording'
    BY <1>2, <1>4, <2>1 DEF Arrived
  <2>3. QED
    BY <2>2 DEF Over, Begun
<1>5. \A s \in Past : Arrived(s) /\ s \in Sn
  BY <1>0, ElemsType DEF WaysApart, Over, TypeOK, Past
<1>6. \A s \in Elems(upload_cache_queue) : Arrived(s) /\ s \in Sn
  BY <1>0, ElemsType DEF WaysApart, Begun, TypeOK
<1>7. None \notin Sn /\ None # 0 /\ 0 \notin Sn
  BY DEF Sn
<1>8. WaysApart'
  <2>1. \A s \in Past' : s \in Past \/ (s \in Sn /\ s = recording)
    BY <1>1 DEF Past
  <2>2. ASSUME NEW s \in Past' PROVE Over(s)'
    <3>1. Arrived(s) /\ s # None
      BY <1>0, <1>5, <1>7, <2>1 DEF WaysApart
    <3>2. QED
      BY <3>1, <1>4
  <2>3. ASSUME NEW s \in Elems(upload_cache_queue)' PROVE Begun(s)'
    BY <1>4, <1>6, <1>7
  <2>4. ASSUME NEW s, s = record_sn', s # 0 PROVE Begun(s)'
    <3>1. Arrived(s) /\ s # None
      BY <1>0, <1>1, <2>4 DEF WaysApart, Begun, TypeOK
    <3>2. QED
      BY <3>1, <1>4
  <2>5. ASSUME NEW s, s = recording', s # None PROVE Arrived(s)'
    <3>1. s \in Elems(aip_queue) /\ s \notin Elems(aip_queue')
      BY <1>2, <2>5
    <3>2. s <= taken'
      BY <1>0, <2>5, <3>1 DEF WaysApart
    <3>3. QED
      BY <3>1, <3>2 DEF Arrived
  <2>6. \A s \in Elems(aip_queue') : s # None => s <= taken'
    BY <1>0, <1>2 DEF WaysApart
  <2>7. (record_sn # 0 => Begun(record_sn))' /\ (recording # None => Arrived(recording))'
    BY <2>4, <2>5
  <2>8. QED
    BY <1>1, <1>2, <2>2, <2>3, <2>6, <2>7 DEF WaysApart
<1>9. OnePlace' /\ OwnMemory' /\ InOrder'
  BY <1>0, StillOnePlace, StillOwn, NextInOrder DEF IInv, MessageIsFound
<1>10. InCache'
  <2>1. record_sn' # recording'
    <3>1. CASE record_sn = 0
      BY <1>1, <1>2, <1>7, <3>1
    <3>2. CASE record_sn # 0
      <4>1. Arrived(record_sn) /\ record_sn # None
        BY <1>0, <3>2 DEF WaysApart, Begun, TypeOK
      <4>2. QED
        BY <1>1, <1>2, <4>1 DEF Arrived
    <3>3. QED
      BY <3>1, <3>2
  <2>2. \A s \in Elems(asr') : s \in Elems(upload_cache_queue) \cup lacking \cup reused
    BY <1>0, <1>1 DEF InCache
  <2>3. QED
    BY <2>1, <2>2 DEF InCache
<1>14. Cached'
  <2>1. ASSUME NEW s \in Elems(upload_cache_queue) \ late
        PROVE  Elems(aip_queue') \subseteq {None} /\ recording' = None
    <3>1. Elems(aip_queue) \subseteq {None}
      BY <1>0 DEF Cached
    <3>2. QED
      BY <1>2, <3>1
  <2>2. QED
    BY <1>0, <2>1 DEF Cached
<1>11. StopIsLast'
  <2>1. StopIsLast
    BY DEF IInv
  <2>2. CASE recording' = None /\ aip_queue' = aip_queue
    BY <2>1, <2>2 DEF StopIsLast
  <2>3. CASE aip_queue # << >> /\ recording' = Head(aip_queue) /\ aip_queue' = Tail(aip_queue)
    <3>1. /\ Tail(aip_queue) \in Seq(Sn \cup {None})
          /\ Len(aip_queue) \in Nat \ {0} /\ Len(Tail(aip_queue)) = Len(aip_queue) - 1
          /\ Head(aip_queue) = aip_queue[1]
          /\ \A i \in 1..(Len(aip_queue) - 1) : Tail(aip_queue)[i] = aip_queue[i + 1]
      BY <1>0, <2>3, TailPlaces DEF TypeOK
    <3>2. CASE Len(aip_queue) = 1
      <4>1. aip_queue' = << >>
        BY <2>3, <3>1, <3>2, EmptySeq
      <4>2. QED
        BY <2>1, <2>3, <3>1, <3>2, <4>1 DEF StopIsLast
    <3>3. CASE Len(aip_queue) # 1
      <4>1. aip_queue' # << >> /\ aip_queue'[Len(aip_queue')] = aip_queue[Len(aip_queue)]
        <5> DEFINE n == Len(aip_queue)
        <5>1. n - 1 \in 1..(n - 1) /\ (n - 1) + 1 = n
          BY <3>1, <3>3
        <5>2. Tail(aip_queue)[n - 1] = aip_queue[n]
          BY <3>1, <5>1
        <5>3. Tail(aip_queue) # << >>
          <6>1. Len(Tail(aip_queue)) # 0
            BY <3>1, <5>1
          <6>2. QED
            BY <6>1, EmptySeq
        <5>4. QED
          BY <2>3, <3>1, <5>2, <5>3
      <4>2. QED
        BY <2>1, <2>3, <4>1 DEF StopIsLast
    <3>4. QED
      BY <3>2, <3>3
  <2>4. QED
    BY <2>2, <2>3 DEF NextRecording
<1>12. ResultFindsMessage' /\ Told'
  BY <1>1, StillFinds, StillTold DEF IInv, MessageIsFound
<1>13. QED
  BY <1>3, <1>8, <1>9, <1>10, <1>11, <1>12, <1>14 DEF IInv, MessageIsFound

LEMMA RecordStepInv == ASSUME IInv, ~torn, RecordStep PROVE IInv'
<1>1. CASE EndByLength
  BY <1>1, RecordingEndsInv DEF EndByLength, NextRecording
<1>2. CASE StartOrStop
  BY <1>2, RecordingEndsInv DEF StartOrStop, NextRecording
<1>3. QED
  BY <1>1, <1>2, FirstFrameInv, RemoveHeldInv, AddMessageInv, FrameInv, LookAtCacheInv, WriteFrameInv
     DEF RecordStep

-----------------------------------------------------------------------------
(* The recognition's and the wechat task                                    *)

\* No recording is begun or ended by a step that only moves messages on.
LEMMA MovedApart ==
  ASSUME WaysApart, UNCHANGED <<taken, aip_queue, recording, record_id>>,
         Past' \subseteq Past, Elems(upload_cache_queue') \subseteq Elems(upload_cache_queue),
         record_sn' \in {0, record_sn}, NoRepeat(asr')
  PROVE  WaysApart'
<1>1. ASSUME NEW s PROVE (Arrived(s) => Arrived(s)') /\ (Begun(s) => Begun(s)') /\ (Over(s) => Over(s)')
  <2>1. Arrived(s)' <=> Arrived(s)
    BY DEF Arrived
  <2>2. Begun(s) => Begun(s)'
    BY <2>1 DEF Begun
  <2>3. Over(s) => Over(s)'
    BY <2>1 DEF Over
  <2>4. QED
    BY <2>1, <2>2, <2>3
<1>2. ASSUME NEW s \in Past' PROVE Over(s)'
  BY <1>1 DEF WaysApart
<1>3. ASSUME NEW s \in Elems(upload_cache_queue)' PROVE Begun(s)'
  BY <1>1 DEF WaysApart
<1>4. ASSUME NEW s, s = record_sn', s # 0 PROVE Begun(s)'
  BY <1>1, <1>4 DEF WaysApart
<1>5. ASSUME NEW s, s = recording', s # None PROVE Arrived(s)'
  BY <1>1, <1>5 DEF WaysApart
<1>6. (record_sn # 0 => Begun(record_sn))' /\ (recording # None => Arrived(recording))'
  BY <1>4, <1>5
<1>7. QED
  BY <1>2, <1>3, <1>6 DEF WaysApart

\* Nor is the order of what is under way changed, nor what is in the cache unless a
\* result takes it.
LEMMA MovedCached ==
  ASSUME WaysApart, InOrder, OwnMemory, Cached, UNCHANGED <<key, taken, aipVars, cacheSeenVars, reused>>,
         \/ UNCHANGED upload_cache_queue
         \/ \E s \in Past : Elems(upload_cache_queue') = Elems(upload_cache_queue) \ {s}
  PROVE  InOrder' /\ OwnMemory' /\ Cached'
<1> USE DEF aipVars, frameVars, cacheSeenVars
<1>1. InOrder' /\ OwnMemory'
  BY StillInOrder, StillOwn
<1>2. CASE UNCHANGED upload_cache_queue
  <2>1. key' # "start" \/ key' = key
    OBVIOUS
  <2>2. UNCHANGED <<upload_cache_queue, late, taken, aip_queue, recording, record_id, step, held, lacking>>
    BY <1>2
  <2>3. QED
    BY <1>1, <2>1, <2>2, StillCached
<1>3. ASSUME NEW s \in Past, Elems(upload_cache_queue') = Elems(upload_cache_queue) \ {s}
      PROVE  Cached'
  <2>1. s # recording
    BY DEF WaysApart, Over
  <2>2. Over(held)' = Over(held)
    BY DEF Over, Arrived
  <2>3. step = "write" => HeldIsKnown'
    BY <1>3, <2>1 DEF Cached, HeldIsKnown
  <2>4. QED
    BY <1>3, <2>1, <2>2, <2>3 DEF Cached
<1>4. QED
  BY <1>1, <1>2, <1>3

\* Taking the first recording out of asr.
LEMMA AsrTail ==
  ASSUME TypeOK, WaysApart, asr # << >>
  PROVE  /\ Head(asr) \in Sn /\ Head(asr) \in Elems(asr) /\ Tail(asr) \in Seq(Sn)
         /\ Elems(Tail(asr)) = Elems(asr) \ {Head(asr)} /\ NoRepeat(Tail(asr))
BY TailFacts DEF TypeOK, WaysApart

LEMMA InterruptedInv == ASSUME IInv, Interrupted PROVE IInv'
<1> USE DEF Interrupted, queueVars, keyVars, aipVars, frameVars, seenVars, cacheSeenVars
<1>0. TypeOK /\ WaysApart /\ record_sn \in 0..MaxSn
  BY DEF IInv, MessageIsFound, TypeOK
<1>1. bad \subseteq bad' /\ bad' \subseteq 0..MaxSn /\ bad' # {}
  BY <1>0, FaultFacts
<1>2. TypeOK'
  BY <1>0, <1>1 DEF TypeOK
<1>3. WaysApart'
  <2>1. Past' = Past /\ NoRepeat(asr')
    BY <1>0 DEF Past, WaysApart
  <2>2. QED
    BY <1>0, <2>1, MovedApart
<1>4. InCache'
  <2>1. recording # 0
    BY <1>0, SMTT(30) DEF TypeOK, Sn
  <2>2. QED
    BY <2>1 DEF IInv, InCache
<1>5. OnePlace' /\ ResultFindsMessage' /\ Told' /\ StopIsLast'
  BY <1>1, StillOnePlace, StillFinds, StillTold, StillLast DEF IInv, MessageIsFound
<1>6. InOrder' /\ OwnMemory' /\ Cached'
  BY MovedCached DEF IInv, MessageIsFound
<1>7. QED
  BY <1>2, <1>3, <1>4, <1>5, <1>6 DEF IInv, MessageIsFound

LEMMA ResultLostInv == ASSUME IInv, ResultLost PROVE IInv'
<1> USE DEF ResultLost, queueVars, keyVars, aipVars, frameVars, seenVars, cacheSeenVars
<1>0. TypeOK /\ WaysApart
  BY DEF IInv, MessageIsFound
<1>1. /\ Head(asr) \in Sn /\ Head(asr) \in Elems(asr) /\ Tail(asr) \in Seq(Sn)
      /\ Elems(Tail(asr)) = Elems(asr) \ {Head(asr)} /\ NoRepeat(Tail(asr))
  BY <1>0, AsrTail
<1>2. Head(asr) \in 0..MaxSn
  BY <1>1 DEF Sn
<1>3. bad \subseteq bad' /\ bad' \subseteq 0..MaxSn /\ bad' # {}
  BY <1>0, <1>2, FaultFacts
<1>4. TypeOK'
  BY <1>0, <1>1, <1>3 DEF TypeOK
<1>5. WaysApart'
  <2>1. Past' \subseteq Past
    BY <1>1 DEF Past
  <2>2. QED
    BY <1>0, <1>1, <2>1, MovedApart
<1>6. InCache'
  BY <1>1 DEF IInv, InCache
<1>7. OnePlace' /\ ResultFindsMessage' /\ Told' /\ StopIsLast'
  BY <1>3, StillOnePlace, StillFinds, StillTold, StillLast DEF IInv, MessageIsFound
<1>8. InOrder' /\ OwnMemory' /\ Cached'
  BY MovedCached DEF IInv, MessageIsFound
<1>9. QED
  BY <1>4, <1>5, <1>6, <1>7, <1>8 DEF IInv, MessageIsFound

LEMMA MatchSnInv == ASSUME IInv, MatchSn PROVE IInv'
<1> USE DEF MatchSn, keyVars, aipVars, frameVars, cacheSeenVars, faultVars
<1> DEFINE s == Head(asr)
<1>0. TypeOK /\ WaysApart /\ OnePlace /\ InCache
  BY DEF IInv, MessageIsFound
<1>1. /\ s \in Sn /\ s \in Elems(asr) /\ Tail(asr) \in Seq(Sn)
      /\ Elems(Tail(asr)) = Elems(asr) \ {s} /\ NoRepeat(Tail(asr))
  BY <1>0, AsrTail
<1>2. s # recording /\ s # None
  BY <1>0, <1>1 DEF WaysApart, Past, Over, Sn
<1> HIDE DEF s
<1>3. asr' = Tail(asr)
  OBVIOUS
<1>4. \/ /\ s \in Elems(upload_cache_queue) /\ msg_obj' = s /\ strange' = strange
         /\ upload_cache_queue' \in Seq(Sn) /\ NoRepeat(upload_cache_queue')
         /\ Elems(upload_cache_queue') = Elems(upload_cache_queue) \ {s}
      \/ /\ s \notin Elems(upload_cache_queue) /\ strange' = s
         /\ UNCHANGED <<msg_obj, upload_cache_queue>>
  <2>1. CASE s \in Elems(upload_cache_queue)
    <3>1. /\ Without(upload_cache_queue, s) \in Seq(Sn) /\ NoRepeat(Without(upload_cache_queue, s))
          /\ Elems(Without(upload_cache_queue, s)) = Elems(upload_cache_queue) \ {s}
      BY <1>0, WithoutFacts DEF TypeOK, OnePlace
    <3>2. QED
      BY <2>1, <3>1 DEF s
  <2>2. CASE s \notin Elems(upload_cache_queue)
    BY <2>2 DEF s
  <2>3. QED
    BY <2>1, <2>2
<1>5. TypeOK'
  <2>1. msg_obj' \in Sn \cup {None} /\ strange' \in Sn \cup {None} /\ upload_cache_queue' \in Seq(Sn)
    BY <1>0, <1>1, <1>4 DEF TypeOK
  <2>2. QED
    BY <1>0, <1>1, <1>3, <2>1 DEF TypeOK
<1>6. OnePlace'
  <2>1. CASE UNCHANGED <<msg_obj, upload_cache_queue>>
    BY <1>0, <2>1 DEF OnePlace, InQueues
  <2>2. CASE /\ s \in Elems(upload_cache_queue) /\ msg_obj' = s
             /\ NoRepeat(upload_cache_queue')
             /\ Elems(upload_cache_queue') = Elems(upload_cache_queue) \ {s}
    BY <1>0, <2>2 DEF OnePlace, InQueues
  <2>3. QED
    BY <1>4, <2>1, <2>2
<1>7. WaysApart'
  <2>1. Past' \subseteq Past /\ Elems(upload_cache_queue') \subseteq Elems(upload_cache_queue)
    BY <1>1, <1>3, <1>4 DEF Past
  <2>2. QED
    BY <1>0, <1>1, <1>3, <2>1, MovedApart
<1>8. InCache'
  <2>1. \A x \in Elems(asr') : x # s /\ x \in Elems(upload_cache_queue) \cup lacking \cup reused
    BY <1>0, <1>1, <1>3 DEF InCache
  <2>2. Elems(upload_cache_queue) \subseteq Elems(upload_cache_queue') \cup {s}
    BY <1>4
  <2>3. QED
    BY <1>0, <1>2, <2>1, <2>2 DEF InCache
<1>9. ResultFindsMessage'
  <2>1. s \in Elems(upload_cache_queue) \cup lacking \cup reused
    BY <1>0, <1>1 DEF InCache
  <2>2. QED
    BY <1>4, <2>1 DEF IInv, MessageIsFound, ResultFindsMessage
<1>10. InOrder' /\ OwnMemory' /\ Cached'
  <2>1. s \in Past
    BY <1>1 DEF Past
  <2>2. UNCHANGED upload_cache_queue \/ Elems(upload_cache_queue') = Elems(upload_cache_queue) \ {s}
    BY <1>4
  <2>3. QED
    BY <2>1, <2>2, MovedCached DEF IInv, MessageIsFound
<1>11. Told' /\ StopIsLast'
  BY StillTold, StillLast DEF IInv
<1>12. QED
  BY <1>5, <1>6, <1>7, <1>8, <1>9, <1>10, <1>11 DEF IInv, MessageIsFound

LEMMA ShortInv == ASSUME IInv, Short PROVE IInv'
<1> USE DEF Short, queueVars, keyVars, aipVars, frameVars, asrVars, cacheSeenVars, faultVars
<1>0. TypeOK /\ WaysApart /\ OnePlace /\ msg_obj \in Sn
  BY DEF IInv, MessageIsFound, TypeOK
<1>1. TypeOK'
  BY <1>0 DEF TypeOK
<1>2. OnePlace'
  <2>1. msg_obj' = None /\ None \notin Sn /\ InQueues' = InQueues
    BY DEF InQueues, Sn
  <2>2. InQueues \subseteq Sn
    BY <1>0, ElemsType DEF InQueues, TypeOK
  <2>3. QED
    BY <1>0, <2>1, <2>2 DEF OnePlace
<1>3. WaysApart'
  <2>1. Past' \subseteq Past /\ NoRepeat(asr')
    BY <1>0 DEF Past, WaysApart
  <2>2. QED
    BY <1>0, <2>1, MovedApart
<1>4. ResultFindsMessage' /\ Told' /\ InCache' /\ StopIsLast'
  BY StillFinds, StillTold, StillInCache, StillLast DEF IInv, MessageIsFound
<1>5. InOrder' /\ OwnMemory' /\ Cached'
  BY MovedCached DEF IInv, MessageIsFound
<1>6. QED
  BY <1>1, <1>2, <1>3, <1>4, <1>5 DEF IInv, MessageIsFound

\* The messages the wechat task has had or has to send are as many as there are
\* recordings at most.
LEMMA Counting ==
  ASSUME NEW S \in SUBSET Sn
  PROVE  /\ IsFiniteSet(S) /\ Cardinality(S) \in 0..MaxSn
         /\ \A s \in Sn \ S : Cardinality(S \cup {s}) = Cardinality(S) + 1
<1>1. IsFiniteSet(Sn) /\ Cardinality(Sn) = MaxSn /\ MaxSn \in Nat
  <2>1. MaxSn \in Nat
    OBVIOUS
  <2>2. 1 \in Int /\ MaxSn \in Int /\ (IF 1 > MaxSn THEN 0 ELSE MaxSn - 1 + 1) = MaxSn
    BY <2>1
  <2>3. IsFiniteSet(1..MaxSn) /\ Cardinality(1..MaxSn) = (IF 1 > MaxSn THEN 0 ELSE MaxSn - 1 + 1)
    BY <2>2, FS_Interval
  <2>4. QED
    BY <2>1, <2>2, <2>3 DEF Sn
<1>2. IsFiniteSet(S) /\ Cardinality(S) <= Cardinality(Sn) /\ Cardinality(S) \in Nat
  BY <1>1, FS_Subset, FS_CardinalityType
<1>3. \A s \in Sn \ S : Cardinality(S \cup {s}) = Cardinality(S) + 1
  BY <1>2, FS_AddElement
<1>4. QED
  BY <1>1, <1>2, <1>3

LEMMA ToUploadInv == ASSUME IInv, ToUpload PROVE IInv'
<1> USE DEF ToUpload, keyVars, aipVars, frameVars, asrVars, seenVars, cacheSeenVars
<1>0. TypeOK /\ WaysApart /\ OnePlace /\ Told /\ msg_obj \in Sn /\ msg_obj \in 0..MaxSn
  BY SMTT(30) DEF IInv, MessageIsFound, TypeOK, Sn
<1>1. /\ upload_queue' \in Seq(Sn) /\ Elems(upload_queue') = Elems(upload_queue) \cup {msg_obj}
      /\ NoRepeat(upload_queue')
  <2>1. upload_queue \in Seq(Sn) /\ NoRepeat(upload_queue) /\ msg_obj \notin Elems(upload_queue)
    BY <1>0 DEF TypeOK, OnePlace, InQueues
  <2>2. QED
    BY <1>0, <2>1, PushFacts
<1>2. bad \subseteq bad' /\ bad' \subseteq 0..MaxSn
  <2>1. CASE Fault(msg_obj)
    BY <1>0, <2>1, FaultFacts
  <2>2. CASE UNCHANGED faultVars
    BY <1>0, <2>2 DEF TypeOK, faultVars
  <2>3. QED
    BY <2>1, <2>2
<1>3. Told' /\ new_msgs' \in 0..MaxSn
  <2> DEFINE S == Elems(upload_queue) \cup Elems(sent)
             T == (Elems(upload_queue) \cup Elems(sent))'
  <2>1. S \subseteq Sn /\ T = S \cup {msg_obj} /\ T \subseteq Sn
    BY <1>0, <1>1, ElemsType DEF TypeOK
  <2>2. msg_obj \notin S
    BY <1>0 DEF OnePlace, InQueues
  <2>3. Cardinality(T) = Cardinality(S) + 1 /\ Cardinality(T) \in 0..MaxSn /\ Cardinality(S) \in 0..MaxSn
    BY <1>0, <2>1, <2>2, Counting
  <2>4. new_msgs <= Cardinality(S) /\ new_msgs \in Nat
    BY <1>0 DEF Told, TypeOK
  <2>5. new_msgs' \in {new_msgs, new_msgs + 1}
    OBVIOUS
  <2> HIDE DEF S, T
  <2>6. new_msgs' \in 0..MaxSn /\ new_msgs' <= Cardinality(T)
    BY <2>3, <2>4, <2>5
  <2>7. QED
    BY <2>6 DEF T, Told
<1>4. TypeOK'
  BY <1>0, <1>1, <1>2, <1>3 DEF TypeOK
<1>5. OnePlace'
  <2>1. msg_obj' = None /\ None \notin Sn /\ InQueues' = InQueues \cup {msg_obj}
    <3>1. msg_obj' = None /\ UNCHANGED upload_cache_queue
      OBVIOUS
    <3>2. None \notin Sn
      BY DEF Sn
    <3>3. InQueues' = InQueues \cup {msg_obj}
      BY <1>1, <3>1 DEF InQueues
    <3>4. QED
      BY <3>1, <3>2, <3>3
  <2>2. InQueues' \subseteq Sn
    BY <1>0, <2>1, ElemsType DEF InQueues, TypeOK
  <2>3. QED
    BY <1>0, <1>1, <2>1, <2>2 DEF OnePlace, InQueues
<1>6. WaysApart'
  <2>1. Past' \subseteq Past /\ NoRepeat(asr')
    BY <1>0, <1>1 DEF Past, WaysApart
  <2>2. QED
    BY <1>0, <2>1, MovedApart
<1>7. ResultFindsMessage' /\ InCache' /\ StopIsLast'
  BY <1>2, StillFinds, StillInCache, StillLast DEF IInv, MessageIsFound
<1>8. InOrder' /\ OwnMemory' /\ Cached'
  BY MovedCached DEF IInv, MessageIsFound
<1>9. QED
  BY <1>3, <1>4, <1>5, <1>6, <1>7, <1>8 DEF IInv, MessageIsFound

LEMMA TakeFirstInv == ASSUME IInv, TakeFirst PROVE IInv'
<1> USE DEF TakeFirst, queueVars, keyVars, aipVars, frameVars, asrVars, seenVars, cacheSeenVars, faultVars
<1>0. TypeOK /\ WaysApart /\ OnePlace /\ Told
  BY DEF IInv, MessageIsFound
<1>1. sending' # None => sending' \in Elems(upload_queue) /\ sending' \in Sn
  <2>1. CASE upload_queue = << >>
    BY <2>1
  <2>2. CASE upload_queue # << >>
    <3>1. Head(upload_queue) \in Elems(upload_queue) /\ Head(upload_queue) \in Sn
      BY <1>0, <2>2, TailFacts DEF TypeOK, OnePlace
    <3>2. QED
      BY <2>2, <3>1
  <2>3. QED
    BY <2>1, <2>2
<1>2. TypeOK'
  BY <1>0, <1>1, SMTT(30) DEF TypeOK
<1>3. OnePlace'
  BY <1>0, <1>1 DEF OnePlace, InQueues
<1>4. Told'
  <2>1. Cardinality(Elems(upload_queue) \cup Elems(sent)) \in 0..MaxSn
    BY <1>0, ElemsType, Counting DEF TypeOK
  <2>2. QED
    BY <1>0, <2>1 DEF Told, TypeOK
<1>5. ResultFindsMessage' /\ WaysApart' /\ InCache' /\ StopIsLast'
  BY StillFinds, StillApart, StillInCache, StillLast DEF IInv, MessageIsFound
<1>6. InOrder' /\ OwnMemory' /\ Cached'
  BY MovedCached DEF IInv, MessageIsFound
<1>7. QED
  BY <1>2, <1>3, <1>4, <1>5, <1>6 DEF IInv, MessageIsFound

LEMMA DoneInv == ASSUME IInv, Done PROVE IInv'
<1> USE DEF Done, keyVars, aipVars, frameVars, asrVars, cacheSeenVars, faultVars
<1>0. TypeOK /\ WaysApart /\ OnePlace /\ Told /\ sending \in Sn /\ sending # None
  BY DEF IInv, MessageIsFound, TypeOK
<1>1. /\ upload_queue' \in Seq(Sn) /\ NoRepeat(upload_queue')
      /\ Elems(upload_queue') = Elems(upload_queue) \ {sending}
  BY <1>0, WithoutFacts DEF TypeOK, OnePlace
<1>2. sending \in Elems(upload_queue) /\ sending \notin freed \cup reused /\ sending \notin Elems(sent)
  BY <1>0 DEF OnePlace, InQueues
<1>3. sent' \in Seq(Sn) /\ Elems(sent') = Elems(sent) \cup {sending} /\ NoRepeat(sent')
  BY <1>0, <1>2, AppendFacts DEF TypeOK, OnePlace
<1>4. TypeOK'
  BY <1>0, <1>1, <1>3 DEF TypeOK
<1>5. OnePlace'
  BY <1>0, <1>1, <1>2, <1>3 DEF OnePlace, InQueues
<1>6. WaysApart'
  <2>1. Past' \subseteq Past /\ NoRepeat(asr')
    BY <1>0, <1>1, <1>2, <1>3 DEF Past, WaysApart
  <2>2. QED
    BY <1>0, <2>1, MovedApart
<1>7. Told'
  <2>1. (Elems(upload_queue) \cup Elems(sent))' = Elems(upload_queue) \cup Elems(sent)
    BY <1>1, <1>2, <1>3
  <2>2. QED
    BY <1>0, <2>1 DEF Told
<1>8. ResultFindsMessage' /\ InCache' /\ StopIsLast'
  BY StillFinds, StillInCache, StillLast DEF IInv, MessageIsFound
<1>9. InOrder' /\ OwnMemory' /\ Cached'
  BY MovedCached DEF IInv, MessageIsFound
<1>10. QED
  BY <1>4, <1>5, <1>6, <1>7, <1>8, <1>9 DEF IInv, MessageIsFound

-----------------------------------------------------------------------------
(* Spoken messages: the theorems                                            *)

LEMMA InitIInv == Init => IInv
<1> SUFFICES ASSUME Init PROVE IInv
  OBVIOUS
<1> USE DEF Init
<1>1. Elems(<< >>) = {} /\ NoRepeat(<< >>) /\ << >> \in Seq(Sn) /\ << >> \in Seq(Sn \cup {None})
      /\ Len(<< >>) = 0
  BY ElemsEmpty, EmptySeq
<1>2. {0} \subseteq 0..MaxSn /\ 0 \in 0..MaxFrames
  OBVIOUS
<1>3. TypeOK
  BY <1>1, <1>2 DEF TypeOK
<1>4. OnePlace /\ ResultFindsMessage /\ OwnMemory
  BY <1>1 DEF OnePlace, InQueues, ResultFindsMessage, OwnMemory
<1>5. WaysApart
  BY <1>1 DEF WaysApart, Past
<1>6. Told
  <2>1. Elems(upload_queue) \cup Elems(sent) = {} /\ new_msgs = 0
    BY <1>1
  <2>2. Cardinality(Elems(upload_queue) \cup Elems(sent)) = 0
    <3> HIDE DEF Init
    <3>1. Cardinality({}) = 0
      BY FS_EmptySet
    <3>2. QED
      BY <2>1, <3>1
  <2>3. QED
    BY <2>1, <2>2 DEF Told
<1>7. InCache
  BY <1>1, <1>2 DEF InCache
<1>8. StopIsLast
  BY DEF StopIsLast
<1>9. InOrder /\ Cached
  BY <1>1 DEF InOrder, Cached
<1>10. QED
  BY <1>3, <1>4, <1>5, <1>6, <1>7, <1>8, <1>9 DEF IInv, MessageIsFound

LEMMA NextIInv == IInv /\ [Next]_vars => IInv'
<1> SUFFICES ASSUME IInv, [Next]_vars PROVE IInv'
  OBVIOUS
<1>1. CASE UNCHANGED vars
  <2> USE <1>1 DEF vars, queueVars, keyVars, aipVars, frameVars, asrVars, seenVars, cacheSeenVars, faultVars
  <2>1. TypeOK'
    BY DEF IInv, MessageIsFound, TypeOK
  <2>2. OnePlace' /\ ResultFindsMessage' /\ WaysApart' /\ Told' /\ InCache' /\ StopIsLast'
    BY StillOnePlace, StillFinds, StillApart, StillTold, StillInCache, StillLast
       DEF IInv, MessageIsFound
  <2>3. InOrder' /\ OwnMemory' /\ Cached'
    BY StillInOrder, StillOwn, StillCached DEF IInv, MessageIsFound
  <2>4. QED
    BY <2>1, <2>2, <2>3 DEF IInv, MessageIsFound
<1>2. CASE Next
  BY <1>2, PressInv, LookInCacheInv, StartRecordInv, ReleaseInv, WifiInv, RecordStepInv,
     InterruptedInv, ResultLostInv, MatchSnInv, ShortInv, ToUploadInv, TakeFirstInv, DoneInv
     DEF Next, AsrStep, WechatStep
<1>3. QED
  BY <1>1, <1>2

LEMMA IInvAlways == Spec => []IInv
<1>1. Init => IInv
  BY InitIInv
<1>2. IInv /\ [Next]_vars => IInv'
  BY NextIInv
<1>3. QED
  BY <1>1, <1>2, PTL DEF Spec

\* A spoken message is in one place at a time while the recording service, the result's
\* callback and the wechat task move it, is freed once, and its result finds it: for any
\* number of recordings, frames and presses, and whatever fails.
THEOREM MessageFound == Spec => []MessageIsFound
<1>1. IInv => MessageIsFound
  BY DEF IInv
<1>2. QED
  BY <1>1, IInvAlways, PTL

\* Once the release of the key was heard and its message handled, nothing is recorded for
\* a message and free_talk answers to its wakeup word: wechat_record_stop.
THEOREM MicrophoneGivenBack == Spec => []MicrophoneIsFree
<1>1. IInv => MicrophoneIsFree
  BY DEF IInv, StopIsLast, MicrophoneIsFree
<1>2. QED
  BY <1>1, IInvAlways, PTL

-----------------------------------------------------------------------------
(* Sleep: the invariant                                                     *)

\* The clock has run for MaxTime units at most and been set in between, and nothing was
\* noted after now.
ClockSound ==
  /\ jumps * Jump <= now /\ now <= MaxTime + jumps * Jump
  /\ quiet <= now - jumps * Jump
  /\ sleep_timestamp <= now /\ stamp <= now

\* The time since the last note is no longer than nothing was done, unless the clock was
\* set and not noted yet; and so it is with what this pass has read.
StampIsNoted ==
  /\ ~jumping => now - sleep_timestamp <= quiet
  /\ pc = "compare" => judged >= SleepSec \/ now - stamp <= judged

\* The passes that were finished with the charger plugged in, as far as fed counts.
FedPasses == IF pc \in {"stamp", "compare", "charge"} THEN fed - 1 ELSE fed

\* How far the charger has been noticed after so many of them.  The fourth notes an
\* activity, one unit of time before the next at most.
ChargerNoticed ==
  /\ ~plugged => fed = 0
  /\ FedPasses >= 1 /\ pc # "byebye" => charge_status \notin {"INIT", "STOP_CHARGING"}
  /\ FedPasses >= 2 /\ pc # "byebye" => charge_status # "IDEL"
  /\ FedPasses >= 3 /\ pc # "byebye" => charge_status # "START_CHARGING"
  /\ FedPasses >= 4 /\ jumps = 0 /\ pc # "byebye" =>
       /\ now - sleep_timestamp <= (IF pc = "wait" /\ passed THEN 0 ELSE 1)
       /\ pc = "compare" => now - stamp <= 1

PowerInv ==
  /\ ToldAgrees /\ ClockSound /\ StampIsNoted /\ ChargerNoticed
  /\ asleep => pc = "byebye"
  /\ jumping /\ pc = "compare" => judged >= SleepSec

-----------------------------------------------------------------------------
(* Sleep: each part of the invariant is preserved                           *)

USE DEF params, charge, pass, world, seen, counts

\* How far the clock can get.
LEMMA ClockBound ==
  ASSUME NEW k \in 0..MaxJumps
  PROVE  /\ k * Jump \in Nat /\ k * Jump <= MaxJumps * Jump
         /\ (k + 1) * Jump = k * Jump + Jump
<1>1. /\ Jump \in Nat /\ MaxJumps \in Nat /\ k \in Nat /\ MaxJumps - k \in Nat
      /\ MaxJumps = k + (MaxJumps - k)
  BY TimeAssumption
<1>2. (MaxJumps - k) * Jump \in Nat /\ k * Jump \in Nat
  BY <1>1
<1>3. MaxJumps * Jump = k * Jump + (MaxJumps - k) * Jump
  BY <1>1
<1>4. (k + 1) * Jump = k * Jump + Jump
  BY <1>1
<1>5. QED
  BY <1>1, <1>2, <1>3, <1>4

\* What the invariant says of the clock, with the product as one number.
LEMMA PowerFacts ==
  ASSUME PowerInv
  PROVE  \E c, b \in Nat :
           /\ c = jumps * Jump /\ b = MaxJumps * Jump /\ c <= b
           /\ jumps < MaxJumps => (jumps + 1) * Jump = c + Jump /\ c + Jump <= b
           /\ {now, sleep_timestamp, stamp, play_time, quiet} \subseteq Nat
           /\ c <= now /\ now <= MaxTime + c /\ quiet <= now - c
           /\ sleep_timestamp <= now /\ stamp <= now /\ play_time <= MaxTime + b
<1>1. PowerTypeOK /\ ClockSound /\ jumps \in 0..MaxJumps
  BY DEF PowerInv, ToldAgrees, PowerTypeOK
<1>2. /\ jumps * Jump \in Nat /\ jumps * Jump <= MaxJumps * Jump
      /\ (jumps + 1) * Jump = jumps * Jump + Jump
  BY <1>1, ClockBound
<1>3. MaxJumps \in 0..MaxJumps
  BY TimeAssumption
<1>4. MaxJumps * Jump \in Nat
  BY <1>3, ClockBound
<1>5. jumps < MaxJumps => (jumps + 1) * Jump <= MaxJumps * Jump
  <2>1. jumps < MaxJumps => jumps + 1 \in 0..MaxJumps
    BY <1>1, TimeAssumption
  <2>2. QED
    BY <2>1, ClockBound
<1> DEFINE c == jumps * Jump
           b == MaxJumps * Jump
<1>6. c \in Nat /\ b \in Nat /\ c <= b /\ (jumps < MaxJumps => (jumps + 1) * Jump = c + Jump /\ c + Jump <= b)
  BY <1>2, <1>4, <1>5
<1>7. c <= now /\ now <= MaxTime + c /\ quiet <= now - c /\ sleep_timestamp <= now /\ stamp <= now
  BY <1>1 DEF ClockSound
<1>8. {now, sleep_timestamp, stamp, play_time} \subseteq 0..MaxTime + b /\ quiet \in 0..MaxTime
  BY <1>1 DEF PowerTypeOK
<1> HIDE DEF c, b
<1>9. {now, sleep_timestamp, stamp, play_time, quiet} \subseteq Nat /\ play_time <= MaxTime + b
  BY <1>6, <1>8, TimeAssumption
<1>10. QED
  BY <1>6, <1>7, <1>9 DEF c, b

\* Every variable keeps its type.
LEMMA TypesStay ==
  ASSUME PowerInv, [PowerNext]_powerVars
  PROVE  PowerTypeOK'
<1>1. CASE BeginPass
  BY <1>1, TimeAssumption DEF BeginPass, At, PowerInv, ToldAgrees, PowerTypeOK, ClockSound, ChargeStatuses
<1>2. CASE ReadStamp
  <2>1. judged' \in 0..MaxTime + SleepSec
    <3>1. quiet \in 0..MaxTime /\ SleepSec \in Nat /\ MaxTime \in Nat
      BY TimeAssumption DEF PowerInv, ToldAgrees, PowerTypeOK
    <3>2. judged' \in {SleepSec, quiet}
      BY <1>2 DEF ReadStamp
    <3>3. QED
      BY <3>1, <3>2
  <2>2. QED
    BY <1>2, <2>1 DEF ReadStamp, PowerInv, ToldAgrees, PowerTypeOK
<1>3. CASE Compare
  <2>1. 0 \in 0..MaxTime + SleepSec /\ 0 \in 0..MaxTime + MaxJumps * Jump
    <3>1. PICK c \in Nat, b \in Nat : b = MaxJumps * Jump
      BY PowerFacts
    <3>2. QED
      BY <3>1, TimeAssumption
  <2>2. pc' \in {"byebye", "charge"} /\ reason' \in {"idle", reason} /\ stamp' = 0 /\ judged' = 0
    BY <1>3 DEF Compare
  <2>3. QED
    BY <1>3, <2>1, <2>2 DEF Compare, PowerInv, ToldAgrees, PowerTypeOK
<1>4. CASE DeepSleep
  BY <1>4, TimeAssumption DEF DeepSleep, At, PowerInv, ToldAgrees, PowerTypeOK, ClockSound, ChargeStatuses
<1>5. CASE Shutdown
  BY <1>5, TimeAssumption DEF Shutdown, At, PowerInv, ToldAgrees, PowerTypeOK, ClockSound, ChargeStatuses
<1>6. CASE ChargeInit
  BY <1>6, TimeAssumption DEF ChargeInit, ChargeAt, At, EndPass, PowerInv, ToldAgrees, PowerTypeOK, ClockSound, ChargeStatuses
<1>7. CASE ChargeIdle
  <2>1. lowpower_remind_count' \in 0..RemindCount
    <3>1. lowpower_remind_count \in 0..RemindCount /\ RemindCount \in Nat /\ battery_vol \in BOOLEAN
      BY TimeAssumption DEF PowerInv, ToldAgrees, PowerTypeOK
    <3>2. CASE battery_vol /\ Due
      BY <1>7, <3>1, <3>2 DEF ChargeIdle, Reminded
    <3>3. CASE ~(battery_vol /\ Due)
      BY <1>7, <3>1, <3>3 DEF ChargeIdle
    <3>4. QED
      BY <3>2, <3>3
  <2>2. play_time' \in {play_time, now} /\ charge_status' \in {"START_CHARGING", "IDEL"}
    BY <1>7 DEF ChargeIdle
  <2>3. QED
    BY <1>7, <2>1, <2>2 DEF ChargeIdle, EndPass, PowerInv, ToldAgrees, PowerTypeOK, ChargeStatuses
<1>8. CASE LowBattery
  BY <1>8, TimeAssumption DEF LowBattery, ChargeAt, At, PowerInv, ToldAgrees, PowerTypeOK, ClockSound, ChargeStatuses
<1>9. CASE StartCharging
  BY <1>9, TimeAssumption DEF StartCharging, ChargeAt, At, EndPass, PowerInv, ToldAgrees, PowerTypeOK, ClockSound, ChargeStatuses
<1>10. CASE Charging
  BY <1>10, TimeAssumption DEF Charging, ChargeAt, At, EndPass, PowerInv, ToldAgrees, PowerTypeOK, ClockSound, ChargeStatuses
<1>11. CASE StopCharging
  BY <1>11, TimeAssumption DEF StopCharging, ChargeAt, At, EndPass, PowerInv, ToldAgrees, PowerTypeOK, ClockSound, ChargeStatuses
<1>12. CASE Activity
  BY <1>12, TimeAssumption DEF Activity, PowerInv, ToldAgrees, PowerTypeOK, ClockSound, ChargeStatuses
<1>13. CASE SetClock
  <2> PICK c \in Nat, b \in Nat :
         /\ c = jumps * Jump /\ b = MaxJumps * Jump /\ c <= b
         /\ jumps < MaxJumps => (jumps + 1) * Jump = c + Jump /\ c + Jump <= b
         /\ {now, sleep_timestamp, stamp, play_time, quiet} \subseteq Nat
         /\ c <= now /\ now <= MaxTime + c /\ quiet <= now - c
         /\ sleep_timestamp <= now /\ stamp <= now /\ play_time <= MaxTime + b
    BY PowerFacts
  <2>1. now' \in 0..MaxTime + b /\ jumps' \in 0..MaxJumps /\ jumping' \in BOOLEAN
    BY <1>13, TimeAssumption DEF SetClock, PowerInv, ToldAgrees, PowerTypeOK
  <2>2. judged' \in 0..MaxTime + SleepSec
    BY <1>13, TimeAssumption DEF SetClock, PowerInv, ToldAgrees, PowerTypeOK
  <2>3. QED
    BY <1>13, <2>1, <2>2 DEF SetClock, PowerInv, ToldAgrees, PowerTypeOK
<1>14. CASE ClockIsSet
  <2>1. 0 \in 0..MaxTime
    BY TimeAssumption
  <2>2. QED
    BY <1>14, <2>1 DEF ClockIsSet, PowerInv, ToldAgrees, PowerTypeOK
<1>15. CASE Tick
  <2> PICK c \in Nat, b \in Nat :
         /\ c = jumps * Jump /\ b = MaxJumps * Jump /\ c <= b
         /\ jumps < MaxJumps => (jumps + 1) * Jump = c + Jump /\ c + Jump <= b
         /\ {now, sleep_timestamp, stamp, play_time, quiet} \subseteq Nat
         /\ c <= now /\ now <= MaxTime + c /\ quiet <= now - c
         /\ sleep_timestamp <= now /\ stamp <= now /\ play_time <= MaxTime + b
    BY PowerFacts
  <2>1. now' \in 0..MaxTime + b /\ quiet' \in 0..MaxTime
    BY <1>15, TimeAssumption DEF Tick
  <2>2. QED
    BY <1>15, <2>1 DEF Tick, PowerInv, ToldAgrees, PowerTypeOK
<1>16. CASE Plug
  BY <1>16, TimeAssumption DEF Plug, PowerInv, ToldAgrees, PowerTypeOK, ClockSound, ChargeStatuses
<1>17. CASE Drain
  BY <1>17, TimeAssumption DEF Drain, PowerInv, ToldAgrees, PowerTypeOK, ClockSound, ChargeStatuses
<1>18. CASE Wake
  <2>1. /\ 0 \in 0..MaxTime /\ 0 \in 0..RemindCount /\ 0 \in 0..MaxTime + SleepSec
        /\ 0 \in 0..MaxTime + MaxJumps * Jump
    <3>1. PICK c \in Nat, b \in Nat : b = MaxJumps * Jump
      BY PowerFacts
    <3>2. QED
      BY <3>1, TimeAssumption
  <2>2. {sleep_timestamp, now, stamp, play_time}' \subseteq 0..MaxTime + MaxJumps * Jump
    <3>1. /\ sleep_timestamp' = now /\ now' = now /\ stamp' = 0 /\ play_time' = 0
          /\ now \in 0..MaxTime + MaxJumps * Jump
      BY <1>18 DEF Wake, PowerInv, ToldAgrees, PowerTypeOK
    <3>2. QED
      BY <2>1, <3>1
  <2>3. /\ charge_status' \in ChargeStatuses
        /\ lowpower_remind_count' \in 0..RemindCount
        /\ pc' \in {"wait", "stamp", "compare", "charge", "byebye"}
        /\ {battery_vol, jumping, plugged, low, asleep}' \subseteq BOOLEAN
        /\ told' \in {"none", "CHARGING", "CHARGING_STOP"}
        /\ reason' \in {"none", "idle", "low", "told"}
        /\ quiet' \in 0..MaxTime
        /\ fed' \in 0..5
        /\ judged' \in 0..MaxTime + SleepSec
        /\ passed' \in BOOLEAN
        /\ jumps' \in 0..MaxJumps /\ plugs' \in 0..MaxPlugs
    <3>1. /\ {plugged, low} \subseteq BOOLEAN /\ jumps \in 0..MaxJumps /\ plugs \in 0..MaxPlugs
      BY DEF PowerInv, ToldAgrees, PowerTypeOK
    <3>2. QED
      <4>1. /\ charge_status' = "INIT" /\ pc' = "wait" /\ told' = "none" /\ reason' = "none"
            /\ lowpower_remind_count' = 0 /\ quiet' = 0 /\ fed' = 0 /\ judged' = 0
            /\ battery_vol' = FALSE /\ jumping' = FALSE /\ asleep' = FALSE /\ passed' = FALSE
            /\ UNCHANGED <<plugged, low, jumps, plugs>>
        BY <1>18 DEF Wake
      <4>2. 0 \in 0..5 /\ "INIT" \in ChargeStatuses
        BY DEF ChargeStatuses
      <4>3. QED
        BY <2>1, <3>1, <4>1, <4>2, Zenon
  <2>4. QED
    BY <2>2, <2>3 DEF PowerTypeOK
<1>19. CASE UNCHANGED powerVars
  BY <1>19 DEF powerVars, PowerInv, ToldAgrees, PowerTypeOK
<1>20. QED
  BY <1>1, <1>2, <1>3, <1>4, <1>5, <1>6, <1>7, <1>8, <1>9, <1>10, <1>11, <1>12, <1>13, <1>14, <1>15, <1>16, <1>17, <1>18, <1>19 DEF PowerNext, PassStep, WorldStep

\* The two charging events agree with the state the service is in.
LEMMA ToldStays ==
  ASSUME PowerInv, [PowerNext]_powerVars
  PROVE  ToldAgrees'
<1>1. CASE BeginPass
  BY <1>1, TypesStay DEF BeginPass, At, PowerInv, ToldAgrees
<1>2. CASE ReadStamp
  BY <1>2, TypesStay DEF ReadStamp, At, PowerInv, ToldAgrees
<1>3. CASE Compare
  BY <1>3, TypesStay DEF Compare, At, PowerInv, ToldAgrees
<1>4. CASE DeepSleep
  BY <1>4, TypesStay DEF DeepSleep, At, PowerInv, ToldAgrees
<1>5. CASE Shutdown
  BY <1>5, TypesStay DEF Shutdown, At, PowerInv, ToldAgrees
<1>6. CASE ChargeInit
  BY <1>6, TypesStay DEF ChargeInit, ChargeAt, At, EndPass, PowerInv, ToldAgrees
<1>7. CASE ChargeIdle
  BY <1>7, TypesStay DEF ChargeIdle, ChargeAt, At, EndPass, PowerInv, ToldAgrees
<1>8. CASE LowBattery
  BY <1>8, TypesStay DEF LowBattery, ChargeAt, At, PowerInv, ToldAgrees
<1>9. CASE StartCharging
  BY <1>9, TypesStay DEF StartCharging, ChargeAt, At, EndPass, PowerInv, ToldAgrees
<1>10. CASE Charging
  BY <1>10, TypesStay DEF Charging, ChargeAt, At, EndPass, PowerInv, ToldAgrees
<1>11. CASE StopCharging
  BY <1>11, TypesStay DEF StopCharging, ChargeAt, At, EndPass, PowerInv, ToldAgrees
<1>12. CASE Activity
  BY <1>12, TypesStay DEF Activity, PowerInv, ToldAgrees
<1>13. CASE SetClock
  BY <1>13, TypesStay DEF SetClock, PowerInv, ToldAgrees
<1>14. CASE ClockIsSet
  BY <1>14, TypesStay DEF ClockIsSet, PowerInv, ToldAgrees
<1>15. CASE Tick
  BY <1>15, TypesStay DEF Tick, PowerInv, ToldAgrees
<1>16. CASE Plug
  BY <1>16, TypesStay DEF Plug, PowerInv, ToldAgrees
<1>17. CASE Drain
  BY <1>17, TypesStay DEF Drain, PowerInv, ToldAgrees
<1>18. CASE Wake
  BY <1>18, TypesStay DEF Wake, PowerInv, ToldAgrees
<1>19. CASE UNCHANGED powerVars
  <2>1. charge_status' = charge_status /\ told' = told
    BY <1>19 DEF powerVars
  <2>2. QED
    BY <2>1, TypesStay DEF PowerInv, ToldAgrees
<1>20. QED
  BY <1>1, <1>2, <1>3, <1>4, <1>5, <1>6, <1>7, <1>8, <1>9, <1>10, <1>11, <1>12, <1>13, <1>14, <1>15, <1>16, <1>17, <1>18, <1>19 DEF PowerNext, PassStep, WorldStep

\* The clock, its bound and what was noted.
LEMMA ClockStays ==
  ASSUME PowerInv, [PowerNext]_powerVars
  PROVE  ClockSound'
<1>1. CASE BeginPass
  BY <1>1, TimeAssumption DEF BeginPass, At, PowerInv, ToldAgrees, PowerTypeOK, ClockSound
<1>2. CASE ReadStamp
  BY <1>2, TimeAssumption DEF ReadStamp, At, PowerInv, ToldAgrees, PowerTypeOK, ClockSound
<1>3. CASE Compare
  BY <1>3, TimeAssumption DEF Compare, At, PowerInv, ToldAgrees, PowerTypeOK, ClockSound
<1>4. CASE DeepSleep
  BY <1>4, TimeAssumption DEF DeepSleep, At, PowerInv, ToldAgrees, PowerTypeOK, ClockSound
<1>5. CASE Shutdown
  BY <1>5, TimeAssumption DEF Shutdown, At, PowerInv, ToldAgrees, PowerTypeOK, ClockSound
<1>6. CASE ChargeInit
  BY <1>6, TimeAssumption DEF ChargeInit, ChargeAt, At, EndPass, PowerInv, ToldAgrees, PowerTypeOK, ClockSound
<1>7. CASE ChargeIdle
  BY <1>7, TimeAssumption DEF ChargeIdle, ChargeAt, At, EndPass, PowerInv, ToldAgrees, PowerTypeOK, ClockSound
<1>8. CASE LowBattery
  BY <1>8, TimeAssumption DEF LowBattery, ChargeAt, At, PowerInv, ToldAgrees, PowerTypeOK, ClockSound
<1>9. CASE StartCharging
  BY <1>9, TimeAssumption DEF StartCharging, ChargeAt, At, EndPass, PowerInv, ToldAgrees, PowerTypeOK, ClockSound
<1>10. CASE Charging
  BY <1>10, TimeAssumption DEF Charging, ChargeAt, At, EndPass, PowerInv, ToldAgrees, PowerTypeOK, ClockSound
<1>11. CASE StopCharging
  BY <1>11, TimeAssumption DEF StopCharging, ChargeAt, At, EndPass, PowerInv, ToldAgrees, PowerTypeOK, ClockSound
<1>12. CASE Activity
  <2> PICK c \in Nat, b \in Nat :
         /\ c = jumps * Jump /\ b = MaxJumps * Jump /\ c <= b
         /\ jumps < MaxJumps => (jumps + 1) * Jump = c + Jump /\ c + Jump <= b
         /\ {now, sleep_timestamp, stamp, play_time, quiet} \subseteq Nat
         /\ c <= now /\ now <= MaxTime + c /\ quiet <= now - c
         /\ sleep_timestamp <= now /\ stamp <= now /\ play_time <= MaxTime + b
    BY PowerFacts
  <2>1. QED
    BY <1>12, TimeAssumption DEF Activity, ClockSound
<1>13. CASE SetClock
  <2> PICK c \in Nat, b \in Nat :
         /\ c = jumps * Jump /\ b = MaxJumps * Jump /\ c <= b
         /\ jumps < MaxJumps => (jumps + 1) * Jump = c + Jump /\ c + Jump <= b
         /\ {now, sleep_timestamp, stamp, play_time, quiet} \subseteq Nat
         /\ c <= now /\ now <= MaxTime + c /\ quiet <= now - c
         /\ sleep_timestamp <= now /\ stamp <= now /\ play_time <= MaxTime + b
    BY PowerFacts
  <2>1. jumps' = jumps + 1 /\ now' = now + Jump /\ jumps' * Jump = c + Jump /\ Jump \in Nat
    BY <1>13, TimeAssumption DEF SetClock
  <2>2. quiet' = quiet /\ sleep_timestamp' = sleep_timestamp /\ stamp' = stamp
    BY <1>13 DEF SetClock
  <2>3. QED
    BY <2>1, <2>2, TimeAssumption DEF ClockSound
<1>14. CASE ClockIsSet
  <2> PICK c \in Nat, b \in Nat :
         /\ c = jumps * Jump /\ b = MaxJumps * Jump /\ c <= b
         /\ jumps < MaxJumps => (jumps + 1) * Jump = c + Jump /\ c + Jump <= b
         /\ {now, sleep_timestamp, stamp, play_time, quiet} \subseteq Nat
         /\ c <= now /\ now <= MaxTime + c /\ quiet <= now - c
         /\ sleep_timestamp <= now /\ stamp <= now /\ play_time <= MaxTime + b
    BY PowerFacts
  <2>1. QED
    BY <1>14, TimeAssumption DEF ClockIsSet, ClockSound
<1>15. CASE Tick
  <2> PICK c \in Nat, b \in Nat :
         /\ c = jumps * Jump /\ b = MaxJumps * Jump /\ c <= b
         /\ jumps < MaxJumps => (jumps + 1) * Jump = c + Jump /\ c + Jump <= b
         /\ {now, sleep_timestamp, stamp, play_time, quiet} \subseteq Nat
         /\ c <= now /\ now <= MaxTime + c /\ quiet <= now - c
         /\ sleep_timestamp <= now /\ stamp <= now /\ play_time <= MaxTime + b
    BY PowerFacts
  <2>1. QED
    BY <1>15, TimeAssumption DEF Tick, ClockSound
<1>16. CASE Plug
  BY <1>16, TimeAssumption DEF Plug, PowerInv, ToldAgrees, PowerTypeOK, ClockSound
<1>17. CASE Drain
  BY <1>17, TimeAssumption DEF Drain, PowerInv, ToldAgrees, PowerTypeOK, ClockSound
<1>18. CASE Wake
  <2> PICK c \in Nat, b \in Nat :
         /\ c = jumps * Jump /\ b = MaxJumps * Jump /\ c <= b
         /\ jumps < MaxJumps => (jumps + 1) * Jump = c + Jump /\ c + Jump <= b
         /\ {now, sleep_timestamp, stamp, play_time, quiet} \subseteq Nat
         /\ c <= now /\ now <= MaxTime + c /\ quiet <= now - c
         /\ sleep_timestamp <= now /\ stamp <= now /\ play_time <= MaxTime + b
    BY PowerFacts
  <2>1. QED
    BY <1>18, TimeAssumption DEF Wake, ClockSound
<1>19. CASE UNCHANGED powerVars
  BY <1>19 DEF powerVars, PowerInv, ToldAgrees, PowerTypeOK, ClockSound
<1>20. QED
  BY <1>1, <1>2, <1>3, <1>4, <1>5, <1>6, <1>7, <1>8, <1>9, <1>10, <1>11, <1>12, <1>13, <1>14, <1>15, <1>16, <1>17, <1>18, <1>19 DEF PowerNext, PassStep, WorldStep

\* The time since the last note.
LEMMA StampStays ==
  ASSUME PowerInv, [PowerNext]_powerVars
  PROVE  StampIsNoted'
<1>1. CASE BeginPass
  BY <1>1, TimeAssumption, JumpAssumption DEF BeginPass, At, PowerInv, ToldAgrees, PowerTypeOK, ClockSound, StampIsNoted
<1>2. CASE ReadStamp
  BY <1>2, TimeAssumption, JumpAssumption DEF ReadStamp, At, PowerInv, ToldAgrees, PowerTypeOK, ClockSound, StampIsNoted
<1>3. CASE Compare
  BY <1>3, TimeAssumption, JumpAssumption DEF Compare, At, PowerInv, ToldAgrees, PowerTypeOK, ClockSound, StampIsNoted
<1>4. CASE DeepSleep
  BY <1>4, TimeAssumption, JumpAssumption DEF DeepSleep, At, PowerInv, ToldAgrees, PowerTypeOK, ClockSound, StampIsNoted
<1>5. CASE Shutdown
  BY <1>5, TimeAssumption, JumpAssumption DEF Shutdown, At, PowerInv, ToldAgrees, PowerTypeOK, ClockSound, StampIsNoted
<1>6. CASE ChargeInit
  BY <1>6, TimeAssumption, JumpAssumption DEF ChargeInit, ChargeAt, At, EndPass, PowerInv, ToldAgrees, PowerTypeOK, ClockSound, StampIsNoted
<1>7. CASE ChargeIdle
  BY <1>7, TimeAssumption, JumpAssumption DEF ChargeIdle, ChargeAt, At, EndPass, PowerInv, ToldAgrees, PowerTypeOK, ClockSound, StampIsNoted
<1>8. CASE LowBattery
  BY <1>8, TimeAssumption, JumpAssumption DEF LowBattery, ChargeAt, At, PowerInv, ToldAgrees, PowerTypeOK, ClockSound, StampIsNoted
<1>9. CASE StartCharging
  BY <1>9, TimeAssumption, JumpAssumption DEF StartCharging, ChargeAt, At, EndPass, PowerInv, ToldAgrees, PowerTypeOK, ClockSound, StampIsNoted
<1>10. CASE Charging
  BY <1>10, TimeAssumption, JumpAssumption DEF Charging, ChargeAt, At, EndPass, PowerInv, ToldAgrees, PowerTypeOK, ClockSound, StampIsNoted
<1>11. CASE StopCharging
  BY <1>11, TimeAssumption, JumpAssumption DEF StopCharging, ChargeAt, At, EndPass, PowerInv, ToldAgrees, PowerTypeOK, ClockSound, StampIsNoted
<1>12. CASE Activity
  BY <1>12, TimeAssumption, JumpAssumption DEF Activity, PowerInv, ToldAgrees, PowerTypeOK, ClockSound, StampIsNoted
<1>13. CASE SetClock
  BY <1>13, TimeAssumption, JumpAssumption DEF SetClock, PowerInv, ToldAgrees, PowerTypeOK, ClockSound, StampIsNoted
<1>14. CASE ClockIsSet
  BY <1>14, TimeAssumption, JumpAssumption DEF ClockIsSet, PowerInv, ToldAgrees, PowerTypeOK, ClockSound, StampIsNoted
<1>15. CASE Tick
  BY <1>15, TimeAssumption, JumpAssumption DEF Tick, PowerInv, ToldAgrees, PowerTypeOK, ClockSound, StampIsNoted
<1>16. CASE Plug
  BY <1>16, TimeAssumption, JumpAssumption DEF Plug, PowerInv, ToldAgrees, PowerTypeOK, ClockSound, StampIsNoted
<1>17. CASE Drain
  BY <1>17, TimeAssumption, JumpAssumption DEF Drain, PowerInv, ToldAgrees, PowerTypeOK, ClockSound, StampIsNoted
<1>18. CASE Wake
  BY <1>18, TimeAssumption, JumpAssumption DEF Wake, PowerInv, ToldAgrees, PowerTypeOK, ClockSound, StampIsNoted
<1>19. CASE UNCHANGED powerVars
  BY <1>19 DEF powerVars, PowerInv, ToldAgrees, PowerTypeOK, ClockSound, StampIsNoted
<1>20. QED
  BY <1>1, <1>2, <1>3, <1>4, <1>5, <1>6, <1>7, <1>8, <1>9, <1>10, <1>11, <1>12, <1>13, <1>14, <1>15, <1>16, <1>17, <1>18, <1>19 DEF PowerNext, PassStep, WorldStep

\* How far the charger has been noticed.
LEMMA NoticedStays ==
  ASSUME PowerInv, [PowerNext]_powerVars
  PROVE  ChargerNoticed'
<1>1. CASE BeginPass
  BY <1>1, TimeAssumption DEF BeginPass, At, PowerInv, ToldAgrees, PowerTypeOK, ClockSound, ChargerNoticed, FedPasses, ChargeStatuses
<1>2. CASE ReadStamp
  BY <1>2, TimeAssumption DEF ReadStamp, At, PowerInv, ToldAgrees, PowerTypeOK, ClockSound, ChargerNoticed, FedPasses, ChargeStatuses
<1>3. CASE Compare
  BY <1>3, TimeAssumption DEF Compare, At, PowerInv, ToldAgrees, PowerTypeOK, ClockSound, ChargerNoticed, FedPasses, ChargeStatuses
<1>4. CASE DeepSleep
  BY <1>4, TimeAssumption DEF DeepSleep, At, PowerInv, ToldAgrees, PowerTypeOK, ClockSound, ChargerNoticed, FedPasses, ChargeStatuses
<1>5. CASE Shutdown
  BY <1>5, TimeAssumption DEF Shutdown, At, PowerInv, ToldAgrees, PowerTypeOK, ClockSound, ChargerNoticed, FedPasses, ChargeStatuses
<1>6. CASE ChargeInit
  BY <1>6, TimeAssumption DEF ChargeInit, ChargeAt, At, EndPass, PowerInv, ToldAgrees, PowerTypeOK, ClockSound, ChargerNoticed, FedPasses, ChargeStatuses
<1>7. CASE ChargeIdle
  BY <1>7, TimeAssumption DEF ChargeIdle, ChargeAt, At, EndPass, PowerInv, ToldAgrees, PowerTypeOK, ClockSound, ChargerNoticed, FedPasses, ChargeStatuses
<1>8. CASE LowBattery
  BY <1>8, TimeAssumption DEF LowBattery, ChargeAt, At, PowerInv, ToldAgrees, PowerTypeOK, ClockSound, ChargerNoticed, FedPasses, ChargeStatuses
<1>9. CASE StartCharging
  BY <1>9, TimeAssumption DEF StartCharging, ChargeAt, At, EndPass, PowerInv, ToldAgrees, PowerTypeOK, ClockSound, ChargerNoticed, FedPasses, ChargeStatuses
<1>10. CASE Charging
  <2>1. plugged \in BOOLEAN /\ fed \in 0..5 /\ now \in Int
    BY PowerFacts DEF PowerInv, ToldAgrees, PowerTypeOK
  <2>2. /\ pc = "charge" /\ charge_status = "CHARGING" /\ pc' = "wait" /\ sleep_timestamp' = now
        /\ UNCHANGED <<now, plugged, fed, jumps>>
    BY <1>10 DEF Charging, ChargeAt, At, EndPass
  <2>3. CASE plugged
    BY <1>10, <2>1, <2>2, <2>3 DEF Charging, ChargerNoticed, FedPasses
  <2>4. CASE ~plugged
    <3>1. fed = 0
      BY <2>4 DEF PowerInv, ChargerNoticed
    <3>2. QED
      BY <2>2, <2>4, <3>1 DEF ChargerNoticed, FedPasses
  <2>5. QED
    BY <2>1, <2>3, <2>4
<1>11. CASE StopCharging
  BY <1>11, TimeAssumption DEF StopCharging, ChargeAt, At, EndPass, PowerInv, ToldAgrees, PowerTypeOK, ClockSound, ChargerNoticed, FedPasses, ChargeStatuses
<1>12. CASE Activity
  BY <1>12, TimeAssumption DEF Activity, PowerInv, ToldAgrees, PowerTypeOK, ClockSound, ChargerNoticed, FedPasses, ChargeStatuses
<1>13. CASE SetClock
  BY <1>13, TimeAssumption DEF SetClock, PowerInv, ToldAgrees, PowerTypeOK, ClockSound, ChargerNoticed, FedPasses, ChargeStatuses
<1>14. CASE ClockIsSet
  BY <1>14, TimeAssumption DEF ClockIsSet, PowerInv, ToldAgrees, PowerTypeOK, ClockSound, ChargerNoticed, FedPasses, ChargeStatuses
<1>15. CASE Tick
  BY <1>15, TimeAssumption DEF Tick, PowerInv, ToldAgrees, PowerTypeOK, ClockSound, ChargerNoticed, FedPasses, ChargeStatuses
<1>16. CASE Plug
  BY <1>16, TimeAssumption DEF Plug, PowerInv, ToldAgrees, PowerTypeOK, ClockSound, ChargerNoticed, FedPasses, ChargeStatuses
<1>17. CASE Drain
  BY <1>17, TimeAssumption DEF Drain, PowerInv, ToldAgrees, PowerTypeOK, ClockSound, ChargerNoticed, FedPasses, ChargeStatuses
<1>18. CASE Wake
  BY <1>18, TimeAssumption DEF Wake, PowerInv, ToldAgrees, PowerTypeOK, ClockSound, ChargerNoticed, FedPasses, ChargeStatuses
<1>19. CASE UNCHANGED powerVars
  BY <1>19 DEF powerVars, PowerInv, ToldAgrees, PowerTypeOK, ClockSound, ChargerNoticed, FedPasses, ChargeStatuses
<1>20. QED
  BY <1>1, <1>2, <1>3, <1>4, <1>5, <1>6, <1>7, <1>8, <1>9, <1>10, <1>11, <1>12, <1>13, <1>14, <1>15, <1>16, <1>17, <1>18, <1>19 DEF PowerNext, PassStep, WorldStep

\* The device sleeps after its goodbye.
LEMMA AsleepStays ==
  ASSUME PowerInv, [PowerNext]_powerVars
  PROVE  (/\ asleep => pc = "byebye"
          /\ jumping /\ pc = "compare" => judged >= SleepSec)'
<1>1. CASE BeginPass
  BY <1>1, TimeAssumption DEF BeginPass, At, PowerInv, ToldAgrees, PowerTypeOK
<1>2. CASE ReadStamp
  BY <1>2, TimeAssumption DEF ReadStamp, At, PowerInv, ToldAgrees, PowerTypeOK
<1>3. CASE Compare
  BY <1>3, TimeAssumption DEF Compare, At, PowerInv, ToldAgrees, PowerTypeOK
<1>4. CASE DeepSleep
  BY <1>4, TimeAssumption DEF DeepSleep, At, PowerInv, ToldAgrees, PowerTypeOK
<1>5. CASE Shutdown
  BY <1>5, TimeAssumption DEF Shutdown, At, PowerInv, ToldAgrees, PowerTypeOK
<1>6. CASE ChargeInit
  BY <1>6, TimeAssumption DEF ChargeInit, ChargeAt, At, EndPass, PowerInv, ToldAgrees, PowerTypeOK
<1>7. CASE ChargeIdle
  BY <1>7, TimeAssumption DEF ChargeIdle, ChargeAt, At, EndPass, PowerInv, ToldAgrees, PowerTypeOK
<1>8. CASE LowBattery
  BY <1>8, TimeAssumption DEF LowBattery, ChargeAt, At, PowerInv, ToldAgrees, PowerTypeOK
<1>9. CASE StartCharging
  BY <1>9, TimeAssumption DEF StartCharging, ChargeAt, At, EndPass, PowerInv, ToldAgrees, PowerTypeOK
<1>10. CASE Charging
  BY <1>10, TimeAssumption DEF Charging, ChargeAt, At, EndPass, PowerInv, ToldAgrees, PowerTypeOK
<1>11. CASE StopCharging
  BY <1>11, TimeAssumption DEF StopCharging, ChargeAt, At, EndPass, PowerInv, ToldAgrees, PowerTypeOK
<1>12. CASE Activity
  BY <1>12, TimeAssumption DEF Activity, PowerInv, ToldAgrees, PowerTypeOK
<1>13. CASE SetClock
  BY <1>13, TimeAssumption DEF SetClock, PowerInv, ToldAgrees, PowerTypeOK
<1>14. CASE ClockIsSet
  BY <1>14, TimeAssumption DEF ClockIsSet, PowerInv, ToldAgrees, PowerTypeOK
<1>15. CASE Tick
  BY <1>15, TimeAssumption DEF Tick, PowerInv, ToldAgrees, PowerTypeOK
<1>16. CASE Plug
  BY <1>16, TimeAssumption DEF Plug, PowerInv, ToldAgrees, PowerTypeOK
<1>17. CASE Drain
  BY <1>17, TimeAssumption DEF Drain, PowerInv, ToldAgrees, PowerTypeOK
<1>18. CASE Wake
  BY <1>18, TimeAssumption DEF Wake, PowerInv, ToldAgrees, PowerTypeOK
<1>19. CASE UNCHANGED powerVars
  BY <1>19 DEF powerVars, PowerInv, ToldAgrees, PowerTypeOK
<1>20. QED
  BY <1>1, <1>2, <1>3, <1>4, <1>5, <1>6, <1>7, <1>8, <1>9, <1>10, <1>11, <1>12, <1>13, <1>14, <1>15, <1>16, <1>17, <1>18, <1>19 DEF PowerNext, PassStep, WorldStep

-----------------------------------------------------------------------------
(* Sleep: the theorems                                                      *)

\* The device starts with the clock, the stamp and the passes at zero.
LEMMA InitPowerInv ==
  ASSUME PowerInit
  PROVE  PowerInv
<1>1. jumps * Jump = 0 /\ MaxJumps * Jump \in Nat
  <2>1. Jump \in Nat /\ MaxJumps \in Nat /\ jumps = 0
    BY TimeAssumption DEF PowerInit
  <2>2. QED
    BY <2>1
<1>2. PowerTypeOK
  <2>1. /\ 0 \in 0..MaxTime /\ 0 \in 0..MaxTime + MaxJumps * Jump /\ 0 \in 0..RemindCount
        /\ 0 \in 0..MaxTime + SleepSec /\ 0 \in 0..MaxJumps /\ 0 \in 0..MaxPlugs
    BY <1>1, TimeAssumption
  <2>2. {sleep_timestamp, now, stamp, play_time} \subseteq 0..MaxTime + MaxJumps * Jump
    BY <2>1 DEF PowerInit
  <2>3. /\ charge_status \in ChargeStatuses
        /\ lowpower_remind_count \in 0..RemindCount
        /\ pc \in {"wait", "stamp", "compare", "charge", "byebye"}
        /\ {battery_vol, jumping, plugged, low, asleep} \subseteq BOOLEAN
        /\ told \in {"none", "CHARGING", "CHARGING_STOP"}
        /\ reason \in {"none", "idle", "low", "told"}
        /\ quiet \in 0..MaxTime
        /\ fed \in 0..5
        /\ judged \in 0..MaxTime + SleepSec
        /\ passed \in BOOLEAN
        /\ jumps \in 0..MaxJumps /\ plugs \in 0..MaxPlugs
    <3>1. 0 \in 0..5 /\ "INIT" \in ChargeStatuses
      BY DEF ChargeStatuses
    <3>2. QED
      BY <2>1, <3>1, Zenon DEF PowerInit
  <2>4. QED
    BY <2>2, <2>3 DEF PowerTypeOK
<1>3. ToldAgrees
  BY <1>2 DEF PowerInit, ToldAgrees
<1>4. ClockSound /\ StampIsNoted
  BY <1>1, TimeAssumption DEF PowerInit, ClockSound, StampIsNoted
<1>5. ChargerNoticed
  BY DEF PowerInit, ChargerNoticed, FedPasses
<1>6. QED
  BY <1>3, <1>4, <1>5 DEF PowerInit, PowerInv

\* All parts together are preserved by every step.
LEMMA NextPowerInv ==
  ASSUME PowerInv, [PowerNext]_powerVars
  PROVE  PowerInv'
<1>1. ToldAgrees' /\ ClockSound' /\ StampIsNoted' /\ ChargerNoticed'
  BY ToldStays, ClockStays, StampStays, NoticedStays
<1>2. QED
  BY <1>1, AsleepStays DEF PowerInv

\* The invariant holds in every state the service gets into.
LEMMA PowerInvAlways == PowerSpec => []PowerInv
<1>1. PowerInit => PowerInv
  BY InitPowerInv
<1>2. PowerInv /\ [PowerNext]_powerVars => PowerInv'
  BY NextPowerInv
<1>3. QED
  BY <1>1, <1>2, PTL DEF PowerSpec

\* power_charging_manage: the last of the two charging events agrees with the state the
\* service is in, for every sequence of chargers plugged in and pulled out.
THEOREM ChargingIsTold == PowerSpec => []ToldAgrees
<1>1. PowerInv => ToldAgrees
  BY DEF PowerInv
<1>2. QED
  BY <1>1, PowerInvAlways, PTL

\* A step to the goodbye, from any state the invariant allows, has its reason.
LEMMA GoodbyeHasReason ==
  ASSUME PowerInv, PowerNext, pc # "byebye", pc' = "byebye"
  PROVE  /\ reason' = "idle" => judged >= SleepSec /\ (fed < 5 \/ jumps > 0)
         /\ reason' = "low" => fed < 3
<1>1. CASE Compare
  <2>1. /\ now \in Nat /\ stamp \in Nat /\ stamp <= now /\ fed \in 0..5 /\ jumps \in Nat
        /\ SleepSec \in Nat /\ SleepSec > 1 /\ judged \in Int /\ pc = "compare"
    BY <1>1, PowerFacts, TimeAssumption
       DEF Compare, At, PowerInv, ToldAgrees, PowerTypeOK, ClockSound
  <2>2. reason' = "idle" /\ now - stamp >= SleepSec
    BY <1>1, <2>1 DEF Compare, Abs
  <2>3. judged >= SleepSec
    BY <2>1, <2>2 DEF PowerInv, StampIsNoted
  <2>4. fed < 5 \/ jumps > 0
    <3>1. ASSUME fed = 5, jumps = 0
          PROVE  now - stamp <= 1
      BY <2>1, <3>1 DEF PowerInv, ChargerNoticed, FedPasses
    <3>2. QED
      BY <2>1, <2>2, <3>1
  <2>5. QED
    BY <2>2, <2>3, <2>4
<1>2. CASE LowBattery
  <2>1. /\ fed \in 0..5 /\ pc = "charge" /\ charge_status = "IDEL" /\ reason' = "low"
    BY <1>2 DEF LowBattery, ChargeAt, At, PowerInv, ToldAgrees, PowerTypeOK
  <2>2. fed < 3
    BY <2>1 DEF PowerInv, ChargerNoticed, FedPasses
  <2>3. QED
    BY <2>1, <2>2
<1>3. CASE Shutdown
  BY <1>3 DEF Shutdown
<1>4. CASE WorldStep
  BY <1>4 DEF WorldStep, Activity, SetClock, ClockIsSet, Tick, Plug, Drain, Wake
<1>5. CASE BeginPass \/ ReadStamp \/ DeepSleep
  BY <1>5 DEF BeginPass, ReadStamp, DeepSleep, At
<1>6. CASE ChargeInit \/ ChargeIdle \/ StartCharging \/ Charging \/ StopCharging
  BY <1>6 DEF ChargeInit, ChargeIdle, StartCharging, Charging, StopCharging, EndPass
<1>7. QED
  BY <1>1, <1>2, <1>3, <1>4, <1>5, <1>6 DEF PowerNext, PassStep

\* power_manage: the device says goodbye for idleness only when nothing was done for the
\* half hour or the clock was being set, never with the charger noticed, and for a low
\* battery only in the first passes of a charge.
THEOREM SleepIsJustified == PowerSpec => SleepsForAReason
<1>1. PowerInv /\ [PowerNext]_powerVars =>
        [ pc # "byebye" /\ pc' = "byebye"
          => /\ reason' = "idle" => judged >= SleepSec /\ (fed < 5 \/ jumps > 0)
             /\ reason' = "low" => fed < 3 ]_powerVars
  BY GoodbyeHasReason
<1>2. QED
  BY <1>1, PowerInvAlways, PTL DEF PowerSpec, SleepsForAReason

-----------------------------------------------------------------------------
(* The player and its list: the invariant                                   *)

\* The types of what the player's callers, its task and the player itself write.
MiddlewareOK ==
  /\ object \in Seq(Plays) /\ Len(object) <= MaxPlays
  /\ heap \subseteq 1..Len(object) /\ refused \subseteq 1..Len(object)
  /\ queue \in [Modes -> Seq(Objects)]
  /\ play_status_queue \in Seq(Reports) /\ Len(play_status_queue) <= QueueSize
  /\ player_status \in Reports \cup {Null}
  /\ at \in [Callers -> {"idle", "start", "drop"}]
  /\ hand \in [Callers -> Objects \cup {Null}]
  /\ player \in [Modes -> Seq(Objects)]
  /\ heard \in [Objects -> Seq(Ends)]
  /\ lost \in BOOLEAN /\ broken \in BOOLEAN

\* The types of what the list's task and its users write.
ListOK ==
  /\ inbox \in Seq(Messages)
  /\ playlist \in Lists \cup {Null}
  /\ cur_item \in 0..(IF playlist = Null THEN 0 ELSE Len(playlist.items))
  /\ cur_obj \in 0..Len(object)
  /\ inputs \in 0..MaxInputs
  /\ dropped \in BOOLEAN /\ crossed \in BOOLEAN

\* A caller that has not come back has an object in hand, the list's task alone one of
\* music; it takes out only what was refused.
HandsFull ==
  \A c \in Callers : at[c] # "idle" =>
    /\ hand[c] \in 1..Len(object)
    /\ object[hand[c]].mode = IF c = list THEN "music" ELSE "tone"
    /\ at[c] = "drop" => hand[c] \in refused

\* The statuses on their way that are about music.
MusicEnds == {r \in Elems(play_status_queue) \cup ({player_status} \ {Null}) : r.mode = "music"}

\* Nobody was told anything of an object that is not made, and music has an address.
MadeFirst ==
  /\ \A o \in Objects : o > Len(object) => heard[o] = << >>
  /\ \A o \in 1..Len(object) : object[o].mode = "music" => object[o].url \in Urls
  /\ Elems(player["music"]) \subseteq 1..Len(object)
  /\ \A r \in MusicEnds : r.of \in 1..Len(object)

\* Music is in the list's hand, then played, then reported: one after the other.
PlayedInTurn ==
  /\ Len(player["music"]) <= 1
  /\ \A r \in MusicEnds : r.of \notin Elems(player["music"])
  /\ at[list] = "start" => /\ hand[list] \notin Elems(player["music"])
                           /\ \A r \in MusicEnds : r.of # hand[list]

PlayerInv ==
  MiddlewareOK /\ ObjectOwnership /\ OneEnd /\ HandsFull /\ MadeFirst /\ PlayedInTurn

\* An event of the list's last play comes when the player is no longer at it, unless ends
\* were crossed.
EndsAfterPlay ==
  /\ at[list] = "start" => hand[list] = cur_obj
  /\ \A e \in Elems(inbox) : e.event = "PLAY_STATUS" => e.of \in 1..Len(object)
  /\ ~crossed =>
       /\ ~EndOfAnother /\ ~EndOfNamesake
       /\ \A e \in Elems(inbox) : e.event = "PLAY_STATUS" /\ e.of = cur_obj =>
            cur_obj \notin Elems(player["music"]) /\ at[list] # "start"

PlayInv == PlayerInv /\ ListOK /\ EndsAfterPlay

-----------------------------------------------------------------------------
(* The player and its list: the queues of objects                           *)

HIDE DEF params, charge, pass, world, seen, counts
USE PlaysAssumption, NullAssumption, ListAssumption, InputAssumption
USE DEF callVars, objectVars, playerVars, lossVars, middlewareVars

\* Every step on a queue takes some of its objects out, which are freed, and puts new ones
\* in, which are allocated.
LEMMA OwnedStill ==
  ASSUME ObjectOwnership, ~broken, MiddlewareOK,
         NEW m \in Modes, NEW q, NEW gone, NEW new,
         queue' = [queue EXCEPT ![m] = q], heap' = (heap \ gone) \cup new,
         NoRepeat(q), Elems(q) = (Elems(queue[m]) \ gone) \cup new,
         gone \cap heap \subseteq Elems(queue[m]),
         \A o \in heap : object'[o] = object[o],
         \A o \in new : object'[o].mode = m
  PROVE  ObjectOwnership'
<1>1. /\ heap = UNION {Elems(queue[k]) : k \in Modes}
      /\ \A k \in Modes : NoRepeat(queue[k]) /\ \A o \in Elems(queue[k]) : object[o].mode = k
  BY DEF ObjectOwnership
<1>2. queue'[m] = q /\ \A k \in Modes : k # m => queue'[k] = queue[k]
  BY DEF MiddlewareOK
<1>3. \A k \in Modes : k # m => gone \cap Elems(queue[k]) = {}
  BY <1>1
<1>4. \A k \in Modes : Elems(queue'[k]) = (Elems(queue[k]) \ gone) \cup (IF k = m THEN new ELSE {})
  BY <1>2, <1>3
<1>5. heap' = UNION {Elems(queue'[k]) : k \in Modes}
  BY <1>1, <1>4
<1>6. \A k \in Modes : NoRepeat(queue'[k]) /\ \A o \in Elems(queue'[k]) : object'[o].mode = k
  <2> TAKE k \in Modes
  <2>1. NoRepeat(queue'[k])
    BY <1>1, <1>2
  <2>2. ASSUME NEW o \in Elems(queue'[k])
        PROVE  object'[o].mode = k
    <3>1. CASE o \in Elems(queue[k])
      BY <1>1, <3>1
    <3>2. CASE o \in new /\ k = m
      BY <3>2
    <3>3. QED
      BY <1>4, <2>2, <3>1, <3>2
  <2>3. QED
    BY <2>1, <2>2
<1>7. QED
  BY <1>5, <1>6 DEF ObjectOwnership, Elems, NoRepeat

\* An object in a queue is told one end when it leaves it, and nothing before.
LEMMA ToldOnce ==
  ASSUME PlayerInv, ~broken, NEW m \in Modes, NEW h \in Elems(queue[m]), NEW s \in Ends,
         heard' = [heard EXCEPT ![h] = Append(@, s)]
  PROVE  /\ h \in heap /\ h \in 1..Len(object) /\ h \in Objects /\ object[h].mode = m
         /\ heard' \in [Objects -> Seq(Ends)]
         /\ heard'[h] = <<s>> /\ \A o \in Objects : o # h => heard'[o] = heard[o]
<1>1. h \in heap /\ h \in 1..Len(object) /\ h \in Objects /\ object[h].mode = m
  <2>1. /\ heap = UNION {Elems(queue[k]) : k \in Modes}
        /\ \A o \in Elems(queue[m]) : object[o].mode = m
    BY DEF PlayerInv, ObjectOwnership
  <2>2. heap \subseteq 1..Len(object) /\ Len(object) \in Nat /\ Len(object) <= MaxPlays
    BY DEF PlayerInv, MiddlewareOK
  <2>3. h \in heap /\ object[h].mode = m
    BY <2>1
  <2>4. QED
    BY <2>2, <2>3 DEF Objects
<1>2. heard[h] = << >> /\ heard \in [Objects -> Seq(Ends)]
  BY <1>1 DEF PlayerInv, OneEnd, MiddlewareOK
<1>3. Append(heard[h], s) = <<s>> /\ <<s>> \in Seq(Ends)
  BY <1>2
<1>4. QED
  BY <1>1, <1>2, <1>3

\* The head of a queue that is not empty, and what is behind it.
LEMMA HeadOfQueue ==
  ASSUME MiddlewareOK, ObjectOwnership, ~broken, NEW m \in Modes, queue[m] # << >>
  PROVE  /\ Head(queue[m]) \in Elems(queue[m]) /\ Tail(queue[m]) \in Seq(Objects)
         /\ Elems(Tail(queue[m])) = Elems(queue[m]) \ {Head(queue[m])}
         /\ NoRepeat(Tail(queue[m]))
<1>1. queue[m] \in Seq(Objects) /\ NoRepeat(queue[m])
  BY DEF MiddlewareOK, ObjectOwnership
<1>2. QED
  BY <1>1, TailFacts

-----------------------------------------------------------------------------
(* The player and its list: the calls                                       *)

\* What Enqueue does: object o takes its place in the queue, which is q then, and what it
\* evicts, one object or none, leaves it.
Enqueued(c, m, u, soon, o, q, gone) ==
  /\ gone \subseteq Elems(queue[m])
  /\ o = Len(object) + 1 /\ Len(object) \in Nat /\ at[c] = "idle"
  /\ object' = Append(object, [mode |-> m, url |-> u, now |-> soon])
  /\ object' \in Seq(Plays) /\ Len(object') = o /\ object'[o].mode = m /\ object'[o].url = u
  /\ \A x \in 1..Len(object) : object'[x] = object[x]
  /\ queue' = [queue EXCEPT ![m] = q]
  /\ NoRepeat(q) /\ Elems(q) = (Elems(queue[m]) \ gone) \cup {o}
  /\ heap' = (heap \ gone) \cup {o}
  /\ heard' \in [Objects -> Seq(Ends)]
  /\ \A x \in gone : heard'[x] = <<"STOP">> /\ x \in 1..Len(object)
  /\ \/ gone = {} /\ heard' = heard
     \/ \E h \in Elems(queue[m]) : /\ gone = {h} /\ heard' = [heard EXCEPT ![h] = Append(@, "STOP")]
  /\ at' = [at EXCEPT ![c] = "start"] /\ hand' = [hand EXCEPT ![c] = o]
  /\ UNCHANGED <<playerVars, lossVars>>

LEMMA EnqueueDoes ==
  ASSUME PlayerInv, ~broken, NEW c \in Callers, NEW m \in Modes, NEW u \in Urls \cup {Null},
         NEW soon \in BOOLEAN, Enqueue(c, m, u, soon)
  PROVE  \E o \in Objects, q \in Seq(Objects), gone \in SUBSET Objects :
           Enqueued(c, m, u, soon, o, q, gone)
<1> DEFINE o == Len(object) + 1
           h == Head(queue[m])
           kept == IF Evicts(m, soon) THEN Tail(queue[m]) ELSE queue[m]
           gone == IF Evicts(m, soon) THEN {h} ELSE {}
           q == Append(kept, o)
<1>1. /\ object \in Seq(Plays) /\ Len(object) \in Nat /\ heap \subseteq 1..Len(object)
      /\ heap = UNION {Elems(queue[k]) : k \in Modes} /\ NoRepeat(queue[m])
      /\ queue[m] \in Seq(Objects) /\ heard \in [Objects -> Seq(Ends)]
  BY DEF PlayerInv, MiddlewareOK, ObjectOwnership
<1>2. /\ o \in Objects /\ at[c] = "idle"
      /\ object' = Append(object, [mode |-> m, url |-> u, now |-> soon])
      /\ queue' = [queue EXCEPT ![m] = q]
      /\ heap' = (heap \ gone) \cup {o}
      /\ heard' = IF Evicts(m, soon) THEN [heard EXCEPT ![h] = Append(@, "STOP")] ELSE heard
      /\ at' = [at EXCEPT ![c] = "start"] /\ hand' = [hand EXCEPT ![c] = o]
      /\ UNCHANGED <<playerVars, lossVars>>
  <2>1. heap' = (IF Evicts(m, soon) THEN heap \ {h} ELSE heap) \cup {o}
    BY DEF Enqueue
  <2>2. heap' = (heap \ gone) \cup {o}
    BY <2>1
  <2>3. QED
    BY <2>2 DEF Enqueue
<1>3. [mode |-> m, url |-> u, now |-> soon] \in Plays
  BY DEF Plays
<1>4. /\ object' \in Seq(Plays) /\ Len(object') = o /\ object'[o] = [mode |-> m, url |-> u, now |-> soon]
      /\ \A x \in 1..Len(object) : object'[x] = object[x]
  BY <1>1, <1>2, <1>3
<1>5. /\ kept \in Seq(Objects) /\ NoRepeat(kept) /\ Elems(kept) = Elems(queue[m]) \ gone
      /\ gone \in SUBSET Elems(queue[m])
  <2>1. CASE Evicts(m, soon)
    <3>1. queue[m] # << >>
      BY <2>1 DEF Evicts
    <3>2. QED
      BY <2>1, <3>1, HeadOfQueue DEF PlayerInv
  <2>2. CASE ~Evicts(m, soon)
    BY <1>1, <2>2
  <2>3. QED
    BY <2>1, <2>2
<1>6. o \notin Elems(kept)
  <2>1. Elems(kept) \subseteq 1..Len(object)
    BY <1>1, <1>5
  <2>2. QED
    BY <1>1, <2>1
<1>7. q \in Seq(Objects) /\ NoRepeat(q) /\ Elems(q) = (Elems(queue[m]) \ gone) \cup {o}
  <2> HIDE DEF o, kept, gone, q, h
  <2>1. /\ Append(kept, o) \in Seq(Objects) /\ NoRepeat(Append(kept, o))
        /\ Elems(Append(kept, o)) = Elems(kept) \cup {o}
    BY <1>2, <1>5, <1>6, AppendFacts
  <2>2. q = Append(kept, o)
    BY DEF q
  <2>3. QED
    BY <1>5, <2>1, <2>2
<1>8. /\ heard' \in [Objects -> Seq(Ends)]
      /\ \A x \in gone : heard'[x] = <<"STOP">> /\ x \in 1..Len(object)
      /\ \/ gone = {} /\ heard' = heard
         \/ \E x \in Elems(queue[m]) : gone = {x} /\ heard' = [heard EXCEPT ![x] = Append(@, "STOP")]
  <2>1. CASE Evicts(m, soon)
    <3>1. h \in Elems(queue[m]) /\ heard' = [heard EXCEPT ![h] = Append(@, "STOP")] /\ gone = {h}
      BY <1>2, <1>5, <2>1
    <3>2. "STOP" \in Ends
      BY DEF Ends
    <3>3. heard' \in [Objects -> Seq(Ends)] /\ heard'[h] = <<"STOP">> /\ h \in 1..Len(object)
      BY <3>1, <3>2, ToldOnce
    <3>4. QED
      BY <3>1, <3>3
  <2>2. CASE ~Evicts(m, soon)
    BY <1>1, <1>2, <2>2
  <2>3. QED
    BY <2>1, <2>2
<1> HIDE DEF o, kept, gone, q, h
<1>9. object'[o].mode = m /\ object'[o].url = u
  BY <1>4
<1>10. o = Len(object) + 1
  BY DEF o
<1>11. QED
  <2>1. Enqueued(c, m, u, soon, o, q, gone)
    BY <1>1, <1>2, <1>4, <1>5, <1>7, <1>8, <1>9, <1>10 DEF Enqueued
  <2>2. Elems(queue[m]) \subseteq Objects
    BY <1>1 DEF Elems
  <2>3. QED
    BY <1>2, <1>5, <1>7, <2>1, <2>2

LEMMA EnqueueInv ==
  ASSUME PlayerInv, ~broken, NEW c \in Callers, NEW m \in Modes, NEW u \in Urls \cup {Null},
         NEW soon \in BOOLEAN, Enqueue(c, m, u, soon),
         (m = "music" <=> c = list), m = "music" => u \in Urls
  PROVE  PlayerInv'
<1>0. PICK o \in Objects, q \in Seq(Objects), gone \in SUBSET Objects :
        Enqueued(c, m, u, soon, o, q, gone)
  BY EnqueueDoes, SMTT(30)
<1>1. /\ gone \subseteq Elems(queue[m])
      /\ o = Len(object) + 1 /\ Len(object) \in Nat /\ at[c] = "idle"
      /\ object' = Append(object, [mode |-> m, url |-> u, now |-> soon])
      /\ object' \in Seq(Plays) /\ Len(object') = o /\ object'[o].mode = m /\ object'[o].url = u
      /\ \A x \in 1..Len(object) : object'[x] = object[x]
      /\ queue' = [queue EXCEPT ![m] = q]
      /\ NoRepeat(q) /\ Elems(q) = (Elems(queue[m]) \ gone) \cup {o}
      /\ heap' = (heap \ gone) \cup {o}
      /\ heard' \in [Objects -> Seq(Ends)]
      /\ \A x \in gone : heard'[x] = <<"STOP">> /\ x \in 1..Len(object)
      /\ \/ gone = {} /\ heard' = heard
         \/ \E h \in Elems(queue[m]) : /\ gone = {h} /\ heard' = [heard EXCEPT ![h] = Append(@, "STOP")]
      /\ at' = [at EXCEPT ![c] = "start"] /\ hand' = [hand EXCEPT ![c] = o]
      /\ UNCHANGED <<playerVars, lossVars>>
  BY <1>0 DEF Enqueued
<1>2. MiddlewareOK
  BY DEF PlayerInv
<1>3. heap \subseteq 1..Len(object) /\ refused \subseteq 1..Len(object) /\ 1..Len(object) \subseteq 1..o
  BY <1>1, <1>2, SMTT(30) DEF MiddlewareOK
<1>4. o <= MaxPlays /\ o \in 1..o /\ o \notin 1..Len(object)
  BY <1>1 DEF Objects
<1>5. MiddlewareOK'
  <2>1. queue' \in [Modes -> Seq(Objects)]
    BY <1>1, <1>2 DEF MiddlewareOK
  <2>2. at' \in [Callers -> {"idle", "start", "drop"}] /\ hand' \in [Callers -> Objects \cup {Null}]
    BY <1>1, <1>2 DEF MiddlewareOK
  <2>3. heap' \subseteq 1..Len(object') /\ refused' \subseteq 1..Len(object')
    BY <1>1, <1>3, <1>4
  <2>4. QED
    BY <1>1, <1>2, <1>4, <2>1, <2>2, <2>3 DEF MiddlewareOK
<1>6. ObjectOwnership'
  <2>1. gone \cap heap \subseteq Elems(queue[m])
    BY <1>1
  <2>2. \A x \in heap : object'[x] = object[x]
    BY <1>1, <1>3
  <2>3. \A x \in {o} : object'[x].mode = m
    BY <1>1
  <2>4. ObjectOwnership
    BY DEF PlayerInv
  <2>5. /\ queue' = [queue EXCEPT ![m] = q] /\ heap' = (heap \ gone) \cup {o}
        /\ NoRepeat(q) /\ Elems(q) = (Elems(queue[m]) \ gone) \cup {o}
    BY <1>1
  <2> DEFINE new == {o}
  <2>6. /\ heap' = (heap \ gone) \cup new /\ Elems(q) = (Elems(queue[m]) \ gone) \cup new
        /\ \A x \in new : object'[x].mode = m
    BY <2>3, <2>5
  <2> HIDE DEF new
  <2>7. QED
    BY <1>2, <2>1, <2>2, <2>4, <2>5, <2>6, OwnedStill
<1>7. \A x \in Objects : x \notin gone => heard'[x] = heard[x]
  <2>1. CASE heard' = heard
    BY <2>1
  <2>2. ASSUME NEW h \in Elems(queue[m]), gone = {h}, heard' = [heard EXCEPT ![h] = Append(@, "STOP")]
        PROVE  \A x \in Objects : x \notin gone => heard'[x] = heard[x]
    BY <1>2, <2>2 DEF MiddlewareOK
  <2>3. QED
    BY <1>1, <2>1, <2>2
<1>8. \A x \in gone : heard'[x] = <<"STOP">> /\ x \in 1..Len(object)
  BY <1>1
<1>9. heard[o] = << >>
  BY <1>1 DEF PlayerInv, MadeFirst
<1>10. 1..Len(object) \subseteq Objects
  BY <1>1, <1>4 DEF Objects
<1>11. OneEnd'
  <2>1. OneEnd /\ refused' = refused
    BY <1>1 DEF PlayerInv
  <2>2. ASSUME NEW x \in 1..Len(object')
        PROVE  /\ Len(heard'[x]) <= 1
               /\ x \in heap' => heard'[x] = << >>
               /\ x \notin heap' /\ x \notin refused' => heard'[x] # << >>
    <3>1. CASE x = o
      <4>1. o \notin gone
        BY <1>4, <1>8
      <4>2. heard'[o] = << >> /\ Len(heard'[o]) = 0
        BY <1>7, <1>9, <4>1
      <4>3. QED
        BY <1>1, <3>1, <4>2
    <3>2. CASE x \in gone
      <4>1. x \notin heap' /\ heard'[x] = <<"STOP">>
        BY <1>1, <1>4, <1>8, <3>2
      <4>2. QED
        BY <4>1
    <3>3. CASE x # o /\ x \notin gone
      <4>1. x \in 1..Len(object) /\ heard'[x] = heard[x] /\ (x \in heap' <=> x \in heap)
        <5>1. x \in 1..Len(object)
          BY <1>1, <2>2, <3>3
        <5>2. x \in heap' <=> x \in heap
          BY <1>1, <3>3
        <5>3. QED
          BY <1>7, <1>10, <3>3, <5>1, <5>2
      <4>2. x \in DOMAIN object
        BY <1>2, <4>1 DEF MiddlewareOK
      <4>3. QED
        BY <2>1, <4>1, <4>2 DEF OneEnd
    <3>4. QED
      BY <3>1, <3>2, <3>3
  <2>3. (DOMAIN object)' = 1..Len(object')
    BY <1>1
  <2>4. QED
    BY <2>2, <2>3 DEF OneEnd
<1>12. HandsFull'
  <2>1. at'[c] = "start" /\ hand'[c] = o /\ \A k \in Callers : k # c => at'[k] = at[k] /\ hand'[k] = hand[k]
    BY <1>1, <1>2 DEF MiddlewareOK
  <2>2. ASSUME NEW k \in Callers, k # c, at'[k] # "idle"
        PROVE  /\ hand'[k] \in 1..Len(object')
               /\ object'[hand'[k]].mode = IF k = list THEN "music" ELSE "tone"
               /\ at'[k] = "drop" => hand'[k] \in refused'
    <3>1. /\ hand[k] \in 1..Len(object)
          /\ object[hand[k]].mode = IF k = list THEN "music" ELSE "tone"
          /\ at[k] = "drop" => hand[k] \in refused
      BY <2>1, <2>2 DEF PlayerInv, HandsFull
    <3>2. QED
      BY <1>1, <1>3, <2>1, <2>2, <3>1
  <2>3. QED
    <3>1. /\ hand'[c] \in 1..Len(object') /\ at'[c] # "drop"
          /\ object'[hand'[c]].mode = IF c = list THEN "music" ELSE "tone"
      BY <1>1, <1>4, <2>1 DEF Modes
    <3>2. QED
      BY <2>2, <3>1 DEF HandsFull
<1>13. MusicEnds' = MusicEnds /\ player' = player
  BY <1>1 DEF MusicEnds, Elems
<1>14. MadeFirst'
  <2>1. MadeFirst
    BY DEF PlayerInv
  <2>2. \A x \in Objects : x > Len(object') => heard'[x] = << >>
    <3>1. TAKE x \in Objects
    <3>2. HAVE x > Len(object')
    <3>3. x \notin gone /\ x > Len(object)
      BY <1>1, <1>8, <3>2 DEF Objects
    <3>4. QED
      BY <1>7, <2>1, <3>3 DEF MadeFirst
  <2>3. \A x \in 1..Len(object') : object'[x].mode = "music" => object'[x].url \in Urls
    <3>1. TAKE x \in 1..Len(object')
    <3>2. CASE x = o
      BY <1>1, <3>2
    <3>3. CASE x # o
      <4>1. x \in 1..Len(object)
        BY <1>1, <3>3
      <4>2. QED
        BY <1>1, <2>1, <4>1 DEF MadeFirst
    <3>4. QED
      BY <3>2, <3>3
  <2>4. Elems(player["music"])' \subseteq 1..Len(object')
    <3>1. Elems(player["music"])' = Elems(player["music"])
      BY <1>13 DEF Elems
    <3>2. QED
      BY <1>1, <1>3, <2>1, <3>1 DEF MadeFirst
  <2>5. \A r \in MusicEnds' : r.of \in 1..Len(object')
    BY <1>1, <1>3, <1>13, <2>1 DEF MadeFirst
  <2>6. QED
    BY <2>2, <2>3, <2>4, <2>5 DEF MadeFirst
<1>15. PlayedInTurn'
  <2>1. Elems(player["music"])' = Elems(player["music"])
    BY <1>13 DEF Elems
  <2>2. at'[list] = "start" => \/ at[list] = "start" /\ hand'[list] = hand[list]
                               \/ hand'[list] = o
    BY <1>1, <1>2 DEF MiddlewareOK
  <2>3. o \notin Elems(player["music"]) /\ \A r \in MusicEnds : r.of # o
    BY <1>4 DEF PlayerInv, MadeFirst
  <2>4. QED
    BY <1>13, <2>1, <2>2, <2>3 DEF PlayerInv, PlayedInTurn
<1>16. QED
  BY <1>5, <1>6, <1>11, <1>12, <1>14, <1>15 DEF PlayerInv

\* The player is told nothing of an object there is no memory for.
LEMMA NoMemoryInv ==
  ASSUME PlayerInv, NEW c \in Callers, NoMemory(c)
  PROVE  PlayerInv'
<1> USE DEF NoMemory
<1>1. MiddlewareOK' /\ HandsFull'
  BY DEF PlayerInv, MiddlewareOK, HandsFull
<1>2. ObjectOwnership' /\ OneEnd'
  BY DEF PlayerInv, ObjectOwnership, OneEnd, Elems, NoRepeat
<1>3. MadeFirst' /\ PlayedInTurn'
  BY DEF PlayerInv, MadeFirst, PlayedInTurn, MusicEnds, Elems
<1>4. QED
  BY <1>1, <1>2, <1>3 DEF PlayerInv

\* Object o is played, in its turn or in the place of what is played.
LEMMA StartInv ==
  ASSUME PlayerInv, NEW c \in Callers, Start(c)
  PROVE  PlayerInv'
<1> DEFINE o == hand[c]
           m == object[o].mode
           q == IF m = "music" \/ object[o].now THEN <<o>> ELSE Append(player[m], o)
<1>1. MiddlewareOK /\ HandsFull /\ MadeFirst /\ PlayedInTurn
  BY DEF PlayerInv
<1>2. /\ at[c] = "start" /\ at' = [at EXCEPT ![c] = "idle"] /\ hand' = [hand EXCEPT ![c] = Null]
      /\ player' = [player EXCEPT ![m] = q]
      /\ UNCHANGED <<object, objectVars, play_status_queue, player_status, lossVars>>
  BY DEF Start
<1>3. o \in 1..Len(object) /\ o \in Objects /\ m \in Modes /\ (m = "music" <=> c = list)
  <2>1. o \in 1..Len(object) /\ m = IF c = list THEN "music" ELSE "tone"
    BY <1>1, <1>2 DEF HandsFull
  <2>2. Len(object) \in Nat /\ Len(object) <= MaxPlays
    BY <1>1 DEF MiddlewareOK
  <2>3. QED
    BY <2>1, <2>2 DEF Objects, Modes
<1>4. q \in Seq(Objects)
  BY <1>1, <1>3 DEF MiddlewareOK
<1>5. m = "music" => q = <<o>>
  OBVIOUS
<1> HIDE DEF o, m, q
<1>6. player'[m] = q /\ \A k \in Modes : k # m => player'[k] = player[k]
  BY <1>1, <1>2, <1>3 DEF MiddlewareOK
<1>7. \A k \in Callers : k # c => at'[k] = at[k] /\ hand'[k] = hand[k]
  BY <1>1, <1>2 DEF MiddlewareOK
<1>8. at'[c] = "idle"
  BY <1>1, <1>2 DEF MiddlewareOK
<1>9. MiddlewareOK'
  <2>1. player' \in [Modes -> Seq(Objects)]
    BY <1>1, <1>2, <1>3, <1>4 DEF MiddlewareOK
  <2>2. at' \in [Callers -> {"idle", "start", "drop"}] /\ hand' \in [Callers -> Objects \cup {Null}]
    BY <1>1, <1>2 DEF MiddlewareOK
  <2>3. QED
    BY <1>1, <1>2, <2>1, <2>2 DEF MiddlewareOK
<1>10. ObjectOwnership' /\ OneEnd'
  BY <1>2 DEF PlayerInv, ObjectOwnership, OneEnd, Elems, NoRepeat
<1>11. HandsFull'
  BY <1>1, <1>2, <1>7, <1>8 DEF HandsFull
<1>12. MusicEnds' = MusicEnds
  BY <1>2 DEF MusicEnds, Elems
<1>13. CASE c = list
  <2>1. player'["music"] = <<o>> /\ Elems(player["music"])' = {o}
    <3>1. player'["music"] = <<o>>
      BY <1>3, <1>5, <1>6, <1>13
    <3>2. QED
      BY <3>1 DEF Elems
  <2>2. \A r \in MusicEnds : r.of # o
    BY <1>1, <1>2, <1>13 DEF PlayedInTurn, o
  <2>3. MadeFirst'
    BY <1>1, <1>2, <1>3, <1>12, <2>1 DEF MadeFirst
  <2>4. PlayedInTurn'
    BY <1>8, <1>12, <1>13, <2>1, <2>2 DEF PlayedInTurn
  <2>5. QED
    BY <1>9, <1>10, <1>11, <2>3, <2>4 DEF PlayerInv
<1>14. CASE c # list
  <2>1. player'["music"] = player["music"] /\ at'[list] = at[list] /\ hand'[list] = hand[list]
    BY <1>3, <1>6, <1>7, <1>14 DEF Modes
  <2>2. Elems(player["music"])' = Elems(player["music"])
    BY <2>1 DEF Elems
  <2>3. MadeFirst'
    BY <1>1, <1>2, <1>12, <2>2 DEF MadeFirst
  <2>4. PlayedInTurn'
    BY <1>1, <1>12, <2>1, <2>2 DEF PlayedInTurn
  <2>5. QED
    BY <1>9, <1>10, <1>11, <2>3, <2>4 DEF PlayerInv
<1>15. QED
  BY <1>13, <1>14

\* The player refuses object o.
LEMMA RefuseInv ==
  ASSUME PlayerInv, NEW c \in Callers, Refuse(c)
  PROVE  PlayerInv'
<1>1. MiddlewareOK /\ HandsFull /\ MadeFirst /\ PlayedInTurn /\ OneEnd
  BY DEF PlayerInv
<1>2. /\ at[c] = "start" /\ at' = [at EXCEPT ![c] = "drop"] /\ refused' = refused \cup {hand[c]}
      /\ UNCHANGED <<object, hand, objectVars, playerVars, lost, broken>>
  BY DEF Refuse
<1>3. hand[c] \in 1..Len(object)
  BY <1>1, <1>2 DEF HandsFull
<1>4. at'[c] = "drop" /\ \A k \in Callers : k # c => at'[k] = at[k]
  BY <1>1, <1>2 DEF MiddlewareOK
<1>5. MiddlewareOK'
  <2>1. at' \in [Callers -> {"idle", "start", "drop"}]
    BY <1>1, <1>2 DEF MiddlewareOK
  <2>2. QED
    BY <1>1, <1>2, <1>3, <2>1 DEF MiddlewareOK
<1>6. ObjectOwnership'
  BY <1>2 DEF PlayerInv, ObjectOwnership, Elems, NoRepeat
<1>7. OneEnd'
  BY <1>1, <1>2 DEF OneEnd
<1>8. HandsFull'
  BY <1>1, <1>2, <1>3, <1>4 DEF HandsFull
<1>9. MusicEnds' = MusicEnds /\ Elems(player["music"])' = Elems(player["music"])
  BY <1>2 DEF MusicEnds, Elems
<1>10. MadeFirst'
  BY <1>1, <1>2, <1>9 DEF MadeFirst
<1>11. PlayedInTurn'
  BY <1>1, <1>2, <1>4, <1>9 DEF PlayedInTurn
<1>12. QED
  BY <1>5, <1>6, <1>7, <1>8, <1>10, <1>11 DEF PlayerInv

\* The refused object is taken out of its queue and freed; if it was freed before, the
\* memory is used that is not there, and nothing is said of what follows.
LEMMA DropInv ==
  ASSUME PlayerInv, ~broken, NEW c \in Callers, Drop(c)
  PROVE  PlayerInv'
<1> DEFINE o == hand[c]
           m == object[o].mode
           q == Without(queue[m], o)
<1>1. MiddlewareOK /\ HandsFull /\ MadeFirst /\ PlayedInTurn /\ OneEnd /\ ObjectOwnership
  BY DEF PlayerInv
<1>2. /\ at[c] = "drop" /\ at' = [at EXCEPT ![c] = "idle"] /\ hand' = [hand EXCEPT ![c] = Null]
      /\ broken' = (o \notin heap) /\ heap' = heap \ {o}
      /\ UNCHANGED <<object, heard, playerVars, refused, lost>>
  BY DEF Drop
<1>3. queue' = [queue EXCEPT ![m] = q]
  BY DEF Drop
<1>4. o \in refused /\ m \in Modes
  BY <1>1, <1>2 DEF HandsFull, Modes
<1>5. queue[m] \in Seq(Objects) /\ NoRepeat(queue[m])
  BY <1>1, <1>4 DEF MiddlewareOK, ObjectOwnership
<1> DEFINE s == queue[m]
<1>6. q = Without(s, o) /\ s \in Seq(Objects) /\ NoRepeat(s)
  BY <1>5
<1> HIDE DEF o, m, q, s
<1>7. q \in Seq(Objects) /\ NoRepeat(q) /\ Elems(q) = Elems(s) \ {o}
  BY <1>6, WithoutFacts
<1>8. s = queue[m]
  BY DEF s
<1>9. MiddlewareOK'
  <2>1. queue' \in [Modes -> Seq(Objects)]
    BY <1>1, <1>3, <1>7 DEF MiddlewareOK
  <2>2. at' \in [Callers -> {"idle", "start", "drop"}] /\ hand' \in [Callers -> Objects \cup {Null}]
    BY <1>1, <1>2 DEF MiddlewareOK
  <2>3. broken' \in BOOLEAN /\ heap' \subseteq 1..Len(object')
    BY <1>1, <1>2 DEF MiddlewareOK
  <2>4. QED
    BY <1>1, <1>2, <2>1, <2>2, <2>3 DEF MiddlewareOK
<1>10. ObjectOwnership'
  <2>1. CASE o \notin heap
    BY <1>2, <2>1 DEF ObjectOwnership
  <2>2. CASE o \in heap
    <3> DEFINE gone == {o}
               new == {}
    <3>1. o \in Elems(queue[m])
      <4>1. PICK k \in Modes : o \in Elems(queue[k])
        BY <1>1, <2>2 DEF ObjectOwnership
      <4>2. k = m
        BY <1>1, <4>1 DEF ObjectOwnership, m
      <4>3. QED
        BY <4>1, <4>2
    <3>2. /\ heap' = (heap \ gone) \cup new /\ gone \cap heap \subseteq Elems(queue[m])
          /\ Elems(q) = (Elems(queue[m]) \ gone) \cup new
          /\ \A x \in new : object'[x].mode = m
      BY <1>2, <1>7, <1>8, <3>1
    <3>3. \A x \in heap : object'[x] = object[x]
      BY <1>2
    <3> HIDE DEF gone, new
    <3>4. QED
      BY <1>1, <1>3, <1>4, <1>7, <3>2, <3>3, OwnedStill
  <2>3. QED
    BY <2>1, <2>2
<1>11. OneEnd'
  BY <1>1, <1>2, <1>4 DEF OneEnd
<1>12. /\ at'[c] = "idle"
       /\ \A k \in Callers : k # c => at'[k] = at[k] /\ hand'[k] = hand[k]
  BY <1>1, <1>2 DEF MiddlewareOK
<1>13. HandsFull'
  BY <1>1, <1>2, <1>12 DEF HandsFull
<1>14. MusicEnds' = MusicEnds /\ Elems(player["music"])' = Elems(player["music"])
  BY <1>2 DEF MusicEnds, Elems
<1>15. MadeFirst'
  BY <1>1, <1>2, <1>14 DEF MadeFirst
<1>16. PlayedInTurn'
  <2>1. at'[list] = "start" => at[list] = "start" /\ hand'[list] = hand[list]
    BY <1>12
  <2>2. player' = player
    BY <1>2
  <2>3. QED
    BY <1>1, <1>14, <2>1, <2>2 DEF PlayedInTurn
<1>17. QED
  BY <1>9, <1>10, <1>11, <1>13, <1>15, <1>16 DEF PlayerInv

-----------------------------------------------------------------------------
(* The player and its list: the statuses                                    *)

\* Plays that end or are stopped: what is played gets less, and a status of music is about
\* music that is not played any more.
PlayerShrinks ==
  /\ player' \in [Modes -> Seq(Objects)]
  /\ play_status_queue' \in Seq(Reports) /\ Len(play_status_queue') <= QueueSize
  /\ lost' \in BOOLEAN
  /\ Elems(player'["music"]) \subseteq Elems(player["music"]) /\ Len(player'["music"]) <= 1
  /\ \A r \in Elems(play_status_queue') :
       \/ r \in Elems(play_status_queue)
       \/ r.mode # "music"
       \/ r.of \in Elems(player["music"]) /\ r.of \notin Elems(player'["music"])

\* A status is put in the queue if there is room.
LEMMA ReportFacts ==
  ASSUME MiddlewareOK, NEW m \in Modes, NEW s \in Ends, player[m] # << >>, Report(m, s)
  PROVE  /\ play_status_queue' \in Seq(Reports) /\ Len(play_status_queue') <= QueueSize
         /\ lost' \in BOOLEAN
         /\ \A r \in Elems(play_status_queue') :
              r \in Elems(play_status_queue) \/ (r.mode = m /\ r.of = player[m][1])
<1> DEFINE r == [mode |-> m, status |-> s, of |-> Head(player[m])]
           q == play_status_queue
<1>1. player[m] \in Seq(Objects) /\ q \in Seq(Reports) /\ Len(q) <= QueueSize /\ lost \in BOOLEAN
  BY DEF MiddlewareOK
<1>2. Head(player[m]) = player[m][1] /\ Head(player[m]) \in Objects
  BY <1>1
<1>3. r \in Reports /\ r.mode = m /\ r.of = player[m][1]
  BY <1>2 DEF Reports
<1>4. IF Len(q) < QueueSize
      THEN play_status_queue' = Append(q, r) /\ UNCHANGED lost
      ELSE lost' = TRUE /\ UNCHANGED play_status_queue
  BY DEF Report
<1> HIDE DEF r
<1>5. CASE Len(q) < QueueSize
  <2>1. play_status_queue' = Append(q, r) /\ lost' = lost
    BY <1>4, <1>5
  <2>2. /\ Append(q, r) \in Seq(Reports) /\ Elems(Append(q, r)) = Elems(q) \cup {r}
    BY <1>1, <1>3, AppendFacts
  <2>3. Len(Append(q, r)) = Len(q) + 1 /\ Len(q) \in Nat
    BY <1>1, <1>3
  <2>4. QED
    BY <1>1, <1>3, <1>5, <2>1, <2>2, <2>3
<1>6. CASE ~(Len(q) < QueueSize)
  BY <1>1, <1>4, <1>6
<1>7. QED
  BY <1>5, <1>6

\* Music is one thing at a time: when it ends, nothing is played.
LEMMA EmptiedShrinks ==
  ASSUME PlayerInv, NEW m \in Modes, NEW s \in Ends, player[m] # << >>, Report(m, s),
         NEW q \in {<< >>, Tail(player[m])}, player' = [player EXCEPT ![m] = q]
  PROVE  PlayerShrinks
<1>1. MiddlewareOK /\ Len(player["music"]) <= 1
  BY DEF PlayerInv, PlayedInTurn
<1>2. player[m] \in Seq(Objects) /\ q \in Seq(Objects) /\ Len(player[m]) \in Nat \ {0}
  <2>1. player[m] \in Seq(Objects)
    BY <1>1 DEF MiddlewareOK
  <2>2. Tail(player[m]) \in Seq(Objects) /\ Len(player[m]) \in Nat \ {0}
    BY <2>1
  <2>3. << >> \in Seq(Objects)
    OBVIOUS
  <2>4. QED
    BY <2>1, <2>2, <2>3
<1>3. player' \in [Modes -> Seq(Objects)]
  BY <1>1, <1>2 DEF MiddlewareOK
<1>4. /\ play_status_queue' \in Seq(Reports) /\ Len(play_status_queue') <= QueueSize
      /\ lost' \in BOOLEAN
      /\ \A r \in Elems(play_status_queue') :
           r \in Elems(play_status_queue) \/ (r.mode = m /\ r.of = player[m][1])
  BY <1>1, ReportFacts
<1>5. CASE m = "music"
  <2>1. Len(player[m]) = 1 /\ player[m][1] \in Elems(player[m])
    <3>1. Len(player[m]) <= 1
      BY <1>1, <1>5
    <3> DEFINE n == Len(player[m])
    <3>2. n = 1
      <4>1. n \in Nat \ {0} /\ n <= 1
        BY <1>2, <3>1
      <4> HIDE DEF n
      <4>2. QED
        BY <4>1
    <3>3. QED
      BY <3>2 DEF Elems
  <2>2. Len(q) = 0
    <3>1. Len(Tail(player[m])) = 0
      BY <1>2, <2>1
    <3>2. CASE q = << >>
      <4>1. Len(<< >>) = 0
        OBVIOUS
      <4>2. QED
        BY <3>2, <4>1
    <3>3. CASE q = Tail(player[m])
      BY <3>1, <3>3
    <3>4. QED
      BY <3>2, <3>3
  <2>3. player'["music"] = q /\ Elems(q) = {}
    BY <1>1, <1>5, <2>2 DEF MiddlewareOK, Elems, Modes
  <2>4. QED
    BY <1>3, <1>4, <1>5, <2>1, <2>2, <2>3 DEF PlayerShrinks
<1>6. CASE m # "music"
  <2>1. player'["music"] = player["music"]
    BY <1>1, <1>6 DEF MiddlewareOK, Modes
  <2>2. QED
    BY <1>1, <1>3, <1>4, <1>6, <2>1 DEF PlayerShrinks
<1>7. QED
  BY <1>5, <1>6

\* Nothing that is played or on its way changes.
LEMMA SameShrinks ==
  ASSUME PlayerInv, UNCHANGED <<player, play_status_queue, lost>>
  PROVE  PlayerShrinks
<1>1. MiddlewareOK /\ Len(player["music"]) <= 1
  BY DEF PlayerInv, PlayedInTurn
<1>2. QED
  BY <1>1 DEF PlayerShrinks, MiddlewareOK

LEMMA StopShrinks ==
  ASSUME PlayerInv, NEW m \in Modes, StopPlayer(m)
  PROVE  PlayerShrinks
<1>1. CASE player[m] = << >>
  BY <1>1, SameShrinks DEF StopPlayer
<1>2. CASE player[m] # << >>
  <2> DEFINE q == << >>
             s == "STOP"
  <2>1. q \in {<< >>, Tail(player[m])} /\ player' = [player EXCEPT ![m] = q] /\ Report(m, s)
    BY <1>2 DEF StopPlayer
  <2>2. s \in Ends
    BY DEF Ends
  <2> HIDE DEF q, s
  <2>3. QED
    BY <1>2, <2>1, <2>2, EmptiedShrinks
<1>3. QED
  BY <1>1, <1>2

\* A step of the player or of its task: what is played gets less, the status the task has
\* was in the queue, and the objects that were told something were in theirs.
LEMMA ShrunkInv ==
  ASSUME PlayerInv, PlayerShrinks, UNCHANGED <<callVars, refused, broken>>,
         player_status' \in Reports \cup {Null},
         player_status' # Null =>
           player_status' = player_status \/ player_status' \in Elems(play_status_queue),
         queue' \in [Modes -> Seq(Objects)], heard' \in [Objects -> Seq(Ends)], heap' \subseteq heap,
         \A o \in Objects : o > Len(object) => heard'[o] = heard[o],
         ObjectOwnership', OneEnd'
  PROVE  PlayerInv'
<1>1. MiddlewareOK /\ HandsFull /\ MadeFirst /\ PlayedInTurn
  BY DEF PlayerInv
<1>2. MiddlewareOK'
  BY <1>1 DEF MiddlewareOK, PlayerShrinks
<1>3. HandsFull'
  BY <1>1 DEF HandsFull
<1>4. Elems(player["music"])' = Elems(player'["music"])
  BY DEF Elems
<1>5. \A r \in MusicEnds' :
        r \in MusicEnds \/ (r.of \in Elems(player["music"]) /\ r.of \notin Elems(player'["music"]))
  <2>1. TAKE r \in MusicEnds'
  <2>2. /\ r.mode = "music"
        /\ r \in Elems(play_status_queue') \/ (r = player_status' /\ player_status' # Null)
    BY DEF MusicEnds, Elems
  <2>3. CASE r \in Elems(play_status_queue')
    BY <2>2, <2>3 DEF MusicEnds, PlayerShrinks
  <2>4. CASE r = player_status' /\ player_status' # Null
    BY <2>2, <2>4 DEF MusicEnds
  <2>5. QED
    BY <2>2, <2>3, <2>4
<1>6. MadeFirst'
  <2>1. Elems(player["music"])' \subseteq 1..Len(object')
    BY <1>1, <1>4 DEF MadeFirst, PlayerShrinks
  <2>2. \A r \in MusicEnds' : r.of \in 1..Len(object')
    BY <1>1, <1>5 DEF MadeFirst
  <2>3. /\ \A o \in Objects : o > Len(object') => heard'[o] = << >>
        /\ \A o \in 1..Len(object') : object'[o].mode = "music" => object'[o].url \in Urls
    BY <1>1 DEF MadeFirst
  <2>4. QED
    BY <2>1, <2>2, <2>3 DEF MadeFirst
<1>7. PlayedInTurn'
  <2>1. Len(player'["music"]) <= 1 /\ Elems(player'["music"]) \subseteq Elems(player["music"])
    BY DEF PlayerShrinks
  <2>2. \A r \in MusicEnds' : r.of \notin Elems(player'["music"])
    BY <1>1, <1>5, <2>1 DEF PlayedInTurn
  <2>3. at[list] = "start" => /\ hand[list] \notin Elems(player'["music"])
                              /\ \A r \in MusicEnds' : r.of # hand[list]
    BY <1>1, <1>5, <2>1 DEF PlayedInTurn
  <2>4. QED
    BY <1>4, <2>1, <2>2, <2>3 DEF PlayedInTurn
<1>8. QED
  BY <1>2, <1>3, <1>6, <1>7 DEF PlayerInv

LEMMA QuietInv ==
  ASSUME PlayerInv, PlayerShrinks, UNCHANGED <<callVars, objectVars, refused, broken>>,
         player_status' \in Reports \cup {Null},
         player_status' # Null =>
           player_status' = player_status \/ player_status' \in Elems(play_status_queue)
  PROVE  PlayerInv'
<1>1. ObjectOwnership' /\ OneEnd'
  BY DEF PlayerInv, ObjectOwnership, OneEnd, Elems, NoRepeat
<1>2. /\ queue' \in [Modes -> Seq(Objects)] /\ heard' \in [Objects -> Seq(Ends)] /\ heap' \subseteq heap
      /\ \A o \in Objects : o > Len(object) => heard'[o] = heard[o]
  BY DEF PlayerInv, MiddlewareOK
<1>3. QED
  BY <1>1, <1>2, ShrunkInv

LEMMA PlayEndsShrinks ==
  ASSUME PlayerInv, NEW m \in Modes, NEW s \in {"FINISHED", "ERROR"}, PlayEnds(m, s)
  PROVE  PlayerShrinks
<1> DEFINE q == Tail(player[m])
<1>1. /\ q \in {<< >>, Tail(player[m])} /\ player' = [player EXCEPT ![m] = q] /\ Report(m, s)
      /\ player[m] # << >>
  BY DEF PlayEnds
<1>2. s \in Ends
  BY DEF Ends
<1> HIDE DEF q
<1>3. QED
  BY <1>1, <1>2, EmptiedShrinks

LEMMA PlayEndsInv ==
  ASSUME PlayerInv, NEW m \in Modes, NEW s \in {"FINISHED", "ERROR"}, PlayEnds(m, s)
  PROVE  PlayerInv'
<1>1. /\ UNCHANGED <<callVars, objectVars, refused, broken>> /\ player_status' = player_status
      /\ player_status \in Reports \cup {Null}
  BY DEF PlayEnds, PlayerInv, MiddlewareOK
<1>2. QED
  BY <1>1, PlayEndsShrinks, QuietInv

LEMMA StopInv ==
  ASSUME PlayerInv, NEW m \in Modes, Stop(m)
  PROVE  PlayerInv' /\ PlayerShrinks
<1>1. /\ UNCHANGED <<callVars, objectVars, refused, broken>> /\ player_status' = player_status
      /\ player_status \in Reports \cup {Null} /\ StopPlayer(m)
  BY DEF Stop, PlayerInv, MiddlewareOK
<1>2. PlayerShrinks
  BY <1>1, StopShrinks
<1>3. QED
  BY <1>1, <1>2, QuietInv

LEMMA TakeStatusInv ==
  ASSUME PlayerInv, TakeStatus
  PROVE  PlayerInv' /\ PlayerShrinks
<1> DEFINE q == play_status_queue
<1>1. /\ q # << >> /\ player_status' = Head(q) /\ play_status_queue' = Tail(q)
      /\ UNCHANGED <<callVars, objectVars, player, lossVars>>
  BY DEF TakeStatus
<1>2. q \in Seq(Reports) /\ Len(q) <= QueueSize
  BY DEF PlayerInv, MiddlewareOK
<1> HIDE DEF q
<1>3. /\ Tail(q) \in Seq(Reports) /\ Len(Tail(q)) = Len(q) - 1
      /\ Head(q) \in Reports /\ Head(q) \in Elems(q)
      /\ Elems(q) = Elems(Tail(q)) \cup {Head(q)} /\ Len(q) \in Nat
  BY <1>1, <1>2, TailPlaces
<1>4. PlayerShrinks
  <2>1. player \in [Modes -> Seq(Objects)] /\ lost \in BOOLEAN /\ Len(player["music"]) <= 1
    BY DEF PlayerInv, MiddlewareOK, PlayedInTurn
  <2>2. QED
    BY <1>1, <1>2, <1>3, <2>1 DEF PlayerShrinks, q
<1>5. QED
  BY <1>1, <1>3, <1>4, QuietInv DEF q

\* What Notify does to the queue the status is about: the head, if there is one, is told and
\* freed.
LEMMA NotifyDoes ==
  ASSUME PlayerInv, Notify
  PROVE  /\ player_status \in Reports /\ player_status # Null
         /\ player_status.mode \in Modes /\ player_status.status \in Ends
         /\ \/ UNCHANGED objectVars
            \/ /\ queue[player_status.mode] # << >>
               /\ heard' = [heard EXCEPT ![Head(queue[player_status.mode])] = Append(@, player_status.status)]
               /\ queue' = [queue EXCEPT ![player_status.mode] = Tail(@)]
               /\ heap' = heap \ {Head(queue[player_status.mode])}
         /\ PlayerShrinks
         /\ player_status' = Null /\ UNCHANGED <<callVars, refused, broken>>
<1>1. player_status # Null /\ player_status \in Reports
  BY DEF Notify, PlayerInv, MiddlewareOK
<1>2. player_status.mode \in Modes /\ player_status.status \in Ends
  BY <1>1 DEF Reports
<1>3. PlayerShrinks
  <2>1. CASE player_status.status = "ERROR"
    BY <1>2, <2>1, StopShrinks DEF Notify
  <2>2. CASE player_status.status # "ERROR"
    BY <2>2, SameShrinks DEF Notify
  <2>3. QED
    BY <2>1, <2>2
<1>4. QED
  BY <1>1, <1>2, <1>3 DEF Notify

LEMMA NotifyInv ==
  ASSUME PlayerInv, ~broken, Notify
  PROVE  PlayerInv'
<1> DEFINE m == player_status.mode
           s == player_status.status
           o == Head(queue[m])
<1>1. /\ m \in Modes /\ s \in Ends /\ PlayerShrinks
      /\ player_status' = Null /\ UNCHANGED <<callVars, refused, broken>>
      /\ \/ UNCHANGED objectVars
         \/ /\ queue[m] # << >>
            /\ heard' = [heard EXCEPT ![o] = Append(@, s)]
            /\ queue' = [queue EXCEPT ![m] = Tail(@)]
            /\ heap' = heap \ {o}
  BY NotifyDoes
<1> HIDE DEF m, s
<1>2. CASE UNCHANGED objectVars
  BY <1>1, <1>2, QuietInv
<1>3. CASE /\ queue[m] # << >>
           /\ heard' = [heard EXCEPT ![o] = Append(@, s)]
           /\ queue' = [queue EXCEPT ![m] = Tail(@)]
           /\ heap' = heap \ {o}
  <2> DEFINE q == Tail(queue[m])
  <2>1. MiddlewareOK /\ ObjectOwnership /\ OneEnd
    BY DEF PlayerInv
  <2>2. /\ o \in Elems(queue[m]) /\ q \in Seq(Objects)
        /\ Elems(q) = Elems(queue[m]) \ {o} /\ NoRepeat(q)
    BY <1>1, <1>3, <2>1, HeadOfQueue
  <2>3. queue' = [queue EXCEPT ![m] = q]
    BY <1>3
  <2> HIDE DEF o, q
  <2>4. /\ o \in heap /\ o \in 1..Len(object) /\ o \in Objects /\ object[o].mode = m
        /\ heard' \in [Objects -> Seq(Ends)]
        /\ heard'[o] = <<s>> /\ \A x \in Objects : x # o => heard'[x] = heard[x]
    BY <1>1, <1>3, <2>2, ToldOnce
  <2>5. queue' \in [Modes -> Seq(Objects)] /\ heap' \subseteq heap
    BY <1>1, <1>3, <2>1, <2>2, <2>3 DEF MiddlewareOK
  <2>6. \A x \in Objects : x > Len(object) => heard'[x] = heard[x]
    BY <2>4
  <2>7. ObjectOwnership'
    <3> DEFINE gone == {o}
               new == {}
    <3>1. /\ heap' = (heap \ gone) \cup new /\ gone \cap heap \subseteq Elems(queue[m])
          /\ Elems(q) = (Elems(queue[m]) \ gone) \cup new
          /\ \A x \in new : object'[x].mode = m
      BY <1>3, <2>2
    <3>2. \A x \in heap : object'[x] = object[x]
      BY <1>1
    <3> HIDE DEF gone, new
    <3>3. QED
      BY <1>1, <2>1, <2>2, <2>3, <3>1, <3>2, OwnedStill
  <2>8. OneEnd'
    <3>1. object' = object /\ refused' = refused /\ 1..Len(object) \subseteq Objects
      <4>1. Len(object) \in Nat /\ Len(object) <= MaxPlays
        BY <2>1 DEF MiddlewareOK
      <4>2. QED
        BY <1>1, <4>1 DEF Objects
    <3>2. DOMAIN object = 1..Len(object)
      BY <2>1 DEF MiddlewareOK
    <3>3. ASSUME NEW x \in 1..Len(object)
          PROVE  /\ Len(heard'[x]) <= 1
                 /\ x \in heap' => heard'[x] = << >>
                 /\ x \notin heap' /\ x \notin refused => heard'[x] # << >>
      <4>1. CASE x = o
        BY <1>3, <2>4, <4>1, SMTT(30)
      <4>2. CASE x # o
        BY <1>3, <2>1, <2>4, <3>1, <3>2, <4>2 DEF OneEnd
      <4>3. QED
        BY <4>1, <4>2
    <3>4. QED
      BY <3>1, <3>2, <3>3 DEF OneEnd
  <2>9. QED
    BY <1>1, <2>4, <2>5, <2>6, <2>7, <2>8, ShrunkInv
<1>4. QED
  BY <1>1, <1>2, <1>3

-----------------------------------------------------------------------------
(* The player and its list: the events                                      *)

\* Nobody is told anything, and nothing is posted.
LEMMA NothingPosted ==
  ASSUME heard' = heard, NEW q, Post(q)
  PROVE  inbox' = q /\ dropped' = dropped
<1>1. Called = {}
  BY DEF Called
<1>2. audio_event_notify_cb(q) = q
  BY <1>1 DEF audio_event_notify_cb
<1>3. QED
  BY <1>1, <1>2 DEF Post

\* Object h is told its end; if it is music, the event is posted, unless the bus drops it.
LEMMA OnePosted ==
  ASSUME PlayerInv, ~broken, NEW m \in Modes, NEW h \in Elems(queue[m]), NEW s \in Ends,
         heard' = [heard EXCEPT ![h] = Append(@, s)],
         NEW q \in Seq(Messages), Post(q)
  PROVE  /\ inbox' \in Seq(Messages) /\ dropped' \in {dropped, TRUE}
         /\ \A e \in Elems(inbox') :
              e \in Elems(q) \/ (m = "music" /\ e.event = "PLAY_STATUS" /\ e.of = h)
<1>1. /\ h \in heap /\ h \in 1..Len(object) /\ h \in Objects /\ object[h].mode = m
      /\ heard'[h] = <<s>> /\ \A o \in Objects : o # h => heard'[o] = heard[o]
  BY ToldOnce
<1>2. heard[h] = << >>
  BY <1>1 DEF PlayerInv, OneEnd, MiddlewareOK
<1>3. Called = {h}
  <2>1. heard'[h] # heard[h]
    <3>1. <<s>> # << >>
      OBVIOUS
    <3>2. heard'[h] = <<s>>
      BY <1>1
    <3>3. QED
      BY <1>2, <3>1, <3>2
  <2>2. QED
    BY <1>1, <2>1 DEF Called
<1> DEFINE music == {o \in Called : object[o].mode = "music"}
<1>4. CASE m = "music"
  <2>1. music = {h} /\ (CHOOSE o \in music : TRUE) = h
    BY <1>1, <1>3, <1>4
  <2> DEFINE e == EventOf(h)
  <2>2. audio_event_notify_cb(q) = Append(q, e)
    BY <2>1 DEF audio_event_notify_cb
  <2>3. e \in Messages /\ e.event = "PLAY_STATUS" /\ e.of = h
    <3>1. heard'[h][Len(heard'[h])] = s
      <4>1. heard'[h] = <<s>>
        BY <1>1
      <4>2. <<s>>[Len(<<s>>)] = s
        OBVIOUS
      <4>3. QED
        BY <4>1, <4>2
    <3>2. object[h].url \in Urls
      BY <1>1, <1>4 DEF PlayerInv, MadeFirst
    <3>3. e = [event |-> "PLAY_STATUS", url |-> object[h].url, status |-> s, of |-> h]
      BY <3>1 DEF EventOf
    <3>4. QED
      BY <1>1, <3>2, <3>3 DEF Messages, Events
  <2> HIDE DEF e
  <2>4. Append(q, e) \in Seq(Messages) /\ Elems(Append(q, e)) = Elems(q) \cup {e}
    BY <2>3, AppendFacts
  <2>5. inbox' \in {q, Append(q, e)} /\ dropped' \in {dropped, TRUE}
    BY <2>2 DEF Post
  <2>6. QED
    BY <1>4, <2>3, <2>4, <2>5
<1>5. CASE m # "music"
  <2>1. music = {}
    BY <1>1, <1>3, <1>5
  <2>2. audio_event_notify_cb(q) = q
    BY <2>1 DEF audio_event_notify_cb
  <2>3. inbox' = q /\ dropped' \in {dropped, TRUE}
    BY <2>2 DEF Post
  <2>4. QED
    BY <2>3
<1>6. QED
  BY <1>4, <1>5

\* The observer of crossed ends remembers.
LEMMA CrossedStays ==
  ASSUME crossed \in BOOLEAN, Observe
  PROVE  /\ crossed' \in BOOLEAN
         /\ ~crossed' => ~crossed /\ ~EndOfAnother' /\ ~EndOfNamesake'
<1>1. crossed' \in BOOLEAN
  <2>1. (crossed \/ EndOfAnother' \/ EndOfNamesake') \in BOOLEAN
    OBVIOUS
  <2>2. QED
    BY <2>1 DEF Observe
<1>2. crossed' = (crossed \/ EndOfAnother' \/ EndOfNamesake')
  BY DEF Observe
<1>3. QED
  BY <1>1, <1>2, Zenon

\* What may be said of a step for its events to stay the ends of what is over: it leaves the
\* list's last play alone, or begins another that nothing was said of yet.
LEMMA EventsStill ==
  ASSUME PlayInv, Observe, Len(object) <= Len(object'), Len(object') \in Nat,
         at'[list] = "start" => hand'[list] = cur_obj',
         \A e \in Elems(inbox') :
           \/ e \in Elems(inbox)
           \/ e.event # "PLAY_STATUS"
           \/ /\ e.of \in 1..Len(object')
              /\ ~crossed /\ e.of = cur_obj' =>
                   cur_obj' \notin Elems(player'["music"]) /\ at'[list] # "start",
         \/ /\ cur_obj' = cur_obj /\ Elems(player'["music"]) \subseteq Elems(player["music"])
            /\ at'[list] = "start" => at[list] = "start"
         \/ cur_obj' > Len(object)
         \/ at[list] = "start" /\ cur_obj' = cur_obj
  PROVE  EndsAfterPlay' /\ crossed' \in BOOLEAN
<1>1. EndsAfterPlay /\ crossed \in BOOLEAN /\ Len(object) \in Nat /\ cur_obj \in 0..Len(object)
  BY DEF PlayInv, PlayerInv, ListOK, MiddlewareOK
<1>2. crossed' \in BOOLEAN /\ (~crossed' => ~crossed /\ ~EndOfAnother' /\ ~EndOfNamesake')
  BY <1>1, CrossedStays
<1>3. Elems(player["music"])' = Elems(player'["music"]) /\ Elems(inbox)' = Elems(inbox')
  BY DEF Elems
<1>4. 1..Len(object) \subseteq 1..Len(object')
  BY <1>1
<1>5. \A e \in Elems(inbox') : e.event = "PLAY_STATUS" => e.of \in 1..Len(object')
  BY <1>1, <1>4 DEF EndsAfterPlay
<1>6. ASSUME ~crossed', NEW e \in Elems(inbox'), e.event = "PLAY_STATUS", e.of = cur_obj'
      PROVE  cur_obj' \notin Elems(player'["music"]) /\ at'[list] # "start"
  <2>1. ~crossed
    BY <1>2, <1>6
  <2>2. CASE e \in Elems(inbox)
    <3>1. e.of \in 1..Len(object)
      BY <1>1, <1>6, <2>2 DEF EndsAfterPlay
    <3>2. e.of = cur_obj => cur_obj \notin Elems(player["music"]) /\ at[list] # "start"
      BY <1>1, <1>6, <2>1, <2>2 DEF EndsAfterPlay
    <3>3. ~(cur_obj' > Len(object))
      BY <1>1, <1>6, <3>1
    <3>4. QED
      BY <1>6, <3>2, <3>3
  <2>3. CASE e \notin Elems(inbox)
    BY <1>6, <2>1, <2>3
  <2>4. QED
    BY <2>2, <2>3
<1>7. QED
  BY <1>2, <1>3, <1>5, <1>6 DEF EndsAfterPlay

-----------------------------------------------------------------------------
(* The player and its list: the list's task                                 *)

\* Every mode leads to an item of the list, or to none.
LEMMA TargetType ==
  ASSUME NEW l \in Lists, NEW event \in {"REQUEST", "PREV", "NEXT", "STOP"},
         event = "REQUEST" \/ cur_item \in 1..Len(l.items), ~Idle(event, l)
  PROVE  Target(event, l) \in 0..Len(l.items)
<1> DEFINE n == Len(l.items)
           again == event = "STOP" /\ l.mode = "SINGLE_LOOP"
           onward == event \in {"NEXT", "STOP"} /\ ~again
<1>1. /\ l.items \in Seq(Urls) /\ l.mode \in PlayModes
  BY DEF PlayLists
<1>2. n \in Nat
  BY <1>1
<1>3. CASE event = "REQUEST"
  <2>1. Target(event, l) = IF n > 0 THEN 1 ELSE 0
    BY <1>3 DEF Target
  <2>2. QED
    BY <1>2, <2>1
<1>4. CASE event = "PREV"
  <2>1. cur_item \in 1..n /\ cur_item \in Nat
    BY <1>2, <1>4
  <2>2. CASE cur_item > 1
    <3>1. Target(event, l) = cur_item - 1
      BY <1>4, <2>2 DEF Target
    <3>2. QED
      BY <1>2, <2>1, <2>2, <3>1
  <2>3. CASE cur_item = 1
    <3>1. Target(event, l) \in {n, 0, 1}
      BY <1>4, <2>3 DEF Target
    <3>2. QED
      BY <1>2, <2>1, <2>3, <3>1
  <2>4. QED
    BY <2>1, <2>2, <2>3
<1>5. CASE event \in {"NEXT", "STOP"}
  <2>1. cur_item \in 1..n /\ cur_item \in Nat
    BY <1>2, <1>5
  <2>2. CASE again
    <3>1. Target(event, l) = cur_item
      BY <2>2 DEF Target
    <3>2. QED
      BY <1>2, <2>1, <3>1
  <2>3. CASE onward /\ cur_item < n
    <3>1. Target(event, l) = cur_item + 1
      BY <1>5, <2>3 DEF Target
    <3>2. QED
      BY <1>2, <2>1, <2>3, <3>1
  <2>4. CASE onward /\ cur_item = n
    <3>1. CASE l.mode = "ALL_LOOP"
      <4>1. Target(event, l) = 1
        BY <1>5, <2>4, <3>1 DEF Target
      <4>2. QED
        BY <1>2, <2>1, <4>1
    <3>2. CASE l.mode # "ALL_LOOP" /\ event = "NEXT"
      <4>1. Target(event, l) \in {0, n}
        BY <2>4, <3>2 DEF Target
      <4>2. QED
        BY <1>2, <4>1
    <3>3. CASE l.mode # "ALL_LOOP" /\ event = "STOP"
      <4>1. l.mode = "ALL"
        BY <1>1, <2>4, <3>3 DEF Idle, PlayModes
      <4>2. Target(event, l) = 0
        BY <2>4, <3>3, <4>1 DEF Target
      <4>3. QED
        BY <1>2, <4>2
    <3>4. QED
      BY <1>5, <3>1, <3>2, <3>3
  <2>5. cur_item < n \/ cur_item = n
    BY <1>2, <2>1
  <2>6. QED
    BY <1>5, <2>2, <2>3, <2>4, <2>5
<1>6. QED
  BY <1>3, <1>4, <1>5

\* What a step of the list's task may do with the player: nothing, fail to get the memory, or
\* play music at once.
ListPlays ==
  \/ UNCHANGED <<cur_obj, middlewareVars>>
  \/ NoMemory(list) /\ UNCHANGED cur_obj
  \/ \E u \in Urls : Enqueue(list, "music", u, TRUE) /\ cur_obj' = Len(object')

LEMMA ProcessDoes ==
  ASSUME NEW l \in Lists, NEW event \in {"REQUEST", "PREV", "NEXT", "STOP"},
         cur_item \in 0..Len(l.items) \/ event = "REQUEST",
         playlist_process(event, l)
  PROVE  /\ ListPlays
         /\ cur_item' \in 0..Len(l.items) \/ (event # "REQUEST" /\ cur_item' = cur_item)
<1>1. l.items \in Seq(Urls) /\ Len(l.items) \in Nat
  BY DEF PlayLists
<1>2. CASE Idle(event, l)
  <2>1. UNCHANGED <<cur_item, cur_obj, middlewareVars>> /\ event # "REQUEST"
    BY <1>2 DEF playlist_process, Idle
  <2>2. QED
    BY <2>1 DEF ListPlays
<1>3. CASE ~Idle(event, l)
  <2>1. /\ cur_item' = Target(event, l)
        /\ IF cur_item' = 0 THEN UNCHANGED <<cur_obj, middlewareVars>>
                            ELSE playlist_play_item(l, cur_item')
    BY <1>3 DEF playlist_process
  <2>2. event = "REQUEST" \/ cur_item \in 1..Len(l.items)
    BY <1>1, <1>3 DEF Idle
  <2>3. cur_item' \in 0..Len(l.items)
    BY <1>3, <2>1, <2>2, TargetType
  <2>4. CASE cur_item' = 0
    BY <2>1, <2>3, <2>4 DEF ListPlays
  <2>5. CASE cur_item' # 0
    <3> DEFINE u == l.items[cur_item']
    <3>1. u \in Urls
      BY <1>1, <2>3, <2>5
    <3>2. \/ Enqueue(list, "music", u, TRUE) /\ cur_obj' = Len(object')
          \/ NoMemory(list) /\ UNCHANGED cur_obj
      BY <2>1, <2>5 DEF playlist_play_item
    <3> HIDE DEF u
    <3>3. QED
      BY <2>3, <3>1, <3>2 DEF ListPlays
  <2>6. QED
    BY <2>4, <2>5
<1>4. QED
  BY <1>2, <1>3

\* A message is taken and handled, and an object that is evicted by it posts its event.
LEMMA ListStep ==
  ASSUME PlayInv, ~broken, Observe, inbox # << >>, ListPlays, Post(Tail(inbox)),
         playlist' \in Lists \cup {Null},
         cur_item' \in 0..(IF playlist' = Null THEN 0 ELSE Len(playlist'.items)),
         UNCHANGED inputs
  PROVE  PlayInv'
<1>1. PlayerInv /\ ListOK /\ EndsAfterPlay
  BY DEF PlayInv
<1> DEFINE q == Tail(inbox)
<1>2. q \in Seq(Messages) /\ Elems(q) \subseteq Elems(inbox)
  <2>1. inbox \in Seq(Messages)
    BY <1>1 DEF ListOK
  <2>2. Tail(inbox) \in Seq(Messages) /\ Elems(inbox) = Elems(Tail(inbox)) \cup {Head(inbox)}
    BY <2>1, TailPlaces
  <2>3. QED
    BY <2>2
<1>3. Post(q)
  OBVIOUS
<1> HIDE DEF q
<1>4. Len(object) \in Nat /\ cur_obj \in 0..Len(object) /\ dropped \in BOOLEAN
  BY <1>1 DEF PlayerInv, MiddlewareOK, ListOK
<1>5. CASE ~ \E u \in Urls : Enqueue(list, "music", u, TRUE) /\ cur_obj' = Len(object')
  <2>1. /\ cur_obj' = cur_obj
        /\ UNCHANGED <<object, at, hand, player, heard>>
    BY <1>5 DEF ListPlays, NoMemory
  <2>2. PlayerInv'
    <3>1. CASE UNCHANGED middlewareVars
      <4>1. /\ MiddlewareOK' /\ ObjectOwnership' /\ OneEnd'
        <5>1. MiddlewareOK /\ ObjectOwnership /\ OneEnd
          BY <1>1 DEF PlayerInv
        <5>2. MiddlewareOK'
          BY <3>1, <5>1 DEF MiddlewareOK
        <5>3. ObjectOwnership' /\ OneEnd'
          BY <3>1, <5>1 DEF ObjectOwnership, OneEnd, Elems, NoRepeat
        <5>4. QED
          BY <5>2, <5>3
      <4>2. HandsFull' /\ MadeFirst' /\ PlayedInTurn'
        BY <1>1, <3>1 DEF PlayerInv, HandsFull, MadeFirst, PlayedInTurn, MusicEnds, Elems
      <4>3. QED
        BY <4>1, <4>2 DEF PlayerInv
    <3>2. CASE NoMemory(list)
      BY <1>1, <3>2, NoMemoryInv
    <3>3. QED
      BY <1>5, <3>1, <3>2 DEF ListPlays
  <2>3. inbox' = q /\ dropped' = dropped
    BY <1>3, <2>1, NothingPosted
  <2>4. EndsAfterPlay' /\ crossed' \in BOOLEAN
    <3>1. at'[list] = "start" => hand'[list] = cur_obj'
      BY <1>1, <2>1 DEF EndsAfterPlay
    <3>2. \A e \in Elems(inbox') : e \in Elems(inbox)
      BY <1>2, <2>3
    <3>3. /\ cur_obj' = cur_obj /\ Elems(player'["music"]) \subseteq Elems(player["music"])
          /\ at'[list] = "start" => at[list] = "start"
      BY <2>1
    <3>4. Len(object) <= Len(object') /\ Len(object') \in Nat
      BY <1>4, <2>1
    <3>5. QED
      BY <3>1, <3>2, <3>3, <3>4, EventsStill
  <2>5. ListOK'
    BY <1>1, <1>2, <1>4, <2>1, <2>3, <2>4 DEF ListOK
  <2>6. QED
    BY <2>2, <2>4, <2>5 DEF PlayInv
<1>6. ASSUME NEW u \in Urls, Enqueue(list, "music", u, TRUE), cur_obj' = Len(object')
      PROVE  PlayInv'
  <2> DEFINE m == "music"
             soon == TRUE
  <2>1. m \in Modes /\ soon \in BOOLEAN /\ Enqueue(list, m, u, soon)
    BY <1>6 DEF Modes
  <2>10. m = "music"
    OBVIOUS
  <2> HIDE DEF m, soon
  <2>2. PlayerInv'
    BY <1>1, <2>1, <2>10, EnqueueInv
  <2>3. PICK o \in Objects, r \in Seq(Objects), gone \in SUBSET Objects :
          Enqueued(list, m, u, soon, o, r, gone)
    BY <1>1, <2>1, EnqueueDoes
  <2>4. /\ o = Len(object) + 1 /\ Len(object') = o
        /\ \/ heard' = heard
           \/ \E h \in Elems(queue[m]) : heard' = [heard EXCEPT ![h] = Append(@, "STOP")]
        /\ hand' = [hand EXCEPT ![list] = o]
        /\ UNCHANGED <<playerVars, lossVars>>
    BY <2>3 DEF Enqueued
  <2>5. hand'[list] = o
    BY <1>1, <2>4 DEF PlayerInv, MiddlewareOK
  <2>6. /\ inbox' \in Seq(Messages) /\ dropped' \in BOOLEAN
        /\ \A e \in Elems(inbox') : e \in Elems(inbox) \/ e.of \in 1..Len(object)
    <3>1. CASE heard' = heard
      <4>1. inbox' = q /\ dropped' = dropped
        BY <1>3, <3>1, NothingPosted
      <4>2. QED
        BY <1>2, <1>4, <4>1
    <3>2. ASSUME NEW h \in Elems(queue[m]), heard' = [heard EXCEPT ![h] = Append(@, "STOP")]
          PROVE  /\ inbox' \in Seq(Messages) /\ dropped' \in BOOLEAN
                 /\ \A e \in Elems(inbox') : e \in Elems(inbox) \/ e.of \in 1..Len(object)
      <4> DEFINE s == "STOP"
      <4>1. s \in Ends /\ heard' = [heard EXCEPT ![h] = Append(@, s)]
        BY <3>2 DEF Ends
      <4> HIDE DEF s
      <4>2. /\ inbox' \in Seq(Messages) /\ dropped' \in {dropped, TRUE}
            /\ \A e \in Elems(inbox') :
                 e \in Elems(q) \/ (m = "music" /\ e.event = "PLAY_STATUS" /\ e.of = h)
        BY <1>1, <1>2, <1>3, <2>1, <3>2, <4>1, OnePosted, ZenonT(40)
      <4>3. h \in 1..Len(object)
        BY <1>1, <2>1, <3>2, <4>1, ToldOnce
      <4>4. QED
        BY <1>2, <1>4, <4>2, <4>3
    <3>3. QED
      BY <2>4, <3>1, <3>2
  <2>7. EndsAfterPlay' /\ crossed' \in BOOLEAN
    <3>1. at'[list] = "start" => hand'[list] = cur_obj'
      BY <1>6, <2>4, <2>5
    <3>2. Len(object) <= Len(object') /\ Len(object') \in Nat /\ cur_obj' > Len(object)
      BY <1>4, <1>6, <2>4
    <3>3. \A e \in Elems(inbox') :
            \/ e \in Elems(inbox)
            \/ e.of \in 1..Len(object') /\ e.of # cur_obj'
      BY <1>4, <1>6, <2>4, <2>6
    <3>4. QED
      BY <3>1, <3>2, <3>3, EventsStill
  <2>8. ListOK'
    <3>1. cur_obj' \in 0..Len(object')
      BY <1>4, <1>6, <2>4
    <3>2. QED
      BY <1>1, <2>6, <2>7, <3>1 DEF ListOK
  <2>9. QED
    BY <2>2, <2>7, <2>8 DEF PlayInv
<1>7. QED
  BY <1>5, <1>6

\* The messages the list's task takes.
LEMMA ListNextInv ==
  ASSUME PlayInv, ~broken, ListNext, Observe
  PROVE  PlayInv'
<1>1. ListOK /\ PlayerInv
  BY DEF PlayInv
<1>2. UNCHANGED inputs /\ inbox # << >> /\ Head(inbox) \in Messages
  <2>1. inbox # << >> /\ UNCHANGED inputs
    BY DEF ListNext, ListRequest, Key, Clear, PlayStatus, Receiving
  <2>2. inbox \in Seq(Messages)
    BY <1>1 DEF ListOK
  <2>3. QED
    BY <2>1, <2>2
<1>3. playlist \in Lists => cur_item \in 0..Len(playlist.items)
  BY <1>1 DEF ListOK
<1>4. playlist = Null => cur_item = 0
  BY <1>1 DEF ListOK
<1>5. CASE ListRequest
  <2> DEFINE l == Head(inbox).playlist
  <2>1. l \in Lists
    BY <1>2, <1>5 DEF ListRequest, Receiving, Messages, Keys, Requests, Events
  <2>2. playlist' = l /\ playlist_process("REQUEST", l) /\ Post(Tail(inbox))
    BY <1>5 DEF ListRequest
  <2> HIDE DEF l
  <2> DEFINE event == "REQUEST"
  <2>3. event \in {"REQUEST", "PREV", "NEXT", "STOP"} /\ event = "REQUEST" /\ playlist_process(event, l)
    BY <2>2
  <2> HIDE DEF event
  <2>4. ListPlays /\ cur_item' \in 0..Len(l.items)
    BY <2>1, <2>3, ProcessDoes
  <2>5. QED
    BY <1>2, <2>1, <2>2, <2>4, ListStep
<1>6. ASSUME playlist \in Lists, NEW event \in {"PREV", "NEXT", "STOP"}, UNCHANGED playlist,
             playlist_process(event, playlist), Post(Tail(inbox))
      PROVE  PlayInv'
  <2>1. PICK l \in Lists : l = playlist
    BY <1>6
  <2>2. playlist_process(event, l) /\ cur_item \in 0..Len(l.items)
    BY <1>3, <1>6, <2>1
  <2>3. ListPlays /\ (cur_item' \in 0..Len(l.items) \/ (event # "REQUEST" /\ cur_item' = cur_item))
    BY <2>1, <2>2, ProcessDoes
  <2>4. playlist' \in Lists \cup {Null} /\ cur_item' \in 0..(IF playlist' = Null THEN 0 ELSE Len(playlist'.items))
    BY <1>6, <2>1, <2>2, <2>3
  <2>5. QED
    BY <1>2, <1>6, <2>3, <2>4, ListStep
<1>7. ASSUME UNCHANGED <<playlist, cur_item, cur_obj, middlewareVars>>, Post(Tail(inbox))
      PROVE  PlayInv'
  <2>1. ListPlays
    BY <1>7 DEF ListPlays
  <2>2. /\ playlist' \in Lists \cup {Null}
        /\ cur_item' \in 0..(IF playlist' = Null THEN 0 ELSE Len(playlist'.items))
    BY <1>1, <1>7 DEF ListOK
  <2>3. QED
    BY <1>2, <1>7, <2>1, <2>2, ListStep
<1>8. CASE Key
  <2>1. PICK k \in {"PREV", "NEXT"} :
          IF playlist = Null THEN UNCHANGED <<cur_item, cur_obj, middlewareVars>>
                             ELSE playlist_process(k, playlist)
    BY <1>8 DEF Key
  <2>2. Post(Tail(inbox)) /\ UNCHANGED playlist
    BY <1>8 DEF Key
  <2>3. CASE playlist = Null
    BY <1>7, <2>1, <2>2, <2>3
  <2>4. CASE playlist # Null
    <3>1. playlist \in Lists /\ playlist_process(k, playlist) /\ k \in {"PREV", "NEXT", "STOP"}
      BY <1>1, <2>1, <2>4 DEF ListOK
    <3>2. QED
      BY <1>6, <2>2, <3>1
  <2>5. QED
    BY <2>3, <2>4
<1>9. CASE PlayStatus
  <2>1. /\ Post(Tail(inbox)) /\ UNCHANGED playlist
        /\ \/ UNCHANGED <<cur_item, cur_obj, middlewareVars>>
           \/ cur_item # 0 /\ playlist_process("STOP", playlist)
    BY <1>9 DEF PlayStatus
  <2>2. CASE UNCHANGED <<cur_item, cur_obj, middlewareVars>>
    BY <1>7, <2>1, <2>2
  <2>3. CASE cur_item # 0 /\ playlist_process("STOP", playlist)
    <3> DEFINE event == "STOP"
    <3>1. playlist \in Lists /\ event \in {"PREV", "NEXT", "STOP"} /\ playlist_process(event, playlist)
      BY <1>1, <1>4, <2>3 DEF ListOK
    <3> HIDE DEF event
    <3>2. QED
      BY <1>6, <2>1, <3>1
  <2>4. QED
    BY <2>1, <2>2, <2>3
<1>10. CASE Clear
  <2>1. /\ playlist' = Null /\ cur_item' = 0 /\ inbox' = Tail(inbox)
        /\ UNCHANGED <<cur_obj, middlewareVars, dropped>>
    BY <1>10 DEF Clear
  <2>2. ListPlays
    BY <2>1 DEF ListPlays
  <2>3. Post(Tail(inbox))
    <3>1. Called = {}
      BY <2>1 DEF Called
    <3>2. audio_event_notify_cb(Tail(inbox)) = Tail(inbox)
      BY <3>1 DEF audio_event_notify_cb
    <3>3. QED
      BY <2>1, <3>2 DEF Post
  <2>4. QED
    BY <1>2, <2>1, <2>2, <2>3, ListStep
<1>11. QED
  BY <1>5, <1>8, <1>9, <1>10 DEF ListNext

\* A step that posts nothing and leaves the list's play alone.
LEMMA ElsewhereInv ==
  ASSUME PlayInv, PlayerInv', Observe, UNCHANGED listVars, dropped' \in BOOLEAN, inputs' \in 0..MaxInputs,
         inbox' \in Seq(Messages),
         \A e \in Elems(inbox') : e \in Elems(inbox) \/ e.event # "PLAY_STATUS",
         Len(object) <= Len(object'), Len(object') \in Nat,
         at'[list] = "start" => at[list] = "start" /\ hand'[list] = hand[list],
         Elems(player'["music"]) \subseteq Elems(player["music"]) \/ at[list] = "start"
  PROVE  PlayInv'
<1>1. ListOK /\ EndsAfterPlay
  BY DEF PlayInv
<1>2. cur_obj' = cur_obj /\ playlist' = playlist /\ cur_item' = cur_item
  BY DEF listVars
<1>3. at'[list] = "start" => hand'[list] = cur_obj'
  BY <1>1, <1>2 DEF EndsAfterPlay
<1>4. \/ /\ cur_obj' = cur_obj /\ Elems(player'["music"]) \subseteq Elems(player["music"])
         /\ at'[list] = "start" => at[list] = "start"
      \/ at[list] = "start" /\ cur_obj' = cur_obj
  BY <1>2
<1>5. EndsAfterPlay' /\ crossed' \in BOOLEAN
  BY <1>3, <1>4, EventsStill
<1>6. cur_obj \in 0..Len(object) /\ Len(object) \in Nat
  BY <1>1 DEF ListOK, PlayInv, PlayerInv, MiddlewareOK
<1>7. cur_obj' \in 0..Len(object')
  BY <1>2, <1>6
<1>8. ListOK'
  BY <1>1, <1>2, <1>5, <1>7 DEF ListOK
<1>9. QED
  BY <1>5, <1>8 DEF PlayInv

-----------------------------------------------------------------------------
(* The player and its list: the others                                      *)

\* Services that send a list or a key, stop what is played, or play a tone.
LEMMA UserNextInv ==
  ASSUME PlayInv, ~broken, UserNext, Observe
  PROVE  PlayInv'
<1>1. PlayerInv /\ ListOK
  BY DEF PlayInv
<1>2. /\ inbox \in Seq(Messages) /\ dropped \in BOOLEAN /\ inputs \in 0..MaxInputs
      /\ Len(object) \in Nat
  BY <1>1 DEF ListOK, PlayerInv, MiddlewareOK
<1>3. ASSUME NEW e \in Messages, e.event # "PLAY_STATUS", Send(e)
      PROVE  PlayInv'
  <2>1. /\ inputs < MaxInputs /\ inputs' = inputs + 1 /\ inbox' = Append(inbox, e)
        /\ UNCHANGED <<middlewareVars, listVars, dropped>>
    BY <1>3 DEF Send
  <2>2. inbox' \in Seq(Messages) /\ Elems(inbox') = Elems(inbox) \cup {e}
    BY <1>2, <1>3, <2>1, AppendFacts
  <2>3. inputs' \in 0..MaxInputs
    BY <1>2, <2>1
  <2>4. PlayerInv'
    <3>1. MiddlewareOK /\ ObjectOwnership /\ OneEnd /\ HandsFull /\ MadeFirst /\ PlayedInTurn
      BY <1>1 DEF PlayerInv
    <3>2. MiddlewareOK'
      BY <2>1, <3>1 DEF MiddlewareOK
    <3>3. ObjectOwnership' /\ OneEnd'
      BY <2>1, <3>1 DEF ObjectOwnership, OneEnd, Elems, NoRepeat
    <3>4. HandsFull' /\ MadeFirst' /\ PlayedInTurn'
      BY <2>1, <3>1 DEF HandsFull, MadeFirst, PlayedInTurn, MusicEnds, Elems
    <3>5. QED
      BY <3>2, <3>3, <3>4 DEF PlayerInv
  <2>5. /\ Len(object) <= Len(object') /\ Len(object') \in Nat
        /\ at'[list] = "start" => at[list] = "start" /\ hand'[list] = hand[list]
        /\ Elems(player'["music"]) \subseteq Elems(player["music"])
    BY <1>2, <2>1
  <2>6. \A x \in Elems(inbox') : x \in Elems(inbox) \/ x.event # "PLAY_STATUS"
    BY <1>3, <2>2
  <2>7. UNCHANGED listVars /\ dropped' \in BOOLEAN
    BY <1>2, <2>1
  <2>8. QED
    BY <2>2, <2>3, <2>4, <2>5, <2>6, <2>7, ElsewhereInv
<1>4. ASSUME NEW l \in Lists, Send([event |-> "REQUEST", playlist |-> l])
      PROVE  PlayInv'
  <2> DEFINE e == [event |-> "REQUEST", playlist |-> l]
  <2>1. e \in Messages /\ e.event # "PLAY_STATUS" /\ Send(e)
    BY <1>4 DEF Messages, Requests
  <2> HIDE DEF e
  <2>2. QED
    BY <1>3, <2>1
<1>5. ASSUME NEW k \in Keys, Send([event |-> k])
      PROVE  PlayInv'
  <2> DEFINE e == [event |-> k]
  <2>1. e \in Messages /\ e.event # "PLAY_STATUS" /\ Send(e)
    BY <1>5 DEF Messages, Keys
  <2> HIDE DEF e
  <2>2. QED
    BY <1>3, <2>1
<1>6. ASSUME NEW m \in Modes, audio_play_stop(m)
      PROVE  PlayInv'
  <2>1. /\ inputs < MaxInputs /\ inputs' = inputs + 1 /\ Stop(m)
        /\ UNCHANGED <<inbox, listVars, dropped>>
    BY <1>6 DEF audio_play_stop
  <2>2. PlayerInv' /\ PlayerShrinks
    BY <1>1, <2>1, StopInv
  <2>3. UNCHANGED <<object, at, hand>>
    BY <2>1 DEF Stop
  <2>4. /\ Len(object) <= Len(object') /\ Len(object') \in Nat
        /\ at'[list] = "start" => at[list] = "start" /\ hand'[list] = hand[list]
        /\ Elems(player'["music"]) \subseteq Elems(player["music"])
        /\ inputs' \in 0..MaxInputs
    BY <1>2, <2>1, <2>2, <2>3, SMTT(30) DEF PlayerShrinks
  <2>5. /\ UNCHANGED listVars /\ dropped' \in BOOLEAN /\ inbox' \in Seq(Messages)
        /\ \A e \in Elems(inbox') : e \in Elems(inbox) \/ e.event # "PLAY_STATUS"
    BY <1>2, <2>1
  <2>6. QED
    BY <2>2, <2>4, <2>5, ElsewhereInv
<1>7. ASSUME NEW c \in Callers \ {list}, NEW soon \in BOOLEAN, PlayTone(c, soon)
      PROVE  PlayInv'
  <2> DEFINE m == "tone"
             u == Null
  <2>1. /\ m \in Modes /\ u \in Urls \cup {Null} /\ Enqueue(c, m, u, soon)
    BY <1>7 DEF PlayTone, Modes
  <2>2. m # "music" /\ ~(m = "music") /\ c # list /\ c \in Callers
    BY <1>7
  <2>3. Post(inbox) /\ UNCHANGED <<listVars, inputs>>
    BY <1>7 DEF PlayTone
  <2> HIDE DEF m, u
  <2>4. PlayerInv'
    BY <1>1, <2>1, <2>2, EnqueueInv
  <2>5. PICK o \in Objects, r \in Seq(Objects), gone \in SUBSET Objects :
          Enqueued(c, m, u, soon, o, r, gone)
    BY <1>1, <2>1, <2>2, EnqueueDoes
  <2>6. /\ o = Len(object) + 1 /\ Len(object') = o
        /\ \/ heard' = heard
           \/ \E h \in Elems(queue[m]) : heard' = [heard EXCEPT ![h] = Append(@, "STOP")]
        /\ at' = [at EXCEPT ![c] = "start"] /\ hand' = [hand EXCEPT ![c] = o]
        /\ UNCHANGED <<playerVars, lossVars>>
    BY <2>5 DEF Enqueued
  <2>7. /\ inbox' \in Seq(Messages) /\ dropped' \in BOOLEAN
        /\ \A e \in Elems(inbox') : e \in Elems(inbox)
    <3>1. CASE heard' = heard
      <4>1. inbox' = inbox /\ dropped' = dropped
        BY <2>3, <3>1, NothingPosted
      <4>2. QED
        BY <1>2, <4>1
    <3>2. ASSUME NEW h \in Elems(queue[m]), heard' = [heard EXCEPT ![h] = Append(@, "STOP")]
          PROVE  /\ inbox' \in Seq(Messages) /\ dropped' \in BOOLEAN
                 /\ \A e \in Elems(inbox') : e \in Elems(inbox)
      <4> DEFINE s == "STOP"
      <4>1. s \in Ends /\ heard' = [heard EXCEPT ![h] = Append(@, s)]
        BY <3>2 DEF Ends
      <4> HIDE DEF s
      <4>2. /\ inbox' \in Seq(Messages) /\ dropped' \in {dropped, TRUE}
            /\ \A e \in Elems(inbox') :
                 e \in Elems(inbox) \/ (m = "music" /\ e.event = "PLAY_STATUS" /\ e.of = h)
        BY <1>1, <1>2, <2>1, <2>3, <3>2, <4>1, OnePosted
      <4>3. QED
        BY <1>2, <2>2, <4>2
    <3>3. QED
      BY <2>6, <3>1, <3>2
  <2>8. at'[list] = at[list] /\ hand'[list] = hand[list]
    BY <1>1, <2>2, <2>6 DEF PlayerInv, MiddlewareOK
  <2>9. /\ Len(object) <= Len(object') /\ Len(object') \in Nat
        /\ Elems(player'["music"]) \subseteq Elems(player["music"])
    BY <1>2, <2>6
  <2>10. inputs' \in 0..MaxInputs /\ UNCHANGED listVars
    BY <1>2, <2>3
  <2>11. QED
    BY <2>4, <2>7, <2>8, <2>9, <2>10, ElsewhereInv
<1>8. QED
  BY <1>4, <1>5, <1>6, <1>7 DEF UserNext

\* A call that comes back, to be played or refused.
LEMMA CallNextInv ==
  ASSUME PlayInv, ~broken, NEW c \in Callers, CallNext(c), Observe
  PROVE  PlayInv'
<1>1. PlayerInv /\ ListOK /\ UNCHANGED <<inbox, listVars, inputs, dropped>>
  BY DEF PlayInv, CallNext
<1>2. PlayerInv'
  BY <1>1, StartInv, RefuseInv, DropInv DEF CallNext
<1>3. /\ inbox' \in Seq(Messages) /\ dropped' \in BOOLEAN /\ inputs' \in 0..MaxInputs
      /\ UNCHANGED listVars /\ object' = object /\ Len(object) \in Nat
      /\ \A e \in Elems(inbox') : e \in Elems(inbox) \/ e.event # "PLAY_STATUS"
  <2>1. object' = object
    BY DEF CallNext, Start, Refuse, Drop
  <2>2. QED
    BY <1>1, <2>1 DEF ListOK, PlayerInv, MiddlewareOK
<1>4. at'[list] = "start" => at[list] = "start" /\ hand'[list] = hand[list]
  <2>1. at \in [Callers -> {"idle", "start", "drop"}] /\ hand \in [Callers -> Objects \cup {Null}]
    BY <1>1 DEF PlayerInv, MiddlewareOK
  <2>2. \/ at' = [at EXCEPT ![c] = "idle"] /\ hand' = [hand EXCEPT ![c] = Null]
        \/ at' = [at EXCEPT ![c] = "drop"] /\ hand' = hand
    BY DEF CallNext, Start, Refuse, Drop
  <2>3. QED
    BY <2>1, <2>2
<1>5. Elems(player'["music"]) \subseteq Elems(player["music"]) \/ at[list] = "start"
  <2>1. CASE Start(c)
    <3>1. CASE c = list
      BY <2>1, <3>1 DEF Start
    <3>2. CASE c # list
      <4> DEFINE m == object[hand[c]].mode
                 q == IF m = "music" \/ object[hand[c]].now THEN <<hand[c]>> ELSE Append(player[m], hand[c])
      <4>1. m = "tone"
        BY <1>1, <2>1, <3>2 DEF Start, PlayerInv, HandsFull
      <4>2. player' = [player EXCEPT ![m] = q]
        BY <2>1 DEF Start
      <4> HIDE DEF m, q
      <4>3. player'["music"] = player["music"]
        BY <1>1, <4>1, <4>2 DEF PlayerInv, MiddlewareOK, Modes
      <4>4. QED
        BY <4>3
    <3>3. QED
      BY <3>1, <3>2
  <2>2. CASE Refuse(c) \/ Drop(c)
    BY <2>2 DEF Refuse, Drop
  <2>3. QED
    BY <2>1, <2>2 DEF CallNext
<1>6. Len(object) <= Len(object') /\ Len(object') \in Nat
  BY <1>3
<1>7. QED
  BY <1>2, <1>3, <1>4, <1>5, <1>6, ElsewhereInv

\* A play that ends, a status that is taken.
LEMMA StatusNextInv ==
  ASSUME PlayInv, Observe, UNCHANGED <<inbox, listVars, inputs, dropped>>,
         TakeStatus \/ (\E m \in Modes, s \in {"FINISHED", "ERROR"} : PlayEnds(m, s))
  PROVE  PlayInv'
<1>1. PlayerInv /\ ListOK
  BY DEF PlayInv
<1>2. PlayerInv' /\ PlayerShrinks /\ UNCHANGED <<object, at, hand>>
  <2>1. CASE TakeStatus
    BY <1>1, <2>1, TakeStatusInv DEF TakeStatus
  <2>2. ASSUME NEW m \in Modes, NEW s \in {"FINISHED", "ERROR"}, PlayEnds(m, s)
        PROVE  PlayerInv' /\ PlayerShrinks /\ UNCHANGED <<object, at, hand>>
    <3>1. UNCHANGED <<object, at, hand>>
      BY <2>2 DEF PlayEnds
    <3>2. QED
      BY <1>1, <2>2, <3>1, PlayEndsInv, PlayEndsShrinks
  <2>3. QED
    BY <2>1, <2>2
<1>3. /\ inbox' \in Seq(Messages) /\ dropped' \in BOOLEAN /\ inputs' \in 0..MaxInputs
      /\ UNCHANGED listVars /\ Len(object) \in Nat
      /\ \A e \in Elems(inbox') : e \in Elems(inbox) \/ e.event # "PLAY_STATUS"
  BY <1>1 DEF ListOK, PlayerInv, MiddlewareOK
<1>4. /\ Len(object) <= Len(object') /\ Len(object') \in Nat
      /\ at'[list] = "start" => at[list] = "start" /\ hand'[list] = hand[list]
      /\ Elems(player'["music"]) \subseteq Elems(player["music"])
  BY <1>2, <1>3 DEF PlayerShrinks
<1>5. QED
  BY <1>2, <1>3, <1>4, ElsewhereInv

\* A status is applied to the head of its queue.  If no ends were crossed, that is what it is
\* about, and it is not played any more.
LEMMA NotifyNextInv ==
  ASSUME PlayInv, ~broken, Notify, Post(inbox), UNCHANGED <<listVars, inputs>>, Observe
  PROVE  PlayInv'
<1> DEFINE m == player_status.mode
           s == player_status.status
           h == Head(queue[m])
<1>1. PlayerInv /\ ListOK /\ EndsAfterPlay /\ PlayedInTurn /\ MiddlewareOK /\ ObjectOwnership
  BY DEF PlayInv, PlayerInv
<1>2. PlayerInv'
  BY <1>1, NotifyInv
<1>3. /\ player_status \in Reports /\ player_status # Null /\ m \in Modes /\ s \in Ends
      /\ PlayerShrinks /\ UNCHANGED <<callVars, refused, broken>>
      /\ \/ UNCHANGED objectVars
         \/ queue[m] # << >> /\ heard' = [heard EXCEPT ![h] = Append(@, s)]
  BY <1>1, NotifyDoes
<1>4. /\ inbox \in Seq(Messages) /\ dropped \in BOOLEAN /\ inputs' \in 0..MaxInputs
      /\ UNCHANGED listVars /\ Len(object) \in Nat /\ object' = object /\ at' = at /\ hand' = hand
      /\ cur_obj' = cur_obj /\ playlist' = playlist /\ cur_item' = cur_item
  BY <1>1, <1>3 DEF ListOK, MiddlewareOK, listVars
<1>5. CASE UNCHANGED objectVars
  <2>1. inbox' = inbox /\ dropped' = dropped
    BY <1>5, NothingPosted
  <2>2. /\ Len(object) <= Len(object') /\ Len(object') \in Nat
        /\ at'[list] = "start" => at[list] = "start" /\ hand'[list] = hand[list]
        /\ Elems(player'["music"]) \subseteq Elems(player["music"])
    BY <1>3, <1>4 DEF PlayerShrinks
  <2>3. QED
    BY <1>2, <1>4, <2>1, <2>2, ElsewhereInv
<1>6. CASE queue[m] # << >> /\ heard' = [heard EXCEPT ![h] = Append(@, s)]
  <2>1. h \in Elems(queue[m])
    BY <1>1, <1>3, <1>6, HeadOfQueue
  <2>2. m = "music" /\ ~crossed =>
          h \notin Elems(player'["music"]) /\ (at[list] = "start" => hand[list] # h)
    <3>1. HAVE m = "music" /\ ~crossed
    <3>2. player_status \in Pending /\ player_status \in MusicEnds
      BY <1>3, <3>1 DEF Pending, MusicEnds
    <3>3. h = player_status.of
      BY <1>1, <1>6, <3>1, <3>2 DEF EndsAfterPlay, EndOfAnother
    <3>4. h \notin Elems(player["music"]) /\ (at[list] = "start" => hand[list] # h)
      BY <1>1, <3>2, <3>3 DEF PlayedInTurn
    <3>5. QED
      BY <1>3, <3>4 DEF PlayerShrinks
  <2> HIDE DEF m, s, h
  <2>3. /\ inbox' \in Seq(Messages) /\ dropped' \in {dropped, TRUE}
        /\ \A e \in Elems(inbox') :
             e \in Elems(inbox) \/ (m = "music" /\ e.event = "PLAY_STATUS" /\ e.of = h)
    BY <1>1, <1>3, <1>4, <1>6, <2>1, OnePosted
  <2>4. h \in 1..Len(object)
    BY <1>1, <1>3, <1>6, <2>1, ToldOnce
  <2>5. at'[list] = "start" => hand'[list] = cur_obj'
    BY <1>1, <1>4 DEF EndsAfterPlay
  <2>6. \A e \in Elems(inbox') :
          \/ e \in Elems(inbox)
          \/ e.event # "PLAY_STATUS"
          \/ /\ e.of \in 1..Len(object')
             /\ ~crossed /\ e.of = cur_obj' =>
                  cur_obj' \notin Elems(player'["music"]) /\ at'[list] # "start"
    <3>1. TAKE e \in Elems(inbox')
    <3>2. CASE e \in Elems(inbox)
      BY <3>2
    <3>3. CASE m = "music" /\ e.event = "PLAY_STATUS" /\ e.of = h
      BY <1>4, <2>2, <2>4, <2>5, <3>3
    <3>4. QED
      BY <2>3, <3>2, <3>3
  <2>7. /\ cur_obj' = cur_obj /\ Elems(player'["music"]) \subseteq Elems(player["music"])
        /\ at'[list] = "start" => at[list] = "start"
    BY <1>3, <1>4 DEF PlayerShrinks
  <2>8. Len(object) <= Len(object') /\ Len(object') \in Nat
    BY <1>4
  <2>9. EndsAfterPlay' /\ crossed' \in BOOLEAN
    BY <2>5, <2>6, <2>7, <2>8, EventsStill
  <2>10. ListOK'
    BY <1>1, <1>4, <2>3, <2>9 DEF ListOK
  <2>11. QED
    BY <1>2, <2>9, <2>10 DEF PlayInv
<1>7. QED
  BY <1>3, <1>5, <1>6


-----------------------------------------------------------------------------
(* The player and its list: the theorems                                    *)

\* At first nothing is made, played or on its way.
LEMMA InitPlayInv ==
  ASSUME PlayInit
  PROVE  PlayInv
<1> USE DEF PlayInit, MiddlewareInit
<1>1. Len(object) = 0 /\ Elems(inbox) = {} /\ Elems(play_status_queue) = {}
      /\ \A m \in Modes : queue[m] = << >> /\ player[m] = << >>
                          /\ Elems(queue[m]) = {} /\ Elems(player[m]) = {}
  BY DEF Elems
<1>2. MusicEnds = {} /\ Pending = {}
  BY <1>1 DEF MusicEnds, Pending
<1>3. MiddlewareOK
  <2>1. << >> \in Seq(Plays) /\ << >> \in Seq(Objects) /\ << >> \in Seq(Reports) /\ << >> \in Seq(Ends)
    OBVIOUS
  <2>2. 0 <= MaxPlays /\ 0 <= QueueSize /\ Len(play_status_queue) = 0
    OBVIOUS
  <2>3. /\ queue \in [Modes -> Seq(Objects)] /\ player \in [Modes -> Seq(Objects)]
        /\ heard \in [Objects -> Seq(Ends)]
    BY <2>1
  <2>4. /\ at \in [Callers -> {"idle", "start", "drop"}]
        /\ hand \in [Callers -> Objects \cup {Null}]
    OBVIOUS
  <2>5. object \in Seq(Plays) /\ play_status_queue \in Seq(Reports)
    BY <2>1
  <2> HIDE DEF PlayInit, MiddlewareInit
  <2>6. /\ heap = {} /\ refused = {} /\ player_status = Null /\ lost = FALSE /\ broken = FALSE
        /\ Len(object) = 0
    BY <1>1 DEF PlayInit, MiddlewareInit
  <2>7. QED
    BY <2>2, <2>3, <2>4, <2>5, <2>6 DEF MiddlewareOK
<1>4. ObjectOwnership
  <2>1. UNION {Elems(queue[m]) : m \in Modes} = {}
    BY <1>1
  <2>2. \A m \in Modes : NoRepeat(queue[m])
    BY <1>1 DEF NoRepeat
  <2>3. QED
    BY <1>1, <2>1, <2>2 DEF ObjectOwnership
<1>5. OneEnd /\ HandsFull
  BY DEF OneEnd, HandsFull
<1>6. "music" \in Modes
  BY DEF Modes
<1>7. MadeFirst /\ PlayedInTurn
  <2>1. /\ \A o \in Objects : heard[o] = << >>
        /\ at[list] # "start" /\ 1..Len(object) = {}
        /\ Elems(player["music"]) = {} /\ Len(player["music"]) = 0
    BY <1>1, <1>6
  <2> HIDE DEF PlayInit, MiddlewareInit
  <2>2. \A r : r \notin MusicEnds
    BY <1>2
  <2>3. MadeFirst
    BY <2>1, <2>2 DEF MadeFirst
  <2>4. PlayedInTurn
    BY <2>1, <2>2 DEF PlayedInTurn
  <2>5. QED
    BY <2>3, <2>4
<1>8. ListOK
  <2>1. /\ inbox \in Seq(Messages) /\ playlist = Null /\ cur_item = 0 /\ cur_obj = 0
        /\ inputs = 0 /\ dropped = FALSE /\ crossed = FALSE /\ Len(object) = 0
    BY <1>1
  <2> HIDE DEF PlayInit, MiddlewareInit
  <2>2. /\ cur_item \in 0..(IF playlist = Null THEN 0 ELSE Len(playlist.items))
        /\ cur_obj \in 0..Len(object)
    <3>1. (IF playlist = Null THEN 0 ELSE Len(playlist.items)) = 0
      BY <2>1
    <3>2. 0 \in 0..0
      OBVIOUS
    <3>3. QED
      BY <2>1, <3>1, <3>2, Zenon
  <2>3. inputs \in 0..MaxInputs
    BY <2>1
  <2>4. dropped \in BOOLEAN /\ crossed \in BOOLEAN
    BY <2>1, Zenon
  <2>5. QED
    BY <2>1, <2>2, <2>3, <2>4 DEF ListOK
<1>9. ~EndOfAnother /\ ~EndOfNamesake
  BY <1>2 DEF EndOfAnother, EndOfNamesake
<1>10. EndsAfterPlay
  BY <1>1, <1>9 DEF EndsAfterPlay
<1>11. QED
  BY <1>3, <1>4, <1>5, <1>7, <1>8, <1>10 DEF PlayInv, PlayerInv

\* Every step of the player and of its list keeps the invariant.
LEMMA NextPlayInv ==
  ASSUME PlayInv, [PlayNext]_playVars
  PROVE  PlayInv'
<1>1. CASE PlayNext
  <2>1. ~broken /\ Observe
    BY <1>1 DEF PlayNext
  <2>2. CASE ListNext
    BY <2>1, <2>2, ListNextInv
  <2>3. CASE UserNext
    BY <2>1, <2>3, UserNextInv
  <2>4. ASSUME NEW c \in Callers, CallNext(c)
        PROVE  PlayInv'
    BY <2>1, <2>4, CallNextInv
  <2>5. CASE PlayerNext
    BY <2>1, <2>5, StatusNextInv DEF PlayerNext
  <2>6. CASE TaskNext
    BY <2>1, <2>6, StatusNextInv, NotifyNextInv DEF TaskNext
  <2>7. QED
    BY <1>1, <2>2, <2>3, <2>4, <2>5, <2>6 DEF PlayNext
<1>2. CASE UNCHANGED playVars
  <2> USE DEF playVars
  <2>1. MiddlewareOK' /\ ListOK'
    BY <1>2 DEF PlayInv, PlayerInv, MiddlewareOK, ListOK
  <2>2. ObjectOwnership' /\ OneEnd'
    BY <1>2 DEF PlayInv, PlayerInv, ObjectOwnership, OneEnd, Elems, NoRepeat
  <2>3. HandsFull' /\ MadeFirst' /\ PlayedInTurn'
    BY <1>2 DEF PlayInv, PlayerInv, HandsFull, MadeFirst, PlayedInTurn, MusicEnds, Elems
  <2>4. (EndOfAnother' <=> EndOfAnother) /\ (EndOfNamesake' <=> EndOfNamesake)
    BY <1>2 DEF EndOfAnother, EndOfNamesake, Pending, CurUrl
  <2>5. EndsAfterPlay'
    BY <1>2, <2>4 DEF PlayInv, EndsAfterPlay, Elems
  <2>6. QED
    BY <2>1, <2>2, <2>3, <2>5 DEF PlayInv, PlayerInv
<1>3. QED
  BY <1>1, <1>2

\* The invariant holds in every state that can be reached.
LEMMA PlayInvAlways == PlaySpec => []PlayInv
<1>1. PlayInit => PlayInv
  BY InitPlayInv
<1>2. PlayInv /\ [PlayNext]_playVars => PlayInv'
  BY NextPlayInv
<1>3. QED
  BY <1>1, <1>2, PTL DEF PlaySpec

\* player_middleware_interface.c: whatever the callers of the player, its task and the
\* player itself do, in any order, the play objects allocated are the ones queued, each once
\* and in the queue of its mode, until an object that was refused is freed a second time; and
\* a caller is told one end of its object, before it is freed.
THEOREM ObjectsOwned == PlaySpec => []ObjectsAreOwned
<1>1. PlayInv => ObjectsAreOwned
  <2> SUFFICES ASSUME PlayInv
               PROVE  ObjectsAreOwned
    OBVIOUS
  <2>1. MiddlewareOK /\ ListOK /\ ObjectOwnership /\ OneEnd
    BY DEF PlayInv, PlayerInv
  <2>2. DOMAIN object = 1..Len(object)
    BY <2>1 DEF MiddlewareOK
  <2>3. PlayTypeOK
    BY <2>1, <2>2 DEF PlayTypeOK, MiddlewareOK, ListOK
  <2>4. QED
    BY <2>1, <2>3 DEF ObjectsAreOwned
<1>2. QED
  BY <1>1, PlayInvAlways, PTL

\* A step that leaves an item because of an event finds it has the item's address.
LEMMA LeavesByItsUrl ==
  ASSUME PlayInv, PlayNext, inbox # << >>, Head(inbox).event = "PLAY_STATUS",
         <<cur_item, cur_obj>>' # <<cur_item, cur_obj>>
  PROVE  cur_item # 0 /\ Head(inbox).url = CurUrl
<1>1. cur_item' # cur_item \/ cur_obj' # cur_obj
  OBVIOUS
<1>2. CASE ListNext
  <2>1. PlayStatus
    BY <1>2 DEF ListNext, ListRequest, Key, Clear, Receiving
  <2>2. QED
    BY <1>1, <2>1 DEF PlayStatus
<1>3. ~UserNext
  BY <1>1 DEF UserNext, Send, audio_play_stop, PlayTone, listVars
<1>4. \A c \in Callers : ~CallNext(c)
  BY <1>1 DEF CallNext, listVars
<1>5. ~PlayerNext /\ ~TaskNext
  BY <1>1 DEF PlayerNext, TaskNext, listVars
<1>6. QED
  BY <1>2, <1>3, <1>4, <1>5 DEF PlayNext

\* play_list.c: the list leaves an item only when the player is no longer at it, unless the
\* end of something else was on its way to be taken for the item's.
THEOREM EndsAreItsOwn == PlaySpec => EndsAreOwn
<1>1. ASSUME PlayInv, [PlayNext]_playVars,
             inbox # << >>, Head(inbox).event = "PLAY_STATUS",
             <<cur_item, cur_obj>>' # <<cur_item, cur_obj>>, ~crossed
      PROVE  \A i \in DOMAIN player["music"] : player["music"][i] # cur_obj
  <2>1. PlayNext
    BY <1>1 DEF playVars
  <2>2. cur_item # 0 /\ Head(inbox).url = CurUrl
    BY <1>1, <2>1, LeavesByItsUrl
  <2>3. inbox \in Seq(Messages) /\ EndsAfterPlay
    BY <1>1 DEF PlayInv, ListOK
  <2>4. 1 \in DOMAIN inbox /\ inbox[1] = Head(inbox)
    BY <1>1, <2>3
  <2>5. Head(inbox).of = cur_obj
    BY <1>1, <2>2, <2>3, <2>4 DEF EndsAfterPlay, EndOfNamesake
  <2>6. Head(inbox) \in Elems(inbox)
    BY <2>4 DEF Elems
  <2>7. cur_obj \notin Elems(player["music"])
    BY <1>1, <2>3, <2>5, <2>6 DEF EndsAfterPlay
  <2>8. QED
    BY <2>7 DEF Elems
<1>2. PlayInv /\ [PlayNext]_playVars =>
        [ /\ inbox # << >> /\ Head(inbox).event = "PLAY_STATUS"
          /\ <<cur_item, cur_obj>>' # <<cur_item, cur_obj>>
          => crossed \/ \A i \in DOMAIN player["music"] : player["music"][i] # cur_obj ]_playVars
  BY <1>1
<1>3. QED
  BY <1>2, PlayInvAlways, PTL DEF PlaySpec, EndsAreOwn

=============================================================================
