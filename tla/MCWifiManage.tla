---------------------------- MODULE MCWifiManage ----------------------------
(* Small instances of WifiManage for TLC.                                  *)
EXTENDS WifiManage

CONSTANTS robot, home, phone, office, hotel, cafe

\* The factory's network and those saved, in the order of their slots, with the slot of
\* the one saved last and of the one connected last
Holds(saved, storage, connect) ==
  [wifi_info |-> [i \in Slots |-> IF i = 0 THEN robot
                                  ELSE IF i \in DOMAIN saved THEN saved[i] ELSE Nothing],
   wifi_storage_index |-> storage, wifi_connect_index |-> connect]

\* What device_params_manage writes into an empty flash
FactoryOnly == Holds(<< >>, 0, 0)

OneSaved == {Holds(<<home>>, 1, 1)}

\* Two networks were saved, and either of them, or the factory's, was connected last.
TwoSaved == {Holds(s, 2, c) : <<s, c>> \in {<<home, phone>>, <<phone, home>>} \X (0..2)}

\* Every slot is filled, and the ring has gone round.
AllSaved == {Holds(<<office, home, phone, cafe>>, 2, c) : c \in Slots}

\* Every slot is filled, the last one last, and the phone's network is in none.
RingIsFull == {Holds(<<office, hotel, cafe, home>>, MAX_WIFI_NUM - 1, c) : c \in {0, 4}}

\* A lost link, failing calls, answers after their timeouts, and the wifi key or a lost
\* message
Rough == [reachable : {{home, phone}}, sent : {{phone}}, stored : OneSaved,
          prompt : {FALSE}, mayFail : {TRUE},
          left : {[keys |-> 1, phones |-> 1, drops |-> 1, losses |-> 0],
                  [keys |-> 0, phones |-> 0, drops |-> 2, losses |-> 1]}]

\* Only the phone's network is in range, which is stored or is not; every answer comes.
Calm == [reachable : {{phone}}, sent : {{home, phone}},
         stored : OneSaved \cup TwoSaved \cup AllSaved \cup RingIsFull,
         prompt : {TRUE}, mayFail : {FALSE},
         left : {[keys |-> 0, phones |-> 2, drops |-> 0, losses |-> 0]}]

\* Only the factory's network is stored, which is out of range; calls fail.
Fresh == [reachable : {{home, phone}}, sent : {{home, phone}}, stored : {FactoryOnly},
          prompt : BOOLEAN, mayFail : {TRUE},
          left : {[keys |-> 0, phones |-> 2, drops |-> 1, losses |-> 0]}]

MCWorlds == Rough \cup Calm \cup Fresh
=============================================================================
