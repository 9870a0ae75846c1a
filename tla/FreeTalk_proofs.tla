-------------------------- MODULE FreeTalk_proofs --------------------------
(***************************************************************************)
(* Proofs about free_talk, for any number of recordings, frames, wakeups,   *)
(* keys, pauses, and losses of messages, objects, tones and reports.        *)
(*                                                                          *)
(* TalkInv says three things of the shared numbers.  The tasks' steps have  *)
(* a shape: a cancel comes with its stop, a START with the note of its      *)
(* number, under the lock (Locked, Numbered).  A cancel's STOP is the last  *)
(* the recording service hears, or somebody is about to stop or to start    *)
(* (StopComes).  And every recording is behind those that began before it   *)
(* at each place of its way from the START to the result (InTurn).  None of *)
(* these has a proof without the one before it.                             *)
(***************************************************************************)
EXTENDS FreeTalk, Queues_proofs

-----------------------------------------------------------------------------
(* What a task has still to do                                              *)

LEMMA TailTodo ==
  ASSUME NEW q \in Seq(Steps), q # << >>, Shaped(q)
  PROVE  /\ Tail(q) \in Seq(Steps) /\ Head(q) \in Steps
         /\ Shaped(Tail(q))
         /\ Range(Tail(q)) \subseteq Range(q)
         /\ Range(q) \subseteq Range(Tail(q)) \cup {Head(q)}
         /\ Head(q) \in Range(q)
         /\ {"cancel", "send"} \cap Range(Tail(q)) = {}
         /\ Head(q) # "send" => "set" \notin Range(Tail(q))
         /\ Head(q) = "cancel" => "stop" \in Range(Tail(q))
         /\ Head(q) = "send" => "set" \in Range(Tail(q))
<1> DEFINE r == Tail(q)
<1>1. /\ r \in Seq(Steps) /\ Head(q) \in Steps /\ Head(q) = q[1]
      /\ Len(q) \in Nat \ {0} /\ Len(r) = Len(q) - 1
      /\ \A i \in 1..(Len(q) - 1) : r[i] = q[i + 1]
  BY TailPlaces
<1>2. DOMAIN q = 1..Len(q) /\ DOMAIN r = 1..(Len(q) - 1)
  BY <1>1, LenProperties
<1> HIDE DEF r
<1>3. Range(r) \subseteq Range(q)
  <2> SUFFICES ASSUME NEW i \in DOMAIN r PROVE r[i] \in Range(q)
    BY DEF Range
  <2>1. i + 1 \in DOMAIN q /\ r[i] = q[i + 1]
    BY <1>1, <1>2
  <2>2. QED
    BY <2>1 DEF Range
<1>4. Range(q) \subseteq Range(r) \cup {Head(q)}
  <2> SUFFICES ASSUME NEW i \in DOMAIN q, i # 1 PROVE q[i] \in Range(r)
    BY <1>1 DEF Range
  <2>1. i - 1 \in DOMAIN r /\ r[i - 1] = q[(i - 1) + 1] /\ (i - 1) + 1 = i
    BY <1>1, <1>2
  <2>2. QED
    BY <2>1 DEF Range
<1>5. Head(q) \in Range(q)
  BY <1>1, <1>2 DEF Range
<1>6. \A i \in DOMAIN r : i + 1 \in DOMAIN q /\ i + 1 # 1 /\ r[i] = q[i + 1]
  BY <1>1, <1>2
<1>7. \A i \in DOMAIN r : r[i] # "cancel" /\ r[i] # "send"
  BY <1>6 DEF Shaped
<1>8. \A i \in DOMAIN r : r[i] = "set" => i = 1 /\ q[1] = "send"
  BY <1>1, <1>2, <1>6 DEF Shaped
<1>9. Shaped(r)
  BY <1>7, <1>8 DEF Shaped
<1>10. {"cancel", "send"} \cap Range(r) = {}
  BY <1>7 DEF Range
<1>11. Head(q) # "send" => "set" \notin Range(r)
  BY <1>1, <1>8 DEF Range
<1>12. ASSUME Head(q) \in {"cancel", "send"}
       PROVE  1 \in DOMAIN r /\ r[1] = IF Head(q) = "cancel" THEN "stop" ELSE "set"
  <2>1. 1 \in DOMAIN q /\ Len(q) > 1 /\ q[2] = IF Head(q) = "cancel" THEN "stop" ELSE "set"
    BY <1>1, <1>2, <1>12 DEF Shaped
  <2>2. 1 \in DOMAIN r /\ r[1] = q[1 + 1]
    BY <1>1, <1>2, <2>1
  <2>3. QED
    BY <2>1, <2>2
<1>13. QED
  BY <1>1, <1>3, <1>4, <1>5, <1>9, <1>10, <1>11, <1>12 DEF r, Range

Plain == Steps \ {"cancel", "send", "set"}

\* A call that comes first, before steps of other kinds.
LEMMA PushTodo ==
  ASSUME NEW q \in Seq(Steps), {"cancel", "send", "set"} \cap Range(q) = {}, NEW x \in Plain
  PROVE  /\ <<x>> \o q \in Seq(Steps)
         /\ Shaped(<<x>> \o q)
         /\ Range(<<x>> \o q) = Range(q) \cup {x}
<1> DEFINE r == <<x>> \o q
<1>0. x \in Steps /\ x \notin {"cancel", "send", "set"}
  BY DEF Plain
<1>1. <<x>> \in Seq(Steps) /\ Len(<<x>>) = 1 /\ <<x>>[1] = x
  BY <1>0
<1>2. /\ r \in Seq(Steps) /\ Len(r) = 1 + Len(q)
      /\ \A i \in 1..(1 + Len(q)) : r[i] = IF i <= 1 THEN x ELSE q[i - 1]
  BY <1>1, ConcatProperties
<1>3. Len(q) \in Nat /\ DOMAIN q = 1..Len(q) /\ DOMAIN r = 1..(1 + Len(q))
  BY <1>2, LenProperties
<1> HIDE DEF r
<1>4. Range(r) \subseteq Range(q) \cup {x}
  <2> SUFFICES ASSUME NEW i \in DOMAIN r, i # 1 PROVE r[i] \in Range(q)
    BY <1>2, <1>3 DEF Range
  <2>1. i - 1 \in DOMAIN q /\ r[i] = q[i - 1]
    BY <1>2, <1>3
  <2>2. QED
    BY <2>1 DEF Range
<1>5. Range(q) \cup {x} \subseteq Range(r)
  <2>1. 1 \in DOMAIN r /\ r[1] = x
    BY <1>2, <1>3
  <2>2. ASSUME NEW i \in DOMAIN q PROVE q[i] \in Range(r)
    <3>1. i + 1 \in DOMAIN r /\ r[i + 1] = q[(i + 1) - 1] /\ (i + 1) - 1 = i
      BY <1>2, <1>3
    <3>2. QED
      BY <3>1 DEF Range
  <2>3. QED
    BY <2>1, <2>2 DEF Range
<1>6. Range(r) = Range(q) \cup {x}
  BY <1>4, <1>5
<1>7. \A i \in DOMAIN r : r[i] \notin {"cancel", "send", "set"}
  BY <1>0, <1>6 DEF Range
<1>8. Shaped(r)
  BY <1>7 DEF Shaped
<1>9. QED
  BY <1>2, <1>6, <1>8 DEF r

\* The two steps that stay together, before the others.
LEMMA PushPair ==
  ASSUME NEW q \in Seq(Steps), {"cancel", "send", "set"} \cap Range(q) = {}, NEW a, NEW b,
         (a = "send" /\ b = "set") \/ (a = "cancel" /\ b = "stop")
  PROVE  /\ <<a, b>> \o q \in Seq(Steps)
         /\ Shaped(<<a, b>> \o q)
         /\ Range(<<a, b>> \o q) = Range(q) \cup {a, b}
<1> DEFINE r == <<a, b>> \o q
<1>1. /\ <<a, b>> \in Seq(Steps) /\ Len(<<a, b>>) = 2
      /\ <<a, b>>[1] = a /\ <<a, b>>[2] = b
  BY DEF Steps, Starts
<1>2. /\ r \in Seq(Steps) /\ Len(r) = 2 + Len(q)
      /\ \A i \in 1..(2 + Len(q)) :
           r[i] = IF i <= 2 THEN <<a, b>>[i] ELSE q[i - 2]
  BY <1>1, ConcatProperties
<1>3. Len(q) \in Nat /\ DOMAIN q = 1..Len(q) /\ DOMAIN r = 1..(2 + Len(q))
  BY <1>2, LenProperties
<1>4. 1 \in DOMAIN r /\ r[1] = a /\ 2 \in DOMAIN r /\ r[2] = b /\ Len(r) > 1
  BY <1>1, <1>2, <1>3
<1> HIDE DEF r
<1>5. \A i \in DOMAIN r : i > 2 => i - 2 \in DOMAIN q /\ r[i] = q[i - 2]
  BY <1>2, <1>3
<1>6. \A i \in DOMAIN r : i = 1 \/ i = 2 \/ i > 2
  BY <1>3
<1>7. Range(r) \subseteq Range(q) \cup {a, b}
  BY <1>4, <1>5, <1>6 DEF Range
<1>8. Range(q) \cup {a, b} \subseteq Range(r)
  <2>1. ASSUME NEW i \in DOMAIN q PROVE q[i] \in Range(r)
    <3>1. i + 2 \in DOMAIN r /\ r[i + 2] = q[(i + 2) - 2] /\ (i + 2) - 2 = i
      BY <1>2, <1>3
    <3>2. QED
      BY <3>1 DEF Range
  <2>2. QED
    BY <1>4, <2>1 DEF Range
<1>9. \A i \in DOMAIN r : i > 2 => r[i] \notin {"cancel", "send", "set"}
  BY <1>5 DEF Range
<1>10. Shaped(r)
  BY <1>4, <1>6, <1>9 DEF Shaped
<1>11. QED
  BY <1>2, <1>7, <1>8, <1>10 DEF r

\* The functions that begin without a cancel.
LEMMA OneStep ==
  ASSUME NEW x \in Plain
  PROVE  <<x>> \in Seq(Steps) /\ Shaped(<<x>>) /\ Range(<<x>>) = {x}
<1>1. <<x>> \in Seq(Steps) /\ Len(<<x>>) = 1 /\ <<x>>[1] = x /\ DOMAIN <<x>> = {1}
  BY DEF Plain
<1>2. QED
  BY <1>1 DEF Shaped, Plain, Range

LEMMA NoStep == << >> \in Seq(Steps) /\ Shaped(<< >>) /\ Range(<< >>) = {}
BY DEF Shaped, Range
\* The functions of the keyboard.
LEMMA KeySteps ==
  ASSUME NEW q \in {<<"cancel", "stop", "say_plain">>,
                    <<"cancel", "stop", "say_plain", "start_translate">>,
                    <<"say_plain", "stop">>}
  PROVE  /\ q \in Seq(Steps) /\ Shaped(q)
         /\ {"send", "set"} \cap Range(q) = {}
         /\ "cancel" \in Range(q) => "stop" \in Range(q)
<1>1. CASE q = <<"cancel", "stop", "say_plain">>
  <2>1. /\ q \in Seq(Steps) /\ Len(q) = 3 /\ DOMAIN q = 1..3
        /\ q[1] = "cancel" /\ q[2] = "stop" /\ q[3] = "say_plain"
    BY <1>1 DEF Steps
  <2>2. QED
    BY <2>1 DEF Shaped, Range
<1>2. CASE q = <<"cancel", "stop", "say_plain", "start_translate">>
  <2>1. /\ q \in Seq(Steps) /\ Len(q) = 4 /\ DOMAIN q = 1..4
        /\ q[1] = "cancel" /\ q[2] = "stop" /\ q[3] = "say_plain" /\ q[4] = "start_translate"
    BY <1>2 DEF Steps, Starts
  <2>2. QED
    BY <2>1 DEF Shaped, Range
<1>3. CASE q = <<"say_plain", "stop">>
  <2>1. /\ q \in Seq(Steps) /\ Len(q) = 2 /\ DOMAIN q = 1..2
        /\ q[1] = "say_plain" /\ q[2] = "stop"
    BY <1>3 DEF Steps
  <2>2. QED
    BY <2>1 DEF Shaped, Range
<1>4. QED
  BY <1>1, <1>2, <1>3

\* free_talk's own, after the wakeup word.
LEMMA WakeSteps ==
  ASSUME NEW q \in {<< >>, <<"say_wakeup">>, <<"say_plain">>}
  PROVE  /\ <<"cancel", "stop">> \o q \in Seq(Steps) /\ Shaped(<<"cancel", "stop">> \o q)
         /\ {"send", "set"} \cap Range(<<"cancel", "stop">> \o q) = {}
<1>1. q \in Seq(Steps) /\ Range(q) \subseteq {"say_wakeup", "say_plain"}
  <2>1. {"say_wakeup", "say_plain"} \subseteq Plain
    BY DEF Plain, Steps
  <2>2. QED
    BY <2>1, OneStep, NoStep
<1>2. QED
  BY <1>1, PushPair

-----------------------------------------------------------------------------
(* What a step changes of it                                                *)

\* The task t is left with q.
LEMMA TodoFrame ==
  ASSUME TypeOK, NEW t \in Tasks, NEW q \in Seq(Steps), todo' = [todo EXCEPT ![t] = q]
  PROVE  /\ todo' \in [Tasks -> Seq(Steps)]
         /\ todo'[t] = q /\ \A u \in Tasks : u # t => todo'[u] = todo[u]
         /\ \A u \in Tasks : \A x : Has(u, x)' <=> IF u = t THEN x \in Range(q) ELSE Has(u, x)
<1>1. todo \in [Tasks -> Seq(Steps)]
  BY DEF TypeOK
<1>2. todo' \in [Tasks -> Seq(Steps)] /\ todo'[t] = q /\ \A u \in Tasks : u # t => todo'[u] = todo[u]
  BY <1>1
<1>3. QED
  BY <1>2 DEF Has

LEMMA TodoLocked ==
  ASSUME TypeOK, Locked, NEW t \in Tasks, NEW q \in Seq(Steps), todo' = [todo EXCEPT ![t] = q],
         Shaped(q), "set" \in Range(q) => mutex_lock' = t,
         \A u \in Tasks : u # t /\ Has(u, "set") => mutex_lock' = mutex_lock
  PROVE  Locked'
BY TodoFrame DEF Locked

\* The sending and noting of a number come with its start only; stopping and noting
\* stay until they are done.
NoMore == \A u \in Tasks : \A x \in {"send", "set"} : Has(u, x)' => Has(u, x)

NoLess == \A u \in Tasks : \A x \in {"stop", "set"} : Has(u, x) => Has(u, x)'

\* A task that does its next step, and nothing else of the sort.
LEMMA DoneFacts ==
  ASSUME TypeOK, Locked, NEW t \in Tasks, ~Idle(t), Done(t)
  PROVE  /\ todo' \in [Tasks -> Seq(Steps)]
         /\ Head(todo[t]) # "set" /\ mutex_lock' = mutex_lock => Locked'
         /\ NoMore
         /\ Head(todo[t]) \notin {"stop", "set"} => NoLess
         /\ \A u \in Tasks : \A x : Has(u, x)' => Has(u, x)
         /\ ~Has(t, "cancel")' /\ ~Has(t, "send")'
         /\ Has(t, Head(todo[t]))
<1> DEFINE q == todo[t]
<1>1. q \in Seq(Steps) /\ q # << >> /\ Shaped(q)
  BY DEF TypeOK, Locked, Idle
<1>2. Tail(q) \in Seq(Steps) /\ todo' = [todo EXCEPT ![t] = Tail(q)]
  BY <1>1, TailTodo DEF Done
<1> HIDE DEF q
<1>3. /\ todo' \in [Tasks -> Seq(Steps)]
      /\ \A u \in Tasks : \A x : Has(u, x)' <=> IF u = t THEN x \in Range(Tail(q)) ELSE Has(u, x)
  BY <1>2, TodoFrame
<1>4. \A x : Has(t, x) <=> x \in Range(q)
  BY DEF Has, q
<1>5. \A u \in Tasks : \A x : Has(u, x)' => Has(u, x)
  BY <1>1, <1>3, <1>4, TailTodo
<1>6. NoMore
  BY <1>5 DEF NoMore
<1>7. ASSUME Head(q) \notin {"stop", "set"} PROVE NoLess
  BY <1>1, <1>3, <1>4, <1>7, TailTodo DEF NoLess
<1>8. ASSUME Head(q) # "set", mutex_lock' = mutex_lock PROVE Locked'
  <2>1. "set" \in Range(Tail(q)) => mutex_lock = t
    BY <1>1, <1>4, TailTodo DEF Locked
  <2>2. QED
    BY <1>1, <1>2, <1>8, <2>1, TailTodo, TodoLocked
<1>9. QED
  BY <1>1, <1>3, <1>4, <1>5, <1>6, <1>7, <1>8, TailTodo DEF q


\* A tone calls back in the task t, and its message may be lost.
Called(t, rest) == CallBack(t, rest) \/ CallBackUnsent(t, rest)

\* A tone's callback puts a start first, or nothing.
LEMMA CallBackFacts ==
  ASSUME TypeOK, NEW t \in Tasks, NEW rest \in Seq(Steps), Shaped(rest),
         {"cancel", "send", "set"} \cap Range(rest) = {}, Called(t, rest)
  PROVE  \E q \in Seq(Steps) :
           /\ todo' = [todo EXCEPT ![t] = q]
           /\ Shaped(q) /\ Range(rest) \subseteq Range(q)
           /\ {"cancel", "send", "set"} \cap Range(q) = {}
           /\ tone # "wakeup" => Range(q) = Range(rest)
<1>1. CASE tone = "wakeup" /\ todo' = [todo EXCEPT ![t] = <<"start_continue">> \o rest]
  <2>1. "start_continue" \in Plain
    BY DEF Plain, Steps, Starts
  <2>2. QED
    BY <1>1, <2>1, PushTodo, ZenonT(40)
<1>2. CASE todo' = [todo EXCEPT ![t] = rest]
  BY <1>2
<1>3. QED
  BY <1>1, <1>2 DEF Called, CallBack, CallBackUnsent

\* What each task has to do after a step, of the steps that share the numbers.
TodoMay ==
  /\ todo' \in [Tasks -> Seq(Steps)]
  /\ Locked'
  /\ NoMore \/ \E t \in Tasks : \E m \in Modes : Begin(t, m)
  /\ NoLess \/ \E t \in Tasks : Stop(t) \/ SetSn(t)

LEMMA SendHolds ==
  ASSUME TypeOK, Locked, NEW t \in Tasks, Has(t, "send")
  PROVE  Has(t, "set")
<1>1. todo[t] \in Seq(Steps) /\ Shaped(todo[t])
  BY DEF TypeOK, Locked
<1>2. DOMAIN todo[t] = 1..Len(todo[t]) /\ Len(todo[t]) \in Nat
  BY <1>1, LenProperties
<1>3. 2 \in DOMAIN todo[t] /\ todo[t][2] = "set"
  BY <1>1, <1>2 DEF Has, Range, Shaped
<1>4. QED
  BY <1>3 DEF Has, Range

LEMMA TodoUnchanged ==
  ASSUME TypeOK, Locked, UNCHANGED <<todo, mutex_lock>>
  PROVE  todo' \in [Tasks -> Seq(Steps)] /\ Locked' /\ NoMore /\ NoLess
BY DEF TypeOK, Locked, NoMore, NoLess, Has

\* A task that begins a function.
LEMMA TodoBegins ==
  ASSUME TypeOK, Locked, NEW t \in Tasks, Idle(t), UNCHANGED mutex_lock, NEW q \in Seq(Steps),
         todo' = [todo EXCEPT ![t] = q], Shaped(q), {"send", "set"} \cap Range(q) = {}
  PROVE  todo' \in [Tasks -> Seq(Steps)] /\ Locked' /\ NoMore /\ NoLess
<1>1. /\ todo' \in [Tasks -> Seq(Steps)]
      /\ \A u \in Tasks : \A x : Has(u, x)' <=> IF u = t THEN x \in Range(q) ELSE Has(u, x)
  BY TodoFrame
<1>2. Locked'
  BY TodoLocked
<1>3. \A x : ~Has(t, x)
  BY NoStep DEF Has, Idle
<1>4. QED
  BY <1>1, <1>2, <1>3 DEF NoMore, NoLess

LEMMA NowFacts ==
  ASSUME TypeOK, Locked, NEW t \in Tasks, NEW x, Now(t, x)
  PROVE  /\ ~Idle(t) /\ Has(t, x) /\ Head(todo[t]) = x
         /\ todo[t] \in Seq(Steps) /\ todo[t] # << >> /\ Shaped(todo[t])
<1>1. todo[t] \in Seq(Steps) /\ todo[t] # << >> /\ Shaped(todo[t]) /\ Head(todo[t]) = x
  BY DEF TypeOK, Locked, Now, Idle
<1>2. x \in Range(todo[t])
  BY <1>1, TailTodo
<1>3. QED
  BY <1>1, <1>2 DEF Has, Now

\* The steps that share the numbers: a cancel leaves its stop to be done ...
LEMMA CancelTodo ==
  ASSUME TypeOK, Locked, NEW t \in Tasks, Cancel(t)
  PROVE  /\ todo' \in [Tasks -> Seq(Steps)] /\ Locked' /\ NoMore /\ NoLess
         /\ Has(t, "stop")'
<1>1. Now(t, "cancel") /\ Done(t) /\ mutex_lock' = mutex_lock
  BY DEF Cancel
<1>2. /\ ~Idle(t) /\ Head(todo[t]) = "cancel"
      /\ todo[t] \in Seq(Steps) /\ todo[t] # << >> /\ Shaped(todo[t])
  BY <1>1, NowFacts
<1>3. todo' \in [Tasks -> Seq(Steps)] /\ Locked' /\ NoMore /\ NoLess
  BY <1>1, <1>2, DoneFacts
<1>4. todo' = [todo EXCEPT ![t] = Tail(todo[t])] /\ Tail(todo[t]) \in Seq(Steps)
      /\ "stop" \in Range(Tail(todo[t]))
  BY <1>1, <1>2, TailTodo DEF Done
<1>5. QED
  BY <1>3, <1>4, TodoFrame

\* ... a START the note of its number, and there is one at a time ...
LEMMA SendTodo ==
  ASSUME TypeOK, Locked, NEW t \in Tasks, Send(t)
  PROVE  /\ todo' \in [Tasks -> Seq(Steps)] /\ Locked' /\ NoMore /\ NoLess
         /\ Has(t, "send") /\ \A u \in Tasks : ~Has(u, "send")'
<1>1. Now(t, "send") /\ Done(t) /\ mutex_lock' = mutex_lock
  BY DEF Send, questionVars
<1>2. ~Idle(t) /\ Has(t, "send") /\ Head(todo[t]) = "send"
  BY <1>1, NowFacts
<1>3. /\ todo' \in [Tasks -> Seq(Steps)] /\ Locked' /\ NoMore /\ NoLess
      /\ ~Has(t, "send")'
  BY <1>1, <1>2, DoneFacts
<1>4. \A u \in Tasks : Has(u, "send") => u = t
  BY <1>2, SendHolds DEF Locked
<1>5. QED
  BY <1>2, <1>3, <1>4 DEF NoMore

\* ... and noting it frees the lock.
LEMMA SetTodo ==
  ASSUME TypeOK, Locked, NEW t \in Tasks, SetSn(t)
  PROVE  /\ todo' \in [Tasks -> Seq(Steps)] /\ Locked' /\ NoMore
         /\ Has(t, "set") /\ \A u \in Tasks : ~Has(u, "set")'
<1> DEFINE r == Tail(todo[t])
<1>1. Now(t, "set") /\ Done(t) /\ mutex_lock' = None
  BY DEF SetSn
<1>2. /\ ~Idle(t) /\ Has(t, "set") /\ Head(todo[t]) = "set"
      /\ todo[t] \in Seq(Steps) /\ todo[t] # << >> /\ Shaped(todo[t])
  BY <1>1, NowFacts
<1>3. r \in Seq(Steps) /\ Shaped(r) /\ "set" \notin Range(r) /\ todo' = [todo EXCEPT ![t] = r]
  BY <1>1, <1>2, TailTodo DEF Done
<1> HIDE DEF r
<1>4. \A u \in Tasks : Has(u, "set") => u = t
  BY <1>2 DEF Locked
<1>5. Locked' /\ todo' \in [Tasks -> Seq(Steps)]
  BY <1>3, <1>4, TodoLocked, TodoFrame
<1>6. \A u \in Tasks : ~Has(u, "set")'
  BY <1>3, <1>4, TodoFrame
<1>7. NoMore
  BY <1>1, <1>2, DoneFacts
<1>8. QED
  BY <1>2, <1>5, <1>6, <1>7

LEMMA StopTodo ==
  ASSUME TypeOK, Locked, NEW t \in Tasks, Stop(t)
  PROVE  todo' \in [Tasks -> Seq(Steps)] /\ Locked' /\ NoMore
<1>1. Now(t, "stop") /\ Done(t) /\ mutex_lock' = mutex_lock
  BY DEF Stop, questionVars
<1>2. QED
  BY <1>1, NowFacts, DoneFacts

LEMMA BeginTodo ==
  ASSUME TypeOK, Locked, NEW t \in Tasks, NEW m \in Modes, Begin(t, m)
  PROVE  /\ todo' \in [Tasks -> Seq(Steps)] /\ Locked' /\ NoLess
         /\ \A u \in Tasks : ~Has(u, "set")
<1> DEFINE r == Tail(todo[t])
           q == <<"send", "set">> \o r
<1>1. /\ Now(t, Starting(m)) /\ mutex_lock = None /\ mutex_lock' = t
      /\ todo' = [todo EXCEPT ![t] = q]
  BY DEF Begin
<1>2. Starting(m) \notin {"cancel", "send", "set", "stop"}
  BY DEF Starting
<1>3. /\ Head(todo[t]) = Starting(m)
      /\ todo[t] \in Seq(Steps) /\ todo[t] # << >> /\ Shaped(todo[t])
  BY <1>1, NowFacts
<1>4. /\ r \in Seq(Steps) /\ {"cancel", "send", "set"} \cap Range(r) = {}
      /\ Range(todo[t]) \subseteq Range(r) \cup {Starting(m)}
  BY <1>2, <1>3, TailTodo
<1> HIDE DEF r
<1>5. q \in Seq(Steps) /\ Shaped(q) /\ Range(q) = Range(r) \cup {"send", "set"}
  BY <1>4, PushPair
<1> HIDE DEF q
<1>6. \A u \in Tasks : ~Has(u, "set")
  BY <1>1, NoneAssumption DEF Locked
<1>7. todo' \in [Tasks -> Seq(Steps)] /\ Locked'
  BY <1>1, <1>5, <1>6, TodoFrame, TodoLocked
<1>8. Range(todo[t]) \cap {"stop", "set"} \subseteq Range(q)
  BY <1>2, <1>4, <1>5
<1>9. NoLess
  <2>1. \A x \in {"stop", "set"} : Has(t, x) => x \in Range(q)
    BY <1>8 DEF Has
  <2>2. QED
    BY <1>1, <1>5, <2>1, TodoFrame, ZenonT(40) DEF NoLess
<1>10. QED
  BY <1>6, <1>7, <1>9

LEMMA CallBackTodo ==
  ASSUME TypeOK, Locked, NEW t \in Tasks, NEW rest \in Seq(Steps), Shaped(rest),
         {"cancel", "send", "set"} \cap Range(rest) = {}, Called(t, rest),
         \A x \in {"stop", "set"} : Has(t, x) => x \in Range(rest), UNCHANGED mutex_lock
  PROVE  todo' \in [Tasks -> Seq(Steps)] /\ Locked' /\ NoMore /\ NoLess
<1>1. PICK q \in Seq(Steps) :
           /\ todo' = [todo EXCEPT ![t] = q]
           /\ Shaped(q) /\ Range(rest) \subseteq Range(q)
           /\ {"cancel", "send", "set"} \cap Range(q) = {}
           /\ tone # "wakeup" => Range(q) = Range(rest)
  BY CallBackFacts
<1>2. /\ todo' \in [Tasks -> Seq(Steps)]
      /\ \A u \in Tasks : \A x : Has(u, x)' <=> IF u = t THEN x \in Range(q) ELSE Has(u, x)
  BY <1>1, TodoFrame
<1>3. Locked'
  BY <1>1, TodoLocked
<1>4. QED
  BY <1>1, <1>2, <1>3 DEF NoMore, NoLess

LEMMA SayTodo ==
  ASSUME TypeOK, Locked, NEW t \in Tasks, NEW k \in Tones, Say(t, k) \/ Unsaid(t, k)
  PROVE  todo' \in [Tasks -> Seq(Steps)] /\ Locked' /\ NoMore /\ NoLess
<1> DEFINE r == Tail(todo[t])
<1>1. Now(t, Saying(k)) /\ (Called(t, r) \/ Done(t)) /\ mutex_lock' = mutex_lock
  BY DEF Say, Unsaid, Called, questionVars
<1>2. Saying(k) \notin {"cancel", "send", "set", "stop"}
  BY DEF Saying
<1>3. /\ Head(todo[t]) = Saying(k)
      /\ todo[t] \in Seq(Steps) /\ todo[t] # << >> /\ Shaped(todo[t])
  BY <1>1, NowFacts
<1>4. /\ r \in Seq(Steps) /\ Shaped(r) /\ {"cancel", "send", "set"} \cap Range(r) = {}
      /\ Range(todo[t]) \subseteq Range(r) \cup {Saying(k)}
  BY <1>2, <1>3, TailTodo
<1>5. \A x \in {"stop", "set"} : Has(t, x) => x \in Range(r)
  BY <1>2, <1>4 DEF Has
<1>6. CASE Done(t)
  BY <1>1, <1>2, <1>3, <1>6, NowFacts, DoneFacts
<1> HIDE DEF r
<1>7. CASE Called(t, r)
  BY <1>1, <1>4, <1>5, <1>7, CallBackTodo
<1>8. QED
  BY <1>1, <1>6, <1>7

LEMMA ToneTodo ==
  ASSUME TypeOK, Locked, Idle("player"), Called("player", << >>), UNCHANGED mutex_lock
  PROVE  todo' \in [Tasks -> Seq(Steps)] /\ Locked' /\ NoMore /\ NoLess
<1>1. "player" \in Tasks /\ \A x : ~Has("player", x)
  BY NoStep DEF Tasks, Has, Idle
<1>2. << >> \in Seq(Steps) /\ Shaped(<< >>) /\ {"cancel", "send", "set"} \cap Range(<< >>) = {}
  BY NoStep
<1>3. QED
  BY ONLY <1>1, <1>2, CallBackTodo, TypeOK, Locked, Called("player", << >>), UNCHANGED mutex_lock

LEMMA TodoStep ==
  ASSUME TypeOK, Locked, [Next]_vars
  PROVE  TodoMay
<1>1. SUFFICES /\ todo' \in [Tasks -> Seq(Steps)] /\ Locked'
               /\ NoMore \/ \E t \in Tasks : \E m \in Modes : Begin(t, m)
               /\ NoLess \/ \E t \in Tasks : Stop(t) \/ SetSn(t)
  BY DEF TodoMay
<1>2. CASE \E t \in Tasks : TaskStep(t)
  <2> SUFFICES ASSUME NEW t \in Tasks, TaskStep(t)
               PROVE  /\ todo' \in [Tasks -> Seq(Steps)] /\ Locked'
                      /\ NoMore \/ \E m \in Modes : Begin(t, m)
                      /\ NoLess \/ Stop(t) \/ SetSn(t)
    BY <1>2
  <2>1. CASE Cancel(t)
    BY <2>1, CancelTodo
  <2>2. CASE Stop(t)
    BY <2>2, StopTodo
  <2>3. CASE Send(t)
    BY <2>3, SendTodo
  <2>4. CASE SetSn(t)
    BY <2>4, SetTodo
  <2>5. CASE \E m \in Modes : Begin(t, m)
    BY <2>5, BeginTodo
  <2>6. CASE \E k \in Tones : Say(t, k) \/ Unsaid(t, k)
    BY <2>6, SayTodo
  <2>7. QED
    BY <2>1, <2>2, <2>3, <2>4, <2>5, <2>6 DEF TaskStep
<1>3. ASSUME Idle("free_talk"), UNCHANGED mutex_lock,
             NEW q \in Seq(Steps), Shaped(q), {"send", "set"} \cap Range(q) = {},
             todo' = [todo EXCEPT !["free_talk"] = q]
      PROVE  todo' \in [Tasks -> Seq(Steps)] /\ Locked' /\ NoMore /\ NoLess
  <2>1. "free_talk" \in Tasks
    BY DEF Tasks
  <2>2. QED
    BY <1>3, <2>1, TodoBegins
<1>4. \A x \in {"stop", "start_continue", "say_wakeup", "say_reply", "say_plain"} :
         <<x>> \in Seq(Steps) /\ Shaped(<<x>>) /\ {"send", "set"} \cap Range(<<x>>) = {}
  <2>1. \A x \in {"stop", "start_continue", "say_wakeup", "say_reply", "say_plain"} :
           x \in Plain /\ x \notin {"send", "set"}
    BY DEF Plain, Steps, Starts
  <2>2. QED
    BY <2>1, OneStep
<1>5. << >> \in Seq(Steps) /\ Shaped(<< >>) /\ {"send", "set"} \cap Range(<< >>) = {}
  BY NoStep
<1>6. CASE Wakeup
  <2>1. PICK say \in {<< >>, IF online THEN <<"say_wakeup">> ELSE <<"say_plain">>} :
          todo' = [todo EXCEPT !["free_talk"] = <<"cancel", "stop">> \o say]
    BY <1>6 DEF Wakeup
  <2>2. say \in {<< >>, <<"say_wakeup">>, <<"say_plain">>}
    BY <2>1
  <2>3. /\ <<"cancel", "stop">> \o say \in Seq(Steps) /\ Shaped(<<"cancel", "stop">> \o say)
        /\ {"send", "set"} \cap Range(<<"cancel", "stop">> \o say) = {}
    BY <2>2, WakeSteps
  <2>4. Idle("free_talk") /\ UNCHANGED mutex_lock
    BY <1>6 DEF Wakeup, questionVars
  <2>5. QED
    BY <1>3, <2>1, <2>3, <2>4
<1>7. CASE OnResult
  <2>1. Idle("free_talk") /\ UNCHANGED mutex_lock
    BY <1>7 DEF OnResult, Next1, questionVars
  <2>2. \/ todo' = [todo EXCEPT !["free_talk"] = <<"say_reply">>]
        \/ todo' = [todo EXCEPT !["free_talk"] = <<"say_plain">>]
        \/ todo' = [todo EXCEPT !["free_talk"] = << >>]
    BY <1>7 DEF OnResult
  <2>3. QED
    BY <1>3, <1>4, <1>5, <2>1, <2>2
<1>8. CASE OnStartSilent
  <2>1. Idle("free_talk") /\ UNCHANGED mutex_lock
        /\ todo' = [todo EXCEPT !["free_talk"] = <<"start_continue">>]
    BY <1>8 DEF OnStartSilent, Next1, questionVars
  <2>2. QED
    BY <1>3, <1>4, <2>1
<1>9. CASE Process
  <2>1. Idle("free_talk") /\ UNCHANGED mutex_lock
        /\ (todo' = [todo EXCEPT !["free_talk"] = <<"stop">>] \/ UNCHANGED todo)
    BY <1>9 DEF Process, questionVars
  <2>2. QED
    BY <1>3, <1>4, <2>1, TodoUnchanged
<1>10. CASE Key
  <2>1. PICK q \in {<<"cancel", "stop", "say_plain">>,
                    <<"cancel", "stop", "say_plain", "start_translate">>,
                    <<"say_plain", "stop">>} : todo' = [todo EXCEPT !["keyboard"] = q]
    BY <1>10 DEF Key
  <2>2. "keyboard" \in Tasks /\ Idle("keyboard") /\ UNCHANGED mutex_lock
    BY <1>10 DEF Key, Tasks, questionVars
  <2>3. q \in Seq(Steps) /\ Shaped(q) /\ {"send", "set"} \cap Range(q) = {}
    BY KeySteps
  <2>4. QED
    BY <2>1, <2>2, <2>3, TodoBegins
<1>11. CASE ToneEnds \/ TonePauses
  <2>1. Idle("player") /\ Called("player", << >>) /\ UNCHANGED mutex_lock
    BY <1>11 DEF ToneEnds, TonePauses, Called, questionVars
  <2>2. QED
    BY <2>1, ToneTodo
<1>12. CASE Dismissed \/ Announced \/ EndDropped \/ ServiceStep \/ Overtaken \/ UNCHANGED vars
  <2>1. UNCHANGED <<todo, mutex_lock>>
    BY <1>12
    DEF Dismissed, Announced, EndDropped, ServiceStep, Frame, RecordingEnds, Answer, Overtaken,
        vars, questionVars
  <2>2. QED
    BY <2>1, TodoUnchanged
<1>13. QED
  BY <1>2, <1>6, <1>7, <1>8, <1>9, <1>10, <1>11, <1>12 DEF Next, FreeTalkStep

-----------------------------------------------------------------------------
(* Types                                                                    *)

Messages == [type : {"result", "silent"}, sn : 0..MaxSn]

Requests == [type : {"start", "stop"}, sn : 0..MaxSn]

\* What is queued and what is taken has its type.
LEMMA QueueTypes ==
  ASSUME TypeOK
  PROVE  /\ \A x \in Messages : Append(inbox, x) \in Seq(Messages)
         /\ inbox # << >> => Tail(inbox) \in Seq(Messages) /\ Head(inbox) \in Messages
         /\ inbox # << >> => \A x \in Messages : Append(Tail(inbox), x) \in Seq(Messages)
         /\ \A x \in Requests : Append(aip_queue, x) \in Seq(Requests)
         /\ aip_queue # << >> => Tail(aip_queue) \in Seq(Requests) /\ Head(aip_queue) \in Requests
         /\ \A x \in Frames : Append(pcm_queue, x) \in Seq(Frames)
         /\ pcm_queue # << >> => Tail(pcm_queue) \in Seq(Frames) /\ Head(pcm_queue) \in Frames
         /\ \A x \in Sn : Append(asr, x) \in Seq(Sn)
         /\ asr # << >> => Tail(asr) \in Seq(Sn) /\ Head(asr) \in Sn
<1>1. /\ inbox \in Seq(Messages) /\ aip_queue \in Seq(Requests)
      /\ pcm_queue \in Seq(Frames) /\ asr \in Seq(Sn)
  BY DEF TypeOK, Messages, Requests
<1>2. QED
  BY <1>1, AppendProperties, HeadTailProperties

LEMMA CountFacts ==
  /\ MaxSn \in Nat /\ MaxFrames \in Nat /\ MaxWakes \in Nat
  /\ MaxKeys \in Nat /\ MaxFaults \in Nat
BY BoundAssumption

FaultTypes == spoiled' \subseteq 0..MaxSn /\ unstopped' \in BOOLEAN /\ faults' \in 0..MaxFaults

\* A loss is counted.
LEMMA LoseTypes ==
  ASSUME TypeOK, NEW k \in 0..MaxSn, Lose(k) \/ UNCHANGED faultVars
  PROVE  FaultTypes /\ unstopped' = unstopped
<1>1. faults \in 0..MaxFaults /\ spoiled \subseteq 0..MaxSn /\ unstopped \in BOOLEAN
  BY DEF TypeOK
<1>2. unstopped' = unstopped
  BY DEF Lose, faultVars
<1>3. CASE Lose(k)
  <2>1. faults < MaxFaults /\ faults' = faults + 1 /\ spoiled' = spoiled \cup {k}
    BY <1>3 DEF Lose
  <2>2. spoiled' \subseteq 0..MaxSn /\ faults' \in 0..MaxFaults
    BY <1>1, <2>1, CountFacts
  <2>3. QED
    BY <1>1, <1>2, <2>2, Zenon DEF FaultTypes
<1>4. CASE UNCHANGED faultVars
  BY <1>1, <1>4 DEF faultVars, FaultTypes
<1>5. QED
  BY <1>2, <1>3, <1>4

\* Where a tone is played or over, and its callback may have been called.
ToneLike(t, rest) ==
  \/ CallBack(t, rest) /\ UNCHANGED faultVars
  \/ CallBackUnsent(t, rest)
  \/ CallBack(t, rest) /\ Lose(record_sn)
  \/ UNCHANGED inbox /\ Lose(record_sn)

LEMMA CallBackTypes ==
  ASSUME TypeOK, NEW t \in Tasks, NEW rest, ToneLike(t, rest)
  PROVE  inbox' \in Seq(Messages) /\ FaultTypes /\ unstopped' = unstopped
<1>1. StartSilent \in Messages /\ inbox \in Seq(Messages) /\ record_sn \in 0..MaxSn
  BY CountFacts DEF StartSilent, Messages, TypeOK
<1>2. inbox' = inbox \/ inbox' = Append(inbox, StartSilent)
  BY DEF ToneLike, CallBack, CallBackUnsent
<1>3. Lose(record_sn) \/ UNCHANGED faultVars
  BY DEF ToneLike, CallBackUnsent
<1>4. FaultTypes /\ unstopped' = unstopped
  BY <1>1, <1>3, LoseTypes
<1>5. QED
  BY <1>1, <1>2, <1>4, QueueTypes

LEMMA TypeStep ==
  ASSUME TypeOK, Locked, [Next]_vars,
         \A i \in DOMAIN aip_queue : aip_queue[i].type = "start" => aip_queue[i].sn > 0
  PROVE  TypeOK'
<1>t. todo' \in [Tasks -> Seq(Steps)]
  BY TodoStep DEF TodoMay
<1> USE <1>t, CountFacts DEF questionVars, serviceVars, aipVars, asrVars, toneVars, seenVars, counts,
            faultVars
<1>1. CASE \E t \in Tasks : TaskStep(t)
  <2> SUFFICES ASSUME NEW t \in Tasks, TaskStep(t) PROVE TypeOK'
    BY <1>1
  <2>1. CASE Cancel(t)
    BY <2>1 DEF TypeOK, Cancel
  <2>2. CASE Stop(t)
    <3>1. [type |-> "stop", sn |-> 0] \in Requests
      BY DEF Requests
    <3>2. aip_queue' \in Seq(Requests)
      BY <2>2, <3>1, QueueTypes DEF Stop, TypeOK, Requests
    <3>3. CASE UNCHANGED faultVars
      BY <2>2, <3>2, <3>3 DEF TypeOK, Stop, Requests
    <3>4. CASE faults < MaxFaults /\ faults' = faults + 1 /\ unstopped' = TRUE /\ UNCHANGED spoiled
      <4>1. faults' \in 0..MaxFaults
        BY <3>4, SMTT(30) DEF TypeOK
      <4>2. QED
        BY <2>2, <3>2, <3>4, <4>1 DEF TypeOK, Stop, Requests
    <3>5. QED
      BY <2>2, <3>3, <3>4 DEF Stop
  <2>3. CASE Send(t)
    <3>1. [type |-> "start", sn |-> taken] \in Requests
      BY DEF Requests, TypeOK
    <3>2. aip_queue' \in Seq(Requests)
      BY <2>3, <3>1, QueueTypes DEF Send, TypeOK, Requests
    <3>3. FaultTypes
      BY <2>3, LoseTypes DEF Send, TypeOK
    <3>4. QED
      BY <2>3, <3>2, <3>3 DEF TypeOK, Send, Requests, FaultTypes
  <2>4. CASE SetSn(t)
    BY <2>4 DEF TypeOK, SetSn
  <2>5. CASE \E m \in Modes : Begin(t, m)
    <3>1. taken' \in 0..MaxSn
      <4>1. taken' = taken + 1 /\ taken < MaxSn
        BY <2>5 DEF Begin
      <4>2. taken \in 0..MaxSn
        BY DEF TypeOK
      <4>3. QED
        BY ONLY <4>1, <4>2, CountFacts
    <3>2. mutex_lock' = t /\ mode' \in Modes
      BY <2>5 DEF Begin
    <3>3. UNCHANGED <<record_sn, need_cancel_record_sn, pcm_queue, serviceVars, inbox, aipVars, asrVars,
                      toneVars, seenVars, counts, faultVars>>
      BY <2>5, Zenon DEF Begin
    <3>4. QED
      BY <3>1, <3>2, <3>3 DEF TypeOK
  <2>6. ASSUME NEW k \in Tones, Say(t, k) \/ Unsaid(t, k) PROVE TypeOK'
    <3>1. ToneLike(t, Tail(todo[t]))
      BY <2>6 DEF Say, Unsaid, ToneLike
    <3>2. inbox' \in Seq(Messages) /\ FaultTypes
      BY <3>1, CallBackTypes
    <3>3. tone' \in Tones \cup {None} /\ over' \in BOOLEAN
      BY <2>6, Zenon DEF TypeOK, Say, Unsaid, toneVars
    <3>4. UNCHANGED <<questionVars, pcm_queue, serviceVars, taken, aipVars, asrVars, seenVars, counts>>
      BY <2>6, Zenon DEF Say, Unsaid
    <3>5. QED
      BY <3>2, <3>3, <3>4 DEF TypeOK, Messages, FaultTypes
  <2>7. QED
    BY <2>1, <2>2, <2>3, <2>4, <2>5, <2>6 DEF TaskStep
<1>2. CASE Wakeup
  BY <1>2, SMTT(30) DEF TypeOK, Wakeup
<1>3. CASE Announced
  BY <1>3 DEF TypeOK, Announced
<1>4. CASE OnResult
  <2>1. StartSilent \in Messages
    BY DEF StartSilent, Messages
  <2>2. inbox # << >> /\ answered' = Head(inbox).sn
        /\ (inbox' = Tail(inbox) \/ inbox' = Append(Tail(inbox), StartSilent))
        /\ (ended' = ended \/ ended' = ended \cup {record_sn})
        /\ (Lose(record_sn) \/ UNCHANGED faultVars)
    BY <1>4 DEF OnResult, Next1
  <2>3. inbox' \in Seq(Messages) /\ answered' \in 0..MaxSn
    BY <2>1, <2>2, QueueTypes DEF Messages
  <2>4. FaultTypes
    BY <2>2, LoseTypes DEF TypeOK
  <2>5. QED
    BY <1>4, <2>2, <2>3, <2>4 DEF TypeOK, OnResult, Messages, FaultTypes
<1>5. CASE OnStartSilent \/ Dismissed
  <2>1. inbox # << >> /\ inbox' = Tail(inbox)
    BY <1>5 DEF OnStartSilent, Dismissed, Next1
  <2>2. inbox' \in Seq(Messages)
    BY <2>1, QueueTypes
  <2>3. QED
    BY <1>5, <2>2 DEF TypeOK, OnStartSilent, Dismissed, Messages
<1>6. CASE Process
  <2>1. pcm_queue' \in Seq(Frames) /\ Head(pcm_queue) \in Frames
    BY <1>6, QueueTypes DEF Process
  <2>2. asr' \in Seq(Sn)
    <3>1. asr' = asr \/ asr' = Append(asr, Head(pcm_queue).sn)
      BY <1>6 DEF Process
    <3>2. Head(pcm_queue).sn \in Sn
      BY <2>1 DEF Frames
    <3>3. QED
      BY <3>1, <3>2, QueueTypes DEF TypeOK
  <2>s. Head(pcm_queue).sn \in 0..MaxSn
    BY <2>1 DEF Frames, Sn
  <2>3. FaultTypes /\ filed' \in 0..MaxSn
    <3>1. \/ Lose(Head(pcm_queue).sn)
          \/ UNCHANGED <<unstopped, faults>> /\ (spoiled' = spoiled \/ spoiled' = spoiled \cup {Head(pcm_queue).sn})
      BY <1>6 DEF Process
    <3>2. filed' = filed \/ filed' = Head(pcm_queue).sn
      BY <1>6 DEF Process
    <3>3. FaultTypes
      BY <2>s, <3>1, LoseTypes DEF TypeOK, FaultTypes
    <3>4. QED
      BY <2>s, <3>2, <3>3 DEF TypeOK
  <2>4. vad_enable' \in BOOLEAN
    BY <1>6, <2>1 DEF Process, TypeOK, Frames
  <2>5. UNCHANGED <<questionVars, online, inbox, taken, aipVars, toneVars, seenVars, counts>>
    BY <1>6 DEF Process
  <2>6. QED
    BY <2>1, <2>2, <2>3, <2>4, <2>5 DEF TypeOK, FaultTypes
<1>7. CASE Key
  BY <1>7 DEF TypeOK, Key
<1>8. CASE ToneEnds \/ TonePauses \/ EndDropped
  <2>1. CASE ToneEnds
    <3>1. "player" \in Tasks /\ ToneLike("player", << >>)
      BY <2>1 DEF ToneEnds, Tasks, ToneLike
    <3>2. inbox' \in Seq(Messages) /\ FaultTypes
      BY <3>1, CallBackTypes
    <3>3. QED
      BY <2>1, <3>2 DEF TypeOK, ToneEnds, Messages, FaultTypes
  <2>2. CASE TonePauses
    <3>1. inbox' = inbox \/ inbox' = Append(inbox, StartSilent)
      BY <2>2 DEF TonePauses, CallBack
    <3>2. StartSilent \in Messages /\ inbox \in Seq(Messages)
      BY DEF StartSilent, Messages, TypeOK
    <3>3. inbox' \in Seq(Messages)
      BY <3>1, <3>2, QueueTypes
    <3>4. faults' \in 0..MaxFaults
      BY <2>2, SMTT(30) DEF TonePauses, TypeOK
    <3>5. QED
      BY <2>2, <3>3, <3>4 DEF TypeOK, TonePauses, Messages
  <2>3. CASE EndDropped
    <3>1. FaultTypes
      BY <2>3, LoseTypes DEF EndDropped, TypeOK
    <3>2. QED
      BY <2>3, <3>1 DEF TypeOK, EndDropped, FaultTypes
  <2>4. QED
    BY <1>8, <2>1, <2>2, <2>3
<1>9. CASE Frame
  <2>1. [sn |-> recording, end |-> FALSE, first |-> frames = 0] \in Frames
    BY <1>9 DEF Frame, TypeOK, Frames
  <2>2. \/ UNCHANGED pcm_queue
        \/ pcm_queue' = Append(pcm_queue, [sn |-> recording, end |-> FALSE, first |-> frames = 0])
    BY <1>9 DEF Frame, Give
  <2>3. pcm_queue' \in Seq(Frames)
    BY <2>1, <2>2, QueueTypes DEF TypeOK
  <2>4. recording \in 0..MaxSn /\ (Lose(recording) \/ UNCHANGED faultVars)
    BY <1>9 DEF Frame, Give, TypeOK, Sn
  <2>5. FaultTypes
    BY <2>4, LoseTypes
  <2>6. QED
    BY <1>9, <2>3, <2>5 DEF TypeOK, Frame, FaultTypes
<1>10. CASE RecordingEnds
  <2>1. pcm_queue' \in Seq(Frames)
    <3>1. CASE recording = None
      BY <1>10, <3>1 DEF RecordingEnds, TypeOK
    <3>2. CASE recording # None
      <4>1. [sn |-> recording, end |-> TRUE, first |-> FALSE] \in Frames
        BY <3>2 DEF TypeOK, Frames
      <4>2. \/ UNCHANGED pcm_queue
            \/ pcm_queue' = Append(pcm_queue, [sn |-> recording, end |-> TRUE, first |-> FALSE])
        BY <1>10, <3>2 DEF RecordingEnds, Give
      <4>3. QED
        BY <4>1, <4>2, QueueTypes DEF TypeOK
    <3>3. QED
      BY <3>1, <3>2
  <2>2. aip_queue' \in Seq(Requests) /\ recording' \in Sn \cup {None}
    <3>1. CASE recording' = None /\ UNCHANGED aip_queue
      BY <3>1 DEF TypeOK, Requests
    <3>2. CASE /\ aip_queue # << >> /\ aip_queue' = Tail(aip_queue)
               /\ recording' = IF Head(aip_queue).type = "start" THEN Head(aip_queue).sn ELSE None
      <4>1. aip_queue \in Seq(Requests)
        BY DEF TypeOK, Requests
      <4>2. Head(aip_queue) = aip_queue[1] /\ 1 \in DOMAIN aip_queue /\ Head(aip_queue) \in Requests
            /\ Tail(aip_queue) \in Seq(Requests)
        BY <3>2, <4>1, TailPlaces, LenProperties
      <4>3. Head(aip_queue).type = "start" => Head(aip_queue).sn \in Sn
        BY <4>2 DEF Requests, Sn
      <4>4. QED
        BY <3>2, <4>2, <4>3
    <3>3. QED
      BY <1>10, <3>1, <3>2 DEF RecordingEnds
  <2>3. FaultTypes
    <3>1. CASE recording = None
      BY <1>10, <3>1 DEF RecordingEnds, TypeOK, FaultTypes
    <3>2. CASE recording # None
      <4>1. recording \in 0..MaxSn /\ (Lose(recording) \/ UNCHANGED faultVars)
        BY <1>10, <3>2 DEF RecordingEnds, Give, TypeOK, Sn
      <4>2. QED
        BY <4>1, LoseTypes
    <3>3. QED
      BY <3>1, <3>2
  <2>4. QED
    BY <1>10, <2>1, <2>2, <2>3 DEF TypeOK, RecordingEnds, Requests, FaultTypes
<1>11. CASE Answer
  <2>1. asr' \in Seq(Sn) /\ Head(asr) \in Sn
    BY <1>11, QueueTypes DEF Answer
  <2>2. [type |-> "result", sn |-> Head(asr)] \in Messages
    BY <2>1 DEF Messages, Sn
  <2>3. inbox' = inbox \/ inbox' = Append(inbox, [type |-> "result", sn |-> Head(asr)])
    BY <1>11 DEF Answer
  <2>4. inbox' \in Seq(Messages)
    BY <2>2, <2>3, QueueTypes DEF TypeOK, Messages
  <2>5. FaultTypes
    <3>1. Head(asr) \in 0..MaxSn /\ (Lose(Head(asr)) \/ UNCHANGED faultVars)
      BY <1>11, <2>1 DEF Answer, Sn
    <3>2. QED
      BY <3>1, LoseTypes
  <2>6. QED
    BY <1>11, <2>1, <2>4, <2>5 DEF TypeOK, Answer, Messages, FaultTypes
<1>12. CASE Overtaken
  BY <1>12 DEF TypeOK, Overtaken
<1>13. CASE UNCHANGED vars
  BY <1>13 DEF TypeOK, vars
<1>14. QED
  BY <1>1, <1>2, <1>3, <1>4, <1>5, <1>6, <1>7, <1>8, <1>9, <1>10, <1>11, <1>12, <1>13
  DEF Next, FreeTalkStep, ServiceStep

-----------------------------------------------------------------------------
(* The way of a recording, from its START to its result: what a step may do *)
(* at each place                                                            *)

StopRequest == [type |-> "stop", sn |-> 0]

EndOf(s) == [sn |-> s, end |-> TRUE, first |-> FALSE]

ResultOf(s) == [type |-> "result", sn |-> s]

TakenMay == UNCHANGED taken \/ (taken' = taken + 1 /\ \E t \in Tasks, m \in Modes : Begin(t, m))

\* a START or STOP is sent, or one is handled
StartsMay ==
  \/ UNCHANGED aip_queue
  \/ aip_queue' = Append(aip_queue, StopRequest) /\ UNCHANGED recording
  \/ /\ aip_queue' = Append(aip_queue, [type |-> "start", sn |-> taken])
     /\ UNCHANGED <<recording, taken>> /\ \E t \in Tasks : Send(t)
  \/ aip_queue # << >> /\ aip_queue' = Tail(aip_queue)

\* a recording is opened by the START that is handled, or none is
RecordMay ==
  \/ UNCHANGED recording
  \/ recording' = None
  \/ /\ aip_queue # << >> /\ aip_queue' = Tail(aip_queue)
     /\ Head(aip_queue).type = "start" /\ recording' = Head(aip_queue).sn

\* the one that was open gives its end, and no other
EndsMay ==
  \/ UNCHANGED pcm_queue
  \/ \E x \in Frames : ~x.end /\ pcm_queue' = Append(pcm_queue, x)
  \/ /\ recording # None /\ pcm_queue' = Append(pcm_queue, EndOf(recording))
     /\ \/ recording' = None
        \/ /\ aip_queue # << >> /\ aip_queue' = Tail(aip_queue)
           /\ Head(aip_queue).type = "start" /\ recording' = Head(aip_queue).sn
  \/ pcm_queue # << >> /\ pcm_queue' = Tail(pcm_queue)

\* an end that is taken from the queue goes to the recognition, or is refused or lost
AsrMay ==
  \/ UNCHANGED asr
  \/ /\ pcm_queue # << >> /\ pcm_queue' = Tail(pcm_queue) /\ Head(pcm_queue).end
     /\ asr' = Append(asr, Head(pcm_queue).sn)
  \/ asr # << >> /\ asr' = Tail(asr)

\* the result of the current recording is posted, a message is taken
ResultsMay ==
  \/ UNCHANGED inbox
  \/ inbox' = Append(inbox, StartSilent)
  \/ inbox # << >> /\ inbox' \in {Tail(inbox), Append(Tail(inbox), StartSilent)}
  \/ /\ asr # << >> /\ asr' = Tail(asr) /\ Head(asr) = record_sn
     /\ UNCHANGED record_sn /\ inbox' = Append(inbox, ResultOf(Head(asr)))

\* a result is processed
AnswerMay ==
  \/ UNCHANGED answered
  \/ /\ inbox # << >> /\ inbox' \in {Tail(inbox), Append(Tail(inbox), StartSilent)}
     /\ Head(inbox).type = "result" /\ answered' = Head(inbox).sn
     /\ ~Cancelled /\ UNCHANGED <<record_sn, cancelled>>

WayMay == TakenMay /\ StartsMay /\ RecordMay /\ EndsMay /\ AsrMay /\ ResultsMay /\ AnswerMay

LEMMA CallBackInbox ==
  ASSUME NEW t \in Tasks, NEW rest, Called(t, rest) \/ UNCHANGED inbox
  PROVE  UNCHANGED inbox \/ inbox' = Append(inbox, StartSilent)
BY DEF Called, CallBack, CallBackUnsent

LEMMA WayStep ==
  ASSUME TypeOK, [Next]_vars
  PROVE  WayMay
<1> USE DEF WayMay, TakenMay, StartsMay, RecordMay, EndsMay, AsrMay, ResultsMay, AnswerMay,
            questionVars, serviceVars, aipVars, asrVars, toneVars, seenVars, counts,
        faultVars
<1>1. CASE \E t \in Tasks : TaskStep(t)
  <2> SUFFICES ASSUME NEW t \in Tasks, TaskStep(t) PROVE WayMay
    BY <1>1
  <2>1. CASE Cancel(t)
    BY <2>1 DEF Cancel
  <2>2. CASE Stop(t)
    BY <2>2 DEF Stop, StopRequest
  <2>3. CASE Send(t)
    <3>1. UNCHANGED <<taken, recording, pcm_queue, asr, inbox, answered>>
          /\ (aip_queue' = Append(aip_queue, [type |-> "start", sn |-> taken]) \/ UNCHANGED aip_queue)
      BY <2>3 DEF Send
    <3>2. QED
      BY <2>3, <3>1
  <2>4. CASE SetSn(t)
    BY <2>4 DEF SetSn
  <2>5. CASE \E m \in Modes : Begin(t, m)
    <3>1. taken' = taken + 1 /\ UNCHANGED <<recording, pcm_queue, asr, inbox, answered, aip_queue>>
      BY <2>5 DEF Begin
    <3>2. QED
      BY <2>5, <3>1
  <2>6. CASE \E k \in Tones : Say(t, k) \/ Unsaid(t, k)
    <3>1. UNCHANGED inbox \/ inbox' = Append(inbox, StartSilent)
      BY <2>6, CallBackInbox DEF Say, Unsaid, Called
    <3>2. QED
      BY <2>6, <3>1 DEF Say, Unsaid
  <2>7. QED
    BY <2>1, <2>2, <2>3, <2>4, <2>5, <2>6 DEF TaskStep
<1>2. CASE Wakeup \/ Announced \/ Key \/ EndDropped \/ Overtaken \/ UNCHANGED vars
  BY <1>2 DEF Wakeup, Announced, Key, EndDropped, Overtaken, vars
<1>3. CASE OnResult
  <2>1. inbox' \in {Tail(inbox), Append(Tail(inbox), StartSilent)}
    BY <1>3 DEF OnResult
  <2>2. inbox # << >> /\ Head(inbox).type = "result" /\ answered' = Head(inbox).sn /\ ~Cancelled
        /\ UNCHANGED <<record_sn, cancelled, taken, recording, pcm_queue, asr, aip_queue>>
    BY <1>3 DEF OnResult, Next1
  <2>3. QED
    BY <2>1, <2>2
<1>4. CASE OnStartSilent \/ Dismissed
  BY <1>4 DEF OnStartSilent, Dismissed, Next1
<1>5. CASE Process
  <2>1. /\ pcm_queue # << >> /\ pcm_queue' = Tail(pcm_queue)
        /\ UNCHANGED <<taken, recording, inbox, answered, aip_queue>>
        /\ UNCHANGED asr \/ (Head(pcm_queue).end /\ asr' = Append(asr, Head(pcm_queue).sn))
    BY <1>5 DEF Process
  <2>2. QED
    BY <2>1
<1>6. CASE ToneEnds \/ TonePauses
  <2>1. UNCHANGED inbox \/ inbox' = Append(inbox, StartSilent)
    BY <1>6, CallBackInbox DEF ToneEnds, TonePauses, Called, Tasks
  <2>2. UNCHANGED <<taken, recording, pcm_queue, asr, answered, aip_queue>>
    BY <1>6 DEF ToneEnds, TonePauses
  <2>3. QED
    BY <2>1, <2>2
<1>7. CASE Frame
  <2>1. UNCHANGED pcm_queue \/ \E x \in Frames : ~x.end /\ pcm_queue' = Append(pcm_queue, x)
    <3>1. [sn |-> recording, end |-> FALSE, first |-> frames = 0] \in Frames
      BY <1>7 DEF Frame, TypeOK, Frames
    <3>2. \/ UNCHANGED pcm_queue
          \/ pcm_queue' = Append(pcm_queue, [sn |-> recording, end |-> FALSE, first |-> frames = 0])
      BY <1>7 DEF Frame, Give
    <3>3. QED
      BY <3>1, <3>2
  <2>2. UNCHANGED <<taken, recording, inbox, asr, answered, aip_queue>>
    BY <1>7 DEF Frame
  <2>3. QED
    BY <2>1, <2>2
<1>8. CASE RecordingEnds
  <2>1. UNCHANGED <<taken, inbox, asr, answered>>
    BY <1>8 DEF RecordingEnds
  <2>2. \/ recording' = None /\ UNCHANGED aip_queue
        \/ recording' = None /\ aip_queue # << >> /\ aip_queue' = Tail(aip_queue)
        \/ /\ aip_queue # << >> /\ aip_queue' = Tail(aip_queue)
           /\ Head(aip_queue).type = "start" /\ recording' = Head(aip_queue).sn
    BY <1>8 DEF RecordingEnds
  <2>3. UNCHANGED pcm_queue \/ (recording # None /\ pcm_queue' = Append(pcm_queue, EndOf(recording)))
    BY <1>8 DEF RecordingEnds, Give, EndOf
  <2>4. QED
    BY <2>1, <2>2, <2>3
<1>9. CASE Answer
  BY <1>9 DEF Answer, ResultOf
<1>10. QED
  BY <1>1, <1>2, <1>3, <1>4, <1>5, <1>6, <1>7, <1>8, <1>9 DEF Next, FreeTalkStep, ServiceStep

-----------------------------------------------------------------------------
(* What is younger than n stays so, from every place on                     *)

\* The places of a queue after one is appended, and after the first is taken.
LEMMA AppendAt ==
  ASSUME NEW S, NEW s \in Seq(S), NEW x \in S
  PROVE  /\ \A i \in DOMAIN Append(s, x) : \/ i \in DOMAIN s /\ Append(s, x)[i] = s[i]
                                           \/ i = Len(s) + 1 /\ Append(s, x)[i] = x
         /\ \A i \in DOMAIN s : i \in Nat /\ i < Len(s) + 1 /\ s[i] \in S
         /\ Len(s) \in Nat
<1>1. /\ Append(s, x) \in Seq(S) /\ Len(s) \in Nat /\ Len(Append(s, x)) = Len(s) + 1
      /\ \A i \in 1..Len(s) : Append(s, x)[i] = s[i]
      /\ Append(s, x)[Len(s) + 1] = x
  BY AppendPlaces
<1>2. DOMAIN s = 1..Len(s) /\ DOMAIN Append(s, x) = 1..(Len(s) + 1)
  BY <1>1, LenProperties
<1>3. QED
  BY <1>1, <1>2, ElementOfSeq

LEMMA TailAt ==
  ASSUME NEW S, NEW s \in Seq(S), s # << >>
  PROVE  /\ \A i \in DOMAIN Tail(s) : i \in Nat \ {0} /\ i + 1 \in DOMAIN s /\ Tail(s)[i] = s[i + 1]
         /\ \A i \in DOMAIN s : i \in Nat /\ s[i] \in S
         /\ 1 \in DOMAIN s /\ Head(s) = s[1]
<1>1. /\ Tail(s) \in Seq(S) /\ Len(s) \in Nat \ {0} /\ Len(Tail(s)) = Len(s) - 1
      /\ Head(s) = s[1]
      /\ \A i \in 1..(Len(s) - 1) : Tail(s)[i] = s[i + 1]
  BY TailPlaces
<1>2. DOMAIN s = 1..Len(s) /\ DOMAIN Tail(s) = 1..(Len(s) - 1)
  BY <1>1, LenProperties
<1>3. QED
  BY <1>1, <1>2, ElementOfSeq

LEMMA SeqTypes ==
  ASSUME TypeOK
  PROVE  /\ inbox \in Seq(Messages) /\ aip_queue \in Seq(Requests)
         /\ pcm_queue \in Seq(Frames) /\ asr \in Seq(Sn)
         /\ StartSilent \in Messages /\ StopRequest \in Requests
         /\ [type |-> "start", sn |-> taken] \in Requests
         /\ \A s \in Sn : EndOf(s) \in Frames /\ ResultOf(s) \in Messages
         /\ {record_sn, need_cancel_record_sn, taken, answered} \subseteq Nat
         /\ Sn \subseteq Nat /\ MaxSn \in Nat
<1>1. 0 \in 0..MaxSn /\ MaxSn \in Nat /\ Sn \subseteq 0..MaxSn
  BY CountFacts DEF Sn
<1>2. QED
  BY <1>1, SMTT(30) DEF TypeOK, Messages, Requests, Frames, StartSilent, StopRequest, EndOf, ResultOf

LEMMA SendAfterStays ==
  ASSUME TypeOK, TodoMay, TakenMay, NEW n \in Nat, SendAfter(n)
  PROVE  SendAfter(n)'
<1>1. taken \in Nat /\ n <= taken
  BY SeqTypes DEF SendAfter
<1>2. CASE taken' = taken + 1
  BY <1>1, <1>2 DEF SendAfter
<1>3. CASE UNCHANGED taken
  <2>1. NoMore
    BY <1>1, <1>3 DEF TodoMay, Begin
  <2>2. QED
    BY <1>3, <2>1 DEF SendAfter, NoMore
<1>4. QED
  BY <1>2, <1>3 DEF TakenMay

LEMMA StartAfterStays ==
  ASSUME TypeOK, Locked, TodoMay, WayMay, NEW n \in Nat, StartAfter(n)
  PROVE  StartAfter(n)'
<1>1. SendAfter(n)'
  BY SendAfterStays DEF StartAfter, WayMay
<1>2. \A i \in DOMAIN aip_queue : aip_queue[i].type = "start" => aip_queue[i].sn > n
  BY DEF StartAfter
<1>3. CASE UNCHANGED aip_queue
  BY <1>1, <1>2, <1>3 DEF StartAfter
<1>4. CASE aip_queue' = Append(aip_queue, StopRequest)
  <2>1. \A i \in DOMAIN aip_queue' : \/ i \in DOMAIN aip_queue /\ aip_queue'[i] = aip_queue[i]
                                     \/ aip_queue'[i] = StopRequest
    BY <1>4, SeqTypes, AppendAt
  <2>2. QED
    BY <1>1, <1>2, <2>1 DEF StartAfter, StopRequest
<1>5. CASE /\ aip_queue' = Append(aip_queue, [type |-> "start", sn |-> taken])
           /\ \E t \in Tasks : Send(t)
  <2>1. \A i \in DOMAIN aip_queue' : \/ i \in DOMAIN aip_queue /\ aip_queue'[i] = aip_queue[i]
                                     \/ aip_queue'[i] = [type |-> "start", sn |-> taken]
    BY <1>5, SeqTypes, AppendAt
  <2>2. taken > n
    <3>1. PICK t \in Tasks : Send(t)
      BY <1>5
    <3>2. Has(t, "send")
      BY <3>1, SendTodo
    <3>3. QED
      BY <3>2, SeqTypes DEF StartAfter, SendAfter
  <2>3. QED
    BY <1>1, <1>2, <2>1, <2>2 DEF StartAfter
<1>6. CASE aip_queue # << >> /\ aip_queue' = Tail(aip_queue)
  <2>1. \A i \in DOMAIN aip_queue' : i + 1 \in DOMAIN aip_queue /\ aip_queue'[i] = aip_queue[i + 1]
    BY <1>6, SeqTypes, TailAt
  <2>2. QED
    BY <1>1, <1>2, <2>1 DEF StartAfter
<1>7. QED
  BY <1>3, <1>4, <1>5, <1>6 DEF WayMay, StartsMay

LEMMA RecordAfterStays ==
  ASSUME TypeOK, Locked, TodoMay, WayMay, NEW n \in Nat, RecordAfter(n)
  PROVE  RecordAfter(n)'
<1>1. StartAfter(n)'
  BY StartAfterStays DEF RecordAfter
<1>2. CASE UNCHANGED recording \/ recording' = None
  BY <1>1, <1>2 DEF RecordAfter
<1>3. CASE /\ aip_queue # << >>
           /\ Head(aip_queue).type = "start" /\ recording' = Head(aip_queue).sn
  <2>1. 1 \in DOMAIN aip_queue /\ Head(aip_queue) = aip_queue[1]
    BY <1>3, SeqTypes, TailAt
  <2>2. QED
    BY <1>1, <1>3, <2>1 DEF RecordAfter, StartAfter
<1>4. QED
  BY <1>2, <1>3 DEF WayMay, RecordMay

LEMMA EndAfterStays ==
  ASSUME TypeOK, Locked, TodoMay, WayMay, NEW n \in Nat, EndAfter(n)
  PROVE  EndAfter(n)'
<1>1. RecordAfter(n)'
  BY RecordAfterStays DEF EndAfter
<1>2. \A i \in DOMAIN pcm_queue : pcm_queue[i].end => pcm_queue[i].sn > n
  BY DEF EndAfter
<1>3. CASE UNCHANGED pcm_queue
  BY <1>1, <1>2, <1>3 DEF EndAfter
<1>4. ASSUME NEW x \in Frames, x.end => x.sn > n, pcm_queue' = Append(pcm_queue, x)
      PROVE  EndAfter(n)'
  <2>1. \A i \in DOMAIN pcm_queue' : \/ i \in DOMAIN pcm_queue /\ pcm_queue'[i] = pcm_queue[i]
                                     \/ pcm_queue'[i] = x
    BY <1>4, SeqTypes, AppendAt
  <2>2. QED
    BY <1>1, <1>2, <1>4, <2>1 DEF EndAfter
<1>5. CASE recording # None /\ pcm_queue' = Append(pcm_queue, EndOf(recording))
  <2>1. recording \in Sn /\ recording > n
    BY <1>5 DEF TypeOK, EndAfter, RecordAfter
  <2>2. EndOf(recording) \in Frames /\ EndOf(recording).sn = recording
    BY <2>1, SeqTypes DEF EndOf
  <2>3. QED
    BY <1>4, <1>5, <2>1, <2>2
<1>6. CASE pcm_queue # << >> /\ pcm_queue' = Tail(pcm_queue)
  <2>1. \A i \in DOMAIN pcm_queue' : i + 1 \in DOMAIN pcm_queue /\ pcm_queue'[i] = pcm_queue[i + 1]
    BY <1>6, SeqTypes, TailAt
  <2>2. QED
    BY <1>1, <1>2, <2>1 DEF EndAfter
<1>7. QED
  BY <1>3, <1>4, <1>5, <1>6 DEF WayMay, EndsMay

LEMMA AsrAfterStays ==
  ASSUME TypeOK, Locked, TodoMay, WayMay, NEW n \in Nat, AsrAfter(n)
  PROVE  AsrAfter(n)'
<1>1. EndAfter(n)'
  BY EndAfterStays DEF AsrAfter
<1>2. \A i \in DOMAIN asr : asr[i] > n
  BY DEF AsrAfter
<1>3. CASE UNCHANGED asr
  BY <1>1, <1>2, <1>3 DEF AsrAfter
<1>4. CASE /\ pcm_queue # << >> /\ Head(pcm_queue).end
           /\ asr' = Append(asr, Head(pcm_queue).sn)
  <2>1. 1 \in DOMAIN pcm_queue /\ Head(pcm_queue) = pcm_queue[1] /\ Head(pcm_queue) \in Frames
    BY <1>4, SeqTypes, TailAt
  <2>2. Head(pcm_queue).sn > n /\ Head(pcm_queue).sn \in Sn
    BY <1>4, <2>1 DEF AsrAfter, EndAfter, Frames
  <2>3. \A i \in DOMAIN asr' : \/ i \in DOMAIN asr /\ asr'[i] = asr[i]
                               \/ asr'[i] = Head(pcm_queue).sn
    BY <1>4, <2>2, SeqTypes, AppendAt
  <2>4. QED
    BY <1>1, <1>2, <2>2, <2>3 DEF AsrAfter
<1>5. CASE asr # << >> /\ asr' = Tail(asr)
  <2>1. \A i \in DOMAIN asr' : i + 1 \in DOMAIN asr /\ asr'[i] = asr[i + 1]
    BY <1>5, SeqTypes, TailAt
  <2>2. QED
    BY <1>1, <1>2, <2>1 DEF AsrAfter
<1>6. QED
  BY <1>3, <1>4, <1>5 DEF WayMay, AsrMay

\* Where the results are after a step, and where they were before it.
LEMMA ResultsAt ==
  ASSUME TypeOK, ResultsMay
  PROVE  \/ \A i \in DOMAIN inbox' : inbox'[i].type = "result" =>
              i \in DOMAIN inbox /\ inbox'[i] = inbox[i]
         \/ /\ inbox # << >> /\ inbox' \in {Tail(inbox), Append(Tail(inbox), StartSilent)}
            /\ \A i \in DOMAIN inbox' : inbox'[i].type = "result" =>
                 i \in Nat \ {0} /\ i + 1 \in DOMAIN inbox /\ inbox'[i] = inbox[i + 1]
         \/ /\ asr # << >> /\ asr' = Tail(asr) /\ Head(asr) = record_sn /\ UNCHANGED record_sn
            /\ \A i \in DOMAIN inbox' :
                 \/ i \in DOMAIN inbox /\ inbox'[i] = inbox[i]
                 \/ i = Len(inbox) + 1 /\ inbox'[i] = ResultOf(Head(asr))
<1>0. /\ inbox \in Seq(Messages) /\ StartSilent \in Messages
      /\ StartSilent.type # "result" /\ ResultOf(Head(asr)).type = "result"
  BY SeqTypes DEF StartSilent, ResultOf
<1>1. CASE UNCHANGED inbox
  BY <1>1
<1>2. CASE inbox' = Append(inbox, StartSilent)
  BY <1>0, <1>2, AppendAt
<1>3. CASE inbox # << >> /\ inbox' = Tail(inbox)
  BY <1>0, <1>3, TailAt
<1>4. CASE inbox # << >> /\ inbox' = Append(Tail(inbox), StartSilent)
  <2>1. Tail(inbox) \in Seq(Messages)
    BY <1>0, <1>4, TailPlaces
  <2>2. \A i \in DOMAIN inbox' : inbox'[i].type = "result" =>
          i \in DOMAIN Tail(inbox) /\ inbox'[i] = Tail(inbox)[i]
    BY <1>0, <1>4, <2>1, AppendAt
  <2>3. \A i \in DOMAIN Tail(inbox) :
          i \in Nat \ {0} /\ i + 1 \in DOMAIN inbox /\ Tail(inbox)[i] = inbox[i + 1]
    BY <1>0, <1>4, TailAt
  <2>4. QED
    BY <1>4, <2>2, <2>3
<1>5. CASE /\ asr # << >> /\ asr' = Tail(asr) /\ Head(asr) = record_sn
           /\ UNCHANGED record_sn /\ inbox' = Append(inbox, ResultOf(Head(asr)))
  <2>1. Head(asr) \in Sn
    BY <1>5, SeqTypes, TailPlaces
  <2>2. ResultOf(Head(asr)) \in Messages
    BY <2>1, SeqTypes
  <2>3. QED
    BY <1>0, <1>5, <2>2, AppendAt
<1>6. QED
  BY <1>1, <1>2, <1>3, <1>4, <1>5 DEF ResultsMay

LEMMA ResultAfterStays ==
  ASSUME TypeOK, Locked, TodoMay, WayMay, NEW n \in Nat, ResultAfter(n)
  PROVE  ResultAfter(n)'
<1>1. AsrAfter(n)'
  BY AsrAfterStays DEF ResultAfter
<1>2. \A i \in DOMAIN inbox : inbox[i].type = "result" => inbox[i].sn > n
  BY DEF ResultAfter
<1>3. asr # << >> => Head(asr) > n
  <2>1. asr # << >> => 1 \in DOMAIN asr /\ Head(asr) = asr[1]
    BY SeqTypes, TailAt
  <2>2. QED
    BY <2>1 DEF ResultAfter, AsrAfter
<1>4. \A i \in DOMAIN inbox' : inbox'[i].type = "result" => inbox'[i].sn > n
  BY <1>2, <1>3, ResultsAt DEF WayMay, ResultOf
<1>5. QED
  BY <1>1, <1>4 DEF ResultAfter

-----------------------------------------------------------------------------
(* Each place in turn                                                       *)

LEMMA StartsStep ==
  ASSUME TypeOK, Locked, Numbered, TodoMay, WayMay, StartsInTurn
  PROVE  StartsInTurn'
<1>0. /\ aip_queue \in Seq(Requests) /\ StopRequest.type # "start"
      /\ \A i \in DOMAIN aip_queue :
           i \in Nat /\ aip_queue[i].sn \in 0..MaxSn /\ aip_queue[i].sn \in Nat
  <2>1. aip_queue \in Seq(Requests)
    BY SeqTypes
  <2>2. \A i \in DOMAIN aip_queue : i \in Nat /\ aip_queue[i] \in Requests
    BY <2>1, LenProperties, ElementOfSeq
  <2>3. QED
    BY <2>1, <2>2, CountFacts DEF StopRequest, Requests
<1>1. SUFFICES ASSUME NEW i \in DOMAIN aip_queue', NEW n \in 0..MaxSn,
                      aip_queue'[i].type = "start", aip_queue'[i].sn = n
               PROVE  /\ n > 0 /\ SendAfter(n)'
                      /\ \A j \in DOMAIN aip_queue' :
                           j > i /\ aip_queue'[j].type = "start" => aip_queue'[j].sn > n
  BY DEF StartsInTurn
<1>n. n \in Nat /\ taken \in Nat
  BY SeqTypes
<1>2. ASSUME SendAfter(n) PROVE SendAfter(n)'
  BY <1>2, <1>n, SendAfterStays DEF WayMay
<1>3. CASE UNCHANGED aip_queue
  BY <1>1, <1>2, <1>3 DEF StartsInTurn
<1>4. CASE aip_queue' = Append(aip_queue, StopRequest)
  <2>1. \A k \in DOMAIN aip_queue' : \/ k \in DOMAIN aip_queue /\ aip_queue'[k] = aip_queue[k]
                                     \/ aip_queue'[k].type # "start"
    BY <1>0, <1>4, SeqTypes, AppendAt
  <2>2. QED
    BY <1>1, <1>2, <2>1 DEF StartsInTurn
<1>5. CASE /\ aip_queue' = Append(aip_queue, [type |-> "start", sn |-> taken])
           /\ UNCHANGED taken /\ \E t \in Tasks : Send(t)
  <2>1. /\ \A k \in DOMAIN aip_queue' : \/ k \in DOMAIN aip_queue /\ aip_queue'[k] = aip_queue[k]
                                        \/ k = Len(aip_queue) + 1 /\ aip_queue'[k].sn = taken
        /\ \A k \in DOMAIN aip_queue : k < Len(aip_queue) + 1 /\ k \in Nat
        /\ Len(aip_queue) \in Nat
    BY <1>5, SeqTypes, AppendAt
  <2>2. PICK t \in Tasks : Send(t)
    BY <1>5
  <2>3. Has(t, "send") /\ \A u \in Tasks : ~Has(u, "send")'
    BY <2>2, SendTodo
  <2>4. CASE i \in DOMAIN aip_queue /\ aip_queue'[i] = aip_queue[i]
    <3>1. /\ n > 0 /\ SendAfter(n)
          /\ \A j \in DOMAIN aip_queue : j > i /\ aip_queue[j].type = "start" => aip_queue[j].sn > n
      BY <1>1, <2>4 DEF StartsInTurn
    <3>2. taken > n
      BY <2>3, <3>1, <1>n DEF SendAfter
    <3>3. QED
      BY <1>2, <2>1, <3>1, <3>2
  <2>5. CASE i = Len(aip_queue) + 1 /\ aip_queue'[i].sn = taken
    <3>1. n = taken
      BY <1>1, <2>5
    <3>2. taken > 0
      <4>1. Has(t, "set")
        BY <2>3, SendHolds
      <4>2. QED
        BY <4>1, SeqTypes DEF Numbered
    <3>3. SendAfter(n)'
      BY <1>5, <1>n, <2>3, <3>1 DEF SendAfter
    <3>4. \A j \in DOMAIN aip_queue' : ~(j > i)
      BY <2>1, <2>5
    <3>5. QED
      BY <3>1, <3>2, <3>3, <3>4
  <2>6. QED
    BY <2>1, <2>4, <2>5
<1>6. CASE aip_queue # << >> /\ aip_queue' = Tail(aip_queue)
  <2>1. \A k \in DOMAIN aip_queue' :
          k \in Nat /\ k + 1 \in DOMAIN aip_queue /\ aip_queue'[k] = aip_queue[k + 1]
    BY <1>6, SeqTypes, TailAt
  <2>2. /\ n > 0 /\ SendAfter(n)
        /\ \A j \in DOMAIN aip_queue :
             j > i + 1 /\ aip_queue[j].type = "start" => aip_queue[j].sn > n
    BY <1>1, <2>1 DEF StartsInTurn
  <2>3. QED
    BY <1>1, <1>2, <2>1, <2>2
<1>7. QED
  BY <1>3, <1>4, <1>5, <1>6 DEF WayMay, StartsMay

LEMMA RecordStep ==
  ASSUME TypeOK, Locked, TodoMay, WayMay, StartsInTurn, RecordInTurn
  PROVE  RecordInTurn'
<1>1. SUFFICES ASSUME NEW n \in Sn, recording' = n PROVE StartAfter(n)'
  BY DEF RecordInTurn
<1>2. n \in Nat /\ n \in 0..MaxSn /\ n # None
  BY SeqTypes, NoneAssumption DEF Sn
<1>3. CASE UNCHANGED recording
  BY <1>1, <1>2, <1>3, StartAfterStays DEF RecordInTurn
<1>4. CASE /\ aip_queue # << >> /\ aip_queue' = Tail(aip_queue)
           /\ Head(aip_queue).type = "start" /\ recording' = Head(aip_queue).sn
  <2>1. /\ \A k \in DOMAIN aip_queue' :
             k \in Nat \ {0} /\ k + 1 \in DOMAIN aip_queue /\ aip_queue'[k] = aip_queue[k + 1]
        /\ 1 \in DOMAIN aip_queue /\ Head(aip_queue) = aip_queue[1]
    BY <1>4, SeqTypes, TailAt
  <2>2. /\ SendAfter(n)
        /\ \A j \in DOMAIN aip_queue : j > 1 /\ aip_queue[j].type = "start" => aip_queue[j].sn > n
    BY <1>1, <1>2, <1>4, <2>1 DEF StartsInTurn
  <2>3. SendAfter(n)'
    BY <1>2, <2>2, SendAfterStays DEF WayMay
  <2>4. QED
    BY <2>1, <2>2, <2>3 DEF StartAfter
<1>5. QED
  BY <1>1, <1>2, <1>3, <1>4 DEF WayMay, RecordMay

LEMMA EndsStep ==
  ASSUME TypeOK, Locked, TodoMay, WayMay, StartsInTurn, RecordInTurn, EndsInTurn
  PROVE  EndsInTurn'
<1>1. SUFFICES ASSUME NEW i \in DOMAIN pcm_queue', NEW n \in Sn,
                      pcm_queue'[i].end, pcm_queue'[i].sn = n
               PROVE  /\ RecordAfter(n)'
                      /\ \A j \in DOMAIN pcm_queue' :
                           j > i /\ pcm_queue'[j].end => pcm_queue'[j].sn > n
  BY DEF EndsInTurn
<1>n. n \in Nat
  BY SeqTypes
<1>2. ASSUME RecordAfter(n) PROVE RecordAfter(n)'
  BY <1>2, <1>n, RecordAfterStays
<1>3. CASE UNCHANGED pcm_queue
  BY <1>1, <1>2, <1>3 DEF EndsInTurn
<1>4. CASE \E x \in Frames : ~x.end /\ pcm_queue' = Append(pcm_queue, x)
  <2>1. PICK x \in Frames : ~x.end /\ pcm_queue' = Append(pcm_queue, x)
    BY <1>4
  <2>2. \A k \in DOMAIN pcm_queue' : \/ k \in DOMAIN pcm_queue /\ pcm_queue'[k] = pcm_queue[k]
                                     \/ ~pcm_queue'[k].end
    BY <2>1, SeqTypes, AppendAt
  <2>3. QED
    BY <1>1, <1>2, <2>2 DEF EndsInTurn
<1>5. CASE /\ recording # None /\ pcm_queue' = Append(pcm_queue, EndOf(recording))
           /\ \/ recording' = None
              \/ /\ aip_queue # << >> /\ aip_queue' = Tail(aip_queue)
                 /\ Head(aip_queue).type = "start" /\ recording' = Head(aip_queue).sn
  <2>0. recording \in Sn /\ EndOf(recording) \in Frames /\ EndOf(recording).sn = recording
    BY <1>5, SeqTypes DEF TypeOK, EndOf
  <2>1. /\ \A k \in DOMAIN pcm_queue' : \/ k \in DOMAIN pcm_queue /\ pcm_queue'[k] = pcm_queue[k]
                                        \/ k = Len(pcm_queue) + 1 /\ pcm_queue'[k].sn = recording
        /\ \A k \in DOMAIN pcm_queue : k < Len(pcm_queue) + 1 /\ k \in Nat
        /\ Len(pcm_queue) \in Nat
    BY <1>5, <2>0, SeqTypes, AppendAt
  <2>2. CASE i \in DOMAIN pcm_queue /\ pcm_queue'[i] = pcm_queue[i]
    <3>1. /\ RecordAfter(n)
          /\ \A j \in DOMAIN pcm_queue : j > i /\ pcm_queue[j].end => pcm_queue[j].sn > n
      BY <1>1, <2>2 DEF EndsInTurn
    <3>2. recording > n
      BY <1>5, <3>1 DEF RecordAfter
    <3>3. QED
      BY <1>2, <2>1, <3>1, <3>2
  <2>3. CASE i = Len(pcm_queue) + 1 /\ pcm_queue'[i].sn = recording
    <3>1. recording = n /\ StartAfter(n)
      BY <1>1, <2>3 DEF RecordInTurn
    <3>2. StartAfter(n)'
      BY <3>1, <1>n, StartAfterStays
    <3>3. recording' # None => recording' > n
      <4>1. ASSUME aip_queue # << >>, Head(aip_queue).type = "start" PROVE Head(aip_queue).sn > n
        <5>1. 1 \in DOMAIN aip_queue /\ Head(aip_queue) = aip_queue[1]
          BY <4>1, SeqTypes, TailAt
        <5>2. QED
          BY <3>1, <4>1, <5>1 DEF StartAfter
      <4>2. QED
        BY <1>5, <4>1
    <3>4. \A j \in DOMAIN pcm_queue' : ~(j > i)
      BY <2>1, <2>3
    <3>5. QED
      BY <3>2, <3>3, <3>4 DEF RecordAfter
  <2>4. QED
    BY <2>1, <2>2, <2>3
<1>6. CASE pcm_queue # << >> /\ pcm_queue' = Tail(pcm_queue)
  <2>1. \A k \in DOMAIN pcm_queue' :
          k \in Nat /\ k + 1 \in DOMAIN pcm_queue /\ pcm_queue'[k] = pcm_queue[k + 1]
    BY <1>6, SeqTypes, TailAt
  <2>2. /\ RecordAfter(n)
        /\ \A j \in DOMAIN pcm_queue : j > i + 1 /\ pcm_queue[j].end => pcm_queue[j].sn > n
    BY <1>1, <2>1 DEF EndsInTurn
  <2>3. QED
    BY <1>1, <1>2, <2>1, <2>2
<1>7. QED
  BY <1>3, <1>4, <1>5, <1>6 DEF WayMay, EndsMay

\* The end that is first in pcm_queue, and what is behind it.
LEMMA FirstEnd ==
  ASSUME TypeOK, Locked, TodoMay, WayMay, EndsInTurn, NEW n \in Sn,
         pcm_queue # << >>, pcm_queue' = Tail(pcm_queue), Head(pcm_queue).end, Head(pcm_queue).sn = n
  PROVE  EndAfter(n)'
<1>1. /\ \A k \in DOMAIN pcm_queue' :
           k \in Nat \ {0} /\ k + 1 \in DOMAIN pcm_queue /\ pcm_queue'[k] = pcm_queue[k + 1]
      /\ 1 \in DOMAIN pcm_queue /\ Head(pcm_queue) = pcm_queue[1]
  BY SeqTypes, TailAt
<1>2. /\ RecordAfter(n)
      /\ \A j \in DOMAIN pcm_queue : j > 1 /\ pcm_queue[j].end => pcm_queue[j].sn > n
  BY <1>1 DEF EndsInTurn
<1>3. RecordAfter(n)'
  BY <1>2, SeqTypes, RecordAfterStays
<1>4. \A k \in DOMAIN pcm_queue' : pcm_queue'[k].end => pcm_queue'[k].sn > n
  BY <1>1, <1>2
<1>5. QED
  BY <1>3, <1>4 DEF EndAfter

LEMMA AsrStep ==
  ASSUME TypeOK, Locked, TodoMay, WayMay, EndsInTurn, AsrInTurn
  PROVE  AsrInTurn'
<1>1. SUFFICES ASSUME NEW i \in DOMAIN asr', NEW n \in Sn, asr'[i] = n
               PROVE  EndAfter(n)' /\ \A j \in DOMAIN asr' : j > i => asr'[j] > n
  BY DEF AsrInTurn
<1>n. n \in Nat
  BY SeqTypes
<1>2. ASSUME EndAfter(n) PROVE EndAfter(n)'
  BY <1>2, <1>n, EndAfterStays
<1>3. CASE UNCHANGED asr
  BY <1>1, <1>2, <1>3 DEF AsrInTurn
<1>4. CASE /\ pcm_queue # << >> /\ pcm_queue' = Tail(pcm_queue) /\ Head(pcm_queue).end
           /\ asr' = Append(asr, Head(pcm_queue).sn)
  <2>f. 1 \in DOMAIN pcm_queue /\ Head(pcm_queue) = pcm_queue[1] /\ Head(pcm_queue) \in Frames
    BY <1>4, SeqTypes, TailAt
  <2>0. 1 \in DOMAIN pcm_queue /\ Head(pcm_queue) = pcm_queue[1] /\ Head(pcm_queue).sn \in Sn
    BY <2>f DEF Frames
  <2>1. /\ \A k \in DOMAIN asr' : \/ k \in DOMAIN asr /\ asr'[k] = asr[k]
                                  \/ k = Len(asr) + 1 /\ asr'[k] = Head(pcm_queue).sn
        /\ \A k \in DOMAIN asr : k < Len(asr) + 1 /\ k \in Nat
        /\ Len(asr) \in Nat
    <3> DEFINE x == Head(pcm_queue).sn
    <3>1. asr \in Seq(Sn) /\ x \in Sn /\ asr' = Append(asr, x)
      BY <1>4, <2>0, SeqTypes
    <3> HIDE DEF x
    <3>2. /\ \A k \in DOMAIN asr' : \/ k \in DOMAIN asr /\ asr'[k] = asr[k]
                                    \/ k = Len(asr) + 1 /\ asr'[k] = x
          /\ \A k \in DOMAIN asr : k < Len(asr) + 1 /\ k \in Nat
          /\ Len(asr) \in Nat
      BY <3>1, AppendAt
    <3>3. QED
      BY <3>2 DEF x
  <2>2. CASE i \in DOMAIN asr /\ asr'[i] = asr[i]
    <3>1. EndAfter(n) /\ \A j \in DOMAIN asr : j > i => asr[j] > n
      BY <1>1, <2>2 DEF AsrInTurn
    <3>2. Head(pcm_queue).sn > n
      BY <1>4, <2>0, <3>1 DEF EndAfter
    <3>3. QED
      BY <1>2, <2>1, <3>1, <3>2
  <2>3. CASE i = Len(asr) + 1 /\ asr'[i] = Head(pcm_queue).sn
    <3>1. EndAfter(n)'
      BY <1>1, <1>4, <2>3, FirstEnd
    <3>2. \A j \in DOMAIN asr' : ~(j > i)
      BY <2>1, <2>3
    <3>3. QED
      BY <3>1, <3>2
  <2>4. QED
    BY <2>1, <2>2, <2>3
<1>5. CASE asr # << >> /\ asr' = Tail(asr)
  <2>1. \A k \in DOMAIN asr' : k \in Nat /\ k + 1 \in DOMAIN asr /\ asr'[k] = asr[k + 1]
    BY <1>5, SeqTypes, TailAt
  <2>2. EndAfter(n) /\ \A j \in DOMAIN asr : j > i + 1 => asr[j] > n
    BY <1>1, <2>1 DEF AsrInTurn
  <2>3. QED
    BY <1>1, <1>2, <2>1, <2>2
<1>6. QED
  BY <1>3, <1>4, <1>5 DEF WayMay, AsrMay

\* The end that the recognition answers, and what is behind it.
LEMMA FirstAsr ==
  ASSUME TypeOK, Locked, TodoMay, WayMay, AsrInTurn, NEW n \in Sn,
         asr # << >>, asr' = Tail(asr), Head(asr) = n
  PROVE  AsrAfter(n)'
<1>1. /\ \A k \in DOMAIN asr' : k \in Nat \ {0} /\ k + 1 \in DOMAIN asr /\ asr'[k] = asr[k + 1]
      /\ 1 \in DOMAIN asr /\ Head(asr) = asr[1]
  BY SeqTypes, TailAt
<1>2. EndAfter(n) /\ \A j \in DOMAIN asr : j > 1 => asr[j] > n
  BY <1>1 DEF AsrInTurn
<1>3. EndAfter(n)'
  BY <1>2, SeqTypes, EndAfterStays
<1>4. \A k \in DOMAIN asr' : asr'[k] > n
  BY <1>1, <1>2
<1>5. QED
  BY <1>3, <1>4 DEF AsrAfter

LEMMA ResultsStep ==
  ASSUME TypeOK, Locked, TodoMay, WayMay, AsrInTurn, ResultsInTurn
  PROVE  ResultsInTurn'
<1>1. SUFFICES ASSUME NEW i \in DOMAIN inbox', NEW n \in 0..MaxSn,
                      inbox'[i].type = "result", inbox'[i].sn = n
               PROVE  /\ AsrAfter(n)'
                      /\ \A j \in DOMAIN inbox' :
                           j > i /\ inbox'[j].type = "result" => inbox'[j].sn > n
  BY DEF ResultsInTurn
<1>n. n \in Nat /\ \A k \in DOMAIN inbox : k \in 1..Len(inbox) /\ Len(inbox) \in Nat
  BY SeqTypes, LenProperties
<1>2. ASSUME AsrAfter(n) PROVE AsrAfter(n)'
  BY <1>2, <1>n, AsrAfterStays
<1>3. CASE \A k \in DOMAIN inbox' : inbox'[k].type = "result" =>
              k \in DOMAIN inbox /\ inbox'[k] = inbox[k]
  <2>1. i \in DOMAIN inbox /\ inbox'[i] = inbox[i]
    BY <1>1, <1>3
  <2>2. /\ AsrAfter(n)
        /\ \A j \in DOMAIN inbox : j > i /\ inbox[j].type = "result" => inbox[j].sn > n
    BY <1>1, <2>1 DEF ResultsInTurn
  <2>3. QED
    BY <1>2, <1>3, <2>2
<1>4. CASE \A k \in DOMAIN inbox' : inbox'[k].type = "result" =>
              k \in Nat \ {0} /\ k + 1 \in DOMAIN inbox /\ inbox'[k] = inbox[k + 1]
  <2>1. i \in Nat /\ i + 1 \in DOMAIN inbox /\ inbox'[i] = inbox[i + 1]
    BY <1>1, <1>4
  <2>2. /\ AsrAfter(n)
        /\ \A j \in DOMAIN inbox : j > i + 1 /\ inbox[j].type = "result" => inbox[j].sn > n
    BY <1>1, <2>1 DEF ResultsInTurn
  <2>3. \A j \in DOMAIN inbox' : j > i /\ inbox'[j].type = "result" => inbox'[j].sn > n
    BY <1>4, <2>1, <2>2
  <2>4. QED
    BY <1>2, <2>2, <2>3
<1>5. CASE /\ asr # << >> /\ asr' = Tail(asr) /\ Head(asr) = record_sn /\ UNCHANGED record_sn
           /\ \A k \in DOMAIN inbox' : \/ k \in DOMAIN inbox /\ inbox'[k] = inbox[k]
                                       \/ k = Len(inbox) + 1 /\ inbox'[k] = ResultOf(Head(asr))
  <2>1. Head(asr) \in Sn /\ 1 \in DOMAIN asr /\ Head(asr) = asr[1] /\ ResultOf(Head(asr)).sn = Head(asr)
    BY <1>5, SeqTypes, TailAt DEF ResultOf
  <2>2. CASE i \in DOMAIN inbox /\ inbox'[i] = inbox[i]
    <3>1. /\ AsrAfter(n)
          /\ \A j \in DOMAIN inbox : j > i /\ inbox[j].type = "result" => inbox[j].sn > n
      BY <1>1, <2>2 DEF ResultsInTurn
    <3>2. Head(asr) > n
      BY <2>1, <3>1 DEF AsrAfter
    <3>3. QED
      BY <1>2, <1>5, <2>1, <3>1, <3>2
  <2>3. CASE i = Len(inbox) + 1 /\ inbox'[i] = ResultOf(Head(asr))
    <3>1. n \in Sn /\ Head(asr) = n
      BY <1>1, <2>1, <2>3
    <3>2. AsrAfter(n)'
      BY <1>5, <3>1, FirstAsr
    <3>3. Len(inbox) \in Nat
      BY SeqTypes, LenProperties
    <3>4. \A j \in DOMAIN inbox' : ~(j > i)
      BY <1>5, <1>n, <2>3, <3>3
    <3>5. QED
      BY <3>2, <3>4
  <2>4. QED
    BY <1>5, <2>2, <2>3
<1>6. QED
  BY <1>3, <1>4, <1>5, ResultsAt DEF WayMay

LEMMA AnswersStep ==
  ASSUME TypeOK, Locked, TodoMay, WayMay, ResultsInTurn, AnswersAhead
  PROVE  AnswersAhead'
<1>1. SUFFICES ASSUME NEW n \in 0..MaxSn, answered' = n PROVE ResultAfter(n)'
  BY DEF AnswersAhead
<1>n. n \in Nat
  BY SeqTypes
<1>2. CASE UNCHANGED answered
  BY <1>1, <1>2, <1>n, ResultAfterStays DEF AnswersAhead
<1>3. CASE /\ inbox # << >> /\ inbox' \in {Tail(inbox), Append(Tail(inbox), StartSilent)}
           /\ Head(inbox).type = "result" /\ answered' = Head(inbox).sn
  <2>1. 1 \in DOMAIN inbox /\ Head(inbox) = inbox[1] /\ Tail(inbox) \in Seq(Messages)
        /\ \A k \in DOMAIN Tail(inbox) :
             k \in Nat \ {0} /\ k + 1 \in DOMAIN inbox /\ Tail(inbox)[k] = inbox[k + 1]
    BY <1>3, SeqTypes, TailAt, TailPlaces
  <2>2. /\ AsrAfter(n)
        /\ \A j \in DOMAIN inbox : j > 1 /\ inbox[j].type = "result" => inbox[j].sn > n
    BY <1>1, <1>3, <2>1 DEF ResultsInTurn
  <2>3. AsrAfter(n)'
    BY <1>n, <2>2, AsrAfterStays
  <2>4. \A k \in DOMAIN inbox' : inbox'[k].type = "result" =>
          k \in DOMAIN Tail(inbox) /\ inbox'[k] = Tail(inbox)[k]
    <3>1. StartSilent.type # "result" /\ StartSilent \in Messages
      BY SeqTypes DEF StartSilent
    <3>2. CASE inbox' = Tail(inbox)
      BY <3>2
    <3>3. CASE inbox' = Append(Tail(inbox), StartSilent)
      BY <2>1, <3>1, <3>3, AppendAt
    <3>4. QED
      BY <1>3, <3>2, <3>3
  <2>5. \A k \in DOMAIN inbox' : inbox'[k].type = "result" => inbox'[k].sn > n
    BY <2>1, <2>2, <2>4
  <2>6. QED
    BY <2>3, <2>5 DEF ResultAfter
<1>4. QED
  BY <1>2, <1>3 DEF WayMay, AnswerMay

-----------------------------------------------------------------------------
(* The numbers, and the stop that comes                                     *)

\* Which steps touch the numbers or the recording service.
LEMMA NumbersMay ==
  ASSUME TypeOK, [Next]_vars
  PROVE  /\ unstopped => unstopped'
         /\ \/ \E t \in Tasks : Cancel(t) \/ Stop(t) \/ Send(t) \/ SetSn(t)
            \/ RecordingEnds
            \/ UNCHANGED <<record_sn, need_cancel_record_sn, cancelled, aip_queue, recording>>
<1> USE DEF questionVars, serviceVars, aipVars, asrVars, toneVars, seenVars, counts,
        faultVars
<1>1. ASSUME NEW t \in Tasks, TaskStep(t)
      PROVE  /\ unstopped => unstopped'
             /\ \/ Cancel(t) \/ Stop(t) \/ Send(t) \/ SetSn(t)
                \/ UNCHANGED <<record_sn, need_cancel_record_sn, cancelled, aip_queue, recording>>
  <2>1. CASE Cancel(t) \/ Stop(t) \/ Send(t) \/ SetSn(t)
    BY <2>1 DEF Cancel, Stop, Send, SetSn, Lose
  <2>2. CASE \E m \in Modes : Begin(t, m)
    BY <2>2 DEF Begin
  <2>3. CASE \E k \in Tones : Say(t, k) \/ Unsaid(t, k)
    BY <2>3 DEF Say, Unsaid, CallBackUnsent, Lose
  <2>4. QED
    BY <1>1, <2>1, <2>2, <2>3 DEF TaskStep
<1>2. CASE Wakeup \/ Announced \/ Key \/ EndDropped \/ Overtaken \/ UNCHANGED vars
  BY <1>2 DEF Wakeup, Announced, Key, EndDropped, Overtaken, Lose, vars
<1>3. CASE OnResult \/ OnStartSilent \/ Dismissed
  BY <1>3 DEF OnResult, OnStartSilent, Dismissed, Lose
<1>4. CASE Process
  BY <1>4 DEF Process, Lose
<1>5. CASE ToneEnds \/ TonePauses
  BY <1>5 DEF ToneEnds, TonePauses, CallBackUnsent, Lose
<1>6. CASE Frame \/ Answer
  BY <1>6 DEF Frame, Give, Answer, Lose
<1>7. CASE RecordingEnds
  BY <1>7 DEF RecordingEnds, Give, Lose
<1>8. QED
  BY <1>1, <1>2, <1>3, <1>4, <1>5, <1>6, <1>7 DEF Next, FreeTalkStep, ServiceStep

LEMMA NumberedStep ==
  ASSUME TypeOK, Locked, Numbered, TodoMay, WayMay, [Next]_vars
  PROVE  Numbered'
<1>0. /\ {record_sn, need_cancel_record_sn, taken} \subseteq Nat /\ \A c \in cancelled : c \in Nat
      /\ need_cancel_record_sn <= record_sn /\ record_sn <= taken
      /\ \A c \in cancelled : c <= need_cancel_record_sn
  BY CountFacts DEF Numbered, TypeOK
<1>t. taken' \in Nat /\ taken <= taken'
  BY <1>0 DEF WayMay, TakenMay
<1>1. \/ UNCHANGED <<record_sn, need_cancel_record_sn, cancelled>>
      \/ /\ UNCHANGED record_sn /\ need_cancel_record_sn' = record_sn
         /\ cancelled' = cancelled \cup {record_sn}
      \/ /\ \E t \in Tasks : SetSn(t)
         /\ record_sn' = taken /\ taken' = taken /\ UNCHANGED <<need_cancel_record_sn, cancelled>>
  BY NumbersMay
  DEF Cancel, Stop, Send, SetSn, RecordingEnds, questionVars, seenVars
<1>2. record_sn' \in Nat /\ record_sn <= record_sn' /\ record_sn' <= taken'
  BY <1>0, <1>1, <1>t
<1>3. /\ need_cancel_record_sn' <= record_sn' /\ need_cancel_record_sn <= need_cancel_record_sn'
      /\ need_cancel_record_sn' \in Nat
      /\ \A c \in cancelled' : c <= need_cancel_record_sn'
  BY <1>0, <1>1, <1>2
<1>4. ASSUME NEW t \in Tasks, Has(t, "set")' PROVE record_sn' < taken'
  <2>1. CASE \E u \in Tasks : SetSn(u)
    BY <1>4, <2>1, SetTodo
  <2>2. CASE UNCHANGED record_sn
    <3>1. CASE NoMore
      BY <1>0, <1>4, <1>t, <2>2, <3>1 DEF NoMore, Numbered
    <3>2. CASE \E u \in Tasks : \E m \in Modes : Begin(u, m)
      BY <1>0, <2>2, <3>2 DEF Begin
    <3>3. QED
      BY <3>1, <3>2 DEF TodoMay
  <2>3. QED
    BY <1>1, <2>1, <2>2
<1>5. ASSUME NEW i \in DOMAIN inbox', inbox'[i].type = "result" PROVE inbox'[i].sn <= record_sn'
  <2>1. \A k \in DOMAIN inbox : inbox[k].type = "result" =>
          inbox[k].sn <= record_sn /\ inbox[k].sn \in Nat
    <3>1. \A k \in DOMAIN inbox : inbox[k] \in Messages
      BY SeqTypes, LenProperties, ElementOfSeq
    <3>2. QED
      BY <3>1, CountFacts DEF Numbered, Messages
  <2>2. \/ inbox'[i].sn = record_sn
        \/ \E k \in DOMAIN inbox : inbox[k].type = "result" /\ inbox'[i] = inbox[k]
    BY <1>5, ResultsAt DEF WayMay, ResultOf
  <2>3. QED
    BY <1>0, <1>2, <2>1, <2>2
<1>6. QED
  BY <1>2, <1>3, <1>4, <1>5 DEF Numbered

LEMMA StopStep ==
  ASSUME TypeOK, Locked, Numbered, StopComes, TodoMay, [Next]_vars
  PROVE  StopComes'
<1> USE DEF questionVars, serviceVars, aipVars, asrVars, toneVars, seenVars, counts,
        faultVars
<1>0. /\ {record_sn, need_cancel_record_sn, taken} \subseteq Nat
      /\ need_cancel_record_sn <= record_sn /\ (unstopped => unstopped')
      /\ aip_queue \in Seq(Requests)
  BY NumbersMay, SeqTypes DEF Numbered
<1> SUFFICES ASSUME Cancelled', ~unstopped'
             PROVE  \/ \E t \in Tasks : Has(t, "stop")' \/ Has(t, "set")'
                    \/ aip_queue' = << >> /\ recording' = None
                    \/ aip_queue' # << >> /\ aip_queue'[Len(aip_queue')].type = "stop"
  BY DEF StopComes
<1>1. ASSUME NEW t \in Tasks, SetSn(t) PROVE FALSE
  <2>1. record_sn < taken
    BY <1>1, SetTodo DEF Numbered
  <2>2. record_sn' = taken /\ need_cancel_record_sn' = need_cancel_record_sn
    BY <1>1 DEF SetSn
  <2>3. need_cancel_record_sn' = record_sn'
    BY DEF Cancelled
  <2>4. QED
    BY <1>0, <2>1, <2>2, <2>3
<1>2. ASSUME NEW t \in Tasks, Cancel(t) PROVE Has(t, "stop")'
  BY <1>2, CancelTodo
<1>3. ASSUME NEW t \in Tasks, Send(t) PROVE Has(t, "set")'
  BY <1>3, SendTodo, SendHolds DEF NoLess
<1>4. ASSUME NEW t \in Tasks, Stop(t)
      PROVE  aip_queue' # << >> /\ aip_queue'[Len(aip_queue')].type = "stop"
  <2>1. aip_queue' = Append(aip_queue, StopRequest)
    BY <1>4 DEF Stop, StopRequest
  <2>2. /\ aip_queue' \in Seq(Requests) /\ Len(aip_queue) \in Nat
        /\ Len(aip_queue') = Len(aip_queue) + 1 /\ aip_queue'[Len(aip_queue) + 1] = StopRequest
    BY <1>0, <2>1, SeqTypes, AppendPlaces
  <2>3. QED
    BY <2>2, EmptySeq DEF StopRequest
<1>5. ASSUME NoLess, UNCHANGED <<record_sn, need_cancel_record_sn>>
      PROVE  \/ \E t \in Tasks : Has(t, "stop")' \/ Has(t, "set")'
             \/ aip_queue = << >> /\ recording = None
             \/ aip_queue # << >> /\ aip_queue[Len(aip_queue)].type = "stop"
  <2>1. Cancelled /\ ~unstopped
    BY <1>0, <1>5 DEF Cancelled
  <2>2. QED
    BY <1>5, <2>1 DEF StopComes, NoLess
<1>6. CASE UNCHANGED <<record_sn, need_cancel_record_sn, aip_queue, recording>>
           /\ \A t \in Tasks : ~Stop(t)
  <2>1. NoLess
    BY <1>1, <1>6 DEF TodoMay
  <2>2. QED
    BY <1>5, <1>6, <2>1
<1>7. CASE RecordingEnds /\ \A t \in Tasks : ~Stop(t)
  <2>1. NoLess /\ UNCHANGED <<record_sn, need_cancel_record_sn>>
    BY <1>1, <1>7 DEF TodoMay, RecordingEnds
  <2>2. CASE recording' = None /\ UNCHANGED aip_queue
    BY <1>5, <2>1, <2>2
  <2>3. CASE /\ aip_queue # << >> /\ aip_queue' = Tail(aip_queue)
             /\ recording' = IF Head(aip_queue).type = "start" THEN Head(aip_queue).sn ELSE None
    <3>1. /\ Tail(aip_queue) \in Seq(Requests) /\ Head(aip_queue) = aip_queue[1]
          /\ Len(aip_queue) \in Nat \ {0} /\ Len(Tail(aip_queue)) = Len(aip_queue) - 1
          /\ \A i \in 1..(Len(aip_queue) - 1) : Tail(aip_queue)[i] = aip_queue[i + 1]
      BY <1>0, <2>3, TailPlaces
    <3>2. SUFFICES ASSUME aip_queue[Len(aip_queue)].type = "stop"
                   PROVE  \/ aip_queue' = << >> /\ recording' = None
                          \/ aip_queue' # << >> /\ aip_queue'[Len(aip_queue')].type = "stop"
      BY <1>5, <2>1, <2>3
    <3>3. CASE Len(aip_queue) = 1
      <4>1. aip_queue' = << >>
        BY <2>3, <3>1, <3>3, EmptySeq
      <4>2. QED
        BY <2>3, <3>1, <3>2, <3>3, <4>1
    <3>4. CASE Len(aip_queue) # 1
      <4>1. Len(aip_queue') = Len(aip_queue) - 1
        BY <2>3, <3>1
      <4>2. Len(aip_queue) - 1 \in 1..(Len(aip_queue) - 1)
        BY <3>1, <3>4
      <4>3. aip_queue' # << >>
        BY <3>1, <3>4, <4>1
      <4>4. aip_queue'[Len(aip_queue')] = aip_queue[(Len(aip_queue) - 1) + 1]
            /\ (Len(aip_queue) - 1) + 1 = Len(aip_queue)
        BY <2>3, <3>1, <4>1, <4>2
      <4>5. QED
        BY <3>2, <4>3, <4>4
    <3>5. QED
      BY <3>3, <3>4
  <2>4. QED
    BY <1>7, <2>2, <2>3 DEF RecordingEnds
<1>8. QED
  BY <1>1, <1>2, <1>3, <1>4, <1>6, <1>7, NumbersMay

-----------------------------------------------------------------------------
(* The theorems                                                             *)

LEMMA InitTalkInv ==
  ASSUME Init
  PROVE  TalkInv
<1>0. << >> \in Seq(Steps) /\ Shaped(<< >>) /\ Range(<< >>) = {}
  BY NoStep
<1>1. TypeOK
  <2>1. /\ pcm_queue \in Seq(Frames) /\ asr \in Seq(Sn)
        /\ inbox \in Seq([type : {"result", "silent"}, sn : 0..MaxSn])
        /\ aip_queue \in Seq([type : {"start", "stop"}, sn : 0..MaxSn])
    BY EmptySeq DEF Init
  <2>2. todo \in [Tasks -> Seq(Steps)]
    BY <1>0 DEF Init
  <2>3. /\ {record_sn, need_cancel_record_sn, taken, answered} \subseteq 0..MaxSn
        /\ frames \in 0..MaxFrames /\ wakes \in 0..MaxWakes /\ keys \in 0..MaxKeys
        /\ filed \in 0..MaxSn /\ faults \in 0..MaxFaults
    BY CountFacts DEF Init
  <2>4. QED
    BY <2>1, <2>2, <2>3 DEF Init, TypeOK, Modes
<1>2. \A t \in Tasks : todo[t] = << >>
  BY DEF Init
<1>3. \A t \in Tasks : \A x : ~Has(t, x)
  BY <1>0, <1>2 DEF Has
<1>4. Locked
  BY <1>0, <1>2, <1>3 DEF Locked
<1>5. DOMAIN inbox = {} /\ DOMAIN aip_queue = {} /\ DOMAIN pcm_queue = {} /\ DOMAIN asr = {}
  BY DEF Init
<1>6. Numbered
  BY <1>3, <1>5 DEF Init, Numbered
<1>7. StopComes
  BY DEF Init, StopComes
<1>8. recording = None /\ taken = 0 /\ answered = 0
  BY DEF Init
<1>9. StartsInTurn /\ EndsInTurn /\ AsrInTurn /\ ResultsInTurn
  BY <1>5 DEF StartsInTurn, EndsInTurn, AsrInTurn, ResultsInTurn
<1>10. RecordInTurn
  BY <1>8, NoneAssumption DEF RecordInTurn, Sn
<1>11. AnswersAhead
  BY <1>3, <1>5, <1>8
  DEF AnswersAhead, ResultAfter, AsrAfter, EndAfter, RecordAfter, StartAfter, SendAfter
<1>12. QED
  BY <1>1, <1>4, <1>6, <1>7, <1>9, <1>10, <1>11 DEF TalkInv, InTurn

LEMMA NextTalkInv ==
  ASSUME TalkInv, [Next]_vars
  PROVE  TalkInv'
<1>1. /\ TypeOK /\ Locked /\ Numbered /\ StopComes
      /\ StartsInTurn /\ RecordInTurn /\ EndsInTurn /\ AsrInTurn /\ ResultsInTurn /\ AnswersAhead
  BY DEF TalkInv, InTurn
<1>2. TodoMay /\ Locked'
  BY <1>1, TodoStep DEF TodoMay
<1>3. WayMay
  BY <1>1, WayStep
<1>4. TypeOK'
  <2>1. \A i \in DOMAIN aip_queue : aip_queue[i].type = "start" => aip_queue[i].sn > 0
    <3>1. \A i \in DOMAIN aip_queue : aip_queue[i] \in Requests
      BY <1>1, SeqTypes, LenProperties, ElementOfSeq
    <3>2. QED
      BY <1>1, <3>1 DEF StartsInTurn, Requests
  <2>2. QED
    BY <1>1, <2>1, TypeStep
<1>5. Numbered'
  BY <1>1, <1>2, <1>3, NumberedStep
<1>6. StopComes'
  BY <1>1, <1>2, StopStep
<1>7. StartsInTurn' /\ RecordInTurn' /\ EndsInTurn' /\ AsrInTurn' /\ ResultsInTurn' /\ AnswersAhead'
  BY <1>1, <1>2, <1>3, StartsStep, RecordStep, EndsStep, AsrStep, ResultsStep, AnswersStep
<1>8. QED
  BY <1>2, <1>4, <1>5, <1>6, <1>7 DEF TalkInv, InTurn

LEMMA TalkInvAlways == Spec => []TalkInv
<1>1. Init => TalkInv
  BY InitTalkInv
<1>2. TalkInv /\ [Next]_vars => TalkInv'
  BY NextTalkInv
<1>3. QED
  BY <1>1, <1>2, PTL DEF Spec

\* A conversation that was cancelled listens to nothing once the functions that start
\* or stop a recording have returned: free_talk_terminated and free_talk_start.
THEOREM CancelStopsListening == Spec => []MicrophoneOff
<1>1. TalkInv => MicrophoneOff
  BY DEF TalkInv, MicrophoneOff, StopComes
<1>2. QED
  BY <1>1, TalkInvAlways, PTL


\* Results are processed in the order of the questions, each once, and never that of
\* a cancelled question unless another was asked since: APP_EVENT_FREE_TALK_RESULT.
THEOREM ResultsInOrder == Spec => AnswersInTurn
<1>1. ASSUME TalkInv, [Next]_vars, answered' # answered
      PROVE  answered' > answered /\ (answered' \in cancelled => record_sn > answered')
  <2>1. TypeOK /\ Numbered /\ AnswersAhead
    BY <1>1 DEF TalkInv, InTurn
  <2>2. /\ inbox # << >> /\ Head(inbox).type = "result" /\ answered' = Head(inbox).sn
        /\ ~Cancelled
    BY <1>1, <2>1, WayStep DEF WayMay, AnswerMay
  <2>3. 1 \in DOMAIN inbox /\ Head(inbox) = inbox[1] /\ inbox[1] \in Messages
    BY <2>1, <2>2, SeqTypes, TailAt
  <2>4. /\ {record_sn, need_cancel_record_sn, answered'} \subseteq Nat
        /\ answered \in 0..MaxSn /\ \A c \in cancelled : c \in Nat
    BY <2>1, <2>2, <2>3, CountFacts DEF TypeOK, Messages
  <2>5. answered' > answered
    BY <2>1, <2>2, <2>3, <2>4 DEF AnswersAhead, ResultAfter
  <2>6. answered' <= record_sn /\ need_cancel_record_sn < record_sn
    BY <2>1, <2>2, <2>3, <2>4 DEF Numbered, Cancelled
  <2>7. answered' \in cancelled => answered' <= need_cancel_record_sn
    BY <2>1 DEF Numbered
  <2>8. QED
    BY <2>4, <2>5, <2>6, <2>7
<1>2. TalkInv /\ [Next]_vars =>
        [answered' # answered =>
           /\ answered' > answered
           /\ answered' \in cancelled => record_sn > answered']_vars
  BY <1>1
<1>3. QED
  BY <1>2, TalkInvAlways, PTL DEF Spec, AnswersInTurn

-----------------------------------------------------------------------------
(* A conversation that is cancelled stays so                                *)

Loud == Starts \cup {"say_wakeup"}

\* What starts nothing keeps the conversation quiet: no step more that starts one ...
LEMMA QuietStays ==
  ASSUME Quiet, Cancelled', tone' # "wakeup",
         \A u \in Tasks : \A x \in Loud : Has(u, x)' => Has(u, x)
  PROVE  Quiet'
BY DEF Quiet, Loud

\* ... as of a task that begins a function without one ...
LEMMA QuietBegins ==
  ASSUME TypeOK, Quiet, Cancelled', tone' # "wakeup", NEW t \in Tasks, NEW q \in Seq(Steps),
         todo' = [todo EXCEPT ![t] = q], Loud \cap Range(q) = {}
  PROVE  Quiet'
<1>1. \A u \in Tasks : \A x : Has(u, x)' <=> IF u = t THEN x \in Range(q) ELSE Has(u, x)
  BY TodoFrame
<1>2. QED
  BY <1>1, QuietStays

\* ... or of the callback of a tone that is not the wakeup's.
LEMMA QuietCallBack ==
  ASSUME TypeOK, Quiet, Cancelled', tone' # "wakeup", NEW t \in Tasks, NEW rest \in Seq(Steps),
         Shaped(rest), {"cancel", "send", "set"} \cap Range(rest) = {}, Called(t, rest),
         Loud \cap Range(rest) = {}
  PROVE  Quiet'
<1>1. PICK q \in Seq(Steps) :
           /\ todo' = [todo EXCEPT ![t] = q]
           /\ Shaped(q) /\ Range(rest) \subseteq Range(q)
           /\ {"cancel", "send", "set"} \cap Range(q) = {}
           /\ tone # "wakeup" => Range(q) = Range(rest)
  BY CallBackFacts
<1>2. Range(q) = Range(rest)
  BY <1>1 DEF Quiet
<1>3. QED
  BY <1>1, <1>2, QuietBegins

LEMMA QuietTask ==
  ASSUME TypeOK, Locked, Quiet, NEW t \in Tasks, TaskStep(t)
  PROVE  Quiet'
<1> USE DEF questionVars, serviceVars, aipVars, asrVars, toneVars, seenVars, counts,
        faultVars
<1>1. \A x \in Loud : ~Now(t, x)
  BY NowFacts DEF Quiet, Loud
<1>2. ASSUME ~Idle(t), Done(t), Cancelled', UNCHANGED tone PROVE Quiet'
  <2>1. \A u \in Tasks : \A x : Has(u, x)' => Has(u, x)
    BY <1>2, DoneFacts
  <2>2. QED
    BY <1>2, <2>1, QuietStays DEF Quiet
<1>3. CASE Cancel(t)
  <2>1. ~Idle(t) /\ Done(t) /\ UNCHANGED tone /\ Cancelled'
    BY <1>3 DEF Cancel, Now, Cancelled
  <2>2. QED
    BY <1>2, <2>1
<1>4. CASE Stop(t)
  <2>1. ~Idle(t) /\ Done(t) /\ UNCHANGED tone /\ Cancelled'
    BY <1>4 DEF Stop, Now, Cancelled, Quiet
  <2>2. QED
    BY <1>2, <2>1
<1>5. ~Send(t) /\ ~SetSn(t)
  BY <1>1 DEF Send, SetSn, Loud, Starts
<1>6. ~\E m \in Modes : Begin(t, m)
  BY <1>1 DEF Begin, Starting, Loud, Starts
<1>7. ASSUME NEW k \in Tones, Say(t, k) \/ Unsaid(t, k) PROVE Quiet'
  <2> DEFINE r == Tail(todo[t])
  <2>1. /\ Now(t, Saying(k)) /\ UNCHANGED <<record_sn, need_cancel_record_sn>>
        /\ \/ Called(t, r) /\ tone' \in {k, None}
           \/ Done(t) /\ UNCHANGED tone
    BY <1>7 DEF Say, Unsaid, Called
  <2>2. k # "wakeup"
    BY <1>1, <2>1 DEF Saying, Loud
  <2>3. Saying(k) \notin {"cancel", "send", "set", "stop"}
    BY DEF Saying
  <2>4. /\ Head(todo[t]) = Saying(k)
        /\ todo[t] \in Seq(Steps) /\ todo[t] # << >> /\ Shaped(todo[t])
    BY <2>1, NowFacts
  <2>5. /\ r \in Seq(Steps) /\ Shaped(r) /\ {"cancel", "send", "set"} \cap Range(r) = {}
        /\ Range(r) \subseteq Range(todo[t])
    BY <2>3, <2>4, TailTodo
  <2>6. Loud \cap Range(r) = {}
    BY <2>5 DEF Quiet, Loud, Has
  <2>7. Cancelled'
    BY <2>1 DEF Cancelled, Quiet
  <2>8. CASE Done(t) /\ UNCHANGED tone
    BY <1>2, <2>1, <2>7, <2>8, NowFacts
  <2> HIDE DEF r
  <2>9. CASE Called(t, r) /\ tone' \in {k, None}
    <3>1. tone' # "wakeup"
      BY <2>2, <2>9, NoneAssumption DEF Tones
    <3>2. QED
      BY <2>5, <2>6, <2>7, <2>9, <3>1, QuietCallBack
  <2>10. QED
    BY <2>1, <2>8, <2>9
<1>8. QED
  BY <1>3, <1>4, <1>5, <1>6, <1>7 DEF TaskStep

LEMMA QuietNext ==
  ASSUME TypeOK, Locked, Quiet, [Next]_vars
  PROVE  Quiet' \/ wakes' # wakes \/ keys' # keys
<1> USE DEF questionVars, serviceVars, aipVars, asrVars, toneVars, seenVars, counts,
        faultVars
<1>1. CASE Wakeup \/ Key
  <2>1. wakes \in Nat /\ keys \in Nat
    BY CountFacts DEF TypeOK
  <2>2. wakes' = wakes + 1 \/ keys' = keys + 1
    BY <1>1 DEF Wakeup, Key
  <2>3. QED
    BY <2>1, <2>2
<1>2. ~OnResult /\ ~OnStartSilent /\ ~Process
  BY DEF OnResult, OnStartSilent, Process, Quiet
<1>3. CASE ToneEnds \/ TonePauses
  <2>1. /\ Called("player", << >>) /\ "player" \in Tasks
        /\ UNCHANGED <<record_sn, need_cancel_record_sn>> /\ (tone' = None \/ UNCHANGED tone)
    BY <1>3 DEF ToneEnds, TonePauses, Called, Tasks
  <2>2. Cancelled' /\ tone' # "wakeup"
    BY <2>1, NoneAssumption DEF Quiet, Cancelled, Tones
  <2>3. << >> \in Seq(Steps) /\ Shaped(<< >>) /\ Range(<< >>) = {}
    BY NoStep
  <2>4. {"cancel", "send", "set"} \cap Range(<< >>) = {} /\ Loud \cap Range(<< >>) = {}
    BY <2>3
  <2>5. QED
    BY ONLY TypeOK, Quiet, <2>1, <2>2, <2>3, <2>4, QuietCallBack
<1>4. CASE Dismissed \/ Announced \/ EndDropped \/ ServiceStep \/ Overtaken \/ UNCHANGED vars
  <2>1. UNCHANGED <<todo, tone, record_sn, need_cancel_record_sn>>
    BY <1>4 DEF Dismissed, Announced, EndDropped, ServiceStep, Frame, RecordingEnds, Answer,
                Overtaken, vars
  <2>2. QED
    BY <2>1 DEF Quiet, Has, Cancelled
<1>5. QED
  BY <1>1, <1>2, <1>3, <1>4, QuietTask DEF Next, FreeTalkStep

\* Whatever comes of the questions asked before, a conversation that is cancelled stays
\* so until somebody wakes the device or presses a key: free_talk_terminated.
THEOREM CancelledStaysQuiet == Spec => StaysQuiet
<1>1. ASSUME TalkInv, [Next]_vars, Quiet
      PROVE  Quiet' \/ wakes' # wakes \/ keys' # keys
  BY <1>1, QuietNext DEF TalkInv
<1>2. TalkInv /\ [Next]_vars => [Quiet => Quiet' \/ wakes' # wakes \/ keys' # keys]_vars
  BY <1>1
<1>3. QED
  BY <1>2, TalkInvAlways, PTL DEF Spec, StaysQuiet

=============================================================================
