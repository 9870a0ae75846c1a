--------------------------- MODULE MpushMsg_proofs ---------------------------
(***************************************************************************)
(* Proofs about MpushMsg, for any messages and any bounds on losses and     *)
(* faults.  MpushInv is the inductive invariant: that a message is queued   *)
(* once needs that one still with the server was not queued before          *)
(* (CountInv), and that what comes over the wire is what the server still   *)
(* keeps, each message once (WireInv).                                      *)
(*                                                                          *)
(* What a step does to the counts and to the wire is put in two lemmas      *)
(* first, CountStep and WireStep; the parts of the invariant follow.        *)
(***************************************************************************)
EXTENDS MpushMsg, Queues_proofs, FiniteSetTheorems

USE NoneAssumption, BoundAssumption, SpokenAssumption, FramesAssumption

Places(s, m) == {i \in DOMAIN s : s[i] = m}

\* t is s and more, and holds m once in what is more
Longer(s, t, m) ==
  /\ Len(s) <= Len(t)
  /\ \A i \in 1..Len(s) : t[i] = s[i]
  /\ \A i, j \in (Len(s) + 1)..Len(t) : t[i] = m /\ t[j] = m => i = j

-----------------------------------------------------------------------------
(* How often a message is in a queue                                       *)

LEMMA PlacesFinite ==
  ASSUME NEW S, NEW s \in Seq(S), NEW m
  PROVE  /\ IsFiniteSet(Places(s, m))
         /\ Cardinality(Places(s, m)) \in Nat
<1>1. Len(s) \in Nat /\ DOMAIN s = 1..Len(s)
  BY LenProperties
<1>2. IsFiniteSet(1..Len(s))
  BY <1>1, FS_Interval
<1>3. Places(s, m) \subseteq 1..Len(s)
  BY <1>1 DEF Places
<1>4. QED
  BY <1>2, <1>3, FS_Subset, FS_CardinalityType

\* A queue that got longer holds a message once more if what was added has it.
LEMMA CountLonger ==
  ASSUME NEW S, NEW s \in Seq(S), NEW t \in Seq(S), NEW m, Longer(s, t, m)
  PROVE  /\ (\E i \in (Len(s) + 1)..Len(t) : t[i] = m)
              => Cardinality(Places(t, m)) = Cardinality(Places(s, m)) + 1
         /\ ~(\E i \in (Len(s) + 1)..Len(t) : t[i] = m)
              => Cardinality(Places(t, m)) = Cardinality(Places(s, m))
<1>1. /\ Len(s) \in Nat /\ DOMAIN s = 1..Len(s)
      /\ Len(t) \in Nat /\ DOMAIN t = 1..Len(t)
  BY LenProperties
<1>2. CASE \E i \in (Len(s) + 1)..Len(t) : t[i] = m
  <2>1. PICK i \in (Len(s) + 1)..Len(t) : t[i] = m
    BY <1>2
  <2>2. Places(t, m) = Places(s, m) \cup {i}
    BY <1>1, <2>1 DEF Places, Longer
  <2>3. i \notin Places(s, m)
    BY <1>1, <2>1 DEF Places
  <2>4. QED
    BY <1>2, <2>2, <2>3, PlacesFinite, FS_AddElement
<1>3. CASE ~\E i \in (Len(s) + 1)..Len(t) : t[i] = m
  <2>1. Places(t, m) = Places(s, m)
    BY <1>1, <1>3 DEF Places, Longer
  <2>2. QED
    BY <1>3, <2>1
<1>4. QED
  BY <1>2, <1>3

\* Taking the head of a queue takes it out once.
LEMMA CountTail ==
  ASSUME NEW S, NEW s \in Seq(S), s # << >>, NEW m
  PROVE  Cardinality(Places(s, m)) =
           IF Head(s) = m THEN Cardinality(Places(Tail(s), m)) + 1
           ELSE Cardinality(Places(Tail(s), m))
<1>1. /\ Tail(s) \in Seq(S)
      /\ Len(s) \in Nat \ {0} /\ Len(Tail(s)) = Len(s) - 1
      /\ Head(s) = s[1]
      /\ \A i \in 1..(Len(s) - 1) : Tail(s)[i] = s[i + 1]
  BY TailPlaces
<1>2. DOMAIN s = 1..Len(s) /\ DOMAIN Tail(s) = 1..(Len(s) - 1)
  BY <1>1, LenProperties
<1> DEFINE P == Places(Tail(s), m)
           Q == Places(s, m) \ {1}
           f == [i \in P |-> i + 1]
<1>3. P \subseteq 1..(Len(s) - 1) /\ Q \subseteq 2..Len(s)
  BY <1>1, <1>2 DEF Places
<1>4. \A i \in P : i + 1 \in Q
  BY <1>1, <1>2 DEF Places
<1>5. \A j \in Q : j - 1 \in P /\ (j - 1) + 1 = j
  BY <1>1, <1>2 DEF Places
<1> HIDE DEF P, Q
<1>6. f \in [P -> Q]
  BY <1>4
<1>7. IsInjective(f)
  BY <1>3, <1>1 DEF IsInjective
<1>8. \A j \in Q : \E i \in P : f[i] = j
  BY <1>5
<1>9. f \in Bijection(P, Q)
  BY <1>6, <1>7, <1>8 DEF Bijection, Injection, Surjection
<1>10. IsFiniteSet(P)
  BY <1>1, PlacesFinite DEF P
<1>11. Cardinality(Q) = Cardinality(P)
  BY <1>9, <1>10, FS_Bijection DEF ExistsBijection
<1>12. IsFiniteSet(Q)
  BY <1>9, <1>10, FS_Bijection DEF ExistsBijection
<1>13. CASE Head(s) = m
  <2>1. Places(s, m) = Q \cup {1} /\ 1 \notin Q
    BY <1>1, <1>2, <1>13 DEF Places, Q
  <2>2. QED
    BY <1>11, <1>12, <1>13, <2>1, FS_AddElement DEF P
<1>14. CASE Head(s) # m
  <2>1. Places(s, m) = Q
    BY <1>1, <1>2, <1>14 DEF Places, Q
  <2>2. QED
    BY <1>11, <1>14, <2>1 DEF P
<1>15. QED
  BY <1>13, <1>14

\* An enumeration of a finite set without repetition leaves nothing out.
LEMMA AllListed ==
  ASSUME NEW S, IsFiniteSet(S), NEW q \in [1..Cardinality(S) -> S], IsInjective(q)
  PROVE  /\ q \in Seq(S) /\ Len(q) = Cardinality(S)
         /\ \A m \in S : \E i \in 1..Len(q) : q[i] = m
<1>1. Cardinality(S) \in Nat
  BY FS_CardinalityType
<1>2. q \in Seq(S) /\ Len(q) = Cardinality(S)
  BY <1>1
<1>3. q \in Injection(1..Cardinality(S), S)
  BY DEF Injection
<1>4. Cardinality(1..Cardinality(S)) = Cardinality(S)
  BY <1>1, FS_Interval
<1>5. q \in Surjection(1..Cardinality(S), S)
  BY <1>3, <1>4, FS_Injection
<1>6. QED
  BY <1>2, <1>5 DEF Surjection

\* A queue that something without repetition is put at the end of.
LEMMA CountJoin ==
  ASSUME NEW S, NEW s \in Seq(S), NEW t \in Seq(S), NoRepeat(t), NEW m
  PROVE  /\ s \o t \in Seq(S)
         /\ Cardinality(Places(s \o t, m)) =
              IF m \in Elems(t) THEN Cardinality(Places(s, m)) + 1
              ELSE Cardinality(Places(s, m))
<1> DEFINE u == s \o t
<1>1. Len(s) \in Nat /\ Len(t) \in Nat
  BY LenProperties
<1>2. /\ u \in Seq(S)
      /\ Len(u) = Len(s) + Len(t)
      /\ \A i \in 1..(Len(s) + Len(t)) : u[i] = IF i <= Len(s) THEN s[i] ELSE t[i - Len(s)]
  BY ConcatProperties
<1> HIDE DEF u
<1>3. \A i \in (Len(s) + 1)..Len(u) : i - Len(s) \in 1..Len(t) /\ u[i] = t[i - Len(s)]
  BY <1>1, <1>2
<1>4. ASSUME NEW i \in (Len(s) + 1)..Len(u), NEW j \in (Len(s) + 1)..Len(u), u[i] = u[j]
      PROVE  i = j
  <2>1. i - Len(s) = j - Len(s)
    BY <1>3, <1>4 DEF NoRepeat
  <2>2. QED
    BY <1>1, <2>1
<1>5. Longer(s, u, m)
  BY <1>1, <1>2, <1>4 DEF Longer
<1>6. (\E i \in (Len(s) + 1)..Len(u) : u[i] = m) <=> m \in Elems(t)
  <2>1. ASSUME NEW i \in (Len(s) + 1)..Len(u), u[i] = m PROVE m \in Elems(t)
    BY <1>3, <2>1 DEF Elems
  <2>2. ASSUME NEW j \in 1..Len(t), t[j] = m
        PROVE  \E i \in (Len(s) + 1)..Len(u) : u[i] = m
    <3>1. Len(s) + j \in (Len(s) + 1)..Len(u) /\ (Len(s) + j) - Len(s) = j
      BY <1>1, <1>2
    <3>2. u[Len(s) + j] = m
      BY <1>3, <2>2, <3>1
    <3>3. QED
      BY <3>1, <3>2
  <2>3. QED
    BY <2>1, <2>2 DEF Elems
<1>7. /\ (\E i \in (Len(s) + 1)..Len(u) : u[i] = m)
           => Cardinality(Places(u, m)) = Cardinality(Places(s, m)) + 1
      /\ ~(\E i \in (Len(s) + 1)..Len(u) : u[i] = m)
           => Cardinality(Places(u, m)) = Cardinality(Places(s, m))
  BY <1>2, <1>5, CountLonger
<1>8. /\ u \in Seq(S)
      /\ Cardinality(Places(u, m)) =
           IF m \in Elems(t) THEN Cardinality(Places(s, m)) + 1
           ELSE Cardinality(Places(s, m))
  BY <1>2, <1>6, <1>7
<1>9. QED
  BY <1>8, Zenon DEF u

\* A queue of one entry has no repetition.
LEMMA OneEntry ==
  ASSUME NEW S, NEW x \in S
  PROVE  <<x>> \in Seq(S) /\ NoRepeat(<<x>>) /\ Elems(<<x>>) = {x}
<1>1. <<x>> \in Seq(S) /\ Len(<<x>>) = 1 /\ <<x>>[1] = x
  OBVIOUS
<1>2. QED
  BY <1>1 DEF NoRepeat, Elems

-----------------------------------------------------------------------------
(* How often the device has had a message                                  *)

LEMMA TimesIsCount ==
  ASSUME ServiceTypeOK, NEW m \in Messages
  PROVE  /\ Times(m) \in Nat
         /\ Times(m) = taken[m] + Cardinality(Places(msg_queue, m))
<1>1. msg_queue \in Seq(Messages) /\ taken \in [Messages -> Nat]
  BY DEF ServiceTypeOK
<1>2. Times(m) = taken[m] + Cardinality(Places(msg_queue, m))
  BY DEF Times, Places
<1>3. Cardinality(Places(msg_queue, m)) \in Nat
  BY <1>1, PlacesFinite
<1>4. QED
  BY <1>1, <1>2, <1>3

\* mpush_add_msg_queue puts each message in the queue once more, or there was no memory
\* for it.
LEMMA AddedTimes ==
  ASSUME ServiceTypeOK, NEW q \in Seq(Messages), NoRepeat(q), Add(q), UNCHANGED taken
  PROVE  /\ msg_queue' \in Seq(Messages)
         /\ forgotten \subseteq forgotten' /\ forgotten' \subseteq forgotten \cup Elems(q)
         /\ faults' \in 0..MaxFaults
         /\ \A m \in Messages : Times(m)' \in {Times(m), Times(m) + 1}
         /\ \A m \in Messages \ Elems(q) : Times(m)' = Times(m)
         /\ \A m \in Elems(q) : Times(m)' = Times(m) + 1 \/ m \in forgotten'
<1>t. /\ msg_queue \in Seq(Messages) /\ taken \in [Messages -> Nat]
      /\ faults \in 0..MaxFaults /\ MaxFaults \in Nat
  BY DEF ServiceTypeOK
<1>1. ASSUME NEW t \in Seq(Messages), NoRepeat(t), msg_queue' = msg_queue \o t
      PROVE  /\ msg_queue' \in Seq(Messages)
             /\ \A m \in Messages :
                  Times(m)' = IF m \in Elems(t) THEN Times(m) + 1 ELSE Times(m)
  <2>1. msg_queue' \in Seq(Messages)
    BY <1>t, <1>1, CountJoin
  <2>2. ASSUME NEW m \in Messages
        PROVE  Times(m)' = IF m \in Elems(t) THEN Times(m) + 1 ELSE Times(m)
    <3>1. Times(m)' = taken[m] + Cardinality(Places(msg_queue \o t, m))
      BY <1>1 DEF Times, Places
    <3>2. Times(m) = taken[m] + Cardinality(Places(msg_queue, m))
      BY DEF Times, Places
    <3>3. Cardinality(Places(msg_queue, m)) \in Nat /\ taken[m] \in Nat
      BY <1>t, PlacesFinite
    <3>4. Cardinality(Places(msg_queue \o t, m)) =
            IF m \in Elems(t) THEN Cardinality(Places(msg_queue, m)) + 1
            ELSE Cardinality(Places(msg_queue, m))
      BY <1>t, <1>1, CountJoin
    <3>5. QED
      BY <3>1, <3>2, <3>3, <3>4
  <2>3. QED
    BY <2>1, <2>2
<1>2. Elems(q) \subseteq Messages
  BY ElemsType
<1>3. CASE msg_queue' = msg_queue \o q /\ UNCHANGED <<forgotten, faults>>
  BY <1>t, <1>1, <1>2, <1>3
<1>4. ASSUME NEW i \in DOMAIN q, Fault,
             msg_queue' = msg_queue \o
               [j \in 1..(Len(q) - 1) |-> IF j < i THEN q[j] ELSE q[j + 1]],
             forgotten' = forgotten \cup {q[i]}
      PROVE  /\ msg_queue' \in Seq(Messages)
             /\ forgotten \subseteq forgotten' /\ forgotten' \subseteq forgotten \cup Elems(q)
             /\ faults' \in 0..MaxFaults
             /\ \A m \in Messages : Times(m)' \in {Times(m), Times(m) + 1}
             /\ \A m \in Messages \ Elems(q) : Times(m)' = Times(m)
             /\ \A m \in Elems(q) : Times(m)' = Times(m) + 1 \/ m \in forgotten'
  <2>1. i \in 1..Len(q)
    BY <1>4, LenProperties
  <2>2. [j \in 1..(Len(q) - 1) |-> IF j < i THEN q[j] ELSE q[j + 1]] = WithoutAt(q, i)
    BY DEF WithoutAt
  <2>3. /\ WithoutAt(q, i) \in Seq(Messages)
        /\ Elems(WithoutAt(q, i)) = Elems(q) \ {q[i]}
        /\ NoRepeat(WithoutAt(q, i))
    BY <2>1, RemoveFacts
  <2>4. msg_queue' = msg_queue \o WithoutAt(q, i)
    BY <1>4, <2>2
  <2>5. /\ msg_queue' \in Seq(Messages)
        /\ \A m \in Messages :
             Times(m)' = IF m \in Elems(q) \ {q[i]} THEN Times(m) + 1 ELSE Times(m)
    BY <1>1, <2>3, <2>4
  <2>6. q[i] \in Elems(q)
    BY <2>1 DEF Elems
  <2>7. faults' \in 0..MaxFaults
    BY <1>t, <1>4 DEF Fault
  <2>8. QED
    BY <1>2, <1>4, <2>5, <2>6, <2>7
<1>5. QED
  BY <1>3, <1>4 DEF Add

\* Taking a message from the queue is counted, and changes no number of times.
LEMMA TakenTimes ==
  ASSUME ServiceTypeOK, msg_queue # << >>, msg_queue' = Tail(msg_queue),
         taken' = [taken EXCEPT ![Head(msg_queue)] = @ + 1]
  PROVE  /\ msg_queue' \in Seq(Messages)
         /\ taken' \in [Messages -> Nat]
         /\ \A m \in Messages : Times(m)' = Times(m)
<1>t. msg_queue \in Seq(Messages) /\ taken \in [Messages -> Nat]
  BY DEF ServiceTypeOK
<1>1. Head(msg_queue) \in Messages /\ Tail(msg_queue) \in Seq(Messages)
  BY <1>t, TailPlaces
<1>2. taken' \in [Messages -> Nat]
  BY <1>t, <1>1
<1>3. ASSUME NEW m \in Messages PROVE Times(m)' = Times(m)
  <2>1. Times(m)' = taken'[m] + Cardinality(Places(Tail(msg_queue), m))
    BY DEF Times, Places
  <2>2. Times(m) = taken[m] + Cardinality(Places(msg_queue, m))
    BY DEF Times, Places
  <2>3. Cardinality(Places(Tail(msg_queue), m)) \in Nat /\ taken[m] \in Nat
    BY <1>t, <1>1, PlacesFinite
  <2>4. taken'[m] = IF m = Head(msg_queue) THEN taken[m] + 1 ELSE taken[m]
    BY <1>t, <1>1
  <2>5. Cardinality(Places(msg_queue, m)) =
          IF Head(msg_queue) = m THEN Cardinality(Places(Tail(msg_queue), m)) + 1
          ELSE Cardinality(Places(Tail(msg_queue), m))
    BY <1>t, CountTail
  <2>6. QED
    BY <2>1, <2>2, <2>3, <2>4, <2>5
<1>4. QED
  BY <1>1, <1>2, <1>3

-----------------------------------------------------------------------------
(* What a step does to the counts and to the wire                          *)

\* nothing is queued; what the server pushed may go back to its store
Quiet ==
  /\ UNCHANGED <<msg_queue, str_push_msg, taken, sent, unsure, forgotten, unread, again>>
  /\ str_comm_buf' \in {str_comm_buf, << >>}
  /\ cut => cut'
  /\ UNCHANGED <<stored, pushed>> \/ (stored' = stored \cup pushed /\ pushed' = {})

\* the offline messages are queued
Offline ==
  /\ UNCHANGED <<str_push_msg, taken, sent, unsure, pushed, unread, again, cut>>
  /\ stored' = {}
  /\ \E q \in [1..Cardinality(stored) -> stored] : IsInjective(q) /\ Add(q) /\ str_comm_buf' = q

\* their reply is spoiled
Spoiled ==
  /\ UNCHANGED <<str_push_msg, taken, sent, unsure, pushed, cut>>
  /\ stored' \subseteq stored /\ unread \subseteq unread' /\ stored \subseteq stored' \cup unread'
  /\ \/ str_comm_buf' \in {str_comm_buf, << >>} /\ UNCHANGED <<msg_queue, forgotten, again>>
     \/ /\ Add(str_comm_buf)
        /\ again' = again \cup Range(str_comm_buf)
        /\ UNCHANGED str_comm_buf

Sends(m) ==
  /\ m \notin sent
  /\ sent' = sent \cup {m}
  /\ UNCHANGED <<msg_queue, str_push_msg, str_comm_buf, taken, unsure, forgotten, unread, again, cut>>
  /\ \/ pushed' = pushed \cup {m} /\ UNCHANGED stored
     \/ stored' = stored \cup {m} /\ UNCHANGED pushed

Takes ==
  /\ msg_queue # << >>
  /\ msg_queue' = Tail(msg_queue)
  /\ taken' = [taken EXCEPT ![Head(msg_queue)] = @ + 1]
  /\ UNCHANGED <<str_push_msg, str_comm_buf, sent, unsure, forgotten, unread, again, stored, pushed,
                 cut>>

\* a push comes whole
Comes(m) ==
  /\ m \in pushed
  /\ str_push_msg' = m
  /\ UNCHANGED <<str_comm_buf, taken, sent, stored, unread, again, cut>>
  /\ \/ pushed' = pushed \ {m} /\ UNCHANGED unsure /\ Add(<<m>>)
     \/ unsure' = unsure \cup {m} /\ msg_queue' = Append(msg_queue, m)
        /\ UNCHANGED <<pushed, forgotten>>

\* the last message decoded is queued again
Again ==
  /\ cut
  /\ str_push_msg # None
  /\ msg_queue' = Append(msg_queue, str_push_msg)
  /\ UNCHANGED <<str_push_msg, str_comm_buf, taken, sent, stored, pushed, unsure, forgotten, unread,
                 again, cut>>

CountStep ==
  \/ Quiet \/ Offline \/ Spoiled \/ Takes \/ Again
  \/ \E m \in Messages : Sends(m) \/ Comes(m)

\* what is on the wire is what was d places further back, or a rest
Moved(d) ==
  \A i \in DOMAIN wire' :
    (wire'[i] = Rest /\ cut') \/ (i + d \in DOMAIN wire /\ wire'[i] = wire[i + d])

Drains ==
  /\ cut => cut'
  /\ peer' # "alive" => wire' = << >>
  /\ bound => bound' \/ wire' = << >>
  /\ \E d \in Int :
       /\ Moved(d)
       /\ \/ pushed \subseteq pushed'
          \/ wire' = << >>
          \/ d = 1 /\ wire # << >> /\ pushed' = pushed \ {Head(wire)}

Fills(f) ==
  /\ peer = "alive" /\ peer' = "alive"
  /\ wire' = Append(wire, f)
  /\ UNCHANGED cut
  /\ bound => bound'
  /\ f = "BIND" => bound'
  /\ \/ f \in Replies /\ UNCHANGED pushed
     \/ f \in Messages \ sent /\ pushed' = pushed \cup {f}

WireStep == Drains \/ \E f \in Frames : Fills(f)

FrameTypes == Frames \cup {Rest}

\* The first frame on the wire is of what the server still has for this connection.
LEMMA HeadOfWire ==
  ASSUME ServiceTypeOK, WireInv, wire # << >>
  PROVE  /\ Tail(wire) \in Seq(FrameTypes) /\ Head(wire) \in FrameTypes
         /\ Len(wire) \in Nat \ {0} /\ Len(Tail(wire)) = Len(wire) - 1
         /\ DOMAIN wire = 1..Len(wire) /\ DOMAIN Tail(wire) = 1..(Len(wire) - 1)
         /\ \A i \in 1..(Len(wire) - 1) : Tail(wire)[i] = wire[i + 1]
         /\ Head(wire) \in Messages => Head(wire) \in pushed
         /\ Head(wire) = Rest => cut
         /\ Head(wire) = "BIND" => bound \/ cut
         /\ peer = "alive"
<1>1. wire \in Seq(FrameTypes)
  BY DEF ServiceTypeOK, FrameTypes
<1>2. /\ Tail(wire) \in Seq(FrameTypes) /\ Head(wire) \in FrameTypes
      /\ Len(wire) \in Nat \ {0} /\ Len(Tail(wire)) = Len(wire) - 1
      /\ Head(wire) = wire[1]
      /\ \A i \in 1..(Len(wire) - 1) : Tail(wire)[i] = wire[i + 1]
  BY <1>1, TailPlaces
<1>3. DOMAIN wire = 1..Len(wire) /\ DOMAIN Tail(wire) = 1..(Len(wire) - 1)
  BY <1>1, <1>2, LenProperties
<1>4. 1 \in DOMAIN wire
  BY <1>2, <1>3
<1>5. QED
  BY <1>2, <1>3, <1>4 DEF WireInv

\* A frame less, or a rest in its place, moves the others.
LEMMA WireMoves ==
  ASSUME ServiceTypeOK, WireInv, wire # << >>
  PROVE  /\ wire' = Tail(wire) => wire' \in Seq(FrameTypes) /\ Moved(1)
         /\ Len(wire) > 1 /\ wire' = Tail(Tail(wire)) => wire' \in Seq(FrameTypes) /\ Moved(2)
         /\ \A n \in 1..2 : cut' /\ wire' = [i \in 1..n |-> Rest] \o Tail(wire)
              => wire' \in Seq(FrameTypes) /\ Moved(1 - n)
<1>1. wire' = Tail(wire) => wire' \in Seq(FrameTypes) /\ Moved(1)
  BY HeadOfWire DEF Moved
<1>2. ASSUME Len(wire) > 1, wire' = Tail(Tail(wire))
      PROVE  wire' \in Seq(FrameTypes) /\ Moved(2)
  <2> DEFINE t == Tail(wire)
  <2>1. t \in Seq(FrameTypes) /\ t # << >>
    <3>1. t \in Seq(FrameTypes) /\ Len(t) # 0
      BY <1>2, HeadOfWire
    <3>2. Len(<< >>) = 0
      BY EmptySeq
    <3>3. QED
      BY <3>1, <3>2
  <2>2. /\ Tail(t) \in Seq(FrameTypes) /\ Len(Tail(t)) = Len(wire) - 2
        /\ \A i \in 1..(Len(wire) - 2) : Tail(t)[i] = t[i + 1]
    BY <2>1, TailPlaces, HeadOfWire
  <2>3. \A i \in 1..(Len(wire) - 2) : i + 1 \in 1..(Len(wire) - 1) /\ t[i + 1] = wire[(i + 1) + 1]
    BY HeadOfWire
  <2>4. DOMAIN Tail(t) = 1..(Len(wire) - 2)
    BY <2>2, LenProperties
  <2>5. \A i \in DOMAIN wire' : i + 2 \in DOMAIN wire /\ wire'[i] = wire[i + 2]
    BY <1>2, <2>2, <2>3, <2>4, HeadOfWire
  <2>6. QED
    BY <1>2, <2>2, <2>5 DEF Moved
<1>3. ASSUME NEW n \in 1..2, cut', wire' = [i \in 1..n |-> Rest] \o Tail(wire)
      PROVE  wire' \in Seq(FrameTypes) /\ Moved(1 - n)
  <2> DEFINE r == [i \in 1..n |-> Rest]
  <2>1. r \in Seq(FrameTypes) /\ Len(r) = n /\ \A i \in 1..n : r[i] = Rest
    BY DEF FrameTypes
  <2> HIDE DEF r
  <2>2. /\ r \o Tail(wire) \in Seq(FrameTypes)
        /\ Len(r \o Tail(wire)) = n + (Len(wire) - 1)
        /\ \A i \in 1..(n + (Len(wire) - 1)) :
             (r \o Tail(wire))[i] = IF i <= n THEN r[i] ELSE Tail(wire)[i - n]
    BY <2>1, HeadOfWire, ConcatProperties
  <2>3. wire' = r \o Tail(wire)
    BY <1>3 DEF r
  <2>4. wire' \in Seq(FrameTypes) /\ DOMAIN wire' = 1..(n + (Len(wire) - 1))
    BY <2>2, <2>3, LenProperties
  <2>5. ASSUME NEW i \in DOMAIN wire', i > n
        PROVE  i + (1 - n) \in DOMAIN wire /\ wire'[i] = wire[i + (1 - n)]
    <3>1. i - n \in 1..(Len(wire) - 1) /\ i + (1 - n) = (i - n) + 1 /\ n \in Int /\ i \in Int
      BY <2>4, <2>5, HeadOfWire
    <3>2. wire'[i] = Tail(wire)[i - n]
      BY <2>2, <2>3, <2>4, <2>5
    <3>3. QED
      BY <3>1, <3>2, HeadOfWire
  <2>6. ASSUME NEW i \in DOMAIN wire', ~(i > n) PROVE wire'[i] = Rest
    <3>1. i \in 1..(n + (Len(wire) - 1)) /\ i <= n /\ i \in 1..n
      BY <2>4, <2>6, HeadOfWire
    <3>2. QED
      BY <2>1, <2>2, <2>3, <3>1
  <2>7. 1 - n \in Int
    OBVIOUS
  <2>8. QED
    BY <1>3, <2>4, <2>5, <2>6 DEF Moved
<1>4. QED
  BY <1>1, <1>2, <1>3

\* what the frames received leave in place and change
ReceivedTypes ==
  /\ status' \in Statuses
  /\ msg_queue' \in Seq(Messages)
  /\ str_push_msg' \in Messages \cup {None}
  /\ wire' \in Seq(FrameTypes)
  /\ cut' \in BOOLEAN
  /\ faults' \in 0..MaxFaults
  /\ pushed' \subseteq pushed
  /\ unsure' \subseteq unsure \cup pushed
  /\ forgotten' \subseteq forgotten \cup pushed

ReceivedFrom(s) ==
  /\ cut => cut'
  /\ wire = << >> => wire' = << >>
  /\ status' \in {s, "HANDSHAK_OK"} \/ (status' = "BINDING_OK" /\ (bound \/ cut))
  /\ \E d \in Int :
       /\ Moved(d)
       /\ \/ pushed \subseteq pushed'
          \/ d = 1 /\ wire # << >> /\ pushed' = pushed \ {Head(wire)}

LEMMA WholeFrameStep ==
  ASSUME ServiceTypeOK, WireInv, NEW s \in Statuses, wire # << >>, WholeFrame(s),
         UNCHANGED <<str_comm_buf, taken, sent, stored, unread, again>>
  PROVE  /\ ReceivedTypes /\ ReceivedFrom(s)
         /\ Quiet \/ \E m \in Messages : Comes(m)
<1> DEFINE f == Head(wire)
<1>t. /\ msg_queue \in Seq(Messages) /\ faults \in 0..MaxFaults /\ MaxFaults \in Nat
      /\ str_push_msg \in Messages \cup {None}
      /\ cut \in BOOLEAN /\ {"HANDSHAK_OK", "BINDING_OK"} \subseteq Statuses
  BY DEF ServiceTypeOK, Statuses, Replying
<1>1. /\ f \in Frames \/ f = Rest
      /\ f \in Messages => f \in pushed
      /\ f = "BIND" => bound \/ cut
      /\ wire' = Tail(wire) /\ UNCHANGED cut /\ f # Rest
  BY HeadOfWire DEF WholeFrame, FrameTypes
<1>2. wire' \in Seq(FrameTypes) /\ Moved(1)
  BY <1>1, WireMoves
<1>3. CASE f \in Messages
  <2>1. str_push_msg' = f /\ Push(f, s)
    BY <1>3 DEF WholeFrame
  <2>2. status' = s
    BY <2>1 DEF Push
  <2>3. CASE pushed' = pushed \ {f} /\ UNCHANGED unsure /\ Add(<<f>>)
    <3>1. <<f>> \in Seq(Messages) /\ NoRepeat(<<f>>) /\ Elems(<<f>>) = {f}
      BY <1>3, OneEntry
    <3>2. /\ msg_queue' \in Seq(Messages) /\ faults' \in 0..MaxFaults
          /\ forgotten' \subseteq forgotten \cup {f}
      BY <2>3, <3>1, AddedTimes
    <3>3. Comes(f)
      BY <1>1, <1>3, <2>1, <2>3 DEF Comes
    <3>4. ReceivedTypes
      BY <1>t, <1>1, <1>2, <1>3, <2>1, <2>2, <2>3, <3>2 DEF ReceivedTypes
    <3>5. ReceivedFrom(s)
      BY <1>1, <1>2, <2>2, <2>3 DEF ReceivedFrom
    <3>6. QED
      BY <1>3, <3>3, <3>4, <3>5
  <2>4. CASE /\ unsure' = unsure \cup {f} /\ msg_queue' = Append(msg_queue, f)
             /\ UNCHANGED <<pushed, forgotten>>
             /\ peer = "alive" => faults < MaxFaults
             /\ faults' = IF peer = "alive" THEN faults + 1 ELSE faults
    <3>1. msg_queue' \in Seq(Messages) /\ faults' \in 0..MaxFaults
      BY <1>t, <1>3, <2>4
    <3>2. Comes(f)
      BY <1>1, <1>3, <2>1, <2>4 DEF Comes
    <3>3. ReceivedTypes
      BY <1>t, <1>1, <1>2, <1>3, <2>1, <2>2, <2>4, <3>1 DEF ReceivedTypes
    <3>4. ReceivedFrom(s)
      BY <1>1, <1>2, <2>2, <2>4 DEF ReceivedFrom
    <3>5. QED
      BY <1>3, <3>2, <3>3, <3>4
  <2>5. QED
    BY <2>1, <2>3, <2>4 DEF Push, Acknowledge
<1>4. CASE f \notin Messages
  <2>1. Reply(f, s) /\ UNCHANGED <<str_push_msg, faults>>
    BY <1>4 DEF WholeFrame
  <2>2. f \in {"HANDSHAKE", "BIND"}
    BY <1>1, <1>4 DEF Frames, Replies
  <2>3. status' = IF f = "HANDSHAKE" THEN "HANDSHAK_OK" ELSE "BINDING_OK"
    BY <2>1, <2>2 DEF Reply
  <2>4. UNCHANGED <<msg_queue, pushed, unsure, forgotten>>
    BY <2>1 DEF Reply
  <2>5. Quiet
    BY <1>1, <2>1, <2>4 DEF Quiet
  <2>6. ReceivedTypes
    BY <1>t, <1>1, <1>2, <2>1, <2>3, <2>4 DEF ReceivedTypes
  <2>7. ReceivedFrom(s)
    BY <1>1, <1>2, <2>2, <2>3, <2>4 DEF ReceivedFrom
  <2>8. QED
    BY <2>5, <2>6, <2>7
<1>5. QED
  BY <1>3, <1>4

LEMMA CutFrameStep ==
  ASSUME ServiceTypeOK, WireInv, NEW s \in Statuses, wire # << >>, CutFrame(s),
         UNCHANGED <<str_comm_buf, taken, sent, stored, unread, again>>
  PROVE  ReceivedTypes /\ ReceivedFrom(s) /\ Quiet
<1>t. /\ msg_queue \in Seq(Messages) /\ faults \in 0..MaxFaults /\ MaxFaults \in Nat
      /\ str_push_msg \in Messages \cup {None}
  BY DEF ServiceTypeOK
<1>1. PICK n \in 1..2 : wire' = [i \in 1..n |-> Rest] \o Tail(wire)
  BY DEF CutFrame
<1>2. /\ cut' = TRUE /\ status' = s /\ faults' = faults + 1 /\ faults < MaxFaults
      /\ UNCHANGED <<msg_queue, str_push_msg, pushed, unsure, forgotten>>
  BY DEF CutFrame, Fault
<1>3. wire' \in Seq(FrameTypes) /\ Moved(1 - n) /\ 1 - n \in Int
  <2>1. cut'
    BY <1>2
  <2>2. wire' \in Seq(FrameTypes) /\ Moved(1 - n)
    BY <1>1, <2>1, WireMoves, Zenon
  <2>3. QED
    BY <2>2
<1>4. ReceivedTypes
  BY <1>t, <1>2, <1>3 DEF ReceivedTypes
<1>5. ReceivedFrom(s)
  BY <1>2, <1>3 DEF ReceivedFrom
<1>6. QED
  BY <1>2, <1>4, <1>5 DEF Quiet

LEMMA RestOfFrameStep ==
  ASSUME ServiceTypeOK, WireInv, NEW s \in Statuses, wire # << >>, RestOfFrame(s),
         UNCHANGED <<str_comm_buf, taken, sent, stored, unread, again>>
  PROVE  ReceivedTypes /\ ReceivedFrom(s) /\ (Quiet \/ Again)
<1>t. /\ msg_queue \in Seq(Messages) /\ faults \in 0..MaxFaults
      /\ str_push_msg \in Messages \cup {None}
      /\ cut \in BOOLEAN /\ {"HANDSHAK_OK", "BINDING_OK"} \subseteq Statuses
  BY DEF ServiceTypeOK, Statuses, Replying
<1>1. cut /\ UNCHANGED <<str_push_msg, faults, cut>>
  BY HeadOfWire DEF RestOfFrame
<1>2. ASSUME NEW f, Reply(f, s)
      PROVE  /\ status' \in {s, "HANDSHAK_OK", "BINDING_OK"}
             /\ UNCHANGED <<msg_queue, pushed, unsure, forgotten>>
  BY <1>2 DEF Reply
<1>3. ASSUME NEW d \in Int, wire' \in Seq(FrameTypes), Moved(d), NEW f, Reply(f, s)
      PROVE  ReceivedTypes /\ ReceivedFrom(s) /\ Quiet
  <2>1. /\ status' \in {s, "HANDSHAK_OK", "BINDING_OK"}
        /\ UNCHANGED <<msg_queue, pushed, unsure, forgotten>>
    BY <1>2, <1>3
  <2>2. ReceivedTypes
    BY <1>t, <1>1, <1>3, <2>1 DEF ReceivedTypes
  <2>3. ReceivedFrom(s)
    BY <1>1, <1>3, <2>1 DEF ReceivedFrom
  <2>4. QED
    BY <1>1, <2>1, <2>2, <2>3 DEF Quiet
<1>4. CASE wire' = Tail(wire) /\ \E f \in Replies \cup {Rest} : Reply(f, s)
  BY <1>3, <1>4, WireMoves
<1>5. CASE Len(wire) > 1 /\ wire' = Tail(Tail(wire)) /\ Reply(Rest, s)
  BY <1>3, <1>5, WireMoves, SMTT(30)
<1>6. CASE /\ str_push_msg # None /\ wire' = Tail(wire)
           /\ msg_queue' = Append(msg_queue, str_push_msg)
           /\ status' = s /\ UNCHANGED <<pushed, unsure, forgotten>>
  <2>1. wire' \in Seq(FrameTypes) /\ Moved(1)
    BY <1>6, WireMoves
  <2>2. msg_queue' \in Seq(Messages)
    BY <1>t, <1>6
  <2>3. ReceivedTypes
    BY <1>t, <1>1, <1>6, <2>1, <2>2 DEF ReceivedTypes
  <2>4. ReceivedFrom(s)
    BY <1>1, <1>6, <2>1 DEF ReceivedFrom
  <2>5. Again
    BY <1>1, <1>6 DEF Again
  <2>6. QED
    BY <2>3, <2>4, <2>5
<1>7. QED
  BY <1>4, <1>5, <1>6 DEF RestOfFrame

LEMMA NothingMoves ==
  ASSUME ServiceTypeOK, UNCHANGED wire
  PROVE  Moved(0)
<1>1. \A i \in DOMAIN wire : i + 0 = i
  BY LenProperties DEF ServiceTypeOK
<1>2. QED
  BY <1>1 DEF Moved

\* What mpush_client_receive does with whatever is on the wire.
LEMMA Receiving ==
  ASSUME ServiceTypeOK, WireInv, NEW s \in Statuses, Receive(s),
         UNCHANGED <<str_comm_buf, taken, sent, stored, unread, again>>
  PROVE  /\ ReceivedTypes /\ ReceivedFrom(s)
         /\ Quiet \/ Again \/ \E m \in Messages : Comes(m)
<1>1. CASE wire # << >> /\ (WholeFrame(s) \/ CutFrame(s) \/ RestOfFrame(s))
  BY <1>1, WholeFrameStep, CutFrameStep, RestOfFrameStep
<1>2. CASE status' = s /\ UNCHANGED <<msg_queue, str_push_msg, wire, pushed, unsure, forgotten,
                                      faults, cut>>
  <2>1. Moved(0)
    BY <1>2, NothingMoves
  <2>2. ReceivedTypes
    BY <1>2 DEF ReceivedTypes, ServiceTypeOK, FrameTypes
  <2>3. ReceivedFrom(s)
    BY <1>2, <2>1 DEF ReceivedFrom
  <2>4. QED
    BY <1>2, <2>2, <2>3 DEF Quiet
<1>3. QED
  BY <1>1, <1>2 DEF Receive

-----------------------------------------------------------------------------
(* The steps of the service and of the world around it                     *)

SoundStep == ServiceTypeOK' /\ CountStep /\ WireStep /\ ConnectedIsBound'

\* A step that leaves the server and the queue alone.
LEMMA StillStep ==
  ASSUME ServiceTypeOK, WireInv,
         UNCHANGED <<msg_queue, str_push_msg, str_comm_buf, server, seen, cut>>
  PROVE  CountStep /\ WireStep
<1>1. UNCHANGED <<msg_queue, str_push_msg, str_comm_buf, peer, wire, bound, stored, pushed, sent,
                  taken, unsure, forgotten, unread, again, cut>>
  BY DEF server, seen
<1>2. Quiet
  BY <1>1 DEF Quiet
<1>3. Moved(0) /\ 0 \in Int
  BY <1>1, NothingMoves
<1>4. Drains
  BY <1>1, <1>3 DEF Drains, WireInv
<1>5. QED
  BY <1>2, <1>4 DEF CountStep, WireStep

\* A step after which nothing is on the wire.
LEMMA EmptyWire ==
  ASSUME wire' = << >>, cut => cut'
  PROVE  WireStep
<1>1. DOMAIN wire' = {}
  OBVIOUS
<1>2. Moved(0) /\ 0 \in Int
  BY <1>1 DEF Moved
<1>3. QED
  BY <1>2 DEF WireStep, Drains

LEMMA LoopSteps ==
  ASSUME ServiceTypeOK, WireInv, ConnectedIsBound,
         WifiEvent \/ InitState \/ UpdateDeviceInfo \/ GetServerList \/ Advance \/ LinkUp
  PROVE  SoundStep
<1>t. /\ faults \in 0..MaxFaults /\ MaxFaults \in Nat /\ update_device_info_count \in 0..3
      /\ inbox \in Seq({"CONNECTED", "DISCONNECTED"})
  BY DEF ServiceTypeOK
<1>1. UNCHANGED <<msg_queue, str_push_msg, str_comm_buf, server, seen, cut>>
  BY DEF WifiEvent, InitState, UpdateDeviceInfo, GetServerList, Advance, LinkUp, device
<1>2. CountStep /\ WireStep
  BY <1>1, StillStep
<1>3. UNCHANGED <<peer, wire, bound, stored, pushed, sent, taken, unsure, forgotten, unread, again>>
  BY <1>1 DEF server, seen
<1>4. UNCHANGED <<hung, flaps>>
  BY DEF WifiEvent, InitState, UpdateDeviceInfo, GetServerList, Advance, LinkUp
<1>5. ASSUME NEW s \in Statuses, ServerList(s)
      PROVE  status' \in {"GET_OFFLINE_MSG", s} /\ faults' \in 0..MaxFaults
  BY <1>t, <1>5 DEF ServerList, CallSucceeds, CallFails, Fault
<1>6. {"INIT", "DISCONNECT", "UPDATE_DEVICE_INFO", "GET_OFFLINE_MSG", "GET_SERVER_LIST",
       "BINDING", "CONNECTED"} \subseteq Statuses
  BY DEF Statuses
<1>7. CASE WifiEvent
  <2>1. status' \in {"INIT", "DISCONNECT"} /\ UNCHANGED <<update_device_info_count, linked, faults>>
    BY <1>7 DEF WifiEvent
  <2>2. inbox' \in Seq({"CONNECTED", "DISCONNECTED"})
    BY <1>t, <1>7, HeadTailProperties DEF WifiEvent
  <2>3. ServiceTypeOK'
    BY <1>1, <1>3, <1>4, <1>6, <2>1, <2>2 DEF ServiceTypeOK
  <2>4. ConnectedIsBound'
    BY <2>1 DEF ConnectedIsBound
  <2>5. QED
    BY <1>2, <2>3, <2>4 DEF SoundStep
<1>8. CASE InitState
  <2>1. /\ status' \in {"UPDATE_DEVICE_INFO", status} /\ UNCHANGED <<inbox, linked>>
        /\ update_device_info_count' \in 0..3 /\ faults' \in 0..MaxFaults
        /\ status = "INIT"
    BY <1>t, <1>8 DEF InitState, CallSucceeds, CallFails, Fault, link, At
  <2>2. ServiceTypeOK'
    BY <1>1, <1>3, <1>4, <1>6, <2>1 DEF ServiceTypeOK
  <2>3. ConnectedIsBound'
    BY <2>1 DEF ConnectedIsBound
  <2>4. QED
    BY <1>2, <2>2, <2>3 DEF SoundStep
<1>9. CASE UpdateDeviceInfo
  <2>1. UNCHANGED <<inbox, linked>> /\ status = "UPDATE_DEVICE_INFO"
    BY <1>9 DEF UpdateDeviceInfo, link, At
  <2>2. CASE linked /\ ServerList("GET_SERVER_LIST") /\ UNCHANGED update_device_info_count
    <3>1. status' \in {"GET_OFFLINE_MSG", "GET_SERVER_LIST"} /\ faults' \in 0..MaxFaults
      BY <1>5, <1>6, <2>2
    <3>2. ServiceTypeOK'
      BY <1>1, <1>3, <1>4, <1>6, <2>1, <2>2, <3>1 DEF ServiceTypeOK
    <3>3. ConnectedIsBound'
      BY <3>1 DEF ConnectedIsBound
    <3>4. QED
      BY <1>2, <3>2, <3>3 DEF SoundStep
  <2>3. CASE /\ CallFails
             /\ update_device_info_count' = Smaller(update_device_info_count + 1, 3)
             /\ status' \in {"GET_OFFLINE_MSG", "GET_SERVER_LIST", status}
    <3>1. update_device_info_count' \in 0..3 /\ faults' \in 0..MaxFaults
      BY <1>t, <2>3 DEF Smaller, CallFails, Fault
    <3>2. ServiceTypeOK'
      BY <1>1, <1>3, <1>4, <1>6, <2>1, <2>3, <3>1 DEF ServiceTypeOK
    <3>3. ConnectedIsBound'
      BY <2>1, <2>3 DEF ConnectedIsBound
    <3>4. QED
      BY <1>2, <3>2, <3>3 DEF SoundStep
  <2>4. QED
    BY <1>9, <2>2, <2>3 DEF UpdateDeviceInfo
<1>10. CASE GetServerList
  <2>1. /\ UNCHANGED <<inbox, linked, update_device_info_count>>
        /\ status = "GET_SERVER_LIST" /\ ServerList(status)
    BY <1>10 DEF GetServerList, link, At
  <2>2. status' \in {"GET_OFFLINE_MSG", "GET_SERVER_LIST"} /\ faults' \in 0..MaxFaults
    BY <1>5, <1>6, <2>1
  <2>3. ServiceTypeOK'
    BY <1>1, <1>3, <1>4, <1>6, <2>1, <2>2 DEF ServiceTypeOK
  <2>4. ConnectedIsBound'
    BY <2>2 DEF ConnectedIsBound
  <2>5. QED
    BY <1>2, <2>3, <2>4 DEF SoundStep
<1>11. CASE Advance
  <2>1. /\ UNCHANGED <<inbox, linked, update_device_info_count, faults>>
        /\ \/ status' = "BINDING"
           \/ status = "BINDING_OK" /\ status' = "CONNECTED"
    BY <1>11 DEF Advance, link, At
  <2>2. ServiceTypeOK'
    BY <1>1, <1>3, <1>4, <1>6, <2>1 DEF ServiceTypeOK
  <2>3. ConnectedIsBound'
    BY <1>1, <1>3, <2>1 DEF ConnectedIsBound
  <2>4. QED
    BY <1>2, <2>2, <2>3 DEF SoundStep
<1>12. CASE LinkUp
  <2>1. UNCHANGED <<status, update_device_info_count, faults>> /\ linked' = TRUE
    BY <1>12 DEF LinkUp, device
  <2>2. inbox' \in Seq({"CONNECTED", "DISCONNECTED"})
    BY <1>t, <1>12 DEF LinkUp
  <2>3. ServiceTypeOK'
    BY <1>1, <1>3, <1>4, <2>1, <2>2 DEF ServiceTypeOK
  <2>4. ConnectedIsBound'
    BY <1>1, <1>3, <2>1 DEF ConnectedIsBound
  <2>5. QED
    BY <1>2, <2>3, <2>4 DEF SoundStep
<1>13. QED
  BY <1>7, <1>8, <1>9, <1>10, <1>11, <1>12

LEMMA NoneInjective == IsInjective(<< >>)
BY DEF IsInjective

\* What is decoded from str_comm_buf again.
LEMMA BufferListed ==
  ASSUME ServiceTypeOK, IsInjective(str_comm_buf)
  PROVE  /\ str_comm_buf \in Seq(Messages) /\ NoRepeat(str_comm_buf)
         /\ Elems(str_comm_buf) = Range(str_comm_buf) /\ Range(str_comm_buf) \subseteq sent
<1>1. str_comm_buf \in Seq(sent) /\ sent \subseteq Messages
  BY DEF ServiceTypeOK
<1>2. str_comm_buf \in Seq(Messages)
  BY <1>1, SeqMonotonic
<1>3. DOMAIN str_comm_buf = 1..Len(str_comm_buf)
  BY <1>1, LenProperties
<1>4. NoRepeat(str_comm_buf)
  BY <1>3 DEF NoRepeat, IsInjective
<1>5. Elems(str_comm_buf) = Range(str_comm_buf)
  BY <1>3 DEF Elems, Range
<1>6. QED
  BY <1>1, <1>2, <1>4, <1>5, ElemsType

\* The offline messages, as the server lists them.
LEMMA OfflineListed ==
  ASSUME ServiceTypeOK, IsFiniteSet(sent),
         NEW q \in [1..Cardinality(stored) -> stored], IsInjective(q)
  PROVE  q \in Seq(Messages) /\ NoRepeat(q) /\ Elems(q) = stored /\ q \in Seq(sent)
<1>1. stored \subseteq sent /\ stored \subseteq Messages
  BY DEF ServiceTypeOK
<1>2. IsFiniteSet(stored)
  BY <1>1, FS_Subset
<1>3. q \in Seq(stored) /\ Len(q) = Cardinality(stored) /\ \A m \in stored : \E i \in 1..Len(q) : q[i] = m
  BY <1>2, AllListed
<1>4. q \in Seq(Messages) /\ q \in Seq(sent)
  BY <1>1, <1>3, SeqMonotonic
<1>5. DOMAIN q = 1..Len(q)
  BY <1>3, LenProperties
<1>6. NoRepeat(q)
  BY <1>5 DEF NoRepeat, IsInjective
<1>7. QED
  BY <1>3, <1>4, <1>6, ElemsType DEF Elems

LEMMA OfflineStep ==
  ASSUME ServiceTypeOK, WireInv, ConnectedIsBound, IsFiniteSet(sent), IsInjective(str_comm_buf),
         GetOfflineMsg
  PROVE  SoundStep
<1>t. /\ faults \in 0..MaxFaults /\ MaxFaults \in Nat /\ flaps \in 0..MaxFlaps /\ MaxFlaps \in Nat
      /\ stored \subseteq sent /\ << >> \in Seq(sent) /\ "CONNECTING" \in Statuses
  BY DEF ServiceTypeOK, Statuses
<1>1. /\ UNCHANGED <<update_device_info_count, str_push_msg, inbox, linked, hung, peer, wire, bound,
                     pushed, sent, taken, unsure, cut>>
      /\ status = "GET_OFFLINE_MSG"
  BY DEF GetOfflineMsg, link, At
<1>2. Moved(0) /\ 0 \in Int
  BY <1>1, NothingMoves
<1>3. WireStep
  BY <1>1, <1>2 DEF WireStep, Drains, WireInv
<1>4. CASE CallFails /\ UNCHANGED <<status, msg_queue, str_comm_buf, stored, forgotten, flaps, unread,
                                    again>>
  <2>1. faults' \in 0..MaxFaults
    BY <1>t, <1>4 DEF CallFails, Fault
  <2>2. ServiceTypeOK'
    BY <1>1, <1>4, <2>1 DEF ServiceTypeOK
  <2>3. ConnectedIsBound'
    BY <1>1, <1>4 DEF ConnectedIsBound
  <2>4. CountStep
    BY <1>1, <1>4 DEF CountStep, Quiet
  <2>5. QED
    BY <1>3, <2>2, <2>3, <2>4 DEF SoundStep
<1>5. CASE /\ \E q \in [1..Cardinality(stored) -> stored] :
                IsInjective(q) /\ Add(q) /\ str_comm_buf' = q
           /\ stored' = {} /\ status' = "CONNECTING"
           /\ UNCHANGED <<flaps, unread, again>>
  <2>1. PICK q \in [1..Cardinality(stored) -> stored] :
               IsInjective(q) /\ Add(q) /\ str_comm_buf' = q
    BY <1>5
  <2>2. /\ q \in Seq(Messages) /\ NoRepeat(q) /\ Elems(q) = stored
        /\ q \in Seq(sent)
    BY <2>1, OfflineListed
  <2>3. /\ msg_queue' \in Seq(Messages) /\ faults' \in 0..MaxFaults
        /\ forgotten' \subseteq forgotten \cup stored
    BY <1>1, <2>1, <2>2, AddedTimes
  <2>4. ServiceTypeOK'
    BY <1>t, <1>1, <1>5, <2>1, <2>2, <2>3 DEF ServiceTypeOK
  <2>5. ConnectedIsBound'
    BY <1>5 DEF ConnectedIsBound
  <2>6. CountStep
    BY <1>1, <1>5 DEF CountStep, Offline
  <2>7. QED
    BY <1>3, <2>4, <2>5, <2>6 DEF SoundStep
<1>6. CASE SpoiledReply
  <2>1. /\ flaps' \in 0..MaxFlaps /\ stored' \subseteq stored /\ unread \subseteq unread'
        /\ unread' \subseteq unread \cup stored /\ stored \subseteq stored' \cup unread'
        /\ status' \in {status, "CONNECTING"}
    BY <1>t, <1>6 DEF SpoiledReply
  <2>2. ConnectedIsBound'
    BY <1>1, <2>1 DEF ConnectedIsBound
  <2>3. CASE /\ str_comm_buf' \in {str_comm_buf, << >>}
             /\ UNCHANGED <<msg_queue, forgotten, again, faults>>
    <3>1. ServiceTypeOK'
      BY <1>t, <1>1, <2>1, <2>3 DEF ServiceTypeOK
    <3>2. CountStep
      BY <1>1, <2>1, <2>3 DEF CountStep, Spoiled
    <3>3. QED
      BY <1>3, <2>2, <3>1, <3>2 DEF SoundStep
  <2>4. CASE /\ Add(str_comm_buf) /\ again' = again \cup Range(str_comm_buf)
             /\ UNCHANGED str_comm_buf
    <3>1. /\ str_comm_buf \in Seq(Messages) /\ NoRepeat(str_comm_buf)
          /\ Elems(str_comm_buf) = Range(str_comm_buf) /\ Range(str_comm_buf) \subseteq sent
      BY BufferListed
    <3>2. /\ msg_queue' \in Seq(Messages) /\ faults' \in 0..MaxFaults
          /\ forgotten' \subseteq forgotten \cup Elems(str_comm_buf)
      BY <1>1, <2>4, <3>1, AddedTimes
    <3>3. /\ forgotten' \subseteq sent /\ again' \subseteq sent
      BY <2>4, <3>1, <3>2 DEF ServiceTypeOK
    <3>4. ServiceTypeOK'
      BY <1>t, <1>1, <2>1, <2>4, <3>2, <3>3 DEF ServiceTypeOK
    <3>5. CountStep
      BY <1>1, <2>1, <2>4 DEF CountStep, Spoiled
    <3>6. QED
      BY <1>3, <2>2, <3>4, <3>5 DEF SoundStep
  <2>5. QED
    BY <1>6, <2>3, <2>4 DEF SpoiledReply
<1>7. QED
  BY <1>4, <1>5, <1>6 DEF GetOfflineMsg

\* The connection is closed, by whichever side, or its loss is noticed.
LEMMA ClosingSteps ==
  ASSUME ServiceTypeOK, WireInv, ConnectedIsBound,
         Connect \/ Disconnect \/ LinkDown \/ ServerCloses \/ ServerNotices
  PROVE  SoundStep
<1>t. /\ faults \in 0..MaxFaults /\ MaxFaults \in Nat /\ flaps \in 0..MaxFlaps /\ MaxFlaps \in Nat
      /\ inbox \in Seq({"CONNECTED", "DISCONNECTED"})
      /\ peer \in {"none", "alive", "gone", "reset"}
  BY DEF ServiceTypeOK
<1>1. UNCHANGED <<update_device_info_count, msg_queue, str_push_msg, str_comm_buf, hung, sent, taken,
                  unsure, forgotten, unread, again, cut>>
  BY DEF Connect, Disconnect, LinkDown, ServerCloses, ServerNotices, device, seen
<1>2. UNCHANGED <<stored, pushed>> \/ (stored' = stored \cup pushed /\ pushed' = {})
  BY DEF Connect, Disconnect, Close, LinkDown, ServerCloses, ServerNotices
<1>3. CountStep
  BY <1>1, <1>2 DEF CountStep, Quiet
<1>4. wire' = << >>
  BY DEF Connect, Disconnect, Close, LinkDown, ServerCloses, ServerNotices, CutOff, WireInv
<1>5. WireStep
  BY <1>1, <1>4, EmptyWire
<1>6. wire' \in Seq(FrameTypes)
  BY <1>4
<1>7. /\ stored' \cup pushed' \cup unsure' \cup forgotten' \cup unread' \cup again' \subseteq sent
      /\ stored' \cap pushed' = {}
  BY <1>1, <1>2 DEF ServiceTypeOK
<1>8. /\ faults' \in 0..MaxFaults /\ flaps' \in 0..MaxFlaps
      /\ inbox' \in Seq({"CONNECTED", "DISCONNECTED"})
      /\ {linked', bound'} \subseteq BOOLEAN
      /\ peer' \in {"none", "alive", "gone", "reset"}
  <2>1. faults' \in 0..MaxFaults
    BY <1>t DEF Connect, Disconnect, LinkDown, ServerCloses, ServerNotices, CallSucceeds, CallFails,
                Fault
  <2>2. flaps' \in 0..MaxFlaps
    BY <1>t DEF Connect, Disconnect, LinkDown, ServerCloses, ServerNotices
  <2>3. inbox' = inbox \/ inbox' = inbox \o <<"DISCONNECTED", "DISCONNECTED">>
    BY DEF Connect, Disconnect, LinkDown, ServerCloses, ServerNotices, link
  <2>4. inbox' \in Seq({"CONNECTED", "DISCONNECTED"})
    <3> DEFINE news == <<"DISCONNECTED", "DISCONNECTED">>
               kinds == {"CONNECTED", "DISCONNECTED"}
    <3>1. news \in Seq(kinds)
      OBVIOUS
    <3>2. inbox \in Seq(kinds) /\ (inbox' = inbox \/ inbox' = inbox \o news)
      BY <1>t, <2>3
    <3> HIDE DEF news, kinds
    <3>3. inbox \o news \in Seq(kinds)
      BY <3>1, <3>2, ConcatProperties
    <3>4. inbox' \in Seq(kinds)
      BY <3>2, <3>3
    <3>5. QED
      BY <3>4 DEF kinds
  <2>5. linked' = linked \/ linked' = FALSE
    BY DEF Connect, Disconnect, LinkDown, ServerCloses, ServerNotices, link
  <2>6. bound' = bound \/ bound' = FALSE
    BY DEF Connect, Disconnect, Close, LinkDown, ServerCloses, ServerNotices
  <2>7. {linked', bound'} \subseteq BOOLEAN
    BY <2>5, <2>6 DEF ServiceTypeOK
  <2>8. peer' \in {peer, "alive", "none", "gone"}
    BY DEF Connect, Disconnect, Close, LinkDown, ServerCloses, ServerNotices, CutOff
  <2>9. QED
    BY <1>t, <2>1, <2>2, <2>4, <2>7, <2>8
<1>9. status' \in {status, "HANDSHAKING"} /\ status' \in Statuses
  BY DEF Connect, Disconnect, LinkDown, ServerCloses, ServerNotices, device, ServiceTypeOK, Statuses
<1>10. ServiceTypeOK'
  BY <1>1, <1>6, <1>7, <1>8, <1>9 DEF ServiceTypeOK, FrameTypes
<1>11. status' \in {"BINDING_OK", "CONNECTED"} => status' = status /\ peer' # "alive"
  <2>1. CASE Connect
    BY <2>1, <1>9 DEF Connect, At
  <2>2. CASE Disconnect
    BY <2>2 DEF Disconnect, Close, device
  <2>3. CASE LinkDown
    BY <2>3 DEF LinkDown, CutOff, device
  <2>4. CASE ServerCloses
    BY <2>4 DEF ServerCloses, CutOff, device
  <2>5. CASE ServerNotices
    BY <2>5 DEF ServerNotices, device
  <2>6. QED
    BY <2>1, <2>2, <2>3, <2>4, <2>5
<1>12. ConnectedIsBound'
  BY <1>11 DEF ConnectedIsBound
<1>13. QED
  BY <1>3, <1>5, <1>10, <1>12 DEF SoundStep

\* One more frame at the end of the wire.
LEMMA FrameFills ==
  ASSUME ServiceTypeOK, NEW f \in Frames
  PROVE  Append(wire, f) \in Seq(FrameTypes) /\ wire \o <<f>> = Append(wire, f)
<1>1. wire \in Seq(FrameTypes) /\ f \in FrameTypes
  BY DEF ServiceTypeOK, FrameTypes
<1>2. QED
  BY <1>1, AppendProperties, AppendIsConcat

LEMMA AskStep ==
  ASSUME ServiceTypeOK, WireInv, NEW s \in Statuses, NEW f \in Replies,
         NEW n \in {"HANDSHAK_WAIT_REPLY", "BINDING_WAIT_REPLY"},
         s \notin {"BINDING_OK", "CONNECTED"}, Ask(s, f, n, "CONNECTING")
  PROVE  SoundStep
<1>t. /\ faults \in 0..MaxFaults /\ flaps \in 0..MaxFlaps /\ MaxFlaps \in Nat
      /\ bound \in BOOLEAN /\ hung \in BOOLEAN /\ f \in Frames
      /\ {"CONNECTING", n} \subseteq Statuses
  BY DEF ServiceTypeOK, Frames, Statuses, Replying
<1>1. /\ UNCHANGED <<update_device_info_count, msg_queue, str_push_msg, inbox, linked, stored, pushed,
                     sent, taken, unsure, forgotten, unread, again, cut>>
      /\ str_comm_buf' = << >> /\ << >> \in Seq(sent)
      /\ bound' = (bound \/ (f = "BIND" /\ wire' # wire))
      /\ status = s
  BY DEF Ask, At, link, seen
<1>2. CountStep
  BY <1>1 DEF CountStep, Quiet
<1>3. status' \in {s, n, "CONNECTING"} /\ status' \in Statuses
  BY <1>t, <1>1 DEF Ask
<1>4. ConnectedIsBound'
  BY <1>3 DEF ConnectedIsBound
<1>5. CASE peer = "alive" /\ wire' = wire \o <<f>> /\ UNCHANGED <<peer, hung, faults, flaps>>
  <2>1. wire' = Append(wire, f) /\ wire' \in Seq(FrameTypes)
    BY <1>t, <1>5, FrameFills
  <2>2. wire' # wire
    <3>1. wire \in Seq(FrameTypes) /\ f \in FrameTypes
      BY <1>t DEF ServiceTypeOK, FrameTypes
    <3>2. Len(Append(wire, f)) = Len(wire) + 1 /\ Len(wire) \in Nat
      BY <3>1, AppendPlaces
    <3>3. QED
      BY <2>1, <3>2
  <2>3. ServiceTypeOK'
    BY <1>t, <1>1, <1>3, <1>5, <2>1 DEF ServiceTypeOK, FrameTypes
  <2>4. Fills(f)
    BY <1>1, <1>5, <2>1, <2>2 DEF Fills
  <2>5. QED
    BY <1>t, <1>2, <1>4, <2>3, <2>4 DEF SoundStep, WireStep
<1>6. CASE /\ UNCHANGED wire
           /\ peer' = peer \/ (peer' = "reset" /\ peer # "alive")
           /\ hung' \in BOOLEAN /\ faults' = faults /\ flaps' \in 0..MaxFlaps
  <2>1. Moved(0) /\ 0 \in Int
    BY <1>6, NothingMoves
  <2>2. Drains
    BY <1>1, <1>6, <2>1 DEF Drains, WireInv
  <2>3. ServiceTypeOK'
    BY <1>t, <1>1, <1>3, <1>6 DEF ServiceTypeOK
  <2>4. QED
    BY <1>2, <1>4, <2>2, <2>3 DEF SoundStep, WireStep
<1>7. Written(<<f>>) \/ NotWritten \/ Hangs
  BY DEF Ask
<1>8. hung' \in BOOLEAN
  BY <1>t, <1>7 DEF Written, NotWritten, Hangs
<1>9. CASE Written(<<f>>)
  BY <1>t, <1>5, <1>6, <1>8, <1>9 DEF Written
<1>10. CASE NotWritten \/ Hangs
  BY <1>t, <1>6, <1>8, <1>10 DEF NotWritten, Hangs
<1>11. QED
  BY <1>7, <1>9, <1>10

LEMMA AskSteps ==
  ASSUME ServiceTypeOK, WireInv, Handshake \/ BindUser
  PROVE  SoundStep
<1>1. {"HANDSHAKING", "BINDING"} \subseteq Statuses /\ {"HANDSHAKE", "BIND"} \subseteq Replies
  BY DEF Statuses, Replies
<1>2. QED
  BY <1>1, AskStep DEF Handshake, BindUser

LEMMA SendStep ==
  ASSUME ServiceTypeOK, WireInv, ConnectedIsBound, NEW m \in Messages, UserSends(m)
  PROVE  SoundStep
<1>1. /\ UNCHANGED <<status, update_device_info_count, msg_queue, str_push_msg, inbox, linked, hung,
                     str_comm_buf, peer, bound, taken, unsure, forgotten, unread, again, flaps,
                     faults, cut>>
      /\ m \notin sent /\ sent' = sent \cup {m}
  BY DEF UserSends, device, link
<1>2. \/ pushed' = pushed \cup {m} /\ UNCHANGED stored
      \/ stored' = stored \cup {m} /\ UNCHANGED pushed
  BY DEF UserSends
<1>3. CountStep
  BY <1>1, <1>2 DEF CountStep, Sends
<1>4. \/ UNCHANGED wire /\ pushed \subseteq pushed'
      \/ peer = "alive" /\ wire' = Append(wire, m) /\ pushed' = pushed \cup {m}
  BY DEF UserSends
<1>5. m \in Frames
  BY DEF Frames
<1>6. m # "BIND"
  BY DEF Replies
<1>7. WireStep /\ wire' \in Seq(FrameTypes)
  <2>1. CASE UNCHANGED wire /\ pushed \subseteq pushed'
    <3>1. Moved(0) /\ 0 \in Int
      BY <2>1, NothingMoves
    <3>2. Drains
      BY <1>1, <2>1, <3>1 DEF Drains, WireInv
    <3>3. QED
      BY <2>1, <3>2 DEF WireStep, ServiceTypeOK, FrameTypes
  <2>2. CASE peer = "alive" /\ wire' = Append(wire, m) /\ pushed' = pushed \cup {m}
    <3>1. wire' \in Seq(FrameTypes)
      BY <1>5, <2>2, FrameFills
    <3>2. Fills(m)
      BY <1>1, <1>6, <2>2 DEF Fills
    <3>3. QED
      BY <1>5, <3>1, <3>2 DEF WireStep
  <2>3. QED
    BY <1>4, <2>1, <2>2
<1>8. ServiceTypeOK'
  <2>1. str_comm_buf' \in Seq(sent')
    BY <1>1, SeqMonotonic DEF ServiceTypeOK
  <2>2. QED
    BY <1>1, <1>2, <1>7, <2>1 DEF ServiceTypeOK, FrameTypes
<1>9. ConnectedIsBound'
  BY <1>1 DEF ConnectedIsBound
<1>10. QED
  BY <1>3, <1>7, <1>8, <1>9 DEF SoundStep

\* mpush_client_receive, in the states that wait for a reply and when connected.
LEMMA ReceiveSteps ==
  ASSUME ServiceTypeOK, WireInv, ConnectedIsBound, AwaitReply \/ Connected
  PROVE  SoundStep
<1>t. /\ status \in Statuses /\ {"CONNECTED", "CONNECTING"} \subseteq Statuses
      /\ flaps \in 0..MaxFlaps /\ MaxFlaps \in Nat
      /\ peer \in {"none", "alive", "gone", "reset"}
  BY DEF ServiceTypeOK, Statuses
<1>1. UNCHANGED <<update_device_info_count, inbox, linked, bound, stored, sent, taken, str_comm_buf,
                  unread, again>>
  BY DEF AwaitReply, Connected, link
<1>2. ASSUME NEW s \in Statuses, Receive(s), UNCHANGED hung, flaps' \in 0..MaxFlaps,
             peer' = peer \/ (peer # "alive" /\ peer' = "reset"),
             s \in Replying \cup {"CONNECTING"} \/ (s = "CONNECTED" /\ status = "CONNECTED")
      PROVE  SoundStep
  <2>1. /\ ReceivedTypes /\ ReceivedFrom(s)
        /\ Quiet \/ Again \/ \E m \in Messages : Comes(m)
    BY <1>1, <1>2, Receiving
  <2>2. CountStep
    BY <2>1 DEF CountStep
  <2>3. ServiceTypeOK'
    BY <1>1, <1>2, <2>1 DEF ServiceTypeOK, ReceivedTypes, FrameTypes
  <2>4. peer' # "alive" => wire' = << >>
    BY <1>2, <2>1 DEF ReceivedFrom, WireInv
  <2>5. PICK d \in Int : /\ Moved(d)
                         /\ \/ pushed \subseteq pushed'
                            \/ d = 1 /\ wire # << >> /\ pushed' = pushed \ {Head(wire)}
    BY <2>1 DEF ReceivedFrom
  <2>6. Drains
    BY <1>1, <2>1, <2>4, <2>5 DEF Drains, ReceivedFrom
  <2>7. ConnectedIsBound'
    <3>1. s \notin {"BINDING_OK", "HANDSHAK_OK"}
      BY <1>2 DEF Replying
    <3>2. status' \in {"BINDING_OK", "CONNECTED"} =>
            (status = "CONNECTED" \/ bound \/ cut)
      BY <1>2, <2>1, <3>1 DEF ReceivedFrom, Replying
    <3>3. cut => cut'
      BY <2>1 DEF ReceivedFrom
    <3>4. QED
      BY <1>1, <1>2, <3>2, <3>3 DEF ConnectedIsBound
  <2>8. QED
    BY <2>2, <2>3, <2>6, <2>7 DEF SoundStep, WireStep
<1>3. CASE AwaitReply
  BY <1>t, <1>2, <1>3 DEF AwaitReply
<1>4. CASE Connected
  <2>1. status = "CONNECTED"
    BY <1>4 DEF Connected, At
  <2>2. CASE /\ peer' \in {peer, IF peer = "gone" THEN "reset" ELSE peer}
             /\ Receive("CONNECTED") /\ UNCHANGED <<hung, flaps>>
    BY <1>t, <1>2, <2>1, <2>2
  <2>3. CASE /\ flaps < MaxFlaps /\ flaps' = flaps + 1
             /\ Receive("CONNECTING") /\ UNCHANGED <<hung, peer>>
    BY <1>t, <1>2, <2>3
  <2>4. CASE Hangs /\ UNCHANGED <<status, msg_queue, str_push_msg, pushed, unsure, forgotten, cut>>
    <3>1. hung' = TRUE /\ UNCHANGED <<peer, wire, faults, flaps>>
      BY <2>4 DEF Hangs
    <3>2. UNCHANGED <<msg_queue, str_push_msg, str_comm_buf, server, seen, cut>>
      BY <1>1, <2>4, <3>1 DEF server, seen
    <3>3. CountStep /\ WireStep
      BY <3>2, StillStep
    <3>4. ServiceTypeOK'
      BY <1>1, <2>4, <3>1 DEF ServiceTypeOK
    <3>5. ConnectedIsBound'
      BY <1>1, <2>4, <3>1 DEF ConnectedIsBound
    <3>6. QED
      BY <3>3, <3>4, <3>5 DEF SoundStep
  <2>5. QED
    BY <1>4, <2>2, <2>3, <2>4 DEF Connected
<1>5. QED
  BY <1>3, <1>4

LEMMA AllSteps ==
  ASSUME ServiceTypeOK, WireInv, ConnectedIsBound, IsFiniteSet(sent), IsInjective(str_comm_buf),
         WifiEvent \/ ServiceStep \/ WorldStep
  PROVE  SoundStep
BY LoopSteps, OfflineStep, ClosingSteps, AskSteps, SendStep, ReceiveSteps DEF ServiceStep, WorldStep

-----------------------------------------------------------------------------
(* What is on the wire                                                     *)

LEMMA DrainKeepsWire ==
  ASSUME ServiceTypeOK, ServiceTypeOK', WireInv, Drains
  PROVE  WireInv'
<1>1. CASE wire' = << >>
  <2>1. DOMAIN wire' = {}
    BY <1>1
  <2>2. QED
    BY <1>1, <2>1 DEF WireInv
<1>2. CASE wire' # << >>
  <2>1. PICK d \in Int : /\ Moved(d)
                         /\ \/ pushed \subseteq pushed'
                            \/ d = 1 /\ wire # << >> /\ pushed' = pushed \ {Head(wire)}
    BY <1>2 DEF Drains
  <2>2. (cut => cut') /\ (bound => bound') /\ peer' = "alive"
    BY <1>2 DEF Drains
  <2>3. ASSUME NEW i \in DOMAIN wire'
        PROVE  /\ i \in Nat \ {0}
               /\ \/ wire'[i] = Rest /\ cut'
                  \/ i + d \in DOMAIN wire /\ wire'[i] = wire[i + d]
    <3>1. DOMAIN wire' = 1..Len(wire') /\ Len(wire') \in Nat
      BY LenProperties DEF ServiceTypeOK
    <3>2. QED
      BY <2>1, <3>1 DEF Moved
  <2>4. Rest \notin Messages /\ "BIND" # Rest
    BY DEF Rest
  <2>5. ASSUME NEW i \in DOMAIN wire', wire'[i] \in Messages PROVE wire'[i] \in pushed'
    <3>1. i + d \in DOMAIN wire /\ wire'[i] = wire[i + d]
      BY <2>3, <2>4, <2>5
    <3>2. wire[i + d] \in pushed
      BY <2>5, <3>1 DEF WireInv
    <3>3. CASE d = 1 /\ wire # << >> /\ pushed' = pushed \ {Head(wire)}
      <4>1. Head(wire) = wire[1] /\ 1 \in DOMAIN wire
        <5>1. wire \in Seq(FrameTypes)
          BY DEF ServiceTypeOK, FrameTypes
        <5>2. QED
          BY <3>3, <5>1, TailPlaces, LenProperties
      <4>2. i + d # 1
        BY <2>3, <3>3
      <4>3. wire[i + d] # wire[1]
        BY <2>5, <3>1, <4>1, <4>2 DEF WireInv
      <4>4. QED
        BY <3>1, <3>2, <3>3, <4>1, <4>3
    <3>4. QED
      BY <2>1, <3>1, <3>2, <3>3
  <2>6. ASSUME NEW i \in DOMAIN wire', NEW j \in DOMAIN wire',
               wire'[i] = wire'[j], wire'[i] \in Messages
        PROVE  i = j
    <3>1. /\ i + d \in DOMAIN wire /\ wire'[i] = wire[i + d]
          /\ j + d \in DOMAIN wire /\ wire'[j] = wire[j + d]
      BY <2>3, <2>4, <2>6
    <3>2. i + d = j + d
      BY <2>6, <3>1 DEF WireInv
    <3>3. QED
      BY <2>3, <3>2
  <2>7. ASSUME NEW i \in DOMAIN wire', wire'[i] = Rest PROVE cut'
    BY <2>2, <2>3, <2>7 DEF WireInv
  <2>8. ASSUME NEW i \in DOMAIN wire', wire'[i] = "BIND" PROVE bound' \/ cut'
    BY <2>2, <2>3, <2>4, <2>8 DEF WireInv
  <2>9. QED
    BY <2>2, <2>5, <2>6, <2>7, <2>8 DEF WireInv
<1>3. QED
  BY <1>1, <1>2

LEMMA FillKeepsWire ==
  ASSUME ServiceTypeOK, WireInv, NEW f \in Frames, Fills(f)
  PROVE  WireInv'
<1>1. wire \in Seq(FrameTypes) /\ f \in FrameTypes
  BY DEF ServiceTypeOK, FrameTypes
<1>2. /\ wire' \in Seq(FrameTypes)
      /\ Len(wire) \in Nat /\ Len(wire') = Len(wire) + 1
      /\ \A i \in 1..Len(wire) : wire'[i] = wire[i]
      /\ wire'[Len(wire) + 1] = f
  BY <1>1, AppendPlaces DEF Fills
<1>3. DOMAIN wire = 1..Len(wire) /\ DOMAIN wire' = 1..(Len(wire) + 1)
  BY <1>1, <1>2, LenProperties
<1>4. \A i \in DOMAIN wire' :
        \/ i \in DOMAIN wire /\ wire'[i] = wire[i]
        \/ i = Len(wire) + 1 /\ wire'[i] = f
  BY <1>2, <1>3
<1>5. /\ peer' = "alive" /\ cut' = cut /\ (bound => bound') /\ (f = "BIND" => bound')
      /\ \/ f \in Replies /\ UNCHANGED pushed
         \/ f \in Messages \ sent /\ pushed' = pushed \cup {f}
  BY DEF Fills
<1>6. f # Rest
  BY <1>5 DEF Replies, Rest
<1>7. \A i \in DOMAIN wire : wire[i] \in Messages => wire[i] # f
  BY <1>5 DEF WireInv, ServiceTypeOK
<1>8. ASSUME NEW i \in DOMAIN wire', wire'[i] \in Messages PROVE wire'[i] \in pushed'
  BY <1>4, <1>5, <1>8 DEF WireInv
<1>9. ASSUME NEW i \in DOMAIN wire', NEW j \in DOMAIN wire',
             wire'[i] = wire'[j], wire'[i] \in Messages
      PROVE  i = j
  BY <1>4, <1>7, <1>9 DEF WireInv
<1>10. \A i \in DOMAIN wire' : wire'[i] = Rest => cut'
  BY <1>4, <1>5, <1>6 DEF WireInv
<1>11. \A i \in DOMAIN wire' : wire'[i] = "BIND" => bound' \/ cut'
  BY <1>4, <1>5 DEF WireInv
<1>12. QED
  BY <1>5, <1>8, <1>9, <1>10, <1>11 DEF WireInv

-----------------------------------------------------------------------------
(* How often each message was queued                                       *)

Counts == NoneLost /\ OnceEach /\ CountInv

\* More is kept and less is queued than the counts allow.
LEMMA CountsHold ==
  ASSUME ServiceTypeOK, ServiceTypeOK', Counts, sent' = sent,
         str_push_msg' \in sent \cup {None}, cut => cut', unsure \subseteq unsure',
         again \subseteq again', unread \subseteq unread', IsInjective(str_comm_buf'),
         \A m \in Messages : Times(m)' \in Nat,
         \A m \in Messages :
           \/ Times(m)' = Times(m)
           \/ /\ m \in sent
              /\ Times(m)' = Times(m) + 1
              /\ \/ cut' \/ m \in unsure' \cup again'
                 \/ Times(m) = 0 /\ m \notin stored' \cup pushed',
         \A m \in stored \cup pushed :
           m \in stored' \cup pushed' \cup forgotten' \cup unread' \/ Times(m)' = Times(m) + 1,
         forgotten \subseteq forgotten',
         \A m \in stored' \cup pushed' : m \in stored \cup pushed
  PROVE  Counts'
<1>1. sent \subseteq Messages /\ \A m \in Messages : Times(m) \in Nat
  BY TimesIsCount DEF ServiceTypeOK
<1>2. stored \cup pushed \subseteq sent
  BY DEF ServiceTypeOK
<1>3. NoneLost'
  <2> SUFFICES ASSUME NEW m \in sent
               PROVE  m \in stored' \cup pushed' \cup forgotten' \cup unread' \/ Times(m)' > 0
    BY DEF NoneLost
  <2>1. CASE m \in stored \cup pushed
    BY <1>1, <2>1
  <2>2. CASE m \in forgotten \cup unread
    BY <2>2
  <2>3. CASE Times(m) > 0
    BY <1>1, <2>3
  <2>4. QED
    BY <2>1, <2>2, <2>3 DEF Counts, NoneLost
<1>4. OnceEach'
  <2> SUFFICES ASSUME NEW m \in sent
               PROVE  Times(m)' <= 1 \/ m \in unsure' \cup again' \/ cut'
    BY DEF OnceEach
  <2>1. Times(m) <= 1 \/ m \in unsure \cup again \/ cut
    BY DEF Counts, OnceEach
  <2>2. QED
    BY <1>1, <2>1
<1>5. CountInv'
  <2>1. IsFiniteSet(sent') /\ (str_push_msg' # None => str_push_msg' \in sent')
    BY DEF Counts, CountInv
  <2>2. \A m \in Messages \ sent : Times(m)' = 0
    BY <1>1 DEF Counts, CountInv
  <2>3. ASSUME NEW m \in stored' \cup pushed'
        PROVE  Times(m)' = 0 \/ m \in unsure' \cup again' \/ cut'
    <3>1. m \in stored \cup pushed /\ m \in Messages
      BY <1>1, <1>2
    <3>2. Times(m) = 0 \/ m \in unsure \cup again \/ cut
      BY <3>1 DEF Counts, CountInv
    <3>3. QED
      BY <2>3, <3>1, <3>2
  <2>4. QED
    BY <2>1, <2>2, <2>3 DEF CountInv
<1>6. QED
  BY <1>3, <1>4, <1>5 DEF Counts

LEMMA TimesSame ==
  ASSUME UNCHANGED <<msg_queue, taken>>
  PROVE  \A m \in Messages : Times(m)' = Times(m)
BY DEF Times

\* A message put at the end of the queue.
LEMMA QueuedOnce ==
  ASSUME ServiceTypeOK, NEW m \in Messages, msg_queue' = Append(msg_queue, m), UNCHANGED taken
  PROVE  /\ \A k \in Messages : Times(k)' \in {Times(k), Times(k) + 1}
         /\ \A k \in Messages \ {m} : Times(k)' = Times(k)
<1>t. msg_queue \in Seq(Messages) /\ taken \in [Messages -> Nat]
  BY DEF ServiceTypeOK
<1> DEFINE one == <<m>>
<1>1. one \in Seq(Messages) /\ NoRepeat(one) /\ Elems(one) = {m}
  BY OneEntry
<1>2. msg_queue' = msg_queue \o one
  BY <1>t, AppendIsConcat
<1> HIDE DEF one
<1>3. ASSUME NEW k \in Messages
      PROVE  Times(k)' = IF k = m THEN Times(k) + 1 ELSE Times(k)
  <2>1. Times(k)' = taken[k] + Cardinality(Places(msg_queue \o one, k))
    BY <1>2 DEF Times, Places
  <2>2. Times(k) = taken[k] + Cardinality(Places(msg_queue, k))
    BY DEF Times, Places
  <2>3. Cardinality(Places(msg_queue, k)) \in Nat /\ taken[k] \in Nat
    BY <1>t, PlacesFinite
  <2>4. Cardinality(Places(msg_queue \o one, k)) =
          IF k \in Elems(one) THEN Cardinality(Places(msg_queue, k)) + 1
          ELSE Cardinality(Places(msg_queue, k))
    BY <1>t, <1>1, CountJoin
  <2>5. QED
    BY <1>1, <2>1, <2>2, <2>3, <2>4
<1>4. QED
  BY <1>3

LEMMA CountStepKeeps ==
  ASSUME ServiceTypeOK, ServiceTypeOK', Counts, CountStep
  PROVE  Counts'
<1>1. /\ sent \subseteq Messages
      /\ stored \cup pushed \cup unsure \cup forgotten \cup unread \cup again \subseteq sent
      /\ stored \cap pushed = {}
      /\ str_push_msg \in sent \cup {None}
  BY DEF ServiceTypeOK, Counts, CountInv
<1>2. (\A m \in Messages : Times(m) \in Nat) /\ (\A m \in Messages : Times(m)' \in Nat)
  <2>1. \A m \in Messages : Times(m) \in Nat
    BY TimesIsCount
  <2>2. ASSUME NEW m \in Messages PROVE Times(m)' \in Nat
    <3>1. msg_queue' \in Seq(Messages) /\ taken' \in [Messages -> Nat]
      BY DEF ServiceTypeOK
    <3>2. Cardinality(Places(msg_queue', m)) \in Nat
      BY <3>1, PlacesFinite
    <3>3. QED
      BY <3>1, <3>2 DEF Times, Places
  <2>3. QED
    BY <2>1, <2>2
<1>3. CASE Quiet
  <2>1. \A m \in Messages : Times(m)' = Times(m)
    BY <1>3, TimesSame DEF Quiet
  <2>2. /\ sent' = sent /\ str_push_msg' \in sent \cup {None} /\ (cut => cut')
        /\ unsure' = unsure /\ forgotten' = forgotten /\ unread' = unread /\ again' = again
        /\ IsInjective(str_comm_buf')
        /\ stored' \cup pushed' = stored \cup pushed
    BY <1>1, <1>3, NoneInjective DEF Quiet, Counts, CountInv
  <2>3. QED
    BY <1>2, <2>1, <2>2, CountsHold
<1>4. CASE Offline
  <2>1. PICK q \in [1..Cardinality(stored) -> stored] : IsInjective(q) /\ Add(q) /\ str_comm_buf' = q
    BY <1>4 DEF Offline
  <2>2. q \in Seq(Messages) /\ NoRepeat(q) /\ Elems(q) = stored
    BY <2>1, OfflineListed DEF Counts, CountInv
  <2>3. /\ forgotten \subseteq forgotten'
        /\ \A m \in Messages : Times(m)' \in {Times(m), Times(m) + 1}
        /\ \A m \in Messages \ stored : Times(m)' = Times(m)
        /\ \A m \in stored : Times(m)' = Times(m) + 1 \/ m \in forgotten'
    BY <1>4, <2>1, <2>2, AddedTimes DEF Offline
  <2>4. /\ sent' = sent /\ str_push_msg' \in sent \cup {None} /\ cut' = cut
        /\ unsure' = unsure /\ pushed' = pushed /\ stored' = {}
        /\ unread' = unread /\ again' = again
    BY <1>1, <1>4 DEF Offline
  <2>5. \A m \in stored : Times(m) = 0 \/ m \in unsure \cup again \/ cut
    BY DEF Counts, CountInv
  <2>6. \A m \in Messages :
           \/ Times(m)' = Times(m)
           \/ /\ m \in sent
              /\ Times(m)' = Times(m) + 1
              /\ \/ cut' \/ m \in unsure' \cup again'
                 \/ Times(m) = 0 /\ m \notin stored' \cup pushed'
    BY <1>1, <2>3, <2>4, <2>5
  <2>7. QED
    BY <1>2, <2>1, <2>3, <2>4, <2>6, CountsHold
<1>10. CASE Spoiled
  <2>1. /\ UNCHANGED <<str_push_msg, taken, sent, unsure, pushed, cut>>
        /\ stored' \subseteq stored /\ unread \subseteq unread' /\ stored \subseteq stored' \cup unread'
    BY <1>10 DEF Spoiled
  <2>2. CASE str_comm_buf' \in {str_comm_buf, << >>} /\ UNCHANGED <<msg_queue, forgotten, again>>
    <3>1. \A m \in Messages : Times(m)' = Times(m)
      BY <2>1, <2>2, TimesSame
    <3>2. IsInjective(str_comm_buf')
      BY <2>2, NoneInjective DEF Counts, CountInv
    <3>3. QED
      BY <1>1, <1>2, <2>1, <2>2, <3>1, <3>2, CountsHold
  <2>3. CASE /\ Add(str_comm_buf) /\ again' = again \cup Range(str_comm_buf)
             /\ UNCHANGED str_comm_buf
    <3>1. /\ str_comm_buf \in Seq(Messages) /\ NoRepeat(str_comm_buf)
          /\ Elems(str_comm_buf) = Range(str_comm_buf) /\ Range(str_comm_buf) \subseteq sent
      BY <1>1, BufferListed DEF Counts, CountInv
    <3>2. /\ forgotten \subseteq forgotten'
          /\ \A m \in Messages : Times(m)' \in {Times(m), Times(m) + 1}
          /\ \A m \in Messages \ Elems(str_comm_buf) : Times(m)' = Times(m)
      BY <2>1, <2>3, <3>1, AddedTimes
    <3>3. \A m \in Messages :
            \/ Times(m)' = Times(m)
            \/ m \in sent /\ Times(m)' = Times(m) + 1 /\ m \in unsure' \cup again'
      BY <2>3, <3>1, <3>2
    <3>4. IsInjective(str_comm_buf')
      BY <2>3 DEF Counts, CountInv
    <3>5. QED
      BY <1>1, <1>2, <2>1, <2>3, <3>2, <3>3, <3>4, CountsHold
  <2>4. QED
    BY <1>10, <2>2, <2>3 DEF Spoiled
<1>5. CASE Takes
  <2>1. \A m \in Messages : Times(m)' = Times(m)
    BY <1>5, TakenTimes DEF Takes
  <2>2. /\ sent' = sent /\ str_push_msg' \in sent \cup {None} /\ cut' = cut
        /\ unsure' = unsure /\ forgotten' = forgotten /\ stored' = stored /\ pushed' = pushed
        /\ unread' = unread /\ again' = again /\ IsInjective(str_comm_buf')
    BY <1>1, <1>5 DEF Takes, Counts, CountInv
  <2>3. QED
    BY <1>2, <2>1, <2>2, CountsHold
<1>6. CASE Again
  <2>1. str_push_msg \in sent /\ str_push_msg \in Messages
    BY <1>1, <1>6 DEF Again
  <2>2. /\ \A m \in Messages : Times(m)' \in {Times(m), Times(m) + 1}
        /\ \A m \in Messages \ {str_push_msg} : Times(m)' = Times(m)
    BY <1>6, <2>1, QueuedOnce DEF Again
  <2>3. /\ sent' = sent /\ str_push_msg' \in sent \cup {None} /\ cut' /\ cut
        /\ unsure' = unsure /\ forgotten' = forgotten /\ stored' = stored /\ pushed' = pushed
        /\ unread' = unread /\ again' = again /\ IsInjective(str_comm_buf')
    BY <1>1, <1>6 DEF Again, Counts, CountInv
  <2>4. QED
    BY <1>2, <2>1, <2>2, <2>3, CountsHold
<1>7. ASSUME NEW m \in Messages, Comes(m) PROVE Counts'
  <2>1. /\ m \in sent /\ m \notin stored
        /\ sent' = sent /\ str_push_msg' \in sent \cup {None} /\ cut' = cut /\ stored' = stored
        /\ unread' = unread /\ again' = again /\ IsInjective(str_comm_buf')
    BY <1>1, <1>7 DEF Comes, Counts, CountInv
  <2>2. Times(m) = 0 \/ m \in unsure \cup again \/ cut
    BY <1>7 DEF Counts, CountInv, Comes
  <2>3. CASE pushed' = pushed \ {m} /\ UNCHANGED unsure /\ Add(<<m>>)
    <3>1. <<m>> \in Seq(Messages) /\ NoRepeat(<<m>>) /\ Elems(<<m>>) = {m}
      BY OneEntry
    <3>2. /\ forgotten \subseteq forgotten'
          /\ \A k \in Messages : Times(k)' \in {Times(k), Times(k) + 1}
          /\ \A k \in Messages \ {m} : Times(k)' = Times(k)
          /\ Times(m)' = Times(m) + 1 \/ m \in forgotten'
      BY <1>7, <2>3, <3>1, AddedTimes DEF Comes
    <3>3. QED
      BY <1>2, <2>1, <2>2, <2>3, <3>2, CountsHold
  <2>4. CASE /\ unsure' = unsure \cup {m} /\ msg_queue' = Append(msg_queue, m)
             /\ UNCHANGED <<pushed, forgotten>>
    <3>1. /\ \A k \in Messages : Times(k)' \in {Times(k), Times(k) + 1}
          /\ \A k \in Messages \ {m} : Times(k)' = Times(k)
      BY <1>7, <2>4, QueuedOnce DEF Comes
    <3>2. QED
      BY <1>2, <2>1, <2>4, <3>1, CountsHold
  <2>5. QED
    BY <1>7, <2>3, <2>4 DEF Comes
<1>8. ASSUME NEW m \in Messages, Sends(m) PROVE Counts'
  <2>1. \A k \in Messages : Times(k)' = Times(k)
    BY <1>8, TimesSame DEF Sends
  <2>2. /\ sent' = sent \cup {m} /\ m \notin sent
        /\ UNCHANGED <<str_push_msg, str_comm_buf, unsure, forgotten, unread, again, cut>>
        /\ stored' \cup pushed' = stored \cup pushed \cup {m}
    BY <1>8 DEF Sends
  <2>3. Times(m) = 0
    BY <2>2 DEF Counts, CountInv
  <2>4. NoneLost'
    BY <1>1, <1>2, <2>1, <2>2 DEF Counts, NoneLost
  <2>5. OnceEach'
    BY <1>1, <1>2, <2>1, <2>2, <2>3 DEF Counts, OnceEach
  <2>6. IsFiniteSet(sent')
    BY <2>2, FS_AddElement DEF Counts, CountInv
  <2>7. CountInv'
    BY <1>1, <1>2, <2>1, <2>2, <2>3, <2>6 DEF Counts, CountInv
  <2>8. QED
    BY <2>4, <2>5, <2>7 DEF Counts
<1>9. QED
  BY <1>3, <1>4, <1>5, <1>6, <1>7, <1>8, <1>10 DEF CountStep

-----------------------------------------------------------------------------
(* The invariant                                                           *)

MsgTypes ==
  /\ play_status \in {0, 1}
  /\ msg_info \in Spoken \cup {None}
  /\ {tone, missed} \subseteq BOOLEAN

ToneInv == WaitsForItsTone /\ (msg_info # None => tone \/ missed)

LEMMA MpushInvParts ==
  MpushInv <=> ServiceTypeOK /\ MsgTypes /\ Counts /\ WireInv /\ ConnectedIsBound /\ ToneInv
BY DEF MpushInv, MessagesAreKept, TypeOK, MsgTypes, Counts, ToneInv

LEMMA MpushInvInit == Init => MpushInv
<1> SUFFICES ASSUME Init PROVE MpushInv
  OBVIOUS
<1>1. /\ msg_queue = << >> /\ wire = << >> /\ inbox = << >> /\ sent = {} /\ stored = {}
      /\ pushed = {} /\ unsure = {} /\ forgotten = {} /\ taken = [m \in Messages |-> 0]
      /\ str_comm_buf = << >> /\ unread = {} /\ again = {}
      /\ str_push_msg = None /\ status = "IDEL" /\ peer = "none" /\ cut = FALSE
      /\ hung = FALSE /\ linked = FALSE /\ bound = FALSE /\ update_device_info_count = 0
      /\ flaps = 0 /\ faults = 0
      /\ play_status = 0 /\ msg_info = None /\ tone = FALSE /\ missed = FALSE
  BY DEF Init, ServiceInit
<1>2. ServiceTypeOK
  <2>1. /\ msg_queue \in Seq(Messages) /\ wire \in Seq(Frames \cup {Rest})
        /\ inbox \in Seq({"CONNECTED", "DISCONNECTED"})
    BY <1>1
  <2>2. status \in Statuses /\ taken \in [Messages -> Nat]
    BY <1>1 DEF Statuses
  <2>3. flaps \in 0..MaxFlaps /\ faults \in 0..MaxFaults
    BY <1>1
  <2>4. {hung, linked, bound, cut} \subseteq BOOLEAN /\ peer \in {"none", "alive", "gone", "reset"}
    BY <1>1
  <2>5. stored \cup pushed \cup unsure \cup forgotten \cup unread \cup again \subseteq sent
        /\ stored \cap pushed = {} /\ str_comm_buf \in Seq(sent)
        /\ sent \subseteq Messages /\ update_device_info_count \in 0..3
    BY <1>1
  <2>6. QED
    BY <1>1, <2>1, <2>2, <2>3, <2>4, <2>5 DEF ServiceTypeOK
<1>3. MsgTypes
  BY <1>1 DEF MsgTypes
<1>4. \A m \in Messages : Times(m) = 0
  <2> SUFFICES ASSUME NEW m \in Messages PROVE Times(m) = 0
    OBVIOUS
  <2>1. {i \in DOMAIN msg_queue : msg_queue[i] = m} = {}
    BY <1>1
  <2>2. QED
    BY <1>1, <2>1, FS_EmptySet DEF Times
<1>5. Counts
  <2>1. IsInjective(str_comm_buf)
    BY <1>1 DEF IsInjective
  <2>2. QED
    BY <1>1, <1>4, <2>1, FS_EmptySet DEF Counts, NoneLost, OnceEach, CountInv
<1>6. WireInv
  <2>1. DOMAIN wire = {}
    BY <1>1
  <2>2. QED
    BY <1>1, <2>1 DEF WireInv
<1>7. ConnectedIsBound /\ ToneInv
  BY <1>1 DEF ConnectedIsBound, ToneInv, WaitsForItsTone
<1>8. QED
  BY <1>2, <1>3, <1>5, <1>6, <1>7, MpushInvParts

\* mpush_get_msg_queue takes a message, and touches nothing of the connection.
LEMMA TakeStep ==
  ASSUME ServiceTypeOK, WireInv, ConnectedIsBound, mpush_get_msg_queue
  PROVE  SoundStep /\ Head(msg_queue) \in Messages
<1>1. /\ msg_queue # << >> /\ msg_queue' = Tail(msg_queue)
      /\ taken' = [taken EXCEPT ![Head(msg_queue)] = @ + 1]
      /\ UNCHANGED <<status, update_device_info_count, str_push_msg, str_comm_buf, inbox, linked, hung,
                     peer, wire, bound, stored, pushed, sent, unsure, forgotten, unread, again, flaps,
                     faults, cut>>
  BY DEF mpush_get_msg_queue, link, server
<1>2. CountStep
  BY <1>1 DEF CountStep, Takes
<1>3. Moved(0) /\ 0 \in Int
  BY <1>1, NothingMoves
<1>4. WireStep
  BY <1>1, <1>3 DEF WireStep, Drains, WireInv
<1>5. msg_queue' \in Seq(Messages) /\ taken' \in [Messages -> Nat]
  BY <1>1, TakenTimes
<1>6. ServiceTypeOK'
  BY <1>1, <1>5 DEF ServiceTypeOK
<1>7. ConnectedIsBound'
  BY <1>1 DEF ConnectedIsBound
<1>8. Head(msg_queue) \in Messages
  BY <1>1, HeadTailProperties DEF ServiceTypeOK
<1>9. QED
  BY <1>2, <1>4, <1>6, <1>7, <1>8 DEF SoundStep

\* A step that is none of the service's nor of the world around it.
LEMMA NoServiceStep ==
  ASSUME ServiceTypeOK, WireInv, ConnectedIsBound, UNCHANGED serviceVars
  PROVE  SoundStep
<1>1. UNCHANGED <<status, update_device_info_count, msg_queue, str_push_msg, str_comm_buf, inbox,
                  linked, hung, peer, wire, bound, stored, pushed, sent, taken, unsure, forgotten,
                  unread, again, flaps, faults, cut>>
  BY DEF serviceVars, device, link, server, seen
<1>2. CountStep /\ WireStep
  BY <1>1, StillStep DEF server, seen
<1>3. ServiceTypeOK'
  BY <1>1 DEF ServiceTypeOK
<1>4. ConnectedIsBound'
  BY <1>1 DEF ConnectedIsBound
<1>5. QED
  BY <1>2, <1>3, <1>4 DEF SoundStep

LEMMA EveryStepIsSound ==
  ASSUME MpushInv, [Next]_vars
  PROVE  SoundStep
<1>1. /\ ServiceTypeOK /\ WireInv /\ ConnectedIsBound /\ IsFiniteSet(sent)
      /\ IsInjective(str_comm_buf)
  BY MpushInvParts DEF Counts, CountInv
<1>2. CASE WifiEvent \/ ServiceStep \/ WorldStep
  BY <1>1, <1>2, AllSteps
<1>3. CASE StartTone \/ NoTone
  BY <1>1, <1>3, TakeStep DEF StartTone, NoTone
<1>4. CASE UNCHANGED serviceVars
  BY <1>1, <1>4, NoServiceStep
<1>5. QED
  BY <1>2, <1>3, <1>4 DEF Next, MsgStep, SetPlayStatus, Refused, mpush_msg_event_notify, EndDropped,
                               vars

\* The tone that is told its end, or missed it.
LEMMA ToneStep ==
  ASSUME MpushInv, [Next]_vars
  PROVE  MsgTypes' /\ ToneInv'
<1>1. ServiceTypeOK /\ WireInv /\ ConnectedIsBound /\ MsgTypes /\ ToneInv
  BY MpushInvParts
<1>2. CASE UNCHANGED msgVars
  BY <1>1, <1>2 DEF msgVars, MsgTypes, ToneInv, WaitsForItsTone
<1>3. CASE StartTone
  BY <1>1, <1>3 DEF StartTone, mpush_get_msg_queue, MsgTypes, ToneInv, WaitsForItsTone
<1>4. CASE NoTone
  BY <1>1, <1>4 DEF NoTone, mpush_get_msg_queue, MsgTypes, ToneInv, WaitsForItsTone
<1>5. CASE SetPlayStatus
  BY <1>1, <1>5 DEF SetPlayStatus, MsgTypes, ToneInv, WaitsForItsTone
<1>6. CASE Refused
  BY <1>1, <1>6 DEF Refused, MsgTypes, ToneInv, WaitsForItsTone
<1>7. CASE mpush_msg_event_notify
  <2>1. /\ tone' = FALSE /\ play_status' = 0 /\ msg_info' = msg_info
        /\ missed' = (missed \/ msg_info # None)
    BY <1>7 DEF mpush_msg_event_notify
  <2>2. MsgTypes'
    BY <1>1, <2>1 DEF MsgTypes
  <2>3. (msg_info' # None => missed') /\ ~tone' /\ play_status' # 1
    <3>1. msg_info' # None => missed'
      BY <2>1, Zenon
    <3>2. QED
      BY <2>1, <3>1
  <2>4. ToneInv'
    BY <2>3 DEF ToneInv, WaitsForItsTone
  <2>5. QED
    BY <2>2, <2>4
<1>8. CASE EndDropped
  BY <1>1, <1>8 DEF EndDropped, MsgTypes, ToneInv, WaitsForItsTone
<1>9. QED
  BY <1>2, <1>3, <1>4, <1>5, <1>6, <1>7, <1>8 DEF Next, MsgStep, vars

LEMMA MpushInvNext == MpushInv /\ [Next]_vars => MpushInv'
<1> SUFFICES ASSUME MpushInv, [Next]_vars PROVE MpushInv'
  OBVIOUS
<1>1. ServiceTypeOK /\ WireInv /\ Counts
  BY MpushInvParts
<1>2. ServiceTypeOK' /\ CountStep /\ WireStep /\ ConnectedIsBound'
  BY EveryStepIsSound DEF SoundStep
<1>3. Counts'
  BY <1>1, <1>2, CountStepKeeps
<1>4. WireInv'
  BY <1>1, <1>2, DrainKeepsWire, FillKeepsWire DEF WireStep
<1>5. MsgTypes' /\ ToneInv'
  BY ToneStep
<1>6. QED
  BY <1>2, <1>3, <1>4, <1>5 DEF MpushInv, MessagesAreKept, TypeOK, MsgTypes, Counts, ToneInv

LEMMA MpushInvAlways == Spec => []MpushInv
BY MpushInvInit, MpushInvNext, PTL DEF Spec

\* A message a user sent stays with the server until the device has it, and is queued
\* once, however often the connection is lost and whatever fails: for any messages and
\* any number of losses and faults.
THEOREM EveryMessageKept == Spec => []MessagesAreKept
<1>1. MpushInv => MessagesAreKept
  BY DEF MpushInv
<1>2. QED
  BY <1>1, MpushInvAlways, PTL

\* The service takes itself for connected only on a connection that is bound, or that is
\* no more, or when it lost its place between two frames.
THEOREM BoundWhenConnected == Spec => []ConnectedIsBound
<1>1. MpushInv => ConnectedIsBound
  BY DEF MpushInv
<1>2. QED
  BY <1>1, MpushInvAlways, PTL

\* One message is spoken at a time; the service waits for the one being spoken, or for
\* one that will never be told its end.
THEOREM OneSpokenAtATime == Spec => []WaitsForItsTone
<1>1. MpushInv => WaitsForItsTone
  BY DEF MpushInv
<1>2. QED
  BY <1>1, MpushInvAlways, PTL

=============================================================================
