------------------------- MODULE AipRecorder_proofs -------------------------
(***************************************************************************)
(* Proofs about AipRecorder, for any clients, lengths, frames and number of *)
(* sessions.  SessionInv is the inductive invariant: that a client has one  *)
(* open session, and the youngest one, needs ByAge, what is known of the    *)
(* numbers still on their way (OneWay, NotYetOpen); that a frame reaches    *)
(* every session it is owed to needs OwedAhead.                             *)
(*                                                                          *)
(* What a step does is put in two lemmas first, SendStep for the clients'   *)
(* side and SessionStep for record_queue; each part of the invariant        *)
(* follows from them.                                                       *)
(***************************************************************************)
EXTENDS AipRecorder, Queues_proofs

USE ClientsAssumption, FramesAssumption, SnAssumption, QueueAssumption

Open == Elems(record_queue)

\* The sessions E are told of their end.
EndOf(E) ==
  /\ record_id' = [s \in Sn |-> IF s \in E THEN LastId(s) ELSE record_id[s]]
  /\ heard' = [s \in Sn |-> IF s \in E THEN LastId(s) ELSE heard[s]]

StartAt(k) == k \in 1..Len(msg_queue) /\ msg_queue[k].type = "start"

SoundQueue(q) == q \in Seq(Sn) /\ NoRepeat(q)

-----------------------------------------------------------------------------
(* The steps                                                               *)

LEMMA MessageFacts ==
  ASSUME NEW m \in Messages
  PROVE  /\ m.cb \in Callbacks /\ m.type \in {"start", "stop"}
         /\ m.type = "start" => m.sn \in Sn
         /\ m.type = "stop" => m.sn = None
         /\ m.sn \in Sn => m.type = "start"
BY DEF Messages

LEMMA OpenIsSn ==
  ASSUME TypeOK
  PROVE  /\ Open \subseteq Sn
         /\ \A s \in Open : \E i \in 1..Len(record_queue) : record_queue[i] = s
         /\ \A i \in 1..Len(record_queue) : record_queue[i] \in Open
BY ElemsType DEF Open, Elems, TypeOK

\* A callback's session is found, and it is its only one.
LEMMA ClosedFacts ==
  ASSUME TypeOK, OneSessionEach, NEW c \in Callbacks
  PROVE  \E E \in SUBSET Open :
           /\ E = {s \in Open : cb[s] = c}
           /\ SoundQueue(Closed(c).queue)
           /\ Elems(Closed(c).queue) = Open \ E
           /\ Closed(c).id = [s \in Sn |-> IF s \in E THEN LastId(s) ELSE record_id[s]]
           /\ HeardClosed(c) = [s \in Sn |-> IF s \in E THEN LastId(s) ELSE heard[s]]
<1> DEFINE E == {s \in Open : cb[s] = c}
<1>e. E = {s \in Open : cb[s] = c} /\ E \in SUBSET Open
  OBVIOUS
<1>t. /\ record_queue \in Seq(Sn) /\ NoRepeat(record_queue)
      /\ record_id \in [Sn -> Int] /\ heard \in [Sn -> Int]
  BY DEF TypeOK, OneSessionEach
<1>1. CASE OpenOf(c) = {}
  <2>1. E = {}
    BY <1>1, OpenIsSn DEF OpenOf
  <2>2. Closed(c).queue = record_queue /\ Closed(c).id = record_id /\ HeardClosed(c) = heard
    BY <1>1 DEF Closed, HeardClosed
  <2>3. QED
    BY <1>t, <2>1, <2>2 DEF SoundQueue, Open
<1>2. CASE OpenOf(c) # {}
  <2> DEFINE i == FirstOpen(c)
             s == record_queue[i]
  <2>1. PICK k \in OpenOf(c) : TRUE
    BY <1>2
  <2>2. \A j \in OpenOf(c) : j = k
    BY <2>1 DEF OpenOf, OneSessionEach
  <2>3. i = k
    BY <2>1, <2>2 DEF FirstOpen, OpenOf
  <2>4. i \in 1..Len(record_queue) /\ cb[s] = c
    BY <2>1, <2>3 DEF OpenOf
  <2>5. E = {s}
    BY <2>2, <2>3, <2>4, OpenIsSn DEF OpenOf
  <2>6. /\ Closed(c).queue = WithoutAt(record_queue, i)
        /\ Closed(c).id = [record_id EXCEPT ![s] = LastId(s)]
        /\ HeardClosed(c) = [heard EXCEPT ![s] = LastId(s)]
    BY <1>2 DEF Closed, HeardClosed
  <2>7. s \in Sn
    BY <1>t, <2>4, ElementOfSeq
  <2> HIDE DEF i, s
  <2>8. SoundQueue(Closed(c).queue) /\ Elems(Closed(c).queue) = Open \ {record_queue[i]}
    BY <1>t, <2>4, <2>6, RemoveFacts DEF SoundQueue, Open
  <2>9. record_queue[i] = s
    BY DEF s
  <2>10. /\ Closed(c).id = [x \in Sn |-> IF x \in E THEN LastId(x) ELSE record_id[x]]
         /\ HeardClosed(c) = [x \in Sn |-> IF x \in E THEN LastId(x) ELSE heard[x]]
    <3>1. \A x \in Sn : x \in E <=> x = s
      BY <2>5
    <3> HIDE DEF E
    <3>2. Closed(c).id = [x \in Sn |-> IF x \in E THEN LastId(x) ELSE record_id[x]]
      BY <1>t, <2>6, <2>7, <3>1, Zenon
    <3>3. HeardClosed(c) = [x \in Sn |-> IF x \in E THEN LastId(x) ELSE heard[x]]
      BY <1>t, <2>6, <2>7, <3>1
    <3>4. QED
      BY <3>2, <3>3
  <2>11. Elems(Closed(c).queue) = Open \ E
    BY <2>5, <2>8, <2>9
  <2> HIDE DEF E
  <2>12. QED
    BY <1>e, <2>8, <2>10, <2>11
<1>3. QED
  BY <1>1, <1>2

\* What happens on the clients' side: nothing, a number is taken, it is sent or
\* lost, a STOP is sent, or the service takes the first message.
TakeNumber(c) ==
  /\ calling[c] = {} /\ record_sn < MaxSn /\ record_sn' = record_sn + 1
  /\ calling' = [calling EXCEPT ![c] = {record_sn + 1}]
  /\ msg_queue' = msg_queue

PutMessage(c) ==
  \E m \in Messages :
    /\ m.cb = c
    /\ msg_queue' = Append(msg_queue, m) /\ record_sn' = record_sn
    /\ \/ m.type = "stop" /\ calling[c] = {} /\ calling' = calling
       \/ /\ m.type = "start" /\ m.sn \in calling[c]
          /\ calling' = [calling EXCEPT ![c] = @ \ {m.sn}]

GiveUp(c) ==
  \E s \in calling[c] :
    /\ calling' = [calling EXCEPT ![c] = @ \ {s}]
    /\ UNCHANGED <<record_sn, msg_queue>>

TakeMessage ==
  /\ msg_queue # << >> /\ msg_queue' = Tail(msg_queue)
  /\ UNCHANGED callVars

LEMMA SendStep ==
  ASSUME TypeOK, [Next]_vars
  PROVE  \/ UNCHANGED <<callVars, msg_queue>>
         \/ /\ \E c \in Callbacks : TakeNumber(c) \/ PutMessage(c) \/ GiveUp(c)
            /\ UNCHANGED <<objVars, walkVars>>
         \/ TakeMessage
<1>1. CASE UNCHANGED vars
  BY <1>1 DEF vars, callVars
<1>2. ASSUME NEW c \in Callbacks, StartRecord(c)
      PROVE  TakeNumber(c) /\ UNCHANGED <<objVars, walkVars>>
  BY <1>2 DEF StartRecord, TakeNumber
<1>3. ASSUME NEW c \in Callbacks, SendStart(c)
      PROVE  PutMessage(c) /\ UNCHANGED <<objVars, walkVars>>
  <2>1. PICK s \in calling[c] :
          /\ calling' = [calling EXCEPT ![c] = @ \ {s}]
          /\ msg_queue' = Append(msg_queue, Message("start", c, s))
    BY <1>3 DEF SendStart
  <2>2. s \in Sn
    BY <2>1 DEF TypeOK
  <2>3. /\ Message("start", c, s) \in Messages /\ Message("start", c, s).cb = c
        /\ Message("start", c, s).type = "start" /\ Message("start", c, s).sn = s
    BY <2>2 DEF Message, Messages
  <2>4. QED
    BY <1>3, <2>1, <2>3 DEF SendStart, PutMessage
<1>4. ASSUME NEW c \in Callbacks, SendStartLost(c)
      PROVE  GiveUp(c) /\ UNCHANGED <<objVars, walkVars>>
  BY <1>4 DEF SendStartLost, GiveUp
<1>5. ASSUME NEW c \in Callbacks, StopRecord(c)
      PROVE  PutMessage(c) /\ UNCHANGED <<objVars, walkVars>>
  <2>1. /\ Message("stop", c, None) \in Messages /\ Message("stop", c, None).cb = c
        /\ Message("stop", c, None).type = "stop"
    BY DEF Message, Messages
  <2>2. QED
    BY <1>5, <2>1 DEF StopRecord, PutMessage, callVars
<1>6. CASE Receive
  BY <1>6 DEF Receive, OnStart, OnStartFail, OnStop, TakeMessage
<1>7. CASE Process
  BY <1>7 DEF Process, ProcessIdle, ProcessStart, ReadFrame, ReadNothing, ProcessStop,
              GiveFrame, GoOn, Finish
<1>8. QED
  BY <1>1, <1>2, <1>3, <1>4, <1>5, <1>6, <1>7 DEF Next, Client

\* What happens to the sessions: nothing, one ends, one begins and the one of its
\* callback ends, or the cursor's is given the frame.
OneEnds(E) ==
  /\ E \in SUBSET Open
  /\ SoundQueue(record_queue') /\ Elems(record_queue') = Open \ E
  /\ EndOf(E)
  /\ UNCHANGED <<cb, record_ms>>

OneBegins(E, m) ==
  /\ m \in Messages /\ m.type = "start" /\ pc = "idle"
  /\ msg_queue # << >> /\ m = Head(msg_queue) /\ TakeMessage
  /\ E = {s \in Open : cb[s] = m.cb}
  /\ SoundQueue(record_queue') /\ Elems(record_queue') = (Open \ E) \cup {m.sn}
  /\ EndOf(E)
  /\ cb' = [cb EXCEPT ![m.sn] = m.cb]
  /\ UNCHANGED <<record_ms, walkVars>>

LEMMA HeadIsMessage ==
  ASSUME TypeOK, msg_queue # << >>
  PROVE  /\ Head(msg_queue) \in Messages /\ Head(msg_queue) = msg_queue[1]
         /\ 1 \in 1..Len(msg_queue)
<1>1. msg_queue \in Seq(Messages)
  BY DEF TypeOK
<1>2. QED
  BY <1>1, EmptySeq, HeadTailProperties

LEMMA SessionStep ==
  ASSUME SessionInv, [Next]_vars
  PROVE  \/ UNCHANGED objVars
         \/ \E E : OneEnds(E) /\ pc = "idle" /\ UNCHANGED walkVars
         \/ OneEnds({rec_obj}) /\ Finish
         \/ \E E, m : OneBegins(E, m)
         \/ GiveFrame
<1>t. TypeOK /\ OneSessionEach
  BY DEF SessionInv, SessionsAreSound
<1>1. CASE UNCHANGED vars
  BY <1>1 DEF vars, objVars
<1>2. CASE \E c \in Callbacks : Client(c)
  BY <1>2 DEF Client, StartRecord, SendStart, SendStartLost, StopRecord
<1>3. CASE OnStop
  <2>1. PICK m : m = Head(msg_queue) /\ m \in Messages
    BY <1>3, <1>t, HeadIsMessage DEF OnStop
  <2>2. PICK E \in SUBSET Open :
           /\ E = {s \in Open : cb[s] = m.cb}
           /\ SoundQueue(Closed(m.cb).queue)
           /\ Elems(Closed(m.cb).queue) = Open \ E
           /\ Closed(m.cb).id = [s \in Sn |-> IF s \in E THEN LastId(s) ELSE record_id[s]]
           /\ HeardClosed(m.cb) = [s \in Sn |-> IF s \in E THEN LastId(s) ELSE heard[s]]
    BY <1>t, <2>1, ClosedFacts, MessageFacts
  <2>3. OneEnds(E) /\ pc = "idle" /\ UNCHANGED walkVars
    BY <1>3, <2>1, <2>2 DEF OnStop, OneEnds, EndOf
  <2>4. QED
    BY <2>3
<1>4. CASE OnStart
  <2>1. PICK m : m = Head(msg_queue) /\ m \in Messages /\ m.type = "start"
    BY <1>4, <1>t, HeadIsMessage DEF OnStart
  <2>2. PICK E \in SUBSET Open :
           /\ E = {s \in Open : cb[s] = m.cb}
           /\ SoundQueue(Closed(m.cb).queue)
           /\ Elems(Closed(m.cb).queue) = Open \ E
           /\ Closed(m.cb).id = [s \in Sn |-> IF s \in E THEN LastId(s) ELSE record_id[s]]
           /\ HeardClosed(m.cb) = [s \in Sn |-> IF s \in E THEN LastId(s) ELSE heard[s]]
    BY <1>t, <2>1, ClosedFacts, MessageFacts
  <2>3. m.sn \in Sn /\ m.sn \notin Open
    <3>1. m.sn \in Sn
      BY <2>1, MessageFacts
    <3>2. Sending(m.sn)
      BY <1>4, <1>t, <2>1, HeadIsMessage DEF Sending, OnStart
    <3>3. QED
      BY <3>1, <3>2 DEF SessionInv, NotYetOpen, Unused, Open
  <2>4. record_queue' = Append(Closed(m.cb).queue, m.sn)
    BY <1>4, <2>1 DEF OnStart
  <2>5. SoundQueue(record_queue') /\ Elems(record_queue') = (Open \ E) \cup {m.sn}
    BY <2>2, <2>3, <2>4, AppendFacts DEF SoundQueue
  <2>6. /\ EndOf(E) /\ cb' = [cb EXCEPT ![m.sn] = m.cb] /\ pc = "idle"
        /\ msg_queue # << >> /\ TakeMessage /\ UNCHANGED <<record_ms, walkVars>>
    BY <1>4, <2>1, <2>2 DEF OnStart, EndOf, TakeMessage
  <2>7. OneBegins(E, m)
    BY <2>1, <2>2, <2>5, <2>6 DEF OneBegins
  <2>8. QED
    BY <2>7
<1>5. CASE Finish
  <2>1. PICK i \in 1..Len(record_queue) :
          record_queue[i] = rec_obj /\ record_queue' = WithoutAt(record_queue, i)
    BY <1>5 DEF Finish
  <2>2. rec_obj \in Open
    BY <1>t, <2>1, OpenIsSn
  <2>3. SoundQueue(record_queue') /\ Elems(record_queue') = Open \ {rec_obj}
    BY <1>t, <2>1, RemoveFacts DEF SoundQueue, Open, TypeOK, OneSessionEach
  <2>4. EndOf({rec_obj})
    BY <1>5, <1>t DEF Finish, EndOf, TypeOK
  <2>5. QED
    BY <1>5, <2>2, <2>3, <2>4 DEF OneEnds, Finish
<1>6. CASE OnStartFail
  BY <1>6 DEF OnStartFail
<1>7. CASE Process /\ ~Finish
  BY <1>7 DEF Process, ProcessIdle, ProcessStart, ReadFrame, ReadNothing, ProcessStop, GoOn
<1>8. QED
  BY <1>1, <1>2, <1>3, <1>4, <1>5, <1>6, <1>7 DEF Next, Receive

-----------------------------------------------------------------------------
(* Types and the cursor                                                    *)

LEMMA NextSendTypes ==
  ASSUME TypeOK, [Next]_vars
  PROVE  /\ record_sn' \in 0..MaxSn
         /\ calling' \in [Callbacks -> SUBSET Sn]
         /\ msg_queue' \in Seq(Messages)
<1>t. record_sn \in 0..MaxSn /\ calling \in [Callbacks -> SUBSET Sn] /\ msg_queue \in Seq(Messages)
  BY DEF TypeOK
<1>1. CASE UNCHANGED <<callVars, msg_queue>>
  BY <1>t, <1>1 DEF callVars
<1>2. ASSUME NEW c \in Callbacks, TakeNumber(c)
      PROVE  /\ record_sn' \in 0..MaxSn
             /\ calling' \in [Callbacks -> SUBSET Sn]
             /\ msg_queue' \in Seq(Messages)
  <2>1. record_sn' \in 0..MaxSn /\ record_sn + 1 \in Sn
    BY <1>t, <1>2 DEF TakeNumber, Sn
  <2>2. QED
    BY <1>t, <1>2, <2>1 DEF TakeNumber
<1>3. ASSUME NEW c \in Callbacks, PutMessage(c)
      PROVE  /\ record_sn' \in 0..MaxSn
             /\ calling' \in [Callbacks -> SUBSET Sn]
             /\ msg_queue' \in Seq(Messages)
  BY <1>t, <1>3, AppendProperties DEF PutMessage
<1>4. ASSUME NEW c \in Callbacks, GiveUp(c)
      PROVE  /\ record_sn' \in 0..MaxSn
             /\ calling' \in [Callbacks -> SUBSET Sn]
             /\ msg_queue' \in Seq(Messages)
  BY <1>t, <1>4 DEF GiveUp
<1>5. CASE TakeMessage
  BY <1>t, <1>5, HeadTailProperties DEF TakeMessage, callVars
<1>6. QED
  BY <1>1, <1>2, <1>3, <1>4, <1>5, SendStep

LEMMA EndOfTypes ==
  ASSUME TypeOK, NEW E, EndOf(E)
  PROVE  record_id' \in [Sn -> Int] /\ heard' \in [Sn -> Int]
<1>1. \A s \in Sn : LastId(s) \in Int
  BY DEF TypeOK, LastId
<1>2. QED
  BY <1>1 DEF TypeOK, EndOf

LEMMA NextSessionTypes ==
  ASSUME SessionInv, [Next]_vars
  PROVE  /\ record_queue' \in Seq(Sn) /\ NoRepeat(record_queue')
         /\ cb' \in [Sn -> Callbacks \cup {None}]
         /\ record_id' \in [Sn -> Int] /\ record_ms' \in [Sn -> Nat] /\ heard' \in [Sn -> Int]
<1>t. TypeOK /\ OneSessionEach /\ CursorIsOpen
  BY DEF SessionInv, SessionsAreSound
<1>s. /\ record_queue \in Seq(Sn) /\ NoRepeat(record_queue)
      /\ cb \in [Sn -> Callbacks \cup {None}]
      /\ record_id \in [Sn -> Int] /\ record_ms \in [Sn -> Nat] /\ heard \in [Sn -> Int]
      /\ len \in Nat
  BY <1>t DEF TypeOK, OneSessionEach
<1>1. CASE UNCHANGED objVars
  BY <1>s, <1>1 DEF objVars
<1>2. ASSUME NEW E, OneEnds(E)
      PROVE  /\ record_queue' \in Seq(Sn) /\ NoRepeat(record_queue')
             /\ cb' \in [Sn -> Callbacks \cup {None}]
             /\ record_id' \in [Sn -> Int] /\ record_ms' \in [Sn -> Nat] /\ heard' \in [Sn -> Int]
  BY <1>s, <1>t, <1>2, EndOfTypes DEF OneEnds, SoundQueue
<1>3. ASSUME NEW E, NEW m, OneBegins(E, m)
      PROVE  /\ record_queue' \in Seq(Sn) /\ NoRepeat(record_queue')
             /\ cb' \in [Sn -> Callbacks \cup {None}]
             /\ record_id' \in [Sn -> Int] /\ record_ms' \in [Sn -> Nat] /\ heard' \in [Sn -> Int]
  <2>1. m.cb \in Callbacks
    BY <1>3, MessageFacts DEF OneBegins
  <2>2. QED
    BY <1>s, <1>t, <1>3, <2>1, EndOfTypes DEF OneBegins, SoundQueue
<1>4. CASE GiveFrame
  <2>1. /\ record_id' = [record_id EXCEPT ![rec_obj] = @ + 1]
        /\ record_ms' = [record_ms EXCEPT ![rec_obj] = @ + len]
        /\ heard' = [heard EXCEPT ![rec_obj] = record_id'[rec_obj]]
        /\ UNCHANGED <<record_queue, cb>>
    BY <1>4 DEF GiveFrame
  <2>2. rec_obj \in Sn
    BY <1>4, <1>t, OpenIsSn DEF GiveFrame, CursorIsOpen, Open
  <2>3. record_id' \in [Sn -> Int]
    BY <1>s, <2>1, <2>2
  <2>4. record_ms' \in [Sn -> Nat]
    BY <1>s, <2>1, <2>2
  <2>5. heard' \in [Sn -> Int]
    BY <1>s, <2>1, <2>2, <2>3
  <2>6. QED
    BY <1>s, <2>1, <2>3, <2>4, <2>5
<1>5. QED
  BY <1>1, <1>2, <1>3, <1>4, SessionStep

\* Where the cursor is after a step that moves it.
LEMMA WalkStep ==
  ASSUME TypeOK, [Next]_vars
  PROVE  \/ UNCHANGED walkVars
         \/ /\ pc = "idle" /\ UNCHANGED <<objVars, rec_obj, pc, len, due>>
            /\ rec_status' \in {"IDLE", "START", "READING", "STOP"}
         \/ ReadFrame \/ GiveFrame \/ GoOn \/ Finish
<1>1. CASE UNCHANGED vars
  BY <1>1 DEF vars, walkVars
<1>2. CASE \E c \in Callbacks : Client(c)
  BY <1>2 DEF Client, StartRecord, SendStart, SendStartLost, StopRecord
<1>3. CASE Receive
  BY <1>3 DEF Receive, OnStart, OnStartFail, OnStop
<1>4. CASE ProcessIdle \/ ProcessStart \/ ReadNothing \/ ProcessStop
  BY <1>4 DEF ProcessIdle, ProcessStart, ReadNothing, ProcessStop
<1>5. QED
  BY <1>1, <1>2, <1>3, <1>4 DEF Next, Process

LEMMA NextWalk ==
  ASSUME SessionInv, [Next]_vars
  PROVE  /\ rec_status' \in {"IDLE", "START", "READING", "STOP"}
         /\ rec_obj' \in Sn \cup {None} /\ pc' \in {"idle", "frame", "check"}
         /\ len' \in Nat /\ due' \subseteq Sn
         /\ CursorIsOpen'
<1>t. TypeOK /\ CursorIsOpen /\ NoRepeat(record_queue) /\ record_queue \in Seq(Sn)
  BY DEF SessionInv, SessionsAreSound, OneSessionEach, TypeOK
<1>s. /\ rec_status \in {"IDLE", "START", "READING", "STOP"}
      /\ rec_obj \in Sn \cup {None} /\ pc \in {"idle", "frame", "check"}
      /\ len \in Nat /\ due \subseteq Sn
      /\ Open \subseteq Sn /\ None \notin Open
  BY <1>t, OpenIsSn DEF TypeOK
<1>1. CASE UNCHANGED walkVars
  <2>1. rec_obj' # None => rec_obj' \in Elems(record_queue')
    <3>1. CASE pc = "idle"
      BY <1>1, <1>t, <3>1 DEF CursorIsOpen, walkVars
    <3>2. CASE pc # "idle"
      <4>1. UNCHANGED record_queue
        BY <1>1, <1>t, <1>s, <3>2, SessionStep
        DEF walkVars, objVars, OneBegins, GiveFrame, Finish, GoTo, CursorIsOpen
      <4>2. QED
        BY <1>1, <1>t, <4>1 DEF CursorIsOpen, walkVars
    <3>3. QED
      BY <3>1, <3>2
  <2>2. QED
    BY <1>1, <1>t, <1>s, <2>1 DEF CursorIsOpen, walkVars
<1>2. CASE /\ pc = "idle" /\ UNCHANGED <<objVars, rec_obj, pc, len, due>>
           /\ rec_status' \in {"IDLE", "START", "READING", "STOP"}
  BY <1>2, <1>t, <1>s DEF CursorIsOpen, objVars
<1>3. CASE ReadFrame
  <2>1. /\ rec_obj' = FirstOf(record_queue, None) /\ record_queue' = record_queue
        /\ pc' = IF record_queue = << >> THEN "idle" ELSE "frame"
        /\ len' \in Nat /\ due' \subseteq Sn /\ rec_status' = rec_status
    BY <1>3, <1>s DEF ReadFrame, objVars, Open
  <2>2. record_queue = << >> => rec_obj' = None
    BY <2>1 DEF FirstOf
  <2>3. record_queue # << >> => rec_obj' \in Open
    <3>1. ASSUME record_queue # << >> PROVE 1 \in 1..Len(record_queue)
      BY <1>t, <3>1, EmptySeq
    <3>2. QED
      BY <1>t, <2>1, <3>1, OpenIsSn DEF FirstOf
  <2>4. CursorIsOpen'
    BY <1>s, <2>1, <2>2, <2>3 DEF CursorIsOpen, Open
  <2>5. QED
    BY <1>s, <2>1, <2>2, <2>3, <2>4
<1>4. CASE GiveFrame
  <2>1. /\ pc = "frame" /\ pc' = "check" /\ due' \subseteq due
        /\ UNCHANGED <<record_queue, rec_status, rec_obj, len>>
    BY <1>4 DEF GiveFrame
  <2>2. QED
    BY <1>t, <1>s, <2>1 DEF CursorIsOpen
<1>5. CASE GoOn
  <2>1. /\ rec_obj' = NextOf(record_queue, rec_obj, None) /\ record_queue' = record_queue
        /\ pc' = IF rec_obj' = None THEN "idle" ELSE "frame"
        /\ UNCHANGED <<rec_status, len, due>>
    BY <1>5 DEF GoOn, GoTo, objVars
  <2>2. rec_obj' \in Open \cup {None}
    BY <1>t, <2>1, NextFacts DEF Open
  <2>3. CursorIsOpen'
    BY <2>1, <2>2 DEF CursorIsOpen, Open
  <2>4. QED
    BY <1>s, <2>1, <2>2, <2>3
<1>6. CASE Finish
  <2>1. PICK i \in 1..Len(record_queue) :
          record_queue' = WithoutAt(record_queue, i) /\ GoTo(AfterFinish(i))
    BY <1>6 DEF Finish
  <2>2. UNCHANGED <<rec_status, len, due>> /\ Len(record_queue) \in Nat
    BY <1>6, <1>t, LenProperties DEF Finish
  <2>3. rec_obj' # None => /\ i < Len(record_queue) /\ rec_obj' = record_queue[i + 1]
    BY <2>1, <2>2 DEF GoTo, AfterFinish
  <2>4. rec_obj' # None => rec_obj' \in Elems(record_queue') /\ rec_obj' \in Sn
    <3>1. ASSUME rec_obj' # None
          PROVE  i \in 1..(Len(record_queue) - 1) /\ record_queue'[i] = rec_obj'
      BY <1>t, <2>1, <2>2, <2>3, <3>1, RemovedPlaces
    <3>2. Len(record_queue') = Len(record_queue) - 1
      BY <1>t, <2>1, RemovedPlaces
    <3>3. Elems(record_queue') \subseteq Sn
      BY NextSessionTypes, ElemsType
    <3>4. QED
      BY <3>1, <3>2, <3>3 DEF Elems
  <2>5. pc' = IF rec_obj' = None THEN "idle" ELSE "frame"
    BY <2>1 DEF GoTo
  <2>6. CursorIsOpen'
    BY <2>4, <2>5 DEF CursorIsOpen
  <2>7. QED
    BY <1>s, <2>2, <2>4, <2>5, <2>6
<1>7. QED
  BY <1>1, <1>2, <1>3, <1>4, <1>5, <1>6, <1>t, WalkStep

LEMMA NextTypeOK ==
  ASSUME SessionInv, [Next]_vars
  PROVE  TypeOK' /\ CursorIsOpen'
<1>1. TypeOK
  BY DEF SessionInv, SessionsAreSound
<1>2. QED
  BY <1>1, NextSendTypes, NextSessionTypes, NextWalk DEF TypeOK

-----------------------------------------------------------------------------
(* Numbers on their way                                                    *)

Moved(d) ==
  \A k \in 1..Len(msg_queue') : k + d \in 1..Len(msg_queue) /\ msg_queue'[k] = msg_queue[k + d]

FewerCalls ==
  /\ \A c \in Callbacks : calling'[c] \subseteq calling[c]
  /\ record_sn' = record_sn

\* A message m of c is put behind the others; a START has one of its numbers.
PutBehind(c, m) ==
  /\ m \in Messages /\ m.cb = c /\ FewerCalls
  /\ Len(msg_queue') = Len(msg_queue) + 1
  /\ \A k \in 1..Len(msg_queue) : msg_queue'[k] = msg_queue[k]
  /\ msg_queue'[Len(msg_queue) + 1] = m
  /\ m.type = "start" => m.sn \in calling[c] /\ m.sn \notin calling'[c]

LEMMA TakeMoves ==
  ASSUME TypeOK, TakeMessage
  PROVE  Moved(1) /\ FewerCalls
<1>1. msg_queue \in Seq(Messages) /\ msg_queue # << >> /\ msg_queue' = Tail(msg_queue)
  BY DEF TypeOK, TakeMessage
<1>2. Len(msg_queue) \in Nat /\ Len(msg_queue') = Len(msg_queue) - 1
  BY <1>1, HeadTailProperties, LenProperties
<1>3. \A k \in 1..Len(msg_queue') : msg_queue'[k] = msg_queue[k + 1]
  BY <1>1, HeadTailProperties
<1>4. QED
  BY <1>2, <1>3 DEF Moved, FewerCalls, TakeMessage, callVars

LEMMA Places ==
  ASSUME TypeOK, [Next]_vars
  PROVE  \/ \E d \in {0, 1} : Moved(d) /\ FewerCalls
         \/ \E c \in Callbacks : TakeNumber(c) /\ Moved(0) /\ UNCHANGED objVars
         \/ \E c \in Callbacks, m \in Messages : PutBehind(c, m) /\ UNCHANGED objVars
<1>t. /\ msg_queue \in Seq(Messages) /\ Len(msg_queue) \in Nat
      /\ calling \in [Callbacks -> SUBSET Sn]
  BY LenProperties DEF TypeOK
<1>0. UNCHANGED msg_queue => Moved(0)
  BY <1>t DEF Moved
<1>1. CASE UNCHANGED <<callVars, msg_queue>>
  BY <1>1, <1>0 DEF FewerCalls, callVars
<1>2. ASSUME NEW c \in Callbacks, TakeNumber(c)
      PROVE  TakeNumber(c) /\ Moved(0)
  BY <1>2, <1>0 DEF TakeNumber
<1>3. ASSUME NEW c \in Callbacks, PutMessage(c)
      PROVE  \E m \in Messages : PutBehind(c, m)
  <2>1. PICK m \in Messages :
          /\ m.cb = c
          /\ msg_queue' = Append(msg_queue, m) /\ record_sn' = record_sn
          /\ \/ m.type = "stop" /\ calling[c] = {} /\ calling' = calling
             \/ /\ m.type = "start" /\ m.sn \in calling[c]
                /\ calling' = [calling EXCEPT ![c] = @ \ {m.sn}]
    BY <1>3 DEF PutMessage
  <2>2. /\ Len(msg_queue') = Len(msg_queue) + 1
        /\ \A k \in 1..Len(msg_queue) : msg_queue'[k] = msg_queue[k]
        /\ msg_queue'[Len(msg_queue) + 1] = m
    BY <1>t, <2>1, AppendProperties
  <2>3. FewerCalls
    BY <1>t, <2>1 DEF FewerCalls
  <2>4. m.type = "start" => m.sn \in calling[c] /\ m.sn \notin calling'[c]
    BY <1>t, <2>1
  <2>5. QED
    BY <2>1, <2>2, <2>3, <2>4 DEF PutBehind
<1>4. ASSUME NEW c \in Callbacks, GiveUp(c)
      PROVE  Moved(0) /\ FewerCalls
  BY <1>t, <1>4, <1>0 DEF GiveUp, FewerCalls
<1>5. CASE TakeMessage
  BY <1>5, TakeMoves
<1>6. QED
  BY <1>1, <1>2, <1>3, <1>4, <1>5, SendStep

\* A number that is on its way was on its way before, or was just taken.
LEMMA SendingNext ==
  ASSUME SessionInv, [Next]_vars, NEW s \in Sn, Sending(s)'
  PROVE  \/ Sending(s) /\ record_sn' \in {record_sn, record_sn + 1}
         \/ s = record_sn + 1 /\ record_sn' = record_sn + 1 /\ UNCHANGED objVars
<1>t. /\ TypeOK /\ calling \in [Callbacks -> SUBSET Sn] /\ record_sn \in Nat
      /\ Len(msg_queue) \in Nat
  BY LenProperties DEF SessionInv, SessionsAreSound, TypeOK
<1>1. CASE \E d \in {0, 1} : Moved(d) /\ FewerCalls
  BY <1>1 DEF Moved, FewerCalls, Sending
<1>2. ASSUME NEW c \in Callbacks, TakeNumber(c), Moved(0), UNCHANGED objVars
      PROVE  \/ Sending(s) /\ record_sn' \in {record_sn, record_sn + 1}
             \/ s = record_sn + 1 /\ record_sn' = record_sn + 1 /\ UNCHANGED objVars
  BY <1>t, <1>2 DEF Moved, TakeNumber, Sending
<1>3. ASSUME NEW c \in Callbacks, NEW m \in Messages, PutBehind(c, m)
      PROVE  Sending(s) /\ record_sn' = record_sn
  <2>1. CASE \E d \in Callbacks : s \in calling'[d]
    BY <1>3, <2>1 DEF PutBehind, FewerCalls, Sending
  <2>2. CASE \E k \in 1..Len(msg_queue') : msg_queue'[k].sn = s
    <3>1. PICK k \in 1..Len(msg_queue') : msg_queue'[k].sn = s
      BY <2>2
    <3>2. CASE k \in 1..Len(msg_queue)
      BY <1>3, <3>1, <3>2 DEF PutBehind, FewerCalls, Sending
    <3>3. CASE k = Len(msg_queue) + 1
      BY <1>3, <3>1, <3>3, MessageFacts DEF PutBehind, FewerCalls, Sending
    <3>4. QED
      BY <1>3, <1>t, <3>2, <3>3 DEF PutBehind
  <2>3. QED
    BY <2>1, <2>2 DEF Sending
<1>4. QED
  BY <1>1, <1>2, <1>3, <1>t, Places

LEMMA NextOneWay ==
  ASSUME SessionInv, [Next]_vars
  PROVE  OneWay'
<1>t. /\ TypeOK /\ calling \in [Callbacks -> SUBSET Sn] /\ record_sn \in Nat
      /\ Len(msg_queue) \in Nat /\ OneWay /\ NotYetOpen
      /\ \A k \in 1..Len(msg_queue) : msg_queue[k] \in Messages
  BY LenProperties, ElementOfSeq DEF SessionInv, SessionsAreSound, TypeOK
<1>1. CASE \E d \in {0, 1} : Moved(d) /\ FewerCalls
  <2>1. PICK d \in {0, 1} : Moved(d) /\ FewerCalls
    BY <1>1
  <2>2. ASSUME NEW j \in 1..Len(msg_queue'), NEW k \in 1..Len(msg_queue'),
               msg_queue'[j].type = "start", msg_queue'[j].sn = msg_queue'[k].sn
        PROVE  j = k
    <3>1. /\ j + d \in 1..Len(msg_queue) /\ msg_queue'[j] = msg_queue[j + d]
          /\ k + d \in 1..Len(msg_queue) /\ msg_queue'[k] = msg_queue[k + d]
      BY <2>1 DEF Moved
    <3>2. j + d = k + d
      BY <1>t, <2>2, <3>1 DEF OneWay
    <3>3. Len(msg_queue') \in Nat
      BY <1>t, NextSendTypes, LenProperties
    <3>4. QED
      BY <3>2, <3>3
  <2>3. \A b, c \in Callbacks : \A s \in calling'[b], t \in calling'[c] : b = c <=> s = t
    BY <1>t, <2>1 DEF FewerCalls, OneWay
  <2>4. \A c \in Callbacks : \A s \in calling'[c] : \A k \in 1..Len(msg_queue') :
          msg_queue'[k].sn # s
    BY <1>t, <2>1 DEF Moved, FewerCalls, OneWay
  <2>5. QED
    BY <2>2, <2>3, <2>4 DEF OneWay
<1>2. ASSUME NEW c \in Callbacks, TakeNumber(c), Moved(0)
      PROVE  OneWay'
  <2>1. \A s \in Sn : Sending(s) => s # record_sn + 1
    BY <1>t DEF NotYetOpen, Sn
  <2>2. /\ \A d \in Callbacks : calling'[d] = IF d = c THEN {record_sn + 1} ELSE calling[d]
        /\ record_sn + 1 \in Sn
    BY <1>t, <1>2 DEF TakeNumber, Sn
  <2>3. /\ \A d \in Callbacks : record_sn + 1 \notin calling[d]
        /\ \A k \in 1..Len(msg_queue) : msg_queue[k].sn # record_sn + 1
    BY <2>1, <2>2 DEF Sending
  <2>4. msg_queue' = msg_queue
    BY <1>2 DEF TakeNumber
  <2>5. \A d, e \in Callbacks : \A s \in calling'[d], t \in calling'[e] : d = e <=> s = t
    BY <1>t, <2>2, <2>3 DEF OneWay
  <2>6. \A d \in Callbacks : \A s \in calling'[d] : \A k \in 1..Len(msg_queue) : msg_queue[k].sn # s
    <3>1. TAKE d \in Callbacks
    <3>2. TAKE s \in calling'[d]
    <3>3. s = record_sn + 1 \/ s \in calling[d]
      BY <2>2
    <3>4. QED
      BY <1>t, <2>3, <3>3 DEF OneWay
  <2>7. \A j, k \in 1..Len(msg_queue) :
          msg_queue[j].type = "start" /\ msg_queue[j].sn = msg_queue[k].sn => j = k
    BY <1>t DEF OneWay
  <2>8. QED
    BY <2>4, <2>5, <2>6, <2>7 DEF OneWay
<1>3. ASSUME NEW c \in Callbacks, NEW m \in Messages, PutBehind(c, m)
      PROVE  OneWay'
  <2>1. \A d, e \in Callbacks : \A s \in calling'[d], t \in calling'[e] : d = e <=> s = t
    BY <1>t, <1>3 DEF OneWay, PutBehind, FewerCalls
  <2>2. \A d \in Callbacks : \A s \in calling'[d] : s # m.sn
    <3>1. CASE m.type = "start"
      BY <1>t, <1>3, <3>1 DEF OneWay, PutBehind, FewerCalls
    <3>2. CASE m.type = "stop"
      BY <1>t, <1>3, <3>2, MessageFacts DEF PutBehind, FewerCalls
    <3>3. QED
      BY <3>1, <3>2, MessageFacts
  <2>3. \A d \in Callbacks : \A s \in calling'[d] : \A k \in 1..Len(msg_queue') : msg_queue'[k].sn # s
    BY <1>t, <1>3, <2>2 DEF OneWay, PutBehind, FewerCalls
  <2>4. ASSUME NEW j \in 1..Len(msg_queue'), NEW k \in 1..Len(msg_queue'),
               msg_queue'[j].type = "start", msg_queue'[j].sn = msg_queue'[k].sn
        PROVE  j = k
    <3>1. ASSUME m.type = "start"
          PROVE  \A i \in 1..Len(msg_queue) : msg_queue[i].sn # m.sn
      BY <1>t, <1>3, <3>1 DEF OneWay, PutBehind
    <3>2. ASSUME m.type = "stop"
          PROVE  \A i \in 1..Len(msg_queue) : msg_queue[i].type = "start" => msg_queue[i].sn # m.sn
      BY <1>t, <3>2, MessageFacts
    <3>3. j \in 1..Len(msg_queue) \/ j = Len(msg_queue) + 1
      BY <1>t, <1>3 DEF PutBehind
    <3>4. k \in 1..Len(msg_queue) \/ k = Len(msg_queue) + 1
      BY <1>t, <1>3 DEF PutBehind
    <3>5. QED
      BY <1>t, <1>3, <2>4, <3>1, <3>2, <3>3, <3>4, MessageFacts DEF OneWay, PutBehind
  <2>5. QED
    BY <2>1, <2>3, <2>4 DEF OneWay
<1>4. QED
  BY <1>1, <1>2, <1>3, <1>t, Places

-----------------------------------------------------------------------------
(* Numbers and sessions                                                    *)

LEMMA OneWayHead ==
  ASSUME SessionInv, NEW E, NEW m, OneBegins(E, m)
  PROVE  m.sn \in Sn /\ m.cb \in Callbacks /\ Sending(m.sn) /\ Moved(1) /\ FewerCalls
         /\ m = msg_queue[1] /\ 1 \in 1..Len(msg_queue)
<1>1. TypeOK
  BY DEF SessionInv, SessionsAreSound
<1>2. m = msg_queue[1] /\ 1 \in 1..Len(msg_queue)
  BY <1>1, HeadIsMessage DEF OneBegins
<1>3. m.sn \in Sn /\ m.cb \in Callbacks
  BY MessageFacts DEF OneBegins
<1>4. QED
  BY <1>1, <1>2, <1>3, TakeMoves DEF Sending, OneBegins

\* A session that begins is not on its way any more.
LEMMA BegunNotSending ==
  ASSUME SessionInv, [Next]_vars, NEW E, NEW m, OneBegins(E, m)
  PROVE  ~Sending(m.sn)'
<1>1. m.sn \in Sn /\ Moved(1) /\ FewerCalls /\ m = msg_queue[1] /\ 1 \in 1..Len(msg_queue)
      /\ m.type = "start" /\ OneWay /\ m.cb \in Callbacks
  BY OneWayHead DEF OneBegins, SessionInv
<1>2. \A c \in Callbacks : m.sn \notin calling'[c]
  BY <1>1 DEF FewerCalls, OneWay
<1>3. ASSUME NEW k \in 1..Len(msg_queue'), msg_queue'[k].sn = m.sn
      PROVE  FALSE
  <2>1. k + 1 \in 1..Len(msg_queue) /\ msg_queue'[k] = msg_queue[k + 1]
    BY <1>1 DEF Moved
  <2>2. k + 1 = 1
    BY <1>1, <1>3, <2>1 DEF OneWay
  <2>3. Len(msg_queue') \in Nat
    BY NextSendTypes, LenProperties DEF SessionInv, SessionsAreSound
  <2>4. QED
    BY <2>2, <2>3
<1>4. QED
  BY <1>2, <1>3 DEF Sending

\* What was not recorded yet is not, unless it begins.
LEMMA UnusedKept ==
  ASSUME SessionInv, [Next]_vars, NEW s \in Sn, Unused(s),
         ~\E E, m : OneBegins(E, m) /\ m.sn = s
  PROVE  Unused(s)'
<1>t. /\ TypeOK /\ CursorIsOpen /\ s \notin Open
      /\ record_id \in [Sn -> Int] /\ record_ms \in [Sn -> Nat] /\ heard \in [Sn -> Int]
      /\ record_id[s] = 0 /\ record_ms[s] = 0 /\ heard[s] = 0
  BY DEF SessionInv, SessionsAreSound, TypeOK, Unused, Open
<1>1. CASE UNCHANGED objVars
  BY <1>t, <1>1 DEF objVars, Unused, Open
<1>2. ASSUME NEW E, OneEnds(E)
      PROVE  Unused(s)'
  <2>1. s \notin Elems(record_queue') /\ s \notin E
    BY <1>t, <1>2 DEF OneEnds
  <2>2. QED
    BY <1>t, <1>2, <2>1 DEF OneEnds, EndOf, Unused
<1>3. ASSUME NEW E, NEW m, OneBegins(E, m)
      PROVE  Unused(s)'
  <2>1. s \notin Elems(record_queue') /\ s \notin E
    BY <1>t, <1>3 DEF OneBegins
  <2>2. QED
    BY <1>t, <1>3, <2>1 DEF OneBegins, EndOf, Unused
<1>4. CASE GiveFrame
  <2>1. s # rec_obj
    BY <1>t, <1>4 DEF CursorIsOpen, GiveFrame, Open
  <2>2. QED
    BY <1>t, <1>4, <2>1 DEF GiveFrame, Unused, Open
<1>5. QED
  BY <1>1, <1>2, <1>3, <1>4, SessionStep

LEMMA NextNotYetOpen ==
  ASSUME SessionInv, [Next]_vars
  PROVE  NotYetOpen'
<1>t. TypeOK /\ NotYetOpen /\ record_sn \in Nat
  BY DEF SessionInv, SessionsAreSound, TypeOK
<1>0. record_sn' \in {record_sn, record_sn + 1}
  BY <1>t, SendStep DEF TakeNumber, PutMessage, GiveUp, TakeMessage, callVars
<1>1. ASSUME NEW s \in Sn, Sending(s)'
      PROVE  s <= record_sn' /\ Unused(s)
  BY <1>0, <1>1, <1>t, SendingNext DEF NotYetOpen, Sn
<1>2. ASSUME NEW s \in Sn, s > record_sn'
      PROVE  Unused(s)
  BY <1>0, <1>2, <1>t DEF NotYetOpen, Sn
<1>3. ASSUME NEW s \in Sn, Sending(s)' \/ s > record_sn', NEW E, NEW m, OneBegins(E, m), m.sn = s
      PROVE  FALSE
  <2>1. ~Sending(s)' /\ Sending(s) /\ record_sn' = record_sn
    BY <1>3, BegunNotSending, OneWayHead DEF FewerCalls
  <2>2. QED
    BY <1>3, <1>t, <2>1 DEF NotYetOpen, Sn
<1>4. ASSUME NEW s \in Sn, Sending(s)' \/ s > record_sn'
      PROVE  Unused(s)'
  BY <1>1, <1>2, <1>3, <1>4, UnusedKept
<1>5. QED
  BY <1>1, <1>4 DEF NotYetOpen

\* An open session was open, with the same callback, or has just begun.
LEMMA OpenNext ==
  ASSUME SessionInv, [Next]_vars, NEW s \in Elems(record_queue')
  PROVE  \/ s \in Open /\ cb'[s] = cb[s]
         \/ \E E, m : OneBegins(E, m) /\ m.sn = s /\ cb'[s] = m.cb
<1>t. TypeOK /\ cb \in [Sn -> Callbacks \cup {None}] /\ Open \subseteq Sn
  BY OpenIsSn DEF SessionInv, SessionsAreSound, TypeOK
<1>1. CASE UNCHANGED objVars
  BY <1>1 DEF objVars, Open
<1>2. ASSUME NEW E, OneEnds(E)
      PROVE  s \in Open /\ cb'[s] = cb[s]
  BY <1>2 DEF OneEnds
<1>3. ASSUME NEW E, NEW m, OneBegins(E, m)
      PROVE  \/ s \in Open /\ cb'[s] = cb[s]
             \/ m.sn = s /\ cb'[s] = m.cb
  <2>1. m.sn \in Sn
    BY <1>3, OneWayHead
  <2>2. QED
    BY <1>t, <1>3, <2>1 DEF OneBegins
<1>4. CASE GiveFrame
  BY <1>4 DEF GiveFrame, Open
<1>5. QED
  BY <1>1, <1>2, <1>3, <1>4, SessionStep

-----------------------------------------------------------------------------
(* One session each, the youngest                                          *)

OneOpen == \A s, t \in Open : cb[s] = cb[t] => s = t

Youngest ==
  \A s \in Open : \A k \in 1..Len(msg_queue) :
     msg_queue[k].type = "start" /\ msg_queue[k].cb = cb[s] => msg_queue[k].sn > s

LEMMA OneSessionSets ==
  ASSUME OneSessionEach
  PROVE  OneOpen /\ Youngest
BY DEF OneSessionEach, OneOpen, Youngest, Open, Elems

LEMMA OneSessionFromSets ==
  ASSUME NoRepeat(record_queue'), OneOpen', Youngest'
  PROVE  OneSessionEach'
<1>1. \A i \in 1..Len(record_queue') : record_queue'[i] \in Elems(record_queue')
  BY DEF Elems
<1>2. \A i, j \in 1..Len(record_queue') :
        cb'[record_queue'[i]] = cb'[record_queue'[j]] => record_queue'[i] = record_queue'[j]
  BY <1>1 DEF OneOpen, Open
<1>3. \A i, j \in 1..Len(record_queue') :
        cb'[record_queue'[i]] = cb'[record_queue'[j]] => i = j
  BY <1>2 DEF NoRepeat
<1>4. \A i \in 1..Len(record_queue') : \A k \in 1..Len(msg_queue') :
        /\ msg_queue'[k].type = "start"
        /\ msg_queue'[k].cb = cb'[record_queue'[i]]
        => msg_queue'[k].sn > record_queue'[i]
  BY <1>1 DEF Youngest, Open
<1>5. QED
  BY <1>3, <1>4 DEF OneSessionEach

LEMMA NextOneOpen ==
  ASSUME SessionInv, [Next]_vars
  PROVE  OneOpen'
<1> SUFFICES ASSUME NEW s \in Elems(record_queue'), NEW t \in Elems(record_queue'),
                    cb'[s] = cb'[t]
             PROVE  s = t
  BY DEF OneOpen, Open
<1>t. OneOpen
  BY OneSessionSets DEF SessionInv, SessionsAreSound
<1>1. CASE \E E, m : OneBegins(E, m)
  <2>1. PICK E, m : OneBegins(E, m)
    BY <1>1
  <2>2. /\ Elems(record_queue') = (Open \ E) \cup {m.sn} /\ E = {x \in Open : cb[x] = m.cb}
        /\ cb' = [cb EXCEPT ![m.sn] = m.cb] /\ m.sn \in Sn
        /\ cb \in [Sn -> Callbacks \cup {None}] /\ Open \subseteq Sn
    BY <2>1, OneWayHead, OpenIsSn DEF OneBegins, SessionInv, SessionsAreSound, TypeOK
  <2>3. \A x \in Elems(record_queue') \ {m.sn} : x \in Open /\ cb'[x] = cb[x] /\ cb[x] # m.cb
    BY <2>2
  <2>4. cb'[m.sn] = m.cb
    BY <2>2
  <2>5. QED
    BY <1>t, <2>3, <2>4 DEF OneOpen
<1>2. CASE ~\E E, m : OneBegins(E, m)
  BY <1>t, <1>2, OpenNext DEF OneOpen
<1>3. QED
  BY <1>1, <1>2

LEMMA NextYoungest ==
  ASSUME SessionInv, [Next]_vars
  PROVE  Youngest'
<1> SUFFICES ASSUME NEW s \in Elems(record_queue'), NEW k \in 1..Len(msg_queue'),
                    msg_queue'[k].type = "start", msg_queue'[k].cb = cb'[s]
             PROVE  msg_queue'[k].sn > s
  BY DEF Youngest, Open
<1>t. /\ TypeOK /\ Youngest /\ ByAge /\ OneWay /\ NotYetOpen
      /\ Len(msg_queue) \in Nat /\ Len(msg_queue') \in Nat
      /\ msg_queue' \in Seq(Messages)
  BY OneSessionSets, NextSendTypes, LenProperties DEF SessionInv, SessionsAreSound, TypeOK
<1>1. CASE \E E, m : OneBegins(E, m) /\ m.sn = s /\ cb'[s] = m.cb
  <2>1. PICK E, m : OneBegins(E, m) /\ m.sn = s /\ cb'[s] = m.cb
    BY <1>1
  <2>2. /\ Moved(1) /\ m = msg_queue[1] /\ 1 \in 1..Len(msg_queue) /\ m.cb \in Callbacks
        /\ m.type = "start"
    <3>1. Moved(1) /\ m = msg_queue[1] /\ 1 \in 1..Len(msg_queue) /\ m.cb \in Callbacks
      BY <2>1, OneWayHead
    <3>2. m.type = "start"
      BY <2>1 DEF OneBegins
    <3>3. QED
      BY <3>1, <3>2
  <2>3. k + 1 \in 1..Len(msg_queue) /\ msg_queue'[k] = msg_queue[k + 1] /\ 1 < k + 1
    BY <1>t, <2>2 DEF Moved
  <2>4. msg_queue[1].sn < msg_queue[k + 1].sn
    BY <1>t, <2>1, <2>2, <2>3 DEF ByAge
  <2>5. msg_queue[1].sn \in Sn /\ msg_queue[k + 1].sn \in Sn
    BY <1>t, <2>2, <2>3, ElementOfSeq, MessageFacts DEF TypeOK
  <2>6. QED
    BY <2>1, <2>2, <2>3, <2>4, <2>5 DEF Sn
<1>2. CASE s \in Open /\ cb'[s] = cb[s]
  <2>1. CASE \E d \in {0, 1} : Moved(d)
    BY <1>t, <1>2, <2>1 DEF Moved, Youngest
  <2>2. ASSUME NEW c \in Callbacks, NEW m \in Messages, PutBehind(c, m)
        PROVE  msg_queue'[k].sn > s
    <3>1. CASE k \in 1..Len(msg_queue)
      BY <1>t, <1>2, <2>2, <3>1 DEF PutBehind, Youngest
    <3>2. CASE k = Len(msg_queue) + 1
      <4>1. m.sn \in calling[c] /\ m.cb = c /\ msg_queue'[k] = m
        BY <2>2, <3>2 DEF PutBehind
      <4>2. s < m.sn
        BY <1>t, <1>2, <4>1 DEF ByAge, Open
      <4>3. m.sn \in Sn /\ s \in Sn
        BY <1>t, <1>2, <4>1, OpenIsSn DEF TypeOK
      <4>4. QED
        BY <4>1, <4>2, <4>3 DEF Sn
    <3>3. QED
      BY <1>t, <2>2, <3>1, <3>2 DEF PutBehind
  <2>3. QED
    BY <1>t, <2>1, <2>2, Places
<1>3. QED
  BY <1>1, <1>2, OpenNext

LEMMA NextByAge ==
  ASSUME SessionInv, [Next]_vars
  PROVE  ByAge'
<1>t. /\ TypeOK /\ ByAge /\ OneWay /\ NotYetOpen
      /\ Len(msg_queue) \in Nat /\ Len(msg_queue') \in Nat /\ record_sn \in Nat
      /\ calling \in [Callbacks -> SUBSET Sn] /\ calling' \in [Callbacks -> SUBSET Sn]
      /\ \A k \in 1..Len(msg_queue) : msg_queue[k] \in Messages
      /\ Open \subseteq Sn
  BY NextSendTypes, LenProperties, OpenIsSn, ElementOfSeq DEF SessionInv, SessionsAreSound, TypeOK
<1>n. ASSUME NEW s \in Sn, Sending(s) \/ s \in Open
      PROVE  s < record_sn + 1
  BY <1>n, <1>t DEF NotYetOpen, Unused, Open, Sn
<1>1. ASSUME NEW c \in Callbacks, NEW s \in calling'[c],
             NEW t \in Elems(record_queue'), cb'[t] = c
      PROVE  t < s
  <2>1. CASE s \in calling[c] /\ t \in Open /\ cb'[t] = cb[t]
    BY <1>1, <1>t, <2>1 DEF ByAge, Open
  <2>2. CASE s \in calling[c] /\ \E E, m : OneBegins(E, m) /\ m.sn = t /\ cb'[t] = m.cb
    <3>1. PICK E, m : OneBegins(E, m) /\ m.sn = t /\ cb'[t] = m.cb
      BY <2>2
    <3>2. m = msg_queue[1] /\ 1 \in 1..Len(msg_queue) /\ m.type = "start"
      BY <3>1, OneWayHead DEF OneBegins
    <3>3. QED
      BY <1>1, <1>t, <2>2, <3>1, <3>2 DEF ByAge
  <2>3. CASE s \notin calling[c]
    <3>1. PICK d \in Callbacks : TakeNumber(d) /\ UNCHANGED objVars
      BY <1>1, <1>t, <2>3, Places DEF FewerCalls, PutBehind
    <3>2. s = record_sn + 1
      BY <1>1, <1>t, <2>3, <3>1 DEF TakeNumber
    <3>3. t \in Open /\ t \in Sn
      BY <1>1, <1>t, <3>1 DEF objVars, Open
    <3>4. QED
      BY <1>n, <3>2, <3>3
  <2>4. QED
    BY <1>1, <2>1, <2>2, <2>3, OpenNext
<1>2. ASSUME NEW c \in Callbacks, NEW s \in calling'[c], NEW k \in 1..Len(msg_queue'),
             msg_queue'[k].type = "start", msg_queue'[k].cb = c
      PROVE  msg_queue'[k].sn < s
  <2>1. CASE \E d \in {0, 1} : Moved(d) /\ FewerCalls
    BY <1>2, <1>t, <2>1 DEF Moved, FewerCalls, ByAge
  <2>2. ASSUME NEW d \in Callbacks, TakeNumber(d), Moved(0)
        PROVE  msg_queue'[k].sn < s
    <3>1. k \in 1..Len(msg_queue) /\ msg_queue'[k] = msg_queue[k]
      BY <1>t, <2>2 DEF Moved
    <3>2. CASE s \in calling[c]
      BY <1>2, <1>t, <3>1, <3>2 DEF ByAge
    <3>3. CASE s \notin calling[c]
      <4>1. s = record_sn + 1
        BY <1>2, <1>t, <2>2, <3>3 DEF TakeNumber
      <4>2. msg_queue[k].sn \in Sn /\ Sending(msg_queue[k].sn)
        BY <1>2, <1>t, <3>1, MessageFacts DEF Sending
      <4>3. QED
        BY <1>n, <3>1, <4>1, <4>2
    <3>4. QED
      BY <3>2, <3>3
  <2>3. ASSUME NEW d \in Callbacks, NEW m \in Messages, PutBehind(d, m)
        PROVE  msg_queue'[k].sn < s
    <3>1. s \in calling[c]
      BY <1>2, <1>t, <2>3 DEF PutBehind, FewerCalls
    <3>2. CASE k \in 1..Len(msg_queue)
      BY <1>2, <1>t, <2>3, <3>1, <3>2 DEF PutBehind, ByAge
    <3>3. CASE k = Len(msg_queue) + 1
      <4>1. m.cb = c /\ d = c /\ m.sn \in calling[c] /\ m.sn \notin calling'[c]
        BY <1>2, <2>3, <3>3 DEF PutBehind
      <4>2. m.sn = s
        BY <1>t, <3>1, <4>1 DEF OneWay
      <4>3. QED
        BY <1>2, <4>1, <4>2
    <3>4. QED
      BY <1>t, <2>3, <3>2, <3>3 DEF PutBehind
  <2>4. QED
    BY <1>t, <2>1, <2>2, <2>3, Places
<1>3. ASSUME NEW c \in Callbacks, NEW j \in 1..Len(msg_queue'), NEW k \in 1..Len(msg_queue'),
             msg_queue'[j].type = "start", msg_queue'[j].cb = c,
             msg_queue'[k].type = "start", msg_queue'[k].cb = c, j < k
      PROVE  msg_queue'[j].sn < msg_queue'[k].sn
  <2>1. CASE \E d \in {0, 1} : Moved(d)
    <3>1. PICK d \in {0, 1} : Moved(d)
      BY <2>1
    <3>2. /\ j + d \in 1..Len(msg_queue) /\ msg_queue'[j] = msg_queue[j + d]
          /\ k + d \in 1..Len(msg_queue) /\ msg_queue'[k] = msg_queue[k + d]
      BY <3>1 DEF Moved
    <3>3. j + d < k + d
      BY <1>3, <1>t, <3>2
    <3>4. QED
      BY <1>3, <1>t, <3>2, <3>3 DEF ByAge
  <2>2. ASSUME NEW d \in Callbacks, NEW m \in Messages, PutBehind(d, m)
        PROVE  msg_queue'[j].sn < msg_queue'[k].sn
    <3>1. j \in 1..Len(msg_queue) /\ msg_queue'[j] = msg_queue[j]
      BY <1>3, <1>t, <2>2 DEF PutBehind
    <3>2. CASE k \in 1..Len(msg_queue)
      BY <1>3, <1>t, <2>2, <3>1, <3>2 DEF PutBehind, ByAge
    <3>3. CASE k = Len(msg_queue) + 1
      BY <1>3, <1>t, <2>2, <3>1, <3>3 DEF PutBehind, ByAge
    <3>4. QED
      BY <1>3, <1>t, <2>2, <3>2, <3>3 DEF PutBehind
  <2>3. QED
    BY <1>t, <2>1, <2>2, Places
<1>4. QED
  BY <1>1, <1>2, <1>3 DEF ByAge

-----------------------------------------------------------------------------
(* Frames and ends                                                         *)

\* What a step does to one session: nothing, it begins, it ends and its callback
\* is told, or it is given the frame.
LEMMA OneSessionStep ==
  ASSUME SessionInv, [Next]_vars, NEW s \in Sn
  PROVE  \/ /\ heard'[s] = heard[s] /\ record_id'[s] = record_id[s]
            /\ s \in Elems(record_queue') <=> s \in Open
         \/ /\ heard'[s] = heard[s] /\ record_id'[s] = record_id[s]
            /\ \E E, m : OneBegins(E, m) /\ m.sn = s
            /\ s \in Elems(record_queue')
         \/ /\ heard'[s] = -(record_id[s] + 1) /\ s \in Open
            /\ \/ s \notin Elems(record_queue')
               \/ \E E, m : OneBegins(E, m) /\ m.sn = s
         \/ /\ GiveFrame /\ s = rec_obj /\ s \in Open /\ s \in Elems(record_queue')
            /\ record_id'[s] = record_id[s] + 1 /\ heard'[s] = record_id[s] + 1
<1>t. /\ record_id \in [Sn -> Int] /\ heard \in [Sn -> Int] /\ CursorIsOpen
  BY DEF SessionInv, SessionsAreSound, TypeOK
<1>1. CASE UNCHANGED objVars
  BY <1>1 DEF objVars, Open
<1>2. ASSUME NEW E, OneEnds(E)
      PROVE  \/ /\ heard'[s] = heard[s] /\ record_id'[s] = record_id[s]
                /\ s \in Elems(record_queue') <=> s \in Open
             \/ /\ heard'[s] = -(record_id[s] + 1) /\ s \in Open
                /\ s \notin Elems(record_queue')
  BY <1>t, <1>2 DEF OneEnds, EndOf, LastId
<1>3. ASSUME NEW E, NEW m, OneBegins(E, m)
      PROVE  \/ /\ heard'[s] = heard[s] /\ record_id'[s] = record_id[s]
                /\ s \in Elems(record_queue') <=> s \in Open
             \/ /\ heard'[s] = heard[s] /\ record_id'[s] = record_id[s]
                /\ m.sn = s /\ s \in Elems(record_queue')
             \/ /\ heard'[s] = -(record_id[s] + 1) /\ s \in Open
                /\ s \notin Elems(record_queue') \/ m.sn = s
  <2>1. E \subseteq Open /\ Elems(record_queue') = (Open \ E) \cup {m.sn}
    BY <1>3 DEF OneBegins
  <2>2. CASE s \in E
    BY <1>t, <1>3, <2>1, <2>2 DEF OneBegins, EndOf, LastId
  <2>3. CASE s \notin E
    BY <1>t, <1>3, <2>1, <2>3 DEF OneBegins, EndOf, LastId
  <2>4. QED
    BY <2>2, <2>3
<1>4. CASE GiveFrame
  <2>1. /\ record_id' = [record_id EXCEPT ![rec_obj] = @ + 1]
        /\ heard' = [heard EXCEPT ![rec_obj] = record_id'[rec_obj]]
        /\ record_queue' = record_queue /\ pc = "frame"
    BY <1>4 DEF GiveFrame
  <2>2. rec_obj \in Open
    BY <1>t, <2>1 DEF CursorIsOpen, Open
  <2>3. CASE s = rec_obj
    BY <1>t, <1>4, <2>1, <2>2, <2>3 DEF Open
  <2>4. CASE s # rec_obj
    BY <1>t, <2>1, <2>4 DEF Open
  <2>5. QED
    BY <2>3, <2>4
<1>5. QED
  BY <1>1, <1>2, <1>3, <1>4, SessionStep

\* A session that begins was not open.
LEMMA BeginsUnused ==
  ASSUME SessionInv, NEW E, NEW m, OneBegins(E, m)
  PROVE  Unused(m.sn) /\ m.sn \notin Open
BY OneWayHead DEF SessionInv, NotYetOpen, Unused, Open

LEMMA NextEndIsTold ==
  ASSUME SessionInv, [Next]_vars
  PROVE  EndIsTold'
<1> SUFFICES ASSUME NEW s \in Sn
             PROVE  /\ s \in Elems(record_queue') => heard'[s] = record_id'[s] /\ heard'[s] >= 0
                    /\ heard'[s] > 0 => s \in Elems(record_queue')
                    /\ heard'[s] # 0 => ~Sending(s)'
  BY DEF EndIsTold
<1>t. /\ record_id[s] \in Int /\ heard[s] \in Int
      /\ s \in Open => heard[s] = record_id[s] /\ heard[s] >= 0
      /\ heard[s] > 0 => s \in Open
  BY DEF SessionInv, SessionsAreSound, TypeOK, EndIsTold, Open
<1>1. heard'[s] # 0 => ~Sending(s)'
  BY NextNotYetOpen DEF NotYetOpen, Unused
<1>2. CASE /\ heard'[s] = heard[s] /\ record_id'[s] = record_id[s]
           /\ s \in Elems(record_queue') <=> s \in Open
  BY <1>1, <1>2, <1>t
<1>3. CASE /\ heard'[s] = heard[s] /\ record_id'[s] = record_id[s]
           /\ \E E, m : OneBegins(E, m) /\ m.sn = s
           /\ s \in Elems(record_queue')
  <2>1. heard[s] = 0 /\ record_id[s] = 0
    BY <1>3, BeginsUnused DEF Unused
  <2>2. QED
    BY <1>1, <1>3, <2>1
<1>4. CASE /\ heard'[s] = -(record_id[s] + 1) /\ s \in Open
           /\ \/ s \notin Elems(record_queue')
              \/ \E E, m : OneBegins(E, m) /\ m.sn = s
  <2>1. s \notin Elems(record_queue')
    BY <1>4, BeginsUnused
  <2>2. heard'[s] < 0
    BY <1>4, <1>t
  <2>3. QED
    BY <1>1, <1>4, <1>t, <2>1, <2>2
<1>5. CASE /\ GiveFrame /\ s = rec_obj /\ s \in Open /\ s \in Elems(record_queue')
           /\ record_id'[s] = record_id[s] + 1 /\ heard'[s] = record_id[s] + 1
  BY <1>1, <1>5, <1>t
<1>6. QED
  BY <1>2, <1>3, <1>4, <1>5, OneSessionStep

\* The time of a session only grows when it is given the frame.
LEMMA NextLengthIsKept ==
  ASSUME SessionInv, [Next]_vars
  PROVE  LengthIsKept'
<1> SUFFICES ASSUME NEW s \in Elems(record_queue'), record_ms'[s] >= MaxMs[cb'[s]]
             PROVE  pc' = "check" /\ rec_obj' = s
  BY DEF LengthIsKept, Elems
<1>t. /\ TypeOK /\ record_ms \in [Sn -> Nat] /\ len \in Nat /\ CursorIsOpen
      /\ Open \subseteq Sn /\ \A c \in Callbacks : MaxMs[c] \in Nat \ {0}
      /\ \A x \in Open : record_ms[x] >= MaxMs[cb[x]] => pc = "check" /\ rec_obj = x
  BY OpenIsSn DEF SessionInv, SessionsAreSound, TypeOK, LengthIsKept, Open, Elems
<1>1. CASE \E E, m : OneBegins(E, m) /\ m.sn = s /\ cb'[s] = m.cb
  <2>1. PICK E, m : OneBegins(E, m) /\ m.sn = s /\ cb'[s] = m.cb
    BY <1>1
  <2>2. record_ms'[s] = 0 /\ m.cb \in Callbacks
    BY <2>1, BeginsUnused, OneWayHead DEF OneBegins, Unused
  <2>3. MaxMs[cb'[s]] > 0 /\ MaxMs[cb'[s]] \in Nat
    BY <1>t, <2>1, <2>2
  <2>4. QED
    BY <2>2, <2>3
<1>2. CASE s \in Open /\ cb'[s] = cb[s]
  <2>1. CASE GiveFrame
    <3>1. pc = "frame" /\ pc' = "check" /\ rec_obj' = rec_obj
          /\ record_ms' = [record_ms EXCEPT ![rec_obj] = @ + len]
      BY <2>1 DEF GiveFrame
    <3>2. CASE s # rec_obj
      BY <1>2, <1>t, <3>1, <3>2
    <3>3. QED
      BY <3>1, <3>2
  <2>2. CASE ~GiveFrame
    <3>1. record_ms' = record_ms
      BY <2>2, SessionStep DEF objVars, OneEnds, OneBegins
    <3>2. pc = "check" /\ rec_obj = s /\ LongEnough
      BY <1>2, <1>t, <3>1 DEF LongEnough
    <3>3. ~Finish
      <4>1. ASSUME Finish PROVE s \notin Elems(record_queue')
        <5>1. PICK i \in 1..Len(record_queue) :
                record_queue[i] = rec_obj /\ record_queue' = WithoutAt(record_queue, i)
          BY <4>1 DEF Finish
        <5>2. QED
          BY <3>2, <5>1, RemoveFacts DEF SessionInv, SessionsAreSound, TypeOK, OneSessionEach
      <4>2. QED
        BY <4>1
    <3>4. UNCHANGED walkVars
      BY <1>t, <2>2, <3>2, <3>3, WalkStep DEF ReadFrame, GoOn
    <3>5. QED
      BY <3>2, <3>4 DEF walkVars
  <2>3. QED
    BY <2>1, <2>2
<1>3. QED
  BY <1>1, <1>2, OpenNext

\* While the loop is in its body, the cursor is at one place of the queue and what is
\* owed the frame is further on, or there before it is given.
LEMMA CursorPlace ==
  ASSUME SessionInv, pc # "idle"
  PROVE  \E i \in 1..Len(record_queue) :
           /\ record_queue[i] = rec_obj
           /\ StillToCome = {j \in 1..Len(record_queue) : i < j \/ (i = j /\ pc = "frame")}
<1>t. CursorIsOpen /\ NoRepeat(record_queue)
  BY DEF SessionInv, SessionsAreSound, OneSessionEach
<1>1. PICK i \in 1..Len(record_queue) : record_queue[i] = rec_obj
  BY <1>t DEF CursorIsOpen, Elems
<1>2. \A k \in 1..Len(record_queue) : record_queue[k] = rec_obj => k = i
  BY <1>t, <1>1 DEF NoRepeat
<1>3. QED
  BY <1>1, <1>2 DEF StillToCome

\* Where the walk goes on: the frame is given, the next session is reached, or the
\* loop ends, at the last session or with the session that ended at the head.
LEMMA NextOwedAhead ==
  ASSUME SessionInv, [Next]_vars
  PROVE  OwedAhead'
<1>t. /\ TypeOK /\ CursorIsOpen /\ OwedAhead /\ NoRepeat(record_queue)
      /\ record_queue \in Seq(Sn) /\ Len(record_queue) \in Nat
  BY LenProperties DEF SessionInv, SessionsAreSound, OneSessionEach, TypeOK
<1> SUFFICES ASSUME pc' # "idle", NEW s \in due'
             PROVE  \E j \in StillToCome' : record_queue'[j] = s
  BY DEF OwedAhead
<1>1. CASE UNCHANGED walkVars
  <2>1. pc # "idle"
    BY <1>1 DEF walkVars
  <2>2. UNCHANGED record_queue
    BY <1>1, <1>t, <2>1, SessionStep
    DEF walkVars, objVars, OneBegins, GiveFrame, Finish, GoTo, CursorIsOpen
  <2>3. QED
    BY <1>1, <1>t, <2>1, <2>2 DEF OwedAhead, walkVars, StillToCome
<1>2. CASE ReadFrame
  <2>1. /\ rec_obj' = FirstOf(record_queue, None) /\ record_queue' = record_queue
        /\ record_queue # << >> /\ pc' = "frame" /\ due' = Open
    BY <1>2 DEF ReadFrame, objVars, Open
  <2>2. rec_obj' = record_queue[1] /\ 1 \in 1..Len(record_queue)
    BY <1>t, <2>1, EmptySeq DEF FirstOf
  <2>3. PICK j \in 1..Len(record_queue) : record_queue[j] = s
    BY <2>1 DEF Open, Elems
  <2>4. j \in StillToCome'
    BY <1>t, <2>1, <2>2 DEF StillToCome, NoRepeat
  <2>5. QED
    BY <2>1, <2>3, <2>4
<1>3. CASE GiveFrame
  <2>1. /\ pc = "frame" /\ pc' = "check" /\ due' = due \ {rec_obj}
        /\ record_queue' = record_queue /\ rec_obj' = rec_obj
    BY <1>3 DEF GiveFrame
  <2>2. PICK j \in StillToCome : record_queue[j] = s
    BY <1>t, <2>1 DEF OwedAhead
  <2>3. j \in StillToCome'
    BY <2>1, <2>2 DEF StillToCome
  <2>4. QED
    BY <2>1, <2>2, <2>3
<1>4. CASE GoOn
  <2>1. /\ pc = "check" /\ rec_obj' = NextOf(record_queue, rec_obj, None)
        /\ record_queue' = record_queue /\ due' = due
        /\ rec_obj' # None /\ pc' = "frame"
    BY <1>4 DEF GoOn, GoTo, objVars
  <2>2. PICK i \in 1..Len(record_queue) :
           /\ record_queue[i] = rec_obj
           /\ StillToCome = {j \in 1..Len(record_queue) : i < j \/ (i = j /\ pc = "frame")}
    BY <2>1, CursorPlace
  <2>3. i + 1 \in 1..Len(record_queue) /\ rec_obj' = record_queue[i + 1]
    BY <1>t, <2>1, <2>2, NextOfIs
  <2>4. PICK j \in StillToCome : record_queue[j] = s
    BY <1>t, <2>1 DEF OwedAhead
  <2>5. j \in 1..Len(record_queue) /\ i + 1 <= j
    BY <1>t, <2>1, <2>2
  <2>6. \A k \in 1..Len(record_queue) : record_queue[k] = rec_obj' => k = i + 1
    BY <1>t, <2>3 DEF NoRepeat
  <2>7. j \in StillToCome'
    BY <1>t, <2>1, <2>3, <2>5, <2>6 DEF StillToCome
  <2>8. QED
    BY <2>1, <2>4, <2>7
<1>5. CASE Finish
  <2>1. PICK i \in 1..Len(record_queue) :
          /\ record_queue[i] = rec_obj
          /\ record_queue' = WithoutAt(record_queue, i) /\ GoTo(AfterFinish(i))
    BY <1>5 DEF Finish
  <2>2. /\ pc = "check" /\ due' = due /\ i # 1 /\ i # Len(record_queue)
        /\ rec_obj' = record_queue[i + 1] /\ pc' = "frame"
    BY <1>5, <2>1 DEF Finish, GoTo, AfterFinish
  <2>3. PICK k \in 1..Len(record_queue) :
           /\ record_queue[k] = rec_obj
           /\ StillToCome = {j \in 1..Len(record_queue) : k < j \/ (k = j /\ pc = "frame")}
    BY <2>2, CursorPlace
  <2>4. k = i
    BY <1>t, <2>1, <2>3 DEF NoRepeat
  <2>5. PICK j \in StillToCome : record_queue[j] = s
    BY <1>t, <2>2 DEF OwedAhead
  <2>6. j \in 1..Len(record_queue) /\ i < j
    BY <2>2, <2>3, <2>4
  <2>7. /\ Len(record_queue') = Len(record_queue) - 1
        /\ \A n \in 1..Len(record_queue) - 1 :
              record_queue'[n] = record_queue[IF n < i THEN n ELSE n + 1]
    BY <1>t, <2>1, RemovedPlaces
  <2>8. /\ j - 1 \in 1..Len(record_queue') /\ record_queue'[j - 1] = s
        /\ i \in 1..Len(record_queue') /\ record_queue'[i] = rec_obj' /\ i <= j - 1
    BY <1>t, <2>1, <2>2, <2>5, <2>6, <2>7, SMTT(30)
  <2>9. \A n \in 1..Len(record_queue') : record_queue'[n] = rec_obj' => n = i
    BY <2>8, NextSessionTypes DEF NoRepeat
  <2>10. j - 1 \in StillToCome'
    BY <1>t, <2>2, <2>6, <2>8, <2>9 DEF StillToCome
  <2>11. QED
    BY <2>8, <2>10
<1>6. CASE pc = "idle" /\ pc' = pc
  BY <1>6
<1>7. QED
  BY <1>1, <1>2, <1>3, <1>4, <1>5, <1>6, <1>t, WalkStep

-----------------------------------------------------------------------------
(* The theorems                                                            *)

LEMMA InitSessionInv == Init => SessionInv
<1> SUFFICES ASSUME Init PROVE SessionInv
  OBVIOUS
<1> USE DEF Init
<1>1. Elems(record_queue) = {} /\ NoRepeat(record_queue) /\ Len(record_queue) = 0
      /\ Len(msg_queue) = 0
  BY ElemsEmpty
<1>2. TypeOK
  <2>1. << >> \in Seq(Messages) /\ << >> \in Seq(Sn)
    BY EmptySeq
  <2>2. QED
    BY <2>1 DEF TypeOK
<1>3. CursorIsOpen
  BY DEF CursorIsOpen
<1>4. OneSessionEach
  BY <1>1 DEF OneSessionEach
<1>5. LengthIsKept
  BY <1>1 DEF LengthIsKept
<1>6. EndIsTold
  BY <1>1 DEF EndIsTold
<1>7. OneWay
  BY <1>1 DEF OneWay
<1>8. NotYetOpen
  BY <1>1 DEF NotYetOpen, Sending, Unused
<1>9. ByAge
  BY <1>1 DEF ByAge
<1>10. OwedAhead
  BY DEF OwedAhead
<1>11. QED
  BY <1>2, <1>3, <1>4, <1>5, <1>6, <1>7, <1>8, <1>9, <1>10 DEF SessionInv, SessionsAreSound

LEMMA NextSessionInv == SessionInv /\ [Next]_vars => SessionInv'
<1> SUFFICES ASSUME SessionInv, [Next]_vars PROVE SessionInv'
  OBVIOUS
<1>1. TypeOK' /\ CursorIsOpen'
  BY NextTypeOK
<1>2. OneSessionEach'
  BY NextSessionTypes, NextOneOpen, NextYoungest, OneSessionFromSets
<1>3. LengthIsKept' /\ EndIsTold'
  BY NextLengthIsKept, NextEndIsTold
<1>4. OneWay' /\ NotYetOpen' /\ ByAge' /\ OwedAhead'
  BY NextOneWay, NextNotYetOpen, NextByAge, NextOwedAhead
<1>5. QED
  BY <1>1, <1>2, <1>3, <1>4 DEF SessionInv, SessionsAreSound

LEMMA SessionInvAlways == Spec => []SessionInv
<1>1. Init => SessionInv
  BY InitSessionInv
<1>2. SessionInv /\ [Next]_vars => SessionInv'
  BY NextSessionInv
<1>3. QED
  BY <1>1, <1>2, PTL DEF Spec

\* In the order the clients' numbers arrive and with sessions freed under the loop's
\* cursor, each client has one open session at most, its youngest, for its length and
\* no longer, and no session that had begun disappears untold: for any number of
\* clients, sessions, frames and messages.
THEOREM SessionsSound == Spec => []SessionsAreSound
<1>1. SessionInv => SessionsAreSound
  BY DEF SessionInv
<1>2. QED
  BY <1>1, SessionInvAlways, PTL

\* The loop over the sessions ends when every session was given the frame, but for
\* the one case in which the session at the head of the queue ends in it.
LEMMA WalkEnds ==
  ASSUME SessionInv, [Next]_vars, pc # "idle", pc' = "idle"
  PROVE  due = {} \/ (rec_obj = Head(record_queue) /\ heard'[rec_obj] < 0)
<1>t. /\ TypeOK /\ OwedAhead /\ NoRepeat(record_queue) /\ CursorIsOpen /\ EndIsTold
      /\ record_queue \in Seq(Sn) /\ Len(record_queue) \in Nat
      /\ record_id \in [Sn -> Int] /\ heard \in [Sn -> Int]
  BY LenProperties DEF SessionInv, SessionsAreSound, OneSessionEach, TypeOK
<1>1. GoOn \/ Finish
  BY <1>t, WalkStep DEF walkVars, ReadFrame, GiveFrame
<1>2. pc = "check"
  BY <1>1 DEF GoOn, Finish
<1>3. PICK k \in 1..Len(record_queue) :
         /\ record_queue[k] = rec_obj
         /\ StillToCome = {j \in 1..Len(record_queue) : k < j \/ (k = j /\ pc = "frame")}
  BY <1>2, CursorPlace
<1>4. k = Len(record_queue) => due = {}
  BY <1>t, <1>2, <1>3 DEF OwedAhead
<1>5. CASE GoOn
  <2>1. NextOf(record_queue, rec_obj, None) = None
    BY <1>5 DEF GoOn, GoTo
  <2>2. ASSUME k < Len(record_queue) PROVE FALSE
    <3>1. NextOf(record_queue, record_queue[k], None) = record_queue[k + 1]
      BY <1>t, <2>2, NextOfIs
    <3>2. k + 1 \in 1..Len(record_queue) /\ record_queue[k + 1] = None
      BY <1>t, <1>3, <2>1, <2>2, <3>1
    <3>3. QED
      BY <1>t, <3>2, ElementOfSeq
  <2>3. QED
    BY <1>t, <1>3, <1>4, <2>2
<1>6. CASE Finish
  <2>1. PICK i \in 1..Len(record_queue) :
          record_queue[i] = rec_obj /\ GoTo(AfterFinish(i))
    BY <1>6 DEF Finish
  <2>2. i = k
    BY <1>t, <1>3, <2>1 DEF NoRepeat
  <2>3. AfterFinish(i) = None
    BY <2>1 DEF GoTo
  <2>4. i = 1 \/ i = Len(record_queue)
    BY <1>t, <2>1, <2>3, ElementOfSeq DEF AfterFinish
  <2>5. rec_obj \in Open /\ rec_obj \in Sn
    BY <1>t, <2>1, OpenIsSn
  <2>6. record_id[rec_obj] >= 0 /\ record_id[rec_obj] \in Int
    BY <1>t, <2>5 DEF EndIsTold, Open
  <2>7. heard' = [heard EXCEPT ![rec_obj] = -(record_id[rec_obj] + 1)]
    BY <1>6 DEF Finish, LastId
  <2>8. heard'[rec_obj] < 0
    BY <1>t, <2>5, <2>6, <2>7
  <2>9. i = 1 => rec_obj = Head(record_queue)
    BY <1>t, <2>1, HeadTailProperties, EmptySeq
  <2>10. QED
    BY <1>4, <2>2, <2>4, <2>8, <2>9
<1>7. QED
  BY <1>1, <1>5, <1>6

\* A callback sees the frames of a session as 1, 2, 3... and then, once, the negative
\* number that follows, whichever way the session ends in; and a frame that was read
\* goes to every session open then, unless the one at the head of the queue ended in
\* it: for any clients, lengths, frames and number of sessions.
THEOREM CallbacksInTurn == Spec => CallbackProtocol
<1>1. ASSUME SessionInv, [Next]_vars, NEW s \in Sn, heard'[s] # heard[s]
      PROVE  heard[s] >= 0 /\ heard'[s] \in {heard[s] + 1, -(heard[s] + 1)}
  <2>1. s \in Open => heard[s] = record_id[s] /\ heard[s] >= 0
    BY <1>1 DEF SessionInv, SessionsAreSound, EndIsTold, Open
  <2>2. QED
    BY <1>1, <2>1, OneSessionStep
<1>2. SessionInv /\ [Next]_vars =>
        [/\ \A s \in Sn : heard'[s] # heard[s] =>
              heard[s] >= 0 /\ heard'[s] \in {heard[s] + 1, -(heard[s] + 1)}
         /\ pc # "idle" /\ pc' = "idle" =>
              due = {} \/ (rec_obj = Head(record_queue) /\ heard'[rec_obj] < 0)]_vars
  BY <1>1, WalkEnds
<1>3. QED
  BY <1>2, SessionInvAlways, PTL DEF Spec, CallbackProtocol

=============================================================================
