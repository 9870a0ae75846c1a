-------------------------- MODULE AsrService_proofs --------------------------
(***************************************************************************)
(* Proofs about AsrService, for any number of clients, recordings and       *)
(* frames, with every call that may fail failing or not.  AsrInv is the     *)
(* inductive invariant: that an answer is about its own recording and about *)
(* all of it rests on the order of a recording's objects (InOrder), on      *)
(* recordings being filed in one piece while none was interrupted between   *)
(* its comparison and its filing (InPieces), and on what has become of the  *)
(* objects made (AllWritten).                                               *)
(*                                                                          *)
(* SetsStep says what each step does to the places an object can be in; the *)
(* parts of the invariant follow from it and from what the step does to the *)
(* recordings.                                                              *)
(***************************************************************************)
EXTENDS AsrService, Queues_proofs, FiniteSetTheorems

USE ClientsAssumption, NoneAssumption, BoundAssumption, FailAssumption

-----------------------------------------------------------------------------
(* The steps                                                               *)

LEMMA ObjectFacts ==
  ASSUME NEW o \in Objects
  PROVE  /\ o.by \in Clients /\ o.sn \in Sn /\ o.sn \in Nat \ {0} /\ o # None
         /\ o.id \in Int /\ (o.id > 0 \/ o.id < 0)
<1>1. \A i \in Frames \cup Last : i \in Int /\ (i > 0 \/ i < 0)
  BY DEF Frames, Last
<1>2. QED
  BY <1>1 DEF Objects, Sn

LEMMA SameObject ==
  ASSUME NEW o \in Objects, NEW p \in Objects, o.by = p.by, o.sn = p.sn, o.id = p.id
  PROVE  o = p
BY DEF Objects

Holding(c) == c \in Clients /\ pc[c] \in {"classify", "check", "add"}

LEMMA HeldFacts ==
  ASSUME TypeOK, ClientInv
  PROVE  /\ \A o : o \in InHand <=> \E c \in Clients : Holding(c) /\ o = hand[c]
         /\ \A c \in Clients : Holding(c) =>
              /\ hand[c] \in InHand /\ hand[c] \in Objects
              /\ hand[c].by = c /\ hand[c].sn = stream[c].sn
         /\ \A c \in Clients : pc[c] # "idle" => hand[c] \in Objects /\ hand[c].by = c
         /\ \A c, d \in Clients : Holding(c) /\ Holding(d) /\ hand[c] = hand[d] => c = d
         /\ InHand \subseteq Objects
<1>1. \A o : o \in InHand <=> \E c \in Clients : Holding(c) /\ o = hand[c]
  BY DEF InHand, Holding
<1>2. \A c \in Clients : pc[c] # "idle" =>
         hand[c] \in Objects /\ hand[c].by = c /\ hand[c].sn = stream[c].sn
  BY DEF TypeOK, ClientInv
<1>3. \A c \in Clients : Holding(c) => pc[c] # "idle"
  BY DEF Holding
<1>4. QED
  BY <1>1, <1>2, <1>3

LEMMA FiledFacts ==
  ASSUME TypeOK
  PROVE  /\ Filed \subseteq Objects /\ Elems(pcm_queue) \subseteq Filed
         /\ pcm_obj # None => pcm_obj \in Filed /\ pcm_obj \in Objects
         /\ \A o \in Filed : o \in Elems(pcm_queue) \/ o = pcm_obj
         /\ \A j \in 1..Len(pcm_queue) : pcm_queue[j] \in Elems(pcm_queue)
         /\ \A o \in Elems(pcm_queue) : \E j \in 1..Len(pcm_queue) : pcm_queue[j] = o
         /\ pcm_queue \in Seq(Objects) /\ Len(pcm_queue) \in Nat
BY ElemsType, LenProperties DEF TypeOK, Filed, Elems

\* What a client makes of what its recording gave it.
ObjectOf(c, id) == [by |-> c, sn |-> stream[c].sn, id |-> id]

LEMMA NewObjectFacts ==
  ASSUME TypeOK, ClientInv, NEW c \in Clients, stream[c].live, NEW id,
         \/ stream[c].n < MaxFrames /\ id = stream[c].n + 1
         \/ id = -(stream[c].n + 1)
  PROVE  /\ ObjectOf(c, id) \in Objects
         /\ ObjectOf(c, id).by = c /\ ObjectOf(c, id).sn = stream[c].sn
         /\ ObjectOf(c, id).id = id
<1>1. stream[c] \in [sn : 0..MaxSn, n : 0..MaxFrames, live : BOOLEAN]
  BY DEF TypeOK
<1>2. stream[c].sn \in Sn
  BY <1>1 DEF ClientInv, Sn
<1>3. id \in Frames \cup Last
  BY <1>1 DEF Frames, Last
<1>4. QED
  BY <1>2, <1>3 DEF ObjectOf, Objects

\* The places an object can be in after a step.
Quiet ==
  /\ UNCHANGED <<pcm_queue, pcm_obj, made>> /\ InHand' = InHand
  /\ heap' = heap \/ \E c \in Clients : NotifyFail(c)

Makes(c, id) ==
  /\ stream[c].live
  /\ \/ stream[c].n < MaxFrames /\ id = stream[c].n + 1
        /\ made' = made \cup {ObjectOf(c, id)}
        /\ stream' = [stream EXCEPT ![c].n = @ + 1]
     \/ id = -(stream[c].n + 1) /\ made' = made
        /\ stream' = [stream EXCEPT ![c].live = FALSE]
  /\ pc[c] = "idle" /\ pc' = [pc EXCEPT ![c] = "classify"]
  /\ hand' = [hand EXCEPT ![c] = ObjectOf(c, id)]
  /\ InHand' = InHand \cup {ObjectOf(c, id)}
  /\ heap' = heap \cup {ObjectOf(c, id)}
  /\ UNCHANGED <<last_sn, record_sn, pcm_queue, requests, pcm_obj, taskVars, lost, mixed>>

Refuses(c) == CheckFail(c) /\ InHand' = InHand \ {hand[c]} /\ hand[c] \in InHand

Files(c) == AddTail(c) /\ InHand' = InHand \ {hand[c]} /\ hand[c] \in InHand

Takes ==
  /\ TakeFirst /\ pcm_queue # << >> /\ pcm_obj = None
  /\ pcm_obj' = Head(pcm_queue) /\ pcm_queue' = Tail(pcm_queue)
  /\ InHand' = InHand

Ends ==
  /\ Process /\ pcm_obj # None /\ pcm_obj' = None
  /\ heap' = heap \ {pcm_obj}
  /\ InHand' = InHand
  /\ UNCHANGED <<clientVars, pc, hand, record_sn, pcm_queue, requests, seenVars>>

LEMMA ProcessEnds ==
  ASSUME Process
  PROVE  Ends
<1>1. /\ pcm_obj # None /\ pcm_obj' = None /\ heap' = heap \ {pcm_obj}
      /\ UNCHANGED <<clientVars, pc, hand, record_sn, pcm_queue, requests, seenVars>>
  BY DEF Process, ProcessStart, ProcessRead, ProcessShort, ProcessStop, Release
<1>2. QED
  BY <1>1 DEF Ends, InHand

\* One client's step changes what it holds, and nothing of the others.
LEMMA HoldingStep ==
  ASSUME TypeOK, ClientInv, NEW c \in Clients,
         \A d \in Clients \ {c} : pc'[d] = pc[d] /\ hand'[d] = hand[d]
  PROVE  /\ ~Holding(c) /\ ~Holding(c)' => InHand' = InHand
         /\ Holding(c) /\ Holding(c)' /\ hand'[c] = hand[c] => InHand' = InHand
         /\ ~Holding(c) /\ Holding(c)' => InHand' = InHand \cup {hand'[c]}
         /\ Holding(c) /\ ~Holding(c)' => InHand' = InHand \ {hand[c]} /\ hand[c] \in InHand
<1>1. \A o : o \in InHand <=> \E d \in Clients : Holding(d) /\ o = hand[d]
  BY DEF InHand, Holding
<1>2. \A o : o \in InHand' <=> \E d \in Clients : Holding(d)' /\ o = hand'[d]
  BY DEF InHand, Holding
<1>3. \A d \in Clients \ {c} : Holding(d)' <=> Holding(d)
  BY DEF Holding
<1>4. \A d \in Clients : Holding(d) /\ Holding(c) /\ hand[c] = hand[d] => c = d
  BY HeldFacts
<1>5. ASSUME ~Holding(c), ~Holding(c)' PROVE InHand' = InHand
  BY <1>1, <1>2, <1>3, <1>5
<1>6. ASSUME Holding(c), Holding(c)', hand'[c] = hand[c] PROVE InHand' = InHand
  BY <1>1, <1>2, <1>3, <1>6
<1>7. ASSUME ~Holding(c), Holding(c)' PROVE InHand' = InHand \cup {hand'[c]}
  BY <1>1, <1>2, <1>3, <1>7
<1>8. ASSUME Holding(c), ~Holding(c)' PROVE InHand' = InHand \ {hand[c]} /\ hand[c] \in InHand
  BY <1>1, <1>2, <1>3, <1>4, <1>8
<1>9. QED
  BY <1>5, <1>6, <1>7, <1>8

LEMMA SetsStep ==
  ASSUME TypeOK, ClientInv, [Next]_vars
  PROVE  \/ Quiet
         \/ \E c \in Clients : Refuses(c) \/ Files(c) \/ \E id : Makes(c, id)
         \/ Takes \/ Ends
<1>t. pc \in [Clients -> {"idle", "classify", "check", "add", "notify"}]
      /\ hand \in [Clients -> Objects \cup {None}]
  BY DEF TypeOK
<1>0. UNCHANGED <<pc, hand>> => InHand' = InHand
  BY DEF InHand
<1>1. CASE UNCHANGED vars
  BY <1>1, <1>0 DEF vars, Quiet, seenVars
<1>2. ASSUME NEW c \in Clients, Client(c)
      PROVE  Quiet \/ Refuses(c) \/ Files(c) \/ \E id : Makes(c, id)
  <2>1. CASE Record(c)
    BY <2>1, <1>0 DEF Record, Quiet, seenVars
  <2>2. ASSUME NEW id, NewObject(c, id), pc[c] = "idle",
               UNCHANGED <<pcm_queue, pcm_obj>>
        PROVE  \/ Quiet
               \/ /\ hand' = [hand EXCEPT ![c] = ObjectOf(c, id)]
                  /\ pc' = [pc EXCEPT ![c] = "classify"]
                  /\ made' = IF id > 0 THEN made \cup {ObjectOf(c, id)} ELSE made
                  /\ InHand' = InHand \cup {ObjectOf(c, id)}
                  /\ heap' = heap \cup {ObjectOf(c, id)}
    <3>1. CASE UNCHANGED <<heap, hand, pc, made>>
      BY <2>2, <3>1, <1>0 DEF Quiet
    <3>2. CASE /\ heap' = heap \cup {ObjectOf(c, id)}
               /\ hand' = [hand EXCEPT ![c] = ObjectOf(c, id)]
               /\ pc' = [pc EXCEPT ![c] = "classify"]
               /\ made' = IF id > 0 THEN made \cup {ObjectOf(c, id)} ELSE made
      <4>1. /\ \A d \in Clients \ {c} : pc'[d] = pc[d] /\ hand'[d] = hand[d]
            /\ hand'[c] = ObjectOf(c, id) /\ ~Holding(c) /\ Holding(c)'
        BY <1>t, <2>2, <3>2 DEF Holding
      <4>2. InHand' = InHand \cup {ObjectOf(c, id)}
        BY <4>1, HoldingStep
      <4>3. QED
        BY <3>2, <4>2
    <3>3. QED
      BY <2>2, <3>1, <3>2 DEF NewObject, ObjectOf
  <2>3. CASE GetFrame(c)
    <3>1. /\ NewObject(c, stream[c].n + 1) /\ pc[c] = "idle" /\ stream[c].live
          /\ stream[c].n < MaxFrames /\ stream' = [stream EXCEPT ![c].n = @ + 1]
          /\ UNCHANGED <<last_sn, record_sn, pcm_queue, requests, pcm_obj, taskVars, lost, mixed>>
      BY <2>3 DEF GetFrame
    <3>2. stream[c].n + 1 > 0
      BY DEF TypeOK
    <3>3. Quiet \/ Makes(c, stream[c].n + 1)
      BY <2>2, <3>1, <3>2 DEF Makes
    <3>4. QED
      BY <3>3
  <2>4. CASE GetEnd(c)
    <3>1. /\ NewObject(c, -(stream[c].n + 1)) /\ pc[c] = "idle" /\ stream[c].live
          /\ stream' = [stream EXCEPT ![c].live = FALSE]
          /\ UNCHANGED <<last_sn, record_sn, pcm_queue, requests, pcm_obj, taskVars, lost, mixed>>
      BY <2>4 DEF GetEnd
    <3>2. ~(-(stream[c].n + 1) > 0)
      BY DEF TypeOK
    <3>3. Quiet \/ Makes(c, -(stream[c].n + 1))
      BY <2>2, <3>1, <3>2 DEF Makes
    <3>4. QED
      BY <3>3
  <2>5. CASE Classify(c) \/ CheckPass(c)
    <3>1. /\ \A d \in Clients \ {c} : pc'[d] = pc[d] /\ hand'[d] = hand[d]
          /\ Holding(c) /\ Holding(c)' /\ hand'[c] = hand[c]
          /\ UNCHANGED <<heap, pcm_queue, pcm_obj, made>>
      BY <1>t, <2>5 DEF Classify, CheckPass, Step, Holding, seenVars
    <3>2. QED
      BY <3>1, HoldingStep DEF Quiet
  <2>6. CASE CheckFail(c) \/ AddTail(c)
    <3>1. /\ \A d \in Clients \ {c} : pc'[d] = pc[d] /\ hand'[d] = hand[d]
          /\ Holding(c) /\ ~Holding(c)'
      BY <1>t, <2>6 DEF CheckFail, AddTail, Step, Holding
    <3>2. QED
      BY <2>6, <3>1, HoldingStep DEF Refuses, Files
  <2>7. CASE Notify(c) \/ NotifyFail(c)
    <3>1. /\ \A d \in Clients \ {c} : pc'[d] = pc[d] /\ hand'[d] = hand[d]
          /\ ~Holding(c) /\ ~Holding(c)'
          /\ UNCHANGED <<pcm_queue, pcm_obj, made>>
          /\ heap' = heap \/ NotifyFail(c)
      BY <1>t, <2>7 DEF Notify, NotifyFail, Step, Holding, seenVars
    <3>2. QED
      BY <3>1, HoldingStep DEF Quiet
  <2>8. QED
    BY <1>2, <2>1, <2>3, <2>4, <2>5, <2>6, <2>7 DEF Client, Send
<1>3. CASE RequestLost
  BY <1>3, <1>0 DEF RequestLost, Quiet
<1>4. CASE TakeFirst
  BY <1>4, <1>0 DEF TakeFirst, Takes, Quiet, seenVars
<1>5. CASE Process
  BY <1>5, ProcessEnds
<1>6. QED
  BY <1>1, <1>2, <1>3, <1>4, <1>5 DEF Next

-----------------------------------------------------------------------------
(* Types                                                                   *)

LEMMA InitTypeOK == Init => TypeOK
<1> SUFFICES ASSUME Init PROVE TypeOK
  OBVIOUS
<1>1. 0 \in 0..MaxSn /\ 0 \in 0..MaxFrames /\ 0 \in 0..MaxLost
  OBVIOUS
<1>2. asr_result \in Results /\ results \in [Sn -> Seq(Results)]
  BY <1>1 DEF Init, Results
<1>3. stream \in [Clients -> [sn : 0..MaxSn, n : 0..MaxFrames, live : BOOLEAN]]
  BY <1>1 DEF Init
<1>4. /\ pc \in [Clients -> {"idle", "classify", "check", "add", "notify"}]
      /\ hand \in [Clients -> Objects \cup {None}]
  BY DEF Init
<1>5. /\ last_sn \in 0..MaxSn /\ record_sn \in 0..MaxSn /\ requests \in Nat
      /\ lost \in 0..MaxLost /\ mixed \in BOOLEAN
  BY <1>1 DEF Init
<1>q. pcm_queue \in Seq(Objects)
  BY EmptySeq DEF Init
<1>6. /\ heap \subseteq Objects /\ pcm_obj \in Objects \cup {None}
      /\ handle \in Sn \cup {None} /\ open \subseteq Sn /\ uploaded \subseteq Objects
      /\ made \subseteq Objects
  BY DEF Init
<1>7. QED
  BY <1>2, <1>3, <1>4, <1>5, <1>6, <1>q DEF TypeOK

LEMMA ProcessTypeOK ==
  ASSUME TypeOK, Process
  PROVE  /\ heap' \subseteq Objects /\ pcm_obj' \in Objects \cup {None}
         /\ handle' \in Sn \cup {None} /\ open' \subseteq Sn /\ uploaded' \subseteq Objects
         /\ asr_result' \in Results /\ results' \in [Sn -> Seq(Results)]
<1>1. pcm_obj \in Objects /\ pcm_obj.sn \in Sn /\ pcm_obj.sn \in 0..MaxSn
  <2>1. pcm_obj \in Objects
    BY ProcessEnds DEF TypeOK, Ends
  <2>2. QED
    BY <2>1, ObjectFacts DEF Sn
<1>2. heap' \subseteq Objects /\ pcm_obj' = None
  BY ProcessEnds DEF TypeOK, Ends
<1>3. handle' \in Sn \cup {None} /\ open' \subseteq Sn /\ uploaded' \subseteq Objects
  <2>0. handle \in Sn \cup {None} /\ open \subseteq Sn /\ uploaded \subseteq Objects
    BY DEF TypeOK
  <2>1. handle' \in {handle, None, pcm_obj.sn}
    BY DEF Process, ProcessStart, ProcessRead, ProcessShort, ProcessStop, Reply
  <2>2. open' \in {open, Remaining, Remaining \cup {pcm_obj.sn}}
    BY DEF Process, ProcessStart, ProcessRead, ProcessShort, ProcessStop, Reply
  <2>3. uploaded' \in {uploaded, {}, {pcm_obj}, uploaded \cup {pcm_obj}}
    BY DEF Process, ProcessStart, ProcessRead, ProcessShort, ProcessStop, Reply
  <2>4. QED
    BY <1>1, <2>0, <2>1, <2>2, <2>3 DEF Remaining
<1>4. asr_result' \in Results
  <2>1. \/ asr_result' = asr_result
        \/ asr_result' = [sn |-> pcm_obj.sn, error |-> "none", text |-> {}]
        \/ asr_result' = Failed(pcm_obj.sn)
        \/ asr_result' = [asr_result EXCEPT !.error = "engine"]
        \/ asr_result' = [asr_result EXCEPT !.error = "short"]
        \/ asr_result' = [asr_result EXCEPT !.error = "none", !.text = uploaded]
    BY DEF Process, ProcessStart, ProcessRead, ProcessShort, ProcessStop
  <2>2. asr_result \in Results /\ uploaded \subseteq Objects
    BY DEF TypeOK
  <2>3. \A e \in {"none", "engine", "short"} : [asr_result EXCEPT !.error = e] \in Results
    BY <2>2 DEF Results
  <2>4. [asr_result EXCEPT !.error = "none", !.text = uploaded] \in Results
    BY <2>2 DEF Results
  <2>5. \A e \in {"none", "engine"} :
          [sn |-> pcm_obj.sn, error |-> e, text |-> {}] \in Results
    BY <1>1 DEF Results
  <2>6. QED
    BY <2>1, <2>2, <2>3, <2>4, <2>5 DEF Failed
<1>5. results' \in [Sn -> Seq(Results)]
  <2>1. \/ results' = results
        \/ results' = [results EXCEPT ![pcm_obj.sn] = Append(@, asr_result')]
    BY DEF Process, ProcessStart, ProcessRead, ProcessShort, ProcessStop, Reply
  <2>2. Append(results[pcm_obj.sn], asr_result') \in Seq(Results)
    BY <1>1, <1>4, AppendProperties DEF TypeOK
  <2>3. QED
    BY <2>1, <2>2 DEF TypeOK
<1>6. QED
  BY <1>2, <1>3, <1>4, <1>5

LEMMA NextTypeOK ==
  ASSUME TypeOK, ClientInv, [Next]_vars
  PROVE  TypeOK'
<1>1. CASE UNCHANGED vars
  BY <1>1 DEF TypeOK, vars
<1>2. ASSUME NEW c \in Clients, Client(c)
      PROVE  TypeOK'
  <2>0. /\ stream \in [Clients -> [sn : 0..MaxSn, n : 0..MaxFrames, live : BOOLEAN]]
        /\ stream[c] \in [sn : 0..MaxSn, n : 0..MaxFrames, live : BOOLEAN]
        /\ hand[c] \in Objects \cup {None} /\ last_sn \in 0..MaxSn
        /\ record_sn \in 0..MaxSn
    BY DEF TypeOK
  <2>h. pc[c] # "idle" => hand[c] \in Objects /\ hand[c].sn \in 0..MaxSn
    <3>1. pc[c] # "idle" => hand[c] \in Objects
      BY HeldFacts
    <3>2. QED
      BY <3>1, ObjectFacts DEF Sn
  <2>1. CASE Record(c)
    <3>1. last_sn' \in 0..MaxSn
      BY <2>0, <2>1 DEF Record
    <3>2. stream' \in [Clients -> [sn : 0..MaxSn, n : 0..MaxFrames, live : BOOLEAN]]
      BY <2>0, <2>1 DEF Record
    <3>3. QED
      BY <2>1, <3>1, <3>2 DEF Record, TypeOK, taskVars, seenVars
  <2>2. ASSUME NEW id, NewObject(c, id), stream[c].live,
               \/ stream[c].n < MaxFrames /\ id = stream[c].n + 1
               \/ id = -(stream[c].n + 1)
        PROVE  /\ heap' \subseteq Objects /\ made' \subseteq Objects
               /\ hand' \in [Clients -> Objects \cup {None}]
               /\ pc' \in [Clients -> {"idle", "classify", "check", "add", "notify"}]
    <3>0. /\ heap \subseteq Objects /\ made \subseteq Objects
          /\ hand \in [Clients -> Objects \cup {None}]
          /\ pc \in [Clients -> {"idle", "classify", "check", "add", "notify"}]
      BY DEF TypeOK
    <3>1. ObjectOf(c, id) \in Objects
      BY <2>2, NewObjectFacts
    <3>2. CASE UNCHANGED <<heap, hand, pc, made>>
      BY <3>0, <3>2
    <3>3. CASE /\ heap' = heap \cup {ObjectOf(c, id)}
               /\ hand' = [hand EXCEPT ![c] = ObjectOf(c, id)]
               /\ pc' = [pc EXCEPT ![c] = "classify"]
               /\ made' = IF id > 0 THEN made \cup {ObjectOf(c, id)} ELSE made
      BY <3>0, <3>1, <3>3
    <3>4. QED
      BY <2>2, <3>2, <3>3 DEF NewObject, ObjectOf
  <2>3. CASE GetFrame(c)
    <3>1. /\ heap' \subseteq Objects /\ made' \subseteq Objects
          /\ hand' \in [Clients -> Objects \cup {None}]
          /\ pc' \in [Clients -> {"idle", "classify", "check", "add", "notify"}]
      BY <2>2, <2>3 DEF GetFrame
    <3>2. stream' \in [Clients -> [sn : 0..MaxSn, n : 0..MaxFrames, live : BOOLEAN]]
      BY <2>0, <2>3 DEF GetFrame
    <3>3. QED
      BY <2>3, <3>1, <3>2 DEF GetFrame, TypeOK, taskVars
  <2>4. CASE GetEnd(c)
    <3>1. /\ heap' \subseteq Objects /\ made' \subseteq Objects
          /\ hand' \in [Clients -> Objects \cup {None}]
          /\ pc' \in [Clients -> {"idle", "classify", "check", "add", "notify"}]
      BY <2>2, <2>4 DEF GetEnd
    <3>2. stream' \in [Clients -> [sn : 0..MaxSn, n : 0..MaxFrames, live : BOOLEAN]]
      BY <2>0, <2>4 DEF GetEnd
    <3>3. QED
      BY <2>4, <3>1, <3>2 DEF GetEnd, TypeOK, taskVars
  <2>5. CASE Classify(c)
    <3>1. record_sn' \in 0..MaxSn
      BY <2>0, <2>h, <2>5 DEF Classify, Step
    <3>2. QED
      BY <2>5, <3>1 DEF Classify, Step, TypeOK, clientVars, taskVars, seenVars
  <2>6. CASE CheckPass(c) \/ CheckFail(c)
    BY <2>6 DEF CheckPass, CheckFail, Step, TypeOK, clientVars, taskVars, seenVars
  <2>7. CASE AddTail(c)
    <3>1. pcm_queue' \in Seq(Objects)
      BY <2>7, <2>h, AppendProperties DEF AddTail, Step, TypeOK
    <3>2. mixed' \in BOOLEAN
      BY <2>7 DEF AddTail, TypeOK
    <3>3. QED
      BY <2>7, <3>1, <3>2 DEF AddTail, Step, TypeOK, clientVars, taskVars
  <2>8. CASE Notify(c) \/ NotifyFail(c)
    <3>1. hand' \in [Clients -> Objects \cup {None}]
      BY <2>0, <2>8 DEF Notify, NotifyFail, TypeOK
    <3>2. requests' \in Nat /\ heap' \subseteq Objects
      BY <2>8 DEF Notify, NotifyFail, TypeOK
    <3>3. pc' \in [Clients -> {"idle", "classify", "check", "add", "notify"}]
      BY <2>8 DEF Notify, NotifyFail, Step, TypeOK
    <3>4. UNCHANGED <<clientVars, record_sn, pcm_queue, pcm_obj, taskVars, seenVars>>
      BY <2>8 DEF Notify, NotifyFail
    <3>5. QED
      BY <3>1, <3>2, <3>3, <3>4 DEF TypeOK, clientVars, taskVars, seenVars
  <2>9. QED
    BY <1>2, <2>1, <2>3, <2>4, <2>5, <2>6, <2>7, <2>8 DEF Client, Send
<1>3. CASE RequestLost
  <2>1. requests' \in Nat /\ lost' \in 0..MaxLost
    BY <1>3 DEF RequestLost, TypeOK
  <2>2. QED
    BY <1>3, <2>1 DEF RequestLost, TypeOK, clientVars, taskVars
<1>4. CASE TakeFirst
  <2>1. requests' \in Nat
    BY <1>4 DEF TakeFirst, TypeOK
  <2>2. pcm_queue' \in Seq(Objects) /\ pcm_obj' \in Objects \cup {None}
    <3>0. pcm_queue \in Seq(Objects) /\ pcm_obj \in Objects \cup {None}
      BY DEF TypeOK
    <3>1. CASE pcm_queue = << >>
      BY <1>4, <3>0, <3>1 DEF TakeFirst
    <3>2. CASE pcm_queue # << >>
      BY <1>4, <3>0, <3>2, HeadTailProperties DEF TakeFirst
    <3>3. QED
      BY <3>1, <3>2
  <2>3. QED
    BY <1>4, <2>1, <2>2 DEF TakeFirst, TypeOK, clientVars, taskVars, seenVars
<1>5. CASE Process
  BY <1>5, ProcessTypeOK, ProcessEnds DEF Ends, TypeOK, clientVars, seenVars
<1>6. QED
  BY <1>1, <1>2, <1>3, <1>4, <1>5 DEF Next

-----------------------------------------------------------------------------
(* The clients                                                             *)

\* What a step does to the recordings.
Goes(c) ==
  /\ pc[c] = "idle" /\ stream[c].live /\ last_sn' = last_sn
  /\ \/ stream[c].n < MaxFrames /\ stream' = [stream EXCEPT ![c].n = @ + 1]
     \/ stream' = [stream EXCEPT ![c].live = FALSE]

LEMMA StreamStep ==
  ASSUME [Next]_vars
  PROVE  UNCHANGED clientVars \/ \E c \in Clients : Record(c) \/ Goes(c)
<1>1. CASE UNCHANGED vars
  BY <1>1 DEF vars, clientVars
<1>2. ASSUME NEW c \in Clients, Client(c)
      PROVE  UNCHANGED clientVars \/ Record(c) \/ Goes(c)
  BY <1>2 DEF Client, Send, GetFrame, GetEnd, Goes, Classify, CheckPass, CheckFail, AddTail,
              Notify, NotifyFail
<1>3. CASE RequestLost \/ TakeFirst
  BY <1>3 DEF RequestLost, TakeFirst
<1>4. CASE Process
  BY <1>4, ProcessEnds DEF Ends
<1>5. QED
  BY <1>1, <1>2, <1>3, <1>4 DEF Next

LEMMA StreamFacts ==
  ASSUME TypeOK
  PROVE  /\ last_sn \in Nat /\ MaxSn \in Nat
         /\ stream \in [Clients -> [sn : 0..MaxSn, n : 0..MaxFrames, live : BOOLEAN]]
         /\ \A c \in Clients :
              /\ stream[c] \in [sn : 0..MaxSn, n : 0..MaxFrames, live : BOOLEAN]
              /\ stream[c].sn \in Nat /\ stream[c].n \in Nat /\ stream[c].live \in BOOLEAN
<1>1. \A c \in Clients : stream[c] \in [sn : 0..MaxSn, n : 0..MaxFrames, live : BOOLEAN]
  BY DEF TypeOK
<1>2. QED
  BY <1>1 DEF TypeOK

\* A client's recordings as a step leaves them.
LEMMA StreamNext ==
  ASSUME TypeOK, NEW c \in Clients
  PROVE  /\ Record(c) =>
              /\ stream'[c].sn = last_sn + 1 /\ stream'[c].n = 0 /\ stream'[c].live
              /\ last_sn' = last_sn + 1
         /\ Goes(c) =>
              /\ stream'[c].sn = stream[c].sn
              /\ stream'[c].n \in Nat /\ stream'[c].n >= stream[c].n
         /\ Record(c) \/ Goes(c) => \A d \in Clients \ {c} : stream'[d] = stream[d]
BY StreamFacts DEF Record, Goes

LEMMA StaysIssued ==
  ASSUME TypeOK, ClientInv, [Next]_vars, NEW o \in Objects, Issued(o)
  PROVE  Issued(o)'
<1>0. o.by \in Clients /\ o.sn \in Nat /\ o.id \in Int
  BY ObjectFacts
<1>1. CASE UNCHANGED clientVars
  BY <1>1 DEF Issued, clientVars
<1>2. ASSUME NEW c \in Clients, Record(c)
      PROVE  Issued(o)'
  <2>1. o.sn <= last_sn
    BY <1>0, StreamFacts DEF Issued, ClientInv
  <2>2. QED
    BY <1>0, <1>2, <2>1, StreamNext, StreamFacts DEF Issued
<1>3. ASSUME NEW c \in Clients, Goes(c)
      PROVE  Issued(o)'
  <2>1. \A d \in Clients : stream'[d].sn = stream[d].sn
    BY <1>3, StreamNext
  <2>2. \A d \in Clients : stream'[d].n \in Nat /\ stream'[d].n >= stream[d].n
    BY <1>3, StreamNext, StreamFacts
  <2>3. \A d \in Clients : ~stream[d].live => ~stream'[d].live
    BY <1>3, StreamNext DEF Goes
  <2>4. QED
    BY <1>0, <2>1, <2>2, <2>3, StreamFacts DEF Issued
<1>4. QED
  BY <1>1, <1>2, <1>3, StreamStep

LEMMA HandIssued ==
  ASSUME TypeOK, ClientInv, NEW c \in Clients, pc[c] # "idle"
  PROVE  Issued(hand[c])
<1>1. /\ hand[c] \in Objects /\ hand[c].by = c /\ hand[c].sn = stream[c].sn
      /\ IF hand[c].id > 0 THEN hand[c].id = stream[c].n ELSE ~stream[c].live
  BY HeldFacts DEF ClientInv
<1>2. hand[c].sn \in Nat \ {0}
  BY <1>1, ObjectFacts
<1>3. QED
  BY <1>1, <1>2, StreamFacts DEF Issued, ClientInv

\* A new object is of the recording the client has open, and comes after all the others.
LEMMA NewIssued ==
  ASSUME TypeOK, ClientInv, NEW c \in Clients, NEW id, Makes(c, id),
         NEW p, p = ObjectOf(c, id)
  PROVE  /\ p \in Objects /\ p.by = c /\ p.sn = stream[c].sn /\ p.id = id /\ Issued(p)'
         /\ \A o \in Objects : Issued(o) => Before(o, p)
<1>1. /\ stream[c].live
      /\ \/ /\ stream[c].n < MaxFrames /\ id = stream[c].n + 1
            /\ stream' = [stream EXCEPT ![c].n = @ + 1]
         \/ /\ id = -(stream[c].n + 1)
            /\ stream' = [stream EXCEPT ![c].live = FALSE]
  BY DEF Makes
<1>2. p \in Objects /\ p.by = c /\ p.sn = stream[c].sn /\ p.id = id
  BY <1>1, NewObjectFacts
<1>3. p.sn \in Nat \ {0}
  BY <1>2, ObjectFacts
<1>4. \A d \in Clients : stream'[d].sn = stream[d].sn
  BY <1>1, StreamFacts
<1>5. IF id > 0 THEN id <= stream'[c].n ELSE ~stream'[c].live
  BY <1>1, StreamFacts
<1>6. Issued(p)'
  <2>1. p.sn <= stream'[p.by].sn
    BY <1>2, <1>4, StreamFacts
  <2>2. \A d \in Clients : stream'[d].sn = p.sn => d = p.by
    BY <1>2, <1>3, <1>4 DEF ClientInv
  <2>3. QED
    BY <1>2, <1>5, <2>1, <2>2 DEF Issued
<1>7. ASSUME NEW o \in Objects, Issued(o), o.sn = p.sn
      PROVE  o.id > 0 /\ (p.id < 0 \/ o.id < p.id)
  <2>1. o.by = c
    BY <1>2, <1>7 DEF Issued
  <2>2. o.id > 0 /\ o.id <= stream[c].n
    BY <1>1, <1>2, <1>7, <2>1 DEF Issued
  <2>3. QED
    BY <1>1, <1>2, <2>2, StreamFacts, ObjectFacts
<1>8. QED
  BY <1>2, <1>6, <1>7 DEF Before

\* Where the objects of a step come from.
LEMMA PlacesStep ==
  ASSUME TypeOK, TypeOK', ClientInv, [Next]_vars
  PROVE  /\ Filed' \subseteq Filed \cup InHand
         /\ \A o \in (Filed \cup InHand)' :
              \/ o \in Filed \cup InHand
              \/ \E c \in Clients : \E id : Makes(c, id) /\ o = ObjectOf(c, id)
         /\ \A o \in made' :
              \/ o \in made
              \/ \E c \in Clients : \E id : Makes(c, id) /\ o = ObjectOf(c, id) /\ id > 0
<1>0. /\ pcm_queue \in Seq(Objects)
      /\ stream \in [Clients -> [sn : 0..MaxSn, n : 0..MaxFrames, live : BOOLEAN]]
  BY DEF TypeOK
<1>1. CASE Quiet
  BY <1>1 DEF Quiet, Filed
<1>2. ASSUME NEW c \in Clients, Refuses(c)
      PROVE  UNCHANGED <<pcm_queue, pcm_obj, made>> /\ InHand' \subseteq InHand
  BY <1>2 DEF Refuses, CheckFail, seenVars
<1>3. ASSUME NEW c \in Clients, Files(c)
      PROVE  /\ Elems(pcm_queue)' = Elems(pcm_queue) \cup {hand[c]} /\ hand[c] \in InHand
             /\ InHand' \subseteq InHand /\ pcm_obj' = pcm_obj /\ made' = made
  <2>1. hand[c] \in Objects
    BY <1>3, HeldFacts DEF Files
  <2>2. QED
    BY <1>0, <1>3, <2>1, AppendFacts DEF Files, AddTail
<1>4. ASSUME NEW c \in Clients, NEW id, Makes(c, id)
      PROVE  /\ UNCHANGED <<pcm_queue, pcm_obj>> /\ InHand' = InHand \cup {ObjectOf(c, id)}
             /\ made' = made \/ (id > 0 /\ made' = made \cup {ObjectOf(c, id)})
  <2>1. stream[c].n \in Nat
    BY StreamFacts
  <2>2. QED
    BY <1>4, <2>1 DEF Makes
<1>5. CASE Takes
  <2>1. Head(pcm_queue) \in Elems(pcm_queue) /\ Elems(Tail(pcm_queue)) \subseteq Elems(pcm_queue)
    BY <1>0, <1>5, TailPlaces DEF Takes
  <2>2. QED
    BY <1>5, <2>1 DEF Takes, TakeFirst, Filed, seenVars
<1>6. CASE Ends
  BY <1>6 DEF Ends, Filed, seenVars
<1>7. QED
  BY <1>1, <1>2, <1>3, <1>4, <1>5, <1>6, SetsStep DEF Filed

\* The object a client has in hand is the last one its recording gave it.
HandFits(c) ==
  pc[c] # "idle" =>
    /\ hand[c] # None /\ hand[c].by = c /\ hand[c].sn = stream[c].sn
    /\ IF hand[c].id > 0 THEN hand[c].id = stream[c].n ELSE ~stream[c].live

LEMMA HandNext ==
  ASSUME TypeOK, ClientInv, [Next]_vars, NEW d \in Clients
  PROVE  HandFits(d)'
<1>0. HandFits(d) /\ stream[d].n \in Nat
  BY StreamFacts DEF ClientInv, HandFits
<1>t. /\ pc \in [Clients -> {"idle", "classify", "check", "add", "notify"}]
      /\ hand \in [Clients -> Objects \cup {None}]
      /\ stream \in [Clients -> [sn : 0..MaxSn, n : 0..MaxFrames, live : BOOLEAN]]
  BY DEF TypeOK
<1>1. CASE UNCHANGED <<pc, hand, stream>>
  BY <1>0, <1>1 DEF HandFits
<1>2. ASSUME NEW c \in Clients, Client(c)
      PROVE  HandFits(d)'
  <2>1. CASE c # d
    <3>1. pc'[d] = pc[d] /\ hand'[d] = hand[d] /\ stream'[d] = stream[d]
      BY <1>t, <1>2, <2>1 DEF Client, Record, GetFrame, GetEnd, NewObject, Send, Classify,
         CheckPass, CheckFail, AddTail, Notify, NotifyFail, Step, clientVars
    <3>2. QED
      BY <1>0, <3>1 DEF HandFits
  <2>2. CASE c = d /\ ~(Classify(c) \/ CheckPass(c) \/ AddTail(c))
                   /\ ~(GetFrame(c) \/ GetEnd(c))
    <3>1. pc'[d] = "idle"
      BY <1>t, <1>2, <2>2 DEF Client, Record, Send, CheckFail, Notify, NotifyFail, Step
    <3>2. QED
      BY <3>1 DEF HandFits
  <2>3. CASE c = d /\ (Classify(c) \/ CheckPass(c) \/ AddTail(c))
    <3>1. pc[d] # "idle" /\ UNCHANGED <<hand, stream>>
      BY <2>3 DEF Classify, CheckPass, AddTail, Step, clientVars
    <3>2. QED
      BY <1>0, <3>1 DEF HandFits
  <2>4. ASSUME c = d, NEW id, NewObject(c, id), pc[c] = "idle", stream[c].live,
               \/ /\ stream[c].n < MaxFrames /\ id = stream[c].n + 1
                  /\ stream' = [stream EXCEPT ![c].n = @ + 1]
               \/ /\ id = -(stream[c].n + 1)
                  /\ stream' = [stream EXCEPT ![c].live = FALSE]
        PROVE  HandFits(d)'
    <3>1. CASE UNCHANGED <<hand, pc>>
      BY <2>4, <3>1 DEF HandFits
    <3>2. CASE hand' = [hand EXCEPT ![c] = ObjectOf(c, id)]
      <4>1. /\ ObjectOf(c, id) \in Objects /\ ObjectOf(c, id).by = c
            /\ ObjectOf(c, id).sn = stream[c].sn /\ ObjectOf(c, id).id = id
        BY <2>4, NewObjectFacts
      <4>2. hand'[c] = ObjectOf(c, id)
        BY <1>t, <3>2
      <4>3. hand'[c] # None
        BY <4>1, <4>2, ObjectFacts
      <4>4. stream'[c].sn = stream[c].sn
        BY <1>t, <2>4
      <4>5. IF id > 0 THEN id = stream'[c].n ELSE ~stream'[c].live
        BY <1>0, <1>t, <2>4
      <4>6. QED
        BY <2>4, <4>1, <4>2, <4>3, <4>4, <4>5 DEF HandFits
    <3>3. QED
      BY <2>4, <3>1, <3>2 DEF NewObject, ObjectOf
  <2>5. CASE c = d /\ (GetFrame(c) \/ GetEnd(c))
    BY <2>4, <2>5 DEF GetFrame, GetEnd
  <2>6. QED
    BY <2>1, <2>2, <2>3, <2>5
<1>3. CASE RequestLost \/ TakeFirst
  BY <1>1, <1>3 DEF RequestLost, TakeFirst, clientVars
<1>4. CASE Process
  BY <1>1, <1>4, ProcessEnds DEF Ends, clientVars
<1>5. QED
  BY <1>1, <1>2, <1>3, <1>4 DEF Next, vars

LEMMA NextClientInv ==
  ASSUME TypeOK, TypeOK', ClientInv, [Next]_vars
  PROVE  ClientInv'
<1>1. \A c \in Clients : stream'[c].sn <= last_sn' /\ (stream'[c].live => stream'[c].sn > 0)
  <2>0. \A c \in Clients : stream[c].sn <= last_sn /\ (stream[c].live => stream[c].sn > 0)
    BY DEF ClientInv
  <2>1. CASE UNCHANGED clientVars
    BY <2>0, <2>1 DEF clientVars
  <2>2. ASSUME NEW d \in Clients, Record(d), NEW c \in Clients
        PROVE  stream'[c].sn <= last_sn' /\ (stream'[c].live => stream'[c].sn > 0)
    BY <2>0, <2>2, StreamNext, StreamFacts
  <2>3. ASSUME NEW d \in Clients, Goes(d), NEW c \in Clients
        PROVE  stream'[c].sn <= last_sn' /\ (stream'[c].live => stream'[c].sn > 0)
    <3>1. stream'[c].sn = stream[c].sn
      BY <2>3, StreamNext
    <3>2. QED
      BY <2>0, <2>3, <3>1, StreamNext, StreamFacts DEF Goes
  <2>4. QED
    BY <2>1, <2>2, <2>3, StreamStep
<1>2. \A c, d \in Clients : stream'[c].sn = stream'[d].sn => c = d \/ stream'[c].sn = 0
  <2>0. \A c, d \in Clients : stream[c].sn = stream[d].sn => c = d \/ stream[c].sn = 0
    BY DEF ClientInv
  <2>1. CASE UNCHANGED clientVars
    BY <2>0, <2>1 DEF clientVars
  <2>2. ASSUME NEW e \in Clients, Record(e),
               NEW c \in Clients, NEW d \in Clients, stream'[c].sn = stream'[d].sn
        PROVE  c = d \/ stream'[c].sn = 0
    <3>1. stream[c].sn <= last_sn /\ stream[d].sn <= last_sn
      BY DEF ClientInv
    <3>2. QED
      BY <2>0, <2>2, <3>1, StreamNext, StreamFacts
  <2>3. ASSUME NEW e \in Clients, Goes(e),
               NEW c \in Clients, NEW d \in Clients, stream'[c].sn = stream'[d].sn
        PROVE  c = d \/ stream'[c].sn = 0
    BY <2>0, <2>3, StreamNext
  <2>4. QED
    BY <2>1, <2>2, <2>3, StreamStep
<1>3. ASSUME NEW o \in (Filed \cup made)'
      PROVE  Issued(o)'
  <2>1. CASE o \in Filed \cup made
    <3>1. Issued(o) /\ o \in Objects
      BY <2>1, FiledFacts DEF ClientInv, TypeOK
    <3>2. QED
      BY <3>1, StaysIssued
  <2>2. CASE o \in InHand
    <3>1. PICK c \in Clients : Holding(c) /\ o = hand[c]
      BY <2>2, HeldFacts
    <3>2. Issued(o) /\ o \in Objects
      BY <3>1, HandIssued, HeldFacts DEF Holding
    <3>3. QED
      BY <3>2, StaysIssued
  <2>3. ASSUME NEW c \in Clients, NEW id, Makes(c, id), o = ObjectOf(c, id)
        PROVE  Issued(o)'
    BY <2>3, NewIssued
  <2>4. QED
    BY <2>1, <2>2, <2>3, PlacesStep
<1>4. ASSUME NEW o \in made'
      PROVE  o.id > 0
  <2>1. CASE o \in made
    BY <2>1 DEF ClientInv
  <2>2. ASSUME NEW c \in Clients, NEW id, Makes(c, id), o = ObjectOf(c, id), id > 0
        PROVE  o.id > 0
    BY <2>2, NewIssued
  <2>3. QED
    BY <2>1, <2>2, PlacesStep
<1>5. \A c \in Clients : HandFits(c)'
  BY HandNext
<1>6. ASSUME NEW o \in (Filed \cup InHand)', o.id > 0
      PROVE  o \in made'
  <2>1. made \subseteq made'
    <3>1. \A c \in Clients : \A id : Makes(c, id) => made \subseteq made'
      BY DEF Makes
    <3>2. QED
      BY <3>1, SetsStep DEF Quiet, Refuses, CheckFail, Files, AddTail, Takes, TakeFirst, Ends,
         seenVars
  <2>2. CASE o \in Filed \cup InHand
    BY <1>6, <2>1, <2>2 DEF ClientInv
  <2>3. ASSUME NEW c \in Clients, NEW id, Makes(c, id), o = ObjectOf(c, id)
        PROVE  o \in made'
    <3>1. o.id = id /\ stream[c].n \in Nat
      BY <2>3, NewIssued, StreamFacts
    <3>2. QED
      BY <1>6, <2>3, <3>1 DEF Makes
  <2>4. QED
    BY <2>2, <2>3, PlacesStep
<1>7. QED
  BY <1>1, <1>2, <1>3, <1>4, <1>5, <1>6 DEF ClientInv, HandFits

-----------------------------------------------------------------------------
(* The order of a recording's objects                                      *)

\* Two clients never hold objects of the same recording.
LEMMA HeldApart ==
  ASSUME TypeOK, ClientInv, NEW p \in InHand, NEW o \in InHand, p.sn = o.sn
  PROVE  p = o
<1>1. PICK c \in Clients : Holding(c) /\ p = hand[c]
  BY HeldFacts
<1>2. PICK d \in Clients : Holding(d) /\ o = hand[d]
  BY HeldFacts
<1>3. p.sn = stream[c].sn /\ o.sn = stream[d].sn /\ p.sn # 0
  BY <1>1, <1>2, HeldFacts, ObjectFacts
<1>4. QED
  BY <1>1, <1>2, <1>3 DEF ClientInv

LEMMA FilesFacts ==
  ASSUME TypeOK, ClientInv, NEW c \in Clients, Files(c)
  PROVE  /\ hand[c] \in InHand /\ hand[c] \in Objects
         /\ InHand' = InHand \ {hand[c]}
         /\ pcm_queue' = Append(pcm_queue, hand[c])
         /\ pcm_queue' \in Seq(Objects) /\ Len(pcm_queue) \in Nat
         /\ Len(pcm_queue') = Len(pcm_queue) + 1
         /\ \A i \in 1..Len(pcm_queue) : pcm_queue'[i] = pcm_queue[i]
         /\ pcm_queue'[Len(pcm_queue) + 1] = hand[c]
         /\ Elems(pcm_queue)' = Elems(pcm_queue) \cup {hand[c]}
         /\ pcm_obj' = pcm_obj /\ Filed' = Filed \cup {hand[c]}
         /\ UNCHANGED <<clientVars, hand, heap, record_sn, requests, pcm_obj, taskVars, lost, made>>
         /\ mixed' = (mixed \/ record_sn # hand[c].sn)
         /\ pc[c] = "add" /\ pc' = [pc EXCEPT ![c] = "notify"]
<1>1. hand[c] \in Objects /\ pcm_queue \in Seq(Objects)
  BY HeldFacts DEF Files, TypeOK
<1>2. pcm_queue' = Append(pcm_queue, hand[c])
  BY DEF Files, AddTail
<1>3. Elems(pcm_queue)' = Elems(pcm_queue) \cup {hand[c]}
  BY <1>1, <1>2, AppendFacts
<1>4. pcm_obj' = pcm_obj /\ Filed' = Filed \cup {hand[c]}
  BY <1>3 DEF Files, AddTail, Filed
<1>5. QED
  BY <1>1, <1>2, <1>3, <1>4, AppendPlaces DEF Files, AddTail, Step

LEMMA TakesFacts ==
  ASSUME TypeOK, Takes
  PROVE  /\ pcm_queue # << >> /\ pcm_obj = None
         /\ pcm_queue' \in Seq(Objects)
         /\ Len(pcm_queue) \in Nat \ {0} /\ Len(pcm_queue') = Len(pcm_queue) - 1
         /\ pcm_obj' = pcm_queue[1] /\ pcm_obj' \in Objects /\ pcm_obj' # None
         /\ pcm_obj' \in Elems(pcm_queue)
         /\ \A i \in 1..(Len(pcm_queue) - 1) : pcm_queue'[i] = pcm_queue[i + 1]
         /\ Elems(pcm_queue) = Elems(pcm_queue)' \cup {pcm_obj'}
         /\ Filed' = Filed /\ InHand' = InHand
         /\ requests > 0 /\ requests' = requests - 1
         /\ UNCHANGED <<clientVars, pc, hand, heap, record_sn, taskVars, seenVars>>
<1>1. /\ pcm_queue # << >> /\ pcm_obj = None /\ pcm_queue \in Seq(Objects)
      /\ pcm_obj' = Head(pcm_queue) /\ pcm_queue' = Tail(pcm_queue)
  BY DEF Takes, TypeOK
<1>2. /\ pcm_queue' \in Seq(Objects)
      /\ Len(pcm_queue) \in Nat \ {0} /\ Len(pcm_queue') = Len(pcm_queue) - 1
      /\ pcm_obj' = pcm_queue[1] /\ pcm_obj' \in Objects
      /\ pcm_obj' \in Elems(pcm_queue)
      /\ \A i \in 1..(Len(pcm_queue) - 1) : pcm_queue'[i] = pcm_queue[i + 1]
      /\ Elems(pcm_queue) = Elems(pcm_queue') \cup {pcm_obj'}
  BY <1>1, TailPlaces
<1>3. pcm_obj' # None
  BY <1>2, ObjectFacts
<1>4. Filed' = Filed
  BY <1>1, <1>2, <1>3 DEF Filed
<1>5. QED
  BY <1>1, <1>2, <1>3, <1>4 DEF Takes, TakeFirst

LEMMA NextInOrder ==
  ASSUME TypeOK, TypeOK', ClientInv, InOrder, [Next]_vars
  PROVE  InOrder'
<1>1. CASE Quiet
  BY <1>1 DEF Quiet, InOrder, Before, Filed
<1>2. ASSUME NEW c \in Clients, Refuses(c)
      PROVE  InOrder'
  BY <1>2 DEF Refuses, CheckFail, InOrder, Before, Filed
<1>3. ASSUME NEW c \in Clients, Files(c)
      PROVE  InOrder'
  <2> DEFINE x == hand[c]  n == Len(pcm_queue)
  <2>f. /\ x \in InHand /\ InHand' = InHand \ {x}
        /\ n \in Nat /\ Len(pcm_queue') = n + 1
        /\ \A i \in 1..n : pcm_queue'[i] = pcm_queue[i]
        /\ pcm_queue'[n + 1] = x
        /\ Elems(pcm_queue)' = Elems(pcm_queue) \cup {x}
        /\ pcm_obj' = pcm_obj /\ Filed' = Filed \cup {x}
        /\ UNCHANGED hand
    BY <1>3, FilesFacts
  <2>0. \A o \in Filed : Before(o, x)
    BY <2>f DEF InOrder
  <2>n. \A i \in 1..n : pcm_queue[i] \in Filed
    BY FiledFacts
  <2> HIDE DEF x, n
  <2>1. ASSUME NEW i \in 1..Len(pcm_queue'), NEW j \in 1..Len(pcm_queue'), i < j
        PROVE  Before(pcm_queue'[i], pcm_queue'[j])
    <3>1. i \in 1..n /\ pcm_queue'[i] = pcm_queue[i]
      BY <2>f, <2>1
    <3>2. CASE j \in 1..n
      BY <2>f, <2>1, <3>1, <3>2 DEF InOrder, n
    <3>3. CASE j = n + 1
      BY <2>f, <2>0, <2>n, <3>1, <3>3
    <3>4. QED
      BY <2>f, <3>2, <3>3
  <2>2. pcm_obj' # None => \A o \in Elems(pcm_queue)' : Before(pcm_obj, o)
    BY <2>f, <2>0, FiledFacts DEF InOrder
  <2>3. ASSUME NEW o \in Filed', NEW p \in InHand'
        PROVE  Before(o, p)
    <3>1. CASE o = x
      <4>1. p # x /\ p \in InHand
        BY <2>f, <2>3
      <4>2. QED
        BY <2>f, <3>1, <4>1, HeldApart DEF Before
    <3>2. CASE o \in Filed
      BY <2>f, <2>3, <3>2 DEF InOrder
    <3>3. QED
      BY <2>f, <3>1, <3>2
  <2>4. QED
    BY <2>1, <2>2, <2>3, <2>f DEF InOrder, Before
<1>4. ASSUME NEW c \in Clients, NEW id, Makes(c, id)
      PROVE  InOrder'
  <2>1. UNCHANGED <<pcm_queue, pcm_obj>> /\ InHand' = InHand \cup {ObjectOf(c, id)}
    BY <1>4 DEF Makes
  <2>2. \A o \in Filed : Issued(o) /\ o \in Objects
    BY FiledFacts DEF ClientInv
  <2>3. ASSUME NEW o \in Filed, NEW p, p = ObjectOf(c, id)
        PROVE  Before(o, p)
    BY <1>4, <2>2, <2>3, NewIssued
  <2>4. QED
    BY <2>1, <2>3 DEF InOrder, Before, Filed
<1>5. CASE Takes
  <2>1. /\ Len(pcm_queue) \in Nat \ {0} /\ Len(pcm_queue') = Len(pcm_queue) - 1
        /\ pcm_obj' = pcm_queue[1]
        /\ \A i \in 1..(Len(pcm_queue) - 1) : pcm_queue'[i] = pcm_queue[i + 1]
        /\ Filed' = Filed /\ InHand' = InHand
        /\ pcm_queue' \in Seq(Objects)
    BY <1>5, TakesFacts
  <2>2. ASSUME NEW i \in 1..Len(pcm_queue'), NEW j \in 1..Len(pcm_queue'), i < j
        PROVE  Before(pcm_queue'[i], pcm_queue'[j])
    <3>1. i + 1 \in 1..Len(pcm_queue) /\ j + 1 \in 1..Len(pcm_queue) /\ i + 1 < j + 1
      BY <2>1, <2>2
    <3>2. QED
      BY <2>1, <2>2, <3>1 DEF InOrder
  <2>3. ASSUME NEW o \in Elems(pcm_queue)'
        PROVE  Before(pcm_obj', o)
    <3>1. PICK j \in 1..Len(pcm_queue') : o = pcm_queue'[j]
      BY <2>3 DEF Elems
    <3>2. 1 \in 1..Len(pcm_queue) /\ j + 1 \in 1..Len(pcm_queue) /\ 1 < j + 1
          /\ o = pcm_queue[j + 1]
      BY <2>1, <3>1
    <3>3. QED
      BY <2>1, <3>2 DEF InOrder
  <2>4. QED
    BY <2>1, <2>2, <2>3 DEF InOrder, Before
<1>6. CASE Ends
  BY <1>6 DEF Ends, InOrder, Before, Filed
<1>7. QED
  BY <1>1, <1>2, <1>3, <1>4, <1>5, <1>6, SetsStep

-----------------------------------------------------------------------------
(* The answers                                                             *)

\* What a step does to the callbacks that were called.
Answers ==
  /\ Ends /\ pcm_obj \in Objects /\ pcm_obj.id < 0 /\ (ProcessShort \/ ProcessStop)
  /\ results' = [results EXCEPT ![pcm_obj.sn] = Append(@, asr_result')]

Begins ==
  /\ Ends /\ pcm_obj \in Objects /\ pcm_obj.id = 1 /\ ProcessStart
  /\ UNCHANGED results /\ asr_result'.sn = pcm_obj.sn

LEMMA AnswerStep ==
  ASSUME TypeOK, [Next]_vars
  PROVE  /\ UNCHANGED results \/ Answers
         /\ asr_result'.sn = asr_result.sn \/ Begins
<1>1. CASE UNCHANGED taskVars
  BY <1>1 DEF taskVars
<1>2. CASE Process
  <2>1. Ends /\ pcm_obj \in Objects
    BY <1>2, ProcessEnds DEF Ends, TypeOK
  <2>2. \A e, u : /\ [asr_result EXCEPT !.error = e].sn = asr_result.sn
                  /\ [asr_result EXCEPT !.error = e, !.text = u].sn = asr_result.sn
    BY DEF TypeOK, Results
  <2>3. CASE ProcessStart
    BY <2>1, <2>3 DEF ProcessStart, Begins, Failed
  <2>4. CASE ProcessRead
    BY <2>2, <2>4 DEF ProcessRead
  <2>5. CASE ProcessShort \/ ProcessStop
    BY <2>1, <2>2, <2>5 DEF ProcessShort, ProcessStop, Reply, Answers
  <2>6. QED
    BY <1>2, <2>3, <2>4, <2>5 DEF Process
<1>3. ASSUME NEW c \in Clients, Client(c)
      PROVE  UNCHANGED taskVars
  BY <1>3 DEF Client, Record, GetFrame, GetEnd, Send, Classify, CheckPass, CheckFail, AddTail,
              Notify, NotifyFail
<1>4. RequestLost \/ TakeFirst => UNCHANGED taskVars
  BY DEF RequestLost, TakeFirst
<1>5. UNCHANGED vars => UNCHANGED taskVars
  BY DEF vars, taskVars
<1>6. QED
  BY <1>1, <1>2, <1>3, <1>4, <1>5 DEF Next

LEMMA NextAnswerEnds ==
  ASSUME TypeOK, TypeOK', ClientInv, InOrder, AnswerEnds, [Next]_vars
  PROVE  AnswerEnds'
<1> SUFFICES ASSUME NEW s \in Sn, results'[s] # << >>
             PROVE  IsAnswered(s)'
  BY DEF AnswerEnds
<1>0. s \in Nat /\ results \in [Sn -> Seq(Results)]
  BY DEF Sn, TypeOK
<1>1. CASE results'[s] = results[s]
  <2>0. /\ Len(results[s]) = 1
        /\ \A o \in Filed \cup InHand : o.sn # s
        /\ s <= last_sn /\ \A c \in Clients : stream[c].sn = s => ~stream[c].live
    BY <1>1 DEF AnswerEnds, IsAnswered
  <2>1. ASSUME NEW o \in (Filed \cup InHand)'
        PROVE  o.sn # s
    <3>1. ASSUME NEW c \in Clients, NEW id, Makes(c, id), o = ObjectOf(c, id)
          PROVE  o.sn # s
      <4>1. o.sn = stream[c].sn
        BY <3>1, NewIssued
      <4>2. stream[c].live
        BY <3>1 DEF Makes
      <4>3. QED
        BY <2>0, <4>1, <4>2
    <3>2. QED
      BY <2>0, <3>1, PlacesStep
  <2>2. s <= last_sn' /\ \A c \in Clients : stream'[c].sn = s => ~stream'[c].live
    <3>1. CASE UNCHANGED clientVars
      BY <2>0, <3>1 DEF clientVars
    <3>2. ASSUME NEW d \in Clients, Record(d)
          PROVE  s <= last_sn' /\ \A c \in Clients : stream'[c].sn = s => ~stream'[c].live
      BY <1>0, <2>0, <3>2, StreamNext, StreamFacts, SMTT(30)
    <3>3. ASSUME NEW d \in Clients, Goes(d)
          PROVE  s <= last_sn' /\ \A c \in Clients : stream'[c].sn = s => ~stream'[c].live
      <4>1. stream[d].live /\ last_sn' = last_sn
        BY <3>3 DEF Goes
      <4>2. /\ stream'[d].sn = stream[d].sn
            /\ \A c \in Clients \ {d} : stream'[c] = stream[c]
        BY <3>3, StreamNext
      <4>3. QED
        BY <2>0, <4>1, <4>2
    <3>4. QED
      BY <3>1, <3>2, <3>3, StreamStep
  <2>3. QED
    BY <1>1, <2>0, <2>1, <2>2 DEF IsAnswered
<1>2. CASE results'[s] # results[s]
  <2>1. /\ Answers /\ s = pcm_obj.sn /\ results'[s] = Append(results[s], asr_result')
        /\ pcm_obj \in Objects /\ pcm_obj.id < 0 /\ pcm_obj \in Filed
    BY <1>0, <1>2, AnswerStep, FiledFacts, ObjectFacts DEF Answers
  <2>2. results[s] = << >>
    BY <2>1 DEF AnswerEnds, IsAnswered
  <2>3. Len(results'[s]) = 1
    BY <2>1, <2>2
  <2>4. ASSUME NEW o \in (Filed \cup InHand)'
        PROVE  o.sn # s
    <3>1. o \in Elems(pcm_queue) \cup InHand
      BY <2>1, <2>4 DEF Answers, Ends, Filed
    <3>2. Before(pcm_obj, o)
      BY <2>1, <3>1, ObjectFacts DEF InOrder
    <3>3. QED
      BY <2>1, <3>2, ObjectFacts DEF Before
  <2>5. s <= last_sn /\ \A c \in Clients : stream[c].sn = s => ~stream[c].live
    <3>1. Issued(pcm_obj) /\ pcm_obj.by \in Clients /\ ~(pcm_obj.id > 0)
      BY <2>1, ObjectFacts DEF ClientInv
    <3>2. s <= stream[pcm_obj.by].sn /\ stream[pcm_obj.by].sn <= last_sn
      BY <2>1, <3>1 DEF Issued, ClientInv
    <3>3. QED
      BY <1>0, <2>1, <3>1, <3>2, StreamFacts DEF Issued
  <2>6. UNCHANGED <<last_sn, stream>>
    BY <2>1 DEF Answers, Ends, clientVars
  <2>7. QED
    BY <2>3, <2>4, <2>5, <2>6 DEF IsAnswered
<1>3. QED
  BY <1>1, <1>2

LEMMA NextHasBegun ==
  ASSUME TypeOK, TypeOK', ClientInv, InOrder, HasBegun, [Next]_vars
  PROVE  HasBegun'
<1>0. asr_result.sn \in Nat /\ asr_result'.sn \in Nat
  BY DEF TypeOK, Results
<1>1. CASE asr_result'.sn = asr_result.sn
  <2> DEFINE s == asr_result.sn
  <2>0. /\ \A o \in Filed \cup InHand : o.sn = s => o.id # 1
        /\ s <= last_sn /\ s \in Nat
        /\ \A c \in Clients : s > 0 /\ stream[c].sn = s => stream[c].n > 0
    BY <1>0 DEF HasBegun
  <2> HIDE DEF s
  <2>1. ASSUME NEW o \in (Filed \cup InHand)', o.sn = s
        PROVE  o.id # 1
    <3>1. ASSUME NEW c \in Clients, NEW id, Makes(c, id), o = ObjectOf(c, id)
          PROVE  o.id # 1
      <4>1. o \in Objects /\ o.sn = stream[c].sn /\ o.id = id
        BY <3>1, NewIssued
      <4>2. stream[c].n \in Nat /\ stream[c].n > 0
        BY <2>0, <2>1, <4>1, ObjectFacts, StreamFacts
      <4>3. QED
        BY <3>1, <4>1, <4>2 DEF Makes
    <3>2. QED
      BY <2>0, <2>1, <3>1, PlacesStep
  <2>2. s <= last_sn' /\ \A c \in Clients : s > 0 /\ stream'[c].sn = s => stream'[c].n > 0
    <3>1. CASE UNCHANGED clientVars
      BY <2>0, <3>1 DEF clientVars
    <3>2. ASSUME NEW d \in Clients, Record(d) \/ Goes(d)
          PROVE  s <= last_sn' /\ \A c \in Clients : s > 0 /\ stream'[c].sn = s => stream'[c].n > 0
      BY <2>0, <3>2, StreamNext, StreamFacts DEF Goes
    <3>3. QED
      BY <3>1, <3>2, StreamStep
  <2>3. QED
    BY <1>1, <2>1, <2>2 DEF HasBegun, s
<1>2. CASE asr_result'.sn # asr_result.sn
  <2>1. /\ Begins /\ asr_result'.sn = pcm_obj.sn
        /\ pcm_obj \in Objects /\ pcm_obj.id = 1 /\ pcm_obj \in Filed
    BY <1>2, AnswerStep, FiledFacts, ObjectFacts DEF Begins
  <2>2. ASSUME NEW o \in (Filed \cup InHand)', o.sn = pcm_obj.sn
        PROVE  o.id # 1
    <3>1. o \in Elems(pcm_queue) \cup InHand
      BY <2>1, <2>2 DEF Begins, Ends, Filed
    <3>2. Before(pcm_obj, o)
      BY <2>1, <3>1, ObjectFacts DEF InOrder
    <3>3. QED
      BY <2>1, <2>2, <3>2 DEF Before
  <2>3. Issued(pcm_obj) /\ pcm_obj.by \in Clients
    BY <2>1, ObjectFacts DEF ClientInv
  <2>4. pcm_obj.sn <= last_sn
    BY <1>0, <2>1, <2>3, StreamFacts DEF Issued, ClientInv
  <2>5. \A c \in Clients : stream[c].sn = pcm_obj.sn => stream[c].n > 0
    BY <2>1, <2>3, StreamFacts DEF Issued
  <2>6. UNCHANGED <<last_sn, stream>>
    BY <2>1 DEF Begins, Ends, clientVars
  <2>7. QED
    BY <2>1, <2>2, <2>4, <2>5, <2>6 DEF HasBegun
<1>3. QED
  BY <1>1, <1>2

-----------------------------------------------------------------------------
(* The objects, the requests and the sessions                              *)

LEMMA InitNothingLost ==
  ASSUME Init
  PROVE  NothingLost
<1>1. TypeOK
  BY InitTypeOK
<1>2. InHand = {} /\ Elems(pcm_queue) = {} /\ NoRepeat(pcm_queue) /\ Len(pcm_queue) = 0
  BY ElemsEmpty DEF Init, InHand
<1>3. ObjectOwnership
  BY <1>2 DEF Init, ObjectOwnership
<1>4. {c \in Clients : pc[c] = "notify"} = {}
  BY DEF Init
<1>5. NoneStranded
  <2>1. Cardinality({c \in Clients : pc[c] = "notify"}) = 0
    BY <1>4, FS_EmptySet, Zenon
  <2>2. requests = 0 /\ lost = 0
    BY DEF Init
  <2>3. QED
    BY <1>2, <2>1, <2>2 DEF NoneStranded
<1>6. NoSessionLeak
  BY DEF Init, NoSessionLeak
<1>7. QED
  BY <1>1, <1>3, <1>5, <1>6 DEF NothingLost

\* A client that frees the object of a request it could not post frees what is in the
\* queue or with the ASR task, or what the service has freed already.
LEMMA RefusedIsUndefined ==
  ASSUME TypeOK, ClientInv, ObjectOwnership, Defined, NEW c \in Clients, NotifyFail(c)
  PROVE  ~Defined'
<1>1. /\ pc[c] = "notify" /\ pc'[c] = "idle"
      /\ heap' = heap \ {hand[c]}
      /\ hand'[c] = IF hand[c] \in heap THEN None ELSE hand[c]
      /\ UNCHANGED <<pcm_queue, pcm_obj>>
  BY DEF NotifyFail, Step, TypeOK
<1>2. hand[c] \in Objects /\ hand[c].by = c /\ hand[c] # None
  BY <1>1, HeldFacts, ObjectFacts
<1>3. CASE hand[c] \in heap
  <2>1. hand[c] \notin InHand
    <3>1. SUFFICES ASSUME NEW d \in Clients, Holding(d), hand[c] = hand[d] PROVE FALSE
      BY HeldFacts
    <3>2. d = c
      BY <1>2, <3>1, HeldFacts
    <3>3. QED
      BY <1>1, <3>1, <3>2 DEF Holding
  <2>2. hand[c] \in Elems(pcm_queue) \cup ({pcm_obj} \ {None})
    BY <1>3, <2>1 DEF ObjectOwnership
  <2>3. QED
    BY <1>1, <2>2 DEF Defined
<1>4. CASE hand[c] \notin heap
  BY <1>1, <1>2, <1>4 DEF Defined
<1>5. QED
  BY <1>3, <1>4

LEMMA NextObjectOwnership ==
  ASSUME TypeOK, TypeOK', ClientInv, ObjectOwnership, Defined, [Next]_vars
  PROVE  ObjectOwnership'
<1>0. /\ heap = InHand \cup Elems(pcm_queue) \cup ({pcm_obj} \ {None})
      /\ NoRepeat(pcm_queue)
      /\ InHand \cap Elems(pcm_queue) = {}
      /\ pcm_obj \notin InHand \cup Elems(pcm_queue)
  BY DEF ObjectOwnership
<1>q. pcm_queue \in Seq(Objects) /\ None \notin Objects
  BY DEF TypeOK
<1>1. CASE Quiet
  <2>1. ASSUME NEW c \in Clients, NotifyFail(c) PROVE ObjectOwnership'
    <3>1. ~Defined'
      BY <2>1, RefusedIsUndefined
    <3>2. QED
      BY <3>1 DEF ObjectOwnership
  <2>2. CASE heap' = heap
    BY <1>0, <1>1, <2>2 DEF Quiet, ObjectOwnership
  <2>3. QED
    BY <1>1, <2>1, <2>2 DEF Quiet
<1>2. ASSUME NEW c \in Clients, Refuses(c)
      PROVE  ObjectOwnership'
  BY <1>0, <1>2 DEF Refuses, CheckFail, ObjectOwnership
<1>3. ASSUME NEW c \in Clients, Files(c)
      PROVE  ObjectOwnership'
  <2>1. /\ hand[c] \in InHand /\ hand[c] \in Objects /\ InHand' = InHand \ {hand[c]}
        /\ pcm_queue' = Append(pcm_queue, hand[c])
        /\ Elems(pcm_queue)' = Elems(pcm_queue) \cup {hand[c]}
        /\ UNCHANGED <<heap, pcm_obj>>
    BY <1>3, FilesFacts
  <2>2. NoRepeat(pcm_queue)'
    BY <1>0, <1>q, <2>1, AppendFacts
  <2>3. QED
    BY <1>0, <1>q, <2>1, <2>2 DEF ObjectOwnership
<1>4. ASSUME NEW c \in Clients, NEW id, Makes(c, id), NEW p, p = ObjectOf(c, id)
      PROVE  ObjectOwnership'
  <2>1. /\ heap' = heap \cup {p} /\ InHand' = InHand \cup {p}
        /\ UNCHANGED <<pcm_queue, pcm_obj>>
    BY <1>4 DEF Makes
  <2>2. p \in Objects /\ \A o \in Objects : Issued(o) => Before(o, p)
    BY <1>4, NewIssued
  <2>3. ~Issued(p)
    BY <2>2, ObjectFacts DEF Before
  <2>4. p \notin Elems(pcm_queue) /\ p # pcm_obj
    BY <2>2, <2>3, FiledFacts, ObjectFacts DEF ClientInv, Filed
  <2>5. QED
    BY <1>0, <2>1, <2>4 DEF ObjectOwnership
<1>5. CASE Takes
  <2>1. /\ pcm_queue # << >> /\ pcm_queue' = Tail(pcm_queue) /\ pcm_obj' = Head(pcm_queue)
        /\ InHand' = InHand /\ heap' = heap /\ pcm_obj = None
    BY <1>5 DEF Takes, TakeFirst
  <2>2. /\ Head(pcm_queue) \in Objects /\ Head(pcm_queue) \in Elems(pcm_queue)
        /\ Elems(pcm_queue)' = Elems(pcm_queue) \ {Head(pcm_queue)}
        /\ NoRepeat(pcm_queue)'
    BY <1>0, <1>q, <2>1, TailFacts
  <2>3. QED
    BY <1>0, <1>q, <2>1, <2>2 DEF ObjectOwnership
<1>6. CASE Ends
  <2>1. /\ pcm_obj # None /\ pcm_obj' = None /\ heap' = heap \ {pcm_obj}
        /\ InHand' = InHand /\ pcm_queue' = pcm_queue
    BY <1>6 DEF Ends
  <2>2. None \notin InHand \cup Elems(pcm_queue)
    BY <1>q, HeldFacts, FiledFacts
  <2>3. QED
    BY <1>0, <2>1, <2>2 DEF ObjectOwnership
<1>7. QED
  BY <1>1, <1>2, <1>3, <1>4, <1>5, <1>6, SetsStep

Notifying == {c \in Clients : pc[c] = "notify"}

LEMMA NotifyingFacts ==
  /\ IsFiniteSet(Notifying) /\ Cardinality(Notifying) \in Nat
  /\ \A c \in Clients \ Notifying :
       Cardinality(Notifying \cup {c}) = Cardinality(Notifying) + 1
  /\ \A c \in Notifying : Cardinality(Notifying \ {c}) = Cardinality(Notifying) - 1
<1>1. IsFiniteSet(Notifying)
  BY FS_Subset DEF Notifying
<1>2. QED
  BY <1>1, FS_CardinalityType, FS_AddElement, FS_RemoveElement

LEMMA NextNoneStranded ==
  ASSUME TypeOK, TypeOK', ClientInv, ObjectOwnership, NoneStranded, Defined, [Next]_vars
  PROVE  NoneStranded'
<1>0. /\ Len(pcm_queue) = requests + lost + Cardinality(Notifying)
      /\ requests \in Nat /\ lost \in Nat /\ requests' \in Nat /\ lost' \in Nat
  BY DEF NoneStranded, Notifying, TypeOK
<1>p. pc \in [Clients -> {"idle", "classify", "check", "add", "notify"}]
  BY DEF TypeOK
<1>1. SUFFICES ASSUME Defined'
               PROVE  Len(pcm_queue)' = requests' + lost' + Cardinality(Notifying')
  BY DEF NoneStranded, Notifying
<1>2. CASE UNCHANGED <<pcm_queue, requests, lost>> /\ Notifying' = Notifying
  BY <1>0, <1>2
<1>3. ASSUME NEW c \in Clients, Client(c)
      PROVE  Len(pcm_queue)' = requests' + lost' + Cardinality(Notifying')
  <2>1. CASE AddTail(c)
    <3>1. Notifying' = Notifying \cup {c} /\ c \notin Notifying
      BY <1>p, <2>1 DEF AddTail, Step, Notifying
    <3>2. hand[c] \in Objects /\ pcm_queue \in Seq(Objects)
      BY <2>1, HeldFacts DEF AddTail, Step, TypeOK
    <3>3. Len(pcm_queue') = Len(pcm_queue) + 1
      BY <2>1, <3>2, AppendPlaces DEF AddTail
    <3>4. UNCHANGED <<requests, lost>>
      BY <2>1 DEF AddTail
    <3>5. QED
      BY <1>0, <3>1, <3>3, <3>4, NotifyingFacts
  <2>2. CASE Notify(c)
    <3>1. Notifying' = Notifying \ {c} /\ c \in Notifying
      BY <1>p, <2>2 DEF Notify, Step, Notifying
    <3>2. requests' = requests + 1 /\ UNCHANGED <<pcm_queue, lost>>
      BY <2>2 DEF Notify, seenVars
    <3>3. QED
      BY <1>0, <3>1, <3>2, NotifyingFacts
  <2>3. CASE NotifyFail(c)
    BY <1>1, <2>3, RefusedIsUndefined
  <2>4. CASE Record(c) \/ GetFrame(c) \/ GetEnd(c) \/ Classify(c) \/ CheckPass(c) \/ CheckFail(c)
    <3>1. UNCHANGED <<pcm_queue, requests, lost>>
      BY <2>4 DEF Record, GetFrame, GetEnd, Classify, CheckPass, CheckFail, seenVars
    <3>2. \/ pc' = pc
          \/ /\ pc[c] # "notify"
             /\ \E q \in {"idle", "classify", "check", "add"} : pc' = [pc EXCEPT ![c] = q]
      BY <2>4 DEF Record, GetFrame, GetEnd, NewObject, Classify, CheckPass, CheckFail, Step
    <3>3. Notifying' = Notifying
      BY <1>p, <3>2 DEF Notifying
    <3>4. QED
      BY <1>2, <3>1, <3>3
  <2>5. QED
    BY <1>3, <2>1, <2>2, <2>3, <2>4 DEF Client, Send
<1>4. CASE RequestLost
  <2>1. Notifying' = Notifying
    BY <1>4 DEF RequestLost, Notifying
  <2>2. requests' = requests - 1 /\ lost' = lost + 1 /\ pcm_queue' = pcm_queue
    BY <1>4 DEF RequestLost
  <2>3. QED
    BY <1>0, <2>1, <2>2, NotifyingFacts
<1>5. CASE TakeFirst
  <2>1. Notifying' = Notifying
    BY <1>5 DEF TakeFirst, Notifying
  <2>2. requests > 0 /\ requests' = requests - 1 /\ lost' = lost
    BY <1>5 DEF TakeFirst, seenVars
  <2>3. Len(pcm_queue) # 0
    BY <1>0, <2>2, NotifyingFacts
  <2>4. Len(pcm_queue') = Len(pcm_queue) - 1
    <3>1. pcm_queue \in Seq(Objects) /\ pcm_queue # << >>
      BY <2>3 DEF TypeOK
    <3>2. pcm_queue' = Tail(pcm_queue)
      BY <1>5, <3>1 DEF TakeFirst
    <3>3. QED
      BY <3>1, <3>2, TailPlaces
  <2>5. QED
    BY <1>0, <2>1, <2>2, <2>4, NotifyingFacts
<1>6. CASE Process
  <2>1. UNCHANGED <<pc, pcm_queue, requests, lost>>
    BY <1>6, ProcessEnds DEF Ends, seenVars
  <2>2. QED
    BY <1>2, <2>1 DEF Notifying
<1>7. CASE UNCHANGED vars
  BY <1>2, <1>7 DEF vars, Notifying
<1>8. QED
  BY <1>3, <1>4, <1>5, <1>6, <1>7 DEF Next

LEMMA NextNoSessionLeak ==
  ASSUME TypeOK, NoSessionLeak, [Next]_vars
  PROVE  NoSessionLeak'
<1>0. Remaining = {} /\ open = {handle} \ {None}
  BY DEF Remaining, NoSessionLeak
<1>1. CASE Process
  <2>1. \/ UNCHANGED <<handle, open>>
        \/ handle' = None /\ open' = Remaining
        \/ handle' = pcm_obj.sn /\ open' = Remaining \cup {pcm_obj.sn}
    BY <1>1 DEF Process, ProcessStart, ProcessRead, ProcessShort, ProcessStop, Reply
  <2>2. pcm_obj.sn # None
    <3>1. pcm_obj \in Objects
      BY <1>1, ProcessEnds DEF Ends, TypeOK
    <3>2. pcm_obj.sn \in Sn
      BY <3>1, ObjectFacts
    <3>3. QED
      BY <3>2
  <2>3. QED
    BY <1>0, <2>1, <2>2 DEF NoSessionLeak
<1>2. ASSUME NEW c \in Clients, Client(c)
      PROVE  UNCHANGED <<handle, open>>
  BY <1>2 DEF Client, Record, GetFrame, GetEnd, Send, Classify, CheckPass, CheckFail, AddTail,
              Notify, NotifyFail, taskVars
<1>3. RequestLost \/ TakeFirst \/ UNCHANGED vars => UNCHANGED <<handle, open>>
  BY DEF RequestLost, TakeFirst, vars, taskVars
<1>4. QED
  BY <1>0, <1>1, <1>2, <1>3 DEF Next, NoSessionLeak

LEMMA NextNothingLost ==
  ASSUME NothingLost, ClientInv, [Next]_vars
  PROVE  NothingLost'
<1>1. TypeOK /\ TypeOK'
  BY NextTypeOK DEF NothingLost
<1>2. CASE Defined
  BY <1>1, <1>2, NextObjectOwnership, NextNoneStranded, NextNoSessionLeak DEF NothingLost
<1>3. CASE UNCHANGED vars
  BY <1>1, <1>3 DEF NothingLost, vars, ObjectOwnership, NoneStranded, NoSessionLeak, Defined,
                    InHand
<1>4. QED
  BY <1>2, <1>3 DEF Next

-----------------------------------------------------------------------------
(* Recordings are filed in one piece                                       *)

\* The client whose first object made its recording current, on its way to file it.
Current(c) ==
  /\ c \in Clients /\ pc[c] \in {"check", "add"}
  /\ hand[c].sn = record_sn /\ hand[c].id = 1

LEMMA MixedStays ==
  ASSUME [Next]_vars, TypeOK, mixed
  PROVE  mixed'
BY DEF Next, vars, Client, Record, GetFrame, GetEnd, Send, Classify, CheckPass, CheckFail,
  AddTail, Notify, NotifyFail, RequestLost, TakeFirst, Process, ProcessStart, ProcessRead,
  ProcessShort, ProcessStop, Release, seenVars, TypeOK

\* The current recording changes with its client's first object only, and remains that of
\* the one filed last, or of the first object that client is about to file.
LEMMA CurrentStep ==
  ASSUME TypeOK, ClientInv, [Next]_vars,
         NEW last, record_sn = last \/ \E c \in Clients : Current(c),
         \A c \in Clients : ~AddTail(c)
  PROVE  record_sn' = last \/ \E c \in Clients : Current(c)'
<1>t. /\ pc \in [Clients -> {"idle", "classify", "check", "add", "notify"}]
      /\ hand \in [Clients -> Objects \cup {None}]
  BY DEF TypeOK
<1>1. CASE UNCHANGED <<pc, hand, record_sn>>
  BY <1>1 DEF Current
<1>2. ASSUME NEW d \in Clients, Classify(d)
      PROVE  record_sn' = last \/ \E c \in Clients : Current(c)'
  <2>1. /\ pc[d] = "classify" /\ pc' = [pc EXCEPT ![d] = "check"] /\ hand' = hand
        /\ record_sn' = IF hand[d].id = 1 THEN hand[d].sn ELSE record_sn
    BY <1>2 DEF Classify, Step
  <2>2. CASE hand[d].id = 1
    BY <1>t, <2>1, <2>2 DEF Current
  <2>3. CASE hand[d].id # 1
    BY <1>t, <2>1, <2>3 DEF Current
  <2>4. QED
    BY <2>2, <2>3
<1>3. ASSUME NEW d \in Clients, Client(d), ~Classify(d)
      PROVE  record_sn' = last \/ \E c \in Clients : Current(c)'
  <2>1. record_sn' = record_sn /\ \A c \in Clients \ {d} : pc'[c] = pc[c] /\ hand'[c] = hand[c]
    BY <1>t, <1>3 DEF Client, Record, GetFrame, GetEnd, NewObject, Send, CheckPass, CheckFail,
       AddTail, Notify, NotifyFail, Step
  <2>2. Current(d) => Current(d)'
    <3>1. CASE CheckPass(d)
      BY <1>t, <3>1 DEF CheckPass, Step, Current
    <3>2. CASE ~CheckPass(d)
      BY <1>3, <3>2 DEF Client, Record, GetFrame, GetEnd, Send, CheckFail, Notify, NotifyFail,
         Step, Current
    <3>3. QED
      BY <3>1, <3>2
  <2>3. QED
    BY <2>1, <2>2 DEF Current
<1>4. RequestLost \/ TakeFirst \/ UNCHANGED vars => UNCHANGED <<pc, hand, record_sn>>
  BY DEF RequestLost, TakeFirst, vars
<1>5. Process => UNCHANGED <<pc, hand, record_sn>>
  BY ProcessEnds DEF Ends
<1>6. QED
  BY <1>1, <1>2, <1>3, <1>4, <1>5 DEF Next

\* A recording that goes on at place j of the queue begins there after place i.
BeginsIn(i, j) ==
  \E k \in i + 1..j : pcm_queue[k].sn = pcm_queue[j].sn /\ pcm_queue[k].id = 1

LEMMA PiecesAre ==
  InPieces <=>
    /\ \A i, j \in 1..Len(pcm_queue) :
         i < j /\ pcm_queue[i].sn # pcm_queue[j].sn => BeginsIn(i, j)
    /\ \A j \in 1..Len(pcm_queue) : pcm_queue[j].sn # SnBefore => BeginsIn(0, j)
    /\ pcm_obj # None => pcm_obj.id = 1 \/ pcm_obj.sn = asr_result.sn
    /\ record_sn = SnFiled \/ \E c \in Clients : Current(c)
BY DEF InPieces, BeginsIn, Current

\* Processing an object brings the service to that object's recording.
LEMMA EndsAtItsOwn ==
  ASSUME TypeOK, InPieces, Ends, [Next]_vars
  PROVE  asr_result'.sn = pcm_obj.sn /\ pcm_obj # None /\ pcm_obj \in Objects
<1>1. pcm_obj # None /\ pcm_obj \in Objects /\ Process
  BY DEF Ends, TypeOK
<1>2. CASE pcm_obj.id = 1
  <2>0. ~(pcm_obj.id > 1) /\ ~(pcm_obj.id < 0)
    BY <1>2
  <2>1. ProcessStart
    BY <1>1, <2>0 DEF Process, ProcessRead, ProcessShort, ProcessStop
  <2>2. asr_result'.sn = pcm_obj.sn
    BY <2>1 DEF ProcessStart, Failed
  <2>3. QED
    BY <1>1, <2>2
<1>3. CASE pcm_obj.id # 1
  <2>1. pcm_obj.sn = asr_result.sn
    BY <1>1, <1>3 DEF InPieces
  <2>2. asr_result'.sn = asr_result.sn
    BY <1>3, AnswerStep DEF Begins
  <2>3. QED
    BY <1>1, <2>1, <2>2
<1>4. QED
  BY <1>2, <1>3

LEMMA NextInPieces ==
  ASSUME TypeOK, TypeOK', ClientInv, InPieces, [Next]_vars, ~mixed'
  PROVE  InPieces'
<1>0. /\ \A i, j \in 1..Len(pcm_queue) :
           i < j /\ pcm_queue[i].sn # pcm_queue[j].sn => BeginsIn(i, j)
      /\ \A j \in 1..Len(pcm_queue) : pcm_queue[j].sn # SnBefore => BeginsIn(0, j)
      /\ pcm_obj # None => pcm_obj.id = 1 \/ pcm_obj.sn = asr_result.sn
      /\ record_sn = SnFiled \/ \E c \in Clients : Current(c)
  BY PiecesAre
<1>n. Len(pcm_queue) \in Nat /\ (pcm_queue # << >> => Len(pcm_queue) > 0)
  BY EmptySeq, LenProperties DEF TypeOK
<1>1. ASSUME UNCHANGED <<pcm_queue, pcm_obj>>, ~Ends, \A c \in Clients : ~AddTail(c)
      PROVE  InPieces'
  <2>1. asr_result'.sn = asr_result.sn
    BY <1>1, AnswerStep DEF Begins
  <2>2. SnBefore' = SnBefore /\ SnFiled' = SnFiled
    BY <1>1, <2>1 DEF SnBefore, SnFiled
  <2>3. record_sn' = SnFiled \/ \E c \in Clients : Current(c)'
    BY <1>0, <1>1, CurrentStep
  <2>4. /\ \A i, j \in 1..Len(pcm_queue) : i < j /\ pcm_queue[i].sn # pcm_queue[j].sn =>
             \E k \in i + 1..j : pcm_queue[k].sn = pcm_queue[j].sn /\ pcm_queue[k].id = 1
        /\ \A j \in 1..Len(pcm_queue) : pcm_queue[j].sn # SnBefore =>
             \E k \in 1..j : pcm_queue[k].sn = pcm_queue[j].sn /\ pcm_queue[k].id = 1
        /\ pcm_obj # None => pcm_obj.id = 1 \/ pcm_obj.sn = asr_result.sn
    BY DEF InPieces
  <2>5. QED
    BY <1>1, <2>1, <2>2, <2>3, <2>4 DEF InPieces, Current
<1>2. ASSUME NEW c \in Clients, Files(c)
      PROVE  InPieces'
  <2> DEFINE x == hand[c]  n == Len(pcm_queue)
  <2>f. /\ x \in InHand /\ x \in Objects
        /\ n \in Nat /\ Len(pcm_queue') = n + 1
        /\ \A i \in 1..n : pcm_queue'[i] = pcm_queue[i]
        /\ pcm_queue'[n + 1] = x
        /\ pcm_queue' \in Seq(Objects)
        /\ UNCHANGED <<pcm_obj, record_sn, taskVars>>
        /\ mixed' = (mixed \/ record_sn # x.sn)
    BY <1>2, FilesFacts
  <2>r. record_sn = x.sn
    BY <2>f
  <2>c. \A d \in Clients : Current(d) => hand[d] = x /\ x.id = 1
    <3>1. ASSUME NEW d \in Clients, Current(d)
          PROVE  hand[d] = x /\ x.id = 1
      <4>1. Holding(d) /\ hand[d].sn = x.sn /\ hand[d].id = 1
        BY <2>r, <3>1 DEF Current, Holding
      <4>2. hand[d] \in InHand
        BY <4>1, HeldFacts
      <4>3. hand[d] = x
        BY <2>f, <4>1, <4>2, HeldApart
      <4>4. QED
        BY <4>1, <4>3
    <3>2. QED
      BY <3>1
  <2> HIDE DEF x, n
  <2>1. SnBefore' = SnBefore
    BY <2>f DEF SnBefore, taskVars
  <2>2. pcm_queue' # << >> /\ SnFiled' = x.sn
    <3>1. pcm_queue' # << >>
      BY <2>f
    <3>2. QED
      BY <2>f, <3>1 DEF SnFiled
  <2>3. ASSUME NEW i \in 1..Len(pcm_queue'), NEW j \in 1..Len(pcm_queue'), i < j,
               pcm_queue'[i].sn # pcm_queue'[j].sn
        PROVE  \E k \in i + 1..j : pcm_queue'[k].sn = pcm_queue'[j].sn /\ pcm_queue'[k].id = 1
    <3>1. i \in 1..n /\ pcm_queue'[i] = pcm_queue[i]
      BY <2>f, <2>3
    <3>2. CASE j \in 1..n
      <4>1. BeginsIn(i, j)
        BY <1>0, <2>f, <2>3, <3>1, <3>2 DEF n
      <4>2. PICK k \in i + 1..j : pcm_queue[k].sn = pcm_queue[j].sn /\ pcm_queue[k].id = 1
        BY <4>1 DEF BeginsIn
      <4>3. k \in 1..n
        BY <3>1, <3>2, <2>f
      <4>4. QED
        BY <2>f, <3>2, <4>2, <4>3
    <3>3. CASE j = n + 1
      <4>1. CASE record_sn = SnFiled
        <5>1. pcm_queue # << >>
          BY <3>1 DEF n
        <5>2. n \in 1..n /\ pcm_queue[n].sn = x.sn
          BY <1>n, <2>f, <2>r, <4>1, <5>1 DEF SnFiled, n
        <5>3. i < n
          BY <2>f, <2>3, <3>1, <3>3, <5>2
        <5>4. BeginsIn(i, n)
          BY <1>0, <2>f, <2>3, <3>1, <3>3, <5>2, <5>3 DEF n
        <5>5. PICK k \in i + 1..n : pcm_queue[k].sn = pcm_queue[n].sn /\ pcm_queue[k].id = 1
          BY <5>4 DEF BeginsIn
        <5>6. k \in 1..n /\ k \in i + 1..j
          BY <2>f, <3>1, <3>3
        <5>7. QED
          BY <2>f, <3>3, <5>2, <5>5, <5>6
      <4>2. CASE \E d \in Clients : Current(d)
        <5>1. x.id = 1
          BY <2>c, <4>2
        <5>2. j \in i + 1..j
          BY <2>3
        <5>3. QED
          BY <2>f, <3>3, <5>1, <5>2
      <4>3. QED
        BY <1>0, <4>1, <4>2
    <3>4. QED
      BY <2>f, <3>2, <3>3
  <2>4. ASSUME NEW j \in 1..Len(pcm_queue'), pcm_queue'[j].sn # SnBefore
        PROVE  \E k \in 1..j : pcm_queue'[k].sn = pcm_queue'[j].sn /\ pcm_queue'[k].id = 1
    <3>2. CASE j \in 1..n
      <4>1. BeginsIn(0, j)
        BY <1>0, <2>f, <2>4, <3>2 DEF n
      <4>2. PICK k \in 1..j : pcm_queue[k].sn = pcm_queue[j].sn /\ pcm_queue[k].id = 1
        BY <4>1 DEF BeginsIn
      <4>3. k \in 1..n
        BY <3>2, <2>f
      <4>4. QED
        BY <2>f, <3>2, <4>2, <4>3
    <3>3. CASE j = n + 1
      <4>1. CASE record_sn = SnFiled
        <5>1. pcm_queue # << >>
          BY <2>f, <2>r, <2>4, <3>3, <4>1 DEF SnFiled
        <5>2. n \in 1..n /\ pcm_queue[n].sn = x.sn
          BY <1>n, <2>f, <2>r, <4>1, <5>1 DEF SnFiled, n
        <5>4. BeginsIn(0, n)
          BY <1>0, <2>f, <2>4, <3>3, <5>2 DEF n
        <5>5. PICK k \in 1..n : pcm_queue[k].sn = pcm_queue[n].sn /\ pcm_queue[k].id = 1
          BY <5>4 DEF BeginsIn
        <5>6. k \in 1..j
          BY <2>f, <3>3
        <5>7. QED
          BY <2>f, <3>3, <5>2, <5>5, <5>6
      <4>2. CASE \E d \in Clients : Current(d)
        <5>1. x.id = 1 /\ j \in 1..j
          BY <2>c, <2>4, <4>2
        <5>3. QED
          BY <2>f, <3>3, <5>1
      <4>3. QED
        BY <1>0, <4>1, <4>2
    <3>4. QED
      BY <2>f, <3>2, <3>3
  <2>5. pcm_obj' # None => pcm_obj'.id = 1 \/ pcm_obj'.sn = asr_result'.sn
    BY <1>0, <2>f DEF taskVars
  <2>6. record_sn' = SnFiled'
    BY <2>f, <2>r, <2>2
  <2>7. QED
    BY <2>1, <2>3, <2>4, <2>5, <2>6 DEF InPieces
<1>3. CASE Takes
  <2> DEFINE n == Len(pcm_queue)
  <2>f. /\ pcm_queue # << >> /\ pcm_obj = None
        /\ n \in Nat \ {0} /\ Len(pcm_queue') = n - 1
        /\ pcm_obj' = pcm_queue[1] /\ pcm_obj' # None
        /\ pcm_queue' \in Seq(Objects)
        /\ \A i \in 1..(n - 1) : pcm_queue'[i] = pcm_queue[i + 1]
        /\ UNCHANGED <<pc, hand, record_sn, taskVars>>
    BY <1>3, TakesFacts
  <2> HIDE DEF n
  <2>1. SnBefore' = pcm_queue[1].sn /\ SnBefore = asr_result.sn /\ UNCHANGED asr_result
    BY <2>f DEF SnBefore, taskVars
  <2>2. SnFiled' = SnFiled
    <3>1. SnFiled = pcm_queue[n].sn
      BY <2>f DEF SnFiled, n
    <3>2. CASE n = 1
      <4>1. pcm_queue' = << >>
        BY <2>f, <3>2, EmptySeq
      <4>2. QED
        BY <2>1, <3>1, <3>2, <4>1 DEF SnFiled
    <3>3. CASE n # 1
      <4>1. pcm_queue' # << >> /\ n - 1 \in 1..(n - 1) /\ (n - 1) + 1 = n
        BY <2>f, <3>3
      <4>2. QED
        BY <2>f, <3>1, <4>1 DEF SnFiled
    <3>4. QED
      BY <3>2, <3>3
  <2>3. ASSUME NEW i \in 1..n, NEW j \in 1..(n - 1), i < j + 1,
               pcm_queue[i].sn # pcm_queue'[j].sn
        PROVE  \E k \in i..j : pcm_queue'[k].sn = pcm_queue'[j].sn /\ pcm_queue'[k].id = 1
    <3>1. j + 1 \in 1..n /\ pcm_queue'[j] = pcm_queue[j + 1]
      BY <2>f
    <3>2. BeginsIn(i, j + 1)
      BY <1>0, <2>3, <3>1 DEF n
    <3>3. PICK k \in i + 1..j + 1 : pcm_queue[k].sn = pcm_queue[j + 1].sn /\ pcm_queue[k].id = 1
      BY <3>2 DEF BeginsIn
    <3>4. k - 1 \in i..j /\ k - 1 \in 1..(n - 1) /\ (k - 1) + 1 = k
      BY <2>f
    <3>5. pcm_queue'[k - 1] = pcm_queue[k]
      BY <2>f, <3>4
    <3>6. QED
      BY <3>1, <3>3, <3>4, <3>5
  <2>4. ASSUME NEW i \in 1..Len(pcm_queue'), NEW j \in 1..Len(pcm_queue'), i < j,
               pcm_queue'[i].sn # pcm_queue'[j].sn
        PROVE  \E k \in i + 1..j : pcm_queue'[k].sn = pcm_queue'[j].sn /\ pcm_queue'[k].id = 1
    <3>1. i + 1 \in 1..n /\ j \in 1..(n - 1) /\ i + 1 < j + 1 /\ pcm_queue[i + 1] = pcm_queue'[i]
      BY <2>f, <2>4
    <3>2. QED
      BY <2>3, <2>4, <3>1
  <2>5. ASSUME NEW j \in 1..Len(pcm_queue'), pcm_queue'[j].sn # SnBefore'
        PROVE  \E k \in 1..j : pcm_queue'[k].sn = pcm_queue'[j].sn /\ pcm_queue'[k].id = 1
    <3>1. 1 \in 1..n /\ j \in 1..(n - 1) /\ 1 < j + 1
      BY <2>f, <2>5
    <3>2. QED
      BY <2>1, <2>3, <2>5, <3>1
  <2>6. pcm_obj'.id = 1 \/ pcm_obj'.sn = asr_result'.sn
    <3>1. 1 \in 1..Len(pcm_queue)
      BY <2>f DEF n
    <3>2. CASE pcm_queue[1].sn # SnBefore
      <4>1. BeginsIn(0, 1)
        BY <1>0, <3>1, <3>2
      <4>2. PICK k \in 0 + 1..1 : pcm_queue[k].sn = pcm_queue[1].sn /\ pcm_queue[k].id = 1
        BY <4>1 DEF BeginsIn
      <4>3. k = 1
        OBVIOUS
      <4>4. QED
        BY <2>f, <4>2, <4>3
    <3>3. QED
      BY <2>f, <2>1, <3>2
  <2>7. record_sn' = SnFiled' \/ \E c \in Clients : Current(c)'
    BY <1>0, <2>f, <2>2 DEF Current
  <2>8. QED
    BY <2>4, <2>5, <2>6, <2>7 DEF InPieces, Current
<1>4. CASE Ends
  <2>1. /\ pcm_obj' = None /\ pcm_obj # None /\ asr_result'.sn = pcm_obj.sn
        /\ UNCHANGED <<pc, hand, record_sn, pcm_queue>>
    BY <1>4, EndsAtItsOwn DEF Ends
  <2>2. SnBefore' = SnBefore /\ SnFiled' = SnFiled
    BY <2>1 DEF SnBefore, SnFiled
  <2>3. record_sn' = SnFiled' \/ \E c \in Clients : Current(c)'
    BY <1>0, <2>1, <2>2 DEF Current
  <2>4. /\ \A i, j \in 1..Len(pcm_queue) : i < j /\ pcm_queue[i].sn # pcm_queue[j].sn =>
             \E k \in i + 1..j : pcm_queue[k].sn = pcm_queue[j].sn /\ pcm_queue[k].id = 1
        /\ \A j \in 1..Len(pcm_queue) : pcm_queue[j].sn # SnBefore =>
             \E k \in 1..j : pcm_queue[k].sn = pcm_queue[j].sn /\ pcm_queue[k].id = 1
    BY DEF InPieces
  <2>5. QED
    BY <2>1, <2>2, <2>3, <2>4 DEF InPieces, Current
<1>5. QED
  <2>1. CASE Ends
    BY <1>4, <2>1
  <2>2. ASSUME NEW c \in Clients, AddTail(c)
        PROVE  InPieces'
    <3>1. Holding(c) /\ pc'[c] = "notify"
      BY <2>2 DEF AddTail, Step, Holding, TypeOK
    <3>2. /\ \A d \in Clients \ {c} : pc'[d] = pc[d] /\ hand'[d] = hand[d]
          /\ ~Holding(c)'
      BY <2>2, <3>1 DEF AddTail, Step, Holding, TypeOK
    <3>3. Files(c)
      BY <2>2, <3>1, <3>2, HoldingStep DEF Files
    <3>4. QED
      BY <1>2, <3>3
  <2>3. CASE ~Ends /\ \A c \in Clients : ~AddTail(c)
    <3>1. CASE Quiet \/ (\E c \in Clients : Refuses(c) \/ \E id : Makes(c, id))
      BY <1>1, <2>3, <3>1 DEF Quiet, Refuses, CheckFail, Makes
    <3>2. QED
      BY <1>3, <2>3, <3>1, SetsStep DEF Files
  <2>4. QED
    BY <2>1, <2>2, <2>3

-----------------------------------------------------------------------------
(* What the cloud was given                                                *)

\* What processing an object does to the session and to the result.
Becomes(e, t) ==
  /\ asr_result'.sn = asr_result.sn /\ asr_result'.error = e /\ asr_result'.text = t

Written ==
  /\ UNCHANGED results
  /\ \/ /\ pcm_obj.id = 1
        /\ asr_result' = [sn |-> pcm_obj.sn, error |-> "none", text |-> {}]
        /\ handle' = pcm_obj.sn /\ uploaded' = {pcm_obj}
     \/ /\ pcm_obj.id = 1 /\ asr_result' = Failed(pcm_obj.sn)
        /\ handle' = None /\ uploaded' = {}
     \/ /\ pcm_obj.id > 1 /\ handle # None /\ UNCHANGED <<handle, asr_result>>
        /\ uploaded' = uploaded \cup {pcm_obj}
     \/ /\ pcm_obj.id > 1 /\ Becomes("engine", asr_result.text)
        /\ handle' = None /\ uploaded' = {}
     \/ /\ pcm_obj.id > 1 /\ handle = None
        /\ UNCHANGED <<handle, uploaded, asr_result>>

Replied ==
  /\ pcm_obj.id < 0 /\ handle' = None /\ uploaded' = {}
  /\ results' = [results EXCEPT ![pcm_obj.sn] = Append(@, asr_result')]
  /\ \/ \E e \in {"short", "engine"} : Becomes(e, asr_result.text)
     \/ handle # None /\ Becomes("none", uploaded)
     \/ handle = None /\ asr_result' = asr_result

LEMMA EndsIs ==
  ASSUME TypeOK, Ends
  PROVE  Written \/ Replied
<1>r. asr_result \in [sn : 0..MaxSn, error : {"none", "engine", "short"}, text : SUBSET Objects]
  BY DEF TypeOK, Results
<1>e. ASSUME NEW e, asr_result' = [asr_result EXCEPT !.error = e]
      PROVE  Becomes(e, asr_result.text)
  BY <1>r, <1>e DEF Becomes
<1>f. ASSUME asr_result' = [asr_result EXCEPT !.error = "none", !.text = uploaded]
      PROVE  Becomes("none", uploaded)
  BY <1>r, <1>f DEF Becomes
<1>1. CASE ProcessStart
  BY <1>1 DEF ProcessStart, Written
<1>2. CASE ProcessRead
  BY <1>2, <1>e DEF ProcessRead, Written
<1>3. CASE ProcessShort
  <2>1. Becomes("short", asr_result.text)
    BY <1>3, <1>e DEF ProcessShort
  <2>2. QED
    BY <1>3, <2>1 DEF ProcessShort, Reply, Replied
<1>4. CASE ProcessStop
  <2>1. \/ Becomes("engine", asr_result.text)
        \/ handle # None /\ Becomes("none", uploaded)
        \/ handle = None /\ asr_result' = asr_result
    BY <1>4, <1>e, <1>f DEF ProcessStop
  <2>2. QED
    BY <1>4, <2>1 DEF ProcessStop, Reply, Replied
<1>5. QED
  BY <1>1, <1>2, <1>3, <1>4 DEF Ends, Process

LEMMA NoProcess ==
  ASSUME [Next]_vars, TypeOK
  PROVE  Ends \/ UNCHANGED taskVars
<1>1. ASSUME NEW c \in Clients, Client(c)
      PROVE  UNCHANGED taskVars
  BY <1>1 DEF Client, Record, GetFrame, GetEnd, Send, Classify, CheckPass, CheckFail, AddTail,
              Notify, NotifyFail
<1>2. RequestLost \/ TakeFirst => UNCHANGED taskVars
  BY DEF RequestLost, TakeFirst
<1>3. UNCHANGED vars => UNCHANGED taskVars
  BY DEF vars, taskVars
<1>4. QED
  BY <1>1, <1>2, <1>3, ProcessEnds DEF Next

LEMMA MadeGrows ==
  ASSUME TypeOK, ClientInv, [Next]_vars
  PROVE  made \subseteq made'
<1>1. \A c \in Clients : \A id : Makes(c, id) => made \subseteq made'
  BY DEF Makes
<1>2. QED
  BY <1>1, SetsStep DEF Quiet, Refuses, CheckFail, Files, AddTail, Takes, TakeFirst, Ends,
     seenVars

LEMMA NextOfOne ==
  ASSUME TypeOK, TypeOK', ClientInv, InPieces, OfOne, [Next]_vars
  PROVE  OfOne'
<1>0. /\ \A o \in uploaded : o \in made' /\ o.sn = asr_result.sn
      /\ \A o \in asr_result.text : o.sn = asr_result.sn
      /\ handle # None => handle = asr_result.sn
      /\ handle = None /\ asr_result.error = "none" /\ asr_result.sn # 0 =>
           results[asr_result.sn] # << >>
  BY MadeGrows DEF OfOne
<1>1. CASE UNCHANGED taskVars
  BY <1>0, <1>1 DEF OfOne, taskVars
<1>2. CASE Ends
  <2>1. /\ pcm_obj # None /\ pcm_obj \in Objects /\ asr_result'.sn = pcm_obj.sn
        /\ pcm_obj.sn \in Sn
    BY <1>2, EndsAtItsOwn, ObjectFacts
  <2>2. pcm_obj.id > 0 => pcm_obj \in made'
    BY <2>1, FiledFacts, MadeGrows DEF ClientInv
  <2>3. CASE Written
    <3>1. CASE pcm_obj.id = 1
      BY <2>1, <2>2, <2>3, <3>1 DEF Written, OfOne, Failed
    <3>2. CASE pcm_obj.id > 1
      <4>1. asr_result.sn = pcm_obj.sn
        BY <2>1, <3>2 DEF InPieces
      <4>2. \/ /\ handle' = handle /\ asr_result' = asr_result
               /\ uploaded' \in {uploaded, uploaded \cup {pcm_obj}}
            \/ /\ handle' = None /\ uploaded' = {} /\ asr_result'.sn = asr_result.sn
               /\ asr_result'.error = "engine" /\ asr_result'.text = asr_result.text
        BY <2>3, <3>2 DEF Written, Becomes
      <4>3. results' = results
        BY <2>3 DEF Written
      <4>4. CASE /\ handle' = handle /\ asr_result' = asr_result
                 /\ uploaded' \in {uploaded, uploaded \cup {pcm_obj}}
        <5>1. pcm_obj \in made'
          BY <2>1, <2>2, <3>2, ObjectFacts
        <5>2. \A o \in uploaded' : o \in made' /\ o.sn = asr_result'.sn
          BY <1>0, <4>1, <4>4, <5>1
        <5>3. QED
          BY <1>0, <4>3, <4>4, <5>2 DEF OfOne
      <4>5. CASE /\ handle' = None /\ uploaded' = {} /\ asr_result'.sn = asr_result.sn
                 /\ asr_result'.error = "engine" /\ asr_result'.text = asr_result.text
        BY <1>0, <4>5 DEF OfOne
      <4>6. QED
        BY <4>2, <4>4, <4>5
    <3>3. QED
      BY <2>3, <3>1, <3>2 DEF Written
  <2>4. CASE Replied
    <3>1. handle' = None /\ uploaded' = {}
      BY <2>4 DEF Replied
    <3>2. asr_result.sn = pcm_obj.sn
      BY <2>1, <2>4 DEF InPieces, Replied
    <3>3. asr_result'.text \in {asr_result.text, uploaded}
      BY <2>4 DEF Replied, Becomes
    <3>4. results'[pcm_obj.sn] # << >>
      <4>1. results'[pcm_obj.sn] = Append(results[pcm_obj.sn], asr_result')
        BY <2>1, <2>4 DEF Replied, TypeOK
      <4>2. results[pcm_obj.sn] \in Seq(Results) /\ asr_result' \in Results
        BY <2>1 DEF TypeOK
      <4>3. QED
        BY <4>1, <4>2, AppendPlaces
    <3>5. \A o \in asr_result'.text : o.sn = asr_result'.sn
      BY <1>0, <2>1, <3>2, <3>3
    <3>6. QED
      BY <2>1, <3>1, <3>4, <3>5 DEF OfOne
  <2>5. QED
    BY <1>2, <2>3, <2>4, EndsIs
<1>3. QED
  BY <1>1, <1>2, NoProcess

\* The recording that is current, or that has an object in the queue, has its first
\* object to come if it is not the one the service is at.
LEMMA FirstToCome ==
  ASSUME TypeOK, ClientInv, InPieces, NEW s \in Sn, s # SnBefore,
         record_sn = s \/ \E o \in Elems(pcm_queue) : o.sn = s
  PROVE  \E o \in Filed \cup InHand : o.sn = s /\ o.id = 1
<1>0. Len(pcm_queue) \in Nat /\ (pcm_queue # << >> => Len(pcm_queue) > 0)
  BY EmptySeq, LenProperties DEF TypeOK
<1>1. ASSUME NEW j \in 1..Len(pcm_queue), pcm_queue[j].sn = s
      PROVE  \E o \in Filed \cup InHand : o.sn = s /\ o.id = 1
  <2>1. BeginsIn(0, j)
    BY <1>1, PiecesAre
  <2>2. PICK k \in 1..j : pcm_queue[k].sn = pcm_queue[j].sn /\ pcm_queue[k].id = 1
    BY <2>1 DEF BeginsIn
  <2>3. k \in 1..Len(pcm_queue)
    BY <1>0
  <2>4. QED
    BY <1>1, <2>2, <2>3, FiledFacts
<1>2. CASE \E o \in Elems(pcm_queue) : o.sn = s
  BY <1>1, <1>2, FiledFacts
<1>3. CASE record_sn = s /\ record_sn = SnFiled
  <2>1. pcm_queue # << >>
    BY <1>3 DEF SnFiled
  <2>2. Len(pcm_queue) \in 1..Len(pcm_queue) /\ pcm_queue[Len(pcm_queue)].sn = s
    BY <1>0, <1>3, <2>1 DEF SnFiled
  <2>3. QED
    BY <1>1, <2>2
<1>4. ASSUME record_sn = s, NEW c \in Clients, Current(c)
      PROVE  \E o \in Filed \cup InHand : o.sn = s /\ o.id = 1
  <2>1. Holding(c) /\ hand[c].sn = s /\ hand[c].id = 1
    BY <1>4 DEF Current, Holding
  <2>2. QED
    BY <2>1, HeldFacts
<1>5. QED
  BY <1>2, <1>3, <1>4, PiecesAre

\* What becomes of the objects made of a recording that is current, or has its end filed.
Wanted(s) == record_sn = s \/ EndFiled(s)

LEMMA NextAllWritten ==
  ASSUME TypeOK, TypeOK', ClientInv, ClientInv', InOrder, HasBegun,
         InPieces, OfOne, AllWritten, [Next]_vars, ~mixed'
  PROVE  AllWritten'
<1> SUFFICES ASSUME NEW s \in Sn, Wanted(s)', (asr_result'.sn = s => handle' # None),
                    NEW o \in made', o.sn = s
             PROVE  o \in (uploaded \cup Filed \cup InHand)'
  BY DEF AllWritten, Wanted
<1>o. o \in Objects
  BY DEF TypeOK
<1>w. /\ asr_result.sn = s => handle # None
      /\ Wanted(s)
      /\ o \in made
      => o \in uploaded \cup Filed \cup InHand
  BY DEF AllWritten, Wanted
<1>1. CASE Ends
  <2>1. /\ pcm_obj # None /\ pcm_obj \in Objects /\ asr_result'.sn = pcm_obj.sn
        /\ pcm_obj \in Filed
    BY <1>1, EndsAtItsOwn, FiledFacts
  <2>2. /\ Filed' = Elems(pcm_queue) /\ InHand' = InHand /\ record_sn' = record_sn
        /\ Filed = Filed' \cup {pcm_obj} /\ made' = made
    BY <1>1 DEF Ends, Filed, seenVars
  <2>3. Wanted(s) /\ o \in made
    BY <2>2 DEF Wanted, EndFiled
  <2>4. ASSUME s # pcm_obj.sn
        PROVE  o \in (uploaded \cup Filed \cup InHand)'
    <3>1. pcm_obj # None => SnBefore = pcm_obj.sn
      BY DEF SnBefore
    <3>2. record_sn = s \/ \E p \in Elems(pcm_queue) : p.sn = s
      BY <2>2 DEF Wanted, EndFiled
    <3>3. \E p \in Filed \cup InHand : p.sn = s /\ p.id = 1
      BY <2>1, <2>4, <3>1, <3>2, FirstToCome
    <3>4. asr_result.sn # s
      BY <3>3 DEF HasBegun
    <3>5. o \in uploaded \cup Filed \cup InHand
      BY <1>w, <2>3, <3>4
    <3>6. o \notin uploaded /\ o # pcm_obj
      BY <2>4, <3>4 DEF OfOne
    <3>7. QED
      BY <2>2, <3>5, <3>6
  <2>5. ASSUME s = pcm_obj.sn
        PROVE  o \in (uploaded \cup Filed \cup InHand)'
    <3>1. handle' # None
      BY <2>1, <2>5
    <3>2. CASE pcm_obj.id = 1
      <4>1. asr_result.sn # s
        BY <2>1, <2>5, <3>2 DEF HasBegun
      <4>2. o \in Filed \cup InHand
        BY <1>w, <2>3, <4>1 DEF OfOne
      <4>3. uploaded' = {pcm_obj}
        BY <1>1, <3>1, <3>2, EndsIs DEF Written, Replied
      <4>4. QED
        BY <2>2, <4>2, <4>3
    <3>3. CASE pcm_obj.id > 1
      <4>1. uploaded' = uploaded \cup {pcm_obj} /\ handle # None
        BY <1>1, <3>1, <3>3, EndsIs DEF Written, Replied
      <4>2. o \in uploaded \cup Filed \cup InHand
        BY <1>w, <2>3, <4>1
      <4>3. QED
        BY <2>2, <4>1, <4>2
    <3>4. QED
      BY <1>1, <3>1, <3>2, <3>3, EndsIs DEF Written, Replied
  <2>6. QED
    BY <2>4, <2>5
<1>2. CASE UNCHANGED taskVars /\ ~Ends
  <2>0. asr_result' = asr_result /\ handle' = handle /\ uploaded' = uploaded
    BY <1>2 DEF taskVars
  <2>1. CASE Quiet
    <3>1. Filed' = Filed /\ InHand' = InHand /\ made' = made
      BY <2>1 DEF Quiet, Filed
    <3>2. CASE record_sn' = record_sn
      <4>1. Wanted(s)
        BY <3>1, <3>2 DEF Wanted, EndFiled
      <4>2. QED
        BY <1>w, <2>0, <3>1, <4>1
    <3>3. CASE record_sn' # record_sn
      <4>1. PICK c \in Clients : /\ Classify(c) /\ record_sn' = hand[c].sn /\ hand[c].id = 1
        <5>1. \E c \in Clients : Classify(c)
          BY <1>2, <3>3, ProcessEnds DEF Next, vars, Client, Record, GetFrame, GetEnd, Send,
             CheckPass, CheckFail, AddTail, Notify, NotifyFail, RequestLost, TakeFirst
        <5>2. QED
          BY <3>3, <5>1 DEF Classify
      <4>2. CASE s = hand[c].sn
        <5>1. /\ pc[c] # "idle" /\ hand[c] \in InHand /\ hand[c] \in Objects
              /\ hand[c].by = c /\ hand[c].sn = stream[c].sn
          BY <4>1, HeldFacts DEF Classify, Step, Holding
        <5>2. hand[c].id = stream[c].n
          BY <4>1, <5>1 DEF ClientInv
        <5>3. Issued(o) /\ o.id > 0
          BY <3>1 DEF ClientInv
        <5>4. o.by = c
          BY <4>2, <5>1, <5>3 DEF Issued
        <5>5. o.id <= 1
          BY <4>1, <4>2, <5>1, <5>2, <5>3, <5>4 DEF Issued
        <5>6. o.id = 1
          BY <1>o, <5>3, <5>5, ObjectFacts
        <5>7. o = hand[c]
          BY <1>o, <4>1, <4>2, <5>1, <5>4, <5>6, SameObject
        <5>8. QED
          BY <3>1, <5>1, <5>7
      <4>3. CASE s # hand[c].sn
        <5>1. Wanted(s)
          BY <3>1, <4>1, <4>3 DEF Wanted, EndFiled
        <5>2. QED
          BY <1>w, <2>0, <3>1, <5>1
      <4>4. QED
        BY <4>2, <4>3
    <3>4. QED
      BY <3>2, <3>3
  <2>2. ASSUME NEW c \in Clients, Refuses(c)
        PROVE  o \in (uploaded \cup Filed \cup InHand)'
    <3>1. /\ Filed' = Filed /\ InHand' = InHand \ {hand[c]} /\ hand[c] \in InHand
          /\ record_sn' = record_sn /\ made' = made /\ record_sn # hand[c].sn
      BY <2>2 DEF Refuses, CheckFail, Filed, seenVars
    <3>2. Wanted(s)
      BY <3>1 DEF Wanted, EndFiled
    <3>3. o \in uploaded \cup Filed \cup InHand
      BY <1>w, <2>0, <3>1, <3>2
    <3>4. ASSUME s = hand[c].sn PROVE FALSE
      <4>1. PICK e \in Filed : e.sn = s /\ e.id < 0
        BY <3>1, <3>2, <3>4 DEF Wanted, EndFiled
      <4>2. Before(e, hand[c])
        BY <3>1 DEF InOrder
      <4>3. e \in Objects
        BY FiledFacts
      <4>4. QED
        BY <3>4, <4>1, <4>2, <4>3, ObjectFacts DEF Before
    <3>5. QED
      BY <2>0, <3>1, <3>3, <3>4
  <2>3. ASSUME NEW c \in Clients, Files(c)
        PROVE  o \in (uploaded \cup Filed \cup InHand)'
    <3>1. /\ Filed' = Filed \cup {hand[c]} /\ InHand' = InHand \ {hand[c]}
          /\ record_sn' = record_sn /\ made' = made
          /\ mixed' = (mixed \/ record_sn # hand[c].sn)
      BY <2>3, FilesFacts
    <3>2. record_sn = hand[c].sn
      BY <3>1
    <3>3. Wanted(s)
      BY <3>1, <3>2 DEF Wanted, EndFiled
    <3>4. QED
      BY <1>w, <2>0, <3>1, <3>3
  <2>4. ASSUME NEW c \in Clients, NEW id, Makes(c, id)
        PROVE  o \in (uploaded \cup Filed \cup InHand)'
    <3>1. /\ Filed' = Filed /\ InHand' = InHand \cup {ObjectOf(c, id)}
          /\ record_sn' = record_sn
          /\ made' = made \/ made' = made \cup {ObjectOf(c, id)}
      BY <2>4 DEF Makes, Filed
    <3>2. Wanted(s)
      BY <3>1 DEF Wanted, EndFiled
    <3>3. QED
      BY <1>w, <2>0, <3>1, <3>2
  <2>5. CASE Takes
    <3>1. /\ Filed' = Filed /\ InHand' = InHand /\ record_sn' = record_sn
          /\ made' = made
      BY <2>5, TakesFacts DEF seenVars
    <3>2. Wanted(s)
      BY <3>1 DEF Wanted, EndFiled
    <3>3. QED
      BY <1>w, <2>0, <3>1, <3>2
  <2>6. QED
    BY <1>2, <2>1, <2>2, <2>3, <2>4, <2>5, SetsStep
<1>3. QED
  BY <1>1, <1>2, NoProcess

LEMMA NextAnswersRight ==
  ASSUME TypeOK, TypeOK', ClientInv, InOrder, AnswerEnds, InPieces, OfOne, OfOne', AllWritten,
         [Next]_vars, ResultIsOwn, ResultIsWhole, ~mixed
  PROVE  ResultIsOwn' /\ ResultIsWhole'
<1>0. \A s \in Sn : \A r \in Elems(results[s]) :
        /\ r.sn = s /\ \A o \in r.text : o.sn = s
        /\ r.error = "none" => r.text = {o \in made : o.sn = s}
  BY DEF ResultIsOwn, ResultIsWhole
<1>m. ASSUME NEW s \in Sn, results[s] # << >>
      PROVE  {o \in made' : o.sn = s} = {o \in made : o.sn = s}
  <2>1. \A c \in Clients : stream[c].sn = s => ~stream[c].live
    BY <1>m DEF AnswerEnds, IsAnswered
  <2>2. ASSUME NEW o \in made', o.sn = s PROVE o \in made
    <3>1. ASSUME NEW c \in Clients, NEW id, Makes(c, id), o = ObjectOf(c, id) PROVE FALSE
      <4>1. o.sn = stream[c].sn
        BY <3>1, NewIssued
      <4>2. QED
        BY <2>1, <2>2, <3>1, <4>1 DEF Makes
    <3>2. QED
      BY <3>1, PlacesStep
  <2>3. QED
    BY <2>2, MadeGrows
<1>1. SUFFICES ASSUME NEW s \in Sn, NEW r \in Elems(results'[s])
               PROVE  /\ r.sn = s /\ \A o \in r.text : o.sn = s
                      /\ r.error = "none" => r.text = {o \in made' : o.sn = s}
  BY DEF ResultIsOwn, ResultIsWhole
<1>2. CASE r \in Elems(results[s])
  <2>1. results[s] # << >>
    BY <1>2, ElemsEmpty
  <2>2. QED
    BY <1>0, <1>2, <1>m, <2>1
<1>3. CASE r \notin Elems(results[s])
  <2>1. Ends /\ Replied /\ s = pcm_obj.sn /\ r = asr_result'
    <3>1. results'[s] # results[s]
      BY <1>3
    <3>2. Ends
      BY <3>1, NoProcess DEF taskVars
    <3>3. Replied
      BY <3>1, <3>2, EndsIs DEF Written
    <3>4. s = pcm_obj.sn /\ results'[s] = Append(results[s], asr_result')
      BY <3>1, <3>3 DEF Replied, TypeOK
    <3>5. results[s] \in Seq(Results) /\ asr_result' \in Results
      BY DEF TypeOK
    <3>6. Elems(results'[s]) = Elems(results[s]) \cup {asr_result'}
      BY <3>4, <3>5, AppendFacts
    <3>7. QED
      BY <1>3, <3>2, <3>3, <3>4, <3>6
  <2>2. /\ asr_result'.sn = s /\ pcm_obj # None /\ pcm_obj \in Objects /\ pcm_obj \in Filed
        /\ pcm_obj.id < 0
    BY <2>1, EndsAtItsOwn, FiledFacts DEF Replied
  <2>3. asr_result.sn = s
    BY <2>1, <2>2 DEF InPieces
  <2>4. \A o \in r.text : o.sn = s
    BY <2>1, <2>2 DEF OfOne
  <2>5. made' = made
    BY <2>1 DEF Ends, seenVars
  <2>6. ASSUME r.error = "none"
        PROVE  handle # None /\ r.text = uploaded
    <3>1. ASSUME handle = None, asr_result.error = "none" PROVE FALSE
      <4>1. results[s] # << >>
        BY <2>3, <3>1 DEF OfOne, Sn
      <4>2. IsAnswered(s)
        BY <4>1 DEF AnswerEnds
      <4>3. QED
        BY <2>1, <2>2, <4>2 DEF IsAnswered
    <3>2. QED
      BY <2>1, <2>6, <3>1 DEF Replied, Becomes
  <2>7. ASSUME r.error = "none"
        PROVE  r.text = {o \in made : o.sn = s}
    <3>1. uploaded \subseteq {o \in made : o.sn = s}
      BY <2>3 DEF OfOne
    <3>2. ASSUME NEW o \in made, o.sn = s
          PROVE  o \in uploaded
      <4>1. EndFiled(s)
        BY <2>1, <2>2 DEF EndFiled
      <4>2. o \in uploaded \cup Filed \cup InHand
        BY <2>6, <2>7, <3>2, <4>1 DEF AllWritten
      <4>3. o # pcm_obj
        BY <2>2, ObjectFacts DEF ClientInv
      <4>4. ASSUME o \in Elems(pcm_queue) \cup InHand PROVE FALSE
        <5>1. Before(pcm_obj, o)
          BY <2>2, <4>4 DEF InOrder
        <5>2. QED
          BY <2>1, <2>2, <3>2, <5>1, ObjectFacts DEF Before
      <4>5. QED
        BY <4>2, <4>3, <4>4 DEF Filed
    <3>3. QED
      BY <2>6, <2>7, <3>1, <3>2
  <2>8. QED
    BY <2>1, <2>2, <2>4, <2>5, <2>7
<1>4. QED
  BY <1>2, <1>3

-----------------------------------------------------------------------------
(* The theorems                                                            *)

LEMMA InitAsrInv ==
  ASSUME Init
  PROVE  AsrInv
<1>1. NothingLost /\ TypeOK
  BY InitNothingLost DEF NothingLost
<1>2. /\ pcm_queue = << >> /\ Len(pcm_queue) = 0 /\ Elems(pcm_queue) = {} /\ pcm_obj = None
      /\ Filed = {} /\ InHand = {} /\ made = {} /\ uploaded = {} /\ handle = None
      /\ asr_result.sn = 0 /\ asr_result.text = {} /\ last_sn = 0 /\ record_sn = 0
      /\ \A s \in Sn : results[s] = << >>
      /\ \A c \in Clients : pc[c] = "idle" /\ stream[c].sn = 0 /\ ~stream[c].live
  BY ElemsEmpty DEF Init, Filed, InHand
<1>3. ClientInv
  BY <1>2 DEF ClientInv
<1>4. InOrder
  BY <1>2 DEF InOrder
<1>5. AnswerEnds
  BY <1>2 DEF AnswerEnds
<1>6. HasBegun
  BY <1>2 DEF HasBegun
<1>7. ResultsAreRight
  BY <1>2, ElemsEmpty DEF ResultsAreRight, ResultOnce, WrongOnlyIfMixed, ResultIsOwn,
     ResultIsWhole
<1>8. InPieces
  BY <1>2 DEF InPieces, SnBefore, SnFiled
<1>9. OfOne
  BY <1>2 DEF OfOne
<1>10. AllWritten
  BY <1>2 DEF AllWritten
<1>11. QED
  BY <1>1, <1>3, <1>4, <1>5, <1>6, <1>7, <1>8, <1>9, <1>10 DEF AsrInv

LEMMA NextAsrInv ==
  ASSUME AsrInv, [Next]_vars
  PROVE  AsrInv'
<1>0. /\ NothingLost /\ ResultsAreRight /\ ClientInv /\ InOrder /\ AnswerEnds /\ HasBegun
      /\ mixed \/ (InPieces /\ OfOne /\ AllWritten)
      /\ TypeOK
  BY DEF AsrInv, NothingLost
<1>1. NothingLost' /\ TypeOK'
  BY <1>0, NextNothingLost DEF NothingLost
<1>2. ClientInv'
  BY <1>0, <1>1, NextClientInv
<1>3. InOrder' /\ AnswerEnds' /\ HasBegun'
  BY <1>0, <1>1, NextInOrder, NextAnswerEnds, NextHasBegun
<1>4. ResultOnce'
  BY <1>3 DEF AnswerEnds, IsAnswered, ResultOnce, Filed
<1>5. CASE mixed'
  BY <1>1, <1>2, <1>3, <1>4, <1>5 DEF AsrInv, ResultsAreRight, WrongOnlyIfMixed, ResultIsWhole
<1>6. CASE ~mixed'
  <2>1. ~mixed
    BY <1>0, <1>6, MixedStays
  <2>2. InPieces' /\ OfOne' /\ AllWritten'
    BY <1>0, <1>1, <1>2, <1>6, <2>1, NextInPieces, NextOfOne, NextAllWritten
  <2>3. ResultIsOwn' /\ ResultIsWhole'
    BY <1>0, <1>1, <2>1, <2>2, NextAnswersRight DEF ResultsAreRight, WrongOnlyIfMixed
  <2>4. QED
    BY <1>1, <1>2, <1>3, <1>4, <2>2, <2>3 DEF AsrInv, ResultsAreRight, WrongOnlyIfMixed
<1>7. QED
  BY <1>5, <1>6

LEMMA AsrInvAlways == Spec => []AsrInv
<1>1. Init => AsrInv
  BY InitAsrInv
<1>2. AsrInv /\ [Next]_vars => AsrInv'
  BY NextAsrInv
<1>3. QED
  BY <1>1, <1>2, PTL DEF Spec

\* Whatever fails and whoever interrupts whom, every object of a request has one owner,
\* there are as many requests on their way as objects in pcm_queue (but for the copies
\* the bus dropped), and the one session open with the cloud is the one dcl_asr_handle
\* is for.
THEOREM NothingIsLost == Spec => []NothingLost
<1>1. AsrInv => NothingLost
  BY DEF AsrInv
<1>2. QED
  BY <1>1, AsrInvAlways, PTL

\* asr_call_back is called once at most for each recording, with its own number and the
\* text of the whole of its own audio, unless an object was compared with record_sn
\* before another recording began and filed after it.
THEOREM ResultsRight == Spec => []ResultsAreRight
<1>1. AsrInv => ResultsAreRight
  BY DEF AsrInv
<1>2. QED
  BY <1>1, AsrInvAlways, PTL

=============================================================================
