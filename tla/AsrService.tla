----------------------------- MODULE AsrService -----------------------------
(***************************************************************************)
(* components/dcl_service/asr_service.c: speech recognition for the clients *)
(* that record.  A client (free talk in its own task, wechat in the AIP     *)
(* task) wraps every frame of a recording in a heap object and passes it to *)
(* asr_service_send_request(), which files it in pcm_queue and posts a      *)
(* NEW_REQUEST; the ASR task takes one object per request.  A recording's   *)
(* first object begins a session with the cloud, the others write to it,    *)
(* the last one asks for the result and calls the client back.              *)
(*                                                                          *)
(* Frames arrive as AipRecorder's CallbackProtocol says.  The cloud is the  *)
(* set of sessions open with it and what each call may answer; whether the  *)
(* audio is encoded and batched before it is written is left out.           *)
(***************************************************************************)
EXTENDS Integers, Sequences, FiniteSets, Queues

CONSTANTS
  Clients,        \* tasks that send requests
  None,           \* the null pointer
  MaxSn,          \* bound: number of recordings
  MaxFrames,      \* bound: frames of a recording
  MinFrames,      \* ASR_MIN_AUDIO_MS, in frames
  MallocMayFail,  \* TRUE: a client may fail to allocate an object
  EngineMayFail,  \* TRUE: the cloud may refuse or drop a session
  BusMayFail,     \* TRUE: app_send_message may fail
  MaxLost         \* bound: copies the bus drops after app_send_message succeeded

Sn == 1..MaxSn
Frames == 1..MaxFrames
Last == {-(n + 1) : n \in 0..MaxFrames}

\* ASR_PCM_OBJECT_t: no two calls build equal ones, so it is its own address
Objects == [by : Clients, sn : Sn, id : Frames \cup Last]

Results == [sn : 0..MaxSn, error : {"none", "engine", "short"}, text : SUBSET Objects]

ASSUME ClientsAssumption == IsFiniteSet(Clients)
ASSUME NoneAssumption == None \notin Sn \cup Objects \cup Results
ASSUME BoundAssumption == MaxSn \in Nat /\ MaxFrames \in Nat /\ MinFrames \in Nat
ASSUME FailAssumption ==
  /\ MallocMayFail \in BOOLEAN
  /\ EngineMayFail \in BOOLEAN
  /\ BusMayFail \in BOOLEAN /\ MaxLost \in Nat

VARIABLES
  last_sn,     \* the last number the AIP service gave to a recording
  stream,      \* the recording of each client: [sn, n frames, live]
  pc,          \* where each client is in asr_service_send_request
  hand,        \* the object that call is about
  heap,        \* objects allocated and not freed
  record_sn,   \* the static variable of asr_service_send_request
  pcm_queue,   \* objects to process
  requests,    \* NEW_REQUEST messages on their way to the ASR task
  pcm_obj,     \* the object the ASR task has taken
  handle,      \* dcl_asr_handle, named by the recording it was begun for
  open,        \* sessions open with the cloud
  uploaded,    \* what was written to the session of handle
  asr_result,  \* result under construction
  results,     \* observer: what the callback of each recording was given, in turn
  lost,        \* observer: how many copies the bus has dropped
  mixed,       \* observer: an object was filed when its recording was not current
  made         \* observer: the objects the clients made of frames

clientVars == <<last_sn, stream>>
taskVars == <<handle, open, uploaded, asr_result, results>>
seenVars == <<lost, mixed, made>>
vars == <<last_sn, stream, pc, hand, heap, record_sn, pcm_queue, requests, pcm_obj,
          handle, open, uploaded, asr_result, results, lost, mixed, made>>

Init ==
  /\ last_sn = 0
  /\ stream = [c \in Clients |-> [sn |-> 0, n |-> 0, live |-> FALSE]]
  /\ pc = [c \in Clients |-> "idle"]
  /\ hand = [c \in Clients |-> None]
  /\ heap = {}
  /\ record_sn = 0
  /\ pcm_queue = << >>
  /\ requests = 0
  /\ pcm_obj = None
  /\ handle = None
  /\ open = {}
  /\ uploaded = {}
  /\ asr_result = [sn |-> 0, error |-> "none", text |-> {}]
  /\ results = [s \in Sn |-> << >>]
  /\ lost = 0
  /\ mixed = FALSE
  /\ made = {}

-----------------------------------------------------------------------------
(* A client                                                                 *)

\* the AIP service opens a recording for the client
Record(c) ==
  /\ pc[c] = "idle"
  /\ ~stream[c].live
  /\ last_sn < MaxSn
  /\ last_sn' = last_sn + 1
  /\ stream' = [stream EXCEPT ![c] = [sn |-> last_sn + 1, n |-> 0, live |-> TRUE]]
  /\ UNCHANGED <<pc, hand, heap, record_sn, pcm_queue, requests, pcm_obj, taskVars, seenVars>>

\* the client makes an object of what the recording gave it, when it can
NewObject(c, id) ==
  LET o == [by |-> c, sn |-> stream[c].sn, id |-> id]
  IN  \/ /\ heap' = heap \cup {o}
         /\ hand' = [hand EXCEPT ![c] = o]
         /\ pc' = [pc EXCEPT ![c] = "classify"]
         /\ made' = IF id > 0 THEN made \cup {o} ELSE made
      \/ /\ MallocMayFail
         /\ UNCHANGED <<heap, hand, pc, made>>

GetFrame(c) ==
  /\ pc[c] = "idle"
  /\ stream[c].live /\ stream[c].n < MaxFrames
  /\ stream' = [stream EXCEPT ![c].n = @ + 1]
  /\ NewObject(c, stream[c].n + 1)
  /\ UNCHANGED <<last_sn, record_sn, pcm_queue, requests, pcm_obj, taskVars, lost, mixed>>

GetEnd(c) ==
  /\ pc[c] = "idle"
  /\ stream[c].live
  /\ stream' = [stream EXCEPT ![c].live = FALSE]
  /\ NewObject(c, -(stream[c].n + 1))
  /\ UNCHANGED <<last_sn, record_sn, pcm_queue, requests, pcm_obj, taskVars, lost, mixed>>

-----------------------------------------------------------------------------
(* asr_service_send_request                                                 *)

Step(c, from, to) == pc[c] = from /\ pc' = [pc EXCEPT ![c] = to]

\* under mutex_lock: a first object names the current recording
Classify(c) ==
  /\ Step(c, "classify", "check")
  /\ record_sn' = IF hand[c].id = 1 THEN hand[c].sn ELSE record_sn
  /\ UNCHANGED <<clientVars, hand, heap, pcm_queue, requests, pcm_obj, taskVars, seenVars>>

\* after the unlock: an object of another recording is refused...
CheckPass(c) ==
  /\ Step(c, "check", "add")
  /\ record_sn = hand[c].sn
  /\ UNCHANGED <<clientVars, hand, heap, record_sn, pcm_queue, requests, pcm_obj, taskVars, seenVars>>

\* Variant: the object is refused and nobody frees it.
CheckFail_Leak(c) ==
  /\ Step(c, "check", "idle")
  /\ record_sn # hand[c].sn
  /\ hand' = [hand EXCEPT ![c] = None]
  /\ UNCHANGED <<clientVars, heap, record_sn, pcm_queue, requests, pcm_obj, taskVars, seenVars>>

\* ...and freed by the client
CheckFail(c) ==
  /\ Step(c, "check", "idle")
  /\ record_sn # hand[c].sn
  /\ heap' = heap \ {hand[c]}
  /\ hand' = [hand EXCEPT ![c] = None]
  /\ UNCHANGED <<clientVars, record_sn, pcm_queue, requests, pcm_obj, taskVars, seenVars>>

\* pcm_queue_add_tail
AddTail(c) ==
  /\ Step(c, "add", "notify")
  /\ pcm_queue' = Append(pcm_queue, hand[c])
  /\ mixed' = (mixed \/ record_sn # hand[c].sn)
  /\ UNCHANGED <<clientVars, hand, heap, record_sn, requests, pcm_obj, taskVars, lost, made>>

\* app_send_message
Notify(c) ==
  /\ Step(c, "notify", "idle")
  /\ requests' = requests + 1
  /\ hand' = [hand EXCEPT ![c] = None]
  /\ UNCHANGED <<clientVars, heap, record_sn, pcm_queue, pcm_obj, taskVars, seenVars>>

\* app_send_message failed: so does the call, and the client frees the object,
\* which the queue still has unless another request served it.  A client that
\* frees what the service has freed already keeps it in hand.
NotifyFail(c) ==
  /\ BusMayFail
  /\ Step(c, "notify", "idle")
  /\ heap' = heap \ {hand[c]}
  /\ hand' = [hand EXCEPT ![c] = IF hand[c] \in heap THEN None ELSE @]
  /\ UNCHANGED <<clientVars, record_sn, pcm_queue, requests, pcm_obj, taskVars, seenVars>>

-----------------------------------------------------------------------------
(* The ASR task: asr_service_event_callback                                 *)

\* the bus dropped the copy for the ASR service
RequestLost ==
  /\ lost < MaxLost
  /\ requests > 0
  /\ requests' = requests - 1
  /\ lost' = lost + 1
  /\ UNCHANGED <<clientVars, pc, hand, heap, record_sn, pcm_queue, pcm_obj, taskVars, mixed, made>>

TakeFirst ==
  /\ pcm_obj = None
  /\ requests > 0
  /\ requests' = requests - 1
  /\ IF pcm_queue = << >>
       THEN UNCHANGED <<pcm_queue, pcm_obj>>
       ELSE pcm_obj' = Head(pcm_queue) /\ pcm_queue' = Tail(pcm_queue)
  /\ UNCHANGED <<clientVars, pc, hand, heap, record_sn, taskVars, seenVars>>

\* asr_service_del_asr_object
Release ==
  /\ heap' = heap \ {pcm_obj}
  /\ pcm_obj' = None
  /\ UNCHANGED <<clientVars, pc, hand, record_sn, pcm_queue, requests, seenVars>>

Failed(s) == [sn |-> s, error |-> "engine", text |-> {}]

\* dcl_asr_session_end when dcl_asr_handle is not NULL
Remaining == open \ {handle}

\* ASR_SERVICE_RECORD_START: asr_rec_begin, then asr_rec_runing
ProcessStart ==
  /\ pcm_obj # None /\ pcm_obj.id = 1
  /\ \/ /\ handle' = pcm_obj.sn
        /\ open' = Remaining \cup {pcm_obj.sn}
        /\ uploaded' = {pcm_obj}
        /\ asr_result' = [sn |-> pcm_obj.sn, error |-> "none", text |-> {}]
     \/ /\ EngineMayFail    \* begin failed twice, or begin and then the write failed
        /\ handle' = None
        /\ open' = Remaining
        /\ uploaded' = {}
        /\ asr_result' = Failed(pcm_obj.sn)
  /\ Release
  /\ UNCHANGED results

\* ASR_SERVICE_RECORD_READ: asr_rec_runing
ProcessRead ==
  /\ pcm_obj # None /\ pcm_obj.id > 1
  /\ \/ /\ handle # None
        /\ uploaded' = uploaded \cup {pcm_obj}
        /\ UNCHANGED <<handle, open, asr_result>>
     \/ /\ EngineMayFail    \* the write failed, the session is over
        /\ handle # None
        /\ handle' = None
        /\ open' = Remaining
        /\ uploaded' = {}
        /\ asr_result' = [asr_result EXCEPT !.error = "engine"]
     \/ /\ handle = None
        /\ UNCHANGED <<handle, open, uploaded, asr_result>>
  /\ Release
  /\ UNCHANGED results

\* record_ms < ASR_MIN_AUDIO_MS, for the total the last object carries
Short == -(pcm_obj.id) - 1 < MinFrames

\* asr_call_back(asr_result), after the session was ended
Reply ==
  /\ results' = [results EXCEPT ![pcm_obj.sn] = Append(@, asr_result')]
  /\ open' = Remaining
  /\ handle' = None
  /\ uploaded' = {}

\* Variant: without the break, asr_rec_end calls back as well.
ProcessShort_NoBreak ==
  /\ pcm_obj # None /\ pcm_obj.id < 0
  /\ Short
  /\ asr_result' = [asr_result EXCEPT !.error = "short"]
  /\ results' = [results EXCEPT ![pcm_obj.sn] = @ \o <<asr_result', asr_result'>>]
  /\ open' = Remaining
  /\ handle' = None
  /\ uploaded' = {}
  /\ Release

ProcessShort ==
  /\ pcm_obj # None /\ pcm_obj.id < 0
  /\ Short
  /\ asr_result' = [asr_result EXCEPT !.error = "short"]
  /\ Reply
  /\ Release

\* Variant: no callback without a session to ask.
ProcessStop_Silent ==
  /\ pcm_obj # None /\ pcm_obj.id < 0
  /\ ~Short
  /\ \/ /\ handle # None
        /\ asr_result' = [asr_result EXCEPT !.error = "none", !.text = uploaded]
        /\ Reply
     \/ /\ handle = None
        /\ UNCHANGED taskVars
  /\ Release

\* ASR_SERVICE_RECORD_STOP: asr_rec_end
ProcessStop ==
  /\ pcm_obj # None /\ pcm_obj.id < 0
  /\ ~Short
  /\ \/ /\ handle # None
        /\ asr_result' = [asr_result EXCEPT !.error = "none", !.text = uploaded]
     \/ /\ EngineMayFail
        /\ handle # None
        /\ asr_result' = [asr_result EXCEPT !.error = "engine"]
     \/ /\ handle = None
        /\ UNCHANGED asr_result
  /\ Reply
  /\ Release

-----------------------------------------------------------------------------
Send(c) == Classify(c) \/ CheckPass(c) \/ CheckFail(c) \/ AddTail(c) \/ Notify(c)

Client(c) == Record(c) \/ GetFrame(c) \/ GetEnd(c) \/ Send(c) \/ NotifyFail(c)

Process == ProcessStart \/ ProcessRead \/ ProcessShort \/ ProcessStop

\* A freed object that is linked in pcm_queue, or in the ASR task's hands, is
\* used and freed again, and a client may do the same: what follows is undefined,
\* and the model stops in that state.
Defined ==
  /\ Elems(pcm_queue) \cup ({pcm_obj} \ {None}) \subseteq heap
  /\ \A c \in Clients : pc[c] = "idle" => hand[c] = None

Next == /\ Defined
        /\ \/ \E c \in Clients : Client(c)
           \/ RequestLost \/ TakeFirst \/ Process

Spec == Init /\ [][Next]_vars

\* The ASR task takes its messages and returns from each; a client that called
\* asr_service_send_request gets on with it.
FairSpec == /\ Spec
            /\ WF_vars(TakeFirst) /\ WF_vars(Process)
            /\ \A c \in Clients : WF_vars(Send(c))

-----------------------------------------------------------------------------
(* Properties                                                               *)

\* Type invariant.
TypeOK ==
  /\ last_sn \in 0..MaxSn
  /\ stream \in [Clients -> [sn : 0..MaxSn, n : 0..MaxFrames, live : BOOLEAN]]
  /\ pc \in [Clients -> {"idle", "classify", "check", "add", "notify"}]
  /\ hand \in [Clients -> Objects \cup {None}]
  /\ heap \subseteq Objects
  /\ record_sn \in 0..MaxSn
  /\ pcm_queue \in Seq(Objects)
  /\ requests \in Nat
  /\ pcm_obj \in Objects \cup {None}
  /\ handle \in Sn \cup {None}
  /\ open \subseteq Sn
  /\ uploaded \subseteq Objects
  /\ asr_result \in Results
  /\ results \in [Sn -> Seq(Results)]
  /\ lost \in 0..MaxLost
  /\ mixed \in BOOLEAN
  /\ made \subseteq Objects

\* Objects a client still owns: after pcm_queue_add_tail the queue does.
InHand == {hand[c] : c \in {d \in Clients : pc[d] \in {"classify", "check", "add"}}}

\* An object is freed once, by the client when its request was refused and by
\* the service when it has processed it; what is in the queue or in the ASR
\* task's hands is allocated, and what is allocated is in one place.  The one
\* exception is a refused app_send_message.
ObjectOwnership ==
  Defined =>
    /\ heap = InHand \cup Elems(pcm_queue) \cup ({pcm_obj} \ {None})
    /\ NoRepeat(pcm_queue)
    /\ InHand \cap Elems(pcm_queue) = {}
    /\ pcm_obj \notin InHand \cup Elems(pcm_queue)

\* There are as many requests on their way as objects in the queue, so that none
\* is left behind in it but for the copies the bus has dropped: a service that
\* takes one object per message has no other way to come back to it.
NoneStranded ==
  Defined => Len(pcm_queue) = requests + lost + Cardinality({c \in Clients : pc[c] = "notify"})

\* No session is left open with the cloud other than the one the service holds,
\* whatever interrupts a recording.
NoSessionLeak == open = {handle} \ {None}

\* A recording's callback is called once at most, and when it is, nothing of that
\* recording is left to process or to send.
ResultOnce ==
  \A s \in Sn : results[s] # << >> =>
     /\ Len(results[s]) = 1
     /\ \A o \in Elems(pcm_queue) \cup InHand : o.sn # s

\* What a recording's callback is given is about that recording: its number, and
\* a text recognised from its own audio.  This is what the comparison with
\* record_sn in asr_service_send_request is for.
ResultIsOwn ==
  \A s \in Sn : \A r \in Elems(results[s]) :
     /\ r.sn = s
     /\ \A o \in r.text : o.sn = s

\* Nothing but an object filed after its recording was interrupted can break
\* that: one whose comparison came before the other client's first object and
\* whose filing came after it.
WrongOnlyIfMixed == ResultIsOwn \/ mixed

\* With the same exception, a recognition that succeeded heard its recording
\* from the first frame to the last, but for frames the client had no memory for.
ResultIsWhole ==
  \A s \in Sn : \A r \in Elems(results[s]) :
     r.error = "none" => mixed \/ r.text = {o \in made : o.sn = s}

\* Every object has one owner, or one request that will fetch it, and every session
\* with the cloud its recording, through refused requests, failed sessions and
\* recordings that are interrupted.
NothingLost == TypeOK /\ ObjectOwnership /\ NoneStranded /\ NoSessionLeak

\* A recording is answered once, about its own audio and about all of it, but for an
\* object that was compared before an interruption and filed after it.
ResultsAreRight == ResultOnce /\ WrongOnlyIfMixed /\ ResultIsWhole

\* Why it is so.  A client has one recording at a time and one object of it in hand;
\* what it makes next is an object of its recording that is nowhere yet.
Filed == Elems(pcm_queue) \cup ({pcm_obj} \ {None})

Issued(o) ==
  LET st == stream[o.by]
  IN  /\ o.sn <= st.sn
      /\ o.sn = st.sn => IF o.id > 0 THEN o.id <= st.n ELSE ~st.live
      /\ \A c \in Clients : stream[c].sn = o.sn => c = o.by

ClientInv ==
  /\ \A c \in Clients :
       /\ stream[c].sn <= last_sn /\ (stream[c].live => stream[c].sn > 0)
       /\ pc[c] # "idle" =>
            /\ hand[c] # None /\ hand[c].by = c /\ hand[c].sn = stream[c].sn
            /\ IF hand[c].id > 0 THEN hand[c].id = stream[c].n ELSE ~stream[c].live
  /\ \A c, d \in Clients : stream[c].sn = stream[d].sn => c = d \/ stream[c].sn = 0
  /\ \A o \in Filed \cup made : Issued(o)
  /\ \A o \in made : o.id > 0
  /\ \A o \in Filed \cup InHand : o.id > 0 => o \in made

\* The objects of a recording are filed and taken in their order, the end last; when it
\* is answered there are none left, and there will be none.
Before(o, p) == o.sn = p.sn => o.id > 0 /\ (p.id < 0 \/ o.id < p.id)

InOrder ==
  /\ \A i, j \in 1..Len(pcm_queue) : i < j => Before(pcm_queue[i], pcm_queue[j])
  /\ pcm_obj # None => \A o \in Elems(pcm_queue) : Before(pcm_obj, o)
  /\ \A o \in Filed, p \in InHand : Before(o, p)

IsAnswered(s) ==
  /\ Len(results[s]) = 1
  /\ \A o \in Filed \cup InHand : o.sn # s
  /\ s <= last_sn /\ \A c \in Clients : stream[c].sn = s => ~stream[c].live

AnswerEnds == \A s \in Sn : results[s] # << >> => IsAnswered(s)

\* The recording the service is at has begun: its first object is nowhere any more.
HasBegun ==
  /\ \A o \in Filed \cup InHand : o.sn = asr_result.sn => o.id # 1
  /\ asr_result.sn <= last_sn
  /\ \A c \in Clients : asr_result.sn > 0 /\ stream[c].sn = asr_result.sn => stream[c].n > 0

\* Unless an object was filed after its recording was interrupted, each recording is
\* filed in one piece that its first object begins ...
SnBefore == IF pcm_obj # None THEN pcm_obj.sn ELSE asr_result.sn
SnFiled == IF pcm_queue # << >> THEN pcm_queue[Len(pcm_queue)].sn ELSE SnBefore

InPieces ==
  /\ \A i, j \in 1..Len(pcm_queue) :
       i < j /\ pcm_queue[i].sn # pcm_queue[j].sn =>
         \E k \in i + 1..j : pcm_queue[k].sn = pcm_queue[j].sn /\ pcm_queue[k].id = 1
  /\ \A j \in 1..Len(pcm_queue) :
       pcm_queue[j].sn # SnBefore =>
         \E k \in 1..j : pcm_queue[k].sn = pcm_queue[j].sn /\ pcm_queue[k].id = 1
  /\ pcm_obj # None => pcm_obj.id = 1 \/ pcm_obj.sn = asr_result.sn
  /\ \/ record_sn = SnFiled
     \/ \E c \in Clients : /\ pc[c] \in {"check", "add"}
                           /\ hand[c].sn = record_sn /\ hand[c].id = 1

\* ... what was written to the cloud is of the recording the service is at, and a
\* session that is over has failed or been answered; and all that was made of a
\* recording that is current, or that has its end filed, was written or will be.
EndFiled(s) == \E o \in Filed : o.sn = s /\ o.id < 0

OfOne ==
  /\ \A o \in uploaded : o \in made /\ o.sn = asr_result.sn
  /\ \A o \in asr_result.text : o.sn = asr_result.sn
  /\ handle # None => handle = asr_result.sn
  /\ handle = None /\ asr_result.error = "none" /\ asr_result.sn # 0 =>
       results[asr_result.sn] # << >>

AllWritten ==
  \A s \in Sn :
    /\ record_sn = s \/ EndFiled(s)
    /\ asr_result.sn = s => handle # None
    => \A o \in made : o.sn = s => o \in uploaded \cup Filed \cup InHand

AsrInv == /\ NothingLost /\ ResultsAreRight
          /\ ClientInv /\ InOrder /\ AnswerEnds /\ HasBegun
          /\ mixed \/ (InPieces /\ OfOne /\ AllWritten)

\* The end of a recording, once filed, is answered, also when the cloud fails.
\* It takes a request for each object, and the bus may drop one.
Answered ==
  \A s \in Sn : (\E i \in 1..Len(pcm_queue) : pcm_queue[i].sn = s /\ pcm_queue[i].id < 0)
                  ~> (results[s] # << >> \/ lost > 0 \/ ~Defined)
=============================================================================
