---------------------------- MODULE AppFramework ----------------------------
(***************************************************************************)
(* components/app_framework/app_framework.c: the message bus every service *)
(* of the SDK is built on.  A service is a task with one APP_OBJECT_t (a   *)
(* message queue, an event list, a run status).  app_send_message() puts a *)
(* heap-allocated copy of the message at the tail of the main object's     *)
(* queue; the main task pops it and, holding the main lock, walks the list *)
(* of applications and puts a fresh copy in the queue of each addressee;   *)
(* the addressee's task pops it, runs the callback registered for the      *)
(* event's base and frees it.                                              *)
(*                                                                         *)
(* The heap is a finite set of blocks: one block is a queue entry and its  *)
(* event data, which the code allocates, copies and frees together.        *)
(* Critical sections of one application's lock are single steps; the main  *)
(* lock is modelled, because the distribution holds it across many steps.  *)
(***************************************************************************)
EXTENDS Integers, Sequences, Queues

CONSTANTS
  Apps,           \* the services, each with the name of its APP_OBJECT_t
  Threads,        \* the tasks that call app_send_message
  Blocks,         \* the heap blocks message entries are allocated from
  Events,         \* event bases of the messages, APP_EVENT_DEFAULT included
  Exit,           \* APP_EVENT_DEFAULT_EXIT
  ToAll,          \* APP_MSG_TO_ALL, "[all]"
  None,           \* the null pointer
  MaxSends,       \* bound: messages one thread sends
  MallocMayFail,  \* TRUE: malloc may also fail while blocks are free
  Malloc(_)       \* the blocks the allocator may return, of those free

ASSUME AppsAssumption == ToAll \notin Apps /\ None \notin Apps
ASSUME BlocksAssumption == None \notin Blocks
ASSUME MallocAssumption == \A S \in SUBSET Blocks : Malloc(S) \subseteq S
ASSUME EventsAssumption == Exit \in Events
ASSUME BoundAssumption == MaxSends \in Nat /\ MallocMayFail \in BOOLEAN

VARIABLES
  apps_list,    \* the applications, head first
  status,       \* life of each APP_OBJECT_t and its run_status
  event_list,   \* the event bases with a callback
  heap,         \* contents of each block, None when it is free
  main_queue,   \* msg_queue of the main object
  msg_queue,    \* msg_queue of each application
  main_lock,    \* TRUE while the main task distributes
  main_pc,      \* where the main task is in app_msg_dispatch
  main_qe,      \* the entry the main task has popped
  app_new,      \* the distribution's list cursor
  qe,           \* the entry each application's task has popped
  out,          \* the entry a sending thread has filled and not yet queued
  sent,         \* number of messages each thread has sent
  taken         \* number of the last message of each thread an app processed

heapVars == <<heap, main_queue, msg_queue, main_qe, qe, out>>
mainVars == <<main_lock, main_pc, app_new>>
appVars  == <<apps_list, status, event_list>>
vars == <<apps_list, status, event_list, heap, main_queue, msg_queue, main_lock,
          main_pc, main_qe, app_new, qe, out, sent, taken>>

Status == {"absent", "created", "running", "exit", "removed", "freed"}

\* APP_EVENT_MSG_t; "by" and "seq" identify the call that sent it.
Msg == [by: Threads, from: Apps, to: Apps \cup {ToAll}, event: Events,
        seq: 1..MaxSends]

ASSUME MsgAssumption == None \notin Msg

FreeBlocks == {b \in Blocks : heap[b] = None}

\* strcmp tests of app_object_main_distribute_msg
Addressed(m, a) == IF m.to = ToAll THEN m.from # a ELSE m.to = a

Init ==
  /\ apps_list = << >>
  /\ status = [a \in Apps |-> "absent"]
  /\ event_list = [a \in Apps |-> {}]
  /\ heap = [b \in Blocks |-> None]
  /\ main_queue = << >>
  /\ msg_queue = [a \in Apps |-> << >>]
  /\ main_lock = FALSE
  /\ main_pc = "recv"
  /\ main_qe = None
  /\ app_new = None
  /\ qe = [a \in Apps |-> None]
  /\ out = [t \in Threads |-> None]
  /\ sent = [t \in Threads |-> 0]
  /\ taken = [a \in Apps |-> [t \in Threads |-> 0]]

-----------------------------------------------------------------------------
(* Life of an application                                                  *)

\* app_new: app_object_create, then app_list_add_object under the main lock
AppNew(a) ==
  /\ status[a] = "absent"
  /\ ~main_lock
  /\ status' = [status EXCEPT ![a] = "created"]
  /\ apps_list' = <<a>> \o apps_list
  /\ UNCHANGED <<event_list, heapVars, mainVars, sent, taken>>

\* app_add_event: the service's task registers before it dispatches
AppAddEvent(a, e) ==
  /\ status[a] = "created"
  /\ e \notin event_list[a]
  /\ event_list' = [event_list EXCEPT ![a] = @ \cup {e}]
  /\ UNCHANGED <<apps_list, status, heapVars, mainVars, sent, taken>>

\* the service's task enters app_msg_dispatch
AppDispatch(a) ==
  /\ status[a] = "created"
  /\ status' = [status EXCEPT ![a] = "running"]
  /\ UNCHANGED <<apps_list, event_list, heapVars, mainVars, sent, taken>>

\* Variant: LIST_REMOVE without taking the main lock.
AppListRemove_NoLock(a) ==
  /\ status[a] = "exit"
  /\ status' = [status EXCEPT ![a] = "removed"]
  /\ \E i \in 1..Len(apps_list) :
       /\ apps_list[i] = a
       /\ apps_list' = WithoutAt(apps_list, i)
  /\ UNCHANGED <<event_list, heapVars, mainVars, sent, taken>>

\* app_delete, first half: app_list_remove_object under the main lock
AppListRemove(a) ==
  /\ status[a] = "exit"
  /\ ~main_lock
  /\ status' = [status EXCEPT ![a] = "removed"]
  /\ \E i \in 1..Len(apps_list) :
       /\ apps_list[i] = a
       /\ apps_list' = WithoutAt(apps_list, i)
  /\ UNCHANGED <<event_list, heapVars, mainVars, sent, taken>>

\* Variant: the object is freed with its messages still queued.
AppObjectDelete_Leak(a) ==
  /\ status[a] = "removed"
  /\ status' = [status EXCEPT ![a] = "freed"]
  /\ msg_queue' = [msg_queue EXCEPT ![a] = << >>]
  /\ event_list' = [event_list EXCEPT ![a] = {}]
  /\ UNCHANGED <<apps_list, heap, main_queue, main_qe, qe, out, mainVars, sent, taken>>

\* app_delete, second half: app_object_delete frees every queued message
AppObjectDelete(a) ==
  /\ status[a] = "removed"
  /\ status' = [status EXCEPT ![a] = "freed"]
  /\ heap' = [b \in Blocks |-> IF b \in Elems(msg_queue[a]) THEN None ELSE heap[b]]
  /\ msg_queue' = [msg_queue EXCEPT ![a] = << >>]
  /\ event_list' = [event_list EXCEPT ![a] = {}]
  /\ UNCHANGED <<apps_list, main_queue, main_qe, qe, out, mainVars, sent, taken>>

-----------------------------------------------------------------------------
(* app_send_message: allocate and fill, then insert under the main lock    *)

\* Variant: the two names of the message exchanged.
SendAlloc_Swapped(t, from, to, e) ==
  /\ out[t] = None
  /\ sent[t] < MaxSends
  /\ \E b \in Malloc(FreeBlocks) :
       /\ heap' = [heap EXCEPT ![b] = [by |-> t, from |-> to, to |-> from,
                                       event |-> e, seq |-> sent[t] + 1]]
       /\ out' = [out EXCEPT ![t] = b]
  /\ sent' = [sent EXCEPT ![t] = @ + 1]
  /\ UNCHANGED <<appVars, main_queue, msg_queue, main_qe, qe, mainVars, taken>>

SendAlloc(t, from, to, e) ==
  /\ out[t] = None
  /\ sent[t] < MaxSends
  /\ \E b \in Malloc(FreeBlocks) :
       /\ heap' = [heap EXCEPT ![b] = [by |-> t, from |-> from, to |-> to,
                                       event |-> e, seq |-> sent[t] + 1]]
       /\ out' = [out EXCEPT ![t] = b]
  /\ sent' = [sent EXCEPT ![t] = @ + 1]
  /\ UNCHANGED <<appVars, main_queue, msg_queue, main_qe, qe, mainVars, taken>>

\* Variant: insertion at the head of the queue.
SendInsert_Head(t) ==
  /\ out[t] # None
  /\ ~main_lock
  /\ main_queue' = <<out[t]>> \o main_queue
  /\ out' = [out EXCEPT ![t] = None]
  /\ UNCHANGED <<appVars, heap, msg_queue, main_qe, qe, mainVars, sent, taken>>

SendInsert(t) ==
  /\ out[t] # None
  /\ ~main_lock
  /\ main_queue' = Append(main_queue, out[t])
  /\ out' = [out EXCEPT ![t] = None]
  /\ UNCHANGED <<appVars, heap, msg_queue, main_qe, qe, mainVars, sent, taken>>

-----------------------------------------------------------------------------
(* The main task: app_msg_dispatch(APP_MAIN_OBJECT)                        *)

MainRecv ==
  /\ main_pc = "recv"
  /\ ~main_lock
  /\ main_queue # << >>
  /\ main_qe' = Head(main_queue)
  /\ main_queue' = Tail(main_queue)
  /\ main_pc' = "distribute"
  /\ UNCHANGED <<appVars, heap, msg_queue, qe, out, main_lock, app_new, sent, taken>>

\* take the main lock and put the cursor on LIST_FIRST
DistributeBegin ==
  /\ main_pc = "distribute"
  /\ ~main_lock
  /\ main_lock' = TRUE
  /\ app_new' = FirstOf(apps_list, None)
  /\ main_pc' = "walk"
  /\ UNCHANGED <<appVars, heapVars, sent, taken>>

\* the cursor's name does not match: LIST_NEXT
DistributeSkip ==
  /\ main_pc = "walk"
  /\ app_new # None
  /\ ~Addressed(heap[main_qe], app_new)
  /\ app_new' = NextOf(apps_list, app_new, None)
  /\ UNCHANGED <<appVars, heapVars, main_lock, main_pc, sent, taken>>

\* Variant: the break of the named case taken in the broadcast too.
AfterMatch_Break == None

\* the loop goes on after a match only when the message is for all
AfterMatch == IF heap[main_qe].to = ToAll THEN NextOf(apps_list, app_new, None) ELSE None

\* app_object_send_msg(app_new, &qe->msg): a fresh copy at the queue's tail
DistributeSend ==
  /\ main_pc = "walk"
  /\ app_new # None
  /\ Addressed(heap[main_qe], app_new)
  /\ \E b \in Malloc(FreeBlocks) :
       /\ heap' = [heap EXCEPT ![b] = heap[main_qe]]
       /\ msg_queue' = [msg_queue EXCEPT ![app_new] = Append(@, b)]
  /\ app_new' = AfterMatch
  /\ UNCHANGED <<appVars, main_queue, main_qe, qe, out, main_lock, main_pc, sent, taken>>

\* malloc failed in app_object_send_msg: the result is ignored, the copy lost
DistributeLose ==
  /\ main_pc = "walk"
  /\ app_new # None
  /\ Addressed(heap[main_qe], app_new)
  /\ MallocMayFail \/ Malloc(FreeBlocks) = {}
  /\ app_new' = AfterMatch
  /\ UNCHANGED <<appVars, heapVars, main_lock, main_pc, sent, taken>>

DistributeEnd ==
  /\ main_pc = "walk"
  /\ app_new = None
  /\ main_lock' = FALSE
  /\ main_pc' = "free"
  /\ UNCHANGED <<appVars, heapVars, app_new, sent, taken>>

\* "free msg" at the end of the loop body
MainFree ==
  /\ main_pc = "free"
  /\ heap' = [heap EXCEPT ![main_qe] = None]
  /\ main_qe' = None
  /\ main_pc' = "recv"
  /\ UNCHANGED <<appVars, main_queue, msg_queue, qe, out, main_lock, app_new, sent, taken>>

-----------------------------------------------------------------------------
(* An application's task: app_msg_dispatch(app)                            *)

AppRecv(a) ==
  /\ status[a] = "running"
  /\ qe[a] = None
  /\ msg_queue[a] # << >>
  /\ qe' = [qe EXCEPT ![a] = Head(msg_queue[a])]
  /\ msg_queue' = [msg_queue EXCEPT ![a] = Tail(@)]
  /\ UNCHANGED <<appVars, heap, main_queue, main_qe, out, mainVars, sent, taken>>

\* app_object_proc_msg and the free after it; the default callback of every
\* service answers APP_EVENT_DEFAULT_EXIT with app_exit
AppProc(a) ==
  /\ qe[a] # None
  /\ LET m == heap[qe[a]]
     IN  /\ status' = IF m.event = Exit /\ Exit \in event_list[a]
                        THEN [status EXCEPT ![a] = "exit"] ELSE status
         /\ taken' = [taken EXCEPT ![a][m.by] = m.seq]
  /\ heap' = [heap EXCEPT ![qe[a]] = None]
  /\ qe' = [qe EXCEPT ![a] = None]
  /\ UNCHANGED <<apps_list, event_list, main_queue, msg_queue, main_qe, out, mainVars, sent>>

-----------------------------------------------------------------------------
Main == MainRecv \/ DistributeBegin \/ DistributeSkip \/ DistributeSend
          \/ DistributeLose \/ DistributeEnd \/ MainFree

Send(t) == \/ \E from \in Apps, to \in Apps \cup {ToAll}, e \in Events :
                SendAlloc(t, from, to, e)
           \/ SendInsert(t)

App(a) == \/ AppNew(a) \/ AppDispatch(a) \/ AppRecv(a) \/ AppProc(a)
          \/ AppListRemove(a) \/ AppObjectDelete(a)
          \/ \E e \in Events : AppAddEvent(a, e)

Next == Main \/ (\E t \in Threads : Send(t)) \/ (\E a \in Apps : App(a))

Spec == Init /\ [][Next]_vars

\* Every task loops with a 1 ms sleep, so each gets the processor: the main
\* task, and each application's message loop.
Fairness == WF_vars(Main) /\ \A a \in Apps : WF_vars(AppRecv(a) \/ AppProc(a))

FairSpec == Spec /\ Fairness

-----------------------------------------------------------------------------
(* Properties                                                              *)

\* Type invariant.
TypeOK ==
  /\ apps_list \in Seq(Apps)
  /\ status \in [Apps -> Status]
  /\ event_list \in [Apps -> SUBSET Events]
  /\ heap \in [Blocks -> Msg \cup {None}]
  /\ main_queue \in Seq(Blocks)
  /\ msg_queue \in [Apps -> Seq(Blocks)]
  /\ main_lock \in BOOLEAN
  /\ main_pc \in {"recv", "distribute", "walk", "free"}
  /\ main_qe \in Blocks \cup {None}
  /\ app_new \in Apps \cup {None}
  /\ qe \in [Apps -> Blocks \cup {None}]
  /\ out \in [Threads -> Blocks \cup {None}]
  /\ sent \in [Threads -> 0..MaxSends]
  /\ taken \in [Apps -> [Threads -> 0..MaxSends]]

\* The entries the main task, each application and each sender hold
MainHeld == Elems(main_queue) \cup ({main_qe} \ {None})
AppHeld  == [a \in Apps |-> Elems(msg_queue[a]) \cup ({qe[a]} \ {None})]
SendHeld == [t \in Threads |-> {out[t]} \ {None}]

\* A block is in use when somebody holds it, and two holders never share one.
UsedIsHeld ==
  \A b \in Blocks :
     heap[b] # None <=>
       \/ b \in MainHeld
       \/ \E a \in Apps : b \in AppHeld[a]
       \/ \E t \in Threads : b \in SendHeld[t]

HoldersDisjoint ==
  /\ \A a \in Apps : AppHeld[a] \cap MainHeld = {}
  /\ \A t \in Threads : SendHeld[t] \cap MainHeld = {}
  /\ \A a \in Apps, t \in Threads : AppHeld[a] \cap SendHeld[t] = {}
  /\ \A a, c \in Apps : a # c => AppHeld[a] \cap AppHeld[c] = {}
  /\ \A t, u \in Threads : t # u => SendHeld[t] \cap SendHeld[u] = {}

\* A message entry that was malloc'ed is reachable from one place exactly, and
\* a freed one from none: app_framework.c never leaks an entry, never frees one
\* twice and never touches one after its free, whatever the interleaving of
\* the main task, the services, the senders and app_delete.
BlockOwnership ==
  /\ UsedIsHeld
  /\ NoRepeat(main_queue) /\ main_qe \notin Elems(main_queue)
  /\ \A a \in Apps : NoRepeat(msg_queue[a]) /\ qe[a] \notin Elems(msg_queue[a])
  /\ HoldersDisjoint

\* The list the main task walks holds live objects only, once each, and its
\* cursor stays on one of them: app_delete in a service's task cannot free the
\* object the distribution is looking at (the main lock is held for the walk).
NoDanglingApp ==
  /\ \A a \in Apps : a \in Elems(apps_list) <=> status[a] \in {"created", "running", "exit"}
  /\ NoRepeat(apps_list)
  /\ app_new # None => main_pc = "walk" /\ app_new \in Elems(apps_list)

\* Where the tasks are when they hold an entry or the main lock, and which
\* objects may have messages queued: with the two above, the inductive invariant.
ControlInv ==
  /\ main_lock <=> main_pc = "walk"
  /\ main_qe # None <=> main_pc # "recv"
  /\ \A a \in Apps : qe[a] # None => status[a] = "running"
  /\ \A a \in Apps : status[a] \in {"absent", "freed"} => msg_queue[a] = << >>

IInv == TypeOK /\ ControlInv /\ NoDanglingApp /\ BlockOwnership

\* What an application has yet to process, the entry in hand first
Pending(a) == (IF qe[a] = None THEN << >> ELSE <<qe[a]>>) \o msg_queue[a]

\* An application processes the messages of one sending thread at most once
\* each and in the order they were sent: nothing in its hands is as old as what
\* it has processed from that thread, and its queue is in sending order.
InOrder ==
  \A a \in Apps : \A i \in 1..Len(Pending(a)) :
     LET m == heap[Pending(a)[i]]
     IN  /\ m.seq > taken[a][m.by]
         /\ \A j \in 1..(i - 1) : LET k == heap[Pending(a)[j]]
                                  IN  k.by = m.by => k.seq < m.seq

\* A broadcast is not echoed to the application it is from, a message with a
\* name reaches that application only.
OnlyAddressees ==
  \A a \in Apps : \A b \in AppHeld[a] : Addressed(heap[b], a)

\* A service is given what is addressed to it, once each and in sending order,
\* whatever copies the distribution drops for want of memory.
CopiesAreRight == InOrder /\ OnlyAddressees

\* Why it is so: every place a message passes through keeps the order of its
\* sender, and what is further up is newer than what is further down.
Older(m, n) == m.by = n.by => m.seq < n.seq

InSendingOrder(s) ==
  \A i, j \in 1..Len(s) : i < j => Older(heap[s[i]], heap[s[j]])

\* Entry b is newer than all an application has in hand or has processed
NewTo(b, a) ==
  /\ heap[b].seq > taken[a][heap[b].by]
  /\ \A c \in AppHeld[a] : Older(heap[c], heap[b])

\* The applications the message in the main task's hand has not passed yet
Ahead(a) ==
  \/ main_pc = "distribute"
  \/ /\ main_pc = "walk"
     /\ \E i, j \in 1..Len(apps_list) :
          i <= j /\ apps_list[i] = app_new /\ apps_list[j] = a

SendersCount ==
  /\ \A b \in Blocks : heap[b] # None => heap[b].seq <= sent[heap[b].by]
  /\ \A a \in Apps, t \in Threads : taken[a][t] <= sent[t]

OutIsNewest ==
  \A t \in Threads : out[t] # None =>
     /\ heap[out[t]].by = t
     /\ \A b \in MainHeld : Older(heap[b], heap[out[t]])
     /\ \A a \in Apps : NewTo(out[t], a)

MainInOrder ==
  /\ InSendingOrder(main_queue)
  /\ \A b \in Elems(main_queue) :
       /\ main_qe # None => Older(heap[main_qe], heap[b])
       /\ \A a \in Apps : NewTo(b, a)

CopyIsNew == \A a \in Apps : Ahead(a) => NewTo(main_qe, a)

AppsInOrder ==
  \A a \in Apps :
     /\ InSendingOrder(msg_queue[a])
     /\ \A b \in AppHeld[a] : heap[b].seq > taken[a][heap[b].by]
     /\ qe[a] # None => \A b \in Elems(msg_queue[a]) : Older(heap[qe[a]], heap[b])

OrderInv ==
  SendersCount /\ OutIsNewest /\ MainInOrder /\ CopyIsNew /\ AppsInOrder /\ OnlyAddressees

\* A message accepted by the main queue is processed by every running
\* application it addresses, unless that application exits first.  Holds when
\* no malloc fails (MallocMayFail = FALSE and blocks enough): the distribution
\* drops the copy silently otherwise.
Delivered ==
  \A a \in Apps, t \in Threads, n \in 1..MaxSends :
     (/\ status[a] = "running"
      /\ \E b \in Elems(main_queue) : /\ heap[b].by = t /\ heap[b].seq = n
                                      /\ Addressed(heap[b], a))
       ~> (taken[a][t] >= n \/ status[a] # "running")

=============================================================================
