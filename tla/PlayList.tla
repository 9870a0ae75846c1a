------------------------------ MODULE PlayList ------------------------------
(***************************************************************************)
(* components/player_middleware/play_list.c over PlayerMiddleware: the      *)
(* playlist service, the one that plays music.  Its task takes one message  *)
(* at a time: a new list, a key, or an event of its music that              *)
(* audio_event_notify_cb has posted from whichever task called it back.     *)
(* Tones are played by the other callers of the player.                     *)
(*                                                                          *)
(* The bus keeps the order of one sender and may drop a message, as         *)
(* AppFramework shows; a list is the sequence of its items' addresses.  No   *)
(* service gives an item a callback of its own, so items have none here.    *)
(***************************************************************************)
EXTENDS PlayerMiddleware

CONSTANTS
  list,       \* the playlist task, a caller of the player
  Lists,      \* the lists that services send
  MaxInputs,  \* bound: lists, keys and stops
  MaxTones    \* bound: tones

PlayModes == {"SINGLE", "SINGLE_LOOP", "ALL", "ALL_LOOP", "ALL_RAND"}
PlayLists == [items : Seq(Urls), mode : PlayModes, has_callback : BOOLEAN]

ASSUME ListAssumption == list \in Callers /\ Lists \subseteq PlayLists /\ Null \notin Lists
ASSUME InputAssumption == MaxInputs \in Nat /\ MaxTones \in Nat

Keys == {"PREV", "NEXT", "CLEAR"}
Requests == [event : {"REQUEST"}, playlist : Lists]
Events == [event : {"PLAY_STATUS"}, url : Urls, status : Ends, of : Objects]
Messages == [event : Keys] \cup Requests \cup Events

VARIABLES
  inbox,      \* messages for the playlist service
  playlist,   \* handle->playlist
  cur_item,   \* its index; 0 stands for NULL
  cur_obj,    \* observer: the object of the list's last play; 0 at first
  inputs,     \* observer: lists, keys and stops so far
  dropped,    \* observer: the bus has dropped an event
  crossed     \* observer: an end was on its way to what it is not about

listVars == <<playlist, cur_item, cur_obj>>
playVars == <<middlewareVars, inbox, playlist, cur_item, cur_obj, inputs, dropped, crossed>>

PlayInit ==
  /\ MiddlewareInit
  /\ inbox = << >>
  /\ playlist = Null
  /\ cur_item = 0
  /\ cur_obj = 0
  /\ inputs = 0
  /\ dropped = FALSE
  /\ crossed = FALSE

CurUrl == playlist.items[cur_item]

-----------------------------------------------------------------------------
(* What the observer crossed looks for                                      *)

Pending == {play_status_queue[i] : i \in DOMAIN play_status_queue}
             \cup ({player_status} \ {Null})

\* the end of a play that was replaced will be applied to what replaced it
EndOfAnother ==
  \E r \in Pending : /\ r.mode = "music"
                     /\ queue["music"] # << >> /\ Head(queue["music"]) # r.of

\* the end of another play of the current address will be taken for its own
EndOfNamesake ==
  \E i \in DOMAIN inbox :
    /\ inbox[i].event = "PLAY_STATUS"
    /\ inbox[i].of # cur_obj
    /\ cur_item # 0 /\ inbox[i].url = CurUrl

Observe == crossed' = (crossed \/ EndOfAnother' \/ EndOfNamesake')

-----------------------------------------------------------------------------
(* Callbacks                                                                *)

\* the events of the objects whose callback this step calls: one at most
Called == {o \in Objects : heard'[o] # heard[o]}
EventOf(o) == [event |-> "PLAY_STATUS", url |-> object[o].url,
               status |-> heard'[o][Len(heard'[o])], of |-> o]

\* audio_event_notify_cb is the callback of all music, and of no tone
audio_event_notify_cb(q) ==
  LET music == {o \in Called : object[o].mode = "music"}
  IN  IF music = {} THEN q ELSE Append(q, EventOf(CHOOSE o \in music : TRUE))

-----------------------------------------------------------------------------
(* The playlist service                                                     *)

\* the index the event leads to in the list l, 0 for none, when its mode reacts to it
Target(event, l) ==
  LET n == Len(l.items)
      first == IF n > 0 THEN 1 ELSE 0
      again == event = "STOP" /\ l.mode = "SINGLE_LOOP"
      onward == event \in {"NEXT", "STOP"} /\ ~again
  IN  CASE event = "REQUEST" -> first
        [] event = "PREV" /\ cur_item > 1 -> cur_item - 1
        [] event = "PREV" /\ cur_item = 1 /\ l.mode = "ALL_LOOP" -> n
        [] event = "PREV" /\ cur_item = 1 /\ l.mode # "ALL_LOOP" -> IF l.has_callback THEN 0 ELSE 1
        [] again -> cur_item
        [] onward /\ cur_item < n -> cur_item + 1
        [] onward /\ cur_item = n /\ l.mode = "ALL_LOOP" -> 1
        [] event = "NEXT" /\ cur_item = n /\ l.mode # "ALL_LOOP" -> IF l.has_callback THEN 0 ELSE n
        [] event = "STOP" /\ cur_item = n /\ l.mode = "ALL" -> 0

\* what the mode makes nothing of; SINGLE calls its own callback and plays nothing
Idle(event, l) ==
  \/ event # "REQUEST" /\ (cur_item = 0 \/ l.mode = "ALL_RAND")
  \/ event = "STOP" /\ l.mode = "SINGLE"

\* audio_play_music_with_cb with the address of item i
playlist_play_item(l, i) ==
  \/ Enqueue(list, "music", l.items[i], TRUE) /\ cur_obj' = Len(object')
  \/ NoMemory(list) /\ UNCHANGED cur_obj

playlist_process(event, l) ==
  \/ /\ Idle(event, l)
     /\ UNCHANGED <<cur_item, cur_obj, middlewareVars>>
  \/ /\ ~Idle(event, l)
     /\ cur_item' = Target(event, l)
     /\ IF cur_item' = 0 THEN UNCHANGED <<cur_obj, middlewareVars>>
                         ELSE playlist_play_item(l, cur_item')

\* the callbacks of this step post to what is left of the inbox; the bus may drop it
Post(q) ==
  \/ inbox' = audio_event_notify_cb(q) /\ UNCHANGED dropped
  \/ MayFail /\ Called # {} /\ inbox' = q /\ dropped' = TRUE

\* the service has a message and is not in the middle of one
Receiving(event) ==
  /\ at[list] = "idle"
  /\ inbox # << >>
  /\ Head(inbox).event = event

ListRequest ==
  LET l == Head(inbox).playlist
  IN  /\ Receiving("REQUEST")
      /\ playlist' = l
      /\ playlist_process("REQUEST", l)
      /\ Post(Tail(inbox))

Key ==
  /\ \E k \in {"PREV", "NEXT"} :
       /\ Receiving(k)
       /\ IF playlist = Null THEN UNCHANGED <<cur_item, cur_obj, middlewareVars>>
                             ELSE playlist_process(k, playlist)
  /\ Post(Tail(inbox))
  /\ UNCHANGED playlist

Clear ==
  /\ Receiving("CLEAR")
  /\ playlist' = Null
  /\ cur_item' = 0
  /\ inbox' = Tail(inbox)
  /\ UNCHANGED <<cur_obj, middlewareVars, dropped>>

\* Variant: an event is for the current item whatever its address.
PlayStatus_Any ==
  /\ Receiving("PLAY_STATUS")
  /\ IF cur_item # 0
     THEN playlist_process("STOP", playlist)
     ELSE UNCHANGED <<cur_item, cur_obj, middlewareVars>>
  /\ Post(Tail(inbox))
  /\ UNCHANGED playlist

\* Variant: a track that fails is not an end.
PlayStatus_Error ==
  LET e == Head(inbox)
  IN  /\ Receiving("PLAY_STATUS")
      /\ IF cur_item # 0 /\ e.url = CurUrl /\ e.status # "ERROR"
         THEN playlist_process("STOP", playlist)
         ELSE UNCHANGED <<cur_item, cur_obj, middlewareVars>>
      /\ Post(Tail(inbox))
      /\ UNCHANGED playlist

\* an event is for the current item if it has the item's address
PlayStatus ==
  LET e == Head(inbox)
  IN  /\ Receiving("PLAY_STATUS")
      /\ IF cur_item # 0 /\ e.url = CurUrl
         THEN playlist_process("STOP", playlist)
         ELSE UNCHANGED <<cur_item, cur_obj, middlewareVars>>
      /\ Post(Tail(inbox))
      /\ UNCHANGED playlist

-----------------------------------------------------------------------------
(* Services that use the list and the player                                *)

\* playlist_add, playlist_prev, playlist_next, playlist_clear
Send(m) ==
  /\ inputs < MaxInputs
  /\ inputs' = inputs + 1
  /\ inbox' = Append(inbox, m)
  /\ UNCHANGED <<middlewareVars, listVars, dropped>>

audio_play_stop(m) ==
  /\ inputs < MaxInputs
  /\ inputs' = inputs + 1
  /\ Stop(m)
  /\ UNCHANGED <<inbox, listVars, dropped>>

\* a tone's address is told apart by nobody here
PlayTone(c, now) ==
  /\ Cardinality({o \in DOMAIN object : object[o].mode = "tone"}) < MaxTones
  /\ Enqueue(c, "tone", Null, now)
  /\ Post(inbox)
  /\ UNCHANGED <<listVars, inputs>>

ListNext == (ListRequest \/ Key \/ Clear \/ PlayStatus) /\ UNCHANGED inputs

UserNext ==
  \/ \E l \in Lists : Send([event |-> "REQUEST", playlist |-> l])
  \/ \E k \in Keys : Send([event |-> k])
  \/ \E m \in Modes : audio_play_stop(m)
  \/ \E c \in Callers \ {list}, now \in BOOLEAN : PlayTone(c, now)

CallNext(c) ==
  /\ Start(c) \/ Refuse(c) \/ Drop(c)
  /\ UNCHANGED <<inbox, listVars, inputs, dropped>>

PlayerNext ==
  /\ \E m \in Modes, s \in {"FINISHED", "ERROR"} : PlayEnds(m, s)
  /\ UNCHANGED <<inbox, listVars, inputs, dropped>>

TaskNext ==
  \/ TakeStatus /\ UNCHANGED <<inbox, listVars, inputs, dropped>>
  \/ Notify /\ Post(inbox) /\ UNCHANGED <<listVars, inputs>>

PlayNext ==
  /\ ~broken
  /\ ListNext \/ UserNext \/ (\E c \in Callers : CallNext(c)) \/ PlayerNext \/ TaskNext
  /\ Observe

PlaySpec == PlayInit /\ [][PlayNext]_playVars

\* each service's task runs again and again; the player need not end anything
PlayFairSpec ==
  /\ PlaySpec
  /\ WF_playVars(~broken /\ ListNext /\ Observe)
  /\ \A c \in Callers : WF_playVars(~broken /\ CallNext(c) /\ Observe)
  /\ WF_playVars(~broken /\ TaskNext /\ Observe)

-----------------------------------------------------------------------------
(* Properties                                                               *)

PlayTypeOK ==
  /\ object \in Seq(Plays) /\ Len(object) <= MaxPlays
  /\ heap \subseteq DOMAIN object /\ refused \subseteq DOMAIN object
  /\ queue \in [Modes -> Seq(Objects)]
  /\ play_status_queue \in Seq(Reports) /\ Len(play_status_queue) <= QueueSize
  /\ player_status \in Reports \cup {Null}
  /\ at \in [Callers -> {"idle", "start", "drop"}]
  /\ hand \in [Callers -> Objects \cup {Null}]
  /\ player \in [Modes -> Seq(Objects)]
  /\ heard \in [Objects -> Seq(Ends)]
  /\ inbox \in Seq(Messages)
  /\ playlist \in Lists \cup {Null}
  /\ cur_item \in 0..(IF playlist = Null THEN 0 ELSE Len(playlist.items))
  /\ cur_obj \in 0..Len(object)
  /\ inputs \in 0..MaxInputs
  /\ {lost, broken, dropped, crossed} \subseteq BOOLEAN

\* The play objects allocated are the ones queued, each once and in the queue of
\* its mode, whatever the order of the callers' evictions, the player's statuses
\* and the unlocked removal after a refusal: none leaked, and none used after it
\* was freed until a refused one was freed twice.
ObjectOwnership ==
  broken \/ /\ heap = UNION {Elems(queue[m]) : m \in Modes}
            /\ \A m \in Modes : /\ NoRepeat(queue[m])
                               /\ \A o \in Elems(queue[m]) : object[o].mode = m

\* A caller's object is told at most one end, nothing after it, and has been told
\* one when it is freed, unless the player refused it.
OneEnd ==
  \A o \in DOMAIN object :
    /\ Len(heard[o]) <= 1
    /\ o \in heap => heard[o] = << >>
    /\ o \notin heap /\ o \notin refused => heard[o] # << >>

\* A play object is allocated while it is queued, belongs to one queue, and its caller
\* is told one end before it is freed.
ObjectsAreOwned == PlayTypeOK /\ ObjectOwnership /\ OneEnd

\* The list leaves an item only when the player is no longer at it, unless the end
\* of something else was on its way to be taken for the item's: a status that
\* outlived the object it was about, or the event of another play of its address.
EndsAreOwn ==
  [][ /\ inbox # << >> /\ Head(inbox).event = "PLAY_STATUS"
      /\ <<cur_item, cur_obj>>' # <<cur_item, cur_obj>>
      => crossed \/ \A i \in DOMAIN player["music"] : player["music"][i] # cur_obj ]_playVars

\* A list of the modes that go on does not fall silent in its middle: something is
\* played again or the list is at its end, unless a message, a status or a track was
\* lost to a full queue, the bus or the player, or ends were crossed.
ListGoesOn ==
  /\ cur_item # 0 /\ playlist.mode \notin {"SINGLE", "ALL_RAND"}
  /\ player["music"] = << >>
  ~> \/ player["music"] # << >> \/ cur_item = 0
     \/ playlist.mode \in {"SINGLE", "ALL_RAND"}
     \/ lost \/ dropped \/ crossed \/ broken
     \/ \E o \in refused : object[o].mode = "music"
     \/ Len(object) = MaxPlays
=============================================================================
