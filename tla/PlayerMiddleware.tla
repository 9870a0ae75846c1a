-------------------------- MODULE PlayerMiddleware --------------------------
(***************************************************************************)
(* components/player_middleware/player_middleware_interface.c: the tones    *)
(* and the music that the services play.  A call of audio_play_*_with_cb    *)
(* puts an object with the caller's callback in the queue of its mode and   *)
(* then starts the player; the player_middleware task takes the player's    *)
(* statuses one at a time and applies each to the object at the head of the *)
(* queue of the status's mode, since a status does not say what it is about.*)
(*                                                                          *)
(* The player (EspAudio, a binary library) is external: in each mode it     *)
(* plays one thing, the ones that were to wait come next, and whatever is   *)
(* started NOW takes their place without a report.  A play that ends by     *)
(* itself or is stopped is reported if play_status_queue has room.          *)
(***************************************************************************)
EXTENDS Integers, Sequences, FiniteSets, Queues

CONSTANTS
  Callers,      \* tasks that play tones or music
  Urls,         \* what can be played
  Null,         \* the null pointer
  QueueSize,    \* length of play_status_queue
  MaxPlays,     \* bound: number of objects made
  MayFail       \* TRUE: malloc, the player and the bus may refuse

Modes == {"tone", "music"}
\* the statuses that end a play; the other four call the callback and change nothing
Ends == {"FINISHED", "STOP", "ERROR"}

\* AUDIO_PLAY_OBJECT_t, by the number of the call that made it
Objects == 1..MaxPlays
Plays == [mode : Modes, url : Urls \cup {Null}, now : BOOLEAN]
\* PlayerStatus; the code does not have "of", the object the player means
Reports == [mode : Modes, status : Ends, of : Objects]

ASSUME NullAssumption == Null \notin Objects \cup Reports
ASSUME PlaysAssumption == QueueSize \in Nat \ {0} /\ MaxPlays \in Nat
ASSUME FailAssumption == MayFail \in BOOLEAN

VARIABLES
  object,            \* what each object made so far is for
  heap,              \* objects allocated and not freed
  queue,             \* tone_queue and music_queue
  play_status_queue, \* statuses on their way from the player
  player_status,     \* the status the player_middleware task has taken
  at,                \* where each caller is in audio_play_*_with_cb
  hand,              \* the object that call is about
  player,            \* what the player plays in each mode, in turn
  heard,             \* what the callback of each object was called with, in turn
  refused,           \* observer: objects the player refused
  lost,              \* observer: a call, a status or a message was lost
  broken             \* observer: freed memory was used

callVars == <<object, at, hand>>
objectVars == <<heap, queue, heard>>
playerVars == <<play_status_queue, player_status, player>>
lossVars == <<refused, lost, broken>>
middlewareVars == <<object, heap, queue, play_status_queue, player_status, at, hand,
                    player, heard, refused, lost, broken>>

MiddlewareInit ==
  /\ object = << >>
  /\ heap = {}
  /\ queue = [m \in Modes |-> << >>]
  /\ play_status_queue = << >>
  /\ player_status = Null
  /\ at = [c \in Callers |-> "idle"]
  /\ hand = [c \in Callers |-> Null]
  /\ player = [m \in Modes |-> << >>]
  /\ heard = [o \in Objects |-> << >>]
  /\ refused = {}
  /\ lost = FALSE
  /\ broken = FALSE

-----------------------------------------------------------------------------
(* A caller of audio_play_tone_with_cb or audio_play_music_with_cb          *)

\* the object at the head makes place for new music and for a tone that is played NOW
Evicts(m, now) == queue[m] # << >> /\ (m = "music" \/ now)

\* the object is made and, under mutex_lock, takes its place in the queue
Enqueue(c, m, u, now) ==
  LET o == Len(object) + 1
      head == Head(queue[m])
      kept == IF Evicts(m, now) THEN Tail(queue[m]) ELSE queue[m]
  IN  /\ at[c] = "idle"
      /\ o \in Objects
      /\ object' = Append(object, [mode |-> m, url |-> u, now |-> now])
      /\ queue' = [queue EXCEPT ![m] = Append(kept, o)]
      /\ heap' = (IF Evicts(m, now) THEN heap \ {head} ELSE heap) \cup {o}
      /\ heard' = IF Evicts(m, now) THEN [heard EXCEPT ![head] = Append(@, "STOP")] ELSE heard
      /\ at' = [at EXCEPT ![c] = "start"]
      /\ hand' = [hand EXCEPT ![c] = o]
      /\ UNCHANGED <<playerVars, lossVars>>

\* there is no memory for the object
NoMemory(c) ==
  /\ MayFail
  /\ at[c] = "idle"
  /\ lost' = TRUE
  /\ UNCHANGED <<callVars, objectVars, playerVars, refused, broken>>

\* EspAudioTonePlay or EspAudioPlay, after mutex_lock was given back
Start(c) ==
  LET o == hand[c]
      m == object[o].mode
  IN  /\ at[c] = "start"
      /\ player' = [player EXCEPT ![m] =
                      IF m = "music" \/ object[o].now THEN <<o>> ELSE Append(@, o)]
      /\ at' = [at EXCEPT ![c] = "idle"]
      /\ hand' = [hand EXCEPT ![c] = Null]
      /\ UNCHANGED <<object, objectVars, play_status_queue, player_status, lossVars>>

\* the player does not start it
Refuse(c) ==
  /\ MayFail
  /\ at[c] = "start"
  /\ at' = [at EXCEPT ![c] = "drop"]
  /\ refused' = refused \cup {hand[c]}
  /\ UNCHANGED <<object, hand, objectVars, playerVars, lost, broken>>

\* the object is taken out and freed, without mutex_lock
Drop(c) ==
  LET o == hand[c]
      m == object[o].mode
  IN  /\ at[c] = "drop"
      /\ broken' = (o \notin heap)
      /\ queue' = [queue EXCEPT ![m] = Without(@, o)]
      /\ heap' = heap \ {o}
      /\ at' = [at EXCEPT ![c] = "idle"]
      /\ hand' = [hand EXCEPT ![c] = Null]
      /\ UNCHANGED <<object, heard, playerVars, refused, lost>>

-----------------------------------------------------------------------------
(* The player                                                               *)

\* the player puts a status in play_status_queue, waiting for no room
Report(m, s) ==
  LET r == [mode |-> m, status |-> s, of |-> Head(player[m])]
  IN  IF Len(play_status_queue) < QueueSize
      THEN play_status_queue' = Append(play_status_queue, r) /\ UNCHANGED lost
      ELSE lost' = TRUE /\ UNCHANGED play_status_queue

PlayEnds(m, s) ==
  /\ player[m] # << >>
  /\ s \in {"FINISHED", "ERROR"}
  /\ player' = [player EXCEPT ![m] = Tail(@)]
  /\ Report(m, s)
  /\ UNCHANGED <<callVars, objectVars, player_status, refused, broken>>

\* EspAudioStop and EspAudioToneStop
StopPlayer(m) ==
  IF player[m] = << >>
  THEN UNCHANGED <<player, play_status_queue, lost>>
  ELSE player' = [player EXCEPT ![m] = << >>] /\ Report(m, "STOP")

\* audio_play_stop, for one of its two calls
Stop(m) ==
  /\ player[m] # << >>
  /\ StopPlayer(m)
  /\ UNCHANGED <<callVars, objectVars, player_status, refused, broken>>

-----------------------------------------------------------------------------
(* The player_middleware task, on each loop timeout                         *)

TakeStatus ==
  /\ player_status = Null
  /\ play_status_queue # << >>
  /\ player_status' = Head(play_status_queue)
  /\ play_status_queue' = Tail(play_status_queue)
  /\ UNCHANGED <<callVars, objectVars, player, lossVars>>

\* Variant: an object whose play failed is taken out but not freed.
Notify_Leak ==
  LET m == player_status.mode
      s == player_status.status
      o == Head(queue[m])
  IN  /\ player_status # Null
      /\ IF queue[m] = << >>
         THEN UNCHANGED objectVars
         ELSE /\ heard' = [heard EXCEPT ![o] = Append(@, s)]
              /\ queue' = [queue EXCEPT ![m] = Tail(@)]
              /\ heap' = IF s = "ERROR" THEN heap ELSE heap \ {o}
      /\ player_status' = Null
      /\ IF s = "ERROR" THEN StopPlayer(m) ELSE UNCHANGED <<player, play_status_queue, lost>>
      /\ UNCHANGED <<callVars, refused, broken>>

\* notify_audio_play_status, under mutex_lock
Notify ==
  LET m == player_status.mode
      s == player_status.status
      o == Head(queue[m])
  IN  /\ player_status # Null
      /\ IF queue[m] = << >>
         THEN UNCHANGED objectVars
         ELSE /\ heard' = [heard EXCEPT ![o] = Append(@, s)]
              /\ queue' = [queue EXCEPT ![m] = Tail(@)]
              /\ heap' = heap \ {o}
      /\ player_status' = Null
      /\ IF s = "ERROR" THEN StopPlayer(m) ELSE UNCHANGED <<player, play_status_queue, lost>>
      /\ UNCHANGED <<callVars, refused, broken>>
=============================================================================
