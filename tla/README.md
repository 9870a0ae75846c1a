# Verification of the DeepBrain ESP32 audio SDK

TLA+ specifications of the concurrent core of the voice assistant firmware under
`components/` and `main/`, the TLC runs that check them, and proofs checked by
TLAPS. Line numbers are those of the commit the project is kept beside.

Contents: 1 the system · 2 inventory · 3 what is modelled · 4 the runs ·
5 fairness · 6 the proofs · 7 what the models show · 8 what is not
modelled · 9 plan · 10 how to run it.

## 1. The system

The firmware runs on FreeRTOS. `main/app_setup_deepbrain_board.c` starts some
twenty *services*. A service is a task with an `APP_OBJECT_t`: a message queue, a
list of events with callbacks, a loop timeout. Services work together in four ways:

* **messages**: `app_send_message` copies a message to the queue of the main
  object; the main task copies it on to each addressee, by name or to all;
* **calls**: `aip_start_record`, `asr_service_send_request`, `audio_play_tone`,
  `set_flash_cfg`, ... run in the caller's task under the callee's lock;
* **callbacks**: recorded frames, recognition results and the states of the player
  are delivered to functions that run in the task of the service that delivers them;
* **buffers**: byte rings (`app_ring_buffer.c`) and linked lists of heap objects
  (`app_queue.h`) between a task that fills and one that drains.

So a question to the assistant goes: the wake word engine drains a ring that AIP
fills → free_talk starts a recording with AIP → each frame becomes an object in
asr_service's queue → the ASR task writes it to the cloud → the result is posted to
free_talk through the bus → it starts music through player_middleware or stores a
memo. Each arrow crosses a task boundary, and most of the code's difficulty is there.

## 2. Inventory

| Component (`components/...`) | State | Operations | Hard behaviour | What makes it correct |
|---|---|---|---|---|
| **app_framework**, bus | list of applications, a message queue each, run status, main lock | `app_new`, `app_add_event`, `app_msg_dispatch`, `app_exit`, `app_delete`, `app_send_message`, distribution | applications die while the main task walks their list; malloc fails in the middle of a broadcast | entries have one owner; the walk meets no freed object; each addressee gets a sender's messages in order, once |
| **app_framework**, ring buffer | memory, two addresses, a length | new, clear, read, readn, write | wrapping copies; full and empty have equal addresses | it is a bounded byte queue |
| **AIP** | list of open sessions, recorder state, session counter | start, stop, the 100 ms loop | sessions end inside the loop that walks them, in three ways; starts overtake each other | each callback sees 1, 2, 3, ... and one negative end |
| **dcl_service** (asr_service) | queue of objects, current recording, session with the cloud, result under construction | send_request, the task's begin/run/end | two clients interrupt each other's recordings; the cloud fails at any step | objects freed once; one answer, about the right audio |
| **wifi_manage** | status, slot tried, stored networks, smartconfig | state machine, driver events, smartconfig callback, wifi key | three tasks store the status; answers cross timeouts | no stored network is lost or skipped; the services are told the truth; the device comes on line |
| **player_middleware** (player) | a tone and a music queue of play objects, status queue of the player | play, stop, pause, notification | a status is applied to the head of the queue, which may have been replaced; failed plays unlink without the lock | each object's callback is told what happened to that object, once; objects freed once |
| **player_middleware** (play_list) | list, current item, mode | add, next, previous, clear, player's events | an event is matched by its address of music only | an end advances the list once; the list ends or goes round |
| **mpush_msg** | queue of messages, `play_status` | play one at a time, callback clears `play_status` | the callback may come before `play_status` is set | one at a time, and every message is played in the end |
| **memo_service** | one memo handed over, array in memory and in flash, status, clock | hand-over by free_talk's task, clock, add, expire, speak, cancel | hand-over without lock; adding before the array was read; the clock is set late | a memo the user was told of is kept until it is spoken, in its time |
| **device_params_manage** | RAM copy, flash image with CRC | get, set, init, reset by the terminal | power cut between erase and write; a missing `break`; one writer without the lock | a value that survives restarts, whole |
| record_playback | ring buffer, status | record, play back | playback may overtake the last frames | not built (`userconfig.h:53`) |
| keyword_wakeup | ring buffer, engine status | restart on wifi, drain | the recorder drops what does not fit | it listens whenever it should |
| **free_talk** | numbers of the current and of the cancelled question, queue of frames, mode | wakeup word, start, stop, terminate, record callback, end of speech, results | five tasks share the numbers, mostly without the lock; what a cancelled question left behind still arrives | a cancelled conversation listens to nothing and stays cancelled; answers in turn; it goes on until it ends |
| **wechat** | message and cache queues | record, result, upload | three tasks move a message; the result finds it by its number | each recording is sent once or dropped; queues empty |
| **mpush_service** | connection status, server list, message queue | handshake, bind, heartbeat, receive, acknowledge | waiting states without timeout; frames cut in the middle; announced twice | no message lost; it reconnects |
| **keyboard_service** (handlers), mcu_serial_comm, keyboard_event | key state | keys to calls | stop without start; a release that is not acted on | pairs of start and stop |
| **power_manage** | time stamp of the last activity, charge state, reminders | the pass of each second, shutdown | the wall clock is set by others; the charger changes while a tone is spoken | it sleeps for a reason; the services know of the charger |
| ota_service | mode | check, download, switch | announced twice | one update at a time |
| sd_music_manage | folder index | scan, next, previous folder | index against directory | list matches folder |
| bind_device, led_ctrl_service, startup | little | | | |
| DCL, socket, sdk_interfaces, dcl_volume_decode | none that lives | protocol, formatting, wrappers | | not modelled |
| drivers, codecs, protocol libraries, binaries, audio data | | | | external |

Components in bold have a model. `PROJECT.json` lists the same components with their
files and status, and under `hazards` each place where a test would hardly reach, with
the properties that cover it.

## 3. What is modelled

Names of actions and variables are the code's. The `map` of `PROJECT.json` gives
the lines of each definition.

### AppFramework (with Queues)

`app_framework.c` and the list macros of `app_queue.h`. The heap is a set of
blocks, one per message entry with its data, so that leaks, double frees and uses
after free are visible. Sending is two steps as in the code (allocate and fill;
insert under the main lock). The main task's distribution has a step per
application and holds the main lock through the walk; the copy for an addressee may
fail to be allocated, and `app_send_message` has returned OK long before. `app_delete`
is two steps, removal from the list and freeing the object. What a service does
with a message is left to its own model; here it answers the EXIT event when it
registered for it, and is otherwise silent.

### RingBuffer (abstract: ByteQueue)

`app_ring_buffer.c`, with the addresses as offsets into the memory and each
`memcpy` as the set of bytes it moves. `ByteQueue` says what its users rely on: a
sequence; a write appends the prefix that fits; a read takes what it asked for or
all there is, `readn` all or nothing. `RingBuffer` implements it under the mapping
that reads `curr_len` bytes from `read_addr` on.

### AipRecorder

The recording service as it is built (`AMC_AIP_SHARED_DATA == 1`). A client is its
callback. `aip_start_record` is two steps: the number is taken under the lock, the
message sent after it (keyboard, free_talk and the wakeup start from tasks of their
own, so messages can pass each other). Handling a message is one step, because the
callbacks it calls run in the AIP task. The loop over the sessions has a step for the
frame given and one for the test of the length, so that a session's end in the
middle of the walk, and the `TAILQ_PREV` that follows, are seen.

### AsrService

`asr_service_send_request` has a step for each critical section and the unlocked
test between them; the ASR task a step per object. The cloud is the set of sessions
open with it, and any call to it may fail. `uploaded` and `results` say which
objects a recognised text came from, and what each callback was given. Three
observers say what happened on the way, so that a property can be stated up to it:
`lost` (copies the bus dropped after it had accepted them), `mixed` (an object was
filed when its recording was no longer the current one) and `made` (the objects
made of frames, without those there was no memory for). A state in which a freed
object is still linked has no further steps: the code's behaviour is undefined from
there, and the invariants are stated for the states before it (`Defined`).

### PlayerMiddleware, PlayList

`PlayerMiddleware` is `player_middleware_interface.c` up to its callers: a call of
`audio_play_*_with_cb` is the critical section that queues the object, the start of the
player after it, and after a refusal the removal without the lock. The task takes a
status in one step and applies it in another, as it takes the lock between the two.
The player is a binary: it plays one thing per mode, replaces it without a report, and
drops a report its queue has no room for; a status carries what it is about only for the
properties to compare (`of`). `PlayList` extends it with `play_list.c`, whose task is
the only caller that plays music, and adds the message queue that keys, lists and the
events of its own music go through. A callback is called in the step in which `heard`
grows, and `Post` puts the list's in the queue, or loses it.

The observer `crossed` says that ends could be mixed up: it is set when a status on
its way finds another object at the head of its queue, or an event in the list's queue
has the current item's address and is about another play of it. `EndsAreOwn` says that
these are the only ways in which a track is cut short. The second needs no race: with
one item in `PLAY_LIST_MODE_ALL_LOOP` the key for the next track evicts the play, whose
STOP is then taken for the end of the new one, which is evicted in turn, and so on. No
comment or test promises otherwise, so it is described here and stated as no fault.

Not shown: two tasks *inside* the list macros at once, which the unlocked removal
allows; the removal is one step here.

### WifiManage

The status, driver events, messages and smartconfig callback of `wifi_manage.c`. A
handler of the wifi task reads the status and stores the next one at its end
(`SetStatus`); the smartconfig callback tests, stores the phone's network (`ScUpdate`)
and stores a status (`ScStore`) in three steps, the last two each under the lock, so the
three tasks can come between each other. A driver event becomes a message that is lost
when the bus has no memory for it, which the event's handler does not look at. `Found`,
`Candidate` and `CountAt` are the loop of `get_wifi_info` with its static counter in
closed form; `Saved` is `save_wifi_info`, and `Kept` what each save relies on and keeps
up. What surrounds the device is `here`, one of the constant `Worlds`, chosen at the
start and never changed: which networks are in range, which one a phone sends, what is
in flash, whether calls may fail, and how many keys, phones, lost links and lost
messages there will be. In a `prompt` world an attempt ends before its timeout; in the
others a wait may end in its timeout at any moment. So one run covers every arrangement
of the slots and the faults. Smartconfig, a library, takes one phone each time it is
started; the observer `acked` is the network of the last phone that was told the
device's address, until the wifi task chooses a network itself.

Three facts the model shows that no property states as a fault, since no line of the
repository says otherwise: a loss of the link that is reported while the success is
still being stored is passed over, one whose message the bus drops is never heard of, and
nothing polls the link afterwards (`ConnectedIsTrue` says that these are the *only* ways
to be deaf); a success that is already on its way when the wifi key is handled takes the
device out of smartconfig again; and when a second phone sends its network while the
success with the first is stored, the wifi task may save the second's in its place, but
only between `ScUpdate` and `ScStore`, which `NothingIsSkipped` says.

### DeviceParams (abstract: ParamStore), MemoService

`DeviceParams` is `device_params_manage.c`: the parameters in memory, the sector of
flash, and a save that computes a CRC, erases and writes, each a step at which the power
can be cut or the flash refuse. Fields that are compared, copied and saved alike are one
(`user`); the memos and the OTA mode are fields of their own, because saving the
first falls through into saving the second. The terminal's reset does not take the lock.
`ret` is what `set_flash_cfg` last returned to each task, and `SetAgain` is its call with
the value memory has. `KeptUnlessTold` says that flash and memory agree unless a task
holds the error; `unheard` names the two ways in which nobody does: the save was that of
the start or of the reset, which do not look at the result, or the caller has set the
same value again and was told OK. The one other exception is `collided`: the reset met
another save.
`ParamStore` is what the users rely on: one value, changed in memory, of which a restart
brings back what was kept or, if it was being written, the factory's value, never a
mixture. `DeviceParams` implements it under the mapping that reads the sector as a start
would.

`MemoService` extends it with `memo_service.c`. free_talk's task writes the memo handed
over and the status in steps of their own, without a lock, as `get_memo_result` does; the
memo task takes a message or does what the status says. The user is told of a memo in
the step that hands it over. Observers say in which of the code's own ways a memo was
given up (`Drop`) and whether one was handed over while another still waited (`mixed`,
after which the two may be mixed up; `MayMix = FALSE` cuts the behaviour there).

### MpushService, MpushMsg

`MpushService` is the state machine of the connection, one state per turn of the task,
and its server, which keeps a message until it is acknowledged or fetched. Offline
messages come in one reply. `SpoiledReply` has what can become of it: lost, in part or an
error, and asked for again; cut to `str_comm_buf` or without a list, and taken for read;
or without a body, and what the buffer held before is decoded again. Observers name the
messages: `unread` those the server had handed over, `again` those decoded twice. The socket
is `wire`, what was written and not yet read; a frame that comes too slowly is given up
in its middle, and its `Rest` is then read as whatever comes next. A write to a
connection the other side has reset makes the task hang, as `sock_write` does. `MpushMsg`
extends it with the loop that takes one message, starts its tone, and *then* sets
`play_status`, and with the tone's callback in the player's task, which does not come
when the tone was refused or the report of its end found the player's queue full
(`EndDropped`).

### PowerManage

A pass of the task is cut where it reads and compares: the time stamp under its lock,
the comparison after it, then the battery and the charger; the seconds in which it says
something and waits are steps. `ClockIsSet` is the statement of `memo_service.c` after
the one that sets the clock (`SetClock`), so the clock can jump between any two steps.
`judged`, `fed` and `quiet` are observers of how long the device was in fact idle.

### FreeTalk

`todo[t]` is what each task still has to do of the function it is in, a step for each
access to the shared numbers or message sent: `free_talk_start` sends the START and sets
`record_sn` after it, `free_talk_terminated` reads it without the lock. The recording
service, the recognition and the tones are there as the contracts of `AipRecorder`,
`AsrService` and `PlayerMiddleware`, what they do not do included: the recognition
refuses the end of a recording whose first frame it did not take, because there was none
or a wechat message's came since (`filed`, `Overtaken`); a tone is refused (`Unsaid`),
or is over and its report dropped (`EndDropped`); an object finds no memory. What an
answer says is one of three outcomes: it is spoken and the conversation goes on, it goes
on without a word, or it ends. `spoiled` observes which recordings lost something on
their way, `unstopped` that a STOP was lost.

### WechatSend

`wechat_service.c` from the key to the sending, over the same contracts: the keyboard's
task looks in the cache and starts, the recording's first frame makes the message, each
frame is written to the first message of the cache, the recognition's callback finds the
message by its number and moves it, the wechat task sends the one at the head and removes
it. The frames' callback takes the lock for each look, removal and insertion by itself
and writes without it, and each is a step (`FirstFrame`, `RemoveHeld`, `AddMessage`,
`LookAtCache`, `WriteFrame`): between them the result's callback may take the message it
has in hand. That state is `torn`; memory is unsound from there, and the model
ends. Observers say how things went wrong: `late` (made after the key's test for the
next recording), `lacking` (the first frame found no memory), `reused` (its memory was
taken for the next message), `blended` (written to another one's message), `strange` (a
result without a message), `bad` (a call failed or was lost).

### How the models fit together

The components are composed by contract. `AipRecorder` assumes of its messages
what `AppFramework` shows (in order, at most once, possibly lost). `AsrService`'s
clients produce frames as `AipRecorder`'s `CallbackProtocol` shows. `RingBuffer` is
between AIP's callbacks and the tasks that drain them. `FreeTalk` and `WechatSend`
assume of recordings `CallbackProtocol` and `SessionsEnd`, of results `ResultsAreRight`,
of tones `ObjectsAreOwned`. Three modules compose directly, by extension: `PlayList`
over `PlayerMiddleware`, `MemoService` over `DeviceParams`, `MpushMsg` over
`MpushService`.

## 4. The runs

| Run | Properties | Shows | Instance |
|---|---|---|---|
| `framework_ownership` | `TypeOK`, `BlockOwnership`, `NoDanglingApp`, `CopiesAreRight` | entries have one owner; the walk meets no freed application; addressees only, in sending order | 2 services, 1 thread, 2 messages, 4 blocks, malloc may fail anywhere |
| `framework_delivery` | `Delivered` | an accepted message is processed by every running addressee | 3 services, 1 message, 4 blocks, no failure |
| `aip_sessions` | `SessionsAreSound`, `CallbackProtocol`, `SessionsEnd` | one session per callback, the loop's cursor on an open one, lengths kept; 1, 2, 3, ... and one end, and every frame except the one in which the head session ended; sessions end | 2 clients, 3 sessions, 2 waiting messages, all failures |
| `asr_shared` | `NothingLost`, `ResultsAreRight`, `Answered` | objects owned once, none stranded, no cloud session leaked; one result each, about its own recording unless a late object was filed, and from all its frames; every end answered | 2 clients, 2 recordings of up to 2 frames; malloc, the cloud and the bus may fail, the bus drops one copy |
| `ring_buffer` | `RingTypeOK`, `AddressesAgree`, `ImplementsQueue` | refinement of `ByteQueue` | 4 bytes, writes of 1 to 3 and 5 bytes |
| `wifi` | `SlotsAreKept`, `ConnectedIsTrue`, `NothingIsSkipped`, `Connects` | slots kept, services told the truth and deaf only if a loss was passed over or its message lost, every stored network tried and the phone's saved, the device comes on line | 5 slots; two rough worlds (phone, lost links, failures, early timeouts, and a key or a lost driver message), 14 calm ones (one, two or all slots saved, the ring at its last slot too, only the phone's network in range), 2 fresh ones (only the factory's network stored and out of range, calls fail, two phones, with and without early timeouts) |
| `playlist` | `ObjectsAreOwned`, `EndsAreOwn`, `ListGoesOn` | play objects owned once and told one end; a track is left only at its end unless ends were crossed; a list does not fall silent in its middle | 2 lists, 2 keys, lists or stops, 3 plays of which 2 tones, a status queue of 2, refusals and losses |
| `memo_kept` | `MemosAreRight`, `KeptUnlessTold`, `SpokenInTime`, `ImplementsStore` | a memo the user was told of is kept with its own text and time, the count is right, the task looks after its memos; what is in memory is in flash unless a caller holds the error, or in the named ways nobody does; refinement of `ParamStore` | 2 slots, 1 connection, 1 unit of time, 1 fault; 1 stored memo and 2 dictated with a cancel, or 1 dictated with a changed setting |
| `mpush` | `MessagesAreKept`, `ConnectedIsBound`, `WaitsForItsTone`, `MessagesGoOn`, `Reconnects` | no message lost or doubled but in the named ways (among them a spoiled offline reply); CONNECTED means bound; one tone at a time; each message is taken; the device connects again | 2 messages, one spoken; 1 loss (of the link, the connection, a write or an offline reply), 1 fault |
| `power` | `ToldAgrees`, `SleepsForAReason`, `ToldOfCharging` | no sleep without the idle time, but in the two statements round the clock's setting; services told of the charger | limit of 3 units, a jump of 3, 5 units, 2 plugs, 1 jump |
| `free_talk` | `MicrophoneOff`, `StaysQuiet`, `AnswersInTurn`, `TalkGoesOn` | a cancelled conversation stops listening and stays cancelled, answers in turn, and one that nobody cancels and that lost nothing on its way goes on | 3 questions of 2 frames, 1 wakeup word, 1 key, 1 fault (a message, an object or a report lost, a tone refused or paused, a wechat recording in between) |
| `wechat` | `MessageIsFound`, `MicrophoneIsFree`, `MessagesGoOn` | a message is in one place, every result finds it, what goes wrong with one comes of memory or of the key's stale test; after a release that was heard nothing is recorded and free_talk answers again; a message is sent or thrown away | 3 recordings of 2 frames, 4 presses, 1 failure, lost message or interruption |

A property is a conjunction where its parts answer one question; each part is defined
and commented by itself in the module.

Why the bounds are enough for what they are used for:

* `AppFramework`: the conflicts are between the main task and one application
  (dying while walked), one sender (inserting while distributed) and one other
  holder of blocks. Two applications and a thread give each; four blocks are as
  many as two messages and their copies take, and allocations fail by choice. The
  proofs of section 6 remove the bounds for the invariants.
* `AipRecorder`: a walk needs a first, a last and an ended element; with two
  clients each session is first or last. Three sessions give a replacement while
  another is open. Lengths 1 and 2 against frames of 1 and 2 let sessions end in
  the same frame, in different ones and past their length.
* `AsrService`: an interruption needs two recordings and each client has one; a
  stale object comes from the other client. A third recording repeats the second.
  Recordings below and at `MinFrames` are reached, and one dropped copy is what
  strands an object until the next request.
* `PlayList`: a crossing takes two plays of music and one input after the list; the
  third play lets a tone be between them or a looping list go round. A status queue
  of two is full with one status of each mode.
* `RingBuffer`: with four bytes every position of both addresses occurs, and each
  write may go round, fill the buffer exactly, or be cut short.
* `WifiManage`: five slots are the code's number. One saved network, two in either
  order, and a full ring, each with every slot as the one connected last, are initial
  states; a ring filled to its last slot is where the next save goes round to slot 1. The
  faults need one of each kind, as the order they come in is free. In the fresh worlds
  the device turns to smartconfig at once, and two phones can send two networks, which is
  the least that can be mixed up.
* `MemoService`: two slots can be empty, half full and full, and a third memo finds
  them full. A unit is 30 seconds: the clock's steps that matter are before, at and
  after a memo's time and past its expiry. One fault is one power cut, one refused
  operation of the flash, one changed setting or one reset, at any step, which is what
  can come between two steps of a save.
* `MpushService`: one loss of the link, the connection or an offline reply in each state
  of the machine, and one call that fails or frame that is cut; a second message is what
  follows one whose tone is played, or comes while its acknowledgement is written.
* `PowerManage`: the limit, the jump and the number of reminders are in units in
  which 1800 seconds are 3 and the reminders 2; the interleavings are those of one jump
  with one pass. Two plugs give the charger pulled and plugged during a tone.
* `FreeTalk`: the question cancelled, the one before it, whose number a cancel may
  take, and the one after. One fault is what breaks a chain in which each message starts
  the next.
* `WechatSend`: two messages queue, a third is refused or reuses memory; two recordings
  are enough for the second's first frame to meet the first one's result; the fourth
  press is the one that finds a stranded message.

`CHECK_DEADLOCK FALSE` stands in the configurations whose counters end (sent
messages, sessions, recordings, key presses): the real system waits there for the
next input. `RingBuffer` is checked for deadlock.

Each property has a *mutant* in `PROJECT.json`: a small error in one definition of
the code's behaviour that the property catches, so none holds by the shape of
the model. The mutants are the definitions with a suffix after `_`.

## 5. Fairness

* `AppFramework`: weak fairness of the main task and of each message loop. Each is
  a FreeRTOS task that sleeps 1 ms per turn; none disables the scheduler. Senders,
  starts and exits of services are not fair.
* `AipRecorder`: weak fairness of the AIP task's steps within a frame; strong
  fairness of `Receive`, because messages are taken between frames only and
  `app_msg_dispatch` takes one before it looks at the loop timeout; strong fairness of
  `ReadFrame`, since a driver may fail now and then but not at every frame. Clients
  need not stop or start anything.
* `AsrService`: weak fairness of taking a request and of finishing it, and of a
  client's call that has begun. That anybody records is not assumed.
* `PlayList`: weak fairness of the two tasks and of each call that has begun. The
  player need not end anything it plays, and nobody need send anything.
* `WifiManage`: weak fairness of the wifi task's state machine, the driver's event task,
  the radio's ending of an attempt, and the smartconfig task's storing a network and
  then the status it has decided on. `Connects` is claimed of worlds in which no driver
  message is lost, as nothing polls the link. Receiving is strongly fair, because a
  handler may not be running at that moment but the message loop returns to its queue
  after each loop timeout. Keys, phones and losses are not fair.
* `MpushMsg`: weak fairness of the service's taking an announcement, of its turns, of
  mpush_msg's loop, and of a tone's end, which is told or has its report dropped. The
  link, the server and faults are not fair.
* `PowerManage`: weak fairness of the pass and of `ClockIsSet`, the second of two
  statements. Time need not pass and nobody need plug anything.
* `FreeTalk`: weak fairness of each task's steps, of the service taking a message, of a
  tone's end (told, or its report dropped), of frames and ends of an open recording, and
  of the recognition's answer to an end it took. These are what `SessionsEnd` and
  `Answered` show of the components that are composed; `TalkGoesOn` excuses a question
  only if something of its own was lost or refused, or the network was gone.
  Nobody need say a wakeup word or press a key.
* `WechatSend`: weak fairness of a press that has begun and of the recording,
  recognition and wechat tasks. The key need not be released: a recording ends by its
  length.
* `RingBuffer`, `MemoService`: safety only. A memo is spoken only if the link, the
  server's time and the user's keys let it, none of which is promised.

## 6. The proofs

Proved by TLAPS for every value of the constants, under the assumptions the
modules name (TLC evaluates them in each run):

| Module | Theorem | Meaning |
|---|---|---|
| `AppFramework_proofs` | `TypeCorrect` | `Spec => []TypeOK` |
| | `EntriesOwned` | `Spec => []BlockOwnership`: no entry leaked, freed twice or used after free |
| | `WalkIsSafe` | `Spec => []NoDanglingApp` |
| | `CopiesInOrder` | `Spec => []CopiesAreRight`: what a service is given is what was sent to it, in the order of the sending |
| | `RingTypeCorrect` | `RingSpec => []RingTypeOK` |
| | `AddressesCorrect` | `RingSpec => []AddressesAgree` |
| | `Implements` | `RingSpec => ImplementsQueue`, the ring buffer's refinement of `ByteQueue` |
| `MemoService_proofs` | `TypeCorrect` | `Spec => []TypeOK` |
| | `ParametersKept` | `Spec => []KeptUnlessTold`: flash holds what memory holds or a caller has the error, but in three named ways |
| | `StoreImplemented` | `Spec => ImplementsStore`, the refinement of `ParamStore` |
| | `MemosRight` | `Spec => []MemosAreRight`: no memo is lost, torn or counted wrong |
| | `SpeaksInTime` | `Spec => SpokenInTime` |
| `AipRecorder_proofs` | `SessionsSound` | `Spec => []SessionsAreSound` |
| | `CallbacksInTurn` | `Spec => CallbackProtocol`, an action property: frames 1, 2, 3... and one end |
| `AsrService_proofs` | `NothingIsLost` | `Spec => []NothingLost`: every object has one owner, no cloud session is forgotten |
| | `ResultsRight` | `Spec => []ResultsAreRight`: a result once, with the text of the whole of its own audio |
| `MpushMsg_proofs` | `EveryMessageKept` | `Spec => []MessagesAreKept`: across losses of the connection, each message once, or lost or doubled in a named way |
| | `BoundWhenConnected` | `Spec => []ConnectedIsBound` |
| | `OneSpokenAtATime` | `Spec => []WaitsForItsTone` |
| `FreeTalk_proofs` | `CancelStopsListening` | `Spec => []MicrophoneOff` |
| | `ResultsInOrder` | `Spec => AnswersInTurn`, an action property |
| | `CancelledStaysQuiet` | `Spec => StaysQuiet`, an action property |
| `Services_proofs` | `MessageFound` | `Spec => []MessageIsFound`: a spoken message is in one place, freed once, written by its own recording and found by its result, but in the named ways |
| | `MicrophoneGivenBack` | `Spec => []MicrophoneIsFree` |
| | `ChargingIsTold` | `PowerSpec => []ToldAgrees` |
| | `SleepIsJustified` | `PowerSpec => SleepsForAReason`, an action property |
| | `ObjectsOwned` | `PlaySpec => []ObjectsAreOwned`: play objects owned once, told one end, then freed |
| | `EndsAreItsOwn` | `PlaySpec => EndsAreOwn`, an action property |
| | `SlotsKept` | `WifiSpec => []SlotsAreKept`: the factory's network stays, each network is stored once, no slot is filled behind an empty one |
| | `TheServicesKnow` | `WifiSpec => []ConnectedIsTrue`: told the truth, deaf only after a loss that was passed over or whose message was lost |
| | `NoNetworkIsSkipped` | `WifiSpec => NothingIsSkipped`, an action property: each stored network tried, the phone's saved but between the two calls that hand another's over |
| `Queues_proofs` | lemmas | what appending, removing and walking do to the elements of a list, to their places and to their being distinct |

The ring buffer is part of the framework and its proofs are in that component's module;
`Services_proofs` holds those of four services that share no state. The names in
`RingBuffer`, `PowerManage`, `PlayList` and `WifiManage` (`RingSpec`, `PowerSpec`,
`PlaySpec`, `WifiSpec`, ...) differ from those of the other modules so that one module
can extend several.

None of the invariants but `SlotsAreKept` is inductive alone. What each needs, and why:

**AppFramework.** That a block popped by
a service is not freed by `app_delete` needs that a service in its deletion holds none,
which is `ControlInv`: a service with an entry in hand is running, the main task holds
an entry except when it waits for one, the main lock is held exactly during the walk,
and an application not yet created or already freed has nothing queued. That a
distribution does not append to a freed object's queue needs `NoDanglingApp`, that
the cursor is on a listed, live object while the walk lasts. `IInv` is the
conjunction, with the type invariant; the step lemma has a case for each action, each
split into the conjuncts it disturbs. The malloc of the model is any operator that
returns free blocks, so the result does not depend on the allocator.

The order of the copies is `OrderInv`: a message passes the sender's hands, the main
queue, the main task's hands, an application's queue and the application's hands, and at
each of these places it is newer than all that is further on and behind what is before
it in the same queue. Each place is a conjunct (`OutIsNewest`, `MainInOrder`,
`CopyIsNew`, `AppsInOrder`), because a step moves a message from one to the next.

**RingBuffer.** The inductive invariant is type correctness with `write_addr =
read_addr + curr_len` round the memory. The refinement is by cases on the operation:
the queue's contents, read out of the memory through the mapping, after a write are
the old contents followed by what fitted, because the positions written are
disjoint from the `curr_len` bytes from `read_addr` on. This is arithmetic modulo
the length of the memory, for which the module has its own lemmas.

**DeviceParams, MemoService.** The types already need a count: the number of memos goes
down by one for each that is spoken or expired, and stays a number only because it is at
least the number of slots in use (`Counted`). `SaveInv` is the save's protocol: who
saves holds the lock or was let in by the reset that takes none (`SavesApart`), what is
written is whole (`SaveIsWhole`), and a save that failed was told or nobody looked
(`KeptUnlessTold` itself). The refinement maps the erase and the write of a save
to stutters and its return to the abstract store's step, by cases on the save's steps.
`MemoInv` follows a memo from the dictation through the hand-over (`HandOver`) into the
arrays of memory and flash, which agree with what the user was told (`ArraysAsTold`) as
long as no two dictations overlapped.

**AipRecorder.** `SessionInv` orders the numbers: a number travels one way, from the
client that took it to the queue, the sessions and the ended (`OneWay`); one not yet
opened was told nothing (`NotYetOpen`); the queue of sessions is by age of arrival
(`ByAge`), and a STOP or a younger START that is owed an open session is ahead in the
queue of messages (`OwedAhead`). The callback protocol is then a case on the three
actions that call back.

**AsrService.** Ownership of objects (`NothingLost`) needs `ClientInv`, where each client
is between its locked sections and which object it holds; the count of requests needs
the clients at their notification to be finitely many (`ClientsAssumption`). That
results are whole needs the order of the objects of a recording at all places from the
client to the cloud (`InOrder`, `InPieces`), that its end is the last (`AnswerEnds`) and
its first frame began the session (`HasBegun`); where an object was filed after another
recording had begun, the statement is waived, as in the invariant.

**MpushService, MpushMsg.** `WireInv` says what can be on the wire in each state of the
service, so that a frame read in a given state is of the kind the state expects;
`CountInv` that a message is at one of the places from the server to the speaker, and
what `str_comm_buf` was left with, for the reply without a body to find.
The frames the server pushes are none of its other frames (`FramesAssumption`: the
command byte tells them apart).

**FreeTalk.** `TalkInv` has the lock and the shape of the steps left of each function
(`Shaped`), the numbering of recordings (`Numbered`), that a cancelled open recording
has a STOP on its way behind it, or a task about to send one (`StopComes`), and that
each recording is behind those begun before it at every place from START to the result
(`InTurn`). `StaysQuiet` needs none of the order: the tests that compare the number to
be cancelled with the current one are re-established step by step.

**WechatSend.** A message is made of a recording, so where the message is follows from
where the recording is. `WaysApart` keeps the recordings apart: the number of a START
that is still under way, or of a recording that gave no frame, is known to no queue of
messages, and only a recording that is over has an end, a result or a message to send.
`Told` counts: a NEW_MSG on its way is one for a message that is in `upload_queue` or was
sent, so that a task woken by it finds one. `Cached` says what the frames' callback may
rely on though it has let go of the lock: one message is in the cache, it is the open
recording's when that has begun and found memory, and while it is there no other
recording is asked for unless the key had been tested before (`late`), for which STARTs
must be heard in order (`InOrder`). `InCache`, that the message of a recording to be
recognised is in the cache unless it had no memory or its place was taken, is why a result
finds what it logs. `StopIsLast`, that the last message of a key
that is up is a STOP, is the whole of `MicrophoneIsFree`.

**PowerManage.** `ClockSound` bounds the clock by the time that passed and the jumps;
`StampIsNoted` says that the time since the last note is at most the time nothing was
done, but between the two statements of memo_service, and so what the pass has read.
`ChargerNoticed` counts passes with the charger plugged in: after each the charging
state is one further, and from the fourth on each pass notes an activity itself, at
most one unit before the next comparison. `SleepsForAReason` then is a case on the three
steps that say goodbye. The proof needs `SleepSec > 1`, a limit longer than the time
between two passes: with a limit of one unit the note of the pass before would
already be too old. The code's limit is half an hour and a pass is made each second.

**PlayerMiddleware, PlayList.** That a refused object is taken out of the right queue needs
what each caller has in hand (`HandsFull`): an object of tones, or of music for the list's
task alone, and a refused one before it is dropped. `MadeFirst` says that nothing is
said of an object before it is made. `EndsAreItsOwn` follows one play of the list from
its hand to the player, to a status and to an event: `PlayedInTurn` has the first three
places apart, which needs that the player has at most one piece of music, and
`EndsAfterPlay` says that while no ends were crossed an event of the last play comes when
the player is through with it. The step that posts it is the only hard one: the status
is applied to the head of the queue, and `crossed` would be set if that were another.

**WifiManage.** `SlotsAreKept` is inductive because `save_wifi_info` relies on nothing
else (`SavedFacts`; the slot it finds is a least one, which exists by well-foundedness).
`ConnectedIsTrue` needs the reports on their way: while there is no link the last report
waiting is of a loss (`LastIsLoss`), and when no report waits the loss was passed over
or is in the messages, behind the last success (`LossIsTold`); a message the bus dropped
counts as passed over. For the round, `TurnIs` says that the slot tried last is that of
turn `connect_count`, counted from the slot connected last, and that the networks of all
turns up to it were tried; when the count reaches the number of slots every slot has had
its turn (`EverySlotHasATurn`), which is arithmetic modulo that number. This needs that
no save comes within a round, since a success ends one. For the phone's network,
`PhoneInv`: smartconfig is off while the wifi task goes round the slots, while it
listens the station is down, so a link then is one to the phone's network, which the
callback has handed over (`NetworkIsTaken`) when the phone is answered
(`SuccessIsOfCurrent`, which does not hold between the two calls that hand over the next
one).

**Only model-checked.** Liveness (`Delivered`, `SessionsEnd`, `Answered`, `ListGoesOn`,
`Connects`, `MessagesGoOn`, `Reconnects`, `ToldOfCharging`, `TalkGoesOn`) rests on
`ENABLED` and fairness and stays with TLC, as do facts that would need induction over
data. No module declares a recursive operator, so that each can be proved about.
Every safety property a run checks, invariant, action property or refinement, is a
theorem.

## 7. What the models show of the code

None of these is a run; each is a behaviour the models have because the code has it,
and the properties are stated up to it. Lines are of `components/`.

*AIP.* `AIP/aip_interface.c:219`: when the session at the head of the list ends, the walk
is left, and the sessions behind it miss 100 ms of a recording that :243 and :151 call
multi-channel. `CallbackProtocol` says that this is the only frame they miss.

*ASR.* `dcl_service/asr_service.c:629`: the test that refuses an object of an interrupted
recording is outside the lock that the filing takes; an object can be filed after the
other client's first one, and that result is then about both. `:642`: when the bus refuses
the message, the object stays in the queue and the caller frees it.

*WiFi.* `wifi_manage/wifi_manage.c:1030`: `wifi_connect_index`, "the wifi connected last"
(`device_params_manage.h:71`), is not always that. A success after its 8 seconds is stored
as the next slot's; so is one that the smartconfig task reports after the wifi task has
chosen another network, and a phone's second network changes the current one in between.
`:472` and `:474` take the lock one after the other: a save between them is of the network
just sent, though another phone was answered. `:229`: the message about a lost link is
not sent again when the bus has no memory.

*Memos.* `memo_service/memo_service.c:216`: a memo added to a full array should overwrite
the smallest date (comment at :211). The search starts from `time_min == 0` and asks for
less, so the first slot is taken, whatever its date. `:193`: a memo added before
the array was read is stored over what flash held.

*Parameters.* `device_params_manage/device_params_manage.c:307`: saving the memos falls
through into saving the OTA mode, with the number of memos for the mode: a TEST mode
becomes FORMAL. A save that failed is in memory, so setting the same value again compares
equal and reports success. The terminal's reset takes no lock. It and the start do not
look at their save's result (`:425`, `:409`).

*Push.* A failed update of the device's information is not retried, as the case falls
through to the list of servers. Replies are waited for without limit, and
`socket/socket.c:493` tries a failing `send` for ever. A push is acknowledged before there
is memory for it. A frame given up in its middle leaves its rest to be read as heads.
Offline messages are fetched while the old socket is still open, and are gone when their
one reply is: lost, or longer than `str_comm_buf` (`dcl_mpush_offline_msg.c:186`), when it
is cut, not parsed (`mpush_service.c:465`) and taken for read; a reply without a body has
the old contents of the buffer decoded again. `mpush_msg.c:218` sets
`play_status` after the tone was started: a tone that ends before that, cannot be
played, or ends when the player's queue of reports (`player_middleware_interface.c:492`)
is full, leaves it set.

*Power.* An activity in the four seconds of the goodbye is ignored. The count of
reminders is never reset. `APP_EVENT_AUDIO_PLAYER_PLAY`, which would make music an activity, is
sent by nobody. The state IDEL looks at the battery before the charger.

*Conversation.* A cancel is compared with the current number, not the result's. The end or
pause of the wakeup tone starts a recording even after a key has cancelled. A cancel
between a START and the note of its number cancels the number before. `pcm_queue` is
never cleared, so frames of the last recording can make the end-of-speech test stop the
next. `free_talk.c:1655` says the function stops the conversation for good; a question
whose start was tested before and is sent after is asked all the same. A tone that is
refused (`:922`), a report the player drops, or a question whose first frame the
recognition did not take (`asr_service.c:629`) leaves the conversation in silence.

*WeChat.* A recording without a first frame gets no result. A message that waits for a
result that never comes stays until the next recording's first frame takes its memory.
`upload_queue` is last in, first out, so one lost NEW_MSG of two strands the older message. A
release without a network leaves free_talk's `wechat_status` set and the recording
running. A recording that was asked for before the last one's message was made finds that
message at the head of the cache (`:418`) and removes it (`:427`) after it let go of the
lock: if the result's callback has taken it meanwhile, it is removed twice, cleared and
used by both. So is the message a frame is written to without the lock (`:465`). A result
without a message is logged through the pointer that was not found
(`wechat/wechat_service.c:262`).

## 8. What is not modelled

* Within modelled components: `app_remove_event`, which nothing calls; deletion of
  the services, which nothing requests; `recv_wifi_info_from_app` and the access
  point mode of `wifi_manage.c`, which nothing enters; encoding and batching of
  the audio in `asr_service.c`, which does not change what its steps decide; modes and
  events of free_talk and power_manage that nobody uses or sends; shallow sleep.
* `record_playback`, which `userconfig.h:53` leaves out of the build.
* `keyword_wakeup`, `ota_service`, `sd_music_manage`, `bind_device`: one task each
  that passes calls to a library or another service; what they start is in the models
  of those services (a wakeup word in `FreeTalk`, a list in `PlayList`, the OTA mode in
  `DeviceParams`).
* Protocols with the cloud (DCL), sockets, JSON, and wrappers of the RTOS: they
  format and call; the services' models let their calls succeed or fail.
* Drivers, codecs, the player and recorder libraries (binaries), the wake word
  engine, and audio data: external. They are most of the repository's lines.
* LED effects: each message overwrites the last, nothing relates two states.
* Data races within a macro of `app_queue.h`: a list operation is one step.

## 9. Plan

The components of section 1 that decide something of their own are modelled, and the
safety properties proved. What would say more, in this order:

1. `PlayList`: what a list plays as a refinement of a sequence of tracks.
2. `AppFramework` with `AsrService`: the request path over the message bus itself, in
   place of the bounded number of copies the bus drops.

Runs are kept to one per question and to a dozen in all.

## 10. Running it

    tlc -workers 2 -config AppFramework_safety.cfg MCAppFramework.tla
    tlapm AppFramework_proofs.tla

`PROJECT.json` names the module and configuration of each run. The longest run
takes two to three minutes on two cores; the proofs of each module from one to twelve
minutes from nothing.
