# A verification of the bt-app Bluetooth application

TLA+ models of `src/bt-app`, the Bluetooth application of Qualcomm's LE platform:
one process that sits on top of the Fluoride stack (reached through
`bt_interface_t` and the profile interfaces, external to this repository) and
turns it into a device with A2DP, HFP, PAN, HID, SDP, PBAP and OPP; and of the
OBEX client in `src/obex_profiles` that PBAP and OPP use. The models are checked
with TLC on small instances; for every component modelled TLAPS proves safety properties
for every value of the constants.

## 1. The system

Everything runs as threads of `osi`, each with one work queue. A thread never
calls another: it posts a `BtEvent` with `PostMessage(thread, event)`
(`main/src/ipc.cpp`), which looks the destination up in `threadInfo` and either
queues a call of that thread's handler or drops the event. Stack callbacks arrive
on the stack's thread and are posted the same way. The exceptions, where state is
really shared between threads, are the queue itself, the alarms, a few public
members of the A2DP streaming object, and the stream and flags that the A2DP source
and the HFP gateway share with the playback and record threads they create.

```
 user process --socket--> main thread --commands--> profile threads --calls--> stack
                              ^  |                   ^      |   ^               |
            MAIN_EVENT_(EN|DIS)ABLED |               |      |   +--callbacks----+
                              |  v                   |      v
                            GAP thread <--START/STOP_DONE   audio manager
                              ^                             (focus requests, releases,
                              +---- alarms, adapter state    control statuses)
```

### Inventory

| component (source) | state | operations | what is hard | what makes it correct |
|---|---|---|---|---|
| osi work queue and thread (`osi/src/thread.cc`, `fixed_queue.cc`, `semaphore.cc`) | bounded list, two eventfd semaphores, reactor stop event | new, post, stop, join, free; the loop and the final drain | list and semaphores change in separate steps of many posters; a thread posts to itself; stop races posts | places and signals conserved, FIFO once, tear-down dispatches what was posted, free returns |
| osi reactor (`reactor.cc`) | epoll set, invalidation list, `object_removed` | register, change, unregister, start, stop | an object unregistered while its event is in the batch | no callback on an unregistered object |
| osi alarm (`alarm.cc`) | sorted list, `monitor`, one callback lock per alarm, expired semaphore | set, cancel, free, dispatch | cancel against a callback in progress | after cancel no callback runs until the next set |
| GAP enable and disable (`gap/src/Gap.cpp`, `AdapterProperties.cpp`) | `state_`, start/stop status per profile, four alarms | enable, disable, adapter state, start/stop done, timeouts, SSR | profiles answer in any order, or never; timeouts race answers; default enable races the user | Bluetooth is announced on only when it is; the stack goes down last; every command ends |
| GAP discovery, bonding, devices (`Gap.cpp`, `AdapterProperties.cpp`, `RemoteDevices.cpp`, `Main.cpp`) | device table, bonded list, the main thread's copies, the inquiry list, three commands in progress | start/cancel discovery, pair, unpair, ssp/pin reply, callbacks | answers out of order, refused requests that report a state of their own | what the user believes agrees with the stack; each command ends |
| main application (`main/src/Main.cpp`) | `bt_state`, one command in progress, threads, sockets | menus, enable, disable, forwarding, signal handler | one outstanding command; answers nobody asked for | belief agrees with the adapter |
| audio manager (`audio_manager/src/Audio_Manager.cpp`) | `audio_control_stack`, two entries | request, release, enable, disable | two clients' messages in any order; two posts per grant | one owner, told so; the interrupted one gets it back |
| HFP client (`hfp_client/src/HfpClient.cpp`) | `mClientState`, `mAudioMode`, `mcontrolStatus` | connect, ring, call audio, focus | ring, call, disconnection and statuses interleave | no focus kept after the call, none believed that is not held |
| A2DP sink and streaming (`a2dp_sink/src/*`) | device list, `mStreamingDevice`, `controlStatus` | connect, start, stop, focus, clean-up | two threads share `mStreamingDevice`; statuses are handled late | plays only with the focus |
| A2DP sink split mode (`A2dp_Sink_Split.cpp`) | as the sink | as the sink | as the sink, with the audio path elsewhere | plays only with the focus |
| A2DP source and AVRCP target (`a2dp_src/src/A2dp_Src.cpp`) | `mSourceState`, output stream, `media_playing`, playback threads, play status, registered notifications, play position timer, absolute volume | connect, play, pause, stop, restart; controller's requests; volume | playback threads touch the stream while it is closed; a flag apart from its alarm; volume commands cross changes | stream closed before its owner goes; a controller that waits is told; the volumes agree |
| HFP gateway (`hfp_ag/src/HfpAG.cpp`) | `mAgState`, memorized requests, playback and record threads, their streams | connect, disconnect, audio, start, stop | requests cross callbacks; two threads with one handle | nothing records outside a call; state follows the stack; a disconnection ends |
| AVRCP, PAN, HID, SDP, PBAP, OPP | connection tables, transfers | forwarded commands, callbacks | enable/disable only | answer each start and stop once |
| GATT framework and library (`gatt/*`) | registrations, one request in flight | register, request, callbacks | a busy connection | one request at a time |
| OBEX client (`src/obex_profiles/profiles/obex/obexcli.c`, `obex_lower_socket.c`) | connection state, operation in progress, abort, bulk PUT list, timer, deferred disconnect | connect, authenticate, get, put, bulk put, setpath, action, abort, disconnect | responses carry no number: abort, single response mode and early ends cross them | an idle client has nothing on its way; every callback comes |
| OBEX server, OPP and PBAP (`src/obex_profiles`) | the server's operation, objects | serve, transfer | the same, from the other side | one operation per connection |
| property service (`src/property-ops`) | key-value list | get, set over a socket | none across threads | - |

`PROJECT.json` lists each component with its status, and under `hazards` the
places where the code is exposed, each with the properties that watch it or the
reason none does yet.

## 2. What is modelled

### OsiThread, WorkQueue: the worker thread

`OsiThread` is `thread.cc` with its queue and reactor loop. An action is one step
another thread can observe: an eventfd operation, or a list update made under the
queue's mutex.

| code | model |
|---|---|
| `thread_post` -> `fixed_queue_enqueue` | `PostBegin`, `PostWait` (`semaphore_wait(enqueue_sem)`), `PostAppend` (list under the mutex), `PostSignal` (`semaphore_post(dequeue_sem)`) |
| `run_thread`, `reactor_start` | `WorkerStart`, `EpollWait` (a batch of ready descriptors), `ReactorStops`, `ReactorDequeues` |
| `work_queue_read_cb`, `fixed_queue_dequeue` | `ReactorDequeues`, `Pop`, `Release` (which also calls the item), `RunEnd` |
| the drain after the loop | `DrainTries`, `DrainFindsNothing`, `Pop`, `Release`, with its bound `count <= fixed_queue_capacity` |
| `thread_new`, `thread_stop`, `thread_join`, `thread_free` | `ThreadNewReturns`, `ThreadStop`, `ThreadJoin`, `ThreadFree` |

A work item may post to its own thread (`SelfPost`), which is what every handler
of this application that sends itself an event does. `appended`, `executed`,
`promised` and `mark` are history. `WorkQueue` is the abstract promise: accept,
take and dispatch in FIFO order, one at a time, until the end. `OsiThread`
implements it (`ImplementsWorkQueue`), which is why the two modules below may
model a thread as a queue whose head is handled in one step.

### Alarm: the alarms

`alarm.cc`: the sorted list and the deadlines under the monitor, the POSIX timer armed
for the head of the list, its notification (`TimerCallback`, on a thread of its own), the
semaphore, and `callback_dispatch`. A section under the monitor is one action
(`AlarmSet`, `AlarmCancel` up to its unlock, `DispatchFindsNothing`, `DispatchTakes`),
except that the dispatcher keeps the monitor while it waits for a callback lock
(`dispatcher = "lock"`). `alarm_cancel`'s wait is `CancelLocks`, `CancelReturns`.
Callbacks run between `DispatchLocks` and `CallbackReturns` and may set and cancel any
alarm, their own included. `Tick` is the clock; a timer set for a time that has
passed expires at once and the semaphore is posted by hand too. `clean` and
`quiet` are history: which alarms a caller of `alarm_cancel` may rely on.

### GapLifecycle: turning Bluetooth on and off

The GAP thread's `ProcessEvent`, the main thread's commands and answers and
`InitHandler`, the profile threads' start and stop handlers, the audio manager's,
the four alarms, and the stack's adapter-state and SSR callbacks. Each thread
handles one message per step and posts to the others' queues; `PostTo` drops a
message for a thread that does not exist, as `PostMessage` does, and
`DropsMessage` is a thread whose profile object is not built yet. Profiles are
parameters: the ones that may fail (`Fallible`), those whose stop completes later
(`Deferring`), those whose thread `InitHandler` creates late (`Late`).
An alarm is a flag, and its expiry a message: what has been posted cannot be
cancelled. `killed` is the process ended by a timeout or by SSR.

### FocusStack, AudioFocus: who may play

`FocusStack` has the pure functions of `Audio_Manager.cpp`: what a request or a
release does to the stack and which statuses it posts, in order. `AudioFocus`
composes four threads: the audio manager, the HFP client, the A2DP sink and the
streaming thread, with their queues. Commands of the user and callbacks of the
stack are delivered and handled in one step (nobody waits for them, so time in
the queue is time before they are sent); everything the four threads send each
other is queued. The sink's handlers that post to the streaming thread and then
read or write the shared `mStreamingDevice` are split in two at that point
(`sinkDuty`), since the streaming thread may run between the two.

What the stack (external) may do is in `hfpLink` and `a2dpLink`: connections,
disconnections and audio of a link that is up, in the order a stack reports them,
with audio reported down before the link is.

### GapDevices: discovery and bonding

Three copies of what is known of remote devices: the stack's (external: `bonds`,
`pairing`, `scanning`), the GAP thread's (`bond_state` and `broadcast` of each entry,
`bonded_devices`) and the main thread's (`user_bonded`, `inquiry_list`,
`bt_discovery_state`, the three commands in progress), joined by the queues of the
two threads. An action is one event handled (`HandleBondStateEvent`,
`AdapterPropertiesUpdate`, `RemoteDeviceProperties`, `CreateBond`, `InquiryStatus`,
`HandleBondState`...), a command of the user, or a step of the stack or a peer.
Turning on and off is a coarse version of `GapLifecycle` without its failures. Two
histories say what the properties leave out: `misled`, that the last report of the
discovery was the code's own guess after a refusal and wrong; `abandoned`, that the
stack has nothing to report for a pairing the user waits for (it refused, or is off).
`MAIN_EVENT_DISABLED` does not reset `pairing_cmd`, so such a command stays in
progress until some other pairing ends.

### A2dpSource, AvrcpVolume: playing to a speaker

`A2dpSource` composes the source's thread with the playback threads it creates and
joins. A command or callback is handled in the step that delivers it; `pthread_join`
is two steps, with what the thread does afterwards in `duty`, and nothing else is
handled in between. A playback thread tests `media_playing`, writes and leaves in
steps of its own. The AVRCP target's part is the play status, the notifications that
are registered, and the position timer with its flag (`play_pos_timer`) and its alarm
(`posAlarm`) apart. `AvrcpVolume` has the volume: two scales and their conversions,
one command at a time, the speaker's answers and changes in a queue, the timer that
gives a command up, and the features callback, which resets the state from the
stack's thread. The two share no state, so `MCA2dpSource` runs them as two parts of
one run (`part`).

### HfpAg: the audio gateway

The gateway's thread with its queue `agQ`, in which the user's requests and the
stack's callbacks cross; one action per state and event that the state's handler
takes, and one for those it ignores. `memorized_evt`, the connection (`link`) and its
audio (`sco`) as the stack has them, the record thread, which is joined through the
handle both threads are created with (`record_tid`), and the playback threads, which
are not joined and may open their stream after it was closed (`late`).

### ObexClient: one OBEX connection

`obexcli.c` on `obex_lower_socket.c`: the state of a connection is the record `c`.
Callers of the API, the socket thread and the dispatcher (timers and deferred
functions) enter one at a time, as they hold the token of `oi_wrapper.c`, so a handler
and the callbacks it makes are one step. The server is external: it reads a request
(`ServerReads`), owes answers (`owed`, `stream` in single response mode), answers with
any code (`ServerAnswers`) or closes the link. `waits` tells the callback the upper
layer waits for, "odd" or "even" in turn, so that the one of a block is not mistaken
for that of the next. `crossed`: an abort was confirmed by the response to a PUT, after
which nothing more is claimed. `life = "crashed"`: freed memory was used; the behaviour
ends. In `MCObexAndDevices` `GapDevices` is the second part of its run, as above.

## 3. The runs

| run | instance | what it checks |
|---|---|---|
| `osi` | 2 posters and the worker itself, capacity 2, 4 items, self-posts | semaphores and list agree, FIFO and once, a quiet stop dispatches everything posted before, accepted items are executed, `thread_free` returns, the one exception (a self-post on a full queue) is permanent, refinement of `WorkQueue` |
| `osi_stop` (violated) | 2 posters, capacity 2, 2 items | the comment about tear-down in `run_thread` |
| `alarm` | one thread and the callbacks, 2 alarms, periods of 1 and 2, 3 ticks | `alarm_cancel` keeps its promise, the list is the schedule, no expiry is lost, periods do not drift, what is due is dispatched, `alarm_cancel` returns |
| `gap` | three configurations (sink, audio manager, SDP, PBAP; SDP and PBAP only; sink, audio manager, SDP on by default), 3 commands, an SDP client that may fail | what is announced is true, answers are asked for, the stack goes down last, never half up, every accepted command ends |
| `gap_default` (violated) | default enable, 3 commands | "all profiles started now, now send BT ENABLED event" |
| `gap_timers` (violated) | 2 commands | a cancelled start-up timer is quiet |
| `focus` | 2 devices, 2 messages in flight | room on the stack, who was told what, no stuck call, a call gets its audio, interrupted music comes back |
| `focus_belief` (violated) | 1 device, 2 messages in flight | "we already have the focus" |
| `source` | 2 playback threads, 1 queued timeout; volume steps 0, 7, 15, a speaker that chooses 0 or 64, 2 messages | the stream is owned, a waiting controller is told the status and the position, joins return; the volumes agree |
| `hfpag` | 1 playback thread at a time, 3 queued messages, 2 memorized | nothing records outside a call's audio, the state agrees with the link, a disconnection ends |
| `obex` | 3 blocks of a bulk PUT, 2 packets of the server; 3 devices, one of which is paired, an inquiry list of 2 | an idle client has a quiet wire, every callback comes; bonds and discovery agree between stack, GAP thread and user, the commands end |
| `obex_abort` (violated) | 2 blocks, 2 packets | "This should be the response to the abort command" |

### Bounds

* `Items` is the number of calls of `thread_post` in a behaviour. Four items on
  two places let the queue fill, block posters, wrap around and leave items behind
  for the drain. The proofs remove the bounds.
* `MaxCommands` counts commands that the main thread accepts: three for enable,
  disable and enable again. Nothing of one cycle survives but stale messages, and
  those of the previous one are enough.
* `MaxInFlight` is the number of messages queued between the four audio threads
  when a new command or callback is taken; handlers themselves are never bounded,
  so more than two are on their way at once. The proofs remove the bound on devices
  and on messages.
* `MaxTime` stops the clock of `Alarm` after three milliseconds: an alarm of two that is
  set at the start can be late by one, be set again or run a second period.
  `MaxExpired` bounds the expiries outstanding when somebody sets or cancels; with two,
  the double post of a late timer is included. One thread and a callback are
  two callers that set, cancel and wait at the same time.
* `Player`: two playback threads show that the source joins the last one created
  while an older one may still run. `MaxLate` bounds the messages of the volume's
  queue, `MaxTimeouts` the queued position timeouts: with one, the timer cannot expire
  again before the last expiry is handled, which takes one of its periods.
* `MaxQueue` is the number of messages waiting in the gateway's queue when the user
  asks for something or a connection comes up; callbacks of what goes down are not
  bounded. `MaxMemory` two lets a second memorized request follow the first.
* `MaxBlocks` three: one confirmed, one sent and one queued block of a bulk PUT at the same
  time. `MaxInbound` two: a packet and the one that follows it before it was read.
* `MaxEvents` of `GapDevices` bounds the queues when the user or a peer begins
  something; what the stack ends, and what that leads to, crosses it freely. One device
  is paired, so that the others of the inquiry list stay in it; three devices for a
  list of two places, so that it is full.

Deadlock is not checked, because the system may rest: all threads waiting, the process
ended, or in `ObexClient` freed memory used. That nothing waits which should not is
what the liveness properties say.

### Fairness

Weak fairness of each thread that has something to do: the kernel schedules
runnable threads. In `OsiThread` also of callers that are inside `thread_post`
and of the owner that is inside `thread_free`, but not of calling them; in
`GapLifecycle` also of an armed alarm's expiry. In `Alarm` strong fairness is needed
where a thread waits for a callback lock and where a callback returns: it stands for
the program not calling `alarm_set` and `alarm_cancel` without end; POSIX mutexes
promise nothing against a thread that takes them over and over. In `A2dpSource`: of the
playback threads, of `pthread_join`, which returns once the thread has ended, and of the
position timer; in `HfpAg` of the gateway's thread, of an audio thread that was told to
stop, and of the stack, which ends an audio or service connection it was asked to end
(the gateway has no timer for it); in `ObexClient` of the socket thread's connect,
write and read and of the dispatcher, of nothing of the server, the link or the upper
layer; in `GapDevices` of the two threads and of the stack, which ends a discovery after
its time and a pairing with a result. Otherwise nothing is assumed of the user, the
peers or the stack: when the adapter never answers, the alarms cover it. The disable
of the A2DP sink first waits for a clean-up without any alarm; `DisableEnds` holds
because the sink's thread exists and answers.

### What the violated runs show

* `osi_stop`: `run_thread` says that all queued work is dispatched before the
  thread exits, so that an owner may enqueue a tear-down item and join. The drain
  counts signals. If another thread has appended its item and not yet signalled
  it, an item behind it whose `thread_post` has returned stays in the list.
  `TeardownDispatched` is what does hold: the promise, when no other post is
  half done at `thread_stop`.
* `gap_default`: the default enable is not noted as a command in progress, so a
  user's enable during the start-up is accepted and answered ON at once.
* `gap_timers`: a start-up timeout already queued when the last profile reports is
  handled after it and kills the process, though both alarms were cancelled.
* `focus_belief`: a ring that stops before its grant is handled leaves
  `mcontrolStatus` at GAIN_TRANSIENT after the release. The next call opens its
  audio path without asking, with no entry on the stack, over the music.
* `obex_abort`: when a bulk PUT is aborted, the ABORT goes out as soon as the last packet
  is written, and the response to that packet, still on its way, is taken for the
  abort's.

## 4. The proofs

### OsiThread_proofs

For any number of posters and items and any capacity, from `OsiAssumption`:

* `TypeCorrect`, `SemaphoresConserved` (the two semaphores, the list and the types), `DispatchIsFifo`: by the inductive invariant
  `Inv == TypeOK /\ ControlInv /\ PlacesConserved /\ SignalsConserved /\ FifoOnce`.
  None of the parts is inductive alone: `Pop` needs that the list is not empty
  (`SignalsConserved`), and that `item` is an item exactly between `Pop` and the
  end of its function (`ControlInv`).
* `TeardownGuarantee`: with `TeardownInv`, which counts: while the worker drains,
  the items before `mark` still in the list are no more than the signals that
  the drain will find, given that no post was half done at the stop. That the
  drain does not give up early uses `PlacesConserved`: a list that fits in the
  queue fits in the drain's count.
* `SelfBlockStable`: an action property, from `Inv`.
* `Refinement`: `Spec => ImplementsWorkQueue`, the abstract steps being
  `PostAppend`, `Pop`, `Release` and the worker's exit.

### AudioFocus_proofs

For any number of devices and of messages in flight, from `FocusAssumption` and
`AudioAssumption`:

* `FocusBounded` and `StackNeverOverflows`: the stack takes four shapes. The
  invariant `FocusInv` restricts what may be in the audio manager's queue: only the
  two requests and two releases the profiles post. From the shapes, a call's request
  is never denied, and the HFP client is only told that it has gained the focus.
* `MusicKnowsItsPlace`: `PlaceInv` says it of the pair (stack, last told), and each
  request or release is shown to change both together.
* `CallsAreReleased`, `CallEntryIsOwned`: `HfpInv` relates the HFP client's mode,
  its status, the statuses queued to it, and the last of its messages queued to
  the audio manager; it is needed because a status can be queued across a release
  or a disconnection, when neither the stack nor the client's state shows the claim.
* `AudioTypes`: the type invariant.

### Alarm_proofs

For any number of threads, alarms and periods, from `AlarmAssumption`; the clock and
the expiries outstanding may have any bound. `SpliceList`, `WithoutList`, `InsertList`
and `MoveList` say what taking an alarm out of the list and putting one in do to its
members and its front.

* `TypeCorrect`: with `Sound`, which adds that the list names an alarm once, that a
  period is never 0 and that whoever is inside `alarm_cancel` cancels an alarm.
* `NoExpiryIsLost`: `HeadIsCovered` is inductive beside `Sound`. The step that counts is
  a set or cancel that leaves the timer alone: the front of the list is then the same.
* `CancelledIsFinal`: by `CancelInv`. A cancelled alarm is out of the list from the
  moment the monitor is released, and its callback can be in progress only while
  the caller still waits for the callback lock. That the dispatcher keeps the monitor
  until it has that lock (`IdleFiresNothing`, `MonitorFree`) closes the gap between
  taking the alarm and calling it.

* `ListIsTheSchedule`: `Scheduled` says that the deadlines grow along the list
  (`Ordered`) and that an alarm is listed exactly when it is set (`Lists`). It is
  inductive beside `Sound`: `WithoutOrdered` and `InsertOrdered` say it of taking an alarm
  out and of the insertion before the first later deadline, and `OrderedForOthers` of the
  moment between, when the deadline has changed and the alarm is in no place.
* `PeriodicAlarmsDoNotDrift`: the next time of an alarm, computed from its creation, is a
  multiple of its period after that (`NextMultiple`), whenever the dispatcher comes to it.

### A2dpSource_proofs

For any playback threads, notifications, steps and volumes, from `SourceAssumption` and
`VolumeAssumption`.

* `SpecStreamOwned`, `SpecControllerKnows`: the two are inductive together
  (`SourceIInv`), because the model keeps in `duty` what a handler has left to do after
  `pthread_join`: a stream that outlives its owner is one that such a duty closes.
* `VolumeVolumesAgree`: by `VolumeIInv`. The last message on its way to the source that
  carries a volume carries the speaker's, and if none does the source has that volume
  (`Follows`); histories exempt in it what the property exempts.
* `RoundTrip`: each of the 16 steps, converted to the speaker's scale and back, is the
  same step; it is the arithmetic in `VolumesAgree`.

### HfpAg_proofs

For any playback threads and bounds, from `AgAssumption`: `SpecRecorderOwned` and
`SpecStateAgrees`. A state of the gateway says little while callbacks wait behind it, so
the inductive invariant is about the queue: the callbacks in it lead, step by step, from
the connection as the gateway believes it (`Believes`) to the one the stack has
(`StackView`); `Leads` has the views in between as a witness. Handling a message takes the
first step away and posting adds one, so no handler meets a callback its state does not
fit. `ThreadsOwned` says which states have joined the record thread, `StartIsFresh` that a
start never overtakes callbacks of the time before.

### GapDevices_proofs

For any devices and lengths of the queues, from `DevicesAssumption`: `SpecIInv`,
`SpecBondsAgree`, `SpecDiscoveryAgrees`. The same idea for two queues in a row: the last
event that speaks of a matter (a discovery, the bond of a device) decides what its reader
will think of it when the queue is empty. `Leads(queue, says, from, to)` is that, and
`DiscoveryLeads`, `BondsLead`, `UserLeads` chain the user's view over the GAP thread's to
the stack's. `Handshake` is needed because the reports of turning off speak of every
matter: there is one switch at a time, and its event fits the adapter.

### GapLifecycle_proofs

For any profiles, configurations, commands and lengths of the queues, from
`GapAssumption`: `SpecAnnouncedIsTrue`, `SpecAnswersAreAsked`, `SpecNeverHalfUp`,
`SpecBeliefAgrees`, all of a process without a default enable, as the properties say. The
inductive invariant `OneCommand` lists the places where the one command can be (asked,
with the stack, with the profiles, with the audio manager, answered), with what is true of
adapter, profiles, status arrays and inboxes in each. The GAP queue is seen as the set of
what it carries of the protocol (`Carried`), since timeouts and a restart of the stack
stand in it between; each message of the protocol is in it `Once`. The proof has a lemma
per handler that says from which place to which it takes the command.

`SpecStackDownLast` is `StackDownLast` for every configuration, the default enable
included. There InitHandler's enable and the user's may both be under way, the main thread
takes the answer to one for the answer to the other, and `start_status` may be that of an
earlier start when the adapter comes on again, so `OneCommand` does not hold. The second
inductive invariant, `TwoCommands` (theorem `SpecTwoCommands`), goes by the phase of the
adapter:

* `OffPhase`, `ComingPhase`, `GoingPhase`, `StartAgain`: the profiles are idle and their
  inboxes empty; apart from the commands there is at most one message of the protocol
  (`Rest`), the stack's answer or the request to start.
* `OnPhase`: either no disable has been taken (`NoDisable`), or one is at one place of its
  way (`SinkCleaning`, `SinkCleaned`, `StopsRun`, `ManagerAsked`, `ManagerOff`). Starts may
  still be pending beside it; `Begun` says that a profile with a start pending is not
  counted as started, so it is not asked to stop, and that the stops cannot all be
  answered before it has started: with every profile stopped, only the audio manager may
  still have a start before it.
* For each phase, `OffMain`, `OnMain`, `OnMainAll`, `DisMain` and `GoingMain` list what the
  main thread may be waiting for, the commands in the GAP queue in their order
  (`AsksOne`, `AsksTwo`) and the answers on their way: two at most. `StrictOff` and
  `StrictOn` are what is left once `start_status` is old: no second command comes then.
* `BT_AM_DISABLE_DONE` is the last message of its queue apart from timeouts (`LastIs`), so
  nothing is left behind when the stack is told.

One lemma per handler (`StartDoneTwo`, `StopDoneTwo`, ...) says that `TwoCommands` is kept.

### ObexClient_proofs

For any number of blocks of a bulk PUT and of packets on their way, from
`ObexAssumption`: `SpecIInv`, `SpecQuietWire`. A request is in one of three places: the
packet to be written, what the server owes, what the client has not read. For each state
of the client `Protocol` says what the three hold together, and how far the server is in
single response mode:

* `Simple` (SETPATH, an action): one request, in one of the places.
* `Gets`, `GetStream`: outside single response mode one request; in it the server goes on
  sending packets, or has ended with the last one unread.
* `Puts1`, `BulkPuts`: in single response mode nothing is answered but the final packet,
  and that one is the last block, with every block before it sent.
* `Aborts`: the ABORT is the last of what is unread, owed and to be written, in this
  order, and nothing before it confirms it, except the response to a PUT. That exception
  is the one `obex_abort` shows; afterwards the connection is `crossed`, and nothing more is
  said of it.

All this is said of a connection that has not failed (`Live`): after `OBEX_FatalError` it
is only freed. There is a lemma for each operation, for each response and for each step of
the server. They rest on lemmas that say which fields a function of the connection changes
(`SendPacketIs`, `FatalIs`, `SendAbortIs`, ...).

### Only model-checked

* All liveness: fairness and ENABLED are out of the prover's reach. `TypeOK` and the
  invariants above are what the runs share with the proofs.

No module declares a RECURSIVE operator.

## 5. What is left out

Inside the modelled parts:

* Audio: PCM data and its timer, codecs, AT results and call commands that go straight
  to the stack; the HAL (opening an output of the sink is assumed to succeed). Music
  that asks during a call is denied and has no entry, so nothing resumes it:
  `MusicComesBack` says nothing of it.
* A2DP source: the split and pumping modes, browsing, element attributes. HFP gateway:
  VoIP calls, AT responses, the numbers of calls, the build with a modem.
* GAP: links closed before a disable, SSP and PIN questions, the properties of adapter
  and devices, the automatic discovery test; `GapDevices` has none of the failures of
  turning on and off that `GapLifecycle` has.
* OBEX client: headers and bodies, the parameters that suspend single response mode,
  memory that runs out, calls made inside the callbacks of `FreeConnection`, and what
  follows a crossed abort.
* The command menus and sockets of the main thread; its signal handler, which posts a
  disable, sleeps three seconds and tears everything down; the reactor's registration
  from other threads; `semaphore_try_wait` leaving O_NONBLOCK set when it fails, which
  only the drain meets, as its last step; `alarm_cleanup`, which nothing calls (it frees
  the semaphore before the timer and hands `timer_delete` the address of the timer).

Parts not modelled at all are listed in `PROJECT.json` with the reason. They are the larger
part of the repository: the OBEX server, parser and platform code of the vendor,
profiles and a GATT library that pass requests and callbacks through between the stack
and a menu, command tables and printing, test programs, and conversions without state.

## 6. Plan

1. Done: `OsiThread`/`WorkQueue` first, since every other module rests on its FIFO
   queues; `GapLifecycle`; `FocusStack`/`AudioFocus`; the proofs about the first and
   the last.
2. Done: `Alarm`, whose promise `GapLifecycle` uses, and its proofs.
3. Done: `A2dpSource` and `AvrcpVolume`, `HfpAg`, `ObexClient`, `GapDevices`.
4. `Reactor` (`reactor.cc`): objects unregistered from the reactor's thread and from
   others, against the batch being handled. Two objects, one other thread.
5. The split sink, which takes the sink's place in a composition with `FocusStack`;
   `Pan`; the GATT library's request queue; the OBEX server, and OPP and PBAP on top.
6. Done: the proofs about `Alarm`, `A2dpSource`, `AvrcpVolume`, `HfpAg`, `GapDevices`,
   `GapLifecycle` and `ObexClient`; every safety property a passing run checks is a theorem.
