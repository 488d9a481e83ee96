# Cohavora: verification of the meeting client

Cohavora is a meeting client for Windows: C++20, Qt, native WebRTC and the
LiveKit signalling protocol. This directory holds TLA+ models of its concurrent
core, the configurations with which TLC checks them on small instances, and
proofs, checked by TLAPS, of the properties that matter most for every value of
the parameters. The code is the reference: every definition that models code is
listed with its lines in `PROJECT.json` (`map`), and every property has there a
mutated definition that breaks it.

Paths below are relative to the repository; its sources are under `src/`.

Contents: [the system](#1-the-system), [the modules](#2-the-modules),
[the runs](#3-the-runs), [what was found](#4-what-was-found),
[the proofs](#5-the-proofs), [what is not modelled](#6-what-is-not-modelled),
[the plan](#7-the-plan), [how to run it](#8-how-to-run-it).

## 1. The system

A session is one `Room` with its own `asio` io thread. Native WebRTC threads,
the signalling WebSocket and timers post to that thread; the meeting
coordinator (`src/core/meeting_coordinator.cpp`) runs the room's coroutines on it, keeps
the feature state of the meeting on a strand and shows the user interface
projections of it by Qt signals. Leaving hands the room to one application-owned
worker thread (`src/core/session_shutdown_service.h`), which retires it, waits
for its callbacks to drain and frees it. `README.md:259` of the repository names
the difficulty: whoever changes meeting state or callbacks must think of
leaving, of reconnecting and of old callbacks that arrive late.

### Components

| Component | State | Operations, and who calls them | What is hard | What makes it correct |
|---|---|---|---|---|
| Native shutdown service (`core/session_shutdown_service.h`) | job queue, outstanding count, retained failures, flags, callbacks | Submit, SubmitCleanup, SubmitSessionCleanup, DrainAsync, ShutdownAsync from any thread; one worker; completions posted to the Qt thread; destructor | exit decision against late jobs, cleanups that throw, join on the UI thread, quitting | nothing native lost; drained and stopped tell the truth; every request ends |
| Room session lifecycle (`core/room.cpp`) | connection state, session generation, installed session, reconnect flags and budget, pending cleanup | ConnectAsync, Disconnect, Retire, signal events, AttemptReconnect, listener delivery | io thread against application thread; coroutines that wake in another session; leave against reconnect | one owner of a session and of its recovery; a leave is obeyed; listeners hear a sensible story |
| Executor gate and operations (`core/executor_lifetime.h`, `core/operation.h`) | closed, tickets in flight, registered cancellations; per operation state, waiter, timer | Enter, Post, completion of native callbacks, awaitable waits; Close and WaitForDrain on the worker | native answer, timeout, drop and close race for the same operation | exactly one outcome; a drain that means quiet; retirement ends |
| Remote control (`core/remote_control/*`, `core/meeting_remote_control.cpp`, `platform/win/remote_input.cpp`) | protocol state and numbering on each side, lease, admission token, input queue, posts | user actions, peer messages, 50 ms tick, input thread, local hooks | two machines, three actors each; consent withdrawn while input is under way | only approved and fresh input is injected; both sides agree; sessions end together |
| Signalling client (`signal/signal_client.*`, `signal_stream.*`) | join and reconnect state, request queue, heartbeat, buffered events | Connect, Restart, Send, FlushQueue, HandleClose, heartbeat | a lock held over an await; messages between response and callback; queued requests that fail | requests in order, none lost in silence; no event lost around a resume |
| WebSocket, regions, credentials (`signal/websocket_client.*`, `region_provider.*`, `credential_url.*`) | close handshake, region list and its age | connect, send, close; next region | close against read and write in flight | one close, failover terminates |
| Participants, events, memberships (`core/participant*`, part of `room.cpp`) | incarnations, tickets, an event queue | UpdateParticipants, DrainParticipantEvents | events of an earlier incarnation; delivery outside the lock | joined and left alternate; no event of an absent participant |
| Publication catalogue (`core/publication_catalog.*`) | publications and revisions by participant | Apply, snapshots | late revisions | never goes backwards |
| Subscriptions and remote media (`core/remote_track_publication.*`, part of `room.cpp`) | desired and confirmed subscription, media bindings | SetSubscribed, track events, recovery | answers of an older wish; media without its publication and the reverse | the last wish wins |
| Negotiation (`rtc/webrtc_manager.*`, part of `room.cpp`) | pending offer, queued renegotiation, candidates | HandleOffer, HandleAnswer, Negotiate, ICE restart | glare, answers to superseded offers | one offer in flight; every wish is negotiated |
| Publishing (`core/local_*_track.*`, part of `room.cpp`) | pending publications, senders, republish list | Publish, Unpublish, mute, republish | a server answer after an unpublish; full restarts in between | a published track has a sender; no sender outlives its publication |
| Whiteboard (`core/whiteboard/*`) | authority, sequence, log, proposals, freezes | propose, commit, snapshot, handoff, peer left | two authorities, old snapshots | one log, one authority |
| Screen share (`core/screen_share_session.*`) | run, fallback, failed stop | start, stop, source lost | unpublishing that fails | nothing captured after a stop |
| Data streams, chat, RPC (`core/data_stream*`, `rpc/*`) | partly received streams, pending calls | chunks, trailers, abort | missing or late chunks, a peer that leaves | a stream ends once, whole or aborted |
| Coordinator, session runtime, startup transaction (`core/meeting_coordinator.*`, `meeting_session_*`, `meeting_startup_transaction.h`) | meeting state, session generation, startup phase | join, leave, OnDisconnected, OnReconnecting, OnReconnected | cancel against publish; callbacks of an older session | a start commits or is rolled back, once |
| Account session, meetings (`net/*`, `core/meeting_catalog_controller.*`) | authentication generation, pending login | login, logout, refresh | answers after a logout | one user at a time |
| Video demand, media capture, rendering (`core/video_demand_*`, `media/*`, `render/*`) | hysteresis; camera owners; leases of sinks | per view and frame | ownership of devices between preview and meeting | a device has one owner |
| Frame encryption (`e2ee/*`) | key ring, ratchet | set key, encrypt, decrypt | keys that change under frames in flight | old frames decrypt, or are dropped |
| Telemetry (`telemetry/*`) | bounded queues, segments and a manifest on disk | record, checkpoint, recover | a crash between two writes | what is named by the manifest is readable |
| Updates (`update/*`) | check, download, verification | check, apply | files that change between checks | only verified packages run |
| User interface, samples, build (`ui/*`, `app/*`, `samples/*`, `packaging/*`) | widgets | | | acts through the coordinator only |

Modelled are the shutdown service, the room's lifecycle, the executor gate and
the signalling client; in part remote control, the WebSocket client,
subscriptions, the whiteboard, and the coordinator with its startup transaction.
The rest is planned or deliberately left out (`PROJECT.json`, `components`, gives
the reason for each). What is hard to test in the code that is modelled is in
`PROJECT.json`, `hazards`, with the properties that watch it or the reason why none does.

### How the modelled parts meet

* `MeetingCoordinator` is the top. It owns a session, whose room is
  `RoomSession` seen through its listener (it comes up or is refused, is interrupted,
  restored or lost, or falls silent), and stops it by a job for the shutdown service: `Retire`,
  `CleanedUp` and `CleanupFails` are the outcomes of a job in `SessionShutdown`.
* That job calls `room->Retire()` (`RoomSession!Retire`), whose last part is
  closing and draining the callback gate (`ExecutorGate`).
* `RoomSession` abstracts the coroutines' native waits: an await may succeed or
  fail. `ExecutorGate` shows what they rely on: an operation ends with one outcome, and
  retirement does not wait for native threads.
* `RoomSession` has one variable for the socket (`stream`: live, lost, gone) and a
  Close event that tells of its loss. `SignalClient` shows that the event always comes
  (`DeathIsReported`), unless the I/O thread is blocked (finding 3), and that no socket
  survives the room (`GoneReleases`).
* `Subscriptions` takes a room that is lost, resumed or rebuilt, from `RoomSession`, and writing
  that only queues, from `SignalClient`, and adds the strand's plans.
* `RemoteControl` and `Whiteboard` run above connected rooms. Remote control's
  messages are reliable and ordered, and a leave or reconnection reaches it as a revoked epoch or a
  lapse; the whiteboard has broken connections, full send buffers and restarted
  programs of its own.

## 2. The modules

| Module | Models | Extended by |
|---|---|---|
| `SessionShutdown` | shutdown service, its worker, the Qt thread's part | `SessionShutdownProofs` |
| `RoomSession` | lifecycle of a `Room` | `RoomSessionProofs` |
| `DrainBarrier` | abstract: what the callback gate promises | instantiated by `ExecutorGate` |
| `ExecutorGate` | callback gate, completions, awaitable states | `ExecutorGateProofs` |
| `SignalClient` | signalling client, its streams, the server's end, the room's use of it | `SignalClientProofs` |
| `Subscriptions` | subscription session of a room, recovery handshake, session strand | `SubscriptionsProofs` |
| `MeetingCoordinator` | coordinator, startup transactions, posts, cleanup | `MeetingCoordinatorProofs` |
| `RemoteControl` | protocol machine, UI posts, input backend, data channel | `RemoteControlProofs` |
| `Whiteboard` | whiteboard runtimes and documents, host changes, channels | `MCWhiteboard` (symmetry), `WhiteboardProofs` |

Every module follows the same conventions. One action is one critical section,
or the code between two awaits where only one thread is concerned, with
everything it calls: a trailing notification or cleanup is part of the action.
The names are the code's wherever there is one. Sets of flags stand for boolean
members. A definition marked `Mutant` is a plausible bug; it is not part of the
specification.

### SessionShutdown

Callers submit jobs of three kinds (`Submit`, `SubmitCleanup`,
`SubmitSessionCleanup`), a job returns or throws. The worker's loop is split
where it takes and releases the mutex: `wait` for work, `run` the job, `claim` the
heap maintenance, `maintain`, `report` the completion, `settle` the count, go
`idle` and tell the application thread, or leave. A cleanup that throws stays in
`failedJobs` with its captures and keeps its slot in `pending`: neither drain nor
stop will ever be announced. The application thread takes posted callbacks one
at a time; a drain or stop callback is delivered only if the counter still says
so at that moment. `Quit` closes the dispatch endpoint; `Teardown` is the static
destructor, which joins the worker even if nobody asked for a stop. Exhausted
resources that call `std::terminate` set the flag `terminated`. Left out: how long a
job runs, log lines, and the result of the heap maintenance.

### RoomSession

`gen` is `session_generation_`, `installed` is `installed_session_generation_` and the
installed client, `stream` its socket. A coroutine of `ConnectAsync` is a record of
`joins`, a coroutine of `AttemptReconnect` an element of `episodes` whose `pc` is
the await it sleeps in (delay, signalling restart, ICE, rejoin, republish, data
channel). After every await the code compares the generation; so do the
actions, including the cases where it does not. `inbox` is the queue of the io
thread: signal events and spawned coroutines. A lifecycle notification is
committed under the lock and delivered after it (`ioDelivery`, `appDelivery`), so that
another thread fits between. `flags` holds `reconnect_active_`,
`reconnect_disabled_`, `disconnect_finalizing_`, the full-restart flag,
`suppress_next_connected_event_`, `retired_`, and two history marks: who ended
the session. `DisconnectAnywhere` tells whether Disconnect runs beside the io
thread or on it. Production leaves through `Retire` on the shutdown
worker (`meeting_coordinator.cpp:4444`), the samples call Disconnect on the io
thread, and so does the run; the theorems hold for both.
Participants, media, subscriptions and requests are abstracted: what depends on
them may succeed or fail.

### ExecutorGate and DrainBarrier

A call or completion that has entered the gate holds a ticket; `inFlight` counts
them. `Close` swaps the registered cancellations out under the lock, calls them
one by one (`Cancel`) and only then sets `finished`; `Drain` is `WaitForDrain`.
An operation is completed by whoever comes first: a native thread, its timer,
the cancellation, or its own destruction (`Drop`). Where the code unlocks
between deciding and acting (`tail`, `arming`) the action is cut in two. `DrainBarrier`
says what users of the gate rely on: work begins and ends once, nothing begins
after the drain, business work only begins while the gate is open.
`ImplementsBarrier` maps calls and completions to work, the union of tickets and
finished ones to `begun`.

### RemoteControl

Each participant has a `Runtime` (`rt`, reset by `IdleRuntime` as `finish` resets it), a native
input owner (`backend`), the posts of its UI thread (`strand`) and the channel to its
peer (`net`). The handlers are the functions of `remote_control.cpp` one by one:
`ReceiveRequest` ... `ReceiveInput`, `Tick`, `Consent`, `Activate`, `Input`. Two decisions keep
the model small without losing what the properties distinguish:

* A post that could only become void on its way (request, consent, activation,
  change of focus) is one step with its closure; input and stop are not, because
  stop acts on the backend at once and on the strand later, and input must be
  able to be overtaken.
* The channel from a peer is followed by what has been delivered to the strand.
  How much of it was delivered is chosen when it matters: by `Revoke`, which
  voids what was admitted under the old epoch, and by `Overflows`.

`Lapse` stands for everything else a session needs: deadlines, the track, the share,
the front end. Ids are numbers, unique like the UUIDs they stand for; challenges
and the rate limit are left out. Input remembers how often the host's user and
the controller's focus had interfered when it was made (`local`, `focus`), so that
staleness can be stated.

### SignalClient

`conns` are the web sockets, each with both ends: its state for the client and what
the server has said on it. `client` holds the fields of `SignalClient`: the stream, the
request queue, the event buffer, `reconnecting`, `closed`, the heartbeat.
`ep` is the coroutine that joins or resumes, cut at its awaits: dial, wait for the response,
take it, prepare (SyncState or peer connections), commit; it may be redirected, try
another URL, or find that the room has left (`Drop`). A `Send` of the application's thread may stop between
the look at `reconnecting`, the queue and the stream, each of which has a lock of its own.
`stream_mutex_` is a variable, because `Restart` keeps it while it awaits the Close of
the old stream. `tasks` are the coroutines that `FlushQueue` and `Send` spawn for each
request. A socket may die without a word, after which only the heartbeat notices.

### Subscriptions

The strand of the meeting (`strand`, `queue`) turns the view and the catalog into plans; a plan changes
intents in `sub`, an intent that is dirty has a pending update, and a drain
(`drains`, `run`) picks updates, writes them and marks them told, in lock
sections of its own. A lost connection pauses the sender. A resume builds one
SyncState (`snap`), a full restart keeps the intents for its join; both ask the
strand for a plan and wait 250 ms for it (`AwaitPlan`). `served` is the server when it
has read everything, `behind` what it may still believe, because some of what was written is
lost with a connection.

SyncState is taken to carry the whole subscription state, as
`FinishSubscriptionRecoveryLocked` takes it, and a view is taken to exist.
`AutoSubscribe` is FALSE in production (`meeting_coordinator.cpp:163`).
`MediaFlows` says that a video subscribed anyway announces its media, by which the
strand repairs a plan that was missed. The controls of one
`RemoteTrackPublication` have no caller beside the plans and are left out, and so is leaving.

### MeetingCoordinator

`ui` are the coordinator's fields. Each handler of the UI thread is a function from fields to fields
(`BeginRoomSession`, `StopRoomSession`, `FinishLeavingMeeting`, `TryCommit`, `FailStartup`,
...), composed as the code composes the calls; an action applies one to `ui` and adds
what it posts or submits. Admissions and sessions are numbered as in the code, and a click may come
at any time, before answers (`http`) and posts (`posts`) that are on their way. `startup` is the
transaction of each session's coroutine, `room` its room. A post passes the gate
of its session (`Posted`, `RunPost`), which is revoked when the session is stopped.
`connectDirectlyAsync` is an action on a fresh coordinator only, as its one caller uses it
(`meeting_main_window.cpp:1155`). A startup that goes on without media counts as started.
A cleanup that fails leaves the stop pending for ever, as the code intends.

### Whiteboard

`board[p]` is the `Runtime` of a participant with its document, `net` what is under way between two
of them; a message that does not fit in the send buffer (`Cap`) is dropped by the sender,
a broken connection is resumed with what was under way, or without. The handlers are `whiteboard_runtime.cpp`'s one by one:
proposals, rejections, commits, Hello, SyncRequest, Descriptor, Snapshot, Delta, handoff, departure
and the timer. A document is the set of what is on it, the undo lists, the interaction
epoch and the proposals that were accepted. A user's command is
adding, undoing or clearing, the host also locks. `history` remembers
what authorities have numbered; it is read by the properties only. The host may change, the news of it
may come late or be missed behind a later one (`MaxMisses`, 0 in the runs), and a program may restart. `FreshHosts` tells whether a program may
open the board as host of a board that others have open already.

## 3. The runs

Each takes one to three minutes on two workers and is exhaustive.

| Run | Configuration | Checks | Shows |
|---|---|---|---|
| `shutdown` | 3 jobs, 1 drain, 2 stops | `ExitLeavesNothing` `StoppedMeansReleased` `DrainOnlyWhenQuiet` `RequestsAnswered` | nothing native is lost; callbacks tell the truth; drains, stops and destruction end |
| `room` | 2 joins, 1 loss, 1 server leave, 1 reconnect request of the server, 1 disconnect, retirement | `SessionOwnership` `OneReconnectOwner` `RetirementIsFinal` `ServerLeaveNeverRejoined` `UserLeaveIsFinal` `ListenerOrder` `ReconnectingEnds` `ServerLeaveCompletes` | generations keep sessions apart in every order of events; a leave of the user or the server is obeyed; reconnections end |
| `room_zombie` | 1 join, 2 losses | `ConnectedHasSignal` is violated | finding 1 |
| `gate` | 2 calls, 2 completions, 1 awaitable | `DrainIsQuiet` `CloseReachesAll` `WaitersAreResumable` `ImplementsBarrier` `DrainEnds` | one outcome for each operation, a drain that means quiet, retirement without native help |
| `signal` | 2 sockets, 2 requests, 2 messages of the server, 1 silent death | `NeverTwice` `EventsInOrder` `DeathIsReported` `QueueDrains` `GoneReleases` | requests are not doubled, events not reordered, a dead stream is noticed, no socket outlives the room |
| `signal_deadlock` | the same | `IoNeverBlocks` is violated | finding 3 |
| `subscriptions` | 1 video, 1 audio, 2 events, 1 full restart | `CleanMeansTold` `SettingsFirst` `IntentsReachServer` `DemandRestored` | what the room believes to be told is told; in the end the server has what the view asks for |
| `startup` | 2 joins, 1 interruption, 1 failed cleanup | `OneSession` `LeavingIsFinal` `NothingHangs` `RoomsReleased` | sessions do not overlap, nothing old brings a meeting back, joining and leaving end, and reconnecting unless the room has fallen silent |
| `control` | controller and host, 3 events, room for 2 posts and 1 input | `OnlyApprovedInput` `NoStaleInput` `NeverProtocolError` `EndsTogether` `InputResumes` | consent and freshness of input; the two machines agree and end together |
| `board` | 3 participants, 1 command, 1 lock, 2 hosts, buffers of 2, symmetry | `OneLog` `NoStaleGesture` `OneAuthority` | one log and one authority, whoever drops messages or takes over |
| `board_live` | 2 participants, a drawing, 1 command, 1 break, 1 crash, 2 hosts | `DrawnOnce` `BoardsConverge` | no command is carried out twice; the boards become one again |
| `board_undo` | 2 participants, 2 commands, 1 crash, a log of 1 | `BoardsAlwaysConverge` is violated | finding 2 |

### Bounds, and why they are enough

* `shutdown`: a job in hand, one queued and one failed is the most the worker's
  decisions distinguish; a second stop request meets a service that is already
  stopping, a drain request may come before, between and after the jobs.
* `room`: two joins make a stale coroutine of one session meet the next one; a
  loss and a reconnection asked for by the server make one interruption meet the recovery of
  another, and the server's leave meets both. `MaxReconnectAttempts` and `MaxTries` are 2 instead
  of the code's values so that the budgets run out. Two slots for coroutines of
  `AttemptReconnect` allow a stale one and its successor.
* `gate`: two calls wait for an operation each, or one beside a posted one; two
  completions race with each other's registration.
* `signal`: the second socket is the other URL of a join, its redirect or the resume; with a
  third there would be a second resume, which begins from the same fields as the first. Two requests
  and two messages can be reordered.
* `subscriptions`: two events of all kinds together are two changes of
  mind while an update is being told, a change in the middle of a recovery, or a loss in one. Tracks
  are independent in the code but for their kind, of which there is one each.
* `startup`: a second admission meets the stop and the late answers of the first, and after it
  the same fields come back with higher numbers. The theorems about `OneSession` and `LeavingIsFinal` have no bound.
* `control`: with one host and one controller, `QueueCap` 1 and `MaxPending` 2 reach every
  limit. Three events are enough for an input, a change of focus and a stop or
  local activity in any order. Roles do not meet otherwise: a `Runtime` has one
  session at a time, and requests in both directions differ only in who is asked.
* `board`: old host, new host and a third participant is what a handoff has in different
  states; buffers of two overflow, and a log of one forgets. `board_live` has a log that keeps everything;
  it has crash and break, which add a second
  life of a participant; two participants only, because its graph is searched for liveness.

### Fairness

Fairness is weak but in one place, and only of what a running thread does anyway:

* `SessionShutdown`: the worker is scheduled (a job returns or throws), the event
  loop runs, and the static destructor runs after `main`. Nobody has to submit,
  stop or quit. `RequestsAnswered` makes an exception for a retained cleanup, a
  quit and `std::terminate`, where the code gives no answer by design.
* `RoomSession`: the io thread serves its queue, every await ends (each has a
  timeout in the code) and calls of the application return. `ReconnectingEnds`
  leaves out the states `Orphaned` and a leave of the server that meets a failing
  restart; both are described below.
* `ExecutorGate`: what a thread has begun it finishes. Native threads owe nothing, and
  neither do timeouts, except in the second part of `DrainEnds`, whose premise they are.
* `SignalClient`: a ready handler runs, timers fire, a thread that does not wait for a
  lock goes on, a frame that has arrived is read. Nothing is asked of server, network or user.
* `Subscriptions`: I/O thread and strand run what is ready; views, losses and
  answers of the network owe nothing.
* `MeetingCoordinator`: UI thread, I/O threads and worker run what they are
  given; HTTP requests time out, a room comes up or is refused, a publication ends,
  and a reconnection ends, is lost or falls silent. `RoomSession` shows no more than that, so
  `NothingHangs` leaves out `Forgotten`: a screen that shows Reconnecting for a silent room.
* `RemoteControl`: strand, tick, channel and input loop go on, and the host's user
  is quiet for a second at some time. A deadline passes only in a handshake, which never
  moves it, or for a side the other has left, whose Pongs no longer move it.
* `Whiteboard`: threads and channels go on, connections come back, programs that ended are
  started again, news of a host arrives. The timer has strong fairness: in the
  code it runs all the time, in the model it stops while nothing is to be asked (`Quiet`), which
  would interrupt weak fairness.

Deadlock is not checked: in every module a session, a service, a board or a control that has ended
and used up its bounds stops for good. What should go on is stated by the
liveness properties.

## 4. What was found

Each of these is a run that TLC must find violated. The lines that the code
disagrees with are quoted in `PROJECT.json`, `findings`.

1. **`room_zombie`.** A Close during Reconnecting is ignored (`room.cpp:9088`). If it was that of the
   resumed socket, while the resume waits for ICE, the resume commits Connected
   (`room.cpp:11301`) over a dead socket and nothing will notice.
2. **`board_undo`.** A snapshot carries no undo list, so a participant whose board came from one cannot apply
   the undo of something drawn before. It asks for the entry again, each question has two answers
   that it cannot use either, and each of those asks once more, until the entry has left the log.
3. **`signal_deadlock`.** `Restart` keeps `stream_mutex_` while it awaits the Close of a stream that is
   still up, as after a ping timeout. Another handler of the same I/O thread that sends meanwhile
   blocks on it, and with it the thread that would finish the Close.

Met while modelling, and excluded by name from the properties concerned or visible with another
value of a constant, without a run of its own:

* `Orphaned` (`RoomSession`): a connection lost in the tail of a full restart is left by the first coroutine
  to the second, which has already left it to the first (`room.cpp:11518`-`11524`, `11092`).
* A LeaveRequest that is accepted while a full restart joins is never announced if that join fails
  before the cleanup runs: the failure advances the generation, and the cleanup takes itself for stale.
* In both of these cases the listener hears nothing any more, so that the coordinator shows Reconnecting until
  the user leaves or is logged out, or a LeaveRequest arrives after all: `FallsSilent` and `Forgotten` in
  `MeetingCoordinator`. Leaving ends then as well as ever.
* A Close that finds the budget of reconnections used up tells Disconnected and leaves the session installed
  (`room.cpp:9090`-`9113`). A Disconnect that follows does not return early (`room.cpp:2445`), ends that session and tells
  Disconnected again. `ListenerOrder` promises nothing about how often Disconnected is told.
* With `DisconnectAnywhere`, a Disconnect between the teardown and the `ConnectAsync` of a full restart is
  taken back by the restart (`room.cpp:11457`), its Disconnected is refused as late, and the next
  Connected is heard in the middle of a Reconnecting: `ListenerOrder` and `UserLeaveIsFinal` do not hold. Retirement is not concerned.
* `Overslept` (`ExecutorGate`): `WaitAwaitable` arms its timer after unlocking (`operation.h:185`); a cancellation
  in between has no timer to cancel, and the call, and the retirement with it, sleeps for the whole timeout.
* A Leave read by the callbacks of the wait for a response is forgotten (`signal_client.cpp:777`), and a frame
  written to a dying socket is lost without an error (`websocket_client.cpp:494`).
* A plan that comes after the handshake's 250 ms is refused for good (`room.cpp:11061` logs it), and
  a new video or audio of that moment waits for the next change of the view or catalog (`spent.late`).
* The post that shows InMeeting (`meeting_coordinator.cpp:3985`-`3995`) does not look at
  `_startupReconnectPending`: the user may see a meeting that is being reconnected as joined, until the startup commits.
* With `FreshHosts`, a restarted host numbers its board from one again, and followers with more refuse it
  (`meeting_coordinator.cpp:5451`).
* A host that gives the meeting away and gets it back (which needs `MaxHosts` of three, the runs have two): a participant
  who hears of both changes before it reads the commits of the first reign applies an old lock
  among them, since `applyEntry` (`whiteboard_runtime.cpp:398`-`411`) compares no interaction for control entries, and is
  ready with an interaction that its number does not have yet: `OneLog` does not hold. What is drawn is that of the
  number, and the next snapshot or delta brings both together.
* A Pong that takes 1500 ms leaves `pingOutstanding_` up and ends the heartbeat, so that the lease runs out
  (`remote_control.cpp:232`); the two sides count 180 messages per second in windows of their own (`:175`). Both are left out with the times.

## 5. The proofs

All of them hold for every value of the constants that satisfies the modules'
assumptions: any number of jobs, calls, operations, episodes, admissions and losses.

**SessionShutdownProofs.** `IInv` is inductive: types, `PendingCountsJobs` and `PhasesAgree`. The
counter alone is not inductive, because each of the worker's decisions reads it in one critical
section and acts on it in another; `PhasesAgree` records what the program counters of worker and
application thread imply about the published flags. From it follow `Accounting`
(`[]PendingCountsJobs`), `ExitSafety` (`[]ExitLeavesNothing`), `JoinSafety`
(`[]JoinNeverWaitsForJob`) and, as an action property, `DrainSafety` (`DrainOnlyWhenQuiet`).
`StopSafety` (`[]StoppedMeansReleased`) needs the order of the application thread's queue as well, which
`StopInv` adds: every completion is heard, queued or owed (`JobsAccounted`), no completion is
queued behind a stop (`StopsComeLast`), and none is owed once a stop runs (`StopsAreHeardLast`).

**RoomSessionProofs.** `Typing` includes the reconnect budget. `Ownership`
(`[]SessionOwnership`) needs to know that a Connecting room still has the join that will
clean up after itself (`ConnectingHasJoin`). `Retirement` (`[]RetirementIsFinal`) needs that the
flag and the retiring thread go together: every path that installs a session reads the
flag. `ServerLeaveIsFinal` (`ServerLeaveNeverRejoined`, an action property) rests on
`ServerLeftIsDisabled`: a terminal leave disables reconnection, and an episode that is
about to join was not overtaken by one. `UserLeaveFinality` (`[]UserLeaveIsFinal`) assumes `~DisconnectAnywhere`,
as `ListenerIsToldInOrder` below. The property alone is not inductive: a Disconnect in the middle of a full
restart leaves the state that the restart's own failed join would leave, one generation on, down and with nothing
installed, which the catch block takes for an invitation to try again (`room.cpp:11620`-`11624`). `UserLeftIsDown`
adds what keeps it from doing so: reconnection is disabled, and no full restart is about to join,
unless the room is retired, in which case the join is refused.

The second part of the module proves `SoleReconnectOwner` (`[]OneReconnectOwner`). A coroutine of `AttemptReconnect`
that has taken its session down to join again is stale for a while, and current once
more when its own join has advanced the generation, so ownership alone is not inductive. The proof
widens it to `Claims`: a coroutine claims its generation while it waits, and the next one
from its teardown on. `GenerationsAgree` and `JoinsAgree` say what the numbers of
coroutines and joins have to do with the room's, `ClaimsShaped` what the room looks like while
somebody claims it, `SoleClaim` that nobody else does. The step has one lemma per action.
`ListenerIsToldInOrder` (`ListenerOrder`, an action property) assumes `~DisconnectAnywhere`: Disconnect runs
on the I/O thread, as `DisconnectAsync` and the samples have it; section 4 says what happens otherwise. The
invariant speaks of `Told`, the event on its way or, without one, the last that was heard: as long as the
room is not retired, a delivery that is on its way will be admitted (`DeliveriesCurrent`), a
coroutine with a claim works for a room that was told Reconnecting (`EpisodeTold`), and a room
that is down has said so, unless a coroutine is rebuilding it or the server has forbidden that
(`StateTold`). That last part is why an application that connects again is never told Connected
in the middle of a Reconnecting.

**ExecutorGateProofs.** `Shape` collects what the pieces of an operation's state say
about each other; `Counted` says that the counter is the number of tickets; `Quiet` that a
drained gate has none. Their conjunction `GateInv` is inductive. The step is
proved through one effect lemma (`TicketEffect`): an action keeps the tickets, begins one, ends one or
is the drain. `Counting`, `DrainSafety` (`[]DrainIsQuiet`), `CloseCompletes`
(`[]CloseReachesAll`) and `Resumption` (`[]WaitersAreResumable`) follow, and `Refinement`: `Spec`
implements `DrainBarrier` under the mapping of `ImplementsBarrier`.

**RemoteControlProofs.** `OnlyApproved` (`[]OnlyApprovedInput`), for any number of participants
in any roles. What may be injected is guarded on three threads, so the inductive invariant `LeaseInv` is
about everything in between: a message or a queued post that carries input carries it for its own grant;
a lease is that of the running grant, and only its input is queued (`Safe`); a session that waits for
Ready or is controlled has an approved grant or a revoked epoch, also while the backend is being started.
The proof has one lemma per handler; three more (`FinishMoves`, `TransmitMoves`, `RefusedStep`) are what
handlers have in common.

The second part of the module proves `NoProtocolError` (`[]NeverProtocolError`) and `InjectedInputIsFresh`
(`[]NoStaleInput`). Neither can be seen on one participant: both relate the two Runtimes, the host's
backend, both channels and the guest's unsent posts. `ProtocolInv` therefore speaks of sessions: there is a list of the grants ever
issued, with the host, the guest and the request of each, and every one of them is consistent (`Session`),
whichever side has forgotten it and whatever is left of it on the way. The parts are `Numbering` (what a side
that still listens has not heard is the next numbers without a gap, up to its sender's counter while that is
in the session; the same for the changes of focus), `Granting` (as long as the Grant is under way the guest
has said nothing), `Reporting` (no report, and nothing the guest has noted, is about a later token of the input thread than
the present one, and what is about an admission that stands has the present focus) and `Fresh` (the same of every input that is
unsent, on its way or queued, and of the interference it has seen). To it come `Role` (what a state says
about the record), `Mail` and `Post` (who may send what of which session) and the order within a channel.
The invariant is a predicate of values and not of the state, because a handler is several changes in one
step: it pops a message, counts it, answers, fails to, and forgets. Each of these has its
own lemma (`PassKeeps`, `HostHears`, `GuestHears`, `TakeKeeps`, `GrantKeeps`, `HostSays`, `GuestSays`, `FinishKeeps`,
`UnsettledKeeps`, `UnnoticedKeeps`), and the lemma of a handler chains them.

**MeetingCoordinatorProofs.** `OneSessionSafety` (`[]OneSession`) and `LeavingSafety`
(`LeavingIsFinal`, an action property) from one invariant, `SessionInv`. `Core` and
`Calm` are about the coordinator's fields alone: running and owned go together, what is owned is not being stopped,
the number of an admission in progress is new; a session that is owned is never in Idle, Failed or
Leaving, and no admission is in progress while a meeting is left. `StopToken` says that the end of a stop is announced once: by a job, by one post or by
nobody, if its cleanup failed. `Carried` and `Held` tie living rooms to the owner, the job or the
retained cleanup. Handlers are functions of the fields, so there are two layers: lemmas that each
function moves the fields in one of four ways (`Moves`: nothing, a stop with a job, a stop without,
a session that begins), and one step for each kind of action that combines a move with posts, jobs and rooms.

**SignalClientProofs.** Two inductive invariants, one for each direction. `SendInv`: a request
is in the queue, with one of the coroutines that `Send` and `FlushQueue` spawn, or with the server, and
one that the application is about to hand over is nowhere yet; this survives a `Send` that
stopped between its look at `reconnecting` and the queue. `RequestsNeverTwice` (`[]NeverTwice`) follows.
`EventInv`: what the Room has heard was said before what `buffered_events_` keeps, and that before what is still to be
read on the socket that is up. The order alone is not inductive: it needs that a second
socket is never up beside it (`SoleUp`), that the buffer is empty once the client is
ready, and that no event reaches the Room while a stream is being made (`Making`).
`EventsStayInOrder` (`[]EventsInOrder`) and `OneSocketAtATime` follow.

**SubscriptionsProofs.** `TellingIsBelieved` (`[]CleanMeansTold`) and `SettingsComeFirst` (`SettingsFirst`,
an action property), for any tracks, views and number of losses and restarts, with and without
`AutoSubscribe`. An intent becomes clean in four ways, and the inductive invariant says what each of them relies
on. A drain has told it: the update it took says what the intent says while their revisions agree (`Tells`).
A resume has told it: the SyncState says what an intent says while that has the revision it had
when the SyncState was built (`Matches`), so that `FinishSubscriptionRecoveryLocked` may not clear a
revised one, and the settings, which a SyncState does not carry, stay dirty or are what the server does by itself (`PhaseInv`).
A restart has joined a server that was told nothing: while the sender is paused, an intent is
clean only if it wants just that (`PausedInv`); so does one of a track that has become known (`FreshInv`). All
the other steps revise at most, and a revision leaves clean only what it does not change (`Carries`); plans, pauses,
late plans, `OnIceConnected` and failed writes are all shown to be such revisions (`RevisingStep`, `PausingStep`).

**WhiteboardProofs.** `AuthorityIsOne` (`OneAuthority`, an action property), for any number of participants, any
chain of hosts, in which hosts may return, any losses, breaks and restarts. Every participant hears of
a change of the host by itself and at another time, so for a while the old host, the new one or
nobody believes to be the authority. The inductive invariant `IInv` says who hears in which order (`ChainInv`:
every host but the last has heard of being one, and those before the last two have heard of their successor, because
a host gives the meeting away only after it has heard that it has it), who holds the seat
(`SeatInv`: only the present host waits for a predecessor, and it has taken over only if that one has handed over), that
the seat has all the numbers (`SeqInv`; between a handover and the takeover, while it is `Vacant`, they are with
the old host), that the document of the seat knows every command of the log (`CoverInv`: it is of an earlier
interaction or has been accepted), and that no message tells a board of more numbers than its sender
has, but for the last snapshot of the old host on its way to the new one (`NetInv`, `Handing`). Most actions leave the seat alone:
they are shown to be `Gentle`, and one lemma (`GentleKeeps`) shows that such a step keeps the invariant. A commit, the
four ways in which a participant hears of a host, a handover and a takeover have a lemma each. The theorem assumes
`FreshHosts = FALSE`: with a program that is restarted while it is the host, whose board begins at
one again, the property does not hold of the code (section 4).

The second half is about what the boards show, under the same assumption: `NothingIsDrawnTwice` (`[]DrawnOnce`),
`BoardsShowOneLog` (`[](NoReturn => OneLog)`) and `NoGestureIsStale` (`[](NoReturn => NoStaleGesture)`).
`NoReturn` says that nobody has become the host a second time. Without it `OneLog` does not hold of the code (section 4), and the
argument is that of a single reign: what a participant has sent as the host lies before the log that its
successor went on with. With two hosts at most nobody can return, so `TwoHostsShowOneLog` (`[](OneLog /\ NoStaleGesture)`
for `MaxHosts <= 2`) needs no such premise; these are the hosts that the run has.

`OneLog` is about boards alone, and no board is safe without what is on its way to it, so the inductive
invariant `CInv` is about four things at once. The log: no command has two numbers, the handoffs in it name the hosts in turn
(`HandoffsTrue`), and `Made(h, n)` is the board that its first `n` numbers make. The boards (`BoardTrue`): one that waits
for nobody and follows the host of its own number shows what these numbers make, what it keeps to answer others is in the log,
what it has accepted has been numbered, and what it waits for was made on a board of the log (`Begun`). The messages (`MessageTrue`):
a snapshot shows what its number makes, commits and deltas are in the log, and all of them come from somebody
who had been named as the host by that number and not replaced (`Since`, `NotLater`). And a book of the epoch in which every gesture
was made: a command that is sent again is the same command, so an answer that has been overtaken tells
of the same epoch. What a log makes is a recursive function, of which the proof needs one step only (`MadeNext`): a log
is never changed, only extended, and its epochs never fall (`MadeType`, `EpochsGrow`), so that an equal epoch means that
nothing but drawings and undos came between. Two boards agree (`Like`) up to the part of the undo list that one of them
may have forgotten, since a restored board has a shorter one. Most steps change neither log nor hosts (`Quietly`, with a lemma for each message
that is followed, answered or dropped); a number that is given (`NumberCounts`), the four ways in which a host is heard
of, a start, a crash and a change of the host have a lemma each. `CInv` was model-checked on small instances before it was proved.

**Only model-checked.** All liveness (`RequestsAnswered`, `ReconnectingEnds`,
`ServerLeaveCompletes`, `DrainEnds`, `DeathIsReported`, `QueueDrains`, `GoneReleases`,
`IntentsReachServer`, `DemandRestored`, `NothingHangs`, `RoomsReleased`, `EndsTogether`,
`InputResumes`, `BoardsConverge`), which TLAPS does not reach. Every invariant that a run checks is stated by a
theorem, those of the whiteboard for hosts that do not return.

## 6. What is not modelled

`PROJECT.json` lists every component with its status. Left out for good: formatting
and parsing, per-frame media work, GPU and Qt widgets, cryptography, Windows device
access, samples and packaging. These are by far the most of the repository's lines:
emoji tables, a palette, the meeting window and telemetry reports alone are more than a third.

In the modelled components left out or abstracted:

* `RoomSession`: participants, tracks, requests and data of a session, and the process's
  memory: a `Room` outlives its coroutines.
* `ExecutorGate`: what calls do, other than wait.
* `SignalClient`: URLs, tokens, round trip times, what is in a request; handshakes, proxies and TLS of the socket.
* `Subscriptions`: permissions, errors of the server for one subscription, the binding of media, leaving.
* `MeetingCoordinator`: participants and their projection, chat, files, screen sharing, recovery of the
  encryption key, host transfer, what a slot of `stateChanged` does. Ending the meeting for all is a
  leave: `_endMeetingPending` is cleared with it, and the answer goes to the caller only.
* `RemoteControl`: coordinates, key codes, the geometry of the surface, challenges, the rate limit
  and the exact times; more than two participants in one run. A share that is replaced by another
  appears as a lapse.
* `Whiteboard`: images and their transfer, pages, redo and the commands that differ in what they draw, the
  rate limit, the end of a session.
* `SessionShutdown`: times, logs, and what a job does.

Hazards that were seen in components without a module: a share whose unpublishing fails stays in
StopFailed with its run (`screen_share_session.cpp:456`), answers of an earlier login race a logout or another login (`net/session_manager.cpp:457`), and telemetry is recovered after
a crash between the writes of a segment and of its manifest (`telemetry_checkpoint.cpp:889`).

## 7. The plan

In this order, the most important behaviour first. 1 to 5, 7, 10 and 13 exist.

1. `SessionShutdown`; abstract specification of a cleanup queue that it implements.
2. `RoomSession`.
3. `ExecutorGate`, `DrainBarrier`.
4. `RemoteControl`.
5. `SignalClient`.
6. `Membership` and `PublicationCatalog`: incarnations, tickets, ordered delivery.
7. `Subscriptions`; theorems `CleanMeansTold`, `SettingsFirst`.
8. `Negotiation`: offers, answers and queued renegotiation between client and server.
9. `Publishing`: publish, unpublish, mute, republishing after a full restart.
10. `Whiteboard`; images and their transfer.
11. `ScreenShare`: start, fallback, failed stop.
12. `DataStream`: assembly of chunks, trailers, aborts.
13. `MeetingCoordinator`; host transfer, whose HTTP answer races the room's metadata
    (`meeting_coordinator.cpp:5046`-`5103`, `5321`-`5369`), in a module of its own.
14. `AccountSession`, `Region`.
15. Camera ownership, video demand (operators), the telemetry queue, updates, key ring, sink leases.

Bounds will stay of the size above: two participants or tracks, one or two
failures, two generations.

## 8. How to run it

In this directory, with the TLA+ tools and TLAPS installed:

    tlc -config SessionShutdown.cfg SessionShutdown
    tlc -config RoomSession.cfg RoomSession
    tlc -config Whiteboard.cfg MCWhiteboard
    tlapm RoomSessionProofs.tla

The configuration of each run is in `PROJECT.json`, `runs`.
