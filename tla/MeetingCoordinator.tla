------------------------- MODULE MeetingCoordinator -------------------------
(***************************************************************************)
(* Entering and leaving a meeting: the part of MeetingCoordinator          *)
(* (src/core/meeting_coordinator.cpp) that runs on the UI thread, the      *)
(* startup coroutine of each session with its MeetingStartupTransaction,   *)
(* the QtCallbackGate between them, and the cleanup worker.                *)
(*                                                                         *)
(* The UI thread runs one handler at a time: a click, an answer by HTTP,   *)
(* or the oldest callback posted to it.  A session posts through a gate of *)
(* its own, which the UI thread revokes when it stops the session.         *)
(* The Room is what RoomSession specifies, seen through its listener; the  *)
(* cleanup worker is that of SessionShutdown.                              *)
(*                                                                         *)
(* Not here: telemetry, chat, media, and what a slot of stateChanged does. *)
(***************************************************************************)
EXTENDS Naturals, Sequences, FiniteSets

CONSTANTS
    MaxJoins,     \* admissions begun in the life of the coordinator (bound)
    MaxBlips,     \* interruptions of rooms (bound)
    MaxFailures   \* sessions whose cleanup fails (bound)

ASSUME CoordinatorAssumption ==
    MaxJoins \in Nat \ {0} /\ {MaxBlips, MaxFailures} \subseteq Nat

VARIABLES
    ui,         \* the fields of the coordinator
    http,       \* requests to the business server that have no answer yet
    posts,      \* callbacks posted to the UI thread, in order
    startup,    \* startup[s]: the transaction of the coroutine of session s
    room,       \* room[s]: the room of session s as its listener sees it;
                \* "silent" when a reconnection will never be reported,
                \* "freed" with the thread once the cleanup has joined it
    blips,      \* interruptions of rooms so far
    jobs,       \* jobs given to the cleanup worker and not finished
    retained    \* stops whose cleanup failed: the service keeps the owners

vars == <<ui, http, posts, startup, room, blips, jobs, retained>>

Sessions == 1..MaxJoins
MaxAdmissions == 2 * MaxJoins   \* admissions before a refusal (bound)
States == {"Idle", "Validating", "FetchingCredentials", "ConnectingRoom",
           "InMeeting", "Reconnecting", "Leaving", "Failed"}
Stages == {"None", "Joining", "Creating", "FetchingToken", "ReadyToStart",
           "Starting", "Consumed"}
Phases == {"ConnectingRoom", "StartingLocalMedia", "Committed", "Failed", "freed"}
Ended == {"Committed", "Failed"}

\* What a stop runs when it is through: its kind, and the admission and the
\* session it was asked for.
NoCompletion == [kind |-> "none", admission |-> 0, session |-> 0]
Completion(kind, c) ==
    [kind |-> kind, admission |-> c.admission, session |-> c.session]

Init ==
    /\ ui = [state |-> "Idle", stage |-> "None", admission |-> 0,
             invalidated |-> FALSE, joins |-> 0, session |-> 0,
             begun |-> {}, running |-> FALSE, owned |-> FALSE, gate |-> 0,
             committed |-> FALSE, reconnect |-> FALSE,
             stopping |-> FALSE, serial |-> 0, completion |-> NoCompletion]
    /\ http = {}
    /\ posts = <<>>
    /\ startup = [s \in Sessions |-> "ConnectingRoom"]
    /\ room = [s \in Sessions |-> "connecting"]
    /\ blips = 0
    /\ jobs = {}
    /\ retained = {}

-----------------------------------------------------------------------------
(* Parts of handlers, as functions of the fields of the coordinator *)

Current(c, a, stage) ==
    ~c.invalidated /\ c.admission = a /\ c.stage = stage
InvalidateAdmission(c) ==
    [c EXCEPT !.admission = @ + 1, !.stage = "None"]
BeginAdmission(c, stage) ==
    [c EXCEPT !.admission = @ + 1, !.stage = stage, !.joins = @ + 1]

\* beginRoomSession: a session of its own number, with a gate of its own.
BeginRoomSession(c, a) ==
    IF Current(c, a, "Starting")
    THEN [c EXCEPT !.state = "ConnectingRoom", !.stage = "Consumed",
                   !.committed = FALSE, !.reconnect = FALSE,
                   !.running = TRUE, !.owned = TRUE,
                   !.session = c.joins, !.gate = c.joins,
                   !.begun = @ \cup {c.joins}]
    ELSE c

\* May the completion of a stop still speak, and to what state it leads.
Lands(c, k) ==
    \/ /\ k.kind = "left"
       /\ c.state = "Leaving" /\ c.stage = "None" /\ ~c.invalidated
    \/ /\ k.kind = "disconnected"
       /\ c.session = k.session /\ c.admission = k.admission
       /\ ~c.running /\ ~c.invalidated /\ c.state = "Leaving"
    \/ k.kind = "kicked" /\ c.admission = k.admission /\ c.stage = "None"
    \/ k.kind = "failed" /\ c.admission = k.admission /\ ~c.invalidated
    \/ k.kind = "invalidated" /\ c.invalidated
Complete(c, k) ==
    IF k.kind = "begin" THEN BeginRoomSession(c, k.admission)
    ELSE IF Lands(c, k)
    THEN [c EXCEPT !.state = IF k.kind = "failed" THEN "Failed" ELSE "Idle"]
    ELSE c
\* deliver, in stopRoomSession
Deliver(c, serial) ==
    IF c.serial # serial THEN c
    ELSE Complete([c EXCEPT !.stopping = FALSE, !.completion = NoCompletion],
                  c.completion)

\* stopRoomSession.  The last completion asked for is the one that runs.
\* held: a capture or a ledger has to be closed although no session has begun.
\* Mutant: a stop does not wait for the session.
StopForgetsOwner(c, k, held) ==
    LET d == [c EXCEPT !.completion = k] IN
    IF c.stopping THEN d
    ELSE LET e == [d EXCEPT !.committed = FALSE, !.reconnect = FALSE,
                            !.running = FALSE, !.owned = FALSE, !.gate = 0,
                            !.serial = @ + 1, !.stopping = held]
         IN IF e.stopping THEN e ELSE Deliver(e, e.serial)
StopRoomSession(c, k, held) ==
    LET d == [c EXCEPT !.completion = k] IN
    IF c.stopping THEN d
    ELSE LET e == [d EXCEPT !.committed = FALSE, !.reconnect = FALSE,
                            !.running = FALSE, !.owned = FALSE, !.gate = 0,
                            !.serial = @ + 1, !.stopping = c.owned \/ held]
         IN IF e.stopping THEN e ELSE Deliver(e, e.serial)

\* startRoomSession of the admission that is ReadyToStart
StartRoomSession(c, held) ==
    LET d == [c EXCEPT !.stage = "Starting"] IN
    IF ~c.owned /\ ~c.running /\ ~c.stopping
    THEN BeginRoomSession(d, c.admission)
    ELSE StopRoomSession(d, Completion("begin", d), held)

\* finishLeavingMeeting.  Mutant: a leave that is under way is asked again.
LeavesAgain(c, held) ==
    LET d == InvalidateAdmission(c) IN
    IF c.state \in {"Idle", "Leaving"} THEN d
    ELSE LET e == [d EXCEPT !.state = "Leaving"]
         IN StopRoomSession(e, Completion("left", e), held)
FinishLeavingMeeting(c, held) ==
    LET d == InvalidateAdmission(c) IN
    IF c.state = "Leaving" THEN c
    ELSE IF c.state = "Idle" THEN d
    ELSE LET e == [d EXCEPT !.state = "Leaving"]
         IN StopRoomSession(e, Completion("left", e), held)

\* The cleanup job of a stop, when c became d by one.
Submitted(c, d) ==
    IF d.stopping /\ d.serial # c.serial
    THEN {[session |-> IF c.owned THEN c.session ELSE 0, serial |-> d.serial]}
    ELSE {}
\* A handler of the UI thread turns its fields into c.
Becomes(c) ==
    /\ ui' = c
    /\ jobs' = jobs \cup Submitted(ui, c)

-----------------------------------------------------------------------------
(* What the user and the business server do *)

CanJoin ==
    /\ ~ui.invalidated
    /\ ui.joins < MaxJoins
    /\ ui.state \in {"Idle", "Failed"}
    /\ ui.stage \in {"None", "Consumed"}

\* joinMeetingAsync and createAndJoinQuickMeetingAsync
Join(stage) ==
    /\ CanJoin
    /\ LET c == BeginAdmission(ui, stage) IN
       /\ Becomes([c EXCEPT !.state = "Validating"])
       /\ http' = http \cup {[stage |-> stage, admission |-> c.admission]}
    /\ UNCHANGED <<posts, startup, room, blips, retained>>

\* connectDirectlyAsync has no guard: its only caller has just made the
\* coordinator.
ConnectDirectly(held) ==
    /\ ui.joins = 0 /\ ui.state = "Idle" /\ ~ui.invalidated
    /\ Becomes(StartRoomSession(
           BeginAdmission(InvalidateAdmission(ui), "ReadyToStart"), held))
    /\ UNCHANGED <<http, posts, startup, room, blips, retained>>

\* An encryption key or a codec that is refused before the admission begins
Refused ==
    /\ CanJoin
    /\ ui.admission < MaxAdmissions
    /\ Becomes([ui EXCEPT !.state = "Failed"])
    /\ UNCHANGED <<http, posts, startup, room, blips, retained>>

Answer(r, ok, held) ==
    /\ r \in http
    /\ \/ /\ ~Current(ui, r.admission, r.stage)
          /\ Becomes(ui)
          /\ http' = http \ {r}
       \/ /\ Current(ui, r.admission, r.stage) /\ ~ok
          /\ Becomes([ui EXCEPT !.stage = "None", !.state = "Failed"])
          /\ http' = http \ {r}
       \/ /\ Current(ui, r.admission, r.stage) /\ ok /\ r.stage = "Joining"
          /\ Becomes([ui EXCEPT !.stage = "FetchingToken",
                                !.state = "FetchingCredentials"])
          /\ http' = (http \ {r}) \cup {[r EXCEPT !.stage = "FetchingToken"]}
       \/ /\ Current(ui, r.admission, r.stage) /\ ok
          /\ r.stage \in {"Creating", "FetchingToken"}
          /\ Becomes(StartRoomSession([ui EXCEPT !.stage = "ReadyToStart"], held))
          /\ http' = http \ {r}
    /\ UNCHANGED <<posts, startup, room, blips, retained>>

\* leaveMeetingAsync; a host who ends the meeting leaves in the same way.
Leave(held) ==
    /\ ui.state # "Idle" \/ ui.stage # "None"
    /\ Becomes(FinishLeavingMeeting(ui, held))
    /\ UNCHANGED <<http, posts, startup, room, blips, retained>>

\* handleSessionInvalidated: the account is logged out, for good.
AccountInvalidated(held) ==
    /\ ~ui.invalidated
    /\ LET c == [InvalidateAdmission(ui) EXCEPT !.invalidated = TRUE]
           d == [c EXCEPT !.state = "Leaving"]
       IN Becomes(IF c.state = "Idle" /\ ~c.owned /\ ~c.running /\ ~c.stopping
                  THEN c
                  ELSE StopRoomSession(d, Completion("invalidated", d), held))
    /\ UNCHANGED <<http, posts, startup, room, blips, retained>>

-----------------------------------------------------------------------------
(* The I/O thread of a session: its startup coroutine and its room *)

Alive(s) == s \in ui.begun /\ room[s] # "freed"
\* QtCallbackGate::Post: nothing is posted through a gate that is revoked.
Posted(s, kind) ==
    IF ui.gate = s
    THEN Append(posts, [kind |-> kind, session |-> s, serial |-> 0])
    ELSE posts
Thread(s) == Alive(s) /\ UNCHANGED <<ui, http, jobs, retained>>

\* ConnectAsync returns to the coroutine, which reports the meeting as joined
\* before it publishes.  The room may have been interrupted or lost since.
RoomConnected(s) ==
    /\ Thread(s)
    /\ startup[s] = "ConnectingRoom"
    /\ room[s] \in {"up", "reconnecting", "silent", "lost"}
    /\ startup' = [startup EXCEPT ![s] = "StartingLocalMedia"]
    /\ posts' = Posted(s, "connected")
    /\ UNCHANGED <<room, blips>>

Published(s) ==
    /\ Thread(s)
    /\ startup[s] = "StartingLocalMedia"
    /\ room[s] \in {"up", "reconnecting", "silent"}
    /\ startup' = [startup EXCEPT ![s] = "Committed"]
    /\ posts' = Posted(s, "ready")
    /\ UNCHANGED <<room, blips>>

\* The catch of the coroutine: without encryption a meeting that is joined
\* goes on without media, as ready as one that has published; any other is
\* rolled back.
StartupFails(s) ==
    /\ Thread(s)
    /\ \/ startup[s] = "ConnectingRoom" /\ room[s] = "refused"
       \/ startup[s] = "StartingLocalMedia"
    /\ startup' = [startup EXCEPT ![s] = "Failed"]
    /\ \/ posts' = Posted(s, "failed")
       \/ startup[s] = "StartingLocalMedia" /\ posts' = Posted(s, "ready")
    /\ UNCHANGED <<room, blips>>

RoomUp(s) ==
    /\ Thread(s)
    /\ room[s] = "connecting"
    /\ room' = [room EXCEPT ![s] = "up"]
    /\ UNCHANGED <<posts, startup, blips>>
RoomRefused(s) ==
    /\ Thread(s)
    /\ room[s] = "connecting"
    /\ room' = [room EXCEPT ![s] = "refused"]
    /\ UNCHANGED <<posts, startup, blips>>
OnReconnecting(s) ==
    /\ Thread(s)
    /\ room[s] = "up" /\ blips < MaxBlips
    /\ room' = [room EXCEPT ![s] = "reconnecting"]
    /\ blips' = blips + 1
    /\ posts' = Posted(s, "reconnecting")
    /\ UNCHANGED startup
\* kind: "reconnected", or "replaced" when the room has another sid and no
\* metadata, that is when the meeting was deleted meanwhile.
OnReconnected(s, kind) ==
    /\ Thread(s)
    /\ room[s] = "reconnecting"
    /\ room' = [room EXCEPT ![s] = "up"]
    /\ posts' = Posted(s, kind)
    /\ UNCHANGED <<startup, blips>>
\* The reconnection is never heard of again.  Room allows it twice (Orphaned and
\* ReconnectingEnds of RoomSession): its last coroutine leaves the recovery to
\* one that is gone (room.cpp:11518-11524, 11092), or a leave of the server was
\* accepted while a full restart joined, and the join fails.
FallsSilent(s) ==
    /\ Thread(s)
    /\ room[s] = "reconnecting"
    /\ room' = [room EXCEPT ![s] = "silent"]
    /\ UNCHANGED <<posts, startup, blips>>
\* kind: "disconnected", or "duplicate" when another device took the identity.
\* A LeaveRequest may still be carried out in a room that is silent.
OnDisconnected(s, kind) ==
    /\ Thread(s)
    /\ room[s] \in {"up", "reconnecting", "silent"}
    /\ room' = [room EXCEPT ![s] = "lost"]
    /\ posts' = Posted(s, kind)
    /\ UNCHANGED <<startup, blips>>

-----------------------------------------------------------------------------
(* The cleanup worker *)

\* Room::Retire: a coroutine that waits in the room fails.
Retire(j) ==
    /\ j \in jobs /\ j.session # 0
    /\ room[j.session] \notin {"lost", "refused"}
    /\ room' = [room EXCEPT ![j.session] =
                    IF @ = "connecting" THEN "refused" ELSE "lost"]
    /\ UNCHANGED <<ui, http, posts, startup, blips, jobs, retained>>

\* The thread is joined only after the coroutine has ended.  The gate of the
\* completion is the coordinator's, which is never revoked.
CleanedUp(j) ==
    /\ j \in jobs
    /\ j.session # 0 =>
           room[j.session] \in {"lost", "refused"} /\ startup[j.session] \in Ended
    /\ jobs' = jobs \ {j}
    /\ startup' = [s \in Sessions |-> IF s = j.session THEN "freed" ELSE startup[s]]
    /\ room' = [s \in Sessions |-> IF s = j.session THEN "freed" ELSE room[s]]
    /\ posts' = Append(posts, [kind |-> "stopped", session |-> 0, serial |-> j.serial])
    /\ UNCHANGED <<ui, http, blips, retained>>

\* A failure keeps the owners and leaves the stop pending.
CleanupFails(j) ==
    /\ j \in jobs
    /\ Cardinality(retained) < MaxFailures
    /\ jobs' = jobs \ {j}
    /\ retained' = retained \cup {j.serial}
    /\ UNCHANGED <<ui, http, posts, startup, room, blips>>

-----------------------------------------------------------------------------
(* The UI thread runs what was posted *)

IsCurrentSession(c, s) == c.running /\ c.owned /\ c.session = s

TryCommit(c) ==
    IF c.state \in {"Leaving", "Idle"} \/ ~c.committed \/ c.reconnect THEN c
    ELSE [c EXCEPT !.state = "InMeeting"]

\* Mutant: a failed startup only says so.
FailsWithoutStop(c) == [c EXCEPT !.state = "Failed"]
FailStartup(c) ==
    LET d == [c EXCEPT !.state = "Leaving"]
    IN StopRoomSession(d, Completion("failed", d), FALSE)
Disconnected(c) ==
    LET d == [c EXCEPT !.state = "Leaving"] IN
    IF c.state = "Leaving" THEN c
    ELSE StopRoomSession(d, Completion("disconnected", d), FALSE)
KickedOff(c) ==
    LET d == InvalidateAdmission(c) IN
    IF c.state \in {"Leaving", "Idle"} THEN d
    ELSE StopRoomSession(d, Completion("kicked", d), FALSE)

Interrupted(c) ==
    IF c.state \in {"Leaving", "Idle"} THEN c
    ELSE [c EXCEPT !.reconnect = TRUE, !.state = "Reconnecting"]
Restored(c) ==
    IF c.state \in {"Leaving", "Idle"} THEN c
    ELSE TryCommit([c EXCEPT !.reconnect = FALSE])

\* What a callback of a session does when its gate is still open
Handled(c, kind) ==
    CASE kind = "connected" -> [c EXCEPT !.state = "InMeeting"]
      [] kind = "ready" ->
             IF c.committed THEN c ELSE TryCommit([c EXCEPT !.committed = TRUE])
      [] kind = "failed" -> FailStartup(c)
      [] kind = "reconnecting" -> Interrupted(c)
      [] kind = "reconnected" -> Restored(c)
      [] kind = "replaced" -> FinishLeavingMeeting(c, FALSE)
      [] kind = "disconnected" -> Disconnected(c)
      [] kind = "duplicate" -> KickedOff(c)

\* Mutant: neither the gate nor the generation is looked at again.
LiveAlways(c, m) == TRUE
Live(c, m) == c.gate = m.session /\ IsCurrentSession(c, m.session)

RunPost ==
    /\ posts # <<>>
    /\ LET m == Head(posts) IN
       Becomes(IF m.kind = "stopped" THEN Deliver(ui, m.serial)
               ELSE IF Live(ui, m) THEN Handled(ui, m.kind)
               ELSE ui)
    /\ posts' = Tail(posts)
    /\ UNCHANGED <<http, startup, room, blips, retained>>

-----------------------------------------------------------------------------
User ==
    \/ \E stage \in {"Joining", "Creating"} : Join(stage)
    \/ Refused
    \/ \E held \in BOOLEAN :
        ConnectDirectly(held) \/ Leave(held) \/ AccountInvalidated(held)
Server == \E r \in http, ok \in BOOLEAN : Answer(r, ok, FALSE)
Startup(s) == RoomConnected(s) \/ Published(s) \/ StartupFails(s)
Room(s) ==
    \/ RoomUp(s) \/ RoomRefused(s) \/ OnReconnecting(s) \/ FallsSilent(s)
    \/ \E kind \in {"reconnected", "replaced"} : OnReconnected(s, kind)
    \/ \E kind \in {"disconnected", "duplicate"} : OnDisconnected(s, kind)
Worker == \E j \in jobs : Retire(j) \/ CleanedUp(j) \/ CleanupFails(j)

Next == User \/ Server \/ (\E s \in Sessions : Startup(s) \/ Room(s)) \/ Worker \/ RunPost
Spec == Init /\ [][Next]_vars

\* The UI thread, the I/O threads and the worker run what they are given;
\* HTTP requests time out, a connection comes up or is refused, a publication
\* ends, and a reconnection ends, is lost, or falls silent: RoomSession shows
\* no more than that.
FairSpec ==
    /\ Spec
    /\ WF_vars(RunPost)
    /\ WF_vars(Server)
    /\ \A s \in Sessions :
        /\ WF_vars(Startup(s))
        /\ WF_vars(RoomUp(s) \/ RoomRefused(s))
        /\ WF_vars(\/ OnReconnected(s, "reconnected")
                   \/ room[s] = "reconnecting" /\ OnDisconnected(s, "disconnected")
                   \/ FallsSilent(s))
    /\ WF_vars(\E j \in jobs : Retire(j) \/ CleanedUp(j))

-----------------------------------------------------------------------------
(* Properties *)

\* Two sessions are never alive together, whatever is joined while the old one
\* is cleaned up; and the coordinator is Idle or Failed only when the last one
\* has been released (the comments of stopRoomSession and OnDisconnected).
OneSession ==
    /\ \A s, t \in Sessions : Alive(s) /\ Alive(t) => s = t
    /\ ui.state \in {"Idle", "Failed"} => \A s \in Sessions : ~Alive(s)

\* Once it leaves, nothing that an old session posted brings the meeting back:
\* Leaving ends in Idle or Failed.
LeavingIsFinal ==
    [][ui.state = "Leaving" => ui'.state \in {"Leaving", "Idle", "Failed"}]_vars

\* The screen shows Reconnecting for a room that has fallen silent.  Nothing but
\* a leave or a logout ends that.
Forgotten == ui.state = "Reconnecting" /\ room[ui.session] = "silent"

\* The user is never left waiting: joining and leaving end, and so does
\* reconnecting unless the room is Forgotten, which leaving still ends.
\* A cleanup that fails is left out as well: the code keeps it pending on purpose.
NothingHangs ==
    (ui.state \notin {"Idle", "InMeeting", "Failed"})
        ~> (ui.state \in {"Idle", "InMeeting", "Failed"} \/ Forgotten \/ retained # {})

\* A room that was refused or lost is released, whatever the coroutine was
\* doing and whoever stops the session.  There is one at a time (OneSession).
Down == {s \in Sessions : room[s] \in {"refused", "lost"}}
RoomsReleased == Down # {} ~> (Down = {} \/ retained # {})
=============================================================================
