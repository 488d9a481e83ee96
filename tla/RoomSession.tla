----------------------------- MODULE RoomSession -----------------------------
(***************************************************************************)
(* The session lifecycle of Room (src/core/room.cpp): joining, leaving,    *)
(* being removed by the server, losing the signalling connection, resuming *)
(* it or rebuilding the whole session, and telling the application.        *)
(*                                                                         *)
(* Two threads meet at room_mutex_.  The I/O thread runs every coroutine   *)
(* (ConnectAsync, AttemptReconnect, FinalizeServerDisconnectAsync) and     *)
(* every signalling event; it changes hands only where a coroutine awaits. *)
(* The application thread calls Disconnect and Retire at any moment.  A    *)
(* step of the model is one critical section, with the code that follows   *)
(* it up to the next point where the other thread can make a difference.   *)
(*                                                                         *)
(* session_generation_ is gen, installed_session_generation_ is installed. *)
(* Every teardown that zeroes the latter also moves signal_client_ out, so *)
(* installed stands for the client too; stream is the state of its socket. *)
(* Media, participants, subscriptions and pending requests are abstracted: *)
(* an await that depends on them may succeed or fail.                      *)
(***************************************************************************)
EXTENDS Integers, Sequences, FiniteSets

CONSTANTS
  MaxReconnectAttempts, \* kMaxReconnectAttempts
  MaxTries,     \* bound: reconnect_total, in tries of one episode
  Episodes,     \* bound: slots for coroutines of AttemptReconnect
  MaxConnects,  \* bound: explicit calls of ConnectAsync
  MaxLosses,    \* bound: losses of the signalling connection
  MaxLeaves,    \* bound: terminal LeaveRequests of the server
  MaxRequests,  \* bound: LeaveRequests with action RECONNECT
  MaxDisconnects, \* bound: calls of Disconnect
  DisconnectAnywhere \* may Disconnect run beside the I/O thread? The samples and
                \* DisconnectAsync run on it; Room promises no such thing.

ASSUME RoomAssumption ==
  /\ {MaxReconnectAttempts, MaxTries, MaxConnects, MaxLosses, MaxLeaves,
      MaxRequests, MaxDisconnects} \subseteq Nat
  /\ Episodes \subseteq Nat \ {0}
  /\ DisconnectAnywhere \in BOOLEAN

States == {"Disconnected", "Connecting", "Connected", "Reconnecting"}
Kinds == {"Connected", "Disconnected", "Reconnecting", "Reconnected"}

\* The boolean members of Room; userLeft and serverLeft remember who ended the
\* session the application last asked for.
Flags == {"active", "disabled", "finalizing", "full", "suppress", "retired",
          "userLeft", "serverLeft"}

\* A running ConnectAsync: the episode that called it (0: the application) and
\* whether it awaits the JoinResponse or the media transport.
Join == [gen : Nat, by : Nat, pc : {"signal", "media"}]

\* A coroutine of AttemptReconnect: gen is reconnect_generation, rgen is
\* restart_connect_generation, mode tells full_restart.
Episode == [pc : {"none", "delay", "restart", "ice", "rejoin", "joining",
                  "joined", "joinFailed", "republish", "channel"},
            gen : Nat, rgen : Nat, mode : {"resume", "full"}, tries : Nat]
Idle == [pc |-> "none", gen |-> 0, rgen |-> 0, mode |-> "resume", tries |-> 0]

\* What waits in the queue of the I/O thread.
Event == [kind : {"close", "leave", "reconnect", "attempt", "finalize"}, gen : Nat]

\* A LifecycleListenerDelivery between its commit and its admission.
Delivery == [kind : Kinds, gen : Nat, state : States]
Nothing == [kind |-> "none", gen |-> 0, state |-> "Disconnected"]

VARIABLES
  state,       \* connection_state_
  gen,         \* session_generation_
  installed,   \* installed_session_generation_, and signal_client_
  stream,      \* the installed client's socket: "none", "live" or "lost"
  flags,       \* the flags that are up
  attempts,    \* reconnect_attempts_
  joins,       \* the coroutines of ConnectAsync
  episodes,    \* the coroutines of AttemptReconnect
  inbox,       \* signalling events and coroutines posted to the I/O thread
  ioDelivery, appDelivery, \* the event each thread is about to deliver
  app,         \* the application thread: "idle", "retiring", "retired"
  heard,       \* the last lifecycle event a listener was called with
  calls        \* how often each input was used (for the bounds)

session == <<state, gen, installed, stream>>
coroutines == <<joins, episodes>>
delivery == <<ioDelivery, appDelivery, heard>>
vars == <<session, flags, attempts, coroutines, inbox, delivery, app, calls>>

Inputs == {"connect", "loss", "leave", "request", "disconnect"}

Init ==
  /\ state = "Disconnected" /\ gen = 0 /\ installed = 0 /\ stream = "none"
  /\ flags = {} /\ attempts = 0
  /\ joins = {} /\ episodes = [i \in Episodes |-> Idle]
  /\ inbox = <<>>
  /\ ioDelivery = Nothing /\ appDelivery = Nothing /\ heard = "none"
  /\ app = "idle" /\ calls = [c \in Inputs |-> 0]

Use(c, bound) == calls[c] < bound /\ calls' = [calls EXCEPT ![c] = @ + 1]

active == "active" \in flags
disabled == "disabled" \in flags
retired == "retired" \in flags

\* IsSignalGenerationCurrentLocked, for an event bound to a generation.
IsSignalGenerationCurrent(g) == ~retired /\ g = gen

\* The I/O thread is between two handlers: nothing it runs is half done.
IoFree ==
  /\ ioDelivery = Nothing
  /\ \A i \in Episodes : episodes[i].pc \notin {"rejoin", "joined", "joinFailed"}

Set(i, r) == episodes' = [episodes EXCEPT ![i] = r]
Return(i) == Set(i, Idle)

Tell(kind, g, s) == ioDelivery' = [kind |-> kind, gen |-> g, state |-> s]

-----------------------------------------------------------------------------
(* ConnectAsync *)

\* The first critical section, past its guards.
BeginConnect(by) ==
  /\ state' = "Connecting" /\ gen' = gen + 1
  /\ joins' = joins \cup {[gen |-> gen + 1, by |-> by, pc |-> "signal"]}
  /\ flags' = flags \ ((IF active THEN {} ELSE {"full", "disabled", "finalizing"})
                       \cup IF by = 0 THEN {"userLeft", "serverLeft"} ELSE {})
  /\ UNCHANGED <<installed, stream>>

\* Mutant: ConnectAsync is not told of the retirement.
MayConnectRetired ==
  /\ state = "Disconnected" /\ installed = 0
  /\ ~(active /\ disabled)

\* Mutant: a recovery joins without asking whether it was cancelled.
MayConnectAnyway == ~retired /\ state = "Disconnected" /\ installed = 0

MayConnect ==
  /\ ~retired /\ state = "Disconnected" /\ installed = 0
  /\ ~(active /\ disabled)

\* The application calls ConnectAsync, not while its own Disconnect still runs.
Connect ==
  /\ IoFree /\ MayConnect /\ appDelivery = Nothing
  /\ Use("connect", MaxConnects)
  /\ BeginConnect(0)
  /\ UNCHANGED <<attempts, episodes, inbox, delivery, app>>

\* A JoinResponse arrived and the attempt still owns the session: install it.
\* Mutant: join_commit compares nothing but the connection state.
JoinCommitUnchecked(j) ==
  /\ IoFree /\ j.pc = "signal"
  /\ state = "Connecting"
  /\ installed' = j.gen /\ stream' = "live"
  /\ joins' = (joins \ {j}) \cup {[j EXCEPT !.pc = "media"]}
  /\ UNCHANGED <<state, gen, flags, attempts, episodes, inbox, delivery, app, calls>>

JoinCommit(j) ==
  /\ IoFree /\ j.pc = "signal"
  /\ gen = j.gen /\ state = "Connecting" /\ installed = 0
  /\ installed' = j.gen /\ stream' = "live"
  /\ joins' = (joins \ {j}) \cup {[j EXCEPT !.pc = "media"]}
  /\ UNCHANGED <<state, gen, flags, attempts, episodes, inbox, delivery, app, calls>>

\* The coroutine that awaited a join goes on, on the I/O thread, at once.
Resume(j, pc) ==
  /\ joins' = joins \ {j}
  /\ IF j.by = 0 THEN UNCHANGED episodes
     ELSE Set(j.by, [episodes[j.by] EXCEPT !.pc = pc])

\* The transport is up: the session becomes Connected and is announced, unless
\* a full restart asked for silence.
ConnectCommit(j) ==
  /\ IoFree /\ j.pc = "media"
  /\ gen = j.gen /\ state = "Connecting" /\ installed = j.gen
  /\ state' = "Connected"
  /\ flags' = flags \ {"suppress"}
  /\ IF "suppress" \in flags THEN UNCHANGED ioDelivery
                             ELSE Tell("Connected", j.gen, "Connected")
  /\ Resume(j, "joined")
  /\ UNCHANGED <<gen, installed, stream, attempts, inbox, appDelivery, heard, app, calls>>

\* Any failure, the failed commit checks included: the catch block takes back
\* what this attempt still owns and nothing else.
JoinFails(j) ==
  /\ IoFree
  /\ gen' = IF gen = j.gen THEN gen + 1 ELSE gen
  /\ installed' = IF installed = j.gen THEN 0 ELSE installed
  /\ stream' = IF installed = j.gen THEN "none" ELSE stream
  /\ IF j.gen \in {gen, installed}
     THEN state' = "Disconnected" /\ flags' = flags \ {"suppress"}
     ELSE UNCHANGED <<state, flags>>
  /\ Resume(j, "joinFailed")
  /\ UNCHANGED <<attempts, inbox, delivery, app, calls>>

-----------------------------------------------------------------------------
(* Leaving: Disconnect and Retire on the application thread, LeaveRequest  *)
(* and its cleanup on the I/O thread.                                      *)

\* What every teardown of the current session has in common.
EndSession ==
  /\ state' = "Disconnected" /\ gen' = gen + 1
  /\ installed' = 0 /\ stream' = "none"

\* Disconnect, past its early return.
DisconnectNow ==
  /\ EndSession
  /\ flags' = (flags \ {"active"}) \cup {"disabled", "userLeft"}
  /\ appDelivery' = [kind |-> "Disconnected", gen |-> gen + 1, state |-> "Disconnected"]

NothingToDisconnect == state = "Disconnected" /\ installed = 0 /\ ~active

Disconnect ==
  /\ app = "idle" /\ appDelivery = Nothing
  /\ DisconnectAnywhere \/ IoFree
  /\ Use("disconnect", MaxDisconnects)
  /\ ~NothingToDisconnect
  /\ DisconnectNow
  /\ UNCHANGED <<attempts, coroutines, inbox, ioDelivery, heard, app>>

\* Retire closes the gates first and disconnects then.
Retire ==
  /\ app = "idle" /\ appDelivery = Nothing
  /\ flags' = flags \cup {"retired"} /\ app' = "retiring"
  /\ UNCHANGED <<session, attempts, coroutines, inbox, delivery, calls>>

RetireDisconnect ==
  /\ app = "retiring"
  /\ IF NothingToDisconnect THEN UNCHANGED <<session, flags, appDelivery>>
                            ELSE DisconnectNow
  /\ app' = "retired"
  /\ UNCHANGED <<attempts, coroutines, inbox, ioDelivery, heard, calls>>

\* BeginServerDisconnect: from here on no reconnection may start.
\* Mutant: the leave is noted and reconnection stays possible.
BeginServerDisconnectSoft(g) ==
  IF IsSignalGenerationCurrent(g) /\ state # "Disconnected" /\ "finalizing" \notin flags
  THEN /\ flags' = flags \cup {"finalizing", "serverLeft"}
       /\ inbox' = Append(Tail(inbox), [kind |-> "finalize", gen |-> g])
  ELSE UNCHANGED flags /\ inbox' = Tail(inbox)

BeginServerDisconnect(g) ==
  IF IsSignalGenerationCurrent(g) /\ state # "Disconnected" /\ "finalizing" \notin flags
  THEN /\ flags' = flags \cup {"disabled", "finalizing", "serverLeft"}
       /\ inbox' = Append(Tail(inbox), [kind |-> "finalize", gen |-> g])
  ELSE UNCHANGED flags /\ inbox' = Tail(inbox)

HandleLeave(g) ==
  /\ BeginServerDisconnect(g)
  /\ UNCHANGED <<session, attempts, ioDelivery>>

\* A LeaveRequest that asks for a full reconnect ends in a synthetic Close.
HandleReconnectRequest(g) ==
  /\ IF IsSignalGenerationCurrent(g) /\ ~disabled /\ state \in {"Connected", "Reconnecting"}
     THEN /\ flags' = flags \cup {"full"}
          /\ inbox' = IF state = "Connected"
                      THEN Append(Tail(inbox), [kind |-> "close", gen |-> g])
                      ELSE Tail(inbox)
     ELSE UNCHANGED flags /\ inbox' = Tail(inbox)
  /\ UNCHANGED <<session, attempts, ioDelivery>>

\* Mutant: the cleanup believes only a connected room needs it.
FinalizeConnectedOnly(g) ==
  /\ inbox' = Tail(inbox)
  /\ IF ~IsSignalGenerationCurrent(g)
     THEN UNCHANGED <<session, flags, attempts, ioDelivery>>
     ELSE IF state # "Connected"
     THEN flags' = flags \ {"finalizing"} /\ UNCHANGED <<session, attempts, ioDelivery>>
     ELSE /\ EndSession
          /\ attempts' = 0
          /\ flags' = flags \ {"active", "finalizing", "suppress"}
          /\ Tell("Disconnected", gen + 1, "Disconnected")

FinalizeServerDisconnect(g) ==
  /\ inbox' = Tail(inbox)
  /\ IF ~IsSignalGenerationCurrent(g)
     THEN UNCHANGED <<session, flags, attempts, ioDelivery>>
     ELSE IF state = "Disconnected" /\ installed = 0
     THEN flags' = flags \ {"finalizing"} /\ UNCHANGED <<session, attempts, ioDelivery>>
     ELSE /\ EndSession
          /\ attempts' = 0
          /\ flags' = flags \ {"active", "finalizing", "suppress"}
          /\ Tell("Disconnected", gen + 1, "Disconnected")

-----------------------------------------------------------------------------
(* HandleSignalEvent, for Close *)

MayReconnect ==
  ~disabled /\ state = "Connected" /\ attempts < MaxReconnectAttempts

HandleClose(g) ==
  IF ~IsSignalGenerationCurrent(g) \/ "finalizing" \in flags
  THEN inbox' = Tail(inbox) /\ UNCHANGED <<session, flags, attempts, ioDelivery>>
  ELSE IF MayReconnect
  THEN /\ state' = "Reconnecting" /\ attempts' = attempts + 1
       /\ inbox' = Append(Tail(inbox), [kind |-> "attempt", gen |-> gen])
       /\ Tell("Reconnecting", gen, "Reconnecting")
       /\ UNCHANGED <<gen, installed, stream, flags>>
  ELSE /\ inbox' = Tail(inbox) /\ UNCHANGED <<installed, stream, flags, attempts>>
       /\ CASE state = "Connecting" ->
                 state' = "Disconnected" /\ gen' = gen + 1 /\ UNCHANGED ioDelivery
            [] state = "Connected" ->
                 /\ state' = "Disconnected" /\ UNCHANGED gen
                 /\ Tell("Disconnected", gen, "Disconnected")
            [] OTHER -> UNCHANGED <<state, gen, ioDelivery>>

-----------------------------------------------------------------------------
(* AttemptReconnect *)

\* Admission of a coroutine: one owner at a time.  The server's configuration
\* may forbid resuming (resume_connection DISABLED).
\* Mutant: the coroutine does not look whether there is an owner.
CanOwnTwice(g) ==
  /\ IsSignalGenerationCurrent(g) /\ installed = g
  /\ state = "Reconnecting" /\ ~disabled

CanOwn(g) ==
  /\ IsSignalGenerationCurrent(g) /\ installed = g
  /\ state = "Reconnecting" /\ ~active /\ ~disabled

StartAttempt(g) ==
  /\ inbox' = Tail(inbox)
  /\ IF CanOwn(g)
     THEN \E i \in Episodes, mode \in {"resume", "full"} :
            /\ episodes[i] = Idle /\ \A k \in Episodes : k < i => episodes[k] # Idle
            /\ "full" \in flags => mode = "full"
            /\ Set(i, [pc |-> "delay", gen |-> g, rgen |-> 0, mode |-> mode, tries |-> 0])
            /\ flags' = (flags \cup {"active"}) \ {"full"}
     ELSE UNCHANGED <<flags, episodes>>
  /\ UNCHANGED <<session, attempts, joins, delivery, app, calls>>

\* The episode still belongs to the session it started in, or rebuilt.
Current(i) == IsSignalGenerationCurrent(episodes[i].gen)
OwnsInstalled(i) == installed = episodes[i].gen
Stale(i) == ~Current(i) \/ (installed # 0 /\ ~OwnsInstalled(i))

\* Give up the ownership and return.
Release(i) == Return(i) /\ flags' = flags \ {"active"}

\* Take the old session down and ask ConnectAsync, silently, for a new one.
FullRestart(i, tries) ==
  IF Stale(i) THEN Return(i) /\ UNCHANGED <<session, flags>>
  ELSE IF disabled THEN Release(i) /\ UNCHANGED session
  ELSE /\ EndSession
       /\ flags' = flags \cup {"suppress"}
       /\ Set(i, [episodes[i] EXCEPT !.pc = "rejoin", !.mode = "full",
                                     !.gen = gen + 1, !.rgen = gen + 2,
                                     !.tries = tries])

\* The delay before a try is over.
Wake(i) ==
  /\ IoFree /\ episodes[i].pc = "delay" /\ episodes[i].tries < MaxTries
  /\ IF Stale(i) THEN Return(i) /\ UNCHANGED <<session, flags>>
     ELSE IF disabled \/ (state = "Disconnected" /\ episodes[i].mode = "resume")
     THEN Release(i) /\ UNCHANGED session
     ELSE IF episodes[i].mode = "full" THEN FullRestart(i, episodes[i].tries + 1)
     ELSE IF ~OwnsInstalled(i) THEN Return(i) /\ UNCHANGED <<session, flags>>
     ELSE /\ Set(i, [episodes[i] EXCEPT !.pc = "restart", !.tries = @ + 1])
          /\ stream' = "lost"     \* Restart closes the old socket itself
          /\ UNCHANGED <<state, gen, installed, flags>>
  /\ UNCHANGED <<attempts, joins, inbox, delivery, app, calls>>

\* The server answered with ReconnectResponse and took SyncState: the socket
\* is back and its events flow again; ICE restarts.
ResumeSignal(i) ==
  /\ IoFree /\ episodes[i].pc = "restart"
  /\ Current(i) /\ OwnsInstalled(i)
  /\ stream' = "live"
  /\ Set(i, [episodes[i] EXCEPT !.pc = "ice"])
  /\ UNCHANGED <<state, gen, installed, flags, attempts, joins, inbox, delivery, app, calls>>

\* The transport is back as well.
ResumeCommit(i) ==
  /\ IoFree /\ episodes[i].pc = "ice"
  /\ Current(i) /\ OwnsInstalled(i) /\ state = "Reconnecting" /\ ~disabled
  /\ state' = "Connected" /\ attempts' = 0
  /\ Release(i)
  /\ Tell("Reconnected", gen, "Connected")
  /\ UNCHANGED <<gen, installed, stream, joins, inbox, appDelivery, heard, app, calls>>

\* Any failure of a resume, its commit checks included, turns it into a full
\* restart within the same try.
ResumeFails(i) ==
  /\ IoFree /\ episodes[i].pc \in {"restart", "ice"}
  /\ FullRestart(i, episodes[i].tries)
  /\ UNCHANGED <<attempts, joins, inbox, delivery, app, calls>>

\* The catch block of a full restart: go on with the session the failed join
\* left behind, or leave the room to whoever took it over.
\* Mutant: the cleanup of a failed join is taken for somebody else's session.
CatchRestartTimid(i) ==
  LET e == episodes[i]
      Retry(g, s) == /\ state' = s
                     /\ flags' = flags \ {"suppress"}
                     /\ Set(i, [e EXCEPT !.pc = "delay", !.gen = g])
  IN IF gen = e.rgen /\ installed = e.rgen /\ state = "Connected" /\ ~disabled /\ active
     THEN Retry(e.rgen, "Reconnecting")
     ELSE IF state = "Reconnecting" /\ Current(i)
     THEN Retry(e.gen, "Reconnecting")
     ELSE Return(i) /\ UNCHANGED <<state, flags>>

\* Mutant: the cleanup of a failed join is known by the generation alone.
CatchRestartBlind(i) ==
  LET e == episodes[i]
      Retry(g, s) == /\ state' = s
                     /\ flags' = flags \ {"suppress"}
                     /\ Set(i, [e EXCEPT !.pc = "delay", !.gen = g])
  IN IF gen = e.rgen /\ installed = e.rgen /\ state = "Connected" /\ ~disabled /\ active
     THEN Retry(e.rgen, "Reconnecting")
     ELSE IF gen = e.rgen + 1 /\ installed = 0 /\ state = "Disconnected"
     THEN Retry(e.rgen + 1, "Reconnecting")
     ELSE IF state = "Reconnecting" /\ Current(i)
     THEN Retry(e.gen, "Reconnecting")
     ELSE Return(i) /\ UNCHANGED <<state, flags>>

CatchRestart(i) ==
  LET e == episodes[i]
      Retry(g) == /\ state' = "Reconnecting"
                  /\ flags' = flags \ {"suppress"}
                  /\ Set(i, [e EXCEPT !.pc = "delay", !.gen = g])
  IN IF gen = e.rgen /\ installed = e.rgen /\ state = "Connected" /\ ~disabled /\ active
     THEN Retry(e.rgen)
     ELSE IF gen = e.rgen + 1 /\ installed = 0 /\ state = "Disconnected"
             /\ ~disabled /\ active
     THEN Retry(e.rgen + 1)
     ELSE IF state = "Reconnecting" /\ Current(i)
     THEN Retry(e.gen)
     ELSE Return(i) /\ UNCHANGED <<state, flags>>

\* The full restart calls ConnectAsync without yielding the I/O thread; the
\* application thread may have been faster.
Rejoin(i) ==
  /\ ioDelivery = Nothing /\ episodes[i].pc = "rejoin"
  /\ IF MayConnect
     THEN BeginConnect(i) /\ Set(i, [episodes[i] EXCEPT !.pc = "joining"])
     ELSE CatchRestart(i) /\ UNCHANGED <<gen, installed, stream, joins>>
  /\ UNCHANGED <<attempts, inbox, delivery, app, calls>>

\* ConnectAsync returned, or threw.
Rejoined(i) ==
  /\ ioDelivery = Nothing /\ episodes[i].pc \in {"joined", "joinFailed"}
  /\ IF /\ episodes[i].pc = "joined"
        /\ IsSignalGenerationCurrent(episodes[i].rgen) /\ installed = episodes[i].rgen
        /\ state = "Connected" /\ active /\ ~disabled
     THEN /\ Set(i, [episodes[i] EXCEPT !.pc = "republish", !.gen = episodes[i].rgen])
          /\ UNCHANGED <<state, flags>>
     ELSE CatchRestart(i)
  /\ UNCHANGED <<gen, installed, stream, attempts, joins, inbox, delivery, app, calls>>

MayFinishRestart(i) ==
  Current(i) /\ OwnsInstalled(i) /\ state = "Connected" /\ active /\ ~disabled

\* The local tracks are published again; a session that changed meanwhile
\* ends the coroutine on the spot.
Republished(i) ==
  /\ IoFree /\ episodes[i].pc = "republish"
  /\ IF MayFinishRestart(i) THEN Set(i, [episodes[i] EXCEPT !.pc = "channel"])
                            ELSE Return(i)
  /\ UNCHANGED <<session, flags, attempts, joins, inbox, delivery, app, calls>>

\* The reliable data channel is open: the recovery is complete.
ChannelReady(i) ==
  /\ IoFree /\ episodes[i].pc = "channel"
  /\ IF MayFinishRestart(i)
     THEN attempts' = 0 /\ Release(i) /\ Tell("Reconnected", gen, "Connected")
     ELSE Return(i) /\ UNCHANGED <<attempts, flags, ioDelivery>>
  /\ UNCHANGED <<session, joins, inbox, appDelivery, heard, app, calls>>

\* Publishing, negotiating or waiting for the channel throws.
RestartFails(i) ==
  /\ IoFree /\ episodes[i].pc \in {"republish", "channel"}
  /\ CatchRestart(i)
  /\ UNCHANGED <<gen, installed, stream, attempts, joins, inbox, delivery, app, calls>>

\* reconnect_total is over.
Exhaust(i) ==
  /\ IoFree /\ episodes[i].pc = "delay"
  /\ IF Stale(i) THEN Return(i) /\ UNCHANGED <<session, flags, ioDelivery>>
     ELSE IF disabled THEN Release(i) /\ UNCHANGED <<session, ioDelivery>>
     ELSE /\ EndSession
          /\ flags' = flags \ {"active", "suppress"}
          /\ Return(i)
          /\ Tell("Disconnected", gen + 1, "Disconnected")
  /\ UNCHANGED <<attempts, joins, inbox, appDelivery, heard, app, calls>>

-----------------------------------------------------------------------------
(* DeliverLifecycleListenerEvent: an event is admitted if the session it     *)
(* speaks of is still the one it was committed in.                           *)

Admit(d) == ~retired /\ gen = d.gen /\ state = d.state

DeliverOnIo ==
  /\ ioDelivery # Nothing
  /\ heard' = IF Admit(ioDelivery) THEN ioDelivery.kind ELSE heard
  /\ ioDelivery' = Nothing
  /\ UNCHANGED <<session, flags, attempts, coroutines, inbox, appDelivery, app, calls>>

DeliverOnApp ==
  /\ appDelivery # Nothing
  /\ heard' = IF Admit(appDelivery) THEN appDelivery.kind ELSE heard
  /\ appDelivery' = Nothing
  /\ UNCHANGED <<session, flags, attempts, coroutines, inbox, ioDelivery, app, calls>>

\* The I/O thread takes what is first in its queue.
HandleEvent ==
  /\ IoFree /\ inbox # <<>>
  /\ \/ Head(inbox).kind = "close" /\ HandleClose(Head(inbox).gen)
     \/ Head(inbox).kind = "leave" /\ HandleLeave(Head(inbox).gen)
     \/ Head(inbox).kind = "reconnect" /\ HandleReconnectRequest(Head(inbox).gen)
     \/ Head(inbox).kind = "finalize" /\ FinalizeServerDisconnect(Head(inbox).gen)
  /\ UNCHANGED <<coroutines, appDelivery, heard, app, calls>>

BeginAttempt ==
  /\ IoFree /\ inbox # <<>> /\ Head(inbox).kind = "attempt"
  /\ StartAttempt(Head(inbox).gen)

-----------------------------------------------------------------------------
(* The network and the server. *)

Post(kind) == inbox' = Append(inbox, [kind |-> kind, gen |-> installed])

LoseSignal ==
  /\ stream = "live"
  /\ Use("loss", MaxLosses)
  /\ stream' = "lost" /\ Post("close")
  /\ UNCHANGED <<state, gen, installed, flags, attempts, coroutines, delivery, app>>

ServerLeave ==
  /\ stream = "live" /\ Use("leave", MaxLeaves) /\ Post("leave")
  /\ UNCHANGED <<session, flags, attempts, coroutines, delivery, app>>

ServerReconnectRequest ==
  /\ stream = "live"
  /\ Use("request", MaxRequests) /\ Post("reconnect")
  /\ UNCHANGED <<session, flags, attempts, coroutines, delivery, app>>

-----------------------------------------------------------------------------
JoinStep(j) == JoinCommit(j) \/ ConnectCommit(j) \/ JoinFails(j)

EpisodeStep(i) ==
  \/ Wake(i) \/ ResumeSignal(i) \/ ResumeCommit(i) \/ ResumeFails(i)
  \/ Rejoin(i) \/ Rejoined(i) \/ Republished(i) \/ ChannelReady(i)
  \/ RestartFails(i) \/ Exhaust(i)

IoStep ==
  \/ HandleEvent \/ BeginAttempt \/ DeliverOnIo
  \/ \E j \in joins : JoinStep(j)
  \/ \E i \in Episodes : EpisodeStep(i)

AppStep == Disconnect \/ Retire \/ RetireDisconnect \/ DeliverOnApp

NetworkStep == LoseSignal \/ ServerLeave \/ ServerReconnectRequest

Next == Connect \/ IoStep \/ AppStep \/ NetworkStep

Spec == Init /\ [][Next]_vars

\* The I/O thread serves its queue, every await of a coroutine is over after
\* its timeout at the latest, and a call of the application returns.
Fairness ==
  /\ WF_vars(HandleEvent \/ BeginAttempt) /\ WF_vars(DeliverOnIo)
  /\ WF_vars(\E j \in joins : JoinStep(j))
  /\ \A i \in Episodes : WF_vars(EpisodeStep(i))
  /\ WF_vars(RetireDisconnect) /\ WF_vars(DeliverOnApp)

FairSpec == Spec /\ Fairness

-----------------------------------------------------------------------------
(* Properties *)

\* Types, and the reconnect budget: no more closes turn into reconnections
\* than kMaxReconnectAttempts without a success between them.
TypeOK ==
  /\ state \in States /\ gen \in Nat /\ installed \in Nat
  /\ stream \in {"none", "live", "lost"}
  /\ flags \subseteq Flags /\ attempts \in 0 .. MaxReconnectAttempts
  /\ joins \subseteq Join
  /\ episodes \in [Episodes -> Episode]
  /\ inbox \in Seq(Event)
  /\ ioDelivery \in Delivery \cup {Nothing} /\ appDelivery \in Delivery \cup {Nothing}
  /\ app \in {"idle", "retiring", "retired"} /\ heard \in Kinds \cup {"none"}
  /\ calls \in [Inputs -> Nat]

\* A session in use is the current one: a Connected room has the session of
\* its generation installed, a Reconnecting one has it or none, and whatever
\* else a room keeps installed belongs to a join that has yet to clean it up.
SessionOwnership ==
  /\ state = "Connected" => installed = gen
  /\ state \in {"Reconnecting", "Connecting"} => installed \in {0, gen}
  /\ installed \notin {0, gen} => \E j \in joins : j.gen = installed

\* Two coroutines never reconnect the same session.
OneReconnectOwner ==
  \A i, k \in Episodes :
    i # k /\ episodes[i].pc # "none" /\ episodes[k].pc # "none"
      => Stale(i) \/ Stale(k)

\* After a terminal LeaveRequest was accepted nothing joins the room again
\* until the application asks for it.
ServerLeaveNeverRejoined ==
  [][state' = "Connecting" /\ state # "Connecting" => "serverLeft" \notin flags']_vars

\* What a listener hears makes sense (the commits of every lifecycle event and
\* their admission in DeliverLifecycleListenerEvent): Reconnected ends a
\* Reconnecting, and Connected never comes in the middle of one.
ListenerOrder ==
  [][heard' # heard =>
       CASE heard' = "Connected" -> heard \in {"none", "Disconnected"}
         [] heard' = "Reconnected" -> heard = "Reconnecting"
         [] OTHER -> TRUE]_heard

\* Retire is final: once it returned no session is or will be installed.
RetirementIsFinal ==
  app = "retired" => state = "Disconnected" /\ installed = 0 /\ ~active

\* A user who left stays away until the next ConnectAsync, whatever was joining
\* or recovering then.  A Disconnect in the middle of a full restart leaves the
\* very state the restart's own failed join would: one generation on, down,
\* nothing installed.  Only reconnect_disabled_ and reconnect_active_ keep the
\* catch block (room.cpp:11620-11624) from taking the room back.
UserLeaveIsFinal ==
  "userLeft" \in flags => state = "Disconnected" /\ installed = 0 /\ ~active

\* Connected means signalling works, or its loss is about to be noticed.
ConnectedHasSignal ==
  state = "Connected" /\ stream = "lost" /\ ~retired =>
    \E n \in DOMAIN inbox : inbox[n].gen = gen

\* reconnect_active_ is up, but its coroutine has returned: it saw that the
\* connection was lost again while it was closing, and left the recovery to an
\* attempt that had already left it to this one (room.cpp:11518-11524, 11092).
Orphaned ==
  /\ state = "Reconnecting" /\ active
  /\ \A i \in Episodes : episodes[i].pc = "none"
  /\ \A n \in DOMAIN inbox : inbox[n].kind # "attempt"

\* A room whose listener was told it is reconnecting tells it how that ended,
\* unless it is retired, is left without a coroutine, or the server has ended
\* the session: a LeaveRequest accepted while a full restart joins is never
\* announced if the join fails.
ReconnectingEnds ==
  heard = "Reconnecting" ~>
    (heard # "Reconnecting" \/ retired \/ Orphaned \/ "serverLeft" \in flags)

\* A terminal LeaveRequest is carried through: its cleanup is not forgotten.
ServerLeaveCompletes ==
  "finalizing" \in flags ~> state = "Disconnected" /\ installed = 0
=============================================================================
