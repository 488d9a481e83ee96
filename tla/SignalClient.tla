---------------------------- MODULE SignalClient ----------------------------
(***************************************************************************)
(* The signalling client of a room (src/signal/signal_client.cpp) on its   *)
(* streams (signal_stream.cpp) and web sockets (websocket_client.cpp), the *)
(* server at the other end, and what a Room does with a client: join, read *)
(* its events, resume it when it is lost, close it.                        *)
(*                                                                         *)
(* A client lives on one I/O thread, which runs one handler at a time up   *)
(* to its next co_await, and is called by one more thread, the             *)
(* application's, which may stop between any two locks.  stream_mutex_ is  *)
(* a variable because Restart keeps it across an await.                    *)
(*                                                                         *)
(* Not here: URLs, tokens and the pong, time except as "later".            *)
(***************************************************************************)
EXTENDS Naturals, Sequences, FiniteSets, SequencesExt

CONSTANTS
    MaxConns,   \* web sockets dialled in the life of the client (bound)
    MaxSends,   \* requests given to Send (bound)
    MaxSaid,    \* messages of the server, its answers apart (bound)
    MaxDeaths   \* connections that die without a word (bound)

ASSUME SignalAssumption ==
    MaxConns \in Nat \ {0} /\ {MaxSends, MaxSaid, MaxDeaths} \subseteq Nat

VARIABLES
    conns,    \* conns[c]: the c-th web socket and its stream, both ends
    client,   \* the fields of the SignalClient
    lock,     \* Restart holds stream_mutex_
    io,       \* "free", or "blocked" on a mutex
    app,      \* where the application's thread is in Send or Close
    tasks,    \* coroutines spawned to send a request, in the order they run
    ep,       \* the coroutine that joins or resumes
    room,     \* the state of the Room
    heard,    \* the numbers of the messages given to the Room
    got,      \* the requests that have reached the server
    sends,    \* requests given to Send so far
    said      \* messages of the server so far

vars == <<conns, client, lock, io, app, tasks, ep, room, heard, got, sends, said>>

NoEpisode == [pc |-> "none", c |-> 0, resp |-> FALSE]
AppIdle == [pc |-> "idle", r |-> 0, pass |-> FALSE]

Init ==
    /\ conns = <<>>
    /\ client = [stream |-> 0, reconnecting |-> FALSE, ready |-> FALSE,
                 closed |-> FALSE, watching |-> FALSE,
                 queue |-> <<>>, buffer |-> <<>>, reported |-> FALSE]
    /\ lock = FALSE
    /\ io = "free"
    /\ app = AppIdle
    /\ tasks = <<>>
    /\ ep = [NoEpisode EXCEPT !.pc = "dial"]
    /\ room = "connecting"
    /\ heard = <<>>
    /\ got = <<>>
    /\ sends = 0
    /\ said = 0

-----------------------------------------------------------------------------
(* Parts of handlers: how they change the client, and what they spawn *)

\* Restart sets reconnecting_ before it dials, a join does not.
Joining == ~client.reconnecting
\* The Room has the client: a join is done, or waits for the media.
Given == ~client.closed /\ ~(Joining /\ ep.pc \in {"dial", "wait"})
Up(c) == c # 0 /\ conns[c].up
\* SignalStream::Abort: the callbacks go at once, the socket follows.
Aborted(cs, c) ==
    IF c = 0 THEN cs
    ELSE [cs EXCEPT ![c].up = FALSE, ![c].cb = "none", ![c].inbound = <<>>]

\* FlushQueue: nothing without a stream that is up, otherwise all of it.
\* Mutant: what was sent stays in the queue.
FlushedAndKept(c) == c
Flushed(c) == IF Up(c.stream) THEN [c EXCEPT !.queue = <<>>] ELSE c
Spawned(c) ==
    IF Up(c.stream)
    THEN [i \in 1..Len(c.queue) |-> [r |-> c.queue[i], c |-> c.stream]]
    ELSE <<>>

\* StartHeartbeat and StopHeartbeat: loops of an older generation end where
\* they wake up, watching says whether there is one of the present generation.
Watched(c) == [c EXCEPT !.watching = ~c.closed]

\* The end of ReconnectInternal and TryConnectInternal: the stream is swapped
\* in, its callbacks become the client's.  Mutant: without the heartbeat.
NewStream(c, k) == [c EXCEPT !.stream = k, !.reported = FALSE]
InstalledUnwatched(c, k) == NewStream(c, k)
Installed(c, k) == Watched(NewStream(c, k))

\* SignalClient::Close, the part before stream_mutex_ and the part under it.
Ended(c) == [c EXCEPT !.closed = TRUE, !.watching = FALSE]
Released(c) == [c EXCEPT !.stream = 0]
CloseOnIo ==
    /\ client' = Released(Ended(client))
    /\ conns' = Aborted(conns, client.stream)

\* HandleIncomingMessage: kept until the room is ready for events.
\* Mutant: delivered at once.
DeliversAtOnce(n) ==
    IF client.closed THEN UNCHANGED <<client, heard, room>>
    ELSE /\ heard' = Append(heard, n[2])
         /\ room' = IF n[1] = "leave" THEN "gone" ELSE room
         /\ UNCHANGED client
HandleIncomingMessage(n) ==
    IF client.closed THEN UNCHANGED <<client, heard, room>>
    ELSE IF ~client.ready
    THEN /\ client' = [client EXCEPT !.buffer = Append(@, n)]
         /\ UNCHANGED <<heard, room>>
    ELSE /\ heard' = Append(heard, n[2])
         /\ room' = IF n[1] = "leave" THEN "gone" ELSE room
         /\ UNCHANGED client

\* HandleClose and what the Room makes of a Close event: a lost join fails, a
\* connected room resumes, and one that reconnects already ignores it.
HandleClose ==
    IF client.closed THEN UNCHANGED <<client, room, ep>>
    ELSE /\ client' = [client EXCEPT !.watching = FALSE, !.reported = TRUE]
         /\ room' = CASE room = "connecting" -> "gone"
                      [] room = "connected"  -> "reconnecting"
                      [] OTHER -> room
         /\ ep' = IF room = "connected" THEN [NoEpisode EXCEPT !.pc = "start"] ELSE ep

-----------------------------------------------------------------------------
(* The coroutine that joins or resumes *)

IoFree == io = "free"

\* AttemptReconnect goes on after its delay, into Restart.  A stream that is
\* still up is closed with stream_mutex_ held, one that is down is dropped.
Restart ==
    /\ IoFree /\ ep.pc = "start" /\ room = "reconnecting" /\ ~lock
    /\ IF Up(client.stream)
       THEN /\ lock' = TRUE
            /\ client' = [client EXCEPT !.reconnecting = TRUE, !.ready = FALSE,
                                        !.watching = FALSE]
            /\ ep' = [ep EXCEPT !.pc = "closing"]
            /\ UNCHANGED conns
       ELSE /\ client' = [client EXCEPT !.reconnecting = TRUE, !.ready = FALSE,
                                        !.watching = FALSE, !.stream = 0]
            /\ conns' = Aborted(conns, client.stream)
            /\ ep' = [ep EXCEPT !.pc = "dial"]
            /\ UNCHANGED lock
    /\ UNCHANGED <<io, app, tasks, room, heard, got, sends, said>>

\* The await of stream_->Close is over.
StreamClosed ==
    /\ IoFree /\ ep.pc = "closing"
    /\ conns' = Aborted(conns, client.stream)
    /\ client' = [client EXCEPT !.stream = 0]
    /\ lock' = FALSE
    /\ ep' = [ep EXCEPT !.pc = "dial"]
    /\ UNCHANGED <<io, app, tasks, room, heard, got, sends, said>>

\* A join or a resume that fails ends the client: Connect closes it, the room
\* goes on to a full restart with another one.  Restart has reset reconnecting_.
Failed(cs) ==
    /\ client' = [Released(Ended(client)) EXCEPT !.reconnecting = FALSE]
    /\ conns' = Aborted(cs, client.stream)
    /\ room' = "gone"
    /\ ep' = NoEpisode

Dial ==
    /\ IoFree /\ ep.pc = "dial" /\ Len(conns) < MaxConns
    /\ conns' = Append(conns, [up |-> TRUE, cb |-> "wait", srv |-> "open",
                               answered |-> FALSE, inbound |-> <<>>])
    /\ ep' = [NoEpisode EXCEPT !.pc = "wait", !.c = Len(conns) + 1]
    /\ UNCHANGED <<client, lock, io, app, tasks, room, heard, got, sends, said>>

DialFails ==
    /\ IoFree /\ ep.pc = "dial" /\ ~lock
    /\ Failed(conns)
    /\ UNCHANGED <<lock, io, app, tasks, heard, got, sends, said>>

\* The wait is over, by its time or by its callbacks, without a response: the
\* stream is given up.  A join may have another URL to try.
WaitFails ==
    /\ IoFree /\ ep.pc = "wait" /\ ~lock
    /\ IF Joining /\ Len(conns) < MaxConns
       THEN /\ conns' = Aborted(conns, ep.c)
            /\ ep' = [NoEpisode EXCEPT !.pc = "dial"]
            /\ UNCHANGED <<client, room>>
       ELSE Failed(Aborted(conns, ep.c))
    /\ UNCHANGED <<lock, io, app, tasks, heard, got, sends, said>>

\* The response has cancelled the timer.  Whatever else the callbacks of the
\* wait have seen since is forgotten.
ResponseTaken ==
    /\ IoFree /\ ep.pc = "wait" /\ ep.resp /\ ~lock
    /\ conns' = [conns EXCEPT ![ep.c].cb = "client"]
    /\ client' = Installed(client, ep.c)
    /\ ep' = [NoEpisode EXCEPT !.pc = "installed"]
    /\ UNCHANGED <<lock, io, app, tasks, room, heard, got, sends, said>>

\* A JoinResponse that names another server: the stream is closed again.
Redirected ==
    /\ IoFree /\ ep.pc = "wait" /\ ep.resp /\ Joining /\ Len(conns) < MaxConns
    /\ conns' = Aborted(conns, ep.c)
    /\ ep' = [NoEpisode EXCEPT !.pc = "dial"]
    /\ UNCHANGED <<client, lock, io, app, tasks, room, heard, got, sends, said>>

\* The room has sent its SyncState, or has made its peer connections when it
\* joins: SetReconnected flushes the queue, SetEventReady delivers what was kept.
Ready ==
    /\ IoFree /\ ep.pc = "installed" /\ ~lock
    /\ room \in {"connecting", "reconnecting"}
    /\ room = "reconnecting" => Up(client.stream)
    /\ LET back == [client EXCEPT !.reconnecting = FALSE]
       IN  /\ client' = [Flushed(back) EXCEPT !.ready = TRUE, !.buffer = <<>>]
           /\ tasks' = tasks \o Spawned(back)
    /\ heard' = heard \o [i \in 1..Len(client.buffer) |-> client.buffer[i][2]]
    /\ IF \E i \in 1..Len(client.buffer) : client.buffer[i][1] = "leave"
       THEN room' = "gone"
       ELSE UNCHANGED room
    /\ ep' = [ep EXCEPT !.pc = "media"]
    /\ UNCHANGED <<conns, lock, io, app, got, sends, said>>

\* SendAsync finds no connection, or the media never come back.
Unready ==
    /\ IoFree /\ ~lock /\ room \in {"connecting", "reconnecting"}
    /\ \/ ep.pc = "installed"
       \/ ep.pc = "media"
    /\ Failed(conns)
    /\ UNCHANGED <<lock, io, app, tasks, heard, got, sends, said>>

Commit ==
    /\ IoFree /\ ep.pc = "media" /\ room \in {"connecting", "reconnecting"}
    /\ room' = "connected"
    /\ ep' = NoEpisode
    /\ UNCHANGED <<conns, client, lock, io, app, tasks, heard, got, sends, said>>

\* The coroutine finds that the room has left: with it goes the last reference
\* to the client, and with the client the stream that it may have installed.
\* Mutant: the stream is left to Close, which has been here before.
DropForgets ==
    /\ IoFree /\ ~lock /\ room = "gone" /\ ep.pc \in {"start", "installed", "media"}
    /\ client' = Ended(client)
    /\ ep' = NoEpisode
    /\ UNCHANGED <<conns, lock, io, app, tasks, room, heard, got, sends, said>>
Drop ==
    /\ IoFree /\ ~lock /\ room = "gone" /\ ep.pc \in {"start", "installed", "media"}
    /\ CloseOnIo
    /\ ep' = NoEpisode
    /\ UNCHANGED <<lock, io, app, tasks, room, heard, got, sends, said>>

\* The cleanup after a Leave or a lost join, on the I/O thread.
CleanUp ==
    /\ IoFree /\ ~lock /\ room = "gone" /\ ~client.closed
    /\ ep.pc \in {"none", "start", "media"}
    /\ CloseOnIo
    /\ UNCHANGED <<lock, io, app, tasks, ep, room, heard, got, sends, said>>

-----------------------------------------------------------------------------
(* Requests *)

\* The end of Send: to the stream if it is up, else back to the queue unless
\* the request is one that passes (offers, answers, candidates, a leave).
Handed(r, pass, c, more) ==
    /\ tasks' = tasks \o more \o (IF Up(c.stream) THEN <<[r |-> r, c |-> c.stream]>>
                                  ELSE <<>>)
    /\ client' = IF Up(c.stream) \/ pass THEN c ELSE [c EXCEPT !.queue = Append(@, r)]

\* What Send does first when no resume is in progress.
\* Mutant: only SetReconnected flushes.
FirstNothing(c) == [client |-> c, spawned |-> <<>>]
First(c) == [client |-> Flushed(c), spawned |-> Spawned(c)]

\* Send, SendAsync too, by another handler on the I/O thread: it blocks where a
\* mutex it needs is held by a coroutine that only this thread can resume.
SendOnIo(pass) ==
    /\ IoFree /\ sends < MaxSends /\ Given
    /\ sends' = sends + 1
    /\ IF lock /\ (pass \/ app.pc = "flushing")
       THEN io' = "blocked" /\ UNCHANGED <<client, tasks>>
       ELSE /\ UNCHANGED io
            /\ IF client.reconnecting /\ ~pass
               THEN /\ client' = [client EXCEPT !.queue = Append(@, sends + 1)]
                    /\ UNCHANGED tasks
               ELSE IF client.reconnecting
               THEN Handed(sends + 1, pass, client, <<>>)
               ELSE Handed(sends + 1, pass, First(client).client, First(client).spawned)
    /\ UNCHANGED <<conns, lock, app, ep, room, heard, got, said>>

\* Send by the application: it reads reconnecting_ and acts on what it read,
\* lock by lock.
AppSends(pass) ==
    /\ app.pc = "idle" /\ sends < MaxSends /\ Given
    /\ sends' = sends + 1
    /\ app' = [pc |-> IF client.reconnecting THEN IF pass THEN "take" ELSE "queue"
                      ELSE "flush",
               r |-> sends + 1, pass |-> pass]
    /\ UNCHANGED <<conns, client, lock, io, tasks, ep, room, heard, got, said>>

AppQueues ==
    /\ app.pc = "queue"
    /\ client' = [client EXCEPT !.queue = Append(@, app.r)]
    /\ app' = AppIdle
    /\ UNCHANGED <<conns, lock, io, tasks, ep, room, heard, got, sends, said>>

\* FlushQueue takes queue_mutex_, and stream_mutex_ under it.
AppEntersFlush ==
    /\ app.pc = "flush"
    /\ app' = [app EXCEPT !.pc = IF client.queue = <<>> THEN "take" ELSE "flushing"]
    /\ UNCHANGED <<conns, client, lock, io, tasks, ep, room, heard, got, sends, said>>

AppFlushes ==
    /\ app.pc = "flushing" /\ ~lock
    /\ client' = First(client).client
    /\ tasks' = tasks \o First(client).spawned
    /\ app' = [app EXCEPT !.pc = "take"]
    /\ UNCHANGED <<conns, lock, io, ep, room, heard, got, sends, said>>

AppHands ==
    /\ app.pc = "take" /\ ~lock
    /\ Handed(app.r, app.pass, client, <<>>)
    /\ app' = AppIdle
    /\ UNCHANGED <<conns, lock, io, ep, room, heard, got, sends, said>>

\* Disconnect: Close up to stream_mutex_, then under it.  A client that still
\* joins is not the Room's yet and is left to the coroutine that made it.
AppCloses ==
    /\ app.pc = "idle" /\ room # "gone"
    /\ room' = "gone"
    /\ IF Given
       THEN client' = Ended(client) /\ app' = [AppIdle EXCEPT !.pc = "close"]
       ELSE UNCHANGED <<client, app>>
    /\ UNCHANGED <<conns, lock, io, tasks, ep, heard, got, sends, said>>

AppReleases ==
    /\ app.pc = "close" /\ ~lock
    /\ client' = Released(client)
    /\ conns' = Aborted(conns, client.stream)
    /\ app' = AppIdle
    /\ UNCHANGED <<lock, io, tasks, ep, room, heard, got, sends, said>>

\* A spawned coroutine runs: the frame goes into the write queue of its socket
\* and out, or nowhere when that is down.  Nobody is told: SendRawFrame does
\* not fail.
RunTask ==
    /\ IoFree /\ tasks # <<>>
    /\ LET t == Head(tasks)
       IN  got' = IF Up(t.c) /\ conns[t.c].srv = "open" THEN Append(got, t.r) ELSE got
    /\ tasks' = Tail(tasks)
    /\ UNCHANGED <<conns, client, lock, io, app, ep, room, heard, sends, said>>

\* The heartbeat wakes up: a ping, sent with Send, and a look at the time of
\* the last message, which is long ago if the stream is dead or down.
Heartbeat ==
    /\ IoFree /\ client.watching /\ ~lock
    /\ LET f == IF client.reconnecting THEN [client |-> client, spawned |-> <<>>]
                ELSE First(client)
           late == ~Up(client.stream) \/ conns[client.stream].srv = "dead"
       IN  /\ tasks' = tasks \o f.spawned
           /\ IF late /\ f.client = client
              THEN HandleClose
              ELSE client' = f.client /\ UNCHANGED <<room, ep>>
    /\ UNCHANGED <<conns, lock, io, app, heard, got, sends, said>>

-----------------------------------------------------------------------------
(* Frames, and the server *)

\* The read loop of socket c has a frame.  While the response is waited for,
\* a message is kept, a Leave ends the resume (not the join) and is forgotten.
Read(c) ==
    /\ IoFree /\ conns[c].up /\ conns[c].inbound # <<>>
    /\ LET m == Head(conns[c].inbound)
           cb == conns[c].cb
       IN  /\ conns' = [conns EXCEPT ![c].inbound = Tail(@), ![c].up = m[1] # "close"]
           /\ IF cb = "client" /\ m[1] = "close"
              THEN HandleClose /\ UNCHANGED heard
              ELSE IF cb = "client" /\ m[1] # "response"
              THEN HandleIncomingMessage(m) /\ UNCHANGED ep
              ELSE IF cb = "wait" /\ m[1] = "response"
              THEN ep' = [ep EXCEPT !.resp = TRUE] /\ UNCHANGED <<client, heard, room>>
              ELSE IF cb = "wait" /\ m[1] \in (IF Joining THEN {"update", "leave"} ELSE {"update"})
              THEN /\ client' = [client EXCEPT !.buffer = Append(@, m)]
                   /\ UNCHANGED <<ep, heard, room>>
              ELSE UNCHANGED <<client, ep, heard, room>>
    /\ UNCHANGED <<lock, io, app, tasks, got, sends, said>>

\* The socket of a dead connection reports an error at last (handle_error).
ReadError(c) ==
    /\ IoFree /\ conns[c].up /\ conns[c].srv = "dead"
    /\ conns' = [conns EXCEPT ![c].up = FALSE]
    /\ IF conns[c].cb = "client" THEN HandleClose ELSE UNCHANGED <<client, room, ep>>
    /\ UNCHANGED <<lock, io, app, tasks, heard, got, sends, said>>

Server(c, frames, srv) ==
    /\ conns[c].up /\ conns[c].srv = "open"
    /\ conns' = [conns EXCEPT ![c].inbound = @ \o frames, ![c].srv = srv]
    /\ UNCHANGED <<client, lock, io, app, tasks, ep, room, heard, got, sends>>

ServerAnswers(c) ==
    /\ conns[c].up /\ conns[c].srv = "open" /\ ~conns[c].answered
    /\ conns' = [conns EXCEPT ![c].inbound = Append(@, <<"response", 0>>),
                              ![c].answered = TRUE]
    /\ UNCHANGED <<client, lock, io, app, tasks, ep, room, heard, got, sends, said>>
ServerSays(c) ==
    /\ said < MaxSaid /\ said' = said + 1
    /\ \/ Server(c, <<<<"update", said + 1>>>>, "open")
       \/ Server(c, <<<<"leave", said + 1>>, <<"close", 0>>>>, "closed")
ServerCloses(c) == Server(c, <<<<"close", 0>>>>, "closed") /\ UNCHANGED said

\* The connection is dead, and what was under way with it: no FIN, no reset.
Dies(c) ==
    /\ conns[c].srv = "open" /\ conns[c].up
    /\ Cardinality({d \in DOMAIN conns : conns[d].srv = "dead"}) < MaxDeaths
    /\ conns' = [conns EXCEPT ![c].srv = "dead", ![c].inbound = <<>>]
    /\ UNCHANGED <<client, lock, io, app, tasks, ep, room, heard, got, sends, said>>

-----------------------------------------------------------------------------
Episode ==
    \/ Restart \/ StreamClosed \/ Dial \/ DialFails \/ WaitFails \/ ResponseTaken
    \/ Redirected \/ Ready \/ Unready \/ Commit \/ Drop
AppSteps == AppQueues \/ AppEntersFlush \/ AppFlushes \/ AppHands \/ AppReleases
Frames == \E c \in DOMAIN conns : Read(c)
Errors == \E c \in DOMAIN conns : ReadError(c)
Environment ==
    \/ \E pass \in BOOLEAN : SendOnIo(pass) \/ AppSends(pass)
    \/ AppCloses
    \/ \E c \in DOMAIN conns :
          ServerAnswers(c) \/ ServerSays(c) \/ ServerCloses(c) \/ Dies(c)

Next == Episode \/ CleanUp \/ RunTask \/ Heartbeat \/ AppSteps \/ Frames \/ Errors
        \/ Environment

Spec == Init /\ [][Next]_vars

\* A handler that is ready runs, the timers fire, a thread that is not waiting
\* for a mutex goes on, a frame that has arrived is read.  Nothing is asked of
\* the server, of the network or of the user.
Fairness ==
    /\ WF_vars(Episode) /\ WF_vars(CleanUp) /\ WF_vars(RunTask) /\ WF_vars(Heartbeat)
    /\ WF_vars(AppSteps) /\ WF_vars(Frames)

FairSpec == Spec /\ Fairness

-----------------------------------------------------------------------------
(* Properties *)

\* FlushQueue, Send and the failure path of Send move a request between the
\* queue, a coroutine and a socket: no request is in two places, and the server
\* never gets one twice.
NeverTwice ==
    IsInjective(client.queue \o [i \in 1..Len(tasks) |-> tasks[i].r] \o got)

\* What the Room is given is in the order the server said it, over all
\* sockets, and never twice, though some of it waits in buffered_events_.
EventsInOrder == \A i, j \in DOMAIN heard : i < j => heard[i] < heard[j]

\* The I/O thread never waits for a mutex whose owner only it can resume.
IoNeverBlocks == io = "free"

\* The stream of the client is dead or down, and the Room was not told.
Deaf ==
    /\ client.stream # 0 /\ ~client.closed /\ ~client.reported
    /\ ~Up(client.stream) \/ conns[client.stream].srv # "open"

\* A stream that dies in any way, at any time after it was installed, also
\* without a word and between two callbacks, is reported to the Room by a
\* Close event, or replaced, or the client is closed.
DeathIsReported == Deaf ~> (~Deaf \/ io = "blocked")

\* A request that was queued, even by a Send that saw the resume and came to
\* the queue after its flush, does not stay there while the stream is up and the
\* heartbeat, which sends pings with Send, goes on.
Beating == Up(client.stream) /\ client.watching /\ ~client.reconnecting
QueueDrains == (Beating /\ client.queue # <<>>) ~> (client.queue = <<>> \/ ~Beating)

\* Once the room has left, by its user, a Leave or a failure, no socket stays
\* open, whatever the join or resume in progress has dialled or installed since.
GoneReleases ==
    room = "gone" ~> ((\A c \in DOMAIN conns : ~conns[c].up) \/ io = "blocked")
=============================================================================
