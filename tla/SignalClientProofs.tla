------------------------- MODULE SignalClientProofs -------------------------
(***************************************************************************)
(* What the signalling client keeps for later it keeps in order and once:  *)
(* the Room is given the events of the server in the order they were said, *)
(* over all the sockets of the client's life, and no request is in two     *)
(* places, whatever the bounds on sockets, requests, messages and deaths.  *)
(***************************************************************************)
EXTENDS SignalClient, TLAPS

-----------------------------------------------------------------------------
(* The types of the state *)

Event == {"update", "leave"} \X Nat
Frame == {"response", "update", "leave", "close"} \X Nat
Conn == [up : BOOLEAN, cb : {"none", "wait", "client"},
         srv : {"open", "closed", "dead"}, answered : BOOLEAN, inbound : Seq(Frame)]
ClientState == [stream : Nat, reconnecting : BOOLEAN, ready : BOOLEAN, closed : BOOLEAN,
                watching : BOOLEAN, queue : Seq(Nat), buffer : Seq(Event),
                reported : BOOLEAN]
Task == [r : Nat, c : Nat]
AppState == [pc : {"idle", "queue", "flush", "flushing", "take", "close"},
             r : Nat, pass : BOOLEAN]
EpState == [pc : {"none", "start", "closing", "dial", "wait", "installed", "media"},
            c : Nat, resp : BOOLEAN]

TypeInv ==
  /\ conns \in Seq(Conn)
  /\ client \in ClientState
  /\ lock \in BOOLEAN
  /\ io \in {"free", "blocked"}
  /\ app \in AppState
  /\ tasks \in Seq(Task)
  /\ ep \in EpState
  /\ room \in {"connecting", "connected", "reconnecting", "gone"}
  /\ heard \in Seq(Nat)
  /\ got \in Seq(Nat)
  /\ sends \in Nat
  /\ said \in Nat
  /\ client.stream \in 0..Len(conns)
  /\ ep.c \in 0..Len(conns)
  /\ ep.pc = "wait" => ep.c # 0

-----------------------------------------------------------------------------
(* One socket at a time *)

\* A socket that is up is the one waited for, or else the client's stream.
SoleUp == \A c \in DOMAIN conns :
            conns[c].up => c = (IF ep.pc = "wait" THEN ep.c ELSE client.stream)
\* While a stream is made there is no other, and the Room takes no events.
Making ==
  /\ ep.pc \in {"dial", "wait"} => client.stream = 0
  /\ ep.pc \in {"closing", "dial", "wait"} => ~client.ready
  /\ room = "connected" => ep.pc = "none"
\* The callbacks of the wait last as long as the wait.
WaitOnly == \A c \in DOMAIN conns :
              conns[c].up /\ conns[c].cb = "wait" => ep.pc = "wait"

SocketInv == SoleUp /\ Making /\ WaitOnly

-----------------------------------------------------------------------------
(* The events: heard before kept before still to be read *)

IsEvent(m) == m[1] \in {"update", "leave"}
Rising(s) == \A i, j \in DOMAIN s :
               i < j /\ IsEvent(s[i]) /\ IsEvent(s[j]) => s[i][2] < s[j][2]
Bounded(s, n) == \A i \in DOMAIN s : IsEvent(s[i]) => s[i][2] <= n
\* Everything in h was said before every event in s.
Before(h, s) == \A i \in DOMAIN h : \A j \in DOMAIN s : IsEvent(s[j]) => h[i] < s[j][2]
Precedes(b, s) == \A i \in DOMAIN b : \A j \in DOMAIN s :
                    IsEvent(b[i]) /\ IsEvent(s[j]) => b[i][2] < s[j][2]

\* heard, buffer and what is still to come on one socket, of n messages said.
Heard(h, n) ==
  /\ \A i, j \in DOMAIN h : i < j => h[i] < h[j]
  /\ \A i \in DOMAIN h : h[i] <= n
Kept(h, b, n) == Heard(h, n) /\ Rising(b) /\ Bounded(b, n) /\ Before(h, b)
Coming(h, b, s, n) == Rising(s) /\ Bounded(s, n) /\ Before(h, s) /\ Precedes(b, s)

OrderInv ==
  /\ Kept(heard, client.buffer, said)
  /\ client.ready => client.buffer = <<>>
  /\ \A c \in DOMAIN conns :
       conns[c].up => Coming(heard, client.buffer, conns[c].inbound, said)

EventInv == TypeInv /\ SocketInv /\ OrderInv

-----------------------------------------------------------------------------
(* The requests: queued, given to a coroutine, or with the server *)

Distinct(s) == \A i, j \in DOMAIN s : s[i] = s[j] => i = j
DistinctTasks(t) == \A i, j \in DOMAIN t : t[i].r = t[j].r => i = j
Apart(q, t, g) ==
  /\ Distinct(q) /\ DistinctTasks(t) /\ Distinct(g)
  /\ \A i \in DOMAIN q : \A j \in DOMAIN t : q[i] # t[j].r
  /\ \A i \in DOMAIN q : \A j \in DOMAIN g : q[i] # g[j]
  /\ \A i \in DOMAIN t : \A j \in DOMAIN g : t[i].r # g[j]
Numbered(q, t, g, n) ==
  /\ \A i \in DOMAIN q : q[i] <= n
  /\ \A i \in DOMAIN t : t[i].r <= n
  /\ \A i \in DOMAIN g : g[i] <= n
Fresh(r, q, t, g) ==
  /\ \A i \in DOMAIN q : q[i] # r
  /\ \A i \in DOMAIN t : t[i].r # r
  /\ \A i \in DOMAIN g : g[i] # r

\* The application is in Send, with a request that is nowhere yet.
InSend == app.pc \in {"queue", "flush", "flushing", "take"}

RequestInv ==
  /\ Apart(client.queue, tasks, got)
  /\ Numbered(client.queue, tasks, got, sends)
  /\ InSend => app.r <= sends /\ Fresh(app.r, client.queue, tasks, got)

SendInv == TypeInv /\ RequestInv

-----------------------------------------------------------------------------
(* Facts about the parts of handlers *)

\* A list of sockets with one of them changed is one of the same length.
LEMMA ConnReplaced ==
  ASSUME NEW cs \in Seq(Conn), NEW c \in 1..Len(cs), NEW k \in Conn
  PROVE  /\ [cs EXCEPT ![c] = k] \in Seq(Conn)
         /\ Len([cs EXCEPT ![c] = k]) = Len(cs)
         /\ \A d \in 1..Len(cs) : [cs EXCEPT ![c] = k][d] = IF d = c THEN k ELSE cs[d]
  OBVIOUS

\* Abort takes one socket down, with what was still to be read, and leaves the
\* others.
LEMMA AbortedFacts ==
  ASSUME NEW cs \in Seq(Conn), NEW c \in 0..Len(cs)
  PROVE  /\ Aborted(cs, c) \in Seq(Conn)
         /\ Len(Aborted(cs, c)) = Len(cs)
         /\ \A d \in 1..Len(cs) : d # c => Aborted(cs, c)[d] = cs[d]
         /\ c # 0 => ~Aborted(cs, c)[c].up
<1>1. CASE c = 0
  BY <1>1 DEF Aborted
<1>2. CASE c # 0
  <2>1. c \in 1..Len(cs)
    BY <1>2
  <2>2. cs[c] \in Conn
    BY <2>1
  <2> DEFINE k == [cs[c] EXCEPT !.up = FALSE, !.cb = "none", !.inbound = <<>>]
  <2>3. k \in Conn /\ ~k.up
    <3>1. <<>> \in Seq(Frame) /\ FALSE \in BOOLEAN
      OBVIOUS
    <3> QED
      BY <2>2, <3>1 DEF Conn
  <2>4. Aborted(cs, c) = [cs EXCEPT ![c] = k]
    BY <1>2, <2>1 DEF Aborted
  <2> HIDE DEF k
  <2> QED
    BY <1>2, <2>1, <2>3, <2>4, ConnReplaced
<1> QED
  BY <1>1, <1>2

\* FlushQueue touches the queue only, and spawns what was in it.
LEMMA FlushFacts ==
  ASSUME NEW c \in ClientState
  PROVE  /\ Flushed(c) \in ClientState
         /\ Flushed(c).stream = c.stream /\ Flushed(c).buffer = c.buffer
         /\ Flushed(c).ready = c.ready /\ Flushed(c).closed = c.closed
         /\ \/ Flushed(c).queue = c.queue /\ Spawned(c) = <<>>
            \/ /\ Flushed(c).queue = <<>>
               /\ Spawned(c) = [i \in 1..Len(c.queue) |-> [r |-> c.queue[i], c |-> c.stream]]
         /\ Spawned(c) \in Seq(Task)
<1>1. c.queue \in Seq(Nat) /\ c.stream \in Nat
  BY DEF ClientState
<1>2. CASE Up(c.stream)
  <2>1. Spawned(c) = [i \in 1..Len(c.queue) |-> [r |-> c.queue[i], c |-> c.stream]]
    BY <1>2 DEF Spawned
  <2>2. \A i \in 1..Len(c.queue) : [r |-> c.queue[i], c |-> c.stream] \in Task
    BY <1>1 DEF Task
  <2>3. Spawned(c) \in Seq(Task)
    <3> DEFINE T(i) == [r |-> c.queue[i], c |-> c.stream]
    <3>1. \A i \in 1..Len(c.queue) : T(i) \in Task
      BY <2>2
    <3>2. Len(c.queue) \in Nat
      BY <1>1
    <3>3. Spawned(c) = [i \in 1..Len(c.queue) |-> T(i)]
      BY <2>1
    <3> HIDE DEF T
    <3> QED
      BY <3>1, <3>2, <3>3
  <2>4. Flushed(c) = [c EXCEPT !.queue = <<>>]
    BY <1>2 DEF Flushed
  <2>5. <<>> \in Seq(Nat)
    OBVIOUS
  <2>6. /\ Flushed(c) \in ClientState /\ Flushed(c).queue = <<>>
        /\ Flushed(c).stream = c.stream /\ Flushed(c).buffer = c.buffer
        /\ Flushed(c).ready = c.ready /\ Flushed(c).closed = c.closed
    BY <2>4, <2>5 DEF ClientState
  <2> QED
    BY <2>1, <2>3, <2>6
<1>3. CASE ~Up(c.stream)
  BY <1>3 DEF Flushed, Spawned, ClientState
<1> QED
  BY <1>2, <1>3

\* No coroutine, and a coroutine at another of its points, with another socket.
LEMMA NoEpisodeType ==
  NoEpisode \in EpState /\ NoEpisode.pc = "none" /\ NoEpisode.c = 0
BY DEF NoEpisode, EpState
LEMMA EpisodeAt ==
  ASSUME NEW e \in EpState,
         NEW pc \in {"none", "start", "closing", "dial", "wait", "installed", "media"},
         NEW c \in Nat
  PROVE  /\ LET f == [e EXCEPT !.pc = pc]
            IN  f \in EpState /\ f.pc = pc /\ f.c = e.c
         /\ LET f == [e EXCEPT !.pc = pc, !.c = c]
            IN  f \in EpState /\ f.pc = pc /\ f.c = c
         /\ LET f == [e EXCEPT !.resp = TRUE]
            IN  f \in EpState /\ f.pc = e.pc /\ f.c = e.c
<1>1. TRUE \in BOOLEAN
  OBVIOUS
<1> QED
  BY <1>1 DEF EpState

\* The client keeps what it has stored, and the Room takes events as before.
SameStores ==
  /\ client'.queue = client.queue /\ client'.buffer = client.buffer
  /\ client'.ready = client.ready

\* HandleClose keeps the types; the coroutine it starts waits for no socket.
LEMMA HandleCloseType ==
  ASSUME TypeInv, HandleClose
  PROVE  /\ client' \in ClientState /\ client'.stream = client.stream /\ SameStores
         /\ room' \in {"connecting", "connected", "reconnecting", "gone"}
         /\ ep' \in EpState
         /\ ep' = ep \/ (ep'.pc = "start" /\ ep'.c = 0 /\ room = "connected")
         /\ room' = "connected" => room = "connected" /\ client' = client /\ ep' = ep
<1>1. CASE client.closed
  BY <1>1 DEF HandleClose, TypeInv, SameStores
<1>2. CASE ~client.closed
  <2>1. client' = [client EXCEPT !.watching = FALSE, !.reported = TRUE]
    BY <1>2 DEF HandleClose
  <2>2. TRUE \in BOOLEAN /\ FALSE \in BOOLEAN
    OBVIOUS
  <2>3. /\ client' \in ClientState /\ client'.stream = client.stream
        /\ client'.queue = client.queue /\ client'.buffer = client.buffer
        /\ client'.ready = client.ready
    BY <2>1, <2>2 DEF TypeInv, ClientState
  <2>8. SameStores
    BY <2>3 DEF SameStores
  <2>4. /\ room' = CASE room = "connecting" -> "gone"
                     [] room = "connected"  -> "reconnecting"
                     [] OTHER -> room
        /\ ep' = IF room = "connected" THEN [NoEpisode EXCEPT !.pc = "start"] ELSE ep
    BY <1>2 DEF HandleClose
  <2>5. LET e == [NoEpisode EXCEPT !.pc = "start"]
        IN  e \in EpState /\ e.pc = "start" /\ e.c = 0
    BY NoEpisodeType, EpisodeAt
  <2>7. room' # "connected" /\ room' \in {"connecting", "connected", "reconnecting", "gone"}
    BY <2>4 DEF TypeInv
  <2> QED
    BY <2>3, <2>4, <2>5, <2>7, <2>8 DEF TypeInv
<1> QED
  BY <1>1, <1>2

\* Close, and a join or resume that fails: the client stays one.
LEMMA EndedFacts ==
  ASSUME NEW c \in ClientState
  PROVE  /\ Ended(c) \in ClientState /\ Ended(c).stream = c.stream
         /\ Ended(c).queue = c.queue /\ Ended(c).buffer = c.buffer
         /\ Ended(c).ready = c.ready
         /\ Released(c) \in ClientState /\ Released(c).stream = 0
         /\ Released(c).queue = c.queue /\ Released(c).buffer = c.buffer
         /\ Released(c).ready = c.ready
         /\ [c EXCEPT !.reconnecting = FALSE] \in ClientState
         /\ [c EXCEPT !.reconnecting = FALSE].stream = c.stream
         /\ [c EXCEPT !.reconnecting = FALSE].queue = c.queue
         /\ [c EXCEPT !.reconnecting = FALSE].buffer = c.buffer
         /\ [c EXCEPT !.reconnecting = FALSE].ready = c.ready
<1>1. TRUE \in BOOLEAN /\ FALSE \in BOOLEAN /\ 0 \in Nat
  OBVIOUS
<1>2. /\ Ended(c) \in ClientState /\ Ended(c).stream = c.stream
      /\ Ended(c).queue = c.queue /\ Ended(c).buffer = c.buffer
      /\ Ended(c).ready = c.ready
  BY <1>1 DEF Ended, ClientState
<1>3. /\ Released(c) \in ClientState /\ Released(c).stream = 0
      /\ Released(c).queue = c.queue /\ Released(c).buffer = c.buffer
      /\ Released(c).ready = c.ready
  BY <1>1 DEF Released, ClientState
<1>4. /\ [c EXCEPT !.reconnecting = FALSE] \in ClientState
      /\ [c EXCEPT !.reconnecting = FALSE].stream = c.stream
      /\ [c EXCEPT !.reconnecting = FALSE].queue = c.queue
      /\ [c EXCEPT !.reconnecting = FALSE].buffer = c.buffer
      /\ [c EXCEPT !.reconnecting = FALSE].ready = c.ready
  BY <1>1 DEF ClientState
<1> QED
  BY <1>2, <1>3, <1>4

\* What Released(Ended(client)) is, for the steps that close the client.
LEMMA ClosedFacts ==
  ASSUME NEW c \in ClientState
  PROVE  LET d == Released(Ended(c))
             e == [d EXCEPT !.reconnecting = FALSE]
         IN  /\ d \in ClientState /\ d.stream = 0 /\ d.queue = c.queue
             /\ d.buffer = c.buffer /\ d.ready = c.ready
             /\ e \in ClientState /\ e.stream = 0 /\ e.queue = c.queue
             /\ e.buffer = c.buffer /\ e.ready = c.ready
<1> DEFINE m == Ended(c)
           d == Released(m)
<1>1. m \in ClientState /\ m.queue = c.queue /\ m.buffer = c.buffer /\ m.ready = c.ready
  BY EndedFacts
<1> HIDE DEF m
<1>2. /\ d \in ClientState /\ d.stream = 0 /\ d.queue = m.queue
      /\ d.buffer = m.buffer /\ d.ready = m.ready
  BY <1>1, EndedFacts
<1> HIDE DEF d
<1>3. LET e == [d EXCEPT !.reconnecting = FALSE]
      IN  /\ e \in ClientState /\ e.stream = d.stream /\ e.queue = d.queue
          /\ e.buffer = d.buffer /\ e.ready = d.ready
  BY <1>2, EndedFacts
<1> QED
  BY <1>1, <1>2, <1>3 DEF d, m

-----------------------------------------------------------------------------
(* What each action does, to the types and to what the proofs are about *)

\* In every summary: the types, and where the coroutine and the stream are.
LEMMA InitType == Init => TypeInv
<1> SUFFICES ASSUME Init PROVE TypeInv
  OBVIOUS
<1>1. /\ conns \in Seq(Conn) /\ tasks \in Seq(Task) /\ heard \in Seq(Nat) /\ got \in Seq(Nat)
      /\ Len(conns) = 0
  BY DEF Init
<1>2. client \in ClientState /\ client.stream = 0
  <2>1. <<>> \in Seq(Nat) /\ <<>> \in Seq(Event)
    OBVIOUS
  <2> QED
    BY <2>1 DEF Init, ClientState
<1>3. app \in AppState
  BY DEF Init, AppIdle, AppState
<1>4. ep \in EpState /\ ep.pc = "dial" /\ ep.c = 0
  BY NoEpisodeType, EpisodeAt DEF Init
<1>5. /\ lock \in BOOLEAN /\ io \in {"free", "blocked"} /\ sends \in Nat /\ said \in Nat
      /\ room \in {"connecting", "connected", "reconnecting", "gone"}
  BY DEF Init
<1>6. client.stream \in 0..Len(conns) /\ ep.c \in 0..Len(conns) /\ ep.pc # "wait"
  BY <1>1, <1>2, <1>4
<1> QED
  BY <1>1, <1>2, <1>3, <1>4, <1>5, <1>6 DEF TypeInv

\* Restart without its stream, or about to close it.
LEMMA RestartDoes ==
  ASSUME TypeInv, Restart
  PROVE  /\ TypeInv'
         /\ client'.queue = client.queue /\ client'.buffer = client.buffer
         /\ ~client'.ready
         /\ \/ conns' = conns /\ client'.stream = client.stream /\ ep'.pc = "closing"
            \/ /\ conns' = Aborted(conns, client.stream) /\ client'.stream = 0
               /\ ep'.pc = "dial"
<1>1. TRUE \in BOOLEAN /\ FALSE \in BOOLEAN /\ 0 \in Nat
  OBVIOUS
<1>2. /\ [ep EXCEPT !.pc = "closing"] \in EpState /\ [ep EXCEPT !.pc = "dial"] \in EpState
      /\ [ep EXCEPT !.pc = "closing"].pc = "closing" /\ [ep EXCEPT !.pc = "dial"].pc = "dial"
      /\ [ep EXCEPT !.pc = "closing"].c = ep.c /\ [ep EXCEPT !.pc = "dial"].c = ep.c
  BY EpisodeAt DEF TypeInv
<1>3. CASE Up(client.stream)
  <2>1. /\ client' = [client EXCEPT !.reconnecting = TRUE, !.ready = FALSE, !.watching = FALSE]
        /\ ep' = [ep EXCEPT !.pc = "closing"] /\ lock' = TRUE /\ conns' = conns
    BY <1>3 DEF Restart
  <2>2. /\ client' \in ClientState /\ client'.queue = client.queue
        /\ client'.buffer = client.buffer /\ ~client'.ready /\ client'.stream = client.stream
    BY <1>1, <2>1 DEF TypeInv, ClientState
  <2> QED
    BY <1>2, <2>1, <2>2 DEF Restart, TypeInv
<1>4. CASE ~Up(client.stream)
  <2>1. /\ client' = [client EXCEPT !.reconnecting = TRUE, !.ready = FALSE,
                                    !.watching = FALSE, !.stream = 0]
        /\ ep' = [ep EXCEPT !.pc = "dial"] /\ lock' = lock
        /\ conns' = Aborted(conns, client.stream)
    BY <1>4 DEF Restart
  <2>2. /\ client' \in ClientState /\ client'.queue = client.queue
        /\ client'.buffer = client.buffer /\ ~client'.ready /\ client'.stream = 0
    BY <1>1, <2>1 DEF TypeInv, ClientState
  <2>3. conns' \in Seq(Conn) /\ Len(conns') = Len(conns)
    BY <2>1, AbortedFacts DEF TypeInv
  <2> QED
    BY <1>2, <2>1, <2>2, <2>3 DEF Restart, TypeInv
<1> QED
  BY <1>3, <1>4

LEMMA StreamClosedDoes ==
  ASSUME TypeInv, StreamClosed
  PROVE  /\ TypeInv' /\ SameStores
         /\ conns' = Aborted(conns, client.stream) /\ client'.stream = 0
         /\ ep'.pc = "dial"
<1>1. client' = Released(client)
  BY DEF StreamClosed, Released
<1>2. client' \in ClientState /\ client'.stream = 0 /\ SameStores
  BY <1>1, EndedFacts DEF TypeInv, SameStores
<1>3. ep' \in EpState /\ ep'.pc = "dial" /\ ep'.c = ep.c
  BY EpisodeAt DEF TypeInv, StreamClosed
<1>4. conns' \in Seq(Conn) /\ Len(conns') = Len(conns)
  BY AbortedFacts DEF TypeInv, StreamClosed
<1>5. lock' \in BOOLEAN
  BY DEF StreamClosed
<1>6. client'.stream \in 0..Len(conns') /\ ep'.c \in 0..Len(conns')
  BY <1>2, <1>3, <1>4 DEF TypeInv
<1> QED
  BY <1>2, <1>3, <1>4, <1>5, <1>6 DEF StreamClosed, TypeInv

\* A join or resume that fails, given the sockets that its own left.
LEMMA FailedDoes ==
  ASSUME TypeInv, NEW cs \in Seq(Conn), Len(cs) = Len(conns), Failed(cs),
         UNCHANGED <<lock, io, app, tasks, heard, got, sends, said>>
  PROVE  /\ TypeInv' /\ SameStores
         /\ conns' = Aborted(cs, client.stream) /\ client'.stream = 0
         /\ ep'.pc = "none" /\ room' = "gone"
<1>1. client' \in ClientState /\ client'.stream = 0 /\ SameStores
  BY ClosedFacts DEF TypeInv, SameStores, Failed
<1>2. ep' \in EpState /\ ep'.pc = "none" /\ ep'.c = 0
  BY NoEpisodeType DEF Failed
<1>3. conns' \in Seq(Conn) /\ Len(conns') = Len(conns)
  BY AbortedFacts DEF TypeInv, Failed
<1> QED
  BY <1>1, <1>2, <1>3 DEF Failed, TypeInv

LEMMA CloseOnIoDoes ==
  ASSUME TypeInv, CloseOnIo, ep' \in {ep, NoEpisode},
         UNCHANGED <<lock, io, app, tasks, room, heard, got, sends, said>>
  PROVE  /\ TypeInv' /\ SameStores
         /\ conns' = Aborted(conns, client.stream) /\ client'.stream = 0
<1>1. client' \in ClientState /\ client'.stream = 0 /\ SameStores
  BY ClosedFacts DEF TypeInv, SameStores, CloseOnIo
<1>2. conns' \in Seq(Conn) /\ Len(conns') = Len(conns)
  BY AbortedFacts DEF TypeInv, CloseOnIo
<1>3. ep' \in EpState /\ (ep' = ep \/ (ep'.pc = "none" /\ ep'.c = 0))
  BY NoEpisodeType DEF TypeInv
<1> QED
  BY <1>1, <1>2, <1>3 DEF CloseOnIo, TypeInv

\* A new socket, the last of the list, is waited for.
LEMMA DialDoes ==
  ASSUME TypeInv, Dial
  PROVE  /\ TypeInv' /\ Len(conns') = Len(conns) + 1
         /\ \A c \in 1..Len(conns) : conns'[c] = conns[c]
         /\ ep'.pc = "wait" /\ ep'.c = Len(conns) + 1
         /\ conns'[Len(conns) + 1].inbound = <<>>
<1> DEFINE k == [up |-> TRUE, cb |-> "wait", srv |-> "open",
                 answered |-> FALSE, inbound |-> <<>>]
<1>1. k \in Conn /\ k.inbound = <<>>
  <2>1. <<>> \in Seq(Frame)
    OBVIOUS
  <2> QED
    BY <2>1 DEF Conn
<1>2. conns' = Append(conns, k)
  BY DEF Dial
<1> HIDE DEF k
<1>3. /\ conns' \in Seq(Conn) /\ Len(conns') = Len(conns) + 1
      /\ \A c \in 1..Len(conns) : conns'[c] = conns[c]
      /\ conns'[Len(conns) + 1] = k
  BY <1>1, <1>2 DEF TypeInv
<1>4. Len(conns) + 1 \in Nat
  BY DEF TypeInv
<1>5. ep' \in EpState /\ ep'.pc = "wait" /\ ep'.c = Len(conns) + 1
  <2>1. PICK n \in Nat : n = Len(conns) + 1
    BY <1>4
  <2>2. ep' = [NoEpisode EXCEPT !.pc = "wait", !.c = n]
    BY <2>1 DEF Dial
  <2>3. ep' \in EpState /\ ep'.pc = "wait" /\ ep'.c = n
    BY <2>2, NoEpisodeType DEF EpState
  <2> QED
    BY <2>1, <2>3
<1>6. client'.stream \in 0..Len(conns') /\ ep'.c \in 0..Len(conns') /\ ep'.c # 0
  BY <1>3, <1>4, <1>5 DEF Dial, TypeInv
<1> QED
  BY <1>1, <1>3, <1>5, <1>6 DEF Dial, TypeInv

\* The stream waited for is given up, and the join dials again.
LEMMA DialsAgain ==
  ASSUME TypeInv, conns' = Aborted(conns, ep.c), ep' = [NoEpisode EXCEPT !.pc = "dial"],
         UNCHANGED <<client, lock, io, app, tasks, room, heard, got, sends, said>>
  PROVE  TypeInv' /\ ep'.pc = "dial"
<1>1. ep' \in EpState /\ ep'.pc = "dial" /\ ep'.c = 0
  BY NoEpisodeType, EpisodeAt
<1>2. conns' \in Seq(Conn) /\ Len(conns') = Len(conns)
  BY AbortedFacts DEF TypeInv
<1> QED
  BY <1>1, <1>2 DEF TypeInv

\* The stream waited for becomes the client's.
LEMMA ResponseTakenDoes ==
  ASSUME TypeInv, ResponseTaken
  PROVE  /\ TypeInv' /\ SameStores
         /\ client'.stream = ep.c /\ ep'.pc = "installed"
         /\ ep.c \in 1..Len(conns) /\ Len(conns') = Len(conns)
         /\ \A c \in 1..Len(conns) : /\ conns'[c].up = conns[c].up
                                     /\ conns'[c].inbound = conns[c].inbound
                                     /\ c # ep.c => conns'[c] = conns[c]
         /\ conns'[ep.c].cb = "client"
<1>1. ep.c \in 1..Len(conns)
  BY DEF ResponseTaken, TypeInv
<1>2. conns[ep.c] \in Conn
  BY <1>1 DEF TypeInv
<1> DEFINE k == [conns[ep.c] EXCEPT !.cb = "client"]
<1>3. /\ k \in Conn /\ k.cb = "client" /\ k.up = conns[ep.c].up
      /\ k.inbound = conns[ep.c].inbound
  BY <1>2 DEF Conn
<1>4. conns' = [conns EXCEPT ![ep.c] = k]
  BY <1>1 DEF ResponseTaken, TypeInv
<1> HIDE DEF k
<1>5. /\ conns' \in Seq(Conn) /\ Len(conns') = Len(conns)
      /\ \A d \in 1..Len(conns) : conns'[d] = IF d = ep.c THEN k ELSE conns[d]
  BY <1>1, <1>3, <1>4, ConnReplaced DEF TypeInv
<1>6. client' \in ClientState /\ client'.stream = ep.c /\ SameStores
  <2> DEFINE d == NewStream(client, ep.c)
  <2>1. /\ d \in ClientState /\ d.stream = ep.c /\ d.queue = client.queue
        /\ d.buffer = client.buffer /\ d.ready = client.ready
    <3>1. FALSE \in BOOLEAN /\ ep.c \in Nat
      BY <1>1 DEF TypeInv
    <3> QED
      BY <3>1 DEF TypeInv, ClientState, NewStream
  <2>2. client' = [d EXCEPT !.watching = ~d.closed]
    BY DEF ResponseTaken, Installed, Watched
  <2> HIDE DEF d
  <2>3. (~d.closed) \in BOOLEAN
    OBVIOUS
  <2>4. PICK w \in BOOLEAN : w = ~d.closed
    BY <2>3
  <2>5. client' = [d EXCEPT !.watching = w]
    BY <2>2, <2>4
  <2> QED
    BY <2>1, <2>5 DEF ClientState, SameStores
<1>7. ep' \in EpState /\ ep'.pc = "installed" /\ ep'.c = 0
  BY NoEpisodeType, EpisodeAt DEF ResponseTaken
<1> QED
  BY <1>1, <1>3, <1>5, <1>6, <1>7 DEF ResponseTaken, TypeInv

\* The parts of the client that a step on the queue leaves alone.
SameStream ==
  /\ client'.stream = client.stream /\ client'.buffer = client.buffer
  /\ client'.ready = client.ready

\* FlushQueue, seen from the requests: q2 and t2 are the queue and the
\* coroutines after it, given those before it.
FlushMove(q, t, q2, t2) ==
  \/ q2 = q /\ t2 = t
  \/ /\ q2 = <<>>
     /\ \E k \in Nat : t2 = t \o [i \in 1..Len(q) |-> [r |-> q[i], c |-> k]]

LEMMA FlushMoves ==
  ASSUME NEW c \in ClientState, NEW t \in Seq(Task)
  PROVE  /\ Flushed(c) \in ClientState /\ Flushed(c).stream = c.stream
         /\ Flushed(c).buffer = c.buffer /\ Flushed(c).ready = c.ready
         /\ Flushed(c).closed = c.closed
         /\ t \o Spawned(c) \in Seq(Task) /\ Spawned(c) \in Seq(Task)
         /\ FlushMove(c.queue, t, Flushed(c).queue, t \o Spawned(c))
<1>1. Flushed(c) \in ClientState /\ Spawned(c) \in Seq(Task)
  BY FlushFacts
<1>2. /\ Flushed(c).stream = c.stream /\ Flushed(c).buffer = c.buffer
      /\ Flushed(c).ready = c.ready /\ Flushed(c).closed = c.closed
  BY FlushFacts
<1>3. FlushMove(c.queue, t, Flushed(c).queue, t \o Spawned(c))
  <2>1. CASE Flushed(c).queue = c.queue /\ Spawned(c) = <<>>
    BY <2>1 DEF FlushMove
  <2>2. CASE /\ Flushed(c).queue = <<>>
             /\ Spawned(c) = [i \in 1..Len(c.queue) |-> [r |-> c.queue[i], c |-> c.stream]]
    <3>1. c.stream \in Nat
      BY DEF ClientState
    <3> QED
      BY <2>2, <3>1 DEF FlushMove
  <2> QED
    BY <2>1, <2>2, FlushFacts
<1> QED
  BY <1>1, <1>2, <1>3

\* The end of Send, for a client and coroutines that a flush may have changed:
\* the request goes to a coroutine, to the queue, or nowhere.
LEMMA HandedDoes ==
  ASSUME TypeInv, NEW r \in Nat, NEW pass \in BOOLEAN, NEW c \in ClientState,
         NEW more \in Seq(Task), c.stream = client.stream, Handed(r, pass, c, more)
  PROVE  /\ client' \in ClientState /\ tasks' \in Seq(Task)
         /\ client'.stream = c.stream /\ client'.buffer = c.buffer
         /\ client'.ready = c.ready
         /\ \/ /\ client'.queue = c.queue
               /\ \E k \in Nat : tasks' = Append(tasks \o more, [r |-> r, c |-> k])
            \/ tasks' = tasks \o more /\ client'.queue = Append(c.queue, r)
            \/ tasks' = tasks \o more /\ client'.queue = c.queue
<1> DEFINE t == tasks \o more
<1>1. t \in Seq(Task)
  BY DEF TypeInv
<1>2. c.stream \in Nat /\ c.queue \in Seq(Nat)
  BY DEF ClientState
<1>3. CASE Up(c.stream)
  <2>1. tasks' = t \o <<[r |-> r, c |-> c.stream]>> /\ client' = c
    BY <1>3 DEF Handed
  <2>2. [r |-> r, c |-> c.stream] \in Task
    BY <1>2 DEF Task
  <2>3. tasks' = Append(t, [r |-> r, c |-> c.stream]) /\ tasks' \in Seq(Task)
    BY <1>1, <2>1, <2>2
  <2> QED
    BY <1>2, <2>1, <2>3
<1>4. CASE ~Up(c.stream)
  <2>1. tasks' = t \o <<>> /\ client' = IF pass THEN c ELSE [c EXCEPT !.queue = Append(@, r)]
    BY <1>4 DEF Handed
  <2>2. tasks' = t
    BY <1>1, <2>1
  <2>6. Append(c.queue, r) \in Seq(Nat)
    BY <1>2
  <2>3. PICK q \in Seq(Nat) : q = Append(c.queue, r)
    BY <2>6
  <2>4. [c EXCEPT !.queue = Append(@, r)] = [c EXCEPT !.queue = q]
    BY <2>3
  <2>5. LET d == [c EXCEPT !.queue = q]
        IN  /\ d \in ClientState /\ d.stream = c.stream /\ d.buffer = c.buffer
            /\ d.ready = c.ready /\ d.queue = q
    BY DEF ClientState
  <2> QED
    BY <1>1, <2>1, <2>2, <2>3, <2>4, <2>5
<1> QED
  BY <1>3, <1>4

\* The request goes to a coroutine, to the queue, or nowhere, after a flush.
SendMove(r, q, t, q2, t2) ==
  \E q1 \in Seq(Nat), t1 \in Seq(Task) :
    /\ FlushMove(q, t, q1, t1)
    /\ \/ q2 = q1 /\ \E k \in Nat : t2 = Append(t1, [r |-> r, c |-> k])
       \/ q2 = Append(q1, r) /\ t2 = t1
       \/ q2 = q1 /\ t2 = t1

LEMMA SendOnIoDoes ==
  ASSUME TypeInv, NEW pass \in BOOLEAN, SendOnIo(pass)
  PROVE  /\ TypeInv' /\ SameStream /\ sends' = sends + 1
         /\ SendMove(sends + 1, client.queue, tasks, client'.queue, tasks')
<1>1. PICK r \in Nat : r = sends + 1
  BY DEF TypeInv
<1> DEFINE Done == /\ client' \in ClientState /\ tasks' \in Seq(Task) /\ SameStream
                   /\ SendMove(r, client.queue, tasks, client'.queue, tasks')
<1>2. /\ client \in ClientState /\ tasks \in Seq(Task) /\ client.queue \in Seq(Nat)
      /\ <<>> \in Seq(Task) /\ tasks \o <<>> = tasks
  BY DEF TypeInv, ClientState
<1>3. FlushMove(client.queue, tasks, client.queue, tasks)
  BY DEF FlushMove
<1>4. ASSUME UNCHANGED <<client, tasks>> PROVE Done
  BY <1>2, <1>3, <1>4 DEF SendMove, SameStream
<1>5. ASSUME client' = [client EXCEPT !.queue = Append(@, r)] /\ tasks' = tasks PROVE Done
  <2>0. Append(client.queue, r) \in Seq(Nat)
    BY <1>2
  <2>1. PICK q \in Seq(Nat) : q = Append(client.queue, r)
    BY <2>0
  <2>2. client' = [client EXCEPT !.queue = q]
    BY <1>5, <2>1
  <2>3. client' \in ClientState /\ SameStream /\ client'.queue = q
    BY <1>2, <2>2 DEF ClientState, SameStream
  <2> QED
    BY <1>2, <1>3, <1>5, <2>1, <2>3 DEF SendMove
<1>6. ASSUME Handed(r, pass, client, <<>>) PROVE Done
  <2>1. /\ client' \in ClientState /\ tasks' \in Seq(Task)
        /\ client'.stream = client.stream /\ client'.buffer = client.buffer
        /\ client'.ready = client.ready
        /\ \/ /\ client'.queue = client.queue
              /\ \E k \in Nat : tasks' = Append(tasks \o <<>>, [r |-> r, c |-> k])
           \/ tasks' = tasks \o <<>> /\ client'.queue = Append(client.queue, r)
           \/ tasks' = tasks \o <<>> /\ client'.queue = client.queue
    BY <1>2, <1>6, HandedDoes
  <2> QED
    BY <1>2, <1>3, <2>1 DEF SendMove, SameStream
<1>7. ASSUME Handed(r, pass, First(client).client, First(client).spawned) PROVE Done
  <2> DEFINE c == Flushed(client)
             more == Spawned(client)
  <2>1. First(client).client = c /\ First(client).spawned = more
    BY DEF First
  <2>2. /\ c \in ClientState /\ c.stream = client.stream
        /\ c.buffer = client.buffer /\ c.ready = client.ready
        /\ tasks \o more \in Seq(Task) /\ more \in Seq(Task)
        /\ FlushMove(client.queue, tasks, c.queue, tasks \o more)
    BY <1>2, FlushMoves
  <2> HIDE DEF c, more
  <2>3. /\ client' \in ClientState /\ tasks' \in Seq(Task)
        /\ client'.stream = c.stream /\ client'.buffer = c.buffer
        /\ client'.ready = c.ready
        /\ \/ /\ client'.queue = c.queue
              /\ \E k \in Nat : tasks' = Append(tasks \o more, [r |-> r, c |-> k])
           \/ tasks' = tasks \o more /\ client'.queue = Append(c.queue, r)
           \/ tasks' = tasks \o more /\ client'.queue = c.queue
    BY <1>7, <2>1, <2>2, HandedDoes
  <2>4. c.queue \in Seq(Nat)
    BY <2>2 DEF ClientState
  <2> QED
    BY <2>2, <2>3, <2>4 DEF SendMove, SameStream
<1>8. Done
  BY <1>1, <1>4, <1>5, <1>6, <1>7 DEF SendOnIo
<1> HIDE DEF Done
<1>9. TypeInv'
  <2>1. /\ client' \in ClientState /\ tasks' \in Seq(Task) /\ SameStream
    BY <1>8 DEF Done
  <2>2. sends' \in Nat /\ io' \in {"free", "blocked"}
    BY <1>1 DEF SendOnIo, TypeInv
  <2> QED
    BY <2>1, <2>2 DEF SendOnIo, TypeInv, SameStream
<1> QED
  BY <1>1, <1>8, <1>9 DEF SendOnIo, Done

\* SetReconnected and SetEventReady.
LEMMA ReadyDoes ==
  ASSUME TypeInv, Ready
  PROVE  /\ TypeInv' /\ client'.stream = client.stream
         /\ client'.buffer = <<>> /\ ep'.pc = "media" /\ ep.pc = "installed"
         /\ room' # "connected"
         /\ FlushMove(client.queue, tasks, client'.queue, tasks')
         /\ heard' = heard \o [i \in 1..Len(client.buffer) |-> client.buffer[i][2]]
<1> DEFINE back == [client EXCEPT !.reconnecting = FALSE]
           f == Flushed(back)
<1>1. /\ back \in ClientState /\ back.stream = client.stream
      /\ back.queue = client.queue /\ back.buffer = client.buffer
  BY EndedFacts DEF TypeInv
<1>2. tasks' = tasks \o Spawned(back)
  BY DEF Ready
<1>3. client' = [f EXCEPT !.ready = TRUE, !.buffer = <<>>]
  BY DEF Ready
<1> HIDE DEF back
<1>4. /\ f \in ClientState /\ f.stream = client.stream
      /\ tasks' \in Seq(Task)
      /\ FlushMove(client.queue, tasks, f.queue, tasks')
  BY <1>1, <1>2, FlushMoves DEF TypeInv
<1> HIDE DEF f
<1>5. <<>> \in Seq(Event) /\ TRUE \in BOOLEAN
  OBVIOUS
<1>6. /\ client' \in ClientState /\ client'.stream = client.stream
      /\ client'.buffer = <<>> /\ client'.queue = f.queue
  BY <1>3, <1>4, <1>5 DEF ClientState
<1>7. ep' \in EpState /\ ep'.pc = "media" /\ ep'.c = ep.c
  BY EpisodeAt DEF Ready, TypeInv
<1>8. heard' \in Seq(Nat)
  <2>1. client.buffer \in Seq(Event) /\ heard \in Seq(Nat)
    BY DEF TypeInv, ClientState
  <2>2. \A i \in 1..Len(client.buffer) : client.buffer[i][2] \in Nat
    BY <2>1 DEF Event
  <2>3. [i \in 1..Len(client.buffer) |-> client.buffer[i][2]] \in Seq(Nat)
    BY <2>1, <2>2
  <2> QED
    BY <2>1, <2>3 DEF Ready
<1>9. room' # "connected" /\ room' \in {"connecting", "connected", "reconnecting", "gone"}
  BY DEF Ready
<1> QED
  BY <1>4, <1>6, <1>7, <1>8, <1>9 DEF Ready, TypeInv

LEMMA CommitDoes ==
  ASSUME TypeInv, Commit
  PROVE  TypeInv' /\ ep'.pc = "none" /\ ep.pc = "media"
<1>1. ep' \in EpState /\ ep'.pc = "none" /\ ep'.c = 0
  BY NoEpisodeType DEF Commit
<1> QED
  BY <1>1 DEF Commit, TypeInv

\* The application's thread at another of its points.
LEMMA AppAt ==
  ASSUME NEW a \in AppState,
         NEW pc \in {"idle", "queue", "flush", "flushing", "take", "close"}
  PROVE  /\ [a EXCEPT !.pc = pc] \in AppState
         /\ [a EXCEPT !.pc = pc].pc = pc /\ [a EXCEPT !.pc = pc].r = a.r
         /\ AppIdle \in AppState /\ AppIdle.pc = "idle"
BY DEF AppState, AppIdle

LEMMA AppSendsDoes ==
  ASSUME TypeInv, NEW pass \in BOOLEAN, AppSends(pass)
  PROVE  TypeInv' /\ sends' = sends + 1 /\ app'.r = sends + 1
<1>1. PICK r \in Nat : r = sends + 1
  BY DEF TypeInv
<1>2. PICK pc \in {"queue", "flush", "take"} : app' = [pc |-> pc, r |-> r, pass |-> pass]
  BY <1>1 DEF AppSends
<1>3. app' \in AppState /\ app'.r = r
  BY <1>2 DEF AppState
<1> QED
  BY <1>1, <1>3 DEF AppSends, TypeInv

LEMMA AppQueuesDoes ==
  ASSUME TypeInv, AppQueues
  PROVE  /\ TypeInv' /\ SameStream /\ app'.pc = "idle"
         /\ client'.queue = Append(client.queue, app.r)
<1>1. Append(client.queue, app.r) \in Seq(Nat)
  BY DEF TypeInv, ClientState, AppState
<1>2. PICK q \in Seq(Nat) : q = Append(client.queue, app.r)
  BY <1>1
<1>3. client' = [client EXCEPT !.queue = q]
  BY <1>2 DEF AppQueues
<1>4. client' \in ClientState /\ SameStream /\ client'.queue = q
  BY <1>3 DEF TypeInv, ClientState, SameStream
<1>5. app' \in AppState /\ app'.pc = "idle"
  BY AppAt DEF AppQueues, TypeInv
<1> QED
  BY <1>2, <1>4, <1>5 DEF AppQueues, TypeInv, SameStream

LEMMA AppEntersFlushDoes ==
  ASSUME TypeInv, AppEntersFlush
  PROVE  TypeInv' /\ app'.r = app.r /\ app.pc = "flush"
<1>1. PICK pc \in {"take", "flushing"} : app' = [app EXCEPT !.pc = pc]
  BY DEF AppEntersFlush
<1>2. app' \in AppState /\ app'.r = app.r
  BY <1>1 DEF TypeInv, AppState
<1> QED
  BY <1>2 DEF AppEntersFlush, TypeInv

LEMMA AppFlushesDoes ==
  ASSUME TypeInv, AppFlushes
  PROVE  /\ TypeInv' /\ SameStream /\ app'.r = app.r /\ app.pc = "flushing"
         /\ FlushMove(client.queue, tasks, client'.queue, tasks')
<1>1. client' = Flushed(client) /\ tasks' = tasks \o Spawned(client)
  BY DEF AppFlushes, First
<1>2. /\ client' \in ClientState /\ SameStream /\ tasks' \in Seq(Task)
      /\ FlushMove(client.queue, tasks, client'.queue, tasks')
  BY <1>1, FlushMoves DEF TypeInv, SameStream
<1>3. app' \in AppState /\ app'.r = app.r /\ app.pc = "flushing"
  BY AppAt DEF AppFlushes, TypeInv
<1> QED
  BY <1>2, <1>3 DEF AppFlushes, TypeInv, SameStream

LEMMA AppHandsDoes ==
  ASSUME TypeInv, AppHands
  PROVE  /\ TypeInv' /\ SameStream /\ app'.pc = "idle" /\ app.pc = "take"
         /\ SendMove(app.r, client.queue, tasks, client'.queue, tasks')
<1>1. /\ client \in ClientState /\ tasks \in Seq(Task) /\ client.queue \in Seq(Nat)
      /\ <<>> \in Seq(Task) /\ tasks \o <<>> = tasks
      /\ app.r \in Nat /\ app.pass \in BOOLEAN
  BY DEF TypeInv, ClientState, AppState
<1>2. Handed(app.r, app.pass, client, <<>>)
  BY DEF AppHands
<1>3. /\ client' \in ClientState /\ tasks' \in Seq(Task) /\ SameStream
      /\ \/ /\ client'.queue = client.queue
            /\ \E k \in Nat : tasks' = Append(tasks \o <<>>, [r |-> app.r, c |-> k])
         \/ tasks' = tasks \o <<>> /\ client'.queue = Append(client.queue, app.r)
         \/ tasks' = tasks \o <<>> /\ client'.queue = client.queue
  BY <1>1, <1>2, HandedDoes DEF SameStream
<1>4. SendMove(app.r, client.queue, tasks, client'.queue, tasks')
  BY <1>1, <1>3 DEF SendMove, FlushMove
<1>5. app' \in AppState /\ app'.pc = "idle"
  BY AppAt DEF AppHands, TypeInv
<1> QED
  BY <1>3, <1>4, <1>5 DEF AppHands, TypeInv, SameStream

\* Close up to the mutex of the stream, by the application.
LEMMA AppClosesDoes ==
  ASSUME TypeInv, AppCloses
  PROVE  /\ TypeInv' /\ SameStores /\ client'.stream = client.stream
         /\ room' = "gone" /\ app'.pc \in {"idle", "close"}
<1>1. CASE Given
  <2>1. /\ client' \in ClientState /\ client'.stream = client.stream /\ SameStores
    BY <1>1, EndedFacts DEF AppCloses, SameStores, TypeInv
  <2>2. app' \in AppState /\ app'.pc = "close"
    <3>1. app' = [AppIdle EXCEPT !.pc = "close"]
      BY <1>1 DEF AppCloses
    <3> QED
      BY <3>1 DEF AppIdle, AppState
  <2> QED
    BY <2>1, <2>2 DEF AppCloses, TypeInv
<1>2. CASE ~Given
  BY <1>2 DEF AppCloses, TypeInv, SameStores
<1> QED
  BY <1>1, <1>2

LEMMA AppReleasesDoes ==
  ASSUME TypeInv, AppReleases
  PROVE  /\ TypeInv' /\ SameStores /\ app'.pc = "idle"
         /\ conns' = Aborted(conns, client.stream) /\ client'.stream = 0
<1>1. client' \in ClientState /\ client'.stream = 0 /\ SameStores
  BY EndedFacts DEF TypeInv, SameStores, AppReleases
<1>2. conns' \in Seq(Conn) /\ Len(conns') = Len(conns)
  BY AbortedFacts DEF TypeInv, AppReleases
<1>3. app' \in AppState /\ app'.pc = "idle"
  BY AppAt DEF AppReleases, TypeInv
<1> QED
  BY <1>1, <1>2, <1>3 DEF AppReleases, TypeInv

LEMMA RunTaskDoes ==
  ASSUME TypeInv, RunTask
  PROVE  /\ TypeInv' /\ tasks # <<>> /\ tasks' = Tail(tasks)
         /\ got' = got \/ got' = Append(got, tasks[1].r)
<1>1. tasks \in Seq(Task) /\ tasks # <<>> /\ got \in Seq(Nat)
  BY DEF RunTask, TypeInv
<1>2. Head(tasks) = tasks[1] /\ tasks[1] \in Task /\ Tail(tasks) \in Seq(Task)
  BY <1>1
<1>3. got' = got \/ got' = Append(got, tasks[1].r)
  BY <1>2 DEF RunTask
<1>4. got' \in Seq(Nat)
  <2>1. tasks[1].r \in Nat
    BY <1>2 DEF Task
  <2>2. PICK r \in Nat : r = tasks[1].r
    BY <2>1
  <2>3. Append(got, r) \in Seq(Nat)
    BY <1>1
  <2> QED
    BY <1>1, <1>3, <2>2, <2>3
<1> QED
  BY <1>1, <1>2, <1>3, <1>4 DEF RunTask, TypeInv

LEMMA HeartbeatDoes ==
  ASSUME TypeInv, Heartbeat
  PROVE  /\ TypeInv' /\ SameStream
         /\ FlushMove(client.queue, tasks, client'.queue, tasks')
         /\ ep' = ep \/ (ep'.pc = "start" /\ ep'.c = 0 /\ room = "connected")
         /\ room' = "connected" => room = "connected" /\ ep' = ep
<1> DEFINE f == IF client.reconnecting THEN [client |-> client, spawned |-> <<>>]
                ELSE First(client)
           g == f.client
<1>1. /\ g \in ClientState /\ g.stream = client.stream /\ g.buffer = client.buffer
      /\ g.ready = client.ready
      /\ tasks \o f.spawned \in Seq(Task)
      /\ FlushMove(client.queue, tasks, g.queue, tasks \o f.spawned)
  <2>1. CASE client.reconnecting
    <3>1. g = client /\ f.spawned = <<>> /\ tasks \o <<>> = tasks
      BY <2>1 DEF TypeInv
    <3> QED
      BY <3>1 DEF TypeInv, FlushMove
  <2>2. CASE ~client.reconnecting
    <3>1. g = Flushed(client) /\ f.spawned = Spawned(client)
      BY <2>2 DEF First
    <3> HIDE DEF f, g
    <3> QED
      BY <3>1, FlushMoves DEF TypeInv
  <2> QED
    BY <2>1, <2>2
<1>2. tasks' = tasks \o f.spawned
  BY DEF Heartbeat
<1>3. (HandleClose /\ g = client) \/ (client' = g /\ UNCHANGED <<room, ep>>)
  BY DEF Heartbeat
<1> HIDE DEF f, g
<1>4. /\ client' \in ClientState /\ SameStream /\ client'.queue = g.queue
      /\ room' \in {"connecting", "connected", "reconnecting", "gone"}
      /\ ep' \in EpState
      /\ ep' = ep \/ (ep'.pc = "start" /\ ep'.c = 0 /\ room = "connected")
      /\ room' = "connected" => room = "connected" /\ ep' = ep
  <2>1. CASE HandleClose /\ g = client
    BY <2>1, HandleCloseType DEF SameStores, SameStream
  <2>2. CASE client' = g /\ UNCHANGED <<room, ep>>
    BY <1>1, <2>2 DEF TypeInv, SameStream
  <2> QED
    BY <1>3, <2>1, <2>2
<1>5. client'.stream \in 0..Len(conns) /\ ep'.c \in 0..Len(conns)
      /\ (ep'.pc = "wait" => ep'.c # 0)
  BY <1>4 DEF TypeInv, SameStream
<1>6. tasks' \in Seq(Task)
  BY <1>1, <1>2
<1>7. UNCHANGED <<conns, lock, io, app, heard, got, sends, said>>
  BY DEF Heartbeat
<1>8. TypeInv'
  BY <1>4, <1>5, <1>6, <1>7 DEF TypeInv
<1> QED
  BY <1>1, <1>2, <1>4, <1>8

\* A step of socket c alone, of which in is what is still to be read after it:
\* no socket comes up.
SocketStep(c, in) ==
  /\ conns' \in Seq(Conn) /\ Len(conns') = Len(conns)
  /\ \A d \in 1..Len(conns) : d # c => conns'[d] = conns[d]
  /\ conns'[c].cb = conns[c].cb /\ conns'[c].inbound = in
  /\ conns'[c].up => conns[c].up

\* A server, a network or a read loop that changes one socket.
LEMMA SocketFacts ==
  ASSUME TypeInv, NEW c \in 1..Len(conns), NEW k \in Conn, conns' = [conns EXCEPT ![c] = k],
         k.cb = conns[c].cb, k.up => conns[c].up
  PROVE  SocketStep(c, k.inbound)
BY ConnReplaced DEF SocketStep, TypeInv

\* Nothing but the sockets changes.
LEMMA SocketsOnlyType ==
  ASSUME TypeInv, conns' \in Seq(Conn), Len(conns') = Len(conns),
         UNCHANGED <<client, lock, io, app, tasks, ep, room, heard, got, sends>>,
         said' \in Nat
  PROVE  TypeInv'
BY DEF TypeInv

LEMMA ServerDoes ==
  ASSUME TypeInv, NEW c \in 1..Len(conns), NEW frames \in Seq(Frame),
         NEW srv \in {"open", "closed"}, Server(c, frames, srv), said' \in Nat
  PROVE  TypeInv' /\ SocketStep(c, conns[c].inbound \o frames)
<1> DEFINE k == [conns[c] EXCEPT !.inbound = conns[c].inbound \o frames, !.srv = srv]
<1>1. conns[c] \in Conn
  BY DEF TypeInv
<1>2. conns' = [conns EXCEPT ![c] = k]
  BY <1>1 DEF Server, TypeInv, Conn
<1>3. PICK in \in Seq(Frame) : in = conns[c].inbound \o frames
  <2>1. conns[c].inbound \o frames \in Seq(Frame)
    BY <1>1 DEF Conn
  <2> QED
    BY <2>1
<1>4. k \in Conn /\ k.cb = conns[c].cb /\ k.up = conns[c].up /\ k.inbound = in
  BY <1>1, <1>3 DEF Conn
<1> HIDE DEF k
<1>5. SocketStep(c, in)
  BY <1>2, <1>4, SocketFacts
<1>6. TypeInv'
  BY <1>5, SocketsOnlyType DEF SocketStep, Server
<1> QED
  BY <1>3, <1>5, <1>6

\* One message more is said on a socket that is up, and a Leave is its last.
LEMMA ServerSaysDoes ==
  ASSUME TypeInv, NEW c \in 1..Len(conns), ServerSays(c)
  PROVE  /\ TypeInv' /\ said' = said + 1 /\ conns[c].up
         /\ \E kind \in {"update", "leave"}, rest \in {<<>>, <<<<"close", 0>>>>} :
              SocketStep(c, conns[c].inbound \o (<<<<kind, said + 1>>>> \o rest))
<1>1. PICK n \in Nat : n = said + 1
  BY DEF TypeInv
<1>2. said' = n /\ said' \in Nat
  BY <1>1 DEF ServerSays
<1>3. CASE Server(c, <<<<"update", said + 1>>>>, "open")
  <2>1. <<<<"update", n>>>> \in Seq(Frame)
    BY DEF Frame
  <2>2. TypeInv' /\ SocketStep(c, conns[c].inbound \o <<<<"update", n>>>>)
    BY <1>1, <1>2, <1>3, <2>1, ServerDoes
  <2>3. <<<<"update", n>>>> = <<<<"update", n>>>> \o <<>>
    OBVIOUS
  <2> QED
    BY <1>1, <1>2, <1>3, <2>2, <2>3 DEF Server
<1>4. CASE Server(c, <<<<"leave", said + 1>>, <<"close", 0>>>>, "closed")
  <2>1. <<<<"leave", n>>, <<"close", 0>>>> \in Seq(Frame)
    BY DEF Frame
  <2>2. TypeInv' /\ SocketStep(c, conns[c].inbound \o <<<<"leave", n>>, <<"close", 0>>>>)
    BY <1>1, <1>2, <1>4, <2>1, ServerDoes
  <2>3. <<<<"leave", n>>, <<"close", 0>>>> = <<<<"leave", n>>>> \o <<<<"close", 0>>>>
    OBVIOUS
  <2> QED
    BY <1>1, <1>2, <1>4, <2>2, <2>3 DEF Server
<1> QED
  BY <1>3, <1>4 DEF ServerSays

\* A frame that is no event comes in.
LEMMA ServerEndsDoes ==
  ASSUME TypeInv, NEW c \in 1..Len(conns), ServerCloses(c) \/ ServerAnswers(c)
  PROVE  /\ TypeInv' /\ UNCHANGED said
         /\ \E kind \in {"response", "close"} :
              SocketStep(c, conns[c].inbound \o <<<<kind, 0>>>>)
<1>1. CASE ServerCloses(c)
  <2>1. <<<<"close", 0>>>> \in Seq(Frame) /\ said' = said /\ said' \in Nat
    BY <1>1 DEF Frame, ServerCloses, TypeInv
  <2> QED
    BY <1>1, <2>1, ServerDoes DEF ServerCloses
<1>2. CASE ServerAnswers(c)
  <2> DEFINE k == [conns[c] EXCEPT !.inbound = Append(conns[c].inbound, <<"response", 0>>),
                                   !.answered = TRUE]
  <2>1. conns[c] \in Conn
    BY DEF TypeInv
  <2>2. conns' = [conns EXCEPT ![c] = k]
    BY <1>2, <2>1 DEF ServerAnswers, TypeInv, Conn
  <2>3. PICK in \in Seq(Frame) : in = conns[c].inbound \o <<<<"response", 0>>>>
    <3>1. conns[c].inbound \o <<<<"response", 0>>>> \in Seq(Frame)
      BY <2>1 DEF Conn, Frame
    <3> QED
      BY <3>1
  <2>4. in = Append(conns[c].inbound, <<"response", 0>>) /\ TRUE \in BOOLEAN
    BY <2>1, <2>3 DEF Conn
  <2>5. k \in Conn /\ k.cb = conns[c].cb /\ k.up = conns[c].up /\ k.inbound = in
    BY <2>1, <2>4 DEF Conn
  <2> HIDE DEF k
  <2>6. SocketStep(c, in)
    BY <2>2, <2>5, SocketFacts
  <2>7. TypeInv' /\ UNCHANGED said
    <3>1. said' \in Nat /\ said' = said
      BY <1>2 DEF ServerAnswers, TypeInv
    <3> QED
      BY <1>2, <2>6, <3>1, SocketsOnlyType DEF SocketStep, ServerAnswers
  <2> QED
    BY <2>3, <2>6, <2>7
<1> QED
  BY <1>1, <1>2

LEMMA DiesDoes ==
  ASSUME TypeInv, NEW c \in 1..Len(conns), Dies(c)
  PROVE  TypeInv' /\ SocketStep(c, <<>>)
<1> DEFINE k == [conns[c] EXCEPT !.srv = "dead", !.inbound = <<>>]
<1>1. conns[c] \in Conn /\ <<>> \in Seq(Frame)
  BY DEF TypeInv
<1>2. conns' = [conns EXCEPT ![c] = k]
  BY <1>1 DEF Dies, TypeInv, Conn
<1>3. k \in Conn /\ k.cb = conns[c].cb /\ k.up = conns[c].up /\ k.inbound = <<>>
  BY <1>1 DEF Conn
<1> HIDE DEF k
<1>4. SocketStep(c, <<>>)
  BY <1>2, <1>3, SocketFacts
<1>5. TypeInv'
  <2>1. said' \in Nat
    BY DEF Dies, TypeInv
  <2> QED
    BY <1>4, <2>1, SocketsOnlyType DEF SocketStep, Dies
<1> QED
  BY <1>4, <1>5

\* What a handler of a lost stream does to all but the sockets.
CloseEffect ==
  /\ SameStores /\ client'.stream = client.stream /\ heard' = heard
  /\ ep' = ep \/ (ep'.pc = "start" /\ ep'.c = 0 /\ room = "connected")
  /\ room' = "connected" => room = "connected" /\ ep' = ep

LEMMA ReadErrorDoes ==
  ASSUME TypeInv, NEW c \in 1..Len(conns), ReadError(c)
  PROVE  TypeInv' /\ SocketStep(c, conns[c].inbound) /\ CloseEffect
<1> DEFINE k == [conns[c] EXCEPT !.up = FALSE]
<1>1. conns[c] \in Conn /\ FALSE \in BOOLEAN
  BY DEF TypeInv
<1>2. conns' = [conns EXCEPT ![c] = k]
  BY <1>1 DEF ReadError, TypeInv, Conn
<1>3. k \in Conn /\ k.cb = conns[c].cb /\ ~k.up /\ k.inbound = conns[c].inbound
  BY <1>1 DEF Conn
<1> HIDE DEF k
<1>4. SocketStep(c, conns[c].inbound)
  BY <1>2, <1>3, SocketFacts
<1>5. /\ client' \in ClientState /\ ep' \in EpState /\ CloseEffect
      /\ room' \in {"connecting", "connected", "reconnecting", "gone"}
  <2>1. CASE HandleClose
    BY <2>1, HandleCloseType DEF CloseEffect, ReadError
  <2>2. CASE UNCHANGED <<client, room, ep>>
    BY <2>2 DEF TypeInv, CloseEffect, SameStores, ReadError
  <2> QED
    BY <2>1, <2>2 DEF ReadError
<1>6. client'.stream \in 0..Len(conns') /\ ep'.c \in 0..Len(conns')
      /\ (ep'.pc = "wait" => ep'.c # 0)
  BY <1>4, <1>5 DEF TypeInv, CloseEffect, SocketStep
<1>7. TypeInv'
  BY <1>4, <1>5, <1>6 DEF ReadError, TypeInv, SocketStep
<1> QED
  BY <1>4, <1>5, <1>7

\* An event is given to the Room.
GivesEffect(m) ==
  /\ IsEvent(m) /\ client.ready /\ UNCHANGED <<client, ep>>
  /\ heard' = Append(heard, m[2])
  /\ room' \in {room, "gone"}
\* An event is kept for the Room.
KeepsEffect(m) ==
  /\ IsEvent(m) /\ client'.buffer = Append(client.buffer, m)
  /\ client'.stream = client.stream /\ client'.queue = client.queue
  /\ client'.ready = client.ready /\ UNCHANGED <<heard, room, ep>>
\* A frame is for nobody, or ends the wait.
TakesEffect ==
  /\ UNCHANGED <<client, heard, room>>
  /\ ep'.pc = ep.pc /\ ep'.c = ep.c

LEMMA IncomingDoes ==
  ASSUME TypeInv, NEW m \in Frame, IsEvent(m), HandleIncomingMessage(m), ep' = ep
  PROVE  /\ client' \in ClientState /\ heard' \in Seq(Nat)
         /\ room' \in {"connecting", "connected", "reconnecting", "gone"}
         /\ TakesEffect \/ GivesEffect(m) \/ (~client.ready /\ KeepsEffect(m))
<1>1. /\ client \in ClientState /\ client.buffer \in Seq(Event) /\ heard \in Seq(Nat)
      /\ room \in {"connecting", "connected", "reconnecting", "gone"}
      /\ m[2] \in Nat /\ m \in Event
  BY DEF TypeInv, ClientState, Frame, Event, IsEvent
<1>2. CASE client.closed
  BY <1>1, <1>2 DEF HandleIncomingMessage, TakesEffect
<1>3. CASE ~client.closed /\ ~client.ready
  <2>1. Append(client.buffer, m) \in Seq(Event)
    BY <1>1
  <2>2. PICK b \in Seq(Event) : b = Append(client.buffer, m)
    BY <2>1
  <2>3. client' = [client EXCEPT !.buffer = b] /\ UNCHANGED <<heard, room>>
    BY <1>3, <2>2 DEF HandleIncomingMessage
  <2>4. /\ client' \in ClientState /\ client'.buffer = b /\ client'.stream = client.stream
        /\ client'.queue = client.queue /\ client'.ready = client.ready
    BY <1>1, <2>3 DEF ClientState
  <2> QED
    BY <1>1, <1>3, <2>2, <2>3, <2>4 DEF KeepsEffect
<1>4. CASE ~client.closed /\ client.ready
  <2>1. heard' = Append(heard, m[2]) /\ client' = client /\ room' \in {room, "gone"}
    BY <1>4 DEF HandleIncomingMessage
  <2>2. PICK n \in Nat : n = m[2]
    BY <1>1
  <2>3. heard' \in Seq(Nat)
    BY <1>1, <2>1, <2>2
  <2> QED
    BY <1>1, <1>4, <2>1, <2>3 DEF GivesEffect
<1> QED
  BY <1>2, <1>3, <1>4

LEMMA ReadDoes ==
  ASSUME TypeInv, NEW c \in 1..Len(conns), Read(c)
  PROVE  LET m == conns[c].inbound[1] IN
         /\ TypeInv' /\ conns[c].up /\ conns[c].inbound # <<>>
         /\ SocketStep(c, Tail(conns[c].inbound))
         /\ \/ CloseEffect
            \/ TakesEffect
            \/ GivesEffect(m)
            \/ (~client.ready \/ conns[c].cb = "wait") /\ KeepsEffect(m)
<1> DEFINE m == conns[c].inbound[1]
           cb == conns[c].cb
           k == [conns[c] EXCEPT !.inbound = Tail(conns[c].inbound), !.up = m[1] # "close"]
<1>1. conns[c] \in Conn /\ conns[c].inbound \in Seq(Frame) /\ conns[c].inbound # <<>>
      /\ conns[c].up
  <2>1. conns[c] \in Conn
    BY DEF TypeInv
  <2>2. conns[c].inbound # <<>> /\ conns[c].up
    BY DEF Read
  <2> QED
    BY <2>1, <2>2 DEF Conn
<1>2. m = Head(conns[c].inbound) /\ m \in Frame /\ Tail(conns[c].inbound) \in Seq(Frame)
  BY <1>1
<1>3. PICK up \in BOOLEAN, in \in Seq(Frame) :
         up = (m[1] # "close") /\ in = Tail(conns[c].inbound)
  BY <1>2
<1>4. conns' = [conns EXCEPT ![c] = k]
  BY <1>1, <1>2 DEF Read, TypeInv, Conn
<1>5. k \in Conn /\ k.cb = cb /\ (k.up => conns[c].up) /\ k.inbound = in
  BY <1>1, <1>3 DEF Conn
<1>6. /\ client' \in ClientState /\ heard' \in Seq(Nat) /\ ep' \in EpState
      /\ room' \in {"connecting", "connected", "reconnecting", "gone"}
      /\ \/ CloseEffect
         \/ TakesEffect
         \/ GivesEffect(m)
         \/ (~client.ready \/ cb = "wait") /\ KeepsEffect(m)
  <2> HIDE DEF k
  <2>1. CASE HandleClose /\ UNCHANGED heard
    BY <2>1, HandleCloseType DEF CloseEffect, TypeInv
  <2>2. CASE m[1] \notin {"close", "response"} /\ HandleIncomingMessage(m) /\ UNCHANGED ep
    <3>1. IsEvent(m)
      BY <1>2, <2>2 DEF Frame, IsEvent
    <3> QED
      BY <1>2, <2>2, <3>1, IncomingDoes DEF TypeInv
  <2>3. CASE ep' = [ep EXCEPT !.resp = TRUE] /\ UNCHANGED <<client, heard, room>>
    <3>1. ep' \in EpState /\ ep'.pc = ep.pc /\ ep'.c = ep.c
      BY <2>3, EpisodeAt DEF TypeInv
    <3> QED
      BY <2>3, <3>1 DEF TakesEffect, TypeInv
  <2>4. CASE /\ cb = "wait" /\ m[1] \in {"update", "leave"}
             /\ client' = [client EXCEPT !.buffer = Append(@, m)]
             /\ UNCHANGED <<ep, heard, room>>
    <3>1. m \in Event /\ IsEvent(m) /\ client.buffer \in Seq(Event)
      BY <1>2, <2>4 DEF Frame, Event, IsEvent, TypeInv, ClientState
    <3>2. Append(client.buffer, m) \in Seq(Event)
      BY <3>1
    <3>3. PICK b \in Seq(Event) : b = Append(client.buffer, m)
      BY <3>2
    <3>4. client' = [client EXCEPT !.buffer = b]
      BY <2>4, <3>3
    <3>5. /\ client' \in ClientState /\ client'.buffer = b /\ client'.stream = client.stream
          /\ client'.queue = client.queue /\ client'.ready = client.ready
      BY <3>4 DEF TypeInv, ClientState
    <3> QED
      BY <2>4, <3>1, <3>3, <3>5 DEF KeepsEffect, TypeInv
  <2>5. CASE UNCHANGED <<client, ep, heard, room>>
    BY <2>5 DEF TakesEffect, TypeInv
  <2>6. IF cb = "client" /\ m[1] = "close"
        THEN HandleClose /\ UNCHANGED heard
        ELSE IF cb = "client" /\ m[1] # "response"
        THEN HandleIncomingMessage(m) /\ UNCHANGED ep
        ELSE IF cb = "wait" /\ m[1] = "response"
        THEN ep' = [ep EXCEPT !.resp = TRUE] /\ UNCHANGED <<client, heard, room>>
        ELSE IF cb = "wait" /\ m[1] \in (IF Joining THEN {"update", "leave"} ELSE {"update"})
        THEN /\ client' = [client EXCEPT !.buffer = Append(@, m)]
             /\ UNCHANGED <<ep, heard, room>>
        ELSE UNCHANGED <<client, ep, heard, room>>
    BY <1>2 DEF Read
  <2> HIDE DEF m
  <2> QED
    BY <2>1, <2>2, <2>3, <2>4, <2>5, <2>6
<1> HIDE DEF k
<1>7. SocketStep(c, in)
  BY <1>4, <1>5, SocketFacts
<1>8. /\ client'.stream = client.stream
      /\ ep'.c = ep.c \/ (ep'.c = 0 /\ ep'.pc = "start")
      /\ ep'.pc = ep.pc \/ ep'.pc = "start"
  BY <1>6 DEF CloseEffect, TakesEffect, GivesEffect, KeepsEffect
<1>9. client'.stream \in 0..Len(conns') /\ ep'.c \in 0..Len(conns')
      /\ (ep'.pc = "wait" => ep'.c # 0)
  BY <1>7, <1>8 DEF TypeInv, SocketStep
<1>10. TypeInv'
  BY <1>6, <1>7, <1>9 DEF Read, TypeInv, SocketStep
<1> QED
  BY <1>1, <1>3, <1>6, <1>7, <1>10

-----------------------------------------------------------------------------
(* No request is in two places *)

\* A flush moves the queue behind the coroutines there are: what was apart
\* stays apart, and what was nowhere is still nowhere.
LEMMA FlushApart ==
  ASSUME NEW q \in Seq(Nat), NEW t \in Seq(Task), NEW g \in Seq(Nat), NEW n \in Nat,
         NEW q2, NEW t2, FlushMove(q, t, q2, t2),
         Apart(q, t, g), Numbered(q, t, g, n)
  PROVE  /\ Apart(q2, t2, g) /\ Numbered(q2, t2, g, n)
         /\ \A r \in Nat : Fresh(r, q, t, g) => Fresh(r, q2, t2, g)
<1>1. CASE q2 = q /\ t2 = t
  BY <1>1
<1>2. ASSUME NEW k \in Nat, q2 = <<>>,
             t2 = t \o [i \in 1..Len(q) |-> [r |-> q[i], c |-> k]]
      PROVE  /\ Apart(q2, t2, g) /\ Numbered(q2, t2, g, n)
             /\ \A r \in Nat : Fresh(r, q, t, g) => Fresh(r, q2, t2, g)
  <2> DEFINE s == [i \in 1..Len(q) |-> [r |-> q[i], c |-> k]]
  <2>1. Len(q) \in Nat /\ DOMAIN q = 1..Len(q) /\ \A i \in 1..Len(q) : q[i] \in Nat
    OBVIOUS
  <2>2. s \in Seq(Task) /\ Len(s) = Len(q)
    BY <2>1 DEF Task
  <2>3. \A i \in 1..Len(q) : s[i].r = q[i]
    OBVIOUS
  <2> HIDE DEF s
  <2>4. /\ DOMAIN t2 = 1..(Len(t) + Len(q)) /\ Len(t) \in Nat /\ DOMAIN t = 1..Len(t)
        /\ \A i \in 1..(Len(t) + Len(q)) :
             \/ i \in DOMAIN t /\ t2[i] = t[i]
             \/ i - Len(t) \in DOMAIN q /\ t2[i].r = q[i - Len(t)] /\ i > Len(t)
    BY <1>2, <2>2, <2>3 DEF s
  <2>5. DOMAIN q2 = {}
    BY <1>2
  <2>6. DistinctTasks(t2)
    <3> SUFFICES ASSUME NEW i \in DOMAIN t2, NEW j \in DOMAIN t2, t2[i].r = t2[j].r
                 PROVE  i = j
      BY DEF DistinctTasks
    <3>1. i \in Nat /\ j \in Nat
      BY <2>1, <2>4
    <3>2. CASE i \in DOMAIN t /\ t2[i] = t[i]
      <4>1. CASE j \in DOMAIN t /\ t2[j] = t[j]
        BY <3>2, <4>1 DEF Apart, DistinctTasks
      <4>2. CASE j - Len(t) \in DOMAIN q /\ t2[j].r = q[j - Len(t)]
        BY <3>2, <4>2 DEF Apart
      <4> QED
        BY <2>4, <4>1, <4>2
    <3>3. CASE i - Len(t) \in DOMAIN q /\ t2[i].r = q[i - Len(t)]
      <4>1. CASE j \in DOMAIN t /\ t2[j] = t[j]
        BY <3>3, <4>1 DEF Apart
      <4>2. CASE j - Len(t) \in DOMAIN q /\ t2[j].r = q[j - Len(t)]
        <5>1. i - Len(t) = j - Len(t)
          BY <3>3, <4>2 DEF Apart, Distinct
        <5> QED
          BY <2>4, <3>1, <5>1
      <4> QED
        BY <2>4, <4>1, <4>2
    <3> QED
      BY <2>4, <3>2, <3>3
  <2>7. \A i \in DOMAIN t2 : \A j \in DOMAIN g : t2[i].r # g[j]
    BY <2>4 DEF Apart
  <2>8. \A i \in DOMAIN t2 : t2[i].r <= n
    BY <2>4 DEF Numbered
  <2>9. \A r \in Nat : Fresh(r, q, t, g) => \A i \in DOMAIN t2 : t2[i].r # r
    BY <2>4 DEF Fresh
  <2>10. Apart(q2, t2, g)
    BY <2>5, <2>6, <2>7 DEF Apart, Distinct
  <2>11. Numbered(q2, t2, g, n)
    BY <2>5, <2>8 DEF Numbered
  <2>12. \A r \in Nat : Fresh(r, q, t, g) => Fresh(r, q2, t2, g)
    BY <2>5, <2>9 DEF Fresh
  <2> QED
    BY <2>10, <2>11, <2>12
<1> QED
  BY <1>1, <1>2 DEF FlushMove

\* A request that was nowhere gets one place at most.
LEMMA SendApart ==
  ASSUME NEW q \in Seq(Nat), NEW t \in Seq(Task), NEW g \in Seq(Nat), NEW n \in Nat,
         NEW q2, NEW t2, NEW r \in Nat, SendMove(r, q, t, q2, t2),
         Apart(q, t, g), Numbered(q, t, g, n), r <= n, Fresh(r, q, t, g)
  PROVE  Apart(q2, t2, g) /\ Numbered(q2, t2, g, n)
<1>1. PICK q1 \in Seq(Nat), t1 \in Seq(Task) :
        /\ FlushMove(q, t, q1, t1)
        /\ \/ q2 = q1 /\ \E k \in Nat : t2 = Append(t1, [r |-> r, c |-> k])
           \/ q2 = Append(q1, r) /\ t2 = t1
           \/ q2 = q1 /\ t2 = t1
  BY DEF SendMove
<1>2. Apart(q1, t1, g) /\ Numbered(q1, t1, g, n) /\ Fresh(r, q1, t1, g)
  BY <1>1, FlushApart
<1>3. CASE q2 = Append(q1, r) /\ t2 = t1
  <2>1. /\ Len(q1) \in Nat /\ DOMAIN q1 = 1..Len(q1) /\ DOMAIN q2 = 1..(Len(q1) + 1)
        /\ \A i \in DOMAIN q2 :
             \/ i \in DOMAIN q1 /\ q2[i] = q1[i]
             \/ i = Len(q1) + 1 /\ q2[i] = r
    BY <1>3
  <2>2. Distinct(q2)
    BY <1>2, <2>1 DEF Apart, Distinct, Fresh
  <2>3. /\ \A i \in DOMAIN q2 : \A j \in DOMAIN t2 : q2[i] # t2[j].r
        /\ \A i \in DOMAIN q2 : \A j \in DOMAIN g : q2[i] # g[j]
        /\ \A i \in DOMAIN q2 : q2[i] <= n
    BY <1>2, <1>3, <2>1 DEF Apart, Fresh, Numbered
  <2> QED
    BY <1>2, <1>3, <2>2, <2>3 DEF Apart, Numbered
<1>4. ASSUME NEW k \in Nat, q2 = q1, t2 = Append(t1, [r |-> r, c |-> k])
      PROVE  Apart(q2, t2, g) /\ Numbered(q2, t2, g, n)
  <2>1. /\ Len(t1) \in Nat /\ DOMAIN t1 = 1..Len(t1) /\ DOMAIN t2 = 1..(Len(t1) + 1)
        /\ \A i \in DOMAIN t2 :
             \/ i \in DOMAIN t1 /\ t2[i] = t1[i]
             \/ i = Len(t1) + 1 /\ t2[i].r = r
    <3>1. [r |-> r, c |-> k] \in Task /\ [r |-> r, c |-> k].r = r
      BY DEF Task
    <3>2. PICK x \in Task : x = [r |-> r, c |-> k]
      BY <3>1
    <3>3. t2 = Append(t1, x) /\ x.r = r
      BY <1>4, <3>1, <3>2
    <3> QED
      BY <3>3
  <2>2. DistinctTasks(t2)
    BY <1>2, <2>1 DEF Apart, DistinctTasks, Fresh
  <2>3. /\ \A i \in DOMAIN q2 : \A j \in DOMAIN t2 : q2[i] # t2[j].r
        /\ \A i \in DOMAIN t2 : \A j \in DOMAIN g : t2[i].r # g[j]
        /\ \A i \in DOMAIN t2 : t2[i].r <= n
    BY <1>2, <1>4, <2>1 DEF Apart, Fresh, Numbered
  <2> QED
    BY <1>2, <1>4, <2>2, <2>3 DEF Apart, Numbered
<1> QED
  BY <1>1, <1>2, <1>3, <1>4

\* The first coroutine runs: its request reaches the server, or is lost.
LEMMA RunApart ==
  ASSUME NEW q \in Seq(Nat), NEW t \in Seq(Task), NEW g \in Seq(Nat), NEW n \in Nat,
         NEW g2, t # <<>>, g2 = g \/ g2 = Append(g, t[1].r),
         Apart(q, t, g), Numbered(q, t, g, n)
  PROVE  /\ Apart(q, Tail(t), g2) /\ Numbered(q, Tail(t), g2, n)
         /\ \A r \in Nat : Fresh(r, q, t, g) => Fresh(r, q, Tail(t), g2)
<1>1. /\ Len(t) \in Nat /\ DOMAIN t = 1..Len(t) /\ 1 \in DOMAIN t
      /\ \A i \in DOMAIN Tail(t) : i \in Nat /\ i > 0 /\ i + 1 \in DOMAIN t
                                 /\ Tail(t)[i] = t[i + 1]
  OBVIOUS
<1>12. t[1] \in Task /\ t[1].r \in Nat
  <2>1. t[1] \in Task
    BY <1>1
  <2> QED
    BY <2>1 DEF Task
<1>13. PICK r1 \in Nat : r1 = t[1].r
  BY <1>12
<1>2. /\ Len(g) \in Nat /\ DOMAIN g = 1..Len(g)
      /\ \A i \in DOMAIN g2 :
           /\ i \in Nat
           /\ (i \in DOMAIN g /\ g2[i] = g[i]) \/ (i = Len(g) + 1 /\ g2[i] = r1)
  <2>1. CASE g2 = g
    BY <2>1
  <2>2. CASE g2 = Append(g, r1)
    BY <2>2
  <2> QED
    BY <1>13, <2>1, <2>2
<1>14. /\ \A i \in DOMAIN q : q[i] # r1
       /\ \A i \in DOMAIN g : g[i] # r1
       /\ r1 <= n
  BY <1>1, <1>13 DEF Apart, Numbered
<1>15. \A r \in Nat : Fresh(r, q, t, g) => r # r1
  BY <1>1, <1>13 DEF Fresh
<1> DEFINE u == Tail(t)
<1> HIDE DEF u
<1>3. \A i \in DOMAIN u : i \in Nat /\ i > 0 /\ i + 1 \in DOMAIN t /\ u[i] = t[i + 1]
  BY <1>1 DEF u
<1>4. DistinctTasks(u)
  <2> SUFFICES ASSUME NEW i \in DOMAIN u, NEW j \in DOMAIN u, u[i].r = u[j].r
               PROVE  i = j
    BY DEF DistinctTasks
  <2>1. i + 1 = j + 1
    BY <1>3 DEF Apart, DistinctTasks
  <2> QED
    BY <1>3, <2>1
<1>5. Distinct(g2)
  BY <1>2, <1>14 DEF Apart, Distinct
<1>6. \A i \in DOMAIN q : \A j \in DOMAIN u : q[i] # u[j].r
  BY <1>3 DEF Apart
<1>7. \A i \in DOMAIN q : \A j \in DOMAIN g2 : q[i] # g2[j]
  BY <1>2, <1>14 DEF Apart
<1>8. \A i \in DOMAIN u : \A j \in DOMAIN g2 : u[i].r # g2[j]
  <2> SUFFICES ASSUME NEW i \in DOMAIN u, NEW j \in DOMAIN g2 PROVE u[i].r # g2[j]
    OBVIOUS
  <2>2. i + 1 \in DOMAIN t /\ u[i] = t[i + 1] /\ i + 1 # 1
    BY <1>3
  <2>1. u[i].r # r1
    BY <1>1, <1>13, <2>2 DEF Apart, DistinctTasks
  <2> QED
    BY <1>2, <1>3, <2>1 DEF Apart
<1>9. Apart(q, u, g2)
  BY <1>4, <1>5, <1>6, <1>7, <1>8 DEF Apart
<1>10. Numbered(q, u, g2, n)
  BY <1>2, <1>3, <1>14 DEF Numbered
<1>11. \A r \in Nat : Fresh(r, q, t, g) => Fresh(r, q, u, g2)
  BY <1>2, <1>3, <1>15 DEF Fresh
<1> QED
  BY <1>9, <1>10, <1>11 DEF u

\* Two lists without a common element, put one after the other.
LEMMA InjectiveTogether ==
  ASSUME NEW s \in Seq(Nat), NEW t \in Seq(Nat), Distinct(s), Distinct(t),
         \A i \in DOMAIN s : \A j \in DOMAIN t : s[i] # t[j]
  PROVE  Distinct(s \o t)
<1>1. /\ Len(s) \in Nat /\ DOMAIN s = 1..Len(s) /\ Len(t) \in Nat /\ DOMAIN t = 1..Len(t)
      /\ DOMAIN (s \o t) = 1..(Len(s) + Len(t))
      /\ \A i \in 1..(Len(s) + Len(t)) :
           \/ i \in DOMAIN s /\ (s \o t)[i] = s[i]
           \/ i - Len(s) \in DOMAIN t /\ (s \o t)[i] = t[i - Len(s)]
  OBVIOUS
<1>2. ASSUME NEW i \in DOMAIN (s \o t), NEW j \in DOMAIN (s \o t), (s \o t)[i] = (s \o t)[j]
      PROVE  i = j
  <2>1. i \in Int /\ j \in Int /\ Len(s) \in Int
    BY <1>1, <1>2
  <2>2. CASE i \in DOMAIN s /\ (s \o t)[i] = s[i] /\ j \in DOMAIN s /\ (s \o t)[j] = s[j]
    BY <1>2, <2>2 DEF Distinct
  <2>3. CASE /\ i - Len(s) \in DOMAIN t /\ (s \o t)[i] = t[i - Len(s)]
             /\ j - Len(s) \in DOMAIN t /\ (s \o t)[j] = t[j - Len(s)]
    <3>1. i - Len(s) = j - Len(s)
      BY <1>2, <2>3 DEF Distinct
    <3>2. QED
      BY <2>1, <3>1
  <2>4. CASE /\ i \in DOMAIN s /\ (s \o t)[i] = s[i]
             /\ j - Len(s) \in DOMAIN t /\ (s \o t)[j] = t[j - Len(s)]
    BY <1>2, <2>4
  <2>5. CASE /\ j \in DOMAIN s /\ (s \o t)[j] = s[j]
             /\ i - Len(s) \in DOMAIN t /\ (s \o t)[i] = t[i - Len(s)]
    BY <1>2, <2>5
  <2>6. QED
    BY <1>1, <1>2, <2>2, <2>3, <2>4, <2>5
<1> QED
  BY <1>2 DEF Distinct

\* Places that are apart make the three lists, one after the other, a list of
\* different requests.
LEMMA ApartIsNeverTwice ==
  ASSUME TypeInv, RequestInv
  PROVE  NeverTwice
<1> DEFINE rs == [i \in 1..Len(tasks) |-> tasks[i].r]
           q == client.queue
<1>1. /\ q \in Seq(Nat) /\ tasks \in Seq(Task) /\ got \in Seq(Nat)
      /\ Len(tasks) \in Nat /\ DOMAIN tasks = 1..Len(tasks)
  BY DEF TypeInv, ClientState
<1>2. \A i \in 1..Len(tasks) : tasks[i].r \in Nat
  <2>1. \A i \in 1..Len(tasks) : tasks[i] \in Task
    BY <1>1
  <2> QED
    BY <2>1 DEF Task
<1>3. /\ rs \in Seq(Nat) /\ DOMAIN rs = DOMAIN tasks
      /\ \A i \in DOMAIN tasks : rs[i] = tasks[i].r
  BY <1>1, <1>2
<1> HIDE DEF rs, q
<1>4. Distinct(q) /\ Distinct(got) /\ Distinct(rs)
  BY <1>1, <1>3 DEF RequestInv, Apart, DistinctTasks, Distinct, q
<1>5. /\ \A i \in DOMAIN q : \A j \in DOMAIN rs : q[i] # rs[j]
      /\ \A i \in DOMAIN q : \A j \in DOMAIN got : q[i] # got[j]
      /\ \A i \in DOMAIN rs : \A j \in DOMAIN got : rs[i] # got[j]
  BY <1>1, <1>3 DEF RequestInv, Apart, q
<1>6. Distinct(q \o rs) /\ q \o rs \in Seq(Nat)
  <2>1. q \o rs \in Seq(Nat)
    BY <1>1, <1>3 DEF q
  <2>2. q \in Seq(Nat)
    BY <1>1 DEF q
  <2> QED
    BY <1>3, <1>4, <1>5, <2>1, <2>2, InjectiveTogether
<1>7. /\ Len(q) \in Nat /\ DOMAIN q = 1..Len(q) /\ Len(rs) \in Nat /\ DOMAIN rs = 1..Len(rs)
      /\ DOMAIN (q \o rs) = 1..(Len(q) + Len(rs))
      /\ \A i \in 1..(Len(q) + Len(rs)) :
           \/ i \in DOMAIN q /\ (q \o rs)[i] = q[i]
           \/ i - Len(q) \in DOMAIN rs /\ (q \o rs)[i] = rs[i - Len(q)]
  BY <1>1, <1>3
<1>8. \A i \in DOMAIN (q \o rs) : \A j \in DOMAIN got : (q \o rs)[i] # got[j]
  BY <1>5, <1>7
<1>9. Distinct((q \o rs) \o got)
  BY <1>1, <1>4, <1>6, <1>8, InjectiveTogether
<1> QED
  BY <1>9 DEF NeverTwice, IsInjective, Distinct, rs, q

-----------------------------------------------------------------------------
(* Typing, and what each action does to the requests *)

\* The steps that fail, close or give up a join or resume.
LEMMA EndingsDo ==
  ASSUME TypeInv, DialFails \/ WaitFails \/ Unready \/ Drop \/ CleanUp \/ Redirected
  PROVE  TypeInv' /\ SameStores /\ UNCHANGED <<app, tasks, heard, got, sends, said>>
<1>1. conns \in Seq(Conn) /\ Aborted(conns, ep.c) \in Seq(Conn)
      /\ Len(Aborted(conns, ep.c)) = Len(conns)
  BY AbortedFacts DEF TypeInv
<1>2. CASE DialFails
  BY <1>1, <1>2, FailedDoes DEF DialFails
<1>3. CASE Unready
  BY <1>1, <1>3, FailedDoes DEF Unready
<1>4. CASE WaitFails
  <2>1. CASE Failed(Aborted(conns, ep.c))
    BY <1>1, <1>4, <2>1, FailedDoes DEF WaitFails
  <2>2. CASE /\ conns' = Aborted(conns, ep.c)
             /\ ep' = [NoEpisode EXCEPT !.pc = "dial"]
             /\ UNCHANGED <<client, room>>
    BY <1>4, <2>2, DialsAgain DEF WaitFails, SameStores
  <2> QED
    BY <1>4, <2>1, <2>2 DEF WaitFails
<1>5. CASE Redirected
  BY <1>5, DialsAgain DEF Redirected, SameStores
<1>6. CASE Drop
  BY <1>6, CloseOnIoDoes DEF Drop
<1>7. CASE CleanUp
  BY <1>7, CloseOnIoDoes DEF CleanUp
<1> QED
  BY <1>2, <1>3, <1>4, <1>5, <1>6, <1>7

\* A step that leaves the requests where they are.
LEMMA RequestsKept ==
  ASSUME RequestInv, client'.queue = client.queue, tasks' = tasks, got' = got, sends' = sends,
         app' = app \/ app'.pc \in {"idle", "close"}
  PROVE  RequestInv'
<1>1. InSend' => InSend /\ app' = app
  BY DEF InSend
<1> QED
  BY <1>1 DEF RequestInv

LEMMA SocketsKeepRequests ==
  ASSUME SendInv, NEW c \in DOMAIN conns,
         \/ ServerAnswers(c) \/ ServerSays(c) \/ ServerCloses(c) \/ Dies(c)
         \/ Read(c) \/ ReadError(c)
  PROVE  SendInv'
<1>1. c \in 1..Len(conns) /\ TypeInv /\ RequestInv
  BY DEF SendInv, TypeInv
<1>2. TypeInv' /\ client'.queue = client.queue
  <2>1. CASE ServerAnswers(c)
    BY <1>1, <2>1, ServerEndsDoes DEF ServerAnswers
  <2>2. CASE ServerCloses(c)
    BY <1>1, <2>2, ServerEndsDoes DEF ServerCloses, Server
  <2>3. CASE ServerSays(c)
    BY <1>1, <2>3, ServerSaysDoes DEF ServerSays, Server
  <2>4. CASE Dies(c)
    BY <1>1, <2>4, DiesDoes DEF Dies
  <2>5. CASE Read(c)
    BY <1>1, <2>5, ReadDoes DEF CloseEffect, TakesEffect, GivesEffect, KeepsEffect, SameStores
  <2>6. CASE ReadError(c)
    BY <1>1, <2>6, ReadErrorDoes DEF CloseEffect, SameStores
  <2> QED
    BY <2>1, <2>2, <2>3, <2>4, <2>5, <2>6
<1>3. UNCHANGED <<app, tasks, got, sends>>
  BY DEF ServerAnswers, ServerCloses, ServerSays, Server, Dies, Read, ReadError
<1> QED
  BY <1>1, <1>2, <1>3, RequestsKept DEF SendInv

\* A flush by a step that gives no request itself.
LEMMA FlushesKeepRequests ==
  ASSUME SendInv, TypeInv', FlushMove(client.queue, tasks, client'.queue, tasks'),
         got' = got, sends' = sends, app' = app \/ (InSend /\ app'.r = app.r)
  PROVE  SendInv'
<1>1. /\ client.queue \in Seq(Nat) /\ tasks \in Seq(Task) /\ got \in Seq(Nat)
      /\ sends \in Nat /\ app.r \in Nat
  BY DEF SendInv, TypeInv, ClientState, AppState
<1>2. /\ Apart(client'.queue, tasks', got') /\ Numbered(client'.queue, tasks', got', sends')
      /\ (Fresh(app.r, client.queue, tasks, got)
             => Fresh(app.r, client'.queue, tasks', got'))
  BY <1>1, FlushApart DEF SendInv, RequestInv
<1>3. InSend' => InSend /\ app'.r = app.r
  BY DEF InSend
<1> QED
  BY <1>2, <1>3 DEF SendInv, RequestInv

\* A number above all that were given is nowhere.
LEMMA NextIsFresh ==
  ASSUME SendInv
  PROVE  /\ Fresh(sends + 1, client.queue, tasks, got)
         /\ Numbered(client.queue, tasks, got, sends + 1)
<1>1. /\ client.queue \in Seq(Nat) /\ tasks \in Seq(Task) /\ got \in Seq(Nat)
      /\ sends \in Nat
  BY DEF SendInv, TypeInv, ClientState
<1>2. \A i \in DOMAIN tasks : tasks[i].r \in Nat
  <2>1. \A i \in DOMAIN tasks : tasks[i] \in Task
    BY <1>1
  <2> QED
    BY <2>1 DEF Task
<1>3. /\ \A i \in DOMAIN client.queue : client.queue[i] \in Nat
      /\ \A i \in DOMAIN got : got[i] \in Nat
  BY <1>1
<1> QED
  BY <1>1, <1>2, <1>3 DEF SendInv, RequestInv, Numbered, Fresh

\* Send on the I/O thread gives a new request one place; the request that the
\* application has in its hands meanwhile is another one.
LEMMA SendOnIoKeepsRequests ==
  ASSUME SendInv, NEW pass \in BOOLEAN, SendOnIo(pass)
  PROVE  SendInv'
<1>1. /\ client.queue \in Seq(Nat) /\ tasks \in Seq(Task) /\ got \in Seq(Nat)
      /\ sends \in Nat /\ sends + 1 \in Nat /\ app.r \in Nat
  BY DEF SendInv, TypeInv, ClientState, AppState
<1>2. /\ TypeInv' /\ sends' = sends + 1
      /\ SendMove(sends + 1, client.queue, tasks, client'.queue, tasks')
  BY SendOnIoDoes DEF SendInv
<1>3. got' = got /\ app' = app
  BY DEF SendOnIo
<1>4. Apart(client'.queue, tasks', got) /\ Numbered(client'.queue, tasks', got, sends + 1)
  BY <1>1, <1>2, NextIsFresh, SendApart DEF SendInv, RequestInv
<1>5. InSend => Fresh(app.r, client'.queue, tasks', got)
  <2> SUFFICES ASSUME InSend PROVE Fresh(app.r, client'.queue, tasks', got)
    OBVIOUS
  <2>1. app.r # sends + 1 /\ Fresh(app.r, client.queue, tasks, got)
    BY <1>1 DEF SendInv, RequestInv
  <2>2. PICK q1 \in Seq(Nat), t1 \in Seq(Task) :
          /\ FlushMove(client.queue, tasks, q1, t1)
          /\ \/ /\ client'.queue = q1
                /\ \E k \in Nat : tasks' = Append(t1, [r |-> sends + 1, c |-> k])
             \/ client'.queue = Append(q1, sends + 1) /\ tasks' = t1
             \/ client'.queue = q1 /\ tasks' = t1
    BY <1>2 DEF SendMove
  <2>3. Fresh(app.r, q1, t1, got)
    BY <1>1, <2>1, <2>2, FlushApart DEF SendInv, RequestInv
  <2>4. \A i \in DOMAIN client'.queue : client'.queue[i] # app.r
    <3>1. PICK n \in Nat : n = sends + 1
      BY <1>1
    <3>2. CASE client'.queue = q1
      BY <2>3, <3>2 DEF Fresh
    <3>3. CASE client'.queue = Append(q1, n)
      BY <2>1, <2>3, <3>1, <3>3 DEF Fresh
    <3> QED
      BY <2>2, <3>1, <3>2, <3>3
  <2>5. \A i \in DOMAIN tasks' : tasks'[i].r # app.r
    <3>1. CASE tasks' = t1
      BY <2>3, <3>1 DEF Fresh
    <3>2. ASSUME NEW k \in Nat, tasks' = Append(t1, [r |-> sends + 1, c |-> k])
          PROVE  \A i \in DOMAIN tasks' : tasks'[i].r # app.r
      <4>1. PICK x \in Task : x = [r |-> sends + 1, c |-> k]
        BY <1>1 DEF Task
      <4>2. x.r = sends + 1 /\ tasks' = Append(t1, x)
        BY <3>2, <4>1
      <4> QED
        BY <2>1, <2>3, <4>2 DEF Fresh
    <3> QED
      BY <2>2, <3>1, <3>2
  <2> QED
    BY <2>3, <2>4, <2>5 DEF Fresh
<1>6. InSend' => InSend /\ app.r <= sends + 1
  BY <1>1, <1>3 DEF InSend, SendInv, RequestInv
<1> QED
  BY <1>2, <1>3, <1>4, <1>5, <1>6 DEF SendInv, RequestInv

\* The application's thread between its locks.
LEMMA AppKeepsRequests ==
  ASSUME SendInv,
         \/ \E pass \in BOOLEAN : AppSends(pass)
         \/ AppQueues \/ AppEntersFlush \/ AppFlushes \/ AppHands \/ AppCloses \/ AppReleases
  PROVE  SendInv'
<1>1. /\ client.queue \in Seq(Nat) /\ tasks \in Seq(Task) /\ got \in Seq(Nat)
      /\ sends \in Nat /\ sends + 1 \in Nat /\ app.r \in Nat
      /\ TypeInv /\ RequestInv
  BY DEF SendInv, TypeInv, ClientState, AppState
<1>2. ASSUME NEW pass \in BOOLEAN, AppSends(pass)
      PROVE  SendInv'
  <2>1. TypeInv' /\ sends' = sends + 1 /\ app'.r = sends + 1
    BY <1>1, <1>2, AppSendsDoes
  <2>2. UNCHANGED <<client, tasks, got>>
    BY <1>2 DEF AppSends
  <2> QED
    BY <1>1, <2>1, <2>2, NextIsFresh DEF SendInv, RequestInv
<1>3. CASE AppQueues
  <2>1. TypeInv' /\ app'.pc = "idle" /\ client'.queue = Append(client.queue, app.r)
    BY <1>1, <1>3, AppQueuesDoes
  <2>2. UNCHANGED <<tasks, got, sends>> /\ InSend
    BY <1>3 DEF AppQueues, InSend
  <2>3. SendMove(app.r, client.queue, tasks, client'.queue, tasks')
    BY <1>1, <2>1, <2>2 DEF SendMove, FlushMove
  <2>4. Apart(client'.queue, tasks', got) /\ Numbered(client'.queue, tasks', got, sends)
    BY <1>1, <2>2, <2>3, SendApart DEF RequestInv
  <2> QED
    BY <2>1, <2>2, <2>4 DEF SendInv, RequestInv, InSend
<1>4. CASE AppEntersFlush
  <2>1. TypeInv' /\ app'.r = app.r /\ InSend
    BY <1>1, <1>4, AppEntersFlushDoes DEF InSend
  <2>2. UNCHANGED <<client, tasks, got, sends>>
    BY <1>4 DEF AppEntersFlush
  <2> QED
    BY <1>1, <2>1, <2>2 DEF SendInv, RequestInv
<1>5. CASE AppFlushes
  <2>1. /\ TypeInv' /\ app'.r = app.r /\ InSend
        /\ FlushMove(client.queue, tasks, client'.queue, tasks')
    BY <1>1, <1>5, AppFlushesDoes DEF InSend
  <2>2. UNCHANGED <<got, sends>>
    BY <1>5 DEF AppFlushes
  <2> QED
    BY <2>1, <2>2, FlushesKeepRequests
<1>6. CASE AppHands
  <2>1. /\ TypeInv' /\ app'.pc = "idle" /\ InSend
        /\ SendMove(app.r, client.queue, tasks, client'.queue, tasks')
    BY <1>1, <1>6, AppHandsDoes DEF InSend
  <2>2. UNCHANGED <<got, sends>>
    BY <1>6 DEF AppHands
  <2>3. Apart(client'.queue, tasks', got) /\ Numbered(client'.queue, tasks', got, sends)
    BY <1>1, <2>1, SendApart DEF RequestInv
  <2> QED
    BY <2>1, <2>2, <2>3 DEF SendInv, RequestInv, InSend
<1>7. CASE AppCloses
  <2>1. TypeInv' /\ client'.queue = client.queue /\ app'.pc \in {"idle", "close"}
    BY <1>1, <1>7, AppClosesDoes DEF SameStores
  <2>2. UNCHANGED <<tasks, got, sends>>
    BY <1>7 DEF AppCloses
  <2> QED
    BY <1>1, <2>1, <2>2, RequestsKept DEF SendInv
<1>8. CASE AppReleases
  <2>1. TypeInv' /\ client'.queue = client.queue /\ app'.pc \in {"idle", "close"}
    BY <1>1, <1>8, AppReleasesDoes DEF SameStores
  <2>2. UNCHANGED <<tasks, got, sends>>
    BY <1>8 DEF AppReleases
  <2> QED
    BY <1>1, <2>1, <2>2, RequestsKept DEF SendInv
<1> QED
  BY <1>2, <1>3, <1>4, <1>5, <1>6, <1>7, <1>8

\* The coroutine that joins or resumes: only SetReconnected moves requests.
LEMMA EpisodeKeepsRequests ==
  ASSUME SendInv, Episode \/ CleanUp
  PROVE  SendInv'
<1>1. TypeInv /\ RequestInv
  BY DEF SendInv
<1>2. CASE Ready
  <2>1. TypeInv' /\ FlushMove(client.queue, tasks, client'.queue, tasks')
    BY <1>1, <1>2, ReadyDoes
  <2>2. UNCHANGED <<app, got, sends>>
    BY <1>2 DEF Ready
  <2> QED
    BY <2>1, <2>2, FlushesKeepRequests
<1>3. CASE ~Ready
  <2>1. /\ TypeInv' /\ client'.queue = client.queue
        /\ UNCHANGED <<tasks, got, sends, app>>
    <3>1. CASE Restart
      BY <1>1, <3>1, RestartDoes DEF Restart
    <3>2. CASE StreamClosed
      BY <1>1, <3>2, StreamClosedDoes DEF StreamClosed, SameStores
    <3>3. CASE Dial
      BY <1>1, <3>3, DialDoes DEF Dial
    <3>4. CASE ResponseTaken
      BY <1>1, <3>4, ResponseTakenDoes DEF ResponseTaken, SameStores
    <3>5. CASE Commit
      BY <1>1, <3>5, CommitDoes DEF Commit
    <3>6. CASE DialFails \/ WaitFails \/ Unready \/ Drop \/ CleanUp \/ Redirected
      BY <1>1, <3>6, EndingsDo DEF SameStores
    <3> QED
      BY <1>3, <3>1, <3>2, <3>3, <3>4, <3>5, <3>6 DEF Episode
  <2> QED
    BY <1>1, <2>1, RequestsKept DEF SendInv
<1> QED
  BY <1>2, <1>3

LEMMA RunTaskKeepsRequests ==
  ASSUME SendInv, RunTask
  PROVE  SendInv'
<1>1. /\ client.queue \in Seq(Nat) /\ tasks \in Seq(Task) /\ got \in Seq(Nat)
      /\ sends \in Nat /\ app.r \in Nat /\ TypeInv /\ RequestInv
  BY DEF SendInv, TypeInv, ClientState, AppState
<1>2. /\ TypeInv' /\ tasks # <<>> /\ tasks' = Tail(tasks)
      /\ got' = got \/ got' = Append(got, tasks[1].r)
      /\ UNCHANGED <<client, sends, app>>
  BY <1>1, RunTaskDoes DEF RunTask
<1>3. /\ Apart(client.queue, tasks', got') /\ Numbered(client.queue, tasks', got', sends)
      /\ Fresh(app.r, client.queue, tasks, got) => Fresh(app.r, client.queue, tasks', got')
  BY <1>1, <1>2, RunApart DEF RequestInv
<1> QED
  BY <1>1, <1>2, <1>3 DEF SendInv, RequestInv, InSend

LEMMA HeartbeatKeepsRequests ==
  ASSUME SendInv, Heartbeat
  PROVE  SendInv'
<1>1. TypeInv' /\ FlushMove(client.queue, tasks, client'.queue, tasks')
  BY HeartbeatDoes DEF SendInv
<1>2. UNCHANGED <<app, got, sends>>
  BY DEF Heartbeat
<1> QED
  BY <1>1, <1>2, FlushesKeepRequests

LEMMA InitRequests == Init => SendInv
<1> SUFFICES ASSUME Init PROVE SendInv
  OBVIOUS
<1>1. client.queue = <<>> /\ tasks = <<>> /\ got = <<>> /\ app.pc = "idle"
  BY DEF Init, AppIdle
<1>2. RequestInv
  BY <1>1 DEF RequestInv, Apart, Distinct, DistinctTasks, Numbered, InSend
<1> QED
  BY <1>2, InitType DEF SendInv

LEMMA NextKeepsRequests ==
  ASSUME SendInv, [Next]_vars
  PROVE  SendInv'
<1>1. CASE Episode \/ CleanUp
  BY <1>1, EpisodeKeepsRequests
<1>2. CASE RunTask
  BY <1>2, RunTaskKeepsRequests
<1>3. CASE Heartbeat
  BY <1>3, HeartbeatKeepsRequests
<1>4. CASE AppSteps
  BY <1>4, AppKeepsRequests DEF AppSteps
<1>5. CASE Frames \/ Errors
  BY <1>5, SocketsKeepRequests DEF Frames, Errors
<1>6. CASE Environment
  BY <1>6, AppKeepsRequests, SendOnIoKeepsRequests, SocketsKeepRequests DEF Environment
<1>7. CASE UNCHANGED vars
  BY <1>7 DEF vars, SendInv, TypeInv, RequestInv, InSend
<1> QED
  BY <1>1, <1>2, <1>3, <1>4, <1>5, <1>6, <1>7 DEF Next

\* Whatever the application, the heartbeat, a resume and the I/O thread do
\* between each other's locks, a request is in one place: Send, FlushQueue and
\* the failure path of Send never leave it in the queue and with a coroutine,
\* or with two, and the server never gets it twice.
THEOREM RequestsNeverTwice == Spec => []NeverTwice
<1>1. Init => SendInv
  BY InitRequests
<1>2. SendInv /\ [Next]_vars => SendInv'
  BY NextKeepsRequests
<1>3. SendInv => NeverTwice
  BY ApartIsNeverTwice DEF SendInv
<1> QED
  BY <1>1, <1>2, <1>3, PTL DEF Spec

-----------------------------------------------------------------------------
(* Events in order: what reading, keeping and delivering does to the numbers *)

\* The rest of what is to be read on a socket.
LEMMA ComingTail ==
  ASSUME NEW h \in Seq(Nat), NEW b \in Seq(Event), NEW s \in Seq(Frame), NEW n \in Nat,
         s # <<>>, Coming(h, b, s, n)
  PROVE  Coming(h, b, Tail(s), n)
<1> DEFINE u == Tail(s)
<1>1. \A i \in DOMAIN u : i \in Nat /\ i + 1 \in DOMAIN s /\ u[i] = s[i + 1]
  OBVIOUS
<1> HIDE DEF u
<1>2. Rising(u)
  <2> SUFFICES ASSUME NEW i \in DOMAIN u, NEW j \in DOMAIN u, i < j, IsEvent(u[i]), IsEvent(u[j])
               PROVE  u[i][2] < u[j][2]
    BY DEF Rising
  <2>1. i + 1 \in DOMAIN s /\ j + 1 \in DOMAIN s /\ i + 1 < j + 1
    BY <1>1
  <2> QED
    BY <1>1, <2>1 DEF Coming, Rising
<1>3. Bounded(u, n)
  BY <1>1 DEF Coming, Bounded
<1>4. Before(h, u)
  BY <1>1 DEF Coming, Before
<1>5. Precedes(b, u)
  BY <1>1 DEF Coming, Precedes
<1> QED
  BY <1>2, <1>3, <1>4, <1>5 DEF Coming, u

\* The first event to be read comes after all that was kept or heard, and
\* before the rest.
LEMMA FirstEvent ==
  ASSUME NEW h \in Seq(Nat), NEW b \in Seq(Event), NEW s \in Seq(Frame), NEW n \in Nat,
         s # <<>>, Coming(h, b, s, n), IsEvent(s[1])
  PROVE  /\ s[1] \in Event /\ s[1][2] \in Nat /\ s[1][2] <= n
         /\ \A i \in DOMAIN h : h[i] < s[1][2]
         /\ \A i \in DOMAIN b : b[i][2] < s[1][2]
         /\ \A j \in DOMAIN Tail(s) : IsEvent(Tail(s)[j]) => s[1][2] < Tail(s)[j][2]
<1>1. 1 \in DOMAIN s /\ s[1] \in Frame
  OBVIOUS
<1>2. s[1] \in Event /\ s[1][2] \in Nat
  BY <1>1 DEF Frame, Event, IsEvent
<1>3. s[1][2] <= n /\ \A i \in DOMAIN h : h[i] < s[1][2]
  BY <1>1 DEF Coming, Bounded, Before
<1>4. \A i \in DOMAIN b : b[i] \in Event
  OBVIOUS
<1>5. \A i \in DOMAIN b : IsEvent(b[i])
  BY <1>4 DEF Event, IsEvent
<1>6. \A i \in DOMAIN b : b[i][2] < s[1][2]
  BY <1>1, <1>5 DEF Coming, Precedes
<1>7. \A j \in DOMAIN Tail(s) : j \in Nat /\ j > 0 /\ j + 1 \in DOMAIN s /\ Tail(s)[j] = s[j + 1]
  OBVIOUS
<1>8. ASSUME NEW j \in DOMAIN Tail(s), IsEvent(Tail(s)[j])
      PROVE  s[1][2] < Tail(s)[j][2]
  <2>1. j + 1 \in DOMAIN s /\ Tail(s)[j] = s[j + 1] /\ 1 < j + 1
    BY <1>7
  <2> QED
    BY <1>1, <1>8, <2>1 DEF Coming, Rising
<1> QED
  BY <1>2, <1>3, <1>6, <1>8

\* An event is given to the Room when nothing is kept.
LEMMA GiveInOrder ==
  ASSUME NEW h \in Seq(Nat), NEW s \in Seq(Frame), NEW n \in Nat, s # <<>>,
         Kept(h, <<>>, n), Coming(h, <<>>, s, n), IsEvent(s[1])
  PROVE  /\ Kept(Append(h, s[1][2]), <<>>, n)
         /\ Coming(Append(h, s[1][2]), <<>>, Tail(s), n)
<1>1. <<>> \in Seq(Event) /\ DOMAIN <<>> = {}
  OBVIOUS
<1>2. PICK e \in Nat : e = s[1][2]
  BY <1>1, FirstEvent
<1>3. /\ e <= n /\ \A i \in DOMAIN h : h[i] < e
      /\ \A j \in DOMAIN Tail(s) : IsEvent(Tail(s)[j]) => e < Tail(s)[j][2]
  BY <1>1, <1>2, FirstEvent
<1>4. Coming(h, <<>>, Tail(s), n)
  BY <1>1, ComingTail
<1> DEFINE g == Append(h, e)
<1>5. /\ Len(h) \in Nat /\ DOMAIN h = 1..Len(h)
      /\ \A i \in DOMAIN g :
           /\ i \in Nat
           /\ (i \in DOMAIN h /\ g[i] = h[i]) \/ (i = Len(h) + 1 /\ g[i] = e)
  OBVIOUS
<1> HIDE DEF g
<1>6. Heard(g, n)
  <2>1. \A i \in DOMAIN g : g[i] <= n
    BY <1>3, <1>5 DEF Kept, Heard
  <2>2. \A i, j \in DOMAIN g : i < j => g[i] < g[j]
    BY <1>3, <1>5 DEF Kept, Heard
  <2> QED
    BY <2>1, <2>2 DEF Heard
<1>7. Before(g, Tail(s))
  BY <1>3, <1>4, <1>5 DEF Coming, Before
<1>8. Kept(g, <<>>, n)
  BY <1>6 DEF Kept, Rising, Bounded, Before
<1>9. Coming(g, <<>>, Tail(s), n)
  BY <1>4, <1>7 DEF Coming
<1> QED
  BY <1>2, <1>8, <1>9 DEF g

\* An event is kept behind the others.
LEMMA KeepInOrder ==
  ASSUME NEW h \in Seq(Nat), NEW b \in Seq(Event), NEW s \in Seq(Frame), NEW n \in Nat,
         s # <<>>, Kept(h, b, n), Coming(h, b, s, n), IsEvent(s[1])
  PROVE  /\ Kept(h, Append(b, s[1]), n)
         /\ Coming(h, Append(b, s[1]), Tail(s), n)
<1>1. PICK m \in Event : m = s[1]
  BY FirstEvent
<1>2. /\ m[2] \in Nat /\ m[2] <= n /\ \A i \in DOMAIN h : h[i] < m[2]
      /\ \A i \in DOMAIN b : b[i][2] < m[2]
      /\ \A j \in DOMAIN Tail(s) : IsEvent(Tail(s)[j]) => m[2] < Tail(s)[j][2]
  BY <1>1, FirstEvent
<1>3. Coming(h, b, Tail(s), n)
  BY ComingTail
<1> DEFINE d == Append(b, m)
<1>4. /\ Len(b) \in Nat /\ DOMAIN b = 1..Len(b)
      /\ \A i \in DOMAIN d :
           /\ i \in Nat
           /\ (i \in DOMAIN b /\ d[i] = b[i]) \/ (i = Len(b) + 1 /\ d[i] = m)
  OBVIOUS
<1> HIDE DEF d
<1>5. Rising(d)
  BY <1>2, <1>4 DEF Kept, Rising
<1>6. Bounded(d, n)
  BY <1>2, <1>4 DEF Kept, Bounded
<1>7. Before(h, d)
  BY <1>2, <1>4 DEF Kept, Before
<1>8. Precedes(d, Tail(s))
  BY <1>2, <1>3, <1>4 DEF Coming, Precedes
<1> QED
  BY <1>1, <1>3, <1>5, <1>6, <1>7, <1>8 DEF Kept, Coming, d

\* SetEventReady delivers all that was kept.
LEMMA DeliverInOrder ==
  ASSUME NEW h \in Seq(Nat), NEW b \in Seq(Event), NEW n \in Nat, Kept(h, b, n)
  PROVE  LET g == h \o [i \in 1..Len(b) |-> b[i][2]]
         IN  /\ Kept(g, <<>>, n)
             /\ \A s \in Seq(Frame) : Coming(h, b, s, n) => Coming(g, <<>>, s, n)
<1> DEFINE e == [i \in 1..Len(b) |-> b[i][2]]
           g == h \o e
<1>1. /\ Len(b) \in Nat /\ DOMAIN b = 1..Len(b) /\ \A i \in DOMAIN b : b[i] \in Event
      /\ Len(h) \in Nat /\ DOMAIN h = 1..Len(h)
  OBVIOUS
<1>2. \A i \in DOMAIN b : IsEvent(b[i]) /\ b[i][2] \in Nat
  BY <1>1 DEF Event, IsEvent
<1>3. e \in Seq(Nat) /\ Len(e) = Len(b) /\ \A i \in DOMAIN b : e[i] = b[i][2]
  BY <1>1, <1>2
<1> HIDE DEF e
<1>4. \A i \in DOMAIN g :
           /\ i \in Nat
           /\ \/ i \in DOMAIN h /\ g[i] = h[i]
              \/ i - Len(h) \in DOMAIN b /\ g[i] = b[i - Len(h)][2] /\ i > Len(h)
  BY <1>1, <1>3
<1> HIDE DEF g
<1>5. \A i \in DOMAIN g : g[i] <= n
  BY <1>2, <1>4 DEF Kept, Heard, Bounded
<1>6. \A i, j \in DOMAIN g : i < j => g[i] < g[j]
  <2> SUFFICES ASSUME NEW i \in DOMAIN g, NEW j \in DOMAIN g, i < j PROVE g[i] < g[j]
    OBVIOUS
  <2>1. CASE i \in DOMAIN h /\ g[i] = h[i]
    <3>1. CASE j \in DOMAIN h /\ g[j] = h[j]
      BY <2>1, <3>1 DEF Kept, Heard
    <3>2. CASE j - Len(h) \in DOMAIN b /\ g[j] = b[j - Len(h)][2]
      BY <1>2, <2>1, <3>2 DEF Kept, Before
    <3> QED
      BY <1>4, <3>1, <3>2
  <2>2. CASE i - Len(h) \in DOMAIN b /\ g[i] = b[i - Len(h)][2] /\ i > Len(h)
    <3>1. i - Len(h) < j - Len(h) /\ j - Len(h) \in DOMAIN b /\ g[j] = b[j - Len(h)][2]
      BY <1>1, <1>4, <2>2
    <3> QED
      BY <1>2, <2>2, <3>1 DEF Kept, Rising
  <2> QED
    BY <1>4, <2>1, <2>2
<1>7. Kept(g, <<>>, n)
  BY <1>5, <1>6 DEF Kept, Heard, Rising, Bounded, Before
<1>8. ASSUME NEW s \in Seq(Frame), Coming(h, b, s, n) PROVE Coming(g, <<>>, s, n)
  <2>1. Before(g, s)
    BY <1>2, <1>4, <1>8 DEF Coming, Before, Precedes
  <2> QED
    BY <1>8, <2>1 DEF Coming, Precedes
<1> QED
  BY <1>7, <1>8 DEF g, e

\* A message more than all before, and frames that are none.
LEMMA SayInOrder ==
  ASSUME NEW h \in Seq(Nat), NEW b \in Seq(Event), NEW s \in Seq(Frame), NEW n \in Nat,
         NEW k \in Nat, k >= n, NEW f \in Seq(Frame),
         \A i \in DOMAIN f : IsEvent(f[i]) => i = 1 /\ f[i][2] = k /\ k = n + 1,
         Kept(h, b, n), Coming(h, b, s, n)
  PROVE  Kept(h, b, k) /\ Coming(h, b, s \o f, k)
<1> DEFINE u == s \o f
<1>1. /\ Len(s) \in Nat /\ DOMAIN s = 1..Len(s)
      /\ \A i \in DOMAIN u :
           /\ i \in Nat
           /\ \/ i \in DOMAIN s /\ u[i] = s[i]
              \/ i - Len(s) \in DOMAIN f /\ u[i] = f[i - Len(s)] /\ i > Len(s)
  OBVIOUS
<1>2. /\ \A i \in DOMAIN h : h[i] \in Nat
      /\ \A i \in DOMAIN b : b[i] \in Event
      /\ \A i \in DOMAIN s : s[i] \in Frame
  OBVIOUS
<1>3. /\ \A i \in DOMAIN b : b[i][2] \in Nat
      /\ \A i \in DOMAIN s : s[i][2] \in Nat
  BY <1>2 DEF Event, Frame
<1> HIDE DEF u
<1>4. Kept(h, b, k)
  <2>1. \A i \in DOMAIN h : h[i] <= k
    BY <1>2 DEF Kept, Heard
  <2>2. Bounded(b, k)
    BY <1>3 DEF Kept, Bounded
  <2> QED
    BY <2>1, <2>2 DEF Kept, Heard
<1>5. \A i \in DOMAIN u : IsEvent(u[i]) =>
        \/ i \in DOMAIN s /\ u[i] = s[i]
        \/ i = Len(s) + 1 /\ u[i][2] = n + 1 /\ k = n + 1
  <2> SUFFICES ASSUME NEW i \in DOMAIN u, IsEvent(u[i]), ~(i \in DOMAIN s /\ u[i] = s[i])
               PROVE  i = Len(s) + 1 /\ u[i][2] = n + 1 /\ k = n + 1
    OBVIOUS
  <2>1. i - Len(s) \in DOMAIN f /\ u[i] = f[i - Len(s)] /\ i \in Nat
    BY <1>1
  <2>2. i - Len(s) = 1 /\ u[i][2] = k /\ k = n + 1
    BY <2>1
  <2> QED
    BY <1>1, <2>1, <2>2
<1>6. Bounded(u, k)
  <2> SUFFICES ASSUME NEW i \in DOMAIN u, IsEvent(u[i]) PROVE u[i][2] <= k
    BY DEF Bounded
  <2>1. CASE i \in DOMAIN s /\ u[i] = s[i]
    <3>1. s[i][2] <= n /\ s[i][2] \in Nat
      BY <1>3, <2>1 DEF Coming, Bounded
    <3> QED
      BY <2>1, <3>1
  <2>2. CASE u[i][2] = n + 1 /\ k = n + 1
    BY <2>2
  <2> QED
    BY <1>5, <2>1, <2>2
<1>7. Rising(u)
  <2> SUFFICES ASSUME NEW i \in DOMAIN u, NEW j \in DOMAIN u, i < j, IsEvent(u[i]), IsEvent(u[j])
               PROVE  u[i][2] < u[j][2]
    BY DEF Rising
  <2>1. i \in DOMAIN s /\ u[i] = s[i]
    <3> SUFFICES ASSUME i = Len(s) + 1 PROVE FALSE
      BY <1>5
    <3>1. j \in Nat /\ j \notin DOMAIN s /\ j # Len(s) + 1
      BY <1>1
    <3> QED
      BY <1>5, <3>1
  <2>2. CASE j \in DOMAIN s /\ u[j] = s[j]
    BY <2>1, <2>2 DEF Coming, Rising
  <2>3. CASE u[j][2] = n + 1
    BY <1>3, <2>1, <2>3 DEF Coming, Bounded
  <2> QED
    BY <1>5, <2>2, <2>3
<1>8. Before(h, u)
  BY <1>2, <1>5 DEF Coming, Before, Kept, Heard
<1>9. Precedes(b, u)
  BY <1>3, <1>5 DEF Coming, Precedes, Kept, Bounded
<1> QED
  BY <1>4, <1>6, <1>7, <1>8, <1>9 DEF Coming, u

-----------------------------------------------------------------------------
(* What each action does to the sockets and the events *)

\* The fields the lemmas above speak of have the types they ask for.
LEMMA EventTypes ==
  ASSUME TypeInv
  PROVE  /\ heard \in Seq(Nat) /\ client.buffer \in Seq(Event) /\ said \in Nat
         /\ conns \in Seq(Conn) /\ DOMAIN conns = 1..Len(conns) /\ Len(conns) \in Nat
         /\ \A c \in 1..Len(conns) : conns[c] \in Conn /\ conns[c].inbound \in Seq(Frame)
<1>1. /\ heard \in Seq(Nat) /\ client.buffer \in Seq(Event) /\ said \in Nat
      /\ conns \in Seq(Conn)
  BY DEF TypeInv, ClientState
<1>2. \A c \in 1..Len(conns) : conns[c] \in Conn
  BY <1>1
<1>3. \A c \in 1..Len(conns) : conns[c].inbound \in Seq(Frame)
  BY <1>2 DEF Conn
<1> QED
  BY <1>1, <1>2, <1>3

\* A step that comes to no event, and that brings no socket up.
LEMMA OrderKept ==
  ASSUME TypeInv, OrderInv, UNCHANGED <<heard, said>>, client'.buffer = client.buffer,
         client'.ready => client.ready,
         \A c \in DOMAIN conns' :
           conns'[c].up => /\ c \in DOMAIN conns /\ conns[c].up
                           /\ conns'[c].inbound = conns[c].inbound
  PROVE  OrderInv'
BY DEF OrderInv

\* The one socket that is up is taken down.
LEMMA DownFacts ==
  ASSUME TypeInv, SoleUp, NEW x \in 0..Len(conns),
         x = (IF ep.pc = "wait" THEN ep.c ELSE client.stream)
  PROVE  \A c \in DOMAIN Aborted(conns, x) : ~Aborted(conns, x)[c].up
<1>1. /\ Aborted(conns, x) \in Seq(Conn) /\ Len(Aborted(conns, x)) = Len(conns)
      /\ \A d \in 1..Len(conns) : d # x => Aborted(conns, x)[d] = conns[d]
      /\ x # 0 => ~Aborted(conns, x)[x].up
  BY AbortedFacts DEF TypeInv
<1>2. DOMAIN Aborted(conns, x) = 1..Len(conns) /\ DOMAIN conns = 1..Len(conns)
  BY <1>1 DEF TypeInv
<1> QED
  BY <1>1, <1>2 DEF SoleUp

\* Aborting no stream changes nothing.
LEMMA AbortNone ==
  ASSUME NEW cs PROVE Aborted(cs, 0) = cs
BY DEF Aborted

\* After a step that leaves no socket up.
LEMMA AllDown ==
  ASSUME EventInv, TypeInv', Making', UNCHANGED <<heard, said>>, client'.buffer = client.buffer,
         client'.ready => client.ready, \A c \in DOMAIN conns' : ~conns'[c].up
  PROVE  EventInv'
<1>1. OrderInv'
  BY OrderKept DEF EventInv
<1>2. SoleUp' /\ WaitOnly'
  BY DEF SoleUp, WaitOnly
<1> QED
  BY <1>1, <1>2 DEF EventInv, SocketInv

\* A join or resume fails, or the client is closed: nothing stays up.
LEMMA EndingsKeepEvents ==
  ASSUME EventInv, DialFails \/ WaitFails \/ Unready \/ Drop \/ CleanUp \/ Redirected
  PROVE  EventInv'
<1>1. /\ TypeInv /\ SoleUp /\ Making /\ conns \in Seq(Conn)
      /\ ep.c \in 0..Len(conns) /\ client.stream \in 0..Len(conns)
  BY DEF EventInv, SocketInv, TypeInv
<1>2. TypeInv' /\ SameStores /\ UNCHANGED <<heard, said>>
  BY <1>1, EndingsDo
<1>3. Making' /\ \A c \in DOMAIN conns' : ~conns'[c].up
  <2>1. CASE DialFails
    <3>1. /\ ep'.pc = "none" /\ room' = "gone" /\ conns' = Aborted(conns, client.stream)
      BY <1>1, <2>1, FailedDoes DEF DialFails
    <3>2. ep.pc # "wait"
      BY <2>1 DEF DialFails
    <3> QED
      BY <1>1, <3>1, <3>2, DownFacts DEF Making
  <2>2. CASE Unready
    <3>1. /\ ep'.pc = "none" /\ room' = "gone" /\ conns' = Aborted(conns, client.stream)
      BY <1>1, <2>2, FailedDoes DEF Unready
    <3>2. ep.pc # "wait"
      BY <2>2 DEF Unready
    <3> QED
      BY <1>1, <3>1, <3>2, DownFacts DEF Making
  <2>3. CASE WaitFails
    <3>1. ep.pc = "wait" /\ client.stream = 0 /\ ~client.ready /\ room # "connected"
      BY <1>1, <2>3 DEF WaitFails, Making
    <3>2. /\ Aborted(conns, ep.c) \in Seq(Conn) /\ Len(Aborted(conns, ep.c)) = Len(conns)
      BY <1>1, AbortedFacts
    <3>3. CASE Failed(Aborted(conns, ep.c))
      <4>1. /\ ep'.pc = "none" /\ room' = "gone"
            /\ conns' = Aborted(Aborted(conns, ep.c), client.stream)
        BY <1>1, <2>3, <3>2, <3>3, FailedDoes DEF WaitFails
      <4>2. conns' = Aborted(conns, ep.c)
        BY <3>1, <4>1, AbortNone
      <4> QED
        BY <1>1, <3>1, <4>1, <4>2, DownFacts DEF Making
    <3>4. CASE /\ conns' = Aborted(conns, ep.c)
               /\ ep' = [NoEpisode EXCEPT !.pc = "dial"]
               /\ UNCHANGED <<client, room>>
      <4>1. ep'.pc = "dial"
        BY <1>1, <2>3, <3>4, DialsAgain DEF WaitFails
      <4> QED
        BY <1>1, <3>1, <3>4, <4>1, DownFacts DEF Making
    <3> QED
      BY <2>3, <3>3, <3>4 DEF WaitFails
  <2>4. CASE Redirected
    <3>1. ep.pc = "wait" /\ client.stream = 0 /\ ~client.ready /\ room # "connected"
      BY <1>1, <2>4 DEF Redirected, Making
    <3>2. /\ ep'.pc = "dial" /\ conns' = Aborted(conns, ep.c) /\ UNCHANGED <<client, room>>
      BY <1>1, <2>4, DialsAgain DEF Redirected
    <3> QED
      BY <1>1, <3>1, <3>2, DownFacts DEF Making
  <2>5. CASE Drop
    <3>1. ep.pc # "wait" /\ room' # "connected" /\ ep' = NoEpisode /\ ep'.pc = "none"
      BY <2>5, NoEpisodeType DEF Drop
    <3>2. conns' = Aborted(conns, client.stream)
      BY <2>5 DEF Drop, CloseOnIo
    <3> QED
      BY <1>1, <3>1, <3>2, DownFacts DEF Making
  <2>6. CASE CleanUp
    <3>1. /\ ep.pc \in {"none", "start", "media"} /\ room' # "connected" /\ ep' = ep
      BY <2>6 DEF CleanUp
    <3>2. conns' = Aborted(conns, client.stream)
      BY <2>6 DEF CleanUp, CloseOnIo
    <3> QED
      BY <1>1, <3>1, <3>2, DownFacts DEF Making
  <2> QED
    BY <2>1, <2>2, <2>3, <2>4, <2>5, <2>6
<1> QED
  BY <1>2, <1>3, AllDown DEF SameStores

\* A resume lets go of the stream it finds.
LEMMA RestartKeepsEvents ==
  ASSUME EventInv, Restart \/ StreamClosed
  PROVE  EventInv'
<1>1. /\ TypeInv /\ SoleUp /\ Making /\ WaitOnly /\ OrderInv
      /\ client.stream \in 0..Len(conns)
  BY DEF EventInv, SocketInv, TypeInv
<1>2. CASE Restart
  <2>1. /\ TypeInv' /\ client'.buffer = client.buffer /\ ~client'.ready
        /\ \/ conns' = conns /\ client'.stream = client.stream /\ ep'.pc = "closing"
           \/ /\ conns' = Aborted(conns, client.stream) /\ client'.stream = 0
              /\ ep'.pc = "dial"
    BY <1>1, <1>2, RestartDoes
  <2>2. ep.pc = "start" /\ room' = "reconnecting" /\ UNCHANGED <<heard, said>>
    BY <1>2 DEF Restart
  <2>3. CASE conns' = conns /\ client'.stream = client.stream /\ ep'.pc = "closing"
    <3>1. OrderInv'
      BY <1>1, <2>1, <2>2, <2>3, OrderKept DEF OrderInv
    <3>2. SoleUp' /\ Making' /\ WaitOnly'
      BY <1>1, <2>1, <2>2, <2>3 DEF SoleUp, Making, WaitOnly
    <3> QED
      BY <2>1, <3>1, <3>2 DEF EventInv, SocketInv
  <2>4. CASE /\ conns' = Aborted(conns, client.stream) /\ client'.stream = 0
             /\ ep'.pc = "dial"
    <3>1. Making' /\ \A c \in DOMAIN conns' : ~conns'[c].up
      BY <1>1, <2>1, <2>2, <2>4, DownFacts DEF Making
    <3> QED
      BY <2>1, <2>2, <3>1, AllDown
  <2> QED
    BY <2>1, <2>3, <2>4
<1>3. CASE StreamClosed
  <2>1. /\ TypeInv' /\ SameStores
        /\ conns' = Aborted(conns, client.stream) /\ client'.stream = 0
        /\ ep'.pc = "dial"
    BY <1>1, <1>3, StreamClosedDoes
  <2>2. ep.pc = "closing" /\ room' = room /\ UNCHANGED <<heard, said>>
    BY <1>3 DEF StreamClosed
  <2>3. Making' /\ \A c \in DOMAIN conns' : ~conns'[c].up
    BY <1>1, <2>1, <2>2, DownFacts DEF Making, SameStores
  <2> QED
    BY <2>1, <2>2, <2>3, AllDown DEF SameStores
<1> QED
  BY <1>2, <1>3

LEMMA DialKeepsEvents ==
  ASSUME EventInv, Dial
  PROVE  EventInv'
<1>1. /\ TypeInv /\ SoleUp /\ Making /\ WaitOnly /\ OrderInv
  BY DEF EventInv, SocketInv
<1>2. /\ TypeInv' /\ Len(conns') = Len(conns) + 1
      /\ \A c \in 1..Len(conns) : conns'[c] = conns[c]
      /\ ep'.pc = "wait" /\ ep'.c = Len(conns) + 1
      /\ conns'[Len(conns) + 1].inbound = <<>>
  BY <1>1, DialDoes
<1>3. ep.pc = "dial" /\ UNCHANGED <<client, room, heard, said>>
  BY DEF Dial
<1>4. /\ DOMAIN conns' = 1..(Len(conns) + 1) /\ DOMAIN conns = 1..Len(conns)
      /\ Len(conns) \in Nat /\ client.stream = 0
      /\ \A c \in DOMAIN conns : ~conns[c].up
  BY <1>1, <1>2, <1>3, EventTypes DEF Making, SoleUp, TypeInv
<1>5. \A c \in DOMAIN conns' : conns'[c].up => c = Len(conns) + 1
  BY <1>2, <1>4
<1>6. SoleUp' /\ Making' /\ WaitOnly'
  BY <1>1, <1>2, <1>3, <1>5 DEF SoleUp, Making, WaitOnly
<1>7. OrderInv'
  <2>1. Coming(heard, client.buffer, <<>>, said)
    BY DEF Coming, Rising, Bounded, Before, Precedes
  <2> QED
    BY <1>1, <1>2, <1>3, <1>5, <2>1 DEF OrderInv
<1> QED
  BY <1>2, <1>6, <1>7 DEF EventInv, SocketInv

LEMMA ResponseTakenKeepsEvents ==
  ASSUME EventInv, ResponseTaken
  PROVE  EventInv'
<1>1. /\ TypeInv /\ SoleUp /\ Making /\ WaitOnly /\ OrderInv
  BY DEF EventInv, SocketInv
<1>2. /\ TypeInv' /\ SameStores
      /\ client'.stream = ep.c /\ ep'.pc = "installed"
      /\ ep.c \in 1..Len(conns) /\ Len(conns') = Len(conns)
      /\ \A c \in 1..Len(conns) : /\ conns'[c].up = conns[c].up
                                  /\ conns'[c].inbound = conns[c].inbound
                                  /\ c # ep.c => conns'[c] = conns[c]
      /\ conns'[ep.c].cb = "client"
  BY <1>1, ResponseTakenDoes
<1>3. ep.pc = "wait" /\ UNCHANGED <<room, heard, said>>
  BY DEF ResponseTaken
<1>4. DOMAIN conns' = 1..Len(conns) /\ DOMAIN conns = 1..Len(conns)
  BY <1>1, <1>2, EventTypes DEF TypeInv
<1>5. \A c \in DOMAIN conns' : conns'[c].up => c = ep.c
  BY <1>1, <1>2, <1>3, <1>4 DEF SoleUp
<1>6. SoleUp' /\ Making' /\ WaitOnly'
  BY <1>1, <1>2, <1>3, <1>5 DEF SoleUp, Making, WaitOnly, SameStores
<1>7. OrderInv'
  BY <1>1, <1>2, <1>3, <1>4, OrderKept DEF SameStores
<1> QED
  BY <1>2, <1>6, <1>7 DEF EventInv, SocketInv

LEMMA ReadyKeepsEvents ==
  ASSUME EventInv, Ready
  PROVE  EventInv'
<1>1. /\ TypeInv /\ SoleUp /\ Making /\ WaitOnly /\ OrderInv
  BY DEF EventInv, SocketInv
<1>2. /\ TypeInv' /\ client'.stream = client.stream
      /\ client'.buffer = <<>> /\ ep'.pc = "media" /\ ep.pc = "installed"
      /\ room' # "connected"
      /\ heard' = heard \o [i \in 1..Len(client.buffer) |-> client.buffer[i][2]]
  BY <1>1, ReadyDoes
<1>3. UNCHANGED <<conns, said>>
  BY DEF Ready
<1>4. SoleUp' /\ Making' /\ WaitOnly'
  BY <1>1, <1>2, <1>3 DEF SoleUp, Making, WaitOnly
<1>5. /\ Kept(heard', <<>>, said)
      /\ \A s \in Seq(Frame) : Coming(heard, client.buffer, s, said)
                               => Coming(heard', <<>>, s, said)
  BY <1>1, <1>2, EventTypes, DeliverInOrder DEF OrderInv
<1>6. OrderInv'
  BY <1>1, <1>2, <1>3, <1>5, EventTypes DEF OrderInv
<1> QED
  BY <1>2, <1>4, <1>6 DEF EventInv, SocketInv

\* Where the coroutine and the room are after a step that may report a lost
\* stream: the coroutine goes on, or a connected room starts one.
Reports ==
  /\ \/ ep'.pc = ep.pc /\ ep'.c = ep.c
     \/ ep'.pc = "start" /\ room = "connected"
  /\ room' = "connected" => room = "connected" /\ ep'.pc = ep.pc

\* A step that leaves the sockets and the client's stream alone.
LEMMA StreamKept ==
  ASSUME EventInv, TypeInv', UNCHANGED <<conns, heard, said>>,
         client'.stream = client.stream, client'.buffer = client.buffer,
         client'.ready = client.ready, Reports
  PROVE  EventInv'
<1>1. /\ TypeInv /\ SoleUp /\ Making /\ WaitOnly /\ OrderInv
  BY DEF EventInv, SocketInv
<1>2. OrderInv'
  BY <1>1, OrderKept DEF OrderInv
<1>3. Making'
  BY <1>1 DEF Making, Reports
<1>4. SoleUp' /\ WaitOnly'
  BY <1>1 DEF SoleUp, WaitOnly, Making, Reports
<1> QED
  BY <1>2, <1>3, <1>4 DEF EventInv, SocketInv

LEMMA CommitKeepsEvents ==
  ASSUME EventInv, Commit
  PROVE  EventInv'
<1>1. /\ TypeInv /\ SoleUp /\ Making /\ WaitOnly /\ OrderInv
  BY DEF EventInv, SocketInv
<1>2. TypeInv' /\ ep'.pc = "none" /\ ep.pc = "media"
  BY <1>1, CommitDoes
<1>3. UNCHANGED <<conns, client, heard, said>>
  BY DEF Commit
<1>4. SoleUp' /\ Making' /\ WaitOnly'
  BY <1>1, <1>2, <1>3 DEF SoleUp, Making, WaitOnly
<1>5. OrderInv'
  BY <1>1, <1>3 DEF OrderInv
<1> QED
  BY <1>2, <1>4, <1>5 DEF EventInv, SocketInv

\* Send and Close by the application, Send on the I/O thread, the coroutines
\* and the heartbeat: the sockets change only where Close releases the stream.
LEMMA CallsKeepEvents ==
  ASSUME EventInv,
         \/ \E pass \in BOOLEAN : SendOnIo(pass) \/ AppSends(pass)
         \/ AppQueues \/ AppEntersFlush \/ AppFlushes \/ AppHands \/ AppCloses
         \/ RunTask \/ Heartbeat
  PROVE  EventInv'
<1>1. TypeInv
  BY DEF EventInv
<1>2. ASSUME NEW pass \in BOOLEAN, SendOnIo(pass) PROVE EventInv'
  <2>1. TypeInv' /\ SameStream
    BY <1>1, <1>2, SendOnIoDoes
  <2>2. UNCHANGED <<conns, heard, said, ep, room>>
    BY <1>2 DEF SendOnIo
  <2> QED
    BY <2>1, <2>2, StreamKept DEF SameStream, Reports
<1>3. ASSUME NEW pass \in BOOLEAN, AppSends(pass) PROVE EventInv'
  <2>1. TypeInv'
    BY <1>1, <1>3, AppSendsDoes
  <2>2. UNCHANGED <<client, conns, heard, said, ep, room>>
    BY <1>3 DEF AppSends
  <2> QED
    BY <2>1, <2>2, StreamKept DEF Reports
<1>4. CASE AppQueues
  <2>1. TypeInv' /\ SameStream
    BY <1>1, <1>4, AppQueuesDoes
  <2>2. UNCHANGED <<conns, heard, said, ep, room>>
    BY <1>4 DEF AppQueues
  <2> QED
    BY <2>1, <2>2, StreamKept DEF SameStream, Reports
<1>5. CASE AppEntersFlush
  <2>1. TypeInv'
    BY <1>1, <1>5, AppEntersFlushDoes
  <2>2. UNCHANGED <<client, conns, heard, said, ep, room>>
    BY <1>5 DEF AppEntersFlush
  <2> QED
    BY <2>1, <2>2, StreamKept DEF Reports
<1>6. CASE AppFlushes
  <2>1. TypeInv' /\ SameStream
    BY <1>1, <1>6, AppFlushesDoes
  <2>2. UNCHANGED <<conns, heard, said, ep, room>>
    BY <1>6 DEF AppFlushes
  <2> QED
    BY <2>1, <2>2, StreamKept DEF SameStream, Reports
<1>7. CASE AppHands
  <2>1. TypeInv' /\ SameStream
    BY <1>1, <1>7, AppHandsDoes
  <2>2. UNCHANGED <<conns, heard, said, ep, room>>
    BY <1>7 DEF AppHands
  <2> QED
    BY <2>1, <2>2, StreamKept DEF SameStream, Reports
<1>8. CASE AppCloses
  <2>1. TypeInv' /\ SameStores /\ client'.stream = client.stream /\ room' = "gone"
    BY <1>1, <1>8, AppClosesDoes
  <2>2. UNCHANGED <<conns, heard, said, ep>>
    BY <1>8 DEF AppCloses
  <2> QED
    BY <2>1, <2>2, StreamKept DEF SameStores, Reports
<1>9. CASE RunTask
  <2>1. TypeInv'
    BY <1>1, <1>9, RunTaskDoes
  <2>2. UNCHANGED <<client, conns, heard, said, ep, room>>
    BY <1>9 DEF RunTask
  <2> QED
    BY <2>1, <2>2, StreamKept DEF Reports
<1>10. CASE Heartbeat
  <2>1. /\ TypeInv' /\ SameStream
        /\ ep' = ep \/ (ep'.pc = "start" /\ ep'.c = 0 /\ room = "connected")
        /\ room' = "connected" => room = "connected" /\ ep' = ep
    BY <1>1, <1>10, HeartbeatDoes
  <2>2. UNCHANGED <<conns, heard, said>>
    BY <1>10 DEF Heartbeat
  <2> QED
    BY <2>1, <2>2, StreamKept DEF SameStream, Reports
<1> QED
  BY <1>2, <1>3, <1>4, <1>5, <1>6, <1>7, <1>8, <1>9, <1>10

\* A socket that is waited for stays up when Close finds no stream.
LEMMA AppReleasesKeepsEvents ==
  ASSUME EventInv, AppReleases
  PROVE  EventInv'
<1>1. /\ TypeInv /\ SoleUp /\ Making /\ WaitOnly /\ OrderInv
      /\ client.stream \in 0..Len(conns)
  BY DEF EventInv, SocketInv, TypeInv
<1>2. /\ TypeInv' /\ SameStores
      /\ conns' = Aborted(conns, client.stream) /\ client'.stream = 0
  BY <1>1, AppReleasesDoes
<1>3. UNCHANGED <<ep, room, heard, said>>
  BY DEF AppReleases
<1>4. CASE ep.pc = "wait"
  <2>1. client.stream = 0 /\ conns' = conns
    BY <1>1, <1>2, <1>4, AbortNone DEF Making
  <2> QED
    BY <1>2, <1>3, <2>1, StreamKept DEF SameStores, Reports
<1>5. CASE ep.pc # "wait"
  <2>1. Making' /\ \A c \in DOMAIN conns' : ~conns'[c].up
    BY <1>1, <1>2, <1>3, <1>5, DownFacts DEF Making, SameStores
  <2> QED
    BY <1>2, <1>3, <2>1, AllDown DEF SameStores
<1> QED
  BY <1>4, <1>5

\* A step of the socket that is up, after which its events, the kept ones and
\* the heard ones are in order.
LEMMA SocketKeepsEvents ==
  ASSUME EventInv, NEW c \in 1..Len(conns), NEW in, SocketStep(c, in), TypeInv',
         conns[c].up, Reports, client'.stream = client.stream, client'.ready = client.ready,
         client'.ready => client'.buffer = <<>>,
         Kept(heard', client'.buffer, said'), Coming(heard', client'.buffer, in, said')
  PROVE  EventInv'
<1>1. /\ TypeInv /\ SoleUp /\ Making /\ WaitOnly /\ OrderInv
  BY DEF EventInv, SocketInv
<1>2. DOMAIN conns' = 1..Len(conns) /\ DOMAIN conns = 1..Len(conns)
  BY <1>1, EventTypes DEF SocketStep
<1>3. \A d \in DOMAIN conns' : conns'[d].up => d = c
  BY <1>1, <1>2 DEF SoleUp, SocketStep
<1>4. c = (IF ep.pc = "wait" THEN ep.c ELSE client.stream)
  BY <1>1, <1>2 DEF SoleUp
<1>5. Making'
  BY <1>1 DEF Making, Reports
<1>6. SoleUp'
  BY <1>1, <1>3, <1>4 DEF SoleUp, Making, Reports
<1>7. WaitOnly'
  <2>1. conns[c].cb = "wait" => ep.pc = "wait"
    BY <1>1, <1>2 DEF WaitOnly
  <2>2. conns'[c].cb = "wait" => ep'.pc = "wait"
    BY <1>1, <2>1 DEF SocketStep, Making, Reports
  <2> QED
    BY <1>3, <2>2 DEF WaitOnly
<1>8. OrderInv'
  BY <1>2, <1>3 DEF OrderInv, SocketStep
<1> QED
  BY <1>5, <1>6, <1>7, <1>8 DEF EventInv, SocketInv

\* The server and the network on the one socket that is up.
LEMMA ServerKeepsEvents ==
  ASSUME EventInv, NEW c \in 1..Len(conns),
         ServerAnswers(c) \/ ServerSays(c) \/ ServerCloses(c) \/ Dies(c)
  PROVE  EventInv'
<1>1. TypeInv /\ OrderInv /\ c \in DOMAIN conns
  BY EventTypes DEF EventInv
<1>2. /\ conns[c].up
      /\ UNCHANGED <<client, heard, ep, room>>
  BY DEF ServerAnswers, ServerSays, ServerCloses, Server, Dies
<1>3. /\ Kept(heard, client.buffer, said)
      /\ Coming(heard, client.buffer, conns[c].inbound, said)
      /\ client.ready => client.buffer = <<>>
  BY <1>1, <1>2 DEF OrderInv
<1>4. /\ heard \in Seq(Nat) /\ client.buffer \in Seq(Event) /\ said \in Nat
      /\ conns[c].inbound \in Seq(Frame)
  BY <1>1, EventTypes
<1>5. CASE ServerAnswers(c) \/ ServerCloses(c)
  <2>1. TypeInv' /\ said' = said
    BY <1>1, <1>5, ServerEndsDoes
  <2>2. PICK kind \in {"response", "close"} :
               SocketStep(c, conns[c].inbound \o <<<<kind, 0>>>>)
    BY <1>1, <1>5, ServerEndsDoes
  <2> DEFINE f == <<<<kind, 0>>>>
  <2>3. f \in Seq(Frame)
    <3>1. <<kind, 0>> \in Frame
      BY DEF Frame
    <3> QED
      BY <3>1
  <2>4. \A i \in DOMAIN f : IsEvent(f[i]) => i = 1 /\ f[i][2] = said /\ said = said + 1
    BY DEF IsEvent
  <2> HIDE DEF f
  <2>5. said >= said
    BY <1>4
  <2>6. Coming(heard, client.buffer, conns[c].inbound \o f, said)
    BY <1>3, <1>4, <2>3, <2>4, <2>5, SayInOrder
  <2>7. SocketStep(c, conns[c].inbound \o f)
    BY <2>2 DEF f
  <2> QED
    BY <1>2, <1>3, <2>1, <2>6, <2>7, SocketKeepsEvents DEF Reports
<1>6. CASE ServerSays(c)
  <2>1. TypeInv' /\ said' = said + 1
    BY <1>1, <1>6, ServerSaysDoes
  <2>2. PICK kind \in {"update", "leave"}, rest \in {<<>>, <<<<"close", 0>>>>} :
               SocketStep(c, conns[c].inbound \o (<<<<kind, said + 1>>>> \o rest))
    BY <1>1, <1>6, ServerSaysDoes
  <2>3. PICK n \in Nat : n = said + 1
    BY <1>4
  <2> DEFINE f == <<<<kind, n>>>> \o rest
  <2>4. f \in Seq(Frame)
    <3>1. <<kind, n>> \in Frame /\ <<"close", 0>> \in Frame
      BY DEF Frame
    <3>2. /\ \A x \in Frame : <<x>> \in Seq(Frame)
          /\ <<>> \in Seq(Frame)
      OBVIOUS
    <3>3. <<<<kind, n>>>> \in Seq(Frame) /\ rest \in Seq(Frame)
      BY <3>1, <3>2
    <3> QED
      BY <3>3
  <2>5. \A i \in DOMAIN f : IsEvent(f[i]) => i = 1 /\ f[i][2] = n /\ n = said + 1
    <3>1. CASE rest = <<>>
      <4>1. Len(f) = 1 /\ f[1] = <<kind, n>>
        BY <3>1
      <4>2. DOMAIN f = 1..1
        BY <2>4, <4>1
      <4> QED
        BY <2>3, <4>1, <4>2 DEF IsEvent
    <3>2. CASE rest = <<<<"close", 0>>>>
      <4>1. Len(f) = 2 /\ f[1] = <<kind, n>> /\ f[2] = <<"close", 0>>
        BY <3>2
      <4>2. DOMAIN f = 1..2
        BY <2>4, <4>1
      <4> QED
        BY <2>3, <4>1, <4>2 DEF IsEvent
    <3> QED
      BY <3>1, <3>2
  <2> HIDE DEF f
  <2>8. n >= said
    BY <1>4, <2>3
  <2>6. /\ Kept(heard, client.buffer, n)
        /\ Coming(heard, client.buffer, conns[c].inbound \o f, n)
    BY <1>3, <1>4, <2>3, <2>4, <2>5, <2>8, SayInOrder
  <2>7. SocketStep(c, conns[c].inbound \o f) /\ said' = n
    BY <2>1, <2>2, <2>3 DEF f
  <2> QED
    BY <1>2, <1>3, <2>1, <2>6, <2>7, SocketKeepsEvents DEF Reports
<1>7. CASE Dies(c)
  <2>1. TypeInv' /\ SocketStep(c, <<>>) /\ said' = said
    BY <1>1, <1>7, DiesDoes DEF Dies
  <2>2. Coming(heard, client.buffer, <<>>, said)
    BY DEF Coming, Rising, Bounded, Before, Precedes
  <2> QED
    BY <1>2, <1>3, <2>1, <2>2, SocketKeepsEvents DEF Reports
<1> QED
  BY <1>5, <1>6, <1>7

\* The read loop of the one socket that is up.
LEMMA ReadKeepsEvents ==
  ASSUME EventInv, NEW c \in 1..Len(conns), Read(c) \/ ReadError(c)
  PROVE  EventInv'
<1>1. TypeInv /\ OrderInv /\ Making /\ WaitOnly /\ c \in DOMAIN conns
  BY EventTypes DEF EventInv, SocketInv
<1>2. conns[c].up /\ said' = said
  BY DEF Read, ReadError
<1> DEFINE s == conns[c].inbound
           m == s[1]
<1>3. /\ Kept(heard, client.buffer, said)
      /\ Coming(heard, client.buffer, s, said)
      /\ client.ready => client.buffer = <<>>
  BY <1>1, <1>2 DEF OrderInv
<1>4. /\ heard \in Seq(Nat) /\ client.buffer \in Seq(Event) /\ said \in Nat
      /\ s \in Seq(Frame)
  BY <1>1, EventTypes
<1>5. CASE ReadError(c)
  <2>1. TypeInv' /\ SocketStep(c, s) /\ CloseEffect
    BY <1>1, <1>5, ReadErrorDoes
  <2> HIDE DEF s
  <2> QED
    BY <1>2, <1>3, <2>1, SocketKeepsEvents DEF CloseEffect, SameStores, Reports
<1>6. CASE Read(c)
  <2>1. /\ TypeInv' /\ s # <<>> /\ SocketStep(c, Tail(s))
        /\ \/ CloseEffect
           \/ TakesEffect
           \/ GivesEffect(m)
           \/ (~client.ready \/ conns[c].cb = "wait") /\ KeepsEffect(m)
    BY <1>1, <1>6, ReadDoes
  <2> HIDE DEF s
  <2>2. Coming(heard, client.buffer, Tail(s), said)
    BY <1>3, <1>4, <2>1, ComingTail
  <2>3. CASE CloseEffect
    BY <1>2, <1>3, <2>1, <2>2, <2>3, SocketKeepsEvents DEF CloseEffect, SameStores, Reports
  <2>4. CASE TakesEffect
    BY <1>2, <1>3, <2>1, <2>2, <2>4, SocketKeepsEvents DEF TakesEffect, Reports
  <2>5. CASE GivesEffect(m)
    <3>1. /\ client.buffer = <<>> /\ client' = client /\ heard' = Append(heard, m[2])
          /\ Reports /\ IsEvent(m)
      BY <1>3, <2>5 DEF GivesEffect, Reports
    <3>2. Kept(heard', <<>>, said) /\ Coming(heard', <<>>, Tail(s), said)
      BY <1>3, <1>4, <2>1, <3>1, GiveInOrder
    <3> QED
      BY <1>2, <2>1, <3>1, <3>2, SocketKeepsEvents
  <2>6. CASE (~client.ready \/ conns[c].cb = "wait") /\ KeepsEffect(m)
    <3>1. ~client.ready
      BY <1>1, <1>2, <2>6 DEF Making, WaitOnly
    <3>2. /\ client'.buffer = Append(client.buffer, m) /\ heard' = heard
          /\ client'.stream = client.stream /\ client'.ready = client.ready
          /\ Reports /\ IsEvent(m)
      BY <2>6 DEF KeepsEffect, Reports
    <3>3. Kept(heard', client'.buffer, said) /\ Coming(heard', client'.buffer, Tail(s), said)
      BY <1>3, <1>4, <2>1, <3>2, KeepInOrder
    <3> QED
      BY <1>2, <2>1, <3>1, <3>2, <3>3, SocketKeepsEvents
  <2> QED
    BY <2>1, <2>3, <2>4, <2>5, <2>6
<1> QED
  BY <1>5, <1>6

LEMMA InitEvents == Init => EventInv
<1> SUFFICES ASSUME Init PROVE EventInv
  OBVIOUS
<1>1. /\ conns = <<>> /\ heard = <<>> /\ client.buffer = <<>> /\ client.stream = 0
      /\ ~client.ready /\ room = "connecting"
  BY DEF Init
<1>2. SocketInv
  BY <1>1 DEF SocketInv, SoleUp, Making, WaitOnly
<1>3. OrderInv
  BY <1>1 DEF OrderInv, Kept, Heard, Rising, Bounded, Before
<1> QED
  BY <1>2, <1>3, InitType DEF EventInv

LEMMA NextKeepsEvents ==
  ASSUME EventInv, [Next]_vars
  PROVE  EventInv'
<1>1. DOMAIN conns = 1..Len(conns)
  BY DEF EventInv, TypeInv
<1>2. CASE Episode \/ CleanUp
  BY <1>2, EndingsKeepEvents, RestartKeepsEvents, DialKeepsEvents, ResponseTakenKeepsEvents,
     ReadyKeepsEvents, CommitKeepsEvents DEF Episode
<1>3. CASE RunTask \/ Heartbeat
  BY <1>3, CallsKeepEvents
<1>4. CASE AppSteps
  BY <1>4, CallsKeepEvents, AppReleasesKeepsEvents DEF AppSteps
<1>5. CASE Frames \/ Errors
  BY <1>1, <1>5, ReadKeepsEvents DEF Frames, Errors
<1>6. CASE Environment
  BY <1>1, <1>6, CallsKeepEvents, ServerKeepsEvents DEF Environment
<1>7. CASE UNCHANGED vars
  BY <1>7 DEF vars, EventInv, TypeInv, SocketInv, SoleUp, Making, WaitOnly, OrderInv
<1> QED
  BY <1>2, <1>3, <1>4, <1>5, <1>6, <1>7 DEF Next

\* Whatever streams are lost, replaced or given up, and whatever waits in
\* buffered_events_ meanwhile, the Room is given the messages of the server in
\* the order they were said and none of them twice.
THEOREM EventsStayInOrder == Spec => []EventsInOrder
<1>1. Init => EventInv
  BY InitEvents
<1>2. EventInv /\ [Next]_vars => EventInv'
  BY NextKeepsEvents
<1>3. EventInv => EventsInOrder
  BY DEF EventInv, OrderInv, Kept, Heard, EventsInOrder
<1> QED
  BY <1>1, <1>2, <1>3, PTL DEF Spec

\* At most one of the client's sockets is up: the one a join or resume waits
\* for, or the stream of the client.
THEOREM OneSocketAtATime ==
  Spec => [](\A c, d \in DOMAIN conns : conns[c].up /\ conns[d].up => c = d)
<1>1. Init => EventInv
  BY InitEvents
<1>2. EventInv /\ [Next]_vars => EventInv'
  BY NextKeepsEvents
<1>3. EventInv => \A c, d \in DOMAIN conns : conns[c].up /\ conns[d].up => c = d
  BY DEF EventInv, SocketInv, SoleUp
<1> QED
  BY <1>1, <1>2, <1>3, PTL DEF Spec

=============================================================================
