---------------------------- MODULE RemoteControl ----------------------------
(***************************************************************************)
(* Remote control of a shared desktop: the protocol authority Runtime      *)
(* (src/src/core/remote_control/remote_control.cpp), its wiring to the     *)
(* meeting (meeting_remote_control.cpp) and the native input owner         *)
(* (src/src/platform/win/remote_input.cpp, input_arbitration.h).           *)
(*                                                                         *)
(* Every participant has three actors. The UI thread asks for control,     *)
(* consents, activates, pauses, produces input and stops; it does so by    *)
(* posting to the strand, except that stopping first closes the input      *)
(* backend on the spot. The strand runs the Runtime: the posts, in order,  *)
(* the messages of the peers and a 50 ms tick. The input thread injects    *)
(* what the Runtime submitted and yields to local keyboard and mouse.      *)
(*                                                                         *)
(* The data channel is reliable and ordered. Time appears as Lapse: a      *)
(* session's deadline passes, or whatever else current() asks of the peer, *)
(* of the surface and of the front end stops being true. The ids of        *)
(* requests and grants stand for UUIDs; a request and its grant also fix   *)
(* the track, the share and its epoch. challenge_ is left out: at most one *)
(* Ping of a grant is unanswered at any time. So is the rate limit.        *)
(***************************************************************************)
EXTENDS Integers, Sequences, FiniteSets, Functions

CONSTANTS
  Nodes,       \* the participants of the meeting
  Requesters,  \* bound: those whose users ever ask for control
  None,        \* no participant, no input
  MaxPending,  \* bound: what postRemoteControl queues, 128 in the code
  QueueCap,    \* bound: the input queue of the backend, 64 in the code
  MaxEvents    \* bound: what users do (ask, move or press, change the focus, stop,
               \* interfere) and pings, in any mixture

ASSUME RemoteControlAssumption ==
  /\ Requesters \subseteq Nodes /\ None \notin Nodes
  /\ {MaxPending, QueueCap} \subseteq Nat \ {0} /\ MaxEvents \in Nat

States == {"Idle", "Requesting", "AwaitingConsent", "AwaitingReady", "Controlling",
           "Controlled", "AwaitingActivation"}
HostStates == {"AwaitingConsent", "AwaitingReady", "Controlled"}

VARIABLES
  rt,       \* the Runtime of each participant
  backend,  \* the input backend of each participant
  strand,   \* what the UI thread has posted to each strand
  overflow, \* _remoteOverflow
  net,      \* the data channel from one participant to another, and
            \* what it has delivered to the strand there
  approved, \* the grants each host's user allowed and has not stopped
  locals,   \* how often each participant's own user interfered
  faulty,   \* the participants that have met a protocol error
  ids,      \* how many requests and grants have got an id
  events    \* how much the users and the timer have done (for the bound)

counters == <<ids, events>>
vars == <<rt, backend, strand, overflow, net, approved, locals, faulty, counters>>

(* The members of Runtime that finish resets. revoked: the session's       *)
(* remoteControlEpoch is no longer the one peerCurrent_ was made for.      *)
(* lapsed: anything else current() asks for is gone.                       *)
IdleRuntime ==
  [state |-> "Idle", peer |-> None, req |-> 0, grant |-> 0, tx |-> 0, rx |-> 0,
   ping |-> FALSE, focus |-> 0, pausedHere |-> FALSE, epoch |-> 0, paused |-> TRUE,
   revoked |-> FALSE, lapsed |-> FALSE, starting |-> FALSE]

(* lease is the grant of the valid lease, 0 when there is none. quiet:     *)
(* nothing is held locally and LocalQuietMs have passed.                   *)
FreshBackend ==
  [lease |-> 0, queue |-> <<>>, epoch |-> 0, paused |-> TRUE, remotePaused |-> FALSE,
   quiet |-> TRUE, held |-> FALSE]

Init ==
  /\ rt = [n \in Nodes |-> IdleRuntime]
  /\ backend = [n \in Nodes |-> FreshBackend]
  /\ strand = [n \in Nodes |-> <<>>]
  /\ overflow = [n \in Nodes |-> FALSE]
  /\ net = [c \in Nodes \X Nodes |-> <<>>]
  /\ approved = [n \in Nodes |-> {}]
  /\ locals = [n \in Nodes |-> 0]
  /\ faulty = {}
  /\ ids = 0 /\ events = 0

Act == events < MaxEvents /\ events' = events + 1 /\ UNCHANGED ids

-----------------------------------------------------------------------------
(* Sending and finishing.                                                  *)

Host(r) == r.state \in HostStates

(* Mutant: the Grant takes a number as well.                               *)
NumberedGrant(kind) == kind # "Request"

Numbered(kind) == kind \notin {"Request", "Grant"}

(* The messages of one handler, numbered in the order of sending.          *)
Wire(r, out) ==
  [i \in DOMAIN out |->
     [kind |-> out[i].kind, req |-> r.req, grant |-> r.grant, body |-> out[i].body,
      seq |-> IF Numbered(out[i].kind) THEN r.tx + i ELSE 0]]

Say(kind, body) == <<[kind |-> kind, body |-> body]>>

Link(c, n, r, out) == net' = [c EXCEPT ![<<n, r.peer>>] = @ \o Wire(r, out)]

(* In all of these c is the channel, without the message being handled.    *)

(* finish: the input stops first, the peer is told when notify says so (and *)
(* when sending works), and the Runtime forgets the session.               *)
Finish(c, n, r, b, notify) ==
  /\ rt' = [rt EXCEPT ![n] = IdleRuntime]
  /\ backend' = [backend EXCEPT ![n] = [b EXCEPT !.lease = 0, !.queue = <<>>]]
  /\ UNCHANGED faulty
  /\ \/ notify /\ Link(c, n, r, Say("End", None))
     \/ net' = c

(* A handler that leaves the Runtime in r and the backend in b after       *)
(* sending out. When a send fails the session is over, without a word.     *)
Transmit(c, n, r, b, out) ==
  \/ /\ rt' = [rt EXCEPT ![n] =
                  [r EXCEPT !.tx = @ + Cardinality({i \in DOMAIN out : Numbered(out[i].kind)})]]
     /\ backend' = [backend EXCEPT ![n] = b]
     /\ Link(c, n, r, out)
     /\ UNCHANGED faulty
  \/ /\ out # <<>>
     /\ Finish(c, n, r, b, FALSE)

Ignore(c) == net' = c /\ UNCHANGED <<rt, backend, faulty>>

(* current(): the session still stands. Its lease, when there is one, must *)
(* not have been taken back by the input thread or by the user.            *)
Current(n) ==
  LET r == rt[n] IN
    /\ ~r.revoked /\ ~r.lapsed
    /\ r.state = "Controlled" => backend[n].lease = r.grant

Lapsed(c, n) == Finish(c, n, rt[n], backend[n], TRUE)

-----------------------------------------------------------------------------
(* The native input owner's state.                                         *)

(* Every admission of input has a token (epoch) of its own.                *)
Suspend(b) == [b EXCEPT !.epoch = IF b.paused THEN @ ELSE @ + 1, !.paused = TRUE]

PauseInput(b, value) == [Suspend(b) EXCEPT !.remotePaused = value, !.queue = <<>>]

StartInput(b, g) ==
  [Suspend(b) EXCEPT !.lease = g, !.queue = <<>>, !.remotePaused = FALSE]

(* Mutant: the token is not compared.                                      *)
AcceptsAny(b, epoch) == ~b.paused

Accepts(b, epoch) == ~b.paused /\ epoch = b.epoch

Permits(n) == backend[n].lease # 0 /\ ~rt[n].revoked

(* submit, behind permits: consecutive motion is superseded, never across  *)
(* a key; what does not fit costs the lease.                               *)
Supersedes(b, i) == b.queue # <<>> /\ ~i.key /\ ~b.queue[Len(b.queue)].key

Queue(b, i) ==
  IF Supersedes(b, i) THEN [b EXCEPT !.queue[Len(b.queue)] = i]
                      ELSE [b EXCEPT !.queue = Append(@, i)]

Fits(b, i) == Supersedes(b, i) \/ Len(b.queue) < QueueCap

-----------------------------------------------------------------------------
(* The UI thread. It acts on the last projection and posts to the strand.  *)
(* A post whose only risk on the way is to become void - a request, an     *)
(* answer, an activation, a change of focus - is one step with its closure.*)

Waiting(n, kind) == {i \in DOMAIN strand[n] : strand[n][i].kind = kind}

(* The messages of each peer that wait for the strand of n already; the    *)
(* others are still under way.                                             *)
Arrivals(n) == {k \in [Nodes -> 0 .. MaxPending] : \A p \in Nodes : k[p] <= Len(net[<<p, n>>])}

Pending(n, k) == FoldFunction(+, 0, k) + Cardinality(Waiting(n, "input"))

(* Mutant: the epoch stays.                                                *)
RevokeNothing(n, k) == UNCHANGED <<rt, net>>

(* revokeRemoteControl: what was admitted under the old epoch is void. The *)
(* strand will drop it unread.                                             *)
Revoke(n, k) ==
  /\ rt' = [rt EXCEPT ![n].revoked = rt[n].state # "Idle"]
  /\ net' = [c \in Nodes \X Nodes |->
               IF c[2] = n THEN SubSeq(net[c], k[c[1]] + 1, Len(net[c])) ELSE net[c]]

(* postRemoteControl finds too much waiting: k messages, and input.        *)
Overflows(n, k) == k \in Arrivals(n) /\ Pending(n, k) >= MaxPending

Overflow(n, k) == Revoke(n, k) /\ overflow' = [overflow EXCEPT ![n] = TRUE] /\ UNCHANGED strand

(* A closure of the UI thread other than stop is on the strand.            *)
UiRuns(n) == ~rt[n].starting /\ Waiting(n, "stop") = {}

Request(n, p) ==
  /\ n \in Requesters /\ p # n
  /\ UiRuns(n) /\ rt[n].state = "Idle" /\ ~overflow[n]
  /\ events < MaxEvents /\ events' = events + 1 /\ ids' = ids + 1
  /\ Transmit(net, n,
       [IdleRuntime EXCEPT !.state = "Requesting", !.peer = p, !.req = ids + 1],
       backend[n], Say("Request", None))
  /\ UNCHANGED <<strand, overflow, approved, locals>>

Consent(n, allow) ==
  /\ UiRuns(n) /\ rt[n].state = "AwaitingConsent"
  /\ LET r == [rt[n] EXCEPT !.state = "AwaitingReady", !.grant = ids + 1]
     IN  IF ~Current(n) THEN Lapsed(net, n) /\ UNCHANGED <<approved, counters>>
         ELSE IF ~allow
         THEN /\ Finish(net, n, rt[n], backend[n], TRUE)
              /\ UNCHANGED <<approved, counters>>
         ELSE /\ Transmit(net, n, r, backend[n], Say("Grant", None))
              /\ approved' = [approved EXCEPT ![n] = @ \union {r.grant}]
              /\ ids' = ids + 1 /\ UNCHANGED events
  /\ UNCHANGED <<strand, overflow, locals>>

Activate(n) ==
  /\ UiRuns(n) /\ rt[n].state = "AwaitingActivation"
  /\ IF ~Current(n) THEN Lapsed(net, n)
     ELSE Transmit(net, n, [rt[n] EXCEPT !.state = "Controlling", !.ping = FALSE], backend[n],
                   Say("Ready", None))
  /\ UNCHANGED <<strand, overflow, approved, locals, counters>>

(* The shared video loses or regains the focus. Input that still waits is  *)
(* void (and nothing else waits, see UiRuns), and until the host answers   *)
(* with a new token there is none.                                         *)
Pause(n) ==
  /\ UiRuns(n) /\ rt[n].state = "Controlling"
  /\ Act
  /\ strand' = [strand EXCEPT ![n] = <<>>]
  /\ LET r == [rt[n] EXCEPT !.pausedHere = ~@, !.paused = TRUE, !.focus = @ + 1]
     IN  IF ~Current(n) THEN Lapsed(net, n)
         ELSE Transmit(net, n, r, backend[n],
                       Say(IF r.pausedHere THEN "Pause" ELSE "Resume", r.focus))
  /\ UNCHANGED <<overflow, approved, locals>>

(* The controlling user moves or presses something. local and focus note   *)
(* how often the host's user and the controller's focus had interfered.    *)
MakeInput(n, key) ==
  /\ rt[n].state = "Controlling" /\ ~rt[n].paused /\ ~rt[n].pausedHere
  /\ Act
  /\ \/ /\ \E k \in Arrivals(n) : Pending(n, k) < MaxPending
        /\ strand' = [strand EXCEPT ![n] = Append(@, [kind |-> "input", in |->
             [grant |-> rt[n].grant, epoch |-> rt[n].epoch, key |-> key,
              local |-> locals[rt[n].peer], focus |-> rt[n].focus]])]
        /\ UNCHANGED <<rt, overflow, net>>
     \/ \E k \in [Nodes -> 0 .. MaxPending] : Overflows(n, k) /\ Overflow(n, k)
  /\ UNCHANGED <<backend, approved, locals, faulty>>

(* stopRemoteControl: the epoch, the backend, and then the Runtime.        *)
Stop(n) ==
  /\ Act
  /\ \E k \in Arrivals(n) : Revoke(n, k)
  /\ backend' = [backend EXCEPT ![n].lease = 0, ![n].queue = <<>>]
  /\ strand' = [strand EXCEPT ![n] = Append(@, [kind |-> "stop"])]
  /\ approved' = [approved EXCEPT ![n] = {}]
  /\ UNCHANGED <<overflow, locals, faulty>>

(* One message too many arrives and is lost.                               *)
LoseMessage(p, n) ==
  /\ \E k \in [Nodes -> 0 .. MaxPending] :
       /\ Overflows(n, k) /\ k[p] < Len(net[<<p, n>>])
       /\ Overflow(n, [k EXCEPT ![p] = @ + 1])
  /\ UNCHANGED <<backend, approved, locals, faulty, counters>>

-----------------------------------------------------------------------------
(* The strand: what it runs of the UI's posts, in order.                   *)

Runs(n, kind) ==
  /\ ~rt[n].starting
  /\ strand[n] # <<>> /\ Head(strand[n]).kind = kind
  /\ strand' = [strand EXCEPT ![n] = Tail(@)]
  /\ UNCHANGED <<overflow, approved, locals, counters>>

Input(n) ==
  /\ Runs(n, "input")
  /\ LET i == Head(strand[n]).in IN
       IF rt[n].state # "Controlling" \/ i.grant # rt[n].grant THEN Ignore(net)
       ELSE IF ~Current(n) THEN Lapsed(net, n)
       ELSE IF rt[n].pausedHere \/ rt[n].paused \/ i.epoch # rt[n].epoch THEN Ignore(net)
       ELSE Transmit(net, n, rt[n], backend[n], Say("Input", i))

StopRuntime(n) ==
  /\ Runs(n, "stop")
  /\ IF rt[n].state = "Idle" THEN Ignore(net)
     ELSE Finish(net, n, rt[n], backend[n], TRUE)

-----------------------------------------------------------------------------
(* The strand: messages of a peer, in the order of the channel. A message  *)
(* is admitted under the epoch of its arrival (enqueueRemoteControlData);  *)
(* see Revoke for those that are void when their turn comes.               *)

Receives(p, n) ==
  /\ ~rt[n].starting
  /\ net[<<p, n>>] # <<>>
  /\ UNCHANGED <<strand, overflow, approved, locals, counters>>

Popped(p, n) == [net EXCEPT ![<<p, n>>] = Tail(@)]
Message(p, n) == Head(net[<<p, n>>])
Matches(p, n) == p = rt[n].peer /\ Message(p, n).req = rt[n].req

(* A Request is taken up by an idle participant that shares its screen and *)
(* was not asked within the last two seconds.                              *)
ReceiveRequest(p, n) ==
  /\ Receives(p, n) /\ Message(p, n).kind = "Request"
  /\ \/ Ignore(Popped(p, n))
     \/ /\ ~overflow[n] /\ rt[n].state = "Idle"
        /\ rt' = [rt EXCEPT ![n] = [IdleRuntime EXCEPT !.state = "AwaitingConsent", !.peer = p, !.req = Message(p, n).req]]
        /\ net' = Popped(p, n) /\ UNCHANGED <<backend, faulty>>

(* Everything else must belong to the session, and the session must stand. *)
ReceiveOther(p, n) ==
  /\ Receives(p, n) /\ Message(p, n).kind # "Request"
  /\ \/ (overflow[n] \/ ~Matches(p, n)) /\ Ignore(Popped(p, n))
     \/ ~overflow[n] /\ Matches(p, n) /\ ~Current(n) /\ Lapsed(Popped(p, n), n)

InSession(p, n) ==
  /\ Receives(p, n) /\ Message(p, n).kind # "Request"
  /\ ~overflow[n] /\ Matches(p, n) /\ Current(n)

(* An End may cancel a request before the host's Grant has arrived.        *)
ReceiveEnd(p, n) ==
  /\ InSession(p, n) /\ Message(p, n).kind = "End"
  /\ IF \/ Message(p, n).grant = rt[n].grant
        \/ Host(rt[n]) /\ rt[n].state # "Controlled" /\ Message(p, n).grant = 0
     THEN Finish(Popped(p, n), n, rt[n], backend[n], FALSE)
     ELSE Ignore(Popped(p, n))

(* A Grant carries no number: where none is awaited it counts as old.      *)
ReceiveGrant(p, n) ==
  /\ InSession(p, n) /\ Message(p, n).kind = "Grant"
  /\ IF rt[n].state # "Requesting" THEN Ignore(Popped(p, n))
     ELSE /\ rt' = [rt EXCEPT ![n].state = "AwaitingActivation", ![n].grant = Message(p, n).grant,
                              ![n].ping = FALSE, ![n].tx = 0, ![n].rx = 0]
          /\ net' = Popped(p, n) /\ UNCHANGED <<backend, faulty>>

ProtocolError(p, n, r) ==
  /\ rt' = [rt EXCEPT ![n] = IdleRuntime]
  /\ backend' = [backend EXCEPT ![n].lease = 0, ![n].queue = <<>>]
  /\ Link(Popped(p, n), n, r, Say("End", None))
  /\ faulty' = faulty \union {n}

Advanced(p, n) == [rt[n] EXCEPT !.rx = Message(p, n).seq]

Advance(p, n, r) ==
  /\ rt' = [rt EXCEPT ![n] = r]
  /\ net' = Popped(p, n) /\ UNCHANGED <<backend, faulty>>

Established(n) == rt[n].state \in {"Controlled", "Controlling"}

(* What is left is numbered and must come without a gap; what is neither   *)
(* foreign nor old is handled by a Runtime in one of the states, and is an *)
(* error in an established session of the other role.                      *)
Numbers(p, n, states, handling) ==
  LET m == Message(p, n) IN
    IF m.grant = 0 \/ m.grant # rt[n].grant \/ m.seq <= rt[n].rx THEN Ignore(Popped(p, n))
    ELSE IF m.seq # rt[n].rx + 1 THEN ProtocolError(p, n, rt[n])
    ELSE IF rt[n].state \in states THEN handling
    ELSE IF Established(n) THEN ProtocolError(p, n, Advanced(p, n))
    ELSE Advance(p, n, Advanced(p, n))

(* Ready: the host goes for its backend; see StartBackend.                 *)
ReceiveReady(p, n) ==
  /\ InSession(p, n) /\ Message(p, n).kind = "Ready"
  /\ Numbers(p, n, {"AwaitingReady"}, Advance(p, n, [Advanced(p, n) EXCEPT !.starting = TRUE]))

ReceivePing(p, n) ==
  /\ InSession(p, n) /\ Message(p, n).kind = "Ping"
  /\ Numbers(p, n, {"Controlled", "Controlling"},
       Transmit(Popped(p, n), n, Advanced(p, n), backend[n], Say("Pong", None)))

(* A Pong that took too long answers nothing.                              *)
ReceivePong(p, n) ==
  /\ InSession(p, n) /\ Message(p, n).kind = "Pong"
  /\ \E answered \in BOOLEAN :
       Numbers(p, n, {"Controlled", "Controlling"},
         Advance(p, n, [Advanced(p, n) EXCEPT !.ping = @ /\ ~answered]))

(* The host reports the state of its input thread: always (forced), or     *)
(* when it has changed.                                                    *)
Status(r, b) == [r EXCEPT !.epoch = b.epoch, !.paused = b.paused]
Report(r, b) == Say("InputState", [focus |-> r.focus, epoch |-> b.epoch, paused |-> b.paused])

ReceivePause(p, n) ==
  /\ InSession(p, n) /\ Message(p, n).kind \in {"Pause", "Resume"}
  /\ LET value == Message(p, n).kind = "Pause"
         b == PauseInput(backend[n], value)
         r == Status([Advanced(p, n) EXCEPT !.focus = @ + 1, !.pausedHere = value], b)
     IN  Numbers(p, n, {"Controlled"},
           IF Message(p, n).body # r.focus THEN ProtocolError(p, n, Advanced(p, n))
           ELSE Transmit(Popped(p, n), n, r, b, Report(r, b)))

(* An answer to an older change of focus says nothing.                     *)
ReceiveInputState(p, n) ==
  /\ InSession(p, n) /\ Message(p, n).kind = "InputState"
  /\ LET s == Message(p, n).body IN
       Numbers(p, n, {"Controlling"},
         IF s.focus # rt[n].focus THEN Advance(p, n, Advanced(p, n))
         ELSE IF s.epoch < rt[n].epoch THEN ProtocolError(p, n, Advanced(p, n))
         ELSE Advance(p, n, Status(Advanced(p, n), s)))

ReceiveInput(p, n) ==
  /\ InSession(p, n) /\ Message(p, n).kind = "Input"
  /\ LET b == backend[n]
         i == Message(p, n).body
         admitted == Permits(n) /\ (~Accepts(b, i.epoch) \/ Fits(b, i))
     IN  Numbers(p, n, {"Controlled"},
           IF ~admitted THEN Finish(Popped(p, n), n, Advanced(p, n), b, TRUE)
           ELSE /\ rt' = [rt EXCEPT ![n] = Advanced(p, n)]
                /\ backend' = [backend EXCEPT ![n] = IF Accepts(b, i.epoch) THEN Queue(b, i) ELSE b]
                /\ net' = Popped(p, n) /\ UNCHANGED faulty)

(* The second half of Ready. Between the checks and here the user may have *)
(* stopped. The backend refuses while an earlier lease stands or something *)
(* it pressed is not released, and while its thread is not up yet.         *)
StartBackend(n) ==
  /\ rt[n].starting
  /\ LET b == StartInput(backend[n], rt[n].grant)
         r == Status([rt[n] EXCEPT !.starting = FALSE, !.state = "Controlled", !.ping = FALSE], b)
     IN  \/ Finish(net, n, rt[n], backend[n], TRUE)
         \/ /\ ~backend[n].held /\ backend[n].lease = 0
            /\ Transmit(net, n, r, b, Report(r, b))
  /\ UNCHANGED <<strand, overflow, approved, locals, counters>>

(* Mutant: the tick sends heartbeats only.                                 *)
BeatSilent(n) ==
  /\ ~rt[n].ping /\ Act
  /\ Transmit(net, n, [rt[n] EXCEPT !.ping = TRUE], backend[n], Say("Ping", None))

(* What a tick has to say: a new input status of the host, and a Ping when  *)
(* one is due (ping) and none is unanswered.                               *)
Beat(n) ==
  LET b == backend[n]
      news == Host(rt[n]) /\ <<b.epoch, b.paused>> # <<rt[n].epoch, rt[n].paused>>
      r == IF news THEN Status(rt[n], b) ELSE rt[n]
      out(ping) == (IF news THEN Report(r, b) ELSE <<>>) \o (IF ping THEN Say("Ping", None) ELSE <<>>)
  IN  \/ news /\ Transmit(net, n, r, b, out(FALSE)) /\ UNCHANGED counters
      \/ /\ ~rt[n].ping /\ Act
         /\ Transmit(net, n, [r EXCEPT !.ping = TRUE], b, out(TRUE))

(* Mutant: the tick leaves the checks to the messages.                     *)
TickUnchecked(n) ==
  /\ ~rt[n].starting
  /\ IF overflow[n]
     THEN /\ IF rt[n].state = "Idle" THEN Ignore(net)
             ELSE Finish(net, n, rt[n], backend[n], TRUE)
          /\ overflow' = [overflow EXCEPT ![n] = FALSE]
          /\ UNCHANGED counters
     ELSE Established(n) /\ Current(n) /\ Beat(n) /\ UNCHANGED overflow
  /\ UNCHANGED <<strand, approved, locals>>

(* The 50 ms tick: overflow, the checks, the input status, the heartbeat.  *)
Tick(n) ==
  /\ ~rt[n].starting
  /\ IF overflow[n]
     THEN /\ IF rt[n].state = "Idle" THEN Ignore(net)
             ELSE Finish(net, n, rt[n], backend[n], TRUE)
          /\ overflow' = [overflow EXCEPT ![n] = FALSE]
          /\ UNCHANGED counters
     ELSE /\ UNCHANGED overflow
          /\ \/ rt[n].state # "Idle" /\ ~Current(n) /\ Lapsed(net, n) /\ UNCHANGED counters
             \/ Established(n) /\ Current(n) /\ Beat(n)
  /\ UNCHANGED <<strand, approved, locals>>

-----------------------------------------------------------------------------
(* The input thread.                                                       *)

Interrupt(n, b) ==
  /\ backend' = [backend EXCEPT ![n] = b]
  /\ UNCHANGED <<rt, strand, overflow, net, approved, faulty>>

Native(n, b) == Interrupt(n, b) /\ UNCHANGED counters

(* The input thread finds its lease void. With lapsed it may also be the   *)
(* first to know: the desktop is not the interactive one, SendInput fails, *)
(* the user presses Ctrl+Alt+F12.                                          *)
Disarm(n) ==
  /\ backend[n].lease # 0 /\ (rt[n].revoked \/ rt[n].lapsed)
  /\ Native(n, [backend[n] EXCEPT !.lease = 0, !.queue = <<>>])
  /\ UNCHANGED <<locals>>

(* Without a lease, everything pressed for the controller is released.     *)
Release(n) ==
  /\ backend[n].lease = 0 /\ backend[n].held
  /\ Native(n, [backend[n] EXCEPT !.held = FALSE])
  /\ UNCHANGED <<locals>>

(* While input is suspended: release, and admit input again when the host's *)
(* user is quiet. released: SendInput took the releases.                   *)
Yield(n, released) ==
  LET b == [backend[n] EXCEPT !.held = @ /\ ~released, !.queue = <<>>]
  IN  /\ Permits(n) /\ b.paused
      /\ Native(n, IF ~b.remotePaused /\ b.quiet /\ ~b.held
                   THEN [b EXCEPT !.paused = FALSE, !.epoch = @ + 1] ELSE b)
      /\ UNCHANGED <<locals>>

(* The next input of the queue that is still admitted goes to SendInput.   *)
Injects(n) ==
  LET b == backend[n]
  IN  Permits(n) /\ ~b.paused /\ b.queue # <<>> /\ Accepts(b, Head(b.queue).epoch)

(* A key or a button goes down or up.                                      *)
Inject(n, down) ==
  LET b == backend[n]
  IN  /\ Permits(n) /\ ~b.paused /\ b.queue # <<>>
      /\ Native(n, [b EXCEPT !.queue = Tail(@),
                            !.held = IF Injects(n) /\ Head(b.queue).key THEN down ELSE @])
      /\ UNCHANGED locals

(* The hooks see the host's own keyboard or mouse. (Without a lease there  *)
(* is nothing to interrupt.)                                               *)
LocalActivity(n, released) ==
  /\ backend[n].lease # 0
  /\ Act
  /\ locals' = [locals EXCEPT ![n] = @ + 1]
  /\ Interrupt(n, [Suspend(backend[n]) EXCEPT !.queue = <<>>, !.quiet = FALSE,
                                           !.held = @ /\ ~released])

(* Everything is let go and a second passes.                               *)
Quiet(n) ==
  /\ ~backend[n].quiet
  /\ Native(n, [backend[n] EXCEPT !.quiet = TRUE])
  /\ UNCHANGED <<locals>>

-----------------------------------------------------------------------------
(* Time, and everything else a session depends on.                         *)

Lapse(n) ==
  /\ rt[n].state # "Idle" /\ ~rt[n].lapsed
  /\ rt' = [rt EXCEPT ![n].lapsed = TRUE]
  /\ UNCHANGED <<backend, strand, overflow, net, approved, locals, faulty, counters>>

Ui(n) ==
  \/ \E p \in Nodes : Request(n, p)
  \/ \E allow \in BOOLEAN : Consent(n, allow)
  \/ Activate(n) \/ Pause(n)
  \/ \E key \in BOOLEAN : MakeInput(n, key)
  \/ Stop(n)

Posted(n) == Input(n) \/ StopRuntime(n)

Receive(p, n) ==
  \/ ReceiveRequest(p, n) \/ ReceiveOther(p, n) \/ ReceiveEnd(p, n) \/ ReceiveGrant(p, n)
  \/ ReceiveReady(p, n) \/ ReceivePing(p, n) \/ ReceivePong(p, n) \/ ReceivePause(p, n)
  \/ ReceiveInputState(p, n) \/ ReceiveInput(p, n)

InputThread(n) ==
  \/ Disarm(n) \/ Release(n) \/ Quiet(n)
  \/ \E down \in BOOLEAN : Inject(n, down)
  \/ \E released \in BOOLEAN : Yield(n, released) \/ LocalActivity(n, released)

Next ==
  \/ \E n \in Nodes :
       Ui(n) \/ Posted(n) \/ StartBackend(n) \/ Tick(n) \/ InputThread(n) \/ Lapse(n)
  \/ \E p, n \in Nodes : Receive(p, n) \/ LoseMessage(p, n)

Spec == Init /\ [][Next]_vars

-----------------------------------------------------------------------------
(* Fairness: the strand and the input thread run, the channel delivers, the *)
(* tick comes round, the host's user eventually pauses for a second. The   *)
(* deadline of a handshake is never moved, that of an established session  *)
(* only by the Pongs of a peer that is still in it.                        *)
Alone(n) ==
  LET p == rt[n].peer IN p # None => ~(rt[p].peer = n /\ rt[p].req = rt[n].req)

Doomed(n) == ~Established(n) \/ Alone(n)

(* The loop of run(): what the lease and the arbitration call for.         *)
Loop(n) ==
  \/ Yield(n, TRUE) \/ Release(n)
  \/ \E down \in BOOLEAN : Inject(n, down)
  \/ rt[n].revoked /\ Disarm(n)

FairSpec ==
  /\ Spec
  /\ \A n \in Nodes :
       /\ WF_vars(Posted(n) \/ StartBackend(n)) /\ WF_vars(Tick(n))
       /\ \A p \in Nodes \ {n} : WF_vars(Receive(p, n))
       /\ WF_vars(Doomed(n) /\ Lapse(n))
       /\ WF_vars(Loop(n)) /\ WF_vars(Quiet(n))

-----------------------------------------------------------------------------
(* Properties.                                                             *)

InputRecords == [grant : Nat, epoch : Nat, key : BOOLEAN, local : Nat, focus : Nat]

Runtime ==
  [state : States, peer : Nodes \union {None}, req : Nat, grant : Nat, tx : Nat, rx : Nat,
   ping : BOOLEAN, focus : Nat, pausedHere : BOOLEAN, epoch : Nat, paused : BOOLEAN,
   revoked : BOOLEAN, lapsed : BOOLEAN, starting : BOOLEAN]

Backend ==
  [lease : Nat, queue : Seq(InputRecords), epoch : Nat, paused : BOOLEAN,
   remotePaused : BOOLEAN, quiet : BOOLEAN, held : BOOLEAN]

(* Whatever the input thread may inject, the host's user has allowed, and  *)
(* has not pressed stop since, whatever the strand was doing then.         *)
OnlyApprovedInput ==
  \A n \in Nodes : Injects(n) => Head(backend[n].queue).grant \in approved[n]

(* It was made after the last time the host's user touched the keyboard,   *)
(* and under the last change of the controller's focus that has arrived.   *)
NoStaleInput ==
  \A n \in Nodes : Injects(n) =>
    LET i == Head(backend[n].queue) IN i.local = locals[n] /\ i.focus = rt[n].focus

(* On a lossless channel two participants never meet a protocol error,     *)
(* whatever ends the sessions between them and in which order.             *)
NeverProtocolError == faulty = {}

(* When one side has left a session, or never takes part, the other side   *)
(* ends it too, and what was pressed for the controller is released.       *)
EndsTogether ==
  \A n \in Nodes : (rt[n].state # "Idle" /\ Alone(n)) ~>
    ((rt[n].state = "Idle" /\ ~backend[n].held) \/ ~Alone(n))

(* A controller that has the focus is admitted again, as the host's user   *)
(* is told: after a second without local input.  Only who has asked for    *)
(* control is ever a controller.                                           *)
InputResumes ==
  \A n \in Requesters : (rt[n].state = "Controlling" /\ ~rt[n].pausedHere) ~>
    (~rt[n].paused \/ rt[n].pausedHere \/ rt[n].state # "Controlling")
=============================================================================
