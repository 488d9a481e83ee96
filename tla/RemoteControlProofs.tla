------------------------- MODULE RemoteControlProofs -------------------------
(***************************************************************************)
(* Theorems about RemoteControl, for any number of participants and every  *)
(* capacity of the queues: what is injected was allowed (first part), two  *)
(* participants never meet a protocol error, and input that has become     *)
(* stale is not injected (second part).                                    *)
(***************************************************************************)
EXTENDS RemoteControl, SequenceTheorems, FiniteSetTheorems, TLAPS

(* What the channel carries: an input belongs to the grant of its message. *)
OfGrant(g) == {i \in InputRecords : i.grant = g}
Reports == [focus : Nat, epoch : Nat, paused : BOOLEAN]
Bodies == InputRecords \union Reports \union Nat \union {None}
MessageKinds == {"Request", "Grant", "End", "Ready", "Ping", "Pong", "Pause", "Resume",
                 "InputState", "Input"}

Fitting(kind, body, g) ==
  /\ kind = "Input" => body \in OfGrant(g)
  /\ kind = "InputState" => body \in Reports

Messages ==
  {m \in [kind : MessageKinds, req : Nat, grant : Nat, body : Bodies, seq : Nat] :
     Fitting(m.kind, m.body, m.grant)}

Words(g) == {w \in [kind : MessageKinds, body : Bodies] : Fitting(w.kind, w.body, g)}

Channels == [Nodes \X Nodes -> Seq(Messages)]
Posts == [kind : {"stop"}] \union [kind : {"input"}, in : InputRecords]

(* What makes the lease of a participant safe, given what its user allows: *)
(* it is that of the running grant, only its input is queued, and a grant  *)
(* that is not revoked is an approved one.                                 *)
Safe(r, b, a) ==
  /\ b.lease # 0 => r.state = "Controlled" /\ b.lease = r.grant
  /\ b.queue \in Seq(OfGrant(b.lease))
  /\ r.state \in {"AwaitingReady", "Controlled"} /\ ~r.revoked => r.grant \in a
  /\ r.starting => r.state = "AwaitingReady"
  /\ r.state # "Idle" => r.peer \in Nodes

Typed ==
  /\ rt \in [Nodes -> Runtime]
  /\ backend \in [Nodes -> Backend]
  /\ strand \in [Nodes -> Seq(Posts)]
  /\ net \in Channels
  /\ approved \in [Nodes -> SUBSET Nat]
  /\ locals \in [Nodes -> Nat]
  /\ ids \in Nat

(* The inductive invariant.                                                *)
LeaseInv == Typed /\ \A n \in Nodes : Safe(rt[n], backend[n], approved[n])

-----------------------------------------------------------------------------
(* The records of the handlers belong to their sets.                       *)

(* The Runtime and the backend of a fresh participant.                     *)
LEMMA FreshRecords ==
  /\ IdleRuntime \in Runtime /\ FreshBackend \in Backend
  /\ \A a : Safe(IdleRuntime, FreshBackend, a)
BY EmptySeq DEF IdleRuntime, FreshBackend, Runtime, Backend, Safe, States

(* Numbering keeps the words and what they say.                            *)
LEMMA WireType ==
  ASSUME NEW r \in Runtime, NEW out \in Seq(Words(r.grant))
  PROVE  Wire(r, out) \in Seq(Messages)
<1>1. /\ Len(out) \in Nat /\ DOMAIN out = 1 .. Len(out)
      /\ \A i \in 1 .. Len(out) : out[i] \in Words(r.grant)
  BY LenProperties, ElementOfSeq
<1>2. r.req \in Nat /\ r.grant \in Nat /\ r.tx \in Nat
  BY DEF Runtime
<1>3. ASSUME NEW i \in 1 .. Len(out)
      PROVE  [kind |-> out[i].kind, req |-> r.req, grant |-> r.grant, body |-> out[i].body,
              seq |-> IF Numbered(out[i].kind) THEN r.tx + i ELSE 0] \in Messages
  BY <1>1, <1>2 DEF Words, Messages
<1>4. Wire(r, out) \in [1 .. Len(out) -> Messages]
  BY <1>1, <1>3 DEF Wire
<1> QED
  BY <1>1, <1>4, SeqDef

(* A handler that says one thing.                                          *)
LEMMA SayType ==
  ASSUME NEW g, NEW kind \in MessageKinds, NEW body \in Bodies, Fitting(kind, body, g)
  PROVE  Say(kind, body) \in Seq(Words(g))
<1>1. [kind |-> kind, body |-> body] \in Words(g)
  BY DEF Words
<1> QED
  BY <1>1 DEF Say

(* What a handler has sent is counted.                                     *)
LEMMA CountType ==
  ASSUME NEW S, NEW out \in Seq(S)
  PROVE  Cardinality({i \in DOMAIN out : Numbered(out[i].kind)}) \in Nat
<1>1. IsFiniteSet(DOMAIN out)
  BY LenProperties, FS_Interval
<1>2. IsFiniteSet({i \in DOMAIN out : Numbered(out[i].kind)})
  BY <1>1, FS_Subset
<1> QED
  BY <1>2, FS_CardinalityType

(* Messages arrive at the end of a channel.                                *)
LEMMA LinkType ==
  ASSUME NEW c \in Channels, NEW n \in Nodes, NEW r \in Runtime, r.peer \in Nodes,
         NEW out \in Seq(Words(r.grant)), Link(c, n, r, out)
  PROVE  net' \in Channels
<1>1. Wire(r, out) \in Seq(Messages)
  BY WireType
<1>2. c[<<n, r.peer>>] \o Wire(r, out) \in Seq(Messages)
  BY <1>1, ConcatProperties DEF Channels
<1> QED
  BY <1>2 DEF Link, Channels

(* The first message of a channel, and the channel without it.             *)
LEMMA PoppedType ==
  ASSUME NEW p \in Nodes, NEW n \in Nodes, net \in Channels, net[<<p, n>>] # <<>>
  PROVE  Message(p, n) \in Messages /\ Popped(p, n) \in Channels
<1>1. net[<<p, n>>] \in Seq(Messages)
  BY DEF Channels
<1>2. Head(net[<<p, n>>]) \in Messages /\ Tail(net[<<p, n>>]) \in Seq(Messages)
  BY <1>1, HeadTailProperties
<1> QED
  BY <1>2 DEF Message, Popped, Channels

-----------------------------------------------------------------------------
(* Steps of one participant.                                               *)

(* Participant n moves to a safe Runtime and backend; a is what its user   *)
(* allows then.                                                            *)
Moved(n, a) ==
  /\ \E r \in Runtime, b \in Backend :
       /\ rt' = [rt EXCEPT ![n] = r] /\ backend' = [backend EXCEPT ![n] = b]
       /\ Safe(r, b, a)
  /\ net' \in Channels

(* What else may change: nothing of the other participants.                *)
Elsewhere(n) ==
  /\ approved' \in [Nodes -> SUBSET Nat]
  /\ \A m \in Nodes \ {n} : approved'[m] = approved[m]
  /\ strand' \in [Nodes -> Seq(Posts)] /\ locals' \in [Nodes -> Nat] /\ ids' \in Nat

LEMMA MovedKeeps ==
  ASSUME LeaseInv, NEW n \in Nodes, Moved(n, approved'[n]), Elsewhere(n)
  PROVE  LeaseInv'
<1>1. PICK r \in Runtime, b \in Backend :
        /\ rt' = [rt EXCEPT ![n] = r] /\ backend' = [backend EXCEPT ![n] = b]
        /\ Safe(r, b, approved'[n])
  BY DEF Moved
<1>2. Typed'
  BY <1>1 DEF LeaseInv, Typed, Moved, Elsewhere
<1>3. ASSUME NEW m \in Nodes PROVE Safe(rt[m], backend[m], approved[m])'
  <2>1. CASE m = n
    BY <1>1, <2>1 DEF LeaseInv, Typed
  <2>2. CASE m # n
    BY <1>1, <2>2 DEF LeaseInv, Typed, Elsewhere
  <2> QED
    BY <2>1, <2>2
<1> QED
  BY <1>2, <1>3 DEF LeaseInv

(* Finishing leaves nothing that could be unsafe.                          *)
LEMMA FinishMoves ==
  ASSUME NEW n \in Nodes, NEW c \in Channels, NEW r \in Runtime, r.peer \in Nodes,
         NEW b \in Backend, NEW notify, Finish(c, n, r, b, notify), NEW a
  PROVE  Moved(n, a)
<1> DEFINE d == [b EXCEPT !.lease = 0, !.queue = <<>>]
<1>1. net' \in Channels
  <2>1. Say("End", None) \in Seq(Words(r.grant))
    BY SayType DEF Bodies, MessageKinds, Fitting
  <2>2. CASE net' = c
    BY <2>2
  <2>3. CASE Link(c, n, r, Say("End", None))
    BY <2>1, <2>3, LinkType
  <2> QED
    BY <2>2, <2>3 DEF Finish
<1>2. d \in Backend /\ d.lease = 0 /\ d.queue = <<>>
  BY EmptySeq DEF Backend
<1>3. Safe(IdleRuntime, d, a)
  BY <1>2, EmptySeq DEF Safe, IdleRuntime
<1> QED
  BY <1>1, <1>2, <1>3, FreshRecords DEF Moved, Finish

(* A handler that ends in a safe state keeps it, whether sending works.    *)
LEMMA TransmitMoves ==
  ASSUME NEW n \in Nodes, NEW c \in Channels, NEW r \in Runtime, r.peer \in Nodes,
         NEW b \in Backend, NEW a, Safe(r, b, a), NEW out \in Seq(Words(r.grant)),
         Transmit(c, n, r, b, out)
  PROVE  Moved(n, a)
<1> DEFINE sent == Cardinality({i \in DOMAIN out : Numbered(out[i].kind)})
           s == [r EXCEPT !.tx = @ + sent]
<1>1. CASE Finish(c, n, r, b, FALSE)
  BY <1>1, FinishMoves
<1>2. CASE /\ rt' = [rt EXCEPT ![n] = s] /\ backend' = [backend EXCEPT ![n] = b]
           /\ Link(c, n, r, out)
  <2>1. sent \in Nat
    BY CountType
  <2> HIDE DEF sent
  <2>2. s \in Runtime
    BY <2>1 DEF Runtime
  <2>3. Safe(s, b, a)
    BY DEF Safe, Runtime
  <2>4. net' \in Channels
    BY <1>2, LinkType
  <2> QED
    BY <1>2, <2>2, <2>3, <2>4 DEF Moved
<1> QED
  BY <1>1, <1>2 DEF Transmit

(* A message that changes nothing but the channel.                         *)
LEMMA IgnoreMoves ==
  ASSUME LeaseInv, NEW n \in Nodes, NEW c \in Channels, Ignore(c)
  PROVE  Moved(n, approved[n])
BY DEF Ignore, Moved, LeaseInv, Typed

(* A Runtime that changes beside its backend.                              *)
LEMMA AdvanceMoves ==
  ASSUME LeaseInv, NEW n \in Nodes, NEW p \in Nodes, net[<<p, n>>] # <<>>,
         NEW r \in Runtime, Safe(r, backend[n], approved[n]), Advance(p, n, r)
  PROVE  Moved(n, approved[n])
BY PoppedType DEF Advance, Moved, LeaseInv, Typed

(* A protocol error finishes as well.                                      *)
LEMMA ErrorMoves ==
  ASSUME LeaseInv, NEW n \in Nodes, NEW p \in Nodes, net[<<p, n>>] # <<>>,
         NEW r \in Runtime, r.peer \in Nodes, ProtocolError(p, n, r)
  PROVE  Moved(n, approved[n])
<1> DEFINE d == [backend[n] EXCEPT !.lease = 0, !.queue = <<>>]
<1>0. backend \in [Nodes -> Backend] /\ backend[n] \in Backend
  BY DEF LeaseInv, Typed
<1>1. Say("End", None) \in Seq(Words(r.grant))
  BY SayType DEF Bodies, MessageKinds, Fitting
<1>2. net' \in Channels
  BY <1>1, LinkType, PoppedType DEF ProtocolError, LeaseInv, Typed
<1>3. d \in Backend /\ d.lease = 0 /\ d.queue = <<>>
  BY <1>0, EmptySeq DEF Backend
<1>4. backend' = [backend EXCEPT ![n] = d]
  BY <1>0 DEF ProtocolError, Backend
<1>5. Safe(IdleRuntime, d, approved[n])
  BY <1>3, EmptySeq DEF Safe, IdleRuntime
<1> QED
  BY <1>2, <1>3, <1>4, <1>5, FreshRecords DEF Moved, ProtocolError

(* Where a participant stands.                                             *)
LEMMA Standing ==
  ASSUME LeaseInv, NEW n \in Nodes
  PROVE  /\ rt[n] \in Runtime /\ backend[n] \in Backend /\ net \in Channels
         /\ Safe(rt[n], backend[n], approved[n])
         /\ approved[n] \in SUBSET Nat /\ ids \in Nat
BY DEF LeaseInv, Typed

(* Most steps leave everything else alone.                                 *)
LEMMA ElsewhereUnchanged ==
  ASSUME LeaseInv, NEW n \in Nodes, strand' \in [Nodes -> Seq(Posts)],
         UNCHANGED <<approved, locals, ids>>
  PROVE  Elsewhere(n)
BY DEF LeaseInv, Typed, Elsewhere

(* The end of a session that lapsed.                                       *)
LEMMA LapsedMoves ==
  ASSUME LeaseInv, NEW n \in Nodes, NEW c \in Channels, rt[n].peer \in Nodes, Lapsed(c, n), NEW a
  PROVE  Moved(n, a)
BY Standing, FinishMoves DEF Lapsed

-----------------------------------------------------------------------------
(* The UI thread.                                                          *)

LEMMA RequestStep ==
  ASSUME LeaseInv, NEW n \in Nodes, NEW p \in Nodes, Request(n, p)
  PROVE  LeaseInv'
<1> DEFINE r == [IdleRuntime EXCEPT !.state = "Requesting", !.peer = p, !.req = ids + 1]
<1>0. p \in Nodes \union {None} /\ ids + 1 \in Nat
  BY Standing
<1>1. r \in Runtime /\ r.peer \in Nodes
  BY <1>0 DEF IdleRuntime, Runtime, States
<1>2. Safe(r, backend[n], approved[n])
  BY Standing DEF Request, Safe, IdleRuntime
<1>3. Say("Request", None) \in Seq(Words(r.grant))
  BY SayType DEF Bodies, MessageKinds, Fitting
<1>4. Moved(n, approved[n])
  BY <1>1, <1>2, <1>3, Standing, TransmitMoves DEF Request
<1>5. Elsewhere(n) /\ approved' = approved
  BY DEF LeaseInv, Typed, Elsewhere, Request
<1> QED
  BY <1>4, <1>5, MovedKeeps

LEMMA ConsentStep ==
  ASSUME LeaseInv, NEW n \in Nodes, NEW allow \in BOOLEAN, Consent(n, allow)
  PROVE  LeaseInv'
<1> DEFINE r == [rt[n] EXCEPT !.state = "AwaitingReady", !.grant = ids + 1]
<1>0. /\ rt[n].state = "AwaitingConsent" /\ rt[n].peer \in Nodes
      /\ UNCHANGED <<strand, locals>>
  BY Standing DEF Consent, UiRuns, Safe
<1>a. rt[n] \in Runtime /\ ids + 1 \in Nat
  BY Standing
<1>1. /\ r \in Runtime /\ r.peer \in Nodes /\ r.grant = ids + 1
      /\ r.state = "AwaitingReady" /\ r.starting = rt[n].starting
  BY <1>0, <1>a DEF Runtime, States
<1>2. CASE ~Current(n)
  <2>1. Moved(n, approved[n]) /\ UNCHANGED <<approved, ids>>
    BY <1>0, <1>2, Standing, LapsedMoves DEF Consent, counters
  <2> QED
    BY <1>0, <2>1, ElsewhereUnchanged, MovedKeeps DEF LeaseInv, Typed
<1>3. CASE Current(n) /\ ~allow
  <2>1. Moved(n, approved[n]) /\ UNCHANGED <<approved, ids>>
    BY <1>0, <1>3, Standing, FinishMoves DEF Consent, counters
  <2> QED
    BY <1>0, <2>1, ElsewhereUnchanged, MovedKeeps DEF LeaseInv, Typed
<1>4. CASE Current(n) /\ allow
  <2>1. /\ Transmit(net, n, r, backend[n], Say("Grant", None))
        /\ approved' = [approved EXCEPT ![n] = @ \union {r.grant}] /\ ids' = ids + 1
    BY <1>4 DEF Consent
  <2>2. r.grant \in approved'[n] /\ Elsewhere(n)
    BY <1>0, <1>1, <2>1 DEF LeaseInv, Typed, Elsewhere
  <2>3. Safe(r, backend[n], approved'[n])
    BY <1>0, <1>1, <2>2, Standing DEF Safe
  <2>4. Say("Grant", None) \in Seq(Words(r.grant))
    BY SayType DEF Bodies, MessageKinds, Fitting
  <2>5. Moved(n, approved'[n])
    BY <1>1, <2>1, <2>3, <2>4, Standing, TransmitMoves
  <2> QED
    BY <2>2, <2>5, MovedKeeps
<1> QED
  BY <1>2, <1>3, <1>4

LEMMA ActivateStep ==
  ASSUME LeaseInv, NEW n \in Nodes, Activate(n)
  PROVE  LeaseInv'
<1> DEFINE r == [rt[n] EXCEPT !.state = "Controlling", !.ping = FALSE]
<1>0. rt[n].state = "AwaitingActivation" /\ rt[n].peer \in Nodes
  BY Standing DEF Activate, UiRuns, Safe
<1>a. rt[n] \in Runtime
  BY Standing
<1>b. r \in Runtime
  BY <1>a DEF Runtime, States
<1>c. /\ r.peer = rt[n].peer /\ r.state = "Controlling" /\ r.starting = rt[n].starting
  BY <1>0, <1>a DEF Runtime
<1>1. r \in Runtime /\ r.peer \in Nodes /\ Safe(r, backend[n], approved[n])
  BY <1>0, <1>b, <1>c, Standing DEF Safe
<1>2. Say("Ready", None) \in Seq(Words(r.grant))
  BY SayType DEF Bodies, MessageKinds, Fitting
<1>3. CASE Current(n)
  BY <1>1, <1>2, <1>3, Standing, TransmitMoves, ElsewhereUnchanged, MovedKeeps
     DEF Activate, counters, LeaseInv, Typed
<1>4. CASE ~Current(n)
  BY <1>0, <1>4, Standing, LapsedMoves, ElsewhereUnchanged, MovedKeeps
     DEF Activate, counters, LeaseInv, Typed
<1> QED
  BY <1>3, <1>4

LEMMA PauseStep ==
  ASSUME LeaseInv, NEW n \in Nodes, Pause(n)
  PROVE  LeaseInv'
<1> DEFINE r == [rt[n] EXCEPT !.pausedHere = ~@, !.paused = TRUE, !.focus = @ + 1]
           kind == IF r.pausedHere THEN "Pause" ELSE "Resume"
<1>0. /\ rt[n].state = "Controlling" /\ rt[n].peer \in Nodes
      /\ strand' \in [Nodes -> Seq(Posts)] /\ UNCHANGED <<approved, locals, ids>>
  BY Standing, EmptySeq DEF Pause, UiRuns, Safe, Act, LeaseInv, Typed
<1>a. rt[n] \in Runtime
  BY Standing
<1>b. r \in Runtime
  <2>1. (~rt[n].pausedHere) \in BOOLEAN /\ rt[n].focus + 1 \in Nat
    BY <1>a DEF Runtime
  <2>2. \A v \in BOOLEAN, f \in Nat :
          [rt[n] EXCEPT !.pausedHere = v, !.paused = TRUE, !.focus = f] \in Runtime
    BY <1>a DEF Runtime
  <2> QED
    BY <2>1, <2>2
<1>c. /\ r.peer = rt[n].peer /\ r.state = "Controlling" /\ r.starting = rt[n].starting
  BY <1>0, <1>a DEF Runtime
<1>1. r \in Runtime /\ r.peer \in Nodes /\ Safe(r, backend[n], approved[n])
  BY <1>0, <1>b, <1>c, Standing DEF Safe
<1>2. Say(kind, r.focus) \in Seq(Words(r.grant))
  <2>1. kind \in MessageKinds /\ r.focus \in Bodies /\ Fitting(kind, r.focus, r.grant)
    BY <1>1 DEF Bodies, MessageKinds, Fitting, Runtime
  <2> QED
    BY <2>1, SayType
<1>3. Moved(n, approved[n])
  <2>1. CASE Current(n)
    BY <1>1, <1>2, <2>1, Standing, TransmitMoves DEF Pause
  <2>2. CASE ~Current(n)
    BY <1>0, <2>2, Standing, LapsedMoves DEF Pause
  <2> QED
    BY <2>1, <2>2
<1> QED
  BY <1>0, <1>3, ElsewhereUnchanged, MovedKeeps

(* Revoking voids what has arrived; the lease is no longer usable.         *)
LEMMA RevokeMoves ==
  ASSUME LeaseInv, NEW n \in Nodes, NEW k \in [Nodes -> Nat], Revoke(n, k)
  PROVE  /\ net' \in Channels
         /\ \E r \in Runtime :
              /\ rt' = [rt EXCEPT ![n] = r]
              /\ \A b, a : Safe(rt[n], b, approved[n]) => Safe(r, b, a)
<1> DEFINE revoked == rt[n].state # "Idle"
           r == [rt[n] EXCEPT !.revoked = revoked]
<1>1. rt[n] \in Runtime /\ rt' = [rt EXCEPT ![n] = r]
  BY Standing DEF Revoke, LeaseInv, Typed, Runtime
<1>2. revoked \in BOOLEAN /\ r \in Runtime
  BY <1>1 DEF Runtime
<1>3. /\ r.state = rt[n].state /\ r.grant = rt[n].grant /\ r.peer = rt[n].peer
      /\ r.starting = rt[n].starting /\ r.revoked = (rt[n].state # "Idle")
  BY <1>1 DEF Runtime
<1>4. ASSUME NEW b, NEW a, Safe(rt[n], b, approved[n]) PROVE Safe(r, b, a)
  BY <1>3, <1>4 DEF Safe
<1>5. ASSUME NEW c \in Nodes \X Nodes PROVE SubSeq(net[c], k[c[1]] + 1, Len(net[c])) \in Seq(Messages)
  <2>1. net[c] \in Seq(Messages) /\ k[c[1]] \in Nat
    BY DEF LeaseInv, Typed, Channels
  <2>2. Len(net[c]) \in Nat /\ \A i \in k[c[1]] + 1 .. Len(net[c]) : net[c][i] \in Messages
    BY <2>1, LenProperties
  <2> QED
    BY <2>1, <2>2, SubSeqProperties
<1>6. net' \in Channels
  <2>1. \A c \in Nodes \X Nodes : net[c] \in Seq(Messages)
    BY DEF LeaseInv, Typed, Channels
  <2> QED
    BY <1>5, <2>1 DEF Revoke, Channels
<1> QED
  BY <1>1, <1>2, <1>4, <1>6

LEMMA OverflowStep ==
  ASSUME LeaseInv, NEW n \in Nodes, NEW k \in [Nodes -> Nat], Overflow(n, k),
         UNCHANGED <<backend, approved, locals, ids>>
  PROVE  LeaseInv'
<1>1. Revoke(n, k) /\ strand' = strand
  BY DEF Overflow
<1>2. Moved(n, approved[n])
  <2>1. PICK r \in Runtime :
          rt' = [rt EXCEPT ![n] = r] /\ Safe(r, backend[n], approved[n])
    BY <1>1, RevokeMoves, Standing
  <2> QED
    BY <1>1, <2>1, RevokeMoves, Standing DEF Moved, LeaseInv, Typed
<1> QED
  BY <1>1, <1>2, ElsewhereUnchanged, MovedKeeps DEF LeaseInv, Typed

LEMMA MakeInputStep ==
  ASSUME LeaseInv, NEW n \in Nodes, NEW key \in BOOLEAN, MakeInput(n, key)
  PROVE  LeaseInv'
<1> DEFINE post == [kind |-> "input", in |->
             [grant |-> rt[n].grant, epoch |-> rt[n].epoch, key |-> key,
              local |-> locals[rt[n].peer], focus |-> rt[n].focus]]
<1>0. UNCHANGED <<backend, approved, locals, ids>>
  BY DEF MakeInput, Act
<1>1. CASE strand' = [strand EXCEPT ![n] = Append(@, post)] /\ UNCHANGED <<rt, overflow, net>>
  <2>1. rt[n].peer \in Nodes
    BY Standing DEF MakeInput, Safe
  <2>2. post \in Posts
    BY <2>1, Standing DEF LeaseInv, Typed, Posts, InputRecords, Runtime
  <2>3. strand' \in [Nodes -> Seq(Posts)]
    BY <1>1, <2>2, AppendProperties DEF LeaseInv, Typed
  <2> QED
    BY <1>0, <1>1, <2>3 DEF LeaseInv, Typed
<1>2. CASE \E k \in [Nodes -> 0 .. MaxPending] : Overflows(n, k) /\ Overflow(n, k)
  <2>1. PICK k \in [Nodes -> 0 .. MaxPending] : Overflow(n, k)
    BY <1>2
  <2>2. k \in [Nodes -> Nat]
    BY RemoteControlAssumption
  <2> QED
    BY <1>0, <2>1, <2>2, OverflowStep
<1> QED
  BY <1>1, <1>2 DEF MakeInput

LEMMA LoseMessageStep ==
  ASSUME LeaseInv, NEW p \in Nodes, NEW n \in Nodes, LoseMessage(p, n)
  PROVE  LeaseInv'
<1>1. PICK k \in [Nodes -> 0 .. MaxPending] : Overflow(n, [k EXCEPT ![p] = @ + 1])
  BY DEF LoseMessage
<1>2. [k EXCEPT ![p] = @ + 1] \in [Nodes -> Nat]
  BY RemoteControlAssumption
<1> QED
  BY <1>1, <1>2, OverflowStep DEF LoseMessage, counters

(* The user stops: the backend is closed before anything else happens.     *)
LEMMA StopStep ==
  ASSUME LeaseInv, NEW n \in Nodes, Stop(n)
  PROVE  LeaseInv'
<1> DEFINE d == [backend[n] EXCEPT !.lease = 0, !.queue = <<>>]
<1>0. PICK k \in [Nodes -> 0 .. MaxPending] : Revoke(n, k)
  BY DEF Stop, Arrivals
<1>1. k \in [Nodes -> Nat]
  BY RemoteControlAssumption
<1>2. PICK r \in Runtime :
        /\ rt' = [rt EXCEPT ![n] = r]
        /\ \A b, a : Safe(rt[n], b, approved[n]) => Safe(r, b, a)
  BY <1>0, <1>1, RevokeMoves
<1>3. d \in Backend /\ d.lease = 0 /\ d.queue = <<>> /\ backend' = [backend EXCEPT ![n] = d]
  <2>1. backend[n] \in Backend
    BY Standing
  <2>2. d \in Backend /\ d.lease = 0 /\ d.queue = <<>>
    BY <2>1, EmptySeq DEF Backend
  <2>3. backend' = [backend EXCEPT ![n] = d]
    BY <2>1 DEF Stop, LeaseInv, Typed, Backend
  <2> QED
    BY <2>2, <2>3
<1>4. Safe(rt[n], d, approved[n])
  BY <1>3, EmptySeq, Standing DEF Safe
<1>5. Safe(r, d, approved'[n])
  BY <1>2, <1>4
<1>6. Moved(n, approved'[n])
  BY <1>0, <1>1, <1>2, <1>3, <1>5, RevokeMoves DEF Moved
<1>7. Elsewhere(n)
  <2>1. [kind |-> "stop"] \in Posts
    BY DEF Posts
  <2> QED
    BY <2>1, AppendProperties DEF Stop, Act, Elsewhere, LeaseInv, Typed
<1> QED
  BY <1>6, <1>7, MovedKeeps

-----------------------------------------------------------------------------
(* The strand.                                                             *)

LEMMA RunsPost ==
  ASSUME LeaseInv, NEW n \in Nodes, NEW kind, Runs(n, kind)
  PROVE  /\ Head(strand[n]) \in Posts /\ Head(strand[n]).kind = kind
         /\ Elsewhere(n) /\ approved' = approved
<1>1. strand[n] \in Seq(Posts) /\ strand[n] # <<>>
  BY DEF LeaseInv, Typed, Runs
<1>2. Head(strand[n]) \in Posts /\ Tail(strand[n]) \in Seq(Posts)
  BY <1>1, HeadTailProperties
<1>3. strand' \in [Nodes -> Seq(Posts)]
  BY <1>2 DEF Runs, LeaseInv, Typed
<1> QED
  BY <1>2, <1>3, ElsewhereUnchanged DEF Runs, counters

LEMMA InputStep ==
  ASSUME LeaseInv, NEW n \in Nodes, Input(n)
  PROVE  LeaseInv'
<1> DEFINE i == Head(strand[n]).in
<1>1. i \in InputRecords /\ Elsewhere(n) /\ approved' = approved
  BY RunsPost DEF Input, Posts
<1>2. CASE Ignore(net)
  BY <1>1, <1>2, Standing, IgnoreMoves, MovedKeeps
<1>3. CASE rt[n].state = "Controlling" /\ Lapsed(net, n)
  BY <1>1, <1>3, Standing, LapsedMoves, MovedKeeps DEF Safe
<1>4. CASE /\ rt[n].state = "Controlling" /\ i.grant = rt[n].grant
           /\ Transmit(net, n, rt[n], backend[n], Say("Input", i))
  <2>1. Fitting("Input", i, rt[n].grant) /\ "Input" \in MessageKinds /\ i \in Bodies
    BY <1>1, <1>4 DEF Fitting, OfGrant, MessageKinds, Bodies
  <2>2. Say("Input", i) \in Seq(Words(rt[n].grant))
    BY <2>1, SayType
  <2>3. rt[n].peer \in Nodes
    BY <1>4, Standing DEF Safe
  <2> QED
    BY <1>1, <1>4, <2>2, <2>3, Standing, TransmitMoves, MovedKeeps
<1> QED
  BY <1>2, <1>3, <1>4 DEF Input

LEMMA StopRuntimeStep ==
  ASSUME LeaseInv, NEW n \in Nodes, StopRuntime(n)
  PROVE  LeaseInv'
<1>1. Elsewhere(n) /\ approved' = approved
  BY RunsPost DEF StopRuntime
<1>2. CASE Ignore(net)
  BY <1>1, <1>2, Standing, IgnoreMoves, MovedKeeps
<1>3. CASE rt[n].state # "Idle" /\ Finish(net, n, rt[n], backend[n], TRUE)
  BY <1>1, <1>3, Standing, FinishMoves, MovedKeeps DEF Safe
<1> QED
  BY <1>2, <1>3 DEF StopRuntime

LEMMA ReceivesMessage ==
  ASSUME LeaseInv, NEW p \in Nodes, NEW n \in Nodes, Receives(p, n)
  PROVE  /\ Message(p, n) \in Messages /\ Popped(p, n) \in Channels
         /\ net[<<p, n>>] # <<>> /\ ~rt[n].starting
         /\ Elsewhere(n) /\ approved' = approved
<1>1. net[<<p, n>>] # <<>> /\ ~rt[n].starting /\ UNCHANGED <<strand, approved, locals, ids>>
  BY DEF Receives, counters
<1> QED
  BY <1>1, PoppedType, ElsewhereUnchanged DEF LeaseInv, Typed

LEMMA ReceiveRequestStep ==
  ASSUME LeaseInv, NEW p \in Nodes, NEW n \in Nodes, ReceiveRequest(p, n)
  PROVE  LeaseInv'
<1> DEFINE r == [IdleRuntime EXCEPT !.state = "AwaitingConsent", !.peer = p,
                                    !.req = Message(p, n).req]
<1>1. /\ Message(p, n) \in Messages /\ Popped(p, n) \in Channels
      /\ Elsewhere(n) /\ approved' = approved
  BY ReceivesMessage DEF ReceiveRequest
<1>2. CASE Ignore(Popped(p, n))
  BY <1>1, <1>2, IgnoreMoves, MovedKeeps
<1>3. CASE /\ rt[n].state = "Idle" /\ rt' = [rt EXCEPT ![n] = r]
           /\ net' = Popped(p, n) /\ backend' = backend
  <2>1. Message(p, n).req \in Nat /\ p \in Nodes \union {None}
    BY <1>1 DEF Messages
  <2>2. r \in Runtime
    BY <2>1 DEF IdleRuntime, Runtime, States
  <2>3. Safe(r, backend[n], approved[n])
    BY <1>3, Standing DEF Safe, IdleRuntime
  <2>4. Moved(n, approved[n])
    BY <1>1, <1>3, <2>2, <2>3, Standing DEF Moved, LeaseInv, Typed
  <2> QED
    BY <1>1, <2>4, MovedKeeps
<1> QED
  BY <1>2, <1>3 DEF ReceiveRequest

LEMMA ReceiveOtherStep ==
  ASSUME LeaseInv, NEW p \in Nodes, NEW n \in Nodes, ReceiveOther(p, n)
  PROVE  LeaseInv'
<1>1. Popped(p, n) \in Channels /\ Elsewhere(n) /\ approved' = approved
  BY ReceivesMessage DEF ReceiveOther
<1>2. CASE Ignore(Popped(p, n))
  BY <1>1, <1>2, IgnoreMoves, MovedKeeps
<1>3. CASE Matches(p, n) /\ Lapsed(Popped(p, n), n)
  BY <1>1, <1>3, LapsedMoves, MovedKeeps DEF Matches
<1> QED
  BY <1>2, <1>3 DEF ReceiveOther

(* A message of the session, and the Runtime that has counted it.          *)
LEMMA InSessionFacts ==
  ASSUME LeaseInv, NEW p \in Nodes, NEW n \in Nodes, InSession(p, n)
  PROVE  /\ Message(p, n) \in Messages /\ Popped(p, n) \in Channels
         /\ net[<<p, n>>] # <<>> /\ ~rt[n].starting /\ ~rt[n].revoked
         /\ Elsewhere(n) /\ approved' = approved
         /\ rt[n] \in Runtime /\ rt[n].peer = p /\ backend[n] \in Backend
         /\ Safe(rt[n], backend[n], approved[n])
         /\ Advanced(p, n) \in Runtime /\ Advanced(p, n).peer = p
         /\ Safe(Advanced(p, n), backend[n], approved[n])
         /\ Advanced(p, n).grant = rt[n].grant /\ Advanced(p, n).state = rt[n].state
         /\ ~Advanced(p, n).starting /\ ~Advanced(p, n).revoked
<1>1. Receives(p, n) /\ rt[n].peer = p /\ ~rt[n].revoked
  BY DEF InSession, Matches, Current
<1>2. /\ Message(p, n) \in Messages /\ Popped(p, n) \in Channels
      /\ net[<<p, n>>] # <<>> /\ ~rt[n].starting
      /\ Elsewhere(n) /\ approved' = approved
  BY <1>1, ReceivesMessage
<1>3. /\ rt[n] \in Runtime /\ backend[n] \in Backend
      /\ Safe(rt[n], backend[n], approved[n]) /\ Message(p, n).seq \in Nat
  BY <1>2, Standing DEF Messages
<1>4. Advanced(p, n) \in Runtime
  BY <1>3 DEF Advanced, Runtime
<1>5. LET r == Advanced(p, n) IN
        /\ r.peer = rt[n].peer /\ r.grant = rt[n].grant /\ r.state = rt[n].state
        /\ r.starting = rt[n].starting /\ r.revoked = rt[n].revoked
  BY <1>3 DEF Advanced, Runtime
<1>6. Safe(Advanced(p, n), backend[n], approved[n])
  BY <1>3, <1>5 DEF Safe
<1> QED
  BY <1>1, <1>2, <1>3, <1>4, <1>5, <1>6

(* Whatever Numbers does with a message it does not hand on is harmless.   *)
Refused(p, n) ==
  \/ Ignore(Popped(p, n)) \/ Advance(p, n, Advanced(p, n))
  \/ ProtocolError(p, n, rt[n]) \/ ProtocolError(p, n, Advanced(p, n))

LEMMA RefusedStep ==
  ASSUME LeaseInv, NEW p \in Nodes, NEW n \in Nodes, InSession(p, n), Refused(p, n)
  PROVE  LeaseInv'
<1>1. Moved(n, approved[n])
  <2>0. /\ Popped(p, n) \in Channels /\ net[<<p, n>>] # <<>>
        /\ rt[n] \in Runtime /\ rt[n].peer \in Nodes
        /\ Advanced(p, n) \in Runtime /\ Advanced(p, n).peer \in Nodes
        /\ Safe(Advanced(p, n), backend[n], approved[n])
    BY InSessionFacts
  <2>1. CASE Ignore(Popped(p, n))
    BY <2>0, <2>1, IgnoreMoves
  <2>2. CASE Advance(p, n, Advanced(p, n))
    BY <2>0, <2>2, AdvanceMoves
  <2>3. CASE ProtocolError(p, n, rt[n])
    BY <2>0, <2>3, ErrorMoves
  <2>4. CASE ProtocolError(p, n, Advanced(p, n))
    BY <2>0, <2>4, ErrorMoves
  <2> QED
    BY <2>1, <2>2, <2>3, <2>4 DEF Refused
<1> QED
  BY <1>1, InSessionFacts, MovedKeeps

-----------------------------------------------------------------------------
(* The handlers of a session's messages.                                   *)

LEMMA ReceiveEndStep ==
  ASSUME LeaseInv, NEW p \in Nodes, NEW n \in Nodes, ReceiveEnd(p, n)
  PROVE  LeaseInv'
<1>1. InSession(p, n)
  BY DEF ReceiveEnd
<1>2. CASE Ignore(Popped(p, n))
  BY <1>1, <1>2, RefusedStep DEF Refused
<1>3. CASE Finish(Popped(p, n), n, rt[n], backend[n], FALSE)
  <2>1. /\ Popped(p, n) \in Channels /\ rt[n] \in Runtime /\ rt[n].peer \in Nodes
        /\ backend[n] \in Backend /\ Elsewhere(n) /\ approved' = approved
    BY <1>1, InSessionFacts
  <2>2. Moved(n, approved[n])
    BY <1>3, <2>1, FinishMoves
  <2> QED
    BY <2>1, <2>2, MovedKeeps
<1> QED
  BY <1>2, <1>3 DEF ReceiveEnd

LEMMA ReceiveGrantStep ==
  ASSUME LeaseInv, NEW p \in Nodes, NEW n \in Nodes, ReceiveGrant(p, n)
  PROVE  LeaseInv'
<1> DEFINE r == [rt[n] EXCEPT !.state = "AwaitingActivation", !.grant = Message(p, n).grant,
                              !.ping = FALSE, !.tx = 0, !.rx = 0]
<1>1. InSession(p, n)
  BY DEF ReceiveGrant
<1>2. CASE Ignore(Popped(p, n))
  BY <1>1, <1>2, RefusedStep DEF Refused
<1>3. CASE /\ rt[n].state = "Requesting"
           /\ rt' = [rt EXCEPT ![n].state = "AwaitingActivation", ![n].grant = Message(p, n).grant,
                              ![n].ping = FALSE, ![n].tx = 0, ![n].rx = 0]
           /\ net' = Popped(p, n) /\ backend' = backend
  <2>1. rt[n] \in Runtime /\ Message(p, n).grant \in Nat
    BY <1>1, InSessionFacts DEF Messages
  <2>2. r \in Runtime
    BY <2>1 DEF Runtime, States
  <2>3. /\ rt' = [rt EXCEPT ![n] = r] /\ r.state = "AwaitingActivation" /\ r.peer = rt[n].peer
        /\ r.starting = rt[n].starting
    BY <1>3, <2>1 DEF LeaseInv, Typed, Runtime
  <2>4. Safe(r, backend[n], approved[n])
    BY <1>1, <1>3, <2>3, InSessionFacts DEF Safe
  <2>5. backend' = [backend EXCEPT ![n] = backend[n]] /\ backend[n] \in Backend
    BY <1>3, Standing DEF LeaseInv, Typed
  <2>6. net' \in Channels
    BY <1>1, <1>3, InSessionFacts
  <2>7. Moved(n, approved[n])
    BY <2>2, <2>3, <2>4, <2>5, <2>6 DEF Moved
  <2> QED
    BY <1>1, <2>7, InSessionFacts, MovedKeeps
<1> QED
  BY <1>2, <1>3 DEF ReceiveGrant

LEMMA ReceiveReadyStep ==
  ASSUME LeaseInv, NEW p \in Nodes, NEW n \in Nodes, ReceiveReady(p, n)
  PROVE  LeaseInv'
<1> DEFINE r == [Advanced(p, n) EXCEPT !.starting = TRUE]
<1>1. InSession(p, n)
  BY DEF ReceiveReady
<1>2. CASE Refused(p, n)
  BY <1>1, <1>2, RefusedStep
<1>3. CASE rt[n].state = "AwaitingReady" /\ Advance(p, n, r)
  <2>1. Advanced(p, n) \in Runtime
    BY <1>1, InSessionFacts
  <2>2. /\ r \in Runtime /\ r.state = Advanced(p, n).state /\ r.peer = Advanced(p, n).peer
        /\ r.grant = Advanced(p, n).grant /\ r.revoked = Advanced(p, n).revoked
    BY <2>1 DEF Runtime
  <2>3. Safe(r, backend[n], approved[n])
    BY <1>1, <1>3, <2>2, InSessionFacts DEF Safe
  <2> QED
    BY <1>1, <1>3, <2>2, <2>3, InSessionFacts, AdvanceMoves, MovedKeeps
<1> QED
  BY <1>2, <1>3 DEF ReceiveReady, Numbers, Refused

LEMMA ReceivePingStep ==
  ASSUME LeaseInv, NEW p \in Nodes, NEW n \in Nodes, ReceivePing(p, n)
  PROVE  LeaseInv'
<1>1. InSession(p, n)
  BY DEF ReceivePing
<1>2. CASE Refused(p, n)
  BY <1>1, <1>2, RefusedStep
<1>3. CASE Transmit(Popped(p, n), n, Advanced(p, n), backend[n], Say("Pong", None))
  <2>1. Say("Pong", None) \in Seq(Words(Advanced(p, n).grant))
    BY SayType DEF Bodies, MessageKinds, Fitting
  <2> QED
    BY <1>1, <1>3, <2>1, InSessionFacts, TransmitMoves, MovedKeeps
<1> QED
  BY <1>2, <1>3 DEF ReceivePing, Numbers, Refused

LEMMA ReceivePongStep ==
  ASSUME LeaseInv, NEW p \in Nodes, NEW n \in Nodes, ReceivePong(p, n)
  PROVE  LeaseInv'
<1>1. InSession(p, n)
  BY DEF ReceivePong
<1>2. CASE Refused(p, n)
  BY <1>1, <1>2, RefusedStep
<1>3. ASSUME NEW answered \in BOOLEAN,
             Advance(p, n, [Advanced(p, n) EXCEPT !.ping = @ /\ ~answered])
      PROVE  LeaseInv'
  <2> DEFINE r == [Advanced(p, n) EXCEPT !.ping = @ /\ ~answered]
  <2>1. Advanced(p, n) \in Runtime
    BY <1>1, InSessionFacts
  <2>2. r \in Runtime
    <3>1. \A v \in BOOLEAN : [Advanced(p, n) EXCEPT !.ping = v] \in Runtime
      BY <2>1 DEF Runtime
    <3> QED
      BY <3>1
  <2>3. /\ r.state = Advanced(p, n).state /\ r.peer = Advanced(p, n).peer
        /\ r.grant = Advanced(p, n).grant /\ r.revoked = Advanced(p, n).revoked
        /\ r.starting = Advanced(p, n).starting
    BY <2>1 DEF Runtime
  <2>4. Safe(r, backend[n], approved[n])
    BY <1>1, <2>3, InSessionFacts DEF Safe
  <2> QED
    BY <1>1, <1>3, <2>2, <2>4, InSessionFacts, AdvanceMoves, MovedKeeps
<1> QED
  BY <1>2, <1>3 DEF ReceivePong, Numbers, Refused

(* What the input owner's operations do to lease and queue.                *)
LEMMA SuspendType ==
  ASSUME NEW b \in Backend
  PROVE  /\ Suspend(b) \in Backend
         /\ Suspend(b).lease = b.lease /\ Suspend(b).queue = b.queue
<1>1. (IF b.paused THEN b.epoch ELSE b.epoch + 1) \in Nat
  BY DEF Backend
<1>2. \A e \in Nat : [b EXCEPT !.epoch = e, !.paused = TRUE] \in Backend
  BY DEF Backend
<1>3. Suspend(b) \in Backend
  BY <1>1, <1>2 DEF Suspend
<1>4. Suspend(b).lease = b.lease /\ Suspend(b).queue = b.queue
  BY DEF Suspend, Backend
<1> QED
  BY <1>3, <1>4

LEMMA PauseInputType ==
  ASSUME NEW b \in Backend, NEW value \in BOOLEAN
  PROVE  /\ PauseInput(b, value) \in Backend
         /\ PauseInput(b, value).lease = b.lease /\ PauseInput(b, value).queue = <<>>
<1>1. Suspend(b) \in Backend /\ Suspend(b).lease = b.lease
  BY SuspendType
<1>2. \A c \in Backend :
        /\ [c EXCEPT !.remotePaused = value, !.queue = <<>>] \in Backend
        /\ [c EXCEPT !.remotePaused = value, !.queue = <<>>].lease = c.lease
        /\ [c EXCEPT !.remotePaused = value, !.queue = <<>>].queue = <<>>
  BY EmptySeq DEF Backend
<1> QED
  BY <1>1, <1>2 DEF PauseInput

LEMMA StartInputType ==
  ASSUME NEW b \in Backend, NEW g \in Nat
  PROVE  /\ StartInput(b, g) \in Backend
         /\ StartInput(b, g).lease = g /\ StartInput(b, g).queue = <<>>
<1>1. Suspend(b) \in Backend
  BY SuspendType
<1>2. \A c \in Backend :
        /\ [c EXCEPT !.lease = g, !.queue = <<>>, !.remotePaused = FALSE] \in Backend
        /\ [c EXCEPT !.lease = g, !.queue = <<>>, !.remotePaused = FALSE].lease = g
        /\ [c EXCEPT !.lease = g, !.queue = <<>>, !.remotePaused = FALSE].queue = <<>>
  BY EmptySeq DEF Backend
<1> QED
  BY <1>1, <1>2 DEF StartInput

(* The host's report of its input status.                                  *)
LEMMA StatusType ==
  ASSUME NEW r \in Runtime, NEW b, b.epoch \in Nat, b.paused \in BOOLEAN
  PROVE  /\ Status(r, b) \in Runtime /\ Status(r, b).state = r.state
         /\ Status(r, b).grant = r.grant /\ Status(r, b).peer = r.peer
         /\ Status(r, b).revoked = r.revoked /\ Status(r, b).starting = r.starting
BY DEF Status, Runtime

LEMMA ReportType ==
  ASSUME NEW r \in Runtime, NEW b \in Backend
  PROVE  Report(r, b) \in Seq(Words(r.grant))
<1> DEFINE body == [focus |-> r.focus, epoch |-> b.epoch, paused |-> b.paused]
<1>1. body \in Reports
  BY DEF Reports, Runtime, Backend
<1>2. Fitting("InputState", body, r.grant) /\ body \in Bodies /\ "InputState" \in MessageKinds
  BY <1>1 DEF Fitting, Bodies, MessageKinds
<1> QED
  BY <1>2, SayType DEF Report

LEMMA ReceivePauseStep ==
  ASSUME LeaseInv, NEW p \in Nodes, NEW n \in Nodes, ReceivePause(p, n)
  PROVE  LeaseInv'
<1> DEFINE value == Message(p, n).kind = "Pause"
           b == PauseInput(backend[n], value)
           s == [Advanced(p, n) EXCEPT !.focus = @ + 1, !.pausedHere = value]
           r == Status(s, b)
<1>1. InSession(p, n)
  BY DEF ReceivePause
<1>2. CASE Refused(p, n)
  BY <1>1, <1>2, RefusedStep
<1>3. CASE Transmit(Popped(p, n), n, r, b, Report(r, b))
  <2>1. Advanced(p, n) \in Runtime /\ backend[n] \in Backend /\ value \in BOOLEAN
    BY <1>1, InSessionFacts
  <2>2. b \in Backend /\ b.lease = backend[n].lease /\ b.queue = <<>>
    BY <2>1, PauseInputType
  <2>3. /\ s \in Runtime /\ s.state = Advanced(p, n).state /\ s.peer = Advanced(p, n).peer
        /\ s.grant = Advanced(p, n).grant /\ s.revoked = Advanced(p, n).revoked
        /\ s.starting = Advanced(p, n).starting
    <3>1. Advanced(p, n).focus + 1 \in Nat
      BY <2>1 DEF Runtime
    <3>2. \A f \in Nat, v \in BOOLEAN : [Advanced(p, n) EXCEPT !.focus = f, !.pausedHere = v] \in Runtime
      BY <2>1 DEF Runtime
    <3>3. s \in Runtime
      BY <2>1, <3>1, <3>2
    <3> QED
      BY <2>1, <3>3 DEF Runtime
  <2>4. b.epoch \in Nat /\ b.paused \in BOOLEAN
    BY <2>2 DEF Backend
  <2> HIDE DEF b, s
  <2>5. /\ r \in Runtime /\ r.state = Advanced(p, n).state /\ r.peer = Advanced(p, n).peer
        /\ r.grant = Advanced(p, n).grant /\ r.revoked = Advanced(p, n).revoked
        /\ r.starting = Advanced(p, n).starting
    BY <2>3, <2>4, StatusType
  <2> HIDE DEF r
  <2>6. Safe(r, b, approved[n]) /\ r.peer \in Nodes
    BY <1>1, <2>2, <2>5, InSessionFacts, EmptySeq DEF Safe
  <2>7. Report(r, b) \in Seq(Words(r.grant))
    BY <2>2, <2>5, ReportType
  <2>8. Popped(p, n) \in Channels
    BY <1>1, InSessionFacts
  <2>9. Moved(n, approved[n])
    BY <1>3, <2>2, <2>5, <2>6, <2>7, <2>8, TransmitMoves
  <2> QED
    BY <1>1, <2>9, InSessionFacts, MovedKeeps
<1> QED
  BY <1>2, <1>3 DEF ReceivePause, Numbers, Refused

LEMMA ReceiveInputStateStep ==
  ASSUME LeaseInv, NEW p \in Nodes, NEW n \in Nodes, ReceiveInputState(p, n)
  PROVE  LeaseInv'
<1> DEFINE r == Status(Advanced(p, n), Message(p, n).body)
<1>1. InSession(p, n) /\ Message(p, n).kind = "InputState"
  BY DEF ReceiveInputState
<1>2. CASE Refused(p, n)
  BY <1>1, <1>2, RefusedStep
<1>3. CASE Advance(p, n, r)
  <2>1. Message(p, n).body \in Reports
    BY <1>1, InSessionFacts DEF Messages, Fitting
  <2>2. Message(p, n).body.epoch \in Nat /\ Message(p, n).body.paused \in BOOLEAN
    BY <2>1 DEF Reports
  <2>3. Advanced(p, n) \in Runtime /\ net[<<p, n>>] # <<>>
    BY <1>1, InSessionFacts
  <2>4. /\ r \in Runtime /\ r.state = Advanced(p, n).state /\ r.peer = Advanced(p, n).peer
        /\ r.grant = Advanced(p, n).grant /\ r.revoked = Advanced(p, n).revoked
        /\ r.starting = Advanced(p, n).starting
    BY <2>2, <2>3, StatusType
  <2> HIDE DEF r
  <2>5. Safe(r, backend[n], approved[n])
    BY <1>1, <2>4, InSessionFacts DEF Safe
  <2>6. Moved(n, approved[n])
    BY <1>3, <2>3, <2>4, <2>5, AdvanceMoves
  <2> QED
    BY <1>1, <2>6, InSessionFacts, MovedKeeps
<1> QED
  BY <1>2, <1>3 DEF ReceiveInputState, Numbers, Refused

(* Queued input stays input of the lease.                                  *)
LEMMA QueueType ==
  ASSUME NEW b \in Backend, NEW g, b.queue \in Seq(OfGrant(g)), NEW i \in OfGrant(g)
  PROVE  /\ Queue(b, i) \in Backend
         /\ Queue(b, i).lease = b.lease /\ Queue(b, i).queue \in Seq(OfGrant(g))
<1>1. OfGrant(g) \subseteq InputRecords
  BY DEF OfGrant
<1>2. ASSUME NEW q \in Seq(OfGrant(g))
      PROVE  /\ [b EXCEPT !.queue = q] \in Backend
             /\ [b EXCEPT !.queue = q].lease = b.lease
             /\ [b EXCEPT !.queue = q].queue = q
  <2>1. q \in Seq(InputRecords)
    BY <1>1, SeqMonotonic
  <2> QED
    BY <2>1 DEF Backend
<1>3. CASE Supersedes(b, i)
  <2>1. Len(b.queue) \in 1 .. Len(b.queue)
    BY <1>3, LenProperties, EmptySeq DEF Supersedes
  <2>2. [b.queue EXCEPT ![Len(b.queue)] = i] \in Seq(OfGrant(g))
    BY <2>1, ExceptSeq
  <2>3. Queue(b, i) = [b EXCEPT !.queue = [b.queue EXCEPT ![Len(b.queue)] = i]]
    BY <1>3 DEF Queue
  <2> QED
    BY <1>2, <2>2, <2>3
<1>4. CASE ~Supersedes(b, i)
  <2>1. Append(b.queue, i) \in Seq(OfGrant(g))
    BY AppendProperties
  <2>2. Queue(b, i) = [b EXCEPT !.queue = Append(b.queue, i)]
    BY <1>4 DEF Queue
  <2> QED
    BY <1>2, <2>1, <2>2
<1> QED
  BY <1>3, <1>4

LEMMA ReceiveInputStep ==
  ASSUME LeaseInv, NEW p \in Nodes, NEW n \in Nodes, ReceiveInput(p, n)
  PROVE  LeaseInv'
<1> DEFINE i == Message(p, n).body
           b == backend[n]
           d == IF Accepts(b, i.epoch) THEN Queue(b, i) ELSE b
<1>1. InSession(p, n) /\ Message(p, n).kind = "Input"
  BY DEF ReceiveInput
<1>2. CASE Refused(p, n)
  BY <1>1, <1>2, RefusedStep
<1>3. CASE Finish(Popped(p, n), n, Advanced(p, n), b, TRUE)
  <2>1. /\ Popped(p, n) \in Channels /\ Advanced(p, n) \in Runtime
        /\ Advanced(p, n).peer \in Nodes /\ b \in Backend
    BY <1>1, InSessionFacts
  <2>2. Moved(n, approved[n])
    BY <1>3, <2>1, FinishMoves
  <2> QED
    BY <1>1, <2>2, InSessionFacts, MovedKeeps
<1>4. CASE /\ Message(p, n).grant = rt[n].grant /\ Permits(n)
           /\ rt' = [rt EXCEPT ![n] = Advanced(p, n)]
           /\ backend' = [backend EXCEPT ![n] = d]
           /\ net' = Popped(p, n)
  <2>1. b \in Backend /\ b.lease = rt[n].grant /\ b.queue \in Seq(OfGrant(b.lease))
    BY <1>1, <1>4, InSessionFacts DEF Permits, Safe
  <2>2. i \in OfGrant(b.lease)
    <3>1. Message(p, n) \in Messages
      BY <1>1, InSessionFacts
    <3>2. i \in OfGrant(Message(p, n).grant)
      BY <1>1, <3>1 DEF Messages, Fitting
    <3> QED
      BY <1>4, <2>1, <3>2
  <2>3. d \in Backend /\ d.lease = b.lease /\ d.queue \in Seq(OfGrant(b.lease))
    BY <2>1, <2>2, QueueType
  <2>4. Safe(Advanced(p, n), b, approved[n]) /\ Advanced(p, n) \in Runtime /\ Popped(p, n) \in Channels
    BY <1>1, InSessionFacts
  <2> HIDE DEF d, b
  <2>5. Safe(Advanced(p, n), d, approved[n])
    BY <2>3, <2>4 DEF Safe
  <2>6. Moved(n, approved[n])
    BY <1>4, <2>3, <2>4, <2>5 DEF Moved
  <2> QED
    BY <1>1, <2>6, InSessionFacts, MovedKeeps
<1> QED
  BY <1>2, <1>3, <1>4 DEF ReceiveInput, Numbers, Refused

-----------------------------------------------------------------------------
(* The second half of Ready, the tick, and time.                           *)

LEMMA StartBackendStep ==
  ASSUME LeaseInv, NEW n \in Nodes, StartBackend(n)
  PROVE  LeaseInv'
<1> DEFINE b == StartInput(backend[n], rt[n].grant)
           s == [rt[n] EXCEPT !.starting = FALSE, !.state = "Controlled", !.ping = FALSE]
           r == Status(s, b)
<1>1. /\ rt[n] \in Runtime /\ backend[n] \in Backend /\ rt[n].grant \in Nat
      /\ rt[n].state = "AwaitingReady" /\ rt[n].peer \in Nodes
      /\ ~rt[n].revoked => rt[n].grant \in approved[n]
  BY Standing DEF StartBackend, Safe, Runtime
<1>2. Elsewhere(n) /\ approved' = approved
  BY ElsewhereUnchanged DEF StartBackend, counters, LeaseInv, Typed
<1>3. CASE Finish(net, n, rt[n], backend[n], TRUE)
  BY <1>1, <1>2, <1>3, Standing, FinishMoves, MovedKeeps
<1>4. CASE Transmit(net, n, r, b, Report(r, b))
  <2>1. b \in Backend /\ b.lease = rt[n].grant /\ b.queue = <<>>
    BY <1>1, StartInputType
  <2>2. s \in Runtime
    BY <1>1 DEF Runtime, States
  <2>3. /\ s.state = "Controlled" /\ s.peer = rt[n].peer /\ s.grant = rt[n].grant
        /\ s.revoked = rt[n].revoked /\ ~s.starting
    BY <1>1 DEF Runtime
  <2>4. b.epoch \in Nat /\ b.paused \in BOOLEAN
    BY <2>1 DEF Backend
  <2> HIDE DEF b, s
  <2>5. /\ r \in Runtime /\ r.state = "Controlled" /\ r.peer = rt[n].peer
        /\ r.grant = rt[n].grant /\ r.revoked = rt[n].revoked /\ ~r.starting
    BY <2>2, <2>3, <2>4, StatusType
  <2> HIDE DEF r
  <2>6. Safe(r, b, approved[n]) /\ r.peer \in Nodes
    BY <1>1, <2>1, <2>5, EmptySeq DEF Safe
  <2>7. Report(r, b) \in Seq(Words(r.grant))
    BY <2>1, <2>5, ReportType
  <2>8. Moved(n, approved[n])
    BY <1>4, <2>1, <2>5, <2>6, <2>7, Standing, TransmitMoves
  <2> QED
    BY <1>2, <2>8, MovedKeeps
<1> QED
  BY <1>3, <1>4 DEF StartBackend

(* A heartbeat: the status that has changed, and perhaps a Ping.           *)
LEMMA BeatMoves ==
  ASSUME LeaseInv, NEW n \in Nodes, rt[n].peer \in Nodes, Beat(n)
  PROVE  Moved(n, approved[n]) /\ ids' = ids
<1> DEFINE b == backend[n]
           news == Host(rt[n]) /\ <<b.epoch, b.paused>> # <<rt[n].epoch, rt[n].paused>>
           r == IF news THEN Status(rt[n], b) ELSE rt[n]
           s == [r EXCEPT !.ping = TRUE]
           out(ping) == (IF news THEN Report(r, b) ELSE <<>>) \o (IF ping THEN Say("Ping", None) ELSE <<>>)
<1>1. b \in Backend /\ b.epoch \in Nat /\ b.paused \in BOOLEAN /\ rt[n] \in Runtime
      /\ Safe(rt[n], b, approved[n])
  BY Standing DEF Backend
<1>2. CASE Transmit(net, n, r, b, out(FALSE)) \/ Transmit(net, n, s, b, out(TRUE))
  <2>1. /\ r \in Runtime /\ r.state = rt[n].state /\ r.peer = rt[n].peer
        /\ r.grant = rt[n].grant /\ r.revoked = rt[n].revoked /\ r.starting = rt[n].starting
    BY <1>1, StatusType
  <2> HIDE DEF r
  <2>2. /\ s \in Runtime /\ s.state = rt[n].state /\ s.peer = rt[n].peer
        /\ s.grant = rt[n].grant /\ s.revoked = rt[n].revoked /\ s.starting = rt[n].starting
    BY <2>1 DEF Runtime
  <2>3. Safe(r, b, approved[n]) /\ Safe(s, b, approved[n])
    BY <1>1, <2>1, <2>2 DEF Safe
  <2>4. (IF news THEN Report(r, b) ELSE <<>>) \in Seq(Words(r.grant))
    BY <1>1, <2>1, ReportType, EmptySeq
  <2>5. <<>> \in Seq(Words(r.grant)) /\ Say("Ping", None) \in Seq(Words(r.grant))
    BY SayType, EmptySeq DEF Bodies, MessageKinds, Fitting
  <2> HIDE DEF news
  <2>6. out(FALSE) \in Seq(Words(r.grant)) /\ out(TRUE) \in Seq(Words(r.grant))
    BY <2>4, <2>5, ConcatProperties
  <2>7. out(TRUE) \in Seq(Words(s.grant))
    BY <2>1, <2>2, <2>6
  <2> HIDE DEF out, s, b
  <2>8. ASSUME Transmit(net, n, r, b, out(FALSE)) PROVE Moved(n, approved[n])
    BY <1>1, <2>1, <2>3, <2>6, <2>8, Standing, TransmitMoves
  <2>9. ASSUME Transmit(net, n, s, b, out(TRUE)) PROVE Moved(n, approved[n])
    BY <1>1, <2>2, <2>3, <2>7, <2>9, Standing, TransmitMoves
  <2>10. ids' = ids
    BY DEF Beat, counters, Act
  <2> QED
    BY <1>2, <2>8, <2>9, <2>10
<1> QED
  BY <1>2 DEF Beat

LEMMA TickStep ==
  ASSUME LeaseInv, NEW n \in Nodes, Tick(n)
  PROVE  LeaseInv'
<1>1. UNCHANGED <<strand, approved, locals>>
  BY DEF Tick
<1>2. Moved(n, approved[n]) /\ ids' = ids
  <2>1. CASE overflow[n]
    <3>1. ids' = ids
      BY <2>1 DEF Tick, counters
    <3>2. CASE Ignore(net)
      BY <3>1, <3>2, Standing, IgnoreMoves
    <3>3. CASE rt[n].state # "Idle" /\ Finish(net, n, rt[n], backend[n], TRUE)
      BY <3>1, <3>3, Standing, FinishMoves DEF Safe
    <3> QED
      BY <2>1, <3>2, <3>3 DEF Tick
  <2>2. CASE ~overflow[n]
    <3>1. rt[n].state # "Idle" => rt[n].peer \in Nodes
      BY Standing DEF Safe
    <3>2. CASE rt[n].state # "Idle" /\ Lapsed(net, n) /\ UNCHANGED counters
      <4>1. Moved(n, approved[n])
        BY <3>1, <3>2, Standing, LapsedMoves
      <4> QED
        BY <3>2, <4>1 DEF counters
    <3>3. CASE Established(n) /\ Beat(n)
      <4>1. rt[n].peer \in Nodes
        BY <3>1, <3>3 DEF Established
      <4> QED
        BY <3>3, <4>1, BeatMoves
    <3> QED
      BY <2>2, <3>2, <3>3 DEF Tick
  <2> QED
    BY <2>1, <2>2
<1> QED
  BY <1>1, <1>2, ElsewhereUnchanged, MovedKeeps DEF LeaseInv, Typed

LEMMA LapseStep ==
  ASSUME LeaseInv, NEW n \in Nodes, Lapse(n)
  PROVE  LeaseInv'
<1> DEFINE r == [rt[n] EXCEPT !.lapsed = TRUE]
<1>1. rt[n] \in Runtime /\ rt' = [rt EXCEPT ![n] = r]
  BY Standing DEF Lapse, LeaseInv, Typed, Runtime
<1>2. /\ r \in Runtime /\ r.state = rt[n].state /\ r.peer = rt[n].peer
      /\ r.grant = rt[n].grant /\ r.revoked = rt[n].revoked /\ r.starting = rt[n].starting
  BY <1>1 DEF Runtime
<1>3. Safe(r, backend[n], approved[n])
  BY <1>2, Standing DEF Safe
<1>4. Moved(n, approved[n])
  BY <1>1, <1>2, <1>3 DEF Moved, Lapse, LeaseInv, Typed
<1>5. Elsewhere(n) /\ approved' = approved
  BY ElsewhereUnchanged DEF Lapse, counters, LeaseInv, Typed
<1> QED
  BY <1>4, <1>5, MovedKeeps

-----------------------------------------------------------------------------
(* The input thread: it may give the lease up, never take another.         *)

LEMMA InterruptStep ==
  ASSUME LeaseInv, NEW n \in Nodes, NEW b \in Backend, Interrupt(n, b),
         b.lease \in {0, backend[n].lease}, b.queue \in Seq(OfGrant(b.lease)),
         locals' \in [Nodes -> Nat], ids' = ids
  PROVE  LeaseInv'
<1>1. Safe(rt[n], b, approved[n]) /\ rt[n] \in Runtime
  BY Standing DEF Safe
<1>2. Moved(n, approved[n])
  BY <1>1 DEF Moved, Interrupt, LeaseInv, Typed
<1>3. Elsewhere(n) /\ approved' = approved
  BY DEF Interrupt, Elsewhere, LeaseInv, Typed
<1> QED
  BY <1>2, <1>3, MovedKeeps

(* A step of the thread that is no interference of the user.               *)
LEMMA NativeStep ==
  ASSUME LeaseInv, NEW n \in Nodes, NEW b \in Backend, Native(n, b), UNCHANGED locals,
         b.lease \in {0, backend[n].lease}, b.queue \in Seq(OfGrant(b.lease))
  PROVE  LeaseInv'
BY InterruptStep DEF Native, counters, LeaseInv, Typed

LEMMA DisarmStep ==
  ASSUME LeaseInv, NEW n \in Nodes, Disarm(n)
  PROVE  LeaseInv'
<1> DEFINE b == [backend[n] EXCEPT !.lease = 0, !.queue = <<>>]
<1>1. backend[n] \in Backend
  BY Standing
<1>2. b \in Backend /\ b.lease = 0 /\ b.queue = <<>>
  BY <1>1, EmptySeq DEF Backend
<1> QED
  BY <1>2, NativeStep, EmptySeq DEF Disarm

LEMMA ReleaseStep ==
  ASSUME LeaseInv, NEW n \in Nodes, Release(n)
  PROVE  LeaseInv'
<1> DEFINE b == [backend[n] EXCEPT !.held = FALSE]
<1>1. backend[n] \in Backend /\ backend[n].queue \in Seq(OfGrant(backend[n].lease))
  BY Standing DEF Safe
<1>2. b \in Backend /\ b.lease = backend[n].lease /\ b.queue = backend[n].queue
  BY <1>1 DEF Backend
<1> QED
  BY <1>1, <1>2, NativeStep DEF Release

LEMMA QuietStep ==
  ASSUME LeaseInv, NEW n \in Nodes, Quiet(n)
  PROVE  LeaseInv'
<1> DEFINE b == [backend[n] EXCEPT !.quiet = TRUE]
<1>1. backend[n] \in Backend /\ backend[n].queue \in Seq(OfGrant(backend[n].lease))
  BY Standing DEF Safe
<1>2. b \in Backend /\ b.lease = backend[n].lease /\ b.queue = backend[n].queue
  BY <1>1 DEF Backend
<1> QED
  BY <1>1, <1>2, NativeStep DEF Quiet

LEMMA YieldStep ==
  ASSUME LeaseInv, NEW n \in Nodes, NEW released \in BOOLEAN, Yield(n, released)
  PROVE  LeaseInv'
<1> DEFINE b == [backend[n] EXCEPT !.held = @ /\ ~released, !.queue = <<>>]
           d == [b EXCEPT !.paused = FALSE, !.epoch = @ + 1]
<1>1. backend[n] \in Backend
  BY Standing
<1>2. b \in Backend /\ b.lease = backend[n].lease /\ b.queue = <<>>
  <2>1. \A v \in BOOLEAN : [backend[n] EXCEPT !.held = v, !.queue = <<>>] \in Backend
    BY <1>1, EmptySeq DEF Backend
  <2>2. b \in Backend
    BY <2>1
  <2> QED
    BY <1>1, <2>2 DEF Backend
<1> HIDE DEF b
<1>3. d \in Backend /\ d.lease = b.lease /\ d.queue = <<>>
  <2>1. b.epoch + 1 \in Nat
    BY <1>2 DEF Backend
  <2> QED
    BY <1>2, <2>1 DEF Backend
<1>4. (Native(n, d) \/ Native(n, b)) /\ UNCHANGED locals
  BY DEF Yield, b
<1> QED
  BY <1>2, <1>3, <1>4, NativeStep, EmptySeq

LEMMA InjectStep ==
  ASSUME LeaseInv, NEW n \in Nodes, NEW down \in BOOLEAN, Inject(n, down)
  PROVE  LeaseInv'
<1> DEFINE held == IF Injects(n) /\ Head(backend[n].queue).key THEN down ELSE backend[n].held
           b == [backend[n] EXCEPT !.queue = Tail(@), !.held = held]
<1>1. backend[n] \in Backend /\ backend[n].queue \in Seq(OfGrant(backend[n].lease))
  BY Standing DEF Safe
<1>2. Native(n, b) /\ UNCHANGED locals /\ backend[n].queue # <<>>
  BY <1>1 DEF Inject, Backend
<1>3. held \in BOOLEAN
  BY <1>1 DEF Backend
<1>4. /\ Tail(backend[n].queue) \in Seq(OfGrant(backend[n].lease))
      /\ Tail(backend[n].queue) \in Seq(InputRecords)
  BY <1>1, <1>2, HeadTailProperties DEF Backend
<1> HIDE DEF held
<1>5. b \in Backend /\ b.lease = backend[n].lease /\ b.queue = Tail(backend[n].queue)
  BY <1>1, <1>3, <1>4 DEF Backend
<1> QED
  BY <1>2, <1>4, <1>5, NativeStep

LEMMA LocalActivityStep ==
  ASSUME LeaseInv, NEW n \in Nodes, NEW released \in BOOLEAN, LocalActivity(n, released)
  PROVE  LeaseInv'
<1> DEFINE c == Suspend(backend[n])
           b == [c EXCEPT !.queue = <<>>, !.quiet = FALSE, !.held = @ /\ ~released]
<1>1. backend[n] \in Backend
  BY Standing
<1>2. c \in Backend /\ c.lease = backend[n].lease
  BY <1>1, SuspendType
<1>3. Interrupt(n, b) /\ ids' = ids /\ locals' \in [Nodes -> Nat]
  BY DEF LocalActivity, Act, LeaseInv, Typed
<1> HIDE DEF c
<1>4. b \in Backend /\ b.lease = c.lease /\ b.queue = <<>>
  <2>1. \A v \in BOOLEAN : [c EXCEPT !.queue = <<>>, !.quiet = FALSE, !.held = v] \in Backend
    BY <1>2, EmptySeq DEF Backend
  <2>2. b \in Backend
    BY <2>1
  <2> QED
    BY <1>2, <2>2 DEF Backend
<1> QED
  BY <1>2, <1>3, <1>4, InterruptStep, EmptySeq

-----------------------------------------------------------------------------
(* The theorem.                                                            *)

LEMMA LeaseInvInit == Init => LeaseInv
<1> SUFFICES ASSUME Init PROVE LeaseInv
  OBVIOUS
<1>1. Typed
  BY FreshRecords, EmptySeq DEF Init, Typed, Channels
<1>2. \A n \in Nodes : Safe(rt[n], backend[n], approved[n])
  BY FreshRecords DEF Init
<1> QED
  BY <1>1, <1>2 DEF LeaseInv

LEMMA UiStep ==
  ASSUME LeaseInv, NEW n \in Nodes, Ui(n)
  PROVE  LeaseInv'
BY RequestStep, ConsentStep, ActivateStep, PauseStep, MakeInputStep, StopStep DEF Ui

LEMMA ReceiveStep ==
  ASSUME LeaseInv, NEW p \in Nodes, NEW n \in Nodes, Receive(p, n)
  PROVE  LeaseInv'
BY ReceiveRequestStep, ReceiveOtherStep, ReceiveEndStep, ReceiveGrantStep, ReceiveReadyStep,
   ReceivePingStep, ReceivePongStep, ReceivePauseStep, ReceiveInputStateStep, ReceiveInputStep
   DEF Receive

LEMMA InputThreadStep ==
  ASSUME LeaseInv, NEW n \in Nodes, InputThread(n)
  PROVE  LeaseInv'
BY DisarmStep, ReleaseStep, QuietStep, InjectStep, YieldStep, LocalActivityStep DEF InputThread

LEMMA LeaseInvStep == LeaseInv /\ [Next]_vars => LeaseInv'
<1> SUFFICES ASSUME LeaseInv, [Next]_vars PROVE LeaseInv'
  OBVIOUS
<1>1. CASE UNCHANGED vars
  BY <1>1 DEF vars, counters, LeaseInv, Typed
<1>2. ASSUME NEW n \in Nodes, Ui(n) \/ Posted(n) \/ StartBackend(n) \/ Tick(n)
                             \/ InputThread(n) \/ Lapse(n)
      PROVE  LeaseInv'
  BY <1>2, UiStep, InputStep, StopRuntimeStep, StartBackendStep, TickStep, InputThreadStep,
     LapseStep DEF Posted
<1>3. ASSUME NEW p \in Nodes, NEW n \in Nodes, Receive(p, n) \/ LoseMessage(p, n)
      PROVE  LeaseInv'
  BY <1>3, ReceiveStep, LoseMessageStep
<1> QED
  BY <1>1, <1>2, <1>3 DEF Next

(* What the input thread may inject belongs to a grant that the user has   *)
(* allowed and has not taken back, whatever the queues hold.               *)
LEMMA LeaseIsApproved == LeaseInv => OnlyApprovedInput
<1> SUFFICES ASSUME LeaseInv, NEW n \in Nodes, Injects(n)
             PROVE  Head(backend[n].queue).grant \in approved[n]
  BY DEF OnlyApprovedInput
<1>1. /\ backend[n].lease # 0 /\ ~rt[n].revoked /\ backend[n].queue # <<>>
  BY DEF Injects, Permits
<1>2. /\ rt[n].state = "Controlled" /\ backend[n].lease = rt[n].grant
      /\ backend[n].queue \in Seq(OfGrant(backend[n].lease)) /\ rt[n].grant \in approved[n]
  BY <1>1, Standing DEF Safe
<1>3. Head(backend[n].queue) \in OfGrant(backend[n].lease)
  BY <1>1, <1>2, HeadTailProperties
<1> QED
  BY <1>2, <1>3 DEF OfGrant

(* Nothing is injected on a shared desktop that its user has not allowed:  *)
(* Runtime::consent (remote_control.cpp) and stopRemoteControl             *)
(* (meeting_remote_control.cpp) against submit and run (remote_input.cpp). *)
THEOREM OnlyApproved == Spec => []OnlyApprovedInput
<1>1. Spec => []LeaseInv
  BY LeaseInvInit, LeaseInvStep, PTL DEF Spec
<1> QED
  BY <1>1, LeaseIsApproved, PTL

-----------------------------------------------------------------------------
(***************************************************************************)
(* The protocol. The inductive invariant speaks of the sessions one by     *)
(* one. A session is a grant: L is the list of all that were ever issued,  *)
(* with the host, the guest (who controls) and the request of each. What   *)
(* either side and the two channels between them hold of a session is      *)
(* consistent, whichever of them has forgotten it. The invariant is a      *)
(* predicate of the values of the variables and not of the state, since a  *)
(* handler is proved as a sequence of small changes: it reads, it answers, *)
(* it forgets.                                                             *)
(***************************************************************************)

Deals == [host : Nodes, guest : Nodes, req : Nat]

(* What a host sends of a session, and what a guest sends.                 *)
Downward == {"Grant", "InputState", "Ping", "Pong", "End"}
Upward == {"Ready", "Ping", "Pong", "Pause", "Resume", "Input", "End"}
Refocus == {"Pause", "Resume"}

(* A channel keeps the order of sending within a session.                  *)
InOrder(x, y) ==
  /\ y.kind # "Grant"
  /\ x.kind # "Grant" => x.seq < y.seq
  /\ x.kind \in Refocus /\ y.kind \in Refocus => x.body < y.body
  /\ x.kind = "InputState" /\ y.kind = "InputState" => x.body.epoch <= y.body.epoch

Follows(x, y) == x.grant = y.grant /\ x.grant # 0 => InOrder(x, y)

Ordered(q) == \A i, j \in 1 .. Len(q) : i < j => Follows(q[i], q[j])

(* The messages of a session in a channel; their numbers, and the numbers  *)
(* of the changes of focus among them.                                     *)
Mailed(q, g) == {m \in Range(q) : m.grant = g}
Seqs(D) == {m.seq : m \in {x \in D : x.kind # "Grant"}}
Foci(D) == {m.body : m \in {x \in D : x.kind \in Refocus}}

(* What is on its way to a receiver that has had number lo: the next ones, *)
(* without a gap, up to the last one of the sender r while it is in the    *)
(* session.                                                                *)
Flow(X, lo, g, r, last) ==
  \E hi \in Nat : lo <= hi /\ X = (lo + 1) .. hi /\ (r.grant = g => hi = last)

Listening(r, g) == r.grant = g /\ ~r.revoked

(* A word about the state of the host's input thread is not about a later  *)
(* one; and if it is about the present one, then under the present focus.  *)
Known(s, focus, b) == s.epoch <= b.epoch /\ (s.epoch = b.epoch /\ ~b.paused => s.focus = focus)

Valid(i, focus, b, local) ==
  Known(i, focus, b) /\ (i.epoch = b.epoch /\ ~b.paused => i.local = local)

(* The inputs of a session: made and not sent, on their way, queued.       *)
Unsent(s, g) == {x.in : x \in {y \in Range(s) : y.kind = "input" /\ y.in.grant = g}}
Sent(U) == {m.body : m \in {x \in U : x.kind = "Input"}}
Queued(b, g) == {i \in Range(b.queue) : i.grant = g}

-----------------------------------------------------------------------------
(* A session g with the deal l. hr and gr are the Runtimes of its host and *)
(* of its guest, b and local the host's backend and what its user has done *)
(* to it, D and U the messages of g on their way down to the guest and up  *)
(* to the host, P the guest's unsent inputs of g.                          *)

(* Both sides number without a gap, and the changes of focus as well.      *)
Numbering(g, hr, gr, D, U) ==
  /\ Listening(gr, g) => Flow(Seqs(D), gr.rx, g, hr, hr.tx)
  /\ Listening(hr, g) => Flow(Seqs(U), hr.rx, g, gr, gr.tx)
  /\ Listening(hr, g) => Flow(Foci(U), hr.focus, g, gr, gr.focus)
  /\ hr.grant = g => \A m \in D : m.kind # "Grant" => m.seq <= hr.tx
  /\ gr.grant = g => \A m \in U : m.seq <= gr.tx /\ (m.kind \in Refocus => m.body <= gr.focus)

(* r is the Runtime that asked for this session and waits for the answer.  *)
Awaits(r, l) == r.state = "Requesting" /\ r.req = l.req /\ r.peer = l.host /\ ~r.revoked

(* While the Grant is under way the guest has never been in the session.   *)
Granting(g, l, hr, gr, D, U) ==
  \A m \in D : m.kind = "Grant" =>
    /\ gr.grant # g /\ U = {}
    /\ hr.grant = g => hr.rx = 0 /\ hr.focus = 0
    /\ Awaits(gr, l) => Flow(Seqs(D), 0, g, hr, hr.tx)

(* What the guest has been told of the input thread, and will be told.     *)
Reporting(g, hr, gr, b, D) ==
  /\ hr.grant = g => \A m \in D : m.kind = "InputState" => Known(m.body, hr.focus, b)
  /\ hr.grant = g /\ gr.grant = g =>
       gr.epoch <= b.epoch /\ (~gr.paused => Known(gr, hr.focus, b))
  /\ gr.grant = g => \A m \in D : m.kind = "InputState" => gr.epoch <= m.body.epoch

(* What was made for a past state of the input thread will be refused.     *)
Fresh(g, hr, b, U, P, local) ==
  hr.grant = g => \A i \in P \union Sent(U) \union Queued(b, g) : Valid(i, hr.focus, b, local)

Session(g, l, hr, gr, b, D, U, P, local) ==
  /\ Numbering(g, hr, gr, D, U)
  /\ Granting(g, l, hr, gr, D, U)
  /\ Reporting(g, hr, gr, b, D)
  /\ Fresh(g, hr, b, U, P, local)

-----------------------------------------------------------------------------
(* What holds of each participant, message and post, for the deals L of    *)
(* the ids up to I.                                                        *)

Role(L, I, n, r, over) ==
  /\ r.req <= I
  /\ r.state # "Idle" => r.peer \in Nodes \ {n}
  /\ over /\ r.state # "Idle" => r.revoked
  /\ r.state \in {"Idle", "Requesting", "AwaitingConsent"} =>
       r.grant = 0 /\ r.tx = 0 /\ r.rx = 0 /\ r.focus = 0 /\ r.epoch = 0 /\ r.paused
  /\ r.state \in {"AwaitingReady", "Controlled"} =>
       /\ r.grant \in 1 .. I
       /\ L[r.grant].host = n /\ L[r.grant].guest = r.peer /\ L[r.grant].req = r.req
  /\ r.state \in {"AwaitingActivation", "Controlling"} =>
       /\ r.grant \in 1 .. I
       /\ L[r.grant].host = r.peer /\ L[r.grant].guest = n /\ L[r.grant].req = r.req
  /\ r.state = "AwaitingReady" /\ ~r.starting => r.rx = 0 /\ r.focus = 0
  /\ r.state = "Controlled" \/ r.starting => r.rx >= 1
  /\ r.state = "AwaitingActivation" => r.tx = 0 /\ r.focus = 0 /\ r.epoch = 0 /\ r.paused
  /\ r.state = "Controlling" => r.tx >= 1

(* The first message of a guest is its Ready, or its End.                  *)
Mail(L, I, p, n, m) ==
  /\ p # n /\ m.req <= I
  /\ m.grant = 0 => m.kind \in {"Request", "End"}
  /\ m.grant # 0 =>
       /\ m.grant \in 1 .. I /\ m.req = L[m.grant].req
       /\ m.kind # "Grant" => m.seq >= 1
       /\ \/ p = L[m.grant].host /\ n = L[m.grant].guest /\ m.kind \in Downward
          \/ /\ p = L[m.grant].guest /\ n = L[m.grant].host /\ m.kind \in Upward
             /\ m.kind = "Ready" => m.seq = 1
             /\ m.seq = 1 => m.kind \in {"Ready", "End"}
  /\ m.kind \in Refocus => m.body \in Nat

Post(L, I, n, x) == x.kind = "input" => x.in.grant \in 1 .. I /\ L[x.in.grant].guest = n

Values(L, I, O, A, R, B, W, S) ==
  /\ I \in Nat /\ L \in [1 .. I -> Deals]
  /\ \A g \in 1 .. I : L[g].host # L[g].guest /\ L[g].req <= I
  /\ O \in [Nodes -> BOOLEAN] /\ A \in [Nodes -> Nat]
  /\ R \in [Nodes -> Runtime] /\ B \in [Nodes -> Backend]
  /\ W \in Channels /\ S \in [Nodes -> Seq(Posts)]

Parts(L, I, O, R, W, S) ==
  /\ \A n \in Nodes : Role(L, I, n, R[n], O[n])
  /\ \A p, n \in Nodes :
       Ordered(W[<<p, n>>]) /\ \A m \in Range(W[<<p, n>>]) : Mail(L, I, p, n, m)
  /\ \A n \in Nodes : \A x \in Range(S[n]) : Post(L, I, n, x)

At(L, A, R, B, W, S, g) ==
  Session(g, L[g], R[L[g].host], R[L[g].guest], B[L[g].host],
          Mailed(W[<<L[g].host, L[g].guest>>], g), Mailed(W[<<L[g].guest, L[g].host>>], g),
          Unsent(S[L[g].guest], g), A[L[g].host])

Agreement(L, I, O, A, R, B, W, S) ==
  /\ Values(L, I, O, A, R, B, W, S)
  /\ Parts(L, I, O, R, W, S)
  /\ \A g \in 1 .. I : At(L, A, R, B, W, S, g)

(* The inductive invariant.                                                *)
ProtocolInv ==
  /\ LeaseInv /\ faulty = {}
  /\ \E L \in [1 .. ids -> Deals] :
       Agreement(L, ids, overflow, locals, rt, backend, net, strand)

-----------------------------------------------------------------------------
(* Channels.                                                               *)

(* A channel that has lost its first message.                              *)
LEMMA TailFacts ==
  ASSUME NEW S, NEW q \in Seq(S), q # <<>>
  PROVE  /\ Range(q) = {Head(q)} \union Range(Tail(q))
         /\ Ordered(q) => Ordered(Tail(q)) /\ \A x \in Range(Tail(q)) : Follows(Head(q), x)
<1>1. /\ Len(q) \in Nat \ {0} /\ Tail(q) \in Seq(S) /\ Len(Tail(q)) = Len(q) - 1
      /\ \A i \in 1 .. Len(Tail(q)) : Tail(q)[i] = q[i + 1]
      /\ Head(q) = q[1]
  BY EmptySeq, HeadTailProperties
<1>2. DOMAIN q = 1 .. Len(q) /\ DOMAIN Tail(q) = 1 .. Len(q) - 1
  BY <1>1, LenProperties
<1>3. Range(q) = {Head(q)} \union Range(Tail(q))
  <2>1. ASSUME NEW i \in 1 .. Len(q) PROVE q[i] \in {Head(q)} \union Range(Tail(q))
    <3>1. CASE i = 1
      BY <1>1, <3>1
    <3>2. CASE i # 1
      <4>1. i - 1 \in 1 .. Len(q) - 1 /\ (i - 1) + 1 = i
        BY <1>1, <3>2
      <4>2. Tail(q)[i - 1] = q[i]
        BY <1>1, <4>1
      <4> QED
        BY <1>2, <4>1, <4>2 DEF Range
    <3> QED
      BY <3>1, <3>2
  <2>2. Head(q) \in Range(q)
    <3>1. 1 \in DOMAIN q
      BY <1>1, <1>2
    <3> QED
      BY <1>1, <3>1 DEF Range
  <2>3. ASSUME NEW i \in 1 .. Len(q) - 1 PROVE Tail(q)[i] \in Range(q)
    <3>1. i + 1 \in 1 .. Len(q)
      BY <1>1
    <3> QED
      BY <1>1, <1>2, <3>1 DEF Range
  <2> QED
    BY <1>2, <2>1, <2>2, <2>3 DEF Range
<1>4. ASSUME Ordered(q)
      PROVE  Ordered(Tail(q)) /\ \A x \in Range(Tail(q)) : Follows(Head(q), x)
  <2>1. ASSUME NEW i \in 1 .. Len(Tail(q)), NEW j \in 1 .. Len(Tail(q)), i < j
        PROVE  Follows(Tail(q)[i], Tail(q)[j])
    <3>1. i + 1 \in 1 .. Len(q) /\ j + 1 \in 1 .. Len(q) /\ i + 1 < j + 1
      BY <1>1, <2>1
    <3>2. Follows(q[i + 1], q[j + 1])
      BY <1>4, <3>1 DEF Ordered
    <3> QED
      BY <1>1, <3>2
  <2>2. ASSUME NEW i \in 1 .. Len(q) - 1 PROVE Follows(Head(q), Tail(q)[i])
    <3>1. 1 \in 1 .. Len(q) /\ i + 1 \in 1 .. Len(q) /\ 1 < i + 1
      BY <1>1
    <3>2. Follows(q[1], q[i + 1])
      BY <1>4, <3>1 DEF Ordered
    <3> QED
      BY <1>1, <3>2
  <2> QED
    BY <1>2, <2>1, <2>2 DEF Ordered, Range
<1> QED
  BY <1>3, <1>4

(* A channel with one message more.                                        *)
LEMMA AppendFacts ==
  ASSUME NEW S, NEW q \in Seq(S), NEW m \in S
  PROVE  /\ Range(Append(q, m)) = Range(q) \union {m}
         /\ Ordered(q) /\ (\A x \in Range(q) : Follows(x, m)) => Ordered(Append(q, m))
<1> DEFINE t == Append(q, m)
<1>1. /\ t \in Seq(S) /\ Len(q) \in Nat /\ Len(t) = Len(q) + 1
      /\ \A i \in 1 .. Len(q) : t[i] = q[i]
      /\ t[Len(q) + 1] = m
  BY AppendProperties, LenProperties
<1>2. DOMAIN q = 1 .. Len(q) /\ DOMAIN t = 1 .. Len(q) + 1
  BY <1>1, LenProperties
<1> HIDE DEF t
<1>3. Range(t) = Range(q) \union {m}
  <2>1. \A i \in 1 .. Len(q) + 1 : i \in 1 .. Len(q) \/ i = Len(q) + 1
    BY <1>1
  <2>2. \A i \in 1 .. Len(q) : i \in 1 .. Len(q) + 1
    BY <1>1
  <2>3. Len(q) + 1 \in 1 .. Len(q) + 1
    BY <1>1
  <2> QED
    BY <1>1, <1>2, <2>1, <2>2, <2>3 DEF Range
<1>4. ASSUME Ordered(q), \A x \in Range(q) : Follows(x, m) PROVE Ordered(t)
  <2>1. ASSUME NEW i \in 1 .. Len(t), NEW j \in 1 .. Len(t), i < j PROVE Follows(t[i], t[j])
    <3>1. i \in 1 .. Len(q) /\ (j \in 1 .. Len(q) \/ j = Len(q) + 1)
      BY <1>1, <2>1
    <3>2. CASE j \in 1 .. Len(q)
      <4>1. Follows(q[i], q[j])
        BY <1>4, <2>1, <3>1, <3>2 DEF Ordered
      <4> QED
        BY <1>1, <3>1, <3>2, <4>1
    <3>3. CASE j = Len(q) + 1
      <4>1. q[i] \in Range(q)
        BY <1>2, <3>1 DEF Range
      <4> QED
        BY <1>1, <1>4, <3>1, <3>3, <4>1
    <3> QED
      BY <3>1, <3>2, <3>3
  <2> QED
    BY <2>1 DEF Ordered
<1> QED
  BY <1>3, <1>4 DEF t

(* A channel whose first k messages are void.                              *)
LEMMA DropFacts ==
  ASSUME NEW S, NEW q \in Seq(S), NEW k \in Nat
  PROVE  LET t == SubSeq(q, k + 1, Len(q)) IN
           /\ t \in Seq(S) /\ Range(t) \subseteq Range(q)
           /\ Ordered(q) => Ordered(t)
<1> DEFINE t == SubSeq(q, k + 1, Len(q))
<1>1. Len(q) \in Nat /\ DOMAIN q = 1 .. Len(q) /\ k + 1 \in Int /\ Len(q) \in Int
  BY LenProperties
<1>2. \A i \in k + 1 .. Len(q) : q[i] \in S
  BY <1>1, ElementOfSeq
<1>3. /\ t \in Seq(S)
      /\ Len(t) = IF k + 1 <= Len(q) THEN Len(q) - (k + 1) + 1 ELSE 0
      /\ \A i \in 1 .. Len(q) - (k + 1) + 1 : t[i] = q[(k + 1) + i - 1]
  BY <1>1, <1>2, SubSeqProperties
<1> HIDE DEF t
<1>4. \A i \in 1 .. Len(t) : t[i] = q[i + k] /\ i + k \in 1 .. Len(q)
  <2> SUFFICES ASSUME NEW i \in 1 .. Len(t) PROVE t[i] = q[i + k] /\ i + k \in 1 .. Len(q)
    OBVIOUS
  <2>a. k + 1 <= Len(q)
    <3>1. CASE ~(k + 1 <= Len(q))
      <4>1. Len(t) = 0
        BY <1>3, <3>1
      <4> QED
        BY <4>1
    <3> QED
      BY <3>1
  <2>0. k + 1 <= Len(q) /\ Len(t) = Len(q) - (k + 1) + 1
    BY <1>3, <2>a
  <2>1. i \in 1 .. Len(q) - (k + 1) + 1 /\ (k + 1) + i - 1 = i + k /\ i + k \in 1 .. Len(q)
    BY <1>1, <2>0
  <2> QED
    BY <1>3, <2>1
<1>5. DOMAIN t = 1 .. Len(t) /\ Len(t) \in Nat
  BY <1>3, LenProperties
<1>6. Range(t) \subseteq Range(q)
  BY <1>1, <1>4, <1>5 DEF Range
<1>7. ASSUME Ordered(q) PROVE Ordered(t)
  <2>1. ASSUME NEW i \in 1 .. Len(t), NEW j \in 1 .. Len(t), i < j PROVE Follows(t[i], t[j])
    <3>1. i + k < j + k
      BY <1>5, <2>1
    <3> QED
      BY <1>4, <1>7, <3>1 DEF Ordered
  <2> QED
    BY <2>1 DEF Ordered
<1> QED
  BY <1>3, <1>6, <1>7 DEF t

(* The messages of one session in those channels.                          *)
LEMMA MailedTail ==
  ASSUME NEW q \in Seq(Messages), q # <<>>, NEW g
  PROVE  /\ Mailed(Tail(q), g) \subseteq Mailed(q, g)
         /\ Head(q).grant # g => Mailed(Tail(q), g) = Mailed(q, g)
         /\ Head(q).grant = g => Mailed(q, g) = {Head(q)} \union Mailed(Tail(q), g)
BY TailFacts DEF Mailed

LEMMA MailedAppend ==
  ASSUME NEW q \in Seq(Messages), NEW m \in Messages, NEW g
  PROVE  Mailed(Append(q, m), g) = IF m.grant = g THEN Mailed(q, g) \union {m} ELSE Mailed(q, g)
BY AppendFacts DEF Mailed

LEMMA MailedType ==
  ASSUME NEW q \in Seq(Messages), NEW g
  PROVE  Range(q) \subseteq Messages /\ Mailed(q, g) \subseteq Messages
<1>1. Range(q) \subseteq Messages
  BY LenProperties, ElementOfSeq DEF Range
<1> QED
  BY <1>1 DEF Mailed

(* The first message of a session in a channel, when the receiver listens: *)
(* it is the next one, and the others follow it.                           *)
LEMMA FlowTake ==
  ASSUME NEW lo \in Nat, NEW g, NEW r, NEW last, NEW x \in Nat, NEW Y \in SUBSET Nat,
         Flow({x} \union Y, lo, g, r, last), \A y \in Y : x < y
  PROVE  x = lo + 1 /\ Flow(Y, x, g, r, last)
<1>1. PICK hi \in Nat : /\ lo <= hi /\ {x} \union Y = (lo + 1) .. hi
                        /\ r.grant = g => hi = last
  BY DEF Flow
<1>2. x \in (lo + 1) .. hi
  BY <1>1
<1>3. lo + 1 \in {x} \union Y
  BY <1>1, <1>2
<1>4. x = lo + 1
  BY <1>2, <1>3
<1>5. Y = (x + 1) .. hi
  <2>1. ASSUME NEW y \in Y PROVE y \in (x + 1) .. hi
    BY <1>1, <2>1
  <2>2. ASSUME NEW y \in (x + 1) .. hi PROVE y \in Y
    <3>1. y \in (lo + 1) .. hi /\ y # x
      BY <1>4, <2>2
    <3> QED
      BY <1>1, <3>1
  <2> QED
    BY <2>1, <2>2
<1> QED
  BY <1>1, <1>2, <1>4, <1>5 DEF Flow

(* The sender sends its next one.                                          *)
LEMMA FlowAdd ==
  ASSUME NEW lo \in Nat, NEW g, NEW r, r.grant = g, NEW last \in Nat, NEW X,
         Flow(X, lo, g, r, last), NEW s
  PROVE  Flow(X \union {last + 1}, lo, g, s, last + 1)
<1>1. lo <= last /\ X = (lo + 1) .. last
  BY DEF Flow
<1>2. X \union {last + 1} = (lo + 1) .. (last + 1)
  BY <1>1
<1> QED
  BY <1>1, <1>2 DEF Flow

(* A sender that leaves.                                                   *)
LEMMA FlowEnds ==
  ASSUME NEW X, NEW lo, NEW g, NEW r, NEW last, Flow(X, lo, g, r, last),
         NEW s, NEW new, s.grant = g => r.grant = g /\ new = last
  PROVE  Flow(X, lo, g, s, new)
BY DEF Flow

(* Nothing is under way.                                                   *)
LEMMA FlowEmpty ==
  ASSUME NEW lo \in Nat, NEW g, NEW r
  PROVE  Flow({}, lo, g, r, lo)
<1>1. (lo + 1) .. lo = {}
  OBVIOUS
<1> QED
  BY <1>1 DEF Flow

-----------------------------------------------------------------------------
(* One session, and a change of one of its sides.                          *)

(* The records that a session consists of.                                 *)
Sides(hr, gr, b, D, U, P) ==
  /\ hr \in Runtime /\ gr \in Runtime /\ b \in Backend
  /\ D \subseteq Messages /\ \A m \in D : m.kind \in Downward
  /\ U \subseteq Messages /\ \A m \in U : m.kind \in Upward /\ (m.kind \in Refocus => m.body \in Nat)
  /\ P \subseteq InputRecords

(* The numbers of what waits are numbers.                                  *)
LEMMA SidesTypes ==
  ASSUME NEW hr, NEW gr, NEW b, NEW D, NEW U, NEW P, Sides(hr, gr, b, D, U, P)
  PROVE  /\ Seqs(D) \in SUBSET Nat /\ Seqs(U) \in SUBSET Nat /\ Foci(U) \in SUBSET Nat
         /\ \A m \in D \union U : m.seq \in Nat
         /\ \A m \in D : m.kind = "InputState" => m.body \in Reports
         /\ Sent(U) \subseteq InputRecords
         /\ \A g : Queued(b, g) \subseteq InputRecords
<1>1. \A m \in Messages : /\ m.seq \in Nat
                          /\ m.kind = "InputState" => m.body \in Reports
                          /\ m.kind = "Input" => m.body \in InputRecords
  BY DEF Messages, Fitting, OfGrant
<1>2. Range(b.queue) \subseteq InputRecords
  <2>1. b.queue \in Seq(InputRecords)
    BY DEF Sides, Backend
  <2> QED
    BY <2>1, LenProperties, ElementOfSeq DEF Range
<1> QED
  BY <1>1, <1>2 DEF Sides, Seqs, Foci, Sent, Queued

(* The input thread goes on: its tokens only grow, and it admits input     *)
(* again under a new one.                                                  *)
Onward(b, c) == b.epoch <= c.epoch /\ (c.epoch = b.epoch /\ ~c.paused => ~b.paused)

LEMMA KnownOnward ==
  ASSUME NEW b \in Backend, NEW c \in Backend, Onward(b, c), NEW s, s.epoch \in Nat, NEW focus,
         Known(s, focus, b)
  PROVE  Known(s, focus, c)
BY DEF Known, Onward, Backend

LEMMA ValidOnward ==
  ASSUME NEW b \in Backend, NEW c \in Backend, Onward(b, c), NEW i \in InputRecords,
         NEW focus, NEW local, Valid(i, focus, b, local), NEW new, c.paused \/ new = local
  PROVE  Valid(i, focus, c, new)
BY DEF Valid, Known, Onward, Backend, InputRecords

(* The host is not, or no longer, in the session.                          *)
LEMMA HostAway ==
  ASSUME NEW g, NEW l, NEW hr, NEW gr, NEW b, NEW D, NEW U, NEW P, NEW local,
         Session(g, l, hr, gr, b, D, U, P, local),
         NEW h2, h2.grant # g, NEW b2, NEW U2 \in SUBSET U, NEW local2
  PROVE  Session(g, l, h2, gr, b2, D, U2, P, local2)
<1>1. Numbering(g, h2, gr, D, U2)
  <2>1. Listening(gr, g) => Flow(Seqs(D), gr.rx, g, h2, h2.tx)
    BY FlowEnds DEF Session, Numbering
  <2> QED
    BY <2>1 DEF Session, Numbering, Listening
<1>2. Granting(g, l, h2, gr, D, U2)
  <2> SUFFICES ASSUME NEW m \in D, m.kind = "Grant"
               PROVE  /\ gr.grant # g /\ U2 = {}
                      /\ Awaits(gr, l) => Flow(Seqs(D), 0, g, h2, h2.tx)
    BY DEF Granting
  <2> QED
    BY FlowEnds DEF Session, Granting
<1>3. Reporting(g, h2, gr, b2, D) /\ Fresh(g, h2, b2, U2, P, local2)
  BY DEF Session, Reporting, Fresh
<1> QED
  BY <1>1, <1>2, <1>3 DEF Session

(* It loses nothing of the Grant that it awaits: that is gone already, or  *)
(* all is still under way.                                                 *)
StillAwaits(l, gr, g2, D, D2) ==
  Awaits(g2, l) =>
    \/ \A m \in D2 : m.kind # "Grant"
    \/ Seqs(D2) = Seqs(D) /\ Awaits(gr, l)

(* The guest is not, or not yet, or no longer, in the session.             *)
LEMMA GuestAway ==
  ASSUME NEW g, NEW l, NEW hr, NEW gr, NEW b, NEW D, NEW U, NEW P, NEW local,
         Session(g, l, hr, gr, b, D, U, P, local),
         NEW g2, g2.grant # g, NEW D2 \in SUBSET D, NEW P2 \in SUBSET P,
         StillAwaits(l, gr, g2, D, D2)
  PROVE  Session(g, l, hr, g2, b, D2, U, P2, local)
<1>1. Numbering(g, hr, g2, D2, U)
  <2>1. Listening(hr, g) => Flow(Seqs(U), hr.rx, g, g2, g2.tx)
    BY FlowEnds DEF Session, Numbering
  <2>2. Listening(hr, g) => Flow(Foci(U), hr.focus, g, g2, g2.focus)
    BY FlowEnds DEF Session, Numbering
  <2> QED
    BY <2>1, <2>2 DEF Session, Numbering, Listening
<1>2. Granting(g, l, hr, g2, D2, U)
  BY DEF Session, Granting, StillAwaits
<1>3. Reporting(g, hr, g2, b, D2) /\ Fresh(g, hr, b, U, P2, local)
  BY DEF Session, Reporting, Fresh
<1> QED
  BY <1>1, <1>2, <1>3 DEF Session

(* A change of the host that the session does not notice. What it does not *)
(* listen to any more may be lost.                                         *)
CalmHost(g, hr, h2, U, U2, b, b2) ==
  /\ h2.grant = hr.grant /\ h2.tx = hr.tx /\ h2.rx = hr.rx /\ h2.focus = hr.focus
  /\ U2 \subseteq U
  /\ h2.revoked \/ (U2 = U /\ h2.revoked = hr.revoked)
  /\ Onward(b, b2) /\ Queued(b2, g) \subseteq Queued(b, g)

LEMMA HostCalm ==
  ASSUME NEW g, NEW l, NEW hr, NEW gr, NEW b, NEW D, NEW U, NEW P, NEW local,
         Session(g, l, hr, gr, b, D, U, P, local), Sides(hr, gr, b, D, U, P),
         NEW h2, NEW U2, NEW b2 \in Backend, CalmHost(g, hr, h2, U, U2, b, b2),
         NEW local2, b2.paused \/ local2 = local
  PROVE  Session(g, l, h2, gr, b2, D, U2, P, local2)
<1>0. /\ h2.grant = hr.grant /\ h2.tx = hr.tx /\ h2.rx = hr.rx /\ h2.focus = hr.focus
      /\ U2 \subseteq U
      /\ h2.revoked \/ (U2 = U /\ h2.revoked = hr.revoked)
      /\ Onward(b, b2) /\ Queued(b2, g) \subseteq Queued(b, g)
  BY DEF CalmHost
<1>1. Numbering(g, h2, gr, D, U2)
  <2>1. Listening(gr, g) => Flow(Seqs(D), gr.rx, g, h2, h2.tx)
    BY <1>0, FlowEnds DEF Session, Numbering
  <2> QED
    BY <1>0, <2>1 DEF Session, Numbering, Listening
<1>2. Granting(g, l, h2, gr, D, U2)
  <2> SUFFICES ASSUME NEW m \in D, m.kind = "Grant"
               PROVE  /\ gr.grant # g /\ U2 = {}
                      /\ h2.grant = g => h2.rx = 0 /\ h2.focus = 0
                      /\ Awaits(gr, l) => Flow(Seqs(D), 0, g, h2, h2.tx)
    BY DEF Granting
  <2> QED
    BY <1>0, FlowEnds DEF Session, Granting
<1>3. Reporting(g, h2, gr, b2, D)
  <2>1. ASSUME h2.grant = g, NEW m \in D, m.kind = "InputState"
        PROVE  Known(m.body, h2.focus, b2)
    <3>1. m.body \in Reports
      BY <2>1, SidesTypes
    <3>2. m.body.epoch \in Nat /\ b \in Backend
      BY <3>1 DEF Reports, Sides
    <3>3. Known(m.body, hr.focus, b)
      BY <1>0, <2>1 DEF Session, Reporting
    <3> QED
      BY <1>0, <3>2, <3>3, KnownOnward
  <2>2. ASSUME h2.grant = g, gr.grant = g
        PROVE  gr.epoch <= b2.epoch /\ (~gr.paused => Known(gr, h2.focus, b2))
    <3>1. gr.epoch \in Nat /\ b.epoch \in Nat /\ b2.epoch \in Nat /\ b \in Backend
      BY DEF Sides, Runtime, Backend
    <3>2. gr.epoch <= b.epoch /\ (~gr.paused => Known(gr, hr.focus, b))
      BY <1>0, <2>2 DEF Session, Reporting
    <3>3. gr.epoch <= b2.epoch
      BY <1>0, <3>1, <3>2 DEF Onward
    <3> QED
      BY <1>0, <3>1, <3>2, <3>3, KnownOnward
  <2> QED
    BY <1>0, <2>1, <2>2 DEF Session, Reporting
<1>4. Fresh(g, h2, b2, U2, P, local2)
  <2> SUFFICES ASSUME h2.grant = g, NEW i \in P \union Sent(U2) \union Queued(b2, g)
               PROVE  Valid(i, h2.focus, b2, local2)
    BY DEF Fresh
  <2>1. i \in P \union Sent(U) \union Queued(b, g)
    BY <1>0 DEF Sent
  <2>2. i \in InputRecords /\ b \in Backend
    <3>1. Sent(U) \subseteq InputRecords /\ Queued(b, g) \subseteq InputRecords
      BY SidesTypes
    <3> QED
      BY <2>1, <3>1 DEF Sides
  <2>3. Valid(i, hr.focus, b, local)
    BY <1>0, <2>1 DEF Session, Fresh
  <2> QED
    BY <1>0, <2>2, <2>3, ValidOnward
<1> QED
  BY <1>1, <1>2, <1>3, <1>4 DEF Session

(* A change of the guest that the session does not notice.                 *)
Calm(gr, g2, D, D2) ==
  /\ g2.grant = gr.grant /\ g2.tx = gr.tx /\ g2.rx = gr.rx /\ g2.focus = gr.focus
  /\ g2.epoch = gr.epoch /\ g2.paused = gr.paused
  /\ D2 \subseteq D
  /\ g2.revoked \/ (D2 = D /\ g2.revoked = gr.revoked)

LEMMA GuestCalm ==
  ASSUME NEW g, NEW l, NEW hr, NEW gr, NEW b, NEW D, NEW U, NEW P, NEW local,
         Session(g, l, hr, gr, b, D, U, P, local), gr.grant = g,
         NEW g2, NEW D2, Calm(gr, g2, D, D2), NEW P2, P2 \subseteq P
  PROVE  Session(g, l, hr, g2, b, D2, U, P2, local)
<1>1. Numbering(g, hr, g2, D2, U)
  <2>1. Listening(hr, g) => Flow(Seqs(U), hr.rx, g, g2, g2.tx)
    BY FlowEnds DEF Session, Numbering, Calm
  <2>2. Listening(hr, g) => Flow(Foci(U), hr.focus, g, g2, g2.focus)
    BY FlowEnds DEF Session, Numbering, Calm
  <2> QED
    BY <2>1, <2>2 DEF Session, Numbering, Listening, Calm
<1>2. Granting(g, l, hr, g2, D2, U)
  BY DEF Session, Granting, Calm
<1>3. Reporting(g, hr, g2, b, D2)
  BY DEF Session, Reporting, Known, Calm
<1>4. Fresh(g, hr, b, U, P2, local)
  BY DEF Session, Fresh
<1> QED
  BY <1>1, <1>2, <1>3, <1>4 DEF Session

(* The host's next message is the one it awaits.                           *)
LEMMA HostNext ==
  ASSUME NEW g, NEW l, NEW hr, NEW gr, NEW b, NEW D, NEW U, NEW P, NEW local,
         Session(g, l, hr, gr, b, D, U, P, local), Sides(hr, gr, b, D, U, P), Listening(hr, g),
         NEW m, NEW U2, U = {m} \union U2, \A x \in U2 : InOrder(m, x)
  PROVE  /\ m.seq = hr.rx + 1 /\ Flow(Seqs(U2), m.seq, g, gr, gr.tx)
         /\ m.kind \in Refocus =>
              m.body = hr.focus + 1 /\ Flow(Foci(U2), m.body, g, gr, gr.focus)
         /\ m.kind \notin Refocus => Foci(U2) = Foci(U)
         /\ \A x \in D : x.kind # "Grant"
<1>1. /\ hr.rx \in Nat /\ hr.focus \in Nat /\ m.seq \in Nat /\ m.kind # "Grant"
      /\ \A x \in U2 : x.kind # "Grant"
  <2>1. hr.rx \in Nat /\ hr.focus \in Nat
    BY DEF Sides, Runtime
  <2>2. \A x \in U : x.kind # "Grant"
    BY DEF Sides, Upward
  <2>3. m \in U /\ U2 \subseteq U
    OBVIOUS
  <2>4. m.seq \in Nat
    BY <2>3, SidesTypes
  <2> QED
    BY <2>1, <2>2, <2>3, <2>4
<1>2. Seqs(U) \in SUBSET Nat /\ Foci(U) \in SUBSET Nat
  BY SidesTypes
<1>3. m.seq = hr.rx + 1 /\ Flow(Seqs(U2), m.seq, g, gr, gr.tx)
  <2>1. Seqs(U) = {m.seq} \union Seqs(U2)
    BY <1>1 DEF Seqs
  <2>2. \A y \in Seqs(U2) : m.seq < y
    BY <1>1 DEF Seqs, InOrder
  <2>3. Flow({m.seq} \union Seqs(U2), hr.rx, g, gr, gr.tx)
    BY <2>1 DEF Session, Numbering
  <2>4. Seqs(U2) \in SUBSET Nat
    BY <1>2, <2>1
  <2> QED
    BY <1>1, <2>2, <2>3, <2>4, FlowTake
<1>4. ASSUME m.kind \in Refocus
      PROVE  m.body = hr.focus + 1 /\ Flow(Foci(U2), m.body, g, gr, gr.focus)
  <2>1. Foci(U) = {m.body} \union Foci(U2)
    BY <1>4 DEF Foci
  <2>2. \A y \in Foci(U2) : m.body < y
    BY <1>4 DEF Foci, InOrder
  <2>3. Flow({m.body} \union Foci(U2), hr.focus, g, gr, gr.focus)
    BY <2>1 DEF Session, Numbering
  <2>4. Foci(U2) \in SUBSET Nat /\ m.body \in Nat
    BY <1>2, <2>1
  <2> QED
    BY <1>1, <2>2, <2>3, <2>4, FlowTake
<1>5. m.kind \notin Refocus => Foci(U2) = Foci(U)
  BY DEF Foci
<1>6. \A x \in D : x.kind # "Grant"
  BY DEF Session, Granting
<1> QED
  BY <1>3, <1>4, <1>5, <1>6

(* The host counts it, and its backend does what it asks for.              *)
HostTurn(g, hr, h2, b, b2, m) ==
  /\ h2.grant = g /\ h2.tx = hr.tx /\ h2.rx = m.seq
  /\ Onward(b, b2)
  /\ IF m.kind \in Refocus THEN h2.focus = m.body /\ b2.paused ELSE h2.focus = hr.focus
  /\ \A i \in Queued(b2, g) : i \in Queued(b, g) \/ (m.kind = "Input" /\ i = m.body)

LEMMA HostReads ==
  ASSUME NEW g, NEW l, NEW hr, NEW gr, NEW b, NEW D, NEW U, NEW P, NEW local,
         Session(g, l, hr, gr, b, D, U, P, local), Sides(hr, gr, b, D, U, P), Listening(hr, g),
         NEW m, NEW U2, U = {m} \union U2, \A x \in U2 : InOrder(m, x),
         NEW h2, NEW b2 \in Backend, HostTurn(g, hr, h2, b, b2, m)
  PROVE  Session(g, l, h2, gr, b2, D, U2, P, local)
<1>0. /\ h2.grant = g /\ h2.tx = hr.tx /\ h2.rx = m.seq
      /\ Onward(b, b2)
      /\ IF m.kind \in Refocus THEN h2.focus = m.body /\ b2.paused ELSE h2.focus = hr.focus
      /\ \A i \in Queued(b2, g) : i \in Queued(b, g) \/ (m.kind = "Input" /\ i = m.body)
  BY DEF HostTurn
<1>1. /\ m.seq = hr.rx + 1 /\ Flow(Seqs(U2), m.seq, g, gr, gr.tx)
      /\ m.kind \in Refocus =>
           m.body = hr.focus + 1 /\ Flow(Foci(U2), m.body, g, gr, gr.focus)
      /\ m.kind \notin Refocus => Foci(U2) = Foci(U)
      /\ \A x \in D : x.kind # "Grant"
  BY HostNext
<1>2. Numbering(g, h2, gr, D, U2)
  <2>1. Listening(gr, g) => Flow(Seqs(D), gr.rx, g, h2, h2.tx)
    BY <1>0, FlowEnds DEF Session, Numbering, Listening
  <2>2. Flow(Foci(U2), h2.focus, g, gr, gr.focus)
    BY <1>0, <1>1 DEF Session, Numbering
  <2> QED
    BY <1>0, <1>1, <2>1, <2>2 DEF Session, Numbering, Listening
<1>3. Granting(g, l, h2, gr, D, U2)
  BY <1>0, <1>1 DEF Granting
<1>4. \A s : s.epoch \in Nat /\ Known(s, hr.focus, b) => Known(s, h2.focus, b2)
  BY <1>0 DEF Known, Onward, Sides, Backend
<1>5. Reporting(g, h2, gr, b2, D)
  <2>1. ASSUME NEW x \in D, x.kind = "InputState" PROVE Known(x.body, h2.focus, b2)
    <3>1. x.body \in Reports
      BY <2>1, SidesTypes
    <3>2. x.body.epoch \in Nat
      BY <3>1 DEF Reports
    <3>3. Known(x.body, hr.focus, b)
      BY <2>1 DEF Session, Reporting, Listening
    <3> QED
      BY <1>4, <3>2, <3>3
  <2>2. ASSUME gr.grant = g
        PROVE  gr.epoch <= b2.epoch /\ (~gr.paused => Known(gr, h2.focus, b2))
    <3>1. gr.epoch \in Nat /\ b.epoch \in Nat /\ b2.epoch \in Nat
      BY DEF Sides, Runtime, Backend
    <3>2. gr.epoch <= b.epoch /\ (~gr.paused => Known(gr, hr.focus, b))
      BY <2>2 DEF Session, Reporting, Listening
    <3>3. gr.epoch <= b2.epoch
      BY <1>0, <3>1, <3>2 DEF Onward
    <3> QED
      BY <1>4, <3>1, <3>2, <3>3
  <2> QED
    BY <1>0, <2>1, <2>2 DEF Session, Reporting
<1>6. Fresh(g, h2, b2, U2, P, local)
  <2> SUFFICES ASSUME NEW i \in P \union Sent(U2) \union Queued(b2, g)
               PROVE  Valid(i, h2.focus, b2, local)
    BY DEF Fresh
  <2>1. i \in P \union Sent(U) \union Queued(b, g)
    BY <1>0 DEF Sent
  <2>2. i \in InputRecords
    <3>1. Sent(U) \subseteq InputRecords /\ Queued(b, g) \subseteq InputRecords
      BY SidesTypes
    <3> QED
      BY <2>1, <3>1 DEF Sides
  <2>3. Valid(i, hr.focus, b, local)
    BY <2>1 DEF Session, Fresh, Listening
  <2> QED
    BY <1>0, <2>2, <2>3 DEF Valid, Known, Onward, Sides, Backend, InputRecords
<1> QED
  BY <1>2, <1>3, <1>5, <1>6 DEF Session

(* So is the guest's; and no report is older than what it knows.           *)
LEMMA GuestNext ==
  ASSUME NEW g, NEW l, NEW hr, NEW gr, NEW b, NEW D, NEW U, NEW P, NEW local,
         Session(g, l, hr, gr, b, D, U, P, local), Sides(hr, gr, b, D, U, P), Listening(gr, g),
         NEW m, NEW D2, D = {m} \union D2, \A x \in D2 : InOrder(m, x)
  PROVE  /\ \A x \in D : x.kind # "Grant"
         /\ m.seq = gr.rx + 1 /\ Flow(Seqs(D2), m.seq, g, hr, hr.tx)
         /\ m.kind = "InputState" => gr.epoch <= m.body.epoch
<1>1. \A x \in D : x.kind # "Grant"
  BY DEF Session, Granting, Listening
<1>2. gr.rx \in Nat /\ m.seq \in Nat /\ Seqs(D) \in SUBSET Nat
  BY SidesTypes DEF Sides, Runtime
<1>3. Seqs(D) = {m.seq} \union Seqs(D2)
  BY <1>1 DEF Seqs
<1>4. \A y \in Seqs(D2) : m.seq < y
  BY <1>1 DEF Seqs, InOrder
<1>5. Flow({m.seq} \union Seqs(D2), gr.rx, g, hr, hr.tx)
  BY <1>3 DEF Session, Numbering
<1>6. m.seq = gr.rx + 1 /\ Flow(Seqs(D2), m.seq, g, hr, hr.tx)
  BY <1>2, <1>3, <1>4, <1>5, FlowTake
<1>7. m.kind = "InputState" => gr.epoch <= m.body.epoch
  BY DEF Session, Reporting, Listening
<1> QED
  BY <1>1, <1>6, <1>7

(* The guest counts it, and takes a report over or leaves it.              *)
GuestTurn(g, gr, g2, m) ==
  /\ g2.grant = g /\ g2.tx = gr.tx /\ g2.rx = m.seq /\ g2.focus = gr.focus
  /\ \/ g2.epoch = gr.epoch /\ g2.paused = gr.paused
     \/ /\ m.kind = "InputState" /\ m.body.focus = gr.focus
        /\ g2.epoch = m.body.epoch /\ g2.paused = m.body.paused

LEMMA GuestReads ==
  ASSUME NEW g, NEW l, NEW hr, NEW gr, NEW b, NEW D, NEW U, NEW P, NEW local,
         Session(g, l, hr, gr, b, D, U, P, local), Sides(hr, gr, b, D, U, P), Listening(gr, g),
         NEW m, NEW D2, D = {m} \union D2, \A x \in D2 : InOrder(m, x),
         NEW g2, GuestTurn(g, gr, g2, m)
  PROVE  Session(g, l, hr, g2, b, D2, U, P, local)
<1>0. /\ g2.grant = g /\ g2.tx = gr.tx /\ g2.rx = m.seq /\ g2.focus = gr.focus
      /\ \/ g2.epoch = gr.epoch /\ g2.paused = gr.paused
         \/ m.kind = "InputState" /\ m.body.focus = gr.focus /\ g2.epoch = m.body.epoch
  BY DEF GuestTurn
<1>1. /\ \A x \in D : x.kind # "Grant"
      /\ m.seq = gr.rx + 1 /\ Flow(Seqs(D2), m.seq, g, hr, hr.tx)
  BY GuestNext
<1>2. Numbering(g, hr, g2, D2, U)
  <2>1. Listening(hr, g) => Flow(Seqs(U), hr.rx, g, g2, g2.tx)
    BY <1>0, FlowEnds DEF Session, Numbering, Listening
  <2>2. Listening(hr, g) => Flow(Foci(U), hr.focus, g, g2, g2.focus)
    BY <1>0, FlowEnds DEF Session, Numbering, Listening
  <2> QED
    BY <1>0, <1>1, <2>1, <2>2 DEF Session, Numbering, Listening
<1>3. Granting(g, l, hr, g2, D2, U)
  BY <1>0, <1>1 DEF Granting
<1>4. Reporting(g, hr, g2, b, D2)
  <2>1. ASSUME hr.grant = g
        PROVE  g2.epoch <= b.epoch /\ (~g2.paused => Known(g2, hr.focus, b))
    BY <1>0, <2>1 DEF Session, Reporting, Known, Listening
  <2>2. ASSUME NEW x \in D2, x.kind = "InputState" PROVE g2.epoch <= x.body.epoch
    BY <1>0, <2>2 DEF Session, Reporting, InOrder, Listening
  <2> QED
    BY <1>0, <2>1, <2>2 DEF Session, Reporting
<1>5. Fresh(g, hr, b, U, P, local)
  BY DEF Session
<1> QED
  BY <1>2, <1>3, <1>4, <1>5 DEF Session

(* The host says one thing more. A report tells how things are.            *)
LEMMA HostSpeaks ==
  ASSUME NEW g, NEW l, NEW hr, NEW gr, NEW b, NEW D, NEW U, NEW P, NEW local,
         Session(g, l, hr, gr, b, D, U, P, local), Sides(hr, gr, b, D, U, P), hr.grant = g,
         NEW m, m.seq = hr.tx + 1, m.kind # "Grant",
         m.kind = "InputState" => m.body.epoch = b.epoch /\ m.body.focus = hr.focus,
         NEW h2, h2.grant = g, h2.tx = hr.tx + 1, h2.rx = hr.rx, h2.focus = hr.focus,
         h2.revoked = hr.revoked
  PROVE  Session(g, l, h2, gr, b, D \union {m}, U, P, local)
<1>1. hr.tx \in Nat /\ b.epoch \in Nat /\ gr.rx \in Nat /\ gr.epoch \in Nat
  BY DEF Sides, Runtime, Backend
<1>2. Seqs(D \union {m}) = Seqs(D) \union {hr.tx + 1}
  BY DEF Seqs
<1>3. \A x \in D : x.seq \in Nat
  BY SidesTypes
<1>4. Numbering(g, h2, gr, D \union {m}, U)
  <2>1. ASSUME Listening(gr, g) PROVE Flow(Seqs(D \union {m}), gr.rx, g, h2, h2.tx)
    <3>1. Flow(Seqs(D), gr.rx, g, hr, hr.tx)
      BY <2>1 DEF Session, Numbering
    <3>2. Flow(Seqs(D) \union {hr.tx + 1}, gr.rx, g, h2, hr.tx + 1)
      BY <1>1, <3>1, FlowAdd
    <3> QED
      BY <1>2, <3>2
  <2>2. \A x \in D \union {m} : x.kind # "Grant" => x.seq <= h2.tx
    BY <1>1, <1>3 DEF Session, Numbering
  <2> QED
    BY <2>1, <2>2 DEF Session, Numbering, Listening
<1>5. Granting(g, l, h2, gr, D \union {m}, U)
  <2> SUFFICES ASSUME NEW x \in D, x.kind = "Grant"
               PROVE  /\ gr.grant # g /\ U = {}
                      /\ h2.grant = g => h2.rx = 0 /\ h2.focus = 0
                      /\ Awaits(gr, l) => Flow(Seqs(D \union {m}), 0, g, h2, h2.tx)
    BY DEF Granting
  <2>1. /\ gr.grant # g /\ U = {} /\ hr.rx = 0 /\ hr.focus = 0
        /\ Awaits(gr, l) => Flow(Seqs(D), 0, g, hr, hr.tx)
    BY DEF Session, Granting
  <2>2. ASSUME Flow(Seqs(D), 0, g, hr, hr.tx)
        PROVE  Flow(Seqs(D \union {m}), 0, g, h2, h2.tx)
    <3>1. Flow(Seqs(D) \union {hr.tx + 1}, 0, g, h2, hr.tx + 1)
      BY <1>1, <2>2, FlowAdd
    <3> QED
      BY <1>2, <3>1
  <2> QED
    BY <2>1, <2>2
<1>6. Reporting(g, h2, gr, b, D \union {m})
  BY <1>1 DEF Session, Reporting, Known
<1>7. Fresh(g, h2, b, U, P, local)
  BY DEF Session, Fresh
<1> QED
  BY <1>4, <1>5, <1>6, <1>7 DEF Session

(* The guest says one thing more: it counts its changes of focus, and      *)
(* until the host answers makes no input; it sends the inputs it has made. *)
LEMMA GuestSpeaks ==
  ASSUME NEW g, NEW l, NEW hr, NEW gr, NEW b, NEW D, NEW U, NEW P, NEW local,
         Session(g, l, hr, gr, b, D, U, P, local), Sides(hr, gr, b, D, U, P), gr.grant = g,
         NEW m, m.seq = gr.tx + 1, m.kind # "Grant",
         NEW g2, g2.grant = g, g2.tx = gr.tx + 1, g2.rx = gr.rx, g2.epoch = gr.epoch,
         g2.revoked = gr.revoked,
         IF m.kind \in Refocus
         THEN g2.focus = gr.focus + 1 /\ m.body = g2.focus /\ g2.paused
         ELSE g2.focus = gr.focus /\ g2.paused = gr.paused,
         m.kind = "Input" => m.body \in P
  PROVE  Session(g, l, hr, g2, b, D, U \union {m}, P, local)
<1>1. /\ gr.tx \in Nat /\ gr.focus \in Nat /\ hr.rx \in Nat /\ hr.focus \in Nat
      /\ \A x \in U : x.seq \in Nat /\ (x.kind \in Refocus => x.body \in Nat)
      /\ \A x \in U : x.kind # "Grant"
  <2>1. \A x \in U : x.seq \in Nat
    BY SidesTypes
  <2>2. \A x \in U : (x.kind \in Refocus => x.body \in Nat) /\ x.kind # "Grant"
    BY DEF Sides, Upward
  <2> QED
    BY <2>1, <2>2 DEF Sides, Runtime
<1>2. \A x \in D : x.kind # "Grant"
  BY DEF Session, Granting
<1>3. Numbering(g, hr, g2, D, U \union {m})
  <2>1. CASE m.kind # "Grant"
    <3>1. Seqs(U \union {m}) = Seqs(U) \union {gr.tx + 1}
      BY <2>1 DEF Seqs
    <3>2. ASSUME Listening(hr, g) PROVE Flow(Seqs(U \union {m}), hr.rx, g, g2, g2.tx)
      <4>1. Flow(Seqs(U), hr.rx, g, gr, gr.tx)
        BY <3>2 DEF Session, Numbering
      <4>2. Flow(Seqs(U) \union {gr.tx + 1}, hr.rx, g, g2, gr.tx + 1)
        BY <1>1, <4>1, FlowAdd
      <4> QED
        BY <3>1, <4>2
    <3>3. ASSUME Listening(hr, g) PROVE Flow(Foci(U \union {m}), hr.focus, g, g2, g2.focus)
      <4>0. Flow(Foci(U), hr.focus, g, gr, gr.focus)
        BY <3>3 DEF Session, Numbering
      <4>1. CASE m.kind \in Refocus
        <5>1. Foci(U \union {m}) = Foci(U) \union {gr.focus + 1}
          BY <4>1 DEF Foci
        <5>2. Flow(Foci(U) \union {gr.focus + 1}, hr.focus, g, g2, gr.focus + 1)
          BY <1>1, <4>0, FlowAdd
        <5> QED
          BY <4>1, <5>1, <5>2
      <4>2. CASE m.kind \notin Refocus
        <5>1. Foci(U \union {m}) = Foci(U)
          BY <4>2 DEF Foci
        <5> QED
          BY <4>0, <4>2, <5>1, FlowEnds
      <4> QED
        BY <4>1, <4>2
    <3>4. \A x \in U \union {m} : x.seq <= g2.tx /\ (x.kind \in Refocus => x.body <= g2.focus)
      <4>1. \A x \in U : x.seq <= gr.tx /\ (x.kind \in Refocus => x.body <= gr.focus)
        BY DEF Session, Numbering
      <4>2. gr.focus <= g2.focus /\ g2.focus \in Nat
        BY <1>1
      <4>3. m.seq <= g2.tx /\ (m.kind \in Refocus => m.body <= g2.focus)
        BY <1>1, <4>2
      <4> QED
        BY <1>1, <4>1, <4>2, <4>3
    <3> QED
      BY <3>2, <3>3, <3>4 DEF Session, Numbering, Listening
  <2> QED
    BY <2>1
<1>4. Granting(g, l, hr, g2, D, U \union {m})
  BY <1>2 DEF Granting
<1>5. Reporting(g, hr, g2, b, D)
  BY DEF Session, Reporting, Known
<1>6. Fresh(g, hr, b, U \union {m}, P, local)
  <2>1. Sent(U \union {m}) \subseteq Sent(U) \union P
    BY DEF Sent
  <2> QED
    BY <2>1 DEF Session, Fresh
<1> QED
  BY <1>3, <1>4, <1>5, <1>6 DEF Session

(* A session that is new, and one that begins with a Grant.                *)
LEMMA SessionEmpty ==
  ASSUME NEW g, NEW l, NEW hr, hr.grant # g, NEW gr, gr.grant # g, NEW b, NEW local
  PROVE  Session(g, l, hr, gr, b, {}, {}, {}, local)
BY DEF Session, Numbering, Granting, Reporting, Fresh, Listening

LEMMA HostGrants ==
  ASSUME NEW g, NEW l, NEW hr, hr.grant = g, hr.tx = 0, hr.rx = 0, hr.focus = 0,
         NEW gr, gr.grant # g, NEW b, Queued(b, g) = {}, NEW m, m.kind = "Grant", NEW local
  PROVE  Session(g, l, hr, gr, b, {m}, {}, {}, local)
<1>1. Seqs({m}) = {} /\ Seqs({}) = {} /\ Foci({}) = {} /\ Sent({}) = {}
  BY DEF Seqs, Foci, Sent
<1>2. Flow({}, 0, g, gr, 0) /\ Flow({}, 0, g, hr, hr.tx)
  BY FlowEmpty
<1>3. Numbering(g, hr, gr, {m}, {})
  <2>1. Flow({}, 0, g, gr, gr.tx) /\ Flow({}, 0, g, gr, gr.focus)
    BY <1>2, FlowEnds
  <2> QED
    BY <1>1, <1>2, <2>1 DEF Numbering, Listening
<1>4. Granting(g, l, hr, gr, {m}, {})
  BY <1>1, <1>2 DEF Granting
<1>5. Reporting(g, hr, gr, b, {m}) /\ Fresh(g, hr, b, {}, {}, local)
  BY <1>1 DEF Reporting, Fresh
<1> QED
  BY <1>3, <1>4, <1>5 DEF Session

(* The guest takes the Grant that it awaits.                               *)
Newcomer(g, r) ==
  r.grant = g /\ r.tx = 0 /\ r.rx = 0 /\ r.focus = 0 /\ r.epoch = 0 /\ r.paused

LEMMA GuestTakes ==
  ASSUME NEW g, NEW l, NEW hr, NEW gr, NEW b, NEW D, NEW U, NEW P, NEW local,
         Session(g, l, hr, gr, b, D, U, P, local), Sides(hr, gr, b, D, U, P),
         Awaits(gr, l),
         NEW m, m.kind = "Grant", NEW D2, D = {m} \union D2, \A x \in D2 : InOrder(m, x),
         NEW g2, Newcomer(g, g2)
  PROVE  Session(g, l, hr, g2, b, D2, U, P, local)
<1>0. g2.grant = g /\ g2.tx = 0 /\ g2.rx = 0 /\ g2.focus = 0 /\ g2.epoch = 0 /\ g2.paused
  BY DEF Newcomer
<1>1. /\ U = {} /\ Flow(Seqs(D), 0, g, hr, hr.tx)
      /\ hr.grant = g => hr.rx = 0 /\ hr.focus = 0
  BY DEF Session, Granting
<1>2. \A x \in D2 : x.kind # "Grant"
  BY DEF InOrder
<1>3. Seqs(D) = Seqs(D2)
  BY DEF Seqs
<1>4. Seqs({}) = {} /\ Foci({}) = {}
  BY DEF Seqs, Foci
<1>5. Numbering(g, hr, g2, D2, U)
  <2>1. Listening(hr, g) => Flow({}, hr.rx, g, g2, g2.tx) /\ Flow({}, hr.focus, g, g2, g2.focus)
    BY <1>0, <1>1, FlowEmpty DEF Listening
  <2> QED
    BY <1>0, <1>1, <1>3, <1>4, <2>1 DEF Session, Numbering, Listening
<1>6. Granting(g, l, hr, g2, D2, U)
  BY <1>0, <1>2 DEF Granting
<1>7. Reporting(g, hr, g2, b, D2)
  <2>1. b.epoch \in Nat
    BY DEF Sides, Backend
  <2>2. \A x \in D2 : x.kind = "InputState" => x.body.epoch \in Nat
    <3>1. \A x \in D2 : x.kind = "InputState" => x.body \in Reports
      BY SidesTypes
    <3> QED
      BY <3>1 DEF Reports
  <2> QED
    BY <1>0, <2>1, <2>2 DEF Session, Reporting
<1>8. Fresh(g, hr, b, U, P, local)
  BY DEF Session
<1> QED
  BY <1>5, <1>6, <1>7, <1>8 DEF Session

-----------------------------------------------------------------------------
(* A small change of participant n: to the Runtime r and the backend b,    *)
(* the posts s and the channels V.                                         *)

(* Sessions other than that of r lose at most what was on its way to n. A  *)
(* participant that still requests loses nothing of the Grant it awaits.   *)
Untouched(L, I, R, W, S, n, r, V, s) ==
  \A g \in 1 .. I : g # r.grant =>
    /\ \A p, q \in Nodes : q # n => Mailed(V[<<p, q>>], g) = Mailed(W[<<p, q>>], g)
    /\ \A p \in Nodes : Mailed(V[<<p, n>>], g) \subseteq Mailed(W[<<p, n>>], g)
    /\ Unsent(s, g) \subseteq Unsent(S[n], g)
    /\ \A p \in Nodes :
         p = L[g].host => StillAwaits(L[g], R[n], r, Mailed(W[<<p, n>>], g), Mailed(V[<<p, n>>], g))

(* The channels keep their order, and every new message is a proper one.   *)
Delivers(L, I, W, V) ==
  /\ V \in Channels
  /\ \A p, q \in Nodes :
       Ordered(V[<<p, q>>]) /\ \A m \in Range(V[<<p, q>>]) : m \in Range(W[<<p, q>>]) \/ Mail(L, I, p, q, m)

(* The session of r itself.                                                *)
Own(L, A, R, B, W, S, n, r) ==
  r.grant # 0 => At(L, A, R, B, W, S, r.grant)

(* A proper change of n.                                                   *)
Proper(L, I, R, W, S, n, o, r, s, V) ==
  /\ Role(L, I, n, r, o) /\ Delivers(L, I, W, V)
  /\ \A x \in Range(s) : Post(L, I, n, x)
  /\ Untouched(L, I, R, W, S, n, r, V, s)

LEMMA ParticipantKeeps ==
  ASSUME NEW L, NEW I, NEW O, NEW A, NEW R, NEW B, NEW W, NEW S,
         Agreement(L, I, O, A, R, B, W, S),
         NEW n \in Nodes, NEW o \in BOOLEAN, NEW a \in Nat, NEW r \in Runtime, NEW b \in Backend,
         NEW s \in Seq(Posts), NEW V,
         Proper(L, I, R, W, S, n, o, r, s, V),
         Own(L, [A EXCEPT ![n] = a], [R EXCEPT ![n] = r], [B EXCEPT ![n] = b], V,
             [S EXCEPT ![n] = s], n, r)
  PROVE  Agreement(L, I, [O EXCEPT ![n] = o], [A EXCEPT ![n] = a], [R EXCEPT ![n] = r],
                   [B EXCEPT ![n] = b], V, [S EXCEPT ![n] = s])
<1> DEFINE OO == [O EXCEPT ![n] = o]
           AA == [A EXCEPT ![n] = a]
           RR == [R EXCEPT ![n] = r]
           BB == [B EXCEPT ![n] = b]
           SS == [S EXCEPT ![n] = s]
<1>1. Values(L, I, O, A, R, B, W, S) /\ Parts(L, I, O, R, W, S)
  BY DEF Agreement
<1>a. /\ Role(L, I, n, r, o) /\ Delivers(L, I, W, V)
      /\ \A x \in Range(s) : Post(L, I, n, x)
      /\ Untouched(L, I, R, W, S, n, r, V, s)
  BY DEF Proper
<1>2. Values(L, I, OO, AA, RR, BB, V, SS)
  BY <1>1, <1>a DEF Values, Delivers
<1>3. /\ \A m \in Nodes : RR[m] = (IF m = n THEN r ELSE R[m]) /\ BB[m] = (IF m = n THEN b ELSE B[m])
      /\ \A m \in Nodes : OO[m] = (IF m = n THEN o ELSE O[m]) /\ AA[m] = (IF m = n THEN a ELSE A[m])
      /\ \A m \in Nodes : SS[m] = (IF m = n THEN s ELSE S[m])
  BY <1>1 DEF Values
<1> HIDE DEF OO, AA, RR, BB, SS
<1>4. Parts(L, I, OO, RR, V, SS)
  <2>1. \A m \in Nodes : Role(L, I, m, RR[m], OO[m])
    BY <1>1, <1>3, <1>a DEF Parts
  <2>2. \A p, q \in Nodes :
          Ordered(V[<<p, q>>]) /\ \A m \in Range(V[<<p, q>>]) : Mail(L, I, p, q, m)
    BY <1>1, <1>a DEF Parts, Delivers
  <2>3. \A m \in Nodes : \A x \in Range(SS[m]) : Post(L, I, m, x)
    BY <1>1, <1>3, <1>a DEF Parts
  <2> QED
    BY <2>1, <2>2, <2>3 DEF Parts
<1>5. ASSUME NEW g \in 1 .. I PROVE At(L, AA, RR, BB, V, SS, g)
  <2> DEFINE h == L[g].host
             c == L[g].guest
  <2>1. h \in Nodes /\ c \in Nodes /\ h # c /\ g # 0 /\ At(L, A, R, B, W, S, g)
    BY <1>1, <1>5 DEF Values, Deals, Agreement
  <2>2. CASE g = r.grant
    <3>1. Own(L, AA, RR, BB, V, SS, n, r)
      BY DEF AA, RR, BB, SS
    <3> QED
      BY <2>1, <2>2, <3>1 DEF Own
  <2>3. CASE g # r.grant
    <3> HIDE DEF h, c
    <3>0. Session(g, L[g], R[h], R[c], B[h], Mailed(W[<<h, c>>], g), Mailed(W[<<c, h>>], g),
                  Unsent(S[c], g), A[h])
      BY <2>1 DEF At, h, c
    <3>1. Session(g, L[g], RR[h], RR[c], BB[h], Mailed(V[<<h, c>>], g), Mailed(V[<<c, h>>], g),
                  Unsent(SS[c], g), AA[h])
      <4>1. CASE n = h
        <5>1. /\ RR[h] = r /\ RR[c] = R[c] /\ SS[c] = S[c]
          BY <1>3, <2>1, <4>1
        <5>2. /\ Mailed(V[<<h, c>>], g) = Mailed(W[<<h, c>>], g)
              /\ Mailed(V[<<c, h>>], g) \subseteq Mailed(W[<<c, h>>], g)
          BY <1>a, <1>5, <2>1, <2>3, <4>1 DEF Untouched
        <5>3. Mailed(V[<<c, h>>], g) \in SUBSET Mailed(W[<<c, h>>], g)
          BY <5>2
        <5>4. Session(g, L[g], r, R[c], BB[h], Mailed(W[<<h, c>>], g), Mailed(V[<<c, h>>], g),
                      Unsent(S[c], g), AA[h])
          BY <2>3, <3>0, <5>3, HostAway
        <5> QED
          BY <5>1, <5>2, <5>4
      <4>2. CASE n = c
        <5>1. RR[h] = R[h] /\ RR[c] = r /\ BB[h] = B[h] /\ AA[h] = A[h] /\ SS[c] = s
          BY <1>3, <2>1, <4>2
        <5>2. /\ Mailed(V[<<h, c>>], g) \subseteq Mailed(W[<<h, c>>], g)
              /\ Mailed(V[<<c, h>>], g) = Mailed(W[<<c, h>>], g)
              /\ Unsent(s, g) \subseteq Unsent(S[c], g)
          BY <1>a, <1>5, <2>1, <2>3, <4>2 DEF Untouched
        <5>3. StillAwaits(L[g], R[c], r, Mailed(W[<<h, c>>], g), Mailed(V[<<h, c>>], g))
          <6>1. h = L[g].host
            BY DEF h
          <6> QED
            BY <1>a, <1>5, <2>1, <2>3, <4>2, <6>1 DEF Untouched
        <5>4. /\ Mailed(V[<<h, c>>], g) \in SUBSET Mailed(W[<<h, c>>], g)
              /\ Unsent(s, g) \in SUBSET Unsent(S[c], g)
          BY <5>2
        <5>5. Session(g, L[g], R[h], r, B[h], Mailed(V[<<h, c>>], g), Mailed(W[<<c, h>>], g),
                      Unsent(s, g), A[h])
          BY <2>3, <3>0, <5>3, <5>4, GuestAway
        <5> QED
          BY <5>1, <5>2, <5>5
      <4>3. CASE n # h /\ n # c
        <5>1. /\ RR[h] = R[h] /\ RR[c] = R[c] /\ BB[h] = B[h] /\ AA[h] = A[h]
              /\ SS[c] = S[c]
          BY <1>3, <2>1, <4>3
        <5>2. /\ Mailed(V[<<h, c>>], g) = Mailed(W[<<h, c>>], g)
              /\ Mailed(V[<<c, h>>], g) = Mailed(W[<<c, h>>], g)
          BY <1>a, <1>5, <2>1, <2>3, <4>3 DEF Untouched
        <5> QED
          BY <3>0, <5>1, <5>2
      <4> QED
        BY <4>1, <4>2, <4>3
    <3> QED
      BY <3>1 DEF At, h, c
  <2> QED
    BY <2>2, <2>3
<1>6. Agreement(L, I, OO, AA, RR, BB, V, SS)
  BY <1>2, <1>4, <1>5 DEF Agreement
<1> QED
  BY <1>6 DEF OO, AA, RR, BB, SS

(* What is known of a session, and where its two sides are.                *)
LEMMA SessionFacts ==
  ASSUME NEW L, NEW I, NEW O, NEW A, NEW R, NEW B, NEW W, NEW S,
         Agreement(L, I, O, A, R, B, W, S), NEW g \in 1 .. I,
         NEW h, NEW c, h = L[g].host, c = L[g].guest
  PROVE  /\ h \in Nodes /\ c \in Nodes /\ h # c /\ g \in Nat /\ g # 0
         /\ Session(g, L[g], R[h], R[c], B[h], Mailed(W[<<h, c>>], g), Mailed(W[<<c, h>>], g),
                    Unsent(S[c], g), A[h])
         /\ Sides(R[h], R[c], B[h], Mailed(W[<<h, c>>], g), Mailed(W[<<c, h>>], g), Unsent(S[c], g))
<1>1. Values(L, I, O, A, R, B, W, S) /\ Parts(L, I, O, R, W, S) /\ At(L, A, R, B, W, S, g)
  BY DEF Agreement
<1>2. h \in Nodes /\ c \in Nodes /\ h # c /\ g \in Nat /\ g # 0
  BY <1>1 DEF Values, Deals
<1>3. W[<<h, c>>] \in Seq(Messages) /\ W[<<c, h>>] \in Seq(Messages) /\ S[c] \in Seq(Posts)
  BY <1>1, <1>2 DEF Values, Channels
<1>4. Mailed(W[<<h, c>>], g) \subseteq Messages /\ Mailed(W[<<c, h>>], g) \subseteq Messages
  BY <1>3, MailedType
<1>5. \A m \in Mailed(W[<<h, c>>], g) : m.kind \in Downward
  BY <1>1, <1>2 DEF Parts, Mailed, Mail
<1>6. \A m \in Mailed(W[<<c, h>>], g) : m.kind \in Upward /\ (m.kind \in Refocus => m.body \in Nat)
  BY <1>1, <1>2 DEF Parts, Mailed, Mail
<1>7. Unsent(S[c], g) \subseteq InputRecords
  <2>1. Range(S[c]) \subseteq Posts
    BY <1>3, LenProperties, ElementOfSeq DEF Range
  <2> QED
    BY <2>1 DEF Unsent, Posts
<1>8. R[h] \in Runtime /\ R[c] \in Runtime /\ B[h] \in Backend
  BY <1>1, <1>2 DEF Values
<1> QED
  BY <1>1, <1>2, <1>4, <1>5, <1>6, <1>7, <1>8 DEF Sides, At

LEMMA Places ==
  ASSUME NEW L, NEW I, NEW n, NEW r, NEW o, Role(L, I, n, r, o), r \in Runtime, r.grant # 0
  PROVE  /\ r.grant \in 1 .. I /\ r.peer \in Nodes \ {n} /\ L[r.grant].req = r.req
         /\ r.state # "Requesting" /\ r.state # "Idle"
         /\ \/ /\ L[r.grant].host = n /\ L[r.grant].guest = r.peer
               /\ r.state \in {"AwaitingReady", "Controlled"}
            \/ /\ L[r.grant].host = r.peer /\ L[r.grant].guest = n
               /\ r.state \in {"AwaitingActivation", "Controlling"}
BY DEF Role, Runtime, States

(* The session of n when the change is seen from n: as host, as guest.     *)
LEMMA OwnHost ==
  ASSUME NEW L, NEW I, NEW O, NEW A, NEW R, NEW B, NEW W, NEW S, Values(L, I, O, A, R, B, W, S),
         NEW n \in Nodes, NEW a, NEW r, NEW b, NEW V, NEW s, r.grant \in 1 .. I,
         NEW c, c = L[r.grant].guest, L[r.grant].host = n,
         Session(r.grant, L[r.grant], r, R[c], b, Mailed(V[<<n, c>>], r.grant),
                 Mailed(V[<<c, n>>], r.grant), Unsent(S[c], r.grant), a)
  PROVE  Own(L, [A EXCEPT ![n] = a], [R EXCEPT ![n] = r], [B EXCEPT ![n] = b], V,
             [S EXCEPT ![n] = s], n, r)
<1>1. c \in Nodes /\ c # n
  BY DEF Values, Deals
<1>2. /\ [A EXCEPT ![n] = a][n] = a /\ [R EXCEPT ![n] = r][n] = r /\ [B EXCEPT ![n] = b][n] = b
      /\ [R EXCEPT ![n] = r][c] = R[c] /\ [S EXCEPT ![n] = s][c] = S[c]
  BY <1>1 DEF Values
<1> QED
  BY <1>2 DEF Own, At

LEMMA OwnGuest ==
  ASSUME NEW L, NEW I, NEW O, NEW A, NEW R, NEW B, NEW W, NEW S, Values(L, I, O, A, R, B, W, S),
         NEW n \in Nodes, NEW a, NEW r, NEW b, NEW V, NEW s, r.grant \in 1 .. I,
         NEW h, h = L[r.grant].host, L[r.grant].guest = n,
         Session(r.grant, L[r.grant], R[h], r, B[h], Mailed(V[<<h, n>>], r.grant),
                 Mailed(V[<<n, h>>], r.grant), Unsent(s, r.grant), A[h])
  PROVE  Own(L, [A EXCEPT ![n] = a], [R EXCEPT ![n] = r], [B EXCEPT ![n] = b], V,
             [S EXCEPT ![n] = s], n, r)
<1>1. h \in Nodes /\ h # n
  BY DEF Values, Deals
<1>2. /\ [A EXCEPT ![n] = a][h] = A[h] /\ [R EXCEPT ![n] = r][n] = r /\ [B EXCEPT ![n] = b][h] = B[h]
      /\ [R EXCEPT ![n] = r][h] = R[h] /\ [S EXCEPT ![n] = s][n] = s
  BY <1>1 DEF Values
<1> QED
  BY <1>2 DEF Own, At

(* A channel to n that has been shortened, or not been touched.            *)
Shortened(W, V, n) ==
  /\ V \in Channels
  /\ \A p, q \in Nodes : q # n => V[<<p, q>>] = W[<<p, q>>]
  /\ \A p \in Nodes : Range(V[<<p, n>>]) \subseteq Range(W[<<p, n>>])
  /\ \A p \in Nodes : Ordered(W[<<p, n>>]) => Ordered(V[<<p, n>>])

LEMMA ShortenedDelivers ==
  ASSUME NEW L, NEW I, NEW O, NEW R, NEW W, NEW S, Parts(L, I, O, R, W, S),
         NEW n \in Nodes, NEW V, Shortened(W, V, n)
  PROVE  Delivers(L, I, W, V)
BY DEF Shortened, Delivers, Parts

LEMMA ShortenedMail ==
  ASSUME NEW W, NEW n \in Nodes, NEW V, Shortened(W, V, n), NEW g, NEW p \in Nodes
  PROVE  Mailed(V[<<p, n>>], g) \in SUBSET Mailed(W[<<p, n>>], g)
BY DEF Shortened, Mailed

-----------------------------------------------------------------------------
(* What participants do, one thing at a time.                              *)

(* n forgets its session, or begins to ask or to be asked for another.     *)
LEMMA UnsettledKeeps ==
  ASSUME NEW L, NEW I, NEW O, NEW A, NEW R, NEW B, NEW W, NEW S,
         Agreement(L, I, O, A, R, B, W, S),
         NEW n \in Nodes, NEW o \in BOOLEAN, NEW r \in Runtime, NEW b \in Backend,
         Role(L, I, n, r, o), r.grant = 0, \A g \in 1 .. I : ~Awaits(r, L[g])
  PROVE  Agreement(L, I, [O EXCEPT ![n] = o], A, [R EXCEPT ![n] = r], [B EXCEPT ![n] = b], W, S)
<1>1. Values(L, I, O, A, R, B, W, S) /\ Parts(L, I, O, R, W, S)
  BY DEF Agreement
<1>2. /\ A[n] \in Nat /\ A = [A EXCEPT ![n] = A[n]]
      /\ S[n] \in Seq(Posts) /\ S = [S EXCEPT ![n] = S[n]]
  BY <1>1 DEF Values
<1>3. Delivers(L, I, W, W)
  BY <1>1 DEF Delivers, Parts, Values
<1>4. \A x \in Range(S[n]) : Post(L, I, n, x)
  BY <1>1 DEF Parts
<1>5. Untouched(L, I, R, W, S, n, r, W, S[n])
  BY DEF Untouched, StillAwaits
<1>6. Own(L, [A EXCEPT ![n] = A[n]], [R EXCEPT ![n] = r], [B EXCEPT ![n] = b], W,
          [S EXCEPT ![n] = S[n]], n, r)
  BY DEF Own
<1>7. Agreement(L, I, [O EXCEPT ![n] = o], [A EXCEPT ![n] = A[n]], [R EXCEPT ![n] = r],
                [B EXCEPT ![n] = b], W, [S EXCEPT ![n] = S[n]])
  <2>1. Proper(L, I, R, W, S, n, o, r, S[n], W)
    BY <1>3, <1>4, <1>5 DEF Proper
  <2> QED
    BY <1>2, <1>6, <2>1, ParticipantKeeps
<1> QED
  BY <1>2, <1>7

(* What n, with the Runtime q, has lost was neither of its session nor the *)
(* Grant it awaits.                                                        *)
Foreign(n, q, W, V, L, I) ==
  \A p \in Nodes : \A g \in 1 .. I :
    /\ g = q.grant => Mailed(V[<<p, n>>], g) = Mailed(W[<<p, n>>], g)
    /\ p = L[g].host => StillAwaits(L[g], q, q, Mailed(W[<<p, n>>], g), Mailed(V[<<p, n>>], g))

LEMMA NothingLost ==
  ASSUME NEW n, NEW q, NEW W, NEW L, NEW I
  PROVE  Foreign(n, q, W, W, L, I)
BY DEF Foreign, StillAwaits

(* A change that the protocol does not notice: else what is lost was       *)
(* admitted under an epoch that has been revoked.                          *)
Unnoticed(n, q, r, b, c, a, d, s, t, W, V, L, I) ==
  /\ r.grant = q.grant /\ r.tx = q.tx /\ r.rx = q.rx /\ r.focus = q.focus
  /\ r.req = q.req /\ r.peer = q.peer
  /\ r.state = "Requesting" => q.state = "Requesting"
  /\ r.grant # 0 /\ L[r.grant].guest = n => r.epoch = q.epoch /\ r.paused = q.paused
  /\ r.revoked \/ q.state = "Idle" \/ (Foreign(n, q, W, V, L, I) /\ r.revoked = q.revoked)
  /\ Shortened(W, V, n)
  /\ c.paused \/ d = a
  /\ Onward(b, c) /\ Range(c.queue) \subseteq Range(b.queue)
  /\ Range(t) \subseteq Range(s) \union [kind : {"stop"}]

LEMMA UnnoticedKeeps ==
  ASSUME NEW L, NEW I, NEW O, NEW A, NEW R, NEW B, NEW W, NEW S,
         Agreement(L, I, O, A, R, B, W, S),
         NEW n \in Nodes, NEW o \in BOOLEAN, NEW a \in Nat, NEW r \in Runtime, NEW b \in Backend,
         NEW s \in Seq(Posts), NEW V, Role(L, I, n, r, o),
         Unnoticed(n, R[n], r, B[n], b, A[n], a, S[n], s, W, V, L, I)
  PROVE  Agreement(L, I, [O EXCEPT ![n] = o], [A EXCEPT ![n] = a], [R EXCEPT ![n] = r],
                   [B EXCEPT ![n] = b], V, [S EXCEPT ![n] = s])
<1>1. Values(L, I, O, A, R, B, W, S) /\ Parts(L, I, O, R, W, S) /\ Shortened(W, V, n)
  BY DEF Agreement, Unnoticed
<1>2. /\ Delivers(L, I, W, V)
      /\ \A g : \A p \in Nodes : Mailed(V[<<p, n>>], g) \in SUBSET Mailed(W[<<p, n>>], g)
      /\ \A p, q \in Nodes : q # n => V[<<p, q>>] = W[<<p, q>>]
  <2>1. Delivers(L, I, W, V)
    BY <1>1, ShortenedDelivers
  <2>2. \A g : \A p \in Nodes : Mailed(V[<<p, n>>], g) \in SUBSET Mailed(W[<<p, n>>], g)
    BY <1>1, ShortenedMail
  <2>3. \A p, q \in Nodes : q # n => V[<<p, q>>] = W[<<p, q>>]
    BY <1>1 DEF Shortened
  <2> QED
    BY <2>1, <2>2, <2>3
<1>3. /\ \A x \in Range(s) : Post(L, I, n, x)
      /\ \A g : Unsent(s, g) \subseteq Unsent(S[n], g)
      /\ \A g : Queued(b, g) \subseteq Queued(B[n], g)
  <2>1. Range(s) \subseteq Range(S[n]) \union [kind : {"stop"}]
    BY DEF Unnoticed
  <2>2. \A x \in [kind : {"stop"}] : x.kind = "stop"
    OBVIOUS
  <2>3. \A x \in Range(s) : x.kind = "input" => x \in Range(S[n])
    BY <2>1, <2>2
  <2>4. \A x \in Range(S[n]) : Post(L, I, n, x)
    BY <1>1 DEF Parts
  <2>5. \A x \in Range(s) : Post(L, I, n, x)
    BY <2>3, <2>4 DEF Post
  <2>6. \A g : Unsent(s, g) \subseteq Unsent(S[n], g)
    BY <2>3 DEF Unsent
  <2> QED
    BY <2>5, <2>6 DEF Queued, Unnoticed
<1>4. Untouched(L, I, R, W, S, n, r, V, s)
  <2> SUFFICES ASSUME NEW g \in 1 .. I, NEW p \in Nodes, p = L[g].host, g # r.grant
               PROVE  StillAwaits(L[g], R[n], r, Mailed(W[<<p, n>>], g), Mailed(V[<<p, n>>], g))
    BY <1>2, <1>3 DEF Untouched
  <2> QED
    BY DEF StillAwaits, Awaits, Unnoticed, Foreign
<1>5. ASSUME r.grant # 0
      PROVE  Own(L, [A EXCEPT ![n] = a], [R EXCEPT ![n] = r], [B EXCEPT ![n] = b], V,
                 [S EXCEPT ![n] = s], n, r)
  <2> DEFINE g == r.grant
             h == L[g].host
             c == L[g].guest
  <2>1. /\ g \in 1 .. I /\ R[n].grant = g /\ (n = h \/ n = c)
        /\ r.revoked \/ (Foreign(n, R[n], W, V, L, I) /\ r.revoked = R[n].revoked)
    <3>1. R[n] \in Runtime /\ Role(L, I, n, R[n], O[n]) /\ R[n].grant = g
      BY <1>1 DEF Values, Parts, Unnoticed
    <3>2. R[n].state # "Idle" /\ g \in 1 .. I /\ (n = h \/ n = c)
      BY <1>5, <3>1, Places
    <3> QED
      BY <3>1, <3>2 DEF Unnoticed
  <2>2. /\ h \in Nodes /\ c \in Nodes /\ h # c
        /\ Session(g, L[g], R[h], R[c], B[h], Mailed(W[<<h, c>>], g), Mailed(W[<<c, h>>], g),
                   Unsent(S[c], g), A[h])
        /\ Sides(R[h], R[c], B[h], Mailed(W[<<h, c>>], g), Mailed(W[<<c, h>>], g), Unsent(S[c], g))
    BY <2>1, SessionFacts
  <2> HIDE DEF g
  <2>3. CASE n = h
    <3>1. V[<<h, c>>] = W[<<h, c>>]
      BY <1>2, <2>2, <2>3
    <3>a. Mailed(V[<<c, n>>], g) \in SUBSET Mailed(W[<<c, n>>], g)
      BY <1>2, <2>2
    <3>b. r.revoked \/ (Mailed(V[<<c, n>>], g) = Mailed(W[<<c, n>>], g) /\ r.revoked = R[n].revoked)
      BY <2>1, <2>2 DEF Foreign
    <3> HIDE DEF h, c
    <3>2. /\ Mailed(V[<<c, h>>], g) \in SUBSET Mailed(W[<<c, h>>], g)
          /\ r.revoked \/ (Mailed(V[<<c, h>>], g) = Mailed(W[<<c, h>>], g) /\ r.revoked = R[n].revoked)
      BY <2>3, <3>a, <3>b
    <3> USE DEF h, c
    <3>3. CalmHost(g, R[n], r, Mailed(W[<<c, h>>], g), Mailed(V[<<c, h>>], g), B[n], b)
      BY <1>3, <3>2 DEF Unnoticed, CalmHost
    <3>5. Session(g, L[g], r, R[c], b, Mailed(W[<<n, c>>], g), Mailed(V[<<c, n>>], g),
                  Unsent(S[c], g), a)
      <4>1. b.paused \/ a = A[n]
        BY DEF Unnoticed
      <4> QED
        BY <2>2, <2>3, <3>3, <4>1, HostCalm
    <3> QED
      BY <1>1, <2>1, <2>3, <3>1, <3>5, OwnHost DEF g
  <2>4. CASE n = c
    <3>1. V[<<c, h>>] = W[<<c, h>>]
      BY <1>2, <2>2, <2>4
    <3>2. /\ Mailed(V[<<h, n>>], g) \subseteq Mailed(W[<<h, n>>], g)
          /\ Unsent(s, g) \subseteq Unsent(S[n], g)
      BY <1>2, <1>3, <2>2
    <3>3. r.revoked \/ (Mailed(V[<<h, n>>], g) = Mailed(W[<<h, n>>], g) /\ r.revoked = R[n].revoked)
      BY <2>1, <2>2 DEF Foreign
    <3>4. Calm(R[n], r, Mailed(W[<<h, n>>], g), Mailed(V[<<h, n>>], g))
      BY <1>5, <2>4, <3>2, <3>3 DEF Unnoticed, Calm, g
    <3> HIDE DEF h, c
    <3>5. Session(g, L[g], R[h], r, B[h], Mailed(V[<<h, n>>], g), Mailed(W[<<n, h>>], g),
                  Unsent(s, g), A[h])
      <4>1. Session(g, L[g], R[h], R[n], B[h], Mailed(W[<<h, n>>], g), Mailed(W[<<n, h>>], g),
                    Unsent(S[n], g), A[h])
        BY <2>2, <2>4
      <4> QED
        BY <2>1, <3>2, <3>4, <4>1, GuestCalm
    <3>6. Mailed(V[<<n, h>>], g) = Mailed(W[<<n, h>>], g) /\ L[g].guest = n /\ h = L[g].host
      BY <2>4, <3>1 DEF h, c
    <3> QED
      BY <1>1, <2>1, <3>5, <3>6, OwnGuest DEF g
  <2> QED
    BY <2>1, <2>3, <2>4
<1>6. Own(L, [A EXCEPT ![n] = a], [R EXCEPT ![n] = r], [B EXCEPT ![n] = b], V,
          [S EXCEPT ![n] = s], n, r)
  BY <1>5 DEF Own
<1>7. Proper(L, I, R, W, S, n, o, r, s, V)
  BY <1>2, <1>3, <1>4 DEF Proper
<1> QED
  BY <1>6, <1>7, ParticipantKeeps

(* The Runtime of n and the channels change, nothing else.                 *)
LEMMA RuntimeKeeps ==
  ASSUME NEW L, NEW I, NEW O, NEW A, NEW R, NEW B, NEW W, NEW S,
         Agreement(L, I, O, A, R, B, W, S),
         NEW n \in Nodes, NEW r \in Runtime, NEW V,
         Proper(L, I, R, W, S, n, O[n], r, S[n], V),
         Own(L, A, [R EXCEPT ![n] = r], B, V, S, n, r)
  PROVE  Agreement(L, I, O, A, [R EXCEPT ![n] = r], B, V, S)
<1>1. /\ O = [O EXCEPT ![n] = O[n]] /\ A = [A EXCEPT ![n] = A[n]]
      /\ B = [B EXCEPT ![n] = B[n]] /\ S = [S EXCEPT ![n] = S[n]]
      /\ O[n] \in BOOLEAN /\ A[n] \in Nat /\ B[n] \in Backend /\ S[n] \in Seq(Posts)
  BY DEF Agreement, Values
<1>2. Own(L, [A EXCEPT ![n] = A[n]], [R EXCEPT ![n] = r], [B EXCEPT ![n] = B[n]], V,
          [S EXCEPT ![n] = S[n]], n, r)
  BY <1>1
<1>3. Agreement(L, I, [O EXCEPT ![n] = O[n]], [A EXCEPT ![n] = A[n]], [R EXCEPT ![n] = r],
                [B EXCEPT ![n] = B[n]], V, [S EXCEPT ![n] = S[n]])
  BY <1>1, <1>2, ParticipantKeeps
<1> QED
  BY <1>1, <1>3

(* The first message of a channel, and the channels without it.            *)
Pops(W, p, n, m, V) ==
  W[<<p, n>>] # <<>> /\ m = Head(W[<<p, n>>]) /\ V = [W EXCEPT ![<<p, n>>] = Tail(@)]

Leaves(L, I, W, p, n, m, V) ==
  /\ m \in Messages /\ Mail(L, I, p, n, m) /\ V \in Channels
  /\ Shortened(W, V, n)
  /\ \A q, c \in Nodes : <<q, c>> # <<p, n>> => V[<<q, c>>] = W[<<q, c>>]
  /\ \A x \in Range(V[<<p, n>>]) : Follows(m, x)
  /\ \A g : /\ m.grant # g => Mailed(V[<<p, n>>], g) = Mailed(W[<<p, n>>], g)
            /\ m.grant = g => Mailed(W[<<p, n>>], g) = {m} \union Mailed(V[<<p, n>>], g)

LEMMA Popping ==
  ASSUME NEW L, NEW I, NEW O, NEW A, NEW R, NEW B, NEW W, NEW S,
         Agreement(L, I, O, A, R, B, W, S),
         NEW p \in Nodes, NEW n \in Nodes, NEW m, NEW V, Pops(W, p, n, m, V)
  PROVE  Leaves(L, I, W, p, n, m, V)
<1>1. Values(L, I, O, A, R, B, W, S) /\ Parts(L, I, O, R, W, S)
  BY DEF Agreement
<1> DEFINE w == W[<<p, n>>]
<1>2. W \in Channels /\ w \in Seq(Messages) /\ w # <<>>
  BY <1>1 DEF Values, Channels, Pops
<1>3. Ordered(w) /\ \A x \in Range(w) : Mail(L, I, p, n, x)
  BY <1>1 DEF Parts
<1> HIDE DEF w
<1>4. /\ Range(w) = {Head(w)} \union Range(Tail(w))
      /\ Ordered(Tail(w)) /\ \A x \in Range(Tail(w)) : Follows(Head(w), x)
  BY <1>2, <1>3, TailFacts
<1>5. Head(w) \in Messages /\ Tail(w) \in Seq(Messages)
  BY <1>2, HeadTailProperties
<1>6. m = Head(w) /\ V[<<p, n>>] = Tail(w) /\ V \in Channels
  BY <1>2, <1>5 DEF Channels, w, Pops
<1>7. \A q, c \in Nodes : <<q, c>> # <<p, n>> => V[<<q, c>>] = W[<<q, c>>]
  BY <1>2 DEF Channels, Pops
<1>8. Shortened(W, V, n)
  <2>1. ASSUME NEW q \in Nodes
        PROVE  /\ Range(V[<<q, n>>]) \subseteq Range(W[<<q, n>>])
               /\ Ordered(W[<<q, n>>]) => Ordered(V[<<q, n>>])
    <3>1. CASE q = p
      BY <1>4, <1>6, <3>1 DEF w
    <3>2. CASE q # p
      <4>1. <<q, n>> # <<p, n>>
        BY <3>2
      <4>2. V[<<q, n>>] = W[<<q, n>>]
        BY <1>7, <4>1
      <4> QED
        BY <4>2
    <3> QED
      BY <3>1, <3>2
  <2>2. \A q, c \in Nodes : c # n => V[<<q, c>>] = W[<<q, c>>]
    BY <1>7
  <2> QED
    BY <1>6, <2>1, <2>2 DEF Shortened
<1>9. \A g : /\ m.grant # g => Mailed(V[<<p, n>>], g) = Mailed(w, g)
             /\ m.grant = g => Mailed(w, g) = {m} \union Mailed(V[<<p, n>>], g)
  BY <1>2, <1>6, MailedTail
<1> QED
  BY <1>3, <1>4, <1>5, <1>6, <1>7, <1>8, <1>9 DEF w, Leaves

(* n passes a message over: it is not of its session, nor the Grant that   *)
(* it awaits.                                                              *)
Passed(p, r, m) ==
  /\ r.grant # 0 /\ m.grant = r.grant => r.revoked
  /\ m.kind = "Grant" /\ r.state = "Requesting" /\ p = r.peer /\ m.req = r.req => r.revoked

LEMMA PassKeeps ==
  ASSUME NEW L, NEW I, NEW O, NEW A, NEW R, NEW B, NEW W, NEW S,
         Agreement(L, I, O, A, R, B, W, S),
         NEW p \in Nodes, NEW n \in Nodes, W[<<p, n>>] # <<>>,
         Passed(p, R[n], Head(W[<<p, n>>]))
  PROVE  Agreement(L, I, O, A, R, B, [W EXCEPT ![<<p, n>>] = Tail(@)], S)
<1> DEFINE m == Head(W[<<p, n>>])
           V == [W EXCEPT ![<<p, n>>] = Tail(@)]
           r == R[n]
<1>0. Pops(W, p, n, m, V)
  BY DEF Pops
<1>2. Values(L, I, O, A, R, B, W, S) /\ Parts(L, I, O, R, W, S) /\ Passed(p, r, m)
  BY DEF Agreement
<1>3. /\ O = [O EXCEPT ![n] = O[n]] /\ A = [A EXCEPT ![n] = A[n]] /\ R = [R EXCEPT ![n] = r]
      /\ B = [B EXCEPT ![n] = B[n]] /\ S = [S EXCEPT ![n] = S[n]]
      /\ O[n] \in BOOLEAN /\ A[n] \in Nat /\ r \in Runtime /\ B[n] \in Backend
      /\ S[n] \in Seq(Posts) /\ Role(L, I, n, r, O[n])
  BY <1>2 DEF Values, Parts
<1> HIDE DEF m, V, r
<1>a. Leaves(L, I, W, p, n, m, V)
  BY <1>0, Popping
<1>1. /\ m \in Messages /\ Mail(L, I, p, n, m) /\ V \in Channels
      /\ Shortened(W, V, n)
      /\ \A q, c \in Nodes : <<q, c>> # <<p, n>> => V[<<q, c>>] = W[<<q, c>>]
      /\ \A x \in Range(V[<<p, n>>]) : Follows(m, x)
      /\ \A g : /\ m.grant # g => Mailed(V[<<p, n>>], g) = Mailed(W[<<p, n>>], g)
                /\ m.grant = g => Mailed(W[<<p, n>>], g) = {m} \union Mailed(V[<<p, n>>], g)
  BY <1>a DEF Leaves
<1>4. ASSUME ~r.revoked PROVE Foreign(n, r, W, V, L, I)
  <2> SUFFICES ASSUME NEW q \in Nodes, NEW g \in 1 .. I
               PROVE  /\ g = r.grant => Mailed(V[<<q, n>>], g) = Mailed(W[<<q, n>>], g)
                      /\ q = L[g].host =>
                           StillAwaits(L[g], r, r, Mailed(W[<<q, n>>], g), Mailed(V[<<q, n>>], g))
    BY DEF Foreign
  <2>0. g # 0 /\ I \in Nat
    BY <1>2 DEF Values
  <2>1. CASE q # p
    <3>1. <<q, n>> # <<p, n>>
      BY <2>1
    <3>2. V[<<q, n>>] = W[<<q, n>>]
      BY <1>1, <3>1
    <3> QED
      BY <3>2 DEF StillAwaits
  <2>2. CASE q = p /\ m.grant # g
    <3>1. Mailed(V[<<q, n>>], g) = Mailed(W[<<q, n>>], g)
      BY <1>1, <2>2
    <3> QED
      BY <3>1 DEF StillAwaits
  <2>3. CASE q = p /\ m.grant = g
    <3>1. g # r.grant
      BY <1>2, <1>4, <2>0, <2>3 DEF Passed
    <3>2. ASSUME q = L[g].host, Awaits(r, L[g])
          PROVE  \A x \in Mailed(V[<<q, n>>], g) : x.kind # "Grant"
      <4>1. m.req = L[g].req
        BY <1>1, <2>0, <2>3 DEF Mail
      <4>2. m.kind # "Grant"
        BY <1>2, <1>4, <2>3, <3>2, <4>1 DEF Passed, Awaits
      <4> QED
        BY <1>1, <2>0, <2>3, <4>2 DEF Mailed, Follows, InOrder
    <3> QED
      BY <3>1, <3>2 DEF StillAwaits
  <2> QED
    BY <2>1, <2>2, <2>3
<1>5. Unnoticed(n, r, r, B[n], B[n], A[n], A[n], S[n], S[n], W, V, L, I)
  <2>1. Onward(B[n], B[n])
    BY <1>3 DEF Onward, Backend
  <2> QED
    BY <1>1, <1>4, <2>1 DEF Unnoticed
<1>6. Agreement(L, I, [O EXCEPT ![n] = O[n]], [A EXCEPT ![n] = A[n]], [R EXCEPT ![n] = r],
                [B EXCEPT ![n] = B[n]], V, [S EXCEPT ![n] = S[n]])
  <2>1. Unnoticed(n, R[n], r, B[n], B[n], A[n], A[n], S[n], S[n], W, V, L, I)
    BY <1>5 DEF r
  <2> QED
    BY <1>3, <2>1, UnnoticedKeeps
<1> QED
  BY <1>3, <1>6 DEF V

(* A message is added to a channel.                                        *)
Adds(L, I, W, p, n, m, V) ==
  /\ V = [W EXCEPT ![<<p, n>>] = Append(@, m)]
  /\ m \in Messages /\ Mail(L, I, p, n, m)
  /\ \A x \in Range(W[<<p, n>>]) : Follows(x, m)

Arrives(L, I, W, p, n, m, V) ==
  /\ Delivers(L, I, W, V)
  /\ \A q, c \in Nodes : <<q, c>> # <<p, n>> => V[<<q, c>>] = W[<<q, c>>]
  /\ \A g : /\ m.grant # g => Mailed(V[<<p, n>>], g) = Mailed(W[<<p, n>>], g)
            /\ m.grant = g => Mailed(V[<<p, n>>], g) = Mailed(W[<<p, n>>], g) \union {m}

LEMMA Adding ==
  ASSUME NEW L, NEW I, NEW O, NEW A, NEW R, NEW B, NEW W, NEW S,
         Agreement(L, I, O, A, R, B, W, S),
         NEW p \in Nodes, NEW n \in Nodes, NEW m, NEW V, Adds(L, I, W, p, n, m, V)
  PROVE  Arrives(L, I, W, p, n, m, V)
<1>1. Values(L, I, O, A, R, B, W, S) /\ Parts(L, I, O, R, W, S)
  BY DEF Agreement
<1> DEFINE w == W[<<p, n>>]
<1>2. W \in Channels /\ w \in Seq(Messages) /\ m \in Messages
  BY <1>1 DEF Values, Channels, Adds
<1>3. Ordered(w) /\ (\A x \in Range(w) : Follows(x, m)) /\ Mail(L, I, p, n, m)
  BY <1>1 DEF Parts, Adds
<1> HIDE DEF w
<1>4. Range(Append(w, m)) = Range(w) \union {m} /\ Ordered(Append(w, m))
  BY <1>2, <1>3, AppendFacts
<1>5. Append(w, m) \in Seq(Messages)
  BY <1>2, AppendProperties
<1>6. V[<<p, n>>] = Append(w, m) /\ V \in Channels
  BY <1>2, <1>5 DEF Adds, Channels, w
<1>7. \A q, c \in Nodes : <<q, c>> # <<p, n>> => V[<<q, c>>] = W[<<q, c>>]
  BY <1>2 DEF Adds, Channels
<1>8. Delivers(L, I, W, V)
  <2> SUFFICES ASSUME NEW q \in Nodes, NEW c \in Nodes
               PROVE  /\ Ordered(V[<<q, c>>])
                      /\ \A x \in Range(V[<<q, c>>]) :
                           x \in Range(W[<<q, c>>]) \/ Mail(L, I, q, c, x)
    BY <1>6 DEF Delivers
  <2>1. CASE <<q, c>> # <<p, n>>
    <3>1. V[<<q, c>>] = W[<<q, c>>]
      BY <1>7, <2>1
    <3> QED
      BY <1>1, <3>1 DEF Parts
  <2>2. CASE q = p /\ c = n
    BY <1>3, <1>4, <1>6, <2>2 DEF w
  <2> QED
    BY <2>1, <2>2
<1>9. \A g : Mailed(Append(w, m), g) = IF m.grant = g THEN Mailed(w, g) \union {m} ELSE Mailed(w, g)
  BY <1>2, MailedAppend
<1> QED
  BY <1>6, <1>7, <1>8, <1>9 DEF Arrives, w

(* It concerns no session but that of its sender.                          *)
LEMMA SpeakerElsewhere ==
  ASSUME NEW L, NEW I, NEW R, NEW W, NEW S, NEW n \in Nodes, NEW c \in Nodes, n # c,
         NEW r, NEW m, NEW V, Arrives(L, I, W, n, c, m, V), m.grant \in {0, r.grant},
         \A g \in 1 .. I : Awaits(r, L[g]) => Awaits(R[n], L[g])
  PROVE  Untouched(L, I, R, W, S, n, r, V, S[n])
<1> SUFFICES ASSUME NEW g \in 1 .. I, g # r.grant
             PROVE  /\ \A p, q \in Nodes : q # n => Mailed(V[<<p, q>>], g) = Mailed(W[<<p, q>>], g)
                    /\ \A p \in Nodes : V[<<p, n>>] = W[<<p, n>>]
  BY DEF Untouched, StillAwaits
<1>1. m.grant # g
  OBVIOUS
<1>2. \A p \in Nodes : V[<<p, n>>] = W[<<p, n>>]
  BY DEF Arrives
<1>3. ASSUME NEW p \in Nodes, NEW q \in Nodes
      PROVE  Mailed(V[<<p, q>>], g) = Mailed(W[<<p, q>>], g)
  <2>1. CASE <<p, q>> # <<n, c>>
    <3>1. V[<<p, q>>] = W[<<p, q>>]
      BY <2>1 DEF Arrives
    <3> QED
      BY <3>1
  <2>2. CASE p = n /\ q = c
    BY <1>1, <2>2 DEF Arrives
  <2> QED
    BY <2>1, <2>2
<1> QED
  BY <1>2, <1>3

(* A message outside all sessions: a Request, or an End instead of one.    *)
LEMMA LooseKeeps ==
  ASSUME NEW L, NEW I, NEW O, NEW A, NEW R, NEW B, NEW W, NEW S,
         Agreement(L, I, O, A, R, B, W, S),
         NEW n \in Nodes, NEW c \in Nodes, n # c, NEW m \in Messages,
         m.grant = 0, m.req <= I, m.kind \in {"Request", "End"}
  PROVE  Agreement(L, I, O, A, R, B, [W EXCEPT ![<<n, c>>] = Append(@, m)], S)
<1> DEFINE V == [W EXCEPT ![<<n, c>>] = Append(@, m)]
<1>1. Values(L, I, O, A, R, B, W, S) /\ Parts(L, I, O, R, W, S)
  BY DEF Agreement
<1>2. Mail(L, I, n, c, m)
  BY DEF Mail, Refocus
<1>3. Adds(L, I, W, n, c, m, V)
  BY <1>2 DEF Adds, Follows
<1> HIDE DEF V
<1>4. Arrives(L, I, W, n, c, m, V)
  BY <1>3, Adding
<1>5. V \in Channels /\ Delivers(L, I, W, V)
  BY <1>4 DEF Arrives, Delivers
<1>6. \A g \in 1 .. I : \A p, q \in Nodes : Mailed(V[<<p, q>>], g) = Mailed(W[<<p, q>>], g)
  <2> SUFFICES ASSUME NEW g \in 1 .. I, NEW p \in Nodes, NEW q \in Nodes
               PROVE  Mailed(V[<<p, q>>], g) = Mailed(W[<<p, q>>], g)
    OBVIOUS
  <2>1. CASE <<p, q>> # <<n, c>>
    <3>1. V[<<p, q>>] = W[<<p, q>>]
      BY <1>4, <2>1 DEF Arrives
    <3> QED
      BY <3>1
  <2>2. CASE p = n /\ q = c
    <3>1. m.grant # g
      BY <1>1 DEF Values
    <3> QED
      BY <1>4, <2>2, <3>1 DEF Arrives
  <2> QED
    BY <2>1, <2>2
<1>7. Values(L, I, O, A, R, B, V, S)
  BY <1>1, <1>5 DEF Values
<1>8. Parts(L, I, O, R, V, S)
  BY <1>1, <1>5 DEF Parts, Delivers
<1>9. ASSUME NEW g \in 1 .. I PROVE At(L, A, R, B, V, S, g)
  <2>1. L[g].host \in Nodes /\ L[g].guest \in Nodes /\ At(L, A, R, B, W, S, g)
    BY <1>1 DEF Values, Deals, Agreement
  <2> QED
    BY <1>6, <2>1 DEF At
<1>10. Agreement(L, I, O, A, R, B, V, S)
  BY <1>7, <1>8, <1>9 DEF Agreement
<1> QED
  BY <1>10 DEF V

(* A word of the session of n, which has the Runtime q and then r.         *)
Word(q, r, m) ==
  /\ m \in Messages
  /\ r.grant = q.grant /\ r.tx = q.tx + 1 /\ r.rx = q.rx /\ r.revoked = q.revoked
  /\ m.grant = q.grant /\ m.req = q.req /\ m.seq = r.tx

(* A host's: a report tells how things are.                                *)
HostWord(q, r, b, m) ==
  /\ Word(q, r, m) /\ m.kind \in Downward \ {"Grant"}
  /\ q.state \in {"AwaitingReady", "Controlled"} /\ r.focus = q.focus
  /\ m.kind = "InputState" => m.body.epoch = b.epoch /\ m.body.focus = q.focus

LEMMA HostSays ==
  ASSUME NEW L, NEW I, NEW O, NEW A, NEW R, NEW B, NEW W, NEW S,
         Agreement(L, I, O, A, R, B, W, S),
         NEW n \in Nodes, NEW r \in Runtime, NEW m, Role(L, I, n, r, O[n]),
         HostWord(R[n], r, B[n], m)
  PROVE  Agreement(L, I, O, A, [R EXCEPT ![n] = r], B,
                   [W EXCEPT ![<<n, R[n].peer>>] = Append(@, m)], S)
<1> DEFINE q == R[n]
           g == q.grant
           c == q.peer
           V == [W EXCEPT ![<<n, c>>] = Append(@, m)]
<1>1. Values(L, I, O, A, R, B, W, S) /\ Parts(L, I, O, R, W, S) /\ HostWord(q, r, B[n], m)
  BY DEF Agreement
<1>2. q \in Runtime /\ Role(L, I, n, q, O[n])
  BY <1>1 DEF Values, Parts
<1> HIDE DEF q
<1>3. /\ g \in 1 .. I /\ c \in Nodes \ {n} /\ L[g].req = q.req
      /\ L[g].host = n /\ L[g].guest = c
  BY <1>1, <1>2 DEF HostWord, Role
<1>4. /\ m \in Messages /\ m.grant = g /\ m.req = q.req /\ m.seq = r.tx /\ m.kind # "Grant"
      /\ r.grant = g /\ r.tx = q.tx + 1 /\ r.rx = q.rx /\ r.focus = q.focus
      /\ r.revoked = q.revoked /\ m.kind \in Downward /\ m.kind # "Ready"
      /\ m.kind = "InputState" => m.body.epoch = B[n].epoch /\ m.body.focus = q.focus
  BY <1>1 DEF HostWord, Word, Downward
<1>5. /\ c \in Nodes /\ n # c /\ g \in Nat /\ g # 0
      /\ Session(g, L[g], q, R[c], B[n], Mailed(W[<<n, c>>], g), Mailed(W[<<c, n>>], g),
                 Unsent(S[c], g), A[n])
      /\ Sides(q, R[c], B[n], Mailed(W[<<n, c>>], g), Mailed(W[<<c, n>>], g), Unsent(S[c], g))
  BY <1>3, SessionFacts DEF q
<1> HIDE DEF g, c
<1>6. Adds(L, I, W, n, c, m, V)
  <2>1. Mail(L, I, n, c, m)
    <3>1. q.tx \in Nat /\ q.req <= I
      BY <1>2 DEF Runtime, Role
    <3>2. m.seq >= 1 /\ m.kind \notin Refocus
      BY <1>4, <3>1 DEF Downward, Refocus
    <3> QED
      BY <1>3, <1>4, <1>5, <3>1, <3>2 DEF Mail
  <2>2. ASSUME NEW x \in Range(W[<<n, c>>]), x.grant = g PROVE InOrder(x, m)
    <3>1. x \in Mailed(W[<<n, c>>], g)
      BY <2>2 DEF Mailed
    <3>2. q.tx \in Nat /\ x.seq \in Nat /\ (x.kind = "InputState" => x.body \in Reports)
      BY <1>2, <1>5, <3>1, SidesTypes DEF Runtime
    <3>3. x.kind # "Grant" => x.seq <= q.tx
      BY <1>4, <1>5, <3>1 DEF Session, Numbering, g
    <3>4. x.kind = "InputState" => x.body.epoch <= B[n].epoch
      BY <1>5, <3>1 DEF Session, Reporting, Known, g
    <3>5. m.kind \notin Refocus
      BY <1>4 DEF Downward, Refocus
    <3> QED
      BY <1>4, <3>2, <3>3, <3>4, <3>5 DEF InOrder
  <2>3. \A x \in Range(W[<<n, c>>]) : Follows(x, m)
    BY <1>4, <2>2 DEF Follows
  <2> QED
    BY <1>4, <2>1, <2>3 DEF Adds
<1> HIDE DEF V
<1>7. Arrives(L, I, W, n, c, m, V)
  BY <1>5, <1>6, Adding
<1>8. r.state # "Requesting"
  BY <1>2, <1>4, <1>5, Places DEF Role
<1>9. Proper(L, I, R, W, S, n, O[n], r, S[n], V)
  <2>1. Untouched(L, I, R, W, S, n, r, V, S[n])
    BY <1>4, <1>5, <1>7, <1>8, SpeakerElsewhere DEF Awaits
  <2>2. Delivers(L, I, W, V) /\ \A x \in Range(S[n]) : Post(L, I, n, x)
    BY <1>1, <1>7 DEF Arrives, Parts
  <2> QED
    BY <2>1, <2>2 DEF Proper
<1>10. Session(g, L[g], r, R[c], B[n], Mailed(V[<<n, c>>], g), Mailed(V[<<c, n>>], g),
               Unsent(S[c], g), A[n])
  <2>1. Mailed(V[<<n, c>>], g) = Mailed(W[<<n, c>>], g) \union {m} /\ V[<<c, n>>] = W[<<c, n>>]
    BY <1>4, <1>5, <1>7 DEF Arrives
  <2>2. q.grant = g
    BY DEF g
  <2>3. Session(g, L[g], r, R[c], B[n], Mailed(W[<<n, c>>], g) \union {m}, Mailed(W[<<c, n>>], g),
                Unsent(S[c], g), A[n])
    BY <1>4, <1>5, <2>2, HostSpeaks
  <2> QED
    BY <2>1, <2>3
<1>11. Own(L, A, [R EXCEPT ![n] = r], B, V, S, n, r)
  <2>1. [R EXCEPT ![n] = r][n] = r /\ [R EXCEPT ![n] = r][c] = R[c]
    BY <1>1, <1>5 DEF Values
  <2> QED
    BY <1>3, <1>4, <1>10, <2>1 DEF Own, At
<1>12. Agreement(L, I, O, A, [R EXCEPT ![n] = r], B, V, S)
  BY <1>9, <1>11, RuntimeKeeps
<1> QED
  BY <1>12 DEF V, c, q

(* A guest's: it begins with Ready or ends at once, it counts its changes  *)
(* of focus, and sends the inputs P that it has made.                      *)
GuestWord(q, r, P, m) ==
  /\ Word(q, r, m) /\ m.kind \in Upward
  /\ q.state \in {"AwaitingActivation", "Controlling"} /\ r.epoch = q.epoch
  /\ m.kind = "Ready" => q.tx = 0
  /\ q.tx = 0 => m.kind \in {"Ready", "End"}
  /\ IF m.kind \in Refocus
     THEN r.focus = q.focus + 1 /\ m.body = r.focus /\ r.paused
     ELSE r.focus = q.focus /\ r.paused = q.paused
  /\ m.kind = "Input" => m.body \in P

LEMMA GuestSays ==
  ASSUME NEW L, NEW I, NEW O, NEW A, NEW R, NEW B, NEW W, NEW S,
         Agreement(L, I, O, A, R, B, W, S),
         NEW n \in Nodes, NEW r \in Runtime, NEW m, Role(L, I, n, r, O[n]),
         GuestWord(R[n], r, Unsent(S[n], R[n].grant), m)
  PROVE  Agreement(L, I, O, A, [R EXCEPT ![n] = r], B,
                   [W EXCEPT ![<<n, R[n].peer>>] = Append(@, m)], S)
<1> DEFINE q == R[n]
           g == q.grant
           h == q.peer
           P == Unsent(S[n], g)
           V == [W EXCEPT ![<<n, h>>] = Append(@, m)]
<1>1. Values(L, I, O, A, R, B, W, S) /\ Parts(L, I, O, R, W, S) /\ GuestWord(q, r, P, m)
  BY DEF Agreement
<1>2. q \in Runtime /\ Role(L, I, n, q, O[n])
  BY <1>1 DEF Values, Parts
<1> HIDE DEF q
<1>3. /\ g \in 1 .. I /\ h \in Nodes \ {n} /\ L[g].req = q.req
      /\ L[g].host = h /\ L[g].guest = n
  BY <1>1, <1>2 DEF GuestWord, Role
<1>4. /\ m \in Messages /\ m.grant = g /\ m.req = q.req /\ m.seq = r.tx /\ m.kind # "Grant"
      /\ r.grant = g /\ r.tx = q.tx + 1 /\ r.rx = q.rx /\ r.epoch = q.epoch
      /\ r.revoked = q.revoked /\ m.kind \in Upward /\ m.kind # "InputState"
      /\ m.kind = "Ready" => q.tx = 0
      /\ q.tx = 0 => m.kind \in {"Ready", "End"}
      /\ IF m.kind \in Refocus
         THEN r.focus = q.focus + 1 /\ m.body = r.focus /\ r.paused
         ELSE r.focus = q.focus /\ r.paused = q.paused
      /\ m.kind = "Input" => m.body \in P
  BY <1>1 DEF GuestWord, Word, Upward
<1>5. /\ h \in Nodes /\ n # h /\ g \in Nat /\ g # 0
      /\ Session(g, L[g], R[h], q, B[h], Mailed(W[<<h, n>>], g), Mailed(W[<<n, h>>], g), P, A[h])
      /\ Sides(R[h], q, B[h], Mailed(W[<<h, n>>], g), Mailed(W[<<n, h>>], g), P)
  BY <1>3, SessionFacts DEF q
<1> HIDE DEF g, h, P
<1>6. Adds(L, I, W, n, h, m, V)
  <2>0. q.tx \in Nat /\ q.focus \in Nat /\ q.req <= I
    BY <1>2 DEF Runtime, Role
  <2>1. Mail(L, I, n, h, m)
    <3>1. m.seq >= 1 /\ (m.kind \in Refocus => m.body \in Nat)
      BY <1>4, <2>0
    <3>2. m.kind = "Ready" => m.seq = 1
      BY <1>4, <2>0
    <3>3. m.seq = 1 => m.kind \in {"Ready", "End"}
      BY <1>4, <2>0
    <3> QED
      BY <1>3, <1>4, <1>5, <2>0, <3>1, <3>2, <3>3 DEF Mail
  <2>2. ASSUME NEW x \in Range(W[<<n, h>>]), x.grant = g PROVE InOrder(x, m)
    <3>1. x \in Mailed(W[<<n, h>>], g)
      BY <2>2 DEF Mailed
    <3>2. x.seq \in Nat /\ (x.kind \in Refocus => x.body \in Nat)
      <4>1. x.seq \in Nat
        BY <1>5, <3>1, SidesTypes
      <4> QED
        BY <1>5, <3>1, <4>1 DEF Sides
    <3>3. x.seq <= q.tx /\ (x.kind \in Refocus => x.body <= q.focus)
      BY <1>4, <1>5, <3>1 DEF Session, Numbering, g
    <3>4. x.seq < m.seq /\ (x.kind \in Refocus /\ m.kind \in Refocus => x.body < m.body)
      BY <1>4, <2>0, <3>2, <3>3
    <3> QED
      BY <1>4, <3>4 DEF InOrder
  <2>3. \A x \in Range(W[<<n, h>>]) : Follows(x, m)
    BY <1>4, <2>2 DEF Follows
  <2> QED
    BY <1>4, <2>1, <2>3 DEF Adds
<1> HIDE DEF V
<1>7. Arrives(L, I, W, n, h, m, V)
  BY <1>5, <1>6, Adding
<1>8. r.state # "Requesting"
  BY <1>2, <1>4, <1>5, Places DEF Role
<1>9. Proper(L, I, R, W, S, n, O[n], r, S[n], V)
  <2>1. Untouched(L, I, R, W, S, n, r, V, S[n])
    BY <1>4, <1>5, <1>7, <1>8, SpeakerElsewhere DEF Awaits
  <2>2. Delivers(L, I, W, V) /\ \A x \in Range(S[n]) : Post(L, I, n, x)
    BY <1>1, <1>7 DEF Arrives, Parts
  <2> QED
    BY <2>1, <2>2 DEF Proper
<1>10. Session(g, L[g], R[h], r, B[h], Mailed(V[<<h, n>>], g), Mailed(V[<<n, h>>], g), P, A[h])
  <2>1. Mailed(V[<<n, h>>], g) = Mailed(W[<<n, h>>], g) \union {m} /\ V[<<h, n>>] = W[<<h, n>>]
    BY <1>4, <1>5, <1>7 DEF Arrives
  <2>2. q.grant = g
    BY DEF g
  <2>3. Session(g, L[g], R[h], r, B[h], Mailed(W[<<h, n>>], g), Mailed(W[<<n, h>>], g) \union {m},
                P, A[h])
    BY <1>4, <1>5, <2>2, GuestSpeaks
  <2> QED
    BY <2>1, <2>3
<1>11. Own(L, A, [R EXCEPT ![n] = r], B, V, S, n, r)
  <2>1. [R EXCEPT ![n] = r][n] = r /\ [R EXCEPT ![n] = r][h] = R[h]
    BY <1>1, <1>5 DEF Values
  <2> QED
    BY <1>3, <1>4, <1>10, <2>1 DEF Own, At, P
<1>12. Agreement(L, I, O, A, [R EXCEPT ![n] = r], B, V, S)
  BY <1>9, <1>11, RuntimeKeeps
<1> QED
  BY <1>12 DEF V, h, q

-----------------------------------------------------------------------------
(* What participants do with the messages of their session.                *)

(* A message of the session that its host listens to is the next one.      *)
HostNews(q, m, b) ==
  /\ m.seq = q.rx + 1 /\ m.kind \in Upward
  /\ m.kind \in Refocus => m.body = q.focus + 1
  /\ m.kind = "Ready" => q.rx = 0
  /\ q.rx = 0 => m.kind \in {"Ready", "End"}

LEMMA HostHears ==
  ASSUME NEW L, NEW I, NEW O, NEW A, NEW R, NEW B, NEW W, NEW S,
         Agreement(L, I, O, A, R, B, W, S),
         NEW n \in Nodes, NEW p \in Nodes, NEW m, NEW V, Pops(W, p, n, m, V),
         R[n].state \in {"AwaitingReady", "Controlled"}, ~R[n].revoked, m.grant = R[n].grant
  PROVE  /\ HostNews(R[n], m, B[n])
         /\ \A r \in Runtime, b \in Backend :
              /\ Role(L, I, n, r, O[n])
              /\ HostTurn(R[n].grant, R[n], r, B[n], b, m)
              => Agreement(L, I, O, A, [R EXCEPT ![n] = r], [B EXCEPT ![n] = b], V, S)
<1> DEFINE q == R[n]
           g == q.grant
<1>1. Values(L, I, O, A, R, B, W, S) /\ Parts(L, I, O, R, W, S)
  BY DEF Agreement
<1>2. q \in Runtime /\ Role(L, I, n, q, O[n])
  BY <1>1 DEF Values, Parts
<1>3. Leaves(L, I, W, p, n, m, V)
  BY Popping
<1>4. m.grant = g /\ ~q.revoked /\ q.state \in {"AwaitingReady", "Controlled"}
  OBVIOUS
<1> HIDE DEF q
<1>5. /\ g \in 1 .. I /\ q.peer \in Nodes \ {n} /\ L[g].req = q.req
      /\ L[g].host = n /\ L[g].guest = q.peer
  BY <1>2, <1>4 DEF Role
<1>6. g # 0 /\ m.kind \in MessageKinds /\ m.seq \in Nat
  BY <1>1, <1>3, <1>5 DEF Values, Leaves, Messages
<1>7. /\ p = L[g].guest /\ m.kind \in Upward
      /\ m.kind = "Ready" => m.seq = 1
      /\ m.seq = 1 => m.kind \in {"Ready", "End"}
      /\ n # p
  BY <1>3, <1>4, <1>5, <1>6 DEF Leaves, Mail
<1>8. /\ Session(g, L[g], q, R[p], B[n], Mailed(W[<<n, p>>], g), Mailed(W[<<p, n>>], g),
                 Unsent(S[p], g), A[n])
      /\ Sides(q, R[p], B[n], Mailed(W[<<n, p>>], g), Mailed(W[<<p, n>>], g), Unsent(S[p], g))
  BY <1>5, <1>7, SessionFacts DEF q
<1> HIDE DEF g
<1>9. /\ Mailed(W[<<p, n>>], g) = {m} \union Mailed(V[<<p, n>>], g)
      /\ \A x \in Mailed(V[<<p, n>>], g) : InOrder(m, x)
      /\ V[<<n, p>>] = W[<<n, p>>]
  <2>1. \A x \in Mailed(V[<<p, n>>], g) : Follows(m, x) /\ x.grant = g
    BY <1>3 DEF Leaves, Mailed
  <2>2. Mailed(W[<<p, n>>], g) = {m} \union Mailed(V[<<p, n>>], g)
    BY <1>3, <1>4 DEF Leaves
  <2>3. V[<<n, p>>] = W[<<n, p>>]
    BY <1>3, <1>7 DEF Leaves
  <2> QED
    BY <1>4, <1>6, <2>1, <2>2, <2>3 DEF Follows
<1>10. Listening(q, g)
  BY <1>4 DEF Listening, g
<1>11. HostNews(q, m, B[n])
  <2>1. /\ m.seq = q.rx + 1
        /\ m.kind \in Refocus => m.body = q.focus + 1
    <3> DEFINE U == Mailed(W[<<p, n>>], g)
               U2 == Mailed(V[<<p, n>>], g)
               D == Mailed(W[<<n, p>>], g)
    <3>1. /\ Session(g, L[g], q, R[p], B[n], D, U, Unsent(S[p], g), A[n])
          /\ Sides(q, R[p], B[n], D, U, Unsent(S[p], g))
          /\ U = {m} \union U2 /\ \A x \in U2 : InOrder(m, x)
      BY <1>8, <1>9
    <3> HIDE DEF U, U2, D
    <3>2. /\ m.seq = q.rx + 1 /\ Flow(Seqs(U2), m.seq, g, R[p], R[p].tx)
          /\ m.kind \in Refocus =>
               m.body = q.focus + 1 /\ Flow(Foci(U2), m.body, g, R[p], R[p].focus)
          /\ m.kind \notin Refocus => Foci(U2) = Foci(U)
          /\ \A x \in D : x.kind # "Grant"
      BY <1>10, <3>1, HostNext
    <3> QED
      BY <3>2
  <2>2. q.rx \in Nat
    BY <1>2 DEF Runtime
  <2> QED
    BY <1>7, <2>1, <2>2 DEF HostNews
<1>12. ASSUME NEW r \in Runtime, NEW b \in Backend, Role(L, I, n, r, O[n]), HostTurn(g, q, r, B[n], b, m)
       PROVE  Agreement(L, I, O, A, [R EXCEPT ![n] = r], [B EXCEPT ![n] = b], V, S)
  <2>1. Session(g, L[g], r, R[p], b, Mailed(V[<<n, p>>], g), Mailed(V[<<p, n>>], g),
                Unsent(S[p], g), A[n])
    <3>1. Session(g, L[g], r, R[p], b, Mailed(W[<<n, p>>], g), Mailed(V[<<p, n>>], g),
                  Unsent(S[p], g), A[n])
      BY <1>8, <1>9, <1>10, <1>12, HostReads
    <3> QED
      BY <1>9, <3>1
  <2>2. r.grant = g
    BY <1>12 DEF HostTurn
  <2>3. /\ O = [O EXCEPT ![n] = O[n]] /\ A = [A EXCEPT ![n] = A[n]] /\ S = [S EXCEPT ![n] = S[n]]
        /\ O[n] \in BOOLEAN /\ A[n] \in Nat /\ S[n] \in Seq(Posts)
    BY <1>1 DEF Values
  <2>4. Own(L, [A EXCEPT ![n] = A[n]], [R EXCEPT ![n] = r], [B EXCEPT ![n] = b], V,
            [S EXCEPT ![n] = S[n]], n, r)
    BY <1>1, <1>5, <1>7, <2>1, <2>2, OwnHost
  <2>5. Proper(L, I, R, W, S, n, O[n], r, S[n], V)
    <3>1. Delivers(L, I, W, V)
      BY <1>1, <1>3, ShortenedDelivers DEF Leaves
    <3>2. \A x \in Range(S[n]) : Post(L, I, n, x)
      BY <1>1 DEF Parts
    <3>3. r.state # "Requesting"
      BY <1>6, <1>12, <2>2, Places
    <3>4. Untouched(L, I, R, W, S, n, r, V, S[n])
      <4> SUFFICES ASSUME NEW x \in 1 .. I, x # g
                   PROVE  \A a, d \in Nodes : Mailed(V[<<a, d>>], x) = Mailed(W[<<a, d>>], x)
        BY <2>2, <3>3 DEF Untouched, StillAwaits, Awaits
      <4> SUFFICES ASSUME NEW a \in Nodes, NEW d \in Nodes
                   PROVE  Mailed(V[<<a, d>>], x) = Mailed(W[<<a, d>>], x)
        OBVIOUS
      <4>1. CASE <<a, d>> # <<p, n>>
        <5>1. V[<<a, d>>] = W[<<a, d>>]
          BY <1>3, <4>1 DEF Leaves
        <5> QED
          BY <5>1
      <4>2. CASE a = p /\ d = n
        BY <1>3, <1>4, <4>2 DEF Leaves
      <4> QED
        BY <4>1, <4>2
    <3> QED
      BY <1>12, <3>1, <3>2, <3>4 DEF Proper
  <2>6. Agreement(L, I, [O EXCEPT ![n] = O[n]], [A EXCEPT ![n] = A[n]], [R EXCEPT ![n] = r],
                  [B EXCEPT ![n] = b], V, [S EXCEPT ![n] = S[n]])
    BY <1>12, <2>3, <2>4, <2>5, ParticipantKeeps
  <2> QED
    BY <2>3, <2>6
<1> QED
  BY <1>11, <1>12 DEF g, q

(* So is one that its guest listens to.                                    *)
GuestNews(q, m) ==
  /\ m.seq = q.rx + 1 /\ m.kind \in Downward \ {"Grant"}
  /\ m.kind = "InputState" => q.epoch <= m.body.epoch

(* A message popped from one channel: no other session has lost anything.  *)
LEMMA PoppedElsewhere ==
  ASSUME NEW L, NEW I, NEW R, NEW W, NEW S, NEW n \in Nodes, NEW p \in Nodes, NEW m, NEW V,
         Leaves(L, I, W, p, n, m, V), NEW r, r.grant = m.grant, r.state # "Requesting"
  PROVE  Untouched(L, I, R, W, S, n, r, V, S[n])
<1> SUFFICES ASSUME NEW x \in 1 .. I, x # m.grant
             PROVE  \A a, d \in Nodes : Mailed(V[<<a, d>>], x) = Mailed(W[<<a, d>>], x)
  BY DEF Untouched, StillAwaits, Awaits
<1> SUFFICES ASSUME NEW a \in Nodes, NEW d \in Nodes
             PROVE  Mailed(V[<<a, d>>], x) = Mailed(W[<<a, d>>], x)
  OBVIOUS
<1>1. CASE <<a, d>> # <<p, n>>
  <2>1. V[<<a, d>>] = W[<<a, d>>]
    BY <1>1 DEF Leaves
  <2> QED
    BY <2>1
<1>2. CASE a = p /\ d = n
  BY <1>2 DEF Leaves
<1> QED
  BY <1>1, <1>2

LEMMA GuestHears ==
  ASSUME NEW L, NEW I, NEW O, NEW A, NEW R, NEW B, NEW W, NEW S,
         Agreement(L, I, O, A, R, B, W, S),
         NEW n \in Nodes, NEW p \in Nodes, NEW m, NEW V, Pops(W, p, n, m, V),
         R[n].state \in {"AwaitingActivation", "Controlling"}, ~R[n].revoked, m.grant = R[n].grant
  PROVE  /\ GuestNews(R[n], m)
         /\ \A r \in Runtime :
              Role(L, I, n, r, O[n]) /\ GuestTurn(R[n].grant, R[n], r, m)
              => Agreement(L, I, O, A, [R EXCEPT ![n] = r], B, V, S)
<1> DEFINE q == R[n]
           g == q.grant
<1>1. Values(L, I, O, A, R, B, W, S) /\ Parts(L, I, O, R, W, S)
  BY DEF Agreement
<1>2. q \in Runtime /\ Role(L, I, n, q, O[n])
  BY <1>1 DEF Values, Parts
<1>3. Leaves(L, I, W, p, n, m, V)
  BY Popping
<1>4. m.grant = g /\ ~q.revoked /\ q.state \in {"AwaitingActivation", "Controlling"}
  OBVIOUS
<1> HIDE DEF q
<1>5. /\ g \in 1 .. I /\ q.peer \in Nodes \ {n} /\ L[g].req = q.req
      /\ L[g].host = q.peer /\ L[g].guest = n
  BY <1>2, <1>4 DEF Role
<1>6. g # 0 /\ m.kind \in MessageKinds /\ m.seq \in Nat
  BY <1>1, <1>3, <1>5 DEF Values, Leaves, Messages
<1>7. p = L[g].host /\ m.kind \in Downward /\ n # p
  BY <1>3, <1>4, <1>5, <1>6 DEF Leaves, Mail
<1>8. /\ Session(g, L[g], R[p], q, B[p], Mailed(W[<<p, n>>], g), Mailed(W[<<n, p>>], g),
                 Unsent(S[n], g), A[p])
      /\ Sides(R[p], q, B[p], Mailed(W[<<p, n>>], g), Mailed(W[<<n, p>>], g), Unsent(S[n], g))
  BY <1>5, <1>7, SessionFacts DEF q
<1> HIDE DEF g
<1>9. Listening(q, g)
  BY <1>4 DEF Listening, g
<1> DEFINE D == Mailed(W[<<p, n>>], g)
           D2 == Mailed(V[<<p, n>>], g)
<1>a. D = {m} \union D2
  BY <1>3, <1>4 DEF Leaves
<1>b. m.kind # "Grant"
  BY <1>8, <1>9, <1>a DEF Session, Granting, Listening
<1>c. \A x \in D2 : InOrder(m, x)
  <2>1. \A x \in D2 : Follows(m, x) /\ x.grant = g
    BY <1>3 DEF Leaves, Mailed
  <2> QED
    BY <1>4, <1>6, <2>1 DEF Follows
<1>d. V[<<n, p>>] = W[<<n, p>>]
  BY <1>3, <1>7 DEF Leaves
<1> DEFINE U == Mailed(W[<<n, p>>], g)
           P == Unsent(S[n], g)
<1>10. /\ Session(g, L[g], R[p], q, B[p], D, U, P, A[p])
       /\ Sides(R[p], q, B[p], D, U, P)
  BY <1>8
<1> HIDE DEF D, D2, U, P
<1>11. GuestNews(q, m)
  <2>1. /\ \A x \in D : x.kind # "Grant"
        /\ m.seq = q.rx + 1 /\ Flow(Seqs(D2), m.seq, g, R[p], R[p].tx)
        /\ m.kind = "InputState" => q.epoch <= m.body.epoch
    BY <1>9, <1>10, <1>a, <1>c, GuestNext
  <2> QED
    BY <1>7, <1>b, <2>1 DEF GuestNews
<1>12. ASSUME NEW r \in Runtime, Role(L, I, n, r, O[n]), GuestTurn(g, q, r, m)
       PROVE  Agreement(L, I, O, A, [R EXCEPT ![n] = r], B, V, S)
  <2>1. Session(g, L[g], R[p], r, B[p], D2, U, P, A[p])
    BY <1>9, <1>10, <1>12, <1>a, <1>c, GuestReads
  <2>2. r.grant = g
    BY <1>12 DEF GuestTurn
  <2>3. Own(L, A, [R EXCEPT ![n] = r], B, V, S, n, r)
    <3>1. [R EXCEPT ![n] = r][n] = r /\ [R EXCEPT ![n] = r][p] = R[p]
      BY <1>1, <1>7 DEF Values
    <3> QED
      BY <1>5, <1>7, <1>d, <2>1, <2>2, <3>1 DEF Own, At, D2, U, P
  <2>4. Proper(L, I, R, W, S, n, O[n], r, S[n], V)
    <3>1. Delivers(L, I, W, V)
      BY <1>1, <1>3, ShortenedDelivers DEF Leaves
    <3>2. \A x \in Range(S[n]) : Post(L, I, n, x)
      BY <1>1 DEF Parts
    <3>3. r.state # "Requesting"
      BY <1>6, <1>12, <2>2, Places
    <3>4. Untouched(L, I, R, W, S, n, r, V, S[n])
      BY <1>3, <1>4, <2>2, <3>3, PoppedElsewhere
    <3> QED
      BY <1>12, <3>1, <3>2, <3>4 DEF Proper
  <2> QED
    BY <1>12, <2>3, <2>4, RuntimeKeeps
<1> QED
  BY <1>11, <1>12 DEF g, q

(* The guest takes the Grant that it awaits.                               *)
LEMMA TakeKeeps ==
  ASSUME NEW L, NEW I, NEW O, NEW A, NEW R, NEW B, NEW W, NEW S,
         Agreement(L, I, O, A, R, B, W, S),
         NEW n \in Nodes, NEW p \in Nodes, NEW m, NEW V, Pops(W, p, n, m, V), m.kind = "Grant",
         NEW q, q = R[n], q.state = "Requesting", ~q.revoked, p = q.peer, m.req = q.req,
         ~q.starting, NEW r,
         r = [q EXCEPT !.state = "AwaitingActivation", !.grant = m.grant, !.ping = FALSE,
                       !.tx = 0, !.rx = 0]
  PROVE  Agreement(L, I, O, A, [R EXCEPT ![n] = r], B, V, S)
<1> DEFINE g == m.grant
<1>1. Values(L, I, O, A, R, B, W, S) /\ Parts(L, I, O, R, W, S)
  BY DEF Agreement
<1>2. q \in Runtime /\ Role(L, I, n, q, O[n])
  BY <1>1 DEF Values, Parts
<1>3. Leaves(L, I, W, p, n, m, V)
  BY Popping
<1>4. /\ g \in 1 .. I /\ g # 0 /\ L[g].req = q.req /\ n # p
      /\ L[g].host = p /\ L[g].guest = n
  <2>1. Mail(L, I, p, n, m)
    BY <1>3 DEF Leaves
  <2>2. g # 0
    BY <2>1 DEF Mail
  <2> QED
    BY <2>1, <2>2 DEF Mail, Upward
<1>5. /\ r \in Runtime /\ r.grant = g /\ r.tx = 0 /\ r.rx = 0 /\ r.focus = 0
      /\ r.epoch = 0 /\ r.paused /\ r.state = "AwaitingActivation" /\ ~r.starting
      /\ r.peer = p /\ r.req = q.req /\ r.revoked = q.revoked
  <2>1. m.grant \in Nat
    BY <1>3 DEF Leaves, Messages
  <2>2. q.focus = 0 /\ q.epoch = 0 /\ q.paused
    BY <1>2 DEF Role
  <2> QED
    BY <1>2, <2>1, <2>2 DEF Runtime, States
<1>6. Role(L, I, n, r, O[n])
  <2>1. q.req <= I /\ (O[n] => q.revoked) /\ q.peer \in Nodes \ {n}
    BY <1>2 DEF Role
  <2> QED
    BY <1>4, <1>5, <2>1 DEF Role
<1>7. /\ Session(g, L[g], R[p], q, B[p], Mailed(W[<<p, n>>], g), Mailed(W[<<n, p>>], g),
                 Unsent(S[n], g), A[p])
      /\ Sides(R[p], q, B[p], Mailed(W[<<p, n>>], g), Mailed(W[<<n, p>>], g), Unsent(S[n], g))
  BY <1>4, SessionFacts
<1>8. Awaits(q, L[g])
  BY <1>4 DEF Awaits
<1>9. /\ Mailed(W[<<p, n>>], g) = {m} \union Mailed(V[<<p, n>>], g)
      /\ \A x \in Mailed(V[<<p, n>>], g) : InOrder(m, x)
      /\ V[<<n, p>>] = W[<<n, p>>]
  <2>1. \A x \in Mailed(V[<<p, n>>], g) : Follows(m, x) /\ x.grant = g
    BY <1>3 DEF Leaves, Mailed
  <2>2. Mailed(W[<<p, n>>], g) = {m} \union Mailed(V[<<p, n>>], g)
    BY <1>3 DEF Leaves
  <2>3. V[<<n, p>>] = W[<<n, p>>]
    BY <1>3, <1>4 DEF Leaves
  <2> QED
    BY <1>4, <2>1, <2>2, <2>3 DEF Follows
<1> HIDE DEF g
<1>10. Session(g, L[g], R[p], r, B[p], Mailed(V[<<p, n>>], g), Mailed(W[<<n, p>>], g),
               Unsent(S[n], g), A[p])
  <2> DEFINE D == Mailed(W[<<p, n>>], g)
             D2 == Mailed(V[<<p, n>>], g)
             U == Mailed(W[<<n, p>>], g)
             P == Unsent(S[n], g)
  <2>1. /\ Session(g, L[g], R[p], q, B[p], D, U, P, A[p]) /\ Sides(R[p], q, B[p], D, U, P)
        /\ D = {m} \union D2 /\ \A x \in D2 : InOrder(m, x)
    BY <1>7, <1>9
  <2>2. Newcomer(g, r)
    BY <1>5 DEF Newcomer
  <2> HIDE DEF D, D2, U, P
  <2>3. Session(g, L[g], R[p], r, B[p], D2, U, P, A[p])
    BY <1>8, <2>1, <2>2, GuestTakes
  <2> QED
    BY <2>3 DEF D2, U, P
<1>11. Own(L, A, [R EXCEPT ![n] = r], B, V, S, n, r)
  <2>1. [R EXCEPT ![n] = r][n] = r /\ [R EXCEPT ![n] = r][p] = R[p]
    BY <1>1, <1>4 DEF Values
  <2> QED
    BY <1>4, <1>5, <1>9, <1>10, <2>1 DEF Own, At
<1>12. Proper(L, I, R, W, S, n, O[n], r, S[n], V)
  <2>1. Delivers(L, I, W, V)
    BY <1>1, <1>3, ShortenedDelivers DEF Leaves
  <2>2. \A x \in Range(S[n]) : Post(L, I, n, x)
    BY <1>1 DEF Parts
  <2>3. r.grant = m.grant /\ r.state # "Requesting"
    BY <1>5 DEF g
  <2>4. Untouched(L, I, R, W, S, n, r, V, S[n])
    BY <1>3, <2>3, PoppedElsewhere
  <2> QED
    BY <1>6, <2>1, <2>2, <2>4 DEF Proper
<1> QED
  BY <1>5, <1>11, <1>12, RuntimeKeeps

(* A new id belongs to nobody yet.                                         *)
Unused(R, W, S, g) ==
  \A p, q \in Nodes :
    Mailed(W[<<p, q>>], g) = {} /\ Unsent(S[p], g) = {} /\ R[p].grant # g

LEMMA NewDeal ==
  ASSUME NEW L, NEW I, NEW O, NEW A, NEW R, NEW B, NEW W, NEW S,
         Agreement(L, I, O, A, R, B, W, S),
         NEW d \in Deals, d.host # d.guest, d.req <= I,
         NEW K, K = [i \in 1 .. I + 1 |-> IF i = I + 1 THEN d ELSE L[i]]
  PROVE  /\ K \in [1 .. I + 1 -> Deals] /\ K[I + 1] = d
         /\ Agreement(K, I + 1, O, A, R, B, W, S) /\ Unused(R, W, S, I + 1)
         /\ \A i \in 1 .. I : K[i] = L[i]
<1>1. Values(L, I, O, A, R, B, W, S) /\ Parts(L, I, O, R, W, S) /\ I \in Nat
  BY DEF Agreement, Values
<1>2. /\ K \in [1 .. I + 1 -> Deals] /\ K[I + 1] = d
      /\ \A i \in 1 .. I : i \in 1 .. I + 1 /\ K[i] = L[i]
  BY <1>1 DEF Values
<1>3. Values(K, I + 1, O, A, R, B, W, S)
  <2>1. ASSUME NEW g \in 1 .. I + 1 PROVE K[g].host # K[g].guest /\ K[g].req <= I + 1
    <3>1. CASE g = I + 1
      <4>1. d.req \in Nat
        BY DEF Deals
      <4> QED
        BY <1>1, <1>2, <3>1, <4>1
    <3>2. CASE g \in 1 .. I
      <4>1. L[g].host # L[g].guest /\ L[g].req <= I /\ L[g].req \in Nat
        BY <1>1, <3>2 DEF Values, Deals
      <4> QED
        BY <1>1, <1>2, <3>2, <4>1
    <3> QED
      BY <1>1, <3>1, <3>2
  <2> QED
    BY <1>1, <1>2, <2>1 DEF Values
<1>4. Parts(K, I + 1, O, R, W, S)
  <2>1. ASSUME NEW n \in Nodes PROVE Role(K, I + 1, n, R[n], O[n])
    <3>1. Role(L, I, n, R[n], O[n]) /\ R[n] \in Runtime
      BY <1>1, <2>1 DEF Parts, Values
    <3>2. R[n].req \in Nat /\ R[n].req <= I + 1
      BY <1>1, <3>1 DEF Runtime, Role
    <3> QED
      BY <1>1, <1>2, <3>1, <3>2 DEF Role
  <2>2. ASSUME NEW p \in Nodes, NEW n \in Nodes, NEW m \in Range(W[<<p, n>>])
        PROVE  Mail(K, I + 1, p, n, m)
    <3>1. Mail(L, I, p, n, m)
      BY <1>1, <2>2 DEF Parts
    <3>2. m \in Messages
      <4>1. W[<<p, n>>] \in Seq(Messages)
        BY <1>1 DEF Values, Channels
      <4> QED
        BY <4>1, MailedType
    <3>3. m.req \in Nat /\ m.req <= I + 1
      BY <1>1, <3>1, <3>2 DEF Messages, Mail
    <3> QED
      BY <1>1, <1>2, <3>1, <3>3 DEF Mail
  <2>3. ASSUME NEW n \in Nodes, NEW x \in Range(S[n]) PROVE Post(K, I + 1, n, x)
    BY <1>1, <1>2, <2>3 DEF Parts, Post
  <2>4. \A p, n \in Nodes : Ordered(W[<<p, n>>])
    BY <1>1 DEF Parts
  <2> QED
    BY <2>1, <2>2, <2>3, <2>4 DEF Parts
<1>5. Unused(R, W, S, I + 1)
  <2>1. ASSUME NEW p \in Nodes, NEW q \in Nodes PROVE Mailed(W[<<p, q>>], I + 1) = {}
    <3> SUFFICES ASSUME NEW m \in Mailed(W[<<p, q>>], I + 1) PROVE FALSE
      OBVIOUS
    <3>1. Mail(L, I, p, q, m) /\ m.grant = I + 1
      BY <1>1 DEF Parts, Mailed
    <3> QED
      BY <1>1, <3>1 DEF Mail
  <2>2. ASSUME NEW p \in Nodes PROVE Unsent(S[p], I + 1) = {}
    BY <1>1 DEF Parts, Post, Unsent
  <2>3. ASSUME NEW p \in Nodes PROVE R[p].grant # I + 1
    <3>1. Role(L, I, p, R[p], O[p]) /\ R[p] \in Runtime
      BY <1>1 DEF Parts, Values
    <3>2. R[p].grant = 0 \/ R[p].grant \in 1 .. I
      BY <3>1 DEF Role, Runtime, States
    <3> QED
      BY <1>1, <3>2
  <2> QED
    BY <2>1, <2>2, <2>3 DEF Unused
<1>6. ASSUME NEW g \in 1 .. I + 1 PROVE At(K, A, R, B, W, S, g)
  <2>1. CASE g \in 1 .. I
    BY <1>2, <2>1 DEF Agreement, At
  <2>2. CASE g = I + 1
    <3> DEFINE h == d.host
               c == d.guest
    <3>1. h \in Nodes /\ c \in Nodes
      BY DEF Deals
    <3> HIDE DEF h, c
    <3>2. /\ Mailed(W[<<h, c>>], g) = {} /\ Mailed(W[<<c, h>>], g) = {} /\ Unsent(S[c], g) = {}
          /\ R[h].grant # g /\ R[c].grant # g
      BY <1>5, <2>2, <3>1 DEF Unused
    <3>3. Session(g, K[g], R[h], R[c], B[h], {}, {}, {}, A[h])
      BY <3>2, SessionEmpty
    <3>4. h = K[g].host /\ c = K[g].guest
      BY <1>2, <2>2 DEF h, c
    <3> QED
      BY <3>2, <3>3, <3>4 DEF At
  <2> QED
    BY <1>1, <2>1, <2>2
<1> QED
  BY <1>2, <1>3, <1>4, <1>5, <1>6 DEF Agreement

(* The host n grants its session.                                          *)
LEMMA GrantKeeps ==
  ASSUME NEW L, NEW I, NEW O, NEW A, NEW R, NEW B, NEW W, NEW S,
         Agreement(L, I, O, A, R, B, W, S), NEW g \in 1 .. I, Unused(R, W, S, g),
         NEW n \in Nodes, R[n].state = "AwaitingConsent", ~R[n].starting,
         NEW c, c = R[n].peer, L[g] = [host |-> n, guest |-> c, req |-> R[n].req],
         Queued(B[n], g) = {},
         NEW r, r = [R[n] EXCEPT !.state = "AwaitingReady", !.grant = g],
         NEW m \in Messages, m.kind = "Grant", m.grant = g, m.req = R[n].req
  PROVE  Agreement(L, I, O, A, [R EXCEPT ![n] = r], B, [W EXCEPT ![<<n, c>>] = Append(@, m)], S)
<1> DEFINE V == [W EXCEPT ![<<n, c>>] = Append(@, m)]
           q == R[n]
<1>1. Values(L, I, O, A, R, B, W, S) /\ Parts(L, I, O, R, W, S) /\ g # 0
  BY DEF Agreement, Values
<1>2. /\ q \in Runtime /\ Role(L, I, n, q, O[n]) /\ q.state = "AwaitingConsent" /\ ~q.starting
      /\ r = [q EXCEPT !.state = "AwaitingReady", !.grant = g]
      /\ c = q.peer /\ m.req = q.req
  BY <1>1 DEF Values, Parts
<1>3. L[g].host = n /\ L[g].guest = c /\ L[g].req = q.req
  OBVIOUS
<1> HIDE DEF q
<1>4. /\ r \in Runtime /\ r.grant = g /\ r.tx = 0 /\ r.rx = 0 /\ r.focus = 0
      /\ r.state = "AwaitingReady" /\ ~r.starting
      /\ r.peer = c /\ r.req = q.req /\ r.revoked = q.revoked
  <2>1. q.focus = 0 /\ q.tx = 0 /\ q.rx = 0
    BY <1>2 DEF Role
  <2>2. g \in Nat
    BY <1>1 DEF Values
  <2> QED
    BY <1>2, <2>1, <2>2 DEF Runtime, States
<1>5. q.req <= I /\ (O[n] => q.revoked) /\ c \in Nodes \ {n}
  BY <1>2 DEF Role
<1>6. Role(L, I, n, r, O[n])
  BY <1>3, <1>4, <1>5 DEF Role
<1>7. Mailed(W[<<n, c>>], g) = {} /\ Mailed(W[<<c, n>>], g) = {} /\ Unsent(S[c], g) = {} /\ R[c].grant # g
  BY <1>5 DEF Unused
<1>8. Adds(L, I, W, n, c, m, V)
  <2>1. Mail(L, I, n, c, m)
    BY <1>1, <1>2, <1>3, <1>5 DEF Mail, Downward, Refocus
  <2>2. \A x \in Range(W[<<n, c>>]) : x.grant # g
    BY <1>7 DEF Mailed
  <2> QED
    BY <2>1, <2>2 DEF Adds, Follows
<1> HIDE DEF V
<1>9. Arrives(L, I, W, n, c, m, V)
  BY <1>5, <1>8, Adding
<1>10. Proper(L, I, R, W, S, n, O[n], r, S[n], V)
  <2>1. Untouched(L, I, R, W, S, n, r, V, S[n])
    BY <1>4, <1>5, <1>9, SpeakerElsewhere DEF Awaits
  <2>2. Delivers(L, I, W, V) /\ \A x \in Range(S[n]) : Post(L, I, n, x)
    BY <1>1, <1>9 DEF Arrives, Parts
  <2> QED
    BY <1>6, <2>1, <2>2 DEF Proper
<1>11. Own(L, A, [R EXCEPT ![n] = r], B, V, S, n, r)
  <2>1. [R EXCEPT ![n] = r][n] = r /\ [R EXCEPT ![n] = r][c] = R[c]
    BY <1>1, <1>5 DEF Values
  <2>2. Mailed(V[<<n, c>>], g) = {m} /\ Mailed(V[<<c, n>>], g) = {}
    <3>1. Mailed(V[<<n, c>>], g) = Mailed(W[<<n, c>>], g) \union {m}
      BY <1>5, <1>9 DEF Arrives
    <3>2. V[<<c, n>>] = W[<<c, n>>]
      BY <1>5, <1>9 DEF Arrives
    <3> QED
      BY <1>7, <3>1, <3>2
  <2>3. Session(g, L[g], r, R[c], B[n], {m}, {}, {}, A[n])
    BY <1>4, <1>7, HostGrants
  <2> DEFINE RR == [R EXCEPT ![n] = r]
  <2>4. Session(g, L[g], RR[n], RR[c], B[n], Mailed(V[<<n, c>>], g), Mailed(V[<<c, n>>], g),
                Unsent(S[c], g), A[n])
    BY <1>7, <2>1, <2>2, <2>3
  <2> HIDE DEF RR
  <2>5. At(L, A, RR, B, V, S, g)
    BY <1>3, <2>4 DEF At
  <2> QED
    BY <1>4, <2>5 DEF Own, RR
<1>12. Agreement(L, I, O, A, [R EXCEPT ![n] = r], B, V, S)
  BY <1>4, <1>10, <1>11, RuntimeKeeps
<1> QED
  BY <1>12 DEF V

(* The guest makes an input of the token and under the focus it knows.     *)
LEMMA GuestMakes ==
  ASSUME NEW g, NEW l, NEW hr, NEW gr, NEW b, NEW D, NEW U, NEW P, NEW local,
         Session(g, l, hr, gr, b, D, U, P, local), gr.grant = g, ~gr.paused,
         NEW i, i.epoch = gr.epoch, i.focus = gr.focus, i.local = local
  PROVE  Session(g, l, hr, gr, b, D, U, P \union {i}, local)
<1>1. hr.grant = g => Valid(i, hr.focus, b, local)
  BY DEF Session, Reporting, Valid, Known
<1> QED
  BY <1>1 DEF Session, Fresh

LEMMA MakeKeeps ==
  ASSUME NEW L, NEW I, NEW O, NEW A, NEW R, NEW B, NEW W, NEW S,
         Agreement(L, I, O, A, R, B, W, S),
         NEW n \in Nodes, NEW q, q = R[n], q.state = "Controlling", ~q.paused,
         NEW i \in InputRecords, i.grant = q.grant, i.epoch = q.epoch, i.focus = q.focus,
         i.local = A[q.peer]
  PROVE  Agreement(L, I, O, A, R, B, W,
                   [S EXCEPT ![n] = Append(@, [kind |-> "input", in |-> i])])
<1> DEFINE x == [kind |-> "input", in |-> i]
           s == Append(S[n], x)
           g == q.grant
           h == q.peer
<1>1. Values(L, I, O, A, R, B, W, S) /\ Parts(L, I, O, R, W, S)
  BY DEF Agreement
<1>2. q \in Runtime /\ Role(L, I, n, q, O[n])
  BY <1>1 DEF Values, Parts
<1>3. /\ g \in 1 .. I /\ g # 0 /\ h \in Nodes \ {n} /\ L[g].host = h /\ L[g].guest = n
  BY <1>1, <1>2 DEF Role, Values
<1>4. x \in Posts /\ S[n] \in Seq(Posts) /\ x.kind = "input" /\ x.in = i
  BY <1>1 DEF Posts, Values
<1> HIDE DEF x
<1>5. s \in Seq(Posts) /\ Range(s) = Range(S[n]) \union {x}
  BY <1>4, AppendProperties, AppendFacts
<1>6. Unsent(s, g) = Unsent(S[n], g) \union {i}
  <2>1. \A y \in Range(s) : y \in Range(S[n]) \/ y = x
    BY <1>5
  <2>2. x \in Range(s) /\ Range(S[n]) \subseteq Range(s)
    BY <1>5
  <2> HIDE DEF s
  <2> QED
    BY <1>4, <2>1, <2>2 DEF Unsent
<1>7. \A f \in 1 .. I : f # g => Unsent(s, f) \subseteq Unsent(S[n], f)
  <2>1. \A y \in Range(s) : y \in Range(S[n]) \/ y = x
    BY <1>5
  <2> HIDE DEF s
  <2> QED
    BY <1>4, <2>1 DEF Unsent
<1> HIDE DEF s, g, h
<1>8. Session(g, L[g], R[h], q, B[h], Mailed(W[<<h, n>>], g), Mailed(W[<<n, h>>], g),
              Unsent(S[n], g), A[h])
  BY <1>3, SessionFacts
<1>9. Session(g, L[g], R[h], q, B[h], Mailed(W[<<h, n>>], g), Mailed(W[<<n, h>>], g),
              Unsent(s, g), A[h])
  <2>1. q.grant = g /\ i.local = A[h]
    BY DEF g, h
  <2>2. Session(g, L[g], R[h], q, B[h], Mailed(W[<<h, n>>], g), Mailed(W[<<n, h>>], g),
                Unsent(S[n], g) \union {i}, A[h])
    BY <1>8, <2>1, GuestMakes
  <2> QED
    BY <1>6, <2>2
<1>10. /\ O = [O EXCEPT ![n] = O[n]] /\ A = [A EXCEPT ![n] = A[n]] /\ R = [R EXCEPT ![n] = q]
       /\ B = [B EXCEPT ![n] = B[n]]
       /\ O[n] \in BOOLEAN /\ A[n] \in Nat /\ B[n] \in Backend
  BY <1>1 DEF Values
<1>11. Proper(L, I, R, W, S, n, O[n], q, s, W)
  <2>1. Delivers(L, I, W, W)
    BY <1>1 DEF Delivers, Parts, Values
  <2>2. \A y \in Range(s) : Post(L, I, n, y)
    <3>1. Post(L, I, n, x)
      BY <1>3, <1>4 DEF Post, g
    <3>2. \A y \in Range(S[n]) : Post(L, I, n, y)
      BY <1>1 DEF Parts
    <3> QED
      BY <1>5, <3>1, <3>2
  <2>3. Untouched(L, I, R, W, S, n, q, W, s)
    BY <1>7 DEF Untouched, StillAwaits, g
  <2> QED
    BY <1>2, <2>1, <2>2, <2>3 DEF Proper
<1>12. Own(L, [A EXCEPT ![n] = A[n]], [R EXCEPT ![n] = q], [B EXCEPT ![n] = B[n]], W,
           [S EXCEPT ![n] = s], n, q)
  <2>1. q.grant = g
    BY DEF g
  <2>2. Own(L, A, R, B, W, [S EXCEPT ![n] = s], n, q)
    <3> DEFINE SS == [S EXCEPT ![n] = s]
    <3>1. SS[n] = s
      BY <1>1 DEF Values
    <3> HIDE DEF SS
    <3>2. At(L, A, R, B, W, SS, g)
      BY <1>3, <1>9, <3>1 DEF At
    <3> QED
      BY <2>1, <3>2 DEF Own, SS
  <2> QED
    BY <1>10, <2>2
<1>13. Agreement(L, I, [O EXCEPT ![n] = O[n]], [A EXCEPT ![n] = A[n]], [R EXCEPT ![n] = q],
                 [B EXCEPT ![n] = B[n]], W, [S EXCEPT ![n] = s])
  BY <1>2, <1>5, <1>10, <1>11, <1>12, ParticipantKeeps
<1> QED
  BY <1>10, <1>13 DEF s, x

-----------------------------------------------------------------------------
(* What a handler sends, word by word.                                     *)

Told(r, kind, body, i) ==
  [kind |-> kind, req |-> r.req, grant |-> r.grant, body |-> body,
   seq |-> IF Numbered(kind) THEN r.tx + i ELSE 0]

Counted(out) == Cardinality({i \in DOMAIN out : Numbered(out[i].kind)})

LEMMA WireOne ==
  ASSUME NEW r \in Runtime, NEW kind \in MessageKinds, NEW body \in Bodies,
         Fitting(kind, body, r.grant), NEW w \in Seq(Messages)
  PROVE  /\ Told(r, kind, body, 1) \in Messages
         /\ w \o Wire(r, Say(kind, body)) = Append(w, Told(r, kind, body, 1))
         /\ Counted(Say(kind, body)) = IF Numbered(kind) THEN 1 ELSE 0
<1> DEFINE x == [kind |-> kind, body |-> body]
           m == Told(r, kind, body, 1)
           out == Say(kind, body)
<1>1. out = <<x>>
  BY DEF Say
<1>2. DOMAIN out = {1} /\ out[1].kind = kind /\ out[1].body = body
  <2>1. DOMAIN <<x>> = 1 .. 1 /\ 1 .. 1 = {1} /\ <<x>>[1] = x
    OBVIOUS
  <2> QED
    BY <1>1, <2>1
<1> HIDE DEF out
<1>3. Wire(r, out) = [i \in {1} |-> m]
  BY <1>2 DEF Wire, Told
<1>4. <<m>> = [i \in {1} |-> m]
  <2>1. DOMAIN <<m>> = 1 .. 1 /\ 1 .. 1 = {1} /\ <<m>>[1] = m
    OBVIOUS
  <2>2. <<m>> = [i \in DOMAIN <<m>> |-> <<m>>[i]]
    OBVIOUS
  <2> HIDE DEF m
  <2> QED
    BY <2>1, <2>2
<1>5. m \in Messages
  BY DEF Told, Messages, Runtime
<1>6. w \o Wire(r, out) = Append(w, m)
  BY <1>3, <1>4, <1>5, AppendIsConcat
<1>7. Counted(out) = IF Numbered(kind) THEN 1 ELSE 0
  <2>1. CASE Numbered(kind)
    <3>1. {i \in DOMAIN out : Numbered(out[i].kind)} = {1}
      BY <1>2, <2>1
    <3> QED
      BY <2>1, <3>1, FS_Singleton DEF Counted
  <2>2. CASE ~Numbered(kind)
    <3>1. {i \in DOMAIN out : Numbered(out[i].kind)} = {}
      BY <1>2, <2>2
    <3> QED
      BY <2>2, <3>1, FS_EmptySet DEF Counted
  <2> QED
    BY <2>1, <2>2
<1> QED
  BY <1>5, <1>6, <1>7 DEF out

LEMMA AppendPair ==
  ASSUME NEW M, NEW a \in M, NEW b \in M
  PROVE  Append(<<a>>, b) = <<a, b>>
<1>1. <<a>> \in Seq(M) /\ Len(<<a>>) = 1 /\ <<a>>[1] = a
  OBVIOUS
<1>2. <<a, b>> \in Seq(M) /\ Len(<<a, b>>) = 2 /\ <<a, b>>[1] = a /\ <<a, b>>[2] = b
  OBVIOUS
<1> DEFINE s == <<a>>
           t == <<a, b>>
<1> HIDE DEF s, t
<1>3. /\ Append(s, b) \in Seq(M) /\ Len(Append(s, b)) = 2
      /\ Append(s, b)[1] = a /\ Append(s, b)[2] = b
  <2>1. s \in Seq(M) /\ Len(s) = 1 /\ s[1] = a
    BY <1>1 DEF s
  <2>2. /\ Append(s, b) \in Seq(M) /\ Len(Append(s, b)) = Len(s) + 1
        /\ \A i \in 1 .. Len(s) : Append(s, b)[i] = s[i]
        /\ Append(s, b)[Len(s) + 1] = b
    <3>1. s \in Seq(M)
      BY <2>1
    <3> QED
      BY <3>1, AppendProperties
  <2>3. 1 \in 1 .. Len(s)
    BY <2>1
  <2> QED
    BY <2>1, <2>2, <2>3
<1>4. \A i \in 1 .. 2 : Append(s, b)[i] = t[i]
  <2>1. \A i \in 1 .. 2 : i = 1 \/ i = 2
    OBVIOUS
  <2> QED
    BY <1>2, <1>3, <2>1 DEF t
<1>5. Append(s, b) = t
  BY <1>2, <1>3, <1>4, SeqEqual DEF t
<1> QED
  BY <1>5 DEF s, t

(* A report and a Ping.                                                    *)
LEMMA WireTwo ==
  ASSUME NEW r \in Runtime, NEW kind \in MessageKinds, NEW body \in Bodies,
         Fitting(kind, body, r.grant), NEW more \in MessageKinds, NEW text \in Bodies,
         Fitting(more, text, r.grant), Numbered(kind), Numbered(more), NEW w \in Seq(Messages)
  PROVE  /\ Told(r, kind, body, 1) \in Messages /\ Told(r, more, text, 2) \in Messages
         /\ w \o Wire(r, Say(kind, body) \o Say(more, text))
              = Append(Append(w, Told(r, kind, body, 1)), Told(r, more, text, 2))
         /\ Counted(Say(kind, body) \o Say(more, text)) = 2
<1> DEFINE x == [kind |-> kind, body |-> body]
           y == [kind |-> more, body |-> text]
           a == Told(r, kind, body, 1)
           b == Told(r, more, text, 2)
           out == Say(kind, body) \o Say(more, text)
<1>1. out = <<x, y>>
  <2>1. x \in {x, y} /\ y \in {x, y} /\ <<x>> \in Seq({x, y})
    OBVIOUS
  <2>2. Append(<<x>>, y) = <<x>> \o <<y>>
    BY <2>1, AppendIsConcat
  <2>3. Append(<<x>>, y) = <<x, y>>
    BY <2>1, AppendPair
  <2> QED
    BY <2>2, <2>3 DEF Say
<1>2. DOMAIN out = {1, 2} /\ out[1] = x /\ out[2] = y
  <2>1. DOMAIN <<x, y>> = 1 .. 2 /\ <<x, y>>[1] = x /\ <<x, y>>[2] = y
    OBVIOUS
  <2>2. 1 .. 2 = {1, 2}
    OBVIOUS
  <2> QED
    BY <1>1, <2>1, <2>2
<1> HIDE DEF out
<1>3. Wire(r, out) = [i \in {1, 2} |-> IF i = 1 THEN a ELSE b]
  BY <1>2 DEF Wire, Told
<1>4. <<a, b>> = [i \in {1, 2} |-> IF i = 1 THEN a ELSE b]
  <2>1. DOMAIN <<a, b>> = 1 .. 2 /\ <<a, b>>[1] = a /\ <<a, b>>[2] = b
    OBVIOUS
  <2>2. 1 .. 2 = {1, 2}
    OBVIOUS
  <2>3. <<a, b>> = [i \in DOMAIN <<a, b>> |-> <<a, b>>[i]]
    OBVIOUS
  <2> HIDE DEF a, b
  <2> QED
    BY <2>1, <2>2, <2>3
<1>5. a \in Messages /\ b \in Messages
  BY DEF Told, Messages, Runtime
<1> HIDE DEF a, b
<1>6. w \o Wire(r, out) = Append(Append(w, a), b)
  <2>1. <<a>> \in Seq(Messages) /\ <<b>> \in Seq(Messages)
    BY <1>5
  <2>2. Append(w, a) \in Seq(Messages) /\ Append(w, a) = w \o <<a>>
    BY <1>5, AppendProperties, AppendIsConcat
  <2>3. Append(Append(w, a), b) = (w \o <<a>>) \o <<b>>
    BY <1>5, <2>2, AppendIsConcat
  <2>4. (w \o <<a>>) \o <<b>> = w \o (<<a>> \o <<b>>)
    BY <2>1, ConcatAssociative
  <2>5. Append(<<a>>, b) = <<a>> \o <<b>>
    BY <1>5, <2>1, AppendIsConcat
  <2>6. Append(<<a>>, b) = <<a, b>>
    BY <1>5, AppendPair
  <2> QED
    BY <1>3, <1>4, <2>3, <2>4, <2>5, <2>6
<1>7. Counted(out) = 2
  <2> DEFINE T == {i \in DOMAIN out : Numbered(out[i].kind)}
             Z == {1}
  <2>1. T = Z \union {2}
    BY <1>2
  <2>2. IsFiniteSet(Z) /\ Cardinality(Z) = 1
    BY FS_Singleton
  <2>3. 2 \notin Z
    OBVIOUS
  <2>4. Counted(out) = Cardinality(T)
    BY DEF Counted
  <2> HIDE DEF T, Z
  <2>5. Cardinality(Z \union {2}) = Cardinality(Z) + 1
    BY <2>2, <2>3, FS_AddElement
  <2>6. Cardinality(T) = Cardinality(Z) + 1
    BY <2>1, <2>5
  <2> QED
    BY <2>2, <2>4, <2>6
<1> QED
  BY <1>5, <1>6, <1>7 DEF out, a, b

(* A Runtime that finishes says End, or nothing.                           *)
Farewell(n, q, W, V) ==
  \/ V = W
  \/ /\ q.peer \in Nodes \ {n}
     /\ V = [W EXCEPT ![<<n, q.peer>>] = @ \o Wire(q, Say("End", None))]

LEMMA FinishKeeps ==
  ASSUME NEW L, NEW I, NEW O, NEW A, NEW R, NEW B, NEW W, NEW S,
         Agreement(L, I, O, A, R, B, W, S),
         NEW n \in Nodes, NEW o \in BOOLEAN, NEW b \in Backend,
         NEW V, Farewell(n, R[n], W, V)
  PROVE  Agreement(L, I, [O EXCEPT ![n] = o], A, [R EXCEPT ![n] = IdleRuntime],
                   [B EXCEPT ![n] = b], V, S)
<1> DEFINE q == R[n]
           h == q.peer
           m == Told(q, "End", None, 1)
           r == [q EXCEPT !.tx = @ + 1]
           t == [q EXCEPT !.tx = @ + 1, !.state = "Controlling"]
<1>1. Values(L, I, O, A, R, B, W, S) /\ Parts(L, I, O, R, W, S)
  BY DEF Agreement
<1>2. q \in Runtime /\ Role(L, I, n, q, O[n]) /\ I \in Nat /\ W \in Channels
  BY <1>1 DEF Values, Parts
<1>3. IdleRuntime \in Runtime /\ IdleRuntime.grant = 0 /\ IdleRuntime.state = "Idle"
  BY FreshRecords DEF IdleRuntime
<1>4. Role(L, I, n, IdleRuntime, o) /\ \A g \in 1 .. I : ~Awaits(IdleRuntime, L[g])
  BY <1>2 DEF Role, IdleRuntime, Awaits
<1>5. ASSUME NEW r2 \in Runtime, NEW V2, Agreement(L, I, O, A, [R EXCEPT ![n] = r2], B, V2, S)
      PROVE  Agreement(L, I, [O EXCEPT ![n] = o], A, [R EXCEPT ![n] = IdleRuntime],
                       [B EXCEPT ![n] = b], V2, S)
  <2>1. Agreement(L, I, [O EXCEPT ![n] = o], A, [[R EXCEPT ![n] = r2] EXCEPT ![n] = IdleRuntime],
                  [B EXCEPT ![n] = b], V2, S)
    BY <1>3, <1>4, <1>5, UnsettledKeeps
  <2>2. [[R EXCEPT ![n] = r2] EXCEPT ![n] = IdleRuntime] = [R EXCEPT ![n] = IdleRuntime]
    BY <1>1 DEF Values
  <2> QED
    BY <2>1, <2>2
<1>6. CASE V = W
  BY <1>3, <1>4, <1>6, UnsettledKeeps
<1>7. CASE h \in Nodes \ {n} /\ V = [W EXCEPT ![<<n, h>>] = @ \o Wire(q, Say("End", None))]
  <2>1. h \in Nodes \ {n}
    BY <1>7
  <2>2. W[<<n, h>>] \in Seq(Messages)
    BY <1>2, <2>1 DEF Channels
  <2>3. "End" \in MessageKinds /\ None \in Bodies /\ Fitting("End", None, q.grant)
    BY DEF MessageKinds, Bodies, Fitting
  <2>4. /\ m \in Messages
        /\ W[<<n, h>>] \o Wire(q, Say("End", None)) = Append(W[<<n, h>>], m)
    BY <1>2, <2>2, <2>3, WireOne
  <2>5. V = [W EXCEPT ![<<n, h>>] = Append(@, m)]
    BY <1>7, <2>4
  <2>6. m.kind = "End" /\ m.grant = q.grant /\ m.req = q.req /\ m.seq = q.tx + 1
    BY DEF Told, Numbered
  <2>7. CASE q.grant = 0
    <3>1. m.grant = 0 /\ m.req <= I /\ m.kind \in {"Request", "End"}
      BY <1>2, <2>6, <2>7 DEF Role
    <3> HIDE DEF m
    <3>2. Agreement(L, I, O, A, R, B, V, S)
      BY <2>1, <2>4, <2>5, <3>1, LooseKeeps
    <3>3. Agreement(L, I, [O EXCEPT ![n] = o], A, [R EXCEPT ![n] = IdleRuntime], [B EXCEPT ![n] = b], V, S)
      BY <1>3, <1>4, <3>2, UnsettledKeeps
    <3> QED
      BY <3>3
  <2>8. CASE q.grant # 0 /\ q.state \in {"AwaitingReady", "Controlled"}
    <3>1. q.tx + 1 \in Nat
      BY <1>2 DEF Runtime
    <3>2. r \in Runtime /\ Role(L, I, n, r, O[n])
      BY <1>2, <2>8, <3>1 DEF Runtime, Role
    <3>3. HostWord(q, r, B[n], m)
      BY <1>2, <2>4, <2>6, <2>8, <3>2 DEF HostWord, Word, Downward, Runtime
    <3> HIDE DEF m, r
    <3>4. Agreement(L, I, O, A, [R EXCEPT ![n] = r], B, V, S)
      BY <2>5, <3>2, <3>3, HostSays
    <3> QED
      BY <1>5, <3>2, <3>4
  <2>9. CASE q.grant # 0 /\ q.state \in {"AwaitingActivation", "Controlling"}
    <3>1. q.tx + 1 \in Nat /\ q.tx + 1 >= 1 /\ "Controlling" \in States
      BY <1>2 DEF Runtime, States
    <3>2. t \in Runtime
      BY <1>2, <3>1 DEF Runtime
    <3>3. Role(L, I, n, t, O[n])
      BY <1>2, <2>9, <3>1, <3>2 DEF Runtime, Role
    <3>4. GuestWord(q, t, Unsent(S[n], q.grant), m)
      BY <1>2, <2>4, <2>6, <2>9, <3>2 DEF GuestWord, Word, Upward, Refocus, Runtime
    <3> HIDE DEF m, t
    <3>5. Agreement(L, I, O, A, [R EXCEPT ![n] = t], B, V, S)
      BY <2>5, <3>2, <3>3, <3>4, GuestSays
    <3> QED
      BY <1>5, <3>2, <3>5
  <2>10. q.grant # 0 => q.state \in {"AwaitingReady", "Controlled", "AwaitingActivation", "Controlling"}
    BY <1>2, Places
  <2> QED
    BY <2>7, <2>8, <2>9, <2>10
<1> QED
  BY <1>6, <1>7 DEF Farewell

(* A handler of the session of n that says one thing, or fails to.         *)
Spoken(q, r, b, P, m) == HostWord(q, r, b, m) \/ GuestWord(q, r, P, m)

LEMMA TransmitKeeps ==
  ASSUME NEW L, NEW I, NEW O, NEW A, NEW R, NEW B, NEW c, NEW S,
         NEW n \in Nodes, NEW q \in Runtime, NEW b \in Backend,
         R = [rt EXCEPT ![n] = q], B = [backend EXCEPT ![n] = b],
         Agreement(L, I, O, A, R, B, c, S), rt \in [Nodes -> Runtime], backend \in [Nodes -> Backend],
         NEW r \in Runtime, r.peer = q.peer, r.req = q.req, r.grant = q.grant,
         NEW kind \in MessageKinds, NEW body \in Bodies, Fitting(kind, body, r.grant),
         Numbered(kind),
         NEW t, t = [r EXCEPT !.tx = @ + 1], Role(L, I, n, t, O[n]),
         Spoken(q, t, b, Unsent(S[n], q.grant), Told(r, kind, body, 1)),
         Transmit(c, n, r, b, Say(kind, body))
  PROVE  Agreement(L, I, O, A, rt', backend', net', S) /\ faulty' = faulty
<1> DEFINE out == Say(kind, body)
           h == q.peer
           m == Told(r, kind, body, 1)
<1>1. R[n] = q /\ B[n] = b
  BY DEF Agreement
<1>2. Values(L, I, O, A, R, B, c, S) /\ Role(L, I, n, q, O[n]) /\ c \in Channels
  BY <1>1 DEF Agreement, Values, Parts
<1>3. O[n] \in BOOLEAN /\ O = [O EXCEPT ![n] = O[n]]
  BY <1>2 DEF Values
<1>4. CASE Finish(c, n, r, b, FALSE)
  <2> DEFINE e == [b EXCEPT !.lease = 0, !.queue = <<>>]
  <2>1. rt' = [rt EXCEPT ![n] = IdleRuntime] /\ backend' = [backend EXCEPT ![n] = e] /\ net' = c
        /\ UNCHANGED faulty
    BY <1>4 DEF Finish
  <2>2. e \in Backend
    <3>1. <<>> \in Seq(InputRecords)
      BY EmptySeq
    <3> QED
      BY <3>1 DEF Backend
  <2> HIDE DEF e
  <2>3. Farewell(n, R[n], c, c)
    BY DEF Farewell
  <2>4. Agreement(L, I, [O EXCEPT ![n] = O[n]], A, [R EXCEPT ![n] = IdleRuntime],
                  [B EXCEPT ![n] = e], c, S)
    BY <1>3, <2>2, <2>3, FinishKeeps
  <2>5. [R EXCEPT ![n] = IdleRuntime] = rt' /\ [B EXCEPT ![n] = e] = backend'
    BY <2>1
  <2> QED
    BY <1>3, <2>1, <2>4, <2>5
<1>5. CASE ~Finish(c, n, r, b, FALSE)
  <2>1. /\ rt' = [rt EXCEPT ![n] = [r EXCEPT !.tx = @ + Counted(out)]]
        /\ backend' = [backend EXCEPT ![n] = b]
        /\ net' = [c EXCEPT ![<<n, h>>] = @ \o Wire(r, out)]
        /\ UNCHANGED faulty
    BY <1>5 DEF Transmit, Link, Counted
  <2>2. q.grant # 0 /\ q.state # "Idle" /\ h \in Nodes
    BY <1>2 DEF Spoken, HostWord, GuestWord, Role
  <2>3. c[<<n, h>>] \in Seq(Messages)
    BY <1>2, <2>2 DEF Channels
  <2>4. /\ c[<<n, h>>] \o Wire(r, out) = Append(c[<<n, h>>], m)
        /\ Counted(out) = 1
    BY <2>3, WireOne
  <2>5. rt' = [R EXCEPT ![n] = t] /\ backend' = B /\ net' = [c EXCEPT ![<<n, R[n].peer>>] = Append(@, m)]
    BY <1>1, <2>1, <2>4
  <2>6. r.tx + 1 \in Nat
    BY DEF Runtime
  <2>7. t \in Runtime
    BY <2>6 DEF Runtime
  <2> HIDE DEF m
  <2>8. CASE HostWord(q, t, b, m)
    <3>1. HostWord(R[n], t, B[n], m)
      BY <1>1, <2>8
    <3>2. Agreement(L, I, O, A, [R EXCEPT ![n] = t], B, [c EXCEPT ![<<n, R[n].peer>>] = Append(@, m)], S)
      BY <2>7, <3>1, HostSays
    <3> QED
      BY <2>1, <2>5, <3>2
  <2>9. CASE GuestWord(q, t, Unsent(S[n], q.grant), m)
    <3>1. GuestWord(R[n], t, Unsent(S[n], R[n].grant), m)
      BY <1>1, <2>9
    <3>2. Agreement(L, I, O, A, [R EXCEPT ![n] = t], B, [c EXCEPT ![<<n, R[n].peer>>] = Append(@, m)], S)
      BY <2>7, <3>1, GuestSays
    <3> QED
      BY <2>1, <2>5, <3>2
  <2> QED
    BY <2>8, <2>9 DEF Spoken, m
<1> QED
  BY <1>4, <1>5

(* A host's report and a Ping in one go.                                   *)
LEMMA TransmitBothKeeps ==
  ASSUME NEW L, NEW I, NEW O, NEW A, NEW R, NEW B, NEW c, NEW S,
         NEW n \in Nodes, NEW r \in Runtime, NEW b \in Backend,
         R = [rt EXCEPT ![n] = r], B = [backend EXCEPT ![n] = b],
         Agreement(L, I, O, A, R, B, c, S), rt \in [Nodes -> Runtime], backend \in [Nodes -> Backend],
         r.state = "Controlled",
         Transmit(c, n, r, b, Report(r, b) \o Say("Ping", None))
  PROVE  Agreement(L, I, O, A, rt', backend', net', S) /\ faulty' = faulty
<1> DEFINE body == [focus |-> r.focus, epoch |-> b.epoch, paused |-> b.paused]
           out == Say("InputState", body) \o Say("Ping", None)
           h == r.peer
           x == Told(r, "InputState", body, 1)
           y == Told(r, "Ping", None, 2)
           t == [r EXCEPT !.tx = @ + 1]
           u == [r EXCEPT !.tx = @ + 2]
<1>1. R[n] = r /\ B[n] = b
  BY DEF Agreement
<1>2. Values(L, I, O, A, R, B, c, S) /\ Role(L, I, n, r, O[n]) /\ c \in Channels
  BY <1>1 DEF Agreement, Values, Parts
<1>3. O[n] \in BOOLEAN /\ O = [O EXCEPT ![n] = O[n]]
  BY <1>2 DEF Values
<1>0. Transmit(c, n, r, b, out)
  BY DEF Report
<1>4. CASE Finish(c, n, r, b, FALSE)
  <2> DEFINE e == [b EXCEPT !.lease = 0, !.queue = <<>>]
  <2>1. rt' = [rt EXCEPT ![n] = IdleRuntime] /\ backend' = [backend EXCEPT ![n] = e] /\ net' = c
        /\ UNCHANGED faulty
    BY <1>4 DEF Finish
  <2>2. e \in Backend
    <3>1. <<>> \in Seq(InputRecords)
      BY EmptySeq
    <3> QED
      BY <3>1 DEF Backend
  <2> HIDE DEF e
  <2>3. Farewell(n, R[n], c, c)
    BY DEF Farewell
  <2>4. Agreement(L, I, [O EXCEPT ![n] = O[n]], A, [R EXCEPT ![n] = IdleRuntime],
                  [B EXCEPT ![n] = e], c, S)
    BY <1>3, <2>2, <2>3, FinishKeeps
  <2>5. [R EXCEPT ![n] = IdleRuntime] = rt' /\ [B EXCEPT ![n] = e] = backend'
    BY <2>1
  <2> QED
    BY <1>3, <2>1, <2>4, <2>5
<1>5. CASE ~Finish(c, n, r, b, FALSE)
  <2>1. /\ rt' = [rt EXCEPT ![n] = [r EXCEPT !.tx = @ + Counted(out)]]
        /\ backend' = [backend EXCEPT ![n] = b]
        /\ net' = [c EXCEPT ![<<n, h>>] = @ \o Wire(r, out)]
        /\ UNCHANGED faulty
    BY <1>0, <1>5 DEF Transmit, Link, Counted
  <2>2. h \in Nodes
    BY <1>2 DEF Role
  <2>3. c[<<n, h>>] \in Seq(Messages)
    BY <1>2, <2>2 DEF Channels
  <2>4. body \in Reports /\ body \in Bodies /\ None \in Bodies
    BY DEF Runtime, Backend, Reports, Bodies
  <2>5. /\ "InputState" \in MessageKinds /\ "Ping" \in MessageKinds
        /\ Numbered("InputState") /\ Numbered("Ping")
        /\ Fitting("InputState", body, r.grant) /\ Fitting("Ping", None, r.grant)
    BY <2>4 DEF MessageKinds, Numbered, Fitting
  <2>6. /\ x \in Messages /\ y \in Messages
        /\ c[<<n, h>>] \o Wire(r, out) = Append(Append(c[<<n, h>>], x), y)
        /\ Counted(out) = 2
    <3> HIDE DEF body
    <3> QED
      BY <2>3, <2>4, <2>5, WireTwo
  <2>7. /\ x.kind = "InputState" /\ x.body = body /\ x.grant = r.grant /\ x.req = r.req /\ x.seq = r.tx + 1
        /\ y.kind = "Ping" /\ y.grant = r.grant /\ y.req = r.req /\ y.seq = r.tx + 2
    BY <2>5 DEF Told
  <2>8. r.tx \in Nat /\ r.tx + 1 \in Nat /\ r.tx + 2 \in Nat /\ (r.tx + 1) + 1 = r.tx + 2
    BY DEF Runtime
  <2>9. t \in Runtime /\ u \in Runtime
    BY <2>8 DEF Runtime
  <2>10. Role(L, I, n, t, O[n]) /\ Role(L, I, n, u, O[n])
    BY <1>2, <2>8, <2>9 DEF Role, Runtime
  <2>11. HostWord(r, t, b, x) /\ HostWord(t, u, b, y)
    BY <2>6, <2>7, <2>8 DEF HostWord, Word, Downward, Runtime
  <2>12. t.peer = h
    OBVIOUS
  <2> DEFINE c1 == [c EXCEPT ![<<n, h>>] = Append(@, x)]
             c2 == [c1 EXCEPT ![<<n, h>>] = Append(@, y)]
             R1 == [R EXCEPT ![n] = t]
             R2 == [R1 EXCEPT ![n] = u]
  <2>13. R1[n] = t
    BY <1>2 DEF Values
  <2>14. c2 = [c EXCEPT ![<<n, h>>] = Append(Append(@, x), y)]
    <3> HIDE DEF x, y
    <3> QED
      BY <1>2, <2>2 DEF Channels
  <2>15. rt' = [rt EXCEPT ![n] = u]
    BY <2>1, <2>6
  <2>16. R2 = rt' /\ B = backend'
    BY <2>1, <2>15
  <2>17. net' = c2
    BY <2>1, <2>6, <2>14
  <2> HIDE DEF x, y, t, u, body
  <2>18. Agreement(L, I, O, A, R1, B, c1, S)
    BY <1>1, <2>9, <2>10, <2>11, HostSays
  <2> HIDE DEF R1, c1
  <2>19. Agreement(L, I, O, A, R2, B, c2, S)
    BY <1>1, <2>9, <2>10, <2>11, <2>12, <2>13, <2>18, HostSays
  <2> QED
    BY <2>1, <2>16, <2>17, <2>19
<1> QED
  BY <1>4, <1>5

-----------------------------------------------------------------------------
(* The invariant of a state, and the handlers, one by one.                 *)

Now(L) == Agreement(L, ids, overflow, locals, rt, backend, net, strand)

Kept == faulty' = faulty /\ (\E L \in [1 .. ids -> Deals] : Now(L))'

(* What is known of participant n.                                         *)
LEMMA NowFacts ==
  ASSUME LeaseInv, NEW L, Now(L), NEW n \in Nodes
  PROVE  /\ Role(L, ids, n, rt[n], overflow[n])
         /\ rt[n] \in Runtime /\ backend[n] \in Backend /\ strand[n] \in Seq(Posts)
         /\ locals[n] \in Nat /\ overflow[n] \in BOOLEAN /\ net \in Channels /\ ids \in Nat
         /\ rt \in [Nodes -> Runtime] /\ backend \in [Nodes -> Backend]
         /\ overflow \in [Nodes -> BOOLEAN] /\ locals \in [Nodes -> Nat]
         /\ strand \in [Nodes -> Seq(Posts)]
         /\ Safe(rt[n], backend[n], approved[n])
         /\ rt = [rt EXCEPT ![n] = rt[n]] /\ backend = [backend EXCEPT ![n] = backend[n]]
         /\ strand = [strand EXCEPT ![n] = strand[n]] /\ locals = [locals EXCEPT ![n] = locals[n]]
         /\ overflow = [overflow EXCEPT ![n] = overflow[n]]
BY DEF Now, Agreement, Values, Parts, LeaseInv

LEMMA NowKept ==
  ASSUME NEW L, Agreement(L, ids', overflow', locals', rt', backend', net', strand'),
         faulty' = faulty
  PROVE  Kept
<1>1. L \in [1 .. ids' -> Deals]
  BY DEF Agreement, Values
<1> QED
  BY <1>1 DEF Kept, Now

(* A step of one participant, and one that the protocol does not notice.   *)
Changes(n, o, a, r, b, s) ==
  /\ overflow' = [overflow EXCEPT ![n] = o] /\ locals' = [locals EXCEPT ![n] = a]
  /\ rt' = [rt EXCEPT ![n] = r] /\ backend' = [backend EXCEPT ![n] = b]
  /\ strand' = [strand EXCEPT ![n] = s] /\ UNCHANGED <<ids, faulty>>

LEMMA UnnoticedStep ==
  ASSUME LeaseInv, NEW L, Now(L), NEW n \in Nodes,
         NEW o \in BOOLEAN, NEW a \in Nat, NEW r \in Runtime, NEW b \in Backend, NEW s \in Seq(Posts),
         Changes(n, o, a, r, b, s), Role(L, ids, n, r, o),
         Unnoticed(n, rt[n], r, backend[n], b, locals[n], a, strand[n], s, net, net', L, ids)
  PROVE  Kept
<1>1. Agreement(L, ids, [overflow EXCEPT ![n] = o], [locals EXCEPT ![n] = a], [rt EXCEPT ![n] = r],
                [backend EXCEPT ![n] = b], net', [strand EXCEPT ![n] = s])
  <2>1. Agreement(L, ids, overflow, locals, rt, backend, net, strand)
    BY DEF Now
  <2> QED
    BY <2>1, UnnoticedKeeps
<1>2. Agreement(L, ids', overflow', locals', rt', backend', net', strand') /\ faulty' = faulty
  BY <1>1 DEF Changes
<1> QED
  BY <1>2, NowKept

(* No channel is touched.                                                  *)
LEMMA NotShortened ==
  ASSUME NEW n, NEW W \in Channels
  PROVE  Shortened(W, W, n)
BY DEF Shortened

(* The input thread of n, or its user.                                     *)
LEMMA InterruptKeeps ==
  ASSUME LeaseInv, NEW L, Now(L), NEW n \in Nodes, NEW b \in Backend, Interrupt(n, b),
         NEW a \in Nat, locals' = [locals EXCEPT ![n] = a], b.paused \/ a = locals[n],
         Onward(backend[n], b), Range(b.queue) \subseteq Range(backend[n].queue), ids' = ids
  PROVE  Kept
<1>1. Unnoticed(n, rt[n], rt[n], backend[n], b, locals[n], a, strand[n], strand[n], net, net', L, ids)
  BY NowFacts, NotShortened, NothingLost DEF Unnoticed, Interrupt
<1>2. Changes(n, overflow[n], a, rt[n], b, strand[n])
  BY NowFacts DEF Interrupt, Changes
<1>3. /\ overflow[n] \in BOOLEAN /\ rt[n] \in Runtime /\ strand[n] \in Seq(Posts)
      /\ Role(L, ids, n, rt[n], overflow[n])
  BY NowFacts
<1> QED
  BY <1>1, <1>2, <1>3, UnnoticedStep

LEMMA NativeKeeps ==
  ASSUME LeaseInv, NEW L, Now(L), NEW n \in Nodes, NEW b \in Backend, Native(n, b), UNCHANGED locals,
         Onward(backend[n], b), Range(b.queue) \subseteq Range(backend[n].queue)
  PROVE  Kept
<1>1. Interrupt(n, b) /\ ids' = ids /\ locals' = [locals EXCEPT ![n] = locals[n]] /\ locals[n] \in Nat
  BY NowFacts DEF Native, counters
<1> QED
  BY <1>1, InterruptKeeps

(* Every word about the backend but those about its admission.             *)
LEMMA SameOnward ==
  ASSUME NEW b \in Backend, NEW c \in Backend, c.epoch = b.epoch, c.paused = b.paused
  PROVE  Onward(b, c)
BY DEF Onward, Backend

LEMMA EmptyRange == Range(<<>>) = {}
BY DEF Range

LEMMA DisarmKeeps ==
  ASSUME LeaseInv, NEW L, Now(L), NEW n \in Nodes, Disarm(n)
  PROVE  Kept
<1> DEFINE b == [backend[n] EXCEPT !.lease = 0, !.queue = <<>>]
<1>1. b \in Backend
  <2>1. <<>> \in Seq(InputRecords)
    BY EmptySeq
  <2> QED
    BY <2>1, NowFacts DEF Backend
<1>2. Onward(backend[n], b) /\ b.queue = <<>>
  BY <1>1, NowFacts, SameOnward DEF Backend
<1>3. Native(n, b) /\ UNCHANGED locals
  BY DEF Disarm
<1> HIDE DEF b
<1> QED
  BY <1>1, <1>2, <1>3, EmptyRange, NativeKeeps

LEMMA ReleaseKeeps ==
  ASSUME LeaseInv, NEW L, Now(L), NEW n \in Nodes, Release(n)
  PROVE  Kept
<1> DEFINE b == [backend[n] EXCEPT !.held = FALSE]
<1>1. b \in Backend
  BY NowFacts DEF Backend
<1>2. Onward(backend[n], b) /\ b.queue = backend[n].queue
  BY <1>1, NowFacts, SameOnward DEF Backend
<1>3. Native(n, b) /\ UNCHANGED locals
  BY DEF Release
<1> HIDE DEF b
<1> QED
  BY <1>1, <1>2, <1>3, NativeKeeps

LEMMA QuietKeeps ==
  ASSUME LeaseInv, NEW L, Now(L), NEW n \in Nodes, Quiet(n)
  PROVE  Kept
<1> DEFINE b == [backend[n] EXCEPT !.quiet = TRUE]
<1>1. b \in Backend
  BY NowFacts DEF Backend
<1>2. Onward(backend[n], b) /\ b.queue = backend[n].queue
  BY <1>1, NowFacts, SameOnward DEF Backend
<1>3. Native(n, b) /\ UNCHANGED locals
  BY DEF Quiet
<1> HIDE DEF b
<1> QED
  BY <1>1, <1>2, <1>3, NativeKeeps

(* Suspended input is under no token that was admitted.                    *)
LEMMA SuspendOnward ==
  ASSUME NEW b \in Backend
  PROVE  Suspend(b).paused /\ Onward(b, Suspend(b))
<1>1. b.epoch \in Nat /\ b.epoch + 1 \in Nat
  BY DEF Backend
<1> QED
  BY <1>1 DEF Suspend, Onward, Backend

LEMMA YieldKeeps ==
  ASSUME LeaseInv, NEW L, Now(L), NEW n \in Nodes, NEW released \in BOOLEAN, Yield(n, released)
  PROVE  Kept
<1> DEFINE b == [backend[n] EXCEPT !.held = @ /\ ~released, !.queue = <<>>]
           d == [b EXCEPT !.paused = FALSE, !.epoch = @ + 1]
<1>1. backend[n] \in Backend
  BY NowFacts
<1>2. b \in Backend /\ b.epoch = backend[n].epoch /\ b.paused = backend[n].paused /\ b.queue = <<>>
  <2>1. \A v \in BOOLEAN : [backend[n] EXCEPT !.held = v, !.queue = <<>>] \in Backend
    BY <1>1, EmptySeq DEF Backend
  <2>2. b \in Backend
    BY <2>1
  <2> QED
    BY <1>1, <2>2 DEF Backend
<1> HIDE DEF b
<1>3. d \in Backend /\ d.epoch = backend[n].epoch + 1 /\ d.queue = <<>>
  <2>1. b.epoch + 1 \in Nat
    BY <1>2 DEF Backend
  <2> QED
    BY <1>2, <2>1 DEF Backend
<1>4. (Native(n, d) \/ Native(n, b)) /\ UNCHANGED locals
  BY DEF Yield, b
<1>5. Onward(backend[n], b)
  BY <1>1, <1>2, SameOnward
<1>6. Onward(backend[n], d)
  <2>1. backend[n].epoch \in Nat
    BY <1>1 DEF Backend
  <2> QED
    BY <1>3, <2>1 DEF Onward
<1> HIDE DEF d
<1> QED
  BY <1>2, <1>3, <1>4, <1>5, <1>6, EmptyRange, NativeKeeps

LEMMA InjectKeeps ==
  ASSUME LeaseInv, NEW L, Now(L), NEW n \in Nodes, NEW down \in BOOLEAN, Inject(n, down)
  PROVE  Kept
<1> DEFINE held == IF Injects(n) /\ Head(backend[n].queue).key THEN down ELSE backend[n].held
           b == [backend[n] EXCEPT !.queue = Tail(@), !.held = held]
<1>1. backend[n] \in Backend /\ backend[n].queue \in Seq(InputRecords)
  BY NowFacts DEF Backend
<1>2. Native(n, b) /\ UNCHANGED locals /\ backend[n].queue # <<>>
  BY <1>1 DEF Inject, Backend
<1>3. held \in BOOLEAN
  BY <1>1 DEF Backend
<1>4. Tail(backend[n].queue) \in Seq(InputRecords)
  BY <1>1, <1>2, HeadTailProperties
<1> HIDE DEF held
<1>5. b \in Backend /\ b.epoch = backend[n].epoch /\ b.paused = backend[n].paused
      /\ b.queue = Tail(backend[n].queue)
  BY <1>1, <1>3, <1>4 DEF Backend
<1> HIDE DEF b
<1>6. Onward(backend[n], b)
  BY <1>1, <1>5, SameOnward
<1>7. Range(b.queue) \subseteq Range(backend[n].queue)
  BY <1>1, <1>2, <1>5, TailFacts
<1> QED
  BY <1>2, <1>5, <1>6, <1>7, NativeKeeps

LEMMA LocalActivityKeeps ==
  ASSUME LeaseInv, NEW L, Now(L), NEW n \in Nodes, NEW released \in BOOLEAN, LocalActivity(n, released)
  PROVE  Kept
<1> DEFINE c == Suspend(backend[n])
           b == [c EXCEPT !.queue = <<>>, !.quiet = FALSE, !.held = @ /\ ~released]
           a == locals[n] + 1
<1>1. backend[n] \in Backend /\ locals[n] \in Nat
  BY NowFacts
<1>2. c \in Backend /\ c.paused /\ Onward(backend[n], c)
  BY <1>1, SuspendType, SuspendOnward
<1>3. Interrupt(n, b) /\ ids' = ids /\ locals' = [locals EXCEPT ![n] = a]
  BY DEF LocalActivity, Act
<1> HIDE DEF c
<1>4. b \in Backend /\ b.epoch = c.epoch /\ b.paused /\ b.queue = <<>>
  <2>1. \A v \in BOOLEAN : [c EXCEPT !.queue = <<>>, !.quiet = FALSE, !.held = v] \in Backend
    BY <1>2, EmptySeq DEF Backend
  <2>2. b \in Backend
    BY <2>1
  <2> QED
    BY <1>2, <2>2 DEF Backend
<1>5. Onward(backend[n], b)
  BY <1>2, <1>4 DEF Onward
<1>6. a \in Nat
  BY <1>1
<1> HIDE DEF a, b
<1> QED
  BY <1>3, <1>4, <1>5, <1>6, EmptyRange, InterruptKeeps

-----------------------------------------------------------------------------
(* Time, and what the UI thread revokes.                                   *)

LEMMA LapseKeeps ==
  ASSUME LeaseInv, NEW L, Now(L), NEW n \in Nodes, Lapse(n)
  PROVE  Kept
<1> DEFINE r == [rt[n] EXCEPT !.lapsed = TRUE]
<1>1. r \in Runtime
  <2>1. rt[n] \in Runtime
    BY NowFacts
  <2> QED
    BY <2>1 DEF Runtime
<1>2. Role(L, ids, n, r, overflow[n])
  BY <1>1, NowFacts DEF Role, Runtime
<1>3. Onward(backend[n], backend[n])
  BY NowFacts, SameOnward
<1>4. Unnoticed(n, rt[n], r, backend[n], backend[n], locals[n], locals[n], strand[n], strand[n], net, net', L, ids)
  <2>1. net' = net /\ net \in Channels /\ rt[n] \in Runtime
    BY NowFacts DEF Lapse
  <2> QED
    BY <1>1, <1>3, <2>1, NotShortened, NothingLost DEF Unnoticed, Runtime
<1>5. Changes(n, overflow[n], locals[n], r, backend[n], strand[n])
  BY NowFacts DEF Lapse, Changes, counters
<1> HIDE DEF r
<1> QED
  BY <1>1, <1>2, <1>4, <1>5, NowFacts, UnnoticedStep

(* What is void was not admitted under the new epoch.                      *)
LEMMA RevokeKeeps ==
  ASSUME LeaseInv, NEW L, Now(L), NEW n \in Nodes, NEW k \in [Nodes -> Nat], Revoke(n, k),
         NEW r, r = [rt[n] EXCEPT !.revoked = rt[n].state # "Idle"]
  PROVE  /\ r \in Runtime /\ rt' = [rt EXCEPT ![n] = r]
         /\ \A o \in BOOLEAN : Role(L, ids, n, r, o)
         /\ \A b \in Backend : \A s :
              /\ Onward(backend[n], b) /\ Range(b.queue) \subseteq Range(backend[n].queue)
              /\ Range(s) \subseteq Range(strand[n]) \union [kind : {"stop"}]
              => Unnoticed(n, rt[n], r, backend[n], b, locals[n], locals[n], strand[n], s, net, net',
                           L, ids)
<1>1. rt[n] \in Runtime /\ rt' = [rt EXCEPT ![n] = r] /\ Role(L, ids, n, rt[n], overflow[n])
  BY NowFacts DEF Revoke, Runtime
<1>2. (rt[n].state # "Idle") \in BOOLEAN
  OBVIOUS
<1>3. r \in Runtime /\ r.revoked = (rt[n].state # "Idle")
  BY <1>1, <1>2 DEF Runtime
<1>4. \A o \in BOOLEAN : Role(L, ids, n, r, o)
  BY <1>1, <1>3 DEF Role, Runtime
<1>5. Shortened(net, net', n)
  <2>1. net' \in Channels
    BY RevokeMoves
  <2>2. ASSUME NEW p \in Nodes, NEW q \in Nodes, q # n PROVE net'[<<p, q>>] = net[<<p, q>>]
    BY <2>2 DEF Revoke
  <2>3. ASSUME NEW p \in Nodes
        PROVE  /\ Range(net'[<<p, n>>]) \subseteq Range(net[<<p, n>>])
               /\ Ordered(net[<<p, n>>]) => Ordered(net'[<<p, n>>])
    <3>1. net'[<<p, n>>] = SubSeq(net[<<p, n>>], k[p] + 1, Len(net[<<p, n>>]))
      BY DEF Revoke
    <3>2. net[<<p, n>>] \in Seq(Messages) /\ k[p] \in Nat
      BY NowFacts DEF Channels
    <3> QED
      BY <3>1, <3>2, DropFacts
  <2> QED
    BY <2>1, <2>2, <2>3 DEF Shortened
<1> QED
  BY <1>1, <1>3, <1>4, <1>5 DEF Unnoticed, Runtime

LEMMA OverflowKeeps ==
  ASSUME LeaseInv, NEW L, Now(L), NEW n \in Nodes, NEW k \in [Nodes -> Nat], Overflow(n, k),
         UNCHANGED <<backend, locals, ids, faulty>>
  PROVE  Kept
<1> DEFINE r == [rt[n] EXCEPT !.revoked = rt[n].state # "Idle"]
<1>1. Revoke(n, k) /\ strand' = strand /\ overflow' = [overflow EXCEPT ![n] = TRUE]
  BY DEF Overflow
<1> HIDE DEF r
<1>2. /\ r \in Runtime /\ rt' = [rt EXCEPT ![n] = r]
      /\ \A o \in BOOLEAN : Role(L, ids, n, r, o)
      /\ \A b \in Backend : \A s :
              /\ Onward(backend[n], b) /\ Range(b.queue) \subseteq Range(backend[n].queue)
              /\ Range(s) \subseteq Range(strand[n]) \union [kind : {"stop"}]
              => Unnoticed(n, rt[n], r, backend[n], b, locals[n], locals[n], strand[n], s, net, net',
                           L, ids)
  BY <1>1, RevokeKeeps DEF r
<1>3. Onward(backend[n], backend[n]) /\ backend[n] \in Backend
  BY NowFacts, SameOnward
<1>4. Unnoticed(n, rt[n], r, backend[n], backend[n], locals[n], locals[n], strand[n], strand[n], net, net', L, ids)
  BY <1>2, <1>3
<1>5. Changes(n, TRUE, locals[n], r, backend[n], strand[n])
  BY <1>1, <1>2, NowFacts DEF Changes
<1>6. Role(L, ids, n, r, TRUE) /\ TRUE \in BOOLEAN
  BY <1>2
<1> QED
  BY <1>2, <1>4, <1>5, <1>6, NowFacts, UnnoticedStep

LEMMA LoseMessageKeeps ==
  ASSUME LeaseInv, NEW L, Now(L), NEW p \in Nodes, NEW n \in Nodes, LoseMessage(p, n)
  PROVE  Kept
<1>1. PICK k \in [Nodes -> 0 .. MaxPending] : Overflow(n, [k EXCEPT ![p] = @ + 1])
  BY DEF LoseMessage
<1>2. [k EXCEPT ![p] = @ + 1] \in [Nodes -> Nat]
  BY RemoteControlAssumption
<1> QED
  BY <1>1, <1>2, OverflowKeeps DEF LoseMessage, counters

LEMMA StopKeeps ==
  ASSUME LeaseInv, NEW L, Now(L), NEW n \in Nodes, Stop(n)
  PROVE  Kept
<1> DEFINE b == [backend[n] EXCEPT !.lease = 0, !.queue = <<>>]
           r == [rt[n] EXCEPT !.revoked = rt[n].state # "Idle"]
           s == Append(strand[n], [kind |-> "stop"])
<1>1. PICK k \in [Nodes -> 0 .. MaxPending] : Revoke(n, k)
  BY DEF Stop, Arrivals
<1>2. k \in [Nodes -> Nat]
  BY RemoteControlAssumption
<1>3. b \in Backend /\ b.queue = <<>> /\ b.epoch = backend[n].epoch /\ b.paused = backend[n].paused
      /\ backend' = [backend EXCEPT ![n] = b]
  <2>1. <<>> \in Seq(InputRecords)
    BY EmptySeq
  <2>2. backend[n] \in Backend /\ backend \in [Nodes -> Backend]
    BY NowFacts
  <2>3. b \in Backend
    BY <2>1, <2>2 DEF Backend
  <2> QED
    BY <2>2, <2>3 DEF Stop, Backend
<1>4. Onward(backend[n], b) /\ Range(b.queue) \subseteq Range(backend[n].queue)
  BY <1>3, NowFacts, SameOnward, EmptyRange
<1>5. s \in Seq(Posts) /\ Range(s) = Range(strand[n]) \union {[kind |-> "stop"]}
  <2>1. [kind |-> "stop"] \in Posts
    BY DEF Posts
  <2> QED
    BY <2>1, NowFacts, AppendFacts, AppendProperties
<1>6. Changes(n, overflow[n], locals[n], r, b, s)
  <2>1. rt' = [rt EXCEPT ![n] = r]
    BY <1>1, <1>2, RevokeKeeps
  <2> HIDE DEF r, b
  <2> QED
    BY <1>3, <2>1, NowFacts DEF Stop, Act, Changes
<1> HIDE DEF r, b, s
<1>7. /\ r \in Runtime /\ Role(L, ids, n, r, overflow[n])
      /\ Unnoticed(n, rt[n], r, backend[n], b, locals[n], locals[n], strand[n], s, net, net', L, ids)
  <2>1. /\ r \in Runtime /\ rt' = [rt EXCEPT ![n] = r]
        /\ \A o \in BOOLEAN : Role(L, ids, n, r, o)
        /\ \A d \in Backend : \A t :
              /\ Onward(backend[n], d) /\ Range(d.queue) \subseteq Range(backend[n].queue)
              /\ Range(t) \subseteq Range(strand[n]) \union [kind : {"stop"}]
              => Unnoticed(n, rt[n], r, backend[n], d, locals[n], locals[n], strand[n], t, net, net',
                           L, ids)
    BY <1>1, <1>2, RevokeKeeps DEF r
  <2>2. Range(s) \subseteq Range(strand[n]) \union [kind : {"stop"}]
    BY <1>5
  <2> QED
    BY <1>3, <1>4, <2>1, <2>2, NowFacts
<1> QED
  BY <1>3, <1>5, <1>6, <1>7, NowFacts, UnnoticedStep

LEMMA MakeInputKeeps ==
  ASSUME LeaseInv, NEW L, Now(L), NEW n \in Nodes, NEW key \in BOOLEAN, MakeInput(n, key)
  PROVE  Kept
<1> DEFINE i == [grant |-> rt[n].grant, epoch |-> rt[n].epoch, key |-> key,
                 local |-> locals[rt[n].peer], focus |-> rt[n].focus]
<1>0. UNCHANGED <<backend, locals, ids, faulty>>
  BY DEF MakeInput, Act
<1>1. CASE /\ strand' = [strand EXCEPT ![n] = Append(@, [kind |-> "input", in |-> i])]
           /\ UNCHANGED <<rt, overflow, net>>
  <2>1. rt[n] \in Runtime /\ rt[n].peer \in Nodes /\ locals[rt[n].peer] \in Nat
    BY NowFacts DEF MakeInput, Safe
  <2>2. i \in InputRecords
    BY <2>1 DEF InputRecords, Runtime
  <2>3. rt[n].state = "Controlling" /\ ~rt[n].paused
    BY DEF MakeInput
  <2>4. i.grant = rt[n].grant /\ i.epoch = rt[n].epoch /\ i.focus = rt[n].focus
        /\ i.local = locals[rt[n].peer]
    OBVIOUS
  <2>5. Agreement(L, ids, overflow, locals, rt, backend, net, strand)
    BY DEF Now
  <2> DEFINE s == [strand EXCEPT ![n] = Append(@, [kind |-> "input", in |-> i])]
  <2>6. strand' = s
    BY <1>1
  <2>7. Agreement(L, ids, overflow, locals, rt, backend, net, s)
    <3> HIDE DEF i
    <3> QED
      BY <2>2, <2>3, <2>4, <2>5, MakeKeeps
  <2> HIDE DEF s
  <2>8. Agreement(L, ids', overflow', locals', rt', backend', net', strand') /\ faulty' = faulty
    BY <1>0, <1>1, <2>6, <2>7
  <2> QED
    BY <2>8, NowKept
<1>2. CASE \E k \in [Nodes -> 0 .. MaxPending] : Overflows(n, k) /\ Overflow(n, k)
  <2>1. PICK k \in [Nodes -> 0 .. MaxPending] : Overflow(n, k)
    BY <1>2
  <2>2. k \in [Nodes -> Nat]
    BY RemoteControlAssumption
  <2> QED
    BY <1>0, <2>1, <2>2, OverflowKeeps
<1> QED
  BY <1>1, <1>2 DEF MakeInput

-----------------------------------------------------------------------------
(* Finishing, as an action.                                                *)

LEMMA FinishStep ==
  ASSUME NEW L, NEW I, NEW O, NEW A, NEW S, NEW n \in Nodes, NEW b \in Backend, NEW R, NEW B, NEW c,
         Agreement(L, I, O, A, R, B, c, S), NEW r, R = [rt EXCEPT ![n] = r], r \in Runtime,
         B = [backend EXCEPT ![n] = b],
         rt \in [Nodes -> Runtime], NEW notify, r.state # "Idle" \/ ~notify,
         Finish(c, n, r, b, notify), NEW o \in BOOLEAN
  PROVE  Agreement(L, I, [O EXCEPT ![n] = o], A, rt', backend', net', S) /\ faulty' = faulty
<1> DEFINE e == [b EXCEPT !.lease = 0, !.queue = <<>>]
<1>1. e \in Backend
  <2>1. <<>> \in Seq(InputRecords)
    BY EmptySeq
  <2> QED
    BY <2>1 DEF Backend
<1>2. R[n] = r /\ (r.state # "Idle" => r.peer \in Nodes \ {n})
  BY DEF Agreement, Parts, Role
<1>3. Farewell(n, R[n], c, net')
  BY <1>2 DEF Farewell, Finish, Link
<1>4. [R EXCEPT ![n] = IdleRuntime] = rt' /\ [B EXCEPT ![n] = e] = backend' /\ faulty' = faulty
  BY DEF Finish
<1> HIDE DEF e
<1>5. Agreement(L, I, [O EXCEPT ![n] = o], A, [R EXCEPT ![n] = IdleRuntime], [B EXCEPT ![n] = e], net', S)
  BY <1>1, <1>3, FinishKeeps
<1> QED
  BY <1>4, <1>5

(* n finishes its session before a message of p has been read; then it     *)
(* passes the message over.                                                *)
LEMMA FinishPopped ==
  ASSUME LeaseInv, NEW L, Now(L), NEW n \in Nodes, NEW p \in Nodes, p # n, net[<<p, n>>] # <<>>,
         rt[n].peer \in Nodes \ {n}, NEW notify, Finish(Popped(p, n), n, rt[n], backend[n], notify)
  PROVE  Agreement(L, ids, overflow, locals, rt', backend', net', strand) /\ faulty' = faulty
<1> DEFINE h == rt[n].peer
           W == [net EXCEPT ![<<n, h>>] = @ \o Wire(rt[n], Say("End", None))]
           e == [backend[n] EXCEPT !.lease = 0, !.queue = <<>>]
           R == [rt EXCEPT ![n] = IdleRuntime]
           B == [backend EXCEPT ![n] = e]
<1>1. /\ Agreement(L, ids, overflow, locals, rt, backend, net, strand)
      /\ overflow = [overflow EXCEPT ![n] = overflow[n]] /\ overflow[n] \in BOOLEAN
      /\ net \in Channels /\ rt \in [Nodes -> Runtime] /\ h \in Nodes \ {n}
      /\ <<p, n>> \in Nodes \X Nodes /\ <<n, h>> \in Nodes \X Nodes /\ <<p, n>> # <<n, h>>
  BY NowFacts DEF Now, Role
<1>2. e \in Backend
  <2>1. <<>> \in Seq(InputRecords) /\ backend[n] \in Backend
    BY EmptySeq, NowFacts
  <2> QED
    BY <2>1 DEF Backend
<1>3. rt' = R /\ backend' = B /\ faulty' = faulty
  BY DEF Finish
<1> HIDE DEF e
<1>4. ASSUME NEW V, Farewell(n, rt[n], net, V),
             V[<<p, n>>] = net[<<p, n>>]
      PROVE  Agreement(L, ids, overflow, locals, R, B, [V EXCEPT ![<<p, n>>] = Tail(@)], strand)
  <2>1. Agreement(L, ids, [overflow EXCEPT ![n] = overflow[n]], locals, R, B, V, strand)
    BY <1>1, <1>2, <1>4, FinishKeeps
  <2>2. Agreement(L, ids, overflow, locals, R, B, V, strand)
    BY <1>1, <2>1
  <2>3. R[n] = IdleRuntime
    BY <1>1
  <2>4. Passed(p, R[n], Head(V[<<p, n>>]))
    BY <2>3 DEF Passed, IdleRuntime
  <2> HIDE DEF R, B
  <2> QED
    BY <1>4, <2>2, <2>4, PassKeeps
<1>5. CASE net' = Popped(p, n)
  <2>1. Farewell(n, rt[n], net, net)
    BY DEF Farewell
  <2>2. Agreement(L, ids, overflow, locals, R, B, [net EXCEPT ![<<p, n>>] = Tail(@)], strand)
    BY <1>4, <2>1
  <2> QED
    BY <1>3, <1>5, <2>2 DEF Popped
<1>6. CASE Link(Popped(p, n), n, rt[n], Say("End", None))
  <2>1. Farewell(n, rt[n], net, W)
    BY DEF Farewell
  <2>2. W[<<p, n>>] = net[<<p, n>>]
    BY <1>1 DEF Channels
  <2>3. [W EXCEPT ![<<p, n>>] = Tail(@)]
          = [Popped(p, n) EXCEPT ![<<n, h>>] = @ \o Wire(rt[n], Say("End", None))]
    BY <1>1 DEF Channels, Popped
  <2>4. net' = [W EXCEPT ![<<p, n>>] = Tail(@)]
    BY <1>6, <2>3 DEF Link
  <2> HIDE DEF W
  <2>5. Agreement(L, ids, overflow, locals, R, B, [W EXCEPT ![<<p, n>>] = Tail(@)], strand)
    BY <1>4, <2>1, <2>2
  <2> QED
    BY <1>3, <2>4, <2>5
<1> QED
  BY <1>5, <1>6 DEF Finish

(* Posts that are dropped, or done with.                                   *)
LEMMA DropKeeps ==
  ASSUME NEW L, NEW I, NEW O, NEW A, NEW R, NEW B, NEW W, NEW S,
         Agreement(L, I, O, A, R, B, W, S),
         NEW n \in Nodes, NEW t \in Seq(Posts), Range(t) \subseteq Range(S[n])
  PROVE  Agreement(L, I, O, A, R, B, W, [S EXCEPT ![n] = t])
<1>1. /\ O[n] \in BOOLEAN /\ A[n] \in Nat /\ R[n] \in Runtime /\ B[n] \in Backend
      /\ W \in Channels /\ Role(L, I, n, R[n], O[n])
      /\ O = [O EXCEPT ![n] = O[n]] /\ A = [A EXCEPT ![n] = A[n]] /\ R = [R EXCEPT ![n] = R[n]]
      /\ B = [B EXCEPT ![n] = B[n]]
  BY DEF Agreement, Values, Parts
<1>2. Unnoticed(n, R[n], R[n], B[n], B[n], A[n], A[n], S[n], t, W, W, L, I)
  BY <1>1, SameOnward, NothingLost, NotShortened DEF Unnoticed
<1>3. Agreement(L, I, [O EXCEPT ![n] = O[n]], [A EXCEPT ![n] = A[n]], [R EXCEPT ![n] = R[n]],
                [B EXCEPT ![n] = B[n]], W, [S EXCEPT ![n] = t])
  BY <1>1, <1>2, UnnoticedKeeps
<1> QED
  BY <1>1, <1>3

(* A handler that has done its work with the posts that are left.          *)
LEMMA DoneKeeps ==
  ASSUME LeaseInv, NEW L, Now(L), NEW n \in Nodes, NEW t \in Seq(Posts), Range(t) \subseteq Range(strand[n]),
         strand' = [strand EXCEPT ![n] = t], UNCHANGED <<overflow, locals, ids>>,
         Agreement(L, ids, overflow, locals, rt', backend', net', strand), faulty' = faulty
  PROVE  Kept
<1>1. Agreement(L, ids, overflow, locals, rt', backend', net', [strand EXCEPT ![n] = t])
  BY DropKeeps
<1> QED
  BY <1>1, NowKept

LEMMA RunsKeeps ==
  ASSUME LeaseInv, NEW L, Now(L), NEW n \in Nodes, NEW kind, Runs(n, kind),
         Agreement(L, ids, overflow, locals, rt', backend', net', strand), faulty' = faulty
  PROVE  Kept
<1>1. strand[n] \in Seq(Posts) /\ strand[n] # <<>>
  BY NowFacts DEF Runs
<1>2. Tail(strand[n]) \in Seq(Posts) /\ Range(Tail(strand[n])) \subseteq Range(strand[n])
  BY <1>1, HeadTailProperties, TailFacts
<1>3. strand' = [strand EXCEPT ![n] = Tail(strand[n])] /\ UNCHANGED <<overflow, locals, ids>>
  BY DEF Runs, counters
<1> QED
  BY <1>2, <1>3, DoneKeeps

(* A session that n finishes.                                              *)
LEMMA FinishNow ==
  ASSUME LeaseInv, NEW L, Now(L), NEW n \in Nodes, rt[n].state # "Idle", NEW notify,
         Finish(net, n, rt[n], backend[n], notify), NEW o \in BOOLEAN
  PROVE  /\ Agreement(L, ids, overflow, locals, rt', backend', net', strand)
         /\ Agreement(L, ids, [overflow EXCEPT ![n] = o], locals, rt', backend', net', strand)
         /\ faulty' = faulty
<1>1. /\ Agreement(L, ids, overflow, locals, rt, backend, net, strand)
      /\ rt = [rt EXCEPT ![n] = rt[n]] /\ backend = [backend EXCEPT ![n] = backend[n]]
      /\ rt[n] \in Runtime /\ backend[n] \in Backend /\ rt \in [Nodes -> Runtime]
      /\ overflow[n] \in BOOLEAN /\ overflow = [overflow EXCEPT ![n] = overflow[n]]
  BY NowFacts DEF Now
<1>2. \A v \in BOOLEAN : /\ Agreement(L, ids, [overflow EXCEPT ![n] = v], locals, rt', backend', net', strand)
                         /\ faulty' = faulty
  BY <1>1, FinishStep
<1> QED
  BY <1>1, <1>2

LEMMA StopRuntimeKeeps ==
  ASSUME LeaseInv, NEW L, Now(L), NEW n \in Nodes, StopRuntime(n)
  PROVE  Kept
<1>1. Runs(n, "stop")
  BY DEF StopRuntime
<1>2. CASE rt[n].state = "Idle"
  <2>1. Agreement(L, ids, overflow, locals, rt', backend', net', strand) /\ faulty' = faulty
    BY <1>2 DEF StopRuntime, Ignore, Now
  <2> QED
    BY <1>1, <2>1, RunsKeeps
<1>3. CASE rt[n].state # "Idle"
  <2>1. Finish(net, n, rt[n], backend[n], TRUE)
    BY <1>3 DEF StopRuntime
  <2> QED
    BY <1>1, <1>3, <2>1, FinishNow, RunsKeeps
<1> QED
  BY <1>2, <1>3

(* A handler whose Runtime has not noticed anything, saying one thing.     *)
LEMMA SayNow ==
  ASSUME LeaseInv, NEW L, Now(L), NEW n \in Nodes,
         NEW r \in Runtime, r.peer = rt[n].peer, r.req = rt[n].req, r.grant = rt[n].grant,
         NEW kind \in MessageKinds, NEW body \in Bodies, Fitting(kind, body, r.grant),
         Numbered(kind), NEW t, t = [r EXCEPT !.tx = @ + 1], Role(L, ids, n, t, overflow[n]),
         Spoken(rt[n], t, backend[n], Unsent(strand[n], rt[n].grant), Told(r, kind, body, 1)),
         Transmit(net, n, r, backend[n], Say(kind, body))
  PROVE  Agreement(L, ids, overflow, locals, rt', backend', net', strand) /\ faulty' = faulty
<1>1. /\ Agreement(L, ids, overflow, locals, rt, backend, net, strand)
      /\ rt = [rt EXCEPT ![n] = rt[n]] /\ backend = [backend EXCEPT ![n] = backend[n]]
      /\ rt[n] \in Runtime /\ backend[n] \in Backend
      /\ rt \in [Nodes -> Runtime] /\ backend \in [Nodes -> Backend]
  BY NowFacts DEF Now
<1> QED
  BY <1>1, TransmitKeeps

LEMMA InputKeeps ==
  ASSUME LeaseInv, NEW L, Now(L), NEW n \in Nodes, Input(n)
  PROVE  Kept
<1> DEFINE i == Head(strand[n]).in
           t == [rt[n] EXCEPT !.tx = @ + 1]
<1>1. Runs(n, "input") /\ Head(strand[n]) \in Posts /\ Head(strand[n]).kind = "input"
  BY RunsPost DEF Input
<1>2. i \in InputRecords
  BY <1>1 DEF Posts
<1>3. CASE Ignore(net)
  <2>1. Agreement(L, ids, overflow, locals, rt', backend', net', strand) /\ faulty' = faulty
    BY <1>3 DEF Ignore, Now
  <2> QED
    BY <1>1, <2>1, RunsKeeps
<1>4. CASE rt[n].state = "Controlling" /\ Lapsed(net, n)
  <2>1. rt[n].state # "Idle" /\ Finish(net, n, rt[n], backend[n], TRUE)
    BY <1>4 DEF Lapsed
  <2> QED
    BY <1>1, <2>1, FinishNow, RunsKeeps
<1>5. CASE /\ rt[n].state = "Controlling" /\ i.grant = rt[n].grant
           /\ Transmit(net, n, rt[n], backend[n], Say("Input", i))
  <2> DEFINE m == Told(rt[n], "Input", i, 1)
  <2>1. rt[n] \in Runtime /\ Role(L, ids, n, rt[n], overflow[n]) /\ strand[n] \in Seq(Posts)
    BY NowFacts
  <2>2. rt[n].tx + 1 \in Nat /\ rt[n].tx + 1 >= 1
    BY <2>1 DEF Runtime
  <2>3. t \in Runtime
    BY <2>1, <2>2 DEF Runtime
  <2>4. Role(L, ids, n, t, overflow[n])
    BY <1>5, <2>1, <2>2, <2>3 DEF Role, Runtime
  <2>5. "Input" \in MessageKinds /\ i \in Bodies /\ Fitting("Input", i, rt[n].grant) /\ Numbered("Input")
    BY <1>2, <1>5 DEF MessageKinds, Bodies, Fitting, OfGrant, Numbered
  <2>6. <<>> \in Seq(Messages)
    BY EmptySeq
  <2>7. m \in Messages
    BY <2>1, <2>5, <2>6, WireOne
  <2>8. Head(strand[n]) \in Range(strand[n])
    BY <1>1, <2>1, TailFacts DEF Runs
  <2>9. i \in Unsent(strand[n], rt[n].grant)
    BY <1>1, <1>5, <2>8 DEF Unsent
  <2>10. GuestWord(rt[n], t, Unsent(strand[n], rt[n].grant), m)
    <3>1. m.kind = "Input" /\ m.grant = rt[n].grant /\ m.req = rt[n].req /\ m.seq = rt[n].tx + 1
          /\ m.body = i
      BY <2>5 DEF Told
    <3>2. rt[n].tx # 0
      BY <1>5, <2>1 DEF Role
    <3> HIDE DEF m
    <3> QED
      BY <1>5, <2>1, <2>2, <2>3, <2>7, <2>9, <3>1, <3>2 DEF GuestWord, Word, Upward, Refocus, Runtime
  <2>11. Spoken(rt[n], t, backend[n], Unsent(strand[n], rt[n].grant), m)
    BY <2>10 DEF Spoken
  <2>12. Agreement(L, ids, overflow, locals, rt', backend', net', strand) /\ faulty' = faulty
    <3> HIDE DEF i
    <3> QED
      BY <1>5, <2>1, <2>4, <2>5, <2>11, SayNow
  <2> QED
    BY <1>1, <2>12, RunsKeeps
<1> QED
  BY <1>3, <1>4, <1>5 DEF Input

-----------------------------------------------------------------------------
(* The UI thread's requests.                                               *)

LEMMA ActivateKeeps ==
  ASSUME LeaseInv, NEW L, Now(L), NEW n \in Nodes, Activate(n)
  PROVE  Kept
<1> DEFINE r == [rt[n] EXCEPT !.state = "Controlling", !.ping = FALSE]
           t == [r EXCEPT !.tx = @ + 1]
           m == Told(r, "Ready", None, 1)
<1>1. /\ rt[n].state = "AwaitingActivation" /\ UNCHANGED <<strand, overflow, locals, ids>>
      /\ rt[n] \in Runtime /\ Role(L, ids, n, rt[n], overflow[n])
  BY NowFacts DEF Activate, counters
<1>2. CASE ~Current(n)
  <2>1. rt[n].state # "Idle" /\ Finish(net, n, rt[n], backend[n], TRUE)
    BY <1>1, <1>2 DEF Activate, Lapsed
  <2>2. Agreement(L, ids, overflow, locals, rt', backend', net', strand) /\ faulty' = faulty
    BY <2>1, FinishNow
  <2> QED
    BY <1>1, <2>2, NowKept
<1>3. CASE Current(n)
  <2>1. Transmit(net, n, r, backend[n], Say("Ready", None))
    BY <1>3 DEF Activate
  <2>2. "Controlling" \in States
    BY DEF States
  <2>3. r \in Runtime /\ r.peer = rt[n].peer /\ r.req = rt[n].req /\ r.grant = rt[n].grant
    BY <1>1, <2>2 DEF Runtime
  <2>4. rt[n].tx = 0 /\ r.tx = 0 /\ r.tx + 1 = 1
    BY <1>1 DEF Role, Runtime
  <2>5. t \in Runtime
    <3>1. 1 \in Nat /\ \A x \in Nat : [r EXCEPT !.tx = x] \in Runtime
      BY <2>3 DEF Runtime
    <3>2. t = [r EXCEPT !.tx = 1]
      BY <2>4
    <3> QED
      BY <3>1, <3>2
  <2>6. Role(L, ids, n, t, overflow[n])
    BY <1>1, <2>3, <2>4, <2>5 DEF Role, Runtime
  <2>7. "Ready" \in MessageKinds /\ None \in Bodies /\ Fitting("Ready", None, r.grant) /\ Numbered("Ready")
    BY DEF MessageKinds, Bodies, Fitting, Numbered
  <2>8. <<>> \in Seq(Messages)
    BY EmptySeq
  <2>9. m \in Messages
    BY <2>3, <2>7, <2>8, WireOne
  <2>10. GuestWord(rt[n], t, Unsent(strand[n], rt[n].grant), m)
    <3>1. m.kind = "Ready" /\ m.grant = rt[n].grant /\ m.req = rt[n].req /\ m.seq = r.tx + 1
      BY <2>3, <2>7 DEF Told
    <3> HIDE DEF m
    <3> QED
      BY <1>1, <2>3, <2>4, <2>5, <2>9, <3>1 DEF GuestWord, Word, Upward, Refocus, Runtime
  <2>11. Spoken(rt[n], t, backend[n], Unsent(strand[n], rt[n].grant), m)
    BY <2>10 DEF Spoken
  <2> HIDE DEF r
  <2>12. Agreement(L, ids, overflow, locals, rt', backend', net', strand) /\ faulty' = faulty
    BY <2>1, <2>3, <2>6, <2>7, <2>11, SayNow
  <2> QED
    BY <1>1, <2>12, NowKept
<1> QED
  BY <1>2, <1>3

LEMMA PauseKeeps ==
  ASSUME LeaseInv, NEW L, Now(L), NEW n \in Nodes, Pause(n)
  PROVE  Kept
<1> DEFINE r == [rt[n] EXCEPT !.pausedHere = ~@, !.paused = TRUE, !.focus = @ + 1]
           kind == IF r.pausedHere THEN "Pause" ELSE "Resume"
           t == [r EXCEPT !.tx = @ + 1]
           m == Told(r, kind, r.focus, 1)
<1>1. /\ rt[n].state = "Controlling" /\ UNCHANGED <<overflow, locals, ids>>
      /\ strand' = [strand EXCEPT ![n] = <<>>]
      /\ rt[n] \in Runtime /\ Role(L, ids, n, rt[n], overflow[n])
      /\ <<>> \in Seq(Posts) /\ Range(<<>>) \subseteq Range(strand[n])
  BY NowFacts, EmptySeq, EmptyRange DEF Pause, Act
<1>2. CASE ~Current(n)
  <2>1. rt[n].state # "Idle" /\ Finish(net, n, rt[n], backend[n], TRUE)
    BY <1>1, <1>2 DEF Pause, Lapsed
  <2>2. Agreement(L, ids, overflow, locals, rt', backend', net', strand) /\ faulty' = faulty
    BY <2>1, FinishNow
  <2> QED
    BY <1>1, <2>2, DoneKeeps
<1>3. CASE Current(n)
  <2>1. Transmit(net, n, r, backend[n], Say(kind, r.focus))
    BY <1>3 DEF Pause
  <2>2. (~rt[n].pausedHere) \in BOOLEAN /\ rt[n].focus + 1 \in Nat /\ rt[n].tx + 1 \in Nat
        /\ rt[n].tx + 1 >= 1
    BY <1>1 DEF Runtime
  <2>3. \A v \in BOOLEAN, f \in Nat, x \in Nat :
          /\ [rt[n] EXCEPT !.pausedHere = v, !.paused = TRUE, !.focus = f] \in Runtime
          /\ [[rt[n] EXCEPT !.pausedHere = v, !.paused = TRUE, !.focus = f] EXCEPT !.tx = x] \in Runtime
    BY <1>1 DEF Runtime
  <2>4. r \in Runtime /\ r.peer = rt[n].peer /\ r.req = rt[n].req /\ r.grant = rt[n].grant
        /\ r.tx = rt[n].tx /\ r.focus = rt[n].focus + 1 /\ r.state = "Controlling"
    <3>1. r \in Runtime
      BY <2>2, <2>3
    <3> QED
      BY <1>1, <3>1 DEF Runtime
  <2>5. t \in Runtime
    <3>1. t = [r EXCEPT !.tx = rt[n].tx + 1]
      BY <2>4
    <3> QED
      BY <2>2, <2>3, <3>1
  <2>6. /\ t.state = "Controlling" /\ t.tx = rt[n].tx + 1 /\ t.peer = rt[n].peer /\ t.req = rt[n].req
        /\ t.grant = rt[n].grant /\ t.focus = rt[n].focus + 1 /\ t.paused /\ t.rx = rt[n].rx
        /\ t.epoch = rt[n].epoch /\ t.revoked = rt[n].revoked /\ t.starting = rt[n].starting
    BY <1>1, <2>2 DEF Runtime
  <2> HIDE DEF t
  <2>7. Role(L, ids, n, t, overflow[n])
    BY <1>1, <2>2, <2>6 DEF Role
  <2>8. r.focus \in Nat
    BY <2>2, <2>4
  <2>9. /\ kind \in MessageKinds /\ r.focus \in Bodies /\ Fitting(kind, r.focus, r.grant)
        /\ Numbered(kind) /\ kind \in Refocus /\ kind \in Upward /\ kind # "Ready" /\ kind # "Input"
    BY <2>8 DEF MessageKinds, Bodies, Fitting, Numbered, Refocus, Upward
  <2>10. <<>> \in Seq(Messages)
    BY EmptySeq
  <2> HIDE DEF kind
  <2>11. m \in Messages
    BY <2>4, <2>9, <2>10, WireOne
  <2>12. GuestWord(rt[n], t, Unsent(strand[n], rt[n].grant), m)
    <3>1. m.kind = kind /\ m.grant = rt[n].grant /\ m.req = rt[n].req /\ m.seq = rt[n].tx + 1
          /\ m.body = rt[n].focus + 1
      BY <2>4, <2>9 DEF Told
    <3>2. rt[n].tx # 0
      BY <1>1 DEF Role, Runtime
    <3> HIDE DEF m
    <3> QED
      BY <1>1, <2>6, <2>9, <2>11, <3>1, <3>2 DEF GuestWord, Word
  <2>13. Spoken(rt[n], t, backend[n], Unsent(strand[n], rt[n].grant), m)
    BY <2>12 DEF Spoken
  <2>14. t = [r EXCEPT !.tx = @ + 1]
    BY DEF t
  <2> HIDE DEF r
  <2>15. Agreement(L, ids, overflow, locals, rt', backend', net', strand) /\ faulty' = faulty
    BY <2>1, <2>4, <2>7, <2>8, <2>9, <2>13, <2>14, SayNow
  <2> QED
    BY <1>1, <2>15, DoneKeeps
<1> QED
  BY <1>2, <1>3

(* n asks: a new id, and no session yet.                                   *)
LEMMA RequestKeeps ==
  ASSUME LeaseInv, NEW L, Now(L), NEW n \in Nodes, NEW p \in Nodes, Request(n, p)
  PROVE  Kept
<1> DEFINE d == [host |-> p, guest |-> n, req |-> 0]
           K == [i \in 1 .. ids + 1 |-> IF i = ids + 1 THEN d ELSE L[i]]
           r == [IdleRuntime EXCEPT !.state = "Requesting", !.peer = p, !.req = ids + 1]
           m == Told(r, "Request", None, 1)
           R == [rt EXCEPT ![n] = r]
<1>1. /\ p # n /\ ~overflow[n] /\ ids' = ids + 1
      /\ Transmit(net, n, r, backend[n], Say("Request", None))
      /\ UNCHANGED <<strand, overflow, locals>>
  BY DEF Request
<1>2. /\ Agreement(L, ids, overflow, locals, rt, backend, net, strand)
      /\ overflow[n] \in BOOLEAN /\ overflow = [overflow EXCEPT ![n] = overflow[n]]
      /\ backend[n] \in Backend /\ backend = [backend EXCEPT ![n] = backend[n]]
      /\ net \in Channels /\ ids \in Nat /\ ids + 1 \in Nat /\ rt \in [Nodes -> Runtime]
  BY NowFacts DEF Now
<1>3. d \in Deals /\ d.host # d.guest /\ d.req = 0 /\ d.req <= ids
  BY <1>1, <1>2 DEF Deals
<1>4. /\ Agreement(K, ids + 1, overflow, locals, rt, backend, net, strand) /\ K[ids + 1] = d
      /\ \A i \in 1 .. ids : K[i] = L[i]
  <2> HIDE DEF d
  <2> QED
    BY <1>2, <1>3, NewDeal
<1>5. \A g \in 1 .. ids + 1 : K[g].req <= ids /\ K[g].req \in Nat
  <2>1. \A g \in 1 .. ids : K[g].req <= ids /\ K[g].req \in Nat
    BY <1>2, <1>4 DEF Agreement, Values, Deals
  <2>2. \A g \in 1 .. ids + 1 : g \in 1 .. ids \/ g = ids + 1
    BY <1>2
  <2> QED
    BY <1>3, <1>4, <2>1, <2>2
<1>6. /\ r \in Runtime /\ r.state = "Requesting" /\ r.req = ids + 1 /\ r.peer = p /\ r.grant = 0
      /\ r.tx = 0 /\ r.rx = 0 /\ r.focus = 0 /\ r.epoch = 0 /\ r.paused /\ ~r.starting
  BY <1>2, FreshRecords DEF IdleRuntime, Runtime, States
<1> HIDE DEF K, r, d
<1>7. Role(K, ids + 1, n, r, overflow[n])
  BY <1>1, <1>2, <1>6 DEF Role
<1>8. \A g \in 1 .. ids + 1 : ~Awaits(r, K[g])
  BY <1>2, <1>5, <1>6 DEF Awaits
<1>9. Agreement(K, ids + 1, overflow, locals, R, backend, net, strand)
  <2>1. Agreement(K, ids + 1, [overflow EXCEPT ![n] = overflow[n]], locals, [rt EXCEPT ![n] = r],
                  [backend EXCEPT ![n] = backend[n]], net, strand)
    BY <1>2, <1>4, <1>6, <1>7, <1>8, UnsettledKeeps
  <2> QED
    BY <1>2, <2>1
<1>10. CASE Finish(net, n, r, backend[n], FALSE)
  <2>1. /\ Agreement(K, ids + 1, [overflow EXCEPT ![n] = overflow[n]], locals, rt', backend', net', strand)
        /\ faulty' = faulty
    <3>1. /\ backend[n] \in Backend /\ backend = [backend EXCEPT ![n] = backend[n]]
          /\ overflow[n] \in BOOLEAN /\ rt \in [Nodes -> Runtime]
          /\ R = [rt EXCEPT ![n] = r] /\ r \in Runtime
      BY <1>2, <1>6
    <3> HIDE DEF R
    <3> QED
      BY <1>9, <1>10, <3>1, FinishStep
  <2> QED
    BY <1>1, <1>2, <2>1, NowKept
<1>11. CASE ~Finish(net, n, r, backend[n], FALSE)
  <2> DEFINE out == Say("Request", None)
             V == [net EXCEPT ![<<n, p>>] = Append(@, m)]
  <2>1. /\ rt' = [rt EXCEPT ![n] = [r EXCEPT !.tx = @ + Counted(out)]]
        /\ backend' = [backend EXCEPT ![n] = backend[n]]
        /\ net' = [net EXCEPT ![<<n, r.peer>>] = @ \o Wire(r, out)]
        /\ UNCHANGED faulty
    BY <1>1, <1>11 DEF Transmit, Link, Counted
  <2>2. net[<<n, p>>] \in Seq(Messages)
    BY <1>2 DEF Channels
  <2>3. "Request" \in MessageKinds /\ None \in Bodies /\ Fitting("Request", None, r.grant)
        /\ ~Numbered("Request")
    BY DEF MessageKinds, Bodies, Fitting, Numbered
  <2>4. /\ m \in Messages
        /\ net[<<n, p>>] \o Wire(r, out) = Append(net[<<n, p>>], m)
        /\ Counted(out) = 0
    BY <1>6, <2>2, <2>3, WireOne
  <2>5. net' = V
    BY <1>6, <2>1, <2>4
  <2>6. rt' = R
    <3>1. [r EXCEPT !.tx = @ + 0] = r
      BY <1>6 DEF Runtime
    <3> QED
      BY <2>1, <2>4, <3>1
  <2>7. m.grant = 0 /\ m.req <= ids + 1 /\ m.kind \in {"Request", "End"}
    BY <1>2, <1>6 DEF Told
  <2> HIDE DEF m
  <2>8. Agreement(K, ids + 1, overflow, locals, R, backend, V, strand)
    BY <1>1, <1>9, <2>4, <2>7, LooseKeeps
  <2> HIDE DEF V, R
  <2>9. Agreement(K, ids', overflow', locals', rt', backend', net', strand')
    BY <1>1, <1>2, <2>1, <2>5, <2>6, <2>8
  <2> QED
    BY <2>1, <2>9, NowKept
<1> QED
  BY <1>10, <1>11

(* The host's user allows control: a new session.                          *)
LEMMA ConsentKeeps ==
  ASSUME LeaseInv, NEW L, Now(L), NEW n \in Nodes, NEW allow \in BOOLEAN, Consent(n, allow)
  PROVE  Kept
<1> DEFINE g == ids + 1
           q == rt[n]
           c == q.peer
           d == [host |-> n, guest |-> c, req |-> q.req]
           K == [i \in 1 .. ids + 1 |-> IF i = ids + 1 THEN d ELSE L[i]]
           r == [q EXCEPT !.state = "AwaitingReady", !.grant = g]
           m == Told(r, "Grant", None, 1)
           R == [rt EXCEPT ![n] = r]
<1>1. /\ q.state = "AwaitingConsent" /\ ~q.starting /\ UNCHANGED <<strand, overflow, locals>>
  BY DEF Consent, UiRuns
<1>2. /\ Agreement(L, ids, overflow, locals, rt, backend, net, strand)
      /\ overflow[n] \in BOOLEAN /\ overflow = [overflow EXCEPT ![n] = overflow[n]]
      /\ backend[n] \in Backend /\ backend = [backend EXCEPT ![n] = backend[n]]
      /\ net \in Channels /\ ids \in Nat /\ ids + 1 \in Nat /\ rt \in [Nodes -> Runtime]
      /\ q \in Runtime /\ Role(L, ids, n, q, overflow[n]) /\ Safe(q, backend[n], approved[n])
  BY NowFacts DEF Now
<1>3. CASE Finish(net, n, q, backend[n], TRUE) /\ UNCHANGED counters
  <2>1. Agreement(L, ids, overflow, locals, rt', backend', net', strand) /\ faulty' = faulty
    BY <1>1, <1>3, FinishNow
  <2> QED
    BY <1>1, <1>3, <2>1, NowKept DEF counters
<1>4. CASE Transmit(net, n, r, backend[n], Say("Grant", None)) /\ ids' = ids + 1
  <2>1. c \in Nodes /\ c # n /\ q.req \in Nat /\ q.req <= ids /\ q.tx = 0 /\ q.rx = 0 /\ q.focus = 0
    BY <1>1, <1>2 DEF Role, Runtime
  <2>2. d \in Deals /\ d.host # d.guest /\ d.req <= ids
    BY <2>1 DEF Deals
  <2>3. /\ Agreement(K, g, overflow, locals, rt, backend, net, strand) /\ K[g] = d
        /\ Unused(rt, net, strand, g)
    <3> HIDE DEF d
    <3> QED
      BY <1>2, <2>2, NewDeal
  <2>4. g \in 1 .. g /\ g \in Nat /\ g # 0
    BY <1>2
  <2>5. Queued(backend[n], g) = {}
    <3>1. backend[n].lease = 0
      BY <1>1, <1>2 DEF Safe
    <3>2. backend[n].queue \in Seq(OfGrant(0))
      BY <1>2, <3>1 DEF Safe
    <3>3. Range(backend[n].queue) \subseteq OfGrant(0)
      <4>1. DOMAIN backend[n].queue = 1 .. Len(backend[n].queue)
        BY <3>2, LenProperties
      <4>2. \A i \in 1 .. Len(backend[n].queue) : backend[n].queue[i] \in OfGrant(0)
        BY <3>2, ElementOfSeq
      <4> QED
        BY <4>1, <4>2 DEF Range
    <3> QED
      BY <2>4, <3>3 DEF Queued, OfGrant
  <2>6. "Grant" \in MessageKinds /\ None \in Bodies /\ Fitting("Grant", None, r.grant) /\ ~Numbered("Grant")
    BY DEF MessageKinds, Bodies, Fitting, Numbered
  <2>7. /\ r \in Runtime /\ r.peer = c /\ r.grant = g /\ r.req = q.req /\ r.tx = 0
        /\ r.state = "AwaitingReady"
    BY <1>2, <2>1, <2>4 DEF Runtime, States
  <2> DEFINE out == Say("Grant", None)
             V == [net EXCEPT ![<<n, c>>] = Append(@, m)]
  <2>8. net[<<n, c>>] \in Seq(Messages)
    BY <1>2, <2>1 DEF Channels
  <2>9. /\ m \in Messages
        /\ net[<<n, c>>] \o Wire(r, out) = Append(net[<<n, c>>], m)
        /\ Counted(out) = 0
    BY <2>6, <2>7, <2>8, WireOne
  <2>10. m.kind = "Grant" /\ m.grant = g /\ m.req = q.req
    BY <2>7 DEF Told
  <2>11. r = [rt[n] EXCEPT !.state = "AwaitingReady", !.grant = g]
    OBVIOUS
  <2>12. K[g] = [host |-> n, guest |-> c, req |-> rt[n].req]
    BY <2>3
  <2> HIDE DEF m, r, K, d, g, c
  <2>13. c = rt[n].peer
    BY DEF c
  <2>14. rt[n].state = "AwaitingConsent" /\ ~rt[n].starting
    BY <1>1
  <2>15. Agreement(K, g, overflow, locals, R, backend, V, strand)
    BY <2>3, <2>4, <2>5, <2>9, <2>10, <2>11, <2>12, <2>13, <2>14, GrantKeeps
  <2>16. CASE Finish(net, n, r, backend[n], FALSE)
    <3>1. IdleRuntime \in Runtime /\ IdleRuntime.grant = 0
      BY FreshRecords DEF IdleRuntime
    <3>2. Role(K, g, n, IdleRuntime, overflow[n]) /\ \A i \in 1 .. g : ~Awaits(IdleRuntime, K[i])
      BY <2>4 DEF Role, IdleRuntime, Awaits
    <3> DEFINE e == [backend[n] EXCEPT !.lease = 0, !.queue = <<>>]
    <3>3. e \in Backend
      <4>1. <<>> \in Seq(InputRecords)
        BY EmptySeq
      <4> QED
        BY <1>2, <4>1 DEF Backend
    <3>4. rt' = [rt EXCEPT ![n] = IdleRuntime] /\ backend' = [backend EXCEPT ![n] = e]
          /\ net' = net /\ faulty' = faulty
      BY <2>16 DEF Finish
    <3> HIDE DEF e
    <3>5. Agreement(K, g, [overflow EXCEPT ![n] = overflow[n]], locals, [rt EXCEPT ![n] = IdleRuntime],
                    [backend EXCEPT ![n] = e], net, strand)
      <4>1. overflow[n] \in BOOLEAN
        BY <1>2
      <4> QED
        BY <2>3, <3>1, <3>2, <3>3, <4>1, UnsettledKeeps
    <3>6. Agreement(K, ids', overflow', locals', rt', backend', net', strand')
      BY <1>1, <1>2, <1>4, <3>4, <3>5 DEF g
    <3> QED
      BY <3>4, <3>6, NowKept
  <2>17. CASE ~Finish(net, n, r, backend[n], FALSE)
    <3>1. /\ rt' = [rt EXCEPT ![n] = [r EXCEPT !.tx = @ + Counted(out)]]
          /\ backend' = [backend EXCEPT ![n] = backend[n]]
          /\ net' = [net EXCEPT ![<<n, r.peer>>] = @ \o Wire(r, out)]
          /\ UNCHANGED faulty
      BY <1>4, <2>17 DEF Transmit, Link, Counted
    <3>2. net' = V
      BY <2>7, <2>9, <3>1
    <3>3. rt' = R
      <4>1. [r EXCEPT !.tx = @ + 0] = r
        BY <2>7 DEF Runtime
      <4> QED
        BY <2>9, <3>1, <4>1
    <3> HIDE DEF V, R
    <3>4. Agreement(K, ids', overflow', locals', rt', backend', net', strand')
      BY <1>1, <1>2, <1>4, <2>15, <3>1, <3>2, <3>3 DEF g
    <3> QED
      BY <3>1, <3>4, NowKept
  <2> QED
    BY <2>16, <2>17
<1> QED
  BY <1>3, <1>4 DEF Consent, Lapsed

-----------------------------------------------------------------------------
(* The tick, and the second half of Ready.                                 *)

(* A Runtime that differs in what the protocol does not count; of its own  *)
(* input status only a host decides.                                       *)
Same(q, r) ==
  /\ r.grant = q.grant /\ r.tx = q.tx /\ r.rx = q.rx /\ r.focus = q.focus
  /\ r.req = q.req /\ r.peer = q.peer /\ r.state = q.state
  /\ r.revoked = q.revoked /\ r.starting = q.starting
  /\ r.state = "Controlled" \/ (r.epoch = q.epoch /\ r.paused = q.paused)

LEMMA SameKeeps ==
  ASSUME NEW L, NEW I, NEW O, NEW A, NEW R, NEW B, NEW W, NEW S,
         Agreement(L, I, O, A, R, B, W, S),
         NEW n \in Nodes, NEW r \in Runtime, Same(R[n], r)
  PROVE  Agreement(L, I, O, A, [R EXCEPT ![n] = r], B, W, S) /\ Role(L, I, n, r, O[n])
<1>1. /\ O[n] \in BOOLEAN /\ A[n] \in Nat /\ R[n] \in Runtime /\ B[n] \in Backend
      /\ S[n] \in Seq(Posts) /\ W \in Channels /\ Role(L, I, n, R[n], O[n])
      /\ O = [O EXCEPT ![n] = O[n]] /\ A = [A EXCEPT ![n] = A[n]] /\ S = [S EXCEPT ![n] = S[n]]
      /\ B = [B EXCEPT ![n] = B[n]] /\ \A g \in 1 .. I : L[g].host # L[g].guest
  BY DEF Agreement, Values, Parts
<1>2. Role(L, I, n, r, O[n])
  BY <1>1 DEF Role, Same
<1>3. r.state = "Controlled" => L[r.grant].guest # n
  BY <1>1, <1>2 DEF Role
<1>4. Unnoticed(n, R[n], r, B[n], B[n], A[n], A[n], S[n], S[n], W, W, L, I)
  BY <1>1, <1>3, SameOnward, NothingLost, NotShortened DEF Unnoticed, Same
<1>5. Agreement(L, I, [O EXCEPT ![n] = O[n]], [A EXCEPT ![n] = A[n]], [R EXCEPT ![n] = r],
                [B EXCEPT ![n] = B[n]], W, [S EXCEPT ![n] = S[n]])
  BY <1>1, <1>2, <1>4, UnnoticedKeeps
<1> QED
  BY <1>1, <1>2, <1>5

(* A host tells how things are.                                            *)
LEMMA ReportKeeps ==
  ASSUME NEW L, NEW I, NEW O, NEW A, NEW R, NEW B, NEW c, NEW S,
         NEW n \in Nodes, NEW r \in Runtime, NEW b \in Backend,
         R = [rt EXCEPT ![n] = r], B = [backend EXCEPT ![n] = b],
         Agreement(L, I, O, A, R, B, c, S), rt \in [Nodes -> Runtime], backend \in [Nodes -> Backend],
         r.state = "Controlled", Transmit(c, n, r, b, Report(r, b))
  PROVE  Agreement(L, I, O, A, rt', backend', net', S) /\ faulty' = faulty
<1> DEFINE body == [focus |-> r.focus, epoch |-> b.epoch, paused |-> b.paused]
           m == Told(r, "InputState", body, 1)
           t == [r EXCEPT !.tx = @ + 1]
<1>1. R[n] = r /\ Role(L, I, n, r, O[n])
  BY DEF Agreement, Parts
<1>2. Transmit(c, n, r, b, Say("InputState", body))
  BY DEF Report
<1>3. r.tx + 1 \in Nat
  BY DEF Runtime
<1>4. t \in Runtime
  BY <1>3 DEF Runtime
<1>5. Role(L, I, n, t, O[n])
  BY <1>1, <1>4 DEF Role, Runtime
<1>6. body \in Reports /\ body \in Bodies
  BY DEF Runtime, Backend, Reports, Bodies
<1>7. "InputState" \in MessageKinds /\ Numbered("InputState") /\ Fitting("InputState", body, r.grant)
  BY <1>6 DEF MessageKinds, Numbered, Fitting
<1>8. <<>> \in Seq(Messages)
  BY EmptySeq
<1>9. m \in Messages
  <2> HIDE DEF body
  <2> QED
    BY <1>6, <1>7, <1>8, WireOne
<1>10. HostWord(r, t, b, m)
  <2>1. m.kind = "InputState" /\ m.grant = r.grant /\ m.req = r.req /\ m.seq = r.tx + 1
        /\ m.body.epoch = b.epoch /\ m.body.focus = r.focus
    BY <1>7 DEF Told
  <2> HIDE DEF m
  <2> QED
    BY <1>3, <1>4, <1>9, <2>1 DEF HostWord, Word, Downward, Runtime
<1>11. Spoken(r, t, b, Unsent(S[n], r.grant), m)
  BY <1>10 DEF Spoken
<1> HIDE DEF body
<1> QED
  BY <1>2, <1>5, <1>6, <1>7, <1>11, TransmitKeeps

(* Either side asks whether the other is there.                            *)
LEMMA PingKeeps ==
  ASSUME NEW L, NEW I, NEW O, NEW A, NEW R, NEW B, NEW c, NEW S,
         NEW n \in Nodes, NEW r \in Runtime, NEW b \in Backend,
         R = [rt EXCEPT ![n] = r], B = [backend EXCEPT ![n] = b],
         Agreement(L, I, O, A, R, B, c, S), rt \in [Nodes -> Runtime], backend \in [Nodes -> Backend],
         r.state \in {"Controlled", "Controlling"},
         NEW kind, kind \in {"Ping", "Pong"}, Transmit(c, n, r, b, Say(kind, None))
  PROVE  Agreement(L, I, O, A, rt', backend', net', S) /\ faulty' = faulty
<1> DEFINE m == Told(r, kind, None, 1)
           t == [r EXCEPT !.tx = @ + 1]
<1>1. R[n] = r /\ Role(L, I, n, r, O[n])
  BY DEF Agreement, Parts
<1>3. r.tx + 1 \in Nat /\ r.tx + 1 >= 1
  BY DEF Runtime
<1>4. t \in Runtime
  BY <1>3 DEF Runtime
<1>5. Role(L, I, n, t, O[n])
  BY <1>1, <1>3, <1>4 DEF Role, Runtime
<1>7. kind \in MessageKinds /\ None \in Bodies /\ Numbered(kind) /\ Fitting(kind, None, r.grant)
  BY DEF MessageKinds, Numbered, Fitting, Bodies
<1>8. <<>> \in Seq(Messages)
  BY EmptySeq
<1>9. m \in Messages
  BY <1>7, <1>8, WireOne
<1>10. Spoken(r, t, b, Unsent(S[n], r.grant), m)
  <2>1. m.kind = kind /\ m.grant = r.grant /\ m.req = r.req /\ m.seq = r.tx + 1
    BY <1>7 DEF Told
  <2> HIDE DEF m
  <2>2. CASE r.state = "Controlled"
    BY <1>3, <1>4, <1>9, <2>1, <2>2 DEF Spoken, HostWord, Word, Downward, Runtime
  <2>3. CASE r.state = "Controlling"
    <3>1. r.tx # 0
      BY <1>1, <2>3 DEF Role, Runtime
    <3> QED
      BY <1>3, <1>4, <1>9, <2>1, <2>3, <3>1 DEF Spoken, GuestWord, Word, Upward, Refocus, Runtime
  <2> QED
    BY <2>2, <2>3
<1> QED
  BY <1>5, <1>7, <1>10, TransmitKeeps

LEMMA BeatKeeps ==
  ASSUME LeaseInv, NEW L, Now(L), NEW n \in Nodes, Established(n), Beat(n)
  PROVE  /\ Agreement(L, ids, overflow, locals, rt', backend', net', strand)
         /\ faulty' = faulty /\ ids' = ids
<1> DEFINE b == backend[n]
           q == rt[n]
           s == Status(q, b)
           news == Host(q) /\ <<b.epoch, b.paused>> # <<q.epoch, q.paused>>
           r == IF news THEN s ELSE q
           u == [r EXCEPT !.ping = TRUE]
           ping == Say("Ping", None)
<1>1. /\ Agreement(L, ids, overflow, locals, rt, backend, net, strand)
      /\ b \in Backend /\ q \in Runtime /\ backend = [backend EXCEPT ![n] = b]
      /\ rt \in [Nodes -> Runtime] /\ backend \in [Nodes -> Backend]
      /\ q.state \in {"Controlled", "Controlling"}
  BY NowFacts DEF Now, Established
<1>2. news => q.state = "Controlled"
  BY <1>1 DEF Host, HostStates
<1>3. s \in Runtime
  BY <1>1, StatusType DEF Backend
<1>4. q.state = "Controlled" => Same(q, s)
  BY <1>1 DEF Same, Status, Runtime
<1> HIDE DEF s, news
<1>5. r \in Runtime /\ Same(q, r)
  BY <1>1, <1>2, <1>3, <1>4 DEF Same
<1>6. u \in Runtime /\ Same(q, u) /\ u.state = q.state /\ u.focus = r.focus
  <2> HIDE DEF r
  <2> QED
    BY <1>5 DEF Same, Runtime
<1>7. r.state = q.state
  BY <1>5 DEF Same
<1> HIDE DEF r
<1>8. Agreement(L, ids, overflow, locals, [rt EXCEPT ![n] = r], backend, net, strand)
  BY <1>1, <1>5, SameKeeps
<1>9. Agreement(L, ids, overflow, locals, [rt EXCEPT ![n] = u], backend, net, strand)
  <2> HIDE DEF u
  <2> QED
    BY <1>1, <1>6, SameKeeps
<1>10. \/ news /\ Transmit(net, n, r, b, Report(r, b) \o <<>>) /\ UNCHANGED counters
       \/ /\ Act
          /\ Transmit(net, n, u, b, (IF news THEN Report(r, b) ELSE <<>>) \o ping)
  BY DEF Beat, r, s, news
<1>11. ids' = ids
  BY <1>10 DEF Act, counters
<1>12. CASE news /\ Transmit(net, n, r, b, Report(r, b) \o <<>>)
  <2>1. Report(r, b) \o <<>> = Report(r, b)
    BY <1>1, <1>5, ReportType, ConcatEmptySeq
  <2>2. r.state = "Controlled" /\ r \in Runtime
    BY <1>2, <1>5, <1>7, <1>12
  <2>3. Transmit(net, n, r, b, Report(r, b))
    BY <1>12, <2>1
  <2> HIDE DEF b, q, u, ping
  <2>4. Agreement(L, ids, overflow, locals, rt', backend', net', strand) /\ faulty' = faulty
    BY <1>1, <1>8, <2>2, <2>3, ReportKeeps
  <2> QED
    BY <1>11, <2>4
<1>13. CASE ~news /\ Transmit(net, n, u, b, <<>> \o ping)
  <2>1. ping \in Seq(Words(0))
    BY SayType DEF MessageKinds, Bodies, Fitting
  <2>2. <<>> \o ping = ping
    BY <2>1, ConcatEmptySeq
  <2> HIDE DEF u
  <2>3. u.state \in {"Controlled", "Controlling"}
    BY <1>1, <1>6
  <2>4. "Ping" \in {"Ping", "Pong"} /\ Transmit(net, n, u, b, Say("Ping", None))
    BY <1>13, <2>2
  <2>5. u \in Runtime
    BY <1>6
  <2> HIDE DEF b, ping
  <2>6. Agreement(L, ids, overflow, locals, rt', backend', net', strand) /\ faulty' = faulty
    BY <1>1, <1>9, <2>3, <2>4, <2>5, PingKeeps
  <2> QED
    BY <1>11, <2>6
<1>14. CASE news /\ Transmit(net, n, u, b, Report(r, b) \o ping)
  <2> HIDE DEF u
  <2>1. Report(u, b) = Report(r, b)
    BY <1>6 DEF Report
  <2>2. u.state = "Controlled"
    BY <1>2, <1>6, <1>14
  <2> QED
    BY <1>1, <1>6, <1>9, <1>11, <1>14, <2>1, <2>2, TransmitBothKeeps
<1> QED
  BY <1>10, <1>12, <1>13, <1>14

LEMMA TickKeeps ==
  ASSUME LeaseInv, NEW L, Now(L), NEW n \in Nodes, Tick(n)
  PROVE  Kept
<1>1. UNCHANGED <<strand, locals>>
  BY DEF Tick
<1>2. CASE overflow[n]
  <2>1. overflow' = [overflow EXCEPT ![n] = FALSE] /\ ids' = ids
    BY <1>2 DEF Tick, counters
  <2>2. CASE rt[n].state = "Idle"
    <3>1. UNCHANGED <<net, rt, backend, faulty>>
      BY <1>2, <2>2 DEF Tick, Ignore
    <3>2. /\ rt[n] \in Runtime /\ Role(L, ids, n, rt[n], overflow[n]) /\ FALSE \in BOOLEAN
          /\ backend[n] \in Backend
      BY NowFacts
    <3>3. Role(L, ids, n, rt[n], FALSE) /\ rt[n].grant = 0 /\ \A g \in 1 .. ids : ~Awaits(rt[n], L[g])
      BY <2>2, <3>2 DEF Role, Awaits
    <3>4. Agreement(L, ids, overflow, locals, rt, backend, net, strand)
      BY DEF Now
    <3>5. Agreement(L, ids, [overflow EXCEPT ![n] = FALSE], locals, [rt EXCEPT ![n] = rt[n]],
                    [backend EXCEPT ![n] = backend[n]], net, strand)
      BY <3>2, <3>3, <3>4, UnsettledKeeps
    <3>6. rt = [rt EXCEPT ![n] = rt[n]] /\ backend = [backend EXCEPT ![n] = backend[n]]
      BY NowFacts
    <3>7. Agreement(L, ids', overflow', locals', rt', backend', net', strand')
      BY <1>1, <2>1, <3>1, <3>5, <3>6
    <3> QED
      BY <3>1, <3>7, NowKept
  <2>3. CASE rt[n].state # "Idle"
    <3>1. Finish(net, n, rt[n], backend[n], TRUE)
      BY <1>2, <2>3 DEF Tick
    <3>2. /\ Agreement(L, ids, [overflow EXCEPT ![n] = FALSE], locals, rt', backend', net', strand)
          /\ faulty' = faulty
      BY <2>3, <3>1, FinishNow
    <3> QED
      BY <1>1, <2>1, <3>2, NowKept
  <2> QED
    BY <2>2, <2>3
<1>3. CASE ~overflow[n]
  <2>1. overflow' = overflow
    BY <1>3 DEF Tick
  <2>2. CASE rt[n].state # "Idle" /\ Lapsed(net, n) /\ UNCHANGED counters
    <3>1. Agreement(L, ids, overflow, locals, rt', backend', net', strand) /\ faulty' = faulty
      BY <2>2, FinishNow DEF Lapsed
    <3> QED
      BY <1>1, <2>1, <2>2, <3>1, NowKept DEF counters
  <2>3. CASE Established(n) /\ Beat(n)
    <3>1. Agreement(L, ids, overflow, locals, rt', backend', net', strand) /\ faulty' = faulty /\ ids' = ids
      BY <2>3, BeatKeeps
    <3> QED
      BY <1>1, <2>1, <3>1, NowKept
  <2> QED
    BY <1>3, <2>2, <2>3 DEF Tick
<1> QED
  BY <1>2, <1>3

LEMMA StartBackendKeeps ==
  ASSUME LeaseInv, NEW L, Now(L), NEW n \in Nodes, StartBackend(n)
  PROVE  Kept
<1> DEFINE q == rt[n]
           b == StartInput(backend[n], q.grant)
           p == [q EXCEPT !.starting = FALSE, !.state = "Controlled", !.ping = FALSE]
           r == Status(p, b)
           R == [rt EXCEPT ![n] = r]
           B == [backend EXCEPT ![n] = b]
<1>1. /\ q.starting /\ UNCHANGED <<strand, overflow, locals, ids>>
      /\ \/ Finish(net, n, q, backend[n], TRUE)
         \/ Transmit(net, n, r, b, Report(r, b))
  BY DEF StartBackend, counters
<1>2. /\ q \in Runtime /\ backend[n] \in Backend /\ q.state = "AwaitingReady"
      /\ Role(L, ids, n, q, overflow[n]) /\ q.grant \in Nat /\ rt \in [Nodes -> Runtime]
      /\ backend \in [Nodes -> Backend] /\ net \in Channels
  BY <1>1, NowFacts DEF Safe, Runtime
<1>3. CASE Finish(net, n, q, backend[n], TRUE)
  <2>1. Agreement(L, ids, overflow, locals, rt', backend', net', strand) /\ faulty' = faulty
    BY <1>2, <1>3, FinishNow
  <2> QED
    BY <1>1, <2>1, NowKept
<1>4. CASE Transmit(net, n, r, b, Report(r, b))
  <2>1. /\ b \in Backend /\ b.queue = <<>> /\ b.paused /\ Onward(backend[n], b)
    <3> DEFINE c == Suspend(backend[n])
    <3>1. c \in Backend /\ c.paused /\ Onward(backend[n], c)
      BY <1>2, SuspendType, SuspendOnward
    <3>2. b \in Backend /\ b.queue = <<>>
      BY <1>2, StartInputType
    <3>3. b.epoch = c.epoch /\ b.paused = c.paused
      BY <3>1 DEF StartInput, Backend
    <3> QED
      BY <3>1, <3>2, <3>3 DEF Onward
  <2> HIDE DEF b
  <2>2. p \in Runtime /\ p.state = "Controlled" /\ ~p.starting
    BY <1>2 DEF Runtime, States
  <2>3. /\ p.grant = q.grant /\ p.tx = q.tx /\ p.rx = q.rx /\ p.focus = q.focus /\ p.req = q.req
        /\ p.peer = q.peer /\ p.revoked = q.revoked
    BY <1>2 DEF Runtime
  <2> HIDE DEF p
  <2>4. /\ r \in Runtime /\ r.state = "Controlled" /\ ~r.starting
        /\ r.grant = q.grant /\ r.tx = q.tx /\ r.rx = q.rx /\ r.focus = q.focus /\ r.req = q.req
        /\ r.peer = q.peer /\ r.revoked = q.revoked
    <3>1. r \in Runtime
      BY <2>1, <2>2, StatusType DEF Backend
    <3> QED
      BY <2>2, <2>3, <3>1 DEF Status, Runtime
  <2> HIDE DEF r
  <2>5. Role(L, ids, n, r, overflow[n]) /\ L[r.grant].guest # n
    BY <1>1, <1>2, <2>4 DEF Role
  <2>6. Unnoticed(n, rt[n], r, backend[n], b, locals[n], locals[n], strand[n], strand[n], net, net, L, ids)
    BY <1>2, <2>1, <2>4, <2>5, EmptyRange, NothingLost, NotShortened DEF Unnoticed
  <2>7. Agreement(L, ids, [overflow EXCEPT ![n] = overflow[n]], [locals EXCEPT ![n] = locals[n]],
                  R, B, net, [strand EXCEPT ![n] = strand[n]])
    <3>1. Agreement(L, ids, overflow, locals, rt, backend, net, strand)
      BY DEF Now
    <3>2. overflow[n] \in BOOLEAN /\ locals[n] \in Nat /\ strand[n] \in Seq(Posts)
      BY NowFacts
    <3> QED
      BY <2>1, <2>4, <2>5, <2>6, <3>1, <3>2, UnnoticedKeeps
  <2>8. Agreement(L, ids, overflow, locals, R, B, net, strand)
    <3>1. /\ overflow = [overflow EXCEPT ![n] = overflow[n]] /\ locals = [locals EXCEPT ![n] = locals[n]]
          /\ strand = [strand EXCEPT ![n] = strand[n]]
      BY NowFacts
    <3> QED
      BY <2>7, <3>1
  <2>9. Agreement(L, ids, overflow, locals, rt', backend', net', strand) /\ faulty' = faulty
    BY <1>2, <1>4, <2>1, <2>4, <2>8, ReportKeeps
  <2> QED
    BY <1>1, <2>9, NowKept
<1> QED
  BY <1>1, <1>3, <1>4

-----------------------------------------------------------------------------
(* The messages of a peer.                                                 *)

LEMMA Received ==
  ASSUME LeaseInv, NEW L, Now(L), NEW p \in Nodes, NEW n \in Nodes, Receives(p, n)
  PROVE  /\ Agreement(L, ids, overflow, locals, rt, backend, net, strand)
         /\ Pops(net, p, n, Message(p, n), Popped(p, n))
         /\ Mail(L, ids, p, n, Message(p, n)) /\ Message(p, n) \in Messages /\ p # n
         /\ net[<<p, n>>] # <<>> /\ ~rt[n].starting /\ UNCHANGED <<strand, overflow, locals, ids>>
<1>1. Agreement(L, ids, overflow, locals, rt, backend, net, strand)
  BY DEF Now
<1>2. Pops(net, p, n, Message(p, n), Popped(p, n))
  BY DEF Receives, Pops, Message, Popped
<1>3. Leaves(L, ids, net, p, n, Message(p, n), Popped(p, n))
  BY <1>1, <1>2, Popping
<1> QED
  BY <1>1, <1>2, <1>3 DEF Leaves, Mail, Receives, counters

(* A handler that has dealt with the message.                              *)
LEMMA AnsweredKeeps ==
  ASSUME NEW L, UNCHANGED <<strand, overflow, locals, ids>>,
         Agreement(L, ids, overflow, locals, rt', backend', net', strand), faulty' = faulty
  PROVE  Kept
<1>1. Agreement(L, ids', overflow', locals', rt', backend', net', strand')
  OBVIOUS
<1> QED
  BY <1>1, NowKept

LEMMA IgnoredKeeps ==
  ASSUME LeaseInv, NEW L, Now(L), NEW p \in Nodes, NEW n \in Nodes, Receives(p, n),
         Ignore(Popped(p, n)), Passed(p, rt[n], Message(p, n))
  PROVE  Kept
<1>1. /\ Agreement(L, ids, overflow, locals, rt, backend, net, strand)
      /\ net[<<p, n>>] # <<>> /\ UNCHANGED <<strand, overflow, locals, ids>>
  BY Received
<1>2. Passed(p, rt[n], Head(net[<<p, n>>]))
  BY DEF Message
<1>3. Agreement(L, ids, overflow, locals, rt, backend, [net EXCEPT ![<<p, n>>] = Tail(@)], strand)
  BY <1>1, <1>2, PassKeeps
<1>4. Agreement(L, ids, overflow, locals, rt', backend', net', strand) /\ faulty' = faulty
  BY <1>3 DEF Ignore, Popped
<1> QED
  BY <1>1, <1>4, AnsweredKeeps

LEMMA ReceiveRequestKeeps ==
  ASSUME LeaseInv, NEW L, Now(L), NEW p \in Nodes, NEW n \in Nodes, ReceiveRequest(p, n)
  PROVE  Kept
<1> DEFINE m == Message(p, n)
           r == [IdleRuntime EXCEPT !.state = "AwaitingConsent", !.peer = p, !.req = m.req]
           V == [net EXCEPT ![<<p, n>>] = Tail(@)]
<1>1. Receives(p, n) /\ m.kind = "Request"
  BY DEF ReceiveRequest
<1>2. /\ Agreement(L, ids, overflow, locals, rt, backend, net, strand)
      /\ Mail(L, ids, p, n, m) /\ m \in Messages /\ p # n
      /\ net[<<p, n>>] # <<>> /\ UNCHANGED <<strand, overflow, locals, ids>>
  BY <1>1, Received
<1>3. m.grant = 0
  BY <1>1, <1>2 DEF Mail, Downward, Upward
<1>4. Passed(p, rt[n], m)
  BY <1>1, <1>3 DEF Passed
<1>5. CASE Ignore(Popped(p, n))
  BY <1>1, <1>4, <1>5, IgnoredKeeps
<1>6. CASE /\ ~overflow[n] /\ rt' = [rt EXCEPT ![n] = r]
           /\ net' = Popped(p, n) /\ UNCHANGED <<backend, faulty>>
  <2>1. Agreement(L, ids, overflow, locals, rt, backend, V, strand)
    BY <1>2, <1>4, PassKeeps DEF Message
  <2>2. r \in Runtime /\ r.grant = 0 /\ r.state = "AwaitingConsent"
    <3>1. m.req \in Nat
      BY <1>2 DEF Messages
    <3> HIDE DEF m
    <3> QED
      BY <3>1, FreshRecords DEF IdleRuntime, Runtime, States
  <2>3. Role(L, ids, n, r, FALSE)
    <3>1. m.req <= ids
      BY <1>2 DEF Mail
    <3> HIDE DEF m
    <3> QED
      BY <1>2, <3>1 DEF Role, IdleRuntime
  <2>4. \A g \in 1 .. ids : ~Awaits(r, L[g])
    BY <2>2 DEF Awaits
  <2>5. backend[n] \in Backend /\ overflow[n] = FALSE /\ FALSE \in BOOLEAN
        /\ overflow = [overflow EXCEPT ![n] = overflow[n]] /\ backend = [backend EXCEPT ![n] = backend[n]]
    BY <1>6, NowFacts
  <2> HIDE DEF r, V
  <2>6. Agreement(L, ids, [overflow EXCEPT ![n] = FALSE], locals, [rt EXCEPT ![n] = r],
                  [backend EXCEPT ![n] = backend[n]], V, strand)
    <3>1. backend[n] \in Backend /\ FALSE \in BOOLEAN
      BY <2>5
    <3> QED
      BY <2>1, <2>2, <2>3, <2>4, <3>1, UnsettledKeeps
  <2>7. Agreement(L, ids, overflow, locals, rt', backend', net', strand) /\ faulty' = faulty
    BY <1>6, <2>5, <2>6 DEF Popped, V
  <2> QED
    BY <1>2, <2>7, AnsweredKeeps
<1> QED
  BY <1>5, <1>6 DEF ReceiveRequest

LEMMA ReceiveOtherKeeps ==
  ASSUME LeaseInv, NEW L, Now(L), NEW p \in Nodes, NEW n \in Nodes, ReceiveOther(p, n)
  PROVE  Kept
<1> DEFINE m == Message(p, n)
<1>1. Receives(p, n)
  BY DEF ReceiveOther
<1>2. /\ Mail(L, ids, p, n, m) /\ m \in Messages /\ p # n
      /\ net[<<p, n>>] # <<>> /\ UNCHANGED <<strand, overflow, locals, ids>>
  BY <1>1, Received
<1>3. CASE (overflow[n] \/ ~Matches(p, n)) /\ Ignore(Popped(p, n))
  <2>1. Role(L, ids, n, rt[n], overflow[n]) /\ rt[n] \in Runtime
    BY NowFacts
  <2>2. ASSUME rt[n].grant # 0, m.grant = rt[n].grant
        PROVE  rt[n].revoked
    <3>1. /\ rt[n].grant \in 1 .. ids /\ rt[n].peer \in Nodes \ {n} /\ L[rt[n].grant].req = rt[n].req
          /\ rt[n].state # "Idle"
          /\ \/ L[rt[n].grant].host = n /\ L[rt[n].grant].guest = rt[n].peer
             \/ L[rt[n].grant].host = rt[n].peer /\ L[rt[n].grant].guest = n
      BY <2>1, <2>2, Places
    <3>2. m.req = rt[n].req /\ p = rt[n].peer
      BY <1>2, <2>2, <3>1 DEF Mail
    <3> QED
      BY <1>3, <2>1, <3>1, <3>2 DEF Matches, Role
  <2>3. ASSUME rt[n].state = "Requesting", p = rt[n].peer, m.req = rt[n].req
        PROVE  rt[n].revoked
    BY <1>3, <2>1, <2>3 DEF Matches, Role
  <2>4. Passed(p, rt[n], m)
    BY <2>2, <2>3 DEF Passed
  <2> QED
    BY <1>1, <1>3, <2>4, IgnoredKeeps
<1>4. CASE Matches(p, n) /\ Lapsed(Popped(p, n), n)
  <2>1. rt[n].peer \in Nodes \ {n} /\ Finish(Popped(p, n), n, rt[n], backend[n], TRUE)
    BY <1>2, <1>4 DEF Matches, Lapsed
  <2>2. Agreement(L, ids, overflow, locals, rt', backend', net', strand) /\ faulty' = faulty
    BY <1>2, <2>1, FinishPopped
  <2> QED
    BY <1>2, <2>2, AnsweredKeeps
<1> QED
  BY <1>3, <1>4 DEF ReceiveOther

(* What is known in a session.                                             *)
LEMMA SessionMessage ==
  ASSUME LeaseInv, NEW L, Now(L), NEW p \in Nodes, NEW n \in Nodes, InSession(p, n)
  PROVE  /\ Receives(p, n) /\ Message(p, n) \in Messages /\ Message(p, n).req = rt[n].req
         /\ Mail(L, ids, p, n, Message(p, n)) /\ p # n
         /\ net[<<p, n>>] # <<>> /\ UNCHANGED <<strand, overflow, locals, ids>>
         /\ rt[n].peer \in Nodes \ {n} /\ p = rt[n].peer
         /\ ~rt[n].revoked /\ ~rt[n].starting /\ ~overflow[n]
<1>1. Receives(p, n) /\ p = rt[n].peer /\ Message(p, n).req = rt[n].req /\ ~rt[n].revoked /\ ~overflow[n]
  BY DEF InSession, Matches, Current
<1> QED
  BY <1>1, Received

(* The host has a message of its session before it, the guest has one.     *)
HostLearns(L, p, n) ==
  /\ rt[n].state \in {"AwaitingReady", "Controlled"}
  /\ HostNews(rt[n], Message(p, n), backend[n])
  /\ \A r \in Runtime, b \in Backend :
       /\ Role(L, ids, n, r, overflow[n])
       /\ HostTurn(rt[n].grant, rt[n], r, backend[n], b, Message(p, n))
       => Agreement(L, ids, overflow, locals, [rt EXCEPT ![n] = r], [backend EXCEPT ![n] = b],
                    Popped(p, n), strand)

GuestLearns(L, p, n) ==
  /\ rt[n].state \in {"AwaitingActivation", "Controlling"}
  /\ GuestNews(rt[n], Message(p, n))
  /\ \A r \in Runtime :
       /\ Role(L, ids, n, r, overflow[n])
       /\ GuestTurn(rt[n].grant, rt[n], r, Message(p, n))
       => Agreement(L, ids, overflow, locals, [rt EXCEPT ![n] = r], backend, Popped(p, n), strand)

OwnTurn(p, n) ==
  LET m == Message(p, n) IN
    m.grant # 0 /\ m.grant = rt[n].grant /\ m.seq = rt[n].rx + 1 /\ ~(m.seq <= rt[n].rx)

LEMMA Turn ==
  ASSUME LeaseInv, NEW L, Now(L), NEW p \in Nodes, NEW n \in Nodes, InSession(p, n),
         Message(p, n).grant # 0, Message(p, n).grant = rt[n].grant
  PROVE  OwnTurn(p, n) /\ (HostLearns(L, p, n) \/ GuestLearns(L, p, n))
<1> DEFINE m == Message(p, n)
           V == Popped(p, n)
<1>1. Agreement(L, ids, overflow, locals, rt, backend, net, strand) /\ Pops(net, p, n, m, V)
  BY Received, SessionMessage
<1>2. ~rt[n].revoked /\ m.grant = rt[n].grant
  BY SessionMessage
<1>3. rt[n] \in Runtime /\ Role(L, ids, n, rt[n], overflow[n]) /\ rt[n].grant # 0
  BY NowFacts
<1>4. rt[n].state \in {"AwaitingReady", "Controlled", "AwaitingActivation", "Controlling"}
  BY <1>3, Places
<1> HIDE DEF m, V
<1>5. CASE rt[n].state \in {"AwaitingReady", "Controlled"}
  <2>1. /\ HostNews(rt[n], m, backend[n])
        /\ \A r \in Runtime, b \in Backend :
              /\ Role(L, ids, n, r, overflow[n])
              /\ HostTurn(rt[n].grant, rt[n], r, backend[n], b, m)
              => Agreement(L, ids, overflow, locals, [rt EXCEPT ![n] = r], [backend EXCEPT ![n] = b], V, strand)
    BY <1>1, <1>2, <1>5, HostHears
  <2>2. HostLearns(L, p, n)
    BY <1>5, <2>1 DEF HostLearns, m, V
  <2>3. m.seq = rt[n].rx + 1 /\ rt[n].rx \in Nat
    BY <1>3, <2>1 DEF HostNews, Runtime
  <2> QED
    BY <1>2, <1>3, <2>2, <2>3 DEF OwnTurn, m
<1>6. CASE rt[n].state \in {"AwaitingActivation", "Controlling"}
  <2>1. /\ GuestNews(rt[n], m)
        /\ \A r \in Runtime :
              Role(L, ids, n, r, overflow[n]) /\ GuestTurn(rt[n].grant, rt[n], r, m)
              => Agreement(L, ids, overflow, locals, [rt EXCEPT ![n] = r], backend, V, strand)
    BY <1>1, <1>2, <1>6, GuestHears
  <2>2. GuestLearns(L, p, n)
    BY <1>6, <2>1 DEF GuestLearns, m, V
  <2>3. m.seq = rt[n].rx + 1 /\ rt[n].rx \in Nat
    BY <1>3, <2>1 DEF GuestNews, Runtime
  <2> QED
    BY <1>2, <1>3, <2>2, <2>3 DEF OwnTurn, m
<1> QED
  BY <1>4, <1>5, <1>6

(* A message of another session is passed over.                            *)
LEMMA ForeignKeeps ==
  ASSUME LeaseInv, NEW L, Now(L), NEW p \in Nodes, NEW n \in Nodes, InSession(p, n),
         Message(p, n).grant = 0 \/ Message(p, n).grant # rt[n].grant,
         Message(p, n).kind # "Grant", Ignore(Popped(p, n))
  PROVE  Kept
<1>1. Passed(p, rt[n], Message(p, n)) /\ Receives(p, n)
  BY SessionMessage DEF Passed
<1> QED
  BY <1>1, IgnoredKeeps

(* A host that only counts the message; r is its Runtime then.             *)
Counts(p, n, r) ==
  LET q == rt[n] IN
    /\ r.grant = q.grant /\ r.tx = q.tx /\ r.rx = Message(p, n).seq
    /\ r.peer = q.peer /\ r.req = q.req /\ r.state = q.state /\ r.revoked = q.revoked

LEMMA HostCounts ==
  ASSUME LeaseInv, NEW L, Now(L), NEW p \in Nodes, NEW n \in Nodes, InSession(p, n),
         HostLearns(L, p, n), NEW r \in Runtime, Counts(p, n, r),
         rt[n].state = "Controlled" \/ r.starting, NEW b \in Backend, Onward(backend[n], b),
         IF Message(p, n).kind \in Refocus THEN r.focus = Message(p, n).body /\ b.paused
                                           ELSE r.focus = rt[n].focus,
         \A i \in Queued(b, rt[n].grant) :
           \/ i \in Queued(backend[n], rt[n].grant)
           \/ Message(p, n).kind = "Input" /\ i = Message(p, n).body
  PROVE  Agreement(L, ids, overflow, locals, [rt EXCEPT ![n] = r], [backend EXCEPT ![n] = b],
                   Popped(p, n), strand)
<1>1. HostTurn(rt[n].grant, rt[n], r, backend[n], b, Message(p, n))
  BY DEF HostTurn, Counts
<1>2. Role(L, ids, n, rt[n], overflow[n]) /\ rt[n] \in Runtime
  BY NowFacts
<1>3. r.rx >= 1
  BY <1>2 DEF Counts, HostLearns, HostNews, Runtime
<1>4. Role(L, ids, n, r, overflow[n])
  BY <1>2, <1>3 DEF Role, Counts, HostLearns
<1> QED
  BY <1>1, <1>4 DEF HostLearns

LEMMA GuestCounts ==
  ASSUME LeaseInv, NEW L, Now(L), NEW p \in Nodes, NEW n \in Nodes, InSession(p, n),
         GuestLearns(L, p, n), NEW r \in Runtime, Counts(p, n, r), ~r.starting,
         r.focus = rt[n].focus,
         \/ r.epoch = rt[n].epoch /\ r.paused = rt[n].paused
         \/ /\ rt[n].state = "Controlling"
            /\ Message(p, n).kind = "InputState" /\ Message(p, n).body.focus = rt[n].focus
            /\ r.epoch = Message(p, n).body.epoch /\ r.paused = Message(p, n).body.paused
  PROVE  Agreement(L, ids, overflow, locals, [rt EXCEPT ![n] = r], backend, Popped(p, n), strand)
<1>1. GuestTurn(rt[n].grant, rt[n], r, Message(p, n))
  BY DEF GuestTurn, Counts
<1>2. Role(L, ids, n, rt[n], overflow[n]) /\ rt[n] \in Runtime
  BY NowFacts
<1>3. Role(L, ids, n, r, overflow[n])
  BY <1>2 DEF Role, Counts, GuestLearns
<1> QED
  BY <1>1, <1>3 DEF GuestLearns

LEMMA AdvancedCounts ==
  ASSUME LeaseInv, NEW L, Now(L), NEW p \in Nodes, NEW n \in Nodes, InSession(p, n)
  PROVE  LET r == Advanced(p, n) IN
           /\ r \in Runtime /\ Counts(p, n, r) /\ ~r.starting
           /\ r.focus = rt[n].focus /\ r.epoch = rt[n].epoch /\ r.paused = rt[n].paused
<1>1. Message(p, n).seq \in Nat /\ ~rt[n].starting
  BY SessionMessage DEF Messages
<1>2. rt[n] \in Runtime
  BY NowFacts
<1>3. Advanced(p, n) \in Runtime
  BY <1>1, <1>2 DEF Advanced, Runtime
<1> QED
  BY <1>1, <1>2, <1>3 DEF Advanced, Counts, Runtime

LEMMA ReceiveEndKeeps ==
  ASSUME LeaseInv, NEW L, Now(L), NEW p \in Nodes, NEW n \in Nodes, ReceiveEnd(p, n)
  PROVE  Kept
<1>1. InSession(p, n) /\ Message(p, n).kind = "End"
  BY DEF ReceiveEnd
<1>2. /\ net[<<p, n>>] # <<>> /\ UNCHANGED <<strand, overflow, locals, ids>>
      /\ p # n /\ rt[n].peer \in Nodes \ {n} /\ Receives(p, n)
  BY <1>1, SessionMessage
<1>3. CASE Finish(Popped(p, n), n, rt[n], backend[n], FALSE)
  <2>1. Agreement(L, ids, overflow, locals, rt', backend', net', strand) /\ faulty' = faulty
    BY <1>2, <1>3, FinishPopped
  <2> QED
    BY <1>2, <2>1, AnsweredKeeps
<1>4. CASE Message(p, n).grant # rt[n].grant /\ Ignore(Popped(p, n))
  BY <1>1, <1>4, ForeignKeeps
<1> QED
  BY <1>3, <1>4 DEF ReceiveEnd

(* A Grant of the running session does not come a second time.             *)
LEMMA ReceiveGrantKeeps ==
  ASSUME LeaseInv, NEW L, Now(L), NEW p \in Nodes, NEW n \in Nodes, ReceiveGrant(p, n)
  PROVE  Kept
<1> DEFINE m == Message(p, n)
           r == [rt[n] EXCEPT !.state = "AwaitingActivation", !.grant = m.grant, !.ping = FALSE,
                              !.tx = 0, !.rx = 0]
<1>1. InSession(p, n) /\ m.kind = "Grant"
  BY DEF ReceiveGrant
<1>2. /\ Receives(p, n) /\ m \in Messages /\ m.req = rt[n].req
      /\ Mail(L, ids, p, n, m) /\ p # n
      /\ UNCHANGED <<strand, overflow, locals, ids>>
      /\ p = rt[n].peer /\ ~rt[n].revoked /\ ~rt[n].starting
  <2>1. InSession(p, n)
    BY <1>1
  <2>2. /\ Receives(p, n) /\ m \in Messages /\ Mail(L, ids, p, n, m) /\ p # n
        /\ UNCHANGED <<strand, overflow, locals, ids>> /\ ~rt[n].starting
    BY <2>1, SessionMessage
  <2>3. m.req = rt[n].req /\ p = rt[n].peer /\ ~rt[n].revoked
    BY <2>1 DEF InSession, Matches, Current
  <2> QED
    BY <2>2, <2>3
<1>3. /\ Agreement(L, ids, overflow, locals, rt, backend, net, strand)
      /\ Pops(net, p, n, m, Popped(p, n))
  BY <1>2, Received
<1>4. CASE rt[n].state # "Requesting" /\ Ignore(Popped(p, n))
  <2>1. ASSUME rt[n].grant # 0, m.grant = rt[n].grant PROVE FALSE
    <3>1. HostLearns(L, p, n) \/ GuestLearns(L, p, n)
      BY <1>1, <2>1, Turn
    <3> QED
      BY <1>1, <3>1 DEF HostLearns, GuestLearns, HostNews, GuestNews, Upward
  <2>2. Passed(p, rt[n], m)
    BY <1>4, <2>1 DEF Passed
  <2> QED
    BY <1>2, <1>4, <2>2, IgnoredKeeps
<1>5. CASE /\ rt[n].state = "Requesting"
           /\ rt' = [rt EXCEPT ![n].state = "AwaitingActivation", ![n].grant = m.grant,
                              ![n].ping = FALSE, ![n].tx = 0, ![n].rx = 0]
           /\ net' = Popped(p, n) /\ UNCHANGED <<backend, faulty>>
  <2>1. rt' = [rt EXCEPT ![n] = r]
    BY <1>5, NowFacts
  <2> DEFINE V == Popped(p, n)
             q == rt[n]
  <2>2. r = [q EXCEPT !.state = "AwaitingActivation", !.grant = m.grant, !.ping = FALSE,
                      !.tx = 0, !.rx = 0]
    OBVIOUS
  <2> HIDE DEF m, V, r, q
  <2>3. Agreement(L, ids, overflow, locals, [rt EXCEPT ![n] = r], backend, V, strand)
    <3>1. q = rt[n] /\ q.state = "Requesting" /\ ~q.revoked /\ p = q.peer /\ m.req = q.req /\ ~q.starting
      BY <1>2, <1>5 DEF q
    <3>2. Pops(net, p, n, m, V) /\ m.kind = "Grant"
      BY <1>1, <1>3 DEF V
    <3> QED
      BY <1>3, <2>2, <3>1, <3>2, TakeKeeps
  <2>4. Agreement(L, ids, overflow, locals, rt', backend', net', strand) /\ faulty' = faulty
    BY <1>5, <2>1, <2>3 DEF V
  <2> QED
    BY <1>2, <2>4, AnsweredKeeps
<1> QED
  BY <1>4, <1>5 DEF ReceiveGrant

LEMMA ReceiveReadyKeeps ==
  ASSUME LeaseInv, NEW L, Now(L), NEW p \in Nodes, NEW n \in Nodes, ReceiveReady(p, n)
  PROVE  Kept
<1> DEFINE m == Message(p, n)
           r == [Advanced(p, n) EXCEPT !.starting = TRUE]
<1>1. InSession(p, n) /\ m.kind = "Ready"
  BY DEF ReceiveReady
<1>2. CASE m.grant = 0 \/ m.grant # rt[n].grant
  <2>1. Ignore(Popped(p, n))
    BY <1>2 DEF ReceiveReady, Numbers
  <2> QED
    BY <1>1, <1>2, <2>1, ForeignKeeps
<1>3. CASE m.grant # 0 /\ m.grant = rt[n].grant
  <2>1. OwnTurn(p, n) /\ (HostLearns(L, p, n) \/ GuestLearns(L, p, n))
    BY <1>1, <1>3, Turn
  <2>2. rt[n].rx = 0 /\ HostLearns(L, p, n)
    BY <1>1, <2>1 DEF HostLearns, GuestLearns, HostNews, GuestNews, Downward
  <2>3. Role(L, ids, n, rt[n], overflow[n])
    BY NowFacts
  <2>4. rt[n].state = "AwaitingReady"
    BY <2>2, <2>3 DEF HostLearns, Role
  <2>5. Advance(p, n, r)
    BY <2>1, <2>4 DEF ReceiveReady, Numbers, OwnTurn
  <2>6. r \in Runtime /\ Counts(p, n, r) /\ r.starting /\ r.focus = rt[n].focus
    <3> DEFINE a == Advanced(p, n)
    <3>1. a \in Runtime /\ Counts(p, n, a) /\ a.focus = rt[n].focus
      BY <1>1, AdvancedCounts
    <3> HIDE DEF a
    <3>2. r = [a EXCEPT !.starting = TRUE]
      BY DEF a
    <3>3. r \in Runtime /\ r.starting
      BY <3>1, <3>2 DEF Runtime
    <3> QED
      BY <3>1, <3>2, <3>3 DEF Counts, Runtime
  <2>7. backend[n] \in Backend /\ Onward(backend[n], backend[n])
        /\ backend = [backend EXCEPT ![n] = backend[n]]
    BY NowFacts, SameOnward
  <2> HIDE DEF r
  <2>8. Agreement(L, ids, overflow, locals, [rt EXCEPT ![n] = r], [backend EXCEPT ![n] = backend[n]],
                  Popped(p, n), strand)
    BY <1>1, <2>2, <2>6, <2>7, HostCounts DEF Refocus
  <2>9. Agreement(L, ids, overflow, locals, rt', backend', net', strand) /\ faulty' = faulty
    BY <2>5, <2>7, <2>8 DEF Advance
  <2> QED
    BY <1>1, <2>9, SessionMessage, AnsweredKeeps
<1> QED
  BY <1>2, <1>3

(* What a message that is only counted leaves behind.                      *)
LEMMA CountedKeeps ==
  ASSUME LeaseInv, NEW L, Now(L), NEW p \in Nodes, NEW n \in Nodes, InSession(p, n),
         Message(p, n).kind \notin Refocus, HostLearns(L, p, n) \/ GuestLearns(L, p, n),
         rt[n].state # "AwaitingReady", NEW r \in Runtime, Counts(p, n, r), ~r.starting,
         r.focus = rt[n].focus, r.epoch = rt[n].epoch, r.paused = rt[n].paused
  PROVE  Agreement(L, ids, overflow, locals, [rt EXCEPT ![n] = r], backend, Popped(p, n), strand)
<1>1. CASE HostLearns(L, p, n)
  <2>1. rt[n].state = "Controlled"
    BY <1>1 DEF HostLearns
  <2>2. backend[n] \in Backend /\ Onward(backend[n], backend[n])
        /\ backend = [backend EXCEPT ![n] = backend[n]]
    BY NowFacts, SameOnward
  <2>3. Agreement(L, ids, overflow, locals, [rt EXCEPT ![n] = r], [backend EXCEPT ![n] = backend[n]],
                  Popped(p, n), strand)
    BY <1>1, <2>1, <2>2, HostCounts
  <2> QED
    BY <2>2, <2>3
<1>2. CASE GuestLearns(L, p, n)
  BY <1>2, GuestCounts
<1> QED
  BY <1>1, <1>2

(* Before a host has heard Ready, it hears Ready or End.                   *)
LEMMA NotBeforeReady ==
  ASSUME LeaseInv, NEW L, Now(L), NEW p \in Nodes, NEW n \in Nodes, InSession(p, n),
         HostLearns(L, p, n) \/ GuestLearns(L, p, n), Message(p, n).kind \notin {"Ready", "End"}
  PROVE  rt[n].state # "AwaitingReady"
<1>1. Role(L, ids, n, rt[n], overflow[n]) /\ ~rt[n].starting
  BY NowFacts, SessionMessage
<1> QED
  BY <1>1 DEF HostLearns, GuestLearns, HostNews, Role

LEMMA ReceivePingKeeps ==
  ASSUME LeaseInv, NEW L, Now(L), NEW p \in Nodes, NEW n \in Nodes, ReceivePing(p, n)
  PROVE  Kept
<1> DEFINE m == Message(p, n)
           a == Advanced(p, n)
           c == Popped(p, n)
<1>1. InSession(p, n) /\ m.kind = "Ping"
  BY DEF ReceivePing
<1>2. CASE m.grant = 0 \/ m.grant # rt[n].grant
  <2>1. Ignore(Popped(p, n))
    BY <1>2 DEF ReceivePing, Numbers
  <2> QED
    BY <1>1, <1>2, <2>1, ForeignKeeps
<1>3. CASE m.grant # 0 /\ m.grant = rt[n].grant
  <2>1. OwnTurn(p, n) /\ (HostLearns(L, p, n) \/ GuestLearns(L, p, n))
    BY <1>1, <1>3, Turn
  <2>2. rt[n].state # "AwaitingReady"
    BY <1>1, <2>1, NotBeforeReady
  <2>3. /\ a \in Runtime /\ Counts(p, n, a) /\ ~a.starting
        /\ a.focus = rt[n].focus /\ a.epoch = rt[n].epoch /\ a.paused = rt[n].paused
    BY <1>1, AdvancedCounts
  <2>4. \/ rt[n].state \in {"Controlled", "Controlling"} /\ Transmit(c, n, a, backend[n], Say("Pong", None))
        \/ Advance(p, n, a)
    BY <2>1 DEF ReceivePing, Numbers, OwnTurn, Established
  <2>5. backend[n] \in Backend /\ backend = [backend EXCEPT ![n] = backend[n]]
        /\ rt \in [Nodes -> Runtime] /\ backend \in [Nodes -> Backend]
    BY NowFacts
  <2> HIDE DEF a, c
  <2>6. Agreement(L, ids, overflow, locals, [rt EXCEPT ![n] = a], backend, c, strand)
    BY <1>1, <2>1, <2>2, <2>3, CountedKeeps DEF Refocus, c
  <2>7. CASE Advance(p, n, a)
    <3>1. Agreement(L, ids, overflow, locals, rt', backend', net', strand) /\ faulty' = faulty
      BY <2>6, <2>7 DEF Advance, c
    <3> QED
      BY <1>1, <3>1, SessionMessage, AnsweredKeeps
  <2>8. CASE /\ rt[n].state \in {"Controlled", "Controlling"}
             /\ Transmit(c, n, a, backend[n], Say("Pong", None))
    <3>1. a.state \in {"Controlled", "Controlling"} /\ "Pong" \in {"Ping", "Pong"} /\ a \in Runtime
      BY <2>3, <2>8 DEF Counts
    <3>2. Transmit(c, n, a, backend[n], Say("Pong", None))
      BY <2>8
    <3>3. Agreement(L, ids, overflow, locals, rt', backend', net', strand) /\ faulty' = faulty
      BY <2>5, <2>6, <3>1, <3>2, PingKeeps
    <3> QED
      BY <1>1, <3>3, SessionMessage, AnsweredKeeps
  <2> QED
    BY <2>4, <2>7, <2>8
<1> QED
  BY <1>2, <1>3

LEMMA ReceivePongKeeps ==
  ASSUME LeaseInv, NEW L, Now(L), NEW p \in Nodes, NEW n \in Nodes, ReceivePong(p, n)
  PROVE  Kept
<1> DEFINE m == Message(p, n)
           a == Advanced(p, n)
           h(answered) == [a EXCEPT !.ping = @ /\ ~answered]
<1>1. InSession(p, n) /\ m.kind = "Pong"
  BY DEF ReceivePong
<1>2. CASE m.grant = 0 \/ m.grant # rt[n].grant
  <2>1. Ignore(Popped(p, n))
    BY <1>2 DEF ReceivePong, Numbers
  <2> QED
    BY <1>1, <1>2, <2>1, ForeignKeeps
<1>3. CASE m.grant # 0 /\ m.grant = rt[n].grant
  <2>1. OwnTurn(p, n) /\ (HostLearns(L, p, n) \/ GuestLearns(L, p, n))
    BY <1>1, <1>3, Turn
  <2>2. rt[n].state # "AwaitingReady"
    BY <1>1, <2>1, NotBeforeReady
  <2>3. /\ a \in Runtime /\ Counts(p, n, a) /\ ~a.starting
        /\ a.focus = rt[n].focus /\ a.epoch = rt[n].epoch /\ a.paused = rt[n].paused
    BY <1>1, AdvancedCounts
  <2>4. \E r : Advance(p, n, r) /\ (r = a \/ \E answered \in BOOLEAN : r = h(answered))
    BY <2>1 DEF ReceivePong, Numbers, OwnTurn, Established
  <2> HIDE DEF a
  <2>5. PICK r : Advance(p, n, r) /\ (r = a \/ \E answered \in BOOLEAN : r = h(answered))
    BY <2>4
  <2>6. /\ r \in Runtime /\ Counts(p, n, r) /\ ~r.starting
        /\ r.focus = rt[n].focus /\ r.epoch = rt[n].epoch /\ r.paused = rt[n].paused
    <3>1. CASE r = a
      BY <2>3, <3>1
    <3>2. ASSUME NEW answered \in BOOLEAN, r = h(answered)
          PROVE  /\ r \in Runtime /\ Counts(p, n, r) /\ ~r.starting
                 /\ r.focus = rt[n].focus /\ r.epoch = rt[n].epoch /\ r.paused = rt[n].paused
      <4>1. \A v \in BOOLEAN : [a EXCEPT !.ping = v] \in Runtime
        BY <2>3 DEF Runtime
      <4>2. (a.ping /\ ~answered) \in BOOLEAN
        OBVIOUS
      <4>3. r \in Runtime
        BY <3>2, <4>1, <4>2
      <4> QED
        BY <2>3, <3>2, <4>3 DEF Counts, Runtime
    <3> QED
      BY <2>5, <3>1, <3>2
  <2>7. Agreement(L, ids, overflow, locals, [rt EXCEPT ![n] = r], backend, Popped(p, n), strand)
    BY <1>1, <2>1, <2>2, <2>6, CountedKeeps DEF Refocus
  <2>8. Agreement(L, ids, overflow, locals, rt', backend', net', strand) /\ faulty' = faulty
    BY <2>5, <2>7 DEF Advance
  <2> QED
    BY <1>1, <2>8, SessionMessage, AnsweredKeeps
<1> QED
  BY <1>2, <1>3

(* A report is never older than the one before.                            *)
LEMMA ReceiveInputStateKeeps ==
  ASSUME LeaseInv, NEW L, Now(L), NEW p \in Nodes, NEW n \in Nodes, ReceiveInputState(p, n)
  PROVE  Kept
<1> DEFINE m == Message(p, n)
           s == m.body
           a == Advanced(p, n)
           t == Status(a, s)
<1>1. InSession(p, n) /\ m.kind = "InputState"
  BY DEF ReceiveInputState
<1>2. CASE m.grant = 0 \/ m.grant # rt[n].grant
  <2>1. Ignore(Popped(p, n))
    BY <1>2 DEF ReceiveInputState, Numbers
  <2> QED
    BY <1>1, <1>2, <2>1, ForeignKeeps
<1>3. CASE m.grant # 0 /\ m.grant = rt[n].grant
  <2>1. OwnTurn(p, n) /\ (HostLearns(L, p, n) \/ GuestLearns(L, p, n))
    BY <1>1, <1>3, Turn
  <2>2. GuestLearns(L, p, n)
    BY <1>1, <2>1 DEF HostLearns, HostNews, Upward
  <2>3. /\ a \in Runtime /\ Counts(p, n, a) /\ ~a.starting
        /\ a.focus = rt[n].focus /\ a.epoch = rt[n].epoch /\ a.paused = rt[n].paused
    BY <1>1, AdvancedCounts
  <2>4. s.epoch \in Nat /\ s.paused \in BOOLEAN /\ rt[n].epoch <= s.epoch /\ rt[n].epoch \in Nat
    <3>1. m \in Messages /\ rt[n] \in Runtime
      BY <1>1, SessionMessage, NowFacts
    <3>2. s \in Reports
      BY <1>1, <3>1 DEF Messages, Fitting
    <3> QED
      BY <1>1, <2>2, <3>1, <3>2 DEF GuestLearns, GuestNews, Reports, Runtime
  <2>5. t \in Runtime /\ Counts(p, n, t) /\ ~t.starting /\ t.focus = rt[n].focus
        /\ t.epoch = s.epoch /\ t.paused = s.paused
    <3> HIDE DEF a, s
    <3>1. t \in Runtime
      BY <2>3, <2>4, StatusType
    <3> QED
      BY <2>3, <3>1 DEF Status, Counts, Runtime
  <2>6. \/ Advance(p, n, a)
        \/ Advance(p, n, t) /\ rt[n].state = "Controlling" /\ s.focus = rt[n].focus
    <3>1. ~(s.epoch < rt[n].epoch) /\ rt[n].state \in {"AwaitingActivation", "Controlling"}
      BY <2>2, <2>4 DEF GuestLearns
    <3> QED
      BY <2>1, <3>1 DEF ReceiveInputState, Numbers, OwnTurn, Established
  <2> HIDE DEF a, t
  <2>7. CASE Advance(p, n, a)
    <3>1. Agreement(L, ids, overflow, locals, [rt EXCEPT ![n] = a], backend, Popped(p, n), strand)
      BY <1>1, <2>2, <2>3, GuestCounts
    <3>2. Agreement(L, ids, overflow, locals, rt', backend', net', strand) /\ faulty' = faulty
      BY <2>7, <3>1 DEF Advance
    <3> QED
      BY <1>1, <3>2, SessionMessage, AnsweredKeeps
  <2>8. CASE Advance(p, n, t) /\ rt[n].state = "Controlling" /\ s.focus = rt[n].focus
    <3>1. Agreement(L, ids, overflow, locals, [rt EXCEPT ![n] = t], backend, Popped(p, n), strand)
      BY <1>1, <2>2, <2>5, <2>8, GuestCounts
    <3>2. Agreement(L, ids, overflow, locals, rt', backend', net', strand) /\ faulty' = faulty
      BY <2>8, <3>1 DEF Advance
    <3> QED
      BY <1>1, <3>2, SessionMessage, AnsweredKeeps
  <2> QED
    BY <2>6, <2>7, <2>8
<1> QED
  BY <1>2, <1>3

(* The changes of focus come one by one.                                   *)
LEMMA ReceivePauseKeeps ==
  ASSUME LeaseInv, NEW L, Now(L), NEW p \in Nodes, NEW n \in Nodes, ReceivePause(p, n)
  PROVE  Kept
<1> DEFINE m == Message(p, n)
           a == Advanced(p, n)
           value == m.kind = "Pause"
           b == PauseInput(backend[n], value)
           d == [a EXCEPT !.focus = @ + 1, !.pausedHere = value]
           r == Status(d, b)
           c == Popped(p, n)
<1>1. InSession(p, n) /\ m.kind \in Refocus
  BY DEF ReceivePause, Refocus
<1>2. CASE m.grant = 0 \/ m.grant # rt[n].grant
  <2>1. Ignore(Popped(p, n))
    BY <1>2 DEF ReceivePause, Numbers
  <2>2. m.kind # "Grant"
    BY <1>1 DEF Refocus
  <2> QED
    BY <1>1, <1>2, <2>1, <2>2, ForeignKeeps
<1>3. CASE m.grant # 0 /\ m.grant = rt[n].grant
  <2>1. OwnTurn(p, n) /\ (HostLearns(L, p, n) \/ GuestLearns(L, p, n))
    BY <1>1, <1>3, Turn
  <2>2. HostLearns(L, p, n) /\ m.body = rt[n].focus + 1
    BY <1>1, <2>1 DEF HostLearns, HostNews, GuestLearns, GuestNews, Downward, Refocus
  <2>3. rt[n].state = "Controlled"
    BY <1>1, <2>1, <2>2, NotBeforeReady DEF HostLearns, Refocus
  <2>4. /\ a \in Runtime /\ Counts(p, n, a) /\ ~a.starting
        /\ a.focus = rt[n].focus /\ a.epoch = rt[n].epoch /\ a.paused = rt[n].paused
    BY <1>1, AdvancedCounts
  <2>5. /\ backend[n] \in Backend /\ rt[n] \in Runtime /\ value \in BOOLEAN
        /\ rt \in [Nodes -> Runtime] /\ backend \in [Nodes -> Backend]
    BY NowFacts
  <2>6. /\ b \in Backend /\ b.queue = <<>> /\ b.paused /\ Onward(backend[n], b)
    <3> DEFINE e == Suspend(backend[n])
    <3>1. e \in Backend /\ e.paused /\ Onward(backend[n], e)
      BY <2>5, SuspendType, SuspendOnward
    <3>2. b \in Backend /\ b.queue = <<>>
      BY <2>5, PauseInputType
    <3> HIDE DEF value
    <3>3. b.epoch = e.epoch /\ b.paused = e.paused
      BY <3>1 DEF PauseInput, Backend
    <3> QED
      BY <3>1, <3>2, <3>3 DEF Onward
  <2> HIDE DEF a, b, value
  <2>7. /\ d \in Runtime /\ Counts(p, n, d) /\ ~d.starting /\ d.focus = m.body /\ d.state = "Controlled"
    <3>1. a.focus + 1 \in Nat
      BY <2>4 DEF Runtime
    <3>2. d \in Runtime
      BY <2>4, <2>5, <3>1 DEF Runtime
    <3> QED
      BY <2>2, <2>3, <2>4, <3>2 DEF Counts, Runtime
  <2>8. /\ r \in Runtime /\ Counts(p, n, r) /\ ~r.starting /\ r.focus = m.body /\ r.state = "Controlled"
    <3> HIDE DEF d
    <3>1. r \in Runtime
      BY <2>6, <2>7, StatusType DEF Backend
    <3> QED
      BY <2>7, <3>1 DEF Status, Counts, Runtime
  <2>9. Transmit(c, n, r, b, Report(r, b))
    BY <2>1, <2>3, <2>8 DEF ReceivePause, Numbers, OwnTurn, a, b, value
  <2> HIDE DEF r, c
  <2>10. \A i : i \notin Queued(b, rt[n].grant)
    BY <2>6, EmptyRange DEF Queued
  <2>11. Agreement(L, ids, overflow, locals, [rt EXCEPT ![n] = r], [backend EXCEPT ![n] = b], c, strand)
    BY <1>1, <2>2, <2>3, <2>6, <2>8, <2>10, HostCounts DEF c
  <2>12. Agreement(L, ids, overflow, locals, rt', backend', net', strand) /\ faulty' = faulty
    BY <2>5, <2>6, <2>8, <2>9, <2>11, ReportKeeps
  <2> QED
    BY <1>1, <2>12, SessionMessage, AnsweredKeeps
<1> QED
  BY <1>2, <1>3

(* The last element replaced, or one more.                                 *)
LEMMA QueueRange ==
  ASSUME NEW b \in Backend, NEW i \in InputRecords
  PROVE  /\ Queue(b, i) \in Backend
         /\ Queue(b, i).epoch = b.epoch /\ Queue(b, i).paused = b.paused
         /\ Range(Queue(b, i).queue) \subseteq Range(b.queue) \union {i}
<1> DEFINE s == b.queue
           t == [s EXCEPT ![Len(s)] = i]
<1>1. s \in Seq(InputRecords)
  BY DEF Backend
<1>2. CASE Supersedes(b, i)
  <2>1. Queue(b, i) = [b EXCEPT !.queue = t]
    BY <1>2 DEF Queue
  <2>2. t \in Seq(InputRecords) /\ DOMAIN t = DOMAIN s
        /\ \A j \in DOMAIN t : t[j] \in {s[j], i}
    <3>1. s # <<>>
      BY <1>2 DEF Supersedes
    <3> HIDE DEF s
    <3>2. Len(s) \in 1 .. Len(s)
      BY <1>1, <3>1, EmptySeq
    <3> QED
      BY <1>1, <3>2, ExceptSeq
  <2>3. Range(t) \subseteq Range(s) \union {i}
    BY <2>2 DEF Range
  <2> HIDE DEF t
  <2> QED
    BY <2>1, <2>2, <2>3 DEF Backend
<1>3. CASE ~Supersedes(b, i)
  <2>1. Queue(b, i) = [b EXCEPT !.queue = Append(s, i)]
    BY <1>3 DEF Queue
  <2>2. Append(s, i) \in Seq(InputRecords) /\ Range(Append(s, i)) = Range(s) \union {i}
    BY <1>1, AppendFacts, AppendProperties
  <2> QED
    BY <2>1, <2>2 DEF Backend
<1> QED
  BY <1>2, <1>3

LEMMA ReceiveInputKeeps ==
  ASSUME LeaseInv, NEW L, Now(L), NEW p \in Nodes, NEW n \in Nodes, ReceiveInput(p, n)
  PROVE  Kept
<1> DEFINE m == Message(p, n)
           i == m.body
           a == Advanced(p, n)
           b == backend[n]
           d == IF Accepts(b, i.epoch) THEN Queue(b, i) ELSE b
<1>1. InSession(p, n) /\ m.kind = "Input"
  BY DEF ReceiveInput
<1>2. CASE m.grant = 0 \/ m.grant # rt[n].grant
  <2>1. Ignore(Popped(p, n))
    BY <1>2 DEF ReceiveInput, Numbers
  <2> QED
    BY <1>1, <1>2, <2>1, ForeignKeeps
<1>3. CASE m.grant # 0 /\ m.grant = rt[n].grant
  <2>1. OwnTurn(p, n) /\ (HostLearns(L, p, n) \/ GuestLearns(L, p, n))
    BY <1>1, <1>3, Turn
  <2>2. HostLearns(L, p, n)
    BY <1>1, <2>1 DEF GuestLearns, GuestNews, Downward
  <2>3. rt[n].state = "Controlled"
    BY <1>1, <2>1, <2>2, NotBeforeReady DEF HostLearns
  <2>4. /\ a \in Runtime /\ Counts(p, n, a) /\ ~a.starting /\ a.focus = rt[n].focus
    BY <1>1, AdvancedCounts
  <2>5. b \in Backend /\ i \in InputRecords
    <3>1. m \in Messages
      BY <1>1, SessionMessage
    <3> QED
      BY <1>1, <3>1, NowFacts DEF Messages, Fitting, OfGrant
  <2>6. /\ d \in Backend /\ Onward(b, d)
        /\ \A j \in Queued(d, rt[n].grant) : j \in Queued(b, rt[n].grant) \/ j = i
    <3>1. /\ d \in Backend /\ d.epoch = b.epoch /\ d.paused = b.paused
          /\ Range(d.queue) \subseteq Range(b.queue) \union {i}
      BY <2>5, QueueRange
    <3> HIDE DEF d, b, i
    <3> QED
      BY <2>5, <3>1, SameOnward DEF Queued
  <2>7. CASE Finish(Popped(p, n), n, a, b, TRUE)
    <3>1. Finish(Popped(p, n), n, rt[n], b, TRUE)
      <4>1. a.peer = rt[n].peer /\ a.req = rt[n].req /\ a.grant = rt[n].grant /\ a.tx = rt[n].tx
        BY <2>4 DEF Counts
      <4> HIDE DEF a
      <4>2. Wire(a, Say("End", None)) = Wire(rt[n], Say("End", None))
        BY <4>1 DEF Wire
      <4> QED
        BY <2>7, <4>1, <4>2 DEF Finish, Link
    <3>2. /\ net[<<p, n>>] # <<>> /\ p # n /\ rt[n].peer \in Nodes \ {n}
      BY <1>1, SessionMessage
    <3>3. Agreement(L, ids, overflow, locals, rt', backend', net', strand) /\ faulty' = faulty
      BY <3>1, <3>2, FinishPopped
    <3> QED
      BY <1>1, <3>3, SessionMessage, AnsweredKeeps
  <2>8. CASE /\ rt' = [rt EXCEPT ![n] = a] /\ backend' = [backend EXCEPT ![n] = d]
             /\ net' = Popped(p, n) /\ UNCHANGED faulty
    <3> HIDE DEF a, d
    <3>1. Agreement(L, ids, overflow, locals, [rt EXCEPT ![n] = a], [backend EXCEPT ![n] = d],
                    Popped(p, n), strand)
      BY <1>1, <2>2, <2>3, <2>4, <2>6, HostCounts DEF Refocus
    <3>2. Agreement(L, ids, overflow, locals, rt', backend', net', strand) /\ faulty' = faulty
      BY <2>8, <3>1
    <3> QED
      BY <1>1, <3>2, SessionMessage, AnsweredKeeps
  <2>9. \/ Finish(Popped(p, n), n, a, b, TRUE)
        \/ /\ rt' = [rt EXCEPT ![n] = a] /\ backend' = [backend EXCEPT ![n] = d]
           /\ net' = Popped(p, n) /\ UNCHANGED faulty
    BY <2>1, <2>3 DEF ReceiveInput, Numbers, OwnTurn
  <2> QED
    BY <2>7, <2>8, <2>9
<1> QED
  BY <1>2, <1>3

-----------------------------------------------------------------------------
(* The theorems.                                                           *)

LEMMA ProtocolInvInit == Init => ProtocolInv
<1> SUFFICES ASSUME Init PROVE ProtocolInv
  OBVIOUS
<1>1. LeaseInv /\ faulty = {} /\ ids = 0
  BY LeaseInvInit DEF Init
<1> DEFINE K == [i \in 1 .. ids |-> 0]
<1>2. K \in [1 .. ids -> Deals]
  BY <1>1
<1> HIDE DEF K
<1>3. Values(K, ids, overflow, locals, rt, backend, net, strand)
  BY <1>1, <1>2 DEF Values, Init, LeaseInv, Typed
<1>4. Parts(K, ids, overflow, rt, net, strand)
  <2>1. ASSUME NEW n \in Nodes PROVE Role(K, ids, n, rt[n], overflow[n])
    BY <1>1 DEF Role, Init, IdleRuntime
  <2>2. ASSUME NEW p \in Nodes, NEW n \in Nodes
        PROVE  net[<<p, n>>] = <<>>
    BY DEF Init
  <2>3. Ordered(<<>>)
    BY DEF Ordered
  <2>4. \A n \in Nodes : strand[n] = <<>>
    BY DEF Init
  <2> QED
    BY <2>1, <2>2, <2>3, <2>4, EmptyRange DEF Parts
<1>5. \A g \in 1 .. ids : At(K, locals, rt, backend, net, strand, g)
  BY <1>1
<1> QED
  BY <1>1, <1>2, <1>3, <1>4, <1>5 DEF ProtocolInv, Agreement

LEMMA UiKeeps ==
  ASSUME LeaseInv, NEW L, Now(L), NEW n \in Nodes, Ui(n)
  PROVE  Kept
BY RequestKeeps, ConsentKeeps, ActivateKeeps, PauseKeeps, MakeInputKeeps, StopKeeps DEF Ui

LEMMA ReceiveKeeps ==
  ASSUME LeaseInv, NEW L, Now(L), NEW p \in Nodes, NEW n \in Nodes, Receive(p, n)
  PROVE  Kept
BY ReceiveRequestKeeps, ReceiveOtherKeeps, ReceiveEndKeeps, ReceiveGrantKeeps, ReceiveReadyKeeps,
   ReceivePingKeeps, ReceivePongKeeps, ReceivePauseKeeps, ReceiveInputStateKeeps, ReceiveInputKeeps
   DEF Receive

LEMMA InputThreadKeeps ==
  ASSUME LeaseInv, NEW L, Now(L), NEW n \in Nodes, InputThread(n)
  PROVE  Kept
BY DisarmKeeps, ReleaseKeeps, QuietKeeps, InjectKeeps, YieldKeeps, LocalActivityKeeps DEF InputThread

LEMMA ProtocolInvStep == ProtocolInv /\ [Next]_vars => ProtocolInv'
<1> SUFFICES ASSUME ProtocolInv, [Next]_vars PROVE ProtocolInv'
  OBVIOUS
<1>1. LeaseInv /\ faulty = {} /\ \E L : Now(L)
  BY DEF ProtocolInv, Now
<1>2. PICK L : Now(L)
  BY <1>1
<1>3. LeaseInv'
  BY <1>1, LeaseInvStep
<1>4. ASSUME UNCHANGED vars PROVE Kept
  <2>1. Agreement(L, ids', overflow', locals', rt', backend', net', strand') /\ faulty' = faulty
    BY <1>2, <1>4 DEF vars, counters, Now
  <2> QED
    BY <2>1, NowKept
<1>5. ASSUME NEW n \in Nodes, Ui(n) \/ Posted(n) \/ StartBackend(n) \/ Tick(n)
                             \/ InputThread(n) \/ Lapse(n)
      PROVE  Kept
  BY <1>1, <1>2, <1>5, UiKeeps, InputKeeps, StopRuntimeKeeps, StartBackendKeeps, TickKeeps,
     InputThreadKeeps, LapseKeeps DEF Posted
<1>6. ASSUME NEW p \in Nodes, NEW n \in Nodes, Receive(p, n) \/ LoseMessage(p, n)
      PROVE  Kept
  BY <1>1, <1>2, <1>6, ReceiveKeeps, LoseMessageKeeps
<1>7. Kept
  BY <1>4, <1>5, <1>6 DEF Next
<1> QED
  BY <1>1, <1>3, <1>7 DEF Kept, ProtocolInv, Now

(* What may be injected has the token of the present admission.            *)
LEMMA InjectedIsFresh == ProtocolInv => NoStaleInput
<1> SUFFICES ASSUME ProtocolInv, NEW n \in Nodes, Injects(n)
             PROVE  LET i == Head(backend[n].queue) IN i.local = locals[n] /\ i.focus = rt[n].focus
  BY DEF NoStaleInput
<1> DEFINE i == Head(backend[n].queue)
           g == rt[n].grant
<1>1. PICK L : Now(L)
  BY DEF ProtocolInv, Now
<1>2. LeaseInv
  BY DEF ProtocolInv
<1>3. /\ backend[n].lease # 0 /\ ~backend[n].paused /\ backend[n].queue # <<>>
      /\ i.epoch = backend[n].epoch
  BY DEF Injects, Permits, Accepts
<1>4. /\ rt[n].state = "Controlled" /\ backend[n].lease = g
      /\ backend[n].queue \in Seq(OfGrant(backend[n].lease)) /\ rt[n] \in Runtime
      /\ backend[n].queue \in Seq(InputRecords)
      /\ Role(L, ids, n, rt[n], overflow[n])
  BY <1>1, <1>2, <1>3, NowFacts DEF Safe, Backend
<1>5. g \in 1 .. ids /\ L[g].host = n
  BY <1>4 DEF Role
<1>6. i \in Queued(backend[n], g)
  <2>1. i \in OfGrant(backend[n].lease)
    BY <1>3, <1>4, HeadTailProperties
  <2>2. i \in Range(backend[n].queue)
    BY <1>3, <1>4, TailFacts
  <2> QED
    BY <1>4, <2>1, <2>2 DEF Queued, OfGrant
<1>7. At(L, locals, rt, backend, net, strand, g)
  BY <1>1, <1>5 DEF Now, Agreement
<1>8. Valid(i, rt[n].focus, backend[n], locals[n])
  <2> HIDE DEF i, g
  <2>1. rt[n].grant = g
    BY DEF g
  <2> QED
    BY <1>5, <1>6, <1>7, <2>1 DEF At, Session, Fresh
<1> QED
  BY <1>3, <1>8 DEF Valid, Known

(* Two participants never meet a protocol error, however their sessions    *)
(* end and overlap: the checks of handle and the counters txSequence_,     *)
(* rxSequence_ and focusSequence_ of Runtime (remote_control.cpp) are      *)
(* never found inconsistent between two participants that run it.          *)
THEOREM NoProtocolError == Spec => []NeverProtocolError
<1>1. Spec => []ProtocolInv
  BY ProtocolInvInit, ProtocolInvStep, PTL DEF Spec
<1>2. ProtocolInv => NeverProtocolError
  BY DEF ProtocolInv, NeverProtocolError
<1> QED
  BY <1>1, <1>2, PTL

(* What is injected was made after the host's user last touched the        *)
(* keyboard or the mouse and under the last change of focus that has       *)
(* arrived: the tokens of input_arbitration.h against InputState and the   *)
(* queue of remote_input.cpp.                                              *)
THEOREM InjectedInputIsFresh == Spec => []NoStaleInput
<1>1. Spec => []ProtocolInv
  BY ProtocolInvInit, ProtocolInvStep, PTL DEF Spec
<1> QED
  BY <1>1, InjectedIsFresh, PTL
=============================================================================
