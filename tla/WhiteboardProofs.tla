-------------------------- MODULE WhiteboardProofs --------------------------
(***************************************************************************)
(* Theorems about Whiteboard, for any number of participants, changes of   *)
(* the host, gestures, losses and restarts: a number is given only by      *)
(* somebody who has all the numbers before it; nothing gets two numbers;   *)
(* whoever may edit sees what the log makes, and no gesture is numbered    *)
(* after a lock, a clear or another host that its author had not seen.     *)
(*                                                                         *)
(* First the authority. Most of what a board does leaves it alone: it is   *)
(* Gentle, and one lemma shows that Gentle steps keep the invariant IInv.  *)
(* The others are shown one by one: a commit, a change of the host as one  *)
(* participant hears of it, a handover, a board that is opened or lost.    *)
(*                                                                         *)
(* Then the content: what the log makes (Made), when a board and a message *)
(* agree with it (BoardTrue, MessageTrue), and that every step keeps them  *)
(* so. Most steps are Quietly, which changes neither the log nor the hosts; *)
(* the others give a number, change the host, or lose a board.             *)
(***************************************************************************)
EXTENDS Whiteboard, WellFoundedInduction, NaturalsInduction, TLAPS

-----------------------------------------------------------------------------
(* Induction *)

\* A set of numbers that is not empty has a least one.
LEMMA Least ==
  ASSUME NEW T \in SUBSET Nat, T # {}
  PROVE  \E x \in T : \A y \in T : x <= y
<1>1. PICK x \in T : \A y \in T : ~(<<y, x>> \in OpToRel(<, Nat))
  BY NatLessThanWellFounded, WFMin
<1>2. \A y \in T : ~(y < x)
  BY <1>1 DEF OpToRel
<1>3. QED BY <1>2

\* Induction, with a set of numbers instead of a predicate.
LEMMA Inductive ==
  ASSUME NEW S \in SUBSET Nat, 0 \in S, \A n \in Nat : n \in S => n + 1 \in S
  PROVE  \A n \in Nat : n \in S
<1>1. SUFFICES ASSUME Nat \ S # {} PROVE FALSE
  OBVIOUS
<1>2. PICK x \in Nat \ S : \A y \in Nat \ S : x <= y
  BY <1>1, Least
<1>3. x - 1 \in Nat /\ x - 1 \in S
  BY <1>2
<1>4. QED BY <1>2, <1>3

\* A set of positions that is not empty has a last one.
LEMMA LastOfIn ==
  ASSUME NEW n \in Nat, NEW S \in SUBSET (1..n), S # {}
  PROVE  LastOf(S) \in S /\ \A j \in S : j <= LastOf(S)
<1> DEFINE T == {n - i : i \in S}
<1>0. \A i \in S : i \in Nat /\ n - i \in Nat
  OBVIOUS
<1>1. T \in SUBSET Nat /\ T # {}
  BY <1>0
<1>2. PICK x \in T : \A y \in T : x <= y
  BY <1>1, Least
<1>3. PICK i \in S : x = n - i
  BY <1>2
<1>4. \A j \in S : j <= i
  <2>1. TAKE j \in S
  <2>2. n - j \in T
    OBVIOUS
  <2>3. n - i <= n - j
    BY <1>2, <1>3, <2>2
  <2>4. QED BY <2>3
<1>5. QED BY <1>4 DEF LastOf

-----------------------------------------------------------------------------
(* Types *)

Drawing == {"add", "undo", "clear"}
Ids == Peers \X Nat
Commands == [id : Ids, kind : Drawing, epoch : Nat, seen : Nat]
Drawings == [seq : Nat, kind : Drawing, id : Ids, epoch : Nat, seen : Nat]
Locks == [seq : Nat, kind : {"lock"}, locked : BOOLEAN]
Entries == Drawings \cup Locks
Handoffs == [kind : {"handoff"}, host : Peers]
Bodies == [on : SUBSET Ids, epoch : Nat]
Docs == [on : SUBSET Ids, undo : Seq(Ids), epoch : Nat, accepted : SUBSET Ids]
States == {"none", "frozen", "readonly", "synchronizing", "ready"}
Boards == [state : States, seq : Nat, doc : Docs, locked : BOOLEAN, log : Seq(Entries),
           known : SUBSET Drawings, pending : SUBSET Commands, source : Peers \cup {None},
           offering : BOOLEAN, up : BOOLEAN]
Shots == [kind : {"descriptor", "snapshot"}, host : Peers, seq : Nat, body : Bodies,
          locked : BOOLEAN]
Commits == [kind : {"commit"}, host : Peers, entry : Entries]
Syncs == [kind : {"sync"}, host : Peers, base : Nat]
Deltas == [kind : {"delta"}, host : Peers, base : Nat, entries : Seq(Entries)]
Proposals == [kind : {"propose"}, host : Peers, cmd : Commands]
Rejects == [kind : {"reject"}, host : Peers, id : Ids]
Heartbeats == [kind : {"heartbeat"}, host : Peers, seq : Nat]
Notices == [kind : {"left", "joined"}]
Messages == Shots \cup Commits \cup Syncs \cup Deltas \cup Proposals \cup Rejects
              \cup Heartbeats \cup Notices
Nets == [Peers -> [Peers -> Seq(Messages)]]

Counts == [gestures : Nat, locks : Nat, breaks : Nat, crashes : Nat, misses : Nat]

\* What Drawn and Verdict need of a command or an entry.
IsCommand(c) == c.id \in Ids /\ c.kind \in Drawing /\ c.epoch \in Nat

TypeOK ==
  /\ hosts \in Seq(Peers) /\ hosts # <<>>
  /\ heard \in [Peers -> 1..Len(hosts)]
  /\ board \in [Peers -> Boards]
  /\ net \in Nets
  /\ history \in Seq(Entries \cup Handoffs)
  /\ used \in Counts

\* The fields of a document.
LEMMA DocFields ==
  ASSUME NEW d \in Docs
  PROVE  /\ d.on \in SUBSET Ids /\ d.undo \in Seq(Ids) /\ d.epoch \in Nat
         /\ d.accepted \in SUBSET Ids
BY DEF Docs

\* Two fields of a document are replaced.
EpochSet(d, x, y) == [d EXCEPT !.epoch = x, !.accepted = y]
\* It is a document that differs in just these two.
LEMMA DocAt ==
  ASSUME NEW d \in Docs, NEW x \in Nat, NEW y \in SUBSET Ids
  PROVE  LET e == EpochSet(d, x, y)
         IN  /\ e \in Docs
             /\ e.on = d.on /\ e.undo = d.undo /\ e.epoch = x /\ e.accepted = y
BY DEF Docs, EpochSet

\* Two others are replaced.
DrawnSet(d, x, y) == [d EXCEPT !.on = x, !.undo = y]
\* It is a document that differs in just these two.
LEMMA DocWith ==
  ASSUME NEW d \in Docs, NEW x \in SUBSET Ids, NEW y \in Seq(Ids)
  PROVE  LET e == DrawnSet(d, x, y)
         IN  /\ e \in Docs
             /\ e.on = x /\ e.undo = y /\ e.epoch = d.epoch /\ e.accepted = d.accepted
BY DEF Docs, DrawnSet

\* The accepted commands are replaced.
AcceptedSet(d, x) == [d EXCEPT !.accepted = x]
\* It is a document that differs in just this.
LEMMA DocAccepting ==
  ASSUME NEW d \in Docs, NEW x \in SUBSET Ids
  PROVE  LET e == AcceptedSet(d, x)
         IN  /\ e \in Docs
             /\ e.on = d.on /\ e.undo = d.undo /\ e.epoch = d.epoch /\ e.accepted = x
BY DEF Docs, AcceptedSet

\* A barrier is one epoch later and has accepted nothing.
LEMMA BarrierType ==
  ASSUME NEW d \in Docs
  PROVE  /\ Barrier(d) \in Docs
         /\ Barrier(d).epoch = d.epoch + 1 /\ Barrier(d).accepted = {}
         /\ Barrier(d).on = d.on /\ Barrier(d).undo = d.undo
<1>1. d.epoch + 1 \in Nat /\ {} \in SUBSET Ids
  BY DocFields
<1>2. Barrier(d) = EpochSet(d, d.epoch + 1, {})
  BY DEF Barrier, EpochSet
<1>3. QED BY <1>1, <1>2, DocAt

\* Documents to and from snapshots.
LEMMA SnapshotType ==
  ASSUME NEW d \in Docs
  PROVE  /\ Snapshot(d) \in Bodies
         /\ Snapshot(d).on = d.on /\ Snapshot(d).epoch = d.epoch
BY DEF Snapshot, Docs, Bodies

\* A snapshot becomes a document.
LEMMA RestoredType ==
  ASSUME NEW s \in Bodies
  PROVE  /\ Restored(s) \in Docs
         /\ Restored(s).on = s.on /\ Restored(s).epoch = s.epoch
         /\ Restored(s).undo = <<>> /\ Restored(s).accepted = {}
BY DEF Restored, Docs, Bodies

\* The new document is a document.
LEMMA NewDocType == NewDoc \in Docs /\ NewDoc.epoch = 1 /\ NewDoc.accepted = {}
BY DEF NewDoc, Docs

\* What an undo takes back is a position of the undo list.
LEMMA UndoableIn ==
  ASSUME NEW d \in Docs, NEW author, Undoable(d, author) # {}
  PROVE  LET i == LastOf(Undoable(d, author))
         IN  /\ i \in 1..Len(d.undo) /\ i \in Undoable(d, author)
             /\ \A j \in Undoable(d, author) : j <= i
<1>1. Len(d.undo) \in Nat
  BY DocFields
<1>2. Undoable(d, author) \in SUBSET (1..Len(d.undo))
  BY DEF Undoable
<1>3. QED BY <1>1, <1>2, LastOfIn

\* A sequence without one of its elements.
LEMMA WithoutAtType ==
  ASSUME NEW S, NEW s \in Seq(S), NEW i \in 1..Len(s)
  PROVE  WithoutAt(s, i) \in Seq(S)
BY DEF WithoutAt

\* Drawing keeps the epoch and remembers the command; a clear begins an epoch
\* of its own.
LEMMA DrawnType ==
  ASSUME NEW d \in Docs, NEW c, IsCommand(c)
  PROVE  /\ Drawn(d, c) \in Docs
         /\ c.kind = "clear" => /\ Drawn(d, c).epoch = d.epoch + 1
                                /\ Drawn(d, c).accepted = {c.id}
         /\ c.kind # "clear" => /\ Drawn(d, c).epoch = d.epoch
                                /\ Drawn(d, c).accepted = d.accepted \cup {c.id}
<1> DEFINE a == AcceptedSet(d, d.accepted \cup {c.id})
           i == LastOf(Undoable(d, c.id[1]))
<1>0. c.id \in Ids /\ c.kind \in Drawing
  BY DEF IsCommand
<1>1. a \in Docs /\ a.epoch = d.epoch /\ a.accepted = d.accepted \cup {c.id}
      /\ a.undo = d.undo /\ a.on = d.on
  <2>1. d.accepted \cup {c.id} \in SUBSET Ids
    BY <1>0, DocFields
  <2>2. QED BY <2>1, DocAccepting
<1> HIDE DEF a, i
<1>2. CASE c.kind = "add"
  <2> DEFINE x == a.on \cup {c.id}
             y == Append(a.undo, c.id)
  <2>1. Drawn(d, c) = DrawnSet(a, x, y)
    BY <1>2 DEF Drawn, DrawnSet, AcceptedSet, a
  <2>2. y \in Seq(Ids) /\ x \in SUBSET Ids
    BY <1>0, <1>1, DocFields
  <2> HIDE DEF x, y
  <2>3. QED BY <1>1, <1>2, <2>1, <2>2, DocWith
<1>3. CASE c.kind = "undo" /\ Undoable(d, c.id[1]) # {}
  <2> DEFINE x == a.on \ {d.undo[i]}
             y == WithoutAt(a.undo, i)
  <2>1. Drawn(d, c) = DrawnSet(a, x, y)
    BY <1>3 DEF Drawn, DrawnSet, AcceptedSet, a, i
  <2>2. y \in Seq(Ids) /\ x \in SUBSET Ids
    BY <1>1, <1>3, UndoableIn, WithoutAtType, DocFields DEF i
  <2> HIDE DEF x, y
  <2>3. QED BY <1>1, <1>3, <2>1, <2>2, DocWith
<1>4. CASE c.kind = "clear"
  <2> DEFINE x == {}
             y == <<>>
             e == DrawnSet(d, x, y)
             b == Barrier(e)
  <2>1. Drawn(d, c) = AcceptedSet(b, {c.id})
    BY <1>4 DEF Drawn, DrawnSet, AcceptedSet
  <2>2. x \in SUBSET Ids /\ y \in Seq(Ids) /\ {c.id} \in SUBSET Ids
    BY <1>0
  <2>3. e \in Docs /\ e.epoch = d.epoch
    <3> HIDE DEF x, y
    <3>1. QED BY <2>2, DocWith
  <2> HIDE DEF e
  <2>4. b \in Docs /\ b.epoch = d.epoch + 1
    BY <2>3, BarrierType
  <2> HIDE DEF b
  <2>5. QED BY <1>4, <2>1, <2>2, <2>4, DocAccepting
<1>5. CASE c.kind = "undo" /\ Undoable(d, c.id[1]) = {}
  <2>1. Drawn(d, c) = a
    BY <1>5 DEF Drawn, AcceptedSet, a
  <2>2. QED BY <1>1, <1>5, <2>1
<1>6. QED BY <1>0, <1>2, <1>3, <1>4, <1>5 DEF Drawing

\* A verdict that is not "stale" is of a command of the present epoch.
LEMMA VerdictSays ==
  ASSUME NEW d, NEW c, NEW owner
  PROVE  /\ Verdict(d, c, owner) = "applied" => c.epoch = d.epoch /\ c.id \notin d.accepted
         /\ Verdict(d, c, owner) \in {"applied", "duplicate"} => c.epoch = d.epoch
BY DEF Verdict

-----------------------------------------------------------------------------
(* What is under way *)

Way(n, a, b) == {n[a][b][k] : k \in 1..Len(n[a][b])}

\* The kind of a message, and the fields that its kind gives it.
LEMMA MessageFields ==
  ASSUME NEW m \in Messages
  PROVE  /\ m.kind \in Data \cup {"left", "joined"}
         /\ m.kind \in Data => m.host \in Peers
         /\ m.kind \in {"descriptor", "snapshot"} => m \in Shots
         /\ m.kind = "commit" => m \in Commits
         /\ m.kind = "sync" => m \in Syncs
         /\ m.kind = "delta" => m \in Deltas
         /\ m.kind = "propose" => m \in Proposals
         /\ m.kind = "reject" => m \in Rejects
         /\ m.kind = "heartbeat" => m \in Heartbeats
BY DEF Messages, Data, Shots, Commits, Syncs, Deltas, Proposals, Rejects, Heartbeats, Notices

\* An entry is a drawing or a lock.
LEMMA EntryFields ==
  ASSUME NEW e \in Entries
  PROVE  /\ e.seq \in Nat /\ e.kind \in Drawing \cup {"lock"}
         /\ e.kind = "lock" => e \in Locks /\ e.locked \in BOOLEAN
         /\ e.kind # "lock" => e \in Drawings /\ IsCommand(e) /\ e.seen \in Nat
BY DEF Entries, Drawings, Locks, IsCommand, Drawing

\* A command is a command.
LEMMA CommandFields ==
  ASSUME NEW c \in Commands
  PROVE  IsCommand(c) /\ c.seen \in Nat
BY DEF Commands, IsCommand

\* The fields of a board.
LEMMA BoardFields ==
  ASSUME NEW b \in Boards
  PROVE  /\ b.state \in States /\ b.seq \in Nat /\ b.doc \in Docs /\ b.locked \in BOOLEAN
         /\ b.log \in Seq(Entries) /\ b.known \in SUBSET Drawings
         /\ b.pending \in SUBSET Commands /\ b.source \in Peers \cup {None}
         /\ b.offering \in BOOLEAN /\ b.up \in BOOLEAN
BY DEF Boards

\* What is under way is a message.
LEMMA WayType ==
  ASSUME NEW n \in Nets, NEW a \in Peers, NEW b \in Peers, NEW m \in Way(n, a, b)
  PROVE  m \in Messages
<1>1. n[a][b] \in Seq(Messages)
  BY DEF Nets
<1>2. QED BY <1>1 DEF Way

\* The first message is one of those under way.
LEMMA FirstOfWay ==
  ASSUME NEW n \in Nets, NEW a \in Peers, NEW b \in Peers, n[a][b] # <<>>
  PROVE  Head(n[a][b]) \in Way(n, a, b) /\ Head(n[a][b]) \in Messages
<1>1. n[a][b] \in Seq(Messages)
  BY DEF Nets
<1>2. QED BY <1>1 DEF Way

\* Appending to a channel adds what is appended.
LEMMA WayOfAppend ==
  ASSUME NEW S, NEW s \in Seq(S), NEW m
  PROVE  \A k \in 1..Len(Append(s, m)) : Append(s, m)[k] = m \/ \E i \in 1..Len(s) : Append(s, m)[k] = s[i]
<1>1. TAKE k \in 1..Len(Append(s, m))
<1>2. CASE k = Len(s) + 1
  BY <1>2
<1>3. CASE k \in 1..Len(s)
  BY <1>3
<1>4. QED BY <1>2, <1>3

\* m is appended to the ways from p to the members of D.
Posted(n, p, D, m) ==
  [n EXCEPT ![p] = [q \in Peers |-> IF q \in D THEN Append(n[p][q], m) ELSE n[p][q]]]

\* That adds the message, and only on the way to its addressees.
LEMMA PostedWay ==
  ASSUME NEW n \in Nets, NEW p \in Peers, NEW D \in SUBSET Peers, NEW m \in Messages
  PROVE  /\ Posted(n, p, D, m) \in Nets
         /\ \A a, b \in Peers : \A x \in Way(Posted(n, p, D, m), a, b) :
               x \in Way(n, a, b) \/ (a = p /\ b \in D /\ x = m)
<1> DEFINE t == Posted(n, p, D, m)
<1>2. \A q \in Peers : n[p][q] \in Seq(Messages) /\ Append(n[p][q], m) \in Seq(Messages)
  BY DEF Nets
<1>3. t \in Nets
  BY <1>2 DEF Nets, Posted
<1>4. ASSUME NEW a \in Peers, NEW b \in Peers, NEW x \in Way(t, a, b)
      PROVE  x \in Way(n, a, b) \/ (a = p /\ b \in D /\ x = m)
  <2>1. CASE a = p /\ b \in D
    <3>1. t[a][b] = Append(n[a][b], m)
      BY <2>1 DEF Nets, Posted
    <3>2. PICK k \in 1..Len(t[a][b]) : x = t[a][b][k]
      BY <1>4 DEF Way
    <3>3. QED BY <1>2, <2>1, <3>1, <3>2, WayOfAppend DEF Way
  <2>2. CASE ~(a = p /\ b \in D)
    <3>1. t[a][b] = n[a][b]
      BY <2>2 DEF Nets, Posted
    <3>2. QED BY <1>4, <3>1 DEF Way
  <2>3. QED BY <2>1, <2>2
<1>5. QED BY <1>3, <1>4

\* Two messages in a row.
LEMMA TwoInARow ==
  ASSUME NEW S, NEW x \in S, NEW y \in S
  PROVE  /\ Append(<<x>>, y) \in Seq(S)
         /\ \A k \in 1..Len(Append(<<x>>, y)) : Append(<<x>>, y)[k] \in {x, y}
<1>1. <<x>> \in Seq(S) /\ \A i \in 1..Len(<<x>>) : <<x>>[i] = x
  OBVIOUS
<1> DEFINE s == <<x>>
<1> HIDE DEF s
<1>2. s \in Seq(S) /\ \A i \in 1..Len(s) : s[i] = x
  BY <1>1 DEF s
<1>3. Append(s, y) \in Seq(S) /\ \A k \in 1..Len(Append(s, y)) : Append(s, y)[k] \in {x, y}
  BY <1>2, WayOfAppend
<1>4. QED BY <1>3 DEF s

\* Sending adds at most the message, and only on the way to its addressees.
LEMMA SentWay ==
  ASSUME NEW n \in Nets, NEW p \in Peers, NEW D \in SUBSET Peers, NEW m \in Messages
  PROVE  /\ Sent(n, p, D, m) \in Nets
         /\ \A a, b \in Peers : \A x \in Way(Sent(n, p, D, m), a, b) :
               x \in Way(n, a, b) \/ (a = p /\ b \in D /\ x = m)
<1>1. Sent(n, p, D, m) = n \/ Sent(n, p, D, m) = Posted(n, p, D, m)
  BY DEF Sent, Posted
<1>2. /\ Posted(n, p, D, m) \in Nets
      /\ \A a, b \in Peers : \A x \in Way(Posted(n, p, D, m), a, b) :
            x \in Way(n, a, b) \/ (a = p /\ b \in D /\ x = m)
  BY PostedWay
<1>3. CASE Sent(n, p, D, m) = n
  BY <1>3
<1>4. CASE Sent(n, p, D, m) = Posted(n, p, D, m)
  BY <1>2, <1>4
<1>5. QED BY <1>1, <1>3, <1>4

\* Taking the first message adds nothing.
LEMMA TakenWay ==
  ASSUME net \in Nets, NEW p \in Peers, NEW q \in Peers, net[p][q] # <<>>
  PROVE  /\ Taken(p, q) \in Nets
         /\ \A a, b \in Peers : Way(Taken(p, q), a, b) \subseteq Way(net, a, b)
<1>1. \A a, b \in Peers : net[a][b] \in Seq(Messages)
  BY DEF Nets
<1>2. Tail(net[p][q]) \in Seq(Messages)
  BY <1>1
<1>3. Taken(p, q) \in Nets
  BY <1>2 DEF Taken, Nets
<1>4. ASSUME NEW a \in Peers, NEW b \in Peers, NEW x \in Way(Taken(p, q), a, b)
      PROVE  x \in Way(net, a, b)
  <2>1. CASE a = p /\ b = q
    <3>1. Taken(p, q)[a][b] = Tail(net[a][b])
      BY <2>1 DEF Taken, Nets
    <3>2. PICK k \in 1..Len(Tail(net[a][b])) : x = Tail(net[a][b])[k]
      BY <1>4, <3>1 DEF Way
    <3>3. k + 1 \in 1..Len(net[a][b]) /\ x = net[a][b][k + 1]
      BY <1>1, <2>1, <3>2
    <3>4. QED BY <3>3 DEF Way
  <2>2. CASE ~(a = p /\ b = q)
    <3>1. Taken(p, q)[a][b] = net[a][b]
      BY <2>2 DEF Taken, Nets
    <3>2. QED BY <1>4, <3>1 DEF Way
  <2>3. QED BY <2>1, <2>2
<1>5. QED BY <1>3, <1>4

-----------------------------------------------------------------------------
(* The authority *)

Reign == Len(hosts)
NewHost == hosts[Len(hosts)]
OldHost == hosts[Len(hosts) - 1]
\* The present host has heard that it is, and has taken over.
Seated == heard[NewHost] = Reign /\ board[NewHost].source = None
\* The last host has handed over, and its successor has not taken over yet.
Vacant == Reign > 1 /\ heard[OldHost] = Reign /\ ~Seated

\* A host hears of being one, and of its successor, before the one after that.
ChainInv ==
  /\ \A i \in 1..(Reign - 1) : hosts[i] # hosts[i + 1]
  /\ \A i \in 1..Reign : board[hosts[i]].state # "none"
  /\ \A i \in 1..(Reign - 1) : heard[hosts[i]] >= i
  /\ \A i \in 1..(Reign - 2) : heard[hosts[i]] > i

\* Only the present host waits for a predecessor, and takes over only what
\* that one has handed over.
SeatInv ==
  /\ \A p \in Peers : board[p].source # None => p = NewHost /\ heard[p] = Reign /\ Reign > 1
  /\ Reign > 1 /\ Seated => heard[OldHost] = Reign
  /\ \A p \in Peers : board[p].state = "none" => board[p] = Closed

\* The authority has all the numbers, and an offer is not ahead of the host.
Offered(p) ==
  /\ ~IsHost(p)
  /\ board[p].seq <= board[Host(p)].seq \/ (Vacant /\ p = OldHost)
SeqInv ==
  /\ \A p \in Peers : board[p].seq <= Len(history)
  /\ \A p \in Peers : Leads(p) => board[p].seq = Len(history)
  /\ Vacant => board[OldHost].seq = Len(history)
  /\ \A p \in Peers : board[p].offering => Offered(p)
  /\ \A p \in Peers : \A k \in 1..Len(board[p].log) : board[p].log[k].seq <= board[p].seq
  /\ \A p \in Peers : \A e \in board[p].known : e.seq <= board[p].seq

\* The authority's document knows every command of the log: it is of an earlier
\* interaction or it was accepted.
Covers(d) == \A i \in 1..Len(history) : history[i].kind \in Drawing =>
               /\ history[i].epoch <= d.epoch
               /\ history[i].epoch = d.epoch => history[i].id \in d.accepted
Above(n) == \A i \in 1..Len(history) : history[i].kind \in Drawing => history[i].epoch < n
CoverInv ==
  /\ \A p \in Peers : Leads(p) => Covers(board[p].doc)
  /\ Vacant => Above(board[OldHost].doc.epoch)

\* The numbers that a message tells of.
Numbered(m) == m.kind \in {"descriptor", "snapshot", "heartbeat", "commit", "delta"}
NumbersUpTo(m, n) ==
  /\ m.kind \in {"descriptor", "snapshot", "heartbeat"} => m.seq <= n
  /\ m.kind = "commit" => m.entry.seq <= n
  /\ m.kind = "delta" => m.base < n /\ \A k \in 1..Len(m.entries) : m.entries[k].seq <= n
\* The last snapshot of the old host, on its way to the new one.
Handing(p, q, m) ==
  Vacant /\ q = NewHost /\ p = OldHost /\ m.seq = Len(history) /\ Above(m.body.epoch)
MsgOK(p, q, m) ==
  /\ p # q /\ board[q].state # "none"
  /\ NumbersUpTo(m, board[p].seq)
  /\ Vacant /\ Numbered(m) /\ m.host = p => NumbersUpTo(m, Len(history) - 1)
  /\ m.kind = "snapshot" /\ m.host = q => m.seq <= board[q].seq \/ Handing(p, q, m)
NetInv == \A p, q \in Peers : \A m \in Way(net, p, q) : MsgOK(p, q, m)

IInv == TypeOK /\ ChainInv /\ SeatInv /\ SeqInv /\ CoverInv /\ NetInv

\* The host of p is a peer, and so are the last two hosts.
LEMMA HostType ==
  ASSUME TypeOK
  PROVE  /\ Reign \in Nat \ {0}
         /\ \A i \in 1..Reign : hosts[i] \in Peers
         /\ \A p \in Peers : heard[p] \in 1..Reign /\ Host(p) \in Peers
         /\ NewHost \in Peers
         /\ Reign > 1 => OldHost \in Peers /\ Reign - 1 \in 1..Reign
BY DEF TypeOK, Reign, NewHost, OldHost, Host

\* Two hosts in turn are different.
LEMMA HostsDiffer ==
  ASSUME TypeOK, ChainInv, Reign > 1
  PROVE  OldHost # NewHost
<1>1. Reign - 1 \in 1..(Reign - 1) /\ Reign - 1 + 1 = Reign
  BY HostType
<1>2. hosts[Reign - 1] # hosts[Reign]
  BY <1>1 DEF ChainInv
<1>3. QED BY <1>2 DEF OldHost, NewHost, Reign

\* Who believes to be the host is the present one or the last one before it
\* hears of its successor.
LEMMA WhoIsHost ==
  ASSUME TypeOK, ChainInv, NEW p \in Peers, IsHost(p)
  PROVE  \/ heard[p] = Reign /\ p = NewHost
         \/ heard[p] = Reign - 1 /\ p = OldHost /\ Reign > 1 /\ p # NewHost
<1>1. heard[p] \in 1..Reign /\ hosts[heard[p]] = p /\ Reign \in Nat \ {0}
  BY HostType DEF IsHost, Host
<1>2. heard[p] >= Reign - 1
  BY <1>1 DEF ChainInv
<1>3. CASE heard[p] = Reign
  BY <1>1, <1>3 DEF NewHost, Reign
<1>4. CASE heard[p] = Reign - 1
  <2>1. Reign > 1 /\ p = OldHost
    BY <1>1, <1>4 DEF OldHost, Reign
  <2>2. QED BY <1>4, <2>1, HostsDiffer
<1>5. QED BY <1>1, <1>2, <1>3, <1>4

\* There is one authority, and none while the board is handed over.
LEMMA OneLeads ==
  ASSUME TypeOK, ChainInv, SeatInv, NEW p \in Peers, Leads(p)
  PROVE  /\ ~Vacant
         /\ board[p].state # "none" /\ board[p].source = None
         /\ p = NewHost => heard[p] = Reign /\ (Reign > 1 => heard[OldHost] = Reign)
         /\ p # NewHost => p = OldHost /\ heard[p] = Reign - 1 /\ Reign > 1
         /\ \A q \in Peers : Leads(q) => q = p
<1>1. \A q \in Peers : Leads(q) => IsHost(q) /\ board[q].source = None
  BY DEF Leads
<1>2. \A q \in Peers : Leads(q) =>
         \/ heard[q] = Reign /\ q = NewHost /\ Seated
         \/ heard[q] = Reign - 1 /\ q = OldHost /\ Reign > 1 /\ q # NewHost
  BY <1>1, WhoIsHost DEF Seated
<1>3. Reign > 1 /\ Seated => heard[OldHost] = Reign
  BY DEF SeatInv
<1>4. Reign \in Nat
  BY HostType
<1>5. board[p].state # "none"
  <2>1. hosts[heard[p]] = p /\ heard[p] \in 1..Reign
    BY <1>1, HostType DEF IsHost, Host
  <2>2. QED BY <2>1 DEF ChainInv
<1>6. QED BY <1>1, <1>2, <1>3, <1>4, <1>5 DEF Vacant

-----------------------------------------------------------------------------
(* Steps that change no host, give no number and draw nothing new *)

\* What may become of a board: who leads, and who hands over, stays as it is, the
\* others follow their host.
Eased(p, b) ==
  /\ board[p].state = "none" => b = board[p]
  /\ b.state = "none" => board[p].state = "none"
  /\ b.source = board[p].source
  /\ b.offering => board[p].offering
  /\ b.log = board[p].log /\ b.known = board[p].known
  /\ b.seq >= board[p].seq
  /\ b.seq = board[p].seq \/ (~IsHost(p) /\ b.seq <= board[Host(p)].seq)
  /\ Leads(p) \/ (Vacant /\ p = OldHost) => b.seq = board[p].seq /\ b.doc = board[p].doc

Gentle ==
  /\ hosts' = hosts /\ heard' = heard /\ history' = history
  /\ board' \in [Peers -> Boards] /\ \A p \in Peers : Eased(p, board'[p])
  /\ net' \in Nets /\ \A p, q \in Peers : \A m \in Way(net', p, q) : MsgOK(p, q, m)
  /\ used' \in Counts

\* What is bounded by a number is bounded by a greater one.
LEMMA NumbersMonotone ==
  ASSUME NEW m \in Messages, NEW i \in Int, NEW j \in Int, i <= j, NumbersUpTo(m, i)
  PROVE  NumbersUpTo(m, j)
<1>1. m.kind \in {"descriptor", "snapshot"} => m.seq \in Nat
  BY MessageFields DEF Shots
<1>2. m.kind = "heartbeat" => m.seq \in Nat
  BY MessageFields DEF Heartbeats
<1>3. m.kind = "commit" => m.entry.seq \in Nat
  BY MessageFields, EntryFields DEF Commits
<1>4. m.kind = "delta" => m.base \in Nat /\ \A k \in 1..Len(m.entries) : m.entries[k].seq \in Nat
  <2>1. m.kind = "delta" => m.base \in Nat /\ m.entries \in Seq(Entries)
    BY MessageFields DEF Deltas
  <2>2. QED BY <2>1, EntryFields
<1>5. QED BY <1>1, <1>2, <1>3, <1>4 DEF NumbersUpTo

\* They keep the invariant.
LEMMA GentleKeeps ==
  ASSUME IInv, Gentle
  PROVE  IInv'
<1> USE DEF IInv, Gentle
<1>1. TypeOK'
  BY DEF TypeOK
<1>2. \A p \in Peers : /\ board[p] \in Boards /\ board'[p] \in Boards
                       /\ board[p].seq \in Nat /\ board'[p].seq \in Nat
  BY BoardFields DEF TypeOK
<1>3. /\ Reign' = Reign /\ NewHost' = NewHost /\ OldHost' = OldHost
      /\ \A p \in Peers : Host(p)' = Host(p) /\ IsHost(p)' = IsHost(p)
      /\ \A n : Above(n)' = Above(n)
      /\ \A d : Covers(d)' = Covers(d)
  BY DEF Reign, NewHost, OldHost, Host, IsHost, Above, Covers
<1>4. Seated' = Seated /\ Vacant' = Vacant /\ \A p \in Peers : Leads(p)' = Leads(p)
  BY <1>3, HostType DEF Seated, Vacant, Leads, Eased
<1>5. ChainInv'
  <2>1. \A i \in 1..Reign : board'[hosts[i]].state # "none"
    BY HostType DEF ChainInv, Eased
  <2>2. QED BY <1>3, <2>1 DEF ChainInv
<1>6. SeatInv'
  BY <1>3, <1>4 DEF SeatInv, Eased
<1>7. Len(history) \in Nat /\ Reign \in Nat \ {0}
  BY HostType DEF TypeOK
<1>8. SeqInv'
  <2>1. \A p \in Peers : board'[p].seq <= Len(history)
    BY <1>2, <1>7, HostType DEF SeqInv, Eased
  <2>2. \A p \in Peers : Leads(p) => board'[p].seq = Len(history)
    BY DEF SeqInv, Eased
  <2>3. Vacant => board'[OldHost].seq = Len(history)
    BY HostType DEF SeqInv, Eased, Vacant
  <2>4. ASSUME NEW p \in Peers, board'[p].offering PROVE Offered(p)'
    <3>1. board[p].offering /\ Offered(p)
      BY <2>4 DEF Eased, SeqInv
    <3>2. board'[Host(p)].seq >= board[Host(p)].seq
      BY HostType DEF Eased
    <3>3. board'[p].seq = board[p].seq \/ board'[p].seq <= board[Host(p)].seq
      BY DEF Eased
    <3>4. Host(p) \in Peers
      BY HostType
    <3>5. QED BY <1>2, <1>3, <1>4, <3>1, <3>2, <3>3, <3>4 DEF Offered
  <2>5. \A p \in Peers : \A k \in 1..Len(board'[p].log) : board'[p].log[k].seq <= board'[p].seq
    <3>1. TAKE p \in Peers
    <3>2. TAKE k \in 1..Len(board'[p].log)
    <3>3. board'[p].log = board[p].log /\ board[p].log \in Seq(Entries)
      BY <1>2, BoardFields DEF Eased
    <3>4. board[p].log[k].seq \in Nat
      BY <3>3, EntryFields
    <3>5. board[p].log[k].seq <= board[p].seq /\ board'[p].seq >= board[p].seq
      BY <3>3 DEF SeqInv, Eased
    <3>6. QED BY <1>2, <3>3, <3>4, <3>5
  <2>6. \A p \in Peers : \A e \in board'[p].known : e.seq <= board'[p].seq
    <3>1. TAKE p \in Peers
    <3>2. TAKE e \in board'[p].known
    <3>3. board'[p].known = board[p].known /\ board[p].known \in SUBSET Drawings
      BY <1>2, BoardFields DEF Eased
    <3>4. e.seq \in Nat
      BY <3>3 DEF Drawings
    <3>5. e.seq <= board[p].seq /\ board'[p].seq >= board[p].seq
      BY <3>3 DEF SeqInv, Eased
    <3>6. QED BY <1>2, <3>4, <3>5
  <2>7. QED BY <1>3, <1>4, <2>1, <2>2, <2>3, <2>4, <2>5, <2>6 DEF SeqInv
<1>9. CoverInv'
  <2>1. \A p \in Peers : Leads(p) => Covers(board'[p].doc)
    BY DEF CoverInv, Eased
  <2>2. Vacant => Above(board'[OldHost].doc.epoch)
    BY HostType DEF CoverInv, Eased, Vacant
  <2>3. QED BY <1>3, <1>4, <2>1, <2>2 DEF CoverInv
<1>10. NetInv'
  <2>1. SUFFICES ASSUME NEW p \in Peers, NEW q \in Peers, NEW m \in Way(net', p, q)
                 PROVE  MsgOK(p, q, m)'
    BY DEF NetInv, Way
  <2>2. MsgOK(p, q, m)
    OBVIOUS
  <2>3. m \in Messages
    BY WayType
  <2>4. board'[p].seq >= board[p].seq /\ board'[q].seq >= board[q].seq
    BY DEF Eased
  <2>5. NumbersUpTo(m, board'[p].seq)
    BY <1>2, <2>2, <2>3, <2>4, NumbersMonotone DEF MsgOK
  <2>6. m.kind = "snapshot" => m.seq \in Nat
    BY <2>3, MessageFields DEF Shots
  <2>7. Handing(p, q, m)' = Handing(p, q, m)
    BY <1>3, <1>4 DEF Handing
  <2>8. board'[q].state # "none"
    BY <2>2 DEF MsgOK, Eased
  <2>9. QED BY <1>2, <1>4, <2>2, <2>4, <2>5, <2>6, <2>7, <2>8 DEF MsgOK, NumbersUpTo, Numbered
<1>11. QED BY <1>1, <1>5, <1>6, <1>8, <1>9, <1>10

\* All that is under way is in order.
Fine(n) == n \in Nets /\ \A p, q \in Peers : \A m \in Way(n, p, q) : MsgOK(p, q, m)

\* So it is when a message has been taken.
LEMMA TakenFine ==
  ASSUME IInv, NEW p \in Peers, NEW q \in Peers, net[p][q] # <<>>
  PROVE  /\ Fine(Taken(p, q))
         /\ Head1(p, q) \in Messages /\ MsgOK(p, q, Head1(p, q))
<1>1. net \in Nets
  BY DEF IInv, TypeOK
<1>2. \A a, b \in Peers : \A m \in Way(net, a, b) : MsgOK(a, b, m)
  BY DEF IInv, NetInv
<1>3. QED BY <1>1, <1>2, TakenWay, FirstOfWay DEF Fine, Head1

\* And when one has been sent that is in order.
LEMMA SentFine ==
  ASSUME NEW n, Fine(n), NEW p \in Peers, NEW D \in SUBSET Peers, NEW m \in Messages,
         \A q \in D : MsgOK(p, q, m)
  PROVE  Fine(Sent(n, p, D, m))
<1>1. n \in Nets /\ \A a, b \in Peers : \A x \in Way(n, a, b) : MsgOK(a, b, x)
  BY DEF Fine
<1>2. \A a, b \in Peers : \A x \in Way(Sent(n, p, D, m), a, b) :
         x \in Way(n, a, b) \/ (a = p /\ b \in D /\ x = m)
  BY <1>1, SentWay
<1>3. Sent(n, p, D, m) \in Nets
  BY <1>1, SentWay
<1>4. QED BY <1>1, <1>2, <1>3 DEF Fine

\* The same for what is posted whatever the send buffer.
LEMMA PostedFine ==
  ASSUME NEW n, Fine(n), NEW p \in Peers, NEW D \in SUBSET Peers, NEW m \in Messages,
         \A q \in D : MsgOK(p, q, m)
  PROVE  Fine(Posted(n, p, D, m))
<1>1. n \in Nets /\ \A a, b \in Peers : \A x \in Way(n, a, b) : MsgOK(a, b, x)
  BY DEF Fine
<1>2. \A a, b \in Peers : \A x \in Way(Posted(n, p, D, m), a, b) :
         x \in Way(n, a, b) \/ (a = p /\ b \in D /\ x = m)
  BY <1>1, PostedWay
<1>3. Posted(n, p, D, m) \in Nets
  BY <1>1, PostedWay
<1>4. QED BY <1>1, <1>2, <1>3 DEF Fine

\* A message without numbers is in order.
LEMMA PlainOK ==
  ASSUME NEW p \in Peers, NEW q \in Peers, p # q, board[q].state # "none", NEW m,
         m.kind \in {"sync", "propose", "reject", "left", "joined"}
  PROVE  MsgOK(p, q, m)
BY DEF MsgOK, NumbersUpTo, Numbered

\* Those who have opened the board are peers, and others.
LEMMA OthersType ==
  ASSUME NEW p \in Peers
  PROVE  /\ Others(p) \in SUBSET Peers /\ p \notin Others(p)
         /\ \A q \in Others(p) : board[q].state # "none"
BY DEF Others

\* A request for synchronisation.
LEMMA SyncFine ==
  ASSUME TypeOK, NEW n, Fine(n), NEW p \in Peers, NEW b, b.seq \in Nat
  PROVE  Fine(SyncSent(n, p, b))
<1> DEFINE m == [kind |-> "sync", host |-> Host(p), base |-> b.seq]
           D == {IF b.source = None THEN Host(p) ELSE b.source} \cap Others(p)
<1>1. SyncSent(n, p, b) = Sent(n, p, D, m) \/ SyncSent(n, p, b) = n
  BY DEF SyncSent
<1>2. m \in Messages /\ m.kind = "sync"
  BY HostType DEF Messages, Syncs
<1>3. D \in SUBSET Peers /\ p \notin D /\ \A x \in D : board[x].state # "none"
  BY OthersType
<1> HIDE DEF m, D
<1>4. Fine(Sent(n, p, D, m))
  BY <1>2, <1>3, PlainOK, SentFine
<1>5. QED BY <1>1, <1>4

\* A board that is as it was is eased, and asking for synchronisation eases it.
LEMMA EasedSame ==
  ASSUME TypeOK, NEW p \in Peers
  PROVE  board[p] \in Boards /\ Eased(p, board[p])
<1>1. board[p] \in Boards /\ board[p].seq \in Nat
  BY BoardFields DEF TypeOK
<1>2. QED BY <1>1 DEF Eased

\* Only the state of a board that is open is replaced.
LEMMA EasedState ==
  ASSUME TypeOK, NEW p \in Peers, NEW b \in Boards, board[p].state # "none", Eased(p, b),
         NEW s \in States \ {"none"}
  PROVE  [b EXCEPT !.state = s] \in Boards /\ Eased(p, [b EXCEPT !.state = s])
<1> DEFINE c == [b EXCEPT !.state = s]
<1>1. /\ c \in Boards /\ c.state = s /\ c.seq = b.seq /\ c.doc = b.doc /\ c.source = b.source
      /\ c.offering = b.offering /\ c.log = b.log /\ c.known = b.known
  BY DEF Boards
<1> HIDE DEF c
<1>2. c.state # "none"
  BY <1>1
<1>3. Eased(p, c)
  BY <1>1, <1>2 DEF Eased
<1>4. QED BY <1>1, <1>3 DEF c

\* Asking for synchronisation changes only the state.
LEMMA EasedSync ==
  ASSUME TypeOK, NEW p \in Peers, NEW b \in Boards, board[p].state # "none", Eased(p, b)
  PROVE  SyncAsked(p, b) \in Boards /\ Eased(p, SyncAsked(p, b))
<1>1. "synchronizing" \in States \ {"none"}
  BY DEF States
<1>2. QED BY <1>1, EasedState DEF SyncAsked

\* A step that eases one board, or none, and sends what is in order.
LEMMA OneEased ==
  ASSUME IInv, NEW p \in Peers, NEW b \in Boards, Eased(p, b), board' = [board EXCEPT ![p] = b],
         hosts' = hosts, heard' = heard, history' = history, Fine(net'),
         used' \in Counts
  PROVE  Gentle
<1>0. TypeOK
  BY DEF IInv
<1>1. board' \in [Peers -> Boards] /\ board'[p] = b
  BY <1>0 DEF TypeOK
<1>2. \A q \in Peers : Eased(q, board'[q])
  <2>1. TAKE q \in Peers
  <2>2. q # p => board'[q] = board[q]
    BY <1>0 DEF TypeOK
  <2>3. QED BY <1>0, <1>1, <2>2, EasedSame
<1>3. QED BY <1>1, <1>2 DEF Gentle, Fine

\* A step that changes no board.
LEMMA NoneEased ==
  ASSUME IInv, board' = board, hosts' = hosts, heard' = heard, history' = history, Fine(net'),
         used' = used
  PROVE  Gentle
<1>0. TypeOK
  BY DEF IInv
<1>1. \A q \in Peers : Eased(q, board'[q])
  BY <1>0, EasedSame
<1>2. QED BY <1>0, <1>1 DEF Gentle, Fine, TypeOK

\* What is under way now is in order.
LEMMA NetFine ==
  ASSUME IInv
  PROVE  Fine(net)
BY DEF IInv, NetInv, TypeOK, Fine

\* A heartbeat changes no board.
LEMMA HeartbeatGentle ==
  ASSUME IInv, NEW p \in Peers, Heartbeat(p)
  PROVE  Gentle
<1>0. TypeOK /\ ChainInv /\ SeatInv
  BY DEF IInv
<1>1. PICK q \in Others(p) :
        /\ Leads(p)
        /\ net' = Sent(net, p, {q}, [kind |-> "heartbeat", host |-> p, seq |-> board[p].seq])
        /\ board' = board /\ hosts' = hosts /\ heard' = heard /\ history' = history /\ used' = used
  BY DEF Heartbeat
<1> DEFINE m == [kind |-> "heartbeat", host |-> p, seq |-> board[p].seq]
<1>2. m \in Messages /\ m.kind = "heartbeat" /\ m.seq = board[p].seq
  BY <1>0, BoardFields DEF Messages, Heartbeats, TypeOK
<1>3. q \in Peers /\ p # q /\ board[q].state # "none" /\ ~Vacant
  BY <1>0, <1>1, OthersType, OneLeads
<1> HIDE DEF m
<1>4. MsgOK(p, q, m)
  BY <1>0, <1>2, <1>3, BoardFields DEF MsgOK, NumbersUpTo, Numbered, TypeOK
<1>5. net' = Sent(net, p, {q}, m)
  BY <1>1 DEF m
<1>6. Fine(net')
  BY <1>2, <1>3, <1>4, <1>5, NetFine, SentFine
<1>7. QED BY <1>1, <1>6, NoneEased

\* A proposal that is sent again.
LEMMA ResendGentle ==
  ASSUME IInv, NEW p \in Peers, Resend(p)
  PROVE  Gentle
<1>0. TypeOK
  BY DEF IInv
<1> DEFINE h == {Host(p)} \cap Others(p)
           b == [board[p] EXCEPT !.state = IF Full(net, p, h) THEN "readonly" ELSE @]
<1>1. PICK c \in board[p].pending :
        /\ board[p].state = "ready"
        /\ board' = [board EXCEPT ![p] = b]
        /\ net' = Sent(net, p, h, [kind |-> "propose", host |-> Host(p), cmd |-> c])
        /\ hosts' = hosts /\ heard' = heard /\ history' = history /\ used' = used
  BY <1>0 DEF Resend, TypeOK
<1> DEFINE m == [kind |-> "propose", host |-> Host(p), cmd |-> c]
<1>2. m \in Messages /\ m.kind = "propose"
  <2>1. c \in Commands
    BY <1>0, <1>1, BoardFields DEF TypeOK
  <2>2. QED BY <1>0, <2>1, HostType DEF Messages, Proposals
<1>3. h \in SUBSET Peers /\ p \notin h /\ \A x \in h : board[x].state # "none"
  BY OthersType
<1> HIDE DEF m
<1>4. net' = Sent(net, p, h, m)
  BY <1>1 DEF m
<1> HIDE DEF h
<1>5. Fine(net')
  BY <1>2, <1>3, <1>4, PlainOK, NetFine, SentFine
<1>6. b \in Boards /\ Eased(p, b)
  <2>1. {"ready", "readonly"} \subseteq States \ {"none"}
    BY DEF States
  <2>2. board[p] \in Boards /\ Eased(p, board[p])
    BY <1>0, EasedSame
  <2>3. QED BY <1>0, <1>1, <2>1, <2>2, EasedState
<1> HIDE DEF b
<1>7. QED BY <1>0, <1>1, <1>5, <1>6, OneEased DEF TypeOK

\* Asking again for what was not sent.
LEMMA SyncTickGentle ==
  ASSUME IInv, NEW p \in Peers, SyncTick(p)
  PROVE  Gentle
<1>0. TypeOK
  BY DEF IInv
<1>1. /\ board[p].state # "none"
      /\ board' = [board EXCEPT ![p] = SyncAsked(p, board[p])]
      /\ net' = SyncSent(net, p, board[p])
      /\ hosts' = hosts /\ heard' = heard /\ history' = history /\ used' = used
  BY DEF SyncTick
<1>2. board[p] \in Boards /\ board[p].seq \in Nat /\ Eased(p, board[p])
  BY <1>0, EasedSame, BoardFields
<1>3. Fine(net')
  BY <1>0, <1>1, <1>2, NetFine, SyncFine
<1>4. SyncAsked(p, board[p]) \in Boards /\ Eased(p, SyncAsked(p, board[p]))
  BY <1>0, <1>1, <1>2, EasedSync
<1>5. QED BY <1>0, <1>1, <1>3, <1>4, OneEased DEF TypeOK

\* The silence of the authority.
LEMMA TimesOutGentle ==
  ASSUME IInv, NEW p \in Peers, TimesOut(p)
  PROVE  Gentle
<1>0. TypeOK
  BY DEF IInv
<1> DEFINE b == [board[p] EXCEPT !.state = "readonly"]
<1>1. /\ board[p].state # "none" /\ board' = [board EXCEPT ![p] = b] /\ net' = net
      /\ hosts' = hosts /\ heard' = heard /\ history' = history /\ used' = used
  BY <1>0 DEF TimesOut, TypeOK
<1>2. "readonly" \in States \ {"none"}
  BY DEF States
<1>3. b \in Boards /\ Eased(p, b)
  BY <1>0, <1>1, <1>2, EasedSame, EasedState
<1> HIDE DEF b
<1>4. QED BY <1>0, <1>1, <1>3, NetFine, OneEased DEF TypeOK

\* A proposal changes what is pending and the state.
LEMMA ProposeGentle ==
  ASSUME IInv, NEW p \in Peers, NEW kind \in {"add", "undo"}, Propose(p, kind)
  PROVE  Gentle
<1>0. TypeOK
  BY DEF IInv
<1> DEFINE h == {Host(p)} \cap Others(p)
           c == Gesture(p, kind)
           s == IF Full(net, p, h) THEN "readonly" ELSE "ready"
           a == [board[p] EXCEPT !.pending = @ \cup {c}]
           m == [kind |-> "propose", host |-> Host(p), cmd |-> c]
<1>1. /\ board[p].state = "ready"
      /\ board' = [board EXCEPT ![p].pending = @ \cup {c}, ![p].state = s]
      /\ net' = Sent(net, p, h, m)
      /\ used' = [used EXCEPT !.gestures = @ + 1]
      /\ hosts' = hosts /\ heard' = heard /\ history' = history
  BY DEF Propose
<1>2. c \in Commands
  <2>1. board[p].seq \in Nat /\ board[p].doc.epoch \in Nat /\ used.gestures \in Nat
    BY <1>0, BoardFields, DocFields DEF TypeOK, Counts
  <2>2. QED BY <2>1 DEF Gesture, Commands, Ids, Drawing
<1> HIDE DEF c
<1>3. m \in Messages /\ m.kind = "propose"
  BY <1>0, <1>2, HostType DEF Messages, Proposals
<1>4. h \in SUBSET Peers /\ p \notin h /\ \A x \in h : board[x].state # "none"
  BY OthersType
<1>5. s \in States \ {"none"}
  BY DEF States
<1> HIDE DEF m, h
<1>6. Fine(net')
  BY <1>1, <1>3, <1>4, PlainOK, NetFine, SentFine
<1> HIDE DEF s
<1>7. a \in Boards /\ Eased(p, a)
  <2>1. board[p] \in Boards /\ board[p].pending \cup {c} \in SUBSET Commands
    BY <1>0, <1>2, BoardFields DEF TypeOK
  <2>2. /\ a \in Boards /\ a.state = board[p].state /\ a.seq = board[p].seq /\ a.doc = board[p].doc
        /\ a.source = board[p].source /\ a.offering = board[p].offering /\ a.log = board[p].log
        /\ a.known = board[p].known
    BY <2>1 DEF Boards
  <2>3. board[p].seq \in Nat
    BY <2>1, BoardFields
  <2> HIDE DEF a
  <2>4. QED BY <1>1, <2>2, <2>3 DEF Eased
<1>8. board' = [board EXCEPT ![p] = [a EXCEPT !.state = s]]
  BY <1>0, <1>1 DEF TypeOK
<1>9. used' \in Counts
  <2>1. used \in Counts
    BY <1>0 DEF TypeOK
  <2>2. used.gestures + 1 \in Nat
    BY <2>1 DEF Counts
  <2>3. QED BY <1>1, <2>1, <2>2 DEF Counts
<1> HIDE DEF a
<1>10. [a EXCEPT !.state = s] \in Boards /\ Eased(p, [a EXCEPT !.state = s])
  BY <1>0, <1>1, <1>5, <1>7, EasedState
<1>11. QED BY <1>1, <1>6, <1>8, <1>9, <1>10, OneEased

-----------------------------------------------------------------------------
(* Messages that change no host and give no number *)

\* What a message from p says to q who follows p: p is the host that q has in
\* mind, and an old host that has handed over hears nothing new.
LEMMA FollowFacts ==
  ASSUME IInv, NEW p \in Peers, NEW q \in Peers, net[p][q] # <<>>,
         Heeds(q, Head1(p, q)), Follows(p, q)
  PROVE  /\ p # q /\ ~IsHost(q) /\ ~Leads(q) /\ p = Host(q) /\ board[q].state \notin {"none", "frozen"}
         /\ board[q] \in Boards /\ board[q].seq \in Nat /\ board[p].seq \in Nat
         /\ Head1(p, q) \in Messages /\ Head1(p, q).host = p
         /\ NumbersUpTo(Head1(p, q), board[p].seq)
         /\ Vacant /\ q = OldHost /\ Numbered(Head1(p, q)) =>
               NumbersUpTo(Head1(p, q), board[q].seq - 1)
<1> DEFINE m == Head1(p, q)
<1>0. TypeOK /\ SeqInv
  BY DEF IInv
<1>1. m \in Messages /\ MsgOK(p, q, m)
  BY TakenFine
<1>2. p = Host(q) /\ m.host = Host(q) /\ ~IsHost(q) /\ board[q].state \notin {"none", "frozen"}
  BY DEF Follows, Heeds
<1>3. board[q] \in Boards /\ board[q].seq \in Nat /\ board[p].seq \in Nat
  BY <1>0, BoardFields DEF TypeOK
<1>4. Vacant => board[OldHost].seq = Len(history)
  BY <1>0 DEF SeqInv
<1> HIDE DEF m
<1>5. /\ NumbersUpTo(m, board[p].seq)
      /\ Vacant /\ q = OldHost /\ Numbered(m) => NumbersUpTo(m, board[q].seq - 1)
  BY <1>1, <1>2, <1>4 DEF MsgOK
<1>6. p # q /\ ~Leads(q)
  BY <1>1, <1>2 DEF MsgOK, Leads
<1>7. QED BY <1>1, <1>2, <1>3, <1>5, <1>6 DEF m

\* The answer to a successor, or to one who is behind.
LEMMA SnapshotOK ==
  ASSUME TypeOK, NEW p \in Peers, NEW h \in Peers
  PROVE  /\ SnapshotOf(h, board[p]) \in Shots /\ SnapshotOf(h, board[p]) \in Messages
         /\ SnapshotOf(h, board[p]).kind = "snapshot" /\ SnapshotOf(h, board[p]).host = h
         /\ SnapshotOf(h, board[p]).seq = board[p].seq
         /\ SnapshotOf(h, board[p]).body = Snapshot(board[p].doc)
         /\ SnapshotOf(h, board[p]).locked = board[p].locked
<1>1. board[p].seq \in Nat /\ board[p].locked \in BOOLEAN /\ Snapshot(board[p].doc) \in Bodies
  BY BoardFields, SnapshotType DEF TypeOK
<1>2. QED BY <1>1 DEF SnapshotOf, Shots, Messages

\* A descriptor tells of what a board has.
LEMMA DescriptorOK ==
  ASSUME TypeOK, NEW p \in Peers, NEW b \in Boards
  PROVE  /\ Descriptor(p, b) \in Shots /\ Descriptor(p, b) \in Messages
         /\ Descriptor(p, b).kind = "descriptor" /\ Descriptor(p, b).host = Host(p)
         /\ Descriptor(p, b).seq = b.seq
         /\ Descriptor(p, b).body = Snapshot(b.doc) /\ Descriptor(p, b).locked = b.locked
<1>1. b.seq \in Nat /\ b.locked \in BOOLEAN /\ Snapshot(b.doc) \in Bodies /\ Host(p) \in Peers
  BY BoardFields, SnapshotType, HostType
<1>2. QED BY <1>1 DEF Descriptor, Shots, Messages

\* What the authority says of its own number is in order.
LEMMA LeaderSays ==
  ASSUME IInv, NEW p \in Peers, Leads(p), NEW q \in Peers, p # q,
         board[q].state # "none", NEW m \in Messages,
         NumbersUpTo(m, board[p].seq), m.kind = "snapshot" => m.host # q
  PROVE  MsgOK(p, q, m)
<1>1. ~Vacant
  BY OneLeads DEF IInv
<1>2. QED BY <1>1 DEF MsgOK

\* The old host hands its board over once more.
LEMMA ServeSuccessorGentle ==
  ASSUME IInv, NEW p \in Peers, NEW q \in Peers, ServeSuccessor(p, q)
  PROVE  Gentle
<1>0. TypeOK /\ ChainInv /\ SeatInv /\ SeqInv /\ CoverInv
  BY DEF IInv
<1> DEFINE m == SnapshotOf(Host(q), board[q])
<1>1. /\ net[p][q] # <<>> /\ board[q].offering /\ p = Host(q)
      /\ net' = Sent(Taken(p, q), q, {p} \cap Others(q), m)
      /\ board' = board /\ hosts' = hosts /\ heard' = heard /\ history' = history /\ used' = used
  BY DEF ServeSuccessor, Arrived, Offers
<1>2. Fine(Taken(p, q))
  BY <1>1, TakenFine
<1>3. Host(q) \in Peers
  BY <1>0, HostType
<1>4. /\ m \in Messages /\ m.kind = "snapshot" /\ m.host = p
      /\ m.seq = board[q].seq /\ m.body = Snapshot(board[q].doc)
  BY <1>0, <1>1, <1>3, SnapshotOK
<1> HIDE DEF m
<1>5. p # q /\ board[p].state # "none" => MsgOK(q, p, m)
  <2>1. SUFFICES ASSUME p # q, board[p].state # "none" PROVE MsgOK(q, p, m)
    OBVIOUS
  <2>2. board[q].seq \in Nat /\ board[q].doc \in Docs
    BY <1>0, BoardFields DEF TypeOK
  <2>3. NumbersUpTo(m, board[q].seq)
    BY <1>4, <2>2 DEF NumbersUpTo
  <2>4. ~IsHost(q) /\ (board[q].seq <= board[Host(q)].seq \/ (Vacant /\ q = OldHost))
    BY <1>0, <1>1 DEF SeqInv, Offered
  <2>5. CASE Vacant /\ q = OldHost
    <3>1. heard[q] = Reign
      BY <2>5 DEF Vacant
    <3>2. p = NewHost
      BY <1>1, <3>1 DEF Host, NewHost, Reign
    <3>3. m.seq = Len(history)
      BY <1>0, <1>4, <2>5 DEF SeqInv
    <3>4. Above(m.body.epoch)
      BY <1>0, <1>4, <2>2, <2>5, SnapshotType DEF CoverInv
    <3>5. QED BY <1>4, <2>1, <2>3, <2>5, <3>2, <3>3, <3>4 DEF MsgOK, Handing
  <2>6. CASE board[q].seq <= board[Host(q)].seq
    BY <1>1, <1>4, <2>1, <2>3, <2>6 DEF MsgOK
  <2>7. QED BY <2>4, <2>5, <2>6
<1>6. {p} \cap Others(q) \in SUBSET Peers /\ \A x \in {p} \cap Others(q) : MsgOK(q, x, m)
  BY <1>5, OthersType
<1>7. Fine(net')
  BY <1>1, <1>2, <1>4, <1>6, SentFine
<1>8. QED BY <1>1, <1>7, NoneEased

\* The tail of the log has entries of the log.
LEMMA LogTailType ==
  ASSUME NEW b \in Boards, NEW base \in Nat, b.log # <<>>, base + 1 >= Head(b.log).seq
  PROVE  /\ LogTail(b, base) \in Seq(Entries)
         /\ \A k \in 1..Len(LogTail(b, base)) : \E i \in 1..Len(b.log) : LogTail(b, base)[k] = b.log[i]
<1>1. b.log \in Seq(Entries) /\ Len(b.log) \in Nat /\ Head(b.log).seq \in Nat
  BY BoardFields, EntryFields
<1> DEFINE i == base + 2 - Head(b.log).seq
<1>2. i \in Nat \ {0}
  BY <1>1
<1>3. LogTail(b, base) = SubSeq(b.log, i, Len(b.log))
  BY DEF LogTail
<1> HIDE DEF i
<1>4. SubSeq(b.log, i, Len(b.log)) \in Seq(Entries)
  BY <1>1, <1>2
<1>5. \A k \in 1..Len(SubSeq(b.log, i, Len(b.log))) :
         /\ i + k - 1 \in 1..Len(b.log)
         /\ SubSeq(b.log, i, Len(b.log))[k] = b.log[i + k - 1]
  BY <1>1, <1>2
<1>6. QED BY <1>3, <1>4, <1>5

\* What a follower is sent.
LEMMA RecoveringOK ==
  ASSUME IInv, NEW q \in Peers, Leads(q), NEW base \in Nat, NEW p \in Peers, p # q
  PROVE  /\ Recovering(q, base) \in Messages
         /\ board[p].state # "none" => MsgOK(q, p, Recovering(q, base))
<1> DEFINE b == board[q]
           m == Recovering(q, base)
<1>0. TypeOK /\ SeqInv
  BY DEF IInv
<1>1. b \in Boards /\ b.seq \in Nat
  BY <1>0, BoardFields DEF TypeOK
<1>2. CASE b.log # <<>> /\ base + 1 >= Head(b.log).seq /\ base < b.seq
  <2> DEFINE l == LogTail(b, base)
  <2>1. m = [kind |-> "delta", host |-> q, base |-> base, entries |-> l]
    BY <1>2 DEF Recovering
  <2>2. l \in Seq(Entries) /\ \A k \in 1..Len(l) : \E i \in 1..Len(b.log) : l[k] = b.log[i]
    BY <1>1, <1>2, LogTailType
  <2> HIDE DEF l
  <2>3. m \in Messages
    BY <2>1, <2>2 DEF Messages, Deltas
  <2>4. \A k \in 1..Len(l) : l[k].seq <= b.seq
    BY <1>0, <2>2 DEF SeqInv
  <2>5. NumbersUpTo(m, b.seq) /\ m.kind # "snapshot"
    BY <1>2, <2>1, <2>4 DEF NumbersUpTo
  <2>6. QED BY <2>3, <2>5, LeaderSays
<1>3. CASE ~(b.log # <<>> /\ base + 1 >= Head(b.log).seq /\ base < b.seq)
  <2>1. m = SnapshotOf(q, b)
    BY <1>3 DEF Recovering
  <2>2. m \in Messages /\ m.kind = "snapshot" /\ m.host = q /\ m.seq = b.seq
    BY <1>0, <2>1, SnapshotOK
  <2>3. NumbersUpTo(m, b.seq)
    BY <1>1, <2>2 DEF NumbersUpTo
  <2>4. QED BY <2>2, <2>3, LeaderSays
<1>4. QED BY <1>2, <1>3

\* A follower asks the authority.
LEMMA ServeFollowerGentle ==
  ASSUME IInv, NEW p \in Peers, NEW q \in Peers, ServeFollower(p, q)
  PROVE  Gentle
<1>0. TypeOK
  BY DEF IInv
<1> DEFINE m == Head1(p, q)
           D == {p} \cap Others(q)
           d == Descriptor(q, board[q])
           n == Sent(Taken(p, q), q, D, d)
           r == Recovering(q, m.base)
<1>1. /\ net[p][q] # <<>> /\ m.kind = "sync" /\ Leads(q)
      /\ net' = n \/ net' = Sent(n, q, D, r)
      /\ board' = board /\ hosts' = hosts /\ heard' = heard /\ history' = history /\ used' = used
  BY DEF ServeFollower, Arrived
<1>2. Fine(Taken(p, q)) /\ m \in Messages /\ MsgOK(p, q, m)
  BY <1>1, TakenFine
<1>3. m.base \in Nat /\ p # q
  BY <1>1, <1>2, MessageFields DEF Syncs, MsgOK
<1>4. board[q] \in Boards /\ board[q].seq \in Nat
  BY <1>0, BoardFields DEF TypeOK
<1> HIDE DEF m
<1>5. d \in Messages /\ (board[p].state # "none" => MsgOK(q, p, d))
  <2>1. d \in Messages /\ d.kind = "descriptor" /\ d.seq = board[q].seq
    BY <1>0, <1>4, DescriptorOK
  <2> HIDE DEF d
  <2>2. NumbersUpTo(d, board[q].seq)
    BY <1>4, <2>1 DEF NumbersUpTo
  <2>3. QED BY <1>1, <1>3, <2>1, <2>2, LeaderSays
<1>6. r \in Messages /\ (board[p].state # "none" => MsgOK(q, p, r))
  BY <1>1, <1>3, RecoveringOK
<1>7. D \in SUBSET Peers /\ D \subseteq {p} /\ \A x \in D : board[x].state # "none"
  BY OthersType
<1> HIDE DEF d, r, D
<1>8. Fine(n)
  BY <1>2, <1>5, <1>7, SentFine
<1> HIDE DEF n
<1>9. Fine(net')
  BY <1>1, <1>6, <1>7, <1>8, SentFine
<1>10. QED BY <1>1, <1>9, NoneEased

\* What is dropped.
LEMMA IgnoreGentle ==
  ASSUME IInv, NEW p \in Peers, NEW q \in Peers, Ignore(p, q)
  PROVE  Gentle
<1>1. /\ net[p][q] # <<>> /\ net' = Taken(p, q)
      /\ board' = board /\ hosts' = hosts /\ heard' = heard /\ history' = history /\ used' = used
  BY DEF Ignore, Arrived
<1>2. Fine(net')
  BY <1>1, TakenFine
<1>3. QED BY <1>1, <1>2, NoneEased

\* What a follower makes of its board: the numbers go up, to what its host has.
Follower(a, b, n) ==
  /\ b \in Boards /\ b.source = a.source /\ b.log = a.log /\ b.known = a.known
  /\ (b.offering => a.offering) /\ b.up = a.up
  /\ b.seq >= a.seq /\ (b.seq = a.seq \/ b.seq <= n)

\* That eases it, if an old host that has handed over is left alone.
LEMMA FollowerEased ==
  ASSUME TypeOK, NEW p \in Peers, NEW b \in Boards, Follower(board[p], b, board[Host(p)].seq),
         ~IsHost(p), board[p].state # "none", b.state # "none",
         Vacant /\ p = OldHost => b.seq = board[p].seq /\ b.doc = board[p].doc
  PROVE  Eased(p, b)
BY DEF Follower, Eased, Leads

\* Only the offer of a board is replaced.
OfferSet(a, o) == [a EXCEPT !.offering = o]
\* It is a board that differs in just this.
LEMMA BoardOffering ==
  ASSUME NEW a \in Boards, NEW o \in BOOLEAN
  PROVE  LET b == OfferSet(a, o)
         IN  /\ b \in Boards /\ b.state = a.state /\ b.seq = a.seq /\ b.doc = a.doc
             /\ b.source = a.source /\ b.log = a.log /\ b.known = a.known
             /\ b.up = a.up /\ b.locked = a.locked /\ b.pending = a.pending
             /\ b.offering = o
BY DEF Boards, OfferSet

\* Listening ends an offer at most.
LEMMA ListeningType ==
  ASSUME TypeOK, NEW q \in Peers, NEW m, NEW n
  PROVE  LET b == Listening(q, m)
         IN  /\ Follower(board[q], b, n) /\ b.state = board[q].state /\ b.seq = board[q].seq
             /\ b.doc = board[q].doc /\ b.locked = board[q].locked /\ b.pending = board[q].pending
<1> DEFINE b == Listening(q, m)
           o == board[q].offering /\ m.kind \notin {"descriptor", "commit"}
<1>1. board[q] \in Boards /\ board[q].seq \in Nat
  BY BoardFields DEF TypeOK
<1>2. b = OfferSet(board[q], o)
  BY DEF Listening, OfferSet
<1>3. o \in BOOLEAN /\ (o => board[q].offering)
  BY <1>1, BoardFields
<1> HIDE DEF o, b
<1>4. /\ b \in Boards /\ b.state = board[q].state /\ b.seq = board[q].seq /\ b.doc = board[q].doc
      /\ b.source = board[q].source /\ b.log = board[q].log /\ b.known = board[q].known
      /\ b.up = board[q].up /\ b.locked = board[q].locked /\ b.pending = board[q].pending
      /\ b.offering = o
  BY <1>1, <1>2, <1>3, BoardOffering
<1>5. Follower(board[q], b, n)
  BY <1>1, <1>3, <1>4 DEF Follower
<1>6. QED BY <1>4, <1>5 DEF b

\* What an entry makes of the document, the lock and the proposals.
AppliedDoc(q, b, e) ==
  IF e.kind = "lock" THEN Barrier(b.doc)
  ELSE IF Verdict(b.doc, e, Host(q)) = "applied" THEN Drawn(b.doc, e) ELSE b.doc
AppliedLocked(b, e) == IF e.kind = "lock" THEN e.locked ELSE b.locked
AppliedPending(b, e) ==
  IF e.kind = "lock" THEN b.pending ELSE {x \in b.pending : x.id # e.id}

\* An entry that is applied is the next one.
LEMMA AppliedType ==
  ASSUME NEW q, NEW b \in Boards, NEW e \in Entries, Applies(q, b, e)
  PROVE  /\ Follower(b, Applied(q, b, e), e.seq) /\ Applied(q, b, e).state = b.state
         /\ Applied(q, b, e).seq = e.seq /\ e.seq = b.seq + 1
         /\ Applied(q, b, e).offering = b.offering
         /\ Applied(q, b, e).doc = AppliedDoc(q, b, e)
         /\ Applied(q, b, e).locked = AppliedLocked(b, e)
         /\ Applied(q, b, e).pending = AppliedPending(b, e)
<1> DEFINE c == Applied(q, b, e)
           d == AppliedDoc(q, b, e)
           rest == {x \in b.pending : x.id # e.id}
<1>1. e.seq \in Nat /\ b.seq \in Nat /\ e.seq = b.seq + 1
  BY BoardFields, EntryFields DEF Applies
<1>2. d \in Docs
  BY BoardFields, BarrierType, DrawnType, EntryFields DEF AppliedDoc
<1>3. rest \in SUBSET Commands
  BY BoardFields
<1>4. CASE e.kind = "lock"
  <2>1. c = [b EXCEPT !.seq = e.seq, !.doc = d, !.locked = e.locked]
    BY <1>4 DEF Applied, AppliedDoc
  <2>2. e.locked \in BOOLEAN
    BY <1>4, EntryFields
  <2> HIDE DEF d
  <2>3. /\ c \in Boards /\ c.state = b.state /\ c.seq = e.seq /\ c.doc = d
        /\ c.source = b.source /\ c.log = b.log /\ c.known = b.known
        /\ c.up = b.up /\ c.locked = e.locked /\ c.pending = b.pending
        /\ c.offering = b.offering
    BY <1>1, <1>2, <2>1, <2>2 DEF Boards
  <2> HIDE DEF c
  <2>4. Follower(b, c, e.seq)
    BY <1>1, <2>3 DEF Follower
  <2>5. QED BY <1>1, <1>4, <2>3, <2>4 DEF c, d, AppliedLocked, AppliedPending
<1>5. CASE e.kind # "lock"
  <2>1. c = [b EXCEPT !.seq = e.seq, !.doc = d, !.pending = rest]
    BY <1>5 DEF Applied, AppliedDoc
  <2> HIDE DEF d, rest
  <2>3. /\ c \in Boards /\ c.state = b.state /\ c.seq = e.seq /\ c.doc = d
        /\ c.source = b.source /\ c.log = b.log /\ c.known = b.known
        /\ c.up = b.up /\ c.locked = b.locked /\ c.pending = rest
        /\ c.offering = b.offering
    BY <1>1, <1>2, <1>3, <2>1 DEF Boards
  <2> HIDE DEF c
  <2>4. Follower(b, c, e.seq)
    BY <1>1, <2>3 DEF Follower
  <2>5. QED BY <1>1, <1>5, <2>3, <2>4 DEF c, d, rest, AppliedLocked, AppliedPending
<1>6. QED BY <1>4, <1>5

\* A step of a follower after another.
LEMMA FollowerTwice ==
  ASSUME NEW a \in Boards, NEW b, NEW c, NEW n \in Nat, Follower(a, b, n), Follower(b, c, n)
  PROVE  Follower(a, c, n)
<1>1. a.seq \in Nat /\ b.seq \in Nat /\ c.seq \in Nat
  BY BoardFields DEF Follower
<1>2. QED BY <1>1 DEF Follower

\* More room.
LEMMA FollowerMore ==
  ASSUME NEW a \in Boards, NEW b, NEW i \in Nat, NEW n \in Nat, i <= n, Follower(a, b, i)
  PROVE  Follower(a, b, n)
<1>1. a.seq \in Nat /\ b.seq \in Nat
  BY BoardFields DEF Follower
<1>2. QED BY <1>1 DEF Follower

-----------------------------------------------------------------------------
(* A delta, which is applied entry by entry *)

Ran(q, b, entries, f) ==
  f = [i \in 0..Len(entries) |->
          IF i = 0 THEN b
          ELSE IF Applies(q, f[i - 1], entries[i])
               THEN Applied(q, f[i - 1], entries[i]) ELSE f[i - 1]]

\* The boards on the way exist, and the last of them is what Run says.
LEMMA RunIs ==
  ASSUME NEW q, NEW b, NEW S, NEW entries \in Seq(S)
  PROVE  \E f : Ran(q, b, entries, f) /\ Run(q, b, entries) = f[Len(entries)]
<1> DEFINE N == Len(entries)
           Next1(x, i) == IF Applies(q, x, entries[i]) THEN Applied(q, x, entries[i]) ELSE x
           Up(f, k) == f = [i \in 0..k |-> IF i = 0 THEN b ELSE Next1(f[i - 1], i)]
           T == {k \in Nat : \E f : Up(f, k)}
<1>1. 0 \in T
  <2>1. Up([i \in {0} |-> b], 0)
    <3>1. 0..0 = {0}
      OBVIOUS
    <3>2. QED BY <3>1
  <2>2. QED BY <2>1
<1>2. ASSUME NEW k \in Nat, k \in T PROVE k + 1 \in T
  <2>1. PICK f : Up(f, k)
    BY <1>2
  <2> HIDE DEF Next1
  <2> DEFINE g == [i \in 0..(k + 1) |-> IF i = k + 1 THEN Next1(f[k], k + 1) ELSE f[i]]
  <2>2. \A i \in 0..k : f[i] = IF i = 0 THEN b ELSE Next1(f[i - 1], i)
    BY <2>1
  <2>3. \A i \in 0..(k + 1) : g[i] = IF i = 0 THEN b ELSE Next1(g[i - 1], i)
    <3>1. TAKE i \in 0..(k + 1)
    <3>2. CASE i = k + 1
      <4>1. i - 1 = k /\ i # 0 /\ k \in 0..(k + 1) /\ k # k + 1
        BY <3>2
      <4>2. g[i] = Next1(f[k], k + 1) /\ g[i - 1] = f[k]
        BY <3>2, <4>1
      <4>3. QED BY <4>1, <4>2, <3>2
    <3>3. CASE i # k + 1
      <4>1. i \in 0..k /\ (i # 0 => i - 1 \in 0..k /\ i - 1 # k + 1)
        BY <3>3
      <4>2. g[i] = f[i] /\ (i # 0 => g[i - 1] = f[i - 1])
        BY <4>1
      <4>3. QED BY <2>2, <4>1, <4>2
    <3>4. QED BY <3>2, <3>3
  <2>4. Up(g, k + 1)
    BY <2>3
  <2> HIDE DEF g, Up
  <2>5. \E h : Up(h, k + 1)
    BY <2>4
  <2>6. QED BY <2>5
<1> HIDE DEF Up
<1>3. N \in Nat
  OBVIOUS
<1>4. T \in SUBSET Nat
  OBVIOUS
<1>5. N \in T
  BY <1>1, <1>2, <1>3, <1>4, Inductive
<1>6. \E f : Ran(q, b, entries, f)
  BY <1>5 DEF Up, Ran
<1>7. Run(q, b, entries) = (CHOOSE f : Ran(q, b, entries, f))[N]
  BY DEF Run, Ran
<1>8. QED BY <1>6, <1>7

\* What a delta makes of a follower's board.
LEMMA RunType ==
  ASSUME NEW q, NEW b \in Boards, NEW entries \in Seq(Entries), NEW n \in Nat,
         \A k \in 1..Len(entries) : entries[k].seq <= n
  PROVE  Follower(b, Run(q, b, entries), n) /\ Run(q, b, entries).state = b.state
<1>1. PICK f : Ran(q, b, entries, f) /\ Run(q, b, entries) = f[Len(entries)]
  BY RunIs
<1>2. \A i \in 0..Len(entries) :
         f[i] = IF i = 0 THEN b
                ELSE IF Applies(q, f[i - 1], entries[i])
                     THEN Applied(q, f[i - 1], entries[i]) ELSE f[i - 1]
  BY <1>1 DEF Ran
<1> DEFINE Good(k) == Follower(b, f[k], n) /\ f[k].state = b.state
           T == {k \in Nat : k <= Len(entries) => Good(k)}
<1>3. 0 \in T
  <2>1. f[0] = b
    BY <1>2
  <2>2. b.seq \in Nat
    BY BoardFields
  <2>3. QED BY <2>1, <2>2 DEF Follower
<1>4. ASSUME NEW k \in Nat, k \in T PROVE k + 1 \in T
  <2>1. SUFFICES ASSUME k + 1 <= Len(entries) PROVE Good(k + 1)
    OBVIOUS
  <2>2. Good(k) /\ k + 1 \in 0..Len(entries) /\ k + 1 # 0 /\ k + 1 - 1 = k
    BY <1>4, <2>1
  <2>3. entries[k + 1] \in Entries /\ entries[k + 1].seq <= n /\ entries[k + 1].seq \in Nat
    BY <2>1, EntryFields
  <2>4. f[k] \in Boards
    BY <2>2 DEF Follower
  <2>5. CASE Applies(q, f[k], entries[k + 1])
    <3> DEFINE c == Applied(q, f[k], entries[k + 1])
    <3>1. f[k + 1] = c
      BY <1>2, <2>2, <2>5
    <3>2. Follower(f[k], c, entries[k + 1].seq) /\ c.state = f[k].state
      BY <2>3, <2>4, <2>5, AppliedType
    <3> HIDE DEF c
    <3>3. Follower(f[k], c, n)
      BY <2>3, <2>4, <3>2, FollowerMore
    <3>4. QED BY <2>2, <3>1, <3>2, <3>3, FollowerTwice
  <2>6. CASE ~Applies(q, f[k], entries[k + 1])
    <3>1. f[k + 1] = f[k]
      BY <1>2, <2>2, <2>6
    <3>2. QED BY <2>2, <3>1
  <2>7. QED BY <2>5, <2>6
<1>5. T \in SUBSET Nat /\ Len(entries) \in Nat
  OBVIOUS
<1>6. Len(entries) \in T
  <2> HIDE DEF T
  <2>1. QED BY <1>3, <1>4, <1>5, Inductive
<1>7. QED BY <1>1, <1>5, <1>6

-----------------------------------------------------------------------------
(* Following *)

\* A descriptor ends an offer, and is believed if it says what the board says.
LEMMA FollowDescriptorGentle ==
  ASSUME IInv, NEW p \in Peers, NEW q \in Peers, FollowDescriptor(p, q)
  PROVE  Gentle
<1> DEFINE m == Head1(p, q)
           b == Listening(q, m)
           same == m.seq = b.seq /\ m.body = Snapshot(b.doc)
           c == [b EXCEPT !.locked = m.locked]
<1>0. TypeOK
  BY DEF IInv
<1>1. /\ net[p][q] # <<>> /\ m.kind = "descriptor" /\ Heeds(q, m) /\ Follows(p, q)
      /\ board' = [board EXCEPT ![q] = IF same THEN [b EXCEPT !.locked = m.locked, !.state = "ready"]
                                        ELSE SyncAsked(q, b)]
      /\ net' = IF same THEN Taken(p, q) ELSE SyncSent(Taken(p, q), q, b)
      /\ hosts' = hosts /\ heard' = heard /\ history' = history /\ used' = used
  BY DEF FollowDescriptor, Arrived
<1>2. /\ ~IsHost(q) /\ p = Host(q) /\ board[q].state # "none" /\ m \in Messages
      /\ board[p].seq \in Nat
  BY <1>1, FollowFacts
<1>3. /\ Follower(board[q], b, board[p].seq) /\ b.state = board[q].state /\ b.seq = board[q].seq
      /\ b.doc = board[q].doc
  BY <1>0, ListeningType
<1>4. m.locked \in BOOLEAN
  BY <1>1, <1>2, MessageFields DEF Shots
<1> HIDE DEF m, b
<1>5. b \in Boards /\ Eased(q, b) /\ b.seq \in Nat
  BY <1>0, <1>2, <1>3, FollowerEased, BoardFields DEF Follower
<1>6. c \in Boards /\ Eased(q, c)
  <2>1. /\ c \in Boards /\ c.state = b.state /\ c.seq = b.seq /\ c.doc = b.doc /\ c.source = b.source
        /\ c.offering = b.offering /\ c.log = b.log /\ c.known = b.known /\ c.up = b.up
    BY <1>4, <1>5 DEF Boards
  <2> HIDE DEF c
  <2>2. Follower(board[q], c, board[p].seq)
    BY <1>3, <2>1 DEF Follower
  <2>3. QED BY <1>0, <1>2, <1>3, <2>1, <2>2, FollowerEased
<1>7. Fine(Taken(p, q)) /\ Fine(SyncSent(Taken(p, q), q, b))
  BY <1>0, <1>1, <1>5, TakenFine, SyncFine
<1>8. Fine(net')
  BY <1>1, <1>7
<1>9. CASE same
  <2>1. board' = [board EXCEPT ![q] = [c EXCEPT !.state = "ready"]]
    BY <1>1, <1>9
  <2> HIDE DEF c
  <2>2. "ready" \in States \ {"none"}
    BY DEF States
  <2>3. [c EXCEPT !.state = "ready"] \in Boards /\ Eased(q, [c EXCEPT !.state = "ready"])
    BY <1>0, <1>2, <1>6, <2>2, EasedState
  <2>4. QED BY <1>0, <1>1, <1>8, <2>1, <2>3, OneEased DEF TypeOK
<1>10. CASE ~same
  <2>1. board' = [board EXCEPT ![q] = SyncAsked(q, b)]
    BY <1>1, <1>10
  <2>2. SyncAsked(q, b) \in Boards /\ Eased(q, SyncAsked(q, b))
    BY <1>0, <1>2, <1>5, EasedSync
  <2>3. QED BY <1>0, <1>1, <1>8, <2>1, <2>2, OneEased DEF TypeOK
<1>11. QED BY <1>9, <1>10

\* Only what is pending is replaced.
PendingSet(b, x) == [b EXCEPT !.pending = x]
\* It is a board that has eased.
LEMMA EasedPending ==
  ASSUME TypeOK, NEW p \in Peers, NEW b \in Boards, board[p].state # "none", Eased(p, b),
         NEW x \in SUBSET Commands
  PROVE  PendingSet(b, x) \in Boards /\ Eased(p, PendingSet(b, x))
<1> DEFINE c == PendingSet(b, x)
<1>1. /\ c \in Boards /\ c.state = b.state /\ c.seq = b.seq /\ c.doc = b.doc /\ c.source = b.source
      /\ c.offering = b.offering /\ c.log = b.log /\ c.known = b.known
  BY DEF Boards, PendingSet
<1> HIDE DEF c
<1>2. Eased(p, c)
  BY <1>1 DEF Eased
<1>3. QED BY <1>1, <1>2 DEF c

\* A commit is the answer to a command, is applied, or shows that some are missing.
LEMMA FollowCommitGentle ==
  ASSUME IInv, NEW p \in Peers, NEW q \in Peers, FollowCommit(p, q)
  PROVE  Gentle
<1> DEFINE m == Head1(p, q)
           e == m.entry
           b == Listening(q, m)
           known == e.seq <= b.seq
           rest == {c \in b.pending : c.id # e.id}
           answered == IF e.kind = "lock" THEN b ELSE [b EXCEPT !.pending = {c \in @ : c.id # e.id}]
<1>0. TypeOK
  BY DEF IInv
<1>1. /\ net[p][q] # <<>> /\ m.kind = "commit" /\ Heeds(q, m) /\ Follows(p, q)
      /\ board' = [board EXCEPT ![q] =
               IF known THEN answered
               ELSE IF Applies(q, b, e) THEN [Applied(q, b, e) EXCEPT !.state = "ready"]
               ELSE SyncAsked(q, b)]
      /\ net' = IF known \/ Applies(q, b, e) THEN Taken(p, q) ELSE SyncSent(Taken(p, q), q, b)
      /\ hosts' = hosts /\ heard' = heard /\ history' = history /\ used' = used
  BY DEF FollowCommit, Arrived
<1>2. /\ ~IsHost(q) /\ p = Host(q) /\ board[q].state # "none" /\ m \in Messages
      /\ board[p].seq \in Nat /\ board[q].seq \in Nat /\ board[q] \in Boards
      /\ e.seq <= board[p].seq
      /\ Vacant /\ q = OldHost => e.seq <= board[q].seq - 1
  BY <1>1, FollowFacts DEF NumbersUpTo, Numbered
<1>3. /\ Follower(board[q], b, board[p].seq) /\ b.state = board[q].state /\ b.seq = board[q].seq
      /\ b.doc = board[q].doc
  BY <1>0, ListeningType
<1>4. e \in Entries /\ e.seq \in Nat
  BY <1>1, <1>2, MessageFields, EntryFields DEF Commits
<1> HIDE DEF m, b
<1>5. b \in Boards /\ Eased(q, b) /\ b.seq \in Nat
  BY <1>0, <1>2, <1>3, FollowerEased, BoardFields DEF Follower
<1>7. Fine(Taken(p, q)) /\ Fine(SyncSent(Taken(p, q), q, b))
  BY <1>0, <1>1, <1>5, TakenFine, SyncFine
<1>8. Fine(net')
  BY <1>1, <1>7
<1>9. CASE known
  <2>1. board' = [board EXCEPT ![q] = answered]
    BY <1>1, <1>9
  <2>2. answered = b \/ answered = PendingSet(b, rest)
    BY DEF PendingSet
  <2>3. rest \in SUBSET Commands
    BY <1>5, BoardFields
  <2> HIDE DEF rest, answered
  <2>4. answered \in Boards /\ Eased(q, answered)
    BY <1>0, <1>2, <1>5, <2>2, <2>3, EasedPending
  <2>5. QED BY <1>0, <1>1, <1>8, <2>1, <2>4, OneEased DEF TypeOK
<1>10. CASE ~known /\ Applies(q, b, e)
  <2> DEFINE c == Applied(q, b, e)
  <2>1. board' = [board EXCEPT ![q] = [c EXCEPT !.state = "ready"]]
    BY <1>1, <1>10
  <2>2. Follower(b, c, e.seq) /\ c.state = b.state
    BY <1>4, <1>5, <1>10, AppliedType
  <2> HIDE DEF c, e
  <2>3. Follower(board[q], c, board[p].seq)
    BY <1>2, <1>3, <1>4, <1>5, <2>2, FollowerMore, FollowerTwice
  <2>4. ~(Vacant /\ q = OldHost)
    BY <1>2, <1>3, <1>4, <1>10
  <2>5. c \in Boards /\ Eased(q, c)
    BY <1>0, <1>2, <1>3, <2>2, <2>3, <2>4, FollowerEased DEF Follower
  <2>6. "ready" \in States \ {"none"}
    BY DEF States
  <2>7. [c EXCEPT !.state = "ready"] \in Boards /\ Eased(q, [c EXCEPT !.state = "ready"])
    BY <1>0, <1>2, <2>5, <2>6, EasedState
  <2>8. QED BY <1>0, <1>1, <1>8, <2>1, <2>7, OneEased DEF TypeOK
<1>11. CASE ~known /\ ~Applies(q, b, e)
  <2>1. board' = [board EXCEPT ![q] = SyncAsked(q, b)]
    BY <1>1, <1>11
  <2>2. SyncAsked(q, b) \in Boards /\ Eased(q, SyncAsked(q, b))
    BY <1>0, <1>2, <1>5, EasedSync
  <2>3. QED BY <1>0, <1>1, <1>8, <2>1, <2>2, OneEased DEF TypeOK
<1>12. QED BY <1>9, <1>10, <1>11

\* A delta is applied up to what does not fit.
LEMMA FollowDeltaGentle ==
  ASSUME IInv, NEW p \in Peers, NEW q \in Peers, FollowDelta(p, q)
  PROVE  Gentle
<1> DEFINE m == Head1(p, q)
           b == Run(q, board[q], m.entries)
           end == m.entries[Len(m.entries)].seq
           good == m.base = board[q].seq /\ b.seq = end
           left == IF m.base = board[q].seq THEN b ELSE board[q]
<1>0. TypeOK
  BY DEF IInv
<1>1. /\ net[p][q] # <<>> /\ m.kind = "delta" /\ Heeds(q, m) /\ Follows(p, q)
      /\ board' = [board EXCEPT ![q] = IF good THEN [b EXCEPT !.state = "ready"] ELSE SyncAsked(q, left)]
      /\ net' = IF good THEN Taken(p, q) ELSE SyncSent(Taken(p, q), q, left)
      /\ hosts' = hosts /\ heard' = heard /\ history' = history /\ used' = used
  BY DEF FollowDelta, Arrived
<1>2. /\ ~IsHost(q) /\ p = Host(q) /\ board[q].state # "none" /\ m \in Messages
      /\ board[p].seq \in Nat /\ board[q].seq \in Nat /\ board[q] \in Boards
      /\ \A k \in 1..Len(m.entries) : m.entries[k].seq <= board[p].seq
      /\ Vacant /\ q = OldHost => m.base < board[q].seq - 1
  BY <1>1, FollowFacts DEF NumbersUpTo, Numbered
<1>3. m.entries \in Seq(Entries) /\ m.base \in Nat
  BY <1>1, <1>2, MessageFields DEF Deltas
<1> HIDE DEF m
<1>4. Follower(board[q], b, board[p].seq) /\ b.state = board[q].state
  BY <1>2, <1>3, RunType
<1> HIDE DEF b, end
<1>5. m.base = board[q].seq => b \in Boards /\ Eased(q, b)
  <2>1. m.base = board[q].seq => ~(Vacant /\ q = OldHost)
    BY <1>2, <1>3
  <2>2. QED BY <1>0, <1>2, <1>4, <2>1, FollowerEased DEF Follower
<1>6. left \in Boards /\ Eased(q, left) /\ left.seq \in Nat
  BY <1>0, <1>5, EasedSame, BoardFields
<1> HIDE DEF left
<1>7. Fine(Taken(p, q)) /\ Fine(SyncSent(Taken(p, q), q, left))
  BY <1>0, <1>1, <1>6, TakenFine, SyncFine
<1>8. Fine(net')
  BY <1>1, <1>7
<1>9. CASE good
  <2>1. board' = [board EXCEPT ![q] = [b EXCEPT !.state = "ready"]]
    BY <1>1, <1>9
  <2>2. "ready" \in States \ {"none"}
    BY DEF States
  <2>3. [b EXCEPT !.state = "ready"] \in Boards /\ Eased(q, [b EXCEPT !.state = "ready"])
    BY <1>0, <1>2, <1>5, <1>9, <2>2, EasedState
  <2>4. QED BY <1>0, <1>1, <1>8, <2>1, <2>3, OneEased DEF TypeOK
<1>10. CASE ~good
  <2>1. board' = [board EXCEPT ![q] = SyncAsked(q, left)]
    BY <1>1, <1>10
  <2>2. SyncAsked(q, left) \in Boards /\ Eased(q, SyncAsked(q, left))
    BY <1>0, <1>2, <1>6, EasedSync
  <2>3. QED BY <1>0, <1>1, <1>8, <2>1, <2>2, OneEased DEF TypeOK
<1>11. QED BY <1>9, <1>10

\* A snapshot replaces the board, unless it is older.
SnapSet(b, m) ==
  [b EXCEPT !.doc = Restored(m.body), !.seq = m.seq, !.locked = m.locked, !.state = "ready"]
\* What it is, field by field.
LEMMA SnapSetType ==
  ASSUME NEW b \in Boards, NEW m \in Shots
  PROVE  LET c == SnapSet(b, m)
         IN  /\ c \in Boards /\ c.state = "ready" /\ c.seq = m.seq /\ c.doc = Restored(m.body)
             /\ c.locked = m.locked /\ c.source = b.source /\ c.offering = b.offering
             /\ c.log = b.log /\ c.known = b.known /\ c.up = b.up /\ c.pending = b.pending
<1> DEFINE d == Restored(m.body)
           c == SnapSet(b, m)
<1>1. d \in Docs /\ m.seq \in Nat /\ m.locked \in BOOLEAN /\ "ready" \in States
  BY RestoredType DEF Shots, States
<1>2. c = [b EXCEPT !.doc = d, !.seq = m.seq, !.locked = m.locked, !.state = "ready"]
  BY DEF SnapSet
<1> HIDE DEF d
<1>3. /\ c \in Boards /\ c.state = "ready" /\ c.seq = m.seq /\ c.doc = d
      /\ c.locked = m.locked /\ c.source = b.source /\ c.offering = b.offering
      /\ c.log = b.log /\ c.known = b.known /\ c.up = b.up /\ c.pending = b.pending
  BY <1>1, <1>2 DEF Boards
<1>4. QED BY <1>3 DEF d

\* A follower that takes a snapshot.
LEMMA FollowSnapshotGentle ==
  ASSUME IInv, NEW p \in Peers, NEW q \in Peers, FollowSnapshot(p, q)
  PROVE  Gentle
<1> DEFINE m == Head1(p, q)
           c == SnapSet(board[q], m)
<1>0. TypeOK
  BY DEF IInv
<1>1. /\ net[p][q] # <<>> /\ m.kind = "snapshot" /\ Heeds(q, m) /\ Follows(p, q)
      /\ board' = IF m.seq < board[q].seq THEN board
                  ELSE [board EXCEPT ![q].doc = Restored(m.body), ![q].seq = m.seq,
                                     ![q].locked = m.locked, ![q].state = "ready"]
      /\ net' = Taken(p, q)
      /\ hosts' = hosts /\ heard' = heard /\ history' = history /\ used' = used
  BY DEF FollowSnapshot, Arrived
<1>2. /\ ~IsHost(q) /\ p = Host(q) /\ board[q].state # "none" /\ m \in Messages
      /\ board[p].seq \in Nat /\ board[q].seq \in Nat /\ board[q] \in Boards
      /\ m.seq <= board[p].seq
      /\ Vacant /\ q = OldHost => m.seq <= board[q].seq - 1
  BY <1>1, FollowFacts DEF NumbersUpTo, Numbered
<1>3. m \in Shots /\ m.seq \in Nat
  BY <1>1, <1>2, MessageFields DEF Shots
<1>4. Fine(net')
  BY <1>1, TakenFine
<1>5. CASE m.seq < board[q].seq
  BY <1>1, <1>4, <1>5, NoneEased
<1>6. CASE ~(m.seq < board[q].seq)
  <2>1. board' = [board EXCEPT ![q] = c]
    BY <1>0, <1>1, <1>6 DEF TypeOK, SnapSet
  <2> HIDE DEF m
  <2>2. /\ c \in Boards /\ c.state = "ready" /\ c.seq = m.seq
        /\ c.source = board[q].source /\ c.offering = board[q].offering
        /\ c.log = board[q].log /\ c.known = board[q].known /\ c.up = board[q].up
    BY <1>2, <1>3, SnapSetType
  <2> HIDE DEF c
  <2>3. Follower(board[q], c, board[p].seq)
    BY <1>2, <1>3, <1>6, <2>2 DEF Follower
  <2>4. ~(Vacant /\ q = OldHost)
    BY <1>2, <1>3, <1>6
  <2>5. Eased(q, c)
    BY <1>0, <1>2, <2>2, <2>3, <2>4, FollowerEased
  <2>6. QED BY <1>0, <1>1, <1>4, <2>1, <2>2, <2>5, OneEased DEF TypeOK
<1>7. QED BY <1>5, <1>6

\* A heartbeat may show that commits are missing.
LEMMA FollowHeartbeatGentle ==
  ASSUME IInv, NEW p \in Peers, NEW q \in Peers, FollowHeartbeat(p, q)
  PROVE  Gentle
<1> DEFINE m == Head1(p, q)
           b == board[q]
           behind == m.seq > b.seq \/ b.state \in {"readonly", "synchronizing"}
<1>0. TypeOK
  BY DEF IInv
<1>1. /\ net[p][q] # <<>> /\ Heeds(q, m)
      /\ board' = IF behind THEN [board EXCEPT ![q] = SyncAsked(q, b)] ELSE board
      /\ net' = IF behind THEN SyncSent(Taken(p, q), q, b) ELSE Taken(p, q)
      /\ hosts' = hosts /\ heard' = heard /\ history' = history /\ used' = used
  BY DEF FollowHeartbeat, Arrived
<1>2. b \in Boards /\ Eased(q, b) /\ b.seq \in Nat /\ b.state # "none"
  BY <1>0, <1>1, EasedSame, BoardFields DEF Heeds
<1>3. Fine(net')
  BY <1>0, <1>1, <1>2, TakenFine, SyncFine
<1> HIDE DEF m
<1>4. CASE behind
  <2>1. SyncAsked(q, b) \in Boards /\ Eased(q, SyncAsked(q, b))
    BY <1>0, <1>2, EasedSync
  <2>2. QED BY <1>0, <1>1, <1>3, <1>4, <2>1, OneEased DEF TypeOK
<1>5. CASE ~behind
  BY <1>1, <1>3, <1>5, NoneEased
<1>6. QED BY <1>4, <1>5

\* A rejection ends a proposal.
LEMMA FollowRejectGentle ==
  ASSUME IInv, NEW p \in Peers, NEW q \in Peers, FollowReject(p, q)
  PROVE  Gentle
<1> DEFINE m == Head1(p, q)
           x == {c \in board[q].pending : c.id # m.id}
<1>0. TypeOK
  BY DEF IInv
<1>1. /\ net[p][q] # <<>> /\ Heeds(q, m)
      /\ board' = [board EXCEPT ![q] = PendingSet(board[q], x)] /\ net' = Taken(p, q)
      /\ hosts' = hosts /\ heard' = heard /\ history' = history /\ used' = used
  BY <1>0 DEF FollowReject, Arrived, TypeOK, PendingSet
<1>2. board[q] \in Boards /\ Eased(q, board[q]) /\ board[q].state # "none"
  BY <1>0, <1>1, EasedSame DEF Heeds
<1>3. x \in SUBSET Commands
  BY <1>2, BoardFields
<1>4. Fine(net')
  BY <1>1, TakenFine
<1> HIDE DEF x
<1>5. PendingSet(board[q], x) \in Boards /\ Eased(q, PendingSet(board[q], x))
  BY <1>0, <1>2, <1>3, EasedPending
<1>6. QED BY <1>0, <1>1, <1>4, <1>5, OneEased DEF TypeOK

\* The authority, or the old one, has left.
LEMMA PeerLeftGentle ==
  ASSUME IInv, NEW p \in Peers, NEW q \in Peers, PeerLeft(p, q)
  PROVE  Gentle
<1> DEFINE b == [board[q] EXCEPT !.state = "frozen"]
<1>0. TypeOK
  BY DEF IInv
<1>1. /\ net[p][q] # <<>>
      /\ (board[q].state # "none" /\ board' = [board EXCEPT ![q] = b]) \/ board' = board
      /\ net' = Taken(p, q)
      /\ hosts' = hosts /\ heard' = heard /\ history' = history /\ used' = used
  BY <1>0 DEF PeerLeft, Arrived, TypeOK
<1>2. Fine(net')
  BY <1>1, TakenFine
<1>3. CASE board[q].state # "none" /\ board' = [board EXCEPT ![q] = b]
  <2>1. "frozen" \in States \ {"none"}
    BY DEF States
  <2>2. b \in Boards /\ Eased(q, b)
    BY <1>0, <1>3, <2>1, EasedSame, EasedState
  <2> HIDE DEF b
  <2>3. QED BY <1>0, <1>1, <1>2, <1>3, <2>2, OneEased DEF TypeOK
<1>4. CASE board' = board
  BY <1>1, <1>2, <1>4, NoneEased
<1>5. QED BY <1>1, <1>3, <1>4

\* A newer instance of the authority.
LEMMA ObservePeerGentle ==
  ASSUME IInv, NEW p \in Peers, NEW q \in Peers, ObservePeer(p, q)
  PROVE  Gentle
<1> DEFINE s == IF board[q].up THEN "synchronizing" ELSE "readonly"
           a == PendingSet(board[q], {})
           b == [a EXCEPT !.state = s]
           back == board[q].state = "frozen" /\ p = Recovery(q)
           thawed == [board[q] EXCEPT !.pending = {}, !.state = s]
<1>0. TypeOK
  BY DEF IInv
<1>1. /\ net[p][q] # <<>>
      /\ board' = IF back THEN [board EXCEPT ![q] = thawed] ELSE board
      /\ net' = IF back THEN SyncSent(Taken(p, q), q, thawed) ELSE Taken(p, q)
      /\ hosts' = hosts /\ heard' = heard /\ history' = history /\ used' = used
  BY DEF ObservePeer, Arrived
<1>2. thawed = b
  BY DEF PendingSet
<1>3. s \in States \ {"none"}
  BY DEF States
<1> HIDE DEF s, thawed
<1>4. CASE back
  <2>1. a \in Boards /\ Eased(q, a) /\ board[q].state # "none"
    BY <1>0, <1>4, EasedSame, EasedPending
  <2> HIDE DEF a
  <2>2. b \in Boards /\ Eased(q, b)
    BY <1>0, <1>3, <2>1, EasedState
  <2> HIDE DEF b
  <2>3. Fine(net')
    BY <1>0, <1>1, <1>2, <1>4, <2>2, TakenFine, SyncFine, BoardFields
  <2>4. QED BY <1>0, <1>1, <1>2, <1>4, <2>2, <2>3, OneEased DEF TypeOK
<1>5. CASE ~back
  <2>1. Fine(net')
    BY <1>1, <1>5, TakenFine
  <2>2. QED BY <1>1, <1>5, <2>1, NoneEased
<1>6. QED BY <1>4, <1>5

-----------------------------------------------------------------------------
(* Connections *)

\* One more of something that is bounded.
LEMMA CountsType ==
  ASSUME TypeOK
  PROVE  /\ [used EXCEPT !.gestures = @ + 1] \in Counts
         /\ [used EXCEPT !.locks = @ + 1] \in Counts
         /\ [used EXCEPT !.breaks = @ + 1] \in Counts
         /\ [used EXCEPT !.crashes = @ + 1] \in Counts
<1>1. used \in Counts
  BY DEF TypeOK
<1>2. /\ used.gestures + 1 \in Nat /\ used.locks + 1 \in Nat /\ used.breaks + 1 \in Nat
      /\ used.crashes + 1 \in Nat
  BY <1>1 DEF Counts
<1>3. QED BY <1>1, <1>2 DEF Counts

\* Whether the transport is up is no concern of the log.
UpSet(b, x, s) == [b EXCEPT !.up = x, !.state = s]
\* It is a board that has eased.
LEMMA EasedUp ==
  ASSUME TypeOK, NEW p \in Peers, board[p].state # "none", NEW x \in BOOLEAN, NEW s \in States \ {"none"}
  PROVE  LET b == UpSet(board[p], x, s)
         IN  b \in Boards /\ Eased(p, b) /\ b.seq = board[p].seq
<1> DEFINE b == UpSet(board[p], x, s)
<1>1. board[p] \in Boards /\ board[p].seq \in Nat
  BY EasedSame, BoardFields
<1>2. /\ b \in Boards /\ b.state = s /\ b.seq = board[p].seq /\ b.doc = board[p].doc
      /\ b.source = board[p].source /\ b.offering = board[p].offering /\ b.log = board[p].log
      /\ b.known = board[p].known
  BY <1>1 DEF Boards, UpSet
<1> HIDE DEF b
<1>3. s # "none"
  OBVIOUS
<1>4. Eased(p, b)
  BY <1>1, <1>2, <1>3 DEF Eased
<1>5. QED BY <1>2, <1>4 DEF b

\* A connection breaks.
LEMMA TransportDownGentle ==
  ASSUME IInv, NEW p \in Peers, TransportDown(p)
  PROVE  Gentle
<1> DEFINE s == IF board[p].state = "frozen" THEN "frozen" ELSE "readonly"
           b == UpSet(board[p], FALSE, s)
<1>0. TypeOK
  BY DEF IInv
<1>1. /\ board[p].state # "none" /\ board' = [board EXCEPT ![p] = b]
      /\ hosts' = hosts /\ heard' = heard /\ history' = history /\ net' = net
      /\ used' = [used EXCEPT !.breaks = @ + 1]
  <2>1. board' = [board EXCEPT ![p].up = FALSE, ![p].state = IF @ = "frozen" THEN @ ELSE "readonly"]
    BY DEF TransportDown
  <2>2. board' = [board EXCEPT ![p] = b]
    BY <1>0, <2>1 DEF TypeOK, Boards, UpSet
  <2>3. QED BY <2>2 DEF TransportDown
<1>2. s \in States \ {"none"}
  BY DEF States
<1> HIDE DEF s
<1>3. b \in Boards /\ Eased(p, b)
  BY <1>0, <1>1, <1>2, EasedUp
<1> HIDE DEF b
<1>4. used' \in Counts
  BY <1>0, <1>1, CountsType
<1>5. QED BY <1>1, <1>3, <1>4, NetFine, OneEased

\* What was under way of a connection that could not be resumed is lost.
LEMMA LostFine ==
  ASSUME NEW n, Fine(n), NEW p \in Peers, board[p].state # "none"
  PROVE  Fine(Rejoined(Lost(n, p), p))
<1> DEFINE l == Lost(n, p)
           r == Rejoined(l, p)
           left == [kind |-> "left"]
           joined == [kind |-> "joined"]
           Hit(a, b) == p \in {a, b} /\ a # b /\ {a, b} \ {p} \subseteq Others(p)
<1>0. n \in Nets /\ \A a, b \in Peers : \A m \in Way(n, a, b) : MsgOK(a, b, m)
  BY DEF Fine
<1>1. left \in Messages /\ joined \in Messages /\ left.kind = "left" /\ joined.kind = "joined"
  BY DEF Messages, Notices
<1> HIDE DEF left, joined
<1>2. \A a, b \in Peers : l[a][b] = IF Hit(a, b) THEN <<left>> ELSE n[a][b]
  BY DEF Lost, left
<1>3. \A a, b \in Peers : r[a][b] = IF Hit(a, b) THEN Append(l[a][b], joined) ELSE l[a][b]
  BY DEF Rejoined, joined
<1> HIDE DEF Hit
<1> DEFINE two == Append(<<left>>, joined)
<1>4. \A a, b \in Peers : r[a][b] = IF Hit(a, b) THEN two ELSE n[a][b]
  BY <1>2, <1>3
<1>10. two \in Seq(Messages) /\ \A k \in 1..Len(two) : two[k] \in {left, joined}
  BY <1>1, TwoInARow
<1> HIDE DEF two
<1>5. r = [a \in Peers |-> [b \in Peers |-> r[a][b]]]
  BY DEF Rejoined
<1> HIDE DEF r, l
<1>6. \A a, b \in Peers : r[a][b] \in Seq(Messages)
  <2>2. \A a, b \in Peers : n[a][b] \in Seq(Messages)
    BY <1>0 DEF Nets
  <2>3. QED BY <1>4, <1>10, <2>2
<1>7. r \in Nets
  BY <1>5, <1>6 DEF Nets
<1>8. ASSUME NEW a \in Peers, NEW b \in Peers, NEW m \in Way(r, a, b)
      PROVE  MsgOK(a, b, m)
  <2>1. CASE Hit(a, b)
    <3>1. r[a][b] = two
      BY <1>4, <2>1
    <3>2. m = left \/ m = joined
      BY <1>8, <1>10, <3>1 DEF Way
    <3>3. a # b /\ board[b].state # "none"
      BY <2>1, OthersType DEF Hit
    <3>4. QED BY <1>1, <3>2, <3>3, PlainOK
  <2>2. CASE ~Hit(a, b)
    <3>1. r[a][b] = n[a][b]
      BY <1>4, <2>2
    <3>2. m \in Way(n, a, b)
      BY <1>8, <3>1 DEF Way
    <3>3. QED BY <1>0, <3>2
  <2>3. QED BY <2>1, <2>2
<1>9. Fine(r)
  BY <1>7, <1>8 DEF Fine
<1>11. QED BY <1>9 DEF r, l

\* The greeting after a connection has come back.
Greeted(n, p, D, m) ==
  [n EXCEPT ![p] = [q \in Peers |-> IF q \in D /\ Len(n[p][q]) < Cap
                                    THEN Append(n[p][q], m) ELSE n[p][q]]]
\* They are fine if each of the greetings is.
LEMMA GreetingFine ==
  ASSUME NEW n, Fine(n), NEW p \in Peers, NEW D \in SUBSET Peers, NEW m \in Messages,
         \A q \in D : MsgOK(p, q, m)
  PROVE  Fine(Greeted(n, p, D, m))
<1> DEFINE E == {q \in D : Len(n[p][q]) < Cap}
<1>1. Greeted(n, p, D, m) = Posted(n, p, E, m)
  BY DEF Posted, Greeted
<1>2. E \in SUBSET Peers /\ \A q \in E : MsgOK(p, q, m)
  OBVIOUS
<1> HIDE DEF E
<1>3. Fine(Posted(n, p, E, m))
  BY <1>2, PostedFine
<1>4. QED BY <1>1, <1>3

\* The connection is back: the board, its state, and what it asks.
Raised(p) == [board[p] EXCEPT !.up = TRUE]
RaisedState(p) ==
  IF board[p].state = "frozen" THEN "frozen" ELSE IF Leads(p) THEN "ready" ELSE "synchronizing"
RaisedSync(p) == [kind |-> "sync", host |-> Host(p), base |-> board[p].seq]

\* It is resumed or anew, and greets.
LEMMA TransportUpIs ==
  ASSUME TypeOK, NEW p \in Peers, TransportUp(p)
  PROVE  /\ Raised(p) \in Boards /\ Raised(p).seq = board[p].seq /\ Raised(p).state = board[p].state
         /\ Raised(p).doc = board[p].doc /\ Raised(p).locked = board[p].locked
         /\ board[p].state # "none"
         /\ board' = [board EXCEPT ![p] = UpSet(board[p], TRUE, RaisedState(p))]
         /\ hosts' = hosts /\ heard' = heard /\ history' = history /\ used' = used
         /\ \E n \in {net, Rejoined(Lost(net, p), p)} :
              \/ net' = n
              \/ Leads(p) /\ net' = Greeted(n, p, Others(p), Descriptor(p, Raised(p)))
              \/ net' = Greeted(n, p, {Recovery(p)} \cap Others(p), RaisedSync(p))
<1> DEFINE b == Raised(p)
           s == RaisedState(p)
           c == UpSet(board[p], TRUE, s)
           d == Descriptor(p, b)
           k == RaisedSync(p)
           D == Others(p)
           R == {Recovery(p)} \cap Others(p)
<1>1. /\ b \in Boards /\ b.seq = board[p].seq /\ b.seq \in Nat /\ b.state = board[p].state
      /\ b.doc = board[p].doc /\ b.locked = board[p].locked
  BY BoardFields DEF TypeOK, Boards, Raised
<1>2. /\ board[p].state # "none" /\ board' = [board EXCEPT ![p] = c]
      /\ hosts' = hosts /\ heard' = heard /\ history' = history /\ used' = used
  <2>1. board' = [board EXCEPT ![p] = [b EXCEPT !.state = IF @ = "frozen" THEN @
                                         ELSE IF Leads(p) THEN "ready" ELSE "synchronizing"]]
    BY DEF TransportUp, Raised
  <2>2. [b EXCEPT !.state = s] = c
    BY DEF TypeOK, Boards, UpSet, Raised
  <2>3. [b EXCEPT !.state = IF @ = "frozen" THEN @ ELSE IF Leads(p) THEN "ready" ELSE "synchronizing"]
        = [b EXCEPT !.state = s]
    BY <1>1 DEF RaisedState
  <2>4. QED BY <2>1, <2>2, <2>3 DEF TransportUp
<1>3. \E n \in {net, Rejoined(Lost(net, p), p)} :
         \/ net' = n
         \/ Leads(p) /\ net' = Greeted(n, p, D, d)
         \/ net' = Greeted(n, p, R, k)
  <2>1. PICK n \in {net, Rejoined(Lost(net, p), p)} :
          net' = IF b.state = "frozen" THEN n
                 ELSE IF Leads(p)
                 THEN [n EXCEPT ![p] = [q \in Peers |->
                        IF q \in Others(p) /\ Len(@[q]) < Cap THEN Append(@[q], Descriptor(p, b))
                        ELSE @[q]]]
                 ELSE [n EXCEPT ![p] = [q \in Peers |->
                        IF q = Recovery(p) /\ q \in Others(p) /\ Len(@[q]) < Cap
                        THEN Append(@[q], [kind |-> "sync", host |-> Host(p), base |-> b.seq])
                        ELSE @[q]]]
    BY DEF TransportUp, Raised
  <2>2. \A q : (q = Recovery(p) /\ q \in Others(p)) <=> q \in R
    OBVIOUS
  <2>3. [kind |-> "sync", host |-> Host(p), base |-> b.seq] = k
    BY <1>1 DEF RaisedSync
  <2> HIDE DEF R, b, k
  <2>4. [n EXCEPT ![p] = [q \in Peers |->
           IF q = Recovery(p) /\ q \in Others(p) /\ Len(@[q]) < Cap THEN Append(@[q], k) ELSE @[q]]]
        = Greeted(n, p, R, k)
    <3>1. [q \in Peers |->
             IF q = Recovery(p) /\ q \in Others(p) /\ Len(n[p][q]) < Cap THEN Append(n[p][q], k) ELSE n[p][q]]
          = [q \in Peers |-> IF q \in R /\ Len(n[p][q]) < Cap THEN Append(n[p][q], k) ELSE n[p][q]]
      BY <2>2
    <3>2. QED BY <3>1 DEF Greeted
  <2>5. Leads(p) => [n EXCEPT ![p] = [q \in Peers |->
                        IF q \in Others(p) /\ Len(@[q]) < Cap THEN Append(@[q], Descriptor(p, b))
                        ELSE @[q]]] = Greeted(n, p, D, d)
    BY DEF Greeted
  <2>6. QED BY <2>1, <2>3, <2>4, <2>5
<1>4. QED BY <1>1, <1>2, <1>3

\* The connection is back, resumed or anew.
LEMMA TransportUpGentle ==
  ASSUME IInv, NEW p \in Peers, TransportUp(p)
  PROVE  Gentle
<1> DEFINE b == Raised(p)
           s == RaisedState(p)
           c == UpSet(board[p], TRUE, s)
           d == Descriptor(p, b)
           k == RaisedSync(p)
           D == Others(p)
           R == {Recovery(p)} \cap Others(p)
<1>0. TypeOK
  BY DEF IInv
<1>1. b \in Boards /\ b.seq = board[p].seq /\ b.seq \in Nat /\ b.state = board[p].state
  BY <1>0, TransportUpIs, BoardFields
<1>2. /\ board[p].state # "none" /\ board' = [board EXCEPT ![p] = c]
      /\ hosts' = hosts /\ heard' = heard /\ history' = history /\ used' = used
  BY <1>0, TransportUpIs
<1>3. \E n \in {net, Rejoined(Lost(net, p), p)} :
         \/ net' = n
         \/ Leads(p) /\ net' = Greeted(n, p, D, d)
         \/ net' = Greeted(n, p, R, k)
  BY <1>0, TransportUpIs
<1>4. /\ D \in SUBSET Peers /\ p \notin D /\ \A x \in D : board[x].state # "none"
      /\ R \in SUBSET Peers /\ p \notin R /\ \A x \in R : board[x].state # "none"
  BY OthersType
<1>5. k \in Messages /\ k.kind = "sync"
  BY <1>0, <1>1, HostType DEF Messages, Syncs, RaisedSync
<1>6. d \in Messages /\ (Leads(p) => \A q \in D : MsgOK(p, q, d))
  <2>1. d \in Messages /\ d.kind = "descriptor" /\ d.seq = board[p].seq
    BY <1>0, <1>1, DescriptorOK
  <2> HIDE DEF d
  <2>2. NumbersUpTo(d, board[p].seq)
    BY <1>1, <2>1 DEF NumbersUpTo
  <2>3. QED BY <1>4, <2>1, <2>2, LeaderSays
<1>7. s \in States \ {"none"}
  BY <1>1, <1>2 DEF States, RaisedState
<1> HIDE DEF d, k, D, R
<1>8. \A q \in R : MsgOK(p, q, k)
  BY <1>4, <1>5, PlainOK
<1>9. Fine(net')
  <2>1. PICK n \in {net, Rejoined(Lost(net, p), p)} :
         \/ net' = n
         \/ Leads(p) /\ net' = Greeted(n, p, D, d)
         \/ net' = Greeted(n, p, R, k)
    BY <1>3
  <2>2. Fine(n)
    BY <1>2, <2>1, NetFine, LostFine
  <2>3. CASE Leads(p) /\ net' = Greeted(n, p, D, d)
    BY <1>4, <1>6, <2>2, <2>3, GreetingFine
  <2>4. CASE net' = Greeted(n, p, R, k)
    BY <1>4, <1>5, <1>8, <2>2, <2>4, GreetingFine
  <2>5. QED BY <2>1, <2>2, <2>3, <2>4
<1> HIDE DEF s
<1>10. c \in Boards /\ Eased(p, c)
  BY <1>0, <1>2, <1>7, EasedUp
<1> HIDE DEF c
<1>11. QED BY <1>0, <1>2, <1>9, <1>10, OneEased DEF TypeOK

-----------------------------------------------------------------------------
(* The authority gives a number *)

\* The document d covers one more entry of the log.
CoversEntry(e, d) ==
  e.kind \in Drawing => e.epoch <= d.epoch /\ (e.epoch = d.epoch => e.id \in d.accepted)

\* One entry more.
LEMMA LongerHistory ==
  ASSUME TypeOK, NEW e \in Entries \cup Handoffs, history' = Append(history, e)
  PROVE  /\ history' \in Seq(Entries \cup Handoffs) /\ Len(history') = Len(history) + 1
         /\ Len(history) \in Nat /\ history'[Len(history) + 1] = e
         /\ \A i \in 1..Len(history) : history'[i] = history[i]
BY DEF TypeOK

\* What a number needs: it is the next one, and the document covers it.
NumberGiven(p, b, e) ==
  /\ b \in Boards /\ b.seq = board[p].seq + 1 /\ e.seq = b.seq
  /\ b.state # "none" /\ b.source = None /\ b.offering = board[p].offering
  /\ \A k \in 1..Len(b.log) : b.log[k].seq <= b.seq
  /\ \A k \in b.known : k.seq <= b.seq
  /\ \A i \in 1..Len(history) : CoversEntry(history[i], b.doc)
  /\ CoversEntry(e, b.doc)

\* The others are told of it, and of nothing else that is new.
NumberTold(p, e, n) ==
  /\ n \in Nets
  /\ \A a, c \in Peers : \A m \in Way(n, a, c) :
        \/ MsgOK(a, c, m)
        \/ a = p /\ c # p /\ board[c].state # "none" /\ m.kind = "commit" /\ m.entry = e

\* That keeps the invariant.
LEMMA NumberKeeps ==
  ASSUME IInv, NEW p \in Peers, Leads(p), NEW b, NEW e \in Entries,
         NumberGiven(p, b, e), NumberTold(p, e, net'),
         board' = [board EXCEPT ![p] = b], history' = Append(history, e),
         hosts' = hosts, heard' = heard, used' \in Counts
  PROVE  IInv'
<1> USE DEF NumberGiven, NumberTold
<1>0. TypeOK /\ ChainInv /\ SeatInv /\ SeqInv /\ CoverInv /\ NetInv
  BY DEF IInv
<1>1. /\ ~Vacant /\ IsHost(p) /\ board[p].source = None /\ board[p].state # "none"
      /\ \A q \in Peers : Leads(q) => q = p
  BY <1>0, OneLeads DEF Leads
<1>2. /\ Len(history) \in Nat /\ Len(history') = Len(history) + 1
      /\ history'[Len(history) + 1] = e /\ \A i \in 1..Len(history) : history'[i] = history[i]
      /\ history' \in Seq(Entries \cup Handoffs)
  BY <1>0, LongerHistory
<1>3. board[p].seq = Len(history) /\ b.seq = Len(history')
  BY <1>0, <1>2 DEF SeqInv
<1>4. /\ board' \in [Peers -> Boards] /\ board'[p] = b
      /\ \A q \in Peers : q # p => board'[q] = board[q]
  BY <1>0 DEF TypeOK
<1>5. \A q \in Peers : board[q].seq \in Nat /\ board'[q].seq \in Nat /\ board'[q].seq >= board[q].seq
  BY <1>0, <1>3, <1>4, BoardFields DEF TypeOK
<1>6. TypeOK'
  BY <1>0, <1>2, <1>4 DEF TypeOK
<1>7. /\ Reign' = Reign /\ NewHost' = NewHost /\ OldHost' = OldHost
      /\ \A q \in Peers : Host(q)' = Host(q) /\ IsHost(q)' = IsHost(q)
  BY DEF Reign, NewHost, OldHost, Host, IsHost
<1>8. \A q \in Peers : board'[q].source = board[q].source
  BY <1>1, <1>4
<1>9. Seated' = Seated /\ Vacant' = Vacant /\ \A q \in Peers : Leads(q)' = Leads(q)
  BY <1>0, <1>7, <1>8, HostType DEF Seated, Vacant, Leads
<1>10. ChainInv'
  <2>1. \A i \in 1..Reign : board'[hosts[i]].state # "none"
    BY <1>0, <1>4, HostType DEF ChainInv
  <2>2. QED BY <1>0, <1>7, <2>1 DEF ChainInv
<1>11. SeatInv'
  BY <1>0, <1>4, <1>7, <1>8, <1>9 DEF SeatInv
<1>12. SeqInv'
  <2>1. \A q \in Peers : board'[q].seq <= Len(history')
    BY <1>0, <1>2, <1>3, <1>4, <1>5 DEF SeqInv
  <2>2. \A q \in Peers : Leads(q) => board'[q].seq = Len(history')
    BY <1>1, <1>3, <1>4
  <2>3. \A q \in Peers : board'[q].offering => Offered(q)'
    <3>1. TAKE q \in Peers
    <3>2. HAVE board'[q].offering
    <3>3. board[q].offering /\ Offered(q)
      BY <1>0, <1>4, <3>2 DEF SeqInv
    <3>4. q # p /\ board'[q].seq = board[q].seq
      BY <1>1, <1>4, <3>3 DEF Offered
    <3>5. Host(q) \in Peers
      BY <1>0, HostType
    <3>6. QED BY <1>1, <1>5, <1>7, <1>9, <3>3, <3>4, <3>5 DEF Offered
  <2>4. \A q \in Peers : \A k \in 1..Len(board'[q].log) : board'[q].log[k].seq <= board'[q].seq
    BY <1>0, <1>4 DEF SeqInv
  <2>5. \A q \in Peers : \A k \in board'[q].known : k.seq <= board'[q].seq
    BY <1>0, <1>4 DEF SeqInv
  <2>6. QED BY <1>1, <1>9, <2>1, <2>2, <2>3, <2>4, <2>5 DEF SeqInv
<1>13. CoverInv'
  <2>1. Covers(b.doc)'
    <3>1. \A i \in 1..Len(history') : CoversEntry(history'[i], b.doc)
      BY <1>2
    <3>2. QED BY <3>1 DEF Covers, CoversEntry
  <2>2. \A q \in Peers : Leads(q)' => Covers(board[q].doc)'
    BY <1>1, <1>4, <1>9, <2>1
  <2>3. QED BY <1>1, <1>9, <2>2 DEF CoverInv
<1>14. NetInv'
  <2>1. SUFFICES ASSUME NEW a \in Peers, NEW c \in Peers, NEW m \in Way(net', a, c)
                 PROVE  MsgOK(a, c, m)'
    BY DEF NetInv, Way
  <2>2. m \in Messages
    BY WayType
  <2>3. CASE MsgOK(a, c, m)
    <3>1. NumbersUpTo(m, board'[a].seq)
      BY <1>5, <2>2, <2>3, NumbersMonotone DEF MsgOK
    <3>2. m.kind = "snapshot" => m.seq \in Nat
      BY <2>2, MessageFields DEF Shots
    <3>3. m.kind = "snapshot" /\ m.host = c => m.seq <= board[c].seq
      BY <1>1, <2>3 DEF MsgOK, Handing
    <3>4. QED BY <1>1, <1>5, <1>9, <2>3, <3>1, <3>2, <3>3 DEF MsgOK, NumbersUpTo, Numbered
  <2>4. CASE a = p /\ c # p /\ board[c].state # "none" /\ m.kind = "commit" /\ m.entry = e
    BY <1>1, <1>4, <1>5, <1>9, <2>4 DEF MsgOK, NumbersUpTo, Numbered
  <2>5. QED BY <2>1, <2>3, <2>4
<1>15. QED BY <1>6, <1>10, <1>11, <1>12, <1>13, <1>14 DEF IInv

\* The log has the new entry and of the others at most what it had.
LEMMA LoggedType ==
  ASSUME NEW log \in Seq(Entries), NEW e \in Entries
  PROVE  /\ Logged(log, e) \in Seq(Entries)
         /\ \A k \in 1..Len(Logged(log, e)) :
               Logged(log, e)[k] = e \/ \E i \in 1..Len(log) : Logged(log, e)[k] = log[i]
<1> DEFINE t == IF Len(log) = LogCap THEN Tail(log) ELSE log
<1>1. LogCap \in Nat \ {0}
  BY BoardAssumption
<1>2. t \in Seq(Entries) /\ \A k \in 1..Len(t) : \E i \in 1..Len(log) : t[k] = log[i]
  <2>1. CASE Len(log) = LogCap
    <3>1. t = Tail(log) /\ log # <<>>
      BY <1>1, <2>1
    <3>2. Tail(log) \in Seq(Entries) /\ Len(Tail(log)) = Len(log) - 1 /\ Len(log) \in Nat
          /\ \A k \in 1..Len(Tail(log)) : Tail(log)[k] = log[k + 1] /\ k + 1 \in 1..Len(log)
      BY <3>1
    <3>3. QED BY <3>1, <3>2
  <2>2. CASE Len(log) # LogCap
    BY <2>2
  <2>3. QED BY <2>1, <2>2
<1> HIDE DEF t
<1>3. Logged(log, e) = Append(t, e)
  BY DEF Logged, t
<1>4. Append(t, e) \in Seq(Entries)
  BY <1>2
<1>5. \A k \in 1..Len(Append(t, e)) : Append(t, e)[k] = e \/ \E i \in 1..Len(t) : Append(t, e)[k] = t[i]
  BY <1>2, WayOfAppend
<1>6. QED BY <1>2, <1>3, <1>4, <1>5

\* A board that has taken a number.
NumberSet(b, n, d, log, known, locked) ==
  [b EXCEPT !.seq = n, !.doc = d, !.log = log, !.known = known, !.locked = locked]
\* What it is, field by field.
LEMMA NumberSetType ==
  ASSUME NEW b \in Boards, NEW n \in Nat, NEW d \in Docs, NEW log \in Seq(Entries),
         NEW known \in SUBSET Drawings, NEW locked \in BOOLEAN
  PROVE  LET c == NumberSet(b, n, d, log, known, locked)
         IN  /\ c \in Boards /\ c.seq = n /\ c.doc = d /\ c.log = log /\ c.known = known
             /\ c.state = b.state /\ c.source = b.source /\ c.offering = b.offering
             /\ c.up = b.up /\ c.pending = b.pending /\ c.locked = locked
BY DEF Boards, NumberSet

\* The authority takes the entry e.
LEMMA TakesNumber ==
  ASSUME IInv, NEW p \in Peers, Leads(p), board[p].state # "none", NEW e \in Entries,
         e.seq = board[p].seq + 1, NEW d \in Docs, NEW known \in SUBSET Drawings,
         \A k \in known : k \in board[p].known \/ k = e, NEW locked \in BOOLEAN,
         \A i \in 1..Len(history) : CoversEntry(history[i], d),
         CoversEntry(e, d),
         board' = [board EXCEPT ![p] = NumberSet(board[p], board[p].seq + 1, d,
                                                Logged(board[p].log, e), known, locked)],
         history' = Append(history, e), hosts' = hosts, heard' = heard, used' \in Counts,
         NEW n, Fine(n), net' = Sent(n, p, Others(p), CommitOf(p, e))
  PROVE  IInv'
<1> DEFINE a == board[p]
           log == Logged(a.log, e)
           b == NumberSet(a, a.seq + 1, d, log, known, locked)
           m == CommitOf(p, e)
<1>0. TypeOK /\ SeqInv /\ ChainInv /\ SeatInv
  BY DEF IInv
<1>1. a \in Boards /\ a.seq \in Nat /\ a.log \in Seq(Entries) /\ a.seq + 1 \in Nat
  BY <1>0, BoardFields DEF TypeOK
<1>2. /\ log \in Seq(Entries)
      /\ \A k \in 1..Len(log) : log[k] = e \/ \E i \in 1..Len(a.log) : log[k] = a.log[i]
  BY <1>1, LoggedType
<1> HIDE DEF log
<1>3. /\ b \in Boards /\ b.seq = a.seq + 1 /\ b.doc = d /\ b.log = log /\ b.known = known
      /\ b.state = a.state /\ b.source = a.source /\ b.offering = a.offering
  BY <1>1, <1>2, NumberSetType
<1>4. board' = [board EXCEPT ![p] = b]
  BY DEF log
<1> HIDE DEF b
<1>5. \A k \in 1..Len(b.log) : b.log[k].seq <= b.seq
  <2>1. \A i \in 1..Len(a.log) : a.log[i].seq <= a.seq /\ a.log[i].seq \in Nat
    BY <1>0, <1>1, EntryFields DEF SeqInv
  <2>2. TAKE k \in 1..Len(b.log)
  <2>3. b.log[k] = e \/ \E i \in 1..Len(a.log) : b.log[k] = a.log[i]
    BY <1>2, <1>3
  <2>4. CASE b.log[k] = e
    BY <1>1, <1>3, <2>4
  <2>5. CASE \E i \in 1..Len(a.log) : b.log[k] = a.log[i]
    BY <1>1, <1>3, <2>1, <2>5
  <2>6. QED BY <2>3, <2>4, <2>5
<1>6. \A k \in b.known : k.seq <= b.seq
  <2>1. \A k \in a.known : k.seq <= a.seq /\ k.seq \in Nat
    BY <1>0, <1>1, BoardFields DEF SeqInv, Drawings
  <2>2. QED BY <1>1, <1>3, <2>1
<1>7. m \in Messages /\ m.kind = "commit" /\ m.entry = e
  BY <1>0, HostType DEF CommitOf, Messages, Commits
<1>8. Others(p) \in SUBSET Peers /\ p \notin Others(p)
      /\ \A x \in Others(p) : board[x].state # "none"
  BY OthersType
<1> HIDE DEF m
<1>9. net' = Sent(n, p, Others(p), m)
  BY DEF m
<1>10. net' \in Nets /\ \A q, c \in Peers : \A x \in Way(net', q, c) :
          MsgOK(q, c, x) \/ (q = p /\ c # p /\ board[c].state # "none" /\ x.kind = "commit" /\ x.entry = e)
  <2>1. n \in Nets /\ \A q, c \in Peers : \A x \in Way(n, q, c) : MsgOK(q, c, x)
    BY DEF Fine
  <2> DEFINE t == Sent(n, p, Others(p), m)
             D == Others(p)
  <2>2. t \in Nets /\ \A q, c \in Peers : \A x \in Way(t, q, c) :
           x \in Way(n, q, c) \/ (q = p /\ c \in D /\ x = m)
    <3> HIDE DEF D
    <3>1. D \in SUBSET Peers
      BY <1>8 DEF D
    <3>2. Sent(n, p, D, m) \in Nets /\ \A q, c \in Peers : \A x \in Way(Sent(n, p, D, m), q, c) :
             x \in Way(n, q, c) \/ (q = p /\ c \in D /\ x = m)
      BY <1>7, <2>1, <3>1, SentWay
    <3>3. QED BY <3>2 DEF D
  <2> HIDE DEF t
  <2>3. net' = t
    BY <1>9 DEF t
  <2>4. t \in Nets /\ \A q, c \in Peers : \A x \in Way(t, q, c) :
          MsgOK(q, c, x) \/ (q = p /\ c # p /\ board[c].state # "none" /\ x.kind = "commit" /\ x.entry = e)
    BY <1>7, <1>8, <2>1, <2>2
  <2>5. QED BY <2>3, <2>4
<1>11. a.source = None
  BY DEF Leads
<1>12. NumberGiven(p, b, e)
  BY <1>3, <1>5, <1>6, <1>11 DEF NumberGiven
<1>13. NumberTold(p, e, net')
  BY <1>10 DEF NumberTold
<1>14. QED BY <1>4, <1>12, <1>13, NumberKeeps

\* The commands of the log are commands, and belong to an interaction.
LEMMA DrawnEpochs ==
  ASSUME TypeOK
  PROVE  \A i \in 1..Len(history) : history[i].kind \in Drawing =>
            history[i] \in Drawings /\ history[i].epoch \in Nat
<1>1. TAKE i \in 1..Len(history)
<1>2. HAVE history[i].kind \in Drawing
<1>3. history[i] \in Entries \cup Handoffs
  BY DEF TypeOK
<1>4. history[i] \notin Handoffs
  BY <1>2 DEF Handoffs, Drawing
<1>5. history[i] \in Entries /\ history[i].kind # "lock"
  BY <1>2, <1>3, <1>4 DEF Drawing
<1>6. QED BY <1>5, EntryFields DEF IsCommand

\* The document of the authority covers a command that it applies.
LEMMA DrawnCovers ==
  ASSUME TypeOK, NEW d \in Docs, Covers(d), NEW c, IsCommand(c), c.epoch = d.epoch
  PROVE  /\ \A i \in 1..Len(history) : CoversEntry(history[i], Drawn(d, c))
         /\ CoversEntry(c, Drawn(d, c))
<1>1. d.epoch \in Nat
  BY DocFields
<1>2. \A i \in 1..Len(history) : history[i].kind \in Drawing => history[i].epoch \in Nat
  BY DrawnEpochs
<1>3. CASE c.kind = "clear"
  BY <1>1, <1>2, <1>3, DrawnType DEF Covers, CoversEntry
<1>4. CASE c.kind # "clear"
  BY <1>1, <1>2, <1>4, DrawnType DEF Covers, CoversEntry
<1>5. QED BY <1>3, <1>4

\* And a barrier is above all of them.
LEMMA BarrierAbove ==
  ASSUME TypeOK, NEW d \in Docs, Covers(d)
  PROVE  Above(Barrier(d).epoch) /\ \A i \in 1..Len(history) : CoversEntry(history[i], Barrier(d))
<1>1. d.epoch \in Nat /\ Barrier(d).epoch = d.epoch + 1
  BY DocFields, BarrierType
<1>2. \A i \in 1..Len(history) : history[i].kind \in Drawing => history[i].epoch \in Nat
  BY DrawnEpochs
<1>3. QED BY <1>1, <1>2 DEF Covers, CoversEntry, Above

\* What the authority makes of its board, in those terms: a command,
LEMMA CommittedIs ==
  ASSUME NEW b \in Boards, NEW e, NEW d, NEW k
  PROVE  [Committed(b, e, d) EXCEPT !.known = k]
            = NumberSet(b, b.seq + 1, d, Logged(b.log, e), k, b.locked)
<1> DEFINE l == Logged(b.log, e)
           n == b.seq + 1
<1>1. Committed(b, e, d) = [b EXCEPT !.seq = n, !.doc = d, !.log = l]
  BY DEF Committed
<1> HIDE DEF l, n
<1>2. b.locked = [b EXCEPT !.seq = n, !.doc = d, !.log = l, !.known = k].locked
  BY DEF Boards
<1>3. [Committed(b, e, d) EXCEPT !.known = k] = NumberSet(b, n, d, l, k, b.locked)
  BY <1>1, <1>2 DEF Boards, NumberSet
<1>4. QED BY <1>3 DEF l, n

\* and a lock.
LEMMA LockedIs ==
  ASSUME NEW b \in Boards, NEW e, NEW d, NEW k
  PROVE  [Committed(b, e, d) EXCEPT !.locked = k]
            = NumberSet(b, b.seq + 1, d, Logged(b.log, e), b.known, k)
<1> DEFINE l == Logged(b.log, e)
           n == b.seq + 1
<1>1. Committed(b, e, d) = [b EXCEPT !.seq = n, !.doc = d, !.log = l]
  BY DEF Committed
<1> HIDE DEF l, n
<1>3. [Committed(b, e, d) EXCEPT !.locked = k] = NumberSet(b, n, d, l, b.known, k)
  BY <1>1 DEF Boards, NumberSet
<1>4. QED BY <1>3 DEF l, n

\* A command that is entered keeps what it is.
LEMMA EntryOf ==
  ASSUME NEW b \in Boards, NEW c \in Commands
  PROVE  LET e == Entry(b, c)
         IN  /\ e \in Entries /\ e \in Drawings /\ e.seq = b.seq + 1
             /\ e.kind = c.kind /\ e.id = c.id /\ e.epoch = c.epoch /\ e.seen = c.seen
BY BoardFields DEF Entry, Commands, Entries, Drawings

\* The authority accepts the command c, whatever is under way besides.
LEMMA CommitKeeps ==
  ASSUME IInv, NEW p \in Peers, Leads(p), board[p].state # "none", NEW c \in Commands,
         Verdict(board[p].doc, c, p) = "applied",
         board' = [board EXCEPT ![p] =
                     [Committed(board[p], Entry(board[p], c), Drawn(board[p].doc, c))
                        EXCEPT !.known = @ \cup {Entry(board[p], c)}]],
         history' = Append(history, Entry(board[p], c)),
         hosts' = hosts, heard' = heard, used' \in Counts,
         NEW n, Fine(n), net' = Sent(n, p, Others(p), CommitOf(p, Entry(board[p], c)))
  PROVE  IInv'
<1> DEFINE a == board[p]
           e == Entry(a, c)
           d == Drawn(a.doc, c)
           known == a.known \cup {e}
<1>0. TypeOK /\ CoverInv
  BY DEF IInv
<1>1. a \in Boards /\ a.doc \in Docs /\ a.known \in SUBSET Drawings /\ a.locked \in BOOLEAN
      /\ a.seq \in Nat
  BY <1>0, BoardFields DEF TypeOK
<1>2. /\ e \in Entries /\ e \in Drawings /\ e.seq = a.seq + 1
      /\ e.kind = c.kind /\ e.id = c.id /\ e.epoch = c.epoch
  BY <1>1, EntryOf
<1>3. IsCommand(c) /\ c.epoch = a.doc.epoch
  BY CommandFields, VerdictSays
<1>4. d \in Docs
  BY <1>1, <1>3, DrawnType
<1>5. /\ \A i \in 1..Len(history) : CoversEntry(history[i], d)
      /\ CoversEntry(c, d)
  BY <1>0, <1>1, <1>3, DrawnCovers DEF CoverInv
<1>6. CoversEntry(e, d)
  BY <1>2, <1>5 DEF CoversEntry
<1>7. Committed(a, e, d).known = a.known
  BY <1>1 DEF Committed, Boards
<1>8. board' = [board EXCEPT ![p] = NumberSet(a, a.seq + 1, d, Logged(a.log, e), known, a.locked)]
  <2>1. board' = [board EXCEPT ![p] = [Committed(a, e, d) EXCEPT !.known = known]]
    BY <1>7
  <2> DEFINE l == [Committed(a, e, d) EXCEPT !.known = known]
             r == NumberSet(a, a.seq + 1, d, Logged(a.log, e), known, a.locked)
  <2>2. l = r
    <3> HIDE DEF known, e, d, a
    <3>1. QED BY <1>1, CommittedIs
  <2> HIDE DEF l, r
  <2>3. board' = [board EXCEPT ![p] = l]
    BY <2>1 DEF l
  <2>4. board' = [board EXCEPT ![p] = r]
    BY <2>2, <2>3
  <2>5. QED BY <2>4 DEF r
<1>9. known \in SUBSET Drawings /\ \A k \in known : k \in a.known \/ k = e
  BY <1>1, <1>2
<1>10. history' = Append(history, e) /\ net' = Sent(n, p, Others(p), CommitOf(p, e))
  OBVIOUS
<1> HIDE DEF known, e, d
<1>11. QED BY <1>1, <1>2, <1>4, <1>5, <1>6, <1>8, <1>9, <1>10, TakesNumber

\* The authority draws.
LEMMA DrawKeeps ==
  ASSUME IInv, NEW p \in Peers, NEW kind \in Drawing, Draw(p, kind)
  PROVE  IInv'
<1> DEFINE c == Gesture(p, kind)
<1>0. TypeOK
  BY DEF IInv
<1>1. c \in Commands
  <2>1. board[p].seq \in Nat /\ board[p].doc.epoch \in Nat /\ used.gestures \in Nat
    BY <1>0, BoardFields, DocFields DEF TypeOK, Counts
  <2>2. QED BY <2>1 DEF Gesture, Commands, Ids
<1>2. used' \in Counts
  <2>1. used \in Counts /\ used' = [used EXCEPT !.gestures = @ + 1]
    BY <1>0 DEF TypeOK, Draw
  <2>2. used.gestures + 1 \in Nat
    BY <2>1 DEF Counts
  <2>3. QED BY <2>1, <2>2 DEF Counts
<1> HIDE DEF c
<1>3. /\ Leads(p) /\ board[p].state = "ready"
      /\ Verdict(board[p].doc, c, p) = "applied"
      /\ board' = [board EXCEPT ![p] =
                     [Committed(board[p], Entry(board[p], c), Drawn(board[p].doc, c))
                        EXCEPT !.known = @ \cup {Entry(board[p], c)}]]
      /\ net' = Sent(net, p, Others(p), CommitOf(p, Entry(board[p], c)))
      /\ history' = Append(history, Entry(board[p], c))
      /\ hosts' = hosts /\ heard' = heard
  BY DEF Draw, c
<1>4. QED BY <1>1, <1>2, <1>3, NetFine, CommitKeeps

\* The authority locks or unlocks the board.
LEMMA LockKeeps ==
  ASSUME IInv, NEW p \in Peers, Lock(p)
  PROVE  IInv'
<1> DEFINE a == board[p]
           e == [seq |-> a.seq + 1, kind |-> "lock", locked |-> ~a.locked]
           d == Barrier(a.doc)
<1>0. TypeOK /\ CoverInv
  BY DEF IInv
<1>1. a \in Boards /\ a.doc \in Docs /\ a.known \in SUBSET Drawings /\ a.locked \in BOOLEAN
      /\ a.seq \in Nat
  BY <1>0, BoardFields DEF TypeOK
<1>2. /\ Leads(p) /\ a.state = "ready"
      /\ board' = [board EXCEPT ![p] = [Committed(a, e, d) EXCEPT !.locked = ~@]]
      /\ net' = Sent(net, p, Others(p), CommitOf(p, e))
      /\ history' = Append(history, e)
      /\ used' = [used EXCEPT !.locks = @ + 1]
      /\ hosts' = hosts /\ heard' = heard
  BY DEF Lock
<1>3. used' \in Counts
  <2>1. used \in Counts
    BY <1>0 DEF TypeOK
  <2>2. used.locks + 1 \in Nat
    BY <2>1 DEF Counts
  <2>3. QED BY <1>2, <2>1, <2>2 DEF Counts
<1>4. e \in Entries /\ e.seq = a.seq + 1 /\ e.kind = "lock"
  BY <1>1 DEF Entries, Locks
<1>5. d \in Docs /\ \A i \in 1..Len(history) : CoversEntry(history[i], d)
  BY <1>0, <1>1, <1>2, BarrierType, BarrierAbove DEF CoverInv
<1>6. CoversEntry(e, d)
  BY <1>4 DEF CoversEntry, Drawing
<1>7. Committed(a, e, d).locked = a.locked
  BY <1>1 DEF Committed, Boards
<1>8. board' = [board EXCEPT ![p] = NumberSet(a, a.seq + 1, d, Logged(a.log, e), a.known, ~a.locked)]
  <2>1. board' = [board EXCEPT ![p] = [Committed(a, e, d) EXCEPT !.locked = ~a.locked]]
    BY <1>2, <1>7
  <2> DEFINE l == [Committed(a, e, d) EXCEPT !.locked = ~a.locked]
             r == NumberSet(a, a.seq + 1, d, Logged(a.log, e), a.known, ~a.locked)
  <2>2. l = r
    <3> HIDE DEF e, d, a
    <3>1. QED BY <1>1, LockedIs
  <2> HIDE DEF l, r
  <2>3. board' = [board EXCEPT ![p] = l]
    BY <2>1 DEF l
  <2>4. board' = [board EXCEPT ![p] = r]
    BY <2>2, <2>3
  <2>5. QED BY <2>4 DEF r
<1> HIDE DEF e, d
<1>9. (~a.locked) \in BOOLEAN
  BY <1>1
<1>10. QED BY <1>1, <1>2, <1>3, <1>4, <1>5, <1>6, <1>8, <1>9, NetFine, TakesNumber

\* The authority answers a proposal.
LEMMA DecideKeeps ==
  ASSUME IInv, NEW p \in Peers, NEW q \in Peers, Decide(p, q)
  PROVE  IInv'
<1> DEFINE m == Head1(p, q)
           c == m.cmd
           back == {p} \cap Others(q)
<1>0. TypeOK /\ SeqInv
  BY DEF IInv
<1>1. /\ net[p][q] # <<>> /\ m.kind = "propose" /\ Leads(q) /\ board[q].state # "none"
      /\ hosts' = hosts /\ heard' = heard /\ used' = used
  BY DEF Decide, Arrived, Heeds
<1>2. Fine(Taken(p, q)) /\ m \in Messages /\ MsgOK(p, q, m)
  BY <1>1, TakenFine
<1>3. c \in Commands /\ p # q
  BY <1>1, <1>2, MessageFields DEF Proposals, MsgOK
<1>4. used' \in Counts
  BY <1>0, <1>1 DEF TypeOK
<1>5. CASE Accepts(p, q, c)
  <2>1. /\ board' = [board EXCEPT ![q] =
                       [Committed(board[q], Entry(board[q], c), Drawn(board[q].doc, c))
                          EXCEPT !.known = @ \cup {Entry(board[q], c)}]]
        /\ net' = Sent(Taken(p, q), q, Others(q), CommitOf(q, Entry(board[q], c)))
        /\ history' = Append(history, Entry(board[q], c))
    BY <1>5 DEF Decide
  <2>2. Verdict(board[q].doc, c, q) = "applied"
    BY <1>5 DEF Accepts
  <2> HIDE DEF c
  <2>3. QED BY <1>1, <1>2, <1>3, <1>4, <2>1, <2>2, CommitKeeps
<1>6. CASE ~Accepts(p, q, c)
  <2> DEFINE r == IF Answers(q, c) # {}
                  THEN CommitOf(q, CHOOSE k \in Answers(q, c) : TRUE)
                  ELSE [kind |-> "reject", host |-> q, id |-> c.id]
  <2>1. net' = Sent(Taken(p, q), q, back, r) /\ board' = board /\ history' = history
    BY <1>6 DEF Decide
  <2>2. r \in Messages /\ (board[p].state # "none" => MsgOK(q, p, r))
    <3>1. CASE Answers(q, c) # {}
      <4>1. PICK k \in Answers(q, c) : r = CommitOf(q, k)
        BY <3>1
      <4>2. k \in board[q].known /\ k \in Drawings /\ k.seq <= board[q].seq
        BY <1>0, <4>1, BoardFields DEF Answers, TypeOK, SeqInv
      <4>3. r \in Messages /\ r.kind = "commit" /\ r.entry = k
        BY <1>0, <4>1, <4>2, HostType DEF CommitOf, Messages, Commits, Entries
      <4>4. NumbersUpTo(r, board[q].seq)
        BY <4>2, <4>3 DEF NumbersUpTo
      <4>5. QED BY <1>1, <1>3, <4>3, <4>4, LeaderSays
    <3>2. CASE Answers(q, c) = {}
      <4>1. r = [kind |-> "reject", host |-> q, id |-> c.id]
        BY <3>2
      <4>2. r \in Messages /\ r.kind = "reject"
        BY <1>3, <4>1, CommandFields DEF Messages, Rejects, IsCommand
      <4>3. QED BY <1>3, <4>2, PlainOK
    <3>3. QED BY <3>1, <3>2
  <2> HIDE DEF r
  <2>3. back \in SUBSET Peers /\ back \subseteq {p} /\ \A x \in back : board[x].state # "none"
    BY OthersType
  <2> HIDE DEF back
  <2>4. Fine(net')
    BY <1>2, <2>1, <2>2, <2>3, SentFine
  <2>5. Gentle
    BY <1>1, <2>1, <2>4, NoneEased
  <2>6. QED BY <2>5, GentleKeeps
<1>7. QED BY <1>5, <1>6

-----------------------------------------------------------------------------
(* Somebody other than the authority hears of a host, starts or ends *)

\* p has heard of host i and has the board b now.
Aside(p, i, b) ==
  /\ i \in 1..Reign /\ b \in Boards /\ ~IsHost(p)
  /\ Reign > 1 => p # OldHost
  /\ p = NewHost => heard[p] < Reign /\ (i = Reign => b.source # None)
  /\ hosts[i] = p => i = Reign
  /\ b.source # None => p = NewHost /\ i = Reign /\ Reign > 1
  /\ b.state = "none" => b = Closed
  /\ \A k \in 1..Reign : hosts[k] = p =>
        b.state # "none" /\ i >= heard[p] /\ b.seq = board[p].seq
  /\ b.seq <= board[p].seq
  /\ b.offering => board[p].offering /\ hosts[i] = Host(p) /\ b.seq = board[p].seq
  /\ \A k \in 1..Len(b.log) : b.log[k].seq <= b.seq
  /\ \A e \in b.known : e.seq <= b.seq

\* What is under way fits with it.
AsideNet(p, b, n) ==
  /\ n \in Nets
  /\ \A a, c \in Peers : \A m \in Way(n, a, c) :
        /\ MsgOK(a, c, m)
        /\ b.seq = board[p].seq \/ (c # p /\ (a # p \/ m.kind \in {"left", "joined"}))
        /\ b.state = "none" => c # p

\* That keeps the invariant.
LEMMA AsideKeeps ==
  ASSUME IInv, NEW p \in Peers, NEW i, NEW b, Aside(p, i, b), AsideNet(p, b, net'),
         heard' = [heard EXCEPT ![p] = i], board' = [board EXCEPT ![p] = b],
         hosts' = hosts, history' = history, used' \in Counts
  PROVE  IInv'
<1>0. TypeOK /\ ChainInv /\ SeatInv /\ SeqInv /\ CoverInv /\ NetInv
  BY DEF IInv
<1>1. /\ board' \in [Peers -> Boards] /\ board'[p] = b
      /\ \A q \in Peers : q # p => board'[q] = board[q]
  BY <1>0 DEF TypeOK, Aside
<1>2. /\ heard' \in [Peers -> 1..Len(hosts)] /\ heard'[p] = i
      /\ \A q \in Peers : q # p => heard'[q] = heard[q]
  BY <1>0 DEF TypeOK, Aside, Reign
<1>3. TypeOK'
  BY <1>0, <1>1, <1>2 DEF TypeOK, AsideNet
<1>4. /\ Reign' = Reign /\ NewHost' = NewHost /\ OldHost' = OldHost
      /\ Reign \in Nat \ {0} /\ NewHost \in Peers /\ (Reign > 1 => OldHost \in Peers)
      /\ \A q \in Peers : heard[q] \in 1..Reign /\ Host(q) \in Peers
  BY <1>0, HostType DEF Reign, NewHost, OldHost
<1>5. /\ \A q \in Peers : q # p => Host(q)' = Host(q) /\ IsHost(q)' = IsHost(q)
      /\ Host(p)' = hosts[i]
  BY <1>2 DEF Host, IsHost
<1>6. /\ \A n : Above(n)' = Above(n)
      /\ \A d : Covers(d)' = Covers(d)
  BY DEF Above, Covers
<1>7. Seated' = Seated
  <2>1. CASE p # NewHost
    BY <1>1, <1>2, <1>4, <2>1 DEF Seated
  <2>2. CASE p = NewHost
    <3>1. ~Seated
      BY <1>4, <2>2 DEF Aside, Seated
    <3>2. ~(heard'[NewHost] = Reign /\ board'[NewHost].source = None)
      BY <1>1, <1>2, <2>2 DEF Aside
    <3>3. QED BY <1>4, <3>1, <3>2 DEF Seated
  <2>3. QED BY <2>1, <2>2
<1>8. Vacant' = Vacant
  BY <1>2, <1>4, <1>7 DEF Vacant, Aside
<1>9. ~Leads(p) /\ ~Leads(p)' /\ \A q \in Peers : q # p => Leads(q)' = Leads(q)
  <2>1. ~Leads(p) /\ \A q \in Peers : q # p => Leads(q)' = Leads(q)
    BY <1>1, <1>5 DEF Leads, Aside
  <2>2. ASSUME Leads(p)' PROVE FALSE
    <3>1. hosts[i] = p /\ b.source = None
      BY <1>1, <1>5, <2>2 DEF Leads, IsHost
    <3>2. i = Reign /\ p = NewHost
      BY <3>1 DEF Aside, NewHost, Reign
    <3>3. QED BY <3>1, <3>2 DEF Aside
  <2>3. QED BY <2>1, <2>2
<1>10. ChainInv'
  <2>1. \A k \in 1..Reign : board'[hosts[k]].state # "none" /\ heard'[hosts[k]] >= heard[hosts[k]]
    <3>1. TAKE k \in 1..Reign
    <3>2. hosts[k] \in Peers /\ board[hosts[k]].state # "none" /\ heard[hosts[k]] \in Nat
      BY <1>0, <1>4, HostType DEF ChainInv
    <3>3. CASE hosts[k] = p
      BY <1>1, <1>2, <3>3 DEF Aside
    <3>4. CASE hosts[k] # p
      BY <1>1, <1>2, <3>2, <3>4
    <3>5. QED BY <3>3, <3>4
  <2>2. \A k \in 1..(Reign - 1) : k \in 1..Reign /\ hosts[k] \in Peers /\ heard[hosts[k]] \in Nat
                                  /\ heard'[hosts[k]] \in Nat
    BY <1>0, <1>2, <1>4, HostType DEF Reign
  <2>3. \A k \in 1..(Reign - 1) : heard'[hosts[k]] >= k
    BY <1>0, <2>1, <2>2 DEF ChainInv
  <2>4. \A k \in 1..(Reign - 2) : heard'[hosts[k]] > k
    <3>1. TAKE k \in 1..(Reign - 2)
    <3>2. k \in 1..(Reign - 1) /\ heard[hosts[k]] > k
      BY <1>0, <1>4 DEF ChainInv
    <3>3. QED BY <2>1, <2>2, <3>2
  <2>5. QED BY <1>0, <1>4, <2>1, <2>3, <2>4 DEF ChainInv
<1>11. SeatInv'
  <2>1. \A q \in Peers : board'[q].source # None => q = NewHost /\ heard'[q] = Reign /\ Reign > 1
    BY <1>0, <1>1, <1>2 DEF SeatInv, Aside
  <2>2. Reign > 1 /\ Seated => heard'[OldHost] = Reign
    BY <1>0, <1>2, <1>4 DEF SeatInv, Aside
  <2>3. \A q \in Peers : board'[q].state = "none" => board'[q] = Closed
    BY <1>0, <1>1 DEF SeatInv, Aside
  <2>4. QED BY <1>4, <1>7, <2>1, <2>2, <2>3 DEF SeatInv
<1>12. \A q \in Peers : board[q].seq \in Nat /\ board'[q].seq \in Nat /\ board'[q].seq <= board[q].seq
  <2>1. TAKE q \in Peers
  <2>2. board[q].seq \in Nat /\ board'[q].seq \in Nat
    BY <1>0, <1>1, BoardFields DEF TypeOK
  <2>3. QED BY <1>1, <2>2 DEF Aside
<1>13. SeqInv'
  <2>0. Len(history) \in Nat
    BY <1>0 DEF TypeOK
  <2>1. \A q \in Peers : board'[q].seq <= Len(history)
    BY <1>0, <1>12, <2>0 DEF SeqInv
  <2>2. \A q \in Peers : Leads(q)' => board'[q].seq = Len(history)
    BY <1>0, <1>1, <1>9 DEF SeqInv
  <2>3. Vacant => board'[OldHost].seq = Len(history)
    BY <1>0, <1>1, <1>4 DEF SeqInv, Vacant, Aside
  <2>4. ASSUME NEW q \in Peers, board'[q].offering PROVE Offered(q)'
    <3>1. board[q].offering /\ Host(q)' = Host(q) /\ board'[q].seq = board[q].seq
      BY <1>1, <1>5, <2>4 DEF Aside
    <3>2. Offered(q)
      BY <1>0, <3>1 DEF SeqInv
    <3>3. board'[Host(q)].seq = board[Host(q)].seq
      <4>1. PICK k \in 1..Reign : Host(q) = hosts[k]
        BY <1>4 DEF Host
      <4>2. QED BY <1>1, <1>4, <4>1 DEF Aside
    <3>4. QED BY <1>4, <1>8, <3>1, <3>2, <3>3 DEF Offered, IsHost
  <2>5. \A q \in Peers : \A k \in 1..Len(board'[q].log) : board'[q].log[k].seq <= board'[q].seq
    BY <1>0, <1>1 DEF SeqInv, Aside
  <2>6. \A q \in Peers : \A e \in board'[q].known : e.seq <= board'[q].seq
    BY <1>0, <1>1 DEF SeqInv, Aside
  <2>7. QED BY <1>4, <1>8, <2>1, <2>2, <2>3, <2>4, <2>5, <2>6 DEF SeqInv
<1>14. CoverInv'
  <2>1. \A q \in Peers : Leads(q)' => Covers(board'[q].doc)
    BY <1>0, <1>1, <1>9 DEF CoverInv
  <2>2. Vacant => Above(board'[OldHost].doc.epoch)
    BY <1>0, <1>1, <1>4 DEF CoverInv, Vacant, Aside
  <2>3. QED BY <1>4, <1>6, <1>8, <2>1, <2>2 DEF CoverInv
<1>15. NetInv'
  <2>1. SUFFICES ASSUME NEW a \in Peers, NEW c \in Peers, NEW m \in Way(net', a, c)
                 PROVE  MsgOK(a, c, m)'
    BY DEF NetInv, Way
  <2>2. /\ MsgOK(a, c, m)
        /\ b.seq = board[p].seq \/ (c # p /\ (a # p \/ m.kind \in {"left", "joined"}))
        /\ b.state = "none" => c # p
    BY DEF AsideNet
  <2>3. board'[c].state # "none"
    BY <1>1, <2>2 DEF MsgOK
  <2>4. board'[c].seq = board[c].seq /\ NumbersUpTo(m, board'[a].seq)
    <3>1. CASE b.seq = board[p].seq
      BY <1>1, <2>2, <3>1 DEF MsgOK
    <3>2. CASE c # p /\ a # p
      BY <1>1, <2>2, <3>2 DEF MsgOK
    <3>3. CASE c # p /\ m.kind \in {"left", "joined"}
      BY <1>1, <3>3 DEF NumbersUpTo
    <3>4. QED BY <2>2, <3>1, <3>2, <3>3
  <2>5. Handing(a, c, m)' = Handing(a, c, m)
    BY <1>4, <1>6, <1>8 DEF Handing
  <2>6. QED BY <1>8, <2>2, <2>3, <2>4, <2>5 DEF MsgOK, Numbered, NumbersUpTo
<1>16. QED BY <1>3, <1>10, <1>11, <1>13, <1>14, <1>15 DEF IInv

\* Who hears of host i: the last host, which hands over, or somebody who is no
\* host for now.
LEMMA HearingFacts ==
  ASSUME IInv, NEW p \in Peers, NEW i \in (heard[p] + 1)..Len(hosts)
  PROVE  /\ i \in 1..Reign /\ heard[p] \in Nat /\ i > heard[p] /\ Reign > 1 /\ board[p].source = None
         /\ IsHost(p) => /\ Leads(p) /\ Hands(p) /\ p = OldHost /\ p # NewHost
                         /\ heard[p] = Reign - 1 /\ i = Reign
         /\ ~IsHost(p) => p # OldHost /\ (hosts[i] = p => i = Reign)
<1>0. TypeOK /\ ChainInv /\ SeatInv
  BY DEF IInv
<1>1. heard[p] \in 1..Reign /\ Reign \in Nat \ {0} /\ i \in 1..Reign /\ i > heard[p] /\ Reign > 1
  BY <1>0, HostType DEF Reign
<1>2. board[p].source = None
  BY <1>0, <1>1 DEF SeatInv
<1>3. IsHost(p) => p = OldHost /\ p # NewHost /\ heard[p] = Reign - 1
  BY <1>0, <1>1, WhoIsHost
<1>4. ASSUME p = OldHost PROVE IsHost(p)
  <2>1. Reign - 1 \in 1..(Reign - 1) /\ hosts[Reign - 1] = p
    BY <1>1, <1>4 DEF OldHost, Reign
  <2>2. heard[p] >= Reign - 1
    BY <1>0, <2>1 DEF ChainInv
  <2>3. heard[p] = Reign - 1
    BY <1>1, <2>2
  <2>4. QED BY <2>1, <2>3 DEF IsHost, Host
<1>5. ASSUME ~IsHost(p), hosts[i] = p PROVE i = Reign
  <2>1. CASE i \in 1..(Reign - 2)
    <3>1. heard[p] > i
      BY <1>0, <1>5, <2>1 DEF ChainInv
    <3>2. QED BY <1>1, <3>1
  <2>2. CASE i = Reign - 1
    BY <1>4, <1>5, <2>2 DEF OldHost, Reign
  <2>3. QED BY <1>1, <2>1, <2>2
<1>6. QED BY <1>1, <1>2, <1>3, <1>4, <1>5 DEF Leads, Hands

\* What a host may have missed is counted.
LEMMA MissesType ==
  ASSUME TypeOK, NEW p \in Peers, NEW i \in 1..Reign, i > heard[p],
         used' = [used EXCEPT !.misses = @ + i - heard[p] - 1]
  PROVE  used' \in Counts
<1>1. used \in Counts /\ heard[p] \in Nat
  BY HostType DEF TypeOK
<1>2. used.misses \in Nat
  BY <1>1 DEF Counts
<1>3. used.misses + i - heard[p] - 1 \in Nat
  BY <1>1, <1>2
<1> DEFINE k == used.misses + i - heard[p] - 1
<1> HIDE DEF k
<1>4. used' = [used EXCEPT !.misses = k] /\ k \in Nat
  BY <1>3 DEF k
<1>5. QED BY <1>1, <1>4 DEF Counts

\* The host that is named is the one that p has in mind.
LEMMA HearsSameKeeps ==
  ASSUME IInv, NEW p \in Peers, NEW i \in (heard[p] + 1)..Len(hosts), SetAuthority(p, i),
         hosts[i] = Host(p)
  PROVE  IInv'
<1>0. TypeOK /\ ChainInv /\ SeatInv /\ SeqInv
  BY DEF IInv
<1>1. /\ board[p].state # "none" /\ heard' = [heard EXCEPT ![p] = i]
      /\ board' = board /\ net' = net /\ history' = history /\ hosts' = hosts
      /\ used' = [used EXCEPT !.misses = @ + i - heard[p] - 1]
  BY DEF SetAuthority
<1>2. /\ i \in 1..Reign /\ heard[p] \in Nat /\ i > heard[p] /\ Reign > 1 /\ board[p].source = None
      /\ IsHost(p) => p # NewHost /\ i = Reign
      /\ ~IsHost(p) => p # OldHost /\ (hosts[i] = p => i = Reign)
  BY HearingFacts
<1>3. ~IsHost(p) /\ hosts[i] # p
  BY <1>2 DEF IsHost, NewHost, Reign
<1>4. board[p] \in Boards /\ board[p].seq \in Nat
  BY <1>0, BoardFields DEF TypeOK
<1>5. Aside(p, i, board[p])
  <2>1. p = NewHost => heard[p] < Reign /\ (i = Reign => board[p].source # None)
    BY <1>2, <1>3 DEF NewHost, Reign
  <2>2. /\ \A k \in 1..Len(board[p].log) : board[p].log[k].seq <= board[p].seq
        /\ \A e \in board[p].known : e.seq <= board[p].seq
    BY <1>0 DEF SeqInv
  <2>3. QED BY <1>1, <1>2, <1>3, <1>4, <2>1, <2>2 DEF Aside
<1>6. AsideNet(p, board[p], net')
  BY <1>1, NetFine DEF AsideNet, Fine
<1>7. board' = [board EXCEPT ![p] = board[p]]
  BY <1>0, <1>1 DEF TypeOK
<1>8. used' \in Counts
  BY <1>0, <1>1, <1>2, MissesType
<1>9. QED BY <1>1, <1>5, <1>6, <1>7, <1>8, AsideKeeps

\* A board that goes over to another host.
HandedSet(b, d, n, source, offering, state) ==
  [b EXCEPT !.doc = d, !.seq = n, !.log = <<>>, !.known = {}, !.pending = {},
            !.source = source, !.offering = offering, !.state = state]
\* What it is, field by field.
LEMMA HandedSetType ==
  ASSUME NEW b \in Boards, NEW d \in Docs, NEW n \in Nat, NEW source \in Peers \cup {None},
         NEW offering \in BOOLEAN, NEW state \in States
  PROVE  LET c == HandedSet(b, d, n, source, offering, state)
         IN  /\ c \in Boards /\ c.doc = d /\ c.seq = n /\ c.log = <<>> /\ c.known = {}
             /\ c.pending = {} /\ c.source = source /\ c.offering = offering
             /\ c.state = state /\ c.up = b.up /\ c.locked = b.locked
<1>1. <<>> \in Seq(Entries) /\ {} \in SUBSET Drawings /\ {} \in SUBSET Commands
  OBVIOUS
<1> DEFINE e == <<>>
           x == [b EXCEPT !.doc = d, !.seq = n, !.log = e]
           y == [x EXCEPT !.known = {}, !.pending = {}]
<1> HIDE DEF e
<1>2. /\ x \in Boards /\ x.doc = d /\ x.seq = n /\ x.log = e
      /\ x.up = b.up /\ x.locked = b.locked
  BY <1>1 DEF Boards, e
<1> HIDE DEF x
<1>3. /\ y \in Boards /\ y.doc = d /\ y.seq = n /\ y.log = e /\ y.known = {} /\ y.pending = {}
      /\ y.up = b.up /\ y.locked = b.locked
  BY <1>1, <1>2 DEF Boards
<1>4. HandedSet(b, d, n, source, offering, state)
         = [y EXCEPT !.source = source, !.offering = offering, !.state = state]
  BY DEF HandedSet, x, e
<1> HIDE DEF y
<1>5. QED BY <1>3, <1>4 DEF Boards, e

\* That is what setAuthority makes of it.
LEMMA HandedIs ==
  ASSUME TypeOK, NEW p \in Peers, NEW h \in Peers
  PROVE  LET c == Handed(p, h)
         IN  /\ c \in Boards /\ c.doc = Barrier(board[p].doc)
             /\ c.seq = IF Hands(p) THEN board[p].seq + 1 ELSE board[p].seq
             /\ c.log = <<>> /\ c.known = {} /\ c.pending = {}
             /\ c.source = IF h = p THEN Host(p) ELSE None
             /\ c.offering = Hands(p)
             /\ c.state \in {"synchronizing", "readonly"}
             /\ c.up = board[p].up /\ c.locked = board[p].locked
<1> DEFINE d == Barrier(board[p].doc)
           n == IF Hands(p) THEN board[p].seq + 1 ELSE board[p].seq
           source == IF h = p THEN Host(p) ELSE None
           offering == Hands(p)
           state == IF board[p].up THEN "synchronizing" ELSE "readonly"
           c == HandedSet(board[p], d, n, source, offering, state)
<1>1. board[p] \in Boards /\ d \in Docs /\ n \in Nat
  BY BoardFields, BarrierType DEF TypeOK
<1>2. source \in Peers \cup {None} /\ offering \in BOOLEAN
  BY HostType DEF Hands, IsHost
<1>3. state \in States /\ state \in {"synchronizing", "readonly"}
  BY DEF States
<1>4. Handed(p, h) = c
  BY DEF Handed, HandedSet
<1> HIDE DEF c, d, n, source, offering, state
<1>5. /\ c \in Boards /\ c.doc = d /\ c.seq = n /\ c.log = <<>> /\ c.known = {}
      /\ c.pending = {} /\ c.source = source /\ c.offering = offering
      /\ c.state = state /\ c.up = board[p].up /\ c.locked = board[p].locked
  BY <1>1, <1>2, <1>3, HandedSetType DEF c
<1>6. QED BY <1>3, <1>4, <1>5 DEF d, n, source, offering

\* Somebody who is not the authority hears of another host.
LEMMA HearsOtherKeeps ==
  ASSUME IInv, NEW p \in Peers, NEW i \in (heard[p] + 1)..Len(hosts), SetAuthority(p, i),
         hosts[i] # Host(p), ~IsHost(p)
  PROVE  IInv'
<1> DEFINE h == hosts[i]
           b == Handed(p, h)
           target == {IF h = p THEN Host(p) ELSE h} \cap Others(p)
           m == [kind |-> "sync", host |-> h, base |-> b.seq]
<1>0. TypeOK /\ ChainInv /\ SeatInv /\ SeqInv
  BY DEF IInv
<1>1. /\ board[p].state # "none" /\ heard' = [heard EXCEPT ![p] = i]
      /\ board' = [board EXCEPT ![p] = b] /\ history' = history /\ hosts' = hosts
      /\ net' = (IF b.up THEN Sent(net, p, target, m) ELSE net)
      /\ used' = [used EXCEPT !.misses = @ + i - heard[p] - 1]
  BY DEF SetAuthority, Hands
<1>2. /\ i \in 1..Reign /\ heard[p] \in Nat /\ i > heard[p] /\ Reign > 1
      /\ p # OldHost /\ (h = p => i = Reign)
  BY HearingFacts
<1>3. h \in Peers /\ Host(p) \in Peers /\ None \notin Peers
  BY <1>0, <1>2, HostType, BoardAssumption
<1>4. board[p] \in Boards /\ board[p].seq \in Nat /\ ~Hands(p)
  BY <1>0, BoardFields DEF TypeOK, Hands
<1>5. /\ b \in Boards /\ b.seq = board[p].seq /\ b.log = <<>> /\ b.known = {}
      /\ b.source = IF h = p THEN Host(p) ELSE None
      /\ ~b.offering /\ b.state # "none"
  BY <1>0, <1>3, <1>4, HandedIs
<1>6. m \in Messages /\ m.kind = "sync"
  BY <1>3, <1>4, <1>5 DEF Messages, Syncs
<1>7. target \in SUBSET Peers /\ p \notin target /\ \A x \in target : board[x].state # "none"
  BY OthersType
<1> HIDE DEF b, m, target
<1>8. Aside(p, i, b)
  <2>1. h = p => p = NewHost
    BY <1>2 DEF NewHost, Reign
  <2>2. p = NewHost /\ i = Reign => h = p
    BY DEF NewHost, Reign
  <2>3. h = p => b.source # None
    BY <1>3, <1>5
  <2>4. b.source # None => h = p
    BY <1>5
  <2>5. Len(b.log) = 0
    BY <1>5
  <2>6. Reign \in Nat
    BY <1>0, HostType
  <2>7. QED BY <1>2, <1>4, <1>5, <2>1, <2>2, <2>3, <2>4, <2>5, <2>6 DEF Aside
<1>9. Fine(net')
  <2>1. Fine(Sent(net, p, target, m))
    BY <1>6, <1>7, PlainOK, NetFine, SentFine
  <2>2. QED BY <1>1, <2>1, NetFine
<1>10. AsideNet(p, b, net')
  BY <1>5, <1>9 DEF AsideNet, Fine
<1>11. used' \in Counts
  BY <1>0, <1>1, <1>2, MissesType
<1>12. QED BY <1>1, <1>8, <1>10, <1>11, AsideKeeps

\* A board that is closed.
LEMMA ClosedType ==
  /\ Closed \in Boards /\ Closed.state = "none" /\ Closed.seq = 0 /\ Closed.log = <<>>
  /\ Closed.known = {} /\ Closed.source = None /\ ~Closed.offering
  /\ Closed.doc = NewDoc /\ Closed.locked = FALSE /\ Closed.pending = {}
BY NewDocType DEF Closed, Boards, States

\* A participant opens the board.
LEMMA StartKeeps ==
  ASSUME IInv, NEW p \in Peers, Start(p)
  PROVE  IInv'
<1> DEFINE h == NewHost
           to == {h} \cap Others(p)
           hello == [kind |-> "sync", host |-> h, base |-> 0]
           joined == [kind |-> "joined"]
           b == [Closed EXCEPT !.up = TRUE, !.state = "synchronizing"]
           n == Posted(net, p, Others(p), joined)
<1>0. TypeOK /\ ChainInv /\ SeatInv
  BY DEF IInv
<1>1. board[p] = Closed /\ board[p].state = "none" /\ board[p].seq = 0
  <2>1. board[p].state = "none"
    BY DEF Start
  <2>2. board[p] = Closed
    BY <1>0, <2>1 DEF SeatInv
  <2>3. Closed.seq = 0
    BY DEF Closed
  <2>4. QED BY <2>1, <2>2, <2>3
<1>2. \A k \in 1..Reign : hosts[k] # p
  BY <1>0, <1>1 DEF ChainInv
<1>3. /\ Reign \in Nat \ {0} /\ h \in Peers /\ h # p /\ heard[p] \in 1..Reign
      /\ Reign > 1 => OldHost # p
  <2>1. Reign \in Nat \ {0} /\ h \in Peers /\ heard[p] \in 1..Reign
    BY <1>0, HostType
  <2>2. Reign \in 1..Reign /\ (Reign > 1 => Reign - 1 \in 1..Reign)
    BY <2>1
  <2>3. QED BY <1>2, <2>1, <2>2 DEF NewHost, OldHost, Reign
<1>4. /\ heard' = [heard EXCEPT ![p] = Reign]
      /\ board' = [board EXCEPT ![p] = b]
      /\ net' = [Joined(p) EXCEPT ![p] =
                    [q \in Peers |-> IF q \in to THEN Append(@[q], hello) ELSE @[q]]]
      /\ hosts' = hosts /\ history' = history /\ used' = used
  BY <1>3 DEF Start, NewHost, Reign
<1>5. Joined(p) = n
  BY DEF Joined, Posted
<1>6. net' = Posted(n, p, to, hello)
  <2> HIDE DEF n, to, hello
  <2>1. QED BY <1>4, <1>5 DEF Posted
<1>7. hello \in Messages /\ hello.kind = "sync" /\ joined \in Messages /\ joined.kind = "joined"
  BY <1>3 DEF Messages, Syncs, Notices
<1>8. /\ Others(p) \in SUBSET Peers /\ p \notin Others(p) /\ to \in SUBSET Others(p)
      /\ \A x \in Others(p) : board[x].state # "none"
  BY OthersType
<1> HIDE DEF joined, hello, to
<1>9. Fine(n)
  BY <1>7, <1>8, PlainOK, NetFine, PostedFine
<1> HIDE DEF n
<1>10. Fine(net')
  BY <1>6, <1>7, <1>8, <1>9, PlainOK, PostedFine
<1>11. /\ b \in Boards /\ b.state = "synchronizing" /\ b.seq = 0 /\ b.log = <<>> /\ b.known = {}
       /\ b.source = None /\ ~b.offering
  <2>1. /\ Closed \in Boards /\ Closed.seq = 0 /\ Closed.log = <<>>
        /\ Closed.known = {} /\ Closed.source = None /\ ~Closed.offering
    BY ClosedType
  <2> DEFINE c == Closed
  <2>2. "synchronizing" \in States
    BY DEF States
  <2> HIDE DEF c
  <2>3. b = [c EXCEPT !.up = TRUE, !.state = "synchronizing"]
    BY DEF c
  <2>4. c \in Boards /\ c.seq = 0 /\ c.log = <<>> /\ c.known = {} /\ c.source = None /\ ~c.offering
    BY <2>1 DEF c
  <2>5. /\ b \in Boards /\ b.state = "synchronizing" /\ b.seq = c.seq /\ b.log = c.log
        /\ b.known = c.known /\ b.source = c.source /\ b.offering = c.offering
    BY <2>2, <2>3, <2>4 DEF Boards
  <2> HIDE DEF b
  <2>6. QED BY <2>4, <2>5
<1> HIDE DEF b
<1>12. Aside(p, Reign, b)
  <2>1. ~IsHost(p) /\ p # NewHost /\ Len(b.log) = 0
    BY <1>2, <1>3, <1>11 DEF IsHost, Host
  <2>2. QED BY <1>1, <1>2, <1>3, <1>11, <2>1 DEF Aside
<1>13. AsideNet(p, b, net')
  BY <1>1, <1>10, <1>11 DEF AsideNet, Fine
<1>14. QED BY <1>0, <1>4, <1>12, <1>13, AsideKeeps DEF TypeOK

\* The program of a participant ends.  It is no host, or it is not to be
\* ended.
LEMMA CrashKeeps ==
  ASSUME IInv, ~FreshHosts, NEW p \in Peers, Crash(p)
  PROVE  IInv'
<1> DEFINE left == [kind |-> "left"]
<1>0. TypeOK /\ ChainInv /\ SeatInv
  BY DEF IInv
<1>1. /\ \A k \in 1..Reign : hosts[k] # p
      /\ board[p].state # "none"
      /\ board' = [board EXCEPT ![p] = Closed]
      /\ net' = [a \in Peers |-> [b \in Peers |->
                   IF b = p THEN <<>> ELSE IF a = p /\ b \in Others(p) THEN <<left>> ELSE net[a][b]]]
      /\ used' = [used EXCEPT !.crashes = @ + 1]
      /\ hosts' = hosts /\ heard' = heard /\ history' = history
  BY DEF Crash, Reign
<1>2. /\ Reign \in Nat \ {0} /\ p # NewHost /\ heard[p] \in 1..Reign
      /\ Reign > 1 => OldHost # p
  <2>1. Reign \in Nat \ {0} /\ heard[p] \in 1..Reign
    BY <1>0, HostType
  <2>2. Reign \in 1..Reign /\ (Reign > 1 => Reign - 1 \in 1..Reign)
    BY <2>1
  <2>3. QED BY <1>1, <2>1, <2>2 DEF NewHost, OldHost, Reign
<1>3. /\ Closed \in Boards /\ Closed.state = "none" /\ Closed.seq = 0 /\ Closed.log = <<>>
      /\ Closed.known = {} /\ Closed.source = None /\ ~Closed.offering
  BY ClosedType
<1>4. board[p].seq \in Nat
  BY <1>0, BoardFields DEF TypeOK
<1>5. Aside(p, heard[p], Closed)
  <2>1. ~IsHost(p) /\ Len(Closed.log) = 0
    BY <1>1, <1>2, <1>3 DEF IsHost, Host
  <2>2. QED BY <1>1, <1>2, <1>3, <1>4, <2>1 DEF Aside
<1>6. left \in Messages /\ left.kind = "left"
  BY DEF Messages, Notices
<1>7. net \in Nets /\ \A a, c \in Peers : \A m \in Way(net, a, c) : MsgOK(a, c, m)
  BY NetFine DEF Fine
<1> HIDE DEF left
<1>8. net' \in Nets
  <2>1. <<left>> \in Seq(Messages) /\ <<>> \in Seq(Messages)
    BY <1>6
  <2>2. QED BY <1>1, <1>7, <2>1 DEF Nets
<1>9. ASSUME NEW a \in Peers, NEW c \in Peers, NEW m \in Way(net', a, c)
      PROVE  MsgOK(a, c, m) /\ c # p /\ (a # p \/ m.kind \in {"left", "joined"})
  <2>1. net'[a][c] = IF c = p THEN <<>> ELSE IF a = p /\ c \in Others(p) THEN <<left>> ELSE net[a][c]
    BY <1>1
  <2>2. c # p
    BY <1>9, <2>1 DEF Way
  <2>3. CASE a = p /\ c \in Others(p)
    <3>1. net'[a][c] = <<left>>
      BY <2>1, <2>2, <2>3
    <3>2. m = left
      BY <1>9, <3>1 DEF Way
    <3>3. MsgOK(a, c, m)
      BY <1>6, <2>2, <2>3, <3>2, OthersType, PlainOK
    <3>4. QED BY <1>6, <2>2, <3>2, <3>3
  <2>4. CASE ~(a = p /\ c \in Others(p))
    <3>1. net'[a][c] = net[a][c]
      BY <2>1, <2>2, <2>4
    <3>2. MsgOK(a, c, m)
      BY <1>7, <1>9, <3>1 DEF Way
    <3>3. a # p
      BY <2>2, <2>4, <3>2 DEF MsgOK, Others
    <3>4. QED BY <2>2, <3>2, <3>3
  <2>5. QED BY <2>3, <2>4
<1>10. AsideNet(p, Closed, net')
  BY <1>8, <1>9 DEF AsideNet
<1>11. heard' = [heard EXCEPT ![p] = heard[p]]
  BY <1>0, <1>1 DEF TypeOK
<1>12. used' \in Counts
  BY <1>0, <1>1, CountsType
<1>13. QED BY <1>1, <1>5, <1>10, <1>11, <1>12, AsideKeeps

-----------------------------------------------------------------------------
(* The authority goes from one host to the next *)

\* The last host hears of its successor: it gives one more number, begins a new
\* interaction, and offers its board.
LEMMA HandsOverKeeps ==
  ASSUME IInv, NEW p \in Peers, NEW i \in (heard[p] + 1)..Len(hosts), SetAuthority(p, i),
         hosts[i] # Host(p), IsHost(p)
  PROVE  IInv'
<1> DEFINE h == hosts[i]
           b == Handed(p, h)
           e == [kind |-> "handoff", host |-> h]
           to == {h} \cap Others(p)
           s == SnapshotOf(h, b)
           m == [kind |-> "sync", host |-> h, base |-> b.seq]
<1>0. TypeOK /\ ChainInv /\ SeatInv /\ SeqInv /\ CoverInv /\ NetInv
  BY DEF IInv
<1>1. /\ i = Reign /\ heard[p] = Reign - 1 /\ Reign \in Nat /\ Reign > 1 /\ i > heard[p]
      /\ Leads(p) /\ Hands(p) /\ p = OldHost /\ p # NewHost /\ h = NewHost /\ h \in Peers
      /\ OldHost \in Peers /\ i \in 1..Reign
  BY <1>0, HearingFacts, HostType DEF NewHost, Reign
<1>2. /\ board[p].state # "none" /\ heard' = [heard EXCEPT ![p] = i]
      /\ board' = [board EXCEPT ![p] = b] /\ history' = Append(history, e) /\ hosts' = hosts
      /\ net' = (IF b.up THEN Sent(Sent(net, p, to, s), p, to, m) ELSE net)
      /\ used' = [used EXCEPT !.misses = @ + i - heard[p] - 1]
  <2>1. h # p
    BY <1>1
  <2>2. net' = IF b.up
               THEN Sent(IF Hands(p) /\ b.up THEN Sent(net, p, to, s) ELSE net, p,
                         {IF h = p THEN Host(p) ELSE h} \cap Others(p), m)
               ELSE net
    BY DEF SetAuthority
  <2>3. net' = (IF b.up THEN Sent(Sent(net, p, to, s), p, to, m) ELSE net)
    BY <1>1, <2>1, <2>2
  <2>4. QED BY <1>1, <2>3 DEF SetAuthority
<1>3. board[p] \in Boards /\ board[p].seq \in Nat /\ board[p].doc \in Docs
  BY <1>0, BoardFields DEF TypeOK
<1>4. /\ b \in Boards /\ b.seq = board[p].seq + 1 /\ b.log = <<>> /\ b.known = {}
      /\ b.source = None /\ b.offering /\ b.state # "none" /\ b.doc = Barrier(board[p].doc)
      /\ b.locked \in BOOLEAN
  BY <1>0, <1>1, <1>3, HandedIs, BoardFields
<1>5. /\ s \in Messages /\ s.kind = "snapshot" /\ s.host = h /\ s.seq = b.seq
      /\ s.body = Snapshot(b.doc) /\ s.body.epoch = b.doc.epoch
  <2>1. b.seq \in Nat /\ b.doc \in Docs
    BY <1>4, BoardFields
  <2>2. Snapshot(b.doc) \in Bodies /\ Snapshot(b.doc).epoch = b.doc.epoch
    BY <2>1, SnapshotType
  <2> HIDE DEF b
  <2>3. QED BY <1>1, <1>4, <2>1, <2>2 DEF SnapshotOf, Messages, Shots
<1>6. m \in Messages /\ m.kind = "sync"
  BY <1>1, <1>3, <1>4 DEF Messages, Syncs
<1>7. to \in SUBSET Peers /\ p \notin to /\ to \subseteq {NewHost} /\ \A x \in to : board[x].state # "none"
  BY <1>1, OthersType
<1> HIDE DEF b, m, s, to
<1>8. /\ Len(history) \in Nat /\ Len(history') = Len(history) + 1
      /\ history'[Len(history) + 1] = e /\ \A k \in 1..Len(history) : history'[k] = history[k]
      /\ history' \in Seq(Entries \cup Handoffs)
  <2>1. e \in Entries \cup Handoffs
    BY <1>1 DEF Handoffs
  <2> HIDE DEF e
  <2>2. QED BY <1>0, <1>2, <2>1, LongerHistory
<1>9. net' \in Nets /\ \A a, c \in Peers : \A x \in Way(net', a, c) :
         \/ MsgOK(a, c, x)
         \/ a = p /\ c = NewHost /\ board[c].state # "none" /\ (x = s \/ x = m)
  <2> DEFINE n == Sent(net, p, to, s)
             l == Sent(n, p, to, m)
  <2>1. net \in Nets /\ \A a, c \in Peers : \A x \in Way(net, a, c) : MsgOK(a, c, x)
    BY NetFine DEF Fine
  <2>2. n \in Nets /\ \A a, c \in Peers : \A x \in Way(n, a, c) :
           x \in Way(net, a, c) \/ (a = p /\ c \in to /\ x = s)
    BY <1>5, <1>7, <2>1, SentWay
  <2> HIDE DEF n
  <2>3. l \in Nets /\ \A a, c \in Peers : \A x \in Way(l, a, c) :
           x \in Way(n, a, c) \/ (a = p /\ c \in to /\ x = m)
    BY <1>6, <1>7, <2>2, SentWay
  <2>4. net' = l \/ net' = net
    BY <1>2 DEF n
  <2> HIDE DEF l
  <2>5. CASE net' = net
    BY <2>1, <2>5
  <2>6. CASE net' = l
    <3>1. \A a, c \in Peers : \A x \in Way(l, a, c) :
             MsgOK(a, c, x) \/ (a = p /\ c \in to /\ (x = s \/ x = m))
      BY <2>1, <2>2, <2>3
    <3>2. QED BY <1>7, <2>3, <2>6, <3>1
  <2>7. QED BY <2>4, <2>5, <2>6
<1>10. /\ board' \in [Peers -> Boards] /\ board'[p] = b
       /\ \A q \in Peers : q # p => board'[q] = board[q]
  BY <1>0, <1>2, <1>4 DEF TypeOK
<1>11. /\ heard' \in [Peers -> 1..Len(hosts)] /\ heard'[p] = Reign
       /\ \A q \in Peers : q # p => heard'[q] = heard[q]
  BY <1>0, <1>1, <1>2 DEF TypeOK, Reign
<1>12. TypeOK'
  BY <1>0, <1>1, <1>2, <1>8, <1>9, <1>10, <1>11, MissesType DEF TypeOK
<1>13. /\ Reign' = Reign /\ NewHost' = NewHost /\ OldHost' = OldHost
       /\ \A q \in Peers : q # p => Host(q)' = Host(q) /\ IsHost(q)' = IsHost(q)
       /\ Host(p)' = NewHost
  BY <1>1, <1>2, <1>11 DEF Reign, NewHost, OldHost, Host, IsHost
<1>14. NewHost \in Peers /\ ~Vacant /\ \A q \in Peers : Leads(q) => q = p
  BY <1>0, <1>1, OneLeads
<1>15. ~Seated /\ ~Seated' /\ Vacant'
  <2>1. ~Seated
    BY <1>0, <1>1 DEF SeatInv
  <2>2. ~Seated'
    BY <1>1, <1>10, <1>11, <1>13, <1>14, <2>1 DEF Seated
  <2>3. QED BY <1>1, <1>11, <1>13, <2>1, <2>2 DEF Vacant
<1>16. \A q \in Peers : ~Leads(q)'
  BY <1>1, <1>10, <1>13, <1>14 DEF Leads, IsHost
<1>17. board[p].seq = Len(history) /\ b.seq = Len(history')
  BY <1>0, <1>1, <1>4, <1>8 DEF SeqInv
<1>18. \A q \in Peers : board[q].seq \in Nat /\ board'[q].seq \in Nat /\ board'[q].seq >= board[q].seq
  <2>1. TAKE q \in Peers
  <2>2. board[q].seq \in Nat
    BY <1>0, BoardFields DEF TypeOK
  <2>3. CASE q = p
    BY <1>3, <1>4, <1>10, <2>3
  <2>4. CASE q # p
    BY <1>10, <2>2, <2>4
  <2>5. QED BY <2>3, <2>4
<1>19. Above(board[p].doc.epoch)'
  <2>1. Above(b.doc.epoch)
    BY <1>0, <1>1, <1>3, <1>4, BarrierAbove DEF CoverInv
  <2>2. e.kind \notin Drawing
    BY DEF Drawing
  <2>3. \A k \in 1..Len(history') : k \in 1..Len(history) \/ k = Len(history) + 1
    BY <1>8
  <2>4. \A k \in 1..Len(history') : history'[k].kind \in Drawing => history'[k].epoch < b.doc.epoch
    BY <1>8, <2>1, <2>2, <2>3 DEF Above
  <2>5. board'[p].doc = b.doc
    BY <1>10
  <2>6. QED BY <2>4, <2>5 DEF Above
<1>20. ChainInv'
  <2>1. \A k \in 1..Reign : board'[hosts[k]].state # "none"
    BY <1>0, <1>4, <1>10, HostType DEF ChainInv
  <2>2. \A k \in 1..Reign : hosts[k] \in Peers /\ heard[hosts[k]] \in Nat /\ heard'[hosts[k]] \in Nat
                            /\ heard'[hosts[k]] >= heard[hosts[k]]
    <3>1. TAKE k \in 1..Reign
    <3>2. hosts[k] \in Peers /\ heard[hosts[k]] \in Nat
      BY <1>0, HostType
    <3>3. QED BY <1>1, <1>11, <3>2
  <2>3. \A k \in 1..(Reign - 1) : k \in 1..Reign /\ heard'[hosts[k]] >= k
    <3>1. TAKE k \in 1..(Reign - 1)
    <3>2. k \in 1..Reign /\ heard[hosts[k]] >= k
      BY <1>0, <1>1 DEF ChainInv
    <3>3. QED BY <2>2, <3>2
  <2>4. \A k \in 1..(Reign - 2) : heard'[hosts[k]] > k
    <3>1. TAKE k \in 1..(Reign - 2)
    <3>2. k \in 1..Reign /\ heard[hosts[k]] > k
      BY <1>0, <1>1 DEF ChainInv
    <3>3. QED BY <2>2, <3>2
  <2>5. QED BY <1>0, <1>2, <1>13, <2>1, <2>3, <2>4 DEF ChainInv
<1>21. SeatInv'
  <2>1. \A q \in Peers : board'[q].source # None => q = NewHost /\ heard'[q] = Reign /\ Reign > 1
    BY <1>0, <1>4, <1>10, <1>11 DEF SeatInv
  <2>2. \A q \in Peers : board'[q].state = "none" => board'[q] = Closed
    BY <1>0, <1>4, <1>10 DEF SeatInv
  <2>3. QED BY <1>13, <1>15, <2>1, <2>2 DEF SeatInv
<1>22. SeqInv'
  <2>1. \A q \in Peers : board'[q].seq <= Len(history')
    BY <1>0, <1>8, <1>10, <1>17, <1>18 DEF SeqInv
  <2>2. board'[OldHost].seq = Len(history')
    BY <1>1, <1>10, <1>17
  <2>3. ASSUME NEW q \in Peers, board'[q].offering PROVE Offered(q)'
    <3>1. CASE q = p
      BY <1>1, <1>13, <1>15, <3>1 DEF Offered, IsHost
    <3>2. CASE q # p
      <4>1. board[q].offering /\ Offered(q) /\ board'[q] = board[q]
        BY <1>0, <1>10, <2>3, <3>2 DEF SeqInv
      <4>2. Host(q) \in Peers
        BY <1>0, HostType
      <4>3. QED BY <1>13, <1>14, <1>18, <3>2, <4>1, <4>2 DEF Offered
    <3>3. QED BY <3>1, <3>2
  <2>4. \A q \in Peers : \A k \in 1..Len(board'[q].log) : board'[q].log[k].seq <= board'[q].seq
    <3>1. Len(b.log) = 0
      BY <1>4
    <3>2. QED BY <1>0, <1>10, <3>1 DEF SeqInv
  <2>5. \A q \in Peers : \A k \in board'[q].known : k.seq <= board'[q].seq
    BY <1>0, <1>4, <1>10 DEF SeqInv
  <2>6. QED BY <1>13, <1>16, <2>1, <2>2, <2>3, <2>4, <2>5 DEF SeqInv
<1>23. CoverInv'
  BY <1>1, <1>10, <1>13, <1>16, <1>19 DEF CoverInv
<1>24. NetInv'
  <2>1. SUFFICES ASSUME NEW a \in Peers, NEW c \in Peers, NEW x \in Way(net', a, c)
                 PROVE  MsgOK(a, c, x)'
    BY DEF NetInv, Way
  <2>2. x \in Messages
    BY <1>9, WayType
  <2>3. CASE MsgOK(a, c, x)
    <3>1. NumbersUpTo(x, board'[a].seq)
      BY <1>18, <2>2, <2>3, NumbersMonotone DEF MsgOK
    <3>2. NumbersUpTo(x, Len(history'))
      <4>1. board[a].seq <= Len(history)
        BY <1>0 DEF SeqInv
      <4>2. board[a].seq <= Len(history') /\ board[a].seq \in Int /\ Len(history') \in Int
        BY <1>8, <1>18, <4>1
      <4>3. QED BY <2>2, <2>3, <4>2, NumbersMonotone DEF MsgOK
    <3>3. NumbersUpTo(x, Len(history') - 1)
      <4>1. board[a].seq <= Len(history)
        BY <1>0 DEF SeqInv
      <4>2. /\ board[a].seq <= Len(history') - 1
            /\ board[a].seq \in Int /\ Len(history') - 1 \in Int
        BY <1>8, <1>18, <4>1
      <4>3. QED BY <2>2, <2>3, <4>2, NumbersMonotone DEF MsgOK
    <3>4. x.kind = "snapshot" => x.seq \in Nat
      BY <2>2, MessageFields DEF Shots
    <3>5. x.kind = "snapshot" /\ x.host = c => x.seq <= board'[c].seq
      BY <1>14, <1>18, <2>3, <3>4 DEF MsgOK, Handing
    <3>6. board'[c].state # "none" /\ a # c
      BY <1>4, <1>10, <2>3 DEF MsgOK
    <3>7. QED BY <3>1, <3>3, <3>5, <3>6 DEF MsgOK
  <2>4. CASE a = p /\ c = NewHost /\ board[c].state # "none" /\ x = s
    <3>1. c # p /\ board'[c].state # "none"
      BY <1>1, <1>10, <2>4
    <3>2. NumbersUpTo(x, board'[a].seq)
      BY <1>5, <1>10, <1>18, <2>4 DEF NumbersUpTo
    <3>3. x.host # a
      BY <1>1, <1>5, <2>4
    <3>4. Handing(a, c, x)'
      <4>1. x.body.epoch = board'[p].doc.epoch
        BY <1>5, <1>10, <2>4
      <4>2. x.seq = Len(history')
        BY <1>5, <1>17, <2>4
      <4>3. Above(x.body.epoch)'
        BY <1>19, <4>1 DEF Above
      <4>4. QED BY <1>1, <1>13, <1>15, <2>4, <4>2, <4>3 DEF Handing
    <3>5. QED BY <2>4, <3>1, <3>2, <3>3, <3>4 DEF MsgOK
  <2>5. CASE a = p /\ c = NewHost /\ board[c].state # "none" /\ x = m
    BY <1>1, <1>6, <1>10, <2>5 DEF MsgOK, NumbersUpTo, Numbered
  <2>6. QED BY <1>9, <2>1, <2>3, <2>4, <2>5
<1>25. QED BY <1>12, <1>20, <1>21, <1>22, <1>23, <1>24 DEF IInv

\* The news of a host, whoever hears it.
LEMMA HearHostKeeps ==
  ASSUME IInv, NEW p \in Peers, HearHost(p)
  PROVE  IInv'
<1>1. PICK i \in (heard[p] + 1)..Len(hosts) : SetAuthority(p, i)
  BY DEF HearHost
<1>2. CASE hosts[i] = Host(p)
  BY <1>1, <1>2, HearsSameKeeps
<1>3. CASE hosts[i] # Host(p) /\ ~IsHost(p)
  BY <1>1, <1>3, HearsOtherKeeps
<1>4. CASE hosts[i] # Host(p) /\ IsHost(p)
  BY <1>1, <1>4, HandsOverKeeps
<1>5. QED BY <1>2, <1>3, <1>4

\* The host names the next one, who has opened the board.
LEMMA TransferHostKeeps ==
  ASSUME IInv, ~FreshHosts, NEW p \in Peers, NEW q \in Peers, TransferHost(p, q)
  PROVE  IInv'
<1>0. TypeOK /\ ChainInv /\ SeatInv /\ SeqInv /\ CoverInv /\ NetInv
  BY DEF IInv
<1>1. /\ p = NewHost /\ heard[p] = Reign /\ Leads(p) /\ q # p /\ board[q].state # "none"
      /\ hosts' = Append(hosts, q)
      /\ heard' = heard /\ board' = board /\ net' = net /\ history' = history /\ used' = used
  BY DEF TransferHost, NewHost, Reign
<1>2. /\ hosts' \in Seq(Peers) /\ Len(hosts') = Reign + 1 /\ hosts'[Reign + 1] = q
      /\ \A i \in 1..Reign : hosts'[i] = hosts[i] /\ hosts[i] \in Peers
      /\ Reign \in Nat \ {0} /\ hosts' # <<>>
      /\ \A x \in Peers : heard[x] \in 1..Reign
  <2>1. hosts \in Seq(Peers) /\ Reign \in Nat \ {0} /\ \A x \in Peers : heard[x] \in 1..Reign
    BY <1>0, HostType DEF TypeOK
  <2>2. QED BY <1>1, <2>1 DEF Reign
<1>3. Reign' = Reign + 1 /\ NewHost' = q /\ OldHost' = p
  BY <1>1, <1>2 DEF Reign, NewHost, OldHost
<1>4. \A x \in Peers : Host(x)' = Host(x) /\ IsHost(x)' = IsHost(x) /\ Leads(x)' = Leads(x)
  BY <1>1, <1>2 DEF Host, IsHost, Leads
<1>5. ~Vacant /\ board[p].source = None /\ (Reign > 1 => heard[OldHost] = Reign)
  BY <1>0, <1>1, OneLeads
<1>6. ~Seated' /\ ~Vacant'
  BY <1>1, <1>2, <1>3 DEF Seated, Vacant
<1>7. TypeOK'
  <2>1. heard' \in [Peers -> 1..Len(hosts')]
    BY <1>0, <1>1, <1>2 DEF TypeOK
  <2>2. QED BY <1>0, <1>1, <1>2, <2>1 DEF TypeOK
<1>8. ChainInv'
  <2>1. \A i \in 1..Reign : hosts'[i] # hosts'[i + 1]
    <3>1. TAKE i \in 1..Reign
    <3>2. CASE i = Reign
      BY <1>1, <1>2, <3>2 DEF NewHost, Reign
    <3>3. CASE i \in 1..(Reign - 1)
      BY <1>0, <1>2, <3>3 DEF ChainInv
    <3>4. QED BY <1>2, <3>2, <3>3
  <2>2. \A i \in 1..(Reign + 1) : board[hosts'[i]].state # "none"
    <3>1. TAKE i \in 1..(Reign + 1)
    <3>2. CASE i = Reign + 1
      BY <1>1, <1>2, <3>2
    <3>3. CASE i \in 1..Reign
      BY <1>0, <1>2, <3>3 DEF ChainInv
    <3>4. QED BY <1>2, <3>2, <3>3
  <2>3. \A i \in 1..Reign : heard[hosts'[i]] >= i
    <3>1. TAKE i \in 1..Reign
    <3>2. CASE i = Reign
      BY <1>1, <1>2, <3>2 DEF NewHost, Reign
    <3>3. CASE i \in 1..(Reign - 1)
      BY <1>0, <1>2, <3>3 DEF ChainInv
    <3>4. QED BY <1>2, <3>2, <3>3
  <2>4. \A i \in 1..(Reign - 1) : heard[hosts'[i]] > i
    <3>1. TAKE i \in 1..(Reign - 1)
    <3>2. CASE i = Reign - 1
      BY <1>2, <1>5, <3>2 DEF OldHost, Reign
    <3>3. CASE i \in 1..(Reign - 2)
      BY <1>0, <1>2, <3>3 DEF ChainInv
    <3>4. QED BY <1>2, <3>2, <3>3
  <2>5. QED BY <1>1, <1>2, <1>3, <2>1, <2>2, <2>3, <2>4 DEF ChainInv
<1>9. SeatInv'
  <2>1. \A x \in Peers : board[x].source = None
    BY <1>0, <1>1, <1>5 DEF SeatInv
  <2>2. \A x \in Peers : board[x].state = "none" => board[x] = Closed
    BY <1>0 DEF SeatInv
  <2>3. QED BY <1>1, <1>6, <2>1, <2>2 DEF SeatInv
<1>10. SeqInv'
  <2>1. \A x \in Peers : board[x].offering => Offered(x)'
    BY <1>0, <1>1, <1>4, <1>5 DEF SeqInv, Offered
  <2>2. QED BY <1>0, <1>1, <1>4, <1>6, <2>1 DEF SeqInv
<1>11. CoverInv'
  <2>1. \A d : Covers(d)' = Covers(d)
    BY <1>1 DEF Covers
  <2>2. QED BY <1>0, <1>1, <1>4, <1>6, <2>1 DEF CoverInv
<1>12. NetInv'
  <2>1. SUFFICES ASSUME NEW a \in Peers, NEW c \in Peers, NEW m \in Way(net, a, c)
                 PROVE  MsgOK(a, c, m)'
    BY <1>1 DEF NetInv, Way
  <2>2. MsgOK(a, c, m) /\ ~Handing(a, c, m)
    BY <1>0, <1>5 DEF NetInv, Handing
  <2>3. QED BY <1>1, <1>6, <2>2 DEF MsgOK
<1>13. QED BY <1>7, <1>8, <1>9, <1>10, <1>11, <1>12 DEF IInv

\* A board that takes a snapshot over.
TakenSet(b, d, n, locked) ==
  [b EXCEPT !.doc = d, !.seq = n, !.locked = locked, !.source = None, !.offering = FALSE,
            !.state = "ready"]
\* What it is, field by field.
LEMMA TakenSetType ==
  ASSUME NEW b \in Boards, NEW d \in Docs, NEW n \in Nat, NEW locked \in BOOLEAN
  PROVE  LET c == TakenSet(b, d, n, locked)
         IN  /\ c \in Boards /\ c.doc = d /\ c.seq = n /\ c.locked = locked /\ c.source = None
             /\ ~c.offering /\ c.state = "ready" /\ c.log = b.log /\ c.known = b.known
             /\ c.pending = b.pending /\ c.up = b.up
<1>1. "ready" \in States
  BY DEF States
<1> DEFINE x == [b EXCEPT !.doc = d, !.seq = n, !.locked = locked]
<1>2. /\ x \in Boards /\ x.doc = d /\ x.seq = n /\ x.locked = locked
      /\ x.log = b.log /\ x.known = b.known /\ x.pending = b.pending /\ x.up = b.up
  BY DEF Boards
<1>3. TakenSet(b, d, n, locked) = [x EXCEPT !.source = None, !.offering = FALSE, !.state = "ready"]
  BY DEF TakenSet
<1> HIDE DEF x
<1>4. QED BY <1>1, <1>2, <1>3 DEF Boards

\* The new host takes the board of the old one, and is the authority.
LEMMA TakeOverKeeps ==
  ASSUME IInv, NEW p \in Peers, NEW q \in Peers, TakeOver(p, q)
  PROVE  IInv'
<1> DEFINE m == Head1(p, q)
           doc == Restored(m.body)
           b == TakenSet(board[q], doc, m.seq, m.locked)
           d == Descriptor(q, b)
           to == Others(q)
<1>0. TypeOK /\ ChainInv /\ SeatInv /\ SeqInv /\ CoverInv /\ NetInv
  BY DEF IInv
<1>1. /\ net[p][q] # <<>> /\ m.kind = "snapshot" /\ m.host = Host(q)
      /\ board[q].source = p /\ m.seq > board[q].seq /\ board[q].state # "none"
      /\ board' = [board EXCEPT ![q] = b]
      /\ net' = Sent(Taken(p, q), q, to, d)
      /\ hosts' = hosts /\ heard' = heard /\ history' = history /\ used' = used
  BY DEF TakeOver, Arrived, Heeds, TakenSet
<1>2. Fine(Taken(p, q)) /\ m \in Messages /\ MsgOK(p, q, m)
  BY <1>1, TakenFine
<1> HIDE DEF m
<1>3. m.seq \in Nat /\ m.body \in Bodies /\ m.locked \in BOOLEAN
  BY <1>1, <1>2, MessageFields DEF Shots
<1>4. q = NewHost /\ heard[q] = Reign /\ Reign > 1 /\ p # None /\ Host(q) = q
  <2>1. p # None
    BY BoardAssumption
  <2>2. q = NewHost /\ heard[q] = Reign /\ Reign > 1
    BY <1>0, <1>1, <2>1 DEF SeatInv
  <2>3. QED BY <2>1, <2>2 DEF Host, NewHost, Reign
<1>5. board[q] \in Boards /\ board[q].seq \in Nat
  BY <1>0, BoardFields DEF TypeOK
<1>6. Handing(p, q, m)
  <2>1. ~(m.seq <= board[q].seq)
    BY <1>1, <1>3, <1>5
  <2>2. QED BY <1>1, <1>2, <1>4, <2>1 DEF MsgOK
<1>7. Vacant /\ p = OldHost /\ m.seq = Len(history) /\ Above(m.body.epoch) /\ p # q
  BY <1>0, <1>4, <1>6, HostsDiffer DEF Handing
<1>8. doc \in Docs /\ doc.epoch = m.body.epoch
  BY <1>3, RestoredType
<1> HIDE DEF doc
<1>9. /\ b \in Boards /\ b.doc = doc /\ b.seq = m.seq /\ b.source = None /\ ~b.offering
      /\ b.state = "ready" /\ b.log = board[q].log /\ b.known = board[q].known
  BY <1>3, <1>5, <1>8, TakenSetType
<1> HIDE DEF b
<1>10. d \in Messages /\ d.kind = "descriptor" /\ d.seq = b.seq
  BY <1>0, <1>9, DescriptorOK
<1>11. to \in SUBSET Peers /\ q \notin to /\ \A x \in to : board[x].state # "none"
  BY OthersType
<1> HIDE DEF d, to
<1>12. net' \in Nets /\ \A a, c \in Peers : \A x \in Way(net', a, c) :
          MsgOK(a, c, x) \/ (a = q /\ c # q /\ board[c].state # "none" /\ x = d)
  <2> DEFINE n == Taken(p, q)
             l == Sent(n, q, to, d)
  <2>1. n \in Nets /\ \A a, c \in Peers : \A x \in Way(n, a, c) : MsgOK(a, c, x)
    BY <1>2 DEF Fine
  <2> HIDE DEF n
  <2>2. l \in Nets /\ \A a, c \in Peers : \A x \in Way(l, a, c) :
           x \in Way(n, a, c) \/ (a = q /\ c \in to /\ x = d)
    BY <1>10, <1>11, <2>1, SentWay
  <2>3. net' = l
    BY <1>1 DEF n
  <2> HIDE DEF l
  <2>4. \A a, c \in Peers : \A x \in Way(l, a, c) :
           MsgOK(a, c, x) \/ (a = q /\ c # q /\ board[c].state # "none" /\ x = d)
    BY <1>11, <2>1, <2>2
  <2>5. QED BY <2>2, <2>3, <2>4
<1>13. /\ board' \in [Peers -> Boards] /\ board'[q] = b
       /\ \A x \in Peers : x # q => board'[x] = board[x]
  BY <1>0, <1>1, <1>9 DEF TypeOK
<1>14. TypeOK'
  BY <1>0, <1>1, <1>12, <1>13 DEF TypeOK
<1>15. /\ Reign' = Reign /\ NewHost' = NewHost /\ OldHost' = OldHost
       /\ \A x \in Peers : Host(x)' = Host(x) /\ IsHost(x)' = IsHost(x)
       /\ \A n : Above(n)' = Above(n)
       /\ \A x : Covers(x)' = Covers(x)
  BY <1>1 DEF Reign, NewHost, OldHost, Host, IsHost, Above, Covers
<1>16. Seated' /\ ~Vacant'
  BY <1>1, <1>4, <1>9, <1>13, <1>15 DEF Seated, Vacant
<1>17. \A x \in Peers : Leads(x)' => x = q
  <2>1. \A x \in Peers : ~Leads(x)
    BY <1>0, <1>7, OneLeads
  <2>2. QED BY <1>13, <1>15, <2>1 DEF Leads
<1>18. \A x \in Peers : board[x].seq \in Nat /\ board'[x].seq \in Nat /\ board'[x].seq >= board[x].seq
  <2>1. TAKE x \in Peers
  <2>2. board[x].seq \in Nat
    BY <1>0, BoardFields DEF TypeOK
  <2>3. QED BY <1>1, <1>3, <1>9, <1>13, <2>2
<1>19. ChainInv'
  <2>1. \A i \in 1..Reign : board'[hosts[i]].state # "none"
    BY <1>0, <1>9, <1>13, HostType DEF ChainInv
  <2>2. QED BY <1>0, <1>1, <1>15, <2>1 DEF ChainInv
<1>20. SeatInv'
  <2>1. \A x \in Peers : board'[x].source # None => x = NewHost /\ heard[x] = Reign /\ Reign > 1
    BY <1>0, <1>9, <1>13 DEF SeatInv
  <2>2. \A x \in Peers : board'[x].state = "none" => board'[x] = Closed
    BY <1>0, <1>9, <1>13 DEF SeatInv
  <2>3. heard[OldHost] = Reign
    BY <1>7 DEF Vacant
  <2>4. QED BY <1>1, <1>15, <2>1, <2>2, <2>3 DEF SeatInv
<1>21. SeqInv'
  <2>0. Len(history) \in Nat
    BY <1>0 DEF TypeOK
  <2>1. \A x \in Peers : board'[x].seq <= Len(history)
    BY <1>0, <1>7, <1>9, <1>13, <2>0 DEF SeqInv
  <2>2. \A x \in Peers : Leads(x)' => board'[x].seq = Len(history)
    BY <1>7, <1>9, <1>13, <1>17
  <2>3. ASSUME NEW x \in Peers, board'[x].offering PROVE Offered(x)'
    <3>1. x # q /\ board[x].offering /\ Offered(x) /\ board'[x] = board[x]
      BY <1>0, <1>9, <1>13, <2>3 DEF SeqInv
    <3>2. Host(x) \in Peers
      BY <1>0, HostType
    <3>3. board'[x].seq <= board'[Host(x)].seq
      <4>1. CASE board[x].seq <= board[Host(x)].seq
        BY <1>18, <3>1, <3>2, <4>1
      <4>2. CASE Vacant /\ x = OldHost
        <5>1. Host(x) = q
          BY <1>4, <4>2 DEF Vacant, Host, NewHost, Reign
        <5>2. board[x].seq <= Len(history)
          BY <1>0 DEF SeqInv
        <5>3. QED BY <1>7, <1>9, <1>13, <3>1, <5>1, <5>2
      <4>3. QED BY <3>1, <4>1, <4>2 DEF Offered
    <3>4. QED BY <1>15, <3>1, <3>3 DEF Offered
  <2>4. \A x \in Peers : \A k \in 1..Len(board'[x].log) : board'[x].log[k].seq <= board'[x].seq
    <3>1. TAKE x \in Peers
    <3>2. board'[x].log = board[x].log /\ board[x].log \in Seq(Entries)
      BY <1>0, <1>9, <1>13, BoardFields DEF TypeOK
    <3>3. TAKE k \in 1..Len(board'[x].log)
    <3>4. board[x].log[k].seq <= board[x].seq /\ board[x].log[k].seq \in Nat
      BY <1>0, <3>2, EntryFields DEF SeqInv
    <3>5. QED BY <1>18, <3>2, <3>4
  <2>5. \A x \in Peers : \A k \in board'[x].known : k.seq <= board'[x].seq
    <3>1. TAKE x \in Peers
    <3>2. board'[x].known = board[x].known /\ board[x].known \in SUBSET Drawings
      BY <1>0, <1>9, <1>13, BoardFields DEF TypeOK
    <3>3. TAKE k \in board'[x].known
    <3>4. k.seq <= board[x].seq /\ k.seq \in Nat
      BY <1>0, <3>2 DEF SeqInv, Drawings
    <3>5. QED BY <1>18, <3>2, <3>4
  <2>6. QED BY <1>1, <1>15, <1>16, <2>1, <2>2, <2>3, <2>4, <2>5 DEF SeqInv
<1>22. CoverInv'
  <2>1. Covers(b.doc)
    <3>1. b.doc.epoch = m.body.epoch /\ b.doc.epoch \in Nat
      BY <1>8, <1>9, DocFields
    <3>2. \A i \in 1..Len(history) : history[i].kind \in Drawing => history[i].epoch \in Nat
      BY <1>0, DrawnEpochs
    <3>3. QED BY <1>7, <3>1, <3>2 DEF Above, Covers
  <2>2. \A x \in Peers : Leads(x)' => Covers(board'[x].doc)
    BY <1>13, <1>17, <2>1
  <2>3. QED BY <1>15, <1>16, <2>2 DEF CoverInv
<1>23. NetInv'
  <2>1. SUFFICES ASSUME NEW a \in Peers, NEW c \in Peers, NEW x \in Way(net', a, c)
                 PROVE  MsgOK(a, c, x)'
    BY DEF NetInv, Way
  <2>2. x \in Messages
    BY <1>12, WayType
  <2>3. CASE MsgOK(a, c, x)
    <3>1. NumbersUpTo(x, board'[a].seq)
      BY <1>18, <2>2, <2>3, NumbersMonotone DEF MsgOK
    <3>2. x.kind = "snapshot" => x.seq \in Nat
      BY <2>2, MessageFields DEF Shots
    <3>3. x.kind = "snapshot" /\ x.host = c => x.seq <= board'[c].seq
      <4>1. CASE Handing(a, c, x)
        <5>1. c = q /\ x.seq = Len(history)
          BY <1>4, <4>1 DEF Handing
        <5>2. x.seq = board'[c].seq
          BY <1>7, <1>9, <1>13, <5>1
        <5>3. QED BY <1>18, <5>2
      <4>2. CASE x.kind = "snapshot" /\ x.seq <= board[c].seq
        BY <1>18, <3>2, <4>2
      <4>3. QED BY <2>3, <4>1, <4>2 DEF MsgOK
    <3>4. board'[c].state # "none" /\ a # c
      BY <1>9, <1>13, <2>3 DEF MsgOK
    <3>5. QED BY <1>16, <3>1, <3>3, <3>4 DEF MsgOK
  <2>4. CASE a = q /\ c # q /\ board[c].state # "none" /\ x = d
    BY <1>9, <1>10, <1>13, <1>16, <1>18, <2>4 DEF MsgOK, NumbersUpTo, Numbered
  <2>5. QED BY <1>12, <2>1, <2>3, <2>4
<1>24. QED BY <1>14, <1>19, <1>20, <1>21, <1>22, <1>23 DEF IInv

-----------------------------------------------------------------------------
(* The whole *)

\* A board that is open has what has been drawn on it.
OpenSet(b, n, d, log, known) == [b EXCEPT !.seq = n, !.doc = d, !.log = log, !.known = known]
\* What it is, field by field.
LEMMA OpenSetType ==
  ASSUME NEW b \in Boards, NEW n \in Nat, NEW d \in Docs, NEW log \in Seq(Entries),
         NEW known \in SUBSET Drawings
  PROVE  LET c == OpenSet(b, n, d, log, known)
         IN  /\ c \in Boards /\ c.seq = n /\ c.doc = d /\ c.log = log /\ c.known = known
             /\ c.state = b.state /\ c.source = b.source /\ c.offering = b.offering
             /\ c.up = b.up /\ c.pending = b.pending /\ c.locked = b.locked
BY DEF Boards, OpenSet

\* What was drawn first.
LEMMA FirstEntryType ==
  ASSUME FirstDrawer # None
  PROVE  /\ FirstEntry \in Drawings /\ FirstEntry \in Entries /\ IsCommand(FirstEntry)
         /\ FirstEntry.seq = 1 /\ FirstEntry.kind = "add" /\ FirstEntry.epoch = 1
         /\ FirstEntry.id \in Ids /\ FirstEntry.id[2] = 0
<1>1. FirstDrawer \in Peers
  BY BoardAssumption
<1>2. FirstEntry \in Drawings /\ FirstEntry.id = <<FirstDrawer, 0>>
  BY <1>1 DEF FirstEntry, Drawings, Drawing, Ids
<1>3. FirstEntry.seq = 1 /\ FirstEntry.kind = "add" /\ FirstEntry.epoch = 1
  BY DEF FirstEntry
<1>4. QED BY <1>1, <1>2, <1>3 DEF Entries, IsCommand, Drawing, Drawings, Ids

\* The boards in the beginning.
LEMMA OpenedIs ==
  ASSUME NEW p \in Peers
  PROVE  /\ Opened(p) \in Boards /\ Opened(p).state = "ready" /\ Opened(p).source = None
         /\ ~Opened(p).offering /\ Opened(p).pending = {}
         /\ Opened(p).seq = Len(Before)
         /\ \A k \in 1..Len(Opened(p).log) : Opened(p).log[k].seq <= Opened(p).seq
         /\ \A e \in Opened(p).known : e.seq <= Opened(p).seq
         /\ FirstDrawer # None =>
               Opened(p).doc.epoch = 1 /\ FirstEntry.id \in Opened(p).doc.accepted
<1> DEFINE open == [Closed EXCEPT !.up = TRUE, !.state = "ready"]
           doc == Drawn(NewDoc, FirstEntry)
           c == Closed
<1>1. /\ open \in Boards /\ open.state = "ready" /\ open.source = None /\ ~open.offering
      /\ open.pending = {} /\ open.seq = 0 /\ open.log = <<>> /\ open.known = {}
  <2>1. /\ c \in Boards /\ c.source = None /\ ~c.offering /\ c.pending = {} /\ c.seq = 0
        /\ c.log = <<>> /\ c.known = {}
    BY ClosedType
  <2>2. "ready" \in States
    BY DEF States
  <2> HIDE DEF c
  <2>3. open = [c EXCEPT !.up = TRUE, !.state = "ready"]
    BY DEF c
  <2>4. /\ open \in Boards /\ open.state = "ready" /\ open.source = c.source
        /\ open.offering = c.offering /\ open.pending = c.pending /\ open.seq = c.seq
        /\ open.log = c.log /\ open.known = c.known
    BY <2>1, <2>2, <2>3 DEF Boards
  <2> HIDE DEF open
  <2>5. QED BY <2>1, <2>4
<1> HIDE DEF c
<1>2. CASE FirstDrawer = None
  <2>1. Opened(p) = open /\ Len(Before) = 0
    BY <1>2 DEF Opened, Before
  <2> HIDE DEF open
  <2>2. Len(open.log) = 0
    BY <1>1
  <2>3. QED BY <1>1, <1>2, <2>1, <2>2
<1>3. ASSUME FirstDrawer # None
      PROVE  doc \in Docs /\ doc.epoch = 1 /\ FirstEntry.id \in doc.accepted
  BY <1>3, NewDocType, FirstEntryType, DrawnType
<1>4. CASE FirstDrawer # None /\ p # FirstHost
  <2> DEFINE b == OpenSet(open, 1, doc, open.log, open.known)
  <2>1. Opened(p) = [open EXCEPT !.seq = 1, !.doc = doc] /\ Len(Before) = 1
    BY <1>4 DEF Opened, Before
  <2> HIDE DEF open, doc
  <2>2. [open EXCEPT !.seq = 1, !.doc = doc] = b
    BY <1>1 DEF OpenSet, Boards
  <2>3. /\ b \in Boards /\ b.seq = 1 /\ b.doc = doc /\ b.log = <<>> /\ b.known = {}
        /\ b.state = "ready" /\ b.source = None /\ ~b.offering /\ b.pending = {}
    <3> DEFINE l == open.log
               k == open.known
    <3>0. l = <<>> /\ k = {}
      BY <1>1
    <3>1. l \in Seq(Entries) /\ k \in SUBSET Drawings
      BY <1>1, BoardFields
    <3> HIDE DEF l, k
    <3>2. /\ OpenSet(open, 1, doc, l, k) \in Boards
          /\ OpenSet(open, 1, doc, l, k).seq = 1 /\ OpenSet(open, 1, doc, l, k).doc = doc
          /\ OpenSet(open, 1, doc, l, k).log = l /\ OpenSet(open, 1, doc, l, k).known = k
          /\ OpenSet(open, 1, doc, l, k).state = open.state
          /\ OpenSet(open, 1, doc, l, k).source = open.source
          /\ OpenSet(open, 1, doc, l, k).offering = open.offering
          /\ OpenSet(open, 1, doc, l, k).pending = open.pending
      BY <1>1, <1>3, <1>4, <3>1, OpenSetType
    <3>3. b = OpenSet(open, 1, doc, l, k)
      BY DEF l, k
    <3>4. QED BY <1>1, <3>0, <3>2, <3>3
  <2> HIDE DEF b
  <2>4. Opened(p) = b
    BY <2>1, <2>2
  <2>5. Len(b.log) = 0 /\ Len(Before) = 1
    BY <2>1, <2>3
  <2>6. doc.epoch = 1 /\ FirstEntry.id \in doc.accepted
    BY <1>3, <1>4
  <2>7. \A i \in 1..Len(b.log) : b.log[i].seq <= b.seq
    BY <2>5
  <2>8. QED BY <2>3, <2>4, <2>5, <2>6, <2>7
<1>5. CASE FirstDrawer # None /\ p = FirstHost
  <2> DEFINE k == {FirstEntry}
             l == Before
             b == OpenSet(open, 1, doc, l, k)
  <2>1. Opened(p) = [[open EXCEPT !.seq = 1, !.doc = doc] EXCEPT !.log = l, !.known = k]
    BY <1>5 DEF Opened
  <2>2. l = <<FirstEntry>> /\ Len(l) = 1 /\ l[1] = FirstEntry
    BY <1>5 DEF Before
  <2>3. l \in Seq(Entries) /\ k \in SUBSET Drawings
    BY <1>5, <2>2, FirstEntryType
  <2> HIDE DEF open, doc, l, k
  <2>4. Opened(p) = b
    BY <2>1 DEF OpenSet
  <2>5. /\ b \in Boards /\ b.seq = 1 /\ b.doc = doc /\ b.log = l /\ b.known = k
        /\ b.state = "ready" /\ b.source = None /\ ~b.offering /\ b.pending = {}
    BY <1>1, <1>3, <1>5, <2>3, OpenSetType
  <2> HIDE DEF b
  <2>6. \A i \in 1..Len(l) : l[i].seq <= 1
    BY <1>5, <2>2, FirstEntryType
  <2>7. \A e \in k : e.seq <= 1
    BY <1>5, FirstEntryType DEF k
  <2>8. Len(Before) = 1
    BY <2>2 DEF l
  <2>9. QED BY <1>3, <1>5, <2>4, <2>5, <2>6, <2>7, <2>8
<1>6. QED BY <1>2, <1>4, <1>5

\* The invariant holds in the beginning.
LEMMA InitHolds ==
  ASSUME Init
  PROVE  IInv
<1>1. /\ hosts = <<FirstHost>> /\ Len(hosts) = 1 /\ hosts[1] = FirstHost /\ FirstHost \in Peers
      /\ \A p \in Peers : heard[p] = 1 /\ board[p] = Opened(p)
      /\ \A p, q \in Peers : net[p][q] = <<>>
      /\ history = Before
  BY BoardAssumption DEF Init
<1>2. Reign = 1 /\ NewHost = FirstHost
  BY <1>1 DEF Reign, NewHost
<1>3. \A p \in Peers : Host(p) = FirstHost
  BY <1>1 DEF Host
<1>4. history \in Seq(Entries \cup Handoffs)
      /\ \A i \in 1..Len(history) : FirstDrawer # None /\ history[i] = FirstEntry
  <2>1. CASE FirstDrawer = None
    BY <1>1, <2>1 DEF Before
  <2>2. CASE FirstDrawer # None
    BY <1>1, <2>2, FirstEntryType DEF Before
  <2>3. QED BY <2>1, <2>2
<1>5. TypeOK
  <2>1. hosts \in Seq(Peers) /\ hosts # <<>> /\ heard \in [Peers -> 1..Len(hosts)]
    BY <1>1 DEF Init
  <2>2. board \in [Peers -> Boards]
    BY OpenedIs DEF Init
  <2>3. net \in Nets
    BY DEF Init, Nets
  <2>4. used \in Counts
    BY DEF Init, Counts
  <2>5. QED BY <1>4, <2>1, <2>2, <2>3, <2>4 DEF TypeOK
<1>6. ChainInv
  BY <1>1, <1>2, OpenedIs DEF ChainInv
<1>7. SeatInv
  BY <1>1, <1>2, OpenedIs DEF SeatInv
<1>8. ~Vacant
  BY <1>2 DEF Vacant
<1>9. SeqInv
  <2>1. Len(history) \in Nat
    BY <1>5 DEF TypeOK
  <2>2. \A p \in Peers : board[p].seq = Len(history)
    BY <1>1, OpenedIs
  <2>3. QED BY <1>1, <1>8, <2>1, <2>2, OpenedIs DEF SeqInv
<1>10. CoverInv
  <2>1. \A p \in Peers : Covers(board[p].doc)
    BY <1>1, <1>4, OpenedIs, FirstEntryType DEF Covers
  <2>2. QED BY <1>8, <2>1 DEF CoverInv
<1>11. NetInv
  <2>1. \A p, q \in Peers : Way(net, p, q) = {}
    BY <1>1 DEF Way
  <2>2. QED BY <2>1 DEF NetInv
<1>12. QED BY <1>5, <1>6, <1>7, <1>9, <1>10, <1>11 DEF IInv

\* Every step keeps it, as long as nobody opens a board as the host of a board
\* that others have open.
LEMMA StepHolds ==
  ASSUME IInv, ~FreshHosts, [Next]_vars
  PROVE  IInv'
<1>1. ASSUME NEW p \in Peers, NEW q \in Peers, Receive(p, q)
      PROVE  IInv'
  <2>1. CASE ServeSuccessor(p, q) BY <2>1, ServeSuccessorGentle, GentleKeeps
  <2>2. CASE TakeOver(p, q) BY <2>2, TakeOverKeeps
  <2>3. CASE ServeFollower(p, q) BY <2>3, ServeFollowerGentle, GentleKeeps
  <2>4. CASE Decide(p, q) BY <2>4, DecideKeeps
  <2>5. CASE FollowDescriptor(p, q) BY <2>5, FollowDescriptorGentle, GentleKeeps
  <2>6. CASE FollowCommit(p, q) BY <2>6, FollowCommitGentle, GentleKeeps
  <2>7. CASE FollowDelta(p, q) BY <2>7, FollowDeltaGentle, GentleKeeps
  <2>8. CASE FollowSnapshot(p, q) BY <2>8, FollowSnapshotGentle, GentleKeeps
  <2>9. CASE FollowHeartbeat(p, q) BY <2>9, FollowHeartbeatGentle, GentleKeeps
  <2>10. CASE FollowReject(p, q) BY <2>10, FollowRejectGentle, GentleKeeps
  <2>11. CASE Ignore(p, q) BY <2>11, IgnoreGentle, GentleKeeps
  <2>12. CASE PeerLeft(p, q) BY <2>12, PeerLeftGentle, GentleKeeps
  <2>13. CASE ObservePeer(p, q) BY <2>13, ObservePeerGentle, GentleKeeps
  <2>14. QED BY <1>1, <2>1, <2>2, <2>3, <2>4, <2>5, <2>6, <2>7, <2>8, <2>9, <2>10, <2>11,
                <2>12, <2>13 DEF Receive
<1>2. ASSUME NEW p \in Peers, Tick(p)
      PROVE  IInv'
  BY <1>2, HeartbeatGentle, ResendGentle, SyncTickGentle, GentleKeeps DEF Tick
<1>3. CASE \E p \in Peers :
            \/ Start(p) \/ HearHost(p)
            \/ \E kind \in {"add", "undo", "clear"} : Draw(p, kind)
            \/ \E kind \in {"add", "undo"} : Propose(p, kind)
            \/ Lock(p) \/ Tick(p) \/ TimesOut(p)
            \/ TransportDown(p) \/ TransportUp(p) \/ Crash(p)
  <2> PICK p \in Peers :
            \/ Start(p) \/ HearHost(p)
            \/ \E kind \in {"add", "undo", "clear"} : Draw(p, kind)
            \/ \E kind \in {"add", "undo"} : Propose(p, kind)
            \/ Lock(p) \/ Tick(p) \/ TimesOut(p)
            \/ TransportDown(p) \/ TransportUp(p) \/ Crash(p)
    BY <1>3
  <2>1. CASE Start(p) BY <2>1, StartKeeps
  <2>2. CASE HearHost(p) BY <2>2, HearHostKeeps
  <2>3. ASSUME NEW kind \in {"add", "undo", "clear"}, Draw(p, kind) PROVE IInv'
    BY <2>3, DrawKeeps DEF Drawing
  <2>4. ASSUME NEW kind \in {"add", "undo"}, Propose(p, kind) PROVE IInv'
    BY <2>4, ProposeGentle, GentleKeeps
  <2>5. CASE Lock(p) BY <2>5, LockKeeps
  <2>6. CASE Tick(p) BY <1>2, <2>6
  <2>7. CASE TimesOut(p) BY <2>7, TimesOutGentle, GentleKeeps
  <2>8. CASE TransportDown(p) BY <2>8, TransportDownGentle, GentleKeeps
  <2>9. CASE TransportUp(p) BY <2>9, TransportUpGentle, GentleKeeps
  <2>10. CASE Crash(p) BY <2>10, CrashKeeps
  <2>11. QED BY <2>1, <2>2, <2>3, <2>4, <2>5, <2>6, <2>7, <2>8, <2>9, <2>10
<1>4. CASE \E p, q \in Peers : TransferHost(p, q) \/ Receive(p, q)
  BY <1>1, <1>4, TransferHostKeeps
<1>5. CASE UNCHANGED vars
  <2>1. /\ hosts' = hosts /\ heard' = heard /\ board' = board /\ net' = net /\ history' = history
        /\ used' = used
    BY <1>5 DEF vars
  <2>2. QED BY <2>1, NetFine, NoneEased, GentleKeeps
<1>6. QED BY <1>3, <1>4, <1>5 DEF Next

\* The invariant of the whole board.
LEMMA AlwaysIInv == ASSUME ~FreshHosts PROVE Spec => []IInv
<1>1. Init => IInv
  BY InitHolds
<1>2. IInv /\ [Next]_vars => IInv'
  BY StepHolds
<1>3. QED BY <1>1, <1>2, PTL DEF Spec

\* Whoever leads and takes an entry, takes the next number.
LEMMA GivesNext ==
  ASSUME IInv, NEW p \in Peers, Leads(p), NEW b, b.seq = board[p].seq + 1, NEW e,
         board' = [board EXCEPT ![p] = b], history' = Append(history, e)
  PROVE  board[p].seq = Len(history) /\ board'[p].seq = Len(history')
<1>1. TypeOK /\ board[p].seq = Len(history)
  BY DEF IInv, SeqInv
<1>2. board'[p] = b
  BY <1>1 DEF TypeOK
<1>3. history \in Seq(Entries \cup Handoffs)
  BY <1>1 DEF TypeOK
<1>4. Len(Append(history, e)) = Len(history) + 1
  BY <1>3
<1>5. QED BY <1>1, <1>2, <1>4

\* A number is given by somebody who has all the numbers before it.
LEMMA NumberIsNext ==
  ASSUME IInv, [Next]_vars, history' # history
  PROVE  \E p \in Peers : board[p].seq = Len(history) /\ board'[p].seq = Len(history')
<1>0. TypeOK
  BY DEF IInv
<1>1. ASSUME NEW p \in Peers, NEW e, NEW d
      PROVE  /\ Committed(board[p], e, d).seq = board[p].seq + 1
             /\ [Committed(board[p], e, d) EXCEPT !.known = @ \cup {e}].seq = board[p].seq + 1
             /\ [Committed(board[p], e, d) EXCEPT !.locked = ~@].seq = board[p].seq + 1
  <2>1. board[p] \in Boards
    BY <1>0 DEF TypeOK
  <2>2. QED BY <2>1 DEF Committed, Boards
<1>2. ASSUME NEW p \in Peers, NEW kind, Draw(p, kind)
      PROVE  board[p].seq = Len(history) /\ board'[p].seq = Len(history')
  <2> DEFINE e == Entry(board[p], Gesture(p, kind))
             b == [Committed(board[p], e, Drawn(board[p].doc, Gesture(p, kind)))
                     EXCEPT !.known = @ \cup {e}]
  <2>1. Leads(p) /\ board' = [board EXCEPT ![p] = b] /\ history' = Append(history, e)
    BY <1>2 DEF Draw
  <2>2. b.seq = board[p].seq + 1
    BY <1>1
  <2> HIDE DEF b, e
  <2>3. QED BY <2>1, <2>2, GivesNext
<1>3. ASSUME NEW p \in Peers, Lock(p)
      PROVE  board[p].seq = Len(history) /\ board'[p].seq = Len(history')
  <2> DEFINE e == [seq |-> board[p].seq + 1, kind |-> "lock", locked |-> ~board[p].locked]
             b == [Committed(board[p], e, Barrier(board[p].doc)) EXCEPT !.locked = ~@]
  <2>1. Leads(p) /\ board' = [board EXCEPT ![p] = b] /\ history' = Append(history, e)
    BY <1>3 DEF Lock
  <2>2. b.seq = board[p].seq + 1
    BY <1>1
  <2> HIDE DEF b, e
  <2>3. QED BY <2>1, <2>2, GivesNext
<1>4. ASSUME NEW p \in Peers, NEW q \in Peers, Decide(p, q)
      PROVE  board[q].seq = Len(history) /\ board'[q].seq = Len(history')
  <2> DEFINE c == Head1(p, q).cmd
             e == Entry(board[q], c)
             b == [Committed(board[q], e, Drawn(board[q].doc, c)) EXCEPT !.known = @ \cup {e}]
  <2>1. Leads(q) /\ board' = [board EXCEPT ![q] = b] /\ history' = Append(history, e)
    BY <1>4 DEF Decide
  <2>2. b.seq = board[q].seq + 1
    BY <1>1
  <2> HIDE DEF b, e
  <2>3. QED BY <2>1, <2>2, GivesNext
<1>5. ASSUME NEW p \in Peers, HearHost(p)
      PROVE  board[p].seq = Len(history) /\ board'[p].seq = Len(history')
  <2>1. PICK i \in (heard[p] + 1)..Len(hosts) : SetAuthority(p, i)
    BY <1>5 DEF HearHost
  <2> DEFINE b == Handed(p, hosts[i])
             e == [kind |-> "handoff", host |-> hosts[i]]
  <2>2. Hands(p) /\ board' = [board EXCEPT ![p] = b] /\ history' = Append(history, e)
    BY <2>1 DEF SetAuthority
  <2>3. Leads(p)
    BY <2>2 DEF Hands, Leads
  <2>4. hosts[i] \in Peers
    BY <1>0, HearingFacts, HostType
  <2>5. b.seq = board[p].seq + 1
    BY <1>0, <2>2, <2>4, HandedIs
  <2> HIDE DEF b, e
  <2>6. QED BY <2>2, <2>3, <2>5, GivesNext
<1>6. CASE \E p \in Peers :
            \/ Start(p) \/ HearHost(p)
            \/ \E kind \in {"add", "undo", "clear"} : Draw(p, kind)
            \/ \E kind \in {"add", "undo"} : Propose(p, kind)
            \/ Lock(p) \/ Tick(p) \/ TimesOut(p)
            \/ TransportDown(p) \/ TransportUp(p) \/ Crash(p)
  BY <1>2, <1>3, <1>5, <1>6
    DEF Start, Propose, Tick, Heartbeat, Resend, SyncTick, TimesOut, TransportDown, TransportUp,
        Crash
<1>7. CASE \E p, q \in Peers : TransferHost(p, q) \/ Receive(p, q)
  BY <1>4, <1>7
    DEF TransferHost, Receive, ServeSuccessor, TakeOver, ServeFollower, FollowDescriptor,
        FollowCommit, FollowDelta, FollowSnapshot, FollowHeartbeat, FollowReject, Ignore,
        PeerLeft, ObservePeer
<1>8. CASE UNCHANGED vars
  BY <1>8 DEF vars
<1>9. QED BY <1>6, <1>7, <1>8 DEF Next

\* There is one authority: whoever numbers what it accepts has all the numbers
\* before it, whatever hosts there are in turn, whichever of them return, and
\* whatever breaks (Runtime::appendAndBroadcast, setAuthority and
\* finishAuthorityTransfer).  Nobody opens the board as the host of a board that
\* others have open.
THEOREM AuthorityIsOne == ASSUME ~FreshHosts PROVE Spec => OneAuthority
<1>1. IInv /\ [Next]_vars => [history' # history =>
        \E p \in Peers : /\ board[p].seq = Len(history)
                         /\ board'[p].seq = Len(history')]_vars
  BY NumberIsNext
<1>2. Spec => []IInv
  BY AlwaysIInv
<1>3. QED BY <1>1, <1>2, PTL DEF Spec, OneAuthority

-----------------------------------------------------------------------------
(* What a log makes *)

\* One number more: the branches of Canon.
Turn(was, e) ==
  CASE e.kind = "handoff" -> [was EXCEPT !.doc = Barrier(@)]
    [] e.kind = "lock"    -> [doc |-> Barrier(was.doc), locked |-> e.locked]
    [] OTHER              -> [was EXCEPT !.doc = Drawn(@, e)]
Blank == [doc |-> NewDoc, locked |-> FALSE]

\* What the first n numbers of a log make.
Made(h, n) ==
  LET at[i \in 0..n] == IF i = 0 THEN Blank ELSE Turn(at[i - 1], h[i])
  IN  at[n]
\* The function that Made defines, for any number of steps.
MakesUp(h, n, f) == f = [i \in 0..n |-> IF i = 0 THEN Blank ELSE Turn(f[i - 1], h[i])]
Makes == [doc : Docs, locked : BOOLEAN]

\* The reference of the whiteboard is what its log makes.
LEMMA CanonIsMade == \A n : Canon(n) = Made(history, n)
BY DEF Canon, Made, Turn, Blank

\* The function exists, for any number of steps.
LEMMA MakesUpExists ==
  ASSUME NEW h
  PROVE  \A n \in Nat : \E f : MakesUp(h, n, f)
<1> DEFINE T == {k \in Nat : \E f : MakesUp(h, k, f)}
<1>1. 0 \in T
  <2>1. 0..0 = {0}
    OBVIOUS
  <2>2. MakesUp(h, 0, [i \in {0} |-> Blank])
    BY <2>1 DEF MakesUp
  <2>3. QED BY <2>2
<1>2. ASSUME NEW k \in Nat, k \in T PROVE k + 1 \in T
  <2>1. PICK f : MakesUp(h, k, f)
    BY <1>2
  <2> DEFINE g == [i \in 0..(k + 1) |-> IF i = k + 1 THEN Turn(f[k], h[k + 1]) ELSE f[i]]
  <2>2. \A i \in 0..k : f[i] = IF i = 0 THEN Blank ELSE Turn(f[i - 1], h[i])
    BY <2>1 DEF MakesUp
  <2>3. \A i \in 0..(k + 1) : g[i] = IF i = 0 THEN Blank ELSE Turn(g[i - 1], h[i])
    <3>1. TAKE i \in 0..(k + 1)
    <3>2. CASE i = k + 1
      <4>1. i - 1 = k /\ i # 0 /\ k \in 0..(k + 1) /\ k # k + 1
        BY <3>2
      <4>2. g[i] = Turn(f[k], h[k + 1]) /\ g[i - 1] = f[k]
        BY <3>2, <4>1
      <4>3. QED BY <4>1, <4>2, <3>2
    <3>3. CASE i # k + 1
      <4>1. i \in 0..k /\ (i # 0 => i - 1 \in 0..k /\ i - 1 # k + 1 /\ i - 1 \in 0..(k + 1))
        BY <3>3
      <4>2. g[i] = f[i] /\ (i # 0 => g[i - 1] = f[i - 1])
        BY <3>3, <4>1
      <4>3. QED BY <2>2, <4>1, <4>2
    <3>4. QED BY <3>2, <3>3
  <2>4. g = [i \in 0..(k + 1) |-> g[i]]
    OBVIOUS
  <2> HIDE DEF g
  <2>5. MakesUp(h, k + 1, g)
    BY <2>3, <2>4 DEF MakesUp
  <2>6. QED BY <2>5
<1> HIDE DEF T
<1>3. T \in SUBSET Nat
  BY DEF T
<1>4. \A n \in Nat : n \in T
  BY <1>1, <1>2, <1>3, Inductive
<1>5. QED BY <1>4 DEF T

\* Made is the last value of any such function.
LEMMA MadeIs ==
  ASSUME NEW h, NEW n \in Nat, NEW f, MakesUp(h, n, f)
  PROVE  \A k \in 0..n : Made(h, k) = f[k]
<1>1. ASSUME NEW a \in Nat, NEW b \in Nat, NEW u, NEW v, MakesUp(h, a, u), MakesUp(h, b, v)
      PROVE  \A k \in Nat : k <= a /\ k <= b => u[k] = v[k]
  <2> DEFINE T == {k \in Nat : k <= a /\ k <= b => u[k] = v[k]}
  <2>1. /\ \A i \in 0..a : u[i] = IF i = 0 THEN Blank ELSE Turn(u[i - 1], h[i])
        /\ \A i \in 0..b : v[i] = IF i = 0 THEN Blank ELSE Turn(v[i - 1], h[i])
    BY <1>1 DEF MakesUp
  <2>2. 0 \in T
    BY <2>1
  <2>3. ASSUME NEW k \in Nat, k \in T PROVE k + 1 \in T
    <3>1. SUFFICES ASSUME k + 1 <= a, k + 1 <= b PROVE u[k + 1] = v[k + 1]
      OBVIOUS
    <3>2. u[k] = v[k]
      BY <2>3, <3>1
    <3>3. k + 1 \in 0..a /\ k + 1 \in 0..b /\ k + 1 # 0 /\ k + 1 - 1 = k
      BY <3>1
    <3>4. u[k + 1] = Turn(u[k], h[k + 1]) /\ v[k + 1] = Turn(v[k], h[k + 1])
      BY <2>1, <3>3
    <3>5. QED BY <3>2, <3>4
  <2>4. T \in SUBSET Nat
    OBVIOUS
  <2>5. \A k \in Nat : k \in T
    <3> HIDE DEF T
    <3>1. QED BY <2>2, <2>3, <2>4, Inductive
  <2>6. QED BY <2>5
<1>2. TAKE k \in 0..n
<1>3. k \in Nat /\ k <= n
  OBVIOUS
<1>4. Made(h, k) = (CHOOSE g : MakesUp(h, k, g))[k]
  BY DEF Made, MakesUp
<1>5. MakesUp(h, k, CHOOSE g : MakesUp(h, k, g))
  BY <1>3, MakesUpExists
<1>6. QED BY <1>1, <1>3, <1>4, <1>5

\* It begins with the blank board, and every number is one turn.
LEMMA MadeNext ==
  ASSUME NEW h
  PROVE  /\ Made(h, 0) = Blank
         /\ \A n \in Nat : Made(h, n + 1) = Turn(Made(h, n), h[n + 1])
<1>1. ASSUME NEW n \in Nat PROVE Made(h, n + 1) = Turn(Made(h, n), h[n + 1]) /\ Made(h, 0) = Blank
  <2>1. PICK f : MakesUp(h, n + 1, f)
    BY MakesUpExists
  <2>2. n + 1 \in Nat /\ n + 1 \in 0..(n + 1) /\ n \in 0..(n + 1) /\ n + 1 # 0 /\ n + 1 - 1 = n
        /\ 0 \in 0..(n + 1)
    OBVIOUS
  <2>3. f[n + 1] = Turn(f[n], h[n + 1]) /\ f[0] = Blank
    BY <2>1, <2>2 DEF MakesUp
  <2>4. Made(h, n + 1) = f[n + 1] /\ Made(h, n) = f[n] /\ Made(h, 0) = f[0]
    BY <2>1, <2>2, MadeIs
  <2>5. QED BY <2>3, <2>4
<1>2. QED BY <1>1

\* What a log makes depends on its prefix only.
LEMMA MadePrefix ==
  ASSUME NEW h, NEW g, NEW n \in Nat, \A i \in 1..n : h[i] = g[i]
  PROVE  \A k \in 0..n : Made(h, k) = Made(g, k)
<1> DEFINE T == {k \in Nat : k <= n => Made(h, k) = Made(g, k)}
<1>1. 0 \in T
  BY MadeNext
<1>2. ASSUME NEW k \in Nat, k \in T PROVE k + 1 \in T
  <2>1. k + 1 <= n => k + 1 \in 1..n /\ k <= n
    OBVIOUS
  <2>2. Made(h, k + 1) = Turn(Made(h, k), h[k + 1]) /\ Made(g, k + 1) = Turn(Made(g, k), g[k + 1])
    BY MadeNext
  <2>3. QED BY <1>2, <2>1, <2>2
<1>3. T \in SUBSET Nat
  OBVIOUS
<1>4. \A k \in Nat : k \in T
  <2> HIDE DEF T
  <2>1. QED BY <1>1, <1>2, <1>3, Inductive
<1>5. QED BY <1>4

\* What a drawing makes of a document's marks and of its undo list.
LEMMA DrawnOn ==
  ASSUME NEW d \in Docs, NEW c, IsCommand(c)
  PROVE  /\ c.kind = "add" => /\ Drawn(d, c).on = d.on \cup {c.id}
                              /\ Drawn(d, c).undo = Append(d.undo, c.id)
         /\ c.kind = "undo" /\ Undoable(d, c.id[1]) # {} =>
              LET i == LastOf(Undoable(d, c.id[1]))
              IN  /\ Drawn(d, c).on = d.on \ {d.undo[i]}
                  /\ Drawn(d, c).undo = WithoutAt(d.undo, i)
         /\ c.kind = "clear" => Drawn(d, c).on = {} /\ Drawn(d, c).undo = <<>>
<1> DEFINE a == AcceptedSet(d, d.accepted \cup {c.id})
           i == LastOf(Undoable(d, c.id[1]))
<1>0. c.id \in Ids /\ c.kind \in Drawing
  BY DEF IsCommand
<1>1. a \in Docs /\ a.undo = d.undo /\ a.on = d.on
  <2>1. d.accepted \cup {c.id} \in SUBSET Ids
    BY <1>0, DocFields
  <2>2. QED BY <2>1, DocAccepting
<1> HIDE DEF a, i
<1>2. ASSUME c.kind = "add"
      PROVE  Drawn(d, c).on = d.on \cup {c.id} /\ Drawn(d, c).undo = Append(d.undo, c.id)
  <2> DEFINE x == a.on \cup {c.id}
             y == Append(a.undo, c.id)
  <2>1. Drawn(d, c) = DrawnSet(a, x, y)
    BY <1>2 DEF Drawn, DrawnSet, AcceptedSet, a
  <2>2. y \in Seq(Ids) /\ x \in SUBSET Ids
    BY <1>0, <1>1, DocFields
  <2>3. x = d.on \cup {c.id} /\ y = Append(d.undo, c.id)
    BY <1>1
  <2> HIDE DEF x, y
  <2>4. Drawn(d, c).on = x /\ Drawn(d, c).undo = y
    BY <1>1, <2>1, <2>2, DocWith
  <2>5. QED BY <2>3, <2>4
<1>3. ASSUME c.kind = "undo", Undoable(d, c.id[1]) # {}
      PROVE  Drawn(d, c).on = d.on \ {d.undo[i]} /\ Drawn(d, c).undo = WithoutAt(d.undo, i)
  <2> DEFINE x == a.on \ {d.undo[i]}
             y == WithoutAt(a.undo, i)
  <2>1. Drawn(d, c) = DrawnSet(a, x, y)
    BY <1>3 DEF Drawn, DrawnSet, AcceptedSet, a, i
  <2>2. y \in Seq(Ids) /\ x \in SUBSET Ids
    BY <1>1, <1>3, UndoableIn, WithoutAtType, DocFields DEF i
  <2>3. x = d.on \ {d.undo[i]} /\ y = WithoutAt(d.undo, i)
    BY <1>1
  <2> HIDE DEF x, y
  <2>4. QED BY <1>1, <2>1, <2>2, <2>3, DocWith
<1>4. ASSUME c.kind = "clear"
      PROVE  Drawn(d, c).on = {} /\ Drawn(d, c).undo = <<>>
  <2> DEFINE e == DrawnSet(d, {}, <<>>)
             b == Barrier(e)
  <2>1. Drawn(d, c) = AcceptedSet(b, {c.id})
    BY <1>4 DEF Drawn, DrawnSet, AcceptedSet
  <2>2. {} \in SUBSET Ids /\ <<>> \in Seq(Ids) /\ {c.id} \in SUBSET Ids
    BY <1>0
  <2>3. e \in Docs /\ e.on = {} /\ e.undo = <<>>
    BY <2>2, DocWith
  <2> HIDE DEF e
  <2>4. b \in Docs /\ b.on = {} /\ b.undo = <<>>
    BY <2>3, BarrierType
  <2> HIDE DEF b
  <2>5. QED BY <2>1, <2>2, <2>4, DocAccepting
<1>5. QED BY <1>2, <1>3, <1>4 DEF i

\* A turn makes a document; what is neither drawn nor undone begins an epoch.
LEMMA TurnType ==
  ASSUME NEW w \in Makes, NEW e \in Entries \cup Handoffs
  PROVE  /\ Turn(w, e) \in Makes
         /\ Turn(w, e).doc.epoch >= w.doc.epoch
         /\ e.kind \notin {"add", "undo"} => Turn(w, e).doc.epoch > w.doc.epoch
<1> DEFINE d == w.doc
<1>1. w = [doc |-> d, locked |-> w.locked] /\ d \in Docs /\ w.locked \in BOOLEAN /\ d.epoch \in Nat
  BY DocFields DEF Makes
<1>2. Barrier(d) \in Docs /\ Barrier(d).epoch = d.epoch + 1
  BY <1>1, BarrierType
<1>3. CASE e \in Handoffs
  <2>1. e.kind = "handoff"
    BY <1>3 DEF Handoffs
  <2>2. Turn(w, e) = [doc |-> Barrier(d), locked |-> w.locked]
    BY <1>1, <2>1 DEF Turn, Makes
  <2>3. QED BY <1>1, <1>2, <2>1, <2>2 DEF Makes
<1>4. CASE e \in Locks
  <2>1. e.kind = "lock" /\ e.locked \in BOOLEAN
    BY <1>4 DEF Locks
  <2>2. Turn(w, e) = [doc |-> Barrier(d), locked |-> e.locked]
    BY <1>1, <2>1 DEF Turn
  <2>3. QED BY <1>1, <1>2, <2>1, <2>2 DEF Makes
<1>5. CASE e \in Drawings
  <2>1. e.kind \in Drawing /\ IsCommand(e)
    BY <1>5 DEF Drawings, IsCommand
  <2>2. Turn(w, e) = [doc |-> Drawn(d, e), locked |-> w.locked]
    BY <1>1, <2>1 DEF Turn, Makes, Drawing
  <2>3. Drawn(d, e) \in Docs
        /\ (e.kind = "clear" => Drawn(d, e).epoch = d.epoch + 1)
        /\ (e.kind # "clear" => Drawn(d, e).epoch = d.epoch)
    BY <1>1, <2>1, DrawnType
  <2>4. QED BY <1>1, <2>1, <2>2, <2>3 DEF Makes, Drawing
<1>6. QED BY <1>3, <1>4, <1>5 DEF Entries

\* The logs.
Log == Seq(Entries \cup Handoffs)

\* What a log makes is of the type, and its epochs grow; while the epoch is the
\* same, there are only drawings and undos.
LEMMA MadeType ==
  ASSUME NEW h \in Log
  PROVE  \A n \in 0..Len(h) : Made(h, n) \in Makes /\ Made(h, n).doc \in Docs
                              /\ Made(h, n).doc.epoch \in Nat /\ Made(h, n).locked \in BOOLEAN
<1> DEFINE T == {k \in Nat : k <= Len(h) => Made(h, k) \in Makes}
<1>1. 0 \in T
  <2>1. Blank \in Makes
    BY NewDocType DEF Blank, Makes
  <2>2. Made(h, 0) \in Makes
    BY <2>1, MadeNext
  <2>3. QED BY <2>2
<1>2. ASSUME NEW k \in Nat, k \in T PROVE k + 1 \in T
  <2>1. SUFFICES ASSUME k + 1 <= Len(h) PROVE Made(h, k + 1) \in Makes
    OBVIOUS
  <2>2. h[k + 1] \in Entries \cup Handoffs /\ Made(h, k) \in Makes
    BY <1>2, <2>1 DEF Log
  <2>3. Made(h, k + 1) = Turn(Made(h, k), h[k + 1])
    BY MadeNext
  <2>4. QED BY <2>2, <2>3, TurnType
<1>3. T \in SUBSET Nat /\ Len(h) \in Nat
  BY DEF Log
<1>4. \A k \in Nat : k \in T
  <2> HIDE DEF T
  <2>1. QED BY <1>1, <1>2, <1>3, Inductive
<1>5. \A n \in 0..Len(h) : Made(h, n) \in Makes
  BY <1>3, <1>4
<1>6. \A m \in Makes : m.doc \in Docs /\ m.doc.epoch \in Nat /\ m.locked \in BOOLEAN
  BY DocFields DEF Makes
<1>7. QED BY <1>5, <1>6

\* Epochs grow along a log.
LEMMA EpochsGrow ==
  ASSUME NEW h \in Log, NEW k \in 0..Len(h)
  PROVE  \A n \in 0..Len(h) : k <= n =>
            /\ Made(h, k).doc.epoch <= Made(h, n).doc.epoch
            /\ Made(h, k).doc.epoch = Made(h, n).doc.epoch =>
                 \A j \in (k + 1)..n : h[j].kind \in {"add", "undo"}
<1> DEFINE E(n) == Made(h, n).doc.epoch
           T == {i \in Nat : k + i <= Len(h) =>
                   /\ E(k) <= E(k + i)
                   /\ E(k) = E(k + i) => \A j \in (k + 1)..(k + i) : h[j].kind \in {"add", "undo"}}
<1>0. Len(h) \in Nat /\ k \in Nat /\ \A n \in 0..Len(h) : E(n) \in Nat
  BY MadeType DEF Log
<1>1. 0 \in T
  BY <1>0
<1>2. ASSUME NEW i \in Nat, i \in T PROVE i + 1 \in T
  <2>1. SUFFICES ASSUME k + (i + 1) <= Len(h)
                 PROVE  /\ E(k) <= E(k + (i + 1))
                        /\ E(k) = E(k + (i + 1)) =>
                             \A j \in (k + 1)..(k + (i + 1)) : h[j].kind \in {"add", "undo"}
    OBVIOUS
  <2> DEFINE n == k + i
  <2>2. n \in Nat /\ n + 1 = k + (i + 1) /\ n \in 0..Len(h) /\ n + 1 \in 0..Len(h) /\ n + 1 \in 1..Len(h)
    BY <1>0, <2>1
  <2>3. /\ E(k) <= E(n)
        /\ E(k) = E(n) => \A j \in (k + 1)..n : h[j].kind \in {"add", "undo"}
    BY <1>2, <1>0, <2>1
  <2> HIDE DEF n
  <2>4. h[n + 1] \in Entries \cup Handoffs /\ Made(h, n) \in Makes
    BY <2>2, MadeType DEF Log
  <2>5. Made(h, n + 1) = Turn(Made(h, n), h[n + 1])
    BY <2>2, MadeNext
  <2>6. E(n + 1) >= E(n) /\ (h[n + 1].kind \notin {"add", "undo"} => E(n + 1) > E(n))
    BY <2>4, <2>5, TurnType
  <2>7. E(n) \in Nat /\ E(n + 1) \in Nat /\ E(k) \in Nat
    BY <1>0, <2>2
  <2> HIDE DEF E
  <2>8. E(k) <= E(n + 1)
    BY <2>3, <2>6, <2>7
  <2>9. ASSUME E(k) = E(n + 1), NEW j \in (k + 1)..(n + 1) PROVE h[j].kind \in {"add", "undo"}
    <3>1. E(k) = E(n)
      BY <2>3, <2>6, <2>7, <2>9
    <3>2. h[n + 1].kind \in {"add", "undo"}
      BY <2>6, <2>7, <2>9, <3>1
    <3>3. j = n + 1 \/ j \in (k + 1)..n
      BY <1>0, <2>2
    <3>4. QED BY <2>3, <3>1, <3>2, <3>3
  <2>10. QED BY <2>2, <2>8, <2>9
<1>3. T \in SUBSET Nat
  OBVIOUS
<1>4. \A i \in Nat : i \in T
  <2> HIDE DEF T
  <2>1. QED BY <1>1, <1>2, <1>3, Inductive
<1>5. ASSUME NEW n \in 0..Len(h), k <= n
      PROVE  /\ E(k) <= E(n)
             /\ E(k) = E(n) => \A j \in (k + 1)..n : h[j].kind \in {"add", "undo"}
  <2>1. n - k \in Nat /\ k + (n - k) = n
    BY <1>0, <1>5
  <2>2. n - k \in T
    BY <1>4, <2>1
  <2>3. QED BY <2>1, <2>2, <1>5, <1>0
<1>6. QED BY <1>5

-----------------------------------------------------------------------------
(* Boards that show the same *)

\* The end of t, which is k longer.
EndOf(s, t) == \E k \in Nat : Len(t) = Len(s) + k /\ \A i \in 1..Len(s) : s[i] = t[i + k]
\* The same marks and interaction; a snapshot forgets the beginning of the undo
\* list.
Like(d, c) == d.on = c.on /\ d.epoch = c.epoch /\ EndOf(d.undo, c.undo)

\* A sequence without one of its elements, element by element.
LEMMA WithoutAtIs ==
  ASSUME NEW S, NEW s \in Seq(S), NEW i \in 1..Len(s)
  PROVE  /\ Len(WithoutAt(s, i)) = Len(s) - 1
         /\ \A j \in 1..(Len(s) - 1) : WithoutAt(s, i)[j] = IF j < i THEN s[j] ELSE s[j + 1]
<1> DEFINE a == SubSeq(s, 1, i - 1)
           b == SubSeq(s, i + 1, Len(s))
           n == Len(s)
<1>1. n \in Nat /\ i \in Nat /\ 1 <= i /\ i <= n
  OBVIOUS
<1>2. a \in Seq(S) /\ Len(a) = i - 1 /\ \A j \in 1..(i - 1) : a[j] = s[j]
  BY <1>1
<1>3. b \in Seq(S) /\ Len(b) = n - i /\ \A j \in 1..(n - i) : b[j] = s[j + i]
  BY <1>1
<1>4. WithoutAt(s, i) = a \o b
  BY DEF WithoutAt
<1> HIDE DEF a, b, n
<1>5. Len(a \o b) = Len(a) + Len(b)
  <2>1. a \in Seq(S) /\ b \in Seq(S)
    BY <1>2, <1>3
  <2>2. QED BY <2>1
<1>6. Len(a \o b) = n - 1
  BY <1>1, <1>2, <1>3, <1>5
<1>7. ASSUME NEW j \in 1..(n - 1)
      PROVE  (a \o b)[j] = IF j < i THEN s[j] ELSE s[j + 1]
  <2>1. CASE j < i
    <3>1. j \in 1..Len(a) /\ j \in 1..(i - 1)
      BY <1>1, <1>2, <2>1
    <3>2. (a \o b)[j] = a[j]
      BY <1>2, <1>3, <3>1
    <3>3. QED BY <1>2, <2>1, <3>1, <3>2
  <2>2. CASE ~(j < i)
    <3>1. j \in (Len(a) + 1)..(Len(a) + Len(b)) /\ j - (i - 1) \in 1..(n - i)
          /\ (j - (i - 1)) + i = j + 1
      BY <1>1, <1>2, <1>3, <2>2
    <3>2. (a \o b)[j] = b[j - Len(a)]
      BY <1>2, <1>3, <3>1
    <3>3. b[j - (i - 1)] = s[j + 1]
      BY <1>3, <3>1
    <3>4. QED BY <1>2, <2>2, <3>2, <3>3
  <2>3. QED BY <2>1, <2>2
<1>8. QED BY <1>4, <1>6, <1>7 DEF n

\* A new interaction keeps what is shown.
LEMMA LikeBarrier ==
  ASSUME NEW d \in Docs, NEW c \in Docs, Like(d, c)
  PROVE  Like(Barrier(d), Barrier(c))
<1>1. /\ Barrier(d).on = d.on /\ Barrier(d).undo = d.undo /\ Barrier(d).epoch = d.epoch + 1
      /\ Barrier(c).on = c.on /\ Barrier(c).undo = c.undo /\ Barrier(c).epoch = c.epoch + 1
  BY BarrierType
<1>2. QED BY <1>1 DEF Like

\* A document that was restored from a snapshot shows the same.
LEMMA LikeRestored ==
  ASSUME NEW c \in Docs, NEW s \in Bodies, s = Snapshot(c)
  PROVE  Like(Restored(s), c)
<1> DEFINE n == Len(c.undo)
<1>0. c.undo \in Seq(Ids)
  BY DocFields
<1>1. n \in Nat
  BY <1>0
<1>2. /\ Restored(s).on = c.on /\ Restored(s).epoch = c.epoch /\ Restored(s).undo = <<>>
  BY DEF Restored, Snapshot
<1>3. Len(<<>>) = 0 /\ 1..0 = {}
  OBVIOUS
<1> HIDE DEF n
<1>4. n = 0 + n
  BY <1>1
<1>5. EndOf(<<>>, c.undo)
  BY <1>1, <1>3, <1>4 DEF EndOf, n
<1>6. QED BY <1>2, <1>5 DEF Like

\* It is its own end.
LEMMA LikeItself == ASSUME NEW c \in Docs PROVE Like(c, c)
<1> DEFINE n == Len(c.undo)
<1>0. c.undo \in Seq(Ids)
  BY DocFields
<1>1. n \in Nat /\ n = n + 0 /\ \A i \in 1..n : c.undo[i] = c.undo[i + 0]
  BY <1>0
<1>2. EndOf(c.undo, c.undo)
  BY <1>1 DEF EndOf
<1>3. QED BY <1>2 DEF Like

\* What a command takes back, on two boards that show the same.
LEMMA SameUndo ==
  ASSUME NEW d \in Docs, NEW c \in Docs, d.on = c.on, NEW k \in Nat,
         Len(c.undo) = Len(d.undo) + k, \A j \in 1..Len(d.undo) : d.undo[j] = c.undo[j + k],
         NEW author, Undoable(d, author) # {}
  PROVE  /\ Undoable(c, author) # {}
         /\ LastOf(Undoable(c, author)) = LastOf(Undoable(d, author)) + k
<1> DEFINE i == LastOf(Undoable(d, author))
           l == LastOf(Undoable(c, author))
           n == Len(d.undo)
           m == Len(c.undo)
<1>0. d.undo \in Seq(Ids) /\ c.undo \in Seq(Ids)
  BY DocFields
<1>1. n \in Nat /\ m \in Nat /\ m = n + k /\ \A j \in 1..n : d.undo[j] = c.undo[j + k]
  BY <1>0
<1>2. i \in 1..n /\ i \in Undoable(d, author) /\ \A j \in Undoable(d, author) : j <= i
  BY UndoableIn
<1>3. /\ \A j \in Undoable(d, author) : j \in 1..n /\ d.undo[j][1] = author /\ d.undo[j] \in d.on
      /\ \A j \in 1..n : d.undo[j][1] = author /\ d.undo[j] \in d.on => j \in Undoable(d, author)
      /\ \A j \in 1..m : c.undo[j][1] = author /\ c.undo[j] \in c.on => j \in Undoable(c, author)
      /\ \A j \in Undoable(c, author) : j \in 1..m /\ c.undo[j][1] = author /\ c.undo[j] \in c.on
  BY DEF Undoable
<1> HIDE DEF i, n, m
<1>4. i + k \in 1..m /\ c.undo[i + k] = d.undo[i]
  BY <1>1, <1>2
<1>5. i + k \in Undoable(c, author)
  BY <1>2, <1>3, <1>4
<1>6. l \in 1..m /\ l \in Undoable(c, author) /\ \A j \in Undoable(c, author) : j <= l
  BY <1>5, UndoableIn DEF m
<1> HIDE DEF l
<1>7. i + k <= l
  BY <1>5, <1>6
<1>8. l <= i + k
  <2>1. SUFFICES ASSUME l > i + k PROVE FALSE
    BY <1>1, <1>2, <1>6
  <2>2. l - k \in 1..n /\ (l - k) + k = l
    BY <1>1, <1>2, <1>6, <2>1
  <2>3. d.undo[l - k] = c.undo[l]
    BY <1>1, <2>2
  <2>4. l - k \in Undoable(d, author)
    BY <1>3, <1>6, <2>2, <2>3
  <2>5. l - k <= i
    BY <1>2, <2>4
  <2>6. QED BY <1>1, <1>2, <1>6, <2>1, <2>5
<1>9. l = i + k
  <2>1. i + k \in Nat /\ l \in Nat
    BY <1>1, <1>2, <1>6
  <2>2. QED BY <2>1, <1>7, <1>8
<1>10. QED BY <1>5, <1>9 DEF i, l

\* A drawing at the end of both undo lists.
LEMMA EndOfAppend ==
  ASSUME NEW u \in Seq(Ids), NEW v \in Seq(Ids), EndOf(u, v), NEW x \in Ids
  PROVE  EndOf(Append(u, x), Append(v, x))
<1> DEFINE n == Len(u)
           m == Len(v)
           s == Append(u, x)
           t == Append(v, x)
<1>1. PICK k \in Nat : m = n + k /\ \A j \in 1..n : u[j] = v[j + k]
  BY DEF EndOf
<1>2. /\ n \in Nat /\ m \in Nat
      /\ Len(s) = n + 1 /\ s[n + 1] = x /\ \A j \in 1..n : s[j] = u[j]
      /\ Len(t) = m + 1 /\ t[m + 1] = x /\ \A j \in 1..m : t[j] = v[j]
  OBVIOUS
<1> HIDE DEF n, m, s, t
<1>3. ASSUME NEW j \in 1..(n + 1) PROVE s[j] = t[j + k]
  <2>1. CASE j = n + 1
    <3>1. j + k = m + 1
      BY <1>1, <1>2, <2>1
    <3>2. QED BY <1>2, <2>1, <3>1
  <2>2. CASE j # n + 1
    <3>1. j \in 1..n /\ j + k \in 1..m
      BY <1>1, <1>2, <2>2
    <3>2. QED BY <1>1, <1>2, <3>1
  <2>3. QED BY <2>1, <2>2
<1>4. Len(t) = Len(s) + k
  BY <1>1, <1>2
<1>5. EndOf(s, t)
  BY <1>2, <1>3, <1>4 DEF EndOf
<1>6. QED BY <1>5 DEF s, t

\* One that is taken back from both.
LEMMA EndOfWithout ==
  ASSUME NEW u \in Seq(Ids), NEW v \in Seq(Ids), NEW k \in Nat, Len(v) = Len(u) + k,
         \A j \in 1..Len(u) : u[j] = v[j + k], NEW i \in 1..Len(u)
  PROVE  EndOf(WithoutAt(u, i), WithoutAt(v, i + k))
<1> DEFINE n == Len(u)
           m == Len(v)
           s == WithoutAt(u, i)
           t == WithoutAt(v, i + k)
<1>1. n \in Nat /\ m \in Nat /\ m = n + k /\ i \in 1..n /\ \A j \in 1..n : u[j] = v[j + k]
  OBVIOUS
<1>2. i + k \in 1..m
  BY <1>1
<1>3. /\ Len(s) = n - 1
      /\ \A j \in 1..(n - 1) : s[j] = IF j < i THEN u[j] ELSE u[j + 1]
  BY WithoutAtIs
<1>4. /\ Len(t) = m - 1
      /\ \A j \in 1..(m - 1) : t[j] = IF j < i + k THEN v[j] ELSE v[j + 1]
  BY <1>2, WithoutAtIs
<1> HIDE DEF n, m, s, t
<1>5. ASSUME NEW j \in 1..(n - 1) PROVE s[j] = t[j + k]
  <2>1. j + k \in 1..(m - 1) /\ j \in 1..n /\ j + 1 \in 1..n /\ (j + 1) + k = (j + k) + 1
    BY <1>1
  <2>2. CASE j < i
    <3>1. j + k < i + k
      BY <1>1, <2>2
    <3>2. QED BY <1>1, <1>3, <1>4, <2>1, <2>2, <3>1
  <2>3. CASE ~(j < i)
    <3>1. ~(j + k < i + k)
      BY <1>1, <2>3
    <3>2. QED BY <1>1, <1>3, <1>4, <2>1, <2>3, <3>1
  <2>4. QED BY <2>2, <2>3
<1>6. Len(t) = Len(s) + k
  BY <1>1, <1>3, <1>4
<1>7. EndOf(s, t)
  BY <1>3, <1>5, <1>6 DEF EndOf
<1>8. QED BY <1>7 DEF s, t

\* The same command, where it applies, makes boards that show the same.
LEMMA LikeDrawn ==
  ASSUME NEW d \in Docs, NEW c \in Docs, Like(d, c), NEW e, IsCommand(e), NEW owner,
         Verdict(d, e, owner) = "applied"
  PROVE  Like(Drawn(d, e), Drawn(c, e))
<1>0. e.kind \in Drawing /\ e.id \in Ids
  BY DEF IsCommand
<1>1. /\ c.undo \in Seq(Ids) /\ d.undo \in Seq(Ids)
      /\ d.on = c.on /\ d.epoch = c.epoch /\ EndOf(d.undo, c.undo)
  BY DocFields DEF Like
<1>2. Drawn(d, e).epoch = Drawn(c, e).epoch
  BY <1>1, DrawnType
<1>3. CASE e.kind = "add"
  <2>1. /\ Drawn(d, e).on = d.on \cup {e.id} /\ Drawn(d, e).undo = Append(d.undo, e.id)
        /\ Drawn(c, e).on = c.on \cup {e.id} /\ Drawn(c, e).undo = Append(c.undo, e.id)
    BY <1>3, DrawnOn
  <2>2. EndOf(Append(d.undo, e.id), Append(c.undo, e.id))
    BY <1>0, <1>1, EndOfAppend
  <2>3. QED BY <1>1, <1>2, <2>1, <2>2 DEF Like
<1>4. CASE e.kind = "undo"
  <2> DEFINE i == LastOf(Undoable(d, e.id[1]))
             l == LastOf(Undoable(c, e.id[1]))
  <2>1. Undoable(d, e.id[1]) # {}
    BY <1>4 DEF Verdict
  <2>2. PICK k \in Nat : /\ Len(c.undo) = Len(d.undo) + k
                         /\ \A j \in 1..Len(d.undo) : d.undo[j] = c.undo[j + k]
    BY <1>1 DEF EndOf
  <2>3. Undoable(c, e.id[1]) # {} /\ l = i + k
    BY <1>1, <2>1, <2>2, SameUndo
  <2>4. i \in 1..Len(d.undo)
    BY <2>1, UndoableIn
  <2>5. /\ Drawn(d, e).on = d.on \ {d.undo[i]} /\ Drawn(d, e).undo = WithoutAt(d.undo, i)
        /\ Drawn(c, e).on = c.on \ {c.undo[l]} /\ Drawn(c, e).undo = WithoutAt(c.undo, l)
    BY <1>4, <2>1, <2>3, DrawnOn
  <2> HIDE DEF i, l
  <2>6. EndOf(WithoutAt(d.undo, i), WithoutAt(c.undo, i + k))
    BY <1>1, <2>2, <2>4, EndOfWithout
  <2>7. d.undo[i] = c.undo[l]
    BY <2>2, <2>3, <2>4
  <2>8. QED BY <1>1, <1>2, <2>3, <2>5, <2>6, <2>7 DEF Like
<1>5. CASE e.kind = "clear"
  <2>1. /\ Drawn(d, e).on = {} /\ Drawn(d, e).undo = <<>>
        /\ Drawn(c, e).on = {} /\ Drawn(c, e).undo = <<>>
    BY <1>5, DrawnOn
  <2>2. Len(<<>>) = 0 /\ 1..0 = {} /\ 0 = 0 + 0 /\ 0 \in Nat
    OBVIOUS
  <2>3. EndOf(<<>>, <<>>)
    BY <2>2 DEF EndOf
  <2>4. QED BY <1>2, <2>1, <2>3 DEF Like
<1>6. QED BY <1>0, <1>3, <1>4, <1>5 DEF Drawing

-----------------------------------------------------------------------------
(* The content of the boards *)

\* No participant has become the host a second time.
NoReturn == \A i, j \in 1..Reign : hosts[i] = hosts[j] => i = j

\* By the number n of the log h, p had been named as the host.
Since(h, p, n) ==
  p = FirstHost \/ \E i \in 1..Len(h) : i <= n /\ h[i].kind = "handoff" /\ h[i].host = p
\* What p says of the number n, it says as the host, and not of a later one.
NotLater(h, p, n) == \A i, j \in 1..Reign : j < i /\ hosts[j] = p => ~Since(h, hosts[i], n)
\* The entry e is in the log.
Recorded(h, e) == e.seq \in 1..Len(h) /\ h[e.seq] = e
\* The command x is among the first n numbers.
Drew(h, n, x) == \E i \in 1..Len(h) : i <= n /\ h[i].kind \in Drawing /\ h[i].id = x
\* A document that shows what the first n numbers make.
Shows(h, n, d, locked) == Like(d, Made(h, n).doc) /\ locked = Made(h, n).locked
\* The command was given in the interaction that its author had seen.
Begun(h, c) == c.seen \in 0..Len(h) /\ c.epoch = Made(h, c.seen).doc.epoch

\* The board b of q: it shows what the log makes as long as q does not wait for
\* a handoff that came after what it has.
BoardTrue(h, q, b) ==
  /\ \A i \in 1..Reign : heard[q] < i => ~Since(h, hosts[i], b.seq)
  /\ b.source = None /\ Since(h, Host(q), b.seq) => Shows(h, b.seq, b.doc, b.locked)
  /\ b.source = None /\ (IsHost(q) \/ b.state = "ready" \/ b.offering) =>
       Since(h, Host(q), b.seq)
  /\ b.state = "ready" => b.source = None
  /\ \A k \in 1..Len(b.log) : Recorded(h, b.log[k]) /\ Since(h, q, b.log[k].seq - 1)
  /\ \A e \in b.known : Recorded(h, e) /\ Since(h, q, e.seq - 1)
  /\ \A x \in b.doc.accepted : Drew(h, b.seq, x)
  /\ \A c \in b.pending : Begun(h, c)

\* What p has sent: it is what the log says.
EntryTrue(h, p, e) == Recorded(h, e) /\ NotLater(h, p, e.seq)
MessageTrue(h, p, m) ==
  /\ m.kind \in {"descriptor", "snapshot"} =>
       /\ m.seq <= Len(h) /\ m.body = Snapshot(Made(h, m.seq).doc)
       /\ m.locked = Made(h, m.seq).locked
       /\ m.host = p => Since(h, p, m.seq) /\ NotLater(h, p, m.seq)
  /\ m.kind = "commit" =>
       m.host = p /\ EntryTrue(h, p, m.entry) /\ Since(h, p, m.entry.seq - 1)
  /\ m.kind = "delta" =>
       /\ m.host = p /\ m.base <= Len(h) /\ Since(h, p, m.base)
       /\ \A k \in 1..Len(m.entries) : EntryTrue(h, p, m.entries[k])
  /\ m.kind = "propose" => Begun(h, m.cmd)

\* The handoffs of the log are to the hosts in turn, and the last host that has
\* been told has handed over.
HandoffsTrue ==
  /\ hosts[1] = FirstHost
  /\ \A k \in 1..Len(history) : history[k].kind = "handoff" =>
       \E j \in 2..Reign : history[k].host = hosts[j] /\ (j = Reign => heard[OldHost] = Reign)
  /\ Reign > 1 /\ heard[OldHost] = Reign => Since(history, NewHost, Len(history))

\* The book has the epoch of every command that was given, the last of which
\* has the number g.
Entered(f, g, c) == c.id[2] <= g /\ c.epoch = f[c.id]
BoardGood(f, g, h, q, b) ==
  /\ \A c \in b.pending : Entered(f, g, c)
  /\ NoReturn /\ b.state # "none" => BoardTrue(h, q, b)
MessageGood(f, g, h, p, m) ==
  /\ m.kind = "propose" => Entered(f, g, m.cmd)
  /\ NoReturn => MessageTrue(h, p, m)
LogGood(f, g, h) == \A i \in 1..Len(h) : h[i].kind \in Drawing => Entered(f, g, h[i])
Good(f, g, h) ==
  /\ LogGood(f, g, h)
  /\ \A q \in Peers : BoardGood(f, g, h, q, board[q])
  /\ \A p, q \in Peers : \A m \in Way(net, p, q) : MessageGood(f, g, h, p, m)

\* The inductive invariant: with DrawnOnce, which makes the followers take the
\* same drawings.
CInv ==
  /\ DrawnOnce
  /\ NoReturn => HandoffsTrue /\ NoStaleGesture
  /\ \E f \in [Ids -> Nat] : Good(f, used.gestures, history)

\* A longer log.
Longer(h, g) == h \in Log /\ g \in Log /\ Len(h) <= Len(g) /\ \A i \in 1..Len(h) : h[i] = g[i]

\* Once a host, always named.
LEMMA SinceMore ==
  ASSUME NEW h \in Log, NEW p, NEW n \in Int, NEW m \in Int, n <= m, Since(h, p, n)
  PROVE  Since(h, p, m)
<1>1. Len(h) \in Nat
  BY DEF Log
<1>2. QED BY <1>1 DEF Since

\* What p says of a number it may say of an earlier one.
LEMMA NotLaterLess ==
  ASSUME NEW h \in Log, NEW p, NEW n \in Int, NEW m \in Int, m <= n, NotLater(h, p, n)
  PROVE  NotLater(h, p, m)
BY SinceMore DEF NotLater

\* What was said of a log holds of a longer one.
LEMMA SinceLonger ==
  ASSUME NEW h, NEW g, Longer(h, g), NEW p, NEW n \in Int, n <= Len(h)
  PROVE  Since(h, p, n) <=> Since(g, p, n)
<1>1. Len(h) \in Nat /\ Len(g) \in Nat /\ Len(h) <= Len(g) /\ \A i \in 1..Len(h) : h[i] = g[i]
  BY DEF Longer, Log
<1>2. QED BY <1>1 DEF Since

\* The other parts of it.
LEMMA LogLonger ==
  ASSUME NEW h, NEW g, Longer(h, g)
  PROVE  /\ \A n \in 0..Len(h) : Made(h, n) = Made(g, n)
         /\ \A e : Recorded(h, e) => Recorded(g, e) /\ e.seq \in Nat /\ e.seq >= 1 /\ e.seq <= Len(h)
         /\ \A n, x : Drew(h, n, x) => Drew(g, n, x)
         /\ \A c : Begun(h, c) => Begun(g, c)
         /\ \A p : \A n \in Int : n <= Len(h) => (NotLater(h, p, n) <=> NotLater(g, p, n))
<1>1. Len(h) \in Nat /\ Len(g) \in Nat /\ Len(h) <= Len(g) /\ \A i \in 1..Len(h) : h[i] = g[i]
  BY DEF Longer, Log
<1>2. \A n \in 0..Len(h) : Made(h, n) = Made(g, n)
  BY <1>1, MadePrefix
<1>3. \A i \in 1..Len(h) : i \in 1..Len(g)
  BY <1>1
<1>4. \A e : Recorded(h, e) => Recorded(g, e) /\ e.seq \in Nat /\ e.seq >= 1 /\ e.seq <= Len(h)
  BY <1>1, <1>3 DEF Recorded
<1>5. \A n, x : Drew(h, n, x) => Drew(g, n, x)
  BY <1>1, <1>3 DEF Drew
<1>6. \A c : Begun(h, c) => Begun(g, c)
  BY <1>1, <1>2 DEF Begun
<1>7. \A p : \A n \in Int : n <= Len(h) => (NotLater(h, p, n) <=> NotLater(g, p, n))
  BY SinceLonger DEF NotLater
<1>8. QED BY <1>2, <1>4, <1>5, <1>6, <1>7

\* A board that was true is true of a longer log.
LEMMA BoardLonger ==
  ASSUME NEW h, NEW g, Longer(h, g), NEW q, NEW b \in Boards, b.seq <= Len(h), BoardTrue(h, q, b)
  PROVE  BoardTrue(g, q, b)
<1>0. b.seq \in Nat /\ b.seq \in Int /\ b.seq \in 0..Len(h) /\ Len(h) \in Nat
  BY BoardFields DEF Longer, Log
<1>1. \A p : Since(h, p, b.seq) <=> Since(g, p, b.seq)
  BY <1>0, SinceLonger
<1>2. Shows(h, b.seq, b.doc, b.locked) => Shows(g, b.seq, b.doc, b.locked)
  BY <1>0, LogLonger DEF Shows
<1>3. \A e : Recorded(h, e) /\ Since(h, q, e.seq - 1) => Recorded(g, e) /\ Since(g, q, e.seq - 1)
  <2>1. TAKE e
  <2>2. HAVE Recorded(h, e) /\ Since(h, q, e.seq - 1)
  <2>3. Recorded(g, e) /\ e.seq \in Nat /\ e.seq <= Len(h)
    BY <2>2, LogLonger
  <2>4. e.seq - 1 \in Int /\ e.seq - 1 <= Len(h)
    BY <1>0, <2>3
  <2>5. QED BY <2>2, <2>3, <2>4, SinceLonger
<1>4. \A x \in b.doc.accepted : Drew(g, b.seq, x)
  BY LogLonger DEF BoardTrue
<1>5. \A c \in b.pending : Begun(g, c)
  BY LogLonger DEF BoardTrue
<1>6. QED BY <1>1, <1>2, <1>3, <1>4, <1>5 DEF BoardTrue

\* A message that was true is true of a longer log.
LEMMA MessageLonger ==
  ASSUME NEW h, NEW g, Longer(h, g), NEW p, NEW m \in Messages, MessageTrue(h, p, m)
  PROVE  MessageTrue(g, p, m)
<1>0. Len(h) \in Nat /\ Len(g) \in Nat /\ Len(h) <= Len(g)
  BY DEF Longer, Log
<1>1. \A e : EntryTrue(h, p, e) => /\ EntryTrue(g, p, e)
                                   /\ Since(h, p, e.seq - 1) => Since(g, p, e.seq - 1)
  <2>1. TAKE e
  <2>2. HAVE EntryTrue(h, p, e)
  <2>3. Recorded(g, e) /\ e.seq \in Nat /\ e.seq <= Len(h) /\ NotLater(h, p, e.seq)
    BY <2>2, LogLonger DEF EntryTrue
  <2>4. e.seq \in Int /\ e.seq - 1 \in Int /\ e.seq - 1 <= Len(h)
    BY <1>0, <2>3
  <2>5. NotLater(g, p, e.seq)
    BY <2>3, <2>4, LogLonger
  <2>6. Since(h, p, e.seq - 1) => Since(g, p, e.seq - 1)
    BY <2>4, SinceLonger
  <2>7. QED BY <2>3, <2>5, <2>6 DEF EntryTrue
<1>2. CASE m.kind \in {"descriptor", "snapshot"}
  <2>1. m.seq \in Nat /\ m.seq <= Len(h)
    BY <1>2, MessageFields DEF Shots, MessageTrue
  <2>2. m.seq \in Int /\ m.seq \in 0..Len(h) /\ m.seq <= Len(g)
    BY <1>0, <2>1
  <2>3. Made(h, m.seq) = Made(g, m.seq) /\ (NotLater(h, p, m.seq) <=> NotLater(g, p, m.seq))
    BY <2>1, <2>2, LogLonger
  <2>4. Since(h, p, m.seq) <=> Since(g, p, m.seq)
    BY <2>1, <2>2, SinceLonger
  <2>5. QED BY <1>2, <2>2, <2>3, <2>4 DEF MessageTrue
<1>3. CASE m.kind = "commit"
  BY <1>1, <1>3 DEF MessageTrue
<1>4. CASE m.kind = "delta"
  <2>1. m.base \in Nat /\ m.base <= Len(h)
    BY <1>4, MessageFields DEF Deltas, MessageTrue
  <2>2. m.base \in Int /\ m.base <= Len(g)
    BY <1>0, <2>1
  <2>3. Since(g, p, m.base)
    BY <1>4, <2>1, <2>2, SinceLonger DEF MessageTrue
  <2>4. QED BY <1>1, <1>4, <2>2, <2>3 DEF MessageTrue
<1>5. CASE m.kind = "propose"
  BY <1>5, LogLonger DEF MessageTrue
<1>6. CASE m.kind \notin {"descriptor", "snapshot", "commit", "delta", "propose"}
  BY <1>6 DEF MessageTrue
<1>7. QED BY <1>2, <1>3, <1>4, <1>5, <1>6

-----------------------------------------------------------------------------
(* Steps that change neither hosts nor the log, and whose boards stay true *)

\* What is under way is true.
NetGood(n, f, g, h) ==
  n \in Nets /\ \A p, q \in Peers : \A m \in Way(n, p, q) : MessageGood(f, g, h, p, m)
\* The book f is that of the present state.
Booked(f) == f \in [Ids -> Nat] /\ DrawnOnce /\ Good(f, used.gestures, history)
NowGood(f, q, b) == BoardGood(f, used.gestures, history, q, b)
Sendable(f, p, m) == m \in Messages /\ MessageGood(f, used.gestures, history, p, m)
NetNow(f, n) == NetGood(n, f, used.gestures, history)
Quietly(f) ==
  /\ hosts' = hosts /\ heard' = heard /\ history' = history /\ used'.gestures = used.gestures
  /\ \A q \in Peers : NowGood(f, q, board'[q])
  /\ NetNow(f, net')

\* They keep the invariant.
LEMMA QuietlyKeeps ==
  ASSUME CInv, NEW f, Booked(f), Quietly(f)
  PROVE  CInv'
<1>1. hosts' = hosts /\ heard' = heard /\ history' = history /\ used'.gestures = used.gestures
  BY DEF Quietly
<1>2. DrawnOnce'
  BY <1>1 DEF CInv, DrawnOnce
<1>3. (NoReturn => HandoffsTrue /\ NoStaleGesture)'
  BY <1>1 DEF CInv, NoReturn, HandoffsTrue, NoStaleGesture, Reign, OldHost, NewHost, Since
<1>4. \A q \in Peers : BoardGood(f, used.gestures, history, q, board[q])'
                       <=> BoardGood(f, used.gestures, history, q, board'[q])
  BY <1>1 DEF BoardGood, BoardTrue, NoReturn, Reign, Since, Host, IsHost
<1>5. \A p, q \in Peers : \A m \in Way(net', p, q) :
        MessageGood(f, used.gestures, history, p, m)' <=> MessageGood(f, used.gestures, history, p, m)
  BY <1>1 DEF MessageGood, MessageTrue, EntryTrue, NotLater, NoReturn, Reign, Since
<1>6. Good(f, used.gestures, history)'
  <2>1. LogGood(f, used.gestures, history)'
    BY <1>1 DEF Booked, Good, LogGood
  <2>2. \A q \in Peers : BoardGood(f, used.gestures, history, q, board[q])'
    BY <1>4 DEF Quietly, NowGood
  <2>3. \A p, q \in Peers : \A m \in Way(net', p, q) : MessageGood(f, used.gestures, history, p, m)'
    BY <1>5 DEF Quietly, NetNow, NetGood
  <2>4. QED BY <2>1, <2>2, <2>3 DEF Good, Way
<1>7. QED BY <1>2, <1>3, <1>6 DEF CInv, Booked

\* What is under way now is true.
LEMMA NetIsNow ==
  ASSUME IInv, NEW f, Booked(f)
  PROVE  NetNow(f, net)
BY DEF IInv, TypeOK, Booked, Good, NetNow, NetGood

\* So it is when the first message has been taken.
LEMMA TakenNow ==
  ASSUME IInv, NEW f, Booked(f), NEW p \in Peers, NEW q \in Peers, net[p][q] # <<>>
  PROVE  NetNow(f, Taken(p, q)) /\ Sendable(f, p, Head1(p, q))
<1>1. NetNow(f, net) /\ net \in Nets
  BY NetIsNow DEF IInv, TypeOK
<1>2. /\ Taken(p, q) \in Nets
      /\ \A a, b \in Peers : Way(Taken(p, q), a, b) \subseteq Way(net, a, b)
  BY <1>1, TakenWay
<1>3. Head1(p, q) \in Way(net, p, q) /\ Head1(p, q) \in Messages
  BY <1>1, FirstOfWay DEF Head1
<1>4. QED BY <1>1, <1>2, <1>3 DEF NetNow, NetGood, Sendable

\* And when one has been sent that is true.
LEMMA SentNow ==
  ASSUME NEW f, NEW n, NetNow(f, n), NEW p \in Peers, NEW D \in SUBSET Peers, NEW m, Sendable(f, p, m)
  PROVE  NetNow(f, Sent(n, p, D, m))
<1>1. /\ n \in Nets /\ m \in Messages /\ MessageGood(f, used.gestures, history, p, m)
      /\ \A a, b \in Peers : \A x \in Way(n, a, b) : MessageGood(f, used.gestures, history, a, x)
  BY DEF NetNow, NetGood, Sendable
<1>2. /\ Sent(n, p, D, m) \in Nets
      /\ \A a, b \in Peers : \A x \in Way(Sent(n, p, D, m), a, b) :
            x \in Way(n, a, b) \/ (a = p /\ b \in D /\ x = m)
  BY <1>1, SentWay
<1>3. QED BY <1>1, <1>2 DEF NetNow, NetGood

\* The same for what is posted whatever the send buffer.
LEMMA PostedNow ==
  ASSUME NEW f, NEW n, NetNow(f, n), NEW p \in Peers, NEW D \in SUBSET Peers, NEW m, Sendable(f, p, m)
  PROVE  NetNow(f, Posted(n, p, D, m))
<1>1. /\ n \in Nets /\ m \in Messages /\ MessageGood(f, used.gestures, history, p, m)
      /\ \A a, b \in Peers : \A x \in Way(n, a, b) : MessageGood(f, used.gestures, history, a, x)
  BY DEF NetNow, NetGood, Sendable
<1>2. /\ Posted(n, p, D, m) \in Nets
      /\ \A a, b \in Peers : \A x \in Way(Posted(n, p, D, m), a, b) :
            x \in Way(n, a, b) \/ (a = p /\ b \in D /\ x = m)
  BY <1>1, PostedWay
<1>3. QED BY <1>1, <1>2 DEF NetNow, NetGood

\* A message that says nothing of the log is true.
LEMMA PlainNow ==
  ASSUME NEW f, NEW p, NEW m \in Messages, m.kind \in {"sync", "reject", "heartbeat", "left", "joined"}
  PROVE  Sendable(f, p, m)
BY DEF Sendable, MessageGood, MessageTrue

\* A request for synchronisation.
LEMMA SyncNow ==
  ASSUME TypeOK, NEW f, NEW n, NetNow(f, n), NEW p \in Peers, NEW b, b.seq \in Nat
  PROVE  NetNow(f, SyncSent(n, p, b))
<1> DEFINE m == [kind |-> "sync", host |-> Host(p), base |-> b.seq]
           D == {IF b.source = None THEN Host(p) ELSE b.source} \cap Others(p)
<1>1. SyncSent(n, p, b) = Sent(n, p, D, m) \/ SyncSent(n, p, b) = n
  BY DEF SyncSent
<1>2. m \in Messages /\ m.kind = "sync"
  BY HostType DEF Messages, Syncs
<1>3. D \in SUBSET Peers
  BY OthersType
<1> HIDE DEF m, D
<1>4. NetNow(f, Sent(n, p, D, m))
  BY <1>2, <1>3, PlainNow, SentNow
<1>5. QED BY <1>1, <1>4

\* A board of which only what it promises has become less.
Weaker(a, b) ==
  /\ b.seq = a.seq /\ b.doc = a.doc /\ b.locked = a.locked /\ b.log = a.log /\ b.known = a.known
  /\ b.source = a.source /\ b.pending \subseteq a.pending
  /\ (b.offering => a.offering) /\ (b.state = "ready" => a.state = "ready")
  /\ (b.state # "none" => a.state # "none")

\* It is still true.
LEMMA WeakerNow ==
  ASSUME NEW f, NEW q, NEW a, NEW b, NowGood(f, q, a), Weaker(a, b)
  PROVE  NowGood(f, q, b)
<1>1. \A c \in b.pending : Entered(f, used.gestures, c)
  BY DEF NowGood, BoardGood, Weaker
<1>2. ASSUME BoardTrue(history, q, a) PROVE BoardTrue(history, q, b)
  BY <1>2 DEF BoardTrue, Weaker
<1>3. QED BY <1>1, <1>2 DEF NowGood, BoardGood, Weaker

\* Boards that are weaker.
LEMMA WeakerTwice == ASSUME NEW a, NEW b, NEW c, Weaker(a, b), Weaker(b, c) PROVE Weaker(a, c)
BY DEF Weaker

\* One that has another state.
LEMMA WeakerState ==
  ASSUME NEW b \in Boards, NEW s \in States \ {"none", "ready"}, b.state # "none"
  PROVE  Weaker(b, [b EXCEPT !.state = s]) /\ [b EXCEPT !.state = s] \in Boards
<1> DEFINE c == [b EXCEPT !.state = s]
<1>1. /\ c \in Boards /\ c.state = s /\ c.seq = b.seq /\ c.doc = b.doc /\ c.source = b.source
      /\ c.offering = b.offering /\ c.log = b.log /\ c.known = b.known /\ c.locked = b.locked
      /\ c.pending = b.pending
  BY DEF Boards
<1> HIDE DEF c
<1>2. Weaker(b, c)
  BY <1>1 DEF Weaker
<1>3. QED BY <1>1, <1>2 DEF c

\* One that has asked for synchronisation.
LEMMA WeakerSync ==
  ASSUME NEW b \in Boards, b.state # "none", NEW p
  PROVE  Weaker(b, SyncAsked(p, b)) /\ SyncAsked(p, b) \in Boards
<1>1. "synchronizing" \in States \ {"none", "ready"}
  BY DEF States
<1>2. Weaker(b, b)
  BY DEF Weaker
<1>3. QED BY <1>1, <1>2, WeakerState DEF SyncAsked

\* One that has got answers.
LEMMA WeakerPending ==
  ASSUME NEW b \in Boards, NEW x \in SUBSET Commands, x \subseteq b.pending
  PROVE  Weaker(b, PendingSet(b, x)) /\ PendingSet(b, x) \in Boards
<1> DEFINE c == PendingSet(b, x)
<1>1. /\ c \in Boards /\ c.state = b.state /\ c.seq = b.seq /\ c.doc = b.doc /\ c.source = b.source
      /\ c.offering = b.offering /\ c.log = b.log /\ c.known = b.known /\ c.locked = b.locked
      /\ c.pending = x
  BY DEF Boards, PendingSet
<1> HIDE DEF c
<1>2. Weaker(b, c)
  BY <1>1 DEF Weaker
<1>3. QED BY <1>1, <1>2 DEF c

\* One that listens to a descriptor or a commit.
LEMMA WeakerListening ==
  ASSUME TypeOK, NEW q \in Peers, NEW m
  PROVE  Weaker(board[q], Listening(q, m)) /\ Listening(q, m) \in Boards
<1> DEFINE c == Listening(q, m)
<1>1. /\ Follower(board[q], c, 0) /\ c.state = board[q].state /\ c.seq = board[q].seq
      /\ c.doc = board[q].doc /\ c.locked = board[q].locked /\ c.pending = board[q].pending
  BY ListeningType
<1> HIDE DEF c
<1>2. Weaker(board[q], c) /\ c \in Boards
  BY <1>1 DEF Weaker, Follower
<1>3. QED BY <1>2 DEF c

\* A step of one board.
LEMMA OneQuiet ==
  ASSUME IInv, NEW f, Booked(f), NEW p \in Peers, NEW b, board' = [board EXCEPT ![p] = b],
         NowGood(f, p, b), hosts' = hosts, heard' = heard, history' = history,
         used'.gestures = used.gestures, NetNow(f, net')
  PROVE  Quietly(f)
<1>1. \A q \in Peers : board'[q] = IF q = p THEN b ELSE board[q]
  BY DEF IInv, TypeOK
<1>2. \A q \in Peers : NowGood(f, q, board[q])
  BY DEF Booked, Good, NowGood
<1>3. QED BY <1>1, <1>2 DEF Quietly

\* A step of no board.
LEMMA NoneQuiet ==
  ASSUME IInv, NEW f, Booked(f), board' = board, hosts' = hosts, heard' = heard,
         history' = history, used' = used, NetNow(f, net')
  PROVE  Quietly(f)
BY DEF Quietly, Booked, Good, NowGood

\* What is said of the boards now.
LEMMA BoardsNow ==
  ASSUME IInv, NEW f, Booked(f), NEW p \in Peers
  PROVE  NowGood(f, p, board[p]) /\ board[p] \in Boards /\ board[p].seq \in Nat
BY BoardFields DEF IInv, TypeOK, Booked, Good, NowGood

-----------------------------------------------------------------------------
(* What the authority says *)

\* Nobody but the last host that p was is named later.
LEMMA HostNotLater ==
  ASSUME TypeOK, NEW p \in Peers, IsHost(p), NoReturn, NEW b \in Boards, BoardTrue(history, p, b)
  PROVE  \A n \in Int : n <= b.seq => NotLater(history, p, n)
<1>0. history \in Log /\ b.seq \in Int
  BY BoardFields DEF TypeOK, Log
<1>1. heard[p] \in 1..Reign /\ hosts[heard[p]] = p
  BY HostType DEF IsHost, Host
<1>2. ASSUME NEW i \in 1..Reign, NEW j \in 1..Reign, j < i, hosts[j] = p
      PROVE  ~Since(history, hosts[i], b.seq)
  <2>1. j = heard[p]
    BY <1>1, <1>2 DEF NoReturn
  <2>2. QED BY <1>2, <2>1 DEF BoardTrue
<1>3. NotLater(history, p, b.seq)
  BY <1>2 DEF NotLater
<1>4. QED BY <1>0, <1>3, NotLaterLess

\* What a board is that waits for nobody.
Told(p) ==
  /\ BoardTrue(history, p, board[p]) /\ Since(history, Host(p), board[p].seq)
  /\ Shows(history, board[p].seq, board[p].doc, board[p].locked)

\* Who has a board that waits for nobody, and is ready, offers it or is the host,
\* has been told.
LEMMA ToldNow ==
  ASSUME IInv, NEW f, Booked(f), NEW p \in Peers, NoReturn, board[p].state # "none",
         board[p].source = None, IsHost(p) \/ board[p].state = "ready" \/ board[p].offering
  PROVE  Told(p)
<1>1. NowGood(f, p, board[p])
  BY BoardsNow
<1>2. BoardTrue(history, p, board[p])
  BY <1>1 DEF NowGood, BoardGood
<1>3. QED BY <1>2 DEF Told, BoardTrue

\* The numbers that a board has are in the log.
LEMMA SeqInLog ==
  ASSUME IInv, NEW p \in Peers
  PROVE  /\ history \in Log /\ Len(history) \in Nat /\ board[p].seq \in Nat
         /\ board[p].seq <= Len(history) /\ board[p].doc \in Docs
BY BoardFields DEF IInv, TypeOK, SeqInv, Log

\* The authority knows the log.
LEMMA AuthorityNow ==
  ASSUME IInv, NEW f, Booked(f), NEW p \in Peers, NoReturn, Leads(p)
  PROVE  /\ Told(p) /\ Host(p) = p /\ Since(history, p, board[p].seq)
         /\ \A n \in Int : n <= board[p].seq => NotLater(history, p, n)
<1>0. TypeOK /\ ChainInv /\ SeatInv
  BY DEF IInv
<1>1. IsHost(p) /\ Host(p) = p /\ board[p].source = None /\ board[p].state # "none"
  BY <1>0, OneLeads DEF Leads, IsHost
<1>2. Told(p)
  BY <1>1, ToldNow
<1>3. board[p] \in Boards
  BY <1>0, BoardsNow
<1>4. QED BY <1>0, <1>1, <1>2, <1>3, HostNotLater DEF Told

\* A descriptor or a snapshot of what is shown.
LEMMA ShotNow ==
  ASSUME NEW f, NEW p, NEW m \in Shots, m \in Messages, m.seq <= Len(history), NEW d \in Docs,
         m.body = Snapshot(d),
         NoReturn => /\ Shows(history, m.seq, d, m.locked)
                     /\ m.host = p => Since(history, p, m.seq) /\ NotLater(history, p, m.seq)
  PROVE  Sendable(f, p, m)
<1>1. m.kind \in {"descriptor", "snapshot"}
  BY DEF Shots
<1>2. ASSUME NoReturn PROVE MessageTrue(history, p, m)
  <2>1. Snapshot(d) = Snapshot(Made(history, m.seq).doc) /\ m.locked = Made(history, m.seq).locked
    BY <1>2 DEF Shows, Like, Snapshot
  <2>2. QED BY <1>1, <1>2, <2>1 DEF MessageTrue
<1>3. QED BY <1>1, <1>2 DEF Sendable, MessageGood

\* What the authority says of its board.
LEMMA AuthorityShot ==
  ASSUME IInv, NEW f, Booked(f), NEW p \in Peers, Leads(p), NEW m \in Shots, m \in Messages,
         m.seq = board[p].seq, m.body = Snapshot(board[p].doc), m.locked = board[p].locked
  PROVE  Sendable(f, p, m)
<1>1. board[p].seq \in Int /\ board[p].seq <= Len(history) /\ board[p].doc \in Docs
      /\ board[p].seq <= board[p].seq
  BY SeqInLog
<1>2. NoReturn => /\ Shows(history, m.seq, board[p].doc, m.locked)
                  /\ Since(history, p, m.seq) /\ NotLater(history, p, m.seq)
  BY <1>1, AuthorityNow DEF Told
<1>3. QED BY <1>1, <1>2, ShotNow

-----------------------------------------------------------------------------
(* What happens without a message *)

\* A heartbeat.
LEMMA HeartbeatQuiet ==
  ASSUME IInv, NEW f, Booked(f), NEW p \in Peers, Heartbeat(p)
  PROVE  Quietly(f)
<1>0. TypeOK
  BY DEF IInv
<1>1. PICK q \in Others(p) :
        /\ net' = Sent(net, p, {q}, [kind |-> "heartbeat", host |-> p, seq |-> board[p].seq])
        /\ board' = board /\ hosts' = hosts /\ heard' = heard /\ history' = history /\ used' = used
  BY DEF Heartbeat
<1> DEFINE m == [kind |-> "heartbeat", host |-> p, seq |-> board[p].seq]
<1>2. m \in Messages /\ m.kind = "heartbeat"
  BY <1>0, BoardFields DEF Messages, Heartbeats, TypeOK
<1>3. {q} \in SUBSET Peers
  BY <1>1, OthersType
<1> HIDE DEF m
<1>4. NetNow(f, net')
  <2>1. net' = Sent(net, p, {q}, m)
    BY <1>1 DEF m
  <2>2. QED BY <1>2, <1>3, <2>1, PlainNow, NetIsNow, SentNow
<1>5. QED BY <1>1, <1>4, NoneQuiet

\* A proposal that is pending.
LEMMA ProposalNow ==
  ASSUME IInv, NEW f, Booked(f), NEW p \in Peers, board[p].state # "none", NEW c \in board[p].pending,
         NEW m \in Messages, m.kind = "propose", m.cmd = c
  PROVE  Sendable(f, p, m)
<1>1. NowGood(f, p, board[p])
  BY BoardsNow
<1>2. Entered(f, used.gestures, c) /\ (NoReturn => Begun(history, c))
  BY <1>1 DEF NowGood, BoardGood, BoardTrue
<1>3. QED BY <1>2 DEF Sendable, MessageGood, MessageTrue

\* A proposal that is sent again.
LEMMA ResendQuiet ==
  ASSUME IInv, NEW f, Booked(f), NEW p \in Peers, Resend(p)
  PROVE  Quietly(f)
<1>0. TypeOK
  BY DEF IInv
<1> DEFINE h == {Host(p)} \cap Others(p)
           b == [board[p] EXCEPT !.state = "readonly"]
<1>1. PICK c \in board[p].pending :
        /\ board[p].state = "ready"
        /\ board' = [board EXCEPT ![p].state = IF Full(net, p, h) THEN "readonly" ELSE @]
        /\ net' = Sent(net, p, h, [kind |-> "propose", host |-> Host(p), cmd |-> c])
        /\ hosts' = hosts /\ heard' = heard /\ history' = history /\ used' = used
  BY DEF Resend
<1> DEFINE m == [kind |-> "propose", host |-> Host(p), cmd |-> c]
<1>2. m \in Messages /\ m.kind = "propose" /\ m.cmd = c
  <2>1. c \in Commands
    BY <1>0, <1>1, BoardFields DEF TypeOK
  <2>2. QED BY <1>0, <2>1, HostType DEF Messages, Proposals
<1>3. h \in SUBSET Peers
  BY OthersType
<1> HIDE DEF m
<1>4. net' = Sent(net, p, h, m)
  BY <1>1 DEF m
<1> HIDE DEF h
<1>5. Sendable(f, p, m)
  BY <1>1, <1>2, ProposalNow
<1>6. NetNow(f, net')
  BY <1>3, <1>4, <1>5, NetIsNow, SentNow
<1>7. board' = [board EXCEPT ![p] = b] \/ board' = board
  <2>1. board' = [board EXCEPT ![p].state = "readonly"]
        \/ board' = [board EXCEPT ![p].state = board[p].state]
    BY <1>1
  <2>2. [board EXCEPT ![p].state = board[p].state] = board
    BY <1>0 DEF TypeOK, Boards
  <2>3. [board EXCEPT ![p].state = "readonly"] = [board EXCEPT ![p] = b]
    BY <1>0 DEF TypeOK
  <2>4. QED BY <2>1, <2>2, <2>3
<1>8. NowGood(f, p, b)
  <2>1. "readonly" \in States \ {"none", "ready"}
    BY DEF States
  <2>2. Weaker(board[p], b)
    BY <1>1, <2>1, BoardsNow, WeakerState
  <2>3. QED BY <2>2, BoardsNow, WeakerNow
<1> HIDE DEF b
<1>9. CASE board' = [board EXCEPT ![p] = b]
  BY <1>1, <1>6, <1>8, <1>9, OneQuiet
<1>10. CASE board' = board
  BY <1>1, <1>6, <1>10, NoneQuiet
<1>11. QED BY <1>7, <1>9, <1>10

\* Asking again for what was not sent.
LEMMA SyncTickQuiet ==
  ASSUME IInv, NEW f, Booked(f), NEW p \in Peers, SyncTick(p)
  PROVE  Quietly(f)
<1>0. TypeOK
  BY DEF IInv
<1>1. /\ board[p].state # "none"
      /\ board' = [board EXCEPT ![p] = SyncAsked(p, board[p])]
      /\ net' = SyncSent(net, p, board[p])
      /\ hosts' = hosts /\ heard' = heard /\ history' = history /\ used' = used
  <2>1. board[p].state # "none"
    <3>1. None \notin Peers /\ (board[p].state = "none" => board[p] = Closed)
      BY BoardAssumption DEF IInv, SeatInv
    <3>2. QED BY <3>1 DEF SyncTick, Closed
  <2>2. QED BY <2>1 DEF SyncTick
<1>2. board[p] \in Boards /\ board[p].seq \in Nat /\ NowGood(f, p, board[p])
  BY BoardsNow
<1>3. NetNow(f, net')
  BY <1>0, <1>1, <1>2, NetIsNow, SyncNow
<1>4. NowGood(f, p, SyncAsked(p, board[p]))
  BY <1>1, <1>2, WeakerSync, WeakerNow
<1>5. QED BY <1>1, <1>3, <1>4, OneQuiet

\* The silence of the authority.
LEMMA TimesOutQuiet ==
  ASSUME IInv, NEW f, Booked(f), NEW p \in Peers, TimesOut(p)
  PROVE  Quietly(f)
<1>0. TypeOK
  BY DEF IInv
<1> DEFINE b == [board[p] EXCEPT !.state = "readonly"]
<1>1. /\ board[p].state # "none" /\ board' = [board EXCEPT ![p] = b] /\ net' = net
      /\ hosts' = hosts /\ heard' = heard /\ history' = history /\ used' = used
  BY <1>0 DEF TimesOut, TypeOK
<1>2. NowGood(f, p, b)
  <2>1. "readonly" \in States \ {"none", "ready"}
    BY DEF States
  <2>2. Weaker(board[p], b)
    BY <1>1, <2>1, BoardsNow, WeakerState
  <2>3. QED BY <2>2, BoardsNow, WeakerNow
<1> HIDE DEF b
<1>3. NetNow(f, net')
  BY <1>1, NetIsNow
<1>4. QED BY <1>1, <1>2, <1>3, OneQuiet

\* A connection breaks.
LEMMA TransportDownQuiet ==
  ASSUME IInv, NEW f, Booked(f), NEW p \in Peers, TransportDown(p)
  PROVE  Quietly(f)
<1> DEFINE s == IF board[p].state = "frozen" THEN "frozen" ELSE "readonly"
           b == UpSet(board[p], FALSE, s)
<1>0. TypeOK
  BY DEF IInv
<1>1. /\ board[p].state # "none" /\ board' = [board EXCEPT ![p] = b]
      /\ hosts' = hosts /\ heard' = heard /\ history' = history /\ net' = net
      /\ used' = [used EXCEPT !.breaks = @ + 1]
  <2>1. board' = [board EXCEPT ![p].up = FALSE, ![p].state = IF @ = "frozen" THEN @ ELSE "readonly"]
    BY DEF TransportDown
  <2>2. board' = [board EXCEPT ![p] = b]
    BY <1>0, <2>1 DEF TypeOK, Boards, UpSet
  <2>3. QED BY <2>2 DEF TransportDown
<1>2. s \in States \ {"none", "ready"}
  BY DEF States
<1> HIDE DEF s
<1>3. NowGood(f, p, b)
  <2>1. board[p] \in Boards /\ NowGood(f, p, board[p])
    BY BoardsNow
  <2>2. /\ b.state = s /\ b.seq = board[p].seq /\ b.doc = board[p].doc /\ b.source = board[p].source
        /\ b.offering = board[p].offering /\ b.log = board[p].log /\ b.known = board[p].known
        /\ b.locked = board[p].locked /\ b.pending = board[p].pending
    BY <2>1 DEF Boards, UpSet
  <2> HIDE DEF b
  <2>3. Weaker(board[p], b)
    BY <1>1, <1>2, <2>2 DEF Weaker
  <2>4. QED BY <2>1, <2>3, WeakerNow
<1> HIDE DEF b
<1>4. used'.gestures = used.gestures
  BY <1>0, <1>1 DEF TypeOK, Counts
<1>5. NetNow(f, net')
  BY <1>1, NetIsNow
<1>6. QED BY <1>1, <1>3, <1>4, <1>5, OneQuiet

\* What was under way of a connection that could not be resumed is lost.
LEMMA LostNow ==
  ASSUME NEW f, NEW n, NetNow(f, n), NEW p \in Peers
  PROVE  NetNow(f, Rejoined(Lost(n, p), p))
<1> DEFINE l == Lost(n, p)
           r == Rejoined(l, p)
           left == [kind |-> "left"]
           joined == [kind |-> "joined"]
           Hit(a, b) == p \in {a, b} /\ a # b /\ {a, b} \ {p} \subseteq Others(p)
           True1(a, m) == MessageGood(f, used.gestures, history, a, m)
<1>0. n \in Nets /\ \A a, b \in Peers : \A m \in Way(n, a, b) : True1(a, m)
  BY DEF NetNow, NetGood
<1>1. left \in Messages /\ joined \in Messages /\ \A a : True1(a, left) /\ True1(a, joined)
  <2>1. left \in Messages /\ joined \in Messages /\ left.kind = "left" /\ joined.kind = "joined"
    BY DEF Messages, Notices
  <2> HIDE DEF left, joined
  <2>2. QED BY <2>1, PlainNow DEF Sendable
<1> HIDE DEF left, joined
<1>2. \A a, b \in Peers : l[a][b] = IF Hit(a, b) THEN <<left>> ELSE n[a][b]
  BY DEF Lost, left
<1>3. \A a, b \in Peers : r[a][b] = IF Hit(a, b) THEN Append(l[a][b], joined) ELSE l[a][b]
  BY DEF Rejoined, joined
<1> HIDE DEF Hit, True1
<1> DEFINE two == Append(<<left>>, joined)
<1>4. \A a, b \in Peers : r[a][b] = IF Hit(a, b) THEN two ELSE n[a][b]
  BY <1>2, <1>3
<1>10. two \in Seq(Messages) /\ \A k \in 1..Len(two) : two[k] \in {left, joined}
  BY <1>1, TwoInARow
<1> HIDE DEF two
<1>5. r = [a \in Peers |-> [b \in Peers |-> r[a][b]]]
  BY DEF Rejoined
<1> HIDE DEF r, l
<1>6. \A a, b \in Peers : r[a][b] \in Seq(Messages)
  <2>2. \A a, b \in Peers : n[a][b] \in Seq(Messages)
    BY <1>0 DEF Nets
  <2>3. QED BY <1>4, <1>10, <2>2
<1>7. r \in Nets
  BY <1>5, <1>6 DEF Nets
<1>8. ASSUME NEW a \in Peers, NEW b \in Peers, NEW m \in Way(r, a, b)
      PROVE  True1(a, m)
  <2>1. CASE Hit(a, b)
    <3>1. r[a][b] = two
      BY <1>4, <2>1
    <3>2. m = left \/ m = joined
      BY <1>8, <1>10, <3>1 DEF Way
    <3>3. QED BY <1>1, <3>2
  <2>2. CASE ~Hit(a, b)
    <3>1. r[a][b] = n[a][b]
      BY <1>4, <2>2
    <3>2. m \in Way(n, a, b)
      BY <1>8, <3>1 DEF Way
    <3>3. QED BY <1>0, <3>2
  <2>3. QED BY <2>1, <2>2
<1>9. NetNow(f, r)
  BY <1>7, <1>8 DEF NetNow, NetGood, True1
<1>11. QED BY <1>9 DEF r, l

\* The greetings are true if each of them is.
LEMMA GreetingNow ==
  ASSUME NEW f, NEW n, NetNow(f, n), NEW p \in Peers, NEW D \in SUBSET Peers, NEW m, Sendable(f, p, m)
  PROVE  NetNow(f, Greeted(n, p, D, m))
<1> DEFINE E == {q \in D : Len(n[p][q]) < Cap}
<1>1. Greeted(n, p, D, m) = Posted(n, p, E, m)
  BY DEF Posted, Greeted
<1>2. E \in SUBSET Peers
  OBVIOUS
<1> HIDE DEF E
<1>3. NetNow(f, Posted(n, p, E, m))
  BY <1>2, PostedNow
<1>4. QED BY <1>1, <1>3

\* The connection is back: who leads has what the log makes, the others ask.
LEMMA TransportUpQuiet ==
  ASSUME IInv, NEW f, Booked(f), NEW p \in Peers, TransportUp(p)
  PROVE  Quietly(f)
<1> DEFINE b == Raised(p)
           s == RaisedState(p)
           c == UpSet(board[p], TRUE, s)
           d == Descriptor(p, b)
           k == RaisedSync(p)
           D == Others(p)
           R == {Recovery(p)} \cap Others(p)
<1>0. TypeOK
  BY DEF IInv
<1>1. /\ b \in Boards /\ b.seq = board[p].seq /\ b.state = board[p].state /\ b.doc = board[p].doc
      /\ b.locked = board[p].locked
      /\ board[p].state # "none" /\ board' = [board EXCEPT ![p] = c]
      /\ hosts' = hosts /\ heard' = heard /\ history' = history /\ used' = used
  BY <1>0, TransportUpIs
<1>2. PICK n \in {net, Rejoined(Lost(net, p), p)} :
         \/ net' = n
         \/ Leads(p) /\ net' = Greeted(n, p, D, d)
         \/ net' = Greeted(n, p, R, k)
  BY <1>0, TransportUpIs
<1>3. NetNow(f, n)
  BY <1>2, NetIsNow, LostNow
<1>4. D \in SUBSET Peers /\ R \in SUBSET Peers
  BY OthersType
<1>5. Sendable(f, p, k)
  <2>1. board[p].seq \in Nat
    BY BoardsNow
  <2>2. k \in Messages /\ k.kind = "sync"
    BY <1>0, <2>1, HostType DEF Messages, Syncs, RaisedSync
  <2>3. QED BY <2>2, PlainNow
<1>6. Leads(p) => Sendable(f, p, d)
  <2>1. d \in Shots /\ d \in Messages /\ d.seq = board[p].seq /\ d.body = Snapshot(board[p].doc)
        /\ d.locked = board[p].locked
    BY <1>0, <1>1, DescriptorOK
  <2>2. QED BY <2>1, AuthorityShot
<1> HIDE DEF d, k, D, R
<1>7. NetNow(f, net')
  BY <1>2, <1>3, <1>4, <1>5, <1>6, GreetingNow
<1>8. /\ c.state = s /\ c.seq = board[p].seq /\ c.doc = board[p].doc /\ c.source = board[p].source
      /\ c.offering = board[p].offering /\ c.log = board[p].log /\ c.known = board[p].known
      /\ c.locked = board[p].locked /\ c.pending = board[p].pending
  BY <1>0 DEF UpSet, TypeOK, Boards
<1>9. s = "ready" => Leads(p)
  BY DEF RaisedState
<1> HIDE DEF s, c
<1>10. NowGood(f, p, c)
  <2>1. NowGood(f, p, board[p])
    BY BoardsNow
  <2>2. \A x \in c.pending : Entered(f, used.gestures, x)
    BY <1>8, <2>1 DEF NowGood, BoardGood
  <2>3. ASSUME NoReturn PROVE BoardTrue(history, p, c)
    <3>1. BoardTrue(history, p, board[p])
      BY <1>1, <2>1, <2>3 DEF NowGood, BoardGood
    <3>2. c.state = "ready" => c.source = None /\ Since(history, Host(p), c.seq)
      BY <1>8, <1>9, <2>3, AuthorityNow DEF Leads
    <3>3. QED BY <1>8, <3>1, <3>2 DEF BoardTrue
  <2>4. QED BY <2>2, <2>3 DEF NowGood, BoardGood
<1>11. QED BY <1>1, <1>7, <1>10, OneQuiet

-----------------------------------------------------------------------------
(* Messages that are answered, dropped, or tell nothing of the log *)

\* The old host hands its board over once more.
LEMMA ServeSuccessorQuiet ==
  ASSUME IInv, NEW f, Booked(f), NEW p \in Peers, NEW q \in Peers, ServeSuccessor(p, q)
  PROVE  Quietly(f)
<1>0. TypeOK /\ SeqInv /\ SeatInv
  BY DEF IInv
<1> DEFINE m == SnapshotOf(Host(q), board[q])
<1>1. /\ net[p][q] # <<>> /\ board[q].offering /\ board[q].state # "none" /\ p = Host(q)
      /\ net' = Sent(Taken(p, q), q, {p} \cap Others(q), m)
      /\ board' = board /\ hosts' = hosts /\ heard' = heard /\ history' = history /\ used' = used
  BY DEF ServeSuccessor, Arrived, Offers, Heeds
<1>2. Host(q) \in Peers
  BY <1>0, HostType
<1>3. /\ m \in Shots /\ m \in Messages /\ m.host = Host(q) /\ m.seq = board[q].seq
      /\ m.body = Snapshot(board[q].doc) /\ m.locked = board[q].locked
  BY <1>0, <1>2, SnapshotOK
<1> HIDE DEF m
<1>4. ~IsHost(q)
  BY <1>0, <1>1 DEF SeqInv, Offered
<1>5. board[q].source = None
  BY <1>0, <1>4, HostType DEF SeatInv, IsHost, Host, NewHost, Reign
<1>6. NoReturn => Shows(history, m.seq, board[q].doc, m.locked)
  BY <1>1, <1>3, <1>5, ToldNow DEF Told
<1>7. board[q].doc \in Docs /\ m.seq <= Len(history) /\ m.host # q
  BY <1>3, <1>4, SeqInLog DEF IsHost
<1>8. Sendable(f, q, m)
  BY <1>3, <1>6, <1>7, ShotNow
<1>9. {p} \cap Others(q) \in SUBSET Peers
  OBVIOUS
<1>10. NetNow(f, net')
  BY <1>1, <1>8, <1>9, TakenNow, SentNow
<1>11. QED BY <1>1, <1>10, NoneQuiet

\* What is dropped.
LEMMA IgnoreQuiet ==
  ASSUME IInv, NEW f, Booked(f), NEW p \in Peers, NEW q \in Peers, Ignore(p, q)
  PROVE  Quietly(f)
<1>1. /\ net[p][q] # <<>> /\ net' = Taken(p, q)
      /\ board' = board /\ hosts' = hosts /\ heard' = heard /\ history' = history /\ used' = used
  BY DEF Ignore, Arrived
<1>2. NetNow(f, net')
  BY <1>1, TakenNow
<1>3. QED BY <1>1, <1>2, NoneQuiet

\* What a follower is sent.
LEMMA RecoveringNow ==
  ASSUME IInv, NEW f, Booked(f), NEW q \in Peers, Leads(q), NEW base \in Nat
  PROVE  Sendable(f, q, Recovering(q, base))
<1> DEFINE b == board[q]
           m == Recovering(q, base)
<1>0. TypeOK /\ SeqInv
  BY DEF IInv
<1>1. b \in Boards /\ b.seq \in Nat /\ b.seq <= Len(history) /\ history \in Log /\ Len(history) \in Nat
      /\ b.log \in Seq(Entries)
  BY BoardsNow, SeqInLog, BoardFields
<1>2. CASE b.log # <<>> /\ base + 1 >= Head(b.log).seq /\ base < b.seq
  <2> DEFINE l == LogTail(b, base)
  <2>1. m = [kind |-> "delta", host |-> q, base |-> base, entries |-> l]
    BY <1>2 DEF Recovering
  <2>2. l \in Seq(Entries) /\ \A k \in 1..Len(l) : \E i \in 1..Len(b.log) : l[k] = b.log[i]
    BY <1>1, <1>2, LogTailType
  <2> HIDE DEF l
  <2>3. m \in Messages /\ m.kind = "delta" /\ m.host = q /\ m.base = base /\ m.entries = l
    BY <2>1, <2>2 DEF Messages, Deltas
  <2>4. ASSUME NoReturn PROVE MessageTrue(history, q, m)
    <3>1. /\ BoardTrue(history, q, b)
          /\ \A n \in Int : n <= b.seq => NotLater(history, q, n)
      BY <2>4, AuthorityNow DEF Told
    <3>2. \A k \in 1..Len(b.log) :
             /\ Recorded(history, b.log[k]) /\ Since(history, q, b.log[k].seq - 1)
             /\ b.log[k].seq \in Nat /\ b.log[k].seq <= b.seq
      BY <1>0, <1>1, <3>1, EntryFields DEF BoardTrue, SeqInv
    <3>3. Head(b.log) = b.log[1] /\ 1 \in 1..Len(b.log)
      BY <1>1, <1>2
    <3>4. Since(history, q, base)
      <4>1. Head(b.log).seq - 1 \in Int /\ base \in Int /\ Head(b.log).seq - 1 <= base
        BY <1>2, <3>2, <3>3
      <4>2. QED BY <1>1, <3>2, <3>3, <4>1, SinceMore
    <3>5. \A k \in 1..Len(l) : EntryTrue(history, q, l[k])
      <4>1. TAKE k \in 1..Len(l)
      <4>2. PICK i \in 1..Len(b.log) : l[k] = b.log[i]
        BY <2>2
      <4>3. b.log[i].seq \in Int /\ b.log[i].seq <= b.seq /\ Recorded(history, b.log[i])
        BY <3>2
      <4>4. NotLater(history, q, b.log[i].seq)
        BY <3>1, <4>3
      <4>5. QED BY <4>2, <4>3, <4>4 DEF EntryTrue
    <3>6. base <= Len(history)
      BY <1>1, <1>2
    <3> HIDE DEF m
    <3>7. QED BY <2>3, <3>4, <3>5, <3>6 DEF MessageTrue
  <2> HIDE DEF m
  <2>5. QED BY <2>3, <2>4 DEF Sendable, MessageGood, m
<1>3. CASE ~(b.log # <<>> /\ base + 1 >= Head(b.log).seq /\ base < b.seq)
  <2>1. m = SnapshotOf(q, b)
    BY <1>3 DEF Recovering
  <2>2. /\ m \in Shots /\ m \in Messages /\ m.seq = board[q].seq
        /\ m.body = Snapshot(board[q].doc) /\ m.locked = board[q].locked
    BY <1>0, <2>1, SnapshotOK
  <2>3. QED BY <2>2, AuthorityShot
<1>4. QED BY <1>2, <1>3

\* A follower asks the authority.
LEMMA ServeFollowerQuiet ==
  ASSUME IInv, NEW f, Booked(f), NEW p \in Peers, NEW q \in Peers, ServeFollower(p, q)
  PROVE  Quietly(f)
<1>0. TypeOK
  BY DEF IInv
<1> DEFINE m == Head1(p, q)
           D == {p} \cap Others(q)
           d == Descriptor(q, board[q])
           n == Sent(Taken(p, q), q, D, d)
           r == Recovering(q, m.base)
<1>1. /\ net[p][q] # <<>> /\ m.kind = "sync" /\ Leads(q)
      /\ net' = n \/ net' = Sent(n, q, D, r)
      /\ board' = board /\ hosts' = hosts /\ heard' = heard /\ history' = history /\ used' = used
  BY DEF ServeFollower, Arrived
<1>2. NetNow(f, Taken(p, q)) /\ m \in Messages
  BY <1>1, TakenNow DEF Sendable
<1>3. m.base \in Nat
  BY <1>1, <1>2, MessageFields DEF Syncs
<1> HIDE DEF m
<1>4. Sendable(f, q, d)
  <2>1. /\ d \in Shots /\ d \in Messages /\ d.seq = board[q].seq
        /\ d.body = Snapshot(board[q].doc) /\ d.locked = board[q].locked
    BY <1>0, BoardsNow, DescriptorOK
  <2> HIDE DEF d
  <2>2. QED BY <1>1, <2>1, AuthorityShot
<1>5. Sendable(f, q, r)
  BY <1>1, <1>3, RecoveringNow
<1>6. D \in SUBSET Peers
  OBVIOUS
<1> HIDE DEF d, r, D
<1>7. NetNow(f, n)
  BY <1>2, <1>4, <1>6, SentNow
<1> HIDE DEF n
<1>8. NetNow(f, net')
  BY <1>1, <1>5, <1>6, <1>7, SentNow
<1>9. QED BY <1>1, <1>8, NoneQuiet

\* A heartbeat may show that commits are missing.
LEMMA FollowHeartbeatQuiet ==
  ASSUME IInv, NEW f, Booked(f), NEW p \in Peers, NEW q \in Peers, FollowHeartbeat(p, q)
  PROVE  Quietly(f)
<1> DEFINE m == Head1(p, q)
           b == board[q]
           behind == m.seq > b.seq \/ b.state \in {"readonly", "synchronizing"}
<1>0. TypeOK
  BY DEF IInv
<1>1. /\ net[p][q] # <<>> /\ b.state # "none"
      /\ board' = IF behind THEN [board EXCEPT ![q] = SyncAsked(q, b)] ELSE board
      /\ net' = IF behind THEN SyncSent(Taken(p, q), q, b) ELSE Taken(p, q)
      /\ hosts' = hosts /\ heard' = heard /\ history' = history /\ used' = used
  BY DEF FollowHeartbeat, Arrived, Heeds
<1>2. b \in Boards /\ NowGood(f, q, b) /\ b.seq \in Nat
  BY BoardsNow
<1>3. NetNow(f, Taken(p, q)) /\ NetNow(f, SyncSent(Taken(p, q), q, b))
  BY <1>0, <1>1, <1>2, TakenNow, SyncNow
<1> HIDE DEF m
<1>4. CASE behind
  <2>1. NowGood(f, q, SyncAsked(q, b))
    BY <1>1, <1>2, WeakerSync, WeakerNow
  <2>2. QED BY <1>1, <1>3, <1>4, <2>1, OneQuiet
<1>5. CASE ~behind
  BY <1>1, <1>3, <1>5, NoneQuiet
<1>6. QED BY <1>4, <1>5

\* A rejection ends a proposal.
LEMMA FollowRejectQuiet ==
  ASSUME IInv, NEW f, Booked(f), NEW p \in Peers, NEW q \in Peers, FollowReject(p, q)
  PROVE  Quietly(f)
<1> DEFINE m == Head1(p, q)
           x == {c \in board[q].pending : c.id # m.id}
<1>0. TypeOK
  BY DEF IInv
<1>1. /\ net[p][q] # <<>>
      /\ board' = [board EXCEPT ![q] = PendingSet(board[q], x)] /\ net' = Taken(p, q)
      /\ hosts' = hosts /\ heard' = heard /\ history' = history /\ used' = used
  BY <1>0 DEF FollowReject, Arrived, TypeOK, PendingSet
<1>2. board[q] \in Boards /\ NowGood(f, q, board[q])
  BY BoardsNow
<1>3. x \in SUBSET Commands /\ x \subseteq board[q].pending
  BY <1>2, BoardFields
<1>4. NetNow(f, net')
  BY <1>1, TakenNow
<1> HIDE DEF x
<1>5. NowGood(f, q, PendingSet(board[q], x))
  BY <1>2, <1>3, WeakerPending, WeakerNow
<1>6. QED BY <1>1, <1>4, <1>5, OneQuiet

\* The authority, or the old one, has left.
LEMMA PeerLeftQuiet ==
  ASSUME IInv, NEW f, Booked(f), NEW p \in Peers, NEW q \in Peers, PeerLeft(p, q)
  PROVE  Quietly(f)
<1> DEFINE b == [board[q] EXCEPT !.state = "frozen"]
<1>0. TypeOK
  BY DEF IInv
<1>1. /\ net[p][q] # <<>>
      /\ (board[q].state # "none" /\ board' = [board EXCEPT ![q] = b]) \/ board' = board
      /\ net' = Taken(p, q)
      /\ hosts' = hosts /\ heard' = heard /\ history' = history /\ used' = used
  BY <1>0 DEF PeerLeft, Arrived, TypeOK
<1>2. NetNow(f, net')
  BY <1>1, TakenNow
<1>3. CASE board[q].state # "none" /\ board' = [board EXCEPT ![q] = b]
  <2>1. "frozen" \in States \ {"none", "ready"}
    BY DEF States
  <2>2. Weaker(board[q], b)
    BY <1>3, <2>1, BoardsNow, WeakerState
  <2>3. NowGood(f, q, b)
    BY <2>2, BoardsNow, WeakerNow
  <2> HIDE DEF b
  <2>4. QED BY <1>1, <1>2, <1>3, <2>3, OneQuiet
<1>4. CASE board' = board
  BY <1>1, <1>2, <1>4, NoneQuiet
<1>5. QED BY <1>1, <1>3, <1>4

\* A newer instance of the authority.
LEMMA ObservePeerQuiet ==
  ASSUME IInv, NEW f, Booked(f), NEW p \in Peers, NEW q \in Peers, ObservePeer(p, q)
  PROVE  Quietly(f)
<1> DEFINE s == IF board[q].up THEN "synchronizing" ELSE "readonly"
           a == PendingSet(board[q], {})
           b == [a EXCEPT !.state = s]
           back == board[q].state = "frozen" /\ p = Recovery(q)
           thawed == [board[q] EXCEPT !.pending = {}, !.state = s]
<1>0. TypeOK
  BY DEF IInv
<1>1. /\ net[p][q] # <<>>
      /\ board' = IF back THEN [board EXCEPT ![q] = thawed] ELSE board
      /\ net' = IF back THEN SyncSent(Taken(p, q), q, thawed) ELSE Taken(p, q)
      /\ hosts' = hosts /\ heard' = heard /\ history' = history /\ used' = used
  BY DEF ObservePeer, Arrived
<1>2. thawed = b
  BY DEF PendingSet
<1>3. s \in States \ {"none", "ready"}
  BY DEF States
<1> HIDE DEF s, thawed
<1>4. CASE back
  <2>1. a \in Boards /\ Weaker(board[q], a) /\ a.state # "none"
    <3>1. {} \in SUBSET Commands /\ {} \subseteq board[q].pending /\ board[q] \in Boards
      BY BoardsNow
    <3>2. a.state = board[q].state
      BY DEF PendingSet
    <3> HIDE DEF a
    <3>3. a \in Boards /\ Weaker(board[q], a)
      BY <3>1, WeakerPending DEF a
    <3>4. QED BY <1>4, <3>2, <3>3
  <2> HIDE DEF a
  <2>2. b \in Boards /\ Weaker(a, b)
    BY <1>3, <2>1, WeakerState
  <2> HIDE DEF b
  <2>3. NowGood(f, q, b) /\ b.seq \in Nat
    BY <2>1, <2>2, BoardsNow, WeakerTwice, WeakerNow, BoardFields
  <2>4. NetNow(f, net')
    BY <1>0, <1>1, <1>2, <1>4, <2>3, TakenNow, SyncNow
  <2>5. QED BY <1>1, <1>2, <1>4, <2>3, <2>4, OneQuiet
<1>5. CASE ~back
  <2>1. NetNow(f, net')
    BY <1>1, <1>5, TakenNow
  <2>2. QED BY <1>1, <1>5, <2>1, NoneQuiet
<1>6. QED BY <1>4, <1>5

-----------------------------------------------------------------------------
(* Following: what the followers' boards show *)

\* A follower's board that shows what the log makes.
FollowerShows(h, q, b) ==
  /\ b.source = None /\ Since(h, Host(q), b.seq) /\ Shows(h, b.seq, b.doc, b.locked)
  /\ \A i \in 1..Reign : heard[q] < i => ~Since(h, hosts[i], b.seq)
  /\ \A x \in b.doc.accepted : Drew(h, b.seq, x)
\* Nothing else of it has changed, but that answers have come.
Answered(a, b) == b.log = a.log /\ b.known = a.known /\ b.pending \subseteq a.pending

\* Such a board is true.
LEMMA FollowerNow ==
  ASSUME NEW f, NEW q, NEW a, NEW b, NowGood(f, q, a), a.state # "none", Answered(a, b),
         NoReturn => FollowerShows(history, q, b)
  PROVE  NowGood(f, q, b)
<1>1. \A c \in b.pending : Entered(f, used.gestures, c)
  BY DEF NowGood, BoardGood, Answered
<1>2. ASSUME NoReturn PROVE BoardTrue(history, q, b)
  <2>1. BoardTrue(history, q, a)
    BY <1>2 DEF NowGood, BoardGood
  <2>2. QED BY <1>2, <2>1 DEF BoardTrue, FollowerShows, Answered
<1>3. QED BY <1>1, <1>2 DEF NowGood, BoardGood

\* No command has two numbers in the log.
Unrepeated(h) == \A i, j \in 1..Len(h) :
  h[i].kind \in Drawing /\ h[j].kind \in Drawing /\ h[i].id = h[j].id => i = j

\* That is DrawnOnce.
LEMMA DrawnOnceIs == DrawnOnce <=> Unrepeated(history)
BY DEF DrawnOnce, Unrepeated, Drawing

\* The next entry makes the next board.
LEMMA NextShows ==
  ASSUME NEW h \in Log, Unrepeated(h), NEW q \in Peers, NEW b \in Boards, FollowerShows(h, q, b),
         NEW e \in Entries, Recorded(h, e),
         \A i \in 1..Reign : heard[q] < i => ~Since(h, hosts[i], e.seq),
         Applies(q, b, e)
  PROVE  /\ FollowerShows(h, q, Applied(q, b, e)) /\ Answered(b, Applied(q, b, e))
         /\ Applied(q, b, e) \in Boards /\ Applied(q, b, e).state = b.state
<1> DEFINE c == Applied(q, b, e)
           n == b.seq
           w == Made(h, n)
<1>0. /\ c \in Boards /\ c.state = b.state /\ c.seq = e.seq /\ e.seq = n + 1 /\ c.source = b.source
      /\ c.doc = AppliedDoc(q, b, e) /\ c.locked = AppliedLocked(b, e)
      /\ c.pending = AppliedPending(b, e) /\ c.log = b.log /\ c.known = b.known
  BY AppliedType DEF Follower
<1>1. /\ n \in Nat /\ b.doc \in Docs /\ Len(h) \in Nat /\ n + 1 \in 1..Len(h) /\ n \in 0..Len(h)
      /\ h[n + 1] = e
  <2>1. n \in Nat /\ b.doc \in Docs /\ Len(h) \in Nat
    BY BoardFields DEF Log
  <2>2. QED BY <1>0, <2>1 DEF Recorded
<1> HIDE DEF c, n
<1>2. w \in Makes /\ w.doc \in Docs
  BY <1>1, MadeType
<1>3. Made(h, n + 1) = Turn(w, e)
  BY <1>1, MadeNext
<1>4. Like(b.doc, w.doc) /\ b.locked = w.locked
  BY DEF FollowerShows, Shows, n
<1> HIDE DEF w
<1>5. \A x \in b.doc.accepted : Drew(h, n + 1, x)
  <2>1. \A x \in b.doc.accepted : Drew(h, n, x)
    BY DEF FollowerShows, n
  <2>2. QED BY <1>1, <2>1 DEF Drew
<1>6. ASSUME e.kind = "lock"
      PROVE  Shows(h, n + 1, c.doc, c.locked) /\ \A x \in c.doc.accepted : Drew(h, n + 1, x)
  <2>1. Turn(w, e).doc = Barrier(w.doc) /\ Turn(w, e).locked = e.locked
    BY <1>6 DEF Turn
  <2>2. c.doc = Barrier(b.doc) /\ c.locked = e.locked
    BY <1>0, <1>6 DEF AppliedDoc, AppliedLocked
  <2>3. Like(Barrier(b.doc), Barrier(w.doc)) /\ Barrier(b.doc).accepted = {}
    BY <1>1, <1>2, <1>4, LikeBarrier, BarrierType
  <2>4. QED BY <1>3, <2>1, <2>2, <2>3 DEF Shows
<1>7. ASSUME e.kind # "lock"
      PROVE  Shows(h, n + 1, c.doc, c.locked) /\ \A x \in c.doc.accepted : Drew(h, n + 1, x)
  <2>1. e.kind \in Drawing /\ IsCommand(e)
    BY <1>7, EntryFields DEF IsCommand
  <2>2. Turn(w, e) = [w EXCEPT !.doc = Drawn(w.doc, e)]
    BY <1>7, <2>1 DEF Turn, Drawing
  <2>3. Turn(w, e).doc = Drawn(w.doc, e) /\ Turn(w, e).locked = w.locked
    BY <1>2, <2>2 DEF Makes
  <2>4. Verdict(b.doc, e, Host(q)) = "applied"
    <3>1. SUFFICES ASSUME Verdict(b.doc, e, Host(q)) = "duplicate" PROVE FALSE
      BY <1>7 DEF Applies
    <3>2. e.id \in b.doc.accepted
      BY <3>1 DEF Verdict
    <3>3. Drew(h, n, e.id)
      BY <3>2 DEF FollowerShows, n
    <3>4. PICK i \in 1..Len(h) : i <= n /\ h[i].kind \in Drawing /\ h[i].id = e.id
      BY <3>3 DEF Drew
    <3>5. i = n + 1
      BY <1>1, <2>1, <3>4 DEF Unrepeated
    <3>6. QED BY <1>1, <3>4, <3>5
  <2>5. c.doc = Drawn(b.doc, e) /\ c.locked = b.locked
    BY <1>0, <1>7, <2>4 DEF AppliedDoc, AppliedLocked
  <2>6. Like(Drawn(b.doc, e), Drawn(w.doc, e))
    BY <1>1, <1>2, <1>4, <2>1, <2>4, LikeDrawn
  <2>7. \A x \in Drawn(b.doc, e).accepted : x \in b.doc.accepted \/ x = e.id
    BY <1>1, <2>1, DrawnType
  <2>8. Drew(h, n + 1, e.id)
    BY <1>1, <2>1 DEF Drew
  <2>9. Shows(h, n + 1, c.doc, c.locked)
    BY <1>3, <1>4, <2>3, <2>5, <2>6 DEF Shows
  <2>10. QED BY <1>5, <2>5, <2>7, <2>8, <2>9
<1>8. Since(h, Host(q), n + 1)
  BY <1>1, SinceMore DEF FollowerShows, n
<1>9. FollowerShows(h, q, c)
  <2>1. Shows(h, n + 1, c.doc, c.locked) /\ \A x \in c.doc.accepted : Drew(h, n + 1, x)
    BY <1>6, <1>7
  <2>2. c.source = None
    BY <1>0 DEF FollowerShows
  <2>3. QED BY <1>0, <1>8, <2>1, <2>2 DEF FollowerShows
<1>10. Answered(b, c)
  BY <1>0 DEF Answered, AppliedPending
<1>11. QED BY <1>0, <1>9, <1>10 DEF c

\* What q who follows p knows of p and of itself.
LEMMA FollowKnows ==
  ASSUME IInv, NEW f, Booked(f), NEW p \in Peers, NEW q \in Peers, net[p][q] # <<>>,
         Heeds(q, Head1(p, q)), Follows(p, q), NoReturn
  PROVE  /\ MessageTrue(history, p, Head1(p, q)) /\ BoardTrue(history, q, board[q])
         /\ board[q].source = None /\ Host(q) = p
         /\ \A n : NotLater(history, p, n) =>
                     \A i \in 1..Reign : heard[q] < i => ~Since(history, hosts[i], n)
<1>1. MessageTrue(history, p, Head1(p, q))
  BY TakenNow DEF Sendable, MessageGood
<1>2. NowGood(f, q, board[q]) /\ board[q].state # "none" /\ board[q].source = None /\ Host(q) = p
  BY BoardsNow DEF Heeds, Follows
<1>3. heard[q] \in 1..Reign /\ hosts[heard[q]] = p
  BY <1>2, HostType DEF IInv, Host
<1>4. QED BY <1>1, <1>2, <1>3 DEF NowGood, BoardGood, NotLater

\* What the host had at the number of the board is what the board shows.
LEMMA FollowerShown ==
  ASSUME NEW h, NEW q, NEW b, BoardTrue(h, q, b), b.source = None, Since(h, Host(q), b.seq)
  PROVE  FollowerShows(h, q, b)
BY DEF BoardTrue, FollowerShows

\* Whether it is ready does not matter.
LEMMA FollowerReady ==
  ASSUME NEW b \in Boards
  PROVE  LET c == [b EXCEPT !.state = "ready"]
         IN  Answered(b, c) /\ \A h, q : FollowerShows(h, q, b) => FollowerShows(h, q, c)
<1> DEFINE c == [b EXCEPT !.state = "ready"]
<1>1. /\ c.seq = b.seq /\ c.doc = b.doc /\ c.source = b.source
      /\ c.log = b.log /\ c.known = b.known /\ c.locked = b.locked /\ c.pending = b.pending
  BY DEF Boards
<1> HIDE DEF c
<1>2. Answered(b, c) /\ \A h, q : FollowerShows(h, q, b) => FollowerShows(h, q, c)
  BY <1>1 DEF Answered, FollowerShows
<1>3. QED BY <1>2 DEF c

\* Answers come one after the other.
LEMMA AnsweredTwice == ASSUME NEW a, NEW b, NEW c, Answered(a, b), Answered(b, c) PROVE Answered(a, c)
BY DEF Answered

\* A descriptor.
LEMMA FollowDescriptorQuiet ==
  ASSUME IInv, NEW f, Booked(f), NEW p \in Peers, NEW q \in Peers, FollowDescriptor(p, q)
  PROVE  Quietly(f)
<1> DEFINE m == Head1(p, q)
           b == Listening(q, m)
           same == m.seq = b.seq /\ m.body = Snapshot(b.doc)
           c == [b EXCEPT !.locked = m.locked]
<1>0. TypeOK
  BY DEF IInv
<1>1. /\ net[p][q] # <<>> /\ m.kind = "descriptor" /\ Heeds(q, m) /\ Follows(p, q)
      /\ board' = [board EXCEPT ![q] = IF same THEN [b EXCEPT !.locked = m.locked, !.state = "ready"]
                                        ELSE SyncAsked(q, b)]
      /\ net' = IF same THEN Taken(p, q) ELSE SyncSent(Taken(p, q), q, b)
      /\ hosts' = hosts /\ heard' = heard /\ history' = history /\ used' = used
  BY DEF FollowDescriptor, Arrived
<1>2. board[q].state # "none" /\ m \in Messages /\ board[q] \in Boards /\ m.host = p
      /\ NowGood(f, q, board[q])
  BY <1>1, FollowFacts, BoardsNow
<1>3. NoReturn => MessageTrue(history, p, m) /\ BoardTrue(history, q, board[q])
                  /\ board[q].source = None /\ Host(q) = p
  BY <1>1, FollowKnows
<1>4. Weaker(board[q], b) /\ b \in Boards /\ b.seq \in Nat /\ b.state = board[q].state
  BY <1>0, WeakerListening, BoardFields, ListeningType
<1>5. m.locked \in BOOLEAN
  BY <1>1, <1>2, MessageFields DEF Shots
<1>6. NetNow(f, Taken(p, q)) /\ NetNow(f, SyncSent(Taken(p, q), q, b))
  BY <1>0, <1>1, <1>4, TakenNow, SyncNow
<1>7. NowGood(f, q, b)
  BY <1>2, <1>4, WeakerNow
<1> HIDE DEF m, b
<1>8. CASE same
  <2>1. /\ c \in Boards /\ c.seq = b.seq /\ c.doc = b.doc /\ c.source = b.source
        /\ c.log = b.log /\ c.known = b.known /\ c.locked = m.locked /\ c.pending = b.pending
    BY <1>4, <1>5 DEF Boards
  <2>2. board' = [board EXCEPT ![q] = [c EXCEPT !.state = "ready"]]
    BY <1>1, <1>8
  <2> HIDE DEF c
  <2>3. ASSUME NoReturn PROVE FollowerShows(history, q, c)
    <3>1. b.source = None /\ b.seq = board[q].seq /\ b.doc = board[q].doc
      BY <1>3, <1>4, <2>3 DEF Weaker
    <3>2. Since(history, p, b.seq) /\ m.locked = Made(history, b.seq).locked
      BY <1>1, <1>2, <1>3, <1>8, <2>3 DEF MessageTrue
    <3>3. FollowerShows(history, q, board[q])
      BY <1>3, <2>3, <3>1, <3>2, FollowerShown
    <3>4. QED BY <2>1, <3>1, <3>2, <3>3 DEF FollowerShows, Shows
  <2>4. Answered(b, c)
    BY <2>1 DEF Answered
  <2>5. Answered(c, [c EXCEPT !.state = "ready"])
        /\ (NoReturn => FollowerShows(history, q, [c EXCEPT !.state = "ready"]))
    BY <2>1, <2>3, FollowerReady
  <2>6. Answered(b, [c EXCEPT !.state = "ready"])
    BY <2>4, <2>5, AnsweredTwice
  <2>7. NowGood(f, q, [c EXCEPT !.state = "ready"])
    BY <1>2, <1>4, <1>7, <2>5, <2>6, FollowerNow
  <2>8. NetNow(f, net')
    BY <1>1, <1>6, <1>8
  <2>9. QED BY <1>1, <2>2, <2>7, <2>8, OneQuiet
<1>9. CASE ~same
  <2>1. board' = [board EXCEPT ![q] = SyncAsked(q, b)] /\ NetNow(f, net')
    BY <1>1, <1>6, <1>9
  <2>2. NowGood(f, q, SyncAsked(q, b))
    BY <1>2, <1>4, <1>7, WeakerSync, WeakerNow
  <2>3. QED BY <1>1, <2>1, <2>2, OneQuiet
<1>10. QED BY <1>8, <1>9

\* An entry that is applied changes nothing else.
LEMMA AppliedAnswers ==
  ASSUME NEW q, NEW b \in Boards, NEW e \in Entries, Applies(q, b, e)
  PROVE  Applied(q, b, e) \in Boards /\ e.seq = b.seq + 1 /\ Answered(b, Applied(q, b, e))
<1> DEFINE c == Applied(q, b, e)
<1>1. Follower(b, c, e.seq) /\ e.seq = b.seq + 1 /\ c.pending = AppliedPending(b, e)
  BY AppliedType
<1> HIDE DEF c
<1>2. c \in Boards /\ e.seq = b.seq + 1 /\ Answered(b, c)
  BY <1>1 DEF Follower, Answered, AppliedPending
<1>3. QED BY <1>2 DEF c

\* A commit.
LEMMA FollowCommitQuiet ==
  ASSUME IInv, NEW f, Booked(f), NEW p \in Peers, NEW q \in Peers, FollowCommit(p, q)
  PROVE  Quietly(f)
<1> DEFINE m == Head1(p, q)
           e == m.entry
           b == Listening(q, m)
           known == e.seq <= b.seq
           rest == {c \in b.pending : c.id # e.id}
           answered == IF e.kind = "lock" THEN b ELSE [b EXCEPT !.pending = {c \in @ : c.id # e.id}]
<1>0. TypeOK
  BY DEF IInv
<1>1. /\ net[p][q] # <<>> /\ m.kind = "commit" /\ Heeds(q, m) /\ Follows(p, q)
      /\ board' = [board EXCEPT ![q] =
               IF known THEN answered
               ELSE IF Applies(q, b, e) THEN [Applied(q, b, e) EXCEPT !.state = "ready"]
               ELSE SyncAsked(q, b)]
      /\ net' = IF known \/ Applies(q, b, e) THEN Taken(p, q) ELSE SyncSent(Taken(p, q), q, b)
      /\ hosts' = hosts /\ heard' = heard /\ history' = history /\ used' = used
  BY DEF FollowCommit, Arrived
<1>2. board[q].state # "none" /\ m \in Messages /\ board[q] \in Boards
      /\ NowGood(f, q, board[q])
  BY <1>1, FollowFacts, BoardsNow
<1>3. NoReturn => /\ MessageTrue(history, p, m) /\ BoardTrue(history, q, board[q])
                  /\ board[q].source = None /\ Host(q) = p
                  /\ \A n : NotLater(history, p, n) =>
                     \A i \in 1..Reign : heard[q] < i => ~Since(history, hosts[i], n)
  BY <1>1, FollowKnows
<1>4. Weaker(board[q], b) /\ b \in Boards /\ b.seq \in Nat /\ b.state = board[q].state
  BY <1>0, WeakerListening, BoardFields, ListeningType
<1>5. e \in Entries /\ e.seq \in Nat
  BY <1>1, <1>2, MessageFields, EntryFields DEF Commits
<1>6. NetNow(f, Taken(p, q)) /\ NetNow(f, SyncSent(Taken(p, q), q, b))
  BY <1>0, <1>1, <1>4, TakenNow, SyncNow
<1>7. NowGood(f, q, b)
  BY <1>2, <1>4, WeakerNow
<1>8. NetNow(f, net')
  BY <1>1, <1>6
<1>9. NoReturn => EntryTrue(history, p, e) /\ Since(history, p, e.seq - 1)
  BY <1>1, <1>3 DEF MessageTrue
<1> HIDE DEF m, b
<1>10. CASE known
  <2>1. board' = [board EXCEPT ![q] = answered]
    BY <1>1, <1>10
  <2>2. answered = b \/ answered = PendingSet(b, rest)
    BY DEF PendingSet
  <2>3. rest \in SUBSET Commands /\ rest \subseteq b.pending
    BY <1>4, BoardFields
  <2> HIDE DEF rest, answered
  <2>4. NowGood(f, q, PendingSet(b, rest))
    BY <1>4, <1>7, <2>3, WeakerPending, WeakerNow
  <2>5. NowGood(f, q, answered)
    BY <1>7, <2>2, <2>4
  <2>6. QED BY <1>1, <1>8, <2>1, <2>5, OneQuiet
<1>11. CASE ~known /\ Applies(q, b, e)
  <2> DEFINE c == Applied(q, b, e)
  <2>1. board' = [board EXCEPT ![q] = [c EXCEPT !.state = "ready"]]
    BY <1>1, <1>11
  <2>2. c \in Boards /\ e.seq = b.seq + 1 /\ Answered(b, c)
    BY <1>4, <1>5, <1>11, AppliedAnswers
  <2>3. ASSUME NoReturn PROVE FollowerShows(history, q, c)
    <3>1. e.seq - 1 = b.seq
      BY <1>4, <1>5, <2>2
    <3>2. b.source = None /\ BoardTrue(history, q, b) /\ Since(history, Host(q), b.seq)
      BY <1>2, <1>3, <1>4, <1>7, <1>9, <2>3, <3>1 DEF Weaker, NowGood, BoardGood
    <3>3. FollowerShows(history, q, b)
      BY <3>2, FollowerShown
    <3>4. Recorded(history, e) /\ \A i \in 1..Reign : heard[q] < i => ~Since(history, hosts[i], e.seq)
      BY <1>3, <1>9, <2>3 DEF EntryTrue
    <3>5. history \in Log /\ Unrepeated(history)
      BY <1>0, DrawnOnceIs DEF TypeOK, Log, Booked
    <3>6. QED BY <1>4, <1>5, <1>11, <3>3, <3>4, <3>5, NextShows
  <2> HIDE DEF c
  <2>4. Answered(c, [c EXCEPT !.state = "ready"])
        /\ (NoReturn => FollowerShows(history, q, [c EXCEPT !.state = "ready"]))
    BY <2>2, <2>3, FollowerReady
  <2>5. Answered(b, [c EXCEPT !.state = "ready"])
    BY <2>2, <2>4, AnsweredTwice
  <2>6. NowGood(f, q, [c EXCEPT !.state = "ready"])
    BY <1>2, <1>4, <1>7, <2>4, <2>5, FollowerNow
  <2>7. QED BY <1>1, <1>8, <2>1, <2>6, OneQuiet
<1>12. CASE ~known /\ ~Applies(q, b, e)
  <2>1. board' = [board EXCEPT ![q] = SyncAsked(q, b)]
    BY <1>1, <1>12
  <2>2. NowGood(f, q, SyncAsked(q, b))
    BY <1>2, <1>4, <1>7, WeakerSync, WeakerNow
  <2>3. QED BY <1>1, <1>8, <2>1, <2>2, OneQuiet
<1>13. QED BY <1>10, <1>11, <1>12

\* The entries are the log's, and of the reign of the host of q.
Reads(h, q, b, entries) ==
  /\ h \in Log /\ Unrepeated(h) /\ FollowerShows(h, q, b)
  /\ \A k \in 1..Len(entries) :
        /\ Recorded(h, entries[k])
        /\ \A i \in 1..Reign : heard[q] < i => ~Since(h, hosts[i], entries[k].seq)
\* What they make of a board is what the log makes.
LEMMA RunShows ==
  ASSUME NEW h, NEW q \in Peers, NEW b \in Boards, NEW entries \in Seq(Entries)
  PROVE  /\ Answered(b, Run(q, b, entries))
         /\ Reads(h, q, b, entries) => FollowerShows(h, q, Run(q, b, entries))
<1>1. PICK f : Ran(q, b, entries, f) /\ Run(q, b, entries) = f[Len(entries)]
  BY RunIs
<1>2. \A i \in 0..Len(entries) :
         f[i] = IF i = 0 THEN b
                ELSE IF Applies(q, f[i - 1], entries[i])
                     THEN Applied(q, f[i - 1], entries[i]) ELSE f[i - 1]
  BY <1>1 DEF Ran
<1> DEFINE Fits(k) == /\ Answered(b, f[k]) /\ f[k] \in Boards
                      /\ Reads(h, q, b, entries) => FollowerShows(h, q, f[k])
           T == {k \in Nat : k <= Len(entries) => Fits(k)}
<1>3. 0 \in T
  <2>1. f[0] = b
    BY <1>2
  <2>2. QED BY <2>1 DEF Answered, Reads
<1>4. ASSUME NEW k \in Nat, k \in T PROVE k + 1 \in T
  <2>1. SUFFICES ASSUME k + 1 <= Len(entries) PROVE Fits(k + 1)
    OBVIOUS
  <2>2. Fits(k) /\ k + 1 \in 0..Len(entries) /\ k + 1 # 0 /\ k + 1 - 1 = k
        /\ k + 1 \in 1..Len(entries)
    BY <1>4, <2>1
  <2>3. entries[k + 1] \in Entries
    BY <2>2
  <2>4. CASE Applies(q, f[k], entries[k + 1])
    <3> DEFINE c == Applied(q, f[k], entries[k + 1])
    <3>1. f[k + 1] = c
      BY <1>2, <2>2, <2>4
    <3>2. Answered(f[k], c) /\ c \in Boards
      BY <2>2, <2>3, <2>4, AppliedAnswers
    <3>3. ASSUME Reads(h, q, b, entries) PROVE FollowerShows(h, q, c)
      <4>1. /\ h \in Log /\ Unrepeated(h) /\ Recorded(h, entries[k + 1])
            /\ \A i \in 1..Reign : heard[q] < i => ~Since(h, hosts[i], entries[k + 1].seq)
        BY <2>2, <3>3 DEF Reads
      <4>2. QED BY <2>2, <2>3, <2>4, <3>3, <4>1, NextShows
    <3> HIDE DEF c
    <3>4. QED BY <2>2, <3>1, <3>2, <3>3, AnsweredTwice
  <2>5. CASE ~Applies(q, f[k], entries[k + 1])
    <3>1. f[k + 1] = f[k]
      BY <1>2, <2>2, <2>5
    <3>2. QED BY <2>2, <3>1
  <2>6. QED BY <2>4, <2>5
<1>5. T \in SUBSET Nat /\ Len(entries) \in Nat
  OBVIOUS
<1>6. Len(entries) \in T
  <2> HIDE DEF T
  <2>1. QED BY <1>3, <1>4, <1>5, Inductive
<1>7. QED BY <1>1, <1>5, <1>6

\* A delta.
LEMMA FollowDeltaQuiet ==
  ASSUME IInv, NEW f, Booked(f), NEW p \in Peers, NEW q \in Peers, FollowDelta(p, q)
  PROVE  Quietly(f)
<1> DEFINE m == Head1(p, q)
           b == Run(q, board[q], m.entries)
           end == m.entries[Len(m.entries)].seq
           good == m.base = board[q].seq /\ b.seq = end
           left == IF m.base = board[q].seq THEN b ELSE board[q]
<1>0. TypeOK
  BY DEF IInv
<1>1. /\ net[p][q] # <<>> /\ m.kind = "delta" /\ Heeds(q, m) /\ Follows(p, q)
      /\ board' = [board EXCEPT ![q] = IF good THEN [b EXCEPT !.state = "ready"] ELSE SyncAsked(q, left)]
      /\ net' = IF good THEN Taken(p, q) ELSE SyncSent(Taken(p, q), q, left)
      /\ hosts' = hosts /\ heard' = heard /\ history' = history /\ used' = used
  BY DEF FollowDelta, Arrived
<1>2. /\ board[q].state # "none" /\ m \in Messages
      /\ board[p].seq \in Nat /\ board[q] \in Boards /\ NowGood(f, q, board[q])
      /\ \A k \in 1..Len(m.entries) : m.entries[k].seq <= board[p].seq
  BY <1>1, FollowFacts, BoardsNow DEF NumbersUpTo
<1>3. NoReturn => /\ MessageTrue(history, p, m) /\ BoardTrue(history, q, board[q])
                  /\ board[q].source = None /\ Host(q) = p
                  /\ \A n : NotLater(history, p, n) =>
                     \A i \in 1..Reign : heard[q] < i => ~Since(history, hosts[i], n)
  BY <1>1, FollowKnows
<1>4. m.entries \in Seq(Entries)
  BY <1>1, <1>2, MessageFields DEF Deltas
<1>5. NetNow(f, Taken(p, q))
  BY <1>1, TakenNow
<1>6. NoReturn => /\ Since(history, p, m.base)
                  /\ \A k \in 1..Len(m.entries) : EntryTrue(history, p, m.entries[k])
  BY <1>1, <1>3 DEF MessageTrue
<1> HIDE DEF m
<1>7. b \in Boards /\ b.state = board[q].state
  BY <1>2, <1>4, RunType DEF Follower
<1>8. Answered(board[q], b)
  BY <1>2, <1>4, RunShows
<1>9. ASSUME NoReturn, m.base = board[q].seq PROVE FollowerShows(history, q, b)
  <2>1. FollowerShows(history, q, board[q])
    BY <1>3, <1>6, <1>9, FollowerShown
  <2>2. \A k \in 1..Len(m.entries) :
            /\ Recorded(history, m.entries[k])
            /\ \A i \in 1..Reign : heard[q] < i => ~Since(history, hosts[i], m.entries[k].seq)
    BY <1>3, <1>6, <1>9 DEF EntryTrue
  <2>3. history \in Log /\ Unrepeated(history)
    BY <1>0, DrawnOnceIs DEF TypeOK, Log, Booked
  <2>4. Reads(history, q, board[q], m.entries)
    BY <2>1, <2>2, <2>3 DEF Reads
  <2>5. QED BY <1>2, <1>4, <2>4, RunShows
<1> HIDE DEF b
<1>10. m.base = board[q].seq => NowGood(f, q, b)
  BY <1>2, <1>8, <1>9, FollowerNow
<1>11. left \in Boards /\ NowGood(f, q, left) /\ left.seq \in Nat /\ left.state = board[q].state
  BY <1>2, <1>7, <1>10, BoardFields
<1>12. NetNow(f, SyncSent(Taken(p, q), q, left))
  BY <1>0, <1>5, <1>11, SyncNow
<1> HIDE DEF left, end
<1>13. CASE good
  <2>1. board' = [board EXCEPT ![q] = [b EXCEPT !.state = "ready"]] /\ NetNow(f, net')
    BY <1>1, <1>5, <1>13
  <2>2. Answered(b, [b EXCEPT !.state = "ready"])
        /\ (NoReturn => FollowerShows(history, q, [b EXCEPT !.state = "ready"]))
    BY <1>7, <1>9, <1>13, FollowerReady
  <2>3. NowGood(f, q, [b EXCEPT !.state = "ready"])
    BY <1>2, <1>7, <1>10, <1>13, <2>2, FollowerNow
  <2>4. QED BY <1>1, <2>1, <2>3, OneQuiet
<1>14. CASE ~good
  <2>1. board' = [board EXCEPT ![q] = SyncAsked(q, left)] /\ NetNow(f, net')
    BY <1>1, <1>12, <1>14
  <2>2. NowGood(f, q, SyncAsked(q, left))
    BY <1>2, <1>11, WeakerSync, WeakerNow
  <2>3. QED BY <1>1, <2>1, <2>2, OneQuiet
<1>15. QED BY <1>13, <1>14

\* A snapshot.
LEMMA FollowSnapshotQuiet ==
  ASSUME IInv, NEW f, Booked(f), NEW p \in Peers, NEW q \in Peers, FollowSnapshot(p, q)
  PROVE  Quietly(f)
<1> DEFINE m == Head1(p, q)
           c == SnapSet(board[q], m)
<1>0. TypeOK
  BY DEF IInv
<1>1. /\ net[p][q] # <<>> /\ m.kind = "snapshot" /\ Heeds(q, m) /\ Follows(p, q)
      /\ board' = IF m.seq < board[q].seq THEN board
                  ELSE [board EXCEPT ![q].doc = Restored(m.body), ![q].seq = m.seq,
                                     ![q].locked = m.locked, ![q].state = "ready"]
      /\ net' = Taken(p, q)
      /\ hosts' = hosts /\ heard' = heard /\ history' = history /\ used' = used
  BY DEF FollowSnapshot, Arrived
<1>2. board[q].state # "none" /\ m \in Messages /\ m.host = p
      /\ board[q] \in Boards /\ NowGood(f, q, board[q])
  BY <1>1, FollowFacts, BoardsNow
<1>3. NoReturn => /\ MessageTrue(history, p, m) /\ BoardTrue(history, q, board[q])
                  /\ board[q].source = None /\ Host(q) = p
                  /\ \A n : NotLater(history, p, n) =>
                     \A i \in 1..Reign : heard[q] < i => ~Since(history, hosts[i], n)
  BY <1>1, FollowKnows
<1>4. m \in Shots /\ m.seq \in Nat /\ m.body \in Bodies
  BY <1>1, <1>2, MessageFields DEF Shots
<1>5. NetNow(f, net')
  BY <1>1, TakenNow
<1>6. CASE m.seq < board[q].seq
  BY <1>1, <1>5, <1>6, NoneQuiet
<1>7. CASE ~(m.seq < board[q].seq)
  <2>1. board' = [board EXCEPT ![q] = c]
    BY <1>0, <1>1, <1>7 DEF TypeOK, SnapSet
  <2>2. /\ c.seq = m.seq /\ c.doc = Restored(m.body) /\ c.locked = m.locked
        /\ c.source = board[q].source /\ c.log = board[q].log /\ c.known = board[q].known
        /\ c.pending = board[q].pending
    BY <1>2, <1>4, SnapSetType
  <2> HIDE DEF c
  <2>3. ASSUME NoReturn PROVE FollowerShows(history, q, c)
    <3>1. /\ m.seq <= Len(history) /\ m.body = Snapshot(Made(history, m.seq).doc)
          /\ m.locked = Made(history, m.seq).locked
          /\ Since(history, p, m.seq) /\ NotLater(history, p, m.seq)
      BY <1>1, <1>2, <1>3, <2>3 DEF MessageTrue
    <3>2. Len(history) \in Nat /\ history \in Log
      BY <1>0 DEF TypeOK, Log
    <3>3. m.seq \in 0..Len(history)
      BY <1>4, <3>1, <3>2
    <3>4. Made(history, m.seq).doc \in Docs
      BY <3>2, <3>3, MadeType
    <3>5. Like(Restored(m.body), Made(history, m.seq).doc)
      BY <1>4, <3>1, <3>4, LikeRestored
    <3>6. Restored(m.body).accepted = {}
      BY DEF Restored
    <3>7. \A i \in 1..Reign : heard[q] < i => ~Since(history, hosts[i], m.seq)
      BY <1>3, <2>3, <3>1
    <3>8. QED BY <1>3, <2>2, <2>3, <3>1, <3>5, <3>6, <3>7 DEF FollowerShows, Shows
  <2>4. Answered(board[q], c)
    BY <2>2 DEF Answered
  <2>5. NowGood(f, q, c)
    BY <1>2, <2>3, <2>4, FollowerNow
  <2>6. QED BY <1>1, <1>5, <2>1, <2>5, OneQuiet
<1>8. QED BY <1>6, <1>7

-----------------------------------------------------------------------------
(* Taking over, and answers that give no number *)

\* The successor takes what the old host had, and tells it.
LEMMA TakeOverQuiet ==
  ASSUME IInv, NEW f, Booked(f), NoReturn => HandoffsTrue,
         NEW p \in Peers, NEW q \in Peers, TakeOver(p, q)
  PROVE  Quietly(f)
<1> DEFINE m == Head1(p, q)
           doc == Restored(m.body)
           b == TakenSet(board[q], doc, m.seq, m.locked)
           d == Descriptor(q, b)
           to == Others(q)
<1>0. TypeOK /\ ChainInv /\ SeatInv
  BY DEF IInv
<1>1. /\ net[p][q] # <<>> /\ m.kind = "snapshot" /\ m.host = Host(q)
      /\ board[q].source = p /\ m.seq > board[q].seq /\ board[q].state # "none"
      /\ board' = [board EXCEPT ![q] = b]
      /\ net' = Sent(Taken(p, q), q, to, d)
      /\ hosts' = hosts /\ heard' = heard /\ history' = history /\ used' = used
  BY DEF TakeOver, Arrived, Heeds, TakenSet
<1>2. /\ m \in Messages /\ MsgOK(p, q, m) /\ NetNow(f, Taken(p, q))
      /\ (NoReturn => MessageTrue(history, p, m))
  BY <1>1, TakenFine, TakenNow DEF Sendable, MessageGood
<1> HIDE DEF m
<1>3. m.seq \in Nat /\ m.body \in Bodies /\ m.locked \in BOOLEAN
  BY <1>1, <1>2, MessageFields DEF Shots
<1>4. q = NewHost /\ heard[q] = Reign /\ Reign > 1 /\ Host(q) = q /\ hosts[Reign] = q
  <2>1. p # None
    BY BoardAssumption
  <2>2. q = NewHost /\ heard[q] = Reign /\ Reign > 1
    BY <1>0, <1>1, <2>1 DEF SeatInv
  <2>3. QED BY <2>1, <2>2 DEF Host, NewHost, Reign
<1>5. board[q] \in Boards /\ board[q].seq \in Nat /\ NowGood(f, q, board[q])
  BY BoardsNow
<1>6. Vacant /\ m.seq = Len(history)
  <2>1. ~(m.seq <= board[q].seq)
    BY <1>1, <1>3, <1>5
  <2>2. QED BY <1>1, <1>2, <1>4, <2>1 DEF MsgOK, Handing
<1>7. history \in Log /\ Len(history) \in Nat /\ Reign \in Nat /\ Len(history) \in 0..Len(history)
  BY <1>0, HostType DEF TypeOK, Log
<1>8. doc \in Docs /\ doc.accepted = {}
  BY <1>3, RestoredType DEF Restored
<1>9. ASSUME NoReturn
      PROVE  /\ Shows(history, m.seq, doc, m.locked)
             /\ Since(history, q, m.seq) /\ NotLater(history, q, m.seq)
  <2>1. m.body = Snapshot(Made(history, m.seq).doc) /\ m.locked = Made(history, m.seq).locked
    BY <1>1, <1>2, <1>9 DEF MessageTrue
  <2>2. Made(history, m.seq).doc \in Docs
    BY <1>6, <1>7, MadeType
  <2>3. Like(doc, Made(history, m.seq).doc)
    BY <1>3, <2>1, <2>2, LikeRestored
  <2>4. Since(history, q, m.seq)
    BY <1>4, <1>6, <1>9 DEF HandoffsTrue, Vacant
  <2>5. NotLater(history, q, m.seq)
    <3>1. ASSUME NEW i \in 1..Reign, NEW j \in 1..Reign, j < i, hosts[j] = q PROVE FALSE
      <4>1. j = Reign
        BY <1>4, <1>7, <1>9, <3>1 DEF NoReturn
      <4>2. QED BY <1>7, <3>1, <4>1
    <3>2. QED BY <3>1 DEF NotLater
  <2>6. QED BY <2>1, <2>3, <2>4, <2>5 DEF Shows
<1> HIDE DEF doc
<1>10. /\ b \in Boards /\ b.doc = doc /\ b.seq = m.seq /\ b.locked = m.locked /\ b.source = None
       /\ b.log = board[q].log /\ b.known = board[q].known /\ b.pending = board[q].pending
  BY <1>3, <1>5, <1>8, TakenSetType
<1> HIDE DEF b
<1>11. NowGood(f, q, b)
  <2>1. ASSUME NoReturn PROVE BoardTrue(history, q, b)
    <3>1. BoardTrue(history, q, board[q])
      BY <1>1, <1>5, <2>1 DEF NowGood, BoardGood
    <3>2. \A i \in 1..Reign : ~(heard[q] < i)
      BY <1>4, <1>7
    <3>3. QED BY <1>4, <1>8, <1>9, <1>10, <2>1, <3>1, <3>2 DEF BoardTrue
  <2>2. QED BY <1>5, <1>10, <2>1 DEF NowGood, BoardGood
<1>12. /\ d \in Messages /\ d \in Shots /\ d.seq = m.seq /\ d.host = q /\ d.locked = m.locked
       /\ d.body = Snapshot(doc)
  <2>1. d \in Messages /\ d.kind = "descriptor" /\ d.seq = b.seq
    BY <1>0, <1>10, DescriptorOK
  <2>2. d \in Shots
    BY <2>1, MessageFields
  <2>3. d.host = q /\ d.locked = m.locked /\ d.body = Snapshot(doc)
    BY <1>4, <1>10 DEF Descriptor
  <2>4. QED BY <1>10, <2>1, <2>2, <2>3
<1>13. to \in SUBSET Peers
  BY OthersType
<1> HIDE DEF d, to
<1>14. Sendable(f, q, d)
  <2>1. d.seq <= Len(history)
    BY <1>6, <1>7, <1>12
  <2>2. QED BY <1>8, <1>9, <1>12, <2>1, ShotNow
<1>15. NetNow(f, net')
  BY <1>1, <1>2, <1>13, <1>14, SentNow
<1>16. QED BY <1>1, <1>11, <1>15, OneQuiet

\* A command that is not carried out, or was carried out before.
LEMMA DecideQuiet ==
  ASSUME IInv, NEW f, Booked(f), NEW p \in Peers, NEW q \in Peers, Decide(p, q),
         ~Accepts(p, q, Head1(p, q).cmd)
  PROVE  Quietly(f)
<1> DEFINE m == Head1(p, q)
           c == m.cmd
           back == {p} \cap Others(q)
           r == IF Answers(q, c) # {}
                THEN CommitOf(q, CHOOSE k \in Answers(q, c) : TRUE)
                ELSE [kind |-> "reject", host |-> q, id |-> c.id]
<1>0. TypeOK /\ SeqInv /\ ChainInv /\ SeatInv
  BY DEF IInv
<1>1. /\ net[p][q] # <<>> /\ m.kind = "propose" /\ Leads(q) /\ board[q].state # "none"
      /\ hosts' = hosts /\ heard' = heard /\ used' = used
      /\ net' = Sent(Taken(p, q), q, back, r) /\ board' = board /\ history' = history
  BY DEF Decide, Arrived, Heeds
<1>2. NetNow(f, Taken(p, q)) /\ m \in Messages
  BY <1>1, TakenNow DEF Sendable
<1>3. c \in Commands
  BY <1>1, <1>2, MessageFields DEF Proposals
<1>4. Sendable(f, q, r)
  <2>1. CASE Answers(q, c) # {}
    <3>1. PICK k \in Answers(q, c) : r = CommitOf(q, k)
      BY <2>1
    <3>2. k \in board[q].known /\ k \in Drawings /\ k.seq <= board[q].seq /\ k.seq \in Int
      BY <1>0, <3>1, BoardFields DEF Answers, TypeOK, SeqInv, Drawings
    <3>3. Host(q) = q
      BY <1>1 DEF Leads, IsHost
    <3> HIDE DEF r
    <3>4. r \in Messages /\ r.kind = "commit" /\ r.entry = k /\ r.host = q
      BY <1>0, <3>1, <3>2, <3>3, HostType DEF CommitOf, Messages, Commits, Entries
    <3>5. ASSUME NoReturn PROVE MessageTrue(history, q, r)
      <4>1. BoardTrue(history, q, board[q]) /\ NotLater(history, q, k.seq)
        BY <1>1, <3>2, <3>5, AuthorityNow DEF Told
      <4>2. Recorded(history, k) /\ Since(history, q, k.seq - 1)
        BY <3>2, <4>1 DEF BoardTrue
      <4>3. QED BY <3>4, <4>1, <4>2 DEF MessageTrue, EntryTrue
    <3>6. QED BY <3>4, <3>5 DEF Sendable, MessageGood
  <2>2. CASE Answers(q, c) = {}
    <3>1. r = [kind |-> "reject", host |-> q, id |-> c.id]
      BY <2>2
    <3>2. r \in Messages /\ r.kind = "reject"
      BY <1>3, <3>1, CommandFields DEF Messages, Rejects, IsCommand
    <3> HIDE DEF r
    <3>3. QED BY <3>2, PlainNow
  <2>3. QED BY <2>1, <2>2
<1>5. back \in SUBSET Peers
  BY OthersType
<1> HIDE DEF r, back
<1>6. NetNow(f, net')
  BY <1>1, <1>2, <1>4, <1>5, SentNow
<1>7. QED BY <1>1, <1>6, NoneQuiet

-----------------------------------------------------------------------------
(* Steps that enter a command or give a number *)

\* What the book of before says, the new one says.
Better(f, g, f2, g2) == \A c : c.id \in Ids /\ Entered(f, g, c) => Entered(f2, g2, c)
\* The boards, the messages and the log are good by the book f of g commands and
\* the log h.
Written(f, g, h) ==
  LogGood(f, g, h) /\ NetGood(net, f, g, h) /\ \A q \in Peers : BoardGood(f, g, h, q, board[q])
\* The book with the command that p gives.
Enter(f, p) == [f EXCEPT ![<<p, used.gestures + 1>>] = board[p].doc.epoch]

\* It is a better book.
LEMMA EnterBetter ==
  ASSUME TypeOK, NEW f \in [Ids -> Nat], NEW p \in Peers
  PROVE  /\ Enter(f, p) \in [Ids -> Nat]
         /\ used.gestures + 1 \in Nat
         /\ Better(f, used.gestures, Enter(f, p), used.gestures + 1)
         /\ \A c : c.id = <<p, used.gestures + 1>> /\ c.epoch = board[p].doc.epoch =>
                     Entered(Enter(f, p), used.gestures + 1, c)
<1> DEFINE g == used.gestures
           x == <<p, g + 1>>
           e == board[p].doc.epoch
           f2 == [f EXCEPT ![x] = e]
<1>0. Enter(f, p) = f2
  BY DEF Enter
<1>1. g \in Nat /\ e \in Nat /\ x \in Ids /\ x[2] = g + 1
  <2>1. g \in Nat
    BY DEF TypeOK, Counts
  <2>2. e \in Nat
    <3>1. board[p].doc \in Docs
      BY BoardFields DEF TypeOK
    <3>2. QED BY <3>1, DocFields
  <2> HIDE DEF g, e
  <2>3. x \in Ids /\ x[2] = g + 1
    BY <2>1 DEF Ids
  <2>4. QED BY <2>1, <2>2, <2>3
<1> HIDE DEF g, x, e
<1>2. f2 \in [Ids -> Nat] /\ f2[x] = e /\ \A y \in Ids : y # x => f2[y] = f[y]
  BY <1>1
<1> HIDE DEF f2
<1>3. Better(f, g, f2, g + 1)
  <2>1. ASSUME NEW c, c.id \in Ids, Entered(f, g, c) PROVE Entered(f2, g + 1, c)
    <3>1. c.id[2] \in Nat /\ c.id[2] <= g /\ c.epoch = f[c.id]
      BY <2>1 DEF Entered, Ids
    <3>2. c.id # x
      BY <1>1, <3>1
    <3>3. QED BY <1>1, <1>2, <2>1, <3>1, <3>2 DEF Entered
  <2>2. QED BY <2>1 DEF Better
<1>4. \A c : c.id = x /\ c.epoch = e => Entered(f2, g + 1, c)
  BY <1>1, <1>2 DEF Entered
<1>5. g + 1 \in Nat
  BY <1>1
<1>6. QED BY <1>0, <1>2, <1>3, <1>4, <1>5 DEF g, x, e

\* The same book is good enough when nothing is entered.
LEMMA BetterItself == ASSUME NEW f, NEW g PROVE Better(f, g, f, g)
BY DEF Better

\* The log by a better book.
LEMMA BetterLog ==
  ASSUME TypeOK, NEW f, NEW g, NEW f2, NEW g2, Better(f, g, f2, g2), LogGood(f, g, history)
  PROVE  LogGood(f2, g2, history)
<1>1. ASSUME NEW i \in 1..Len(history), history[i].kind \in Drawing PROVE Entered(f2, g2, history[i])
  <2>1. history[i] \in Drawings
    BY <1>1, DrawnEpochs
  <2>2. history[i].id \in Ids
    BY <2>1 DEF Drawings
  <2>3. Entered(f, g, history[i])
    BY <1>1 DEF LogGood
  <2>4. QED BY <2>2, <2>3 DEF Better
<1>2. QED BY <1>1 DEF LogGood

\* By a better book and a longer log everything is still good.
LEMMA WrittenNow ==
  ASSUME IInv, NEW f, Booked(f), NEW h, Longer(history, h), NEW f2, NEW g2,
         Better(f, used.gestures, f2, g2), LogGood(f2, g2, h)
  PROVE  Written(f2, g2, h)
<1>0. TypeOK
  BY DEF IInv
<1>1. ASSUME NEW q \in Peers PROVE BoardGood(f2, g2, h, q, board[q])
  <2>1. NowGood(f, q, board[q]) /\ board[q] \in Boards
    BY BoardsNow
  <2>2. \A c \in board[q].pending : Entered(f2, g2, c)
    <3>1. TAKE c \in board[q].pending
    <3>2. c.id \in Ids /\ Entered(f, used.gestures, c)
      BY <2>1, BoardFields DEF NowGood, BoardGood, Commands
    <3>3. QED BY <3>2 DEF Better
  <2>3. ASSUME NoReturn, board[q].state # "none" PROVE BoardTrue(h, q, board[q])
    <3>1. BoardTrue(history, q, board[q])
      BY <2>1, <2>3 DEF NowGood, BoardGood
    <3>2. board[q].seq <= Len(history)
      BY SeqInLog
    <3>3. QED BY <2>1, <3>1, <3>2, BoardLonger
  <2>4. QED BY <2>2, <2>3 DEF BoardGood
<1>2. ASSUME NEW p \in Peers, NEW q \in Peers, NEW m \in Way(net, p, q)
      PROVE  MessageGood(f2, g2, h, p, m)
  <2>1. m \in Messages
    BY <1>0, <1>2, WayType DEF TypeOK
  <2>2. MessageGood(f, used.gestures, history, p, m)
    BY <1>2 DEF Booked, Good
  <2>3. ASSUME m.kind = "propose" PROVE Entered(f2, g2, m.cmd)
    <3>1. m.cmd \in Commands
      BY <2>1, <2>3, MessageFields DEF Proposals
    <3>2. m.cmd.id \in Ids /\ Entered(f, used.gestures, m.cmd)
      BY <2>2, <2>3, <3>1 DEF MessageGood, Commands
    <3>3. QED BY <3>2 DEF Better
  <2>4. ASSUME NoReturn PROVE MessageTrue(h, p, m)
    <3>1. MessageTrue(history, p, m)
      BY <2>2, <2>4 DEF MessageGood
    <3>2. QED BY <2>1, <3>1, MessageLonger
  <2>5. QED BY <2>3, <2>4 DEF MessageGood
<1>3. NetGood(net, f2, g2, h)
  BY <1>0, <1>2 DEF NetGood, TypeOK
<1>4. QED BY <1>1, <1>3 DEF Written

\* The first message has been taken, another is sent.
LEMMA TakenGood ==
  ASSUME TypeOK, NEW f, NEW g, NEW h, NetGood(net, f, g, h), NEW p \in Peers, NEW q \in Peers,
         net[p][q] # <<>>
  PROVE  NetGood(Taken(p, q), f, g, h)
<1>1. net \in Nets
  BY DEF TypeOK
<1>2. /\ Taken(p, q) \in Nets
      /\ \A a, b \in Peers : Way(Taken(p, q), a, b) \subseteq Way(net, a, b)
  BY <1>1, TakenWay
<1>3. QED BY <1>2 DEF NetGood

\* What is said is good, and so is all that is under way then.
LEMMA SentGood ==
  ASSUME NEW f, NEW g, NEW h, NEW n, NetGood(n, f, g, h), NEW p \in Peers, NEW D \in SUBSET Peers,
         NEW m \in Messages, MessageGood(f, g, h, p, m)
  PROVE  NetGood(Sent(n, p, D, m), f, g, h)
<1>1. n \in Nets /\ \A a, b \in Peers : \A x \in Way(n, a, b) : MessageGood(f, g, h, a, x)
  BY DEF NetGood
<1>2. /\ Sent(n, p, D, m) \in Nets
      /\ \A a, b \in Peers : \A x \in Way(Sent(n, p, D, m), a, b) :
            x \in Way(n, a, b) \/ (a = p /\ b \in D /\ x = m)
  BY <1>1, SentWay
<1>3. QED BY <1>1, <1>2 DEF NetGood

\* What keeps the invariant when no host changes.
LEMMA WrittenKeeps ==
  ASSUME NEW f \in [Ids -> Nat], NEW g, NEW h, Written(f, g, h), NEW p \in Peers, NEW b,
         TypeOK, board' = [board EXCEPT ![p] = b], BoardGood(f, g, h, p, b), NetGood(net', f, g, h),
         hosts' = hosts, heard' = heard, history' = h, used'.gestures = g,
         DrawnOnce', (NoReturn => HandoffsTrue /\ NoStaleGesture)'
  PROVE  CInv'
<1>1. \A q \in Peers : BoardGood(f, used.gestures, history, q, board[q])'
                       <=> BoardGood(f, g, h, q, board'[q])
  BY DEF BoardGood, BoardTrue, NoReturn, Reign, Since, Host, IsHost
<1>2. \A a, c \in Peers : \A m \in Way(net', a, c) :
        MessageGood(f, used.gestures, history, a, m)' <=> MessageGood(f, g, h, a, m)
  BY DEF MessageGood, MessageTrue, EntryTrue, NotLater, NoReturn, Reign, Since
<1>3. \A q \in Peers : board'[q] = IF q = p THEN b ELSE board[q]
  BY DEF TypeOK
<1>4. Good(f, used.gestures, history)'
  <2>1. LogGood(f, used.gestures, history)'
    BY DEF Written, LogGood
  <2>2. \A q \in Peers : BoardGood(f, used.gestures, history, q, board[q])'
    BY <1>1, <1>3 DEF Written
  <2>3. \A a, c \in Peers : \A m \in Way(net', a, c) : MessageGood(f, used.gestures, history, a, m)'
    BY <1>2 DEF NetGood
  <2>4. QED BY <2>1, <2>2, <2>3 DEF Good, Way
<1>5. QED BY <1>4 DEF CInv

\* A proposal is entered.
LEMMA ProposeCounts ==
  ASSUME IInv, CInv, NEW p \in Peers, NEW kind \in {"add", "undo"}, Propose(p, kind)
  PROVE  CInv'
<1>0. TypeOK
  BY DEF IInv
<1> DEFINE D == {Host(p)} \cap Others(p)
           c == Gesture(p, kind)
           s == IF Full(net, p, D) THEN "readonly" ELSE "ready"
           a == [board[p] EXCEPT !.pending = @ \cup {c}]
           b == [a EXCEPT !.state = s]
           m == [kind |-> "propose", host |-> Host(p), cmd |-> c]
           g == used.gestures + 1
<1>1. /\ board[p].state = "ready"
      /\ board' = [board EXCEPT ![p].pending = @ \cup {c}, ![p].state = s]
      /\ net' = Sent(net, p, D, m)
      /\ used' = [used EXCEPT !.gestures = @ + 1]
      /\ hosts' = hosts /\ heard' = heard /\ history' = history
  BY DEF Propose
<1>2. c \in Commands /\ c.id = <<p, g>> /\ c.epoch = board[p].doc.epoch /\ c.seen = board[p].seq
  <2>1. board[p].seq \in Nat /\ board[p].doc.epoch \in Nat /\ used.gestures \in Nat
    BY <1>0, BoardFields, DocFields DEF TypeOK, Counts
  <2>2. QED BY <2>1 DEF Gesture, Commands, Ids, Drawing
<1>3. PICK f \in [Ids -> Nat] : Good(f, used.gestures, history)
  BY DEF CInv
<1>4. Booked(f)
  BY <1>3 DEF Booked, CInv
<1> DEFINE f2 == Enter(f, p)
<1>5. f2 \in [Ids -> Nat] /\ Better(f, used.gestures, f2, g) /\ Entered(f2, g, c)
  BY <1>0, <1>2, EnterBetter
<1>6. used'.gestures = g
  BY <1>0, <1>1 DEF TypeOK, Counts
<1> HIDE DEF c, f2, g
<1>7. m \in Messages /\ m.kind = "propose" /\ m.cmd = c
  BY <1>0, <1>2, HostType DEF Messages, Proposals
<1>8. D \in SUBSET Peers
  BY OthersType
<1>9. s \in States /\ s # "none"
  BY DEF States
<1> HIDE DEF m, D, s
<1>10. Written(f2, g, history)
  <2>1. LogGood(f2, g, history)
    BY <1>0, <1>3, <1>5, BetterLog DEF Good
  <2>2. Longer(history, history)
    BY <1>0 DEF Longer, Log, TypeOK
  <2>3. QED BY <1>4, <1>5, <2>1, <2>2, WrittenNow
<1>11. NoReturn => Begun(history, c)
  <2>1. SUFFICES ASSUME NoReturn PROVE Begun(history, c)
    OBVIOUS
  <2>2. NowGood(f, p, board[p])
    BY <1>4, BoardsNow
  <2>3. board[p].source = None
    BY <1>1, <2>1, <2>2 DEF NowGood, BoardGood, BoardTrue
  <2>4. Told(p)
    BY <1>1, <1>4, <2>1, <2>3, ToldNow
  <2>5. board[p].seq \in 0..Len(history)
    BY SeqInLog
  <2>6. QED BY <1>2, <2>4, <2>5 DEF Told, Shows, Like, Begun
<1>12. NetGood(net', f2, g, history)
  <2>1. MessageGood(f2, g, history, p, m)
    BY <1>5, <1>7, <1>11 DEF MessageGood, MessageTrue
  <2>2. QED BY <1>1, <1>7, <1>8, <1>10, <2>1, SentGood DEF Written
<1>13. board' = [board EXCEPT ![p] = b]
  BY <1>0, <1>1 DEF TypeOK
<1>14. BoardGood(f2, g, history, p, b)
  <2>1. board[p] \in Boards /\ BoardGood(f2, g, history, p, board[p])
    BY <1>0, <1>10 DEF TypeOK, Written
  <2>2. /\ b.state = s /\ b.seq = board[p].seq /\ b.doc = board[p].doc
        /\ b.source = board[p].source /\ b.offering = board[p].offering /\ b.log = board[p].log
        /\ b.known = board[p].known /\ b.locked = board[p].locked
        /\ b.pending = board[p].pending \cup {c}
    BY <2>1 DEF Boards
  <2> HIDE DEF b
  <2>3. NoReturn => BoardTrue(history, p, board[p])
    BY <1>1, <2>1 DEF BoardGood
  <2>4. NoReturn => BoardTrue(history, p, b)
    BY <1>1, <1>11, <2>2, <2>3 DEF BoardTrue
  <2>5. QED BY <1>5, <2>1, <2>2, <2>4 DEF BoardGood
<1>15. DrawnOnce'
  BY <1>1 DEF CInv, DrawnOnce
<1>16. (NoReturn => HandoffsTrue /\ NoStaleGesture)'
  BY <1>1 DEF CInv, NoReturn, HandoffsTrue, NoStaleGesture, Reign, OldHost, NewHost, Since
<1> HIDE DEF b
<1>17. QED BY <1>0, <1>1, <1>5, <1>6, <1>10, <1>12, <1>13, <1>14, <1>15, <1>16, WrittenKeeps

-----------------------------------------------------------------------------
(* One number more *)

\* The log with one number more.
More(e) == Append(history, e)
\* What it makes.
Grown(e) == Turn(Made(history, Len(history)), e)
\* The command has no number yet, and its author has seen the present interaction.
New(e) == e.kind \in Drawing =>
            \A i \in 1..Len(history) : history[i].kind \in Drawing => history[i].id # e.id
Timely(e) == e.kind \in Drawing =>
               \A j \in (e.seen + 1)..Len(history) : history[j].kind \in {"add", "undo"}

\* What is said of the longer log.
LEMMA MoreIs ==
  ASSUME TypeOK, NEW e \in Entries \cup Handoffs
  PROVE  /\ More(e) \in Log /\ history \in Log /\ Longer(history, More(e))
         /\ Len(history) \in Nat /\ Len(More(e)) = Len(history) + 1
         /\ More(e)[Len(history) + 1] = e
         /\ \A i \in 1..Len(history) : More(e)[i] = history[i]
         /\ Made(More(e), Len(history) + 1) = Grown(e)
<1>1. /\ More(e) \in Log /\ history \in Log
      /\ Len(history) \in Nat /\ Len(More(e)) = Len(history) + 1
      /\ More(e)[Len(history) + 1] = e
      /\ \A i \in 1..Len(history) : More(e)[i] = history[i]
  BY DEF TypeOK, More, Log
<1>2. Longer(history, More(e))
  BY <1>1 DEF Longer
<1>3. Len(history) \in 0..Len(history)
  BY <1>1
<1>4. Made(More(e), Len(history)) = Made(history, Len(history))
  BY <1>2, <1>3, LogLonger
<1>5. Made(More(e), Len(history) + 1) = Turn(Made(More(e), Len(history)), More(e)[Len(history) + 1])
  BY <1>1, MadeNext
<1>6. QED BY <1>1, <1>2, <1>4, <1>5 DEF Grown

\* A number that is no handoff names no host.
LEMMA SinceEntry ==
  ASSUME TypeOK, NEW e \in Entries
  PROVE  /\ \A x : Since(More(e), x, Len(history) + 1) <=> Since(history, x, Len(history))
         /\ \A p : NotLater(history, p, Len(history)) => NotLater(More(e), p, Len(history) + 1)
<1>1. e.kind # "handoff"
  BY EntryFields DEF Drawing
<1>2. /\ Len(history) \in Nat /\ Len(More(e)) = Len(history) + 1
      /\ More(e)[Len(history) + 1] = e
      /\ \A i \in 1..Len(history) : More(e)[i] = history[i]
  BY MoreIs
<1>3. ASSUME NEW x PROVE Since(More(e), x, Len(history) + 1) <=> Since(history, x, Len(history))
  <2>1. ASSUME NEW i \in 1..Len(More(e)), More(e)[i].kind = "handoff", More(e)[i].host = x
        PROVE  Since(history, x, Len(history))
    <3>1. i # Len(history) + 1
      BY <1>1, <1>2, <2>1
    <3>2. i \in 1..Len(history) /\ i <= Len(history)
      BY <1>2, <3>1
    <3>3. QED BY <1>2, <2>1, <3>2 DEF Since
  <2>2. ASSUME NEW i \in 1..Len(history), history[i].kind = "handoff", history[i].host = x
        PROVE  Since(More(e), x, Len(history) + 1)
    <3>1. i \in 1..Len(More(e)) /\ i <= Len(history) + 1
      BY <1>2
    <3>2. QED BY <1>2, <2>2, <3>1 DEF Since
  <2>3. x = FirstHost => Since(More(e), x, Len(history) + 1) /\ Since(history, x, Len(history))
    BY DEF Since
  <2>4. QED BY <2>1, <2>2, <2>3 DEF Since
<1>4. QED BY <1>3 DEF NotLater

\* The board of the authority that has given the number e.
Gives(p, e, d, known, locked) ==
  /\ e.seq = board[p].seq + 1
  /\ \A k \in known : k \in board[p].known \/ k = e
  /\ \A x \in d.accepted : x \in board[p].doc.accepted \/ (e.kind \in Drawing /\ x = e.id)
  /\ NoReturn => Like(d, Grown(e).doc) /\ locked = Grown(e).locked

\* It is true, and so is what the authority says.
LEMMA NumberTrue ==
  ASSUME IInv, NEW f, Booked(f), NoReturn, NEW p \in Peers, Leads(p), NEW e \in Entries,
         NEW d \in Docs, NEW known \in SUBSET Drawings, NEW locked \in BOOLEAN,
         Gives(p, e, d, known, locked), NEW b \in Boards,
         b.seq = board[p].seq + 1, b.doc = d, b.known = known, b.locked = locked,
         b.log = Logged(board[p].log, e), b.source = None, b.pending = board[p].pending
  PROVE  /\ BoardTrue(More(e), p, b)
         /\ MessageTrue(More(e), p, CommitOf(p, e))
<1> DEFINE n == Len(history)
           a == board[p]
<1>0. TypeOK /\ SeqInv
  BY DEF IInv
<1>1. a \in Boards /\ a.log \in Seq(Entries) /\ a.seq = n /\ e.seq = n + 1 /\ b.seq = n + 1
      /\ n \in Nat /\ n \in Int /\ n + 1 \in 1..(n + 1) /\ e.seq - 1 = n
  <2>1. a.seq = n /\ e.seq = n + 1 /\ b.seq = n + 1
    BY <1>0 DEF SeqInv, Gives
  <2>2. a \in Boards /\ a.log \in Seq(Entries) /\ n \in Nat
    BY <1>0, BoardFields DEF TypeOK
  <2> HIDE DEF a, n
  <2>3. QED BY <2>1, <2>2
<1>2. /\ BoardTrue(history, p, a) /\ Host(p) = p /\ Since(history, p, n)
      /\ NotLater(history, p, n)
  <2>1. n <= a.seq
    BY <1>1
  <2>2. QED BY <1>1, <2>1, AuthorityNow DEF Told
<1>3. /\ Longer(history, More(e)) /\ Len(More(e)) = n + 1 /\ More(e)[n + 1] = e
      /\ Made(More(e), n + 1) = Grown(e)
  BY <1>0, MoreIs
<1>4. \A x : Since(More(e), x, n + 1) <=> Since(history, x, n)
  BY <1>0, SinceEntry
<1>5. NotLater(More(e), p, n + 1)
  BY <1>0, <1>2, SinceEntry
<1>6. Recorded(More(e), e) /\ Since(More(e), p, e.seq - 1)
  <2>1. n <= Len(history)
    BY <1>1
  <2>2. Since(More(e), p, n)
    BY <1>1, <1>2, <1>3, <2>1, SinceLonger
  <2>3. QED BY <1>1, <1>3, <2>2 DEF Recorded
<1>7. \A k : Recorded(history, k) /\ Since(history, p, k.seq - 1) =>
               Recorded(More(e), k) /\ Since(More(e), p, k.seq - 1)
  <2>1. TAKE k
  <2>2. HAVE Recorded(history, k) /\ Since(history, p, k.seq - 1)
  <2>3. Recorded(More(e), k) /\ k.seq \in Nat /\ k.seq <= Len(history)
    BY <1>3, <2>2, LogLonger
  <2>4. k.seq - 1 \in Int /\ k.seq - 1 <= Len(history)
    BY <1>1, <2>3
  <2>5. QED BY <1>3, <2>2, <2>3, <2>4, SinceLonger
<1>8. \A x : Drew(history, n, x) => Drew(More(e), n + 1, x)
  <2>1. \A x : Drew(history, n, x) => Drew(More(e), n, x)
    BY <1>3, LogLonger
  <2>2. ASSUME NEW x, Drew(More(e), n, x) PROVE Drew(More(e), n + 1, x)
    <3>1. PICK i \in 1..Len(More(e)) : i <= n /\ More(e)[i].kind \in Drawing /\ More(e)[i].id = x
      BY <2>2 DEF Drew
    <3>2. i <= n + 1
      BY <1>1, <1>3, <3>1
    <3>3. QED BY <3>1, <3>2 DEF Drew
  <2>3. QED BY <2>1, <2>2
<1>9. e.kind \in Drawing => Drew(More(e), n + 1, e.id)
  <2>1. n + 1 \in 1..Len(More(e)) /\ n + 1 <= n + 1
    BY <1>1, <1>3
  <2>2. QED BY <1>3, <2>1 DEF Drew
<1>10. \A k \in 1..Len(b.log) : b.log[k] = e \/ \E i \in 1..Len(a.log) : b.log[k] = a.log[i]
  <2> DEFINE l == a.log
             t == Logged(l, e)
  <2>1. l \in Seq(Entries) /\ b.log = t
    BY <1>1
  <2> HIDE DEF l
  <2>2. \A k \in 1..Len(t) : t[k] = e \/ \E i \in 1..Len(l) : t[k] = l[i]
    BY <2>1, LoggedType
  <2> HIDE DEF t
  <2>3. \A k \in 1..Len(b.log) : b.log[k] = e \/ \E i \in 1..Len(l) : b.log[k] = l[i]
    BY <2>1, <2>2
  <2>4. QED BY <2>3 DEF l
<1> HIDE DEF a, n
<1>11. BoardTrue(More(e), p, b)
  <2>1. \A i \in 1..Reign : heard[p] < i => ~Since(More(e), hosts[i], b.seq)
    BY <1>1, <1>2, <1>4 DEF BoardTrue
  <2>2. Shows(More(e), b.seq, b.doc, b.locked) /\ Since(More(e), Host(p), b.seq)
    BY <1>1, <1>2, <1>3, <1>4 DEF Gives, Shows
  <2>3. \A k \in 1..Len(b.log) : Recorded(More(e), b.log[k]) /\ Since(More(e), p, b.log[k].seq - 1)
    <3>1. TAKE k \in 1..Len(b.log)
    <3>2. CASE b.log[k] = e
      BY <1>6, <3>2
    <3>3. CASE \E i \in 1..Len(a.log) : b.log[k] = a.log[i]
      BY <1>2, <1>7, <3>3 DEF BoardTrue
    <3>4. QED BY <1>10, <3>2, <3>3
  <2>4. \A k \in b.known : Recorded(More(e), k) /\ Since(More(e), p, k.seq - 1)
    <3>1. \A k \in a.known : Recorded(history, k) /\ Since(history, p, k.seq - 1)
      BY <1>2 DEF BoardTrue
    <3>2. \A k \in b.known : k \in a.known \/ k = e
      BY DEF Gives, a
    <3>3. QED BY <1>6, <1>7, <3>1, <3>2
  <2>5. \A x \in b.doc.accepted : Drew(More(e), b.seq, x)
    <3>1. \A x \in a.doc.accepted : Drew(history, n, x)
      BY <1>1, <1>2 DEF BoardTrue
    <3>2. \A x \in b.doc.accepted : x \in a.doc.accepted \/ (e.kind \in Drawing /\ x = e.id)
      BY DEF Gives, a
    <3>3. QED BY <1>1, <1>8, <1>9, <3>1, <3>2
  <2>6. \A c \in b.pending : Begun(More(e), c)
    BY <1>2, <1>3, LogLonger DEF BoardTrue, a
  <2>7. QED BY <2>1, <2>2, <2>3, <2>4, <2>5, <2>6 DEF BoardTrue
<1>12. MessageTrue(More(e), p, CommitOf(p, e))
  <2> DEFINE m == CommitOf(p, e)
  <2>1. m.kind = "commit" /\ m.host = p /\ m.entry = e
    BY <1>2 DEF CommitOf
  <2> HIDE DEF m
  <2>2. MessageTrue(More(e), p, m)
    BY <1>1, <1>5, <1>6, <2>1 DEF MessageTrue, EntryTrue
  <2>3. QED BY <2>2 DEF m
<1>13. QED BY <1>11, <1>12

\* The log with one entry is still as it should be.
LEMMA LogKeeps ==
  ASSUME TypeOK, CInv, NEW e \in Entries, New(e), NoReturn => Timely(e),
         history' = More(e), hosts' = hosts, heard' = heard
  PROVE  DrawnOnce' /\ (NoReturn => HandoffsTrue /\ NoStaleGesture)'
<1> DEFINE n == Len(history)
<1>1. /\ Longer(history, More(e)) /\ history \in Log
      /\ n \in Nat /\ Len(More(e)) = n + 1 /\ More(e)[n + 1] = e
      /\ \A i \in 1..n : More(e)[i] = history[i]
  BY MoreIs
<1>2. e.kind # "handoff"
  BY EntryFields DEF Drawing
<1>3. \A i \in 1..Len(history') : i = n + 1 \/ i \in 1..n
  BY <1>1
<1>4. /\ Len(history') = n + 1 /\ history'[n + 1] = e
      /\ \A i \in 1..n : history'[i] = history[i]
  BY <1>1
<1>5. \A x : Since(history, x, n) => Since(history', x, n + 1)
  BY SinceEntry
<1>6. \A i, j \in 1..n : {history[i].kind, history[j].kind} \subseteq Drawing
                         /\ history[i].id = history[j].id => i = j
  BY DEF CInv, DrawnOnce, Drawing
<1>7. ASSUME NEW i \in 1..Len(history'), NEW j \in 1..Len(history'),
             {history'[i].kind, history'[j].kind} \subseteq Drawing, history'[i].id = history'[j].id
      PROVE  i = j
  BY <1>3, <1>4, <1>6, <1>7 DEF New
<1>8. DrawnOnce'
  BY <1>7 DEF DrawnOnce, Drawing
<1>9. ASSUME NoReturn PROVE HandoffsTrue'
  <2>1. HandoffsTrue
    BY <1>9 DEF CInv
  <2>2. hosts[1] = FirstHost /\ (Reign > 1 /\ heard[OldHost] = Reign => Since(history', NewHost, n + 1))
    BY <1>5, <2>1 DEF HandoffsTrue
  <2>3. \A k \in 1..Len(history') : history'[k].kind = "handoff" =>
          \E j \in 2..Reign : history'[k].host = hosts[j] /\ (j = Reign => heard[OldHost] = Reign)
    BY <1>2, <1>3, <1>4, <2>1 DEF HandoffsTrue
  <2>4. Reign' = Reign /\ OldHost' = OldHost /\ NewHost' = NewHost
    BY DEF Reign, OldHost, NewHost
  <2>5. (Since(history, NewHost, Len(history)))' <=> Since(history', NewHost, n + 1)
    BY <1>4, <2>4 DEF Since
  <2>6. QED BY <2>2, <2>3, <2>4, <2>5 DEF HandoffsTrue
<1>10. ASSUME NoReturn PROVE NoStaleGesture'
  <2>1. ASSUME NEW i \in 1..Len(history'), history'[i].kind \in Drawing,
               NEW j \in (history'[i].seen + 1)..(i - 1)
        PROVE  history'[j].kind \in {"add", "undo"}
    <3>1. CASE i = n + 1
      <4>1. e.kind \in Drawing /\ history'[i] = e /\ i - 1 = n
        BY <1>1, <1>4, <2>1, <3>1
      <4>2. e.seen \in Nat /\ j \in (e.seen + 1)..n
        BY <2>1, <4>1, EntryFields DEF Drawing
      <4>3. j \in 1..n
        BY <1>1, <4>2
      <4>4. QED BY <1>4, <1>10, <4>1, <4>2, <4>3 DEF Timely
    <3>2. CASE i \in 1..n
      <4>1. history'[i] = history[i] /\ history[i].kind \in Drawing
        BY <1>4, <2>1, <3>2
      <4>2. history[i] \in Drawings
        BY <3>2, <4>1, DrawnEpochs
      <4>3. history[i].seen \in Nat
        BY <4>2 DEF Drawings
      <4>4. j \in 1..n /\ j \in (history[i].seen + 1)..(i - 1)
        BY <1>1, <2>1, <3>2, <4>1, <4>3
      <4>5. NoStaleGesture
        BY <1>10 DEF CInv
      <4>6. QED BY <1>4, <3>2, <4>1, <4>4, <4>5 DEF NoStaleGesture, Drawing
    <3>3. QED BY <1>3, <3>1, <3>2
  <2>2. QED BY <2>1 DEF NoStaleGesture, Drawing
<1>11. NoReturn' <=> NoReturn
  BY DEF NoReturn, Reign
<1>12. QED BY <1>8, <1>9, <1>10, <1>11

\* The authority gives a number.
LEMMA NumberCounts ==
  ASSUME IInv, CInv, NEW f, Booked(f), NEW p \in Peers, Leads(p), NEW e \in Entries,
         NEW d \in Docs, NEW known \in SUBSET Drawings, NEW locked \in BOOLEAN,
         Gives(p, e, d, known, locked), New(e), NoReturn => Timely(e),
         NEW f2 \in [Ids -> Nat], NEW g2, Better(f, used.gestures, f2, g2),
         e.kind \in Drawing => Entered(f2, g2, e),
         board' = [board EXCEPT ![p] = NumberSet(board[p], board[p].seq + 1, d,
                                                Logged(board[p].log, e), known, locked)],
         history' = More(e), hosts' = hosts, heard' = heard, used'.gestures = g2,
         NEW n \in Nets, \A a, b \in Peers : Way(n, a, b) \subseteq Way(net, a, b),
         net' = Sent(n, p, Others(p), CommitOf(p, e))
  PROVE  CInv'
<1> DEFINE a == board[p]
           log == Logged(a.log, e)
           b == NumberSet(a, a.seq + 1, d, log, known, locked)
           m == CommitOf(p, e)
           D == Others(p)
           h == More(e)
<1>0. TypeOK
  BY DEF IInv
<1>1. a \in Boards /\ a.seq + 1 \in Nat /\ a.log \in Seq(Entries) /\ a.pending \in SUBSET Commands
  BY <1>0, BoardFields DEF TypeOK
<1>2. log \in Seq(Entries)
  <2> DEFINE l == a.log
  <2>1. l \in Seq(Entries)
    BY <1>1
  <2> HIDE DEF l
  <2>2. Logged(l, e) \in Seq(Entries)
    BY <2>1, LoggedType
  <2>3. QED BY <2>2 DEF l
<1> HIDE DEF log
<1>3. /\ b \in Boards /\ b.seq = a.seq + 1 /\ b.doc = d /\ b.log = log /\ b.known = known
      /\ b.state = a.state /\ b.source = a.source /\ b.locked = locked /\ b.pending = a.pending
  BY <1>1, <1>2, NumberSetType
<1>4. board' = [board EXCEPT ![p] = b] /\ net' = Sent(n, p, D, m) /\ b.log = Logged(board[p].log, e)
  BY <1>3 DEF log
<1> HIDE DEF b
<1>5. m \in Messages /\ m.kind = "commit"
  BY <1>0, HostType DEF CommitOf, Messages, Commits
<1>6. D \in SUBSET Peers
  BY OthersType
<1>7. board[p].source = None
  BY DEF Leads
<1>8. NoReturn => BoardTrue(h, p, b) /\ MessageTrue(h, p, m)
  BY <1>3, <1>4, <1>7, NumberTrue
<1>9. LogGood(f2, g2, h)
  <2>1. LogGood(f2, g2, history)
    BY <1>0, BetterLog DEF Booked, Good
  <2>2. Len(h) = Len(history) + 1 /\ Len(history) \in Nat /\ h[Len(history) + 1] = e
        /\ \A i \in 1..Len(history) : h[i] = history[i]
    BY <1>0, MoreIs
  <2>3. \A i \in 1..Len(h) : i = Len(history) + 1 \/ i \in 1..Len(history)
    BY <2>2
  <2> HIDE DEF h
  <2>4. QED BY <2>1, <2>2, <2>3 DEF LogGood
<1>10. Longer(history, h)
  BY <1>0, MoreIs
<1>11. DrawnOnce' /\ (NoReturn => HandoffsTrue /\ NoStaleGesture)'
  BY <1>0, LogKeeps
<1> HIDE DEF m, D, h
<1>12. Written(f2, g2, h)
  BY <1>9, <1>10, WrittenNow
<1>13. NetGood(net', f2, g2, h)
  <2>1. NetGood(n, f2, g2, h)
    BY <1>12 DEF Written, NetGood
  <2>2. MessageGood(f2, g2, h, p, m)
    BY <1>5, <1>8 DEF MessageGood
  <2>3. QED BY <1>4, <1>5, <1>6, <2>1, <2>2, SentGood
<1>14. BoardGood(f2, g2, h, p, b)
  <2>1. BoardGood(f2, g2, h, p, board[p])
    BY <1>12 DEF Written
  <2>2. QED BY <1>3, <1>8, <2>1 DEF BoardGood
<1>15. history' = h
  BY DEF h
<1>16. \A x \in [Ids -> Nat] : \A y, z : \A c :
          /\ Written(x, y, z) /\ board' = [board EXCEPT ![p] = c] /\ BoardGood(x, y, z, p, c)
          /\ NetGood(net', x, y, z) /\ history' = z /\ used'.gestures = y
          => CInv'
  BY <1>0, <1>11, WrittenKeeps
<1> HIDE DEF a
<1>17. QED BY <1>4, <1>12, <1>13, <1>14, <1>15, <1>16

\* A lock.
LEMMA LockCounts ==
  ASSUME IInv, CInv, NEW p \in Peers, Lock(p)
  PROVE  CInv'
<1> DEFINE a == board[p]
           e == [seq |-> a.seq + 1, kind |-> "lock", locked |-> ~a.locked]
           d == Barrier(a.doc)
<1>0. TypeOK /\ SeqInv
  BY DEF IInv
<1>1. a \in Boards /\ a.doc \in Docs /\ a.known \in SUBSET Drawings /\ a.locked \in BOOLEAN
      /\ a.seq \in Nat
  BY <1>0, BoardFields DEF TypeOK
<1>2. /\ Leads(p) /\ a.state = "ready"
      /\ board' = [board EXCEPT ![p] = [Committed(a, e, d) EXCEPT !.locked = ~@]]
      /\ net' = Sent(net, p, Others(p), CommitOf(p, e))
      /\ history' = More(e)
      /\ used' = [used EXCEPT !.locks = @ + 1]
      /\ hosts' = hosts /\ heard' = heard
  BY DEF Lock, More
<1>3. used'.gestures = used.gestures
  BY <1>0, <1>2 DEF TypeOK, Counts
<1>4. e \in Entries /\ e.seq = a.seq + 1 /\ e.kind = "lock" /\ e.locked = ~a.locked
  BY <1>1 DEF Entries, Locks
<1>5. d \in Docs /\ d.accepted = {}
  BY <1>1, BarrierType
<1>6. PICK f \in [Ids -> Nat] : Good(f, used.gestures, history)
  BY DEF CInv
<1>7. Booked(f)
  BY <1>6 DEF Booked, CInv
<1>8. Committed(a, e, d).locked = a.locked
  BY <1>1 DEF Committed, Boards
<1>9. board' = [board EXCEPT ![p] = NumberSet(a, a.seq + 1, d, Logged(a.log, e), a.known, ~a.locked)]
  <2>1. board' = [board EXCEPT ![p] = [Committed(a, e, d) EXCEPT !.locked = ~a.locked]]
    BY <1>2, <1>8
  <2> DEFINE l == [Committed(a, e, d) EXCEPT !.locked = ~a.locked]
             r == NumberSet(a, a.seq + 1, d, Logged(a.log, e), a.known, ~a.locked)
  <2>2. l = r
    <3> HIDE DEF e, d, a
    <3>1. QED BY <1>1, LockedIs
  <2> HIDE DEF l, r
  <2>3. board' = [board EXCEPT ![p] = l]
    BY <2>1 DEF l
  <2>4. board' = [board EXCEPT ![p] = r]
    BY <2>2, <2>3
  <2>5. QED BY <2>4 DEF r
<1> HIDE DEF e
<1>10. ASSUME NoReturn PROVE Like(d, Grown(e).doc) /\ (~a.locked) = Grown(e).locked
  <2>1. Shows(history, a.seq, a.doc, a.locked) /\ a.seq = Len(history)
    BY <1>0, <1>2, <1>7, <1>10, AuthorityNow DEF Told, SeqInv
  <2>2. Made(history, Len(history)).doc \in Docs
    <3>1. history \in Log /\ Len(history) \in 0..Len(history)
      BY <1>0, MoreIs, <1>4
    <3>2. QED BY <3>1, MadeType
  <2>3. Grown(e).doc = Barrier(Made(history, Len(history)).doc) /\ Grown(e).locked = e.locked
    BY <1>4 DEF Grown, Turn
  <2>4. QED BY <1>1, <1>4, <2>1, <2>2, <2>3, LikeBarrier DEF Shows
<1> HIDE DEF d
<1>11. Gives(p, e, d, a.known, ~a.locked)
  BY <1>4, <1>5, <1>10 DEF Gives
<1>12. New(e) /\ Timely(e) /\ e.kind \notin Drawing
  BY <1>4 DEF New, Timely, Drawing
<1>13. (~a.locked) \in BOOLEAN
  BY <1>1
<1>14. net \in Nets /\ \A x, y \in Peers : Way(net, x, y) \subseteq Way(net, x, y)
  BY <1>0 DEF TypeOK
<1>15. Better(f, used.gestures, f, used.gestures)
  BY BetterItself
<1> DEFINE l == ~a.locked
           k == a.known
<1>16. /\ l \in BOOLEAN /\ k \in SUBSET Drawings /\ Gives(p, e, d, k, l)
       /\ board' = [board EXCEPT ![p] = NumberSet(board[p], board[p].seq + 1, d,
                                                Logged(board[p].log, e), k, l)]
  BY <1>1, <1>9, <1>11, <1>13
<1> HIDE DEF l, k
<1>17. e.kind \in Drawing => Entered(f, used.gestures, e)
  BY <1>12
<1>18. NoReturn => Timely(e)
  BY <1>12
<1> HIDE DEF a
<1>19. \A x \in Docs : \A y \in SUBSET Drawings : \A z \in BOOLEAN :
          /\ Gives(p, e, x, y, z)
          /\ board' = [board EXCEPT ![p] = NumberSet(board[p], board[p].seq + 1, x,
                                                    Logged(board[p].log, e), y, z)]
          => CInv'
  BY <1>2, <1>3, <1>4, <1>6, <1>7, <1>12, <1>14, <1>15, <1>17, <1>18, NumberCounts
<1>20. QED BY <1>5, <1>16, <1>19

\* The number is e's: all that NumberCounts asks but for what the board becomes.
Numbers(f, p, e, f2, g2, n) ==
  /\ Leads(p) /\ New(e) /\ (NoReturn => Timely(e))
  /\ Better(f, used.gestures, f2, g2) /\ (e.kind \in Drawing => Entered(f2, g2, e))
  /\ history' = More(e) /\ hosts' = hosts /\ heard' = heard /\ used'.gestures = g2
  /\ \A a, b \in Peers : Way(n, a, b) \subseteq Way(net, a, b)
  /\ net' = Sent(n, p, Others(p), CommitOf(p, e))
\* The board becomes what Gives says.
Becomes(p, e, d, known, locked) ==
  /\ Gives(p, e, d, known, locked)
  /\ board' = [board EXCEPT ![p] = NumberSet(board[p], board[p].seq + 1, d,
                                            Logged(board[p].log, e), known, locked)]

\* The same with the premises in two parts.
LEMMA NumbersCount ==
  ASSUME IInv, CInv, NEW f, Booked(f), NEW p \in Peers, NEW e \in Entries,
         NEW f2 \in [Ids -> Nat], NEW g2, NEW n \in Nets, Numbers(f, p, e, f2, g2, n)
  PROVE  \A d \in Docs : \A known \in SUBSET Drawings : \A locked \in BOOLEAN :
           Becomes(p, e, d, known, locked) => CInv'
<1>1. Leads(p) /\ New(e) /\ (NoReturn => Timely(e))
  BY DEF Numbers
<1>2. Better(f, used.gestures, f2, g2) /\ (e.kind \in Drawing => Entered(f2, g2, e))
  BY DEF Numbers
<1>3. history' = More(e) /\ hosts' = hosts /\ heard' = heard /\ used'.gestures = g2
  BY DEF Numbers
<1>4. (\A a, b \in Peers : Way(n, a, b) \subseteq Way(net, a, b))
      /\ net' = Sent(n, p, Others(p), CommitOf(p, e))
  BY DEF Numbers
<1>5. QED BY <1>1, <1>2, <1>3, <1>4, NumberCounts DEF Becomes

\* A drawing depends on the kind and the author of a command only.
LEMMA DrawnSame ==
  ASSUME NEW d, NEW c, NEW e, e.kind = c.kind, e.id = c.id
  PROVE  Drawn(d, e) = Drawn(d, c)
BY DEF Drawn

\* The authority carries a command out.
LEMMA CommandCounts ==
  ASSUME IInv, CInv, NEW f, Booked(f), NEW p \in Peers, Leads(p), NEW c \in Commands,
         Verdict(board[p].doc, c, p) = "applied", New(c), NoReturn => Begun(history, c),
         NEW f2 \in [Ids -> Nat], NEW g2, Better(f, used.gestures, f2, g2), Entered(f2, g2, c),
         board' = [board EXCEPT ![p] =
                     [Committed(board[p], Entry(board[p], c), Drawn(board[p].doc, c))
                        EXCEPT !.known = @ \cup {Entry(board[p], c)}]],
         history' = Append(history, Entry(board[p], c)),
         hosts' = hosts, heard' = heard, used'.gestures = g2,
         NEW n \in Nets, \A x, y \in Peers : Way(n, x, y) \subseteq Way(net, x, y),
         net' = Sent(n, p, Others(p), CommitOf(p, Entry(board[p], c)))
  PROVE  CInv'
<1> DEFINE a == board[p]
           e == Entry(a, c)
           d == Drawn(a.doc, c)
           known == a.known \cup {e}
           l == a.locked
           w == Made(history, Len(history))
<1>0. TypeOK /\ SeqInv
  BY DEF IInv
<1>1. a \in Boards /\ a.doc \in Docs /\ a.known \in SUBSET Drawings /\ a.locked \in BOOLEAN
      /\ a.seq \in Nat /\ a.seq = Len(history)
  BY <1>0, BoardFields DEF TypeOK, SeqInv
<1>2. /\ e \in Entries /\ e \in Drawings /\ e.seq = a.seq + 1
      /\ e.kind = c.kind /\ e.id = c.id /\ e.epoch = c.epoch /\ e.seen = c.seen
  BY <1>1, EntryOf
<1>3. IsCommand(c) /\ c.epoch = a.doc.epoch /\ c.seen \in Nat /\ c.kind \in Drawing /\ e.kind \in Drawing
  BY <1>2, CommandFields, VerdictSays DEF IsCommand
<1>4. d \in Docs /\ \A x \in d.accepted : x \in a.doc.accepted \/ x = e.id
  <2>1. d \in Docs
        /\ (c.kind = "clear" => d.accepted = {c.id})
        /\ (c.kind # "clear" => d.accepted = a.doc.accepted \cup {c.id})
    BY <1>1, <1>3, DrawnType
  <2>2. QED BY <1>2, <2>1
<1>5. Committed(a, e, d).known = a.known
  BY <1>1 DEF Committed, Boards
<1>6. board' = [board EXCEPT ![p] = NumberSet(a, a.seq + 1, d, Logged(a.log, e), known, a.locked)]
  <2>1. board' = [board EXCEPT ![p] = [Committed(a, e, d) EXCEPT !.known = known]]
    BY <1>5
  <2> DEFINE s == [Committed(a, e, d) EXCEPT !.known = known]
             r == NumberSet(a, a.seq + 1, d, Logged(a.log, e), known, a.locked)
  <2>2. s = r
    <3> HIDE DEF known, e, d, a
    <3>1. QED BY <1>1, CommittedIs
  <2> HIDE DEF s, r
  <2>3. board' = [board EXCEPT ![p] = s]
    BY <2>1 DEF s
  <2>4. board' = [board EXCEPT ![p] = r]
    BY <2>2, <2>3
  <2>5. QED BY <2>4 DEF r
<1>7. known \in SUBSET Drawings /\ \A k \in known : k \in a.known \/ k = e
  BY <1>1, <1>2
<1>8. history' = More(e) /\ net' = Sent(n, p, Others(p), CommitOf(p, e))
  BY DEF More
<1>9. ASSUME NoReturn
      PROVE  Shows(history, Len(history), a.doc, a.locked) /\ w \in Makes /\ w.doc \in Docs
  <2>1. Shows(history, a.seq, a.doc, a.locked)
    BY <1>9, AuthorityNow DEF Told
  <2>2. history \in Log /\ Len(history) \in 0..Len(history)
    BY <1>0, <1>2, MoreIs
  <2>3. w \in Makes /\ w.doc \in Docs
    BY <2>2, MadeType
  <2>4. QED BY <1>1, <2>1, <2>3
<1> HIDE DEF e, w
<1>10. ASSUME NoReturn PROVE Like(d, Grown(e).doc) /\ a.locked = Grown(e).locked
  <2>1. Like(a.doc, w.doc) /\ a.locked = w.locked
    BY <1>9, <1>10 DEF Shows, w
  <2>2. Grown(e) = [w EXCEPT !.doc = Drawn(w.doc, e)]
    BY <1>3 DEF Grown, Turn, Drawing, w
  <2>3. Grown(e).doc = Drawn(w.doc, e) /\ Grown(e).locked = w.locked
    BY <1>9, <1>10, <2>2 DEF Makes
  <2>4. Drawn(w.doc, e) = Drawn(w.doc, c)
    BY <1>2, DrawnSame
  <2>5. Like(d, Drawn(w.doc, c))
    BY <1>1, <1>3, <1>9, <1>10, <2>1, LikeDrawn
  <2>6. QED BY <2>1, <2>3, <2>4, <2>5
<1>11. NoReturn => Timely(e)
  <2>1. SUFFICES ASSUME NoReturn PROVE Timely(e)
    OBVIOUS
  <2>2. w.doc.epoch = a.doc.epoch
    BY <1>9, <2>1 DEF Shows, Like, w
  <2>3. c.seen \in 0..Len(history) /\ c.epoch = Made(history, c.seen).doc.epoch
    BY <2>1 DEF Begun
  <2>4. history \in Log /\ Len(history) \in 0..Len(history) /\ c.seen <= Len(history)
    <3>1. history \in Log /\ Len(history) \in Nat
      BY <1>0, <1>2, MoreIs
    <3>2. QED BY <2>3, <3>1
  <2>5. \A j \in (c.seen + 1)..Len(history) : history[j].kind \in {"add", "undo"}
    <3>1. Made(history, c.seen).doc.epoch = Made(history, Len(history)).doc.epoch
      BY <1>3, <2>2, <2>3 DEF w
    <3>2. QED BY <2>3, <2>4, <3>1, EpochsGrow
  <2>6. QED BY <1>2, <2>5 DEF Timely
<1> HIDE DEF d
<1>12. Gives(p, e, d, known, l)
  BY <1>2, <1>3, <1>4, <1>7, <1>10 DEF Gives
<1>13. New(e)
  BY <1>2 DEF New
<1>14. e.kind \in Drawing => Entered(f2, g2, e)
  BY <1>2 DEF Entered
<1>15. l \in BOOLEAN /\ Becomes(p, e, d, known, l)
  <2>1. board' = [board EXCEPT ![p] = NumberSet(board[p], board[p].seq + 1, d,
                                               Logged(board[p].log, e), known, l)]
    BY <1>6
  <2>2. QED BY <1>1, <1>12, <2>1 DEF Becomes
<1> HIDE DEF known, l, a
<1>16. Numbers(f, p, e, f2, g2, n) /\ e \in Entries
  BY <1>2, <1>8, <1>11, <1>13, <1>14 DEF Numbers
<1>17. \A x \in Docs : \A y \in SUBSET Drawings : \A z \in BOOLEAN :
          Becomes(p, e, x, y, z) => CInv'
  BY <1>16, NumbersCount
<1>18. QED BY <1>4, <1>7, <1>15, <1>17

\* The authority draws.
LEMMA DrawCounts ==
  ASSUME IInv, CInv, NEW p \in Peers, NEW kind \in Drawing, Draw(p, kind)
  PROVE  CInv'
<1> DEFINE c == Gesture(p, kind)
           g == used.gestures + 1
<1>0. TypeOK
  BY DEF IInv
<1>1. /\ Leads(p) /\ board[p].state = "ready"
      /\ Verdict(board[p].doc, c, p) = "applied"
      /\ board' = [board EXCEPT ![p] =
                     [Committed(board[p], Entry(board[p], c), Drawn(board[p].doc, c))
                        EXCEPT !.known = @ \cup {Entry(board[p], c)}]]
      /\ net' = Sent(net, p, Others(p), CommitOf(p, Entry(board[p], c)))
      /\ history' = Append(history, Entry(board[p], c))
      /\ hosts' = hosts /\ heard' = heard
  BY DEF Draw
<1>2. used'.gestures = g
  BY <1>0 DEF TypeOK, Counts, Draw
<1>3. /\ c.id = <<p, g>> /\ c.kind = kind /\ c.epoch = board[p].doc.epoch /\ c.seen = board[p].seq
      /\ c \in Commands /\ c.id[2] = g
  <2>1. board[p].seq \in Nat /\ board[p].doc.epoch \in Nat /\ used.gestures \in Nat
    BY <1>0, BoardFields, DocFields DEF TypeOK, Counts
  <2>2. QED BY <2>1 DEF Gesture, Commands, Ids
<1> HIDE DEF c
<1>4. PICK f \in [Ids -> Nat] : Good(f, used.gestures, history)
  BY DEF CInv
<1>5. Booked(f)
  BY <1>4 DEF Booked, CInv
<1> DEFINE f2 == Enter(f, p)
<1>6. f2 \in [Ids -> Nat] /\ Better(f, used.gestures, f2, g) /\ Entered(f2, g, c)
  BY <1>0, <1>3, EnterBetter
<1> HIDE DEF f2
<1>7. New(c)
  <2>1. ASSUME NEW i \in 1..Len(history), history[i].kind \in Drawing PROVE history[i].id # c.id
    <3>1. history[i].id[2] <= used.gestures
      BY <1>4, <2>1 DEF Good, LogGood, Entered
    <3>2. used.gestures \in Nat
      BY <1>0 DEF TypeOK, Counts
    <3>3. ~(g <= used.gestures)
      BY <3>2
    <3>4. QED BY <1>3, <3>1, <3>3
  <2>2. QED BY <2>1 DEF New
<1>8. NoReturn => Begun(history, c)
  <2>1. SUFFICES ASSUME NoReturn PROVE Begun(history, c)
    OBVIOUS
  <2>2. Told(p)
    BY <1>1, <1>5, <2>1, AuthorityNow
  <2>3. board[p].seq \in 0..Len(history)
    BY SeqInLog
  <2>4. QED BY <1>3, <2>2, <2>3 DEF Told, Shows, Like, Begun
<1>9. net \in Nets /\ \A x, y \in Peers : Way(net, x, y) \subseteq Way(net, x, y)
  BY <1>0 DEF TypeOK
<1> HIDE DEF g
<1>10. QED BY <1>1, <1>2, <1>3, <1>5, <1>6, <1>7, <1>8, <1>9, CommandCounts

\* The authority answers a proposal.
LEMMA DecideCounts ==
  ASSUME IInv, CInv, NEW p \in Peers, NEW q \in Peers, Decide(p, q)
  PROVE  CInv'
<1> DEFINE m == Head1(p, q)
           c == m.cmd
<1>0. TypeOK /\ CoverInv
  BY DEF IInv
<1>1. /\ net[p][q] # <<>> /\ m.kind = "propose" /\ Leads(q) /\ board[q].state # "none"
      /\ hosts' = hosts /\ heard' = heard /\ used' = used
  BY DEF Decide, Arrived, Heeds
<1>2. PICK f \in [Ids -> Nat] : Good(f, used.gestures, history)
  BY DEF CInv
<1>3. Booked(f)
  BY <1>2 DEF Booked, CInv
<1>4. m \in Messages /\ MessageGood(f, used.gestures, history, p, m)
  BY <1>1, <1>3, TakenNow DEF Sendable
<1>5. c \in Commands
  BY <1>1, <1>4, MessageFields DEF Proposals
<1>6. Entered(f, used.gestures, c) /\ (NoReturn => Begun(history, c))
  BY <1>1, <1>4 DEF MessageGood, MessageTrue
<1>7. Taken(p, q) \in Nets /\ \A x, y \in Peers : Way(Taken(p, q), x, y) \subseteq Way(net, x, y)
  BY <1>0, <1>1, TakenWay DEF TypeOK
<1>8. CASE Accepts(p, q, c)
  <2>1. /\ board' = [board EXCEPT ![q] =
                       [Committed(board[q], Entry(board[q], c), Drawn(board[q].doc, c))
                          EXCEPT !.known = @ \cup {Entry(board[q], c)}]]
        /\ net' = Sent(Taken(p, q), q, Others(q), CommitOf(q, Entry(board[q], c)))
        /\ history' = Append(history, Entry(board[q], c))
    BY <1>8 DEF Decide
  <2>2. Verdict(board[q].doc, c, q) = "applied"
    BY <1>8 DEF Accepts
  <2> HIDE DEF c
  <2>3. New(c)
    <3>1. ASSUME NEW i \in 1..Len(history), history[i].kind \in Drawing, history[i].id = c.id
          PROVE  FALSE
      <4>1. history[i].epoch = c.epoch
        BY <1>2, <1>6, <3>1 DEF Good, LogGood, Entered
      <4>2. Covers(board[q].doc)
        BY <1>0, <1>1 DEF CoverInv
      <4>3. c.epoch = board[q].doc.epoch /\ c.id \notin board[q].doc.accepted
        BY <2>2, VerdictSays
      <4>4. QED BY <3>1, <4>1, <4>2, <4>3 DEF Covers
    <3>2. QED BY <3>1 DEF New
  <2>4. Better(f, used.gestures, f, used.gestures) /\ used'.gestures = used.gestures
    BY <1>1, BetterItself
  <2>5. QED BY <1>1, <1>2, <1>3, <1>5, <1>6, <1>7, <2>1, <2>2, <2>3, <2>4, CommandCounts
<1>9. CASE ~Accepts(p, q, c)
  <2>1. Quietly(f)
    BY <1>3, <1>9, DecideQuiet
  <2>2. QED BY <1>3, <2>1, QuietlyKeeps
<1>10. QED BY <1>8, <1>9

-----------------------------------------------------------------------------
(* Hearing of a host, opening a board and losing it *)

\* The board b of p, which has just been opened or has heard of the host i.
HeardTrue(h, p, i, b) ==
  /\ \A k \in 1..Reign : i < k => ~Since(h, hosts[k], b.seq)
  /\ b.source = None /\ Since(h, hosts[i], b.seq) => Shows(h, b.seq, b.doc, b.locked)
  /\ b.source = None /\ (hosts[i] = p \/ b.state = "ready" \/ b.offering) =>
       Since(h, hosts[i], b.seq)
  /\ b.state = "ready" => b.source = None
  /\ b.log = <<>> /\ b.known = {} /\ b.doc.accepted = {}

\* That keeps the invariant, with the rest of it.
LEMMA HeardKeeps ==
  ASSUME NEW f \in [Ids -> Nat], NEW g, NEW h, Written(f, g, h), NEW p \in Peers, NEW i, NEW b,
         TypeOK, board' = [board EXCEPT ![p] = b], heard' = [heard EXCEPT ![p] = i],
         b.pending = {}, NoReturn => HeardTrue(h, p, i, b), NetGood(net', f, g, h),
         hosts' = hosts, history' = h, used'.gestures = g,
         DrawnOnce', (NoReturn => HandoffsTrue /\ NoStaleGesture)'
  PROVE  CInv'
<1>1. /\ board'[p] = b /\ heard'[p] = i
      /\ \A q \in Peers : q # p => board'[q] = board[q] /\ heard'[q] = heard[q]
  BY DEF TypeOK
<1>2. ASSUME NEW q \in Peers, q # p PROVE BoardGood(f, used.gestures, history, q, board[q])'
  <2>1. BoardGood(f, g, h, q, board[q])
    BY DEF Written
  <2>2. board'[q] = board[q] /\ heard'[q] = heard[q]
    BY <1>1, <1>2
  <2>3. QED BY <2>1, <2>2 DEF BoardGood, BoardTrue, NoReturn, Reign, Since, Host, IsHost
<1>3. BoardGood(f, used.gestures, history, p, board[p])'
  <2>1. NoReturn => BoardTrue(history, p, board[p])'
    <3>1. SUFFICES ASSUME NoReturn PROVE BoardTrue(history, p, board[p])'
      OBVIOUS
    <3>2. HeardTrue(h, p, i, b)
      BY <3>1
    <3>3. Len(b.log) = 0
      BY <3>2 DEF HeardTrue
    <3>4. \A k \in 1..Len(b.log) : FALSE
      BY <3>3
    <3>5. QED BY <1>1, <3>2, <3>4 DEF HeardTrue, BoardTrue, Reign, Since, Host, IsHost
  <2>2. NoReturn' <=> NoReturn
    BY DEF NoReturn, Reign
  <2>3. QED BY <1>1, <2>1, <2>2 DEF BoardGood
<1>4. \A a, c \in Peers : \A m \in Way(net', a, c) :
        MessageGood(f, used.gestures, history, a, m)' <=> MessageGood(f, g, h, a, m)
  BY DEF MessageGood, MessageTrue, EntryTrue, NotLater, NoReturn, Reign, Since
<1>5. Good(f, used.gestures, history)'
  <2>1. LogGood(f, used.gestures, history)'
    BY DEF Written, LogGood
  <2>2. \A q \in Peers : BoardGood(f, used.gestures, history, q, board[q])'
    BY <1>2, <1>3
  <2>3. \A a, c \in Peers : \A m \in Way(net', a, c) : MessageGood(f, used.gestures, history, a, m)'
    BY <1>4 DEF NetGood
  <2>4. QED BY <2>1, <2>2, <2>3 DEF Good, Way
<1>6. QED BY <1>5 DEF CInv

\* What is good now is written.
LEMMA WrittenSame ==
  ASSUME IInv, NEW f, Booked(f)
  PROVE  Written(f, used.gestures, history)
<1>1. Longer(history, history)
  BY DEF Longer, Log, IInv, TypeOK
<1>2. Better(f, used.gestures, f, used.gestures)
  BY BetterItself
<1>3. LogGood(f, used.gestures, history)
  BY DEF Booked, Good
<1>4. QED BY <1>1, <1>2, <1>3, WrittenNow

\* The host that is named is the one that p has in mind: somebody has become
\* the host again.
LEMMA HearsSameCounts ==
  ASSUME IInv, CInv, NEW p \in Peers, NEW i \in (heard[p] + 1)..Len(hosts), SetAuthority(p, i),
         hosts[i] = Host(p)
  PROVE  CInv'
<1>0. TypeOK
  BY DEF IInv
<1>1. /\ heard' = [heard EXCEPT ![p] = i] /\ board' = board /\ net' = net /\ history' = history
      /\ hosts' = hosts /\ used' = [used EXCEPT !.misses = @ + i - heard[p] - 1]
  BY DEF SetAuthority
<1>2. used'.gestures = used.gestures
  BY <1>0, <1>1 DEF TypeOK, Counts
<1>3. ~NoReturn
  <2>1. i \in 1..Reign /\ i > heard[p] /\ heard[p] \in 1..Reign /\ heard[p] \in Nat
    BY <1>0, HearingFacts, HostType
  <2>2. hosts[i] = hosts[heard[p]] /\ i # heard[p]
    BY <2>1 DEF Host
  <2>3. QED BY <2>1, <2>2 DEF NoReturn
<1>4. ~NoReturn'
  BY <1>1, <1>3 DEF NoReturn, Reign
<1>5. PICK f \in [Ids -> Nat] : Good(f, used.gestures, history)
  BY DEF CInv
<1>6. Good(f, used.gestures, history)'
  <2>1. LogGood(f, used.gestures, history)'
    BY <1>1, <1>2, <1>5 DEF Good, LogGood
  <2>2. \A q \in Peers : BoardGood(f, used.gestures, history, q, board[q])'
    BY <1>1, <1>2, <1>4, <1>5 DEF Good, BoardGood
  <2>3. \A a, c \in Peers : \A m \in Way(net', a, c) : MessageGood(f, used.gestures, history, a, m)'
    BY <1>1, <1>2, <1>4, <1>5 DEF Good, MessageGood
  <2>4. QED BY <2>1, <2>2, <2>3 DEF Good, Way
<1>7. DrawnOnce'
  BY <1>1 DEF CInv, DrawnOnce
<1>8. QED BY <1>4, <1>6, <1>7 DEF CInv

\* Somebody who is not the authority hears of another host.
LEMMA HearsOtherCounts ==
  ASSUME IInv, CInv, NEW p \in Peers, NEW i \in (heard[p] + 1)..Len(hosts), SetAuthority(p, i),
         hosts[i] # Host(p), ~IsHost(p)
  PROVE  CInv'
<1> DEFINE h == hosts[i]
           b == Handed(p, h)
           target == {IF h = p THEN Host(p) ELSE h} \cap Others(p)
           m == [kind |-> "sync", host |-> h, base |-> b.seq]
<1>0. TypeOK
  BY DEF IInv
<1>1. /\ board[p].state # "none" /\ heard' = [heard EXCEPT ![p] = i]
      /\ board' = [board EXCEPT ![p] = b] /\ history' = history /\ hosts' = hosts
      /\ net' = (IF b.up THEN Sent(net, p, target, m) ELSE net)
      /\ used' = [used EXCEPT !.misses = @ + i - heard[p] - 1]
  BY DEF SetAuthority, Hands
<1>2. /\ i \in 1..Reign /\ heard[p] \in Nat /\ i > heard[p] /\ Reign > 1 /\ Reign \in Nat
      /\ p # OldHost /\ OldHost \in Peers
  BY <1>0, HearingFacts, HostType
<1>3. h \in Peers /\ Host(p) \in Peers /\ None \notin Peers
  BY <1>0, <1>2, HostType, BoardAssumption
<1>4. board[p] \in Boards /\ board[p].seq \in Nat /\ ~Hands(p) /\ board[p].doc \in Docs
  BY <1>0, BoardFields DEF TypeOK, Hands
<1>5. /\ b \in Boards /\ b.seq = board[p].seq /\ b.log = <<>> /\ b.known = {} /\ b.pending = {}
      /\ b.source = (IF h = p THEN Host(p) ELSE None) /\ b.doc = Barrier(board[p].doc)
      /\ ~b.offering /\ b.state # "ready"
  BY <1>0, <1>3, <1>4, HandedIs
<1>6. m \in Messages /\ m.kind = "sync"
  BY <1>3, <1>4, <1>5 DEF Messages, Syncs
<1>7. target \in SUBSET Peers
  BY OthersType
<1> HIDE DEF b, m, target
<1>8. used'.gestures = used.gestures
  BY <1>0, <1>1 DEF TypeOK, Counts
<1>9. PICK f \in [Ids -> Nat] : Good(f, used.gestures, history)
  BY DEF CInv
<1>10. Booked(f)
  BY <1>9 DEF Booked, CInv
<1>11. NoReturn => HeardTrue(history, p, i, b)
  <2>1. SUFFICES ASSUME NoReturn PROVE HeardTrue(history, p, i, b)
    OBVIOUS
  <2>2. BoardTrue(history, p, board[p])
    BY <1>1, <1>9, <2>1 DEF Good, BoardGood
  <2>3. \A k \in 1..Reign : heard[p] < k => ~Since(history, hosts[k], b.seq)
    BY <1>5, <2>2 DEF BoardTrue
  <2>4. \A k \in 1..Reign : i < k => heard[p] < k
    BY <1>2
  <2>5. ~Since(history, hosts[i], b.seq)
    BY <1>2, <2>3
  <2>6. b.source = None => hosts[i] # p
    BY <1>3, <1>5
  <2>7. b.doc.accepted = {}
    BY <1>4, <1>5, BarrierType
  <2>8. QED BY <1>5, <2>3, <2>4, <2>5, <2>6, <2>7 DEF HeardTrue
<1>12. NetNow(f, net')
  <2>1. NetNow(f, net)
    BY <1>10, NetIsNow
  <2>2. NetNow(f, Sent(net, p, target, m))
    BY <1>6, <1>7, <2>1, PlainNow, SentNow
  <2>3. QED BY <1>1, <2>1, <2>2
<1>13. DrawnOnce'
  BY <1>1 DEF CInv, DrawnOnce
<1>14. (NoReturn => HandoffsTrue /\ NoStaleGesture)'
  <2>1. heard'[OldHost] = heard[OldHost]
    BY <1>0, <1>1, <1>2 DEF TypeOK
  <2>2. Reign' = Reign /\ OldHost' = OldHost /\ NewHost' = NewHost /\ (NoReturn' <=> NoReturn)
    BY <1>1 DEF Reign, OldHost, NewHost, NoReturn
  <2>3. NoReturn => HandoffsTrue'
    BY <1>1, <2>1, <2>2 DEF CInv, HandoffsTrue, Since
  <2>4. NoReturn => NoStaleGesture'
    BY <1>1 DEF CInv, NoStaleGesture
  <2>5. QED BY <2>2, <2>3, <2>4
<1>15. Written(f, used.gestures, history) /\ NetGood(net', f, used.gestures, history)
  BY <1>10, <1>12, WrittenSame DEF NetNow
<1>16. QED BY <1>0, <1>1, <1>5, <1>8, <1>11, <1>13, <1>14, <1>15, HeardKeeps

\* The last host hears of its successor: it gives one more number and offers its
\* board.
LEMMA HandsOverCounts ==
  ASSUME IInv, CInv, NEW p \in Peers, NEW i \in (heard[p] + 1)..Len(hosts), SetAuthority(p, i),
         hosts[i] # Host(p), IsHost(p)
  PROVE  CInv'
<1> DEFINE h == hosts[i]
           b == Handed(p, h)
           e == [kind |-> "handoff", host |-> h]
           to == {h} \cap Others(p)
           s == SnapshotOf(h, b)
           m == [kind |-> "sync", host |-> h, base |-> b.seq]
           g == used.gestures
           w == Made(history, Len(history))
           n == Len(history)
<1>0. TypeOK /\ SeqInv
  BY DEF IInv
<1>1. /\ i = Reign /\ Reign \in Nat /\ Reign > 1 /\ Leads(p) /\ Hands(p) /\ p = OldHost
      /\ h = NewHost /\ h # p /\ h \in Peers /\ i \in 1..Reign
  BY <1>0, HearingFacts, HostType DEF NewHost, Reign
<1>2. /\ board[p].state # "none" /\ heard' = [heard EXCEPT ![p] = i]
      /\ board' = [board EXCEPT ![p] = b] /\ history' = More(e) /\ hosts' = hosts
      /\ net' = (IF b.up THEN Sent(Sent(net, p, to, s), p, to, m) ELSE net)
      /\ used' = [used EXCEPT !.misses = @ + i - heard[p] - 1]
  <2>1. net' = IF b.up
               THEN Sent(IF Hands(p) /\ b.up THEN Sent(net, p, to, s) ELSE net, p,
                         {IF h = p THEN Host(p) ELSE h} \cap Others(p), m)
               ELSE net
    BY DEF SetAuthority
  <2>2. net' = (IF b.up THEN Sent(Sent(net, p, to, s), p, to, m) ELSE net)
    BY <1>1, <2>1
  <2>3. QED BY <1>1, <2>2 DEF SetAuthority, More
<1>3. board[p] \in Boards /\ board[p].seq \in Nat /\ board[p].doc \in Docs /\ board[p].seq = n /\ n \in Nat
  BY <1>0, <1>1, BoardFields DEF TypeOK, SeqInv
<1>4. /\ b \in Boards /\ b.seq = board[p].seq + 1 /\ b.log = <<>> /\ b.known = {} /\ b.pending = {}
      /\ b.source = None /\ b.offering /\ b.state # "ready" /\ b.doc = Barrier(board[p].doc)
      /\ b.locked = board[p].locked /\ b.locked \in BOOLEAN /\ b.doc \in Docs
  BY <1>0, <1>1, <1>3, HandedIs, BoardFields, BarrierType
<1>5. /\ s \in Messages /\ s.kind = "snapshot" /\ s.host = h /\ s.seq = b.seq
      /\ s.body = Snapshot(b.doc) /\ s.locked = b.locked
  <2>1. b.seq \in Nat
    BY <1>4, BoardFields
  <2>2. Snapshot(b.doc) \in Bodies
    BY <1>4, SnapshotType
  <2> HIDE DEF b
  <2>3. QED BY <1>1, <1>4, <2>1, <2>2 DEF SnapshotOf, Messages, Shots
<1>6. m \in Messages /\ m.kind = "sync"
  BY <1>1, <1>3, <1>4 DEF Messages, Syncs
<1>7. to \in SUBSET Peers
  BY OthersType
<1> HIDE DEF b, m, s, to
<1>8. e \in Entries \cup Handoffs /\ e.kind = "handoff" /\ e.host = h /\ e.kind \notin Drawing
  BY <1>1 DEF Handoffs, Drawing
<1> HIDE DEF e, h
<1>9. /\ More(e) \in Log /\ history \in Log /\ Longer(history, More(e))
      /\ Len(More(e)) = n + 1 /\ More(e)[n + 1] = e /\ n + 1 \in 1..(n + 1)
      /\ \A k \in 1..n : More(e)[k] = history[k]
      /\ Made(More(e), n + 1) = Grown(e)
  BY <1>0, <1>3, <1>8, MoreIs
<1> HIDE DEF n
<1>10. \A k \in 1..Len(More(e)) : k = n + 1 \/ k \in 1..n
  BY <1>3, <1>9
<1>11. used'.gestures = g
  BY <1>0, <1>2 DEF TypeOK, Counts
<1>12. PICK f \in [Ids -> Nat] : Good(f, used.gestures, history)
  BY DEF CInv
<1>13. Booked(f)
  BY <1>12 DEF Booked, CInv
<1>14. Written(f, g, More(e))
  <2>1. LogGood(f, g, history)
    BY <1>12 DEF Good
  <2>2. LogGood(f, g, More(e))
    BY <1>8, <1>9, <1>10, <2>1 DEF LogGood, n
  <2>3. Better(f, used.gestures, f, g)
    BY BetterItself
  <2>4. QED BY <1>9, <1>13, <2>2, <2>3, WrittenNow
<1>15. Since(More(e), h, n + 1)
  BY <1>3, <1>8, <1>9 DEF Since
<1>16. ASSUME NoReturn PROVE Shows(More(e), n + 1, b.doc, b.locked)
  <2>1. Shows(history, n, board[p].doc, board[p].locked)
    BY <1>1, <1>3, <1>13, <1>16, AuthorityNow DEF Told
  <2>2. n \in 0..Len(history)
    BY <1>3 DEF n
  <2>3. w \in Makes /\ w.doc \in Docs
    BY <1>9, <2>2, MadeType DEF n
  <2>4. Like(board[p].doc, w.doc) /\ board[p].locked = w.locked
    BY <2>1 DEF Shows, n
  <2>5. Grown(e) = [w EXCEPT !.doc = Barrier(w.doc)]
    BY <1>8 DEF Grown, Turn
  <2>6. Grown(e).doc = Barrier(w.doc) /\ Grown(e).locked = w.locked
    BY <2>3, <2>5 DEF Makes
  <2>7. Like(Barrier(board[p].doc), Barrier(w.doc))
    BY <1>3, <2>3, <2>4, LikeBarrier
  <2>8. QED BY <1>4, <1>9, <2>4, <2>6, <2>7 DEF Shows
<1>17. NoReturn => HeardTrue(More(e), p, i, b)
  <2>1. SUFFICES ASSUME NoReturn PROVE HeardTrue(More(e), p, i, b)
    OBVIOUS
  <2>2. \A k \in 1..Reign : ~(i < k)
    BY <1>1
  <2>3. b.doc.accepted = {}
    BY <1>3, <1>4, BarrierType
  <2>4. Since(More(e), hosts[i], b.seq) /\ Shows(More(e), b.seq, b.doc, b.locked)
    BY <1>3, <1>4, <1>15, <1>16, <2>1 DEF h
  <2>5. QED BY <1>4, <2>2, <2>3, <2>4 DEF HeardTrue
<1>18. NetGood(net', f, g, More(e))
  <2>1. NetGood(net, f, g, More(e))
    BY <1>14 DEF Written
  <2>2. NoReturn => MessageTrue(More(e), p, s)
    <3>1. SUFFICES ASSUME NoReturn PROVE MessageTrue(More(e), p, s)
      OBVIOUS
    <3>2. Like(b.doc, Made(More(e), n + 1).doc) /\ b.locked = Made(More(e), n + 1).locked
      BY <1>16, <3>1 DEF Shows
    <3>3. Snapshot(b.doc) = Snapshot(Made(More(e), n + 1).doc)
      BY <3>2 DEF Like, Snapshot
    <3>4. s.seq = n + 1 /\ s.seq <= Len(More(e))
      BY <1>3, <1>4, <1>5, <1>9
    <3>5. QED BY <1>1, <1>5, <3>2, <3>3, <3>4 DEF MessageTrue
  <2>3. MessageGood(f, g, More(e), p, s)
    BY <1>5, <2>2 DEF MessageGood
  <2>4. MessageGood(f, g, More(e), p, m)
    BY <1>6 DEF MessageGood, MessageTrue
  <2>5. NetGood(Sent(net, p, to, s), f, g, More(e))
    BY <1>5, <1>7, <2>1, <2>3, SentGood
  <2>6. NetGood(Sent(Sent(net, p, to, s), p, to, m), f, g, More(e))
    BY <1>6, <1>7, <2>4, <2>5, SentGood
  <2>7. QED BY <1>2, <2>1, <2>6
<1>19. DrawnOnce'
  <2>1. Unrepeated(history)
    BY DrawnOnceIs DEF CInv
  <2>2. Unrepeated(history')
    BY <1>2, <1>8, <1>9, <1>10, <2>1 DEF Unrepeated, n
  <2>3. QED BY <2>2 DEF Unrepeated, DrawnOnce, Drawing
<1>20. Reign' = Reign /\ OldHost' = OldHost /\ NewHost' = NewHost /\ (NoReturn' <=> NoReturn)
  BY <1>2 DEF Reign, OldHost, NewHost, NoReturn
<1>21. ASSUME NoReturn PROVE HandoffsTrue'
  <2>1. HandoffsTrue
    BY <1>21 DEF CInv
  <2>2. heard'[OldHost] = Reign
    BY <1>0, <1>1, <1>2 DEF TypeOK
  <2>3. ASSUME NEW k \in 1..Len(More(e)), More(e)[k].kind = "handoff"
        PROVE  \E j \in 2..Reign : More(e)[k].host = hosts[j]
    <3>1. CASE k = n + 1
      <4>1. More(e)[k].host = hosts[Reign] /\ Reign \in 2..Reign
        BY <1>1, <1>8, <1>9, <3>1 DEF h
      <4>2. QED BY <4>1
    <3>2. CASE k \in 1..n
      BY <1>9, <2>1, <2>3, <3>2 DEF HandoffsTrue, n
    <3>3. QED BY <1>10, <3>1, <3>2
  <2>4. Since(More(e), NewHost, Len(More(e)))
    BY <1>1, <1>9, <1>15
  <2>5. (Since(history, NewHost, Len(history)))'
    BY <1>2, <1>20, <2>4 DEF Since
  <2>6. QED BY <1>2, <1>20, <2>1, <2>2, <2>3, <2>5 DEF HandoffsTrue
<1>22. ASSUME NoReturn PROVE NoStaleGesture'
  <2>1. NoStaleGesture
    BY <1>22 DEF CInv
  <2>2. ASSUME NEW k \in 1..Len(More(e)), More(e)[k].kind \in Drawing,
               NEW j \in (More(e)[k].seen + 1)..(k - 1)
        PROVE  More(e)[j].kind \in {"add", "undo"}
    <3>1. k \in 1..n /\ More(e)[k] = history[k] /\ history[k].kind \in Drawing
      BY <1>8, <1>9, <1>10, <2>2
    <3>2. history[k].seen \in Nat
      BY <1>0, <3>1, DrawnEpochs DEF Drawings, n
    <3>3. j \in 1..n /\ j \in (history[k].seen + 1)..(k - 1)
      BY <1>3, <2>2, <3>1, <3>2
    <3>4. QED BY <1>9, <2>1, <3>1, <3>3 DEF NoStaleGesture, Drawing, n
  <2>3. QED BY <1>2, <2>2 DEF NoStaleGesture, Drawing
<1>23. (NoReturn => HandoffsTrue /\ NoStaleGesture)'
  BY <1>20, <1>21, <1>22
<1>24. QED BY <1>0, <1>2, <1>4, <1>11, <1>14, <1>17, <1>18, <1>19, <1>23, HeardKeeps

\* The news of a host, whoever hears it.
LEMMA HearHostCounts ==
  ASSUME IInv, CInv, NEW p \in Peers, HearHost(p)
  PROVE  CInv'
<1>1. PICK i \in (heard[p] + 1)..Len(hosts) : SetAuthority(p, i)
  BY DEF HearHost
<1>2. CASE hosts[i] = Host(p)
  BY <1>1, <1>2, HearsSameCounts
<1>3. CASE hosts[i] # Host(p) /\ ~IsHost(p)
  BY <1>1, <1>3, HearsOtherCounts
<1>4. CASE hosts[i] # Host(p) /\ IsHost(p)
  BY <1>1, <1>4, HandsOverCounts
<1>5. QED BY <1>2, <1>3, <1>4

\* A participant opens the board.
LEMMA StartCounts ==
  ASSUME IInv, CInv, NEW p \in Peers, Start(p)
  PROVE  CInv'
<1> DEFINE h == NewHost
           to == {h} \cap Others(p)
           hello == [kind |-> "sync", host |-> h, base |-> 0]
           joined == [kind |-> "joined"]
           b == [Closed EXCEPT !.up = TRUE, !.state = "synchronizing"]
           n == Posted(net, p, Others(p), joined)
<1>0. TypeOK /\ ChainInv
  BY DEF IInv
<1>1. \A k \in 1..Reign : hosts[k] # p
  BY <1>0 DEF ChainInv, Start
<1>2. /\ Reign \in Nat \ {0} /\ Reign \in 1..Reign /\ h \in Peers /\ h # p /\ h = hosts[Reign]
      /\ Reign > 1 => OldHost # p /\ OldHost \in Peers
  <2>1. Reign \in Nat \ {0} /\ h \in Peers /\ (Reign > 1 => OldHost \in Peers)
    BY <1>0, HostType
  <2>2. Reign \in 1..Reign /\ (Reign > 1 => Reign - 1 \in 1..Reign)
    BY <2>1
  <2>3. QED BY <1>1, <2>1, <2>2 DEF NewHost, OldHost, Reign
<1>3. /\ heard' = [heard EXCEPT ![p] = Reign]
      /\ board' = [board EXCEPT ![p] = b]
      /\ net' = [Joined(p) EXCEPT ![p] =
                    [q \in Peers |-> IF q \in to THEN Append(@[q], hello) ELSE @[q]]]
      /\ hosts' = hosts /\ history' = history /\ used' = used
  BY <1>2 DEF Start, NewHost, Reign
<1>4. Joined(p) = n
  BY DEF Joined, Posted
<1>5. net' = Posted(n, p, to, hello)
  <2> HIDE DEF n, to, hello
  <2>1. QED BY <1>3, <1>4 DEF Posted
<1>6. hello \in Messages /\ hello.kind = "sync" /\ joined \in Messages /\ joined.kind = "joined"
  BY <1>2 DEF Messages, Syncs, Notices
<1>7. Others(p) \in SUBSET Peers /\ to \in SUBSET Peers
  BY OthersType
<1> HIDE DEF joined, hello, to
<1>8. PICK f \in [Ids -> Nat] : Good(f, used.gestures, history)
  BY DEF CInv
<1>9. Booked(f)
  BY <1>8 DEF Booked, CInv
<1>10. NetNow(f, n)
  BY <1>6, <1>7, <1>9, NetIsNow, PlainNow, PostedNow
<1> HIDE DEF n
<1>11. NetNow(f, net')
  BY <1>5, <1>6, <1>7, <1>10, PlainNow, PostedNow
<1>12. /\ b.state = "synchronizing" /\ b.seq = 0 /\ b.log = <<>> /\ b.known = {} /\ b.pending = {}
       /\ b.source = None /\ ~b.offering /\ b.doc = NewDoc /\ b.locked = FALSE
  BY DEF Closed
<1> HIDE DEF b
<1>13. HeardTrue(history, p, Reign, b)
  <2>1. \A k \in 1..Reign : ~(Reign < k)
    BY <1>2
  <2>2. NewDoc \in Docs /\ NewDoc.accepted = {}
    BY NewDocType
  <2>3. Made(history, 0).doc = NewDoc /\ Made(history, 0).locked = FALSE
    BY MadeNext DEF Blank
  <2>4. Shows(history, b.seq, b.doc, b.locked)
    BY <1>12, <2>2, <2>3, LikeItself DEF Shows
  <2>5. QED BY <1>2, <1>12, <2>1, <2>2, <2>4 DEF HeardTrue
<1>14. DrawnOnce'
  BY <1>3 DEF CInv, DrawnOnce
<1>15. (NoReturn => HandoffsTrue /\ NoStaleGesture)'
  <2>1. Reign > 1 => heard'[OldHost] = heard[OldHost]
    BY <1>0, <1>2, <1>3 DEF TypeOK
  <2>2. Reign' = Reign /\ OldHost' = OldHost /\ NewHost' = NewHost /\ (NoReturn' <=> NoReturn)
    BY <1>3 DEF Reign, OldHost, NewHost, NoReturn
  <2>3. \A j \in 2..Reign : Reign > 1
    BY <1>2
  <2>4. ASSUME NoReturn PROVE HandoffsTrue'
    BY <1>3, <2>1, <2>2, <2>3, <2>4 DEF CInv, HandoffsTrue, Since
  <2>5. NoReturn => NoStaleGesture'
    BY <1>3 DEF CInv, NoStaleGesture
  <2>6. QED BY <2>2, <2>4, <2>5
<1>16. Written(f, used.gestures, history) /\ NetGood(net', f, used.gestures, history)
  BY <1>9, <1>11, WrittenSame DEF NetNow
<1>17. QED BY <1>0, <1>3, <1>12, <1>13, <1>14, <1>15, <1>16, HeardKeeps

\* The program of a participant ends.
LEMMA CrashCounts ==
  ASSUME IInv, CInv, NEW p \in Peers, Crash(p)
  PROVE  CInv'
<1> DEFINE left == [kind |-> "left"]
<1>0. TypeOK
  BY DEF IInv
<1>1. /\ board' = [board EXCEPT ![p] = Closed]
      /\ net' = [a \in Peers |-> [b \in Peers |->
                   IF b = p THEN <<>> ELSE IF a = p /\ b \in Others(p) THEN <<left>> ELSE net[a][b]]]
      /\ used' = [used EXCEPT !.crashes = @ + 1]
      /\ hosts' = hosts /\ heard' = heard /\ history' = history
  BY DEF Crash
<1>2. used'.gestures = used.gestures
  BY <1>0, <1>1 DEF TypeOK, Counts
<1>3. left \in Messages /\ left.kind = "left"
  BY DEF Messages, Notices
<1>4. PICK f \in [Ids -> Nat] : Good(f, used.gestures, history)
  BY DEF CInv
<1>5. Booked(f)
  BY <1>4 DEF Booked, CInv
<1>6. net \in Nets /\ \A a, c \in Peers : \A m \in Way(net, a, c) :
                         MessageGood(f, used.gestures, history, a, m)
  BY <1>0, <1>4 DEF Good, TypeOK
<1> HIDE DEF left
<1>7. net' \in Nets
  <2>1. <<left>> \in Seq(Messages) /\ <<>> \in Seq(Messages)
    BY <1>3
  <2>2. QED BY <1>1, <1>6, <2>1 DEF Nets
<1>8. ASSUME NEW a \in Peers, NEW c \in Peers, NEW m \in Way(net', a, c)
      PROVE  MessageGood(f, used.gestures, history, a, m)
  <2>1. net'[a][c] = <<>> \/ net'[a][c] = <<left>> \/ net'[a][c] = net[a][c]
    BY <1>1
  <2>2. m = left \/ m \in Way(net, a, c)
    BY <1>8, <2>1 DEF Way
  <2>3. MessageGood(f, used.gestures, history, a, left)
    BY <1>3 DEF MessageGood, MessageTrue
  <2>4. QED BY <1>6, <2>2, <2>3
<1>9. NetGood(net', f, used.gestures, history)
  BY <1>7, <1>8 DEF NetGood
<1>10. BoardGood(f, used.gestures, history, p, Closed)
  BY ClosedType DEF BoardGood
<1>11. DrawnOnce'
  BY <1>1 DEF CInv, DrawnOnce
<1>12. (NoReturn => HandoffsTrue /\ NoStaleGesture)'
  BY <1>1 DEF CInv, NoReturn, HandoffsTrue, NoStaleGesture, Reign, OldHost, NewHost, Since
<1>13. Written(f, used.gestures, history)
  BY <1>5, WrittenSame
<1>14. QED BY <1>0, <1>1, <1>2, <1>9, <1>10, <1>11, <1>12, <1>13, WrittenKeeps

\* The host names the next one.
LEMMA TransferHostCounts ==
  ASSUME IInv, CInv, NEW p \in Peers, NEW q \in Peers, TransferHost(p, q)
  PROVE  CInv'
<1>0. TypeOK
  BY DEF IInv
<1>1. /\ hosts' = Append(hosts, q) /\ heard' = heard /\ board' = board /\ net' = net
      /\ history' = history /\ used' = used
  BY DEF TransferHost
<1>2. /\ Reign' = Reign + 1 /\ hosts'[Reign + 1] = q /\ Reign \in Nat /\ Reign >= 1
      /\ \A i \in 1..Reign : hosts'[i] = hosts[i]
      /\ \A x \in Peers : heard[x] \in 1..Reign
      /\ \A i \in 1..(Reign + 1) : i \in 1..Reign \/ i = Reign + 1
  <2>1. hosts \in Seq(Peers) /\ Reign \in Nat \ {0} /\ \A x \in Peers : heard[x] \in 1..Reign
    BY <1>0, HostType DEF TypeOK
  <2>2. QED BY <1>1, <2>1 DEF Reign
<1>3. OldHost' = hosts[Reign] /\ OldHost' \in Peers
  <2>1. Len(hosts') - 1 = Reign /\ Reign \in 1..Reign
    BY <1>2 DEF Reign
  <2>2. QED BY <1>0, <1>2, <2>1, HostType DEF OldHost
<1>4. PICK f \in [Ids -> Nat] : Good(f, used.gestures, history)
  BY DEF CInv
<1>5. ASSUME NoReturn'
      PROVE  NoReturn /\ HandoffsTrue /\ NoStaleGesture /\ \A n : ~Since(history, q, n)
  <2>1. NoReturn
    BY <1>2, <1>5 DEF NoReturn
  <2>2. \A i \in 1..Reign : hosts[i] # q
    BY <1>2, <1>5 DEF NoReturn
  <2>3. HandoffsTrue /\ NoStaleGesture
    BY <2>1 DEF CInv
  <2>4. q # FirstHost
    BY <1>2, <2>2, <2>3 DEF HandoffsTrue
  <2>5. \A k \in 1..Len(history) : history[k].kind = "handoff" => history[k].host # q
    BY <1>2, <2>2, <2>3 DEF HandoffsTrue
  <2>6. QED BY <2>1, <2>3, <2>4, <2>5 DEF Since
<1>6. \A n, x : Since(history, x, n)' <=> Since(history, x, n)
  BY <1>1 DEF Since
<1>7. ASSUME NEW x \in Peers, NoReturn', board[x].state # "none"
      PROVE  BoardTrue(history, x, board[x])'
  <2>1. BoardTrue(history, x, board[x])
    BY <1>4, <1>5, <1>7 DEF Good, BoardGood
  <2>2. Host(x)' = Host(x) /\ (IsHost(x)' <=> IsHost(x))
    BY <1>1, <1>2 DEF Host, IsHost
  <2>3. \A i \in 1..(Reign + 1) : heard[x] < i => ~Since(history, hosts'[i], board[x].seq)
    BY <1>2, <1>5, <1>7, <2>1 DEF BoardTrue
  <2>4. QED BY <1>1, <1>2, <2>1, <2>2, <2>3 DEF BoardTrue, Since
<1>8. ASSUME NEW a \in Peers, NEW n, NoReturn', NotLater(history, a, n) PROVE NotLater(history, a, n)'
  <2>1. ASSUME NEW i \in 1..(Reign + 1), NEW j \in 1..(Reign + 1), j < i, hosts'[j] = a
        PROVE  ~Since(history, hosts'[i], n)
    <3>1. CASE i \in 1..Reign
      <4>1. j \in 1..Reign /\ hosts[j] = a /\ hosts'[i] = hosts[i]
        BY <1>2, <2>1, <3>1
      <4>2. QED BY <1>8, <2>1, <3>1, <4>1 DEF NotLater
    <3>2. CASE i = Reign + 1
      BY <1>2, <1>5, <1>8, <3>2
    <3>3. QED BY <1>2, <3>1, <3>2
  <2>2. \A i, j \in 1..(Reign + 1) : j < i /\ hosts'[j] = a => ~Since(history, hosts'[i], n)
    BY <2>1
  <2>3. QED BY <1>1, <1>2, <2>2 DEF NotLater, Since
<1>9. ASSUME NEW a, NEW c, a \in Peers, c \in Peers, NEW m \in Way(net, a, c), NoReturn'
      PROVE  MessageTrue(history, a, m)'
  <2>1. MessageTrue(history, a, m)
    BY <1>4, <1>5, <1>9 DEF Good, MessageGood
  <2>2. \A n : NotLater(history, a, n) => NotLater(history, a, n)'
    BY <1>8, <1>9
  <2>3. QED BY <1>1, <2>1, <2>2 DEF MessageTrue, EntryTrue, Since
<1>10. Good(f, used.gestures, history)'
  <2>1. LogGood(f, used.gestures, history)'
    BY <1>1, <1>4 DEF Good, LogGood
  <2>2. \A x \in Peers : BoardGood(f, used.gestures, history, x, board[x])'
    BY <1>1, <1>4, <1>7 DEF Good, BoardGood
  <2>3. \A a, c \in Peers : \A m \in Way(net', a, c) : MessageGood(f, used.gestures, history, a, m)'
    BY <1>1, <1>4, <1>9 DEF Good, MessageGood
  <2>4. QED BY <2>1, <2>2, <2>3 DEF Good, Way
<1>11. ASSUME NoReturn' PROVE HandoffsTrue'
  <2>1. HandoffsTrue
    BY <1>5, <1>11
  <2>2. heard[OldHost'] # Reign + 1
    BY <1>2, <1>3
  <2>3. \A k \in 1..Len(history) : history[k].kind = "handoff" =>
          \E j \in 2..(Reign + 1) : history[k].host = hosts'[j] /\ j # Reign + 1
    <3>1. TAKE k \in 1..Len(history)
    <3>2. HAVE history[k].kind = "handoff"
    <3>3. PICK j \in 2..Reign : history[k].host = hosts[j]
      BY <2>1, <3>2 DEF HandoffsTrue
    <3>4. j \in 2..(Reign + 1) /\ j # Reign + 1 /\ hosts'[j] = hosts[j]
      BY <1>2
    <3>5. QED BY <3>3, <3>4
  <2>4. hosts'[1] = FirstHost
    BY <1>2, <2>1 DEF HandoffsTrue
  <2>5. QED BY <1>1, <1>2, <2>2, <2>3, <2>4 DEF HandoffsTrue
<1>12. NoReturn' => NoStaleGesture'
  BY <1>1, <1>5 DEF NoStaleGesture
<1>13. DrawnOnce'
  BY <1>1 DEF CInv, DrawnOnce
<1>14. QED BY <1>10, <1>11, <1>12, <1>13 DEF CInv

-----------------------------------------------------------------------------
(* All steps: the content *)

\* The boards in the beginning, in full.
LEMMA OpenedTells ==
  ASSUME NEW p \in Peers
  PROVE  /\ Opened(p).locked = FALSE
         /\ FirstDrawer = None => /\ Opened(p).log = <<>> /\ Opened(p).known = {}
                                  /\ Opened(p).doc = NewDoc /\ Opened(p).seq = 0
         /\ FirstDrawer # None => /\ Opened(p).doc = Drawn(NewDoc, FirstEntry) /\ Opened(p).seq = 1
                                  /\ p # FirstHost => Opened(p).log = <<>> /\ Opened(p).known = {}
                                  /\ p = FirstHost => Opened(p).log = <<FirstEntry>>
                                                      /\ Opened(p).known = {FirstEntry}
<1> DEFINE doc == Drawn(NewDoc, FirstEntry)
<1> HIDE DEF doc
<1>1. CASE FirstDrawer = None
  BY <1>1 DEF Opened, Closed
<1>2. CASE FirstDrawer # None /\ p # FirstHost
  <2>1. Opened(p) = [[Closed EXCEPT !.up = TRUE, !.state = "ready"] EXCEPT !.seq = 1, !.doc = doc]
    BY <1>2 DEF Opened, doc
  <2>2. QED BY <1>2, <2>1 DEF Closed, doc
<1>3. CASE FirstDrawer # None /\ p = FirstHost
  <2>1. Opened(p) = [[[Closed EXCEPT !.up = TRUE, !.state = "ready"] EXCEPT !.seq = 1, !.doc = doc]
                        EXCEPT !.log = <<FirstEntry>>, !.known = {FirstEntry}]
    BY <1>3 DEF Opened, Before, doc
  <2>2. QED BY <1>3, <2>1 DEF Closed, doc
<1>4. QED BY <1>1, <1>2, <1>3

\* Then they show what the log makes.
LEMMA OpenedTrue ==
  ASSUME Init, NEW p \in Peers
  PROVE  BoardTrue(history, p, board[p])
<1> DEFINE b == board[p]
           n == Len(history)
<1>1. /\ Reign = 1 /\ hosts[1] = FirstHost /\ heard[p] = 1 /\ Host(p) = FirstHost
      /\ b = Opened(p) /\ history = Before
  BY DEF Init, Reign, Host
<1>2. /\ b.source = None /\ ~b.offering /\ b.pending = {} /\ b.seq = n
      /\ b.locked = FALSE
  BY <1>1, OpenedIs, OpenedTells
<1>3. \A m : Since(history, FirstHost, m)
  BY DEF Since
<1>4. \A i \in 1..Reign : ~(heard[p] < i)
  BY <1>1
<1>5. CASE FirstDrawer = None
  <2>1. n = 0 /\ b.log = <<>> /\ b.known = {} /\ b.doc = NewDoc
    BY <1>1, <1>5, OpenedTells DEF Before
  <2> HIDE DEF b, n
  <2>2. Made(history, 0).doc = NewDoc /\ Made(history, 0).locked = FALSE
    BY MadeNext DEF Blank
  <2>3. Shows(history, n, b.doc, b.locked)
    BY <1>2, <2>1, <2>2, NewDocType, LikeItself DEF Shows
  <2>4. Len(b.log) = 0 /\ b.doc.accepted = {}
    BY <2>1, NewDocType
  <2>5. BoardTrue(history, p, b)
    BY <1>1, <1>2, <1>3, <1>4, <2>1, <2>3, <2>4 DEF BoardTrue
  <2>6. QED BY <2>5 DEF b
<1>6. CASE FirstDrawer # None
  <2> DEFINE e == FirstEntry
             d == Drawn(NewDoc, e)
  <2>1. n = 1 /\ Len(history) = 1 /\ history[1] = e /\ b.doc = d
        /\ (p # FirstHost => b.log = <<>> /\ b.known = {})
        /\ (p = FirstHost => b.log = <<e>> /\ b.known = {e})
    BY <1>1, <1>6, OpenedTells DEF Before
  <2>2. e.seq = 1 /\ e.kind = "add" /\ IsCommand(e) /\ e.kind \in Drawing
    BY <1>6, FirstEntryType DEF Drawing
  <2>3. d \in Docs /\ d.accepted = {e.id}
    BY <2>2, NewDocType, DrawnType
  <2> HIDE DEF e
  <2>4. Made(history, 1) = Turn(Blank, e)
    BY <2>1, MadeNext
  <2>5. Made(history, 1).doc = d /\ Made(history, 1).locked = FALSE
    <3>1. Made(history, 1) = [Blank EXCEPT !.doc = Drawn(NewDoc, e)]
      BY <2>2, <2>4 DEF Turn, Blank
    <3>2. QED BY <3>1 DEF Blank
  <2> HIDE DEF d
  <2>6. Shows(history, n, b.doc, b.locked)
    BY <1>2, <2>1, <2>3, <2>5, LikeItself DEF Shows
  <2>7. Recorded(history, e) /\ Drew(history, n, e.id)
    BY <2>1, <2>2 DEF Recorded, Drew
  <2>8. \A k \in 1..Len(b.log) : b.log[k] = e /\ p = FirstHost
    BY <2>1
  <2>9. \A k \in b.known : k = e /\ p = FirstHost
    BY <2>1
  <2> HIDE DEF b, n
  <2>10. \A k \in 1..Len(b.log) : Recorded(history, b.log[k]) /\ Since(history, p, b.log[k].seq - 1)
    BY <1>3, <2>7, <2>8
  <2>11. \A k \in b.known : Recorded(history, k) /\ Since(history, p, k.seq - 1)
    BY <1>3, <2>7, <2>9
  <2>12. \A x \in b.doc.accepted : Drew(history, b.seq, x)
    BY <1>2, <2>1, <2>3, <2>7
  <2>13. BoardTrue(history, p, b)
    BY <1>1, <1>2, <1>3, <1>4, <2>6, <2>10, <2>11, <2>12 DEF BoardTrue
  <2>14. QED BY <2>13 DEF b
<1>7. QED BY <1>5, <1>6

\* The invariant holds in the beginning.
LEMMA InitCounts ==
  ASSUME Init
  PROVE  CInv
<1>1. /\ Reign = 1 /\ hosts[1] = FirstHost /\ history = Before /\ used.gestures = 0
      /\ \A p \in Peers : board[p] = Opened(p)
      /\ \A p, q \in Peers : net[p][q] = <<>>
  BY DEF Init, Reign
<1>2. \A i \in 1..Len(history) : i = 1 /\ FirstDrawer # None /\ history[i] = FirstEntry
  BY <1>1 DEF Before
<1>3. FirstDrawer # None => /\ FirstEntry.kind = "add" /\ FirstEntry.id \in Ids /\ FirstEntry.id[2] = 0
                            /\ FirstEntry.epoch = 1
  BY FirstEntryType
<1>4. DrawnOnce
  BY <1>2 DEF DrawnOnce
<1>5. HandoffsTrue
  BY <1>1, <1>2, <1>3 DEF HandoffsTrue
<1>6. NoStaleGesture
  <2>1. ASSUME NEW i \in 1..Len(history), NEW j \in (history[i].seen + 1)..(i - 1) PROVE FALSE
    <3>1. i = 1 /\ history[i].seen = 0
      BY <1>2 DEF FirstEntry
    <3>2. QED BY <2>1, <3>1
  <2>2. QED BY <2>1 DEF NoStaleGesture
<1> DEFINE f == [x \in Ids |-> 1]
<1>7. f \in [Ids -> Nat]
  OBVIOUS
<1>8. Good(f, used.gestures, history)
  <2>1. LogGood(f, used.gestures, history)
    BY <1>1, <1>2, <1>3 DEF LogGood, Entered
  <2>2. \A q \in Peers : BoardGood(f, used.gestures, history, q, board[q])
    BY <1>1, OpenedIs, OpenedTrue DEF BoardGood
  <2>3. \A p, q \in Peers : Way(net, p, q) = {}
    BY <1>1 DEF Way
  <2>4. QED BY <2>1, <2>2, <2>3 DEF Good
<1> HIDE DEF f
<1>9. QED BY <1>4, <1>5, <1>6, <1>7, <1>8 DEF CInv

\* Every step keeps it.
LEMMA StepCounts ==
  ASSUME IInv, CInv, [Next]_vars
  PROVE  CInv'
<1> PICK f \in [Ids -> Nat] : Good(f, used.gestures, history)
  BY DEF CInv
<1>0. Booked(f) /\ (NoReturn => HandoffsTrue)
  BY DEF Booked, CInv
<1>1. ASSUME NEW p \in Peers, NEW q \in Peers, Receive(p, q)
      PROVE  CInv'
  <2>1. CASE ServeSuccessor(p, q) BY <1>0, <2>1, ServeSuccessorQuiet, QuietlyKeeps
  <2>2. CASE TakeOver(p, q) BY <1>0, <2>2, TakeOverQuiet, QuietlyKeeps
  <2>3. CASE ServeFollower(p, q) BY <1>0, <2>3, ServeFollowerQuiet, QuietlyKeeps
  <2>4. CASE Decide(p, q) BY <2>4, DecideCounts
  <2>5. CASE FollowDescriptor(p, q) BY <1>0, <2>5, FollowDescriptorQuiet, QuietlyKeeps
  <2>6. CASE FollowCommit(p, q) BY <1>0, <2>6, FollowCommitQuiet, QuietlyKeeps
  <2>7. CASE FollowDelta(p, q) BY <1>0, <2>7, FollowDeltaQuiet, QuietlyKeeps
  <2>8. CASE FollowSnapshot(p, q) BY <1>0, <2>8, FollowSnapshotQuiet, QuietlyKeeps
  <2>9. CASE FollowHeartbeat(p, q) BY <1>0, <2>9, FollowHeartbeatQuiet, QuietlyKeeps
  <2>10. CASE FollowReject(p, q) BY <1>0, <2>10, FollowRejectQuiet, QuietlyKeeps
  <2>11. CASE Ignore(p, q) BY <1>0, <2>11, IgnoreQuiet, QuietlyKeeps
  <2>12. CASE PeerLeft(p, q) BY <1>0, <2>12, PeerLeftQuiet, QuietlyKeeps
  <2>13. CASE ObservePeer(p, q) BY <1>0, <2>13, ObservePeerQuiet, QuietlyKeeps
  <2>14. QED BY <1>1, <2>1, <2>2, <2>3, <2>4, <2>5, <2>6, <2>7, <2>8, <2>9, <2>10, <2>11,
                <2>12, <2>13 DEF Receive
<1>2. ASSUME NEW p \in Peers, Tick(p)
      PROVE  CInv'
  <2>1. CASE Heartbeat(p) BY <1>0, <2>1, HeartbeatQuiet, QuietlyKeeps
  <2>2. CASE Resend(p) BY <1>0, <2>2, ResendQuiet, QuietlyKeeps
  <2>3. CASE SyncTick(p) BY <1>0, <2>3, SyncTickQuiet, QuietlyKeeps
  <2>4. QED BY <1>2, <2>1, <2>2, <2>3 DEF Tick
<1>3. CASE \E p \in Peers :
            \/ Start(p) \/ HearHost(p)
            \/ \E kind \in {"add", "undo", "clear"} : Draw(p, kind)
            \/ \E kind \in {"add", "undo"} : Propose(p, kind)
            \/ Lock(p) \/ Tick(p) \/ TimesOut(p)
            \/ TransportDown(p) \/ TransportUp(p) \/ Crash(p)
  <2> PICK p \in Peers :
            \/ Start(p) \/ HearHost(p)
            \/ \E kind \in {"add", "undo", "clear"} : Draw(p, kind)
            \/ \E kind \in {"add", "undo"} : Propose(p, kind)
            \/ Lock(p) \/ Tick(p) \/ TimesOut(p)
            \/ TransportDown(p) \/ TransportUp(p) \/ Crash(p)
    BY <1>3
  <2>1. CASE Start(p) BY <2>1, StartCounts
  <2>2. CASE HearHost(p) BY <2>2, HearHostCounts
  <2>3. ASSUME NEW kind \in {"add", "undo", "clear"}, Draw(p, kind) PROVE CInv'
    BY <2>3, DrawCounts DEF Drawing
  <2>4. ASSUME NEW kind \in {"add", "undo"}, Propose(p, kind) PROVE CInv'
    BY <2>4, ProposeCounts
  <2>5. CASE Lock(p) BY <2>5, LockCounts
  <2>6. CASE Tick(p) BY <1>2, <2>6
  <2>7. CASE TimesOut(p) BY <1>0, <2>7, TimesOutQuiet, QuietlyKeeps
  <2>8. CASE TransportDown(p) BY <1>0, <2>8, TransportDownQuiet, QuietlyKeeps
  <2>9. CASE TransportUp(p) BY <1>0, <2>9, TransportUpQuiet, QuietlyKeeps
  <2>10. CASE Crash(p) BY <2>10, CrashCounts
  <2>11. QED BY <2>1, <2>2, <2>3, <2>4, <2>5, <2>6, <2>7, <2>8, <2>9, <2>10
<1>4. CASE \E p, q \in Peers : TransferHost(p, q) \/ Receive(p, q)
  BY <1>1, <1>4, TransferHostCounts
<1>5. CASE UNCHANGED vars
  <2>1. /\ hosts' = hosts /\ heard' = heard /\ board' = board /\ net' = net /\ history' = history
        /\ used' = used
    BY <1>5 DEF vars
  <2>2. NetNow(f, net')
    BY <1>0, <2>1, NetIsNow
  <2>3. QED BY <1>0, <2>1, <2>2, NoneQuiet, QuietlyKeeps
<1>6. QED BY <1>3, <1>4, <1>5 DEF Next

\* The invariant of the content.
LEMMA AlwaysCInv == ASSUME ~FreshHosts PROVE Spec => []CInv
<1>1. Init => CInv
  BY InitCounts
<1>2. IInv /\ CInv /\ [Next]_vars => CInv'
  BY StepCounts
<1>3. Spec => []IInv
  BY AlwaysIInv
<1>4. QED BY <1>1, <1>2, <1>3, PTL DEF Spec

\* It makes the boards show the one log.
LEMMA ShowsOneLog ==
  ASSUME IInv, CInv, NoReturn
  PROVE  OneLog
<1> PICK f \in [Ids -> Nat] : Good(f, used.gestures, history)
  BY DEF CInv
<1>1. Booked(f)
  BY DEF Booked, CInv
<1>2. SUFFICES ASSUME NEW p \in Peers, board[p].state = "ready"
               PROVE  /\ board[p].seq <= Len(history)
                      /\ Snapshot(board[p].doc) = Snapshot(Canon(board[p].seq).doc)
                      /\ board[p].locked = Canon(board[p].seq).locked
  BY DEF OneLog
<1>3. board[p].source = None
  BY <1>2 DEF Good, BoardGood, BoardTrue
<1>4. Told(p)
  BY <1>1, <1>2, <1>3, ToldNow
<1>5. board[p].seq <= Len(history)
  BY SeqInLog
<1>6. Canon(board[p].seq) = Made(history, board[p].seq)
  BY CanonIsMade
<1>7. QED BY <1>4, <1>5, <1>6 DEF Told, Shows, Like, Snapshot

\* No command is carried out twice, however often it was sent and through
\* however many hosts (Runtime::commitProposal, rememberProposal and
\* Document::apply).  The premise is that of AuthorityIsOne.
THEOREM NothingIsDrawnTwice == ASSUME ~FreshHosts PROVE Spec => []DrawnOnce
<1>1. CInv => DrawnOnce
  BY DEF CInv
<1>2. QED BY <1>1, AlwaysCInv, PTL

\* Whoever may edit sees exactly what the numbers make that its board has,
\* through commits, deltas, snapshots and changes of the host, until somebody has
\* become the host again (Runtime::applyEntry, receive and setAuthority).
THEOREM BoardsShowOneLog == ASSUME ~FreshHosts PROVE Spec => [](NoReturn => OneLog)
<1>1. IInv /\ CInv => (NoReturn => OneLog)
  BY ShowsOneLog
<1>2. QED BY <1>1, AlwaysIInv, AlwaysCInv, PTL

\* Between what the author of a gesture saw and the number that the gesture got
\* there is no lock, no clear and no other host, until somebody has become the
\* host again (Document::advanceInteraction and apply).
THEOREM NoGestureIsStale == ASSUME ~FreshHosts PROVE Spec => [](NoReturn => NoStaleGesture)
<1>1. CInv => (NoReturn => NoStaleGesture)
  BY DEF CInv
<1>2. QED BY <1>1, AlwaysCInv, PTL

\* With two hosts nobody returns.
Few == Len(hosts) <= 2

\* Every host but the last is followed by another.
LEMMA FewReturn ==
  ASSUME IInv, Few
  PROVE  NoReturn
<1>1. Reign \in Nat \ {0} /\ Reign <= 2
  BY HostType DEF IInv, Few, Reign
<1>2. \A i \in 1..(Reign - 1) : hosts[i] # hosts[i + 1]
  BY DEF IInv, ChainInv
<1>3. ASSUME NEW i \in 1..Reign, NEW j \in 1..Reign, i < j PROVE hosts[i] # hosts[j]
  <2>1. i \in 1..(Reign - 1) /\ j = i + 1
    BY <1>1, <1>3
  <2>2. QED BY <1>2, <2>1
<1>4. QED BY <1>1, <1>3 DEF NoReturn

\* There are no more than two if there may not be.
LEMMA AlwaysFew == ASSUME ~FreshHosts, MaxHosts <= 2 PROVE Spec => []Few
<1>1. Init => Few
  BY DEF Init, Few
<1>2. IInv /\ Few /\ [Next]_vars => Few'
  <2> SUFFICES ASSUME IInv, Few, [Next]_vars PROVE Few'
    OBVIOUS
  <2>1. hosts \in Seq(Peers) /\ Len(hosts) \in Nat /\ MaxHosts \in Nat
    BY BoardAssumption DEF IInv, TypeOK
  <2>2. ASSUME NEW p \in Peers, NEW q \in Peers, TransferHost(p, q) PROVE Few'
    BY <2>1, <2>2 DEF TransferHost, Few
  <2>3. CASE hosts' = hosts
    BY <2>3 DEF Few
  <2>4. hosts' = hosts \/ \E p, q \in Peers : TransferHost(p, q)
    <3>1. CASE \E p \in Peers :
            \/ Start(p) \/ HearHost(p)
            \/ \E kind \in {"add", "undo", "clear"} : Draw(p, kind)
            \/ \E kind \in {"add", "undo"} : Propose(p, kind)
            \/ Lock(p) \/ Tick(p) \/ TimesOut(p)
            \/ TransportDown(p) \/ TransportUp(p) \/ Crash(p)
      <4>1. \A p \in Peers : HearHost(p) => hosts' = hosts
        BY DEF HearHost, SetAuthority
      <4>2. \A p \in Peers : Lock(p) => hosts' = hosts
        BY DEF Lock
      <4>3. \A p \in Peers : \A kind \in {"add", "undo", "clear"} : Draw(p, kind) => hosts' = hosts
        BY DEF Draw
      <4>4. QED BY <3>1, <4>1, <4>2, <4>3
              DEF Start, Propose, Tick, Heartbeat, Resend, SyncTick, TimesOut, TransportDown,
                  TransportUp, Crash
    <3>2. CASE \E p, q \in Peers : Receive(p, q)
      BY <3>2 DEF Receive, ServeSuccessor, TakeOver, ServeFollower, Decide, FollowDescriptor,
           FollowCommit, FollowDelta, FollowSnapshot, FollowHeartbeat, FollowReject, Ignore,
           PeerLeft, ObservePeer
    <3>3. CASE UNCHANGED vars
      BY <3>3 DEF vars
    <3>4. QED BY <3>1, <3>2, <3>3 DEF Next
  <2>5. QED BY <2>2, <2>3, <2>4
<1>3. Spec => []IInv
  BY AlwaysIInv
<1>4. QED BY <1>1, <1>2, <1>3, PTL DEF Spec

\* So when the meeting has two hosts at most, one after the other, both hold
\* outright.
THEOREM TwoHostsShowOneLog ==
  ASSUME ~FreshHosts, MaxHosts <= 2 PROVE Spec => [](OneLog /\ NoStaleGesture)
<1>1. IInv /\ Few => NoReturn
  BY FewReturn
<1>2. QED BY <1>1, AlwaysIInv, AlwaysFew, BoardsShowOneLog, NoGestureIsStale, PTL

=============================================================================
