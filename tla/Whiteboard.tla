----------------------------- MODULE Whiteboard -----------------------------
(***************************************************************************)
(* The collaborative whiteboard of a meeting: one Runtime for each         *)
(* participant (src/core/whiteboard/whiteboard_runtime.cpp) over the       *)
(* shared Document (whiteboard_document.cpp).  The host of the meeting is  *)
(* the authority: it numbers what it accepts and broadcasts it, the others *)
(* propose, apply what comes in order and ask for what they miss.  The     *)
(* host may change, connections may break, a participant may start late,   *)
(* rejoin, or restart its program.                                         *)
(*                                                                         *)
(* Not here: images, the kinds of command that differ from these only in   *)
(* what they draw, the rate limit, and the end of a session.               *)
(***************************************************************************)
EXTENDS Naturals, Sequences, FiniteSets

CONSTANTS
    Peers,         \* participants that use the board
    FirstHost,     \* the host when the board is opened
    None,          \* no participant
    FirstDrawer,   \* who has already drawn something when the model begins, or None
    MaxHosts,      \* how many hosts there are in turn (bound)
    MaxGestures,   \* how many commands the users give (bound)
    MaxLocks,      \* how often the host locks or unlocks the board (bound)
    MaxBreaks,     \* how many connections break (bound)
    MaxCrashes,    \* how many programs are restarted (bound)
    Cap,           \* messages between two peers that fit in the send buffer
    LogCap,        \* MaxLogEntries
    MaxMisses,     \* how many changes of host are missed behind a later one (bound)
    FreshHosts     \* whether a program may open the board as the host of a board
                   \* that others have open: after a crash, or named too early

ASSUME BoardAssumption ==
    /\ FirstHost \in Peers /\ None \notin Peers /\ FirstDrawer \in Peers \cup {None}
    /\ {MaxHosts, MaxGestures, MaxLocks, MaxBreaks, MaxCrashes, MaxMisses} \subseteq Nat
    /\ Cap \in Nat \ {0} /\ LogCap \in Nat \ {0} /\ FreshHosts \in BOOLEAN

VARIABLES
    hosts,     \* the hosts of the meeting so far, the last is the present one
    heard,     \* heard[p]: the index in hosts of the last host p heard of
    board,     \* board[p]: the Runtime of p
    net,       \* net[p][q]: what is under way from p to q, in order
    history,   \* all that authorities have numbered, in the order they did it
    used       \* how much of each bound has been used up

vars == <<hosts, heard, board, net, history, used>>

-----------------------------------------------------------------------------
(* The document *)

NewDoc == [on |-> {}, undo |-> <<>>, epoch |-> 1, accepted |-> {}]

\* Document::advanceInteraction: gestures of before are stale from here on.
Barrier(d) == [d EXCEPT !.epoch = @ + 1, !.accepted = {}]

\* Of the undo list only what author drew and what is still there counts.
Undoable(d, author) ==
    {i \in 1..Len(d.undo) : d.undo[i][1] = author /\ d.undo[i] \in d.on}
LastOf(S) == CHOOSE i \in S : \A j \in S : j <= i
WithoutAt(s, i) == SubSeq(s, 1, i - 1) \o SubSeq(s, i + 1, Len(s))

\* Document::apply when the command belongs to the present interaction.
Drawn(d, c) ==
    LET accepted == [d EXCEPT !.accepted = @ \cup {c.id}]
    IN  CASE c.kind = "add"   -> [accepted EXCEPT !.on = @ \cup {c.id},
                                                  !.undo = Append(@, c.id)]
          [] c.kind = "undo" /\ Undoable(d, c.id[1]) # {} ->
                                 LET i == LastOf(Undoable(d, c.id[1]))
                                 IN  [accepted EXCEPT !.on = @ \ {d.undo[i]},
                                                      !.undo = WithoutAt(@, i)]
          [] c.kind = "clear" -> [Barrier([d EXCEPT !.on = {}, !.undo = <<>>])
                                     EXCEPT !.accepted = {c.id}]
          [] OTHER -> accepted

\* Status of Document::apply: the context first, then the command.
Verdict(d, c, owner) ==
    CASE c.epoch # d.epoch                                  -> "stale"
      [] c.epoch = d.epoch /\ c.id \in d.accepted           -> "duplicate"
      [] OTHER ->
           IF \/ c.kind = "add" /\ c.id \in d.on
              \/ c.kind = "undo" /\ Undoable(d, c.id[1]) = {}
              \/ c.kind = "clear" /\ c.id[1] # owner
           THEN "refused" ELSE "applied"

\* toJson leaves the undo list and the accepted commands out, fromJson
\* starts with none.
Snapshot(d) == [on |-> d.on, epoch |-> d.epoch]
Restored(s) == [on |-> s.on, undo |-> <<>>, epoch |-> s.epoch, accepted |-> {}]

-----------------------------------------------------------------------------
(* Boards *)

Closed == [state |-> "none", seq |-> 0, doc |-> NewDoc, locked |-> FALSE,
           log |-> <<>>, known |-> {}, pending |-> {}, source |-> None,
           offering |-> FALSE, up |-> FALSE]

Host(p) == hosts[heard[p]]
IsHost(p) == Host(p) = p
\* localIsAuthority with no transfer to wait for.  Mutant: it does not wait.
LeadsAtOnce(p) == IsHost(p)
Leads(p) == IsHost(p) /\ board[p].source = None
\* Whom p recovers from: authorityTransferSource_, or the authority.
Recovery(p) == IF board[p].source = None THEN Host(p) ELSE board[p].source
Others(p) == {q \in Peers \ {p} : board[q].state # "none"}
AllowedWriter(p, q) == q = Host(p) \/ ~board[p].locked

\* Runtime::send through RoomTransport::send: nothing while the transport is
\* down, nothing when the buffer is above its mark.
Full(n, p, D) == \E q \in D : Len(n[p][q]) >= Cap
Sent(n, p, D, m) ==
    IF ~board[p].up \/ Full(n, p, D) THEN n
    ELSE [n EXCEPT ![p] = [q \in Peers |-> IF q \in D THEN Append(@[q], m) ELSE @[q]]]

Descriptor(p, b) == [kind |-> "descriptor", host |-> Host(p), seq |-> b.seq,
                     body |-> Snapshot(b.doc), locked |-> b.locked]
SnapshotOf(host, b) == [kind |-> "snapshot", host |-> host, seq |-> b.seq,
                        body |-> Snapshot(b.doc), locked |-> b.locked]
CommitOf(p, e) == [kind |-> "commit", host |-> Host(p), entry |-> e]

\* Runtime::requestSync: the new board, and what it sends.  Mutant: the request
\* goes to the authority, also from an authority that waits for its predecessor.
AsksSync(p, b) ==
    ~(Host(p) = p /\ b.source = None) /\ b.up /\ b.state # "frozen"
SyncAsked(p, b) == IF AsksSync(p, b) THEN [b EXCEPT !.state = "synchronizing"] ELSE b
SyncSentToHost(n, p, b) ==
    IF AsksSync(p, b)
    THEN Sent(n, p, {Host(p)} \cap Others(p),
              [kind |-> "sync", host |-> Host(p), base |-> b.seq])
    ELSE n
SyncSent(n, p, b) ==
    IF AsksSync(p, b)
    THEN Sent(n, p, {IF b.source = None THEN Host(p) ELSE b.source} \cap Others(p),
              [kind |-> "sync", host |-> Host(p), base |-> b.seq])
    ELSE n

\* Everybody has opened the board and sees what was drawn on it so far.
FirstEntry == [seq |-> 1, kind |-> "add", id |-> <<FirstDrawer, 0>>, epoch |-> 1, seen |-> 0]
Before == IF FirstDrawer = None THEN <<>> ELSE <<FirstEntry>>
Opened(p) ==
    LET open == [Closed EXCEPT !.up = TRUE, !.state = "ready"]
        drawn == [open EXCEPT !.seq = 1, !.doc = Drawn(NewDoc, FirstEntry)]
    IN  IF FirstDrawer = None THEN open
        ELSE IF p # FirstHost THEN drawn
        ELSE [drawn EXCEPT !.log = Before, !.known = {FirstEntry}]
Init ==
    /\ hosts = <<FirstHost>>
    /\ heard = [p \in Peers |-> 1]
    /\ board = [p \in Peers |-> Opened(p)]
    /\ net = [p \in Peers |-> [q \in Peers |-> <<>>]]
    /\ history = Before
    /\ used = [gestures |-> 0, locks |-> 0, breaks |-> 0, crashes |-> 0,
               misses |-> 0]

-----------------------------------------------------------------------------
(* Opening, and the change of the host *)

\* configureWhiteboardRuntimeOnUiThread with no board yet: the constructor and
\* Runtime::start.  The others see the participant come.
Joined(p) ==
    [net EXCEPT ![p] = [q \in Peers |->
                           IF q \in Others(p) THEN Append(@[q], [kind |-> "joined"]) ELSE @[q]]]
Start(p) ==
    LET h == hosts[Len(hosts)]
        to == IF h = p THEN Others(p) ELSE {h} \cap Others(p)
        hello == IF h = p
                 THEN [kind |-> "descriptor", host |-> h, seq |-> 0,
                       body |-> Snapshot(NewDoc), locked |-> FALSE]
                 ELSE [kind |-> "sync", host |-> h, base |-> 0]
    IN  /\ board[p].state = "none"
        /\ heard' = [heard EXCEPT ![p] = Len(hosts)]
        /\ board' = [board EXCEPT ![p] =
               [Closed EXCEPT !.up = TRUE,
                              !.state = IF h = p THEN "ready" ELSE "synchronizing"]]
        /\ net' = [Joined(p) EXCEPT ![p] =
               [q \in Peers |-> IF q \in to THEN Append(@[q], hello) ELSE @[q]]]
        /\ UNCHANGED <<hosts, history, used>>

\* MeetingCoordinator::transferHost: the host names another participant, once
\* its own board has been taken over.
TransferHost(p, q) ==
    /\ p = hosts[Len(hosts)] /\ heard[p] = Len(hosts)
    /\ board[p].state # "none" /\ Leads(p)
    /\ q # p /\ Len(hosts) < MaxHosts
    /\ FreshHosts \/ board[q].state # "none"
    /\ hosts' = Append(hosts, q)
    /\ UNCHANGED <<heard, board, net, history, used>>

\* Runtime::setAuthority.  Mutant: nothing marks what was begun under the
\* former host.
Hands(p) == IsHost(p) /\ board[p].source = None
HandedSilently(p, h) ==
    [board[p] EXCEPT
        !.seq      = IF Hands(p) THEN @ + 1 ELSE @,
        !.log      = <<>>, !.known = {},
        !.source   = IF h = p THEN Host(p) ELSE None,
        !.offering = Hands(p),
        !.state    = IF board[p].up THEN "synchronizing" ELSE "readonly"]
Handed(p, h) ==
    [board[p] EXCEPT
        !.doc      = Barrier(@),
        !.seq      = IF Hands(p) THEN @ + 1 ELSE @,
        !.log      = <<>>, !.known = {}, !.pending = {},
        !.source   = IF h = p THEN Host(p) ELSE None,
        !.offering = Hands(p),
        !.state    = IF board[p].up THEN "synchronizing" ELSE "readonly"]
SetAuthority(p, i) ==
    LET h == hosts[i]
        b == Handed(p, h)
        offered == IF Hands(p) /\ b.up
                   THEN Sent(net, p, {h} \cap Others(p), SnapshotOf(h, b)) ELSE net
        target == {IF h = p THEN Host(p) ELSE h} \cap Others(p)
    IN  /\ board[p].state # "none"
        /\ heard' = [heard EXCEPT ![p] = i]
        /\ IF h = Host(p)
           THEN UNCHANGED <<board, net, history>>
           ELSE /\ board' = [board EXCEPT ![p] = b]
                /\ net' = IF b.up
                          THEN Sent(offered, p, target,
                                    [kind |-> "sync", host |-> h, base |-> b.seq])
                          ELSE net
                /\ history' = IF Hands(p) THEN Append(history, [kind |-> "handoff", host |-> h])
                              ELSE history
        /\ used' = [used EXCEPT !.misses = @ + i - heard[p] - 1]
        /\ UNCHANGED hosts

\* The metadata of the room names the present host; a change that came and
\* went while p was away is never heard of.
HearHost(p) ==
    \E i \in (heard[p] + 1)..Len(hosts) :
        /\ i - heard[p] - 1 <= MaxMisses - used.misses
        /\ SetAuthority(p, i)

-----------------------------------------------------------------------------
(* Commands *)

\* Runtime::rememberProposal and appendAndBroadcast at the authority.
Logged(log, e) ==
    Append(IF Len(log) = LogCap THEN Tail(log) ELSE log, e)
Committed(b, e, doc) ==
    [b EXCEPT !.seq = @ + 1, !.doc = doc, !.log = Logged(@, e)]

Gesture(p, kind) ==
    [id |-> <<p, used.gestures + 1>>, kind |-> kind, epoch |-> board[p].doc.epoch,
     seen |-> board[p].seq]
Entry(b, c) == [seq |-> b.seq + 1, kind |-> c.kind, id |-> c.id, epoch |-> c.epoch,
                seen |-> c.seen]

\* Runtime::propose of the authority, which commits at once.
Draw(p, kind) ==
    LET b == board[p]
        c == Gesture(p, kind)
        e == Entry(b, c)
    IN  /\ used.gestures < MaxGestures
        /\ Leads(p) /\ b.state = "ready" /\ b.up
        /\ Verdict(b.doc, c, p) = "applied"
        /\ board' = [board EXCEPT ![p] =
               [Committed(b, e, Drawn(b.doc, c)) EXCEPT !.known = @ \cup {e}]]
        /\ net' = Sent(net, p, Others(p), CommitOf(p, e))
        /\ history' = Append(history, e)
        /\ used' = [used EXCEPT !.gestures = @ + 1]
        /\ UNCHANGED <<hosts, heard>>

\* Runtime::propose of another: sent and remembered until it is answered.
Propose(p, kind) ==
    LET b == board[p]
        c == Gesture(p, kind)
        h == {Host(p)} \cap Others(p)
    IN  /\ used.gestures < MaxGestures
        /\ ~IsHost(p) /\ b.state = "ready" /\ b.up /\ AllowedWriter(p, p)
        /\ board' = [board EXCEPT ![p].pending = @ \cup {c},
               ![p].state = IF Full(net, p, h) THEN "readonly" ELSE "ready"]
        /\ net' = Sent(net, p, h, [kind |-> "propose", host |-> Host(p), cmd |-> c])
        /\ used' = [used EXCEPT !.gestures = @ + 1]
        /\ UNCHANGED <<hosts, heard, history>>

\* Runtime::setLocked; setWriters takes the same way.
Lock(p) ==
    LET b == board[p]
        e == [seq |-> b.seq + 1, kind |-> "lock", locked |-> ~b.locked]
    IN  /\ used.locks < MaxLocks
        /\ Leads(p) /\ b.state = "ready"
        /\ board' = [board EXCEPT ![p] =
               [Committed(b, e, Barrier(b.doc)) EXCEPT !.locked = ~@]]
        /\ net' = Sent(net, p, Others(p), CommitOf(p, e))
        /\ history' = Append(history, e)
        /\ used' = [used EXCEPT !.locks = @ + 1]
        /\ UNCHANGED <<hosts, heard>>

-----------------------------------------------------------------------------
(* Runtime::tick *)

\* The periods of two and eight seconds are longer than what is under way takes.
Quiet(p, q) == net[p][q] = <<>> /\ net[q][p] = <<>>

\* The heartbeat of the authority, as far as it reaches somebody who needs it;
\* it changes nothing for the others.
Heartbeat(p) ==
    /\ Leads(p) /\ board[p].up
    /\ \E q \in Others(p) :
        /\ board[q].seq < board[p].seq \/ board[q].state # "ready"
        /\ Quiet(p, q)
        /\ net' = Sent(net, p, {q},
                       [kind |-> "heartbeat", host |-> p, seq |-> board[p].seq])
        /\ UNCHANGED <<hosts, heard, board, history, used>>

\* A proposal that was not answered in two seconds is sent again.
Resend(p) ==
    LET h == {Host(p)} \cap Others(p)
    IN  \E c \in board[p].pending :
        /\ ~Leads(p) /\ board[p].up /\ board[p].state = "ready"
        /\ \A q \in h : net[p][q] = <<>>
        /\ board' = [board EXCEPT ![p].state = IF Full(net, p, h) THEN "readonly" ELSE @]
        /\ net' = Sent(net, p, h, [kind |-> "propose", host |-> Host(p), cmd |-> c])
        /\ UNCHANGED <<hosts, heard, history, used>>

\* Whoever waits for a snapshot or a descriptor asks for it again.
SyncTick(p) ==
    LET b == board[p]
    IN  /\ ~Leads(p) /\ b.up
        /\ \/ b.state = "synchronizing"
           \/ b.source # None /\ b.state = "readonly"
        /\ Quiet(p, Recovery(p))
        /\ board' = [board EXCEPT ![p] = SyncAsked(p, b)]
        /\ net' = SyncSent(net, p, b)
        /\ UNCHANGED <<hosts, heard, history, used>>

\* The authority has been silent for eight seconds.  One that is connected,
\* has the same host in mind and serves p is heard every two seconds.
Heard(p) ==
    LET q == Recovery(p)
    IN  /\ board[q].state # "none" /\ board[q].up
        /\ Host(q) = Host(p)
        /\ Leads(q) \/ board[q].offering
TimesOut(p) ==
    /\ ~Leads(p) /\ board[p].up
    /\ board[p].state \in {"synchronizing", "ready"}
    /\ ~Heard(p) /\ Quiet(p, Recovery(p))
    /\ board' = [board EXCEPT ![p].state = "readonly"]
    /\ UNCHANGED <<hosts, heard, net, history, used>>

-----------------------------------------------------------------------------
(* Runtime::receive: the first message from p arrives at q. *)

Head1(p, q) == Head(net[p][q])
Taken(p, q) == [net EXCEPT ![p][q] = Tail(@)]
Arrived(p, q, kinds) == net[p][q] # <<>> /\ Head1(p, q).kind \in kinds

Data == {"sync", "descriptor", "snapshot", "delta", "commit", "propose", "reject",
         "heartbeat"}
Heeds(q, m) ==
    /\ board[q].state \notin {"none", "frozen"} /\ board[q].up
    /\ m.host = Host(q)

\* Which of the branches of receive a message takes.
Offers(p, q) == board[q].offering /\ p = Host(q)
Follows(p, q) == board[q].source = None /\ ~IsHost(q) /\ p = Host(q)
\* A descriptor or a commit of the successor ends the offer.
Listening(q, m) ==
    [board[q] EXCEPT !.offering = @ /\ m.kind \notin {"descriptor", "commit"}]

\* The former authority serves its successor, and only that.
ServeSuccessor(p, q) ==
    /\ Arrived(p, q, {"sync"}) /\ Heeds(q, Head1(p, q)) /\ Offers(p, q)
    /\ net' = Sent(Taken(p, q), q, {p} \cap Others(q), SnapshotOf(Host(q), board[q]))
    /\ UNCHANGED <<hosts, heard, board, history, used>>

\* The new authority takes the last snapshot of the old one, and is ready:
\* finishAuthorityTransfer.
TakeOver(p, q) ==
    LET m == Head1(p, q)
        b == [board[q] EXCEPT !.doc = Restored(m.body), !.seq = m.seq,
                              !.locked = m.locked, !.source = None,
                              !.offering = FALSE, !.state = "ready"]
    IN  /\ Arrived(p, q, {"snapshot"}) /\ Heeds(q, m)
        /\ board[q].source = p /\ m.seq > board[q].seq
        /\ board' = [board EXCEPT ![q] = b]
        /\ net' = Sent(Taken(p, q), q, Others(q), Descriptor(q, b))
        /\ UNCHANGED <<hosts, heard, history, used>>

\* sendDescriptor and sendRecovery: the tail of the log, whose numbers follow one
\* another, or all there is.
LogTail(b, base) == SubSeq(b.log, base + 2 - Head(b.log).seq, Len(b.log))
Recovering(q, base) ==
    LET b == board[q]
        canDelta == b.log # <<>> /\ base + 1 >= Head(b.log).seq /\ base < b.seq
    IN  IF canDelta
        THEN [kind |-> "delta", host |-> q, base |-> base, entries |-> LogTail(b, base)]
        ELSE SnapshotOf(q, b)
ServeFollower(p, q) ==
    LET m == Head1(p, q)
        n == Sent(Taken(p, q), q, {p} \cap Others(q), Descriptor(q, board[q]))
    IN  /\ Arrived(p, q, {"sync"}) /\ Heeds(q, m) /\ Leads(q)
        /\ net' = IF m.base = board[q].seq THEN n
                  ELSE Sent(n, q, {p} \cap Others(q), Recovering(q, m.base))
        /\ UNCHANGED <<hosts, heard, board, history, used>>

\* commitProposal for another's command: answered again, accepted or rejected.
\* Mutant: a duplicate passes for accepted, as it does in applyEntry.
Answers(q, c) == {k \in board[q].known : k.id = c.id}
AcceptsTwice(p, q, c) ==
    AllowedWriter(q, p) /\ Verdict(board[q].doc, c, q) \in {"applied", "duplicate"}
Accepts(p, q, c) ==
    /\ Answers(q, c) = {}
    /\ AllowedWriter(q, p) /\ Verdict(board[q].doc, c, q) = "applied"
Decide(p, q) ==
    LET m == Head1(p, q)
        b == board[q]
        c == m.cmd
        e == Entry(b, c)
        back == {p} \cap Others(q)
    IN  /\ Arrived(p, q, {"propose"}) /\ Heeds(q, m) /\ Leads(q)
        /\ IF Accepts(p, q, c)
           THEN /\ board' = [board EXCEPT ![q] =
                       [Committed(b, e, Drawn(b.doc, c)) EXCEPT !.known = @ \cup {e}]]
                /\ net' = Sent(Taken(p, q), q, Others(q), CommitOf(q, e))
                /\ history' = Append(history, e)
           ELSE /\ net' = Sent(Taken(p, q), q, back,
                       IF Answers(q, c) # {}
                       THEN CommitOf(q, CHOOSE k \in Answers(q, c) : TRUE)
                       ELSE [kind |-> "reject", host |-> q, id |-> c.id])
                /\ UNCHANGED <<board, history>>
        /\ UNCHANGED <<hosts, heard, used>>

\* applyEntry: only the next one, and only if the document takes it.
\* Mutant: any later one.
AppliesLater(q, b, e) ==
    /\ e.seq > b.seq
    /\ \/ e.kind = "lock"
       \/ Verdict(b.doc, e, Host(q)) \in {"applied", "duplicate"}
Applies(q, b, e) ==
    /\ e.seq = b.seq + 1
    /\ \/ e.kind = "lock"
       \/ Verdict(b.doc, e, Host(q)) \in {"applied", "duplicate"}
Applied(q, b, e) ==
    IF e.kind = "lock"
    THEN [b EXCEPT !.seq = e.seq, !.doc = Barrier(@), !.locked = e.locked]
    ELSE [b EXCEPT !.seq = e.seq,
                   !.doc = IF Verdict(@, e, Host(q)) = "applied" THEN Drawn(@, e) ELSE @,
                   !.pending = {c \in @ : c.id # e.id}]

FollowDescriptor(p, q) ==
    LET m == Head1(p, q)
        b == Listening(q, m)
        same == m.seq = b.seq /\ m.body = Snapshot(b.doc)
    IN  /\ Arrived(p, q, {"descriptor"}) /\ Heeds(q, m) /\ Follows(p, q)
        /\ board' = [board EXCEPT ![q] =
               IF same THEN [b EXCEPT !.locked = m.locked, !.state = "ready"]
               ELSE SyncAsked(q, b)]
        /\ net' = IF same THEN Taken(p, q) ELSE SyncSent(Taken(p, q), q, b)
        /\ UNCHANGED <<hosts, heard, history, used>>

FollowCommit(p, q) ==
    LET m == Head1(p, q)
        e == m.entry
        b == Listening(q, m)
        known == e.seq <= b.seq
        answered == IF e.kind = "lock" THEN b
                    ELSE [b EXCEPT !.pending = {c \in @ : c.id # e.id}]
    IN  /\ Arrived(p, q, {"commit"}) /\ Heeds(q, m) /\ Follows(p, q)
        /\ board' = [board EXCEPT ![q] =
               IF known THEN answered
               ELSE IF Applies(q, b, e) THEN [Applied(q, b, e) EXCEPT !.state = "ready"]
               ELSE SyncAsked(q, b)]
        /\ net' = IF known \/ Applies(q, b, e) THEN Taken(p, q)
                  ELSE SyncSent(Taken(p, q), q, b)
        /\ UNCHANGED <<hosts, heard, history, used>>

\* A delta is applied up to the first entry that does not fit.
Run(q, b, entries) ==
    LET after[i \in 0..Len(entries)] ==
            IF i = 0 THEN b
            ELSE IF Applies(q, after[i - 1], entries[i])
                 THEN Applied(q, after[i - 1], entries[i]) ELSE after[i - 1]
    IN  after[Len(entries)]
FollowDelta(p, q) ==
    LET m == Head1(p, q)
        b == Run(q, board[q], m.entries)
        end == m.entries[Len(m.entries)].seq
        good == m.base = board[q].seq /\ b.seq = end
        left == IF m.base = board[q].seq THEN b ELSE board[q]
    IN  /\ Arrived(p, q, {"delta"}) /\ Heeds(q, m) /\ Follows(p, q)
        /\ board' = [board EXCEPT ![q] =
               IF good THEN [b EXCEPT !.state = "ready"] ELSE SyncAsked(q, left)]
        /\ net' = IF good THEN Taken(p, q) ELSE SyncSent(Taken(p, q), q, left)
        /\ UNCHANGED <<hosts, heard, history, used>>

FollowSnapshot(p, q) ==
    LET m == Head1(p, q)
    IN  /\ Arrived(p, q, {"snapshot"}) /\ Heeds(q, m) /\ Follows(p, q)
        /\ board' = IF m.seq < board[q].seq THEN board
                    ELSE [board EXCEPT ![q].doc = Restored(m.body), ![q].seq = m.seq,
                                       ![q].locked = m.locked, ![q].state = "ready"]
        /\ net' = Taken(p, q)
        /\ UNCHANGED <<hosts, heard, history, used>>

FollowHeartbeat(p, q) ==
    LET m == Head1(p, q)
        b == board[q]
        behind == m.seq > b.seq \/ b.state \in {"readonly", "synchronizing"}
    IN  /\ Arrived(p, q, {"heartbeat"}) /\ Heeds(q, m) /\ Follows(p, q)
        /\ board' = IF behind THEN [board EXCEPT ![q] = SyncAsked(q, b)] ELSE board
        /\ net' = IF behind THEN SyncSent(Taken(p, q), q, b) ELSE Taken(p, q)
        /\ UNCHANGED <<hosts, heard, history, used>>

FollowReject(p, q) ==
    LET m == Head1(p, q)
    IN  /\ Arrived(p, q, {"reject"}) /\ Heeds(q, m) /\ Follows(p, q)
        /\ board' = [board EXCEPT ![q].pending = {c \in @ : c.id # m.id}]
        /\ net' = Taken(p, q)
        /\ UNCHANGED <<hosts, heard, history, used>>

\* Everything else is dropped.
Heeded(p, q) ==
    LET m == Head1(p, q)
    IN  /\ Heeds(q, m)
        /\ \/ Offers(p, q) /\ m.kind = "sync"
           \/ board[q].source = p /\ m.kind = "snapshot" /\ m.seq > board[q].seq
           \/ Leads(q) /\ m.kind \in {"sync", "propose"}
           \/ Follows(p, q) /\ m.kind \notin {"sync", "propose"}
Ignore(p, q) ==
    /\ Arrived(p, q, Data) /\ ~Heeded(p, q)
    /\ net' = Taken(p, q)
    /\ UNCHANGED <<hosts, heard, board, history, used>>

-----------------------------------------------------------------------------
(* Connections and departures *)

\* setTransportReady(false): OnReconnecting.
TransportDown(p) ==
    /\ used.breaks < MaxBreaks
    /\ board[p].state # "none" /\ board[p].up
    /\ board' = [board EXCEPT ![p].up = FALSE,
                              ![p].state = IF @ = "frozen" THEN @ ELSE "readonly"]
    /\ used' = [used EXCEPT !.breaks = @ + 1]
    /\ UNCHANGED <<hosts, heard, net, history>>

\* The connection of p could not be resumed: both sides lose each other and
\* what was under way between them; it will join again.
Lost(n, p) ==
    [a \in Peers |-> [b \in Peers |->
        IF p \in {a, b} /\ a # b /\ {a, b} \ {p} \subseteq Others(p)
        THEN <<[kind |-> "left"]>> ELSE n[a][b]]]
Rejoined(n, p) ==
    [a \in Peers |-> [b \in Peers |->
        IF p \in {a, b} /\ a # b /\ {a, b} \ {p} \subseteq Others(p)
        THEN Append(n[a][b], [kind |-> "joined"]) ELSE n[a][b]]]

\* setTransportReady(true): OnReconnected, after a resume or a full restart.
TransportUp(p) ==
    LET b == [board[p] EXCEPT !.up = TRUE]
        leads == Leads(p)
        greeting(n) ==
            IF b.state = "frozen" THEN n
            ELSE IF leads
            THEN [n EXCEPT ![p] = [q \in Peers |->
                     IF q \in Others(p) /\ Len(@[q]) < Cap THEN Append(@[q], Descriptor(p, b))
                     ELSE @[q]]]
            ELSE [n EXCEPT ![p] = [q \in Peers |->
                     IF q = Recovery(p) /\ q \in Others(p) /\ Len(@[q]) < Cap
                     THEN Append(@[q], [kind |-> "sync", host |-> Host(p), base |-> b.seq])
                     ELSE @[q]]]
    IN  /\ board[p].state # "none" /\ ~board[p].up
        /\ board' = [board EXCEPT ![p] =
               [b EXCEPT !.state = IF @ = "frozen" THEN @
                                   ELSE IF leads THEN "ready" ELSE "synchronizing"]]
        /\ \E n \in {net, Rejoined(Lost(net, p), p)} : net' = greeting(n)
        /\ UNCHANGED <<hosts, heard, history, used>>

\* The program of p ends and is started again.
Crash(p) ==
    /\ used.crashes < MaxCrashes
    /\ FreshHosts \/ \A i \in 1..Len(hosts) : hosts[i] # p
    /\ board[p].state # "none"
    /\ board' = [board EXCEPT ![p] = Closed]
    /\ net' = [a \in Peers |-> [b \in Peers |->
                  IF b = p THEN <<>>
                  ELSE IF a = p /\ b \in Others(p) THEN <<[kind |-> "left"]>>
                  ELSE net[a][b]]]
    /\ used' = [used EXCEPT !.crashes = @ + 1]
    /\ UNCHANGED <<hosts, heard, history>>

\* Runtime::peerLeft
PeerLeft(p, q) ==
    /\ Arrived(p, q, {"left"})
    /\ board' = IF board[q].state # "none" /\ (Follows(p, q) \/ p = board[q].source)
                THEN [board EXCEPT ![q].state = "frozen"] ELSE board
    /\ net' = Taken(p, q)
    /\ UNCHANGED <<hosts, heard, history, used>>

\* Runtime::observePeer of a newer instance of the authority.
ObservePeer(p, q) ==
    LET b == board[q]
        back == b.state = "frozen" /\ p = Recovery(q)
        thawed == [b EXCEPT !.pending = {},
                            !.state = IF b.up THEN "synchronizing" ELSE "readonly"]
    IN  /\ Arrived(p, q, {"joined"})
        /\ board' = IF back THEN [board EXCEPT ![q] = thawed] ELSE board
        /\ net' = IF back THEN SyncSent(Taken(p, q), q, thawed) ELSE Taken(p, q)
        /\ UNCHANGED <<hosts, heard, history, used>>

-----------------------------------------------------------------------------
Receive(p, q) ==
    /\ net[p][q] # <<>>
    /\ \/ ServeSuccessor(p, q) \/ TakeOver(p, q)
       \/ ServeFollower(p, q)  \/ Decide(p, q)
       \/ FollowDescriptor(p, q) \/ FollowCommit(p, q) \/ FollowDelta(p, q)
       \/ FollowSnapshot(p, q) \/ FollowHeartbeat(p, q) \/ FollowReject(p, q)
       \/ Ignore(p, q) \/ PeerLeft(p, q) \/ ObservePeer(p, q)

Tick(p) == Heartbeat(p) \/ Resend(p) \/ SyncTick(p)

Next ==
    \/ \E p \in Peers :
          \/ Start(p) \/ HearHost(p)
          \/ \E kind \in {"add", "undo", "clear"} : Draw(p, kind)
          \/ \E kind \in {"add", "undo"} : Propose(p, kind)
          \/ Lock(p) \/ Tick(p) \/ TimesOut(p)
          \/ TransportDown(p) \/ TransportUp(p) \/ Crash(p)
    \/ \E p, q \in Peers : TransferHost(p, q) \/ Receive(p, q)

\* Threads and channels go on, connections come back, programs that were
\* ended are started again, and news of a host arrives.  The timers run all the
\* time; it is Quiet that stops and starts them here, hence strong fairness.
Fairness ==
    /\ \A p \in Peers : \A q \in Peers \ {p} : WF_vars(Receive(p, q))
    /\ \A p \in Peers :
          /\ WF_vars(Start(p) \/ TransportUp(p)) /\ WF_vars(HearHost(p))
          /\ SF_vars(Tick(p))

Spec == Init /\ [][Next]_vars /\ Fairness

-----------------------------------------------------------------------------
(* Properties *)

\* The reference: the board after the first n numbers, each taken once.
Canon(n) ==
    LET at[i \in 0..n] ==
            IF i = 0 THEN [doc |-> NewDoc, locked |-> FALSE]
            ELSE LET e == history[i]
                     was == at[i - 1]
                 IN  CASE e.kind = "handoff" -> [was EXCEPT !.doc = Barrier(@)]
                       [] e.kind = "lock"    -> [doc |-> Barrier(was.doc), locked |-> e.locked]
                       [] OTHER              -> [was EXCEPT !.doc = Drawn(@, e)]
    IN  at[n]

\* Whoever may edit sees exactly what the first seq numbers of the one log
\* make: no board has skipped, repeated or reordered a commit, or kept
\* something of its own, across snapshots, deltas and changes of the host.
OneLog ==
    \A p \in Peers : board[p].state = "ready" =>
        /\ board[p].seq <= Len(history)
        /\ LET c == Canon(board[p].seq)
           IN  Snapshot(board[p].doc) = Snapshot(c.doc) /\ board[p].locked = c.locked

\* There is one authority: a number is only given by somebody who has all
\* the numbers before it.
OneAuthority ==
    [][history' # history =>
        \E p \in Peers : /\ board[p].seq = Len(history)
                         /\ board'[p].seq = Len(history')]_vars

\* "Neither old commits nor gestures submitted with old permissions may be
\* replayed": between what its author saw and its own number no lock, no clear
\* and no other host has come.
NoStaleGesture ==
    \A i \in 1..Len(history) : history[i].kind \in {"add", "undo", "clear"} =>
        \A j \in (history[i].seen + 1)..(i - 1) : history[j].kind \in {"add", "undo"}

\* No command is carried out twice, however often it was sent.
DrawnOnce ==
    \A i, j \in 1..Len(history) :
        {history[i].kind, history[j].kind} \subseteq {"add", "undo", "clear"}
        /\ history[i].id = history[j].id => i = j

\* Everybody shows the same board, and nobody waits for an answer.
Synced ==
    \A p \in Peers : /\ board[p].state = "ready" /\ board[p].pending = {}
                     /\ board[p].seq = Len(history)
Present == \A p \in Peers : board[p].state # "none" /\ board[p].up
NoUndo == \A i \in 1..Len(history) : history[i].kind # "undo"

\* While everybody is connected and no change of the host was missed, the boards
\* become one again, as long as nobody has undone anything.
BoardsConverge == []<>(Synced \/ ~Present \/ used.misses > 0 \/ ~NoUndo)

\* The same, whatever the users did.  A board that was restored from a snapshot has
\* no undo list, takes no undo from the log, and asks for it over and over.
BoardsAlwaysConverge == []<>(Synced \/ ~Present \/ used.misses > 0)

=============================================================================
