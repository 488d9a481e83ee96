--------------------------- MODULE Subscriptions ---------------------------
(***************************************************************************)
(* Which remote tracks a room receives (src/core/room.cpp), and the        *)
(* session strand of the meeting that decides it (meeting_session_runtime.h, *)
(* publication_catalog.cpp, video_demand_policy.cpp).                      *)
(*                                                                         *)
(* The strand turns the view and its catalog of publications into plans.   *)
(* A plan changes intents; an intent that the server has not been told of  *)
(* is dirty and has a pending update; a drain tells pending updates one by *)
(* one.  A lost connection pauses all that: a resume tells everything in   *)
(* one SyncState, a full restart keeps the intents for the next join, and  *)
(* both ask the strand for a plan first and go on without one.             *)
(*                                                                         *)
(* The I/O thread runs one handler or coroutine up to its next suspension; *)
(* a drain never suspends, since writing only queues.  The strand is       *)
(* another thread: it runs between the lock sections of a drain.  Who may  *)
(* reconnect and when the application leaves is RoomSession's subject, the *)
(* socket and its queues are SignalClient's; here they are reduced to what *)
(* can happen to a subscription.                                           *)
(***************************************************************************)
EXTENDS Naturals, Sequences, FiniteSets, SequencesExt

CONSTANTS
    Video, Audio,   \* the remote tracks
    AtFirst,        \* those published when the room is joined
    Wanted,         \* the videos that the first view shows
    AutoSubscribe,  \* RoomOptions::auto_subscribe
    MediaFlows,     \* a subscribed video has its media when a plan is late
    MaxEvents,      \* changes of the view and of what is published, lost
                    \* connections, restarts that the server asks for or that
                    \* find another room (bound on all together)
    MaxTries        \* full restarts (bound)

Tracks == Video \cup Audio

ASSUME SubscriptionsAssumption ==
    /\ Video \cap Audio = {} /\ AtFirst \subseteq Tracks /\ Wanted \subseteq Video
    /\ {AutoSubscribe, MediaFlows} \subseteq BOOLEAN
    /\ {MaxEvents, MaxTries} \subseteq Nat

VARIABLES
    room,     \* [conn, gen, inst, pubs]: state, generations, known tracks
    sub,      \* the subscription session: intents, pending updates, sender
    demand,   \* the plan in force, and whether a recovery waits for one
    drains,   \* drains that have been posted and not begun
    run,      \* the drain that is running
    ep,       \* where the reconnecting coroutine is
    snap,     \* what its SyncState says
    link,     \* the connection of the room's signal client
    served,   \* the server's tracks, subscriptions and settings, once it has
              \* read all that was written to it
    behind,   \* what these may still be: it may have read any part so far
    queue,    \* what has been posted to the session strand
    strand,   \* [gen, known, policy, want, parked]: the strand's own state
    spent     \* what is used of the bounds; late: a plan came too late

vars == <<room, sub, demand, drains, run, ep, snap, link, served, behind,
          queue, strand, spent>>

NoRun == [d |-> <<>>, pc |-> "none", t |-> <<>>, u |-> <<>>]
NoSnap == [session |-> 0, revs |-> <<>>, sub |-> <<>>]
NoAsk == [kind |-> "ask", gen |-> 0, epoch |-> 0]
NoStrand(w) == [gen |-> 0, known |-> {}, policy |-> 1, want |-> w, parked |-> NoAsk]
NoDemand == [active |-> FALSE, gen |-> 0, policy |-> 0, epoch |-> 0, waiting |-> FALSE]
Unheard(pubs) == [pubs |-> pubs, sub |-> [t \in Tracks |-> AutoSubscribe],
                  en |-> [t \in Tracks |-> TRUE]]

-----------------------------------------------------------------------------
(* Intents and pending updates: s is the subscription session *)

\* A new intent is what the server does by itself.  Revisions are compared
\* for one track only, so that the tracks of one step may share one.
Ensured(s, ts) ==
    LET new == ts \ DOMAIN s.intents
        i == [sub |-> AutoSubscribe, en |-> TRUE, rev |-> s.next,
              sent |-> AutoSubscribe, sd |-> FALSE, td |-> FALSE]
    IN  [s EXCEPT !.intents = [t \in DOMAIN @ \cup new |-> IF t \in new THEN i ELSE @[t]],
                  !.next = IF new = {} THEN @ ELSE @ + 1]

\* PruneSubscriptionIntentsLocked and the erasures of UpdateParticipants
Pruned(s, ts) ==
    [s EXCEPT !.intents = Restrict(@, DOMAIN @ \cap ts),
              !.pending = Restrict(@, DOMAIN @ \cap ts)]

\* QueueSubscriptionUpdateLocked for each dirty intent of ts
Entry(s, t) ==
    LET i == s.intents[t]
    IN  IF t \in DOMAIN s.pending /\ s.pending[t].rev = i.rev
        THEN [s.pending[t] EXCEPT !.sd = @ \/ i.sd, !.td = @ \/ i.td]
        ELSE [sub |-> i.sub, en |-> i.en, rev |-> i.rev, sd |-> i.sd, td |-> i.td]
Queued(s, ts) ==
    LET dirty == {t \in ts \cap DOMAIN s.intents : s.intents[t].sd \/ s.intents[t].td}
    IN  [s EXCEPT !.pending = [t \in DOMAIN @ \cup dirty |->
                                  IF t \in dirty THEN Entry(s, t) ELSE @[t]]]

\* What a plan (or the lack of one) makes of the intents of ts
Revised(s, ts, on, dirty) ==
    LET told(t) == [s.intents[t] EXCEPT
                        !.sub = t \in on,
                        !.en = IF t \in Video THEN t \in on ELSE @,
                        !.rev = s.next,
                        !.sd = t \in dirty,
                        !.td = t \in Video /\ (@ \/ s.intents[t].en # (t \in on))]
        new == [t \in DOMAIN s.intents |-> IF t \in ts THEN told(t) ELSE s.intents[t]]
    IN  Queued([s EXCEPT !.intents = new, !.next = IF ts = {} THEN @ ELSE @ + 1], ts)

\* Mutant: what the server will have forgotten is not told again
PausesOnly(s, pubs) == [s EXCEPT !.barrier = TRUE, !.active = FALSE, !.op = @ + 1]

PauseSending(s, pubs) ==
    LET marked == [t \in DOMAIN s.intents |->
                     [s.intents[t] EXCEPT !.sd = TRUE, !.td = @ \/ t \in Video \cap pubs]]
    IN  Queued([s EXCEPT !.barrier = TRUE, !.active = FALSE, !.op = @ + 1,
                         !.intents = marked], DOMAIN marked)

\* Mutant: revisions are not compared
FinishesAll(s, told) ==
    [s EXCEPT !.intents = [t \in DOMAIN @ |-> [@[t] EXCEPT !.sd = FALSE]],
              !.pending = [t \in {u \in DOMAIN @ : @[u].td} |-> [@[t] EXCEPT !.sd = FALSE]],
              !.barrier = FALSE]

\* FinishSubscriptionRecoveryLocked: what the SyncState said is told, unless
\* it has been revised since.
FinishRecovery(s, told) ==
    LET same == {t \in DOMAIN told.revs \cap DOMAIN s.intents \cap DOMAIN s.pending :
                   s.intents[t].rev = told.revs[t] /\ s.pending[t].rev = told.revs[t]}
        was == {t \in same : s.pending[t].sd}
        left == {t \in DOMAIN s.pending : t \notin same \/ s.pending[t].td}
    IN  IF told.session # s.session THEN s
        ELSE [s EXCEPT
                !.intents = [t \in DOMAIN @ |-> IF t \in was
                               THEN [@[t] EXCEPT !.sd = FALSE, !.sent = s.intents[t].sub] ELSE @[t]],
                !.pending = [t \in left |-> IF t \in same
                               THEN [@[t] EXCEPT !.sd = FALSE] ELSE @[t]],
                !.barrier = FALSE]

ResetSession(s) ==
    [s EXCEPT !.session = @ + 1, !.next = 1, !.barrier = FALSE, !.active = FALSE,
              !.op = @ + 1, !.intents = <<>>, !.pending = <<>>]

\* ScheduleSubscriptionDrainLocked, with which a lock section ends
Schedule(s) ==
    LET go == /\ ~s.active /\ DOMAIN s.pending # {} /\ ~s.barrier
              /\ room'.conn = "Connected" /\ room'.inst # 0
        d == [session |-> s.session, op |-> s.op + 1, client |-> room'.inst]
    IN  /\ sub' = IF go THEN [s EXCEPT !.active = TRUE, !.op = @ + 1] ELSE s
        /\ drains' = IF go THEN drains \cup {d} ELSE drains

\* The server reads messages in order: v is what it has before m.
Took(v, m) ==
    CASE m.kind = "sync" -> [v EXCEPT !.sub = m.sub]
      [] m.kind = "subscription" -> [v EXCEPT !.sub[m.t] = m.on]
      [] m.kind = "settings" -> [v EXCEPT !.en[m.t] = m.on]
\* SendAsync on a connected stream only queues; what is written may be lost
\* with the connection, from any message on.
Write(m) == /\ served' = Took(served, m)
            /\ behind' = behind \cup {[sub |-> served.sub, en |-> served.en]}

-----------------------------------------------------------------------------
(* DrainSubscriptionUpdates *)

Io == run.pc = "none"

Owner(d) ==
    /\ d.session = sub.session /\ sub.active /\ d.op = sub.op
    /\ room.inst = d.client
Owns(d) == Owner(d) /\ ~sub.barrier

\* First what ends, settings before the subscription they are for.
Phase(t) ==
    LET p == sub.pending[t]
        retained == t \in DOMAIN sub.intents /\ sub.intents[t].sent
    IN  CASE ~p.sub /\ p.td -> 0
          [] ~p.sub /\ ~p.td /\ p.sd -> 1
          [] p.sub /\ p.td -> IF retained THEN 2 ELSE 3
          [] p.sub /\ ~p.td /\ p.sd -> 4
          [] OTHER -> 5

\* One lock section of the owner: the drain ends, or takes an update to tell.
Take(d) ==
    /\ UNCHANGED <<room, demand, ep, snap, link, served, behind, queue, strand, spent>>
    /\ \/ /\ room.conn # "Connected" \/ \A t \in DOMAIN sub.pending : Phase(t) = 5
          /\ sub' = [sub EXCEPT !.active = FALSE] /\ run' = NoRun
       \/ /\ room.conn = "Connected"
          /\ \E t \in DOMAIN sub.pending :
               /\ Phase(t) # 5
               /\ \A o \in DOMAIN sub.pending : Phase(t) <= Phase(o)
               /\ IF t \in DOMAIN sub.intents /\ sub.intents[t].rev = sub.pending[t].rev
                  THEN /\ run' = [d |-> d, pc |-> "tell", t |-> t, u |-> sub.pending[t]]
                       /\ UNCHANGED sub
                  ELSE /\ sub' = [sub EXCEPT !.pending = Restrict(@, DOMAIN @ \ {t})]
                       /\ run' = [NoRun EXCEPT !.d = d, !.pc = "pick"]

\* Once it runs, only Disconnect on a thread of its own could depose it.
Start(d) ==
    /\ Io /\ drains' = drains \ {d}
    /\ IF Owns(d) THEN Take(d)
       ELSE UNCHANGED <<room, sub, demand, run, ep, snap, link, served, behind, queue, strand, spent>>
Pick == run.pc = "pick" /\ Take(run.d) /\ UNCHANGED drains

\* Mutant: the subscription before its settings
SubscriptionFirst == [kind |-> IF run.u.sd THEN "subscription" ELSE "settings", t |-> run.t,
                      on |-> IF run.u.sd THEN run.u.sub ELSE run.u.en]

Message == [kind |-> IF run.u.td THEN "settings" ELSE "subscription", t |-> run.t,
            on |-> IF run.u.td THEN run.u.en ELSE run.u.sub]

\* The update could not be written: it is queued again for the next drain.
NotTold ==
    LET t == run.t
        newer == t \in DOMAIN sub.pending /\ sub.pending[t].rev # run.u.rev
        dropped == [sub EXCEPT !.pending = Restrict(@, DOMAIN @ \ {t})]
    IN  IF ~Owner(run.d) THEN sub
        ELSE [(IF newer THEN sub ELSE Queued(dropped, {t})) EXCEPT !.active = FALSE]

Tell ==
    /\ run.pc = "tell"
    /\ IF link = "up"
       THEN Write(Message) /\ run' = [run EXCEPT !.pc = "told"] /\ UNCHANGED sub
       ELSE sub' = NotTold /\ run' = NoRun /\ UNCHANGED <<served, behind>>
    /\ UNCHANGED <<room, demand, drains, ep, snap, link, queue, strand, spent>>

Told ==
    /\ run.pc = "told"
    /\ LET t == run.t
           p == IF run.u.td THEN [sub.pending[t] EXCEPT !.td = FALSE]
                ELSE [sub.pending[t] EXCEPT !.sd = FALSE]
           i == IF run.u.td THEN [sub.intents[t] EXCEPT !.td = FALSE]
                ELSE [sub.intents[t] EXCEPT !.sd = FALSE, !.sent = run.u.sub]
           mine == t \in DOMAIN sub.intents /\ sub.intents[t].rev = run.u.rev
       IN  sub' = IF t \notin DOMAIN sub.pending \/ sub.pending[t].rev # run.u.rev THEN sub
                  ELSE [sub EXCEPT
                          !.intents = IF mine THEN [@ EXCEPT ![t] = i] ELSE @,
                          !.pending = IF p.sd \/ p.td THEN [@ EXCEPT ![t] = p]
                                      ELSE Restrict(@, DOMAIN @ \ {t})]
    /\ run' = [run EXCEPT !.pc = "pick"]
    /\ UNCHANGED <<room, demand, drains, ep, snap, link, served, behind, queue, strand, spent>>

-----------------------------------------------------------------------------
(* The session strand: it takes one post at a time *)

Roster(gen, pubs) == <<[kind |-> "local", gen |-> gen],
                       [kind |-> "remote", gen |-> gen, known |-> pubs]>>
Post == Head(queue)
Strand == /\ queue # <<>>
          /\ UNCHANGED <<room, run, ep, snap, link, served, behind, spent>>
Selected == (strand.want \cup Audio) \cap strand.known

\* ApplyRemoteMediaPlan
NewGeneration == demand.gen # 0 /\ strand.gen # demand.gen
Changed == {t \in strand.known :
              \/ sub.intents[t].sub # (t \in Selected)
              \/ t \in Video /\ sub.intents[t].en # (t \in Selected)}
Repeated == demand.active /\ ~NewGeneration /\ strand.policy = demand.policy
\* Mutant: a plan must name the last recovery even when that is over
AcceptsLastEpoch(epoch) ==
    /\ strand.gen = room.gen /\ strand.gen = room.inst
    /\ epoch = demand.epoch
    /\ strand.known \subseteq room.pubs
    /\ ~(Repeated /\ Changed # {})

Accepts(epoch) ==
    /\ strand.gen = room.gen /\ strand.gen = room.inst
    /\ epoch = IF demand.waiting THEN demand.epoch ELSE 0
    /\ strand.known \subseteq room.pubs
    /\ ~(Repeated /\ Changed # {})
PlanDirty ==
    {t \in DOMAIN sub.intents :
        LET i == sub.intents[t]
        IN  i.sd \/ {i.sub, i.sent} # {t \in Selected}}

Apply(epoch) ==
    IF Accepts(epoch)
    THEN /\ demand' = [demand EXCEPT !.active = TRUE, !.gen = strand.gen,
                                     !.policy = strand.policy, !.waiting = FALSE]
         /\ Schedule(Revised(sub, Changed, Selected, PlanDirty))
    ELSE UNCHANGED <<demand, sub, drains>>

\* The catalog or the view has changed: a plan with a new revision, and the
\* one a recovery has been waiting for, if the catalog has come so far.
Reconciled(s) ==
    LET due == s.parked.gen # 0 /\ s.parked.gen <= s.gen
        asked == IF due /\ s.parked.gen = s.gen THEN <<s.parked>> ELSE <<>>
    IN  /\ strand' = [s EXCEPT !.policy = @ + 1, !.parked = IF due THEN NoAsk ELSE @]
        /\ queue' = asked \o <<[kind |-> "plan"]>> \o Tail(queue)
Ignored == queue' = Tail(queue) /\ UNCHANGED strand

OnLocal ==
    /\ Strand /\ Post.kind = "local"
    /\ IF Post.gen = room.inst /\ Post.gen > strand.gen
       THEN Reconciled([strand EXCEPT !.gen = Post.gen, !.known = {}])
       ELSE Ignored
    /\ UNCHANGED <<sub, demand, drains>>

OnRemote ==
    /\ Strand /\ Post.kind = "remote"
    /\ LET known == Post.known \cap room.pubs
       IN  IF /\ Post.gen = room.inst /\ Post.gen >= strand.gen
              /\ Post.gen > strand.gen \/ known # strand.known
           THEN Reconciled([strand EXCEPT !.gen = Post.gen, !.known = known])
           ELSE Ignored
    /\ UNCHANGED <<sub, demand, drains>>

OnMediaGone ==
    /\ Strand /\ Post.kind = "media"
    /\ IF Post.gen = strand.gen /\ Post.t \in strand.known
       THEN Reconciled(strand)
       ELSE Ignored
    /\ UNCHANGED <<sub, demand, drains>>

OnView ==
    /\ Strand /\ Post.kind = "view"
    /\ strand' = [strand EXCEPT !.want = Post.want,
                                !.policy = IF strand.want = Post.want THEN @ ELSE @ + 1]
    /\ queue' = <<[kind |-> "plan"]>> \o Tail(queue)
    /\ UNCHANGED <<sub, demand, drains>>

OnPlan ==
    /\ Strand /\ Post.kind = "plan"
    /\ Ignored
    /\ Apply(0)

OnAsk ==
    /\ Strand /\ Post.kind = "ask"
    /\ queue' = Tail(queue)
    /\ strand' = IF strand.gen < Post.gen /\ strand.parked.epoch < Post.epoch
                 THEN [strand EXCEPT !.parked = Post] ELSE strand
    /\ IF strand.gen = Post.gen THEN Apply(Post.epoch)
       ELSE UNCHANGED <<sub, demand, drains>>

ViewChanges ==
    /\ spent.events < MaxEvents /\ ep # "gone"
    /\ \E w \in SUBSET Video \ {strand.want} : queue' = Append(queue, [kind |-> "view", want |-> w])
    /\ spent' = [spent EXCEPT !.events = @ + 1]
    /\ UNCHANGED <<room, sub, demand, drains, run, ep, snap, link, served, behind, strand>>

-----------------------------------------------------------------------------
(* The connection and the server *)

Lose ==
    /\ link = "up" /\ spent.events < MaxEvents
    /\ link' = "closed"
    /\ \/ UNCHANGED served
       \/ \E v \in behind : served' = [served EXCEPT !.sub = v.sub, !.en = v.en]
    /\ behind' = {}
    /\ spent' = [spent EXCEPT !.events = @ + 1]
    /\ UNCHANGED <<room, sub, demand, drains, run, ep, snap, queue, strand>>

\* Other participants publish and unpublish; a track comes once.
Publish ==
    /\ spent.events < MaxEvents
    /\ spent' = [spent EXCEPT !.events = @ + 1]
    /\ \/ \E t \in Tracks \ (served.pubs \cup AtFirst) :
            served' = [served EXCEPT !.pubs = @ \cup {t}]
       \/ \E t \in served.pubs \cap AtFirst : served' = [served EXCEPT !.pubs = @ \ {t}]
    /\ UNCHANGED <<room, sub, demand, drains, run, ep, snap, link, behind, queue, strand>>

UpdateParticipants ==
    /\ Io /\ link = "up" /\ room.pubs # served.pubs
    /\ room.conn = "Connected" \/ (room.conn = "Reconnecting" /\ ep = "ice")
    /\ room' = [room EXCEPT !.pubs = served.pubs]
    /\ sub' = Pruned(Ensured(sub, served.pubs), served.pubs)
    /\ queue' = queue \o <<[kind |-> "remote", gen |-> room.gen, known |-> served.pubs]>>
    /\ UNCHANGED <<demand, drains, run, ep, snap, link, served, behind, strand, spent>>

-----------------------------------------------------------------------------
(* Reconnecting *)

\* BeginRemoteMediaRecoveryLocked; the handler's post to the strand may
\* overtake participant events that have not been delivered yet.
AskForPlan(gen) ==
    LET ask == [kind |-> "ask", gen |-> gen, epoch |-> demand.epoch + 1]
        busy == queue # <<>> /\ Post.kind = "plan"
    IN  IF demand.active
        THEN /\ demand' = [demand EXCEPT !.waiting = TRUE, !.epoch = @ + 1]
             /\ \E i \in (IF busy THEN 2 ELSE 1)..(Len(queue) + 1) :
                  queue' = InsertAt(queue, i, ask)
        ELSE UNCHANGED <<demand, queue>>

\* HandleSignalEvent(Close)
HandleClose ==
    /\ Io /\ link = "closed" /\ link' = "dead"
    /\ CASE room.conn = "Connected" ->
              /\ room' = [room EXCEPT !.conn = "Reconnecting"]
              /\ sub' = PauseSending(sub, room.pubs)
              /\ AskForPlan(room.inst)
              /\ ep' = IF ep = "none" THEN "resume" ELSE ep
         [] room.conn = "Connecting" ->
              /\ room' = [room EXCEPT !.conn = "Disconnected", !.gen = @ + 1]
              /\ UNCHANGED <<sub, demand, queue, ep>>
         [] OTHER -> UNCHANGED <<room, sub, demand, queue, ep>>
    /\ UNCHANGED <<drains, run, snap, served, behind, strand, spent>>

\* LeaveRequest with action RECONNECT, and the Close that it makes
ServerAsksRestart ==
    /\ Io /\ link = "up" /\ ep = "none" /\ room.conn = "Connected"
    /\ spent.events < MaxEvents
    /\ spent' = [spent EXCEPT !.events = @ + 1]
    /\ room' = [room EXCEPT !.conn = "Reconnecting"]
    /\ sub' = PauseSending(sub, room.pubs)
    /\ AskForPlan(room.inst)
    /\ ep' = "teardown"
    /\ UNCHANGED <<drains, run, snap, link, served, behind, strand>>

Resume ==
    /\ Io /\ ep = "resume"
    /\ \/ ep' = "wait" /\ link' = "up"
       \/ ep' = "teardown" /\ UNCHANGED link
    /\ UNCHANGED <<room, sub, demand, drains, run, snap, served, behind, queue, strand, spent>>

\* WaitForRemoteMediaRecoveryHandshake: no more than 250 ms, then no video
HoldDirty == {t \in DOMAIN sub.intents : sub.intents[t].sd \/ sub.intents[t].sent}
AwaitPlan ==
    LET held == {t \in Video \cap room.pubs : sub.intents[t].sub \/ sub.intents[t].en}
        seen == {t \in held : sub.intents[t].sub}
        gone(t) == [kind |-> "media", gen |-> room.gen, t |-> t]
    IN  /\ Io /\ ep \in {"wait", "tailwait"}
        /\ ep' = IF ep = "wait" THEN "sync" ELSE "finish"
        /\ IF ~demand.waiting
           THEN UNCHANGED <<sub, demand, queue, spent>>
           ELSE /\ spent' = [spent EXCEPT !.late = TRUE]
                /\ sub' = Revised(sub, held, {}, HoldDirty)
                /\ demand' = [demand EXCEPT !.waiting = FALSE]
                /\ \E bound \in IF MediaFlows THEN {seen} ELSE SUBSET seen :
                     queue' = queue \o SetToSeq({gone(t) : t \in bound})
        /\ UNCHANGED <<room, drains, run, snap, link, served, behind, strand>>

\* BuildSyncState: the tracks that are not as AutoSubscribe would have them
BuildSync ==
    /\ Io /\ ep = "sync" /\ ep' = "send"
    /\ snap' = [session |-> sub.session,
                revs |-> [t \in DOMAIN sub.intents |-> sub.intents[t].rev],
                sub |-> [t \in Tracks |-> IF t \in DOMAIN sub.intents \cap room.pubs
                                          THEN sub.intents[t].sub ELSE AutoSubscribe]]
    /\ UNCHANGED <<room, sub, demand, drains, run, link, served, behind, queue, strand, spent>>

SendSync ==
    /\ Io /\ ep = "send"
    /\ IF link = "up" /\ snap.session = sub.session
       THEN ep' = "ice" /\ Write([kind |-> "sync", sub |-> snap.sub]) /\ UNCHANGED snap
       ELSE ep' = "teardown" /\ snap' = NoSnap /\ UNCHANGED <<served, behind>>
    /\ UNCHANGED <<room, sub, demand, drains, run, link, queue, strand, spent>>

OnIceConnected ==
    LET on == {t \in Video \cap room.pubs : sub.intents[t].sub}
        marked == [t \in DOMAIN sub.intents |->
                     [sub.intents[t] EXCEPT !.td = @ \/ (t \in on /\ demand.active)]]
    IN  /\ Io /\ ep \in {"ice", "joined"} /\ room.gen = room.inst
        /\ sub' = Queued([sub EXCEPT !.intents = marked], on)
        /\ UNCHANGED <<room, demand, drains, run, ep, snap, link, served, behind, queue, strand, spent>>

ResumeCommit ==
    /\ Io /\ ep = "ice" /\ room.conn = "Reconnecting"
    /\ room' = [room EXCEPT !.conn = "Connected"]
    /\ Schedule(FinishRecovery(sub, snap))
    /\ queue' = queue \o Roster(room.gen, room.pubs)
    /\ ep' = "none" /\ snap' = NoSnap
    /\ UNCHANGED <<demand, run, link, served, behind, strand, spent>>

ResumeFails ==
    /\ Io /\ ep = "ice" /\ ep' = "teardown" /\ snap' = NoSnap
    /\ UNCHANGED <<room, sub, demand, drains, run, link, served, behind, queue, strand, spent>>

\* The connection and what was on its way are given up; intents are kept.
Unjoined == /\ room' = [conn |-> "Disconnected", gen |-> room.gen + 1, inst |-> 0, pubs |-> {}]
            /\ link' = "none" /\ behind' = {}

Teardown ==
    /\ Io /\ ep = "teardown" /\ spent.tries < MaxTries
    /\ Unjoined /\ ep' = "joining"
    /\ spent' = [spent EXCEPT !.tries = @ + 1]
    /\ UNCHANGED <<sub, demand, drains, run, snap, served, queue, strand>>

Join ==
    LET pubs == served.pubs
        known(s) == Pruned(Ensured(s, pubs), pubs)
    IN  /\ Io /\ ep = "joining" /\ ep' = "joined"
        /\ room' = [conn |-> "Connecting", gen |-> room.gen + 1,
                    inst |-> room.gen + 1, pubs |-> pubs]
        /\ link' = "up" /\ served' = Unheard(pubs) /\ behind' = {}
        /\ \/ sub' = known(sub) /\ UNCHANGED <<demand, spent>>
           \/ /\ spent.events < MaxEvents
              /\ spent' = [spent EXCEPT !.events = @ + 1]
              /\ sub' = known([ResetSession(sub) EXCEPT !.barrier = TRUE])
              /\ demand' = NoDemand
        /\ UNCHANGED <<drains, run, snap, queue, strand>>

JoinFails ==
    /\ Io /\ ep \in {"joining", "joined"}
    /\ Unjoined /\ ep' = "teardown"
    /\ UNCHANGED <<sub, demand, drains, run, snap, served, queue, strand, spent>>

ConnectCommit ==
    /\ Io /\ ep = "joined" /\ room.conn = "Connecting"
    /\ room' = [room EXCEPT !.conn = "Connected"]
    /\ Schedule(sub)
    /\ queue' = queue \o Roster(room.gen, room.pubs)
    /\ ep' = "begin"
    /\ UNCHANGED <<demand, run, snap, link, served, behind, strand, spent>>

BeginTail ==
    /\ Io /\ ep = "begin"
    /\ IF room.conn = "Connected"
       THEN /\ AskForPlan(room.inst)
            /\ ep' = IF demand.active THEN "tailwait" ELSE "finish"
       ELSE ep' = "teardown" /\ UNCHANGED <<demand, queue>>
    /\ UNCHANGED <<room, sub, drains, run, snap, link, served, behind, strand, spent>>

\* After republishing: the end of the restart, unless the connection has been
\* lost again, which leaves nobody to reconnect (see RoomSession, Orphaned).
FinishRestart ==
    /\ Io /\ ep = "finish" /\ UNCHANGED room
    /\ IF room.conn = "Connected"
       THEN ep' = "none" /\ Schedule([sub EXCEPT !.barrier = FALSE])
       ELSE ep' = "orphaned" /\ UNCHANGED <<sub, drains>>
    /\ UNCHANGED <<demand, run, snap, link, served, behind, queue, strand, spent>>

RestartFails ==
    /\ Io /\ ep = "finish" /\ ep' = "teardown"
    /\ UNCHANGED <<room, sub, demand, drains, run, snap, link, served, behind, queue, strand, spent>>

\* The tries are used up: the room is closed, and the meeting stops its strand.
Exhaust ==
    /\ Io /\ ep = "teardown" /\ spent.tries = MaxTries
    /\ Unjoined /\ ep' = "gone"
    /\ sub' = ResetSession(sub) /\ demand' = NoDemand
    /\ queue' = <<>> /\ strand' = NoStrand({})
    /\ UNCHANGED <<drains, run, snap, served, spent>>

-----------------------------------------------------------------------------
(* The specification: right after the first join *)

Init ==
    /\ room = [conn |-> "Connected", gen |-> 1, inst |-> 1, pubs |-> AtFirst]
    /\ sub = Ensured([session |-> 1, barrier |-> FALSE, active |-> FALSE, op |-> 0,
                      next |-> 1, intents |-> <<>>, pending |-> <<>>], AtFirst)
    /\ demand = NoDemand
    /\ drains = {} /\ run = NoRun
    /\ ep = "none" /\ snap = NoSnap
    /\ link = "up" /\ served = Unheard(AtFirst) /\ behind = {}
    /\ queue = Roster(1, AtFirst)
    /\ strand = NoStrand(Wanted)
    /\ spent = [events |-> 0, tries |-> 0, late |-> FALSE]

StrandStep == OnLocal \/ OnRemote \/ OnMediaGone \/ OnView \/ OnPlan \/ OnAsk
DrainStep == (\E d \in drains : Start(d)) \/ Pick \/ Tell \/ Told
EpisodeStep ==
    \/ Resume \/ AwaitPlan \/ BuildSync \/ SendSync \/ ResumeCommit \/ ResumeFails
    \/ Teardown \/ Join \/ JoinFails \/ ConnectCommit \/ BeginTail
    \/ FinishRestart \/ RestartFails \/ Exhaust

Next ==
    \/ StrandStep \/ DrainStep \/ EpisodeStep \/ HandleClose
    \/ ViewChanges \/ Lose \/ Publish \/ UpdateParticipants
    \/ ServerAsksRestart \/ OnIceConnected

Spec == Init /\ [][Next]_vars

\* The I/O thread and the strand run what is ready; no
\* fairness for views, losses, leaving, or the answer of the network being good.
FairSpec ==
    /\ Spec
    /\ WF_vars(StrandStep) /\ WF_vars(DrainStep) /\ WF_vars(EpisodeStep)
    /\ WF_vars(HandleClose) /\ WF_vars(UpdateParticipants)

-----------------------------------------------------------------------------
(* Properties *)

\* What the room believes it has told is what the server will have heard:
\* while connected, with sending allowed, an intent that is not dirty is the
\* server's state once it has read all that is on its way.
CleanMeansTold ==
    room.conn = "Connected" /\ ~sub.barrier /\ link = "up" =>
        \A t \in room.pubs \cap served.pubs :
            /\ ~sub.intents[t].sd => served.sub[t] = sub.intents[t].sub
            /\ t \in Video /\ ~sub.intents[t].td => served.en[t] = sub.intents[t].en

\* A drain that turns a video on has told its settings first, on this very
\* connection: the server never starts one with those of an older wish.
SettingsFirst ==
    [][(/\ run.pc = "tell" /\ run'.pc = "told"
        /\ Message.kind = "subscription" /\ Message.on /\ run.t \in Video)
           => served.en[run.t] = run.u.en]_vars

Quiet == room.conn = "Connected" /\ ep = "none" /\ link = "up"

\* Once the room stays connected, the server ends up with every intent,
\* whatever was lost, resumed, restarted or revised while it was being told.
IntentsReachServer ==
    []<>(Quiet => \A t \in room.pubs \cap served.pubs :
                     /\ served.sub[t] = sub.intents[t].sub
                     /\ t \in Video => served.en[t] = sub.intents[t].en)

\* And these are what the view asks for and all the audio, if no plan came
\* too late for a recovery.
DemandRestored ==
    []<>(Quiet /\ ~spent.late =>
            \A t \in served.pubs :
                /\ served.sub[t] = (t \in strand.want \cup Audio)
                /\ t \in Video => served.en[t] = (t \in strand.want))
=============================================================================
