------------------------ MODULE SubscriptionsProofs ------------------------
(***************************************************************************)
(* An intent that is clean is what the server has, whatever the tracks,    *)
(* the views and the bounds on losses and restarts.  What makes it         *)
(* inductive is what each way to become clean relies on:                   *)
(*   - a revision leaves clean only what it does not change (Carries);     *)
(*   - while the sender is paused a clean intent is what a server does by  *)
(*     itself (PausedInv), which the server of a new join does;            *)
(*   - a SyncState that was built says what an intent says as long as it   *)
(*     has the revision that it had then (Matches);                        *)
(*   - an update that a drain has taken says what the intent says as long  *)
(*     as their revisions agree (Tells), and settings go first.            *)
(***************************************************************************)
EXTENDS Subscriptions, TLAPS

-----------------------------------------------------------------------------
(* Types, and what every session satisfies between steps *)

Intents == [sub: BOOLEAN, en: BOOLEAN, rev: Nat, sent: BOOLEAN, sd: BOOLEAN, td: BOOLEAN]
Updates == [sub: BOOLEAN, en: BOOLEAN, rev: Nat, sd: BOOLEAN, td: BOOLEAN]
IntentMaps == UNION {[ts -> Intents] : ts \in SUBSET Tracks}
UpdateMaps == UNION {[ts -> Updates] : ts \in SUBSET Tracks}
Sessions == [session: Nat, barrier: BOOLEAN, active: BOOLEAN, op: Nat, next: Nat,
             intents: IntentMaps, pending: UpdateMaps]

\* An intent has a revision of the past, and is dirty unless it was told.
IntentSound(i, t, n) ==
  /\ i.rev < n
  /\ ~i.sd => i.sub = i.sent
  /\ i.td => t \in Video
\* A pending update of the intent's revision says what the intent says.
Agree(p, i) == p.sub = i.sub /\ p.en = i.en /\ p.sd = i.sd /\ p.td = i.td
UpdateSound(p, i, n) == p.rev < n /\ (p.rev = i.rev => Agree(p, i))
Current(s) ==
  /\ DOMAIN s.pending \subseteq DOMAIN s.intents
  /\ \A t \in DOMAIN s.intents : IntentSound(s.intents[t], t, s.next)
  /\ \A t \in DOMAIN s.pending : UpdateSound(s.pending[t], s.intents[t], s.next)

\* The same before the updates of ts are queued
Nearly(p, i) == p.sub = i.sub /\ p.en = i.en /\ (p.sd => i.sd) /\ (p.td => i.td)
AlmostCurrent(s, ts) ==
  /\ DOMAIN s.pending \subseteq DOMAIN s.intents
  /\ \A t \in DOMAIN s.intents : IntentSound(s.intents[t], t, s.next)
  /\ \A t \in DOMAIN s.pending \ ts : UpdateSound(s.pending[t], s.intents[t], s.next)
  /\ \A t \in DOMAIN s.pending \cap ts :
        /\ s.pending[t].rev < s.next
        /\ s.pending[t].rev = s.intents[t].rev => Nearly(s.pending[t], s.intents[t])

\* What a revision may do to an intent: what it leaves clean it has not changed.
Carries(i, j, t, n) ==
  /\ i.sd => j.sd
  /\ i.td => j.td
  /\ ~j.sd => j.sub = i.sub
  /\ t \in Video /\ ~j.td => j.en = i.en
  /\ j.rev = i.rev => j.sub = i.sub /\ j.en = i.en
  /\ j.rev = i.rev \/ j.rev >= n
Revises(s, r) ==
  /\ r.session = s.session /\ r.next >= s.next
  /\ DOMAIN r.intents = DOMAIN s.intents
  /\ \A t \in DOMAIN s.intents : Carries(s.intents[t], r.intents[t], t, s.next)

\* AutoSubscribe is a switch.
LEMMA AutoIsBoolean == AutoSubscribe \in BOOLEAN
BY SubscriptionsAssumption

\* A function is a map of intents if its domain and its values are right.
LEMMA MapsOfIntents ==
  ASSUME NEW f
  PROVE  f \in IntentMaps <=> DOMAIN f \subseteq Tracks /\ f \in [DOMAIN f -> Intents]
BY DEF IntentMaps

\* The same for a map of pending updates.
LEMMA MapsOfUpdates ==
  ASSUME NEW f
  PROVE  f \in UpdateMaps <=> DOMAIN f \subseteq Tracks /\ f \in [DOMAIN f -> Updates]
BY DEF UpdateMaps

\* The types of the fields of a subscription session.
LEMMA SessionFields ==
  ASSUME NEW s \in Sessions
  PROVE  /\ s.session \in Nat /\ s.barrier \in BOOLEAN /\ s.active \in BOOLEAN
         /\ s.op \in Nat /\ s.next \in Nat
         /\ DOMAIN s.intents \subseteq Tracks /\ DOMAIN s.pending \subseteq Tracks
         /\ s.intents \in [DOMAIN s.intents -> Intents]
         /\ s.pending \in [DOMAIN s.pending -> Updates]
         /\ \A t \in DOMAIN s.intents : s.intents[t] \in Intents
         /\ \A t \in DOMAIN s.pending : s.pending[t] \in Updates
<1>1. /\ s.session \in Nat /\ s.barrier \in BOOLEAN /\ s.active \in BOOLEAN
      /\ s.op \in Nat /\ s.next \in Nat /\ s.intents \in IntentMaps /\ s.pending \in UpdateMaps
  BY DEF Sessions
<1>2. /\ DOMAIN s.intents \subseteq Tracks /\ DOMAIN s.pending \subseteq Tracks
      /\ s.intents \in [DOMAIN s.intents -> Intents]
      /\ s.pending \in [DOMAIN s.pending -> Updates]
  BY <1>1, MapsOfIntents, MapsOfUpdates
<1>3. QED BY <1>1, <1>2

\* The types of the fields of an intent.
LEMMA IntentFields ==
  ASSUME NEW i \in Intents
  PROVE  /\ i.sub \in BOOLEAN /\ i.en \in BOOLEAN /\ i.sent \in BOOLEAN
         /\ i.sd \in BOOLEAN /\ i.td \in BOOLEAN /\ i.rev \in Nat
BY DEF Intents

\* The types of the fields of a pending update.
LEMMA UpdateFields ==
  ASSUME NEW u \in Updates
  PROVE  /\ u.sub \in BOOLEAN /\ u.en \in BOOLEAN
         /\ u.sd \in BOOLEAN /\ u.td \in BOOLEAN /\ u.rev \in Nat
BY DEF Updates

-----------------------------------------------------------------------------
(* Intents and pending updates *)

\* QueueSubscriptionUpdateLocked: the update queued for a dirty intent says
\* what the intent says, whether it was pending already or not.
LEMMA EntryIsAgreed ==
  ASSUME NEW s \in Sessions, NEW ts, AlmostCurrent(s, ts),
         NEW t \in ts \cap DOMAIN s.intents
  PROVE  Entry(s, t) \in Updates /\ UpdateSound(Entry(s, t), s.intents[t], s.next)
<1> DEFINE i == s.intents[t]
           p == s.pending[t]
<1>1. i \in Intents /\ i.rev < s.next /\ s.next \in Nat
  BY SessionFields DEF AlmostCurrent, IntentSound
<1>2. CASE t \in DOMAIN s.pending /\ p.rev = i.rev
  <2>1. p \in Updates /\ Nearly(p, i)
    BY <1>2, SessionFields DEF AlmostCurrent
  <2>2. Entry(s, t) = [p EXCEPT !.sd = @ \/ i.sd, !.td = @ \/ i.td]
    BY <1>2 DEF Entry
  <2> HIDE DEF i, p
  <2>3. QED BY <1>1, <2>1, <2>2, <1>2 DEF Updates, Intents, UpdateSound, Nearly, Agree, i, p
<1>3. CASE ~(t \in DOMAIN s.pending /\ p.rev = i.rev)
  <2>1. Entry(s, t) = [sub |-> i.sub, en |-> i.en, rev |-> i.rev, sd |-> i.sd, td |-> i.td]
    BY <1>3 DEF Entry
  <2> HIDE DEF i, p
  <2>3. QED BY <1>1, <2>1 DEF Updates, Intents, UpdateSound, Agree, i
<1>4. QED BY <1>2, <1>3

\* Queueing updates makes a session current that was so but for the tracks it
\* queues, and leaves the intents alone.
LEMMA QueuedIs ==
  ASSUME NEW s \in Sessions, NEW ts, AlmostCurrent(s, ts)
  PROVE  LET q == Queued(s, ts)
         IN  /\ q \in Sessions /\ Current(q)
             /\ q.intents = s.intents /\ q.next = s.next
             /\ q.session = s.session /\ q.barrier = s.barrier
<1> DEFINE dirty == {t \in ts \cap DOMAIN s.intents : s.intents[t].sd \/ s.intents[t].td}
           new == [t \in DOMAIN s.pending \cup dirty |->
                      IF t \in dirty THEN Entry(s, t) ELSE s.pending[t]]
           q == [s EXCEPT !.pending = new]
<1>1. Queued(s, ts) = q
  BY DEF Queued
<1>2. \A t \in dirty : new[t] \in Updates /\ UpdateSound(new[t], s.intents[t], s.next)
  <2>1. TAKE t \in dirty
  <2>2. new[t] = Entry(s, t)
    OBVIOUS
  <2>3. QED BY <2>2, EntryIsAgreed
<1>3. \A t \in DOMAIN s.pending \ dirty :
        new[t] \in Updates /\ UpdateSound(new[t], s.intents[t], s.next)
  <2>1. TAKE t \in DOMAIN s.pending \ dirty
  <2>2. new[t] = s.pending[t] /\ s.pending[t] \in Updates /\ t \in DOMAIN s.intents
    BY SessionFields DEF AlmostCurrent
  <2>3. CASE t \notin ts
    BY <2>2, <2>3 DEF AlmostCurrent
  <2>4. CASE t \in ts
    <3>1. ~s.intents[t].sd /\ ~s.intents[t].td
      BY <2>2, <2>4
    <3>2. /\ s.pending[t].rev < s.next
          /\ s.pending[t].rev = s.intents[t].rev => Nearly(s.pending[t], s.intents[t])
      BY <2>2, <2>4 DEF AlmostCurrent
    <3>3. s.pending[t] \in Updates /\ s.intents[t] \in Intents
      BY <2>2, SessionFields
    <3>4. s.pending[t].rev = s.intents[t].rev => Agree(s.pending[t], s.intents[t])
      BY <3>1, <3>2, <3>3 DEF Nearly, Agree, Updates, Intents
    <3>5. QED BY <2>2, <3>2, <3>4 DEF UpdateSound
  <2>5. QED BY <2>3, <2>4
<1>4. DOMAIN new \subseteq Tracks /\ new \in [DOMAIN new -> Updates]
  <2>1. DOMAIN new = DOMAIN s.pending \cup dirty /\ DOMAIN new \subseteq DOMAIN s.intents
    BY DEF AlmostCurrent
  <2>2. \A t \in DOMAIN new : new[t] \in Updates
    BY <1>2, <1>3, <2>1
  <2>3. QED BY <2>1, <2>2, SessionFields
<1>5. DOMAIN new = DOMAIN s.pending \cup dirty
  OBVIOUS
<1>6. /\ q.pending = new /\ q.intents = s.intents /\ q.next = s.next
      /\ q.session = s.session /\ q.barrier = s.barrier /\ q \in Sessions
  <2> HIDE DEF new
  <2>1. QED BY <1>4, MapsOfUpdates DEF Sessions
<1>7. Current(q)
  <2> HIDE DEF q, new
  <2>1. DOMAIN q.pending \subseteq DOMAIN s.intents
    BY <1>5, <1>6 DEF AlmostCurrent
  <2>2. \A t \in DOMAIN q.pending : UpdateSound(q.pending[t], q.intents[t], q.next)
    BY <1>2, <1>3, <1>5, <1>6
  <2>3. QED BY <2>1, <2>2, <1>6 DEF Current, AlmostCurrent
<1>8. QED BY <1>1, <1>6, <1>7

\* What a revision writes
Decided(i, t, on, dirty, n) ==
  [i EXCEPT !.sub = t \in on,
            !.en = IF t \in Video THEN t \in on ELSE @,
            !.rev = n,
            !.sd = t \in dirty,
            !.td = t \in Video /\ (@ \/ i.en # (t \in on))]

\* A revised intent is sound under the next revision, and is clean only if it
\* was clean and has not been changed.
LEMMA DecidedIs ==
  ASSUME NEW i \in Intents, NEW t \in Tracks, NEW on, NEW dirty, NEW n \in Nat,
         IntentSound(i, t, n),
         t \notin dirty => ~i.sd /\ i.sub = (t \in on) /\ i.sent = (t \in on)
  PROVE  LET j == Decided(i, t, on, dirty, n)
         IN  /\ j \in Intents /\ j.rev = n
             /\ IntentSound(j, t, n + 1)
             /\ Carries(i, j, t, n)
<1> DEFINE j == Decided(i, t, on, dirty, n)
<1>1. /\ j.sub = (t \in on) /\ j.en = (IF t \in Video THEN t \in on ELSE i.en)
      /\ j.rev = n /\ j.sd = (t \in dirty) /\ j.sent = i.sent
      /\ j.td = (t \in Video /\ (i.td \/ i.en # (t \in on)))
      /\ j \in Intents
  <2> DEFINE a == t \in on
             b == IF t \in Video THEN t \in on ELSE i.en
             c == t \in dirty
             d == t \in Video /\ (i.td \/ i.en # (t \in on))
  <2>1. a \in BOOLEAN /\ b \in BOOLEAN /\ c \in BOOLEAN /\ d \in BOOLEAN
    <3>1. a \in BOOLEAN /\ c \in BOOLEAN
      OBVIOUS
    <3>2. d \in BOOLEAN
      OBVIOUS
    <3>3. b \in BOOLEAN
      <4>1. CASE t \in Video
        BY <4>1, <3>1, Zenon
      <4>2. CASE t \notin Video
        BY <4>2, IntentFields, Zenon
      <4>3. QED BY <4>1, <4>2
    <3>4. QED BY <3>1, <3>2, <3>3
  <2>2. j = [i EXCEPT !.sub = a, !.en = b, !.rev = n, !.sd = c, !.td = d]
    BY DEF Decided, Intents
  <2> HIDE DEF a, b, c, d, j
  <2>3. /\ j.sub = a /\ j.en = b /\ j.rev = n /\ j.sd = c /\ j.sent = i.sent
        /\ j.td = d /\ j \in Intents
    BY <2>1, <2>2 DEF Intents
  <2>4. QED BY <2>3 DEF a, b, c, d
<1>2. i.rev < n /\ i.rev \in Nat /\ (~i.sd => i.sub = i.sent) /\ (i.td => t \in Video)
  BY DEF IntentSound, Intents
<1> HIDE DEF j
<1>3. IntentSound(j, t, n + 1)
  <2>1. j.td => t \in Video
    BY <1>1, Zenon
  <2>2. ~j.sd => j.sub = j.sent
    BY <1>1, Zenon
  <2>3. j.rev < n + 1
    BY <1>1
  <2>4. QED BY <2>1, <2>2, <2>3 DEF IntentSound
<1>4. i.sd => j.sd
  BY <1>1
<1>5. i.td => j.td
  BY <1>1, <1>2
<1>6. ~j.sd => j.sub = i.sub
  BY <1>1, Zenon
<1>7. t \in Video /\ ~j.td => j.en = i.en
  BY <1>1, Zenon
<1>8. j.rev # i.rev /\ j.rev >= n
  BY <1>1, <1>2
<1>9. Carries(i, j, t, n)
  BY <1>4, <1>5, <1>6, <1>7, <1>8 DEF Carries
<1>10. QED BY <1>1, <1>3, <1>9 DEF j

\* An intent left alone is a revision of itself.
LEMMA CarriesItself ==
  ASSUME NEW i, NEW t, NEW n
  PROVE  Carries(i, i, t, n)
BY DEF Carries

\* s with the intents m and other settings of the sender
Rewrites(s, r, m, ts) ==
  /\ r.intents = m /\ r.pending = s.pending
  /\ r.session = s.session /\ r.next >= s.next
  /\ DOMAIN m = DOMAIN s.intents
  /\ \A t \in DOMAIN m : /\ m[t] \in Intents /\ IntentSound(m[t], t, r.next)
                         /\ Carries(s.intents[t], m[t], t, s.next)
                         /\ t \in ts \/ m[t] = s.intents[t]

\* Rewriting the intents of ts and queueing their updates is a revision.
LEMMA RewritesRevise ==
  ASSUME NEW s \in Sessions, NEW r \in Sessions, NEW m, NEW ts,
         Current(s), Rewrites(s, r, m, ts)
  PROVE  LET q == Queued(r, ts)
         IN  /\ q \in Sessions /\ Current(q) /\ Revises(s, q)
             /\ q.intents = m /\ q.next = r.next /\ q.barrier = r.barrier
<1>1. /\ r.intents = m /\ r.pending = s.pending /\ r.session = s.session
      /\ r.next >= s.next /\ DOMAIN m = DOMAIN s.intents /\ r.next \in Nat /\ s.next \in Nat
  BY SessionFields DEF Rewrites
<1>2. \A t \in DOMAIN m : /\ m[t] \in Intents /\ IntentSound(m[t], t, r.next)
                          /\ Carries(s.intents[t], m[t], t, s.next)
                          /\ t \in ts \/ m[t] = s.intents[t]
  BY DEF Rewrites
<1>3. /\ DOMAIN s.pending \subseteq DOMAIN m
      /\ \A t \in DOMAIN s.pending : /\ UpdateSound(s.pending[t], s.intents[t], s.next)
                                     /\ s.pending[t] \in Updates
                                     /\ s.intents[t] \in Intents
  BY <1>1, SessionFields DEF Current
<1>4. ASSUME NEW t \in DOMAIN s.pending \ ts
      PROVE  UpdateSound(s.pending[t], m[t], r.next)
  <2>1. m[t] = s.intents[t] /\ UpdateSound(s.pending[t], s.intents[t], s.next)
        /\ s.pending[t].rev \in Nat
    BY <1>2, <1>3, UpdateFields
  <2>2. QED BY <2>1, <1>1 DEF UpdateSound
<1>5. ASSUME NEW t \in DOMAIN s.pending \cap ts
      PROVE  /\ s.pending[t].rev < r.next
             /\ s.pending[t].rev = m[t].rev => Nearly(s.pending[t], m[t])
  <2> DEFINE p == s.pending[t]
             i == s.intents[t]
             j == m[t]
  <2>1. p \in Updates /\ i \in Intents /\ j \in Intents
    BY <1>2, <1>3
  <2>2. p.rev < s.next /\ (p.rev = i.rev => Agree(p, i)) /\ Carries(i, j, t, s.next)
    BY <1>2, <1>3 DEF UpdateSound
  <2> HIDE DEF p, i, j
  <2>3. p.rev < r.next
    BY <1>1, <2>1, <2>2, UpdateFields
  <2>4. ASSUME p.rev = j.rev PROVE Nearly(p, j)
    <3>1. j.rev = i.rev
      BY <1>1, <2>1, <2>2, <2>4, UpdateFields DEF Carries
    <3>2. Agree(p, i) /\ j.sub = i.sub /\ j.en = i.en /\ (i.sd => j.sd) /\ (i.td => j.td)
      BY <2>2, <2>4, <3>1 DEF Carries
    <3>3. QED BY <3>2 DEF Nearly, Agree
  <2>5. QED BY <2>3, <2>4 DEF p, j
<1>6. AlmostCurrent(r, ts)
  BY <1>1, <1>2, <1>3, <1>4, <1>5 DEF AlmostCurrent
<1> DEFINE q == Queued(r, ts)
<1>7. /\ q \in Sessions /\ Current(q) /\ q.intents = m /\ q.next = r.next
      /\ q.session = r.session /\ q.barrier = r.barrier
  BY <1>1, <1>6, QueuedIs
<1> HIDE DEF q
<1>8. Revises(s, q)
  BY <1>1, <1>2, <1>7 DEF Revises
<1>9. QED BY <1>7, <1>8 DEF q

\* What a revision needs: who is not dirty has been told what is decided.
Toldable(s, ts, on, dirty) ==
  /\ ts \subseteq DOMAIN s.intents
  /\ \A t \in ts \ dirty :
       ~s.intents[t].sd /\ s.intents[t].sub = (t \in on) /\ s.intents[t].sent = (t \in on)

\* What a plan, or the lack of one, makes of the session is a revision.
LEMMA RevisedIs ==
  ASSUME NEW s \in Sessions, Current(s), NEW ts, NEW on, NEW dirty,
         Toldable(s, ts, on, dirty)
  PROVE  LET r == Revised(s, ts, on, dirty)
         IN  r \in Sessions /\ Current(r) /\ Revises(s, r) /\ r.barrier = s.barrier
<1> DEFINE m == [t \in DOMAIN s.intents |->
                   IF t \in ts THEN Decided(s.intents[t], t, on, dirty, s.next)
                   ELSE s.intents[t]]
           n == IF ts = {} THEN s.next ELSE s.next + 1
           r == [s EXCEPT !.intents = m, !.next = n]
<1>1. Revised(s, ts, on, dirty) = Queued(r, ts)
  BY DEF Revised, Decided
<1>2. /\ DOMAIN s.intents \subseteq Tracks /\ s.next \in Nat
      /\ \A t \in DOMAIN s.intents : /\ s.intents[t] \in Intents
                                     /\ IntentSound(s.intents[t], t, s.next)
  BY SessionFields DEF Current
<1>3. n \in Nat /\ n >= s.next
  BY <1>2
<1>4. ASSUME NEW t \in DOMAIN s.intents
      PROVE  /\ m[t] \in Intents /\ IntentSound(m[t], t, n)
             /\ Carries(s.intents[t], m[t], t, s.next)
             /\ t \in ts \/ m[t] = s.intents[t]
  <2>1. CASE t \in ts
    <3>1. n = s.next + 1 /\ m[t] = Decided(s.intents[t], t, on, dirty, s.next)
      BY <2>1
    <3>2. t \notin dirty => ~s.intents[t].sd /\ s.intents[t].sub = (t \in on) /\ s.intents[t].sent = (t \in on)
      BY <2>1 DEF Toldable
    <3> HIDE DEF m, n
    <3>3. QED BY <1>2, <2>1, <3>1, <3>2, DecidedIs
  <2>2. CASE t \notin ts
    <3>1. m[t] = s.intents[t]
      BY <2>2
    <3>2. IntentSound(m[t], t, n)
      BY <1>2, <1>3, <3>1, IntentFields DEF IntentSound
    <3>3. QED BY <1>2, <3>1, <3>2, CarriesItself
  <2>3. QED BY <2>1, <2>2
<1>5. DOMAIN m = DOMAIN s.intents
  OBVIOUS
<1> HIDE DEF m, n
<1>6. m \in IntentMaps
  <2>1. m \in [DOMAIN m -> Intents]
    <3>1. m = [t \in DOMAIN m |-> m[t]]
      BY DEF m
    <3>2. QED BY <1>4, <1>5, <3>1
  <2>2. QED BY <1>2, <1>5, <2>1, MapsOfIntents
<1>7. /\ r \in Sessions /\ r.intents = m /\ r.next = n /\ r.pending = s.pending
      /\ r.session = s.session /\ r.barrier = s.barrier
  BY <1>3, <1>6 DEF Sessions
<1> HIDE DEF r
<1>8. Rewrites(s, r, m, ts)
  BY <1>3, <1>4, <1>5, <1>7 DEF Rewrites
<1>9. QED BY <1>1, <1>7, <1>8, RewritesRevise

\* Marking an intent dirty is a revision of it.
LEMMA MarkedIs ==
  ASSUME NEW i \in Intents, NEW t, NEW a \in BOOLEAN, NEW b \in BOOLEAN, NEW n \in Nat,
         IntentSound(i, t, n), i.sd => a, i.td => b, b => t \in Video
  PROVE  LET j == [i EXCEPT !.sd = a, !.td = b]
         IN  j \in Intents /\ IntentSound(j, t, n) /\ Carries(i, j, t, n) /\ j.sd = a /\ j.td = b
<1> DEFINE j == [i EXCEPT !.sd = a, !.td = b]
<1>1. /\ j \in Intents /\ j.sub = i.sub /\ j.en = i.en /\ j.rev = i.rev
      /\ j.sent = i.sent /\ j.sd = a /\ j.td = b
  BY DEF Intents
<1> HIDE DEF j
<1>2. QED BY <1>1 DEF IntentSound, Carries, j

\* Pausing is a revision after which every intent is dirty, and every video
\* in its settings too: all that the server will have forgotten.
LEMMA PauseSendingIs ==
  ASSUME NEW s \in Sessions, Current(s), NEW pubs, DOMAIN s.intents = pubs
  PROVE  LET r == PauseSending(s, pubs)
         IN  /\ r \in Sessions /\ Current(r) /\ Revises(s, r) /\ r.barrier
             /\ \A t \in DOMAIN r.intents : /\ r.intents[t].sd
                                            /\ t \in Video => r.intents[t].td
<1> DEFINE m == [t \in DOMAIN s.intents |->
                   [s.intents[t] EXCEPT !.sd = TRUE, !.td = @ \/ t \in Video \cap pubs]]
           r == [s EXCEPT !.barrier = TRUE, !.active = FALSE, !.op = @ + 1, !.intents = m]
<1>1. PauseSending(s, pubs) = Queued(r, DOMAIN m)
  BY DEF PauseSending
<1>2. /\ DOMAIN s.intents \subseteq Tracks /\ s.next \in Nat /\ s.op \in Nat
      /\ \A t \in DOMAIN s.intents : /\ s.intents[t] \in Intents
                                     /\ IntentSound(s.intents[t], t, s.next)
  BY SessionFields DEF Current
<1>3. ASSUME NEW t \in DOMAIN s.intents
      PROVE  /\ m[t] \in Intents /\ IntentSound(m[t], t, s.next)
             /\ Carries(s.intents[t], m[t], t, s.next)
             /\ m[t].sd /\ (t \in Video => m[t].td)
  <2> DEFINE i == s.intents[t]
             b == i.td \/ t \in Video \cap pubs
  <2>1. i \in Intents /\ IntentSound(i, t, s.next) /\ (i.td => t \in Video)
    BY <1>2 DEF IntentSound
  <2>2. b \in BOOLEAN /\ (i.td => b) /\ (b => t \in Video) /\ (t \in Video => b)
    BY <2>1
  <2>3. m[t] = [i EXCEPT !.sd = TRUE, !.td = b]
    OBVIOUS
  <2> HIDE DEF m, i, b
  <2>4. LET j == [i EXCEPT !.sd = TRUE, !.td = b]
        IN  /\ j \in Intents /\ IntentSound(j, t, s.next) /\ Carries(i, j, t, s.next)
            /\ j.sd = TRUE /\ j.td = b
    BY <1>2, <2>1, <2>2, MarkedIs
  <2>5. QED BY <2>2, <2>3, <2>4 DEF i
<1>4. DOMAIN m = DOMAIN s.intents
  OBVIOUS
<1> HIDE DEF m
<1>5. m \in IntentMaps
  <2>1. m \in [DOMAIN m -> Intents]
    <3>1. m = [t \in DOMAIN m |-> m[t]]
      BY DEF m
    <3>2. QED BY <1>3, <1>4, <3>1
  <2>2. QED BY <1>2, <1>4, <2>1, MapsOfIntents
<1>6. /\ r \in Sessions /\ r.intents = m /\ r.next = s.next /\ r.pending = s.pending
      /\ r.session = s.session /\ r.barrier = TRUE
  <2>1. s.op + 1 \in Nat
    BY <1>2
  <2>2. QED BY <1>5, <2>1 DEF Sessions
<1> HIDE DEF r
<1>7. Rewrites(s, r, m, DOMAIN m)
  BY <1>2, <1>3, <1>4, <1>6 DEF Rewrites
<1>8. LET q == Queued(r, DOMAIN m)
      IN  q \in Sessions /\ Current(q) /\ Revises(s, q) /\ q.intents = m /\ q.barrier
  BY <1>6, <1>7, RewritesRevise
<1>9. QED BY <1>1, <1>3, <1>4, <1>8

\* OnIceConnected
IceMarked(s, on, active) ==
  [t \in DOMAIN s.intents |->
     [s.intents[t] EXCEPT !.td = @ \/ (t \in on /\ active)]]

\* What OnIceConnected marks is a revision.
LEMMA IceMarkedIs ==
  ASSUME NEW s \in Sessions, Current(s), NEW on \in SUBSET Video, NEW active
  PROVE  LET r == Queued([s EXCEPT !.intents = IceMarked(s, on, active)], on)
         IN  r \in Sessions /\ Current(r) /\ Revises(s, r) /\ r.barrier = s.barrier
<1> DEFINE m == IceMarked(s, on, active)
           r == [s EXCEPT !.intents = m]
<1>2. /\ DOMAIN s.intents \subseteq Tracks /\ s.next \in Nat
      /\ \A t \in DOMAIN s.intents : /\ s.intents[t] \in Intents
                                     /\ IntentSound(s.intents[t], t, s.next)
  BY SessionFields DEF Current
<1>3. ASSUME NEW t \in DOMAIN s.intents
      PROVE  /\ m[t] \in Intents /\ IntentSound(m[t], t, s.next)
             /\ Carries(s.intents[t], m[t], t, s.next)
             /\ t \in on \/ m[t] = s.intents[t]
  <2> DEFINE i == s.intents[t]
             b == i.td \/ (t \in on /\ active)
  <2>1. i \in Intents /\ IntentSound(i, t, s.next) /\ (i.td => t \in Video)
    BY <1>2 DEF IntentSound
  <2>2. b \in BOOLEAN /\ (i.td => b) /\ (b => t \in Video) /\ i.sd \in BOOLEAN
    BY <2>1, IntentFields
  <2>3. m[t] = [i EXCEPT !.sd = i.sd, !.td = b]
    BY <2>1 DEF IceMarked, Intents
  <2>4. t \in on \/ b = i.td
    BY <2>1, IntentFields
  <2> HIDE DEF m, i, b
  <2>5. LET j == [i EXCEPT !.sd = i.sd, !.td = b]
        IN  j \in Intents /\ IntentSound(j, t, s.next) /\ Carries(i, j, t, s.next)
    BY <1>2, <2>1, <2>2, MarkedIs
  <2>6. b = i.td => [i EXCEPT !.sd = i.sd, !.td = b] = i
    BY <2>1 DEF Intents
  <2>7. QED BY <2>3, <2>4, <2>5, <2>6 DEF i
<1>4. DOMAIN m = DOMAIN s.intents
  BY DEF IceMarked
<1>5. m \in IntentMaps
  <2>1. m \in [DOMAIN m -> Intents]
    <3>1. m = [t \in DOMAIN m |-> m[t]]
      BY DEF IceMarked
    <3> HIDE DEF m
    <3>2. QED BY <1>3, <1>4, <3>1
  <2> HIDE DEF m
  <2>2. QED BY <1>2, <1>4, <2>1, MapsOfIntents
<1> HIDE DEF m
<1>6. /\ r \in Sessions /\ r.intents = m /\ r.next = s.next /\ r.pending = s.pending
      /\ r.session = s.session /\ r.barrier = s.barrier
  BY <1>5 DEF Sessions
<1> HIDE DEF r
<1>7. Rewrites(s, r, m, on)
  BY <1>2, <1>3, <1>4, <1>6 DEF Rewrites
<1>8. LET q == Queued(r, on)
      IN  q \in Sessions /\ Current(q) /\ Revises(s, q) /\ q.barrier = s.barrier
  BY <1>6, <1>7, RewritesRevise
<1>9. QED BY <1>8 DEF r, m

\* What a recovery does to the intents: it clears what the SyncState said.
Settles(s, r, n) ==
  /\ r.session = s.session /\ r.next = s.next /\ r.barrier = FALSE
  /\ DOMAIN r.intents = DOMAIN s.intents
  /\ \A t \in DOMAIN s.intents :
        /\ r.intents[t].sub = s.intents[t].sub /\ r.intents[t].en = s.intents[t].en
        /\ r.intents[t].td = s.intents[t].td /\ r.intents[t].rev = s.intents[t].rev
        /\ \/ r.intents[t].sd \/ ~s.intents[t].sd
           \/ t \in DOMAIN n.revs /\ n.revs[t] = s.intents[t].rev

\* FinishSubscriptionRecoveryLocked keeps the session current, and makes
\* clean only the intents of the revision that the SyncState said.
LEMMA FinishRecoveryIs ==
  ASSUME NEW s \in Sessions, Current(s), NEW n, n.session = s.session
  PROVE  LET r == FinishRecovery(s, n)
         IN  r \in Sessions /\ Current(r) /\ Settles(s, r, n)
<1> DEFINE same == {t \in DOMAIN n.revs \cap DOMAIN s.intents \cap DOMAIN s.pending :
                      s.intents[t].rev = n.revs[t] /\ s.pending[t].rev = n.revs[t]}
           was == {t \in same : s.pending[t].sd}
           left == {t \in DOMAIN s.pending : t \notin same \/ s.pending[t].td}
           m == [t \in DOMAIN s.intents |->
                   IF t \in was THEN [s.intents[t] EXCEPT !.sd = FALSE, !.sent = s.intents[t].sub]
                   ELSE s.intents[t]]
           q == [t \in left |-> IF t \in same THEN [s.pending[t] EXCEPT !.sd = FALSE]
                                ELSE s.pending[t]]
           r == [s EXCEPT !.intents = m, !.pending = q, !.barrier = FALSE]
<1>1. FinishRecovery(s, n) = r
  BY DEF FinishRecovery
<1>2. /\ DOMAIN s.intents \subseteq Tracks /\ s.next \in Nat
      /\ DOMAIN s.pending \subseteq DOMAIN s.intents
      /\ \A t \in DOMAIN s.intents : /\ s.intents[t] \in Intents
                                     /\ IntentSound(s.intents[t], t, s.next)
      /\ \A t \in DOMAIN s.pending : /\ s.pending[t] \in Updates
                                     /\ UpdateSound(s.pending[t], s.intents[t], s.next)
  BY SessionFields DEF Current
<1>3. ASSUME NEW t \in DOMAIN s.intents
      PROVE  /\ m[t] \in Intents /\ IntentSound(m[t], t, s.next)
             /\ m[t].sub = s.intents[t].sub /\ m[t].en = s.intents[t].en
             /\ m[t].td = s.intents[t].td /\ m[t].rev = s.intents[t].rev
             /\ \/ m[t].sd \/ ~s.intents[t].sd
                \/ t \in DOMAIN n.revs /\ n.revs[t] = s.intents[t].rev
             /\ m[t].sd = (IF t \in was THEN FALSE ELSE s.intents[t].sd)
  <2> DEFINE i == s.intents[t]
  <2>1. i \in Intents /\ IntentSound(i, t, s.next) /\ i.sub \in BOOLEAN
    BY <1>2, IntentFields
  <2>2. CASE t \in was
    <3>1. m[t] = [i EXCEPT !.sd = FALSE, !.sent = i.sub]
      BY <2>2
    <3>2. t \in DOMAIN n.revs /\ n.revs[t] = i.rev
      BY <2>2
    <3> HIDE DEF m, i
    <3>3. /\ m[t] \in Intents /\ m[t].sub = i.sub /\ m[t].en = i.en /\ m[t].td = i.td
          /\ m[t].rev = i.rev /\ m[t].sd = FALSE /\ m[t].sent = i.sub
      BY <2>1, <3>1 DEF Intents
    <3>4. IntentSound(m[t], t, s.next)
      BY <2>1, <3>3 DEF IntentSound
    <3>5. QED BY <2>2, <3>2, <3>3, <3>4 DEF i
  <2>3. CASE t \notin was
    <3>1. m[t] = i
      BY <2>3
    <3> HIDE DEF m, i, was
    <3>2. QED BY <2>1, <2>3, <3>1, IntentFields DEF i
  <2>4. QED BY <2>2, <2>3
<1>4. ASSUME NEW t \in left
      PROVE  q[t] \in Updates /\ UpdateSound(q[t], m[t], s.next) /\ t \in DOMAIN s.intents
  <2> DEFINE p == s.pending[t]
             i == s.intents[t]
  <2>1. /\ p \in Updates /\ UpdateSound(p, i, s.next) /\ i \in Intents
        /\ t \in DOMAIN s.intents /\ t \in DOMAIN s.pending
    BY <1>2
  <2>2. /\ m[t].sub = i.sub /\ m[t].en = i.en /\ m[t].td = i.td /\ m[t].rev = i.rev
        /\ m[t].sd = (IF t \in was THEN FALSE ELSE i.sd)
    BY <1>3, <2>1
  <2>3. CASE t \in same
    <3>1. q[t] = [p EXCEPT !.sd = FALSE] /\ p.rev = i.rev /\ (t \in was <=> p.sd)
      BY <2>3
    <3>2. Agree(p, i)
      BY <2>1, <3>1 DEF UpdateSound
    <3> HIDE DEF q, m, p, i, was
    <3>3. /\ q[t] \in Updates /\ q[t].sub = p.sub /\ q[t].en = p.en /\ q[t].td = p.td
          /\ q[t].rev = p.rev /\ q[t].sd = FALSE
      BY <2>1, <3>1 DEF Updates
    <3>4. m[t].sd = FALSE
      <4>1. p.sd \in BOOLEAN /\ i.sd \in BOOLEAN /\ p.sd = i.sd
        BY <2>1, <3>2, UpdateFields, IntentFields DEF Agree
      <4>2. CASE t \in was
        BY <2>2, <4>2, Zenon
      <4>3. CASE t \notin was
        BY <2>2, <3>1, <4>1, <4>3
      <4>4. QED BY <4>2, <4>3
    <3>5. Agree(q[t], m[t])
      BY <2>2, <3>2, <3>3, <3>4 DEF Agree
    <3>6. QED BY <2>1, <3>3, <3>5 DEF UpdateSound
  <2>4. CASE t \notin same
    <3>1. q[t] = p /\ t \notin was
      BY <2>4
    <3>2. m[t].sd = i.sd
      BY <2>2, <3>1, Zenon
    <3> HIDE DEF q, m, p, i, was, same
    <3>3. QED BY <2>1, <2>2, <3>1, <3>2 DEF UpdateSound, Agree
  <2>5. QED BY <2>3, <2>4
<1>5. DOMAIN m = DOMAIN s.intents /\ DOMAIN q = left
  OBVIOUS
<1> HIDE DEF same, was
<1>6. m \in [DOMAIN m -> Intents] /\ q \in [DOMAIN q -> Updates]
  <2>1. m = [t \in DOMAIN m |-> m[t]] /\ q = [t \in DOMAIN q |-> q[t]]
    OBVIOUS
  <2> HIDE DEF m, q, left
  <2>2. QED BY <1>3, <1>4, <1>5, <2>1
<1> HIDE DEF m, q, left
<1>7. m \in IntentMaps /\ q \in UpdateMaps
  BY <1>2, <1>4, <1>5, <1>6, MapsOfIntents, MapsOfUpdates
<1>8. /\ r \in Sessions /\ r.intents = m /\ r.next = s.next /\ r.pending = q
      /\ r.session = s.session /\ r.barrier = FALSE
  BY <1>7 DEF Sessions
<1> HIDE DEF r
<1>9. Current(r)
  BY <1>3, <1>4, <1>5, <1>8 DEF Current
<1>10. Settles(s, r, n)
  BY <1>3, <1>5, <1>8 DEF Settles
<1>11. QED BY <1>1, <1>8, <1>9, <1>10

\* The intent of a track that has just become known.
Newborn(n) == [sub |-> AutoSubscribe, en |-> TRUE, rev |-> n,
               sent |-> AutoSubscribe, sd |-> FALSE, td |-> FALSE]

\* A new intent is sound, clean, and what the server does by itself.
LEMMA NewbornIs ==
  ASSUME NEW n \in Nat, NEW t
  PROVE  /\ Newborn(n) \in Intents
         /\ IntentSound(Newborn(n), t, n + 1)
         /\ Newborn(n).sub = AutoSubscribe /\ Newborn(n).en = TRUE /\ Newborn(n).rev = n
         /\ Newborn(n).sd = FALSE /\ Newborn(n).td = FALSE
<1>1. Newborn(n) \in Intents
  BY AutoIsBoolean DEF Newborn, Intents
<1>2. /\ Newborn(n).sub = AutoSubscribe /\ Newborn(n).en = TRUE /\ Newborn(n).rev = n
      /\ Newborn(n).sd = FALSE /\ Newborn(n).td = FALSE /\ Newborn(n).sent = AutoSubscribe
  BY DEF Newborn
<1>3. IntentSound(Newborn(n), t, n + 1)
  BY <1>2 DEF IntentSound
<1>4. QED BY <1>1, <1>2, <1>3

\* What UpdateParticipants and a join make of the known tracks.
Follows(s, r, pubs) ==
  /\ r.session = s.session /\ r.barrier = s.barrier /\ r.next >= s.next
  /\ DOMAIN r.intents = pubs
  /\ \A t \in pubs : IF t \in DOMAIN s.intents THEN r.intents[t] = s.intents[t]
                      ELSE r.intents[t] = Newborn(s.next)

\* Learning what is published keeps the session current: known tracks keep
\* their intents, new ones get a new intent, the others are forgotten.
LEMMA KnownIs ==
  ASSUME NEW s \in Sessions, Current(s), NEW pubs \in SUBSET Tracks
  PROVE  LET r == Pruned(Ensured(s, pubs), pubs)
         IN  r \in Sessions /\ Current(r) /\ Follows(s, r, pubs)
<1> DEFINE new == pubs \ DOMAIN s.intents
           m == [t \in DOMAIN s.intents \cup new |->
                   IF t \in new THEN Newborn(s.next) ELSE s.intents[t]]
           n == IF new = {} THEN s.next ELSE s.next + 1
           e == [s EXCEPT !.intents = m, !.next = n]
           f == Restrict(m, DOMAIN m \cap pubs)
           g == Restrict(s.pending, DOMAIN s.pending \cap pubs)
           r == [e EXCEPT !.intents = f, !.pending = g]
<1>2. /\ DOMAIN s.intents \subseteq Tracks /\ s.next \in Nat
      /\ DOMAIN s.pending \subseteq DOMAIN s.intents
      /\ \A t \in DOMAIN s.intents : /\ s.intents[t] \in Intents
                                     /\ IntentSound(s.intents[t], t, s.next)
      /\ \A t \in DOMAIN s.pending : /\ s.pending[t] \in Updates
                                     /\ UpdateSound(s.pending[t], s.intents[t], s.next)
  BY SessionFields DEF Current
<1>3. /\ n \in Nat /\ n >= s.next /\ (new # {} => n = s.next + 1)
      /\ Ensured(s, pubs) = e
  BY <1>2 DEF Ensured, Newborn
<1>4. DOMAIN f = pubs /\ DOMAIN g = DOMAIN s.pending \cap pubs
  BY DEF Restrict
<1>5. /\ \A t \in pubs \ DOMAIN s.intents : f[t] = Newborn(s.next)
      /\ \A t \in pubs \cap DOMAIN s.intents : f[t] = s.intents[t]
      /\ \A t \in DOMAIN g : g[t] = s.pending[t]
  BY DEF Restrict
<1>6. f = [t \in DOMAIN f |-> f[t]] /\ g = [t \in DOMAIN g |-> g[t]]
  BY DEF Restrict
<1>7. e.intents = m /\ e.pending = s.pending
  BY DEF Sessions
<1>8. Pruned(Ensured(s, pubs), pubs) = r
  BY <1>3, <1>7 DEF Pruned
<1> HIDE DEF m, n, f, g
<1>9. ASSUME NEW t \in pubs
      PROVE  f[t] \in Intents /\ IntentSound(f[t], t, n)
  <2>1. CASE t \in DOMAIN s.intents
    <3>1. f[t] = s.intents[t]
      BY <1>5, <2>1
    <3>2. QED BY <1>2, <1>3, <2>1, <3>1, IntentFields DEF IntentSound
  <2>2. CASE t \notin DOMAIN s.intents
    <3>1. f[t] = Newborn(s.next) /\ n = s.next + 1
      BY <1>3, <1>5, <2>2
    <3>2. QED BY <1>2, <3>1, NewbornIs
  <2>3. QED BY <2>1, <2>2
<1>10. ASSUME NEW t \in DOMAIN g
       PROVE  g[t] \in Updates /\ UpdateSound(g[t], f[t], n) /\ t \in pubs
  <2>1. /\ g[t] = s.pending[t] /\ f[t] = s.intents[t] /\ t \in pubs
        /\ g[t] \in Updates /\ UpdateSound(g[t], f[t], s.next)
    BY <1>2, <1>4, <1>5
  <2>2. UpdateSound(g[t], f[t], n)
    BY <1>2, <1>3, <2>1, UpdateFields DEF UpdateSound
  <2>3. QED BY <2>1, <2>2
<1>11. f \in IntentMaps /\ g \in UpdateMaps
  <2>1. f \in [DOMAIN f -> Intents] /\ g \in [DOMAIN g -> Updates]
    BY <1>4, <1>6, <1>9, <1>10
  <2>2. QED BY <1>4, <2>1, MapsOfIntents, MapsOfUpdates
<1>12. /\ r \in Sessions /\ r.intents = f /\ r.pending = g /\ r.next = n
       /\ r.session = s.session /\ r.barrier = s.barrier
  BY <1>3, <1>11 DEF Sessions
<1> HIDE DEF r
<1>13. Current(r)
  BY <1>4, <1>9, <1>10, <1>12 DEF Current
<1>14. Follows(s, r, pubs)
  BY <1>3, <1>4, <1>5, <1>12 DEF Follows
<1>15. QED BY <1>8, <1>12, <1>13, <1>14

\* A reset session is empty, and as such current.
LEMMA ResetSessionIs ==
  ASSUME NEW s \in Sessions, NEW b \in BOOLEAN
  PROVE  LET r == [ResetSession(s) EXCEPT !.barrier = b]
         IN  /\ r \in Sessions /\ Current(r) /\ r.barrier = b
             /\ r.intents = <<>> /\ DOMAIN r.intents = {}
<1>1. <<>> \in IntentMaps /\ <<>> \in UpdateMaps /\ DOMAIN <<>> = {}
  <2>1. DOMAIN <<>> = {} /\ <<>> = [t \in {} |-> 0]
    OBVIOUS
  <2>2. <<>> \in [{} -> Intents] /\ <<>> \in [{} -> Updates]
    BY <2>1
  <2>3. QED BY <2>1, <2>2, MapsOfIntents, MapsOfUpdates
<1> DEFINE r == [ResetSession(s) EXCEPT !.barrier = b]
<1>2. /\ r \in Sessions /\ r.barrier = b /\ r.intents = <<>> /\ r.pending = <<>>
  <2>1. s.session + 1 \in Nat /\ s.op + 1 \in Nat /\ 1 \in Nat
    BY SessionFields
  <2> DEFINE q == ResetSession(s)
  <2>2. q \in Sessions /\ q.intents = <<>> /\ q.pending = <<>>
    BY <1>1, <2>1 DEF ResetSession, Sessions
  <2> HIDE DEF q
  <2>3. LET x == [q EXCEPT !.barrier = b]
        IN  x \in Sessions /\ x.barrier = b /\ x.intents = <<>> /\ x.pending = <<>>
    BY <2>2 DEF Sessions
  <2>4. QED BY <2>3 DEF q
<1>3. QED BY <1>1, <1>2 DEF Current

\* A reset allows sending.
LEMMA ResetIsUnblocked ==
  ASSUME NEW s \in Sessions
  PROVE  ResetSession(s) = [ResetSession(s) EXCEPT !.barrier = FALSE]
BY DEF ResetSession, Sessions

\* ScheduleSubscriptionDrainLocked touches the sender only.
Alike(s, r) ==
  /\ r.intents = s.intents /\ r.pending = s.pending /\ r.next = s.next
  /\ r.session = s.session /\ r.barrier = s.barrier

\* Scheduling a drain keeps the session current.
LEMMA ScheduleIs ==
  ASSUME NEW s \in Sessions, Current(s), Schedule(s)
  PROVE  sub' \in Sessions /\ Current(sub') /\ Alike(s, sub')
<1>1. sub' = s \/ sub' = [s EXCEPT !.active = TRUE, !.op = @ + 1]
  BY DEF Schedule
<1>2. sub' \in Sessions /\ Alike(s, sub')
  <2>1. CASE sub' = s
    BY <2>1 DEF Alike
  <2>2. CASE sub' = [s EXCEPT !.active = TRUE, !.op = @ + 1]
    <3>1. s.op + 1 \in Nat
      BY SessionFields
    <3>2. QED BY <2>2, <3>1 DEF Sessions, Alike
  <2>3. QED BY <1>1, <2>1, <2>2
<1>3. QED BY <1>2 DEF Alike, Current

-----------------------------------------------------------------------------
(* The inductive invariant *)

Switches == [Tracks -> BOOLEAN]
Views == [sub: Switches, en: Switches]
Servers == [pubs: SUBSET Tracks, sub: Switches, en: Switches]
Rooms == [conn: {"Connecting", "Connected", "Reconnecting", "Disconnected"},
          gen: Nat, inst: Nat, pubs: SUBSET Tracks]

TypeInv ==
  /\ sub \in Sessions /\ Current(sub)
  /\ room \in Rooms /\ room.gen > 0
  /\ served \in Servers
  /\ behind \subseteq Views
  /\ run = [d |-> run.d, pc |-> run.pc, t |-> run.t, u |-> run.u]

\* Intents are of the known tracks, which the server has or had.
RoomInv ==
  /\ room.inst = 0 => room.conn = "Disconnected" /\ room.pubs = {}
  /\ room.inst # 0 =>
       /\ DOMAIN sub.intents = room.pubs
       /\ AtFirst \cap served.pubs \subseteq room.pubs
       /\ room.pubs \subseteq served.pubs \cup AtFirst

\* Of a track that is to be published yet the server has been told nothing.
Fresh(r) == Tracks \ (r.pubs \cup AtFirst)
Initially(v, t) == v.sub[t] = AutoSubscribe /\ v.en[t] = TRUE
FreshInv ==
  room.inst # 0 =>
    \A t \in Fresh(room) : Initially(served, t) /\ \A v \in behind : Initially(v, t)

\* What is clean the server v has.
Heard(i, v, t) == /\ ~i.sd => v.sub[t] = i.sub
                  /\ t \in Video /\ ~i.td => v.en[t] = i.en
HeardInv ==
  ~sub.barrier /\ link = "up" => \A t \in DOMAIN sub.intents : Heard(sub.intents[t], served, t)

\* While the sender is paused, what is clean is what a server does by itself.
Untouched(i, t) == /\ ~i.sd => i.sub = AutoSubscribe
                   /\ t \in Video /\ ~i.td => i.en = TRUE
PausedInv == sub.barrier => \A t \in DOMAIN sub.intents : Untouched(sub.intents[t], t)

Resuming == {"resume", "wait", "sync", "send", "ice"}
Rejoining == {"teardown", "joining", "joined", "begin", "tailwait", "finish"}
Rejoined == {"joined", "begin", "tailwait", "finish"}

\* Reconnecting pauses the sender; what a resumed server has of the settings,
\* and what a server just joined has, is what it does by itself, or is dirty.
PhaseInv ==
  /\ ep \in Resuming \cup Rejoining => sub.barrier
  /\ ep \in Resuming => room.inst # 0
  /\ ep = "resume" => /\ link = "dead"
                      /\ \A t \in Video \cap DOMAIN sub.intents : sub.intents[t].td
  /\ ep \in Resuming \ {"resume"} /\ link = "up" =>
        \A t \in Video \cap DOMAIN sub.intents : sub.intents[t].td \/ served.en[t] = TRUE
  /\ ep \in Rejoined /\ link = "up" => \A t \in Tracks : Initially(served, t)

\* A SyncState n says what the session s says, as long as the revisions agree.
Matches(n, s, r) ==
  /\ n.session = s.session
  /\ n.sub \in Switches
  /\ \A t \in DOMAIN n.revs :
       /\ n.revs[t] \in Nat /\ n.revs[t] < s.next
       /\ t \in DOMAIN s.intents /\ s.intents[t].rev = n.revs[t] => s.intents[t].sub = n.sub[t]
  /\ \A t \in DOMAIN s.intents : s.intents[t].sd \/ n.sub[t] = AutoSubscribe
  /\ \A t \in Fresh(r) : n.sub[t] = AutoSubscribe
SnapInv ==
  /\ ep \in {"send", "ice"} => Matches(snap, sub, room)
  /\ ep = "ice" /\ link = "up" => served.sub = snap.sub

\* The update of a drain x says what the intent says, as long as they agree.
Tells(x, s) ==
  /\ x.t \in DOMAIN s.intents /\ x.u \in Updates /\ x.u.rev < s.next
  /\ x.u.rev = s.intents[x.t].rev => x.u.sub = s.intents[x.t].sub /\ x.u.en = s.intents[x.t].en
  /\ x.u.td => s.intents[x.t].td
  /\ ~x.u.td => s.intents[x.t].sd
RunInv ==
  /\ run.pc = "none" \/ (~sub.barrier /\ run.pc \in {"pick", "tell", "told"})
  /\ run.pc \in {"tell", "told"} => Tells(run, sub)
  /\ run.pc = "tell" /\ link = "up" /\ run.t \in Video /\ ~run.u.td
       => served.en[run.t] = run.u.en
  /\ run.pc = "told" /\ link = "up" =>
       /\ run.u.td => served.en[run.t] = run.u.en
       /\ ~run.u.td => served.sub[run.t] = run.u.sub

Inv == /\ TypeInv /\ RoomInv /\ FreshInv /\ HeardInv /\ PausedInv
       /\ PhaseInv /\ SnapInv /\ RunInv

-----------------------------------------------------------------------------
(* Steps that revise, or leave alone *)

\* What the server has heard of an intent it has heard of a revision of it, as
\* far as that is clean; what is dirty stays dirty.
LEMMA CarriedFacts ==
  ASSUME NEW i, NEW j, NEW t, NEW n, Carries(i, j, t, n)
  PROVE  /\ \A v : Heard(i, v, t) => Heard(j, v, t)
         /\ Untouched(i, t) => Untouched(j, t)
         /\ i.sd => j.sd
         /\ i.td => j.td
BY Zenon DEF Carries, Heard, Untouched

\* A SyncState that was built stays a true statement about the revised
\* session: an intent of the revision it names still says what it says.
LEMMA RevisedMatches ==
  ASSUME NEW n, NEW s \in Sessions, NEW q \in Sessions, NEW r, NEW r2,
         Revises(s, q), Matches(n, s, r), Fresh(r2) \subseteq Fresh(r)
  PROVE  Matches(n, q, r2)
<1>1. /\ q.session = s.session /\ q.next >= s.next /\ s.next \in Nat /\ q.next \in Nat
      /\ DOMAIN q.intents = DOMAIN s.intents
      /\ \A t \in DOMAIN s.intents : /\ Carries(s.intents[t], q.intents[t], t, s.next)
                                     /\ q.intents[t].rev \in Nat
  BY SessionFields, IntentFields DEF Revises
<1>2. /\ n.session = s.session /\ n.sub \in Switches
      /\ \A t \in DOMAIN n.revs :
           /\ n.revs[t] \in Nat /\ n.revs[t] < s.next
           /\ t \in DOMAIN s.intents /\ s.intents[t].rev = n.revs[t]
                => s.intents[t].sub = n.sub[t]
      /\ \A t \in DOMAIN s.intents : s.intents[t].sd \/ n.sub[t] = AutoSubscribe
      /\ \A t \in Fresh(r) : n.sub[t] = AutoSubscribe
  BY DEF Matches
<1>3. ASSUME NEW t \in DOMAIN n.revs
      PROVE  /\ n.revs[t] \in Nat /\ n.revs[t] < q.next
             /\ t \in DOMAIN q.intents /\ q.intents[t].rev = n.revs[t]
                  => q.intents[t].sub = n.sub[t]
  <2>1. n.revs[t] \in Nat /\ n.revs[t] < s.next
    BY <1>2
  <2>2. ASSUME t \in DOMAIN q.intents, q.intents[t].rev = n.revs[t]
        PROVE  q.intents[t].sub = n.sub[t]
    <3>1. t \in DOMAIN s.intents /\ Carries(s.intents[t], q.intents[t], t, s.next)
      BY <1>1, <2>2
    <3>2. q.intents[t].rev = s.intents[t].rev /\ q.intents[t].sub = s.intents[t].sub
      BY <1>1, <2>1, <2>2, <3>1 DEF Carries
    <3>3. QED BY <1>2, <2>2, <3>1, <3>2
  <2>3. QED BY <1>1, <2>1, <2>2
<1>4. ASSUME NEW t \in DOMAIN q.intents
      PROVE  q.intents[t].sd \/ n.sub[t] = AutoSubscribe
  BY <1>1, <1>2 DEF Carries
<1>5. QED BY <1>1, <1>2, <1>3, <1>4 DEF Matches

\* An update taken by a drain stays a true statement about a revised session.
LEMMA RevisedTells ==
  ASSUME NEW x, NEW s \in Sessions, NEW q \in Sessions, Revises(s, q), Tells(x, s)
  PROVE  Tells(x, q)
<1> DEFINE i == s.intents[x.t]
           j == q.intents[x.t]
<1>1. /\ q.next >= s.next /\ s.next \in Nat /\ q.next \in Nat
      /\ x.t \in DOMAIN s.intents /\ x.t \in DOMAIN q.intents
      /\ Carries(i, j, x.t, s.next) /\ i.rev \in Nat /\ j.rev \in Nat
      /\ x.u \in Updates /\ x.u.rev \in Nat
  BY SessionFields, IntentFields, UpdateFields DEF Revises, Tells
<1>2. /\ x.u.rev < s.next
      /\ x.u.rev = i.rev => x.u.sub = i.sub /\ x.u.en = i.en
      /\ x.u.td => i.td
      /\ ~x.u.td => i.sd
  BY DEF Tells
<1> HIDE DEF i, j
<1>3. /\ i.sd => j.sd
      /\ i.td => j.td
      /\ j.rev = i.rev => j.sub = i.sub /\ j.en = i.en
      /\ j.rev = i.rev \/ j.rev >= s.next
  BY <1>1 DEF Carries
<1>4. x.u.rev < q.next
  BY <1>1, <1>2
<1>5. x.u.rev = j.rev => x.u.sub = j.sub /\ x.u.en = j.en
  BY <1>1, <1>2, <1>3
<1>6. (x.u.td => j.td) /\ (~x.u.td => j.sd)
  BY <1>2, <1>3
<1>7. QED BY <1>1, <1>4, <1>5, <1>6 DEF Tells, j

\* The coroutine goes on within the resume or the restart, or falls back.
Moves(e, f) ==
  \/ f = e \/ f \notin Resuming \cup Rejoining
  \/ e \in Resuming \cup Rejoining /\ f = "teardown"
  \/ e = "wait" /\ f = "sync"
  \/ e \in Rejoined /\ f \in Rejoined

\* A step that at most revises intents, and takes nothing from the server.
Revising ==
  /\ sub' \in Sessions /\ Current(sub') /\ Revises(sub, sub') /\ sub'.barrier = sub.barrier
  /\ room' \in Rooms /\ room'.gen > 0 /\ room'.inst = room.inst /\ room'.pubs = room.pubs
  /\ room.inst = 0 => room'.conn = "Disconnected"
  /\ Moves(ep, ep')
  /\ snap' = snap \/ ep' \notin {"send", "ice"}
  /\ link' = link \/ link' = "dead"
  /\ run' = run \/ run' = NoRun
  /\ served' = served /\ behind' = behind

\* Steps that at most revise intents keep the invariant.
LEMMA RevisingStep ==
  ASSUME Inv, Revising
  PROVE  Inv'
<1>1. /\ TypeInv /\ RoomInv /\ FreshInv /\ HeardInv /\ PausedInv
      /\ PhaseInv /\ SnapInv /\ RunInv
  BY DEF Inv
<1>2. /\ sub' \in Sessions /\ Current(sub') /\ Revises(sub, sub') /\ sub'.barrier = sub.barrier
      /\ room' \in Rooms /\ room'.gen > 0 /\ room'.inst = room.inst /\ room'.pubs = room.pubs
      /\ room.inst = 0 => room'.conn = "Disconnected"
      /\ snap' = snap \/ ep' \notin {"send", "ice"}
      /\ link' = link \/ link' = "dead"
      /\ run' = run \/ run' = NoRun
      /\ served' = served /\ behind' = behind
  BY DEF Revising
<1>3. /\ ep' = ep \/ ep' \notin {"resume", "send", "ice"}
      /\ ep' \in Resuming => ep \in Resuming
      /\ ep' \in Resuming \ {"resume"} => ep \in Resuming \ {"resume"}
      /\ ep' \in Resuming \cup Rejoining => ep \in Resuming \cup Rejoining
      /\ ep' \in Rejoined => ep \in Rejoined
  BY DEF Revising, Moves, Resuming, Rejoining, Rejoined
<1>4. /\ DOMAIN sub'.intents = DOMAIN sub.intents
      /\ \A t \in DOMAIN sub.intents :
           /\ Carries(sub.intents[t], sub'.intents[t], t, sub.next)
           /\ \A v : Heard(sub.intents[t], v, t) => Heard(sub'.intents[t], v, t)
           /\ Untouched(sub.intents[t], t) => Untouched(sub'.intents[t], t)
           /\ sub.intents[t].td => sub'.intents[t].td
  <2>1. /\ DOMAIN sub'.intents = DOMAIN sub.intents
        /\ \A t \in DOMAIN sub.intents :
             Carries(sub.intents[t], sub'.intents[t], t, sub.next)
    BY <1>2 DEF Revises
  <2>2. QED BY <2>1, CarriedFacts
<1>5. TypeInv'
  <2>1. (run = [d |-> run.d, pc |-> run.pc, t |-> run.t, u |-> run.u])'
    BY <1>1, <1>2 DEF TypeInv, NoRun
  <2>2. QED BY <1>1, <1>2, <2>1 DEF TypeInv
<1>6. RoomInv'
  BY <1>1, <1>2, <1>4 DEF RoomInv
<1>7. FreshInv'
  BY <1>1, <1>2 DEF FreshInv, Fresh, Initially
<1>8. HeardInv'
  BY <1>1, <1>2, <1>4 DEF HeardInv
<1>9. PausedInv'
  BY <1>1, <1>2, <1>4 DEF PausedInv
<1>10. PhaseInv'
  <2>1. (ep \in Resuming \cup Rejoining => sub.barrier)'
    BY <1>1, <1>2, <1>3 DEF PhaseInv
  <2>2. (ep \in Resuming => room.inst # 0)'
    BY <1>1, <1>2, <1>3 DEF PhaseInv
  <2>3. (ep = "resume" => /\ link = "dead"
                          /\ \A t \in Video \cap DOMAIN sub.intents : sub.intents[t].td)'
    BY <1>1, <1>2, <1>3, <1>4 DEF PhaseInv
  <2>4. (ep \in Resuming \ {"resume"} /\ link = "up" =>
           \A t \in Video \cap DOMAIN sub.intents : sub.intents[t].td \/ served.en[t] = TRUE)'
    BY <1>1, <1>2, <1>3, <1>4 DEF PhaseInv
  <2>5. (ep \in Rejoined /\ link = "up" => \A t \in Tracks : Initially(served, t))'
    BY <1>1, <1>2, <1>3 DEF PhaseInv, Initially
  <2>6. QED BY <2>1, <2>2, <2>3, <2>4, <2>5 DEF PhaseInv
<1>11. SnapInv'
  <2>1. ASSUME ep' \in {"send", "ice"} PROVE Matches(snap', sub', room')
    <3>1. snap' = snap /\ ep' = ep /\ Fresh(room') \subseteq Fresh(room)
      BY <1>2, <1>3, <2>1 DEF Fresh
    <3>2. Matches(snap, sub, room) /\ sub \in Sessions
      BY <1>1, <2>1, <3>1 DEF SnapInv, TypeInv
    <3>3. QED BY <1>2, <3>1, <3>2, RevisedMatches
  <2>2. (ep = "ice" /\ link = "up" => served.sub = snap.sub)'
    BY <1>1, <1>2, <1>3 DEF SnapInv
  <2>3. QED BY <2>1, <2>2 DEF SnapInv
<1>12. RunInv'
  <2>0. CASE run' = NoRun
    BY <2>0 DEF NoRun, RunInv
  <2>1. run.pc \in {"tell", "told"} => Tells(run, sub')
    <3>1. sub \in Sessions
      BY <1>1 DEF TypeInv
    <3>2. QED BY <1>1, <1>2, <3>1, RevisedTells DEF RunInv
  <2>2. CASE run' = run
    BY <1>1, <1>2, <2>1, <2>2 DEF RunInv
  <2>3. QED BY <1>2, <2>0, <2>2
<1>13. QED BY <1>5, <1>6, <1>7, <1>8, <1>9, <1>10, <1>11, <1>12 DEF Inv

\* A step that pauses the sender.
Pausing ==
  /\ sub' \in Sessions /\ Current(sub') /\ Revises(sub, sub') /\ sub'.barrier
  /\ \A t \in DOMAIN sub'.intents : /\ sub'.intents[t].sd
                                    /\ t \in Video => sub'.intents[t].td
  /\ room' \in Rooms /\ room'.gen > 0 /\ room'.inst = room.inst /\ room'.pubs = room.pubs
  /\ room.inst # 0 /\ run.pc = "none"
  /\ \/ ep' = ep \/ ep' = "teardown"
     \/ ep' = "resume" /\ link' = "dead"
  /\ link' = link \/ link' = "dead"
  /\ run' = run /\ served' = served /\ behind' = behind /\ snap' = snap

\* Steps that pause the sender keep the invariant.
LEMMA PausingStep ==
  ASSUME Inv, Pausing
  PROVE  Inv'
<1>1. /\ TypeInv /\ RoomInv /\ FreshInv /\ HeardInv /\ PausedInv
      /\ PhaseInv /\ SnapInv /\ RunInv
  BY DEF Inv
<1>2. /\ sub' \in Sessions /\ Current(sub') /\ Revises(sub, sub') /\ sub'.barrier
      /\ room' \in Rooms /\ room'.gen > 0 /\ room'.inst = room.inst /\ room'.pubs = room.pubs
      /\ room.inst # 0 /\ run.pc = "none"
      /\ link' = link \/ link' = "dead"
      /\ run' = run /\ served' = served /\ behind' = behind /\ snap' = snap
  BY DEF Pausing
<1>3. /\ ep' = ep \/ ep' \in {"teardown", "resume"}
      /\ ep' = "resume" /\ ep' # ep => link' = "dead"
  BY DEF Pausing
<1>4. /\ DOMAIN sub'.intents = DOMAIN sub.intents
      /\ \A t \in DOMAIN sub'.intents : /\ sub'.intents[t].sd
                                        /\ t \in Video => sub'.intents[t].td
  BY DEF Revises, Pausing
<1>14. \A t \in Video \cap DOMAIN sub'.intents : sub'.intents[t].td
  <2>1. TAKE t \in Video \cap DOMAIN sub'.intents
  <2>2. t \in Video /\ t \in DOMAIN sub'.intents
    OBVIOUS
  <2>3. t \in Video => sub'.intents[t].td
    BY <1>4, <2>2
  <2>4. QED BY <2>2, <2>3
<1>5. TypeInv'
  BY <1>1, <1>2 DEF TypeInv
<1>6. RoomInv'
  BY <1>1, <1>2, <1>4 DEF RoomInv
<1>7. FreshInv'
  BY <1>1, <1>2 DEF FreshInv, Fresh, Initially
<1>8. HeardInv'
  BY <1>2 DEF HeardInv
<1>9. PausedInv'
  <2>1. ASSUME NEW t \in DOMAIN sub'.intents
        PROVE  Untouched(sub'.intents[t], t)
    <3>1. sub'.intents[t].sd
      BY <1>4
    <3>2. t \in Video => sub'.intents[t].td
      BY <1>4
    <3>3. QED BY <3>1, <3>2 DEF Untouched
  <2>2. QED BY <2>1 DEF PausedInv
<1>10. PhaseInv'
  <2>1. (ep \in Resuming => room.inst # 0)'
    BY <1>2
  <2>2. (ep = "resume" => /\ link = "dead"
                          /\ \A t \in Video \cap DOMAIN sub.intents : sub.intents[t].td)'
    BY <1>1, <1>2, <1>3, <1>4, <1>14 DEF PhaseInv
  <2>3. (ep \in Resuming \ {"resume"} /\ link = "up" =>
           \A t \in Video \cap DOMAIN sub.intents : sub.intents[t].td \/ served.en[t] = TRUE)'
    BY <1>14
  <2>4. (ep \in Rejoined /\ link = "up" => \A t \in Tracks : Initially(served, t))'
    BY <1>1, <1>2, <1>3 DEF PhaseInv, Initially, Rejoined
  <2>5. QED BY <1>2, <2>1, <2>2, <2>3, <2>4 DEF PhaseInv
<1>11. SnapInv'
  <2>1. ASSUME ep' \in {"send", "ice"} PROVE Matches(snap', sub', room')
    <3>1. ep' = ep /\ Fresh(room') \subseteq Fresh(room)
      BY <1>2, <1>3, <2>1 DEF Fresh
    <3>2. Matches(snap, sub, room) /\ sub \in Sessions
      BY <1>1, <2>1, <3>1 DEF SnapInv, TypeInv
    <3>3. QED BY <1>2, <3>1, <3>2, RevisedMatches
  <2>2. (ep = "ice" /\ link = "up" => served.sub = snap.sub)'
    BY <1>1, <1>2, <1>3 DEF SnapInv
  <2>3. QED BY <2>1, <2>2 DEF SnapInv
<1>12. RunInv'
  BY <1>2 DEF RunInv
<1>13. QED BY <1>5, <1>6, <1>7, <1>8, <1>9, <1>10, <1>11, <1>12 DEF Inv

-----------------------------------------------------------------------------
(* What the server has *)

\* The types of the fields of the server.
LEMMA ServerFields ==
  ASSUME NEW v \in Servers
  PROVE  v.pubs \subseteq Tracks /\ v.sub \in Switches /\ v.en \in Switches
BY DEF Servers

\* A SyncState says every subscription and no settings.
LEMMA TookSync ==
  ASSUME NEW v \in Servers, NEW on \in Switches
  PROVE  LET w == Took(v, [kind |-> "sync", sub |-> on])
         IN  w \in Servers /\ w.pubs = v.pubs /\ w.en = v.en /\ w.sub = on
<1>1. Took(v, [kind |-> "sync", sub |-> on]) = [v EXCEPT !.sub = on]
  BY DEF Took
<1>2. QED BY <1>1 DEF Servers

\* A subscription is told of one track.
LEMMA TookSubscription ==
  ASSUME NEW v \in Servers, NEW t \in Tracks, NEW b \in BOOLEAN
  PROVE  LET w == Took(v, [kind |-> "subscription", t |-> t, on |-> b])
         IN  /\ w \in Servers /\ w.pubs = v.pubs /\ w.en = v.en
             /\ w.sub = [v.sub EXCEPT ![t] = b]
<1>1. Took(v, [kind |-> "subscription", t |-> t, on |-> b]) = [v EXCEPT !.sub[t] = b]
  BY DEF Took
<1>2. v.sub \in Switches /\ [v.sub EXCEPT ![t] = b] \in Switches
  BY DEF Servers, Switches
<1>3. [v EXCEPT !.sub[t] = b] = [v EXCEPT !.sub = [v.sub EXCEPT ![t] = b]]
  BY DEF Servers
<1>4. QED BY <1>1, <1>2, <1>3 DEF Servers

\* Settings are told of one track.
LEMMA TookSettings ==
  ASSUME NEW v \in Servers, NEW t \in Tracks, NEW b \in BOOLEAN
  PROVE  LET w == Took(v, [kind |-> "settings", t |-> t, on |-> b])
         IN  /\ w \in Servers /\ w.pubs = v.pubs /\ w.sub = v.sub
             /\ w.en = [v.en EXCEPT ![t] = b]
<1>1. Took(v, [kind |-> "settings", t |-> t, on |-> b]) = [v EXCEPT !.en[t] = b]
  BY DEF Took
<1>2. v.en \in Switches /\ [v.en EXCEPT ![t] = b] \in Switches
  BY DEF Servers, Switches
<1>3. [v EXCEPT !.en[t] = b] = [v EXCEPT !.en = [v.en EXCEPT ![t] = b]]
  BY DEF Servers
<1>4. QED BY <1>1, <1>2, <1>3 DEF Servers

\* What the server had is something it may still have.
LEMMA BehindGrows ==
  ASSUME NEW v \in Servers
  PROVE  [sub |-> v.sub, en |-> v.en] \in Views
BY DEF Servers, Views

\* A server that has heard nothing does what it does by itself.
LEMMA UnheardIs ==
  ASSUME NEW pubs \in SUBSET Tracks
  PROVE  /\ Unheard(pubs) \in Servers /\ Unheard(pubs).pubs = pubs
         /\ \A t \in Tracks : Initially(Unheard(pubs), t)
<1>1. /\ [t \in Tracks |-> AutoSubscribe] \in Switches
      /\ [t \in Tracks |-> TRUE] \in Switches
  BY AutoIsBoolean DEF Switches
<1>2. QED BY <1>1 DEF Unheard, Servers, Initially

-----------------------------------------------------------------------------
(* The drain *)

\* Without the pending update of t
Without(s, t) == [s EXCEPT !.pending = Restrict(@, DOMAIN @ \ {t})]

\* Dropping a pending update keeps the session current.
LEMMA WithoutIs ==
  ASSUME NEW s \in Sessions, Current(s), NEW t
  PROVE  LET r == Without(s, t)
         IN  /\ r \in Sessions /\ Current(r) /\ r.intents = s.intents /\ r.next = s.next
             /\ r.session = s.session /\ r.barrier = s.barrier
<1> DEFINE g == Restrict(s.pending, DOMAIN s.pending \ {t})
           r == [s EXCEPT !.pending = g]
<1>1. /\ DOMAIN s.pending \subseteq Tracks /\ \A x \in DOMAIN s.pending : s.pending[x] \in Updates
      /\ DOMAIN g \subseteq DOMAIN s.pending /\ \A x \in DOMAIN g : g[x] = s.pending[x]
      /\ g = [x \in DOMAIN g |-> g[x]]
  BY SessionFields DEF Restrict
<1> HIDE DEF g
<1>2. g \in UpdateMaps
  <2>1. g \in [DOMAIN g -> Updates]
    BY <1>1
  <2>2. QED BY <1>1, <2>1, MapsOfUpdates
<1>3. /\ r \in Sessions /\ r.intents = s.intents /\ r.next = s.next /\ r.pending = g
      /\ r.session = s.session /\ r.barrier = s.barrier
  BY <1>2 DEF Sessions
<1> HIDE DEF r
<1>4. Current(r)
  BY <1>1, <1>3 DEF Current
<1>5. QED BY <1>3, <1>4 DEF Without, r, g

\* A session with the same intents is a revision.
LEMMA SameIntentsRevise ==
  ASSUME NEW s \in Sessions, NEW r \in Sessions, r.intents = s.intents, r.next = s.next,
         r.session = s.session
  PROVE  Revises(s, r)
<1>1. s.next \in Nat
  BY SessionFields
<1>2. QED BY <1>1, CarriesItself DEF Revises

\* Scheduling a drain after a revision is a revision.
LEMMA RevisesAndAlike ==
  ASSUME NEW s, NEW r, NEW q, Revises(s, r), Alike(r, q)
  PROVE  Revises(s, q)
BY DEF Revises, Alike

\* A drain takes only an update that something remains to be told of.
LEMMA NotTaken ==
  ASSUME NEW t, Phase(t) # 5
  PROVE  sub.pending[t].td \/ sub.pending[t].sd
BY DEF Phase

\* A step that takes an update, or ends the drain.
LEMMA TakeStep ==
  ASSUME Inv, NEW d, ~sub.barrier, Take(d)
  PROVE  Inv'
<1>1. /\ TypeInv /\ RoomInv /\ FreshInv /\ HeardInv /\ PausedInv
      /\ PhaseInv /\ SnapInv /\ RunInv /\ sub \in Sessions /\ Current(sub)
  BY DEF Inv, TypeInv
<1>2. /\ room' = room /\ ep' = ep /\ snap' = snap /\ link' = link
      /\ served' = served /\ behind' = behind
  BY DEF Take
<1> DEFINE Same == /\ sub' \in Sessions /\ Current(sub') /\ sub'.intents = sub.intents
                   /\ sub'.next = sub.next /\ sub'.session = sub.session
                   /\ sub'.barrier = sub.barrier
           Shaped == run' = [d |-> run'.d, pc |-> run'.pc, t |-> run'.t, u |-> run'.u]
<1>3. Same /\ Shaped /\ RunInv'
  <2>1. CASE sub' = [sub EXCEPT !.active = FALSE] /\ run' = NoRun
    <3>1. Same
      BY <1>1, <2>1 DEF Sessions, Current
    <3>2. run'.pc = "none" /\ Shaped
      BY <2>1 DEF NoRun
    <3>3. QED BY <3>1, <3>2 DEF RunInv
  <2>2. ASSUME NEW t \in DOMAIN sub.pending, Phase(t) # 5,
               t \in DOMAIN sub.intents, sub.intents[t].rev = sub.pending[t].rev,
               run' = [d |-> d, pc |-> "tell", t |-> t, u |-> sub.pending[t]], sub' = sub
        PROVE  Same /\ Shaped /\ RunInv'
    <3> DEFINE i == sub.intents[t]
               u == sub.pending[t]
    <3>1. Same /\ Shaped
      BY <1>1, <2>2
    <3>2. /\ i \in Intents /\ u \in Updates /\ IntentSound(i, t, sub.next)
          /\ UpdateSound(u, i, sub.next) /\ Agree(u, i)
      BY <1>1, <2>2, SessionFields DEF Current, UpdateSound
    <3>3. run'.t = t /\ run'.u = u /\ run'.pc = "tell"
      BY <2>2
    <3>4. u.td \/ u.sd
      BY <2>2, NotTaken
    <3>5. (u.td => i.td) /\ (~u.td => i.sd) /\ u.sub = i.sub /\ u.en = i.en /\ u.rev < sub.next
      BY <3>2, <3>4 DEF Agree, UpdateSound
    <3>6. Tells(run', sub')
      BY <2>2, <3>2, <3>3, <3>5 DEF Tells
    <3>7. link = "up" /\ t \in Video /\ ~u.td => served.en[t] = u.en
      <4>1. SUFFICES ASSUME link = "up", t \in Video, ~u.td PROVE served.en[t] = u.en
        OBVIOUS
      <4>2. Heard(i, served, t)
        BY <1>1, <2>2, <4>1 DEF HeardInv
      <4>3. ~i.td
        BY <3>2, <4>1 DEF Agree
      <4>4. QED BY <3>5, <4>1, <4>2, <4>3 DEF Heard
    <3> HIDE DEF i, u
    <3>8. RunInv'
      BY <1>2, <2>2, <3>3, <3>6, <3>7 DEF RunInv
    <3>9. QED BY <3>1, <3>8
  <2>3. ASSUME NEW t \in DOMAIN sub.pending, sub' = Without(sub, t),
               run' = [NoRun EXCEPT !.d = d, !.pc = "pick"]
        PROVE  Same /\ Shaped /\ RunInv'
    <3>1. Same
      BY <1>1, <2>3, WithoutIs
    <3>2. run'.pc = "pick" /\ Shaped
      BY <2>3 DEF NoRun
    <3>3. QED BY <3>1, <3>2 DEF RunInv
  <2>4. QED BY <2>1, <2>2, <2>3 DEF Take, Without
<1> HIDE DEF Shaped
<1>4. TypeInv'
  BY <1>1, <1>2, <1>3 DEF TypeInv, Shaped
<1>5. RoomInv' /\ FreshInv' /\ HeardInv' /\ PausedInv'
  BY <1>1, <1>2, <1>3 DEF RoomInv, FreshInv, HeardInv, PausedInv, Initially, Heard, Fresh
<1>6. PhaseInv'
  BY <1>1, <1>2, <1>3 DEF PhaseInv, Initially
<1>7. SnapInv'
  BY <1>1, <1>2, <1>3 DEF SnapInv, Matches
<1>8. QED BY <1>3, <1>4, <1>5, <1>6, <1>7 DEF Inv

\* A current session may have any of its updates queued again.
LEMMA CurrentIsAlmost ==
  ASSUME NEW s \in Sessions, Current(s), NEW ts
  PROVE  AlmostCurrent(s, ts)
<1>1. ASSUME NEW t \in DOMAIN s.pending \cap ts
      PROVE  /\ s.pending[t].rev < s.next
             /\ s.pending[t].rev = s.intents[t].rev => Nearly(s.pending[t], s.intents[t])
  BY DEF Current, UpdateSound, Agree, Nearly
<1>2. QED BY <1>1 DEF Current, AlmostCurrent

\* An update that could not be written is queued again: the intents are as
\* they were, and the session is current.
LEMMA NotToldIs ==
  ASSUME sub \in Sessions, Current(sub)
  PROVE  /\ NotTold \in Sessions /\ Current(NotTold)
         /\ Revises(sub, NotTold) /\ NotTold.barrier = sub.barrier
<1> DEFINE t == run.t
           newer == t \in DOMAIN sub.pending /\ sub.pending[t].rev # run.u.rev
           w == Without(sub, t)
           q == Queued(w, {t})
           x == IF newer THEN sub ELSE q
           r == [x EXCEPT !.active = FALSE]
<1>1. NotTold = IF ~Owner(run.d) THEN sub ELSE r
  BY DEF NotTold, Without
<1>2. /\ w \in Sessions /\ Current(w) /\ w.intents = sub.intents /\ w.next = sub.next
      /\ w.session = sub.session /\ w.barrier = sub.barrier
  BY WithoutIs
<1> HIDE DEF w
<1>3. /\ q \in Sessions /\ Current(q) /\ q.intents = w.intents /\ q.next = w.next
      /\ q.session = w.session /\ q.barrier = w.barrier
  BY <1>2, QueuedIs, CurrentIsAlmost
<1> HIDE DEF q, newer
<1>4. /\ x \in Sessions /\ Current(x) /\ x.intents = sub.intents /\ x.next = sub.next
      /\ x.session = sub.session /\ x.barrier = sub.barrier
  BY <1>2, <1>3
<1> HIDE DEF x
<1>5. /\ r \in Sessions /\ r.intents = sub.intents /\ r.next = sub.next
      /\ r.pending = x.pending /\ r.session = sub.session /\ r.barrier = sub.barrier
  BY <1>4 DEF Sessions
<1>6. Current(r)
  BY <1>4, <1>5 DEF Current
<1>7. QED BY <1>1, <1>5, <1>6, SameIntentsRevise

\* A step that writes an update to the server, or fails to.
LEMMA TellStep ==
  ASSUME Inv, Tell
  PROVE  Inv'
<1>1. /\ TypeInv /\ RoomInv /\ FreshInv /\ HeardInv /\ PausedInv
      /\ PhaseInv /\ SnapInv /\ RunInv
  BY DEF Inv
<1>2. /\ room' = room /\ ep' = ep /\ snap' = snap /\ link' = link /\ run.pc = "tell"
  BY DEF Tell
<1>3. CASE link # "up"
  <2>1. sub' = NotTold /\ run' = NoRun /\ served' = served /\ behind' = behind
    BY <1>3 DEF Tell
  <2>2. Revising
    BY <1>1, <1>2, <2>1, NotToldIs DEF Revising, TypeInv, RoomInv, Moves
  <2>3. QED BY <2>2, RevisingStep
<1>4. CASE link = "up"
  <2> DEFINE t == run.t
             u == run.u
             i == sub.intents[t]
             old == [sub |-> served.sub, en |-> served.en]
  <2>1. /\ sub' = sub /\ run' = [run EXCEPT !.pc = "told"]
        /\ served' = Took(served, Message) /\ behind' = behind \cup {old}
    BY <1>4 DEF Tell, Write
  <2>2. /\ Tells(run, sub) /\ ~sub.barrier
    BY <1>1, <1>2 DEF RunInv
  <2>3. /\ t \in DOMAIN sub.intents /\ t \in Tracks /\ u \in Updates
        /\ u.td => i.td
        /\ ~u.td => i.sd
        /\ sub \in Sessions /\ served \in Servers
    BY <1>1, <2>2, SessionFields DEF Tells, TypeInv
  <2>4. run'.d = run.d /\ run'.pc = "told" /\ run'.t = t /\ run'.u = u
        /\ run' = [d |-> run'.d, pc |-> run'.pc, t |-> run'.t, u |-> run'.u]
    BY <1>1, <2>1 DEF TypeInv
  <2>5. /\ served' \in Servers /\ served'.pubs = served.pubs
        /\ \A x \in Tracks \ {t} : served'.sub[x] = served.sub[x] /\ served'.en[x] = served.en[x]
        /\ u.td => served'.sub[t] = served.sub[t] /\ served'.en[t] = u.en
        /\ ~u.td => served'.en[t] = served.en[t] /\ served'.sub[t] = u.sub
    <3>1. CASE u.td
      <4>1. Message = [kind |-> "settings", t |-> t, on |-> u.en]
        BY <3>1 DEF Message
      <4>2. /\ served' \in Servers /\ served'.pubs = served.pubs /\ served'.sub = served.sub
            /\ served'.en = [served.en EXCEPT ![t] = u.en]
        BY <2>1, <2>3, <4>1, TookSettings, UpdateFields
      <4>3. QED BY <2>3, <3>1, <4>2 DEF Servers, Switches
    <3>2. CASE ~u.td
      <4>1. Message = [kind |-> "subscription", t |-> t, on |-> u.sub]
        BY <3>2 DEF Message
      <4>2. /\ served' \in Servers /\ served'.pubs = served.pubs /\ served'.en = served.en
            /\ served'.sub = [served.sub EXCEPT ![t] = u.sub]
        BY <2>1, <2>3, <4>1, TookSubscription, UpdateFields
      <4>3. QED BY <2>3, <3>2, <4>2 DEF Servers, Switches
    <3>3. QED BY <3>1, <3>2
  <2> HIDE DEF t, u, i
  <2>6. TypeInv'
    BY <1>1, <1>2, <2>1, <2>3, <2>4, <2>5, BehindGrows DEF TypeInv
  <2>7. RoomInv'
    BY <1>1, <1>2, <2>1, <2>5 DEF RoomInv
  <2>8. FreshInv'
    <3>1. SUFFICES ASSUME room.inst # 0, NEW x \in Fresh(room)
                   PROVE  Initially(served', x) /\ \A v \in behind' : Initially(v, x)
      BY <1>2 DEF FreshInv, Fresh
    <3>2. x \in Tracks \ {t}
      BY <1>1, <2>3, <3>1 DEF RoomInv, Fresh
    <3>3. Initially(served, x) /\ \A v \in behind : Initially(v, x)
      BY <1>1, <3>1 DEF FreshInv
    <3>4. Initially(served', x) /\ Initially(old, x)
      BY <2>5, <3>2, <3>3 DEF Initially
    <3>5. QED BY <2>1, <3>3, <3>4
  <2>9. HeardInv'
    <3>1. SUFFICES ASSUME NEW x \in DOMAIN sub.intents PROVE Heard(sub.intents[x], served', x)
      BY <2>1 DEF HeardInv
    <3>2. Heard(sub.intents[x], served, x) /\ x \in Tracks
      BY <1>1, <1>4, <2>2, <2>3, SessionFields DEF HeardInv
    <3>3. CASE x # t
      BY <2>5, <3>2, <3>3 DEF Heard
    <3>4. CASE x = t
      BY <2>3, <2>5, <3>2, <3>4 DEF Heard, i
    <3>5. QED BY <3>3, <3>4
  <2>10. PausedInv'
    BY <2>1, <2>2 DEF PausedInv
  <2>11. PhaseInv' /\ SnapInv'
    BY <1>1, <1>2, <2>1, <2>2 DEF PhaseInv, SnapInv, Resuming, Rejoining, Rejoined
  <2>12. RunInv'
    <3>1. Tells(run', sub')
      BY <2>1, <2>2, <2>4 DEF Tells, t, u
    <3>2. QED BY <2>1, <2>2, <2>4, <2>5, <3>1 DEF RunInv
  <2>13. QED BY <2>6, <2>7, <2>8, <2>9, <2>10, <2>11, <2>12 DEF Inv
<1>5. QED BY <1>3, <1>4

\* What a drain makes of an intent it has told.
Completed(i, u) ==
  IF u.td THEN [i EXCEPT !.td = FALSE] ELSE [i EXCEPT !.sd = FALSE, !.sent = u.sub]

\* An intent made clean where it was told is sound, and says what it said.
LEMMA CompletedIs ==
  ASSUME NEW i \in Intents, NEW u \in Updates, NEW t, NEW n \in Nat, IntentSound(i, t, n),
         u.sub = i.sub
  PROVE  LET j == Completed(i, u)
         IN  /\ j \in Intents /\ IntentSound(j, t, n)
             /\ j.sub = i.sub /\ j.en = i.en /\ j.rev = i.rev
             /\ u.td => j.sd = i.sd /\ j.td = FALSE
             /\ ~u.td => j.sd = FALSE /\ j.td = i.td
<1> DEFINE j == Completed(i, u)
<1>1. CASE u.td
  <2>1. j = [i EXCEPT !.td = FALSE]
    BY <1>1 DEF Completed
  <2> HIDE DEF j
  <2>2. /\ j \in Intents /\ j.sub = i.sub /\ j.en = i.en /\ j.rev = i.rev /\ j.sent = i.sent
        /\ j.sd = i.sd /\ j.td = FALSE
    BY <2>1 DEF Intents
  <2>3. IntentSound(j, t, n)
    BY <2>2 DEF IntentSound
  <2>4. QED BY <1>1, <2>2, <2>3 DEF j
<1>2. CASE ~u.td
  <2>1. j = [i EXCEPT !.sd = FALSE, !.sent = u.sub]
    BY <1>2 DEF Completed
  <2>2. u.sub \in BOOLEAN
    BY UpdateFields
  <2> HIDE DEF j
  <2>3. /\ j \in Intents /\ j.sub = i.sub /\ j.en = i.en /\ j.rev = i.rev /\ j.sent = u.sub
        /\ j.sd = FALSE /\ j.td = i.td
    BY <2>1, <2>2 DEF Intents
  <2>4. IntentSound(j, t, n)
    BY <2>3 DEF IntentSound
  <2>5. QED BY <1>2, <2>3, <2>4 DEF j
<1>3. QED BY <1>1, <1>2

\* Telling makes clean what has been told, and nothing else.
Completes(s, r, x) ==
  /\ r.session = s.session /\ r.next = s.next /\ r.barrier = s.barrier
  /\ DOMAIN r.intents = DOMAIN s.intents
  /\ \A t \in DOMAIN s.intents :
       \/ r.intents[t] = s.intents[t]
       \/ /\ t = x.t /\ x.u.sub = s.intents[t].sub /\ x.u.en = s.intents[t].en
          /\ r.intents[t].sub = s.intents[t].sub /\ r.intents[t].en = s.intents[t].en
          /\ x.u.td => r.intents[t].sd = s.intents[t].sd
          /\ ~x.u.td => r.intents[t].td = s.intents[t].td

\* A drain that has told an update completes the session by that update only,
\* and only if neither the update nor the intent was revised meanwhile.
LEMMA ToldIs ==
  ASSUME sub \in Sessions, Current(sub), Tells(run, sub), Told
  PROVE  sub' \in Sessions /\ Current(sub') /\ Completes(sub, sub', run)
<1> DEFINE t == run.t
           u == run.u
           i == sub.intents[t]
           w == sub.pending[t]
           p == IF u.td THEN [w EXCEPT !.td = FALSE] ELSE [w EXCEPT !.sd = FALSE]
           mine == i.rev = u.rev
           m == IF mine THEN [sub.intents EXCEPT ![t] = Completed(i, u)] ELSE sub.intents
           g == IF p.sd \/ p.td THEN [sub.pending EXCEPT ![t] = p]
                ELSE Restrict(sub.pending, DOMAIN sub.pending \ {t})
           r == [sub EXCEPT !.intents = m, !.pending = g]
<1>1. CASE t \notin DOMAIN sub.pending \/ sub.pending[t].rev # run.u.rev
  <2>1. sub' = sub
    BY <1>1 DEF Told
  <2>2. QED BY <2>1 DEF Completes
<1>2. CASE ~(t \notin DOMAIN sub.pending \/ sub.pending[t].rev # run.u.rev)
  <2>1. /\ t \in DOMAIN sub.intents /\ t \in DOMAIN sub.pending /\ w.rev = u.rev
        /\ i \in Intents /\ u \in Updates /\ w \in Updates /\ sub.next \in Nat
        /\ IntentSound(i, t, sub.next) /\ UpdateSound(w, i, sub.next)
        /\ mine => u.sub = i.sub /\ u.en = i.en
    BY <1>2, SessionFields DEF Tells, Current
  <2>2. sub' = r
    <3>1. (t \in DOMAIN sub.intents /\ sub.intents[t].rev = run.u.rev) <=> mine
      BY <2>1
    <3> QED BY <1>2, <3>1 DEF Told, Completed
  <2>3. mine => LET j == Completed(i, u)
                IN  /\ j \in Intents /\ IntentSound(j, t, sub.next)
                    /\ j.sub = i.sub /\ j.en = i.en /\ j.rev = i.rev
                    /\ u.td => j.sd = i.sd /\ j.td = FALSE
                    /\ ~u.td => j.sd = FALSE /\ j.td = i.td
    BY <2>1, CompletedIs
  <2>4. /\ p \in Updates /\ p.sub = w.sub /\ p.en = w.en /\ p.rev = w.rev
        /\ u.td => p.sd = w.sd /\ p.td = FALSE
        /\ ~u.td => p.sd = FALSE /\ p.td = w.td
    BY <2>1 DEF Updates
  <2>5. /\ DOMAIN m = DOMAIN sub.intents /\ m[t] = (IF mine THEN Completed(i, u) ELSE i)
        /\ \A x \in DOMAIN m : x # t => m[x] = sub.intents[x]
        /\ m = [x \in DOMAIN m |-> m[x]]
    <3>1. sub.intents \in [DOMAIN sub.intents -> Intents]
      BY SessionFields
    <3>2. QED BY <2>1, <3>1
  <2> HIDE DEF p, m
  <2>6. /\ DOMAIN g \subseteq DOMAIN sub.pending
        /\ t \in DOMAIN g => g[t] = p
        /\ \A x \in DOMAIN g : x # t => g[x] = sub.pending[x]
        /\ g = [x \in DOMAIN g |-> g[x]]
    <3>1. sub.pending \in [DOMAIN sub.pending -> Updates]
      BY SessionFields
    <3>2. CASE p.sd \/ p.td
      BY <2>1, <3>1, <3>2
    <3>3. CASE ~(p.sd \/ p.td)
      <4>1. g = Restrict(sub.pending, DOMAIN sub.pending \ {t})
        BY <3>3
      <4> HIDE DEF g
      <4>2. QED BY <4>1 DEF Restrict
    <3>4. QED BY <3>2, <3>3
  <2> HIDE DEF g
  <2>7. \A x \in DOMAIN m : m[x] \in Intents /\ IntentSound(m[x], x, sub.next)
    <3>1. \A x \in DOMAIN sub.intents : /\ sub.intents[x] \in Intents
                                        /\ IntentSound(sub.intents[x], x, sub.next)
      BY SessionFields DEF Current
    <3>2. QED BY <2>1, <2>3, <2>5, <3>1
  <2>8. UpdateSound(p, m[t], sub.next)
    <3>1. CASE mine
      <4>1. Agree(w, i)
        BY <2>1, <3>1 DEF UpdateSound
      <4>2. Agree(p, m[t])
        BY <2>3, <2>4, <2>5, <3>1, <4>1 DEF Agree
      <4>3. QED BY <2>1, <2>4, <4>2 DEF UpdateSound
    <3>2. CASE ~mine
      <4>1. m[t] = i /\ p.rev # i.rev
        BY <2>1, <2>4, <2>5, <3>2
      <4>2. QED BY <2>1, <2>4, <4>1 DEF UpdateSound
    <3>3. QED BY <3>1, <3>2
  <2>9. \A x \in DOMAIN g : /\ x \in DOMAIN m /\ g[x] \in Updates
                            /\ UpdateSound(g[x], m[x], sub.next)
    <3>1. \A x \in DOMAIN sub.pending :
            /\ x \in DOMAIN sub.intents /\ sub.pending[x] \in Updates
            /\ UpdateSound(sub.pending[x], sub.intents[x], sub.next)
      BY SessionFields DEF Current
    <3>2. QED BY <2>4, <2>5, <2>6, <2>8, <3>1
  <2>10. m \in IntentMaps /\ g \in UpdateMaps
    <3>1. m \in [DOMAIN m -> Intents] /\ g \in [DOMAIN g -> Updates]
      BY <2>5, <2>6, <2>7, <2>9
    <3>2. DOMAIN m \subseteq Tracks /\ DOMAIN g \subseteq Tracks
      BY <2>5, <2>6, SessionFields
    <3>3. QED BY <3>1, <3>2, MapsOfIntents, MapsOfUpdates
  <2>11. /\ r \in Sessions /\ r.intents = m /\ r.next = sub.next /\ r.pending = g
         /\ r.session = sub.session /\ r.barrier = sub.barrier
    BY <2>10 DEF Sessions
  <2> HIDE DEF r
  <2>12. Current(r)
    BY <2>7, <2>9, <2>11 DEF Current
  <2>13. Completes(sub, r, run)
    <3>1. ASSUME NEW x \in DOMAIN sub.intents
          PROVE  \/ m[x] = sub.intents[x]
                 \/ /\ x = run.t /\ run.u.sub = sub.intents[x].sub /\ run.u.en = sub.intents[x].en
                    /\ m[x].sub = sub.intents[x].sub /\ m[x].en = sub.intents[x].en
                    /\ run.u.td => m[x].sd = sub.intents[x].sd
                    /\ ~run.u.td => m[x].td = sub.intents[x].td
      <4>1. CASE x # t \/ ~mine
        BY <2>5, <4>1
      <4>2. CASE x = t /\ mine
        <5>1. m[t] = Completed(i, u)
          BY <2>5, <4>2
        <5>2. QED BY <2>1, <2>3, <4>2, <5>1
      <4>3. QED BY <4>1, <4>2
    <3>2. QED BY <2>5, <2>11, <3>1 DEF Completes
  <2>14. QED BY <2>2, <2>11, <2>12, <2>13
<1>3. QED BY <1>1, <1>2

\* A step that takes note of what has been told.
LEMMA ToldStep ==
  ASSUME Inv, Told
  PROVE  Inv'
<1>1. /\ TypeInv /\ RoomInv /\ FreshInv /\ HeardInv /\ PausedInv
      /\ PhaseInv /\ SnapInv /\ RunInv
  BY DEF Inv
<1>2. /\ room' = room /\ ep' = ep /\ snap' = snap /\ link' = link /\ run.pc = "told"
      /\ served' = served /\ behind' = behind /\ run' = [run EXCEPT !.pc = "pick"]
  BY DEF Told
<1>3. Tells(run, sub) /\ ~sub.barrier
  BY <1>1, <1>2 DEF RunInv
<1>4. sub' \in Sessions /\ Current(sub') /\ Completes(sub, sub', run)
  BY <1>1, <1>3, ToldIs DEF TypeInv
<1>5. DOMAIN sub'.intents = DOMAIN sub.intents /\ sub'.barrier = sub.barrier
  BY <1>4 DEF Completes
<1>6. run'.pc = "pick" /\ run' = [d |-> run'.d, pc |-> run'.pc, t |-> run'.t, u |-> run'.u]
  BY <1>1, <1>2 DEF TypeInv
<1>7. TypeInv'
  BY <1>1, <1>2, <1>4, <1>6 DEF TypeInv
<1>8. RoomInv' /\ FreshInv'
  BY <1>1, <1>2, <1>5 DEF RoomInv, FreshInv, Initially, Fresh
<1>9. HeardInv'
  <2>1. SUFFICES ASSUME link = "up", NEW t \in DOMAIN sub.intents
                 PROVE  Heard(sub'.intents[t], served, t)
    BY <1>2, <1>5 DEF HeardInv
  <2> DEFINE i == sub.intents[t]
             j == sub'.intents[t]
  <2>2. Heard(i, served, t)
    BY <1>1, <1>3, <2>1 DEF HeardInv
  <2>3. CASE j = i
    BY <2>2, <2>3
  <2>4. CASE j # i
    <3>1. /\ t = run.t /\ run.u.sub = i.sub /\ run.u.en = i.en
          /\ j.sub = i.sub /\ j.en = i.en
          /\ run.u.td => j.sd = i.sd
          /\ ~run.u.td => j.td = i.td
      BY <1>4, <2>4 DEF Completes
    <3>2. /\ run.u.td => served.en[t] = run.u.en
          /\ ~run.u.td => served.sub[t] = run.u.sub
      BY <1>1, <1>2, <2>1, <3>1 DEF RunInv
    <3>3. /\ i.sd \in BOOLEAN /\ i.td \in BOOLEAN /\ j.sd \in BOOLEAN /\ j.td \in BOOLEAN
          /\ run.u.td \in BOOLEAN
      <4>1. sub \in Sessions /\ run.u \in Updates
        BY <1>1, <1>3 DEF TypeInv, Tells
      <4>2. i \in Intents /\ j \in Intents
        BY <1>4, <1>5, <4>1, SessionFields
      <4>3. QED BY <4>1, <4>2, IntentFields, UpdateFields
    <3> HIDE DEF i, j
    <3>4. Heard(j, served, t)
      <4>1. CASE run.u.td
        BY <2>2, <3>1, <3>2, <3>3, <4>1 DEF Heard
      <4>2. CASE ~run.u.td
        BY <2>2, <3>1, <3>2, <3>3, <4>2 DEF Heard
      <4>3. QED BY <4>1, <4>2
    <3>5. QED BY <3>4 DEF j
  <2>5. QED BY <2>3, <2>4
<1>10. PausedInv' /\ PhaseInv' /\ SnapInv'
  BY <1>1, <1>2, <1>3, <1>5 DEF PausedInv, PhaseInv, SnapInv, Resuming, Rejoining, Rejoined
<1>11. RunInv'
  BY <1>3, <1>5, <1>6 DEF RunInv
<1>12. QED BY <1>7, <1>8, <1>9, <1>10, <1>11 DEF Inv

-----------------------------------------------------------------------------
(* The connection and the server *)

\* Losing the connection: what was not read is unheard, and nothing is
\* claimed of a server that cannot be reached.
LEMMA LoseStep ==
  ASSUME Inv, Lose
  PROVE  Inv'
<1>1. /\ TypeInv /\ RoomInv /\ FreshInv /\ HeardInv /\ PausedInv
      /\ PhaseInv /\ SnapInv /\ RunInv
  BY DEF Inv
<1>2. /\ room' = room /\ sub' = sub /\ ep' = ep /\ snap' = snap /\ run' = run
      /\ link = "up" /\ link' = "closed" /\ behind' = {}
  BY DEF Lose
<1>3. /\ served' \in Servers /\ served'.pubs = served.pubs
      /\ \/ served' = served
         \/ \E v \in behind : served'.sub = v.sub /\ served'.en = v.en
  <2>1. CASE served' = served
    BY <1>1, <2>1 DEF TypeInv
  <2>2. ASSUME NEW v \in behind, served' = [served EXCEPT !.sub = v.sub, !.en = v.en]
        PROVE  /\ served' \in Servers /\ served'.pubs = served.pubs
               /\ served'.sub = v.sub /\ served'.en = v.en
    <3>1. v.sub \in Switches /\ v.en \in Switches /\ served \in Servers
      BY <1>1 DEF TypeInv, Views
    <3>2. QED BY <2>2, <3>1 DEF Servers
  <2>3. QED BY <2>1, <2>2 DEF Lose
<1>4. TypeInv'
  BY <1>1, <1>2, <1>3 DEF TypeInv
<1>5. RoomInv'
  BY <1>1, <1>2, <1>3 DEF RoomInv
<1>6. FreshInv'
  BY <1>1, <1>2, <1>3 DEF FreshInv, Fresh, Initially
<1>7. HeardInv' /\ PausedInv' /\ RunInv'
  BY <1>1, <1>2 DEF HeardInv, PausedInv, RunInv, Tells
<1>8. PhaseInv' /\ SnapInv'
  BY <1>1, <1>2 DEF PhaseInv, SnapInv, Matches
<1>9. QED BY <1>4, <1>5, <1>6, <1>7, <1>8 DEF Inv

\* Others publish or unpublish: only tracks not known yet.
LEMMA PublishStep ==
  ASSUME Inv, Publish
  PROVE  Inv'
<1>1. /\ TypeInv /\ RoomInv /\ FreshInv /\ HeardInv /\ PausedInv
      /\ PhaseInv /\ SnapInv /\ RunInv
  BY DEF Inv
<1>2. /\ room' = room /\ sub' = sub /\ ep' = ep /\ snap' = snap /\ run' = run
      /\ link' = link /\ behind' = behind
  BY DEF Publish
<1>3. /\ served' \in Servers /\ served'.sub = served.sub /\ served'.en = served.en
      /\ AtFirst \cap served'.pubs \subseteq served.pubs
      /\ served.pubs \subseteq served'.pubs \cup AtFirst
  <2>1. ASSUME NEW t \in Tracks \ (served.pubs \cup AtFirst),
               served' = [served EXCEPT !.pubs = @ \cup {t}]
        PROVE  /\ served' \in Servers /\ served'.sub = served.sub /\ served'.en = served.en
               /\ served'.pubs = served.pubs \cup {t}
    BY <1>1, <2>1 DEF TypeInv, Servers
  <2>2. ASSUME NEW t \in served.pubs \cap AtFirst,
               served' = [served EXCEPT !.pubs = @ \ {t}]
        PROVE  /\ served' \in Servers /\ served'.sub = served.sub /\ served'.en = served.en
               /\ served'.pubs = served.pubs \ {t}
    BY <1>1, <2>2 DEF TypeInv, Servers
  <2>3. QED BY <2>1, <2>2 DEF Publish
<1>4. TypeInv'
  BY <1>1, <1>2, <1>3 DEF TypeInv
<1>5. RoomInv'
  BY <1>1, <1>2, <1>3 DEF RoomInv
<1>6. FreshInv'
  BY <1>1, <1>2, <1>3 DEF FreshInv, Fresh, Initially
<1>7. HeardInv' /\ PausedInv' /\ RunInv'
  BY <1>1, <1>2, <1>3 DEF HeardInv, PausedInv, RunInv, Tells, Heard
<1>8. PhaseInv' /\ SnapInv'
  BY <1>1, <1>2, <1>3 DEF PhaseInv, SnapInv, Matches, Initially
<1>9. QED BY <1>4, <1>5, <1>6, <1>7, <1>8 DEF Inv

\* The server has heard a new intent of a track it was told nothing of.
LEMMA NewbornHeard ==
  ASSUME NEW n \in Nat, NEW v, NEW t, Initially(v, t)
  PROVE  Heard(Newborn(n), v, t)
BY NewbornIs DEF Heard, Initially

\* A new intent asks for nothing else than the server does by itself.
LEMMA NewbornUntouched ==
  ASSUME NEW n \in Nat, NEW t
  PROVE  Untouched(Newborn(n), t)
BY NewbornIs DEF Untouched

\* What is published becomes known.
LEMMA UpdateParticipantsStep ==
  ASSUME Inv, UpdateParticipants
  PROVE  Inv'
<1>1. /\ TypeInv /\ RoomInv /\ FreshInv /\ HeardInv /\ PausedInv
      /\ PhaseInv /\ SnapInv /\ RunInv
  BY DEF Inv
<1>2. /\ run.pc = "none" /\ link = "up" /\ room.conn # "Disconnected"
      /\ room' = [room EXCEPT !.pubs = served.pubs]
      /\ sub' = Pruned(Ensured(sub, served.pubs), served.pubs)
      /\ ep' = ep /\ snap' = snap /\ run' = run
      /\ link' = link /\ served' = served /\ behind' = behind
  BY DEF UpdateParticipants, Io
<1>3. /\ room' \in Rooms /\ room'.gen = room.gen /\ room'.inst = room.inst
      /\ room'.conn = room.conn /\ room'.pubs = served.pubs
      /\ served.pubs \subseteq Tracks /\ sub \in Sessions /\ Current(sub)
  <2>1. served.pubs \subseteq Tracks
    BY <1>1 DEF TypeInv, Servers
  <2>2. QED BY <1>1, <1>2, <2>1 DEF TypeInv, Rooms
<1>4. sub' \in Sessions /\ Current(sub') /\ Follows(sub, sub', served.pubs)
  BY <1>2, <1>3, KnownIs
<1>5. /\ room.inst # 0 /\ DOMAIN sub.intents = room.pubs
      /\ AtFirst \cap served.pubs \subseteq room.pubs
      /\ room.pubs \subseteq served.pubs \cup AtFirst
  BY <1>1, <1>2 DEF RoomInv
<1>6. /\ DOMAIN sub'.intents = served.pubs /\ sub'.barrier = sub.barrier
      /\ sub'.session = sub.session /\ sub'.next >= sub.next
      /\ \A t \in served.pubs \cap room.pubs : sub'.intents[t] = sub.intents[t]
      /\ \A t \in served.pubs \ room.pubs :
           sub'.intents[t] = Newborn(sub.next) /\ Initially(served, t) /\ t \in Fresh(room)
      /\ sub.next \in Nat /\ sub'.next \in Nat
  <2>1. \A t \in served.pubs \ room.pubs : t \in Fresh(room)
    BY <1>3, <1>5 DEF Fresh
  <2>2. \A t \in Fresh(room) : Initially(served, t)
    BY <1>1, <1>5 DEF FreshInv
  <2>3. QED BY <1>3, <1>4, <1>5, <2>1, <2>2, SessionFields DEF Follows
<1>7. TypeInv'
  BY <1>1, <1>2, <1>3, <1>4 DEF TypeInv
<1>8. RoomInv'
  BY <1>2, <1>3, <1>5, <1>6 DEF RoomInv
<1>9. Fresh(room') \subseteq Fresh(room)
  BY <1>3, <1>5 DEF Fresh
<1>10. FreshInv'
  BY <1>1, <1>2, <1>3, <1>9 DEF FreshInv, Initially
<1>11. HeardInv'
  <2>1. SUFFICES ASSUME ~sub.barrier, NEW t \in served.pubs
                 PROVE  Heard(sub'.intents[t], served, t)
    BY <1>2, <1>6 DEF HeardInv
  <2>2. CASE t \in room.pubs
    BY <1>1, <1>2, <1>5, <1>6, <2>1, <2>2 DEF HeardInv
  <2>3. CASE t \notin room.pubs
    BY <1>6, <2>3, NewbornHeard
  <2>4. QED BY <2>2, <2>3
<1>12. PausedInv'
  <2>1. SUFFICES ASSUME sub.barrier, NEW t \in served.pubs
                 PROVE  Untouched(sub'.intents[t], t)
    BY <1>6 DEF PausedInv
  <2>2. CASE t \in room.pubs
    BY <1>1, <1>5, <1>6, <2>1, <2>2 DEF PausedInv
  <2>3. CASE t \notin room.pubs
    BY <1>6, <2>3, NewbornUntouched
  <2>4. QED BY <2>2, <2>3
<1>13. PhaseInv'
  <2>1. (ep \in Resuming \ {"resume"} /\ link = "up" =>
           \A t \in Video \cap DOMAIN sub.intents : sub.intents[t].td \/ served.en[t] = TRUE)'
    <3>1. SUFFICES ASSUME ep \in Resuming \ {"resume"}, NEW t \in Video \cap served.pubs
                   PROVE  sub'.intents[t].td \/ served.en[t] = TRUE
      BY <1>2, <1>6
    <3>2. CASE t \in room.pubs
      BY <1>1, <1>2, <1>5, <1>6, <3>1, <3>2 DEF PhaseInv
    <3>3. CASE t \notin room.pubs
      BY <1>6, <3>1, <3>3 DEF Initially
    <3>4. QED BY <3>2, <3>3
  <2>2. (ep \in Rejoined /\ link = "up" => \A t \in Tracks : Initially(served, t))'
    BY <1>1, <1>2 DEF PhaseInv, Initially
  <2>3. ep # "resume"
    BY <1>1, <1>2 DEF PhaseInv
  <2>4. QED BY <1>1, <1>2, <1>3, <1>6, <2>1, <2>2, <2>3 DEF PhaseInv
<1>14. SnapInv'
  <2>1. ASSUME ep \in {"send", "ice"} PROVE Matches(snap, sub', room')
    <3>1. /\ snap.session = sub.session /\ snap.sub \in Switches
          /\ \A t \in DOMAIN snap.revs :
               /\ snap.revs[t] \in Nat /\ snap.revs[t] < sub.next
               /\ t \in DOMAIN sub.intents /\ sub.intents[t].rev = snap.revs[t]
                    => sub.intents[t].sub = snap.sub[t]
          /\ \A t \in DOMAIN sub.intents : sub.intents[t].sd \/ snap.sub[t] = AutoSubscribe
          /\ \A t \in Fresh(room) : snap.sub[t] = AutoSubscribe
      BY <1>1, <2>1 DEF SnapInv, Matches
    <3>2. ASSUME NEW t \in DOMAIN snap.revs
          PROVE  /\ snap.revs[t] \in Nat /\ snap.revs[t] < sub'.next
                 /\ t \in served.pubs /\ sub'.intents[t].rev = snap.revs[t]
                      => sub'.intents[t].sub = snap.sub[t]
      <4>1. snap.revs[t] \in Nat /\ snap.revs[t] < sub.next
        BY <3>1
      <4>2. ASSUME t \in served.pubs, sub'.intents[t].rev = snap.revs[t]
            PROVE  t \in room.pubs
        <5>1. SUFFICES ASSUME t \notin room.pubs PROVE FALSE
          OBVIOUS
        <5>2. sub'.intents[t] = Newborn(sub.next)
          BY <1>6, <4>2, <5>1
        <5>3. sub'.intents[t].rev = sub.next
          BY <1>6, <5>2, NewbornIs
        <5>4. QED BY <1>6, <4>1, <4>2, <5>3
      <4>3. QED BY <1>5, <1>6, <3>1, <4>1, <4>2
    <3>3. ASSUME NEW t \in served.pubs
          PROVE  sub'.intents[t].sd \/ snap.sub[t] = AutoSubscribe
      BY <1>5, <1>6, <3>1
    <3>4. QED BY <1>6, <1>9, <3>1, <3>2, <3>3 DEF Matches
  <2>2. QED BY <1>1, <1>2, <2>1 DEF SnapInv
<1>15. RunInv'
  BY <1>2 DEF RunInv
<1>16. QED BY <1>7, <1>8, <1>10, <1>11, <1>12, <1>13, <1>14, <1>15 DEF Inv

-----------------------------------------------------------------------------
(* Reconnecting *)

\* A resume has a new connection to the same server session, or none.
LEMMA ResumeStep ==
  ASSUME Inv, Resume
  PROVE  Inv'
<1>1. /\ TypeInv /\ RoomInv /\ FreshInv /\ HeardInv /\ PausedInv
      /\ PhaseInv /\ SnapInv /\ RunInv
  BY DEF Inv
<1>2. /\ room' = room /\ sub' = sub /\ snap' = snap /\ run' = run
      /\ served' = served /\ behind' = behind /\ run.pc = "none" /\ ep = "resume"
  BY DEF Resume, Io
<1>3. CASE ep' = "teardown" /\ link' = link
  <2>1. sub \in Sessions
    BY <1>1 DEF TypeInv
  <2>2. Revising
    BY <1>1, <1>2, <1>3, <2>1, SameIntentsRevise
    DEF Revising, Moves, TypeInv, RoomInv, Resuming
  <2>3. QED BY <2>2, RevisingStep
<1>4. CASE ep' = "wait" /\ link' = "up"
  <2>1. sub.barrier /\ \A t \in Video \cap DOMAIN sub.intents : sub.intents[t].td
    BY <1>1, <1>2 DEF PhaseInv, Resuming
  <2>2. TypeInv' /\ RoomInv' /\ FreshInv'
    BY <1>1, <1>2 DEF TypeInv, RoomInv, FreshInv, Fresh, Initially
  <2>3. HeardInv' /\ PausedInv' /\ RunInv'
    BY <1>1, <1>2, <2>1 DEF HeardInv, PausedInv, RunInv
  <2>4. PhaseInv'
    BY <1>1, <1>2, <1>4, <2>1 DEF PhaseInv, Resuming, Rejoining, Rejoined
  <2>5. SnapInv'
    BY <1>4 DEF SnapInv
  <2>6. QED BY <2>2, <2>3, <2>4, <2>5 DEF Inv
<1>5. QED BY <1>3, <1>4 DEF Resume

\* The SyncState that is built says what the intents say.
LEMMA BuildSyncStep ==
  ASSUME Inv, BuildSync
  PROVE  Inv'
<1>1. /\ TypeInv /\ RoomInv /\ FreshInv /\ HeardInv /\ PausedInv
      /\ PhaseInv /\ SnapInv /\ RunInv /\ sub \in Sessions /\ Current(sub)
  BY DEF Inv, TypeInv
<1>2. /\ room' = room /\ sub' = sub /\ run' = run /\ link' = link
      /\ served' = served /\ behind' = behind /\ ep = "sync" /\ ep' = "send"
      /\ snap'.session = sub.session
      /\ snap'.revs = [t \in DOMAIN sub.intents |-> sub.intents[t].rev]
      /\ snap'.sub = [t \in Tracks |-> IF t \in DOMAIN sub.intents \cap room.pubs
                                       THEN sub.intents[t].sub ELSE AutoSubscribe]
  BY DEF BuildSync
<1>3. sub.barrier /\ room.inst # 0 /\ DOMAIN sub.intents = room.pubs
  BY <1>1, <1>2 DEF PhaseInv, Resuming, RoomInv
<1>4. /\ DOMAIN sub.intents \subseteq Tracks
      /\ \A t \in DOMAIN sub.intents :
           /\ sub.intents[t].sub \in BOOLEAN /\ sub.intents[t].rev \in Nat
           /\ sub.intents[t].rev < sub.next
           /\ snap'.revs[t] = sub.intents[t].rev /\ snap'.sub[t] = sub.intents[t].sub
           /\ Untouched(sub.intents[t], t)
      /\ \A t \in Tracks \ room.pubs : snap'.sub[t] = AutoSubscribe
  <2>1. /\ DOMAIN sub.intents \subseteq Tracks
        /\ \A t \in DOMAIN sub.intents :
             /\ sub.intents[t] \in Intents /\ IntentSound(sub.intents[t], t, sub.next)
             /\ Untouched(sub.intents[t], t)
    BY <1>1, <1>3, SessionFields DEF Current, PausedInv
  <2>2. /\ \A t \in DOMAIN sub.intents :
             snap'.revs[t] = sub.intents[t].rev /\ snap'.sub[t] = sub.intents[t].sub
        /\ \A t \in Tracks \ room.pubs : snap'.sub[t] = AutoSubscribe
    BY <1>2, <1>3, <2>1
  <2>3. QED BY <2>1, <2>2, IntentFields DEF IntentSound
<1>5. snap'.sub \in Switches
  BY <1>2, <1>4, AutoIsBoolean DEF Switches
<1>6. TypeInv' /\ RoomInv' /\ FreshInv' /\ HeardInv' /\ PausedInv' /\ RunInv'
  BY <1>1, <1>2 DEF TypeInv, RoomInv, FreshInv, HeardInv, PausedInv, RunInv, Fresh, Initially, Tells
<1>7. PhaseInv'
  BY <1>1, <1>2, <1>3 DEF PhaseInv, Resuming, Rejoining, Rejoined
<1>8. SnapInv'
  <2>1. DOMAIN snap'.revs = DOMAIN sub.intents
    BY <1>2
  <2>2. \A t \in DOMAIN sub.intents : sub.intents[t].sd \/ snap'.sub[t] = AutoSubscribe
    BY <1>4 DEF Untouched
  <2>3. \A t \in Fresh(room) : snap'.sub[t] = AutoSubscribe
    BY <1>4 DEF Fresh
  <2>4. Matches(snap', sub, room)
    BY <1>2, <1>4, <1>5, <2>1, <2>2, <2>3 DEF Matches
  <2>5. QED BY <1>2, <2>4 DEF SnapInv
<1>9. QED BY <1>6, <1>7, <1>8 DEF Inv

\* The server hears the SyncState, or the resume is given up.
LEMMA SendSyncStep ==
  ASSUME Inv, SendSync
  PROVE  Inv'
<1>1. /\ TypeInv /\ RoomInv /\ FreshInv /\ HeardInv /\ PausedInv
      /\ PhaseInv /\ SnapInv /\ RunInv /\ sub \in Sessions
  BY DEF Inv, TypeInv
<1>2. /\ room' = room /\ sub' = sub /\ run' = run /\ link' = link
      /\ ep = "send" /\ run.pc = "none"
  BY DEF SendSync, Io
<1>3. CASE ~(link = "up" /\ snap.session = sub.session)
  <2>1. ep' = "teardown" /\ served' = served /\ behind' = behind
    BY <1>3 DEF SendSync
  <2>2. Revising
    BY <1>1, <1>2, <2>1, SameIntentsRevise
    DEF Revising, Moves, TypeInv, RoomInv, Resuming
  <2>3. QED BY <2>2, RevisingStep
<1>4. CASE link = "up" /\ snap.session = sub.session
  <2> DEFINE old == [sub |-> served.sub, en |-> served.en]
  <2>1. /\ ep' = "ice" /\ snap' = snap
        /\ served' = Took(served, [kind |-> "sync", sub |-> snap.sub])
        /\ behind' = behind \cup {old}
    BY <1>4 DEF SendSync, Write
  <2>2. Matches(snap, sub, room) /\ snap.sub \in Switches /\ sub.barrier /\ room.inst # 0
    BY <1>1, <1>2 DEF SnapInv, Matches, PhaseInv, Resuming
  <2>3. /\ served' \in Servers /\ served'.pubs = served.pubs /\ served'.en = served.en
        /\ served'.sub = snap.sub
    BY <1>1, <2>1, <2>2, TookSync DEF TypeInv
  <2>4. TypeInv'
    BY <1>1, <1>2, <2>1, <2>3, BehindGrows DEF TypeInv
  <2>5. RoomInv'
    BY <1>1, <1>2, <2>1, <2>3 DEF RoomInv
  <2>6. FreshInv'
    <3>1. SUFFICES ASSUME NEW t \in Fresh(room)
                   PROVE  Initially(served', t) /\ \A v \in behind' : Initially(v, t)
      BY <1>2 DEF FreshInv, Fresh
    <3>2. Initially(served, t) /\ \A v \in behind : Initially(v, t)
      BY <1>1, <2>2 DEF FreshInv
    <3>3. Initially(old, t) /\ Initially(served', t)
      BY <2>2, <2>3, <3>2 DEF Initially, Matches
    <3>4. QED BY <2>1, <3>2, <3>3
  <2>7. HeardInv' /\ PausedInv' /\ RunInv'
    BY <1>1, <1>2, <2>2 DEF HeardInv, PausedInv, RunInv
  <2>8. PhaseInv'
    BY <1>1, <1>2, <1>4, <2>1, <2>2, <2>3 DEF PhaseInv, Resuming, Rejoining, Rejoined
  <2>9. SnapInv'
    BY <1>1, <1>2, <2>1, <2>2, <2>3 DEF SnapInv, Matches
  <2>10. QED BY <2>4, <2>5, <2>6, <2>7, <2>8, <2>9 DEF Inv
<1>5. QED BY <1>3, <1>4

\* The end of a resume: what has been made clean the server has heard from
\* the SyncState, since none of it was revised in between.
LEMMA ResumeCommitStep ==
  ASSUME Inv, ResumeCommit
  PROVE  Inv'
<1>1. /\ TypeInv /\ RoomInv /\ FreshInv /\ HeardInv /\ PausedInv
      /\ PhaseInv /\ SnapInv /\ RunInv /\ sub \in Sessions /\ Current(sub)
  BY DEF Inv, TypeInv
<1> DEFINE r == FinishRecovery(sub, snap)
<1>2. /\ run' = run /\ link' = link /\ served' = served /\ behind' = behind
      /\ ep = "ice" /\ run.pc = "none" /\ ep' = "none" /\ Schedule(r)
      /\ room' = [room EXCEPT !.conn = "Connected"]
  BY DEF ResumeCommit, Io
<1>3. sub.barrier /\ room.inst # 0 /\ Matches(snap, sub, room)
  BY <1>1, <1>2 DEF PhaseInv, Resuming, SnapInv
<1>4. /\ room' \in Rooms /\ room'.gen = room.gen /\ room'.inst = room.inst
      /\ room'.pubs = room.pubs
  BY <1>1, <1>2 DEF TypeInv, Rooms
<1>5. r \in Sessions /\ Current(r) /\ Settles(sub, r, snap)
  BY <1>1, <1>3, FinishRecoveryIs DEF Matches
<1> HIDE DEF r
<1>6. sub' \in Sessions /\ Current(sub') /\ Alike(r, sub')
  BY <1>2, <1>5, ScheduleIs
<1>7. Settles(sub, sub', snap)
  BY <1>5, <1>6 DEF Settles, Alike
<1>8. DOMAIN sub'.intents = DOMAIN sub.intents /\ sub'.barrier = FALSE
  BY <1>7 DEF Settles
<1>9. TypeInv'
  BY <1>1, <1>2, <1>4, <1>6 DEF TypeInv
<1>10. RoomInv' /\ FreshInv'
  BY <1>1, <1>2, <1>3, <1>4, <1>8 DEF RoomInv, FreshInv, Fresh, Initially
<1>11. HeardInv'
  <2>1. SUFFICES ASSUME link = "up", NEW t \in DOMAIN sub.intents
                 PROVE  Heard(sub'.intents[t], served, t)
    BY <1>2, <1>8 DEF HeardInv
  <2> DEFINE i == sub.intents[t]
             j == sub'.intents[t]
  <2>2. /\ j.sub = i.sub /\ j.en = i.en /\ j.td = i.td /\ j.rev = i.rev
        /\ \/ j.sd \/ ~i.sd
           \/ t \in DOMAIN snap.revs /\ snap.revs[t] = i.rev
    BY <1>7 DEF Settles
  <2>3. /\ ~i.sd => i.sub = AutoSubscribe
        /\ t \in Video /\ ~i.td => i.en = TRUE
    BY <1>1, <1>3 DEF PausedInv, Untouched
  <2>4. /\ i.sd \/ snap.sub[t] = AutoSubscribe
        /\ t \in DOMAIN snap.revs /\ snap.revs[t] = i.rev => i.sub = snap.sub[t]
        /\ served.sub = snap.sub
    BY <1>1, <1>2, <1>3, <2>1 DEF Matches, SnapInv
  <2>5. t \in Video => i.td \/ served.en[t] = TRUE
    BY <1>1, <1>2, <2>1 DEF PhaseInv, Resuming
  <2> HIDE DEF i, j
  <2>6. ~j.sd => served.sub[t] = j.sub
    BY <2>2, <2>3, <2>4
  <2>7. t \in Video /\ ~j.td => served.en[t] = j.en
    BY <2>2, <2>3, <2>5
  <2>8. QED BY <2>6, <2>7 DEF Heard, j
<1>12. PausedInv' /\ PhaseInv' /\ SnapInv' /\ RunInv'
  BY <1>2, <1>8 DEF PausedInv, PhaseInv, SnapInv, RunInv, Resuming, Rejoining, Rejoined
<1>13. QED BY <1>9, <1>10, <1>11, <1>12 DEF Inv

\* The end of a full restart: what is clean is what the new server session
\* does by itself, which has been told nothing.
LEMMA FinishRestartStep ==
  ASSUME Inv, FinishRestart
  PROVE  Inv'
<1>1. /\ TypeInv /\ RoomInv /\ FreshInv /\ HeardInv /\ PausedInv
      /\ PhaseInv /\ SnapInv /\ RunInv /\ sub \in Sessions /\ Current(sub)
  BY DEF Inv, TypeInv
<1>2. /\ run' = run /\ link' = link /\ served' = served /\ behind' = behind /\ snap' = snap
      /\ ep = "finish" /\ run.pc = "none" /\ room' = room
  BY DEF FinishRestart, Io
<1>3. CASE room.conn # "Connected"
  <2>1. ep' = "orphaned" /\ sub' = sub
    BY <1>3 DEF FinishRestart
  <2>2. Revising
    BY <1>1, <1>2, <2>1, SameIntentsRevise
    DEF Revising, Moves, TypeInv, RoomInv, Resuming, Rejoining
  <2>3. QED BY <2>2, RevisingStep
<1>4. CASE room.conn = "Connected"
  <2> DEFINE r == [sub EXCEPT !.barrier = FALSE]
  <2>1. ep' = "none" /\ Schedule(r)
    BY <1>4 DEF FinishRestart
  <2>2. /\ r \in Sessions /\ r.intents = sub.intents /\ r.pending = sub.pending
        /\ r.next = sub.next /\ r.session = sub.session /\ r.barrier = FALSE
    BY <1>1 DEF Sessions
  <2> HIDE DEF r
  <2>3. Current(r)
    BY <1>1, <2>2 DEF Current
  <2>4. /\ sub' \in Sessions /\ Current(sub') /\ sub'.intents = sub.intents
        /\ sub'.barrier = FALSE
    BY <2>1, <2>2, <2>3, ScheduleIs DEF Alike
  <2>5. sub.barrier
    BY <1>1, <1>2 DEF PhaseInv, Rejoining
  <2>6. TypeInv' /\ RoomInv' /\ FreshInv'
    BY <1>1, <1>2, <2>4 DEF TypeInv, RoomInv, FreshInv, Fresh, Initially
  <2>7. HeardInv'
    <3>1. SUFFICES ASSUME link = "up", NEW t \in DOMAIN sub.intents
                   PROVE  Heard(sub.intents[t], served, t)
      BY <1>2, <2>4 DEF HeardInv
    <3>2. Untouched(sub.intents[t], t) /\ t \in Tracks
      BY <1>1, <2>5, SessionFields DEF PausedInv
    <3>3. Initially(served, t)
      BY <1>1, <1>2, <3>1, <3>2 DEF PhaseInv, Rejoined
    <3>4. QED BY <3>2, <3>3 DEF Heard, Untouched, Initially
  <2>8. PausedInv' /\ PhaseInv' /\ SnapInv' /\ RunInv'
    BY <1>2, <2>1, <2>4 DEF PausedInv, PhaseInv, SnapInv, RunInv, Resuming, Rejoining, Rejoined
  <2>9. QED BY <2>6, <2>7, <2>8 DEF Inv
<1>5. QED BY <1>3, <1>4

\* A step that gives the connection up, and keeps or forgets the intents.
LEMMA UnjoinedStep ==
  ASSUME Inv, Unjoined, run.pc = "none", sub' \in Sessions, Current(sub'),
         sub' = sub \/ sub'.barrier = FALSE,
         \/ ep' \in {"teardown", "joining"} /\ sub.barrier /\ sub' = sub
         \/ ep' = "gone",
         run' = run, served' = served
  PROVE  Inv'
<1>1. /\ TypeInv /\ RoomInv /\ FreshInv /\ HeardInv /\ PausedInv
      /\ PhaseInv /\ SnapInv /\ RunInv /\ sub \in Sessions /\ Current(sub)
  BY DEF Inv, TypeInv
<1>2. /\ room' = [conn |-> "Disconnected", gen |-> room.gen + 1, inst |-> 0, pubs |-> {}]
      /\ link' = "none" /\ behind' = {}
  BY DEF Unjoined
<1>3. TypeInv'
  <2>1. room.gen + 1 \in Nat /\ room.gen + 1 > 0
    BY <1>1 DEF TypeInv, Rooms
  <2>2. room' \in Rooms /\ room'.gen > 0
    BY <1>2, <2>1 DEF Rooms
  <2>3. QED BY <1>1, <1>2, <2>2 DEF TypeInv
<1>4. RoomInv' /\ FreshInv' /\ HeardInv'
  BY <1>2 DEF RoomInv, FreshInv, HeardInv
<1>5. PausedInv'
  BY <1>1 DEF PausedInv
<1>6. PhaseInv'
  BY <1>1, <1>2 DEF PhaseInv, Resuming, Rejoining, Rejoined
<1>7. SnapInv' /\ RunInv'
  BY <1>1 DEF SnapInv, RunInv
<1>8. QED BY <1>3, <1>4, <1>5, <1>6, <1>7 DEF Inv

\* A restart takes the room down, or fails to join.
LEMMA TeardownStep ==
  ASSUME Inv, Teardown \/ JoinFails
  PROVE  Inv'
<1>1. /\ Unjoined /\ run.pc = "none" /\ sub' = sub /\ ep' \in {"teardown", "joining"}
      /\ run' = run /\ served' = served /\ ep \in Rejoining
  BY DEF Teardown, JoinFails, Io, Rejoining
<1>2. sub.barrier /\ sub \in Sessions /\ Current(sub)
  BY <1>1 DEF Inv, TypeInv, PhaseInv
<1>3. QED BY <1>1, <1>2, UnjoinedStep

\* The tries are used up.
LEMMA ExhaustStep ==
  ASSUME Inv, Exhaust
  PROVE  Inv'
<1>1. /\ Unjoined /\ run.pc = "none" /\ sub' = ResetSession(sub) /\ ep' = "gone"
      /\ run' = run /\ served' = served
  BY DEF Exhaust, Io
<1>2. sub \in Sessions
  BY DEF Inv, TypeInv
<1>3. sub' \in Sessions /\ Current(sub') /\ sub'.barrier = FALSE
  BY <1>1, <1>2, ResetSessionIs, ResetIsUnblocked
<1>4. QED BY <1>1, <1>3, UnjoinedStep

\* A join: the server has heard nothing, and everything is dirty that is not
\* what it does by itself.
LEMMA JoinStep ==
  ASSUME Inv, Join
  PROVE  Inv'
<1>1. /\ TypeInv /\ RoomInv /\ FreshInv /\ HeardInv /\ PausedInv
      /\ PhaseInv /\ SnapInv /\ RunInv /\ sub \in Sessions /\ Current(sub)
  BY DEF Inv, TypeInv
<1> DEFINE pubs == served.pubs
           empty == [ResetSession(sub) EXCEPT !.barrier = TRUE]
<1>2. /\ run.pc = "none" /\ ep = "joining" /\ ep' = "joined" /\ run' = run
      /\ room' = [conn |-> "Connecting", gen |-> room.gen + 1,
                  inst |-> room.gen + 1, pubs |-> pubs]
      /\ link' = "up" /\ served' = Unheard(pubs) /\ behind' = {}
      /\ \/ sub' = Pruned(Ensured(sub, pubs), pubs)
         \/ sub' = Pruned(Ensured(empty, pubs), pubs)
  BY DEF Join, Io
<1>3. sub.barrier = TRUE
  BY <1>1, <1>2, SessionFields DEF PhaseInv, Rejoining
<1>4. pubs \subseteq Tracks
  BY <1>1 DEF TypeInv, Servers
<1>5. /\ empty \in Sessions /\ Current(empty) /\ empty.barrier = TRUE
      /\ DOMAIN empty.intents = {}
  BY <1>1, ResetSessionIs
<1> HIDE DEF pubs, empty
<1>6. PICK s : /\ s \in Sessions /\ Current(s) /\ s.barrier = TRUE
               /\ s = sub \/ DOMAIN s.intents = {}
               /\ sub' = Pruned(Ensured(s, pubs), pubs)
  BY <1>1, <1>2, <1>3, <1>5
<1>7. sub' \in Sessions /\ Current(sub') /\ Follows(s, sub', pubs)
  BY <1>4, <1>6, KnownIs
<1>8. sub'.barrier = TRUE /\ DOMAIN sub'.intents = pubs
  BY <1>6, <1>7 DEF Follows
<1>9. /\ served' \in Servers /\ served'.pubs = pubs
      /\ \A t \in Tracks : Initially(served', t)
  BY <1>2, <1>4, UnheardIs
<1>10. /\ room' \in Rooms /\ room'.gen > 0 /\ room'.inst # 0 /\ room'.pubs = pubs
  <2>1. room.gen \in Nat /\ room.gen + 1 \in Nat /\ room.gen + 1 > 0 /\ room.gen + 1 # 0
    BY <1>1 DEF TypeInv, Rooms
  <2>2. QED BY <1>2, <1>4, <2>1 DEF Rooms
<1>11. TypeInv'
  BY <1>1, <1>2, <1>7, <1>9, <1>10 DEF TypeInv
<1>12. RoomInv'
  BY <1>8, <1>9, <1>10 DEF RoomInv
<1>13. FreshInv'
  BY <1>2, <1>9 DEF FreshInv, Fresh
<1>14. HeardInv' /\ SnapInv' /\ RunInv'
  BY <1>2, <1>8 DEF HeardInv, SnapInv, RunInv
<1>15. PausedInv'
  <2>1. SUFFICES ASSUME NEW t \in pubs PROVE Untouched(sub'.intents[t], t)
    BY <1>8 DEF PausedInv
  <2>2. CASE t \in DOMAIN s.intents
    <3>1. s = sub /\ sub'.intents[t] = sub.intents[t]
      BY <1>6, <1>7, <2>2 DEF Follows
    <3>2. QED BY <1>1, <1>3, <2>2, <3>1 DEF PausedInv
  <2>3. CASE t \notin DOMAIN s.intents
    <3>1. sub'.intents[t] = Newborn(s.next) /\ s.next \in Nat
      BY <1>6, <1>7, <2>3, SessionFields DEF Follows
    <3>2. QED BY <3>1, NewbornUntouched
  <2>4. QED BY <2>2, <2>3
<1>16. PhaseInv'
  BY <1>2, <1>8, <1>9 DEF PhaseInv, Resuming, Rejoining, Rejoined
<1>17. QED BY <1>11, <1>12, <1>13, <1>14, <1>15, <1>16 DEF Inv

-----------------------------------------------------------------------------
(* Plans *)

\* A plan, applied or refused, is at most a revision: what PlanDirty leaves
\* out is as the server was told.
LEMMA PlanStep ==
  ASSUME Inv, NEW epoch, Apply(epoch)
  PROVE  /\ sub' \in Sessions /\ Current(sub') /\ Revises(sub, sub')
         /\ sub'.barrier = sub.barrier
<1>1. sub \in Sessions /\ Current(sub) /\ RoomInv /\ room \in Rooms /\ room.gen > 0
  BY DEF Inv, TypeInv
<1>2. CASE ~Accepts(epoch)
  <2>1. sub' = sub
    BY <1>2 DEF Apply
  <2>2. QED BY <1>1, <2>1, SameIntentsRevise
<1>3. CASE Accepts(epoch)
  <2> DEFINE r == Revised(sub, Changed, Selected, PlanDirty)
  <2>1. Schedule(r)
    BY <1>3 DEF Apply
  <2>2. room.inst # 0 /\ strand.known \subseteq room.pubs
    BY <1>1, <1>3 DEF Accepts, Rooms
  <2>3. DOMAIN sub.intents = room.pubs
    BY <1>1, <2>2 DEF RoomInv
  <2>4. Toldable(sub, Changed, Selected, PlanDirty)
    <3>1. Changed \subseteq DOMAIN sub.intents
      BY <2>2, <2>3 DEF Changed
    <3>2. ASSUME NEW t \in Changed \ PlanDirty
          PROVE  /\ ~sub.intents[t].sd
                 /\ sub.intents[t].sub = (t \in Selected) /\ sub.intents[t].sent = (t \in Selected)
      <4>1. /\ ~sub.intents[t].sd
            /\ {sub.intents[t].sub, sub.intents[t].sent} = {t \in Selected}
        BY <3>1, <3>2 DEF PlanDirty
      <4> DEFINE a == sub.intents[t].sub
                 b == sub.intents[t].sent
                 c == t \in Selected
      <4>2. {a, b} = {c}
        BY <4>1
      <4> HIDE DEF a, b, c
      <4>3. a = c /\ b = c
        BY <4>2
      <4>4. QED BY <4>1, <4>3 DEF a, b, c
    <3>3. QED BY <3>1, <3>2 DEF Toldable
  <2>5. r \in Sessions /\ Current(r) /\ Revises(sub, r) /\ r.barrier = sub.barrier
    BY <1>1, <2>4, RevisedIs
  <2> HIDE DEF r
  <2>6. sub' \in Sessions /\ Current(sub') /\ Alike(r, sub')
    BY <2>1, <2>5, ScheduleIs
  <2>7. QED BY <2>5, <2>6, RevisesAndAlike DEF Alike
<1>4. QED BY <1>2, <1>3

\* The steps of the session strand.
LEMMA StrandSteps ==
  ASSUME Inv, StrandStep
  PROVE  Inv'
<1>1. /\ room' = room /\ run' = run /\ ep' = ep /\ snap' = snap /\ link' = link
      /\ served' = served /\ behind' = behind
  BY DEF StrandStep, OnLocal, OnRemote, OnMediaGone, OnView, OnPlan, OnAsk, Strand
<1>2. /\ sub' \in Sessions /\ Current(sub') /\ Revises(sub, sub')
      /\ sub'.barrier = sub.barrier
  <2>1. CASE sub' = sub
    BY <2>1, SameIntentsRevise DEF Inv, TypeInv
  <2>2. CASE \E epoch \in {0, Post.epoch} : Apply(epoch)
    BY <2>2, PlanStep
  <2>3. QED BY <2>1, <2>2 DEF StrandStep, OnLocal, OnRemote, OnMediaGone, OnView, OnPlan, OnAsk
<1>3. Revising
  BY <1>1, <1>2 DEF Inv, TypeInv, RoomInv, Revising, Moves
<1>4. QED BY <1>3, RevisingStep

\* A plan that does not come in time: the videos are turned off.
LEMMA AwaitPlanStep ==
  ASSUME Inv, AwaitPlan
  PROVE  Inv'
<1>1. /\ room' = room /\ run' = run /\ snap' = snap /\ link' = link
      /\ served' = served /\ behind' = behind
      /\ \/ ep = "wait" /\ ep' = "sync"
         \/ ep = "tailwait" /\ ep' = "finish"
  BY DEF AwaitPlan
<1>2. sub \in Sessions /\ Current(sub) /\ RoomInv /\ PhaseInv
  BY DEF Inv, TypeInv
<1>3. /\ sub' \in Sessions /\ Current(sub') /\ Revises(sub, sub')
      /\ sub'.barrier = sub.barrier
  <2> DEFINE held == {t \in Video \cap room.pubs : sub.intents[t].sub \/ sub.intents[t].en}
  <2>1. CASE sub' = sub
    BY <1>2, <2>1, SameIntentsRevise
  <2>2. CASE sub' = Revised(sub, held, {}, HoldDirty)
    <3>1. held \subseteq DOMAIN sub.intents
      BY <1>2 DEF RoomInv
    <3>2. ASSUME NEW t \in held \ HoldDirty
          PROVE  /\ ~sub.intents[t].sd
                 /\ sub.intents[t].sub = (t \in {}) /\ sub.intents[t].sent = (t \in {})
      <4>1. ~sub.intents[t].sd /\ ~sub.intents[t].sent /\ t \in DOMAIN sub.intents
        BY <3>1, <3>2 DEF HoldDirty
      <4>2. /\ sub.intents[t].sub = sub.intents[t].sent
            /\ sub.intents[t].sent \in BOOLEAN
        BY <1>2, <4>1, SessionFields, IntentFields DEF Current, IntentSound
      <4>3. sub.intents[t].sent = FALSE /\ (t \in {}) = FALSE
        BY <4>1, <4>2
      <4>4. QED BY <4>1, <4>2, <4>3
    <3> HIDE DEF held
    <3>3. Toldable(sub, held, {}, HoldDirty)
      BY <3>1, <3>2 DEF Toldable
    <3>4. QED BY <1>2, <2>2, <3>3, RevisedIs
  <2>3. QED BY <2>1, <2>2 DEF AwaitPlan
<1>4. Revising
  BY <1>1, <1>2, <1>3 DEF Inv, TypeInv, RoomInv, Revising, Moves, Rejoined
<1>5. QED BY <1>4, RevisingStep

\* The settings of the subscribed videos are to be told again.
LEMMA OnIceConnectedStep ==
  ASSUME Inv, OnIceConnected
  PROVE  Inv'
<1> DEFINE on == {t \in Video \cap room.pubs : sub.intents[t].sub}
           m == IceMarked(sub, on, demand.active)
<1>1. /\ room' = room /\ run' = run /\ ep' = ep /\ snap' = snap /\ link' = link
      /\ served' = served /\ behind' = behind
      /\ sub' = Queued([sub EXCEPT !.intents = m], on)
  BY DEF OnIceConnected, IceMarked
<1>2. sub \in Sessions /\ Current(sub)
  BY DEF Inv, TypeInv
<1>3. /\ sub' \in Sessions /\ Current(sub') /\ Revises(sub, sub')
      /\ sub'.barrier = sub.barrier
  BY <1>1, <1>2, IceMarkedIs
<1>4. Revising
  BY <1>1, <1>3 DEF Inv, TypeInv, RoomInv, Revising, Moves
<1>5. QED BY <1>4, RevisingStep

-----------------------------------------------------------------------------
(* The other steps, and the theorems *)

\* The steps of the reconnecting coroutine that change its place only.
LEMMA OtherEpisodeSteps ==
  ASSUME Inv, ResumeFails \/ ConnectCommit \/ BeginTail \/ RestartFails
  PROVE  Inv'
<1>1. /\ run' = run /\ link' = link /\ served' = served /\ behind' = behind
      /\ snap' = snap \/ ep' = "teardown"
  BY DEF ResumeFails, ConnectCommit, BeginTail, RestartFails
<1>2. sub \in Sessions /\ Current(sub) /\ RoomInv /\ room \in Rooms /\ room.gen > 0
  BY DEF Inv, TypeInv
<1>3. /\ sub' \in Sessions /\ Current(sub') /\ Revises(sub, sub')
      /\ sub'.barrier = sub.barrier
  <2>1. CASE sub' = sub
    BY <1>2, <2>1, SameIntentsRevise
  <2>2. CASE Schedule(sub)
    BY <1>2, <2>2, ScheduleIs, SameIntentsRevise DEF Alike
  <2>3. QED BY <2>1, <2>2 DEF ResumeFails, ConnectCommit, BeginTail, RestartFails
<1>4. /\ room' \in Rooms /\ room'.gen > 0 /\ room'.inst = room.inst /\ room'.pubs = room.pubs
      /\ room.inst = 0 => room'.conn = "Disconnected"
  <2>1. CASE room' = room
    BY <1>2, <2>1 DEF RoomInv
  <2>2. CASE room.conn = "Connecting" /\ room' = [room EXCEPT !.conn = "Connected"]
    BY <1>2, <2>2 DEF RoomInv, Rooms
  <2>3. QED BY <2>1, <2>2 DEF ResumeFails, ConnectCommit, BeginTail, RestartFails
<1>5. Moves(ep, ep')
  BY DEF ResumeFails, ConnectCommit, BeginTail, RestartFails, Moves, Resuming, Rejoining, Rejoined
<1>6. Revising
  BY <1>1, <1>3, <1>4, <1>5 DEF Revising
<1>7. QED BY <1>6, RevisingStep

\* Both ways to begin to reconnect pause the sender.
LEMMA PauseStep ==
  ASSUME Inv, run.pc = "none", room.conn = "Connected",
         room' = [room EXCEPT !.conn = "Reconnecting"],
         sub' = PauseSending(sub, room.pubs),
         \/ ep' = ep \/ ep' = "teardown"
         \/ ep' = "resume" /\ link' = "dead",
         link' = link \/ link' = "dead",
         UNCHANGED <<run, served, behind, snap>>
  PROVE  Inv'
<1>1. /\ sub \in Sessions /\ Current(sub) /\ RoomInv /\ room \in Rooms /\ room.gen > 0
  BY DEF Inv, TypeInv
<1>2. room.inst # 0 /\ DOMAIN sub.intents = room.pubs
  BY <1>1 DEF RoomInv
<1>3. /\ sub' \in Sessions /\ Current(sub') /\ Revises(sub, sub') /\ sub'.barrier
      /\ \A t \in DOMAIN sub'.intents : /\ sub'.intents[t].sd
                                        /\ t \in Video => sub'.intents[t].td
  BY <1>1, <1>2, PauseSendingIs
<1>4. /\ room' \in Rooms /\ room'.gen = room.gen /\ room'.inst = room.inst
      /\ room'.pubs = room.pubs
  BY <1>1 DEF Rooms
<1>5. Pausing
  BY <1>1, <1>2, <1>3, <1>4 DEF Pausing
<1>6. QED BY <1>5, PausingStep

\* The connection closes.
LEMMA HandleCloseStep ==
  ASSUME Inv, HandleClose
  PROVE  Inv'
<1>1. /\ run.pc = "none" /\ link' = "dead" /\ run' = run /\ served' = served
      /\ behind' = behind /\ snap' = snap
  BY DEF HandleClose, Io
<1>2. CASE room.conn = "Connected"
  <2>1. /\ room' = [room EXCEPT !.conn = "Reconnecting"]
        /\ sub' = PauseSending(sub, room.pubs)
        /\ ep' = ep \/ ep' = "resume"
    BY <1>2 DEF HandleClose
  <2>2. QED BY <1>1, <1>2, <2>1, PauseStep
<1>3. CASE room.conn # "Connected"
  <2>1. /\ sub' = sub /\ ep' = ep
        /\ \/ room' = room
           \/ room' = [room EXCEPT !.conn = "Disconnected", !.gen = @ + 1]
    BY <1>3 DEF HandleClose
  <2>2. sub \in Sessions /\ Current(sub) /\ RoomInv /\ room \in Rooms /\ room.gen > 0
    BY DEF Inv, TypeInv
  <2>3. /\ room' \in Rooms /\ room'.gen > 0 /\ room'.inst = room.inst
        /\ room'.pubs = room.pubs /\ (room.inst = 0 => room'.conn = "Disconnected")
    <3>1. CASE room' = room
      BY <2>2, <3>1 DEF RoomInv
    <3>2. CASE room' = [room EXCEPT !.conn = "Disconnected", !.gen = @ + 1]
      <4>1. room.gen \in Nat /\ room.gen + 1 \in Nat /\ room.gen + 1 > 0
        BY <2>2 DEF Rooms
      <4>2. QED BY <2>2, <3>2, <4>1 DEF Rooms
    <3>3. QED BY <2>1, <3>1, <3>2
  <2>4. Revising
    BY <1>1, <2>1, <2>2, <2>3, SameIntentsRevise DEF Revising, Moves
  <2>5. QED BY <2>4, RevisingStep
<1>4. QED BY <1>2, <1>3

\* The server asks for a full restart.
LEMMA ServerAsksRestartStep ==
  ASSUME Inv, ServerAsksRestart
  PROVE  Inv'
<1>1. /\ run.pc = "none" /\ room.conn = "Connected"
      /\ room' = [room EXCEPT !.conn = "Reconnecting"]
      /\ sub' = PauseSending(sub, room.pubs) /\ ep' = "teardown" /\ link' = link
      /\ UNCHANGED <<run, served, behind, snap>>
  BY DEF ServerAsksRestart, Io
<1>2. QED BY <1>1, PauseStep

\* The view changes, which is only posted.
LEMMA ViewStep ==
  ASSUME Inv, ViewChanges
  PROVE  Inv'
<1>1. UNCHANGED <<room, sub, run, ep, snap, link, served, behind>>
  BY DEF ViewChanges
<1>2. Revising
  BY <1>1, SameIntentsRevise DEF Inv, TypeInv, RoomInv, Revising, Moves
<1>3. QED BY <1>2, RevisingStep

\* The steps of a drain.
LEMMA DrainSteps ==
  ASSUME Inv, DrainStep
  PROVE  Inv'
<1>1. ASSUME NEW d \in drains, Start(d) PROVE Inv'
  <2>1. CASE Owns(d)
    <3>1. Take(d) /\ ~sub.barrier
      BY <1>1, <2>1 DEF Start, Owns
    <3>2. QED BY <3>1, TakeStep
  <2>2. CASE ~Owns(d)
    <3>1. UNCHANGED <<room, sub, run, ep, snap, link, served, behind>>
      BY <1>1, <2>2 DEF Start
    <3>2. Revising
      BY <3>1, SameIntentsRevise DEF Inv, TypeInv, RoomInv, Revising, Moves
    <3>3. QED BY <3>2, RevisingStep
  <2>3. QED BY <2>1, <2>2
<1>2. ASSUME Pick PROVE Inv'
  <2>1. Take(run.d) /\ ~sub.barrier
    BY <1>2 DEF Pick, Inv, RunInv
  <2>2. QED BY <2>1, TakeStep
<1>3. QED BY <1>1, <1>2, TellStep, ToldStep DEF DrainStep

\* After the first join the invariant holds: nothing has been told.
LEMMA InitInv == Init => Inv
<1> SUFFICES ASSUME Init PROVE Inv
  OBVIOUS
<1> DEFINE s == [session |-> 1, barrier |-> FALSE, active |-> FALSE, op |-> 0,
                 next |-> 1, intents |-> <<>>, pending |-> <<>>]
           m == [t \in AtFirst |-> Newborn(1)]
           n == IF AtFirst = {} THEN 1 ELSE 2
<1>1. AtFirst \subseteq Tracks /\ DOMAIN <<>> = {} /\ sub = Ensured(s, AtFirst)
  BY SubscriptionsAssumption DEF Init
<1>2. sub = [s EXCEPT !.intents = m, !.next = n]
  <2>1. DOMAIN s.intents = {} /\ s.next = 1
    BY <1>1
  <2>2. AtFirst \ DOMAIN s.intents = AtFirst
    BY <2>1
  <2>3. DOMAIN s.intents \cup AtFirst = AtFirst
    BY <2>1
  <2>4. [t \in DOMAIN s.intents \cup AtFirst |->
           IF t \in AtFirst THEN Newborn(1) ELSE s.intents[t]] = m
    BY <2>3
  <2>5. s.next + 1 = 2
    BY <2>1
  <2> HIDE DEF m
  <2>6. QED BY <1>1, <2>1, <2>2, <2>4, <2>5 DEF Ensured, Newborn
<1>3. <<>> \in UpdateMaps
  <2>1. <<>> = [t \in {} |-> 0]
    OBVIOUS
  <2>2. <<>> \in [{} -> Updates]
    BY <2>1
  <2>3. QED BY <1>1, <2>2, MapsOfUpdates
<1>4. /\ DOMAIN m = AtFirst /\ m = [t \in DOMAIN m |-> m[t]]
      /\ \A t \in AtFirst : m[t] = Newborn(1)
  OBVIOUS
<1>5. n \in Nat /\ (AtFirst # {} => n = 2)
  OBVIOUS
<1> HIDE DEF m, n
<1>6. \A t \in AtFirst : /\ m[t] \in Intents /\ IntentSound(m[t], t, 2)
                         /\ Heard(m[t], served, t)
  <2>1. served = Unheard(AtFirst)
    BY DEF Init
  <2>2. \A t \in AtFirst : Initially(served, t)
    BY <1>1, <2>1, UnheardIs
  <2>3. 1 \in Nat /\ 1 + 1 = 2
    OBVIOUS
  <2>4. \A t \in AtFirst : t \in Tracks /\ m[t] = Newborn(1)
    BY <1>1, <1>4
  <2>5. \A t \in AtFirst : m[t] \in Intents /\ IntentSound(m[t], t, 2)
    BY <2>3, <2>4, NewbornIs
  <2>6. \A t \in AtFirst : Heard(m[t], served, t)
    BY <2>2, <2>3, <2>4, NewbornHeard
  <2>7. QED BY <2>5, <2>6
<1>7. m \in IntentMaps
  <2>1. m \in [DOMAIN m -> Intents]
    BY <1>4, <1>6
  <2>2. QED BY <1>1, <1>4, <2>1, MapsOfIntents
<1>8. /\ sub \in Sessions /\ sub.intents = m /\ sub.pending = <<>> /\ sub.barrier = FALSE
      /\ sub.next = n
  BY <1>2, <1>3, <1>5, <1>7 DEF Sessions
<1>9. Current(sub)
  BY <1>1, <1>4, <1>5, <1>6, <1>8 DEF Current
<1>10. served \in Servers /\ served.pubs = AtFirst /\ \A t \in Tracks : Initially(served, t)
  BY <1>1, UnheardIs DEF Init
<1>11. /\ room = [conn |-> "Connected", gen |-> 1, inst |-> 1, pubs |-> AtFirst]
       /\ behind = {} /\ run = NoRun /\ ep = "none"
  BY DEF Init
<1>12. TypeInv
  BY <1>1, <1>8, <1>9, <1>10, <1>11 DEF TypeInv, Rooms, NoRun
<1>13. RoomInv /\ FreshInv
  BY <1>4, <1>8, <1>10, <1>11 DEF RoomInv, FreshInv, Fresh
<1>14. HeardInv /\ PausedInv
  BY <1>4, <1>6, <1>8 DEF HeardInv, PausedInv
<1>15. PhaseInv /\ SnapInv /\ RunInv
  BY <1>11 DEF PhaseInv, SnapInv, RunInv, NoRun, Resuming, Rejoining, Rejoined
<1>16. QED BY <1>12, <1>13, <1>14, <1>15 DEF Inv

\* Every step keeps the invariant.
LEMMA InvStep == Inv /\ [Next]_vars => Inv'
<1> SUFFICES ASSUME Inv, [Next]_vars PROVE Inv'
  OBVIOUS
<1>1. CASE EpisodeStep
  BY <1>1, ResumeStep, AwaitPlanStep, BuildSyncStep, SendSyncStep, ResumeCommitStep,
     OtherEpisodeSteps, TeardownStep, JoinStep, FinishRestartStep, ExhaustStep
  DEF EpisodeStep
<1>2. CASE UNCHANGED vars
  <2>1. UNCHANGED <<room, sub, run, ep, snap, link, served, behind>>
    BY <1>2 DEF vars
  <2>2. Revising
    BY <2>1, SameIntentsRevise DEF Inv, TypeInv, RoomInv, Revising, Moves
  <2>3. QED BY <2>2, RevisingStep
<1>3. QED
  BY <1>1, <1>2, StrandSteps, DrainSteps, HandleCloseStep, ViewStep, LoseStep, PublishStep,
     UpdateParticipantsStep, ServerAsksRestartStep, OnIceConnectedStep
  DEF Next

\* No step but Tell takes the drain from an update it is to tell to one it
\* has told: the handlers wait for the drain, the others leave it alone.
LEMMA OnlyTellTells == Next /\ run.pc = "tell" /\ run'.pc = "told" => Tell
<1> SUFFICES ASSUME Next, run.pc = "tell", run'.pc = "told" PROVE Tell
  OBVIOUS
<1>1. ~Io /\ run' # run
  BY DEF Io
<1>2. ~StrandStep
  BY <1>1 DEF StrandStep, OnLocal, OnRemote, OnMediaGone, OnView, OnPlan, OnAsk, Strand
<1>3. ~EpisodeStep
  BY <1>1 DEF EpisodeStep, Resume, AwaitPlan, BuildSync, SendSync, ResumeCommit, ResumeFails,
     Teardown, Join, JoinFails, ConnectCommit, BeginTail, FinishRestart, RestartFails, Exhaust
<1>4. ~HandleClose /\ ~ServerAsksRestart /\ ~UpdateParticipants /\ ~OnIceConnected
  BY <1>1 DEF HandleClose, ServerAsksRestart, UpdateParticipants, OnIceConnected
<1>5. ~ViewChanges /\ ~Lose /\ ~Publish
  BY <1>1 DEF ViewChanges, Lose, Publish
<1>6. ~(\E d \in drains : Start(d)) /\ ~Pick /\ ~Told
  BY <1>1 DEF Start, Pick, Told
<1>7. QED BY <1>2, <1>3, <1>4, <1>5, <1>6 DEF Next, DrainStep

\* What the room believes it has told, the server will have heard: while the
\* room is connected and may send, a clean intent (subscription_dirty and
\* settings_dirty of room.cpp) is what the server has, whatever was lost,
\* resumed, restarted or revised meanwhile.
THEOREM TellingIsBelieved == Spec => []CleanMeansTold
<1>1. Inv => CleanMeansTold
  <2>1. SUFFICES ASSUME Inv, room.conn = "Connected", ~sub.barrier, link = "up",
                        NEW t \in room.pubs
                 PROVE  /\ ~sub.intents[t].sd => served.sub[t] = sub.intents[t].sub
                        /\ t \in Video /\ ~sub.intents[t].td
                             => served.en[t] = sub.intents[t].en
    BY DEF CleanMeansTold
  <2>2. t \in DOMAIN sub.intents
    BY <2>1 DEF Inv, RoomInv
  <2>3. Heard(sub.intents[t], served, t)
    BY <2>1, <2>2 DEF Inv, HeardInv
  <2>4. QED BY <2>3 DEF Heard
<1>2. QED BY <1>1, InitInv, InvStep, PTL DEF Spec

\* A drain tells that a video is on only when the server has its settings: no
\* video starts with the settings of an older wish.
THEOREM SettingsComeFirst == Spec => SettingsFirst
<1>1. Inv /\ [Next]_vars
        => [(/\ run.pc = "tell" /\ run'.pc = "told"
             /\ Message.kind = "subscription" /\ Message.on /\ run.t \in Video)
                => served.en[run.t] = run.u.en]_vars
  <2>1. SUFFICES ASSUME Inv, Next, run.pc = "tell", run'.pc = "told",
                        Message.kind = "subscription", run.t \in Video
                 PROVE  served.en[run.t] = run.u.en
    BY DEF Message
  <2>2. ~run.u.td
    BY <2>1 DEF Message
  <2>3. link = "up"
    BY <2>1, OnlyTellTells DEF Tell, NoRun
  <2>4. QED BY <2>1, <2>2, <2>3 DEF Inv, RunInv
<1>2. QED BY <1>1, InitInv, InvStep, PTL DEF Spec, SettingsFirst
=============================================================================
