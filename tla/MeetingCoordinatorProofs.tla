---------------------- MODULE MeetingCoordinatorProofs ----------------------
(***************************************************************************)
(* Proofs about MeetingCoordinator, for any number of admissions, of       *)
(* interruptions and of cleanups that fail: two sessions are never alive   *)
(* together, and a meeting that is being left does not come back.          *)
(*                                                                         *)
(* The handlers are functions of the coordinator's fields, so there are    *)
(* two layers: lemmas about what each function does to the fields          *)
(* (Moves), and one step that combines a move with the posts, the jobs and *)
(* the rooms.                                                              *)
(***************************************************************************)
EXTENDS MeetingCoordinator, TLAPS

Kinds == {"none", "begin", "left", "disconnected", "kicked", "failed", "invalidated"}
Completions == [kind : Kinds, admission : Nat, session : Nat]
Fields ==
    [state : States, stage : Stages, admission : Nat, invalidated : BOOLEAN,
     joins : 0..MaxJoins, session : Nat, begun : SUBSET Nat,
     running : BOOLEAN, owned : BOOLEAN, gate : Nat,
     committed : BOOLEAN, reconnect : BOOLEAN,
     stopping : BOOLEAN, serial : Nat, completion : Completions]
SessionPosts == {"connected", "ready", "failed", "reconnecting", "reconnected",
                 "replaced", "disconnected", "duplicate"}
Messages == [kind : SessionPosts \cup {"stopped"}, session : Nat, serial : Nat]
RoomStates == {"connecting", "refused", "up", "reconnecting", "silent", "lost", "freed"}

\* The stages in which an admission has no session yet.
Asking == {"Joining", "Creating", "FetchingToken", "ReadyToStart"}

-----------------------------------------------------------------------------
(* The invariant *)

\* What every function of the fields relies on: the flags of a session go
\* together, a stop is asked for by somebody who has given up the session, and the
\* number of an admission that has no session is new.
Core(c) ==
    /\ c \in Fields
    /\ c.running = c.owned
    /\ c.owned => ~c.stopping /\ c.stage \in {"Consumed", "None"}
    /\ \A s \in c.begun : 1 <= s /\ s <= c.joins
    /\ c.stage \in Asking \cup {"Starting"} => c.joins # 0 /\ c.joins \notin c.begun

\* What holds between two handlers only: a handler that leaves shows Leaving before it
\* gives the session up.
Calm(c) ==
    /\ c.owned => c.state \notin {"Idle", "Failed", "Leaving"}
    /\ c.state = "Leaving" =>
           c.stage \in {"None", "Consumed"} /\ c.completion.kind # "begin"

\* Nobody should be in a meeting.
Vacant(c) == c.state \in {"Idle", "Failed"} \/ c.stage \in Asking

IsStopped(i) == posts[i].kind = "stopped"

\* A stop that is pending is in one place: with the worker, among the posts,
\* or with the owners of a cleanup that failed.
StopToken ==
    /\ \A j \in jobs : j.serial = ui.serial /\ \A k \in jobs : k = j
    /\ \A i \in 1..Len(posts) : IsStopped(i) =>
           /\ posts[i].serial = ui.serial
           /\ \A k \in 1..Len(posts) : IsStopped(k) => k = i
    /\ \A r \in retained : r <= ui.serial
    /\ jobs # {} =>
           /\ ui.stopping /\ ui.serial \notin retained
           /\ \A i \in 1..Len(posts) : ~IsStopped(i)
    /\ \A i \in 1..Len(posts) : IsStopped(i) => ui.stopping /\ ui.serial \notin retained
    /\ ~ui.stopping => ui.serial \notin retained

\* A session that is alive is the coordinator's, or that of the stop.
Carried ==
    \A s \in Sessions : Alive(s) =>
        /\ ui.session = s
        /\ \/ ui.owned
           \/ ui.stopping /\ ((\E j \in jobs : j.session = s) \/ ui.serial \in retained)

\* What is owned, or is to be cleaned up, has not been freed.
Held ==
    /\ \A s \in Sessions : s \notin ui.begun => room[s] # "freed"
    /\ ui.owned => ui.session \in Sessions /\ Alive(ui.session)
    /\ \A j \in jobs : j.session # 0 => j.session \in Sessions /\ Alive(j.session)

NoneWhenVacant == Vacant(ui) => \A s \in Sessions : ~Alive(s)

\* The types, of what the proof needs them for.
Typing ==
    /\ http \subseteq [stage : {"Joining", "Creating", "FetchingToken"}, admission : Nat]
    /\ posts \in Seq(Messages)
    /\ room \in [Sessions -> RoomStates]
    /\ jobs \subseteq [session : Nat, serial : Nat]
    /\ retained \subseteq Nat

SessionInv ==
    /\ Core(ui) /\ Calm(ui) /\ Typing
    /\ StopToken /\ Carried /\ Held /\ NoneWhenVacant

-----------------------------------------------------------------------------
(* What a function of the fields may do *)

Same(c, d) ==
    /\ d.owned = c.owned /\ d.session = c.session /\ d.begun = c.begun
    /\ d.stopping = c.stopping /\ d.serial = c.serial
StopsJob(c, d) ==
    /\ ~c.stopping /\ d.stopping /\ ~d.owned
    /\ d.serial = c.serial + 1 /\ d.session = c.session /\ d.begun = c.begun
StopsNothing(c, d) ==
    /\ ~c.stopping /\ ~c.owned /\ ~d.stopping /\ ~d.owned
    /\ d.serial = c.serial + 1 /\ d.session = c.session /\ d.begun = c.begun
Begins(c, d) ==
    /\ ~c.stopping /\ ~c.owned /\ ~d.stopping /\ d.owned
    /\ d.serial \in {c.serial, c.serial + 1}
    /\ d.session \in Sessions /\ d.session \notin c.begun
    /\ d.begun = c.begun \cup {d.session}

Moves(c, d) ==
    /\ Same(c, d) \/ StopsJob(c, d) \/ StopsNothing(c, d) \/ Begins(c, d)
    /\ Vacant(d) => Vacant(c) \/ (~d.owned /\ ~d.stopping)
    /\ c.state = "Leaving" => d.state \in {"Leaving", "Idle", "Failed"}

\* A handler that meets the invariant leaves it, by one of the moves.
Does(c, d) == Core(d) /\ Calm(d) /\ Moves(c, d)

\* beginRoomSession begins the session of its admission or nothing.
LEMMA BeginMoves ==
    ASSUME NEW c, Core(c), Calm(c), ~c.stopping, ~c.owned, NEW a \in Nat
    PROVE  LET d == BeginRoomSession(c, a)
           IN  Does(c, d) /\ d.serial = c.serial
<1> DEFINE d == BeginRoomSession(c, a)
<1>1. CASE ~Current(c, a, "Starting")
  <2>1. d = c
    BY <1>1 DEF BeginRoomSession
  <2> QED
    BY <2>1 DEF Does, Moves, Same
<1>2. CASE Current(c, a, "Starting")
  <2>1. c.stage = "Starting" /\ c \in Fields /\ c.joins \in Sessions
    BY <1>2, CoordinatorAssumption DEF Current, Core, Fields, Asking, Sessions
  <2>2. d = [c EXCEPT !.state = "ConnectingRoom", !.stage = "Consumed",
                      !.committed = FALSE, !.reconnect = FALSE,
                      !.running = TRUE, !.owned = TRUE,
                      !.session = c.joins, !.gate = c.joins,
                      !.begun = @ \cup {c.joins}]
    BY <1>2 DEF BeginRoomSession
  <2>3. /\ d.state = "ConnectingRoom" /\ d.stage = "Consumed" /\ d.joins = c.joins
        /\ d.running = TRUE /\ d.owned = TRUE /\ d.stopping = c.stopping
        /\ d.session = c.joins /\ d.begun = c.begun \cup {c.joins}
        /\ d.serial = c.serial
    BY <2>1, <2>2 DEF Fields
  <2>8. c.joins \in Nat /\ c.begun \cup {c.joins} \in SUBSET Nat
    BY <2>1 DEF Fields, Sessions
  <2>9. d \in Fields
    BY <2>1, <2>2, <2>8 DEF Fields, States, Stages
  <2>4. Core(d)
    <3> HIDE DEF d
    <3>1. \A s \in d.begun : 1 <= s /\ s <= d.joins
      BY <2>1, <2>3, <2>8 DEF Core, Asking
    <3>2. d.owned => ~d.stopping /\ d.stage \in {"Consumed", "None"}
      BY <2>3
    <3> QED
      BY <2>3, <2>9, <3>1, <3>2 DEF Core, Asking
  <2>5. Calm(d)
    BY <2>3 DEF Calm
  <2>6. Begins(c, d) /\ d.serial = c.serial
    BY <2>1, <2>3 DEF Begins, Core, Asking
  <2>7. Moves(c, d)
    BY <2>1, <2>3, <2>6 DEF Moves, Vacant, Asking, Calm
  <2> QED
    BY <2>4, <2>5, <2>6, <2>7 DEF Does
<1> QED
  BY <1>1, <1>2

\* What a completion that is not a new session changes is the state.
LEMMA CompleteMoves ==
    ASSUME NEW c, Core(c), Calm(c), ~c.stopping, ~c.owned, NEW k \in Completions
    PROVE  LET d == Complete(c, k)
           IN  Does(c, d) /\ d.serial = c.serial
<1> DEFINE d == Complete(c, k)
<1> SUFFICES Does(c, d) /\ d.serial = c.serial
  OBVIOUS
<1>0. k.admission \in Nat
  BY DEF Completions
<1>1. CASE k.kind = "begin"
  BY <1>0, <1>1, BeginMoves DEF Complete
<1>2. CASE k.kind # "begin" /\ ~Lands(c, k)
  <2>1. d = c
    BY <1>2 DEF Complete
  <2> QED
    BY <2>1 DEF Does, Moves, Same
<1>3. CASE k.kind # "begin" /\ Lands(c, k)
  <2>1. PICK st \in {"Idle", "Failed"} : d = [c EXCEPT !.state = st]
    BY <1>3 DEF Complete
  <2>2. Core(d)
    BY <2>1 DEF Core, Fields, States
  <2>3. Calm(d) /\ Same(c, d) /\ ~d.owned /\ ~d.stopping /\ d.state = st
    BY <2>1 DEF Core, Fields, Calm, Same
  <2> QED
    <3> HIDE DEF d
    <3> QED
      BY <2>1, <2>2, <2>3 DEF Does, Moves
<1> HIDE DEF d
<1> QED
  BY <1>1, <1>2, <1>3

\* A stop waits for the one that is pending, has a job for the worker, or is
\* through at once.
LEMMA StopMoves ==
    ASSUME NEW c, Core(c), NEW k \in Completions, NEW held \in BOOLEAN,
           c.state = "Leaving" => c.stage \in {"None", "Consumed"} /\ k.kind # "begin"
    PROVE  Does(c, StopRoomSession(c, k, held))
<1> DEFINE d == StopRoomSession(c, k, held)
           Stop(b, l) == [c EXCEPT !.completion = l, !.committed = FALSE,
                                   !.reconnect = FALSE, !.running = FALSE,
                                   !.owned = FALSE, !.gate = 0,
                                   !.serial = @ + 1, !.stopping = b]
<1>0. c \in Fields /\ NoCompletion \in Completions /\ NoCompletion.kind = "none"
  BY DEF Core, NoCompletion, Completions, Kinds
<1>4. ASSUME NEW b \in BOOLEAN, NEW l \in Completions
      PROVE  /\ Core(Stop(b, l))
             /\ Stop(b, l).owned = FALSE /\ Stop(b, l).stopping = b
             /\ Stop(b, l).state = c.state /\ Stop(b, l).stage = c.stage
             /\ Stop(b, l).serial = c.serial + 1 /\ Stop(b, l).completion = l
             /\ Stop(b, l).session = c.session /\ Stop(b, l).begun = c.begun
  <2>1. /\ Stop(b, l).owned = FALSE /\ Stop(b, l).stopping = b
        /\ Stop(b, l).running = FALSE /\ Stop(b, l).joins = c.joins
        /\ Stop(b, l).state = c.state /\ Stop(b, l).stage = c.stage
        /\ Stop(b, l).serial = c.serial + 1 /\ Stop(b, l).completion = l
        /\ Stop(b, l).session = c.session /\ Stop(b, l).begun = c.begun
    BY <1>0 DEF Fields
  <2>2. Stop(b, l) \in Fields
    <3>1. PICK n \in Nat : n = c.serial + 1
      BY <1>0 DEF Fields
    <3>2. [c EXCEPT !.completion = l, !.committed = FALSE, !.reconnect = FALSE,
                    !.running = FALSE, !.owned = FALSE, !.gate = 0,
                    !.serial = n, !.stopping = b] \in Fields
      BY <1>0, <1>4, <3>1 DEF Fields
    <3> QED
      BY <3>1, <3>2
  <2> HIDE DEF Stop
  <2> QED
    BY <2>1, <2>2 DEF Core
<1>1. CASE c.stopping
  <2>1. d = [c EXCEPT !.completion = k]
    BY <1>1, <1>0 DEF StopRoomSession, Fields
  <2>2. /\ d \in Fields /\ d.completion = k
        /\ d.running = c.running /\ d.owned = c.owned /\ d.stopping = c.stopping
        /\ d.stage = c.stage /\ d.state = c.state /\ d.joins = c.joins
        /\ d.begun = c.begun /\ d.session = c.session /\ d.serial = c.serial
    BY <2>1, <1>0 DEF Fields
  <2>3. Core(d)
    BY <2>2 DEF Core
  <2>4. Calm(d) /\ Same(c, d)
    BY <2>2, <1>1 DEF Calm, Same, Core
  <2> QED
    BY <2>2, <2>3, <2>4 DEF Does, Moves, Vacant
<1>2. CASE ~c.stopping /\ (c.owned \/ held)
  <2>1. d = Stop(TRUE, k)
    <3>1. (c.owned \/ held) = TRUE
      BY <1>2, <1>0 DEF Fields
    <3> QED
      BY <1>2, <1>0, <3>1 DEF StopRoomSession, Fields
  <2> HIDE DEF Stop, d
  <2>3. /\ Core(d) /\ ~d.owned /\ d.stopping /\ d.state = c.state /\ d.stage = c.stage
        /\ d.serial = c.serial + 1 /\ d.session = c.session /\ d.begun = c.begun
        /\ d.completion = k
    BY <2>1, <1>4, TRUE \in BOOLEAN
  <2>2. Calm(d) /\ StopsJob(c, d)
    BY <2>3, <1>2 DEF Calm, StopsJob
  <2>4. Moves(c, d)
    BY <2>2, <2>3 DEF Moves, Vacant
  <2> QED
    BY <2>2, <2>3, <2>4 DEF Does, d
<1>3. CASE ~c.stopping /\ ~c.owned /\ ~held
  <2> DEFINE f == Stop(FALSE, NoCompletion)
  <2>1. d = Complete(f, k)
    <3>1. (c.owned \/ held) = FALSE
      BY <1>3, <1>0 DEF Fields
    <3> QED
      BY <1>3, <1>0, <3>1 DEF StopRoomSession, Deliver, Fields
  <2> HIDE DEF Stop
  <2>2. /\ Core(f) /\ ~f.stopping /\ ~f.owned /\ f.state = c.state /\ f.stage = c.stage
        /\ f.serial = c.serial + 1 /\ f.session = c.session /\ f.begun = c.begun
        /\ f.completion = NoCompletion
    BY <1>4, <1>0
  <2>3. Calm(f)
    BY <2>2, <1>0 DEF Calm
  <2> HIDE DEF f
  <2>4. Does(f, d) /\ d.serial = f.serial
    BY <2>1, <2>2, <2>3, CompleteMoves
  <2>7. Same(f, d) \/ Begins(f, d)
    BY <2>2, <2>4, <1>0 DEF Does, Moves, StopsJob, StopsNothing, Core, Fields
  <2>5. StopsNothing(c, d) \/ Begins(c, d)
    BY <1>3, <2>2, <2>4, <2>7 DEF Same, StopsNothing, Begins
  <2>6. /\ Vacant(d) => Vacant(c) \/ (~d.owned /\ ~d.stopping)
        /\ c.state = "Leaving" => d.state \in {"Leaving", "Idle", "Failed"}
    BY <2>2, <2>4 DEF Does, Moves, Vacant
  <2> QED
    BY <2>4, <2>5, <2>6 DEF Does, Moves
<1> QED
  BY <1>1, <1>2, <1>3

\* All but the state, the stage, the admission and the flags of the meeting stay.
Keeps(c, d) ==
    /\ Same(c, d) /\ d \in Fields
    /\ d.running = c.running /\ d.joins = c.joins /\ d.completion = c.completion

LEMMA Restated ==
    ASSUME NEW c, Core(c), NEW st \in States
    PROVE  LET d == [c EXCEPT !.state = st]
           IN  Core(d) /\ Keeps(c, d) /\ d.state = st /\ d.stage = c.stage
<1> DEFINE d == [c EXCEPT !.state = st]
<1>1. Keeps(c, d) /\ d.state = st /\ d.stage = c.stage
  BY DEF Core, Fields, Keeps, Same
<1> HIDE DEF d
<1>2. Core(d)
  BY <1>1 DEF Core, Keeps, Same
<1> QED
  BY <1>1, <1>2 DEF d

\* An admission that is over has no stage.
LEMMA Invalidated ==
    ASSUME NEW c, Core(c)
    PROVE  LET d == InvalidateAdmission(c)
           IN  /\ Core(d) /\ Keeps(c, d) /\ d.state = c.state /\ d.stage = "None"
               /\ Calm(c) => Calm(d)
<1> DEFINE d == InvalidateAdmission(c)
<1>1. PICK n \in Nat : n = c.admission + 1
  BY DEF Core, Fields
<1>2. d = [c EXCEPT !.admission = n, !.stage = "None"]
  BY <1>1 DEF InvalidateAdmission
<1>3. Keeps(c, d) /\ d.state = c.state /\ d.stage = "None"
  BY <1>1, <1>2 DEF Core, Fields, Keeps, Same, Stages
<1> HIDE DEF d
<1>4. Core(d)
  BY <1>3 DEF Core, Keeps, Same, Asking
<1>5. Calm(c) => Calm(d)
  BY <1>3 DEF Calm, Keeps, Same
<1> QED
  BY <1>3, <1>4, <1>5 DEF d

\* startRoomSession, of an admission that is ready.
LEMMA StartMoves ==
    ASSUME NEW c, Core(c), Calm(c), c.stage = "ReadyToStart", NEW held \in BOOLEAN
    PROVE  Does(c, StartRoomSession(c, held))
<1> DEFINE d == [c EXCEPT !.stage = "Starting"]
           e == StartRoomSession(c, held)
           k == Completion("begin", d)
<1>1. Keeps(c, d) /\ d.state = c.state /\ d.stage = "Starting" /\ c.admission \in Nat
      /\ d.admission = c.admission
  BY DEF Core, Fields, Keeps, Same, Stages
<1>2. e = IF ~d.owned /\ ~d.running /\ ~d.stopping
          THEN BeginRoomSession(d, c.admission) ELSE StopRoomSession(d, k, held)
  BY <1>1 DEF StartRoomSession, Keeps, Same
<1>3. k \in Completions
  <2>1. d.session \in Nat
    BY <1>1 DEF Keeps, Fields
  <2> QED
    BY <1>1, <2>1 DEF Completion, Completions, Kinds
<1> HIDE DEF d, e, k
<1>4. Core(d) /\ Calm(d) /\ ~c.owned /\ c.state # "Leaving"
  BY <1>1 DEF Core, Calm, Keeps, Same, Asking
<1>5. Does(d, e)
  <2>1. CASE ~d.owned /\ ~d.running /\ ~d.stopping
    BY <1>1, <1>2, <1>4, <2>1, BeginMoves
  <2>2. CASE ~(~d.owned /\ ~d.running /\ ~d.stopping)
    BY <1>1, <1>2, <1>3, <1>4, <2>2, StopMoves
  <2> QED
    BY <2>1, <2>2
<1>6. Vacant(c)
  BY DEF Vacant, Asking
<1>7. Moves(c, e)
  BY <1>1, <1>4, <1>5, <1>6
     DEF Does, Moves, Keeps, Same, StopsJob, StopsNothing, Begins
<1> QED
  BY <1>5, <1>7 DEF Does, e

\* A handler that shows Leaving and gives its session up.
LEMMA LeavingMoves ==
    ASSUME NEW c, Core(c), c.stage \in {"None", "Consumed"},
           NEW k \in Completions, k.kind # "begin", NEW held \in BOOLEAN
    PROVE  Does(c, StopRoomSession([c EXCEPT !.state = "Leaving"], k, held))
<1> DEFINE d == [c EXCEPT !.state = "Leaving"]
           e == StopRoomSession(d, k, held)
<1>1. Core(d) /\ Keeps(c, d) /\ d.state = "Leaving" /\ d.stage = c.stage
  BY Restated DEF States
<1> HIDE DEF d
<1>2. Does(d, e)
  BY <1>1, StopMoves
<1> HIDE DEF e
<1>3. d.state = "Leaving" => e.state \in {"Leaving", "Idle", "Failed"}
  BY <1>2 DEF Does, Moves
<1>4. Vacant(e) => ~e.owned /\ ~e.stopping
  BY <1>1, <1>2 DEF Does, Moves, Vacant, Asking
<1>5. Moves(c, e)
  BY <1>1, <1>2, <1>3, <1>4
     DEF Does, Moves, Keeps, Same, StopsJob, StopsNothing, Begins
<1> QED
  BY <1>2, <1>5 DEF Does, d, e

LEMMA CompletionType ==
    ASSUME NEW c \in Fields, NEW kind \in Kinds
    PROVE  Completion(kind, c) \in Completions /\ Completion(kind, c).kind = kind
BY DEF Completion, Completions, Fields

\* finishLeavingMeeting
LEMMA LeaveMoves ==
    ASSUME NEW c, Core(c), Calm(c), NEW held \in BOOLEAN
    PROVE  Does(c, FinishLeavingMeeting(c, held))
<1> DEFINE d == InvalidateAdmission(c)
           f == [d EXCEPT !.state = "Leaving"]
           e == FinishLeavingMeeting(c, held)
<1>1. Core(d) /\ Keeps(c, d) /\ d.state = c.state /\ d.stage = "None" /\ Calm(d)
  BY Invalidated
<1>2. CASE c.state = "Leaving"
  <2>1. e = c
    BY <1>2 DEF FinishLeavingMeeting
  <2> QED
    BY <2>1 DEF Does, Moves, Same
<1>3. CASE c.state = "Idle"
  <2>1. e = d
    BY <1>3 DEF FinishLeavingMeeting
  <2> HIDE DEF d, e
  <2>2. Moves(c, d)
    BY <1>1, <1>3 DEF Moves, Keeps, Vacant
  <2> QED
    BY <1>1, <2>1, <2>2 DEF Does, e
<1>4. CASE c.state \notin {"Idle", "Leaving"}
  <2> DEFINE k == Completion("left", f)
  <2>1. e = StopRoomSession(f, k, held)
    BY <1>4 DEF FinishLeavingMeeting
  <2> HIDE DEF d
  <2>2. f \in Fields
    BY <1>1, Restated DEF States, Core
  <2>3. k \in Completions /\ k.kind # "begin"
    BY <2>2, CompletionType DEF Kinds
  <2> HIDE DEF k
  <2>4. Does(d, StopRoomSession(f, k, held))
    BY <1>1, <2>3, LeavingMoves
  <2> HIDE DEF e
  <2>5. Does(d, e)
    BY <2>1, <2>4
  <2>6. Moves(c, e)
    BY <1>1, <1>4, <2>5
       DEF Does, Moves, Keeps, Same, StopsJob, StopsNothing, Begins, Vacant, Asking
  <2> QED
    BY <2>5, <2>6 DEF Does, e
<1> QED
  BY <1>2, <1>3, <1>4

\* handleSessionInvalidated, which refuses every later admission.
LEMMA AccountMoves ==
    ASSUME NEW c, Core(c), Calm(c), NEW held \in BOOLEAN
    PROVE  LET d == [InvalidateAdmission(c) EXCEPT !.invalidated = TRUE]
               f == [d EXCEPT !.state = "Leaving"]
           IN  /\ c.state = "Idle" => Does(c, d)
               /\ Does(c, StopRoomSession(f, Completion("invalidated", f), held))
<1> DEFINE i == InvalidateAdmission(c)
           d == [i EXCEPT !.invalidated = TRUE]
           f == [d EXCEPT !.state = "Leaving"]
           k == Completion("invalidated", f)
           e == StopRoomSession(f, k, held)
<1>1. Core(i) /\ Keeps(c, i) /\ i.state = c.state /\ i.stage = "None" /\ Calm(i)
  BY Invalidated
<1> HIDE DEF i
<1>2. Keeps(i, d) /\ d.state = i.state /\ d.stage = i.stage
  BY <1>1 DEF Keeps, Same, Fields
<1> HIDE DEF d
<1>3. Core(d) /\ Keeps(c, d) /\ d.state = c.state /\ d.stage = "None" /\ Calm(d)
  BY <1>1, <1>2 DEF Core, Calm, Keeps, Same
<1>4. ASSUME c.state = "Idle"
      PROVE  Does(c, d)
  <2>1. Moves(c, d)
    BY <1>3, <1>4 DEF Moves, Keeps, Vacant
  <2> QED
    BY <1>3, <2>1 DEF Does
<1>5. Does(c, e)
  <2>1. f \in Fields
    BY <1>3, Restated DEF States, Core
  <2>2. k \in Completions /\ k.kind # "begin"
    BY <2>1, CompletionType DEF Kinds
  <2> HIDE DEF k
  <2>3. Does(d, e)
    BY <1>3, <2>2, LeavingMoves
  <2> HIDE DEF e
  <2>4. Moves(c, e)
    BY <1>3, <2>3
       DEF Does, Moves, Keeps, Same, StopsJob, StopsNothing, Begins, Vacant, Asking
  <2> QED
    BY <2>3, <2>4 DEF Does
<1> QED
  BY <1>4, <1>5 DEF d, i

\* A reconnection that is told to the user, or over; the meeting as joined.
LEMMA ShownMoves ==
    ASSUME NEW c, Core(c), Calm(c), c.owned,
           NEW d, NEW st \in {c.state, "InMeeting", "Reconnecting"},
           NEW com \in BOOLEAN, NEW rec \in BOOLEAN,
           d = [c EXCEPT !.committed = com, !.reconnect = rec, !.state = st]
    PROVE  Does(c, d)
<1>0. c \in Fields /\ st \in States
  BY DEF Core, Fields, States
<1>1. Keeps(c, d) /\ d.state = st /\ d.stage = c.stage
  BY <1>0 DEF Keeps, Same, Fields
<1>2. Core(d)
  BY <1>1 DEF Core, Keeps, Same
<1>3. Calm(d)
  BY <1>1 DEF Core, Calm, Keeps, Same
<1>4. Moves(c, d)
  BY <1>1 DEF Moves, Keeps, Vacant, Calm
<1> QED
  BY <1>2, <1>3, <1>4 DEF Does

LEMMA Unchanged3 ==
    ASSUME NEW c \in Fields
    PROVE  /\ c = [c EXCEPT !.committed = c.committed, !.reconnect = c.reconnect,
                            !.state = c.state]
           /\ c.committed \in BOOLEAN /\ c.reconnect \in BOOLEAN
BY DEF Fields

\* What a live callback of the session does.
LEMMA HandledMoves ==
    ASSUME NEW c, Core(c), Calm(c), c.owned, NEW kind \in SessionPosts
    PROVE  Does(c, Handled(c, kind))
<1> DEFINE d == Handled(c, kind)
<1>0. /\ c \in Fields /\ c.committed \in BOOLEAN /\ c.reconnect \in BOOLEAN
      /\ c.state \notin {"Idle", "Failed", "Leaving"} /\ c.stage \in {"None", "Consumed"}
  BY Unchanged3 DEF Core, Calm
<1>1. CASE kind = "connected"
  <2>1. d = [c EXCEPT !.committed = c.committed, !.reconnect = c.reconnect,
                      !.state = "InMeeting"]
    BY <1>0, <1>1 DEF Handled, Fields
  <2> QED
    BY <1>0, <2>1, ShownMoves
<1>2. CASE kind = "ready"
  <2>1. CASE c.committed
    <3>1. d = c
      BY <1>2, <2>1 DEF Handled
    <3> QED
      BY <3>1 DEF Does, Moves, Same
  <2>2. CASE ~c.committed
    <3>1. PICK st \in {c.state, "InMeeting"} :
              d = [c EXCEPT !.committed = TRUE, !.reconnect = c.reconnect, !.state = st]
      <4>1. CASE c.reconnect
        <5>1. d = [c EXCEPT !.committed = TRUE]
          BY <1>0, <1>2, <2>2, <4>1 DEF Handled, TryCommit, Fields
        <5> QED
          BY <1>0, <5>1 DEF Fields
      <4>2. CASE ~c.reconnect
        <5>1. d = [c EXCEPT !.committed = TRUE, !.state = "InMeeting"]
          BY <1>0, <1>2, <2>2, <4>2 DEF Handled, TryCommit, Fields
        <5> QED
          BY <1>0, <5>1 DEF Fields
      <4> QED
        BY <4>1, <4>2
    <3> QED
      BY <1>0, <3>1, ShownMoves, TRUE \in BOOLEAN
  <2> QED
    BY <2>1, <2>2
<1>3. CASE kind = "reconnecting"
  <2>1. d = [c EXCEPT !.committed = c.committed, !.reconnect = TRUE,
                      !.state = "Reconnecting"]
    BY <1>0, <1>3 DEF Handled, Interrupted, Fields
  <2> QED
    BY <1>0, <2>1, ShownMoves, TRUE \in BOOLEAN
<1>4. CASE kind = "reconnected"
  <2>1. PICK st \in {c.state, "InMeeting"} :
            d = [c EXCEPT !.committed = c.committed, !.reconnect = FALSE, !.state = st]
    <3>1. CASE c.committed
      <4>1. d = [c EXCEPT !.reconnect = FALSE, !.state = "InMeeting"]
        BY <1>0, <1>4, <3>1 DEF Handled, Restored, TryCommit, Fields
      <4> QED
        BY <1>0, <4>1 DEF Fields
    <3>2. CASE ~c.committed
      <4>1. d = [c EXCEPT !.reconnect = FALSE]
        BY <1>0, <1>4, <3>2 DEF Handled, Restored, TryCommit, Fields
      <4> QED
        BY <1>0, <4>1 DEF Fields
    <3> QED
      BY <3>1, <3>2
  <2> QED
    BY <1>0, <2>1, ShownMoves, FALSE \in BOOLEAN
<1>5. CASE kind = "replaced"
  <2>1. d = FinishLeavingMeeting(c, FALSE)
    BY <1>5 DEF Handled
  <2> QED
    BY <2>1, LeaveMoves, FALSE \in BOOLEAN
<1>6. ASSUME NEW word \in {"failed", "disconnected"}
      PROVE  LET f == [c EXCEPT !.state = "Leaving"]
             IN  Does(c, StopRoomSession(f, Completion(word, f), FALSE))
  <2> DEFINE f == [c EXCEPT !.state = "Leaving"]
  <2>1. f \in Fields
    BY Restated DEF States, Core
  <2>2. Completion(word, f) \in Completions /\ Completion(word, f).kind # "begin"
    BY <1>6, <2>1, CompletionType DEF Kinds
  <2> QED
    BY <1>0, <2>2, LeavingMoves, FALSE \in BOOLEAN
<1>7. CASE kind \in {"failed", "disconnected"}
  <2>1. d = LET f == [c EXCEPT !.state = "Leaving"]
            IN  StopRoomSession(f, Completion(kind, f), FALSE)
    BY <1>0, <1>7 DEF Handled, FailStartup, Disconnected
  <2> QED
    BY <1>6, <1>7, <2>1
<1>8. CASE kind = "duplicate"
  <2> DEFINE f == InvalidateAdmission(c)
             k == Completion("kicked", f)
  <2>1. d = StopRoomSession(f, k, FALSE)
    BY <1>0, <1>8 DEF Handled, KickedOff
  <2>2. Core(f) /\ Keeps(c, f) /\ f.state = c.state /\ f.stage = "None" /\ Calm(f)
    BY Invalidated
  <2> HIDE DEF f
  <2>3. k \in Completions /\ k.kind # "begin"
    BY <2>2, CompletionType DEF Kinds, Core
  <2> HIDE DEF k
  <2>4. Does(f, StopRoomSession(f, k, FALSE))
    BY <2>2, <2>3, StopMoves, FALSE \in BOOLEAN
  <2> HIDE DEF d
  <2>5. Does(f, d)
    BY <2>1, <2>4
  <2>6. Moves(c, d)
    BY <1>0, <2>2, <2>5
       DEF Does, Moves, Keeps, Same, StopsJob, StopsNothing, Begins, Vacant, Asking
  <2> QED
    BY <2>5, <2>6 DEF Does, d
<1> QED
  BY <1>1, <1>2, <1>3, <1>4, <1>5, <1>7, <1>8 DEF SessionPosts

-----------------------------------------------------------------------------
(* Steps *)

\* The posts stay, or a callback of a session is taken from their head.
PostsShrink ==
    /\ posts' \in Seq(Messages)
    /\ \E n \in {0, 1} :
          /\ Len(posts) = Len(posts') + n
          /\ \A i \in 1..Len(posts') : posts'[i] = posts[i + n]

LEMMA ShrinkKeeps ==
    ASSUME Typing, posts' = posts \/ (posts # <<>> /\ posts' = Tail(posts))
    PROVE  PostsShrink
<1>1. CASE posts' = posts
  BY <1>1 DEF PostsShrink, Typing
<1>2. CASE posts # <<>> /\ posts' = Tail(posts)
  <2>1. /\ posts' \in Seq(Messages) /\ Len(posts) = Len(posts') + 1
        /\ \A i \in 1..Len(posts') : posts'[i] = posts[i + 1]
    BY <1>2 DEF Typing
  <2> QED
    BY <2>1 DEF PostsShrink
<1> QED
  BY <1>1, <1>2

\* No session is alive unless the coordinator owns it or a stop carries it.
LEMMA NoneAlive ==
    ASSUME SessionInv, ~ui.owned, ~ui.stopping
    PROVE  \A s \in Sessions : ~Alive(s)
BY DEF SessionInv, Carried

LEMMA OwnedNotVacant ==
    ASSUME NEW d, Core(d), Calm(d), d.owned
    PROVE  ~Vacant(d)
BY DEF Core, Calm, Vacant, Asking

\* A handler of the UI thread that moves the fields and takes no end of a stop.
LEMMA UiStep ==
    ASSUME SessionInv, NEW d, ui' = d, Does(ui, d),
           jobs' = jobs \cup Submitted(ui, d), PostsShrink,
           UNCHANGED <<room, retained>>,
           http' \subseteq [stage : {"Joining", "Creating", "FetchingToken"},
                            admission : Nat]
    PROVE  SessionInv'
<1>0. /\ ui \in Fields /\ d \in Fields /\ Core(ui) /\ Calm(ui) /\ Core(d) /\ Calm(d)
      /\ StopToken /\ Carried /\ Held /\ NoneWhenVacant /\ Typing
      /\ ui.serial \in Nat /\ d.serial \in Nat /\ ui.session \in Nat
  BY DEF SessionInv, Does, Core, Fields
<1>1. PICK n \in {0, 1} :
          /\ Len(posts) = Len(posts') + n
          /\ \A i \in 1..Len(posts') : posts'[i] = posts[i + n]
  BY DEF PostsShrink
<1>2. \A i \in 1..Len(posts') : i + n \in 1..Len(posts) /\ posts'[i] = posts[i + n]
  <2>1. posts \in Seq(Messages) /\ posts' \in Seq(Messages)
    BY <1>0 DEF Typing, PostsShrink
  <2> QED
    BY <1>1, <2>1
<1>3. \A i, k \in 1..Len(posts') :
          /\ IsStopped(i)' => IsStopped(i + n)
          /\ i + n = k + n => i = k
  BY <1>2 DEF IsStopped
<1>4. CASE Same(ui, d)
  <2>1. Submitted(ui, d) = {}
    BY <1>4 DEF Same, Submitted
  <2>2. jobs' = jobs /\ ui'.serial = ui.serial /\ ui'.stopping = ui.stopping
        /\ ui'.owned = ui.owned /\ ui'.session = ui.session /\ ui'.begun = ui.begun
    BY <1>4, <2>1 DEF Same
  <2>3. StopToken'
    BY <1>0, <1>2, <1>3, <2>2 DEF StopToken, IsStopped
  <2>4. \A s : Alive(s)' <=> Alive(s)
    BY <2>2 DEF Alive
  <2>5. Carried' /\ Held'
    BY <1>0, <2>2, <2>4 DEF Carried, Held
  <2>6. NoneWhenVacant'
    BY <1>0, <2>2, <2>4, NoneAlive DEF NoneWhenVacant, Does, Moves
  <2>7. Typing'
    BY <1>0, <2>2 DEF Typing, PostsShrink
  <2> QED
    BY <1>0, <2>3, <2>5, <2>6, <2>7 DEF SessionInv
<1>5. CASE StopsJob(ui, d)
  <2> DEFINE j == [session |-> IF ui.owned THEN ui.session ELSE 0, serial |-> d.serial]
  <2>1. Submitted(ui, d) = {j}
    BY <1>5, <1>0 DEF StopsJob, Submitted
  <2>2. jobs = {} /\ \A i \in 1..Len(posts) : ~IsStopped(i)
    BY <1>0, <1>5 DEF StopToken, StopsJob
  <2>3. jobs' = {j} /\ j.serial = ui'.serial /\ j \in [session : Nat, serial : Nat]
        /\ j.session = IF ui.owned THEN ui.session ELSE 0
    BY <1>0, <2>1, <2>2
  <2> HIDE DEF j
  <2>4. /\ ui'.serial = ui.serial + 1 /\ ui'.stopping /\ ~ui'.owned /\ ~ui.stopping
        /\ ui'.session = ui.session /\ ui'.begun = ui.begun
    BY <1>5 DEF StopsJob
  <2>5. \A r \in retained : r \in Nat /\ r <= ui.serial
    BY <1>0 DEF StopToken, Typing
  <2>6. StopToken'
    <3>1. \A i \in 1..Len(posts') : ~IsStopped(i)'
      BY <1>2, <1>3, <2>2
    <3>2. /\ \A r \in retained' : r <= ui'.serial
          /\ ui'.serial \notin retained'
      BY <1>0, <2>4, <2>5
    <3>3. \A k \in jobs' : k.serial = ui'.serial /\ \A l \in jobs' : l = k
      BY <2>3
    <3> QED
      BY <2>4, <3>1, <3>2, <3>3 DEF StopToken
  <2>7. \A s : Alive(s)' <=> Alive(s)
    BY <2>4 DEF Alive
  <2>8. Carried'
    BY <1>0, <2>3, <2>4, <2>7 DEF Carried
  <2>9. Held'
    BY <1>0, <2>3, <2>4, <2>7 DEF Held
  <2>10. NoneWhenVacant'
    BY <1>0, <2>4, <2>7 DEF NoneWhenVacant, Does, Moves
  <2>11. Typing'
    BY <1>0, <2>3 DEF Typing, PostsShrink
  <2> QED
    BY <1>0, <2>6, <2>8, <2>9, <2>10, <2>11 DEF SessionInv
<1>6. CASE StopsNothing(ui, d) \/ Begins(ui, d)
  <2>1. ~ui'.stopping /\ ~ui.stopping /\ ~ui.owned
        /\ ui'.serial \in {ui.serial, ui.serial + 1}
    BY <1>6 DEF StopsNothing, Begins
  <2>2. Submitted(ui, d) = {} /\ jobs = {} /\ \A i \in 1..Len(posts) : ~IsStopped(i)
    BY <1>0, <2>1 DEF Submitted, StopToken
  <2>3. jobs' = {}
    BY <2>2
  <2>4. \A r \in retained : r \in Nat /\ r <= ui.serial /\ r # ui.serial
    BY <1>0, <2>1 DEF StopToken, Typing
  <2>5. StopToken'
    <3>1. \A i \in 1..Len(posts') : ~IsStopped(i)'
      BY <1>2, <1>3, <2>2
    <3>2. /\ \A r \in retained' : r <= ui'.serial
          /\ ui'.serial \notin retained'
      BY <1>0, <2>1, <2>4
    <3> QED
      BY <2>1, <2>3, <3>1, <3>2 DEF StopToken
  <2>6. Typing'
    BY <1>0, <2>3 DEF Typing, PostsShrink
  <2>7. \A s \in Sessions : ~Alive(s)
    BY <2>1, NoneAlive
  <2>8. CASE StopsNothing(ui, d)
    <3>1. ~ui'.owned /\ ui'.begun = ui.begun
      BY <2>8 DEF StopsNothing
    <3>2. \A s : Alive(s)' <=> Alive(s)
      BY <3>1 DEF Alive
    <3>3. Carried' /\ Held' /\ NoneWhenVacant'
      BY <1>0, <2>3, <2>7, <3>1, <3>2 DEF Carried, Held, NoneWhenVacant
    <3> QED
      BY <1>0, <2>5, <2>6, <3>3 DEF SessionInv
  <2>9. CASE Begins(ui, d)
    <3>1. /\ ui'.owned /\ ui'.session \in Sessions /\ ui'.session \notin ui.begun
          /\ ui'.begun = ui.begun \cup {ui'.session}
      BY <2>9 DEF Begins
    <3>2. room[ui'.session] # "freed"
      BY <1>0, <3>1 DEF Held
    <3>3. \A s \in Sessions : Alive(s)' <=> s = ui'.session
      BY <2>7, <3>1, <3>2 DEF Alive
    <3>4. Carried' /\ Held'
      BY <1>0, <2>3, <3>1, <3>3 DEF Carried, Held
    <3>5. NoneWhenVacant'
      BY <1>0, <3>1, OwnedNotVacant DEF NoneWhenVacant
    <3> QED
      BY <1>0, <2>5, <2>6, <3>4, <3>5 DEF SessionInv
  <2> QED
    BY <1>6, <2>8, <2>9
<1> QED
  BY <1>4, <1>5, <1>6 DEF Does, Moves

\* The end of a stop is delivered.
LEMMA DeliverStep ==
    ASSUME SessionInv, posts # <<>>, IsStopped(1), posts' = Tail(posts),
           NEW d, ui' = d, d = Deliver(ui, Head(posts).serial),
           jobs' = jobs \cup Submitted(ui, d),
           UNCHANGED <<http, room, retained>>
    PROVE  SessionInv' /\ (ui.state = "Leaving" => ui'.state \in {"Leaving", "Idle", "Failed"})
<1> DEFINE e == [ui EXCEPT !.stopping = FALSE, !.completion = NoCompletion]
<1>0. /\ ui \in Fields /\ Core(ui) /\ Calm(ui)
      /\ StopToken /\ Carried /\ Held /\ NoneWhenVacant /\ Typing
      /\ posts \in Seq(Messages) /\ ui.completion \in Completions
  BY DEF SessionInv, Core, Fields, Typing
<1>1. /\ 1 \in 1..Len(posts) /\ Head(posts) = posts[1]
      /\ posts' \in Seq(Messages) /\ Len(posts) = Len(posts') + 1
      /\ \A i \in 1..Len(posts') : posts'[i] = posts[i + 1] /\ i + 1 \in 1..Len(posts)
  BY <1>0
<1>2. /\ posts[1].serial = ui.serial /\ ui.stopping /\ ui.serial \notin retained
      /\ \A k \in 1..Len(posts) : IsStopped(k) => k = 1
  BY <1>0, <1>1 DEF StopToken
<1>3. jobs = {}
  BY <1>0, <1>1 DEF StopToken
<1>4. d = Complete(e, ui.completion)
  BY <1>1, <1>2 DEF Deliver
<1>5. /\ e \in Fields /\ Same(ui, [e EXCEPT !.stopping = TRUE])
      /\ ~e.stopping /\ e.owned = ui.owned /\ e.running = ui.running
      /\ e.stage = ui.stage /\ e.state = ui.state /\ e.joins = ui.joins
      /\ e.begun = ui.begun /\ e.session = ui.session /\ e.serial = ui.serial
      /\ e.completion = NoCompletion
  <2>1. NoCompletion \in Completions
    BY DEF NoCompletion, Completions, Kinds
  <2> QED
    BY <1>0, <1>2, <2>1 DEF Fields, Same
<1>6. NoCompletion.kind = "none"
  BY DEF NoCompletion
<1> HIDE DEF e
<1>7. Core(e) /\ Calm(e) /\ ~e.owned
  BY <1>0, <1>2, <1>5, <1>6 DEF Core, Calm
<1>8. Does(e, d) /\ d.serial = e.serial
  BY <1>0, <1>4, <1>5, <1>7, CompleteMoves
<1>9. ui.serial \in Nat
  BY <1>0 DEF Fields
<1>10. Same(e, d) \/ Begins(e, d)
  BY <1>5, <1>8, <1>9 DEF Does, Moves, StopsJob, StopsNothing
<1>11. ~ui'.stopping /\ ui'.serial = ui.serial /\ jobs' = {}
  BY <1>3, <1>5, <1>8, <1>10 DEF Same, Begins, Submitted
<1>12. StopToken'
  <2>1. ASSUME NEW i \in 1..Len(posts')
        PROVE  ~IsStopped(i)'
    <3>1. posts'[i] = posts[i + 1] /\ i + 1 \in 1..Len(posts) /\ i + 1 # 1
      BY <1>1, <2>1
    <3> QED
      BY <1>2, <3>1 DEF IsStopped
  <2>2. \A r \in retained' : r <= ui'.serial
    BY <1>0, <1>11 DEF StopToken
  <2>3. ui'.serial \notin retained'
    BY <1>2, <1>11
  <2> QED
    BY <1>11, <2>1, <2>2, <2>3 DEF StopToken
<1>13. Typing' /\ Core(d) /\ Calm(d)
  BY <1>0, <1>1, <1>8, <1>11 DEF Typing, Does
<1>14. \A s \in Sessions : ~Alive(s)
  BY <1>0, <1>2, <1>3, <1>5, <1>7 DEF Carried
<1>15. SessionInv'
  <2>1. CASE Same(e, d)
    <3>1. ~ui'.owned /\ ui'.begun = ui.begun
      BY <1>5, <1>7, <2>1 DEF Same
    <3>2. \A s : Alive(s)' <=> Alive(s)
      BY <3>1 DEF Alive
    <3>3. Carried' /\ Held' /\ NoneWhenVacant'
      BY <1>0, <1>11, <1>14, <3>1, <3>2 DEF Carried, Held, NoneWhenVacant
    <3> QED
      BY <1>12, <1>13, <3>3 DEF SessionInv
  <2>2. CASE Begins(e, d)
    <3>1. /\ ui'.owned /\ ui'.session \in Sessions /\ ui'.session \notin ui.begun
          /\ ui'.begun = ui.begun \cup {ui'.session}
      BY <1>5, <2>2 DEF Begins
    <3>2. room[ui'.session] # "freed"
      BY <1>0, <3>1 DEF Held
    <3>3. \A s \in Sessions : Alive(s)' <=> s = ui'.session
      BY <1>14, <3>1, <3>2 DEF Alive
    <3>4. Carried' /\ Held'
      BY <1>0, <1>11, <3>1, <3>3 DEF Carried, Held
    <3>5. NoneWhenVacant'
      BY <1>13, <3>1, OwnedNotVacant DEF NoneWhenVacant
    <3> QED
      BY <1>12, <1>13, <3>4, <3>5 DEF SessionInv
  <2> QED
    BY <1>10, <2>1, <2>2
<1> QED
  BY <1>5, <1>8, <1>15 DEF Does, Moves

\* A thread of a session, or the worker when it retires a room: it may post, and
\* frees nothing.
LEMMA RoomStep ==
    ASSUME SessionInv, UNCHANGED <<ui, jobs, retained, http>>,
           \/ posts' = posts
           \/ \E m \in Messages : m.kind # "stopped" /\ posts' = Append(posts, m),
           room' \in [Sessions -> RoomStates],
           \A s \in Sessions : room'[s] = "freed" <=> room[s] = "freed"
    PROVE  SessionInv'
<1>0. Typing /\ StopToken /\ Carried /\ Held /\ NoneWhenVacant
  BY DEF SessionInv
<1>1. posts' \in Seq(Messages) /\ Typing'
  BY <1>0 DEF Typing
<1>2. \A i \in 1..Len(posts') : IsStopped(i)' => i \in 1..Len(posts) /\ posts'[i] = posts[i]
  <2>1. CASE posts' = posts
    BY <2>1
  <2>2. CASE \E m \in Messages : m.kind # "stopped" /\ posts' = Append(posts, m)
    <3>1. PICK m \in Messages : m.kind # "stopped" /\ posts' = Append(posts, m)
      BY <2>2
    <3>2. ASSUME NEW i \in 1..Len(posts'), IsStopped(i)'
          PROVE  i \in 1..Len(posts) /\ posts'[i] = posts[i]
      <4>1. \/ i \in 1..Len(posts) /\ posts'[i] = posts[i]
            \/ posts'[i] = m
        BY <1>0, <3>1, <3>2 DEF Typing
      <4> QED
        BY <3>1, <3>2, <4>1 DEF IsStopped
    <3> QED
      BY <3>2
  <2> QED
    BY <2>1, <2>2
<1>3. \A i \in 1..Len(posts') : IsStopped(i)' => IsStopped(i)
  BY <1>2 DEF IsStopped
<1>4. StopToken'
  BY <1>0, <1>2, <1>3 DEF StopToken
<1>5. \A s \in Sessions : Alive(s)' <=> Alive(s)
  BY DEF Alive
<1>6. Carried' /\ NoneWhenVacant'
  BY <1>0, <1>5 DEF Carried, NoneWhenVacant
<1>7. Held'
  BY <1>0, <1>5 DEF Held
<1>8. Core(ui)' /\ Calm(ui)'
  BY DEF SessionInv, Core, Calm
<1> QED
  BY <1>1, <1>4, <1>6, <1>7, <1>8 DEF SessionInv

LEMMA PostedOnce ==
    ASSUME SessionInv, NEW s \in Sessions, NEW kind \in SessionPosts,
           posts' = Posted(s, kind)
    PROVE  \/ posts' = posts
           \/ \E m \in Messages : m.kind # "stopped" /\ posts' = Append(posts, m)
<1> DEFINE m == [kind |-> kind, session |-> s, serial |-> 0]
<1>1. m \in Messages /\ m.kind # "stopped"
  BY DEF Messages, SessionPosts, Sessions
<1>2. posts' = posts \/ posts' = Append(posts, m)
  BY DEF Posted
<1> QED
  BY <1>1, <1>2

LEMMA SessionThreadStep ==
    ASSUME SessionInv, NEW s \in Sessions, Startup(s) \/ Room(s)
    PROVE  SessionInv'
<1>0. /\ Alive(s) /\ UNCHANGED <<ui, http, jobs, retained>>
  BY DEF Startup, Room, RoomConnected, Published, StartupFails, RoomUp, RoomRefused,
         OnReconnecting, FallsSilent, OnReconnected, OnDisconnected, Thread
<1>1. room \in [Sessions -> RoomStates] /\ room[s] # "freed"
  BY <1>0 DEF SessionInv, Typing, Alive
<1>2. \/ posts' = posts
      \/ \E kind \in SessionPosts : posts' = Posted(s, kind)
  BY DEF Startup, Room, RoomConnected, Published, StartupFails, RoomUp, RoomRefused,
         OnReconnecting, FallsSilent, OnReconnected, OnDisconnected, SessionPosts
<1>3. room' = room \/ \E r \in RoomStates \ {"freed"} : room' = [room EXCEPT ![s] = r]
  BY DEF Startup, Room, RoomConnected, Published, StartupFails, RoomUp, RoomRefused,
         OnReconnecting, FallsSilent, OnReconnected, OnDisconnected, RoomStates
<1>4. /\ room' \in [Sessions -> RoomStates]
      /\ \A t \in Sessions : room'[t] = "freed" <=> room[t] = "freed"
  BY <1>1, <1>3
<1> QED
  BY <1>0, <1>2, <1>4, PostedOnce, RoomStep

LEMMA RetireStep ==
    ASSUME SessionInv, NEW j \in jobs, Retire(j)
    PROVE  SessionInv'
<1>1. j.session \in Sessions /\ room \in [Sessions -> RoomStates]
      /\ room[j.session] # "freed"
  BY DEF SessionInv, Held, Typing, Alive, Retire
<1>2. PICK r \in RoomStates \ {"freed"} : room' = [room EXCEPT ![j.session] = r]
  BY DEF Retire, RoomStates
<1>3. /\ room' \in [Sessions -> RoomStates]
      /\ \A t \in Sessions : room'[t] = "freed" <=> room[t] = "freed"
  BY <1>1, <1>2
<1> QED
  BY <1>3, RoomStep DEF Retire

LEMMA CleanedUpStep ==
    ASSUME SessionInv, NEW j \in jobs, CleanedUp(j)
    PROVE  SessionInv'
<1> DEFINE m == [kind |-> "stopped", session |-> 0, serial |-> j.serial]
<1>0. Typing /\ StopToken /\ Carried /\ Held /\ NoneWhenVacant /\ Core(ui) /\ Calm(ui)
  BY DEF SessionInv
<1>1. /\ jobs' = jobs \ {j} /\ posts' = Append(posts, m)
      /\ room' = [s \in Sessions |-> IF s = j.session THEN "freed" ELSE room[s]]
      /\ UNCHANGED <<ui, http, retained>>
  BY DEF CleanedUp
<1>2. jobs = {j} /\ jobs' = {} /\ j.serial = ui.serial /\ j.serial \in Nat
  BY <1>0, <1>1 DEF StopToken, Typing
<1>3. /\ ui.stopping /\ ui.serial \notin retained /\ ~ui.owned
      /\ \A i \in 1..Len(posts) : ~IsStopped(i)
  BY <1>0, <1>2 DEF StopToken, Core
<1>4. m \in Messages /\ m.kind = "stopped" /\ m.serial = ui.serial
  BY <1>2 DEF Messages
<1>5. Typing'
  BY <1>0, <1>1, <1>2, <1>4 DEF Typing, RoomStates
<1> HIDE DEF m
<1>6. /\ Len(posts') = Len(posts) + 1 /\ Len(posts) \in Nat
      /\ posts'[Len(posts) + 1] = m
      /\ \A i \in 1..Len(posts) : posts'[i] = posts[i]
  BY <1>0, <1>1, <1>4 DEF Typing
<1>7. \A i \in 1..Len(posts') : IsStopped(i)' => i = Len(posts) + 1
  BY <1>3, <1>6 DEF IsStopped
<1>8. StopToken'
  BY <1>0, <1>1, <1>2, <1>3, <1>4, <1>6, <1>7 DEF StopToken
<1>9. \A s \in Sessions : ~Alive(s)'
  <2>1. \A s \in Sessions : Alive(s)' => Alive(s) /\ s # j.session
    BY <1>1 DEF Alive
  <2>2. \A s \in Sessions : Alive(s) => s = j.session
    BY <1>0, <1>2, <1>3 DEF Carried
  <2> QED
    BY <2>1, <2>2
<1>10. Carried' /\ NoneWhenVacant'
  BY <1>9 DEF Carried, NoneWhenVacant
<1>11. Held'
  <2>1. \A s \in Sessions : s \notin ui.begun => s # j.session
    BY <1>0 DEF Held, Alive, Sessions
  <2> QED
    BY <1>0, <1>1, <1>2, <1>3, <2>1 DEF Held
<1>12. Core(ui)' /\ Calm(ui)'
  BY <1>0, <1>1 DEF Core, Calm
<1> QED
  BY <1>5, <1>8, <1>10, <1>11, <1>12 DEF SessionInv

LEMMA CleanupFailsStep ==
    ASSUME SessionInv, NEW j \in jobs, CleanupFails(j)
    PROVE  SessionInv'
<1>0. Typing /\ StopToken /\ Carried /\ Held /\ NoneWhenVacant /\ Core(ui) /\ Calm(ui)
  BY DEF SessionInv
<1>1. /\ jobs' = jobs \ {j} /\ retained' = retained \cup {j.serial}
      /\ UNCHANGED <<ui, http, posts, room>>
  BY DEF CleanupFails
<1>2. jobs = {j} /\ jobs' = {} /\ j.serial = ui.serial /\ j.serial \in Nat
  BY <1>0, <1>1 DEF StopToken, Typing
<1>3. /\ ui.stopping /\ ~ui.owned
      /\ \A i \in 1..Len(posts) : ~IsStopped(i)
  BY <1>0, <1>2 DEF StopToken, Core
<1>8. Typing'
  BY <1>0, <1>1, <1>2 DEF Typing
<1>4. StopToken'
  <2>1. \A r \in retained' : r <= ui'.serial
    BY <1>0, <1>1, <1>2 DEF StopToken
  <2>2. \A i \in 1..Len(posts') : ~IsStopped(i)'
    BY <1>1, <1>3 DEF IsStopped
  <2> QED
    BY <1>1, <1>2, <1>3, <2>1, <2>2 DEF StopToken
<1>5. \A s : Alive(s)' <=> Alive(s)
  BY <1>1 DEF Alive
<1>6. Carried' /\ Held' /\ NoneWhenVacant'
  BY <1>0, <1>1, <1>2, <1>3, <1>5 DEF Carried, Held, NoneWhenVacant
<1>7. Core(ui)' /\ Calm(ui)'
  BY <1>0, <1>1 DEF Core, Calm
<1> QED
  BY <1>4, <1>6, <1>7, <1>8 DEF SessionInv

\* The user, the business server, and what was posted: the fields move, or the end
\* of a stop is delivered.
FieldsLeave == ui.state = "Leaving" => ui'.state \in {"Leaving", "Idle", "Failed"}

LEMMA HandlerStep ==
    ASSUME SessionInv, NEW d, Does(ui, d), Becomes(d),
           posts' = posts \/ (posts # <<>> /\ posts' = Tail(posts)),
           UNCHANGED <<room, retained>>,
           http' \subseteq [stage : {"Joining", "Creating", "FetchingToken"},
                            admission : Nat]
    PROVE  SessionInv' /\ FieldsLeave
<1>1. ui' = d /\ jobs' = jobs \cup Submitted(ui, d)
  BY DEF Becomes
<1>2. PostsShrink
  BY ShrinkKeeps DEF SessionInv
<1>3. SessionInv'
  BY <1>1, <1>2, UiStep
<1>4. FieldsLeave
  BY <1>1 DEF Does, Moves, FieldsLeave
<1> QED
  BY <1>3, <1>4

LEMMA DoesNothing ==
    ASSUME Core(ui), Calm(ui)
    PROVE  Does(ui, ui)
BY DEF Does, Moves, Same

\* A new admission, of an idle coordinator.
LEMMA Admitted ==
    ASSUME SessionInv, ui.state \in {"Idle", "Failed"}, ui.joins < MaxJoins,
           NEW c, Core(c), Keeps(ui, c), c.state = ui.state,
           NEW stage \in {"Joining", "Creating", "ReadyToStart"}
    PROVE  LET d == BeginAdmission(c, stage)
           IN  /\ Core(d) /\ Calm(d) /\ Same(ui, d) /\ d.state = ui.state
               /\ d.stage = stage /\ d.admission \in Nat
<1> DEFINE d == BeginAdmission(c, stage)
<1>0. /\ ui \in Fields /\ Core(ui) /\ Calm(ui) /\ ~ui.owned /\ c \in Fields
      /\ c.joins = ui.joins
  BY DEF SessionInv, Core, Calm, Keeps
<1>1. PICK n \in Nat : n = c.admission + 1
  BY <1>0 DEF Fields
<1>2. PICK m \in 1..MaxJoins : m = c.joins + 1
  BY <1>0, CoordinatorAssumption DEF Fields
<1>3. d = [c EXCEPT !.admission = n, !.stage = stage, !.joins = m]
  BY <1>0, <1>1, <1>2 DEF BeginAdmission, Fields
<1>4. m \in 0..MaxJoins /\ stage \in Stages
  BY <1>2, CoordinatorAssumption DEF Stages
<1>5. /\ d \in Fields
      /\ d.owned = c.owned /\ d.running = c.running /\ d.session = c.session
      /\ d.begun = c.begun /\ d.stopping = c.stopping /\ d.serial = c.serial
      /\ d.state = c.state /\ d.stage = stage /\ d.joins = m /\ d.admission = n
  BY <1>0, <1>1, <1>3, <1>4 DEF Fields
<1> HIDE DEF d
<1>6. Same(ui, d) /\ d.state = ui.state
  BY <1>5 DEF Keeps, Same
<1>7. \A s \in d.begun : 1 <= s /\ s <= d.joins /\ s # d.joins
  <2>1. \A s \in c.begun : s \in Nat /\ 1 <= s /\ s <= c.joins
    BY <1>0 DEF Core, Fields
  <2>2. c.joins \in Nat
    BY <1>0, CoordinatorAssumption DEF Fields
  <2> QED
    BY <1>2, <1>5, <2>1, <2>2
<1>8. Core(d)
  BY <1>0, <1>2, <1>5, <1>6, <1>7 DEF Core, Same
<1>9. Calm(d)
  BY <1>0, <1>5, <1>6 DEF Calm, Same
<1> QED
  BY <1>1, <1>5, <1>6, <1>8, <1>9 DEF d

LEMMA UserStep ==
    ASSUME SessionInv, User
    PROVE  SessionInv' /\ FieldsLeave
<1>0. /\ Core(ui) /\ Calm(ui) /\ ui \in Fields /\ Keeps(ui, ui)
      /\ http \subseteq [stage : {"Joining", "Creating", "FetchingToken"}, admission : Nat]
  BY DEF SessionInv, Core, Typing, Keeps, Same
<1>1. ASSUME NEW stage \in {"Joining", "Creating"}, Join(stage)
      PROVE  SessionInv' /\ FieldsLeave
  <2> DEFINE c == BeginAdmission(ui, stage)
             d == [c EXCEPT !.state = "Validating"]
  <2>1. /\ Core(c) /\ Calm(c) /\ Same(ui, c) /\ c.state = ui.state
        /\ c.stage = stage /\ c.admission \in Nat
    BY <1>0, <1>1, Admitted DEF Join, CanJoin
  <2>2. /\ Becomes(d) /\ http' = http \cup {[stage |-> stage, admission |-> c.admission]}
        /\ ui.state \in {"Idle", "Failed"} /\ UNCHANGED <<posts, room, retained>>
    BY <1>1 DEF Join, CanJoin
  <2>3. http' \subseteq [stage : {"Joining", "Creating", "FetchingToken"}, admission : Nat]
    BY <1>0, <1>1, <2>1, <2>2
  <2> HIDE DEF c
  <2>4. Core(d) /\ Keeps(c, d) /\ d.state = "Validating" /\ d.stage = c.stage
    BY <2>1, Restated DEF States
  <2>5. Does(ui, d)
    <3> HIDE DEF d
    <3>1. Moves(ui, d)
      BY <2>1, <2>2, <2>4 DEF Moves, Keeps, Same, Vacant
    <3>2. Calm(d)
      BY <1>0, <2>1, <2>2, <2>4 DEF Calm, Keeps, Same
    <3> QED
      BY <2>4, <3>1, <3>2 DEF Does
  <2> HIDE DEF d
  <2> QED
    BY <2>2, <2>3, <2>5, HandlerStep
<1>2. ASSUME Refused
      PROVE  SessionInv' /\ FieldsLeave
  <2> DEFINE d == [ui EXCEPT !.state = "Failed"]
  <2>1. Core(d) /\ Keeps(ui, d) /\ d.state = "Failed" /\ d.stage = ui.stage
    BY <1>0, Restated DEF States
  <2>2. /\ Becomes(d) /\ ui.state \in {"Idle", "Failed"}
        /\ UNCHANGED <<http, posts, room, retained>>
    BY <1>2 DEF Refused, CanJoin
  <2> HIDE DEF d
  <2>3. Does(ui, d)
    BY <1>0, <2>1, <2>2 DEF Does, Moves, Vacant, Calm, Keeps, Same
  <2> QED
    BY <1>0, <2>2, <2>3, HandlerStep
<1>3. ASSUME NEW held \in BOOLEAN, ConnectDirectly(held)
      PROVE  SessionInv' /\ FieldsLeave
  <2> DEFINE i == InvalidateAdmission(ui)
             c == BeginAdmission(i, "ReadyToStart")
             d == StartRoomSession(c, held)
  <2>1. Core(i) /\ Keeps(ui, i) /\ i.state = ui.state
    BY <1>0, Invalidated
  <2>2. /\ Becomes(d) /\ ui.state = "Idle" /\ ui.joins = 0
        /\ UNCHANGED <<http, posts, room, retained>>
    BY <1>3 DEF ConnectDirectly
  <2> HIDE DEF i
  <2>3. Core(c) /\ Calm(c) /\ Same(ui, c) /\ c.state = ui.state /\ c.stage = "ReadyToStart"
    BY <2>1, <2>2, Admitted, CoordinatorAssumption
  <2> HIDE DEF c
  <2>4. Does(c, d)
    BY <1>3, <2>3, StartMoves
  <2> HIDE DEF d
  <2>5. Does(ui, d)
    BY <2>2, <2>3, <2>4
       DEF Does, Moves, Same, StopsJob, StopsNothing, Begins, Vacant
  <2> QED
    BY <1>0, <2>2, <2>5, HandlerStep
<1>4. ASSUME NEW held \in BOOLEAN, Leave(held)
      PROVE  SessionInv' /\ FieldsLeave
  <2> DEFINE d == FinishLeavingMeeting(ui, held)
  <2>1. Does(ui, d)
    BY <1>0, <1>4, LeaveMoves
  <2>2. Becomes(d) /\ UNCHANGED <<http, posts, room, retained>>
    BY <1>4 DEF Leave
  <2> HIDE DEF d
  <2> QED
    BY <1>0, <2>1, <2>2, HandlerStep
<1>5. ASSUME NEW held \in BOOLEAN, AccountInvalidated(held)
      PROVE  SessionInv' /\ FieldsLeave
  <2> DEFINE c == [InvalidateAdmission(ui) EXCEPT !.invalidated = TRUE]
             f == [c EXCEPT !.state = "Leaving"]
             e == StopRoomSession(f, Completion("invalidated", f), held)
  <2>1. (ui.state = "Idle" => Does(ui, c)) /\ Does(ui, e)
    BY <1>0, <1>5, AccountMoves
  <2>2. c.state = ui.state
    BY <1>0 DEF InvalidateAdmission, Fields
  <2>3. /\ UNCHANGED <<http, posts, room, retained>>
        /\ Becomes(IF c.state = "Idle" /\ ~c.owned /\ ~c.running /\ ~c.stopping
                   THEN c ELSE e)
    BY <1>5 DEF AccountInvalidated
  <2> HIDE DEF c, e
  <2>4. PICK d \in {c, e} : Becomes(d) /\ Does(ui, d)
    BY <2>1, <2>2, <2>3
  <2> QED
    BY <1>0, <2>3, <2>4, HandlerStep
<1> QED
  BY <1>1, <1>2, <1>3, <1>4, <1>5 DEF User

LEMMA AnswerStep ==
    ASSUME SessionInv, NEW r \in http, NEW ok \in BOOLEAN, Answer(r, ok, FALSE)
    PROVE  SessionInv' /\ FieldsLeave
<1>0. /\ Core(ui) /\ Calm(ui) /\ ui \in Fields
      /\ http \subseteq [stage : {"Joining", "Creating", "FetchingToken"}, admission : Nat]
      /\ UNCHANGED <<posts, startup, room, blips, retained>>
  BY DEF SessionInv, Core, Typing, Answer
<1>1. http' = http \ {r} \/ http' = (http \ {r}) \cup {[r EXCEPT !.stage = "FetchingToken"]}
  BY DEF Answer
<1>2. http' \subseteq [stage : {"Joining", "Creating", "FetchingToken"}, admission : Nat]
  <2>1. [r EXCEPT !.stage = "FetchingToken"]
            \in [stage : {"Joining", "Creating", "FetchingToken"}, admission : Nat]
    BY <1>0
  <2> QED
    BY <1>0, <1>1, <2>1
<1>3. CASE Becomes(ui)
  BY <1>0, <1>2, <1>3, DoesNothing, HandlerStep
<1>4. ASSUME Current(ui, r.admission, r.stage),
             NEW d, d = [ui EXCEPT !.stage = "None", !.state = "Failed"], Becomes(d)
      PROVE  SessionInv' /\ FieldsLeave
  <2>1. ui.stage \in Asking
    BY <1>0, <1>4 DEF Current, Asking
  <2>2. Keeps(ui, d) /\ d.state = "Failed" /\ d.stage = "None"
    BY <1>0, <1>4 DEF Keeps, Same, Fields, States, Stages
  <2>3. Does(ui, d)
    BY <1>0, <2>1, <2>2 DEF Does, Moves, Core, Calm, Keeps, Same, Vacant, Asking
  <2> QED
    BY <1>0, <1>2, <1>4, <2>3, HandlerStep
<1>5. ASSUME Current(ui, r.admission, r.stage), r.stage = "Joining",
             NEW d, d = [ui EXCEPT !.stage = "FetchingToken",
                                   !.state = "FetchingCredentials"], Becomes(d)
      PROVE  SessionInv' /\ FieldsLeave
  <2>1. ui.stage = "Joining"
    BY <1>5 DEF Current
  <2>2. Keeps(ui, d) /\ d.state = "FetchingCredentials" /\ d.stage = "FetchingToken"
    BY <1>0, <1>5 DEF Keeps, Same, Fields, States, Stages
  <2>3. Core(d)
    BY <1>0, <2>1, <2>2 DEF Core, Keeps, Same, Asking
  <2>4. Calm(d) /\ Moves(ui, d)
    BY <1>0, <2>1, <2>2 DEF Moves, Calm, Keeps, Vacant, Asking
  <2> QED
    BY <1>0, <1>2, <1>5, <2>3, <2>4, HandlerStep DEF Does
<1>6. ASSUME Current(ui, r.admission, r.stage), r.stage \in {"Creating", "FetchingToken"},
             Becomes(StartRoomSession([ui EXCEPT !.stage = "ReadyToStart"], FALSE))
      PROVE  SessionInv' /\ FieldsLeave
  <2> DEFINE c == [ui EXCEPT !.stage = "ReadyToStart"]
             d == StartRoomSession(c, FALSE)
  <2>1. ui.stage \in {"Creating", "FetchingToken"}
    BY <1>6 DEF Current
  <2>2. Keeps(ui, c) /\ c.state = ui.state /\ c.stage = "ReadyToStart"
    BY <1>0 DEF Keeps, Same, Fields, Stages
  <2>6. Becomes(d)
    BY <1>6
  <2> HIDE DEF c
  <2>3. Core(c) /\ Calm(c)
    BY <1>0, <2>1, <2>2 DEF Core, Calm, Keeps, Same, Asking
  <2>4. Does(c, d)
    BY <2>2, <2>3, StartMoves, FALSE \in BOOLEAN
  <2> HIDE DEF d
  <2>5. Does(ui, d)
    BY <2>1, <2>2, <2>4
       DEF Does, Moves, Keeps, Same, StopsJob, StopsNothing, Begins, Vacant, Asking
  <2> QED
    BY <1>0, <1>2, <2>5, <2>6, HandlerStep
<1> QED
  BY <1>3, <1>4, <1>5, <1>6 DEF Answer

LEMMA PostStep ==
    ASSUME SessionInv, RunPost
    PROVE  SessionInv' /\ FieldsLeave
<1> DEFINE m == Head(posts)
           d == IF m.kind = "stopped" THEN Deliver(ui, m.serial)
                ELSE IF Live(ui, m) THEN Handled(ui, m.kind) ELSE ui
<1>0. /\ Core(ui) /\ Calm(ui) /\ posts \in Seq(Messages) /\ posts # <<>>
      /\ http \subseteq [stage : {"Joining", "Creating", "FetchingToken"}, admission : Nat]
      /\ Becomes(d) /\ posts' = Tail(posts) /\ UNCHANGED <<http, room, retained>>
  BY DEF SessionInv, Typing, RunPost
<1>1. m \in Messages /\ m = posts[1]
  BY <1>0
<1>2. CASE m.kind = "stopped"
  <2>1. d = Deliver(ui, m.serial) /\ IsStopped(1)
    BY <1>1, <1>2 DEF IsStopped
  <2> HIDE DEF d
  <2>2. ui' = d /\ jobs' = jobs \cup Submitted(ui, d)
    BY <1>0 DEF Becomes
  <2> QED
    BY <1>0, <2>1, <2>2, DeliverStep DEF FieldsLeave
<1>3. CASE m.kind # "stopped"
  <2>1. m.kind \in SessionPosts
    BY <1>1, <1>3 DEF Messages
  <2>2. Does(ui, d)
    <3>1. CASE Live(ui, m)
      <4>1. ui.owned /\ d = Handled(ui, m.kind)
        BY <1>3, <3>1 DEF Live, IsCurrentSession
      <4> HIDE DEF d, m
      <4> QED
        BY <1>0, <2>1, <4>1, HandledMoves
    <3>2. CASE ~Live(ui, m)
      <4>1. d = ui
        BY <1>3, <3>2
      <4> HIDE DEF d
      <4> QED
        BY <1>0, <4>1, DoesNothing
    <3> QED
      BY <3>1, <3>2
  <2> HIDE DEF d
  <2> QED
    BY <1>0, <2>2, HandlerStep
<1> QED
  BY <1>2, <1>3

-----------------------------------------------------------------------------
(* The theorems *)

LEMMA SessionInvInit == Init => SessionInv
<1> SUFFICES ASSUME Init PROVE SessionInv
  OBVIOUS
<1>1. NoCompletion \in Completions /\ NoCompletion.kind = "none"
  BY DEF NoCompletion, Completions, Kinds
<1>2. ui \in Fields
  BY <1>1, CoordinatorAssumption DEF Init, Fields, States, Stages
<1>3. Core(ui) /\ Calm(ui)
  BY <1>2 DEF Init, Core, Calm, Asking
<1>4. Typing
  BY DEF Init, Typing, RoomStates
<1>5. StopToken
  BY DEF Init, StopToken
<1>6. Carried /\ Held /\ NoneWhenVacant
  BY DEF Init, Carried, Held, NoneWhenVacant, Alive
<1> QED
  BY <1>3, <1>4, <1>5, <1>6 DEF SessionInv

LEMMA SessionInvStep == SessionInv /\ [Next]_vars => SessionInv' /\ FieldsLeave
<1> SUFFICES ASSUME SessionInv, [Next]_vars PROVE SessionInv' /\ FieldsLeave
  OBVIOUS
<1>0. ui' = ui => FieldsLeave
  BY DEF FieldsLeave
<1>1. CASE User
  BY <1>1, UserStep
<1>2. CASE Server
  BY <1>2, AnswerStep DEF Server
<1>3. ASSUME NEW s \in Sessions, Startup(s) \/ Room(s)
      PROVE  SessionInv' /\ FieldsLeave
  <2>1. ui' = ui
    BY <1>3 DEF Startup, Room, RoomConnected, Published, StartupFails, RoomUp,
                RoomRefused, OnReconnecting, FallsSilent, OnReconnected, OnDisconnected, Thread
  <2> QED
    BY <1>0, <1>3, <2>1, SessionThreadStep
<1>4. CASE Worker
  <2>1. PICK j \in jobs : Retire(j) \/ CleanedUp(j) \/ CleanupFails(j)
    BY <1>4 DEF Worker
  <2>2. ui' = ui
    BY <2>1 DEF Retire, CleanedUp, CleanupFails
  <2> QED
    BY <1>0, <2>1, <2>2, RetireStep, CleanedUpStep, CleanupFailsStep
<1>5. CASE RunPost
  BY <1>5, PostStep
<1>6. CASE UNCHANGED vars
  <2>1. SessionInv'
    BY <1>6 DEF vars, SessionInv, Core, Calm, Typing, StopToken, IsStopped, Carried,
                Held, NoneWhenVacant, Alive
  <2> QED
    BY <1>0, <1>6, <2>1 DEF vars
<1> QED
  BY <1>1, <1>2, <1>3, <1>4, <1>5, <1>6 DEF Next

LEMMA SessionInvAlways == Spec => []SessionInv
BY SessionInvInit, SessionInvStep, PTL DEF Spec

\* Two sessions are never alive together, and the coordinator says Idle or Failed
\* only when the last one has been released, whatever is joined, refused, kicked
\* off or logged out meanwhile (stopRoomSession, beginRoomSession).
THEOREM OneSessionSafety == Spec => []OneSession
<1>1. SessionInv => OneSession
  BY DEF SessionInv, Carried, NoneWhenVacant, Vacant, OneSession
<1> QED
  BY <1>1, SessionInvAlways, PTL

\* A meeting that is being left ends: no answer, callback or completion of before
\* shows it as joined again (finishLeavingMeeting and the guards of the callbacks).
THEOREM LeavingSafety == Spec => LeavingIsFinal
<1>1. SessionInv /\ [Next]_vars
          => [ui.state = "Leaving" => ui'.state \in {"Leaving", "Idle", "Failed"}]_vars
  BY SessionInvStep DEF FieldsLeave
<1> QED
  BY <1>1, SessionInvAlways, PTL DEF Spec, LeavingIsFinal
=============================================================================
