------------------------ MODULE SessionShutdownProofs ------------------------
(***************************************************************************)
(* Theorems about SessionShutdown, for every bound on jobs and calls.      *)
(***************************************************************************)
EXTENDS SessionShutdown, FiniteSetTheorems, FunctionTheorems, TLAPS

\* The records the callers enqueue and the worker starts with are jobs.
LEMMA JobRecords ==
  ASSUME NEW n \in Nat, NEW kind \in Kinds
  PROVE  [id |-> n, kind |-> kind] \in Job
BY DEF Job, Kinds

\* What is posted to the application thread is an event.
LEMMA EventRecords ==
  /\ [type |-> "completion"] \in Event
  /\ [type |-> "drains"] \in Event
  /\ [type |-> "stopped"] \in Event
BY DEF Event

\* Initially everything holds.
LEMMA InitIInv == ASSUME Init PROVE IInv
<1>1. [id |-> 0, kind |-> "plain"] \in Job
  BY JobRecords DEF Kinds
<1>2. TypeOK
  BY <1>1 DEF Init, TypeOK, WorkerPcs, UiPcs, Flags
<1>3. PendingCountsJobs
  BY DEF Init, PendingCountsJobs, Held
<1>4. PhasesAgree
  BY DEF Init, PhasesAgree, accepting, stopping, workerExiting, workerExited, joined
<1>5. QED BY <1>2, <1>3, <1>4 DEF IInv

\* Every step keeps the types.  `pending` stays a natural number because the
\* job that Settle accounts for was counted.
LEMMA TypeStep ==
  ASSUME TypeOK, PendingCountsJobs, [Next]_vars
  PROVE  TypeOK'
<1> USE DEF TypeOK, WorkerPcs, UiPcs, Flags, queueVars, workerVars, callVars, uiVars
<1>1. CASE Submit
  <2>1. [id |-> submitted + 1, kind |-> "plain"] \in Job
    <3>1. submitted + 1 \in Nat /\ "plain" \in Kinds
      BY DEF Kinds
    <3>2. QED BY ONLY <3>1, JobRecords
  <2>2. QED BY <1>1, <2>1 DEF Submit, Enqueue
<1>2. ASSUME NEW kind \in {"cleanup", "session"}, SubmitCleanup(kind) PROVE TypeOK'
  <2>1. [id |-> submitted + 1, kind |-> kind] \in Job
    <3>1. submitted + 1 \in Nat /\ kind \in Kinds
      BY DEF Kinds
    <3>2. QED BY ONLY <3>1, JobRecords
  <2>2. QED BY <1>2, <2>1 DEF SubmitCleanup, Enqueue
<1>3. CASE LateCleanup
  BY <1>3 DEF LateCleanup
<1>4. CASE CloseHeapMaintenanceAdmission
  BY <1>4 DEF CloseHeapMaintenanceAdmission
<1>5. CASE DrainAsync
  <2>1. events' \in Seq(Event)
    <3>1. UNCHANGED events \/ \E e \in Event : events' = Append(events, e)
      BY <1>5, EventRecords DEF DrainAsync, Post
    <3>2. QED BY <3>1
  <2>2. QED BY <1>5, <2>1 DEF DrainAsync
<1>6. CASE ShutdownAsync
  <2>1. events' \in Seq(Event)
    <3>1. UNCHANGED events \/ \E e \in Event : events' = Append(events, e)
      BY <1>6, EventRecords DEF ShutdownAsync, Post
    <3>2. QED BY <3>1
  <2>2. QED BY <1>6, <2>1 DEF ShutdownAsync
<1>7. CASE TakeJob
  BY <1>7 DEF TakeJob
<1>8. CASE CommitExit
  BY <1>8 DEF CommitExit
<1>9. CASE RunJob
  BY <1>9 DEF RunJob
<1>10. CASE Release
  BY <1>10 DEF Release
<1>11. CASE ClaimMaintenance
  BY <1>11 DEF ClaimMaintenance
<1>12. CASE FinishMaintenance
  BY <1>12 DEF FinishMaintenance
<1>13. CASE PostCompletion
  BY <1>13, EventRecords DEF PostCompletion, Post
<1>14. CASE Settle
  <2>1. Retained \/ pending > 0
    BY <1>14 DEF Settle, PendingCountsJobs, Held
  <2>2. pending' \in Nat
    BY <1>14, <2>1 DEF Settle
  <2>3. QED BY <1>14, <2>2 DEF Settle
<1>15. CASE PostIdle
  BY <1>15, EventRecords DEF PostIdle, Post
<1>16. CASE MarkExited
  BY <1>16 DEF MarkExited
<1>17. CASE PostStopped
  BY <1>17, EventRecords DEF PostStopped, Post
<1>18. CASE Dispatch
  BY <1>18 DEF Dispatch
<1>19. CASE Join
  BY <1>19 DEF Join
<1>20. CASE DeliverDrain
  BY <1>20 DEF DeliverDrain
<1>21. CASE DeliverStop
  BY <1>21 DEF DeliverStop
<1>22. CASE Quit
  BY <1>22 DEF Quit
<1>23. CASE Destroy
  BY <1>23 DEF Destroy
<1>24. CASE DestroyJoin
  BY <1>24 DEF DestroyJoin
<1>25. CASE UNCHANGED vars
  BY <1>25 DEF vars
<1>26. QED
  BY <1>1, <1>2, <1>3, <1>4, <1>5, <1>6, <1>7, <1>8, <1>9, <1>10, <1>11,
     <1>12, <1>13, <1>14, <1>15, <1>16, <1>17, <1>18, <1>19, <1>20, <1>21,
     <1>22, <1>23, <1>24, <1>25 DEF Next, Callers, Worker, EventLoop,
     Teardown

\* The worker holds at most one job.
LEMMA HeldBit == Held \in {0, 1}
BY DEF Held

\* Every step keeps the counter of outstanding jobs in agreement with them.
LEMMA CountStep ==
  ASSUME TypeOK, PhasesAgree, PendingCountsJobs, [Next]_vars
  PROVE  PendingCountsJobs'
<1> USE DEF TypeOK, PendingCountsJobs, queueVars, workerVars, callVars, uiVars
<1>1. CASE Submit
  <2>1. Len(jobs') = Len(jobs) + 1
    BY <1>1 DEF Submit, Enqueue
  <2>2. pending' = pending + 1 /\ failedJobs' = failedJobs /\ Held' = Held
    BY <1>1 DEF Submit, Enqueue, Held, Retained
  <2>3. QED BY <2>1, <2>2, HeldBit
<1>2. ASSUME NEW kind \in {"cleanup", "session"}, SubmitCleanup(kind) PROVE PendingCountsJobs'
  <2>1. Len(jobs') = Len(jobs) + 1
    BY <1>2 DEF SubmitCleanup, Enqueue
  <2>2. pending' = pending + 1 /\ failedJobs' = failedJobs /\ Held' = Held
    BY <1>2 DEF SubmitCleanup, Enqueue, Held, Retained
  <2>3. QED BY <2>1, <2>2, HeldBit
<1>3. CASE LateCleanup
  BY <1>3 DEF LateCleanup, Held, Retained
<1>4. CASE CloseHeapMaintenanceAdmission
  BY <1>4 DEF CloseHeapMaintenanceAdmission, Held, Retained
<1>5. CASE DrainAsync
  BY <1>5 DEF DrainAsync, Held, Retained
<1>6. CASE ShutdownAsync
  BY <1>6 DEF ShutdownAsync, Held, Retained
<1>7. CASE TakeJob
  BY <1>7 DEF TakeJob, Held, Retained
<1>8. CASE CommitExit
  BY <1>8 DEF CommitExit, Held, Retained
<1>9. CASE RunJob
  BY <1>9 DEF RunJob, Held, Retained
<1>10. CASE Release
  <2>1. CASE Retained
    <3>1. Len(failedJobs') = Len(failedJobs) + 1
      BY <1>10, <2>1 DEF Release
    <3>2. worker' = "report" /\ Held = 1 /\ Held' = 0
      BY <1>10, <2>1 DEF Release, Held, Retained
    <3>3. pending' = pending /\ jobs' = jobs
      BY <1>10 DEF Release
    <3>4. QED BY <3>1, <3>2, <3>3
  <2>2. CASE ~Retained
    <3>1. Held = 1 /\ Held' = 1
      BY <1>10, <2>2 DEF Release, Held, Retained
    <3>2. QED BY <1>10, <2>2, <3>1 DEF Release
  <2>3. QED BY <2>1, <2>2
<1>11. CASE ClaimMaintenance
  <2>1. Held = 1 /\ Held' = 1
    BY <1>11 DEF ClaimMaintenance, PhasesAgree, Held, Retained
  <2>2. QED BY <1>11, <2>1 DEF ClaimMaintenance
<1>12. CASE FinishMaintenance
  <2>1. Held = 1 /\ Held' = 1
    BY <1>12 DEF FinishMaintenance, PhasesAgree, Held, Retained
  <2>2. QED BY <1>12, <2>1 DEF FinishMaintenance
<1>13. CASE PostCompletion
  BY <1>13 DEF PostCompletion, Held, Retained
<1>14. CASE Settle
  BY <1>14 DEF Settle, Held, Retained
<1>15. CASE PostIdle
  BY <1>15 DEF PostIdle, Held, Retained
<1>16. CASE MarkExited
  BY <1>16 DEF MarkExited, Held, Retained
<1>17. CASE PostStopped
  BY <1>17 DEF PostStopped, Held, Retained
<1>18. CASE Dispatch
  BY <1>18 DEF Dispatch, Held, Retained
<1>19. CASE Join
  BY <1>19 DEF Join, Held, Retained
<1>20. CASE DeliverDrain
  BY <1>20 DEF DeliverDrain, Held, Retained
<1>21. CASE DeliverStop
  BY <1>21 DEF DeliverStop, Held, Retained
<1>22. CASE Quit
  BY <1>22 DEF Quit, Held, Retained
<1>23. CASE Destroy
  BY <1>23 DEF Destroy, Held, Retained
<1>24. CASE DestroyJoin
  BY <1>24 DEF DestroyJoin, Held, Retained
<1>25. CASE UNCHANGED vars
  BY <1>25 DEF vars, Held, Retained
<1>26. QED
  BY <1>1, <1>2, <1>3, <1>4, <1>5, <1>6, <1>7, <1>8, <1>9, <1>10, <1>11,
     <1>12, <1>13, <1>14, <1>15, <1>16, <1>17, <1>18, <1>19, <1>20, <1>21,
     <1>22, <1>23, <1>24, <1>25 DEF Next, Callers, Worker, EventLoop,
     Teardown

\* Every step keeps program counters and flags in agreement.
LEMMA PhaseStep ==
  ASSUME TypeOK, PhasesAgree, PendingCountsJobs, [Next]_vars
  PROVE  PhasesAgree'
<1> USE DEF TypeOK, PhasesAgree, accepting, stopping, workerExiting, workerExited, joined, queueVars, workerVars, callVars, uiVars
<1>1. CASE Submit
  BY <1>1 DEF Submit, Enqueue
<1>2. ASSUME NEW kind \in {"cleanup", "session"}, SubmitCleanup(kind) PROVE PhasesAgree'
  BY <1>2 DEF SubmitCleanup, Enqueue
<1>3. CASE LateCleanup
  BY <1>3 DEF LateCleanup
<1>4. CASE CloseHeapMaintenanceAdmission
  BY <1>4 DEF CloseHeapMaintenanceAdmission
<1>5. CASE DrainAsync
  BY <1>5 DEF DrainAsync
<1>6. CASE ShutdownAsync
  BY <1>6 DEF ShutdownAsync
<1>7. CASE TakeJob
  BY <1>7 DEF TakeJob
<1>8. CASE CommitExit
  BY <1>8 DEF CommitExit
<1>9. CASE RunJob
  BY <1>9 DEF RunJob
<1>10. CASE Release
  BY <1>10 DEF Release
<1>11. CASE ClaimMaintenance
  BY <1>11 DEF ClaimMaintenance
<1>12. CASE FinishMaintenance
  BY <1>12 DEF FinishMaintenance
<1>13. CASE PostCompletion
  BY <1>13 DEF PostCompletion
<1>14. CASE Settle
  BY <1>14 DEF Settle
<1>15. CASE PostIdle
  BY <1>15 DEF PostIdle
<1>16. CASE MarkExited
  BY <1>16 DEF MarkExited
<1>17. CASE PostStopped
  BY <1>17 DEF PostStopped
<1>18. CASE Dispatch
  BY <1>18 DEF Dispatch
<1>19. CASE Join
  BY <1>19 DEF Join
<1>20. CASE DeliverDrain
  BY <1>20 DEF DeliverDrain
<1>21. CASE DeliverStop
  BY <1>21 DEF DeliverStop
<1>22. CASE Quit
  BY <1>22 DEF Quit
<1>23. CASE Destroy
  BY <1>23 DEF Destroy
<1>24. CASE DestroyJoin
  BY <1>24 DEF DestroyJoin
<1>25. CASE UNCHANGED vars
  BY <1>25 DEF vars
<1>26. QED
  BY <1>1, <1>2, <1>3, <1>4, <1>5, <1>6, <1>7, <1>8, <1>9, <1>10, <1>11,
     <1>12, <1>13, <1>14, <1>15, <1>16, <1>17, <1>18, <1>19, <1>20, <1>21,
     <1>22, <1>23, <1>24, <1>25 DEF Next, Callers, Worker, EventLoop,
     Teardown

\* The inductive invariant.
LEMMA Invariance == Spec => []IInv
<1>1. Init => IInv
  BY InitIInv
<1>2. IInv /\ [Next]_vars => IInv'
  BY TypeStep, CountStep, PhaseStep DEF IInv
<1>3. QED BY <1>1, <1>2, PTL DEF Spec

\* The counter that every decision of the service reads agrees with the jobs
\* that exist (State::pending, lines 316, 210, 251, 476).
THEOREM Accounting == Spec => []PendingCountsJobs
BY Invariance, PTL DEF IInv

\* A worker that has committed to exit leaves no native owner behind, queued
\* or retained, and none can be queued afterwards (Run, EnqueueCleanup).
THEOREM ExitSafety == Spec => []ExitLeavesNothing
<1>1. ASSUME IInv PROVE ExitLeavesNothing
  <2>1. SUFFICES ASSUME workerExiting PROVE ExitLeavesNothing
    BY DEF ExitLeavesNothing
  <2>2. pending = 0 /\ stopping /\ ~accepting
    BY <1>1, <2>1 DEF IInv, PhasesAgree
  <2>3. Len(jobs) = 0 /\ Len(failedJobs) = 0
    BY <1>1, <2>2, HeldBit DEF IInv, PendingCountsJobs, TypeOK
  <2>4. jobs = <<>> /\ failedJobs = <<>>
    BY <1>1, <2>3 DEF IInv, TypeOK
  <2>5. QED BY <2>2, <2>4 DEF ExitLeavesNothing
<1>2. QED BY <1>1, Invariance, PTL

\* The application thread never joins a worker that may still run a job
\* (DeliverStopped, ~SessionShutdownService aside).
THEOREM JoinSafety == Spec => []JoinNeverWaitsForJob
<1>1. ASSUME IInv PROVE JoinNeverWaitsForJob
  BY <1>1 DEF IInv, PhasesAgree, JoinNeverWaitsForJob
<1>2. QED BY <1>1, Invariance, PTL

\* A drain callback is delivered only in a quiet moment (DeliverDrains).
THEOREM DrainSafety == Spec => DrainOnlyWhenQuiet
<1> DEFINE Quiet == /\ jobs = <<>> /\ failedJobs = <<>>
                    /\ worker \notin {"run", "ran", "claim", "maintain"}
<1>1. ASSUME IInv, [Next]_vars PROVE drained' > drained => Quiet
  <2>1. SUFFICES ASSUME drained' > drained PROVE Quiet
    OBVIOUS
  <2>2. pending = 0
    <3>1. DeliverDrain \/ drained' = drained
      BY <1>1 DEF Next, Callers, Worker, EventLoop, Teardown, Submit, SubmitCleanup,
        LateCleanup, CloseHeapMaintenanceAdmission, DrainAsync, ShutdownAsync,
        TakeJob, CommitExit, RunJob, Release, ClaimMaintenance, FinishMaintenance,
        PostCompletion, Settle, PostIdle, MarkExited, PostStopped, Dispatch, Join,
        DeliverStop, Quit, Destroy, DestroyJoin, callVars, vars
    <3>2. CASE DeliverDrain
      BY <1>1, <2>1, <3>2 DEF DeliverDrain, IInv, TypeOK
    <3>3. QED BY <1>1, <2>1, <3>1, <3>2 DEF IInv, TypeOK
  <2>3. Held = 0 /\ Len(jobs) = 0 /\ Len(failedJobs) = 0
    BY <1>1, <2>2, HeldBit DEF IInv, PendingCountsJobs, TypeOK
  <2>4. jobs = <<>> /\ failedJobs = <<>>
    BY <1>1, <2>3 DEF IInv, TypeOK
  <2>5. QED BY <2>3, <2>4 DEF Held
<1>2. QED BY <1>1, Invariance, PTL DEF Spec, DrainOnlyWhenQuiet

-----------------------------------------------------------------------------
(* Stopping: the posted callbacks are a queue, and what is posted last is   *)
(* heard last.                                                             *)

\* The completions in a queue of posted callbacks, and the job whose
\* completion has still to be posted.
Reports(s) == {i \in DOMAIN s : s[i].type = "completion"}
Unreported == IF worker \in {"run", "ran", "claim", "maintain", "report"} THEN 1 ELSE 0

\* Every job accepted is queued, in hand, on its way or has been reported.
JobsAccounted ==
  EndpointOpen =>
    submitted = completions + Cardinality(Reports(events)) + Len(jobs) + Unreported

\* A stop is posted once the worker has left its loop: behind all completions.
StopsComeLast ==
  \A i \in DOMAIN events : events[i].type = "stopped" =>
    workerExited /\ \A j \in Reports(events) : j < i

\* So it is heard when all completions have been heard.
StopsAreHeardLast ==
  (ui \in {"join", "lastDrains", "stops"} \/ stopCallbacks > 0) =>
    workerExited /\ Reports(events) = {}

StopInv == JobsAccounted /\ StopsComeLast /\ StopsAreHeardLast /\ StoppedMeansReleased

\* There are finitely many completions in a queue.
LEMMA ReportsFinite ==
  ASSUME NEW s \in Seq(Event)
  PROVE  IsFiniteSet(Reports(s)) /\ Cardinality(Reports(s)) \in Nat
<1>1. Reports(s) \in SUBSET (1..Len(s))
  BY DEF Reports
<1>2. IsFiniteSet(1..Len(s))
  BY FS_Interval
<1>3. IsFiniteSet(Reports(s))
  BY <1>1, <1>2, FS_Subset
<1>4. QED BY <1>3, FS_CardinalityType

\* Posting a completion adds one, posting anything else none.
LEMMA ReportsAppend ==
  ASSUME NEW s \in Seq(Event), NEW e \in Event
  PROVE  /\ Reports(Append(s, e)) =
              IF e.type = "completion" THEN Reports(s) \cup {Len(s) + 1} ELSE Reports(s)
         /\ Cardinality(Reports(Append(s, e))) =
              IF e.type = "completion" THEN Cardinality(Reports(s)) + 1
                                       ELSE Cardinality(Reports(s))
<1>1. Reports(Append(s, e)) =
        IF e.type = "completion" THEN Reports(s) \cup {Len(s) + 1} ELSE Reports(s)
  BY DEF Reports
<1>2. Len(s) + 1 \notin Reports(s)
  BY DEF Reports
<1>3. IsFiniteSet(Reports(s))
  BY ReportsFinite
<1>4. QED BY <1>1, <1>2, <1>3, FS_AddElement

\* Taking the first callback moves the others up by one.
LEMMA ReportsTail ==
  ASSUME NEW s \in Seq(Event), s # <<>>
  PROVE  /\ Reports(Tail(s)) = {i \in 1..(Len(s) - 1) : i + 1 \in Reports(s)}
         /\ Cardinality(Reports(s)) =
              IF Head(s).type = "completion" THEN Cardinality(Reports(Tail(s))) + 1
                                             ELSE Cardinality(Reports(Tail(s)))
<1> DEFINE Rest == Reports(s) \ {1}
           Up == [i \in Reports(Tail(s)) |-> i + 1]
<1>1. Tail(s) \in Seq(Event) /\ Len(Tail(s)) = Len(s) - 1 /\ DOMAIN Tail(s) = 1..(Len(s) - 1)
  OBVIOUS
<1>2. \A i \in 1..(Len(s) - 1) : Tail(s)[i] = s[i + 1]
  OBVIOUS
<1>3. Reports(Tail(s)) = {i \in 1..(Len(s) - 1) : i + 1 \in Reports(s)}
  BY <1>1, <1>2 DEF Reports
<1>4. Up \in Bijection(Reports(Tail(s)), Rest)
  <2>1. Up \in [Reports(Tail(s)) -> Rest]
    BY <1>3
  <2>2. \A i, j \in Reports(Tail(s)) : Up[i] = Up[j] => i = j
    BY <1>3
  <2>3. \A k \in Rest : \E i \in Reports(Tail(s)) : Up[i] = k
    <3>1. SUFFICES ASSUME NEW k \in Rest PROVE \E i \in Reports(Tail(s)) : Up[i] = k
      OBVIOUS
    <3>2. k \in 2..Len(s) /\ k - 1 \in 1..(Len(s) - 1) /\ (k - 1) + 1 = k
      BY DEF Reports
    <3>3. k - 1 \in Reports(Tail(s))
      BY <1>3, <3>2
    <3>4. QED BY <3>2, <3>3
  <2>4. QED BY <2>1, <2>2, <2>3, Fun_IsBij
<1>5. IsFiniteSet(Reports(Tail(s))) /\ Cardinality(Reports(Tail(s))) \in Nat
  BY <1>1, ReportsFinite
<1>6. Cardinality(Rest) = Cardinality(Reports(Tail(s)))
  <2>1. ExistsBijection(Reports(Tail(s)), Rest)
    BY <1>4 DEF ExistsBijection
  <2>2. QED BY <1>5, <2>1, FS_Bijection
<1>7. Cardinality(Rest) = IF 1 \in Reports(s) THEN Cardinality(Reports(s)) - 1
                                              ELSE Cardinality(Reports(s))
  BY ReportsFinite, FS_RemoveElement
<1>8. 1 \in Reports(s) <=> Head(s).type = "completion"
  BY DEF Reports
<1>9. QED BY <1>3, <1>5, <1>6, <1>7, <1>8, ReportsFinite

\* Most posts are no completions: they are posted behind what is queued.
LEMMA PostKeepsReports ==
  ASSUME events \in Seq(Event), NEW e \in Event, e.type # "completion", Post(e)
  PROVE  Reports(events') = Reports(events)
BY ReportsAppend DEF Post

\* The accounts balance after every step while the application runs.
LEMMA AccountStep ==
  ASSUME IInv, JobsAccounted, [Next]_vars
  PROVE  JobsAccounted'
<1> USE DEF TypeOK, queueVars, workerVars, callVars, uiVars
<1>1. SUFFICES ASSUME EndpointOpen'
      PROVE submitted' = completions' + Cardinality(Reports(events')) + Len(jobs') + Unreported'
  BY DEF JobsAccounted
<1>2. TypeOK /\ PhasesAgree
  BY DEF IInv
<1>3. Cardinality(Reports(events)) \in Nat
  BY <1>2, ReportsFinite
<1>4. EndpointOpen
  BY <1>1, <1>2 DEF EndpointOpen, Next, Callers, Worker, EventLoop, Teardown, Submit,
    SubmitCleanup, LateCleanup, CloseHeapMaintenanceAdmission, DrainAsync, ShutdownAsync,
    TakeJob, CommitExit, RunJob, Release, ClaimMaintenance, FinishMaintenance,
    PostCompletion, Settle, PostIdle, MarkExited, PostStopped, Dispatch, Join,
    DeliverDrain, DeliverStop, Quit, Destroy, DestroyJoin, vars
<1>5. submitted = completions + Cardinality(Reports(events)) + Len(jobs) + Unreported
  BY <1>4 DEF JobsAccounted
<1>6. CASE Submit \/ SubmitCleanup("cleanup") \/ SubmitCleanup("session")
  <2>1. \E kind \in Kinds : Enqueue(kind)
    BY <1>6 DEF Submit, SubmitCleanup, Kinds
  <2>2. PICK kind \in Kinds : Enqueue(kind)
    BY <2>1
  <2>3. [id |-> submitted + 1, kind |-> kind] \in Job
    BY <1>2, JobRecords
  <2>4. Len(jobs') = Len(jobs) + 1 /\ submitted' = submitted + 1
    BY <1>2, <2>2, <2>3 DEF Enqueue
  <2>5. UNCHANGED <<completions, events, worker>>
    BY <1>6 DEF Submit, SubmitCleanup
  <2>6. QED BY <1>2, <1>3, <1>5, <2>4, <2>5 DEF Unreported
<1>7. CASE TakeJob
  <2>1. Len(jobs') = Len(jobs) - 1
    BY <1>2, <1>7 DEF TakeJob
  <2>2. UNCHANGED <<completions, events, submitted>> /\ worker = "wait" /\ worker' = "run"
    BY <1>7 DEF TakeJob
  <2>3. QED BY <1>2, <1>3, <1>5, <2>1, <2>2 DEF Unreported
<1>8. CASE PostCompletion
  <2>1. events' = Append(events, [type |-> "completion"])
    BY <1>4, <1>8 DEF PostCompletion, Post
  <2>2. Cardinality(Reports(events')) = Cardinality(Reports(events)) + 1
    BY <1>2, <2>1, ReportsAppend, EventRecords
  <2>3. worker = "report" /\ worker' = "settle" /\ UNCHANGED <<completions, jobs, submitted>>
    BY <1>8 DEF PostCompletion
  <2>4. QED BY <1>2, <1>3, <1>5, <2>2, <2>3 DEF Unreported
<1>9. CASE DrainAsync \/ ShutdownAsync \/ PostIdle \/ PostStopped
  <2>1. Reports(events') = Reports(events)
    BY <1>2, <1>9, PostKeepsReports, EventRecords
      DEF DrainAsync, ShutdownAsync, PostIdle, PostStopped
  <2>2. UNCHANGED <<completions, jobs, submitted, Unreported>>
    BY <1>9 DEF DrainAsync, ShutdownAsync, PostIdle, PostStopped, Unreported
  <2>3. QED BY <1>5, <2>1, <2>2
<1>10. CASE Dispatch
  <2>1. events # <<>> /\ events' = Tail(events)
    BY <1>10 DEF Dispatch
  <2>2. Cardinality(Reports(events)) =
          IF Head(events).type = "completion" THEN Cardinality(Reports(events')) + 1
                                              ELSE Cardinality(Reports(events'))
    BY <1>2, <2>1, ReportsTail
  <2>3. Cardinality(Reports(events')) \in Nat
    <3>1. events' \in Seq(Event)
      BY <1>2, <2>1
    <3>2. QED BY ONLY <3>1, ReportsFinite
  <2>4. completions' = IF Head(events).type = "completion" THEN completions + 1 ELSE completions
    BY <1>10 DEF Dispatch
  <2>5. UNCHANGED <<jobs, submitted, Unreported>>
    BY <1>10 DEF Dispatch, Unreported
  <2>6. QED BY <1>2, <1>3, <1>5, <2>2, <2>3, <2>4, <2>5 DEF Unreported
<1>11. CASE Quit \/ Destroy \/ DestroyJoin
  BY <1>1, <1>11 DEF Quit, Destroy, DestroyJoin, EndpointOpen
<1>12. CASE LateCleanup \/ CloseHeapMaintenanceAdmission \/ CommitExit \/ RunJob \/ Release
         \/ ClaimMaintenance \/ FinishMaintenance \/ Settle \/ MarkExited \/ Join
         \/ DeliverDrain \/ DeliverStop \/ UNCHANGED vars
  <2>1. UNCHANGED <<completions, jobs, submitted, events>>
    BY <1>12 DEF LateCleanup, CloseHeapMaintenanceAdmission, CommitExit, RunJob, Release,
      ClaimMaintenance, FinishMaintenance, Settle, MarkExited, Join, DeliverDrain,
      DeliverStop, vars
  <2>2. UNCHANGED Unreported
    BY <1>12 DEF LateCleanup, CloseHeapMaintenanceAdmission, CommitExit, RunJob, Release,
      ClaimMaintenance, FinishMaintenance, Settle, MarkExited, Join, DeliverDrain,
      DeliverStop, vars, Unreported
  <2>3. QED BY <1>5, <2>1, <2>2
<1>13. QED
  BY <1>6, <1>7, <1>8, <1>9, <1>10, <1>11, <1>12
    DEF Next, Callers, Worker, EventLoop, Teardown

\* What a step does to the queue of posted callbacks: it leaves it, adds a
\* completion before the worker has left, adds another callback, takes the
\* first one, or drops them all.
LEMMA EventStep ==
  ASSUME IInv, [Next]_vars
  PROVE  \/ UNCHANGED events
         \/ ~workerExited /\ events' = Append(events, [type |-> "completion"])
         \/ events' = Append(events, [type |-> "drains"])
         \/ workerExited' /\ events' = Append(events, [type |-> "stopped"])
         \/ events # <<>> /\ events' = Tail(events)
         \/ events' = <<>>
<1>1. CASE PostCompletion
  BY <1>1 DEF PostCompletion, Post, IInv, PhasesAgree
<1>2. CASE DrainAsync
  BY <1>2 DEF DrainAsync, Post
<1>3. CASE ShutdownAsync
  BY <1>3 DEF ShutdownAsync, Post, workerExited
<1>4. CASE PostIdle
  BY <1>4 DEF PostIdle, Post
<1>5. CASE PostStopped
  BY <1>5 DEF PostStopped, Post, IInv, PhasesAgree, workerExited
<1>6. CASE Dispatch
  BY <1>6 DEF Dispatch
<1>7. CASE Quit
  BY <1>7 DEF Quit
<1>8. QED
  BY <1>1, <1>2, <1>3, <1>4, <1>5, <1>6, <1>7 DEF Next, Callers, Worker, EventLoop,
    Teardown, Submit, SubmitCleanup, LateCleanup, CloseHeapMaintenanceAdmission,
    TakeJob, CommitExit, RunJob, Release, ClaimMaintenance, FinishMaintenance, Settle,
    MarkExited, Join, DeliverDrain, DeliverStop, Destroy, DestroyJoin, vars

\* The worker does not come back.
LEMMA ExitedForGood ==
  ASSUME IInv, [Next]_vars, workerExited
  PROVE  workerExited' /\ UNCHANGED <<submitted, jobs, failedJobs>>
BY DEF IInv, PhasesAgree, TypeOK, Next, Callers, Worker, EventLoop, Teardown, Submit,
  SubmitCleanup, LateCleanup, CloseHeapMaintenanceAdmission, DrainAsync, ShutdownAsync,
  TakeJob, CommitExit, RunJob, Release, ClaimMaintenance, FinishMaintenance,
  PostCompletion, Settle, PostIdle, MarkExited, PostStopped, Dispatch, Join,
  DeliverDrain, DeliverStop, Quit, Destroy, DestroyJoin, vars, queueVars,
  workerVars, callVars, uiVars, workerExited, accepting, stopping, workerExiting

\* A completion is never posted behind a stop.
LEMMA StopsComeLastStep ==
  ASSUME IInv, StopsComeLast, [Next]_vars
  PROVE  StopsComeLast'
<1>1. events \in Seq(Event)
  BY DEF IInv, TypeOK
<1>2. workerExited => workerExited'
  BY ExitedForGood
<1>3. CASE UNCHANGED events
  BY <1>2, <1>3 DEF StopsComeLast
<1>4. CASE ~workerExited /\ events' = Append(events, [type |-> "completion"])
  BY <1>1, <1>4, EventRecords DEF StopsComeLast
<1>5. CASE events' = Append(events, [type |-> "drains"])
  <2>1. Reports(events') = Reports(events)
    BY <1>1, <1>5, ReportsAppend, EventRecords
  <2>2. QED BY <1>1, <1>2, <1>5, <2>1, EventRecords DEF StopsComeLast
<1>6. CASE workerExited' /\ events' = Append(events, [type |-> "stopped"])
  <2>1. Reports(events') = Reports(events)
    BY <1>1, <1>6, ReportsAppend, EventRecords
  <2>2. \A j \in Reports(events) : j < Len(events) + 1
    BY <1>1 DEF Reports
  <2>3. QED BY <1>1, <1>6, <2>1, <2>2, EventRecords DEF StopsComeLast
<1>7. CASE events # <<>> /\ events' = Tail(events)
  <2>1. SUFFICES ASSUME NEW i \in DOMAIN events', events'[i].type = "stopped",
                        NEW j \in Reports(events')
        PROVE workerExited' /\ j < i
    BY <1>1, <1>2, <1>7 DEF StopsComeLast
  <2>2. i \in 1..(Len(events) - 1) /\ events[i + 1].type = "stopped"
    BY <1>1, <1>7, <2>1
  <2>3. j \in 1..(Len(events) - 1) /\ j + 1 \in Reports(events)
    BY <1>1, <1>7, ReportsTail
  <2>4. workerExited /\ j + 1 < i + 1
    BY <1>1, <2>2, <2>3 DEF StopsComeLast
  <2>5. QED BY <1>2, <2>2, <2>3, <2>4
<1>8. CASE events' = <<>>
  BY <1>8 DEF StopsComeLast
<1>9. QED BY <1>3, <1>4, <1>5, <1>6, <1>7, <1>8, EventStep

\* After a stop was heard no completion is to come.
LEMMA StopsAreHeardLastStep ==
  ASSUME IInv, StopsComeLast, StopsAreHeardLast, [Next]_vars
  PROVE  StopsAreHeardLast'
<1> DEFINE Heard == ui \in {"join", "lastDrains", "stops"} \/ stopCallbacks > 0
<1>1. SUFFICES ASSUME Heard' PROVE workerExited' /\ Reports(events') = {}
  BY DEF StopsAreHeardLast
<1>2. events \in Seq(Event)
  BY DEF IInv, TypeOK
<1>3. CASE Heard
  <2>1. workerExited /\ Reports(events) = {}
    BY <1>3 DEF StopsAreHeardLast
  <2>2. Reports(<<>>) = {}
    BY DEF Reports
  <2>3. events # <<>> => Reports(Tail(events)) = {}
    BY <1>2, <2>1, ReportsTail
  <2>4. Reports(events') = {}
    <3>1. /\ Reports(Append(events, [type |-> "drains"])) = {}
          /\ Reports(Append(events, [type |-> "stopped"])) = {}
      BY <1>2, <2>1, ReportsAppend, EventRecords
    <3>2. \/ UNCHANGED events
          \/ events' = Append(events, [type |-> "drains"])
          \/ events' = Append(events, [type |-> "stopped"])
          \/ events # <<>> /\ events' = Tail(events)
          \/ events' = <<>>
      BY <2>1, EventStep
    <3>3. QED BY <2>1, <2>2, <2>3, <3>1, <3>2
  <2>5. QED BY <2>1, <2>4, ExitedForGood
<1>4. CASE ~Heard
  <2>1. Dispatch /\ Head(events).type = "stopped" /\ workerExited
    BY <1>1, <1>4 DEF IInv, TypeOK, Next, Callers, Worker, EventLoop, Teardown, Submit,
      SubmitCleanup, LateCleanup, CloseHeapMaintenanceAdmission, DrainAsync,
      ShutdownAsync, TakeJob, CommitExit, RunJob, Release, ClaimMaintenance,
      FinishMaintenance, PostCompletion, Settle, PostIdle, MarkExited, PostStopped,
      Dispatch, Join, DeliverDrain, DeliverStop, Quit, Destroy, DestroyJoin, vars,
      queueVars, workerVars, callVars, uiVars
  <2>2. events # <<>> /\ events' = Tail(events)
    BY <2>1 DEF Dispatch
  <2>3. 1 \in DOMAIN events /\ events[1].type = "stopped"
    BY <1>2, <2>1, <2>2
  <2>4. Reports(events) = {}
    BY <1>2, <2>3 DEF StopsComeLast, Reports
  <2>5. Reports(events') = {}
    BY <1>2, <2>2, <2>4, ReportsTail
  <2>6. QED BY <2>1, <2>5, ExitedForGood
<1>5. QED BY <1>3, <1>4

\* When the stop callbacks run, every account is settled, and it stays so.
LEMMA ReleasedStep ==
  ASSUME IInv, StopInv, [Next]_vars
  PROVE  StoppedMeansReleased'
<1> USE DEF TypeOK, queueVars, workerVars, callVars, uiVars
<1>1. SUFFICES ASSUME stopCallbacks' > 0
      PROVE joined' /\ failedJobs' = <<>> /\ completions' = submitted'
  BY DEF StoppedMeansReleased
<1>2. TypeOK /\ PhasesAgree /\ PendingCountsJobs
  BY DEF IInv
<1>3. CASE stopCallbacks > 0
  <2>1. joined /\ failedJobs = <<>> /\ completions = submitted
    BY <1>3 DEF StopInv, StoppedMeansReleased
  <2>2. workerExited /\ Reports(events) = {}
    BY <1>3 DEF StopInv, StopsAreHeardLast
  <2>3. UNCHANGED <<submitted, failedJobs>>
    BY <2>2, ExitedForGood
  <2>4. joined'
    BY <1>2, <2>1 DEF joined, Next, Callers, Worker, EventLoop, Teardown, Submit,
      SubmitCleanup, LateCleanup, CloseHeapMaintenanceAdmission, DrainAsync,
      ShutdownAsync, TakeJob, CommitExit, RunJob, Release, ClaimMaintenance,
      FinishMaintenance, PostCompletion, Settle, PostIdle, MarkExited, PostStopped,
      Dispatch, Join, DeliverDrain, DeliverStop, Quit, Destroy, DestroyJoin, vars
  <2>5. completions' = completions
    <3>1. CASE Dispatch
      <4>1. events # <<>> => Head(events).type # "completion"
        BY <1>2, <2>2 DEF Reports
      <4>2. QED BY <3>1, <4>1 DEF Dispatch
    <3>2. CASE ~Dispatch
      BY <3>2 DEF Next, Callers, Worker, EventLoop, Teardown, Submit,
        SubmitCleanup, LateCleanup, CloseHeapMaintenanceAdmission, DrainAsync,
        ShutdownAsync, TakeJob, CommitExit, RunJob, Release, ClaimMaintenance,
        FinishMaintenance, PostCompletion, Settle, PostIdle, MarkExited, PostStopped,
        Join, DeliverDrain, DeliverStop, Quit, Destroy, DestroyJoin, vars
    <3>3. QED BY <3>1, <3>2
  <2>6. QED BY <2>1, <2>3, <2>4, <2>5
<1>4. CASE ~(stopCallbacks > 0)
  <2>1. DeliverStop
    BY <1>1, <1>2, <1>4 DEF Next, Callers, Worker, EventLoop, Teardown, Submit,
      SubmitCleanup, LateCleanup, CloseHeapMaintenanceAdmission, DrainAsync,
      ShutdownAsync, TakeJob, CommitExit, RunJob, Release, ClaimMaintenance,
      FinishMaintenance, PostCompletion, Settle, PostIdle, MarkExited, PostStopped,
      Dispatch, Join, DeliverDrain, Quit, Destroy, DestroyJoin, vars
  <2>2. ui = "stops" /\ UNCHANGED <<flags, failedJobs, completions, submitted>>
    BY <2>1 DEF DeliverStop
  <2>3. joined /\ worker = "done" /\ workerExiting
    BY <1>2, <2>2 DEF PhasesAgree
  <2>4. jobs = <<>> /\ failedJobs = <<>>
    <3>1. pending = 0
      BY <1>2, <2>3 DEF PhasesAgree
    <3>2. Len(jobs) = 0 /\ Len(failedJobs) = 0
      BY <1>2, <3>1, HeldBit DEF PendingCountsJobs
    <3>3. QED BY <1>2, <3>2
  <2>5. Reports(events) = {}
    BY <2>2 DEF StopInv, StopsAreHeardLast
  <2>6. Cardinality(Reports(events)) = 0 /\ Len(jobs) = 0 /\ Unreported = 0
    BY <2>3, <2>4, <2>5, FS_EmptySet DEF Unreported
  <2>7. submitted = completions
    BY <1>2, <2>2, <2>6 DEF StopInv, JobsAccounted, EndpointOpen
  <2>8. QED BY <2>2, <2>3, <2>4, <2>7 DEF joined
<1>5. QED BY <1>3, <1>4

\* The application is told that the service has stopped only when the worker
\* is joined, nothing native is retained and every completion has been heard
\* (DeliverStopped, Run).
THEOREM StopSafety == Spec => []StoppedMeansReleased
<1>1. Init => StopInv
  <2>1. SUFFICES ASSUME Init PROVE StopInv
    OBVIOUS
  <2>2. /\ events = <<>> /\ jobs = <<>> /\ submitted = 0 /\ completions = 0
        /\ stopCallbacks = 0 /\ ui = "loop" /\ worker = "wait"
    BY <2>1 DEF Init
  <2>3. Reports(<<>>) = {}
    BY DEF Reports
  <2>4. Cardinality(Reports(events)) = 0
    BY <2>2, <2>3, FS_EmptySet
  <2>5. JobsAccounted
    BY <2>2, <2>4 DEF JobsAccounted, Unreported
  <2>6. StopsComeLast
    BY <2>2 DEF StopsComeLast
  <2>7. StopsAreHeardLast /\ StoppedMeansReleased
    BY <2>2 DEF StopsAreHeardLast, StoppedMeansReleased
  <2>8. QED BY <2>5, <2>6, <2>7 DEF StopInv
<1>2. IInv /\ StopInv /\ [Next]_vars => StopInv'
  BY AccountStep, StopsComeLastStep, StopsAreHeardLastStep, ReleasedStep DEF StopInv
<1>3. StopInv => StoppedMeansReleased
  BY DEF StopInv
<1>4. QED BY <1>1, <1>2, <1>3, Invariance, PTL DEF Spec
=============================================================================
