--------------------------- MODULE SessionShutdown ---------------------------
(***************************************************************************)
(* SessionShutdownService (src/core/session_shutdown_service.h): the       *)
(* application-owned worker thread that runs native cleanup jobs, reports  *)
(* their completions to the Qt application thread, tells it when the queue *)
(* is quiet (DrainAsync) and, once asked to stop, lets itself be joined    *)
(* (ShutdownAsync) or, as a last resort, is joined by the destructor.      *)
(*                                                                         *)
(* A job is the record of its submission number and its kind: a plain job  *)
(* (Submit), a native cleanup (SubmitCleanup) or the cleanup of a session  *)
(* (SubmitSessionCleanup).  Drain and stop callbacks are counted: the      *)
(* service treats them all alike.                                          *)
(***************************************************************************)
EXTENDS Naturals, Sequences

CONSTANTS MaxJobs,    \* bound: jobs submitted in a behaviour
          MaxDrains,  \* bound: calls of DrainAsync
          MaxStops    \* bound: calls of ShutdownAsync

ASSUME BoundsAssumption == MaxJobs \in Nat /\ MaxDrains \in Nat /\ MaxStops \in Nat

Kinds == {"plain", "cleanup", "session"}
Job == [id : Nat, kind : Kinds]

Flags == {"accepting", "stopping", "workerExiting", "workerExited",
          "heapMaintenanceAccepting", "joined", "terminated"}

VARIABLES
  jobs,        \* queue of submitted jobs
  failedJobs,  \* native cleanups that threw: their captures are kept for ever
  pending,     \* outstanding jobs, the one in hand and the failed ones included
  flags,       \* the flags of State that are up, and two of the process: the
               \* worker thread was joined, std::terminate was called
  drains, stopped,  \* callbacks registered and not yet called
  worker,      \* program counter of the worker thread
  inHand,      \* the job the worker took last
  outcome,     \* whether that job returned or threw
  events,      \* the application thread's queue of posted callbacks
  ui,          \* program counter of the application thread
  submitted, completions, drainCalls, drained, stopCalls, stopCallbacks \* counters

queueVars == <<jobs, failedJobs, pending>>
workerVars == <<worker, inHand, outcome>>
callVars == <<drains, drainCalls, drained, stopped, stopCalls, stopCallbacks>>
uiVars == <<ui, completions>>
vars == <<queueVars, flags, workerVars, callVars, uiVars, events, submitted>>

accepting == "accepting" \in flags
stopping == "stopping" \in flags
workerExiting == "workerExiting" \in flags
workerExited == "workerExited" \in flags
heapMaintenanceAccepting == "heapMaintenanceAccepting" \in flags
joined == "joined" \in flags
terminated == "terminated" \in flags

Init ==
  /\ jobs = <<>> /\ failedJobs = <<>> /\ pending = 0
  /\ flags = {"accepting", "heapMaintenanceAccepting"}
  /\ worker = "wait" /\ inHand = [id |-> 0, kind |-> "plain"] /\ outcome = "returned"
  /\ drains = 0 /\ drainCalls = 0 /\ drained = 0
  /\ stopped = 0 /\ stopCalls = 0 /\ stopCallbacks = 0
  /\ ui = "loop" /\ completions = 0
  /\ events = <<>> /\ submitted = 0

\* The dispatch endpoint is open until the application announces its end.
EndpointOpen == ui \notin {"quit", "joining", "gone"}
ServiceAlive == ui # "gone" /\ ~terminated

\* QtDispatchEndpoint::Post drops a callback once the application is gone.
Post(e) == events' = IF EndpointOpen THEN Append(events, e) ELSE events

-----------------------------------------------------------------------------
(* Callers: any thread submits; the application thread drains and stops.   *)

Enqueue(kind) ==
  /\ submitted < MaxJobs
  /\ submitted' = submitted + 1
  /\ jobs' = Append(jobs, [id |-> submitted + 1, kind |-> kind])
  /\ pending' = pending + 1

\* Submit refuses once admission is closed (the refusal changes nothing).
Submit ==
  /\ ServiceAlive /\ accepting
  /\ Enqueue("plain")
  /\ UNCHANGED <<flags, failedJobs, workerVars, callVars, uiVars, events>>

\* A cleanup owns native resources: it is accepted until the worker's exit.
SubmitCleanup(kind) ==
  /\ ServiceAlive /\ ~workerExiting
  /\ Enqueue(kind)
  /\ UNCHANGED <<flags, failedJobs, workerVars, callVars, uiVars, events>>

\* A cleanup that comes later has no owner left: the process is terminated.
LateCleanup ==
  /\ ServiceAlive /\ workerExiting
  /\ flags' = flags \cup {"terminated"}
  /\ UNCHANGED <<queueVars, workerVars, callVars, uiVars, events, submitted>>

CloseHeapMaintenanceAdmission ==
  /\ ServiceAlive /\ EndpointOpen /\ heapMaintenanceAccepting
  /\ flags' = flags \ {"heapMaintenanceAccepting"}
  /\ UNCHANGED <<queueVars, workerVars, callVars, uiVars, events, submitted>>

\* Mutant: an idle queue posts no delivery.
DrainAsyncSilent ==
  /\ ServiceAlive /\ EndpointOpen /\ drainCalls < MaxDrains
  /\ drainCalls' = drainCalls + 1
  /\ drains' = drains + 1
  /\ UNCHANGED events
  /\ UNCHANGED <<queueVars, flags, workerVars, drained, stopped, stopCalls,
                 stopCallbacks, uiVars, submitted>>

DrainAsync ==
  /\ ServiceAlive /\ EndpointOpen /\ drainCalls < MaxDrains
  /\ drainCalls' = drainCalls + 1
  /\ drains' = drains + 1
  /\ IF pending = 0 THEN Post([type |-> "drains"]) ELSE UNCHANGED events
  /\ UNCHANGED <<queueVars, flags, workerVars, drained, stopped, stopCalls,
                 stopCallbacks, uiVars, submitted>>

ShutdownAsync ==
  /\ ServiceAlive /\ EndpointOpen /\ stopCalls < MaxStops
  /\ stopCalls' = stopCalls + 1
  /\ flags' = (flags \ {"accepting"}) \cup {"stopping"}
  /\ stopped' = stopped + 1
  /\ IF workerExited THEN Post([type |-> "stopped"]) ELSE UNCHANGED events
  /\ UNCHANGED <<queueVars, workerVars, drains, drainCalls, drained,
                 stopCallbacks, uiVars, submitted>>

-----------------------------------------------------------------------------
(* The worker thread: Run.                                                 *)

\* The wait's predicate is checked and the job taken under one lock.
TakeJob ==
  /\ worker = "wait" /\ jobs # <<>>
  /\ inHand' = Head(jobs) /\ jobs' = Tail(jobs)
  /\ worker' = "run"
  /\ UNCHANGED <<flags, failedJobs, pending, outcome, callVars, uiVars,
                 events, submitted>>

\* Mutant: an empty queue is enough to exit.
CommitExitUnchecked ==
  /\ worker = "wait" /\ jobs = <<>> /\ stopping
  /\ flags' = flags \cup {"workerExiting"}
  /\ worker' = "leaving"
  /\ UNCHANGED <<queueVars, inHand, outcome, callVars, uiVars, events,
                 submitted>>

\* With nothing left and a stop requested, the exit is committed under the
\* same lock that admits jobs.
CommitExit ==
  /\ worker = "wait" /\ jobs = <<>> /\ stopping /\ pending = 0
  /\ flags' = flags \cup {"workerExiting"}
  /\ worker' = "leaving"
  /\ UNCHANGED <<queueVars, inHand, outcome, callVars, uiVars, events,
                 submitted>>

Retained == outcome = "threw" /\ inHand.kind # "plain"

\* job.run() outside the lock; it may throw.
RunJob ==
  /\ worker = "run"
  /\ outcome' \in {"returned", "threw"}
  /\ worker' = "ran"
  /\ UNCHANGED <<queueVars, flags, inHand, callVars, uiVars, events,
                 submitted>>

\* A failed cleanup keeps its captures; any other job destroys them now.
Release ==
  /\ worker = "ran"
  /\ failedJobs' = IF Retained THEN Append(failedJobs, inHand) ELSE failedJobs
  /\ worker' = IF outcome = "returned" /\ inHand.kind = "session" THEN "claim" ELSE "report"
  /\ UNCHANGED <<flags, jobs, pending, inHand, outcome, callVars, uiVars,
                 events, submitted>>

\* Heap maintenance is claimed only by the last job of an open, idle queue,
\* and runs outside the lock while the job still holds its pending slot.
ClaimMaintenance ==
  /\ worker = "claim"
  /\ worker' = IF /\ pending = 1 /\ jobs = <<>> /\ failedJobs = <<>>
                  /\ heapMaintenanceAccepting /\ accepting
                  /\ ~stopping /\ ~workerExiting
               THEN "maintain" ELSE "report"
  /\ UNCHANGED <<queueVars, flags, inHand, outcome, callVars, uiVars, events,
                 submitted>>

FinishMaintenance ==
  /\ worker = "maintain"
  /\ worker' = "report"
  /\ UNCHANGED <<queueVars, flags, inHand, outcome, callVars, uiVars, events,
                 submitted>>

\* The completion is posted before the job's pending slot is given back.
PostCompletion ==
  /\ worker = "report"
  /\ Post([type |-> "completion"])
  /\ worker' = "settle"
  /\ UNCHANGED <<queueVars, flags, inHand, outcome, callVars, uiVars,
                 submitted>>

\* Mutant: a retained job gives its slot back too.
SettleAlways ==
  /\ worker = "settle"
  /\ pending' = pending - 1
  /\ worker' = IF pending' = 0 THEN "idle" ELSE "wait"
  /\ UNCHANGED <<flags, jobs, failedJobs, inHand, outcome, callVars, uiVars,
                 events, submitted>>

Settle ==
  /\ worker = "settle"
  /\ pending' = IF Retained THEN pending ELSE pending - 1
  /\ worker' = IF pending' = 0 THEN "idle" ELSE "wait"
  /\ UNCHANGED <<flags, jobs, failedJobs, inHand, outcome, callVars, uiVars,
                 events, submitted>>

PostIdle ==
  /\ worker = "idle"
  /\ Post([type |-> "drains"])
  /\ worker' = "wait"
  /\ UNCHANGED <<queueVars, flags, inHand, outcome, callVars, uiVars,
                 submitted>>

MarkExited ==
  /\ worker = "leaving"
  /\ flags' = flags \cup {"workerExited"}
  /\ worker' = "exited"
  /\ UNCHANGED <<queueVars, inHand, outcome, callVars, uiVars, events,
                 submitted>>

PostStopped ==
  /\ worker = "exited"
  /\ Post([type |-> "stopped"])
  /\ worker' = "done"
  /\ UNCHANGED <<queueVars, flags, inHand, outcome, callVars, uiVars,
                 submitted>>

-----------------------------------------------------------------------------
(* The application thread: the event loop and the two delivery loops.      *)

\* The event loop takes the next posted callback.
Dispatch ==
  /\ ui = "loop" /\ events # <<>>
  /\ events' = Tail(events)
  /\ \/ /\ Head(events).type = "completion"
        /\ completions' = completions + 1 /\ ui' = "loop"
     \/ /\ Head(events).type = "drains"
        /\ ui' = "drains" /\ UNCHANGED completions
     \/ /\ Head(events).type = "stopped"
        /\ ui' = IF workerExited THEN "join" ELSE "loop"
        /\ UNCHANGED completions
  /\ UNCHANGED <<queueVars, flags, workerVars, callVars, submitted>>

\* DeliverStopped joins: it blocks the application thread until the worker
\* has returned from Run.
Join ==
  /\ ui = "join" /\ worker = "done"
  /\ flags' = flags \cup {"joined"}
  /\ ui' = "lastDrains"
  /\ UNCHANGED <<queueVars, workerVars, callVars, completions, events,
                 submitted>>

\* Mutant: the turn does not test for quiescence.
DeliverDrainUnchecked ==
  /\ ui \in {"drains", "lastDrains"}
  /\ \/ /\ drains > 0
        /\ drains' = drains - 1 /\ drained' = drained + 1
        /\ UNCHANGED ui
     \/ /\ drains = 0
        /\ ui' = IF ui = "drains" THEN "loop" ELSE "stops"
        /\ UNCHANGED <<drains, drained>>
  /\ UNCHANGED <<queueVars, flags, workerVars, drainCalls, stopped,
                 stopCalls, stopCallbacks, completions, events, submitted>>

\* DeliverDrains: one turn of its loop, which tests and pops under the lock.
DeliverDrain ==
  /\ ui \in {"drains", "lastDrains"}
  /\ \/ /\ pending = 0 /\ drains > 0
        /\ drains' = drains - 1 /\ drained' = drained + 1
        /\ UNCHANGED ui
     \/ /\ pending # 0 \/ drains = 0
        /\ ui' = IF ui = "drains" THEN "loop" ELSE "stops"
        /\ UNCHANGED <<drains, drained>>
  /\ UNCHANGED <<queueVars, flags, workerVars, drainCalls, stopped,
                 stopCalls, stopCallbacks, completions, events, submitted>>

\* The last loop of DeliverStopped.
DeliverStop ==
  /\ ui = "stops"
  /\ \/ /\ stopped > 0
        /\ stopped' = stopped - 1 /\ stopCallbacks' = stopCallbacks + 1
        /\ UNCHANGED ui
     \/ /\ stopped = 0
        /\ ui' = "loop"
        /\ UNCHANGED <<stopped, stopCallbacks>>
  /\ UNCHANGED <<queueVars, flags, workerVars, drains, drainCalls, drained,
                 stopCalls, completions, events, submitted>>

\* aboutToQuit closes the endpoint; queued callbacks are never run.
Quit ==
  /\ ui = "loop"
  /\ ui' = "quit" /\ events' = <<>>
  /\ UNCHANGED <<queueVars, flags, workerVars, callVars, completions,
                 submitted>>

\* ~SessionShutdownService: request the stop, then join.
Destroy ==
  /\ ui = "quit"
  /\ flags' = (flags \ {"accepting"}) \cup {"stopping"}
  /\ ui' = "joining"
  /\ UNCHANGED <<queueVars, workerVars, callVars, completions, events,
                 submitted>>

DestroyJoin ==
  /\ ui = "joining" /\ (joined \/ worker = "done")
  /\ flags' = flags \cup {"joined"}
  /\ ui' = "gone"
  /\ UNCHANGED <<queueVars, workerVars, callVars, completions, events,
                 submitted>>

-----------------------------------------------------------------------------
Callers ==
  \/ Submit
  \/ SubmitCleanup("cleanup")
  \/ SubmitCleanup("session")
  \/ LateCleanup
  \/ CloseHeapMaintenanceAdmission
  \/ DrainAsync
  \/ ShutdownAsync

Worker ==
  \/ TakeJob \/ CommitExit \/ RunJob \/ Release \/ ClaimMaintenance
  \/ FinishMaintenance \/ PostCompletion \/ Settle \/ PostIdle \/ MarkExited
  \/ PostStopped

EventLoop == Dispatch \/ Join \/ DeliverDrain \/ DeliverStop

Teardown == Destroy \/ DestroyJoin

Next ==
  \/ Callers
  \/ ~terminated /\ Worker
  \/ ~terminated /\ EventLoop
  \/ ~terminated /\ Quit
  \/ ~terminated /\ Teardown

Spec == Init /\ [][Next]_vars

(* The worker thread is scheduled, a job returns or throws, the event loop *)
(* runs, and the static service is destroyed once main() has returned.     *)
(* Nobody has to call anything and the application need not quit.          *)
Fairness ==
  /\ WF_vars(~terminated /\ Worker)
  /\ WF_vars(~terminated /\ EventLoop)
  /\ WF_vars(~terminated /\ Teardown)

FairSpec == Spec /\ Fairness
-----------------------------------------------------------------------------
WorkerPcs == {"wait", "run", "ran", "claim", "maintain", "report", "settle",
              "idle", "leaving", "exited", "done"}
UiPcs == {"loop", "drains", "join", "lastDrains", "stops", "quit", "joining", "gone"}
Event == [type : {"completion", "drains", "stopped"}]

\* The types of the variables.
TypeOK ==
  /\ jobs \in Seq(Job) /\ failedJobs \in Seq(Job) /\ pending \in Nat
  /\ flags \subseteq Flags
  /\ worker \in WorkerPcs /\ inHand \in Job /\ outcome \in {"returned", "threw"}
  /\ drains \in Nat /\ drainCalls \in Nat /\ drained \in Nat
  /\ stopped \in Nat /\ stopCalls \in Nat /\ stopCallbacks \in Nat
  /\ events \in Seq(Event) /\ ui \in UiPcs
  /\ submitted \in Nat /\ completions \in Nat

\* Jobs the worker holds whose slot in `pending` is not yet decided: a failed
\* cleanup is moved to failedJobs before Settle keeps its slot for it.
Held ==
  IF worker \in {"run", "ran", "claim", "maintain"} THEN 1
  ELSE IF worker \in {"report", "settle"} /\ ~Retained THEN 1 ELSE 0

\* The counter agrees with the jobs that exist: those queued, the one in the
\* worker's hand and those retained for ever.  Every decision to drain, to
\* exit and to maintain the heap reads this counter and nothing else.
PendingCountsJobs == pending = Len(jobs) + Held + Len(failedJobs)

\* Once the worker has committed to exit, no job is left, none was retained,
\* and admission of plain jobs is closed: a native owner can never be queued
\* behind a worker that will not come back for it.
ExitLeavesNothing ==
  workerExiting => /\ jobs = <<>> /\ failedJobs = <<>> /\ pending = 0
                   /\ stopping /\ ~accepting

\* The worker's program counter agrees with the flags it publishes, and the
\* application thread's with both; conjoined with the invariants above this
\* is inductive.
PhasesAgree ==
  /\ worker \in {"leaving", "exited", "done"} <=> workerExiting
  /\ worker \in {"exited", "done"} <=> workerExited
  /\ worker \in {"claim", "maintain"} => outcome = "returned"
  /\ stopping => ~accepting
  /\ workerExiting => stopping /\ pending = 0
  /\ ui = "join" => workerExited
  /\ ui \in {"lastDrains", "stops"} => joined
  /\ joined => worker = "done"

IInv == TypeOK /\ PendingCountsJobs /\ PhasesAgree

\* When the application is told that the service has stopped, the worker is
\* joined, no failed cleanup still owns a native resource, and the completion
\* of every job ever accepted has already run on the application thread.
StoppedMeansReleased ==
  stopCallbacks > 0 => joined /\ failedJobs = <<>> /\ completions = submitted

\* The application thread blocks in a join only for a worker that has left
\* its job loop: a running native cleanup never freezes the user interface.
JoinNeverWaitsForJob ==
  ui \in {"join", "lastDrains", "stops"} => worker \in {"exited", "done"}

\* A drain callback runs only in a moment when every job accepted so far, by
\* whichever thread, has finished and released what it owned.
DrainOnlyWhenQuiet ==
  [][drained' > drained =>
       /\ jobs = <<>> /\ failedJobs = <<>>
       /\ worker \notin {"run", "ran", "claim", "maintain"}]_vars

\* Every drain request and every stop request is answered, unless a failed
\* cleanup keeps the queue from ever being quiet, the application quits or the
\* process terminates; and the destructor returns although the event loop is
\* gone, unless a failed cleanup is retained.
RequestsAnswered ==
  /\ drains > 0 ~> (drains = 0 \/ failedJobs # <<>> \/ ~EndpointOpen \/ terminated)
  /\ stopped > 0 ~> (stopped = 0 \/ failedJobs # <<>> \/ ~EndpointOpen \/ terminated)
  /\ ui = "joining" ~> (ui = "gone" \/ failedJobs # <<>> \/ terminated)
=============================================================================
