---------------------------- MODULE ExecutorGate ----------------------------
(***************************************************************************)
(* The callback gate of a Room (src/src/core/executor_lifetime.h) with the *)
(* two kinds of native operation that live behind it: single-shot          *)
(* completions (CancellableExecutorCallback: RPC answers and SDP results)   *)
(* and awaitable states cancelled at close (AwaitableState of               *)
(* src/src/core/operation.h with CancelWhenClosed: sender installation and  *)
(* removal).                                                               *)
(*                                                                         *)
(* Three kinds of thread meet here: the session's io thread, which runs     *)
(* calls and completion handlers one at a time; native WebRTC threads,      *)
(* which finish operations whenever they like; and the shutdown worker,     *)
(* which retires the Room by closing the gate and waiting for it to drain.  *)
(* Once the drain has returned, the Room and its executor may go away.      *)
(*                                                                         *)
(* One action is one critical section of the gate's or of an operation's    *)
(* mutex, so that everything the locks allow to interleave does.            *)
(***************************************************************************)
EXTENDS Integers, FiniteSets

CONSTANTS
  Calls,       \* calls into the Room and callbacks posted to its executor
  Ops,         \* native operations
  Awaitables,  \* the operations of the AwaitableState kind
  None         \* no operation, no call, no thread

ASSUME IdentitiesDiffer ==
  /\ Awaitables \subseteq Ops
  /\ Calls \intersect Ops = {}
  /\ None \notin Calls \union Ops

ASSUME FinitelyMany == IsFiniteSet(Calls) /\ IsFiniteSet(Ops)

Threads == {"io", "native", "worker"}

VARIABLES
  closed,      \* closed_: business admission has ended
  finished,    \* cancellations_finished_
  inFlight,    \* in_flight_
  registered,  \* the operations in cancellations_
  worker,      \* where the shutdown worker is in Close and WaitForDrain
  cancelling,  \* the entries Close swapped out and has not called yet
  call,        \* the life of each call
  op,          \* the life of each operation
  waiter,      \* the suspended call an operation will resume
  tail,        \* the thread between the two halves of completing an operation
  timer,       \* the timer of an awaitable operation
  current,     \* the call running on the io thread
  running      \* the completion handler running on the io thread

vars == <<closed, finished, inFlight, registered, worker, cancelling,
          call, op, waiter, tail, timer, current, running>>
gate == <<closed, finished, registered, worker, cancelling>>

CallStates == {"new", "refused", "queued", "outside", "running", "starting", "arming",
               "waiting", "done"}
OpStates == {"new", "pending", "queued", "running", "done", "dropped"}
WorkerStates == {"idle", "cancelling", "draining", "drained"}

(* The calls and completions that hold a ticket of the gate.               *)
Unticketed == {"new", "refused", "done"}
CallTickets == {h \in Calls : call[h] \notin Unticketed}
OpTickets == {o \in Ops : op[o] \in {"queued", "running"}}
Holders == CallTickets \union OpTickets

Completions == Ops \ Awaitables

Init ==
  /\ closed = FALSE /\ finished = FALSE /\ inFlight = 0
  /\ registered = {} /\ worker = "idle" /\ cancelling = {}
  /\ call = [h \in Calls |-> "new"]
  /\ op = [o \in Ops |-> "new"]
  /\ waiter = [o \in Ops |-> None]
  /\ tail = [o \in Ops |-> None]
  /\ timer = [o \in Ops |-> "off"]
  /\ current = None /\ running = None

-----------------------------------------------------------------------------
(* Admission.                                                              *)

(* The io thread can pick up its next handler.                             *)
IoIdle == current = None /\ running = None /\ \A o \in Ops : tail[o] # "io"

\* Mutant: the call is counted before the closed flag is read.
EnterCounted(h, where) ==
  /\ call[h] = "new"
  /\ where = "running" => IoIdle
  /\ inFlight' = inFlight + 1
  /\ IF closed
       THEN call' = [call EXCEPT ![h] = "refused"] /\ UNCHANGED current
       ELSE /\ call' = [call EXCEPT ![h] = where]
            /\ current' = IF where = "running" THEN h ELSE current
  /\ UNCHANGED <<gate, op, waiter, tail, timer, running>>

(* Enter, or the Enter inside Post: a call is counted, unless the gate is  *)
(* closed. It starts on the io thread, is queued for it, or runs on the    *)
(* application's or a native thread ("outside").                           *)
Enter(h, where) ==
  /\ call[h] = "new"
  /\ where = "running" => IoIdle
  /\ IF closed
       THEN call' = [call EXCEPT ![h] = "refused"] /\ UNCHANGED <<inFlight, current>>
       ELSE /\ call' = [call EXCEPT ![h] = where]
            /\ inFlight' = inFlight + 1
            /\ current' = IF where = "running" THEN h ELSE current
  /\ UNCHANGED <<gate, op, waiter, tail, timer, running>>

(* The io thread runs a posted callback.                                   *)
RunPosted(h) ==
  /\ call[h] = "queued" /\ IoIdle
  /\ call' = [call EXCEPT ![h] = "running"]
  /\ current' = h
  /\ UNCHANGED <<gate, inFlight, op, waiter, tail, timer, running>>

(* A call ends and its ticket is destroyed (Release).                      *)
Return(h) ==
  /\ call[h] = "outside" \/ (call[h] = "running" /\ current = h)
  /\ call' = [call EXCEPT ![h] = "done"]
  /\ inFlight' = inFlight - 1
  /\ current' = IF current = h THEN None ELSE current
  /\ UNCHANGED <<gate, op, waiter, tail, timer, running>>

-----------------------------------------------------------------------------
(* Single-shot completions.                                                *)

(* Something runs on the io thread: a call, or a completion handler that   *)
(* has not resumed one.                                                    *)
IoRunning == (current # None /\ call[current] = "running") \/ (current = None /\ running # None)

\* Mutant: the closed flag is not looked at when the operation registers.
CreateUnchecked(o) ==
  /\ o \in Completions /\ op[o] = "new"
  /\ op' = [op EXCEPT ![o] = "pending"]
  /\ registered' = registered \union {o}
  /\ UNCHANGED <<inFlight, closed, finished, worker, cancelling, tail, timer, running>>

(* Create: the operation is registered for cancellation or, when the gate  *)
(* has closed, completed at once with its cancelled result.                *)
CreateCompletion(o) ==
  /\ o \in Completions /\ op[o] = "new"
  /\ IF closed
       THEN /\ op' = [op EXCEPT ![o] = "queued"]
            /\ inFlight' = inFlight + 1
            /\ UNCHANGED registered
       ELSE /\ op' = [op EXCEPT ![o] = "pending"]
            /\ registered' = registered \union {o}
            /\ UNCHANGED inFlight
  /\ UNCHANGED <<closed, finished, worker, cancelling, tail, timer, running>>

(* CreateOffer and its relatives: nobody suspends on the completion, whose *)
(* handler carries on when it runs.                                        *)
StartOperation(o) ==
  /\ IoRunning
  /\ CreateCompletion(o)
  /\ UNCHANGED <<call, waiter, current>>

(* SendRpcRequest: the coroutine suspends on the completion.               *)
AwaitOperation(o) ==
  /\ current # None /\ call[current] = "running"
  /\ CreateCompletion(o)
  /\ waiter' = [waiter EXCEPT ![o] = current]
  /\ call' = [call EXCEPT ![current] = "waiting"]
  /\ current' = None

\* Mutant: the completion is posted without a ticket.
TakeUncounted(o, t) ==
  /\ op[o] = "pending"
  /\ op' = [op EXCEPT ![o] = "queued"]
  /\ tail' = [tail EXCEPT ![o] = t]
  /\ UNCHANGED inFlight

\* Mutant: the callback is copied, so that a late Complete posts it again.
TakeAgain(o, t) ==
  /\ op[o] \in {"pending", "done"}
  /\ op' = [op EXCEPT ![o] = "queued"]
  /\ inFlight' = inFlight + 1
  /\ tail' = [tail EXCEPT ![o] = t]

(* The first half of Complete: the callback is moved out and posted with a *)
(* ticket, whether or not the gate is closed. The operation's mutex stays  *)
(* locked.                                                                 *)
Take(o, t) ==
  /\ op[o] = "pending"
  /\ op' = [op EXCEPT ![o] = "queued"]
  /\ inFlight' = inFlight + 1
  /\ tail' = [tail EXCEPT ![o] = t]

(* A native thread completes the operation; a later call of Complete finds *)
(* no callback and does nothing.                                           *)
NativeCompletes(o) ==
  /\ o \in Completions /\ tail[o] = None
  /\ Take(o, "native")
  /\ UNCHANGED <<gate, call, waiter, timer, current, running>>

(* The RPC timeout of a suspended caller, on the io thread.                *)
TimeoutCompletes(o) ==
  /\ o \in Completions /\ tail[o] = None /\ waiter[o] # None /\ IoIdle
  /\ Take(o, "io")
  /\ UNCHANGED <<gate, call, waiter, timer, current, running>>

(* The second half of Complete: ForgetCancellation, then the mutex opens.  *)
FinishComplete(o) ==
  /\ o \in Completions /\ tail[o] # None
  /\ registered' = registered \ {o}
  /\ tail' = [tail EXCEPT ![o] = None]
  /\ UNCHANGED <<closed, finished, worker, cancelling, inFlight, call, op, waiter,
                 timer, current, running>>

\* Mutant: an operation a coroutine waits for is held by the native side only.
DropWaited(o) ==
  /\ o \in Completions /\ op[o] = "pending" /\ tail[o] = None
  /\ op' = [op EXCEPT ![o] = "dropped"]
  /\ registered' = registered \ {o}
  /\ UNCHANGED <<closed, finished, worker, cancelling, inFlight, call, waiter, tail,
                 timer, current, running>>

(* The native side gives up an operation nobody waits for: the destructor  *)
(* forgets its cancellation and the callback is never run.                 *)
Drop(o) ==
  /\ o \in Completions /\ op[o] = "pending" /\ tail[o] = None /\ waiter[o] = None
  /\ op' = [op EXCEPT ![o] = "dropped"]
  /\ registered' = registered \ {o}
  /\ UNCHANGED <<closed, finished, worker, cancelling, inFlight, call, waiter, tail,
                 timer, current, running>>

(* The io thread runs the posted completion; the handler of an RPC resumes *)
(* the suspended call in place.                                            *)
RunCompletion(o) ==
  /\ op[o] = "queued" /\ IoIdle
  /\ op' = [op EXCEPT ![o] = "running"]
  /\ running' = o
  /\ current' = waiter[o]
  /\ call' = IF waiter[o] = None THEN call ELSE [call EXCEPT ![waiter[o]] = "running"]
  /\ waiter' = [waiter EXCEPT ![o] = None]
  /\ UNCHANGED <<gate, inFlight, tail, timer>>

(* The handler returns and the completion's ticket is destroyed.           *)
ReturnCompletion ==
  /\ running # None /\ current = None
  /\ op' = [op EXCEPT ![running] = "done"]
  /\ inFlight' = inFlight - 1
  /\ running' = None
  /\ UNCHANGED <<gate, call, waiter, tail, timer, current>>

-----------------------------------------------------------------------------
(* Awaitable states.                                                       *)

(* CancelWhenClosed: registered or, when the gate has closed, failed at    *)
(* once.                                                                   *)
CreateAwaitable(o) ==
  /\ o \in Awaitables /\ op[o] = "new"
  /\ current # None /\ call[current] = "running"
  /\ waiter' = [waiter EXCEPT ![o] = current]
  /\ call' = [call EXCEPT ![current] = "starting"]
  /\ op' = [op EXCEPT ![o] = IF closed THEN "done" ELSE "pending"]
  /\ registered' = IF closed THEN registered ELSE registered \union {o}
  /\ UNCHANGED <<closed, finished, worker, cancelling, inFlight, tail, timer,
                 current, running>>

(* CompleteAwaitable or FailAwaitable by thread t, up to the unlock.       *)
Settle(o, t) ==
  /\ op[o] = "pending"
  /\ op' = [op EXCEPT ![o] = "done"]
  /\ tail' = [tail EXCEPT ![o] = t]

NativeSettles(o) ==
  /\ o \in Awaitables
  /\ Settle(o, "native")
  /\ UNCHANGED <<gate, inFlight, call, waiter, timer, current, running>>

(* The timer is cancelled after the unlock: it wakes a wait that has been  *)
(* armed, and is lost on one that has not.                                 *)
CancelTimer(o) ==
  /\ o \in Awaitables /\ tail[o] # None
  /\ timer' = [timer EXCEPT ![o] = IF @ = "armed" THEN "fired" ELSE @]
  /\ tail' = [tail EXCEPT ![o] = None]
  /\ UNCHANGED <<gate, inFlight, call, op, waiter, current, running>>

(* WaitAwaitable: under the lock, a settled operation returns at once (the *)
(* registration goes with the caller's scope); otherwise the expiry is set *)
(* and the lock released.                                                  *)
BeginWait(o) ==
  /\ o \in Awaitables /\ current # None /\ waiter[o] = current
  /\ call[current] = "starting"
  /\ IF op[o] = "done"
       THEN /\ call' = [call EXCEPT ![current] = "running"]
            /\ registered' = registered \ {o}
            /\ waiter' = [waiter EXCEPT ![o] = None]
       ELSE /\ call' = [call EXCEPT ![current] = "arming"]
            /\ UNCHANGED <<registered, waiter>>
  /\ UNCHANGED <<closed, finished, worker, cancelling, inFlight, op, tail, timer,
                 current, running>>

(* async_wait: the wait is armed and the coroutine suspends.               *)
ArmWait(o) ==
  /\ o \in Awaitables /\ current # None /\ waiter[o] = current
  /\ call[current] = "arming"
  /\ timer' = [timer EXCEPT ![o] = "armed"]
  /\ call' = [call EXCEPT ![current] = "waiting"]
  /\ current' = None
  /\ UNCHANGED <<gate, inFlight, op, waiter, tail, running>>

(* The operation's timeout.                                                *)
TimerExpires(o) ==
  /\ timer[o] = "armed"
  /\ timer' = [timer EXCEPT ![o] = "fired"]
  /\ UNCHANGED <<gate, inFlight, call, op, waiter, tail, current, running>>

(* The io thread resumes the wait: an operation nobody settled has timed   *)
(* out. The registration goes with the caller's scope.                     *)
Resume(o) ==
  /\ o \in Awaitables /\ timer[o] = "fired" /\ waiter[o] # None /\ IoIdle
  /\ op' = [op EXCEPT ![o] = "done"]
  /\ registered' = registered \ {o}
  /\ call' = [call EXCEPT ![waiter[o]] = "running"]
  /\ current' = waiter[o]
  /\ waiter' = [waiter EXCEPT ![o] = None]
  /\ UNCHANGED <<closed, finished, worker, cancelling, inFlight, tail, timer, running>>

-----------------------------------------------------------------------------
(* The shutdown worker.                                                    *)

(* Close: admission ends and the registered cancellations are taken over.  *)
Close ==
  /\ worker = "idle"
  /\ closed' = TRUE
  /\ cancelling' = registered
  /\ registered' = {}
  /\ worker' = "cancelling"
  /\ UNCHANGED <<finished, inFlight, call, op, waiter, tail, timer, current, running>>

WorkerFree == \A o \in Ops : tail[o] # "worker"

(* Close calls one cancellation: it completes a single-shot operation once *)
(* its mutex is free, fails an awaitable, and does nothing to one that is  *)
(* over.                                                                   *)
Cancel(o) ==
  /\ worker = "cancelling" /\ o \in cancelling /\ WorkerFree
  /\ o \in Completions => tail[o] = None
  /\ cancelling' = cancelling \ {o}
  /\ CASE op[o] = "pending" /\ o \in Completions -> Take(o, "worker")
       [] op[o] = "pending" /\ o \in Awaitables -> Settle(o, "worker") /\ UNCHANGED inFlight
       [] OTHER -> UNCHANGED <<inFlight, op, tail>>
  /\ UNCHANGED <<closed, finished, registered, worker, call, waiter, timer, current, running>>

FinishClose ==
  /\ worker = "cancelling" /\ cancelling = {} /\ WorkerFree
  /\ finished' = TRUE
  /\ worker' = "draining"
  /\ UNCHANGED <<closed, registered, cancelling, inFlight, call, op, waiter, tail, timer,
                 current, running>>

(* WaitForDrain returns: the Room may be released.                         *)
Drain ==
  /\ worker = "draining"
  /\ closed /\ finished /\ inFlight = 0
  /\ worker' = "drained"
  /\ UNCHANGED <<closed, finished, registered, cancelling, inFlight, call, op, waiter,
                 tail, timer, current, running>>

-----------------------------------------------------------------------------
CallStep(h) ==
  \/ \E where \in {"running", "queued", "outside"} : Enter(h, where)
  \/ RunPosted(h)
  \/ Return(h)

OpStep(o) ==
  \/ StartOperation(o) \/ AwaitOperation(o)
  \/ NativeCompletes(o) \/ TimeoutCompletes(o) \/ FinishComplete(o) \/ Drop(o)
  \/ RunCompletion(o)
  \/ CreateAwaitable(o) \/ NativeSettles(o) \/ CancelTimer(o)
  \/ BeginWait(o) \/ ArmWait(o) \/ TimerExpires(o) \/ Resume(o)
  \/ Cancel(o)

Next ==
  \/ \E h \in Calls : CallStep(h)
  \/ \E o \in Ops : OpStep(o)
  \/ ReturnCompletion
  \/ Close \/ FinishClose \/ Drain

Spec == Init /\ [][Next]_vars

(* What a running thread finishes. Native threads owe nothing: a WebRTC    *)
(* observer may never be called. Timeouts are left out too.                *)
Prompt ==
  /\ \A h \in Calls : WF_vars(RunPosted(h)) /\ WF_vars(Return(h))
  /\ \A o \in Ops :
       /\ WF_vars(FinishComplete(o)) /\ WF_vars(CancelTimer(o)) /\ WF_vars(Cancel(o))
       /\ WF_vars(RunCompletion(o)) /\ WF_vars(Resume(o))
       /\ WF_vars(BeginWait(o)) /\ WF_vars(ArmWait(o))
  /\ WF_vars(ReturnCompletion) /\ WF_vars(FinishClose) /\ WF_vars(Drain)

PromptSpec == Spec /\ Prompt

-----------------------------------------------------------------------------
(* Types.                                                                  *)
TypeOK ==
  /\ closed \in BOOLEAN /\ finished \in BOOLEAN
  /\ inFlight \in Nat
  /\ registered \subseteq Ops /\ cancelling \subseteq Ops
  /\ worker \in WorkerStates
  /\ call \in [Calls -> CallStates]
  /\ op \in [Ops -> OpStates]
  /\ waiter \in [Ops -> Calls \union {None}]
  /\ tail \in [Ops -> Threads \union {None}]
  /\ timer \in [Ops -> {"off", "armed", "fired"}]
  /\ current \in Calls \union {None}
  /\ running \in Ops \union {None}

(* Once WaitForDrain has returned, no call or completion holds a ticket,   *)
(* waits in the executor's queue or runs on the io thread: the worker may  *)
(* free the Room and its executor (executor_lifetime.h:121).               *)
DrainIsQuiet ==
  worker = "drained" =>
    /\ Holders = {}
    /\ current = None /\ running = None

(* Once Close has run its cancellations, no registered operation is left   *)
(* waiting for a native thread: each was completed, failed, given up or    *)
(* timed out, however its creation raced with Close                        *)
(* (executor_lifetime.h:115).                                              *)
CloseReachesAll ==
  finished => \A o \in Ops : op[o] # "pending"

(* Every call that waits for an operation is resumed by it: no two waiting *)
(* calls share one, and none waits for one that has been given up or run.  *)
WaitersAreResumable ==
  \A h \in Calls : call[h] = "waiting" =>
    \E o \in Ops :
      /\ waiter[o] = h
      /\ IF o \in Awaitables THEN timer[o] \in {"armed", "fired"}
                             ELSE op[o] \in {"pending", "queued"}

(* The gate keeps the promise of DrainBarrier: each call and each          *)
(* completion begins and ends once, whichever of the native thread, the    *)
(* timeout and Close came first; no call begins on a closed gate; nothing  *)
(* at all begins after the drain, which finds nothing unfinished.          *)
Phase == IF worker = "drained" THEN "drained" ELSE IF closed THEN "closing" ELSE "open"
Ended == {h \in Calls : call[h] = "done"} \union {o \in Completions : op[o] = "done"}

Barrier == INSTANCE DrainBarrier WITH
  Work <- Calls \union Completions, Business <- Calls,
  phase <- Phase, begun <- Holders \union Ended, ended <- Ended

ImplementsBarrier == Barrier!Spec

(* A call that sleeps although its operation is over and nothing will wake *)
(* it before its timeout: the timer of WaitAwaitable is armed after the    *)
(* unlock (operation.h:185), and a cancel that comes before is lost        *)
(* (operation.h:164).                                                      *)
Overslept(o) == timer[o] = "armed" /\ op[o] = "done" /\ tail[o] = None

(* Retirement ends without any help of native threads, which may never     *)
(* call back, and of timeouts (executor_lifetime.h:121), unless a          *)
(* cancellation was lost that way; then the timeout is enough.             *)
DrainEnds ==
  /\ worker # "idle" ~> worker = "drained" \/ \E o \in Awaitables : Overslept(o)
  /\ (\A o \in Ops : WF_vars(TimerExpires(o))) => (worker # "idle" ~> worker = "drained")
=============================================================================
