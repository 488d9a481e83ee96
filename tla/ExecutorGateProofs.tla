------------------------- MODULE ExecutorGateProofs -------------------------
(***************************************************************************)
(* Theorems about ExecutorGate, for any finite sets of calls and           *)
(* operations: the ticket counter counts the tickets, the drain finds      *)
(* everything quiet, Close reaches every operation, and the gate           *)
(* implements DrainBarrier.                                                *)
(*                                                                         *)
(* Shape is the part of the inductive invariant without cardinalities: who *)
(* may run, who is waited for, and where a pending operation is filed.     *)
(* Counted adds the counter. Quiet follows the drain.                      *)
(***************************************************************************)
EXTENDS ExecutorGate, FiniteSetTheorems, TLAPS

(* closed_, cancellations_finished_ and the two maps follow the worker.    *)
GateOrder ==
  /\ closed <=> worker # "idle"
  /\ finished <=> worker \in {"draining", "drained"}
  /\ closed => registered = {}
  /\ worker # "cancelling" => cancelling = {}

(* A pending operation is on file: Close has it or will take it over.      *)
PendingOnFile == \A o \in Ops : op[o] = "pending" => o \in registered \union cancelling

(* Completing starts with taking the result.                               *)
TailsAreOver == \A o \in Ops : tail[o] # None => op[o] \notin {"new", "pending"}

(* What runs on the io thread is marked as running.                        *)
RunnersRun ==
  /\ current # None => call[current] \in {"running", "starting", "arming"}
  /\ running # None => op[running] = "running"

(* An operation resumes a call that waits for nothing else.                *)
WaitersWait ==
  /\ \A o \in Ops : waiter[o] # None => call[waiter[o]] \in {"starting", "arming", "waiting"}
  /\ \A o, p \in Ops : waiter[o] # None /\ waiter[o] = waiter[p] => o = p
  /\ \A o \in Ops : op[o] = "new" => waiter[o] = None

(* Awaitable states have no posted handler.                                *)
KindsDiffer == \A o \in Awaitables : op[o] \in {"new", "pending", "done"}

Shape == TypeOK /\ GateOrder /\ PendingOnFile /\ TailsAreOver /\ RunnersRun
           /\ WaitersWait /\ KindsDiffer

LEMMA ShapeInit == Init => Shape
<1> SUFFICES ASSUME Init PROVE Shape
  OBVIOUS
<1>1. TypeOK
  BY IdentitiesDiffer DEF Init, TypeOK, CallStates, OpStates, WorkerStates, Threads
<1>2. GateOrder
  BY DEF Init, GateOrder
<1>3. PendingOnFile /\ TailsAreOver /\ KindsDiffer
  BY IdentitiesDiffer DEF Init, PendingOnFile, TailsAreOver, KindsDiffer
<1>4. RunnersRun /\ WaitersWait
  BY DEF Init, RunnersRun, WaitersWait
<1> QED
  BY <1>1, <1>2, <1>3, <1>4 DEF Shape

-----------------------------------------------------------------------------
(* The counter.                                                            *)

Counted == inFlight = Cardinality(Holders)

LEMMA HoldersFinite == IsFiniteSet(Holders)
<1>1. IsFiniteSet(Calls \union Ops)
  BY FinitelyMany, FS_Union
<1>2. Holders \subseteq Calls \union Ops
  BY DEF Holders, CallTickets, OpTickets
<1> QED
  BY <1>1, <1>2, FS_Subset

(* While somebody holds a ticket the counter is positive.                  *)
LEMMA TicketHeld ==
  ASSUME Counted, NEW w \in Holders
  PROVE  inFlight - 1 \in Nat
<1>1. Cardinality(Holders) \in Nat
  BY HoldersFinite, FS_CardinalityType
<1>2. Cardinality(Holders) # 0
  BY HoldersFinite, FS_EmptySet
<1> QED
  BY <1>1, <1>2 DEF Counted

-----------------------------------------------------------------------------
(* Every action preserves Shape.                                           *)

LEMMA ShapeEnter ==
  ASSUME Shape, NEW h \in Calls, NEW where \in {"running", "queued", "outside"}, Enter(h, where)
  PROVE  Shape'
<1> USE IdentitiesDiffer DEF Shape, gate
<1>1. TypeOK'
  BY DEF TypeOK, CallStates, OpStates, WorkerStates, Threads, RunnersRun, Enter
<1>2. GateOrder' /\ PendingOnFile' /\ TailsAreOver'
  BY DEF TypeOK, GateOrder, PendingOnFile, TailsAreOver, Enter
<1>3. RunnersRun' /\ WaitersWait' /\ KindsDiffer'
  BY DEF TypeOK, RunnersRun, WaitersWait, KindsDiffer, Enter
<1> QED
  BY <1>1, <1>2, <1>3

LEMMA ShapeRunPosted ==
  ASSUME Shape, NEW h \in Calls, RunPosted(h)
  PROVE  Shape'
<1> USE IdentitiesDiffer DEF Shape, gate
<1>1. TypeOK'
  BY DEF TypeOK, CallStates, OpStates, WorkerStates, Threads, RunnersRun,
     RunPosted, IoIdle
<1>2. GateOrder' /\ PendingOnFile' /\ TailsAreOver'
  BY DEF TypeOK, GateOrder, PendingOnFile, TailsAreOver, RunPosted, IoIdle
<1>3. RunnersRun' /\ WaitersWait' /\ KindsDiffer'
  BY DEF TypeOK, RunnersRun, WaitersWait, KindsDiffer, RunPosted, IoIdle
<1> QED
  BY <1>1, <1>2, <1>3

LEMMA ShapeReturn ==
  ASSUME Shape, Counted, NEW h \in Calls, Return(h)
  PROVE  Shape'
<1> USE IdentitiesDiffer DEF Shape, gate
<1>1. TypeOK'
  <2>1. h \in Holders
    BY DEF TypeOK, Return, RunnersRun, Holders, CallTickets, OpTickets,
     Unticketed
  <2>2. inFlight - 1 \in Nat
    BY <2>1, TicketHeld
  <2> QED
    BY <2>2 DEF TypeOK, CallStates, OpStates, WorkerStates, Threads, Return
<1>2. GateOrder' /\ PendingOnFile' /\ TailsAreOver'
  BY DEF TypeOK, GateOrder, PendingOnFile, TailsAreOver, Return
<1>3. RunnersRun' /\ WaitersWait' /\ KindsDiffer'
  BY DEF TypeOK, RunnersRun, WaitersWait, KindsDiffer, Return
<1> QED
  BY <1>1, <1>2, <1>3

LEMMA ShapeStartOperation ==
  ASSUME Shape, NEW o \in Ops, StartOperation(o)
  PROVE  Shape'
<1> USE IdentitiesDiffer DEF Shape, gate
<1>1. TypeOK'
  BY DEF TypeOK, CallStates, OpStates, WorkerStates, Threads, RunnersRun,
     StartOperation, CreateCompletion, Completions, IoRunning
<1>2. GateOrder' /\ PendingOnFile' /\ TailsAreOver'
  BY DEF TypeOK, GateOrder, PendingOnFile, TailsAreOver, StartOperation,
     CreateCompletion, Completions, IoRunning
<1>3. RunnersRun' /\ WaitersWait' /\ KindsDiffer'
  BY DEF TypeOK, RunnersRun, WaitersWait, KindsDiffer, StartOperation,
     CreateCompletion, Completions, IoRunning
<1> QED
  BY <1>1, <1>2, <1>3

LEMMA ShapeAwaitOperation ==
  ASSUME Shape, NEW o \in Ops, AwaitOperation(o)
  PROVE  Shape'
<1> USE IdentitiesDiffer DEF Shape, gate
<1>1. TypeOK'
  BY DEF TypeOK, CallStates, OpStates, WorkerStates, Threads, RunnersRun,
     AwaitOperation, CreateCompletion, Completions
<1>2. GateOrder' /\ PendingOnFile' /\ TailsAreOver'
  BY DEF TypeOK, GateOrder, PendingOnFile, TailsAreOver, AwaitOperation,
     CreateCompletion, Completions
<1>3. RunnersRun' /\ WaitersWait' /\ KindsDiffer'
  BY DEF TypeOK, RunnersRun, WaitersWait, KindsDiffer, AwaitOperation,
     CreateCompletion, Completions
<1> QED
  BY <1>1, <1>2, <1>3

LEMMA ShapeNativeCompletes ==
  ASSUME Shape, NEW o \in Ops, NativeCompletes(o)
  PROVE  Shape'
<1> USE IdentitiesDiffer DEF Shape, gate
<1>1. TypeOK'
  BY DEF TypeOK, CallStates, OpStates, WorkerStates, Threads, RunnersRun,
     NativeCompletes, Take, Completions
<1>2. GateOrder' /\ PendingOnFile' /\ TailsAreOver'
  BY DEF TypeOK, GateOrder, PendingOnFile, TailsAreOver, NativeCompletes, Take,
     Completions
<1>3. RunnersRun' /\ WaitersWait' /\ KindsDiffer'
  BY DEF TypeOK, RunnersRun, WaitersWait, KindsDiffer, NativeCompletes, Take,
     Completions
<1> QED
  BY <1>1, <1>2, <1>3

LEMMA ShapeTimeoutCompletes ==
  ASSUME Shape, NEW o \in Ops, TimeoutCompletes(o)
  PROVE  Shape'
<1> USE IdentitiesDiffer DEF Shape, gate
<1>1. TypeOK'
  BY DEF TypeOK, CallStates, OpStates, WorkerStates, Threads, RunnersRun,
     TimeoutCompletes, Take, Completions, IoIdle
<1>2. GateOrder' /\ PendingOnFile' /\ TailsAreOver'
  BY DEF TypeOK, GateOrder, PendingOnFile, TailsAreOver, TimeoutCompletes, Take,
     Completions, IoIdle
<1>3. RunnersRun' /\ WaitersWait' /\ KindsDiffer'
  BY DEF TypeOK, RunnersRun, WaitersWait, KindsDiffer, TimeoutCompletes, Take,
     Completions, IoIdle
<1> QED
  BY <1>1, <1>2, <1>3

LEMMA ShapeFinishComplete ==
  ASSUME Shape, NEW o \in Ops, FinishComplete(o)
  PROVE  Shape'
<1> USE IdentitiesDiffer DEF Shape, gate
<1>1. TypeOK'
  BY DEF TypeOK, CallStates, OpStates, WorkerStates, Threads, RunnersRun,
     FinishComplete, Completions
<1>2. GateOrder' /\ PendingOnFile' /\ TailsAreOver'
  BY DEF TypeOK, GateOrder, PendingOnFile, TailsAreOver, FinishComplete,
     Completions
<1>3. RunnersRun' /\ WaitersWait' /\ KindsDiffer'
  BY DEF TypeOK, RunnersRun, WaitersWait, KindsDiffer, FinishComplete,
     Completions
<1> QED
  BY <1>1, <1>2, <1>3

LEMMA ShapeDrop ==
  ASSUME Shape, NEW o \in Ops, Drop(o)
  PROVE  Shape'
<1> USE IdentitiesDiffer DEF Shape, gate
<1>1. TypeOK'
  BY DEF TypeOK, CallStates, OpStates, WorkerStates, Threads, RunnersRun, Drop,
     Completions
<1>2. GateOrder' /\ PendingOnFile' /\ TailsAreOver'
  BY DEF TypeOK, GateOrder, PendingOnFile, TailsAreOver, Drop, Completions
<1>3. RunnersRun' /\ WaitersWait' /\ KindsDiffer'
  BY DEF TypeOK, RunnersRun, WaitersWait, KindsDiffer, Drop, Completions
<1> QED
  BY <1>1, <1>2, <1>3

LEMMA ShapeRunCompletion ==
  ASSUME Shape, NEW o \in Ops, RunCompletion(o)
  PROVE  Shape'
<1> USE IdentitiesDiffer DEF Shape, gate
<1>1. TypeOK'
  BY DEF TypeOK, CallStates, OpStates, WorkerStates, Threads, RunnersRun,
     RunCompletion, IoIdle
<1>2. GateOrder' /\ PendingOnFile' /\ TailsAreOver'
  BY DEF TypeOK, GateOrder, PendingOnFile, TailsAreOver, RunCompletion, IoIdle
<1>3. RunnersRun' /\ WaitersWait' /\ KindsDiffer'
  BY DEF TypeOK, RunnersRun, WaitersWait, KindsDiffer, RunCompletion, IoIdle
<1> QED
  BY <1>1, <1>2, <1>3

LEMMA ShapeCreateAwaitable ==
  ASSUME Shape, NEW o \in Ops, CreateAwaitable(o)
  PROVE  Shape'
<1> USE IdentitiesDiffer DEF Shape, gate
<1>1. TypeOK'
  BY DEF TypeOK, CallStates, OpStates, WorkerStates, Threads, RunnersRun,
     CreateAwaitable
<1>2. GateOrder' /\ PendingOnFile' /\ TailsAreOver'
  BY DEF TypeOK, GateOrder, PendingOnFile, TailsAreOver, CreateAwaitable
<1>3. RunnersRun' /\ WaitersWait' /\ KindsDiffer'
  BY DEF TypeOK, RunnersRun, WaitersWait, KindsDiffer, CreateAwaitable
<1> QED
  BY <1>1, <1>2, <1>3

LEMMA ShapeNativeSettles ==
  ASSUME Shape, NEW o \in Ops, NativeSettles(o)
  PROVE  Shape'
<1> USE IdentitiesDiffer DEF Shape, gate
<1>1. TypeOK'
  BY DEF TypeOK, CallStates, OpStates, WorkerStates, Threads, RunnersRun,
     NativeSettles, Settle
<1>2. GateOrder' /\ PendingOnFile' /\ TailsAreOver'
  BY DEF TypeOK, GateOrder, PendingOnFile, TailsAreOver, NativeSettles, Settle
<1>3. RunnersRun' /\ WaitersWait' /\ KindsDiffer'
  BY DEF TypeOK, RunnersRun, WaitersWait, KindsDiffer, NativeSettles, Settle
<1> QED
  BY <1>1, <1>2, <1>3

LEMMA ShapeCancelTimer ==
  ASSUME Shape, NEW o \in Ops, CancelTimer(o)
  PROVE  Shape'
<1> USE IdentitiesDiffer DEF Shape, gate
<1>1. TypeOK'
  BY DEF TypeOK, CallStates, OpStates, WorkerStates, Threads, RunnersRun,
     CancelTimer
<1>2. GateOrder' /\ PendingOnFile' /\ TailsAreOver'
  BY DEF TypeOK, GateOrder, PendingOnFile, TailsAreOver, CancelTimer
<1>3. RunnersRun' /\ WaitersWait' /\ KindsDiffer'
  BY DEF TypeOK, RunnersRun, WaitersWait, KindsDiffer, CancelTimer
<1> QED
  BY <1>1, <1>2, <1>3

LEMMA ShapeBeginWait ==
  ASSUME Shape, NEW o \in Ops, BeginWait(o)
  PROVE  Shape'
<1> USE IdentitiesDiffer DEF Shape, gate
<1>1. TypeOK'
  BY DEF TypeOK, CallStates, OpStates, WorkerStates, Threads, RunnersRun,
     BeginWait
<1>2. GateOrder' /\ PendingOnFile' /\ TailsAreOver'
  BY DEF TypeOK, GateOrder, PendingOnFile, TailsAreOver, BeginWait
<1>3. RunnersRun' /\ WaitersWait' /\ KindsDiffer'
  BY DEF TypeOK, RunnersRun, WaitersWait, KindsDiffer, BeginWait
<1> QED
  BY <1>1, <1>2, <1>3

LEMMA ShapeArmWait ==
  ASSUME Shape, NEW o \in Ops, ArmWait(o)
  PROVE  Shape'
<1> USE IdentitiesDiffer DEF Shape, gate
<1>1. TypeOK'
  BY DEF TypeOK, CallStates, OpStates, WorkerStates, Threads, RunnersRun,
     ArmWait
<1>2. GateOrder' /\ PendingOnFile' /\ TailsAreOver'
  BY DEF TypeOK, GateOrder, PendingOnFile, TailsAreOver, ArmWait
<1>3. RunnersRun' /\ WaitersWait' /\ KindsDiffer'
  BY DEF TypeOK, RunnersRun, WaitersWait, KindsDiffer, ArmWait
<1> QED
  BY <1>1, <1>2, <1>3

LEMMA ShapeTimerExpires ==
  ASSUME Shape, NEW o \in Ops, TimerExpires(o)
  PROVE  Shape'
<1> USE IdentitiesDiffer DEF Shape, gate
<1>1. TypeOK'
  BY DEF TypeOK, CallStates, OpStates, WorkerStates, Threads, RunnersRun,
     TimerExpires
<1>2. GateOrder' /\ PendingOnFile' /\ TailsAreOver'
  BY DEF TypeOK, GateOrder, PendingOnFile, TailsAreOver, TimerExpires
<1>3. RunnersRun' /\ WaitersWait' /\ KindsDiffer'
  BY DEF TypeOK, RunnersRun, WaitersWait, KindsDiffer, TimerExpires
<1> QED
  BY <1>1, <1>2, <1>3

LEMMA ShapeResume ==
  ASSUME Shape, NEW o \in Ops, Resume(o)
  PROVE  Shape'
<1> USE IdentitiesDiffer DEF Shape, gate
<1>1. TypeOK'
  BY DEF TypeOK, CallStates, OpStates, WorkerStates, Threads, RunnersRun,
     Resume, IoIdle
<1>2. GateOrder' /\ PendingOnFile' /\ TailsAreOver'
  BY DEF TypeOK, GateOrder, PendingOnFile, TailsAreOver, Resume, IoIdle
<1>3. RunnersRun' /\ WaitersWait' /\ KindsDiffer'
  BY DEF TypeOK, RunnersRun, WaitersWait, KindsDiffer, Resume, IoIdle
<1> QED
  BY <1>1, <1>2, <1>3

LEMMA ShapeCancel ==
  ASSUME Shape, NEW o \in Ops, Cancel(o)
  PROVE  Shape'
<1> USE IdentitiesDiffer DEF Shape, gate
<1>1. TypeOK'
  BY DEF TypeOK, CallStates, OpStates, WorkerStates, Threads, RunnersRun,
     Cancel, Take, Settle, Completions, WorkerFree
<1>2. GateOrder' /\ PendingOnFile' /\ TailsAreOver'
  BY DEF TypeOK, GateOrder, PendingOnFile, TailsAreOver, Cancel, Take, Settle,
     Completions, WorkerFree
<1>3. RunnersRun' /\ WaitersWait' /\ KindsDiffer'
  BY DEF TypeOK, RunnersRun, WaitersWait, KindsDiffer, Cancel, Take, Settle,
     Completions, WorkerFree
<1> QED
  BY <1>1, <1>2, <1>3

LEMMA ShapeReturnCompletion ==
  ASSUME Shape, Counted, ReturnCompletion
  PROVE  Shape'
<1> USE IdentitiesDiffer DEF Shape, gate
<1>1. TypeOK'
  <2>1. running \in Holders
    BY DEF TypeOK, ReturnCompletion, RunnersRun, Holders, CallTickets, OpTickets,
     Unticketed
  <2>2. inFlight - 1 \in Nat
    BY <2>1, TicketHeld
  <2> QED
    BY <2>2 DEF TypeOK, CallStates, OpStates, WorkerStates, Threads, ReturnCompletion
<1>2. GateOrder' /\ PendingOnFile' /\ TailsAreOver'
  BY DEF TypeOK, GateOrder, PendingOnFile, TailsAreOver, ReturnCompletion
<1>3. RunnersRun' /\ WaitersWait' /\ KindsDiffer'
  BY DEF TypeOK, RunnersRun, WaitersWait, KindsDiffer, ReturnCompletion
<1> QED
  BY <1>1, <1>2, <1>3

LEMMA ShapeClose ==
  ASSUME Shape, Close
  PROVE  Shape'
<1> USE IdentitiesDiffer DEF Shape, gate
<1>1. TypeOK'
  BY DEF TypeOK, CallStates, OpStates, WorkerStates, Threads, RunnersRun, Close
<1>2. GateOrder' /\ PendingOnFile' /\ TailsAreOver'
  BY DEF TypeOK, GateOrder, PendingOnFile, TailsAreOver, Close
<1>3. RunnersRun' /\ WaitersWait' /\ KindsDiffer'
  BY DEF TypeOK, RunnersRun, WaitersWait, KindsDiffer, Close
<1> QED
  BY <1>1, <1>2, <1>3

LEMMA ShapeFinishClose ==
  ASSUME Shape, FinishClose
  PROVE  Shape'
<1> USE IdentitiesDiffer DEF Shape, gate
<1>1. TypeOK'
  BY DEF TypeOK, CallStates, OpStates, WorkerStates, Threads, RunnersRun,
     FinishClose, WorkerFree
<1>2. GateOrder' /\ PendingOnFile' /\ TailsAreOver'
  BY DEF TypeOK, GateOrder, PendingOnFile, TailsAreOver, FinishClose,
     WorkerFree
<1>3. RunnersRun' /\ WaitersWait' /\ KindsDiffer'
  BY DEF TypeOK, RunnersRun, WaitersWait, KindsDiffer, FinishClose, WorkerFree
<1> QED
  BY <1>1, <1>2, <1>3

LEMMA ShapeDrain ==
  ASSUME Shape, Drain
  PROVE  Shape'
<1> USE IdentitiesDiffer DEF Shape, gate
<1>1. TypeOK'
  BY DEF TypeOK, CallStates, OpStates, WorkerStates, Threads, RunnersRun, Drain
<1>2. GateOrder' /\ PendingOnFile' /\ TailsAreOver'
  BY DEF TypeOK, GateOrder, PendingOnFile, TailsAreOver, Drain
<1>3. RunnersRun' /\ WaitersWait' /\ KindsDiffer'
  BY DEF TypeOK, RunnersRun, WaitersWait, KindsDiffer, Drain
<1> QED
  BY <1>1, <1>2, <1>3

-----------------------------------------------------------------------------
(* What a step does to the tickets: nothing, one begins, or one ends.      *)

Kept == Holders' = Holders /\ Ended' = Ended /\ inFlight' = inFlight

Begun(w) ==
  /\ w \in Calls \union Completions
  /\ w \notin Holders \union Ended
  /\ w \in Calls => ~closed
  /\ w \in Completions => op[w] = "pending" \/ current # None \/ running # None
  /\ Holders' = Holders \union {w} /\ Ended' = Ended
  /\ inFlight' = inFlight + 1
  /\ UNCHANGED <<closed, worker>>

Over(w) ==
  /\ w \in Calls \union Completions
  /\ w \in Holders
  /\ Holders' = Holders \ {w} /\ Ended' = Ended \union {w}
  /\ inFlight' = inFlight - 1
  /\ UNCHANGED <<closed, worker>>

LEMMA TicketEffect ==
  ASSUME Shape, Next
  PROVE  Kept \/ \E w \in Calls \union Completions : Begun(w) \/ Over(w)
<1> USE IdentitiesDiffer DEF Shape, gate
<1>1. ASSUME NEW h \in Calls, NEW where \in {"running", "queued", "outside"}, Enter(h, where)
      PROVE  Kept \/ \E w \in Calls \union Completions : Begun(w) \/ Over(w)
  <2>1. Begun(h) \/ Kept
    BY <1>1 DEF TypeOK, Holders, CallTickets, OpTickets, Unticketed, Ended,
       Completions, GateOrder, Enter, Begun, Kept
  <2> QED
    BY <2>1, <1>1 DEF Begun, Over
<1>2. ASSUME NEW h \in Calls, RunPosted(h)
      PROVE  Kept
  BY <1>2 DEF TypeOK, Holders, CallTickets, OpTickets, Unticketed, Ended,
     Completions, RunPosted, IoIdle, Kept
<1>3. ASSUME NEW h \in Calls, Return(h)
      PROVE  Kept \/ \E w \in Calls \union Completions : Begun(w) \/ Over(w)
  <2>1. Over(h)
    BY <1>3 DEF TypeOK, Holders, CallTickets, OpTickets, Unticketed, Ended,
       Completions, RunnersRun, Return, Over
  <2> QED
    BY <2>1, <1>3 DEF Begun, Over
<1>4. ASSUME NEW o \in Ops, StartOperation(o)
      PROVE  Kept \/ \E w \in Calls \union Completions : Begun(w) \/ Over(w)
  <2>1. Begun(o) \/ Kept
    BY <1>4 DEF TypeOK, Holders, CallTickets, OpTickets, Unticketed, Ended,
       Completions, StartOperation, CreateCompletion, IoRunning, Begun, Kept
  <2> QED
    BY <2>1, <1>4 DEF Begun, Over
<1>5. ASSUME NEW o \in Ops, AwaitOperation(o)
      PROVE  Kept \/ \E w \in Calls \union Completions : Begun(w) \/ Over(w)
  <2>1. Begun(o) \/ Kept
    BY <1>5 DEF TypeOK, Holders, CallTickets, OpTickets, Unticketed, Ended,
       Completions, RunnersRun, AwaitOperation, CreateCompletion, Begun, Kept
  <2> QED
    BY <2>1, <1>5 DEF Begun, Over
<1>6. ASSUME NEW o \in Ops, NativeCompletes(o)
      PROVE  Kept \/ \E w \in Calls \union Completions : Begun(w) \/ Over(w)
  <2>1. Begun(o)
    BY <1>6 DEF TypeOK, Holders, CallTickets, OpTickets, Unticketed, Ended,
       Completions, NativeCompletes, Take, Begun
  <2> QED
    BY <2>1, <1>6 DEF Begun, Over
<1>7. ASSUME NEW o \in Ops, TimeoutCompletes(o)
      PROVE  Kept \/ \E w \in Calls \union Completions : Begun(w) \/ Over(w)
  <2>1. Begun(o)
    BY <1>7 DEF TypeOK, Holders, CallTickets, OpTickets, Unticketed, Ended,
       Completions, TimeoutCompletes, Take, IoIdle, Begun
  <2> QED
    BY <2>1, <1>7 DEF Begun, Over
<1>8. ASSUME NEW o \in Ops, FinishComplete(o)
      PROVE  Kept
  BY <1>8 DEF TypeOK, Holders, CallTickets, OpTickets, Unticketed, Ended,
     Completions, FinishComplete, Kept
<1>9. ASSUME NEW o \in Ops, Drop(o)
      PROVE  Kept
  BY <1>9 DEF TypeOK, Holders, CallTickets, OpTickets, Unticketed, Ended,
     Completions, Drop, Kept
<1>10. ASSUME NEW o \in Ops, RunCompletion(o)
      PROVE  Kept
  BY <1>10 DEF TypeOK, Holders, CallTickets, OpTickets, Unticketed, Ended,
     Completions, WaitersWait, KindsDiffer, RunCompletion, IoIdle, Kept
<1>11. ASSUME NEW o \in Ops, CreateAwaitable(o)
      PROVE  Kept
  BY <1>11 DEF TypeOK, Holders, CallTickets, OpTickets, Unticketed, Ended,
     Completions, RunnersRun, CreateAwaitable, Kept
<1>12. ASSUME NEW o \in Ops, NativeSettles(o)
      PROVE  Kept
  BY <1>12 DEF TypeOK, Holders, CallTickets, OpTickets, Unticketed, Ended,
     Completions, NativeSettles, Settle, Kept
<1>13. ASSUME NEW o \in Ops, CancelTimer(o)
      PROVE  Kept
  BY <1>13 DEF TypeOK, Holders, CallTickets, OpTickets, Unticketed, Ended,
     Completions, CancelTimer, Kept
<1>14. ASSUME NEW o \in Ops, BeginWait(o)
      PROVE  Kept
  BY <1>14 DEF TypeOK, Holders, CallTickets, OpTickets, Unticketed, Ended,
     Completions, RunnersRun, BeginWait, Kept
<1>15. ASSUME NEW o \in Ops, ArmWait(o)
      PROVE  Kept
  BY <1>15 DEF TypeOK, Holders, CallTickets, OpTickets, Unticketed, Ended,
     Completions, RunnersRun, ArmWait, Kept
<1>16. ASSUME NEW o \in Ops, TimerExpires(o)
      PROVE  Kept
  BY <1>16 DEF TypeOK, Holders, CallTickets, OpTickets, Unticketed, Ended,
     Completions, TimerExpires, Kept
<1>17. ASSUME NEW o \in Ops, Resume(o)
      PROVE  Kept
  BY <1>17 DEF TypeOK, Holders, CallTickets, OpTickets, Unticketed, Ended,
     Completions, WaitersWait, KindsDiffer, Resume, IoIdle, Kept
<1>18. ASSUME NEW o \in Ops, Cancel(o)
      PROVE  Kept \/ \E w \in Calls \union Completions : Begun(w) \/ Over(w)
  <2>1. Begun(o) \/ Kept
    BY <1>18 DEF TypeOK, Holders, CallTickets, OpTickets, Unticketed, Ended,
       Completions, Cancel, Take, Settle, WorkerFree, Begun, Kept
  <2> QED
    BY <2>1, <1>18 DEF Begun, Over
<1>19. ASSUME ReturnCompletion
      PROVE  Kept \/ \E w \in Calls \union Completions : Begun(w) \/ Over(w)
  <2>1. Over(running)
    BY <1>19 DEF TypeOK, Holders, CallTickets, OpTickets, Unticketed, Ended,
       Completions, RunnersRun, KindsDiffer, ReturnCompletion, Over
  <2> QED
    BY <2>1, <1>19 DEF Begun, Over
<1>20. ASSUME Close
      PROVE  Kept
  BY <1>20 DEF TypeOK, Holders, CallTickets, OpTickets, Unticketed, Ended,
     Completions, Close, Kept
<1>21. ASSUME FinishClose
      PROVE  Kept
  BY <1>21 DEF TypeOK, Holders, CallTickets, OpTickets, Unticketed, Ended,
     Completions, FinishClose, WorkerFree, Kept
<1>22. ASSUME Drain
      PROVE  Kept
  BY <1>22 DEF TypeOK, Holders, CallTickets, OpTickets, Unticketed, Ended,
     Completions, Drain, Kept
<1> QED
  BY <1>1, <1>2, <1>3, <1>4, <1>5, <1>6, <1>7, <1>8, <1>9, <1>10, <1>11, <1>12,
     <1>13, <1>14, <1>15, <1>16, <1>17, <1>18, <1>19, <1>20, <1>21, <1>22
  DEF Next, CallStep, OpStep

-----------------------------------------------------------------------------
(* The inductive invariant.                                                *)

(* After the drain nobody holds a ticket.                                  *)
Quiet == worker = "drained" => Holders = {}

GateInv == Shape /\ Counted /\ Quiet

LEMMA CloseReached == Shape => CloseReachesAll
  BY DEF Shape, CloseReachesAll, GateOrder, PendingOnFile, TypeOK, WorkerStates

(* Nothing begins once everything is quiet: there is no open gate, no      *)
(* runner to create an operation and no pending operation to complete.     *)
LEMMA NothingBegins ==
  ASSUME Shape, Quiet, worker = "drained", NEW w, Begun(w)
  PROVE  FALSE
<1>1. closed /\ finished
  BY DEF Shape, GateOrder
<1>2. w \notin Calls
  BY <1>1 DEF Begun
<1>3. op[w] # "pending"
  BY <1>1, <1>2, CloseReached DEF CloseReachesAll, Begun, Completions
<1>4. current = None /\ running = None
  BY IdentitiesDiffer DEF Quiet, Shape, TypeOK, RunnersRun, Holders, CallTickets, OpTickets,
     Unticketed
<1> QED
  BY <1>2, <1>3, <1>4 DEF Begun

LEMMA ShapeStep == ASSUME Shape, Counted, [Next]_vars PROVE Shape'
<1>1. ASSUME NEW h \in Calls, CallStep(h) PROVE Shape'
  BY <1>1, ShapeEnter, ShapeRunPosted, ShapeReturn DEF CallStep
<1>2. ASSUME NEW o \in Ops, OpStep(o) PROVE Shape'
  BY <1>2, ShapeStartOperation, ShapeAwaitOperation, ShapeNativeCompletes,
     ShapeTimeoutCompletes, ShapeFinishComplete, ShapeDrop, ShapeRunCompletion,
     ShapeCreateAwaitable, ShapeNativeSettles, ShapeCancelTimer, ShapeBeginWait,
     ShapeArmWait, ShapeTimerExpires, ShapeResume, ShapeCancel DEF OpStep
<1>3. CASE UNCHANGED vars
  BY <1>3 DEF vars, Shape, TypeOK, GateOrder, PendingOnFile, TailsAreOver, RunnersRun,
     WaitersWait, KindsDiffer
<1> QED
  BY <1>1, <1>2, <1>3, ShapeReturnCompletion, ShapeClose, ShapeFinishClose, ShapeDrain
  DEF Next

LEMMA CountedStep == ASSUME Shape, Counted, [Next]_vars PROVE Counted'
<1>1. ASSUME NEW w, Begun(w) PROVE Counted'
  <2>1. Cardinality(Holders \union {w}) = Cardinality(Holders) + 1
    BY <1>1, HoldersFinite, FS_AddElement DEF Begun
  <2> QED
    BY <1>1, <2>1 DEF Begun, Counted
<1>2. ASSUME NEW w, Over(w) PROVE Counted'
  <2>1. Cardinality(Holders \ {w}) = Cardinality(Holders) - 1
    BY <1>2, HoldersFinite, FS_RemoveElement DEF Over
  <2> QED
    BY <1>2, <2>1 DEF Over, Counted
<1>3. CASE Kept
  BY <1>3 DEF Kept, Counted
<1>4. CASE UNCHANGED vars
  BY <1>4 DEF vars, Counted, Holders, CallTickets, OpTickets, Unticketed
<1> QED
  BY <1>1, <1>2, <1>3, <1>4, TicketEffect

LEMMA OnlyDrainDrains ==
  ASSUME Next, worker' = "drained"
  PROVE  worker = "drained" \/ Drain
  BY DEF Next, CallStep, OpStep, Enter, RunPosted, Return, StartOperation, AwaitOperation,
     CreateCompletion, NativeCompletes, TimeoutCompletes, FinishComplete, Drop, RunCompletion,
     CreateAwaitable, NativeSettles, CancelTimer, BeginWait, ArmWait, TimerExpires, Resume,
     Cancel, ReturnCompletion, Close, FinishClose, gate

LEMMA QuietStep == ASSUME GateInv, [Next]_vars PROVE Quiet'
<1> USE DEF GateInv
<1>1. CASE UNCHANGED vars
  BY <1>1 DEF vars, Quiet, Holders, CallTickets, OpTickets, Unticketed
<1>2. CASE Drain
  <2>1. Cardinality(Holders) = 0
    BY <1>2 DEF Drain, Counted
  <2>2. Holders = {}
    BY <2>1, HoldersFinite, FS_EmptySet
  <2> QED
    BY <1>2, <2>2 DEF Drain, Quiet, Holders, CallTickets, OpTickets, Unticketed
<1>3. ASSUME Next, worker = "drained" PROVE Quiet'
  <2>1. Holders = {}
    BY <1>3 DEF Quiet
  <2>2. ~ \E w : Begun(w)
    BY <1>3, NothingBegins
  <2>3. Holders' = {}
    BY <1>3, <2>1, <2>2, TicketEffect DEF Kept, Over
  <2> QED
    BY <2>3 DEF Quiet
<1> QED
  BY <1>1, <1>2, <1>3, OnlyDrainDrains DEF Quiet

LEMMA GateInvInit == Init => GateInv
<1> SUFFICES ASSUME Init PROVE GateInv
  OBVIOUS
<1>1. Holders = {}
  BY DEF Init, Holders, CallTickets, OpTickets, Unticketed
<1>2. Counted
  BY <1>1, FS_EmptySet DEF Init, Counted
<1> QED
  BY <1>1, <1>2, ShapeInit DEF Init, GateInv, Quiet

LEMMA GateInvStep == GateInv /\ [Next]_vars => GateInv'
  BY ShapeStep, CountedStep, QuietStep DEF GateInv

(* The inductive invariant holds of every behaviour.                       *)
THEOREM Inductive == Spec => []GateInv
  BY GateInvInit, GateInvStep, PTL DEF Spec

-----------------------------------------------------------------------------
(* The results.                                                            *)

(* Every variable keeps its type; in particular the counter in_flight_     *)
(* never goes below zero.                                                  *)
THEOREM Typing == Spec => []TypeOK
<1>1. GateInv => TypeOK
  BY DEF GateInv, Shape
<1> QED
  BY <1>1, Inductive, PTL

(* in_flight_ counts the calls and completions that hold a ticket.         *)
THEOREM Counting == Spec => []Counted
<1>1. GateInv => Counted
  BY DEF GateInv
<1> QED
  BY <1>1, Inductive, PTL

(* When WaitForDrain returns, and ever after, no call and no completion    *)
(* holds a ticket, is queued or runs.                                      *)
THEOREM DrainSafety == Spec => []DrainIsQuiet
<1>1. GateInv => DrainIsQuiet
  BY IdentitiesDiffer DEF GateInv, Quiet, DrainIsQuiet, Shape, TypeOK, RunnersRun, Holders,
     CallTickets, OpTickets, Unticketed
<1> QED
  BY <1>1, Inductive, PTL

(* When Close returns, no operation is left to a native thread's goodwill. *)
THEOREM CloseCompletes == Spec => []CloseReachesAll
<1>1. GateInv => CloseReachesAll
  BY CloseReached DEF GateInv
<1> QED
  BY <1>1, Inductive, PTL

(* A waiting call keeps the operation that will resume it.                 *)
LEMMA ResumableStep == ASSUME Shape, WaitersAreResumable, [Next]_vars PROVE WaitersAreResumable'
<1> USE IdentitiesDiffer DEF Shape, gate, WaitersAreResumable
<1>1. ASSUME NEW h \in Calls, NEW where \in {"running", "queued", "outside"}, Enter(h, where) PROVE WaitersAreResumable'
  BY <1>1 DEF TypeOK, WaitersWait, Enter
<1>2. ASSUME NEW h \in Calls, RunPosted(h) PROVE WaitersAreResumable'
  BY <1>2 DEF TypeOK, WaitersWait, RunPosted, IoIdle
<1>3. ASSUME NEW h \in Calls, Return(h) PROVE WaitersAreResumable'
  BY <1>3 DEF TypeOK, WaitersWait, Return
<1>4. ASSUME NEW o \in Ops, StartOperation(o) PROVE WaitersAreResumable'
  BY <1>4 DEF TypeOK, WaitersWait, StartOperation, CreateCompletion, Completions,
     IoRunning
<1>5. ASSUME NEW o \in Ops, AwaitOperation(o) PROVE WaitersAreResumable'
  BY <1>5 DEF TypeOK, WaitersWait, AwaitOperation, CreateCompletion, Completions
<1>6. ASSUME NEW o \in Ops, NativeCompletes(o) PROVE WaitersAreResumable'
  BY <1>6 DEF TypeOK, WaitersWait, NativeCompletes, Take, Completions
<1>7. ASSUME NEW o \in Ops, TimeoutCompletes(o) PROVE WaitersAreResumable'
  BY <1>7 DEF TypeOK, WaitersWait, TimeoutCompletes, Take, Completions, IoIdle
<1>8. ASSUME NEW o \in Ops, FinishComplete(o) PROVE WaitersAreResumable'
  BY <1>8 DEF TypeOK, WaitersWait, FinishComplete, Completions
<1>9. ASSUME NEW o \in Ops, Drop(o) PROVE WaitersAreResumable'
  BY <1>9 DEF TypeOK, WaitersWait, Drop, Completions
<1>10. ASSUME NEW o \in Ops, RunCompletion(o) PROVE WaitersAreResumable'
  BY <1>10 DEF TypeOK, WaitersWait, RunCompletion, IoIdle
<1>11. ASSUME NEW o \in Ops, CreateAwaitable(o) PROVE WaitersAreResumable'
  BY <1>11 DEF TypeOK, WaitersWait, CreateAwaitable
<1>12. ASSUME NEW o \in Ops, NativeSettles(o) PROVE WaitersAreResumable'
  BY <1>12 DEF TypeOK, WaitersWait, NativeSettles, Settle
<1>13. ASSUME NEW o \in Ops, CancelTimer(o) PROVE WaitersAreResumable'
  BY <1>13 DEF TypeOK, WaitersWait, CancelTimer
<1>14. ASSUME NEW o \in Ops, BeginWait(o) PROVE WaitersAreResumable'
  BY <1>14 DEF TypeOK, WaitersWait, BeginWait
<1>15. ASSUME NEW o \in Ops, ArmWait(o) PROVE WaitersAreResumable'
  BY <1>15 DEF TypeOK, WaitersWait, ArmWait
<1>16. ASSUME NEW o \in Ops, TimerExpires(o) PROVE WaitersAreResumable'
  BY <1>16 DEF TypeOK, WaitersWait, TimerExpires
<1>17. ASSUME NEW o \in Ops, Resume(o) PROVE WaitersAreResumable'
  BY <1>17 DEF TypeOK, WaitersWait, Resume, IoIdle
<1>18. ASSUME NEW o \in Ops, Cancel(o) PROVE WaitersAreResumable'
  BY <1>18 DEF TypeOK, WaitersWait, Cancel, Take, Settle, Completions, WorkerFree
<1>19. ASSUME ReturnCompletion PROVE WaitersAreResumable'
  BY <1>19 DEF TypeOK, RunnersRun, KindsDiffer, ReturnCompletion
<1>20. ASSUME Close PROVE WaitersAreResumable'
  BY <1>20 DEF TypeOK, WaitersWait, Close
<1>21. ASSUME FinishClose PROVE WaitersAreResumable'
  BY <1>21 DEF TypeOK, WaitersWait, FinishClose, WorkerFree
<1>22. ASSUME Drain PROVE WaitersAreResumable'
  BY <1>22 DEF TypeOK, WaitersWait, Drain
<1>23. CASE UNCHANGED vars
  BY <1>23 DEF vars
<1> QED
  BY <1>1, <1>2, <1>3, <1>4, <1>5, <1>6, <1>7, <1>8, <1>9, <1>10, <1>11, <1>12,
     <1>13, <1>14, <1>15, <1>16, <1>17, <1>18, <1>19, <1>20, <1>21, <1>22, <1>23
  DEF Next, CallStep, OpStep

(* No call waits for an operation that is over or given up.                *)
THEOREM Resumption == Spec => []WaitersAreResumable
<1>1. Init => WaitersAreResumable
  BY DEF Init, WaitersAreResumable
<1>2. GateInv /\ WaitersAreResumable /\ [Next]_vars => WaitersAreResumable'
  BY ResumableStep DEF GateInv
<1> QED
  BY <1>1, <1>2, Inductive, PTL DEF Spec

-----------------------------------------------------------------------------
(* Refinement.                                                             *)

LEMMA OtherPhases ==
  ASSUME Shape, Next
  PROVE  Phase' = Phase \/ Close \/ Drain
  BY DEF Shape, GateOrder, Phase, Next, CallStep, OpStep, Enter, RunPosted, Return,
     StartOperation, AwaitOperation,
     CreateCompletion, NativeCompletes, TimeoutCompletes, FinishComplete, Drop, RunCompletion,
     CreateAwaitable, NativeSettles, CancelTimer, BeginWait, ArmWait, TimerExpires, Resume,
     Cancel, ReturnCompletion, FinishClose, gate

LEMMA Separate == ASSUME Shape PROVE Holders \intersect Ended = {}
  BY IdentitiesDiffer DEF Holders, CallTickets, OpTickets, Unticketed, Ended, Completions

(* Every step of the gate is a step of the barrier or invisible to it.     *)
LEMMA BarrierStep == ASSUME GateInv, [Next]_vars PROVE [Barrier!Next]_(Barrier!bvars)
<1>1. ASSUME NEW w \in Calls \union Completions, Begun(w) PROVE Barrier!Begin(w)
  <2>1. Phase # "drained"
    BY <1>1, NothingBegins DEF GateInv, Phase
  <2> QED
    BY <1>1, <2>1 DEF Barrier!Begin, Begun, Phase, GateInv, Shape, GateOrder
<1>2. ASSUME NEW w \in Calls \union Completions, Over(w) PROVE Barrier!End(w)
  BY <1>2, Separate DEF Barrier!End, Over, Phase, GateInv
<1>3. ASSUME Kept, Close PROVE Barrier!Close
  BY <1>3 DEF Barrier!Close, Kept, Close, Phase, GateInv, Shape, GateOrder
<1>4. ASSUME Kept, Drain PROVE Barrier!Drain
  <2>1. Holders = {}
    <3>1. Cardinality(Holders) = 0
      BY <1>4 DEF Drain, Counted, GateInv
    <3> QED
      BY <3>1, HoldersFinite, FS_EmptySet
  <2> QED
    BY <1>4, <2>1 DEF Barrier!Drain, Kept, Drain, Phase
<1>5. ASSUME Kept, Phase' = Phase PROVE UNCHANGED Barrier!bvars
  BY <1>5 DEF Kept, Barrier!bvars
<1>6. CASE UNCHANGED vars
  BY <1>6 DEF vars, Barrier!bvars, Phase, Holders, CallTickets, OpTickets, Unticketed, Ended,
     Completions
<1> QED
  BY <1>1, <1>2, <1>3, <1>4, <1>5, <1>6, TicketEffect, OtherPhases DEF GateInv, Barrier!Next

(* The gate implements the barrier: every call and every completion begins *)
(* and ends once, calls begin only on an open gate, and nothing begins     *)
(* after a drain that found nothing unfinished.                            *)
THEOREM Refinement == Spec => ImplementsBarrier
<1>1. ASSUME Init PROVE Barrier!Init
  <2>1. Holders = {} /\ Ended = {}
    BY <1>1 DEF Init, Holders, CallTickets, OpTickets, Unticketed, Ended, Completions
  <2>2. Phase = "open"
    BY <1>1 DEF Init, Phase
  <2> QED
    BY <2>1, <2>2 DEF Barrier!Init
<1>2. GateInv /\ [Next]_vars => [Barrier!Next]_(Barrier!bvars)
  BY BarrierStep
<1> QED
  BY <1>1, <1>2, Inductive, PTL DEF Spec, Barrier!Spec, ImplementsBarrier
=============================================================================
