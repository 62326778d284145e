--------------------------- MODULE OrderExecution ---------------------------
(***************************************************************************)
(* The asynchronous order path of include/core/interfaces/                 *)
(* IExecutionManager.hpp: an OrderQueue (a std::queue guarded by a mutex   *)
(* and a condition variable) shared by one or more ExecutionManagers, each *)
(* of which owns one worker thread that takes orders from the queue,       *)
(* processes them and reports their execution.                             *)
(*                                                                         *)
(* Every access to queue_ is made with mutex_ held, so one critical        *)
(* section is one action.  cond_var_.wait is split where it gives the      *)
(* mutex up: a worker that finds the queue empty is "blocked", notify_one  *)
(* (or a spurious wakeup, which the standard allows) makes it "woken", and *)
(* a woken worker takes the mutex again and tests the predicate again.     *)
(***************************************************************************)
EXTENDS Naturals, Sequences, FiniteSets, Functions

CONSTANTS
  Orders,     \* the orders clients submit; main.cpp numbers them 0, 1, ...
  Managers,   \* the ExecutionManager objects constructed over the queue
  NoOrder     \* the worker's local variable when it holds no order

ASSUME ManagersAssumption == IsFiniteSet(Managers)
ASSUME NoOrderAssumption == NoOrder \notin Orders

VARIABLES
  queue,      \* OrderQueue::queue_
  worker,     \* where each manager's worker thread is in orderProcessingLoop
  order,      \* the worker's local Order
  shutdown,   \* shutdownFlag_
  owner,      \* the thread that destroys the manager: where it is
  accepted,   \* history: every order pushed, in the order of the pushes
  taken,      \* history: every order popped, in the order of the pops
  reports,    \* the execution reports written to stdout
  lateTakes   \* history: orders a worker took after its flag was set

queueVars == <<queue, accepted, taken>>
vars == <<queue, worker, order, shutdown, owner, accepted, taken, reports,
          lateTakes>>

Blocked == {m \in Managers : worker[m] = "blocked"}
Woken == {m \in Managers : worker[m] = "woken"}

TypeOK ==
  /\ queue \in Seq(Orders)
  /\ worker \in [Managers -> {"loop", "pop", "blocked", "woken", "process",
                              "done"}]
  /\ order \in [Managers -> Orders \cup {NoOrder}]
  /\ shutdown \in [Managers -> BOOLEAN]
  /\ owner \in [Managers -> {"running", "joining", "destroyed"}]
  /\ accepted \in Seq(Orders)
  /\ taken \in Seq(Orders)
  /\ reports \in Seq(Orders)
  /\ lateTakes \in [Managers -> Nat]

\* The constructor starts the worker after every member is initialised.
Init ==
  /\ queue = <<>>
  /\ worker = [m \in Managers |-> "loop"]
  /\ order = [m \in Managers |-> NoOrder]
  /\ shutdown = [m \in Managers |-> FALSE]
  /\ owner = [m \in Managers |-> "running"]
  /\ accepted = <<>>
  /\ taken = <<>>
  /\ reports = <<>>
  /\ lateTakes = [m \in Managers |-> 0]

-----------------------------------------------------------------------------
(* OrderQueue *)

\* cond_var_.notify_one: some blocked worker, if there is one, is woken.
NotifyOne ==
  \/ /\ Blocked = {}
     /\ UNCHANGED worker
  \/ \E m \in Blocked : worker' = [worker EXCEPT ![m] = "woken"]

\* Mutant of Push: notify only when the queue was empty before the push.
PushNotifyIfWasEmpty(o) ==
  /\ queue' = Append(queue, o)
  /\ accepted' = Append(accepted, o)
  /\ IF queue = <<>> THEN NotifyOne ELSE UNCHANGED worker

\* OrderQueue::push: append and notify, both under the mutex.
Push(o) ==
  /\ queue' = Append(queue, o)
  /\ accepted' = Append(accepted, o)
  /\ NotifyOne

\* Mutant of PopFront: the newest order is read, the oldest removed.
ReadBackPopFront(o) ==
  /\ queue # <<>>
  /\ o = queue[Len(queue)]
  /\ queue' = Tail(queue)
  /\ taken' = Append(taken, o)
  /\ UNCHANGED accepted

\* The critical section by which both pop and waitAndPop remove the front
\* order, o, of a queue that has one.
PopFront(o) ==
  /\ queue # <<>>
  /\ o = Head(queue)
  /\ queue' = Tail(queue)
  /\ taken' = Append(taken, o)
  /\ UNCHANGED accepted

\* OrderQueue::pop, the non-blocking removal: it returns false and changes
\* nothing when the queue is empty.  Nothing in the repository calls it; a
\* client thread may.
Pop ==
  /\ \E o \in Orders : PopFront(o)
  /\ UNCHANGED <<worker, order, shutdown, owner, reports, lateTakes>>

-----------------------------------------------------------------------------
(* Clients of an ExecutionManager *)

\* executeTrade.  A client submits each order once, and calls no method of a
\* manager whose destructor has begun.
ExecuteTrade(m, o) ==
  /\ owner[m] = "running"
  /\ o \notin Range(accepted)
  /\ Push(o)
  /\ UNCHANGED <<order, shutdown, owner, taken, reports, lateTakes>>

\* ~ExecutionManager stores the flag.  It neither notifies cond_var_ nor
\* pushes anything.
BeginDestroy(m) ==
  /\ owner[m] = "running"
  /\ owner' = [owner EXCEPT ![m] = "joining"]
  /\ shutdown' = [shutdown EXCEPT ![m] = TRUE]
  /\ UNCHANGED <<worker, order, reports, lateTakes>>
  /\ UNCHANGED queueVars

\* Mutant of FinishDestroy: the destructor also waits for an empty queue.
FinishDestroyWhenDrained(m) ==
  /\ owner[m] = "joining"
  /\ worker[m] = "done"
  /\ queue = <<>>
  /\ owner' = [owner EXCEPT ![m] = "destroyed"]
  /\ UNCHANGED <<worker, order, shutdown, reports, lateTakes>>
  /\ UNCHANGED queueVars

\* workerThread_.join() returns once the thread function has returned.
FinishDestroy(m) ==
  /\ owner[m] = "joining"
  /\ worker[m] = "done"
  /\ owner' = [owner EXCEPT ![m] = "destroyed"]
  /\ UNCHANGED <<worker, order, shutdown, reports, lateTakes>>
  /\ UNCHANGED queueVars

-----------------------------------------------------------------------------
(* The worker thread *)

\* Mutant of LoopTest: while(true).
LoopForEver(m) ==
  /\ worker[m] = "loop"
  /\ worker' = [worker EXCEPT ![m] = "pop"]
  /\ UNCHANGED <<order, shutdown, owner, reports, lateTakes>>
  /\ UNCHANGED queueVars

\* while(!shutdownFlag_.load(...))
LoopTest(m) ==
  /\ worker[m] = "loop"
  /\ worker' = [worker EXCEPT ![m] = IF shutdown[m] THEN "done" ELSE "pop"]
  /\ UNCHANGED <<order, shutdown, owner, reports, lateTakes>>
  /\ UNCHANGED queueVars

\* waitAndPop with the mutex taken, on entry or after a wakeup, and the
\* predicate false: the worker sleeps.
Wait(m) ==
  /\ worker[m] \in {"pop", "woken"}
  /\ queue = <<>>
  /\ worker' = [worker EXCEPT ![m] = "blocked"]
  /\ UNCHANGED <<order, shutdown, owner, reports, lateTakes>>
  /\ UNCHANGED queueVars

\* waitAndPop with the predicate true.
Take(m) ==
  /\ worker[m] \in {"pop", "woken"}
  /\ \E o \in Orders : PopFront(o) /\ order' = [order EXCEPT ![m] = o]
  /\ worker' = [worker EXCEPT ![m] = "process"]
  /\ lateTakes' = [lateTakes EXCEPT ![m] = IF shutdown[m] THEN @ + 1 ELSE @]
  /\ UNCHANGED <<shutdown, owner, reports>>

SpuriousWakeup(m) ==
  /\ worker[m] = "blocked"
  /\ worker' = [worker EXCEPT ![m] = "woken"]
  /\ UNCHANGED <<order, shutdown, owner, reports, lateTakes>>
  /\ UNCHANGED queueVars

\* Mutant of ProcessOrder: an order taken during shutdown is discarded.
ProcessUnlessShutdown(m) ==
  /\ worker[m] = "process"
  /\ reports' = IF shutdown[m] THEN reports ELSE Append(reports, order[m])
  /\ order' = [order EXCEPT ![m] = NoOrder]
  /\ worker' = [worker EXCEPT ![m] = "loop"]
  /\ UNCHANGED <<shutdown, owner, lateTakes>>
  /\ UNCHANGED queueVars

\* processOrder, which calls onExecutionReport; the local Order then goes out
\* of scope.
ProcessOrder(m) ==
  /\ worker[m] = "process"
  /\ reports' = Append(reports, order[m])
  /\ order' = [order EXCEPT ![m] = NoOrder]
  /\ worker' = [worker EXCEPT ![m] = "loop"]
  /\ UNCHANGED <<shutdown, owner, lateTakes>>
  /\ UNCHANGED queueVars

-----------------------------------------------------------------------------
WorkerStep(m) == LoopTest(m) \/ Wait(m) \/ Take(m) \/ ProcessOrder(m)

Next ==
  \/ Pop
  \/ \E m \in Managers :
       \/ \E o \in Orders : ExecuteTrade(m, o)
       \/ BeginDestroy(m)
       \/ FinishDestroy(m)
       \/ WorkerStep(m)
       \/ SpuriousWakeup(m)

Spec == Init /\ [][Next]_vars

\* A runnable thread is eventually scheduled: the worker's own steps, and the
\* return of a join whose thread has ended.  Nothing obliges a client to
\* submit, to poll or to destroy, nor a wakeup to be spurious.
Fairness ==
  \A m \in Managers : WF_vars(WorkerStep(m)) /\ WF_vars(FinishDestroy(m))

FairSpec == Spec /\ Fairness

-----------------------------------------------------------------------------
(* Safety *)

\* No wakeup is lost: while some worker sleeps in cond_var_.wait, there are at
\* least as many workers that have been woken and not yet run as there are
\* orders queued.  In particular no order waits for a worker that nothing
\* will wake.
NoLostWakeup == Blocked # {} => Len(queue) <= Cardinality(Woken)

\* The queue is FIFO and neither loses nor duplicates: what was pushed is
\* what was popped followed by what is still queued, whatever the
\* interleaving of pushing, polling and waiting threads.
FIFO == accepted = taken \o queue

\* An order is in the hands of one worker at most, and is reported at most
\* once and never again while a worker still holds it.
AtMostOnce ==
  /\ IsInjective(reports)
  /\ \A m \in Managers : order[m] # NoOrder => order[m] \notin Range(reports)
  /\ \A m, n \in Managers :
       m # n /\ order[m] # NoOrder => order[m] # order[n]

\* Once shutdownFlag_ is set, the worker executes at most one more order: the
\* one it was already waiting for.
AtMostOneLateTake == \A m \in Managers : lateTakes[m] <= 1

\* What a worker's place says of its order, its destructor and its late order:
\* a late order is the one it was already waiting for, so it is not about to
\* take another.
WorkerState ==
  \A m \in Managers :
    /\ worker[m] = "process" <=> order[m] # NoOrder
    /\ owner[m] = "destroyed" => worker[m] = "done"
    /\ lateTakes[m] > 0 =>
         lateTakes[m] = 1 /\ shutdown[m] /\ worker[m] \in {"process", "loop", "done"}

\* Orders held and orders reported have left the queue, and no order was
\* accepted twice.
Provenance ==
  /\ IsInjective(accepted)
  /\ \A m \in Managers : order[m] # NoOrder => order[m] \in Range(taken)
  /\ Range(reports) \subseteq Range(taken)

\* The inductive invariant: the safety properties above, where a worker's
\* order comes from, and what its place in the loop implies.
IInv ==
  TypeOK /\ NoLostWakeup /\ FIFO /\ AtMostOnce /\ WorkerState /\ Provenance

-----------------------------------------------------------------------------
(* Refinement *)

\* The orders that workers hold between waitAndPop and the report.
InFlight == {order[m] : m \in {n \in Managers : worker[n] = "process"}}

\* The implementation seen as the abstract dispatcher.
Dispatcher == INSTANCE OrderDispatch WITH pending <- queue, inFlight <- InFlight

\* Every step of threads, mutex and condition variable is a step of the
\* abstract dispatcher or leaves it unchanged.
RefinesDispatch == Dispatcher!Spec

-----------------------------------------------------------------------------
(* Liveness *)

\* An order stays queued for ever only when every manager has been told to
\* shut down.
QueuedOrderIsTaken ==
  \A o \in Orders :
    (o \in Range(queue)) ~>
      (o \notin Range(queue) \/ \A m \in Managers : shutdown[m])

\* An order that a worker took is reported, also if its manager is told to shut
\* down, or others submit, poll and take, while it is processed outside the
\* mutex.
TakenIsReported ==
  \A o \in Orders :
    (\E m \in Managers : order[m] = o) ~> (o \in Range(reports))

\* A destructor returns or its worker falls asleep: nothing else delays it.
JoinReturnsUnlessAsleep ==
  \A m \in Managers :
    (owner[m] = "joining") ~> (owner[m] = "destroyed" \/ worker[m] = "blocked")

\* main.cpp:171, "System shutting down cleanly...": the destructor of an
\* ExecutionManager returns.
DestructorReturns ==
  \A m \in Managers : (owner[m] = "joining") ~> (owner[m] = "destroyed")
=============================================================================
