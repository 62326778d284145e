---------------------------- MODULE TradingMain -----------------------------
(***************************************************************************)
(* The program of src/main.cpp: one main thread that computes the spread   *)
(* and z-score of its ticks, asks for a risk approval, submits its orders, *)
(* starts and detaches the monitor, executes one three-leg trade and       *)
(* returns, destroying its locals in the reverse order of construction;    *)
(* with it, the worker of OrderExecution, the trade of TriangularTrade and *)
(* the monitor thread.                                                     *)
(*                                                                         *)
(* main's figures are literals, so its approval and its legs are always    *)
(* good.  The model takes them and the ticks from sets, and so covers the  *)
(* branches that main's error handling is there for.  Nothing in main.cpp  *)
(* calls updatePosition, so a live RiskManager always allows the strategy. *)
(***************************************************************************)
EXTENDS TriangularTrade, SignalStats, Functions

CONSTANTS
  NumOrders,      \* numOrders
  TickSeries,     \* what tickSeries may hold: [eurUsd, gbpUsd, eurGbp]
  Verdicts,       \* what evaluateOrderRisk may answer
  Manager, NoOrder

ASSUME MainAssumption ==
  /\ NumOrders \in Nat /\ NoOrder \notin 0..(NumOrders - 1)
  /\ TickSeries \subseteq Seq([eurUsd : Int, gbpUsd : Int, eurGbp : Int])
  /\ Verdicts \subseteq BOOLEAN

VARIABLES
  queue, worker, order, shutdown, owner, accepted, taken, reports, lateTakes,
  spreadHistory,  \* the spreads of the ticks, until zScore is printed
  main,           \* where main() is
  next,           \* i, the number of the next order
  exitCode,       \* what main returns: 0, 1, or 2 while it has not returned
  monitor,        \* the monitor thread: "none", "polling" or "ended"
  riskManager     \* riskManager's lifetime: "alive" or "destroyed"

ordersVars == <<queue, worker, order, shutdown, owner, accepted, taken, reports,
                lateTakes>>
tradeVars == <<legs, state, pc, executed>>
localVars == <<spreadHistory, next, exitCode, monitor, riskManager>>
mainVars == <<main, localVars>>
allVars == <<ordersVars, tradeVars, mainVars>>

OE == INSTANCE OrderExecution WITH Orders <- 0..(NumOrders - 1), Managers <- {Manager}

MainTypeOK ==
  /\ OE!TypeOK /\ TypeOK
  /\ spreadHistory \in Seq(Int)
  /\ main \in {"signals", "risk", "submit", "spawn", "detach", "setLegs", "execute",
               "executing", "return", "destroy", "join", "exited"}
  /\ next \in 0..NumOrders
  /\ exitCode \in 0..2
  /\ monitor \in {"none", "polling", "ended"}
  /\ riskManager \in {"alive", "destroyed"}

MainInit ==
  /\ OE!Init /\ Init
  /\ spreadHistory = <<>>
  /\ main = "signals" /\ next = 0 /\ exitCode = 2
  /\ monitor = "none" /\ riskManager = "alive"

-----------------------------------------------------------------------------
(* The main thread *)

\* tickSeries and spreadHistory are filled; zScore and the cointegration test
\* are computed from them, printed, and not used again.
ComputeSignals(ticks) ==
  /\ main = "signals"
  /\ main' = "risk"
  /\ spreadHistory' = [i \in DOMAIN ticks |-> ComputeSpread(ticks[i])]
  /\ UNCHANGED <<ordersVars, tradeVars, next, exitCode, monitor, riskManager>>

\* if(!riskManager.evaluateOrderRisk(...)) return EXIT_FAILURE
EvaluateRisk(ok) ==
  /\ main = "risk"
  /\ main' = IF ok THEN "submit" ELSE "return"
  /\ exitCode' = IF ok THEN exitCode ELSE 1
  /\ spreadHistory' = <<>>
  /\ UNCHANGED <<ordersVars, tradeVars, next, monitor, riskManager>>

SubmitOrder ==
  /\ main = "submit" /\ next < NumOrders
  /\ OE!ExecuteTrade(Manager, next)
  /\ next' = next + 1
  /\ UNCHANGED <<tradeVars, main, spreadHistory, exitCode, monitor, riskManager>>

EndSubmission ==
  /\ main = "submit" /\ next = NumOrders
  /\ main' = "spawn"
  /\ UNCHANGED <<ordersVars, tradeVars, localVars>>

StartMonitor ==
  /\ main = "spawn"
  /\ main' = "detach" /\ monitor' = "polling"
  /\ UNCHANGED <<ordersVars, tradeVars, spreadHistory, next, exitCode, riskManager>>

\* Three seconds of sleep order nothing: monitor and worker run as they may.
Detach ==
  /\ main = "detach"
  /\ main' = "setLegs"
  /\ UNCHANGED <<ordersVars, tradeVars, localVars>>

PrepareTrade ==
  /\ main = "setLegs"
  /\ \E newLegs \in [1..3 -> Leg] : SetLegs(newLegs)
  /\ main' = "execute"
  /\ UNCHANGED <<ordersVars, localVars>>

Execute ==
  /\ \/ main = "execute" /\ Begin /\ main' = "executing"
     \/ main = "executing" /\ Step /\ UNCHANGED main
  /\ UNCHANGED <<ordersVars, localVars>>

\* Mutant of TradeExitCode: any end of the trade counts as success.
AlwaysSuccess == 0

\* if(multiLegManager.getState() != COMPLETE) return EXIT_FAILURE
TradeExitCode == IF state = "COMPLETE" THEN 0 ELSE 1

\* Mutant of TradeEnded: main waits for COMPLETE instead of testing for it.
TradeCompleted == pc = At("idle", 0) /\ state = "COMPLETE"

\* execute() has returned.
TradeEnded == pc = At("idle", 0)

CheckTrade ==
  /\ main = "executing" /\ TradeEnded
  /\ main' = "return"
  /\ exitCode' = TradeExitCode
  /\ UNCHANGED <<ordersVars, tradeVars, spreadHistory, next, monitor, riskManager>>

\* The last of the locals are riskManager, execManager and orderQueue; those
\* before them have nothing to do in their destructors.
DestroyRiskManager ==
  /\ main = "return"
  /\ main' = "destroy" /\ riskManager' = "destroyed"
  /\ UNCHANGED <<ordersVars, tradeVars, spreadHistory, next, exitCode, monitor>>

\* ~ExecutionManager: store the flag, then join.
BeginDestroy ==
  /\ main = "destroy"
  /\ OE!BeginDestroy(Manager)
  /\ main' = "join"
  /\ UNCHANGED <<tradeVars, localVars>>

\* Mutant of Exit: main ends without waiting for the worker.
ExitWithoutJoin ==
  /\ main = "join"
  /\ main' = "exited"
  /\ UNCHANGED <<ordersVars, tradeVars, localVars>>

\* The join returns, orderQueue goes and the process ends, its detached thread
\* with it.
Exit ==
  /\ main = "join"
  /\ OE!FinishDestroy(Manager)
  /\ main' = "exited"
  /\ UNCHANGED <<tradeVars, localVars>>

MainStep ==
  \/ \E ticks \in TickSeries : ComputeSignals(ticks)
  \/ \E ok \in Verdicts : EvaluateRisk(ok)
  \/ SubmitOrder \/ EndSubmission \/ StartMonitor \/ Detach
  \/ PrepareTrade \/ Execute \/ CheckTrade
  \/ DestroyRiskManager \/ BeginDestroy \/ Exit

-----------------------------------------------------------------------------
(* The other threads *)

WorkerStep ==
  /\ main # "exited"
  /\ OE!WorkerStep(Manager) \/ OE!SpuriousWakeup(Manager)
  /\ UNCHANGED <<tradeVars, mainVars>>

\* One turn of the monitor's loop.  A destroyed RiskManager's mutex and fields
\* hold anything: the loop may go on or end.
Poll ==
  /\ main # "exited" /\ monitor = "polling"
  /\ monitor' \in IF riskManager = "alive" THEN {"polling"} ELSE {"polling", "ended"}
  /\ UNCHANGED <<ordersVars, tradeVars, main, spreadHistory, next, exitCode, riskManager>>

Terminated == main = "exited" /\ UNCHANGED allVars

MainNext == MainStep \/ WorkerStep \/ Poll \/ Terminated

MainSpec == MainInit /\ [][MainNext]_allVars
FairSpec ==
  /\ MainSpec
  /\ WF_allVars(MainStep)
  /\ WF_allVars(WorkerStep /\ OE!WorkerStep(Manager))

-----------------------------------------------------------------------------
\* What the exit code says: success only when every order was accepted, in
\* order, and all three legs of the trade are out; failure by rejection only
\* when nothing was.
ExitCodeIsTrue ==
  /\ exitCode = 0 =>
       accepted = [i \in 1..NumOrders |-> i - 1] /\ executed = <<1, 2, 3>>
  /\ exitCode = 1 =>
       \/ accepted = <<>> /\ executed = <<>>
       \/ Len(accepted) = NumOrders /\ Len(executed) < 3

\* Orders can be lost at exit only in the queue: everything that left it was
\* reported, and in the order in which it was submitted.
ExitLosesOnlyQueue == main = "exited" => accepted = reports \o queue

\* main comes to its end, or waits for ever for a worker that sleeps in
\* waitAndPop with its queue empty.
EndsUnlessWorkerSleeps ==
  <>(main = "exited" \/ (main = "join" /\ worker[Manager] = "blocked" /\ queue = <<>>))

\* The z-score counts the latest spread in its own mean and deviation, so over
\* n ticks its square is at most n - 1: a threshold of three deviations, say,
\* is out of reach of the first nine ticks, however far the spread jumps.
ZScoreIsBounded ==
  LET n == Len(spreadHistory)
      z == ComputeAdaptiveZScore(spreadHistory)
  IN n > 0 => n * z.dev * z.dev <= (n - 1) * z.squares
=============================================================================
