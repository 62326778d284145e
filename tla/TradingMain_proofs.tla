------------------------- MODULE TradingMain_proofs -------------------------
(***************************************************************************)
(* Theorems about TriangularTrade, for every set of integer quantities and *)
(* prices a leg may ask for, and about TradingMain, for every number of    *)
(* orders, every set of tick series, leg parameters and risk verdicts.     *)
(*                                                                         *)
(* The program is shown to implement its two parts: whatever main does is  *)
(* a step of the trade of TriangularTrade or leaves it alone, and a step   *)
(* of the order path of OrderExecution, with one manager, or leaves it     *)
(* alone.  What is proved of the parts then holds of the program, and only *)
(* the invariant that ties main's own variables to theirs is left.         *)
(***************************************************************************)
EXTENDS TradingMain, FiniteSetTheorems, SequenceTheorems, TLAPS

-----------------------------------------------------------------------------
(* The trade *)

\* What is stored and sent, at each point of execute() and after it.
TradeInv ==
  TypeOK /\ PointInv /\ CompleteMeansHedged /\ ErrorMeansPrefix

\* Sending leg k extends the prefix of legs sent.
LEMMA PrefixExtends ==
  ASSUME NEW k \in 1..3
  PROVE  /\ Executed(k - 1) \in Seq(1..3)
         /\ Append(Executed(k - 1), k) = Executed(k)
<1>1. Executed(k - 1) \in Seq(1..3) /\ Executed(k) \in Seq(1..3)
  BY DEF Executed
<1>2. \A s, t \in Seq(1..3) :
        s = [j \in 1..(k - 1) |-> j] /\ t = [j \in 1..k |-> j] => Append(s, k) = t
  OBVIOUS
<1> QED
  BY <1>1, <1>2 DEF Executed

LEMMA TradeInit == Init => TradeInv
<1> SUFFICES ASSUME Init PROVE TradeInv
  OBVIOUS
<1>1. TypeOK
  BY LegValuesAssumption DEF Init, TypeOK, Leg, TradeState, Points, At
<1> QED
  BY <1>1 DEF Init, TradeInv, PointInv, CompleteMeansHedged, ErrorMeansPrefix, At

LEMMA SetLegsStep ==
  ASSUME TradeInv, NEW newLegs \in [1..3 -> Leg], SetLegs(newLegs)
  PROVE  TradeInv'
BY DEF TradeInv, TypeOK, PointInv, CompleteMeansHedged, ErrorMeansPrefix, SetLegs, At

LEMMA BeginStep ==
  ASSUME TradeInv, Begin
  PROVE  TradeInv'
<1>1. pc'.at = "send" /\ pc'.leg = 1 /\ pc' \in Points /\ state' = Sent[1]
  BY DEF Begin, At, Points
<1>2. executed' = Executed(0) /\ executed' \in Seq(1..3)
  BY PrefixExtends DEF Begin, Executed
<1> QED
  BY <1>1, <1>2 DEF TradeInv, TypeOK, PointInv, CompleteMeansHedged,
     ErrorMeansPrefix, Begin, ValidBefore, TradeState, Sent

LEMMA StoreSentStep ==
  ASSUME TradeInv, NEW k \in 1..3, StoreSent(k)
  PROVE  TradeInv'
<1>1. pc'.at = "send" /\ pc'.leg = k /\ pc' \in Points /\ state' = Sent[k]
  BY DEF StoreSent, At, Points
<1>2. executed = Executed(k - 1) /\ ValidBefore(k)
  BY DEF TradeInv, PointInv, StoreSent, At
<1> QED
  BY <1>1, <1>2 DEF TradeInv, TypeOK, PointInv, CompleteMeansHedged,
     ErrorMeansPrefix, StoreSent, ValidBefore, TradeState, Sent

LEMMA SendLegStep ==
  ASSUME TradeInv, NEW k \in 1..3, SendLeg(k)
  PROVE  TradeInv'
<1>1. /\ state = Sent[k] /\ executed = Executed(k - 1) /\ ValidBefore(k)
      /\ UNCHANGED <<legs, state>>
  BY DEF TradeInv, PointInv, SendLeg, At
<1>2. state' \notin {"INIT", "COMPLETE", "ERROR"}
  BY <1>1 DEF Sent
<1>3. CASE Invalid(legs[k]) /\ pc' = At("catch", 0) /\ UNCHANGED executed
  <2>1. pc'.at = "catch" /\ pc' \in Points
    BY <1>3 DEF At, Points
  <2> QED
    BY <1>1, <1>2, <1>3, <2>1 DEF TradeInv, TypeOK, PointInv,
       CompleteMeansHedged, ErrorMeansPrefix, ValidBefore
<1>4. CASE /\ ~Invalid(legs[k]) /\ executed' = Append(executed, k)
           /\ pc' = AfterLeg(k)
  <2>1. executed' = Executed(k) /\ executed' \in Seq(1..3)
    BY <1>1, <1>4, PrefixExtends
  <2>2. ValidBefore(k + 1)'
    BY <1>1, <1>4 DEF ValidBefore
  <2>3. CASE k = 3
    <3>1. pc'.at = "complete" /\ pc' \in Points
      BY <1>4, <2>3 DEF AfterLeg, At, Points
    <3> QED
      BY <1>1, <1>2, <2>1, <2>2, <2>3, <3>1 DEF TradeInv, TypeOK, PointInv,
         CompleteMeansHedged, ErrorMeansPrefix
  <2>4. CASE k # 3
    <3>1. pc'.at = "store" /\ pc'.leg = k + 1 /\ pc' \in Points
      BY <1>4, <2>4 DEF AfterLeg, At, Points
    <3> QED
      BY <1>1, <1>2, <2>1, <2>2, <3>1 DEF TradeInv, TypeOK, PointInv,
         CompleteMeansHedged, ErrorMeansPrefix
  <2> QED
    BY <2>3, <2>4
<1> QED
  BY <1>3, <1>4 DEF SendLeg

LEMMA StoreFinalStep ==
  ASSUME TradeInv, StoreComplete \/ StoreError
  PROVE  TradeInv'
<1>1. pc'.at = "idle" /\ pc' \in Points /\ UNCHANGED <<legs, executed>>
  BY DEF StoreComplete, StoreError, At, Points
<1>2. CASE StoreComplete
  BY <1>1, <1>2 DEF StoreComplete, TradeInv, TypeOK, PointInv, At,
     CompleteMeansHedged, ErrorMeansPrefix, ValidBefore, TradeState
<1>3. CASE StoreError
  BY <1>1, <1>3 DEF StoreError, TradeInv, TypeOK, PointInv, At,
     CompleteMeansHedged, ErrorMeansPrefix, ValidBefore, TradeState
<1> QED
  BY <1>2, <1>3

\* The state of the trade, the point execute() is at and the legs that have
\* gone out stay in step.
THEOREM TradeInvariance == Spec => []TradeInv
<1>1. TradeInv /\ [Next]_vars => TradeInv'
  <2> SUFFICES ASSUME TradeInv, [Next]_vars PROVE TradeInv'
    OBVIOUS
  <2>1. CASE UNCHANGED vars
    BY <2>1 DEF vars, TradeInv, TypeOK, PointInv, CompleteMeansHedged,
       ErrorMeansPrefix, ValidBefore
  <2> QED
    BY <2>1, SetLegsStep, BeginStep, StoreSentStep, SendLegStep, StoreFinalStep
    DEF Next, Step
<1> QED
  BY TradeInit, <1>1, PTL DEF Spec

\* A monitor that reads COMPLETE may rely on all three valid legs being out.
THEOREM CompleteIsHedged == Spec => []CompleteMeansHedged
<1>1. TradeInv => CompleteMeansHedged
  BY DEF TradeInv
<1> QED
  BY <1>1, TradeInvariance, PTL

\* A monitor that reads ERROR may rely on exactly the legs before the first
\* invalid one being out.
THEOREM ErrorIsPrefix == Spec => []ErrorMeansPrefix
<1>1. TradeInv => ErrorMeansPrefix
  BY DEF TradeInv
<1> QED
  BY <1>1, TradeInvariance, PTL

\* A monitor that reads LEGk_SENT may rely on k - 1 or k legs being out.
THEOREM SentIsBounded == Spec => []SentBoundsExposure
<1>1. TradeInv => SentBoundsExposure
  <2> SUFFICES ASSUME TradeInv, NEW k \in 1..3, state = Sent[k]
               PROVE  executed \in {Executed(k - 1), Executed(k)}
    BY DEF SentBoundsExposure
  <2>1. pc \in Points
    BY DEF TradeInv, TypeOK
  <2>2. \A j \in 1..3 : Sent[j] = Sent[k] => j = k
    BY DEF Sent
  <2>3. state \notin {"INIT", "COMPLETE", "ERROR"}
    BY DEF Sent
  <2>4. pc.at \in {"send", "store", "complete", "catch"} /\ (pc.at = "send" => pc.leg \in 1..3)
        /\ (pc.at = "store" => pc.leg \in 1..3)
    BY <2>1, <2>3 DEF Points, TradeInv, PointInv
  <2>5. CASE pc.at = "send"
    BY <2>2, <2>4, <2>5 DEF TradeInv, PointInv
  <2>6. CASE pc.at = "store"
    <3>1. pc.leg - 1 \in 1..3 /\ state = Sent[pc.leg - 1] /\ executed = Executed(pc.leg - 1)
      BY <2>4, <2>6 DEF TradeInv, PointInv
    <3> QED
      BY <2>2, <3>1
  <2>7. CASE pc.at = "complete"
    BY <2>2, <2>7 DEF TradeInv, PointInv
  <2>8. CASE pc.at = "catch"
    BY <2>2, <2>8 DEF TradeInv, PointInv
  <2> QED
    BY <2>4, <2>5, <2>6, <2>7, <2>8
<1> QED
  BY <1>1, TradeInvariance, PTL

\* Whatever monitors read, and whenever, the trade goes forward.
THEOREM MonitorProgress == Spec => MonitorSeesProgress
<1> DEFINE Forward == \/ Rank(state') > Rank(state)
                      \/ state \in {"COMPLETE", "ERROR"} /\ state' = "LEG1_SENT"
<1>1. /\ Rank("INIT") = 0 /\ Rank("COMPLETE") = 4 /\ Rank("ERROR") = 4
      /\ \A k \in 1..3 : Rank(Sent[k]) = k
  <2>1. \A k \in 1..3 : k = 1 \/ k = 2 \/ k = 3
    OBVIOUS
  <2>2. Rank(Sent[1]) = 1 /\ Rank(Sent[2]) = 2 /\ Rank(Sent[3]) = 3
    BY DEF Rank, Sent
  <2> QED
    BY <2>1, <2>2 DEF Rank
<1>2. TradeInv /\ [Next]_vars => [Forward]_state
  <2> SUFFICES ASSUME TradeInv, Next, state' # state PROVE Forward
    BY DEF vars
  <2>1. CASE Begin
    <3>1. state \in {"INIT", "COMPLETE", "ERROR"} /\ state' = "LEG1_SENT"
      BY <2>1 DEF Begin, TradeInv, PointInv, At, Sent
    <3>2. Rank("LEG1_SENT") = 1
      BY DEF Rank
    <3> QED
      BY <1>1, <3>1, <3>2
  <2>2. ASSUME NEW k \in 1..3, StoreSent(k) PROVE Forward
    <3>1. k - 1 \in 1..3 /\ state = Sent[k - 1] /\ state' = Sent[k]
      BY <2>2 DEF StoreSent, TradeInv, PointInv, At
    <3>2. Rank(state) = k - 1 /\ Rank(state') = k
      BY <1>1, <3>1
    <3> QED
      BY <3>2
  <2>3. CASE StoreComplete
    <3>1. Rank(state) = 3 /\ Rank(state') = 4
      BY <1>1, <2>3 DEF StoreComplete, TradeInv, PointInv, At
    <3> QED
      BY <3>1
  <2>4. CASE StoreError
    <3>1. PICK k \in 1..3 : state = Sent[k]
      BY <2>4 DEF StoreError, TradeInv, PointInv, At
    <3>2. Rank(state) = k /\ Rank(state') = 4
      BY <1>1, <2>4, <3>1 DEF StoreError
    <3> QED
      BY <3>2
  <2> QED
    BY <2>1, <2>2, <2>3, <2>4 DEF Next, Step, SetLegs, SendLeg
<1> QED
  BY <1>2, TradeInvariance, PTL DEF Spec, MonitorSeesProgress

-----------------------------------------------------------------------------
(* The program implements the trade *)

\* Every step of the program is one of the trade or leaves it unchanged.
LEMMA TradeSteps == [MainNext]_allVars => [Next]_vars
<1> SUFFICES ASSUME MainNext \/ UNCHANGED allVars PROVE Next \/ UNCHANGED vars
  BY DEF allVars
<1>1. tradeVars = vars /\ tradeVars' = vars'
  BY DEF tradeVars, vars
<1>2. CASE MainStep
  <2>1. CASE PrepareTrade
    BY <2>1 DEF PrepareTrade, Next
  <2>2. CASE Execute
    BY <2>2 DEF Execute, Next
  <2>3. ASSUME ~PrepareTrade, ~Execute PROVE UNCHANGED tradeVars
    BY <1>2, <2>3 DEF MainStep, ComputeSignals, EvaluateRisk, SubmitOrder, EndSubmission,
       StartMonitor, Detach, CheckTrade, DestroyRiskManager, BeginDestroy, Exit
  <2> QED
    BY <1>1, <2>1, <2>2, <2>3
<1>3. CASE WorkerStep \/ Poll \/ Terminated \/ UNCHANGED allVars
  <2>1. UNCHANGED tradeVars
    BY <1>3 DEF WorkerStep, Poll, Terminated, allVars
  <2> QED
    BY <1>1, <2>1
<1> QED
  BY <1>2, <1>3 DEF MainNext

\* main.cpp uses its TriangularExecutionManager as that class requires: legs
\* set once and before execute(), one thread in execute().
THEOREM MainImplementsTrade == MainSpec => Spec
<1>1. MainInit => Init
  BY DEF MainInit
<1> QED
  BY <1>1, TradeSteps, PTL DEF MainSpec, Spec

-----------------------------------------------------------------------------
(* The program implements the order path *)

NextIsOrder == next \in 0..NumOrders

LEMMA NextInvariance == MainSpec => []NextIsOrder
<1>1. MainInit => NextIsOrder
  BY MainAssumption DEF MainInit, NextIsOrder
<1>2. NextIsOrder /\ [MainNext]_allVars => NextIsOrder'
  <2> SUFFICES ASSUME NextIsOrder, MainNext \/ UNCHANGED allVars PROVE NextIsOrder'
    BY DEF allVars
  <2>1. CASE SubmitOrder
    BY <2>1, MainAssumption DEF SubmitOrder, NextIsOrder
  <2>2. ASSUME ~SubmitOrder PROVE UNCHANGED next
    BY <2>2 DEF MainNext, MainStep, ComputeSignals, EvaluateRisk, EndSubmission,
       StartMonitor, Detach, PrepareTrade, Execute, CheckTrade, DestroyRiskManager,
       BeginDestroy, Exit, WorkerStep, Poll, Terminated, allVars, localVars, mainVars
  <2> QED
    BY <2>1, <2>2 DEF NextIsOrder
<1> QED
  BY <1>1, <1>2, PTL DEF MainSpec

\* Every step of the program is one of the order path, by main or by the
\* worker of its one manager, or leaves it unchanged.
LEMMA OrderSteps == NextIsOrder /\ [MainNext]_allVars => [OE!Next]_(OE!vars)
<1> SUFFICES ASSUME NextIsOrder, MainNext \/ UNCHANGED allVars
             PROVE  OE!Next \/ UNCHANGED OE!vars
  BY DEF allVars
<1>1. ordersVars = OE!vars /\ ordersVars' = OE!vars'
  BY DEF ordersVars, OE!vars
<1>2. CASE SubmitOrder
  <2>1. next \in 0..(NumOrders - 1) /\ OE!ExecuteTrade(Manager, next)
    BY <1>2, MainAssumption DEF SubmitOrder, NextIsOrder
  <2> QED
    BY <2>1 DEF OE!Next
<1>3. CASE BeginDestroy \/ Exit
  BY <1>3 DEF BeginDestroy, Exit, OE!Next
<1>4. CASE WorkerStep
  BY <1>4 DEF WorkerStep, OE!Next
<1>5. ASSUME ~SubmitOrder, ~BeginDestroy, ~Exit, ~WorkerStep PROVE UNCHANGED ordersVars
  BY <1>5 DEF MainNext, MainStep, ComputeSignals, EvaluateRisk, EndSubmission,
     StartMonitor, Detach, PrepareTrade, Execute, CheckTrade, DestroyRiskManager,
     Poll, Terminated, allVars
<1> QED
  BY <1>1, <1>2, <1>3, <1>4, <1>5

\* main.cpp uses its queue and ExecutionManager as the order path of
\* IExecutionManager.hpp expects of a client: no order twice, and none after
\* the destructor has begun.
THEOREM MainImplementsOrders == MainSpec => OE!Spec
<1>1. MainInit => OE!Init
  BY DEF MainInit
<1> QED
  BY <1>1, NextInvariance, OrderSteps, PTL DEF MainSpec, OE!Spec

-----------------------------------------------------------------------------
(* The order path's theorems, for this program's orders and manager *)

OEP == INSTANCE OrderExecution_proofs
         WITH Orders <- 0..(NumOrders - 1), Managers <- {Manager}

\* The assumptions of OrderExecution hold of its use here.
LEMMA OrdersAssumptions == OEP!IsFiniteSet({Manager}) /\ NoOrder \notin 0..(NumOrders - 1)
<1>1. <<Manager>> \in Seq({Manager}) /\ Len(<<Manager>>) = 1 /\ <<Manager>>[1] = Manager
  OBVIOUS
<1>2. \A m \in {Manager} : \E n \in 1..Len(<<Manager>>) : <<Manager>>[n] = m
  BY <1>1
<1>3. \E seq \in Seq({Manager}) : \A m \in {Manager} : \E n \in 1..Len(seq) : seq[n] = m
  BY <1>1, <1>2, Zenon
<1>4. OEP!IsFiniteSet({Manager})
  BY <1>3, Zenon DEF OEP!IsFiniteSet
<1> QED
  BY <1>4, MainAssumption

\* OE and OEP are two instances of one specification.
LEMMA SameActions == OEP!Next <=> OE!Next
<1> USE DEF OEP!queueVars, OE!queueVars, OEP!PopFront, OE!PopFront
<1>1. OEP!Pop <=> OE!Pop
  BY DEF OEP!Pop, OE!Pop
<1>2. OEP!NotifyOne <=> OE!NotifyOne
  BY DEF OEP!NotifyOne, OE!NotifyOne, OEP!Blocked, OE!Blocked
<1>3. \A o : OEP!ExecuteTrade(Manager, o) <=> OE!ExecuteTrade(Manager, o)
  BY <1>2 DEF OEP!ExecuteTrade, OE!ExecuteTrade, OEP!Push, OE!Push, OEP!Range, OE!Range
<1>4. OEP!BeginDestroy(Manager) <=> OE!BeginDestroy(Manager)
  BY DEF OEP!BeginDestroy, OE!BeginDestroy
<1>5. OEP!FinishDestroy(Manager) <=> OE!FinishDestroy(Manager)
  BY DEF OEP!FinishDestroy, OE!FinishDestroy
<1>6. OEP!WorkerStep(Manager) <=> OE!WorkerStep(Manager)
  BY DEF OEP!WorkerStep, OE!WorkerStep, OEP!LoopTest, OE!LoopTest, OEP!Wait, OE!Wait,
     OEP!Take, OE!Take, OEP!ProcessOrder, OE!ProcessOrder
<1>7. OEP!SpuriousWakeup(Manager) <=> OE!SpuriousWakeup(Manager)
  BY DEF OEP!SpuriousWakeup, OE!SpuriousWakeup
<1> QED
  BY <1>1, <1>3, <1>4, <1>5, <1>6, <1>7 DEF OEP!Next, OE!Next

LEMMA SameSpecs == OE!Spec => OEP!Spec
<1>1. OE!Init => OEP!Init
  BY DEF OEP!Init, OE!Init
<1>2. OEP!vars = OE!vars /\ OEP!vars' = OE!vars'
  BY DEF OEP!vars, OE!vars
<1>3. ASSUME [OE!Next]_(OE!vars) PROVE [OEP!Next]_(OEP!vars)
  <2>1. CASE OE!Next
    BY <2>1, SameActions
  <2>2. CASE UNCHANGED OE!vars
    BY <1>2, <2>2
  <2> QED
    BY <1>3, <2>1, <2>2
<1> QED
  BY <1>1, <1>3, PTL DEF OEP!Spec, OE!Spec

LEMMA SameInvariants == OEP!IInv <=> OE!IInv
<1> USE DEF OEP!Blocked, OE!Blocked, OEP!Woken, OE!Woken, OEP!Range, OE!Range,
     OEP!IsInjective, OE!IsInjective
<1>1. OEP!TypeOK <=> OE!TypeOK
  BY DEF OEP!TypeOK, OE!TypeOK
<1>2. OEP!NoLostWakeup <=> OE!NoLostWakeup
  BY DEF OEP!NoLostWakeup, OE!NoLostWakeup, OEP!Cardinality, OE!Cardinality,
     OEP!IsFiniteSet, OE!IsFiniteSet
<1>3. OEP!FIFO <=> OE!FIFO
  BY DEF OEP!FIFO, OE!FIFO
<1>4. OEP!AtMostOnce <=> OE!AtMostOnce
  BY DEF OEP!AtMostOnce, OE!AtMostOnce
<1>5. OEP!WorkerState <=> OE!WorkerState
  BY DEF OEP!WorkerState, OE!WorkerState
<1>6. OEP!Provenance <=> OE!Provenance
  BY DEF OEP!Provenance, OE!Provenance
<1> QED
  BY <1>1, <1>2, <1>3, <1>4, <1>5, <1>6 DEF OEP!IInv, OE!IInv

\* The order path keeps its invariant in the program.
LEMMA OrdersInvariance == MainSpec => []OE!IInv
<1>1. OEP!Spec => []OEP!IInv
  BY OrdersAssumptions, OEP!Invariance
<1> QED
  BY <1>1, MainImplementsOrders, SameSpecs, SameInvariants, PTL
-----------------------------------------------------------------------------
(* The invariant that ties main to the trade and to the orders *)

Returned == {"return", "destroy", "join", "exited"}

\* Each order is submitted once, in turn, and all before the trade.
SubmitInv ==
  /\ accepted = [i \in 1..next |-> i - 1]
  /\ main \in {"signals", "risk"} => next = 0
  /\ main \in {"spawn", "detach", "setLegs", "execute", "executing"} => next = NumOrders

\* The trade has not begun before execute, and has begun in it.
TradePlace ==
  /\ main \notin {"executing"} \cup Returned =>
       state = "INIT" /\ pc = At("idle", 0) /\ executed = <<>>
  /\ main = "executing" => state # "INIT"

\* main has its exit code when it returns, and the code is true.
ExitInv == (main \in Returned <=> exitCode # 2) /\ ExitCodeIsTrue

\* What has left the queue is reported or in the worker's hands, and nothing is
\* in the hands of a worker that main has joined.
HeldInv ==
  /\ taken = IF worker[Manager] = "process" THEN Append(reports, order[Manager]) ELSE reports
  /\ main = "exited" => worker[Manager] = "done"

MainInv ==
  MainTypeOK /\ TradeInv /\ OE!IInv /\ SubmitInv /\ TradePlace /\ ExitInv /\ HeldInv

\* What the worker's steps leave alone, and main's other steps besides.
LEMMA WorkerLeaves ==
  ASSUME WorkerStep
  PROVE  UNCHANGED <<accepted, tradeVars, mainVars>>
<1>1. UNCHANGED accepted
  BY DEF WorkerStep, OE!WorkerStep, OE!SpuriousWakeup, OE!LoopTest, OE!Wait, OE!Take,
     OE!PopFront, OE!ProcessOrder, OE!queueVars
<1> QED
  BY <1>1 DEF WorkerStep

LEMMA DestructorLeaves ==
  ASSUME BeginDestroy \/ Exit
  PROVE  UNCHANGED <<queue, worker, order, accepted, taken, reports, tradeVars, localVars>>
BY DEF BeginDestroy, Exit, OE!BeginDestroy, OE!FinishDestroy, OE!queueVars

LEMMA InitMainInv == MainInit => MainInv
<1> SUFFICES ASSUME MainInit PROVE MainInv
  OBVIOUS
<1>1. TradeInv
  BY TradeInit DEF MainInit
<1>2. OE!IInv
  <2>1. OEP!Init => OEP!IInv
    BY OrdersAssumptions, OEP!InitIInv
  <2>2. OEP!Init
    BY DEF MainInit, OEP!Init, OE!Init
  <2> QED
    BY <2>1, <2>2, SameInvariants
<1>3. MainTypeOK
  BY <1>1, <1>2, MainAssumption DEF MainInit, MainTypeOK, TradeInv, OE!IInv
<1>4. SubmitInv
  BY DEF MainInit, OE!Init, SubmitInv
<1>5. TradePlace /\ ExitInv /\ HeldInv
  BY DEF MainInit, Init, OE!Init, TradePlace, Returned, ExitInv, ExitCodeIsTrue, HeldInv
<1> QED
  BY <1>1, <1>2, <1>3, <1>4, <1>5 DEF MainInv

LEMMA LocalTypes ==
  ASSUME MainTypeOK, [MainNext]_allVars
  PROVE  /\ spreadHistory' \in Seq(Int)
         /\ main' \in {"signals", "risk", "submit", "spawn", "detach", "setLegs", "execute",
                       "executing", "return", "destroy", "join", "exited"}
         /\ exitCode' \in 0..2
         /\ monitor' \in {"none", "polling", "ended"}
         /\ riskManager' \in {"alive", "destroyed"}
<1> USE DEF MainTypeOK
<1>1. ASSUME NEW ticks \in TickSeries, ComputeSignals(ticks)
      PROVE  spreadHistory' \in Seq(Int)
  <2>1. ticks \in Seq([eurUsd : Int, gbpUsd : Int, eurGbp : Int])
    BY MainAssumption
  <2>2. Len(ticks) \in Nat /\ DOMAIN ticks = 1..Len(ticks)
    BY <2>1
  <2>3. \A i \in 1..Len(ticks) : ComputeSpread(ticks[i]) \in Int
    <3> TAKE i \in 1..Len(ticks)
    <3>1. ticks[i] \in [eurUsd : Int, gbpUsd : Int, eurGbp : Int]
      BY <2>1, <2>2, ElementOfSeq
    <3>2. ticks[i].eurUsd \in Int /\ ticks[i].gbpUsd \in Int /\ ticks[i].eurGbp \in Int
      BY <3>1
    <3>3. ticks[i].eurGbp * ticks[i].gbpUsd \in Int
      BY <3>2
    <3> QED
      BY <3>2, <3>3 DEF ComputeSpread
  <2>4. spreadHistory' = [i \in 1..Len(ticks) |-> ComputeSpread(ticks[i])]
    BY <1>1, <2>2 DEF ComputeSignals
  <2> QED
    BY <2>2, <2>3, <2>4, IsASeq
<1>2. spreadHistory' \in Seq(Int)
  <2>1. \/ \E ticks \in TickSeries : ComputeSignals(ticks)
        \/ spreadHistory' = <<>>
        \/ UNCHANGED spreadHistory
    BY DEF MainNext, MainStep, EvaluateRisk, SubmitOrder, EndSubmission,
       StartMonitor, Detach, PrepareTrade, Execute, CheckTrade, DestroyRiskManager,
       BeginDestroy, Exit, WorkerStep, Poll, Terminated, allVars, localVars, mainVars
  <2>2. <<>> \in Seq(Int) /\ spreadHistory \in Seq(Int)
    OBVIOUS
  <2>3. CASE \E ticks \in TickSeries : ComputeSignals(ticks)
    BY <1>1, <2>3
  <2> QED
    BY <2>1, <2>2, <2>3
<1>3. main' \in {"signals", "risk", "submit", "spawn", "detach", "setLegs", "execute",
                "executing", "return", "destroy", "join", "exited"}
  BY DEF MainNext, MainStep, ComputeSignals, EvaluateRisk, SubmitOrder, EndSubmission,
     StartMonitor, Detach, PrepareTrade, Execute, CheckTrade, DestroyRiskManager,
     BeginDestroy, Exit, WorkerStep, Poll, Terminated, allVars, localVars, mainVars
<1>4. /\ exitCode' \in 0..2
      /\ monitor' \in {"none", "polling", "ended"}
      /\ riskManager' \in {"alive", "destroyed"}
  BY DEF MainNext, MainStep, ComputeSignals, EvaluateRisk, SubmitOrder, EndSubmission,
     StartMonitor, Detach, PrepareTrade, Execute, CheckTrade, DestroyRiskManager, TradeExitCode,
     BeginDestroy, Exit, WorkerStep, Poll, Terminated, allVars, localVars, mainVars
<1> QED
  BY <1>2, <1>3, <1>4

LEMMA SubmitStep ==
  ASSUME MainInv, [MainNext]_allVars
  PROVE  SubmitInv'
<1> USE DEF MainInv, SubmitInv
<1>1. CASE SubmitOrder
  <2>1. /\ accepted' = Append(accepted, next) /\ next' = next + 1
        /\ main = "submit" /\ main' = main
    BY <1>1 DEF SubmitOrder, OE!ExecuteTrade, OE!Push
  <2>2. next \in Nat
    BY MainAssumption DEF MainTypeOK
  <2>3. \A s, t \in Seq(Nat) :
          s = [i \in 1..next |-> i - 1] /\ t = [i \in 1..(next + 1) |-> i - 1]
            => Append(s, next) = t
    BY <2>2
  <2>4. [i \in 1..next |-> i - 1] \in Seq(Nat) /\ [i \in 1..(next + 1) |-> i - 1] \in Seq(Nat)
    BY <2>2
  <2> QED
    BY <2>1, <2>3, <2>4
<1>2. CASE WorkerStep
  BY <1>2, WorkerLeaves DEF mainVars, localVars
<1>3. CASE BeginDestroy \/ Exit
  <2>1. UNCHANGED <<accepted, next>> /\ main' \in Returned
    BY <1>3, DestructorLeaves DEF localVars, BeginDestroy, Exit, Returned
  <2> QED
    BY <2>1 DEF Returned
<1>4. ASSUME ~SubmitOrder, ~WorkerStep, ~BeginDestroy, ~Exit PROVE SubmitInv'
  <2>1. UNCHANGED <<accepted, next>>
    BY <1>4 DEF MainNext, MainStep, ComputeSignals, EvaluateRisk, EndSubmission,
       StartMonitor, Detach, PrepareTrade, Execute, CheckTrade, DestroyRiskManager,
       Poll, Terminated, allVars, ordersVars, localVars, mainVars
  <2>2. /\ main' \in {"signals", "risk"} => main \in {"signals", "risk"}
        /\ main' \in {"spawn", "detach", "setLegs", "execute", "executing"} =>
             \/ main \in {"spawn", "detach", "setLegs", "execute", "executing"}
             \/ next = NumOrders
    BY <1>4 DEF MainNext, MainStep, ComputeSignals, EvaluateRisk, EndSubmission,
       StartMonitor, Detach, PrepareTrade, Execute, CheckTrade, DestroyRiskManager,
       Poll, Terminated, allVars, mainVars
  <2> QED
    BY <2>1, <2>2
<1> QED
  BY <1>1, <1>2, <1>3, <1>4

LEMMA PlaceStep ==
  ASSUME MainInv, [MainNext]_allVars, TradeInv'
  PROVE  TradePlace'
<1> USE DEF MainInv, TradePlace
<1>1. CASE PrepareTrade
  BY <1>1 DEF PrepareTrade, SetLegs, Returned
<1>2. CASE Execute
  <2>1. CASE main = "execute" /\ Begin /\ main' = "executing"
    BY <2>1 DEF Begin, Sent
  <2>2. CASE main = "executing" /\ Step /\ main' = main
    <3>1. state' # "INIT"
      BY <2>2 DEF Step, StoreSent, SendLeg, StoreComplete, StoreError, Sent
    <3> QED
      BY <2>2, <3>1
  <2> QED
    BY <1>2, <2>1, <2>2 DEF Execute
<1>3. ASSUME ~PrepareTrade, ~Execute PROVE TradePlace'
  <2>1. UNCHANGED tradeVars
    BY <1>3 DEF MainNext, MainStep, ComputeSignals, EvaluateRisk, SubmitOrder, EndSubmission,
       StartMonitor, Detach, CheckTrade, DestroyRiskManager, BeginDestroy, Exit,
       WorkerStep, Poll, Terminated, allVars
  <2>2. /\ main' \notin {"executing"} \cup Returned => main \notin {"executing"} \cup Returned
        /\ main' = "executing" => main = "executing"
    BY <1>3 DEF MainNext, MainStep, ComputeSignals, EvaluateRisk, SubmitOrder, EndSubmission,
       StartMonitor, Detach, CheckTrade, DestroyRiskManager, BeginDestroy, Exit,
       WorkerStep, Poll, Terminated, allVars, mainVars, Returned
  <2> QED
    BY <2>1, <2>2 DEF tradeVars
<1> QED
  BY <1>1, <1>2, <1>3

\* main tests the state of the trade when execute() has returned: COMPLETE with
\* three legs out, or ERROR with fewer.
LEMMA TradeEnds ==
  ASSUME MainInv, main = "executing", TradeEnded
  PROVE  /\ state = "COMPLETE" => executed = <<1, 2, 3>>
         /\ state # "COMPLETE" => Len(executed) < 3
<1> USE DEF MainInv, TradeInv
<1>1. state \in {"COMPLETE", "ERROR"}
  BY DEF TradeEnded, At, PointInv, TradePlace
<1>2. state = "COMPLETE" => executed = <<1, 2, 3>>
  BY DEF CompleteMeansHedged, Executed
<1>3. ASSUME state = "ERROR" PROVE Len(executed) < 3
  <2>1. PICK k \in 1..3 : executed = Executed(k - 1)
    BY <1>3 DEF ErrorMeansPrefix
  <2>2. Len(Executed(k - 1)) = k - 1
    BY DEF Executed
  <2> QED
    BY <2>1, <2>2
<1> QED
  BY <1>1, <1>2, <1>3

LEMMA ExitStep ==
  ASSUME MainInv, [MainNext]_allVars
  PROVE  ExitInv'
<1> USE DEF MainInv, ExitInv
<1>1. ASSUME NEW ok \in Verdicts, EvaluateRisk(ok) PROVE ExitInv'
  <2>1. accepted = <<>> /\ executed = <<>> /\ UNCHANGED <<accepted, executed>>
    <3>1. accepted = [i \in 1..0 |-> i - 1] /\ executed = <<>>
      BY <1>1 DEF EvaluateRisk, SubmitInv, TradePlace, Returned
    <3> QED
      BY <1>1, <3>1 DEF EvaluateRisk, ordersVars, tradeVars
  <2>2. \/ main' = "submit" /\ exitCode' = exitCode /\ main = "risk"
        \/ main' = "return" /\ exitCode' = 1
    BY <1>1 DEF EvaluateRisk
  <2> QED
    BY <2>1, <2>2 DEF ExitCodeIsTrue, Returned
<1>2. CASE CheckTrade
  <2>1. accepted = [i \in 1..NumOrders |-> i - 1] /\ UNCHANGED <<accepted, executed>>
    BY <1>2 DEF CheckTrade, SubmitInv, ordersVars, tradeVars
  <2>2. Len(accepted) = NumOrders
    BY <2>1, MainAssumption
  <2>3. /\ state = "COMPLETE" => executed = <<1, 2, 3>>
        /\ state # "COMPLETE" => Len(executed) < 3
    BY <1>2, TradeEnds DEF CheckTrade
  <2>4. main' = "return" /\ exitCode' = IF state = "COMPLETE" THEN 0 ELSE 1
    BY <1>2 DEF CheckTrade, TradeExitCode
  <2>5. CASE state = "COMPLETE"
    <3>1. exitCode' = 0 /\ accepted' = [i \in 1..NumOrders |-> i - 1] /\ executed' = <<1, 2, 3>>
      BY <2>1, <2>3, <2>4, <2>5
    <3> QED
      BY <2>4, <3>1 DEF ExitCodeIsTrue, Returned
  <2>6. CASE state # "COMPLETE"
    <3>1. exitCode' = 1 /\ Len(accepted') = NumOrders /\ Len(executed') < 3
      BY <2>1, <2>2, <2>3, <2>4, <2>6
    <3> QED
      BY <2>4, <3>1 DEF ExitCodeIsTrue, Returned
  <2> QED
    BY <2>5, <2>6
<1>3. ASSUME main \notin Returned, UNCHANGED exitCode, main' \notin Returned PROVE ExitInv'
  BY <1>3 DEF ExitCodeIsTrue
<1>4. ASSUME UNCHANGED <<exitCode, accepted, executed>>, main \in Returned <=> main' \in Returned
      PROVE  ExitInv'
  BY <1>4 DEF ExitCodeIsTrue
<1>5. CASE WorkerStep
  BY <1>4, <1>5, WorkerLeaves DEF tradeVars, mainVars, localVars
<1>6. CASE BeginDestroy \/ Exit
  <2>1. main \in Returned /\ main' \in Returned
    BY <1>6 DEF BeginDestroy, Exit, Returned
  <2> QED
    BY <1>4, <1>6, <2>1, DestructorLeaves DEF tradeVars, localVars
<1>7. CASE DestroyRiskManager \/ Poll \/ Terminated \/ UNCHANGED allVars
  BY <1>4, <1>7 DEF DestroyRiskManager, Poll, Terminated, allVars, ordersVars, tradeVars,
     mainVars, localVars, Returned
<1>8. CASE \/ \E ticks \in TickSeries : ComputeSignals(ticks)
           \/ SubmitOrder \/ EndSubmission \/ StartMonitor \/ Detach \/ PrepareTrade \/ Execute
  BY <1>3, <1>8 DEF ComputeSignals, SubmitOrder, EndSubmission, StartMonitor, Detach,
     PrepareTrade, Execute, localVars, Returned
<1> QED
  BY <1>1, <1>2, <1>5, <1>6, <1>7, <1>8 DEF MainNext, MainStep

LEMMA HeldStep ==
  ASSUME MainInv, [MainNext]_allVars
  PROVE  HeldInv'
<1> USE DEF MainInv, HeldInv
<1>1. worker \in [{Manager} -> {"loop", "pop", "blocked", "woken", "process", "done"}]
  BY DEF OE!IInv, OE!TypeOK
<1>2. order \in [{Manager} -> 0..(NumOrders - 1) \cup {NoOrder}]
  BY DEF OE!IInv, OE!TypeOK
<1>3. CASE SubmitOrder
  <2>1. /\ UNCHANGED <<taken, reports, order>> /\ main' # "exited"
        /\ OE!NotifyOne
    BY <1>3 DEF SubmitOrder, OE!ExecuteTrade, OE!Push
  <2>2. worker'[Manager] = "process" <=> worker[Manager] = "process"
    BY <1>1, <2>1 DEF OE!NotifyOne, OE!Blocked
  <2> QED
    BY <2>1, <2>2
<1>4. CASE WorkerStep
  <2>1. main' = main /\ main # "exited"
    BY <1>4 DEF WorkerStep, mainVars
  <2>2. CASE OE!Take(Manager)
    <3>1. PICK o \in 0..(NumOrders - 1) :
            OE!PopFront(o) /\ order' = [order EXCEPT ![Manager] = o]
      BY <2>2 DEF OE!Take
    <3>2. /\ worker[Manager] # "process" /\ worker'[Manager] = "process"
          /\ reports' = reports /\ order'[Manager] = o /\ taken' = Append(taken, o)
      BY <1>1, <1>2, <2>2, <3>1 DEF OE!Take, OE!PopFront
    <3> QED
      BY <2>1, <3>2
  <2>3. CASE OE!ProcessOrder(Manager)
    <3>1. /\ worker[Manager] = "process" /\ worker'[Manager] = "loop"
          /\ reports' = Append(reports, order[Manager]) /\ taken' = taken
      BY <1>1, <2>3 DEF OE!ProcessOrder, OE!queueVars
    <3> QED
      BY <2>1, <3>1
  <2>4. CASE OE!LoopTest(Manager) \/ OE!Wait(Manager) \/ OE!SpuriousWakeup(Manager)
    <3>1. /\ UNCHANGED <<taken, reports>>
          /\ worker[Manager] # "process" /\ worker'[Manager] # "process"
      BY <1>1, <2>4 DEF OE!LoopTest, OE!Wait, OE!SpuriousWakeup, OE!queueVars
    <3> QED
      BY <2>1, <3>1
  <2> QED
    BY <1>4, <2>2, <2>3, <2>4 DEF WorkerStep, OE!WorkerStep
<1>5. CASE BeginDestroy \/ Exit
  <2>1. UNCHANGED <<worker, order, taken, reports>>
    BY <1>5, DestructorLeaves
  <2>2. main' = "exited" => worker[Manager] = "done"
    BY <1>5 DEF BeginDestroy, Exit, OE!FinishDestroy
  <2> QED
    BY <2>1, <2>2
<1>6. ASSUME ~SubmitOrder, ~WorkerStep, ~BeginDestroy, ~Exit PROVE HeldInv'
  <2>1. UNCHANGED ordersVars /\ (main' = "exited" => main = "exited")
    BY <1>6 DEF MainNext, MainStep, ComputeSignals, EvaluateRisk, EndSubmission,
       StartMonitor, Detach, PrepareTrade, Execute, CheckTrade, DestroyRiskManager,
       Poll, Terminated, allVars, mainVars
  <2> QED
    BY <2>1 DEF ordersVars
<1> QED
  BY <1>3, <1>4, <1>5, <1>6

-----------------------------------------------------------------------------
(* What holds of the program *)

\* main's place, its exit code, its orders and its trade stay in step whatever
\* worker and monitor do.
THEOREM MainInvariance == MainSpec => []MainInv
<1>1. /\ MainInv /\ [MainNext]_allVars /\ TradeInv' /\ OE!IInv' /\ NextIsOrder'
      => MainInv'
  <2> SUFFICES ASSUME MainInv, [MainNext]_allVars, TradeInv', OE!IInv', NextIsOrder'
               PROVE  MainInv'
    OBVIOUS
  <2>1. MainTypeOK'
    <3>1. MainTypeOK
      BY DEF MainInv
    <3>2. TypeOK' /\ OE!TypeOK'
      BY DEF TradeInv, OE!IInv
    <3> QED
      BY <3>1, <3>2, LocalTypes DEF MainTypeOK, NextIsOrder
  <2> QED
    BY <2>1, SubmitStep, PlaceStep, ExitStep, HeldStep DEF MainInv
<1>2. MainSpec => []TradeInv
  BY MainImplementsTrade, TradeInvariance, PTL
<1> QED
  BY InitMainInv, <1>1, <1>2, OrdersInvariance, NextInvariance, PTL DEF MainSpec

\* main returns success only with every order accepted, in order, and three legs
\* out, and failure for rejection only with nothing done.
THEOREM ExitCodeTrue == MainSpec => []ExitCodeIsTrue
<1>1. MainInv => ExitCodeIsTrue
  BY DEF MainInv, ExitInv
<1> QED
  BY <1>1, MainInvariance, PTL

\* What the exiting process has not reported is still in orderQueue.
THEOREM OnlyQueueIsLost == MainSpec => []ExitLosesOnlyQueue
<1>1. MainInv => ExitLosesOnlyQueue
  <2> SUFFICES ASSUME MainInv, main = "exited" PROVE accepted = reports \o queue
    BY DEF ExitLosesOnlyQueue
  <2>1. taken = reports
    BY DEF MainInv, HeldInv
  <2>2. accepted = taken \o queue
    BY DEF MainInv, OE!IInv, OE!FIFO
  <2> QED
    BY <2>1, <2>2
<1> QED
  BY <1>1, MainInvariance, PTL

\* No order of the program is executed or reported twice.
THEOREM ProgramReportsOnce == MainSpec => []OE!AtMostOnce
<1>1. OE!IInv => OE!AtMostOnce
  BY DEF OE!IInv
<1> QED
  BY <1>1, OrdersInvariance, PTL

\* main, its queue and its worker implement the abstract FIFO dispatcher.
THEOREM ProgramImplementsDispatch == MainSpec => OEP!RefinesDispatch
<1>1. OEP!Spec => OEP!RefinesDispatch
  BY OrdersAssumptions, OEP!ImplementsDispatch
<1> QED
  BY <1>1, MainImplementsOrders, SameSpecs, PTL

\* In the program as in the class: COMPLETE means three legs out, ERROR the legs
\* before the first invalid one, and the monitor sees the trade go forward.
THEOREM ProgramTradeIsHedged == MainSpec => []CompleteMeansHedged
  BY MainImplementsTrade, CompleteIsHedged, PTL

\* As above, for ERROR.
THEOREM ProgramErrorIsPrefix == MainSpec => []ErrorMeansPrefix
  BY MainImplementsTrade, ErrorIsPrefix, PTL

\* As above, for what the monitor reads.
THEOREM ProgramMonitorProgress == MainSpec => MonitorSeesProgress
  BY MainImplementsTrade, MonitorProgress, PTL

-----------------------------------------------------------------------------
(* The z-score *)

Plus(x, y) == x + y
Sums == INSTANCE Folding WITH Op <- Plus

\* SumOf is a fold with Plus.
LEMMA SumIsFold == \A s : SumOf(s) = Sums!Fold(0, s)
BY Zenon DEF SumOf, Sums!Fold, Sums!FoldLeft, Sums!MapThenFoldSet, Sums!Max, FoldLeft, MapThenFoldSet, Max, Plus

\* One more number.
LEMMA SumOfAppend ==
  ASSUME NEW s \in Seq(Int), NEW x \in Int
  PROVE  SumOf(Append(s, x)) = SumOf(s) + x
BY SumIsFold, Sums!FoldAppend DEF Plus

\* Nothing to add.
LEMMA SumOfEmpty == SumOf(<<>>) = 0
BY SumIsFold, Sums!FoldEmpty

\* Sums of integers.
LEMMA SumOfInts ==
  ASSUME NEW s \in Seq(Int)
  PROVE  SumOf(s) \in Int
<1>1. Sums!Fold(0, s) \in Int
  <2>1. 0 \in Int /\ \A x \in Int, e \in Int : Plus(x, e) \in Int
    BY DEF Plus
  <2> QED
    BY <2>1, Sums!FoldPreserves, Zenon
<1> QED
  BY <1>1, SumIsFold


\* A common factor that is not negative can be left out.
LEMMA Cancel == \A k \in Nat, y, z \in Int : k > 0 /\ k * y <= k * z => y <= z
OBVIOUS

\* One more number keeps the square of the sum below the number of them times
\* the sum of the squares.
LEMMA OneMoreSquare ==
  ASSUME NEW k \in Nat, NEW a \in Int, NEW q \in Nat, NEW x \in Int, a * a <= k * q
  PROVE  (a + x) * (a + x) <= (k + 1) * (q + x * x)
<1>1. CASE k = 0
  <2>1. a = 0
    BY <1>1, SMT
  <2> QED
    BY <1>1, <2>1, SMT
<1>2. CASE k > 0
  <2> DEFINE d == a - k * x
  <2>1. d * d >= 0
    BY SMT
  <2>2. k * ((k + 1) * (q + x * x)) - k * ((a + x) * (a + x))
          = (k + 1) * (k * q - a * a) + d * d
    BY SMT
  <2>3. (k + 1) * (k * q - a * a) >= 0
    BY SMT
  <2>4. k * ((a + x) * (a + x)) <= k * ((k + 1) * (q + x * x))
    BY <2>1, <2>2, <2>3, SMT
  <2> QED
    BY <1>2, <2>4, Cancel
<1> QED
  BY <1>1, <1>2

\* The values of a function, and their sum.
LEMMA SumOfValues ==
  ASSUME NEW h \in [Int -> Int], NEW s \in Seq(Int), NEW x \in Int
  PROVE  SumOf(Sums!Mapped(h, Append(s, x))) = SumOf(Sums!Mapped(h, s)) + h[x]
<1>1. Sums!Mapped(h, Append(s, x)) = Append(Sums!Mapped(h, s), h[x])
  BY Sums!MappedAppend
<1>2. h[x] \in Int
  OBVIOUS
<1>3. Sums!Mapped(h, s) \in Seq(Int)
  <2>1. Len(s) \in Nat /\ s \in [1..Len(s) -> Int] /\ DOMAIN s = 1..Len(s)
    BY LenProperties
  <2> DEFINE n == Len(s)
             q == Sums!Mapped(h, s)
  <2>2. q \in [1..n -> Int]
    BY <2>1 DEF Sums!Mapped
  <2>3. n \in Nat
    BY <2>1
  <2> HIDE DEF n, q
  <2>4. q \in Seq(Int)
    BY <2>2, <2>3
  <2> QED
    BY <2>4 DEF q
<1> QED
  BY <1>1, <1>2, <1>3, SumOfAppend

\* The squares of a function's values.
SquareOf(h) == [z \in Int |-> h[z] * h[z]]

LEMMA SquareOfType ==
  ASSUME NEW h \in [Int -> Int]
  PROVE  /\ SquareOf(h) \in [Int -> Int]
         /\ \A z \in Int : SquareOf(h)[z] = h[z] * h[z] /\ SquareOf(h)[z] \in Int
BY DEF SquareOf

\* Cauchy's inequality for the values of a function.
LEMMA SquareOfSum ==
  ASSUME NEW h \in [Int -> Int]
  PROVE  \A s \in Seq(Int) :
           LET a == SumOf(Sums!Mapped(h, s))
               q == SumOf(Sums!Mapped(SquareOf(h), s))
           IN  a \in Int /\ q \in Nat /\ a * a <= Len(s) * q
<1> DEFINE A(s) == SumOf(Sums!Mapped(h, s))
           Q(s) == SumOf(Sums!Mapped(SquareOf(h), s))
           T == {s \in Seq(Int) : A(s) \in Int /\ Q(s) \in Nat /\ A(s) * A(s) <= Len(s) * Q(s)}
<1>1. SquareOf(h) \in [Int -> Int] /\ \A z \in Int : SquareOf(h)[z] = h[z] * h[z]
  BY SquareOfType
<1>2. A(<<>>) = 0 /\ Q(<<>>) = 0
  <2>1. \A g : Sums!Mapped(g, <<>>) = <<>>
    BY DEF Sums!Mapped
  <2> QED
    BY <2>1, SumOfEmpty
<1>3. <<>> \in T
  <2> HIDE DEF A, Q
  <2> QED
    BY <1>2, EmptySeq
<1>4. ASSUME NEW s \in Seq(Int), NEW x \in Int, s \in T PROVE Append(s, x) \in T
  <2>1. A(Append(s, x)) = A(s) + h[x]
    BY SumOfValues
  <2>2. Q(Append(s, x)) = Q(s) + h[x] * h[x]
    BY <1>1, SumOfValues
  <2>3. Append(s, x) \in Seq(Int) /\ Len(Append(s, x)) = Len(s) + 1 /\ Len(s) \in Nat
    BY AppendProperties, LenProperties
  <2>4. A(s) \in Int /\ Q(s) \in Nat /\ A(s) * A(s) <= Len(s) * Q(s)
    BY <1>4
  <2>5. h[x] \in Int /\ h[x] * h[x] \in Nat
    OBVIOUS
  <2> HIDE DEF A, Q, T
  <2>6. (A(s) + h[x]) * (A(s) + h[x]) <= (Len(s) + 1) * (Q(s) + h[x] * h[x])
    BY <2>3, <2>4, <2>5, OneMoreSquare
  <2>7. A(s) + h[x] \in Int /\ Q(s) + h[x] * h[x] \in Nat
    <3>1. \A y, z \in Int : y + z \in Int
      OBVIOUS
    <3>2. \A y, z \in Nat : y + z \in Nat
      OBVIOUS
    <3> QED
      BY <2>4, <2>5, <3>1, <3>2, Zenon
  <2> QED
    BY <2>1, <2>2, <2>3, <2>6, <2>7 DEF T
<1> HIDE DEF T
<1>5. \A s \in Seq(Int) : s \in T
  BY <1>3, <1>4, Sums!SequenceInduction
<1> QED
  BY <1>5 DEF T

\* The function Deviation multiplies and subtracts by.
Linear(n, c) == [z \in Int |-> n * z - c]

\* The sum of the values of a linear function.
LEMMA SumOfLinear ==
  ASSUME NEW n \in Int, NEW c \in Int
  PROVE  \A s \in Seq(Int) :
           SumOf(Sums!Mapped(Linear(n, c), s)) = n * SumOf(s) - Len(s) * c
<1> DEFINE h == Linear(n, c)
           A(s) == SumOf(Sums!Mapped(h, s))
           T == {s \in Seq(Int) : A(s) = n * SumOf(s) - Len(s) * c}
<1>1. h \in [Int -> Int] /\ \A z \in Int : h[z] = n * z - c
  BY DEF Linear
<1> HIDE DEF h
<1>2. A(<<>>) = 0
  <2>1. Sums!Mapped(h, <<>>) = <<>>
    BY DEF Sums!Mapped
  <2> QED
    BY <2>1, SumOfEmpty
<1>3. <<>> \in T
  <2> HIDE DEF A
  <2> QED
    BY <1>2, EmptySeq, SumOfEmpty
<1>4. ASSUME NEW s \in Seq(Int), NEW x \in Int, s \in T PROVE Append(s, x) \in T
  <2>1. A(Append(s, x)) = A(s) + h[x]
    BY <1>1, SumOfValues
  <2>2. Append(s, x) \in Seq(Int) /\ Len(Append(s, x)) = Len(s) + 1 /\ Len(s) \in Nat
    BY AppendProperties, LenProperties
  <2>3. SumOf(Append(s, x)) = SumOf(s) + x /\ SumOf(s) \in Int
    BY SumOfAppend, SumOfInts
  <2>4. A(s) = n * SumOf(s) - Len(s) * c
    BY <1>4
  <2>5. h[x] = n * x - c
    BY <1>1
  <2> HIDE DEF A
  <2>6. n * (SumOf(s) + x) = n * SumOf(s) + n * x /\ (Len(s) + 1) * c = Len(s) * c + c
    BY <2>2, <2>3, SMT
  <2>7. A(Append(s, x)) = n * SumOf(Append(s, x)) - Len(Append(s, x)) * c
    BY <2>1, <2>2, <2>3, <2>4, <2>5, <2>6
  <2> QED
    BY <2>2, <2>7
<1> HIDE DEF T
<1>5. \A s \in Seq(Int) : s \in T
  BY <1>3, <1>4, Sums!SequenceInduction
<1> QED
  BY <1>5 DEF T, h

\* Of n values the latest has at most n - 1 nth parts of the squares.
LEMMA LatestIsBounded ==
  ASSUME NEW s \in Seq(Int), s # <<>>
  PROVE  LET n == Len(s)
             dev == Deviation(s, Last(s))
         IN /\ n \in Nat /\ n > 0 /\ dev \in Int /\ Squares(s) \in Nat
            /\ n * (dev * dev) <= (n - 1) * Squares(s)
<1> DEFINE n == Len(s)
           c == SumOf(s)
           h == Linear(n, c)
           f == Front(s)
           x == Last(s)
           a == SumOf(Sums!Mapped(h, f))
           q == SumOf(Sums!Mapped(SquareOf(h), f))
<1>1. n \in Nat /\ n > 0 /\ c \in Int
  BY EmptySeq, LenProperties, SumOfInts
<1>2. f \in Seq(Int) /\ Len(f) = n - 1 /\ x \in Int /\ s = Append(f, x)
  <2> DEFINE I == Int
  <2>1. s \in Seq(I)
    OBVIOUS
  <2> HIDE DEF I, n
  <2>2. /\ Front(s) \in Seq(I) /\ Len(Front(s)) = Len(s) - 1 /\ Last(s) \in I
        /\ s = Append(Front(s), Last(s))
    BY <2>1, Sums!FrontAndLast DEF Front, Last, Sums!Front, Sums!Last
  <2> QED
    BY <2>2 DEF I, n
<1> HIDE DEF n, c, f, x
<1>0. \A z \in Int : n * z - c \in Int
  BY <1>1, SMT
<1>3. h \in [Int -> Int] /\ h[x] \in Int /\ h[x] = Deviation(s, x)
  BY <1>1, <1>2 DEF Deviation, Linear, n, c
<1>4. SumOf(Sums!Mapped(h, s)) = 0
  <2>1. SumOf(Sums!Mapped(h, s)) = n * SumOf(s) - Len(s) * c
    <3> HIDE DEF n, c
    <3> QED
      BY <1>1, SumOfLinear
  <2>2. SumOf(Sums!Mapped(h, s)) = n * c - n * c
    BY <2>1 DEF n, c
  <2> QED
    BY <1>1, <2>2
<1> DEFINE h2 == SquareOf(h)
<1>5. h2 \in [Int -> Int] /\ h2[x] = h[x] * h[x] /\ h2[x] \in Int
  <2> HIDE DEF h
  <2> QED
    BY <1>2, <1>3, SquareOfType
<1>6. Squares(s) = SumOf(Sums!Mapped(h2, s))
  <2>1. \A i \in DOMAIN s : s[i] \in Int
    BY LenProperties
  <2>2. \A i \in DOMAIN s : h2[s[i]] = Deviation(s, s[i]) * Deviation(s, s[i])
    BY <2>1 DEF SquareOf, Linear, Deviation, n, c
  <2>3. Sums!Mapped(h2, s) = [i \in DOMAIN s |-> Deviation(s, s[i]) * Deviation(s, s[i])]
    BY <2>2, Zenon DEF Sums!Mapped
  <2> QED
    BY <2>3 DEF Squares
<1> HIDE DEF h2
<1> HIDE DEF h
<1>7. SumOf(Sums!Mapped(h, s)) = a + h[x]
  BY <1>2, <1>3, SumOfValues
<1>8. SumOf(Sums!Mapped(h2, s)) = q + h[x] * h[x]
  BY <1>2, <1>5, SumOfValues DEF h2
<1>9. a \in Int /\ q \in Nat /\ a * a <= (n - 1) * q
  BY <1>2, <1>3, SquareOfSum DEF h2
<1> HIDE DEF a, q
<1> DEFINE d == h[x]
<1>10. d \in Int /\ a + d = 0
  BY <1>3, <1>4, <1>7
<1> HIDE DEF d
<1>11. a * a = d * d
  <2>1. a = 0 - d
    BY <1>9, <1>10
  <2>2. (0 - d) * (0 - d) = d * d
    BY <1>10, SMT
  <2> QED
    BY <2>1, <2>2
<1>12. d * d \in Nat /\ n * (d * d) <= (n - 1) * (q + d * d)
  <2>1. n * (d * d) = d * d + (n - 1) * (d * d)
    BY <1>1, <1>10, SMT
  <2>2. (n - 1) * (q + d * d) = (n - 1) * q + (n - 1) * (d * d)
    BY <1>1, <1>9, <1>10, SMT
  <2>3. d * d \in Nat
    BY <1>10, SMT
  <2>4. (n - 1) * q \in Int /\ (n - 1) * (d * d) \in Int
    BY <1>1, <1>9, <2>3, SMT
  <2> QED
    BY <1>9, <1>11, <2>1, <2>2, <2>3, <2>4
<1>13. Squares(s) = q + d * d
  BY <1>6, <1>8 DEF d
<1>14. Deviation(s, Last(s)) = d
  BY <1>3 DEF d, x
<1>15. n * (d * d) <= (n - 1) * Squares(s) /\ Squares(s) \in Nat
  BY <1>9, <1>12, <1>13
<1> QED
  BY <1>1, <1>10, <1>14, <1>15 DEF n

\* The z-score main prints counts the latest spread in its own mean, so over n
\* ticks its square is at most n - 1.
THEOREM ZScoreBounded == MainSpec => []ZScoreIsBounded
<1>1. MainInv => ZScoreIsBounded
  <2> SUFFICES ASSUME MainInv PROVE ZScoreIsBounded
    OBVIOUS
  <2> DEFINE s == spreadHistory
             z == ComputeAdaptiveZScore(s)
  <2>1. s \in Seq(Int)
    BY DEF MainInv, MainTypeOK
  <2> SUFFICES ASSUME Len(s) > 0
               PROVE  Len(s) * z.dev * z.dev <= (Len(s) - 1) * z.squares
    BY DEF ZScoreIsBounded
  <2> HIDE DEF s
  <2>2. s # <<>>
    BY <2>1, EmptySeq
  <2>3. /\ Len(s) \in Nat /\ Deviation(s, Last(s)) \in Int /\ Squares(s) \in Nat
        /\ Len(s) * (Deviation(s, Last(s)) * Deviation(s, Last(s)))
             <= (Len(s) - 1) * Squares(s)
    BY <2>1, <2>2, LatestIsBounded
  <2>4. CASE Squares(s) = 0
    <3>1. z.dev = 0 /\ z.squares = 1
      BY <2>4 DEF ComputeAdaptiveZScore, Zero
    <3> HIDE DEF z
    <3> QED
      BY <2>3, <3>1
  <2>5. CASE Squares(s) # 0
    <3>1. z.dev = Deviation(s, Last(s)) /\ z.squares = Squares(s)
      BY <2>2, <2>5 DEF ComputeAdaptiveZScore
    <3> HIDE DEF z
    <3>2. \A n \in Nat, d \in Int : n * d * d = n * (d * d)
      OBVIOUS
    <3> QED
      BY <2>3, <3>1, <3>2
  <2> QED
    BY <2>4, <2>5
<1> QED
  BY <1>1, MainInvariance, PTL
=============================================================================
