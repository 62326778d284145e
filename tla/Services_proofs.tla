--------------------------- MODULE Services_proofs --------------------------
(***************************************************************************)
(* Theorems about the three services that stand beside the order path and  *)
(* share no state: RiskManager, for every number of traders, every capital *)
(* and every set of order sizes, volatilities and changes of PnL;          *)
(* RedundancyManager, for any number of changes of health; SignalEngine,   *)
(* for any number of generators, regimes, runs and updates.                *)
(***************************************************************************)
EXTENDS RiskManager, RedundancyManager, SignalEngine,
        FiniteSetTheorems, SequenceTheorems, TLAPS

-----------------------------------------------------------------------------
(* RiskManager *)

RiskIInv == RiskTypeOK /\ RiskInv

LEMMA InitRiskInv == RiskInit => RiskIInv
<1> SUFFICES ASSUME RiskInit PROVE RiskIInv
  OBVIOUS
<1>1. RiskTypeOK
  <2>1. approved \in [Traders -> [size : Sizes, volatility : Volatilities] \cup {NoOrder}]
    BY Zenon DEF RiskInit
  <2>2. isStrategyActive \in BOOLEAN /\ breached \in BOOLEAN
    BY Zenon DEF RiskInit
  <2>3. currentPnL \in Int /\ minPnL \in Int /\ currentDrawdown \in Int
    BY DEF RiskInit
  <2>4. monitor \in {"polling", "alerted"}
        /\ lastAnswer = "none" /\ lastAnswer \in {"none", "yes", "no"}
    BY DEF RiskInit
  <2> QED
    BY <2>1, <2>2, <2>3, <2>4 DEF RiskTypeOK
<1>2. ~ExceedsMaxDrawdown(0)
  BY RiskAssumption DEF ExceedsMaxDrawdown
<1>3. minPnL <= currentPnL /\ minPnL <= 0 /\ currentDrawdown = 0 - minPnL
  <2>1. minPnL = 0 /\ currentPnL = 0 /\ currentDrawdown = 0
    BY DEF RiskInit
  <2> QED
    BY <2>1
<1>4. currentDrawdown = 0 /\ ~breached /\ isStrategyActive /\ monitor = "polling"
      /\ lastAnswer = "none"
  BY DEF RiskInit
<1> QED
  BY <1>1, <1>2, <1>3, <1>4 DEF RiskIInv, RiskInv, NoAllClearAfterBreach

LEMMA TraderStep ==
  ASSUME RiskIInv, NEW t \in Traders,
         \/ \E size \in Sizes, volatility \in Volatilities :
              EvaluateOrderRisk(t, size, volatility)
         \/ Submit(t)
  PROVE  RiskIInv'
BY DEF RiskIInv, RiskTypeOK, RiskInv, NoAllClearAfterBreach, ExceedsMaxDrawdown,
   EvaluateOrderRisk, Submit, managerVars

\* A fill keeps the drawdown at the worst loss so far.
LEMMA FillStep ==
  ASSUME RiskIInv, NEW d \in PnLChanges, UpdatePosition(d)
  PROVE  RiskIInv'
<1> DEFINE pnl == currentPnL + d
<1>1. /\ pnl \in Int /\ currentPnL' = pnl /\ UpdateDrawdown(pnl)
      /\ breached' = (breached \/ ExceedsMaxDrawdown(0 - pnl))
      /\ lastAnswer' = "none"
      /\ UNCHANGED <<isStrategyActive, approved, monitor>>
  BY RiskAssumption DEF UpdatePosition, RiskIInv, RiskTypeOK
<1> HIDE DEF pnl
<1>2. CASE pnl < minPnL
  <2>1. minPnL' = pnl /\ currentDrawdown' = 0 - pnl
    BY <1>1, <1>2, RiskAssumption DEF UpdateDrawdown
  <2>2. breached' <=> ExceedsMaxDrawdown(0 - pnl)
    BY <1>1, <1>2, RiskAssumption DEF RiskIInv, RiskTypeOK, RiskInv, ExceedsMaxDrawdown
  <2>3. RiskTypeOK'
    BY <1>1, <2>1 DEF RiskIInv, RiskTypeOK
  <2> QED
    BY <1>1, <1>2, <2>1, <2>2, <2>3 DEF RiskIInv, RiskTypeOK, RiskInv, ExceedsMaxDrawdown,
       NoAllClearAfterBreach
<1>3. CASE ~(pnl < minPnL)
  <2>1. UNCHANGED <<minPnL, currentDrawdown>>
    BY <1>1, <1>3 DEF UpdateDrawdown
  <2>2. breached' <=> breached
    BY <1>1, <1>3, RiskAssumption DEF RiskIInv, RiskTypeOK, RiskInv, ExceedsMaxDrawdown
  <2>3. RiskTypeOK'
    BY <1>1, <2>1 DEF RiskIInv, RiskTypeOK
  <2> QED
    BY <1>1, <1>3, <2>1, <2>2, <2>3 DEF RiskIInv, RiskTypeOK, RiskInv, ExceedsMaxDrawdown,
       NoAllClearAfterBreach
<1> QED
  BY <1>2, <1>3

LEMMA AskStep ==
  ASSUME RiskIInv, Poll \/ Query
  PROVE  RiskIInv'
<1>1. /\ UNCHANGED <<currentPnL, minPnL, currentDrawdown, approved, breached>>
      /\ isStrategyActive' =
           (isStrategyActive /\ ~ExceedsMaxDrawdown(currentDrawdown))
      /\ lastAnswer' = IF isStrategyActive' THEN "yes" ELSE "no"
  BY DEF Poll, Query, IsStrategyAllowed, Answer
<1>2. isStrategyActive' \in BOOLEAN
  BY <1>1
<1>3. ~isStrategyActive' => ~isStrategyActive \/ ExceedsMaxDrawdown(currentDrawdown)
  BY <1>1, Zenon
<1>4. isStrategyActive' => isStrategyActive /\ ~ExceedsMaxDrawdown(currentDrawdown)
  BY <1>1, Zenon
<1>5. \/ monitor' = "alerted" /\ ~isStrategyActive'
      \/ monitor' = "polling"
      \/ UNCHANGED monitor
  BY DEF Poll, Query
<1>6. RiskTypeOK'
  BY <1>1, <1>2, <1>5 DEF RiskIInv, RiskTypeOK
<1>7. ExceedsMaxDrawdown(currentDrawdown)' <=> ExceedsMaxDrawdown(currentDrawdown)
  BY <1>1 DEF ExceedsMaxDrawdown
<1>8. NoAllClearAfterBreach'
  BY <1>1, <1>4 DEF RiskIInv, RiskInv, NoAllClearAfterBreach
<1>9. RiskInv'
  BY <1>1, <1>3, <1>4, <1>5, <1>7, <1>8 DEF RiskIInv, RiskInv
<1> QED
  BY <1>6, <1>9 DEF RiskIInv

\* The recorded drawdown is the worst loss so far, and nothing is disabled or
\* alerted without a breach.
THEOREM RiskInvariance == RiskSpec => []RiskIInv
<1>1. RiskIInv /\ [RiskNext]_riskVars => RiskIInv'
  <2>1. RiskIInv /\ UNCHANGED riskVars => RiskIInv'
    BY DEF riskVars, RiskIInv, RiskTypeOK, RiskInv, ExceedsMaxDrawdown, NoAllClearAfterBreach
  <2> QED
    BY <2>1, TraderStep, FillStep, AskStep DEF RiskNext
<1> QED
  BY InitRiskInv, <1>1, PTL DEF RiskSpec

\* No loss escapes the recorded drawdown.
THEOREM DrawdownIsSound == RiskSpec => []DrawdownCoversLoss
<1>1. RiskIInv => DrawdownCoversLoss
  BY DEF RiskIInv, RiskTypeOK, RiskInv, DrawdownCoversLoss, ExceedsMaxDrawdown
<1> QED
  BY <1>1, RiskInvariance, PTL

\* The monitor raises no false alarm.
THEOREM AlertsAreTrue == RiskSpec => []AlertMeansBreach
<1>1. RiskIInv => AlertMeansBreach
  BY DEF RiskIInv, RiskInv, AlertMeansBreach
<1> QED
  BY <1>1, RiskInvariance, PTL

\* Once the loss has exceeded the limit, isStrategyAllowed only answers no.
THEOREM NoAllClear == RiskSpec => []NoAllClearAfterBreach
<1>1. RiskIInv => NoAllClearAfterBreach
  BY DEF RiskIInv, RiskInv
<1> QED
  BY <1>1, RiskInvariance, PTL

\* The kill switch is never released.
THEOREM KillSwitchLatches == RiskSpec => StaysDisabled
<1>1. [RiskNext]_riskVars => [~isStrategyActive => ~isStrategyActive']_riskVars
  BY DEF RiskNext, EvaluateOrderRisk, Submit, UpdatePosition, Poll, Query,
     IsStrategyAllowed, managerVars, riskVars
<1> QED
  BY <1>1, PTL DEF RiskSpec, StaysDisabled

-----------------------------------------------------------------------------
(* RedundancyManager *)

\* Once monitor() has activated the backup, only a change of its health by others
\* can take it down again, which lostBackup records.
BackupInv ==
  /\ pc = "confirm" /\ ~backup => lostBackup
  /\ ErrorNeedsLostBackup

RedundancyInv == RedundancyTypeOK /\ BackupInv

LEMMA InitRedundancyInv == RedundancyInit => RedundancyInv
<1> SUFFICES ASSUME RedundancyInit PROVE RedundancyInv
  OBVIOUS
<1>1. changes \in 0..MaxChanges /\ pc = "check"
  BY RedundancyAssumption DEF RedundancyInit
<1>2. /\ primary \in BOOLEAN /\ backup \in BOOLEAN
      /\ lostBackup \in BOOLEAN /\ bothDown \in BOOLEAN
  BY Zenon DEF RedundancyInit
<1>3. pc # "confirm" /\ pc # "err"
  BY <1>1
<1>4. RedundancyTypeOK
  BY <1>1, <1>2 DEF RedundancyTypeOK
<1> QED
  BY <1>3, <1>4 DEF RedundancyInv, BackupInv, ErrorNeedsLostBackup

LEMMA HealthStep ==
  ASSUME RedundancyInv, NEW state \in BOOLEAN, SetPrimary(state) \/ SetBackup(state)
  PROVE  RedundancyInv'
<1> USE DEF RedundancyInv
<1>1. changes < MaxChanges /\ changes' = changes + 1 /\ pc' = pc
  BY DEF SetPrimary, SetBackup
<1>2. changes' \in 0..MaxChanges
  BY <1>1, RedundancyAssumption DEF RedundancyTypeOK
<1>3. CASE SetPrimary(state)
  BY <1>2, <1>3 DEF SetPrimary, RedundancyTypeOK, BackupInv, ErrorNeedsLostBackup
<1>4. CASE SetBackup(state)
  BY <1>2, <1>4, Zenon DEF SetBackup, RedundancyTypeOK, BackupInv, ErrorNeedsLostBackup
<1> QED
  BY <1>3, <1>4

LEMMA MonitorStep ==
  ASSUME RedundancyInv, Monitor
  PROVE  RedundancyInv'
BY DEF RedundancyInv, RedundancyTypeOK, BackupInv, ErrorNeedsLostBackup,
   Monitor, CheckPrimary, Sleep, Activate, Confirm

\* monitor() looks at the backup it has just activated, and finds it down only if
\* someone took it down in between.
THEOREM RedundancyInvariance == RedundancySpec => []RedundancyInv
<1>1. RedundancyInv /\ [RedundancyNext]_redundancyVars => RedundancyInv'
  <2>1. RedundancyInv /\ UNCHANGED redundancyVars => RedundancyInv'
    BY DEF redundancyVars, RedundancyInv, RedundancyTypeOK, BackupInv, ErrorNeedsLostBackup
  <2> QED
    BY <2>1, HealthStep, MonitorStep DEF RedundancyNext, Returned
<1> QED
  BY InitRedundancyInv, <1>1, PTL DEF RedundancySpec

\* monitor() returns an error only if the backup was lost after its activation,
\* however the health of both components changes meanwhile.
THEOREM ErrorIsLostBackup == RedundancySpec => []ErrorNeedsLostBackup
<1>1. RedundancyInv => ErrorNeedsLostBackup
  BY DEF RedundancyInv, BackupInv
<1> QED
  BY <1>1, RedundancyInvariance, PTL

-----------------------------------------------------------------------------
(* SignalEngine *)

RawSignal == [direction : Directions, regime : Regimes]

\* While no update is in progress all generators have the parameters of the
\* last one; while one is, those it has told have, and the others those of the
\* one before.
ParametersInv ==
  /\ update.told <= Len(parameters)
  /\ \A g \in Generators :
       parameters[g] = IF ~update.active \/ g <= update.told THEN update.regime
                                                            ELSE update.was

\* A run collects the signals of regimes in force, to which belong those that
\* the generators not asked yet can have.
CollectInv ==
  /\ \A i \in DOMAIN signals : signals[i].regime \in inForce
  /\ running => /\ update.regime \in inForce
                /\ update.active => update.was \in inForce

\* A run that is over has returned the vote of the signals it collected.
VoteInv == Finished => result = Aggregate(signals)

SignalInv == SignalTypeOK /\ ParametersInv /\ CollectInv /\ VoteInv

-----------------------------------------------------------------------------
\* Votes are counted.
LEMMA VotesAreCounted ==
  ASSUME NEW raw \in Seq(RawSignal), NEW d
  PROVE  Votes(raw, d) \in Nat
<1> DEFINE voters == {i \in DOMAIN raw : raw[i].direction = d}
<1>1. IsFiniteSet(1..Len(raw)) /\ DOMAIN raw = 1..Len(raw)
  BY FS_Interval, LenProperties
<1>2. IsFiniteSet(voters)
  BY <1>1, FS_Subset
<1> QED
  BY <1>2, FS_CardinalityType DEF Votes

\* The largest of three counts.
LEMMA MaxOfThree ==
  ASSUME NEW a \in Nat, NEW b \in Nat, NEW c \in Nat
  PROVE  /\ Max({a, b, c}) \in {a, b, c}
         /\ Max({a, b, c}) >= a /\ Max({a, b, c}) >= b /\ Max({a, b, c}) >= c
<1>1. \E x \in {a, b, c} : \A y \in {a, b, c} : x >= y
  <2>1. \/ a >= b /\ a >= c
        \/ b >= a /\ b >= c
        \/ c >= a /\ c >= b
    OBVIOUS
  <2> QED
    BY <2>1
<1> DEFINE m == CHOOSE x \in {a, b, c} : \A y \in {a, b, c} : x >= y
<1>2. m \in {a, b, c} /\ \A y \in {a, b, c} : m >= y
  BY <1>1, Zenon
<1>3. Max({a, b, c}) = m
  BY Zenon DEF Max
<1> QED
  BY <1>2, <1>3

\* What the vote of a list of signals is of.
LEMMA AggregateFacts ==
  ASSUME NEW raw \in Seq(RawSignal)
  PROVE  /\ Aggregate(raw) \in [direction : Directions, votes : Nat, of : Nat]
         /\ \/ /\ Aggregate(raw).votes = Votes(raw, Aggregate(raw).direction)
               /\ Aggregate(raw).of = Len(raw)
            \/ /\ Aggregate(raw).direction = "HOLD"
               /\ Votes(raw, "LONG") = Votes(raw, "SHORT")
               /\ Votes(raw, "LONG") > Votes(raw, "HOLD")
<1> DEFINE l == Votes(raw, "LONG")
           s == Votes(raw, "SHORT")
           h == Votes(raw, "HOLD")
           w == Winner(raw)
           m == Max({l, s, h})
<1>1. l \in Nat /\ s \in Nat /\ h \in Nat
  BY VotesAreCounted
<1>2. Len(raw) \in Nat
  BY LenProperties
<1>3. m \in {l, s, h} /\ m >= l /\ m >= s /\ m >= h
  <2> HIDE DEF l, s, h
  <2> QED
    BY <1>1, MaxOfThree
<1>4. /\ w \in {"LONG", "SHORT", "HOLD"}
      /\ w = "LONG" => l > s /\ l > h
      /\ w = "SHORT" => s > l /\ s > h
      /\ w = "HOLD" => ~(l > s /\ l > h) /\ ~(s > l /\ s > h)
  BY DEF Winner
<1>5. Aggregate(raw) = [direction |-> w, votes |-> m, of |-> Len(raw)]
  <2>1. {Votes(raw, d) : d \in {"LONG", "SHORT", "HOLD"}} = {l, s, h}
    OBVIOUS
  <2> QED
    BY <2>1 DEF Aggregate
<1>6. CASE w = "LONG"
  <2>1. m = l /\ Votes(raw, w) = l
    <3>1. Votes(raw, w) = l
      BY <1>6
    <3> HIDE DEF l, s, h, w, m
    <3> QED
      BY <1>1, <1>3, <1>4, <1>6, <3>1
  <2> HIDE DEF l, s, h, w, m
  <2> QED
    BY <1>1, <1>2, <1>4, <1>5, <2>1 DEF Directions
<1>7. CASE w = "SHORT"
  <2>1. m = s /\ Votes(raw, w) = s
    <3>1. Votes(raw, w) = s
      BY <1>7
    <3> HIDE DEF l, s, h, w, m
    <3> QED
      BY <1>1, <1>3, <1>4, <1>7, <3>1
  <2> HIDE DEF l, s, h, w, m
  <2> QED
    BY <1>1, <1>2, <1>4, <1>5, <2>1 DEF Directions
<1>8. CASE w = "HOLD"
  <2>1. m = h \/ (l = s /\ l > h)
    <3> HIDE DEF l, s, h, w, m
    <3> QED
      BY <1>1, <1>3, <1>4, <1>8
  <2>2. Votes(raw, w) = h
    BY <1>8
  <2>3. m \in Nat
    <3> HIDE DEF l, s, h, w, m
    <3> QED
      BY <1>1, <1>3
  <2>4. /\ Aggregate(raw).direction = w /\ Aggregate(raw).votes = m
        /\ Aggregate(raw).of = Len(raw)
        /\ Aggregate(raw) \in [direction : Directions, votes : Nat, of : Nat]
    <3> HIDE DEF l, s, h, w, m
    <3> QED
      BY <1>2, <1>4, <1>5, <2>3 DEF Directions
  <2> QED
    BY <1>8, <2>1, <2>2, <2>4
<1> QED
  BY <1>4, <1>6, <1>7, <1>8

-----------------------------------------------------------------------------
LEMMA InitSignalInv == SignalInit => SignalInv
<1> SUFFICES ASSUME SignalInit PROVE SignalInv
  OBVIOUS
<1>1. PICK n \in 0..MaxGenerators, r \in Regimes :
        /\ parameters = [g \in 1..n |-> r]
        /\ update = [regime |-> r, was |-> r, told |-> n, active |-> FALSE]
        /\ inForce = {r}
  BY DEF SignalInit
<1>2. /\ signals = <<>> /\ running = FALSE
      /\ result = [direction |-> "HOLD", votes |-> 0, of |-> 0]
      /\ runs = 0 /\ updates = 0
  BY DEF SignalInit
<1>3. n \in Nat /\ Len(parameters) = n /\ DOMAIN parameters = 1..n
  BY <1>1, SignalAssumption
<1>4. SignalTypeOK
  <2>1. parameters \in [1..n -> Regimes]
    BY <1>1
  <2>2. signals \in Seq([direction : Directions, regime : Regimes])
    BY <1>2
  <2>3. result \in [direction : Directions, votes : Nat, of : Nat]
    BY <1>2 DEF Directions
  <2>4. update \in [regime : Regimes, was : Regimes, told : Nat, active : BOOLEAN]
    BY <1>1, <1>3
  <2>5. runs \in 0..MaxRuns /\ updates \in 0..MaxUpdates /\ inForce \subseteq Regimes
    BY <1>1, <1>2, SignalAssumption
  <2> QED
    BY <1>2, <2>1, <2>2, <2>3, <2>4, <2>5 DEF SignalTypeOK
<1>5. ParametersInv
  BY <1>1, <1>3 DEF ParametersInv, Generators
<1>6. CollectInv
  BY <1>2 DEF CollectInv
<1>7. VoteInv
  BY <1>2 DEF VoteInv, Finished
<1> QED
  BY <1>4, <1>5, <1>6, <1>7 DEF SignalInv

\* The parameters are a sequence of one regime for each generator.
LEMMA ParametersAreASequence ==
  ASSUME SignalTypeOK
  PROVE  /\ Len(parameters) \in Nat /\ DOMAIN parameters = 1..Len(parameters)
         /\ \A g \in 1..Len(parameters) : parameters[g] \in Regimes
<1>1. PICK n \in 0..MaxGenerators : parameters \in [1..n -> Regimes]
  BY DEF SignalTypeOK
<1>2. n \in Nat /\ Len(parameters) = n
  BY <1>1, SignalAssumption
<1> QED
  BY <1>1, <1>2

LEMMA BeginRunStep == SignalInv /\ BeginRun => SignalInv'
<1> SUFFICES ASSUME SignalInv, BeginRun PROVE SignalInv'
  OBVIOUS
<1> USE DEF SignalInv
<1>1. /\ running' = TRUE /\ runs' = runs + 1 /\ runs < MaxRuns
      /\ signals' = <<>>
      /\ inForce' = IF update.active THEN {update.was, update.regime} ELSE {update.regime}
      /\ UNCHANGED <<parameters, result, update, updates>>
  BY DEF BeginRun
<1>2. SignalTypeOK'
  <2>1. runs' \in 0..MaxRuns /\ inForce' \subseteq Regimes
    BY <1>1, SignalAssumption DEF SignalTypeOK
  <2> QED
    BY <1>1, <2>1 DEF SignalTypeOK
<1>3. ParametersInv'
  BY <1>1 DEF ParametersInv, Generators
<1>4. CollectInv'
  BY <1>1, SignalAssumption DEF CollectInv
<1>5. VoteInv'
  BY <1>1 DEF VoteInv, Finished
<1> QED
  BY <1>2, <1>3, <1>4, <1>5

LEMMA CollectStep ==
  ASSUME SignalInv, NEW d \in Directions, Collect(d)
  PROVE  SignalInv'
<1> DEFINE g == Len(signals) + 1
           new == [direction |-> d, regime |-> parameters[g]]
<1> USE DEF SignalInv
<1>1. /\ running /\ g \in Generators /\ signals' = Append(signals, new)
      /\ UNCHANGED <<parameters, running, result, runs, update, updates, inForce>>
  BY DEF Collect
<1>2. g \in 1..Len(parameters) /\ new \in RawSignal /\ signals \in Seq(RawSignal)
  BY <1>1, ParametersAreASequence DEF Generators, RawSignal, SignalTypeOK
<1>3. /\ signals' \in Seq(RawSignal)
      /\ Len(signals) \in Nat /\ DOMAIN signals = 1..Len(signals)
      /\ DOMAIN signals' = 1..(Len(signals) + 1)
      /\ \A i \in 1..Len(signals) : signals'[i] = signals[i]
      /\ signals'[Len(signals) + 1] = new
  <2> HIDE DEF new, g
  <2> QED
    BY <1>1, <1>2, AppendProperties, LenProperties
<1>4. SignalTypeOK'
  BY <1>1, <1>3 DEF SignalTypeOK, RawSignal
<1>5. ParametersInv'
  BY <1>1 DEF ParametersInv, Generators
<1>6. CollectInv'
  <2>1. new.regime \in inForce
    BY <1>1 DEF ParametersInv, CollectInv
  <2>2. \A i \in DOMAIN signals' : signals'[i].regime \in inForce
    <3> HIDE DEF new
    <3> QED
      BY <1>3, <2>1 DEF CollectInv
  <2> QED
    BY <1>1, <2>2 DEF CollectInv
<1>7. VoteInv'
  BY <1>1 DEF VoteInv, Finished
<1> QED
  BY <1>4, <1>5, <1>6, <1>7

LEMMA EndRunStep == SignalInv /\ EndRun => SignalInv'
<1> SUFFICES ASSUME SignalInv, EndRun PROVE SignalInv'
  OBVIOUS
<1> USE DEF SignalInv
<1>1. /\ running' = FALSE /\ result' = Aggregate(signals)
      /\ UNCHANGED <<parameters, signals, runs, update, updates, inForce>>
  BY DEF EndRun
<1>2. result' \in [direction : Directions, votes : Nat, of : Nat]
  BY <1>1, AggregateFacts DEF SignalTypeOK, RawSignal
<1>3. SignalTypeOK'
  BY <1>1, <1>2 DEF SignalTypeOK
<1>4. ParametersInv' /\ CollectInv'
  BY <1>1 DEF ParametersInv, Generators, CollectInv
<1>5. VoteInv'
  <2>1. Aggregate(signals)' = Aggregate(signals)
    BY <1>1 DEF Aggregate, Winner, Votes
  <2> QED
    BY <1>1, <2>1 DEF VoteInv
<1> QED
  BY <1>3, <1>4, <1>5

\* An update changes nothing of what a run has collected or returned.
LEMMA UpdateKeepsVote ==
  ASSUME VoteInv, UNCHANGED runVars
  PROVE  VoteInv'
BY DEF VoteInv, Finished, runVars, Aggregate, Winner, Votes

LEMMA BeginUpdateStep ==
  ASSUME SignalInv, NEW regime \in Regimes, BeginUpdate(regime)
  PROVE  SignalInv'
<1> USE DEF SignalInv
<1>1. /\ updates' = updates + 1 /\ updates < MaxUpdates
      /\ ~update.active
      /\ update' = [regime |-> regime, was |-> update.regime, told |-> 0, active |-> TRUE]
      /\ inForce' = inForce \cup {regime}
      /\ UNCHANGED <<parameters, signals, running, result, runs>>
  BY DEF BeginUpdate, runVars
<1>2. SignalTypeOK'
  <2>1. updates' \in 0..MaxUpdates
    BY <1>1, SignalAssumption DEF SignalTypeOK
  <2>2. update' \in [regime : Regimes, was : Regimes, told : Nat, active : BOOLEAN]
    BY <1>1 DEF SignalTypeOK
  <2>3. inForce' \subseteq Regimes
    BY <1>1 DEF SignalTypeOK
  <2> QED
    BY <1>1, <2>1, <2>2, <2>3 DEF SignalTypeOK
<1>3. ParametersInv'
  BY <1>1, ParametersAreASequence DEF ParametersInv, Generators
<1>4. CollectInv'
  BY <1>1 DEF CollectInv
<1>5. VoteInv'
  BY <1>1, UpdateKeepsVote DEF runVars
<1> QED
  BY <1>2, <1>3, <1>4, <1>5

LEMMA TellStep == SignalInv /\ Tell => SignalInv'
<1> SUFFICES ASSUME SignalInv, Tell PROVE SignalInv'
  OBVIOUS
<1> USE DEF SignalInv
<1>1. /\ update.active /\ update.told < Len(parameters)
      /\ parameters' = [parameters EXCEPT ![update.told + 1] = update.regime]
      /\ update' = [update EXCEPT !.told = @ + 1]
      /\ UNCHANGED <<signals, running, result, runs, updates, inForce>>
  BY DEF Tell, runVars
<1>2. PICK n \in 0..MaxGenerators : parameters \in [1..n -> Regimes]
  BY DEF SignalTypeOK
<1>3. n \in Nat /\ Len(parameters) = n /\ update.regime \in Regimes /\ update.told \in Nat
  BY <1>2, SignalAssumption DEF SignalTypeOK
<1>4. /\ update'.told = update.told + 1
      /\ update'.regime = update.regime /\ update'.was = update.was
      /\ update'.active = update.active
      /\ update' \in [regime : Regimes, was : Regimes, told : Nat, active : BOOLEAN]
  <2>1. update \in [regime : Regimes, was : Regimes, told : Nat, active : BOOLEAN]
    BY DEF SignalTypeOK
  <2>2. update' = [regime |-> update.regime, was |-> update.was,
                   told |-> update.told + 1, active |-> update.active]
    BY <1>1, <2>1
  <2> QED
    BY <2>1, <2>2
<1>5. parameters' \in [1..n -> Regimes] /\ Len(parameters') = n
  BY <1>1, <1>2, <1>3
<1>6. SignalTypeOK'
  BY <1>1, <1>4, <1>5 DEF SignalTypeOK
<1>7. ParametersInv'
  <2>1. \A g \in 1..n :
          parameters[g] = IF g <= update.told THEN update.regime ELSE update.was
    BY <1>1, <1>2 DEF ParametersInv, Generators
  <2>2. \A g \in 1..n :
          parameters'[g] = IF g = update.told + 1 THEN update.regime ELSE parameters[g]
    BY <1>1, <1>2
  <2>3. \A g \in 1..n :
          parameters'[g] = IF g <= update.told + 1 THEN update.regime ELSE update.was
    BY <1>3, <2>1, <2>2
  <2> QED
    BY <1>1, <1>3, <1>4, <1>5, <2>3 DEF ParametersInv, Generators
<1>8. CollectInv'
  BY <1>1, <1>4 DEF CollectInv
<1>9. VoteInv'
  BY <1>1, UpdateKeepsVote DEF runVars
<1> QED
  BY <1>6, <1>7, <1>8, <1>9

LEMMA EndUpdateStep == SignalInv /\ EndUpdate => SignalInv'
<1> SUFFICES ASSUME SignalInv, EndUpdate PROVE SignalInv'
  OBVIOUS
<1> USE DEF SignalInv
<1>1. /\ update.active /\ update.told = Len(parameters)
      /\ update' = [update EXCEPT !.active = FALSE]
      /\ UNCHANGED <<parameters, signals, running, result, runs, updates, inForce>>
  BY DEF EndUpdate, runVars
<1>2. /\ update'.told = update.told /\ update'.regime = update.regime /\ ~update'.active
      /\ update' \in [regime : Regimes, was : Regimes, told : Nat, active : BOOLEAN]
  BY <1>1 DEF SignalTypeOK
<1>3. SignalTypeOK'
  BY <1>1, <1>2 DEF SignalTypeOK
<1>4. ParametersInv'
  BY <1>1, <1>2, ParametersAreASequence DEF ParametersInv, Generators
<1>5. CollectInv'
  BY <1>1, <1>2 DEF CollectInv
<1>6. VoteInv'
  BY <1>1, UpdateKeepsVote DEF runVars
<1> QED
  BY <1>3, <1>4, <1>5, <1>6

\* What the generators have been told and what a run collects of them agree, also
\* where an update overlaps the run.
THEOREM SignalInvariance == SignalSpec => []SignalInv
<1>1. SignalInv /\ [SignalNext]_signalVars => SignalInv'
  <2> SUFFICES ASSUME SignalInv, [SignalNext]_signalVars PROVE SignalInv'
    OBVIOUS
  <2>1. CASE UNCHANGED signalVars
    BY <2>1 DEF signalVars, runVars, SignalInv, SignalTypeOK, ParametersInv, Generators, CollectInv,
       VoteInv, Finished, Aggregate, Winner, Votes
  <2> QED
    BY <2>1, BeginRunStep, CollectStep, EndRunStep, BeginUpdateStep, TellStep, EndUpdateStep
    DEF SignalNext, SignalDone
<1> QED
  BY InitSignalInv, <1>1, PTL DEF SignalSpec

\* Every signal of a vote was made with the parameters of a regime in force
\* while run collected it.
THEOREM VotesCurrent == SignalSpec => []VotesAreCurrent
<1>1. SignalInv => VotesAreCurrent
  BY DEF SignalInv, CollectInv, VotesAreCurrent, Range
<1> QED
  BY <1>1, SignalInvariance, PTL

\* The confidence run returns belongs to the direction it returns, except in a
\* tie of LONG and SHORT ahead of HOLD.
THEOREM ConfidenceIsOfDirection == SignalSpec => []ConfidenceIsOfTheDirection
<1>1. SignalInv => ConfidenceIsOfTheDirection
  <2>1. SignalInv => signals \in Seq(RawSignal)
    BY DEF SignalInv, SignalTypeOK, RawSignal
  <2> QED
    BY <2>1, AggregateFacts DEF SignalInv, VoteInv, ConfidenceIsOfTheDirection
<1> QED
  BY <1>1, SignalInvariance, PTL
=============================================================================
