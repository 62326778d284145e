----------------------------- MODULE RiskManager ----------------------------
(***************************************************************************)
(* include/core/Risk/RiskManager.hpp between its users: traders that ask   *)
(* evaluateOrderRisk and then submit, fills that call updatePosition, and  *)
(* the monitor thread of main.cpp that polls isStrategyAllowed.            *)
(*                                                                         *)
(* Every method holds riskMutex_ from its first statement to its last and  *)
(* is one action.  Money is counted in whole units and percentages in      *)
(* hundredths, so the comparisons below are the code's, multiplied out.    *)
(***************************************************************************)
EXTENDS Integers

CONSTANTS
  Traders,
  Capital,        \* allocatedCapital_
  Sizes,          \* the order sizes traders ask for
  Volatilities,   \* the volatility factors they pass, in percent
  PnLChanges,     \* what a fill may do to the profit and loss
  MaxPnL          \* bound of the model: |currentPnL_| is kept within it

ASSUME RiskAssumption ==
  /\ Capital \in Nat /\ MaxPnL \in Nat
  /\ Sizes \subseteq Nat /\ Volatilities \subseteq Nat
  /\ PnLChanges \subseteq Int

NoOrder == [size |-> 0, volatility |-> 0]

VARIABLES
  currentPnL, minPnL, currentDrawdown, isStrategyActive,
  approved,       \* what each trader was allowed and has not yet submitted
  monitor,        \* the monitor thread: "polling" or "alerted"
  breached,       \* history: the loss has exceeded 3% of the capital
  lastAnswer      \* history: isStrategyAllowed's answer since the last fill

managerVars == <<currentPnL, minPnL, currentDrawdown, isStrategyActive>>
riskVars == <<currentPnL, minPnL, currentDrawdown, isStrategyActive, approved,
          monitor, breached, lastAnswer>>

RiskTypeOK ==
  /\ currentPnL \in Int /\ minPnL \in Int /\ currentDrawdown \in Int
  /\ isStrategyActive \in BOOLEAN
  /\ approved \in [Traders -> [size : Sizes, volatility : Volatilities] \cup {NoOrder}]
  /\ monitor \in {"polling", "alerted"}
  /\ breached \in BOOLEAN
  /\ lastAnswer \in {"none", "yes", "no"}

RiskInit ==
  /\ currentPnL = 0 /\ minPnL = 0 /\ currentDrawdown = 0
  /\ isStrategyActive = TRUE
  /\ approved = [t \in Traders |-> NoOrder]
  /\ monitor = "polling"
  /\ breached = FALSE
  /\ lastAnswer = "none"

-----------------------------------------------------------------------------
\* size > allocatedCapital_ * 0.05 * volatilityFactor
ExceedsRiskLimit(size, volatility) == size * 10000 > Capital * 5 * volatility

\* x > allocatedCapital_ * 0.03
ExceedsMaxDrawdown(x) == x * 100 > Capital * 3

\* evaluateOrderRisk; a trader keeps the answer only when it is yes.
EvaluateOrderRisk(t, size, volatility) ==
  /\ approved[t] = NoOrder
  /\ ~ExceedsRiskLimit(size, volatility)
  /\ approved' = [approved EXCEPT ![t] = [size |-> size, volatility |-> volatility]]
  /\ UNCHANGED <<monitor, breached, lastAnswer>>
  /\ UNCHANGED managerVars

\* The trader hands the order it was allowed to executeTrade.  Neither this nor
\* the approval looks at isStrategyActive_.
Submit(t) ==
  /\ approved[t] # NoOrder
  /\ approved' = [approved EXCEPT ![t] = NoOrder]
  /\ UNCHANGED <<monitor, breached, lastAnswer>>
  /\ UNCHANGED managerVars

\* Mutant of UpdateDrawdown: the drawdown follows the loss down and up.
TrackCurrentLoss(pnl) ==
  /\ minPnL' = IF pnl < minPnL THEN pnl ELSE minPnL
  /\ currentDrawdown' = IF pnl < 0 THEN -pnl ELSE 0

\* Mutant of UpdateDrawdown: the loss is measured with the wrong sign.
GainAsDrawdown(pnl) ==
  IF pnl > -minPnL
  THEN minPnL' = -pnl /\ currentDrawdown' = pnl
  ELSE UNCHANGED <<minPnL, currentDrawdown>>

\* updateDrawdown, with currentPnL_ already updated to pnl.
UpdateDrawdown(pnl) ==
  IF pnl < minPnL
  THEN minPnL' = pnl /\ currentDrawdown' = Capital - (Capital + pnl)
  ELSE UNCHANGED <<minPnL, currentDrawdown>>

UpdatePosition(pnlChange) ==
  LET pnl == currentPnL + pnlChange IN
  /\ pnl \in -MaxPnL..MaxPnL
  /\ currentPnL' = pnl
  /\ UpdateDrawdown(pnl)
  /\ breached' = (breached \/ ExceedsMaxDrawdown(0 - pnl))
  /\ lastAnswer' = "none"
  /\ UNCHANGED <<isStrategyActive, approved, monitor>>

IsStrategyAllowed ==
  /\ UNCHANGED <<currentPnL, minPnL, currentDrawdown>>
  /\ isStrategyActive' =
       (isStrategyActive /\ ~ExceedsMaxDrawdown(currentDrawdown))

Answer == lastAnswer' = IF isStrategyActive' THEN "yes" ELSE "no"

\* One turn of the monitor thread's loop, which ends when the answer is no.
Poll ==
  /\ monitor = "polling"
  /\ IsStrategyAllowed /\ Answer
  /\ monitor' = IF isStrategyActive' THEN "polling" ELSE "alerted"
  /\ UNCHANGED <<approved, breached>>

\* Any other thread may ask too.
Query ==
  /\ IsStrategyAllowed /\ Answer
  /\ UNCHANGED <<approved, monitor, breached>>

RiskNext ==
  \/ \E t \in Traders :
       \/ \E size \in Sizes, volatility \in Volatilities :
            EvaluateOrderRisk(t, size, volatility)
       \/ Submit(t)
  \/ \E pnlChange \in PnLChanges : UpdatePosition(pnlChange)
  \/ Poll
  \/ Query

RiskSpec == RiskInit /\ [][RiskNext]_riskVars

\* The monitor's loop sleeps for a second and polls again.
RiskFairSpec == RiskSpec /\ WF_riskVars(Poll)

-----------------------------------------------------------------------------
\* No all-clear after a breach: once the loss has exceeded the limit, every
\* later answer of isStrategyAllowed is no, also when the loss was made good
\* between two polls.
NoAllClearAfterBreach == breached => lastAnswer # "yes"

\* The inductive invariant: the drawdown is the worst loss so far, and the
\* strategy is disabled and the alert raised only after a breach.
RiskInv ==
  /\ minPnL <= currentPnL /\ minPnL <= 0
  /\ currentDrawdown = 0 - minPnL
  /\ breached <=> ExceedsMaxDrawdown(currentDrawdown)
  /\ ~isStrategyActive => breached
  /\ monitor = "alerted" => ~isStrategyActive
  /\ NoAllClearAfterBreach

\* The recorded drawdown is the worst loss so far: no loss escapes it, however
\* briefly it lasted, and it reaches the limit only if a loss did.
DrawdownCoversLoss ==
  /\ currentDrawdown >= 0 - currentPnL
  /\ breached <=> ExceedsMaxDrawdown(currentDrawdown)

\* A disabled strategy is never enabled again, whoever asks and whatever the
\* fills since.
StaysDisabled == [][~isStrategyActive => ~isStrategyActive']_riskVars

\* The monitor raises no false alarm.
AlertMeansBreach == monitor = "alerted" => breached

\* Every breach is alerted, also one that has passed before the next poll.
BreachIsAlerted == breached ~> monitor = "alerted"
=============================================================================
