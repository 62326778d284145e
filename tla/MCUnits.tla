------------------------------ MODULE MCUnits -------------------------------
(***************************************************************************)
(* Four units that share no state with each other or with anything else,   *)
(* for TLC in one run: the risk manager, the voting signal engine, the     *)
(* redundancy manager and the two position classes.  A behaviour is one of *)
(* one unit; the others stay as they began, so that their states add up    *)
(* and do not multiply.                                                    *)
(***************************************************************************)
EXTENDS RiskManager, MCPositionAccounting, SignalEngine, RedundancyManager

VARIABLE unit    \* the unit of this behaviour

\* What a fill does to the profit and loss: a gain, a small and a large loss.
Changes == {3, -1, -4}

unitVars == <<unit, riskVars, vars, signalVars, redundancyVars>>

UnitsInit ==
  /\ unit \in {"risk", "positions", "signals", "redundancy"}
  /\ RiskInit /\ Init /\ SignalInit /\ RedundancyInit
  /\ unit # "signals" => parameters = <<>> /\ update.regime = CHOOSE r \in Regimes : TRUE
  /\ unit # "redundancy" => primary /\ backup

RiskUnit ==
  /\ unit = "risk" /\ RiskNext
  /\ UNCHANGED <<unit, vars, signalVars, redundancyVars>>

PositionUnit ==
  /\ unit = "positions" /\ Next
  /\ UNCHANGED <<unit, riskVars, signalVars, redundancyVars>>

SignalUnit ==
  /\ unit = "signals" /\ SignalNext
  /\ UNCHANGED <<unit, riskVars, vars, redundancyVars>>

RedundancyUnit ==
  /\ unit = "redundancy" /\ RedundancyNext
  /\ UNCHANGED <<unit, riskVars, vars, signalVars>>

UnitsNext == RiskUnit \/ PositionUnit \/ SignalUnit \/ RedundancyUnit

\* The fairness of RiskFairSpec and RedundancyFairSpec.
UnitsSpec ==
  /\ UnitsInit /\ [][UnitsNext]_unitVars
  /\ WF_unitVars(RiskUnit /\ Poll)
  /\ WF_unitVars(RedundancyUnit /\ Monitor)
=============================================================================
