-------------------------- MODULE TriangularTrade ---------------------------
(***************************************************************************)
(* The three-leg trade of src/ExecutionManager.cpp: one thread runs        *)
(* execute(), which stores each state of the trade in the atomic state_    *)
(* before it sends the corresponding leg, while monitoring threads may     *)
(* read state_ between any two of its steps.                               *)
(*                                                                         *)
(* The object has no guard against two threads in execute() at once and    *)
(* its comments require setLegs before execution; the model keeps to that  *)
(* use: one executing thread, legs set at most once and before it starts.  *)
(* execute() may be called again when it has returned.                     *)
(***************************************************************************)
EXTENDS Integers, Sequences

CONSTANTS Quantities, Prices    \* what a leg may ask for, sensible or not

ASSUME LegValuesAssumption ==
  Quantities \subseteq Int /\ Prices \subseteq Int /\ 0 \in Quantities \cap Prices

VARIABLES
  legs,       \* legs_
  state,      \* state_, the only thing a monitor sees
  pc,         \* where execute() is
  executed    \* history: the legs sent successfully by the latest execute()

vars == <<legs, state, pc, executed>>

Leg == [quantity : Quantities, price : Prices]
Sent == <<"LEG1_SENT", "LEG2_SENT", "LEG3_SENT">>
TradeState == {"INIT", "LEG1_SENT", "LEG2_SENT", "LEG3_SENT", "COMPLETE", "ERROR"}

\* The points between the statements of execute().
Points == [at : {"idle", "complete", "catch"}, leg : {0}]
            \cup [at : {"store", "send"}, leg : 1..3]
At(p, k) == [at |-> p, leg |-> k]

TypeOK ==
  /\ legs \in [1..3 -> Leg]
  /\ state \in TradeState
  /\ pc \in Points
  /\ executed \in Seq(1..3)

Init ==
  /\ legs = [k \in 1..3 |-> [quantity |-> 0, price |-> 0]]
  /\ state = "INIT"
  /\ pc = At("idle", 0)
  /\ executed = <<>>

-----------------------------------------------------------------------------
\* setLegs, before the first execution.
SetLegs(newLegs) ==
  /\ state = "INIT" /\ pc = At("idle", 0)
  /\ legs' = newLegs
  /\ UNCHANGED <<state, pc, executed>>

\* The parameter check of sendLeg.
Invalid(leg) == leg.quantity <= 0 \/ leg.price <= 0

\* execute() begins with updateState(LEG1_SENT).
Begin ==
  /\ pc = At("idle", 0)
  /\ state' = Sent[1]
  /\ pc' = At("send", 1)
  /\ executed' = <<>>
  /\ UNCHANGED legs

\* updateState(LEG2_SENT) and updateState(LEG3_SENT).
StoreSent(k) ==
  /\ pc = At("store", k)
  /\ state' = Sent[k]
  /\ pc' = At("send", k)
  /\ UNCHANGED <<legs, executed>>

AfterLeg(k) == IF k = 3 THEN At("complete", 0) ELSE At("store", k + 1)

\* Mutant of SendLeg: the leg goes out before its parameters are checked.
SendThenCheck(k) ==
  /\ pc = At("send", k)
  /\ executed' = Append(executed, k)
  /\ pc' = IF Invalid(legs[k]) THEN At("catch", 0) ELSE AfterLeg(k)
  /\ UNCHANGED <<legs, state>>

\* Mutant of SendLeg: an invalid leg is skipped instead of throwing.
SkipInvalidLeg(k) ==
  /\ pc = At("send", k)
  /\ executed' = IF Invalid(legs[k]) THEN executed ELSE Append(executed, k)
  /\ pc' = AfterLeg(k)
  /\ UNCHANGED <<legs, state>>

\* sendLeg(legs_[k]) throws or executes the leg.
SendLeg(k) ==
  /\ pc = At("send", k)
  /\ \/ /\ Invalid(legs[k])
        /\ pc' = At("catch", 0)
        /\ UNCHANGED executed
     \/ /\ ~Invalid(legs[k])
        /\ executed' = Append(executed, k)
        /\ pc' = AfterLeg(k)
  /\ UNCHANGED <<legs, state>>

StoreComplete ==
  /\ pc = At("complete", 0)
  /\ state' = "COMPLETE"
  /\ pc' = At("idle", 0)
  /\ UNCHANGED <<legs, executed>>

\* Mutant of StoreError: the handler rolls the state back.
StoreInit ==
  /\ pc = At("catch", 0)
  /\ state' = "INIT"
  /\ pc' = At("idle", 0)
  /\ UNCHANGED <<legs, executed>>

\* The catch clauses.  Legs already sent are not unwound.
StoreError ==
  /\ pc = At("catch", 0)
  /\ state' = "ERROR"
  /\ pc' = At("idle", 0)
  /\ UNCHANGED <<legs, executed>>

Step ==
  \/ \E k \in 1..3 : StoreSent(k) \/ SendLeg(k)
  \/ StoreComplete
  \/ StoreError

Next ==
  \/ \E newLegs \in [1..3 -> Leg] : SetLegs(newLegs)
  \/ Begin
  \/ Step

Spec == Init /\ [][Next]_vars

-----------------------------------------------------------------------------
Executed(n) == [k \in 1..n |-> k]

\* The inductive invariant: what is stored and what has been sent at each point
\* of execute().
ValidBefore(k) == \A j \in 1..(k - 1) : ~Invalid(legs[j])
PointInv ==
  /\ pc.at = "send" =>
       state = Sent[pc.leg] /\ executed = Executed(pc.leg - 1) /\ ValidBefore(pc.leg)
  /\ pc.at = "store" =>
       /\ pc.leg > 1 /\ state = Sent[pc.leg - 1]
       /\ executed = Executed(pc.leg - 1) /\ ValidBefore(pc.leg)
  /\ pc.at = "complete" =>
       state = Sent[3] /\ executed = Executed(3) /\ ValidBefore(4)
  /\ pc.at = "catch" =>
       \E k \in 1..3 :
         /\ Invalid(legs[k]) /\ ValidBefore(k)
         /\ state = Sent[k] /\ executed = Executed(k - 1)
  /\ pc.at = "idle" => state \in {"INIT", "COMPLETE", "ERROR"}

\* What a monitor may conclude from LEGk_SENT: legs 1 to k-1 are out, leg k may
\* be, and no later one is.
SentBoundsExposure ==
  \A k \in 1..3 : state = Sent[k] => executed \in {Executed(k - 1), Executed(k)}

\* COMPLETE means that all three legs went out, each once and in order.
CompleteMeansHedged ==
  state = "COMPLETE" => executed = Executed(3) /\ ValidBefore(4)

\* ERROR means that the legs before the first invalid one are out and nothing
\* else: the position is exactly the prefix, which the code does not unwind.
ErrorMeansPrefix ==
  state = "ERROR" =>
    \E k \in 1..3 :
      Invalid(legs[k]) /\ ValidBefore(k) /\ executed = Executed(k - 1)

\* Between two reads a monitor sees the trade go forward, or an ended trade
\* start again; never a sent leg taken back.
Rank(s) ==
  CASE s = "INIT" -> 0
    [] s = "LEG1_SENT" -> 1
    [] s = "LEG2_SENT" -> 2
    [] s = "LEG3_SENT" -> 3
    [] s \in {"COMPLETE", "ERROR"} -> 4
MonitorSeesProgress ==
  [][\/ Rank(state') > Rank(state)
     \/ state \in {"COMPLETE", "ERROR"} /\ state' = "LEG1_SENT"]_state
=============================================================================
