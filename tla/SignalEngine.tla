--------------------------- MODULE SignalEngine ----------------------------
(***************************************************************************)
(* SignalEngine, src/signal/SignalEngine.cpp: run asks every generator for *)
(* a signal and takes a vote, while updateRegime, called by another        *)
(* thread, gives the generators their parameters one by one.  No lock is   *)
(* taken.  Generators are external: what each of them answers depends on   *)
(* the parameters it has.                                                  *)
(***************************************************************************)
EXTENDS Naturals, Sequences, FiniteSets, SequencesExt

CONSTANTS
  Regimes,
  MaxGenerators, MaxRuns, MaxUpdates    \* bounds of the model

Directions == {"LONG", "SHORT", "HOLD", "NONE"}   \* NONE: any other value

ASSUME SignalAssumption ==
  /\ Regimes # {}
  /\ MaxGenerators \in Nat /\ MaxRuns \in Nat /\ MaxUpdates \in Nat

VARIABLES
  parameters,   \* of each generator: the regime it was told last
  signals,      \* raw_signals: [direction, regime]
  running,      \* run is collecting
  result,       \* what run returned last: direction and confidence
  update,       \* updateRegime: its argument, the one before, whom it has told
  runs, updates,
  inForce       \* history: the regimes in force at some time of this run

runVars == <<signals, running, result, runs>>
signalVars == <<parameters, runVars, update, updates, inForce>>

Generators == DOMAIN parameters

SignalTypeOK ==
  /\ \E n \in 0..MaxGenerators : parameters \in [1..n -> Regimes]
  /\ signals \in Seq([direction : Directions, regime : Regimes])
  /\ running \in BOOLEAN /\ inForce \subseteq Regimes
  /\ result \in [direction : Directions, votes : Nat, of : Nat]
  /\ update \in [regime : Regimes, was : Regimes, told : Nat, active : BOOLEAN]
  /\ runs \in 0..MaxRuns /\ updates \in 0..MaxUpdates

\* The engine has any number of generators, all with the same parameters.
SignalInit ==
  \E n \in 0..MaxGenerators, r \in Regimes :
    /\ parameters = [g \in 1..n |-> r]
    /\ update = [regime |-> r, was |-> r, told |-> n, active |-> FALSE]
    /\ signals = <<>> /\ running = FALSE
    /\ result = [direction |-> "HOLD", votes |-> 0, of |-> 0]
    /\ runs = 0 /\ updates = 0 /\ inForce = {r}

-----------------------------------------------------------------------------
Votes(raw, direction) == Cardinality({i \in DOMAIN raw : raw[i].direction = direction})

\* Mutant of Winner: the votes for HOLD are not compared.
WinnerOfTwo(raw) ==
  LET long == Votes(raw, "LONG") short == Votes(raw, "SHORT") IN
  IF long > short THEN "LONG" ELSE IF short > long THEN "SHORT" ELSE "HOLD"

Winner(raw) ==
  LET long == Votes(raw, "LONG") short == Votes(raw, "SHORT")
      hold == Votes(raw, "HOLD") IN
  IF long > short /\ long > hold THEN "LONG"
  ELSE IF short > long /\ short > hold THEN "SHORT" ELSE "HOLD"

\* aggregate.  The confidence is votes / of, which for no signals is 0 / 0.
Aggregate(raw) ==
  [direction |-> Winner(raw),
   votes |-> Max({Votes(raw, d) : d \in {"LONG", "SHORT", "HOLD"}}),
   of |-> Len(raw)]

BeginRun ==
  /\ ~running /\ runs < MaxRuns
  /\ running' = TRUE /\ runs' = runs + 1
  /\ signals' = <<>>
  /\ inForce' = IF update.active THEN {update.was, update.regime} ELSE {update.regime}
  /\ UNCHANGED <<parameters, result, update, updates>>

\* One turn of the loop in run: the next generator answers.
Collect(direction) ==
  LET g == Len(signals) + 1 IN
  /\ running /\ g \in Generators
  /\ signals' = Append(signals, [direction |-> direction, regime |-> parameters[g]])
  /\ UNCHANGED <<parameters, running, result, runs, update, updates, inForce>>

EndRun ==
  /\ running /\ Len(signals) = Len(parameters)
  /\ result' = Aggregate(signals)
  /\ running' = FALSE
  /\ UNCHANGED <<parameters, signals, runs, update, updates, inForce>>

BeginUpdate(regime) ==
  /\ ~update.active /\ updates < MaxUpdates
  /\ update' = [regime |-> regime, was |-> update.regime, told |-> 0, active |-> TRUE]
  /\ updates' = updates + 1
  /\ inForce' = inForce \cup {regime}
  /\ UNCHANGED <<parameters, runVars>>

Tell ==
  /\ update.active /\ update.told < Len(parameters)
  /\ parameters' = [parameters EXCEPT ![update.told + 1] = update.regime]
  /\ update' = [update EXCEPT !.told = @ + 1]
  /\ UNCHANGED <<runVars, updates, inForce>>

\* Mutant of EndUpdate: the last generator is not told.
EndUpdateEarly ==
  /\ update.active /\ update.told + 1 >= Len(parameters)
  /\ update' = [update EXCEPT !.active = FALSE]
  /\ UNCHANGED <<parameters, runVars, updates, inForce>>

EndUpdate ==
  /\ update.active /\ update.told = Len(parameters)
  /\ update' = [update EXCEPT !.active = FALSE]
  /\ UNCHANGED <<parameters, runVars, updates, inForce>>

SignalDone ==
  /\ ~running /\ runs = MaxRuns /\ ~update.active /\ updates = MaxUpdates
  /\ UNCHANGED signalVars

SignalNext ==
  \/ BeginRun
  \/ \E d \in Directions : Collect(d)
  \/ EndRun
  \/ \E r \in Regimes : BeginUpdate(r)
  \/ Tell
  \/ EndUpdate
  \/ SignalDone

SignalSpec == SignalInit /\ [][SignalNext]_signalVars

-----------------------------------------------------------------------------
Finished == ~running /\ runs > 0

\* Every signal of a vote was made with the parameters of a regime that was in
\* force while run collected it: with those of one regime only, unless
\* updateRegime was at work meanwhile, and then with those of its argument or
\* of the one before.  Nothing of an earlier update or an earlier run gets in.
VotesAreCurrent ==
  Finished => \A s \in Range(signals) : s.regime \in inForce

\* The confidence is the share of the generators that voted for the direction
\* returned, except when LONG and SHORT tie ahead of HOLD: then it is that of a
\* camp, but the direction is HOLD.
ConfidenceIsOfTheDirection ==
  Finished =>
    \/ result.votes = Votes(signals, result.direction) /\ result.of = Len(signals)
    \/ /\ result.direction = "HOLD"
       /\ Votes(signals, "LONG") = Votes(signals, "SHORT")
       /\ Votes(signals, "LONG") > Votes(signals, "HOLD")
=============================================================================
