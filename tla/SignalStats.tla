---------------------------- MODULE SignalStats -----------------------------
(***************************************************************************)
(* The SignalEngine of include/core/models/Signal.hpp: the spread of a     *)
(* tick and the z-score of the latest spread, as functions.  Numbers are   *)
(* integers and exact.  With the mean m of n spreads the code returns      *)
(*   (latest - m) / sqrt(sum of (s - m)^2 / n);                            *)
(* here deviations are multiplied by n and the root is not taken, so that  *)
(* the result is a pair whose z is dev * sqrt(n / squares).                *)
(***************************************************************************)
EXTENDS Integers, Sequences, SequencesExt

ComputeSpread(tick) == tick.eurUsd - tick.eurGbp * tick.gbpUsd

SumOf(numbers) == FoldLeft(+, 0, numbers)

\* n times the distance of a spread from the mean of all of them.
Deviation(spreads, s) == Len(spreads) * s - SumOf(spreads)

Squares(spreads) ==
  SumOf([i \in DOMAIN spreads |->
           Deviation(spreads, spreads[i]) * Deviation(spreads, spreads[i])])

Zero == [dev |-> 0, squares |-> 1]

\* Mutant of ComputeAdaptiveZScore: mean and deviation are those of the spreads
\* before the latest one.
ZScoreOfNewcomer(spreads) ==
  LET before == Front(spreads) IN
  IF before = <<>> \/ Squares(before) = 0 THEN Zero
  ELSE [dev |-> Deviation(before, Last(spreads)), squares |-> Squares(before)]

ComputeAdaptiveZScore(spreads) ==
  IF spreads = <<>> \/ Squares(spreads) = 0 THEN Zero
  ELSE [dev |-> Deviation(spreads, Last(spreads)), squares |-> Squares(spreads)]
=============================================================================
