---------------------------- MODULE MCSimulator -----------------------------
(* Simulator for TLC: two symbols, one malformed order, one malformed tick. *)
EXTENDS Simulator

CONSTANTS A, B

Kinds == {[symbol |-> A, side |-> "buy", qty |-> 1, limit |-> 1],
          [symbol |-> A, side |-> "sell", qty |-> 2, limit |-> 1],
          [symbol |-> A, side |-> "sell", qty |-> BadQty, limit |-> 1],
          [symbol |-> B, side |-> "buy", qty |-> 1, limit |-> 2]}
Ticks == {[symbol |-> A, price |-> 1], [symbol |-> A, price |-> 2],
          [symbol |-> A, price |-> BadPrice]}
=============================================================================
