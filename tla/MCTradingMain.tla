--------------------------- MODULE MCTradingMain ----------------------------
(* TradingMain for TLC: leg parameters of every sign, up to four ticks. *)
EXTENDS TradingMain

LegPrices == {-1, 0, 1}
Ticks == {[eurUsd |-> 0, gbpUsd |-> 1, eurGbp |-> 0],
          [eurUsd |-> 2, gbpUsd |-> 1, eurGbp |-> 1],
          [eurUsd |-> 3, gbpUsd |-> 2, eurGbp |-> 3]}
UpToFourTicks == UNION {[1..n -> Ticks] : n \in 0..4}
=============================================================================
