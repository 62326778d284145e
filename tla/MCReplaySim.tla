---------------------------- MODULE MCReplaySim ----------------------------
(* Two records, each complete, or without a side, or without a timestamp or *)
(* bids; the two scenarios of InternalSimulator.py:427-444, which move one  *)
(* side in place, and one that works on a copy; two runs.                   *)
EXTENDS ReplaySim

CONSTANTS liquidity_shock, adjust_for_high_asks, copy,   \* functions
          high_ask_trigger                               \* a trigger

Rec(time, bid, ask) == [timestamp |-> time, bids |-> bid, asks |-> ask]

FirstRecords == {Rec(1, 1, 2), Rec(Missing, 1, 2), Rec(1, Missing, 2), Rec(Null, 1, 2)}
SecondRecords == {Rec(2, 3, 4), Rec(Missing, 3, 4), Rec(2, 3, Missing), Rec(2, Null, 4), Rec(2, 3, Null)}
Data == {<<r, s>> : r \in FirstRecords, s \in SecondRecords}

\* [price * 0.98 for price in data.get(side, [])], in whole prices
Lower(value) ==
  IF value = Missing THEN NoLevels ELSE IF value \in Prices \ {1} THEN value - 1 ELSE value

Lowered(record, side) == [record EXCEPT ![side] = Lower(@)]
InPlace(record, side) ==
  IF record[side] = Null THEN [argument |-> record, returns |-> "raises", other |-> record]
  ELSE [argument |-> Lowered(record, side), returns |-> "argument", other |-> record]
Copied(record, side) == [argument |-> record, returns |-> "other", other |-> Lowered(record, side)]

Repository == {liquidity_shock, adjust_for_high_asks, copy}
Effects ==
  [f \in Repository |-> [record \in Record |->
     CASE f = liquidity_shock -> InPlace(record, "bids")
       [] f = adjust_for_high_asks -> InPlace(record, "asks")
       [] f = copy -> Copied(record, "asks")]]

\* high_ask_trigger: any(ask > threshold for ask in data.get("asks", []))
HighAsk == {high_ask_trigger}
Firings ==
  [t \in HighAsk |-> [record \in Record |->
     IF record.asks = Null THEN "raises"
     ELSE IF record.asks \in Prices /\ record.asks > 3 THEN "yes" ELSE "no"]]
=============================================================================
