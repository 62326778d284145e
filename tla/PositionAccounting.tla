------------------------ MODULE PositionAccounting -------------------------
(***************************************************************************)
(* The two classes that account for a position, given the same fills:      *)
(* `book` is the trading core's Position, include/core/models/Position.hpp *)
(* and `sim` the simulator's, src/core/simulator/InternalSimulator.py.     *)
(*                                                                         *)
(* Each update of `book` is one action, under its mutex.  Its two getters  *)
(* take the mutex each for itself, so a reader that wants the pair reads   *)
(* it in two steps.                                                        *)
(***************************************************************************)
EXTENDS Integers

CONSTANTS
  Quantities,   \* of a fill, signed: positive for a purchase
  Prices,
  MaxFills      \* bound of the model

ASSUME AccountingAssumption ==
  Quantities \subseteq Int \ {0} /\ Prices \subseteq Nat /\ MaxFills \in Nat

VARIABLES
  book,         \* netQuantity_, avgPrice_
  sim,          \* qty, avg_price, realized_pnl
  reader,       \* the pair a reader has, and whether a fill came between
  fills,
  cost,         \* history: net cash paid since the position was last flat
  profit,       \* history: net cash gained in the positions closed so far
  mixed,        \* history: a fill reduced the open position or turned it
  everMixed     \* history: the same, since the beginning

historyVars == <<cost, profit, mixed, everMixed>>
vars == <<book, sim, reader, fills, historyVars>>

TypeOK ==
  /\ book \in [netQuantity : Int, avgPrice : Int]
  /\ sim \in [qty : Int, avg_price : Int, realized_pnl : Int]
  /\ reader \in [at : {"start", "half", "done"}, qty : Int, avg : Int, filled : BOOLEAN]
  /\ fills \in 0..MaxFills
  /\ cost \in Int /\ profit \in Int /\ mixed \in BOOLEAN /\ everMixed \in BOOLEAN

Init ==
  /\ book = [netQuantity |-> 0, avgPrice |-> 0]
  /\ sim = [qty |-> 0, avg_price |-> 0, realized_pnl |-> 0]
  /\ reader = [at |-> "start", qty |-> 0, avg |-> 0, filled |-> FALSE]
  /\ fills = 0 /\ cost = 0 /\ profit = 0 /\ mixed = FALSE /\ everMixed = FALSE

\* Division of doubles, for the prices of the model an exact one.
Div(a, b) == IF b < 0 THEN (-a) \div (-b) ELSE a \div b

Abs(n) == IF n < 0 THEN -n ELSE n

-----------------------------------------------------------------------------
\* Mutant of Update: a fill against the position leaves its average.
UpdateAtCost(p, quantity, price) ==
  LET newQty == p.netQuantity + quantity IN
  [netQuantity |-> newQty,
   avgPrice |-> IF newQty = 0 THEN 0
                ELSE IF p.netQuantity * quantity < 0 THEN p.avgPrice
                ELSE Div(p.avgPrice * p.netQuantity + price * quantity, newQty)]

\* Position::update
Update(p, quantity, price) ==
  LET newQty == p.netQuantity + quantity
      totalCost == p.avgPrice * p.netQuantity + price * quantity IN
  [netQuantity |-> newQty,
   avgPrice |-> IF newQty # 0 THEN Div(totalCost, newQty) ELSE 0]

\* Mutant of AveragePrice: the first price is kept.
FirstPrice(p, quantity, price) == IF p.qty = 0 THEN price ELSE p.avg_price

\* The price of a fresh position, the weighted average of one that is scaled in
\* the same direction, and no change otherwise.
AveragePrice(p, quantity, price) ==
  IF p.qty = 0 THEN price
  ELSE IF p.qty * quantity > 0
       THEN (p.avg_price * Abs(p.qty) + price * Abs(quantity)) \div Abs(p.qty + quantity)
       ELSE p.avg_price

\* What a fill that closes or turns the position adds to realized_pnl.
Realized(p, avg, price, newQty) ==
  IF p.qty * newQty < 0 \/ newQty = 0 THEN (price - avg) * (-p.qty) ELSE 0

\* Position.update_on_fill
UpdateOnFill(p, quantity, price) ==
  LET newQty == p.qty + quantity
      avg == AveragePrice(p, quantity, price) IN
  [qty |-> newQty, avg_price |-> avg,
   realized_pnl |-> p.realized_pnl + Realized(p, avg, price, newQty)]

Fill(quantity, price) ==
  LET qty == book.netQuantity
      against == qty * quantity < 0 /\ qty + quantity # 0 IN
  /\ fills < MaxFills /\ fills' = fills + 1
  /\ book' = Update(book, quantity, price)
  /\ sim' = UpdateOnFill(sim, quantity, price)
  /\ reader' = [reader EXCEPT !.filled = reader.at # "start"]
  /\ IF qty + quantity = 0
       THEN cost' = 0 /\ profit' = profit - (cost + price * quantity) /\ mixed' = FALSE
       ELSE cost' = cost + price * quantity /\ mixed' = (mixed \/ against)
            /\ UNCHANGED profit
  /\ everMixed' = (everMixed \/ against)

ReadQuantity ==
  /\ reader.at = "start"
  /\ reader' = [reader EXCEPT !.at = "half", !.qty = book.netQuantity]
  /\ UNCHANGED <<book, sim, fills, historyVars>>

ReadAverage ==
  /\ reader.at = "half"
  /\ reader' = [reader EXCEPT !.at = "done", !.avg = book.avgPrice]
  /\ UNCHANGED <<book, sim, fills, historyVars>>

Done == fills = MaxFills /\ reader.at = "done" /\ UNCHANGED vars

Next ==
  \/ \E q \in Quantities, p \in Prices : Fill(q, p)
  \/ ReadQuantity
  \/ ReadAverage
  \/ Done

Spec == Init /\ [][Next]_vars

-----------------------------------------------------------------------------
\* A reader who multiplies the two numbers it got has the net cash that the
\* position cost, however it was built, reduced and turned, unless a fill came
\* between its two calls.
ValueReadIsNetCost ==
  reader.at = "done" /\ ~reader.filled => reader.qty * reader.avg = cost

\* The two classes agree on the quantity always, and on the average price of an
\* open position until a fill reduces or turns it: then the one carries the
\* profit on in the average and the other keeps the entry price.
BooksAgreeUntilReduced ==
  /\ book.netQuantity = sim.qty
  /\ book.netQuantity # 0 /\ ~mixed => book.avgPrice = sim.avg_price

\* InternalSimulator.py:74, "Calculate realized PnL for position closure or
\* reduction": when a position is closed, realized_pnl is the cash gained.
RealizedIsProfit == sim.qty = 0 => sim.realized_pnl = profit

\* What line 76 computes instead, as it multiplies by -qty: as long as positions
\* are closed as a whole, the profit with its sign reversed.
RealizedNegatesProfit == everMixed \/ sim.realized_pnl = -profit
=============================================================================
