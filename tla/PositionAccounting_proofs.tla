--------------------- MODULE PositionAccounting_proofs ----------------------
(***************************************************************************)
(* Theorems about PositionAccounting, for every set of quantities and      *)
(* prices, whether their averages divide exactly or not, and any number of *)
(* fills.                                                                  *)
(***************************************************************************)
EXTENDS PositionAccounting, TLAPS

AccountingInv == TypeOK /\ BooksAgreeUntilReduced

-----------------------------------------------------------------------------
(* Arithmetic *)

\* Two numbers other than zero have a product of their signs.
LEMMA SignOfProduct ==
  ASSUME NEW a \in Int, NEW b \in Int
  PROVE  /\ a * b > 0 <=> (a > 0 /\ b > 0) \/ (a < 0 /\ b < 0)
         /\ a * b < 0 <=> (a > 0 /\ b < 0) \/ (a < 0 /\ b > 0)
  OBVIOUS

\* A product divided by a factor is the other factor.
LEMMA DivisionUndoes ==
  ASSUME NEW a \in Int, NEW b \in Int, b > 0
  PROVE  (a * b) \div b = a
  OBVIOUS

\* The quotient of integers is one.
LEMMA DivIsInt ==
  ASSUME NEW a \in Int, NEW b \in Int, b # 0
  PROVE  Div(a, b) \in Int
<1>1. -a \in Int /\ -b \in Int
  OBVIOUS
<1>2. b < 0 => -b > 0
  OBVIOUS
<1>3. \A x, y \in Int : y > 0 => x \div y \in Int
  OBVIOUS
<1> QED
  BY <1>1, <1>2, <1>3 DEF Div

\* The first fill's average is its price, on both sides.
LEMMA PriceOfFirstFill ==
  ASSUME NEW price \in Int, NEW quantity \in Int, quantity # 0
  PROVE  Div(price * quantity, quantity) = price
<1>1. CASE quantity > 0
  BY <1>1, DivisionUndoes DEF Div
<1>2. CASE quantity < 0
  <2>1. -(price * quantity) = price * (-quantity) /\ -quantity \in Int /\ -quantity > 0
    BY <1>2
  <2>2. (price * (-quantity)) \div (-quantity) = price
    BY <2>1, DivisionUndoes
  <2> QED
    BY <1>2, <2>1, <2>2 DEF Div
<1> QED
  BY <1>1, <1>2

\* Scaled in one direction, a position has one weighted average, with signed
\* quantities as the core has it and with absolute ones as the simulator has.
LEMMA OneWeightedAverage ==
  ASSUME NEW qty \in Int, NEW quantity \in Int, NEW avg \in Int, NEW price \in Int,
         qty * quantity > 0
  PROVE  /\ qty + quantity # 0
         /\ Div(avg * qty + price * quantity, qty + quantity)
              = (avg * Abs(qty) + price * Abs(quantity)) \div Abs(qty + quantity)
<1>1. (qty > 0 /\ quantity > 0) \/ (qty < 0 /\ quantity < 0)
  BY SignOfProduct
<1>2. CASE qty > 0 /\ quantity > 0
  BY <1>2 DEF Div, Abs
<1>3. CASE qty < 0 /\ quantity < 0
  <2>1. -(avg * qty + price * quantity) = avg * (-qty) + price * (-quantity)
    OBVIOUS
  <2>2. qty + quantity < 0
    BY <1>3
  <2> QED
    BY <1>3, <2>1, <2>2 DEF Div, Abs
<1> QED
  BY <1>1, <1>2, <1>3

-----------------------------------------------------------------------------
(* The inductive invariant *)

LEMMA AccountingInit == Init => AccountingInv
<1> SUFFICES ASSUME Init PROVE AccountingInv
  OBVIOUS
<1>1. /\ book \in [netQuantity : Int, avgPrice : Int]
      /\ sim \in [qty : Int, avg_price : Int, realized_pnl : Int]
      /\ reader \in [at : {"start", "half", "done"}, qty : Int, avg : Int, filled : BOOLEAN]
  BY DEF Init
<1>2. fills \in 0..MaxFills
  BY AccountingAssumption DEF Init
<1>3. cost \in Int /\ profit \in Int
  BY DEF Init
<1>5. mixed \in BOOLEAN /\ everMixed \in BOOLEAN
  BY DEF Init
<1>4. BooksAgreeUntilReduced
  BY DEF Init, BooksAgreeUntilReduced
<1> QED
  BY <1>1, <1>2, <1>3, <1>4, <1>5 DEF AccountingInv, TypeOK

\* A fill in two books that agree: the types are kept, and so is the agreement
\* unless the fill goes against the position and leaves one open.
LEMMA FillOfBoth ==
  ASSUME NEW p \in [netQuantity : Int, avgPrice : Int],
         NEW s \in [qty : Int, avg_price : Int, realized_pnl : Int],
         p.netQuantity = s.qty,
         NEW quantity \in Int \ {0}, NEW price \in Nat
  PROVE  /\ Update(p, quantity, price) \in [netQuantity : Int, avgPrice : Int]
         /\ UpdateOnFill(s, quantity, price)
              \in [qty : Int, avg_price : Int, realized_pnl : Int]
         /\ Update(p, quantity, price).netQuantity = s.qty + quantity
         /\ UpdateOnFill(s, quantity, price).qty = s.qty + quantity
         /\ /\ s.qty + quantity # 0
            /\ s.qty = 0 \/ (s.qty * quantity > 0 /\ p.avgPrice = s.avg_price)
            => Update(p, quantity, price).avgPrice
                 = UpdateOnFill(s, quantity, price).avg_price
<1> DEFINE qty == s.qty
           newQty == qty + quantity
           bookAvg == IF newQty # 0 THEN Div(p.avgPrice * qty + price * quantity, newQty) ELSE 0
           simAvg == AveragePrice(s, quantity, price)
           pnl == s.realized_pnl + Realized(s, simAvg, price, newQty)
<1>1. /\ qty \in Int /\ newQty \in Int /\ p.avgPrice \in Int /\ s.avg_price \in Int
      /\ s.realized_pnl \in Int
  OBVIOUS
<1>2. Update(p, quantity, price) = [netQuantity |-> newQty, avgPrice |-> bookAvg]
  BY DEF Update
<1>3. UpdateOnFill(s, quantity, price)
        = [qty |-> newQty, avg_price |-> simAvg, realized_pnl |-> pnl]
  BY DEF UpdateOnFill
<1>4. bookAvg \in Int
  <2>1. p.avgPrice * qty + price * quantity \in Int
    BY <1>1
  <2> QED
    BY <1>1, <2>1, DivIsInt
<1>5. simAvg \in Int
  <2>1. CASE qty * quantity > 0
    <3>1. /\ Abs(newQty) \in Int /\ Abs(newQty) > 0
          /\ Abs(qty) \in Int /\ Abs(quantity) \in Int
      <4>1. newQty # 0
        BY <1>1, <2>1, OneWeightedAverage
      <4> QED
        BY <1>1, <4>1 DEF Abs
    <3>2. s.avg_price * Abs(qty) + price * Abs(quantity) \in Int
      BY <1>1, <3>1
    <3>3. (s.avg_price * Abs(qty) + price * Abs(quantity)) \div Abs(newQty) \in Int
      <4>1. \A x, y \in Int : y > 0 => x \div y \in Int
        OBVIOUS
      <4> QED
        BY <3>1, <3>2, <4>1
    <3> QED
      BY <1>1, <3>3 DEF AveragePrice
  <2>2. CASE ~(qty * quantity > 0)
    BY <1>1, <2>2 DEF AveragePrice
  <2> QED
    BY <2>1, <2>2
<1>6. pnl \in Int
  <2>1. (price - simAvg) * (-qty) \in Int
    BY <1>1, <1>5
  <2> HIDE DEF simAvg, newQty
  <2> QED
    BY <1>1, <2>1 DEF Realized
<1>7. ASSUME newQty # 0, qty = 0 PROVE bookAvg = simAvg
  <2>1. newQty = quantity /\ p.avgPrice * qty + price * quantity = price * quantity
    BY <1>1, <1>7
  <2>2. Div(price * quantity, quantity) = price
    BY PriceOfFirstFill
  <2> QED
    BY <1>7, <2>1, <2>2 DEF AveragePrice
<1>8. ASSUME qty * quantity > 0, p.avgPrice = s.avg_price PROVE bookAvg = simAvg
  <2>1. qty # 0
    BY <1>1, <1>8
  <2>2. simAvg = (s.avg_price * Abs(qty) + price * Abs(quantity)) \div Abs(newQty)
    BY <1>8, <2>1 DEF AveragePrice
  <2>3. bookAvg = Div(s.avg_price * qty + price * quantity, newQty)
    BY <1>1, <1>8, OneWeightedAverage
  <2>4. Div(s.avg_price * qty + price * quantity, newQty)
          = (s.avg_price * Abs(qty) + price * Abs(quantity)) \div Abs(newQty)
    <3>1. quantity \in Int /\ price \in Int
      OBVIOUS
    <3> QED
      BY <1>1, <1>8, <3>1, OneWeightedAverage, Zenon
  <2> QED
    BY <2>2, <2>3, <2>4, Zenon
<1> HIDE DEF newQty, bookAvg, simAvg, pnl
<1>9. newQty # 0 /\ (qty = 0 \/ (qty * quantity > 0 /\ p.avgPrice = s.avg_price))
      => bookAvg = simAvg
  BY <1>7, <1>8
<1>10. newQty = s.qty + quantity
  BY DEF newQty
<1> QED
  BY <1>1, <1>2, <1>3, <1>4, <1>5, <1>6, <1>9, <1>10

LEMMA FillStep ==
  ASSUME AccountingInv, NEW quantity \in Quantities, NEW price \in Prices,
         Fill(quantity, price)
  PROVE  AccountingInv'
<1> USE DEF AccountingInv
<1> DEFINE qty == book.netQuantity
           against == qty * quantity < 0 /\ qty + quantity # 0
<1>1. quantity \in Int \ {0} /\ price \in Nat /\ MaxFills \in Nat
  BY AccountingAssumption
<1>2. /\ book \in [netQuantity : Int, avgPrice : Int]
      /\ sim \in [qty : Int, avg_price : Int, realized_pnl : Int]
      /\ qty = sim.qty /\ qty \in Int
      /\ qty # 0 /\ ~mixed => book.avgPrice = sim.avg_price
  BY DEF TypeOK, BooksAgreeUntilReduced
<1>3. /\ book' = Update(book, quantity, price) /\ sim' = UpdateOnFill(sim, quantity, price)
      /\ fills < MaxFills /\ fills' = fills + 1
      /\ reader' = [reader EXCEPT !.filled = reader.at # "start"]
      /\ everMixed' = (everMixed \/ against)
  BY DEF Fill
<1>4. /\ qty + quantity # 0 => mixed' = (mixed \/ against)
      /\ mixed' \in BOOLEAN
  BY DEF Fill, TypeOK
<1>5. cost' \in Int /\ profit' \in Int
  <2>1. cost \in Int /\ profit \in Int /\ price * quantity \in Int
    BY <1>1 DEF TypeOK
  <2>2. /\ cost' = 0 \/ cost' = cost + price * quantity
        /\ profit' = profit \/ profit' = profit - (cost + price * quantity)
    BY DEF Fill
  <2> QED
    BY <2>1, <2>2
<1>6. /\ book' \in [netQuantity : Int, avgPrice : Int]
      /\ sim' \in [qty : Int, avg_price : Int, realized_pnl : Int]
      /\ book'.netQuantity = qty + quantity /\ sim'.qty = qty + quantity
      /\ /\ qty + quantity # 0
         /\ qty = 0 \/ (qty * quantity > 0 /\ book.avgPrice = sim.avg_price)
         => book'.avgPrice = sim'.avg_price
  BY <1>1, <1>2, <1>3, FillOfBoth
<1>7. TypeOK'
  <2>1. fills' \in 0..MaxFills
    BY <1>1, <1>3 DEF TypeOK
  <2>2. reader' \in [at : {"start", "half", "done"}, qty : Int, avg : Int, filled : BOOLEAN]
    BY <1>3 DEF TypeOK
  <2>3. everMixed' \in BOOLEAN
    BY <1>3 DEF TypeOK
  <2> QED
    BY <1>4, <1>5, <1>6, <2>1, <2>2, <2>3 DEF TypeOK
<1>8. ASSUME book'.netQuantity # 0, ~mixed' PROVE book'.avgPrice = sim'.avg_price
  <2>1. qty + quantity # 0
    BY <1>6, <1>8
  <2>2. ~mixed /\ ~(qty * quantity < 0)
    BY <1>4, <1>8, <2>1
  <2>3. qty = 0 \/ qty * quantity > 0
    BY <1>1, <1>2, <2>2, SignOfProduct
  <2>4. qty # 0 => book.avgPrice = sim.avg_price
    BY <1>2, <2>2
  <2>5. qty * quantity > 0 => qty # 0
    BY <1>1, <1>2
  <2> HIDE DEF qty
  <2> QED
    BY <1>6, <2>1, <2>3, <2>4, <2>5
<1> QED
  BY <1>6, <1>7, <1>8 DEF BooksAgreeUntilReduced

LEMMA ReadStep ==
  ASSUME AccountingInv, ReadQuantity \/ ReadAverage
  PROVE  AccountingInv'
<1>1. UNCHANGED <<book, sim, fills, historyVars>>
  BY DEF ReadQuantity, ReadAverage
<1>2. reader' \in [at : {"start", "half", "done"}, qty : Int, avg : Int, filled : BOOLEAN]
  BY DEF ReadQuantity, ReadAverage, AccountingInv, TypeOK
<1> QED
  BY <1>1, <1>2 DEF AccountingInv, TypeOK, BooksAgreeUntilReduced, historyVars

\* The two accounts keep their types and agree.
THEOREM AccountingInvariance == Spec => []AccountingInv
<1>1. AccountingInv /\ [Next]_vars => AccountingInv'
  <2> SUFFICES ASSUME AccountingInv, [Next]_vars PROVE AccountingInv'
    OBVIOUS
  <2>1. CASE UNCHANGED vars
    BY <2>1 DEF vars, historyVars, AccountingInv, TypeOK, BooksAgreeUntilReduced
  <2> QED
    BY <2>1, FillStep, ReadStep DEF Next, Done
<1> QED
  BY AccountingInit, <1>1, PTL DEF Spec

\* The trading core's Position and the simulator's agree on the quantity of every
\* position, and on the average of one that no fill has reduced or turned,
\* also where the averages are rounded.
THEOREM BooksAgree == Spec => []BooksAgreeUntilReduced
<1>1. AccountingInv => BooksAgreeUntilReduced
  BY DEF AccountingInv
<1> QED
  BY <1>1, AccountingInvariance, PTL

-----------------------------------------------------------------------------
(* Where the averages are exact *)

\* The average that a fill leaves loses nothing of the cost.  It is a hypothesis
\* of what follows: integers, like doubles, divide exactly or round.
DividesExactly(quantity, price) ==
  LET newQty == book.netQuantity + quantity
      totalCost == book.avgPrice * book.netQuantity + price * quantity
  IN newQty # 0 => Div(totalCost, newQty) * newQty = totalCost

ExactFills ==
  \A quantity \in Quantities, price \in Prices :
    Fill(quantity, price) => DividesExactly(quantity, price)

\* Quantity times average is what was paid for the position.
CostInv == book.netQuantity * book.avgPrice = cost

\* The reader's numbers are those of the book while no fill has come between.
PairInv ==
  ~reader.filled =>
    /\ reader.at # "start" => reader.qty = book.netQuantity
    /\ reader.at = "done" => reader.avg = book.avgPrice

\* Nothing was reduced in the open position that was not reduced ever.
MixedInv == mixed => everMixed

ExactInv == AccountingInv /\ CostInv /\ PairInv /\ MixedInv /\ RealizedNegatesProfit

LEMMA ExactInit == Init => ExactInv
<1> SUFFICES ASSUME Init PROVE ExactInv
  OBVIOUS
<1>1. CostInv
  BY DEF Init, CostInv
<1>2. PairInv
  BY DEF Init, PairInv
<1>3. MixedInv
  BY DEF Init, MixedInv
<1>4. RealizedNegatesProfit
  <2>1. sim.realized_pnl \in Int /\ profit \in Int /\ sim.realized_pnl + profit = 0
    BY DEF Init
  <2>2. \A m, n \in Int : m + n = 0 => m = -n
    OBVIOUS
  <2>3. sim.realized_pnl = -profit
    BY <2>1, <2>2, Zenon
  <2> QED
    BY <2>3, Zenon DEF RealizedNegatesProfit
<1> QED
  BY AccountingInit, <1>1, <1>2, <1>3, <1>4 DEF ExactInv

\* A fill that divides exactly adds what it pays to the cost of the position.
LEMMA CostStep ==
  ASSUME ExactInv, NEW quantity \in Quantities, NEW price \in Prices,
         Fill(quantity, price), DividesExactly(quantity, price)
  PROVE  CostInv'
<1> DEFINE qty == book.netQuantity
           newQty == qty + quantity
           total == book.avgPrice * qty + price * quantity
<1>1. /\ qty \in Int /\ newQty \in Int /\ book.avgPrice \in Int /\ total \in Int
      /\ cost \in Int /\ quantity \in Int /\ price \in Int
  <2>1. book.netQuantity \in Int /\ book.avgPrice \in Int /\ cost \in Int
    BY DEF ExactInv, AccountingInv, TypeOK
  <2>2. quantity \in Int /\ price \in Int
    BY AccountingAssumption
  <2> QED
    BY <2>1, <2>2
<1>2. /\ book'.netQuantity = newQty
      /\ book'.avgPrice = IF newQty # 0 THEN Div(total, newQty) ELSE 0
  BY DEF Fill, Update
<1>3. total = cost + price * quantity
  BY <1>1 DEF ExactInv, CostInv
<1>4. cost' = IF newQty = 0 THEN 0 ELSE cost + price * quantity
  BY DEF Fill
<1>5. newQty # 0 => Div(total, newQty) * newQty = total
  BY DEF DividesExactly
<1>6. CASE newQty = 0
  <2>1. book'.netQuantity = 0 /\ book'.avgPrice = 0 /\ cost' = 0
    BY <1>2, <1>4, <1>6
  <2> QED
    BY <2>1 DEF CostInv
<1>7. CASE newQty # 0
  <2>1. Div(total, newQty) \in Int
    BY <1>1, <1>7, DivIsInt
  <2>2. book'.netQuantity = newQty /\ book'.avgPrice = Div(total, newQty) /\ cost' = total
    BY <1>2, <1>3, <1>4, <1>7
  <2> HIDE DEF newQty, total
  <2>3. newQty * Div(total, newQty) = Div(total, newQty) * newQty
    BY <1>1, <2>1
  <2> QED
    BY <1>5, <1>7, <2>2, <2>3 DEF CostInv
<1> QED
  BY <1>6, <1>7

\* A fill that closes a position never reduced before books its profit with the
\* sign reversed; one that opens or scales it books none.
LEMMA ProfitStep ==
  ASSUME ExactInv, NEW quantity \in Quantities, NEW price \in Prices,
         Fill(quantity, price)
  PROVE  RealizedNegatesProfit'
<1> DEFINE qty == sim.qty
           newQty == qty + quantity
           avg == sim.avg_price
           pnl == sim.realized_pnl
<1> SUFFICES ASSUME ~everMixed' PROVE sim'.realized_pnl = -profit'
  BY DEF RealizedNegatesProfit
<1>1. /\ qty \in Int /\ newQty \in Int /\ avg \in Int /\ pnl \in Int
      /\ cost \in Int /\ profit \in Int
      /\ quantity \in Int /\ quantity # 0 /\ price \in Int
  <2>1. /\ sim \in [qty : Int, avg_price : Int, realized_pnl : Int]
        /\ cost \in Int /\ profit \in Int
    BY DEF ExactInv, AccountingInv, TypeOK
  <2>2. quantity \in Int /\ quantity # 0 /\ price \in Int
    BY AccountingAssumption
  <2> QED
    BY <2>1, <2>2
<1>2. book.netQuantity = qty
  BY DEF ExactInv, AccountingInv, BooksAgreeUntilReduced
<1>3. ~everMixed /\ ~(qty * quantity < 0 /\ newQty # 0)
  BY <1>2 DEF Fill
<1>4. pnl = -profit
  BY <1>3 DEF ExactInv, RealizedNegatesProfit
<1>5. sim'.realized_pnl = pnl + Realized(sim, AveragePrice(sim, quantity, price), price, newQty)
  BY DEF Fill, UpdateOnFill
<1>6. CASE newQty = 0
  <2>1. qty # 0 /\ qty = -quantity
    BY <1>1, <1>6
  <2>2. ~(qty * quantity > 0)
    BY <1>1, <2>1, SignOfProduct
  <2>3. AveragePrice(sim, quantity, price) = avg
    BY <2>1, <2>2 DEF AveragePrice
  <2>4. sim'.realized_pnl = pnl + (price - avg) * (-qty)
    BY <1>5, <1>6, <2>3 DEF Realized
  <2>5. qty * avg = cost
    <3>1. ~mixed
      BY <1>3 DEF ExactInv, MixedInv
    <3>2. book.avgPrice = avg
      BY <1>2, <2>1, <3>1 DEF ExactInv, AccountingInv, BooksAgreeUntilReduced
    <3>3. book.netQuantity * book.avgPrice = cost
      BY DEF ExactInv, CostInv
    <3> QED
      BY <1>2, <3>2, <3>3
  <2>6. profit' = profit - (cost + price * quantity)
    BY <1>2, <1>6 DEF Fill
  <2>7. (price - avg) * (-qty) = qty * avg + price * quantity
    <3>1. (price - avg) * (-qty) = qty * avg + price * (-qty)
      BY <1>1
    <3> QED
      BY <1>1, <2>1, <3>1
  <2>8. price * quantity \in Int /\ qty * avg \in Int
    BY <1>1
  <2> HIDE DEF qty, avg, pnl, newQty
  <2> QED
    BY <1>1, <1>4, <2>4, <2>5, <2>6, <2>7, <2>8
<1>7. CASE newQty # 0
  <2>1. ~(qty * newQty < 0)
    <3>1. ~(qty * quantity < 0)
      BY <1>3, <1>7
    <3>2. ~(qty > 0 /\ quantity < 0) /\ ~(qty < 0 /\ quantity > 0)
      BY <1>1, <3>1, SignOfProduct
    <3>3. ~(qty > 0 /\ newQty < 0) /\ ~(qty < 0 /\ newQty > 0)
      BY <1>1, <3>2
    <3> QED
      BY <1>1, <3>3, SignOfProduct
  <2>2. Realized(sim, AveragePrice(sim, quantity, price), price, newQty) = 0
    BY <1>7, <2>1 DEF Realized
  <2>3. profit' = profit
    BY <1>2, <1>7 DEF Fill
  <2> HIDE DEF qty, avg, pnl, newQty
  <2> QED
    BY <1>1, <1>4, <1>5, <2>2, <2>3
<1> QED
  BY <1>6, <1>7

LEMMA ExactFillStep ==
  ASSUME ExactInv, NEW quantity \in Quantities, NEW price \in Prices,
         Fill(quantity, price), DividesExactly(quantity, price)
  PROVE  ExactInv'
<1>1. AccountingInv'
  BY FillStep DEF ExactInv
<1>2. PairInv'
  <2>1. reader' = [reader EXCEPT !.filled = reader.at # "start"]
    BY DEF Fill
  <2>2. reader \in [at : {"start", "half", "done"}, qty : Int, avg : Int, filled : BOOLEAN]
    BY DEF ExactInv, AccountingInv, TypeOK
  <2>3. reader'.at = reader.at /\ (reader'.filled <=> reader.at # "start")
    BY <2>1, <2>2
  <2> QED
    BY <2>3 DEF PairInv
<1>3. MixedInv'
  <2> DEFINE against == /\ book.netQuantity * quantity < 0
                        /\ book.netQuantity + quantity # 0
  <2>1. /\ mixed' = FALSE \/ mixed' = (mixed \/ against)
        /\ everMixed' = (everMixed \/ against)
    BY DEF Fill
  <2>2. mixed => everMixed
    BY DEF ExactInv, MixedInv
  <2> HIDE DEF against
  <2> QED
    BY <2>1, <2>2 DEF MixedInv
<1> QED
  BY <1>1, <1>2, <1>3, CostStep, ProfitStep DEF ExactInv

LEMMA ExactReadStep ==
  ASSUME ExactInv, ReadQuantity \/ ReadAverage
  PROVE  ExactInv'
<1>1. AccountingInv'
  BY ReadStep DEF ExactInv
<1>2. UNCHANGED <<book, sim, cost, profit, mixed, everMixed>>
  BY DEF ReadQuantity, ReadAverage, historyVars
<1>3. PairInv'
  <2>1. reader \in [at : {"start", "half", "done"}, qty : Int, avg : Int, filled : BOOLEAN]
    BY DEF ExactInv, AccountingInv, TypeOK
  <2> QED
    BY <1>2, <2>1 DEF ReadQuantity, ReadAverage, ExactInv, PairInv
<1>4. CostInv' /\ MixedInv' /\ RealizedNegatesProfit'
  BY <1>2 DEF ExactInv, CostInv, MixedInv, RealizedNegatesProfit
<1> QED
  BY <1>1, <1>3, <1>4 DEF ExactInv

\* As long as no average is rounded, both accounts carry the net cost exactly.
THEOREM ExactInvariance == Spec /\ [][ExactFills]_vars => []ExactInv
<1>1. ExactInv /\ [Next]_vars /\ [ExactFills]_vars => ExactInv'
  <2> SUFFICES ASSUME ExactInv, [Next]_vars, [ExactFills]_vars PROVE ExactInv'
    OBVIOUS
  <2>1. CASE UNCHANGED vars
    BY <2>1 DEF vars, historyVars, ExactInv, AccountingInv, TypeOK, BooksAgreeUntilReduced,
       CostInv, PairInv, MixedInv, RealizedNegatesProfit
  <2>2. ASSUME NEW quantity \in Quantities, NEW price \in Prices, Fill(quantity, price),
               ~(UNCHANGED vars)
        PROVE  ExactInv'
    <3>1. DividesExactly(quantity, price)
      BY <2>2 DEF ExactFills
    <3> QED
      BY <2>2, <3>1, ExactFillStep
  <2> QED
    BY <2>1, <2>2, ExactReadStep DEF Next, Done
<1> QED
  BY ExactInit, <1>1, PTL DEF Spec

\* A reader of Position whose two calls no fill separates has, as their product,
\* the net cash the position cost, as long as no average is rounded.
THEOREM NetCostIsRead == Spec /\ [][ExactFills]_vars => []ValueReadIsNetCost
<1>1. ExactInv => ValueReadIsNetCost
  BY DEF ExactInv, CostInv, PairInv, ValueReadIsNetCost
<1> QED
  BY <1>1, ExactInvariance, PTL

\* The simulator's realized_pnl is the profit with its sign reversed as long as
\* every position is closed as a whole and no average is rounded.
THEOREM ProfitIsNegated == Spec /\ [][ExactFills]_vars => []RealizedNegatesProfit
<1>1. ExactInv => RealizedNegatesProfit
  BY DEF ExactInv
<1> QED
  BY <1>1, ExactInvariance, PTL
=============================================================================
