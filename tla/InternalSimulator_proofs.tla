----------------------- MODULE InternalSimulator_proofs ----------------------
(***************************************************************************)
(* Theorems about the two simulators of src/core/simulator, which share no *)
(* state: Simulator, for every set of feeds, orders and ticks and every    *)
(* latency; ReplaySim, for every data of uncrossed markets, whatever the   *)
(* scenario functions do, and any number of registrations and runs.        *)
(***************************************************************************)
EXTENDS Simulator, ReplaySim, FiniteSetTheorems, SequenceTheorems, TLAPS

-----------------------------------------------------------------------------
(* Simulator: the inductive invariant *)

\* A feed works on the queue only while it holds order_lock.
LockInv == \A f \in Feeds : pc[f] \in {"scan", "fill"} <=> lock = f

\* The order a feed is about to trade is the head of the queue, and its latency
\* is over at the time the trade will bear, unless another tick has come.
FillInv ==
  \A f \in Feeds : pc[f] = "fill" =>
    /\ pending # <<>> /\ order[f] = Head(pending)
    /\ raced \/ now - orders[order[f]].timestamp >= Latency

\* Trades and queue, each by itself and one against the other, are in the order
\* of the ids.
LineInv ==
  /\ \A i, j \in DOMAIN trades : i < j => trades[i].order < trades[j].order
  /\ \A i, j \in DOMAIN pending : i < j => pending[i] < pending[j]
  /\ \A i \in DOMAIN trades, j \in DOMAIN pending : trades[i].order < pending[j]

SimInv ==
  /\ TypeOK /\ LockInv /\ FillInv /\ LineInv
  /\ LogMatchesTrades /\ LatencyHonouredUnlessFeedsOverlap

-----------------------------------------------------------------------------
(* Sequences *)

\* What appending does to length, elements and range.
LEMMA AppendFacts ==
  ASSUME NEW S, NEW s \in Seq(S), NEW e \in S
  PROVE  /\ Append(s, e) \in Seq(S)
         /\ Len(s) \in Nat /\ DOMAIN s = 1..Len(s)
         /\ Len(Append(s, e)) = Len(s) + 1
         /\ DOMAIN Append(s, e) = 1..(Len(s) + 1)
         /\ \A i \in 1..Len(s) : Append(s, e)[i] = s[i]
         /\ Append(s, e)[Len(s) + 1] = e
         /\ Range(Append(s, e)) = Range(s) \cup {e}
<1>1. /\ Append(s, e) \in Seq(S)
      /\ Len(s) \in Nat /\ DOMAIN s = 1..Len(s)
      /\ Len(Append(s, e)) = Len(s) + 1
      /\ DOMAIN Append(s, e) = 1..(Len(s) + 1)
      /\ \A i \in 1..Len(s) : Append(s, e)[i] = s[i]
      /\ Append(s, e)[Len(s) + 1] = e
  BY AppendProperties, LenProperties
<1>2. Range(Append(s, e)) = Range(s) \cup {e}
  BY <1>1, SMT DEF Range
<1> QED
  BY <1>1, <1>2

\* Two ascending sequences, the first below the second, ascend as one.
LEMMA ConcatInOrder ==
  ASSUME NEW s \in Seq(Int), NEW t \in Seq(Int),
         \A i, j \in DOMAIN s : i < j => s[i] < s[j],
         \A i, j \in DOMAIN t : i < j => t[i] < t[j],
         \A i \in DOMAIN s, j \in DOMAIN t : s[i] < t[j]
  PROVE  \A i, j \in DOMAIN (s \o t) : i < j => (s \o t)[i] < (s \o t)[j]
<1> DEFINE u == s \o t
<1>1. /\ u \in Seq(Int) /\ Len(u) = Len(s) + Len(t)
      /\ \A i \in 1..(Len(s) + Len(t)) :
            u[i] = IF i <= Len(s) THEN s[i] ELSE t[i - Len(s)]
  BY ConcatProperties
<1>2. /\ Len(s) \in Nat /\ DOMAIN s = 1..Len(s)
      /\ Len(t) \in Nat /\ DOMAIN t = 1..Len(t)
  BY LenProperties
<1>3. DOMAIN u = 1..(Len(s) + Len(t))
  BY <1>1, LenProperties
<1> HIDE DEF u
<1> SUFFICES ASSUME NEW i \in DOMAIN u, NEW j \in DOMAIN u, i < j PROVE u[i] < u[j]
  BY DEF u
<1>4. CASE j <= Len(s)
  BY <1>1, <1>2, <1>3, <1>4
<1>5. CASE i <= Len(s) /\ ~(j <= Len(s))
  <2>1. u[i] = s[i] /\ u[j] = t[j - Len(s)]
    BY <1>1, <1>2, <1>3, <1>5
  <2>2. i \in DOMAIN s /\ j - Len(s) \in DOMAIN t
    BY <1>2, <1>3, <1>5
  <2> QED
    BY <2>1, <2>2
<1>6. CASE ~(i <= Len(s))
  <2>1. u[i] = t[i - Len(s)] /\ u[j] = t[j - Len(s)]
    <3>1. /\ i \in 1..(Len(s) + Len(t)) /\ ~(i <= Len(s))
          /\ j \in 1..(Len(s) + Len(t)) /\ ~(j <= Len(s))
      BY <1>2, <1>3, <1>6
    <3> QED
      BY ONLY <1>1, <3>1
  <2>2. i - Len(s) \in DOMAIN t /\ j - Len(s) \in DOMAIN t /\ i - Len(s) < j - Len(s)
    BY <1>2, <1>3, <1>6
  <2> QED
    BY <2>1, <2>2
<1> QED
  BY <1>2, <1>3, <1>4, <1>5, <1>6

\* popleft: what was behind the head moves up by one place.
LEMMA DropHeadFacts ==
  ASSUME TypeOK, pending # <<>>, DropHead
  PROVE  /\ Head(pending) \in Ids /\ Head(pending) = pending[1]
         /\ Len(pending) \in Nat \ {0} /\ DOMAIN pending = 1..Len(pending)
         /\ pending' \in Seq(Ids)
         /\ DOMAIN pending' = 1..(Len(pending) - 1)
         /\ \A i \in DOMAIN pending' : pending'[i] = pending[i + 1]
<1>1. pending \in Seq(Ids)
  BY DEF TypeOK
<1>2. pending' = Tail(pending)
  BY <1>1, TailIsSubSeq DEF DropHead
<1>3. /\ Head(pending) \in Ids /\ Tail(pending) \in Seq(Ids)
      /\ Len(Tail(pending)) = Len(pending) - 1
      /\ \A i \in 1..Len(Tail(pending)) : Tail(pending)[i] = pending[i + 1]
  BY <1>1, HeadTailProperties
<1>4. Len(pending) \in Nat \ {0} /\ DOMAIN pending = 1..Len(pending)
  BY <1>1, LenProperties, EmptySeq
<1>5. DOMAIN Tail(pending) = 1..Len(Tail(pending))
  BY <1>3, LenProperties
<1> QED
  BY <1>1, <1>2, <1>3, <1>4, <1>5

-----------------------------------------------------------------------------
(* The parts of the invariant, by what an action does *)

\* A change of one order's status leaves kinds and submission times alone.
LEMMA StatusChange ==
  ASSUME TypeOK, NEW i \in Ids, NEW status \in {"pending", "filled", "cancelled"},
         orders' = [orders EXCEPT ![i].status = status]
  PROVE  /\ orders' \in Seq(Order) /\ Len(orders') = Len(orders)
         /\ \A j \in Ids : orders'[j].kind = orders[j].kind
                           /\ orders'[j].timestamp = orders[j].timestamp
<1> DEFINE e == [orders[i] EXCEPT !.status = status]
<1>1. orders \in Seq(Order) /\ i \in 1..Len(orders)
  BY DEF TypeOK, Ids
<1>2. orders[i] \in Order
  BY <1>1, ElementOfSeq
<1>3. e \in Order /\ e.kind = orders[i].kind /\ e.timestamp = orders[i].timestamp
  BY <1>2 DEF Order
<1>4. orders' = [orders EXCEPT ![i] = e]
  OBVIOUS
<1> HIDE DEF e
<1>5. /\ orders' \in Seq(Order) /\ Len(orders') = Len(orders)
      /\ \A j \in 1..Len(orders) : orders'[j] = IF j = i THEN e ELSE orders[j]
  BY <1>1, <1>3, <1>4, ExceptSeq
<1> QED
  BY <1>3, <1>5 DEF Ids

\* Ids stay ids when the orders grow, and so do the sequences made of them.
LEMMA IdsGrow ==
  ASSUME TypeOK, Len(orders') \in Nat, Len(orders') >= Len(orders)
  PROVE  /\ Ids \subseteq Ids'
         /\ pending \in Seq(Ids') /\ tradeLog \in Seq(Ids') /\ cancelled \subseteq Ids'
         /\ trades \in Seq([order : Ids', time : Times])
         /\ order \in [Feeds -> Ids' \cup {None}]
<1>1. Len(orders) \in Nat
  BY LenProperties DEF TypeOK
<1>2. Ids \subseteq Ids'
  BY <1>1 DEF Ids
<1>3. [order : Ids, time : Times] \subseteq [order : Ids', time : Times]
  BY <1>2
<1> QED
  BY <1>2, <1>3, SeqMonotonic DEF TypeOK

\* What the trades and the log record are orders.
LEMMA TradesOfOrders ==
  ASSUME TypeOK
  PROVE  /\ \A t \in Range(trades) : t.order \in Ids
         /\ \A i \in DOMAIN trades : trades[i].order \in Ids
         /\ Range(tradeLog) \subseteq Ids
<1> DEFINE R == [order : Ids, time : Times]
<1>1. trades \in Seq(R) /\ \A t \in R : t.order \in Ids
  BY DEF TypeOK
<1> HIDE DEF R
<1>2. \A i \in DOMAIN trades : trades[i] \in R
  BY <1>1, LenProperties
<1>3. \A t \in Range(trades) : t \in R
  BY <1>2 DEF Range
<1>4. Range(tradeLog) \subseteq Ids
  BY RangeOfSeq DEF TypeOK
<1> QED
  BY <1>1, <1>2, <1>3, <1>4

\* Log and latencies depend on kinds and submission times only.
LEMMA RecordsKept ==
  ASSUME TypeOK, LogMatchesTrades, LatencyHonouredUnlessFeedsOverlap,
         UNCHANGED <<trades, tradeLog>>, raced => raced',
         \A j \in Ids : /\ orders'[j].kind = orders[j].kind
                        /\ orders'[j].timestamp = orders[j].timestamp
  PROVE  LogMatchesTrades' /\ LatencyHonouredUnlessFeedsOverlap'
<1>1. \A t \in Range(trades) : t.order \in Ids
  BY TradesOfOrders
<1>2. \A t \in Range(trades) : Kind(t)' = Kind(t)
  BY <1>1 DEF Kind
<1>3. {u \in Range(trades) : Kind(u)'.qty # BadQty} = {u \in Range(trades) : Kind(u).qty # BadQty}
  BY <1>2
<1>4. LogMatchesTrades'
  BY <1>3 DEF LogMatchesTrades, Kind
<1>5. LatencyHonouredUnlessFeedsOverlap'
  BY <1>1 DEF LatencyHonouredUnlessFeedsOverlap
<1> QED
  BY <1>4, <1>5

-----------------------------------------------------------------------------
(* One lemma per action *)

LEMMA SimInit == Init => SimInv
<1> SUFFICES ASSUME Init PROVE SimInv
  OBVIOUS
<1> USE DEF Init
<1>1. Range(<<>>) = {} /\ DOMAIN <<>> = {} /\ Len(<<>>) = 0
  BY DEF Range
<1>2. TypeOK
  <2>1. \A S : <<>> \in Seq(S)
    BY EmptySeq
  <2>2. 0 \in Times /\ 0 \in 0..MaxTicks /\ 0 <= MaxOrders
    BY SimulatorAssumption DEF Times
  <2>3. positions \in [Symbols -> Int]
    OBVIOUS
  <2>4. /\ pc \in [Feeds -> {"idle", "waiting", "scan", "fill"}]
        /\ tick \in [Feeds -> Tick \cup {None}]
        /\ order \in [Feeds -> Ids \cup {None}]
    OBVIOUS
  <2>5. /\ orders \in Seq(Order) /\ pending \in Seq(Ids) /\ tradeLog \in Seq(Ids)
        /\ trades \in Seq([order : Ids, time : Times])
    BY <2>1
  <2> QED
    BY <1>1, <2>2, <2>3, <2>4, <2>5 DEF TypeOK
<1>3. LockInv
  BY SimulatorAssumption DEF LockInv
<1> QED
  BY <1>1, <1>2, <1>3 DEF SimInv, FillInv, LineInv, LogMatchesTrades,
     LatencyHonouredUnlessFeedsOverlap

\* A new order has the highest id, and goes to the end of the queue.  No feed is
\* at work then, since the client holds order_lock.
LEMMA SubmitOrderStep ==
  ASSUME SimInv, NEW kind \in OrderKinds, NEW time \in Times, SubmitOrder(kind, time)
  PROVE  SimInv'
<1> DEFINE o == [kind |-> kind, timestamp |-> time, status |-> "pending"]
           n == Len(orders)
<1> USE DEF SimInv, SubmitOrder, clockVars, feedVars, tradeVars
<1>1. orders \in Seq(Order) /\ o \in Order /\ n \in Nat
  BY LenProperties DEF TypeOK, Order
<1>2. /\ orders' \in Seq(Order) /\ Len(orders') = n + 1
      /\ \A i \in 1..n : orders'[i] = orders[i]
  <2> HIDE DEF o
  <2> QED
    BY <1>1, AppendFacts DEF o
<1>3. /\ Ids \subseteq Ids'
      /\ pending \in Seq(Ids') /\ tradeLog \in Seq(Ids') /\ cancelled \subseteq Ids'
      /\ trades \in Seq([order : Ids', time : Times])
      /\ order \in [Feeds -> Ids' \cup {None}]
  BY <1>1, <1>2, IdsGrow
<1>4. n + 1 \in Ids' /\ MaxOrders \in Nat
  BY <1>1, <1>2, SimulatorAssumption DEF Ids
<1>5. /\ pending' \in Seq(Ids')
      /\ Len(pending) \in Nat /\ DOMAIN pending = 1..Len(pending)
      /\ DOMAIN pending' = 1..(Len(pending) + 1)
      /\ \A i \in 1..Len(pending) : pending'[i] = pending[i]
      /\ pending'[Len(pending) + 1] = n + 1
  BY <1>3, <1>4, AppendFacts
<1>6. TypeOK'
  BY <1>1, <1>2, <1>3, <1>4, <1>5 DEF TypeOK
<1>7. \A f \in Feeds : pc[f] # "fill"
  BY SimulatorAssumption DEF LockInv
<1>8. LockInv' /\ FillInv'
  BY <1>7 DEF LockInv, FillInv
<1>9. LineInv'
  <2>1. \A i \in DOMAIN trades : trades[i].order \in 1..n
    BY TradesOfOrders DEF Ids
  <2>2. \A j \in DOMAIN pending : pending[j] \in 1..n
    BY LenProperties DEF TypeOK, Ids
  <2> QED
    BY <1>1, <1>5, <2>1, <2>2 DEF LineInv
<1>10. LogMatchesTrades' /\ LatencyHonouredUnlessFeedsOverlap'
  BY <1>2, RecordsKept DEF Ids
<1> QED
  BY <1>6, <1>8, <1>9, <1>10

LEMMA CancelOrderStep ==
  ASSUME SimInv, NEW i \in Ids, CancelOrder(i)
  PROVE  SimInv'
<1> USE DEF SimInv, CancelOrder, clockVars, feedVars, tradeVars
<1>1. /\ orders' \in Seq(Order) /\ Len(orders') = Len(orders)
      /\ \A j \in Ids : orders'[j].kind = orders[j].kind
                        /\ orders'[j].timestamp = orders[j].timestamp
  BY StatusChange
<1>2. Ids' = Ids
  BY <1>1 DEF Ids
<1>3. TypeOK'
  BY <1>1, <1>2 DEF TypeOK
<1>4. \A f \in Feeds : pc[f] # "fill"
  BY SimulatorAssumption DEF LockInv
<1>5. LockInv' /\ FillInv' /\ LineInv'
  BY <1>4 DEF LockInv, FillInv, LineInv
<1> QED
  BY <1>1, <1>3, <1>5, RecordsKept

\* A tick that arrives while another feed is about to trade is an overlap.
LEMMA SetTimeStep ==
  ASSUME SimInv, NEW f \in Feeds, NEW quote \in Quotes, NEW time \in Times,
         SetTime(f, quote, time)
  PROVE  SimInv'
<1> USE DEF SimInv, SetTime, bookVars, tradeVars
<1>1. [symbol |-> quote.symbol, price |-> quote.price, time |-> time] \in Tick
  BY SimulatorAssumption DEF Tick
<1>2. TypeOK'
  BY <1>1, SimulatorAssumption DEF TypeOK, Ids
<1>3. LockInv'
  BY DEF LockInv, TypeOK
<1>4. FillInv'
  <2> SUFFICES ASSUME NEW g \in Feeds, pc'[g] = "fill"
               PROVE  /\ pending # <<>> /\ order[g] = Head(pending)
                      /\ raced'
    BY DEF FillInv
  <2>1. g # f /\ pc[g] = "fill"
    BY DEF TypeOK
  <2> QED
    BY <2>1 DEF FillInv
<1>5. LogMatchesTrades' /\ LatencyHonouredUnlessFeedsOverlap'
  BY RecordsKept
<1> QED
  BY <1>2, <1>3, <1>4, <1>5 DEF LineInv

LEMMA AcquireStep ==
  ASSUME SimInv, NEW f \in Feeds, Acquire(f)
  PROVE  SimInv'
<1> USE DEF SimInv, Acquire, clockVars, bookVars, tradeVars
<1>1. TypeOK'
  BY DEF TypeOK, Ids
<1>2. LockInv'
  BY SimulatorAssumption DEF LockInv, TypeOK
<1>3. FillInv'
  BY DEF FillInv, TypeOK
<1>4. LogMatchesTrades' /\ LatencyHonouredUnlessFeedsOverlap'
  BY RecordsKept
<1> QED
  BY <1>1, <1>2, <1>3, <1>4 DEF LineInv

\* The loop ends, or finds an order to fill, or drops one that cannot be filled.
LEMMA ScanStep ==
  ASSUME SimInv, NEW f \in Feeds, Scan(f)
  PROVE  SimInv'
<1> USE DEF SimInv
<1>1. pc[f] = "scan" /\ lock = f
  BY DEF Scan, LockInv
<1>2. CASE Release(f)
  <2> USE <1>2 DEF Release, clockVars, bookVars, tradeVars
  <2>1. TypeOK'
    BY DEF TypeOK, Ids
  <2>2. LockInv'
    BY <1>1, SimulatorAssumption DEF LockInv, TypeOK
  <2>3. FillInv'
    BY DEF FillInv, TypeOK
  <2>4. LogMatchesTrades' /\ LatencyHonouredUnlessFeedsOverlap'
    BY RecordsKept
  <2> QED
    BY <2>1, <2>2, <2>3, <2>4 DEF LineInv
<1>3. CASE /\ pending # <<>> /\ Ready(Head(pending))
           /\ pc' = [pc EXCEPT ![f] = "fill"]
           /\ order' = [order EXCEPT ![f] = Head(pending)]
           /\ UNCHANGED <<clockVars, tick, ticks, lock, bookVars, tradeVars>>
  <2> USE <1>3 DEF clockVars, bookVars, tradeVars
  <2>1. Head(pending) \in Ids
    BY HeadTailProperties DEF TypeOK
  <2>2. TypeOK'
    BY <2>1 DEF TypeOK, Ids
  <2>3. LockInv'
    BY <1>1 DEF LockInv, TypeOK
  <2>4. FillInv'
    BY DEF FillInv, TypeOK, Ready
  <2>5. LogMatchesTrades' /\ LatencyHonouredUnlessFeedsOverlap'
    BY RecordsKept
  <2> QED
    BY <2>2, <2>3, <2>4, <2>5 DEF LineInv
<1>4. CASE /\ pending # <<>> /\ DropHead
           /\ UNCHANGED <<orders, cancelled, clockVars, feedVars, lock, tradeVars>>
  <2> USE <1>4 DEF clockVars, feedVars, tradeVars
  <2>1. /\ Len(pending) \in Nat \ {0} /\ DOMAIN pending = 1..Len(pending)
        /\ pending' \in Seq(Ids)
        /\ DOMAIN pending' = 1..(Len(pending) - 1)
        /\ \A i \in DOMAIN pending' : pending'[i] = pending[i + 1]
    BY DropHeadFacts
  <2>2. TypeOK'
    BY <2>1 DEF TypeOK, Ids
  <2>3. LockInv'
    BY DEF LockInv
  <2>4. FillInv'
    BY <1>1 DEF FillInv, LockInv
  <2>5. LineInv'
    <3>1. \A n \in DOMAIN pending' : n \in DOMAIN pending /\ n + 1 \in DOMAIN pending
      BY <2>1
    <3>2. \A m, n \in DOMAIN pending' : m < n => m + 1 < n + 1
      BY <2>1
    <3>3. \A m, n \in DOMAIN pending' : m < n => pending'[m] < pending'[n]
      BY <2>1, <3>1, <3>2 DEF LineInv
    <3>4. \A m \in DOMAIN trades, n \in DOMAIN pending' : trades[m].order < pending'[n]
      BY <2>1, <3>1 DEF LineInv
    <3> QED
      BY <3>3, <3>4 DEF LineInv
  <2>6. LogMatchesTrades' /\ LatencyHonouredUnlessFeedsOverlap'
    BY RecordsKept
  <2> QED
    BY <2>2, <2>3, <2>4, <2>5, <2>6
<1> QED
  BY <1>2, <1>3, <1>4 DEF Scan

-----------------------------------------------------------------------------
(* The fill *)

\* The order a feed fills is the head of the queue; its trade follows all the
\* others, and so does its entry in the log.
LEMMA FillFacts ==
  ASSUME SimInv, NEW f \in Feeds, FillAndPop(f)
  PROVE  LET i == Head(pending) IN
         /\ order[f] = i /\ i \in Ids
         /\ lock = f /\ \A g \in Feeds \ {f} : pc[g] # "fill"
         /\ raced \/ now - orders[i].timestamp >= Latency
         /\ \A n \in DOMAIN trades : trades[n].order < i
         /\ \A j \in Range(tradeLog) : j < i
<1> USE DEF SimInv
<1>1. pc[f] = "fill" /\ DropHead
  BY DEF FillAndPop, Fill
<1>2. /\ pending # <<>> /\ order[f] = Head(pending)
      /\ raced \/ now - orders[Head(pending)].timestamp >= Latency
  BY <1>1 DEF FillInv
<1>3. /\ Head(pending) \in Ids /\ Head(pending) = pending[1]
      /\ 1 \in DOMAIN pending
  BY <1>1, <1>2, DropHeadFacts
<1>4. lock = f /\ \A g \in Feeds \ {f} : pc[g] # "fill"
  BY <1>1 DEF LockInv
<1>5. \A n \in DOMAIN trades : trades[n].order < Head(pending)
  BY <1>3 DEF LineInv
<1>6. \A j \in Range(tradeLog) : j < Head(pending)
  BY <1>5 DEF LogMatchesTrades, Range
<1> QED
  BY <1>2, <1>3, <1>4, <1>5, <1>6

\* The new trade is the last, and earlier ones keep their places.
LEMMA TradeAppended ==
  ASSUME SimInv, NEW f \in Feeds, FillAndPop(f)
  PROVE  LET t == [order |-> Head(pending), time |-> now] IN
         /\ trades' \in Seq([order : Ids, time : Times])
         /\ Len(trades) \in Nat /\ DOMAIN trades = 1..Len(trades)
         /\ DOMAIN trades' = 1..(Len(trades) + 1)
         /\ \A n \in 1..Len(trades) : trades'[n] = trades[n]
         /\ trades'[Len(trades) + 1] = t
         /\ Range(trades') = Range(trades) \cup {t}
<1> DEFINE R == [order : Ids, time : Times]
           t == [order |-> Head(pending), time |-> now]
<1>1. trades \in Seq(R) /\ t \in R
  BY FillFacts DEF SimInv, TypeOK
<1>2. trades' = Append(trades, t)
  BY FillFacts DEF FillAndPop, Fill
<1> HIDE DEF R, t
<1>3. /\ trades' \in Seq(R)
      /\ Len(trades) \in Nat /\ DOMAIN trades = 1..Len(trades)
      /\ DOMAIN trades' = 1..(Len(trades) + 1)
      /\ \A n \in 1..Len(trades) : trades'[n] = trades[n]
      /\ trades'[Len(trades) + 1] = t
      /\ Range(trades') = Range(trades) \cup {t}
  BY <1>1, <1>2, AppendFacts
<1> QED
  BY <1>3 DEF R, t

\* What Book does: positions stay numbers, and the log gets the order unless its
\* quantity is none.
LEMMA BookFacts ==
  ASSUME TypeOK, NEW i \in Ids, Book(i, orders[i].kind)
  PROVE  /\ positions' \in [Symbols -> Int]
         /\ orders[i].kind.qty = BadQty => tradeLog' = tradeLog
         /\ orders[i].kind.qty # BadQty => tradeLog' = Append(tradeLog, i)
<1>1. orders[i] \in Order
  BY LenProperties DEF TypeOK, Ids
<1>2. /\ orders[i].kind.symbol \in Symbols
      /\ orders[i].kind.qty = BadQty \/ orders[i].kind.qty \in Int
  BY <1>1, SimulatorAssumption DEF Order
<1>3. CASE orders[i].kind.qty = BadQty
  BY <1>3 DEF Book, TypeOK
<1>4. CASE orders[i].kind.qty # BadQty
  <2> DEFINE k == orders[i].kind
             q == positions[k.symbol] + SignedQty(k)
  <2>1. SignedQty(k) \in Int
    BY <1>2, <1>4 DEF SignedQty
  <2>2. k.symbol \in Symbols /\ positions \in [Symbols -> Int]
    BY <1>2 DEF TypeOK
  <2>3. q \in Int
    BY <2>1, <2>2
  <2>4. positions' = [positions EXCEPT ![k.symbol] = q] /\ tradeLog' = Append(tradeLog, i)
    BY <1>4 DEF Book
  <2> HIDE DEF q
  <2> QED
    BY <1>4, <2>2, <2>3, <2>4
<1> QED
  BY <1>3, <1>4

LEMMA FillAndPopStep ==
  ASSUME SimInv, NEW f \in Feeds, FillAndPop(f)
  PROVE  SimInv'
<1> DEFINE i == Head(pending)
           t == [order |-> i, time |-> now]
<1> USE DEF SimInv
<1>1. /\ order[f] = i /\ i \in Ids
      /\ lock = f /\ \A g \in Feeds \ {f} : pc[g] # "fill"
      /\ raced \/ now - orders[i].timestamp >= Latency
      /\ \A n \in DOMAIN trades : trades[n].order < i
      /\ \A j \in Range(tradeLog) : j < i
  BY FillFacts
<1>2. /\ pc[f] = "fill" /\ pc' = [pc EXCEPT ![f] = "scan"]
      /\ order' = [order EXCEPT ![f] = None]
      /\ orders' = [orders EXCEPT ![i].status = "filled"]
      /\ Book(i, orders[i].kind)
      /\ UNCHANGED <<now, raced, lock, tick, ticks, cancelled>>
      /\ DropHead /\ pending # <<>>
  BY <1>1 DEF FillAndPop, Fill, clockVars, FillInv
<1>3. /\ trades' \in Seq([order : Ids, time : Times])
      /\ Len(trades) \in Nat /\ DOMAIN trades = 1..Len(trades)
      /\ DOMAIN trades' = 1..(Len(trades) + 1)
      /\ \A n \in 1..Len(trades) : trades'[n] = trades[n]
      /\ trades'[Len(trades) + 1] = t
      /\ Range(trades') = Range(trades) \cup {t}
  BY TradeAppended
<1>4. /\ Len(pending) \in Nat \ {0} /\ DOMAIN pending = 1..Len(pending)
      /\ i = pending[1]
      /\ pending' \in Seq(Ids)
      /\ DOMAIN pending' = 1..(Len(pending) - 1)
      /\ \A n \in DOMAIN pending' : pending'[n] = pending[n + 1]
  BY <1>2, DropHeadFacts
<1>5. /\ orders' \in Seq(Order) /\ Len(orders') = Len(orders)
      /\ \A j \in Ids : orders'[j].kind = orders[j].kind
                        /\ orders'[j].timestamp = orders[j].timestamp
  BY <1>1, <1>2, StatusChange
<1>6. /\ positions' \in [Symbols -> Int]
      /\ orders[i].kind.qty = BadQty => tradeLog' = tradeLog
      /\ orders[i].kind.qty # BadQty => tradeLog' = Append(tradeLog, i)
  BY <1>1, <1>2, BookFacts
<1>7. /\ Len(tradeLog) \in Nat /\ DOMAIN tradeLog = 1..Len(tradeLog)
      /\ tradeLog \in Seq(Ids) /\ Append(tradeLog, i) \in Seq(Ids)
      /\ DOMAIN Append(tradeLog, i) = 1..(Len(tradeLog) + 1)
      /\ \A n \in 1..Len(tradeLog) : Append(tradeLog, i)[n] = tradeLog[n]
      /\ Append(tradeLog, i)[Len(tradeLog) + 1] = i
      /\ Range(Append(tradeLog, i)) = Range(tradeLog) \cup {i}
  <2>1. tradeLog \in Seq(Ids)
    BY DEF TypeOK
  <2> QED
    BY <1>1, <2>1, AppendFacts
<1>8. Ids' = Ids
  BY <1>5 DEF Ids
<1>9. TypeOK'
  BY <1>2, <1>3, <1>4, <1>5, <1>6, <1>7, <1>8 DEF TypeOK
<1>10. LockInv'
  BY <1>1, <1>2 DEF LockInv, TypeOK
<1>11. FillInv'
  BY <1>1, <1>2 DEF FillInv, TypeOK
<1>12. LineInv'
  <2> HIDE DEF i
  <2>1. \A n \in 1..Len(trades) : trades[n].order \in Int
    BY <1>3, TradesOfOrders DEF Ids
  <2>2. \A n \in DOMAIN pending : pending[n] \in Int
    BY LenProperties DEF TypeOK, Ids
  <2>3. \A n \in DOMAIN pending' : i < pending'[n]
    BY <1>4 DEF LineInv
  <2>4. \A m, n \in DOMAIN pending' : m < n => pending'[m] < pending'[n]
    BY <1>4 DEF LineInv
  <2>5. \A m, n \in DOMAIN trades' : m < n => trades'[m].order < trades'[n].order
    BY <1>1, <1>3 DEF LineInv
  <2>6. \A m \in DOMAIN trades', n \in DOMAIN pending' : trades'[m].order < pending'[n]
    BY <1>3, <1>4, <2>3 DEF LineInv
  <2> QED
    BY <2>4, <2>5, <2>6 DEF LineInv
<1>13. LatencyHonouredUnlessFeedsOverlap'
  <2>1. \A u \in Range(trades) : u.order \in Ids
    BY TradesOfOrders
  <2> QED
    BY <1>1, <1>2, <1>3, <1>5, <2>1 DEF LatencyHonouredUnlessFeedsOverlap
<1>14. LogMatchesTrades'
  <2> DEFINE Good(T) == {u \in T : orders[u.order].kind.qty # BadQty}
  <2>1. \A u \in Range(trades') : u.order \in Ids
    BY <1>1, <1>3, TradesOfOrders
  <2>2. {u \in Range(trades') : orders'[u.order].kind.qty # BadQty} = Good(Range(trades'))
    BY <1>5, <2>1
  <2>3. Range(tradeLog) = {u.order : u \in Good(Range(trades))}
    BY DEF LogMatchesTrades, Kind
  <2>4. Range(tradeLog') = {u.order : u \in Good(Range(trades'))}
    <3>1. t.order = i
      OBVIOUS
    <3> HIDE DEF i, t
    <3>2. CASE orders[i].kind.qty = BadQty
      <4>1. Good(Range(trades')) = Good(Range(trades))
        BY <1>3, <3>1, <3>2
      <4> QED
        BY <1>6, <2>3, <3>2, <4>1
    <3>3. CASE orders[i].kind.qty # BadQty
      <4>1. Good(Range(trades')) = Good(Range(trades)) \cup {t}
        BY <1>3, <3>1, <3>3
      <4>2. Range(tradeLog') = Range(tradeLog) \cup {i}
        BY <1>6, <1>7, <3>3
      <4> HIDE DEF Good
      <4> QED
        BY <2>3, <3>1, <4>1, <4>2
    <3> QED
      BY <3>2, <3>3
  <2>5. \A n \in 1..Len(tradeLog) : tradeLog[n] < i
    BY <1>1, <1>7 DEF Range
  <2>6. \A m, n \in DOMAIN tradeLog' : m < n => tradeLog'[m] < tradeLog'[n]
    <3> DEFINE Rising(s) == \A m, n \in DOMAIN s : m < n => s[m] < s[n]
    <3>1. Rising(tradeLog)
      BY DEF LogMatchesTrades
    <3> HIDE DEF i
    <3>2. Rising(Append(tradeLog, i))
      BY ONLY <1>7, <2>5, <3>1
    <3>3. tradeLog' = tradeLog \/ tradeLog' = Append(tradeLog, i)
      BY <1>6
    <3> QED
      BY ONLY <3>1, <3>2, <3>3
  <2> QED
    BY <2>2, <2>4, <2>6 DEF LogMatchesTrades, Kind
<1> QED
  BY <1>9, <1>10, <1>11, <1>12, <1>13, <1>14

-----------------------------------------------------------------------------
(* The theorems about the simulator *)

\* The invariant holds of every behaviour: a feed works on the queue only while
\* it holds order_lock, and what it is about to trade is the queue's head.
THEOREM SimInvariance == Spec => []SimInv
<1>1. Init => SimInv
  BY SimInit
<1>2. SimInv /\ [Next]_vars => SimInv'
  <2> SUFFICES ASSUME SimInv, [Next]_vars PROVE SimInv'
    OBVIOUS
  <2>1. CASE \E kind \in OrderKinds, time \in Times : SubmitOrder(kind, time)
    BY <2>1, SubmitOrderStep
  <2>2. CASE \E i \in Ids : CancelOrder(i)
    BY <2>2, CancelOrderStep
  <2>3. CASE \E f \in Feeds, quote \in Quotes, time \in Times : SetTime(f, quote, time)
    BY <2>3, SetTimeStep
  <2>4. CASE \E f \in Feeds : FeedStep(f)
    BY <2>4, AcquireStep, ScanStep, FillAndPopStep DEF FeedStep
  <2>5. CASE UNCHANGED vars
    <3> USE <2>5 DEF vars, bookVars, tradeVars, feedVars, clockVars
    <3>1. TypeOK'
      BY DEF SimInv, TypeOK, Ids
    <3>2. LockInv' /\ FillInv' /\ LineInv'
      BY DEF SimInv, LockInv, FillInv, LineInv
    <3>3. LogMatchesTrades' /\ LatencyHonouredUnlessFeedsOverlap'
      BY RecordsKept DEF SimInv
    <3> QED
      BY <3>1, <3>2, <3>3 DEF SimInv
  <2> QED
    BY <2>1, <2>2, <2>3, <2>4, <2>5 DEF Next, Done
<1> QED
  BY <1>1, <1>2, PTL DEF Spec

\* Whatever feeds and clients do at the same time, orders are traded in the
\* order of their submission, none twice, and a traded order is not queued.
THEOREM OrdersLeaveOnce == Spec => []OrdersLeaveOnceInOrder
<1>1. SimInv => OrdersLeaveOnceInOrder
  <2> SUFFICES ASSUME SimInv PROVE OrdersLeaveOnceInOrder
    OBVIOUS
  <2> DEFINE done == [n \in DOMAIN trades |-> trades[n].order]
  <2>1. /\ Len(trades) \in Nat /\ DOMAIN trades = 1..Len(trades)
        /\ \A n \in DOMAIN trades : trades[n].order \in Int
    BY TradesOfOrders, LenProperties DEF SimInv, TypeOK, Ids
  <2>2. pending \in Seq(Int) /\ DOMAIN pending = 1..Len(pending)
    BY LenProperties, SeqMonotonic DEF SimInv, TypeOK, Ids
  <2>3. done \in Seq(Int) /\ DOMAIN done = 1..Len(trades)
    BY <2>1, IsASeq
  <2>4. \A n \in 1..Len(trades) : done[n] = trades[n].order
    BY <2>1
  <2> HIDE DEF done
  <2>5. /\ \A i, j \in DOMAIN done : i < j => done[i] < done[j]
        /\ \A i, j \in DOMAIN pending : i < j => pending[i] < pending[j]
        /\ \A i \in DOMAIN done, j \in DOMAIN pending : done[i] < pending[j]
    BY <2>1, <2>3, <2>4 DEF SimInv, LineInv
  <2>6. \A i, j \in DOMAIN (done \o pending) :
          i < j => (done \o pending)[i] < (done \o pending)[j]
    BY <2>2, <2>3, <2>5, ConcatInOrder
  <2> QED
    BY <2>6 DEF OrdersLeaveOnceInOrder, done
<1> QED
  BY <1>1, SimInvariance, PTL

\* The log has every trade whose quantity is a number, once and in order, however
\* many fills failed in between.
THEOREM LogIsTrue == Spec => []LogMatchesTrades
<1>1. SimInv => LogMatchesTrades
  BY DEF SimInv
<1> QED
  BY <1>1, SimInvariance, PTL

\* As long as no tick arrives inside another, no order is traded before
\* simulate_latency_ns has passed since its submission.
THEOREM LatencyHonoured == Spec => []LatencyHonouredUnlessFeedsOverlap
<1>1. SimInv => LatencyHonouredUnlessFeedsOverlap
  BY DEF SimInv
<1> QED
  BY <1>1, SimInvariance, PTL

-----------------------------------------------------------------------------
(* Positions *)

Plus(x, y) == x + y
Sums == INSTANCE Folding WITH Op <- Plus

\* Sums of numbers, and one number more.
LEMMA SumAppend ==
  ASSUME NEW s \in Seq(Int), NEW x \in Int
  PROVE  /\ SumOf(s) \in Int
         /\ SumOf(Append(s, x)) = SumOf(s) + x
         /\ SumOf(<<>>) = 0
<1>1. \A t : SumOf(t) = Sums!Fold(0, t)
  BY Zenon DEF SumOf, FoldLeft, MapThenFoldSet, Max, Sums!Fold, Sums!FoldLeft,
     Sums!MapThenFoldSet, Sums!Max, Plus
<1>2. Sums!Fold(0, s) \in Int
  <2>1. 0 \in Int /\ \A y \in Int, e \in Int : Plus(y, e) \in Int
    BY DEF Plus
  <2> QED
    BY <2>1, Sums!FoldPreserves, Zenon
<1>3. Sums!Fold(0, Append(s, x)) = Sums!Fold(0, s) + x
  BY Sums!FoldAppend DEF Plus
<1>4. Sums!Fold(0, <<>>) = 0
  BY Sums!FoldEmpty
<1> QED
  BY <1>1, <1>2, <1>3, <1>4, Zenon

\* What a trade counts is a number.
LEMMA CountedIsNumber ==
  ASSUME TypeOK, NEW t, t.order \in Ids, NEW side, NEW s
  PROVE  Counted(t, side, s) \in Int
<1>1. orders[t.order] \in Order
  BY LenProperties DEF TypeOK, Ids
<1> QED
  BY <1>1, SimulatorAssumption DEF Counted, Kind, Order

\* The amounts of a side are numbers, in the order of the trades.
LEMMA AmountsType ==
  ASSUME TypeOK, NEW side, NEW s
  PROVE  Amounts(side, s) \in Seq(Int)
<1> DEFINE n == Len(trades)
           q == Amounts(side, s)
<1>1. n \in Nat /\ DOMAIN trades = 1..n
  BY LenProperties DEF TypeOK
<1>2. q \in [1..n -> Int]
  BY <1>1, TradesOfOrders, CountedIsNumber DEF Amounts
<1> HIDE DEF n, q
<1>3. q \in Seq(Int)
  BY <1>1, <1>2
<1> QED
  BY <1>3 DEF q

\* What counts does not change while trades and kinds of orders do not.
LEMMA TotalsKept ==
  ASSUME TypeOK, UNCHANGED <<trades, positions>>, PositionsMatchTrades,
         \A j \in Ids : orders'[j].kind = orders[j].kind
  PROVE  PositionsMatchTrades'
<1>1. \A n \in DOMAIN trades : trades[n].order \in Ids
  BY TradesOfOrders
<1>2. \A side, s : \A n \in DOMAIN trades :
        Counted(trades[n], side, s)' = Counted(trades[n], side, s)
  BY <1>1 DEF Counted, Kind
<1>3. \A side, s : Amounts(side, s)' = Amounts(side, s)
  BY <1>2 DEF Amounts
<1>4. \A side, s : Total(side, s)' = Total(side, s)
  BY <1>3 DEF Total
<1> QED
  BY <1>4 DEF PositionsMatchTrades

\* A trade adds what it counts to the totals.
LEMMA TotalGrows ==
  ASSUME SimInv, NEW f \in Feeds, FillAndPop(f), NEW side, NEW s
  PROVE  /\ Total(side, s) \in Int
         /\ Total(side, s)' = Total(side, s)
              + Counted([order |-> Head(pending), time |-> now], side, s)
<1> DEFINE t == [order |-> Head(pending), time |-> now]
           q == Amounts(side, s)
           c == Counted(t, side, s)
           r == Append(q, c)
           u == Amounts(side, s)'
<1>0. PICK m \in Nat : m = Len(trades)
  BY LenProperties DEF SimInv, TypeOK
<1>1. /\ m \in Nat /\ DOMAIN trades = 1..m /\ DOMAIN trades' = 1..(m + 1)
      /\ \A n \in 1..m : trades'[n] = trades[n]
      /\ trades'[m + 1] = t
  BY <1>0, TradeAppended
<1>2. t.order \in Ids /\ \A n \in 1..m : trades[n].order \in Ids
  BY <1>1, FillFacts, TradesOfOrders DEF SimInv
<1>3. \A j \in Ids : orders'[j].kind = orders[j].kind
  BY FillFacts, StatusChange DEF FillAndPop, Fill, SimInv
<1>4. /\ c \in Int /\ q \in Seq(Int) /\ Len(q) = m
      /\ \A n \in 1..m : q[n] = Counted(trades[n], side, s)
  <2>1. q \in Seq(Int) /\ DOMAIN q = 1..m
    BY <1>1, AmountsType DEF SimInv, Amounts
  <2>2. Len(q) = m
    BY <1>1, <2>1, LenProperties
  <2> QED
    BY <1>1, <1>2, <2>1, <2>2, CountedIsNumber DEF SimInv, Amounts
<1>5. DOMAIN u = 1..(m + 1) /\ u[m + 1] = c
      /\ u = [n \in 1..(m + 1) |-> u[n]]
      /\ \A n \in 1..m : u[n] = Counted(trades[n], side, s)
  <2>1. u = [n \in 1..(m + 1) |-> Counted(trades[n], side, s)']
    <3>1. u = [n \in DOMAIN trades' |-> Counted(trades[n], side, s)']
      BY DEF Amounts
    <3> QED
      BY <1>1, <3>1
  <2>2. \A n \in 1..m : Counted(trades[n], side, s)' = Counted(trades[n], side, s)
    BY <1>1, <1>2, <1>3 DEF Counted, Kind
  <2>3. Counted(trades[m + 1], side, s)' = c
    BY <1>1, <1>2, <1>3 DEF Counted, Kind
  <2> HIDE DEF t, u, c
  <2>4. DOMAIN u = 1..(m + 1) /\ u = [n \in 1..(m + 1) |-> u[n]]
    BY <2>1
  <2>5. \A n \in 1..(m + 1) : u[n] = Counted(trades[n], side, s)'
    BY <2>1
  <2> QED
    BY <1>1, <2>2, <2>3, <2>4, <2>5
<1> HIDE DEF t, q, u, c
<1>6. r \in Seq(Int) /\ Len(r) = m + 1 /\ r[m + 1] = c /\ \A n \in 1..m : r[n] = q[n]
  BY <1>4, AppendProperties
<1>7. u = r
  <2>1. DOMAIN r = 1..(m + 1) /\ r = [n \in 1..(m + 1) |-> r[n]]
    BY <1>6, LenProperties
  <2> HIDE DEF r
  <2>2. \A n \in 1..(m + 1) : u[n] = r[n]
    <3> SUFFICES ASSUME NEW n \in 1..(m + 1) PROVE u[n] = r[n]
      OBVIOUS
    <3>1. n \in 1..m \/ n = m + 1
      BY <1>1
    <3> QED
      BY ONLY <1>4, <1>5, <1>6, <3>1
  <2> QED
    BY <1>5, <2>1, <2>2
<1>8. SumOf(q) \in Int /\ SumOf(r) = SumOf(q) + c
  BY <1>4, SumAppend
<1> QED
  BY <1>7, <1>8 DEF Total, q, u, c, t

\* The accounting adds the same: a trade moves the position of its symbol by the
\* difference of what it counts as bought and as sold.
LEMMA PositionMoves ==
  ASSUME SimInv, NEW f \in Feeds, FillAndPop(f), NEW s \in Symbols
  PROVE  LET t == [order |-> Head(pending), time |-> now] IN
         positions'[s] = positions[s] + Counted(t, "buy", s) - Counted(t, "sell", s)
<1> DEFINE i == Head(pending)
           k == orders[i].kind
<1>1. i \in Ids /\ Book(i, k)
  BY FillFacts DEF FillAndPop, Fill
<1>2. /\ orders[i] \in Order /\ positions \in [Symbols -> Int]
  BY <1>1, LenProperties DEF SimInv, TypeOK, Ids
<1>3. /\ k.symbol \in Symbols /\ k.side \in {"buy", "sell"}
      /\ k.qty = BadQty \/ k.qty \in Int
  BY <1>2, SimulatorAssumption DEF Order
<1> HIDE DEF k, i
<1>4. CASE k.qty = BadQty
  <2>1. positions' = positions
    BY <1>1, <1>4 DEF Book
  <2>2. \A side : Counted([order |-> i, time |-> now], side, s) = 0
    BY <1>4 DEF Counted, Kind, k
  <2> QED
    BY <1>2, <2>1, <2>2 DEF i
<1>5. CASE k.qty # BadQty
  <2>1. positions' = [positions EXCEPT ![k.symbol] = positions[k.symbol] + SignedQty(k)]
    BY <1>1, <1>5 DEF Book
  <2>2. \A side : Counted([order |-> i, time |-> now], side, s)
                    = IF k.side = side /\ k.symbol = s THEN k.qty ELSE 0
    BY <1>5 DEF Counted, Kind, k
  <2>3. positions'[s] = IF k.symbol = s THEN positions[s] + SignedQty(k) ELSE positions[s]
    BY <1>2, <2>1
  <2>4. SignedQty(k) = IF k.side = "buy" THEN k.qty ELSE -k.qty
    BY DEF SignedQty
  <2> QED
    BY <1>2, <1>3, <1>5, <2>2, <2>3, <2>4 DEF i
<1> QED
  BY <1>4, <1>5

\* What is not a fill changes neither trades nor positions nor kinds of orders.
LEMMA OnlyFillsTrade ==
  ASSUME SimInv, [Next]_vars, ~\E f \in Feeds : FillAndPop(f)
  PROVE  /\ UNCHANGED <<trades, positions>>
         /\ \A j \in Ids : orders'[j].kind = orders[j].kind
<1>1. CASE \E kind \in OrderKinds, time \in Times : SubmitOrder(kind, time)
  <2>1. PICK kind \in OrderKinds, time \in Times : SubmitOrder(kind, time)
    BY <1>1
  <2> DEFINE o == [kind |-> kind, timestamp |-> time, status |-> "pending"]
  <2>2. orders \in Seq(Order) /\ o \in Order /\ orders' = Append(orders, o)
    BY <2>1 DEF SubmitOrder, SimInv, TypeOK, Order
  <2> HIDE DEF o
  <2>3. \A j \in Ids : orders'[j] = orders[j]
    BY <2>2, AppendProperties DEF Ids
  <2> QED
    BY <2>1, <2>3 DEF SubmitOrder, tradeVars
<1>2. CASE \E i \in Ids : CancelOrder(i)
  BY <1>2, StatusChange DEF CancelOrder, SimInv, tradeVars
<1>3. CASE \E f \in Feeds, quote \in Quotes, time \in Times : SetTime(f, quote, time)
  BY <1>3 DEF SetTime, bookVars, tradeVars
<1>4. CASE \E f \in Feeds : Acquire(f) \/ Scan(f)
  BY <1>4 DEF Acquire, Scan, Release, bookVars, tradeVars
<1>5. CASE UNCHANGED vars
  BY <1>5 DEF vars, bookVars, tradeVars
<1> QED
  BY <1>1, <1>2, <1>3, <1>4, <1>5 DEF Next, FeedStep, Done

\* However feeds and clients interleave and whatever fills fail, a position is
\* what was bought of its symbol less what was sold.
THEOREM PositionsAreTrades == Spec => []PositionsMatchTrades
<1>1. Init => PositionsMatchTrades
  <2> SUFFICES ASSUME Init PROVE PositionsMatchTrades
    OBVIOUS
  <2>1. \A side, s : Amounts(side, s) = <<>>
    BY DEF Init, Amounts
  <2>2. SumOf(<<>>) = 0
    <3>1. <<>> \in Seq(Int) /\ 0 \in Int
      BY EmptySeq
    <3> QED
      BY <3>1, SumAppend
  <2> QED
    BY <2>1, <2>2 DEF Init, Total, PositionsMatchTrades
<1>2. SimInv /\ PositionsMatchTrades /\ [Next]_vars => PositionsMatchTrades'
  <2> SUFFICES ASSUME SimInv, PositionsMatchTrades, [Next]_vars
               PROVE  PositionsMatchTrades'
    OBVIOUS
  <2>1. CASE \E f \in Feeds : FillAndPop(f)
    <3>1. PICK f \in Feeds : FillAndPop(f)
      BY <2>1
    <3> DEFINE t == [order |-> Head(pending), time |-> now]
    <3> SUFFICES ASSUME NEW s \in Symbols
                 PROVE  positions'[s] = Total("buy", s)' - Total("sell", s)'
      BY DEF PositionsMatchTrades
    <3>2. /\ Total("buy", s) \in Int /\ Total("buy", s)' = Total("buy", s) + Counted(t, "buy", s)
          /\ Total("sell", s) \in Int /\ Total("sell", s)' = Total("sell", s) + Counted(t, "sell", s)
      BY <3>1, TotalGrows
    <3>3. positions'[s] = positions[s] + Counted(t, "buy", s) - Counted(t, "sell", s)
      BY <3>1, PositionMoves
    <3>4. positions[s] = Total("buy", s) - Total("sell", s)
      BY DEF PositionsMatchTrades
    <3>5. Counted(t, "buy", s) \in Int /\ Counted(t, "sell", s) \in Int
      BY <3>1, FillFacts, CountedIsNumber DEF SimInv
    <3> HIDE DEF t
    <3> QED
      BY <3>2, <3>3, <3>4, <3>5
  <2>2. CASE ~\E f \in Feeds : FillAndPop(f)
    BY <2>2, OnlyFillsTrade, TotalsKept DEF SimInv
  <2> QED
    BY <2>1, <2>2
<1> QED
  BY <1>1, <1>2, SimInvariance, PTL DEF Spec

-----------------------------------------------------------------------------
(* ReplaySim: the inductive invariant *)

\* What the functions in force make of a record.
AfterStatic(record, by) ==
  IF by.scenario = Null THEN Start(record) ELSE Transform(Start(record), by.scenario)
After(record, by) ==
  IF by.kind = "assessment" THEN FoldLeft(ApplyTriggered, AfterStatic(record, by), by.dynamic)
  ELSE AfterStatic(record, by)

\* A record of the data is crossed only where a function left it so in place.
CrossedInPlace(place) ==
  \E j \in DOMAIN turns :
    turns[j].place = place /\ \E f \in Applied(turns[j].by) : CrossesInPlace(f)
DataInv == \A i \in DOMAIN data : Uncrossed(data[i]) \/ CrossedInPlace(i)

\* What may make the record of turn k a crossed one.
Reason(k) ==
  \/ \E f \in Applied(turns[k].by) : Crosses(f)
  \/ \E j \in 1..k : /\ turns[j].place = turns[k].place
                     /\ \E f \in Applied(turns[j].by) : CrossesInPlace(f)
TurnInv == \A k \in DOMAIN turns : Uncrossed(turns[k].record) \/ Reason(k)

\* The book shows the sides of the last record it was given; before, no price.
BookInv ==
  IF \A k \in DOMAIN turns : turns[k].raised THEN book.bids = NoLevels
  ELSE \E k \in DOMAIN turns :
         /\ ShownLast(k)
         /\ \A side \in {"bids", "asks"} :
              turns[k].record[side] # Missing => book[side] = turns[k].record[side]

\* Records may have been modified in place since turn i.
ModifyingTurn(k) == \E f \in Applied(turns[k].by) : Modifies(f)
ModifiedSince(i) == \E k \in i..Len(turns) : ModifyingTurn(k)

\* A turn did what its functions do with the record that is in the data now, as
\* long as none was modified since: what makes two runs comparable at all.
SourceInv ==
  \A i \in DOMAIN turns :
    \/ ModifiedSince(i)
    \/ LET again == After(data[turns[i].place], turns[i].by) IN
       turns[i].record = again.market /\ turns[i].raised = again.raised

ReplayInv ==
  ReplayTypeOK /\ DataInv /\ TurnInv /\ BookInv /\ SourceInv /\ RunsAreRepeatable

-----------------------------------------------------------------------------
(* The scenarios *)

Scenarios == INSTANCE Folding WITH Op <- ApplyTriggered

\* The states a record is in while the scenarios are applied to it: what is
\* handed on is the record in the data as long as no function returned another.
States ==
  {state \in [market : Record, stored : Record, copied : BOOLEAN, raised : BOOLEAN] :
     ~state.copied => state.market = state.stored}

\* The fold of the model and of Folding.
LEMMA FoldIsScenarios ==
  ASSUME NEW state, NEW scenarios
  PROVE  FoldLeft(ApplyTriggered, state, scenarios) = Scenarios!Fold(state, scenarios)
BY Zenon DEF FoldLeft, MapThenFoldSet, Max, Scenarios!Fold, Scenarios!FoldLeft,
             Scenarios!MapThenFoldSet, Scenarios!Max

\* What holds of the record at first, and is preserved by the functions in force
\* and by an exception, holds of what the scenarios make of it.
LEMMA ScenariosPreserve ==
  ASSUME NEW record, NEW by \in By, NEW P,
         Start(record) \in P,
         \A x \in P, f \in Applied(by) : Transform(x, f) \in P,
         \A x \in P, b \in BOOLEAN : ~x.raised => [x EXCEPT !.raised = b] \in P
  PROVE  After(record, by) \in P
<1> DEFINE first == AfterStatic(record, by)
           E == {d \in DynamicScenario : d.scenario \in Applied(by)}
<1>1. by.scenario \in Functions \cup {Null} /\ by.dynamic \in Seq(DynamicScenario)
  BY DEF By
<1>2. first \in P
  BY <1>1 DEF AfterStatic, Applied
<1> HIDE DEF first
<1>3. CASE by.kind = "assessment"
  <2>1. by.dynamic \in Seq(E)
    <3> DEFINE n == Len(by.dynamic)
    <3>1. n \in Nat /\ DOMAIN by.dynamic = 1..n /\ by.dynamic \in [1..n -> DynamicScenario]
      BY <1>1, LenProperties
    <3>2. \A i \in 1..n : by.dynamic[i] \in E
      <4> TAKE i \in 1..n
      <4>1. by.dynamic[i] \in DynamicScenario /\ by.dynamic[i] \in Range(by.dynamic)
        BY <3>1 DEF Range
      <4>2. by.dynamic[i].scenario \in Functions
        BY <4>1 DEF DynamicScenario
      <4> QED
        BY <1>3, <4>1, <4>2 DEF Applied
    <3> HIDE DEF n, E
    <3>3. by.dynamic \in [1..n -> E]
      BY <3>1, <3>2
    <3> QED
      BY <3>1, <3>3, SeqDef
  <2>2. \A x \in P, d \in E : ApplyTriggered(x, d) \in P
    <3> TAKE x \in P, d \in E
    <3>1. Transform(x, d.scenario) \in P
      OBVIOUS
    <3>2. CASE x.raised
      BY <3>2, Zenon DEF ApplyTriggered
    <3>3. CASE ~x.raised /\ Triggered(d.trigger, x.market)
      BY <3>1, <3>3, Zenon DEF ApplyTriggered
    <3>4. CASE ~x.raised /\ ~Triggered(d.trigger, x.market)
      <4>1. ApplyTriggered(x, d) =
              [x EXCEPT !.raised = Fires[d.trigger][x.market] = "raises"]
        BY <3>4, Zenon DEF ApplyTriggered
      <4>2. (Fires[d.trigger][x.market] = "raises") \in BOOLEAN
        OBVIOUS
      <4> QED
        BY <3>4, <4>1, <4>2, Zenon
    <3> QED
      BY <3>2, <3>3, <3>4, Zenon
  <2> HIDE DEF E
  <2>3. Scenarios!Fold(first, by.dynamic) \in P
    BY <1>2, <2>1, <2>2, Scenarios!FoldPreserves, Zenon
  <2>4. After(record, by) = Scenarios!Fold(first, by.dynamic)
    BY <1>3, FoldIsScenarios, Zenon DEF After, first
  <2> QED
    BY <2>3, <2>4
<1>4. CASE by.kind # "assessment"
  BY <1>2, <1>4, Zenon DEF After, first
<1> QED
  BY <1>3, <1>4

\* What a function does to a state, by what it does to its argument.
LEMMA TransformFacts ==
  ASSUME NEW state \in States, NEW f \in Functions
  PROVE  /\ Transform(state, f) \in States
         /\ Transform(state, f).market = Passed(Effect[f][state.market])
         /\ Transform(state, f).stored =
              IF state.copied THEN state.stored ELSE Effect[f][state.market].argument
<1> DEFINE made == Effect[f][state.market]
<1>1. /\ state.market \in Record /\ state.stored \in Record /\ state.copied \in BOOLEAN
      /\ ~state.copied => state.market = state.stored
  BY DEF States
<1>2. made \in Outcome
  BY <1>1, ReplayAssumption
<1> HIDE DEF made
<1>3. /\ made.argument \in Record /\ made.other \in Record
      /\ made.returns \in {"argument", "other", "raises"}
  BY <1>2 DEF Outcome
<1>4. Passed(made) \in Record /\ (made.returns # "other" => Passed(made) = made.argument)
  BY <1>3 DEF Passed
<1>5. Transform(state, f) =
        [market |-> Passed(made),
         stored |-> IF state.copied THEN state.stored ELSE made.argument,
         copied |-> state.copied \/ made.returns = "other",
         raised |-> made.returns = "raises"]
  BY Zenon DEF Transform, made
<1>6. Transform(state, f) \in States
  <2> DEFINE copied == state.copied \/ made.returns = "other"
             raised == made.returns = "raises"
             stored == IF state.copied THEN state.stored ELSE made.argument
  <2>1. copied \in BOOLEAN /\ raised \in BOOLEAN /\ stored \in Record
    BY <1>1, <1>3
  <2>2. ~copied => Passed(made) = stored
    BY <1>4
  <2>3. Transform(state, f) =
          [market |-> Passed(made), stored |-> stored, copied |-> copied, raised |-> raised]
    BY <1>5, Zenon
  <2> HIDE DEF copied, raised, stored
  <2> QED
    BY <1>4, <2>1, <2>2, <2>3 DEF States
<1> QED
  BY <1>5, <1>6 DEF made

\* What the scenarios make of a record of the data: they cross it, cross what is
\* stored, or change what is stored, only if one in force does so to some record.
LEMMA AfterScenarios ==
  ASSUME NEW record \in Record, NEW by \in By
  PROVE  LET last == After(record, by) IN
         /\ last \in States
         /\ Uncrossed(record) /\ (\A f \in Applied(by) : ~Crosses(f)) => Uncrossed(last.market)
         /\ Uncrossed(record) /\ (\A f \in Applied(by) : ~CrossesInPlace(f))
              => Uncrossed(last.stored)
         /\ (\A f \in Applied(by) : ~Modifies(f)) => last.stored = record
<1> DEFINE last == After(record, by)
<1>1. /\ Start(record) \in States /\ Start(record).market = record
      /\ Start(record).stored = record
  BY DEF Start, States
<1>2. Applied(by) \subseteq Functions
  BY DEF Applied, By
<1>3. \A x \in States, b \in BOOLEAN :
        /\ [x EXCEPT !.raised = b] \in States
        /\ [x EXCEPT !.raised = b].market = x.market
        /\ [x EXCEPT !.raised = b].stored = x.stored
  BY DEF States
<1>4. last \in States
  BY <1>1, <1>2, <1>3, TransformFacts, ScenariosPreserve
<1>5. \A x \in States : x.market \in Record /\ (~x.copied => x.market = x.stored)
  BY DEF States
<1>6. ASSUME Uncrossed(record), \A f \in Applied(by) : ~Crosses(f)
      PROVE  Uncrossed(last.market)
  <2> DEFINE P == {x \in States : Uncrossed(x.market)}
  <2>1. \A x \in P, f \in Applied(by) : Transform(x, f) \in P
    <3> TAKE x \in P, f \in Applied(by)
    <3>1. f \in Functions /\ x \in States /\ x.market \in Record /\ Uncrossed(x.market)
      BY <1>2, <1>5
    <3>2. Uncrossed(Passed(Effect[f][x.market]))
      BY <1>6, <3>1 DEF Crosses
    <3> QED
      BY <3>1, <3>2, TransformFacts
  <2>2. \A x \in P, b \in BOOLEAN : [x EXCEPT !.raised = b] \in P
    BY <1>3
  <2>3. Start(record) \in P
    BY <1>1, <1>6
  <2> HIDE DEF P
  <2>4. last \in P
    BY <2>1, <2>2, <2>3, ScenariosPreserve
  <2> QED
    BY <2>4 DEF P
<1>7. ASSUME Uncrossed(record), \A f \in Applied(by) : ~CrossesInPlace(f)
      PROVE  Uncrossed(last.stored)
  <2> DEFINE P == {x \in States : Uncrossed(x.stored)}
  <2>1. \A x \in P, f \in Applied(by) : Transform(x, f) \in P
    <3> TAKE x \in P, f \in Applied(by)
    <3>1. f \in Functions /\ x \in States /\ x.market \in Record
      BY <1>2, <1>5
    <3>2. ~x.copied => Uncrossed(Effect[f][x.market].argument)
      BY <1>5, <1>7, <3>1 DEF CrossesInPlace
    <3> QED
      BY <3>1, <3>2, TransformFacts
  <2>2. \A x \in P, b \in BOOLEAN : [x EXCEPT !.raised = b] \in P
    BY <1>3
  <2>3. Start(record) \in P
    BY <1>1, <1>7
  <2> HIDE DEF P
  <2>4. last \in P
    BY <2>1, <2>2, <2>3, ScenariosPreserve
  <2> QED
    BY <2>4 DEF P
<1>8. ASSUME \A f \in Applied(by) : ~Modifies(f)
      PROVE  last.stored = record
  <2> DEFINE P == {x \in States : x.stored = record}
  <2>1. \A x \in P, f \in Applied(by) : Transform(x, f) \in P
    <3> TAKE x \in P, f \in Applied(by)
    <3>1. f \in Functions /\ x \in States /\ x.market \in Record
      BY <1>2, <1>5
    <3>2. ~x.copied => Effect[f][x.market].argument = record
      BY <1>5, <1>8, <3>1 DEF Modifies
    <3> QED
      BY <3>1, <3>2, TransformFacts
  <2>2. \A x \in P, b \in BOOLEAN : [x EXCEPT !.raised = b] \in P
    BY <1>3
  <2>3. Start(record) \in P
    BY <1>1
  <2> HIDE DEF P
  <2>4. last \in P
    BY <2>1, <2>2, <2>3, ScenariosPreserve
  <2> QED
    BY <2>4 DEF P
<1> HIDE DEF last
<1> QED
  BY <1>4, <1>6, <1>7, <1>8, Zenon DEF last

\* What a run makes of the record at hand, by the functions in force.
LEMMA MadeIsAfter ==
  ASSUME ReplayTypeOK, TakeRecord
  PROVE  /\ run.next \in DOMAIN data /\ data[run.next] \in Record
         /\ InForce \in By
         /\ Made = After(data[run.next], InForce)
<1>1. /\ data \in Seq(Record) /\ dynamic \in Seq(DynamicScenario)
      /\ static \in [Static -> Functions \cup {Missing}]
      /\ run.kind \in {"none", "simulation", "assessment"}
      /\ run.scenario \in Static \cup {Null} /\ run.next \in Nat \ {0}
      /\ run.kind # "none" /\ run.next <= Len(data)
      /\ run.scenario # Null => static[run.scenario] # Missing
  BY DEF ReplayTypeOK, TakeRecord, InData, NotRegistered
<1>2. run.next \in DOMAIN data /\ data[run.next] \in Record
  <2>1. Len(data) \in Nat /\ DOMAIN data = 1..Len(data)
    BY <1>1, LenProperties
  <2>2. run.next \in DOMAIN data
    BY <1>1, <2>1
  <2> QED
    BY <1>1, <2>1, <2>2, ElementOfSeq
<1>3. InForce \in By
  BY <1>1 DEF InForce, By
<1>4. /\ InForce.kind = run.kind /\ InForce.dynamic = dynamic
      /\ run.scenario = Null => InForce.scenario = Null
      /\ run.scenario # Null => InForce.scenario = static[run.scenario] /\ InForce.scenario # Null
  BY <1>1, ReplayAssumption DEF InForce
<1>5. ApplyScenario(run.scenario, Start(data[run.next])) = AfterStatic(data[run.next], InForce)
  <2>1. CASE run.scenario = Null
    BY <1>4, <2>1, Zenon DEF ApplyScenario, AfterStatic
  <2>2. CASE run.scenario # Null
    BY <1>4, <2>2, Zenon DEF ApplyScenario, AfterStatic
  <2> QED
    BY <2>1, <2>2
<1>6. Made = After(data[run.next], InForce)
  <2>1. CASE run.kind = "assessment"
    BY <1>4, <1>5, <2>1, Zenon DEF Made, After, ApplyDynamicScenarios
  <2>2. CASE run.kind # "assessment"
    BY <1>4, <1>5, <2>2, Zenon DEF Made, After
  <2> QED
    BY <2>1, <2>2
<1> QED
  BY <1>2, <1>3, <1>6

-----------------------------------------------------------------------------
(* The steps *)

\* What taking a record does to data and history.
LEMMA TakeFacts ==
  ASSUME ReplayTypeOK, TakeRecord
  PROVE  LET at == run.next
             entry == [place |-> at, record |-> Made.market, raised |-> Made.raised,
                       by |-> InForce]
             n == Len(turns)
         IN  /\ at \in DOMAIN data /\ at \in Nat \ {0} /\ data[at] \in Record
             /\ InForce \in By /\ Made \in States /\ Made = After(data[at], InForce)
             /\ data' \in Seq(Record) /\ DOMAIN data' = DOMAIN data
             /\ data' = [data EXCEPT ![at] = Made.stored]
             /\ \A i \in DOMAIN data : data'[i] = IF i = at THEN Made.stored ELSE data[i]
             /\ turns' \in Seq(Turns) /\ Len(turns') = n + 1
             /\ n \in Nat /\ DOMAIN turns = 1..n /\ DOMAIN turns' = 1..(n + 1)
             /\ \A i \in 1..n : turns'[i] = turns[i]
             /\ turns'[n + 1] = entry
             /\ previous' \in Timestamps \cup {Null}
<1> DEFINE at == run.next
           entry == [place |-> at, record |-> Made.market, raised |-> Made.raised,
                     by |-> InForce]
           n == Len(turns)
<1>1. /\ at \in DOMAIN data /\ data[at] \in Record
      /\ InForce \in By /\ Made = After(data[at], InForce)
  BY MadeIsAfter
<1>2. Made \in States
  BY <1>1, AfterScenarios
<1>3. Made.market \in Record /\ Made.stored \in Record /\ Made.raised \in BOOLEAN
  BY <1>2 DEF States
<1>4. data \in Seq(Record) /\ turns \in Seq(Turns) /\ at \in Nat \ {0}
  BY DEF ReplayTypeOK
<1>5. /\ data' = [data EXCEPT ![at] = Made.stored]
      /\ turns' = Append(turns, entry)
      /\ previous' = Get(data[at].timestamp)
  BY Zenon DEF TakeRecord
<1>6. entry \in Turns
  BY <1>1, <1>3, <1>4 DEF Turns
<1> HIDE DEF at, entry
<1>7. Len(data) \in Nat /\ DOMAIN data = 1..Len(data) /\ data \in [1..Len(data) -> Record]
  BY <1>4, LenProperties
<1>8. /\ data' \in Seq(Record) /\ DOMAIN data' = DOMAIN data
      /\ \A i \in DOMAIN data : data'[i] = IF i = at THEN Made.stored ELSE data[i]
  <2>1. data' \in [1..Len(data) -> Record]
    BY <1>1, <1>3, <1>5, <1>7
  <2> QED
    BY <1>1, <1>5, <1>7, <2>1, SeqDef
<1>9. /\ turns' \in Seq(Turns) /\ Len(turns') = n + 1
      /\ n \in Nat /\ DOMAIN turns = 1..n
      /\ \A i \in 1..n : turns'[i] = turns[i]
      /\ turns'[n + 1] = entry
  BY <1>4, <1>5, <1>6, AppendProperties, LenProperties
<1>10. DOMAIN turns' = 1..(n + 1)
  BY <1>9, LenProperties
<1>11. data[at].timestamp \in Timestamps \cup {Missing, Null}
  BY <1>1 DEF Record
<1>12. previous' \in Timestamps \cup {Null}
  BY <1>5, <1>11 DEF Get
<1> QED
  BY <1>1, <1>2, <1>4, <1>5, <1>8, <1>9, <1>10, <1>12, Zenon DEF at, entry

\* Data and history after it: a crossed record has its reason, in the functions
\* in force or in those that left it crossed.
LEMMA TakeKeepsReasons ==
  ASSUME ReplayTypeOK, DataInv, TurnInv, TakeRecord
  PROVE  DataInv' /\ TurnInv'
<1> DEFINE at == run.next
           n == Len(turns)
<1>1. /\ at \in DOMAIN data /\ data[at] \in Record
      /\ InForce \in By /\ Made = After(data[at], InForce)
      /\ DOMAIN data' = DOMAIN data
      /\ \A i \in DOMAIN data : data'[i] = IF i = at THEN Made.stored ELSE data[i]
      /\ n \in Nat /\ DOMAIN turns = 1..n /\ DOMAIN turns' = 1..(n + 1)
      /\ \A i \in 1..n : turns'[i] = turns[i]
      /\ turns'[n + 1].place = at /\ turns'[n + 1].record = Made.market
      /\ turns'[n + 1].by = InForce
  BY TakeFacts
<1>2. /\ Uncrossed(data[at]) /\ (\A f \in Applied(InForce) : ~Crosses(f))
           => Uncrossed(Made.market)
      /\ Uncrossed(data[at]) /\ (\A f \in Applied(InForce) : ~CrossesInPlace(f))
           => Uncrossed(Made.stored)
  BY <1>1, AfterScenarios
<1> HIDE DEF at, n
<1>3. \A i \in DOMAIN data :
        CrossedInPlace(i) =>
          \E j \in 1..n : /\ turns'[j].place = i
                          /\ \E f \in Applied(turns'[j].by) : CrossesInPlace(f)
  BY <1>1 DEF CrossedInPlace
<1>4. DataInv'
  <2> SUFFICES ASSUME NEW i \in DOMAIN data, ~Uncrossed(data'[i])
               PROVE  \E j \in 1..(n + 1) :
                        /\ turns'[j].place = i
                        /\ \E f \in Applied(turns'[j].by) : CrossesInPlace(f)
    <3>1. DataInv' <=>
            \A i \in DOMAIN data' :
              \/ Uncrossed(data'[i])
              \/ \E j \in DOMAIN turns' :
                   /\ turns'[j].place = i
                   /\ \E f \in Applied(turns'[j].by) : CrossesInPlace(f)
      BY DEF DataInv, CrossedInPlace, Uncrossed, Applied, CrossesInPlace
    <3> QED
      BY <1>1, <3>1, Zenon
  <2>1. CASE CrossedInPlace(i)
    <3>1. PICK j \in 1..n : /\ turns'[j].place = i
                            /\ \E f \in Applied(turns'[j].by) : CrossesInPlace(f)
      BY <1>3, <2>1
    <3>2. j \in 1..(n + 1)
      BY <1>1
    <3> QED
      BY <3>1, <3>2
  <2>2. CASE ~CrossedInPlace(i)
    <3>1. Uncrossed(data[i]) /\ i = at
      BY <1>1, <2>2 DEF DataInv
    <3>2. \E f \in Applied(InForce) : CrossesInPlace(f)
      BY <1>1, <1>2, <3>1
    <3>3. n + 1 \in 1..(n + 1)
      BY <1>1
    <3> QED
      BY <1>1, <3>1, <3>2, <3>3, Zenon
  <2> QED
    BY <2>1, <2>2
<1>5. TurnInv'
  <2> SUFFICES ASSUME NEW k \in 1..(n + 1), ~Uncrossed(turns'[k].record)
               PROVE  \/ \E f \in Applied(turns'[k].by) : Crosses(f)
                      \/ \E j \in 1..k : /\ turns'[j].place = turns'[k].place
                                         /\ \E f \in Applied(turns'[j].by) : CrossesInPlace(f)
    <3>1. TurnInv' <=>
            \A k \in DOMAIN turns' :
              \/ Uncrossed(turns'[k].record)
              \/ \E f \in Applied(turns'[k].by) : Crosses(f)
              \/ \E j \in 1..k :
                   /\ turns'[j].place = turns'[k].place
                   /\ \E f \in Applied(turns'[j].by) : CrossesInPlace(f)
      BY DEF TurnInv, Reason, Uncrossed, Applied, Crosses, CrossesInPlace
    <3> QED
      BY <1>1, <3>1, Zenon
  <2>1. CASE k \in 1..n
    <3>1. Reason(k) /\ turns'[k] = turns[k]
      BY <1>1, <2>1 DEF TurnInv
    <3>2. \A j \in 1..k : turns'[j] = turns[j]
      BY <1>1, <2>1
    <3> QED
      BY <3>1, <3>2 DEF Reason
  <2>2. CASE k = n + 1
    <3>1. CASE Uncrossed(data[at])
      BY <1>1, <1>2, <2>2, <3>1
    <3>2. CASE ~Uncrossed(data[at])
      <4>1. PICK j \in 1..n : /\ turns'[j].place = at
                              /\ \E f \in Applied(turns'[j].by) : CrossesInPlace(f)
        BY <1>1, <1>3, <3>2 DEF DataInv
      <4>2. j \in 1..k
        BY <1>1, <2>2
      <4> QED
        BY <1>1, <2>2, <4>1, <4>2, Zenon
    <3> QED
      BY <3>1, <3>2
  <2> QED
    BY <1>1, <2>1, <2>2
<1> QED
  BY <1>4, <1>5

\* Sources and repeatability after it: a turn that modifies nothing in place
\* leaves the data alone; of any other the history tells.
LEMMA TakeKeepsSources ==
  ASSUME ReplayTypeOK, SourceInv, RunsAreRepeatable, TakeRecord
  PROVE  SourceInv' /\ RunsAreRepeatable'
<1> DEFINE at == run.next
           n == Len(turns)
           Modifying(turn) == \E f \in Applied(turn.by) : Modifies(f)
           Same(turn, other) == turn.record = other.record /\ turn.raised = other.raised
           Sourced(turn, record) == /\ turn.record = After(record, turn.by).market
                                    /\ turn.raised = After(record, turn.by).raised
<1>1. /\ at \in DOMAIN data /\ data[at] \in Record
      /\ InForce \in By /\ Made = After(data[at], InForce)
      /\ data \in Seq(Record)
      /\ data' = [data EXCEPT ![at] = Made.stored]
      /\ n \in Nat /\ DOMAIN turns = 1..n /\ DOMAIN turns' = 1..(n + 1) /\ Len(turns') = n + 1
      /\ \A i \in 1..n : turns'[i] = turns[i]
      /\ turns'[n + 1].place = at /\ turns'[n + 1].by = InForce
      /\ turns'[n + 1].record = Made.market /\ turns'[n + 1].raised = Made.raised
  BY TakeFacts DEF ReplayTypeOK
<1>2. Modifying(turns'[n + 1]) \/ data' = data
  <2> SUFFICES ASSUME \A f \in Applied(InForce) : ~Modifies(f) PROVE data' = data
    BY <1>1
  <2>1. Made.stored = data[at]
    BY <1>1, AfterScenarios
  <2> QED
    BY <1>1, <2>1
<1>3. Sourced(turns'[n + 1], data[at])
  BY <1>1
<1>4. /\ SourceInv => \A i \in 1..n : \/ \E k \in i..n : Modifying(turns[k])
                                      \/ Sourced(turns[i], data[turns[i].place])
      /\ RunsAreRepeatable => \A i, j \in 1..n :
           i < j /\ turns[i].place = turns[j].place /\ turns[i].by = turns[j].by =>
             Same(turns[i], turns[j]) \/ \E k \in i..j : Modifying(turns[k])
  BY <1>1 DEF SourceInv, ModifiedSince, ModifyingTurn, RunsAreRepeatable
<1>5. /\ SourceInv' <=> \A i \in DOMAIN turns' :
           \/ \E k \in i..Len(turns') : Modifying(turns'[k])
           \/ Sourced(turns'[i], data'[turns'[i].place])
      /\ RunsAreRepeatable' <=> \A i, j \in DOMAIN turns' :
           i < j /\ turns'[i].place = turns'[j].place /\ turns'[i].by = turns'[j].by =>
             Same(turns'[i], turns'[j]) \/ \E k \in i..j : Modifying(turns'[k])
  BY DEF SourceInv, ModifiedSince, ModifyingTurn, RunsAreRepeatable, Applied, Modifies,
         After, AfterStatic, Start
<1> HIDE DEF n, at, Modifying, Same, Sourced
<1>6. \A i \in 1..n : i \in 1..(n + 1) /\ (\A k \in i..n : k \in 1..n /\ k \in i..(n + 1))
  BY <1>1
<1>7. ASSUME NEW i \in 1..(n + 1), \A k \in i..(n + 1) : ~Modifying(turns'[k])
      PROVE  data' = data /\ Sourced(turns'[i], data'[turns'[i].place])
  <2>1. n + 1 \in i..(n + 1)
    BY <1>1
  <2>2. data' = data
    BY <1>2, <1>7, <2>1
  <2>3. CASE i \in 1..n
    <3>1. \A k \in i..n : ~Modifying(turns[k])
      BY <1>1, <1>6, <1>7, <2>3
    <3>2. Sourced(turns[i], data[turns[i].place]) /\ turns'[i] = turns[i]
      BY <1>1, <1>4, <2>3, <3>1
    <3> QED
      BY <2>2, <3>2
  <2>4. CASE i = n + 1
    BY <1>1, <1>3, <2>2, <2>4
  <2> QED
    BY <1>1, <2>2, <2>3, <2>4
<1>8. SourceInv'
  BY <1>1, <1>5, <1>7
<1>9. RunsAreRepeatable'
  <2> SUFFICES ASSUME NEW i \in 1..(n + 1), NEW j \in 1..(n + 1), i < j,
                      turns'[i].place = turns'[j].place, turns'[i].by = turns'[j].by,
                      \A k \in i..j : ~Modifying(turns'[k])
               PROVE  Same(turns'[i], turns'[j])
    BY <1>1, <1>5
  <2>1. i \in 1..n /\ turns'[i] = turns[i]
    BY <1>1
  <2>2. CASE j \in 1..n
    <3>1. turns'[j] = turns[j] /\ \A k \in i..j : k \in 1..n /\ turns'[k] = turns[k]
      BY <1>1, <2>1, <2>2
    <3> QED
      BY <1>4, <2>1, <2>2, <3>1
  <2>3. CASE j = n + 1
    <3>1. /\ Sourced(turns'[i], data'[turns'[i].place])
          /\ Sourced(turns'[j], data'[turns'[j].place])
      BY <1>1, <1>3, <1>7, <2>3
    <3> QED
      BY <3>1 DEF Sourced, Same
  <2> QED
    BY <1>1, <2>2, <2>3
<1> QED
  BY <1>8, <1>9

\* The book after it: either it shows the new record, or the turn raised.
LEMMA TakeKeepsBook ==
  ASSUME ReplayTypeOK, BookInv, TakeRecord,
         IF Made.raised THEN book' = book ELSE UpdateBook(Made.market)
  PROVE  BookInv'
<1> DEFINE n == Len(turns)
           Shown(k) == /\ ~turns'[k].raised
                       /\ \A j \in DOMAIN turns' : j > k => turns'[j].raised
                       /\ \A side \in {"bids", "asks"} :
                            turns'[k].record[side] # Missing =>
                              book'[side] = turns'[k].record[side]
<1>1. /\ n \in Nat /\ DOMAIN turns = 1..n /\ DOMAIN turns' = 1..(n + 1)
      /\ \A i \in 1..n : turns'[i] = turns[i]
      /\ turns'[n + 1].record = Made.market /\ turns'[n + 1].raised = Made.raised
  BY TakeFacts
<1>2. /\ (\A k \in DOMAIN turns' : turns'[k].raised) /\ book'.bids = NoLevels => BookInv'
      /\ (\E k \in DOMAIN turns' : Shown(k)) => BookInv'
  BY DEF BookInv, ShownLast
<1> HIDE DEF n
<1>0. \A k \in 1..(n + 1) : k \in 1..n \/ k = n + 1
  BY <1>1
<1>3. CASE ~Made.raised
  <2>1. \A side \in {"bids", "asks"} :
          Made.market[side] # Missing => book'[side] = Made.market[side]
    BY <1>3 DEF UpdateBook
  <2>2. Shown(n + 1)
    BY <1>1, <1>3, <2>1
  <2>3. n + 1 \in DOMAIN turns'
    BY <1>1
  <2> QED
    BY <1>2, <2>2, <2>3
<1>4. CASE Made.raised
  <2>1. book' = book
    BY <1>4
  <2>2. CASE \A k \in DOMAIN turns : turns[k].raised
    <3>1. \A k \in DOMAIN turns' : turns'[k].raised
      BY <1>0, <1>1, <1>4, <2>2, Zenon
    <3>2. book'.bids = NoLevels
      BY <2>1, <2>2, Zenon DEF BookInv
    <3> QED
      BY <1>2, <3>1, <3>2
  <2>3. CASE ~\A k \in DOMAIN turns : turns[k].raised
    <3>1. PICK k \in DOMAIN turns :
            /\ ShownLast(k)
            /\ \A side \in {"bids", "asks"} :
                 turns[k].record[side] # Missing => book[side] = turns[k].record[side]
      BY <2>3 DEF BookInv
    <3>2. k \in 1..n /\ k \in DOMAIN turns' /\ turns'[k] = turns[k]
      BY <1>1
    <3>3. \A j \in DOMAIN turns' : j > k => turns'[j].raised
      BY <1>0, <1>1, <1>4, <3>1, Zenon DEF ShownLast
    <3>4. Shown(k)
      BY <2>1, <3>1, <3>2, <3>3, Zenon DEF ShownLast
    <3> QED
      BY <1>2, <3>2, <3>4
  <2> QED
    BY <2>2, <2>3
<1> QED
  BY <1>3, <1>4

\* The three steps of a run that take a record.
LEMMA TakingSteps ==
  ASSUME ReplayInv, Turn \/ ScenarioRaises \/ AssessmentRaises
  PROVE  ReplayInv'
<1>1. TakeRecord
  BY DEF Turn, ScenarioRaises, AssessmentRaises
<1>2. ReplayTypeOK /\ DataInv /\ TurnInv /\ BookInv /\ SourceInv /\ RunsAreRepeatable
  BY DEF ReplayInv
<1>3. IF Made.raised THEN book' = book ELSE UpdateBook(Made.market)
  BY DEF Turn, ScenarioRaises, AssessmentRaises
<1>4. Made \in States /\ data' \in Seq(Record) /\ turns' \in Seq(Turns)
      /\ previous' \in Timestamps \cup {Null}
  BY <1>1, <1>2, TakeFacts
<1>5. book' \in [{"bids", "asks"} -> Sides]
  <2>1. Made.market \in Record /\ book \in [{"bids", "asks"} -> Sides]
    BY <1>2, <1>4 DEF States, ReplayTypeOK
  <2>2. \A side \in {"bids", "asks"} : Made.market[side] \in Sides
    BY <2>1 DEF Record
  <2>3. CASE Made.raised
    BY <1>3, <2>1, <2>3
  <2>4. CASE ~Made.raised
    BY <1>3, <2>1, <2>2, <2>4 DEF UpdateBook
  <2> QED
    BY <2>3, <2>4
<1>6. run' \in [kind : {"none", "simulation", "assessment"},
                scenario : Static \cup {Null}, next : Nat \ {0}]
  <2>1. run' = [run EXCEPT !.next = @ + 1] \/ run' = [run EXCEPT !.kind = "none"]
    BY Zenon DEF Turn, ScenarioRaises, AssessmentRaises, EndRun
  <2>2. /\ run.next \in Nat \ {0} => run.next + 1 \in Nat \ {0}
        /\ run \in [kind : {"none", "simulation", "assessment"},
                   scenario : Static \cup {Null}, next : Nat \ {0}]
    BY <1>2 DEF ReplayTypeOK
  <2> QED
    BY <2>1, <2>2
<1>7. UNCHANGED <<static, dynamic, registered, runs>>
  BY <1>1, Zenon DEF TakeRecord, scenarioVars
<1>8. ReplayTypeOK'
  BY <1>2, <1>4, <1>5, <1>6, <1>7 DEF ReplayTypeOK
<1>9. DataInv' /\ TurnInv'
  BY <1>1, <1>2, TakeKeepsReasons
<1>10. SourceInv' /\ RunsAreRepeatable'
  BY <1>1, <1>2, TakeKeepsSources
<1>11. BookInv'
  BY <1>1, <1>2, <1>3, TakeKeepsBook
<1> QED
  BY <1>8, <1>9, <1>10, <1>11 DEF ReplayInv

\* It holds at first.
LEMMA InitReplayInv ==
  ReplayInit => ReplayInv
<1> SUFFICES ASSUME ReplayInit PROVE ReplayInv
  OBVIOUS
<1>1. ReplayTypeOK
  <2>1. data \in Seq(Record)
    BY ReplayAssumption DEF ReplayInit
  <2>2. <<>> \in Seq(DynamicScenario) /\ <<>> \in Seq(Turns)
    BY EmptySeq
  <2>3. book \in [{"bids", "asks"} -> Sides]
    BY DEF ReplayInit, Sides
  <2> QED
    BY <2>1, <2>2, <2>3, ReplayAssumption DEF ReplayInit, ReplayTypeOK
<1>2. DataInv
  BY ReplayAssumption DEF ReplayInit, DataInv
<1>3. DOMAIN turns = {} /\ book.bids = NoLevels
  BY DEF ReplayInit
<1>4. TurnInv /\ BookInv /\ SourceInv /\ RunsAreRepeatable
  BY <1>3 DEF TurnInv, BookInv, SourceInv, RunsAreRepeatable
<1> QED
  BY <1>1, <1>2, <1>4 DEF ReplayInv

\* Data, book and history are untouched by every other step.
LEMMA MarketUntouched ==
  ASSUME ReplayInv, ReplayTypeOK', UNCHANGED <<data, book, turns>>
  PROVE  ReplayInv'
<1>1. DataInv' /\ TurnInv'
  <2>1. DataInv'
    BY DEF ReplayInv, DataInv, CrossedInPlace, Uncrossed, Applied, CrossesInPlace
  <2>2. \A k : Reason(k)' <=> Reason(k)
    BY DEF Reason, Uncrossed, Applied, Crosses, CrossesInPlace
  <2>3. TurnInv'
    BY <2>2 DEF ReplayInv, TurnInv, Uncrossed
  <2> QED
    BY <2>1, <2>3
<1>2. BookInv'
  BY DEF ReplayInv, BookInv, ShownLast
<1>3. SourceInv'
  <2>1. \A i : ModifiedSince(i)' <=> ModifiedSince(i)
    BY DEF ModifiedSince, ModifyingTurn, Applied, Modifies
  <2>2. SourceInv
    BY DEF ReplayInv
  <2> QED
    BY <2>1, <2>2 DEF SourceInv, After, AfterStatic, Start
<1>4. RunsAreRepeatable'
  BY DEF ReplayInv, RunsAreRepeatable, Applied, Modifies
<1> QED
  BY <1>1, <1>2, <1>3, <1>4 DEF ReplayInv

\* A registration replaces an entry or appends one.
LEMMA DynamicRegistered ==
  ASSUME ReplayTypeOK, NEW name \in Dynamic, NEW trigger \in Triggers,
         NEW function \in Functions, RegisterDynamicScenario(name, trigger, function)
  PROVE  dynamic' \in Seq(DynamicScenario)
<1> DEFINE entry == [name |-> name, trigger |-> trigger, scenario |-> function]
           n == Len(dynamic)
<1>1. entry \in DynamicScenario /\ entry.name = name
  BY DEF DynamicScenario
<1>2. dynamic \in Seq(DynamicScenario)
  BY DEF ReplayTypeOK
<1>3. n \in Nat /\ DOMAIN dynamic = 1..n /\ dynamic \in [1..n -> DynamicScenario]
  BY <1>2, LenProperties
<1>4. dynamic' = IF \E i \in DOMAIN dynamic : dynamic[i].name = name
                 THEN [i \in DOMAIN dynamic |->
                         IF dynamic[i].name = name THEN entry ELSE dynamic[i]]
                 ELSE Append(dynamic, entry)
  BY Zenon DEF RegisterDynamicScenario
<1> HIDE DEF entry, n
<1>5. [i \in DOMAIN dynamic |-> IF dynamic[i].name = name THEN entry ELSE dynamic[i]]
        \in Seq(DynamicScenario)
  BY <1>1, <1>3, SeqDef
<1>6. Append(dynamic, entry) \in Seq(DynamicScenario)
  BY <1>1, <1>2, AppendProperties
<1> QED
  BY <1>4, <1>5, <1>6

-----------------------------------------------------------------------------
(* The theorems about the replay *)

\* The invariant holds: whatever the functions of the scenarios do, every crossed
\* record of the data and of the history has its reason in them, and the history
\* accounts for what is in the data.
THEOREM ReplayInvariance == ReplaySpec => []ReplayInv
<1>1. ReplayInit => ReplayInv
  BY InitReplayInv
<1>2. ReplayInv /\ [ReplayNext]_replayVars => ReplayInv'
  <2> SUFFICES ASSUME ReplayInv, [ReplayNext]_replayVars PROVE ReplayInv'
    OBVIOUS
  <2>1. /\ ReplayTypeOK /\ MaxRegistrations \in Nat /\ MaxRuns \in Nat
        /\ registered \in 0..MaxRegistrations /\ runs \in 0..MaxRuns
        /\ static \in [Static -> Functions \cup {Missing}]
        /\ run \in [kind : {"none", "simulation", "assessment"},
                    scenario : Static \cup {Null}, next : Nat \ {0}]
    BY ReplayAssumption DEF ReplayInv, ReplayTypeOK
  <2>2. ASSUME NEW n \in Static, NEW f \in Functions, RegisterScenario(n, f) PROVE ReplayInv'
    <3>1. registered' \in 0..MaxRegistrations /\ static' \in [Static -> Functions \cup {Missing}]
      BY <2>1, <2>2 DEF RegisterScenario
    <3>2. UNCHANGED <<data, book, dynamic, run, previous, runs, turns>>
      BY <2>2, Zenon DEF RegisterScenario
    <3>3. ReplayTypeOK'
      BY <2>1, <3>1, <3>2 DEF ReplayTypeOK
    <3> QED
      BY <3>2, <3>3, MarketUntouched
  <2>3. ASSUME NEW n \in Dynamic, NEW t \in Triggers, NEW f \in Functions,
               RegisterDynamicScenario(n, t, f)
        PROVE  ReplayInv'
    <3>1. registered' \in 0..MaxRegistrations
      BY <2>1, <2>3 DEF RegisterDynamicScenario
    <3>2. UNCHANGED <<data, book, static, run, previous, runs, turns>>
      BY <2>3, Zenon DEF RegisterDynamicScenario
    <3>3. dynamic' \in Seq(DynamicScenario)
      BY <2>1, <2>3, DynamicRegistered
    <3>4. ReplayTypeOK'
      BY <2>1, <3>1, <3>2, <3>3 DEF ReplayTypeOK
    <3> QED
      BY <3>2, <3>4, MarketUntouched
  <2>4. ASSUME NEW kind \in {"simulation", "assessment"}, NEW n \in Static \cup {Null},
               Begin(kind, n)
        PROVE  ReplayInv'
    <3>1. runs' \in 0..MaxRuns /\ previous' \in Timestamps \cup {Null}
      BY <2>1, <2>4 DEF Begin
    <3>2. run' \in [kind : {"none", "simulation", "assessment"},
                    scenario : Static \cup {Null}, next : Nat \ {0}]
      BY <2>4 DEF Begin
    <3>3. UNCHANGED <<data, book, static, dynamic, registered, turns>>
      BY <2>4, Zenon DEF Begin, scenarioVars
    <3>4. ReplayTypeOK'
      BY <2>1, <3>1, <3>2, <3>3 DEF ReplayTypeOK
    <3> QED
      BY <3>3, <3>4, MarketUntouched
  <2>5. ASSUME Turn \/ ScenarioRaises \/ AssessmentRaises PROVE ReplayInv'
    BY <2>5, TakingSteps
  <2>6. ASSUME TurnFails \/ Return PROVE ReplayInv'
    <3>1. /\ run' = [run EXCEPT !.kind = "none"]
          /\ UNCHANGED <<data, book, static, dynamic, registered, previous, runs, turns>>
      BY <2>6, Zenon DEF TurnFails, Return, EndRun, scenarioVars
    <3>2. run' \in [kind : {"none", "simulation", "assessment"},
                    scenario : Static \cup {Null}, next : Nat \ {0}]
      BY <2>1, <3>1
    <3>3. ReplayTypeOK'
      BY <2>1, <3>1, <3>2 DEF ReplayTypeOK
    <3> QED
      BY <3>1, <3>3, MarketUntouched
  <2>7. ASSUME UNCHANGED replayVars PROVE ReplayInv'
    <3>1. UNCHANGED <<data, book, static, dynamic, registered, run, previous, runs, turns>>
      BY <2>7, Zenon DEF replayVars, scenarioVars
    <3>2. ReplayTypeOK'
      BY <2>1, <3>1 DEF ReplayTypeOK
    <3> QED
      BY <3>1, <3>2, MarketUntouched
  <2> QED
    BY <2>2, <2>3, <2>4, <2>5, <2>6, <2>7 DEF ReplayNext, ReplayDone
<1> QED
  BY <1>1, <1>2, PTL DEF ReplaySpec

\* The book of uncrossed data is crossed only because the record shown last lacks
\* a side, or because of a function that crosses markets, in force then or, in
\* place, before.
THEOREM CrossedOnlyForAReason == ReplaySpec => []CrossedForAReason
<1>1. ReplayInv => CrossedForAReason
  <2> SUFFICES ASSUME ReplayInv, book.bids \in Prices, book.asks \in Prices,
                      book.bids >= book.asks
               PROVE  \E k \in DOMAIN turns :
                        /\ ShownLast(k)
                        /\ \/ turns[k].record.bids = Missing \/ turns[k].record.asks = Missing
                           \/ Reason(k)
    BY DEF CrossedForAReason, Reason
  <2>1. ~\A k \in DOMAIN turns : turns[k].raised
    BY ReplayAssumption DEF ReplayInv, BookInv
  <2>2. PICK k \in DOMAIN turns :
          /\ ShownLast(k)
          /\ \A side \in {"bids", "asks"} :
               turns[k].record[side] # Missing => book[side] = turns[k].record[side]
    BY <2>1 DEF ReplayInv, BookInv
  <2>3. CASE turns[k].record.bids # Missing /\ turns[k].record.asks # Missing
    <3>1. book.bids = turns[k].record.bids /\ book.asks = turns[k].record.asks
      BY <2>2, <2>3
    <3>2. ~(book.bids < book.asks)
      <4>1. book.bids \in Int /\ book.asks \in Int
        BY ReplayAssumption
      <4> QED
        BY <4>1
    <3>3. ~Uncrossed(turns[k].record)
      BY <3>1, <3>2, Zenon DEF Uncrossed
    <3>4. Reason(k)
      BY <3>3 DEF ReplayInv, TurnInv
    <3> QED
      BY <2>2, <3>4
  <2> QED
    BY <2>2, <2>3
<1> QED
  BY <1>1, ReplayInvariance, PTL

\* Runs with the same scenarios make the same of the same records, unless a
\* function that modifies records in place was in force in between.
THEOREM RunsRepeat == ReplaySpec => []RunsAreRepeatable
<1>1. ReplayInv => RunsAreRepeatable
  BY DEF ReplayInv
<1> QED
  BY <1>1, ReplayInvariance, PTL
=============================================================================
