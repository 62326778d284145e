----------------------------- MODULE Simulator ------------------------------
(***************************************************************************)
(* The order path of CombinedSimulator, src/core/simulator/                *)
(* InternalSimulator.py: clients submit and cancel orders, and market data *)
(* feeds call process_tick, each in a thread of its own.                   *)
(*                                                                         *)
(* submit_order and cancel_order run under order_lock from their first     *)
(* access to the last and are one action each.  process_tick is split      *)
(* where another thread can be seen: it stores current_time_ns before it   *)
(* takes order_lock, and reads it again for every order it looks at and    *)
(* for every trade it records, so a second feed can change it in between.  *)
(* What a fill does to the price of a position is in PositionAccounting.   *)
(***************************************************************************)
EXTENDS Integers, Sequences, FiniteSets, SequencesExt

CONSTANTS
  Feeds,        \* the threads that call process_tick
  Symbols,
  OrderKinds,   \* the orders clients submit: [symbol, side, qty, limit]
  Quotes,       \* the ticks feeds deliver: [symbol, price]
  Latency,      \* simulate_latency_ns
  BadQty,       \* a quantity that arithmetic rejects (None, a string)
  BadPrice,     \* a tick price that comparison rejects
  None,
  MaxOrders, MaxTicks, MaxTime    \* bounds of the model

ASSUME SimulatorAssumption ==
  /\ Latency \in Nat /\ MaxOrders \in Nat /\ MaxTicks \in Nat /\ MaxTime \in Nat
  /\ \A k \in OrderKinds :
       /\ k.symbol \in Symbols /\ k.side \in {"buy", "sell"}
       /\ k.qty = BadQty \/ k.qty \in Int
  /\ None \notin Feeds
  /\ \A q \in Quotes : q.symbol \in Symbols

VARIABLES
  orders,       \* self.orders; the id of an order is its index
  pending,      \* self.pending_orders
  now,          \* self.current_time_ns
  lock,         \* the feed that holds order_lock
  pc,           \* where each feed is in process_tick
  tick,         \* the arguments of each feed's latest process_tick
  order,        \* each feed's local variable of that name: the order it fills
  ticks,        \* how many ticks have been delivered (bounded by MaxTicks)
  trades,       \* self.executed_trades
  positions,    \* self.positions: the quantity held in each symbol
  tradeLog,     \* self.trade_log, by order id; totals and equity grow with it
  cancelled,    \* history: the orders for which cancel_order returned True
  raced         \* history: a process_tick began inside that of another feed

bookVars == <<orders, pending, cancelled>>
tradeVars == <<trades, positions, tradeLog>>
feedVars == <<pc, order, tick, ticks>>
clockVars == <<now, raced>>
vars == <<bookVars, tradeVars, feedVars, clockVars, lock>>

Ids == 1..Len(orders)
Times == 0..MaxTime
Tick == [symbol : Symbols, price : {q.price : q \in Quotes}, time : Times]
Order == [kind : OrderKinds, timestamp : Times,
          status : {"pending", "filled", "cancelled"}]

TypeOK ==
  /\ orders \in Seq(Order) /\ Len(orders) <= MaxOrders
  /\ pending \in Seq(Ids)
  /\ now \in Times /\ raced \in BOOLEAN
  /\ lock \in Feeds \cup {None}
  /\ pc \in [Feeds -> {"idle", "waiting", "scan", "fill"}]
  /\ tick \in [Feeds -> Tick \cup {None}]
  /\ ticks \in 0..MaxTicks
  /\ order \in [Feeds -> Ids \cup {None}]
  /\ trades \in Seq([order : Ids, time : Times])
  /\ positions \in [Symbols -> Int]
  /\ tradeLog \in Seq(Ids)
  /\ cancelled \subseteq Ids

Init ==
  /\ orders = <<>> /\ pending = <<>> /\ cancelled = {}
  /\ now = 0 /\ raced = FALSE /\ lock = None
  /\ pc = [f \in Feeds |-> "idle"] /\ tick = [f \in Feeds |-> None] /\ ticks = 0
  /\ order = [f \in Feeds |-> None]
  /\ trades = <<>> /\ positions = [s \in Symbols |-> 0] /\ tradeLog = <<>>

-----------------------------------------------------------------------------
(* Clients *)

\* submit_order.  The submission time is the caller's, or a clock read before
\* the lock is taken: times need not come in the order of the ids.
SubmitOrder(kind, time) ==
  /\ lock = None /\ Len(orders) < MaxOrders
  /\ orders' = Append(orders, [kind |-> kind, timestamp |-> time, status |-> "pending"])
  /\ pending' = Append(pending, Len(orders) + 1)
  /\ UNCHANGED <<clockVars, lock, cancelled, feedVars>>
  /\ UNCHANGED tradeVars

\* cancel_order, when it returns True; otherwise it changes nothing.
CancelOrder(i) ==
  /\ lock = None /\ orders[i].status = "pending"
  /\ orders' = [orders EXCEPT ![i].status = "cancelled"]
  /\ cancelled' = cancelled \cup {i}
  /\ UNCHANGED <<pending, clockVars, lock, feedVars>>
  /\ UNCHANGED tradeVars

-----------------------------------------------------------------------------
(* process_tick *)

\* self.current_time_ns = timestamp_ns, which nothing compares with the last one.
SetTime(f, quote, time) ==
  /\ pc[f] = "idle" /\ ticks < MaxTicks
  /\ now' = time
  /\ raced' = (raced \/ \E g \in Feeds \ {f} : pc[g] # "idle")
  /\ tick' = [tick EXCEPT ![f] =
                [symbol |-> quote.symbol, price |-> quote.price, time |-> time]]
  /\ ticks' = ticks + 1
  /\ pc' = [pc EXCEPT ![f] = "waiting"]
  /\ UNCHANGED <<lock, order, bookVars, tradeVars>>

\* Mutant of Acquire: the queue is processed without order_lock.
AcquireNothing(f) ==
  /\ pc[f] = "waiting"
  /\ pc' = [pc EXCEPT ![f] = "scan"]
  /\ UNCHANGED <<clockVars, order, tick, ticks, lock, bookVars, tradeVars>>

Acquire(f) ==
  /\ pc[f] = "waiting" /\ lock = None
  /\ lock' = f
  /\ pc' = [pc EXCEPT ![f] = "scan"]
  /\ UNCHANGED <<clockVars, order, tick, ticks, bookVars, tradeVars>>

\* Mutant of Ready: the operands are swapped.
ReadyBefore(i) == orders[i].timestamp - now <= Latency

Ready(i) == now - orders[i].timestamp >= Latency

\* _can_fill_order
CanFill(kind, price) ==
  IF kind.side = "buy" THEN price <= kind.limit ELSE price >= kind.limit

\* The loop ends, or an exception leaves it; either way the lock is released.
Release(f) ==
  /\ lock' = None
  /\ pc' = [pc EXCEPT ![f] = "idle"]
  /\ UNCHANGED <<clockVars, order, tick, ticks, bookVars, tradeVars>>

\* Mutant of DropHead: an order that cannot be filled is kept.
KeepHead == UNCHANGED pending

DropHead == pending' = SubSeq(pending, 2, Len(pending))

\* One turn of the while loop up to the fill.
Scan(f) ==
  /\ pc[f] = "scan"
  /\ \/ /\ pending = <<>>
        /\ Release(f)
     \/ /\ pending # <<>> /\ ~Ready(Head(pending))
        /\ Release(f)
     \/ /\ pending # <<>> /\ Ready(Head(pending))
        /\ LET kind == orders[Head(pending)].kind IN
           \/ /\ kind.symbol = tick[f].symbol /\ tick[f].price = BadPrice
              /\ Release(f)
           \/ /\ kind.symbol = tick[f].symbol /\ tick[f].price # BadPrice
              /\ CanFill(kind, tick[f].price)
              /\ pc' = [pc EXCEPT ![f] = "fill"]
              /\ order' = [order EXCEPT ![f] = Head(pending)]
              /\ UNCHANGED <<clockVars, tick, ticks, lock, bookVars, tradeVars>>
           \/ /\ \/ kind.symbol # tick[f].symbol
                 \/ /\ tick[f].price # BadPrice
                    /\ ~CanFill(kind, tick[f].price)
              /\ DropHead
              /\ UNCHANGED <<orders, cancelled, clockVars, feedVars, lock, tradeVars>>

\* Mutant of SignedQty: sales are added.
UnsignedQty(kind) == kind.qty

SignedQty(kind) == IF kind.side = "buy" THEN kind.qty ELSE -kind.qty

\* Mutant of Book: the trade is logged before the position is updated.
LogThenUpdate(i, kind) ==
  /\ tradeLog' = Append(tradeLog, i)
  /\ positions' = IF kind.qty = BadQty THEN positions
                  ELSE [positions EXCEPT ![kind.symbol] = @ + SignedQty(kind)]

\* update_on_fill, then _log_trade.  A quantity that is no number raises in the
\* first, and the second is not reached.
Book(i, kind) ==
  IF kind.qty = BadQty THEN UNCHANGED <<positions, tradeLog>>
  ELSE /\ positions' = [positions EXCEPT ![kind.symbol] = @ + SignedQty(kind)]
       /\ tradeLog' = Append(tradeLog, i)

\* _fill_order: the trade is recorded and the order marked before anything can
\* raise.  process_tick catches what the accounting raises.
Fill(f) ==
  /\ pc[f] = "fill"
  /\ trades' = Append(trades, [order |-> order[f], time |-> now])
  /\ orders' = [orders EXCEPT ![order[f]].status = "filled"]
  /\ Book(order[f], orders[order[f]].kind)
  /\ pc' = [pc EXCEPT ![f] = "scan"]
  /\ order' = [order EXCEPT ![f] = None]
  /\ UNCHANGED <<clockVars, lock, tick, ticks, cancelled>>

\* The turn ends with popleft, "regardless of fill outcome".
FillAndPop(f) == Fill(f) /\ DropHead

FeedStep(f) == Acquire(f) \/ Scan(f) \/ FillAndPop(f)

Done ==
  /\ Len(orders) = MaxOrders /\ ticks = MaxTicks
  /\ \A f \in Feeds : pc[f] = "idle"
  /\ UNCHANGED vars

Next ==
  \/ \E kind \in OrderKinds, time \in Times : SubmitOrder(kind, time)
  \/ \E i \in Ids : CancelOrder(i)
  \/ \E f \in Feeds :
       \/ \E quote \in Quotes, time \in Times : SetTime(f, quote, time)
       \/ FeedStep(f)
  \/ Done

Spec == Init /\ [][Next]_vars

\* A feed's thread, once in process_tick, is eventually scheduled.
FairSpec == Spec /\ \A f \in Feeds : WF_vars(FeedStep(f))

-----------------------------------------------------------------------------
\* Orders are traded in the order in which they were submitted, none twice, and
\* what is still queued was not traded and comes after what was: an order
\* leaves the queue once and for good, whatever feeds and clients do at the
\* same time and whether or not its fill raises.
OrdersLeaveOnceInOrder ==
  LET line == [n \in DOMAIN trades |-> trades[n].order] \o pending IN
  \A i, j \in DOMAIN line : i < j => line[i] < line[j]

Kind(trade) == orders[trade.order].kind

\* What a trade adds to the quantity bought, or sold, of a symbol.
Counted(trade, side, s) ==
  LET kind == Kind(trade) IN
  IF kind.side = side /\ kind.symbol = s /\ kind.qty # BadQty THEN kind.qty ELSE 0

SumOf(numbers) == FoldLeft(+, 0, numbers)
Amounts(side, s) == [n \in DOMAIN trades |-> Counted(trades[n], side, s)]
Total(side, s) == SumOf(Amounts(side, s))

\* A position is what was bought of its symbol less what was sold, those trades
\* apart whose accounting failed.
PositionsMatchTrades ==
  \A s \in Symbols : positions[s] = Total("buy", s) - Total("sell", s)

\* One failing fill spoils no other: the log, and with it the totals and the
\* equity curve, has every other trade, once and in the order of the trades,
\* which is that of the ids.
LogMatchesTrades ==
  /\ Range(tradeLog) = {t.order : t \in {u \in Range(trades) : Kind(u).qty # BadQty}}
  /\ \A i, j \in DOMAIN tradeLog : i < j => tradeLog[i] < tradeLog[j]

\* No order is traded before its latency is over, as long as the ticks come one
\* after another: current_time_ns is stored outside order_lock, and only a tick
\* that arrives inside another can set it back between the check of an order's
\* latency and its trade.
LatencyHonouredUnlessFeedsOverlap ==
  raced \/ \A t \in Range(trades) : t.time - orders[t.order].timestamp >= Latency

\* A feed that has taken order_lock gives it back: no order, however
\* malformed, keeps process_tick in its loop.
LockIsReleased == \A f \in Feeds : (lock = f) ~> (lock # f)

\* InternalSimulator.py:154, "Cancel an order if it is still pending": an order
\* whose cancellation succeeded is not filled.
CancelledIsNotFilled == \A t \in Range(trades) : t.order \notin cancelled
=============================================================================
