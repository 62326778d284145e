# Verification of the xalgo trading core

TLA+ specifications of the trading core in this repository, the TLC
configurations that check them on small instances, and TLAPS proofs of their
most important properties for every instance.

The program's own code is about 3000 lines of C++, Python and Rust.
`third_party/eigen` is vendored, `build/` is generated, and many files are
empty placeholders. The tree does not build as a whole: `src/main.cpp`
includes headers that are empty, two headers declare different classes of the
name `ExecutionManager`, and several types are declared twice. Each file is
therefore modelled as it is written, as the unit it is plainly meant to be;
`TradingMain` puts together the units that `main.cpp` puts together.

## 1. Inventory

### Components, their state and their operations

| Component | Code | State | Operations |
|---|---|---|---|
| Order path | `include/core/interfaces/IExecutionManager.hpp` | `OrderQueue`: `queue_` under a mutex and a condition variable; `ExecutionManager`: `shutdownFlag_`, a worker thread | `push`, `pop`, `waitAndPop`, constructor, destructor, worker loop, execution report |
| Three-leg trade | `src/ExecutionManager.cpp` | `legs_`, atomic `state_` | `setLegs`, `execute`, `sendLeg`, `getState` |
| Risk manager | `include/core/Risk/RiskManager.hpp` | profit and loss, its minimum, drawdown, `isStrategyActive_`, under a mutex | `evaluateOrderRisk`, `updatePosition`, `isStrategyAllowed` |
| Main program | `src/main.cpp` | locals and their lifetimes, a detached monitor thread | compute signals, submit 10000 orders, trade once, return |
| Order simulator | `src/core/simulator/InternalSimulator.py` | orders, deque of pending orders, trades, positions, trade log, current time; two locks | `submit_order`, `cancel_order`, `process_tick`, `_fill_order`, `simulate_strategy` |
| Smart order router | `src/core/router/SmartOrderRouter.cpp` | a vector of venues under a mutex, an atomic flag each | `rankVenues`, `sendOrderAsync`, `routeOrder` |
| Redundancy manager | `src/core/redundancy/RedundancyManager.rs` | the health flags of primary and backup | `set_health`, `check_health`, `monitor` |
| Pub/sub handler | `src/core/messaging/ZMQPubSubHandler.*` | `running_`, `listenThread_`, `messageHandler_` under a mutex, two sockets, references to two health records | constructor, `publish`, `subscribe`, `setMessageHandler`, `start`, `stop`, `listenLoop`, destructor |
| Connection manager | `src/core/messaging/ZeroMQConnectionManager.*` | sockets and health records by name, `monitorRunning_`, `monitorThread_` | `createPublisher`, `createSubscriber`, `getConnectionHealth`, `getConnectionNames`, `startHealthMonitoring`, destructor |
| Replay simulation | `InternalSimulator` and the other files of `src/core/simulator/` | records, static and dynamic scenarios, an order book, timings | register a scenario, `replay`, `run_simulation`, `run_assessment`, `update` |
| Signal engine | `src/signal/SignalEngine.cpp` | the signal generators and their parameters | `run` with `aggregate`, `updateRegime` |
| Signal statistics | `include/core/models/Signal.hpp` | none | `computeSpread`, `computeAdaptiveZScore`, cointegration test |
| Positions | `Position` in the simulator, `include/core/models/Position.hpp` | quantity, average price, realized profit | `update`, `update_on_fill`, two getters |

### How they interact

- Threads of `main.cpp`: the main thread pushes orders into `OrderQueue`; the
  worker of `ExecutionManager` takes them out; a detached thread polls
  `RiskManager` until it forbids the strategy. The queue's mutex and condition
  variable and the risk manager's mutex are all that orders them.
- The trade is executed by the main thread and watched through the atomic
  `state_`.
- The simulator's clients and market data feeds are threads of their callers;
  they share its queue under `order_lock`, and its books under `trade_lock`.
- The router calls its tasks through `std::async` and waits for their futures;
  the tasks refer to a local variable of the call and to the venues.
- The pub/sub handler runs its receive loop in a thread of its own, which calls
  the installed handler under a mutex; ZeroMQ is between publisher and
  receiver. Its constructor registers two connections with a connection manager
  that other clients share, and it counts in health records the manager owns.
- An assessment or a simulation replays records that scenario functions, given
  by the user, may copy or modify, and shows the result to one order book.
- The signal engine asks its generators one after another, and updates them one
  after another, under no lock.

### What is hard here

Lost wakeups, destruction while threads run, an atomic state stored before the
step it announces, a kill switch that is evaluated only when polled, a clock
written outside the lock under which it is read, exceptions swallowed half-way
through the books or through a record, references that outlive what they refer
to, two socket operations that make one message, a thread joined while it blocks,
records that are modified under a replay which reads them again, two getters that
are read as one value. Section 5 of this file and the `hazards` of
`PROJECT.json` name the lines. Several of these hazards are defects that the code
does have. No property excludes them then: the model takes the bad step, and the
property says how far its consequences reach and what stays true. The `note` of
such a hazard says so.

## 2. Modules

| Module | Models | Extends or composes |
|---|---|---|
| `OrderExecution` | the order path, any number of managers over one queue | |
| `OrderDispatch` | what the order path promises, without threads | instantiated by `OrderExecution` |
| `OrderExecution_proofs` | its theorems | `OrderExecution`, `TLAPS` |
| `TriangularTrade` | the three-leg trade | |
| `SignalStats` | spread and z-score as functions | |
| `TradingMain`, `MCTradingMain` | the whole of `main.cpp` | extends `TriangularTrade` and `SignalStats`, instantiates `OrderExecution` |
| `TradingMain_proofs` | the theorems of the trade, of the program and of the z-score | `TradingMain`, instantiates `OrderExecution_proofs` and `Folding` |
| `RiskManager` | the risk manager between its users | |
| `Simulator`, `MCSimulator` | the order path of `CombinedSimulator` | |
| `PositionAccounting`, `MCPositionAccounting`, `PositionAccounting_proofs` | the two position classes, fed the same fills | |
| `ReplaySim`, `MCReplaySim` | the replay engine, the scenarios, the order book and both drivers | |
| `InternalSimulator_proofs` | the theorems of the two simulators | `Simulator`, `ReplaySim`, instantiates `Folding` twice |
| `SignalEngine` | the majority vote and the change of regime | |
| `SmartOrderRouter`, `MCSmartOrderRouter`, `SmartOrderRouter_proofs` | one routing call after another, with tasks | |
| `RedundancyManager` | `monitor()` | |
| `MCUnits` | four units that share no state, for one TLC run: a behaviour is of one of them | `RiskManager`, `MCPositionAccounting`, `SignalEngine`, `RedundancyManager` |
| `Services_proofs` | the theorems of three services that stand alone | `RiskManager`, `RedundancyManager`, `SignalEngine` |
| `ConnectionManager` | what the connection manager keeps and its operations | |
| `PubSub`, `MCPubSub`, `PubSub_proofs` | the pub/sub handler from construction to destruction, its threads and the other clients of its manager | extends `ConnectionManager` |
| `MessageStream` | what publisher and receive loop promise, without frames, sockets or threads | instantiated by `PubSub` |
| `Folding` | theorems about `FoldLeft` and sequences, for any operator | instantiated by the proofs that need it |

Where two modules are extended by one, their specifications have names of their
own (`RiskSpec`, `SignalSpec`, `RedundancySpec`, `ReplaySpec`, and so on).
An `MC` module only gives constants their values, except `MCUnits`: its step is
a step of one unit that leaves the others as they began, so the state graphs of
the units add up. Definitions that begin with
the comment "Mutant of X" are deliberately wrong variants of X: with X replaced
by the mutant, the property named in `PROJECT.json` must fail, which shows that
the property depends on what the code does.

### How model and code correspond

A method that holds one mutex from its first access to its last is one action.
A method is split into several actions where another thread can see a state
between: at a wait, before a lock is taken, between two atomic stores, after an
`exchange`, at a join. Variables carry the names of the code's fields; those
the code does not have are marked *history* and are only read by properties.

- `OrderExecution`: `worker` is the place of each worker in
  `orderProcessingLoop`. `Wait` is the part of `waitAndPop` that finds the queue
  empty and blocks, `Take` the part that removes an order, also after a
  wakeup. `NotifyOne` wakes any one blocked worker; `SpuriousWakeup` is what
  the standard allows. `BeginDestroy` stores the flag, `FinishDestroy` is the
  return of `join`.
- `TriangularTrade`: one action per store of `state_` and per leg; a leg with a
  quantity or price that is not positive throws to the handler (`StoreError`).
- `RiskManager`: percentages are hundredths and the comparisons are multiplied
  out. `Submit` and `Poll` are the calls made by `main.cpp`.
- `TradingMain`: every early return of `main` goes through the same
  destructors. Ticks, approval and legs come from sets, although `main` uses
  literals, so that its error paths are taken. `spreadHistory` is kept until
  the z-score is printed.
- `SignalStats`: exact integers. Deviations are multiplied by the number of
  spreads and the root is not taken, so a z-score is a pair that properties
  compare squared.
- `Simulator`: `process_tick` is `SetTime` (before the lock), `Acquire`, then
  for each order `Scan` and, if it can be filled, `FillAndPop`. Prices are
  compared and not computed with. A malformed quantity makes the accounting
  raise after the trade was recorded; a malformed price makes the comparison
  raise out of `process_tick`, whose `with` statement releases the lock.
- `PositionAccounting`: `Fill` feeds both classes; `ReadQuantity` and
  `ReadAverage` are the two getters of a reader, each under the mutex. Doubles
  are integers, and the model's prices make every division exact.
- `ReplaySim`: a run is `Begin`, then `Turn` for each record, which applies the
  static scenario, in an assessment the dynamic ones, and updates the book. It
  ends with `Return`, or where the code raises: before anything was done with
  the record (`TurnFails`), in a function or trigger, after those before it did
  their work on the record (`ScenarioRaises`), or in an assessment after the
  update of the book (`AssessmentRaises`). The constant `Effect` says of any
  function and record what the function makes of the record in place, and
  whether it returns it, returns another or raises; nothing is assumed of it.
  `Transform` tells what is passed on (`market`) from what is left in the replay
  data (`stored`). A side of a record is its best price, an empty list, `None`
  or missing. The history `turns` keeps what each turn made of its record, and
  with which functions.
- `SignalEngine`: one action per generator asked (`Collect`) and per generator
  told (`Tell`); `Aggregate` returns the confidence as a fraction. The history
  `inForce` keeps the regimes that were in force while a run collected.
- `SmartOrderRouter`: `LaunchFails` is `std::async` throwing; the locals go in
  reverse order, so `translatedOrder` before the futures.
- `RedundancyManager`: each load or store of a flag is a step. The history
  `bothDown` tells whether the backup was down, too, when the primary was found
  down.
- `ConnectionManager`: the socket map and the health map are written together
  under one mutex, so one variable stands for both. `Count` is a client's
  increment through the reference it was given.
- `PubSub`: the constructor is `LookUp`, `CreatePublisher`, `CreateSubscriber`,
  `StartMonitoring`; the look-up throws for an unknown name (`LookUpThrows`),
  the others on an error (`ConstructorThrows`), and construction may be tried
  again. The destructor is `BeginDestroy`, `JoinListener`, `DestroyMembers`,
  `ReleaseManager`. A publish is two sends, either of which may throw
  (`FailTopic`, `FailPayload`). `OtherClientCreates` replaces a record that is
  in use; the history `forgotten` keeps what the old one had counted.
  ZeroMQ, external, delivers a message of a subscribed topic when its last
  frame is sent, in order, or loses it. The refinement maps the pairs of frames
  in `socket` and in the loop's locals to the messages of `MessageStream`.

## 3. Runs

| Run | Instance | What it shows |
|---|---|---|
| `orders` | 2 managers, 3 orders | no lost wakeup, FIFO, at most one order taken after shutdown, `OrderDispatch` implemented; under fairness every queued order is taken and every order taken is reported, also by a worker that is being joined |
| `orders_shutdown` | 1 manager, 2 orders | violation: a destructor need not return |
| `program` | 3 orders, up to 4 ticks of 3 kinds, approval or refusal, quantities 0 and 1 and prices -1, 0 and 1 in each leg | what the exit code and a reader of `state_` may conclude, what is lost at exit, the ceiling of the z-score, termination |
| `units` | the risk manager: 2 traders, changes +3, -1, -4, limit 3; the positions: 4 fills of 1 or 2, bought or sold, at 2 prices, 1 reader; the vote: up to 3 generators, 3 regimes, 2 runs, 2 updates; `monitor()`: 5 changes of health | no breach escapes the kill switch, also one that is over before the next poll, and there is no false alarm; what a pair of getters is worth and how far the two position classes agree; which regimes a vote can come from and whose share its confidence is; a lasting failure is noticed |
| `simulator` | 2 feeds, 2 orders of 4 kinds, 2 ticks of 3 kinds | one fill per order, in order, and not before its latency unless ticks overlap; books agree with trades; the lock is always released |
| `simulator_cancel` | 1 feed, the same | violation: a cancelled order is filled |
| `realized` | the positions of `units` | violation: a closed position has not realized its profit |
| `replay` | 2 records, complete, partial or with `None`, 3 functions (the two of `InternalSimulator.py:427-444` and one that copies), 1 trigger, 3 registrations, 2 runs of either kind | the only reasons for a crossed book, when a run can be repeated |
| `router` | 3 venues, two of equal score, 2 calls | each available venue once, from an order that still exists unless a launch failed; no task outlives its call; calls end |
| `both_down` | 5 changes of health | violation: with both components down `monitor()` reports no error |
| `pubsub` | 2 publishers, 2 controllers, 1 handler, 2 messages of 2 topics, 2 starts, 1 failure, 1 record replaced | `MessageStream` implemented, records that account for all traffic, life of the thread, what delays `stop` and the destructor |
| `construction` | the same | violation: a constructor that throws although nothing failed |

The type invariants (`TypeOK`, `MainTypeOK`, `RiskTypeOK` and so on) are stated
in every module for the sake of the proofs. They were checked on these instances
and are not among the properties of the runs, which are spent on what could be
wrong.

### Why these bounds are enough to be interesting

- Two managers over one queue are the least with which a wakeup can go to the
  wrong worker; three orders let one be queued, one held and one reported.
- The changes of profit and loss make a breach in one step and in several, a
  recovery before the next poll, and a second breach. `MaxPnL` bounds them.
- Three orders in `program` (`NumOrders`, 10000 in the code) let the worker be
  ahead of, behind and level with the main thread at each of its exits. Three
  legs are the code's number, and a leg is either valid or not. Up to four
  ticks give no spread, equal spreads and spreads that reach the ceiling.
- In `simulator` one order can be malformed and the next one good, both feeds
  can be in `process_tick` at once, and latency 1 within times 0 and 1 makes
  orders ready and not ready. Bounds: `MaxOrders`, `MaxTicks`, `MaxTime`.
- Four fills (`MaxFills`) open, scale, reduce, turn and close a position, in
  every order, and open another one. Positions reach up to eight, and a price
  is divided at most twice on its way to a number that is compared, so prices
  that are multiples of 840 squared keep the divisions exact.
- In `replay` a second record can follow a partial first one and a second run a
  first one that failed. With prices 1 to 4 the repository's function that
  lowers the asks crosses a complete market, the one that lowers the bids
  empties or widens one, the trigger fires for some records and not for others,
  and both raise on `None`. Three registrations (`MaxRegistrations`) allow two
  dynamic scenarios, the second of which sees what the first one did, next to a
  static one. `MaxRuns` is 2, the least that can repeat.
- Three generators (`MaxGenerators`) make every order and every tie of the three
  camps. Two runs and two updates (`MaxRuns`, `MaxUpdates`) let an update lie
  before, inside and after a run, and a run inside an update; three regimes tell
  the one before it from an older one.
- Two calls of `router` (`MaxCalls`) show that nothing of one call is left to
  the next; `MaxChanges` bounds the changes of health in `units` and `both_down`.
- `PubSub` needs two of each thread for an overlap, two starts (`MaxStarts`)
  for a thread that is assigned over another, and two messages (`MaxMessages`),
  one of a topic nobody subscribed to at first. `MaxErrors` is 1: a failure at
  any one point. Another client replaces a record in use at most once.

Symmetry is not used, since most runs check temporal properties. Deadlock is
not checked in `orders`, `orders_shutdown`, `pubsub` and `construction`: a
worker asleep on an empty queue with no client left, and a loop blocked in
`recv`, are how the code may come to rest, and a terminated process takes no
step.

### Fairness

Weak fairness is assumed of steps a running thread can take by itself: the
worker's steps and the return of a join whose thread has ended
(`OrderExecution`), main's statements and the worker's (`TradingMain`), the
turns of the monitor's loop (`RiskManager`, `RedundancyManager`, both in
`MCUnits`), the steps of a feed inside `process_tick` (`Simulator`), the caller
and the started tasks (`SmartOrderRouter`), the receive loop, the controllers and
the destructor (`PubSub`). An operating system that schedules runnable threads
gives no less.
`Acquire` in `Simulator` is under weak fairness only, so no property needs a
feed to win the lock against others for ever. Nothing is assumed of clients,
fills, markets, venues, the network, spurious wakeups or failures.
`PositionAccounting`, `ReplaySim` and `SignalEngine` state no fairness: their
properties are invariants.

## 4. Proofs

TLAPS proves the following for every value of the constants that satisfies the
named assumptions. Every safety property that a passing run checks is among them.
Each component's proofs are in the module of its name with `_proofs`, or in one of
the modules that section 2 lists for several components.

| Component | Theorem | States |
|---|---|---|
| Order path | `Invariance`, `TypeCorrect` | `[]IInv` and `[]TypeOK` |
| | `WakeupsAreNotLost` | `[]NoLostWakeup` |
| | `QueueIsFIFO` | `[]FIFO` |
| | `ExecutionIsAtMostOnce` | `[]AtMostOnce` |
| | `LateTakesAreBounded` | `[]AtMostOneLateTake` |
| | `ImplementsDispatch` | `Spec => Dispatcher!Spec`: the threads implement the abstract FIFO |
| Trade | `TradeInvariance` | the place of `execute`, `state_` and the legs sent stay in step |
| | `CompleteIsHedged`, `ErrorIsPrefix`, `SentIsBounded`, `MonitorProgress` | what `state_` tells a monitor |
| Program | `MainImplementsTrade`, `MainImplementsOrders` | `MainSpec` implies the `Spec` of the trade and that of the order path |
| | `MainInvariance` | `[]MainInv` |
| | `ExitCodeTrue`, `OnlyQueueIsLost` | `[]ExitCodeIsTrue`, `[]ExitLosesOnlyQueue` |
| | `ProgramReportsOnce`, `ProgramImplementsDispatch`, `ProgramTradeIsHedged`, `ProgramErrorIsPrefix`, `ProgramMonitorProgress` | what is proved of the parts, of the program |
| | `ZScoreBounded` | `[]ZScoreIsBounded`, for any number of spreads of any values |
| Risk | `RiskInvariance` | the drawdown is the worst loss so far |
| | `DrawdownIsSound`, `AlertsAreTrue`, `NoAllClear`, `KillSwitchLatches` | the kill switch misses nothing, raises no false alarm and latches |
| Simulator | `SimInvariance` | `[]SimInv` |
| | `OrdersLeaveOnce`, `LogIsTrue`, `LatencyHonoured` | `[]OrdersLeaveOnceInOrder`, `[]LogMatchesTrades`, `[]LatencyHonouredUnlessFeedsOverlap` |
| | `PositionsAreTrades` | `[]PositionsMatchTrades` |
| Replay | `ReplayInvariance` | `[]ReplayInv` |
| | `CrossedOnlyForAReason`, `RunsRepeat` | `[]CrossedForAReason`, `[]RunsAreRepeatable`, for any scenario functions and triggers |
| Positions | `AccountingInvariance`, `BooksAgree` | `[]BooksAgreeUntilReduced`, with or without rounding |
| | `ExactInvariance`, `NetCostIsRead`, `ProfitIsNegated` | `[]ValueReadIsNetCost` and `[]RealizedNegatesProfit`, where no average is rounded |
| Signal engine | `SignalInvariance` | `[]SignalInv` |
| | `VotesCurrent`, `ConfidenceIsOfDirection` | `[]VotesAreCurrent`, `[]ConfidenceIsOfTheDirection` |
| Redundancy | `RedundancyInvariance`, `ErrorIsLostBackup` | `[]ErrorNeedsLostBackup` |
| Router | `RouterInvariance` | `[]RouterInv` |
| | `VenuesSeenOnce`, `TasksEndWithCall` | `[]EachSeenVenueOnce`, `[]NoTaskOutlivesCall` |
| Pub/sub | `PubSubTypeCorrect` | `[]TypeOK` |
| | `StopIsComplete`, `TerminationNeedsOverlap`, `CountsAreTrue` | the invariants of the run `pubsub` |
| | `ConstructionNeedsNames` | `[]ConstructionNeedsKnownNames` |
| | `MessagesStayWhole` | `[]WholeMessagesInOrder` |
| | `ImplementsStream` | `Spec => RefinesStream`: threads and frames implement the abstract stream |
| Folds | `FoldEmpty`, `FoldAppend`, `FoldPreserves` | the recursion that `FoldLeft` stands for, and the induction along it |
| | `SequenceInduction`, `FrontAndLast`, `MappedAppend` | induction over sequences and what its steps need |

**Assumptions.** `OrderExecution`: the set of managers is finite (wakeups are
counted) and `NoOrder` is no order. `TriangularTrade`: leg parameters are
integers and 0 is among them, as the legs are zero before `setLegs`.
`TradingMain`: a natural number of orders, none of which is `NoOrder`, ticks of
integers; the assumptions of `OrderExecution` are then proved of its use
(`OrdersAssumptions`). `RiskManager`: sizes, capital and factors are naturals,
changes are integers; the capital of the code is a positive literal.
`Simulator`: a kind of order names a known symbol, is a buy or a sell and has
an integer quantity or the one that fails, quotes are of known symbols, the
latency and the bounds are naturals, and no feed is the `None` of the lock.
`PubSub`: the publishers are finitely many (`CountsMatchTraffic` counts those in
the middle of a publish), the two connections have different names, `None` is no
handler, and every message has a topic. `SmartOrderRouter`: the venues are
finitely many and their scores naturals. `SignalEngine`: there is a regime.
`PositionAccounting`: no fill is of zero, prices are naturals. `ReplaySim`: the
data are sequences of records of uncrossed markets; a function maps every record
to what it leaves behind and what it passes on, or raises, and a trigger answers
or raises, so both depend on the record alone; prices are integers, and a missing
key, `None` and the empty list are neither prices nor names nor functions nor
each other. In all of them the bounds are naturals.

**Order path.** `NoLostWakeup` counts: while anyone sleeps there are at least as
many woken workers as queued orders. It is inductive by itself except that a
worker may go to sleep: `Wait` does so only with an empty queue, where it holds
trivially, and a push either wakes one more worker or finds none asleep.
`AtMostOnce` is not inductive: that a worker takes an order that is neither held
nor reported needs `Provenance` (what is held or reported was taken, and nothing
was accepted twice) together with `FIFO`, from which the front of the queue is
not among the taken ones. `AtMostOneLateTake` needs `WorkerState`: a worker that
took an order after its flag was set is on its way to the loop test and takes no
other. `IInv` is the conjunction. The refinement maps the queue to `pending` and
the orders held by workers to `inFlight`; each action is a step of
`OrderDispatch` or leaves it unchanged, and the case that needs the invariant is
`ExecuteTrade`, whose order must not be in the system.

**Trade.** The invariant relates three things that `CompleteMeansHedged` and the
others relate two by two: at each point of `execute`, which state is stored and
exactly which prefix of the legs is out.

**Program.** Every step of `MainNext` is a step of the trade or leaves it alone,
and a step of the order path or leaves it alone (`TradeSteps`, `OrderSteps`); so
`MainSpec` implements both, and their invariants and theorems hold of the program
without being proved again. `MainInv` adds what ties them together: where `main`
is, how many orders it has submitted and that they are numbered in turn
(`SubmitInv`), whether the trade has begun (`TradePlace`), that there is an exit
code exactly when `main` is returning (`ExitInv`), and that what has left the
queue is reported or in the worker's hands (`HeldInv`). The exit code is then
true because `execute` ends in COMPLETE or ERROR, of which the trade's
invariant says how many legs are out; and nothing but the queue is lost because
the joined worker holds nothing and the queue is a FIFO.

**Z-score.** With n spreads, whose deviations are multiplied by n to stay
integers, the claim is n d^2 <= (n - 1) S for the latest deviation d and the sum
of squares S. The deviations sum to zero (`SumOfLinear`), so the others
sum to -d, and the square of a sum of n - 1 numbers is at most n - 1 times the
sum of their squares (`SquareOfSum`). The last is an induction over the
sequence whose step is an inequality between polynomials, written as a square
for the SMT solver (`OneMoreSquare`); `LatestIsBounded` puts the two together. No
invariant of the program is needed but the type of `spreadHistory`.

**Risk.** `RiskInv` says that the drawdown is the negated minimum, that a breach
was seen exactly if that exceeds the limit, and that a disabled strategy or an
alert implies a breach; `NoAllClearAfterBreach` is one of its conjuncts, because
an answer is compared with what has been seen since.

**Simulator.** None of the three properties is inductive. `LockInv` says that a
feed inside the loop holds `order_lock`, so that at most one is there;
`FillInv` that the order it is about to trade is still the head of the queue
and, unless ticks have overlapped, that its latency is over; `LineInv` that what
was traded, in front of what is queued, is in the order of submission.
`PositionsMatchTrades` compares each position with two sums over the trades. A
sum is a fold, so `FoldAppend` gives what one more trade adds to it
(`TotalGrows`), which is what the accounting adds to the position
(`PositionMoves`); for the rest, no other step touches trades or positions, and
kinds of orders never change (`OnlyFillsTrade`).

**Replay.** Scenario functions are arbitrary, so the book of uncrossed data may
well become crossed: the repository's own `adjust_for_high_asks` does it to a
complete record. What is proved is that nothing but a function or a record
without a side can. `DataInv` says that a record of the data is crossed only if
one of the functions that had it crosses markets in place, `TurnInv` the same
of what a turn made of its record, for functions that cross in either way, and
`BookInv` that the book has the sides of the last record it was given, from which
only a record that lacks one can leave it crossed. The first two are proved along
the fold over the scenarios with `FoldPreserves`: as long as no function has
returned another record, what is passed on is what is in the data, and each
trigger and function sees an uncrossed record or one that an earlier function
crossed (`States`, `ScenariosPreserve`). `SourceInv` makes two runs comparable:
what a turn made, and whether it raised, is what its functions would make of the
record the data hold *now*, unless a function that modifies in place has been in
force since. That is a function of the record and of the functions in force
(`After`, `MadeIsAfter`), so two turns with the same place and functions are
equal.

**Redundancy.** `monitor()` has activated the backup when it comes to confirm
it; if it then finds it down, somebody else took it down in between, which
`lostBackup` records (`BackupInv`).

**Folds.** `FoldLeft` of the community modules is defined through a CHOOSE of a
recursive function on sets of indices, and nothing is known of it until such a
function is shown to exist. The library's induction theorems take an operator as
a parameter, which no prover here can instantiate. `Folding` therefore derives an
induction in terms of *sets* from the well-foundedness of < on the naturals
(`LeastNatural`, `InductionOnNat`), proves with it that the recursive function
exists and is unique (`FoldsExist`, `FoldsAgree`), and from that the equations of
the fold. It is written for one operator `Op`, a CONSTANT, for which each use is
an INSTANCE.

**Positions.** `BooksAgreeUntilReduced` is inductive with the types; the
argument is arithmetic: in one direction the signed average of the core is the
unsigned one of the simulator (`OneWeightedAverage`), and a first fill's average
is its price (`PriceOfFirstFill`). `ValueReadIsNetCost` and
`RealizedNegatesProfit` hold only where no division loses anything, and this is a
hypothesis of their theorems: `ExactFills` says of
a fill that the average it leaves, times the quantity, is the total it was
computed from. Every fill of the run `units` satisfies it. Under it quantity
times average is the net cost (`CostInv`), and a reader's numbers are the book's
while no fill comes between (`PairInv`).

**Signal engine.** Generators already told have the regime of the update in
progress and the others that of the one before it; all have the same when none is
in progress (`ParametersInv`). `CollectInv` adds that these regimes have been in
force since the run began, and so have those of the signals already collected,
which is what `VotesAreCurrent` says of the result. The confidence is a fact of
`Aggregate` (`AggregateFacts`), carried to the result by `VoteInv`.

**Router.** `RouterInv` says that a started task has its future, that a future
that was waited for belongs to a task that has ended, that the order is alive
while its call runs, and that a venue was given the order exactly if its task
has run; the future's destructor, which joins, gives `NoTaskOutlivesCall`, which
is one of its conjuncts.

**Pub/sub.** The invariants are proved in layers, each with the help of the ones
before. `LifeInv`: types, which health records exist at which stage, and the
shape of the frames on their way. `ControlInv`: as long as no two calls of start
and stop overlap, `running_`, the thread and the loop are in one of few
combinations. `StreamInv`: unless frames got out of step, at most one publish is
between its frames, what is on the wire and in the socket is an interval of what
was sent, and what was delivered comes before it. `CountInv`: the two records
account for the traffic, together with what was counted in the records they
replaced (`forgotten`), and nothing is counted before there is a handler. For the
refinement `EvenInv` adds
that frames are on the wire in pairs; every second of them names a message in
transit (`Messages`), a last frame adds one at the end (`MessagesExtended`) and a
dispatch takes one from the front (`MessagesDropped`), which is whole by the
invariant of the step's outcome (`HandledAppended`). A step that tears the
stream, and every step after it, is one that the abstract stream leaves open.

`ExecutionIsAtMostOnce`, `SentIsBounded`, `DrawdownIsSound`,
`MessagesStayWhole` and `ProgramReportsOnce` state invariants that no run
repeats: the other properties of their modules rest on them. `ProfitIsNegated`,
`ErrorIsLostBackup` and `ConstructionNeedsNames` say, for every instance, what
the code does where the runs `realized`, `both_down` and `construction` find that
it does not do what is said of it. The inductive invariants were checked by TLC
on the instances of section 3 before they were proved.

### Model-checked and not proved

- Liveness: `QueuedOrderIsTaken`, `TakenIsReported`, `JoinReturnsUnlessAsleep`,
  `EndsUnlessWorkerSleeps`, `BreachIsAlerted`, `LockIsReleased`, `CallEnds`,
  `FailureIsNoticed`, `StopWaitsOnlyForMessages`. Fairness and ENABLED are out of
  the prover's reach.
- Nothing else that a run checks. The models hold no recursive operator; what
  they compute along a sequence is a `FoldLeft`, and `Folding` proves about those.

## 5. Where the code differs from what is said of it

Found by runs that end in a violation:

1. `~ExecutionManager` sets the flag without notifying the condition variable,
   whose predicate does not look at the flag: with its worker asleep the
   destructor never returns (`orders_shutdown`), and `main` always gets there
   with the queue long drained.
2. `process_tick` never looks at `status`: a cancelled order is filled
   (`simulator_cancel`).
3. `InternalSimulator.py:74` says that realized profit is calculated, and line
   76 multiplies by `-qty`: a closed position has realized the profit with its
   sign reversed (`realized`; `ProfitIsNegated` proves it for every way to build
   and close one); and a reduction that leaves a rest realizes nothing.
4. `RedundancyManager.rs:63` promises an error if both components are
   unhealthy. `monitor()` sets the backup healthy (line 79) before it looks at it,
   and returns success (`both_down`); it returns the error only if somebody takes
   the backup down between the two (`ErrorIsLostBackup`).
5. `ZMQPubSubHandler.hpp:29-30` says that the constructor creates the two sockets
   and wires up health monitoring. It asks for the health records before it
   creates them (`ZMQPubSubHandler.cpp:20-21`), and `healthStatus_.at` throws: on
   a manager with which nobody else has registered those names it can never be
   constructed (`construction`, `ConstructionNeedsNames`).

Delimited by a property that holds, which names the cases in which the
expectation fails:

6. With two feeds the store of `current_time_ns` outside the lock
   (`InternalSimulator.py:213`) lets one feed's time pass the latency check of
   the other's tick (`LatencyHonouredUnlessFeedsOverlap`).
7. The two `Position` classes price an open position differently after a
   reduction or a reversal: that of the core carries the profit on in the
   average, the simulator's keeps the entry price, also through a reversal
   (`BooksAgreeUntilReduced`).
8. The z-score's latest spread is part of the mean and deviation it is measured
   with, so over n ticks it is at most the root of n - 1 (`ZScoreIsBounded`).
9. When LONG and SHORT tie ahead of HOLD, the vote returns HOLD with the
   confidence of a tied camp (`ConfidenceIsOfTheDirection`). A run and a change
   of regime exclude each other in no way, so one vote may mix two regimes
   (`VotesAreCurrent` says which).
10. The order book is never cleared: a record without a side leaves the old one
    standing, and the book may be crossed. A function that moves one side, as
    the repository's two do, crosses a complete record by itself
    (`CrossedForAReason`).
11. Scenario functions that modify a record in place, as the repository's two do,
    modify the replay data, so that a second run applies them again
    (`RunsAreRepeatable`).
12. A second connection of the same name resets the health record that the
    first one's client holds; the handler's count is then short of the traffic by
    what had been counted (`CountsMatchTraffic`).
13. `stop()` and the destructor join a loop that nothing wakes from a blocking
    `recv` (`StopWaitsOnlyForMessages`), and overlapping calls of `start` and
    `stop` end in `std::terminate` (`TerminatesOnlyAfterOverlap`).
14. When `std::async` throws, the tasks already started print an order that has
    been destroyed (`EachSeenVenueOnce` says that this is the only case).

Seen in modelling, plain from the code, and part of the models:

15. `main` detaches a thread that refers to its local `riskManager`, and
    destroys that while the thread polls.
16. `evaluateOrderRisk` does not look at `isStrategyActive_`: a disabled
    strategy goes on submitting.
17. `RiskManager.hpp:21` widens the 5% limit when volatility is high; line 20
    says that it holds then.
18. In the simulator an order that cannot be filled at the first tick after its
    latency leaves the queue and stays `'pending'` for ever (line 226).
19. If its thread cannot be started, `startHealthMonitoring` throws and leaves
    `monitorRunning_` set; later calls start nothing.

Seen in reading, outside the models:

20. `ZeroMQConnectionManager`'s configuring constructor initialises
    `zmqContextPtr_` from `ownedContext_`, which is declared after it
    (`ZeroMQConnectionManager.hpp:104`) and not yet constructed.
21. `routing_performance_assessment.py:161` uses `self` at module level, so
    importing the module raises; and lines 89-90 measure the delay of the
    update before the update.
22. The profit that `_log_trade` writes depends on side and price alone.

## 6. Plan

Done, in this order: the order path with its abstract specification and proofs,
because everything else is fed by it; the trade and the risk manager with
proofs; their composition with `main` in `TradingMain`; the simulator's order
path; router and redundancy; the connection manager and, composed with it, the
whole life of the pub/sub handler; the two position classes; replay, scenarios
and order book; the vote and the signal statistics.

Proved, in this order: the order path, the trade and the risk manager; the
router; the simulator; the pub/sub handler; the program over its parts; the
signal engine; the two position classes; folds over sequences, and with them the
z-score, the positions of the simulator and the replay; the redundancy manager;
the abstract stream of the pub/sub handler.

To come:

1. A model of message handlers that call back into their pub/sub handler, with
   `handlerMutex_` as a variable, and a run in which one waits for itself.
2. An abstract specification of the risk manager as `main` sees it, a latch,
   which `RiskManager` implements.

## 7. Not modelled, and why

- The cointegration test (`JohansenTestEngine`): matrix decompositions over
  floating point numbers, done by a vendored library, without state; `main`
  only prints the answer.
- Interfaces without implementation, plain records, empty files.
- `tests/` and `config/test/`: they test a package the repository lacks.
- `latency_emulator.py`: a random delay. With it go the delays of the replay
  and the timings an assessment keeps of them.
- The figures of `_log_trade` (balance, equity, wins and losses from a simulated
  exit price) and slippage; that an entry is written, and when, is modelled.
- Of the connection manager: five private functions that are empty stubs,
  configuration values that nothing reads, and the initialisation of the
  context in its constructors.
- Scenario functions and triggers whose answer depends on more than the record
  they are given (on a clock, on random numbers, on their earlier calls), and
  functions that change a list inside a record instead of putting a new one in
  its place, as the repository's do.
- Message handlers that throw, or that call `stop` or `setMessageHandler`
  themselves, which would wait for themselves; two threads in one ZeroMQ socket
  at once, as `subscribe` is while the loop blocks in `recv`, which ZeroMQ leaves
  undefined: the model takes each call on a socket as atomic.
- A second caller of `routeOrder`, of `execute` or of `setLegs` during
  `execute`: the code has no protection against them and no use of them.
- Memory exhaustion, and the size of the unbounded queue.
