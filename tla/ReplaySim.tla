----------------------------- MODULE ReplaySim -----------------------------
(***************************************************************************)
(* InternalSimulator (src/core/simulator/InternalSimulator.py) with its    *)
(* replay engine, scenario designer and synthetic order book, and the      *)
(* RoutingPerformanceAssessor that drives it: scenarios are registered,    *)
(* then runs follow one another over the same records and the same book.   *)
(*                                                                         *)
(* Records are dictionaries, and a scenario function may do anything to    *)
(* the one it is given: modify it in place, return it or another, raise.   *)
(* What it does depends on the record alone, and it leaves the lists in a  *)
(* record as they are (it puts new ones in their place).  Triggers only    *)
(* read.  A record keeps the best price of each side.  Delays and the      *)
(* measurements an assessment makes of them are left out.                  *)
(***************************************************************************)
EXTENDS Integers, Sequences, SequencesExt

CONSTANTS
  Timestamps, Prices,
  Missing,      \* the key is not in the dictionary
  Null,         \* None
  NoLevels,     \* an empty list
  DataSets,     \* the sequences of records that are replayed
  Functions,    \* simulation functions
  Effect,       \* what each makes of the record it is given, and what it returns
  Triggers,     \* trigger functions
  Fires,        \* what each says of a record
  Static,       \* the names of static scenarios
  Dynamic,      \* and of dynamic ones
  MaxRegistrations, MaxRuns    \* bounds of the model

Sides == Prices \cup {Missing, Null, NoLevels}
Record == [timestamp : Timestamps \cup {Missing, Null}, bids : Sides, asks : Sides]
Uncrossed(market) ==
  market.bids \in Prices /\ market.asks \in Prices => market.bids < market.asks

\* The record a function leaves behind in its argument, and what it returns:
\* the argument, or some other record.
Outcome == [argument : Record, returns : {"argument", "other", "raises"}, other : Record]

DynamicScenario == [name : Dynamic, trigger : Triggers, scenario : Functions]

\* The records of the data are those of uncrossed markets.
ASSUME ReplayAssumption ==
  /\ Prices \subseteq Int
  /\ Missing \notin Static \cup Functions \cup Timestamps \cup Prices \cup {Null, NoLevels}
  /\ Null \notin Static \cup Functions \cup Timestamps \cup Prices \cup {NoLevels}
  /\ NoLevels \notin Prices
  /\ MaxRegistrations \in Nat /\ MaxRuns \in Nat
  /\ Effect \in [Functions -> [Record -> Outcome]]
  /\ Fires \in [Triggers -> [Record -> {"yes", "no", "raises"}]]
  /\ \A records \in DataSets :
       records \in Seq(Record) /\ \A i \in DOMAIN records : Uncrossed(records[i])

VARIABLES
  data,         \* the records as they are now
  book,         \* the order book: bids, asks
  static,       \* static_scenarios
  dynamic,      \* dynamic_scenarios, in the order of the dictionary
  registered,   \* how many registrations there were
  run,          \* what runs: its kind, scenario and place in the data
  previous,     \* previous_time of replay
  runs,
  turns         \* history: what scenarios made of which record, and whether one raised

scenarioVars == <<static, dynamic, registered>>
replayVars == <<data, book, scenarioVars, run, previous, runs, turns>>

\* The functions in force in a turn.
By == [kind : {"simulation", "assessment"}, scenario : Functions \cup {Null},
       dynamic : Seq(DynamicScenario)]
Turns == [place : Nat \ {0}, record : Record, raised : BOOLEAN, by : By]

ReplayTypeOK ==
  /\ data \in Seq(Record)
  /\ book \in [{"bids", "asks"} -> Sides]
  /\ static \in [Static -> Functions \cup {Missing}]
  /\ dynamic \in Seq(DynamicScenario)
  /\ registered \in 0..MaxRegistrations
  /\ run \in [kind : {"none", "simulation", "assessment"},
              scenario : Static \cup {Null}, next : Nat \ {0}]
  /\ previous \in Timestamps \cup {Null}
  /\ runs \in 0..MaxRuns
  /\ turns \in Seq(Turns)

ReplayInit ==
  /\ data \in DataSets
  /\ book = [side \in {"bids", "asks"} |-> NoLevels]
  /\ static = [n \in Static |-> Missing] /\ dynamic = <<>> /\ registered = 0
  /\ run = [kind |-> "none", scenario |-> Null, next |-> 1]
  /\ previous = Null /\ runs = 0 /\ turns = <<>>

-----------------------------------------------------------------------------
RegisterScenario(name, function) ==
  /\ run.kind = "none" /\ registered < MaxRegistrations
  /\ registered' = registered + 1
  /\ static' = [static EXCEPT ![name] = function]
  /\ UNCHANGED <<data, book, dynamic, run, previous, runs, turns>>

\* A name that is registered again keeps its place.
RegisterDynamicScenario(name, trigger, function) ==
  LET entry == [name |-> name, trigger |-> trigger, scenario |-> function] IN
  /\ run.kind = "none" /\ registered < MaxRegistrations
  /\ registered' = registered + 1
  /\ dynamic' = IF \E i \in DOMAIN dynamic : dynamic[i].name = name
                THEN [i \in DOMAIN dynamic |->
                        IF dynamic[i].name = name THEN entry ELSE dynamic[i]]
                ELSE Append(dynamic, entry)
  /\ UNCHANGED <<data, book, static, run, previous, runs, turns>>

\* run_simulation, run_assessment
Begin(kind, scenario) ==
  /\ run.kind = "none" /\ runs < MaxRuns
  /\ run' = [kind |-> kind, scenario |-> scenario, next |-> 1]
  /\ previous' = Null
  /\ runs' = runs + 1
  /\ UNCHANGED <<data, book, scenarioVars, turns>>

-----------------------------------------------------------------------------
(* One record of a run *)

Start(record) == [market |-> record, stored |-> record, copied |-> FALSE, raised |-> FALSE]

Passed(made) == IF made.returns = "other" THEN made.other ELSE made.argument

\* Mutant of Transform: what a function returns is stored.
TransformStored(state, function) ==
  LET made == Effect[function][state.market] IN
  [market |-> Passed(made), stored |-> Passed(made), copied |-> FALSE,
   raised |-> made.returns = "raises"]

\* market_data = function(market_data): what it does to its argument is done to
\* the record in the data as long as market_data is that record.
Transform(state, function) ==
  LET made == Effect[function][state.market] IN
  [market |-> Passed(made),
   stored |-> IF state.copied THEN state.stored ELSE made.argument,
   copied |-> state.copied \/ made.returns = "other",
   raised |-> made.returns = "raises"]

\* apply_scenario
ApplyScenario(name, state) ==
  IF name = Null THEN state ELSE Transform(state, static[name])

Triggered(trigger, market) == Fires[trigger][market] = "yes"

ApplyTriggered(state, d) ==
  CASE state.raised                                 -> state
    [] ~state.raised /\ Triggered(d.trigger, state.market) -> Transform(state, d.scenario)
    [] OTHER -> [state EXCEPT !.raised = Fires[d.trigger][state.market] = "raises"]

\* apply_dynamic_scenarios: a trigger sees what the scenarios before it made.
ApplyDynamicScenarios(state) == FoldLeft(ApplyTriggered, state, dynamic)

\* What the scenarios make of the record at hand.
Made ==
  LET first == ApplyScenario(run.scenario, Start(data[run.next])) IN
  IF run.kind = "assessment" THEN ApplyDynamicScenarios(first) ELSE first

InForce ==
  [kind |-> run.kind, scenario |-> IF run.scenario = Null THEN Null ELSE static[run.scenario],
   dynamic |-> dynamic]

\* Mutant of UpdateBook: the asks are looked at when there are no bids.
UpdateEither(market) ==
  book' = IF market.bids # Missing THEN [book EXCEPT !.bids = market.bids]
          ELSE IF market.asks # Missing THEN [book EXCEPT !.asks = market.asks] ELSE book

\* SyntheticOrderBook.update: a side the record lacks stays as it was.
UpdateBook(market) ==
  book' = [side \in {"bids", "asks"} |->
             IF market[side] # Missing THEN market[side] ELSE book[side]]

InData == run.kind # "none" /\ run.next <= Len(data)

Get(value) == IF value = Missing THEN Null ELSE value

\* The delay is computed from two timestamps, the first of which is there.
TimestampFails ==
  previous # Null /\ Get(data[run.next].timestamp) = Null

NotRegistered == run.scenario # Null /\ static[run.scenario] = Missing

\* An assessment subtracts the timestamp and counts the bids, after the update.
CannotMeasure(market) ==
  run.kind = "assessment" /\ (market.timestamp = Null \/ market.bids = Null)

\* Replay yields the next record and the scenarios are applied to it.
TakeRecord ==
  /\ InData /\ ~TimestampFails /\ ~NotRegistered
  /\ previous' = Get(data[run.next].timestamp)
  /\ data' = [data EXCEPT ![run.next] = Made.stored]
  /\ turns' = Append(turns, [place |-> run.next, record |-> Made.market,
                             raised |-> Made.raised, by |-> InForce])
  /\ UNCHANGED <<scenarioVars, runs>>

EndRun == run' = [run EXCEPT !.kind = "none"]

Turn ==
  /\ TakeRecord
  /\ ~Made.raised /\ ~CannotMeasure(Made.market)
  /\ UpdateBook(Made.market)
  /\ run' = [run EXCEPT !.next = @ + 1]

\* A trigger or a function raises: what those before it did to the record stays.
ScenarioRaises ==
  /\ TakeRecord
  /\ Made.raised
  /\ EndRun
  /\ UNCHANGED book

AssessmentRaises ==
  /\ TakeRecord
  /\ ~Made.raised /\ CannotMeasure(Made.market)
  /\ UpdateBook(Made.market)
  /\ EndRun

\* TypeError of replay, or ValueError of apply_scenario.
TurnFails ==
  /\ InData /\ (TimestampFails \/ NotRegistered)
  /\ EndRun
  /\ UNCHANGED <<data, book, scenarioVars, previous, runs, turns>>

Return ==
  /\ run.kind # "none" /\ run.next > Len(data)
  /\ EndRun
  /\ UNCHANGED <<data, book, scenarioVars, previous, runs, turns>>

ReplayDone == run.kind = "none" /\ runs = MaxRuns /\ UNCHANGED replayVars

ReplayNext ==
  \/ \E n \in Static, f \in Functions : RegisterScenario(n, f)
  \/ \E n \in Dynamic, t \in Triggers, f \in Functions : RegisterDynamicScenario(n, t, f)
  \/ \E n \in Static \cup {Null} : Begin("simulation", n)
  \/ \E n \in Static \cup {Null} : Begin("assessment", n)
  \/ Turn
  \/ ScenarioRaises
  \/ AssessmentRaises
  \/ TurnFails
  \/ Return
  \/ ReplayDone

ReplaySpec == ReplayInit /\ [][ReplayNext]_replayVars

-----------------------------------------------------------------------------
\* The functions a turn may have applied.
Applied(by) ==
  ({by.scenario} \ {Null})
    \cup {f \in Functions : by.kind = "assessment" /\ \E d \in Range(by.dynamic) : d.scenario = f}

\* Functions that pass on a crossed record for an uncrossed one, that leave one
\* in the data, and that leave anything else in the data than was there.
Crosses(f) == \E r \in Record : Uncrossed(r) /\ ~Uncrossed(Passed(Effect[f][r]))
CrossesInPlace(f) == \E r \in Record : Uncrossed(r) /\ ~Uncrossed(Effect[f][r].argument)
Modifies(f) == \E r \in Record : Effect[f][r].argument # r

\* Turn k is the last one that updated the book.
ShownLast(k) == ~turns[k].raised /\ \A j \in DOMAIN turns : j > k => turns[j].raised

\* The book of uncrossed data is crossed for three reasons only: the last record
\* that update (SyntheticOrderBook) was given lacks a side, which the book has
\* kept from an earlier record or an earlier run; a function in force in that
\* turn crosses markets; or one that did so in place was in force when an
\* earlier turn, perhaps one that raised, had the same record.
CrossedForAReason ==
  book.bids \in Prices /\ book.asks \in Prices /\ book.bids >= book.asks =>
    \E k \in DOMAIN turns :
      /\ ShownLast(k)
      /\ \/ turns[k].record.bids = Missing \/ turns[k].record.asks = Missing
         \/ \E f \in Applied(turns[k].by) : Crosses(f)
         \/ \E j \in 1..k : /\ turns[j].place = turns[k].place
                            /\ \E f \in Applied(turns[j].by) : CrossesInPlace(f)

\* A run with the same scenarios makes the same of every record again, and
\* raises where it did, unless a function that modifies records in place was in
\* force in between: nothing else of a run, not even of one that failed
\* half-way, is left in the data.
RunsAreRepeatable ==
  \A i, j \in DOMAIN turns :
    i < j /\ turns[i].place = turns[j].place /\ turns[i].by = turns[j].by =>
      \/ turns[i].record = turns[j].record /\ turns[i].raised = turns[j].raised
      \/ \E k \in i..j : \E f \in Applied(turns[k].by) : Modifies(f)
=============================================================================
