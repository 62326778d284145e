-------------------------- MODULE SmartOrderRouter --------------------------
(***************************************************************************)
(* src/core/router/SmartOrderRouter.cpp: routeOrder ranks the venues and   *)
(* sendOrderAsync starts one task per available venue, then waits for all. *)
(* A task holds references to the caller's translatedOrder and to its      *)
(* venue; `live` says whether translatedOrder still exists.                *)
(*                                                                         *)
(* One thread routes, as in main.  venueMutex guards the sort but not the  *)
(* loop over the venues, so the code supports no second one.               *)
(***************************************************************************)
EXTENDS Integers, Sequences, FiniteSets, SequencesExt

CONSTANTS
  Venues,
  Score,      \* latency / reliability of each venue
  MaxCalls    \* bound of the model

ASSUME RouterAssumption ==
  /\ IsFiniteSet(Venues) /\ Score \in [Venues -> Nat] /\ MaxCalls \in Nat

VARIABLES
  venues,     \* the vector, in its present order
  available,  \* set and cleared by whoever watches the venues
  pc,         \* where routeOrder is
  next,       \* its loop counter: the next venue to look at
  futures,    \* the venues whose tasks were started, in order
  joined,     \* how many of them have been waited for
  task,       \* each venue's task in this call
  live,       \* translatedOrder is alive
  routed,     \* history: what the tasks of this call did, in order
  seen,       \* history: the venues this call found available
  failed,     \* history: a task of this call could not be started
  calls

loopVars == <<next, futures, joined, seen>>
vars == <<venues, available, pc, loopVars, task, live, routed, failed, calls>>

Ranked == {s \in [1..Cardinality(Venues) -> Venues] :
             /\ IsInjective(s)
             /\ \A i, j \in DOMAIN s : i < j => Score[s[i]] <= Score[s[j]]}

TypeOK ==
  /\ venues \in [1..Cardinality(Venues) -> Venues] /\ IsInjective(venues)
  /\ available \in [Venues -> BOOLEAN]
  /\ pc \in {"idle", "launch", "join", "unwind"}
  /\ next \in 1..Len(venues) + 1
  /\ futures \in Seq(Venues) /\ IsInjective(futures)
  /\ joined \in 0..Len(futures)
  /\ task \in [Venues -> {"none", "sleeping", "done"}]
  /\ live \in BOOLEAN /\ failed \in BOOLEAN
  /\ routed \in Seq([venue : Venues, intact : BOOLEAN])
  /\ seen \subseteq Venues
  /\ calls \in 0..MaxCalls

Init ==
  /\ venues \in [1..Cardinality(Venues) -> Venues] /\ IsInjective(venues)
  /\ available = [v \in Venues |-> TRUE]
  /\ pc = "idle" /\ next = 1 /\ futures = <<>> /\ joined = 0
  /\ task = [v \in Venues |-> "none"]
  /\ live = FALSE /\ failed = FALSE
  /\ routed = <<>> /\ seen = {} /\ calls = 0

-----------------------------------------------------------------------------
\* std::sort is not stable: venues of equal score may come in any order.
RankVenues == venues' \in Ranked

\* rankVenues, then sendOrderAsync up to its loop.
RouteOrder ==
  /\ pc = "idle" /\ calls < MaxCalls
  /\ RankVenues
  /\ pc' = "launch" /\ next' = 1 /\ futures' = <<>> /\ joined' = 0
  /\ task' = [v \in Venues |-> "none"]
  /\ live' = TRUE /\ failed' = FALSE
  /\ routed' = <<>> /\ seen' = {}
  /\ calls' = calls + 1
  /\ UNCHANGED available

Skip ==
  /\ pc = "launch" /\ next <= Len(venues) /\ ~available[venues[next]]
  /\ next' = next + 1
  /\ UNCHANGED <<venues, available, pc, futures, joined, seen, task, live,
                 routed, failed, calls>>

\* Mutant of Launch: availability is not looked at.
LaunchAnyway ==
  /\ pc = "launch" /\ next <= Len(venues)
  /\ futures' = Append(futures, venues[next])
  /\ task' = [task EXCEPT ![venues[next]] = "sleeping"]
  /\ seen' = seen \cup {v \in {venues[next]} : available[v]}
  /\ next' = next + 1
  /\ UNCHANGED <<venues, available, pc, joined, live, routed, failed, calls>>

Launch ==
  /\ pc = "launch" /\ next <= Len(venues) /\ available[venues[next]]
  /\ futures' = Append(futures, venues[next])
  /\ task' = [task EXCEPT ![venues[next]] = "sleeping"]
  /\ seen' = seen \cup {venues[next]}
  /\ next' = next + 1
  /\ UNCHANGED <<venues, available, pc, joined, live, routed, failed, calls>>

\* std::async throws when it can start no thread.  The locals are destroyed in
\* reverse order: translatedOrder at once, then the futures, each of which
\* blocks until its task has ended.
LaunchFails ==
  /\ pc = "launch" /\ next <= Len(venues) /\ available[venues[next]]
  /\ failed' = TRUE /\ live' = FALSE
  /\ pc' = "unwind"
  /\ UNCHANGED <<venues, available, loopVars, task, routed, calls>>

BeginJoin ==
  /\ pc = "launch" /\ next = Len(venues) + 1
  /\ pc' = "join"
  /\ UNCHANGED <<venues, available, loopVars, task, live, routed, failed, calls>>

\* f.get(), or the destructor of a future.
Join ==
  /\ pc \in {"join", "unwind"} /\ joined < Len(futures)
  /\ task[futures[joined + 1]] = "done"
  /\ joined' = joined + 1
  /\ UNCHANGED <<venues, available, pc, next, futures, seen, task, live, routed,
                 failed, calls>>

\* Mutant of Return: only the first future is waited for.
ReturnAfterFirst ==
  /\ pc \in {"join", "unwind"} /\ joined >= IF futures = <<>> THEN 0 ELSE 1
  /\ live' = FALSE
  /\ pc' = "idle"
  /\ UNCHANGED <<venues, available, loopVars, task, routed, failed, calls>>

\* routeOrder returns, or gives the exception to its caller.
Return ==
  /\ pc \in {"join", "unwind"} /\ joined = Len(futures)
  /\ live' = FALSE
  /\ pc' = "idle"
  /\ UNCHANGED <<venues, available, loopVars, task, routed, failed, calls>>

-----------------------------------------------------------------------------
\* Mutant of RunTask: the task waits for a venue that has gone.
RunTaskWhenAvailable(v) ==
  /\ task[v] = "sleeping" /\ available[v]
  /\ task' = [task EXCEPT ![v] = "done"]
  /\ routed' = Append(routed, [venue |-> v, intact |-> live])
  /\ UNCHANGED <<venues, available, pc, loopVars, live, failed, calls>>

\* The task wakes and routes the order, to a venue that may have gone since.
RunTask(v) ==
  /\ task[v] = "sleeping"
  /\ task' = [task EXCEPT ![v] = "done"]
  /\ routed' = Append(routed, [venue |-> v, intact |-> live])
  /\ UNCHANGED <<venues, available, pc, loopVars, live, failed, calls>>

\* The environment: venues come and go.
SetAvailable(v) ==
  /\ available' = [available EXCEPT ![v] = ~@]
  /\ UNCHANGED <<venues, pc, loopVars, task, live, routed, failed, calls>>

RouterStep == RouteOrder \/ Skip \/ Launch \/ LaunchFails \/ BeginJoin \/ Join \/ Return

Next == RouterStep \/ \E v \in Venues : RunTask(v) \/ SetAvailable(v)

Spec == Init /\ [][Next]_vars

\* The calling thread and every started task are eventually scheduled; nothing
\* is assumed of the venues.
FairSpec == Spec /\ WF_vars(RouterStep) /\ \A v \in Venues : WF_vars(RunTask(v))

-----------------------------------------------------------------------------
Count(v) == Cardinality({i \in DOMAIN routed : routed[i].venue = v})

\* When routeOrder has returned normally, every venue it found available had
\* the order exactly once and no other venue had it; and no task routes from a
\* destroyed translatedOrder, but while a failed launch unwinds (the order of
\* destruction noted at LaunchFails).
EachSeenVenueOnce ==
  ~failed =>
    /\ \A e \in Range(routed) : e.intact
    /\ pc = "idle" => \A v \in Venues : Count(v) = IF v \in seen THEN 1 ELSE 0

\* The call's tasks end before the call does, whether it returns or throws: no
\* task is left with a reference into a stack frame that is gone.
NoTaskOutlivesCall == pc = "idle" => \A v \in Venues : task[v] # "sleeping"

\* routeOrder comes back, whatever the venues do meanwhile.
CallEnds == pc # "idle" ~> pc = "idle"
=============================================================================
