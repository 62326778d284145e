----------------------- MODULE SmartOrderRouter_proofs -----------------------
(***************************************************************************)
(* Theorems about SmartOrderRouter, for every finite set of venues, every  *)
(* score and any number of calls.                                          *)
(***************************************************************************)
EXTENDS SmartOrderRouter, FiniteSetTheorems, SequenceTheorems, TLAPS

-----------------------------------------------------------------------------
(* The inductive invariant *)

\* The order of the call is alive exactly while it launches and joins, and a
\* call that unwinds has failed.
LiveWhileRunning ==
  /\ live <=> pc \in {"launch", "join"}
  /\ pc = "unwind" => failed

\* The venues that have a task in this call are those with a future, which are
\* those it found available, all of them behind the loop counter.
TasksHaveFutures ==
  /\ \A v \in Venues : task[v] # "none" <=> v \in Range(futures)
  /\ seen = Range(futures)
  /\ \A i \in DOMAIN futures : \E j \in 1..(next - 1) : futures[i] = venues[j]

\* A future that was waited for has a task that has ended.
JoinedAreDone == \A i \in 1..joined : task[futures[i]] = "done"

\* A task that has ended routed the order once, any other did not; the order was
\* intact unless a launch had failed.
RoutedOnce ==
  /\ \A v \in Venues : Count(v) = IF task[v] = "done" THEN 1 ELSE 0
  /\ ~failed => \A e \in Range(routed) : e.intact

RouterInv ==
  /\ TypeOK /\ LiveWhileRunning /\ TasksHaveFutures /\ JoinedAreDone
  /\ RoutedOnce /\ NoTaskOutlivesCall

-----------------------------------------------------------------------------
(* Sequences *)

\* What appending does to length, elements and range.
LEMMA AppendFacts ==
  ASSUME NEW S, NEW s \in Seq(S), NEW e \in S
  PROVE  /\ Append(s, e) \in Seq(S)
         /\ Len(s) \in Nat /\ DOMAIN s = 1..Len(s)
         /\ Len(Append(s, e)) = Len(s) + 1
         /\ DOMAIN Append(s, e) = 1..(Len(s) + 1)
         /\ \A i \in 1..Len(s) : Append(s, e)[i] = s[i]
         /\ Append(s, e)[Len(s) + 1] = e
         /\ Range(Append(s, e)) = Range(s) \cup {e}
<1>1. /\ Append(s, e) \in Seq(S)
      /\ Len(s) \in Nat /\ DOMAIN s = 1..Len(s)
      /\ Len(Append(s, e)) = Len(s) + 1
      /\ DOMAIN Append(s, e) = 1..(Len(s) + 1)
      /\ \A i \in 1..Len(s) : Append(s, e)[i] = s[i]
      /\ Append(s, e)[Len(s) + 1] = e
  BY AppendProperties, LenProperties
<1>2. Range(Append(s, e)) = Range(s) \cup {e}
  BY <1>1, SMT DEF Range
<1> QED
  BY <1>1, <1>2

\* The vector of venues is a sequence of fixed length, before and after a step.
LEMMA VenueVector ==
  ASSUME NEW s \in [1..Cardinality(Venues) -> Venues]
  PROVE  /\ Cardinality(Venues) \in Nat
         /\ s \in Seq(Venues) /\ Len(s) = Cardinality(Venues)
         /\ DOMAIN s = 1..Len(s)
<1>1. Cardinality(Venues) \in Nat
  BY RouterAssumption, FS_CardinalityType
<1>2. s \in Seq(Venues)
  BY <1>1, SeqDef
<1>3. Len(s) \in Nat /\ DOMAIN s = 1..Len(s)
  BY <1>2, LenProperties
<1> QED
  BY <1>1, <1>2, <1>3

\* The empty sequence has nothing in it.
LEMMA EmptyFacts ==
  /\ \A S : <<>> \in Seq(S)
  /\ Len(<<>>) = 0 /\ DOMAIN <<>> = {} /\ Range(<<>>) = {} /\ IsInjective(<<>>)
BY DEF Range, IsInjective

\* With nothing routed, no venue is counted.
LEMMA CountNothing ==
  ASSUME routed' = <<>>, NEW v
  PROVE  Count(v)' = 0
<1>1. {i \in DOMAIN routed' : routed'[i].venue = v} = {}
  BY EmptyFacts
<1> QED
  BY <1>1, FS_EmptySet DEF Count

\* Routing to one venue counts one more for it, and nothing for the others.
LEMMA CountOne ==
  ASSUME TypeOK, NEW v \in Venues, NEW b \in BOOLEAN, NEW w \in Venues,
         routed' = Append(routed, [venue |-> v, intact |-> b])
  PROVE  /\ Count(w) \in Nat
         /\ Count(w)' = IF w = v THEN Count(w) + 1 ELSE Count(w)
<1> DEFINE R == [venue : Venues, intact : BOOLEAN]
           e == [venue |-> v, intact |-> b]
           before == {i \in DOMAIN routed : routed[i].venue = w}
           after == {i \in DOMAIN routed' : routed'[i].venue = w}
           n == Len(routed)
<1>1. /\ n \in Nat /\ DOMAIN routed = 1..n
      /\ DOMAIN routed' = 1..(n + 1)
      /\ \A i \in 1..n : routed'[i] = routed[i]
      /\ routed'[n + 1] = e
  <2>1. routed \in Seq(R) /\ e \in R
    BY DEF TypeOK
  <2> HIDE DEF R, e
  <2> QED
    BY <2>1, AppendFacts DEF e
<1>2. IsFiniteSet(before) /\ Cardinality(before) \in Nat
  <2>1. IsFiniteSet(1..n)
    BY <1>1, FS_Interval
  <2>2. before \in SUBSET (1..n)
    BY <1>1
  <2> QED
    BY <2>1, <2>2, FS_Subset, FS_CardinalityType
<1>3. e.venue = v
  OBVIOUS
<1>4. CASE w = v
  <2>1. after = before \cup {n + 1} /\ n + 1 \notin before
    BY <1>1, <1>3, <1>4
  <2> QED
    BY <1>2, <1>4, <2>1, FS_AddElement DEF Count
<1>5. CASE w # v
  <2>1. after = before
    BY <1>1, <1>3, <1>5
  <2> QED
    BY <1>2, <1>5, <2>1 DEF Count
<1> QED
  BY <1>4, <1>5

-----------------------------------------------------------------------------
(* One lemma per action *)

LEMMA RouterInit == Init => RouterInv
<1> SUFFICES ASSUME Init PROVE RouterInv
  OBVIOUS
<1> USE DEF Init
<1>1. /\ Len(venues) \in Nat /\ futures \in Seq(Venues)
      /\ routed \in Seq([venue : Venues, intact : BOOLEAN])
  BY VenueVector, EmptyFacts
<1>2. TypeOK
  <2>1. next \in 1..Len(venues) + 1 /\ joined \in 0..Len(futures) /\ calls \in 0..MaxCalls
    BY <1>1, EmptyFacts, RouterAssumption
  <2>2. IsInjective(futures) /\ seen \subseteq Venues
    BY EmptyFacts
  <2> QED
    BY <1>1, <2>1, <2>2 DEF TypeOK
<1>3. \A v \in Venues : Count(v) = 0
  <2> TAKE v \in Venues
  <2>1. {i \in DOMAIN routed : routed[i].venue = v} = {}
    BY EmptyFacts
  <2> QED
    BY <2>1, FS_EmptySet DEF Count
<1>4. RoutedOnce
  BY <1>3, EmptyFacts DEF RoutedOnce
<1> QED
  BY <1>2, <1>4, EmptyFacts DEF RouterInv, LiveWhileRunning, TasksHaveFutures,
     JoinedAreDone, NoTaskOutlivesCall

\* A call begins with new locals, whatever the one before it left.
LEMMA RouteOrderStep ==
  ASSUME RouterInv, RouteOrder
  PROVE  RouterInv'
<1> USE DEF RouterInv, RouteOrder
<1>1. /\ venues' \in [1..Cardinality(Venues) -> Venues] /\ IsInjective(venues')
  BY DEF RankVenues, Ranked
<1>2. Len(venues') \in Nat
  BY <1>1, VenueVector
<1>3. TypeOK'
  <2>1. /\ next' \in 1..Len(venues') + 1 /\ joined' \in 0..Len(futures')
        /\ calls' \in 0..MaxCalls
    BY <1>2, EmptyFacts, RouterAssumption DEF TypeOK
  <2>2. IsInjective(futures') /\ seen' \subseteq Venues
    BY EmptyFacts
  <2>3. futures' \in Seq(Venues) /\ routed' \in Seq([venue : Venues, intact : BOOLEAN])
    BY EmptyFacts
  <2> QED
    BY <1>1, <2>1, <2>2, <2>3 DEF TypeOK
<1>4. RoutedOnce'
  BY CountNothing, EmptyFacts DEF RoutedOnce
<1> QED
  BY <1>3, <1>4, EmptyFacts DEF LiveWhileRunning, TasksHaveFutures, JoinedAreDone,
     NoTaskOutlivesCall

\* Actions that leave what was routed alone leave RoutedOnce to the tasks.
LEMMA RoutedUnchanged ==
  ASSUME RoutedOnce, UNCHANGED routed, failed => failed',
         \A v \in Venues : task'[v] = "done" <=> task[v] = "done"
  PROVE  RoutedOnce'
BY DEF RoutedOnce, Count

LEMMA SkipStep ==
  ASSUME RouterInv, Skip
  PROVE  RouterInv'
<1> USE DEF RouterInv, Skip
<1>1. Len(venues) \in Nat
  BY VenueVector DEF TypeOK
<1>2. TypeOK'
  BY <1>1 DEF TypeOK
<1>3. \A i \in 1..(next - 1) : i \in 1..(next' - 1)
  BY <1>1 DEF TypeOK
<1> QED
  BY <1>2, <1>3, RoutedUnchanged DEF LiveWhileRunning, TasksHaveFutures, JoinedAreDone,
     NoTaskOutlivesCall

\* The venue at the loop counter has no future yet, as the vector does not
\* repeat venues: it gets its first and only task.
LEMMA LaunchStep ==
  ASSUME RouterInv, Launch
  PROVE  RouterInv'
<1> DEFINE v == venues[next]
<1> USE DEF RouterInv, Launch
<1>1. /\ Len(venues) \in Nat /\ DOMAIN venues = 1..Len(venues)
      /\ next \in 1..Len(venues) /\ v \in Venues
  BY VenueVector DEF TypeOK
<1>2. /\ futures' \in Seq(Venues)
      /\ Len(futures) \in Nat /\ DOMAIN futures = 1..Len(futures)
      /\ Len(futures') = Len(futures) + 1
      /\ DOMAIN futures' = 1..(Len(futures) + 1)
      /\ \A i \in 1..Len(futures) : futures'[i] = futures[i]
      /\ futures'[Len(futures) + 1] = v
      /\ Range(futures') = Range(futures) \cup {v}
  BY <1>1, AppendFacts DEF TypeOK
<1>3. v \notin Range(futures)
  <2>1. ASSUME NEW i \in DOMAIN futures, futures[i] = v PROVE FALSE
    <3>1. PICK j \in 1..(next - 1) : futures[i] = venues[j]
      BY DEF TasksHaveFutures
    <3>2. j \in DOMAIN venues /\ next \in DOMAIN venues /\ j # next
      BY <1>1
    <3> QED
      BY <2>1, <3>1, <3>2 DEF TypeOK, IsInjective
  <2> QED
    BY <2>1 DEF Range
<1>4. task[v] = "none"
  BY <1>1, <1>3 DEF TasksHaveFutures
<1>5. IsInjective(futures')
  <2>1. \A i \in 1..Len(futures) : futures[i] # v
    BY <1>2, <1>3 DEF Range
  <2> QED
    BY <1>2, <2>1, SMT DEF IsInjective, TypeOK
<1>6. /\ task' \in [Venues -> {"none", "sleeping", "done"}]
      /\ task'[v] = "sleeping" /\ \A w \in Venues \ {v} : task'[w] = task[w]
  BY <1>1 DEF TypeOK
<1>7. TypeOK'
  BY <1>1, <1>2, <1>5, <1>6 DEF TypeOK
<1>8. TasksHaveFutures'
  <2>1. \A w \in Venues : task'[w] # "none" <=> w \in Range(futures')
    BY <1>2, <1>6 DEF TasksHaveFutures
  <2>2. seen' = Range(futures')
    BY <1>2 DEF TasksHaveFutures
  <2>3. \A i \in DOMAIN futures' : \E j \in 1..(next' - 1) : futures'[i] = venues'[j]
    <3> TAKE i \in DOMAIN futures'
    <3>1. CASE i = Len(futures) + 1
      BY <1>1, <1>2, <3>1
    <3>2. CASE i \in 1..Len(futures)
      <4>1. PICK j \in 1..(next - 1) : futures[i] = venues[j]
        BY <1>2, <3>2 DEF TasksHaveFutures
      <4>2. j \in 1..(next' - 1)
        BY <1>1
      <4> QED
        BY <1>2, <3>2, <4>1, <4>2
    <3> QED
      BY <1>2, <3>1, <3>2
  <2> QED
    BY <2>1, <2>2, <2>3 DEF TasksHaveFutures
<1>9. JoinedAreDone'
  <2> SUFFICES ASSUME NEW i \in 1..joined PROVE task'[futures'[i]] = "done"
    BY DEF JoinedAreDone
  <2>1. i \in 1..Len(futures) /\ task[futures[i]] = "done" /\ futures[i] \in Venues
    BY <1>2 DEF TypeOK, JoinedAreDone
  <2> QED
    BY <1>2, <1>4, <1>6, <2>1
<1>10. RoutedOnce'
  BY <1>4, <1>6, RoutedUnchanged
<1> QED
  BY <1>7, <1>8, <1>9, <1>10 DEF LiveWhileRunning, NoTaskOutlivesCall

LEMMA LaunchFailsStep ==
  ASSUME RouterInv, LaunchFails
  PROVE  RouterInv'
<1> USE DEF RouterInv, LaunchFails, loopVars
<1>1. RoutedOnce'
  BY DEF RoutedOnce, Count
<1> QED
  BY <1>1 DEF TypeOK, LiveWhileRunning, TasksHaveFutures, JoinedAreDone, NoTaskOutlivesCall

LEMMA BeginJoinStep ==
  ASSUME RouterInv, BeginJoin
  PROVE  RouterInv'
<1> USE DEF RouterInv, BeginJoin, loopVars
<1>1. RoutedOnce'
  BY RoutedUnchanged
<1> QED
  BY <1>1 DEF TypeOK, LiveWhileRunning, TasksHaveFutures, JoinedAreDone, NoTaskOutlivesCall

LEMMA JoinStep ==
  ASSUME RouterInv, Join
  PROVE  RouterInv'
<1> USE DEF RouterInv, Join
<1>1. RoutedOnce'
  BY RoutedUnchanged
<1>2. Len(futures) \in Nat
  BY LenProperties DEF TypeOK
<1>3. TypeOK'
  BY <1>2 DEF TypeOK
<1>4. JoinedAreDone'
  BY <1>2 DEF TypeOK, JoinedAreDone
<1> QED
  BY <1>1, <1>3, <1>4 DEF LiveWhileRunning, TasksHaveFutures, NoTaskOutlivesCall

\* When every future was waited for, no task is left asleep.
LEMMA ReturnStep ==
  ASSUME RouterInv, Return
  PROVE  RouterInv'
<1> USE DEF RouterInv, Return, loopVars
<1>1. RoutedOnce'
  BY RoutedUnchanged
<1>2. NoTaskOutlivesCall'
  <2> SUFFICES ASSUME NEW v \in Venues, task[v] = "sleeping" PROVE FALSE
    BY DEF NoTaskOutlivesCall
  <2>1. v \in Range(futures)
    BY DEF TasksHaveFutures
  <2>2. PICK i \in DOMAIN futures : futures[i] = v
    BY <2>1 DEF Range
  <2>3. i \in 1..joined
    BY LenProperties DEF TypeOK
  <2> QED
    BY <2>2, <2>3 DEF JoinedAreDone
<1> QED
  BY <1>1, <1>2 DEF TypeOK, LiveWhileRunning, TasksHaveFutures, JoinedAreDone

\* A task routes from an order that is alive, unless a launch has failed: it
\* sleeps only while the call runs.
LEMMA RunTaskStep ==
  ASSUME RouterInv, NEW v \in Venues, RunTask(v)
  PROVE  RouterInv'
<1> DEFINE R == [venue : Venues, intact : BOOLEAN]
           e == [venue |-> v, intact |-> live]
<1> USE DEF RouterInv, RunTask, loopVars
<1>1. live \in BOOLEAN /\ e \in R /\ routed \in Seq(R)
  BY DEF TypeOK
<1>2. routed' \in Seq(R) /\ Range(routed') = Range(routed) \cup {e}
  <2> HIDE DEF R
  <2> QED
    BY <1>1, AppendFacts
<1>3. /\ task' \in [Venues -> {"none", "sleeping", "done"}]
      /\ task'[v] = "done" /\ \A w \in Venues \ {v} : task'[w] = task[w]
  BY DEF TypeOK
<1>4. TypeOK'
  BY <1>2, <1>3 DEF TypeOK
<1>5. \A w \in Venues : Count(w)' = IF task'[w] = "done" THEN 1 ELSE 0
  <2> TAKE w \in Venues
  <2>1. /\ Count(w) \in Nat
        /\ Count(w)' = IF w = v THEN Count(w) + 1 ELSE Count(w)
    BY <1>1, CountOne
  <2>2. Count(w) = IF task[w] = "done" THEN 1 ELSE 0
    BY DEF RoutedOnce
  <2> QED
    BY <1>3, <2>1, <2>2
<1>6. ~failed => live
  BY DEF NoTaskOutlivesCall, LiveWhileRunning, TypeOK
<1>7. RoutedOnce'
  BY <1>2, <1>5, <1>6 DEF RoutedOnce
<1>8. TasksHaveFutures'
  BY <1>3 DEF TasksHaveFutures
<1>9. JoinedAreDone'
  <2> SUFFICES ASSUME NEW i \in 1..joined PROVE task'[futures[i]] = "done"
    BY DEF JoinedAreDone
  <2>1. futures[i] \in Venues /\ task[futures[i]] = "done"
    BY LenProperties DEF TypeOK, JoinedAreDone
  <2> QED
    BY <1>3, <2>1
<1> QED
  BY <1>3, <1>4, <1>7, <1>8, <1>9 DEF LiveWhileRunning, NoTaskOutlivesCall

LEMMA SetAvailableStep ==
  ASSUME RouterInv, NEW v \in Venues, SetAvailable(v)
  PROVE  RouterInv'
<1> USE DEF RouterInv, SetAvailable, loopVars
<1>1. RoutedOnce'
  BY RoutedUnchanged
<1> QED
  BY <1>1 DEF TypeOK, LiveWhileRunning, TasksHaveFutures, JoinedAreDone, NoTaskOutlivesCall

-----------------------------------------------------------------------------
(* Theorems *)

\* What the tasks of a call, its futures and the venues it found available have
\* to do with each other, at every step of sendOrderAsync.
THEOREM RouterInvariance == Spec => []RouterInv
<1>1. RouterInv /\ [Next]_vars => RouterInv'
  <2> SUFFICES ASSUME RouterInv, [Next]_vars PROVE RouterInv'
    OBVIOUS
  <2>1. CASE UNCHANGED vars
    BY <2>1 DEF vars, loopVars, RouterInv, TypeOK, LiveWhileRunning, TasksHaveFutures,
       JoinedAreDone, RoutedOnce, Count, NoTaskOutlivesCall
  <2>2. CASE RouterStep
    BY <2>2, RouteOrderStep, SkipStep, LaunchStep, LaunchFailsStep, BeginJoinStep,
       JoinStep, ReturnStep DEF RouterStep
  <2> QED
    BY <2>1, <2>2, RunTaskStep, SetAvailableStep DEF Next
<1> QED
  BY RouterInit, <1>1, PTL DEF Spec

\* routeOrder gives the order to each venue it found available once and to no
\* other, and no task reads a destroyed order unless a launch has failed.
THEOREM VenuesSeenOnce == Spec => []EachSeenVenueOnce
<1>1. RouterInv => EachSeenVenueOnce
  <2> SUFFICES ASSUME RouterInv, ~failed, pc = "idle", NEW v \in Venues
               PROVE  Count(v) = IF v \in seen THEN 1 ELSE 0
    BY DEF RouterInv, RoutedOnce, EachSeenVenueOnce
  <2>1. task[v] \in {"none", "done"}
    BY DEF RouterInv, TypeOK, NoTaskOutlivesCall
  <2> QED
    BY <2>1 DEF RouterInv, RoutedOnce, TasksHaveFutures
<1> QED
  BY <1>1, RouterInvariance, PTL

\* sendOrderAsync returns or throws only when all its tasks have ended.
THEOREM TasksEndWithCall == Spec => []NoTaskOutlivesCall
<1>1. RouterInv => NoTaskOutlivesCall
  BY DEF RouterInv
<1> QED
  BY <1>1, RouterInvariance, PTL
=============================================================================
