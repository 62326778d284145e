----------------------- MODULE OrderExecution_proofs -----------------------
(***************************************************************************)
(* Theorems about OrderExecution, for every finite set of managers and     *)
(* every set of orders.                                                    *)
(***************************************************************************)
EXTENDS OrderExecution, FiniteSetTheorems, SequenceTheorems, TLAPS

-----------------------------------------------------------------------------
(* Sequences *)

\* A non-empty sequence is its head in front of its tail.
LEMMA HeadThenTail ==
  ASSUME NEW S, NEW s \in Seq(S), s # <<>>
  PROVE  /\ Head(s) \in S
         /\ Tail(s) \in Seq(S)
         /\ Len(s) \in Nat
         /\ Len(Tail(s)) = Len(s) - 1
         /\ s = <<Head(s)>> \o Tail(s)
  BY HeadTailProperties, LenProperties

\* Moving the front of t to the back of s leaves s \o t as it was.
LEMMA MoveFront ==
  ASSUME NEW S, NEW s \in Seq(S), NEW t \in Seq(S), t # <<>>
  PROVE  Append(s, Head(t)) \o Tail(t) = s \o t
<1> DEFINE h == Head(t)
<1>1. h \in S /\ Tail(t) \in Seq(S) /\ t = <<h>> \o Tail(t)
  BY HeadThenTail
<1>2. Append(s, h) = s \o <<h>>
  BY <1>1, AppendIsConcat
<1>3. <<h>> \in Seq(S)
  BY <1>1
<1>4. (s \o <<h>>) \o Tail(t) = s \o (<<h>> \o Tail(t))
  BY <1>1, <1>3, ConcatAssociative
<1> QED
  BY <1>1, <1>2, <1>4

\* Appending to a concatenation appends to its second part.
LEMMA AppendRight ==
  ASSUME NEW S, NEW s \in Seq(S), NEW t \in Seq(S), NEW e \in S,
         NEW c \in Seq(S), c = s \o t
  PROVE  Append(c, e) = s \o Append(t, e)
<1>1. <<e>> \in Seq(S)
  OBVIOUS
<1>2. Append(c, e) = (s \o t) \o <<e>> /\ Append(t, e) = t \o <<e>>
  BY AppendIsConcat
<1> QED
  BY <1>1, <1>2, ConcatAssociative

\* The elements of a sequence after an append.
LEMMA RangeAppend ==
  ASSUME NEW S, NEW s \in Seq(S), NEW e \in S
  PROVE  Range(Append(s, e)) = Range(s) \cup {e}
<1>1. /\ Len(s) \in Nat
      /\ DOMAIN s = 1..Len(s)
      /\ DOMAIN Append(s, e) = 1..(Len(s) + 1)
      /\ \A i \in 1..Len(s) : Append(s, e)[i] = s[i]
      /\ Append(s, e)[Len(s) + 1] = e
  BY AppendProperties, LenProperties
<1> QED
  BY <1>1, SMT DEF Range

\* Appending a new element keeps a sequence free of repetitions.
LEMMA InjectiveAppend ==
  ASSUME NEW S, NEW s \in Seq(S), NEW e \in S, IsInjective(s), e \notin Range(s)
  PROVE  IsInjective(Append(s, e))
<1>1. /\ Len(s) \in Nat
      /\ DOMAIN s = 1..Len(s)
      /\ DOMAIN Append(s, e) = 1..(Len(s) + 1)
      /\ \A i \in 1..Len(s) : Append(s, e)[i] = s[i]
      /\ Append(s, e)[Len(s) + 1] = e
  BY AppendProperties, LenProperties
<1>2. \A i \in 1..Len(s) : s[i] # e
  BY <1>1 DEF Range
<1> QED
  BY <1>1, <1>2, SMT DEF IsInjective

\* A concatenation has the elements of both its parts.
LEMMA RangeConcat ==
  ASSUME NEW S, NEW s \in Seq(S), NEW t \in Seq(S)
  PROVE  Range(s) \subseteq Range(s \o t) /\ Range(t) \subseteq Range(s \o t)
<1> DEFINE c == s \o t
<1>1. /\ Len(s) \in Nat /\ Len(t) \in Nat
      /\ DOMAIN s = 1..Len(s) /\ DOMAIN t = 1..Len(t)
      /\ DOMAIN c = 1..(Len(s) + Len(t))
      /\ \A i \in 1..Len(s) : c[i] = s[i]
      /\ \A i \in 1..Len(t) : c[i + Len(s)] = t[i]
  BY ConcatProperties, LenProperties
<1> HIDE DEF c
<1>2. \A i \in 1..Len(s) : s[i] \in Range(c)
  BY <1>1 DEF Range
<1>3. \A i \in 1..Len(t) : t[i] \in Range(c)
  <2> TAKE i \in 1..Len(t)
  <2>1. i + Len(s) \in DOMAIN c /\ c[i + Len(s)] = t[i]
    BY <1>1
  <2> QED
    BY <2>1 DEF Range
<1> QED
  BY <1>1, <1>2, <1>3 DEF Range, c

\* In a concatenation free of repetitions the front of the second part does
\* not occur in the first.
LEMMA FrontIsFresh ==
  ASSUME NEW S, NEW s \in Seq(S), NEW t \in Seq(S), t # <<>>, IsInjective(s \o t)
  PROVE  Head(t) \notin Range(s)
<1> DEFINE c == s \o t
<1>1. /\ Len(s) \in Nat /\ Len(t) \in Nat /\ Len(t) > 0
      /\ DOMAIN s = 1..Len(s)
      /\ DOMAIN c = 1..(Len(s) + Len(t))
      /\ \A i \in 1..Len(s) : c[i] = s[i]
      /\ c[Len(s) + 1] = t[1]
      /\ Head(t) = t[1]
  BY ConcatProperties, LenProperties, EmptySeq
<1>2. IsInjective(c)
  OBVIOUS
<1> HIDE DEF c
<1>3. \A i \in 1..Len(s) : c[i] # c[Len(s) + 1]
  BY <1>1, <1>2 DEF IsInjective
<1> QED
  BY <1>1, <1>3 DEF Range

-----------------------------------------------------------------------------
(* The queue's invariants, action by action *)

\* What a push does to the queue's history: the queue stays a FIFO, and an
\* order that was not accepted before is new to every part of the system.
LEMMA PushKeepsQueue ==
  ASSUME TypeOK, FIFO, Provenance, NEW o \in Orders, o \notin Range(accepted),
         queue' = Append(queue, o), accepted' = Append(accepted, o),
         UNCHANGED <<taken, reports, order>>
  PROVE  FIFO' /\ Provenance'
<1>1. FIFO'
  <2>1. /\ taken \in Seq(Orders) /\ queue \in Seq(Orders)
        /\ accepted \in Seq(Orders) /\ accepted = taken \o queue
        /\ o \in Orders
    BY DEF TypeOK, FIFO
  <2>2. Append(accepted, o) = taken \o Append(queue, o)
    BY ONLY <2>1, AppendRight
  <2> QED
    BY <2>2 DEF FIFO
<1>2. IsInjective(accepted)'
  BY InjectiveAppend DEF TypeOK, Provenance
<1> QED
  BY <1>1, <1>2 DEF Provenance

\* What removing the front order does: the queue stays a FIFO, the order was
\* not taken before, and what was taken stays taken.
LEMMA PopKeepsQueue ==
  ASSUME TypeOK, FIFO, Provenance, NEW o \in Orders, PopFront(o)
  PROVE  /\ FIFO'
         /\ o \notin Range(taken)
         /\ Range(taken') = Range(taken) \cup {o}
         /\ queue' \in Seq(Orders) /\ taken' \in Seq(Orders)
         /\ Len(queue) \in Nat /\ Len(queue') = Len(queue) - 1
<1> USE DEF TypeOK
<1>1. FIFO'
  BY MoveFront DEF PopFront, FIFO
<1>2. o \notin Range(taken)
  BY FrontIsFresh DEF PopFront, FIFO, Provenance
<1>3. Range(taken') = Range(taken) \cup {o}
  BY RangeAppend DEF PopFront
<1>4. /\ queue' \in Seq(Orders) /\ taken' \in Seq(Orders)
      /\ Len(queue) \in Nat /\ Len(queue') = Len(queue) - 1
  BY HeadThenTail DEF PopFront
<1> QED
  BY <1>1, <1>2, <1>3, <1>4

\* The workers woken or asleep are finitely many.
LEMMA WokenFinite ==
  /\ IsFiniteSet(Woken) /\ Cardinality(Woken) \in Nat
  /\ IsFiniteSet(Woken') /\ Cardinality(Woken') \in Nat
<1>1. Woken \in SUBSET Managers /\ Woken' \in SUBSET Managers
  BY DEF Woken
<1> QED
  BY <1>1, ManagersAssumption, FS_Subset, FS_CardinalityType

\* A woken worker that leaves the wait is one woken worker fewer.
LEMMA OneLessWoken ==
  ASSUME TypeOK, NEW m \in Managers, NEW w, w \notin {"blocked", "woken"},
         worker' = [worker EXCEPT ![m] = w]
  PROVE  /\ worker[m] = "woken" => Cardinality(Woken') = Cardinality(Woken) - 1
         /\ worker[m] # "woken" => Woken' = Woken
         /\ Blocked' = Blocked \ {m}
<1> USE DEF TypeOK
<1>1. Woken' = Woken \ {m} /\ Blocked' = Blocked \ {m}
  BY DEF Woken, Blocked
<1>2. worker[m] = "woken" => m \in Woken
  BY DEF Woken
<1>3. worker[m] # "woken" => m \notin Woken
  BY DEF Woken
<1> QED
  BY <1>1, <1>2, <1>3, WokenFinite, FS_RemoveElement

\* A blocked worker that wakes up is one woken worker more.
LEMMA OneMoreWoken ==
  ASSUME TypeOK, NEW m \in Managers, worker[m] = "blocked",
         worker' = [worker EXCEPT ![m] = "woken"]
  PROVE  Cardinality(Woken') = Cardinality(Woken) + 1 /\ Blocked' \subseteq Blocked
<1> USE DEF TypeOK
<1>1. Woken' = Woken \cup {m} /\ m \notin Woken /\ Blocked' \subseteq Blocked
  BY DEF Woken, Blocked
<1> QED
  BY <1>1, WokenFinite, FS_AddElement

-----------------------------------------------------------------------------
(* The inductive invariant *)

LEMMA InitIInv == Init => IInv
<1> SUFFICES ASSUME Init PROVE IInv
  OBVIOUS
<1> USE DEF Init
<1>1. TypeOK
  BY DEF TypeOK
<1>2. NoLostWakeup
  BY DEF NoLostWakeup, Blocked
<1>3. FIFO
  BY DEF FIFO
<1>4. AtMostOnce /\ WorkerState /\ Provenance
  BY DEF AtMostOnce, WorkerState, Provenance, IsInjective, Range
<1> QED
  BY <1>1, <1>2, <1>3, <1>4 DEF IInv

LEMMA PopStep == IInv /\ Pop => IInv'
<1> SUFFICES ASSUME IInv, Pop PROVE IInv'
  OBVIOUS
<1>1. PICK o \in Orders : PopFront(o)
  BY DEF Pop
<1>2. UNCHANGED <<worker, order, shutdown, owner, reports, lateTakes>>
  BY DEF Pop
<1> USE DEF IInv
<1>3. /\ FIFO'
      /\ Range(taken') = Range(taken) \cup {o}
      /\ queue' \in Seq(Orders) /\ taken' \in Seq(Orders)
      /\ Len(queue) \in Nat /\ Len(queue') = Len(queue) - 1
  BY <1>1, PopKeepsQueue
<1>4. TypeOK'
  BY <1>1, <1>2, <1>3 DEF TypeOK, PopFront
<1>5. NoLostWakeup'
  <2>1. Blocked' = Blocked /\ Woken' = Woken
    BY <1>2 DEF Blocked, Woken
  <2> QED
    BY <1>3, <2>1, WokenFinite DEF NoLostWakeup
<1>6. AtMostOnce' /\ WorkerState'
  BY <1>2 DEF AtMostOnce, WorkerState
<1>7. Provenance'
  BY <1>1, <1>2, <1>3 DEF Provenance, PopFront
<1> QED
  BY <1>3, <1>4, <1>5, <1>6, <1>7

LEMMA ExecuteTradeStep ==
  ASSUME NEW m \in Managers, NEW o \in Orders, IInv, ExecuteTrade(m, o)
  PROVE  IInv'
<1> USE DEF IInv
<1>1. /\ queue' = Append(queue, o) /\ accepted' = Append(accepted, o)
      /\ o \notin Range(accepted) /\ NotifyOne
      /\ UNCHANGED <<order, shutdown, owner, taken, reports, lateTakes>>
  BY DEF ExecuteTrade, Push
<1>2. FIFO' /\ Provenance'
  BY <1>1, PushKeepsQueue
<1>3. Len(queue) \in Nat /\ Len(queue') = Len(queue) + 1
  BY <1>1, AppendProperties, LenProperties DEF TypeOK
<1>4. CASE Blocked = {} /\ UNCHANGED worker
  <2>1. TypeOK'
    BY <1>1, <1>4 DEF TypeOK
  <2>2. NoLostWakeup'
    BY <1>4 DEF NoLostWakeup, Blocked
  <2>3. AtMostOnce' /\ WorkerState'
    BY <1>1, <1>4 DEF AtMostOnce, WorkerState
  <2> QED
    BY <1>2, <2>1, <2>2, <2>3
<1>5. CASE \E n \in Blocked : worker' = [worker EXCEPT ![n] = "woken"]
  <2>1. PICK n \in Blocked : worker' = [worker EXCEPT ![n] = "woken"]
    BY <1>5
  <2>2. n \in Managers /\ worker[n] = "blocked"
    BY <2>1 DEF Blocked
  <2>3. TypeOK'
    BY <1>1, <2>1, <2>2 DEF TypeOK
  <2>4. NoLostWakeup'
    <3>1. Cardinality(Woken') = Cardinality(Woken) + 1
      BY <2>1, <2>2, OneMoreWoken
    <3> QED
      BY <1>3, <2>1, <3>1, WokenFinite DEF NoLostWakeup
  <2>5. AtMostOnce'
    BY <1>1 DEF AtMostOnce
  <2>6. WorkerState'
    BY <1>1, <2>1, <2>2 DEF WorkerState, TypeOK
  <2> QED
    BY <1>2, <2>3, <2>4, <2>5, <2>6
<1> QED
  BY <1>1, <1>4, <1>5 DEF NotifyOne

LEMMA DestroyStep ==
  ASSUME NEW m \in Managers, IInv, BeginDestroy(m) \/ FinishDestroy(m)
  PROVE  IInv'
<1> USE DEF IInv
<1>1. UNCHANGED <<queue, accepted, taken, worker, order, reports, lateTakes>>
  BY DEF BeginDestroy, FinishDestroy, queueVars
<1>2. TypeOK'
  BY <1>1 DEF TypeOK, BeginDestroy, FinishDestroy
<1>3. NoLostWakeup' /\ FIFO' /\ AtMostOnce' /\ Provenance'
  BY <1>1 DEF NoLostWakeup, FIFO, AtMostOnce, Provenance, Blocked, Woken
<1>4. WorkerState'
  BY <1>1 DEF WorkerState, TypeOK, BeginDestroy, FinishDestroy
<1> QED
  BY <1>2, <1>3, <1>4

LEMMA LoopTestStep ==
  ASSUME NEW m \in Managers, IInv, LoopTest(m)
  PROVE  IInv'
<1> USE DEF IInv
<1>1. /\ worker[m] = "loop"
      /\ UNCHANGED <<queue, accepted, taken, order, shutdown, owner, reports,
                     lateTakes>>
  BY DEF LoopTest, queueVars
<1>2. PICK w \in {"done", "pop"} :
        worker' = [worker EXCEPT ![m] = w] /\ (shutdown[m] => w = "done")
  BY DEF LoopTest, TypeOK
<1>3. TypeOK'
  BY <1>1, <1>2 DEF TypeOK
<1>4. NoLostWakeup'
  <2>1. Woken' = Woken /\ Blocked' \subseteq Blocked
    BY <1>1, <1>2, OneLessWoken
  <2> QED
    BY <1>1, <2>1 DEF NoLostWakeup
<1>5. FIFO' /\ AtMostOnce' /\ Provenance'
  BY <1>1 DEF FIFO, AtMostOnce, Provenance
<1>6. WorkerState'
  BY <1>1, <1>2 DEF WorkerState, TypeOK
<1> QED
  BY <1>3, <1>4, <1>5, <1>6

LEMMA WaitStep ==
  ASSUME NEW m \in Managers, IInv, Wait(m)
  PROVE  IInv'
<1> USE DEF IInv
<1>1. /\ worker[m] \in {"pop", "woken"} /\ queue = <<>>
      /\ worker' = [worker EXCEPT ![m] = "blocked"]
      /\ UNCHANGED <<queue, accepted, taken, order, shutdown, owner, reports,
                     lateTakes>>
  BY DEF Wait, queueVars
<1>2. TypeOK'
  BY <1>1 DEF TypeOK
<1>3. NoLostWakeup'
  BY <1>1, WokenFinite DEF NoLostWakeup
<1>4. FIFO' /\ AtMostOnce' /\ Provenance'
  BY <1>1 DEF FIFO, AtMostOnce, Provenance
<1>5. WorkerState'
  BY <1>1 DEF WorkerState, TypeOK
<1> QED
  BY <1>2, <1>3, <1>4, <1>5

LEMMA SpuriousWakeupStep ==
  ASSUME NEW m \in Managers, IInv, SpuriousWakeup(m)
  PROVE  IInv'
<1> USE DEF IInv
<1>1. /\ worker[m] = "blocked"
      /\ worker' = [worker EXCEPT ![m] = "woken"]
      /\ UNCHANGED <<queue, accepted, taken, order, shutdown, owner, reports,
                     lateTakes>>
  BY DEF SpuriousWakeup, queueVars
<1>2. TypeOK'
  BY <1>1 DEF TypeOK
<1>3. NoLostWakeup'
  <2>1. Cardinality(Woken') = Cardinality(Woken) + 1 /\ Blocked' \subseteq Blocked
    BY <1>1, OneMoreWoken
  <2>2. Len(queue) \in Nat
    BY LenProperties DEF TypeOK
  <2> QED
    BY <1>1, <2>1, <2>2, WokenFinite DEF NoLostWakeup
<1>4. FIFO' /\ AtMostOnce' /\ Provenance'
  BY <1>1 DEF FIFO, AtMostOnce, Provenance
<1>5. WorkerState'
  BY <1>1 DEF WorkerState, TypeOK
<1> QED
  BY <1>2, <1>3, <1>4, <1>5

LEMMA TakeStep ==
  ASSUME NEW m \in Managers, IInv, Take(m)
  PROVE  IInv'
<1> USE DEF IInv
<1>1. PICK o \in Orders : PopFront(o) /\ order' = [order EXCEPT ![m] = o]
  BY DEF Take
<1>2. /\ worker[m] \in {"pop", "woken"}
      /\ worker' = [worker EXCEPT ![m] = "process"]
      /\ lateTakes' = [lateTakes EXCEPT ![m] = IF shutdown[m] THEN @ + 1 ELSE @]
      /\ UNCHANGED <<shutdown, owner, reports, accepted>>
  BY <1>1 DEF Take, PopFront
<1>3. /\ FIFO'
      /\ o \notin Range(taken)
      /\ Range(taken') = Range(taken) \cup {o}
      /\ queue' \in Seq(Orders) /\ taken' \in Seq(Orders)
      /\ Len(queue) \in Nat /\ Len(queue') = Len(queue) - 1
  BY <1>1, PopKeepsQueue
<1>4. TypeOK'
  <2>1. lateTakes' \in [Managers -> Nat]
    BY <1>2 DEF TypeOK
  <2> QED
    BY <1>1, <1>2, <1>3, <2>1 DEF TypeOK
<1>5. NoLostWakeup'
  <2>1. /\ worker[m] = "woken" => Cardinality(Woken') = Cardinality(Woken) - 1
        /\ worker[m] # "woken" => Woken' = Woken
        /\ Blocked' \subseteq Blocked
    BY <1>2, OneLessWoken
  <2> QED
    BY <1>3, <2>1, WokenFinite DEF NoLostWakeup
<1>6. AtMostOnce'
  <2>1. o \notin Range(reports) /\ \A n \in Managers : order[n] # NoOrder => order[n] # o
    BY <1>3 DEF Provenance
  <2>2. \A n \in Managers : order'[n] = IF n = m THEN o ELSE order[n]
    BY <1>1 DEF TypeOK
  <2> QED
    BY <1>2, <2>1, <2>2 DEF AtMostOnce
<1>7. WorkerState'
  <2>1. lateTakes[m] = 0
    <3>1. ~(lateTakes[m] > 0)
      BY <1>2 DEF WorkerState
    <3>2. lateTakes[m] \in Nat
      BY DEF TypeOK
    <3> QED
      BY <3>1, <3>2
  <2>2. o # NoOrder
    BY NoOrderAssumption
  <2>3. \A n \in Managers :
          /\ order'[n] = IF n = m THEN o ELSE order[n]
          /\ worker'[n] = IF n = m THEN "process" ELSE worker[n]
          /\ lateTakes'[n] = IF n = m /\ shutdown[m] THEN 1 ELSE lateTakes[n]
    BY <1>1, <1>2, <2>1 DEF TypeOK
  <2> QED
    BY <1>2, <2>1, <2>2, <2>3 DEF WorkerState
<1>8. Provenance'
  <2>1. \A n \in Managers : order'[n] = IF n = m THEN o ELSE order[n]
    BY <1>1 DEF TypeOK
  <2> QED
    BY <1>2, <1>3, <2>1 DEF Provenance
<1> QED
  BY <1>3, <1>4, <1>5, <1>6, <1>7, <1>8

LEMMA ProcessOrderStep ==
  ASSUME NEW m \in Managers, IInv, ProcessOrder(m)
  PROVE  IInv'
<1> USE DEF IInv
<1>1. /\ worker[m] = "process"
      /\ reports' = Append(reports, order[m])
      /\ order' = [order EXCEPT ![m] = NoOrder]
      /\ worker' = [worker EXCEPT ![m] = "loop"]
      /\ UNCHANGED <<queue, accepted, taken, shutdown, owner, lateTakes>>
  BY DEF ProcessOrder, queueVars
<1>2. order[m] \in Orders /\ order[m] # NoOrder
  BY <1>1 DEF WorkerState, TypeOK
<1>3. TypeOK'
  BY <1>1, <1>2 DEF TypeOK
<1>4. NoLostWakeup'
  <2>1. Woken' = Woken /\ Blocked' \subseteq Blocked
    BY <1>1, OneLessWoken
  <2> QED
    BY <1>1, <2>1 DEF NoLostWakeup
<1>5. FIFO'
  BY <1>1 DEF FIFO
<1>6. /\ Range(reports') = Range(reports) \cup {order[m]}
      /\ \A n \in Managers : order'[n] = IF n = m THEN NoOrder ELSE order[n]
  BY <1>1, <1>2, RangeAppend DEF TypeOK
<1>7. AtMostOnce'
  <2>1. IsInjective(reports')
    BY <1>1, <1>2, InjectiveAppend DEF AtMostOnce, TypeOK
  <2> QED
    BY <1>2, <1>6, <2>1 DEF AtMostOnce
<1>8. WorkerState'
  BY <1>1, <1>6 DEF WorkerState, TypeOK
<1>9. Provenance'
  BY <1>1, <1>2, <1>6 DEF Provenance
<1> QED
  BY <1>3, <1>4, <1>5, <1>7, <1>8, <1>9

\* The inductive invariant holds in every reachable state.
THEOREM Invariance == Spec => []IInv
<1>1. IInv /\ [Next]_vars => IInv'
  <2> SUFFICES ASSUME IInv, [Next]_vars PROVE IInv'
    OBVIOUS
  <2>1. CASE Pop
    BY <2>1, PopStep
  <2>2. ASSUME NEW m \in Managers,
               \/ \E o \in Orders : ExecuteTrade(m, o)
               \/ BeginDestroy(m) \/ FinishDestroy(m)
        PROVE  IInv'
    BY <2>2, ExecuteTradeStep, DestroyStep
  <2>3. ASSUME NEW m \in Managers, WorkerStep(m) \/ SpuriousWakeup(m)
        PROVE  IInv'
    BY <2>3, LoopTestStep, WaitStep, TakeStep, ProcessOrderStep,
       SpuriousWakeupStep DEF WorkerStep
  <2>4. CASE UNCHANGED vars
    BY <2>4 DEF vars, IInv, TypeOK, NoLostWakeup, FIFO, AtMostOnce, WorkerState,
       Provenance, Blocked, Woken
  <2> QED
    BY <2>1, <2>2, <2>3, <2>4 DEF Next
<1> QED
  BY InitIInv, <1>1, PTL DEF Spec

-----------------------------------------------------------------------------
(* What follows *)

\* Every variable keeps its type: queue_ and the histories are sequences of
\* orders, and workers, destructors and flags are where the code can be.
THEOREM TypeCorrect == Spec => []TypeOK
<1>1. IInv => TypeOK
  BY DEF IInv
<1> QED
  BY <1>1, Invariance, PTL

\* No wakeup of OrderQueue's condition variable is lost, however pushes, polls,
\* waits and spurious wakeups interleave and whatever the number of workers.
THEOREM WakeupsAreNotLost == Spec => []NoLostWakeup
<1>1. IInv => NoLostWakeup
  BY DEF IInv
<1> QED
  BY <1>1, Invariance, PTL

\* OrderQueue is a FIFO that neither loses nor duplicates an order.
THEOREM QueueIsFIFO == Spec => []FIFO
<1>1. IInv => FIFO
  BY DEF IInv
<1> QED
  BY <1>1, Invariance, PTL

\* Whatever the number of managers over one queue, no order is executed by two
\* workers and none is reported twice.
THEOREM ExecutionIsAtMostOnce == Spec => []AtMostOnce
<1>1. IInv => AtMostOnce
  BY DEF IInv
<1> QED
  BY <1>1, Invariance, PTL

\* A worker takes at most one order after shutdownFlag_ has been set.
THEOREM LateTakesAreBounded == Spec => []AtMostOneLateTake
<1>1. IInv => AtMostOneLateTake
  BY DEF IInv, TypeOK, WorkerState, AtMostOneLateTake
<1> QED
  BY <1>1, Invariance, PTL

-----------------------------------------------------------------------------
(* The implementation of OrderDispatch *)

\* Everything in flight or reported was accepted, and so was everything queued.
LEMMA NothingUnaccepted ==
  ASSUME IInv
  PROVE  Range(queue) \cup InFlight \cup Range(reports) \subseteq Range(accepted)
<1> USE DEF IInv
<1>1. taken \in Seq(Orders) /\ queue \in Seq(Orders) /\ accepted = taken \o queue
  BY DEF TypeOK, FIFO
<1>2. Range(taken) \subseteq Range(accepted) /\ Range(queue) \subseteq Range(accepted)
  BY <1>1, RangeConcat
<1>3. InFlight \subseteq Range(taken) /\ Range(reports) \subseteq Range(taken)
  BY DEF InFlight, WorkerState, Provenance
<1> QED
  BY <1>2, <1>3

LEMMA AcceptStep ==
  ASSUME IInv, NEW m \in Managers, NEW o \in Orders, ExecuteTrade(m, o)
  PROVE  Dispatcher!Accept(o)
<1>1. InFlight' = InFlight
  <2>1. UNCHANGED order /\ NotifyOne
    BY DEF ExecuteTrade, Push
  <2>2. \A n \in Managers : worker'[n] = "process" <=> worker[n] = "process"
    BY <2>1 DEF NotifyOne, Blocked, IInv, TypeOK
  <2> QED
    BY <2>1, <2>2 DEF InFlight
<1>2. Dispatcher!Range(queue) = Range(queue) /\ Dispatcher!Range(reports) = Range(reports)
  BY DEF Range, Dispatcher!Range
<1> QED
  BY <1>1, <1>2, NothingUnaccepted DEF ExecuteTrade, Push, Dispatcher!Accept

LEMMA DispatchStep ==
  ASSUME IInv, NEW m \in Managers, Take(m)
  PROVE  Dispatcher!Dispatch
<1>1. PICK o \in Orders : PopFront(o) /\ order' = [order EXCEPT ![m] = o]
  BY DEF Take
<1>2. worker' = [worker EXCEPT ![m] = "process"] /\ worker[m] \in {"pop", "woken"}
  BY DEF Take
<1>3. InFlight' = InFlight \cup {o}
  <2>1. \A n \in Managers :
          /\ order'[n] = IF n = m THEN o ELSE order[n]
          /\ worker'[n] = IF n = m THEN "process" ELSE worker[n]
    BY <1>1, <1>2 DEF IInv, TypeOK
  <2> QED
    BY <1>2, <2>1 DEF InFlight
<1> QED
  BY <1>1, <1>3 DEF Take, PopFront, Dispatcher!Dispatch

LEMMA ReportStep ==
  ASSUME IInv, NEW m \in Managers, ProcessOrder(m)
  PROVE  Dispatcher!Report(order[m])
<1>1. /\ worker[m] = "process"
      /\ order[m] # NoOrder
      /\ \A n \in Managers :
           /\ order'[n] = IF n = m THEN NoOrder ELSE order[n]
           /\ worker'[n] = IF n = m THEN "loop" ELSE worker[n]
  BY DEF ProcessOrder, IInv, TypeOK, WorkerState
<1>2. \A n \in Managers : n # m => order[n] # order[m]
  BY <1>1 DEF IInv, AtMostOnce
<1>3. order[m] \in InFlight /\ InFlight' = InFlight \ {order[m]}
  BY <1>1, <1>2 DEF InFlight
<1> QED
  BY <1>3 DEF ProcessOrder, queueVars, Dispatcher!Report

LEMMA StutterStep ==
  ASSUME IInv, NEW m \in Managers,
         \/ BeginDestroy(m) \/ FinishDestroy(m)
         \/ LoopTest(m) \/ Wait(m) \/ SpuriousWakeup(m)
  PROVE  UNCHANGED Dispatcher!vars
<1>1. UNCHANGED <<queue, order, reports>>
  BY DEF BeginDestroy, FinishDestroy, LoopTest, Wait, SpuriousWakeup, queueVars
<1>2. \A n \in Managers : worker'[n] = "process" <=> worker[n] = "process"
  BY DEF BeginDestroy, FinishDestroy, LoopTest, Wait, SpuriousWakeup, IInv, TypeOK
<1>3. InFlight' = InFlight
  BY <1>1, <1>2 DEF InFlight
<1> QED
  BY <1>1, <1>3 DEF Dispatcher!vars

\* The queue, its mutex and condition variable, and any number of managers with
\* their workers, implement the abstract FIFO dispatcher.
THEOREM ImplementsDispatch == Spec => RefinesDispatch
<1>1. Init => Dispatcher!Init
  BY DEF Init, InFlight, Dispatcher!Init
<1>2. IInv /\ [Next]_vars => [Dispatcher!Next]_(Dispatcher!vars)
  <2> SUFFICES ASSUME IInv, [Next]_vars
               PROVE  Dispatcher!Next \/ UNCHANGED Dispatcher!vars
    OBVIOUS
  <2>1. CASE Pop
    <3>1. Dispatcher!Withdraw
      BY <2>1 DEF Pop, PopFront, InFlight, Dispatcher!Withdraw
    <3> QED
      BY <3>1 DEF Dispatcher!Next
  <2>2. ASSUME NEW m \in Managers, NEW o \in Orders, ExecuteTrade(m, o)
        PROVE  Dispatcher!Next
    BY <2>2, AcceptStep DEF Dispatcher!Next
  <2>3. ASSUME NEW m \in Managers, Take(m) PROVE Dispatcher!Next
    BY <2>3, DispatchStep DEF Dispatcher!Next
  <2>4. ASSUME NEW m \in Managers, ProcessOrder(m) PROVE Dispatcher!Next
    <3>1. order[m] \in Orders
      BY <2>4 DEF ProcessOrder, IInv, TypeOK, WorkerState
    <3> QED
      BY <2>4, <3>1, ReportStep DEF Dispatcher!Next
  <2>5. ASSUME NEW m \in Managers,
               \/ BeginDestroy(m) \/ FinishDestroy(m)
               \/ LoopTest(m) \/ Wait(m) \/ SpuriousWakeup(m)
        PROVE  UNCHANGED Dispatcher!vars
    BY <2>5, StutterStep
  <2>6. CASE UNCHANGED vars
    BY <2>6 DEF vars, InFlight, Dispatcher!vars
  <2> QED
    BY <2>1, <2>2, <2>3, <2>4, <2>5, <2>6 DEF Next, WorkerStep
<1> QED
  BY <1>1, <1>2, Invariance, PTL DEF Spec, RefinesDispatch, Dispatcher!Spec
=============================================================================
