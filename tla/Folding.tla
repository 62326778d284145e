------------------------------ MODULE Folding -------------------------------
(***************************************************************************)
(* FoldLeft of SequencesExt for one operator Op, which INSTANCE gives its  *)
(* value: the two cases of the recursion behind it and an induction over   *)
(* the sequence.  That the recursion has a solution at all is proved from  *)
(* the fact that < is well founded on the naturals.                        *)
(***************************************************************************)
EXTENDS Integers, Sequences, SequencesExt, SequenceTheorems,
        WellFoundedInduction, TLAPS

CONSTANT Op(_, _)

Fold(b, s) == FoldLeft(Op, b, s)

\* What FoldLeft folds over is a set of indices, and g the function that folds
\* every set of indices t of s up to n.
Folds(b, s, n, g) ==
  g = [t \in SUBSET (1..n) |->
         IF t = {} THEN b ELSE Op(g[t \ {Max(t)}], s[Max(t)])]

-----------------------------------------------------------------------------
(* Induction and maxima *)

\* Every set of naturals has a least element.
LEMMA LeastNatural ==
  ASSUME NEW T, T \subseteq Nat, T # {}
  PROVE  \E x \in T : \A y \in T : x <= y
<1> DEFINE R == OpToRel(<, Nat)
<1>1. IsWellFoundedOn(R, Nat)
  BY NatLessThanWellFounded
<1>2. ASSUME NEW x \in Nat, NEW y \in Nat, <<y, x>> \notin R
      PROVE  x <= y
  BY <1>2 DEF OpToRel
<1> HIDE DEF R
<1>3. PICK x \in T : \A y \in T : <<y, x>> \notin R
  BY <1>1, WFMin
<1>4. \A y \in T : x <= y
  BY <1>2, <1>3
<1> QED
  BY <1>4

\* Induction: a set with zero and every successor has all naturals.
LEMMA InductionOnNat ==
  ASSUME NEW T, 0 \in T, \A n \in Nat : n \in T => n + 1 \in T
  PROVE  \A n \in Nat : n \in T
<1> DEFINE C == {n \in Nat : n \notin T}
<1> SUFFICES ASSUME C # {} PROVE FALSE
  OBVIOUS
<1>1. C \subseteq Nat
  OBVIOUS
<1> HIDE DEF C
<1>2. PICK x \in C : \A y \in C : x <= y
  BY <1>1, LeastNatural
<1>3. x \in Nat /\ x \notin T
  BY DEF C
<1>4. x # 0 /\ x - 1 \in Nat /\ ~(x <= x - 1)
  BY <1>3
<1>5. x - 1 \in T
  BY <1>2, <1>4 DEF C
<1>6. (x - 1) + 1 \in T
  BY <1>4, <1>5
<1> QED
  BY <1>3, <1>6

\* A set of indices has a greatest one.
LEMMA MaxOfIndices ==
  ASSUME NEW n \in Nat, NEW t \in SUBSET (1..n), t # {}
  PROVE  Max(t) \in t /\ \A y \in t : Max(t) >= y
<1> DEFINE U == {k \in Nat : \A y \in t : y <= k}
<1>1. U \subseteq Nat /\ n \in U
  OBVIOUS
<1> HIDE DEF U
<1>2. PICK k \in U : \A j \in U : k <= j
  BY <1>1, LeastNatural
<1>3. k \in Nat /\ \A y \in t : y <= k
  BY DEF U
<1>4. k \in t
  <2> SUFFICES ASSUME k \notin t PROVE FALSE
    OBVIOUS
  <2>1. PICK z \in t : TRUE
    OBVIOUS
  <2>2. k - 1 \in Nat
    BY <1>3, <2>1
  <2>3. \A y \in t : y <= k - 1
    BY <1>3
  <2>4. k - 1 \in U
    BY <2>2, <2>3 DEF U
  <2> QED
    BY <1>2, <1>3, <2>4
<1>5. \E x \in t : \A y \in t : x >= y
  BY <1>3, <1>4
<1> QED
  BY <1>5, Zenon DEF Max

\* Sets of indices up to n + 1, with and without n + 1.
LEMMA IndexSets ==
  ASSUME NEW n \in Nat
  PROVE  /\ (1..(n + 1)) \ {n + 1} = 1..n
         /\ \A t \in SUBSET (1..(n + 1)) :
              /\ n + 1 \in t => Max(t) = n + 1
              /\ n + 1 \notin t => t \in SUBSET (1..n)
              /\ t # {} => Max(t) \in 1..(n + 1) /\ t \ {Max(t)} \in SUBSET (1..n)
<1> DEFINE m == n + 1
<1>1. m \in Nat /\ m \in 1..m
  OBVIOUS
<1>2. \A y \in 1..m : y <= m /\ (y # m => y \in 1..n)
  OBVIOUS
<1>3. \A y \in 1..n : y \in 1..m /\ y # m
  OBVIOUS
<1>4. ASSUME NEW t \in SUBSET (1..m), t # {}
      PROVE  /\ Max(t) \in 1..m
             /\ t \ {Max(t)} \in SUBSET (1..n)
             /\ m \in t => Max(t) = m
  <2> HIDE DEF m
  <2>1. Max(t) \in t /\ \A y \in t : Max(t) >= y
    BY <1>1, <1>4, MaxOfIndices
  <2>2. Max(t) \in 1..m
    BY <2>1
  <2>3. m \in t => Max(t) = m
    BY <1>1, <1>2, <2>1, <2>2
  <2>4. ASSUME NEW y \in t \ {Max(t)} PROVE y # m
    BY <2>3, <2>4
  <2>5. t \ {Max(t)} \in SUBSET (1..n)
    BY <1>2, <2>4
  <2> QED
    BY <2>2, <2>3, <2>5
<1>5. \A t \in SUBSET (1..m) : m \notin t => t \in SUBSET (1..n)
  <2> HIDE DEF m
  <2> QED
    BY <1>2
<1>6. (1..m) \ {m} = 1..n
  <2> HIDE DEF m
  <2> QED
    BY <1>2, <1>3
<1> QED
  BY <1>4, <1>5, <1>6

-----------------------------------------------------------------------------
(* The recursion *)

\* Two sequences that agree up to k are folded alike up to there.
LEMMA FoldsAgree ==
  ASSUME NEW b, NEW r, NEW s, NEW k \in Nat, \A i \in 1..k : r[i] = s[i],
         NEW m \in Nat, k <= m,
         NEW f, Folds(b, r, m, f), NEW g, Folds(b, s, k, g)
  PROVE  f[1..k] = g[1..k]
<1> DEFINE Agree(j) == \A t \in SUBSET (1..j) : f[t] = g[t]
           T == {j \in Nat : j <= k => Agree(j)}
<1>1. \A t \in SUBSET (1..k) : t \in SUBSET (1..m)
  OBVIOUS
<1>2. \A t \in SUBSET (1..k) :
        /\ f[t] = IF t = {} THEN b ELSE Op(f[t \ {Max(t)}], r[Max(t)])
        /\ g[t] = IF t = {} THEN b ELSE Op(g[t \ {Max(t)}], s[Max(t)])
  BY <1>1, Zenon DEF Folds
<1>3. 0 \in T
  <2>1. \A t \in SUBSET (1..0) : t = {} /\ t \in SUBSET (1..k)
    OBVIOUS
  <2>2. Agree(0)
    BY <1>2, <2>1, Zenon
  <2> HIDE DEF Agree
  <2> QED
    BY <2>2
<1>4. ASSUME NEW j \in Nat, j \in T PROVE j + 1 \in T
  <2> HIDE DEF Agree
  <2> SUFFICES ASSUME j + 1 <= k PROVE Agree(j + 1)
    OBVIOUS
  <2>1. Agree(j)
    BY <1>4
  <2> HIDE DEF T
  <2> USE DEF Agree
  <2> SUFFICES ASSUME NEW t \in SUBSET (1..(j + 1)) PROVE f[t] = g[t]
    OBVIOUS
  <2>2. t \in SUBSET (1..k)
    OBVIOUS
  <2>3. CASE t = {}
    BY <1>2, <2>2, <2>3, Zenon
  <2>4. CASE t # {}
    <3>1. Max(t) \in 1..(j + 1) /\ t \ {Max(t)} \in SUBSET (1..j)
      BY <2>4, IndexSets
    <3>2. Max(t) \in 1..k
      BY <3>1
    <3>3. t \ {Max(t)} \in SUBSET (1..j)
      BY <3>1
    <3>4. f[t \ {Max(t)}] = g[t \ {Max(t)}] /\ r[Max(t)] = s[Max(t)]
      BY <2>1, <3>2, <3>3
    <3> QED
      BY <1>2, <2>2, <2>4, <3>4, Zenon
  <2> QED
    BY <2>3, <2>4
<1> HIDE DEF Agree, T
<1>5. k \in T
  BY <1>3, <1>4, InductionOnNat
<1>6. Agree(k)
  BY <1>5 DEF T
<1> QED
  BY <1>6 DEF Agree

\* A function that folds the sets of indices up to n exists.
LEMMA FoldsExist ==
  ASSUME NEW b, NEW s
  PROVE  \A n \in Nat : \E g : Folds(b, s, n, g)
<1> DEFINE T == {n \in Nat : \E g : Folds(b, s, n, g)}
<1>1. 0 \in T
  <2> DEFINE g == [t \in SUBSET (1..0) |-> b]
  <2>1. \A t \in SUBSET (1..0) : t = {}
    OBVIOUS
  <2>2. g = [t \in SUBSET (1..0) |->
               IF t = {} THEN b ELSE Op(g[t \ {Max(t)}], s[Max(t)])]
    BY <2>1, Zenon
  <2>3. Folds(b, s, 0, g)
    BY <2>2, Zenon DEF Folds
  <2> QED
    BY <2>3
<1>2. ASSUME NEW n \in Nat, n \in T PROVE n + 1 \in T
  <2>1. PICK g : Folds(b, s, n, g)
    BY <1>2
  <2> DEFINE h == [t \in SUBSET (1..(n + 1)) |->
                     IF n + 1 \in t THEN Op(g[t \ {n + 1}], s[n + 1]) ELSE g[t]]
  <2> HIDE DEF T
  <2>2. ASSUME NEW t \in SUBSET (1..(n + 1))
        PROVE  h[t] = IF t = {} THEN b ELSE Op(h[t \ {Max(t)}], s[Max(t)])
    <3>1. CASE n + 1 \in t
      <4>2. Max(t) = n + 1
        BY <3>1, IndexSets
      <4>3. t \ {n + 1} \in SUBSET (1..(n + 1)) /\ n + 1 \notin t \ {n + 1}
        OBVIOUS
      <4>4. h[t \ {n + 1}] = g[t \ {n + 1}]
        BY <4>3, Zenon
      <4>5. h[t] = Op(g[t \ {n + 1}], s[n + 1])
        BY <3>1, Zenon
      <4> HIDE DEF h
      <4> QED
        BY <3>1, <4>2, <4>4, <4>5, Zenon
    <3>2. CASE n + 1 \notin t
      <4>1. t \in SUBSET (1..n)
        BY <3>2
      <4>2. h[t] = g[t]
        BY <3>2, Zenon
      <4>3. g[t] = IF t = {} THEN b ELSE Op(g[t \ {Max(t)}], s[Max(t)])
        BY <2>1, <4>1, Zenon DEF Folds
      <4>4. t \ {Max(t)} \in SUBSET (1..(n + 1)) /\ n + 1 \notin t \ {Max(t)}
        BY <3>2
      <4>5. h[t \ {Max(t)}] = g[t \ {Max(t)}]
        BY <4>4, Zenon
      <4> HIDE DEF h
      <4> QED
        BY <4>2, <4>3, <4>5, Zenon
    <3> QED
      BY <3>1, <3>2
  <2>3. h = [t \in SUBSET (1..(n + 1)) |-> h[t]]
    OBVIOUS
  <2> HIDE DEF h
  <2>4. Folds(b, s, n + 1, h)
    BY <2>2, <2>3, Zenon DEF Folds
  <2> QED
    BY <2>4 DEF T
<1> HIDE DEF T
<1>3. \A n \in Nat : n \in T
  BY <1>1, <1>2, InductionOnNat
<1> QED
  BY <1>3 DEF T

\* FoldLeft is the value of that function at all indices.
LEMMA FoldIsOfFolds ==
  ASSUME NEW b, NEW E, NEW s \in Seq(E)
  PROVE  \E g : Folds(b, s, Len(s), g) /\ Fold(b, s) = g[1..Len(s)]
<1>1. Len(s) \in Nat /\ DOMAIN s = 1..Len(s)
  BY LenProperties
<1>2. Fold(b, s) = (CHOOSE g : Folds(b, s, Len(s), g))[1..Len(s)]
  BY <1>1, Zenon DEF Fold, FoldLeft, MapThenFoldSet, Folds
<1>3. \E g : Folds(b, s, Len(s), g)
  BY <1>1, FoldsExist
<1>4. Folds(b, s, Len(s), CHOOSE g : Folds(b, s, Len(s), g))
  BY <1>3, Zenon
<1> QED
  BY <1>2, <1>4, Zenon

-----------------------------------------------------------------------------
(* The theorems *)

\* The fold of no elements is the base.
THEOREM FoldEmpty ==
  ASSUME NEW b
  PROVE  Fold(b, <<>>) = b
<1>1. <<>> \in Seq({}) /\ Len(<<>>) = 0
  OBVIOUS
<1>2. PICK g : Folds(b, <<>>, 0, g) /\ Fold(b, <<>>) = g[1..0]
  BY <1>1, FoldIsOfFolds
<1>3. 1..0 = {} /\ {} \in SUBSET (1..0)
  OBVIOUS
<1>4. g[{}] = b
  BY <1>2, <1>3, Zenon DEF Folds
<1> QED
  BY <1>2, <1>3, <1>4

\* One more element is one more application of the operator.
THEOREM FoldAppend ==
  ASSUME NEW b, NEW E, NEW s \in Seq(E), NEW e \in E
  PROVE  Fold(b, Append(s, e)) = Op(Fold(b, s), e)
<1> DEFINE n == Len(s)
           r == Append(s, e)
<1>1. /\ n \in Nat /\ r \in Seq(E) /\ Len(r) = n + 1
      /\ \A i \in 1..n : r[i] = s[i]
      /\ r[n + 1] = e
  BY AppendProperties, LenProperties
<1> HIDE DEF n, r
<1>2. PICK f : Folds(b, r, n + 1, f) /\ Fold(b, r) = f[1..(n + 1)]
  BY <1>1, FoldIsOfFolds
<1>3. PICK g : Folds(b, s, n, g) /\ Fold(b, s) = g[1..n]
  BY <1>1, FoldIsOfFolds DEF n
<1>4. /\ 1..(n + 1) \in SUBSET (1..(n + 1)) /\ n + 1 \in 1..(n + 1)
      /\ (1..(n + 1)) \ {n + 1} = 1..n
  BY <1>1, IndexSets
<1>5. Max(1..(n + 1)) = n + 1
  BY <1>1, <1>4, IndexSets
<1>6. f[1..(n + 1)] = Op(f[1..n], r[n + 1])
  BY <1>2, <1>4, <1>5, Zenon DEF Folds
<1>7. f[1..n] = g[1..n]
  <2>1. n \in Nat /\ n + 1 \in Nat /\ n <= n + 1
    BY <1>1
  <2>2. \A i \in 1..n : r[i] = s[i]
    BY <1>1
  <2>3. Folds(b, r, n + 1, f) /\ Folds(b, s, n, g)
    BY <1>2, <1>3
  <2> QED
    BY ONLY <2>1, <2>2, <2>3, FoldsAgree
<1>8. Fold(b, r) = Op(Fold(b, s), e)
  BY <1>1, <1>2, <1>3, <1>6, <1>7, Zenon
<1> QED
  BY <1>8 DEF r

\* What holds of the base and is preserved by the operator holds of the fold.
THEOREM FoldPreserves ==
  ASSUME NEW P, NEW b \in P, NEW E, NEW s \in Seq(E),
         \A x \in P, e \in E : Op(x, e) \in P
  PROVE  Fold(b, s) \in P
<1> DEFINE n == Len(s)
<1>1. n \in Nat /\ \A i \in 1..n : s[i] \in E
  BY LenProperties, ElementOfSeq
<1>2. PICK g : Folds(b, s, n, g) /\ Fold(b, s) = g[1..n]
  BY FoldIsOfFolds
<1> HIDE DEF n
<1> DEFINE T == {k \in Nat : k <= n => g[1..k] \in P}
<1>3. 0 \in T
  <2>1. 1..0 = {} /\ {} \in SUBSET (1..n)
    OBVIOUS
  <2>2. g[{}] = b
    BY <1>2, <2>1, Zenon DEF Folds
  <2> QED
    BY <2>1, <2>2
<1>4. ASSUME NEW k \in Nat, k \in T PROVE k + 1 \in T
  <2> SUFFICES ASSUME k + 1 <= n PROVE g[1..(k + 1)] \in P
    OBVIOUS
  <2>1. g[1..k] \in P
    BY <1>1, <1>4
  <2> HIDE DEF T
  <2>2. /\ 1..(k + 1) \in SUBSET (1..n) /\ k + 1 \in 1..(k + 1)
        /\ s[k + 1] \in E
    BY <1>1
  <2>3. Max(1..(k + 1)) = k + 1 /\ (1..(k + 1)) \ {k + 1} = 1..k
    BY <2>2, IndexSets
  <2>4. g[1..(k + 1)] = Op(g[1..k], s[k + 1])
    BY <1>2, <2>2, <2>3, Zenon DEF Folds
  <2> QED
    BY <2>1, <2>2, <2>4
<1> HIDE DEF T
<1>5. n \in T
  BY <1>1, <1>3, <1>4, InductionOnNat
<1> QED
  BY <1>1, <1>2, <1>5 DEF T
-----------------------------------------------------------------------------
(* Sequences *)

\* A nonempty sequence is its elements before the last one, and that one.
THEOREM FrontAndLast ==
  ASSUME NEW E, NEW s \in Seq(E), s # <<>>
  PROVE  /\ Front(s) \in Seq(E) /\ Len(Front(s)) = Len(s) - 1
         /\ Last(s) \in E
         /\ s = Append(Front(s), Last(s))
<1> DEFINE n == Len(s)
<1>1. n \in Nat /\ n >= 1 /\ s \in [1..n -> E]
  BY EmptySeq, LenProperties
<1>2. /\ Front(s) \in Seq(E) /\ Len(Front(s)) = n - 1
      /\ \A i \in 1..(n - 1) : Front(s)[i] = s[i]
  <2>1. \A i \in 1..(n - 1) : s[i] \in E
    BY <1>1
  <2> QED
    BY <1>1, <2>1, SubSeqProperties DEF Front
<1>3. Last(s) = s[n] /\ s[n] \in E
  BY <1>1 DEF Last
<1>4. s = Append(Front(s), Last(s))
  <2> DEFINE f == Front(s)
             t == Append(f, Last(s))
  <2>1. f \in Seq(E) /\ Len(f) = n - 1 /\ Last(s) \in E
    BY <1>2, <1>3
  <2>2. /\ t \in Seq(E) /\ Len(t) = Len(f) + 1 /\ t[Len(f) + 1] = Last(s)
        /\ \A i \in 1..Len(f) : t[i] = f[i]
    <3> HIDE DEF f
    <3> QED
      BY <2>1, AppendProperties
  <2> HIDE DEF f, t
  <2>3. Len(t) = n /\ t[n] = s[n] /\ \A i \in 1..(n - 1) : t[i] = s[i]
    BY <1>1, <1>2, <1>3, <2>1, <2>2 DEF f
  <2>4. \A i \in 1..n : s[i] = t[i]
    BY <1>1, <2>3
  <2>5. s = t
    BY <2>2, <2>3, <2>4, SeqEqual
  <2> QED
    BY <2>5 DEF f, t
<1> QED
  BY <1>2, <1>3, <1>4

\* A function applied to each element.
Mapped(h, s) == [i \in DOMAIN s |-> h[s[i]]]

\* One more element is one more image.
THEOREM MappedAppend ==
  ASSUME NEW E, NEW h, NEW s \in Seq(E), NEW e \in E
  PROVE  Mapped(h, Append(s, e)) = Append(Mapped(h, s), h[e])
<1> DEFINE F == {h[z] : z \in E}
           n == Len(s)
           r == Append(s, e)
           q == Mapped(h, s)
           t == Append(q, h[e])
           u == Mapped(h, r)
<1>1. \A z \in E : h[z] \in F
  OBVIOUS
<1>2. n \in Nat
  BY LenProperties
<1>3. r \in Seq(E) /\ Len(r) = n + 1 /\ r[n + 1] = e /\ \A i \in 1..n : r[i] = s[i]
  BY AppendProperties
<1> HIDE DEF F
<1>4. \A v \in Seq(E) : /\ Mapped(h, v) \in Seq(F) /\ Len(Mapped(h, v)) = Len(v)
                         /\ \A i \in 1..Len(v) : Mapped(h, v)[i] = h[v[i]]
  <2> TAKE v \in Seq(E)
  <2>1. Len(v) \in Nat /\ v \in [1..Len(v) -> E] /\ DOMAIN v = 1..Len(v)
    BY LenProperties
  <2>2. Mapped(h, v) \in [1..Len(v) -> F]
    BY <1>1, <2>1 DEF Mapped
  <2>3. Mapped(h, v) \in Seq(F)
    BY <2>1, <2>2, SeqDef
  <2>4. Len(Mapped(h, v)) = Len(v)
    BY <2>1, <2>2, <2>3, LenProperties
  <2> QED
    BY <2>1, <2>3, <2>4 DEF Mapped
<1>5. q \in Seq(F) /\ Len(q) = n /\ \A i \in 1..n : q[i] = h[s[i]]
  BY <1>4
<1> HIDE DEF r, q
<1>6. t \in Seq(F) /\ Len(t) = n + 1 /\ t[n + 1] = h[e] /\ \A i \in 1..n : t[i] = h[s[i]]
  BY <1>1, <1>5, AppendProperties
<1>7. u \in Seq(F) /\ Len(u) = n + 1 /\ \A i \in 1..(n + 1) : u[i] = h[r[i]]
  BY <1>3, <1>4
<1> HIDE DEF t, u, n
<1>8. \A i \in 1..(n + 1) : u[i] = t[i]
  BY <1>2, <1>3, <1>6, <1>7
<1>9. u = t
  BY <1>6, <1>7, <1>8, SeqEqual
<1> QED
  BY <1>9 DEF q, r, t, u

\* Induction over sequences: a set with the empty sequence, and with a sequence
\* all its extensions by one element, has all sequences.
THEOREM SequenceInduction ==
  ASSUME NEW E, NEW T, <<>> \in T,
         \A s \in Seq(E), e \in E : s \in T => Append(s, e) \in T
  PROVE  \A s \in Seq(E) : s \in T
<1> DEFINE U == {n \in Nat : \A s \in Seq(E) : Len(s) = n => s \in T}
<1>1. 0 \in U
  BY EmptySeq
<1>2. ASSUME NEW n \in Nat, n \in U PROVE n + 1 \in U
  <2> SUFFICES ASSUME NEW s \in Seq(E), Len(s) = n + 1 PROVE s \in T
    OBVIOUS
  <2>1. s # <<>>
    BY EmptySeq
  <2>2. /\ Front(s) \in Seq(E) /\ Len(Front(s)) = n
        /\ Last(s) \in E /\ s = Append(Front(s), Last(s))
    BY <2>1, FrontAndLast
  <2>3. Front(s) \in T
    BY <1>2, <2>2
  <2> QED
    BY <2>2, <2>3
<1> HIDE DEF U
<1>3. \A n \in Nat : n \in U
  BY <1>1, <1>2, InductionOnNat
<1> QED
  BY <1>3, LenProperties DEF U
=============================================================================
