----------------------------- MODULE SumProofs -----------------------------
(***************************************************************************)
(* What MapThenSumSet is over a finite set of natural numbers.  The models *)
(* sum ledger documents and job balances with it; the library defines it   *)
(* by a recursive function over subsets, so these facts rest on that       *)
(* function's existence and on the order of the summands not mattering.    *)
(* Both are shown by the least counterexample, a set of numbers and not a  *)
(* predicate.                                                              *)
(***************************************************************************)
EXTENDS Integers, FiniteSetsExt, FiniteSetTheorems, WellFoundedInduction, TLAPS

LEMMA LeastNatural ==
  ASSUME NEW T \in SUBSET Nat, T # {}
  PROVE  \E m \in T : \A n \in T : m <= n
<1>1. IsWellFoundedOn(OpToRel(<, Nat), Nat)
  BY NatLessThanWellFounded
<1>2. PICK m \in T : \A n \in T : <<n, m>> \notin OpToRel(<, Nat)
  BY <1>1, WFMin
<1>3. ASSUME NEW n \in T PROVE m <= n
  <2>1. ~(n < m)
    BY <1>2 DEF OpToRel
  <2> QED
    BY <2>1
<1> QED
  BY <1>3

-----------------------------------------------------------------------------
(* The recursive function                                                  *)

Pick(s) == CHOOSE x \in s : TRUE

SumStep(g, f, s) == IF s = {} THEN 0 ELSE f[Pick(s)] + g[s \ {Pick(s)}]

\* g is the function MapThenSumSet builds to sum f over S.
IsSum(g, f, S) == g = [s \in SUBSET S |-> SumStep(g, f, s)]

Total(f, S) == MapThenSumSet(LAMBDA x : f[x], S)

NatValued(f, S) == \A x \in S : f[x] \in Nat

LEMMA TotalIsChoice ==
  ASSUME NEW f, NEW S
  PROVE  Total(f, S) = (CHOOSE g : IsSum(g, f, S))[S]
  BY Zenon DEF Total, MapThenSumSet, MapThenFoldSet, IsSum, SumStep, Pick

LEMMA Smaller ==
  ASSUME NEW s, IsFiniteSet(s), NEW x \in s
  PROVE  /\ IsFiniteSet(s \ {x})
         /\ Cardinality(s \ {x}) \in Nat
         /\ Cardinality(s) = Cardinality(s \ {x}) + 1
<1>1. IsFiniteSet(s \ {x}) /\ Cardinality(s \ {x}) = Cardinality(s) - 1
  BY FS_RemoveElement
<1>2. Cardinality(s \ {x}) \in Nat /\ Cardinality(s) \in Nat
  BY <1>1, FS_CardinalityType
<1> QED
  BY <1>1, <1>2

LEMMA SumExists ==
  ASSUME NEW S, IsFiniteSet(S), NEW f, NatValued(f, S)
  PROVE  \E g \in [SUBSET S -> Nat] : IsSum(g, f, S)
<1> DEFINE D(n) == {s \in SUBSET S : Cardinality(s) <= n}
           Good(g, n) == \A s \in D(n) : g[s] = SumStep(g, f, s)
           T == {n \in Nat : ~ \E g \in [D(n) -> Nat] : Good(g, n)}
<1>1. \A s \in SUBSET S : IsFiniteSet(s) /\ Cardinality(s) \in Nat
  BY FS_Subset, FS_CardinalityType
<1>2. \A s \in SUBSET S : s # {} => Pick(s) \in s
  BY DEF Pick
<1>3. T = {}
  <2> SUFFICES ASSUME T # {} PROVE FALSE
    OBVIOUS
  <2>1. PICK m \in T : \A n \in T : m <= n
    <3>1. T \in SUBSET Nat
      OBVIOUS
    <3> HIDE DEF T
    <3> QED
      BY <3>1, LeastNatural
  <2>2. CASE m = 0
    <3>1. \A s \in D(0) : s = {}
      BY <1>1, FS_EmptySet
    <3>2. [s \in D(0) |-> 0] \in [D(0) -> Nat]
      OBVIOUS
    <3>3. Good([s \in D(0) |-> 0], 0)
      BY <3>1 DEF SumStep
    <3> QED
      BY <2>2, <3>2, <3>3
  <2>3. CASE m # 0
    <3>1. m - 1 \in Nat /\ m - 1 \notin T /\ m \in Nat
      <4>1. m \in Nat /\ m - 1 \in Nat
        BY <2>3
      <4>2. ~(m <= m - 1)
        BY <4>1
      <4> HIDE DEF T
      <4> QED
        BY <2>1, <4>1, <4>2
    <3>2. PICK g \in [D(m - 1) -> Nat] : Good(g, m - 1)
      BY <3>1
    <3> DEFINE h == [s \in D(m) |-> SumStep(g, f, s)]
    <3>3. \A s \in D(m) : s # {} => s \ {Pick(s)} \in D(m - 1)
      <4> SUFFICES ASSUME NEW s \in D(m), s # {} PROVE s \ {Pick(s)} \in D(m - 1)
        OBVIOUS
      <4>1. Pick(s) \in s /\ IsFiniteSet(s)
        BY <1>1, <1>2
      <4>2. Cardinality(s \ {Pick(s)}) \in Nat /\ Cardinality(s) = Cardinality(s \ {Pick(s)}) + 1
        BY <4>1, Smaller
      <4> QED
        BY <3>1, <4>2
    <3>4. h \in [D(m) -> Nat]
      <4> SUFFICES ASSUME NEW s \in D(m) PROVE SumStep(g, f, s) \in Nat
        OBVIOUS
      <4>1. s # {} => f[Pick(s)] \in Nat /\ g[s \ {Pick(s)}] \in Nat
        BY <1>2, <3>3 DEF NatValued
      <4> QED
        BY <4>1 DEF SumStep
    <3>5. \A s \in D(m - 1) : h[s] = g[s]
      <4>1. \A s \in D(m - 1) : s \in D(m)
        BY <1>1, <3>1
      <4> QED
        BY <3>2, <4>1
    <3>6. Good(h, m)
      BY <3>3, <3>5 DEF SumStep
    <3> HIDE DEF h
    <3> QED
      BY <3>1, <3>4, <3>6
  <2> QED
    BY <2>2, <2>3
<1>4. Cardinality(S) \in Nat /\ D(Cardinality(S)) = SUBSET S
  BY <1>1, FS_Subset
<1>5. PICK g \in [SUBSET S -> Nat] : Good(g, Cardinality(S))
  BY <1>3, <1>4
<1> QED
  BY <1>4, <1>5 DEF IsSum

\* The order of the summands does not matter.
NatSum(g, f, S) == IsSum(g, f, S) /\ g \in [SUBSET S -> Nat]

AnyOrder(g, f, S) == \A s \in SUBSET S : \A x \in s : g[s] = f[x] + g[s \ {x}]

LEMMA SumAnyOrder ==
  ASSUME NEW S, IsFiniteSet(S), NEW f, NatValued(f, S),
         NEW g, NatSum(g, f, S)
  PROVE  AnyOrder(g, f, S)
<1> USE DEF NatSum, AnyOrder
<1> DEFINE Fails(t) == \E y \in t : g[t] # f[y] + g[t \ {y}]
           T == {n \in Nat : \E t \in SUBSET S : Cardinality(t) = n /\ Fails(t)}
<1>1. \A t \in SUBSET S : IsFiniteSet(t) /\ Cardinality(t) \in Nat
  BY FS_Subset, FS_CardinalityType
<1>2. \A t \in SUBSET S : t # {} => Pick(t) \in t /\ g[t] = f[Pick(t)] + g[t \ {Pick(t)}]
  BY DEF Pick, IsSum, SumStep
<1>3. T = {}
  <2> SUFFICES ASSUME T # {} PROVE FALSE
    OBVIOUS
  <2>1. PICK m \in T : \A n \in T : m <= n
    <3>1. T \in SUBSET Nat
      OBVIOUS
    <3> HIDE DEF T
    <3> QED
      BY <3>1, LeastNatural
  <2>2. PICK t \in SUBSET S : Cardinality(t) = m /\ Fails(t)
    OBVIOUS
  <2>3. PICK y \in t : g[t] # f[y] + g[t \ {y}]
    BY <2>2
  <2> DEFINE p == Pick(t)
  <2>4. p \in t /\ g[t] = f[p] + g[t \ {p}]
    BY <1>2
  <2>5. p # y
    BY <2>3, <2>4
  <2>6. \A z \in t : ~Fails(t \ {z})
    <3> SUFFICES ASSUME NEW z \in t, Fails(t \ {z}) PROVE FALSE
      OBVIOUS
    <3>1. Cardinality(t \ {z}) \in Nat /\ m = Cardinality(t \ {z}) + 1
      BY <1>1, <2>2, Smaller
    <3>2. Cardinality(t \ {z}) \in T
      BY <3>1
    <3> HIDE DEF T
    <3> QED
      BY <2>1, <3>1, <3>2
  <2>7. g[t \ {p}] = f[y] + g[(t \ {p}) \ {y}]
    BY <2>4, <2>5, <2>6
  <2>8. g[t \ {y}] = f[p] + g[(t \ {y}) \ {p}]
    BY <2>4, <2>5, <2>6
  <2>9. (t \ {p}) \ {y} = (t \ {y}) \ {p}
    OBVIOUS
  <2>10. f[p] \in Nat /\ f[y] \in Nat /\ g[(t \ {p}) \ {y}] \in Nat
    BY <2>4 DEF NatValued
  <2> DEFINE rest == g[(t \ {p}) \ {y}]
  <2>11. g[t \ {y}] = f[p] + rest
    BY <2>8, <2>9
  <2>12. g[t] = f[p] + (f[y] + rest)
    BY <2>4, <2>7
  <2>13. f[p] + (f[y] + rest) = f[y] + (f[p] + rest)
    BY <2>10
  <2> QED
    BY <2>3, <2>11, <2>12, <2>13
<1> SUFFICES ASSUME NEW s \in SUBSET S PROVE ~Fails(s)
  OBVIOUS
<1>4. Cardinality(s) \in Nat /\ Cardinality(s) \notin T
  BY <1>1, <1>3
<1> QED
  BY <1>4

\* The sum over a set does not depend on what the function is elsewhere, nor
\* on the larger set it was built over.
LEMMA SumAgrees ==
  ASSUME NEW S1, NEW S2, IsFiniteSet(S1), NEW f1, NEW f2, NEW g1, NEW g2,
         IsSum(g1, f1, S1), IsSum(g2, f2, S2),
         NEW s \in SUBSET S1, s \in SUBSET S2, \A x \in s : f1[x] = f2[x]
  PROVE  g1[s] = g2[s]
<1> DEFINE T == {n \in Nat : \E t \in SUBSET s : Cardinality(t) = n /\ g1[t] # g2[t]}
<1>1. \A t \in SUBSET s : IsFiniteSet(t) /\ Cardinality(t) \in Nat
  BY FS_Subset, FS_CardinalityType
<1>2. T = {}
  <2> SUFFICES ASSUME T # {} PROVE FALSE
    OBVIOUS
  <2>1. PICK m \in T : \A n \in T : m <= n
    <3>1. T \in SUBSET Nat
      OBVIOUS
    <3> HIDE DEF T
    <3> QED
      BY <3>1, LeastNatural
  <2>2. PICK t \in SUBSET s : Cardinality(t) = m /\ g1[t] # g2[t]
    OBVIOUS
  <2>3. g1[t] = SumStep(g1, f1, t) /\ g2[t] = SumStep(g2, f2, t)
    BY DEF IsSum
  <2>4. CASE t = {}
    BY <2>2, <2>3, <2>4 DEF SumStep
  <2>5. CASE t # {}
    <3> DEFINE p == Pick(t)
    <3>1. p \in t
      BY <2>5 DEF Pick
    <3>2. Cardinality(t \ {p}) \in Nat /\ m = Cardinality(t \ {p}) + 1
      BY <1>1, <2>2, <3>1, Smaller
    <3>3. Cardinality(t \ {p}) \notin T
      <4>1. ~(m <= Cardinality(t \ {p}))
        <5> HIDE DEF p
        <5> QED
          BY <3>2
      <4> HIDE DEF T
      <4> QED
        BY <2>1, <4>1
    <3>4. g1[t \ {p}] = g2[t \ {p}]
      BY <3>2, <3>3
    <3>5. f1[p] = f2[p]
      BY <3>1
    <3> QED
      BY <2>2, <2>3, <2>5, <3>4, <3>5 DEF SumStep
  <2> QED
    BY <2>4, <2>5
<1>3. Cardinality(s) \in Nat /\ Cardinality(s) \notin T
  BY <1>1, <1>2
<1> QED
  BY <1>3

-----------------------------------------------------------------------------
(* Totals                                                                  *)

LEMMA TotalIsSum ==
  ASSUME NEW S, IsFiniteSet(S), NEW f, NatValued(f, S), NEW g, IsSum(g, f, S)
  PROVE  Total(f, S) = g[S]
<1> DEFINE c == CHOOSE h : IsSum(h, f, S)
<1>1. IsSum(c, f, S)
  OBVIOUS
<1>2. Total(f, S) = c[S]
  BY TotalIsChoice
<1> HIDE DEF c
<1> QED
  BY <1>1, <1>2, SumAgrees

LEMMA TotalType ==
  ASSUME NEW S, IsFiniteSet(S), NEW f, NatValued(f, S)
  PROVE  Total(f, S) \in Nat
<1>1. PICK g \in [SUBSET S -> Nat] : IsSum(g, f, S)
  BY SumExists
<1> QED
  BY <1>1, TotalIsSum

LEMMA TotalEmpty == ASSUME NEW f PROVE Total(f, {}) = 0
<1>1. IsFiniteSet({}) /\ NatValued(f, {})
  BY FS_EmptySet DEF NatValued
<1>2. PICK g \in [SUBSET {} -> Nat] : IsSum(g, f, {})
  BY <1>1, SumExists
<1>3. g[{}] = 0
  BY <1>2 DEF IsSum, SumStep
<1> QED
  BY <1>1, <1>2, <1>3, TotalIsSum

\* Functions with the same values on S have the same total over it.
LEMMA TotalEqual ==
  ASSUME NEW S, IsFiniteSet(S), NEW f, NatValued(f, S), NEW h, \A x \in S : h[x] = f[x]
  PROVE  Total(h, S) = Total(f, S)
<1>1. NatValued(h, S)
  BY DEF NatValued
<1>2. PICK g \in [SUBSET S -> Nat] : IsSum(g, f, S)
  BY SumExists
<1>3. PICK k \in [SUBSET S -> Nat] : IsSum(k, h, S)
  BY <1>1, SumExists
<1>4. g[S] = k[S]
  BY <1>2, <1>3, SumAgrees
<1> QED
  BY <1>1, <1>2, <1>3, <1>4, TotalIsSum

\* One summand taken out.
LEMMA TotalWithout ==
  ASSUME NEW S, IsFiniteSet(S), NEW f, NatValued(f, S), NEW x \in S
  PROVE  Total(f, S) = f[x] + Total(f, S \ {x})
<1> DEFINE R == S \ {x}
<1>1. IsFiniteSet(R) /\ NatValued(f, R)
  BY FS_Subset DEF NatValued
<1>2. PICK g \in [SUBSET S -> Nat] : IsSum(g, f, S)
  BY SumExists
<1>3. PICK k \in [SUBSET R -> Nat] : IsSum(k, f, R)
  BY <1>1, SumExists
<1>4. g[S] = f[x] + g[R]
  <2>1. AnyOrder(g, f, S)
    BY <1>2, SumAnyOrder DEF NatSum
  <2>2. S \in SUBSET S
    OBVIOUS
  <2> QED
    BY <2>1, <2>2 DEF AnyOrder
<1>5. g[R] = k[R]
  BY <1>2, <1>3, SumAgrees
<1> QED
  BY <1>1, <1>2, <1>3, <1>4, <1>5, TotalIsSum

\* One summand more.
LEMMA TotalWith ==
  ASSUME NEW S, IsFiniteSet(S), NEW f, NEW x, x \notin S, NatValued(f, S \cup {x})
  PROVE  Total(f, S \cup {x}) = f[x] + Total(f, S)
<1>1. IsFiniteSet(S \cup {x}) /\ (S \cup {x}) \ {x} = S
  BY FS_AddElement
<1> QED
  BY <1>1, TotalWithout

\* Functions that differ at x only, summed over sets that differ in x only.
Part(f, S, x) == IF x \in S THEN f[x] ELSE 0

LEMMA TotalChanges ==
  ASSUME NEW S, IsFiniteSet(S), NEW f, NatValued(f, S),
         NEW R, IsFiniteSet(R), NEW h, NatValued(h, R),
         NEW x, S \ {x} = R \ {x}, \A y \in S \ {x} : h[y] = f[y]
  PROVE  /\ Part(f, S, x) \in Nat /\ Part(h, R, x) \in Nat
         /\ Part(f, S, x) <= Total(f, S)
         /\ Total(h, R) = Total(f, S) - Part(f, S, x) + Part(h, R, x)
<1> DEFINE Q == S \ {x}
<1>1. IsFiniteSet(Q) /\ NatValued(f, Q)
  BY FS_Subset DEF NatValued
<1>2. Total(h, Q) = Total(f, Q) /\ Total(f, Q) \in Nat
  BY <1>1, TotalEqual, TotalType
<1>3. Total(f, S) = Part(f, S, x) + Total(f, Q)
  <2>1. CASE x \in S
    <3>1. Total(f, S) = f[x] + Total(f, S \ {x})
      BY <2>1, TotalWithout
    <3>2. Part(f, S, x) = f[x]
      BY <2>1 DEF Part
    <3> QED
      BY <3>1, <3>2
  <2>2. CASE x \notin S
    <3>1. Total(f, Q) = Total(f, S) /\ Total(f, Q) \in Nat
      <4>1. Q = S
        BY <2>2
      <4> QED
        BY <1>2, <4>1
    <3>2. Part(f, S, x) = 0
      BY <2>2 DEF Part
    <3> QED
      BY <3>1, <3>2
  <2> QED
    BY <2>1, <2>2
<1>4. Total(h, R) = Part(h, R, x) + Total(h, Q)
  <2>1. CASE x \in R
    <3>1. Total(h, R) = h[x] + Total(h, R \ {x})
      BY <2>1, TotalWithout
    <3>2. Part(h, R, x) = h[x]
      BY <2>1 DEF Part
    <3> QED
      BY <3>1, <3>2
  <2>2. CASE x \notin R
    <3>1. Total(h, Q) = Total(h, R) /\ Total(h, Q) \in Nat
      <4>1. Q = R
        BY <2>2
      <4> QED
        BY <1>2, <4>1
    <3>2. Part(h, R, x) = 0
      BY <2>2 DEF Part
    <3> QED
      BY <3>1, <3>2
  <2> QED
    BY <2>1, <2>2
<1>5. Part(f, S, x) \in Nat /\ Part(h, R, x) \in Nat
  BY DEF Part, NatValued
<1> QED
  BY <1>2, <1>3, <1>4, <1>5
=============================================================================
