-------------------------- MODULE MeterStoreProofs --------------------------
(***************************************************************************)
(* Proofs about MeterStore, for every number of instances and workers, every*)
(* log and every counter width.  What the loop of ApplyMeters and the sums  *)
(* of the ledger compute is proved by looking at a least counterexample: a  *)
(* non-empty set of naturals has a least element, so a set of lengths or    *)
(* sizes at which a statement fails and that has none is empty.             *)
(***************************************************************************)
EXTENDS MeterStore, FiniteSetTheorems, WellFoundedInduction, TLAPS

\* A non-empty set of naturals has a least element.
LEMMA LeastNat ==
  ASSUME NEW T, T \subseteq Nat, T # {}
  PROVE  \E x \in T : \A y \in T : x <= y
<1>1. PICK x \in T : \A y \in T : ~(<<y, x>> \in OpToRel(<, Nat))
  BY NatLessThanWellFounded, WFMin
<1>2. \A y \in T : ~(y < x)
  BY <1>1 DEF OpToRel
<1> QED BY <1>2

\* A non-empty family of subsets of a finite set has a smallest member.
LEMMA SmallestSet ==
  ASSUME NEW S, IsFiniteSet(S), NEW B \in SUBSET SUBSET S, B # {}
  PROVE  \E s \in B : \A t \in SUBSET S :
           Cardinality(t) < Cardinality(s) => t \notin B
<1> DEFINE T == {Cardinality(s) : s \in B}
<1>1. \A s \in SUBSET S : Cardinality(s) \in Nat
  BY FS_Subset, FS_CardinalityType
<1>2. T \subseteq Nat /\ T # {}
  BY <1>1
<1>3. PICK n \in T : \A m \in T : n <= m
  <2> HIDE DEF T
  <2> QED BY <1>2, LeastNat
<1>4. PICK s \in B : n = Cardinality(s)
  BY <1>3
<1>5. \A t \in B : Cardinality(s) <= Cardinality(t)
  BY <1>3, <1>4
<1> QED BY <1>1, <1>4, <1>5

\* A set gets smaller by one when an element is removed.
LEMMA RemoveOne ==
  ASSUME NEW S, IsFiniteSet(S), NEW s \in SUBSET S, NEW x \in s
  PROVE  /\ Cardinality(s) \in Nat /\ Cardinality(s \ {x}) \in Nat
         /\ Cardinality(s \ {x}) < Cardinality(s)
         /\ Cardinality(s \ {x}) + 1 = Cardinality(s)
<1>1. IsFiniteSet(s)
  BY FS_Subset
<1>2. IsFiniteSet(s \ {x}) /\ Cardinality(s \ {x}) = Cardinality(s) - 1
  BY <1>1, FS_RemoveElement
<1> QED BY <1>1, <1>2, FS_CardinalityType

-----------------------------------------------------------------------------
(***************************************************************************)
(* Folds over a finite set, and the sums the ledger is stated with.         *)
(***************************************************************************)
\* The element a fold of the library Functions takes next.
Pick(s) == CHOOSE x \in s : TRUE

\* g is the sum of f over every subset of S, as the fold computes it.
SumEq(f, S, g) ==
  g = [s \in SUBSET S |->
        IF s = {} THEN 0 ELSE f[Pick(s)] + g[s \ {Pick(s)}]]

\* It is one of the set.
LEMMA PickIn == ASSUME NEW s, s # {} PROVE Pick(s) \in s
  BY DEF Pick

\* The subsets of S that have at most n elements.
Upto(S, n) == {s \in SUBSET S : Cardinality(s) <= n}

\* The value a fold over S has on the set s: c picks an element, F combines it
\* with the value on the rest.
FoldValue(base, F, c, g, s) ==
  IF s = {} THEN base ELSE F[<<c[s], g[s \ {c[s]}]>>]

\* c picks an element of every subset of S, F and base stay in V.
Picks(S, c) == \A s \in SUBSET S : s # {} => c[s] \in s
Folds(S, V, base, F) == base \in V /\ F \in [S \X V -> V]

\* g is the fold over S.
IsFold(S, V, base, F, c, g) ==
  /\ g \in [SUBSET S -> V]
  /\ \A s \in SUBSET S : g[s] = FoldValue(base, F, c, g, s)

\* The same, for the subsets of at most n elements.
FoldTo(S, V, base, F, c, n, g) ==
  /\ g \in [Upto(S, n) -> V]
  /\ \A s \in Upto(S, n) : g[s] = FoldValue(base, F, c, g, s)

\* Over a finite set a fold is defined: if not, take the least n for which there
\* is no fold on the subsets of at most n elements, and extend the one for n - 1.
LEMMA FoldExists ==
  ASSUME NEW S, IsFiniteSet(S), NEW V, NEW base, NEW F, NEW c,
         Folds(S, V, base, F), Picks(S, c)
  PROVE  \E g : IsFold(S, V, base, F, c, g)
<1> DEFINE T == {n \in Nat : ~\E g : FoldTo(S, V, base, F, c, n, g)}
<1>0. \A s \in SUBSET S : Cardinality(s) \in Nat
  BY FS_Subset, FS_CardinalityType
<1>1. T = {}
  <2>1. SUFFICES ASSUME T # {} PROVE FALSE
    OBVIOUS
  <2>2. PICK n \in T : \A m \in T : n <= m
    <3>1. T \subseteq Nat
      OBVIOUS
    <3> HIDE DEF T
    <3> QED BY <2>1, <3>1, LeastNat
  <2>3. CASE n = 0
    <3> DEFINE g == [s \in Upto(S, 0) |-> base]
    <3>1. \A s \in Upto(S, 0) : s = {}
      <4> TAKE s \in Upto(S, 0)
      <4>1. IsFiniteSet(s) /\ Cardinality(s) = 0
        BY <1>0, FS_Subset DEF Upto
      <4> QED BY <4>1, FS_EmptySet
    <3>2. FoldTo(S, V, base, F, c, 0, g)
      BY <3>1 DEF FoldTo, FoldValue, Folds
    <3> QED BY <3>2, <2>3
  <2>4. CASE n > 0
    <3>1. n - 1 \in Nat /\ n - 1 \notin T
      BY <2>2, <2>4
    <3>2. PICK h : FoldTo(S, V, base, F, c, n - 1, h)
      BY <3>1
    <3> DEFINE g == [s \in Upto(S, n) |-> FoldValue(base, F, c, h, s)]
    <3>3. ASSUME NEW s \in Upto(S, n), s # {}
          PROVE  c[s] \in S /\ s \ {c[s]} \in Upto(S, n - 1)
      <4>1. c[s] \in s /\ s \in SUBSET S /\ s \ {c[s]} \in SUBSET S
        BY <3>3 DEF Upto, Picks
      <4>2. /\ Cardinality(s) \in Nat /\ Cardinality(s \ {c[s]}) \in Nat
            /\ Cardinality(s \ {c[s]}) < Cardinality(s)
        BY <4>1, RemoveOne
      <4>3. Cardinality(s) <= n
        BY DEF Upto
      <4> QED BY <4>1, <4>2, <4>3, <2>2 DEF Upto
    <3>4. \A s \in Upto(S, n - 1) : s \in Upto(S, n) /\ g[s] = h[s]
      <4> TAKE s \in Upto(S, n - 1)
      <4>1. s \in Upto(S, n)
        BY <1>0, <2>2 DEF Upto
      <4>2. h[s] = FoldValue(base, F, c, h, s)
        BY <3>2 DEF FoldTo
      <4> QED BY <4>1, <4>2
    <3>5. g \in [Upto(S, n) -> V]
      <4> SUFFICES ASSUME NEW s \in Upto(S, n)
                   PROVE  FoldValue(base, F, c, h, s) \in V
        OBVIOUS
      <4> QED BY <3>2, <3>3 DEF FoldTo, FoldValue, Folds
    <3>6. \A s \in Upto(S, n) : g[s] = FoldValue(base, F, c, g, s)
      <4> TAKE s \in Upto(S, n)
      <4>1. s # {} => g[s \ {c[s]}] = h[s \ {c[s]}]
        BY <3>3, <3>4
      <4>2. g[s] = FoldValue(base, F, c, h, s)
        OBVIOUS
      <4> HIDE DEF g
      <4> QED BY <4>1, <4>2 DEF FoldValue
    <3> HIDE DEF g
    <3> QED BY <3>5, <3>6 DEF FoldTo
  <2> QED BY <2>2, <2>3, <2>4
<1>2. PICK g : FoldTo(S, V, base, F, c, Cardinality(S), g)
  BY <1>0, <1>1
<1>3. Upto(S, Cardinality(S)) = SUBSET S
  BY FS_Subset DEF Upto
<1> QED BY <1>2, <1>3 DEF FoldTo, IsFold

\* The fold of a sum of naturals is defined.
LEMMA SumExists ==
  ASSUME NEW S, IsFiniteSet(S), NEW f, \A x \in S : f[x] \in Nat
  PROVE  \E g : SumEq(f, S, g)
<1> DEFINE F == [p \in S \X Nat |-> f[p[1]] + p[2]]
           c == [s \in SUBSET S |-> Pick(s)]
           V == Nat
           base == 0
<1>1. Folds(S, V, base, F)
  BY DEF Folds
<1>2. Picks(S, c)
  BY PickIn DEF Picks
<1>3. PICK g : IsFold(S, V, base, F, c, g)
  <2> HIDE DEF F, c, V, base
  <2> QED BY <1>1, <1>2, FoldExists
<1>4. ASSUME NEW s \in SUBSET S
      PROVE  g[s] = IF s = {} THEN 0 ELSE f[Pick(s)] + g[s \ {Pick(s)}]
  <2>1. CASE s = {}
    BY <1>3, <2>1 DEF FoldValue, IsFold
  <2>2. CASE s # {}
    <3>1. g[s] = F[<<Pick(s), g[s \ {Pick(s)}]>>]
      BY <1>3, <2>2 DEF FoldValue, IsFold
    <3>2. Pick(s) \in S /\ g[s \ {Pick(s)}] \in Nat
      BY <1>3, <2>2, PickIn DEF IsFold
    <3> QED BY <2>2, <3>1, <3>2
  <2> QED BY <2>1, <2>2
<1> QED BY <1>3, <1>4 DEF SumEq, IsFold

\* SumFunction is that fold.
LEMMA SumIs ==
  ASSUME NEW f, IsFiniteSet(DOMAIN f), \A x \in DOMAIN f : f[x] \in Nat
  PROVE  \E g : SumEq(f, DOMAIN f, g) /\ Ledger!SumFunction(f) = g[DOMAIN f]
<1>1. PICK g0 : SumEq(f, DOMAIN f, g0)
  BY SumExists
<1> QED
  BY <1>1 DEF Ledger!SumFunction, Ledger!SumFunctionOnSet,
       Ledger!FoldFunctionOnSet, Ledger!MapThenFoldSet, SumEq, Pick

\* The equation of the fold at one set.
LEMMA SumStep ==
  ASSUME NEW S, NEW f, NEW g, SumEq(f, S, g), NEW s \in SUBSET S
  PROVE  /\ s = {} => g[s] = 0
         /\ s # {} => g[s] = f[Pick(s)] + g[s \ {Pick(s)}]
  BY DEF SumEq

\* A sum of naturals is a natural.
LEMMA SumType ==
  ASSUME NEW S, IsFiniteSet(S), NEW f, \A x \in S : f[x] \in Nat,
         NEW g, SumEq(f, S, g), NEW s0 \in SUBSET S
  PROVE  g[s0] \in Nat
<1> DEFINE B == {s \in SUBSET S : g[s] \notin Nat}
<1>1. SUFFICES ASSUME B # {} PROVE FALSE
  OBVIOUS
<1>2. PICK s \in B : \A t \in SUBSET S :
        Cardinality(t) < Cardinality(s) => t \notin B
  <2>1. B \in SUBSET SUBSET S
    OBVIOUS
  <2> HIDE DEF B
  <2> QED BY <1>1, <2>1, SmallestSet
<1>3. s \in SUBSET S /\ g[s] \notin Nat
  BY <1>2
<1> HIDE DEF B
<1>4. s # {} /\ g[s] = f[Pick(s)] + g[s \ {Pick(s)}]
  <2>1. /\ s = {} => g[s] = 0
        /\ s # {} => g[s] = f[Pick(s)] + g[s \ {Pick(s)}]
    BY <1>3 DEF SumEq
  <2> QED BY <1>3, <2>1
<1>5. Pick(s) \in s
  BY <1>4, PickIn
<1> USE DEF B
<1>6. g[s \ {Pick(s)}] \in Nat
  BY <1>2, <1>3, <1>5, RemoveOne
<1>7. f[Pick(s)] \in Nat
  BY <1>3, <1>5
<1> HIDE DEF B
<1> QED BY <1>3, <1>4, <1>6, <1>7

\* Two functions that agree on a set have the same sum over it.
LEMMA SumAgree ==
  ASSUME NEW S1, NEW S2, NEW f1, NEW f2, NEW g1, NEW g2,
         SumEq(f1, S1, g1), SumEq(f2, S2, g2),
         NEW s0, IsFiniteSet(s0), s0 \subseteq S1, s0 \subseteq S2,
         \A x \in s0 : f1[x] = f2[x]
  PROVE  g1[s0] = g2[s0]
<1> DEFINE B == {s \in SUBSET s0 : g1[s] # g2[s]}
<1>1. SUFFICES ASSUME B # {} PROVE FALSE
  OBVIOUS
<1>2. PICK s \in B : \A t \in SUBSET s0 :
        Cardinality(t) < Cardinality(s) => t \notin B
  <2>1. B \in SUBSET SUBSET s0
    OBVIOUS
  <2> HIDE DEF B
  <2> QED BY <1>1, <2>1, SmallestSet
<1>3. s \in SUBSET S1 /\ s \in SUBSET S2 /\ s \in SUBSET s0
  OBVIOUS
<1>4. s # {}
  BY <1>3, SumStep
<1>5. Pick(s) \in s
  BY <1>4, PickIn
<1>6. g1[s \ {Pick(s)}] = g2[s \ {Pick(s)}]
  BY <1>2, <1>3, <1>5, RemoveOne
<1>7. g1[s] = f1[Pick(s)] + g1[s \ {Pick(s)}]
  BY <1>3, <1>4, SumStep
<1>8. g2[s] = f2[Pick(s)] + g2[s \ {Pick(s)}]
  BY <1>3, <1>4, SumStep
<1> QED BY <1>3, <1>5, <1>6, <1>7, <1>8

\* Any element can be split off a sum, not only the one the fold picks.
LEMMA SumSplit ==
  ASSUME NEW S, IsFiniteSet(S), NEW f, \A x \in S : f[x] \in Nat,
         NEW g, SumEq(f, S, g), NEW s0 \in SUBSET S, NEW x0 \in s0
  PROVE  g[s0] = f[x0] + g[s0 \ {x0}]
<1> DEFINE B == {s \in SUBSET S : \E x \in s : g[s] # f[x] + g[s \ {x}]}
<1>1. SUFFICES ASSUME B # {} PROVE FALSE
  OBVIOUS
<1>2. PICK s \in B : \A t \in SUBSET S :
        Cardinality(t) < Cardinality(s) => t \notin B
  <2>1. B \in SUBSET SUBSET S
    OBVIOUS
  <2> HIDE DEF B
  <2> QED BY <1>1, <2>1, SmallestSet
<1>3. PICK x \in s : g[s] # f[x] + g[s \ {x}]
  OBVIOUS
<1> DEFINE c == Pick(s)
<1>4. s \in SUBSET S /\ c \in s /\ g[s] = f[c] + g[s \ {c}]
  BY SumStep, PickIn
<1> HIDE DEF c
<1>5. x # c
  BY <1>3, <1>4
<1>6. g[s \ {c}] = f[x] + g[(s \ {c}) \ {x}]
  <2>1. s \ {c} \in SUBSET S /\ s \ {c} \notin B
    BY <1>2, <1>4, RemoveOne
  <2> QED BY <2>1, <1>4, <1>5
<1>7. g[s \ {x}] = f[c] + g[(s \ {x}) \ {c}]
  <2>1. s \ {x} \in SUBSET S /\ s \ {x} \notin B
    BY <1>2, <1>4, RemoveOne
  <2> QED BY <2>1, <1>4, <1>5
<1>8. (s \ {c}) \ {x} = (s \ {x}) \ {c}
  OBVIOUS
<1>9. g[(s \ {x}) \ {c}] \in Nat /\ f[x] \in Nat /\ f[c] \in Nat
  <2>1. (s \ {x}) \ {c} \in SUBSET S
    OBVIOUS
  <2> QED BY <1>4, <2>1, SumType
<1>10. ASSUME NEW u \in Nat, NEW v \in Nat, NEW w \in Nat
       PROVE  u + (v + w) = v + (u + w)
  OBVIOUS
<1>11. g[s] = f[c] + (f[x] + g[(s \ {x}) \ {c}])
  BY <1>4, <1>6, <1>8, Zenon
<1>12. g[s] = f[x] + (f[c] + g[(s \ {x}) \ {c}])
  BY <1>9, <1>10, <1>11, Zenon
<1> QED BY <1>3, <1>7, <1>12, Zenon

\* The same, of SumFunction.
LEMMA SumNat ==
  ASSUME NEW D, IsFiniteSet(D), NEW f \in [D -> Nat]
  PROVE  Ledger!SumFunction(f) \in Nat
<1>1. DOMAIN f = D
  OBVIOUS
<1>2. PICK g : SumEq(f, D, g) /\ Ledger!SumFunction(f) = g[D]
  BY <1>1, SumIs
<1> QED BY <1>2, SumType

\* The sum of zeros is zero.
LEMMA SumZero ==
  ASSUME NEW D, IsFiniteSet(D), NEW f \in [D -> Nat], \A x \in D : f[x] = 0
  PROVE  Ledger!SumFunction(f) = 0
<1>1. DOMAIN f = D
  OBVIOUS
<1>2. PICK g : SumEq(f, D, g) /\ Ledger!SumFunction(f) = g[D]
  BY <1>1, SumIs
<1> DEFINE B == {s \in SUBSET D : g[s] # 0}
<1>3. SUFFICES ASSUME B # {} PROVE FALSE
  BY <1>2
<1>4. PICK s \in B : \A t \in SUBSET D :
        Cardinality(t) < Cardinality(s) => t \notin B
  <2>1. B \in SUBSET SUBSET D
    OBVIOUS
  <2> HIDE DEF B
  <2> QED BY <1>3, <2>1, SmallestSet
<1>5. s \in SUBSET D /\ g[s] # 0
  OBVIOUS
<1>6. s # {} /\ g[s] = f[Pick(s)] + g[s \ {Pick(s)}]
  BY <1>2, <1>5 DEF SumEq
<1>7. Pick(s) \in s
  BY <1>6, PickIn
<1>8. g[s \ {Pick(s)}] = 0
  BY <1>4, <1>5, <1>7, RemoveOne
<1> HIDE DEF B
<1> QED BY <1>5, <1>6, <1>7, <1>8

\* If one value changes, the sum changes by as much.
LEMMA SumChange ==
  ASSUME NEW D, IsFiniteSet(D), NEW f1 \in [D -> Nat], NEW f2 \in [D -> Nat],
         NEW x \in D, \A y \in D \ {x} : f1[y] = f2[y]
  PROVE  Ledger!SumFunction(f1) + f2[x] = Ledger!SumFunction(f2) + f1[x]
<1>1. DOMAIN f1 = D /\ DOMAIN f2 = D
  OBVIOUS
<1>2. PICK g1 : SumEq(f1, D, g1) /\ Ledger!SumFunction(f1) = g1[D]
  BY <1>1, SumIs
<1>3. PICK g2 : SumEq(f2, D, g2) /\ Ledger!SumFunction(f2) = g2[D]
  BY <1>1, SumIs
<1>4. g1[D] = f1[x] + g1[D \ {x}] /\ g2[D] = f2[x] + g2[D \ {x}]
  BY <1>2, <1>3, SumSplit
<1>5. IsFiniteSet(D \ {x}) /\ D \ {x} \in SUBSET D
  BY FS_Subset
<1>6. g1[D \ {x}] = g2[D \ {x}]
  BY <1>2, <1>3, <1>5, SumAgree
<1>7. g1[D \ {x}] \in Nat
  BY <1>2, <1>5, SumType
<1> QED BY <1>2, <1>3, <1>4, <1>6, <1>7

\* One value can be split off SumFunction.
LEMMA SumWithout ==
  ASSUME NEW D, IsFiniteSet(D), NEW x \in D, NEW f1 \in [D \ {x} -> Nat],
         NEW f2 \in [D -> Nat], \A y \in D \ {x} : f1[y] = f2[y]
  PROVE  Ledger!SumFunction(f2) = Ledger!SumFunction(f1) + f2[x]
<1>1. IsFiniteSet(D \ {x}) /\ D \ {x} \in SUBSET D
  BY FS_Subset
<1>2. DOMAIN f1 = D \ {x} /\ DOMAIN f2 = D
  OBVIOUS
<1>3. PICK g1 : SumEq(f1, D \ {x}, g1) /\ Ledger!SumFunction(f1) = g1[D \ {x}]
  BY <1>1, <1>2, SumIs
<1>4. PICK g2 : SumEq(f2, D, g2) /\ Ledger!SumFunction(f2) = g2[D]
  BY <1>2, SumIs
<1>5. g2[D] = f2[x] + g2[D \ {x}]
  BY <1>4, SumSplit
<1>6. g1[D \ {x}] = g2[D \ {x}]
  BY <1>1, <1>3, <1>4, SumAgree
<1>7. g2[D \ {x}] \in Nat
  BY <1>1, <1>4, SumType
<1> QED BY <1>3, <1>4, <1>5, <1>6, <1>7

\* The bytes of the first n deltas of instance i.
SentUp(i, n) == Ledger!SentUp(i, n)
SentDown(i, n) == Ledger!SentDown(i, n)

\* What an instance sent grows by each delta.
LEMMA SentFacts ==
  ASSUME NEW i \in Instances
  PROVE  /\ SentUp(i, 0) = 0 /\ SentDown(i, 0) = 0
         /\ \A n \in 0..LogLength :
              SentUp(i, n) \in Nat /\ SentDown(i, n) \in Nat
         /\ \A n \in 0..LogLength : n + 1 \in 0..LogLength =>
              /\ SentUp(i, n + 1) = SentUp(i, n) + Log[i][n + 1].up
              /\ SentDown(i, n + 1) = SentDown(i, n) + Log[i][n + 1].down
<1> DEFINE Up(n) == [k \in 1..n |-> Log[i][k].up]
           Down(n) == [k \in 1..n |-> Log[i][k].down]
<1>1. \A n \in 0..LogLength : Up(n) \in [1..n -> Nat] /\ Down(n) \in [1..n -> Nat]
  BY MeterConstants
<1>2. \A n : /\ SentUp(i, n) = Ledger!SumFunction(Up(n))
             /\ SentDown(i, n) = Ledger!SumFunction(Down(n))
  BY DEF SentUp, SentDown, Ledger!SentUp, Ledger!SentDown
<1>3. \A n \in 0..LogLength : n \in Nat /\ IsFiniteSet(1..n)
  BY FS_Interval, MeterConstants
<1>4. \A n \in 0..LogLength : SentUp(i, n) \in Nat /\ SentDown(i, n) \in Nat
  <2> HIDE DEF Up, Down
  <2> QED BY <1>1, <1>2, <1>3, SumNat
<1>5. SentUp(i, 0) = 0 /\ SentDown(i, 0) = 0
  <2>1. 0 \in 0..LogLength /\ 1..0 = {}
    BY MeterConstants
  <2> HIDE DEF Up, Down
  <2> QED BY <1>1, <1>2, <1>3, <2>1, SumZero
<1>6. ASSUME NEW n \in 0..LogLength, n + 1 \in 0..LogLength
      PROVE  /\ SentUp(i, n + 1) = SentUp(i, n) + Log[i][n + 1].up
             /\ SentDown(i, n + 1) = SentDown(i, n) + Log[i][n + 1].down
  <2>1. /\ \A k \in 1..n : Up(n)[k] = Up(n + 1)[k] /\ Down(n)[k] = Down(n + 1)[k]
        /\ Up(n + 1)[n + 1] = Log[i][n + 1].up
        /\ Down(n + 1)[n + 1] = Log[i][n + 1].down
    BY <1>3
  <2> DEFINE D == 1..(n + 1)
  <2>2. /\ n + 1 \in D /\ D \ {n + 1} = 1..n /\ IsFiniteSet(D)
        /\ Up(n) \in [D \ {n + 1} -> Nat] /\ Up(n + 1) \in [D -> Nat]
        /\ Down(n) \in [D \ {n + 1} -> Nat] /\ Down(n + 1) \in [D -> Nat]
    BY <1>1, <1>3, <1>6
  <2> HIDE DEF Up, Down, D
  <2>3. Ledger!SumFunction(Up(n + 1))
          = Ledger!SumFunction(Up(n)) + Up(n + 1)[n + 1]
    BY <2>1, <2>2, SumWithout
  <2>4. Ledger!SumFunction(Down(n + 1))
          = Ledger!SumFunction(Down(n)) + Down(n + 1)[n + 1]
    BY <2>1, <2>2, SumWithout
  <2> QED BY <1>2, <2>1, <2>3, <2>4
<1> QED BY <1>4, <1>5, <1>6

\* How many deltas of each instance may have been counted.
Counts == [Instances -> 0..LogLength]

\* If one instance is counted further, the total grows by what that adds.
LEMMA TotalFacts ==
  ASSUME NEW c \in Counts
  PROVE  /\ Ledger!Total(c) \in [up : Nat, down : Nat]
         /\ (\A i \in Instances : c[i] = 0) =>
              Ledger!Total(c) = [up |-> 0, down |-> 0]
         /\ \A i \in Instances, n \in 0..LogLength :
              LET d == [c EXCEPT ![i] = n]
              IN  /\ Ledger!Total(c).up + SentUp(i, n)
                       = Ledger!Total(d).up + SentUp(i, c[i])
                  /\ Ledger!Total(c).down + SentDown(i, n)
                       = Ledger!Total(d).down + SentDown(i, c[i])
<1> DEFINE Up(e) == [i \in Instances |-> SentUp(i, e[i])]
           Down(e) == [i \in Instances |-> SentDown(i, e[i])]
<1>0. IsFiniteSet(Instances)
  BY MeterConstants
<1>1. \A e : Ledger!Total(e) = [up |-> Ledger!SumFunction(Up(e)),
                                down |-> Ledger!SumFunction(Down(e))]
  BY DEF Ledger!Total, SentUp, SentDown
<1>2. \A e \in Counts : Up(e) \in [Instances -> Nat] /\ Down(e) \in [Instances -> Nat]
  BY SentFacts DEF Counts
<1>3. Ledger!Total(c) \in [up : Nat, down : Nat]
  <2> HIDE DEF Up, Down
  <2>1. Ledger!SumFunction(Up(c)) \in Nat /\ Ledger!SumFunction(Down(c)) \in Nat
    BY <1>0, <1>2, SumNat
  <2> QED BY <1>1, <2>1
<1>4. ASSUME \A i \in Instances : c[i] = 0
      PROVE  Ledger!Total(c) = [up |-> 0, down |-> 0]
  <2>1. \A i \in Instances : Up(c)[i] = 0 /\ Down(c)[i] = 0
    BY <1>4, SentFacts
  <2> HIDE DEF Up, Down
  <2>2. Ledger!SumFunction(Up(c)) = 0 /\ Ledger!SumFunction(Down(c)) = 0
    BY <1>0, <1>2, <2>1, SumZero
  <2> QED BY <1>1, <2>2
<1>5. ASSUME NEW i \in Instances, NEW n \in 0..LogLength
      PROVE  LET d == [c EXCEPT ![i] = n]
             IN  /\ Ledger!Total(c).up + SentUp(i, n)
                       = Ledger!Total(d).up + SentUp(i, c[i])
                 /\ Ledger!Total(c).down + SentDown(i, n)
                       = Ledger!Total(d).down + SentDown(i, c[i])
  <2> DEFINE d == [c EXCEPT ![i] = n]
  <2>1. d \in Counts
    BY DEF Counts
  <2>2. /\ \A j \in Instances \ {i} : Up(c)[j] = Up(d)[j] /\ Down(c)[j] = Down(d)[j]
        /\ Up(c)[i] = SentUp(i, c[i]) /\ Up(d)[i] = SentUp(i, n)
        /\ Down(c)[i] = SentDown(i, c[i]) /\ Down(d)[i] = SentDown(i, n)
    BY DEF Counts
  <2> HIDE DEF d, Up, Down
  <2>3. Ledger!SumFunction(Up(c)) + Up(d)[i]
          = Ledger!SumFunction(Up(d)) + Up(c)[i]
    BY <1>0, <1>2, <2>1, <2>2, SumChange
  <2>4. Ledger!SumFunction(Down(c)) + Down(d)[i]
          = Ledger!SumFunction(Down(d)) + Down(c)[i]
    BY <1>0, <1>2, <2>1, <2>2, SumChange
  <2>5. /\ Ledger!Total(c).up + SentUp(i, n)
             = Ledger!Total(d).up + SentUp(i, c[i])
        /\ Ledger!Total(c).down + SentDown(i, n)
             = Ledger!Total(d).down + SentDown(i, c[i])
    BY <1>1, <2>2, <2>3, <2>4
  <2> QED BY <2>5 DEF d
<1> QED BY <1>3, <1>4, <1>5

-----------------------------------------------------------------------------
(***************************************************************************)
(* The loop of ApplyMeters.                                                 *)
(***************************************************************************)
Usages == [up : Counter, down : Counter]
Loops == [loop : {"run", "done", "error"}, ack : 0..LogLength, usage : Usages]
Numbers == (0..LogLength) \cup {Nil}
Start(a, u) == [loop |-> "run", ack |-> a, usage |-> u]

\* From one state of the loop to the other the total has grown by exactly the
\* deltas that were acknowledged.
Grown(i, from, to) ==
  /\ from.ack <= to.ack
  /\ to.usage.up + SentUp(i, from.ack) = from.usage.up + SentUp(i, to.ack)
  /\ to.usage.down + SentDown(i, from.ack) = from.usage.down + SentDown(i, to.ack)

\* An iteration keeps the types, and counts what it acknowledges.
LEMMA StepGrows ==
  ASSUME NEW i \in Instances, NEW st \in Loops, NEW seq \in Numbers
  PROVE  /\ Step(i, st, seq) \in Loops
         /\ Grown(i, st, Step(i, st, seq))
<1>1. \A n \in 0..LogLength : SentUp(i, n) \in Nat /\ SentDown(i, n) \in Nat
  BY SentFacts
<1>2. /\ st.loop \in {"run", "done", "error"} /\ st.ack \in 0..LogLength
      /\ st.usage \in Usages /\ st.usage.up \in Counter /\ st.usage.down \in Counter
      /\ MaxCounter \in Nat /\ LogLength \in Nat
  BY MeterConstants DEF Loops, Usages
<1> DEFINE new == Step(i, st, seq)
<1> SUFFICES new \in Loops /\ Grown(i, st, new)
  OBVIOUS
<1>3. CASE new = st
  BY <1>1, <1>2, <1>3 DEF Grown, Counter
<1>4. CASE \E l \in {"done", "error"} : new = [st EXCEPT !.loop = l]
  <2>1. new \in Loops /\ new.ack = st.ack /\ new.usage = st.usage
    BY <1>4 DEF Loops
  <2> HIDE DEF new
  <2> QED BY <1>1, <1>2, <2>1 DEF Grown, Counter
<1>5. CASE /\ seq \in 0..LogLength /\ seq = st.ack + 1
           /\ ~Overflows(st, Log[i][seq])
           /\ new = [st EXCEPT !.ack = seq,
                               !.usage.up = @ + Log[i][seq].up,
                               !.usage.down = @ + Log[i][seq].down]
  <2>1. /\ Log[i][seq].up \in Nat /\ Log[i][seq].down \in Nat
    BY <1>2, <1>5, MeterConstants
  <2>2. /\ st.usage.up + Log[i][seq].up \in Counter
        /\ st.usage.down + Log[i][seq].down \in Counter
    BY <1>2, <1>5, <2>1 DEF Overflows, Counter
  <2>3. /\ new.loop = st.loop /\ new.ack = seq
        /\ new.usage = [up |-> st.usage.up + Log[i][seq].up,
                        down |-> st.usage.down + Log[i][seq].down]
        /\ new = [loop |-> new.loop, ack |-> new.ack, usage |-> new.usage]
    BY <1>5 DEF Loops, Usages
  <2>4. new \in Loops
    <3> HIDE DEF new
    <3> QED BY <1>2, <1>5, <2>2, <2>3 DEF Loops, Usages
  <2>5. /\ SentUp(i, seq) = SentUp(i, st.ack) + Log[i][seq].up
        /\ SentDown(i, seq) = SentDown(i, st.ack) + Log[i][seq].down
    BY <1>2, <1>5, SentFacts
  <2>6. /\ st.usage.up \in Nat /\ st.usage.down \in Nat /\ seq \in Nat
        /\ SentUp(i, st.ack) \in Nat /\ SentDown(i, st.ack) \in Nat
    BY <1>1, <1>2, <1>5 DEF Counter
  <2>7. /\ new.ack = seq /\ seq = st.ack + 1
        /\ new.usage.up = st.usage.up + Log[i][seq].up
        /\ new.usage.down = st.usage.down + Log[i][seq].down
    BY <1>5, <2>3
  <2> HIDE DEF new
  <2> QED BY <1>2, <2>1, <2>4, <2>5, <2>6, <2>7 DEF Grown
<1> QED
  BY <1>2, <1>3, <1>4, <1>5 DEF Step, Skips, Breaks, Numbers

\* Max picks an element, so the fold of the loop takes the last delta first.
LEMMA MaxOf ==
  ASSUME NEW n \in Nat, NEW s \in SUBSET (1..n), s # {}
  PROVE  Max(s) \in s
<1> DEFINE T == {n - x : x \in s}
<1>0. \A x \in s : x \in Nat /\ n - x \in Nat /\ n - x \in T
  OBVIOUS
<1>1. T \subseteq Nat /\ T # {}
  BY <1>0
<1>2. PICK m \in T : \A y \in T : m <= y
  <2> HIDE DEF T
  <2> QED BY <1>1, LeastNat
<1>3. PICK x \in s : m = n - x
  BY <1>2
<1>4. ASSUME NEW y \in s PROVE x >= y
  <2>1. n - x <= n - y
    BY <1>0, <1>2, <1>3
  <2> QED BY <1>0, <2>1
<1> QED BY <1>4 DEF Max

\* The last of the first k deltas is the k-th.
LEMMA MaxOfInterval ==
  ASSUME NEW k \in Nat, k > 0
  PROVE  Max(1..k) = k /\ (1..k) \ {k} = 1..(k - 1)
<1>1. \E x \in 1..k : \A y \in 1..k : x >= y
  <2>1. k \in 1..k /\ \A y \in 1..k : k >= y
    OBVIOUS
  <2> QED BY <2>1
<1>2. Max(1..k) \in 1..k /\ \A y \in 1..k : Max(1..k) >= y
  BY <1>1 DEF Max
<1> QED BY <1>2

\* g is the state of the loop over every part of the batch, as FoldLeft computes
\* it.
LoopEq(i, batch, a, u, g) ==
  g = [s \in SUBSET DOMAIN batch |->
        IF s = {} THEN Start(a, u)
        ELSE Step(i, g[s \ {Max(s)}], batch[Max(s)])]

\* The states of the loop after each delta of the batch.
IsTrace(i, batch, a, u, h) ==
  /\ h \in [0..Len(batch) -> Loops]
  /\ h[0] = Start(a, u)
  /\ \A k \in 1..Len(batch) : h[k] = Step(i, h[k - 1], batch[k])

\* The fold of the loop is defined.
LEMMA LoopExists ==
  ASSUME NEW i \in Instances, NEW batch \in Seq(Numbers),
         NEW a \in 0..LogLength, NEW u \in Usages
  PROVE  \E g : LoopEq(i, batch, a, u, g)
<1> DEFINE S == DOMAIN batch
           F == [p \in S \X Loops |-> Step(i, p[2], batch[p[1]])]
           c == [s \in SUBSET S |-> Max(s)]
           base == Start(a, u)
<1>0. S = 1..Len(batch) /\ Len(batch) \in Nat /\ \A k \in S : batch[k] \in Numbers
  OBVIOUS
<1>1. Folds(S, Loops, base, F)
  <2>1. base \in Loops
    BY DEF Start, Loops
  <2>2. F \in [S \X Loops -> Loops]
    BY <1>0, StepGrows
  <2> QED BY <2>1, <2>2 DEF Folds
<1>2. Picks(S, c)
  BY <1>0, MaxOf DEF Picks
<1>3. PICK g : IsFold(S, Loops, base, F, c, g)
  <2>1. IsFiniteSet(S)
    BY <1>0, FS_Interval
  <2> HIDE DEF S, F, c, base
  <2> QED BY <1>1, <1>2, <2>1, FoldExists
<1>4. ASSUME NEW s \in SUBSET S
      PROVE  g[s] = IF s = {} THEN base
                    ELSE Step(i, g[s \ {Max(s)}], batch[Max(s)])
  <2>1. CASE s = {}
    BY <1>3, <2>1 DEF FoldValue, IsFold
  <2>2. CASE s # {}
    <3>1. g[s] = F[<<Max(s), g[s \ {Max(s)}]>>]
      BY <1>3, <2>2 DEF FoldValue, IsFold
    <3>2. Max(s) \in S /\ g[s \ {Max(s)}] \in Loops
      BY <1>0, <1>3, <2>2, MaxOf DEF IsFold
    <3> QED BY <2>2, <3>1, <3>2
  <2> QED BY <2>1, <2>2
<1> QED BY <1>3, <1>4 DEF LoopEq, IsFold

\* Apply ends where the iterations over the batch, one after the other, end.
LEMMA ApplyIs ==
  ASSUME NEW i \in Instances, NEW batch \in Seq(Numbers),
         NEW a \in 0..LogLength, NEW u \in Usages
  PROVE  \E h : /\ IsTrace(i, batch, a, u, h)
                /\ Apply(i, batch, a, u) = h[Len(batch)]
<1>1. PICK g0 : LoopEq(i, batch, a, u, g0)
  BY LoopExists
<1>2. PICK g : LoopEq(i, batch, a, u, g) /\ Apply(i, batch, a, u) = g[DOMAIN batch]
  BY <1>1 DEF Apply, FoldLeft, MapThenFoldSet, LoopEq, Start
<1> DEFINE h == [k \in 0..Len(batch) |-> g[1..k]]
<1>3. DOMAIN batch = 1..Len(batch) /\ Len(batch) \in Nat
  OBVIOUS
<1>4. h[0] = Start(a, u)
  BY <1>2, <1>3 DEF LoopEq
<1>5. ASSUME NEW k \in 1..Len(batch)
      PROVE  h[k] = Step(i, h[k - 1], batch[k])
  <2>1. /\ 1..k \in SUBSET DOMAIN batch /\ 1..k # {} /\ k \in Nat /\ k > 0
        /\ k - 1 \in 0..Len(batch) /\ k \in 0..Len(batch)
    <3>1. k \in Nat /\ k >= 1 /\ k <= Len(batch)
      BY <1>3
    <3>2. 1 \in 1..k /\ \A j \in 1..k : j \in 1..Len(batch)
      BY <1>3, <3>1
    <3>3. 1..k \subseteq DOMAIN batch
      BY <1>3, <3>2
    <3>4. k - 1 \in 0..Len(batch) /\ k \in 0..Len(batch) /\ k > 0
      BY <1>3, <3>1
    <3> QED BY <3>1, <3>2, <3>3, <3>4
  <2>2. g[1..k] = Step(i, g[(1..k) \ {Max(1..k)}], batch[Max(1..k)])
    BY <1>2, <2>1 DEF LoopEq
  <2>3. Max(1..k) = k /\ (1..k) \ {k} = 1..(k - 1)
    BY <2>1, MaxOfInterval
  <2> QED BY <2>1, <2>2, <2>3
<1>6. \A k \in 0..Len(batch) : h[k] \in Loops
  <2> DEFINE T == {k \in 0..Len(batch) : h[k] \notin Loops}
  <2> HIDE DEF h
  <2>1. SUFFICES ASSUME T # {} PROVE FALSE
    OBVIOUS
  <2>2. PICK k \in T : \A m \in T : k <= m
    <3>1. T \subseteq Nat
      BY <1>3
    <3> HIDE DEF T
    <3> QED BY <2>1, <3>1, LeastNat
  <2>3. k # 0
    BY <1>4 DEF Start, Loops
  <2>4. k \in 1..Len(batch) /\ k - 1 \in 0..Len(batch) /\ k - 1 \notin T
    BY <1>3, <2>2, <2>3
  <2>5. batch[k] \in Numbers /\ h[k - 1] \in Loops
    BY <1>3, <2>4
  <2> QED BY <1>5, <2>4, <2>5, StepGrows
<1>7. IsTrace(i, batch, a, u, h)
  BY <1>4, <1>5, <1>6 DEF IsTrace
<1> QED BY <1>2, <1>3, <1>7

\* Growth adds up.
LEMMA GrownTwice ==
  ASSUME NEW i \in Instances, NEW r \in Loops, NEW s \in Loops, NEW t \in Loops,
         Grown(i, r, s), Grown(i, s, t)
  PROVE  Grown(i, r, t)
<1>1. \A n \in 0..LogLength : SentUp(i, n) \in Nat /\ SentDown(i, n) \in Nat
  BY SentFacts
<1>2. \A l \in {r, s, t} :
        /\ l.ack \in 0..LogLength /\ l.ack \in Nat
        /\ l.usage.up \in Nat /\ l.usage.down \in Nat
  BY MeterConstants DEF Loops, Usages, Counter
<1> QED BY <1>1, <1>2 DEF Grown

\* The whole loop counts what it acknowledges, whatever the batch.
LEMMA ApplyGrows ==
  ASSUME NEW i \in Instances, NEW batch \in Seq(Numbers),
         NEW a \in 0..LogLength, NEW u \in Usages
  PROVE  /\ Apply(i, batch, a, u) \in Loops
         /\ Grown(i, Start(a, u), Apply(i, batch, a, u))
<1>1. PICK h : IsTrace(i, batch, a, u, h) /\ Apply(i, batch, a, u) = h[Len(batch)]
  BY ApplyIs
<1>2. Len(batch) \in Nat
  OBVIOUS
<1>3. Start(a, u) \in Loops
  BY DEF Start, Loops
<1> DEFINE T == {k \in 0..Len(batch) : ~Grown(i, Start(a, u), h[k])}
<1>4. T = {}
  <2>1. SUFFICES ASSUME T # {} PROVE FALSE
    OBVIOUS
  <2>2. PICK k \in T : \A m \in T : k <= m
    <3>1. T \subseteq Nat
      BY <1>2
    <3> HIDE DEF T
    <3> QED BY <2>1, <3>1, LeastNat
  <2>3. k # 0
    <3>1. \A n \in 0..LogLength : SentUp(i, n) \in Nat /\ SentDown(i, n) \in Nat
      BY SentFacts
    <3>2. h[0] = Start(a, u)
      BY <1>1 DEF IsTrace
    <3>3. Grown(i, Start(a, u), Start(a, u))
      BY <3>1, MeterConstants DEF Grown, Start, Usages, Counter
    <3> QED BY <3>2, <3>3
  <2>4. k \in 1..Len(batch) /\ k - 1 \in 0..Len(batch) /\ k - 1 \notin T
    BY <1>2, <2>2, <2>3
  <2>5. /\ batch[k] \in Numbers /\ h[k - 1] \in Loops /\ h[k] \in Loops
        /\ h[k] = Step(i, h[k - 1], batch[k])
    BY <1>1, <2>4 DEF IsTrace
  <2>6. Grown(i, h[k - 1], h[k])
    BY <2>5, StepGrows
  <2>7. Grown(i, Start(a, u), h[k - 1]) /\ ~Grown(i, Start(a, u), h[k])
    BY <2>2, <2>4
  <2> QED BY <1>3, <2>5, <2>6, <2>7, GrownTwice
<1>5. Len(batch) \in 0..Len(batch)
  BY <1>2
<1> QED BY <1>1, <1>4, <1>5 DEF IsTrace

\* What the loop has done after k deltas of the run first..last.
RunState(a, first, k, st) ==
  \/ st.loop = "error"
  \/ first > a + 1 /\ st.ack = a /\ st.loop = IF k = 0 THEN "run" ELSE "done"
  \/ /\ first <= a + 1 /\ st.loop = "run"
     /\ st.ack = IF first + k - 1 > a THEN first + k - 1 ELSE a

\* An iteration keeps this.
LEMMA RunStep ==
  ASSUME NEW i \in Instances, NEW a \in 0..LogLength, NEW first \in 1..LogLength,
         NEW k \in Nat, k > 0, NEW st \in Loops, RunState(a, first, k - 1, st)
  PROVE  RunState(a, first, k, Step(i, st, first + k - 1))
<1>1. /\ LogLength \in Nat /\ a \in Nat /\ first \in Nat /\ first >= 1
      /\ st.ack \in Nat
  BY MeterConstants DEF Loops
<1> DEFINE seq == first + k - 1
           new == Step(i, st, seq)
<1> SUFFICES RunState(a, first, k, new)
  OBVIOUS
<1>2. CASE st.loop # "run"
  <2>1. new = st
    BY <1>2 DEF Step
  <2> QED BY <1>1, <1>2, <2>1 DEF RunState
<1>3. CASE st.loop = "run" /\ seq = Nil
  <2>1. new.loop = "error"
    BY <1>3 DEF Step, Loops
  <2> QED BY <2>1 DEF RunState
<1>4. CASE st.loop = "run" /\ seq # Nil /\ seq <= st.ack
  <2>1. new = st
    BY <1>4 DEF Step, Skips
  <2> HIDE DEF new
  <2> QED BY <1>1, <1>4, <2>1 DEF RunState
<1>5. CASE st.loop = "run" /\ seq # Nil /\ ~(seq <= st.ack) /\ seq # st.ack + 1
  <2>1. new = [st EXCEPT !.loop = "done"]
    BY <1>5 DEF Step, Skips, Breaks
  <2>2. new.loop = "done" /\ new.ack = st.ack
    BY <2>1 DEF Loops
  <2> HIDE DEF new
  <2> QED BY <1>1, <1>5, <2>2 DEF RunState
<1>6. CASE /\ st.loop = "run" /\ seq # Nil /\ ~(seq <= st.ack) /\ seq = st.ack + 1
           /\ Overflows(st, Log[i][seq])
  <2>1. new = [st EXCEPT !.loop = "error"]
    BY <1>6 DEF Step, Skips, Breaks
  <2>2. new.loop = "error"
    BY <2>1 DEF Loops
  <2> QED BY <2>2 DEF RunState
<1>7. CASE /\ st.loop = "run" /\ seq # Nil /\ ~(seq <= st.ack) /\ seq = st.ack + 1
           /\ ~Overflows(st, Log[i][seq])
  <2>1. new = [st EXCEPT !.ack = seq,
                         !.usage.up = @ + Log[i][seq].up,
                         !.usage.down = @ + Log[i][seq].down]
    BY <1>7 DEF Step, Skips, Breaks
  <2>2. new.loop = "run" /\ new.ack = seq
    BY <1>7, <2>1 DEF Loops
  <2> HIDE DEF new
  <2> QED BY <1>1, <1>7, <2>2 DEF RunState
<1> QED BY <1>2, <1>3, <1>4, <1>5, <1>6, <1>7

\* What the loop acknowledges of a run.
LEMMA RunIsAcknowledged ==
  ASSUME NEW i \in Instances, NEW a \in 0..LogLength, NEW u \in Usages,
         NEW first \in 1..LogLength, NEW last \in 1..LogLength, first <= last
  PROVE  LET run == [k \in 1..(last - first + 1) |-> first + k - 1]
             result == Apply(i, run, a, u)
         IN  result.loop # "error" =>
               result.ack = IF first <= a + 1 /\ last > a THEN last ELSE a
<1> DEFINE n == last - first + 1
           run == [k \in 1..n |-> first + k - 1]
           result == Apply(i, run, a, u)
<1>1. /\ LogLength \in Nat /\ n \in Nat /\ n > 0 /\ first + n - 1 = last
      /\ a \in Nat /\ first \in Nat /\ last \in Nat
  BY MeterConstants
<1>2. /\ run \in Seq(Numbers) /\ Len(run) = n
      /\ \A k \in 1..n : run[k] = first + k - 1
  <2>1. \A k \in 1..n : first + k - 1 \in 0..LogLength
    BY <1>1
  <2> QED BY <1>1, <2>1 DEF Numbers
<1> HIDE DEF n, run
<1>3. PICK h : IsTrace(i, run, a, u, h) /\ result = h[n]
  BY <1>2, ApplyIs
<1> DEFINE T == {k \in 0..n : ~RunState(a, first, k, h[k])}
<1>4. T = {}
  <2>1. SUFFICES ASSUME T # {} PROVE FALSE
    OBVIOUS
  <2>2. PICK k \in T : \A m \in T : k <= m
    <3>1. T \subseteq Nat
      BY <1>1
    <3> HIDE DEF T
    <3> QED BY <2>1, <3>1, LeastNat
  <2>3. k # 0
    <3>1. h[0].loop = "run" /\ h[0].ack = a
      BY <1>3 DEF IsTrace, Start
    <3>2. RunState(a, first, 0, h[0])
      BY <1>1, <3>1 DEF RunState
    <3> QED BY <3>2
  <2>4. /\ k \in 1..n /\ k - 1 \in 0..n /\ k - 1 \notin T
        /\ k \in Nat /\ k > 0
    BY <1>1, <2>2, <2>3
  <2>5. /\ h[k - 1] \in Loops /\ h[k] = Step(i, h[k - 1], first + k - 1)
    BY <1>2, <1>3, <2>4 DEF IsTrace
  <2>6. RunState(a, first, k - 1, h[k - 1]) /\ ~RunState(a, first, k, h[k])
    BY <2>2, <2>4
  <2> QED BY <2>4, <2>5, <2>6, RunStep
<1>5. RunState(a, first, n, h[n])
  BY <1>1, <1>4
<1>6. result.loop # "error" =>
        result.ack = IF first <= a + 1 /\ last > a THEN last ELSE a
  <2> HIDE DEF result
  <2> QED BY <1>1, <1>3, <1>5 DEF RunState
<1> QED BY <1>6 DEF n, run

-----------------------------------------------------------------------------
(***************************************************************************)
(* The inductive invariant and the theorems.                                *)
(***************************************************************************)
\* A transaction whose snapshot still stands: its record is there, and what it
\* will write is the current total grown by the deltas it acknowledges.
Fresh(w) ==
  /\ txn[w].kind # "idle" => status[txn[w].id] = "enrolled"
  /\ txn[w].kind = "meters" =>
       Grown(txn[w].id, Start(ack[txn[w].id], usage), txn[w])

\* The inductive invariant: the total is the sum of what was counted, and every
\* transaction that may still commit knows the current acknowledgement.
MeterInv ==
  /\ StoreInv
  /\ AcknowledgedIsCounted
  /\ usage = Ledger!Total(Counted)
  /\ \A w \in Workers \ stale : Fresh(w)

\* It holds initially: nothing is counted, and nothing sums up to zero.
LEMMA InitMeterInv == Init => MeterInv
<1> SUFFICES ASSUME Init PROVE MeterInv
  OBVIOUS
<1> USE DEF Init
<1>1. Counted \in Counts /\ \A i \in Instances : Counted[i] = 0
  BY MeterConstants DEF Counted, Counts
<1>2. usage = Ledger!Total(Counted)
  BY <1>1, TotalFacts
<1>3. StoreInv
  BY MeterConstants DEF StoreInv, TypeOK, DeletedHasNoAck, Counter, Transactions
<1>4. AcknowledgedIsCounted
  BY <1>1 DEF AcknowledgedIsCounted
<1>5. \A w \in Workers : Fresh(w)
  BY DEF Fresh, Idle
<1> QED BY <1>2, <1>3, <1>4, <1>5 DEF MeterInv

\* The shape of a transaction that is open.
LEMMA TxnShape ==
  ASSUME StoreInv, NEW w \in Workers
  PROVE  /\ txn[w] # Idle <=> txn[w].kind # "idle"
         /\ txn[w] # Idle => txn[w].id \in Instances
         /\ txn[w].kind = "meters" =>
              txn[w].ack \in 0..LogLength /\ txn[w].usage \in Usages
  BY DEF StoreInv, TypeOK, Transactions, Idle, Usages

\* An enrolment, or an update of the record, which only makes snapshots stale.
LEMMA RecordSteps ==
  ASSUME MeterInv, NEW i \in Instances, Enroll(i) \/ Touch(i)
  PROVE  /\ MeterInv'
         /\ Ledger!Next \/ UNCHANGED Ledger!vars
<1>1. StoreInv'
  BY DEF MeterInv, StoreInv, TypeOK, DeletedHasNoAck, Enroll, Touch, Readers
<1>2. Counted' = Counted
  BY DEF Counted, Enroll, Touch, MeterInv, StoreInv, TypeOK
<1>3. usage' = usage /\ ack' = ack /\ txn' = txn /\ told' = told
  BY DEF Enroll, Touch
<1>4. AcknowledgedIsCounted'
  BY <1>2, <1>3 DEF MeterInv, AcknowledgedIsCounted
<1>5. (usage = Ledger!Total(Counted))'
  BY <1>2, <1>3 DEF MeterInv
<1>6. \A w \in Workers \ stale' : Fresh(w)'
  <2> TAKE w \in Workers \ stale'
  <2>1. Fresh(w)
    BY DEF MeterInv, Enroll, Touch
  <2>2. txn[w].kind # "idle" => txn[w].id \in Instances
    BY TxnShape DEF MeterInv
  <2>3. \A j \in Instances : status[j] = "enrolled" => status'[j] = "enrolled"
    BY DEF MeterInv, StoreInv, TypeOK, Enroll, Touch
  <2> QED BY <1>3, <2>1, <2>2, <2>3 DEF Fresh
<1>7. Ledger!Next \/ UNCHANGED Ledger!vars
  BY <1>2 DEF Enroll, Touch, Ledger!Next, Ledger!Enroll, Ledger!vars
<1> QED BY <1>1, <1>4, <1>5, <1>6, <1>7 DEF MeterInv

\* A transaction that is opened, or one that ends in a conflict: the ledger does
\* not notice.
LEMMA TxnSteps ==
  ASSUME MeterInv, NEW w \in Workers,
         \/ \E i \in Instances :
              DeleteRead(w, i) \/ \E b \in Batches : MetersRead(w, i, b)
         \/ TxnConflict(w)
  PROVE  MeterInv' /\ UNCHANGED Ledger!vars
<1>1. UNCHANGED <<status, usage, ack, told, settled>>
  BY DEF DeleteRead, MetersRead, TxnConflict
<1>2. UNCHANGED Counted
  BY <1>1 DEF Counted
<1>3. UNCHANGED Ledger!vars
  BY <1>1, <1>2 DEF Ledger!vars
<1>4. (usage = Ledger!Total(Counted))' /\ AcknowledgedIsCounted'
  BY <1>1, <1>2 DEF MeterInv, AcknowledgedIsCounted
<1>5. DeletedHasNoAck'
  BY <1>1 DEF MeterInv, StoreInv, DeletedHasNoAck
<1>6. SUFFICES TypeOK' /\ \A v \in Workers \ stale' : Fresh(v)'
  BY <1>3, <1>4, <1>5 DEF MeterInv, StoreInv
<1> HIDE DEF MeterInv
<1>7. TypeOK /\ \A v \in Workers \ stale : Fresh(v)
  BY DEF MeterInv, StoreInv
<1>8. CASE TxnConflict(w)
  <2>1. txn' = [txn EXCEPT ![w] = Idle] /\ stale' = stale \ {w}
    BY <1>8 DEF TxnConflict, Close
  <2>2. TypeOK'
    BY <1>1, <1>7, <2>1 DEF TypeOK, Transactions
  <2>3. txn'[w] = Idle /\ \A v \in Workers \ {w} : txn'[v] = txn[v]
    BY <1>7, <2>1 DEF TypeOK
  <2>4. \A v \in Workers \ stale' : Fresh(v)'
    BY <1>1, <1>7, <2>1, <2>3 DEF Fresh, Idle
  <2> QED BY <2>2, <2>4
<1>9. ASSUME NEW i \in Instances, DeleteRead(w, i)
      PROVE  TypeOK' /\ \A v \in Workers \ stale' : Fresh(v)'
  <2> DEFINE t == [kind |-> "delete", id |-> i]
  <2>1. txn' = [txn EXCEPT ![w] = t] /\ stale' = stale /\ status[i] = "enrolled"
    BY <1>9 DEF DeleteRead
  <2>2. t \in Transactions /\ t.kind = "delete" /\ t.id = i
    BY DEF Transactions
  <2> HIDE DEF t
  <2>3. TypeOK'
    BY <1>1, <1>7, <2>1, <2>2 DEF TypeOK
  <2>4. txn'[w] = t /\ \A v \in Workers \ {w} : txn'[v] = txn[v]
    BY <1>7, <2>1 DEF TypeOK
  <2>5. \A v \in Workers \ stale' : Fresh(v)'
    BY <1>1, <1>7, <2>1, <2>2, <2>4 DEF Fresh
  <2> QED BY <2>3, <2>5
<1>10. ASSUME NEW i \in Instances, NEW b \in Batches, MetersRead(w, i, b)
       PROVE  TypeOK' /\ \A v \in Workers \ stale' : Fresh(v)'
  <2> DEFINE r == Apply(i, b, ack[i], usage)
             t == [kind |-> "meters", id |-> i, ack |-> r.ack, usage |-> r.usage]
  <2>1. txn' = [txn EXCEPT ![w] = t] /\ stale' = stale /\ status[i] = "enrolled"
    BY <1>10 DEF MetersRead
  <2>2. ack[i] \in 0..LogLength /\ usage \in Usages /\ b \in Seq(Numbers)
    BY <1>7, MeterConstants DEF TypeOK, Usages, Numbers
  <2>3. r \in Loops /\ Grown(i, Start(ack[i], usage), r)
    BY <2>2, ApplyGrows
  <2> HIDE DEF r
  <2>4. /\ t \in Transactions /\ t.kind = "meters" /\ t.id = i
        /\ t.ack = r.ack /\ t.usage = r.usage
    BY <2>3 DEF Transactions, Loops, Usages
  <2> HIDE DEF t
  <2>5. Grown(i, Start(ack[i], usage), t)
    BY <2>3, <2>4 DEF Grown
  <2>6. TypeOK'
    BY <1>1, <1>7, <2>1, <2>4 DEF TypeOK
  <2>7. txn'[w] = t /\ \A v \in Workers \ {w} : txn'[v] = txn[v]
    BY <1>7, <2>1 DEF TypeOK
  <2>8. \A v \in Workers \ stale' : Fresh(v)'
    <3> TAKE v \in Workers \ stale'
    <3>1. CASE v = w
      BY <1>1, <2>1, <2>4, <2>5, <2>7, <3>1 DEF Fresh, Grown
    <3>2. CASE v # w
      BY <1>1, <1>7, <2>1, <2>7, <3>2 DEF Fresh
    <3> QED BY <3>1, <3>2
  <2> QED BY <2>6, <2>8
<1> QED BY <1>8, <1>9, <1>10

\* The commit of ApplyMeters counts deltas, or stutters if there were none new;
\* every other meter transaction read the total and goes stale.
LEMMA MetersCommitStep ==
  ASSUME MeterInv, NEW w \in Workers, MetersCommit(w)
  PROVE  /\ MeterInv'
         /\ Ledger!Next \/ UNCHANGED Ledger!vars
<1> DEFINE i == txn[w].id
           n == txn[w].ack
           readers == Readers(Writes(i, {"ack", "usage"}), w)
<1>1. /\ txn[w].kind = "meters" /\ w \notin stale
      /\ ack' = [ack EXCEPT ![i] = n] /\ usage' = txn[w].usage
      /\ told' = [told EXCEPT ![i] = IF n > told[i] THEN n ELSE told[i]]
      /\ txn' = [txn EXCEPT ![w] = Idle] /\ stale' = (stale \cup readers) \ {w}
      /\ status' = status /\ settled' = settled
  BY DEF MetersCommit, Close
<1>2. /\ TypeOK /\ DeletedHasNoAck /\ AcknowledgedIsCounted
      /\ usage = Ledger!Total(Counted) /\ Fresh(w)
  BY <1>1 DEF MeterInv, StoreInv
<1>3. i \in Instances /\ n \in 0..LogLength /\ txn[w].usage \in Usages
  BY <1>1, TxnShape DEF MeterInv, Idle
<1>4. status[i] = "enrolled" /\ Grown(i, Start(ack[i], usage), txn[w])
  BY <1>1, <1>2 DEF Fresh
<1> HIDE DEF i, n
<1>5. /\ LogLength \in Nat /\ MaxCounter \in Nat /\ n \in Nat
      /\ ack[i] \in 0..LogLength /\ ack[i] \in Nat
      /\ usage.up \in Nat /\ usage.down \in Nat
      /\ usage'.up \in Nat /\ usage'.down \in Nat
      /\ usage'.up <= MaxCounter /\ usage'.down <= MaxCounter
      /\ usage' \in Usages /\ usage \in Usages
  BY <1>1, <1>2, <1>3, MeterConstants DEF TypeOK, Usages, Counter
<1>6. /\ ack[i] <= n
      /\ usage'.up + SentUp(i, ack[i]) = usage.up + SentUp(i, n)
      /\ usage'.down + SentDown(i, ack[i]) = usage.down + SentDown(i, n)
  BY <1>1, <1>4 DEF Grown, Start, n
<1>7. Counted \in Counts /\ Counted[i] = ack[i]
  BY <1>2, <1>3, <1>4 DEF Counted, Counts, TypeOK
<1>8. Counted' = [Counted EXCEPT ![i] = n]
  BY <1>1, <1>2, <1>3, <1>4 DEF Counted, TypeOK
<1>9. Counted' \in Counts
  BY <1>3, <1>7, <1>8 DEF Counts
<1>10. usage' = Ledger!Total(Counted')
  <2> DEFINE d == [Counted EXCEPT ![i] = n]
             old == Ledger!Total(Counted)
             new == Ledger!Total(d)
  <2>1. /\ old.up + SentUp(i, n) = new.up + SentUp(i, ack[i])
        /\ old.down + SentDown(i, n) = new.down + SentDown(i, ack[i])
    BY <1>3, <1>7, TotalFacts
  <2>2. new \in [up : Nat, down : Nat] /\ new.up \in Nat /\ new.down \in Nat
    BY <1>8, <1>9, TotalFacts
  <2>3. old = usage /\ new = Ledger!Total(Counted')
    BY <1>2, <1>8
  <2>4. /\ SentUp(i, n) \in Nat /\ SentUp(i, ack[i]) \in Nat
        /\ SentDown(i, n) \in Nat /\ SentDown(i, ack[i]) \in Nat
    BY <1>3, <1>5, SentFacts
  <2> HIDE DEF old, new
  <2>5. usage'.up = new.up /\ usage'.down = new.down
    BY <1>5, <1>6, <2>1, <2>2, <2>3, <2>4
  <2> QED BY <1>5, <2>2, <2>3, <2>5 DEF Usages
<1>11. StoreInv'
  <2>1. TypeOK'
    BY <1>1, <1>2, <1>3, <1>5 DEF TypeOK, Transactions, Readers, Usages
  <2>2. DeletedHasNoAck'
    BY <1>1, <1>2, <1>3, <1>4 DEF DeletedHasNoAck, TypeOK
  <2> QED BY <2>1, <2>2 DEF StoreInv
<1>12. AcknowledgedIsCounted'
  <2> SUFFICES ASSUME NEW j \in Instances PROVE told'[j] <= Counted'[j]
    BY DEF AcknowledgedIsCounted
  <2>1. told[j] <= Counted[j] /\ told[j] \in Nat /\ Counted[j] \in Nat
    BY <1>2, <1>5, <1>7 DEF AcknowledgedIsCounted, TypeOK, Counts
  <2>2. CASE j = i
    <3>1. told'[j] = (IF n > told[j] THEN n ELSE told[j]) /\ Counted'[j] = n
      BY <1>1, <1>2, <1>3, <1>7, <1>8, <2>2 DEF TypeOK, Counts
    <3> QED BY <1>5, <1>6, <1>7, <2>1, <2>2, <3>1
  <2>3. CASE j # i
    <3>1. told'[j] = told[j] /\ Counted'[j] = Counted[j]
      BY <1>1, <1>2, <1>3, <1>7, <1>8, <2>3 DEF TypeOK, Counts
    <3> QED BY <2>1, <3>1
  <2> QED BY <2>2, <2>3
<1>13. \A v \in Workers \ stale' : Fresh(v)'
  <2> TAKE v \in Workers \ stale'
  <2>1. CASE v = w
    <3>1. txn'[v] = Idle
      BY <1>1, <1>2, <2>1 DEF TypeOK
    <3> QED BY <3>1 DEF Fresh, Idle
  <2>2. CASE v # w
    <3>1. txn'[v] = txn[v]
      BY <1>1, <1>2, <2>2 DEF TypeOK
    <3>2. v \notin stale /\ v \notin readers
      BY <1>1, <2>2
    <3>3. txn[v].kind # "meters"
      <4>1. txn[v].kind = "meters" => txn[v] # Idle
        BY DEF Idle
      <4> QED BY <2>2, <3>2, <4>1 DEF Readers, Writes
    <3>4. Fresh(v)
      BY <3>2 DEF MeterInv
    <3> QED BY <1>1, <3>1, <3>3, <3>4 DEF Fresh
  <2> QED BY <2>1, <2>2
<1>14. Ledger!Next \/ UNCHANGED Ledger!vars
  <2>1. CASE n = ack[i]
    <3>1. Counted' = Counted
      BY <1>7, <1>8, <2>1 DEF Counts
    <3>2. usage' = usage
      BY <1>2, <1>10, <3>1
    <3> QED BY <1>1, <3>1, <3>2 DEF Ledger!vars
  <2>2. CASE n # ack[i]
    <3>1. n > Counted[i] /\ n \in 1..LogLength
      BY <1>3, <1>5, <1>6, <1>7, <2>2
    <3>2. Ledger!Count(i, n)
      BY <1>1, <1>4, <1>5, <1>8, <1>10, <3>1 DEF Ledger!Count
    <3> QED BY <1>3, <3>1, <3>2 DEF Ledger!Next
  <2> QED BY <2>1, <2>2
<1> QED BY <1>10, <1>11, <1>12, <1>13, <1>14 DEF MeterInv

\* The commit of DeleteInstance: what was counted stays counted, and every open
\* transaction of the instance goes stale.
LEMMA DeleteCommitStep ==
  ASSUME MeterInv, NEW w \in Workers, DeleteCommit(w)
  PROVE  MeterInv' /\ Ledger!Next
<1> DEFINE i == txn[w].id
           readers == Readers(Writes(i, {"record", "ack"}), w)
<1>1. /\ txn[w].kind = "delete" /\ w \notin stale
      /\ status' = [status EXCEPT ![i] = "deleted"]
      /\ ack' = [ack EXCEPT ![i] = 0]
      /\ settled' = [settled EXCEPT ![i] = ack[i]]
      /\ txn' = [txn EXCEPT ![w] = Idle] /\ stale' = (stale \cup readers) \ {w}
      /\ usage' = usage /\ told' = told
  BY DEF DeleteCommit, Close, AckDeleted
<1>2. /\ TypeOK /\ DeletedHasNoAck /\ AcknowledgedIsCounted
      /\ usage = Ledger!Total(Counted) /\ Fresh(w)
  BY <1>1 DEF MeterInv, StoreInv
<1>3. i \in Instances
  BY <1>1, TxnShape DEF MeterInv, Idle
<1>4. status[i] = "enrolled"
  BY <1>1, <1>2 DEF Fresh
<1> HIDE DEF i
<1>5. Counted' = Counted
  BY <1>1, <1>2, <1>3, <1>4 DEF Counted, TypeOK
<1>6. StoreInv'
  <2>0. Idle \in Transactions /\ 0 \in 0..LogLength /\ readers \in SUBSET Workers
    BY MeterConstants DEF Transactions, Readers
  <2> HIDE DEF readers
  <2>1. TypeOK'
    BY <1>1, <1>2, <1>3, <2>0 DEF TypeOK
  <2>2. DeletedHasNoAck'
    BY <1>1, <1>2, <1>3 DEF DeletedHasNoAck, TypeOK
  <2> QED BY <2>1, <2>2 DEF StoreInv
<1>7. AcknowledgedIsCounted' /\ (usage = Ledger!Total(Counted))'
  BY <1>1, <1>2, <1>5 DEF AcknowledgedIsCounted
<1>8. \A v \in Workers \ stale' : Fresh(v)'
  <2> TAKE v \in Workers \ stale'
  <2>1. CASE v = w
    <3>1. txn'[v] = Idle
      BY <1>1, <1>2, <2>1 DEF TypeOK
    <3> QED BY <3>1 DEF Fresh, Idle
  <2>2. CASE v # w
    <3>1. txn'[v] = txn[v] /\ v \notin stale /\ v \notin readers
      BY <1>1, <1>2, <2>2 DEF TypeOK
    <3>2. Fresh(v)
      BY <3>1 DEF MeterInv
    <3>3. txn[v].kind # "idle" => txn[v].id \in Instances /\ txn[v].id # i
      <4>1. txn[v].kind # "idle" => txn[v] # Idle /\ txn[v].id \in Instances
        BY TxnShape DEF MeterInv
      <4> QED BY <2>2, <3>1, <4>1 DEF Readers, Writes
    <3>4. \A j \in Instances \ {i} : status'[j] = status[j] /\ ack'[j] = ack[j]
      BY <1>1, <1>2 DEF TypeOK
    <3> QED BY <1>1, <3>1, <3>2, <3>3, <3>4 DEF Fresh
  <2> QED BY <2>1, <2>2
<1>9. Ledger!Next
  BY <1>1, <1>3, <1>4, <1>5 DEF Ledger!Next, Ledger!Delete
<1> QED BY <1>6, <1>7, <1>8, <1>9 DEF MeterInv

\* Every step keeps the invariant and is a step of the ledger or a stutter.
LEMMA MeterStep ==
  ASSUME MeterInv, [Next]_vars
  PROVE  MeterInv' /\ [Ledger!Next]_(Ledger!vars)
<1>1. CASE UNCHANGED vars
  <2>1. UNCHANGED Counted
    BY <1>1 DEF vars, Counted
  <2>2. UNCHANGED Ledger!vars
    BY <1>1, <2>1 DEF vars, Ledger!vars
  <2>3. MeterInv'
    BY <1>1, <2>1 DEF vars, MeterInv, StoreInv, TypeOK, DeletedHasNoAck,
         AcknowledgedIsCounted, Fresh
  <2> QED BY <2>2, <2>3
<1>2. CASE Next
  BY <1>2, RecordSteps, TxnSteps, MetersCommitStep, DeleteCommitStep DEF Next
<1> QED BY <1>1, <1>2

\* So it always holds.
LEMMA MeterInvariance == Spec => []MeterInv
<1>1. MeterInv /\ [Next]_vars => MeterInv'
  BY MeterStep
<1> QED BY <1>1, InitMeterInv, PTL DEF Spec

\* Acknowledgements and the total keep their range, and no meter transaction that
\* overlaps a deletion brings the acknowledgement back (store.go, DeleteInstance:
\* the record it read has changed, so its commit fails).
THEOREM StoreIsConsistent == Spec => []StoreInv
<1>1. MeterInv => StoreInv
  BY DEF MeterInv
<1> QED BY <1>1, MeterInvariance, PTL

\* No agent is ever told that a delta was counted when it was not, deletions and
\* conflicts included: handleMessage answers only after the commit.
THEOREM AcknowledgedNeverLost == Spec => []AcknowledgedIsCounted
<1>1. MeterInv => AcknowledgedIsCounted
  BY DEF MeterInv
<1> QED BY <1>1, MeterInvariance, PTL

\* In every reachable state the loop of ApplyMeters acknowledges a run first..last
\* up to its end if it leaves no gap, and nothing of it otherwise, whatever its
\* length.
THEOREM WholeRunOrNothing == Spec => []RunsAreAcknowledged
<1>1. MeterInv => RunsAreAcknowledged
  <2> SUFFICES ASSUME MeterInv PROVE RunsAreAcknowledged
    OBVIOUS
  <2>1. usage \in Usages /\ \A i \in Instances : ack[i] \in 0..LogLength
    BY DEF MeterInv, StoreInv, TypeOK, Usages
  <2> QED BY <2>1, RunIsAcknowledged DEF RunsAreAcknowledged
<1> QED BY <1>1, MeterInvariance, PTL

\* The transactions implement the ledger: the total is the sum of a growing prefix
\* of each log, each delta once, for any number of workers and any batches, in any
\* order and however often repeated.
THEOREM CountsEveryDeltaOnce == Spec => ImplementsLedger
<1>1. Init => Ledger!Init
  BY DEF Init, Ledger!Init, Counted
<1>2. MeterInv /\ [Next]_vars => [Ledger!Next]_(Ledger!vars)
  BY MeterStep
<1> QED
  BY <1>1, <1>2, MeterInvariance, PTL DEF Spec, ImplementsLedger, Ledger!Spec
=============================================================================
