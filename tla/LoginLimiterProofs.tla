------------------------- MODULE LoginLimiterProofs -------------------------
(***************************************************************************)
(* Proofs about LoginLimiter: for every threshold, longest block, number of *)
(* concurrent requests and of restarts, the failures between two moments of *)
(* time are bounded as LimiterInv says.                                     *)
(***************************************************************************)
EXTENDS LoginLimiter, FiniteSetTheorems, TLAPS

\* Failures one life of the limiter allows before time moves on.
PerLife == Threshold + Cardinality(Requests) - 1

\* The failures that the restarts account for.
Forgiven == restarts * PerLife

\* The inductive invariant.  While nobody is blocked, each failure of this life
\* is counted and the threshold is not reached; once somebody is, only the
\* requests that are inside can still fail.
BurstInv ==
  /\ TypeOK
  /\ block = 0 => /\ burst <= Forgiven + failures
                  /\ burst <= Forgiven + Threshold - 1
  /\ block > 0 => burst + Cardinality(inside) <= Forgiven + PerLife

-----------------------------------------------------------------------------
\* Min picks the smaller of two numbers.
LEMMA MinOfTwo ==
  ASSUME NEW a \in Int, NEW b \in Int
  PROVE  /\ Min({a, b}) \in {a, b}
         /\ Min({a, b}) <= a
         /\ Min({a, b}) <= b
<1>1. \E x \in {a, b} : \A y \in {a, b} : x <= y
  <2>1. CASE a <= b
    BY <2>1
  <2>2. CASE b <= a
    BY <2>2
  <2> QED BY <2>1, <2>2
<1> QED BY <1>1 DEF Min

\* The limits are numbers.
LEMMA ConstantFacts ==
  /\ Cardinality(Requests) \in Nat
  /\ Threshold \in Nat /\ Threshold >= 1
  /\ MaxDelay \in Nat /\ MaxDelay >= 1
  /\ PerLife \in Nat
  /\ PerLife >= Cardinality(Requests)
  /\ PerLife >= Threshold - 1
  BY LimiterConstants, FS_CardinalityType DEF PerLife

\* One restart more forgives what one life allows.
LEMMA ForgivenFacts ==
  ASSUME NEW n \in Nat
  PROVE  /\ n * PerLife \in Nat
         /\ (1 + n) * PerLife = n * PerLife + PerLife
         /\ (n + 1) * PerLife = n * PerLife + PerLife
         /\ 0 * PerLife = 0
<1> PICK k \in Nat : k = PerLife
  BY ConstantFacts
<1>1. /\ n * k \in Nat
      /\ (1 + n) * k = n * k + k
      /\ (n + 1) * k = n * k + k
      /\ 0 * k = 0
  OBVIOUS
<1> QED BY <1>1

\* The requests inside are finitely many, and one that leaves makes one less.
LEMMA InsideFacts ==
  ASSUME TypeOK
  PROVE  /\ Cardinality(inside) \in Nat
         /\ Cardinality(inside) <= Cardinality(Requests)
         /\ \A r \in inside : Cardinality(inside \ {r}) = Cardinality(inside) - 1
<1>1. IsFiniteSet(inside) /\ Cardinality(inside) <= Cardinality(Requests)
  BY LimiterConstants, FS_Subset DEF TypeOK
<1> QED BY <1>1, FS_CardinalityType, FS_RemoveElement

\* A block is never empty and never longer than MaxDelay.
LEMMA DelayFacts ==
  ASSUME NEW n \in Nat, n >= Threshold
  PROVE  Delay(n) \in 1..MaxDelay
<1> DEFINE d == n - Threshold + 1
<1>1. d \in Int /\ d >= 1 /\ MaxDelay \in Int /\ MaxDelay >= 1
  BY ConstantFacts
<1>2. Delay(n) = Min({d, MaxDelay})
  BY DEF Delay
<1> HIDE DEF d
<1>3. /\ Min({d, MaxDelay}) \in {d, MaxDelay}
      /\ Min({d, MaxDelay}) <= MaxDelay
  BY <1>1, MinOfTwo
<1> QED BY <1>1, <1>2, <1>3

\* Initially nothing has failed.
LEMMA BurstInvInit == Init => BurstInv
<1> SUFFICES ASSUME Init PROVE BurstInv
  OBVIOUS
<1>1. TypeOK
  BY ConstantFacts, LimiterConstants DEF Init, TypeOK, MaxFailures
<1>2. Forgiven = 0
  BY ForgivenFacts DEF Forgiven, Init
<1> QED BY <1>1, <1>2, ConstantFacts DEF BurstInv, Init

\* A failure is counted, or blocks.
LEMMA FailedStep ==
  ASSUME BurstInv, NEW r \in Requests, Failed(r)
  PROVE  BurstInv'
<1>1. /\ failures \in Nat /\ failures <= MaxFailures
      /\ MaxFailures \in Nat /\ MaxFailures >= Threshold
      /\ burst \in Nat
      /\ restarts \in 0..MaxRestarts /\ restarts' = restarts
      /\ block \in 0..MaxDelay
      /\ burst' = burst + 1
      /\ inside' \subseteq Requests
  BY ConstantFacts, LimiterConstants DEF BurstInv, TypeOK, MaxFailures, Failed
<1>2. /\ failures' \in 0..MaxFailures
      /\ failures + 1 < Threshold => failures' = failures + 1
  <2> DEFINE f == failures + 1
  <2>1. f \in Nat /\ failures' = Min({f, MaxFailures})
    BY <1>1 DEF Failed
  <2> HIDE DEF f
  <2>2. /\ Min({f, MaxFailures}) \in {f, MaxFailures}
        /\ Min({f, MaxFailures}) <= f
        /\ Min({f, MaxFailures}) <= MaxFailures
    <3>1. f \in Int /\ MaxFailures \in Int
      BY <1>1, <2>1
    <3> QED BY <3>1, MinOfTwo
  <2> QED BY <1>1, <2>1, <2>2, ConstantFacts DEF f
<1>3. /\ failures + 1 >= Threshold => block' \in 1..MaxDelay
      /\ failures + 1 < Threshold => block' = block
  <2>1. failures + 1 \in Nat
    BY <1>1
  <2>2. /\ failures + 1 >= Threshold => block' = Delay(failures + 1)
        /\ failures + 1 < Threshold => block' = block
    BY <2>1, ConstantFacts DEF Failed
  <2> QED BY <2>1, <2>2, DelayFacts
<1>4. TypeOK'
  <2>1. block' \in 0..MaxDelay
    BY <1>1, <1>3, ConstantFacts
  <2> QED BY <1>1, <1>2, <2>1 DEF TypeOK
<1>5. Forgiven' = Forgiven /\ Forgiven \in Nat
  BY <1>1, ForgivenFacts, LimiterConstants DEF Forgiven, PerLife
<1>6. /\ Cardinality(inside') = Cardinality(inside) - 1
      /\ Cardinality(inside) \in Nat
      /\ Cardinality(inside) <= Cardinality(Requests)
  BY InsideFacts DEF BurstInv, Failed
<1>7. block' = 0 => /\ burst' <= Forgiven' + failures'
                    /\ burst' <= Forgiven' + Threshold - 1
  <2> SUFFICES ASSUME block' = 0
               PROVE  /\ burst' <= Forgiven' + failures'
                      /\ burst' <= Forgiven' + Threshold - 1
    OBVIOUS
  <2>1. failures + 1 < Threshold
    BY <1>1, <1>3, ConstantFacts
  <2>2. burst <= Forgiven + failures
    BY <1>3, <2>1 DEF BurstInv
  <2> QED BY <1>1, <1>2, <1>5, <2>1, <2>2, ConstantFacts
<1>8. block' > 0 => burst' + Cardinality(inside') <= Forgiven' + PerLife
  <2>1. CASE block = 0
    BY <1>1, <1>5, <1>6, <2>1, ConstantFacts DEF BurstInv, PerLife
  <2>2. CASE block > 0
    BY <1>1, <1>5, <1>6, <2>2, ConstantFacts DEF BurstInv
  <2> QED BY <1>1, <2>1, <2>2
<1> QED BY <1>4, <1>7, <1>8 DEF BurstInv, PerLife

\* Every step keeps the invariant.
LEMMA BurstInvStep == BurstInv /\ [Next]_vars => BurstInv'
<1> SUFFICES ASSUME BurstInv, [Next]_vars PROVE BurstInv'
  OBVIOUS
<1>0. /\ Forgiven \in Nat
      /\ burst \in Nat /\ restarts \in Nat /\ MaxFailures \in Nat
      /\ failures \in Nat
  BY ForgivenFacts, ConstantFacts, LimiterConstants
     DEF BurstInv, TypeOK, Forgiven, MaxFailures
<1>1. ASSUME NEW r \in Requests, Arrive(r)
      PROVE  BurstInv'
  BY <1>1 DEF Arrive, Allowed, BurstInv, TypeOK, Forgiven
<1>2. ASSUME NEW r \in Requests, Failed(r)
      PROVE  BurstInv'
  BY <1>2, FailedStep
<1>3. ASSUME NEW r \in Requests, Succeeded(r)
      PROVE  BurstInv'
  <2>1. Forgiven' = 0
    BY <1>3, ForgivenFacts DEF Succeeded, Forgiven, PerLife
  <2>2. TypeOK'
    BY <1>0, <1>3, ConstantFacts, LimiterConstants DEF Succeeded, BurstInv, TypeOK
  <2> QED BY <1>3, <2>1, <2>2, ConstantFacts DEF Succeeded, BurstInv
<1>4. ASSUME NEW r \in Requests, Neither(r)
      PROVE  BurstInv'
  <2>1. Cardinality(inside') = Cardinality(inside) - 1
          /\ Cardinality(inside) \in Nat
    BY <1>4, InsideFacts DEF BurstInv, Neither
  <2>2. Forgiven' = Forgiven
    BY <1>4 DEF Neither, Forgiven, PerLife
  <2>3. TypeOK'
    BY <1>4 DEF Neither, BurstInv, TypeOK
  <2> QED BY <1>0, <1>4, <2>1, <2>2, <2>3, ConstantFacts
          DEF Neither, BurstInv, PerLife
<1>5. ASSUME Tick
      PROVE  BurstInv'
  <2>1. Forgiven' = 0
    BY <1>5, ForgivenFacts DEF Tick, Forgiven, PerLife
  <2>2. TypeOK'
    BY <1>5, ConstantFacts, LimiterConstants DEF Tick, BurstInv, TypeOK
  <2>3. Cardinality(inside') <= PerLife /\ Cardinality(inside') \in Nat
    BY <1>5, InsideFacts, ConstantFacts DEF Tick, BurstInv
  <2> QED BY <1>0, <1>5, <2>1, <2>2, <2>3, ConstantFacts
          DEF Tick, BurstInv, PerLife
<1>6. ASSUME Restart
      PROVE  BurstInv'
  <2>1. Forgiven' = Forgiven + PerLife
    BY <1>0, <1>6, ForgivenFacts DEF Restart, Forgiven, PerLife
  <2>2. TypeOK'
    BY <1>0, <1>6, ConstantFacts, LimiterConstants DEF Restart, BurstInv, TypeOK
  <2>3. burst <= Forgiven + PerLife
    BY <1>0, InsideFacts, ConstantFacts DEF BurstInv, TypeOK
  <2> QED BY <1>0, <1>6, <2>1, <2>2, <2>3, ConstantFacts DEF Restart, BurstInv
<1>7. CASE UNCHANGED vars
  BY <1>7 DEF vars, BurstInv, TypeOK, Forgiven
<1> QED BY <1>1, <1>2, <1>3, <1>4, <1>5, <1>6, <1>7 DEF Next

\* Between two moments of time no more attempts fail than the threshold and the
\* other requests in flight allow, and as many again for each restart, and no
\* block is longer than MaxDelay.
THEOREM GuessesAreBounded == Spec => []LimiterInv
<1>1. BurstInv => LimiterInv
  <2> SUFFICES ASSUME BurstInv PROVE LimiterInv
    OBVIOUS
  <2>1. restarts \in Nat /\ burst \in Nat /\ block \in Nat
    BY LimiterConstants, ConstantFacts DEF BurstInv, TypeOK
  <2>2. /\ (1 + restarts) * PerLife = Forgiven + PerLife
        /\ Forgiven \in Nat
    BY <2>1, ForgivenFacts DEF Forgiven
  <2>3. burst <= Forgiven + PerLife
    BY <2>1, <2>2, InsideFacts, ConstantFacts DEF BurstInv
  <2> QED BY <2>2, <2>3 DEF LimiterInv, BurstIsBounded, BurstInv, PerLife
<1> QED BY <1>1, BurstInvInit, BurstInvStep, PTL DEF Spec
=============================================================================
