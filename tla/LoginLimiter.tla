---------------------------- MODULE LoginLimiter ----------------------------
(***************************************************************************)
(* The failure limiter of internal/api/limiter.go and the way the handlers  *)
(* bootstrapStart, bootstrapComplete and login use it: allowed() when a     *)
(* request comes in, failed() or succeeded() when its outcome is known.     *)
(* Auth models what happens in between; here the outcome is open.  Time     *)
(* advances in the limiter's unit of 30 seconds.                            *)
(***************************************************************************)
EXTENDS Integers, FiniteSets, FiniteSetsExt

CONSTANTS
  Requests,   \* requests that can be served at the same time
  Threshold,  \* limiter.go:24, failures before a block (5 in the code)
  MaxDelay,   \* limiter.go:26, longest block in units of 30s (10 in the code)
  MaxRestarts \* bound: restarts of the HOST within one unit of time

ASSUME LimiterConstants ==
  /\ IsFiniteSet(Requests)
  /\ Threshold \in Nat \ {0}
  /\ MaxDelay \in Nat \ {0}
  /\ MaxRestarts \in Nat

VARIABLES
  failures,  \* loginLimiter.failures, up to where more make no difference
  block,     \* time until loginLimiter.blockedUntil
  inside,    \* the requests that passed allowed() and have no outcome yet
  burst,     \* history: failures since time moved on or a success
  restarts   \* history: restarts since time moved on or a success

vars == <<failures, block, inside, burst, restarts>>

\* Failures beyond this number block as long as this one.
MaxFailures == Threshold - 1 + MaxDelay

TypeOK ==
  /\ failures \in 0..MaxFailures
  /\ block \in 0..MaxDelay
  /\ inside \subseteq Requests
  /\ burst \in Nat
  /\ restarts \in 0..MaxRestarts

Init ==
  /\ failures = 0
  /\ block = 0
  /\ inside = {}
  /\ burst = 0
  /\ restarts = 0

\* Mutant: nobody is refused.
AllowedAlways == TRUE

Allowed == block = 0

Arrive(r) ==
  /\ r \notin inside
  /\ Allowed
  /\ inside' = inside \cup {r}
  /\ UNCHANGED <<failures, block, burst, restarts>>

\* Mutant: the block starts one failure late.
DelayLate(n) == Min({n - Threshold, MaxDelay})

\* How long failure number n blocks.
Delay(n) == Min({n - Threshold + 1, MaxDelay})

Failed(r) ==
  /\ r \in inside
  /\ inside' = inside \ {r}
  /\ failures' = Min({failures + 1, MaxFailures})
  /\ block' = IF failures + 1 >= Threshold THEN Delay(failures + 1) ELSE block
  /\ burst' = burst + 1
  /\ UNCHANGED restarts

Succeeded(r) ==
  /\ r \in inside
  /\ inside' = inside \ {r}
  /\ failures' = 0
  /\ block' = 0
  /\ burst' = 0
  /\ restarts' = 0

\* Bad JSON, a conflict, a store error or an operator that is configured
\* already: the limiter hears nothing of it.
Neither(r) ==
  /\ r \in inside
  /\ inside' = inside \ {r}
  /\ UNCHANGED <<failures, block, burst, restarts>>

\* Time passes.
Tick ==
  /\ block' = IF block > 0 THEN block - 1 ELSE 0
  /\ burst' = 0
  /\ restarts' = 0
  /\ UNCHANGED <<failures, inside>>

\* The limiter lives in memory: a HOST that starts again has forgotten the
\* failures and the block, and the requests in flight are gone.
Restart ==
  /\ restarts < MaxRestarts
  /\ restarts' = restarts + 1
  /\ failures' = 0
  /\ block' = 0
  /\ inside' = {}
  /\ UNCHANGED burst

Next ==
  \/ \E r \in Requests : Arrive(r) \/ Failed(r) \/ Succeeded(r) \/ Neither(r)
  \/ Tick \/ Restart

Spec == Init /\ [][Next]_vars

\* Only time is sure to pass.
FairSpec == Spec /\ WF_vars(Tick)

-----------------------------------------------------------------------------
\* Before time moves on, no more attempts fail than the threshold and those
\* that had passed allowed() when the block began: checking first and counting
\* later costs at most one failure for every other request in flight, and a
\* restart, which lifts the block, that many again.
BurstIsBounded ==
  burst <= (1 + restarts) * (Threshold + Cardinality(Requests) - 1)

\* The same with the bounds of the counters: no block is longer than MaxDelay.
LimiterInv == TypeOK /\ BurstIsBounded

\* A block comes to its end: the requests that fail while it lasts can extend
\* it, but no new one joins them.
BlockEnds == (block > 0) ~> (block = 0)
=============================================================================
