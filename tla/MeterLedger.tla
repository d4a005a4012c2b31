----------------------------- MODULE MeterLedger -----------------------------
(***************************************************************************)
(* What traffic accounting promises, without transactions: every instance   *)
(* keeps a log of meter deltas numbered from 1, the HOST counts a growing   *)
(* prefix of each log, and the usage total is the sum of what it counted,   *)
(* each delta once, deleted instances included (readme.md, Traffic          *)
(* Contract).                                                               *)
(***************************************************************************)
EXTENDS Naturals, Functions

CONSTANTS
  Instances,
  LogLength,   \* how many deltas an instance produces
  Log,         \* Log[i][n]: the bytes of delta n of instance i
  MaxCounter   \* the largest value of a counter (2^64 - 1 in the code)

VARIABLES
  status,   \* new, enrolled or deleted
  counted,  \* how many deltas of each log are in the total
  usage     \* the usage total

vars == <<status, counted, usage>>

\* The bytes of the first n deltas of instance i.
SentUp(i, n) == SumFunction([k \in 1..n |-> Log[i][k].up])
SentDown(i, n) == SumFunction([k \in 1..n |-> Log[i][k].down])

\* The sum of the first c[i] deltas of every instance i.
Total(c) ==
  [up |-> SumFunction([i \in Instances |-> SentUp(i, c[i])]),
   down |-> SumFunction([i \in Instances |-> SentDown(i, c[i])])]

Init ==
  /\ status = [i \in Instances |-> "new"]
  /\ counted = [i \in Instances |-> 0]
  /\ usage = [up |-> 0, down |-> 0]

Enroll(i) ==
  /\ status[i] = "new"
  /\ status' = [status EXCEPT ![i] = "enrolled"]
  /\ UNCHANGED <<counted, usage>>

Count(i, n) ==
  /\ status[i] = "enrolled"
  /\ n > counted[i]
  /\ counted' = [counted EXCEPT ![i] = n]
  /\ usage' = Total(counted')
  /\ usage'.up <= MaxCounter
  /\ usage'.down <= MaxCounter
  /\ UNCHANGED status

Delete(i) ==
  /\ status[i] = "enrolled"
  /\ status' = [status EXCEPT ![i] = "deleted"]
  /\ UNCHANGED <<counted, usage>>

Next ==
  \E i \in Instances :
    \/ Enroll(i)
    \/ \E n \in 1..LogLength : Count(i, n)
    \/ Delete(i)

Spec == Init /\ [][Next]_vars
=============================================================================
