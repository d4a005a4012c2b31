--------------------------- MODULE MCMeterStore ---------------------------
(***************************************************************************)
(* A small instance of MeterStore for TLC: logs of three deltas whose sum    *)
(* exceeds the counter, and every batch of up to two deltas.                *)
(***************************************************************************)
EXTENDS MeterStore

Delta(u, d) == [up |-> u, down |-> d]
MCLog == [i \in Instances |-> <<Delta(1, 0), Delta(2, 1), Delta(1, 2)>>]

MCBatches == {<<>>} \cup UNION {[1..n -> (0..3) \cup {Nil}] : n \in 1..2}

Symmetry == Permutations(Workers) \cup Permutations(Instances)
=============================================================================
