---------------------------- MODULE MCReconcile ----------------------------
(***************************************************************************)
(* Small instances of Reconcile for TLC.                                    *)
(***************************************************************************)
EXTENDS Reconcile, TLC

\* Requests, digests and streams are interchangeable: sound for the runs that
\* check no liveness.
Symmetry ==
  Permutations(Updates) \cup Permutations(Digests) \cup Permutations(Streams)
=============================================================================
