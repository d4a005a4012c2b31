-------------------------- MODULE MCControlPlane --------------------------
(***************************************************************************)
(* Small instances of ControlPlane for TLC.                                 *)
(***************************************************************************)
EXTENDS ControlPlane, TLC

\* Streams, deletions and updates are interchangeable: sound for the runs that
\* check no liveness.
Symmetry ==
  Permutations(Streams) \cup Permutations(Deletes) \cup Permutations(Updates)
=============================================================================
