------------------------------- MODULE MCAuth -------------------------------
(***************************************************************************)
(* Auth for TLC: requests are interchangeable, and so are recovery codes.   *)
(***************************************************************************)
EXTENDS Auth, TLC

Symmetry == Permutations(Requests) \cup Permutations(RecoveryCodes)
=============================================================================
