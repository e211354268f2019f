--------------------------- MODULE MCSessionPool ---------------------------
(***************************************************************************)
(* Instances of SessionPool for TLC.                                       *)
(***************************************************************************)
EXTENDS SessionPool

\* Sessions, users and inbound streams are interchangeable.
Symmetry ==
  Permutations(Sessions) \cup Permutations(Conns) \cup Permutations(Inbound)
=============================================================================
