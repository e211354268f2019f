----------------------------- MODULE MCRawDial -----------------------------
(* Dialers are interchangeable, and so are the other goroutines.           *)
EXTENDS RawDial, TLC

Symmetry == Permutations(Dialers) \cup Permutations(Others)
=============================================================================
