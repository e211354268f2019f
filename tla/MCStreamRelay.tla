--------------------------- MODULE MCStreamRelay ---------------------------
(* Values for TLC: a target of two bytes.                                  *)
EXTENDS StreamRelay

MCTarget == <<97, 98>>
=============================================================================
