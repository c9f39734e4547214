----------------------------- MODULE MCDepGraph -----------------------------
(* Instances of DepGraph for TLC. *)
EXTENDS DepGraph

CONSTANTS s1, s2, s3, s4

FourServices == {s1, s2, s3, s4}
\* No definition distinguishes one service from another.
Symmetry == Permutations(FourServices)
=============================================================================
