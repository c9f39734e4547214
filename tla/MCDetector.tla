----------------------------- MODULE MCDetector -----------------------------
(* Instances of Detector for TLC. *)
EXTENDS Detector

CONSTANTS u, v

\* The two templates are alike.
MCSymmetry == Permutations(Template)
=============================================================================
