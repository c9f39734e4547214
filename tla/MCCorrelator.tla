---------------------------- MODULE MCCorrelator ----------------------------
(* Instances of Correlator for TLC. *)
EXTENDS Correlator

\* 1 calls 2 and 3, and 2 calls 3: 3 is as deep as 2 by its shortest way.
\* 4 stands alone in the file, and 5 is not in it.
MCCalls == (1 :> {2, 3}) @@ (2 :> {3}) @@ (3 :> {}) @@ (4 :> {})

\* The score can tell only among the services of a group.
MCZScore == [svc \in {1, 2, 4, 5} |-> IF svc <= 2 THEN {0, 1} ELSE {0}]
=============================================================================
