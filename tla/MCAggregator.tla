---------------------------- MODULE MCAggregator ----------------------------
(* An instance of Aggregator for TLC. *)
EXTENDS Aggregator

MCLine == {[service |-> "a", pattern |-> p, rank |-> r] : p \in {"", "p", "q"}, r \in {1, 2}}
            \cup {[service |-> "b", pattern |-> "p", rank |-> 2]}
=============================================================================
