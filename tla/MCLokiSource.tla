---------------------------- MODULE MCLokiSource ----------------------------
(* Instances of LokiSource for TLC. *)
EXTENDS LokiSource
=============================================================================
