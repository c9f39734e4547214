----------------------------- MODULE MCLifecycle -----------------------------
(* Instances of Lifecycle for TLC. *)
EXTENDS LifecycleClaims

CONSTANTS i1, i2, s1, s2

\* The correlator gives each group of services an ID of its own.
MCId == {i1, i2}
MCIncident == {[id |-> i1, src |-> s1], [id |-> i2, src |-> s2]}

\* Correlation disabled: WrapAlerts leaves the ID of every incident empty
\* (internal/correlator/wrap.go:23-28), whatever its service.
UnsetId == {i1}
UnsetIncident == {[id |-> i1, src |-> s1], [id |-> i1, src |-> s2]}
=============================================================================
