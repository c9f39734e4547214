---------------------------- MODULE ServiceGraph ----------------------------
(***************************************************************************)
(* What the dependency graph of internal/correlator/depgraph.go means.  A  *)
(* graph is a function calls from each of its services to the services it  *)
(* calls.  These are reference definitions, with no search in them:        *)
(* DepGraph computes them as the code does, and Correlator uses them.      *)
(***************************************************************************)
EXTENDS Naturals, FiniteSets

CalledBy(calls, svc) == {caller \in DOMAIN calls : svc \in calls[caller]}

Neighbours(calls, svc) == calls[svc] \cup CalledBy(calls, svc)

Roots(calls) == {svc \in DOMAIN calls : CalledBy(calls, svc) = {}}

\* A set that no call, followed either way, leaves.
Closed(calls, S) == \A svc \in S : Neighbours(calls, svc) \subseteq S

\* Bidirectional reachability: no closed set separates a from b.
Connected(calls, a, b) ==
  \A S \in SUBSET DOMAIN calls : a \in S /\ Closed(calls, S) => b \in S

\* The services within k calls of a service nobody calls.
Within(calls, k) ==
  LET within[i \in 0..k] ==
        IF i = 0 THEN Roots(calls)
        ELSE within[i - 1] \cup UNION {calls[svc] : svc \in within[i - 1]}
  IN  within[k]

\* The distance from the nearest root, and 0 where no root reaches.
Distance(calls, svc) ==
  LET reached == {k \in 0..Cardinality(DOMAIN calls) : svc \in Within(calls, k)}
  IN  IF reached = {} THEN 0 ELSE CHOOSE k \in reached : \A i \in reached : k <= i
=============================================================================
