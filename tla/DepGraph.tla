------------------------------ MODULE DepGraph ------------------------------
(***************************************************************************)
(* NewDependencyGraph (internal/correlator/depgraph.go): the two breadth-  *)
(* first passes that compute the component and the depth of each service.  *)
(* Go ranges over maps in an arbitrary order and the callees of a service  *)
(* come in the order of the file, so every order is allowed.               *)
(***************************************************************************)
EXTENDS ServiceGraph, SequencesExt

CONSTANT Service   \* the services the dependencies file names
ASSUME DepGraphAssumption == IsFiniteSet(Service)

VARIABLES
  calls,      \* g.edges
  pc,         \* which pass is running: "component", "depth" or "done"
  queue,      \* services the pass has discovered and not yet expanded
  component,  \* g.component, so far
  compID,
  depth       \* g.depth, so far; a queue entry's depth is its service's

vars == <<calls, pc, queue, component, compID, depth>>

Init ==
  /\ calls \in [Service -> SUBSET Service]
  /\ pc = "component"
  /\ queue = <<>>
  /\ component = <<>>
  /\ compID = 0
  /\ depth = <<>>

(***************************************************************************)
(* The connected components: calls are followed in both directions.        *)
(***************************************************************************)
Visited == DOMAIN component \cup ToSet(queue)

\* m[key] = value for each of the keys.
Assigned(m, keys, value) ==
  [key \in DOMAIN m \cup keys |-> IF key \in keys THEN value ELSE m[key]]

StartComponent(svc) ==
  /\ pc = "component" /\ queue = <<>>
  /\ svc \notin Visited
  /\ queue' = <<svc>>
  /\ UNCHANGED <<calls, pc, component, compID, depth>>

\* Mutant: only the calls are followed, and not the callers.
ExpandComponent_callsOnly ==
  /\ pc = "component" /\ queue # <<>>
  /\ LET cur == Head(queue)
     IN  /\ component' = Assigned(component, {cur}, compID)
         /\ \E found \in SetToSeqs(calls[cur] \ Visited) : queue' = Tail(queue) \o found
  /\ compID' = IF queue' = <<>> THEN compID + 1 ELSE compID
  /\ UNCHANGED <<calls, pc, depth>>

ExpandComponent ==
  /\ pc = "component" /\ queue # <<>>
  /\ LET cur == Head(queue)
     IN  /\ component' = Assigned(component, {cur}, compID)
         /\ \E found \in SetToSeqs(Neighbours(calls, cur) \ Visited) :
              queue' = Tail(queue) \o found
  /\ compID' = IF queue' = <<>> THEN compID + 1 ELSE compID
  /\ UNCHANGED <<calls, pc, depth>>

(***************************************************************************)
(* The depths: from all services without callers at once.                  *)
(***************************************************************************)
StartDepth ==
  /\ pc = "component" /\ queue = <<>> /\ Visited = Service
  /\ pc' = "depth"
  /\ depth' = [svc \in Roots(calls) |-> 0]
  /\ queue' \in SetToSeqs(Roots(calls))
  /\ UNCHANGED <<calls, component, compID>>

\* Mutant: services that have a depth already are queued again.
ExpandDepth_revisit ==
  /\ pc = "depth" /\ queue # <<>>
  /\ LET new == calls[Head(queue)]
     IN  /\ depth' = Assigned(depth, new, depth[Head(queue)] + 1)
         /\ \E found \in SetToSeqs(new) : queue' = Tail(queue) \o found
  /\ UNCHANGED <<calls, pc, component, compID>>

\* Mutant: the last service found is expanded first.
ExpandDepth_depthFirst ==
  /\ pc = "depth" /\ queue # <<>>
  /\ LET new == calls[Head(queue)] \ DOMAIN depth
     IN  /\ depth' = Assigned(depth, new, depth[Head(queue)] + 1)
         /\ \E found \in SetToSeqs(new) : queue' = found \o Tail(queue)
  /\ UNCHANGED <<calls, pc, component, compID>>

ExpandDepth ==
  /\ pc = "depth" /\ queue # <<>>
  /\ LET new == calls[Head(queue)] \ DOMAIN depth
     IN  /\ depth' = Assigned(depth, new, depth[Head(queue)] + 1)
         /\ \E found \in SetToSeqs(new) : queue' = Tail(queue) \o found
  /\ UNCHANGED <<calls, pc, component, compID>>

\* Mutant: the services no root reaches get no depth.
FinishDepth_noDefault ==
  /\ pc = "depth" /\ queue = <<>>
  /\ pc' = "done"
  /\ UNCHANGED <<calls, queue, component, compID, depth>>

\* Services in cycles that no root reaches get depth 0.
FinishDepth ==
  /\ pc = "depth" /\ queue = <<>>
  /\ pc' = "done"
  /\ depth' = Assigned(depth, Service \ DOMAIN depth, 0)
  /\ UNCHANGED <<calls, queue, component, compID>>

Next ==
  \/ \E svc \in Service : StartComponent(svc)
  \/ ExpandComponent \/ StartDepth \/ ExpandDepth \/ FinishDepth

Spec == Init /\ [][Next]_vars
-----------------------------------------------------------------------------
TypeOK ==
  /\ calls \in [Service -> SUBSET Service]
  /\ pc \in {"component", "depth", "done"}
  /\ ToSet(queue) \subseteq Service /\ IsInjective(queue)
  /\ DOMAIN component \subseteq Service /\ Range(component) \subseteq 0..compID
  /\ DOMAIN depth \subseteq Service /\ Range(depth) \subseteq Nat
  /\ pc = "done" => DOMAIN component = Service /\ DOMAIN depth = Service

\* Two services have the same component ID exactly when calls, followed either
\* way, connect them -- in whatever order the maps were ranged over.
ComponentsExact ==
  pc # "component" =>
    \A a, b \in Service : (component[a] = component[b]) <=> Connected(calls, a, b)

\* A depth once assigned is already the distance from the nearest root: no
\* later, shorter way to the service is ever found.
DepthsExact ==
  pc # "component" => \A svc \in DOMAIN depth : depth[svc] = Distance(calls, svc)

StepsLeft ==
  CASE pc = "component" ->
         2 * Cardinality(Service \ Visited) + Len(queue) + Cardinality(Service) + 2
    [] pc = "depth" -> Cardinality(Service \ DOMAIN depth) + Len(queue) + 1
    [] OTHER -> 0

\* Both searches end on every graph, with cycles, self-calls or no root at all:
\* they can always go on, and each step uses up one of at most 3|Service| + 2
\* (depgraph.go:70-86, 110-120).
Ends == [](pc = "done" \/ ENABLED Next) /\ [][StepsLeft' < StepsLeft]_vars
=============================================================================
