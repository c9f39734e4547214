--------------------------- MODULE DepGraphProofs ---------------------------
(***************************************************************************)
(* Theorems about DepGraph for every finite set of services and every      *)
(* graph of calls between them.                                            *)
(***************************************************************************)
EXTENDS DepGraph, FiniteSetTheorems, SequenceTheorems, TLAPS

(***************************************************************************)
(* The inductive invariant, by pass.                                       *)
(***************************************************************************)
\* The services of the component being explored.
Exploring == {svc \in DOMAIN component : component[svc] = compID} \cup ToSet(queue)

\* A finished component is closed, one being explored up to the queue, and the
\* services of either are connected.
ComponentPass ==
  /\ DOMAIN component \cap ToSet(queue) = {}
  /\ queue = <<>> => \A svc \in DOMAIN component : component[svc] # compID
  /\ \A svc \in DOMAIN component : \A next \in Neighbours(calls, svc) :
       \/ next \in DOMAIN component /\ component[next] = component[svc]
       \/ next \in ToSet(queue) /\ component[svc] = compID
  /\ \A a, b \in DOMAIN component : component[a] = component[b] => Connected(calls, a, b)
  /\ \A a, b \in Exploring : Connected(calls, a, b)

\* A service at depth k is in reach of a root with k calls and not with fewer,
\* and there are services at every depth before it.
IsLeast(g, m, svc) ==
  /\ svc \in Within(g, m[svc])
  /\ \A k \in 0..m[svc] - 1 : svc \notin Within(g, k)
  /\ \A k \in 0..m[svc] : \E other \in DOMAIN m : m[other] = k

\* The queue is in the order of the depths, of which it holds two at most.
QueueSorted ==
  \A i, j \in 1..Len(queue) :
    /\ i <= j => depth[queue[i]] <= depth[queue[j]]
    /\ depth[queue[i]] <= depth[queue[j]] + 1

\* Whatever is no deeper than the head of the queue has been found.
FoundUpToHead ==
  queue # <<>> =>
    \A k \in 0..depth[Head(queue)] : Within(calls, k) \subseteq DOMAIN depth

DepthPass ==
  /\ Roots(calls) \cup ToSet(queue) \subseteq DOMAIN depth
  /\ \A svc \in DOMAIN depth : IsLeast(calls, depth, svc)
  /\ \A svc \in DOMAIN depth \ ToSet(queue) : calls[svc] \subseteq DOMAIN depth
  /\ QueueSorted
  /\ FoundUpToHead

Inv ==
  /\ TypeOK
  /\ queue \in Seq(Service)
  /\ compID \in Nat
  /\ pc = "component" => ComponentPass
  /\ pc # "component" => DOMAIN component = Service
  /\ pc = "depth" => DepthPass
  /\ ComponentsExact
  /\ DepthsExact
-----------------------------------------------------------------------------
(***************************************************************************)
(* Arithmetic and sequences.                                               *)
(***************************************************************************)
LEMMA LeastNat ==
  ASSUME NEW T \in SUBSET Nat, T # {}
  PROVE  \E m \in T : \A n \in T : m <= n
<1>1. PICK m \in T : \A n \in T : <<n, m>> \notin OpToRel(<, Nat)
  BY NatLessThanWellFounded, WFMin
<1>2. \A n \in T : ~(n < m)
  BY <1>1 DEF OpToRel
<1>. QED
  BY <1>2

LEMMA WithinOne ==
  ASSUME NEW d \in Nat, NEW x \in {d, d + 1}, NEW y \in {d, d + 1}
  PROVE  x <= y + 1
OBVIOUS

\* A sequence made from a set lists each of its elements.
LEMMA ListedOnce ==
  ASSUME NEW S, IsFiniteSet(S), NEW list \in SetToSeqs(S)
  PROVE  /\ list \in Seq(S) /\ Len(list) = Cardinality(S)
         /\ IsInjective(list)
         /\ ToSet(list) = S
<1>. DEFINE n == Cardinality(S)
<1>1. n \in Nat
  BY FS_CardinalityType
<1>2. list \in [1..n -> S] /\ \A i, j \in 1..n : i # j => list[i] # list[j]
  BY DEF SetToSeqs
<1>3. list \in Injection(1..n, S)
  BY <1>2 DEF Injection, IsInjective
<1>4. IsFiniteSet(1..n) /\ Cardinality(1..n) = n
  BY <1>1, FS_Interval
<1>5. list \in Surjection(1..n, S)
  BY <1>3, <1>4, FS_Injection
<1>6. list \in Seq(S) /\ Len(list) = n
  BY <1>1, <1>2, IsASeq
<1>7. DOMAIN list = 1..n
  BY <1>2
<1>8. ToSet(list) = S
  BY <1>2, <1>5, <1>7 DEF Surjection, ToSet
<1>. QED
  BY <1>3, <1>6, <1>8 DEF Injection

\* The queue after a service is taken from it and those found are added.
LEMMA Dequeued ==
  ASSUME NEW q \in Seq(Service), q # <<>>, IsInjective(q),
         NEW new \in SUBSET Service, new \cap ToSet(q) = {},
         NEW found \in SetToSeqs(new)
  PROVE  LET next == Tail(q) \o found IN
         /\ next \in Seq(Service) /\ IsInjective(next)
         /\ Len(next) = Len(q) - 1 + Cardinality(new)
         /\ ToSet(next) = (ToSet(q) \ {Head(q)}) \cup new
         /\ \A i \in 1..Len(next) :
              next[i] = IF i < Len(q) THEN q[i + 1] ELSE found[i - (Len(q) - 1)]
<1>. DEFINE next == Tail(q) \o found
            m == Len(q) - 1
            n == Cardinality(new)
<1>1. IsFiniteSet(new) /\ n \in Nat
  BY DepGraphAssumption, FS_Subset, FS_CardinalityType DEF DepGraphAssumption
<1>2. found \in Seq(new) /\ Len(found) = n /\ IsInjective(found) /\ ToSet(found) = new
  BY <1>1, ListedOnce
<1>3. found \in Seq(Service)
  BY <1>2, SeqMonotonic
<1>4. /\ m \in Nat /\ Len(q) = m + 1 /\ Tail(q) \in Seq(Service) /\ Len(Tail(q)) = m
      /\ \A i \in 1..m : Tail(q)[i] = q[i + 1]
      /\ Head(q) = q[1]
  BY HeadTailProperties
<1>5. /\ next \in Seq(Service) /\ Len(next) = m + n
      /\ \A i \in 1..m + n : next[i] = IF i <= m THEN q[i + 1] ELSE found[i - m]
  BY <1>1, <1>2, <1>3, <1>4, ConcatProperties
<1>6. DOMAIN next = 1..m + n /\ DOMAIN q = 1..m + 1 /\ DOMAIN found = 1..n
  BY <1>2, <1>3, <1>4, <1>5
<1>. HIDE DEF next, m, n
<1>7. \A i \in 1..m + n : \/ i <= m /\ next[i] = q[i + 1] /\ i + 1 \in 1..m + 1
                          \/ i > m /\ next[i] = found[i - m] /\ i - m \in 1..n
  BY <1>1, <1>4, <1>5
<1>8. \A i \in 1..m + 1 : \A j \in 1..n : q[i] # found[j]
  BY <1>2, <1>6 DEF ToSet
<1>9. IsInjective(next)
  <2>. SUFFICES ASSUME NEW i \in 1..m + n, NEW j \in 1..m + n, next[i] = next[j]
                PROVE  i = j
    BY <1>6 DEF IsInjective
  <2>1. CASE i <= m /\ j <= m
    <3>1. i + 1 \in DOMAIN q /\ j + 1 \in DOMAIN q /\ q[i + 1] = q[j + 1]
      BY <1>1, <1>4, <1>6, <1>7, <2>1
    <3>2. i + 1 = j + 1
      BY <3>1 DEF IsInjective
    <3>. QED
      BY <1>1, <1>4, <3>2
  <2>2. CASE i > m /\ j > m
    <3>1. i - m = j - m
      BY <1>1, <1>2, <1>4, <1>6, <1>7, <2>2, SMTT(30) DEF IsInjective
    <3>. QED
      BY <1>1, <1>4, <3>1
  <2>3. ~(i <= m /\ j > m) /\ ~(i > m /\ j <= m)
    <3>1. ASSUME NEW k \in 1..m + n, NEW l \in 1..m + n, k <= m, l > m PROVE next[k] # next[l]
      BY <1>1, <1>4, <1>7, <1>8, <3>1, SMTT(30)
    <3>. QED
      BY <3>1
  <2>. QED
    BY <1>1, <1>4, <2>1, <2>2, <2>3
<1>10. ToSet(next) = (ToSet(q) \ {Head(q)}) \cup new
  <2>1. ASSUME NEW i \in 1..m + n PROVE next[i] \in (ToSet(q) \ {Head(q)}) \cup new
    <3>1. CASE i <= m
      <4>1. next[i] = q[i + 1] /\ i + 1 \in DOMAIN q /\ 1 \in DOMAIN q /\ i + 1 # 1
        BY <1>1, <1>4, <1>6, <1>7, <3>1
      <4>. QED
        BY <1>4, <4>1 DEF ToSet, IsInjective
    <3>2. CASE i > m
      BY <1>1, <1>2, <1>4, <1>6, <1>7, <3>2 DEF ToSet
    <3>. QED
      BY <1>1, <1>4, <3>1, <3>2
  <2>2. ASSUME NEW i \in 1..m + 1, q[i] # Head(q) PROVE q[i] \in ToSet(next)
    <3>1. i - 1 \in 1..m /\ i - 1 \in 1..m + n
      BY <1>1, <1>4, <2>2
    <3>2. next[i - 1] = q[i]
      BY <1>4, <1>7, <3>1
    <3>. QED
      BY <1>6, <3>1, <3>2 DEF ToSet
  <2>3. ASSUME NEW j \in 1..n PROVE found[j] \in ToSet(next)
    <3>1. m + j \in 1..m + n /\ m + j > m /\ (m + j) - m = j
      BY <1>1, <1>4
    <3>2. next[m + j] = found[j]
      BY <1>4, <1>7, <3>1
    <3>. QED
      BY <1>6, <3>1, <3>2 DEF ToSet
  <2>. QED
    BY <1>2, <1>6, <2>1, <2>2, <2>3 DEF ToSet
<1>11. \A i \in 1..Len(next) :
         next[i] = IF i < Len(q) THEN q[i + 1] ELSE found[i - (Len(q) - 1)]
  BY <1>1, <1>4, <1>5 DEF m
<1>. QED
  BY <1>5, <1>9, <1>10, <1>11 DEF next, m, n

(***************************************************************************)
(* Connection is an equivalence that neighbours stand in.                  *)
(***************************************************************************)
Graph == [Service -> SUBSET Service]

LEMMA NeighbourProperties ==
  ASSUME NEW g \in Graph, NEW a \in Service
  PROVE  /\ Neighbours(g, a) \subseteq Service
         /\ \A b \in Neighbours(g, a) : a \in Neighbours(g, b)
         /\ \A b \in Neighbours(g, a) : Connected(g, a, b)
  BY DEF Graph, Neighbours, CalledBy, Connected, Closed

LEMMA ConnectedSymmetric ==
  ASSUME NEW g \in Graph, NEW a \in Service, NEW b \in Service, Connected(g, a, b)
  PROVE  Connected(g, b, a)
<1>. SUFFICES ASSUME NEW S \in SUBSET Service, b \in S, Closed(g, S), a \notin S
              PROVE  FALSE
  BY DEF Connected, Graph
<1>1. Closed(g, Service \ S)
  BY NeighbourProperties DEF Closed
<1>2. b \in Service \ S
  BY <1>1 DEF Connected, Graph
<1>. QED
  BY <1>2

LEMMA ConnectedTransitive ==
  ASSUME NEW g, NEW a, NEW b, NEW c, Connected(g, a, b), Connected(g, b, c)
  PROVE  Connected(g, a, c)
  BY DEF Connected

LEMMA ConnectedReflexive ==
  ASSUME NEW g, NEW a
  PROVE  Connected(g, a, a)
  BY DEF Connected

(***************************************************************************)
(* What is within k calls of a root, without the recursion.                *)
(***************************************************************************)
Called(g, S) == UNION {g[svc] : svc \in S}

IsWithin(g, k, f) ==
  f = [i \in 0..k |-> IF i = 0 THEN Roots(g) ELSE f[i - 1] \cup Called(g, f[i - 1])]

LEMMA IsWithinSteps ==
  ASSUME NEW g, NEW k \in Nat, NEW f, IsWithin(g, k, f)
  PROVE  /\ f[0] = Roots(g)
         /\ \A i \in 1..k : f[i] = f[i - 1] \cup Called(g, f[i - 1])
<1>1. \A i \in 0..k : f[i] = IF i = 0 THEN Roots(g) ELSE f[i - 1] \cup Called(g, f[i - 1])
  BY Zenon DEF IsWithin
<1>2. f[0] = Roots(g)
  <2>1. 0 \in 0..k
    OBVIOUS
  <2>. QED
    BY <1>1, <2>1
<1>3. ASSUME NEW i \in 1..k PROVE f[i] = f[i - 1] \cup Called(g, f[i - 1])
  <2>1. i \in 0..k /\ i # 0
    OBVIOUS
  <2>. QED
    BY <1>1, <2>1, Zenon
<1>. QED
  BY <1>2, <1>3

LEMMA WithinExists ==
  ASSUME NEW g, NEW k \in Nat
  PROVE  \E f : IsWithin(g, k, f)
<1>. DEFINE T == {i \in Nat : ~\E f : IsWithin(g, i, f)}
<1>. SUFFICES ASSUME T # {} PROVE FALSE
  OBVIOUS
<1>1. PICK m \in T : \A i \in T : m <= i
  BY LeastNat
<1>2. CASE m = 0
  <2>. DEFINE f == [i \in 0..0 |-> Roots(g)]
  <2>1. IsWithin(g, 0, f)
    BY DEF IsWithin
  <2>. HIDE DEF f
  <2>. QED
    BY <1>2, <2>1
<1>3. CASE m # 0
  <2>1. m - 1 \in Nat /\ m - 1 \notin T
    BY <1>1, <1>3
  <2>2. PICK f : IsWithin(g, m - 1, f)
    BY <2>1
  <2>. DEFINE h == [i \in 0..m |-> IF i = m THEN f[m - 1] \cup Called(g, f[m - 1]) ELSE f[i]]
  <2>3. \A i \in 0..m : h[i] = IF i = 0 THEN Roots(g) ELSE h[i - 1] \cup Called(g, h[i - 1])
    <3>. SUFFICES ASSUME NEW i \in 0..m
                  PROVE  h[i] = IF i = 0 THEN Roots(g) ELSE h[i - 1] \cup Called(g, h[i - 1])
      OBVIOUS
    <3>1. f[0] = Roots(g) /\ \A j \in 1..m - 1 : f[j] = f[j - 1] \cup Called(g, f[j - 1])
      BY <2>1, <2>2, IsWithinSteps
    <3>2. CASE i = 0
      BY <1>3, <3>1, <3>2
    <3>3. CASE i = m
      <4>1. h[i] = f[m - 1] \cup Called(g, f[m - 1]) /\ h[m - 1] = f[m - 1]
        BY <2>1, <3>3
      <4>. QED
        BY <1>3, <3>3, <4>1
    <3>4. CASE i \in 1..m - 1
      <4>1. h[i] = f[i] /\ h[i - 1] = f[i - 1] /\ i # 0
        BY <2>1, <3>4
      <4>. QED
        BY <3>1, <3>4, <4>1
    <3>. QED
      BY <1>3, <2>1, <3>2, <3>3, <3>4
  <2>4. IsWithin(g, m, h)
    BY <2>3 DEF IsWithin
  <2>. HIDE DEF h
  <2>. QED
    BY <2>4
<1>. QED
  BY <1>2, <1>3

LEMMA WithinUnique ==
  ASSUME NEW g, NEW k \in Nat, NEW m \in Nat, k <= m,
         NEW f, IsWithin(g, k, f), NEW h, IsWithin(g, m, h)
  PROVE  f[k] = h[k]
<1>. DEFINE T == {i \in 0..k : f[i] # h[i]}
<1>. SUFFICES ASSUME T # {} PROVE FALSE
  OBVIOUS
<1>0. T \in SUBSET Nat
  OBVIOUS
<1>1. PICK i \in T : \A j \in T : i <= j
  BY <1>0, LeastNat
<1>2. CASE i = 0
  BY <1>2, IsWithinSteps
<1>3. CASE i # 0
  <2>1. i \in 1..k /\ i \in 1..m /\ i - 1 \in 0..k
    BY <1>3
  <2>2. f[i - 1] = h[i - 1]
    BY <1>1, <2>1
  <2>3. f[i] = f[i - 1] \cup Called(g, f[i - 1])
    <3>1. \A j \in 1..k : f[j] = f[j - 1] \cup Called(g, f[j - 1])
      BY IsWithinSteps
    <3>. QED
      BY <2>1, <3>1
  <2>4. h[i] = h[i - 1] \cup Called(g, h[i - 1])
    <3>1. \A j \in 1..m : h[j] = h[j - 1] \cup Called(g, h[j - 1])
      BY IsWithinSteps, SMTT(30)
    <3>. QED
      BY <2>1, <3>1
  <2>. QED
    BY <2>2, <2>3, <2>4
<1>. QED
  BY <1>2, <1>3

LEMMA WithinDef ==
  ASSUME NEW g, NEW k \in Nat
  PROVE  \E f : IsWithin(g, k, f) /\ Within(g, k) = f[k]
<1>. DEFINE within == CHOOSE f : f = [i \in 0..k |-> IF i = 0 THEN Roots(g)
                                    ELSE f[i - 1] \cup UNION {g[svc] : svc \in f[i - 1]}]
<1>1. Within(g, k) = within[k]
  BY DEF Within
<1>2. IsWithin(g, k, within)
  <2>1. \E f : f = [i \in 0..k |-> IF i = 0 THEN Roots(g)
                                   ELSE f[i - 1] \cup UNION {g[svc] : svc \in f[i - 1]}]
    <3>1. PICK f : IsWithin(g, k, f)
      BY WithinExists
    <3>2. f = [i \in 0..k |-> IF i = 0 THEN Roots(g)
                             ELSE f[i - 1] \cup UNION {g[svc] : svc \in f[i - 1]}]
      BY <3>1 DEF IsWithin, Called
    <3>. QED
      BY <3>2, Zenon
  <2>2. within = [i \in 0..k |-> IF i = 0 THEN Roots(g)
                                 ELSE within[i - 1] \cup UNION {g[svc] : svc \in within[i - 1]}]
    BY <2>1, Zenon
  <2>. HIDE DEF within
  <2>. QED
    BY <2>2 DEF IsWithin, Called
<1>. QED
  BY <1>1, <1>2

LEMMA WithinSteps ==
  ASSUME NEW g, NEW k \in Nat
  PROVE  /\ Within(g, 0) = Roots(g)
         /\ Within(g, k + 1) = Within(g, k) \cup Called(g, Within(g, k))
<1>1. Within(g, 0) = Roots(g)
  BY WithinDef, IsWithinSteps
<1>2. PICK f : IsWithin(g, k, f) /\ Within(g, k) = f[k]
  BY WithinDef
<1>3. PICK h : IsWithin(g, k + 1, h) /\ Within(g, k + 1) = h[k + 1]
  BY WithinDef
<1>4. h[k] = f[k]
  BY <1>2, <1>3, WithinUnique
<1>5. h[k + 1] = h[k] \cup Called(g, h[k])
  <2>1. k + 1 \in 1..k + 1 /\ (k + 1) - 1 = k /\ k + 1 \in Nat
    OBVIOUS
  <2>2. h[k + 1] = h[(k + 1) - 1] \cup Called(g, h[(k + 1) - 1])
    <3>1. \A j \in 1..k + 1 : h[j] = h[j - 1] \cup Called(g, h[j - 1])
      BY <1>3, <2>1, IsWithinSteps
    <3>. QED
      BY <2>1, <3>1
  <2>. QED
    BY <2>1, <2>2
<1>. QED
  BY <1>1, <1>2, <1>3, <1>4, <1>5

\* The least number of calls that reaches a service is its distance, and a
\* service that none reaches has distance 0.
LEMMA DistanceIsLeast ==
  ASSUME NEW g \in Graph, NEW svc \in Service
  PROVE  /\ \A n \in 0..Cardinality(Service) :
              svc \in Within(g, n) /\ (\A k \in 0..n - 1 : svc \notin Within(g, k))
                => Distance(g, svc) = n
         /\ (\A k \in Nat : svc \notin Within(g, k)) => Distance(g, svc) = 0
<1>. DEFINE reached == {k \in 0..Cardinality(Service) : svc \in Within(g, k)}
<1>1. DOMAIN g = Service
  BY DEF Graph
<1>2. Distance(g, svc) =
        IF reached = {} THEN 0 ELSE CHOOSE k \in reached : \A i \in reached : k <= i
  BY <1>1 DEF Distance
<1>3. ASSUME NEW n \in 0..Cardinality(Service), svc \in Within(g, n),
             \A k \in 0..n - 1 : svc \notin Within(g, k)
      PROVE  Distance(g, svc) = n
  <2>1. n \in reached /\ \A i \in reached : n <= i
    BY <1>3
  <2>. HIDE DEF reached
  <2>2. \A k \in reached : (\A i \in reached : k <= i) => k = n
    <3>1. reached \subseteq Nat
      BY DEF reached
    <3>. QED
      BY <2>1, <3>1
  <2>. QED
    BY <1>2, <2>1, <2>2
<1>4. ASSUME \A k \in Nat : svc \notin Within(g, k) PROVE Distance(g, svc) = 0
  BY <1>2, <1>4
<1>. QED
  BY <1>3, <1>4

(***************************************************************************)
(* The steps of the first pass.                                            *)
(***************************************************************************)
LEMMA QueueFacts ==
  ASSUME Inv
  PROVE  /\ DOMAIN queue = 1..Len(queue) /\ Len(queue) \in Nat
         /\ queue # <<>> => /\ Head(queue) = queue[1] /\ 1 \in 1..Len(queue)
                            /\ Head(queue) \in ToSet(queue) /\ Head(queue) \in Service
         /\ ToSet(queue) \subseteq Service /\ IsInjective(queue)
         /\ queue = <<>> <=> ToSet(queue) = {}
<1>1. DOMAIN queue = 1..Len(queue) /\ Len(queue) \in Nat
  BY LenProperties DEF Inv
<1>2. queue # <<>> => Head(queue) = queue[1] /\ Len(queue) # 0
  BY HeadTailProperties, EmptySeq DEF Inv
<1>3. queue = <<>> => Len(queue) = 0
  BY EmptySeq
<1>4. ToSet(queue) \subseteq Service /\ IsInjective(queue)
  BY DEF Inv, TypeOK
<1>5. queue # <<>> => 1 \in 1..Len(queue) /\ queue[1] \in ToSet(queue)
  BY <1>1, <1>2 DEF ToSet
<1>6. queue = <<>> => ToSet(queue) = {}
  BY <1>1, <1>3 DEF ToSet
<1>. QED
  BY <1>1, <1>2, <1>4, <1>5, <1>6

LEMMA GraphType == TypeOK => calls \in Graph
  BY DEF TypeOK, Graph

LEMMA StartComponentKeeps ==
  ASSUME Inv, NEW svc \in Service, StartComponent(svc)
  PROVE  Inv'
<1>1. /\ pc = "component" /\ queue = <<>> /\ queue' = <<svc>>
      /\ svc \notin DOMAIN component
      /\ UNCHANGED <<calls, pc, component, compID, depth>>
  BY DEF StartComponent, Visited
<1>2. ToSet(queue') = {svc} /\ IsInjective(queue') /\ queue' \in Seq(Service) /\ queue' # <<>>
  BY <1>1 DEF ToSet, IsInjective
<1>3. ToSet(queue) = {}
  BY <1>1, QueueFacts
<1>4. ComponentPass
  BY <1>1 DEF Inv
<1>5. Exploring' = {svc}
  BY <1>1, <1>2, <1>4 DEF Exploring, ComponentPass
<1>6. ComponentPass'
  BY <1>1, <1>2, <1>3, <1>4, <1>5, ConnectedReflexive DEF ComponentPass
<1>7. TypeOK'
  BY <1>1, <1>2 DEF Inv, TypeOK
<1>. QED
  BY <1>1, <1>2, <1>6, <1>7 DEF Inv, ComponentsExact, DepthsExact

LEMMA ExpandComponentKeeps ==
  ASSUME Inv, ExpandComponent
  PROVE  Inv'
<1>. DEFINE cur == Head(queue)
            new == Neighbours(calls, cur) \ Visited
            D == DOMAIN component
            Q == ToSet(queue)
            explored == {svc \in D \cup {cur} : component'[svc] = compID} \cup ToSet(queue')
<1>1. /\ pc = "component" /\ queue # <<>> /\ UNCHANGED <<calls, pc, depth>>
      /\ component' = Assigned(component, {cur}, compID)
      /\ compID' = IF queue' = <<>> THEN compID + 1 ELSE compID
  BY DEF ExpandComponent
<1>2. PICK found \in SetToSeqs(new) : queue' = Tail(queue) \o found
  BY DEF ExpandComponent
<1>3. ComponentPass /\ calls \in Graph /\ queue \in Seq(Service) /\ compID \in Nat
  BY <1>1, GraphType DEF Inv
<1>4. /\ cur \in Q /\ cur \in Service /\ Q \subseteq Service /\ D \subseteq Service
      /\ cur \notin D /\ IsInjective(queue)
  BY <1>1, <1>3, QueueFacts DEF ComponentPass, Inv, TypeOK
<1>5. new \subseteq Service /\ new \cap Q = {} /\ new \cap D = {}
  BY <1>3, <1>4, NeighbourProperties DEF Visited
<1>6. /\ queue' \in Seq(Service) /\ IsInjective(queue')
      /\ ToSet(queue') = (Q \ {cur}) \cup new
  BY <1>1, <1>2, <1>3, <1>4, <1>5, Dequeued
<1>7. /\ DOMAIN component' = D \cup {cur}
      /\ component'[cur] = compID
      /\ \A svc \in D : component'[svc] = component[svc]
  BY <1>1, <1>4 DEF Assigned
<1>8. ASSUME NEW svc \in D \cup {cur}, NEW next \in Neighbours(calls, svc)
      PROVE  \/ next \in D \cup {cur} /\ component'[next] = component'[svc]
             \/ next \in ToSet(queue') /\ component'[svc] = compID
  <2>1. CASE svc = cur
    <3>1. next \in new \/ next \in Q \/ next \in D
      BY <2>1 DEF Visited
    <3>2. CASE next \in D
      <4>1. cur \in Neighbours(calls, next)
        BY <1>3, <1>4, <2>1, NeighbourProperties
      <4>2. component[next] = compID
        BY <1>3, <1>4, <3>2, <4>1 DEF ComponentPass
      <4>. QED
        BY <1>7, <2>1, <3>2, <4>2
    <3>. QED
      BY <1>6, <1>7, <2>1, <3>1, <3>2
  <2>2. CASE svc \in D
    BY <1>3, <1>6, <1>7, <2>2 DEF ComponentPass
  <2>. QED
    BY <2>1, <2>2
<1>9. explored = Exploring \cup new /\ explored \subseteq Service
  BY <1>4, <1>5, <1>6, <1>7 DEF Exploring
<1>10. ASSUME NEW a \in explored, NEW b \in explored PROVE Connected(calls, a, b)
  <2>1. ASSUME NEW c \in explored PROVE Connected(calls, cur, c)
    <3>1. CASE c \in Exploring
      BY <1>3, <1>4, <3>1 DEF ComponentPass, Exploring
    <3>2. CASE c \in new
      BY <1>3, <1>4, <3>2, NeighbourProperties
    <3>. QED
      BY <1>9, <3>1, <3>2
  <2>2. Connected(calls, a, cur)
    BY <1>3, <1>4, <1>9, <2>1, ConnectedSymmetric
  <2>. QED
    BY <2>1, <2>2, ConnectedTransitive
<1>11. \A a, b \in D \cup {cur} : component'[a] = component'[b] => Connected(calls, a, b)
  BY <1>3, <1>7, <1>10 DEF ComponentPass
<1>12. \A svc \in D \cup {cur} : component'[svc] \in 0..compID
  BY <1>3, <1>7 DEF Inv, TypeOK, Range
<1>13. queue' = <<>> <=> ToSet(queue') = {}
  BY <1>6, EmptySeq, LenProperties DEF ToSet
<1>14. (DOMAIN component)' \cap ToSet(queue') = {}
  BY <1>3, <1>4, <1>5, <1>6, <1>7 DEF ComponentPass
<1>15. ComponentPass'
  <2>1. CASE queue' = <<>>
    <3>0. compID' = compID + 1 /\ compID' \notin 0..compID
      BY <1>1, <1>3, <2>1
    <3>1. compID' = compID + 1 /\ \A svc \in D \cup {cur} : component'[svc] # compID'
      BY <1>12, <3>0
    <3>2. Exploring' = {}
      BY <1>7, <1>13, <2>1, <3>1 DEF Exploring
    <3>. QED
      BY <1>1, <1>7, <1>8, <1>11, <1>13, <1>14, <2>1, <3>1, <3>2 DEF ComponentPass
  <2>2. CASE queue' # <<>>
    <3>1. compID' = compID /\ Exploring' = explored
      BY <1>1, <1>7, <2>2 DEF Exploring
    <3>. QED
      BY <1>1, <1>7, <1>8, <1>10, <1>11, <1>14, <2>2, <3>1 DEF ComponentPass
  <2>. QED
    BY <2>1, <2>2
<1>16. TypeOK' /\ compID' \in Nat
  <2>1. Range(component') \subseteq 0..compID' /\ compID' \in Nat
    <3>1. compID' \in Nat /\ 0..compID \subseteq 0..compID'
      BY <1>1, <1>3
    <3>. QED
      BY <1>7, <1>12, <3>1 DEF Range
  <2>2. ToSet(queue') \subseteq Service
    BY <1>4, <1>5, <1>6
  <2>. QED
    BY <1>1, <1>4, <1>6, <1>7, <2>1, <2>2 DEF Inv, TypeOK
<1>. QED
  BY <1>1, <1>6, <1>15, <1>16 DEF Inv, ComponentsExact, DepthsExact

(***************************************************************************)
(* The steps of the second pass.                                           *)
(***************************************************************************)
\* Depths are fewer than services, so the bound in Distance is enough.
LEMMA LeastIsDistance ==
  ASSUME NEW g \in Graph, NEW m, DOMAIN m \subseteq Service,
         \A svc \in DOMAIN m : m[svc] \in Nat /\ IsLeast(g, m, svc)
  PROVE  \A svc \in DOMAIN m : m[svc] = Distance(g, svc)
<1>. SUFFICES ASSUME NEW svc \in DOMAIN m PROVE m[svc] = Distance(g, svc)
  OBVIOUS
<1>. DEFINE n == m[svc]
            f == [k \in 0..n |-> CHOOSE other \in DOMAIN m : m[other] = k]
<1>1. n \in Nat /\ svc \in Service
  OBVIOUS
<1>2. \A k \in 0..n : f[k] \in DOMAIN m /\ m[f[k]] = k
  BY DEF IsLeast
<1>3. f \in Injection(0..n, DOMAIN m)
  <2>1. \A k, l \in 0..n : f[k] = f[l] => k = l
    BY <1>2
  <2>2. f \in [0..n -> DOMAIN m]
    BY <1>2
  <2>. QED
    BY <2>1, <2>2 DEF Injection, IsInjective
<1>4. /\ IsFiniteSet(DOMAIN m) /\ Cardinality(DOMAIN m) <= Cardinality(Service)
      /\ Cardinality(DOMAIN m) \in Nat /\ Cardinality(Service) \in Nat
  BY DepGraphAssumption, FS_Subset, FS_CardinalityType DEF DepGraphAssumption
<1>5. Cardinality(0..n) <= Cardinality(DOMAIN m)
  BY <1>3, <1>4, FS_Injection
<1>6. Cardinality(0..n) = n + 1
  BY <1>1, FS_Interval
<1>7. n \in 0..Cardinality(Service)
  BY <1>1, <1>4, <1>5, <1>6
<1>. QED
  BY <1>1, <1>7, DistanceIsLeast DEF IsLeast

LEMMA StartDepthKeeps ==
  ASSUME Inv, StartDepth
  PROVE  Inv'
<1>1. /\ pc = "component" /\ queue = <<>> /\ Visited = Service /\ pc' = "depth"
      /\ depth' = [svc \in Roots(calls) |-> 0]
      /\ queue' \in SetToSeqs(Roots(calls))
      /\ UNCHANGED <<calls, component, compID>>
  BY DEF StartDepth
<1>2. ComponentPass /\ calls \in Graph /\ compID \in Nat
  BY <1>1, GraphType DEF Inv
<1>3. DOMAIN component = Service
  BY <1>1, QueueFacts DEF Visited
<1>4. Roots(calls) \subseteq Service
  BY <1>2 DEF Graph, Roots
<1>5. IsFiniteSet(Roots(calls))
  BY <1>4, DepGraphAssumption, FS_Subset DEF DepGraphAssumption
<1>6. /\ queue' \in Seq(Service) /\ IsInjective(queue') /\ ToSet(queue') = Roots(calls)
      /\ DOMAIN queue' = 1..Len(queue')
  <2>1. queue' \in Seq(Roots(calls)) /\ IsInjective(queue') /\ ToSet(queue') = Roots(calls)
    BY <1>1, <1>5, ListedOnce
  <2>2. queue' \in Seq(Service)
    BY <1>4, <2>1, SeqMonotonic
  <2>. QED
    BY <2>1, <2>2, LenProperties
<1>7. \A svc \in Service : \A next \in Neighbours(calls, svc) : component[next] = component[svc]
  BY <1>1, <1>2, <1>3, QueueFacts DEF ComponentPass
<1>8. ComponentsExact'
  <2>. SUFFICES ASSUME NEW a \in Service, NEW b \in Service
                PROVE  (component[a] = component[b]) <=> Connected(calls, a, b)
    BY <1>1 DEF ComponentsExact
  <2>1. component[a] = component[b] => Connected(calls, a, b)
    BY <1>2, <1>3 DEF ComponentPass
  <2>2. ASSUME Connected(calls, a, b) PROVE component[a] = component[b]
    <3>. DEFINE S == {svc \in Service : component[svc] = component[a]}
    <3>1. Closed(calls, S)
      BY <1>2, <1>7, NeighbourProperties DEF Closed
    <3>2. b \in S
      BY <1>2, <2>2, <3>1 DEF Connected, Graph
    <3>. QED
      BY <3>2
  <2>. QED
    BY <2>1, <2>2
<1>9. /\ DOMAIN depth' = Roots(calls)
      /\ \A svc \in Roots(calls) : depth'[svc] = 0
  BY <1>1
<1>10. Within(calls, 0) = Roots(calls)
  BY WithinSteps
<1>11. \A svc \in Roots(calls) : IsLeast(calls, depth', svc)
  BY <1>9, <1>10 DEF IsLeast
<1>12. QueueSorted'
  <2>1. \A i \in 1..Len(queue') : queue'[i] \in Roots(calls)
    BY <1>6 DEF ToSet
  <2>. QED
    BY <1>9, <2>1 DEF QueueSorted
<1>13. FoundUpToHead'
  <2>1. queue' # <<>> => Head(queue') \in Roots(calls)
    BY <1>6, HeadTailProperties, LenProperties, EmptySeq DEF ToSet
  <2>. QED
    BY <1>1, <1>9, <1>10, <2>1 DEF FoundUpToHead
<1>14. DepthPass'
  BY <1>1, <1>4, <1>6, <1>9, <1>11, <1>12, <1>13 DEF DepthPass
<1>15. DepthsExact'
  BY <1>1, <1>2, <1>4, <1>9, <1>11, LeastIsDistance DEF DepthsExact
<1>16. TypeOK'
  BY <1>1, <1>4, <1>6, <1>9 DEF Inv, TypeOK, Range
<1>. QED
  BY <1>1, <1>2, <1>3, <1>6, <1>8, <1>14, <1>15, <1>16 DEF Inv

LEMMA ExpandDepthKeeps ==
  ASSUME Inv, ExpandDepth
  PROVE  Inv'
<1>. DEFINE cur == Head(queue)
            D == DOMAIN depth
            Q == ToSet(queue)
            d == depth[cur]
            new == calls[cur] \ D
<1>1. /\ pc = "depth" /\ queue # <<>> /\ UNCHANGED <<calls, pc, component, compID>>
      /\ depth' = Assigned(depth, new, d + 1)
  BY DEF ExpandDepth
<1>2. PICK found \in SetToSeqs(new) : queue' = Tail(queue) \o found
  BY DEF ExpandDepth
<1>3. DepthPass /\ calls \in Graph /\ queue \in Seq(Service)
  BY <1>1, GraphType DEF Inv
<1>4. /\ cur \in Q /\ cur \in D /\ Q \subseteq D /\ D \subseteq Service /\ cur = queue[1]
      /\ IsInjective(queue) /\ 1 \in 1..Len(queue) /\ Len(queue) \in Nat
      /\ \A i \in 1..Len(queue) : queue[i] \in D
      /\ \A svc \in D : depth[svc] \in Nat
  BY <1>1, <1>3, QueueFacts DEF DepthPass, Inv, TypeOK, ToSet, Range
<1>5. new \subseteq Service /\ new \cap Q = {} /\ new \cap D = {} /\ d \in Nat
  BY <1>3, <1>4 DEF Graph
<1>6. /\ queue' \in Seq(Service) /\ IsInjective(queue')
      /\ ToSet(queue') = (Q \ {cur}) \cup new
      /\ Len(queue') \in Nat
      /\ \A i \in 1..Len(queue') :
           queue'[i] = IF i < Len(queue) THEN queue[i + 1] ELSE found[i - (Len(queue) - 1)]
  BY <1>1, <1>2, <1>3, <1>4, <1>5, Dequeued, LenProperties, SMTT(30)
<1>7. /\ DOMAIN depth' = D \cup new
      /\ \A svc \in D : depth'[svc] = depth[svc]
      /\ \A svc \in new : depth'[svc] = d + 1
  BY <1>1, <1>5 DEF Assigned
<1>. HIDE DEF new
<1>8. ASSUME NEW svc \in D \cup new PROVE IsLeast(calls, depth', svc)
  <2>1. ASSUME NEW other \in D PROVE IsLeast(calls, depth', other)
    BY <1>3, <1>4, <1>7, <2>1 DEF DepthPass, IsLeast
  <2>2. CASE svc \in new
    <3>1. depth'[svc] = d + 1 /\ svc \notin D /\ svc \in calls[cur]
      BY <1>5, <1>7, <2>2 DEF new
    <3>2. svc \in Within(calls, d + 1)
      <4>1. cur \in Within(calls, d)
        BY <1>3, <1>4 DEF DepthPass, IsLeast
      <4>. QED
        BY <1>5, <3>1, <4>1, WithinSteps DEF Called
    <3>3. \A k \in 0..d : svc \notin Within(calls, k)
      BY <1>1, <1>3, <3>1 DEF DepthPass, FoundUpToHead
    <3>4. \A k \in 0..d : \E other \in D \cup new : depth'[other] = k
      BY <1>4, <1>7, <2>1 DEF IsLeast
    <3>5. \A k \in 0..d + 1 : k \in 0..d \/ k = d + 1
      BY <1>5
    <3>6. 0..(d + 1) - 1 = 0..d
      BY <1>5
    <3>. QED
      BY <1>7, <2>2, <3>1, <3>2, <3>3, <3>4, <3>5, <3>6 DEF IsLeast
  <2>. QED
    BY <2>1, <2>2
<1>9. \A svc \in (D \cup new) \ ToSet(queue') : calls[svc] \subseteq D \cup new
  BY <1>3, <1>5, <1>6 DEF DepthPass, new
<1>10. \A i \in 1..Len(queue) : d <= depth[queue[i]] /\ depth[queue[i]] <= d + 1
  BY <1>3, <1>4, SMTT(30) DEF DepthPass, QueueSorted
<1>11. ASSUME NEW i \in 1..Len(queue')
       PROVE  /\ depth'[queue'[i]] = IF i < Len(queue) THEN depth[queue[i + 1]] ELSE d + 1
              /\ i < Len(queue) => i + 1 \in 1..Len(queue)
  <2>1. CASE i < Len(queue)
    BY <1>4, <1>6, <1>7, <2>1
  <2>2. CASE ~(i < Len(queue))
    <3>1. queue'[i] \in ToSet(queue')
      BY <1>6, LenProperties DEF ToSet
    <3>2. \A j \in 1..Len(queue) - 1 : j \in 1..Len(queue') /\ queue'[j] = queue[j + 1] /\ j # i
      BY <1>4, <1>6, <2>2
    <3>3. ASSUME queue'[i] \in Q \ {cur} PROVE FALSE
      <4>1. PICK j \in 1..Len(queue) : queue'[i] = queue[j]
        BY <1>3, <3>3, LenProperties DEF ToSet
      <4>2. j # 1 /\ j - 1 \in 1..Len(queue) - 1 /\ (j - 1) + 1 = j
        BY <1>4, <3>3, <4>1
      <4>3. queue'[j - 1] = queue'[i] /\ j - 1 # i /\ j - 1 \in 1..Len(queue')
        BY <3>2, <4>1, <4>2
      <4>. QED
        BY <1>6, <4>3, LenProperties DEF IsInjective
    <3>. QED
      BY <1>6, <1>7, <2>2, <3>1, <3>3
  <2>. QED
    BY <2>1, <2>2
<1>12. QueueSorted'
  <2>. SUFFICES ASSUME NEW i \in 1..Len(queue'), NEW j \in 1..Len(queue')
                PROVE  /\ i <= j => depth'[queue'[i]] <= depth'[queue'[j]]
                       /\ depth'[queue'[i]] <= depth'[queue'[j]] + 1
    BY DEF QueueSorted
  <2>1. ASSUME NEW k \in 1..Len(queue')
        PROVE  depth'[queue'[k]] \in {d, d + 1} /\ (~(k < Len(queue)) => depth'[queue'[k]] = d + 1)
    <3>1. \A l \in 1..Len(queue) : depth[queue[l]] \in {d, d + 1}
      BY <1>4, <1>5, <1>10
    <3>. QED
      BY <1>11, <3>1
  <2>2. CASE i <= j /\ j < Len(queue)
    <3>1. i < Len(queue) /\ i + 1 <= j + 1
      BY <1>4, <1>6, <2>2
    <3>2. depth[queue[i + 1]] <= depth[queue[j + 1]]
      BY <1>3, <1>11, <2>2, <3>1 DEF DepthPass, QueueSorted
    <3>3. depth'[queue'[i]] = depth[queue[i + 1]] /\ depth'[queue'[j]] = depth[queue[j + 1]]
      BY <1>11, <2>2, <3>1
    <3>4. depth'[queue'[i]] <= depth'[queue'[j]]
      BY <3>2, <3>3, Zenon
    <3>5. depth'[queue'[i]] <= depth'[queue'[j]] + 1
      <4>1. depth'[queue'[i]] \in {d, d + 1} /\ depth'[queue'[j]] \in {d, d + 1}
        BY <2>1
      <4>. QED
        BY <1>5, <4>1, WithinOne
    <3>. QED
      BY <3>4, <3>5, Zenon
  <2>3. CASE ~(i <= j /\ j < Len(queue))
    <3>1. i <= j => depth'[queue'[j]] = d + 1
      BY <2>1, <2>3
    <3>. QED
      BY <1>5, <2>1, <3>1, SMTT(30)
  <2>. QED
    BY <2>2, <2>3
<1>13. FoundUpToHead'
  <2>. SUFFICES ASSUME queue' # <<>>, NEW k \in 0..depth'[Head(queue')]
                PROVE  Within(calls, k) \subseteq D \cup new
    BY <1>1, <1>7 DEF FoundUpToHead
  <2>1. Head(queue') = queue'[1] /\ 1 \in 1..Len(queue')
    BY <1>6, HeadTailProperties, EmptySeq
  <2>2. depth'[Head(queue')] \in {d, d + 1}
    <3>1. \A l \in 1..Len(queue) : depth[queue[l]] \in {d, d + 1}
      BY <1>4, <1>5, <1>10
    <3>. QED
      BY <1>11, <2>1, <3>1
  <2>3. CASE k <= d
    BY <1>1, <1>3, <1>5, <2>3 DEF DepthPass, FoundUpToHead
  <2>4. CASE k = d + 1 /\ depth'[Head(queue')] = d + 1
    <3>1. \A i \in 1..Len(queue') : d + 1 <= depth'[queue'[i]]
      BY <1>12, <2>1, <2>4 DEF QueueSorted
    <3>2. ASSUME NEW svc \in Within(calls, d) PROVE svc \in D /\ calls[svc] \subseteq D \cup new
      <4>1. svc \in D
        BY <1>1, <1>3, <1>5, <3>2 DEF DepthPass, FoundUpToHead
      <4>2. ~(d < depth[svc])
        BY <1>3, <1>4, <1>5, <3>2, <4>1 DEF DepthPass, IsLeast
      <4>3. ASSUME svc \in ToSet(queue') PROVE FALSE
        <5>1. PICK i \in 1..Len(queue') : svc = queue'[i]
          BY <1>6, <4>3, LenProperties DEF ToSet
        <5>. QED
          BY <1>4, <1>5, <1>7, <3>1, <4>1, <4>2, <5>1
      <4>. QED
        BY <1>9, <4>1, <4>3
    <3>3. Within(calls, d + 1) = Within(calls, d) \cup Called(calls, Within(calls, d))
      BY <1>5, WithinSteps
    <3>. QED
      BY <2>4, <3>2, <3>3 DEF Called
  <2>. QED
    BY <1>5, <2>2, <2>3, <2>4
<1>14. \A svc \in D \cup new : depth'[svc] \in Nat
  BY <1>4, <1>5, <1>7
<1>15. DepthPass'
  <2>1. Roots(calls) \cup ToSet(queue') \subseteq D \cup new
    BY <1>3, <1>4, <1>6 DEF DepthPass
  <2>. QED
    BY <1>1, <1>7, <1>8, <1>9, <1>12, <1>13, <2>1 DEF DepthPass
<1>16. DepthsExact'
  <2>1. DOMAIN depth' \subseteq Service
    BY <1>4, <1>5, <1>7
  <2>2. \A svc \in DOMAIN depth' : depth'[svc] = Distance(calls, svc)
    BY <1>3, <1>7, <1>8, <1>14, <2>1, LeastIsDistance
  <2>. QED
    BY <1>1, <2>2 DEF DepthsExact
<1>17. TypeOK'
  <2>1. ToSet(queue') \subseteq Service
    BY <1>4, <1>5, <1>6
  <2>. QED
    BY <1>1, <1>4, <1>5, <1>6, <1>7, <1>14, <2>1 DEF Inv, TypeOK, Range
<1>18. ComponentsExact'
  BY <1>1 DEF Inv, ComponentsExact
<1>. QED
  BY <1>1, <1>6, <1>15, <1>16, <1>17, <1>18 DEF Inv

\* What no root reaches with any number of calls, no queue entry leads to.
LEMMA WithinFound ==
  ASSUME calls \in Graph, DepthPass, queue = <<>>, ToSet(queue) = {}
  PROVE  \A k \in Nat : Within(calls, k) \subseteq DOMAIN depth
<1>. DEFINE T == {k \in Nat : ~(Within(calls, k) \subseteq DOMAIN depth)}
<1>. SUFFICES ASSUME T # {} PROVE FALSE
  OBVIOUS
<1>1. PICK m \in T : \A n \in T : m <= n
  BY LeastNat
<1>2. m \in Nat /\ ~(Within(calls, m) \subseteq DOMAIN depth)
  OBVIOUS
<1>3. m # 0
  BY <1>2, WithinSteps DEF DepthPass
<1>4. m - 1 \in Nat /\ (m - 1) + 1 = m /\ ~(m <= m - 1)
  BY <1>2, <1>3
<1>5. Within(calls, m - 1) \subseteq DOMAIN depth
  BY <1>1, <1>4
<1>6. Within(calls, m) = Within(calls, m - 1) \cup Called(calls, Within(calls, m - 1))
  BY <1>4, WithinSteps
<1>. QED
  BY <1>2, <1>5, <1>6 DEF DepthPass, Called

LEMMA FinishDepthKeeps ==
  ASSUME Inv, FinishDepth
  PROVE  Inv'
<1>1. /\ pc = "depth" /\ queue = <<>> /\ pc' = "done"
      /\ depth' = Assigned(depth, Service \ DOMAIN depth, 0)
      /\ UNCHANGED <<calls, queue, component, compID>>
  BY DEF FinishDepth
<1>2. /\ DepthPass /\ calls \in Graph /\ ToSet(queue) = {}
      /\ DOMAIN component = Service /\ DOMAIN depth \subseteq Service
  BY <1>1, GraphType, QueueFacts DEF Inv, TypeOK
<1>3. /\ DOMAIN depth' = Service
      /\ \A svc \in DOMAIN depth : depth'[svc] = depth[svc]
      /\ \A svc \in Service \ DOMAIN depth : depth'[svc] = 0
  BY <1>1, <1>2 DEF Assigned
<1>4. ASSUME NEW svc \in Service PROVE depth'[svc] = Distance(calls, svc)
  <2>1. CASE svc \in DOMAIN depth
    BY <1>1, <1>3, <2>1 DEF Inv, DepthsExact
  <2>2. CASE svc \notin DOMAIN depth
    <3>1. \A k \in Nat : svc \notin Within(calls, k)
      BY <1>1, <1>2, <2>2, WithinFound
    <3>2. Distance(calls, svc) = 0
      BY <1>2, <3>1, DistanceIsLeast
    <3>. QED
      BY <1>3, <2>2, <3>2
  <2>. QED
    BY <2>1, <2>2
<1>5. DepthsExact'
  BY <1>1, <1>3, <1>4 DEF DepthsExact
<1>6. TypeOK'
  <2>1. \A svc \in DOMAIN depth : depth[svc] \in Nat
    BY DEF Inv, TypeOK, Range
  <2>2. \A svc \in Service : depth'[svc] \in Nat
    BY <1>3, <2>1
  <2>. QED
    BY <1>1, <1>2, <1>3, <2>2 DEF Inv, TypeOK, Range
<1>7. ComponentsExact'
  BY <1>1 DEF Inv, ComponentsExact
<1>. QED
  BY <1>1, <1>2, <1>5, <1>6, <1>7 DEF Inv
-----------------------------------------------------------------------------
LEMMA InitInv == Init => Inv
<1>. SUFFICES ASSUME Init PROVE Inv
  OBVIOUS
<1>1. /\ ToSet(queue) = {} /\ IsInjective(queue) /\ queue \in Seq(Service)
      /\ DOMAIN component = {} /\ DOMAIN depth = {}
  BY DEF Init, ToSet, IsInjective
<1>2. TypeOK
  BY <1>1 DEF Init, TypeOK, Range
<1>3. ComponentPass
  BY <1>1 DEF Init, ComponentPass, Exploring
<1>. QED
  BY <1>1, <1>2, <1>3 DEF Init, Inv, ComponentsExact, DepthsExact

LEMMA InvStep == Inv /\ [Next]_vars => Inv'
<1>. SUFFICES ASSUME Inv, [Next]_vars PROVE Inv'
  OBVIOUS
<1>1. ASSUME NEW svc \in Service, StartComponent(svc) PROVE Inv'
  BY <1>1, StartComponentKeeps
<1>2. CASE ExpandComponent
  BY <1>2, ExpandComponentKeeps
<1>3. CASE StartDepth
  BY <1>3, StartDepthKeeps
<1>4. CASE ExpandDepth
  BY <1>4, ExpandDepthKeeps
<1>5. CASE FinishDepth
  BY <1>5, FinishDepthKeeps
<1>6. CASE UNCHANGED vars
  BY <1>6 DEF vars, Inv, TypeOK, ComponentPass, Exploring, ComponentsExact, DepthsExact,
     DepthPass, QueueSorted, FoundUpToHead
<1>. QED
  BY <1>1, <1>2, <1>3, <1>4, <1>5, <1>6 DEF Next

\* The invariant of both breadth-first passes (depgraph.go:61-121).
THEOREM Invariance == Spec => []Inv
BY InitInv, InvStep, PTL DEF Spec

\* The state of NewDependencyGraph has its type, and at the end every service
\* has a component and a depth (depgraph.go:53-129).
THEOREM TypeCorrect == Spec => []TypeOK
<1>1. Inv => TypeOK
  BY DEF Inv
<1>. QED
  BY <1>1, Invariance, PTL

\* For every graph and every order of expansion, two services get the same
\* component ID exactly when calls, followed either way, connect them
\* (depgraph.go:61-87).
THEOREM Components == Spec => []ComponentsExact
<1>1. Inv => ComponentsExact
  BY DEF Inv
<1>. QED
  BY <1>1, Invariance, PTL

\* For every graph and every order of expansion, the depth of a service is its
\* distance from the nearest root from the moment it is assigned, and 0 when no
\* root reaches it (depgraph.go:89-129).
THEOREM Depths == Spec => []DepthsExact
<1>1. Inv => DepthsExact
  BY DEF Inv
<1>. QED
  BY <1>1, Invariance, PTL
-----------------------------------------------------------------------------
(***************************************************************************)
(* Each step uses up one of the steps that are left.                       *)
(***************************************************************************)
LEMMA Counts ==
  ASSUME NEW S, S \subseteq Service
  PROVE  /\ Cardinality(Service \ S) \in Nat
         /\ \A T \in SUBSET (Service \ S) :
              /\ IsFiniteSet(T) /\ Cardinality(T) \in Nat
              /\ Cardinality(Service \ (S \cup T)) = Cardinality(Service \ S) - Cardinality(T)
<1>1. IsFiniteSet(Service \ S)
  BY DepGraphAssumption, FS_Subset DEF DepGraphAssumption
<1>2. ASSUME NEW T \in SUBSET (Service \ S)
      PROVE  /\ IsFiniteSet(T) /\ Cardinality(T) \in Nat
             /\ Cardinality(Service \ (S \cup T)) = Cardinality(Service \ S) - Cardinality(T)
  <2>1. IsFiniteSet(T)
    BY <1>1, FS_Subset
  <2>2. Service \ (S \cup T) = (Service \ S) \ T /\ (Service \ S) \cap T = T
    OBVIOUS
  <2>3. Cardinality((Service \ S) \ T)
          = Cardinality(Service \ S) - Cardinality((Service \ S) \cap T)
    BY <1>1, FS_Difference
  <2>. QED
    BY <2>1, <2>2, <2>3, FS_CardinalityType
<1>. QED
  BY <1>1, <1>2, FS_CardinalityType

LEMMA FoundOnce ==
  ASSUME NEW v \in Nat, NEW n \in Nat, NEW l \in Nat, NEW s \in Nat
  PROVE  2 * (v - n) + (l - 1 + n) + s + 2 < 2 * v + l + s + 2
OBVIOUS

LEMMA StepUsed == Inv /\ Next => StepsLeft' < StepsLeft
<1>. SUFFICES ASSUME Inv, Next PROVE StepsLeft' < StepsLeft
  OBVIOUS
<1>. DEFINE D == DOMAIN depth
            cur == Head(queue)
<1>1. /\ queue \in Seq(Service) /\ Len(queue) \in Nat /\ Visited \subseteq Service
      /\ D \subseteq Service /\ calls \in Graph /\ IsInjective(queue)
      /\ ToSet(queue) \subseteq Service
  BY QueueFacts, GraphType DEF Inv, TypeOK, Visited
<1>2. ASSUME NEW svc \in Service, StartComponent(svc) PROVE StepsLeft' < StepsLeft
  <2>1. /\ pc = "component" /\ pc' = "component" /\ queue = <<>> /\ queue' = <<svc>>
        /\ svc \notin Visited /\ component' = component
    BY <1>2 DEF StartComponent
  <2>2. Visited' = Visited \cup {svc}
    BY <2>1, QueueFacts DEF Visited, ToSet
  <2>3. Cardinality({svc}) = 1
    BY FS_Singleton
  <2>4. Cardinality(Service \ (Visited \cup {svc})) = Cardinality(Service \ Visited) - 1
    BY <1>1, <2>1, <2>3, Counts
  <2>5. Len(queue) = 0 /\ Len(queue') = 1
    BY <2>1
  <2>6. Cardinality(Service \ Visited) \in Nat /\ Cardinality(Service) \in Nat
    BY <1>1, Counts, DepGraphAssumption, FS_CardinalityType DEF DepGraphAssumption
  <2>. HIDE DEF Visited
  <2>. QED
    BY <2>1, <2>2, <2>4, <2>5, <2>6 DEF StepsLeft
<1>3. CASE ExpandComponent
  <2>. DEFINE new == Neighbours(calls, cur) \ Visited
  <2>1. /\ pc = "component" /\ pc' = "component" /\ queue # <<>>
        /\ component' = Assigned(component, {cur}, compID)
        /\ \E found \in SetToSeqs(new) : queue' = Tail(queue) \o found
    BY <1>3 DEF ExpandComponent
  <2>2. new \subseteq Service /\ new \cap ToSet(queue) = {}
    BY <1>1, <2>1, QueueFacts, NeighbourProperties DEF Visited
  <2>3. /\ Len(queue') = Len(queue) - 1 + Cardinality(new)
        /\ ToSet(queue') = (ToSet(queue) \ {cur}) \cup new
    BY <1>1, <2>1, <2>2, Dequeued
  <2>4. Visited' = Visited \cup new
    BY <2>1, <2>3, QueueFacts DEF Visited, Assigned
  <2>5. Cardinality(Service \ (Visited \cup new)) = Cardinality(Service \ Visited) - Cardinality(new)
    BY <1>1, <2>2, Counts
  <2>6. Cardinality(Service \ Visited) \in Nat /\ Cardinality(Service) \in Nat /\ Cardinality(new) \in Nat
    BY <1>1, <2>2, Counts, DepGraphAssumption, FS_CardinalityType DEF DepGraphAssumption
  <2>7. /\ pc = "component" /\ pc' = "component" /\ Len(queue) \in Nat
        /\ Cardinality(Service \ Visited') = Cardinality(Service \ Visited) - Cardinality(new)
    BY <1>1, <2>1, <2>4, <2>5
  <2>8. /\ StepsLeft = 2 * Cardinality(Service \ Visited) + Len(queue) + Cardinality(Service) + 2
        /\ StepsLeft' = 2 * Cardinality(Service \ Visited') + Len(queue') + Cardinality(Service) + 2
    <3>. HIDE DEF Visited
    <3>. QED
      BY <2>7 DEF StepsLeft
  <2>9. Len(queue') = Len(queue) - 1 + Cardinality(new)
    BY <2>3
  <2>10. StepsLeft' = 2 * (Cardinality(Service \ Visited) - Cardinality(new))
                       + (Len(queue) - 1 + Cardinality(new)) + Cardinality(Service) + 2
    BY <2>7, <2>8, <2>9, Zenon
  <2>11. 2 * (Cardinality(Service \ Visited) - Cardinality(new))
           + (Len(queue) - 1 + Cardinality(new)) + Cardinality(Service) + 2
           < 2 * Cardinality(Service \ Visited) + Len(queue) + Cardinality(Service) + 2
    BY <2>6, <2>7, FoundOnce
  <2>. QED
    BY <2>8, <2>10, <2>11, Zenon
<1>4. CASE StartDepth
  <2>1. /\ pc = "component" /\ pc' = "depth" /\ queue = <<>> /\ Visited = Service
        /\ DOMAIN depth' = Roots(calls) /\ queue' \in SetToSeqs(Roots(calls))
    BY <1>4 DEF StartDepth
  <2>2. Roots(calls) \subseteq Service
    BY <1>1 DEF Graph, Roots
  <2>3. IsFiniteSet(Roots(calls)) /\ IsFiniteSet({}) /\ Service \ {} = Service
    BY <2>2, DepGraphAssumption, FS_Subset, FS_EmptySet DEF DepGraphAssumption
  <2>4. Len(queue') = Cardinality(Roots(calls))
    BY <2>1, <2>3, ListedOnce
  <2>5. /\ Cardinality(Service \ Roots(calls)) = Cardinality(Service) - Cardinality(Roots(calls))
        /\ Cardinality(Service) \in Nat /\ Cardinality(Roots(calls)) \in Nat
    <3>1. Roots(calls) \in SUBSET (Service \ {}) /\ {} \subseteq Service /\ {} \cup Roots(calls) = Roots(calls)
      BY <2>2
    <3>. QED
      BY <2>3, <3>1, Counts
  <2>6. Len(queue) = 0 /\ Cardinality(Service \ Visited) = 0
    BY <2>1, FS_EmptySet
  <2>. QED
    BY <2>1, <2>4, <2>5, <2>6 DEF StepsLeft
<1>5. CASE ExpandDepth
  <2>. DEFINE new == calls[cur] \ D
  <2>1. /\ pc = "depth" /\ pc' = "depth" /\ queue # <<>>
        /\ depth' = Assigned(depth, new, depth[cur] + 1)
        /\ \E found \in SetToSeqs(new) : queue' = Tail(queue) \o found
    BY <1>5 DEF ExpandDepth
  <2>2. new \subseteq Service \ D /\ new \cap ToSet(queue) = {}
    BY <1>1, <2>1, QueueFacts DEF Inv, DepthPass, Graph
  <2>3. Len(queue') = Len(queue) - 1 + Cardinality(new)
    BY <1>1, <2>1, <2>2, Dequeued
  <2>4. DOMAIN depth' = D \cup new
    BY <2>1 DEF Assigned
  <2>5. Cardinality(Service \ (D \cup new)) = Cardinality(Service \ D) - Cardinality(new)
    BY <1>1, <2>2, Counts
  <2>6. Cardinality(Service \ D) \in Nat /\ Cardinality(new) \in Nat
    BY <1>1, <2>2, Counts
  <2>7. pc = "depth" /\ pc' = "depth" /\ Len(queue) \in Nat
    BY <1>1, <2>1
  <2>8. /\ StepsLeft = Cardinality(Service \ D) + Len(queue) + 1
        /\ StepsLeft' = Cardinality(Service \ DOMAIN depth') + Len(queue') + 1
    BY <2>7 DEF StepsLeft
  <2>9. StepsLeft' = (Cardinality(Service \ D) - Cardinality(new))
                       + (Len(queue) - 1 + Cardinality(new)) + 1
    BY <2>3, <2>4, <2>5, <2>8, Zenon
  <2>. HIDE DEF new
  <2>. QED
    BY <2>6, <2>7, <2>8, <2>9
<1>6. CASE FinishDepth
  <2>1. pc = "depth" /\ pc' = "done" /\ Cardinality(Service \ D) \in Nat
    BY <1>1, <1>6, Counts DEF FinishDepth
  <2>. QED
    BY <1>1, <2>1 DEF StepsLeft
<1>. QED
  BY <1>2, <1>3, <1>4, <1>5, <1>6 DEF Next

\* Every step of either pass, on every graph, uses up one of the at most
\* 3|Service| + 2 steps that are left, so both passes end
\* (depgraph.go:70-86, 110-120).
THEOREM StepsRunOut == Spec => [][StepsLeft' < StepsLeft]_vars
<1>1. Inv /\ [Next]_vars => [StepsLeft' < StepsLeft]_vars
  BY StepUsed
<1>. QED
  BY <1>1, Invariance, PTL DEF Spec
-----------------------------------------------------------------------------
(***************************************************************************)
(* And as long as a pass is not done there is a step to take: one of the   *)
(* actions has its guard true and a successor to choose.                   *)
(***************************************************************************)
CanStep ==
  \/ \E svc \in Service : pc = "component" /\ queue = <<>> /\ svc \notin Visited
  \/ pc = "component" /\ queue # <<>> /\ SetToSeqs(Neighbours(calls, Head(queue)) \ Visited) # {}
  \/ pc = "component" /\ queue = <<>> /\ Visited = Service /\ SetToSeqs(Roots(calls)) # {}
  \/ pc = "depth" /\ queue # <<>> /\ SetToSeqs(calls[Head(queue)] \ DOMAIN depth) # {}
  \/ pc = "depth" /\ queue = <<>>

LEMMA Listable ==
  ASSUME NEW S, S \subseteq Service
  PROVE  SetToSeqs(S) # {}
<1>1. IsFiniteSet(S)
  BY DepGraphAssumption, FS_Subset DEF DepGraphAssumption
<1>2. Cardinality(S) \in Nat /\ ExistsBijection(1..Cardinality(S), S)
  BY <1>1, FS_CardinalityType, FS_NatBijection
<1>3. PICK f : f \in Bijection(1..Cardinality(S), S)
  BY <1>2 DEF ExistsBijection
<1>4. f \in [1..Cardinality(S) -> S] /\ \A i, j \in 1..Cardinality(S) : i # j => f[i] # f[j]
  BY <1>3 DEF Bijection, Injection, IsInjective
<1>. QED
  BY <1>4 DEF SetToSeqs

LEMMA StepExists ==
  ASSUME Inv, pc # "done"
  PROVE  CanStep
<1>1. /\ pc \in {"component", "depth"} /\ Visited \subseteq Service
      /\ calls \in Graph /\ ToSet(queue) \subseteq Service /\ queue \in Seq(Service)
  BY GraphType DEF Inv, TypeOK, Visited
<1>2. ASSUME queue # <<>>
      PROVE  Neighbours(calls, Head(queue)) \subseteq Service /\ calls[Head(queue)] \subseteq Service
  <2>1. Head(queue) \in Service
    BY <1>1, <1>2, QueueFacts
  <2>. QED
    BY <1>1, <2>1, NeighbourProperties DEF Graph
<1>3. Roots(calls) \subseteq Service
  BY <1>1 DEF Roots, Graph
<1>. QED
  BY <1>1, <1>2, <1>3, Listable DEF CanStep

\* No search is ever stuck before it is done, whatever the graph: with
\* StepsRunOut, every one of them ends (depgraph.go:61-129).
THEOREM SearchesGoOn == Spec => [](pc # "done" => CanStep)
<1>1. Inv => (pc # "done" => CanStep)
  BY StepExists
<1>. QED
  BY <1>1, Invariance, PTL
=============================================================================
