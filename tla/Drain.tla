-------------------------------- MODULE Drain --------------------------------
(***************************************************************************)
(* The online template miner (internal/pattern/drain.go), one instance per *)
(* service, called by one goroutine: each Process call is one step.        *)
(*                                                                         *)
(* A pattern is a heap object that the code reaches twice: through the     *)
(* clusters of a tree leaf and through the map d.patterns.  Both hold      *)
(* references here as well, so that their agreement is a property and not  *)
(* a consequence of the encoding.  A pattern's ID is an fnv-1a hash of its *)
(* template, taken to be injective: the map is keyed by the template.      *)
(* LastMatched is kept as the order of the last matches.                   *)
(***************************************************************************)
EXTENDS Naturals, FiniteSets, SequencesExt

CONSTANTS
  Line,         \* preprocessed lines, as sequences of whitespace-free tokens
  Ref,          \* pattern objects
  Depth,        \* DrainConfig.Depth (1 acts as 2 does)
  SimNum, SimDen, \* DrainConfig.SimilarityThreshold = SimNum / SimDen
  MaxChildren,  \* DrainConfig.MaxChildren
  MaxPatterns   \* DrainConfig.MaxPatterns

ASSUME DrainAssumption ==
  /\ Depth \in Nat \ {0, 1}
  /\ SimNum \in Nat /\ SimDen \in Nat \ {0} /\ SimNum <= SimDen
  /\ MaxChildren \in Nat \ {0}
  /\ MaxPatterns \in Nat \ {0}
  /\ \A line \in Line : line \in Seq(ToSet(line))
  /\ IsFiniteSet(Ref) /\ Cardinality(Ref) > MaxPatterns

VARIABLES
  clusters,  \* the tree: a node is the path of keys that leads to it, and has clusters
  byID,      \* d.patterns
  tokens,    \* Pattern.Tokens of each object; <<>> when the object is free
  recent,    \* the objects in use, least recently matched first
  last       \* history: the last line and the template it was stamped with

vars == <<clusters, byID, tokens, recent, last>>

Wild == "<*>"
Placeholder == {Wild, "<IP>", "<UUID>", "<HEX>", "<NUM>", "<EMPTY>"}  \* isWildcard

Fields(line) == IF line = <<>> THEN <<"<EMPTY>">> ELSE line

Init ==
  /\ clusters = [p \in {<<>>} |-> <<>>]
  /\ byID = <<>>
  /\ tokens = [r \in Ref |-> <<>>]
  /\ recent = <<>>
  /\ last = [line |-> <<>>, template |-> <<>>]

(***************************************************************************)
(* getLeaf: the token count, then one routing key per level.               *)
(***************************************************************************)
\* The keys below the node that the first n keys of path lead to.
Children(path, n) ==
  {p[n + 1] : p \in {q \in DOMAIN clusters : Len(q) > n /\ \A i \in 1..n : q[i] = path[i]}}

\* Mutant: a full node sends every token to the wildcard child, its own
\* children included.
Route_fullNode(path, n, tok) ==
  IF tok \in Placeholder \/ Cardinality(Children(path, n)) >= MaxChildren THEN Wild ELSE tok

Route(path, n, tok) ==
  LET key == IF tok \in Placeholder THEN Wild ELSE tok
  IN  IF key \notin Children(path, n) /\ Cardinality(Children(path, n)) >= MaxChildren
      THEN Wild ELSE key

Levels(toks) == 1 + (IF Len(toks) < Depth - 2 THEN Len(toks) ELSE Depth - 2)

\* The tokens lead to the leaf: it has one key for each level.
Routes(leaf, toks) ==
  /\ Len(leaf) = Levels(toks) /\ leaf[1] = Len(toks)
  /\ \A n \in 2..Len(leaf) : leaf[n] = Route(leaf, n - 1, toks[n - 1])

\* Where they may lead: below the count each key is the token or the wildcard.
Leaves(toks) ==
  {[n \in 1..Levels(toks) |-> IF n = 1 THEN Len(toks) ELSE IF n \in wild THEN Wild ELSE toks[n - 1]]
     : wild \in SUBSET (2..Levels(toks))}

ClustersAt(path) == IF path \in DOMAIN clusters THEN clusters[path] ELSE <<>>

\* The tree after getLeaf created the nodes on the way to path.
Grown(path) == [p \in DOMAIN clusters \cup Prefixes(path) |-> ClustersAt(p)]

(***************************************************************************)
(* similarity, merge, and the first best cluster of a leaf.                *)
(***************************************************************************)
Fits(template, toks, i) == template[i] \in {Wild, toks[i]}

Similarity(template, toks) == Cardinality({i \in 1..Len(toks) : Fits(template, toks, i)})

SimilarEnough(template, toks) == Similarity(template, toks) * SimDen >= SimNum * Len(toks)

\* Mutant: a position that differs keeps the template's token.
Merge_noWild(template, toks) == template

Merge(template, toks) ==
  [i \in 1..Len(toks) |-> IF Fits(template, toks, i) THEN template[i] ELSE Wild]

\* Position i is the first of those most similar.
Best(cs, toks, i) ==
  \A j \in DOMAIN cs :
    LET si == Similarity(tokens[cs[i]], toks)
        sj == Similarity(tokens[cs[j]], toks)
    IN  sj < si \/ (sj = si /\ i <= j)

(***************************************************************************)
(* Process: the best cluster absorbs the line, or a new pattern is made.   *)
(***************************************************************************)
\* The first position of s with an element of S, and s without it.
First(s, S) == CHOOSE i \in DOMAIN s : s[i] \in S /\ \A j \in 1..i - 1 : s[j] \notin S
WithoutFirst(s, S) == IF \E i \in DOMAIN s : s[i] \in S THEN RemoveAt(s, First(s, S)) ELSE s

\* Mutant: a match leaves the object's earlier place in the order as well.
Touch_twice(r) == Append(recent, r)

Touch(r) == Append(WithoutFirst(recent, {r}), r)

\* Mutant: the entry under the old ID stays in the map after a merge.
Reindexed_keepOldID(r, merged) ==
  [t \in DOMAIN byID \cup {merged} |-> IF t = merged THEN r ELSE byID[t]]

\* d.patterns when the template of r has become merged.
Reindexed(r, merged) ==
  IF merged = tokens[r] THEN byID
  ELSE [t \in (DOMAIN byID \ {tokens[r]}) \cup {merged} |-> IF t = merged THEN r ELSE byID[t]]

Match(line, leaf) ==
  LET toks == Fields(line)
      cs == ClustersAt(leaf)
  IN  \E i \in DOMAIN cs :
        LET r == cs[i]
            merged == Merge(tokens[r], toks)
        IN  /\ Best(cs, toks, i) /\ SimilarEnough(tokens[r], toks)
            /\ clusters' = Grown(leaf)
            /\ tokens' = [tokens EXCEPT ![r] = merged]
            /\ byID' = Reindexed(r, merged)
            /\ recent' = Touch(r)
            /\ last' = [line |-> line, template |-> merged]

\* Mutant: eviction starts one pattern too late (> MaxPatterns + 1).
Evicted_late(toks) ==
  LET others == {byID[t] : t \in DOMAIN byID \ {toks}}
  IN  IF Cardinality(DOMAIN byID \cup {toks}) > MaxPatterns + 1
      THEN {recent[First(recent, others)]} ELSE {}

\* evictLRU: with too many patterns in the map, the least recently matched one
\* other than the new.
Evicted(toks) ==
  LET others == {byID[t] : t \in DOMAIN byID \ {toks}}
  IN  IF Cardinality(DOMAIN byID \cup {toks}) > MaxPatterns
      THEN {recent[First(recent, others)]} ELSE {}

\* No cluster is similar enough: a new pattern joins the leaf and the map, and
\* what is evicted leaves the map and, as the first cluster with its ID, each node.
Create(line, leaf) ==
  LET toks == Fields(line)
      r == CHOOSE c \in Ref : tokens[c] = <<>>
      template == [tokens EXCEPT ![r] = toks]
      tree == [Grown(leaf) EXCEPT ![leaf] = Append(@, r)]
      gone == {template[c] : c \in Evicted(toks)}
  IN  /\ \A c \in ToSet(ClustersAt(leaf)) : ~SimilarEnough(tokens[c], toks)
      /\ tokens' = [c \in Ref |-> IF c \in Evicted(toks) THEN <<>> ELSE template[c]]
      /\ clusters' = [p \in DOMAIN tree |-> WithoutFirst(tree[p], {c \in Ref : template[c] \in gone})]
      /\ byID' = [t \in (DOMAIN byID \cup {toks}) \ gone |-> IF t = toks THEN r ELSE byID[t]]
      /\ recent' = Append(WithoutFirst(recent, Evicted(toks)), r)
      /\ last' = [line |-> line, template |-> toks]

Next ==
  \E line \in Line : \E leaf \in Leaves(Fields(line)) :
    Routes(leaf, Fields(line)) /\ (Match(line, leaf) \/ Create(line, leaf))

Spec == Init /\ [][Next]_vars
-----------------------------------------------------------------------------
InUse == {r \in Ref : tokens[r] # <<>>}
Clustered == UNION {ToSet(clusters[p]) : p \in DOMAIN clusters}

TypeOK ==
  /\ \A p \in DOMAIN clusters : Len(p) < Depth /\ ToSet(clusters[p]) \subseteq Ref
  /\ Range(byID) \subseteq Ref
  /\ \A r \in InUse : \E line \in Line : Len(tokens[r]) = Len(Fields(line))
  /\ ToSet(recent) = InUse /\ IsInjective(recent)

\* The two ways to reach a pattern agree: the map holds exactly the clusters of
\* the tree, each under its present template, and no two patterns -- of any two
\* leaves, whatever merges re-identified them -- share a template.
IndexAgrees ==
  /\ \A t \in DOMAIN byID : tokens[byID[t]] = t
  /\ Range(byID) = Clustered
  /\ \A p, q \in DOMAIN clusters : \A i \in DOMAIN clusters[p], j \in DOMAIN clusters[q] :
       clusters[p][i] = clusters[q][j] => p = q /\ i = j

\* Memory stays bounded whatever the log lines are (PHASE2_DESIGN.md:190-192):
\* MaxPatterns bounds the map and, through it, the clusters the tree retains.
Bounded ==
  /\ Cardinality(DOMAIN byID) <= MaxPatterns
  /\ Cardinality(Clustered) <= MaxPatterns
  /\ \A p \in DOMAIN clusters \ {<<>>} : Cardinality(Children(p, Len(p))) <= MaxChildren + 1

\* A line repeated at once is stamped with the same template again, and the
\* template covers the line.
RepeatIsStable ==
  [][/\ last'.line = last.line /\ last.template # <<>> => last'.template = last.template
     /\ \A i \in 1..Len(Fields(last'.line)) : last'.template[i] \in {Wild, Fields(last'.line)[i]}]_vars

\* A leaf a line once routed to is where it always routes: children are never
\* removed, so no eviction and no full node strands the clusters of a leaf.
RoutingIsSticky ==
  [][\A line \in Line : \A leaf \in DOMAIN clusters :
       Routes(leaf, Fields(line)) => Routes(leaf, Fields(line))']_vars
=============================================================================
