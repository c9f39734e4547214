----------------------------- MODULE DrainProofs -----------------------------
(***************************************************************************)
(* Theorems about Drain for any lines, pattern objects, depth, threshold   *)
(* and limits.                                                             *)
(***************************************************************************)
EXTENDS Drain, FiniteSetTheorems, SequenceTheorems, WellFoundedInduction, TLAPS

\* The tokens there are, and the keys of a path: a count, then tokens.
Token == Placeholder \cup UNION {ToSet(line) : line \in Line}
Key == Nat \cup Token

(***************************************************************************)
(* The inductive invariant.                                                *)
(***************************************************************************)
StateType ==
  /\ clusters \in [DOMAIN clusters -> Seq(Ref)] /\ DOMAIN clusters \subseteq Seq(Key)
  /\ byID \in [DOMAIN byID -> Ref] /\ DOMAIN byID \subseteq Seq(Token) /\ IsFiniteSet(DOMAIN byID)
  /\ tokens \in [Ref -> Seq(Token)]
  /\ recent \in Seq(Ref)
  /\ last \in [line : Line \cup {<<>>}, template : Seq(Token)]

\* A pattern's template leads to the leaf that has the pattern.
Homed ==
  \A p \in DOMAIN clusters : \A r \in ToSet(clusters[p]) : tokens[r] # <<>> /\ Routes(p, tokens[r])

\* Beyond the wildcard child a node has no more children than it may.
Narrow ==
  \A p \in DOMAIN clusters : \A n \in 1..Len(p) :
    /\ IsFiniteSet(Children(p, n))
    /\ Cardinality(Children(p, n) \ {Wild}) <= MaxChildren

Covers(template, toks) == \A i \in 1..Len(toks) : Fits(template, toks, i)

\* The last line leads to the leaf of the pattern it is stamped with, and no
\* cluster before that one covers the line.
LastHome ==
  last.template # <<>> =>
    \E p \in DOMAIN clusters : \E i \in DOMAIN clusters[p] :
      /\ Routes(p, Fields(last.line))
      /\ tokens[clusters[p][i]] = last.template
      /\ Covers(last.template, Fields(last.line))
      /\ \A j \in DOMAIN clusters[p] : Covers(tokens[clusters[p][j]], Fields(last.line)) => i <= j

Inv ==
  /\ TypeOK
  /\ IndexAgrees
  /\ Bounded
  /\ StateType
  /\ Homed
  /\ InUse \subseteq Clustered
  /\ Narrow
  /\ LastHome
-----------------------------------------------------------------------------
(***************************************************************************)
(* Sequences.                                                              *)
(***************************************************************************)
LEMMA LeastNat ==
  ASSUME NEW T \in SUBSET Nat, T # {}
  PROVE  \E m \in T : \A n \in T : m <= n
<1>1. PICK m \in T : \A n \in T : <<n, m>> \notin OpToRel(<, Nat)
  BY NatLessThanWellFounded, WFMin
<1>2. \A n \in T : ~(n < m)
  BY <1>1 DEF OpToRel
<1>. QED
  BY <1>2

LEMMA FirstIn ==
  ASSUME NEW T, NEW s \in Seq(T), NEW S, \E i \in DOMAIN s : s[i] \in S
  PROVE  /\ First(s, S) \in 1..Len(s) /\ s[First(s, S)] \in S
         /\ \A j \in 1..First(s, S) - 1 : s[j] \notin S
<1>1. DOMAIN s = 1..Len(s) /\ Len(s) \in Nat
  BY LenProperties
<1>2. PICK m \in {i \in 1..Len(s) : s[i] \in S} : \A n \in {i \in 1..Len(s) : s[i] \in S} : m <= n
  <2>. DEFINE P == {i \in 1..Len(s) : s[i] \in S}
  <2>1. P \in SUBSET Nat /\ P # {}
    BY <1>1
  <2>. HIDE DEF P
  <2>2. \E m \in P : \A n \in P : m <= n
    BY <2>1, LeastNat
  <2>. QED
    BY <2>2 DEF P
<1>3. \A j \in 1..m - 1 : s[j] \notin S
  BY <1>1, <1>2
<1>. QED
  BY <1>1, <1>2, <1>3 DEF First

LEMMA Removed ==
  ASSUME NEW T, NEW s \in Seq(T), NEW i \in 1..Len(s)
  PROVE  /\ RemoveAt(s, i) \in Seq(T) /\ Len(RemoveAt(s, i)) = Len(s) - 1
         /\ \A j \in 1..Len(s) - 1 : RemoveAt(s, i)[j] = s[IF j < i THEN j ELSE j + 1]
<1>. DEFINE a == SubSeq(s, 1, i - 1)
            b == SubSeq(s, i + 1, Len(s))
<1>1. Len(s) \in Nat /\ \A j \in 1..Len(s) : s[j] \in T
  BY LenProperties, ElementOfSeq
<1>2. /\ a \in Seq(T) /\ Len(a) = i - 1
      /\ \A j \in 1..i - 1 : a[j] = s[j]
  <2>1. \A j \in 1..i - 1 : s[j] \in T
    BY <1>1
  <2>2. /\ a \in Seq(T) /\ Len(a) = IF 1 <= i - 1 THEN i - 1 - 1 + 1 ELSE 0
        /\ \A j \in 1..i - 1 - 1 + 1 : a[j] = s[1 + j - 1]
    BY <1>1, <2>1, SubSeqProperties
  <2>. QED
    BY <1>1, <2>2
<1>3. /\ b \in Seq(T) /\ Len(b) = Len(s) - i
      /\ \A j \in 1..Len(s) - i : b[j] = s[i + j]
  <2>1. \A j \in i + 1..Len(s) : s[j] \in T
    BY <1>1
  <2>2. /\ b \in Seq(T) /\ Len(b) = IF i + 1 <= Len(s) THEN Len(s) - (i + 1) + 1 ELSE 0
        /\ \A j \in 1..Len(s) - (i + 1) + 1 : b[j] = s[(i + 1) + j - 1]
    BY <1>1, <2>1, SubSeqProperties
  <2>. QED
    BY <1>1, <2>2
<1>. HIDE DEF a, b
<1>4. /\ a \o b \in Seq(T) /\ Len(a \o b) = Len(a) + Len(b)
      /\ \A j \in 1..Len(a) + Len(b) : (a \o b)[j] = IF j <= Len(a) THEN a[j] ELSE b[j - Len(a)]
  BY <1>2, <1>3, ConcatProperties
<1>5. ASSUME NEW j \in 1..Len(s) - 1 PROVE (a \o b)[j] = s[IF j < i THEN j ELSE j + 1]
  <2>1. CASE j < i
    BY <1>1, <1>2, <1>3, <1>4, <2>1
  <2>2. CASE ~(j < i)
    <3>1. j - (i - 1) \in 1..Len(s) - i /\ i + (j - (i - 1)) = j + 1
      BY <1>1, <2>2
    <3>2. b[j - (i - 1)] = s[j + 1]
      BY <1>3, <3>1
    <3>. QED
      BY <1>1, <1>2, <1>3, <1>4, <2>2, <3>2
  <2>. QED
    BY <2>1, <2>2
<1>6. Len(a) + Len(b) = Len(s) - 1
  BY <1>1, <1>2, <1>3
<1>7. RemoveAt(s, i) = a \o b
  BY DEF RemoveAt, a, b
<1>. QED
  BY <1>4, <1>5, <1>6, <1>7

\* Where at most one element is in S, no element of S is left.
LEMMA WithoutOnce ==
  ASSUME NEW T, NEW s \in Seq(T), NEW S,
         \A i, j \in DOMAIN s : s[i] \in S /\ s[j] \in S => i = j
  PROVE  /\ WithoutFirst(s, S) \in Seq(T)
         /\ ToSet(WithoutFirst(s, S)) = ToSet(s) \ S
         /\ IsInjective(s) => IsInjective(WithoutFirst(s, S))
<1>1. DOMAIN s = 1..Len(s) /\ Len(s) \in Nat
  BY LenProperties
<1>2. CASE ~\E i \in DOMAIN s : s[i] \in S
  <2>1. WithoutFirst(s, S) = s
    BY <1>2 DEF WithoutFirst
  <2>2. ToSet(s) \ S = ToSet(s)
    BY <1>2 DEF ToSet
  <2>. QED
    BY <2>1, <2>2
<1>3. CASE \E i \in DOMAIN s : s[i] \in S
  <2>. DEFINE f == First(s, S)
              t == RemoveAt(s, f)
              n == Len(s)
  <2>1. f \in 1..n /\ s[f] \in S
    BY <1>3, FirstIn
  <2>2. WithoutFirst(s, S) = t
    BY <1>3 DEF WithoutFirst
  <2>3. /\ t \in Seq(T) /\ Len(t) = n - 1
        /\ \A j \in 1..n - 1 : t[j] = s[IF j < f THEN j ELSE j + 1]
    BY <2>1, Removed
  <2>4. DOMAIN t = 1..n - 1
    BY <2>3, LenProperties
  <2>. HIDE DEF f, t, n
  <2>5. n \in Nat /\ DOMAIN s = 1..n
    BY <1>1 DEF n
  <2>6. ASSUME NEW j \in 1..n - 1
        PROVE  (IF j < f THEN j ELSE j + 1) \in 1..n /\ (IF j < f THEN j ELSE j + 1) # f
    BY <2>1, <2>5
  <2>7. ASSUME NEW x \in ToSet(t) PROVE x \in ToSet(s) \ S
    <3>1. PICK j \in 1..n - 1 : x = t[j]
      BY <2>4 DEF ToSet
    <3>2. PICK k \in 1..n : k # f /\ x = s[k]
      BY <2>3, <2>6, <3>1
    <3>. QED
      BY <2>1, <2>5, <3>2 DEF ToSet
  <2>8. ASSUME NEW x \in ToSet(s) \ S PROVE x \in ToSet(t)
    <3>1. PICK k \in 1..n : x = s[k]
      BY <2>5 DEF ToSet
    <3>2. k # f
      BY <2>1, <3>1
    <3>3. PICK j \in 1..n - 1 : k = IF j < f THEN j ELSE j + 1
      <4>1. CASE k < f
        <5>1. k \in 1..n - 1
          BY <2>1, <2>5, <4>1
        <5>. QED
          BY <4>1, <5>1
      <4>2. CASE ~(k < f)
        <5>1. k - 1 \in 1..n - 1 /\ ~(k - 1 < f) /\ k = (k - 1) + 1
          BY <2>1, <2>5, <3>2, <4>2
        <5>. QED
          BY <5>1
      <4>. QED
        BY <4>1, <4>2
    <3>4. x = t[j]
      BY <2>3, <3>1, <3>3
    <3>. QED
      BY <2>4, <3>4 DEF ToSet
  <2>9. ASSUME IsInjective(s) PROVE IsInjective(t)
    <3>. SUFFICES ASSUME NEW i \in 1..n - 1, NEW j \in 1..n - 1, t[i] = t[j] PROVE i = j
      BY <2>4 DEF IsInjective
    <3>1. (IF i < f THEN i ELSE i + 1) = (IF j < f THEN j ELSE j + 1)
      BY <2>3, <2>5, <2>6, <2>9 DEF IsInjective
    <3>. QED
      BY <2>1, <2>5, <3>1
  <2>. QED
    BY <2>2, <2>3, <2>7, <2>8, <2>9
<1>. QED
  BY <1>2, <1>3

LEMMA AppendNew ==
  ASSUME NEW T, NEW s \in Seq(T), NEW x \in T
  PROVE  /\ Append(s, x) \in Seq(T)
         /\ ToSet(Append(s, x)) = ToSet(s) \cup {x}
         /\ IsInjective(s) /\ x \notin ToSet(s) => IsInjective(Append(s, x))
         /\ DOMAIN Append(s, x) = DOMAIN s \cup {Len(s) + 1}
         /\ Append(s, x)[Len(s) + 1] = x
         /\ \A i \in DOMAIN s : Append(s, x)[i] = s[i] /\ i < Len(s) + 1
<1>. DEFINE t == Append(s, x)
            n == Len(s)
<1>1. /\ n \in Nat /\ DOMAIN s = 1..n /\ t \in Seq(T) /\ Len(t) = n + 1
      /\ \A i \in 1..n : t[i] = s[i]
      /\ t[n + 1] = x
  BY AppendProperties, LenProperties
<1>2. DOMAIN t = 1..n + 1
  BY <1>1, LenProperties
<1>. HIDE DEF t, n
<1>3. 1..n + 1 = 1..n \cup {n + 1} /\ \A i \in 1..n : i < n + 1
  BY <1>1
<1>4. ToSet(t) = ToSet(s) \cup {x}
  BY <1>1, <1>2, <1>3 DEF ToSet
<1>5. ASSUME IsInjective(s), x \notin ToSet(s) PROVE IsInjective(t)
  BY <1>1, <1>2, <1>3, <1>5 DEF IsInjective, ToSet
<1>. QED
  BY <1>1, <1>2, <1>3, <1>4, <1>5 DEF t, n

LEMMA SetOfSeq ==
  ASSUME NEW T, NEW s \in Seq(T)
  PROVE  ToSet(s) \subseteq T /\ DOMAIN s = 1..Len(s) /\ Len(s) \in Nat
BY LenProperties DEF ToSet
-----------------------------------------------------------------------------
(***************************************************************************)
(* Lines and leaves.                                                       *)
(***************************************************************************)
LEMMA WildIsToken ==
  Wild \in Token
BY DEF Token, Placeholder

LEMMA FieldsType ==
  ASSUME NEW line \in Line \cup {<<>>}
  PROVE  Fields(line) \in Seq(Token) /\ Len(Fields(line)) \in Nat \ {0} /\ Fields(line) # <<>>
<1>1. line \in Seq(Token)
  <2>1. CASE line \in Line
    <3>1. line \in Seq(ToSet(line)) /\ ToSet(line) \subseteq Token
      BY <2>1, DrainAssumption DEF DrainAssumption, Token
    <3>. QED
      BY <3>1, SeqMonotonic
  <2>2. CASE line = <<>>
    BY <2>2, EmptySeq
  <2>. QED
    BY <2>1, <2>2
<1>2. <<"<EMPTY>">> \in Seq(Token)
  <2>1. "<EMPTY>" \in Token
    BY DEF Token, Placeholder
  <2>. QED
    BY <2>1
<1>3. Len(<<"<EMPTY>">>) = 1
  OBVIOUS
<1>4. Fields(line) \in Seq(Token) /\ Len(Fields(line)) \in Nat \ {0}
  BY <1>1, <1>2, <1>3, EmptySeq DEF Fields
<1>. QED
  BY <1>4, EmptySeq

LEMMA LevelsType ==
  ASSUME NEW toks \in Seq(Token), toks # <<>>
  PROVE  /\ Levels(toks) \in Nat /\ 1 <= Levels(toks) /\ Levels(toks) < Depth
         /\ Levels(toks) <= Len(toks) + 1
<1>1. Len(toks) \in Nat /\ Depth \in Nat /\ Depth >= 2
  BY LenProperties, DrainAssumption DEF DrainAssumption
<1>. QED
  BY <1>1 DEF Levels

LEMMA LeafType ==
  ASSUME NEW toks \in Seq(Token), toks # <<>>, NEW leaf \in Leaves(toks)
  PROVE  leaf \in Seq(Key) /\ Len(leaf) = Levels(toks)
<1>1. PICK wild \in SUBSET (2..Levels(toks)) :
        leaf = [n \in 1..Levels(toks) |->
                 IF n = 1 THEN Len(toks) ELSE IF n \in wild THEN Wild ELSE toks[n - 1]]
  BY DEF Leaves
<1>2. /\ Levels(toks) \in Nat /\ Len(toks) \in Nat /\ Levels(toks) <= Len(toks) + 1
      /\ \A i \in 1..Len(toks) : toks[i] \in Token
  BY LevelsType, LenProperties, ElementOfSeq
<1>3. \A n \in 1..Levels(toks) : n # 1 => n - 1 \in 1..Len(toks)
  BY <1>2
<1>4. \A n \in 1..Levels(toks) :
        (IF n = 1 THEN Len(toks) ELSE IF n \in wild THEN Wild ELSE toks[n - 1]) \in Key
  <2>. SUFFICES ASSUME NEW n \in 1..Levels(toks)
       PROVE  (IF n = 1 THEN Len(toks) ELSE IF n \in wild THEN Wild ELSE toks[n - 1]) \in Key
    OBVIOUS
  <2>1. Len(toks) \in Key
    BY <1>2 DEF Key
  <2>2. n # 1 => toks[n - 1] \in Key
    BY <1>2, <1>3 DEF Key
  <2>3. Wild \in Key
    BY WildIsToken DEF Key
  <2>. QED
    BY <2>1, <2>2, <2>3
<1>. QED
  BY <1>1, <1>2, <1>4

\* A path in the tree is among the children of each node it passes.
LEMMA OnPath ==
  ASSUME NEW p \in DOMAIN clusters, NEW n \in Nat, n < Len(p)
  PROVE  p[n + 1] \in Children(p, n)
BY DEF Children

LEMMA SameNode ==
  ASSUME NEW p, NEW q, NEW n \in Nat, \A i \in 1..n : p[i] = q[i]
  PROVE  Children(p, n) = Children(q, n)
BY DEF Children

\* Tokens lead to one leaf only.
LEMMA RoutesToOne ==
  ASSUME NEW p \in Seq(Key), NEW q \in Seq(Key), NEW toks \in Seq(Token), toks # <<>>,
         Routes(p, toks), Routes(q, toks)
  PROVE  p = q
<1>. DEFINE D == {n \in 1..Levels(toks) : p[n] # q[n]}
<1>1. Levels(toks) \in Nat /\ Len(p) = Levels(toks) /\ Len(q) = Levels(toks) /\ p[1] = q[1]
  BY LevelsType DEF Routes
<1>2. CASE D = {}
  BY <1>1, <1>2, SeqEqual
<1>3. CASE D # {}
  <2>1. D \in SUBSET Nat
    BY <1>1
  <2>. HIDE DEF D
  <2>2. PICK n \in D : \A m \in D : n <= m
    BY <1>3, <2>1, LeastNat
  <2>. USE DEF D
  <2>3. n \in 2..Levels(toks) /\ n - 1 \in Nat
    BY <1>1, <2>2
  <2>4. \A i \in 1..n - 1 : p[i] = q[i]
    BY <1>1, <2>2, <2>3
  <2>5. Children(p, n - 1) = Children(q, n - 1)
    BY <2>3, <2>4, SameNode
  <2>6. p[n] = q[n]
    BY <1>1, <2>3, <2>5 DEF Routes, Route
  <2>. QED
    BY <2>2, <2>6
<1>. QED
  BY <1>2, <1>3

\* Where two sequences of tokens lead to one leaf, so does their merge.
LEMMA MergeRoutes ==
  ASSUME NEW p \in Seq(Key), NEW template \in Seq(Token), NEW toks \in Seq(Token),
         template # <<>>, toks # <<>>, Routes(p, template), Routes(p, toks)
  PROVE  /\ Merge(template, toks) \in Seq(Token) /\ Merge(template, toks) # <<>>
         /\ Len(Merge(template, toks)) = Len(toks) /\ Len(template) = Len(toks)
         /\ Routes(p, Merge(template, toks))
         /\ Covers(Merge(template, toks), toks)
<1>. DEFINE m == Merge(template, toks)
<1>1. Len(template) = Len(toks) /\ Len(toks) \in Nat \ {0} /\ Len(p) = Levels(toks)
  BY EmptySeq DEF Routes
<1>2. \A i \in 1..Len(toks) : template[i] \in Token /\ toks[i] \in Token
  BY <1>1, ElementOfSeq
<1>3. /\ m \in Seq(Token) /\ Len(m) = Len(toks)
      /\ \A i \in 1..Len(toks) : m[i] = IF Fits(template, toks, i) THEN template[i] ELSE Wild
  <2>1. m = [i \in 1..Len(toks) |-> IF Fits(template, toks, i) THEN template[i] ELSE Wild]
    BY DEF Merge
  <2>2. \A i \in 1..Len(toks) : (IF Fits(template, toks, i) THEN template[i] ELSE Wild) \in Token
    BY <1>2, WildIsToken
  <2>. HIDE DEF m
  <2>. QED
    BY <1>1, <2>1, <2>2
<1>4. m # <<>>
  BY <1>1, <1>3, EmptySeq
<1>. HIDE DEF m
<1>5. Levels(m) = Levels(toks)
  BY <1>3 DEF Levels
<1>6. ASSUME NEW n \in 2..Len(p) PROVE p[n] = Route(p, n - 1, m[n - 1])
  <2>1. p[n] = Route(p, n - 1, template[n - 1]) /\ p[n] = Route(p, n - 1, toks[n - 1])
    BY <1>1 DEF Routes
  <2>2. n - 1 \in 1..Len(toks)
    BY <1>1, LevelsType
  <2>3. CASE Fits(template, toks, n - 1)
    BY <1>3, <2>1, <2>2, <2>3
  <2>4. CASE ~Fits(template, toks, n - 1)
    <3>1. m[n - 1] = Wild /\ template[n - 1] # toks[n - 1]
      BY <1>3, <2>2, <2>4 DEF Fits
    <3>2. p[n] = Wild
      BY <2>1, <3>1 DEF Route
    <3>3. Route(p, n - 1, Wild) = Wild
      BY DEF Route, Placeholder
    <3>. QED
      BY <3>1, <3>2, <3>3
  <2>. QED
    BY <2>3, <2>4
<1>7. Routes(p, m)
  BY <1>1, <1>3, <1>5, <1>6 DEF Routes
<1>8. Covers(m, toks)
  BY <1>3 DEF Covers, Fits
<1>. QED
  BY <1>1, <1>3, <1>4, <1>7, <1>8 DEF m

(***************************************************************************)
(* The tree grows.                                                         *)
(***************************************************************************)
LEMMA PrefixesOf ==
  ASSUME NEW leaf \in Seq(Key)
  PROVE  /\ leaf \in Prefixes(leaf) /\ Prefixes(leaf) \subseteq Seq(Key)
         /\ \A q \in Prefixes(leaf) : Len(q) <= Len(leaf) /\ \A i \in 1..Len(q) : q[i] = leaf[i]
<1>1. Len(leaf) \in Nat /\ \A i \in 1..Len(leaf) : leaf[i] \in Key
  BY LenProperties, ElementOfSeq
<1>2. ASSUME NEW n \in 0..Len(leaf)
      PROVE  /\ SubSeq(leaf, 1, n) \in Seq(Key) /\ Len(SubSeq(leaf, 1, n)) = n
             /\ \A i \in 1..n : SubSeq(leaf, 1, n)[i] = leaf[i]
  <2>1. \A i \in 1..n : leaf[i] \in Key
    BY <1>1
  <2>2. /\ SubSeq(leaf, 1, n) \in Seq(Key)
        /\ Len(SubSeq(leaf, 1, n)) = IF 1 <= n THEN n - 1 + 1 ELSE 0
        /\ \A i \in 1..n - 1 + 1 : SubSeq(leaf, 1, n)[i] = leaf[1 + i - 1]
    BY <1>1, <2>1, SubSeqProperties
  <2>. QED
    BY <1>1, <2>2
<1>3. SubSeq(leaf, 1, Len(leaf)) = leaf /\ Len(leaf) \in 0..Len(leaf)
  BY <1>1, SubSeqFull
<1>4. Prefixes(leaf) = {SubSeq(leaf, 1, n) : n \in 0..Len(leaf)}
  BY DEF Prefixes
<1>5. leaf \in Prefixes(leaf)
  BY <1>3, <1>4
<1>6. ASSUME NEW q \in Prefixes(leaf)
      PROVE  q \in Seq(Key) /\ Len(q) <= Len(leaf) /\ \A i \in 1..Len(q) : q[i] = leaf[i]
  <2>1. PICK n \in 0..Len(leaf) : q = SubSeq(leaf, 1, n)
    BY <1>4
  <2>. QED
    BY <1>1, <1>2, <2>1
<1>. QED
  BY <1>5, <1>6

\* Below a node the leaf passes the leaf's key joins the children, no others do.
LEMMA ChildrenNext ==
  ASSUME DOMAIN clusters \subseteq Seq(Key), NEW leaf \in Seq(Key),
         DOMAIN clusters' = DOMAIN clusters \cup Prefixes(leaf), NEW p, NEW n \in Nat
  PROVE  Children(p, n)' =
           Children(p, n) \cup
             (IF n < Len(leaf) /\ \A i \in 1..n : leaf[i] = p[i] THEN {leaf[n + 1]} ELSE {})
<1>. DEFINE Ok(q) == Len(q) > n /\ \A i \in 1..n : q[i] = p[i]
<1>1. Children(p, n)' = {q[n + 1] : q \in {q \in DOMAIN clusters' : Ok(q)}}
  BY DEF Children
<1>2. Children(p, n) = {q[n + 1] : q \in {q \in DOMAIN clusters : Ok(q)}}
  BY DEF Children
<1>3. leaf \in Prefixes(leaf) /\ Len(leaf) \in Nat
  BY PrefixesOf, LenProperties
<1>4. ASSUME NEW q \in Prefixes(leaf), Ok(q) PROVE Ok(leaf) /\ q[n + 1] = leaf[n + 1]
  <2>1. Len(q) <= Len(leaf) /\ Len(q) \in Nat /\ \A i \in 1..Len(q) : q[i] = leaf[i]
    BY PrefixesOf, LenProperties
  <2>. QED
    BY <1>3, <1>4, <2>1
<1>5. Ok(leaf) <=> n < Len(leaf) /\ \A i \in 1..n : leaf[i] = p[i]
  BY <1>3
<1>. HIDE DEF Ok
<1>. QED
  BY <1>1, <1>2, <1>3, <1>4, <1>5

LEMMA NodeNarrow ==
  ASSUME Inv, NEW p, NEW n \in Nat \ {0}
  PROVE  IsFiniteSet(Children(p, n)) /\ Cardinality(Children(p, n) \ {Wild}) <= MaxChildren
<1>1. CASE Children(p, n) = {}
  <2>1. Children(p, n) \ {Wild} = {}
    BY <1>1
  <2>. QED
    BY <1>1, <2>1, FS_EmptySet, DrainAssumption DEF DrainAssumption
<1>2. CASE Children(p, n) # {}
  <2>1. PICK q \in DOMAIN clusters : Len(q) > n /\ \A i \in 1..n : q[i] = p[i]
    BY <1>2 DEF Children
  <2>2. Children(p, n) = Children(q, n)
    BY <2>1, SameNode
  <2>3. n \in 1..Len(q)
    <3>1. q \in Seq(Key)
      BY DEF Inv, StateType
    <3>. QED
      BY <2>1, <3>1, LenProperties
  <2>. QED
    BY <2>2, <2>3 DEF Inv, Narrow
<1>. QED
  BY <1>1, <1>2

\* The key a node gets is one it has, the wildcard, or one it has room for.
LEMMA KeyJoins ==
  ASSUME Inv, NEW leaf \in Seq(Key), NEW toks, Routes(leaf, toks),
         DOMAIN clusters' = DOMAIN clusters \cup Prefixes(leaf), NEW p, NEW n \in Nat \ {0}
  PROVE  \/ Children(p, n)' = Children(p, n)
         \/ Children(p, n)' = Children(p, n) \cup {Wild}
         \/ \E key : /\ Children(p, n)' = Children(p, n) \cup {key}
                     /\ key \notin Children(p, n) /\ ~(Cardinality(Children(p, n)) >= MaxChildren)
<1>1. Children(p, n)' =
        Children(p, n) \cup
          (IF n < Len(leaf) /\ \A i \in 1..n : leaf[i] = p[i] THEN {leaf[n + 1]} ELSE {})
  BY ChildrenNext DEF Inv, StateType
<1>2. CASE ~(n < Len(leaf) /\ \A i \in 1..n : leaf[i] = p[i])
  BY <1>1, <1>2
<1>3. CASE n < Len(leaf) /\ \A i \in 1..n : leaf[i] = p[i]
  <2>1. Children(leaf, n) = Children(p, n)
    BY <1>3, SameNode
  <2>2. n + 1 \in 2..Len(leaf) /\ (n + 1) - 1 = n
    BY <1>3, LenProperties
  <2>3. leaf[n + 1] = Route(leaf, n, toks[n])
    BY <2>2 DEF Routes
  <2>4. Children(p, n)' = Children(p, n) \cup {leaf[n + 1]}
    BY <1>1, <1>3
  <2>5. \/ leaf[n + 1] \in Children(p, n)
        \/ leaf[n + 1] = Wild
        \/ leaf[n + 1] \notin Children(p, n) /\ ~(Cardinality(Children(p, n)) >= MaxChildren)
    BY <2>1, <2>3 DEF Route
  <2>. QED
    BY <2>4, <2>5
<1>. QED
  BY <1>2, <1>3

LEMMA NarrowNext ==
  ASSUME Inv, NEW leaf \in Seq(Key), NEW toks, Routes(leaf, toks),
         DOMAIN clusters' = DOMAIN clusters \cup Prefixes(leaf), NEW p, NEW n \in Nat \ {0}
  PROVE  /\ IsFiniteSet(Children(p, n)') /\ Cardinality(Children(p, n)' \ {Wild}) <= MaxChildren
         /\ Cardinality(Children(p, n)') <= MaxChildren + 1
         /\ Cardinality(Children(p, n)) <= Cardinality(Children(p, n)')
<1>. DEFINE C == Children(p, n)
            D == Children(p, n)'
<1>1. IsFiniteSet(C) /\ Cardinality(C \ {Wild}) <= MaxChildren /\ MaxChildren \in Nat
  BY NodeNarrow, DrainAssumption DEF DrainAssumption
<1>2. \/ D = C
      \/ D = C \cup {Wild}
      \/ \E key : D = C \cup {key} /\ key \notin C /\ ~(Cardinality(C) >= MaxChildren)
  BY KeyJoins
<1>3. C \subseteq D
  BY <1>2
<1>. HIDE DEF C, D
<1>4. IsFiniteSet(D)
  BY <1>1, <1>2, FS_AddElement
<1>5. Cardinality(C) \in Nat /\ Cardinality(D) \in Nat /\ Cardinality(C) <= Cardinality(D)
  BY <1>1, <1>3, <1>4, FS_CardinalityType, FS_Subset
<1>6. Cardinality(D \ {Wild}) <= MaxChildren
  <2>1. CASE D = C \/ D = C \cup {Wild}
    <3>1. D \ {Wild} = C \ {Wild}
      BY <2>1
    <3>. QED
      BY <1>1, <3>1
  <2>2. CASE \E key : D = C \cup {key} /\ key \notin C /\ ~(Cardinality(C) >= MaxChildren)
    <3>1. PICK key : D = C \cup {key} /\ key \notin C /\ ~(Cardinality(C) >= MaxChildren)
      BY <2>2
    <3>2. Cardinality(D) = Cardinality(C) + 1
      BY <1>1, <3>1, FS_AddElement
    <3>3. IsFiniteSet(D \ {Wild}) /\ Cardinality(D \ {Wild}) <= Cardinality(D)
      BY <1>4, FS_Subset
    <3>4. Cardinality(D \ {Wild}) \in Nat
      BY <3>3, FS_CardinalityType
    <3>. QED
      BY <1>1, <1>5, <3>1, <3>2, <3>3, <3>4
  <2>. QED
    BY <1>2, <2>1, <2>2
<1>7. Cardinality(D) <= MaxChildren + 1
  <2>1. IsFiniteSet(D \ {Wild}) /\ Cardinality(D \ {Wild}) \in Nat
    BY <1>4, FS_Subset, FS_CardinalityType
  <2>2. Cardinality((D \ {Wild}) \cup {Wild}) = Cardinality(D \ {Wild}) + 1
    BY <2>1, FS_AddElement
  <2>3. IsFiniteSet((D \ {Wild}) \cup {Wild})
    BY <2>1, FS_AddElement
  <2>4. D \subseteq (D \ {Wild}) \cup {Wild}
    OBVIOUS
  <2>5. Cardinality(D) <= Cardinality((D \ {Wild}) \cup {Wild})
    BY <2>3, <2>4, FS_Subset
  <2>. QED
    BY <1>1, <1>5, <1>6, <2>1, <2>2, <2>5
<1>. QED
  BY <1>4, <1>5, <1>6, <1>7 DEF C, D

\* Where tokens lead to a leaf that the tree has, or that it gets, they still do.
LEMMA Sticky ==
  ASSUME Inv, NEW leaf \in Seq(Key), NEW toks, Routes(leaf, toks),
         DOMAIN clusters' = DOMAIN clusters \cup Prefixes(leaf),
         NEW p \in DOMAIN clusters \cup {leaf}, NEW t, Routes(p, t)
  PROVE  Routes(p, t)'
<1>1. p \in Seq(Key) /\ Len(p) \in Nat
  BY LenProperties DEF Inv, StateType
<1>2. ASSUME NEW n \in 2..Len(p) PROVE p[n] = Route(p, n - 1, t[n - 1])'
  <2>. DEFINE m == n - 1
              tok == t[n - 1]
              key == IF tok \in Placeholder THEN Wild ELSE tok
              C == Children(p, m)
              D == Children(p, m)'
              full(S) == Cardinality(S) >= MaxChildren
  <2>1. m \in Nat \ {0} /\ m + 1 = n /\ m < Len(p)
    BY <1>1
  <2>2. p[n] = IF key \notin C /\ full(C) THEN Wild ELSE key
    BY DEF Routes, Route
  <2>3. Route(p, n - 1, t[n - 1])' = IF key \notin D /\ full(D) THEN Wild ELSE key
    BY DEF Route
  <2>4. \/ D = C
        \/ D = C \cup {Wild}
        \/ \E k : D = C \cup {k} /\ k \notin C /\ ~full(C)
    BY <2>1, KeyJoins
  <2>5. IsFiniteSet(C) /\ IsFiniteSet(D) /\ Cardinality(C) <= Cardinality(D)
    BY <2>1, NodeNarrow, NarrowNext
  <2>6. full(C) => full(D)
    BY <2>5, FS_CardinalityType, DrainAssumption DEF DrainAssumption
  <2>7. key \notin C /\ ~full(C) => key \in D
    <3>. SUFFICES ASSUME key \notin C, ~full(C) PROVE key \in D
      OBVIOUS
    <3>1. p[n] = key
      BY <2>2
    <3>2. CASE p \in DOMAIN clusters
      BY <2>1, <3>1, <3>2, OnPath
    <3>3. CASE p = leaf
      <4>1. D = C \cup {leaf[m + 1]}
        BY <2>1, <3>3, ChildrenNext DEF Inv, StateType
      <4>. QED
        BY <2>1, <3>1, <3>3, <4>1
    <3>. QED
      BY <3>2, <3>3
  <2>. HIDE DEF C, D, full, key
  <2>8. p[n] = IF key \notin D /\ full(D) THEN Wild ELSE key
    BY <2>2, <2>4, <2>6, <2>7
  <2>. QED
    BY <2>3, <2>8
<1>. QED
  BY <1>2 DEF Routes

LEMMA Grows ==
  ASSUME Inv, NEW toks \in Seq(Token), toks # <<>>, NEW leaf \in Leaves(toks), Routes(leaf, toks),
         DOMAIN clusters' = DOMAIN clusters \cup Prefixes(leaf)
  PROVE  /\ leaf \in Seq(Key) /\ leaf \in DOMAIN clusters'
         /\ DOMAIN clusters' \subseteq Seq(Key)
         /\ \A p \in DOMAIN clusters' : Len(p) < Depth
         /\ Narrow'
         /\ \A p \in DOMAIN clusters' \ {<<>>} : Cardinality(Children(p, Len(p))') <= MaxChildren + 1
<1>1. leaf \in Seq(Key) /\ Len(leaf) < Depth /\ Len(leaf) \in Nat /\ Depth \in Nat
  BY LeafType, LevelsType, DrainAssumption DEF DrainAssumption
<1>2. leaf \in Prefixes(leaf) /\ Prefixes(leaf) \subseteq Seq(Key)
  BY <1>1, PrefixesOf
<1>3. DOMAIN clusters' \subseteq Seq(Key)
  BY <1>2 DEF Inv, StateType
<1>4. ASSUME NEW p \in DOMAIN clusters' PROVE Len(p) < Depth
  <2>1. CASE p \in DOMAIN clusters
    BY <2>1 DEF Inv, TypeOK
  <2>2. CASE p \in Prefixes(leaf)
    <3>1. Len(p) <= Len(leaf) /\ Len(p) \in Nat
      BY <1>1, <1>2, <2>2, PrefixesOf, LenProperties
    <3>. QED
      BY <1>1, <3>1
  <2>. QED
    BY <2>1, <2>2
<1>5. Narrow'
  <2>. SUFFICES ASSUME NEW p \in DOMAIN clusters', NEW n \in 1..Len(p)
       PROVE  /\ IsFiniteSet(Children(p, n)')
              /\ Cardinality(Children(p, n)' \ {Wild}) <= MaxChildren
    BY DEF Narrow
  <2>1. n \in Nat \ {0}
    BY <1>3, LenProperties
  <2>. QED
    BY <1>1, <2>1, NarrowNext
<1>6. ASSUME NEW p \in DOMAIN clusters', p # <<>>
      PROVE  Cardinality(Children(p, Len(p))') <= MaxChildren + 1
  <2>1. Len(p) \in Nat \ {0}
    BY <1>3, <1>6, EmptySeq
  <2>. QED
    BY <1>1, <2>1, NarrowNext
<1>. QED
  BY <1>1, <1>2, <1>3, <1>4, <1>5, <1>6

LEMMA GrownTree ==
  ASSUME Inv, NEW leaf
  PROVE  /\ DOMAIN Grown(leaf) = DOMAIN clusters \cup Prefixes(leaf)
         /\ \A p \in DOMAIN Grown(leaf) : Grown(leaf)[p] = ClustersAt(p) /\ ClustersAt(p) \in Seq(Ref)
         /\ \A p \in DOMAIN clusters : ClustersAt(p) = clusters[p]
         /\ \A p : p \notin DOMAIN clusters => ClustersAt(p) = <<>>
BY EmptySeq DEF Inv, StateType, Grown, ClustersAt
-----------------------------------------------------------------------------
(***************************************************************************)
(* Patterns.                                                               *)
(***************************************************************************)
LEMMA SimilarityRange ==
  ASSUME NEW template, NEW toks \in Seq(Token)
  PROVE  /\ Similarity(template, toks) \in Nat /\ Similarity(template, toks) <= Len(toks)
         /\ Similarity(template, toks) = Len(toks) <=> Covers(template, toks)
<1>. DEFINE S == {i \in 1..Len(toks) : Fits(template, toks, i)}
<1>1. Len(toks) \in Nat
  BY LenProperties
<1>2. IsFiniteSet(1..Len(toks)) /\ Cardinality(1..Len(toks)) = Len(toks)
  BY <1>1, FS_Interval
<1>3. S \in SUBSET (1..Len(toks))
  OBVIOUS
<1>4. S = 1..Len(toks) <=> Covers(template, toks)
  BY DEF Covers
<1>5. Similarity(template, toks) = Cardinality(S)
  BY DEF Similarity
<1>. HIDE DEF S
<1>6. /\ IsFiniteSet(S) /\ Cardinality(S) <= Cardinality(1..Len(toks))
      /\ Cardinality(1..Len(toks)) = Cardinality(S) => 1..Len(toks) = S
  BY <1>2, <1>3, FS_Subset
<1>7. Cardinality(S) \in Nat
  BY <1>6, FS_CardinalityType
<1>. QED
  BY <1>1, <1>2, <1>4, <1>5, <1>6, <1>7

LEMMA CoveredIsSimilar ==
  ASSUME NEW template, NEW toks \in Seq(Token), Covers(template, toks)
  PROVE  SimilarEnough(template, toks)
<1>1. Similarity(template, toks) = Len(toks) /\ Len(toks) \in Nat
  BY SimilarityRange, LenProperties
<1>2. SimNum \in Nat /\ SimDen \in Nat /\ SimNum <= SimDen
  BY DrainAssumption DEF DrainAssumption
<1>3. \A n, a, b \in Nat : a <= b => n * b >= a * n
  OBVIOUS
<1>. QED
  BY <1>1, <1>2, <1>3 DEF SimilarEnough

\* The clusters of a leaf are different objects, and no two leaves share one.
LEMMA Apart ==
  IndexAgrees => /\ \A p \in DOMAIN clusters : IsInjective(clusters[p])
                 /\ \A p, q \in DOMAIN clusters :
                      p # q => ToSet(clusters[p]) \cap ToSet(clusters[q]) = {}
BY DEF IndexAgrees, IsInjective, ToSet

\* A pattern is found in the map under its template, and in one leaf: the one
\* its template leads to.
LEMMA Found ==
  ASSUME Inv, NEW r \in Clustered
  PROVE  tokens[r] \in DOMAIN byID /\ byID[tokens[r]] = r /\ tokens[r] # <<>> /\ r \in Ref
<1>1. PICK t \in DOMAIN byID : byID[t] = r
  BY DEF Inv, IndexAgrees, Range
<1>2. tokens[r] = t
  BY <1>1 DEF Inv, IndexAgrees
<1>3. PICK p \in DOMAIN clusters : r \in ToSet(clusters[p])
  BY DEF Clustered
<1>4. tokens[r] # <<>>
  BY <1>3 DEF Inv, Homed
<1>5. r \in Ref
  BY <1>3 DEF Inv, TypeOK
<1>. QED
  BY <1>1, <1>2, <1>4, <1>5

LEMMA InLeaf ==
  ASSUME Inv, NEW toks \in DOMAIN byID, toks # <<>>, NEW leaf \in Seq(Key), Routes(leaf, toks)
  PROVE  leaf \in DOMAIN clusters /\ byID[toks] \in ToSet(clusters[leaf])
<1>. DEFINE r == byID[toks]
<1>1. r \in Clustered /\ tokens[r] = toks
  BY DEF Inv, IndexAgrees, Range
<1>2. PICK p \in DOMAIN clusters : r \in ToSet(clusters[p])
  BY <1>1 DEF Clustered
<1>3. Routes(p, toks) /\ p \in Seq(Key) /\ toks \in Seq(Token)
  BY <1>1, <1>2 DEF Inv, Homed, StateType
<1>4. p = leaf
  BY <1>3, RoutesToOne
<1>. QED
  BY <1>2, <1>4

LEMMA UsedIsClustered ==
  ASSUME Inv
  PROVE  InUse = Clustered
BY Found DEF Inv, InUse

\* The map bounds the tree.
LEMMA MapBounds ==
  (byID \in [DOMAIN byID -> Ref] /\ IsFiniteSet(DOMAIN byID) /\ Range(byID) = Clustered) =>
    IsFiniteSet(Clustered) /\ Cardinality(Clustered) <= Cardinality(DOMAIN byID)
<1>. SUFFICES ASSUME byID \in [DOMAIN byID -> Ref], IsFiniteSet(DOMAIN byID), Range(byID) = Clustered
     PROVE  IsFiniteSet(Clustered) /\ Cardinality(Clustered) <= Cardinality(DOMAIN byID)
  OBVIOUS
<1>1. byID \in Surjection(DOMAIN byID, Clustered)
  BY DEF Surjection, Range
<1>. QED
  BY <1>1, FS_Surjection

LEMMA MapBoundsNext ==
  ((byID \in [DOMAIN byID -> Ref] /\ IsFiniteSet(DOMAIN byID) /\ Range(byID) = Clustered) =>
     IsFiniteSet(Clustered) /\ Cardinality(Clustered) <= Cardinality(DOMAIN byID))'
BY MapBounds, PTL
-----------------------------------------------------------------------------
(***************************************************************************)
(* Every step preserves the invariant.                                     *)
(***************************************************************************)
\* The cluster that absorbs a line, and what the merge makes of it.
LEMMA Absorbed ==
  ASSUME Inv, NEW toks \in Seq(Token), toks # <<>>, NEW leaf \in Seq(Key), Routes(leaf, toks),
         leaf \in DOMAIN clusters, NEW i \in DOMAIN clusters[leaf], Best(clusters[leaf], toks, i)
  PROVE  LET r == clusters[leaf][i]
             merged == Merge(tokens[r], toks)
         IN  /\ r \in ToSet(clusters[leaf]) /\ r \in Clustered
             /\ merged \in Seq(Token) /\ merged # <<>> /\ Len(merged) = Len(toks)
             /\ Routes(leaf, merged) /\ Covers(merged, toks)
             /\ merged \in DOMAIN byID => merged = tokens[r]
             /\ Covers(tokens[r], toks) => merged = tokens[r]
             /\ \A j \in DOMAIN clusters[leaf] :
                  Covers(tokens[clusters[leaf][j]], toks) => Covers(tokens[r], toks) /\ i <= j
<1>. DEFINE cs == clusters[leaf]
            r == cs[i]
            T == tokens[r]
            M == Merge(T, toks)
<1>1. r \in ToSet(cs) /\ r \in Clustered
  BY DEF ToSet, Clustered
<1>2. T # <<>> /\ Routes(leaf, T) /\ T \in Seq(Token)
  BY <1>1, Found DEF Inv, Homed, StateType
<1>3. /\ M \in Seq(Token) /\ M # <<>> /\ Len(M) = Len(toks) /\ Len(T) = Len(toks)
      /\ Routes(leaf, M) /\ Covers(M, toks)
  BY <1>2, MergeRoutes
<1>4. ASSUME NEW j \in DOMAIN cs, Covers(tokens[cs[j]], toks) PROVE Covers(T, toks) /\ i <= j
  <2>1. Similarity(tokens[cs[j]], toks) = Len(toks)
    BY <1>4, SimilarityRange
  <2>2. Similarity(T, toks) \in Nat /\ Similarity(T, toks) <= Len(toks) /\ Len(toks) \in Nat
    BY SimilarityRange, LenProperties
  <2>3. \/ Similarity(tokens[cs[j]], toks) < Similarity(T, toks)
        \/ Similarity(tokens[cs[j]], toks) = Similarity(T, toks) /\ i <= j
    BY DEF Best
  <2>4. Similarity(T, toks) = Len(toks) /\ i <= j
    BY <2>1, <2>2, <2>3
  <2>. QED
    BY <2>4, SimilarityRange
<1>5. Covers(T, toks) => M = T
  <2>. SUFFICES ASSUME Covers(T, toks) PROVE M = T
    OBVIOUS
  <2>1. \A k \in 1..Len(toks) : M[k] = T[k]
    BY DEF Merge, Covers
  <2>. HIDE DEF M, T
  <2>. QED
    BY <1>2, <1>3, <2>1, SeqEqual
<1>6. M \in DOMAIN byID => M = T
  <2>. SUFFICES ASSUME M \in DOMAIN byID PROVE M = T
    OBVIOUS
  <2>1. byID[M] \in ToSet(cs) /\ tokens[byID[M]] = M
    BY <1>3, InLeaf DEF Inv, IndexAgrees
  <2>2. PICK j \in DOMAIN cs : cs[j] = byID[M]
    BY <2>1 DEF ToSet
  <2>3. Covers(tokens[cs[j]], toks)
    BY <1>3, <2>1, <2>2
  <2>. QED
    BY <1>4, <1>5, <2>3
<1>. QED
  BY <1>1, <1>3, <1>4, <1>5, <1>6

\* The map after a merge holds the same patterns, each under its template.
LEMMA ReindexedMap ==
  ASSUME Inv, NEW r \in Clustered, NEW M \in Seq(Token), M \in DOMAIN byID => M = tokens[r]
  PROVE  /\ Reindexed(r, M) \in [DOMAIN Reindexed(r, M) -> Ref]
         /\ DOMAIN Reindexed(r, M) = (DOMAIN byID \ {tokens[r]}) \cup {M}
         /\ Reindexed(r, M)[M] = r
         /\ \A t \in DOMAIN byID \ {tokens[r]} : Reindexed(r, M)[t] = byID[t] /\ byID[t] # r
         /\ Range(Reindexed(r, M)) = Range(byID)
         /\ IsFiniteSet(DOMAIN Reindexed(r, M))
         /\ Cardinality(DOMAIN Reindexed(r, M)) = Cardinality(DOMAIN byID)
<1>. DEFINE b == Reindexed(r, M)
            D == DOMAIN byID
            T == tokens[r]
<1>1. T \in D /\ byID[T] = r /\ r \in Ref
  BY Found
<1>2. byID \in [D -> Ref] /\ IsFiniteSet(D)
  BY DEF Inv, StateType
<1>3. \A t \in D \ {T} : byID[t] # r
  BY DEF Inv, IndexAgrees
<1>4. CASE M = T
  <2>1. b = byID
    BY <1>4 DEF Reindexed
  <2>2. D = (D \ {T}) \cup {M}
    BY <1>1, <1>4
  <2>. QED
    BY <1>1, <1>2, <1>3, <1>4, <2>1, <2>2
<1>5. CASE M # T
  <2>1. M \notin D
    BY <1>5
  <2>2. b = [t \in (D \ {T}) \cup {M} |-> IF t = M THEN r ELSE byID[t]]
    BY <1>5 DEF Reindexed
  <2>. HIDE DEF b, D, T
  <2>3. /\ b \in [DOMAIN b -> Ref] /\ DOMAIN b = (D \ {T}) \cup {M} /\ b[M] = r
        /\ \A t \in D \ {T} : b[t] = byID[t]
    BY <1>1, <1>2, <2>1, <2>2
  <2>4. Range(b) = Range(byID)
    <3>1. \A x \in Range(b) : x \in Range(byID)
      BY <1>1, <2>3 DEF Range, D
    <3>2. \A x \in Range(byID) : x \in Range(b)
      BY <1>1, <2>3 DEF Range, D
    <3>. QED
      BY <3>1, <3>2
  <2>5. IsFiniteSet(D \ {T}) /\ Cardinality(D \ {T}) = Cardinality(D) - 1
    BY <1>1, <1>2, FS_RemoveElement
  <2>6. /\ IsFiniteSet((D \ {T}) \cup {M})
        /\ Cardinality((D \ {T}) \cup {M}) = Cardinality(D \ {T}) + 1
    BY <2>1, <2>5, FS_AddElement
  <2>7. Cardinality(D) \in Nat
    BY <1>2, FS_CardinalityType
  <2>8. Cardinality(DOMAIN b) = Cardinality(D)
    BY <2>3, <2>5, <2>6, <2>7
  <2>. QED
    BY <1>3, <2>3, <2>4, <2>6, <2>8 DEF b, D, T
<1>. QED
  BY <1>4, <1>5

LEMMA MatchInv ==
  ASSUME Inv, NEW line \in Line, NEW leaf \in Leaves(Fields(line)), Routes(leaf, Fields(line)),
         Match(line, leaf)
  PROVE  Inv'
<1>. DEFINE toks == Fields(line)
            cs == clusters[leaf]
<1>1. toks \in Seq(Token) /\ toks # <<>>
  BY FieldsType
<1>2. leaf \in Seq(Key)
  BY <1>1, LeafType
<1>3. leaf \in DOMAIN clusters /\ ClustersAt(leaf) = cs
  <2>1. DOMAIN ClustersAt(leaf) # {}
    BY DEF Match
  <2>2. DOMAIN <<>> = {}
    OBVIOUS
  <2>. QED
    BY <2>1, <2>2, GrownTree
<1>4. PICK i \in DOMAIN cs :
        /\ Best(cs, toks, i)
        /\ clusters' = Grown(leaf)
        /\ tokens' = [tokens EXCEPT ![cs[i]] = Merge(tokens[cs[i]], toks)]
        /\ byID' = Reindexed(cs[i], Merge(tokens[cs[i]], toks))
        /\ recent' = Touch(cs[i])
        /\ last' = [line |-> line, template |-> Merge(tokens[cs[i]], toks)]
  BY <1>3 DEF Match
<1>. DEFINE r == cs[i]
            T == tokens[r]
            M == Merge(T, toks)
<1>5. /\ r \in ToSet(cs) /\ r \in Clustered
      /\ M \in Seq(Token) /\ M # <<>> /\ Len(M) = Len(toks)
      /\ Routes(leaf, M) /\ Covers(M, toks)
      /\ M \in DOMAIN byID => M = T
      /\ \A j \in DOMAIN cs : Covers(tokens[cs[j]], toks) => i <= j
  BY <1>1, <1>2, <1>3, <1>4, Absorbed
<1>6. T \in DOMAIN byID /\ T # <<>> /\ r \in Ref
  BY <1>5, Found
<1>7. /\ byID' \in [DOMAIN byID' -> Ref] /\ DOMAIN byID' = (DOMAIN byID \ {T}) \cup {M}
      /\ byID'[M] = r
      /\ \A t \in DOMAIN byID \ {T} : byID'[t] = byID[t] /\ byID[t] # r
      /\ Range(byID') = Range(byID)
      /\ IsFiniteSet(DOMAIN byID') /\ Cardinality(DOMAIN byID') = Cardinality(DOMAIN byID)
  <2>1. PICK m : m = M
    OBVIOUS
  <2>2. byID' = Reindexed(r, m)
    BY <1>4, <2>1
  <2>3. r \in Clustered /\ m \in Seq(Token) /\ (m \in DOMAIN byID => m = T)
    BY <1>5, <2>1
  <2>. HIDE DEF r, M
  <2>4. /\ Reindexed(r, m) \in [DOMAIN Reindexed(r, m) -> Ref]
        /\ DOMAIN Reindexed(r, m) = (DOMAIN byID \ {T}) \cup {m}
        /\ Reindexed(r, m)[m] = r
        /\ \A t \in DOMAIN byID \ {T} : Reindexed(r, m)[t] = byID[t] /\ byID[t] # r
        /\ Range(Reindexed(r, m)) = Range(byID)
        /\ IsFiniteSet(DOMAIN Reindexed(r, m))
        /\ Cardinality(DOMAIN Reindexed(r, m)) = Cardinality(DOMAIN byID)
    BY <2>3, ReindexedMap
  <2>. QED
    BY <2>1, <2>2, <2>4
<1>8. tokens \in [Ref -> Seq(Token)]
  BY DEF Inv, StateType
<1>9. /\ tokens' \in [Ref -> Seq(Token)] /\ tokens'[r] = M
      /\ \A s \in Ref : s # r => tokens'[s] = tokens[s]
  BY <1>4, <1>5, <1>6, <1>8
<1>10. /\ DOMAIN clusters' = DOMAIN clusters \cup Prefixes(leaf)
       /\ clusters' \in [DOMAIN clusters' -> Seq(Ref)]
       /\ \A p \in DOMAIN clusters : clusters'[p] = clusters[p]
       /\ \A p \in DOMAIN clusters' : p \notin DOMAIN clusters => clusters'[p] = <<>>
  BY <1>4, GrownTree DEF Grown
<1>. HIDE DEF r, T, M, cs
<1>11. /\ leaf \in DOMAIN clusters' /\ DOMAIN clusters' \subseteq Seq(Key)
       /\ \A p \in DOMAIN clusters' : Len(p) < Depth
       /\ Narrow'
       /\ \A p \in DOMAIN clusters' \ {<<>>} : Cardinality(Children(p, Len(p))') <= MaxChildren + 1
  BY <1>1, <1>10, Grows
<1>12. \A p \in DOMAIN clusters' : \A s \in ToSet(clusters'[p]) :
         p \in DOMAIN clusters /\ s \in ToSet(clusters[p])
  BY <1>10 DEF ToSet
<1>13. Clustered' = Clustered
  <2>1. Clustered' = UNION {ToSet(clusters'[p]) : p \in DOMAIN clusters'}
    BY DEF Clustered, ToSet
  <2>2. \A s \in Clustered' : s \in Clustered
    BY <1>12, <2>1 DEF Clustered
  <2>3. \A s \in Clustered : s \in Clustered'
    BY <1>10, <2>1 DEF Clustered
  <2>. QED
    BY <2>2, <2>3
<1>14. InUse' = InUse /\ InUse = Clustered
  <2>1. InUse' = {s \in Ref : tokens'[s] # <<>>}
    BY DEF InUse
  <2>2. r \in InUse
    BY <1>5, UsedIsClustered
  <2>. QED
    BY <1>5, <1>9, <2>1, <2>2, UsedIsClustered DEF InUse
<1>15. IndexAgrees'
  <2>1. \A t \in DOMAIN byID' : tokens'[byID'[t]] = t
    <3>. SUFFICES ASSUME NEW t \in DOMAIN byID' PROVE tokens'[byID'[t]] = t
      OBVIOUS
    <3>1. CASE t = M
      BY <1>7, <1>9, <3>1
    <3>2. CASE t \in DOMAIN byID \ {T}
      <4>1. byID[t] \in Ref /\ tokens[byID[t]] = t
        BY <3>2 DEF Inv, StateType, IndexAgrees
      <4>. QED
        BY <1>7, <1>9, <3>2, <4>1
    <3>. QED
      BY <1>7, <3>1, <3>2
  <2>2. Range(byID') = Clustered'
    BY <1>7, <1>13 DEF Inv, IndexAgrees
  <2>3. \A p, q \in DOMAIN clusters' : \A k \in DOMAIN clusters'[p], l \in DOMAIN clusters'[q] :
          clusters'[p][k] = clusters'[q][l] => p = q /\ k = l
    BY <1>10 DEF Inv, IndexAgrees
  <2>. QED
    BY <2>1, <2>2, <2>3 DEF IndexAgrees, Range
<1>16. Bounded'
  BY <1>7, <1>11, <1>13 DEF Inv, Bounded
<1>17. /\ recent' \in Seq(Ref) /\ ToSet(recent') = InUse /\ IsInjective(recent')
  <2>1. recent \in Seq(Ref) /\ ToSet(recent) = InUse /\ IsInjective(recent)
    BY DEF Inv, StateType, TypeOK
  <2>. DEFINE s == WithoutFirst(recent, {r})
  <2>2. s \in Seq(Ref) /\ ToSet(s) = ToSet(recent) \ {r} /\ IsInjective(s)
    BY <2>1, WithoutOnce DEF IsInjective
  <2>3. recent' = Append(s, r)
    BY <1>4 DEF Touch, r
  <2>. HIDE DEF s
  <2>4. InUse = ToSet(s) \cup {r} /\ r \notin ToSet(s)
    BY <1>5, <1>14, <2>1, <2>2
  <2>. QED
    BY <1>6, <2>2, <2>3, <2>4, AppendNew
<1>18. StateType'
  <2>1. DOMAIN byID' \subseteq Seq(Token)
    BY <1>5, <1>7 DEF Inv, StateType
  <2>2. last' \in [line : Line \cup {<<>>}, template : Seq(Token)]
    BY <1>4, <1>5 DEF M, T, r
  <2>. QED
    BY <1>7, <1>9, <1>10, <1>11, <1>17, <2>1, <2>2 DEF StateType
<1>19. Homed'
  <2>. SUFFICES ASSUME NEW p \in DOMAIN clusters', NEW s \in ToSet(clusters'[p])
       PROVE  tokens'[s] # <<>> /\ (Routes(p, tokens[s]))'
    BY DEF Homed, ToSet
  <2>. SUFFICES ASSUME NEW t, t = tokens'[s]
       PROVE  t # <<>> /\ Routes(p, t)'
    BY DEF Routes, Route
  <2>1. p \in DOMAIN clusters /\ s \in ToSet(clusters[p]) /\ s \in Clustered
    BY <1>12 DEF Clustered
  <2>2. CASE s = r
    <3>1. p = leaf
      BY <1>3, <1>5, <2>1, <2>2, Apart DEF Inv, cs
    <3>2. t = M
      BY <1>9, <2>2
    <3>3. t # <<>> /\ Routes(leaf, t)
      BY <1>5, <3>2
    <3>. QED
      BY <1>2, <1>10, <2>1, <3>1, <3>3, Sticky
  <2>3. CASE s # r
    <3>1. t = tokens[s]
      BY <1>9, <2>1, <2>3, Found
    <3>2. t # <<>> /\ Routes(p, t)
      BY <2>1, <3>1 DEF Inv, Homed
    <3>. QED
      BY <1>2, <1>10, <2>1, <3>2, Sticky
  <2>. QED
    BY <2>2, <2>3
<1>20. LastHome'
  <2>1. Routes(leaf, toks)'
    BY <1>2, <1>3, <1>10, Sticky
  <2>2. last'.line = line /\ last'.template = M
    BY <1>4 DEF M, T, r
  <2>3. clusters'[leaf] = cs /\ i \in DOMAIN cs /\ cs[i] = r
    BY <1>3, <1>4, <1>10 DEF cs, r
  <2>4. ASSUME NEW j \in DOMAIN cs, Covers(tokens'[cs[j]], toks) PROVE i <= j
    <3>1. CASE cs[j] = r
      <4>1. j = i
        BY <1>3, <3>1, Apart DEF Inv, IsInjective, cs, r
      <4>2. i \in Nat
        BY <1>3, <2>3, LenProperties DEF Inv, StateType, cs
      <4>. QED
        BY <4>1, <4>2
    <3>2. CASE cs[j] # r
      <4>1. cs[j] \in Ref
        BY <1>3 DEF Inv, TypeOK, ToSet, cs
      <4>. QED
        BY <1>5, <1>9, <2>4, <3>2, <4>1
    <3>. QED
      BY <3>1, <3>2
  <2>5. tokens'[clusters'[leaf][i]] = M /\ Covers(M, toks)
    BY <1>5, <1>9, <2>3
  <2>6. \A j \in DOMAIN clusters'[leaf] : Covers(tokens'[clusters'[leaf][j]], toks) => i <= j
    BY <2>3, <2>4
  <2>. QED
    BY <1>11, <2>1, <2>2, <2>3, <2>5, <2>6 DEF LastHome, Covers, Fits, Routes, Route
<1>21. TypeOK'
  <2>1. \A p \in DOMAIN clusters' : ToSet(clusters'[p]) \subseteq Ref
    BY <1>12 DEF Inv, TypeOK
  <2>2. Range(byID') \subseteq Ref
    BY <1>7 DEF Inv, TypeOK
  <2>3. \A s \in InUse : \E l \in Line : Len(tokens'[s]) = Len(Fields(l))
    BY <1>5, <1>9 DEF Inv, TypeOK, InUse
  <2>. QED
    BY <1>11, <1>14, <1>17, <2>1, <2>2, <2>3 DEF TypeOK, ToSet, Range, IsInjective
<1>. QED
  BY <1>11, <1>13, <1>14, <1>15, <1>16, <1>18, <1>19, <1>20, <1>21 DEF Inv
\* MaxPatterns leaves a free object, by the assumption on Ref.
LEMMA FreeRef ==
  ASSUME Inv
  PROVE  \E c \in Ref : tokens[c] = <<>>
<1>. SUFFICES ASSUME \A c \in Ref : tokens[c] # <<>> PROVE FALSE
  OBVIOUS
<1>1. Clustered = Ref
  BY UsedIsClustered DEF InUse
<1>2. Cardinality(Ref) <= MaxPatterns
  BY <1>1 DEF Inv, Bounded
<1>3. Cardinality(Ref) > MaxPatterns /\ MaxPatterns \in Nat /\ Cardinality(Ref) \in Nat
  BY FS_CardinalityType, DrainAssumption DEF DrainAssumption
<1>. QED
  BY <1>2, <1>3

\* A line that becomes a template was none before.
LEMMA FreshTemplate ==
  ASSUME Inv, NEW toks \in Seq(Token), toks # <<>>, NEW leaf \in Seq(Key), Routes(leaf, toks),
         \A c \in ToSet(ClustersAt(leaf)) : ~SimilarEnough(tokens[c], toks)
  PROVE  toks \notin DOMAIN byID
<1>. SUFFICES ASSUME toks \in DOMAIN byID PROVE FALSE
  OBVIOUS
<1>1. leaf \in DOMAIN clusters /\ byID[toks] \in ToSet(clusters[leaf])
  BY InLeaf
<1>2. tokens[byID[toks]] = toks
  BY DEF Inv, IndexAgrees
<1>3. Covers(toks, toks)
  BY DEF Covers, Fits
<1>4. SimilarEnough(toks, toks)
  BY <1>3, CoveredIsSimilar
<1>. QED
  BY <1>1, <1>2, <1>4, GrownTree

\* At most one pattern is evicted, and none while the map has room.
LEMMA EvictedOne ==
  ASSUME Inv, NEW toks, toks \notin DOMAIN byID
  PROVE  \/ Evicted(toks) = {} /\ Cardinality(DOMAIN byID) + 1 <= MaxPatterns
         \/ \E v \in Clustered : Evicted(toks) = {v}
<1>. DEFINE D == DOMAIN byID
            others == {byID[t] : t \in D \ {toks}}
<1>1. IsFiniteSet(D) /\ Cardinality(D) \in Nat /\ MaxPatterns \in Nat \ {0}
  BY FS_CardinalityType, DrainAssumption DEF Inv, StateType, DrainAssumption
<1>2. Cardinality(D \cup {toks}) = Cardinality(D) + 1
  BY <1>1, FS_AddElement
<1>3. CASE Cardinality(D) + 1 <= MaxPatterns
  BY <1>1, <1>2, <1>3 DEF Evicted
<1>4. CASE Cardinality(D) + 1 > MaxPatterns
  <2>1. Evicted(toks) = {recent[First(recent, others)]}
    BY <1>2, <1>4 DEF Evicted
  <2>2. D # {}
    BY <1>1, <1>4, FS_EmptySet
  <2>3. others = Clustered
    BY DEF Inv, IndexAgrees, Range
  <2>4. others # {}
    BY <2>2
  <2>5. recent \in Seq(Ref) /\ ToSet(recent) = Clustered
    BY UsedIsClustered DEF Inv, StateType, TypeOK
  <2>. HIDE DEF others
  <2>6. \E i \in DOMAIN recent : recent[i] \in others
    BY <2>3, <2>4, <2>5 DEF ToSet
  <2>7. recent[First(recent, others)] \in others
    BY <2>5, <2>6, FirstIn
  <2>. QED
    BY <2>1, <2>3, <2>7
<1>. QED
  BY <1>1, <1>3, <1>4

\* What Create does to the state, E being what it evicts.
CreateEffect(line, leaf, r, E) ==
  LET toks == Fields(line)
  IN  /\ r \in Ref /\ r \notin Clustered
      /\ toks \notin DOMAIN byID /\ \A c \in ToSet(ClustersAt(leaf)) : ~SimilarEnough(tokens[c], toks)
      /\ E \subseteq Clustered
      /\ (E = {} /\ Cardinality(DOMAIN byID) + 1 <= MaxPatterns) \/ \E v : E = {v}
      /\ tokens' \in [Ref -> Seq(Token)] /\ tokens'[r] = toks
      /\ \A c \in E : tokens'[c] = <<>>
      /\ \A c \in Ref \ (E \cup {r}) : tokens'[c] = tokens[c]
      /\ DOMAIN clusters' = DOMAIN clusters \cup Prefixes(leaf)
      /\ clusters' \in [DOMAIN clusters' -> Seq(Ref)]
      /\ \A p \in DOMAIN clusters' :
           /\ IsInjective(clusters'[p])
           /\ ToSet(clusters'[p]) =
                (ToSet(ClustersAt(p)) \cup (IF p = leaf THEN {r} ELSE {})) \ E
      /\ byID' = [t \in (DOMAIN byID \cup {toks}) \ {tokens[c] : c \in E} |->
                    IF t = toks THEN r ELSE byID[t]]
      /\ recent' \in Seq(Ref) /\ ToSet(recent') = (InUse \ E) \cup {r} /\ IsInjective(recent')
      /\ last' = [line |-> line, template |-> toks]

LEMMA Created ==
  ASSUME Inv, NEW line \in Line, NEW leaf \in Leaves(Fields(line)), Routes(leaf, Fields(line)),
         Create(line, leaf)
  PROVE  \E r, E : CreateEffect(line, leaf, r, E)
<1>. DEFINE toks == Fields(line)
<1>1. toks \in Seq(Token) /\ toks # <<>> /\ leaf \in Seq(Key) /\ leaf \in Prefixes(leaf)
  BY FieldsType, LeafType, PrefixesOf
<1>2. \A c \in ToSet(ClustersAt(leaf)) : ~SimilarEnough(tokens[c], toks)
  BY DEF Create
<1>3. toks \notin DOMAIN byID
  BY <1>1, <1>2, FreshTemplate
<1>4. PICK r : r = CHOOSE c \in Ref : tokens[c] = <<>>
  OBVIOUS
<1>5. r \in Ref /\ tokens[r] = <<>>
  BY <1>4, FreeRef
<1>6. r \notin Clustered
  BY <1>5, Found
<1>7. PICK E : E = Evicted(toks)
  OBVIOUS
<1>8. (E = {} /\ Cardinality(DOMAIN byID) + 1 <= MaxPatterns) \/ \E v \in Clustered : E = {v}
  BY <1>3, <1>7, EvictedOne
<1>9. E \subseteq Clustered /\ r \notin E /\ \A c, d \in E : c = d
  BY <1>6, <1>8
<1>10. PICK template : template = [tokens EXCEPT ![r] = toks]
  OBVIOUS
<1>11. PICK tree : tree = [Grown(leaf) EXCEPT ![leaf] = Append(@, r)]
  OBVIOUS
<1>12. PICK gone : gone = {template[c] : c \in E}
  OBVIOUS
<1>13. /\ tokens' = [c \in Ref |-> IF c \in E THEN <<>> ELSE template[c]]
       /\ clusters' = [p \in DOMAIN tree |-> WithoutFirst(tree[p], {c \in Ref : template[c] \in gone})]
       /\ byID' = [t \in (DOMAIN byID \cup {toks}) \ gone |-> IF t = toks THEN r ELSE byID[t]]
       /\ recent' = Append(WithoutFirst(recent, E), r)
       /\ last' = [line |-> line, template |-> toks]
  BY <1>4, <1>7, <1>10, <1>11, <1>12 DEF Create
<1>. HIDE DEF toks
<1>14. tokens \in [Ref -> Seq(Token)] /\ Clustered \subseteq Ref /\ <<>> \in Seq(Token)
  BY Found, EmptySeq DEF Inv, StateType
<1>15. /\ template \in [Ref -> Seq(Token)] /\ template[r] = toks
       /\ \A c \in Ref \ {r} : template[c] = tokens[c]
  BY <1>1, <1>5, <1>10, <1>14
<1>16. /\ tokens' \in [Ref -> Seq(Token)] /\ tokens'[r] = toks
       /\ \A c \in E : tokens'[c] = <<>>
       /\ \A c \in Ref \ (E \cup {r}) : tokens'[c] = tokens[c]
  BY <1>5, <1>9, <1>13, <1>14, <1>15
<1>17. gone = {tokens[c] : c \in E}
  BY <1>9, <1>12, <1>14, <1>15
<1>18. {c \in Ref : template[c] \in gone} = E
  <2>1. ASSUME NEW c \in E PROVE c \in Ref /\ template[c] \in gone
    BY <1>9, <1>12, <1>14
  <2>2. ASSUME NEW c \in Ref, template[c] \in gone PROVE c \in E
    <3>1. PICK v \in E : template[c] = tokens[v]
      BY <1>17, <2>2
    <3>2. v \in Clustered /\ tokens[v] \in DOMAIN byID /\ tokens[v] # <<>> /\ byID[tokens[v]] = v
      BY <1>9, Found
    <3>3. c # r
      BY <1>3, <1>15, <3>1, <3>2
    <3>4. tokens[c] = tokens[v]
      BY <1>15, <3>1, <3>3
    <3>5. c \in Clustered
      BY <3>2, <3>4, UsedIsClustered DEF InUse
    <3>6. byID[tokens[c]] = c
      BY <3>5, Found
    <3>. QED
      BY <3>2, <3>4, <3>6
  <2>. QED
    BY <2>1, <2>2
<1>19. /\ DOMAIN tree = DOMAIN clusters \cup Prefixes(leaf)
       /\ \A p \in DOMAIN tree : tree[p] = IF p = leaf THEN Append(ClustersAt(p), r) ELSE ClustersAt(p)
  BY <1>1, <1>11, GrownTree
<1>20. ASSUME NEW p \in DOMAIN tree
       PROVE  /\ tree[p] \in Seq(Ref) /\ IsInjective(tree[p])
              /\ ToSet(tree[p]) = ToSet(ClustersAt(p)) \cup (IF p = leaf THEN {r} ELSE {})
  <2>1. ClustersAt(p) \in Seq(Ref)
    BY <1>19, GrownTree
  <2>2. IsInjective(ClustersAt(p)) /\ ToSet(ClustersAt(p)) \subseteq Clustered
    <3>1. CASE p \in DOMAIN clusters
      BY <3>1, Apart DEF Inv, ClustersAt, Clustered
    <3>2. CASE p \notin DOMAIN clusters
      <4>1. ClustersAt(p) = <<>> /\ DOMAIN <<>> = {}
        BY <3>2 DEF ClustersAt
      <4>. QED
        BY <4>1 DEF IsInjective, ToSet
    <3>. QED
      BY <3>1, <3>2
  <2>3. r \notin ToSet(ClustersAt(p))
    BY <1>6, <2>2
  <2>4. CASE p = leaf
    <3>1. tree[p] = Append(ClustersAt(p), r)
      BY <1>19, <2>4
    <3>. QED
      BY <1>5, <2>1, <2>2, <2>3, <2>4, <3>1, AppendNew
  <2>5. CASE p # leaf
    BY <1>19, <2>1, <2>2, <2>5
  <2>. QED
    BY <2>4, <2>5
<1>21. ASSUME NEW p \in DOMAIN tree
       PROVE  /\ clusters'[p] \in Seq(Ref) /\ IsInjective(clusters'[p])
              /\ ToSet(clusters'[p]) =
                   (ToSet(ClustersAt(p)) \cup (IF p = leaf THEN {r} ELSE {})) \ E
  <2>1. clusters'[p] = WithoutFirst(tree[p], E)
    BY <1>13, <1>18
  <2>2. \A k, l \in DOMAIN tree[p] : tree[p][k] \in E /\ tree[p][l] \in E => k = l
    BY <1>9, <1>20 DEF IsInjective
  <2>3. tree[p] \in Seq(Ref) /\ IsInjective(tree[p])
    BY <1>20
  <2>4. /\ WithoutFirst(tree[p], E) \in Seq(Ref)
        /\ ToSet(WithoutFirst(tree[p], E)) = ToSet(tree[p]) \ E
        /\ IsInjective(WithoutFirst(tree[p], E))
    BY <2>2, <2>3, WithoutOnce
  <2>. QED
    BY <1>20, <2>1, <2>4
<1>22. DOMAIN clusters' = DOMAIN tree /\ clusters' \in [DOMAIN clusters' -> Seq(Ref)]
  BY <1>13, <1>21
<1>23. recent' \in Seq(Ref) /\ ToSet(recent') = (InUse \ E) \cup {r} /\ IsInjective(recent')
  <2>1. recent \in Seq(Ref) /\ ToSet(recent) = InUse /\ IsInjective(recent)
    BY DEF Inv, StateType, TypeOK
  <2>2. \A k, l \in DOMAIN recent : recent[k] \in E /\ recent[l] \in E => k = l
    BY <1>9, <2>1 DEF IsInjective
  <2>3. PICK s : s = WithoutFirst(recent, E)
    OBVIOUS
  <2>4. s \in Seq(Ref) /\ ToSet(s) = InUse \ E /\ IsInjective(s)
    BY <2>1, <2>2, <2>3, WithoutOnce
  <2>5. r \notin ToSet(s)
    BY <1>5, <2>4 DEF InUse
  <2>. QED
    BY <1>5, <1>13, <2>3, <2>4, <2>5, AppendNew
<1>24. byID' = [t \in (DOMAIN byID \cup {toks}) \ {tokens[c] : c \in E} |->
                  IF t = toks THEN r ELSE byID[t]]
  BY <1>13, <1>17
<1>25. (E = {} /\ Cardinality(DOMAIN byID) + 1 <= MaxPatterns) \/ \E v : E = {v}
  BY <1>8
<1>26. \A p \in DOMAIN clusters' :
         /\ IsInjective(clusters'[p])
         /\ ToSet(clusters'[p]) = (ToSet(ClustersAt(p)) \cup (IF p = leaf THEN {r} ELSE {})) \ E
  BY <1>21, <1>22
<1>27. DOMAIN clusters' = DOMAIN clusters \cup Prefixes(leaf)
  BY <1>19, <1>22
<1>28. CreateEffect(line, leaf, r, E)
  BY <1>2, <1>3, <1>5, <1>6, <1>9, <1>13, <1>16, <1>22, <1>23, <1>24, <1>25, <1>26, <1>27
  DEF CreateEffect, toks
<1>. QED
  BY <1>28
LEMMA CreateInv ==
  ASSUME Inv, NEW line \in Line, NEW leaf \in Leaves(Fields(line)), Routes(leaf, Fields(line)),
         NEW r, NEW E, CreateEffect(line, leaf, r, E)
  PROVE  Inv'
<1>. DEFINE toks == Fields(line)
            D == DOMAIN byID
            gone == {tokens[c] : c \in E}
<1>1. toks \in Seq(Token) /\ toks # <<>> /\ leaf \in Seq(Key)
  BY FieldsType, LeafType
<1>2. /\ r \in Ref /\ r \notin Clustered /\ toks \notin D /\ E \subseteq Clustered
      /\ (E = {} /\ Cardinality(D) + 1 <= MaxPatterns) \/ \E v : E = {v}
  BY DEF CreateEffect
<1>3. /\ tokens' \in [Ref -> Seq(Token)] /\ tokens'[r] = toks
      /\ \A c \in E : tokens'[c] = <<>>
      /\ \A c \in Ref \ (E \cup {r}) : tokens'[c] = tokens[c]
  BY DEF CreateEffect
<1>4. /\ DOMAIN clusters' = DOMAIN clusters \cup Prefixes(leaf)
      /\ clusters' \in [DOMAIN clusters' -> Seq(Ref)]
      /\ \A p \in DOMAIN clusters' :
           /\ IsInjective(clusters'[p])
           /\ ToSet(clusters'[p]) =
                (ToSet(ClustersAt(p)) \cup (IF p = leaf THEN {r} ELSE {})) \ E
  BY DEF CreateEffect
<1>5. byID' = [t \in (D \cup {toks}) \ gone |-> IF t = toks THEN r ELSE byID[t]]
  BY DEF CreateEffect
<1>6. /\ recent' \in Seq(Ref) /\ ToSet(recent') = (InUse \ E) \cup {r} /\ IsInjective(recent')
      /\ last' = [line |-> line, template |-> toks]
  BY DEF CreateEffect
<1>7. /\ \A c \in Clustered : c \in Ref /\ tokens[c] # <<>> /\ tokens[c] \in D /\ byID[tokens[c]] = c
      /\ InUse = Clustered
  BY Found, UsedIsClustered
<1>8. \A c \in E : c \in Clustered /\ c # r
  BY <1>2
<1>9. /\ gone \subseteq D /\ toks \notin gone
      /\ \A c \in Clustered : tokens[c] \in gone => c \in E
  BY <1>2, <1>7, <1>8
<1>10. \A p \in DOMAIN clusters' : \A s \in ToSet(ClustersAt(p)) :
         p \in DOMAIN clusters /\ s \in ToSet(clusters[p]) /\ s \in Clustered
  <2>. SUFFICES ASSUME NEW p, NEW s \in ToSet(ClustersAt(p))
       PROVE  p \in DOMAIN clusters /\ s \in ToSet(clusters[p]) /\ s \in Clustered
    OBVIOUS
  <2>1. p \in DOMAIN clusters
    <3>1. DOMAIN <<>> = {}
      OBVIOUS
    <3>. QED
      BY <3>1, GrownTree DEF ToSet
  <2>. QED
    BY <2>1, GrownTree DEF Clustered
<1>11. /\ leaf \in DOMAIN clusters' /\ DOMAIN clusters' \subseteq Seq(Key)
       /\ \A p \in DOMAIN clusters' : Len(p) < Depth
       /\ Narrow'
       /\ \A p \in DOMAIN clusters' \ {<<>>} : Cardinality(Children(p, Len(p))') <= MaxChildren + 1
  BY <1>1, <1>4, Grows
\* A cluster of the new tree is the new pattern, or was there and stays.
<1>12. ASSUME NEW p \in DOMAIN clusters', NEW s \in ToSet(clusters'[p])
       PROVE  \/ s = r /\ p = leaf
              \/ /\ p \in DOMAIN clusters /\ s \in ToSet(clusters[p]) /\ s \in Clustered
                 /\ s \in Ref \ (E \cup {r})
  <2>1. s \in ToSet(ClustersAt(p)) \cup (IF p = leaf THEN {r} ELSE {}) /\ s \notin E
    BY <1>4
  <2>2. CASE s \in ToSet(ClustersAt(p))
    BY <1>2, <1>7, <1>10, <2>1, <2>2
  <2>3. CASE s \notin ToSet(ClustersAt(p))
    BY <2>1, <2>3
  <2>. QED
    BY <2>2, <2>3
<1>13. Clustered' = (Clustered \ E) \cup {r}
  <2>1. Clustered' = UNION {ToSet(clusters'[p]) : p \in DOMAIN clusters'}
    BY DEF Clustered, ToSet
  <2>2. ASSUME NEW s \in Clustered' PROVE s \in (Clustered \ E) \cup {r}
    BY <1>12, <2>1
  <2>3. r \in Clustered'
    <3>1. r \in ToSet(clusters'[leaf])
      BY <1>4, <1>8, <1>11
    <3>. QED
      BY <1>11, <2>1, <3>1
  <2>4. ASSUME NEW s \in Clustered \ E PROVE s \in Clustered'
    <3>1. PICK p \in DOMAIN clusters : s \in ToSet(clusters[p])
      BY <2>4 DEF Clustered
    <3>2. p \in DOMAIN clusters' /\ ClustersAt(p) = clusters[p]
      BY <1>4 DEF ClustersAt
    <3>3. s \in ToSet(clusters'[p])
      BY <1>4, <2>4, <3>1, <3>2
    <3>. QED
      BY <2>1, <3>2, <3>3
  <2>. QED
    BY <2>2, <2>3, <2>4
<1>14. InUse' = Clustered'
  <2>1. InUse' = {s \in Ref : tokens'[s] # <<>>}
    BY DEF InUse
  <2>2. ASSUME NEW s \in Ref PROVE tokens'[s] # <<>> <=> s \in (Clustered \ E) \cup {r}
    <3>1. CASE s \in E
      BY <1>3, <1>8, <3>1
    <3>2. CASE s = r
      BY <1>1, <1>3, <3>2
    <3>3. CASE s \in Ref \ (E \cup {r})
      BY <1>3, <1>7, <3>3 DEF InUse
    <3>. QED
      BY <3>1, <3>2, <3>3
  <2>. QED
    BY <1>2, <1>7, <1>13, <2>1, <2>2
<1>15. /\ DOMAIN byID' = (D \cup {toks}) \ gone /\ byID'[toks] = r
       /\ \A t \in D \ gone : byID'[t] = byID[t] /\ byID[t] \in Clustered \ E /\ tokens[byID[t]] = t
       /\ toks \in DOMAIN byID'
  <2>1. DOMAIN byID' = (D \cup {toks}) \ gone /\ byID'[toks] = r /\ toks \in DOMAIN byID'
    BY <1>5, <1>9
  <2>2. ASSUME NEW t \in D \ gone
        PROVE  byID'[t] = byID[t] /\ byID[t] \in Clustered \ E /\ tokens[byID[t]] = t
    <3>1. byID'[t] = byID[t]
      BY <1>2, <1>5
    <3>2. byID[t] \in Clustered /\ tokens[byID[t]] = t
      BY DEF Inv, IndexAgrees, Range
    <3>. QED
      BY <3>1, <3>2
  <2>. QED
    BY <2>1, <2>2
<1>. HIDE DEF gone
<1>16. Range(byID') = Clustered'
  <2>1. Range(byID') = {byID'[t] : t \in DOMAIN byID'}
    BY DEF Range
  <2>2. ASSUME NEW t \in DOMAIN byID' PROVE byID'[t] \in (Clustered \ E) \cup {r}
    BY <1>15
  <2>3. ASSUME NEW s \in (Clustered \ E) \cup {r} PROVE \E t \in DOMAIN byID' : byID'[t] = s
    <3>1. CASE s = r
      BY <1>15, <3>1
    <3>2. CASE s \in Clustered \ E
      <4>1. tokens[s] \in D \ gone /\ byID[tokens[s]] = s
        BY <1>7, <1>9, <3>2
      <4>. QED
        BY <1>15, <4>1
    <3>. QED
      BY <3>1, <3>2
  <2>. QED
    BY <1>13, <2>1, <2>2, <2>3
<1>17. byID' \in [DOMAIN byID' -> Ref] /\ DOMAIN byID' \subseteq Seq(Token)
  <2>1. \A t \in DOMAIN byID' : byID'[t] \in Ref
    BY <1>2, <1>7, <1>15
  <2>2. byID' \in [DOMAIN byID' -> Ref]
    BY <1>5, <2>1
  <2>3. D \subseteq Seq(Token)
    BY DEF Inv, StateType
  <2>. QED
    BY <1>1, <1>15, <2>2, <2>3
<1>18. IsFiniteSet(DOMAIN byID') /\ Cardinality(DOMAIN byID') <= MaxPatterns
  <2>1. IsFiniteSet(D) /\ Cardinality(D) <= MaxPatterns /\ Cardinality(D) \in Nat
    BY FS_CardinalityType DEF Inv, StateType, Bounded
  <2>2. CASE E = {} /\ Cardinality(D) + 1 <= MaxPatterns
    <3>1. DOMAIN byID' = D \cup {toks}
      BY <1>15, <2>2 DEF gone
    <3>2. IsFiniteSet(D \cup {toks}) /\ Cardinality(D \cup {toks}) = Cardinality(D) + 1
      BY <1>2, <2>1, FS_AddElement
    <3>. QED
      BY <2>2, <3>1, <3>2
  <2>3. CASE \E v : E = {v}
    <3>1. PICK v : E = {v}
      BY <2>3
    <3>2. gone = {tokens[v]} /\ tokens[v] \in D
      BY <1>7, <1>8, <3>1 DEF gone
    <3>3. DOMAIN byID' = (D \ {tokens[v]}) \cup {toks}
      BY <1>2, <1>15, <3>2
    <3>4. IsFiniteSet(D \ {tokens[v]}) /\ Cardinality(D \ {tokens[v]}) = Cardinality(D) - 1
      BY <2>1, <3>2, FS_RemoveElement
    <3>5. /\ IsFiniteSet((D \ {tokens[v]}) \cup {toks})
          /\ Cardinality((D \ {tokens[v]}) \cup {toks}) = Cardinality(D \ {tokens[v]}) + 1
      BY <1>2, <3>4, FS_AddElement
    <3>. QED
      BY <2>1, <3>3, <3>4, <3>5
  <2>. QED
    BY <1>2, <2>2, <2>3
<1>19. IndexAgrees'
  <2>1. \A t \in DOMAIN byID' : tokens'[byID'[t]] = t
    <3>. SUFFICES ASSUME NEW t \in DOMAIN byID' PROVE tokens'[byID'[t]] = t
      OBVIOUS
    <3>1. CASE t = toks
      BY <1>3, <1>15, <3>1
    <3>2. CASE t \in D \ gone
      <4>1. byID[t] \in Ref \ (E \cup {r})
        BY <1>2, <1>7, <1>15, <3>2
      <4>. QED
        BY <1>3, <1>15, <3>2, <4>1
    <3>. QED
      BY <1>15, <3>1, <3>2
  <2>2. ASSUME NEW p \in DOMAIN clusters', NEW q \in DOMAIN clusters',
               NEW k \in DOMAIN clusters'[p], NEW l \in DOMAIN clusters'[q],
               clusters'[p][k] = clusters'[q][l]
        PROVE  p = q /\ k = l
    <3>1. clusters'[p][k] \in ToSet(clusters'[p]) /\ clusters'[p][k] \in ToSet(clusters'[q])
      BY <2>2 DEF ToSet
    <3>2. p = q
      <4>1. CASE clusters'[p][k] = r
        BY <1>12, <3>1, <4>1
      <4>2. CASE clusters'[p][k] # r
        <5>1. /\ p \in DOMAIN clusters /\ clusters'[p][k] \in ToSet(clusters[p])
              /\ q \in DOMAIN clusters /\ clusters'[p][k] \in ToSet(clusters[q])
          BY <1>12, <3>1, <4>2
        <5>. QED
          BY <5>1, Apart DEF Inv
      <4>. QED
        BY <4>1, <4>2
    <3>3. IsInjective(clusters'[p])
      BY <1>4
    <3>. QED
      BY <2>2, <3>2, <3>3 DEF IsInjective
  <2>. QED
    BY <1>16, <2>1, <2>2 DEF IndexAgrees, Range
<1>20. Bounded'
  <2>1. Cardinality(Clustered') <= Cardinality(DOMAIN byID') /\ IsFiniteSet(Clustered')
    BY <1>16, <1>17, <1>18, MapBoundsNext DEF Range
  <2>2. Cardinality(Clustered') \in Nat /\ Cardinality(DOMAIN byID') \in Nat /\ MaxPatterns \in Nat
    BY <1>18, <2>1, FS_CardinalityType, DrainAssumption DEF DrainAssumption
  <2>3. Cardinality(Clustered') <= MaxPatterns
    BY <1>18, <2>1, <2>2
  <2>. QED
    BY <1>11, <1>18, <2>3 DEF Bounded
<1>21. StateType'
  <2>1. last' \in [line : Line \cup {<<>>}, template : Seq(Token)]
    BY <1>1, <1>6
  <2>. QED
    BY <1>3, <1>4, <1>6, <1>11, <1>17, <1>18, <2>1 DEF StateType
<1>22. Homed'
  <2>. SUFFICES ASSUME NEW p \in DOMAIN clusters', NEW s \in ToSet(clusters'[p])
       PROVE  tokens'[s] # <<>> /\ (Routes(p, tokens[s]))'
    BY DEF Homed, ToSet
  <2>. SUFFICES ASSUME NEW t, t = tokens'[s]
       PROVE  t # <<>> /\ Routes(p, t)'
    BY DEF Routes, Route
  <2>1. CASE s = r /\ p = leaf
    <3>1. t = toks
      BY <1>3, <2>1
    <3>2. t # <<>> /\ Routes(leaf, t)
      BY <1>1, <3>1
    <3>. QED
      BY <1>1, <1>4, <2>1, <3>2, Sticky
  <2>2. CASE p \in DOMAIN clusters /\ s \in ToSet(clusters[p]) /\ s \in Ref \ (E \cup {r})
    <3>1. t = tokens[s]
      BY <1>3, <2>2
    <3>2. t # <<>> /\ Routes(p, t)
      BY <2>2, <3>1 DEF Inv, Homed
    <3>. QED
      BY <1>1, <1>4, <2>2, <3>2, Sticky
  <2>. QED
    BY <1>12, <2>1, <2>2
<1>23. LastHome'
  <2>1. Routes(leaf, toks)'
    BY <1>1, <1>4, Sticky
  <2>2. last'.line = line /\ last'.template = toks
    BY <1>6
  <2>3. PICK i \in DOMAIN clusters'[leaf] : clusters'[leaf][i] = r
    <3>1. ToSet(clusters'[leaf]) = (ToSet(ClustersAt(leaf)) \cup {r}) \ E
      BY <1>4, <1>11
    <3>2. r \in ToSet(clusters'[leaf])
      BY <1>8, <3>1
    <3>. QED
      BY <3>2 DEF ToSet
  <2>4. ASSUME NEW j \in DOMAIN clusters'[leaf], Covers(tokens'[clusters'[leaf][j]], toks)
        PROVE  i <= j
    <3>1. clusters'[leaf][j] = r
      <4>. SUFFICES ASSUME NEW s, s = clusters'[leaf][j], s # r PROVE FALSE
        OBVIOUS
      <4>1. s \in ToSet(clusters'[leaf])
        BY DEF ToSet
      <4>2. s \in ToSet(ClustersAt(leaf)) /\ s \in Ref \ (E \cup {r})
        BY <1>4, <1>11, <1>12, <4>1
      <4>3. Covers(tokens[s], toks)
        BY <1>3, <2>4, <4>2
      <4>. QED
        BY <1>1, <4>2, <4>3, CoveredIsSimilar DEF CreateEffect
    <3>2. IsInjective(clusters'[leaf])
      BY <1>4, <1>11
    <3>3. clusters'[leaf][j] = clusters'[leaf][i]
      BY <2>3, <3>1
    <3>4. j = i
      BY <3>2, <3>3 DEF IsInjective
    <3>5. i \in Nat
      BY <1>4, <1>11, <2>3, SetOfSeq
    <3>. QED
      BY <3>4, <3>5
  <2>5. tokens'[clusters'[leaf][i]] = toks /\ Covers(toks, toks)
    BY <1>3, <2>3 DEF Covers, Fits
  <2>. QED
    BY <1>11, <2>1, <2>2, <2>3, <2>4, <2>5 DEF LastHome, Covers, Fits, Routes, Route
<1>24. TypeOK'
  <2>1. \A p \in DOMAIN clusters' : ToSet(clusters'[p]) \subseteq Ref
    BY <1>2, <1>12
  <2>2. Range(byID') \subseteq Ref
    BY <1>17 DEF Range
  <2>3. \A s \in InUse' : \E l \in Line : Len(tokens'[s]) = Len(Fields(l))
    <3>. SUFFICES ASSUME NEW s \in InUse' PROVE \E l \in Line : Len(tokens'[s]) = Len(Fields(l))
      OBVIOUS
    <3>1. CASE s = r
      BY <1>3, <3>1
    <3>2. CASE s # r
      <4>1. s \in InUse /\ s \in Ref \ (E \cup {r})
        BY <1>7, <1>13, <1>14, <3>2
      <4>. QED
        BY <1>3, <4>1 DEF Inv, TypeOK
    <3>. QED
      BY <3>1, <3>2
  <2>4. ToSet(recent') = InUse'
    BY <1>6, <1>7, <1>13, <1>14
  <2>. QED
    BY <1>6, <1>11, <2>1, <2>2, <2>3, <2>4 DEF TypeOK, ToSet, Range, IsInjective
<1>25. (InUse \subseteq Clustered)'
  BY <1>14
<1>. QED
  BY <1>11, <1>19, <1>20, <1>21, <1>22, <1>23, <1>24, <1>25 DEF Inv
LEMMA InitInv ==
  ASSUME Init
  PROVE  Inv
<1>1. /\ DOMAIN clusters = {<<>>} /\ clusters[<<>>] = <<>> /\ clusters = [p \in {<<>>} |-> <<>>]
      /\ byID = <<>> /\ DOMAIN <<>> = {} /\ Len(<<>>) = 0 /\ recent = <<>>
      /\ tokens = [r \in Ref |-> <<>>]
      /\ last = [line |-> <<>>, template |-> <<>>]
  BY DEF Init
<1>2. MaxPatterns \in Nat /\ Depth \in Nat \ {0, 1} /\ MaxChildren \in Nat
  BY DrainAssumption DEF DrainAssumption
<1>3. \A T : <<>> \in Seq(T) /\ IsInjective(<<>>) /\ ToSet(<<>>) = {} /\ Range(<<>>) = {}
  BY EmptySeq DEF IsInjective, ToSet, Range
<1>4. Clustered = {} /\ InUse = {}
  BY <1>1, <1>3 DEF Clustered, InUse
<1>5. \A n : Children(<<>>, n) = {} \/ n < 0
  BY <1>1 DEF Children
<1>6. IsFiniteSet({}) /\ Cardinality({}) = 0
  BY FS_EmptySet
<1>7. TypeOK
  BY <1>1, <1>2, <1>3, <1>4 DEF TypeOK
<1>8. IndexAgrees
  BY <1>1, <1>3, <1>4 DEF IndexAgrees
<1>9. Bounded
  BY <1>1, <1>2, <1>4, <1>6 DEF Bounded
<1>10. StateType
  <2>1. byID \in [DOMAIN byID -> Ref]
    BY <1>1
  <2>2. clusters \in [DOMAIN clusters -> Seq(Ref)] /\ DOMAIN clusters \subseteq Seq(Key)
    BY <1>1, <1>3
  <2>3. tokens \in [Ref -> Seq(Token)] /\ recent \in Seq(Ref)
    BY <1>1, <1>3
  <2>4. last \in [line : Line \cup {<<>>}, template : Seq(Token)]
    BY <1>1, <1>3
  <2>. QED
    BY <1>1, <1>6, <2>1, <2>2, <2>3, <2>4 DEF StateType
<1>11. Homed
  BY <1>1, <1>3 DEF Homed
<1>12. Narrow
  BY <1>1 DEF Narrow
<1>13. LastHome
  BY <1>1 DEF LastHome
<1>. QED
  BY <1>4, <1>7, <1>8, <1>9, <1>10, <1>11, <1>12, <1>13 DEF Inv

LEMMA StutterInv ==
  ASSUME Inv, UNCHANGED vars
  PROVE  Inv'
<1>. USE DEF vars
<1>1. TypeOK'
  BY DEF Inv, TypeOK, InUse
<1>2. IndexAgrees' /\ (InUse \subseteq Clustered)'
  BY DEF Inv, IndexAgrees, InUse, Clustered
<1>3. Bounded'
  BY DEF Inv, Bounded, Clustered, Children
<1>4. StateType'
  BY DEF Inv, StateType
<1>5. Homed'
  <2>. SUFFICES ASSUME NEW p \in DOMAIN clusters, NEW r \in ToSet(clusters[p]), NEW t, t = tokens[r]
       PROVE  t # <<>> /\ Routes(p, t)'
    BY DEF Homed, Routes, Route
  <2>1. t # <<>> /\ Routes(p, t)
    BY DEF Inv, Homed
  <2>. QED
    BY <2>1 DEF Routes, Route, Children
<1>6. Narrow'
  BY DEF Inv, Narrow, Children
<1>7. LastHome'
  <2>. SUFFICES ASSUME NEW l, l = last, l.template # <<>>
       PROVE  \E p \in DOMAIN clusters : \E i \in DOMAIN clusters[p] :
                /\ Routes(p, Fields(l.line))'
                /\ tokens[clusters[p][i]] = l.template
                /\ Covers(l.template, Fields(l.line))
                /\ \A j \in DOMAIN clusters[p] :
                     Covers(tokens[clusters[p][j]], Fields(l.line)) => i <= j
    BY DEF LastHome, Covers, Fits, Routes, Route
  <2>1. \A p, t : Routes(p, t)' <=> Routes(p, t)
    BY DEF Routes, Route, Children
  <2>. QED
    BY <2>1 DEF Inv, LastHome
<1>. QED
  BY <1>1, <1>2, <1>3, <1>4, <1>5, <1>6, <1>7 DEF Inv

LEMMA InvStep ==
  ASSUME Inv, [Next]_vars
  PROVE  Inv'
<1>1. ASSUME NEW line \in Line, NEW leaf \in Leaves(Fields(line)), Routes(leaf, Fields(line)),
             Match(line, leaf) \/ Create(line, leaf)
      PROVE  Inv'
  <2>1. CASE Match(line, leaf)
    BY <1>1, <2>1, MatchInv
  <2>2. CASE Create(line, leaf)
    BY <1>1, <2>2, Created, CreateInv
  <2>. QED
    BY <1>1, <2>1, <2>2
<1>. QED
  BY <1>1, StutterInv DEF Next

\* The inductive invariant holds in every state.
THEOREM Invariance == Spec => []Inv
<1>1. Init => Inv
  BY InitInv
<1>2. Inv /\ [Next]_vars => Inv'
  BY InvStep
<1>. QED
  BY <1>1, <1>2, PTL DEF Spec

\* Every object in use is in the order of the last matches, once, and has as
\* many tokens as some line; paths are shorter than Depth.
THEOREM TypeCorrect == Spec => []TypeOK
<1>1. Inv => TypeOK
  BY DEF Inv
<1>. QED
  BY <1>1, Invariance, PTL

\* d.patterns and the tree hold the same patterns, each under its present
\* template, whatever lines were merged, created or evicted before.
THEOREM MapAndTreeAgree == Spec => []IndexAgrees
<1>1. Inv => IndexAgrees
  BY DEF Inv
<1>. QED
  BY <1>1, Invariance, PTL

\* MaxPatterns bounds the map and the clusters, and MaxChildren, plus the
\* wildcard, the children of a node below the first level.
THEOREM MemoryBounded == Spec => []Bounded
<1>1. Inv => Bounded
  BY DEF Inv
<1>. QED
  BY <1>1, Invariance, PTL
-----------------------------------------------------------------------------
(***************************************************************************)
(* What no step may do.                                                    *)
(***************************************************************************)
LEMMA TreeOfStep ==
  ASSUME Inv, NEW line \in Line, NEW leaf \in Leaves(Fields(line)), Routes(leaf, Fields(line)),
         Match(line, leaf) \/ Create(line, leaf)
  PROVE  leaf \in Seq(Key) /\ DOMAIN clusters' = DOMAIN clusters \cup Prefixes(leaf)
<1>1. leaf \in Seq(Key)
  BY FieldsType, LeafType
<1>2. CASE Match(line, leaf)
  <2>1. clusters' = Grown(leaf)
    BY <1>2 DEF Match
  <2>. QED
    BY <1>1, <2>1, GrownTree
<1>3. CASE Create(line, leaf)
  <2>1. \E r, E : CreateEffect(line, leaf, r, E)
    BY <1>3, Created
  <2>. QED
    BY <1>1, <2>1 DEF CreateEffect
<1>. QED
  BY <1>2, <1>3

Sticks ==
  \A line \in Line : \A leaf \in DOMAIN clusters :
    Routes(leaf, Fields(line)) => Routes(leaf, Fields(line))'

LEMMA StepSticks ==
  ASSUME Inv, Next
  PROVE  Sticks
<1>. SUFFICES ASSUME NEW line \in Line, NEW leaf \in DOMAIN clusters, Routes(leaf, Fields(line))
     PROVE  Routes(leaf, Fields(line))'
  BY DEF Sticks
<1>1. PICK l \in Line : \E lf \in Leaves(Fields(l)) :
        Routes(lf, Fields(l)) /\ (Match(l, lf) \/ Create(l, lf))
  BY DEF Next
<1>2. PICK lf \in Leaves(Fields(l)) : Routes(lf, Fields(l)) /\ (Match(l, lf) \/ Create(l, lf))
  BY <1>1
<1>3. lf \in Seq(Key) /\ DOMAIN clusters' = DOMAIN clusters \cup Prefixes(lf)
  BY <1>2, TreeOfStep
<1>. QED
  BY <1>2, <1>3, Sticky

\* Where a line once led it leads for ever: no step moves it to another leaf.
THEOREM LinesKeepTheirLeaf == Spec => RoutingIsSticky
<1>1. Inv /\ [Next]_vars => [Sticks]_vars
  BY StepSticks
<1>2. RoutingIsSticky <=> [][Sticks]_vars
  BY DEF RoutingIsSticky, Sticks
<1>. QED
  BY <1>1, <1>2, Invariance, PTL DEF Spec

Repeats ==
  /\ last'.line = last.line /\ last.template # <<>> => last'.template = last.template
  /\ \A i \in 1..Len(Fields(last'.line)) : last'.template[i] \in {Wild, Fields(last'.line)[i]}

LEMMA StepRepeats ==
  ASSUME Inv, NEW line \in Line, NEW leaf \in Leaves(Fields(line)), Routes(leaf, Fields(line)),
         Match(line, leaf) \/ Create(line, leaf)
  PROVE  Repeats
<1>. DEFINE toks == Fields(line)
            cs == clusters[leaf]
<1>1. toks \in Seq(Token) /\ toks # <<>> /\ leaf \in Seq(Key)
  BY FieldsType, LeafType
\* The pattern of the last line, when that was the same line, is in the leaf.
<1>2. ASSUME last.line = line, last.template # <<>>
      PROVE  /\ leaf \in DOMAIN clusters
             /\ \E j \in DOMAIN cs :
                  /\ tokens[cs[j]] = last.template /\ Covers(tokens[cs[j]], toks)
                  /\ \A k \in DOMAIN cs : Covers(tokens[cs[k]], toks) => j <= k
  <2>1. PICK p \in DOMAIN clusters : \E j \in DOMAIN clusters[p] :
          /\ Routes(p, toks)
          /\ tokens[clusters[p][j]] = last.template
          /\ Covers(last.template, toks)
          /\ \A k \in DOMAIN clusters[p] : Covers(tokens[clusters[p][k]], toks) => j <= k
    BY <1>2 DEF Inv, LastHome
  <2>2. p \in Seq(Key)
    BY DEF Inv, StateType
  <2>3. p = leaf
    BY <1>1, <2>1, <2>2, RoutesToOne
  <2>. QED
    BY <2>1, <2>3
<1>3. CASE Match(line, leaf)
  <2>1. leaf \in DOMAIN clusters /\ ClustersAt(leaf) = cs
    <3>1. DOMAIN ClustersAt(leaf) # {} /\ DOMAIN <<>> = {}
      BY <1>3 DEF Match
    <3>. QED
      BY <3>1, GrownTree
  <2>2. PICK i \in DOMAIN cs :
          /\ Best(cs, toks, i)
          /\ last' = [line |-> line, template |-> Merge(tokens[cs[i]], toks)]
    BY <1>3, <2>1 DEF Match
  <2>3. PICK M : M = Merge(tokens[cs[i]], toks)
    OBVIOUS
  <2>4. /\ Covers(M, toks)
        /\ Covers(tokens[cs[i]], toks) => M = tokens[cs[i]]
        /\ \A j \in DOMAIN cs : Covers(tokens[cs[j]], toks) => Covers(tokens[cs[i]], toks) /\ i <= j
    BY <1>1, <2>1, <2>2, <2>3, Absorbed
  <2>5. last'.line = line /\ last'.template = M
    BY <2>2, <2>3
  <2>6. ASSUME last.line = line, last.template # <<>> PROVE M = last.template
    <3>1. PICK j \in DOMAIN cs :
            /\ tokens[cs[j]] = last.template /\ Covers(tokens[cs[j]], toks)
            /\ \A k \in DOMAIN cs : Covers(tokens[cs[k]], toks) => j <= k
      BY <1>2, <2>6
    <3>2. i \in Nat /\ j \in Nat
      BY <2>1, SetOfSeq DEF Inv, StateType
    <3>3. Covers(tokens[cs[i]], toks) /\ i <= j
      BY <2>4, <3>1
    <3>4. i = j
      BY <3>1, <3>2, <3>3
    <3>. QED
      BY <2>4, <3>1, <3>3, <3>4
  <2>. QED
    BY <2>4, <2>5, <2>6 DEF Repeats, Covers, Fits
<1>4. CASE Create(line, leaf)
  <2>1. /\ last'.line = line /\ last'.template = toks
        /\ \A c \in ToSet(ClustersAt(leaf)) : ~SimilarEnough(tokens[c], toks)
    BY <1>4 DEF Create
  <2>2. ~(last.line = line /\ last.template # <<>>)
    <3>. SUFFICES ASSUME last.line = line, last.template # <<>> PROVE FALSE
      OBVIOUS
    <3>1. PICK j \in DOMAIN cs : Covers(tokens[cs[j]], toks)
      BY <1>2
    <3>2. SimilarEnough(tokens[cs[j]], toks)
      BY <1>1, <3>1, CoveredIsSimilar
    <3>3. cs[j] \in ToSet(ClustersAt(leaf))
      BY <1>2 DEF ToSet, ClustersAt
    <3>. QED
      BY <2>1, <3>2, <3>3
  <2>. QED
    BY <2>1, <2>2 DEF Repeats
<1>. QED
  BY <1>3, <1>4

\* A line seen twice in a row is stamped with the same template twice, and what
\* a line is stamped with covers it.
THEOREM RepeatedLineIsStable == Spec => RepeatIsStable
<1>1. Inv /\ [Next]_vars => [Repeats]_vars
  BY StepRepeats DEF Next
<1>2. RepeatIsStable <=> [][Repeats]_vars
  BY DEF RepeatIsStable, Repeats
<1>. QED
  BY <1>1, <1>2, Invariance, PTL DEF Spec
=============================================================================
