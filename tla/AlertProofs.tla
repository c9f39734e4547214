----------------------------- MODULE AlertProofs -----------------------------
(***************************************************************************)
(* Theorems about the two stages that make a service's alerts: Aggregator, *)
(* for any lines, thresholds and caps, and, from "The detector" on, the    *)
(* Detector behind it, for any decay and thresholds.  Each is proved on    *)
(* its own; that the alerts of the one are inputs of the other is          *)
(* AlertsAreInputs.                                                        *)
(***************************************************************************)
EXTENDS Aggregator, Detector, FiniteSetTheorems, SequenceTheorems, WellFoundedInduction, TLAPS

(***************************************************************************)
(* What a count, a level and samples say of a set of lines.                *)
(***************************************************************************)
TopRank(r, lines) ==
  /\ r \in Nat /\ \A l \in lines : l.line.rank \in Nat /\ l.line.rank <= r
  /\ IF lines = {} THEN r = 0 ELSE \E l \in lines : l.line.rank = r

AtMost(n, cap) == IF n <= cap THEN n ELSE cap

Tally(b, lines) ==
  /\ IsFiniteSet(lines) /\ b.count = Cardinality(lines)
  /\ TopRank(b.rank, lines)
  /\ b.samples \in Seq(Nat) /\ IsInjective(b.samples)
  /\ ToSet(b.samples) \subseteq Texts(lines)
  /\ Len(b.samples) = AtMost(b.count, BucketCap)

\* The lines with a pattern, and what a summary says of them.
Part(p, lines) == {l \in lines : l.line.pattern = p}

Share(s, part) ==
  /\ part # {} /\ s.count = Cardinality(part)
  /\ TopRank(s.rank, part)
  /\ s.samples \in Seq(Nat) /\ ToSet(s.samples) \subseteq Texts(part)
  /\ Len(s.samples) = AtMost(s.count, PatternCap)

Shares(patterns, lines) ==
  /\ IsFiniteSet(patterns)
  /\ \A s \in patterns : s.pattern # NoPattern /\ Share(s, Part(s.pattern, lines))
  /\ \A s, t \in patterns : s.pattern = t.pattern => s = t
  /\ \A l \in lines : l.line.pattern # NoPattern => \E s \in patterns : s.pattern = l.line.pattern

Tells(a) ==
  /\ \A l \in a.lines : l.line.service = a.service
  /\ a.count >= MinCount
  /\ Tally(a, a.lines)
  /\ Shares(ToSet(a.patterns), a.lines)
  /\ DOMAIN a.patterns \subseteq Nat
  /\ \A i, j \in DOMAIN a.patterns : i # j => a.patterns[i] # a.patterns[j]
  /\ \A i, j \in DOMAIN a.patterns : i < j => a.patterns[i].count >= a.patterns[j].count

(***************************************************************************)
(* The inductive invariant.                                                *)
(***************************************************************************)
Typed ==
  /\ received \in Nat
  /\ IsFiniteSet(window)
  /\ \A l \in window : l.line.rank \in 1..3
  /\ \A l, k \in window : l.text = k.text => l = k
  /\ sent \in Seq(ToSet(sent))

OfKey(key) == {l \in window : Key(l.line) = key}

\* What waits in a bucket tells of its lines.
BucketsTell ==
  \A key \in IF pc = "select" THEN DOMAIN buckets ELSE unread :
    OfKey(key) # {} /\ Tally(buckets[key], OfKey(key))

ReadOf(svc) == {l \in window : l.line.service = svc /\ Key(l.line) \notin unread}

\* What waits in serviceMap tells of the lines of the buckets that were read.
ServicesTell ==
  \A svc \in DOMAIN services :
    /\ Tally(services[svc], ReadOf(svc))
    /\ Shares(services[svc].patterns, ReadOf(svc))

\* A flush has every line before it, in a bucket or in serviceMap.
NoneForgotten ==
  pc \in {"flush", "final"} =>
    \A l \in window : Key(l.line) \in unread \/ l.line.service \in DOMAIN services

Inv ==
  /\ TypeOK
  /\ EachLineOnce
  /\ Typed
  /\ BucketsTell
  /\ ServicesTell
  /\ NoneForgotten
  /\ \A n \in DOMAIN sent : Tells(sent[n])
-----------------------------------------------------------------------------
(***************************************************************************)
(* Sequences.                                                              *)
(***************************************************************************)
LEMMA SetOfSeq ==
  ASSUME NEW T, NEW s \in Seq(T)
  PROVE  ToSet(s) \subseteq T /\ DOMAIN s = 1..Len(s) /\ Len(s) \in Nat
BY LenProperties DEF ToSet

LEMMA AppendNew ==
  ASSUME NEW T, NEW s \in Seq(T), NEW x \in T
  PROVE  /\ Append(s, x) \in Seq(T) /\ Len(Append(s, x)) = Len(s) + 1
         /\ ToSet(Append(s, x)) = ToSet(s) \cup {x}
         /\ IsInjective(s) /\ x \notin ToSet(s) => IsInjective(Append(s, x))
         /\ DOMAIN Append(s, x) = DOMAIN s \cup {Len(s) + 1}
         /\ Append(s, x)[Len(s) + 1] = x /\ Len(s) + 1 \notin DOMAIN s
         /\ \A i \in DOMAIN s : Append(s, x)[i] = s[i]
<1>. DEFINE t == Append(s, x)
            n == Len(s)
<1>1. /\ n \in Nat /\ DOMAIN s = 1..n /\ t \in Seq(T) /\ Len(t) = n + 1
      /\ \A i \in 1..n : t[i] = s[i]
      /\ t[n + 1] = x
  BY AppendProperties, LenProperties
<1>2. DOMAIN t = 1..n + 1
  BY <1>1, LenProperties
<1>. HIDE DEF t, n
<1>3. 1..n + 1 = 1..n \cup {n + 1} /\ n + 1 \notin 1..n
  BY <1>1
<1>4. ToSet(t) = ToSet(s) \cup {x}
  BY <1>1, <1>2, <1>3 DEF ToSet
<1>5. ASSUME IsInjective(s), x \notin ToSet(s) PROVE IsInjective(t)
  BY <1>1, <1>2, <1>3, <1>5 DEF IsInjective, ToSet
<1>. QED
  BY <1>1, <1>2, <1>3, <1>4, <1>5 DEF t, n

LEMMA ConcatNew ==
  ASSUME NEW T, NEW s \in Seq(T), NEW t \in Seq(T), IsInjective(s), IsInjective(t),
         ToSet(s) \cap ToSet(t) = {}
  PROVE  /\ s \o t \in Seq(T) /\ Len(s \o t) = Len(s) + Len(t)
         /\ ToSet(s \o t) \subseteq ToSet(s) \cup ToSet(t)
         /\ IsInjective(s \o t)
<1>. DEFINE u == s \o t
            m == Len(s)
            n == Len(t)
<1>1. m \in Nat /\ n \in Nat /\ DOMAIN s = 1..m /\ DOMAIN t = 1..n
  BY LenProperties
<1>2. /\ u \in Seq(T) /\ Len(u) = m + n
      /\ \A i \in 1..m + n : u[i] = IF i <= m THEN s[i] ELSE t[i - m]
  BY ConcatProperties
<1>3. DOMAIN u = 1..m + n
  BY <1>2, LenProperties
<1>. HIDE DEF u, m, n
<1>4. ASSUME NEW i \in 1..m + n
      PROVE  \/ i \in 1..m /\ u[i] = s[i] /\ u[i] \in ToSet(s)
             \/ ~(i <= m) /\ i - m \in 1..n /\ u[i] = t[i - m] /\ u[i] \in ToSet(t)
  <2>1. CASE i <= m
    <3>1. i \in 1..m /\ u[i] = s[i]
      BY <1>1, <1>2, <2>1
    <3>. QED
      BY <1>1, <3>1 DEF ToSet
  <2>2. CASE ~(i <= m)
    <3>1. i - m \in 1..n /\ u[i] = t[i - m]
      BY <1>1, <1>2, <2>2
    <3>. QED
      BY <1>1, <2>2, <3>1 DEF ToSet
  <2>. QED
    BY <2>1, <2>2
<1>5. ToSet(u) \subseteq ToSet(s) \cup ToSet(t)
  BY <1>3, <1>4 DEF ToSet
<1>6. ASSUME NEW i \in 1..m + n, NEW j \in 1..m + n, u[i] = u[j] PROVE i = j
  <2>1. CASE i \in 1..m /\ u[i] = s[i] /\ u[i] \in ToSet(s)
    <3>1. j \in 1..m /\ u[j] = s[j]
      BY <1>4, <1>6, <2>1
    <3>. QED
      BY <1>1, <1>6, <2>1, <3>1 DEF IsInjective
  <2>2. CASE i - m \in 1..n /\ u[i] = t[i - m] /\ u[i] \in ToSet(t)
    <3>1. j - m \in 1..n /\ u[j] = t[j - m]
      BY <1>4, <1>6, <2>2
    <3>2. i - m = j - m
      BY <1>1, <1>6, <2>2, <3>1 DEF IsInjective
    <3>. QED
      BY <1>1, <3>2
  <2>. QED
    BY <1>4, <2>1, <2>2
<1>7. IsInjective(u)
  BY <1>3, <1>6 DEF IsInjective
<1>. QED
  BY <1>2, <1>5, <1>7 DEF u, m, n

LEMMA FirstOfSeq ==
  ASSUME NEW T, NEW s \in Seq(T), NEW n \in Nat
  PROVE  /\ FirstOf(s, n) \in Seq(T) /\ Len(FirstOf(s, n)) = AtMost(Len(s), n)
         /\ ToSet(FirstOf(s, n)) \subseteq ToSet(s)
         /\ IsInjective(s) => IsInjective(FirstOf(s, n))
<1>1. Len(s) \in Nat /\ DOMAIN s = 1..Len(s) /\ \A i \in 1..Len(s) : s[i] \in T
  BY LenProperties, ElementOfSeq
<1>2. CASE Len(s) <= n
  BY <1>2 DEF FirstOf, AtMost
<1>3. CASE ~(Len(s) <= n)
  <2>. DEFINE u == SubSeq(s, 1, n)
  <2>1. FirstOf(s, n) = u
    BY <1>3 DEF FirstOf
  <2>2. u \in Seq(T) /\ Len(u) = n /\ \A i \in 1..n : u[i] = s[i]
    <3>1. \A i \in 1..n : s[i] \in T
      BY <1>1, <1>3
    <3>2. /\ u \in Seq(T) /\ Len(u) = IF 1 <= n THEN n - 1 + 1 ELSE 0
          /\ \A i \in 1..n - 1 + 1 : u[i] = s[1 + i - 1]
      BY <1>1, <3>1, SubSeqProperties
    <3>. QED
      BY <1>1, <3>2
  <2>3. DOMAIN u = 1..n /\ 1..n \subseteq 1..Len(s)
    BY <1>1, <1>3, <2>2, LenProperties
  <2>. HIDE DEF u
  <2>4. ToSet(u) \subseteq ToSet(s)
    BY <1>1, <2>2, <2>3 DEF ToSet
  <2>5. IsInjective(s) => IsInjective(u)
    BY <1>1, <2>2, <2>3 DEF IsInjective
  <2>. QED
    BY <1>1, <1>3, <2>1, <2>2, <2>4, <2>5 DEF AtMost
<1>. QED
  BY <1>2, <1>3
-----------------------------------------------------------------------------
(***************************************************************************)
(* Tallies.                                                                *)
(***************************************************************************)
LEMMA Params ==
  /\ BucketCap \in Nat /\ PatternCap \in Nat /\ PatternCap <= BucketCap
  /\ MinCount \in Nat \ {0}
BY AggregatorAssumption DEF AggregatorAssumption

LEMMA NothingTallied ==
  Tally(NewBucket, {}) /\ Tally(NewService, {}) /\ Shares(NewService.patterns, {})
<1>1. IsFiniteSet({}) /\ Cardinality({}) = 0
  BY FS_EmptySet
<1>2. <<>> \in Seq(Nat) /\ Len(<<>>) = 0 /\ IsInjective(<<>>) /\ ToSet(<<>>) = {}
  BY EmptySeq DEF IsInjective, ToSet
<1>3. AtMost(0, BucketCap) = 0
  BY Params DEF AtMost
<1>4. TopRank(0, {})
  BY DEF TopRank
<1>5. Tally(NewBucket, {}) /\ Tally(NewService, {})
  BY <1>1, <1>2, <1>3, <1>4 DEF Tally, NewBucket, NewService
<1>6. Shares(NewService.patterns, {})
  BY <1>1 DEF Shares, NewService
<1>. QED
  BY <1>5, <1>6

\* bucket.add.
LEMMA AddTallies ==
  ASSUME NEW b, NEW lines, Tally(b, lines), NEW line, line.rank \in 1..3,
         NEW text \in Nat, text \notin Texts(lines)
  PROVE  Tally(Add(b, line, text), lines \cup {[text |-> text, line |-> line]})
<1>. DEFINE l == [text |-> text, line |-> line]
            all == lines \cup {l}
            c == Add(b, line, text)
<1>1. l \notin lines
  BY DEF Texts
<1>2. IsFiniteSet(all) /\ Cardinality(all) = Cardinality(lines) + 1 /\ Cardinality(lines) \in Nat
  BY <1>1, FS_AddElement, FS_CardinalityType DEF Tally
<1>3. /\ c.count = b.count + 1
      /\ c.rank = IF line.rank > b.rank THEN line.rank ELSE b.rank
      /\ c.samples = IF Len(b.samples) < BucketCap THEN Append(b.samples, text) ELSE b.samples
  BY DEF Add
<1>. HIDE DEF c
<1>4. TopRank(c.rank, all)
  <2>1. b.rank \in Nat /\ TopRank(b.rank, lines)
    BY DEF Tally, TopRank
  <2>2. l.line.rank = line.rank /\ all # {}
    OBVIOUS
  <2>3. CASE line.rank > b.rank
    <3>1. c.rank = line.rank /\ l \in all /\ line.rank \in Nat
      BY <1>3, <2>3
    <3>2. \A k \in all : k.line.rank \in Nat /\ k.line.rank <= line.rank
      <4>1. \A k \in lines : k.line.rank \in Nat /\ k.line.rank <= b.rank
        BY <2>1 DEF TopRank
      <4>2. \A k \in lines : k.line.rank \in Nat /\ k.line.rank <= line.rank
        BY <2>1, <2>3, <3>1, <4>1
      <4>. QED
        BY <2>2, <3>1, <4>2
    <3>. HIDE DEF all, l
    <3>. QED
      BY <2>2, <3>1, <3>2 DEF TopRank
  <2>4. CASE ~(line.rank > b.rank)
    <3>1. lines # {}
      BY <2>1, <2>4 DEF TopRank
    <3>2. (\E k \in lines : k.line.rank = b.rank) /\ \A k \in lines : k.line.rank <= b.rank
      BY <2>1, <3>1 DEF TopRank
    <3>3. c.rank = b.rank /\ l.line.rank <= b.rank
      BY <1>3, <2>1, <2>2, <2>4
    <3>4. \A k \in all : k.line.rank \in Nat /\ k.line.rank <= b.rank
      BY <2>1, <2>2, <3>3 DEF TopRank
    <3>5. \E k \in all : k.line.rank = b.rank
      BY <3>2
    <3>. HIDE DEF all, l
    <3>. QED
      BY <2>1, <2>2, <3>3, <3>4, <3>5 DEF TopRank
  <2>. QED
    BY <2>3, <2>4
<1>5. Texts(all) = Texts(lines) \cup {text}
  <2>1. l.text = text
    OBVIOUS
  <2>. HIDE DEF l
  <2>. QED
    BY <2>1 DEF Texts
<1>6. /\ c.samples \in Seq(Nat) /\ IsInjective(c.samples) /\ ToSet(c.samples) \subseteq Texts(all)
      /\ Len(c.samples) = AtMost(c.count, BucketCap)
  <2>1. /\ b.samples \in Seq(Nat) /\ IsInjective(b.samples) /\ ToSet(b.samples) \subseteq Texts(lines)
        /\ Len(b.samples) = AtMost(b.count, BucketCap) /\ b.count \in Nat
    BY <1>2 DEF Tally
  <2>2. CASE Len(b.samples) < BucketCap
    <3>1. /\ Append(b.samples, text) \in Seq(Nat) /\ Len(Append(b.samples, text)) = Len(b.samples) + 1
          /\ ToSet(Append(b.samples, text)) = ToSet(b.samples) \cup {text}
          /\ IsInjective(Append(b.samples, text))
      BY <2>1, AppendNew
    <3>2. Len(b.samples) = b.count
      BY <2>1, <2>2, Params DEF AtMost
    <3>3. c.samples = Append(b.samples, text) /\ c.count = Len(b.samples) + 1
      BY <1>3, <2>2, <3>2
    <3>4. AtMost(c.count, BucketCap) = Len(b.samples) + 1
      BY <2>1, <2>2, <3>2, <3>3, Params DEF AtMost
    <3>5. ToSet(Append(b.samples, text)) \subseteq Texts(all)
      BY <1>5, <2>1, <3>1
    <3>. QED
      BY <3>1, <3>3, <3>4, <3>5
  <2>3. CASE ~(Len(b.samples) < BucketCap)
    <3>1. AtMost(c.count, BucketCap) = AtMost(b.count, BucketCap)
      BY <1>3, <2>1, <2>3, Params DEF AtMost
    <3>. QED
      BY <1>3, <1>5, <2>1, <2>3, <3>1
  <2>. QED
    BY <2>2, <2>3
<1>. HIDE DEF all
<1>7. c.count = Cardinality(all)
  BY <1>2, <1>3 DEF Tally
<1>8. Tally(c, all)
  BY <1>2, <1>4, <1>6, <1>7 DEF Tally
<1>. QED
  BY <1>8 DEF all, c

\* A bucket joins its service.
LEMMA JoinTallies ==
  ASSUME NEW si, NEW R, NEW b, NEW B, NEW key, Tally(si, R), Tally(b, B),
         R \cap B = {}, Texts(R) \cap Texts(B) = {}
  PROVE  Tally(Joined(si, key, b), R \cup B)
<1>. DEFINE all == R \cup B
            c == Joined(si, key, b)
<1>1. /\ si.count = Cardinality(R) /\ b.count = Cardinality(B)
      /\ si.count \in Nat /\ b.count \in Nat /\ IsFiniteSet(R) /\ IsFiniteSet(B)
  BY FS_CardinalityType DEF Tally
<1>2. IsFiniteSet(all) /\ Cardinality(all) = si.count + b.count
  <2>1. Cardinality(R \cap B) = 0
    BY FS_EmptySet
  <2>2. /\ IsFiniteSet(all)
        /\ Cardinality(all) = Cardinality(R) + Cardinality(B) - Cardinality(R \cap B)
    BY <1>1, FS_Union
  <2>. HIDE DEF all
  <2>. QED
    BY <1>1, <2>1, <2>2
<1>3. /\ c.count = si.count + b.count
      /\ c.rank = IF b.rank > si.rank THEN b.rank ELSE si.rank
      /\ c.samples = FirstOf(si.samples \o b.samples, BucketCap)
  BY DEF Joined
<1>. HIDE DEF c
<1>4. TopRank(c.rank, all)
  <2>1. TopRank(si.rank, R) /\ TopRank(b.rank, B)
    BY DEF Tally
  <2>2. /\ si.rank \in Nat /\ b.rank \in Nat /\ c.rank \in Nat
        /\ si.rank <= c.rank /\ b.rank <= c.rank /\ (c.rank = si.rank \/ c.rank = b.rank)
    BY <1>3, <2>1 DEF TopRank
  <2>3. \A l \in all : l.line.rank \in Nat /\ l.line.rank <= c.rank
    <3>1. /\ \A l \in R : l.line.rank \in Nat /\ l.line.rank <= si.rank
          /\ \A l \in B : l.line.rank \in Nat /\ l.line.rank <= b.rank
      BY <2>1 DEF TopRank
    <3>. QED
      BY <2>2, <3>1
  <2>4. CASE all = {}
    <3>1. si.rank = 0 /\ b.rank = 0
      BY <2>1, <2>4 DEF TopRank
    <3>. QED
      BY <2>2, <2>3, <2>4, <3>1 DEF TopRank
  <2>5. CASE all # {}
    <3>1. \E l \in all : l.line.rank = c.rank
      <4>1. CASE R = {}
        <5>1. si.rank = 0 /\ B # {}
          BY <2>1, <2>5, <4>1 DEF TopRank
        <5>2. c.rank = b.rank
          BY <2>2, <5>1
        <5>. QED
          BY <2>1, <5>1, <5>2 DEF TopRank
      <4>2. CASE B = {}
        <5>1. b.rank = 0 /\ R # {}
          BY <2>1, <2>5, <4>2 DEF TopRank
        <5>2. c.rank = si.rank
          BY <2>2, <5>1
        <5>. QED
          BY <2>1, <5>1, <5>2 DEF TopRank
      <4>3. CASE R # {} /\ B # {}
        <5>1. (\E l \in R : l.line.rank = si.rank) /\ \E l \in B : l.line.rank = b.rank
          BY <2>1, <4>3 DEF TopRank
        <5>. QED
          BY <2>2, <5>1
      <4>. QED
        BY <4>1, <4>2, <4>3
    <3>. HIDE DEF all
    <3>. QED
      BY <2>2, <2>3, <2>5, <3>1 DEF TopRank
  <2>. QED
    BY <2>4, <2>5
<1>5. Texts(all) = Texts(R) \cup Texts(B)
  BY DEF Texts
<1>6. /\ c.samples \in Seq(Nat) /\ IsInjective(c.samples) /\ ToSet(c.samples) \subseteq Texts(all)
      /\ Len(c.samples) = AtMost(c.count, BucketCap)
  <2>1. /\ si.samples \in Seq(Nat) /\ IsInjective(si.samples) /\ ToSet(si.samples) \subseteq Texts(R)
        /\ Len(si.samples) = AtMost(si.count, BucketCap)
        /\ b.samples \in Seq(Nat) /\ IsInjective(b.samples) /\ ToSet(b.samples) \subseteq Texts(B)
        /\ Len(b.samples) = AtMost(b.count, BucketCap)
    BY DEF Tally
  <2>. DEFINE s == si.samples \o b.samples
  <2>2. ToSet(si.samples) \cap ToSet(b.samples) = {}
    BY <2>1
  <2>3. /\ s \in Seq(Nat) /\ Len(s) = Len(si.samples) + Len(b.samples) /\ IsInjective(s)
        /\ ToSet(s) \subseteq ToSet(si.samples) \cup ToSet(b.samples)
    BY <2>1, <2>2, ConcatNew
  <2>. HIDE DEF s
  <2>4. /\ FirstOf(s, BucketCap) \in Seq(Nat) /\ Len(FirstOf(s, BucketCap)) = AtMost(Len(s), BucketCap)
        /\ ToSet(FirstOf(s, BucketCap)) \subseteq ToSet(s) /\ IsInjective(FirstOf(s, BucketCap))
    BY <2>3, FirstOfSeq, Params
  <2>5. AtMost(Len(s), BucketCap) = AtMost(c.count, BucketCap)
    BY <1>1, <1>3, <2>1, <2>3, Params DEF AtMost
  <2>6. c.samples = FirstOf(s, BucketCap)
    BY <1>3 DEF s
  <2>7. ToSet(s) \subseteq Texts(all)
    BY <1>5, <2>1, <2>3
  <2>. QED
    BY <2>4, <2>5, <2>6, <2>7
<1>. HIDE DEF all
<1>7. Tally(c, all)
  BY <1>2, <1>3, <1>4, <1>6 DEF Tally
<1>. QED
  BY <1>7 DEF all, c

\* The summary of a bucket joins those of its service.
LEMMA JoinShares ==
  ASSUME NEW si, NEW R, NEW b, NEW B, NEW key, Shares(si.patterns, R), Tally(b, B), B # {},
         \A l \in B : l.line.pattern = key[2], \A l \in R : l.line.pattern # key[2]
  PROVE  Shares(Joined(si, key, b).patterns, R \cup B)
<1>. DEFINE new == Summaries(key, b)
            all == si.patterns \cup new
            s0 == [pattern |-> key[2], count |-> b.count, rank |-> b.rank,
                   samples |-> FirstOf(b.samples, PatternCap)]
<1>1. Joined(si, key, b).patterns = all
  BY DEF Joined
<1>2. Part(key[2], R \cup B) = B
  BY DEF Part
<1>3. \A p : p # key[2] => Part(p, R \cup B) = Part(p, R)
  BY DEF Part
<1>4. ASSUME NEW s \in si.patterns PROVE s.pattern # key[2]
  <2>1. Part(s.pattern, R) # {}
    BY DEF Shares, Share
  <2>. QED
    BY <2>1 DEF Part
<1>5. CASE key[2] = NoPattern
  <2>1. all = si.patterns
    BY <1>5 DEF Summaries
  <2>2. \A s \in si.patterns : s.pattern # NoPattern /\ Share(s, Part(s.pattern, R \cup B))
    BY <1>3, <1>4 DEF Shares
  <2>3. \A l \in R \cup B : l.line.pattern # NoPattern =>
          \E s \in si.patterns : s.pattern = l.line.pattern
    BY <1>5 DEF Shares
  <2>4. IsFiniteSet(si.patterns) /\ \A s, t \in si.patterns : s.pattern = t.pattern => s = t
    BY DEF Shares
  <2>5. Shares(si.patterns, R \cup B)
    BY <2>2, <2>3, <2>4 DEF Shares
  <2>. QED
    BY <1>1, <2>1, <2>5
<1>6. CASE key[2] # NoPattern
  <2>1. all = si.patterns \cup {s0}
    BY <1>6 DEF Summaries
  <2>2. /\ s0.pattern = key[2] /\ s0.count = b.count /\ s0.rank = b.rank
        /\ s0.samples = FirstOf(b.samples, PatternCap)
    OBVIOUS
  <2>. HIDE DEF s0, all
  <2>3. Share(s0, B)
    <3>1. /\ b.count = Cardinality(B) /\ TopRank(b.rank, B) /\ b.samples \in Seq(Nat)
          /\ ToSet(b.samples) \subseteq Texts(B) /\ Len(b.samples) = AtMost(b.count, BucketCap)
          /\ b.count \in Nat
      BY FS_CardinalityType DEF Tally
    <3>2. /\ s0.samples \in Seq(Nat) /\ Len(s0.samples) = AtMost(Len(b.samples), PatternCap)
          /\ ToSet(s0.samples) \subseteq ToSet(b.samples)
      BY <2>2, <3>1, FirstOfSeq, Params
    <3>3. AtMost(Len(b.samples), PatternCap) = AtMost(b.count, PatternCap)
      BY <3>1, Params DEF AtMost
    <3>. QED
      BY <2>2, <3>1, <3>2, <3>3 DEF Share
  <2>4. IsFiniteSet(all)
    BY <2>1, FS_AddElement DEF Shares
  <2>5. \A s \in all : s.pattern # NoPattern /\ Share(s, Part(s.pattern, R \cup B))
    <3>1. \A s \in si.patterns : s.pattern # NoPattern /\ Share(s, Part(s.pattern, R \cup B))
      BY <1>3, <1>4 DEF Shares
    <3>2. s0.pattern # NoPattern /\ Share(s0, Part(s0.pattern, R \cup B))
      BY <1>2, <1>6, <2>2, <2>3
    <3>. QED
      BY <2>1, <3>1, <3>2
  <2>6. \A s, t \in all : s.pattern = t.pattern => s = t
    BY <1>4, <2>1, <2>2 DEF Shares
  <2>7. \A l \in R \cup B : l.line.pattern # NoPattern => \E s \in all : s.pattern = l.line.pattern
    BY <2>1, <2>2 DEF Shares
  <2>8. Shares(all, R \cup B)
    BY <2>4, <2>5, <2>6, <2>7 DEF Shares
  <2>. QED
    BY <1>1, <2>8 DEF all
<1>. QED
  BY <1>5, <1>6

(***************************************************************************)
(* Alerts.                                                                 *)
(***************************************************************************)
LEMMA Highest ==
  ASSUME NEW r, NEW lines, TopRank(r, lines), lines # {}
  PROVE  Max({l.line.rank : l \in lines}) = r
<1>. DEFINE S == {l.line.rank : l \in lines}
<1>1. r \in S /\ r \in Nat /\ \A x \in S : x \in Nat /\ r >= x
  BY DEF TopRank
<1>. HIDE DEF S
<1>2. \A x \in S : (\A y \in S : x >= y) => x = r
  BY <1>1
<1>3. Max(S) = r
  BY <1>1, <1>2 DEF Max
<1>. QED
  BY <1>3 DEF S

LEMMA Least ==
  ASSUME NEW m \in Nat, NEW n \in Nat
  PROVE  Min({m, n}) = AtMost(n, m)
<1>. DEFINE S == {m, n}
            a == AtMost(n, m)
<1>1. a \in S /\ a \in Nat /\ \A x \in S : x \in Nat /\ a <= x
  BY DEF AtMost
<1>. HIDE DEF S, a
<1>2. \A x \in S : (\A y \in S : x <= y) => x = a
  BY <1>1
<1>3. Min(S) = a
  BY <1>1, <1>2 DEF Min
<1>. QED
  BY <1>3 DEF S, a

\* A one-to-one sequence as long as a set of its elements has them all.
LEMMA AllThere ==
  ASSUME NEW S, IsFiniteSet(S), NEW f \in [1..Cardinality(S) -> S],
         \A i, j \in DOMAIN f : i # j => f[i] # f[j]
  PROVE  \A x \in S : \E i \in DOMAIN f : f[i] = x
<1>. DEFINE n == Cardinality(S)
<1>1. n \in Nat
  BY FS_CardinalityType
<1>2. f \in Injection(1..n, S)
  BY DEF Injection, IsInjective
<1>3. Cardinality(1..n) = n
  BY <1>1, FS_Interval
<1>4. f \in Surjection(1..n, S)
  BY <1>2, <1>3, FS_Injection
<1>. QED
  BY <1>4 DEF Surjection
LEMMA SameLen ==
  ASSUME NEW s, NEW cap \in Nat, NEW n \in Nat, Len(s) = AtMost(n, cap)
  PROVE  Len(s) = Min({cap, n})
BY Least

LEMMA Told ==
  ASSUME NEW a, Tells(a)
  PROVE  TellsItsWindow(a)
<1>. DEFINE P == ToSet(a.patterns)
<1>1. /\ Tally(a, a.lines) /\ Shares(P, a.lines) /\ a.count >= MinCount
      /\ \A l \in a.lines : l.line.service = a.service
  BY DEF Tells
<1>2. /\ a.count = Cardinality(a.lines) /\ a.count \in Nat /\ TopRank(a.rank, a.lines)
      /\ IsInjective(a.samples) /\ ToSet(a.samples) \subseteq Texts(a.lines)
      /\ Len(a.samples) = AtMost(a.count, BucketCap)
  BY <1>1, FS_CardinalityType DEF Tally
<1>3. a.lines # {}
  <2>. SUFFICES ASSUME a.lines = {} PROVE FALSE
    OBVIOUS
  <2>1. a.count = 0
    BY <1>2, FS_EmptySet
  <2>. QED
    BY <1>1, <2>1, Params
<1>4. a.rank = Level(a.lines)
  BY <1>2, <1>3, Highest DEF Level
<1>5. Len(a.samples) = Min({BucketCap, a.count})
  BY <1>2, SameLen, Params
<1>6. \A s \in P : s.pattern # NoPattern /\ Share(s, OfPattern(a, s.pattern))
  BY <1>1 DEF Shares, Part, OfPattern
<1>7. ASSUME NEW s \in P
      PROVE  /\ s.count = Cardinality(OfPattern(a, s.pattern))
             /\ s.rank = Level(OfPattern(a, s.pattern))
             /\ ToSet(s.samples) \subseteq Texts(OfPattern(a, s.pattern))
             /\ Len(s.samples) = Min({PatternCap, s.count})
  <2>. DEFINE part == OfPattern(a, s.pattern)
  <2>1. part \subseteq a.lines
    BY DEF OfPattern
  <2>2. Share(s, part)
    BY <1>6
  <2>. HIDE DEF part
  <2>3. IsFiniteSet(part) /\ Cardinality(part) \in Nat
    BY <1>1, <2>1, FS_Subset, FS_CardinalityType DEF Tally
  <2>4. s.count = Cardinality(part) /\ s.count \in Nat
    BY <2>2, <2>3 DEF Share
  <2>5. s.rank = Level(part)
    BY <2>2, Highest DEF Share, Level
  <2>6. Len(s.samples) = Min({PatternCap, s.count})
    BY <2>2, <2>4, SameLen, Params DEF Share
  <2>. QED
    BY <2>2, <2>4, <2>5, <2>6 DEF Share, part
<1>8. {s.pattern : s \in P} = {l.line.pattern : l \in a.lines} \ {NoPattern}
  <2>1. ASSUME NEW s \in P PROVE s.pattern \in {l.line.pattern : l \in a.lines} \ {NoPattern}
    <3>1. OfPattern(a, s.pattern) # {} /\ s.pattern # NoPattern
      BY <1>6 DEF Share
    <3>. QED
      BY <3>1 DEF OfPattern
  <2>2. ASSUME NEW l \in a.lines, l.line.pattern # NoPattern
        PROVE  l.line.pattern \in {s.pattern : s \in P}
    BY <1>1, <2>2 DEF Shares
  <2>. QED
    BY <2>1, <2>2
<1>9. ASSUME NEW i \in DOMAIN a.patterns, NEW j \in DOMAIN a.patterns, i < j
      PROVE  /\ a.patterns[i].count >= a.patterns[j].count
             /\ a.patterns[i].pattern # a.patterns[j].pattern
  <2>1. i # j
    BY <1>9 DEF Tells
  <2>2. a.patterns[i] # a.patterns[j] /\ a.patterns[i].count >= a.patterns[j].count
    BY <1>9, <2>1 DEF Tells
  <2>3. a.patterns[i] \in P /\ a.patterns[j] \in P
    BY DEF ToSet
  <2>. QED
    BY <1>1, <2>2, <2>3 DEF Shares
<1>. QED
  BY <1>1, <1>2, <1>4, <1>5, <1>7, <1>8, <1>9 DEF TellsItsWindow

LEMMA BucketType ==
  ASSUME NEW b, NEW lines, Tally(b, lines), lines # {}, \A l \in lines : l.line.rank \in 1..3
  PROVE  b.rank \in 1..3 /\ Len(b.samples) <= BucketCap
<1>1. b.rank \in 1..3
  BY DEF Tally, TopRank
<1>2. b.count \in Nat /\ Len(b.samples) = AtMost(b.count, BucketCap)
  BY FS_CardinalityType DEF Tally
<1>. QED
  BY <1>1, <1>2, Params DEF AtMost
-----------------------------------------------------------------------------
(***************************************************************************)
(* Every step preserves the invariant.                                     *)
(***************************************************************************)
LEMMA InitInv ==
  ASSUME Init
  PROVE  Inv
<1>1. /\ received = 0 /\ pc = "select" /\ buckets = <<>> /\ window = {} /\ unread = {}
      /\ services = <<>> /\ inClosed = FALSE /\ cancelled = FALSE /\ sent = <<>> /\ skipped = {}
      /\ DOMAIN <<>> = {}
  BY DEF Init
<1>2. TypeOK
  BY <1>1 DEF TypeOK
<1>3. EachLineOnce
  <2>1. Texts(window) = {} /\ Texts(skipped) = {} /\ Reported = {} /\ 1..0 = {}
    BY <1>1 DEF Texts, Reported
  <2>. QED
    BY <1>1, <2>1 DEF EachLineOnce
<1>4. Typed
  BY <1>1, FS_EmptySet, EmptySeq DEF Typed
<1>5. BucketsTell /\ ServicesTell /\ NoneForgotten /\ \A n \in DOMAIN sent : Tells(sent[n])
  BY <1>1 DEF BucketsTell, ServicesTell, NoneForgotten
<1>. QED
  BY <1>2, <1>3, <1>4, <1>5 DEF Inv

LEMMA ReceiveInv ==
  ASSUME Inv, NEW line \in Line, Receive(line)
  PROVE  Inv'
<1>. DEFINE text == received + 1
            k == Key(line)
            l == [text |-> text, line |-> line]
<1>1. /\ pc = "select" /\ pc' = pc /\ received' = text
      /\ unread' = unread /\ services' = services /\ inClosed' = inClosed
      /\ cancelled' = cancelled /\ sent' = sent /\ skipped' = skipped
      /\ window' = window \cup {l}
  BY DEF Receive
<1>2. PICK b : b = IF k \in DOMAIN buckets THEN buckets[k] ELSE NewBucket
  OBVIOUS
<1>3. buckets' = [key \in DOMAIN buckets \cup {k} |->
                    IF key = k THEN Add(b, line, text) ELSE buckets[key]]
  BY <1>1, <1>2 DEF Receive
<1>4. received \in Nat /\ text \in Nat /\ line.rank \in 1..3
  BY AggregatorAssumption DEF Inv, Typed, AggregatorAssumption
<1>5. /\ Texts(window) \cup Texts(skipped) \cup Reported = 1..received
      /\ Texts(window) \cap Texts(skipped) = {}
      /\ (Texts(window) \cup Texts(skipped)) \cap Reported = {}
      /\ \A i, j \in DOMAIN sent : i # j => Texts(sent[i].lines) \cap Texts(sent[j].lines) = {}
  BY DEF Inv, EachLineOnce
<1>6. text \notin 1..received /\ 1..text = 1..received \cup {text}
  BY <1>4
<1>7. l.text = text /\ l.line = line
  OBVIOUS
<1>8. /\ DOMAIN buckets = {Key(m.line) : m \in window} /\ unread = {} /\ DOMAIN services = {}
      /\ inClosed \in BOOLEAN /\ cancelled \in BOOLEAN
  BY <1>1 DEF Inv, TypeOK
<1>. HIDE DEF text, l, k
<1>9. Texts(window') = Texts(window) \cup {text} /\ Reported' = Reported
  BY <1>1, <1>7 DEF Texts, Reported
<1>10. \A m \in window : m.text # text /\ m.text \in Texts(window)
  BY <1>5, <1>6 DEF Texts
<1>11. EachLineOnce'
  <2>1. /\ Texts(window') \cup Texts(skipped') \cup Reported' = 1..received'
        /\ Texts(window') \cap Texts(skipped') = {}
        /\ (Texts(window') \cup Texts(skipped')) \cap Reported' = {}
    BY <1>1, <1>5, <1>6, <1>9
  <2>. QED
    BY <1>1, <1>5, <2>1 DEF EachLineOnce, Texts
<1>12. Typed'
  <2>1. IsFiniteSet(window')
    BY <1>1, FS_AddElement DEF Inv, Typed
  <2>2. \A m, n \in window' : m.text = n.text => m = n
    BY <1>1, <1>7, <1>10 DEF Inv, Typed
  <2>. QED
    BY <1>1, <1>4, <1>7, <2>1, <2>2 DEF Inv, Typed, ToSet
<1>13. OfKey(k)' = OfKey(k) \cup {l} /\ \A key : key # k => OfKey(key)' = OfKey(key)
  BY <1>1, <1>7 DEF OfKey, k
<1>14. Tally(b, OfKey(k))
  <2>1. CASE k \in DOMAIN buckets
    BY <1>1, <1>2, <2>1 DEF Inv, BucketsTell
  <2>2. CASE k \notin DOMAIN buckets
    <3>1. OfKey(k) = {}
      BY <1>8, <2>2 DEF OfKey
    <3>. QED
      BY <1>2, <2>2, <3>1, NothingTallied
  <2>. QED
    BY <2>1, <2>2
<1>15. Tally(Add(b, line, text), OfKey(k) \cup {l})
  <2>1. text \notin Texts(OfKey(k))
    BY <1>10 DEF Texts, OfKey
  <2>. QED
    BY <1>4, <1>14, <2>1, AddTallies DEF l
<1>16. ASSUME NEW key \in DOMAIN buckets'
       PROVE  OfKey(key)' # {} /\ Tally(buckets'[key], OfKey(key)')
  <2>1. CASE key = k
    BY <1>3, <1>13, <1>15, <2>1
  <2>2. CASE key # k
    <3>1. key \in DOMAIN buckets /\ buckets'[key] = buckets[key] /\ OfKey(key)' = OfKey(key)
      BY <1>3, <1>13, <2>2
    <3>. QED
      BY <1>1, <3>1 DEF Inv, BucketsTell
  <2>. QED
    BY <2>1, <2>2
<1>17. TypeOK'
  <2>1. DOMAIN buckets' = {Key(m.line) : m \in window'}
    <3>1. DOMAIN buckets' = DOMAIN buckets \cup {k}
      BY <1>3
    <3>. QED
      BY <1>1, <1>7, <1>8, <3>1 DEF k
  <2>2. ASSUME NEW key \in DOMAIN buckets'
        PROVE  buckets'[key].rank \in 1..3 /\ Len(buckets'[key].samples) <= BucketCap
    <3>1. \A m \in OfKey(key)' : m.line.rank \in 1..3
      BY <1>12 DEF Typed, OfKey
    <3>. QED
      BY <1>16, <3>1, BucketType
  <2>. QED
    BY <1>1, <1>8, <2>1, <2>2 DEF TypeOK
<1>18. BucketsTell'
  BY <1>1, <1>16 DEF BucketsTell, Tally, TopRank, Texts
<1>19. ServicesTell' /\ NoneForgotten'
  BY <1>1, <1>8 DEF ServicesTell, NoneForgotten
<1>20. (\A n \in DOMAIN sent : Tells(sent[n]))'
  BY <1>1 DEF Inv
<1>. QED
  BY <1>11, <1>12, <1>17, <1>18, <1>19, <1>20 DEF Inv

\* A step that leaves the window and its histories alone.
LEMMA SameHistory ==
  ASSUME Inv, received' = received, window' = window, skipped' = skipped, sent' = sent,
         pc' = "done" => window = {}
  PROVE  EachLineOnce' /\ Typed'
<1>1. Typed'
  <2>1. Typed
    BY DEF Inv
  <2>. QED
    BY <2>1 DEF Typed
<1>2. EachLineOnce
  BY DEF Inv
<1>3. Reported' = Reported
  BY DEF Reported
<1>4. EachLineOnce'
  BY <1>2, <1>3 DEF EachLineOnce
<1>. QED
  BY <1>1, <1>4

LEMMA StartFlushInv ==
  ASSUME Inv, pc = "select", pc' \in {"flush", "final"}, StartFlush
  PROVE  Inv'
<1>1. /\ unread' = DOMAIN buckets /\ received' = received /\ buckets' = buckets /\ window' = window
      /\ services' = services /\ inClosed' = inClosed /\ cancelled' = cancelled
      /\ sent' = sent /\ skipped' = skipped
  BY DEF StartFlush
<1>2. /\ DOMAIN buckets = {Key(m.line) : m \in window} /\ DOMAIN services = {}
      /\ pc' \notin {"select", "done"}
  BY DEF Inv, TypeOK
<1>3. TypeOK'
  BY <1>1, <1>2 DEF Inv, TypeOK
<1>4. EachLineOnce' /\ Typed'
  BY <1>1, <1>2, SameHistory
<1>5. BucketsTell'
  BY <1>1, <1>2 DEF Inv, BucketsTell, OfKey
<1>6. ServicesTell' /\ NoneForgotten'
  BY <1>1, <1>2 DEF ServicesTell, NoneForgotten
<1>7. (\A n \in DOMAIN sent : Tells(sent[n]))'
  BY <1>1 DEF Inv
<1>. QED
  BY <1>3, <1>4, <1>5, <1>6, <1>7 DEF Inv

LEMMA CollectInv ==
  ASSUME Inv, NEW key \in unread, Collect(key)
  PROVE  Inv'
<1>. DEFINE svc == key[1]
            R == ReadOf(svc)
            B == OfKey(key)
            b == buckets[key]
<1>1. /\ pc \in {"flush", "final"} /\ pc' = pc /\ received' = received /\ buckets' = buckets
      /\ window' = window /\ unread' = unread \ {key} /\ inClosed' = inClosed
      /\ cancelled' = cancelled /\ sent' = sent /\ skipped' = skipped
  BY DEF Collect
<1>2. PICK si : si = IF svc \in DOMAIN services THEN services[svc] ELSE NewService
  OBVIOUS
<1>3. services' = [s \in DOMAIN services \cup {svc} |->
                     IF s = svc THEN Joined(si, key, b) ELSE services[s]]
  BY <1>2 DEF Collect
<1>4. B # {} /\ Tally(b, B)
  BY <1>1 DEF Inv, BucketsTell
<1>5. \A m \in B : m \in window /\ key = <<m.line.service, m.line.pattern>>
  BY DEF OfKey, Key
<1>6. \A m \in B : svc = m.line.service /\ key[2] = m.line.pattern
  BY <1>5
<1>7. \A m \in R : m \in window /\ m.line.service = svc /\ Key(m.line) # key
  BY DEF ReadOf
<1>8. PICK n \in B : TRUE
  BY <1>4
<1>9. key = <<svc, key[2]>>
  BY <1>5
<1>10. \A m \in R : m.line.pattern # key[2]
  BY <1>7, <1>9 DEF Key
<1>11. Tally(si, R) /\ Shares(si.patterns, R)
  <2>1. CASE svc \in DOMAIN services
    BY <1>2, <2>1 DEF Inv, ServicesTell
  <2>2. CASE svc \notin DOMAIN services
    <3>1. R = {}
      BY <1>1, <2>2 DEF Inv, NoneForgotten, ReadOf
    <3>. QED
      BY <1>2, <2>2, <3>1, NothingTallied
  <2>. QED
    BY <2>1, <2>2
<1>12. R \cap B = {} /\ Texts(R) \cap Texts(B) = {}
  <2>1. R \cap B = {}
    BY <1>7 DEF OfKey
  <2>2. \A m \in R, q \in B : m.text # q.text
    BY <1>5, <1>7, <2>1 DEF Inv, Typed
  <2>. QED
    BY <2>1, <2>2 DEF Texts
<1>13. Tally(Joined(si, key, b), R \cup B)
  BY <1>4, <1>11, <1>12, JoinTallies
<1>14. Shares(Joined(si, key, b).patterns, R \cup B)
  BY <1>4, <1>6, <1>10, <1>11, JoinShares
<1>15. ReadOf(svc)' = R \cup B
  <2>1. ReadOf(svc)' = {m \in window : m.line.service = svc /\ Key(m.line) \notin unread \ {key}}
    BY <1>1 DEF ReadOf
  <2>. QED
    BY <1>6, <2>1 DEF ReadOf, OfKey
<1>16. \A s : s # svc => ReadOf(s)' = ReadOf(s)
  <2>. SUFFICES ASSUME NEW s, s # svc PROVE ReadOf(s)' = ReadOf(s)
    OBVIOUS
  <2>1. ReadOf(s)' = {m \in window : m.line.service = s /\ Key(m.line) \notin unread \ {key}}
    BY <1>1 DEF ReadOf
  <2>2. \A m \in window : m.line.service = s => Key(m.line) # key
    BY <1>9 DEF Key
  <2>. QED
    BY <2>1, <2>2 DEF ReadOf
<1>. HIDE DEF svc, R, B, b
<1>17. ServicesTell'
  <2>. SUFFICES ASSUME NEW s \in DOMAIN services'
       PROVE  Tally(services'[s], ReadOf(s)') /\ Shares(services'[s].patterns, ReadOf(s)')
    BY DEF ServicesTell, Tally, TopRank, Texts, Shares, Share, Part
  <2>1. CASE s = svc
    BY <1>3, <1>13, <1>14, <1>15, <2>1
  <2>2. CASE s # svc
    <3>1. s \in DOMAIN services /\ services'[s] = services[s] /\ ReadOf(s)' = ReadOf(s)
      BY <1>3, <1>16, <2>2
    <3>. QED
      BY <3>1 DEF Inv, ServicesTell
  <2>. QED
    BY <2>1, <2>2
<1>18. NoneForgotten'
  <2>. SUFFICES ASSUME NEW m \in window
       PROVE  Key(m.line) \in unread' \/ m.line.service \in DOMAIN services'
    BY <1>1 DEF NoneForgotten
  <2>1. Key(m.line) \in unread \/ m.line.service \in DOMAIN services
    BY <1>1 DEF Inv, NoneForgotten
  <2>2. DOMAIN services' = DOMAIN services \cup {svc}
    BY <1>3
  <2>3. Key(m.line) = key => m.line.service = svc
    BY <1>6 DEF OfKey, B
  <2>. QED
    BY <1>1, <2>1, <2>2, <2>3
<1>19. BucketsTell'
  <2>1. \A k \in unread \ {key} : OfKey(k) # {} /\ Tally(buckets[k], OfKey(k))
    BY <1>1 DEF Inv, BucketsTell
  <2>2. \A k : OfKey(k)' = OfKey(k)
    BY <1>1 DEF OfKey
  <2>. QED
    BY <1>1, <2>1, <2>2 DEF BucketsTell
<1>20. TypeOK'
  BY <1>1 DEF Inv, TypeOK
<1>21. EachLineOnce' /\ Typed'
  BY <1>1, SameHistory
<1>22. (\A i \in DOMAIN sent : Tells(sent[i]))'
  BY <1>1 DEF Inv
<1>. QED
  BY <1>17, <1>18, <1>19, <1>20, <1>21, <1>22 DEF Inv

\* A service leaves serviceMap, and its lines the window.
LEMMA HandledInv ==
  ASSUME Inv, NEW svc \in DOMAIN services, Handled(svc)
  PROVE  /\ TypeOK' /\ BucketsTell' /\ ServicesTell' /\ NoneForgotten'
         /\ IsFiniteSet(window') /\ received' \in Nat
         /\ \A l \in window' : l.line.rank \in 1..3
         /\ \A l, k \in window' : l.text = k.text => l = k
         /\ pc' # "done"
         /\ Tally(services[svc], LinesOf(svc)) /\ Shares(services[svc].patterns, LinesOf(svc))
         /\ Texts(window) = Texts(window') \cup Texts(LinesOf(svc))
         /\ Texts(window') \cap Texts(LinesOf(svc)) = {}
         /\ received' = received
<1>1. /\ pc \in {"flush", "final"} /\ pc' = pc /\ unread = {} /\ unread' = unread
      /\ services' = [s \in DOMAIN services \ {svc} |-> services[s]]
      /\ window' = window \ LinesOf(svc) /\ received' = received /\ buckets' = buckets
      /\ inClosed' = inClosed /\ cancelled' = cancelled
  BY DEF Handled
<1>2. LinesOf(svc) = ReadOf(svc)
  BY <1>1 DEF LinesOf, ReadOf
<1>3. \A s : s # svc => ReadOf(s)' = ReadOf(s)
  <2>. SUFFICES ASSUME NEW s, s # svc PROVE ReadOf(s)' = ReadOf(s)
    OBVIOUS
  <2>1. ReadOf(s)' = {m \in window \ LinesOf(svc) : m.line.service = s /\ Key(m.line) \notin unread}
    BY <1>1 DEF ReadOf
  <2>. QED
    BY <2>1 DEF ReadOf, LinesOf
<1>4. ServicesTell'
  <2>. SUFFICES ASSUME NEW s \in DOMAIN services'
       PROVE  Tally(services'[s], ReadOf(s)') /\ Shares(services'[s].patterns, ReadOf(s)')
    BY DEF ServicesTell, Tally, TopRank, Texts, Shares, Share, Part
  <2>1. s \in DOMAIN services /\ services'[s] = services[s] /\ ReadOf(s)' = ReadOf(s)
    BY <1>1, <1>3
  <2>. QED
    BY <2>1 DEF Inv, ServicesTell
<1>5. NoneForgotten'
  <2>1. \A m \in window : m.line.service \in DOMAIN services
    BY <1>1 DEF Inv, NoneForgotten
  <2>2. \A m \in window' : m \in window /\ m.line.service # svc
    BY <1>1 DEF LinesOf
  <2>3. DOMAIN services' = DOMAIN services \ {svc}
    BY <1>1
  <2>. QED
    BY <2>1, <2>2, <2>3 DEF NoneForgotten
<1>6. BucketsTell'
  BY <1>1 DEF BucketsTell
<1>7. TypeOK'
  BY <1>1 DEF Inv, TypeOK
<1>8. /\ IsFiniteSet(window') /\ received' \in Nat
      /\ \A l \in window' : l.line.rank \in 1..3
      /\ \A l, k \in window' : l.text = k.text => l = k
  <2>1. window' \in SUBSET window
    BY <1>1
  <2>2. IsFiniteSet(window')
    BY <2>1, FS_Subset DEF Inv, Typed
  <2>. QED
    BY <1>1, <2>1, <2>2 DEF Inv, Typed
<1>9. Tally(services[svc], LinesOf(svc)) /\ Shares(services[svc].patterns, LinesOf(svc))
  BY <1>2 DEF Inv, ServicesTell
<1>10. Texts(window) = Texts(window') \cup Texts(LinesOf(svc))
  BY <1>1 DEF Texts, LinesOf
<1>11. Texts(window') \cap Texts(LinesOf(svc)) = {}
  <2>1. \A m \in window', q \in LinesOf(svc) : m.text # q.text
    BY <1>1 DEF Inv, Typed, LinesOf
  <2>. QED
    BY <2>1 DEF Texts
<1>. QED
  BY <1>1, <1>4, <1>5, <1>6, <1>7, <1>8, <1>9, <1>10, <1>11

LEMMA SkipInv ==
  ASSUME Inv, NEW svc \in DOMAIN services, Skip(svc)
  PROVE  Inv'
<1>1. Handled(svc) /\ skipped' = skipped \cup LinesOf(svc) /\ sent' = sent
  BY DEF Skip
<1>2. /\ TypeOK' /\ BucketsTell' /\ ServicesTell' /\ NoneForgotten'
      /\ IsFiniteSet(window') /\ received' \in Nat
      /\ \A l \in window' : l.line.rank \in 1..3
      /\ \A l, k \in window' : l.text = k.text => l = k
      /\ pc' # "done"
      /\ Texts(window) = Texts(window') \cup Texts(LinesOf(svc))
      /\ Texts(window') \cap Texts(LinesOf(svc)) = {}
      /\ received' = received
  BY <1>1, HandledInv
<1>3. Typed'
  BY <1>1, <1>2 DEF Inv, Typed
<1>4. EachLineOnce'
  <2>1. Texts(skipped') = Texts(skipped) \cup Texts(LinesOf(svc)) /\ Reported' = Reported
    BY <1>1 DEF Texts, Reported
  <2>2. /\ Texts(window) \cup Texts(skipped) \cup Reported = 1..received
        /\ Texts(window) \cap Texts(skipped) = {}
        /\ (Texts(window) \cup Texts(skipped)) \cap Reported = {}
        /\ \A i, j \in DOMAIN sent : i # j => Texts(sent[i].lines) \cap Texts(sent[j].lines) = {}
    BY DEF Inv, EachLineOnce
  <2>3. /\ Texts(window') \cup Texts(skipped') \cup Reported' = 1..received'
        /\ Texts(window') \cap Texts(skipped') = {}
        /\ (Texts(window') \cup Texts(skipped')) \cap Reported' = {}
    BY <1>2, <2>1, <2>2
  <2>. QED
    BY <1>1, <1>2, <2>2, <2>3 DEF EachLineOnce, Texts
<1>5. (\A n \in DOMAIN sent : Tells(sent[n]))'
  BY <1>1 DEF Inv
<1>. QED
  BY <1>2, <1>3, <1>4, <1>5 DEF Inv

LEMMA EmitInv ==
  ASSUME Inv, NEW svc \in DOMAIN services, Emit(svc)
  PROVE  Inv'
<1>. DEFINE si == services[svc]
            lines == LinesOf(svc)
<1>1. Handled(svc) /\ si.count >= MinCount /\ skipped' = skipped
  BY DEF Emit
<1>2. PICK order \in SetToSeqs(si.patterns) :
        /\ \A i, j \in DOMAIN order : i < j => order[i].count >= order[j].count
        /\ sent' = Append(sent, [service |-> svc, count |-> si.count, rank |-> si.rank,
                                 samples |-> si.samples, patterns |-> order, lines |-> lines])
  BY DEF Emit
<1>3. PICK a : a = [service |-> svc, count |-> si.count, rank |-> si.rank,
                    samples |-> si.samples, patterns |-> order, lines |-> lines]
  OBVIOUS
<1>4. /\ TypeOK' /\ BucketsTell' /\ ServicesTell' /\ NoneForgotten'
      /\ IsFiniteSet(window') /\ received' \in Nat
      /\ \A l \in window' : l.line.rank \in 1..3
      /\ \A l, k \in window' : l.text = k.text => l = k
      /\ pc' # "done"
      /\ Tally(si, lines) /\ Shares(si.patterns, lines)
      /\ Texts(window) = Texts(window') \cup Texts(lines)
      /\ Texts(window') \cap Texts(lines) = {}
      /\ received' = received
  BY <1>1, HandledInv
<1>5. ToSet(order) = si.patterns /\ DOMAIN order \subseteq Nat
      /\ \A i, j \in DOMAIN order : i # j => order[i] # order[j]
  <2>1. IsFiniteSet(si.patterns) /\ Cardinality(si.patterns) \in Nat
    BY <1>4, FS_CardinalityType DEF Shares
  <2>2. /\ order \in [1..Cardinality(si.patterns) -> si.patterns]
        /\ \A i, j \in DOMAIN order : i # j => order[i] # order[j]
    BY DEF SetToSeqs
  <2>3. \A s \in si.patterns : \E i \in DOMAIN order : order[i] = s
    BY <2>1, <2>2, AllThere
  <2>. QED
    BY <2>1, <2>2, <2>3 DEF ToSet
<1>6. /\ a.service = svc /\ a.count = si.count /\ a.rank = si.rank /\ a.samples = si.samples
      /\ a.patterns = order /\ a.lines = lines
  BY <1>3
<1>7. sent' = Append(sent, a)
  BY <1>2, <1>3
<1>. HIDE DEF si, lines
<1>8. Tells(a)
  <2>1. Tally(a, a.lines)
    BY <1>4, <1>6 DEF Tally
  <2>2. \A l \in a.lines : l.line.service = a.service
    BY <1>6 DEF LinesOf, lines
  <2>3. Shares(ToSet(a.patterns), a.lines)
    BY <1>4, <1>5, <1>6
  <2>. QED
    BY <1>1, <1>2, <1>5, <1>6, <2>1, <2>2, <2>3 DEF Tells
<1>9. /\ sent' \in Seq(ToSet(sent')) /\ DOMAIN sent' = DOMAIN sent \cup {Len(sent) + 1}
      /\ Len(sent) + 1 \notin DOMAIN sent /\ sent'[Len(sent) + 1] = a
      /\ \A i \in DOMAIN sent : sent'[i] = sent[i]
  <2>. DEFINE T == ToSet(sent) \cup {a}
  <2>1. sent \in Seq(T)
    BY SeqMonotonic DEF Inv, Typed
  <2>2. a \in T
    OBVIOUS
  <2>. HIDE DEF T
  <2>3. /\ Append(sent, a) \in Seq(T) /\ ToSet(Append(sent, a)) = ToSet(sent) \cup {a}
        /\ DOMAIN Append(sent, a) = DOMAIN sent \cup {Len(sent) + 1}
        /\ Append(sent, a)[Len(sent) + 1] = a /\ Len(sent) + 1 \notin DOMAIN sent
        /\ \A i \in DOMAIN sent : Append(sent, a)[i] = sent[i]
    BY <2>1, <2>2, AppendNew
  <2>4. sent' \in Seq(ToSet(sent'))
    BY <1>7, <2>3 DEF T
  <2>. QED
    BY <1>7, <2>3, <2>4
<1>10. Typed'
  BY <1>4, <1>9 DEF Typed, ToSet
<1>11. (\A n \in DOMAIN sent : Tells(sent[n]))'
  BY <1>8, <1>9 DEF Inv
<1>12. EachLineOnce'
  <2>1. Texts(skipped') = Texts(skipped)
    BY <1>1
  <2>2. Reported' = Reported \cup Texts(lines)
    <3>1. Reported' = UNION {Texts(sent'[i].lines) : i \in DOMAIN sent'}
      BY DEF Reported, Texts
    <3>2. \A x \in Reported' : x \in Reported \/ x \in Texts(lines)
      BY <1>6, <1>9, <3>1 DEF Reported
    <3>3. \A x \in Reported : x \in Reported'
      BY <1>9, <3>1 DEF Reported
    <3>4. \A x \in Texts(lines) : x \in Reported'
      BY <1>6, <1>9, <3>1
    <3>. QED
      BY <3>2, <3>3, <3>4
  <2>3. /\ Texts(window) \cup Texts(skipped) \cup Reported = 1..received
        /\ Texts(window) \cap Texts(skipped) = {}
        /\ (Texts(window) \cup Texts(skipped)) \cap Reported = {}
        /\ \A i, j \in DOMAIN sent : i # j => Texts(sent[i].lines) \cap Texts(sent[j].lines) = {}
    BY DEF Inv, EachLineOnce
  <2>4. \A i \in DOMAIN sent : Texts(sent[i].lines) \subseteq Reported
    BY DEF Reported
  <2>5. \A i \in DOMAIN sent : Texts(sent[i].lines) \cap Texts(lines) = {}
    BY <1>4, <2>3, <2>4
  <2>6. \A i, j \in DOMAIN sent' : i # j => Texts(sent'[i].lines) \cap Texts(sent'[j].lines) = {}
    BY <1>6, <1>9, <2>3, <2>5
  <2>7. /\ Texts(window') \cup Texts(skipped') \cup Reported' = 1..received'
        /\ Texts(window') \cap Texts(skipped') = {}
        /\ (Texts(window') \cup Texts(skipped')) \cap Reported' = {}
    BY <1>4, <2>1, <2>2, <2>3
  <2>. QED
    BY <1>4, <2>6, <2>7 DEF EachLineOnce, Texts
<1>. QED
  BY <1>4, <1>10, <1>11, <1>12 DEF Inv

LEMMA FlushReturnsInv ==
  ASSUME Inv, FlushReturns
  PROVE  Inv'
<1>1. /\ pc \in {"flush", "final"} /\ unread = {} /\ DOMAIN services = {} /\ buckets' = <<>>
      /\ pc' \in {"select", "done"} /\ received' = received /\ window' = window
      /\ unread' = unread /\ services' = services /\ inClosed' = inClosed
      /\ cancelled' = cancelled /\ sent' = sent /\ skipped' = skipped /\ DOMAIN <<>> = {}
  BY DEF FlushReturns
<1>2. window = {}
  BY <1>1 DEF Inv, NoneForgotten
<1>3. TypeOK'
  BY <1>1, <1>2 DEF Inv, TypeOK
<1>4. EachLineOnce' /\ Typed'
  BY <1>1, <1>2, SameHistory
<1>5. BucketsTell' /\ ServicesTell' /\ NoneForgotten'
  BY <1>1, <1>2 DEF BucketsTell, ServicesTell, NoneForgotten
<1>6. (\A n \in DOMAIN sent : Tells(sent[n]))'
  BY <1>1 DEF Inv
<1>. QED
  BY <1>3, <1>4, <1>5, <1>6 DEF Inv

\* The environment's steps change nothing the invariant relates.
LEMMA SameInv ==
  ASSUME Inv, inClosed' \in BOOLEAN, cancelled' \in BOOLEAN,
         UNCHANGED <<received, pc, buckets, window, unread, services, sent, skipped>>
  PROVE  Inv'
<1>1. TypeOK'
  BY DEF Inv, TypeOK
<1>2. EachLineOnce' /\ Typed'
  <2>1. pc' = "done" => window = {}
    BY DEF Inv, EachLineOnce
  <2>. QED
    BY <2>1, SameHistory
<1>3. BucketsTell' /\ ServicesTell' /\ NoneForgotten'
  BY DEF Inv, BucketsTell, ServicesTell, NoneForgotten, OfKey, ReadOf
<1>4. (\A n \in DOMAIN sent : Tells(sent[n]))'
  BY DEF Inv
<1>. QED
  BY <1>1, <1>2, <1>3, <1>4 DEF Inv

LEMMA InvStep ==
  ASSUME Inv, [Next]_vars
  PROVE  Inv'
<1>1. CASE TimerFires
  BY <1>1, StartFlushInv DEF TimerFires
<1>2. CASE FinalFlush
  BY <1>2, StartFlushInv DEF FinalFlush
<1>3. CASE CloseInput
  BY <1>3, SameInv DEF CloseInput, Inv, TypeOK
<1>4. CASE Cancel
  BY <1>4, SameInv DEF Cancel, Inv, TypeOK
<1>5. CASE UNCHANGED vars
  BY <1>5, SameInv DEF vars, Inv, TypeOK
<1>. QED
  BY <1>1, <1>2, <1>3, <1>4, <1>5, ReceiveInv, FlushReturnsInv, CollectInv, SkipInv, EmitInv DEF Next
-----------------------------------------------------------------------------
\* The inductive invariant: every line of the window is in the bucket or, during
\* a flush, in the service that tells of it.
THEOREM Invariance == Spec => []Inv
BY InitInv, InvStep, PTL DEF Spec

\* Outside a flush the buckets are those of the window's lines, none holds more
\* samples than its cap, and a flush leaves nothing in serviceMap.
THEOREM TypeCorrect == Spec => []TypeOK
<1>1. Inv => TypeOK
  BY DEF Inv
<1>. QED
  BY <1>1, Invariance, PTL

\* Whatever the windows, the order of the maps and the end, every line received
\* is told of once, or belongs to a service its window found too quiet.
THEOREM LinesToldOnce == Spec => []EachLineOnce
<1>1. Inv => EachLineOnce
  BY DEF Inv
<1>. QED
  BY <1>1, Invariance, PTL

\* Every alert has the count, the level, the samples and the pattern summaries
\* of its lines, whatever the order in which the flush reads the maps.
THEOREM AlertsTell == Spec => []AlertTellsItsWindow
<1>1. Inv => AlertTellsItsWindow
  BY Told DEF Inv, AlertTellsItsWindow
<1>. QED
  BY <1>1, Invariance, PTL
-----------------------------------------------------------------------------
(***************************************************************************)
(* Arithmetic of the updates: s / w is the mean, q / (w * w) the variance, *)
(* and c the count of a window.                                            *)
(***************************************************************************)
NextSum(A, B, w, s, c) == B * s + A * (c * w - s)
NextSquares(A, B, w, s, q, c) == (B - A) * (B * q + A * ((c * w - s) * (c * w - s)))

Within(lo, hi, w, s, q) ==
  lo * w <= s /\ s <= hi * w /\ q <= (hi * w - s) * (s - lo * w)

IsNear(m, f, c, w, s, q) ==
  (c * w - s) * (c * w - s) <= (m * m) * q /\ c * w <= f * s

LEMMA Products ==
  ASSUME NEW x \in Nat, NEW y \in Nat
  PROVE  x * y \in Nat /\ x * x \in Nat
OBVIOUS

LEMMA Monotone ==
  ASSUME NEW a \in Nat, NEW x \in Int, NEW y \in Int, x <= y
  PROVE  a * x <= a * y
OBVIOUS

LEMMA Natural ==
  ASSUME NEW A \in Nat, NEW B \in Nat \ {0}, A <= B,
         NEW w \in Nat \ {0}, NEW s \in Nat, NEW q \in Nat, NEW c \in Nat
  PROVE  /\ B * w \in Nat \ {0}
         /\ NextSum(A, B, w, s, c) \in Nat /\ NextSquares(A, B, w, s, q, c) \in Nat
<1>0. PICK d, s2, w2, q2 :
        /\ d = c * w - s /\ s2 = B * s + A * d /\ w2 = B * w
        /\ q2 = (B - A) * (B * q + A * (d * d))
  OBVIOUS
<1>. USE <1>0
<1>1. d \in Int /\ d * d \in Nat /\ B - A \in Nat /\ c * w \in Nat
  <2>1. d \in Int
    OBVIOUS
  <2>. QED
    BY <2>1, Products
<1>2. s2 = (B - A) * s + A * (c * w)
  OBVIOUS
<1>3. s2 \in Nat
  BY <1>1, <1>2, Products
<1>4. q2 \in Nat
  <2>1. B * q \in Nat /\ A * (d * d) \in Nat
    BY <1>1, Products
  <2>. QED
    BY <1>1, <2>1, Products
<1>5. w2 \in Nat \ {0}
  OBVIOUS
<1>. QED
  BY <1>3, <1>4, <1>5 DEF NextSum, NextSquares

\* Of counts between lo and hi the variance is at most (hi - mean) * (mean - lo),
\* and an update preserves that.
LEMMA Spread ==
  ASSUME NEW A \in Nat, NEW B \in Nat, A <= B,
         NEW w \in Nat, NEW s \in Nat, NEW q \in Nat, NEW c \in Nat,
         NEW lo \in Nat, NEW hi \in Nat, lo <= c, c <= hi,
         Within(lo, hi, w, s, q)
  PROVE  Within(lo, hi, B * w, NextSum(A, B, w, s, c), NextSquares(A, B, w, s, q, c))
<1>0. PICK d, s2, w2, q2 :
        /\ d = c * w - s /\ s2 = B * s + A * d /\ w2 = B * w
        /\ q2 = (B - A) * (B * q + A * (d * d))
  OBVIOUS
<1>a. lo * w <= s /\ s <= hi * w /\ q <= (hi * w - s) * (s - lo * w)
  BY DEF Within
<1>. USE <1>0, <1>a
<1>. DEFINE x == hi * w - s
            y == s - lo * w
<1>1. x \in Nat /\ y \in Nat /\ d \in Int /\ q <= x * y
  OBVIOUS
<1>2. -y <= d /\ d <= x
  BY Monotone
<1>3. hi * w2 - s2 = B * x - A * d
  OBVIOUS
<1>4. s2 - lo * w2 = B * y + A * d
  OBVIOUS
<1>. HIDE DEF x, y
<1>5. B * x - A * d >= 0
  <2>1. A * d <= A * x
    BY <1>1, <1>2
  <2>2. A * x <= B * x
    BY <1>1
  <2>. QED
    BY <1>1, <2>1, <2>2
<1>6. B * y + A * d >= 0
  <2>1. A * (-y) <= A * d
    BY <1>1, <1>2, Monotone
  <2>2. A * y <= B * y
    BY <1>1
  <2>3. A * (-y) = -(A * y)
    BY <1>1
  <2>. QED
    BY <1>1, <2>1, <2>2, <2>3
<1>7. q2 <= (B - A) * (B * (x * y) + A * (d * d))
  <2>1. B * q <= B * (x * y)
    BY <1>1, Monotone
  <2>2. B * q + A * (d * d) <= B * (x * y) + A * (d * d)
    BY <1>1, <2>1
  <2>. QED
    BY <1>1, <2>2, Monotone
<1>8. (B * x - A * d) * (B * y + A * d) - (B - A) * (B * (x * y) + A * (d * d))
        = (A * B) * ((x - d) * (y + d))
  BY <1>1
<1>9. (A * B) * ((x - d) * (y + d)) >= 0
  <2>1. x - d \in Nat /\ y + d \in Nat
    BY <1>1, <1>2
  <2>2. (x - d) * (y + d) \in Nat
    BY <2>1
  <2>. QED
    BY <2>2
<1>10. q2 <= (B * x - A * d) * (B * y + A * d)
  BY <1>1, <1>7, <1>8, <1>9
<1>11. lo * w2 <= s2 /\ s2 <= hi * w2 /\ q2 <= (hi * w2 - s2) * (s2 - lo * w2)
  BY <1>3, <1>4, <1>5, <1>6, <1>10, <1>1
<1>. QED
  BY <1>11 DEF Within, NextSum, NextSquares

\* A count that lies above hi by more than half of m times the spread lies above
\* the mean by more than m standard deviations.
LEMMA FarOutlies ==
  ASSUME NEW m \in Nat, NEW w \in Nat \ {0}, NEW s \in Nat, NEW q \in Nat, NEW c \in Nat,
         NEW lo \in Nat, NEW hi \in Nat,
         Within(lo, hi, w, s, q),
         2 * (c - hi) > m * (hi - lo)
  PROVE  c * w - s > 0 /\ (c * w - s) * (c * w - s) > (m * m) * q
<1>0. PICK d : d = c * w - s
  OBVIOUS
<1>a. lo * w <= s /\ s <= hi * w /\ q <= (hi * w - s) * (s - lo * w)
  BY DEF Within
<1>. USE <1>0, <1>a
<1>. DEFINE x == hi * w - s
            y == s - lo * w
            g == c - hi
<1>1. x \in Nat /\ y \in Nat /\ q <= x * y /\ g \in Int /\ d \in Int
  OBVIOUS
<1>2. x + y = (hi - lo) * w /\ d = g * w + x
  OBVIOUS
<1>3. hi - lo \in Int
  OBVIOUS
<1>. HIDE DEF x, y, g
<1>4. (m * (hi - lo)) * w = m * (x + y)
  BY <1>1, <1>2, <1>3
<1>5. 2 * (g * w) > m * (x + y)
  <2>1. 2 * g > m * (hi - lo)
    BY DEF g
  <2>2. (2 * g) * w > (m * (hi - lo)) * w
    BY <1>1, <1>3, <2>1
  <2>. QED
    BY <1>1, <1>4, <2>2
<1>6. 2 * d > m * (x + y) /\ m * (x + y) \in Nat
  BY <1>1, <1>2, <1>5
<1>7. (2 * d) * (2 * d) > (m * (x + y)) * (m * (x + y))
  <2>. DEFINE e == 2 * d
              f == m * (x + y)
  <2>1. e \in Nat /\ f \in Nat /\ e > f
    BY <1>1, <1>6
  <2>. HIDE DEF e, f
  <2>2. e * e > f * f
    BY <2>1
  <2>. QED
    BY <2>2 DEF e, f
<1>8. (m * (x + y)) * (m * (x + y)) = (m * m) * ((x - y) * (x - y)) + 4 * ((m * m) * (x * y))
  BY <1>1
<1>9. (m * m) * ((x - y) * (x - y)) >= 0
  <2>1. (x - y) * (x - y) \in Nat
    BY <1>1
  <2>. QED
    BY <2>1
<1>10. (m * m) * q <= (m * m) * (x * y)
  <2>1. m * m \in Nat /\ x * y \in Int /\ q \in Int
    BY <1>1
  <2>. QED
    BY <1>1, <2>1, Monotone
<1>11. 4 * (d * d) = (2 * d) * (2 * d)
  BY <1>1
<1>. DEFINE X == (m * m) * (x * y)
            Q == (m * m) * q
            DD == d * d
<1>12. 4 * DD > 4 * X /\ Q <= X /\ DD \in Int /\ X \in Int /\ Q \in Int
  BY <1>1, <1>7, <1>8, <1>9, <1>10, <1>11
<1>. HIDE DEF X, Q, DD
<1>13. DD > Q
  BY <1>12
<1>. QED
  BY <1>1, <1>6, <1>13 DEF DD, Q

\* After an update with a count, the same count is within m standard deviations
\* and below f times the mean, if the decay settles.
LEMMA SettledLevel ==
  ASSUME NEW A \in Nat, NEW B \in Nat, A <= B, NEW m \in Nat, NEW f \in Nat,
         B - A <= (m * m) * A, B <= f * A,
         NEW w \in Nat, NEW s \in Nat, NEW q \in Nat, NEW c \in Nat
  PROVE  IsNear(m, f, c, B * w, NextSum(A, B, w, s, c), NextSquares(A, B, w, s, q, c))
<1>0. PICK d, s2, w2, q2, d2 :
        /\ d = c * w - s /\ s2 = B * s + A * d /\ w2 = B * w
        /\ q2 = (B - A) * (B * q + A * (d * d)) /\ d2 = c * w2 - s2
  OBVIOUS
<1>. USE <1>0
<1>. DEFINE k == B - A
            p == m * m
            dd == d * d
<1>1. d \in Int /\ k \in Nat /\ p \in Nat /\ dd \in Nat /\ k <= p * A
  <2>1. d \in Int
    OBVIOUS
  <2>. QED
    BY <2>1
<1>2. d2 = k * d
  OBVIOUS
<1>3. s2 = k * s + A * (c * w)
  OBVIOUS
<1>4. q2 = k * (B * q + A * dd)
  OBVIOUS
<1>5. d2 * d2 = (k * k) * dd
  BY <1>1, <1>2
<1>. HIDE DEF k, p, dd
<1>6. d2 * d2 <= p * q2
  <2>1. k * k <= (p * A) * k
    BY <1>1
  <2>2. k * k \in Nat /\ (p * A) * k \in Nat
    BY <1>1
  <2>3. dd * (k * k) <= dd * ((p * A) * k)
    BY <1>1, <2>1, <2>2, Monotone
  <2>4. p * q2 = dd * ((p * A) * k) + p * (k * (B * q))
    BY <1>1, <1>4
  <2>5. p * (k * (B * q)) \in Nat
    <3>1. B * q \in Nat
      OBVIOUS
    <3>2. k * (B * q) \in Nat
      BY <1>1, <3>1
    <3>. QED
      BY <1>1, <3>2
  <2>6. (k * k) * dd = dd * (k * k)
    BY <1>1, <2>2
  <2>7. dd * (k * k) \in Nat /\ dd * ((p * A) * k) \in Nat
    BY <1>1, <2>2
  <2>. QED
    BY <1>5, <2>3, <2>4, <2>5, <2>6, <2>7
<1>7. c * w2 <= f * s2
  <2>. DEFINE z == c * w
  <2>1. z \in Nat /\ c * w2 = B * z
    OBVIOUS
  <2>2. f * s2 = f * (k * s) + (f * A) * z
    <3>1. s2 = k * s + A * z
      BY <1>3
    <3>. HIDE DEF z
    <3>. QED
      BY <1>1, <2>1, <3>1
  <2>. HIDE DEF z
  <2>3. f * (k * s) \in Nat
    <3>1. k * s \in Nat
      BY <1>1
    <3>. QED
      BY <3>1
  <2>4. B * z <= (f * A) * z
    BY <2>1
  <2>5. (f * A) * z \in Nat /\ B * z \in Nat
    BY <2>1
  <2>. QED
    BY <2>1, <2>2, <2>3, <2>4, <2>5
<1>. QED
  BY <1>6, <1>7 DEF p, IsNear, NextSum, NextSquares

(***************************************************************************)
(* Sums and powers, which Detector defines by recursion.  Induction is     *)
(* over a set of numbers that has 0 and, with each of them, the next.      *)
(***************************************************************************)
LEMMA UpTo ==
  ASSUME NEW n \in Nat, NEW S, 0 \in S, \A i \in 1..n : i - 1 \in S => i \in S
  PROVE  \A i \in 0..n : i \in S
<1>. DEFINE T == {i \in 0..n : i \notin S}
<1>1. SUFFICES ASSUME T # {} PROVE FALSE
  OBVIOUS
<1>2. T \in SUBSET Nat
  OBVIOUS
<1>3. PICK m \in T : \A i \in T : ~(i < m)
  <2>. HIDE DEF T
  <2>1. PICK m \in T : \A i \in T : <<i, m>> \notin OpToRel(<, Nat)
    BY <1>1, <1>2, NatLessThanWellFounded, WFMin
  <2>. QED
    BY <1>2, <2>1 DEF OpToRel
<1>4. m \in 1..n /\ m - 1 \in 0..n
  OBVIOUS
<1>5. m - 1 \in S
  BY <1>3, <1>4
<1>. QED
  BY <1>4, <1>5

LEMMA SameRun ==
  ASSUME NEW n \in Nat, NEW p, NEW q, p[0] = q[0],
         \A i \in 1..n : p[i - 1] = q[i - 1] => p[i] = q[i]
  PROVE  \A i \in 0..n : p[i] = q[i]
<1>. DEFINE S == {i \in 0..n : p[i] = q[i]}
<1>1. 0 \in S /\ \A i \in 1..n : i - 1 \in S => i \in S
  OBVIOUS
<1>. HIDE DEF S
<1>2. \A i \in 0..n : i \in S
  BY <1>1, UpTo
<1>. QED
  BY <1>2 DEF S

\* p[0], ..., p[n] with p[i] = a * p[i-1] + f[i].
IsRun(p, n, c, a, f) ==
  /\ p \in [0..n -> Int]
  /\ p[0] = c
  /\ \A i \in 1..n : p[i] = a * p[i - 1] + f[i]

LEMMA RunExists ==
  ASSUME NEW n \in Nat, NEW c \in Int, NEW a \in Int, NEW f \in [1..n -> Int]
  PROVE  \E p : IsRun(p, n, c, a, f)
<1>. DEFINE S == {m \in Nat : m <= n => \E p : IsRun(p, m, c, a, f)}
<1>1. 0 \in S
  <2>. DEFINE p == [i \in 0..0 |-> c]
  <2>1. IsRun(p, 0, c, a, f)
    BY DEF IsRun
  <2>. HIDE DEF p
  <2>. QED
    BY <2>1
<1>2. ASSUME NEW m \in 1..n, m - 1 \in S PROVE m \in S
  <2>1. PICK p : IsRun(p, m - 1, c, a, f)
    BY <1>2
  <2>. DEFINE q == [i \in 0..m |-> IF i = m THEN a * p[m - 1] + f[m] ELSE p[i]]
  <2>2. m - 1 \in 0..m - 1 /\ p \in [0..m - 1 -> Int] /\ p[m - 1] \in Int /\ f[m] \in Int
    BY <2>1 DEF IsRun
  <2>3. a * p[m - 1] + f[m] \in Int
    BY <2>2
  <2>4. q \in [0..m -> Int] /\ \A i \in 0..m - 1 : q[i] = p[i]
    BY <2>2, <2>3
  <2>5. q[0] = c
    BY <2>1, <2>4 DEF IsRun
  <2>6. ASSUME NEW i \in 1..m PROVE q[i] = a * q[i - 1] + f[i]
    <3>1. i - 1 \in 0..m - 1 /\ q[i - 1] = p[i - 1]
      BY <2>4
    <3>2. CASE i = m
      BY <3>1, <3>2
    <3>3. CASE i # m
      <4>1. i \in 1..m - 1
        BY <3>3
      <4>2. q[i] = p[i] /\ p[i] = a * p[i - 1] + f[i]
        BY <2>1, <2>4, <4>1 DEF IsRun
      <4>. HIDE DEF q
      <4>. QED
        BY <3>1, <4>2
    <3>. QED
      BY <3>2, <3>3
  <2>7. IsRun(q, m, c, a, f)
    <3>. HIDE DEF q
    <3>. QED
      BY <2>4, <2>5, <2>6 DEF IsRun
  <2>. HIDE DEF q
  <2>. QED
    BY <2>7
<1>. HIDE DEF S
<1>3. n \in S
  <2>1. n \in 0..n
    OBVIOUS
  <2>. QED
    BY <1>1, <1>2, <2>1, UpTo
<1>. QED
  BY <1>3 DEF S

LEMMA PowerRuns ==
  ASSUME NEW b \in Int, NEW n \in Nat
  PROVE  \E p : IsRun(p, n, 1, b, [i \in 1..n |-> 0]) /\ Power(b, n) = p[n]
<1>. DEFINE power[i \in 0..n] == IF i = 0 THEN 1 ELSE b * power[i - 1]
<1>1. PICK p : IsRun(p, n, 1, b, [i \in 1..n |-> 0])
  BY RunExists
<1>2. p \in [0..n -> Int] /\ p[0] = 1 /\ \A i \in 1..n : p[i] = b * p[i - 1]
  BY <1>1 DEF IsRun
<1>3. power = [i \in 0..n |-> IF i = 0 THEN 1 ELSE b * power[i - 1]]
  <2>1. p = [i \in 0..n |-> IF i = 0 THEN 1 ELSE b * p[i - 1]]
    BY <1>2
  <2>. QED
    BY <2>1
<1>4. PICK q : q = power
  OBVIOUS
<1>5. Power(b, n) = q[n]
  BY <1>4 DEF Power, power
<1>. HIDE DEF power
<1>6. /\ q = [i \in 0..n |-> q[i]] /\ q[0] = 1
      /\ \A i \in 1..n : q[i] = b * q[i - 1]
  BY <1>3, <1>4
<1>7. \A i \in 0..n : q[i] = p[i]
  <2>1. q[0] = p[0] /\ \A i \in 1..n : q[i - 1] = p[i - 1] => q[i] = p[i]
    BY <1>2, <1>6
  <2>. QED
    BY <2>1, SameRun
<1>. QED
  <2>1. n \in 0..n
    OBVIOUS
  <2>. QED
    BY <1>1, <1>5, <1>7, <2>1

LEMMA TotalRuns ==
  ASSUME NEW n \in Nat, NEW f \in [1..n -> Int]
  PROVE  \E p : IsRun(p, n, 0, 1, f) /\ Total(f, n) = p[n]
<1>. DEFINE total[i \in 0..n] == IF i = 0 THEN 0 ELSE total[i - 1] + f[i]
<1>1. PICK p : IsRun(p, n, 0, 1, f)
  BY RunExists
<1>2. p \in [0..n -> Int] /\ p[0] = 0 /\ \A i \in 1..n : p[i] = p[i - 1] + f[i]
  <2>1. ASSUME NEW i \in 1..n PROVE p[i] = 1 * p[i - 1] + f[i] /\ p[i - 1] \in Int
    BY <1>1 DEF IsRun
  <2>. QED
    BY <1>1, <2>1 DEF IsRun
<1>3. total = [i \in 0..n |-> IF i = 0 THEN 0 ELSE total[i - 1] + f[i]]
  <2>1. p = [i \in 0..n |-> IF i = 0 THEN 0 ELSE p[i - 1] + f[i]]
    BY <1>2
  <2>. QED
    BY <2>1
<1>4. PICK q : q = total
  OBVIOUS
<1>5. Total(f, n) = q[n]
  BY <1>4 DEF Total, total
<1>. HIDE DEF total
<1>6. /\ q = [i \in 0..n |-> q[i]] /\ q[0] = 0
      /\ \A i \in 1..n : q[i] = q[i - 1] + f[i]
  BY <1>3, <1>4
<1>7. \A i \in 0..n : q[i] = p[i]
  <2>. DEFINE S == {i \in 0..n : q[i] = p[i]}
  <2>1. 0 \in S
    BY <1>2, <1>6
  <2>2. ASSUME NEW i \in 1..n, i - 1 \in S PROVE i \in S
    <3>1. q[i - 1] = p[i - 1]
      BY <2>2
    <3>2. p[i] = p[i - 1] + f[i] /\ q[i] = q[i - 1] + f[i]
      BY <1>2, <1>6
    <3>3. q[i] = p[i]
      BY <3>1, <3>2
    <3>. QED
      BY <3>3
  <2>. HIDE DEF S
  <2>3. \A i \in 0..n : i \in S
    BY <2>1, <2>2, UpTo
  <2>. QED
    BY <2>3 DEF S
<1>. QED
  <2>1. n \in 0..n
    OBVIOUS
  <2>. QED
    BY <1>1, <1>5, <1>7, <2>1

\* b^0 = 1, and b^(n+1) = b * b^n.
LEMMA PowerStep ==
  ASSUME NEW b \in Int, NEW n \in Nat
  PROVE  Power(b, 0) = 1 /\ Power(b, n) \in Int /\ Power(b, n + 1) = b * Power(b, n)
<1>1. Power(b, 0) = 1
  BY PowerRuns DEF IsRun
<1>2. PICK p : IsRun(p, n, 1, b, [i \in 1..n |-> 0]) /\ Power(b, n) = p[n]
  BY PowerRuns
<1>3. PICK q : IsRun(q, n + 1, 1, b, [i \in 1..n + 1 |-> 0]) /\ Power(b, n + 1) = q[n + 1]
  <2>1. n + 1 \in Nat
    OBVIOUS
  <2>. QED
    BY <2>1, PowerRuns
<1>4. /\ p \in [0..n -> Int] /\ p[0] = 1 /\ \A i \in 1..n : p[i] = b * p[i - 1] + 0
      /\ q \in [0..n + 1 -> Int] /\ q[0] = 1 /\ \A i \in 1..n + 1 : q[i] = b * q[i - 1] + 0
  BY <1>2, <1>3 DEF IsRun
<1>6. q[n] = p[n] /\ p[n] \in Int
  <2>1. q[0] = p[0] /\ \A i \in 1..n : q[i - 1] = p[i - 1] => q[i] = p[i]
    BY <1>4
  <2>2. \A i \in 0..n : q[i] = p[i]
    BY <2>1, SameRun
  <2>. QED
    BY <1>4, <2>2
<1>7. q[n + 1] = b * q[n]
  <2>1. n + 1 \in 1..n + 1 /\ n + 1 - 1 = n
    OBVIOUS
  <2>2. q[n + 1] = b * q[n] + 0
    BY <1>4, <2>1
  <2>. QED
    BY <1>6, <2>2
<1>. QED
  BY <1>1, <1>2, <1>3, <1>6, <1>7

\* A total of n + 1 terms whose first n are r times those of another.
LEMMA TotalStep ==
  ASSUME NEW n \in Nat, NEW f \in [1..n -> Int], NEW g \in [1..n + 1 -> Int], NEW r \in Int,
         \A i \in 1..n : g[i] = r * f[i]
  PROVE  Total(g, n + 1) = r * Total(f, n) + g[n + 1]
<1>1. PICK p : IsRun(p, n, 0, 1, f) /\ Total(f, n) = p[n]
  BY TotalRuns
<1>2. PICK q : IsRun(q, n + 1, 0, 1, g) /\ Total(g, n + 1) = q[n + 1]
  <2>1. n + 1 \in Nat
    OBVIOUS
  <2>. QED
    BY <2>1, TotalRuns
<1>3. /\ p \in [0..n -> Int] /\ p[0] = 0 /\ \A i \in 1..n : p[i] = 1 * p[i - 1] + f[i]
      /\ q \in [0..n + 1 -> Int] /\ q[0] = 0 /\ \A i \in 1..n + 1 : q[i] = 1 * q[i - 1] + g[i]
  BY <1>1, <1>2 DEF IsRun
<1>. DEFINE S == {i \in 0..n : q[i] = r * p[i]}
<1>4. 0 \in S
  BY <1>3
<1>5. ASSUME NEW i \in 1..n, i - 1 \in S PROVE i \in S
  <2>1. PICK x, y : x = p[i - 1] /\ y = f[i]
    OBVIOUS
  <2>2. x \in Int /\ y \in Int /\ p[i] = 1 * x + y /\ q[i] = 1 * (r * x) + r * y
    <3>1. i \in 1..n + 1 /\ i - 1 \in 0..n
      OBVIOUS
    <3>. QED
      BY <1>3, <1>5, <2>1, <3>1
  <2>3. 1 * (r * x) + r * y = r * (1 * x + y)
    BY <2>2
  <2>. QED
    BY <2>2, <2>3
<1>. HIDE DEF S
<1>6. n \in S
  <2>1. n \in 0..n
    OBVIOUS
  <2>. QED
    BY <1>4, <1>5, <2>1, UpTo
<1>7. q[n] = r * p[n] /\ p[n] \in Int
  BY <1>3, <1>6 DEF S
<1>8. q[n + 1] = 1 * q[n] + g[n + 1] /\ g[n + 1] \in Int
  <2>1. n + 1 \in 1..n + 1 /\ n + 1 - 1 = n
    OBVIOUS
  <2>. QED
    BY <1>3, <2>1
<1>. QED
  BY <1>1, <1>2, <1>7, <1>8

LEMMA TotalType ==
  ASSUME NEW n \in Nat, NEW f \in [1..n -> Int]
  PROVE  Total(f, n) \in Int
BY TotalRuns DEF IsRun

Combines(k, n, x, f, y, g, z, h) ==
  /\ f \in [1..n -> Int] /\ g \in [1..n -> Int] /\ h \in [1..n -> Int] /\ k \in [1..n -> Int]
  /\ \A i \in 1..n : k[i] = x * f[i] + y * g[i] + z * h[i]

\* A total of squared distances, from the totals of its three terms.
LEMMA TotalCombines ==
  ASSUME NEW n \in Nat, NEW f, NEW g, NEW h, NEW k, NEW x \in Int, NEW y \in Int, NEW z \in Int,
         Combines(k, n, x, f, y, g, z, h)
  PROVE  Total(k, n) = x * Total(f, n) + y * Total(g, n) + z * Total(h, n)
<1>0. f \in [1..n -> Int] /\ g \in [1..n -> Int] /\ h \in [1..n -> Int] /\ k \in [1..n -> Int]
  BY DEF Combines
<1>1. PICK p : IsRun(p, n, 0, 1, f) /\ Total(f, n) = p[n]
  BY <1>0, TotalRuns
<1>2. PICK q : IsRun(q, n, 0, 1, g) /\ Total(g, n) = q[n]
  BY <1>0, TotalRuns
<1>3. PICK r : IsRun(r, n, 0, 1, h) /\ Total(h, n) = r[n]
  BY <1>0, TotalRuns
<1>4. PICK s : IsRun(s, n, 0, 1, k) /\ Total(k, n) = s[n]
  BY <1>0, TotalRuns
<1>. DEFINE S == {i \in 0..n : s[i] = x * p[i] + y * q[i] + z * r[i]}
<1>5. 0 \in S
  BY <1>1, <1>2, <1>3, <1>4 DEF IsRun
<1>6. ASSUME NEW i \in 1..n, i - 1 \in S PROVE i \in S
  <2>1. PICK p0, q0, r0, p1, q1, r1 : p0 = p[i - 1] /\ q0 = q[i - 1] /\ r0 = r[i - 1]
                                      /\ p1 = f[i] /\ q1 = g[i] /\ r1 = h[i]
    OBVIOUS
  <2>2. p0 \in Int /\ q0 \in Int /\ r0 \in Int /\ p1 \in Int /\ q1 \in Int /\ r1 \in Int
    BY <1>0, <1>1, <1>2, <1>3, <2>1 DEF IsRun
  <2>3. p[i] = 1 * p0 + p1 /\ q[i] = 1 * q0 + q1 /\ r[i] = 1 * r0 + r1
    BY <1>0, <1>1, <1>2, <1>3, <2>1 DEF IsRun
  <2>4. s[i] = 1 * (x * p0 + y * q0 + z * r0) + (x * p1 + y * q1 + z * r1)
    BY <1>4, <1>6, <2>1 DEF IsRun, Combines
  <2>5. 1 * (x * p0 + y * q0 + z * r0) + (x * p1 + y * q1 + z * r1)
          = x * (1 * p0 + p1) + y * (1 * q0 + q1) + z * (1 * r0 + r1)
    BY <2>2
  <2>. QED
    BY <2>3, <2>4, <2>5
<1>. HIDE DEF S
<1>7. n \in S
  <2>1. n \in 0..n
    OBVIOUS
  <2>. QED
    BY <1>5, <1>6, <2>1, UpTo
<1>. QED
  BY <1>1, <1>2, <1>3, <1>4, <1>7 DEF S
LEMMA DetectorParams ==
  /\ Count \subseteq Nat \ {0}
  /\ Alpha \in Nat \ {0} /\ Base \in Nat \ {0} /\ Alpha <= Base
  /\ SpikeMultiplier \in Nat \ {0} /\ RateJumpFactor \in Nat \ {0}
  /\ MinSamples \in Nat \ {0} /\ NewPatternGrace \in Nat
BY DetectorAssumption DEF DetectorAssumption

(***************************************************************************)
(* Weights, and the totals of counts and of their squares.                 *)
(***************************************************************************)
Moment(f, k) == Total([i \in 1..k |-> Weight(i, k) * f[i]], k)

\* A further count makes the earlier ones weigh less.
LEMMA WeightStep ==
  ASSUME NEW k \in Nat \ {0}
  PROVE  /\ \A i \in 1..k : Weight(i, k) \in Int /\ Weight(i, k + 1) = (Base - Alpha) * Weight(i, k)
         /\ Weight(k + 1, k + 1) = Alpha * Power(Base, k - 1)
         /\ Weight(1, 1) = 1
<1>1. Base \in Int /\ Alpha \in Int /\ Base - Alpha \in Int /\ 0 \in Nat
  BY DetectorParams
<1>2. ASSUME NEW i \in 1..k
      PROVE  Weight(i, k) \in Int /\ Weight(i, k + 1) = (Base - Alpha) * Weight(i, k)
  <2>1. PICK d : d = Base - Alpha
    OBVIOUS
  <2>2. CASE i = 1
    <3>1. k - 1 \in Nat /\ k + 1 - 1 = (k - 1) + 1
      OBVIOUS
    <3>2. Power(d, k - 1) \in Int /\ Power(d, (k - 1) + 1) = d * Power(d, k - 1)
      BY <1>1, <2>1, <3>1, PowerStep
    <3>3. Weight(i, k) = Power(d, k - 1) /\ Weight(i, k + 1) = Power(d, k + 1 - 1)
      BY <2>1, <2>2 DEF Weight
    <3>. QED
      BY <2>1, <3>1, <3>2, <3>3
  <2>3. CASE i # 1
    <3>1. k - i \in Nat /\ k + 1 - i = (k - i) + 1 /\ i - 2 \in Nat
      BY <2>3
    <3>2. Power(d, k - i) \in Int /\ Power(d, (k - i) + 1) = d * Power(d, k - i)
      BY <1>1, <2>1, <3>1, PowerStep
    <3>3. Power(Base, i - 2) \in Int
      BY <1>1, <3>1, PowerStep
    <3>4. PICK x, y : x = Power(d, k - i) /\ y = Power(Base, i - 2)
      OBVIOUS
    <3>5. Weight(i, k) = Alpha * x * y /\ Weight(i, k + 1) = Alpha * (d * x) * y
      BY <2>1, <2>3, <3>1, <3>2, <3>4 DEF Weight
    <3>6. Alpha * (d * x) * y = d * (Alpha * x * y) /\ Alpha * x * y \in Int
      BY <1>1, <2>1, <3>2, <3>3, <3>4
    <3>. QED
      BY <2>1, <3>5, <3>6
  <2>. QED
    BY <2>2, <2>3
<1>3. Weight(k + 1, k + 1) = Alpha * Power(Base, k - 1)
  <2>1. k + 1 # 1 /\ k + 1 - (k + 1) = 0 /\ k + 1 - 2 = k - 1 /\ k - 1 \in Nat
    OBVIOUS
  <2>2. Power(Base - Alpha, 0) = 1 /\ Power(Base, k - 1) \in Int
    BY <1>1, <2>1, PowerStep
  <2>3. Weight(k + 1, k + 1) = Alpha * 1 * Power(Base, k - 1)
    BY <2>1, <2>2 DEF Weight
  <2>. QED
    BY <1>1, <2>2, <2>3
<1>4. Weight(1, 1) = 1
  <2>1. Power(Base - Alpha, 0) = 1
    BY <1>1, PowerStep
  <2>. QED
    BY <2>1 DEF Weight
<1>. QED
  BY <1>2, <1>3, <1>4

\* What an update adds to the weighted total of any values of the counts.
LEMMA MomentStep ==
  ASSUME NEW k \in Nat \ {0}, NEW f \in [1..k -> Int], NEW g \in [1..k + 1 -> Int],
         \A i \in 1..k : g[i] = f[i]
  PROVE  /\ Moment(f, k) \in Int
         /\ Moment(g, k + 1) = (Base - Alpha) * Moment(f, k) + Alpha * Power(Base, k - 1) * g[k + 1]
<1>. DEFINE F == [i \in 1..k |-> Weight(i, k) * f[i]]
            G == [i \in 1..k + 1 |-> Weight(i, k + 1) * g[i]]
<1>1. Base \in Int /\ Alpha \in Int /\ Base - Alpha \in Int
  BY DetectorParams
<1>2. k - 1 \in Nat /\ k + 1 \in 1..k + 1 /\ Power(Base, k - 1) \in Int
  BY <1>1, PowerStep
<1>3. F \in [1..k -> Int]
  <2>1. \A i \in 1..k : Weight(i, k) \in Int /\ f[i] \in Int
    BY WeightStep
  <2>. QED
    BY <2>1
<1>4. \A i \in 1..k : G[i] \in Int /\ G[i] = (Base - Alpha) * F[i]
  <2>1. TAKE i \in 1..k
  <2>2. PICK w, x, d : w = Weight(i, k) /\ x = f[i] /\ d = Base - Alpha
    OBVIOUS
  <2>3. w \in Int /\ x \in Int /\ d \in Int /\ G[i] = (d * w) * x /\ F[i] = w * x
    BY <1>1, <2>2, WeightStep
  <2>. HIDE DEF F, G
  <2>4. (d * w) * x = d * (w * x) /\ (d * w) * x \in Int
    BY <2>3
  <2>. QED
    BY <2>2, <2>3, <2>4
<1>5. G[k + 1] = Alpha * Power(Base, k - 1) * g[k + 1] /\ G[k + 1] \in Int
  <2>1. G[k + 1] = Weight(k + 1, k + 1) * g[k + 1] /\ g[k + 1] \in Int
    BY <1>2
  <2>2. Weight(k + 1, k + 1) = Alpha * Power(Base, k - 1)
    BY WeightStep
  <2>. HIDE DEF F, G
  <2>3. PICK p, x : p = Alpha * Power(Base, k - 1) /\ x = g[k + 1]
    OBVIOUS
  <2>4. p \in Int /\ x \in Int
    BY <1>1, <1>2, <2>1, <2>3
  <2>5. p * x \in Int
    BY <2>4
  <2>. QED
    BY <2>1, <2>2, <2>3, <2>5
<1>6. G \in [1..k + 1 -> Int]
  <2>1. \A i \in 1..k + 1 : i \in 1..k \/ i = k + 1
    OBVIOUS
  <2>2. \A i \in 1..k + 1 : G[i] \in Int
    BY <1>4, <1>5, <2>1
  <2>. QED
    BY <2>2
<1>7. Total(F, k) \in Int
  BY <1>3, TotalType
<1>. HIDE DEF F, G
<1>8. Total(G, k + 1) = (Base - Alpha) * Total(F, k) + G[k + 1]
  BY <1>1, <1>3, <1>4, <1>6, TotalStep
<1>. QED
  BY <1>5, <1>7, <1>8 DEF Moment, F, G
LEMMA MomentFirst ==
  ASSUME NEW g \in [1..1 -> Int]
  PROVE  Moment(g, 1) = g[1]
<1>. DEFINE F == [i \in 1..0 |-> 0]
            G == [i \in 1..1 |-> Weight(i, 1) * g[i]]
<1>1. F \in [1..0 -> Int] /\ 0 \in Nat /\ 0 \in Int /\ 0 + 1 = 1
  OBVIOUS
<1>2. G[1] = g[1] /\ g[1] \in Int
  <2>1. Weight(1, 1) = 1 /\ g[1] \in Int /\ 1 \in 1..1
    BY WeightStep
  <2>2. G[1] = 1 * g[1]
    BY <2>1
  <2>. QED
    BY <2>1, <2>2
<1>3. G \in [1..0 + 1 -> Int] /\ \A i \in 1..0 : G[i] = 0 * F[i]
  <2>1. \A i \in 1..1 : i = 1
    OBVIOUS
  <2>. QED
    BY <1>1, <1>2, <2>1
<1>4. Total(F, 0) \in Int
  BY <1>1, TotalType
<1>. HIDE DEF F, G
<1>5. Total(G, 0 + 1) = 0 * Total(F, 0) + G[0 + 1]
  BY <1>1, <1>3, TotalStep
<1>6. Total(G, 1) = G[1]
  BY <1>1, <1>2, <1>4, <1>5
<1>. QED
  BY <1>2, <1>6 DEF Moment, G

Ones(k) == [i \in 1..k |-> 1]
Squared(cs) == [i \in 1..Len(cs) |-> cs[i] * cs[i]]

Averages(b, cs) ==
  /\ b.weight = Power(Base, Len(cs) - 1)
  /\ b.weight = Moment(Ones(Len(cs)), Len(cs))
  /\ b.sum = Moment(cs, Len(cs))
  /\ b.squares = b.weight * Moment(Squared(cs), Len(cs)) - b.sum * b.sum

LEMMA CountsTyped ==
  ASSUME NEW cs \in Seq(Nat)
  PROVE  /\ Len(cs) \in Nat /\ cs \in [1..Len(cs) -> Int] /\ Squared(cs) \in [1..Len(cs) -> Int]
         /\ Ones(Len(cs)) \in [1..Len(cs) -> Int]
         /\ cs # <<>> => Len(cs) \in Nat \ {0}
<1>1. Len(cs) \in Nat /\ cs \in [1..Len(cs) -> Nat]
  BY LenProperties
<1>2. \A i \in 1..Len(cs) : cs[i] \in Int /\ cs[i] * cs[i] \in Int
  <2>1. TAKE i \in 1..Len(cs)
  <2>2. PICK x : x = cs[i]
    OBVIOUS
  <2>3. x \in Int /\ x * x \in Int
    <3>1. x \in Int
      BY <1>1, <2>2
    <3>. QED
      BY <3>1
  <2>. QED
    BY <2>2, <2>3
<1>3. cs # <<>> => Len(cs) # 0
  BY EmptySeq
<1>. QED
  BY <1>1, <1>2, <1>3 DEF Ones, Squared

LEMMA FirstAverages ==
  ASSUME NEW b, NEW c \in Nat, b.weight = 1, b.sum = c, b.squares = 0
  PROVE  Averages(b, <<c>>)
<1>. DEFINE cs == <<c>>
<1>1. cs \in Seq(Nat) /\ Len(cs) = 1 /\ cs[1] = c
  OBVIOUS
<1>2. cs \in [1..1 -> Int] /\ Ones(1) \in [1..1 -> Int] /\ Squared(cs) \in [1..1 -> Int]
  BY <1>1, CountsTyped
<1>3. Ones(1)[1] = 1 /\ Squared(cs)[1] = c * c
  BY <1>1 DEF Ones, Squared
<1>4. Moment(cs, 1) = c /\ Moment(Ones(1), 1) = 1 /\ Moment(Squared(cs), 1) = c * c
  <2>. HIDE DEF cs
  <2>. QED
    BY <1>1, <1>2, <1>3, MomentFirst
<1>5. Power(Base, 1 - 1) = 1
  <2>1. Base \in Int /\ 1 - 1 = 0 /\ 0 \in Nat
    BY DetectorParams
  <2>. QED
    BY <2>1, PowerStep
<1>6. 1 * (c * c) - c * c = 0
  <2>1. c * c \in Int
    OBVIOUS
  <2>. QED
    BY <2>1
<1>. HIDE DEF cs
<1>7. Averages(b, cs)
  BY <1>1, <1>4, <1>5, <1>6 DEF Averages
<1>. QED
  BY <1>7 DEF cs

LEMMA LaterAverages ==
  ASSUME NEW b, NEW u, NEW cs \in Seq(Nat), cs # <<>>, NEW c \in Nat, Averages(b, cs),
         b.weight \in Int, b.sum \in Int,
         u.weight = Base * b.weight,
         u.sum = Base * b.sum + Alpha * (c * b.weight - b.sum),
         u.squares = (Base - Alpha)
                       * (Base * b.squares + Alpha * ((c * b.weight - b.sum) * (c * b.weight - b.sum)))
  PROVE  Averages(u, Append(cs, c))
<1>0. Base \in Int /\ Alpha \in Int /\ c \in Int
  BY DetectorParams
<1>1. PICK k, next : k = Len(cs) /\ next = Append(cs, c)
  OBVIOUS
<1>2. /\ k \in Nat \ {0} /\ next \in Seq(Nat) /\ Len(next) = k + 1 /\ next[k + 1] = c
      /\ \A i \in 1..k : next[i] = cs[i]
  BY <1>1, CountsTyped, AppendProperties
<1>3. /\ cs \in [1..k -> Int] /\ Squared(cs) \in [1..k -> Int] /\ Ones(k) \in [1..k -> Int]
      /\ next \in [1..k + 1 -> Int] /\ Squared(next) \in [1..k + 1 -> Int]
      /\ Ones(k + 1) \in [1..k + 1 -> Int]
  BY <1>1, <1>2, CountsTyped
<1>4. /\ \A i \in 1..k : Squared(next)[i] = Squared(cs)[i] /\ Ones(k + 1)[i] = Ones(k)[i]
      /\ Squared(next)[k + 1] = c * c /\ Ones(k + 1)[k + 1] = 1
  BY <1>1, <1>2 DEF Squared, Ones
<1>5. PICK w, s, m : w = b.weight /\ s = b.sum /\ m = Moment(Squared(cs), k)
  OBVIOUS
<1>6. /\ w \in Int /\ s \in Int /\ w = Power(Base, k - 1) /\ w = Moment(Ones(k), k)
      /\ s = Moment(cs, k) /\ b.squares = w * m - s * s
  BY <1>1, <1>5 DEF Averages
<1>7. Moment(next, k + 1) = (Base - Alpha) * s + Alpha * w * c
  BY <1>2, <1>3, <1>6, MomentStep
<1>8. Moment(Ones(k + 1), k + 1) = (Base - Alpha) * w + Alpha * w * 1
  BY <1>2, <1>3, <1>4, <1>6, MomentStep
<1>9. Moment(Squared(next), k + 1) = (Base - Alpha) * m + Alpha * w * (c * c) /\ m \in Int
  BY <1>2, <1>3, <1>4, <1>5, <1>6, MomentStep
<1>10. Power(Base, k + 1 - 1) = Base * w
  <2>1. k - 1 \in Nat /\ (k - 1) + 1 = k + 1 - 1
    BY <1>2
  <2>. QED
    BY <1>0, <1>6, <2>1, PowerStep
<1>11. u.weight = Base * w /\ u.sum = Base * s + Alpha * (c * w - s)
       /\ u.squares = (Base - Alpha) * (Base * (w * m - s * s) + Alpha * ((c * w - s) * (c * w - s)))
  BY <1>5, <1>6
<1>12. /\ u.weight = (Base - Alpha) * w + Alpha * w * 1
       /\ u.sum = (Base - Alpha) * s + Alpha * w * c
       /\ u.squares = u.weight * ((Base - Alpha) * m + Alpha * w * (c * c)) - u.sum * u.sum
  <2>1. PICK A, B : A = Alpha /\ B = Base
    OBVIOUS
  <2>2. A \in Int /\ B \in Int /\ w \in Int /\ s \in Int /\ m \in Int /\ c \in Int
    BY <1>0, <1>6, <1>9, <2>1
  <2>3. B * w = (B - A) * w + A * w * 1
    BY <2>2
  <2>4. B * s + A * (c * w - s) = (B - A) * s + A * w * c
    BY <2>2
  <2>5. (B - A) * (B * (w * m - s * s) + A * ((c * w - s) * (c * w - s)))
          = (B * w) * ((B - A) * m + A * w * (c * c))
            - (B * s + A * (c * w - s)) * (B * s + A * (c * w - s))
    BY <2>2
  <2>. QED
    BY <1>11, <2>1, <2>3, <2>4, <2>5
<1>. QED
  BY <1>1, <1>2, <1>7, <1>8, <1>9, <1>10, <1>11, <1>12 DEF Averages

\* The weighted squared distances to the mean, from the three totals.
LEMMA AveragesAreEMA ==
  ASSUME NEW b, NEW cs \in Seq(Nat), cs # <<>>, b.n = Len(cs), Averages(b, cs),
         b.weight \in Int, b.sum \in Int
  PROVE  IsEMA(b, cs)
<1>1. PICK k : k = Len(cs)
  OBVIOUS
<1>2. /\ k \in Nat \ {0} /\ k \in Nat /\ cs \in [1..k -> Int] /\ Squared(cs) \in [1..k -> Int]
      /\ Ones(k) \in [1..k -> Int]
  BY <1>1, CountsTyped
<1>3. PICK w, s, m : w = b.weight /\ s = b.sum /\ m = Moment(Squared(cs), k)
  OBVIOUS
<1>4. /\ w \in Int /\ s \in Int /\ w = Power(Base, k - 1) /\ w = Moment(Ones(k), k)
      /\ s = Moment(cs, k) /\ b.squares = w * m - s * s
  BY <1>1, <1>3 DEF Averages
<1>. DEFINE F == [i \in 1..k |-> Weight(i, k) * Squared(cs)[i]]
            G == [i \in 1..k |-> Weight(i, k) * cs[i]]
            H == [i \in 1..k |-> Weight(i, k) * Ones(k)[i]]
            K == [i \in 1..k |-> Weight(i, k) * (Above(b, cs[i]) * Above(b, cs[i]))]
<1>5. w \in Int /\ s \in Int
  BY <1>4
<1>6. Total(F, k) = m /\ Total(G, k) = s /\ Total(H, k) = w
  BY <1>3, <1>4 DEF Moment
<1>7. ASSUME NEW i \in 1..k
      PROVE  /\ F[i] \in Int /\ G[i] \in Int /\ H[i] \in Int /\ K[i] \in Int
             /\ K[i] = (w * w) * F[i] + (0 - 2 * w * s) * G[i] + (s * s) * H[i]
  <2>1. PICK v, c : v = Weight(i, k) /\ c = cs[i]
    OBVIOUS
  <2>2. v \in Int /\ c \in Int
    BY <1>2, <2>1, WeightStep
  <2>3. Squared(cs)[i] = c * c /\ Ones(k)[i] = 1 /\ Above(b, cs[i]) = c * w - s
    BY <1>1, <1>3, <2>1 DEF Squared, Ones, Above
  <2>4. /\ F[i] = v * (c * c) /\ G[i] = v * c /\ H[i] = v * 1
        /\ K[i] = v * ((c * w - s) * (c * w - s))
    BY <2>1, <2>3
  <2>. HIDE DEF F, G, H, K
  <2>5. /\ v * (c * c) \in Int /\ v * c \in Int /\ v * 1 \in Int
        /\ v * ((c * w - s) * (c * w - s)) \in Int
    BY <1>4, <2>2
  <2>6. v * ((c * w - s) * (c * w - s))
          = (w * w) * (v * (c * c)) + (0 - 2 * w * s) * (v * c) + (s * s) * (v * 1)
    BY <1>5, <2>2
  <2>. QED
    BY <2>4, <2>5, <2>6
<1>8. F \in [1..k -> Int] /\ G \in [1..k -> Int] /\ H \in [1..k -> Int] /\ K \in [1..k -> Int]
  BY <1>7
<1>9. PICK x, y, z : x = w * w /\ y = 0 - 2 * w * s /\ z = s * s
  OBVIOUS
<1>10. x \in Int /\ y \in Int /\ z \in Int
  BY <1>5, <1>9
<1>11. m \in Int
  <2>. HIDE DEF F
  <2>. QED
    BY <1>2, <1>6, <1>8, TotalType
<1>. HIDE DEF F, G, H, K
<1>12. Total(K, k) = x * m + y * s + z * w
  <2>1. Combines(K, k, x, F, y, G, z, H)
    BY <1>7, <1>8, <1>9 DEF Combines
  <2>2. k \in Nat
    BY <1>2
  <2>3. Total(K, k) = x * Total(F, k) + y * Total(G, k) + z * Total(H, k)
    BY <2>2, <1>10, <2>1, TotalCombines
  <2>. QED
    BY <1>6, <2>3
<1>13. Total(K, k) = (w * m - s * s) * w
  <2>1. (w * w) * m + (0 - 2 * w * s) * s + (s * s) * w = (w * m - s * s) * w
    BY <1>5, <1>11
  <2>. QED
    BY <1>9, <1>12, <2>1
<1>14. b.sum = Total([i \in 1..k |-> Weight(i, k) * cs[i]], k)
  BY <1>3, <1>6 DEF G
<1>15. b.squares * b.weight
         = Total([i \in 1..k |-> Weight(i, k) * (Above(b, cs[i]) * Above(b, cs[i]))], k)
  BY <1>3, <1>4, <1>13 DEF K
<1>. QED
  BY <1>1, <1>3, <1>4, <1>14, <1>15 DEF IsEMA
-----------------------------------------------------------------------------
(***************************************************************************)
(* The detector.  A baseline fits the counts cs it was updated with: every *)
(* range that holds them bounds its mean and its variance, with a decay    *)
(* that settles the last of them is no outlier and no jump, and it is the  *)
(* weighted average of them all.                                           *)
(***************************************************************************)
Baseline == [n : Nat, sum : Nat, weight : Nat \ {0}, squares : Nat, age : Nat]

Holds(lo, hi, cs) == \A c \in ToSet(cs) : lo <= c /\ c <= hi

Bounds(lo, hi, b) == Within(lo, hi, b.weight, b.sum, b.squares)

Near(c, b) == IsNear(SpikeMultiplier, RateJumpFactor, c, b.weight, b.sum, b.squares)

Fits(b, cs) ==
  /\ b.n = Len(cs)
  /\ cs # <<>> =>
       /\ \E lo, hi \in ToSet(cs) : Holds(lo, hi, cs)
       /\ \A lo, hi \in Nat : Holds(lo, hi, cs) => Bounds(lo, hi, b)
       /\ Settles => Near(cs[Len(cs)], b)
       /\ Averages(b, cs)

BaselinesFit ==
  /\ store \in [Template -> Baseline]
  /\ counts \in [Template -> Seq(Nat)]
  /\ \A t \in Template : Fits(store[t], counts[t])

LEMMA FirstFits ==
  ASSUME NEW b \in Baseline, Fits(b, <<>>), NEW c \in Nat
  PROVE  Updated(b, c) \in Baseline /\ Fits(Updated(b, c), <<c>>)
<1>. DEFINE u == Updated(b, c)
<1>1. b.n = 0
  BY EmptySeq DEF Fits
<1>2. u = [n |-> 1, sum |-> c, weight |-> 1, squares |-> 0, age |-> 0]
  BY <1>1 DEF Updated
<1>3. u.n = 1 /\ u.sum = c /\ u.weight = 1 /\ u.squares = 0 /\ u \in Baseline
  BY <1>2 DEF Baseline
<1>. HIDE DEF u
<1>4. ToSet(<<c>>) = {c} /\ <<c>> # <<>> /\ Len(<<c>>) = 1 /\ <<c>>[1] = c
  BY DEF ToSet
<1>5. Holds(c, c, <<c>>)
  BY <1>4 DEF Holds
<1>6. ASSUME NEW lo \in Nat, NEW hi \in Nat, Holds(lo, hi, <<c>>) PROVE Bounds(lo, hi, u)
  <2>1. lo <= c /\ c <= hi
    BY <1>4, <1>6 DEF Holds
  <2>2. (hi - c) * (c - lo) >= 0
    <3>1. hi - c \in Nat /\ c - lo \in Nat
      BY <2>1
    <3>. QED
      BY <3>1, Products
  <2>. QED
    BY <1>3, <2>1, <2>2 DEF Bounds, Within
<1>7. Near(c, u)
  <2>1. c * 1 - c = 0 /\ 0 * 0 = 0
    OBVIOUS
  <2>2. (SpikeMultiplier * SpikeMultiplier) * 0 = 0
    BY DetectorParams
  <2>3. c * 1 <= RateJumpFactor * c
    BY DetectorParams
  <2>. QED
    BY <1>3, <2>1, <2>2, <2>3 DEF Near, IsNear
<1>8. Averages(u, <<c>>)
  BY <1>3, FirstAverages
<1>. QED
  BY <1>3, <1>4, <1>5, <1>6, <1>7, <1>8 DEF Fits, u

LEMMA LaterFits ==
  ASSUME NEW b \in Baseline, NEW cs \in Seq(Nat), Fits(b, cs), cs # <<>>,
         NEW c \in Nat
  PROVE  Updated(b, c) \in Baseline /\ Fits(Updated(b, c), Append(cs, c))
<1>. DEFINE u == Updated(b, c)
            d == Above(b, c)
            next == Append(cs, c)
<1>1. /\ b.n \in Nat /\ b.sum \in Nat /\ b.weight \in Nat \ {0} /\ b.squares \in Nat
      /\ d = c * b.weight - b.sum /\ d \in Int
  BY DEF Baseline, Above
<1>2. /\ Alpha \in Nat /\ Base \in Nat /\ Base \in Nat \ {0} /\ Alpha <= Base
      /\ SpikeMultiplier \in Nat /\ RateJumpFactor \in Nat
  BY DetectorParams
<1>3. b.n # 0 /\ b.n = Len(cs)
  BY <1>1, EmptySeq DEF Fits
<1>4. u = [n |-> b.n + 1, sum |-> Base * b.sum + Alpha * d, weight |-> Base * b.weight,
           squares |-> (Base - Alpha) * (Base * b.squares + Alpha * (d * d)), age |-> 0]
  BY <1>3 DEF Updated
<1>a. PICK w, s, q : w = b.weight /\ s = b.sum /\ q = b.squares
  OBVIOUS
<1>b. w \in Nat \ {0} /\ w \in Nat /\ s \in Nat /\ q \in Nat
  BY <1>1, <1>a
<1>5. /\ u.n = b.n + 1 /\ u.weight = Base * w /\ u.age = 0
      /\ u.sum = NextSum(Alpha, Base, w, s, c)
      /\ u.squares = NextSquares(Alpha, Base, w, s, q, c)
  BY <1>1, <1>4, <1>a DEF NextSum, NextSquares
<1>. HIDE DEF u, d
<1>6. u \in Baseline
  <2>1. u.sum \in Nat /\ u.weight \in Nat \ {0} /\ u.squares \in Nat
    <3>1. /\ Base * w \in Nat \ {0}
          /\ NextSum(Alpha, Base, w, s, c) \in Nat /\ NextSquares(Alpha, Base, w, s, q, c) \in Nat
      BY <1>2, <1>b, Natural
    <3>. QED
      BY <1>5, <3>1
  <2>4. u = [n |-> u.n, sum |-> u.sum, weight |-> u.weight, squares |-> u.squares, age |-> u.age]
    BY <1>4
  <2>. QED
    <3>1. u.n \in Nat /\ u.age \in Nat
      BY <1>1, <1>5
    <3>. QED
      BY <2>1, <2>4, <3>1 DEF Baseline
<1>7. /\ next \in Seq(Nat) /\ Len(next) = Len(cs) + 1 /\ ToSet(next) = ToSet(cs) \cup {c}
      /\ next[Len(next)] = c /\ next # <<>>
  BY AppendNew, EmptySeq
<1>. HIDE DEF next
<1>8. ToSet(cs) \subseteq Nat
  BY SetOfSeq
<1>9. \E lo, hi \in ToSet(next) : Holds(lo, hi, next)
  <2>1. PICK lo \in ToSet(cs), hi \in ToSet(cs) : Holds(lo, hi, cs)
    BY DEF Fits
  <2>2. PICK x \in {lo, c} : x = IF c <= lo THEN c ELSE lo
    OBVIOUS
  <2>3. PICK y \in {hi, c} : y = IF hi <= c THEN c ELSE hi
    OBVIOUS
  <2>4. lo \in Nat /\ hi \in Nat /\ \A k \in ToSet(cs) : k \in Nat /\ lo <= k /\ k <= hi
    BY <1>8, <2>1 DEF Holds
  <2>5. \A k \in ToSet(next) : x <= k /\ k <= y
    BY <1>7, <2>2, <2>3, <2>4
  <2>6. x \in ToSet(next) /\ y \in ToSet(next)
    BY <1>7, <2>2, <2>3
  <2>. QED
    BY <2>5, <2>6 DEF Holds
<1>10. ASSUME NEW lo \in Nat, NEW hi \in Nat, Holds(lo, hi, next) PROVE Bounds(lo, hi, u)
  <2>1. lo <= c /\ c <= hi /\ Holds(lo, hi, cs)
    BY <1>7, <1>10 DEF Holds
  <2>2. Bounds(lo, hi, b)
    BY <2>1 DEF Fits
  <2>. QED
    <3>1. Within(lo, hi, w, s, q)
      BY <1>a, <2>2 DEF Bounds
    <3>2. Within(lo, hi, Base * w, NextSum(Alpha, Base, w, s, c), NextSquares(Alpha, Base, w, s, q, c))
      BY <1>2, <1>b, <2>1, <3>1, Spread
    <3>. QED
      BY <1>5, <3>2 DEF Bounds
<1>11. ASSUME Settles PROVE Near(c, u)
  <2>1. /\ Base - Alpha <= SpikeMultiplier * SpikeMultiplier * Alpha
        /\ Base <= RateJumpFactor * Alpha
    BY <1>11 DEF Settles
  <2>. QED
    <3>1. IsNear(SpikeMultiplier, RateJumpFactor, c, Base * w, NextSum(Alpha, Base, w, s, c),
                 NextSquares(Alpha, Base, w, s, q, c))
      BY <1>2, <1>b, <2>1, SettledLevel
    <3>. QED
      BY <1>5, <3>1 DEF Near
<1>12. Averages(u, next)
  <2>1. Averages(b, cs) /\ b.weight \in Int /\ b.sum \in Int
    BY <1>1 DEF Fits
  <2>2. /\ u.weight = Base * b.weight
        /\ u.sum = Base * b.sum + Alpha * (c * b.weight - b.sum)
        /\ u.squares = (Base - Alpha)
             * (Base * b.squares + Alpha * ((c * b.weight - b.sum) * (c * b.weight - b.sum)))
    BY <1>1, <1>4
  <2>. QED
    BY <2>1, <2>2, LaterAverages DEF next
<1>. QED
  BY <1>3, <1>5, <1>6, <1>7, <1>9, <1>10, <1>11, <1>12 DEF Fits, u, next

LEMMA UpdateFits ==
  ASSUME NEW b \in Baseline, NEW cs \in Seq(Nat), Fits(b, cs), NEW c \in Nat
  PROVE  Updated(b, c) \in Baseline /\ Fits(Updated(b, c), Append(cs, c))
<1>1. CASE cs = <<>>
  <2>1. Append(cs, c) = <<c>>
    BY <1>1
  <2>. QED
    BY <1>1, <2>1, FirstFits
<1>2. CASE cs # <<>>
  BY <1>2, LaterFits
<1>. QED
  BY <1>1, <1>2

LEMMA InitFits ==
  ASSUME DetectorInit
  PROVE  BaselinesFit
<1>1. [n |-> 0, sum |-> 0, weight |-> 1, squares |-> 0, age |-> 0] \in Baseline
  BY DEF Baseline
<1>2. Len(<<>>) = 0 /\ <<>> \in Seq(Nat)
  BY EmptySeq
<1>3. \A t \in Template :
        counts[t] = <<>> /\ store[t] = [n |-> 0, sum |-> 0, weight |-> 1, squares |-> 0, age |-> 0]
  BY DEF DetectorInit
<1>4. \A t \in Template : Fits(store[t], counts[t])
  BY <1>2, <1>3 DEF Fits
<1>5. store \in [Template -> Baseline] /\ counts \in [Template -> Seq(Nat)]
  BY <1>1, <1>2 DEF DetectorInit
<1>. QED
  BY <1>4, <1>5 DEF BaselinesFit

\* The patterns of an alert have templates, and counts that are numbers.
LEMMA AlertTyped ==
  ASSUME NEW patterns \in Alert
  PROVE  DOMAIN patterns \subseteq Template /\ \A t \in DOMAIN patterns : patterns[t] \in Nat
<1>1. PICK templates \in SUBSET Template : patterns \in [templates -> Count]
  BY DEF Alert
<1>2. Count \subseteq Nat
  BY DetectorParams
<1>. QED
  BY <1>1, <1>2

LEMMA EvaluateFits ==
  ASSUME BaselinesFit, NEW patterns \in Alert, Evaluate(patterns)
  PROVE  BaselinesFit'
<1>1. /\ store' = [t \in Template |->
                     IF t \in DOMAIN patterns THEN Updated(store[t], patterns[t]) ELSE store[t]]
      /\ counts' = [t \in Template |->
                      IF t \in DOMAIN patterns THEN Append(counts[t], patterns[t]) ELSE counts[t]]
  BY DEF Evaluate
<1>2. ASSUME NEW t \in Template
      PROVE  store'[t] \in Baseline /\ counts'[t] \in Seq(Nat) /\ Fits(store'[t], counts'[t])
  <2>1. store[t] \in Baseline /\ counts[t] \in Seq(Nat) /\ Fits(store[t], counts[t])
    BY DEF BaselinesFit
  <2>2. CASE t \in DOMAIN patterns
    <3>1. patterns[t] \in Nat
      BY <2>2, AlertTyped
    <3>2. store'[t] = Updated(store[t], patterns[t]) /\ counts'[t] = Append(counts[t], patterns[t])
      BY <1>1, <2>2
    <3>3. /\ Updated(store[t], patterns[t]) \in Baseline
          /\ Fits(Updated(store[t], patterns[t]), Append(counts[t], patterns[t]))
      BY <2>1, <3>1, UpdateFits
    <3>4. Append(counts[t], patterns[t]) \in Seq(Nat)
      BY <2>1, <3>1, AppendProperties
    <3>. QED
      BY <3>2, <3>3, <3>4
  <2>3. CASE t \notin DOMAIN patterns
    BY <1>1, <2>1, <2>3
  <2>. QED
    BY <2>2, <2>3
<1>3. store' \in [Template -> Baseline] /\ counts' \in [Template -> Seq(Nat)]
  BY <1>1, <1>2
<1>. QED
  BY <1>2, <1>3 DEF BaselinesFit

\* Ages are no part of what a baseline says of its counts.
LEMMA TimeFits ==
  ASSUME BaselinesFit, Time
  PROVE  BaselinesFit'
<1>1. /\ counts' = counts
      /\ store' = [t \in Template |->
           [store[t] EXCEPT !.age =
              IF store[t].n = 0 \/ @ > NewPatternGrace THEN @ ELSE @ + 1]]
  BY DEF Time
<1>2. ASSUME NEW t \in Template
      PROVE  store'[t] \in Baseline /\ Fits(store'[t], counts'[t])
  <2>1. store[t] \in Baseline /\ Fits(store[t], counts[t])
    BY DEF BaselinesFit
  <2>2. /\ store'[t] \in Baseline /\ store'[t].n = store[t].n /\ store'[t].sum = store[t].sum
        /\ store'[t].weight = store[t].weight /\ store'[t].squares = store[t].squares
    BY <1>1, <2>1 DEF Baseline
  <2>. QED
    BY <1>1, <2>1, <2>2 DEF Fits, Bounds, Near, Averages
<1>3. store' \in [Template -> Baseline] /\ counts' \in [Template -> Seq(Nat)]
  BY <1>1, <1>2 DEF BaselinesFit
<1>. QED
  BY <1>2, <1>3 DEF BaselinesFit

LEMMA FitsStep ==
  ASSUME BaselinesFit, [DetectorNext]_detectorVars
  PROVE  BaselinesFit'
<1>1. ASSUME store' = store, counts' = counts PROVE BaselinesFit'
  BY <1>1 DEF BaselinesFit
<1>2. CASE Sent \/ Return \/ Signal \/ UNCHANGED detectorVars
  BY <1>1, <1>2 DEF Sent, Return, Signal, detectorVars
<1>. QED
  BY <1>2, EvaluateFits, TimeFits DEF DetectorNext

\* Only an evaluation adds to the counts of a template.
LEMMA CountsGrow ==
  ASSUME BaselinesFit, [DetectorNext]_detectorVars,
         NEW t \in Template, counts'[t] # counts[t]
  PROVE  \E patterns \in Alert :
           /\ Evaluate(patterns) /\ t \in DOMAIN patterns /\ patterns[t] \in Nat
           /\ counts'[t] = Append(counts[t], patterns[t])
           /\ Last(counts'[t]) = patterns[t]
           /\ kinds'[t] = Kind(store[t], patterns[t])
<1>1. PICK patterns \in Alert : Evaluate(patterns)
  BY DEF DetectorNext, Sent, Return, Signal, Time, detectorVars
<1>2. t \in DOMAIN patterns /\ counts'[t] = Append(counts[t], patterns[t])
  BY <1>1 DEF Evaluate
<1>3. patterns[t] \in Nat /\ counts[t] \in Seq(Nat)
  BY <1>2, AlertTyped DEF BaselinesFit
<1>4. Last(counts'[t]) = patterns[t]
  BY <1>2, <1>3, AppendNew DEF Last
<1>5. kinds'[t] = Kind(store[t], patterns[t])
  BY <1>1, <1>2 DEF Evaluate
<1>. QED
  BY <1>1, <1>2, <1>3, <1>4, <1>5

LEMMA RepeatStep ==
  ASSUME BaselinesFit, [DetectorNext]_detectorVars, Settles,
         NEW t \in Template, Repeats(t)
  PROVE  kinds'[t] = "none"
<1>1. /\ counts'[t] # counts[t] /\ counts[t] # <<>>
      /\ Last(counts'[t]) = Last(counts[t]) /\ store[t].age <= NewPatternGrace
  BY DEF Repeats
<1>2. PICK patterns \in Alert :
        /\ patterns[t] \in Nat /\ Last(counts'[t]) = patterns[t]
        /\ kinds'[t] = Kind(store[t], patterns[t])
  BY <1>1, CountsGrow
<1>3. PICK b, c : b = store[t] /\ c = patterns[t]
  OBVIOUS
<1>4. b \in Baseline /\ Fits(b, counts[t]) /\ counts[t] \in Seq(Nat) /\ c \in Nat
  BY <1>2, <1>3 DEF BaselinesFit
<1>5. Near(c, b)
  BY <1>1, <1>2, <1>3, <1>4 DEF Fits, Last
<1>6. b.n # 0 /\ b.age \in Nat
  BY <1>1, <1>4, EmptySeq DEF Fits, Baseline
<1>7. ~IsNewPattern(b)
  BY <1>1, <1>3, <1>6, DetectorParams DEF IsNewPattern
<1>8. PICK x, y, z, v : /\ x = (c * b.weight - b.sum) * (c * b.weight - b.sum)
                        /\ y = (SpikeMultiplier * SpikeMultiplier) * b.squares
                        /\ z = c * b.weight /\ v = RateJumpFactor * b.sum
  OBVIOUS
<1>9. x \in Int /\ y \in Int /\ z \in Int /\ v \in Int /\ x <= y /\ z <= v
  <2>1. b.weight \in Nat /\ b.sum \in Nat /\ b.squares \in Nat
    BY <1>4 DEF Baseline
  <2>2. x \in Int
    <3>1. c * b.weight - b.sum \in Int
      BY <1>4, <2>1
    <3>. QED
      BY <1>8, <3>1
  <2>3. y \in Int
    <3>1. SpikeMultiplier * SpikeMultiplier \in Nat
      BY DetectorParams
    <3>. QED
      BY <1>8, <2>1, <3>1
  <2>4. z \in Int /\ v \in Int
    BY <1>4, <1>8, <2>1, DetectorParams, SMTT(30)
  <2>5. x <= y /\ z <= v
    BY <1>5, <1>8 DEF Near, IsNear
  <2>. QED
    BY <2>2, <2>3, <2>4, <2>5
<1>10. ~IsSpike(b, c)
  BY <1>8, <1>9 DEF IsSpike, Outlies, Above
<1>11. ~IsRateJump(b, c)
  BY <1>8, <1>9 DEF IsRateJump
<1>. QED
  BY <1>2, <1>3, <1>7, <1>10, <1>11 DEF Kind

LEMMA FarStep ==
  ASSUME BaselinesFit, [DetectorNext]_detectorVars,
         NEW t \in Template, FarAbove(t)
  PROVE  at' = "send" /\ kinds'[t] # "none"
<1>1. /\ Len(counts[t]) >= MinSamples /\ counts'[t] # counts[t]
      /\ 2 * (Last(counts'[t]) - Max(ToSet(counts[t])))
           > SpikeMultiplier * (Max(ToSet(counts[t])) - Min(ToSet(counts[t])))
  BY DEF FarAbove
<1>2. PICK patterns \in Alert :
        /\ Evaluate(patterns) /\ t \in DOMAIN patterns
        /\ patterns[t] \in Nat /\ Last(counts'[t]) = patterns[t]
        /\ kinds'[t] = Kind(store[t], patterns[t])
  BY <1>1, CountsGrow
<1>3. PICK b, c : b = store[t] /\ c = patterns[t]
  OBVIOUS
<1>4. b \in Baseline /\ Fits(b, counts[t]) /\ counts[t] \in Seq(Nat) /\ c \in Nat
  BY <1>2, <1>3 DEF BaselinesFit
<1>5. counts[t] # <<>>
  BY <1>1, DetectorParams, EmptySeq
<1>6. PICK lo \in ToSet(counts[t]), hi \in ToSet(counts[t]) : Holds(lo, hi, counts[t])
  BY <1>4, <1>5 DEF Fits
<1>7. lo \in Nat /\ hi \in Nat /\ \A k \in ToSet(counts[t]) : k \in Nat
  BY <1>4, SetOfSeq
<1>8. Max(ToSet(counts[t])) = hi /\ Min(ToSet(counts[t])) = lo
  <2>1. PICK S : S = ToSet(counts[t])
    OBVIOUS
  <2>2. ToSet(counts[t]) = S
    BY <2>1 DEF ToSet
  <2>3. hi \in S /\ lo \in S /\ \A k \in S : k \in Nat /\ lo <= k /\ k <= hi
    BY <1>6, <1>7, <2>1 DEF Holds
  <2>4. Max(S) = hi
    <3>1. \A k \in S : (\A j \in S : k >= j) => k = hi
      BY <1>7, <2>3
    <3>. QED
      BY <1>7, <2>3, <3>1 DEF Max
  <2>5. Min(S) = lo
    <3>1. \A k \in S : (\A j \in S : k <= j) => k = lo
      BY <1>7, <2>3
    <3>. QED
      BY <1>7, <2>3, <3>1 DEF Min
  <2>. QED
    BY <2>2, <2>4, <2>5
<1>9. 2 * (c - hi) > SpikeMultiplier * (hi - lo)
  BY <1>1, <1>2, <1>3, <1>8
<1>10. PICK w, s, q : w = b.weight /\ s = b.sum /\ q = b.squares
  OBVIOUS
<1>11. w \in Nat \ {0} /\ s \in Nat /\ q \in Nat /\ SpikeMultiplier \in Nat
  BY <1>4, <1>10, DetectorParams DEF Baseline
<1>12. Within(lo, hi, w, s, q)
  BY <1>4, <1>5, <1>6, <1>7, <1>10 DEF Fits, Bounds
<1>13. c * w - s > 0 /\ (c * w - s) * (c * w - s) > (SpikeMultiplier * SpikeMultiplier) * q
  BY <1>4, <1>7, <1>9, <1>11, <1>12, FarOutlies
<1>14. WarmedUp(b)
  BY <1>1, <1>4 DEF WarmedUp, Fits
<1>15. IsSpike(b, c)
  BY <1>10, <1>13, <1>14 DEF IsSpike, Outlies, Above
<1>16. kinds'[t] # "none"
  BY <1>2, <1>3, <1>15 DEF Kind
<1>17. Passes(kinds')
  <2>1. t \in DOMAIN kinds'
    BY <1>2 DEF Evaluate
  <2>. QED
    BY <1>16, <2>1 DEF Passes
<1>. QED
  BY <1>2, <1>16, <1>17 DEF Evaluate

\* Every baseline fits the counts of its template.
THEOREM BaselinesSound == DetectorSpec => []BaselinesFit
BY InitFits, FitsStep, PTL DEF DetectorSpec

\* After any sequence of alerts, those it suppressed included, the detector's
\* mean and variance of a template are the weighted mean and the weighted
\* variance of all counts it was seen with.
THEOREM BaselinesAverage == DetectorSpec => []BaselineIsEMA
<1>1. BaselinesFit => BaselineIsEMA
  <2>1. SUFFICES ASSUME BaselinesFit, NEW t \in Template, counts[t] # <<>>
                 PROVE  IsEMA(store[t], counts[t])
    BY DEF BaselineIsEMA
  <2>2. store[t] \in Baseline /\ counts[t] \in Seq(Nat) /\ Fits(store[t], counts[t])
    BY <2>1 DEF BaselinesFit
  <2>3. /\ store[t].n = Len(counts[t]) /\ Averages(store[t], counts[t])
        /\ store[t].weight \in Int /\ store[t].sum \in Int
    BY <2>1, <2>2 DEF Fits, Baseline
  <2>. QED
    BY <2>1, <2>2, <2>3, AveragesAreEMA
<1>. QED
  BY <1>1, BaselinesSound, PTL

\* A level that lasts is told once, whatever the counts before: with a decay
\* that settles, a count that repeats the last one is not anomalous.
THEOREM LevelToldOnce == DetectorSpec => RepeatIsSilent
<1>1. BaselinesFit /\ [DetectorNext]_detectorVars
        => [Settles => \A t \in Template : Repeats(t) => kinds'[t] = "none"]_detectorVars
  BY RepeatStep
<1>. QED
  BY <1>1, BaselinesSound, PTL DEF DetectorSpec, RepeatIsSilent

\* After the warm-up no history of counts that vary, outliers among them, hides
\* one that lies above all of them by more than half the multiplier times their
\* spread.
THEOREM SpikesPass == DetectorSpec => FarAboveAlerts
<1>1. BaselinesFit /\ [DetectorNext]_detectorVars
        => [\A t \in Template : FarAbove(t) => at' = "send" /\ kinds'[t] # "none"]_detectorVars
  BY FarStep
<1>. QED
  BY <1>1, BaselinesSound, PTL DEF DetectorSpec, FarAboveAlerts
-----------------------------------------------------------------------------
(***************************************************************************)
(* The two together.  The detector's specification takes an alert as a     *)
(* function from the templates of its summaries to their counts: it has no *)
(* template twice, which would update a baseline twice for a window, and   *)
(* no count of zero.                                                       *)
(***************************************************************************)
Input(a) ==
  [t \in {s.pattern : s \in ToSet(a.patterns)} |->
     (CHOOSE s \in ToSet(a.patterns) : s.pattern = t).count]

LinesKnown ==
  /\ \A l \in window : l.line \in Line
  /\ \A n \in DOMAIN sent : \A l \in sent[n].lines : l.line \in Line

LEMMA KnownStep ==
  ASSUME Inv, LinesKnown, [Next]_vars
  PROVE  LinesKnown'
<1>1. ASSUME window' \subseteq window, sent' = sent PROVE LinesKnown'
  BY <1>1 DEF LinesKnown
<1>2. ASSUME NEW line \in Line, Receive(line) PROVE LinesKnown'
  <2>1. window' = window \cup {[text |-> received', line |-> line]} /\ sent' = sent
    BY <1>2 DEF Receive
  <2>2. \A l \in window' : l \in window \/ l.line = line
    BY <2>1
  <2>. QED
    BY <2>1, <2>2 DEF LinesKnown
<1>3. ASSUME NEW svc, Emit(svc) PROVE LinesKnown'
  <2>1. window' \subseteq window /\ LinesOf(svc) \subseteq window
    BY <1>3 DEF Emit, Handled, LinesOf
  <2>2. PICK a : sent' = Append(sent, a) /\ a.lines = LinesOf(svc)
    BY <1>3 DEF Emit
  <2>3. \A n \in DOMAIN sent' : (n \in DOMAIN sent /\ sent'[n] = sent[n]) \/ sent'[n] = a
    <3>. DEFINE T == ToSet(sent) \cup {a}
    <3>1. sent \in Seq(T)
      BY SeqDef DEF Inv, Typed, ToSet
    <3>2. /\ DOMAIN Append(sent, a) = DOMAIN sent \cup {Len(sent) + 1}
          /\ Append(sent, a)[Len(sent) + 1] = a
          /\ \A i \in DOMAIN sent : Append(sent, a)[i] = sent[i]
      <4>1. a \in T
        OBVIOUS
      <4>. HIDE DEF T
      <4>. QED
        BY <3>1, <4>1, AppendNew
    <3>. QED
      BY <2>2, <3>2
  <2>. QED
    BY <2>1, <2>2, <2>3 DEF LinesKnown
<1>4. ASSUME NEW svc, Skip(svc) PROVE LinesKnown'
  <2>1. window' \subseteq window /\ sent' = sent
    BY <1>4 DEF Skip, Handled
  <2>. QED
    BY <1>1, <2>1
<1>5. CASE TimerFires \/ FinalFlush \/ FlushReturns \/ CloseInput \/ Cancel \/ UNCHANGED vars
  <2>1. window' = window /\ sent' = sent
    BY <1>5 DEF TimerFires, FinalFlush, FlushReturns, CloseInput, Cancel, StartFlush, vars
  <2>. QED
    BY <1>1, <2>1
<1>6. ASSUME NEW key, Collect(key) PROVE LinesKnown'
  <2>1. window' = window /\ sent' = sent
    BY <1>6 DEF Collect
  <2>. QED
    BY <1>1, <2>1
<1>. QED
  BY <1>2, <1>3, <1>4, <1>5, <1>6 DEF Next

LEMMA InputOfAlert ==
  ASSUME NEW a, Tells(a), \A l \in a.lines : l.line \in Line,
         \A l \in Line : l.pattern # NoPattern => l.pattern \in Template,
         Count = Nat \ {0}
  PROVE  /\ Input(a) \in Alert
         /\ \A s \in ToSet(a.patterns) : Input(a)[s.pattern] = s.count
<1>. DEFINE P == ToSet(a.patterns)
            templates == {s.pattern : s \in P}
<1>1. /\ IsFiniteSet(a.lines)
      /\ \A s \in P : s.pattern # NoPattern /\ Share(s, Part(s.pattern, a.lines))
      /\ \A s, t \in P : s.pattern = t.pattern => s = t
  BY DEF Tells, Tally, Shares
<1>2. ASSUME NEW s \in P PROVE s.count \in Nat \ {0} /\ s.pattern \in Template
  <2>. DEFINE part == Part(s.pattern, a.lines)
  <2>1. part \subseteq a.lines /\ \A l \in part : l.line.pattern = s.pattern
    BY DEF Part
  <2>2. part # {} /\ s.count = Cardinality(part)
    BY <1>1 DEF Share
  <2>3. IsFiniteSet(part)
    BY <1>1, <2>1, FS_Subset
  <2>4. Cardinality(part) \in Nat \ {0}
    <3>. HIDE DEF part
    <3>. QED
      BY <2>2, <2>3, FS_CardinalityType, FS_EmptySet
  <2>. QED
    BY <1>1, <2>1, <2>2, <2>4
<1>3. \A s \in P : (CHOOSE r \in P : r.pattern = s.pattern) = s
  BY <1>1
<1>. HIDE DEF P
<1>4. \A s \in P : Input(a)[s.pattern] = s.count
  BY <1>3 DEF Input, P
<1>5. templates \subseteq Template /\ Input(a) = [t \in templates |-> Input(a)[t]]
  BY <1>2 DEF Input, P
<1>6. Input(a) \in [templates -> Count]
  <2>1. \A t \in templates : Input(a)[t] \in Count
    BY <1>2, <1>4
  <2>. HIDE DEF templates
  <2>. QED
    BY <1>5, <2>1
<1>. QED
  <2>1. Input(a) \in Alert
    <3>. HIDE DEF templates
    <3>. QED
      BY <1>5, <1>6 DEF Alert
  <2>. QED
    BY <1>4, <2>1 DEF P

\* Every alert the aggregator sends is one that the detector's specification
\* takes: templates have one summary each, and a count that is not zero
\* (aggregator.go:136-147, detector.go:104-108).
THEOREM AlertsAreInputs ==
  ASSUME \A l \in Line : l.pattern # NoPattern => l.pattern \in Template,
         Count = Nat \ {0}
  PROVE  Spec => [](\A n \in DOMAIN sent :
                      /\ Input(sent[n]) \in Alert
                      /\ \A s \in ToSet(sent[n].patterns) : Input(sent[n])[s.pattern] = s.count)
<1>1. Init => LinesKnown
  BY DEF Init, LinesKnown
<1>2. Inv /\ LinesKnown /\ [Next]_vars => LinesKnown'
  BY KnownStep
<1>3. Inv /\ LinesKnown =>
        \A n \in DOMAIN sent :
          /\ Input(sent[n]) \in Alert
          /\ \A s \in ToSet(sent[n].patterns) : Input(sent[n])[s.pattern] = s.count
  <2>1. SUFFICES ASSUME Inv, LinesKnown, NEW n \in DOMAIN sent
                 PROVE  /\ Input(sent[n]) \in Alert
                        /\ \A s \in ToSet(sent[n].patterns) : Input(sent[n])[s.pattern] = s.count
    OBVIOUS
  <2>2. Tells(sent[n]) /\ \A l \in sent[n].lines : l.line \in Line
    BY <2>1 DEF Inv, LinesKnown
  <2>. QED
    BY <2>2, InputOfAlert
<1>. QED
  BY <1>1, <1>2, <1>3, Invariance, PTL DEF Spec
=============================================================================
