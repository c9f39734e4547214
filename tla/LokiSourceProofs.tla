-------------------------- MODULE LokiSourceProofs --------------------------
(***************************************************************************)
(* Theorems about LokiSource for every limit and every bound.              *)
(***************************************************************************)
EXTENDS LokiSource, FiniteSetTheorems, TLAPS

\* A non-empty bounded set of naturals has a greatest element, which is its Max.
LEMMA MaxOfBounded ==
  ASSUME NEW S \in SUBSET Nat, S # {}, NEW bound \in Nat, \A x \in S : x <= bound
  PROVE  Max(S) \in S /\ \A x \in S : x <= Max(S)
<1>. DEFINE T == {b \in Nat : \A x \in S : x <= b}
<1>1. PICK top \in T : \A b \in T : <<b, top>> \notin OpToRel(<, Nat)
  BY NatLessThanWellFounded, WFMin
<1>2. top \in Nat /\ \A x \in S : x <= top
  OBVIOUS
<1>3. \A b \in T : ~(b < top)
  BY <1>1 DEF OpToRel
<1>4. top \in S
  <2>. SUFFICES ASSUME top \notin S PROVE FALSE
    OBVIOUS
  <2>1. \A x \in S : x \in Nat /\ x < top
    BY <1>2
  <2>2. top - 1 \in Nat
    <3>1. PICK x : x \in S
      OBVIOUS
    <3>. QED
      BY <1>2, <2>1, <3>1
  <2>3. \A x \in S : x <= top - 1
    BY <1>2, <2>1
  <2>. QED
    BY <1>2, <1>3, <2>2, <2>3 DEF T
<1>. QED
  BY <1>2, <1>4 DEF Max

(***************************************************************************)
(* The order of a response.  Entries have unique IDs, so Before is a total *)
(* order of them, and the number of earlier entries is a rank: each number *)
(* below the size of the set is the rank of one entry.                     *)
(***************************************************************************)
Entries(S) ==
  /\ IsFiniteSet(S)
  /\ \A e \in S : e.ts \in Nat /\ e.id \in Nat
  /\ \A e, f \in S : e.id = f.id => e = f

Earlier(S, e) == {f \in S : Before(f, e)}
Rank(S) == [e \in S |-> Cardinality(Earlier(S, e))]

LEMMA EarlierGrows ==
  ASSUME NEW S, Entries(S), NEW e \in S, NEW f \in S, Before(e, f)
  PROVE  /\ Rank(S)[e] \in Nat /\ Rank(S)[f] \in Nat
         /\ Rank(S)[e] < Rank(S)[f]
<1>1. Earlier(S, e) \subseteq Earlier(S, f) /\ e \in Earlier(S, f) /\ e \notin Earlier(S, e)
  BY DEF Entries, Earlier, Before
<1>2. IsFiniteSet(Earlier(S, e)) /\ IsFiniteSet(Earlier(S, f))
  BY FS_Subset DEF Entries, Earlier
<1>3. /\ Cardinality(Earlier(S, e)) <= Cardinality(Earlier(S, f))
      /\ Cardinality(Earlier(S, e)) # Cardinality(Earlier(S, f))
  BY <1>1, <1>2, FS_Subset
<1>4. Cardinality(Earlier(S, e)) \in Nat /\ Cardinality(Earlier(S, f)) \in Nat
  BY <1>2, FS_CardinalityType
<1>. QED
  BY <1>3, <1>4 DEF Rank

LEMMA RankBijection ==
  ASSUME NEW S, Entries(S)
  PROVE  /\ Cardinality(S) \in Nat
         /\ Rank(S) \in Bijection(S, 0..Cardinality(S) - 1)
<1>. DEFINE n == Cardinality(S)
<1>1. n \in Nat
  BY FS_CardinalityType DEF Entries
<1>2. ASSUME NEW e \in S PROVE Rank(S)[e] \in 0..n - 1
  <2>1. e \notin Earlier(S, e) /\ Earlier(S, e) \subseteq S
    BY DEF Entries, Earlier, Before
  <2>2. Cardinality(Earlier(S, e)) \in Nat
    BY <2>1, FS_Subset, FS_CardinalityType DEF Entries
  <2>3. Cardinality(Earlier(S, e)) <= n /\ Cardinality(Earlier(S, e)) # n
    BY <2>1, FS_Subset DEF Entries
  <2>. QED
    BY <1>1, <2>2, <2>3 DEF Rank
<1>3. ASSUME NEW e \in S, NEW f \in S, e # f PROVE Rank(S)[e] # Rank(S)[f]
  <2>1. Before(e, f) \/ Before(f, e)
    BY <1>3 DEF Entries, Before
  <2>. QED
    BY <2>1, EarlierGrows
<1>4. Rank(S) \in Injection(S, 0..n - 1)
  BY <1>2, <1>3 DEF Rank, Injection, IsInjective
<1>5. IsFiniteSet(0..n - 1) /\ Cardinality(0..n - 1) = n
  BY <1>1, FS_Interval
<1>6. Rank(S) \in Surjection(S, 0..n - 1)
  BY <1>4, <1>5, FS_Injection
<1>. QED
  BY <1>1, <1>4, <1>6 DEF Bijection

\* The first k entries are k, unless there are fewer; none of them is later
\* than an entry that is not among them.
LEMMA FirstEntries ==
  ASSUME NEW S, Entries(S), NEW k \in Nat,
         NEW e \in S, ~(Rank(S)[e] < k)
  PROVE  LET first == {f \in S : Rank(S)[f] < k}
         IN  Cardinality(first) = k /\ \A f \in first : f.ts <= e.ts
<1>. DEFINE n == Cardinality(S)
            first == {f \in S : Rank(S)[f] < k}
            counted == [f \in first |-> Rank(S)[f]]
<1>1. n \in Nat /\ Rank(S) \in Bijection(S, 0..n - 1)
  BY RankBijection
<1>2. /\ \A f \in S : Rank(S)[f] \in 0..n - 1
      /\ \A f, g \in S : Rank(S)[f] = Rank(S)[g] => f = g
      /\ \A i \in 0..n - 1 : \E f \in S : Rank(S)[f] = i
  BY <1>1 DEF Bijection, Injection, IsInjective, Surjection
<1>3. k <= n - 1
  BY <1>1, <1>2
<1>4. counted \in Bijection(first, 0..k - 1)
  <2>1. \A f \in first : counted[f] = Rank(S)[f] /\ counted[f] \in 0..k - 1
    BY <1>2
  <2>2. \A i \in 0..k - 1 : \E f \in first : counted[f] = i
    BY <1>1, <1>2, <1>3
  <2>3. counted \in Injection(first, 0..k - 1)
    BY <1>2, <2>1 DEF Injection, IsInjective
  <2>4. counted \in Surjection(first, 0..k - 1)
    BY <2>1, <2>2 DEF Surjection
  <2>. QED
    BY <2>3, <2>4 DEF Bijection
<1>5. IsFiniteSet(first)
  BY FS_Subset DEF Entries
<1>6. Cardinality(0..k - 1) = Cardinality(first)
  BY <1>4, <1>5, FS_Bijection DEF ExistsBijection
<1>7. Cardinality(0..k - 1) = k
  BY FS_Interval
<1>8. ASSUME NEW f \in first PROVE f.ts <= e.ts
  <2>1. Rank(S)[f] \in Nat /\ Rank(S)[e] \in Nat /\ Rank(S)[f] < k
    BY <1>2
  <2>2. ~Before(e, f)
    BY <2>1, EarlierGrows
  <2>. QED
    BY <2>2 DEF Before, Entries
<1>. QED
  BY <1>6, <1>7, <1>8

(***************************************************************************)
(* The inductive invariant.                                                *)
(***************************************************************************)
StoredInv ==
  /\ Entries(stored)
  /\ \A e \in stored : e.ts <= now /\ e.id < Cardinality(stored)

\* A query is asked only with every line of the last response sent.
FetchEmptyHanded == fetch # "idle" => toSend = {}

\* While a response is on its way the mark stands still, and so it keeps what held
\* when Loki ran the query, of the entries it saw: the response does not reach
\* behind the mark, and what the mark will pass without it was cut off.  Entries
\* stored since are late to the range.
ResponseInv ==
  fetch = "answered" =>
    /\ \A e \in response : start <= e.ts /\ e.ts < Mark(response)
    /\ Mark(response) \in start..end
    /\ \A e \in stored \ response : e.id < seen /\ start <= e.ts /\ e.ts < Mark(response) =>
         Cardinality(response) = Limit /\ e.ts = Max({f.ts : f \in response})
    /\ \A e \in stored : e.id >= seen /\ e.ts < end => e.overdue

Inv == TypeOK /\ StoredInv /\ FetchEmptyHanded /\ ResponseInv /\ NoRepeat /\ LossExplained

\* A response holds stored entries of the range asked for, the mark moves behind
\* them but never out of the range, and what it passes without them has the
\* timestamp at which the response was cut.
LEMMA ResponseAndMark ==
  ASSUME StoredInv, NEW from \in Nat, end \in Nat, from <= end
  PROVE  LET lines == Response(from, end) IN
         /\ lines \subseteq {e \in stored : from <= e.ts}
         /\ \A e \in lines : e.ts < Mark(lines)
         /\ Mark(lines) \in from..end
         /\ \A e \in stored \ lines : from <= e.ts /\ e.ts < Mark(lines) =>
              Cardinality(lines) = Limit /\ e.ts = Max({f.ts : f \in lines})
<1>. DEFINE range == {e \in stored : from <= e.ts /\ e.ts < end}
            lines == Response(from, end)
            times == {f.ts : f \in lines}
<1>1. Entries(range)
  BY FS_Subset DEF StoredInv, Entries
<1>2. lines = {e \in range : Rank(range)[e] < Limit}
  BY DEF Response, Rank, Earlier
<1>3. ASSUME NEW e \in range, e \notin lines
      PROVE  Cardinality(lines) = Limit /\ \A f \in lines : f.ts <= e.ts
  BY <1>1, <1>2, <1>3, FirstEntries, LokiAssumption DEF LokiAssumption
<1>4. \A e \in lines : e.ts \in Nat /\ e.ts < end /\ e.ts <= end
  BY <1>2 DEF StoredInv, Entries
<1>5. lines # {} => Max(times) \in times /\ \A t \in times : t <= Max(times)
  BY <1>4, MaxOfBounded
<1>6. lines \subseteq range
  BY <1>2
<1>. HIDE DEF lines
<1>7. CASE lines = {}
  <2>1. Cardinality(lines) # Limit
    BY <1>7, FS_EmptySet, LokiAssumption DEF LokiAssumption
  <2>2. range = {}
    BY <1>3, <1>7, <2>1
  <2>3. Mark(lines) = end
    BY <1>7 DEF Mark
  <2>. QED
    BY <1>7, <2>2, <2>3 DEF lines
<1>8. CASE lines # {}
  <2>1. Mark(lines) = Max(times) + 1 /\ Max(times) \in Nat
    BY <1>4, <1>5, <1>8 DEF Mark
  <2>2. PICK g \in lines : g.ts = Max(times)
    BY <1>5, <1>8
  <2>3. Mark(lines) \in from..end
    BY <1>4, <1>5, <1>6, <1>8, <2>1, <2>2
  <2>4. \A e \in lines : e.ts \in Nat /\ e.ts < Mark(lines)
    <3>1. \A e \in lines : e.ts \in Nat /\ e.ts <= Max(times)
      BY <1>4, <1>5, <1>8
    <3>. HIDE DEF times
    <3>. QED
      BY <2>1, <3>1
  <2>5. ASSUME NEW e \in stored \ lines, from <= e.ts, e.ts < Mark(lines)
        PROVE  Cardinality(lines) = Limit /\ e.ts = Max(times)
    <3>1. e \in range /\ e.ts \in Nat
      BY <2>3, <2>5 DEF StoredInv, Entries
    <3>2. Cardinality(lines) = Limit /\ g.ts <= e.ts
      BY <1>3, <2>5, <3>1
    <3>. QED
      BY <2>1, <2>2, <2>5, <3>1, <3>2
  <2>. QED
    BY <1>6, <2>3, <2>4, <2>5 DEF lines
<1>. QED
  BY <1>7, <1>8

\* A new entry has an ID of its own, is late if the mark has passed it, and is in no
\* response on the way.
LEMMA StoreKeepsInv ==
  ASSUME Inv, NEW delay \in 0..MaxDelay, Store(delay)
  PROVE  Inv'
<1>. DEFINE new == New(delay)
<1>. USE DEF Inv
<1>1. /\ stored' = stored \cup {new} /\ now - delay \in 0..now /\ now \in Nat
      /\ late' = IF new.ts < start THEN late \cup {new} ELSE late
      /\ UNCHANGED <<now, fetchVars, pollVars, cancelled>>
  BY LokiAssumption DEF LokiAssumption, Store, TypeOK
<1>2. /\ new.id = Cardinality(stored) /\ new.ts = now - delay /\ new.ts \in Nat
      /\ new.ts < end => new.overdue
  <2>1. new.id = Cardinality(stored) /\ new.ts = now - delay /\ new.ts \in Nat
    BY <1>1 DEF New
  <2>2. now - delay < end => [id |-> Cardinality(stored), ts |-> now - delay, overdue |-> now - delay < end].overdue
    OBVIOUS
  <2>3. new.ts < end => new.overdue
    BY <2>1, <2>2 DEF New
  <2>. QED
    BY <2>1, <2>3
<1>3. Cardinality(stored) \in Nat /\ IsFiniteSet(stored)
  BY FS_CardinalityType DEF StoredInv, Entries
<1>4. start \in Nat /\ end \in Nat /\ start <= end /\ seen \in Nat /\ seen <= Cardinality(stored)
  BY <1>3, LokiAssumption DEF LokiAssumption, TypeOK
<1>. HIDE DEF new
<1>5. new \notin stored
  BY <1>2, <1>3 DEF StoredInv
<1>6. IsFiniteSet(stored') /\ Cardinality(stored') = Cardinality(stored) + 1
  BY <1>1, <1>3, <1>5, FS_AddElement
<1>7. StoredInv'
  <2>1. \A e \in stored' : e.ts \in Nat /\ e.id \in Nat /\ e.ts <= now /\ e.id < Cardinality(stored')
    BY <1>1, <1>2, <1>3, <1>6 DEF StoredInv, Entries
  <2>2. \A e, f \in stored' : e.id = f.id => e = f
    BY <1>1, <1>2, <1>3 DEF StoredInv, Entries
  <2>. QED
    BY <1>1, <1>6, <2>1, <2>2 DEF StoredInv, Entries
<1>8. TypeOK'
  <2>1. seen \in 0..Cardinality(stored')
    BY <1>3, <1>4, <1>6
  <2>2. response \cup toSend \cup sentOut \cup late' \subseteq stored'
    BY <1>1 DEF TypeOK
  <2>. QED
    BY <1>1, <2>1, <2>2 DEF TypeOK, fetchVars, pollVars
<1>9. FetchEmptyHanded' /\ NoRepeat'
  BY <1>1 DEF FetchEmptyHanded, NoRepeat, fetchVars, pollVars
<1>10. ResponseInv'
  <2>. SUFFICES ASSUME fetch = "answered" PROVE ResponseInv'
    BY <1>1 DEF ResponseInv, fetchVars
  <2>1. UNCHANGED <<fetch, response, seen, start, end>> /\ Mark(response)' = Mark(response)
    BY <1>1 DEF fetchVars, pollVars, Mark
  <2>2. ASSUME NEW e \in stored' \ response', e.id < seen', start' <= e.ts, e.ts < Mark(response)'
        PROVE  Cardinality(response') = Limit /\ e.ts = Max({f.ts : f \in response'})
    <3>1. e \in stored
      BY <1>1, <1>2, <1>3, <1>4, <2>1, <2>2
    <3>. QED
      BY <2>1, <2>2, <3>1 DEF ResponseInv
  <2>3. \A e \in stored' : e.id >= seen' /\ e.ts < end' => e.overdue
    BY <1>1, <1>2, <2>1 DEF ResponseInv
  <2>. QED
    BY <2>1, <2>2, <2>3 DEF ResponseInv
<1>11. LossExplained'
  <2>1. new.ts < start => new \in late' /\ new.overdue
    BY <1>1, <1>2, <1>4
  <2>. QED
    BY <1>1, <2>1 DEF LossExplained, pollVars
<1>. QED
  BY <1>7, <1>8, <1>9, <1>10, <1>11

\* Loki runs the query: no entry has been stored since.
LEMMA RunQueryKeepsInv ==
  ASSUME Inv, RunQuery
  PROVE  Inv'
<1>. USE DEF Inv
<1>1. /\ UNCHANGED <<now, stored, start, end, toSend, sentOut, cut, returned, late, cancelled>>
      /\ fetch = "asked" /\ fetch' = "answered"
      /\ response' = Response(start, end) /\ seen' = Cardinality(stored)
  BY DEF RunQuery, lokiVars, pollVars
<1>2. start \in Nat /\ end \in Nat /\ start <= end
  BY LokiAssumption DEF LokiAssumption, TypeOK
<1>3. /\ response' \subseteq {e \in stored : start <= e.ts}
      /\ \A e \in response' : e.ts < Mark(response)'
      /\ Mark(response)' \in start..end
      /\ \A e \in stored \ response' : start <= e.ts /\ e.ts < Mark(response)' =>
           Cardinality(response') = Limit /\ e.ts = Max({f.ts : f \in response'})
  <2>1. Mark(response)' = Mark(Response(start, end))
    BY <1>1 DEF Mark
  <2>. QED
    BY <1>1, <1>2, <2>1, ResponseAndMark
<1>4. Cardinality(stored) \in Nat
  BY FS_CardinalityType DEF StoredInv, Entries
<1>5. \A e \in stored : e.id \in Nat /\ ~(e.id >= seen')
  BY <1>1, <1>4 DEF StoredInv, Entries
<1>6. ResponseInv'
  BY <1>1, <1>3, <1>5 DEF ResponseInv
<1>7. TypeOK'
  <2>1. seen' \in 0..Cardinality(stored')
    BY <1>1, <1>4
  <2>2. response' \cup toSend' \cup sentOut' \cup late' \subseteq stored'
    BY <1>1, <1>3 DEF TypeOK
  <2>. QED
    BY <1>1, <2>1, <2>2 DEF TypeOK
<1>8. StoredInv' /\ FetchEmptyHanded' /\ NoRepeat' /\ LossExplained'
  BY <1>1 DEF StoredInv, Entries, FetchEmptyHanded, NoRepeat, LossExplained
<1>. QED
  BY <1>6, <1>7, <1>8

\* The answer: what the mark passes is in hand, late, or cut off.
LEMMA AnswerKeepsInv ==
  ASSUME Inv, Answer
  PROVE  Inv'
<1>. USE DEF Inv
<1>1. /\ UNCHANGED <<now, stored, end, sentOut, returned, cancelled>>
      /\ fetch = "answered" /\ toSend = {}
      /\ fetch' = "idle" /\ response' = {} /\ seen' = 0
      /\ toSend' = response
      /\ start' = Mark(response)
      /\ cut' = IF Cardinality(response) = Limit THEN cut \cup {Max({e.ts : e \in response})} ELSE cut
      /\ late' = late \cup {e \in stored : e.id >= seen /\ e.ts < start'}
  BY DEF Answer, NoFetch, FetchEmptyHanded, lokiVars
<1>2. start \in Nat /\ end \in Nat /\ start <= end /\ start' \in start..end
  BY <1>1, LokiAssumption DEF LokiAssumption, TypeOK, ResponseInv
<1>3. /\ \A e \in toSend' : start <= e.ts /\ e.ts < start'
      /\ \A e \in stored \ toSend' : e.id < seen /\ start <= e.ts /\ e.ts < start' =>
           Cardinality(response) = Limit /\ e.ts = Max({f.ts : f \in response})
      /\ \A e \in stored : e.id >= seen /\ e.ts < end => e.overdue
  BY <1>1 DEF ResponseInv
<1>4. \A e \in stored : e.ts \in Nat /\ e.id \in Nat
  BY DEF StoredInv, Entries
<1>5. Cardinality(stored) \in Nat /\ seen \in 0..Cardinality(stored) /\ seen \in Nat
  BY FS_CardinalityType DEF StoredInv, Entries, TypeOK
<1>6. TypeOK' /\ StoredInv' /\ FetchEmptyHanded' /\ ResponseInv'
  <2>1. start' \in 0..end
    BY <1>2
  <2>2. response' \cup toSend' \cup sentOut' \cup late' \subseteq stored'
    BY <1>1 DEF TypeOK
  <2>3. seen' \in 0..Cardinality(stored')
    BY <1>1, <1>5
  <2>. QED
    BY <1>1, <2>1, <2>2, <2>3 DEF TypeOK, StoredInv, Entries, FetchEmptyHanded, ResponseInv
<1>7. NoRepeat'
  <2>1. sentOut \subseteq stored /\ \A e \in sentOut : e.ts < start
    BY DEF TypeOK, NoRepeat
  <2>2. toSend' \subseteq stored
    BY <1>1 DEF TypeOK
  <2>3. toSend' \cap sentOut = {} /\ \A e \in sentOut : e.ts < start'
    BY <1>2, <1>3, <1>4, <2>1, <2>2
  <2>. QED
    BY <1>1, <1>3, <2>3 DEF NoRepeat
<1>8. LossExplained'
  <2>1. ASSUME NEW e \in stored, e.ts < start', e \notin toSend', e \notin late'
        PROVE  e \in sentOut \/ e.ts \in cut'
    <3>1. CASE e.ts < start
      BY <1>1, <2>1, <3>1 DEF LossExplained, FetchEmptyHanded
    <3>2. CASE start <= e.ts
      <4>1. e.id < seen
        BY <1>1, <1>4, <1>5, <2>1
      <4>. QED
        BY <1>1, <1>3, <2>1, <3>2, <4>1
    <3>. QED
      BY <1>2, <1>4, <3>1, <3>2
  <2>2. ASSUME NEW e \in stored, e.id >= seen, e.ts < start' PROVE e.overdue
    BY <1>2, <1>3, <1>4, <2>2
  <2>3. \A e \in late' : e.overdue
    BY <1>1, <2>2 DEF LossExplained
  <2>. QED
    BY <1>1, <2>1, <2>3 DEF LossExplained
<1>. QED
  BY <1>6, <1>7, <1>8

LEMMA InitInv == Init => Inv
<1>. SUFFICES ASSUME Init PROVE Inv
  OBVIOUS
<1>1. Entries(stored) /\ Cardinality(stored) = 0
  BY FS_EmptySet DEF Init, Entries
<1>2. TypeOK
  <2>1. 0 \in 0..MaxTime /\ 0 \in 0..0
    BY LokiAssumption DEF LokiAssumption
  <2>. QED
    BY <1>1, <2>1 DEF Init, TypeOK
<1>. QED
  BY <1>1, <1>2
  DEF Init, Inv, StoredInv, FetchEmptyHanded, ResponseInv, NoRepeat, LossExplained

LEMMA InvStep ==
  ASSUME Inv, [Next]_vars
  PROVE  Inv'
<1>. USE DEF Inv
<1>1. ASSUME UNCHANGED <<stored, start, toSend, sentOut, cut, late>>, now <= now', now' \in Nat
      PROVE  StoredInv' /\ NoRepeat' /\ LossExplained'
  <2>1. now \in Nat /\ \A e \in stored : e.ts \in Nat
    BY LokiAssumption DEF LokiAssumption, TypeOK, StoredInv, Entries
  <2>. QED
    BY <1>1, <2>1 DEF StoredInv, Entries, NoRepeat, LossExplained
<1>2. now \in Nat /\ Cardinality(stored) \in Nat
  BY FS_CardinalityType, LokiAssumption DEF LokiAssumption, TypeOK, StoredInv, Entries
<1>3. CASE Tick
  <2>1. now' = now + 1 /\ now' \in 0..MaxTime /\ UNCHANGED <<stored, fetchVars, pollVars, late, cancelled>>
    BY <1>2, <1>3, LokiAssumption DEF LokiAssumption, Tick
  <2>2. 0..now \subseteq 0..now'
    BY <1>2, <2>1
  <2>3. TypeOK' /\ FetchEmptyHanded' /\ ResponseInv'
    BY <2>1, <2>2 DEF fetchVars, pollVars, TypeOK, FetchEmptyHanded, ResponseInv, Mark
  <2>. QED
    BY <1>1, <1>2, <2>1, <2>3 DEF pollVars
<1>4. CASE Ask
  <2>1. end' = now /\ fetch' = "asked" /\ toSend = {}
        /\ UNCHANGED <<now, stored, start, response, seen, toSend, sentOut, cut, returned, late, cancelled>>
    BY <1>4 DEF Ask, lokiVars
  <2>2. now \in 0..now /\ 0..end \subseteq 0..now
    BY <1>2 DEF TypeOK
  <2>3. TypeOK' /\ FetchEmptyHanded' /\ ResponseInv'
    BY <2>1, <2>2 DEF TypeOK, FetchEmptyHanded, ResponseInv
  <2>. QED
    BY <1>1, <1>2, <2>1, <2>3
<1>5. CASE Fail
  <2>1. fetch' = "idle" /\ response' = {} /\ seen' = 0
        /\ UNCHANGED <<now, stored, start, end, toSend, sentOut, cut, returned, late, cancelled>>
    BY <1>5 DEF Fail, NoFetch, lokiVars, pollVars
  <2>2. TypeOK' /\ FetchEmptyHanded' /\ ResponseInv'
    BY <1>2, <2>1 DEF TypeOK, FetchEmptyHanded, ResponseInv
  <2>. QED
    BY <1>1, <1>2, <2>1, <2>2
<1>6. CASE Return \/ Cancel \/ UNCHANGED vars
  <2>1. UNCHANGED <<now, stored, fetch, response, seen, start, end, toSend, sentOut, cut, late>>
    BY <1>6 DEF Return, Cancel, vars, lokiVars, fetchVars, pollVars
  <2>2. cancelled' \in BOOLEAN /\ returned' \in BOOLEAN
    <3>1. cancelled \in BOOLEAN /\ returned \in BOOLEAN
      BY DEF TypeOK
    <3>. QED
      BY <1>6, <3>1 DEF Return, Cancel, vars, lokiVars, fetchVars, pollVars
  <2>3. TypeOK' /\ FetchEmptyHanded' /\ ResponseInv'
    BY <2>1, <2>2 DEF TypeOK, FetchEmptyHanded, ResponseInv, Mark
  <2>. QED
    BY <1>1, <1>2, <2>1, <2>3
<1>7. ASSUME NEW e \in toSend, Send(e) PROVE Inv'
  <2>1. UNCHANGED <<now, stored, fetch, response, seen, start, end, cut, returned, late, cancelled>>
    BY <1>7 DEF Send, lokiVars, fetchVars
  <2>2. toSend' \cup sentOut' = toSend \cup sentOut /\ toSend' \cap sentOut' = {}
    BY <1>7 DEF Send, NoRepeat
  <2>3. TypeOK' /\ NoRepeat'
    BY <2>1, <2>2 DEF TypeOK, NoRepeat
  <2>4. FetchEmptyHanded'
    BY <1>7, <2>1 DEF Send, FetchEmptyHanded
  <2>5. StoredInv' /\ ResponseInv' /\ LossExplained'
    BY <2>1, <2>2 DEF StoredInv, Entries, ResponseInv, LossExplained, Mark
  <2>. QED
    BY <2>3, <2>4, <2>5
<1>. QED
  BY <1>3, <1>4, <1>5, <1>6, <1>7, StoreKeepsInv, RunQueryKeepsInv, AnswerKeepsInv DEF Next

\* The inductive invariant: stored entries have their own IDs, a query is asked
\* with empty hands, a response on the way tells of the entries stored before its
\* query ran, and the two properties below.
THEOREM Invariance == Spec => []Inv
  BY InitInv, InvStep, PTL DEF Spec

\* The mark never passes the end of the range, nor that the clock.
THEOREM TypeCorrect == Spec => []TypeOK
<1>1. Inv => TypeOK
  BY DEF Inv
<1>. QED
  BY <1>1, Invariance, PTL

\* No line is sent twice (ingest/loki.go, doPoll), whatever the limit, however
\* late entries are stored and whichever requests fail.
THEOREM NothingTwice == Spec => []NoRepeat
<1>1. Inv => NoRepeat
  BY DEF Inv
<1>. QED
  BY <1>1, Invariance, PTL

\* The mark passes an entry without its line only if the entry was stored behind
\* the mark, or while the response that moved the mark was on its way, or shares
\* the timestamp at which a full response was cut; and the first two happen only to
\* entries whose timestamp was older than the last poll when they were stored.
THEOREM OnlyThreeLosses == Spec => []LossExplained
<1>1. Inv => LossExplained
  BY DEF Inv
<1>. QED
  BY <1>1, Invariance, PTL
=============================================================================
