-------------------------- MODULE CorrelatorProofs --------------------------
(***************************************************************************)
(* Theorems about Correlator for every dependency graph, every set of      *)
(* services, window, lag and bound.                                        *)
(***************************************************************************)
EXTENDS Correlator, FiniteSetTheorems, SequenceTheorems, TLAPS

AlertType ==
  [service : Service, zscore : Nat, timestamp : Nat, serial : Nat, window : Nat]

Incident == {BuildIncident(g) : g \in {h \in SUBSET AlertType : IsFiniteSet(h)}}

(***************************************************************************)
(* The inductive invariant.                                                *)
(***************************************************************************)
StateType ==
  /\ received \in Nat /\ deadline \in Nat
  /\ buffer \in SUBSET AlertType /\ IsFiniteSet(buffer)
  /\ \A g \in pending : g \in SUBSET AlertType /\ IsFiniteSet(g)
  /\ sent \in Seq(Incident)

\* The goroutine holds alerts in its buffer or in the groups of a flush.
OnePlace ==
  /\ pc = "select" => pending = {}
  /\ pc # "select" => buffer = {}
  /\ pc = "done" => pending = {}

\* The groups made by flushes, emitted or not.
Flushed == pending \cup {inc.alerts : inc \in ToSet(sent)}

\* A window is over when its alerts are flushed, and the next ends later.
WindowsInv ==
  /\ \A a \in buffer : a.window = deadline
  /\ \A g \in Flushed : \A a \in g :
       a.window <= deadline /\ (pc = "select" => a.window < deadline)
  /\ pc = "flush" => deadline <= now

\* Two flushed alerts are in one group exactly when one window and one component
\* join them.
GroupsInv ==
  \A g, h \in Flushed : \A a \in g, b \in h :
    g = h <=> (a.window = b.window /\ SameGroup(a, b))

Inv ==
  /\ TypeOK
  /\ StateType
  /\ OnePlace
  /\ WindowsInv
  /\ GroupsInv
  /\ NoAlertLost
-----------------------------------------------------------------------------
(***************************************************************************)
(* Grouping.                                                               *)
(***************************************************************************)
\* Component IDs agree exactly on connected services.
LEMMA SameComponent ==
  ASSUME NEW a \in Known, NEW b \in Known
  PROVE  (Component[b] = Component[a]) <=> Connected(Calls, a, b)
<1>1. /\ Component[a] = {c \in Known : Connected(Calls, a, c)}
      /\ Component[b] = {c \in Known : Connected(Calls, b, c)}
  BY DEF Component
<1>2. \A x, y, z : Connected(Calls, x, y) /\ Connected(Calls, y, z) => Connected(Calls, x, z)
  BY DEF Connected
<1>3. \A x : Connected(Calls, x, x)
  BY DEF Connected
<1>4. ASSUME NEW x \in Known, NEW y \in Known, Connected(Calls, x, y)
      PROVE  Connected(Calls, y, x)
  <2>. SUFFICES ASSUME NEW S \in SUBSET Known, y \in S, Closed(Calls, S), x \notin S
                PROVE  FALSE
    BY DEF Connected, Known
  <2>1. \A s \in Known : /\ Neighbours(Calls, s) \subseteq Known
                         /\ \A t \in Neighbours(Calls, s) : s \in Neighbours(Calls, t)
    BY CorrelatorAssumption DEF CorrelatorAssumption, Neighbours, CalledBy, Known
  <2>2. Closed(Calls, Known \ S)
    BY <2>1 DEF Closed
  <2>3. y \in Known \ S
    BY <1>4, <2>2 DEF Connected, Known
  <2>. QED
    BY <2>3
<1>5. ASSUME Component[b] = Component[a] PROVE Connected(Calls, a, b)
  <2>1. b \in Component[b]
    BY <1>1, <1>3
  <2>. QED
    BY <1>1, <1>5, <2>1
<1>6. ASSUME Connected(Calls, a, b) PROVE Component[b] = Component[a]
  <2>1. Connected(Calls, b, a)
    BY <1>4, <1>6
  <2>. QED
    BY <1>1, <1>2, <1>6, <2>1
<1>. QED
  BY <1>5, <1>6

LEMMA SameGroupEquivalence ==
  /\ \A a : SameGroup(a, a)
  /\ \A a, b : SameGroup(a, b) => SameGroup(b, a)
  /\ \A a, b, c : SameGroup(a, b) /\ SameGroup(b, c) => SameGroup(a, c)
BY DEF SameGroup

\* The groups of a flush partition its alerts by SameGroup.
LEMMA Partition ==
  ASSUME NEW A
  PROVE  /\ UNION Groups(A) = A
         /\ \A g \in Groups(A) : g \in SUBSET A
         /\ \A g, h \in Groups(A) : \A a \in g, b \in h : g = h <=> SameGroup(a, b)
<1>1. \A g \in Groups(A) : \E c \in A : g = {b \in A : SameGroup(c, b)}
  BY DEF Groups
<1>2. UNION Groups(A) = A
  BY <1>1, SameGroupEquivalence DEF Groups
<1>3. ASSUME NEW g \in Groups(A), NEW h \in Groups(A), NEW a \in g, NEW b \in h
      PROVE  g = h <=> SameGroup(a, b)
  <2>1. PICK c \in A : g = {x \in A : SameGroup(c, x)}
    BY <1>1
  <2>2. PICK d \in A : h = {x \in A : SameGroup(d, x)}
    BY <1>1
  <2>3. SameGroup(c, a) /\ SameGroup(d, b) /\ a \in A /\ b \in A
    BY <2>1, <2>2
  <2>4. ASSUME SameGroup(a, b) PROVE g = h
    <3>1. SameGroup(c, d) /\ SameGroup(d, c)
      BY <2>3, <2>4, SameGroupEquivalence
    <3>. QED
      BY <2>1, <2>2, <3>1, SameGroupEquivalence
  <2>5. ASSUME g = h PROVE SameGroup(a, b)
    BY <2>1, <2>3, <2>5, SameGroupEquivalence
  <2>. QED
    BY <2>4, <2>5
<1>. QED
  BY <1>1, <1>2, <1>3

LEMMA BuildsAlerts == \A g : BuildIncident(g).alerts = g
BY DEF BuildIncident

LEMMA Appended ==
  ASSUME NEW S, NEW s \in Seq(S), NEW e \in S
  PROVE  /\ Append(s, e) \in Seq(S)
         /\ ToSet(Append(s, e)) = ToSet(s) \cup {e}
         /\ DOMAIN s = 1..Len(s) /\ DOMAIN Append(s, e) = 1..Len(s) + 1 /\ Len(s) \in Nat
         /\ \A i \in 1..Len(s) : Append(s, e)[i] = s[i]
         /\ Append(s, e)[Len(s) + 1] = e
<1>1. /\ Append(s, e) \in Seq(S) /\ Len(Append(s, e)) = Len(s) + 1
      /\ \A i \in 1..Len(s) : Append(s, e)[i] = s[i]
      /\ Append(s, e)[Len(s) + 1] = e
      /\ Len(s) \in Nat /\ DOMAIN s = 1..Len(s)
  BY AppendProperties, LenProperties
<1>2. DOMAIN Append(s, e) = 1..Len(s) + 1
  BY <1>1, LenProperties
<1>3. 1..Len(s) + 1 = 1..Len(s) \cup {Len(s) + 1}
  BY <1>1
<1>4. ToSet(Append(s, e)) = ToSet(s) \cup {e}
  BY <1>1, <1>2, <1>3 DEF ToSet
<1>. QED
  BY <1>1, <1>2, <1>4
-----------------------------------------------------------------------------
LEMMA InitInv == Init => Inv
<1>. SUFFICES ASSUME Init PROVE Inv
  OBVIOUS
<1>1. ToSet(sent) = {} /\ DOMAIN sent = {} /\ sent \in Seq(Incident)
  BY DEF Init, ToSet
<1>2. Alerts = {} /\ SentAlerts = {} /\ Flushed = {}
  BY <1>1 DEF Init, Alerts, SentAlerts, Flushed
<1>3. StateType
  BY <1>1, CorrelatorAssumption, FS_EmptySet DEF Init, StateType, CorrelatorAssumption
<1>4. TypeOK
  <2>1. inClosed \in BOOLEAN /\ cancelled \in BOOLEAN
    BY Zenon DEF Init
  <2>2. now \in 0..MaxTime
    BY CorrelatorAssumption DEF Init, CorrelatorAssumption
  <2>3. ReaderOK
    BY CorrelatorAssumption DEF Init, ReaderOK, CorrelatorAssumption
  <2>. QED
    BY <1>2, <2>1, <2>2, <2>3 DEF Init, TypeOK
<1>5. NoAlertLost
  BY <1>1, <1>2 DEF Init, NoAlertLost
<1>. QED
  BY <1>2, <1>3, <1>4, <1>5 DEF Init, Inv, OnePlace, WindowsInv, GroupsInv

LEMMA ReaderKept ==
  ASSUME Inv, UNCHANGED <<cancelled, reading, room>>
  PROVE  ReaderOK'
BY DEF Inv, TypeOK, ReaderOK

LEMMA ReceiveKeeps ==
  ASSUME Inv, NEW svc \in Service, NEW z \in ZScore[svc], NEW lag \in 0..MaxLag,
         Receive(svc, z, lag)
  PROVE  Inv'
<1>. DEFINE new == [service |-> svc, zscore |-> z, timestamp |-> now - lag,
                    serial |-> received + 1, window |-> deadline]
<1>1. /\ pc = "select" /\ lag <= now /\ received' = received + 1
      /\ buffer' = buffer \cup {new}
      /\ UNCHANGED <<pc, pending, deadline, now, inClosed, cancelled, reading, room, sent>>
  BY DEF Receive, reader
<1>2. /\ received \in Nat /\ deadline \in Nat /\ now \in Nat /\ lag \in Nat
      /\ now - lag \in 0..now
  BY <1>1, CorrelatorAssumption DEF Inv, StateType, TypeOK, CorrelatorAssumption
<1>3. /\ new \in AlertType /\ new.serial = received + 1 /\ new.window = deadline
      /\ new.service \in Service /\ new.zscore \in ZScore[new.service] /\ new.timestamp \in 0..now
  BY <1>2, CorrelatorAssumption DEF AlertType, CorrelatorAssumption
<1>. HIDE DEF new
<1>4. SentAlerts' = SentAlerts /\ Alerts' = Alerts \cup {new} /\ Flushed' = Flushed
  BY <1>1 DEF SentAlerts, Alerts, Flushed
<1>5. StateType'
  BY <1>1, <1>2, <1>3, FS_AddElement DEF Inv, StateType
<1>6. TypeOK'
  <2>1. inClosed' \in BOOLEAN /\ cancelled' \in BOOLEAN
    BY <1>1, Zenon DEF Inv, TypeOK
  <2>2. new.window <= deadline
    BY <1>2, <1>3
  <2>3. ReaderOK'
    BY <1>1, ReaderKept
  <2>. QED
    BY <1>1, <1>3, <1>4, <2>1, <2>2, <2>3 DEF Inv, TypeOK, OnePlace
<1>7. OnePlace' /\ WindowsInv' /\ GroupsInv'
  BY <1>1, <1>3, <1>4 DEF Inv, OnePlace, WindowsInv, GroupsInv, SameGroup
<1>8. NoAlertLost'
  <2>1. {a.serial : a \in Alerts} = 1..received
    BY DEF Inv, NoAlertLost
  <2>2. {a.serial : a \in Alerts \cup {new}} = 1..received + 1
    BY <1>2, <1>3, <2>1
  <2>3. \A a \in Alerts : a.serial # new.serial
    <3>1. \A a \in Alerts : a.serial \in 1..received
      BY <2>1
    <3>2. received + 1 \notin 1..received
      BY <1>2
    <3>. QED
      BY <1>3, <3>1, <3>2
  <2>4. new \notin Alerts
    BY <2>3
  <2>5. \A a, b \in Alerts \cup {new} : a.serial = b.serial => a = b
    BY <2>3 DEF Inv, NoAlertLost
  <2>6. SentAlerts \subseteq Alerts /\ (UNION pending) \subseteq Alerts
    BY DEF Alerts
  <2>. QED
    BY <1>1, <1>4, <2>2, <2>4, <2>5, <2>6 DEF Inv, NoAlertLost
<1>. QED
  BY <1>5, <1>6, <1>7, <1>8 DEF Inv

\* What flush makes of the buffer.
LEMMA FlushKeeps ==
  ASSUME Inv, pc = "select", pc' \in {"flush", "final"}, pc' = "flush" => deadline <= now,
         pending' = Groups(buffer), buffer' = {},
         UNCHANGED <<received, deadline, now, inClosed, cancelled, reading, room, sent>>
  PROVE  Inv'
<1>. DEFINE SentGroups == {inc.alerts : inc \in ToSet(sent)}
<1>1. pending = {} /\ UNION pending = {} /\ Flushed = SentGroups
  BY DEF Inv, OnePlace, Flushed
<1>2. /\ SentAlerts' = SentAlerts /\ (UNION pending)' = buffer
      /\ Flushed' = Groups(buffer) \cup SentGroups
  BY Partition DEF SentAlerts, Flushed
<1>3. Alerts' = Alerts
  BY <1>1, <1>2 DEF Alerts
<1>4. StateType'
  BY Partition, FS_Subset, FS_EmptySet DEF Inv, StateType
<1>5. TypeOK'
  BY <1>3, ReaderKept DEF Inv, TypeOK
<1>6. OnePlace'
  BY DEF OnePlace
<1>7. deadline \in Nat /\ \A a \in buffer : a.window = deadline
  BY DEF Inv, StateType, WindowsInv
<1>8. ASSUME NEW g \in SentGroups, NEW a \in g PROVE a.window < deadline /\ a.window # deadline
  <2>1. a.window \in Nat
    <3>1. PICK inc \in Incident : g = inc.alerts
      BY LenProperties DEF Inv, StateType, ToSet
    <3>2. g \in SUBSET AlertType
      BY <3>1, BuildsAlerts DEF Incident
    <3>. QED
      BY <3>2 DEF AlertType
  <2>2. a.window < deadline
    BY <1>1 DEF Inv, WindowsInv
  <2>. QED
    BY <1>7, <2>1, <2>2
<1>9. WindowsInv'
  <2>1. ASSUME NEW g \in Groups(buffer), NEW a \in g PROVE a.window <= deadline
    BY <1>7, Partition
  <2>2. ASSUME NEW g \in SentGroups, NEW a \in g PROVE a.window <= deadline
    BY <1>1 DEF Inv, WindowsInv
  <2>. QED
    BY <1>2, <2>1, <2>2 DEF WindowsInv
<1>10. ASSUME NEW g \in Groups(buffer), NEW h \in SentGroups, NEW a \in g, NEW b \in h
       PROVE  a.window # b.window /\ g # h
  BY <1>7, <1>8, Partition
<1>11. GroupsInv'
  <2>. SUFFICES ASSUME NEW g \in Groups(buffer) \cup SentGroups,
                       NEW h \in Groups(buffer) \cup SentGroups, NEW a \in g, NEW b \in h
                PROVE  g = h <=> (a.window = b.window /\ SameGroup(a, b))
    BY <1>2 DEF GroupsInv, SameGroup
  <2>1. CASE g \in Groups(buffer) /\ h \in Groups(buffer)
    <3>1. a.window = b.window
      BY <1>7, <2>1, Partition
    <3>. QED
      BY <2>1, <3>1, Partition
  <2>2. CASE g \in SentGroups /\ h \in SentGroups
    BY <1>1, <2>2 DEF Inv, GroupsInv
  <2>3. CASE g \in Groups(buffer) /\ h \in SentGroups
    BY <1>10, <2>3
  <2>4. CASE g \in SentGroups /\ h \in Groups(buffer)
    BY <1>10, <2>4
  <2>. QED
    BY <2>1, <2>2, <2>3, <2>4
<1>12. NoAlertLost'
  <2>1. \A g, h \in Groups(buffer) : g # h => g \cap h = {}
    BY Partition, SameGroupEquivalence
  <2>2. SentAlerts \cap buffer = {}
    BY DEF Inv, NoAlertLost
  <2>. QED
    BY <1>1, <1>2, <1>3, <2>1, <2>2 DEF Inv, NoAlertLost
<1>. QED
  BY <1>4, <1>5, <1>6, <1>9, <1>11, <1>12 DEF Inv

LEMMA EmitKeeps ==
  ASSUME Inv, NEW group \in pending, Emit(group)
  PROVE  Inv'
<1>. DEFINE inc == BuildIncident(group)
            n == Len(sent)
<1>1. /\ pc \in {"flush", "final"} /\ sent' = Append(sent, inc)
      /\ pending' = pending \ {group}
      /\ UNCHANGED <<received, pc, buffer, deadline, now, inClosed, cancelled, reading>>
      /\ reading \/ room > 0
      /\ room' = IF reading THEN room ELSE room - 1
  BY DEF Emit
<1>2. sent \in Seq(Incident) /\ inc \in Incident /\ inc.alerts = group
  BY BuildsAlerts DEF Inv, StateType, Incident
<1>. HIDE DEF inc
<1>3. /\ sent' \in Seq(Incident) /\ ToSet(sent') = ToSet(sent) \cup {inc}
      /\ n \in Nat /\ DOMAIN sent = 1..n /\ DOMAIN sent' = 1..n + 1
      /\ \A i \in 1..n : sent'[i] = sent[i]
      /\ sent'[n + 1] = inc
  BY <1>1, <1>2, Appended
<1>4. SentAlerts' = SentAlerts \cup group
  BY <1>2, <1>3 DEF SentAlerts
<1>5. Flushed' = Flushed /\ (UNION pending) = (UNION pending') \cup group
  BY <1>1, <1>2, <1>3 DEF Flushed
<1>6. Alerts' = Alerts
  BY <1>1, <1>4, <1>5 DEF Alerts
<1>7. StateType'
  BY <1>1, <1>3 DEF Inv, StateType
<1>8. TypeOK'
  <2>1. ReaderOK'
    BY <1>1, CorrelatorAssumption DEF Inv, TypeOK, ReaderOK, CorrelatorAssumption
  <2>. QED
    BY <1>1, <1>6, <2>1 DEF Inv, TypeOK
<1>9. OnePlace' /\ WindowsInv' /\ GroupsInv'
  BY <1>1, <1>5 DEF Inv, OnePlace, WindowsInv, GroupsInv, SameGroup
<1>10. NoAlertLost'
  <2>1. \A i \in 1..n : sent[i].alerts \subseteq SentAlerts
    BY <1>3 DEF SentAlerts, ToSet
  <2>2. SentAlerts \cap group = {}
    BY DEF Inv, NoAlertLost
  <2>3. ASSUME NEW i \in 1..n + 1, NEW j \in 1..n + 1, i # j
        PROVE  sent'[i].alerts \cap sent'[j].alerts = {}
    <3>1. CASE i \in 1..n /\ j \in 1..n
      BY <1>3, <2>3, <3>1 DEF Inv, NoAlertLost
    <3>2. CASE i = n + 1 /\ j \in 1..n
      BY <1>2, <1>3, <2>1, <2>2, <3>2
    <3>3. CASE i \in 1..n /\ j = n + 1
      BY <1>2, <1>3, <2>1, <2>2, <3>3
    <3>. QED
      BY <1>3, <2>3, <3>1, <3>2, <3>3
  <2>4. \A g \in pending' : g \cap group = {}
    BY <1>1 DEF Inv, NoAlertLost
  <2>5. (UNION pending') \cap group = {}
    BY <2>4
  <2>6. (SentAlerts \cup group) \cap (UNION pending)' = {}
    BY <1>5, <2>5 DEF Inv, NoAlertLost
  <2>7. ((SentAlerts \cup group) \cup (UNION pending)') \cap buffer = {}
    BY <1>5 DEF Inv, NoAlertLost
  <2>. QED
    BY <1>1, <1>3, <1>4, <1>6, <2>3, <2>6, <2>7 DEF Inv, NoAlertLost
<1>. QED
  BY <1>7, <1>8, <1>9, <1>10 DEF Inv

LEMMA FlushReturnsKeeps ==
  ASSUME Inv, FlushReturns
  PROVE  Inv'
<1>1. /\ pc \in {"flush", "final"} /\ pending = {} /\ buffer = {}
      /\ pc' = IF pc = "flush" THEN "select" ELSE "done"
      /\ deadline' = IF pc = "flush" THEN now + Window ELSE deadline
      /\ UNCHANGED <<received, buffer, pending, now, inClosed, cancelled, reading, room, sent>>
  BY DEF FlushReturns, reader, Inv, OnePlace
<1>2. SentAlerts' = SentAlerts /\ Alerts' = Alerts /\ Flushed' = Flushed /\ Alerts = SentAlerts
  BY <1>1 DEF SentAlerts, Alerts, Flushed
<1>3. /\ deadline \in Nat /\ deadline' \in Nat /\ deadline <= deadline'
      /\ pc = "flush" => deadline < deadline'
  BY <1>1, CorrelatorAssumption DEF Inv, StateType, TypeOK, WindowsInv, CorrelatorAssumption
<1>4. \A a \in Alerts : a.window \in Nat
  <2>1. \A inc \in ToSet(sent) : inc.alerts \in SUBSET AlertType
    BY LenProperties, BuildsAlerts DEF Inv, StateType, ToSet, Incident
  <2>. QED
    BY <1>2, <2>1 DEF SentAlerts, AlertType
<1>5. \A a \in Alerts : a.window <= deadline'
  BY <1>3, <1>4 DEF Inv, TypeOK
<1>6. StateType'
  BY <1>1, <1>3 DEF Inv, StateType
<1>7. TypeOK'
  <2>1. ReaderOK'
    BY <1>1, ReaderKept
  <2>. QED
    BY <1>1, <1>2, <1>5, <2>1 DEF Inv, TypeOK
<1>8. OnePlace'
  BY <1>1 DEF OnePlace
<1>9. WindowsInv'
  <2>1. ASSUME NEW g \in Flushed, NEW a \in g
        PROVE  a.window <= deadline' /\ (pc = "flush" => a.window < deadline')
    <3>1. a \in Alerts
      BY <1>1, <1>2 DEF Flushed, SentAlerts
    <3>2. a.window \in Nat /\ a.window <= deadline
      BY <1>4, <3>1 DEF Inv, TypeOK
    <3>. QED
      BY <1>3, <3>2
  <2>. QED
    BY <1>1, <1>2, <2>1 DEF WindowsInv
<1>10. GroupsInv'
  BY <1>2 DEF Inv, GroupsInv, SameGroup
<1>11. NoAlertLost'
  BY <1>1, <1>2 DEF Inv, NoAlertLost
<1>. QED
  BY <1>6, <1>7, <1>8, <1>9, <1>10, <1>11 DEF Inv
-----------------------------------------------------------------------------
(***************************************************************************)
(* Choosing and sorting by an order, given as the set of its pairs.        *)
(***************************************************************************)
StrictOrder(R, S) ==
  /\ \A a \in S : <<a, a>> \notin R
  /\ \A a, b \in S : a # b => <<a, b>> \in R \/ <<b, a>> \in R
  /\ \A a, b, c \in S : <<a, b>> \in R /\ <<b, c>> \in R => <<a, c>> \in R

\* A finite set has a listing in the order of R.
LEMMA Sorted ==
  ASSUME NEW S, IsFiniteSet(S), NEW R, StrictOrder(R, S)
  PROVE  /\ Cardinality(S) \in Nat
         /\ \E chain \in SetToSeqs(S) :
              \A i, j \in DOMAIN chain : i < j => <<chain[i], chain[j]>> \in R
         /\ \A chain \in SetToSeqs(S) :
              DOMAIN chain = 1..Cardinality(S) /\ IsInjective(chain) /\ ToSet(chain) = S
<1>. DEFINE n == Cardinality(S)
            before(e) == {f \in S : <<f, e>> \in R}
            place == [e \in S |-> Cardinality(before(e)) + 1]
<1>1. n \in Nat
  BY FS_CardinalityType
<1>2. ASSUME NEW e \in S
      PROVE  Cardinality(before(e)) \in Nat /\ place[e] = Cardinality(before(e)) + 1 /\ place[e] \in 1..n
  <2>1. before(e) \subseteq S /\ e \notin before(e)
    BY DEF StrictOrder
  <2>2. /\ Cardinality(before(e)) \in Nat
        /\ Cardinality(before(e)) <= n /\ Cardinality(before(e)) # n
    BY <2>1, FS_Subset, FS_CardinalityType
  <2>. QED
    BY <1>1, <2>2
<1>3. ASSUME NEW e \in S, NEW f \in S, <<e, f>> \in R PROVE place[e] < place[f]
  <2>1. before(e) \subseteq before(f) /\ e \in before(f) /\ e \notin before(e)
    BY <1>3 DEF StrictOrder
  <2>2. IsFiniteSet(before(f))
    BY FS_Subset
  <2>3. /\ Cardinality(before(e)) <= Cardinality(before(f))
        /\ Cardinality(before(e)) # Cardinality(before(f))
    BY <2>1, <2>2, FS_Subset
  <2>. QED
    BY <1>2, <2>3
<1>. HIDE DEF place
<1>4. place \in [S -> 1..n]
  BY <1>2 DEF place
<1>5. \A e, f \in S : place[e] = place[f] => e = f
  <2>. SUFFICES ASSUME NEW e \in S, NEW f \in S, e # f PROVE place[e] # place[f]
    OBVIOUS
  <2>1. place[e] \in Nat /\ place[f] \in Nat
    BY <1>1, <1>4
  <2>2. <<e, f>> \in R \/ <<f, e>> \in R
    BY DEF StrictOrder
  <2>3. place[e] < place[f] \/ place[f] < place[e]
    BY <1>3, <2>2
  <2>. QED
    BY <2>1, <2>3
<1>6. place \in Injection(S, 1..n)
  BY <1>4, <1>5 DEF Injection, IsInjective
<1>7. IsFiniteSet(1..n) /\ Cardinality(1..n) = n
  BY <1>1, FS_Interval
<1>8. place \in Surjection(S, 1..n)
  BY <1>6, <1>7, FS_Injection
<1>9. \A i \in 1..n : \E e \in S : place[e] = i
  BY <1>8 DEF Surjection
<1>. DEFINE chain == [i \in 1..n |-> CHOOSE e \in S : place[e] = i]
<1>10. \A i \in 1..n : chain[i] \in S /\ place[chain[i]] = i
  BY <1>9
<1>11. chain \in [1..n -> S]
  BY <1>10
<1>. HIDE DEF chain
<1>12. \A i, j \in 1..n : i # j => chain[i] # chain[j]
  BY <1>10
<1>13. chain \in SetToSeqs(S)
  BY <1>11, <1>12 DEF SetToSeqs
<1>14. ASSUME NEW i \in 1..n, NEW j \in 1..n, i < j PROVE <<chain[i], chain[j]>> \in R
  <2>1. chain[i] # chain[j] /\ chain[i] \in S /\ chain[j] \in S
    BY <1>1, <1>10, <1>14
  <2>2. <<chain[j], chain[i]>> \notin R
    <3>1. ~(j < i)
      BY <1>1, <1>14
    <3>. QED
      BY <1>3, <1>10, <2>1, <3>1
  <2>. QED
    BY <2>1, <2>2 DEF StrictOrder
<1>15. ASSUME NEW list \in SetToSeqs(S)
       PROVE  DOMAIN list = 1..n /\ IsInjective(list) /\ ToSet(list) = S
  <2>1. list \in [1..n -> S] /\ \A i, j \in 1..n : i # j => list[i] # list[j]
    BY DEF SetToSeqs
  <2>2. list \in Injection(1..n, S)
    BY <2>1 DEF Injection, IsInjective
  <2>3. list \in Surjection(1..n, S)
    BY <1>7, <2>2, FS_Injection
  <2>. QED
    BY <2>1, <2>2, <2>3 DEF Injection, Surjection, ToSet
<1>. QED
  BY <1>1, <1>11, <1>13, <1>14, <1>15

LEMMA First ==
  ASSUME NEW S, IsFiniteSet(S), S # {}, NEW R, StrictOrder(R, S)
  PROVE  \E a \in S : \A b \in S : a = b \/ <<a, b>> \in R
<1>1. PICK chain \in SetToSeqs(S) :
        \A i, j \in DOMAIN chain : i < j => <<chain[i], chain[j]>> \in R
  BY Sorted
<1>2. /\ DOMAIN chain = 1..Cardinality(S) /\ ToSet(chain) = S /\ Cardinality(S) \in Nat
  BY Sorted
<1>3. \A b \in S : \E j \in 1..Cardinality(S) : b = chain[j]
  BY <1>2 DEF ToSet
<1>4. 1 \in 1..Cardinality(S)
  BY <1>2, <1>3
<1>5. chain[1] \in S
  BY <1>2, <1>4 DEF ToSet
<1>6. ASSUME NEW b \in S PROVE chain[1] = b \/ <<chain[1], b>> \in R
  <2>1. PICK j \in 1..Cardinality(S) : b = chain[j]
    BY <1>3
  <2>2. j = 1 \/ 1 < j
    BY <1>2
  <2>. QED
    BY <1>1, <1>2, <1>4, <2>1, <2>2
<1>. QED
  BY <1>5, <1>6

LEMMA DepthType == \A svc : Depth(svc) \in Nat
<1>. SUFFICES ASSUME NEW svc \in Known PROVE Distance(Calls, svc) \in Nat
  BY DEF Depth, GraphDepth
<1>. DEFINE n == Cardinality(Known)
            reached == {k \in 0..n : svc \in Within(Calls, k)}
            R == {p \in reached \X reached : p[1] < p[2]}
<1>1. n \in Nat
  BY CorrelatorAssumption, FS_CardinalityType DEF CorrelatorAssumption
<1>2. Distance(Calls, svc) =
        IF reached = {} THEN 0 ELSE CHOOSE k \in reached : \A i \in reached : k <= i
  BY DEF Distance, Known
<1>3. CASE reached # {}
  <2>1. IsFiniteSet(reached) /\ reached \subseteq Nat
    <3>1. IsFiniteSet(0..n) /\ 0..n \subseteq Nat
      BY <1>1, FS_Interval
    <3>2. reached \subseteq 0..n
      OBVIOUS
    <3>. HIDE DEF reached
    <3>. QED
      BY <3>1, <3>2, FS_Subset
  <2>2. \A k, l \in reached : <<k, l>> \in R <=> k < l
    OBVIOUS
  <2>. HIDE DEF reached, R
  <2>3. StrictOrder(R, reached)
    BY <2>1, <2>2 DEF StrictOrder
  <2>4. \E k \in reached : \A i \in reached : k = i \/ <<k, i>> \in R
    BY <1>3, <2>1, <2>3, First
  <2>5. PICK k \in reached : \A i \in reached : k = i \/ <<k, i>> \in R
    BY <2>4
  <2>6. ASSUME NEW i \in reached PROVE k <= i
    <3>1. k \in Nat /\ i \in Nat
      BY <2>1
    <3>2. k = i \/ k < i
      BY <2>2, <2>5
    <3>. QED
      BY <3>1, <3>2
  <2>. QED
    BY <1>2, <1>3, <2>1, <2>6
<1>4. CASE reached = {}
  BY <1>2, <1>4
<1>. QED
  BY <1>3, <1>4

\* The ZScore that counts for a service is one of its alerts'.
LEMMA LastZScoreType ==
  ASSUME NEW g \in SUBSET AlertType, IsFiniteSet(g), \A a, b \in g : a.serial = b.serial => a = b,
         NEW svc \in Services(g)
  PROVE  LastZScore(g, svc) \in Nat
<1>. DEFINE ofService == {a \in g : a.service = svc}
            R == {p \in ofService \X ofService : p[2].serial < p[1].serial}
<1>1. ofService # {} /\ IsFiniteSet(ofService)
  BY FS_Subset DEF Services
<1>2. \A a \in ofService : a.serial \in Nat /\ a.zscore \in Nat
  BY CorrelatorAssumption DEF AlertType, CorrelatorAssumption
<1>3. \A a, b \in ofService : <<a, b>> \in R <=> b.serial < a.serial
  OBVIOUS
<1>4. \A a, b \in ofService : a.serial = b.serial => a = b
  OBVIOUS
<1>5. LastZScore(g, svc)
        = (CHOOSE x \in ofService : \A b \in ofService : b.serial <= x.serial).zscore
  BY DEF LastZScore
<1>. HIDE DEF ofService, R
<1>6. StrictOrder(R, ofService)
  BY <1>2, <1>3, <1>4 DEF StrictOrder
<1>7. PICK a \in ofService : \A b \in ofService : a = b \/ <<a, b>> \in R
  BY <1>1, <1>6, First
<1>8. ASSUME NEW b \in ofService PROVE b.serial <= a.serial
  <2>1. a.serial \in Nat /\ b.serial \in Nat
    BY <1>2
  <2>2. a = b \/ b.serial < a.serial
    BY <1>3, <1>7
  <2>. QED
    BY <2>1, <2>2
<1>9. (CHOOSE x \in ofService : \A b \in ofService : b.serial <= x.serial) \in ofService
  BY <1>8
<1>. QED
  BY <1>2, <1>5, <1>9

\* buildIncident finds a root, and the chain it sorts begins as deep as the root.
LEMMA RootAndChain ==
  ASSUME NEW g \in SUBSET AlertType, IsFiniteSet(g), \A a, b \in g : a.serial = b.serial => a = b,
         Services(g) # {}
  PROVE  /\ ToSet(DepChain(g)) = Services(g) /\ IsInjective(DepChain(g))
         /\ Depth(RootService(g)) = Depth(DepChain(g)[1])
         /\ \A i, j \in DOMAIN DepChain(g) :
              i < j => Depth(DepChain(g)[i]) >= Depth(DepChain(g)[j])
<1>. DEFINE all == Services(g)
            chain == DepChain(g)
            root == RootService(g)
            D == {p \in all \X all : Deeper(p[1], p[2])}
            L == {p \in all \X all : p[1] # p[2] /\ LikelierRoot(g, p[1], p[2])}
<1>1. IsFiniteSet(all) /\ all \subseteq Nat
  <2>. DEFINE f == [a \in g |-> a.service]
  <2>1. f \in Surjection(g, all)
    BY DEF Surjection, Services
  <2>2. IsFiniteSet(all)
    BY <2>1, FS_Surjection DEF ExistsSurjection
  <2>. QED
    BY <2>2, CorrelatorAssumption DEF Services, AlertType, CorrelatorAssumption
<1>2. \A a \in all : Depth(a) \in Nat /\ LastZScore(g, a) \in Nat
  BY DepthType, LastZScoreType
<1>3. /\ \A a, b \in all : <<a, b>> \in D <=> Deeper(a, b)
      /\ \A a, b \in all : <<a, b>> \in L <=> a # b /\ LikelierRoot(g, a, b)
  OBVIOUS
<1>. HIDE DEF all, chain, root, D, L
<1>4. StrictOrder(D, all)
  BY <1>1, <1>2, <1>3 DEF StrictOrder, Deeper
<1>5. StrictOrder(L, all)
  <2>. DEFINE d == [a \in all |-> Depth(a)]
              z == [a \in all |-> LastZScore(g, a)]
  <2>1. \A a \in all : d[a] \in Nat /\ z[a] \in Nat /\ a \in Nat
    BY <1>1, <1>2
  <2>2. \A a, b \in all : <<a, b>> \in L <=>
          a # b /\ (d[a] > d[b] \/ (d[a] = d[b] /\ (z[a] > z[b] \/ (z[a] = z[b] /\ a <= b))))
    BY <1>3 DEF LikelierRoot
  <2>. HIDE DEF d, z
  <2>. QED
    BY <2>1, <2>2 DEF StrictOrder
<1>6. \E list \in SetToSeqs(all) : \A i, j \in DOMAIN list : i < j => Deeper(list[i], list[j])
  <2>1. PICK list \in SetToSeqs(all) : \A i, j \in DOMAIN list : i < j => <<list[i], list[j]>> \in D
    BY <1>1, <1>4, Sorted
  <2>2. \A i \in DOMAIN list : list[i] \in all
    BY <1>1, <1>4, Sorted DEF ToSet
  <2>. QED
    BY <1>3, <2>1, <2>2
<1>7. chain \in SetToSeqs(all) /\ \A i, j \in DOMAIN chain : i < j => Deeper(chain[i], chain[j])
  BY <1>6 DEF chain, all, DepChain
<1>8. /\ DOMAIN chain = 1..Cardinality(all) /\ IsInjective(chain) /\ ToSet(chain) = all
      /\ Cardinality(all) \in Nat
  BY <1>1, <1>4, <1>7, Sorted
<1>9. \A i \in DOMAIN chain : chain[i] \in all
  BY <1>8 DEF ToSet
<1>10. \A i, j \in DOMAIN chain : i < j => Depth(chain[i]) >= Depth(chain[j])
  BY <1>2, <1>7, <1>9 DEF Deeper
<1>11. all # {}
  BY DEF all
<1>12. root \in all /\ \A b \in all : LikelierRoot(g, root, b)
  <2>1. IsFiniteSet(all)
    BY <1>1
  <2>2. PICK a \in all : \A b \in all : a = b \/ <<a, b>> \in L
    BY <1>5, <1>11, <2>1, First
  <2>3. LikelierRoot(g, a, a)
    BY <1>1, <1>2 DEF LikelierRoot
  <2>4. \A b \in all : LikelierRoot(g, a, b)
    BY <1>3, <2>2, <2>3
  <2>. QED
    BY <2>4 DEF root, all, RootService
<1>13. 1 \in DOMAIN chain
  BY <1>8, <1>11 DEF ToSet
<1>14. Depth(root) >= Depth(chain[1])
  <2>1. chain[1] \in all /\ LikelierRoot(g, root, chain[1])
    BY <1>9, <1>12, <1>13
  <2>. QED
    BY <1>2, <1>12, <2>1 DEF LikelierRoot
<1>15. Depth(chain[1]) >= Depth(root)
  <2>1. PICK i \in DOMAIN chain : root = chain[i]
    BY <1>8, <1>12 DEF ToSet
  <2>2. i = 1 \/ 1 < i
    BY <1>8
  <2>3. Depth(root) \in Nat
    BY <1>2, <1>12
  <2>. QED
    BY <1>10, <1>13, <2>1, <2>2, <2>3
<1>16. Depth(root) = Depth(chain[1])
  BY <1>2, <1>9, <1>12, <1>13, <1>14, <1>15
<1>. QED
  BY <1>8, <1>10, <1>16 DEF all, chain, root
-----------------------------------------------------------------------------
LEMMA InvStep == Inv /\ [Next]_vars => Inv'
<1>. SUFFICES ASSUME Inv, [Next]_vars PROVE Inv'
  OBVIOUS
<1>1. CASE TimerFires
  <2>1. deadline <= now
    BY <1>1 DEF TimerFires, Inv, StateType, TypeOK
  <2>. QED
    BY <1>1, <2>1, FlushKeeps DEF TimerFires, reader
<1>2. CASE FinalFlush
  BY <1>2, FlushKeeps DEF FinalFlush, reader
<1>3. CASE FlushReturns
  BY <1>3, FlushReturnsKeeps
<1>4. ASSUME NEW group \in pending, Emit(group) PROVE Inv'
  BY <1>4, EmitKeeps
<1>5. ASSUME NEW svc \in Service, NEW z \in ZScore[svc], NEW lag \in 0..MaxLag, Receive(svc, z, lag)
      PROVE  Inv'
  BY <1>5, ReceiveKeeps
<1>6. ASSUME UNCHANGED <<received, pc, buffer, pending, deadline, sent>>,
             now' \in 0..MaxTime /\ now <= now', inClosed' \in BOOLEAN /\ cancelled' \in BOOLEAN,
             ReaderOK'
      PROVE  Inv'
  <2>1. SentAlerts' = SentAlerts /\ Alerts' = Alerts /\ Flushed' = Flushed
    BY <1>6 DEF SentAlerts, Alerts, Flushed
  <2>2. StateType' /\ OnePlace' /\ GroupsInv' /\ NoAlertLost'
    BY <1>6, <2>1 DEF Inv, StateType, OnePlace, GroupsInv, SameGroup, NoAlertLost
  <2>3. now \in Nat /\ now' \in Nat /\ 0..now \subseteq 0..now'
    BY <1>6, CorrelatorAssumption DEF Inv, TypeOK, CorrelatorAssumption
  <2>4. WindowsInv'
    BY <1>6, <2>1, <2>3 DEF Inv, StateType, WindowsInv
  <2>5. \A a \in Alerts : a.timestamp \in 0..now'
    BY <2>3 DEF Inv, TypeOK
  <2>6. TypeOK'
    <3>1. inClosed' \in BOOLEAN /\ cancelled' \in BOOLEAN
      BY <1>6, Zenon
    <3>. QED
      BY <1>6, <2>1, <2>5, <3>1 DEF Inv, TypeOK
  <2>. QED
    BY <2>2, <2>4, <2>6 DEF Inv
<1>7. now \in 0..MaxTime /\ now <= now /\ inClosed \in BOOLEAN /\ cancelled \in BOOLEAN
      /\ (UNCHANGED <<cancelled, reading, room>> => ReaderOK')
  <2>1. now \in 0..MaxTime /\ now <= now
    BY CorrelatorAssumption DEF Inv, TypeOK, CorrelatorAssumption
  <2>2. inClosed \in BOOLEAN /\ cancelled \in BOOLEAN
    BY Zenon DEF Inv, TypeOK
  <2>. QED
    BY <2>1, <2>2, ReaderKept, Zenon
<1>8. CASE Tick
  <2>1. now' \in 0..MaxTime /\ now <= now'
    BY <1>7, <1>8, CorrelatorAssumption DEF Tick, CorrelatorAssumption
  <2>. QED
    BY <1>6, <1>7, <1>8, <2>1, Zenon DEF Tick, reader
<1>9. CASE CloseInput
  BY <1>6, <1>7, <1>9, Zenon DEF CloseInput, reader
<1>10. CASE Cancel
  <2>1. ReaderOK'
    BY <1>10 DEF Cancel, reader, Inv, TypeOK, ReaderOK
  <2>. QED
    BY <1>6, <1>7, <1>10, <2>1, Zenon DEF Cancel, reader
<1>11. CASE UNCHANGED vars
  BY <1>6, <1>7, <1>11, Zenon DEF vars, reader
<1>12. CASE ReaderReturns
  <2>1. ReaderOK'
    BY <1>12 DEF ReaderReturns, ReaderOK
  <2>. QED
    BY <1>6, <1>7, <1>12, <2>1, Zenon DEF ReaderReturns
<1>. QED
  BY <1>1, <1>2, <1>3, <1>4, <1>5, <1>8, <1>9, <1>10, <1>11, <1>12 DEF Next, Run

\* The invariant of the correlator's goroutine (correlator.go:44-69).
THEOREM Invariance == Spec => []Inv
BY InitInv, InvStep, PTL DEF Spec

\* The correlator's state has its type (correlator.go:44-69).
THEOREM TypeCorrect == Spec => []TypeOK
<1>1. Inv => TypeOK
  BY DEF Inv
<1>. QED
  BY <1>1, Invariance, PTL

\* Whatever the graph, the window and the order of events, every alert received
\* is in exactly one place, and at the end in one incident (correlator.go:52-105).
THEOREM AlertsKept == Spec => []NoAlertLost
<1>1. Inv => NoAlertLost
  BY DEF Inv
<1>. QED
  BY <1>1, Invariance, PTL

\* Whatever the graph, alerts share an incident exactly when one window and a
\* connection of their services join them (correlator.go:72-106).
THEOREM IncidentsAreComponents == Spec => []OneIncidentPerWindow
<1>1. Inv => OneIncidentPerWindow
  <2>. SUFFICES ASSUME Inv, NEW inc1 \in ToSet(sent), NEW inc2 \in ToSet(sent),
                       NEW a \in inc1.alerts, NEW b \in inc2.alerts, a # b
                PROVE  (inc1 = inc2) <=> /\ a.service \in Known /\ b.service \in Known
                                         /\ Connected(Calls, a.service, b.service)
                                         /\ a.window = b.window
    BY DEF OneIncidentPerWindow
  <2>1. inc1.alerts = inc2.alerts <=> (a.window = b.window /\ SameGroup(a, b))
    BY DEF Inv, GroupsInv, Flushed
  <2>2. inc1.alerts = inc2.alerts => inc1 = inc2
    <3>1. inc1 \in Incident /\ inc2 \in Incident
      BY LenProperties DEF Inv, StateType, ToSet
    <3>. QED
      BY <3>1, BuildsAlerts DEF Incident
  <2>3. SameGroup(a, b) <=> /\ a.service \in Known /\ b.service \in Known
                            /\ Connected(Calls, a.service, b.service)
    BY SameComponent DEF SameGroup
  <2>. QED
    BY <2>1, <2>2, <2>3
<1>. QED
  BY <1>1, Invariance, PTL

\* Whatever the graph and the alerts, the chain of an incident is its services,
\* deepest first, and begins as deep as its root (correlator.go:136-174).
THEOREM ChainsAreSorted == Spec => []ChainFromRoot
<1>1. Inv => ChainFromRoot
  <2>. SUFFICES ASSUME Inv, NEW inc \in ToSet(sent), inc.id # NoID
                PROVE  /\ ToSet(inc.chain) = Services(inc.alerts) /\ IsInjective(inc.chain)
                       /\ Depth(inc.root) = Depth(inc.chain[1])
                       /\ \A i, j \in DOMAIN inc.chain :
                            i < j => Depth(inc.chain[i]) >= Depth(inc.chain[j])
    BY DEF ChainFromRoot
  <2>1. PICK g \in SUBSET AlertType : IsFiniteSet(g) /\ inc = BuildIncident(g)
    BY LenProperties DEF Inv, StateType, ToSet, Incident
  <2>2. g \subseteq Alerts
    BY <2>1, BuildsAlerts DEF Alerts, SentAlerts
  <2>3. \A a, b \in g : a.serial = b.serial => a = b
    BY <2>2 DEF Inv, NoAlertLost
  <2>4. Services(g) \cap Known # {}
    BY <2>1 DEF BuildIncident
  <2>5. inc.alerts = g /\ inc.root = RootService(g) /\ inc.chain = DepChain(g)
    BY <2>1, <2>4 DEF BuildIncident
  <2>6. Services(g) # {}
    BY <2>4
  <2>. QED
    BY <2>1, <2>3, <2>5, <2>6, RootAndChain
<1>. QED
  BY <1>1, Invariance, PTL
=============================================================================
