--------------------------- MODULE PipelineProofs ---------------------------
(***************************************************************************)
(* Theorems about Pipeline for any services, lines, capacities and enabled *)
(* stages.                                                                 *)
(***************************************************************************)
EXTENDS Pipeline, FiniteSetTheorems, SequenceTheorems, TLAPS

(***************************************************************************)
(* The inductive invariant.                                                *)
(***************************************************************************)
Configured == DOMAIN scenario.lines \cup {All}

StateType ==
  /\ scenario \in Scenario
  /\ ch \in [Channel -> Seq(SUBSET AllLines)]
  /\ hold \in [Relay -> SUBSET AllLines]
  /\ gathered \in [Dam -> SUBSET AllLines]
  /\ pending \in [Dam -> SUBSET AllLines]
  /\ dropped \subseteq AllLines /\ delivered \subseteq AllLines
  /\ left \in [DOMAIN scenario.lines -> Nat]
  /\ \A svc \in DOMAIN scenario.lines : left[svc] <= scenario.lines[svc]

\* A goroutine that has returned holds nothing, nor does a flush that has, and
\* nothing runs or is sent for services that are not configured.
NothingLeftBehind ==
  /\ \A r \in Relay \ running : hold[r] = {}
  /\ \A d \in Dam : /\ d \in flushing \/ d \notin running => gathered[d] = {}
                    /\ d \notin flushing => pending[d] = {}
  /\ ending \subseteq Dam
  /\ \A s \in running : s[2] \in Configured
  /\ \A c \in Channel : c[2] \notin Configured => ch[c] = <<>>

\* Without a signal a goroutine returns when its input is closed and read to the
\* end, and a source at the end of its file.
Finished ==
  ~cancelled =>
    /\ \A s \in Stages \cup {Main} : s[2] \in Configured /\ s \notin running => Drained(In(s))
    /\ \A d \in ending : Drained(In(d))
    /\ \A svc \in DOMAIN scenario.lines : <<"source", svc>> \notin running => left[svc] = 0

\* A line is never in two places, nor in two items of one channel.
PlacesApart == \A p, q \in Place : p # q => At(p) \cap At(q) = {}

ItemsApart(items) == \A i, j \in DOMAIN items : i # j => items[i] \cap items[j] = {}

Somewhere == ~cancelled => \A line \in AllLines : \E p \in Place : line \in At(p)

Inv ==
  /\ TypeOK
  /\ StateType
  /\ NothingLeftBehind
  /\ Finished
  /\ PlacesApart
  /\ \A c \in Channel : ItemsApart(ch[c])
  /\ Somewhere
-----------------------------------------------------------------------------
(***************************************************************************)
(* The wiring.                                                             *)
(***************************************************************************)
LEMMA Names ==
  /\ \A s \in Stages : s = <<s[1], s[2]>>
  /\ \A s \in Stages : \/ s[1] \in PerService /\ s[2] \in Svc /\ s[2] # All
                       \/ s[1] \in Shared /\ s[2] = All
  /\ \A s \in Source : s = <<"source", s[2]>> /\ s[1] = "source" /\ s[2] \in Svc /\ s[2] # All
  /\ Main \notin Stages /\ Main \notin Source /\ Source \cap Stages = {}
  /\ Main[1] = "main" /\ Main[2] = All
  /\ Relay \cap Dam = {} /\ Relay \cup Dam = Stages
BY PipelineAssumption DEF PipelineAssumption, Stages, Source, Main, Relay, Dam, PerService,
   Shared, Only, Correlation

LEMMA Upstreams ==
  /\ Upstream["filter"] = "source"
  /\ Upstream["pattern"] = "filter"
  /\ Upstream["aggregator"] = IF PatternEnabled THEN "pattern" ELSE "filter"
  /\ Upstream["detector"] = "aggregator"
  /\ Upstream["merge"] = IF AnomalyEnabled THEN "detector" ELSE "aggregator"
  /\ Upstream["correlator"] = "merged" /\ Upstream["wrap"] = "merged"
  /\ Upstream["diagnoser"] = Correlation
  /\ Upstream["main"] = IF DiagnosisEnabled THEN "diagnoser" ELSE Correlation
BY DEF Upstream

\* Every stage reads a channel and writes another.
LEMMA Wiring ==
  /\ \A s \in Stages \cup {Main} : In(s) \in Channel /\ In(s)[2] = s[2]
  /\ \A s \in Source \cup Stages : Out(s) \in Channel
  /\ \A s \in Source \cup Dam : Out(s) = s
<1>1. \A svc \in Svc : <<"source", svc>> \in Channel
  BY DEF Channel, Source
<1>2. \A svc \in Svc, name \in PerService : name # "merge" => <<name, svc>> \in Channel
  BY DEF Channel, Stages
<1>3. \A name \in Shared : <<name, All>> \in Channel
  BY DEF Channel, Stages, Shared, Only, Correlation
<1>4. <<"merged", All>> \in Channel
  BY DEF Channel
<1>5. ASSUME NEW name \in PerService
      PROVE  Upstream[name] = "source" \/ (Upstream[name] \in PerService /\ Upstream[name] # "merge")
  BY Upstreams DEF PerService, Only
<1>6. ASSUME NEW name \in Shared \cup {"main"}
      PROVE  Upstream[name] = "merged" \/ Upstream[name] \in Shared
  BY Upstreams DEF Shared, Only, Correlation
<1>7. \A s \in Stages \cup {Main} : In(s) \in Channel
  BY <1>1, <1>2, <1>3, <1>4, <1>5, <1>6, Names DEF In
<1>8. \A s \in Stages \cup {Main} : In(s)[2] = s[2]
  BY DEF In
<1>9. \A s \in Source \cup Stages : Out(s) \in Channel
  BY <1>4 DEF Out, Channel
<1>10. \A s \in Source \cup Dam : Out(s) = s
  BY Names DEF Out, Dam
<1>. QED
  BY <1>7, <1>8, <1>9, <1>10

\* Every channel is read by a stage.
LEMMA Readers ==
  \A c \in Channel : \E s \in Stages \cup {Main} : In(s) = c
<1>. SUFFICES ASSUME NEW c \in Channel PROVE \E s \in Stages \cup {Main} : In(s) = c
  OBVIOUS
<1>1. \A svc \in Svc, name \in PerService : <<name, svc>> \in Stages
  BY DEF Stages
<1>2. \A name \in Shared : <<name, All>> \in Stages
  BY DEF Stages
<1>3. CASE c \in Source
  <2>1. c = <<"source", c[2]>> /\ c[2] \in Svc
    BY <1>3, Names
  <2>2. In(<<"filter", c[2]>>) = c
    BY <2>1, Upstreams DEF In
  <2>. QED
    BY <1>1, <2>1, <2>2 DEF PerService
<1>4. CASE c = <<"merged", All>>
  <2>1. In(<<Correlation, All>>) = c
    BY <1>4, Upstreams DEF In, Correlation
  <2>. QED
    BY <1>2, <2>1 DEF Shared
<1>5. CASE c \in Stages /\ c[1] # "merge" /\ c[2] \in Svc
  <2>1. c = <<c[1], c[2]>> /\ c[1] \in PerService
    BY <1>5, Names, PipelineAssumption DEF PipelineAssumption
  <2>2. PICK name \in PerService : Upstream[name] = c[1]
    <3>1. /\ {"filter", "aggregator", "merge"} \subseteq PerService
          /\ PatternEnabled => "pattern" \in PerService
          /\ AnomalyEnabled => "detector" \in PerService
      BY DEF PerService, Only
    <3>2. \/ c[1] = "filter"
          \/ c[1] = "aggregator"
          \/ c[1] = "pattern" /\ PatternEnabled
          \/ c[1] = "detector" /\ AnomalyEnabled
      BY <1>5, <2>1 DEF PerService, Only
    <3>3. CASE c[1] = "filter" /\ PatternEnabled
      BY <3>1, <3>3, Upstreams
    <3>4. CASE c[1] = "filter" /\ ~PatternEnabled
      BY <3>1, <3>4, Upstreams
    <3>5. CASE c[1] = "aggregator" /\ AnomalyEnabled
      BY <3>1, <3>5, Upstreams
    <3>6. CASE c[1] = "aggregator" /\ ~AnomalyEnabled
      BY <3>1, <3>6, Upstreams
    <3>7. CASE c[1] = "pattern" /\ PatternEnabled
      BY <3>1, <3>7, Upstreams
    <3>8. CASE c[1] = "detector" /\ AnomalyEnabled
      BY <3>1, <3>8, Upstreams
    <3>. QED
      BY <3>2, <3>3, <3>4, <3>5, <3>6, <3>7, <3>8
  <2>3. In(<<name, c[2]>>) = c
    BY <2>1, <2>2 DEF In
  <2>. QED
    BY <1>1, <1>5, <2>3
<1>6. CASE c \in Stages /\ c[2] = All
  <2>1. c = <<c[1], All>> /\ c[1] \in Shared
    BY <1>6, Names, PipelineAssumption DEF PipelineAssumption
  <2>2. CASE Upstream["main"] = c[1]
    <3>1. In(Main) = c
      BY <2>1, <2>2 DEF In, Main
    <3>. QED
      BY <3>1
  <2>3. CASE Upstream["main"] # c[1]
    <3>1. c[1] = Correlation /\ DiagnosisEnabled
      BY <2>1, <2>3, Upstreams DEF Shared, Only
    <3>2. In(<<"diagnoser", All>>) = c
      BY <2>1, <3>1, Upstreams DEF In
    <3>3. <<"diagnoser", All>> \in Stages
      BY <1>2, <3>1 DEF Shared, Only
    <3>. QED
      BY <3>2, <3>3
  <2>. QED
    BY <2>2, <2>3
<1>7. c \in Source \/ c = <<"merged", All>> \/ (c \in Stages /\ c[1] # "merge")
  BY DEF Channel
<1>8. \A s \in Stages : s[2] \in Svc \/ s[2] = All
  BY Names
<1>. QED
  BY <1>3, <1>4, <1>5, <1>6, <1>7, <1>8
-----------------------------------------------------------------------------
(***************************************************************************)
(* Places.                                                                 *)
(***************************************************************************)
InChannel(c) == <<"channel", c>>
InHand(r) == <<"hand", r>>
Gathered(d) == <<"gathered", d>>
Pending(d) == <<"pending", d>>
Unread == <<"unread", Main>>
Dropped == <<"dropped", Main>>
Delivered == <<"delivered", Main>>

LEMMA Places ==
  /\ \A c \in Channel : InChannel(c) \in Place
  /\ \A r \in Relay : InHand(r) \in Place
  /\ \A d \in Dam : Gathered(d) \in Place /\ Pending(d) \in Place
  /\ Unread \in Place /\ Dropped \in Place /\ Delivered \in Place
  /\ \A p \in Place : \/ \E c \in Channel : p = InChannel(c)
                      \/ \E r \in Relay : p = InHand(r)
                      \/ \E d \in Dam : p = Gathered(d) \/ p = Pending(d)
                      \/ p = Unread \/ p = Dropped \/ p = Delivered
BY DEF Place, InChannel, InHand, Gathered, Pending, Unread, Dropped, Delivered

LEMMA AtPlaces ==
  /\ \A c : At(InChannel(c)) = UNION ToSet(ch[c])
  /\ \A r : At(InHand(r)) = hold[r]
  /\ \A d : At(Gathered(d)) = gathered[d] /\ At(Pending(d)) = pending[d]
  /\ At(Unread) = LinesOf(left) /\ At(Dropped) = dropped /\ At(Delivered) = delivered
BY DEF At, InChannel, InHand, Gathered, Pending, Unread, Dropped, Delivered

LEMMA AtPlacesNext ==
  (/\ \A c : At(InChannel(c)) = UNION ToSet(ch[c])
   /\ \A r : At(InHand(r)) = hold[r]
   /\ \A d : At(Gathered(d)) = gathered[d] /\ At(Pending(d)) = pending[d]
   /\ At(Unread) = LinesOf(left) /\ At(Dropped) = dropped /\ At(Delivered) = delivered)'
BY AtPlaces, PTL

\* A place whose variable does not change in it holds the same lines.
LEMMA SamePlaces ==
  ASSUME NEW p \in Place,
         \A c \in Channel : p = InChannel(c) => ch'[c] = ch[c],
         \A r \in Relay : p = InHand(r) => hold'[r] = hold[r],
         \A d \in Dam : p = Gathered(d) => gathered'[d] = gathered[d],
         \A d \in Dam : p = Pending(d) => pending'[d] = pending[d],
         p = Unread => left' = left,
         p = Dropped => dropped' = dropped,
         p = Delivered => delivered' = delivered
  PROVE  At(p)' = At(p)
<1>1. ASSUME NEW c \in Channel, p = InChannel(c) PROVE At(p)' = At(p)
  <2>1. At(InChannel(c))' = UNION ToSet(ch'[c]) /\ ch'[c] = ch[c]
    BY <1>1, AtPlacesNext
  <2>. QED
    BY <1>1, <2>1, AtPlaces
<1>2. ASSUME NEW r \in Relay, p = InHand(r) PROVE At(p)' = At(p)
  BY <1>2, AtPlaces, AtPlacesNext
<1>3. ASSUME NEW d \in Dam, p = Gathered(d) PROVE At(p)' = At(p)
  BY <1>3, AtPlaces, AtPlacesNext
<1>4. ASSUME NEW d \in Dam, p = Pending(d) PROVE At(p)' = At(p)
  BY <1>4, AtPlaces, AtPlacesNext
<1>5. CASE p = Unread
  BY <1>5, AtPlaces, AtPlacesNext DEF LinesOf
<1>6. CASE p = Dropped
  BY <1>6, AtPlaces, AtPlacesNext
<1>7. CASE p = Delivered
  BY <1>7, AtPlaces, AtPlacesNext
<1>. QED
  BY <1>1, <1>2, <1>3, <1>4, <1>5, <1>6, <1>7, Places

LEMMA Distinct ==
  /\ \A c, d : InChannel(c) # InHand(d) /\ InChannel(c) # Gathered(d) /\ InChannel(c) # Pending(d)
               /\ InHand(c) # Gathered(d) /\ InHand(c) # Pending(d) /\ Gathered(c) # Pending(d)
  /\ \A c : /\ InChannel(c) \notin {Unread, Dropped, Delivered}
            /\ InHand(c) \notin {Unread, Dropped, Delivered}
            /\ Gathered(c) \notin {Unread, Dropped, Delivered}
            /\ Pending(c) \notin {Unread, Dropped, Delivered}
  /\ Unread # Dropped /\ Unread # Delivered /\ Dropped # Delivered
  /\ \A c, d : c # d => /\ InChannel(c) # InChannel(d) /\ InHand(c) # InHand(d)
                        /\ Gathered(c) # Gathered(d) /\ Pending(c) # Pending(d)
BY DEF InChannel, InHand, Gathered, Pending, Unread, Dropped, Delivered

\* A step that moves the lines X from p to q, and no others.
Moves(p, q, X) ==
  /\ p \in Place /\ q \in Place /\ p # q /\ X \subseteq At(p)
  /\ At(p)' = At(p) \ X /\ At(q)' = At(q) \cup X
  /\ \A o \in Place : o # p /\ o # q => At(o)' = At(o)

\* Lines that move from one place to another stay apart from all others.
LEMMA Moved ==
  ASSUME PlacesApart, Somewhere, NEW p, NEW q, NEW X, Moves(p, q, X),
         scenario' = scenario, ~cancelled' => ~cancelled
  PROVE  PlacesApart' /\ Somewhere'
<1>1. /\ p \in Place /\ q \in Place /\ p # q /\ X \subseteq At(p)
      /\ At(p)' = At(p) \ X /\ At(q)' = At(q) \cup X
      /\ \A o \in Place : o # p /\ o # q => At(o)' = At(o)
  BY DEF Moves
<1>2. \A a, b \in Place : a # b => At(a) \cap At(b) = {}
  BY DEF PlacesApart
<1>3. \A a \in Place : a # q => At(a)' \subseteq At(a)
  BY <1>1
<1>4. \A a \in Place : a # q => At(a)' \cap At(q)' = {}
  BY <1>1, <1>2
<1>5. \A a, b \in Place : a # b => At(a)' \cap At(b)' = {}
  BY <1>2, <1>3, <1>4
<1>6. ASSUME ~cancelled', NEW line \in AllLines PROVE \E o \in Place : line \in At(o)'
  <2>1. PICK o \in Place : line \in At(o)
    BY <1>6 DEF Somewhere
  <2>. QED
    BY <1>1, <2>1
<1>7. AllLines' = AllLines
  BY DEF AllLines
<1>. QED
  BY <1>5, <1>6, <1>7 DEF PlacesApart, Somewhere

\* Lines stay where they are, or are lost when a signal has come.
LEMMA Kept ==
  ASSUME PlacesApart, Somewhere, scenario' = scenario, \A o \in Place : At(o)' \subseteq At(o),
         ~cancelled' => ~cancelled /\ \A o \in Place : At(o)' = At(o)
  PROVE  PlacesApart' /\ Somewhere'
<1>1. AllLines' = AllLines
  BY DEF AllLines
<1>2. PlacesApart'
  BY DEF PlacesApart
<1>3. Somewhere'
  BY <1>1 DEF Somewhere
<1>. QED
  BY <1>2, <1>3

(***************************************************************************)
(* Channels.                                                               *)
(***************************************************************************)
LEMMA TailItems ==
  ASSUME NEW S, NEW s \in Seq(SUBSET S), s # <<>>, ItemsApart(s)
  PROVE  /\ Head(s) \in SUBSET S /\ Head(s) \subseteq UNION ToSet(s)
         /\ Tail(s) \in Seq(SUBSET S) /\ Len(Tail(s)) <= Len(s)
         /\ ItemsApart(Tail(s))
         /\ UNION ToSet(Tail(s)) = (UNION ToSet(s)) \ Head(s)
<1>. DEFINE t == Tail(s)
            n == Len(s) - 1
<1>1. /\ n \in Nat /\ Len(s) = n + 1 /\ DOMAIN s = 1..n + 1
      /\ Head(s) = s[1] /\ Head(s) \in SUBSET S
      /\ t \in Seq(SUBSET S) /\ Len(t) = n
      /\ \A i \in 1..n : t[i] = s[i + 1]
  BY HeadTailProperties, LenProperties
<1>2. DOMAIN t = 1..n
  BY <1>1, LenProperties
<1>. HIDE DEF t, n
<1>3. 1 \in 1..n + 1 /\ \A i \in 1..n : i + 1 \in 1..n + 1 /\ i + 1 # 1
  BY <1>1
<1>4. \A i \in 1..n + 1 : i # 1 => i - 1 \in 1..n /\ (i - 1) + 1 = i
  BY <1>1
<1>5. ItemsApart(t)
  <2>. SUFFICES ASSUME NEW i \in 1..n, NEW j \in 1..n, i # j PROVE t[i] \cap t[j] = {}
    BY <1>2 DEF ItemsApart
  <2>1. i + 1 # j + 1
    BY <1>1
  <2>. QED
    BY <1>1, <1>3, <2>1 DEF ItemsApart
<1>6. UNION ToSet(t) = (UNION ToSet(s)) \ Head(s)
  <2>1. ASSUME NEW x \in UNION ToSet(t) PROVE x \in (UNION ToSet(s)) \ Head(s)
    <3>1. PICK i \in 1..n : x \in t[i]
      BY <1>2 DEF ToSet
    <3>2. x \in s[i + 1] /\ x \notin s[1]
      BY <1>1, <1>3, <3>1 DEF ItemsApart
    <3>. QED
      BY <1>1, <1>3, <3>2 DEF ToSet
  <2>2. ASSUME NEW x \in (UNION ToSet(s)) \ Head(s) PROVE x \in UNION ToSet(t)
    <3>1. PICK i \in 1..n + 1 : x \in s[i]
      BY <1>1 DEF ToSet
    <3>2. i # 1
      BY <1>1, <3>1
    <3>3. x \in t[i - 1] /\ i - 1 \in 1..n
      <4>1. i - 1 \in 1..n /\ (i - 1) + 1 = i
        BY <1>4, <3>2
      <4>2. t[i - 1] = s[(i - 1) + 1]
        BY <1>1, <4>1
      <4>. QED
        BY <3>1, <4>1, <4>2
    <3>. QED
      BY <1>2, <3>3 DEF ToSet
  <2>. QED
    BY <2>1, <2>2
<1>7. Head(s) \subseteq UNION ToSet(s)
  BY <1>1, <1>3 DEF ToSet
<1>. QED
  BY <1>1, <1>5, <1>6, <1>7 DEF t

LEMMA AppendItems ==
  ASSUME NEW S, NEW s \in Seq(SUBSET S), ItemsApart(s), NEW X \in SUBSET S,
         X \cap UNION ToSet(s) = {}
  PROVE  /\ Append(s, X) \in Seq(SUBSET S) /\ Len(Append(s, X)) = Len(s) + 1
         /\ ItemsApart(Append(s, X))
         /\ UNION ToSet(Append(s, X)) = X \cup UNION ToSet(s)
<1>. DEFINE t == Append(s, X)
            n == Len(s)
<1>1. /\ n \in Nat /\ DOMAIN s = 1..n /\ t \in Seq(SUBSET S) /\ Len(t) = n + 1
      /\ \A i \in 1..n : t[i] = s[i]
      /\ t[n + 1] = X
  BY AppendProperties, LenProperties
<1>2. DOMAIN t = 1..n + 1
  BY <1>1, LenProperties
<1>. HIDE DEF t, n
<1>3. 1..n + 1 = 1..n \cup {n + 1}
  BY <1>1
<1>4. \A i \in 1..n : s[i] \subseteq UNION ToSet(s)
  BY <1>1 DEF ToSet
<1>5. ItemsApart(t)
  BY <1>1, <1>2, <1>3, <1>4 DEF ItemsApart
<1>6. UNION ToSet(t) = X \cup UNION ToSet(s)
  BY <1>1, <1>2, <1>3 DEF ToSet
<1>. QED
  BY <1>1, <1>5, <1>6 DEF t, n

LEMMA LinesLeft ==
  ASSUME StateType
  PROVE  LinesOf(left) \subseteq AllLines
<1>1. \A svc \in DOMAIN scenario.lines : scenario.lines[svc] \in Nat /\ left[svc] \in Nat
  BY PipelineAssumption DEF PipelineAssumption, StateType
<1>2. ASSUME NEW svc \in DOMAIN scenario.lines, NEW i \in 1..left[svc]
      PROVE  i \in 1..scenario.lines[svc]
  BY <1>1, <1>2 DEF StateType
<1>3. DOMAIN left = DOMAIN scenario.lines
  BY DEF StateType
<1>. QED
  BY <1>2, <1>3 DEF LinesOf, AllLines

LEMMA PlacesTyped ==
  StateType => \A p \in Place : At(p) \subseteq AllLines
<1>. SUFFICES ASSUME StateType, NEW p \in Place PROVE At(p) \subseteq AllLines
  OBVIOUS
<1>1. ASSUME NEW c \in Channel PROVE UNION ToSet(ch[c]) \subseteq AllLines
  <2>1. ch[c] \in Seq(SUBSET AllLines)
    BY DEF StateType
  <2>. QED
    BY <2>1, LenProperties DEF ToSet
<1>2. \A c \in Channel : At(InChannel(c)) \subseteq AllLines
  BY <1>1, AtPlaces
<1>3. \A r \in Relay : At(InHand(r)) \subseteq AllLines
  BY AtPlaces DEF StateType
<1>4. \A d \in Dam : At(Gathered(d)) \subseteq AllLines /\ At(Pending(d)) \subseteq AllLines
  BY AtPlaces DEF StateType
<1>5. At(Unread) \subseteq AllLines /\ At(Dropped) \subseteq AllLines /\ At(Delivered) \subseteq AllLines
  BY AtPlaces, LinesLeft DEF StateType
<1>. QED
  BY <1>2, <1>3, <1>4, <1>5, Places

LEMMA PlacesTypedNext ==
  (StateType => \A p \in Place : At(p) \subseteq AllLines)'
BY PlacesTyped, PTL

LEMMA Take ==
  ASSUME Inv, NEW c \in Channel, Ready(c), ch' = [ch EXCEPT ![c] = Tail(@)]
  PROVE  /\ Head(ch[c]) \in SUBSET AllLines /\ Head(ch[c]) \subseteq At(InChannel(c))
         /\ At(InChannel(c))' = At(InChannel(c)) \ Head(ch[c])
         /\ \A e \in Channel : e # c => ch'[e] = ch[e]
         /\ ch' \in [Channel -> Seq(SUBSET AllLines)]
         /\ \A e \in Channel : Len(ch'[e]) <= Cap(e) /\ ItemsApart(ch'[e])
         /\ \A e \in Channel : ch[e] = <<>> => ch'[e] = <<>>
<1>1. /\ ch \in [Channel -> Seq(SUBSET AllLines)] /\ ch[c] # <<>> /\ ItemsApart(ch[c])
      /\ \A e \in Channel : Len(ch[e]) <= Cap(e) /\ Cap(e) \in Nat /\ Len(ch[e]) \in Nat
  BY LenProperties, PipelineAssumption DEF Inv, StateType, TypeOK, Ready, Cap, PipelineAssumption
<1>2. /\ Head(ch[c]) \in SUBSET AllLines /\ Head(ch[c]) \subseteq UNION ToSet(ch[c])
      /\ Tail(ch[c]) \in Seq(SUBSET AllLines) /\ Len(Tail(ch[c])) <= Len(ch[c])
      /\ ItemsApart(Tail(ch[c]))
      /\ UNION ToSet(Tail(ch[c])) = (UNION ToSet(ch[c])) \ Head(ch[c])
      /\ Len(Tail(ch[c])) \in Nat
  <2>1. ch[c] \in Seq(SUBSET AllLines)
    BY <1>1
  <2>2. /\ Head(ch[c]) \in SUBSET AllLines /\ Head(ch[c]) \subseteq UNION ToSet(ch[c])
        /\ Tail(ch[c]) \in Seq(SUBSET AllLines) /\ Len(Tail(ch[c])) <= Len(ch[c])
        /\ ItemsApart(Tail(ch[c]))
        /\ UNION ToSet(Tail(ch[c])) = (UNION ToSet(ch[c])) \ Head(ch[c])
    BY <1>1, <2>1, TailItems
  <2>. QED
    BY <2>2, LenProperties
<1>3. ch'[c] = Tail(ch[c]) /\ \A e \in Channel : e # c => ch'[e] = ch[e]
  BY <1>1
<1>4. ch' \in [Channel -> Seq(SUBSET AllLines)]
  BY <1>1, <1>2
<1>5. At(InChannel(c))' = At(InChannel(c)) \ Head(ch[c])
  <2>1. At(InChannel(c))' = UNION ToSet(ch'[c])
    BY AtPlacesNext
  <2>. QED
    BY <1>2, <1>3, <2>1, AtPlaces
<1>6. ASSUME NEW e \in Channel PROVE Len(ch'[e]) <= Cap(e) /\ ItemsApart(ch'[e])
  <2>1. CASE e = c
    BY <1>1, <1>2, <1>3, <2>1
  <2>2. CASE e # c
    BY <1>1, <1>3, <2>2 DEF Inv
  <2>. QED
    BY <2>1, <2>2
<1>. QED
  BY <1>1, <1>2, <1>3, <1>4, <1>5, <1>6, AtPlaces

LEMMA Put ==
  ASSUME Inv, NEW c \in Channel, Room(c), NEW X \in SUBSET AllLines, X \cap At(InChannel(c)) = {},
         ch' = [ch EXCEPT ![c] = Append(@, X)]
  PROVE  /\ At(InChannel(c))' = At(InChannel(c)) \cup X
         /\ \A e \in Channel : e # c => ch'[e] = ch[e]
         /\ ch' \in [Channel -> Seq(SUBSET AllLines)]
         /\ \A e \in Channel : Len(ch'[e]) <= Cap(e) /\ ItemsApart(ch'[e])
<1>1. /\ ch \in [Channel -> Seq(SUBSET AllLines)] /\ ItemsApart(ch[c])
      /\ \A e \in Channel : Len(ch[e]) <= Cap(e) /\ Cap(e) \in Nat /\ Len(ch[e]) \in Nat
      /\ Len(ch[c]) < Cap(c)
  BY LenProperties, PipelineAssumption DEF Inv, StateType, TypeOK, Room, Cap, PipelineAssumption
<1>2. X \cap UNION ToSet(ch[c]) = {}
  BY AtPlaces
<1>3. /\ Append(ch[c], X) \in Seq(SUBSET AllLines) /\ Len(Append(ch[c], X)) = Len(ch[c]) + 1
      /\ ItemsApart(Append(ch[c], X))
      /\ UNION ToSet(Append(ch[c], X)) = X \cup UNION ToSet(ch[c])
  BY <1>1, <1>2, AppendItems
<1>4. ch'[c] = Append(ch[c], X) /\ \A e \in Channel : e # c => ch'[e] = ch[e]
  BY <1>1
<1>5. ch' \in [Channel -> Seq(SUBSET AllLines)]
  BY <1>1, <1>3
<1>6. At(InChannel(c))' = At(InChannel(c)) \cup X
  <2>1. At(InChannel(c))' = UNION ToSet(ch'[c])
    BY AtPlacesNext
  <2>. QED
    BY <1>3, <1>4, <2>1, AtPlaces
<1>7. ASSUME NEW e \in Channel PROVE Len(ch'[e]) <= Cap(e) /\ ItemsApart(ch'[e])
  <2>1. CASE e = c
    BY <1>1, <1>3, <1>4, <2>1
  <2>2. CASE e # c
    BY <1>1, <1>4, <2>2 DEF Inv
  <2>. QED
    BY <2>1, <2>2
<1>. QED
  BY <1>4, <1>5, <1>6, <1>7

\* A channel that is closed and read to the end stays so.
LEMMA FinishedKept ==
  ASSUME Inv, scenario' = scenario, ~cancelled' => ~cancelled, running' \subseteq running,
         ending' \subseteq Dam,
         \A c \in Channel : Closed(c) /\ ch[c] = <<>> => ch'[c] = <<>>,
         ~cancelled' => \A s \in (Stages \cup {Main}) \cap running : s \notin running' => Drained(In(s)),
         ~cancelled' => \A d \in ending' \ ending : Drained(In(d)),
         ~cancelled' => \A svc \in DOMAIN scenario.lines :
                          <<"source", svc>> \notin running' => left'[svc] = 0
  PROVE  Finished'
<1>. SUFFICES ASSUME ~cancelled' PROVE Finished'
  BY DEF Finished
<1>1. \A c \in Channel : Drained(c) => Drained(c)'
  BY DEF Drained, Closed
<1>2. Configured' = Configured
  BY DEF Configured
<1>3. ASSUME NEW s \in Stages \cup {Main}, s[2] \in Configured, s \notin running'
      PROVE  Drained(In(s))'
  <2>1. Drained(In(s))
    BY <1>3 DEF Inv, Finished
  <2>. QED
    BY <1>1, <2>1, Wiring
<1>4. ASSUME NEW d \in ending' PROVE Drained(In(d))'
  <2>1. Drained(In(d))
    BY <1>4 DEF Inv, Finished
  <2>2. d \in Stages
    BY <1>4 DEF Dam
  <2>. QED
    BY <1>1, <2>1, <2>2, Wiring
<1>. QED
  BY <1>2, <1>3, <1>4 DEF Finished
-----------------------------------------------------------------------------
(***************************************************************************)
(* Every step preserves the invariant.                                     *)
(***************************************************************************)
LEMMA Assembled ==
  ASSUME Inv, scenario' = scenario, StateType',
         \A c \in Channel : Len(ch'[c]) <= Cap(c) /\ ItemsApart(ch'[c]),
         running' \subseteq running, ending' \cap running' \subseteq flushing',
         flushing' \subseteq Dam \cap running',
         PlacesApart', Somewhere', NothingLeftBehind', Finished'
  PROVE  Inv'
<1>1. TypeOK'
  BY PlacesTypedNext DEF Inv, TypeOK
<1>2. (\A c \in Channel : ItemsApart(ch[c]))'
  BY DEF ItemsApart
<1>. QED
  BY <1>1, <1>2 DEF Inv

\* Nothing is sent on a channel that is closed, nor for what is not configured.
LEMMA Sender ==
  ASSUME Inv, NEW s \in (Source \cup Stages) \cap running
  PROVE  ~Closed(Out(s)) /\ Out(s) \in Channel /\ Out(s)[2] \in Configured
<1>1. s \in Writers(Out(s))
  BY DEF Writers
<1>2. s[2] \in Configured
  BY DEF Inv, NothingLeftBehind
<1>3. Out(s)[2] \in {s[2], All}
  BY DEF Out
<1>. QED
  BY <1>1, <1>2, <1>3, Wiring DEF Closed, Configured

LEMMA RelayTakesInv ==
  ASSUME Inv, NEW r \in Relay, RelayTakes(r)
  PROVE  Inv' /\ Moves(InChannel(In(r)), InHand(r), Head(ch[In(r)]))
<1>. DEFINE c == In(r)
            X == Head(ch[c])
<1>1. r \in Stages /\ c \in Channel
  BY Names, Wiring
<1>. HIDE DEF c
<1>2. /\ r \in running /\ hold[r] = {} /\ Ready(c)
      /\ hold' = [hold EXCEPT ![r] = X] /\ ch' = [ch EXCEPT ![c] = Tail(@)]
      /\ UNCHANGED <<scenario, running, left, dams, cancelled, dropped, delivered>>
  BY DEF RelayTakes, c
<1>3. UNCHANGED <<gathered, pending, flushing, ending>>
  BY <1>2 DEF dams
<1>4. /\ X \in SUBSET AllLines /\ X \subseteq At(InChannel(c))
      /\ At(InChannel(c))' = At(InChannel(c)) \ X
      /\ \A e \in Channel : e # c => ch'[e] = ch[e]
      /\ ch' \in [Channel -> Seq(SUBSET AllLines)]
      /\ \A e \in Channel : Len(ch'[e]) <= Cap(e) /\ ItemsApart(ch'[e])
      /\ \A e \in Channel : ch[e] = <<>> => ch'[e] = <<>>
  BY <1>1, <1>2, Take
<1>. HIDE DEF X
<1>5. hold \in [Relay -> SUBSET AllLines]
  BY DEF Inv, StateType
<1>6. At(InHand(r))' = At(InHand(r)) \cup X
  BY <1>2, <1>5, AtPlaces, AtPlacesNext
<1>7. ASSUME NEW o \in Place, o # InChannel(c), o # InHand(r) PROVE At(o)' = At(o)
  BY <1>2, <1>3, <1>4, <1>5, <1>7, SamePlaces
<1>8. Moves(InChannel(c), InHand(r), X) /\ PlacesApart' /\ Somewhere'
  <2>1. InChannel(c) \in Place /\ InHand(r) \in Place /\ InChannel(c) # InHand(r)
    BY <1>1, Places, Distinct
  <2>2. Moves(InChannel(c), InHand(r), X)
    BY <1>4, <1>6, <1>7, <2>1 DEF Moves
  <2>3. scenario' = scenario /\ (~cancelled' => ~cancelled) /\ PlacesApart /\ Somewhere
    BY <1>2 DEF Inv
  <2>. QED
    BY <2>2, <2>3, Moved
<1>9. AllLines' = AllLines /\ Configured' = Configured
  BY <1>2 DEF AllLines, Configured
<1>10. StateType'
  BY <1>2, <1>3, <1>4, <1>5, <1>9 DEF Inv, StateType
<1>11. NothingLeftBehind'
  <2>1. \A q \in Relay \ running' : hold'[q] = {}
    BY <1>2, <1>5 DEF Inv, NothingLeftBehind
  <2>. QED
    BY <1>2, <1>3, <1>4, <1>9, <2>1 DEF Inv, NothingLeftBehind
<1>12. Finished'
  <2>1. ending \subseteq Dam
    BY DEF Inv, NothingLeftBehind
  <2>2. ~cancelled' => \A svc \in DOMAIN scenario.lines :
                          <<"source", svc>> \notin running' => left'[svc] = 0
    BY <1>2 DEF Inv, Finished
  <2>. QED
    BY <1>2, <1>3, <1>4, <2>1, <2>2, FinishedKept
<1>13. Inv'
  BY <1>2, <1>3, <1>4, <1>8, <1>10, <1>11, <1>12, Assembled DEF Inv, TypeOK
<1>. QED
  BY <1>8, <1>13 DEF c, X

LEMMA RelayDropsInv ==
  ASSUME Inv, NEW r \in Relay, RelayDrops(r)
  PROVE  Inv' /\ Moves(InHand(r), Dropped, hold[r])
<1>. DEFINE X == hold[r]
<1>1. /\ r \in running /\ hold' = [hold EXCEPT ![r] = {}] /\ dropped' = dropped \cup X
      /\ UNCHANGED <<scenario, ch, running, left, dams, cancelled, delivered>>
  BY DEF RelayDrops
<1>2. UNCHANGED <<gathered, pending, flushing, ending>>
  BY <1>1 DEF dams
<1>3. hold \in [Relay -> SUBSET AllLines] /\ PlacesApart /\ Somewhere
  BY DEF Inv, StateType
<1>4. /\ At(InHand(r)) = X /\ At(InHand(r))' = At(InHand(r)) \ X
      /\ At(Dropped)' = At(Dropped) \cup X
  BY <1>1, <1>3, AtPlaces, AtPlacesNext
<1>5. ASSUME NEW o \in Place, o # InHand(r), o # Dropped PROVE At(o)' = At(o)
  BY <1>1, <1>2, <1>3, <1>5, SamePlaces
<1>6. Moves(InHand(r), Dropped, X) /\ PlacesApart' /\ Somewhere'
  <2>1. InHand(r) \in Place /\ Dropped \in Place /\ InHand(r) # Dropped
    BY Places, Distinct
  <2>2. Moves(InHand(r), Dropped, X)
    BY <1>4, <1>5, <2>1 DEF Moves
  <2>. HIDE DEF X
  <2>3. scenario' = scenario /\ (~cancelled' => ~cancelled) /\ PlacesApart /\ Somewhere
    BY <1>1 DEF Inv
  <2>. QED
    BY <2>2, <2>3, Moved
<1>7. AllLines' = AllLines /\ Configured' = Configured
  BY <1>1 DEF AllLines, Configured
<1>8. StateType'
  BY <1>1, <1>2, <1>3, <1>7 DEF Inv, StateType
<1>9. NothingLeftBehind'
  <2>1. \A q \in Relay \ running' : hold'[q] = {}
    BY <1>1, <1>3 DEF Inv, NothingLeftBehind
  <2>. QED
    BY <1>1, <1>2, <1>7, <2>1 DEF Inv, NothingLeftBehind
<1>10. Finished'
  <2>1. ending \subseteq Dam
    BY DEF Inv, NothingLeftBehind
  <2>2. ~cancelled' => \A svc \in DOMAIN scenario.lines :
                          <<"source", svc>> \notin running' => left'[svc] = 0
    BY <1>1 DEF Inv, Finished
  <2>. QED
    BY <1>1, <1>2, <2>1, <2>2, FinishedKept
<1>11. Inv'
  BY <1>1, <1>2, <1>6, <1>8, <1>9, <1>10, Assembled DEF Inv, TypeOK
<1>. QED
  BY <1>6, <1>11 DEF X

LEMMA RelaySendsInv ==
  ASSUME Inv, NEW r \in Relay, RelaySends(r)
  PROVE  Inv' /\ Moves(InHand(r), InChannel(Out(r)), hold[r])
<1>. DEFINE c == Out(r)
            X == hold[r]
<1>1. r \in Stages /\ r \in running /\ Room(c)
  BY Names DEF RelaySends
<1>2. ~Closed(c) /\ c \in Channel /\ c[2] \in Configured
  BY <1>1, Sender
<1>3. hold \in [Relay -> SUBSET AllLines] /\ PlacesApart /\ Somewhere
  BY DEF Inv, StateType
<1>4. /\ hold' = [hold EXCEPT ![r] = {}] /\ ch' = [ch EXCEPT ![c] = Append(@, X)]
      /\ UNCHANGED <<scenario, running, left, dams, cancelled, dropped, delivered>>
  BY DEF RelaySends
<1>. HIDE DEF c
<1>5. UNCHANGED <<gathered, pending, flushing, ending>>
  BY <1>4 DEF dams
<1>6. At(InHand(r)) = X /\ At(InHand(r))' = At(InHand(r)) \ X
  BY <1>3, <1>4, AtPlaces, AtPlacesNext
<1>7. InHand(r) \in Place /\ InChannel(c) \in Place /\ InHand(r) # InChannel(c)
  BY <1>2, Places, Distinct
<1>8. X \in SUBSET AllLines /\ X \cap At(InChannel(c)) = {}
  BY <1>3, <1>6, <1>7 DEF PlacesApart
<1>9. X \subseteq At(InHand(r))
  BY <1>6
<1>. HIDE DEF X
<1>10. /\ At(InChannel(c))' = At(InChannel(c)) \cup X
       /\ \A e \in Channel : e # c => ch'[e] = ch[e]
       /\ ch' \in [Channel -> Seq(SUBSET AllLines)]
       /\ \A e \in Channel : Len(ch'[e]) <= Cap(e) /\ ItemsApart(ch'[e])
  BY <1>1, <1>2, <1>4, <1>8, Put
<1>11. ASSUME NEW o \in Place, o # InHand(r), o # InChannel(c) PROVE At(o)' = At(o)
  BY <1>3, <1>4, <1>5, <1>10, <1>11, SamePlaces
<1>12. Moves(InHand(r), InChannel(c), X) /\ PlacesApart' /\ Somewhere'
  <2>1. Moves(InHand(r), InChannel(c), X)
    BY <1>6, <1>7, <1>9, <1>10, <1>11 DEF Moves
  <2>2. scenario' = scenario /\ (~cancelled' => ~cancelled) /\ PlacesApart /\ Somewhere
    BY <1>3, <1>4 DEF Inv
  <2>. QED
    BY <2>1, <2>2, Moved
<1>13. AllLines' = AllLines /\ Configured' = Configured
  BY <1>4 DEF AllLines, Configured
<1>14. StateType'
  BY <1>3, <1>4, <1>5, <1>10, <1>13 DEF Inv, StateType
<1>15. NothingLeftBehind'
  <2>1. \A q \in Relay \ running' : hold'[q] = {}
    BY <1>3, <1>4 DEF Inv, NothingLeftBehind
  <2>. QED
    BY <1>2, <1>4, <1>5, <1>10, <1>13, <2>1 DEF Inv, NothingLeftBehind
<1>16. Finished'
  <2>1. ending \subseteq Dam
    BY DEF Inv, NothingLeftBehind
  <2>2. ~cancelled' => \A svc \in DOMAIN scenario.lines :
                          <<"source", svc>> \notin running' => left'[svc] = 0
    BY <1>4 DEF Inv, Finished
  <2>3. \A e \in Channel : Closed(e) /\ ch[e] = <<>> => ch'[e] = <<>>
    BY <1>2, <1>10
  <2>. QED
    BY <1>4, <1>5, <2>1, <2>2, <2>3, FinishedKept
<1>17. Inv'
  BY <1>4, <1>5, <1>10, <1>12, <1>14, <1>15, <1>16, Assembled DEF Inv, TypeOK
<1>. QED
  BY <1>12, <1>17 DEF c, X

LEMMA RelayReturnsInv ==
  ASSUME Inv, NEW r \in Relay, RelayReturns(r)
  PROVE  Inv' /\ \A o \in Place : At(o)' \subseteq At(o)
<1>1. /\ r \in running /\ running' = running \ {r} /\ hold' = [hold EXCEPT ![r] = {}]
      /\ ~cancelled => hold[r] = {} /\ Drained(In(r))
      /\ UNCHANGED <<scenario, ch, left, dams, cancelled, dropped, delivered>>
  BY DEF RelayReturns
<1>2. UNCHANGED <<gathered, pending, flushing, ending>>
  BY <1>1 DEF dams
<1>3. hold \in [Relay -> SUBSET AllLines] /\ PlacesApart /\ Somewhere
  BY DEF Inv, StateType
<1>4. At(InHand(r))' = {} /\ (~cancelled => At(InHand(r)) = {})
  BY <1>1, <1>3, AtPlaces, AtPlacesNext
<1>5. ASSUME NEW o \in Place, o # InHand(r) PROVE At(o)' = At(o)
  BY <1>1, <1>2, <1>3, <1>5, SamePlaces
<1>6. PlacesApart' /\ Somewhere'
  <2>1. scenario' = scenario /\ cancelled' = cancelled
    BY <1>1
  <2>2. \A o \in Place : At(o)' \subseteq At(o)
    BY <1>4, <1>5
  <2>3. ~cancelled' => ~cancelled /\ \A o \in Place : At(o)' = At(o)
    BY <1>4, <1>5, <2>1
  <2>. QED
    BY <1>3, <2>1, <2>2, <2>3, Kept
<1>7. AllLines' = AllLines /\ Configured' = Configured
  BY <1>1 DEF AllLines, Configured
<1>8. StateType'
  BY <1>1, <1>2, <1>3, <1>7 DEF Inv, StateType
<1>9. r \notin Dam
  BY Names
<1>10. NothingLeftBehind'
  <2>1. \A q \in Relay \ running' : hold'[q] = {}
    BY <1>1, <1>3 DEF Inv, NothingLeftBehind
  <2>2. \A d \in Dam : d \in running <=> d \in running'
    BY <1>1, <1>9
  <2>. QED
    BY <1>1, <1>2, <1>7, <2>1, <2>2 DEF Inv, NothingLeftBehind
<1>11. Finished'
  <2>1. ending \subseteq Dam
    BY DEF Inv, NothingLeftBehind
  <2>2. ~cancelled' => \A svc \in DOMAIN scenario.lines :
                          <<"source", svc>> \notin running' => left'[svc] = 0
    <3>1. r \notin Source
      BY Names
    <3>2. \A svc \in DOMAIN scenario.lines : <<"source", svc>> \in Source
      BY PipelineAssumption DEF PipelineAssumption, Inv, StateType, Source
    <3>. QED
      BY <1>1, <3>1, <3>2 DEF Inv, Finished
  <2>3. ~cancelled' => \A s \in (Stages \cup {Main}) \cap running : s \notin running' => Drained(In(s))
    BY <1>1
  <2>. QED
    BY <1>1, <1>2, <2>1, <2>2, <2>3, FinishedKept
<1>12. running' \subseteq running /\ ending' \cap running' \subseteq flushing'
       /\ flushing' \subseteq Dam \cap running'
  BY <1>1, <1>2, <1>9 DEF Inv, TypeOK
<1>13. Inv'
  BY <1>1, <1>2, <1>6, <1>8, <1>10, <1>11, <1>12, Assembled DEF Inv, TypeOK
<1>. QED
  BY <1>4, <1>5, <1>13

LEMMA DamGathersInv ==
  ASSUME Inv, NEW d \in Dam, DamGathers(d)
  PROVE  Inv' /\ Moves(InChannel(In(d)), Gathered(d), Head(ch[In(d)]))
<1>. DEFINE c == In(d)
            X == Head(ch[c])
<1>1. d \in Stages /\ c \in Channel
  BY Names, Wiring
<1>. HIDE DEF c
<1>2. /\ d \in running /\ d \notin flushing /\ Ready(c)
      /\ gathered' = [gathered EXCEPT ![d] = @ \cup X] /\ ch' = [ch EXCEPT ![c] = Tail(@)]
      /\ UNCHANGED <<scenario, running, left, hold, pending, flushing, ending, cancelled,
                     dropped, delivered>>
  BY DEF DamGathers, Selecting, c
<1>3. /\ X \in SUBSET AllLines /\ X \subseteq At(InChannel(c))
      /\ At(InChannel(c))' = At(InChannel(c)) \ X
      /\ \A e \in Channel : e # c => ch'[e] = ch[e]
      /\ ch' \in [Channel -> Seq(SUBSET AllLines)]
      /\ \A e \in Channel : Len(ch'[e]) <= Cap(e) /\ ItemsApart(ch'[e])
      /\ \A e \in Channel : ch[e] = <<>> => ch'[e] = <<>>
  BY <1>1, <1>2, Take
<1>. HIDE DEF X
<1>4. gathered \in [Dam -> SUBSET AllLines] /\ PlacesApart /\ Somewhere
  BY DEF Inv, StateType
<1>5. At(Gathered(d))' = At(Gathered(d)) \cup X
  BY <1>2, <1>4, AtPlaces, AtPlacesNext
<1>6. ASSUME NEW o \in Place, o # InChannel(c), o # Gathered(d) PROVE At(o)' = At(o)
  BY <1>2, <1>3, <1>4, <1>6, SamePlaces
<1>7. Moves(InChannel(c), Gathered(d), X) /\ PlacesApart' /\ Somewhere'
  <2>1. InChannel(c) \in Place /\ Gathered(d) \in Place /\ InChannel(c) # Gathered(d)
    BY <1>1, Places, Distinct
  <2>2. Moves(InChannel(c), Gathered(d), X)
    BY <1>3, <1>5, <1>6, <2>1 DEF Moves
  <2>3. scenario' = scenario /\ (~cancelled' => ~cancelled) /\ PlacesApart /\ Somewhere
    BY <1>2 DEF Inv
  <2>. QED
    BY <2>2, <2>3, Moved
<1>8. AllLines' = AllLines /\ Configured' = Configured
  BY <1>2 DEF AllLines, Configured
<1>9. StateType'
  BY <1>2, <1>3, <1>4, <1>8 DEF Inv, StateType
<1>10. NothingLeftBehind'
  <2>1. \A b \in Dam : b \in flushing' \/ b \notin running' => gathered'[b] = {}
    BY <1>2, <1>4 DEF Inv, NothingLeftBehind
  <2>. QED
    BY <1>2, <1>3, <1>8, <2>1 DEF Inv, NothingLeftBehind
<1>11. Finished'
  <2>1. ending \subseteq Dam
    BY DEF Inv, NothingLeftBehind
  <2>2. ~cancelled' => \A svc \in DOMAIN scenario.lines :
                          <<"source", svc>> \notin running' => left'[svc] = 0
    BY <1>2 DEF Inv, Finished
  <2>. QED
    BY <1>2, <1>3, <2>1, <2>2, FinishedKept
<1>12. Inv'
  BY <1>2, <1>3, <1>7, <1>9, <1>10, <1>11, Assembled DEF Inv, TypeOK
<1>. QED
  BY <1>7, <1>12 DEF c, X

\* Both the timer and the end of the input start a flush.
LEMMA StartFlushInv ==
  ASSUME Inv, NEW d \in Dam, Selecting(d), StartFlush(d), ending \subseteq ending',
         ending' \subseteq ending \cup {d}, ~cancelled /\ d \in ending' => Drained(In(d))
  PROVE  Inv' /\ Moves(Gathered(d), Pending(d), gathered[d])
<1>. DEFINE X == gathered[d]
<1>1. /\ d \in running /\ d \notin flushing /\ flushing' = flushing \cup {d}
      /\ gathered' = [gathered EXCEPT ![d] = {}] /\ pending' = [pending EXCEPT ![d] = X]
      /\ UNCHANGED <<scenario, ch, running, left, hold, cancelled, dropped, delivered>>
  BY DEF Selecting, StartFlush
<1>2. /\ gathered \in [Dam -> SUBSET AllLines] /\ pending \in [Dam -> SUBSET AllLines]
      /\ pending[d] = {} /\ PlacesApart /\ Somewhere
  BY <1>1 DEF Inv, StateType, NothingLeftBehind
<1>3. At(Gathered(d)) = X /\ At(Gathered(d))' = At(Gathered(d)) \ X
  BY <1>1, <1>2, AtPlaces, AtPlacesNext
<1>4. At(Pending(d))' = At(Pending(d)) \cup X
  BY <1>1, <1>2, AtPlaces, AtPlacesNext
<1>5. ASSUME NEW o \in Place, o # Gathered(d), o # Pending(d) PROVE At(o)' = At(o)
  BY <1>1, <1>2, <1>5, SamePlaces
<1>6. Moves(Gathered(d), Pending(d), X) /\ PlacesApart' /\ Somewhere'
  <2>1. Gathered(d) \in Place /\ Pending(d) \in Place /\ Gathered(d) # Pending(d)
    BY Places, Distinct
  <2>2. Moves(Gathered(d), Pending(d), X)
    BY <1>3, <1>4, <1>5, <2>1 DEF Moves
  <2>. HIDE DEF X
  <2>3. scenario' = scenario /\ (~cancelled' => ~cancelled) /\ PlacesApart /\ Somewhere
    BY <1>1 DEF Inv
  <2>. QED
    BY <2>2, <2>3, Moved
<1>7. AllLines' = AllLines /\ Configured' = Configured
  BY <1>1 DEF AllLines, Configured
<1>8. StateType'
  BY <1>1, <1>2, <1>7 DEF Inv, StateType
<1>9. ending' \subseteq Dam
  BY DEF Inv, NothingLeftBehind
<1>10. NothingLeftBehind'
  <2>1. \A b \in Dam : /\ b \in flushing' \/ b \notin running' => gathered'[b] = {}
                       /\ b \notin flushing' => pending'[b] = {}
    BY <1>1, <1>2 DEF Inv, NothingLeftBehind
  <2>. QED
    BY <1>1, <1>7, <1>9, <2>1 DEF Inv, NothingLeftBehind
<1>11. Finished'
  <2>1. ~cancelled' => \A svc \in DOMAIN scenario.lines :
                          <<"source", svc>> \notin running' => left'[svc] = 0
    BY <1>1 DEF Inv, Finished
  <2>2. ~cancelled' => \A b \in ending' \ ending : Drained(In(b))
    BY <1>1
  <2>. QED
    BY <1>1, <1>9, <2>1, <2>2, FinishedKept
<1>12. ending' \cap running' \subseteq flushing' /\ flushing' \subseteq Dam \cap running'
  BY <1>1 DEF Inv, TypeOK
<1>13. Inv'
  BY <1>1, <1>6, <1>8, <1>10, <1>11, <1>12, Assembled DEF Inv, TypeOK
<1>. QED
  BY <1>6, <1>13 DEF X

LEMMA DamTimerInv ==
  ASSUME Inv, NEW d \in Dam, DamTimer(d)
  PROVE  Inv' /\ Moves(Gathered(d), Pending(d), gathered[d])
<1>1. Selecting(d) /\ StartFlush(d) /\ ending' = ending
  BY DEF DamTimer
<1>2. ~cancelled /\ d \in ending' => Drained(In(d))
  BY <1>1 DEF Inv, Finished
<1>. QED
  BY <1>1, <1>2, StartFlushInv

LEMMA DamEndsInv ==
  ASSUME Inv, NEW d \in Dam, DamEnds(d)
  PROVE  Inv' /\ Moves(Gathered(d), Pending(d), gathered[d])
<1>1. Selecting(d) /\ StartFlush(d) /\ ending' = ending \cup {d}
      /\ (~cancelled => Drained(In(d)))
  BY DEF DamEnds
<1>. QED
  BY <1>1, StartFlushInv

LEMMA DamEmitsInv ==
  ASSUME Inv, NEW d \in Dam, DamEmits(d)
  PROVE  Inv' /\ Moves(Pending(d), InChannel(d), pending[d])
<1>. DEFINE X == pending[d]
<1>1. /\ d \in flushing /\ (X # {} => Room(d))
      /\ ch' = IF X = {} THEN ch ELSE [ch EXCEPT ![d] = Append(@, X)]
      /\ pending' = [pending EXCEPT ![d] = {}] /\ flushing' = flushing \ {d}
      /\ running' = running \ (ending \cap {d})
      /\ UNCHANGED <<scenario, left, hold, gathered, ending, cancelled, dropped, delivered>>
  BY DEF DamEmits, FlushReturns
<1>2. /\ d \in running /\ d \in Stages /\ d \notin Relay /\ d # Main /\ Out(d) = d
      /\ gathered[d] = {}
  BY <1>1, Names, Wiring DEF Inv, TypeOK, NothingLeftBehind
<1>3. ~Closed(d) /\ d \in Channel /\ d[2] \in Configured
  BY <1>2, Sender
<1>4. /\ pending \in [Dam -> SUBSET AllLines] /\ ch \in [Channel -> Seq(SUBSET AllLines)]
      /\ PlacesApart /\ Somewhere
  BY DEF Inv, StateType
<1>5. At(Pending(d)) = X /\ At(Pending(d))' = At(Pending(d)) \ X
  BY <1>1, <1>4, AtPlaces, AtPlacesNext
<1>6. Pending(d) \in Place /\ InChannel(d) \in Place /\ Pending(d) # InChannel(d)
  BY <1>3, Places, Distinct
<1>7. X \in SUBSET AllLines /\ X \cap At(InChannel(d)) = {}
  BY <1>4, <1>5, <1>6 DEF PlacesApart
<1>8. X \subseteq At(Pending(d))
  BY <1>5
<1>. HIDE DEF X
<1>9. /\ At(InChannel(d))' = At(InChannel(d)) \cup X
      /\ \A e \in Channel : e # d => ch'[e] = ch[e]
      /\ ch' \in [Channel -> Seq(SUBSET AllLines)]
      /\ \A e \in Channel : Len(ch'[e]) <= Cap(e) /\ ItemsApart(ch'[e])
  <2>1. CASE X = {}
    <3>1. ch' = ch
      BY <1>1, <2>1
    <3>2. At(InChannel(d))' = At(InChannel(d))
      BY <3>1, AtPlaces, AtPlacesNext
    <3>. QED
      BY <1>4, <2>1, <3>1, <3>2 DEF Inv, TypeOK
  <2>2. CASE X # {}
    BY <1>1, <1>3, <1>7, <2>2, Put
  <2>. QED
    BY <2>1, <2>2
<1>10. ASSUME NEW o \in Place, o # Pending(d), o # InChannel(d) PROVE At(o)' = At(o)
  BY <1>1, <1>4, <1>9, <1>10, SamePlaces
<1>11. Moves(Pending(d), InChannel(d), X) /\ PlacesApart' /\ Somewhere'
  <2>1. Moves(Pending(d), InChannel(d), X)
    BY <1>5, <1>6, <1>8, <1>9, <1>10 DEF Moves
  <2>2. scenario' = scenario /\ (~cancelled' => ~cancelled) /\ PlacesApart /\ Somewhere
    BY <1>1 DEF Inv
  <2>. QED
    BY <2>1, <2>2, Moved
<1>12. AllLines' = AllLines /\ Configured' = Configured
  BY <1>1 DEF AllLines, Configured
<1>13. StateType'
  BY <1>1, <1>4, <1>9, <1>12 DEF Inv, StateType
<1>14. NothingLeftBehind'
  <2>1. \A b \in Dam : /\ b \in flushing' \/ b \notin running' => gathered'[b] = {}
                       /\ b \notin flushing' => pending'[b] = {}
    BY <1>1, <1>2, <1>4 DEF Inv, NothingLeftBehind
  <2>2. \A q \in Relay \ running' : hold'[q] = {}
    BY <1>1, <1>2 DEF Inv, NothingLeftBehind
  <2>. QED
    BY <1>1, <1>3, <1>9, <1>12, <2>1, <2>2 DEF Inv, NothingLeftBehind
<1>15. Finished'
  <2>1. ending' \subseteq Dam /\ ending' = ending
    BY <1>1 DEF Inv, NothingLeftBehind
  <2>2. ~cancelled' => \A svc \in DOMAIN scenario.lines :
                          <<"source", svc>> \notin running' => left'[svc] = 0
    <3>1. d \notin Source
      BY <1>2, Names
    <3>2. \A svc \in DOMAIN scenario.lines : <<"source", svc>> \in Source
      BY PipelineAssumption DEF PipelineAssumption, Inv, StateType, Source
    <3>. QED
      BY <1>1, <3>1, <3>2 DEF Inv, Finished
  <2>3. ~cancelled' => \A s \in (Stages \cup {Main}) \cap running : s \notin running' => Drained(In(s))
    BY <1>1 DEF Inv, Finished
  <2>4. \A e \in Channel : Closed(e) /\ ch[e] = <<>> => ch'[e] = <<>>
    BY <1>3, <1>9
  <2>. QED
    BY <1>1, <2>1, <2>2, <2>3, <2>4, FinishedKept
<1>16. running' \subseteq running /\ ending' \cap running' \subseteq flushing'
       /\ flushing' \subseteq Dam \cap running'
  BY <1>1 DEF Inv, TypeOK
<1>17. Inv'
  BY <1>1, <1>9, <1>11, <1>13, <1>14, <1>15, <1>16, Assembled
<1>. QED
  BY <1>11, <1>17 DEF X

LEMMA DamSkipsInv ==
  ASSUME Inv, NEW d \in Dam, DamSkips(d)
  PROVE  Inv' /\ Moves(Pending(d), Dropped, pending[d])
<1>. DEFINE X == pending[d]
<1>1. /\ d \in flushing /\ ch' = ch /\ dropped' = dropped \cup X
      /\ pending' = [pending EXCEPT ![d] = {}] /\ flushing' = flushing \ {d}
      /\ running' = running \ (ending \cap {d})
      /\ UNCHANGED <<scenario, left, hold, gathered, ending, cancelled, delivered>>
  BY DEF DamSkips, FlushReturns
<1>2. d \in running /\ d \in Stages /\ d \notin Relay /\ d # Main /\ gathered[d] = {}
  BY <1>1, Names DEF Inv, TypeOK, NothingLeftBehind
<1>3. pending \in [Dam -> SUBSET AllLines] /\ PlacesApart /\ Somewhere
  BY DEF Inv, StateType
<1>4. At(Pending(d)) = X /\ At(Pending(d))' = At(Pending(d)) \ X /\ At(Dropped)' = At(Dropped) \cup X
  BY <1>1, <1>3, AtPlaces, AtPlacesNext
<1>5. ASSUME NEW o \in Place, o # Pending(d), o # Dropped PROVE At(o)' = At(o)
  BY <1>1, <1>3, <1>5, SamePlaces
<1>6. Moves(Pending(d), Dropped, X) /\ PlacesApart' /\ Somewhere'
  <2>1. Pending(d) \in Place /\ Dropped \in Place /\ Pending(d) # Dropped
    BY Places, Distinct
  <2>2. Moves(Pending(d), Dropped, X)
    BY <1>4, <1>5, <2>1 DEF Moves
  <2>. HIDE DEF X
  <2>3. scenario' = scenario /\ (~cancelled' => ~cancelled) /\ PlacesApart /\ Somewhere
    BY <1>1, <1>3
  <2>. QED
    BY <2>2, <2>3, Moved
<1>7. AllLines' = AllLines /\ Configured' = Configured
  BY <1>1 DEF AllLines, Configured
<1>8. StateType'
  BY <1>1, <1>3, <1>7 DEF Inv, StateType
<1>9. NothingLeftBehind'
  <2>1. \A b \in Dam : /\ b \in flushing' \/ b \notin running' => gathered'[b] = {}
                       /\ b \notin flushing' => pending'[b] = {}
    BY <1>1, <1>2, <1>3 DEF Inv, NothingLeftBehind
  <2>2. \A q \in Relay \ running' : hold'[q] = {}
    BY <1>1, <1>2 DEF Inv, NothingLeftBehind
  <2>. QED
    BY <1>1, <1>7, <2>1, <2>2 DEF Inv, NothingLeftBehind
<1>10. Finished'
  <2>1. ending' \subseteq Dam /\ ending' = ending
    BY <1>1 DEF Inv, NothingLeftBehind
  <2>2. ~cancelled' => \A svc \in DOMAIN scenario.lines :
                          <<"source", svc>> \notin running' => left'[svc] = 0
    <3>1. d \notin Source
      BY <1>2, Names
    <3>2. \A svc \in DOMAIN scenario.lines : <<"source", svc>> \in Source
      BY PipelineAssumption DEF PipelineAssumption, Inv, StateType, Source
    <3>. QED
      BY <1>1, <3>1, <3>2 DEF Inv, Finished
  <2>3. ~cancelled' => \A s \in (Stages \cup {Main}) \cap running : s \notin running' => Drained(In(s))
    BY <1>1 DEF Inv, Finished
  <2>. QED
    BY <1>1, <2>1, <2>2, <2>3, FinishedKept
<1>11. running' \subseteq running /\ ending' \cap running' \subseteq flushing'
       /\ flushing' \subseteq Dam \cap running'
  BY <1>1 DEF Inv, TypeOK
<1>12. Inv'
  BY <1>1, <1>6, <1>8, <1>9, <1>10, <1>11, Assembled DEF Inv, TypeOK
<1>. QED
  BY <1>6, <1>12 DEF X

LEMMA MainTakesInv ==
  ASSUME Inv, MainTakes
  PROVE  Inv' /\ Moves(InChannel(In(Main)), Delivered, Head(ch[In(Main)]))
<1>. DEFINE c == In(Main)
            X == Head(ch[c])
<1>1. c \in Channel
  BY Wiring
<1>. HIDE DEF c
<1>2. /\ Ready(c) /\ delivered' = delivered \cup X /\ ch' = [ch EXCEPT ![c] = Tail(@)]
      /\ UNCHANGED <<scenario, running, left, hold, dams, cancelled, dropped>>
  BY DEF MainTakes, c
<1>3. UNCHANGED <<gathered, pending, flushing, ending>>
  BY <1>2 DEF dams
<1>4. /\ X \in SUBSET AllLines /\ X \subseteq At(InChannel(c))
      /\ At(InChannel(c))' = At(InChannel(c)) \ X
      /\ \A e \in Channel : e # c => ch'[e] = ch[e]
      /\ ch' \in [Channel -> Seq(SUBSET AllLines)]
      /\ \A e \in Channel : Len(ch'[e]) <= Cap(e) /\ ItemsApart(ch'[e])
      /\ \A e \in Channel : ch[e] = <<>> => ch'[e] = <<>>
  BY <1>1, <1>2, Take
<1>. HIDE DEF X
<1>5. At(Delivered)' = At(Delivered) \cup X
  BY <1>2, AtPlaces, AtPlacesNext
<1>6. ASSUME NEW o \in Place, o # InChannel(c), o # Delivered PROVE At(o)' = At(o)
  BY <1>2, <1>3, <1>4, <1>6, SamePlaces
<1>7. Moves(InChannel(c), Delivered, X) /\ PlacesApart' /\ Somewhere'
  <2>1. InChannel(c) \in Place /\ Delivered \in Place /\ InChannel(c) # Delivered
    BY <1>1, Places, Distinct
  <2>2. Moves(InChannel(c), Delivered, X)
    BY <1>4, <1>5, <1>6, <2>1 DEF Moves
  <2>3. scenario' = scenario /\ (~cancelled' => ~cancelled) /\ PlacesApart /\ Somewhere
    BY <1>2 DEF Inv
  <2>. QED
    BY <2>2, <2>3, Moved
<1>8. AllLines' = AllLines /\ Configured' = Configured
  BY <1>2 DEF AllLines, Configured
<1>9. StateType'
  BY <1>2, <1>3, <1>4, <1>8 DEF Inv, StateType
<1>10. NothingLeftBehind'
  BY <1>2, <1>3, <1>4, <1>8 DEF Inv, NothingLeftBehind
<1>11. Finished'
  <2>1. ending \subseteq Dam
    BY DEF Inv, NothingLeftBehind
  <2>2. ~cancelled' => \A svc \in DOMAIN scenario.lines :
                          <<"source", svc>> \notin running' => left'[svc] = 0
    BY <1>2 DEF Inv, Finished
  <2>. QED
    BY <1>2, <1>3, <1>4, <2>1, <2>2, FinishedKept
<1>12. Inv'
  BY <1>2, <1>3, <1>4, <1>7, <1>9, <1>10, <1>11, Assembled DEF Inv, TypeOK
<1>. QED
  BY <1>7, <1>12 DEF c, X

\* A source or the consumer returns, or the signal comes: every line stays.
LEMMA NothingMoves ==
  ASSUME Inv, UNCHANGED <<scenario, ch, left, hold, dams, dropped, delivered>>,
         running' \subseteq running, running \ running' \subseteq Source \cup {Main},
         ~cancelled' => ~cancelled,
         ~cancelled' /\ Main \in running /\ Main \notin running' => Drained(In(Main)),
         ~cancelled' => \A svc \in DOMAIN scenario.lines :
                          <<"source", svc>> \notin running' => left[svc] = 0
  PROVE  Inv'
<1>1. UNCHANGED <<scenario, ch, left, hold, gathered, pending, flushing, ending, dropped, delivered>>
  BY DEF dams
<1>2. AllLines' = AllLines /\ Configured' = Configured
  BY <1>1 DEF AllLines, Configured
<1>3. \A o \in Place : At(o)' = At(o)
  BY <1>1, SamePlaces
<1>4. PlacesApart' /\ Somewhere'
  <2>1. PlacesApart /\ Somewhere /\ scenario' = scenario
    BY <1>1 DEF Inv
  <2>. QED
    BY <1>3, <2>1, Kept
<1>5. StateType'
  BY <1>1, <1>2 DEF Inv, StateType
<1>6. \A s \in Stages : s \in running <=> s \in running'
  BY Names
<1>7. \A s \in Relay \cup Dam : s \in running <=> s \in running'
  BY <1>6, Names
<1>8. NothingLeftBehind'
  BY <1>1, <1>2, <1>7 DEF Inv, NothingLeftBehind
<1>9. Finished'
  <2>1. ending \subseteq Dam
    BY DEF Inv, NothingLeftBehind
  <2>2. ~cancelled' => \A s \in (Stages \cup {Main}) \cap running : s \notin running' => Drained(In(s))
    BY <1>6
  <2>. QED
    BY <1>1, <2>1, <2>2, FinishedKept
<1>10. ending' \cap running' \subseteq flushing' /\ flushing' \subseteq Dam \cap running'
  BY <1>1, <1>7 DEF Inv, TypeOK
<1>. QED
  BY <1>1, <1>4, <1>5, <1>8, <1>9, <1>10, Assembled DEF Inv, TypeOK

LEMMA SourceEndsInv ==
  ASSUME Inv, NEW svc \in Svc, SourceEnds(svc)
  PROVE  Inv'
<1>1. /\ running' = running \ {<<"source", svc>>}
      /\ ~cancelled => left[svc] = 0
      /\ UNCHANGED <<scenario, ch, left, hold, dams, cancelled, dropped, delivered>>
  BY DEF SourceEnds
<1>2. <<"source", svc>> \in Source
  BY DEF Source
<1>3. ~cancelled' => \A s \in DOMAIN scenario.lines : <<"source", s>> \notin running' => left[s] = 0
  BY <1>1 DEF Inv, Finished
<1>4. Main \in running => Main \in running'
  BY <1>1, <1>2, Names
<1>. QED
  BY <1>1, <1>2, <1>3, <1>4, NothingMoves

LEMMA MainReturnsInv ==
  ASSUME Inv, MainReturns
  PROVE  Inv'
<1>1. /\ running' = running \ {Main}
      /\ ~cancelled => Drained(In(Main))
      /\ UNCHANGED <<scenario, ch, left, hold, dams, cancelled, dropped, delivered>>
  BY DEF MainReturns
<1>2. \A svc \in DOMAIN scenario.lines : <<"source", svc>> # Main
  BY DEF Main
<1>3. ~cancelled' => \A s \in DOMAIN scenario.lines : <<"source", s>> \notin running' => left[s] = 0
  BY <1>1, <1>2 DEF Inv, Finished
<1>. QED
  BY <1>1, <1>3, NothingMoves

LEMMA CancelInv ==
  ASSUME Inv, Cancel
  PROVE  Inv'
BY NothingMoves DEF Cancel

LEMMA LinesOfCount ==
  \A count, line :
    line \in LinesOf(count) <=> \E s \in DOMAIN count : \E i \in 1..count[s] : line = <<s, i>>
BY DEF LinesOf

LEMMA NextLine ==
  ASSUME StateType, NEW svc \in DOMAIN scenario.lines, left[svc] > 0,
         left' = [left EXCEPT ![svc] = @ - 1]
  PROVE  /\ Line(svc) \in LinesOf(left)
         /\ LinesOf(left)' = LinesOf(left) \ {Line(svc)}
<1>1. left \in [DOMAIN scenario.lines -> Nat]
  BY DEF StateType
<1>2. left[svc] \in 1..left[svc]
  BY <1>1
<1>3. Line(svc) \in LinesOf(left)
  BY <1>1, <1>2, LinesOfCount DEF Line
<1>4. /\ DOMAIN left' = DOMAIN left
      /\ left'[svc] = left[svc] - 1
      /\ \A s \in DOMAIN left : s # svc => left'[s] = left[s]
  BY <1>1
<1>5. 1..left'[svc] = 1..left[svc] \ {left[svc]}
  BY <1>1, <1>4
<1>6. \A line : line \in LinesOf(left') <=> line \in LinesOf(left) /\ line # Line(svc)
  <2>. SUFFICES ASSUME NEW line
       PROVE  line \in LinesOf(left') <=> line \in LinesOf(left) /\ line # Line(svc)
    OBVIOUS
  <2>1. ASSUME NEW s \in DOMAIN left, NEW i, line = <<s, i>>
        PROVE  i \in 1..left'[s] <=> i \in 1..left[s] /\ line # Line(svc)
    BY <1>4, <1>5, <2>1 DEF Line
  <2>2. line \in LinesOf(left') <=> \E s \in DOMAIN left : \E i \in 1..left'[s] : line = <<s, i>>
    BY <1>4, LinesOfCount
  <2>3. line \in LinesOf(left) <=> \E s \in DOMAIN left : \E i \in 1..left[s] : line = <<s, i>>
    BY LinesOfCount
  <2>4. line \in LinesOf(left') => line \in LinesOf(left) /\ line # Line(svc)
    BY <2>1, <2>2, <2>3
  <2>5. line \in LinesOf(left) /\ line # Line(svc) => line \in LinesOf(left')
    BY <2>1, <2>2, <2>3
  <2>. QED
    BY <2>4, <2>5
<1>7. LinesOf(left)' = LinesOf(left')
  BY DEF LinesOf
<1>. QED
  BY <1>3, <1>6, <1>7

LEMMA SourceSendsInv ==
  ASSUME Inv, NEW svc \in Svc, SourceSends(svc)
  PROVE  Inv' /\ Moves(Unread, InChannel(<<"source", svc>>), {Line(svc)})
<1>. DEFINE c == <<"source", svc>>
            X == {Line(svc)}
<1>1. /\ c \in running /\ left[svc] > 0 /\ Room(c)
      /\ ch' = [ch EXCEPT ![c] = Append(@, X)]
      /\ left' = [left EXCEPT ![svc] = @ - 1]
      /\ running' = IF cancelled /\ svc \notin HeedsCtx THEN running \ {c} ELSE running
      /\ UNCHANGED <<scenario, hold, dams, cancelled, dropped, delivered>>
  BY DEF SourceSends
<1>2. c \in Source /\ c \notin Stages \cup {Main} /\ Out(c) = c /\ c[2] = svc
  BY Names, Wiring DEF Source
<1>3. ~Closed(c) /\ c \in Channel /\ svc \in Configured
  BY <1>1, <1>2, Sender
<1>4. svc \in DOMAIN scenario.lines
  BY <1>3, PipelineAssumption DEF Configured, PipelineAssumption
<1>5. StateType /\ PlacesApart /\ Somewhere /\ left \in [DOMAIN scenario.lines -> Nat]
  BY DEF Inv, StateType
<1>6. UNCHANGED <<gathered, pending, flushing, ending>>
  BY <1>1 DEF dams
<1>7. /\ X \subseteq At(Unread)
      /\ At(Unread)' = At(Unread) \ X
  BY <1>1, <1>4, <1>5, NextLine, AtPlaces, AtPlacesNext
<1>. HIDE DEF X
<1>8. Unread \in Place /\ InChannel(c) \in Place /\ Unread # InChannel(c)
  BY <1>3, Places, Distinct
<1>9. X \in SUBSET AllLines /\ X \cap At(InChannel(c)) = {}
  BY <1>5, <1>7, <1>8, PlacesTyped DEF PlacesApart
<1>. HIDE DEF c
<1>10. /\ At(InChannel(c))' = At(InChannel(c)) \cup X
       /\ \A e \in Channel : e # c => ch'[e] = ch[e]
       /\ ch' \in [Channel -> Seq(SUBSET AllLines)]
       /\ \A e \in Channel : Len(ch'[e]) <= Cap(e) /\ ItemsApart(ch'[e])
  BY <1>1, <1>3, <1>9, Put
<1>11. ASSUME NEW o \in Place, o # Unread, o # InChannel(c) PROVE At(o)' = At(o)
  BY <1>1, <1>6, <1>10, <1>11, SamePlaces
<1>12. Moves(Unread, InChannel(c), X) /\ PlacesApart' /\ Somewhere'
  <2>1. Moves(Unread, InChannel(c), X)
    BY <1>7, <1>8, <1>10, <1>11 DEF Moves
  <2>2. scenario' = scenario /\ (~cancelled' => ~cancelled) /\ PlacesApart /\ Somewhere
    BY <1>1 DEF Inv
  <2>. QED
    BY <2>1, <2>2, Moved
<1>13. AllLines' = AllLines /\ Configured' = Configured
  BY <1>1 DEF AllLines, Configured
<1>14. StateType'
  <2>1. left' \in [DOMAIN scenario.lines -> Nat]
    BY <1>1, <1>4, <1>5
  <2>2. \A s \in DOMAIN scenario.lines : left'[s] <= scenario.lines[s]
    <3>1. \A s \in DOMAIN scenario.lines : left[s] <= scenario.lines[s] /\ scenario.lines[s] \in Nat
      BY <1>5, PipelineAssumption DEF StateType, PipelineAssumption
    <3>. QED
      BY <1>1, <1>4, <1>5, <3>1
  <2>. QED
    BY <1>1, <1>6, <1>10, <1>13, <2>1, <2>2 DEF Inv, StateType
<1>15. \A s \in Stages \cup {Main} : s \in running <=> s \in running'
  BY <1>1, <1>2
<1>16. \A s \in Relay \cup Dam : s \in running <=> s \in running'
  BY <1>15, Names
<1>17. NothingLeftBehind'
  <2>1. c[2] \in Configured
    BY <1>2, <1>3
  <2>2. \A s \in running' : s \in running
    BY <1>1
  <2>. QED
    BY <1>1, <1>6, <1>10, <1>13, <1>16, <2>1, <2>2 DEF Inv, NothingLeftBehind
<1>18. Finished'
  <2>1. ending \subseteq Dam
    BY DEF Inv, NothingLeftBehind
  <2>2. ASSUME ~cancelled', NEW s \in DOMAIN scenario.lines, <<"source", s>> \notin running'
        PROVE  left'[s] = 0
    <3>1. ~cancelled /\ <<"source", s>> \notin running
      BY <1>1, <2>2
    <3>2. s # svc
      BY <1>1, <3>1 DEF c
    <3>3. left[s] = 0
      BY <3>1 DEF Inv, Finished
    <3>. QED
      BY <1>1, <1>5, <3>2, <3>3
  <2>3. \A e \in Channel : Closed(e) /\ ch[e] = <<>> => ch'[e] = <<>>
    BY <1>3, <1>10
  <2>4. running' \subseteq running
    BY <1>1
  <2>. QED
    BY <1>1, <1>6, <1>15, <2>1, <2>2, <2>3, <2>4, FinishedKept
<1>19. running' \subseteq running /\ ending' \cap running' \subseteq flushing'
       /\ flushing' \subseteq Dam \cap running'
  BY <1>1, <1>6, <1>16 DEF Inv, TypeOK
<1>20. Inv'
  BY <1>1, <1>6, <1>10, <1>12, <1>14, <1>17, <1>18, <1>19, Assembled
<1>. QED
  BY <1>12, <1>20 DEF c, X

LEMMA InitInv ==
  ASSUME Init
  PROVE  Inv
<1>1. /\ scenario \in Scenario /\ ch = [c \in Channel |-> <<>>]
      /\ running = {s \in Source \cup Stages : s[2] \in Configured} \cup {Main}
      /\ left = scenario.lines /\ hold = [r \in Relay |-> {}]
      /\ gathered = [d \in Dam |-> {}] /\ pending = [d \in Dam |-> {}]
      /\ flushing = {} /\ ending = {} /\ dropped = {} /\ delivered = {}
  BY DEF Init, Configured
<1>2. scenario.lines \in [DOMAIN scenario.lines -> Nat] /\ DOMAIN scenario.lines \subseteq Svc
  BY <1>1, PipelineAssumption DEF PipelineAssumption
<1>3. StateType
  <2>1. \A svc \in DOMAIN scenario.lines : left[svc] <= scenario.lines[svc]
    BY <1>1, <1>2
  <2>2. <<>> \in Seq(SUBSET AllLines)
    OBVIOUS
  <2>. QED
    BY <1>1, <1>2, <2>1, <2>2 DEF StateType
<1>4. ASSUME NEW p \in Place, p # Unread PROVE At(p) = {}
  <2>1. \A c \in Channel : At(InChannel(c)) = {}
    BY <1>1, AtPlaces DEF ToSet
  <2>. QED
    BY <1>1, <1>4, <2>1, AtPlaces, Places
<1>5. At(Unread) = AllLines
  BY <1>1, AtPlaces DEF AllLines
<1>6. PlacesApart /\ Somewhere
  BY <1>4, <1>5, Places DEF PlacesApart, Somewhere
<1>7. \A c \in Channel : ItemsApart(ch[c])
  BY <1>1 DEF ItemsApart
<1>8. TypeOK
  <2>1. \A c \in Channel : Len(ch[c]) <= Cap(c)
    BY <1>1, PipelineAssumption DEF Cap, PipelineAssumption
  <2>2. \A p \in Place : At(p) \subseteq AllLines
    BY <1>3, PlacesTyped
  <2>. QED
    BY <1>1, <2>1, <2>2 DEF TypeOK
<1>9. NothingLeftBehind
  <2>1. Main[2] \in Configured
    BY Names DEF Configured
  <2>. QED
    BY <1>1, <2>1 DEF NothingLeftBehind
<1>10. Finished
  <2>1. \A svc \in DOMAIN scenario.lines : <<"source", svc>> \in Source /\ svc \in Configured
    BY <1>2 DEF Source, Configured
  <2>2. \A svc \in DOMAIN scenario.lines : <<"source", svc>> \in running
    BY <1>1, <2>1
  <2>. QED
    BY <1>1, <2>2 DEF Finished
<1>. QED
  BY <1>3, <1>6, <1>7, <1>8, <1>9, <1>10 DEF Inv

LEMMA InvStep ==
  ASSUME Inv, [Next]_vars
  PROVE  Inv'
<1>1. ASSUME NEW svc \in Svc, SourceStep(svc) PROVE Inv'
  BY <1>1, SourceSendsInv, SourceEndsInv DEF SourceStep
<1>2. ASSUME NEW r \in Relay, RelayStep(r) PROVE Inv'
  BY <1>2, RelayTakesInv, RelayDropsInv, RelaySendsInv, RelayReturnsInv DEF RelayStep
<1>3. ASSUME NEW d \in Dam, DamStep(d) PROVE Inv'
  BY <1>3, DamGathersInv, DamTimerInv, DamEndsInv, DamEmitsInv, DamSkipsInv DEF DamStep
<1>4. CASE UNCHANGED vars
  <2>1. UNCHANGED <<scenario, ch, running, left, hold, dams, cancelled, dropped, delivered>>
    BY <1>4 DEF vars
  <2>2. ~cancelled' => \A svc \in DOMAIN scenario.lines :
                          <<"source", svc>> \notin running' => left[svc] = 0
    BY <2>1 DEF Inv, Finished
  <2>. QED
    BY <2>1, <2>2, NothingMoves
<1>. QED
  BY <1>1, <1>2, <1>3, <1>4, MainTakesInv, MainReturnsInv, CancelInv DEF Next

\* The inductive invariant of the wiring: where lines are, which goroutines run
\* and which channels are closed agree (cmd/agent/main.go, run).
THEOREM Invariance ==
  Spec => []Inv
<1>1. Init => Inv
  BY InitInv
<1>2. Inv /\ [Next]_vars => Inv'
  BY InvStep
<1>. QED
  BY <1>1, <1>2, PTL DEF Spec

\* Channels keep to their capacities, every place holds lines of the case, and
\* what flushes is a goroutine that runs.
THEOREM TypeCorrect ==
  Spec => []TypeOK
<1>1. Inv => TypeOK
  BY DEF Inv
<1>. QED
  BY <1>1, Invariance, PTL
-----------------------------------------------------------------------------
(***************************************************************************)
(* No line is lost or doubled.                                             *)
(***************************************************************************)
LEMMA LinesKeptState ==
  Inv => NoLineLost
<1>. SUFFICES ASSUME Inv, NEW line \in AllLines
     PROVE  LET places == {p \in Place : line \in At(p)} IN
              /\ ~cancelled => places # {}
              /\ \A p, q \in places : p = q
              /\ \A c \in Channel : \A i, j \in DOMAIN ch[c] : line \in ch[c][i] \cap ch[c][j] => i = j
  BY DEF NoLineLost
<1>1. ~cancelled => \E p \in Place : line \in At(p)
  BY DEF Inv, Somewhere
<1>2. \A p, q \in Place : line \in At(p) /\ line \in At(q) => p = q
  BY DEF Inv, PlacesApart
<1>3. \A c \in Channel : \A i, j \in DOMAIN ch[c] : line \in ch[c][i] \cap ch[c][j] => i = j
  BY DEF Inv, ItemsApart
<1>. QED
  BY <1>1, <1>2, <1>3

\* A line is never in two places, and without a signal always in one.
THEOREM LinesKept ==
  Spec => []NoLineLost
BY LinesKeptState, Invariance, PTL
-----------------------------------------------------------------------------
(***************************************************************************)
(* The agent that stops by itself has delivered everything.                *)
(***************************************************************************)
\* The writers of a channel whose reader has returned have returned.
LEMMA Behind ==
  ASSUME Inv, ~cancelled, NEW s \in Stages \cup {Main}, s[2] \in Configured, s \notin running,
         NEW w \in Source \cup Stages, Out(w) = In(s)
  PROVE  w \notin running
<1>1. Drained(In(s))
  BY DEF Inv, Finished
<1>. QED
  BY <1>1 DEF Drained, Closed, Writers

LEMMA AllReturned ==
  ASSUME Inv, ~cancelled, Main \notin running
  PROVE  running = {}
<1>1. /\ \A svc \in Svc, name \in PerService : <<name, svc>> \in Stages
      /\ \A name \in Shared : <<name, All>> \in Stages
      /\ \A svc \in Svc : <<"source", svc>> \in Source
  BY DEF Stages, Source
<1>2. {"filter", "aggregator", "merge"} \subseteq PerService /\ Correlation \in Shared
  BY DEF PerService, Shared
<1>3. All \in Configured /\ Main[2] = All
  BY Names DEF Configured
<1>4. \A name : Out(<<name, All>>) = IF name = "merge" THEN <<"merged", All>> ELSE <<name, All>>
  BY DEF Out
<1>5. Correlation # "merge" /\ "diagnoser" # "merge"
  BY DEF Correlation
<1>6. <<Correlation, All>> \notin running
  <2>1. CASE DiagnosisEnabled
    <3>1. "diagnoser" \in Shared
      BY <2>1 DEF Shared, Only
    <3>2. In(Main) = <<"diagnoser", All>> /\ In(<<"diagnoser", All>>) = <<Correlation, All>>
      BY <2>1, <1>3, Upstreams DEF In, Main
    <3>3. <<"diagnoser", All>> \notin running
      BY <1>1, <1>3, <1>4, <3>1, <3>2, Behind
    <3>. QED
      BY <1>1, <1>2, <1>3, <1>4, <1>5, <3>1, <3>2, <3>3, Behind
  <2>2. CASE ~DiagnosisEnabled
    <3>1. In(Main) = <<Correlation, All>>
      BY <2>2, <1>3, Upstreams DEF In, Main
    <3>. QED
      BY <1>1, <1>2, <1>3, <1>4, <1>5, <3>1, Behind
  <2>. QED
    BY <2>1, <2>2
<1>7. <<"diagnoser", All>> \in Stages => <<"diagnoser", All>> \notin running
  <2>. SUFFICES ASSUME <<"diagnoser", All>> \in Stages PROVE <<"diagnoser", All>> \notin running
    OBVIOUS
  <2>1. DiagnosisEnabled
    BY Names, PipelineAssumption DEF PipelineAssumption, Shared, Only, Correlation, PerService
  <2>2. In(Main) = <<"diagnoser", All>>
    BY <2>1, <1>3, Upstreams DEF In, Main
  <2>. QED
    BY <1>3, <1>4, <2>2, Behind
<1>8. ASSUME NEW svc \in DOMAIN scenario.lines
      PROVE  /\ <<"source", svc>> \notin running
             /\ \A name \in PerService : <<name, svc>> \notin running
  <2>1. svc \in Svc /\ svc \in Configured
    BY PipelineAssumption DEF PipelineAssumption, Inv, StateType, Configured
  <2>2. ASSUME NEW name \in PerService, <<name, svc>> \notin running,
               NEW up \in PerService \cup {"source"}, up # "merge", Upstream[name] = up
        PROVE  <<up, svc>> \notin running
    <3>1. In(<<name, svc>>) = <<up, svc>> /\ Out(<<up, svc>>) = <<up, svc>>
      BY <2>2 DEF In, Out
    <3>2. <<name, svc>> \in Stages /\ <<up, svc>> \in Source \cup Stages
      BY <1>1, <2>1
    <3>. QED
      BY <2>1, <2>2, <3>1, <3>2, Behind
  <2>3. <<"merge", svc>> \notin running
    <3>1. In(<<Correlation, All>>) = <<"merged", All>> /\ Out(<<"merge", svc>>) = <<"merged", All>>
      BY Upstreams DEF In, Out, Correlation
    <3>2. <<Correlation, All>> \in Stages /\ <<"merge", svc>> \in Stages
      BY <1>1, <1>2, <2>1
    <3>. QED
      BY <1>3, <1>6, <3>1, <3>2, Behind
  <2>4. /\ PatternEnabled => "pattern" \in PerService
        /\ AnomalyEnabled => "detector" \in PerService
    BY DEF PerService, Only
  <2>5. AnomalyEnabled => <<"detector", svc>> \notin running
    BY <1>2, <2>2, <2>3, <2>4, Upstreams
  <2>6. <<"aggregator", svc>> \notin running
    BY <1>2, <2>2, <2>3, <2>4, <2>5, Upstreams
  <2>7. PatternEnabled => <<"pattern", svc>> \notin running
    BY <1>2, <2>2, <2>4, <2>6, Upstreams
  <2>8. <<"filter", svc>> \notin running
    BY <1>2, <2>2, <2>4, <2>6, <2>7, Upstreams
  <2>9. <<"source", svc>> \notin running
    BY <1>2, <2>2, <2>8, Upstreams
  <2>. QED
    BY <2>3, <2>5, <2>6, <2>7, <2>8, <2>9 DEF PerService, Only
<1>9. ASSUME NEW s \in running PROVE FALSE
  <2>1. s[2] \in Configured /\ s \in Source \cup Stages \cup {Main}
    BY DEF Inv, NothingLeftBehind, TypeOK
  <2>2. CASE s \in Source
    BY <1>8, <2>1, <2>2, Names DEF Configured
  <2>3. CASE s \in Stages /\ s[1] \in PerService /\ s[2] # All
    <3>1. s = <<s[1], s[2]>> /\ s[2] \in DOMAIN scenario.lines
      BY <2>1, <2>3, Names DEF Configured
    <3>. QED
      BY <1>8, <2>1, <2>3, <3>1
  <2>4. CASE s \in Stages /\ s[1] \in Shared /\ s[2] = All
    <3>1. s = <<s[1], All>> /\ s[1] \in {Correlation, "diagnoser"}
      BY <2>4, Names DEF Shared, Only
    <3>. QED
      BY <1>6, <1>7, <2>4, <3>1
  <2>. QED
    BY <2>1, <2>2, <2>3, <2>4, Names
<1>. QED
  BY <1>9

LEMMA DeliveredState ==
  Inv => DeliveredAtEnd
<1>. SUFFICES ASSUME Inv, Main \notin running, ~cancelled
     PROVE  dropped \cup delivered = AllLines
  BY DEF DeliveredAtEnd
<1>1. running = {}
  BY AllReturned
<1>2. ASSUME NEW c \in Channel PROVE ch[c] = <<>>
  <2>1. PICK s \in Stages \cup {Main} : In(s) = c
    BY Readers
  <2>2. CASE c[2] \in Configured
    BY <1>1, <2>1, <2>2, Wiring DEF Inv, Finished, Drained
  <2>3. CASE c[2] \notin Configured
    BY <2>3 DEF Inv, NothingLeftBehind
  <2>. QED
    BY <2>2, <2>3
<1>3. LinesOf(left) = {}
  <2>1. \A svc \in DOMAIN left : left[svc] = 0
    BY <1>1 DEF Inv, Finished, StateType
  <2>. QED
    BY <2>1 DEF LinesOf
<1>4. ASSUME NEW p \in Place, p # Dropped, p # Delivered PROVE At(p) = {}
  <2>1. \A c \in Channel : At(InChannel(c)) = {}
    BY <1>2, AtPlaces DEF ToSet
  <2>2. \A r \in Relay : At(InHand(r)) = {}
    BY <1>1, AtPlaces DEF Inv, NothingLeftBehind
  <2>3. \A d \in Dam : At(Gathered(d)) = {} /\ At(Pending(d)) = {}
    BY <1>1, AtPlaces DEF Inv, NothingLeftBehind, TypeOK
  <2>. QED
    BY <1>3, <1>4, <2>1, <2>2, <2>3, AtPlaces, Places
<1>5. \A line \in AllLines : line \in dropped \cup delivered
  BY <1>4, AtPlaces DEF Inv, Somewhere
<1>. QED
  BY <1>5 DEF Inv, StateType

\* When the consumer has returned and no signal came, every line has been found
\* uninteresting or has reached the lifecycle manager.
THEOREM Delivery ==
  Spec => []DeliveredAtEnd
BY DeliveredState, Invariance, PTL
-----------------------------------------------------------------------------
(***************************************************************************)
(* The goroutines never all wait for one another.  The provers do not take *)
(* ENABLED; CanMove says in its place that the guard of some action other  *)
(* than RelayDrops and DamSkips holds.                                     *)
(***************************************************************************)
RelayCanMove(r) ==
  \/ hold[r] = {} /\ (Ready(In(r)) \/ Drained(In(r)))
  \/ hold[r] # {} /\ Room(Out(r))

DamCanMove(d) ==
  IF d \in flushing THEN pending[d] # {} => Room(d) ELSE Ready(In(d)) \/ Drained(In(d))

CanMove ==
  \/ \E svc \in Svc : /\ <<"source", svc>> \in running
                      /\ \/ left[svc] = 0 /\ svc \notin HeedsCtx
                         \/ left[svc] > 0 /\ Room(<<"source", svc>>)
  \/ \E r \in Relay \cap running : RelayCanMove(r)
  \/ \E d \in Dam \cap running : DamCanMove(d)
  \/ Main \in running /\ (Ready(In(Main)) \/ Drained(In(Main)))

\* A goroutine that cannot move although its output is empty waits for another.
LEMMA Waits ==
  ASSUME Inv, ~CanMove, NEW s \in (Stages \cup {Main}) \cap running,
         s \in Stages => ch[Out(s)] = <<>>
  PROVE  /\ ch[In(s)] = <<>>
         /\ \E w \in (Source \cup Stages) \cap running : Out(w) = In(s)
<1>1. \A c \in Channel : ch[c] = <<>> => Room(c)
  BY PipelineAssumption DEF PipelineAssumption, Room, Cap
<1>2. ~Ready(In(s)) /\ ~Drained(In(s))
  <2>1. CASE s = Main
    BY <2>1 DEF CanMove
  <2>2. CASE s \in Relay
    BY <1>1, <2>2, Names, Wiring DEF CanMove, RelayCanMove
  <2>3. CASE s \in Dam
    BY <1>1, <2>3, Names, Wiring DEF CanMove, DamCanMove
  <2>. QED
    BY <2>1, <2>2, <2>3, Names
<1>. QED
  BY <1>2 DEF Ready, Drained, Closed, Writers

LEMMA CanMoveState ==
  ASSUME Inv, running # {}, ~cancelled, DOMAIN scenario.lines \cap HeedsCtx = {}
  PROVE  CanMove
<1>. SUFFICES ASSUME ~CanMove PROVE FALSE
  OBVIOUS
<1>1. Main \in running
  BY AllReturned
<1>2. /\ \A s \in Stages : s = <<s[1], s[2]>> /\ Out(s)[2] \in {s[2], All}
      /\ \A s \in Stages : s[1] # "merge" => Out(s) = s
      /\ \A s \in Source : Out(s) = s /\ s = <<"source", s[2]>> /\ s[2] \in Svc
      /\ \A s \in Source \cup Stages : s[1] = "merge" => Out(s) = <<"merged", All>>
  BY Names, Wiring DEF Out
\* One of the writers of the channel that a stuck goroutine reads is stuck as well.
<1>3. ASSUME NEW s \in (Stages \cup {Main}) \cap running, s \in Stages => ch[Out(s)] = <<>>
      PROVE  \E w \in (Source \cup Stages) \cap running : Out(w) = In(s) /\ ch[Out(w)] = <<>>
  BY <1>3, Waits
<1>4. \E w \in Stages \cap running : w = <<Correlation, All>> /\ ch[Out(w)] = <<>>
  <2>1. PICK w \in (Source \cup Stages) \cap running : Out(w) = In(Main) /\ ch[Out(w)] = <<>>
    BY <1>1, <1>3, Names
  <2>2. In(Main) = <<IF DiagnosisEnabled THEN "diagnoser" ELSE Correlation, All>>
    BY Upstreams, Names DEF In
  <2>3. Correlation \notin {"merge", "merged", "source"}
    BY DEF Correlation
  <2>4. w \in Stages /\ w = In(Main)
    BY <1>2, <2>1, <2>2, <2>3
  <2>5. CASE ~DiagnosisEnabled
    BY <2>1, <2>2, <2>4, <2>5
  <2>6. CASE DiagnosisEnabled
    <3>1. PICK v \in (Source \cup Stages) \cap running : Out(v) = In(w) /\ ch[Out(v)] = <<>>
      BY <1>3, <2>1, <2>4
    <3>2. In(w) = <<Correlation, All>>
      BY <2>2, <2>4, <2>6, Upstreams DEF In
    <3>3. v \in Stages /\ v = In(w)
      BY <1>2, <2>3, <3>1, <3>2
    <3>. QED
      BY <3>1, <3>2, <3>3
  <2>. QED
    BY <2>5, <2>6
<1>5. PICK svc \in Svc : <<"merge", svc>> \in Stages \cap running /\ ch[<<"merged", All>>] = <<>>
  <2>1. PICK c \in Stages \cap running : c = <<Correlation, All>> /\ ch[Out(c)] = <<>>
    BY <1>4
  <2>2. PICK w \in (Source \cup Stages) \cap running : Out(w) = In(c) /\ ch[Out(w)] = <<>>
    BY <1>3, <2>1
  <2>3. In(c) = <<"merged", All>>
    BY <2>1, Upstreams DEF In, Correlation
  <2>4. w \in Stages /\ w[1] = "merge"
    BY <1>2, <2>2, <2>3, Names DEF PerService, Shared, Only, Correlation
  <2>5. w[2] \in Svc
    BY <2>4, Names DEF Shared, Only, Correlation
  <2>. QED
    BY <1>2, <2>2, <2>3, <2>4, <2>5
\* From here on the stuck goroutine is a stage of one service.
<1>6. ASSUME NEW name \in PerService, <<name, svc>> \in Stages \cap running,
             ch[Out(<<name, svc>>)] = <<>>, Upstream[name] # "merge", Upstream[name] # "merged"
      PROVE  /\ <<Upstream[name], svc>> \in (Source \cup Stages) \cap running
             /\ ch[<<Upstream[name], svc>>] = <<>>
             /\ Out(<<Upstream[name], svc>>) = <<Upstream[name], svc>>
  <2>1. PICK w \in (Source \cup Stages) \cap running :
          Out(w) = In(<<name, svc>>) /\ ch[Out(w)] = <<>>
    BY <1>3, <1>6
  <2>2. In(<<name, svc>>) = <<Upstream[name], svc>>
    BY DEF In
  <2>3. w[1] # "merge"
    BY <1>2, <1>6, <2>1, <2>2
  <2>. QED
    BY <1>2, <2>1, <2>2, <2>3
<1>7. /\ {"filter", "aggregator", "merge"} \subseteq PerService
      /\ PatternEnabled => "pattern" \in PerService
      /\ AnomalyEnabled => "detector" \in PerService
  BY DEF PerService, Only
<1>8. \A name \in PerService : <<name, svc>> \in Stages
  BY DEF Stages
<1>9. ch[Out(<<"merge", svc>>)] = <<>>
  BY <1>5 DEF Out
<1>10. <<"aggregator", svc>> \in running /\ ch[Out(<<"aggregator", svc>>)] = <<>>
  <2>1. CASE AnomalyEnabled
    <3>1. <<"detector", svc>> \in running /\ ch[Out(<<"detector", svc>>)] = <<>>
      BY <1>5, <1>6, <1>7, <1>9, <2>1, Upstreams
    <3>. QED
      BY <1>6, <1>7, <1>8, <2>1, <3>1, Upstreams
  <2>2. CASE ~AnomalyEnabled
    BY <1>5, <1>6, <1>7, <1>9, <2>2, Upstreams
  <2>. QED
    BY <2>1, <2>2
<1>11. <<"filter", svc>> \in running /\ ch[Out(<<"filter", svc>>)] = <<>>
  <2>1. CASE PatternEnabled
    <3>1. <<"pattern", svc>> \in running /\ ch[Out(<<"pattern", svc>>)] = <<>>
      BY <1>6, <1>7, <1>8, <1>10, <2>1, Upstreams
    <3>. QED
      BY <1>6, <1>7, <1>8, <2>1, <3>1, Upstreams
  <2>2. CASE ~PatternEnabled
    BY <1>6, <1>7, <1>8, <1>10, <2>2, Upstreams
  <2>. QED
    BY <2>1, <2>2
<1>12. <<"source", svc>> \in running /\ ch[<<"source", svc>>] = <<>>
  BY <1>6, <1>7, <1>8, <1>11, Upstreams
<1>13. Room(<<"source", svc>>)
  BY <1>12, PipelineAssumption DEF PipelineAssumption, Room, Cap
<1>14. svc \in DOMAIN scenario.lines
  <2>1. svc \in Configured
    BY <1>12 DEF Inv, NothingLeftBehind
  <2>. QED
    BY <2>1, PipelineAssumption DEF PipelineAssumption, Configured
<1>15. left[svc] \in Nat
  BY <1>14 DEF Inv, StateType
<1>. QED
  BY <1>12, <1>13, <1>14, <1>15 DEF CanMove

\* Without a signal, and with sources that end, some goroutine can take a step
\* until all have returned, whatever the capacities and however the stages stand.
THEOREM NoCircularWait ==
  Spec => [](running # {} /\ ~cancelled /\ DOMAIN scenario.lines \cap HeedsCtx = {} => CanMove)
BY CanMoveState, Invariance, PTL
-----------------------------------------------------------------------------
(***************************************************************************)
(* No step can be taken for ever.  Ahead is what the goroutines have yet   *)
(* to do: each line has a number of moves left, which depends on where it  *)
(* is, each goroutine has to return, each dam has one last window, and one *)
(* signal may come.                                                        *)
(***************************************************************************)
Level ==
  [main |-> 0, diagnoser |-> 1, correlator |-> 2, wrap |-> 2, merge |-> 3, merged |-> 3,
   detector |-> 4, aggregator |-> 5, pattern |-> 6, filter |-> 7, source |-> 8]

Rank(place) ==
  LET level == Level[place[2][1]] IN
  CASE place[1] = "channel" -> 4 * level
    [] place[1] = "hand" -> 4 * level + 1
    [] place[1] = "gathered" -> 4 * level + 2
    [] place[1] = "pending" -> 4 * level + 1
    [] place[1] = "unread" -> 36
    [] OTHER -> 0

LineMoves == {m \in AllLines \X (1..36) : \E p \in Place : m[1] \in At(p) /\ m[2] <= Rank(p)}

Ahead ==
  ({"line"} \X LineMoves) \cup ({"goroutine"} \X running) \cup ({"window"} \X (Dam \ ending))
    \cup Only(~cancelled, <<"signal", Main>>)

\* There is no empty item, and only the last flush of a dam may have nothing to send.
NothingEmpty ==
  /\ \A c \in Channel : \A i \in DOMAIN ch[c] : ch[c][i] # {}
  /\ \A d \in flushing : pending[d] = {} => d \in ending

LEMMA Ranks ==
  /\ \A r \in Relay : /\ Rank(InHand(r)) < Rank(InChannel(In(r)))
                      /\ Rank(InChannel(Out(r))) < Rank(InHand(r))
                      /\ Rank(Dropped) < Rank(InHand(r))
  /\ \A d \in Dam : /\ Rank(Gathered(d)) < Rank(InChannel(In(d)))
                    /\ Rank(Pending(d)) < Rank(Gathered(d))
                    /\ Rank(InChannel(d)) < Rank(Pending(d))
                    /\ Rank(Dropped) < Rank(Pending(d))
  /\ \A svc : Rank(InChannel(<<"source", svc>>)) < Rank(Unread)
  /\ Rank(Delivered) < Rank(InChannel(In(Main)))
  /\ \A p \in Place : Rank(p) \in 0..36
<1>1. /\ \A c : Rank(InChannel(c)) = 4 * Level[c[1]]
      /\ \A r : Rank(InHand(r)) = 4 * Level[r[1]] + 1
      /\ \A d : Rank(Gathered(d)) = 4 * Level[d[1]] + 2 /\ Rank(Pending(d)) = 4 * Level[d[1]] + 1
      /\ Rank(Unread) = 36 /\ Rank(Dropped) = 0 /\ Rank(Delivered) = 0
  BY DEF Rank, InChannel, InHand, Gathered, Pending, Unread, Dropped, Delivered
<1>2. /\ Level["main"] = 0 /\ Level["diagnoser"] = 1 /\ Level["correlator"] = 2
      /\ Level["wrap"] = 2 /\ Level["merge"] = 3 /\ Level["merged"] = 3 /\ Level["detector"] = 4
      /\ Level["aggregator"] = 5 /\ Level["pattern"] = 6 /\ Level["filter"] = 7
      /\ Level["source"] = 8
  BY DEF Level
<1>3. /\ \A s \in Stages \cup {Main} : In(s)[1] = Upstream[s[1]]
      /\ \A s \in Stages : Out(s)[1] = IF s[1] = "merge" THEN "merged" ELSE s[1]
  BY DEF In, Out
<1>4. /\ \A s \in Stages : s[1] \in {"filter", "aggregator", "merge", "pattern", "detector",
                                      "correlator", "wrap", "diagnoser"}
      /\ \A c \in Channel : c[1] \in {"source", "filter", "aggregator", "merge", "pattern",
                                       "detector", "correlator", "wrap", "diagnoser", "merged"}
      /\ \A d \in Dam : d[1] \in {"aggregator", "correlator"}
  BY Names DEF Channel, Dam, PerService, Shared, Only, Correlation
<1>5. \A s \in Stages : Level[Upstream[s[1]]] \in 0..8 /\ Level[s[1]] < Level[Upstream[s[1]]]
                         /\ Level[s[1]] \in 1..7
  BY <1>2, <1>4, Upstreams DEF Correlation
<1>6. \A s \in Stages : Level[Out(s)[1]] = Level[s[1]]
  BY <1>2, <1>3
<1>7. \A c \in Channel : Level[c[1]] \in 1..8
  BY <1>2, <1>4
<1>8. \A d \in Dam : d \in Stages
  BY Names
<1>9. \A r \in Relay : r \in Stages
  BY Names
<1>10. ASSUME NEW r \in Relay
       PROVE  /\ Rank(InHand(r)) < Rank(InChannel(In(r)))
              /\ Rank(InChannel(Out(r))) < Rank(InHand(r))
              /\ Rank(Dropped) < Rank(InHand(r)) /\ Rank(InHand(r)) \in 0..36
  <2>. DEFINE a == Level[r[1]]
              b == Level[Upstream[r[1]]]
  <2>1. a \in 1..7 /\ b \in 0..8 /\ a < b
    BY <1>5, <1>9
  <2>2. /\ Rank(InHand(r)) = 4 * a + 1 /\ Rank(InChannel(In(r))) = 4 * b
        /\ Rank(InChannel(Out(r))) = 4 * a /\ Rank(Dropped) = 0
    BY <1>1, <1>3, <1>6, <1>9
  <2>. HIDE DEF a, b
  <2>. QED
    BY <2>1, <2>2
<1>11. ASSUME NEW d \in Dam
       PROVE  /\ Rank(Gathered(d)) < Rank(InChannel(In(d)))
              /\ Rank(Pending(d)) < Rank(Gathered(d)) /\ Rank(InChannel(d)) < Rank(Pending(d))
              /\ Rank(Dropped) < Rank(Pending(d))
              /\ Rank(Gathered(d)) \in 0..36 /\ Rank(Pending(d)) \in 0..36
  <2>. DEFINE a == Level[d[1]]
              b == Level[Upstream[d[1]]]
  <2>1. a \in 1..7 /\ b \in 0..8 /\ a < b
    BY <1>5, <1>8
  <2>2. /\ Rank(Gathered(d)) = 4 * a + 2 /\ Rank(Pending(d)) = 4 * a + 1
        /\ Rank(InChannel(In(d))) = 4 * b /\ Rank(InChannel(d)) = 4 * a /\ Rank(Dropped) = 0
    BY <1>1, <1>3, <1>8
  <2>. HIDE DEF a, b
  <2>. QED
    BY <2>1, <2>2
<1>12. Rank(Delivered) < Rank(InChannel(In(Main)))
  BY <1>1, <1>7, Wiring
<1>13. ASSUME NEW p \in Place PROVE Rank(p) \in 0..36
  <2>1. \A c \in Channel : Rank(InChannel(c)) \in 0..36
    BY <1>1, <1>7
  <2>. QED
    BY <1>1, <1>10, <1>11, <2>1, Places
<1>14. \A svc : Rank(InChannel(<<"source", svc>>)) < Rank(Unread)
  BY <1>1, <1>2
<1>. QED
  BY <1>10, <1>11, <1>12, <1>13, <1>14

\* What is ahead becomes less if a part of it does and no other part grows.
LEMMA LessAhead ==
  ASSUME LineMoves' \subseteq LineMoves, running' \subseteq running, ending \subseteq ending',
         cancelled => cancelled',
         \/ LineMoves' # LineMoves \/ running' # running
         \/ \E d \in Dam : d \in ending' /\ d \notin ending
         \/ cancelled' /\ ~cancelled
  PROVE  Ahead' \subseteq Ahead /\ Ahead' # Ahead
<1>1. \A x : /\ <<"line", x>> \in Ahead <=> x \in LineMoves
             /\ <<"goroutine", x>> \in Ahead <=> x \in running
             /\ <<"window", x>> \in Ahead <=> x \in Dam /\ x \notin ending
             /\ <<"signal", x>> \in Ahead <=> ~cancelled /\ x = Main
  BY DEF Ahead, Only
<1>2. \A x : /\ <<"line", x>> \in Ahead' <=> x \in LineMoves'
             /\ <<"goroutine", x>> \in Ahead' <=> x \in running'
             /\ <<"window", x>> \in Ahead' <=> x \in Dam /\ x \notin ending'
             /\ <<"signal", x>> \in Ahead' <=> ~cancelled' /\ x = Main
  BY DEF Ahead, Only
<1>3. Ahead' \subseteq Ahead
  BY DEF Ahead, Only
<1>4. CASE LineMoves' # LineMoves
  <2>1. PICK x : x \in LineMoves /\ x \notin LineMoves'
    BY <1>4
  <2>. QED
    BY <1>1, <1>2, <1>3, <2>1
<1>5. CASE running' # running
  <2>1. PICK x : x \in running /\ x \notin running'
    BY <1>5
  <2>. QED
    BY <1>1, <1>2, <1>3, <2>1
<1>. QED
  BY <1>1, <1>2, <1>3, <1>4, <1>5

\* Lines that stay, or are lost, do not move again.
LEMMA LinesStay ==
  ASSUME scenario' = scenario, \A o \in Place : At(o)' \subseteq At(o)
  PROVE  LineMoves' \subseteq LineMoves
BY DEF LineMoves, AllLines

\* Lines that move to a place of lower rank have made a move.
LEMMA LinesMove ==
  ASSUME Inv, Inv', scenario' = scenario, NEW p, NEW q, NEW X, Moves(p, q, X), Rank(q) < Rank(p)
  PROVE  LineMoves' \subseteq LineMoves /\ (X # {} => LineMoves' # LineMoves)
<1>1. /\ p \in Place /\ q \in Place /\ p # q /\ X \subseteq At(p)
      /\ At(p)' = At(p) \ X /\ At(q)' = At(q) \cup X
      /\ \A o \in Place : o # p /\ o # q => At(o)' = At(o)
  BY DEF Moves
<1>2. Rank(p) \in 0..36 /\ Rank(q) \in 0..36 /\ Rank(p) \in 1..36 /\ ~(Rank(p) <= Rank(q))
  BY <1>1, Ranks
<1>3. AllLines' = AllLines
  BY DEF AllLines
<1>4. ASSUME NEW line \in AllLines, NEW k \in 1..36, NEW o \in Place,
             line \in At(o)', k <= Rank(o)
      PROVE  \E e \in Place : line \in At(e) /\ k <= Rank(e)
  <2>1. CASE line \in At(o)
    BY <1>4, <2>1
  <2>2. CASE line \notin At(o)
    <3>1. o = q /\ line \in At(p)
      BY <1>1, <1>4, <2>2
    <3>2. k <= Rank(p)
      BY <1>2, <1>4, <3>1
    <3>. QED
      BY <1>1, <3>1, <3>2
  <2>. QED
    BY <2>1, <2>2
<1>5. LineMoves' \subseteq LineMoves
  BY <1>3, <1>4 DEF LineMoves
<1>6. ASSUME X # {} PROVE LineMoves' # LineMoves
  <2>1. PICK line : line \in X
    BY <1>6
  <2>2. line \in At(p) /\ line \in At(q)' /\ line \in AllLines
    BY <1>1, <2>1 DEF Inv, TypeOK
  <2>3. <<line, Rank(p)>> \in LineMoves
    BY <1>1, <1>2, <2>2 DEF LineMoves
  <2>4. \A o \in Place : line \in At(o)' => o = q
    BY <1>1, <2>2 DEF Inv, PlacesApart
  <2>5. <<line, Rank(p)>> \notin LineMoves'
    BY <1>2, <2>4 DEF LineMoves
  <2>. QED
    BY <2>3, <2>5
<1>. QED
  BY <1>5, <1>6

\* The items of a channel stay non-empty when one is taken, or a non-empty one put.
LEMMA FullItems ==
  ASSUME Inv, NothingEmpty, NEW c \in Channel
  PROVE  /\ ch[c] # <<>> =>
              Head(ch[c]) # {} /\ \A i \in DOMAIN Tail(ch[c]) : Tail(ch[c])[i] # {}
         /\ \A X : X # {} => \A i \in DOMAIN Append(ch[c], X) : Append(ch[c], X)[i] # {}
<1>. DEFINE s == ch[c]
<1>1. s \in Seq(SUBSET AllLines) /\ \A i \in DOMAIN s : s[i] # {}
  BY DEF Inv, StateType, NothingEmpty
<1>. HIDE DEF s
<1>2. Len(s) \in Nat /\ DOMAIN s = 1..Len(s)
  BY <1>1, LenProperties
<1>3. ASSUME s # <<>> PROVE Head(s) # {} /\ \A i \in DOMAIN Tail(s) : Tail(s)[i] # {}
  <2>1. /\ Head(s) = s[1] /\ Len(s) \in Nat \ {0} /\ Len(Tail(s)) = Len(s) - 1
        /\ Tail(s) \in Seq(SUBSET AllLines)
        /\ \A i \in 1..Len(s) - 1 : Tail(s)[i] = s[i + 1]
    BY <1>1, <1>2, <1>3, HeadTailProperties
  <2>2. DOMAIN Tail(s) = 1..Len(s) - 1
    BY <2>1, LenProperties
  <2>3. 1 \in 1..Len(s) /\ \A i \in 1..Len(s) - 1 : i + 1 \in 1..Len(s)
    BY <2>1
  <2>. QED
    BY <1>1, <1>2, <2>1, <2>2, <2>3
<1>4. ASSUME NEW X, X # {} PROVE \A i \in DOMAIN Append(s, X) : Append(s, X)[i] # {}
  <2>1. DOMAIN Append(s, X) = 1..Len(s) + 1
    BY <1>1, <1>2
  <2>2. \A i \in 1..Len(s) + 1 : Append(s, X)[i] = IF i = Len(s) + 1 THEN X ELSE s[i]
    BY <1>1, <1>2
  <2>3. \A i \in 1..Len(s) + 1 : i # Len(s) + 1 => i \in 1..Len(s)
    BY <1>2
  <2>. QED
    BY <1>1, <1>2, <1>4, <2>1, <2>2, <2>3
<1>. QED
  BY <1>3, <1>4 DEF s

\* A step that does some of the work.
Progress == NothingEmpty' /\ Ahead' \subseteq Ahead /\ Ahead' # Ahead

LEMMA RelayProgress ==
  ASSUME Inv, NothingEmpty, NEW r \in Relay, RelayStep(r)
  PROVE  Progress
<1>1. r \in Stages /\ In(r) \in Channel /\ Out(r) \in Channel
  BY Names, Wiring
<1>2. ch \in [Channel -> Seq(SUBSET AllLines)]
  BY DEF Inv, StateType
<1>3. CASE RelayTakes(r)
  <2>1. /\ ch[In(r)] # <<>> /\ ch' = [ch EXCEPT ![In(r)] = Tail(@)]
        /\ UNCHANGED <<scenario, running, dams, cancelled>>
    BY <1>3 DEF RelayTakes, Ready
  <2>2. UNCHANGED <<pending, flushing, ending>>
    BY <2>1 DEF dams
  <2>3. Head(ch[In(r)]) # {} /\ NothingEmpty'
    BY <1>1, <1>2, <2>1, <2>2, FullItems DEF NothingEmpty
  <2>4. LineMoves' \subseteq LineMoves /\ LineMoves' # LineMoves
    BY <1>3, <2>1, <2>3, RelayTakesInv, LinesMove, Ranks
  <2>. QED
    BY <2>1, <2>2, <2>3, <2>4, LessAhead DEF Progress
<1>4. CASE RelayDrops(r)
  <2>1. hold[r] # {} /\ UNCHANGED <<scenario, ch, running, dams, cancelled>>
    BY <1>4 DEF RelayDrops
  <2>2. UNCHANGED <<pending, flushing, ending>>
    BY <2>1 DEF dams
  <2>3. NothingEmpty'
    BY <2>1, <2>2 DEF NothingEmpty
  <2>4. LineMoves' \subseteq LineMoves /\ LineMoves' # LineMoves
    BY <1>4, <2>1, RelayDropsInv, LinesMove, Ranks
  <2>. QED
    BY <2>1, <2>2, <2>3, <2>4, LessAhead DEF Progress
<1>5. CASE RelaySends(r)
  <2>1. /\ hold[r] # {} /\ ch' = [ch EXCEPT ![Out(r)] = Append(@, hold[r])]
        /\ UNCHANGED <<scenario, running, dams, cancelled>>
    BY <1>5 DEF RelaySends
  <2>2. UNCHANGED <<pending, flushing, ending>>
    BY <2>1 DEF dams
  <2>3. NothingEmpty'
    BY <1>1, <1>2, <2>1, <2>2, FullItems DEF NothingEmpty
  <2>4. LineMoves' \subseteq LineMoves /\ LineMoves' # LineMoves
    BY <1>5, <2>1, RelaySendsInv, LinesMove, Ranks
  <2>. QED
    BY <2>1, <2>2, <2>3, <2>4, LessAhead DEF Progress
<1>6. CASE RelayReturns(r)
  <2>1. /\ r \in running /\ running' = running \ {r}
        /\ UNCHANGED <<scenario, ch, dams, cancelled>>
    BY <1>6 DEF RelayReturns
  <2>2. UNCHANGED <<pending, flushing, ending>>
    BY <2>1 DEF dams
  <2>3. NothingEmpty'
    BY <2>1, <2>2 DEF NothingEmpty
  <2>4. LineMoves' \subseteq LineMoves
    BY <1>6, <2>1, RelayReturnsInv, LinesStay
  <2>. QED
    BY <2>1, <2>2, <2>3, <2>4, LessAhead DEF Progress
<1>. QED
  BY <1>3, <1>4, <1>5, <1>6 DEF RelayStep

LEMMA DamProgress ==
  ASSUME Inv, NothingEmpty, NEW d \in Dam, DamStep(d)
  PROVE  Progress
<1>1. d \in Stages /\ In(d) \in Channel
  BY Names, Wiring
<1>2. /\ ch \in [Channel -> Seq(SUBSET AllLines)] /\ pending \in [Dam -> SUBSET AllLines]
      /\ ending \cap running \subseteq flushing /\ flushing \subseteq Dam \cap running
  BY DEF Inv, StateType, TypeOK
<1>3. CASE DamGathers(d)
  <2>1. /\ ch[In(d)] # <<>> /\ ch' = [ch EXCEPT ![In(d)] = Tail(@)]
        /\ UNCHANGED <<scenario, running, pending, flushing, ending, cancelled>>
    BY <1>3 DEF DamGathers, Ready
  <2>2. Head(ch[In(d)]) # {} /\ NothingEmpty'
    BY <1>1, <1>2, <2>1, FullItems DEF NothingEmpty
  <2>3. LineMoves' \subseteq LineMoves /\ LineMoves' # LineMoves
    BY <1>3, <2>1, <2>2, DamGathersInv, LinesMove, Ranks
  <2>. QED
    BY <2>1, <2>2, <2>3, LessAhead DEF Progress
<1>4. CASE DamTimer(d)
  <2>1. /\ gathered[d] # {} /\ ending' = ending /\ flushing' = flushing \cup {d}
        /\ pending' = [pending EXCEPT ![d] = gathered[d]]
        /\ UNCHANGED <<scenario, ch, running, cancelled>>
    BY <1>4 DEF DamTimer, StartFlush
  <2>2. NothingEmpty'
    BY <1>2, <2>1 DEF NothingEmpty
  <2>3. LineMoves' \subseteq LineMoves /\ LineMoves' # LineMoves
    BY <1>4, <2>1, DamTimerInv, LinesMove, Ranks
  <2>. QED
    BY <2>1, <2>2, <2>3, LessAhead DEF Progress
<1>5. CASE DamEnds(d)
  <2>1. /\ d \in running /\ d \notin flushing
        /\ ending' = ending \cup {d} /\ flushing' = flushing \cup {d}
        /\ pending' = [pending EXCEPT ![d] = gathered[d]]
        /\ UNCHANGED <<scenario, ch, running, cancelled>>
    BY <1>5 DEF DamEnds, StartFlush, Selecting
  <2>2. NothingEmpty'
    BY <1>2, <2>1 DEF NothingEmpty
  <2>3. LineMoves' \subseteq LineMoves
    BY <1>5, <2>1, DamEndsInv, LinesMove, Ranks
  <2>4. d \in ending' /\ d \notin ending
    BY <1>2, <2>1
  <2>. QED
    BY <2>1, <2>2, <2>3, <2>4, LessAhead DEF Progress
<1>6. CASE DamEmits(d)
  <2>1. /\ d \in flushing /\ flushing' = flushing \ {d}
        /\ ch' = IF pending[d] = {} THEN ch ELSE [ch EXCEPT ![d] = Append(@, pending[d])]
        /\ pending' = [pending EXCEPT ![d] = {}]
        /\ running' = running \ (ending \cap {d})
        /\ UNCHANGED <<scenario, ending, cancelled>>
    BY <1>6 DEF DamEmits, FlushReturns
  <2>2. d \in Channel /\ (pending[d] = {} => d \in ending)
    BY <1>1, <2>1, Wiring DEF NothingEmpty
  <2>3. NothingEmpty'
    BY <1>2, <2>1, <2>2, FullItems DEF NothingEmpty
  <2>4. LineMoves' \subseteq LineMoves /\ (pending[d] # {} => LineMoves' # LineMoves)
    BY <1>6, <2>1, DamEmitsInv, LinesMove, Ranks
  <2>5. pending[d] = {} => running' # running
    BY <1>2, <2>1, <2>2
  <2>. QED
    BY <2>1, <2>3, <2>4, <2>5, LessAhead DEF Progress
<1>7. CASE DamSkips(d)
  <2>1. /\ d \in flushing /\ flushing' = flushing \ {d} /\ pending[d] # {}
        /\ pending' = [pending EXCEPT ![d] = {}] /\ running' \subseteq running
        /\ UNCHANGED <<scenario, ch, ending, cancelled>>
    BY <1>7 DEF DamSkips, FlushReturns
  <2>2. NothingEmpty'
    BY <1>2, <2>1 DEF NothingEmpty
  <2>3. LineMoves' \subseteq LineMoves /\ LineMoves' # LineMoves
    BY <1>7, <2>1, DamSkipsInv, LinesMove, Ranks
  <2>. QED
    BY <2>1, <2>2, <2>3, LessAhead DEF Progress
<1>. QED
  BY <1>3, <1>4, <1>5, <1>6, <1>7 DEF DamStep

LEMMA EndsProgress ==
  ASSUME Inv, NothingEmpty, (\E svc \in Svc : SourceStep(svc)) \/ MainTakes \/ MainReturns \/ Cancel
  PROVE  Progress
<1>1. ch \in [Channel -> Seq(SUBSET AllLines)] /\ In(Main) \in Channel
  BY Wiring DEF Inv, StateType
<1>2. ASSUME NEW svc \in Svc, SourceSends(svc) PROVE Progress
  <2>. DEFINE c == <<"source", svc>>
  <2>1. /\ c \in running /\ ch' = [ch EXCEPT ![c] = Append(@, {Line(svc)})]
        /\ running' \subseteq running /\ UNCHANGED <<scenario, dams, cancelled>>
    BY <1>2 DEF SourceSends
  <2>2. UNCHANGED <<pending, flushing, ending>>
    BY <2>1 DEF dams
  <2>3. c \in Channel
    BY DEF Channel, Source
  <2>4. NothingEmpty'
    BY <1>1, <2>1, <2>2, <2>3, FullItems DEF NothingEmpty
  <2>5. LineMoves' \subseteq LineMoves /\ LineMoves' # LineMoves
    BY <1>2, <2>1, SourceSendsInv, LinesMove, Ranks
  <2>. QED
    BY <2>1, <2>2, <2>4, <2>5, LessAhead DEF Progress
<1>3. CASE MainTakes
  <2>1. /\ ch[In(Main)] # <<>> /\ ch' = [ch EXCEPT ![In(Main)] = Tail(@)]
        /\ UNCHANGED <<scenario, running, dams, cancelled>>
    BY <1>3 DEF MainTakes, Ready
  <2>2. UNCHANGED <<pending, flushing, ending>>
    BY <2>1 DEF dams
  <2>3. Head(ch[In(Main)]) # {} /\ NothingEmpty'
    BY <1>1, <2>1, <2>2, FullItems DEF NothingEmpty
  <2>4. LineMoves' \subseteq LineMoves /\ LineMoves' # LineMoves
    BY <1>3, <2>1, <2>3, MainTakesInv, LinesMove, Ranks
  <2>. QED
    BY <2>1, <2>2, <2>3, <2>4, LessAhead DEF Progress
<1>4. ASSUME (\E svc \in Svc : SourceEnds(svc)) \/ MainReturns \/ Cancel PROVE Progress
  <2>1. /\ UNCHANGED <<scenario, ch, left, hold, dams, dropped, delivered>>
        /\ running' \subseteq running /\ (cancelled => cancelled')
        /\ running' # running \/ (cancelled' /\ ~cancelled)
    <3>1. CASE \E svc \in Svc : SourceEnds(svc)
      BY <3>1 DEF SourceEnds
    <3>2. CASE MainReturns
      BY <3>2 DEF MainReturns
    <3>3. CASE Cancel
      BY <3>3 DEF Cancel
    <3>. QED
      BY <1>4, <3>1, <3>2, <3>3
  <2>2. UNCHANGED <<gathered, pending, flushing, ending>>
    BY <2>1 DEF dams
  <2>3. NothingEmpty'
    BY <2>1, <2>2 DEF NothingEmpty
  <2>4. \A o \in Place : At(o)' = At(o)
    BY <2>1, <2>2, SamePlaces
  <2>5. LineMoves' \subseteq LineMoves
    BY <2>1, <2>4, LinesStay
  <2>. QED
    BY <2>1, <2>2, <2>3, <2>5, LessAhead DEF Progress
<1>. QED
  BY <1>2, <1>3, <1>4 DEF SourceStep

LEMMA StepProgress ==
  ASSUME Inv, NothingEmpty, Next
  PROVE  Progress
BY RelayProgress, DamProgress, EndsProgress DEF Next

LEMMA AheadFinite ==
  StateType /\ TypeOK => IsFiniteSet(Ahead)
<1>. SUFFICES ASSUME StateType, TypeOK PROVE IsFiniteSet(Ahead)
  OBVIOUS
<1>1. IsFiniteSet(AllLines)
  <2>. DEFINE D == DOMAIN scenario.lines
              part == [svc \in D |-> {<<svc, i>> : i \in 1..scenario.lines[svc]}]
              Parts == {part[svc] : svc \in D}
  <2>1. IsFiniteSet(D) /\ scenario.lines \in [D -> Nat]
    BY FS_Subset, PipelineAssumption DEF PipelineAssumption, StateType
  <2>2. ASSUME NEW svc \in D PROVE IsFiniteSet(part[svc])
    <3>1. scenario.lines[svc] \in Int /\ 1 \in Int
      BY <2>1
    <3>2. IsFiniteSet({svc}) /\ IsFiniteSet(1..scenario.lines[svc])
      BY <3>1, FS_Singleton, FS_Interval
    <3>3. part[svc] = {svc} \X (1..scenario.lines[svc])
      OBVIOUS
    <3>4. IsFiniteSet({svc} \X (1..scenario.lines[svc]))
      BY <3>2, FS_Product
    <3>. QED
      BY <3>3, <3>4
  <2>3. part \in Surjection(D, Parts)
    BY DEF Surjection
  <2>4. AllLines = UNION Parts
    BY DEF AllLines, LinesOf
  <2>. HIDE DEF D, part
  <2>5. IsFiniteSet(Parts)
    BY <2>1, <2>3, FS_Surjection
  <2>. QED
    BY <2>2, <2>4, <2>5, FS_UNION
<1>2. IsFiniteSet(LineMoves)
  <2>1. IsFiniteSet(1..36)
    <3>1. 1 \in Int /\ 36 \in Int
      OBVIOUS
    <3>. QED
      BY <3>1, FS_Interval
  <2>2. IsFiniteSet(AllLines \X (1..36))
    BY <1>1, <2>1, FS_Product
  <2>. QED
    BY <2>2, FS_Subset DEF LineMoves
<1>3. IsFiniteSet(Source \cup Stages \cup {Main})
  <2>1. IsFiniteSet(PerService) /\ IsFiniteSet(Shared)
    <3>1. \A enabled, name : IsFiniteSet(Only(enabled, name))
      BY FS_Singleton, FS_EmptySet DEF Only
    <3>2. IsFiniteSet({"filter"} \cup {"aggregator"} \cup {"merge"})
      BY FS_Singleton, FS_Union
    <3>3. {"filter"} \cup {"aggregator"} \cup {"merge"} = {"filter", "aggregator", "merge"}
      OBVIOUS
    <3>4. IsFiniteSet({"filter", "aggregator", "merge"} \cup Only(PatternEnabled, "pattern"))
      BY <3>1, <3>2, <3>3, FS_Union
    <3>. QED
      BY <3>1, <3>4, FS_Singleton, FS_Union DEF PerService, Shared
  <2>2. /\ IsFiniteSet({"source"} \X Svc) /\ IsFiniteSet(PerService \X Svc)
        /\ IsFiniteSet(Shared \X {All})
    BY <2>1, FS_Singleton, FS_Product, PipelineAssumption DEF PipelineAssumption
  <2>. QED
    BY <2>2, FS_Singleton, FS_Union DEF Source, Stages
<1>4. IsFiniteSet(running) /\ IsFiniteSet(Dam \ ending)
  BY <1>3, FS_Subset DEF TypeOK, Dam
<1>5. /\ IsFiniteSet({"line"} \X LineMoves) /\ IsFiniteSet({"goroutine"} \X running)
      /\ IsFiniteSet({"window"} \X (Dam \ ending))
  BY <1>2, <1>4, FS_Singleton, FS_Product
<1>6. IsFiniteSet(Only(~cancelled, <<"signal", Main>>))
  BY FS_Singleton, FS_EmptySet DEF Only
<1>. QED
  BY <1>5, <1>6, FS_Union DEF Ahead

\* Every step of the agent, a signal included, leaves it less to do, so that it
\* takes finitely many: together with NoCircularWait, when the files end and no
\* signal comes, every goroutine returns (main.go:235-277, merge.go:42-45).
THEOREM WorkRunsOut ==
  Spec => [][IsFiniteSet(Ahead) /\ Cardinality(Ahead') < Cardinality(Ahead)]_vars
<1>1. Init => NothingEmpty
  BY DEF Init, NothingEmpty
<1>2. Inv /\ NothingEmpty /\ [Next]_vars => NothingEmpty'
  BY StepProgress DEF Progress, NothingEmpty, vars, dams
<1>3. Spec => []NothingEmpty
  BY <1>1, <1>2, Invariance, PTL DEF Spec
<1>4. ASSUME Inv, NothingEmpty, Next
      PROVE  IsFiniteSet(Ahead) /\ Cardinality(Ahead') < Cardinality(Ahead)
  <2>1. Ahead' \subseteq Ahead /\ Ahead' # Ahead
    BY <1>4, StepProgress DEF Progress
  <2>2. IsFiniteSet(Ahead)
    BY <1>4, AheadFinite DEF Inv
  <2>. DEFINE A == Ahead
              B == Ahead'
  <2>3. /\ IsFiniteSet(B) /\ Cardinality(B) <= Cardinality(A) /\ Cardinality(A) # Cardinality(B)
    BY <2>1, <2>2, FS_Subset
  <2>4. Cardinality(A) \in Nat /\ Cardinality(B) \in Nat
    BY <2>2, <2>3, FS_CardinalityType
  <2>. QED
    BY <2>2, <2>3, <2>4
<1>5. Inv /\ NothingEmpty /\ [Next]_vars
        => [IsFiniteSet(Ahead) /\ Cardinality(Ahead') < Cardinality(Ahead)]_vars
  BY <1>4
<1>. QED
  BY <1>3, <1>5, Invariance, PTL DEF Spec
=============================================================================
