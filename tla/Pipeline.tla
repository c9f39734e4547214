------------------------------ MODULE Pipeline ------------------------------
(***************************************************************************)
(* The pipeline that cmd/agent/main.go wires: per service a source, the    *)
(* filter, the pattern engine, the aggregator, the detector and one merge  *)
(* goroutine, then the shared correlator (or wrap) and diagnoser, and the  *)
(* lifecycle manager with the dispatch loop as the consumer at the end.    *)
(*                                                                         *)
(* Each stage is a goroutine with an input and an output channel that it   *)
(* closes when it returns.  Stages are of two kinds.  A relay passes on    *)
(* one item at a time and heeds ctx in both its selects; a dam gathers     *)
(* items and flushes them, on a timer and at the end, with sends that do   *)
(* not heed ctx.  An item is the set of log lines that went into it, so    *)
(* that every line can be followed.  Time is left out: a timer may fire    *)
(* whenever it is waited for.  An unbuffered channel has capacity one.     *)
(***************************************************************************)
EXTENDS Naturals, FiniteSetsExt, SequencesExt

CONSTANTS
  Svc,                \* services that may be configured
  Scenario,           \* the cases of an instance: [lines, signal], how many lines each
                      \* configured service has, and whether a signal may come
  HeedsCtx,           \* services whose source (Loki) heeds ctx while it sends
  PatternEnabled, AnomalyEnabled, CorrelatorEnabled, DiagnosisEnabled,
  LineCap,            \* capacity of the channels of log lines
  AlertCap            \* capacity of the channels of alerts and incidents

All == "all services"   \* in the place of a service's name, for what is shared

ASSUME PipelineAssumption ==
  /\ IsFiniteSet(Svc) /\ All \notin Svc /\ HeedsCtx \subseteq Svc
  /\ \A s \in Scenario : /\ DOMAIN s.lines \subseteq Svc /\ s.lines \in [DOMAIN s.lines -> Nat]
                          /\ s.signal \in BOOLEAN
  /\ {PatternEnabled, AnomalyEnabled, CorrelatorEnabled, DiagnosisEnabled} \subseteq BOOLEAN
  /\ LineCap \in Nat \ {0} /\ AlertCap \in Nat \ {0}

(***************************************************************************)
(* The wiring.  A channel has the name of the stage that writes it; all    *)
(* merge goroutines write one.                                             *)
(***************************************************************************)
Only(enabled, name) == IF enabled THEN {name} ELSE {}

Correlation == IF CorrelatorEnabled THEN "correlator" ELSE "wrap"

PerService ==
  {"filter", "aggregator", "merge"} \cup Only(PatternEnabled, "pattern") \cup Only(AnomalyEnabled, "detector")

Shared == {Correlation} \cup Only(DiagnosisEnabled, "diagnoser")

Stages == (PerService \X Svc) \cup (Shared \X {All})
Source == {"source"} \X Svc
Main == <<"main", All>>
Dam == {s \in Stages : s[1] \in {"aggregator", "correlator"}}
Relay == Stages \ Dam

Channel == {s \in Source \cup Stages : s[1] # "merge"} \cup {<<"merged", All>>}

\* Which channel's output each stage is given.
Upstream ==
  [filter     |-> "source",
   pattern    |-> "filter",
   aggregator |-> IF PatternEnabled THEN "pattern" ELSE "filter",
   detector   |-> "aggregator",
   merge      |-> IF AnomalyEnabled THEN "detector" ELSE "aggregator",
   correlator |-> "merged",
   wrap       |-> "merged",
   diagnoser  |-> Correlation,
   main       |-> IF DiagnosisEnabled THEN "diagnoser" ELSE Correlation]

In(stage) == <<Upstream[stage[1]], stage[2]>>

Out(stage) == IF stage[1] = "merge" THEN <<"merged", All>> ELSE stage

Cap(channel) ==
  IF channel[1] \in {"source", "filter", "pattern"} THEN LineCap ELSE AlertCap

VARIABLES
  scenario,   \* the case considered, which no step changes
  ch,         \* the contents of the channels
  running,    \* goroutines that have not returned
  left,       \* lines each source has yet to send
  hold,       \* the item each relay has taken and not passed on; {} for none
  gathered,   \* items of each dam's current window
  pending,    \* items of each dam's flush in progress
  flushing,   \* dams that are inside a flush
  ending,     \* dams that are inside their last one
  cancelled,  \* ctx is done
  dropped,    \* history: lines found uninteresting, by a filter or a detector or as too few
  delivered   \* history: lines whose incident reached the lifecycle manager

dams == <<gathered, pending, flushing, ending>>
vars == <<scenario, ch, running, left, hold, dams, cancelled, dropped, delivered>>

Init ==
  /\ scenario \in Scenario
  /\ ch = [c \in Channel |-> <<>>]
  /\ running = {s \in Source \cup Stages : s[2] \in DOMAIN scenario.lines \cup {All}} \cup {Main}
  /\ left = scenario.lines
  /\ hold = [r \in Relay |-> {}]
  /\ gathered = [d \in Dam |-> {}] /\ pending = [d \in Dam |-> {}]
  /\ flushing = {} /\ ending = {}
  /\ cancelled = FALSE
  /\ dropped = {} /\ delivered = {}

(***************************************************************************)
(* Channels.  A channel is closed when its writers have returned: each by  *)
(* its defer close(out), merged by the goroutine that waits for all merges. *)
(***************************************************************************)
Writers(c) == {s \in Source \cup Stages : Out(s) = c}

\* Mutant: MergeAlerts leaves its output open.
Closed_notMerged(c) == c[1] # "merged" /\ Writers(c) \cap running = {}

\* Mutant: the first merge goroutine to return closes the merged channel.
Closed_first(c) == \E w \in Writers(c) : w \notin running

Closed(c) == Writers(c) \cap running = {}

\* Mutant: a channel takes one item more than its capacity.
Room_oneMore(c) == Len(ch[c]) <= Cap(c)

Room(c) == Len(ch[c]) < Cap(c)
Ready(c) == ch[c] # <<>>
Drained(c) == ch[c] = <<>> /\ Closed(c)

(***************************************************************************)
(* Sources.  FileSource sends without heeding ctx and looks at it after    *)
(* each line; LokiSource heeds it while it sends and between polls.        *)
(***************************************************************************)
Line(svc) == <<svc, left[svc]>>

SourceSends(svc) ==
  LET src == <<"source", svc>> IN
  /\ src \in running /\ left[svc] > 0 /\ Room(src)
  /\ ch' = [ch EXCEPT ![src] = Append(@, {Line(svc)})]
  /\ left' = [left EXCEPT ![svc] = @ - 1]
  /\ running' = IF cancelled /\ svc \notin HeedsCtx THEN running \ {src} ELSE running
  /\ UNCHANGED <<scenario, hold, dams, cancelled, dropped, delivered>>

\* The end of the file; or ctx is done and the source is one that heeds it.
SourceEnds(svc) ==
  /\ <<"source", svc>> \in running
  /\ IF svc \in HeedsCtx THEN cancelled ELSE left[svc] = 0
  /\ running' = running \ {<<"source", svc>>}
  /\ UNCHANGED <<scenario, ch, left, hold, dams, cancelled, dropped, delivered>>

(***************************************************************************)
(* Relays: Filter, PatternEngine.Run, AnomalyDetector.Run, the goroutines  *)
(* of MergeAlerts, WrapAlerts and Diagnoser.Run.                           *)
(***************************************************************************)
RelayTakes(r) ==
  /\ r \in running /\ hold[r] = {} /\ Ready(In(r))
  /\ hold' = [hold EXCEPT ![r] = Head(ch[In(r)])]
  /\ ch' = [ch EXCEPT ![In(r)] = Tail(@)]
  /\ UNCHANGED <<scenario, running, left, dams, cancelled, dropped, delivered>>

\* ParseLevel finds no level, or evaluate no anomaly.
RelayDrops(r) ==
  /\ r \in running /\ hold[r] # {} /\ r[1] \in {"filter", "detector"}
  /\ dropped' = dropped \cup hold[r]
  /\ hold' = [hold EXCEPT ![r] = {}]
  /\ UNCHANGED <<scenario, ch, running, left, dams, cancelled, delivered>>

RelaySends(r) ==
  /\ r \in running /\ hold[r] # {} /\ Room(Out(r))
  /\ ch' = [ch EXCEPT ![Out(r)] = Append(@, hold[r])]
  /\ hold' = [hold EXCEPT ![r] = {}]
  /\ UNCHANGED <<scenario, running, left, dams, cancelled, dropped, delivered>>

\* Mutant: a relay ignores ctx while it sends.
RelayReturns_deafSend(r) ==
  /\ r \in running /\ hold[r] = {}
  /\ cancelled \/ Drained(In(r))
  /\ running' = running \ {r}
  /\ UNCHANGED <<scenario, ch, left, hold, dams, cancelled, dropped, delivered>>

\* Mutant: a relay that finds its input closed drops the item in its hand.
RelayReturns_dropLast(r) ==
  /\ r \in running
  /\ cancelled \/ Drained(In(r))
  /\ running' = running \ {r}
  /\ hold' = [hold EXCEPT ![r] = {}]
  /\ UNCHANGED <<scenario, ch, left, dams, cancelled, dropped, delivered>>

\* ctx.Done() in either select, with an item in hand or not; or the end of in.
RelayReturns(r) ==
  /\ r \in running
  /\ cancelled \/ (hold[r] = {} /\ Drained(In(r)))
  /\ running' = running \ {r}
  /\ hold' = [hold EXCEPT ![r] = {}]
  /\ UNCHANGED <<scenario, ch, left, dams, cancelled, dropped, delivered>>

(***************************************************************************)
(* Dams: Aggregator.Run makes one alert of the lines of its service,       *)
(* Correlator.Run one incident of each group of alerts (here, of all).     *)
(***************************************************************************)
Selecting(d) == d \in running /\ d \notin flushing

DamGathers(d) ==
  /\ Selecting(d) /\ Ready(In(d))
  /\ gathered' = [gathered EXCEPT ![d] = @ \cup Head(ch[In(d)])]
  /\ ch' = [ch EXCEPT ![In(d)] = Tail(@)]
  /\ UNCHANGED <<scenario, running, left, hold, pending, flushing, ending, cancelled, dropped, delivered>>

StartFlush(d) ==
  /\ flushing' = flushing \cup {d}
  /\ pending' = [pending EXCEPT ![d] = gathered[d]]
  /\ gathered' = [gathered EXCEPT ![d] = {}]
  /\ UNCHANGED <<scenario, ch, running, left, hold, cancelled, dropped, delivered>>

\* case <-timer.  With nothing gathered, flush changes nothing.
DamTimer(d) == Selecting(d) /\ gathered[d] # {} /\ ending' = ending /\ StartFlush(d)

\* The end of the input, or ctx.Done().
DamEnds(d) ==
  /\ Selecting(d)
  /\ cancelled \/ Drained(In(d))
  /\ ending' = ending \cup {d} /\ StartFlush(d)

FlushReturns(d) ==
  /\ d \in flushing
  /\ pending' = [pending EXCEPT ![d] = {}]
  /\ flushing' = flushing \ {d}
  /\ running' = running \ (ending \cap {d})
  /\ UNCHANGED <<scenario, left, hold, gathered, ending, cancelled, delivered>>

\* out <- item, if there is one.
DamEmits(d) ==
  /\ pending[d] # {} => Room(d)
  /\ ch' = IF pending[d] = {} THEN ch ELSE [ch EXCEPT ![d] = Append(@, pending[d])]
  /\ dropped' = dropped
  /\ FlushReturns(d)

\* The window has fewer lines than MinCount.
DamSkips(d) ==
  /\ d[1] = "aggregator" /\ pending[d] # {}
  /\ dropped' = dropped \cup pending[d]
  /\ ch' = ch
  /\ FlushReturns(d)

(***************************************************************************)
(* The lifecycle manager and the dispatch loop, and the signal.            *)
(***************************************************************************)
MainTakes ==
  /\ Main \in running /\ Ready(In(Main))
  /\ delivered' = delivered \cup Head(ch[In(Main)])
  /\ ch' = [ch EXCEPT ![In(Main)] = Tail(@)]
  /\ UNCHANGED <<scenario, running, left, hold, dams, cancelled, dropped>>

\* Run returns, and the range loop over its output after it.
MainReturns ==
  /\ Main \in running
  /\ cancelled \/ Drained(In(Main))
  /\ running' = running \ {Main}
  /\ UNCHANGED <<scenario, ch, left, hold, dams, cancelled, dropped, delivered>>

Cancel ==
  /\ scenario.signal /\ ~cancelled /\ Main \in running
  /\ cancelled' = TRUE
  /\ UNCHANGED <<scenario, ch, running, left, hold, dams, dropped, delivered>>

RelayStep(r) == RelayTakes(r) \/ RelayDrops(r) \/ RelaySends(r) \/ RelayReturns(r)
SourceStep(svc) == SourceSends(svc) \/ SourceEnds(svc)
DamStep(d) == DamGathers(d) \/ DamTimer(d) \/ DamEnds(d) \/ DamEmits(d) \/ DamSkips(d)

Next ==
  \/ \E svc \in Svc : SourceStep(svc)
  \/ \E r \in Relay : RelayStep(r)
  \/ \E d \in Dam : DamStep(d)
  \/ MainTakes \/ MainReturns \/ Cancel

Spec == Init /\ [][Next]_vars

\* Goroutines run: a relay or the lifecycle manager that can take a step takes one.
FairSpec ==
  Spec /\ WF_vars(MainTakes \/ MainReturns) /\ \A r \in Relay : WF_vars(RelayStep(r))
-----------------------------------------------------------------------------
LinesOf(count) == UNION {{<<svc, i>> : i \in 1..count[svc]} : svc \in DOMAIN count}
AllLines == LinesOf(scenario.lines)

\* The places a line can be in, and the lines in each.
Place == ({"channel"} \X Channel) \cup ({"hand"} \X Relay) \cup ({"gathered", "pending"} \X Dam)
           \cup ({"unread", "dropped", "delivered"} \X {Main})

At(place) ==
  CASE place[1] = "channel" -> UNION ToSet(ch[place[2]])
    [] place[1] = "hand" -> hold[place[2]]
    [] place[1] = "gathered" -> gathered[place[2]]
    [] place[1] = "pending" -> pending[place[2]]
    [] place[1] = "unread" -> LinesOf(left)
    [] place[1] = "dropped" -> dropped
    [] OTHER -> delivered

TypeOK ==
  /\ \A c \in Channel : Len(ch[c]) <= Cap(c)
  /\ \A p \in Place : At(p) \subseteq AllLines
  /\ running \subseteq Source \cup Stages \cup {Main}
  /\ ending \cap running \subseteq flushing /\ flushing \subseteq Dam \cap running

\* Every line is in one place -- unread, in one item of one channel or goroutine,
\* found uninteresting, or delivered -- and never in two, though after a signal
\* it may be in none.
NoLineLost ==
  \A line \in AllLines : LET places == {p \in Place : line \in At(p)} IN
    /\ ~cancelled => places # {}
    /\ \A p, q \in places : p = q
    /\ \A c \in Channel : \A i, j \in DOMAIN ch[c] : line \in ch[c][i] \cap ch[c][j] => i = j

\* When the agent stops because its files have been replayed, the last partial
\* windows have reached the channels: stages close behind what they still hold.
DeliveredAtEnd ==
  Main \notin running /\ ~cancelled => dropped \cup delivered = AllLines

\* Goroutines never all wait for one another: with sources that end and no
\* signal, something can be done until every goroutine has returned, whatever
\* channels are full (main.go:235-277, merge.go:42-45).  As no step can be taken
\* for ever -- each moves an item on, drops it, or ends a flush or a goroutine
\* (PipelineProofs, WorkRunsOut) -- all do return.
NeverStuck ==
  running # {} /\ ~cancelled /\ DOMAIN scenario.lines \cap HeedsCtx = {} => ENABLED Next

\* A signal ends the lifecycle manager and every relay, in whatever send or
\* receive it waits and however full the channels are.
SignalEndsRelays == cancelled ~> (running \cap (Relay \cup {Main}) = {})
=============================================================================
