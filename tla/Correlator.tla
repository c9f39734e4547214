----------------------------- MODULE Correlator -----------------------------
(***************************************************************************)
(* The correlator (internal/correlator/correlator.go): one goroutine that  *)
(* buffers alerts for a window and then emits one incident per connected   *)
(* group of services.  Its flush blocks on the output with no ctx.Done()   *)
(* branch.  While the output has its reader, whose speed is a delay before *)
(* each Emit, every send succeeds some time; a reader that sees ctx done   *)
(* returns, and then only what is left of the buffer takes incidents.      *)
(*                                                                         *)
(* A service is its position in the alphabetical order, an alert's patterns *)
(* are their maximal ZScore, and the hash of an incident ID is injective.  *)
(* A slice of alerts is the set of them: each carries its serial number,   *)
(* and every slice here is in the order of these.                          *)
(***************************************************************************)
EXTENDS ServiceGraph, FiniteSetsExt, SequencesExt

CONSTANTS
  Service,   \* services that send alerts
  Calls,     \* the dependencies file: a function on the services it names
  ZScore,    \* maximal ZScores that the alerts of each service may have
  Window,    \* CorrelatorConfig.Window
  OutCap,    \* capacity of the output channel
  MaxLag,    \* bound: time from an alert's timestamp to its arrival here
  MaxTime,   \* bound on the clock
  MaxAlerts  \* bound on the alerts received

\* g.component and g.depth; the ID of a component is the set of its services.
Known == DOMAIN Calls
Component == [svc \in Known |-> {other \in Known : Connected(Calls, svc, other)}]
GraphDepth == [svc \in Known |-> Distance(Calls, svc)]

ASSUME CorrelatorAssumption ==
  /\ Service \subseteq Nat /\ Known \subseteq Nat /\ IsFiniteSet(Known)
  /\ Calls \in [Known -> SUBSET Known]
  /\ ZScore \in [Service -> SUBSET Nat]
  /\ Window \in Nat \ {0} /\ OutCap \in Nat
  /\ MaxLag \in Nat /\ MaxTime \in Nat /\ MaxAlerts \in Nat

VARIABLES
  received,   \* history: alerts received so far
  pc,         \* where Run is: "select", "flush", "final" flush, or "done"
  buffer,     \* alerts of the current window
  pending,    \* groups the flush in progress has not emitted yet
  deadline,   \* when the timer fires
  now,
  inClosed,   \* the input channel is closed
  cancelled,  \* ctx is done
  reading,    \* the goroutine behind the output has not returned
  room,       \* the free places it left in the output's buffer; 0 while it reads
  sent        \* history: the incidents emitted

reader == <<reading, room>>
vars == <<received, pc, buffer, pending, deadline, now, inClosed, cancelled, reader, sent>>

Init ==
  /\ received = 0
  /\ pc = "select"
  /\ buffer = {} /\ pending = {}
  /\ deadline = Window /\ now = 0
  /\ inClosed = FALSE /\ cancelled = FALSE
  /\ reading = TRUE /\ room = 0
  /\ sent = <<>>

SentAlerts == UNION {inc.alerts : inc \in ToSet(sent)}

Alerts == buffer \cup (UNION pending) \cup SentAlerts

(***************************************************************************)
(* flush: alerts are grouped by component.  An alert of a service the      *)
(* graph does not know is a group of its own.                              *)
(***************************************************************************)
SameGroup(a, b) ==
  IF a.service \in Known
  THEN b.service \in Known /\ Component[b.service] = Component[a.service]
  ELSE a = b

Groups(alerts) == {{b \in alerts : SameGroup(a, b)} : a \in alerts}

(***************************************************************************)
(* buildIncident.                                                          *)
(***************************************************************************)
Services(alerts) == {a.service : a \in alerts}

Depth(svc) == IF svc \in Known THEN GraphDepth[svc] ELSE 0

\* alertByService keeps the last alert of each service.
LastZScore(alerts, svc) ==
  LET ofService == {a \in alerts : a.service = svc}
  IN  (CHOOSE a \in ofService : \A b \in ofService : b.serial <= a.serial).zscore

\* Mutant: the ZScore goes before the depth.
LikelierRoot_scoreFirst(alerts, a, b) ==
  LET za == LastZScore(alerts, a)
      zb == LastZScore(alerts, b)
  IN  \/ za > zb
      \/ za = zb /\ (Depth(a) > Depth(b) \/ (Depth(a) = Depth(b) /\ a <= b))

\* Deepest first, then the higher ZScore, then the alphabetical order.
LikelierRoot(alerts, a, b) ==
  LET za == LastZScore(alerts, a)
      zb == LastZScore(alerts, b)
  IN  \/ Depth(a) > Depth(b)
      \/ Depth(a) = Depth(b) /\ (za > zb \/ (za = zb /\ a <= b))

RootService(alerts) ==
  CHOOSE svc \in Services(alerts) :
    \A other \in Services(alerts) : LikelierRoot(alerts, svc, other)

Deeper(a, b) == Depth(a) > Depth(b) \/ (Depth(a) = Depth(b) /\ a < b)

DepChain(alerts) ==
  CHOOSE chain \in SetToSeqs(Services(alerts)) :
    \A i, j \in DOMAIN chain : i < j => Deeper(chain[i], chain[j])

\* GenerateIncidentID: the services and the start of the clock window of the
\* earliest alert.
IncidentID(alerts) ==
  <<Services(alerts), (Min({a.timestamp : a \in alerts}) \div Window) * Window>>

NoID == <<>>
NoService == 0

BuildIncident(alerts) ==
  IF Services(alerts) \cap Known = {}
  THEN [id |-> NoID, alerts |-> alerts, root |-> NoService, chain |-> <<>>]
  ELSE [id |-> IncidentID(alerts), alerts |-> alerts,
        root |-> RootService(alerts), chain |-> DepChain(alerts)]

(***************************************************************************)
(* Run.  A service's alerts come from successive windows of its aggregator *)
(* and so in the order of their timestamps.  As history, an alert carries  *)
(* its place in the order of arrival and the deadline of its window.       *)
(***************************************************************************)
Receive(svc, z, lag) ==
  /\ pc = "select" /\ ~inClosed
  /\ received < MaxAlerts /\ lag <= now
  /\ received' = received + 1
  /\ \A a \in Alerts : a.service = svc => a.timestamp < now - lag
  /\ buffer' = buffer \cup {[service |-> svc, zscore |-> z, timestamp |-> now - lag,
                               serial |-> received + 1, window |-> deadline]}
  /\ UNCHANGED <<pc, pending, deadline, now, inClosed, cancelled, reader, sent>>

\* Mutant: the buffer is not reset after a flush.
TimerFires_keepBuffer ==
  /\ pc = "select" /\ now >= deadline
  /\ pc' = "flush"
  /\ pending' = Groups(buffer)
  /\ UNCHANGED <<received, buffer, deadline, now, inClosed, cancelled, reader, sent>>

\* Mutant: each flush takes only the first group of the buffer.
TimerFires_oneGroup ==
  /\ pc = "select" /\ now >= deadline
  /\ pc' = "flush"
  /\ \E some \in SUBSET Groups(buffer) :
       /\ Cardinality(some) <= 1 /\ (buffer # {} => some # {})
       /\ pending' = some /\ buffer' = buffer \ (UNION some)
  /\ UNCHANGED <<received, deadline, now, inClosed, cancelled, reader, sent>>

TimerFires ==
  /\ pc = "select" /\ now >= deadline
  /\ pc' = "flush"
  /\ pending' = Groups(buffer) /\ buffer' = {}
  /\ UNCHANGED <<received, deadline, now, inClosed, cancelled, reader, sent>>

\* Mutant: the input's end does not flush the partial window.
FinalFlush_drop ==
  /\ pc = "select" /\ (inClosed \/ cancelled)
  /\ pc' = "final"
  /\ pending' = {} /\ buffer' = {}
  /\ UNCHANGED <<received, deadline, now, inClosed, cancelled, reader, sent>>

\* The input is closed, or ctx is done: one last flush.
FinalFlush ==
  /\ pc = "select" /\ (inClosed \/ cancelled)
  /\ pc' = "final"
  /\ pending' = Groups(buffer) /\ buffer' = {}
  /\ UNCHANGED <<received, deadline, now, inClosed, cancelled, reader, sent>>

\* out <- inc, for the groups in the arbitrary order of a Go map.
Emit(group) ==
  /\ pc \in {"flush", "final"} /\ group \in pending
  /\ reading \/ room > 0
  /\ room' = IF reading THEN room ELSE room - 1
  /\ sent' = Append(sent, BuildIncident(group))
  /\ pending' = pending \ {group}
  /\ UNCHANGED <<received, pc, buffer, deadline, now, inClosed, cancelled, reading>>

\* Mutant: the flush returns without arming the next timer.
FlushReturns_noTimer ==
  /\ pc \in {"flush", "final"} /\ pending = {}
  /\ pc' = IF pc = "flush" THEN "select" ELSE "done"
  /\ deadline' = IF pc = "flush" THEN MaxTime + Window ELSE deadline
  /\ UNCHANGED <<received, buffer, pending, now, inClosed, cancelled, reader, sent>>

\* Mutant: Run does not return after its final flush.
FlushReturns_noReturn ==
  /\ pc \in {"flush", "final"} /\ pending = {}
  /\ pc' = "select"
  /\ deadline' = now + Window
  /\ UNCHANGED <<received, buffer, pending, now, inClosed, cancelled, reader, sent>>

\* flush returns: the timer is armed again, or Run closes its output.
FlushReturns ==
  /\ pc \in {"flush", "final"} /\ pending = {}
  /\ pc' = IF pc = "flush" THEN "select" ELSE "done"
  /\ deadline' = IF pc = "flush" THEN now + Window ELSE deadline
  /\ UNCHANGED <<received, buffer, pending, now, inClosed, cancelled, reader, sent>>

Run == TimerFires \/ FinalFlush \/ FlushReturns \/ \E group \in pending : Emit(group)

(***************************************************************************)
(* The clock, the producer, the signal and the reader, while Run can notice *)
(* them.                                                                   *)
(***************************************************************************)
Tick ==
  /\ now < MaxTime /\ pc # "done"
  /\ now' = now + 1
  /\ UNCHANGED <<received, pc, buffer, pending, deadline, inClosed, cancelled, reader, sent>>

CloseInput ==
  /\ pc # "done" /\ ~inClosed /\ inClosed' = TRUE
  /\ UNCHANGED <<received, pc, buffer, pending, deadline, now, cancelled, reader, sent>>

Cancel ==
  /\ pc # "done" /\ ~cancelled /\ cancelled' = TRUE
  /\ UNCHANGED <<received, pc, buffer, pending, deadline, now, inClosed, reader, sent>>

\* The diagnoser or the lifecycle manager notices that ctx is done, with any
\* number of the incidents emitted unread in the channel.
ReaderReturns ==
  /\ pc # "done" /\ cancelled /\ reading
  /\ reading' = FALSE
  /\ room' \in 0..OutCap /\ OutCap - room' <= Len(sent)
  /\ UNCHANGED <<received, pc, buffer, pending, deadline, now, inClosed, cancelled, sent>>

Next ==
  \/ Run \/ Tick \/ CloseInput \/ Cancel \/ ReaderReturns
  \/ \E svc \in Service : \E z \in ZScore[svc], lag \in 0..MaxLag : Receive(svc, z, lag)

Spec == Init /\ [][Next]_vars

\* The goroutine runs whenever it can, its reader goes on receiving until it
\* returns, and the clock advances.  Among the ready cases of its select Go
\* chooses at random, so none is passed over forever.
FairSpec == Spec /\ WF_vars(Run) /\ WF_vars(Tick)
-----------------------------------------------------------------------------
\* Only a signal makes the reader return before the channel is closed.
ReaderOK == reading \in BOOLEAN /\ (reading \/ cancelled) /\ room \in 0..OutCap

TypeOK ==
  /\ pc \in {"select", "flush", "final", "done"}
  /\ \A a \in Alerts : /\ a.service \in Service /\ a.zscore \in ZScore[a.service]
                       /\ a.timestamp \in 0..now
                       /\ a.window <= deadline
  /\ pending # {} => pc \in {"flush", "final"} /\ buffer = {}
  /\ now \in 0..MaxTime /\ inClosed \in BOOLEAN /\ cancelled \in BOOLEAN
  /\ ReaderOK

\* An alert that was received is in exactly one place -- the buffer, a group
\* about to be emitted, one incident -- and there once, through flushes, blocked
\* sends, the end of the input and a signal; at the end they are all in incidents.
NoAlertLost ==
  /\ {a.serial : a \in Alerts} = 1..received
  /\ \A a, b \in Alerts : a.serial = b.serial => a = b
  /\ \A i, j \in DOMAIN sent : i # j => sent[i].alerts \cap sent[j].alerts = {}
  /\ \A g, h \in pending : g # h => g \cap h = {}
  /\ SentAlerts \cap (UNION pending) = {} /\ (SentAlerts \cup UNION pending) \cap buffer = {}
  /\ pc = "done" => Alerts = SentAlerts

\* Connected anomalies of one window are one incident: two alerts are in the
\* same incident exactly when the graph connects their services and they arrived
\* in the same window; no alert of an unknown service joins any.
OneIncidentPerWindow ==
  \A inc1, inc2 \in ToSet(sent) : \A a \in inc1.alerts, b \in inc2.alerts :
    a # b =>
      ((inc1 = inc2) <=> /\ a.service \in Known /\ b.service \in Known
                         /\ Connected(Calls, a.service, b.service)
                         /\ a.window = b.window)

\* The root stands at the front of the chain as far as depth goes, and every
\* service of the incident is in the chain once, none before a deeper one.
ChainFromRoot ==
  \A inc \in ToSet(sent) : inc.id # NoID =>
    /\ ToSet(inc.chain) = Services(inc.alerts) /\ IsInjective(inc.chain)
    /\ Depth(inc.root) = Depth(inc.chain[1])
    /\ \A i, j \in DOMAIN inc.chain : i < j => Depth(inc.chain[i]) >= Depth(inc.chain[j])

\* A buffered alert does not wait for its incident forever, whatever else
\* arrives: some time all that is buffered has been emitted (NoAlertLost), as
\* the timer is armed again behind every flush (correlator.go:55-58), unless the
\* reader returns first.
EventuallyEmitted ==
  (\E a \in buffer : a.timestamp + MaxLag + Window <= MaxTime)
    ~> (~reading \/ (buffer = {} /\ pending = {}))

\* The end of the input or a signal ends the goroutine and closes its output, but
\* in one case: with an incident in hand, the buffer full and the reader gone, it
\* waits in its send (correlator.go:104).
ClosesOutput ==
  (inClosed \/ cancelled) ~> (pc = "done" \/ (pending # {} /\ ~reading /\ room = 0))
=============================================================================
