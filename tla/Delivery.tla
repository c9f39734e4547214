------------------------------ MODULE Delivery ------------------------------
(***************************************************************************)
(* Stages 6 to 8 together: the diagnoser grades incidents, the lifecycle   *)
(* manager turns them into notifications, the dispatch loop sends these to *)
(* the configured channels.  What is checked is what the readers of the    *)
(* channels see, not what each stage does.                                 *)
(*                                                                         *)
(* The manager's output channel has no buffer: it hands over a             *)
(* notification exactly when the dispatch loop takes it, and the loop is   *)
(* busy as long as it has a notification in hand.                          *)
(***************************************************************************)
EXTENDS Naturals, Sequences

CONSTANTS
  Scenario,       \* configurations and inputs: [channels, diagnosis, incidents]
  Reader,         \* 1..n: whoever reads the i-th registered channel
  Reply,          \* what the LLM may give for a severity
  Id, NoID, None,
  Timeout, DedupWindow, ResolveAfter, CheckInterval, InCap

Severity == {"", "P1", "P2", "P3"}
Incident == [id : Id, severity : Severity]

VARIABLES
  scenario,                                              \* never changes
  stage, inHand,                                         \* the diagnoser's
  tracked, pc, held, inCh, inClosed, tick, phase, feed, lost,  \* the manager's
  routes, note, send, elapsed,                           \* the dispatcher's
  cancelled,                                             \* ctx is done
  shown,          \* history: the last event each reader was shown of each ID,
                  \*   until a notification of it is missed
  missed,         \* history: <<reader, ID>>s with a notification not shown
  openedAs        \* history: the severity under which each open ID was opened

manager == <<tracked, pc, held, inCh, inClosed, tick, phase, feed, lost>>
history == <<shown, missed, openedAs>>

G == INSTANCE Diagnoser
L == INSTANCE Lifecycle WITH busy <- note # None
D == INSTANCE Dispatcher

diagnoser == <<stage, inHand>>
dispatcher == <<routes, note, send, elapsed>>
vars == <<scenario, diagnoser, manager, dispatcher, cancelled, history>>

ASSUME DeliveryAssumption ==
  /\ NoID \in Id
  /\ Timeout \in Nat
  /\ L!LifecycleAssumption
  /\ None \notin Incident \cup L!Notification
  /\ \A s \in Scenario :
       /\ s.diagnosis \in BOOLEAN
       /\ None \notin s.incidents
       /\ \A inc \in s.incidents : inc.id \in Id
       /\ DOMAIN D!BuildNotifiers(s.channels) \subseteq Reader

Init ==
  /\ scenario \in Scenario
  /\ D!Init(scenario.channels)
  /\ G!Init
  /\ L!Init
  /\ shown = [about \in Reader \X Id |-> "none"]
  /\ missed = {}
  /\ openedAs = [id \in Id |-> ""]

(***************************************************************************)
(* What reaches the manager: with diagnosis the diagnoser's output,        *)
(* without it the correlator's, whose incidents have no severity.  The     *)
(* input ends when the sources do, or with ctx.                            *)
(***************************************************************************)
Take(inc) ==
  /\ scenario.diagnosis
  /\ G!Take(inc)
  /\ UNCHANGED <<scenario, manager, dispatcher, history>>

Diagnose ==
  /\ G!Diagnose
  /\ UNCHANGED <<scenario, manager, dispatcher, history>>

PassOn ==
  /\ UNCHANGED <<scenario, dispatcher, history>>
  /\ L!Arrive(inHand)
  /\ G!Sent

DiagnoserReturns ==
  /\ scenario.diagnosis
  /\ UNCHANGED <<scenario, dispatcher, history>>
  /\ L!CloseIn
  /\ G!Return

PassUngraded(inc) ==
  /\ ~scenario.diagnosis
  /\ UNCHANGED <<scenario, diagnoser, dispatcher, history>>
  /\ L!Arrive([id |-> inc.id, severity |-> ""])

InputEnds ==
  /\ ~scenario.diagnosis
  /\ UNCHANGED <<scenario, diagnoser, dispatcher, history>>
  /\ L!CloseIn

(***************************************************************************)
(* The manager's own steps, and those it takes with the dispatch loop.     *)
(***************************************************************************)
ManagerTakes ==
  /\ UNCHANGED <<scenario, diagnoser, dispatcher, history>>
  /\ L!ProcessIncident

Manage ==
  /\ UNCHANGED <<scenario, diagnoser, dispatcher, history>>
  /\ \/ L!CheckAutoResolve
     \/ L!InputClosed \/ L!ContextDone
     \/ L!EmitAborted \/ L!ResolveAborted

\* The severity of the latest incident decides who is told, so a channel's
\* filter may let a part of an episode through: its reader misses the rest.
Crossed(n) ==
  {i \in DOMAIN routes :
     /\ n.event # "opened"
     /\ D!Matches(routes[i], n.inc.severity) # D!Matches(routes[i], openedAs[n.inc.id])}

HandOver(n) ==
  /\ UNCHANGED <<scenario, diagnoser, shown>>
  /\ D!Dispatch(n)
  /\ L!Send(n)
  /\ openedAs' = IF n.event = "updated" THEN openedAs
                 ELSE [openedAs EXCEPT ![n.inc.id] = IF n.event = "opened" THEN n.inc.severity ELSE ""]
  /\ missed' = missed \cup (Crossed(n) \X {n.inc.id})

SendReturns(i, result) ==
  LET about == <<i, note.inc.id>> IN
  /\ UNCHANGED <<scenario, diagnoser, manager, openedAs>>
  /\ D!SendReturns(i, result)
  /\ IF result = "ok" /\ D!Tells(routes[i].kind, note.inc)
       THEN shown' = [shown EXCEPT ![about] = IF about \in missed THEN @ ELSE note.event] /\ UNCHANGED missed
       ELSE missed' = missed \cup {about} /\ UNCHANGED shown

DispatchReturns ==
  /\ UNCHANGED <<scenario, diagnoser, history>>
  /\ D!DispatchReturns
  /\ L!DispatchReturns

Cancel ==
  /\ UNCHANGED <<scenario, diagnoser, dispatcher, history>>
  /\ L!Cancel

Time ==
  /\ UNCHANGED <<scenario, diagnoser, history>>
  /\ D!Tick
  /\ L!Time \/ (pc = "done" /\ UNCHANGED manager)

Next ==
  \/ \E inc \in scenario.incidents : Take(inc) \/ PassUngraded(inc)
  \/ Diagnose \/ PassOn \/ DiagnoserReturns \/ InputEnds
  \/ ManagerTakes \/ Manage
  \/ \E n \in held : HandOver(n)
  \/ \E i \in DOMAIN routes : \E result \in {"ok", "failed", "aborted"} : SendReturns(i, result)
  \/ DispatchReturns
  \/ Cancel
  \/ Time

Spec == Init /\ [][Next]_vars

(***************************************************************************)
(* The LLM request ends with its client's timeout, and the delay before    *)
(* the retry is finite.  A webhook may never answer: only the end of its   *)
(* context is sure to return.  Email has no such end, and is assumed to    *)
(* return because SMTP does.  Go's selects take a case that is ready again *)
(* and again.  Nothing forces an incident, a signal or the end of input.   *)
(***************************************************************************)
SureToReturn(i) ==
  /\ i \in DOMAIN routes
  /\ \E result \in {"ok", "failed", "aborted"} :
       /\ routes[i].kind \in D!Webhook => result = "aborted"
       /\ SendReturns(i, result)

Fairness ==
  /\ WF_vars(Time)
  /\ WF_vars(Diagnose)
  /\ WF_vars(PassOn \/ (stage = "send" /\ DiagnoserReturns))
  /\ SF_vars(ManagerTakes)
  /\ WF_vars(\E n \in held : HandOver(n))
  /\ \A i \in Reader : WF_vars(SureToReturn(i))
  /\ WF_vars(DispatchReturns)

FairSpec == Spec /\ Fairness
-----------------------------------------------------------------------------
TypeOK ==
  /\ L!TypeOK
  /\ inHand = None \/ inHand \in scenario.incidents \/ inHand \in Incident
  /\ stage \in {"select", "done"} <=> inHand = None
  /\ note = None \/ note \in L!Notification
  /\ elapsed \in 0..Timeout + 1
  /\ missed \subseteq Reader \X Id

\* Every reader is shown episodes opened, updated*, resolved of every incident,
\* and none is left open when the agent stops, whatever happens to other
\* readers and incidents: a reader's view of an ID breaks only after the
\* manager discarded one of its notifications while stopping, a Send of it to
\* this reader failed, its message hid the event, or its severity crossed the
\* channel's filter.
ReaderFeed ==
  INSTANCE IncidentFeed WITH
    Id <- Reader \X Id, feed <- shown, lost <- missed \cup (Reader \X lost),
    lossy <- TRUE, closed <- pc = "done" /\ note = None
ReadersSeeEpisodes == ReaderFeed!Spec

\* Channels that together take every severity there can be -- P1 to P3 with
\* diagnosis, none without -- leave no notification without an addressee,
\* however the LLM answers or fails and whichever channels cannot be used.
Severities == IF scenario.diagnosis THEN {"P1", "P2", "P3"} ELSE {""}
AllTaken == \A s \in Severities : \E i \in DOMAIN routes : D!Matches(routes[i], s)
AlwaysRouted == AllTaken /\ note # None => \E i \in DOMAIN routes : send[i] # "none"

\* Whatever requests fail and webhooks hang, and whenever the agent is told to
\* stop, no incident is stuck in the diagnoser: the channels do not hold up the
\* stages before them for ever.
PassedOn == (inHand # None) ~> (inHand = None)
=============================================================================
