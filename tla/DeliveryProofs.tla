--------------------------- MODULE DeliveryProofs ---------------------------
(***************************************************************************)
(* Theorems about Delivery for every set of configurations, whatever the   *)
(* windows, the timeout and the answers of the LLM may be.  The proofs are *)
(* compositional: Delivery implements Lifecycle, and so has whatever       *)
(* LifecycleProofs proves of the manager alone.                            *)
(***************************************************************************)
EXTENDS Delivery, TLAPS

P == INSTANCE LifecycleProofs WITH busy <- note # None

(***************************************************************************)
(* The inductive invariant, in parts.                                      *)
(***************************************************************************)
Asking == {"request", "wait", "retry", "refused"}

\* An incident has the severity the diagnoser gave it, and none without one.
GradedIncident == [id : Id, severity : Severities]

\* What the diagnoser has in hand, by stage.
HandMatchesStage ==
  /\ stage \in {"select", "send", "done"} \cup Asking
  /\ stage \in {"select", "done"} => inHand = None
  /\ stage \in Asking => inHand \in scenario.incidents
  /\ stage = "send" => inHand \in GradedIncident
  /\ stage # "select" => scenario.diagnosis

\* Wherever an incident is in the manager or the dispatcher, it is graded.
AllGraded ==
  /\ \A k \in 1..Len(inCh) : inCh[k] \in GradedIncident
  /\ \A id \in L!Tracked : tracked[id].inc \in GradedIncident
  /\ \A n \in held : n.inc \in GradedIncident
  /\ note # None => note.inc \in GradedIncident

\* Every matching channel, and no other, was given the notification in hand.
SendsMatch ==
  /\ routes = D!BuildNotifiers(scenario.channels)
  /\ note = None \/ note \in L!Notification
  /\ send \in [DOMAIN routes -> {"none", "sending", "refused", "returned"}]
  /\ \A i \in DOMAIN routes :
       send[i] # "none" <=> note # None /\ D!Matches(routes[i], note.inc.severity)
  /\ elapsed \in 0..Timeout + 1

StageInv ==
  /\ scenario \in Scenario
  /\ HandMatchesStage
  /\ AllGraded
  /\ SendsMatch

\* Channel i has yet to show its reader the notification in hand, one of id.
ToShow(i, id) == note # None /\ note.inc.id = id /\ send[i] \in {"sending", "refused"}

\* A reader who missed nothing of an ID was shown what the manager has sent of
\* it so far, as far as the channel's filter let it through; what a channel has
\* still to show continues that.
ReaderAgrees ==
  /\ shown \in [Reader \X Id -> {"none", "opened", "updated", "resolved"}]
  /\ missed \subseteq Reader \X Id
  /\ \A i \in Reader \ DOMAIN routes, id \in Id : shown[<<i, id>>] = "none"
  /\ \A i \in DOMAIN routes, id \in Id \ lost : <<i, id>> \notin missed =>
       IF ToShow(i, id)
       THEN /\ note.event = "opened" <=> ~L!Live(shown[<<i, id>>])
            /\ L!Live(note.event) => D!Matches(routes[i], openedAs[id])
       ELSE L!Live(shown[<<i, id>>]) <=>
              L!Live(feed[id]) /\ D!Matches(routes[i], openedAs[id])

NoteIsLast == note # None => note.event = feed[note.inc.id]
OpenedAsType == openedAs \in [Id -> Severity]

ReaderInv == ReaderAgrees /\ NoteIsLast /\ OpenedAsType
-----------------------------------------------------------------------------
(***************************************************************************)
(* What the assumptions say.                                               *)
(***************************************************************************)
LEMMA NoneIsNone ==
  /\ None \notin Incident
  /\ None \notin L!Notification
  /\ \A s \in Scenario : None \notin s.incidents
  BY DeliveryAssumption DEF DeliveryAssumption

LEMMA SeveritiesType == Severities \subseteq Severity
  BY DEF Severities, Severity

LEMMA GradedIsIncident == GradedIncident \subseteq Incident
  BY SeveritiesType DEF GradedIncident, Incident

\* Delivery and the proofs about the manager speak of the same manager.
LEMMA SameManager ==
  /\ L!LifecycleAssumption <=> P!LifecycleAssumption
  /\ L!Init <=> P!Init
  /\ [L!Next]_(L!vars) <=> [P!Next]_(P!vars)
  /\ L!IInv <=> P!IInv
  /\ L!IInv' <=> P!IInv'
<1>. USE DEF L!Entry, P!Entry, L!Status, P!Status, L!IdleCap, P!IdleCap,
             L!Notification, P!Notification, L!Event, P!Event, L!Tracked, P!Tracked,
             L!Resolved, P!Resolved
<1>1. L!LifecycleAssumption <=> P!LifecycleAssumption
  BY DEF L!LifecycleAssumption, P!LifecycleAssumption
<1>2. L!Init <=> P!Init
  BY DEF L!Init, P!Init
<1>3. [L!Next]_(L!vars) <=> [P!Next]_(P!vars)
  BY DEF L!vars, P!vars, L!Next, P!Next, L!Arrive, P!Arrive, L!CloseIn, P!CloseIn,
         L!Cancel, P!Cancel, L!Time, P!Time, L!Aged, P!Aged,
         L!DispatchReturns, P!DispatchReturns, L!ProcessIncident, P!ProcessIncident,
         L!OpenIncident, P!OpenIncident, L!SuppressUpdate, P!SuppressUpdate,
         L!UpdateIncident, P!UpdateIncident, L!TakeIncident, P!TakeIncident, L!Seen, P!Seen,
         L!CheckAutoResolve, P!CheckAutoResolve, L!Stale, P!Stale,
         L!InputClosed, P!InputClosed, L!ContextDone, P!ContextDone, L!ResolveAll, P!ResolveAll,
         L!EmitAborted, P!EmitAborted, L!ResolveAborted, P!ResolveAborted,
         L!SendHeld, P!SendHeld, L!Send, P!Send
<1>4. (L!IInv <=> P!IInv) /\ (L!IInv' <=> P!IInv')
  BY DEF L!IInv, P!IInv, L!TypeOK, P!TypeOK, L!FeedAgrees, P!FeedAgrees, L!Agrees, P!Agrees,
         L!Live, P!Live, L!HeldContinuesFeed, P!HeldContinuesFeed,
         L!HeldOncePerId, P!HeldOncePerId, L!PcMatches, P!PcMatches,
         L!EntryUnderItsId, P!EntryUnderItsId, L!TickBeforeOverdue, P!TickBeforeOverdue,
         L!LostOnlyCancelled, P!LostOnlyCancelled
<1>. QED
  BY <1>1, <1>2, <1>3, <1>4

LEMMA ManagerAssumption == P!LifecycleAssumption
  BY SameManager, DeliveryAssumption DEF DeliveryAssumption

(***************************************************************************)
(* The composition is one of managers: what surrounds it in Delivery does  *)
(* nothing that Lifecycle's environment may not do.                        *)
(***************************************************************************)
LEMMA ManagerStep ==
  ASSUME StageInv, [Next]_vars
  PROVE  [L!Next]_(L!vars)
<1>1. ASSUME NEW inc \in scenario.incidents, Take(inc) PROVE UNCHANGED L!vars
  BY <1>1 DEF Take, G!Take, manager, dispatcher, L!vars
<1>2. CASE Diagnose
  BY <1>2 DEF Diagnose, G!Diagnose, G!Answer, G!Retryable, G!WaitOver, G!RequestFails,
              G!WaitCancelled, manager, dispatcher, L!vars
<1>3. CASE PassOn
  <2>1. inHand \in Incident
    BY <1>3, GradedIsIncident DEF PassOn, G!Sent, StageInv, HandMatchesStage
  <2>. QED
    BY <1>3, <2>1 DEF PassOn, L!Next
<1>4. CASE DiagnoserReturns \/ InputEnds
  BY <1>4 DEF DiagnoserReturns, InputEnds, L!Next
<1>5. ASSUME NEW inc \in scenario.incidents, PassUngraded(inc) PROVE L!Next
  <2>1. [id |-> inc.id, severity |-> ""] \in Incident
    BY DeliveryAssumption DEF DeliveryAssumption, StageInv, Incident, Severity
  <2>. QED
    BY <1>5, <2>1 DEF PassUngraded, L!Next
<1>6. CASE ManagerTakes \/ Manage
  BY <1>6 DEF ManagerTakes, Manage, L!Next
<1>7. ASSUME NEW n \in held, HandOver(n) PROVE L!Next
  BY <1>7 DEF HandOver, L!Next, L!SendHeld
<1>8. ASSUME NEW i \in DOMAIN routes, NEW result \in {"ok", "failed", "aborted"},
             SendReturns(i, result)
      PROVE  UNCHANGED L!vars
  BY <1>8 DEF SendReturns, D!SendReturns, manager, L!vars
<1>9. CASE DispatchReturns \/ Cancel
  BY <1>9 DEF DispatchReturns, Cancel, L!Next
<1>10. CASE Time
  BY <1>10 DEF Time, D!Tick, manager, L!vars, L!Next
<1>11. CASE UNCHANGED vars
  BY <1>11 DEF vars, manager, dispatcher, L!vars
<1>. QED
  BY <1>1, <1>2, <1>3, <1>4, <1>5, <1>6, <1>7, <1>8, <1>9, <1>10, <1>11 DEF Next

LEMMA InitStageInv == Init => StageInv
<1>. SUFFICES ASSUME Init PROVE StageInv
  OBVIOUS
<1>1. HandMatchesStage
  BY DEF Init, G!Init, HandMatchesStage, Asking
<1>2. AllGraded
  <2>1. Len(inCh) = 0 /\ L!Tracked = {} /\ held = {} /\ note = None
    BY DEF Init, L!Init, D!Init, L!Tracked
  <2>. QED
    BY <2>1 DEF AllGraded
<1>3. SendsMatch
  <2>1. 0 \in 0..Timeout + 1
    BY DeliveryAssumption DEF DeliveryAssumption
  <2>2. note = None /\ elapsed = 0 /\ routes = D!BuildNotifiers(scenario.channels)
    BY DEF Init, D!Init
  <2>3. send = [i \in DOMAIN routes |-> "none"]
    BY DEF Init, D!Init
  <2>. QED
    BY <2>1, <2>2, <2>3 DEF SendsMatch
<1>. QED
  BY <1>1, <1>2, <1>3 DEF Init, StageInv

(***************************************************************************)
(* The diagnoser.                                                          *)
(***************************************************************************)
LEMMA HandKept ==
  ASSUME HandMatchesStage, UNCHANGED <<scenario, stage, inHand>>
  PROVE  HandMatchesStage'
  BY DEF HandMatchesStage, Asking, GradedIncident, Severities

\* Whatever the LLM answers and whatever fails, an incident leaves the diagnoser
\* with one of the three severities.
LEMMA DiagnosisGrades ==
  ASSUME NEW inc, NEW reply, inc.id \in Id, scenario.diagnosis
  PROVE  /\ G!Graded(inc, G!ParsedSeverity(reply)) \in GradedIncident
         /\ G!Graded(inc, G!HeuristicSeverity(inc)) \in GradedIncident
<1>1. G!ParsedSeverity(reply) \in {"P1", "P2", "P3"}
  BY DEF G!ParsedSeverity
<1>2. G!HeuristicSeverity(inc) \in {"P1", "P2", "P3"}
  BY DEF G!HeuristicSeverity
<1>. QED
  BY <1>1, <1>2 DEF G!Graded, GradedIncident, Severities

LEMMA DiagnoseKeepsHand ==
  ASSUME StageInv, Diagnose
  PROVE  HandMatchesStage'
<1>. USE DEF StageInv, HandMatchesStage, Asking
<1>1. scenario' = scenario
  BY DEF Diagnose
<1>2. stage \in Asking /\ scenario.diagnosis
  BY DEF Diagnose, G!Diagnose, G!Answer, G!Retryable, G!WaitOver, G!RequestFails, G!WaitCancelled
<1>3. inHand.id \in Id
  BY <1>2, DeliveryAssumption DEF DeliveryAssumption
<1>4. CASE G!Answer
  <2>1. PICK reply \in Reply : inHand' = G!Graded(inHand, G!ParsedSeverity(reply))
    BY <1>4 DEF G!Answer
  <2>2. inHand' \in GradedIncident
    BY <1>2, <1>3, <2>1, DiagnosisGrades
  <2>. QED
    BY <1>1, <1>2, <1>4, <2>2 DEF G!Answer, GradedIncident, Severities
<1>5. CASE G!Retryable \/ G!WaitOver
  BY <1>1, <1>2, <1>5 DEF G!Retryable, G!WaitOver, G!Started
<1>6. CASE G!RequestFails \/ G!WaitCancelled
  <2>1. inHand' \in GradedIncident
    BY <1>2, <1>3, <1>6, DiagnosisGrades DEF G!RequestFails, G!WaitCancelled, G!Failed
  <2>. QED
    BY <1>1, <1>2, <1>6, <2>1 DEF G!RequestFails, G!WaitCancelled, G!Failed, GradedIncident, Severities
<1>. QED
  BY <1>4, <1>5, <1>6 DEF Diagnose, G!Diagnose

(***************************************************************************)
(* The manager.                                                            *)
(***************************************************************************)
LEMMA GradedKept ==
  ASSUME AllGraded, UNCHANGED <<scenario, inCh, tracked, held, note>>
  PROVE  AllGraded'
  BY DEF AllGraded, GradedIncident, Severities, L!Tracked

LEMMA ArriveGraded ==
  ASSUME AllGraded, L!TypeOK, UNCHANGED <<scenario, note>>,
         NEW inc \in GradedIncident, L!Arrive(inc)
  PROVE  AllGraded'
<1>1. inCh' = Append(inCh, inc) /\ inCh \in Seq(Incident) /\ inc \in Incident
  BY GradedIsIncident DEF L!Arrive, L!TypeOK
<1>2. GradedIncident' = GradedIncident
  BY DEF GradedIncident, Severities
<1>3. \A k \in 1..Len(inCh') : inCh'[k] \in GradedIncident
  BY <1>1 DEF AllGraded
<1>4. UNCHANGED <<tracked, held>>
  BY DEF L!Arrive
<1>. QED
  BY <1>2, <1>3, <1>4 DEF AllGraded, L!Tracked, L!Arrive

\* The manager makes notifications only of incidents it was given.
LEMMA ManageGraded ==
  ASSUME AllGraded, L!TypeOK, L!TypeOK', UNCHANGED <<scenario, note>>,
         \/ L!ProcessIncident \/ L!CheckAutoResolve
         \/ L!InputClosed \/ L!ContextDone \/ L!EmitAborted \/ L!ResolveAborted
  PROVE  AllGraded'
<1>1. GradedIncident' = GradedIncident
  BY DEF GradedIncident, Severities
<1>2. CASE L!ProcessIncident
  <2>1. L!TakeIncident
    BY <1>2 DEF L!ProcessIncident, L!OpenIncident, L!SuppressUpdate, L!UpdateIncident
  <2>2. PICK inc \in GradedIncident : inc = Head(inCh)
    BY <2>1 DEF L!TakeIncident, L!TypeOK, AllGraded
  <2>3. inc \in Incident /\ inc.id \in Id
    BY <2>2, GradedIsIncident DEF GradedIncident
  <2>4. \A k \in 1..Len(inCh') : inCh'[k] \in GradedIncident
    BY <2>1 DEF L!TakeIncident, L!TypeOK, AllGraded
  <2>5. \A id \in L!Tracked' : id # inc.id => id \in L!Tracked /\ tracked'[id] = tracked[id]
    BY <1>2, <2>2, <2>3 DEF L!ProcessIncident, L!OpenIncident, L!SuppressUpdate,
       L!UpdateIncident, L!Seen, L!TypeOK, L!Tracked
  <2>6. tracked'[inc.id].inc = inc
    BY <1>2, <2>2, <2>3 DEF L!ProcessIncident, L!OpenIncident, L!SuppressUpdate,
       L!UpdateIncident, L!Seen, L!TypeOK
  <2>7. \A n \in held' : n.inc \in GradedIncident
    BY <1>2, <2>2 DEF L!ProcessIncident, L!OpenIncident, L!SuppressUpdate, L!UpdateIncident, AllGraded
  <2>. QED
    BY <1>1, <2>4, <2>5, <2>6, <2>7 DEF AllGraded
<1>3. ASSUME NEW ids \in SUBSET L!Tracked
      PROVE  \A n \in L!Resolved(ids) : n.inc \in GradedIncident
  BY DEF L!Resolved, AllGraded
<1>4. CASE L!CheckAutoResolve
  <2>1. L!Tracked' \subseteq L!Tracked /\ \A id \in L!Tracked' : tracked'[id] = tracked[id]
    BY <1>4 DEF L!CheckAutoResolve, L!Tracked
  <2>2. \A n \in held' : n.inc \in GradedIncident
    BY <1>3, <1>4 DEF L!CheckAutoResolve, L!Stale
  <2>. QED
    BY <1>1, <1>4, <2>1, <2>2 DEF L!CheckAutoResolve, AllGraded
<1>5. CASE L!ResolveAll
  <2>1. L!Tracked' = {}
    BY <1>5 DEF L!ResolveAll, L!Tracked
  <2>2. \A n \in held' : n.inc \in GradedIncident
    BY <1>3, <1>5 DEF L!ResolveAll
  <2>. QED
    BY <1>1, <1>5, <2>1, <2>2 DEF L!ResolveAll, AllGraded
<1>6. CASE L!ResolveAborted
  BY <1>1, <1>6 DEF L!ResolveAborted, AllGraded, L!Tracked
<1>. QED
  BY <1>2, <1>4, <1>5, <1>6 DEF L!InputClosed, L!ContextDone, L!EmitAborted

LEMMA SendGraded ==
  ASSUME AllGraded, UNCHANGED scenario, NEW n \in held, L!Send(n), note' = n
  PROVE  AllGraded'
  BY DEF AllGraded, GradedIncident, Severities, L!Send, L!Tracked

\* An entry keeps its incident while time passes.
LEMMA TimeGraded ==
  ASSUME AllGraded, L!TypeOK, UNCHANGED <<scenario, note>>, L!Time
  PROVE  AllGraded'
<1>1. \A id \in L!Tracked' : id \in L!Tracked /\ tracked'[id].inc = tracked[id].inc
  BY DEF L!Time, L!Aged, L!Tracked, L!TypeOK
<1>. QED
  BY <1>1 DEF L!Time, AllGraded, GradedIncident, Severities

(***************************************************************************)
(* The dispatcher.                                                         *)
(***************************************************************************)
LEMMA SendsKept ==
  ASSUME SendsMatch, UNCHANGED <<scenario, dispatcher>>
  PROVE  SendsMatch'
  BY DEF SendsMatch, dispatcher, L!Notification, L!Event, D!Matches

LEMMA DispatchMatches ==
  ASSUME SendsMatch, UNCHANGED scenario, NEW n \in L!Notification, D!Dispatch(n)
  PROVE  SendsMatch'
<1>1. routes' = routes /\ note' = n /\ n # None /\ elapsed' = 0
  BY NoneIsNone DEF D!Dispatch
<1>2. \A i \in DOMAIN routes :
        send'[i] = IF D!Matches(routes[i], n.inc.severity) THEN D!Started(routes[i].kind) ELSE "none"
  BY DEF D!Dispatch
<1>3. \A kind : D!Started(kind) \in {"refused", "sending"}
  BY DEF D!Started
<1>4. send' \in [DOMAIN routes -> {"none", "sending", "refused", "returned"}]
  BY <1>3 DEF D!Dispatch
<1>5. 0 \in 0..Timeout + 1
  BY DeliveryAssumption DEF DeliveryAssumption
<1>6. \A i \in DOMAIN routes : send'[i] # "none" <=> D!Matches(routes[i], n.inc.severity)
  BY <1>2, <1>3
<1>. QED
  BY <1>1, <1>4, <1>5, <1>6 DEF SendsMatch, L!Notification, L!Event, D!Matches

LEMMA SendReturnsMatches ==
  ASSUME SendsMatch, UNCHANGED scenario, NEW i, NEW result, D!SendReturns(i, result)
  PROVE  SendsMatch'
<1>1. UNCHANGED <<routes, note, elapsed>> /\ i \in DOMAIN routes /\ send[i] # "none"
  BY DEF D!SendReturns, D!Sending
<1>2. send' \in [DOMAIN routes -> {"none", "sending", "refused", "returned"}]
  BY <1>1 DEF D!SendReturns, SendsMatch
<1>3. \A j \in DOMAIN routes : send'[j] = "none" <=> send[j] = "none"
  BY <1>1 DEF D!SendReturns, SendsMatch
<1>. QED
  BY <1>1, <1>2, <1>3 DEF SendsMatch, L!Notification, L!Event, D!Matches

LEMMA DispatchReturnsMatches ==
  ASSUME SendsMatch, UNCHANGED scenario, D!DispatchReturns
  PROVE  SendsMatch'
<1>1. 0 \in 0..Timeout + 1
  BY DeliveryAssumption DEF DeliveryAssumption
<1>. QED
  BY <1>1 DEF D!DispatchReturns, SendsMatch, L!Notification, L!Event, D!Matches

LEMMA TickMatches ==
  ASSUME SendsMatch, UNCHANGED scenario, D!Tick
  PROVE  SendsMatch'
<1>1. elapsed' \in 0..Timeout + 1
  BY DeliveryAssumption DEF DeliveryAssumption, D!Tick, SendsMatch
<1>. QED
  BY <1>1 DEF D!Tick, SendsMatch, L!Notification, L!Event, D!Matches

(***************************************************************************)
(* Every step keeps the invariants of the stages and of the manager.       *)
(***************************************************************************)
SafetyInv == StageInv /\ L!IInv

LEMMA StageStep ==
  ASSUME StageInv, L!TypeOK, L!TypeOK', [Next]_vars
  PROVE  StageInv'
<1>. USE DEF StageInv
<1>1. ASSUME NEW inc \in scenario.incidents, Take(inc) PROVE StageInv'
  <2>1. HandMatchesStage'
    BY <1>1 DEF Take, G!Take, G!Started, HandMatchesStage, Asking
  <2>. QED
    BY <1>1, <2>1, GradedKept, SendsKept DEF Take, manager, dispatcher
<1>2. CASE Diagnose
  BY <1>2, DiagnoseKeepsHand, GradedKept, SendsKept DEF Diagnose, manager, dispatcher
<1>3. CASE PassOn
  <2>1. HandMatchesStage'
    BY <1>3 DEF PassOn, G!Sent, HandMatchesStage, Asking
  <2>2. inHand \in GradedIncident
    BY <1>3 DEF PassOn, G!Sent, HandMatchesStage
  <2>. QED
    BY <1>3, <2>1, <2>2, ArriveGraded, SendsKept DEF PassOn, dispatcher
<1>4. CASE DiagnoserReturns
  <2>1. HandMatchesStage'
    BY <1>4 DEF DiagnoserReturns, G!Return, HandMatchesStage, Asking
  <2>. QED
    BY <1>4, <2>1, GradedKept, SendsKept DEF DiagnoserReturns, L!CloseIn, dispatcher
<1>5. ASSUME NEW inc \in scenario.incidents, PassUngraded(inc) PROVE StageInv'
  <2>1. [id |-> inc.id, severity |-> ""] \in GradedIncident
    BY <1>5, DeliveryAssumption DEF DeliveryAssumption, PassUngraded, GradedIncident, Severities
  <2>. QED
    BY <1>5, <2>1, HandKept, ArriveGraded, SendsKept DEF PassUngraded, diagnoser, dispatcher
<1>6. CASE InputEnds
  BY <1>6, HandKept, GradedKept, SendsKept DEF InputEnds, L!CloseIn, diagnoser, dispatcher
<1>7. CASE ManagerTakes \/ Manage
  BY <1>7, HandKept, ManageGraded, SendsKept DEF ManagerTakes, Manage, diagnoser, dispatcher
<1>8. ASSUME NEW n \in held, HandOver(n) PROVE StageInv'
  <2>1. n \in L!Notification
    BY DEF L!TypeOK
  <2>2. AllGraded'
    BY <1>8, SendGraded DEF HandOver, D!Dispatch
  <2>3. SendsMatch'
    BY <1>8, <2>1, DispatchMatches DEF HandOver
  <2>. QED
    BY <1>8, <2>2, <2>3, HandKept DEF HandOver, diagnoser
<1>9. ASSUME NEW i \in DOMAIN routes, NEW result \in {"ok", "failed", "aborted"},
             SendReturns(i, result)
      PROVE  StageInv'
  <2>1. SendsMatch' /\ UNCHANGED note
    BY <1>9, SendReturnsMatches DEF SendReturns, D!SendReturns
  <2>. QED
    BY <1>9, <2>1, HandKept, GradedKept DEF SendReturns, diagnoser, manager
<1>10. CASE DispatchReturns
  <2>1. SendsMatch' /\ note' = None
    BY <1>10, DispatchReturnsMatches DEF DispatchReturns, D!DispatchReturns
  <2>2. AllGraded'
    BY <1>10, <2>1 DEF DispatchReturns, L!DispatchReturns, AllGraded, GradedIncident, Severities, L!Tracked
  <2>. QED
    BY <1>10, <2>1, <2>2, HandKept DEF DispatchReturns, diagnoser
<1>11. CASE Cancel
  BY <1>11, HandKept, GradedKept, SendsKept DEF Cancel, L!Cancel, diagnoser, dispatcher
<1>12. CASE Time
  <2>1. SendsMatch' /\ UNCHANGED note
    BY <1>12, TickMatches DEF Time, D!Tick
  <2>2. AllGraded'
    BY <1>12, <2>1, TimeGraded, GradedKept DEF Time, manager
  <2>. QED
    BY <1>12, <2>1, <2>2, HandKept DEF Time, diagnoser
<1>13. CASE UNCHANGED vars
  <2>1. UNCHANGED <<scenario, stage, inHand, inCh, tracked, held, note, dispatcher>>
    BY <1>13 DEF vars, diagnoser, manager, dispatcher
  <2>. QED
    BY <2>1, HandKept, GradedKept, SendsKept
<1>. HIDE DEF StageInv
<1>. QED
  BY <1>1, <1>2, <1>3, <1>4, <1>5, <1>6, <1>7, <1>8, <1>9, <1>10, <1>11, <1>12, <1>13 DEF Next

LEMMA InitSafetyInv == Init => SafetyInv
  BY InitStageInv, P!InitIInv, SameManager, ManagerAssumption DEF Init, SafetyInv

LEMMA SafetyStep ==
  ASSUME SafetyInv, [Next]_vars
  PROVE  SafetyInv'
<1>1. [P!Next]_(P!vars) /\ P!IInv
  BY ManagerStep, SameManager DEF SafetyInv
<1>2. L!IInv'
  BY <1>1, P!InvStep, SameManager, ManagerAssumption
<1>3. StageInv'
  BY <1>2, StageStep DEF SafetyInv, L!IInv
<1>. QED
  BY <1>2, <1>3 DEF SafetyInv

(***************************************************************************)
(* What the readers see.                                                   *)
(***************************************************************************)
Inv == SafetyInv /\ ReaderInv

\* Every step but a handover and the return of a Send.
LEMMA QuietStep ==
  ASSUME [Next]_vars,
         ~\E n \in held : HandOver(n),
         ~\E i \in DOMAIN routes : \E result \in {"ok", "failed", "aborted"} : SendReturns(i, result)
  PROVE  /\ UNCHANGED <<history, feed, routes>>
         /\ lost \subseteq lost'
         /\ UNCHANGED <<note, send>> \/ D!DispatchReturns
<1>1. CASE \E inc \in scenario.incidents : Take(inc) \/ PassUngraded(inc)
  BY <1>1 DEF Take, PassUngraded, L!Arrive, manager, dispatcher
<1>2. CASE Diagnose \/ PassOn \/ DiagnoserReturns \/ InputEnds
  BY <1>2 DEF Diagnose, PassOn, DiagnoserReturns, InputEnds, L!Arrive, L!CloseIn, manager, dispatcher
<1>3. CASE ManagerTakes
  BY <1>3 DEF ManagerTakes, L!ProcessIncident, L!OpenIncident, L!SuppressUpdate, L!UpdateIncident,
              L!TakeIncident, dispatcher
<1>4. CASE Manage
  BY <1>4 DEF Manage, L!CheckAutoResolve, L!InputClosed, L!ContextDone, L!EmitAborted,
              L!ResolveAborted, L!ResolveAll, dispatcher
<1>5. CASE DispatchReturns
  BY <1>5 DEF DispatchReturns, L!DispatchReturns, D!DispatchReturns
<1>6. CASE Cancel
  BY <1>6 DEF Cancel, L!Cancel, dispatcher
<1>7. CASE Time
  BY <1>7 DEF Time, D!Tick, L!Time, manager
<1>8. CASE UNCHANGED vars
  BY <1>8 DEF vars, manager, dispatcher
<1>. QED
  BY <1>1, <1>2, <1>3, <1>4, <1>5, <1>6, <1>7, <1>8 DEF Next

LEMMA QuietKeepsReaders ==
  ASSUME Inv, [Next]_vars,
         ~\E n \in held : HandOver(n),
         ~\E i \in DOMAIN routes : \E result \in {"ok", "failed", "aborted"} : SendReturns(i, result)
  PROVE  ReaderInv'
<1>1. /\ UNCHANGED <<shown, missed, openedAs, feed, routes>>
      /\ lost \subseteq lost'
      /\ UNCHANGED <<note, send>> \/ D!DispatchReturns
  BY QuietStep DEF history
<1>2. \A i \in DOMAIN routes, id \in Id : ToShow(i, id)' <=> ToShow(i, id)
  BY <1>1 DEF ToShow, D!DispatchReturns, D!Sending
<1>3. note' # None => note' = note
  BY <1>1 DEF D!DispatchReturns
<1>4. ReaderAgrees
  BY DEF Inv, ReaderInv
<1>5. ReaderAgrees'
  <2>. SUFFICES ASSUME NEW i \in DOMAIN routes, NEW id \in Id \ lost', <<i, id>> \notin missed
                PROVE  IF ToShow(i, id)'
                       THEN /\ note'.event = "opened" <=> ~L!Live(shown[<<i, id>>])
                            /\ L!Live(note'.event) => D!Matches(routes[i], openedAs[id])
                       ELSE L!Live(shown[<<i, id>>]) <=>
                              L!Live(feed[id]) /\ D!Matches(routes[i], openedAs[id])
    BY <1>1, <1>4 DEF ReaderAgrees, L!Live, D!Matches
  <2>1. CASE ToShow(i, id)
    BY <1>1, <1>2, <1>3, <1>4, <2>1 DEF ReaderAgrees, ToShow
  <2>2. CASE ~ToShow(i, id)
    BY <1>1, <1>2, <1>4, <2>2 DEF ReaderAgrees
  <2>. QED
    BY <2>1, <2>2
<1>. QED
  BY <1>1, <1>3, <1>5 DEF Inv, ReaderInv, NoteIsLast, OpenedAsType

\* A handover: the event continues the feed, and the feed is what an unfiltered
\* reader saw; a channel the severity crosses is set down as one that missed it.
LEMMA HandOverKeepsReaders ==
  ASSUME Inv, NEW n \in held, HandOver(n)
  PROVE  ReaderInv'
<1>. DEFINE of == n.inc.id
            graded == n.inc.severity
<1>1. /\ n \in L!Notification /\ n.inc \in Incident /\ n.event \in L!Event
      /\ of \in Id /\ graded \in Severity /\ n # None
  BY NoneIsNone DEF Inv, SafetyInv, L!IInv, L!TypeOK, L!Notification, Incident
<1>2. /\ UNCHANGED <<shown, lost, routes>>
      /\ note = None /\ note' = n
      /\ missed' = missed \cup (Crossed(n) \X {of})
  BY DEF HandOver, D!Dispatch, L!Send
<1>3. \A id \in Id : feed'[id] = IF id = of THEN n.event ELSE feed[id]
  BY <1>1 DEF HandOver, L!Send, Inv, SafetyInv, L!IInv, L!TypeOK
<1>4. \A id \in Id : openedAs'[id] = IF id # of \/ n.event = "updated" THEN openedAs[id]
                                     ELSE IF n.event = "opened" THEN graded ELSE ""
  BY <1>1 DEF HandOver, Inv, ReaderInv, OpenedAsType
<1>5. \A i \in DOMAIN routes, id \in Id :
         ToShow(i, id)' <=> id = of /\ D!Matches(routes[i], graded)
  <2>1. \A kind : D!Started(kind) \in {"refused", "sending"}
    BY DEF D!Started
  <2>2. \A i \in DOMAIN routes :
          send'[i] = IF D!Matches(routes[i], graded) THEN D!Started(routes[i].kind) ELSE "none"
    BY DEF HandOver, D!Dispatch
  <2>. QED
    BY <1>1, <1>2, <2>1, <2>2 DEF ToShow
<1>6. ReaderAgrees /\ ~\E i \in DOMAIN routes, id \in Id : ToShow(i, id)
  BY <1>2 DEF Inv, ReaderInv, ToShow
<1>. HIDE DEF of, graded
<1>7. OpenedAsType'
  BY <1>1 DEF HandOver, Inv, ReaderInv, OpenedAsType, Severity, of, graded
<1>8. NoteIsLast'
  BY <1>1, <1>2, <1>3 DEF NoteIsLast, of
<1>9. ReaderAgrees'
  <2>1. missed' \subseteq Reader \X Id
    BY <1>1, <1>2, <1>6, DeliveryAssumption
    DEF ReaderAgrees, Crossed, DeliveryAssumption, Inv, SafetyInv, StageInv, SendsMatch
  <2>. SUFFICES ASSUME NEW i \in DOMAIN routes, NEW id \in Id \ lost, <<i, id>> \notin missed'
                PROVE  IF ToShow(i, id)'
                       THEN /\ n.event = "opened" <=> ~L!Live(shown[<<i, id>>])
                            /\ L!Live(n.event) => D!Matches(routes[i], openedAs'[id])
                       ELSE L!Live(shown[<<i, id>>]) <=>
                              L!Live(feed'[id]) /\ D!Matches(routes[i], openedAs'[id])
    BY <1>2, <1>6, <2>1 DEF ReaderAgrees, L!Live, D!Matches
  <2>2. L!Live(shown[<<i, id>>]) <=> L!Live(feed[id]) /\ D!Matches(routes[i], openedAs[id])
    BY <1>2, <1>6 DEF ReaderAgrees
  <2>3. CASE id # of
    BY <1>3, <1>4, <1>5, <2>2, <2>3
  <2>4. CASE id = of
    <3>1. n.event = "opened" <=> ~L!Live(feed[id])
      BY <2>4 DEF Inv, SafetyInv, L!IInv, L!HeldContinuesFeed, of
    <3>2. n.event # "opened" => (D!Matches(routes[i], graded) <=> D!Matches(routes[i], openedAs[id]))
      BY <1>1, <1>2, <2>4 DEF Crossed, of, graded, D!Matches
    <3>3. /\ feed'[id] = n.event
          /\ n.event = "opened" => openedAs'[id] = graded
          /\ n.event = "updated" => openedAs'[id] = openedAs[id]
      BY <1>3, <1>4, <2>4
    <3>4. n.event \in {"opened", "updated", "resolved"}
      BY <1>1 DEF L!Event
    <3>5. CASE n.event = "opened"
      BY <1>5, <2>2, <2>4, <3>1, <3>3, <3>5 DEF L!Live
    <3>6. CASE n.event = "updated"
      BY <1>5, <2>2, <2>4, <3>1, <3>2, <3>3, <3>6 DEF L!Live
    <3>7. CASE n.event = "resolved"
      BY <1>5, <2>2, <2>4, <3>1, <3>2, <3>3, <3>7 DEF L!Live
    <3>. QED
      BY <3>4, <3>5, <3>6, <3>7
  <2>. QED
    BY <2>3, <2>4
<1>. QED
  BY <1>7, <1>8, <1>9 DEF ReaderInv

\* The return of a Send: its reader is shown the last event, or missed one.
LEMMA SendReturnsKeepsReaders ==
  ASSUME Inv, NEW i \in DOMAIN routes, NEW result \in {"ok", "failed", "aborted"},
         SendReturns(i, result)
  PROVE  ReaderInv'
<1>. DEFINE about == <<i, note.inc.id>>
<1>1. /\ UNCHANGED <<note, routes, feed, lost, openedAs>>
      /\ send[i] \in {"sending", "refused"}
      /\ send' = [send EXCEPT ![i] = "returned"]
  BY DEF SendReturns, D!SendReturns, D!Sending, manager
<1>2. /\ note # None /\ note \in L!Notification
      /\ send \in [DOMAIN routes -> {"none", "sending", "refused", "returned"}]
      /\ i \in Reader
  BY <1>1, DeliveryAssumption DEF DeliveryAssumption, Inv, SafetyInv, StageInv, SendsMatch
<1>3. note.inc.id \in Id /\ note.event \in L!Event
  BY <1>2 DEF L!Notification, Incident
<1>4. ReaderAgrees /\ note.event = feed[note.inc.id]
  BY <1>2 DEF Inv, ReaderInv, NoteIsLast
<1>5. \A j \in DOMAIN routes, id \in Id :
        ToShow(j, id)' <=> ToShow(j, id) /\ <<j, id>> # about
  BY <1>1, <1>2 DEF ToShow
<1>6. \/ about \in missed' /\ shown' = shown
      \/ shown' = [shown EXCEPT ![about] = note.event]
  <2>1. CASE UNCHANGED shown
    BY <2>1 DEF SendReturns
  <2>2. CASE UNCHANGED missed
    BY <1>4, <2>2 DEF SendReturns, ReaderAgrees
  <2>. QED
    BY <2>1, <2>2 DEF SendReturns
<1>7. /\ missed \subseteq missed' /\ missed' \subseteq Reader \X Id
      /\ about \in Reader \X Id
  BY <1>2, <1>3, <1>4 DEF SendReturns, ReaderAgrees
<1>8. /\ shown' \in [Reader \X Id -> {"none", "opened", "updated", "resolved"}]
      /\ \A x \in Reader \X Id : x # about => shown'[x] = shown[x]
      /\ about \in missed' \/ shown'[about] = note.event
  BY <1>3, <1>4, <1>6, <1>7 DEF ReaderAgrees, L!Event
<1>. HIDE DEF about
<1>9. ReaderAgrees'
  <2>1. \A j \in Reader \ DOMAIN routes, id \in Id : shown'[<<j, id>>] = "none"
    BY <1>4, <1>8 DEF ReaderAgrees, about
  <2>. SUFFICES ASSUME NEW j \in DOMAIN routes, NEW id \in Id \ lost, <<j, id>> \notin missed'
                PROVE  IF ToShow(j, id)'
                       THEN /\ note.event = "opened" <=> ~L!Live(shown'[<<j, id>>])
                            /\ L!Live(note.event) => D!Matches(routes[j], openedAs[id])
                       ELSE L!Live(shown'[<<j, id>>]) <=>
                              L!Live(feed[id]) /\ D!Matches(routes[j], openedAs[id])
    BY <1>1, <1>7, <1>8, <2>1 DEF ReaderAgrees, L!Live, D!Matches
  <2>2. j \in Reader
    BY DeliveryAssumption DEF DeliveryAssumption, Inv, SafetyInv, StageInv, SendsMatch
  <2>3. CASE <<j, id>> = about
    <3>1. ToShow(j, id) /\ id = note.inc.id
      BY <1>1, <1>2, <2>3 DEF ToShow, about
    <3>2. /\ shown'[<<j, id>>] = feed[id] /\ feed[id] = note.event
          /\ L!Live(note.event) => D!Matches(routes[j], openedAs[id])
      BY <1>4, <1>7, <1>8, <2>3, <3>1 DEF ReaderAgrees
    <3>. QED
      BY <1>5, <2>3, <3>2
  <2>4. CASE <<j, id>> # about
    BY <1>4, <1>5, <1>7, <1>8, <2>2, <2>4 DEF ReaderAgrees
  <2>. QED
    BY <2>3, <2>4
<1>. QED
  BY <1>1, <1>9 DEF Inv, ReaderInv, NoteIsLast, OpenedAsType

LEMMA InitInv == Init => Inv
<1>. SUFFICES ASSUME Init PROVE ReaderInv
  BY InitSafetyInv DEF Inv
<1>1. /\ note = None
      /\ shown = [about \in Reader \X Id |-> "none"]
      /\ missed = {} /\ lost = {}
      /\ feed = [id \in Id |-> "none"]
      /\ openedAs = [id \in Id |-> ""]
  BY DEF Init, D!Init, L!Init
<1>2. DOMAIN routes \subseteq Reader
  BY DeliveryAssumption DEF DeliveryAssumption, Init, D!Init
<1>3. \A i \in Reader, id \in Id : shown[<<i, id>>] = "none"
  BY <1>1
<1>4. ReaderAgrees
  BY <1>1, <1>2, <1>3 DEF ReaderAgrees, ToShow, L!Live
<1>5. OpenedAsType
  BY <1>1 DEF OpenedAsType, Severity
<1>. QED
  BY <1>1, <1>4, <1>5 DEF ReaderInv, NoteIsLast

LEMMA InvStep ==
  ASSUME Inv, [Next]_vars
  PROVE  Inv'
<1>1. SafetyInv'
  BY SafetyStep DEF Inv
<1>2. ReaderInv'
  BY QuietKeepsReaders, HandOverKeepsReaders, SendReturnsKeepsReaders
<1>. QED
  BY <1>1, <1>2 DEF Inv

\* The inductive invariant of the composition: every incident is graded once it
\* leaves the diagnoser, a notification in hand is with exactly the channels
\* whose filter takes it, the manager's invariant holds among these stages, and
\* a reader's view agrees with what the manager sent.
THEOREM Invariance == Spec => []Inv
  BY InitInv, InvStep, PTL DEF Spec

\* The composition is one of managers: everything LifecycleProofs shows of the
\* manager in any environment holds between this diagnoser and this dispatcher.
THEOREM ImplementsManager == Spec => L!Spec
<1>1. Init => L!Init
  BY DEF Init
<1>2. Inv /\ [Next]_vars => [L!Next]_(L!vars)
  BY ManagerStep DEF Inv, SafetyInv
<1>. QED
  BY <1>1, <1>2, Invariance, PTL DEF Spec, L!Spec

\* Type correctness of the composition, and the diagnoser has an incident in
\* hand exactly in the stages that need one.
THEOREM TypeCorrect == Spec => []TypeOK
<1>1. Inv => TypeOK
  <2>. SUFFICES ASSUME Inv PROVE TypeOK
    OBVIOUS
  <2>. USE DEF Inv, SafetyInv, StageInv
  <2>1. stage \in {"select", "done"} <=> inHand = None
    BY NoneIsNone, GradedIsIncident DEF HandMatchesStage, Asking
  <2>2. inHand = None \/ inHand \in scenario.incidents \/ inHand \in Incident
    BY GradedIsIncident DEF HandMatchesStage, Asking
  <2>. QED
    BY <2>1, <2>2 DEF TypeOK, L!IInv, SendsMatch, ReaderInv, ReaderAgrees
<1>. QED
  BY <1>1, Invariance, PTL

\* Channels that together take every severity leave no notification without an
\* addressee (diagnosis/llm.go, parseSeverity; diagnosis/diagnoser.go,
\* heuristicSeverity; notify/notifier.go, matches).
THEOREM Routed == Spec => []AlwaysRouted
<1>1. Inv => AlwaysRouted
  <2>. SUFFICES ASSUME Inv, AllTaken, note # None
                PROVE  \E i \in DOMAIN routes : send[i] # "none"
    BY DEF AlwaysRouted
  <2>1. note.inc.severity \in Severities
    BY DEF Inv, SafetyInv, StageInv, AllGraded, GradedIncident
  <2>2. PICK i \in DOMAIN routes : D!Matches(routes[i], note.inc.severity)
    BY <2>1 DEF AllTaken
  <2>. QED
    BY <2>2 DEF Inv, SafetyInv, StageInv, SendsMatch
<1>. QED
  BY <1>1, Invariance, PTL

(***************************************************************************)
(* The composition implements a feed for every reader.                     *)
(***************************************************************************)
Closed == pc = "done" /\ note = None
NoneOpen ==
  \A about \in (Reader \X Id) \ (missed \cup (Reader \X lost)) : ~L!Live(shown[about])

\* When the manager is done and its last notification dispatched, no reader who
\* missed nothing is left with an open incident.
LEMMA NoneLeftOpen == Inv /\ Closed => NoneOpen
<1>. SUFFICES ASSUME Inv, Closed, NEW i \in Reader, NEW id \in Id \ lost, <<i, id>> \notin missed
              PROVE  ~L!Live(shown[<<i, id>>])
  BY DEF NoneOpen
<1>1. ~L!Live(feed[id])
  BY DEF Inv, SafetyInv, L!IInv, L!PcMatches, L!FeedAgrees, L!Agrees, L!Tracked, Closed
<1>. QED
  BY <1>1 DEF Inv, ReaderInv, ReaderAgrees, ToShow, Closed, L!Live

LEMMA NoneLeftOpenNext == (Inv /\ Closed => NoneOpen)'
  BY NoneLeftOpen, PTL

LEMMA ClosedStays ==
  ASSUME Inv, [Next]_vars, Closed
  PROVE  Closed'
<1>1. ~\E n \in held : HandOver(n)
  BY DEF Inv, SafetyInv, L!IInv, L!PcMatches, Closed
<1>2. ~\E i \in DOMAIN routes : \E result \in {"ok", "failed", "aborted"} : SendReturns(i, result)
  BY DEF Inv, SafetyInv, StageInv, SendsMatch, SendReturns, D!SendReturns, D!Sending, Closed
<1>3. note' = None
  BY <1>1, <1>2, QuietStep DEF D!DispatchReturns, Closed
<1>4. [L!Next]_(L!vars) /\ held = {}
  BY ManagerStep DEF Inv, SafetyInv, L!IInv, L!PcMatches, Closed
<1>5. pc' = "done"
  BY <1>4 DEF Closed, L!vars, L!Next, L!Arrive, L!CloseIn, L!Cancel, L!Time, L!DispatchReturns,
     L!ProcessIncident, L!OpenIncident, L!SuppressUpdate, L!UpdateIncident, L!TakeIncident,
     L!CheckAutoResolve, L!InputClosed, L!ContextDone, L!EmitAborted, L!ResolveAborted, L!SendHeld
<1>. QED
  BY <1>3, <1>5 DEF Closed

LEMMA ReadersStep ==
  ASSUME Inv, Inv', [Next]_vars
  PROVE  [ReaderFeed!Next]_(ReaderFeed!vars)
<1>. DEFINE Lost == missed \cup (Reader \X lost)
<1>1. ReaderFeed!CloseIfAllowed
  BY NoneLeftOpenNext, ClosedStays DEF ReaderFeed!CloseIfAllowed, Closed, NoneOpen, L!Live
<1>2. lost \in SUBSET Id /\ lost' \in SUBSET Id /\ Lost' \in SUBSET (Reader \X Id)
  BY DEF Inv, SafetyInv, L!IInv, L!TypeOK, ReaderInv, ReaderAgrees
<1>3. ASSUME UNCHANGED shown, Lost \subseteq Lost'
      PROVE  ReaderFeed!Next
  <2>1. ReaderFeed!Lose(Lost')
    BY <1>3 DEF ReaderFeed!Lose
  <2>. QED
    BY <1>1, <1>2, <2>1 DEF ReaderFeed!Next
<1>4. ASSUME NEW n \in held, HandOver(n) PROVE ReaderFeed!Next
  BY <1>3, <1>4 DEF HandOver, L!Send
<1>5. ASSUME NEW i \in DOMAIN routes, NEW result \in {"ok", "failed", "aborted"},
             SendReturns(i, result)
      PROVE  [ReaderFeed!Next]_(ReaderFeed!vars)
  <2>. DEFINE about == <<i, note.inc.id>>
  <2>1. /\ send[i] \in {"sending", "refused"}
        /\ UNCHANGED <<lost, note>>
    BY <1>5 DEF SendReturns, D!SendReturns, D!Sending, manager
  <2>2. note # None /\ about \in Reader \X Id /\ note.event \in L!Event
    BY <2>1, DeliveryAssumption
    DEF DeliveryAssumption, Inv, SafetyInv, StageInv, SendsMatch, L!Notification, Incident
  <2>3. CASE UNCHANGED shown
    BY <1>3, <1>5, <2>1, <2>3 DEF SendReturns
  <2>4. CASE UNCHANGED missed /\ about \in missed
    <3>1. UNCHANGED shown
      BY <1>5, <2>4 DEF SendReturns, Inv, ReaderInv, ReaderAgrees
    <3>. QED
      BY <2>3, <3>1
  <2>5. CASE UNCHANGED missed /\ about \notin missed
    <3>1. shown' = [shown EXCEPT ![about] = note.event] \/ UNCHANGED shown
      BY <1>5, <2>5 DEF SendReturns
    <3>2. note.inc.id \in lost \/ ReaderFeed!Continues(about, note.event)
      BY <2>1, <2>2, <2>5
      DEF Inv, ReaderInv, ReaderAgrees, ToShow, ReaderFeed!Continues, ReaderFeed!IsOpen, L!Live
    <3>3. CASE shown' = [shown EXCEPT ![about] = note.event]
      <4>1. ReaderFeed!Publish(about, note.event)
        BY <2>1, <2>2, <2>5, <3>2, <3>3 DEF ReaderFeed!Publish
      <4>. QED
        BY <1>1, <2>2, <4>1 DEF ReaderFeed!Next, ReaderFeed!Event, L!Event
    <3>. QED
      BY <2>3, <3>1, <3>3
  <2>. QED
    BY <1>5, <2>3, <2>4, <2>5 DEF SendReturns
<1>6. CASE /\ ~\E n \in held : HandOver(n)
           /\ ~\E i \in DOMAIN routes :
                 \E result \in {"ok", "failed", "aborted"} : SendReturns(i, result)
  BY <1>3, <1>6, QuietStep DEF history
<1>. QED
  BY <1>4, <1>5, <1>6

\* Every reader is shown episodes opened, updated*, resolved of every incident,
\* and none stays open at the end, up to what the manager discards while it is
\* stopped, failed Sends, messages that hide the event, and severities that
\* cross a channel's filter.
THEOREM ReadersRefine == Spec => ReadersSeeEpisodes
<1>1. Init => ReaderFeed!Init
  BY DEF Init, L!Init, D!Init, ReaderFeed!Init
<1>. QED
  BY <1>1, ReadersStep, Invariance, PTL DEF Spec, ReadersSeeEpisodes, ReaderFeed!Spec
=============================================================================
