--------------------------- MODULE LifecycleProofs ---------------------------
(***************************************************************************)
(* Theorems about Lifecycle for every set of IDs and incidents, every      *)
(* window and every channel capacity.                                      *)
(***************************************************************************)
EXTENDS Lifecycle, TLAPS

\* Every incident carries an ID of the model.
LEMMA IncidentHasId == \A inc \in Incident : inc.id \in Id
  BY LifecycleAssumption DEF LifecycleAssumption

\* Entries and None do not overlap, so a tracked ID has a proper entry.
LEMMA TrackedEntry ==
  ASSUME TypeOK, NEW id \in Tracked
  PROVE  tracked[id] \in Entry /\ tracked[id] # None
  BY DEF TypeOK, Tracked

\* Notifications of the resolved kind name incidents the manager tracks.
LEMMA ResolvedType ==
  ASSUME TypeOK, NEW ids \in SUBSET Tracked
  PROVE  Resolved(ids) \subseteq Notification
  BY DEF TypeOK, Tracked, Resolved, Notification, Event, Entry

\* Ageing an entry keeps its type, its incident and its status, and adds at
\* most one to the age of lastSeen.
LEMMA AgedEntry ==
  ASSUME NEW e \in Entry
  PROVE  /\ Aged(e) \in Entry
         /\ Aged(e).inc = e.inc
         /\ Aged(e).status = e.status
         /\ Aged(e).idle <= e.idle + 1
<1> DEFINE idle == IF e.idle < IdleCap THEN e.idle + 1 ELSE e.idle
           quiet == IF e.quiet < DedupWindow THEN e.quiet + 1 ELSE e.quiet
<1>1. idle \in 0..IdleCap /\ idle <= e.idle + 1 /\ quiet \in 0..DedupWindow
  BY LifecycleAssumption DEF LifecycleAssumption, Entry, IdleCap
<1>2. Aged(e) = [inc |-> e.inc, status |-> e.status, idle |-> idle, quiet |-> quiet]
  BY DEF Aged, Entry
<1> HIDE DEF idle, quiet
<1>. QED
  BY <1>1, <1>2 DEF Entry

\* The initial state is well typed.
LEMMA InitTypeOK == Init => TypeOK
<1>. SUFFICES ASSUME Init PROVE TypeOK
  OBVIOUS
<1>1. phase \in 0..CheckInterval - 1
  BY LifecycleAssumption DEF LifecycleAssumption, Init
<1>2. inCh \in Seq(Incident)
  BY DEF Init
<1>. QED
  BY <1>1, <1>2 DEF Init, TypeOK

\* Every step of the manager and of its environment keeps the types.
LEMMA TypeStep ==
  ASSUME TypeOK, [Next]_vars
  PROVE  TypeOK'
<1>. USE LifecycleAssumption DEF LifecycleAssumption
<1>1. ASSUME NEW inc \in Incident, Arrive(inc) PROVE TypeOK'
  BY <1>1 DEF Arrive, TypeOK
<1>2. CASE CloseIn
  BY <1>2 DEF CloseIn, TypeOK
<1>3. CASE Cancel
  BY <1>3 DEF Cancel, TypeOK
<1>4. CASE Time
  <2>1. tracked' \in [Id -> Entry \cup {None}]
    BY <1>4, AgedEntry DEF Time, TypeOK
  <2>2. phase' \in 0..CheckInterval - 1 /\ tick' \in BOOLEAN
    BY <1>4 DEF Time, TypeOK
  <2>. QED
    BY <1>4, <2>1, <2>2 DEF Time, TypeOK
<1>5. CASE DispatchReturns
  BY <1>5 DEF DispatchReturns, TypeOK
<1>6. CASE ProcessIncident
  <2>0. TakeIncident
    BY <1>6 DEF ProcessIncident, OpenIncident, SuppressUpdate, UpdateIncident
  <2>1. PICK inc \in Incident : inc = Head(inCh) /\ inc.id \in Id
    BY <2>0, IncidentHasId DEF TakeIncident, TypeOK
  <2>2. inCh' \in Seq(Incident)
    BY <2>0 DEF TakeIncident, TypeOK
  <2>3. tracked' \in [Id -> Entry \cup {None}]
    <3>. DEFINE Stored(s, q) == [inc |-> inc, status |-> s, idle |-> 0, quiet |-> q]
    <3>1. \A s \in Status, q \in 0..DedupWindow : Stored(s, q) \in Entry
      BY <2>1 DEF Entry, IdleCap
    <3>2. CASE OpenIncident
      BY <3>1, <3>2, <2>1 DEF OpenIncident, Seen, TypeOK, Status
    <3>3. CASE SuppressUpdate
      BY <3>1, <3>3, <2>1 DEF SuppressUpdate, Seen, TypeOK, Entry
    <3>4. CASE UpdateIncident
      BY <3>1, <3>4, <2>1 DEF UpdateIncident, Seen, TypeOK, Status
    <3>. QED
      BY <1>6, <3>2, <3>3, <3>4 DEF ProcessIncident
  <2>4. held' \subseteq Notification /\ pc' \in {"select", "emit"}
    BY <1>6, <2>1 DEF ProcessIncident, OpenIncident, SuppressUpdate, UpdateIncident, TakeIncident, TypeOK, Notification, Event
  <2>. QED
    BY <1>6, <2>2, <2>3, <2>4 DEF ProcessIncident, OpenIncident, SuppressUpdate, UpdateIncident, TakeIncident, TypeOK
<1>7. CASE CheckAutoResolve
  BY <1>7, ResolvedType DEF CheckAutoResolve, Stale, Tracked, TypeOK
<1>8. CASE InputClosed \/ ContextDone
  BY <1>8, ResolvedType DEF InputClosed, ContextDone, ResolveAll, TypeOK
<1>9. CASE EmitAborted
  BY <1>9, ResolvedType, IncidentHasId DEF EmitAborted, ResolveAll, TypeOK, Notification
<1>10. CASE ResolveAborted
  BY <1>10, IncidentHasId DEF ResolveAborted, TypeOK, Notification
<1>11. CASE SendHeld
  BY <1>11, IncidentHasId DEF SendHeld, Send, TypeOK, Notification
<1>12. CASE UNCHANGED vars
  BY <1>12 DEF vars, TypeOK
<1>. QED
  BY <1>1, <1>2, <1>3, <1>4, <1>5, <1>6, <1>7, <1>8, <1>9, <1>10, <1>11, <1>12 DEF Next

\* Type correctness of the manager.
THEOREM TypeCorrect == Spec => []TypeOK
  BY InitTypeOK, TypeStep, PTL DEF Spec

\* What resolving a set of tracked IDs puts in hand: one "resolved" per ID.
LEMMA ResolvedHeld ==
  ASSUME TypeOK, EntryUnderItsId, NEW ids \in SUBSET Tracked
  PROVE  /\ \A n \in Resolved(ids) : n.event = "resolved" /\ n.inc.id \in ids
         /\ \A id \in ids : \E n \in Resolved(ids) : n.inc.id = id
         /\ \A m, n \in Resolved(ids) : m.inc.id = n.inc.id => m = n
<1>. DEFINE Note(id) == [event |-> "resolved", inc |-> tracked[id].inc]
<1>1. \A id \in ids : Note(id).event = "resolved" /\ Note(id).inc.id = id
  BY DEF EntryUnderItsId
<1>2. Resolved(ids) = {Note(id) : id \in ids}
  BY DEF Resolved
<1>. HIDE DEF Note
<1>. QED
  BY <1>1, <1>2

\* An action that leaves the manager's own state alone keeps the invariant.
LEMMA EnvironmentKeepsIInv ==
  ASSUME IInv, TypeOK', UNCHANGED <<tracked, pc, held, tick, phase, feed, lost>>,
         cancelled => cancelled'
  PROVE  IInv'
  BY DEF IInv, FeedAgrees, Agrees, HeldContinuesFeed, HeldOncePerId, PcMatches,
         EntryUnderItsId, TickBeforeOverdue, LostOnlyCancelled, Tracked

LEMMA TimeKeepsIInv ==
  ASSUME IInv, TypeOK', Time
  PROVE  IInv'
<1>. USE DEF IInv
<1>1. ASSUME NEW id \in Id
      PROVE  /\ (tracked[id] # None) <=> (tracked'[id] # None)
             /\ tracked[id] # None => /\ tracked'[id].status = tracked[id].status
                                      /\ tracked'[id].inc = tracked[id].inc
                                      /\ tracked'[id].idle <= tracked[id].idle + 1
  BY <1>1, AgedEntry, LifecycleAssumption DEF LifecycleAssumption, Time, TypeOK
<1>2. FeedAgrees'
  BY <1>1 DEF Time, FeedAgrees, Agrees
<1>3. HeldContinuesFeed' /\ HeldOncePerId' /\ LostOnlyCancelled'
  BY DEF Time, HeldContinuesFeed, HeldOncePerId, LostOnlyCancelled
<1>4. PcMatches' /\ EntryUnderItsId'
  BY <1>1 DEF Time, PcMatches, EntryUnderItsId, Tracked
<1>5. TickBeforeOverdue'
  <2>. SUFFICES ASSUME NEW id \in Id, tracked[id] # None, ~tick'
                PROVE  tracked'[id].idle <= ResolveAfter + phase'
    BY <1>1 DEF TickBeforeOverdue, Tracked
  <2>1. phase' = phase + 1 /\ tracked[id].idle <= ResolveAfter + phase
    BY DEF Time, TickBeforeOverdue, Tracked
  <2>2. tracked[id].idle \in Nat /\ tracked'[id].idle \in Nat /\ phase \in Nat
    BY <1>1, LifecycleAssumption DEF LifecycleAssumption, TypeOK, Entry, IdleCap
  <2>. QED
    BY <1>1, <2>1, <2>2, LifecycleAssumption DEF LifecycleAssumption
<1>. QED
  BY <1>2, <1>3, <1>4, <1>5

LEMMA ProcessKeepsIInv ==
  ASSUME IInv, TypeOK', ProcessIncident
  PROVE  IInv'
<1>. USE DEF IInv
<1>1. TakeIncident /\ held = {}
  BY DEF ProcessIncident, OpenIncident, SuppressUpdate, UpdateIncident, TakeIncident, PcMatches
<1>2. PICK inc \in Incident : inc = Head(inCh) /\ inc.id \in Id
  BY <1>1, IncidentHasId DEF TakeIncident, TypeOK
<1>3. PICK s \in Status, q \in 0..DedupWindow :
        tracked' = [tracked EXCEPT ![inc.id] =
                      [inc |-> inc, status |-> s, idle |-> 0, quiet |-> q]]
  <2>1. CASE tracked[inc.id] = None
    BY <2>1, <1>2, LifecycleAssumption DEF LifecycleAssumption, ProcessIncident, OpenIncident,
       SuppressUpdate, UpdateIncident, Seen, Status
  <2>2. CASE tracked[inc.id] # None
    <3>1. tracked[inc.id].status \in Status /\ tracked[inc.id].quiet \in 0..DedupWindow
      BY <2>2, <1>2 DEF TypeOK, Entry
    <3>. QED
      BY <3>1, <2>2, <1>2, LifecycleAssumption DEF LifecycleAssumption, ProcessIncident, OpenIncident,
         SuppressUpdate, UpdateIncident, Seen, Status
  <2>. QED
    BY <2>1, <2>2
<1>4. tracked'[inc.id] # None /\ \A id \in Id \ {inc.id} : tracked'[id] = tracked[id]
  BY <1>2, <1>3, LifecycleAssumption DEF LifecycleAssumption, TypeOK, Entry, IdleCap
<1>5. EntryUnderItsId'
  BY <1>2, <1>3, <1>4 DEF EntryUnderItsId, Tracked, TypeOK
<1>6. TickBeforeOverdue'
  BY <1>1, <1>2, <1>3, <1>4, LifecycleAssumption DEF LifecycleAssumption, TickBeforeOverdue, Tracked, TypeOK, TakeIncident
<1>7. LostOnlyCancelled'
  BY <1>1 DEF TakeIncident, LostOnlyCancelled
<1>8. CASE OpenIncident
  BY <1>1, <1>2, <1>3, <1>4, <1>5, <1>6, <1>7, <1>8
  DEF OpenIncident, Seen, TakeIncident, FeedAgrees, Agrees, HeldContinuesFeed, HeldOncePerId, PcMatches, Live, TypeOK
<1>9. CASE SuppressUpdate
  BY <1>1, <1>2, <1>3, <1>4, <1>5, <1>6, <1>7, <1>9
  DEF SuppressUpdate, Seen, TakeIncident, FeedAgrees, Agrees, HeldContinuesFeed, HeldOncePerId, PcMatches, Live, TypeOK
<1>10. CASE UpdateIncident
  BY <1>1, <1>2, <1>3, <1>4, <1>5, <1>6, <1>7, <1>10
  DEF UpdateIncident, Seen, TakeIncident, FeedAgrees, Agrees, HeldContinuesFeed, HeldOncePerId, PcMatches, Live, TypeOK
<1>. QED
  BY <1>8, <1>9, <1>10 DEF ProcessIncident


LEMMA AutoResolveKeepsIInv ==
  ASSUME IInv, TypeOK', CheckAutoResolve
  PROVE  IInv'
<1>. USE DEF IInv
<1>1. held = {} /\ held' = Resolved(Stale) /\ Stale \subseteq Tracked /\ Tracked \subseteq Id
  BY DEF CheckAutoResolve, PcMatches, Stale, Tracked
<1>2. /\ \A n \in held' : n.event = "resolved" /\ n.inc.id \in Stale
      /\ \A id \in Stale : \E n \in held' : n.inc.id = id
      /\ HeldOncePerId'
  BY <1>1, ResolvedHeld DEF HeldOncePerId
<1>3. \A id \in Id : tracked'[id] = IF id \in Stale THEN None ELSE tracked[id]
  BY DEF CheckAutoResolve
<1>4. FeedAgrees'
  <2>. SUFFICES ASSUME NEW id \in Id \ lost
                PROVE  /\ \A n \in held' : n.inc.id = id => Agrees(id, n.event)'
                       /\ (\A n \in held' : n.inc.id # id) => Agrees(id, feed[id])'
    BY DEF CheckAutoResolve, FeedAgrees
  <2>1. CASE id \in Stale
    BY <1>2, <1>3, <2>1 DEF Agrees, Live
  <2>2. CASE id \notin Stale
    BY <1>1, <1>2, <1>3, <2>2 DEF FeedAgrees, Agrees, CheckAutoResolve
  <2>. QED
    BY <2>1, <2>2
<1>5. HeldContinuesFeed'
  BY <1>1, <1>2 DEF CheckAutoResolve, HeldContinuesFeed, FeedAgrees, Agrees, Tracked
<1>6. PcMatches'
  BY <1>1, ResolvedHeld DEF CheckAutoResolve, PcMatches
<1>7. EntryUnderItsId' /\ LostOnlyCancelled'
  BY <1>3 DEF CheckAutoResolve, EntryUnderItsId, LostOnlyCancelled, Tracked
<1>8. TickBeforeOverdue'
  <2>. SUFFICES ASSUME NEW id \in Id, tracked[id] # None, id \notin Stale
                PROVE  tracked[id].idle <= ResolveAfter + phase
    BY <1>3 DEF CheckAutoResolve, TickBeforeOverdue, Tracked
  <2>1. tracked[id].idle \in Nat /\ phase \in Nat /\ tracked[id].idle < ResolveAfter
    BY LifecycleAssumption DEF LifecycleAssumption, TypeOK, Entry, IdleCap, Stale, Tracked
  <2>. QED
    BY <2>1, LifecycleAssumption DEF LifecycleAssumption
<1>. QED
  BY <1>2, <1>4, <1>5, <1>6, <1>7, <1>8

\* resolveAll, whichever of its three callers ran it: whatever was in hand
\* before is accounted for in lost.
LEMMA ResolveAllKeepsIInv ==
  ASSUME IInv, TypeOK', ResolveAll,
         lost' = lost \cup {n.inc.id : n \in held},
         held # {} => cancelled
  PROVE  IInv'
<1>. USE DEF IInv
<1>1. held' = Resolved(Tracked) /\ Tracked \subseteq Id /\ feed' = feed
  BY DEF ResolveAll, Tracked
<1>2. /\ \A n \in held' : n.event = "resolved" /\ n.inc.id \in Tracked
      /\ \A id \in Tracked : \E n \in held' : n.inc.id = id
      /\ HeldOncePerId'
  BY <1>1, ResolvedHeld DEF HeldOncePerId
<1>3. \A id \in Id : tracked'[id] = None
  BY DEF ResolveAll
<1>4. \A id \in Id \ lost' : Agrees(id, feed[id])
  BY DEF FeedAgrees
<1>5. FeedAgrees' /\ HeldContinuesFeed'
  BY <1>1, <1>2, <1>3, <1>4 DEF FeedAgrees, HeldContinuesFeed, Agrees, Live, Tracked
<1>6. PcMatches' /\ EntryUnderItsId' /\ TickBeforeOverdue'
  BY <1>1, <1>2, <1>3 DEF ResolveAll, PcMatches, EntryUnderItsId, TickBeforeOverdue, Tracked
<1>7. LostOnlyCancelled'
  BY DEF ResolveAll, LostOnlyCancelled
<1>. QED
  BY <1>2, <1>5, <1>6, <1>7

LEMMA ResolveAbortedKeepsIInv ==
  ASSUME IInv, TypeOK', ResolveAborted
  PROVE  IInv'
  BY DEF IInv, ResolveAborted, FeedAgrees, Agrees, HeldContinuesFeed, HeldOncePerId, PcMatches,
         EntryUnderItsId, TickBeforeOverdue, LostOnlyCancelled, Tracked

LEMMA SendKeepsIInv ==
  ASSUME IInv, TypeOK', NEW n \in held, Send(n)
  PROVE  IInv'
<1>. USE DEF IInv
<1>1. n.inc.id \in Id /\ n.event \in Event
  BY IncidentHasId DEF TypeOK, Notification
<1>2. \A id \in Id : feed'[id] = IF id = n.inc.id THEN n.event ELSE feed[id]
  BY <1>1 DEF Send, TypeOK
<1>3. \A m \in held' : m \in held /\ m.inc.id # n.inc.id
  BY DEF Send, HeldOncePerId
<1>4. FeedAgrees'
  <2>. SUFFICES ASSUME NEW id \in Id \ lost
                PROVE  /\ \A m \in held' : m.inc.id = id => Agrees(id, m.event)'
                       /\ (\A m \in held' : m.inc.id # id) => Agrees(id, feed[id])'
    BY DEF Send, FeedAgrees
  <2>1. \A e : Agrees(id, e) <=> Agrees(id, e)'
    BY DEF Send, Agrees
  <2>. QED
    BY <1>2, <1>3, <2>1 DEF Send, FeedAgrees, Agrees
<1>5. HeldContinuesFeed'
  <2>. SUFFICES ASSUME NEW m \in held', m.inc.id \notin lost
                PROVE  m.event = "opened" <=> ~Live(feed'[m.inc.id])
    BY DEF HeldContinuesFeed, Send
  <2>1. m \in held /\ feed'[m.inc.id] = feed[m.inc.id]
    BY <1>2, <1>3, IncidentHasId DEF TypeOK, Notification
  <2>. QED
    BY <2>1 DEF HeldContinuesFeed
<1>6. HeldOncePerId' /\ EntryUnderItsId' /\ TickBeforeOverdue' /\ LostOnlyCancelled'
  BY <1>3 DEF Send, HeldOncePerId, EntryUnderItsId, TickBeforeOverdue, LostOnlyCancelled, Tracked
<1>7. PcMatches'
  BY DEF Send, PcMatches, Tracked, TypeOK
<1>. QED
  BY <1>4, <1>5, <1>6, <1>7

\* The inductive invariant holds initially.
LEMMA InitIInv == Init => IInv
<1>. SUFFICES ASSUME Init PROVE IInv
  OBVIOUS
<1>1. TypeOK
  BY InitTypeOK
<1>. QED
  BY <1>1 DEF Init, IInv, FeedAgrees, Agrees, HeldContinuesFeed, HeldOncePerId, PcMatches,
              EntryUnderItsId, TickBeforeOverdue, LostOnlyCancelled, Tracked, Live

\* Every step of the manager and of its environment keeps it.
LEMMA InvStep ==
  ASSUME IInv, [Next]_vars
  PROVE  IInv'
<1>0. TypeOK'
  BY TypeStep DEF IInv
<1>. USE <1>0
<1>1. ASSUME NEW inc \in Incident, Arrive(inc) PROVE IInv'
  BY <1>1, EnvironmentKeepsIInv DEF Arrive
<1>2. CASE CloseIn \/ DispatchReturns
  BY <1>2, EnvironmentKeepsIInv DEF CloseIn, DispatchReturns
<1>3. CASE Cancel
  BY <1>3, EnvironmentKeepsIInv DEF Cancel
<1>4. CASE Time
  BY <1>4, TimeKeepsIInv
<1>5. CASE ProcessIncident
  BY <1>5, ProcessKeepsIInv
<1>6. CASE CheckAutoResolve
  BY <1>6, AutoResolveKeepsIInv
<1>7. CASE InputClosed \/ ContextDone
  <2>1. ResolveAll /\ held = {} /\ lost' = lost
    BY <1>7 DEF InputClosed, ContextDone, IInv, PcMatches
  <2>2. lost' = lost \cup {n.inc.id : n \in held}
    BY <2>1
  <2>. QED
    BY <2>1, <2>2, ResolveAllKeepsIInv
<1>8. CASE EmitAborted
  BY <1>8, ResolveAllKeepsIInv DEF EmitAborted
<1>9. CASE ResolveAborted
  BY <1>9, ResolveAbortedKeepsIInv
<1>10. CASE SendHeld
  BY <1>10, SendKeepsIInv DEF SendHeld
<1>11. CASE UNCHANGED vars
  BY <1>11, EnvironmentKeepsIInv DEF vars
<1>. QED
  BY <1>1, <1>2, <1>3, <1>4, <1>5, <1>6, <1>7, <1>8, <1>9, <1>10, <1>11 DEF Next

\* The inductive invariant: what the manager holds, tracks and has sent agree
\* in every reachable state.
THEOREM Invariance == Spec => []IInv
  BY InitIInv, InvStep, PTL DEF Spec

\* What the manager tracks is what the channels have been told.
THEOREM FeedAgreement == Spec => []FeedAgrees
<1>1. IInv => FeedAgrees
  BY DEF IInv
<1>. QED
  BY <1>1, Invariance, PTL

\* Dropped ticks never leave an overdue incident without a tick waiting.
THEOREM TicksNotMissed == Spec => []OverdueHasTick
<1>1. IInv => OverdueHasTick
  <2>. SUFFICES ASSUME IInv, NEW id \in Tracked,
                       tracked[id].idle >= ResolveAfter + CheckInterval
                PROVE  tick
    BY DEF OverdueHasTick
  <2>1. tracked[id].idle \in Nat /\ phase \in 0..CheckInterval - 1
    BY TrackedEntry, LifecycleAssumption DEF LifecycleAssumption, IInv, TypeOK, Entry, IdleCap
  <2>. QED
    BY <2>1, LifecycleAssumption DEF LifecycleAssumption, IInv, TickBeforeOverdue
<1>. QED
  BY <1>1, Invariance, PTL


\* The manager implements the abstract feed: every step that sends publishes an
\* event the episode allows, every discarding step is a loss the abstract feed
\* admits once cancelled, and the output closes only on a resolved feed.
THEOREM FeedRefinement == Spec => ImplementsFeed
<1>1. Init => Feed!Init
  BY DEF Init, Feed!Init
<1>2. IInv /\ IInv' /\ [Next]_vars => [Feed!Next]_(Feed!vars)
  <2>. SUFFICES ASSUME IInv, IInv', [Next]_vars PROVE [Feed!Next]_(Feed!vars)
    OBVIOUS
  \* Once the output is closed, or closing, nothing announced is left open.
  <2>1. pc' = "done" => \A id \in Id \ lost' : feed'[id] \notin {"opened", "updated"}
    BY DEF IInv, PcMatches, FeedAgrees, Agrees, Live, Tracked
  <2>2. pc # "done" => Feed!CloseIfAllowed
    BY <2>1 DEF Feed!CloseIfAllowed
  <2>3. ASSUME NEW inc \in Incident, Arrive(inc) PROVE UNCHANGED Feed!vars
    BY <2>3 DEF Arrive, Feed!vars
  <2>4. CASE CloseIn \/ Time \/ DispatchReturns
    BY <2>4 DEF CloseIn, Time, DispatchReturns, Feed!vars
  <2>5. CASE Cancel
    BY <2>5 DEF Cancel, Feed!Next, Feed!GetLossy
  <2>6. CASE ProcessIncident \/ CheckAutoResolve
    BY <2>6 DEF ProcessIncident, OpenIncident, SuppressUpdate, UpdateIncident, TakeIncident,
                CheckAutoResolve, Feed!vars
  <2>7. CASE InputClosed \/ ContextDone
    BY <2>2, <2>7 DEF InputClosed, ContextDone, ResolveAll, Feed!Next
  <2>8. CASE EmitAborted \/ ResolveAborted
    <3>1. PICK ids \in SUBSET Id : lost' = lost \cup ids
      <4>1. {n.inc.id : n \in held} \subseteq Id
        BY IncidentHasId DEF IInv, TypeOK, Notification
      <4>. QED
        BY <4>1, <2>8 DEF EmitAborted, ResolveAborted
    <3>2. Feed!Lose(ids) /\ Feed!CloseIfAllowed
      BY <2>2, <2>8, <3>1 DEF EmitAborted, ResolveAborted, ResolveAll, Feed!Lose
    <3>. QED
      BY <3>2 DEF Feed!Next
  <2>9. ASSUME NEW n \in held, Send(n) PROVE Feed!Next
    <3>1. n.inc.id \in Id /\ n.event \in Event
      BY IncidentHasId DEF IInv, TypeOK, Notification
    <3>2. Feed!Publish(n.inc.id, n.event)
      BY <2>9, <3>1 DEF Send, IInv, PcMatches, HeldContinuesFeed, Live, Feed!Publish, Feed!Continues, Feed!IsOpen
    <3>. QED
      BY <2>2, <2>9, <3>1, <3>2 DEF Send, IInv, PcMatches, Event, Feed!Next, Feed!Event
  <2>10. CASE UNCHANGED vars
    BY <2>10 DEF vars, Feed!vars
  <2>. QED
    BY <2>3, <2>4, <2>5, <2>6, <2>7, <2>8, <2>9, <2>10 DEF Next, SendHeld
<1>. QED
  BY <1>1, <1>2, Invariance, PTL DEF Spec, ImplementsFeed, Feed!Spec

=============================================================================
