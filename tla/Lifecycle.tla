------------------------------ MODULE Lifecycle ------------------------------
(***************************************************************************)
(* The incident lifecycle manager (internal/incident/lifecycle.go) between *)
(* the buffered channel it reads and the dispatch loop of cmd/agent that   *)
(* reads its unbuffered output channel.                                    *)
(*                                                                         *)
(* One goroutine runs LifecycleManager.Run: a select over the input        *)
(* channel, a ticker and ctx.Done().  While it is blocked on a send it     *)
(* serves nothing else.  Time passes in any state.  The code compares      *)
(* now() with lastSeen and lastNotified only through differences, so an    *)
(* entry keeps the AGE of both stamps, each saturated just above the       *)
(* threshold it is compared with: the state space is finite without a      *)
(* bound on the clock.  firstSeen (copied to OpenedAt and Duration) and    *)
(* updateCount are tested by no branch and left out.                       *)
(***************************************************************************)
EXTENDS Naturals, Sequences

CONSTANTS
  Id,             \* incident IDs; the empty ID is one of them
  Incident,       \* the incidents that may arrive: records with an id
  None,           \* no tracked entry (an absent key of the map)
  DedupWindow,    \* LifecycleConfig.DedupWindow
  ResolveAfter,   \* LifecycleConfig.ResolveAfter
  CheckInterval,  \* LifecycleConfig.CheckInterval; NewTicker panics on 0
  InCap           \* capacity of the input channel

Status == {"OPEN", "ONGOING"}
IdleCap == ResolveAfter + CheckInterval  \* saturation of the age of lastSeen

\* trackedIncident: the latest incident, its status, and the ages of
\* lastSeen (idle) and lastNotified (quiet).
Entry == [inc : Incident, status : Status, idle : 0..IdleCap, quiet : 0..DedupWindow]

ASSUME LifecycleAssumption ==
  /\ \A inc \in Incident : inc.id \in Id
  /\ DedupWindow \in Nat
  /\ ResolveAfter \in Nat
  /\ CheckInterval \in Nat \ {0}
  /\ InCap \in Nat
  /\ None \notin Entry

Event == {"opened", "updated", "resolved"}
Notification == [event : Event, inc : Incident]

VARIABLES
  tracked,    \* lm.tracked
  pc,         \* where Run is: the select, one of its three sends, or closed
  held,       \* notifications taken out of the map and not yet sent
  inCh,       \* the buffered input channel
  inClosed,   \* upstream closed it
  tick,       \* ticker.C holds a tick (capacity 1, further ticks are dropped)
  phase,      \* time since the ticker last fired
  cancelled,  \* ctx is done
  busy,       \* the dispatch loop is inside Dispatch
  feed,       \* history: the last event dispatched for each ID
  lost        \* history: IDs of which a held notification was discarded

vars == <<tracked, pc, held, inCh, inClosed, tick, phase, cancelled, busy, feed, lost>>

Tracked == {id \in Id : tracked[id] # None}
Resolved(ids) == {[event |-> "resolved", inc |-> tracked[id].inc] : id \in ids}

Init ==
  /\ tracked = [id \in Id |-> None]
  /\ pc = "select"
  /\ held = {}
  /\ inCh = <<>>
  /\ inClosed = FALSE
  /\ tick = FALSE
  /\ phase = 0
  /\ cancelled = FALSE
  /\ busy = FALSE
  /\ feed = [id \in Id |-> "none"]
  /\ lost = {}

(***************************************************************************)
(* The environment: upstream stages, the signal handler, time, Dispatch.   *)
(***************************************************************************)
Arrive(inc) ==
  /\ ~inClosed /\ Len(inCh) < InCap
  /\ inCh' = Append(inCh, inc)
  /\ UNCHANGED <<tracked, pc, held, inClosed, tick, phase, cancelled, busy, feed, lost>>

CloseIn ==
  /\ ~inClosed
  /\ inClosed' = TRUE
  /\ UNCHANGED <<tracked, pc, held, inCh, tick, phase, cancelled, busy, feed, lost>>

Cancel ==
  /\ ~cancelled
  /\ cancelled' = TRUE
  /\ UNCHANGED <<tracked, pc, held, inCh, inClosed, tick, phase, busy, feed, lost>>

Aged(e) ==
  [inc |-> e.inc, status |-> e.status,
   idle |-> IF e.idle < IdleCap THEN e.idle + 1 ELSE e.idle,
   quiet |-> IF e.quiet < DedupWindow THEN e.quiet + 1 ELSE e.quiet]

\* Mutant: a tick that finds the manager busy is lost (no buffer in ticker.C).
Time_tickUnbuffered ==
  /\ pc # "done"
  /\ tracked' = [id \in Id |-> IF tracked[id] = None THEN None ELSE Aged(tracked[id])]
  /\ phase' = IF phase + 1 = CheckInterval THEN 0 ELSE phase + 1
  /\ tick' = (tick \/ (phase + 1 = CheckInterval /\ pc = "select"))
  /\ UNCHANGED <<pc, held, inCh, inClosed, cancelled, busy, feed, lost>>

\* One time unit passes; the ticker fires every CheckInterval units.
Time ==
  /\ pc # "done"
  /\ tracked' = [id \in Id |-> IF tracked[id] = None THEN None ELSE Aged(tracked[id])]
  /\ phase' = IF phase + 1 = CheckInterval THEN 0 ELSE phase + 1
  /\ tick' = (tick \/ phase + 1 = CheckInterval)
  /\ UNCHANGED <<pc, held, inCh, inClosed, cancelled, busy, feed, lost>>

DispatchReturns ==
  /\ busy
  /\ busy' = FALSE
  /\ UNCHANGED <<tracked, pc, held, inCh, inClosed, tick, phase, cancelled, feed, lost>>

(***************************************************************************)
(* case inc, ok := <-in: processIncident, one action per outcome.          *)
(***************************************************************************)
TakeIncident ==
  /\ pc = "select"
  /\ inCh # <<>>
  /\ inCh' = Tail(inCh)
  /\ UNCHANGED <<inClosed, tick, phase, cancelled, busy, feed, lost>>

\* The entry of inc.id after inc is seen now.
Seen(inc, status, quiet) ==
  tracked' = [tracked EXCEPT ![inc.id] =
                [inc |-> inc, status |-> status, idle |-> 0, quiet |-> quiet]]

OpenIncident ==
  LET inc == Head(inCh) IN
  /\ TakeIncident
  /\ tracked[inc.id] = None
  /\ Seen(inc, "OPEN", 0)
  /\ held' = {[event |-> "opened", inc |-> inc]}
  /\ pc' = "emit"

SuppressUpdate ==
  LET inc == Head(inCh) IN
  /\ TakeIncident
  /\ tracked[inc.id] # None
  /\ tracked[inc.id].quiet < DedupWindow
  /\ Seen(inc, tracked[inc.id].status, tracked[inc.id].quiet)
  /\ UNCHANGED <<held, pc>>

\* Mutant: an update stores the status of a resolved incident.
UpdateIncident_resolved ==
  LET inc == Head(inCh) IN
  /\ TakeIncident
  /\ tracked[inc.id] # None
  /\ tracked[inc.id].quiet >= DedupWindow
  /\ Seen(inc, "RESOLVED", 0)
  /\ held' = {[event |-> "updated", inc |-> inc]}
  /\ pc' = "emit"

UpdateIncident ==
  LET inc == Head(inCh) IN
  /\ TakeIncident
  /\ tracked[inc.id] # None
  /\ tracked[inc.id].quiet >= DedupWindow
  /\ Seen(inc, "ONGOING", 0)
  /\ held' = {[event |-> "updated", inc |-> inc]}
  /\ pc' = "emit"

ProcessIncident == OpenIncident \/ SuppressUpdate \/ UpdateIncident

(***************************************************************************)
(* case <-ticker.C: checkAutoResolve empties the map of every stale entry  *)
(* under the lock, then sends the collected notifications one by one.      *)
(***************************************************************************)
\* Mutant: only incidents that were never updated are auto-resolved.
Stale_openOnly ==
  {id \in Tracked : tracked[id].idle >= ResolveAfter /\ tracked[id].status = "OPEN"}

Stale == {id \in Tracked : tracked[id].idle >= ResolveAfter}

\* Mutant: delete(lm.tracked, id) is missing.
CheckAutoResolve_noDelete ==
  /\ pc = "select"
  /\ tick
  /\ tick' = FALSE
  /\ held' = Resolved(Stale)
  /\ pc' = IF Stale = {} THEN "select" ELSE "resolve"
  /\ UNCHANGED <<tracked, inCh, inClosed, phase, cancelled, busy, feed, lost>>

CheckAutoResolve ==
  /\ pc = "select"
  /\ tick
  /\ tick' = FALSE
  /\ tracked' = [id \in Id |-> IF id \in Stale THEN None ELSE tracked[id]]
  /\ held' = Resolved(Stale)
  /\ pc' = IF Stale = {} THEN "select" ELSE "resolve"
  /\ UNCHANGED <<inCh, inClosed, phase, cancelled, busy, feed, lost>>

(***************************************************************************)
(* resolveAll, on a closed input or a done context: the whole map is       *)
(* resolved and every notification sent unconditionally; then out closes.  *)
(***************************************************************************)
\* Mutant: with nothing to resolve, Run's loop goes on instead of returning.
ResolveAll_noReturn ==
  /\ tracked' = [id \in Id |-> None]
  /\ held' = Resolved(Tracked)
  /\ pc' = IF Tracked = {} THEN "select" ELSE "drain"
  /\ UNCHANGED <<inCh, inClosed, tick, phase, cancelled, busy, feed>>

ResolveAll ==
  /\ tracked' = [id \in Id |-> None]
  /\ held' = Resolved(Tracked)
  /\ pc' = IF Tracked = {} THEN "done" ELSE "drain"
  /\ UNCHANGED <<inCh, inClosed, tick, phase, cancelled, busy, feed>>

\* Mutant: a closed input ends the manager without resolving what it tracks.
InputClosed_noResolve ==
  /\ pc = "select"
  /\ inCh = <<>> /\ inClosed
  /\ pc' = "done"
  /\ UNCHANGED <<tracked, held, inCh, inClosed, tick, phase, cancelled, busy, feed, lost>>

InputClosed ==
  /\ pc = "select"
  /\ inCh = <<>> /\ inClosed
  /\ ResolveAll
  /\ UNCHANGED lost

ContextDone ==
  /\ pc = "select"
  /\ cancelled
  /\ ResolveAll
  /\ UNCHANGED lost

\* select { case out <- n: case <-ctx.Done(): } in Run: the notification in
\* hand is discarded and the manager shuts down.
EmitAborted ==
  /\ pc = "emit"
  /\ cancelled
  /\ ResolveAll
  /\ lost' = lost \cup {n.inc.id : n \in held}

\* The same select in checkAutoResolve: the rest of the batch is discarded
\* and the manager goes back to its main select.
ResolveAborted ==
  /\ pc = "resolve"
  /\ cancelled
  /\ lost' = lost \cup {n.inc.id : n \in held}
  /\ held' = {}
  /\ pc' = "select"
  /\ UNCHANGED <<tracked, inCh, inClosed, tick, phase, cancelled, busy, feed>>

\* out <- n meets the dispatch loop's receive, which then calls Dispatch.
Send(n) ==
  /\ n \in held
  /\ ~busy
  /\ busy' = TRUE
  /\ feed' = [feed EXCEPT ![n.inc.id] = n.event]
  /\ held' = held \ {n}
  /\ pc' = IF held' # {} THEN pc ELSE IF pc = "drain" THEN "done" ELSE "select"
  /\ UNCHANGED <<tracked, inCh, inClosed, tick, phase, cancelled, lost>>

SendHeld == \E n \in held : Send(n)

Next ==
  \/ \E inc \in Incident : Arrive(inc)
  \/ CloseIn
  \/ Cancel
  \/ Time
  \/ DispatchReturns
  \/ ProcessIncident
  \/ CheckAutoResolve
  \/ InputClosed
  \/ ContextDone
  \/ EmitAborted
  \/ ResolveAborted
  \/ SendHeld

(***************************************************************************)
(* Go's select picks uniformly among its ready cases, so a case that is    *)
(* ready again and again is taken: strong fairness for the three cases.    *)
(* Time passes, a ready send happens, and the dispatch loop always returns *)
(* to its receive: this assumes that a Send which ignores its deadline, as *)
(* the email channel's does, returns some time.  Nothing forces an         *)
(* incident, the end of the input or a signal.                             *)
(***************************************************************************)
Fairness ==
  /\ WF_vars(Time)
  /\ WF_vars(DispatchReturns)
  /\ WF_vars(SendHeld)
  /\ SF_vars(ProcessIncident)
  /\ SF_vars(CheckAutoResolve)
  /\ WF_vars(InputClosed)
  /\ SF_vars(ContextDone)

Spec == Init /\ [][Next]_vars
FairSpec == Spec /\ Fairness
-----------------------------------------------------------------------------
TypeOK ==
  /\ tracked \in [Id -> Entry \cup {None}]
  /\ pc \in {"select", "emit", "resolve", "drain", "done"}
  /\ held \subseteq Notification
  /\ inCh \in Seq(Incident)
  /\ inClosed \in BOOLEAN
  /\ tick \in BOOLEAN
  /\ phase \in 0..CheckInterval - 1
  /\ cancelled \in BOOLEAN
  /\ busy \in BOOLEAN
  /\ feed \in [Id -> Event \cup {"none"}]
  /\ lost \subseteq Id

Live(event) == event \in {"opened", "updated"}

Agrees(id, event) ==
  /\ tracked[id] # None <=> Live(event)
  /\ tracked[id] # None => (tracked[id].status = "OPEN" <=> event = "opened")

\* What the manager tracks is what the channels have been told, or are about
\* to be told: an ID is in the map exactly when its last event is a live one,
\* OPEN exactly when that event is "opened" -- except for an ID of which a
\* notification was discarded by a ctx.Done() branch.
FeedAgrees ==
  \A id \in Id \ lost :
    /\ \A n \in held : n.inc.id = id => Agrees(id, n.event)
    /\ (\A n \in held : n.inc.id # id) => Agrees(id, feed[id])

\* The ticker drops ticks while the manager is blocked, yet no incident is
\* overdue by more than a check interval without a tick waiting for it.
OverdueHasTick ==
  \A id \in Tracked : tracked[id].idle >= ResolveAfter + CheckInterval => tick

(***************************************************************************)
(* The inductive invariant behind these properties and the refinement.     *)
(***************************************************************************)
HeldContinuesFeed ==  \* what is in hand continues the episode dispatched so far
  \A n \in held :
    n.inc.id \notin lost => (n.event = "opened" <=> ~Live(feed[n.inc.id]))

HeldOncePerId == \A m, n \in held : m.inc.id = n.inc.id => m = n

PcMatches ==
  /\ pc \in {"select", "done"} => held = {}
  /\ pc \in {"drain", "done"} => Tracked = {}

EntryUnderItsId == \A id \in Tracked : tracked[id].inc.id = id

TickBeforeOverdue == \A id \in Tracked : tick \/ tracked[id].idle <= ResolveAfter + phase

LostOnlyCancelled == lost # {} => cancelled

IInv ==
  /\ TypeOK
  /\ FeedAgrees
  /\ HeldContinuesFeed
  /\ HeldOncePerId
  /\ PcMatches
  /\ EntryUnderItsId
  /\ TickBeforeOverdue
  /\ LostOnlyCancelled

\* The feed the channels see is the abstract one (IncidentFeed.tla): every
\* ID's events are episodes opened, updated*, resolved, whatever the order of
\* events, ticks, slow dispatches and the shutdown, up to what is lost.
Feed == INSTANCE IncidentFeed WITH lossy <- cancelled, closed <- pc = "done"
ImplementsFeed == Feed!Spec

\* An incident whose events stop is eventually resolved, even while events of
\* other incidents keep the manager busy: nobody is left with an open page.
Queued(id) == \E k \in 1..Len(inCh) : inCh[k].id = id
EventuallyResolved ==
  \A id \in Id :
    Live(feed[id]) ~> (feed[id] = "resolved" \/ Queued(id) \/ id \in lost)

\* The end of the input and a signal both end the manager: resolveAll's
\* unconditional sends do not block for ever.
Terminates == (cancelled \/ inClosed) ~> (pc = "done" /\ ~busy)
=============================================================================
