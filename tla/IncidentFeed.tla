---------------------------- MODULE IncidentFeed ----------------------------
(***************************************************************************)
(* What the notification channels are promised, per incident ID: episodes  *)
(* of the form opened, updated*, resolved, none left open when the feed    *)
(* closes (DESIGN.md, L6; internal/incident/lifecycle.go).                 *)
(*                                                                         *)
(* A notification may get lost: in the manager once the agent has been     *)
(* told to stop, in a channel at any time.  Its ID is in lost from then    *)
(* on, and nothing is promised about it.                                   *)
(***************************************************************************)
CONSTANT Id

VARIABLES
  feed,      \* the last event published for each ID
  lost,      \* IDs that missed a notification
  lossy,     \* notifications may be lost
  closed     \* no event will be published any more

vars == <<feed, lost, lossy, closed>>

Event == {"opened", "updated", "resolved"}
IsOpen(id) == feed[id] \in {"opened", "updated"}

Init ==
  /\ feed = [id \in Id |-> "none"]
  /\ lost = {}
  /\ lossy \in BOOLEAN
  /\ closed = FALSE

\* An event continues the episode of its ID.
Continues(id, event) == (event = "opened") <=> ~IsOpen(id)

Publish(id, event) ==
  /\ ~closed
  /\ id \in lost \/ Continues(id, event)
  /\ feed' = [feed EXCEPT ![id] = event]
  /\ UNCHANGED <<lost, lossy>>

GetLossy ==
  /\ lossy' = TRUE
  /\ UNCHANGED <<feed, lost, closed>>

Lose(ids) ==
  /\ lossy
  /\ lost' = lost \cup ids
  /\ UNCHANGED <<feed, lossy>>

\* The feed may close with, or after, its last event.
CloseIfAllowed ==
  \/ closed' = closed
  \/ closed' = TRUE /\ \A id \in Id \ lost' : feed'[id] \notin {"opened", "updated"}

Next ==
  \/ \E id \in Id, event \in Event : Publish(id, event) /\ CloseIfAllowed
  \/ GetLossy
  \/ \E ids \in SUBSET Id : Lose(ids) /\ CloseIfAllowed
  \/ ~closed /\ CloseIfAllowed /\ UNCHANGED <<feed, lost, lossy>>

Spec == Init /\ [][Next]_vars
=============================================================================
