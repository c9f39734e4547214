----------------------------- MODULE Dispatcher -----------------------------
(***************************************************************************)
(* Stage 8: the channels cmd/agent/main.go builds from its configuration,  *)
(* its dispatch loop, and Dispatcher.Dispatch (internal/notify/notifier.go).*)
(* Notifications are taken one at a time, every matching notifier sends in *)
(* a goroutine of its own, with a timeout, and Dispatch returns when all   *)
(* of them have.                                                           *)
(*                                                                         *)
(* A Send is a delay and a result.  Slack and Teams send an HTTP request   *)
(* with the context, and return as soon as it is done.  Email and log      *)
(* ignore it (email.go:46, log.go:24), so nothing bounds an email's time.  *)
(***************************************************************************)
EXTENDS Naturals, SequencesExt

CONSTANTS
  None,     \* no notification in hand
  NoID,     \* the empty incident ID
  Timeout   \* Dispatcher.timeout

VARIABLES
  routes,    \* Dispatcher.notifiers: records [kind, severities, target]
  note,      \* the notification Dispatch was called with: [event, inc]
  send,      \* the goroutine of each route
  elapsed,   \* time since Dispatch started them
  cancelled  \* ctx is done

vars == <<routes, note, send, elapsed, cancelled>>

(***************************************************************************)
(* buildNotifiers.  A channel's target is what it cannot send without: the *)
(* webhook URL of Slack and Teams, checked here, or the recipients of an   *)
(* email, checked by every Send.                                           *)
(***************************************************************************)
Webhook == {"slack", "teams"}

Registered(channel) ==
  channel.kind \in {"log", "email"} \/ (channel.kind \in Webhook /\ channel.target)

Fallback == [kind |-> "log", severities |-> {}, target |-> TRUE]

BuildNotifiers(channels) ==
  LET registered == SelectSeq(channels, Registered)
  IN  IF registered = <<>> THEN <<Fallback>> ELSE registered

Init(channels) ==
  /\ routes = BuildNotifiers(channels)
  /\ note = None
  /\ send = [i \in DOMAIN routes |-> "none"]
  /\ elapsed = 0
  /\ cancelled = FALSE

Matches(route, severity) == route.severities = {} \/ severity \in route.severities

\* IsSingleAlert: one alert and no root.  Such an incident has no ID.
SingleAlert(inc) == inc.id = NoID

\* Teams' title and email's subject name the event of every incident.
TitlesEvent == {"teams", "email"}

\* Whether a reader can tell the event from the message: Slack and log render
\* a single alert as that alert, whatever the event.
Tells(kind, inc) == kind \in TitlesEvent \/ ~SingleAlert(inc)

(***************************************************************************)
(* for inc := range managed { dispatcher.Dispatch(ctx, inc) }              *)
(***************************************************************************)
\* A request made when ctx is already done never leaves the process.
Started(kind) == IF kind \in Webhook /\ cancelled THEN "refused" ELSE "sending"

Dispatch(n) ==
  /\ note = None
  /\ note' = n
  /\ send' = [i \in DOMAIN routes |->
                IF Matches(routes[i], n.inc.severity) THEN Started(routes[i].kind) ELSE "none"]
  /\ elapsed' = 0
  /\ UNCHANGED <<routes, cancelled>>

\* Mutant: the context of a Send has no deadline of its own.
ContextDone_noTimeout == cancelled

\* context.WithTimeout(ctx, d.timeout).
ContextDone == cancelled \/ elapsed >= Timeout

\* An HTTP request made with the context: a status, or the context's end.
HttpResults(i) ==
  (IF send[i] = "sending" THEN {"ok", "failed"} ELSE {}) \cup
  (IF ContextDone THEN {"aborted"} ELSE {})

TeamsResults(i) == IF routes[i].target THEN HttpResults(i) ELSE {"failed"}

\* smtp.SendMail knows of no context.
EmailResults(i) == IF routes[i].target THEN {"ok", "failed"} ELSE {"failed"}

LogResults == {"ok"}

Results(i) ==
  CASE routes[i].kind = "slack" -> HttpResults(i)
    [] routes[i].kind = "teams" -> TeamsResults(i)
    [] routes[i].kind = "email" -> EmailResults(i)
    [] routes[i].kind = "log"   -> LogResults

Sending == {i \in DOMAIN routes : send[i] \in {"sending", "refused"}}

\* An error is logged and collected, and nothing more.
SendReturns(i, result) ==
  /\ i \in Sending
  /\ result \in Results(i)
  /\ send' = [send EXCEPT ![i] = "returned"]
  /\ UNCHANGED <<routes, note, elapsed, cancelled>>

\* Mutant: Dispatch returns with the first notifier that does.
DispatchReturns_first ==
  /\ note # None
  /\ Sending = {} \/ \E i \in DOMAIN routes : send[i] = "returned"
  /\ note' = None
  /\ send' = [i \in DOMAIN routes |-> "none"]
  /\ elapsed' = 0
  /\ UNCHANGED <<routes, cancelled>>

\* wg.Wait() returns.
DispatchReturns ==
  /\ note # None
  /\ Sending = {}
  /\ note' = None
  /\ send' = [i \in DOMAIN routes |-> "none"]
  /\ elapsed' = 0
  /\ UNCHANGED <<routes, cancelled>>

\* Time does not pass while a Send that heeds its context has yet to notice
\* that it is done.  Beyond the timeout only the fact counts.
Tick ==
  /\ ContextDone => \A i \in Sending : routes[i].kind \notin Webhook
  /\ elapsed' = IF note = None \/ elapsed > Timeout THEN elapsed ELSE elapsed + 1
  /\ UNCHANGED <<routes, note, send, cancelled>>
=============================================================================
