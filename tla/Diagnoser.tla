----------------------------- MODULE Diagnoser ------------------------------
(***************************************************************************)
(* Stage 6: Diagnoser.Run and diagnose (internal/diagnosis/diagnoser.go),  *)
(* HTTPClient.Complete (llm.go) and the severity ParseDiagnosis reads      *)
(* (parse.go).  One goroutine diagnoses one incident at a time; while it   *)
(* waits for the LLM API, or for the delay before its one retry, it takes  *)
(* no other.  The prompt, the diagnosis and the suggestions are text that  *)
(* no later stage tests, and are left out.                                 *)
(*                                                                         *)
(* How long a request takes (up to its timeout) and how long the delay is  *)
(* (the server says in Retry-After: nothing, or any number of seconds) is  *)
(* left open: the steps below may be any time apart.                       *)
(***************************************************************************)
EXTENDS Naturals

CONSTANTS
  None,   \* no incident in hand
  Reply   \* what may stand after "SEVERITY:" in a response

VARIABLES
  stage,      \* "select", "request", "wait", "retry", "refused", "send", "done"
  inHand,     \* the incident: raw [id, services, fatal, spikes], or [id, severity]
  cancelled   \* ctx is done

vars == <<stage, inHand, cancelled>>

Init == stage = "select" /\ inHand = None /\ cancelled = FALSE

\* Mutant: whatever stands there is the severity.
ParsedSeverity_verbatim(reply) == reply

\* A missing, empty or unknown severity leaves the default.
ParsedSeverity(reply) == IF reply \in {"P1", "P2", "P3"} THEN reply ELSE "P2"

HeuristicSeverity(inc) ==
  CASE inc.services >= 3 \/ inc.fatal -> "P1"
    [] inc.services < 3 /\ ~inc.fatal /\ (inc.services >= 2 \/ inc.spikes >= 5) -> "P2"
    [] OTHER -> "P3"

Graded(inc, severity) == [id |-> inc.id, severity |-> severity]

\* A request made when ctx is already done never leaves the process.
Started(next) == IF cancelled THEN "refused" ELSE next

Take(inc) ==
  /\ stage = "select"
  /\ stage' = Started("request")
  /\ inHand' = inc
  /\ UNCHANGED cancelled

\* 200 with a choice.
Answer ==
  /\ stage \in {"request", "retry"}
  /\ stage' = "send"
  /\ \E reply \in Reply : inHand' = Graded(inHand, ParsedSeverity(reply))
  /\ UNCHANGED cancelled

\* 429 or 5xx to the first request.
Retryable ==
  /\ stage = "request"
  /\ stage' = "wait"
  /\ UNCHANGED <<inHand, cancelled>>

WaitOver ==
  /\ stage = "wait"
  /\ stage' = Started("retry")
  /\ UNCHANGED <<inHand, cancelled>>

\* Mutant: a failed diagnosis leaves the severity as it was.
Failed_noHeuristic == stage' = "send" /\ inHand' = Graded(inHand, "")

\* diagnose falls back on the alert data.
Failed == stage' = "send" /\ inHand' = Graded(inHand, HeuristicSeverity(inHand))

\* Any other status, a transport error, the client's timeout, a response that
\* is no JSON or holds no choice; any error of the second request.
RequestFails ==
  /\ stage \in {"request", "retry", "refused"}
  /\ Failed
  /\ UNCHANGED cancelled

\* The delay ends with ctx, and the incident goes on ungraded by the LLM.
WaitCancelled ==
  /\ stage = "wait"
  /\ cancelled
  /\ Failed
  /\ UNCHANGED cancelled

Diagnose == Answer \/ Retryable \/ WaitOver \/ RequestFails \/ WaitCancelled

\* case out <- enriched, the next stage's input.
Sent ==
  /\ stage = "send"
  /\ stage' = "select"
  /\ inHand' = None
  /\ UNCHANGED cancelled

\* The input is closed and drained, or ctx is done; in the latter case the
\* incident waiting to be sent is dropped.  out is closed.
Return ==
  /\ stage = "select" \/ (stage = "send" /\ cancelled)
  /\ stage' = "done"
  /\ inHand' = None
  /\ UNCHANGED cancelled
=============================================================================
