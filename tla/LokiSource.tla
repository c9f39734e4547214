----------------------------- MODULE LokiSource -----------------------------
(***************************************************************************)
(* The polling source (internal/ingest/loki.go): query_range over          *)
(* [start, end), at most Limit entries and the oldest first, then one send *)
(* per line, and start moves behind the latest timestamp received.         *)
(*                                                                         *)
(* Loki is external: entries come to be stored in it with the timestamps   *)
(* their writers gave them.  A query sees what is stored when Loki runs it, *)
(* and its response is on the way for up to the client's timeout.          *)
(* A tick of the clock is a nanosecond, the unit of the timestamps.        *)
(***************************************************************************)
EXTENDS FiniteSetsExt, Integers

CONSTANTS
  Limit,      \* the limit parameter of a query (5000)
  MaxDelay,   \* bound on the time from an entry's timestamp to its storage
  MaxTime,    \* bound on the clock
  MaxEntries  \* bound on the entries stored

ASSUME LokiAssumption ==
  /\ Limit \in Nat \ {0}
  /\ MaxDelay \in Nat /\ MaxTime \in Nat /\ MaxEntries \in Nat

VARIABLES
  now,
  stored,     \* entries in Loki: an id, in the order of storing, a timestamp, and
              \* whether it lay before the begin of the last poll at that time
  start,      \* the high-water mark of poll
  end,        \* when doPoll last began
  fetch,      \* fetchLogs: "idle", "asked" or "answered", its response on the way
  response,   \* the lines of that response
  seen,       \* how many entries were stored when Loki ran that query
  toSend,     \* lines of the last response still to be sent
  sentOut,    \* lines sent to the pipeline
  cut,        \* history: timestamps at which a response reached its limit
  late,       \* history: entries that were stored behind the mark, or that the mark
              \* passed with a response which Loki had made up before
  cancelled,  \* ctx is done
  returned    \* poll has returned and closed its output

lokiVars == <<now, stored>>
fetchVars == <<fetch, response, seen>>
pollVars == <<start, end, toSend, sentOut, cut, returned>>
vars == <<lokiVars, fetchVars, pollVars, late, cancelled>>

Init ==
  /\ now = 0 /\ start = 0 /\ end = 0
  /\ fetch = "idle" /\ response = {} /\ seen = 0
  /\ stored = {} /\ toSend = {} /\ sentOut = {} /\ cut = {} /\ late = {}
  /\ cancelled = FALSE /\ returned = FALSE

(***************************************************************************)
(* Loki and the clock.                                                     *)
(***************************************************************************)
New(delay) == [id |-> Cardinality(stored), ts |-> now - delay, overdue |-> now - delay < end]

Store(delay) ==
  /\ Cardinality(stored) < MaxEntries /\ delay <= now
  /\ stored' = stored \cup {New(delay)}
  /\ late' = IF New(delay).ts < start THEN late \cup {New(delay)} ELSE late
  /\ UNCHANGED <<now, fetchVars, pollVars, cancelled>>

Tick ==
  /\ now < MaxTime
  /\ now' = now + 1
  /\ UNCHANGED <<stored, fetchVars, pollVars, late, cancelled>>

Before(e, f) == e.ts < f.ts \/ (e.ts = f.ts /\ e.id < f.id)

\* direction=forward: the oldest entries first, as many as the limit allows.
Response(from, to) ==
  LET range == {e \in stored : from <= e.ts /\ e.ts < to}
  IN  {e \in range : Cardinality({f \in range : Before(f, e)}) < Limit}

\* Loki runs the query; what is stored from now on is not in the response.
RunQuery ==
  /\ fetch = "asked"
  /\ fetch' = "answered"
  /\ response' = Response(start, end) /\ seen' = Cardinality(stored)
  /\ UNCHANGED <<lokiVars, pollVars, late, cancelled>>

(***************************************************************************)
(* doPoll.                                                                 *)
(***************************************************************************)
\* The first poll, or a tick of the ticker.
Ask ==
  /\ ~returned /\ fetch = "idle" /\ toSend = {}
  /\ end' = now /\ fetch' = "asked"
  /\ UNCHANGED <<lokiVars, start, response, seen, toSend, sentOut, cut, returned, late, cancelled>>

\* Mutant: start is set to the latest timestamp and not behind it.
Mark_inclusive(lines) == IF lines = {} THEN end ELSE Max({e.ts : e \in lines})

\* Mutant: start moves behind the end of an empty range.
Mark_afterEnd(lines) == IF lines = {} THEN end + 1 ELSE Max({e.ts : e \in lines}) + 1

\* Mutant: start always moves to the end of the range asked for.
Mark_toEnd(lines) == end

Mark(lines) == IF lines = {} THEN end ELSE Max({e.ts : e \in lines}) + 1

NoFetch == fetch' = "idle" /\ response' = {} /\ seen' = 0

\* fetchLogs returns the lines of the response, and the mark moves.
Answer ==
  /\ fetch = "answered" /\ NoFetch
  /\ toSend' = response
  /\ start' = Mark(response)
  /\ cut' = IF Cardinality(response) = Limit THEN cut \cup {Max({e.ts : e \in response})} ELSE cut
  /\ late' = late \cup {e \in stored : e.id >= seen /\ e.ts < start'}
  /\ UNCHANGED <<lokiVars, end, sentOut, returned, cancelled>>

\* A request that cannot be made or a response that cannot be read, before Loki
\* has run the query or after: the next poll asks from start again.
Fail ==
  /\ fetch # "idle" /\ NoFetch
  /\ UNCHANGED <<lokiVars, pollVars, late, cancelled>>

\* out <- line; streams come in any order.
Send(e) ==
  /\ ~returned /\ e \in toSend
  /\ toSend' = toSend \ {e} /\ sentOut' = sentOut \cup {e}
  /\ UNCHANGED <<lokiVars, fetchVars, start, end, cut, returned, late, cancelled>>

\* ctx.Done() in the select of poll, or of a send, after which poll sees it too.
Return ==
  /\ ~returned /\ fetch = "idle" /\ cancelled
  /\ returned' = TRUE
  /\ UNCHANGED <<lokiVars, fetchVars, start, end, toSend, sentOut, cut, late, cancelled>>

Cancel ==
  /\ ~cancelled /\ cancelled' = TRUE
  /\ UNCHANGED <<lokiVars, fetchVars, pollVars, late>>

Next ==
  \/ \E delay \in 0..MaxDelay : Store(delay)
  \/ Tick \/ Ask \/ RunQuery \/ Answer \/ Fail \/ Return \/ Cancel
  \/ \E e \in toSend : Send(e)

Spec == Init /\ [][Next]_vars

\* Not every request fails, in the one stage or in the other, and the pipeline
\* takes the lines.
FairSpec ==
  /\ Spec
  /\ WF_vars(Tick) /\ WF_vars(Ask) /\ SF_vars(RunQuery) /\ SF_vars(Answer)
  /\ WF_vars(\E e \in toSend : Send(e)) /\ WF_vars(Return)
-----------------------------------------------------------------------------
TypeOK ==
  /\ now \in 0..MaxTime /\ end \in 0..now /\ start \in 0..end
  /\ fetch \in {"idle", "asked", "answered"} /\ seen \in 0..Cardinality(stored)
  /\ response \cup toSend \cup sentOut \cup late \subseteq stored
  /\ cancelled \in BOOLEAN /\ returned \in BOOLEAN

\* No line is sent twice, whatever fails and however responses are cut: doPoll
\* asks only for what start has not passed (loki.go:88).
NoRepeat == toSend \cap sentOut = {} /\ \A e \in toSend \cup sentOut : e.ts < start

\* The mark passes an entry only with its line in hand, but for three reasons: the
\* entry was stored behind the mark; it was stored while the response that moved
\* the mark was on its way (loki.go:72-88); or a response was cut between entries
\* of one timestamp (loki.go:87-90 with limit=5000).  The first two befall only
\* entries with a timestamp from before the begin of the last poll: no response
\* overtakes an entry that is stored with a later one.
LossExplained ==
  /\ \A e \in stored : e.ts < start => e \in toSend \cup sentOut \cup late \/ e.ts \in cut
  /\ \A e \in late : e.overdue

\* Whatever is stored before the clock's end is sent some time, but for the losses
\* above, although any poll may fail before Loki runs its query or after
\* (loki.go:70-101).
TimelyIsSent ==
  \A i \in 0..MaxEntries - 1 :
    (\E e \in stored : e.id = i /\ e.ts < MaxTime)
      ~> (cancelled \/ \E e \in stored : e.id = i /\ (e \in sentOut \cup late \/ e.ts \in cut))
=============================================================================
