----------------------------- MODULE Aggregator -----------------------------
(***************************************************************************)
(* The aggregator (internal/alert/aggregator.go): one goroutine that       *)
(* counts the lines of a window in buckets per service and pattern, and    *)
(* flushes one alert per service that reaches MinCount.  The flush ranges  *)
(* over two maps, so in any order, one iteration to a step; its sends do   *)
(* not heed ctx: a slow reader is a delay before each Emit.                *)
(*                                                                         *)
(* A line is its service, pattern ID and severity rank; its text is its    *)
(* place in the order of arrival.                                          *)
(***************************************************************************)
EXTENDS FiniteSetsExt, SequencesExt

CONSTANTS
  Line,        \* what may arrive: records [service, pattern, rank]
  NoPattern,   \* the empty pattern ID, when the pattern engine is disabled
  MinCount,    \* Aggregator.MinCount
  BucketCap,   \* samples a bucket and an alert keep (5)
  PatternCap,  \* samples a pattern summary keeps (3)
  MaxLines     \* bound on the lines received

ASSUME AggregatorAssumption ==
  /\ \A l \in Line : l.rank \in 1..3   \* Filter passes WARN, ERROR and FATAL
  /\ MinCount \in Nat \ {0}
  /\ BucketCap \in Nat /\ PatternCap \in 0..BucketCap
  /\ MaxLines \in Nat

VARIABLES
  received,  \* history: lines received so far
  pc,        \* "select", "flush", "final" flush, or "done"
  buckets,   \* the buckets of the window
  window,    \* history: the lines of the window not yet told of, [text, line]
  unread,    \* flush: the buckets that its first loop has not reached
  services,  \* flush: serviceMap, less what its second loop has been through
  inClosed,  \* the input channel is closed
  cancelled, \* ctx is done
  sent,      \* history: the alerts sent, each with the lines it tells of
  skipped    \* history: the lines of services below MinCount

vars == <<received, pc, buckets, window, unread, services, inClosed, cancelled, sent, skipped>>

Init ==
  /\ received = 0
  /\ pc = "select"
  /\ buckets = <<>> /\ window = {}
  /\ unread = {} /\ services = <<>>
  /\ inClosed = FALSE /\ cancelled = FALSE
  /\ sent = <<>> /\ skipped = {}

(***************************************************************************)
(* bucket.add.                                                             *)
(***************************************************************************)
Key(line) == <<line.service, line.pattern>>

NewBucket == [count |-> 0, rank |-> 0, samples |-> <<>>]

Add(b, line, text) ==
  [count |-> b.count + 1,
   rank |-> IF line.rank > b.rank THEN line.rank ELSE b.rank,
   samples |-> IF Len(b.samples) < BucketCap THEN Append(b.samples, text) ELSE b.samples]

(***************************************************************************)
(* flush.                                                                  *)
(***************************************************************************)
FirstOf(seq, n) == IF Len(seq) <= n THEN seq ELSE SubSeq(seq, 1, n)

StartFlush ==
  /\ unread' = DOMAIN buckets
  /\ UNCHANGED <<received, buckets, window, services, inClosed, cancelled, sent, skipped>>

NewService == [count |-> 0, rank |-> 0, samples |-> <<>>, patterns |-> {}]

Summaries(key, b) ==
  IF key[2] = NoPattern THEN {}
  ELSE {[pattern |-> key[2], count |-> b.count, rank |-> b.rank,
         samples |-> FirstOf(b.samples, PatternCap)]}

\* Mutant: the alert takes the level of the last bucket.
Joined_lastRank(si, key, b) ==
  [count |-> si.count + b.count,
   rank |-> b.rank,
   samples |-> FirstOf(si.samples \o b.samples, BucketCap),
   patterns |-> si.patterns \cup Summaries(key, b)]

Joined(si, key, b) ==
  [count |-> si.count + b.count,
   rank |-> IF b.rank > si.rank THEN b.rank ELSE si.rank,
   samples |-> FirstOf(si.samples \o b.samples, BucketCap),
   patterns |-> si.patterns \cup Summaries(key, b)]

\* The first loop: a bucket joins its service.
Collect(key) ==
  /\ pc \in {"flush", "final"} /\ key \in unread
  /\ LET si == IF key[1] \in DOMAIN services THEN services[key[1]] ELSE NewService
     IN  services' = [svc \in DOMAIN services \cup {key[1]} |->
                        IF svc = key[1] THEN Joined(si, key, buckets[key]) ELSE services[svc]]
  /\ unread' = unread \ {key}
  /\ UNCHANGED <<received, pc, buckets, window, inClosed, cancelled, sent, skipped>>

LinesOf(svc) == {l \in window : l.line.service = svc}

Handled(svc) ==
  /\ pc \in {"flush", "final"} /\ unread = {} /\ svc \in DOMAIN services
  /\ services' = [s \in DOMAIN services \ {svc} |-> services[s]]
  /\ window' = window \ LinesOf(svc)
  /\ UNCHANGED <<received, pc, buckets, unread, inClosed, cancelled>>

\* The second loop: a service with fewer than MinCount lines has no alert.
Skip(svc) ==
  /\ Handled(svc) /\ services[svc].count < MinCount
  /\ skipped' = skipped \cup LinesOf(svc)
  /\ UNCHANGED sent

\* The others have one, with the patterns by falling count; sort.Slice may leave
\* equal counts in any order.
Emit(svc) ==
  /\ Handled(svc) /\ services[svc].count >= MinCount
  /\ \E order \in SetToSeqs(services[svc].patterns) :
       /\ \A i, j \in DOMAIN order : i < j => order[i].count >= order[j].count
       /\ sent' = Append(sent, [service |-> svc, count |-> services[svc].count,
                                rank |-> services[svc].rank, samples |-> services[svc].samples,
                                patterns |-> order, lines |-> LinesOf(svc)])
  /\ UNCHANGED skipped

\* Mutant: the buckets are not made anew after a flush.
FlushReturns_keepBuckets ==
  /\ pc \in {"flush", "final"} /\ unread = {} /\ DOMAIN services = {}
  /\ pc' = IF pc = "flush" THEN "select" ELSE "done"
  /\ UNCHANGED <<received, buckets, window, unread, services, inClosed, cancelled, sent, skipped>>

FlushReturns ==
  /\ pc \in {"flush", "final"} /\ unread = {} /\ DOMAIN services = {}
  /\ pc' = IF pc = "flush" THEN "select" ELSE "done"
  /\ buckets' = <<>>
  /\ UNCHANGED <<received, window, unread, services, inClosed, cancelled, sent, skipped>>

(***************************************************************************)
(* Run.                                                                    *)
(***************************************************************************)
Receive(line) ==
  /\ pc = "select" /\ ~inClosed /\ received < MaxLines
  /\ received' = received + 1
  /\ LET b == IF Key(line) \in DOMAIN buckets THEN buckets[Key(line)] ELSE NewBucket
     IN  buckets' = [key \in DOMAIN buckets \cup {Key(line)} |->
                       IF key = Key(line) THEN Add(b, line, received') ELSE buckets[key]]
  /\ window' = window \cup {[text |-> received', line |-> line]}
  /\ UNCHANGED <<pc, unread, services, inClosed, cancelled, sent, skipped>>

TimerFires == pc = "select" /\ pc' = "flush" /\ StartFlush

\* Mutant: the partial window is dropped when the input ends.
FinalFlush_drop ==
  /\ pc = "select" /\ (inClosed \/ cancelled)
  /\ pc' = "done"
  /\ UNCHANGED <<received, buckets, window, unread, services, inClosed, cancelled, sent, skipped>>

\* The input is closed, or ctx is done: one last flush.
FinalFlush ==
  /\ pc = "select" /\ (inClosed \/ cancelled)
  /\ pc' = "final" /\ StartFlush

CloseInput ==
  /\ pc # "done" /\ ~inClosed /\ inClosed' = TRUE
  /\ UNCHANGED <<received, pc, buckets, window, unread, services, cancelled, sent, skipped>>

Cancel ==
  /\ pc # "done" /\ ~cancelled /\ cancelled' = TRUE
  /\ UNCHANGED <<received, pc, buckets, window, unread, services, inClosed, sent, skipped>>

Next ==
  \/ \E line \in Line : Receive(line)
  \/ TimerFires \/ FinalFlush \/ FlushReturns
  \/ \E key \in unread : Collect(key)
  \/ \E svc \in DOMAIN services : Skip(svc) \/ Emit(svc)
  \/ CloseInput \/ Cancel

Spec == Init /\ [][Next]_vars
-----------------------------------------------------------------------------
TypeOK ==
  /\ pc \in {"select", "flush", "final", "done"}
  /\ pc = "select" => DOMAIN buckets = {Key(l.line) : l \in window}
  /\ \A key \in DOMAIN buckets :
       buckets[key].rank \in 1..3 /\ Len(buckets[key].samples) <= BucketCap
  /\ unread \subseteq DOMAIN buckets
  /\ pc \in {"select", "done"} => unread = {} /\ DOMAIN services = {}
  /\ inClosed \in BOOLEAN /\ cancelled \in BOOLEAN

\* Each line that was received is told of once: it is in the window, in one
\* alert, or in a service that its window found below MinCount.
Texts(lines) == {l.text : l \in lines}
Reported == UNION {Texts(sent[i].lines) : i \in DOMAIN sent}

EachLineOnce ==
  /\ Texts(window) \cup Texts(skipped) \cup Reported = 1..received
  /\ Texts(window) \cap Texts(skipped) = {}
  /\ (Texts(window) \cup Texts(skipped)) \cap Reported = {}
  /\ \A i, j \in DOMAIN sent : i # j => Texts(sent[i].lines) \cap Texts(sent[j].lines) = {}
  /\ pc = "done" => window = {}

\* An alert tells of exactly the lines of its service in its window: their
\* number, the highest severity, as many samples as fit, and the patterns' share,
\* whatever order the maps were ranged over.
Level(lines) == Max({l.line.rank : l \in lines})
OfPattern(a, p) == {l \in a.lines : l.line.pattern = p}

TellsItsWindow(a) ==
  /\ \A l \in a.lines : l.line.service = a.service
  /\ a.count = Cardinality(a.lines) /\ a.count >= MinCount
  /\ a.rank = Level(a.lines)
  /\ ToSet(a.samples) \subseteq Texts(a.lines) /\ IsInjective(a.samples)
  /\ Len(a.samples) = Min({BucketCap, a.count})
  /\ {s.pattern : s \in ToSet(a.patterns)} = {l.line.pattern : l \in a.lines} \ {NoPattern}
  /\ \A s \in ToSet(a.patterns) :
       /\ s.count = Cardinality(OfPattern(a, s.pattern))
       /\ s.rank = Level(OfPattern(a, s.pattern))
       /\ ToSet(s.samples) \subseteq Texts(OfPattern(a, s.pattern))
       /\ Len(s.samples) = Min({PatternCap, s.count})
  /\ \A i, j \in DOMAIN a.patterns :
       i < j => /\ a.patterns[i].count >= a.patterns[j].count
                /\ a.patterns[i].pattern # a.patterns[j].pattern

AlertTellsItsWindow == \A n \in DOMAIN sent : TellsItsWindow(sent[n])
=============================================================================
