# A TLA+ model of log_agent

`log_agent` reads the logs of services, mines templates from them, counts them in
windows, detects anomalies, groups the anomalies of dependent services into incidents and
notifies people. It is one Go process: a chain of goroutines joined by channels. These
modules model the parts of it whose correctness depends on order, time, failure or state,
TLC checks them on small instances, and TLAPS proves nearly all of their safety for all
values of the parameters. Paths in this text are relative to the repository.

1. [The system](#1-the-system)  2. [Plan](#2-plan)  3. [The modules](#3-the-modules)
4. [The runs](#4-the-runs)  5. [Fairness](#5-fairness)  6. [Proofs](#6-proofs)
7. [Abstractions](#7-abstractions)  8. [Where code and documents differ](#8-where-code-and-documents-differ)
9. [Not modelled](#9-not-modelled)

## 1. The system

```
per service:  source -> Filter -> [PatternEngine/Drain] -> Aggregator -> [AnomalyDetector] -.
shared:       MergeAlerts <-----------------------------------------------------------------'
              -> Correlator | WrapAlerts -> [Diagnoser] -> LifecycleManager -> Dispatch loop
```

Stages in brackets are optional. Every arrow is a channel; each stage but the last is a
goroutine that closes its output when it returns. The context is cancelled by SIGINT or
SIGTERM.

| component | state | operations | what makes it correct |
|---|---|---|---|
| LokiSource `internal/ingest/loki.go` | high-water mark | poll, fetch, send | no line twice; an entry left behind only for a known reason; a failed poll is made good |
| FileSource `internal/ingest/file.go` | position in the file | send, pause, end | every line once; ends |
| Filter `internal/ingest/filter.go` | none | take, drop, send | nothing lost but what has no level |
| Drain `internal/pattern/drain.go` | prefix tree, pattern map, LRU order | route, match, merge, create, evict | tree and map agree; memory is bounded; routing is stable |
| Aggregator `internal/alert/aggregator.go` | buckets, timer | add, flush | each line counts once; an alert tells of its window |
| AnomalyDetector `internal/anomaly` | baseline per template | classify, update | compares with the past only; warm-up; grace |
| MergeAlerts, WrapAlerts | none | pass on | output closes last |
| DependencyGraph `internal/correlator/depgraph.go` | components, depths | construction | exact on every graph and in every map order |
| Correlator `internal/correlator/correlator.go` | buffer, timer | receive, flush, build incident | no alert lost or doubled; grouping is by window and component |
| Diagnoser, LLM client `internal/diagnosis` | the incident in hand | request, one retry, heuristic | an incident always goes on, and with a severity |
| LifecycleManager `internal/incident/lifecycle.go` | map of open incidents, ticker | open, update, suppress, resolve, shut down | the feed of each incident is opened, updated\*, resolved; nothing stays open for ever |
| Channels, Dispatcher `internal/notify`, `buildNotifiers` | goroutine per notifier | register, fan out, wait | every reader sees whole episodes; a failure holds nobody up; no notification without an addressee |

What is hard: the select statements serve ready cases in any order; a stage that waits in
a send serves nothing else; relays notice a signal in their sends and flushing stages do
not; timers and tickers run on while a stage is blocked; maps are iterated in random
order; external services are late or fail. PROJECT.json lists these hazards at their lines
with the properties that cover them.

## 2. Plan

Done, in order of importance: LifecycleManager with its abstract feed and its proofs;
Pipeline (channels, closing, signal); Correlator and DependencyGraph; Diagnoser and
Dispatcher, composed with Lifecycle in Delivery; Aggregator; Detector; Drain; LokiSource.

Next, if the runs are to grow further: a composition of `Drain`, `Aggregator` and
`Detector` for template drift and for windows below MinCount, which the baselines never
see; FileSource in detail (pauses, blank lines) as a refinement of Pipeline's source.

Proofs: done for the safety of every component (section 6). Left are the statements that
section 6 lists as only model-checked, and the types of Detector's `kinds` and `at`. A
module that theorems are about declares no recursive operator, and each constant's
assumption is named.

## 3. The modules

**Lifecycle** (`lifecycle.go`). `tracked` is the map; an entry keeps the ages of lastSeen
and lastNotified, saturated above the threshold they are compared with, so the clock needs
no bound. `pc` tells where the Run goroutine is: `select`, one of its blocking sends
(`emit`, `resolve`, `drain`), or `done`. `held` are notifications that have left the map
and are not sent yet. `ProcessIncident` = `OpenIncident`, `SuppressUpdate` or
`UpdateIncident`; `CheckAutoResolve` empties the map of stale entries at once and sends
afterwards, as the code does; `EmitAborted` and `ResolveAborted` are the two ctx.Done()
branches that discard notifications. `busy` is the dispatch loop inside Dispatch. The
history variables `feed` and `lost` say what the channels were told and for which IDs
something was discarded.
**IncidentFeed** is the abstract promise: episodes per ID, and a feed that closes with
nothing open except for IDs that lost a notification. Lifecycle implements it with
`lossy <- cancelled` (nothing is lost before the signal), `closed <- pc = "done"`; Delivery
implements it once more for every reader of every channel, with `lossy <- TRUE`.
**LifecycleProofs** proves it (section 6). **LifecycleClaims** states two claims of the
documents that do not hold. **MCLifecycle** holds the instances.

**Pipeline** (`main.go`, `merge.go`, `wrap.go` and the Run functions). `PerService` and
`Shared` are the wiring, derived from the same switches as the configuration. A stage is a
*relay* (take one item, pass it on or drop it, heed ctx everywhere) or a *dam* (gather,
flush on a timer and at the end, deaf to ctx in its sends; an aggregator may also find the
window below MinCount, `DamSkips`). A channel is closed when all
its writers have returned; `merged` when all merge goroutines have. An item is the set of
log lines in it, so lines can be followed to `delivered`, `dropped` or a place on the way.
`scenario`, chosen at the start, says how many lines which service has and whether a
signal may come.
**PipelineClaims** states one claim of the README that does not hold.

**Correlator** (`correlator.go`, `core/incident.go`). Run's select, the flush with one
`Emit` per group in any order, grouping, root, chain and ID. Slices of alerts are sets:
each alert carries its serial number, and every slice of the code is in their order.
What reads the output (the diagnoser, or the lifecycle manager) is `reading` until it
returns on ctx.Done(), in `ReaderReturns`; then only the `room` it left in the channel takes
incidents, and `Emit` may wait for ever.
**ServiceGraph** defines what components and depths mean, without a search. **DepGraph**
(`depgraph.go`) computes them as the code does, one expansion per step, in every order, and
is checked against ServiceGraph; Correlator uses the definitions.

**Diagnoser** (`diagnoser.go`, `llm.go`, `parse.go`). `stage` is where the goroutine is:
its select, the request, the wait before the one retry, the retry, a request that ctx
refused, or the send; `inHand` is the incident, graded once it is to be sent. `Answer`,
`Retryable`, `RequestFails`, `WaitOver` and `WaitCancelled` are the branches of Complete
and diagnose. How long each takes is left open.

**Dispatcher** (`notifier.go`, `buildNotifiers` and the loop in `main.go`, the Send
functions). `routes` is built from a channel configuration as `buildNotifiers` does,
skipping what cannot be used. One goroutine per matching notifier returns `ok`, `failed`
or `aborted`; Slack and Teams heed their context, email and log do not. `elapsed` counts
time inside one Dispatch. `Tells` says whether the message shows its event.

**Delivery** composes Diagnoser, Lifecycle and Dispatcher. A step of two of them is a
conjunction of their actions: `PassOn` (the diagnoser's send and the manager's channel),
`HandOver` (the manager's unbuffered send and the start of Dispatch), `Time`. The
manager's `busy` is `note # None`: the dispatch loop has a notification in hand. History:
`shown`, the last event each reader was shown; `missed`, for whom the chain of events of
an ID is broken; `openedAs`, the severity an episode began with. **MCDelivery** holds five
configurations of channels, of which the initial state picks one, so that their state
spaces add up instead of multiplying.

**Detector** (`internal/anomaly`). `store` maps each template to its baseline; `Evaluate`
classifies every pattern of an alert against the baseline before it, updates all of them,
and decides whether the alert passes. The averages are exact: Mean is `sum / weight` and
Variance `squares / weight^2`, all integers, so that the updates need no division and
comparisons are of products. `counts` is history. The reference definition of the averages
(`IsEMA`) sums over all counts with the recursive functions `Power` and `Total`. Its
specification is `DetectorSpec` and its names differ from Aggregator's, so that one module,
AlertProofs, can extend both.

**Aggregator** (`aggregator.go`). `buckets`, `bucket.add` as `Add`, and the flush as the two
loops it is, one map iteration to a step and in any order: `Collect` joins a bucket to its
service in `services` (serviceMap), then `Skip` or `Emit` takes a service out. `window`,
`skipped` and the field `lines` are history: the lines that a bucket, a service below
MinCount and an alert stand for.

**Drain** (`drain.go`). The tree is a function from paths to clusters, the pattern map goes
from template to object, and both hold references to objects, so that their agreement is
not built in. `Routes` says which leaf getLeaf takes a line to. `Match` and `Create` are the
two outcomes of Process, each with the whole of routing, merging, re-identification and
eviction. Depth is at least 2, as a depth of 1 acts the same.

**LokiSource** (`loki.go`). `Ask` fixes the end of the range and sends the request; Loki
evaluates it in `RunQuery`, and its `response` is on the way until `Answer` (fetchLogs
returns and the mark moves, by `Mark`) or `Fail`, which may also end the request before Loki
has seen it. `Send` and `Return` are the select. Loki is external: `Store` puts an entry in
it up to MaxDelay after its timestamp, at any time, also while a response is on the way.
History: `late`, the entries stored behind the mark or passed by a response made before
them; `cut`; and in each entry whether it was `overdue`, older than the begin of the last
poll.

The theorems about a module are in **`<Module>Proofs`**, those about Aggregator and Detector
in **AlertProofs** (section 6).

## 4. The runs

| run | instance | shows |
|---|---|---|
| lifecycle | 2 IDs, windows of 2 units, input capacity 1 | TypeOK; **FeedAgrees**: map and channels agree up to discarded notifications; **OverdueHasTick**: dropped ticks strand no incident; **ImplementsFeed**: refinement; **EventuallyResolved**, **Terminates** |
| drain | 7 lines and the empty one, Depth 3, MaxChildren 2, MaxPatterns 2, threshold 1/2 | **IndexAgrees**, **Bounded**, **RepeatIsStable**, **RoutingIsSticky** |
| depgraph | all graphs of 4 services, up to renaming | **ComponentsExact**, **DepthsExact**, **Ends**: never stuck before it is done, and each step uses up a bounded measure |
| correlator | 4 services (two connected, with 2 scores, one alone, one unknown), 3 alerts, windows of 1 up to time 2, room for 1 incident in the output | **NoAlertLost**, **OneIncidentPerWindow**, **ChainFromRoot**; **EventuallyEmitted**: what is buffered is emitted while there is a reader; **ClosesOutput**: the goroutine ends, or it waits in a send for a reader that has returned |
| delivery | 5 channel configurations, one incident each, windows and timeouts of 1 | **ReadersSeeEpisodes**: per channel and ID, episodes up to named losses; **AlwaysRouted**: nothing graded slips between filters that share all severities; **PassedOn**: hung webhooks and failing requests stop no incident for ever |
| detector | 2 templates, counts 1, 4 and 9, decay 1/3, multiplier 3, factor 3, warm-up 2, up to 4 windows | **BaselineIsEMA**: the updates compute the weighted mean and variance; **RepeatIsSilent**: a level that lasts alerts once; **FarAboveAlerts**: no history of counts that vary hides one far above all of them |
| aggregator | 2 services, 2 patterns and none, 2 levels, 4 lines, MinCount 2, caps 2 and 1 | **EachLineOnce**, **AlertTellsItsWindow** |
| pipeline | 2 file services of 2 and 1 lines; one file service of 2 lines with a signal; one Loki service of 2 lines with a signal; capacities 1 | **NoLineLost**, **DeliveredAtEnd**, **NeverStuck**, **SignalEndsRelays** |
| loki | 4 entries, delay up to 2, limit 2, clock to 3 | **NoRepeat**; **LossExplained**: the mark passes an entry without its line for three reasons only; **TimelyIsSent** |
| claim_close, claim_unset_id, claim_partial_alerts | as above | violations, section 8 |

*Why the bounds are enough.* Capacities of one make every send block at once; two items
per producer let a stage hold one while the next waits. Two IDs in the lifecycle manager
let one incident keep it busy while another must be resolved, and windows of two units
have a state strictly inside, at and past each threshold. Drain's instance reaches a full
node, a merge that meets another pattern's template, and eviction while a leaf is in use.
Four services are the smallest graphs with a long and a short way to a service next to a
second component. Three alerts give a group of two beside another, or two windows. Four
entries with limit 2 give cut responses inside and at the border of one timestamp.
Delivery's configurations give a filter that severities cross, a list that an ungraded
incident would not pass, two webhooks at a time, an email that always fails beside a
webhook, and no usable channel; every other interplay of two incidents is in the lifecycle
run. A channel with room for one incident lets a reader leave it empty or full.
Detector's counts reach all four kinds: the second 9 of 1, 9, 1, 9 is a rate jump and no
spike, and 9 after 1 and 4 lies just far enough above them for FarAboveAlerts.
RepeatIsSilent assumes `Settles` (1 - alpha <= m^2 alpha and f alpha >= 1), which the
defaults alpha = 0.3, m = 3, f = 5 fulfil, and the instance just so (f alpha = 1).
Deadlock is not checked where the system may stop (all but Drain); Pipeline's NeverStuck
and DepGraph's Ends say where stopping is right.

Every property of a passing run has a mutant: a definition named `<Definition>_<change>`
beside the one it would replace, with a plausible bug, under which TLC finds the property
violated.

## 5. Fairness

A goroutine that can step does (weak fairness). Go's select chooses at random among its
ready cases; a case that is ready again and again is taken with probability one, hence
strong fairness for the cases of a select (Lifecycle, Delivery); in Pipeline, where a
signal stays and a closed channel stays closed, weak fairness of each goroutine is enough.
Time passes (weak fairness of the clock). Of the outside it is assumed that a consumer
goes on receiving -- the correlator's only until a signal makes it return, as the code lets
it -- that an email's Send returns some time (it has no deadline of its own;
of a webhook Delivery assumes only that the end of its context is noticed), that an LLM
request ends (its client has a timeout) and the delay the server asks for is finite, and
that not every Loki request fails for ever, before Loki runs the query or on the way back
(strong fairness of RunQuery and Answer). No fairness is assumed of incidents, of log
lines, of the end of the input or of signals. A safety property never depends on any of
this.

## 6. Proofs

Every theorem is about the specification that TLC runs, for every value of its constants,
from the named assumption of its module alone. None of the invariants below is inductive
by itself; the third column says what the inductive one adds, and why.

| theorems | prove | by |
|---|---|---|
| LifecycleProofs `TypeCorrect`, `FeedAgreement`, `TicksNotMissed`, `FeedRefinement` | TypeOK, FeedAgrees, OverdueHasTick, ImplementsFeed | `IInv`, see below |
| DeliveryProofs `ImplementsManager`, `TypeCorrect`, `Routed`, `ReadersRefine` | the manager inside Delivery is a Lifecycle; TypeOK, AlwaysRouted, ReadersSeeEpisodes | what the diagnoser has in hand fits its stage; whatever is in the manager or dispatcher is graded; exactly the matching channels were given the notification; a reader who missed nothing agrees with the manager's `feed` up to the notification a channel has still to show |
| LokiSourceProofs `TypeCorrect`, `NothingTwice`, `OnlyThreeLosses` | TypeOK, NoRepeat, LossExplained | entries have IDs of their own; nothing is asked while lines are unsent; a response on the way is what a query from the present start found among the entries stored by then (`ResponseInv`), so that those it lacks are newer, cut, or stored since. The lemma on a response, that what a full one leaves out is not older than what it has, rests on ranks in a finite order |
| DrainProofs `TypeCorrect`, `MapAndTreeAgree`, `MemoryBounded`, `LinesKeepTheirLeaf`, `RepeatedLineIsStable` | TypeOK, IndexAgrees, Bounded, RoutingIsSticky, RepeatIsStable | every cluster is in the leaf that its own template leads to, and a merge, which only widens tokens, does not move it; nodes below the root have at most MaxChildren keys and the wildcard; the last line leads to the leaf of the pattern it was stamped with, which covers it as no cluster before it does |
| DepGraphProofs `TypeCorrect`, `Components`, `Depths`, `StepsRunOut`, `SearchesGoOn` | TypeOK, ComponentsExact, DepthsExact, and both halves of Ends: each step decreases a natural number, and some step can be taken until the searches are done | first search: finished components are closed under calls both ways, the one being explored is connected and closed up to the queue. Second: the queue is sorted by depth and spans at most two neighbouring ones, and all services nearer than its head are found |
| CorrelatorProofs `TypeCorrect`, `AlertsKept`, `IncidentsAreComponents`, `ChainsAreSorted` | TypeOK, NoAlertLost, OneIncidentPerWindow, ChainFromRoot | each alert is in one place; what is flushed has an older window than the buffer; two flushed groups are one exactly when a window and a component join their alerts |
| AlertProofs `TypeCorrect`, `LinesToldOnce`, `AlertsTell` | Aggregator's TypeOK, EachLineOnce, AlertTellsItsWindow | a bucket tells of its lines of the window, a service of the lines of the buckets already read, and during a flush every line of the window waits in one of the two |
| AlertProofs `BaselinesSound`, `LevelToldOnce`, `SpikesPass` | Detector's RepeatIsSilent, FarAboveAlerts | every range [lo, hi] that holds a template's counts holds its mean, and its variance is at most (hi - mean)(mean - lo), an inequality that updates preserve; after an update the last count is near, if the decay settles |
| AlertProofs `BaselinesAverage` | Detector's BaselineIsEMA | the weighted totals of ones, counts and squares follow each update; mean and variance are made of them, the variance as E[c^2] - E[c]^2; see below |
| AlertProofs `AlertsAreInputs` | what Aggregator sends is what Detector takes: no template twice in an alert, no count of zero | the invariants of Aggregator |
| PipelineProofs `TypeCorrect`, `LinesKept`, `Delivery` | TypeOK, NoLineLost, DeliveredAtEnd | a stage that has returned holds nothing and left nothing in its input unless there was a signal; places have no line in common; without a signal every line is somewhere |
| PipelineProofs `NoCircularWait`, `WorkRunsOut` | some goroutine can move until all have returned, and every step makes the finite set of work ahead smaller | a goroutine that waits with an empty output waits for one that runs, up to the sources; see below |

*Lifecycle.* `IInv` adds: notifications in hand continue the feed (`HeldContinuesFeed`), at
most one per ID (`HeldOncePerId`), none outside the sends and no entry during shutdown
(`PcMatches`), an entry's incident has its ID (`EntryUnderItsId`), an entry without a waiting
tick has an age of at most ResolveAfter plus the ticker's phase (`TickBeforeOverdue`, which
turns "a tick is never late by more than an interval" into an invariant), and something is
lost only after cancellation (`LostOnlyCancelled`). The refinement maps each action to
Publish, Lose, GetLossy, a close or a stutter.

*Detector.* `Total(f, k)` is a recursive function; that there is one, and what it is at
k + 1, is shown by induction over sets of numbers (the well-founded minimum of the
counterexamples), since the library's induction takes an operator. From that an update
multiplies the totals by 1 - alpha and adds the new term (`TotalStep`, `MomentStep`), which
is what the code's incremental formulas do to the mean and, with the identity for squares,
to the variance.

*Pipeline.* `Ahead` has for each line the moves left to it, which depend on its place
alone (`Rank`: from unread over every channel, hand and window on its way down to 0), for each
goroutine its return, for each dam its last window, and the signal. A step moves a
non-empty item to a place of lower rank or takes one of the others away; that items are
not empty, and that only the last flush of a dam may have nothing to send, is its
inductive invariant. With NoCircularWait: if the sources end and no signal comes, every
behaviour that does not stop while a step is possible ends with all goroutines returned.

*Delivery* is proved by composition: its steps are shown to be steps or stutters of Lifecycle
with `busy <- note # None`, and the refinement for each reader of each channel then uses
`IInv` as it stands.

*Assumptions.* They are what the code does or what its configuration must be: the constants
have their types, an incident's ID is one of the IDs, CheckInterval is positive (NewTicker
panics otherwise), a graph and a set of configured services are finite, capacities and the
correlator's window are positive (the code replaces a window of zero), Drain has an object
to spare beyond MaxPatterns, counts and the detector's thresholds are positive integers.
LevelToldOnce is about decays that settle, which its property states (`Settles`).
AlertsAreInputs, about two components, takes the patterns of the lines to be Detector's
templates and any positive number to be a count.

*Only model-checked*, and why:

* liveness under fairness (EventuallyResolved, Terminates, EventuallyEmitted, ClosesOutput,
  PassedOn, SignalEndsRelays, TimelyIsSent): temporal reasoning with ENABLED is beyond the
  prover;
* Pipeline's NeverStuck and DepGraph's Ends as they are written, with ENABLED: NoCircularWait
  and SearchesGoOn prove them with the guards and successors written out in its place, and
  WorkRunsOut and StepsRunOut that the steps run out.

## 7. Abstractions

* Hashes (incident IDs, pattern IDs) are injective: an ID is what it is computed from.
* Payloads are dropped: message texts, samples' contents, diagnosis, OpenedAt, Duration.
* Time: ages in Lifecycle, Dispatcher and Detector; a bounded clock in Correlator and
  LokiSource; none in Diagnoser, whose requests and delays may take any time; in
  Aggregator and Pipeline a timer may fire whenever it is waited for, which allows more.
* Services are numbers in Correlator: their alphabetical position.
* An unbuffered channel has capacity one in Pipeline.
* A graph in DepGraph has no repeated edge, which the searches would visit once anyway.
* Drain's LastMatched is an order: two matches never have equal time stamps.
* Detector computes exactly, over a common weight; what float64 rounds away is left out.
  Counts are positive, as Aggregator's are (AlertsAreInputs), and thresholds are positive integers.
* A reader of an ID of which he missed a notification is not followed further (`missed`).
* Loki's entries are sent in any order within a response.

## 8. Where code and documents differ

Shown by a run:

* `claim_close`: notifications of checkAutoResolve that a signal interrupts are gone
  (`lifecycle.go:171-176`), while `docs/phase6-notify-dedup-design.md:412` promises that
  all tracked incidents are resolved before the output closes.
* `claim_unset_id`: without the correlator every incident has the empty ID
  (`wrap.go:23-28`), and one service's incident is suppressed as another's repetition.
* `claim_partial_alerts`: a relay may stop before the aggregator has flushed
  (`detector.go:74`), while `README.md:243` says that partial alerts are still sent.

Noticed while modelling, without a run of their own: a resolved can follow a discarded
opened (`lifecycle.go:71`, visible as `lost` in the refinement); lastNotified precedes a
send that may wait (`lifecycle.go:131` against `:14`); a file source may wait for ever
after a signal (`file.go:115` against `PHASE1_TEST_PLAN.md:433`); with the channel full and
its reader gone the correlator waits in its send for ever (`correlator.go:104`, named by
ClosesOutput, against `PHASE4_DESIGN.md:254`, "Close output immediately"); an entry that
Loki stores late, or while a response is on the way, may be passed by the mark (`loki.go:88`,
named by LossExplained, against `PHASE1_DESIGN.md:73-76`, "This is safe"); email has no
timeout (`email.go:46` against `PHASE1_DESIGN.md:196`); after a signal Dispatch
passes on a context that is done (`main.go:411`); an undiagnosed incident matches no list
of severities (`notifier.go:35` against `DESIGN.md:468`); the root's score is that of its last
alert (`correlator.go:140` against `PHASE4_DESIGN.md:198`); the depth of a shared dependency
is its shortest (`depgraph.go:110-120`), so that it may stand behind its caller, against the
rationale of `PHASE4_DESIGN.md:194-196`; the ID of the same outage changes with the window
(`incident.go:57` against `DESIGN.md:422`); templates drift as patterns absorb lines
(`drain.go:153` against `detector.go:107-108`); after equal counts the smallest rise is a
spike (`baseline.go:52`, against `PHASE3_TEST_PLAN.md:127-130`, where 33 after twenty windows
of 32 is none, and `:272-274`, where 30 after ten windows of 10 is suppressed), for which
reason FarAboveAlerts leaves such templates out; baselines are
updated once per alert, not "once per aggregation window" (`baseline.go:9`), as windows
below MinCount make none; a network timeout of the LLM gives the heuristic severity
(`diagnoser.go:66`, against `PHASE5_DESIGN.md:238`, "passes incident through unenriched");
Teams is not asked again on 429 (`teams.go:53-62`, against
`docs/phase6-notify-dedup-design.md:431`); email's Send takes no deadline from its context
(`email.go:46`, against `:242`); to Slack and log the end of a single alert looks like its
beginning (`slack.go:30`, `log.go:25`, against
`docs/phase6-notify-dedup-testplan.md:147`, `:155`).

## 9. Not modelled

Configuration loading (but for the channels) and start-up failures (sequential, before any
goroutine); regular expressions, JSON extraction and level keywords (string rewriting);
message layout; prompt and answer text (but for the severity); LoadFromYAML; ShortestPath
(tests only); test utilities and mock servers. How long an LLM request, a Retry-After
delay or an email takes has no bound in the code and none in the models: what is late
because of them (an incident resolved while its next alert waits in the diagnoser) is
allowed by every property.
