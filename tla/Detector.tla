------------------------------ MODULE Detector ------------------------------
(***************************************************************************)
(* The anomaly detector of one service (internal/anomaly: detector.go,     *)
(* baseline.go, store.go): it keeps a moving average and variance of the   *)
(* counts of every template and lets only alerts pass that hold a new      *)
(* pattern, a spike or a jump in rate.                                     *)
(*                                                                         *)
(* The averages are exact: with a decay of Alpha/Base they are fractions,  *)
(* kept as integers over a common weight, Mean as sum / weight and         *)
(* Variance as squares / weight^2.  A comparison with a multiple of the    *)
(* standard deviation is one of squares.  What float64 rounds away is left *)
(* out.                                                                    *)
(*                                                                         *)
(* The clock is read at each evaluation and compared with LastSeen only    *)
(* through the difference: the age of each baseline, up to just above the  *)
(* grace period.                                                           *)
(***************************************************************************)
EXTENDS Integers, SequencesExt, FiniteSetsExt

CONSTANTS
  Template,         \* the templates that patterns may have
  Count,            \* the counts a pattern may have in a window
  Alpha, Base,      \* AnomalyConfig.EMAAlpha = Alpha / Base
  SpikeMultiplier, RateJumpFactor, MinSamples, NewPatternGrace,
  MaxSamples        \* bound on the windows each template is seen in

ASSUME DetectorAssumption ==
  /\ Count \subseteq Nat \ {0}
  /\ Base \in Nat \ {0} /\ Alpha \in 1..Base
  /\ SpikeMultiplier \in Nat \ {0} /\ RateJumpFactor \in Nat \ {0}
  /\ MinSamples \in Nat \ {0} /\ NewPatternGrace \in Nat
  /\ MaxSamples \in Nat

VARIABLES
  store,      \* MemoryStore.baselines; a template never seen has n = 0
  at,         \* Run: "select", "send" or "done"
  kinds,      \* the annotations of the alert last evaluated, by template
  signalled,  \* ctx is done
  counts      \* history: the counts each template was seen with

detectorVars == <<store, at, kinds, signalled, counts>>

DetectorInit ==
  /\ store = [t \in Template |-> [n |-> 0, sum |-> 0, weight |-> 1, squares |-> 0, age |-> 0]]
  /\ at = "select"
  /\ kinds = <<>>
  /\ signalled = FALSE
  /\ counts = [t \in Template |-> <<>>]

(***************************************************************************)
(* PatternBaseline.                                                        *)
(***************************************************************************)
\* count - Mean, over b.weight.
Above(b, count) == count * b.weight - b.sum

Updated(b, count) ==
  LET delta == Above(b, count)
  IN  IF b.n = 0 THEN [n |-> 1, sum |-> count, weight |-> 1, squares |-> 0, age |-> 0]
      ELSE [n |-> b.n + 1, sum |-> Base * b.sum + Alpha * delta, weight |-> Base * b.weight,
            squares |-> (Base - Alpha) * (Base * b.squares + Alpha * (delta * delta)), age |-> 0]

IsNewPattern(b) == b.n = 0 \/ b.age > NewPatternGrace

\* Mutant: warm-up takes one window more.
WarmedUp_late(b) == b.n > MinSamples

WarmedUp(b) == b.n >= MinSamples

\* d, over the weight, lies above SpikeMultiplier standard deviations.
Outlies(b, d) == d > 0 /\ d * d > SpikeMultiplier * SpikeMultiplier * b.squares

\* Mutant: a count at the threshold is a spike.
IsSpike_atLeast(b, count) ==
  LET d == Above(b, count)
  IN  WarmedUp(b) /\ d >= 0 /\ d * d >= SpikeMultiplier * SpikeMultiplier * b.squares

IsSpike(b, count) == WarmedUp(b) /\ Outlies(b, Above(b, count))

IsRateJump(b, count) ==
  WarmedUp(b) /\ b.sum # 0 /\ count * b.weight > RateJumpFactor * b.sum

(***************************************************************************)
(* evaluate.                                                               *)
(***************************************************************************)
Kind(b, count) ==
  CASE IsNewPattern(b)                                              -> "new"
    [] ~IsNewPattern(b) /\ IsSpike(b, count)                        -> "spike"
    [] ~IsNewPattern(b) /\ ~IsSpike(b, count) /\ IsRateJump(b, count) -> "jump"
    [] OTHER                                                        -> "none"

\* An alert without patterns passes as it is.
Passes(annotated) ==
  annotated = <<>> \/ \E t \in DOMAIN annotated : annotated[t] # "none"

\* Mutant: a suppressed alert leaves the baselines as they were.
Evaluate_onlyAlerted(patterns) ==
  /\ at = "select"
  /\ \A t \in DOMAIN patterns : Len(counts[t]) < MaxSamples
  /\ kinds' = [t \in DOMAIN patterns |-> Kind(store[t], patterns[t])]
  /\ store' = [t \in Template |->
                 IF t \in DOMAIN patterns /\ Passes(kinds')
                   THEN Updated(store[t], patterns[t]) ELSE store[t]]
  /\ counts' = [t \in Template |->
                  IF t \in DOMAIN patterns THEN Append(counts[t], patterns[t]) ELSE counts[t]]
  /\ at' = IF Passes(kinds') THEN "send" ELSE "select"
  /\ UNCHANGED signalled

\* patterns: the counts of the alert's pattern summaries, by template.
Evaluate(patterns) ==
  /\ at = "select"
  /\ \A t \in DOMAIN patterns : Len(counts[t]) < MaxSamples
  /\ kinds' = [t \in DOMAIN patterns |-> Kind(store[t], patterns[t])]
  /\ store' = [t \in Template |->
                 IF t \in DOMAIN patterns THEN Updated(store[t], patterns[t]) ELSE store[t]]
  /\ counts' = [t \in Template |->
                  IF t \in DOMAIN patterns THEN Append(counts[t], patterns[t]) ELSE counts[t]]
  /\ at' = IF Passes(kinds') THEN "send" ELSE "select"
  /\ UNCHANGED signalled

Sent ==
  /\ at = "send"
  /\ at' = "select"
  /\ UNCHANGED <<store, kinds, signalled, counts>>

\* ctx is done, in either select, or the input has ended.
Return ==
  /\ at = "select" \/ (at = "send" /\ signalled)
  /\ at' = "done"
  /\ UNCHANGED <<store, kinds, signalled, counts>>

Signal ==
  /\ ~signalled
  /\ signalled' = TRUE
  /\ UNCHANGED <<store, at, kinds, counts>>

Time ==
  /\ at # "done"
  /\ store' = [t \in Template |->
                 [store[t] EXCEPT !.age = IF store[t].n = 0 \/ @ > NewPatternGrace THEN @ ELSE @ + 1]]
  /\ UNCHANGED <<at, kinds, signalled, counts>>

Alert == UNION {[templates -> Count] : templates \in SUBSET Template}

DetectorNext ==
  \/ \E patterns \in Alert : Evaluate(patterns)
  \/ Sent \/ Return \/ Signal \/ Time

DetectorSpec == DetectorInit /\ [][DetectorNext]_detectorVars
-----------------------------------------------------------------------------
(***************************************************************************)
(* The definition the updates are to compute: of k counts, the first       *)
(* weighs (1 - alpha)^(k-1) and the i-th alpha (1 - alpha)^(k-i).  Weights *)
(* are in units of 1/Base^(k-1), and so add up to Base^(k-1).              *)
(***************************************************************************)
Power(b, n) ==
  LET power[i \in 0..n] == IF i = 0 THEN 1 ELSE b * power[i - 1] IN power[n]

Weight(i, k) ==
  IF i = 1 THEN Power(Base - Alpha, k - 1)
  ELSE Alpha * Power(Base - Alpha, k - i) * Power(Base, i - 2)

\* f[1] + ... + f[k].
Total(f, k) ==
  LET total[i \in 0..k] == IF i = 0 THEN 0 ELSE total[i - 1] + f[i] IN total[k]

\* Step by step and in one pass, the detector computes the weighted mean and
\* the weighted variance of all counts of a template, those of the windows it
\* suppressed included.
IsEMA(b, cs) ==
  LET k == Len(cs)
  IN  /\ b.n = k
      /\ b.weight = Power(Base, k - 1)
      /\ b.sum = Total([i \in 1..k |-> Weight(i, k) * cs[i]], k)
      /\ b.squares * b.weight
           = Total([i \in 1..k |-> Weight(i, k) * (Above(b, cs[i]) * Above(b, cs[i]))], k)

BaselineIsEMA == \A t \in Template : counts[t] # <<>> => IsEMA(store[t], counts[t])

\* A level that lasts is told once: with a decay that settles, a template seen
\* again with the count it was last seen with, before the grace period is over,
\* is not anomalous, whatever its counts before.
Settles == Base - Alpha <= SpikeMultiplier * SpikeMultiplier * Alpha /\ Base <= RateJumpFactor * Alpha

Repeats(t) ==
  /\ counts'[t] # counts[t] /\ counts[t] # <<>>
  /\ Last(counts'[t]) = Last(counts[t])
  /\ store[t].age <= NewPatternGrace
RepeatIsSilent == [][Settles => \A t \in Template : Repeats(t) => kinds'[t] = "none"]_detectorVars

\* Old outliers widen the variance, but never so far that they hide a count
\* which lies above all counts so far by more than half the multiplier times
\* their spread: after the warm-up it passes.  Nothing is said of a template
\* whose counts were all equal: there any rise is a spike (baseline.go:52), which
\* PHASE3_TEST_PLAN.md:127-130 does not expect.
FarAbove(t) ==
  LET seen == ToSet(counts[t])
      high == Max(seen)
  IN  /\ Len(counts[t]) >= MinSamples /\ high > Min(seen)
      /\ counts'[t] # counts[t]
      /\ 2 * (Last(counts'[t]) - high) > SpikeMultiplier * (high - Min(seen))
FarAboveAlerts == [][\A t \in Template : FarAbove(t) => at' = "send" /\ kinds'[t] # "none"]_detectorVars
=============================================================================
