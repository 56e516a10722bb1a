----------------------------- MODULE FeedHealth -----------------------------
(***************************************************************************)
(* How a profile's feed is judged: every collection's metrics are compared *)
(* with the runs on file and with a baseline, the decision is recorded,    *)
(* and the baseline is built again from the records                        *)
(* (evaluate_calibration_need, ProfileEvaluationService.evaluate,          *)
(* FileStateStore.record_profile_run and seed_baseline,                    *)
(* build_metric_baseline).                                                 *)
(*                                                                         *)
(* A collection is what it has left in its run directory                   *)
(* (collect_run_metrics).                                                  *)
(*                                                                         *)
(* A rate is a whole number and a ratio a percentage.  What a decision     *)
(* takes from the calibrations - targets, limits, cooldowns, the interval  *)
(* of the maintenance - is RecoveryCycle's and an input here, as is the    *)
(* Wilson bound of a relevance rate.                                       *)
(***************************************************************************)
EXTENDS Integers, Sequences, FiniteSetsExt, SequencesExt

CONSTANTS
  Collections,   \* what a collection can leave behind
  Requested,     \* the minutes it was to take
  Policy,        \* CalibrationPolicy
  QualityGuard,  \* profile.quality_guard
  Keep,          \* runs kept per profile, 100 in the code
  MaxSeeds       \* bound: baselines an operator seeds

Stops == {"none", "timeout", "bad"}  \* timeout: resolve_timeout, video_timeout

Absent == [total |-> 0, classified |-> 0, relevant |-> 0, landings |-> 0, there |-> FALSE]

ASSUME HealthAssumption ==
  LET file == [total : Nat, classified : Nat, relevant : Nat, landings : Nat, there : {TRUE}]
                \cup {Absent}
  IN /\ Collections \subseteq
          [completed : BOOLEAN, summary : BOOLEAN, stop : Stops, geo : BOOLEAN, mode : Nat,
           minutes : Nat, lastAd : Nat, scrolls : Nat,
           classified : file, complete : file, partial : file]
     /\ QualityGuard \in BOOLEAN /\ {Keep, Requested} \subseteq Nat \ {0} /\ MaxSeeds \in Nat
     /\ {Policy.minSamples, Policy.maxSamples} \subseteq Nat \ {0}
     /\ {Policy.zeroWindows, Policy.absoluteWindows, Policy.lowWindows, Policy.softWindows}
          \subseteq Nat \ {0}

VARIABLES
  runs,     \* the state file's runs of the profile, oldest first
  pending,  \* the collection that is judged and not yet recorded
  seeds

healthVars == <<runs, pending, seeds>>

-----------------------------------------------------------------------------
(* The metrics of a collection.                                            *)

\* load_ads: the first file there is.
AdsOf(c) ==
  IF c.classified.there THEN c.classified
  ELSE IF c.complete.there THEN c.complete ELSE c.partial

\* What did not end by itself is timed by its last ad, if it has one.
Minutes(c) ==
  IF c.summary THEN c.minutes
  ELSE IF AdsOf(c).total > 0 THEN c.lastAd ELSE Requested

NoRate == -1
Per(n, of, total) == IF total = 0 THEN NoRate ELSE (of * n) \div total

\* collect_run_metrics: relevance counts where nine ads out of ten have a verdict,
\* otherwise the landings do.
Measured(c) ==
  LET ads     == AdsOf(c)
      known   == ads.classified > 0 /\ 10 * ads.classified >= 9 * ads.total
      targets == IF known THEN ads.relevant ELSE ads.landings
      scrolls == IF c.summary THEN c.scrolls ELSE 0
      minutes == Minutes(c)
  IN [completed    |-> c.completed,
      stop         |-> IF c.summary THEN c.stop ELSE "none",
      geo          |-> c.geo,
      mode         |-> c.mode,
      bucket       |-> Max({1, (2 * minutes + 5) \div 10}),
      full         |-> minutes >= Policy.minMinutes,
      scrolled     |-> scrolls >= Policy.minScrolls,
      ads          |-> ads.total,
      classified   |-> IF known THEN ads.classified ELSE 0,
      relevant     |-> IF known THEN ads.relevant ELSE 0,
      targets      |-> targets,
      adsPerHour   |-> Per(ads.total, 60, minutes),
      yield        |-> Per(targets, 60, minutes),
      density      |-> Per(ads.total, 100, scrolls),
      yieldDensity |-> Per(targets, 100, scrolls)]

Windows == {Measured(c) : c \in Collections}

-----------------------------------------------------------------------------
(* A window, and how it compares.                                          *)

Classified(w) == w.classified > 0
Rate(w) == (100 * w.relevant) \div w.classified

ValidObservation(w) ==
  w.completed /\ w.stop = "none" /\ w.geo /\ w.full /\ (w.ads = 0 => w.scrolled)

\* A timeout comes after the feed sample and leaves the relevance valid.
ValidRelevance(w) == w.completed /\ w.stop # "bad" /\ w.geo /\ Classified(w)

AboveBenchmark(w) ==
  Classified(w) /\ Rate(w) >= Policy.healthyRate /\ w.relevant >= Policy.healthyAds

YieldComparable(w) == Classified(w) => ValidRelevance(w) /\ AboveBenchmark(w)

\* is_baseline_candidate
Good(w) ==
  /\ w.completed /\ w.stop = "none" /\ w.geo /\ w.full
  /\ w.ads >= Policy.goodAds /\ w.targets >= Policy.goodTargets

SameMode(v, w) == v.mode = w.mode
SameSeries(v, w) == v.mode = w.mode /\ v.bucket = w.bucket

\* A reference is twice a median, 0 if there is none; what was not measured is not low.
Below(value, reference, ratio) ==
  value # NoRate /\ reference > 0 /\ 200 * value < reference * ratio
FarBelow(value, reference, ratio, drop) ==
  Below(value, reference, ratio) /\ reference - 2 * value >= 2 * drop

\* Mutation: a window that does not qualify is passed over.
Anywhere(n, qualifying) == Cardinality(qualifying)

\* How many of n windows qualify in a row, newest first.
InARow(n, qualifying) == n - Max(((1..n) \ qualifying) \cup {0})

\* consecutive_count, of the windows at some positions
Streak(ws, positions) == InARow(Len(ws), positions)

InSeries(ws) == {i \in DOMAIN ws : SameSeries(Last(ws), ws[i])}
InMode(ws) == {i \in DOMAIN ws : SameMode(Last(ws), ws[i])}

-----------------------------------------------------------------------------
(* The baseline.                                                           *)

\* The elements of s at some of its positions, in their order.
Chosen(s, positions) ==
  LET chosen[n \in 0..Len(s)] ==
        IF n = 0 THEN <<>>
        ELSE IF n \in positions THEN Append(chosen[n - 1], s[n]) ELSE chosen[n - 1]
  IN chosen[Len(s)]

NewestOf(s, n) == SubSeq(s, IF Len(s) > n THEN Len(s) - n + 1 ELSE 1, Len(s))

TwiceMedian(s) ==
  LET sorted == SortSeq(SelectSeq(s, LAMBDA value : value # NoRate), <)
      n      == Len(sorted)
  IN IF n = 0 THEN 0 ELSE sorted[(n + 1) \div 2] + sorted[(n \div 2) + 1]

\* build_metric_baseline
Build(ws, trusted) ==
  LET samples == NewestOf(Chosen(ws, InSeries(ws)), Policy.maxSamples)
      healthy == Chosen(samples, {i \in DOMAIN samples : AboveBenchmark(samples[i])})
      targets == IF healthy # <<>> THEN healthy
                 ELSE Chosen(samples, {i \in DOMAIN samples : ~Classified(samples[i])})
      median(s, Of(_)) == TwiceMedian([i \in DOMAIN s |-> Of(s[i])])
  IN [samples     |-> samples,
      trusted     |-> trusted,
      source      |-> IF targets = <<>> THEN "none"
                      ELSE IF healthy # <<>> THEN "relevance" ELSE "landings",
      targetCount |-> Len(targets),
      adsPerHour  |-> median(samples, LAMBDA w : w.adsPerHour),
      density     |-> median(samples, LAMBDA w : w.density),
      yield       |-> median(targets, LAMBDA w : w.yield),
      yieldDensity |-> median(targets, LAMBDA w : w.yieldDensity),
      rate        |-> median(healthy, Rate)]

Count(baseline) == Len(baseline.samples)

WindowsOf(records) == [i \in DOMAIN records |-> records[i].window]

\* baseline_from_run_records: a run that was seeded again counts where it was
\* seeded.
Baseline(records) ==
  LET eligible == Chosen(records, {i \in DOMAIN records :
                                     records[i].candidate /\ ~records[i].superseded})
      samples  == NewestOf(Chosen(eligible, InSeries(WindowsOf(eligible))), Policy.maxSamples)
  IN Build(WindowsOf(eligible), \E i \in DOMAIN samples : samples[i].seed \/ samples[i].trusted)

History == WindowsOf(Chosen(runs, {i \in DOMAIN runs : ~runs[i].seed}))

\* ProfileEvaluationService: without a stored sample the good runs of the
\* history stand in, candidates or not.
Reference ==
  IF Count(Baseline(runs)) > 0 THEN Baseline(runs)
  ELSE Build(Chosen(History, {i \in DOMAIN History : Good(History[i])}), FALSE)

-----------------------------------------------------------------------------
(* The decision.                                                           *)

Mature(baseline, count) == baseline.trusted \/ count >= Policy.minSamples

Matches(w, baseline) == Count(baseline) > 0 /\ SameSeries(Last(baseline.samples), w)

Ready(w, baseline) == Matches(w, baseline) /\ Mature(baseline, Count(baseline))

Source(w) == IF Classified(w) THEN "relevance" ELSE "landings"

YieldReady(w, baseline) ==
  /\ Matches(w, baseline) /\ Mature(baseline, baseline.targetCount)
  /\ baseline.source = Source(w)
  /\ Classified(w) => ValidRelevance(w) /\ AboveBenchmark(w)

Actionable(w) == ValidRelevance(w) /\ w.classified >= Policy.actionableAds

Blocked(w) ==
  \/ ~w.completed \/ ~w.geo
  \/ ~Actionable(w) /\ (w.stop # "none" \/ ~w.full)
  \/ w.ads = 0 /\ ~w.scrolled

Only(condition, reason) == IF condition THEN {reason} ELSE {}

\* Windows in a row, this one included, of one duration and mode ...
ZeroAds(ws) ==
  Streak(ws, {i \in InSeries(ws) : ValidObservation(ws[i]) /\ ws[i].ads = 0})
FewAds(ws) ==
  Streak(ws, {i \in InSeries(ws) :
                ValidObservation(ws[i]) /\ ws[i].adsPerHour <= Policy.absoluteLowAds})
AdsBelow(ws, b, ratio, drop) ==
  Streak(ws, {i \in InSeries(ws) : /\ ValidObservation(ws[i])
                                   /\ FarBelow(ws[i].adsPerHour, b.adsPerHour, ratio, drop)})
DensityBelow(ws, b, ratio, drop) ==
  Streak(ws, {i \in InSeries(ws) : /\ ValidObservation(ws[i])
                                   /\ FarBelow(ws[i].density, b.density, ratio, drop)})
YieldBelow(ws, b, ratio, drop) ==
  Streak(ws, {i \in InSeries(ws) : /\ ValidObservation(ws[i]) /\ YieldComparable(ws[i])
                                   /\ FarBelow(ws[i].yield, b.yield, ratio, drop)})

\* ... and, where the relevance rate is concerned, of any duration.
LowRates(ws) ==
  Streak(ws, {i \in InMode(ws) : /\ ValidRelevance(ws[i])
                                 /\ Rate(ws[i]) < Policy.absoluteLowRate})
RateBelow(ws, b, ratio, drop) ==
  Streak(ws, {i \in InMode(ws) : /\ ValidRelevance(ws[i]) /\ AboveBenchmark(ws[i])
                                 /\ FarBelow(Rate(ws[i]), b.rate, ratio, drop)})

\* proactive_quality_drop_signals
ProactiveSignals(w, b) ==
  IF /\ QualityGuard /\ ValidRelevance(w) /\ AboveBenchmark(w)
     /\ w.classified >= Policy.proactiveAds
    THEN Only(Below(Rate(w), b.rate, Policy.proactiveRatio), "rate")
         \cup Only(Below(w.yield, b.yield, Policy.proactiveRatio), "yield")
         \cup Only(Below(w.yieldDensity, b.yieldDensity, Policy.proactiveRatio), "density")
    ELSE {}

Outright(ws) ==
  LET w == Last(ws) IN
  Only(ZeroAds(ws) >= Policy.zeroWindows, "zero_ads_repeated")
  \cup Only(ZeroAds(ws) < Policy.zeroWindows /\ FewAds(ws) >= Policy.absoluteWindows,
            "absolute_low_ad_yield")
  \cup Only(ValidRelevance(w) /\ (w.relevant <= 1 \/ ~AboveBenchmark(w)),
            "relevance_below_benchmark")

SevereAds(ws, b) == AdsBelow(ws, b, Policy.lowRatio, Policy.adsDrop) >= Policy.lowWindows
SevereDensity(ws, b) ==
  DensityBelow(ws, b, Policy.lowRatio, Policy.densityDrop) >= Policy.lowWindows
SoftYield(ws, b) == YieldBelow(ws, b, Policy.watchRatio, 0)
SoftRate(ws, b) == RateBelow(ws, b, Policy.watchRatio, 0)

\* certain: how far down the windows hold enough ads for the Wilson bound - not at
\* all (0), to the soft threshold (1), to the severe one (2).
SevereYield(ws, b, certain) ==
  /\ YieldReady(Last(ws), b) /\ Classified(Last(ws)) /\ certain = 2
  /\ YieldBelow(ws, b, Policy.lowRatio, Policy.yieldDrop) >= Policy.lowWindows
SevereRate(ws, b, certain) ==
  /\ YieldReady(Last(ws), b) /\ certain = 2
  /\ RateBelow(ws, b, Policy.lowRatio, Policy.rateDrop) >= Policy.lowWindows

AgainstVolume(ws, b) ==
  LET w == Last(ws) IN
  IF ~Ready(w, b) THEN {} ELSE
    Only(ValidObservation(w) /\ w.ads > 0 /\ Below(w.adsPerHour, b.adsPerHour, Policy.immediateRatio),
         "ad_yield_30pct_drop")
    \cup Only(SevereAds(ws, b), "ads_per_hour_below_baseline")
    \cup Only(SevereDensity(ws, b), "ads_per_scroll_below_baseline")
    \cup Only(/\ AdsBelow(ws, b, Policy.watchRatio, 0) >= Policy.softWindows
              /\ DensityBelow(ws, b, Policy.watchRatio, 0) >= Policy.softWindows
              /\ ~SevereAds(ws, b) /\ ~SevereDensity(ws, b),
              "ad_yield_sustained_soft_drop")
    \cup Only(/\ b.trusted
              /\ Cardinality(ProactiveSignals(w, b)) >= Policy.proactiveSignals,
              "proactive_quality_drop")

AgainstRelevance(ws, b, certain) ==
  LET w == Last(ws) IN
  Only(LowRates(ws) >= Policy.lowWindows /\ certain = 2, "relevance_rate_too_low")
  \cup Only(/\ Ready(w, b) /\ YieldReady(w, b) /\ ValidRelevance(w)
            /\ Below(w.yield, b.yield, Policy.immediateRatio),
            "relevant_yield_30pct_drop")
  \cup Only(Ready(w, b) /\ SevereYield(ws, b, certain), "relevant_ads_per_hour_below_baseline")
  \cup Only(/\ Ready(w, b) /\ YieldReady(w, b) /\ Classified(w) /\ certain > 0
            /\ SoftYield(ws, b) >= Policy.softWindows /\ ~SevereYield(ws, b, certain),
            "relevant_ad_yield_sustained_soft_drop")
  \cup Only(SevereRate(ws, b, certain), "relevance_rate_below_baseline")
  \cup Only(/\ YieldReady(w, b) /\ certain > 0
            /\ SoftRate(ws, b) >= Policy.softWindows /\ ~SevereRate(ws, b, certain),
            "relevance_rate_sustained_soft_drop")

\* What is noted without being a reason.
Wary(ws, b) ==
  LET w == Last(ws) IN
  \/ ~Ready(w, b)
  \/ AdsBelow(ws, b, Policy.watchRatio, 0) >= Policy.watchWindows
  \/ DensityBelow(ws, b, Policy.watchRatio, 0) >= Policy.watchWindows
  \/ YieldReady(w, b) /\ SoftYield(ws, b) >= Policy.watchWindows
  \/ YieldReady(w, b) /\ SoftRate(ws, b) >= Policy.watchWindows
  \/ ProactiveSignals(w, b) # {}

\* maintenance_calibration_due, as far as it looks at the windows
MaintenanceAllowed(ws) ==
  /\ Last(ws).ads > 0
  /\ Streak(ws, {i \in InMode(ws) : ValidObservation(ws[i]) \/ ValidRelevance(ws[i])})
       >= Policy.maintenanceWindows

\* due: the maintenance interval is over.  A decision to calibrate may still be held
\* back by the blockers of a calibration.
Decision(ws, b, due, certain) ==
  LET w       == Last(ws)
      quality == Outright(ws) \cup AgainstVolume(ws, b)
                   \cup AgainstRelevance(ws, b, certain)
      reasons == IF quality = {} /\ due /\ MaintenanceAllowed(ws)
                   THEN {"periodic_account_maintenance"} ELSE quality
  IN [window |-> w, baseline |-> b, reasons |-> reasons,
      status |-> IF Blocked(w) THEN "blocked"
                 ELSE IF reasons # {} THEN "calibrate"
                 ELSE IF ~Wary(ws, b) /\ w.ads > 0 THEN "healthy"
                 ELSE "watch"]

-----------------------------------------------------------------------------
(* The cycle and the operator.                                             *)

None == [window |-> "none"]

HealthInit == runs = <<>> /\ pending = None /\ seeds = 0

\* The history and the baseline are read, and the run is judged.
Judge(w, due, certain) ==
  /\ pending = None
  /\ pending' = Decision(Append(History, w), Reference, due, certain)
  /\ UNCHANGED <<runs, seeds>>

\* Mutation: only a healthy run becomes a sample.
LearnsWhenHealthy(decision) == Good(decision.window) /\ decision.status = "healthy"

Candidate(decision) ==
  /\ Good(decision.window)
  /\ Count(decision.baseline) < Policy.minSamples \/ decision.status = "healthy"

Trusted(decision) ==
  /\ QualityGuard /\ ~decision.baseline.trusted
  /\ Candidate(decision) /\ AboveBenchmark(decision.window)

Stored(records) == NewestOf(records, Keep)

\* record_profile_run, after the calibration passes.
RecordRun ==
  /\ pending # None
  /\ runs' = Stored(Append(runs,
       [window |-> pending.window, candidate |-> Candidate(pending),
        trusted |-> Trusted(pending), seed |-> FALSE, superseded |-> FALSE]))
  /\ pending' = None
  /\ UNCHANGED seeds

Seeded(w) == [window |-> w, candidate |-> TRUE, trusted |-> FALSE, seed |-> TRUE,
              superseded |-> FALSE]

\* seed-baseline knows no exit code: any other run may have been killed.
Unchecked(w) == [w EXCEPT !.completed = TRUE]

\* seed-baseline takes a good run the profile has on file or any other one, also
\* while a cycle is calibrating.
Seed ==
  /\ seeds < MaxSeeds
  /\ seeds' = seeds + 1
  /\ \/ \E w \in {Unchecked(v) : v \in Windows} :
          Good(w) /\ runs' = Stored(Append(runs, Seeded(w)))
     \/ \E i \in DOMAIN runs :
          /\ Good(Unchecked(runs[i].window))
          /\ runs' = Stored(Append([runs EXCEPT ![i].superseded = TRUE],
                                   Seeded(Unchecked(runs[i].window))))
  /\ UNCHANGED pending

Judging == \E w \in Windows, due \in BOOLEAN, certain \in 0..2 : Judge(w, due, certain)

HealthNext == Judging \/ RecordRun \/ Seed

HealthSpec == HealthInit /\ [][HealthNext]_healthVars

\* The scheduler starts one cycle after the other, and each ends.
HealthFairSpec == HealthSpec /\ []<>(pending # None) /\ []<>(pending = None)

-----------------------------------------------------------------------------
(* Properties.                                                             *)

Flags == {"candidate", "trusted", "seed", "superseded"}

HealthTypeOK ==
  /\ Len(runs) <= Keep
  /\ \A i \in DOMAIN runs : /\ runs[i].window \in Windows \cup {Unchecked(w) : w \in Windows}
                            /\ \A f \in Flags : runs[i][f] \in BOOLEAN
  /\ pending # None => /\ pending.window \in Windows
                       /\ pending.status \in {"blocked", "watch", "calibrate", "healthy"}
  /\ seeds \in 0..MaxSeeds

VolumeReasons == {"ad_yield_30pct_drop", "ads_per_hour_below_baseline",
                  "ads_per_scroll_below_baseline", "ad_yield_sustained_soft_drop"}
YieldReasons == {"relevant_yield_30pct_drop", "relevant_ads_per_hour_below_baseline",
                 "relevant_ad_yield_sustained_soft_drop", "relevance_rate_below_baseline",
                 "relevance_rate_sustained_soft_drop"}

\* Of windows that ended regularly and were long enough only, without a gap, of the series of the judged one.
Repeated(ws, n) ==
  /\ Len(ws) >= n
  /\ \A i \in Len(ws) - n + 1..Len(ws) :
       /\ ws[i].completed /\ ws[i].stop = "none" /\ ws[i].full
       /\ SameSeries(ws[i], Last(ws))

Evidence ==
  LET ws      == Append(History, pending.window)
      samples == ToSet(pending.baseline.samples)
      given(rs) == pending.reasons \cap rs # {}
  IN /\ given(VolumeReasons \cup YieldReasons \cup {"proactive_quality_drop"}) =>
          \A w \in samples : SameSeries(w, pending.window)
     /\ given({"proactive_quality_drop"}) =>
          \E i \in DOMAIN runs : /\ SameSeries(runs[i].window, pending.window)
                                /\ runs[i].candidate /\ ~runs[i].superseded
                                /\ (runs[i].seed \/ AboveBenchmark(runs[i].window))
     /\ given(YieldReasons) => \E w \in samples : AboveBenchmark(w)
     /\ given({"zero_ads_repeated"}) => Repeated(ws, Policy.zeroWindows)
     /\ given({"absolute_low_ad_yield"}) => Repeated(ws, Policy.absoluteWindows)
     /\ given({"ads_per_hour_below_baseline", "ads_per_scroll_below_baseline"}) =>
          Repeated(ws, Policy.lowWindows)

\* A drop is stated on evidence of one series, whatever runs follow each other and
\* whenever a baseline is seeded: behind it stand samples of the window's own duration,
\* mode and metric version (README.md:370, 515-518); behind a drop of the relevance rate
\* or of the relevant yield by 30 %, severely or for several windows, also samples above the
\* benchmark (README.md:503); behind a proactive drop, which alone may compare relevant
\* ads with landings, a run that an operator has seeded or one above the benchmark.
\* Interrupted, timed-out and short runs do not count as repeated zero or low windows
\* (README.md:569-571).
ReasonsHaveEvidence ==
  [][ pending = None /\ pending' # None => Evidence' ]_healthVars

\* A profile whose runs have become alike and sound gets a baseline of its own and
\* keeps it, whatever its file holds from before - runs of an older metric version
\* or another duration, seeds, degraded runs (README.md:515-518).
Sound(w) == Good(w) /\ Outright(<<w, w>>) = {}
Steady(w) ==
  pending # None => /\ pending.window = w
                    /\ "periodic_account_maintenance" \notin pending.reasons
Relearns == \A w \in Windows : (Sound(w) /\ <>[]Steady(w)) => <>[]Ready(w, Reference)

\* README.md:515-518: the profile learns a new reference from complete runs of the new
\* metric version; here: as many as a mature baseline needs.
LearnsNewSeries ==
  LET n == Policy.minSamples IN
  Len(History) >= n =>
    \A w \in Windows :
      (\A i \in Len(History) - n + 1..Len(History) : History[i] = w) /\ Sound(w)
        => Ready(w, Reference)

\* README.md:503-506: once a baseline is mature, degraded windows are not allowed to drag the
\* reference downward; only healthy windows can refresh it.
SamplesLike(v) ==
  {i \in DOMAIN runs : /\ runs[i].candidate /\ ~runs[i].superseded
                       /\ SameSeries(runs[i].window, v)}
OnlyHealthyRefresh ==
  [][ RecordRun /\ Candidate(pending) /\ pending.status # "healthy"
        => Cardinality(SamplesLike(pending.window)) < Policy.minSamples ]_healthVars

\* README.md:277-279: two independent relevance signals decline; they are compared
\* with a relevance baseline.
ProactiveComparesRelevance ==
  pending # None /\ "proactive_quality_drop" \in pending.reasons =>
    pending.baseline.source = "relevance"
=============================================================================
