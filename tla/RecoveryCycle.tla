--------------------------- MODULE RecoveryCycle ---------------------------
(***************************************************************************)
(* One profile's cycle as its thread runs it: the collection is judged,    *)
(* zero or more calibration passes are executed, and only then is the run  *)
(* recorded in the state file together with the schedule of the next       *)
(* cycle (ProfileCycleService.run, RecoveryCycleCoordinator.run,           *)
(* evaluate_calibration_need, FileStateStore.record_profile_run and        *)
(* next_profile_schedule).                                                 *)
(*                                                                         *)
(* The collection is an input: what its metrics amount to for the planner, *)
(* whether a later stage failed, and how many targets the pool holds.      *)
(*                                                                         *)
(* Time is kept as ages, which stop growing at Horizon, past every window  *)
(* the code compares with, so that the model needs no bound on the clock.  *)
(* A collection and a calibration pass take one unit each.                 *)
(***************************************************************************)
EXTENDS Integers, Sequences, FiniteSets

CONSTANTS
  Observations,     \* what a collection can show
  Targets,          \* calibration targets the pool can hold
  MinTargets,       \* policy.min_calibration_targets
  MaxVisits,        \* bound: targets one session visits, repeats included
  Passes,           \* profile.failed_recovery_calibration_passes
  DailyLimit,       \* policy.max_calibrations_per_24h
  Keep,             \* calibrations kept per profile, 100 in the code
  BurstLimit,       \* schedule_policy.burst_limit
  ZeroAdsLimit,     \* policy.zero_ads_calibration_burst_limit
  Day,              \* 24 hours
  QualityCooldown,  \* policy.calibration_cooldown_seconds
  FastCooldown,     \* policy.zero_ads_calibration_cooldown_seconds
  RetryCooldown,    \* policy.calibration_retry_cooldown_seconds
  Interval,         \* policy.maintenance_calibration_interval_seconds
  Backoff,          \* policy.zero_ads_calibration_backoff_seconds
  NormalRest, BurstRest, RetryRest,
  Horizon,          \* bound: an age grows no further
  MaxFaults         \* bound: cycles that raise, kills and stop requests

Fast == {"zero", "low"}                 \* FAST_RECOVERY_REASONS
Degraded == Fast \cup {"drop"}          \* any other quality reason
Clean == {"good", "learning"}           \* no reason; learning: no baseline yet
Technical == {"technical"}              \* a TECHNICAL_STOP_BLOCKERS stop
Infrastructure == {"octo", "collector"} \* octo_* stop, or a bad return code
Neutral == {"login"}                    \* login required, interrupted, geo
AllObservations ==
  Degraded \cup Clean \cup Technical \cup Infrastructure \cup Neutral
Statuses == {"completed", "infrastructure_error", "failed"}

Max2(a, b) == IF a >= b THEN a ELSE b
Min2(a, b) == IF a <= b THEN a ELSE b

ASSUME RecoveryAssumption ==
  /\ Observations \subseteq AllObservations
  /\ Targets \subseteq Nat /\ MinTargets \in Nat \ {0}
  /\ MaxVisits \in Nat \ {0} /\ Passes \in Nat
  /\ DailyLimit \in Nat \ {0} /\ Keep \in Nat /\ Keep > DailyLimit
  /\ BurstLimit \in Nat /\ ZeroAdsLimit \in Nat
  /\ {Day, QualityCooldown, FastCooldown, RetryCooldown, Backoff} \subseteq Nat
  /\ Interval \in Nat \ {0}
  /\ {NormalRest, BurstRest, RetryRest, MaxFaults} \subseteq Nat
  /\ Horizon \in Nat /\ Horizon > Day
  /\ \A w \in {QualityCooldown, FastCooldown, RetryCooldown, Interval} :
       Horizon >= w
  /\ Horizon >= Backoff + Passes + 1

VARIABLES
  calibrations,  \* the state file's calibrations of the profile, oldest first
  burst,         \* recovery_burst_count
  schedule,      \* last_schedule: its kind and recovery_active
  zeroChain,     \* newest attempts since ads were last seen, no gap >= Backoff
  rest,          \* until the scheduler starts the next cycle
  raised,        \* the last cycle ended in an exception
  stopping,      \* the stop event
  pc,            \* where the cycle is
  collected,     \* the collection: observation, failed stage, targets
  reason,        \* why decision.should_calibrate, "none" if it is not set
  healthy,       \* decision.status = "healthy"
  passesLeft,    \* passes - pass_index
  targetsLeft,   \* remaining_targets
  offset,        \* target_offset
  records,       \* the records of this cycle, in memory only
  faults,        \* how many faults have happened
  \* History, read by properties only:
  series,        \* completed recovery cycles since the last normal rest
  lost           \* ages of the passes whose record was never stored

store == <<calibrations, burst, schedule, zeroChain>>
cycle == <<collected, reason, healthy, passesLeft, targetsLeft, offset, records>>
history == <<series, lost>>
vars == <<store, rest, raised, stopping, pc, cycle, faults, history>>

Nothing == [observation |-> "login", failed |-> FALSE, targets |-> 0]
Age == 0..Horizon
Record == [age : Age, status : Statuses, effective : BOOLEAN, used : Nat, cap : Nat]
Stored == [age : Age, effective : BOOLEAN, used : Nat]
Kinds == {"normal", "recovery_burst", "recovery_burst_rest",
          "calibration_retry", "infrastructure_retry"}

TypeOK ==
  /\ calibrations \in Seq(Stored) /\ Len(calibrations) <= Keep
  /\ burst \in Nat /\ zeroChain \in Nat
  /\ schedule \in [kind : Kinds, active : BOOLEAN]
  /\ rest \in Nat /\ raised \in BOOLEAN /\ stopping \in BOOLEAN
  /\ pc \in {"idle", "evaluate", "passes", "record"}
  /\ collected \in [observation : AllObservations, failed : BOOLEAN, targets : Nat]
  /\ reason \in Degraded \cup {"maintenance", "none"} /\ healthy \in BOOLEAN
  /\ passesLeft \in Nat /\ targetsLeft \in Nat
  /\ records \in Seq(Record)
  /\ faults \in 0..MaxFaults
  /\ series \in Nat /\ lost \in Seq(Age)

-----------------------------------------------------------------------------
(* What is read from the state file. *)

Older(age) == Min2(age + 1, Horizon)
OlderRecords(s) == [i \in DOMAIN s |-> [s[i] EXCEPT !.age = Older(@)]]

\* Time passes: everything on file and in memory is one unit older.
Tick ==
  /\ calibrations' = OlderRecords(calibrations)
  /\ lost' = [i \in DOMAIN lost |-> Older(lost[i])]

Last(s) == s[Len(s)]

RecentEffective(s) == {i \in DOMAIN s : s[i].age <= Day /\ s[i].effective}  \* mutant
Recent(s) == {i \in DOMAIN s : s[i].age <= Day}
RemainingAttempts == Max2(0, DailyLimit - Cardinality(Recent(calibrations)))

Effective == {i \in DOMAIN calibrations : calibrations[i].effective}
WasEffective == Effective # {}
EffectiveAge ==
  calibrations[CHOOSE i \in Effective : \A j \in Effective : j <= i].age

RecoveryActive == burst > 0 \/ schedule.active

\* The first posts of the pool that the stored calibrations are taken to have used.
UpTo[n \in Nat] ==
  IF n = 0 \/ n > Len(calibrations) THEN 0
  ELSE UpTo[n - 1] + Max2(1, calibrations[n].used)
StoredOffset == UpTo[Len(calibrations)]

-----------------------------------------------------------------------------
(* The decision. *)

MaintenanceDue(valid) == valid /\ (WasEffective => EffectiveAge >= Interval)

Reason(o, valid) ==
  IF o \in Degraded THEN o
  ELSE IF o \in Clean /\ MaintenanceDue(valid) THEN "maintenance" ELSE "none"

Suspended(cooldown) == IF RecoveryActive THEN 0 ELSE cooldown
Cooldown(r) ==
  IF r \in Fast THEN Suspended(FastCooldown)
  ELSE IF r = "maintenance" THEN Interval ELSE Suspended(QualityCooldown)

BackoffForGood ==  \* mutant
  zeroChain >= Max2(ZeroAdsLimit, DailyLimit + 1) /\ calibrations # <<>>
ZeroAdsBackoff ==
  LET limit == Max2(ZeroAdsLimit, DailyLimit + 1)
  IN  zeroChain >= limit /\ calibrations # <<>> /\ Last(calibrations).age < Backoff

TimingBlocked(r) ==
  \/ WasEffective /\ EffectiveAge < Cooldown(r)
  \/ calibrations # <<>> /\ Last(calibrations).age < Suspended(RetryCooldown)
  \/ r = "zero" /\ ZeroAdsBackoff

LimitReached == Cardinality(Recent(calibrations)) >= DailyLimit

ShouldCalibrate(r) ==
  /\ r # "none"
  /\ collected.targets >= MinTargets
  /\ ~LimitReached
  /\ ~TimingBlocked(r)

\* Whether the last classified run was worse is the metrics' business.
PlannedPasses == IF RecoveryActive THEN {1, Max2(1, Passes)} ELSE {1}

-----------------------------------------------------------------------------
(* The cycle. *)

Init ==
  /\ calibrations = <<>> /\ burst = 0 /\ zeroChain = 0
  /\ schedule = [kind |-> "normal", active |-> FALSE]
  /\ rest = 0 /\ raised = FALSE /\ stopping = FALSE /\ pc = "idle"
  /\ collected = Nothing /\ reason = "none" /\ healthy = FALSE
  /\ passesLeft = 0 /\ targetsLeft = 0 /\ offset = 0 /\ records = <<>>
  /\ faults = 0
  /\ series = 0 /\ lost = <<>>

Forget ==
  /\ collected' = Nothing /\ reason' = "none" /\ healthy' = FALSE
  /\ passesLeft' = 0 /\ targetsLeft' = 0 /\ offset' = 0 /\ records' = <<>>

Collect(o, failed, targets) ==
  /\ pc = "idle" /\ rest = 0 /\ ~stopping
  /\ pc' = "evaluate"
  /\ collected' = [observation |-> o, failed |-> failed, targets |-> targets]
  /\ Tick
  /\ UNCHANGED <<burst, schedule, zeroChain, rest, raised, stopping, reason,
                 healthy, passesLeft, targetsLeft, offset, records, faults,
                 series>>

\* The remaining attempts and the offset are read here, once for all passes.
Evaluate(valid, planned) ==
  LET r == Reason(collected.observation, valid)
      calibrate == ShouldCalibrate(r)
      run == calibrate /\ ~stopping /\ ~collected.failed
      passes == IF run THEN Min2(planned, RemainingAttempts) ELSE 0
  IN  /\ pc = "evaluate"
      /\ reason' = IF calibrate THEN r ELSE "none"
      /\ healthy' = (collected.observation = "good" /\ r = "none")
      /\ passesLeft' = passes
      /\ targetsLeft' = IF run THEN collected.targets ELSE 0
      /\ offset' = IF run THEN StoredOffset ELSE 0
      /\ pc' = IF passes > 0 THEN "passes" ELSE "record"
      /\ UNCHANGED <<store, rest, raised, stopping, collected, records, faults,
                     history>>

TargetCapOfPool ==  \* mutant
  Max2(MinTargets, (collected.targets + passesLeft - 1) \div passesLeft)

\* calibration_pass_target_cap: the share of a pass in the targets left.
TargetCap ==
  IF passesLeft = 1 \/ targetsLeft < passesLeft * MinTargets
  THEN targetsLeft
  ELSE Max2(MinTargets, (targetsLeft + passesLeft - 1) \div passesLeft)

BreaksOff == stopping \/ targetsLeft < MinTargets

\* used: the targets its summary counts as visited (the plan's limit if none).  A
\* session that repeats its targets until the deadline visits more than its cap.
Pass(status, effective, used) ==
  /\ pc = "passes" /\ ~BreaksOff
  /\ effective => status = "completed"
  /\ records' = Append(OlderRecords(records),
                       [age |-> 0, status |-> status, effective |-> effective,
                        used |-> used, cap |-> TargetCap])
  /\ offset' = offset + used
  /\ targetsLeft' = Max2(0, targetsLeft - used)
  /\ passesLeft' = passesLeft - 1
  /\ pc' = IF passesLeft = 1 \/ status # "completed" THEN "record" ELSE "passes"
  /\ Tick
  /\ UNCHANGED <<burst, schedule, zeroChain, rest, raised, stopping, collected,
                 reason, healthy, faults, series>>

BreakOff ==
  /\ pc = "passes" /\ BreaksOff
  /\ pc' = "record"
  /\ UNCHANGED <<store, rest, raised, stopping, cycle, faults, history>>

InfrastructureRetry ==
  \/ collected.failed
  \/ collected.observation \in Infrastructure
  \/ collected.observation \in Technical /\ records = <<>> /\ ~healthy

IsAlwaysRecovery == TRUE  \* mutant
\* is_recovery_calibration_decision
IsRecovery == reason # "maintenance"

BeyondBurst == burst >= Max2(1, BurstLimit)  \* mutant
LastOfBurst == burst + 1 >= Max2(1, BurstLimit)

\* What next_profile_schedule decides, with the new recovery_burst_count.
NextSchedule ==
  LET kept(kind) == [kind |-> kind, active |-> RecoveryActive, burst |-> burst]
      ended == [kind |-> "normal", active |-> FALSE, burst |-> 0]
      status == Last(records).status
  IN  IF InfrastructureRetry THEN kept("infrastructure_retry")
      ELSE IF records = <<>> THEN IF healthy THEN ended ELSE kept("normal")
      ELSE IF status = "infrastructure_error" THEN kept("infrastructure_retry")
      ELSE IF status # "completed" THEN kept("calibration_retry")
      ELSE IF ~IsRecovery THEN ended
      ELSE IF LastOfBurst
      THEN [kind |-> "recovery_burst_rest", active |-> TRUE, burst |-> 0]
      ELSE [kind |-> "recovery_burst", active |-> TRUE, burst |-> burst + 1]

RestOf(kind) ==
  IF kind \in {"normal", "recovery_burst_rest"} THEN NormalRest
  ELSE IF kind = "recovery_burst" THEN BurstRest ELSE RetryRest

\* What later cycles read of a record.
ToStore(s) ==
  [i \in DOMAIN s |->
     [age |-> s[i].age, effective |-> s[i].effective, used |-> s[i].used]]
KeepLast(s) == SubSeq(s, Max2(1, Len(s) - Keep + 1), Len(s))

\* zero_ads_backoff_active counts the newest attempts less than Backoff apart,
\* attempts_after_last_nonzero_run those after the last run that saw ads.
ChainWith(seen) ==
  LET apart == \/ calibrations = <<>>
               \/ Last(calibrations).age - records[1].age >= Backoff
  IN  Min2(Keep,
           IF seen THEN Len(records)
           ELSE IF records = <<>> THEN zeroChain
           ELSE IF apart THEN Len(records) ELSE zeroChain + Len(records))

\* Whether a run that shows nothing to the planner has seen ads is open.
SawAds ==
  IF collected.observation = "zero" THEN {FALSE}
  ELSE IF collected.observation \in Degraded \cup Clean THEN {TRUE} ELSE BOOLEAN

RecordRun(seen) ==
  LET next == NextSchedule
  IN  /\ pc = "record"
      /\ pc' = "idle"
      /\ calibrations' = KeepLast(calibrations \o ToStore(records))
      /\ burst' = next.burst
      /\ schedule' = [kind |-> next.kind, active |-> next.active]
      /\ zeroChain' = ChainWith(seen)
      /\ rest' = RestOf(next.kind)
      /\ raised' = FALSE
      /\ series' = IF next.kind = "recovery_burst" THEN series + 1
                   ELSE IF next.kind \in {"normal", "recovery_burst_rest"} THEN 0
                   ELSE series
      /\ Forget
      /\ UNCHANGED <<stopping, faults, lost>>

Rest ==
  /\ pc = "idle" /\ rest > 0
  /\ rest' = rest - 1
  /\ Tick
  /\ UNCHANGED <<burst, schedule, zeroChain, raised, stopping, pc, cycle, faults,
                 series>>

-----------------------------------------------------------------------------
(* What interrupts it. *)

Fault == faults < MaxFaults /\ faults' = faults + 1

\* The scheduler drops the cycle's memory and waits for the retry rest.
CycleRaises ==
  /\ pc # "idle" /\ Fault
  /\ pc' = "idle" /\ rest' = RetryRest /\ raised' = TRUE
  /\ lost' = lost \o [i \in DOMAIN records |-> records[i].age]
  /\ Forget
  /\ UNCHANGED <<store, stopping, series>>

\* The process dies in a cycle; whoever starts it again finds the rest over.
Kill ==
  /\ pc # "idle" /\ Fault
  /\ pc' = "idle" /\ rest' = 0 /\ raised' = FALSE /\ stopping' = FALSE
  /\ lost' = lost \o [i \in DOMAIN records |-> records[i].age]
  /\ Forget
  /\ UNCHANGED <<store, series>>

RequestStop ==
  /\ ~stopping /\ Fault
  /\ stopping' = TRUE
  /\ UNCHANGED <<store, rest, raised, pc, cycle, history>>

\* The rest after an exception is in no file.
Restart ==
  /\ stopping /\ pc = "idle"
  /\ stopping' = FALSE /\ raised' = FALSE
  /\ rest' = IF raised THEN 0 ELSE rest
  /\ UNCHANGED <<store, pc, cycle, faults, history>>

Collecting ==
  \E o \in Observations, failed \in BOOLEAN, t \in Targets : Collect(o, failed, t)
Evaluating == \E valid \in BOOLEAN, n \in PlannedPasses : Evaluate(valid, n)
Calibrating ==
  \E status \in Statuses, effective \in BOOLEAN, used \in 1..MaxVisits :
    Pass(status, effective, used)
Recording == \E seen \in SawAds : RecordRun(seen)

Advance == Collecting \/ Evaluating \/ Calibrating \/ BreakOff \/ Recording \/ Rest

Next == Advance \/ CycleRaises \/ Kill \/ RequestStop \/ Restart

Spec == Init /\ [][Next]_vars
FairSpec == Spec /\ WF_vars(Advance) /\ WF_vars(Restart)

-----------------------------------------------------------------------------
(* Properties. *)

\* A profile runs fewer than BurstLimit completed recovery cycles between two
\* rests of normal length (the rest follows the last one), whatever retries,
\* exceptions, kills and restarts come between: the series that suspends the
\* cooldowns is bounded (recovery_burst_count, policy.py:135-150).
SeriesIsBounded == series <= burst /\ burst < Max2(1, BurstLimit)

\* The recovery state, spread over recovery_burst_count and last_schedule, starts
\* only with a completed calibration for a degraded result and ends only with a
\* healthy result or a completed maintenance calibration of a run whose pipeline
\* succeeded; maintenance, retries and faults never start a series.
RecoveryFollowsEvidence ==
  [][ LET completed == /\ records # <<>> /\ ~collected.failed
                       /\ Last(records).status = "completed"
      IN  /\ ~RecoveryActive /\ RecoveryActive' => completed /\ reason \in Degraded
          /\ RecoveryActive /\ ~RecoveryActive' =>
               \/ healthy /\ ~collected.failed
               \/ completed /\ reason = "maintenance" ]_vars

\* The attempts of the last 24 hours, those on file and those this cycle holds in
\* memory, and the passes it may still run, stay within the daily limit, although
\* the remaining attempts are read once, before the first pass (recovery.py:33).
InWindow(s) == Cardinality({i \in DOMAIN s : s[i].age <= Day})
DailyLimitRespected ==
  InWindow(calibrations) + InWindow(records) + passesLeft <= DailyLimit

\* Whatever the sessions before it have visited, a pass is never handed fewer
\* targets than the minimum nor more than its cycle has left of the pool: its cap
\* and the earlier visits fit into the targets counted at the evaluation. And
\* unless a session repeats its targets, no planned pass is dropped because an
\* earlier one was handed too much (calibration_pass_target_cap and
\* calibration_targets_consumed, recovery.py:37-55).
UsedBy[n \in Nat] ==
  IF n = 0 \/ n > Len(records) THEN 0 ELSE UsedBy[n - 1] + records[n].used
PassesShareTargets ==
  /\ \A i \in DOMAIN records :
       /\ records[i].cap >= MinTargets
       /\ UsedBy[i - 1] + records[i].cap <= collected.targets
  /\ /\ pc = "passes"
     /\ \A i \in DOMAIN records : records[i].used <= records[i].cap
     /\ collected.targets >= (Len(records) + passesLeft) * MinTargets
     => targetsLeft >= passesLeft * MinTargets

\* A profile whose every collection is degraded, with targets in its pool and a
\* pipeline that works, is calibrated again and again: no combination of daily
\* limit, cooldowns, retry cooldown, zero-ads backoff and burst rests, each of
\* which holds a calibration back for a time, locks it out for good.
StaysDegraded ==
  pc # "idle" => /\ collected.observation \in Degraded /\ ~collected.failed
                 /\ collected.targets >= MinTargets /\ ~stopping
RecoveryContinues == <>[]StaysDegraded => []<>(pc = "passes")

\* README.md:562-564: repeated passes rotate by the number of targets visited
\* instead of reopening the same first posts, so the pass that follows a recorded
\* one does not start where that one started (profile_calibration_target_offset).
RotationAdvances ==
  [][ Recording /\ records # <<>> => StoredOffset' # offset - Last(records).used ]_vars

\* README.md:559-560: all calibration attempts count toward the 24-hour limit,
\* also those of a cycle that raised or was killed before it recorded its run.
DailyLimitCountsEveryAttempt ==
  LET recentlyLost == {i \in DOMAIN lost : lost[i] <= Day}
  IN  InWindow(calibrations) + InWindow(records) + Cardinality(recentlyLost)
        <= DailyLimit

=============================================================================
