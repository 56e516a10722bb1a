# fb-spy-next: a TLA+ model

This directory holds TLA+ specifications of the program in `src/`: a service that
watches the advertising feed of several browser profiles. It says what each
specification models, what the model checker and the proof system establish about
it, and what is left out. Paths below are relative to `src/src/app/facebook/` unless
they start with `src/`.

## 1. The system

Two long-lived programs share a directory of artifacts and, indirectly, a database.

* The **orchestrator** (`facebook-spy orchestrate run --loop`) is one process with a
  main thread and a pool of `max-parallel` threads. Each pool thread runs the *cycle* of
  one profile: start a child process that collects ads, judge them, possibly run
  calibration passes, record the run in `state.json`, stop the profile. Every stage is a
  child process in a session of its own.
* The **backend** (FastAPI with a task worker) keeps runs and ads in PostgreSQL, starts
  collector processes on request, imports the ads of a run while it grows, and has each
  ad's relevance judged by a task queue.

### Components

For each part: the state it keeps, its operations, whom it talks to, what is hard about
it, what makes it correct, and the module that models it.

**Orchestrator scheduler** (`orchestration/scheduling`, `service.py`, `commands/run.py`).
*State:* `next_due`, `running` (the dict of futures), the snapshot of enabled profiles,
`completed_cycles`, the pool's queue. *Operations:* discover, reap, select, submit,
sleep, shut down. *Talks to:* the state store (resume schedules), the catalog, pool
threads through futures, the signal handler through the stop event. *Hard:* discovery
replaces the snapshot while cycles run; the clock is read once per pass of the loop;
stop, exceptions, kills and restarts. *Correct when:* a profile never has two cycles;
`max_parallel` and `max_cycles` hold; rests are respected, across restarts too; no due
profile starves; a stop drains the pool. *Module:* `ProfileScheduler`.

**Recovery cycle** (`orchestration/lifecycle`, `scheduling/policy.py`,
`calibration/planning`, `serialization.py`, parts of `adapters/file_state_store.py`).
*State:* per profile the kept runs and calibrations, `recovery_burst_count`,
`last_schedule`; in memory the records of the passes of this cycle. *Operations:*
evaluate, execute a pass, record the run, derive the next schedule. *Hard:* the state is
read in several steps at the start of the cycle and written once at its end, attempts
live in memory between, and several limits (daily limit, cooldowns, backoff, burst)
overlap. *Correct when:* the series without cooldowns is bounded, the daily limit holds,
recovery starts and ends on evidence, no combination of limits locks a profile out.
*Module:* `RecoveryCycle`.

**Feed health and baseline** (`calibration/planning`, `profiles/baseline`, `runs/metrics`). *State:* per profile the windows on
file with their flags, the baseline built from them. *Operations:* measure a run
directory, compare its window with the history and the baseline, decide, record, learn,
seed. *Hard:* long sequences of windows that may not be compared with each other
(duration, mode, metric version, interruptions); a baseline that learns from what it
judges. *Correct when:* a calibration is asked for on comparable, repeated evidence, and a
feed that has changed for good is learned. *Module:* `FeedHealth`.

**Collection pipeline** (`orchestration/lifecycle/collection_service.py`,
`lifecycle/pipeline.py`, `lifecycle/recovery.py`). *State:* the codes of the stages so
far, the file the next stage reads. *Operations:* collector, audit, prefilter or
standard classification, resolver, gate, enricher, finalize, importer, calibrator.
*Talks to:* the command runner, the stop event. *Hard:* every stage may fail, be
skipped, time out or be stopped, and codes stand both for "not reached" and for "went
well". *Correct when:* nothing reaches the pages of ads unfiltered, nothing unfinished is
imported, no calibration follows a pipeline left half-way, and a stop starts no chain of
further commands. *Module:* `CollectionPipeline`.

**Command runner and process registry** (`orchestration/adapters/subprocess_runner.py`,
`runtime/context.py`, `commands/dispatch.py`). *State:* the registry of running children,
the stop event, the handler's calls on the main thread's stack. *Operations:* start,
register, wait, interrupt, terminate, kill, discard; snapshot and forward a signal.
*Hard:* the handler interleaves with every pool thread and with itself. *Correct when:*
no child is left behind or forgotten in the registry, each child that is listed is
interrupted, and a stop ends every cycle even when children hang. *Module:*
`CommandRunner`.

**State store** (`orchestration/adapters/file_state_store.py`). *State:* `state.json`,
`state.json.lock`, `state.json.tmp`. *Operations:* load, save, read-modify-write under a
thread lock and `flock`, one locked read per question. *Hard:* other processes
(`seed-baseline`, a second `run`), crashes between writing and renaming, an unreadable
file that counts as an empty one. *Correct when:* no update of any profile is lost.
*Modules:* `ProfileStore` implements `ProfileJournal`.

**Profile cycle command** (`orchestration/commands/profile_cycle.py`,
`adapters/file_lock.py`, `runtime/profile_teardown.py`). *State:* one lock file per
profile, the running Octo profile. *Operations:* lock without waiting, run, stop the
profile, unlock. *Hard:* a second orchestrator, teardown after an exception. *Correct
when:* a profile is used by one cycle at a time and is stopped before its lock is given
up. *Module:* `ProfileStore`.

**Profile catalog and discovery** (`profiles/adapters/json_catalog.py`,
`orchestration/commands/discovery.py`). *State:* `profiles.json`. *Operations:* list, add
missing profiles, adopt a country. *Hard:* the lock is per process, an unreadable file
counts as empty. *Correct when:* a profile never disappears and its country is adopted
once. *Modules:* `ProfileStore`, and `ProfileScheduler` for the snapshot.

**Calibration targets** (`calibration/adapters/json_target_pool.py`,
`calibration/planning/pool_rules.py`, `target_pool.py`). *State:* a pool per profile and
per country. *Operations:* merge fresh ads, count, list sources, rotate. *Hard:* a
country's pool is written by the cycles of several profiles, the count is taken once and
used over several passes. *Correct when:* no ad is lost in a merge, no pass is
handed more of them than its cycle has left. *Modules:* `ProfileStore`, `RecoveryCycle`.

**Calibration execution** (`calibration/service.py`, `calibration/execution`,
`calibration/adapters/playwright`, `calibration/funnel`). *State:* targets visited, budget
of reactions, comments and follows, tabs kept, targets submitted, target health,
`results.json` and `summary.json`. *Operations:* visit a post or a landing, interact, walk
an offer funnel, record, finish. *Hard:* every step may fail or answer late, offers open
tabs of their own, a deadline cuts anywhere. *Correct when:* nothing is submitted twice,
no like is taken back, tabs are closed, and a session that stops early has met the goals
it reports. *Modules:* `CalibrationSession` over `OfferFunnel`.

**Run lifecycle** (`runs/service.py`, `runs/commands.py`, `runs/adapters/processes`).
*State:* the row of a run (`created`, `running`, `stopping`, and the final states), the
dict of processes, the monitor task. *Operations:* start, stop, import, monitor, drain.
*Hard:* the start request, a stop request and the monitor write the same row from three
sessions; the dict of processes is lost with the backend. *Correct when:* the final state
matches what the process did. *Module:* `RunLifecycle`.

**Streaming import** (`runs/adapters/importing`, `src/src/app/tasks`,
`ad_library/ads/ingestion`). *State:* keys queued, accepted, rejected and inserted, result
files, rows, `ads.json`. *Operations:* discover, queue, collect, retry, expire, sync,
finalize. *Hard:* a task is queued again while its first attempt may still answer, answers
come through files that may be torn, rows and the sets in memory are updated in turn and
a transaction may be rolled back between. *Correct when:* each ad is judged once and rows
and files agree with the verdicts. *Module:* `StreamImport`, extended by `RunLifecycle`.

**Collector** (`collection`, `feed`, `navigation`). *State:* the registry (stored ads by
key, keys by text, keys of thumbnails, ids that were clicked through to, texts of
confirmed duplicates), scroll and row budgets, the stop reason, the files
`ads.partial.json`, `ads.json` and a summary. *Operations:* open the feed, detect the
posts in view, take or reject one, capture, click, register, scroll, save. *Hard:* one
post is seen as thumbnail and as loaded creative, and under several texts; a stored ad is
changed in place by a click that a deadline may cut short; an interrupt may come at any
step. *Correct when:* the indexes agree, an ad is stored once, and what was stored is in
the files. *Module:* `Collector`.

**Relevance** (`relevance`). *State:* the rows of `ads.json` with gate, evidence and
verdict; the cache of resolved landings. *Operations:* prefilter, resolve held ads in an
isolated browser, judge again, give the final verdict. *Hard:* five commands hand one file
on, each may fail for one ad; the answers of a language model are corrected by rules; a
landing found for one ad is reused for another. *Correct when:* the profile touches
nothing that was not judged relevant, on evidence of its own, and every ad has a verdict.
*Modules:* `AdJudgement` (the rules), `AdGate` (the rows).

**Enrichment** (`enrichment`, `src/src/app/browser/deadline.py`). *State:* the profile's
tabs, the row in work. *Operations:* recover a post, open it, record its video, follow its
call to action, close. *Hard:* exceptions, an alarm of the landing deadline, a dying
browser and signals at any step. *Correct when:* what is found ends in the row of its ad
and the profile is handed back with one empty tab. *Modules:* `AdCapture`, `AdGate`.

**Ad library** (`src/src/app/ad_library`): rows of ads, signed media URLs, statistics.
**Accounts** (`src/src/app/accounts`): users, tokens, roles. **Browser pool** (`src/src/app/browser`).
**API, database, clients, observability, frontend, deployment**: see `PROJECT.json`, where
each is listed with the reason it is not modelled.

### How the parts interact

```
 signal -> RuntimeContext.request_stop -> stop event ------------------------.
               |                                                             |
               v  snapshot, SIGINT                                           v
        ProcessRegistry <--register/discard-- SubprocessCommandRunner <-- pipeline, passes
                                                                             |
 catalog, Octo -> scheduler --submit--> pool thread: lock, pipeline,         | child processes:
                     ^                  evaluate, passes, record, teardown   | collector, relevance,
                     '---- future: schedule of the next cycle, or raised     | enricher, calibrator
 state.json  <--resume schedule, last run-- scheduler                        |
             <--history, counters, record-- cycle                            v
 pools       <--merge, count--------------- cycle      ads.json, ads.relevant.json, summaries
 backend: request -> run row, collector process, monitor -> poll -> tasks -> result files -> rows
```

The modules cut along these arrows. What one module takes for granted is what another one
establishes:

| taken for granted | by | established in |
| --- | --- | --- |
| a cycle ends, so that its future is done | `ProfileScheduler` (`WF` of a thread) | `CommandRunner`: `StopEndsCycles`, the timeout ladder |
| a cycle records once, at its end | `ProfileScheduler` | `RecoveryCycle`: one `RecordRun` step |
| the record of a run is one atomic update of its profile | `RecoveryCycle`, `FeedHealth`, `ProfileScheduler` | `ProfileStore`: `StateIsAJournal` |
| what a cycle has read stays true until it records | `RecoveryCycle`, `FeedHealth` | `ProfileStore`: `CycleOwnsItsProfile` |
| a drop, a zero or a good collection is what its name says | `RecoveryCycle` (its observations) | `FeedHealth`: `ReasonsHaveEvidence` |
| a failed or stopped pipeline runs no calibration | `RecoveryCycle` (`collected.failed`) | `CollectionPipeline`: `CalibratesAfterWholePipeline` |
| a command returns a code whatever happens to the child | `CollectionPipeline` | `CommandRunner`: `NoChildIsLeftBehind` |
| each stage is given the file of the stage before | `AdGate` | `CollectionPipeline`: `ImportsFinalizedAds`, `EnrichesGatedAds` |
| the files hold what was stored, also after a stop | `AdGate`, `StreamImport`, `FeedHealth` | `Collector`: `FilesAgree` |

## 2. Modules

| module | models | proofs |
| --- | --- | --- |
| `ProfileScheduler` | scheduler, pool, discovery snapshot, stop event, what a restart finds on disk | `ProfileSchedulerProofs` |
| `RecoveryCycle` | evaluation, calibration passes, recording, next schedule | `RecoveryCycleProofs` |
| `FeedHealth` | metrics of a run, comparison with history and baseline, decision, learning | `CalibrationProofs` |
| `CollectionPipeline` | order of the commands of a cycle and the looks at the stop event between them | `CycleCommandsProofs` |
| `CommandRunner` | a child's start, wait, timeout ladder; registry; signal handler | `CycleCommandsProofs` |
| `ProfileJournal` | what the state file promises: whole updates, one profile each | `ProfileStoreProofs` |
| `ProfileStore` | state file, catalog and pools under their locks; cycles, seeds, discoveries, kills; refines `ProfileJournal` | `ProfileStoreProofs` |
| `Collector` | feed loop, one candidate, registry of duplicates, files of a run | `CollectorProofs` |
| `AdJudgement` | parser, scope rules and guards over a model's answer | `AdGateProofs` |
| `AdCapture` | enrichment of one ad: tabs, video, call to action, landing | `AdGateProofs` |
| `AdGate` | the rows of a collection from the prefilter to the final verdict; extends the two | `AdGateProofs` |
| `OfferFunnel` | one walk through an offer: tabs, forms, submit, what is kept | `CalibrationProofs` |
| `CalibrationSession` | a calibration process from its options to its summary; extends `OfferFunnel` | `CalibrationProofs` |
| `StreamImport` | the steps of an import session, its tasks, answers, rows and files | `RunLifecycleProofs` |
| `RunLifecycle` | a run of the backend from its start request to its end; extends `StreamImport` | `RunLifecycleProofs` |
| `MC…` | sets, records, symmetry and a view for the model checker | |

A proof module stands for the part of a cycle its components make up: `CycleCommandsProofs`
for the commands (`CollectionPipeline`, `CommandRunner`), `CalibrationProofs` for when and how
a profile is calibrated (`FeedHealth`, `CalibrationSession`). For that, the names of the two
modules it extends are disjoint.

### ProfileScheduler

The main thread is a program counter `pc` through the statements of `run_continuously`
(`head`, `discover`, `reap`, `select`, `sleep`, `shutdown`, `drain`) or `run_once`
(`once`, `await`). One pass of the loop is several actions, so that a thread may finish a
cycle between the reaping and the selection. `now` is the loop's own copy of the clock,
read at its head and used after the discovery request has blocked. `running` is the dict
of futures, `queued` and `worker` are the pool, `done` and `outcome` the futures that wait
to be reaped. A cycle is two steps of a thread: `RecordRun` writes `store`, then
`ReturnSchedule` makes the future done; or `RaiseError` before anything is written.
`Restart` ends the process at any step and starts it again, with nothing left but
`store`; `Boot` then clears the stop event as `run_command` does. Discovery may list any
subset of the profiles each time.

A unit of time is a poll interval. Time passes in `sleep` and while a discovery request
blocks, where the program spends it; it does not pass between two statements of the loop.

### RecoveryCycle

One profile. `calibrations`, `burst`, `schedule` and `zeroChain` are what `state.json`
holds; `records`, `passesLeft`, `targetsLeft`, `reason` are what the thread holds between
`Evaluate` and `RecordRun`. `Pass` is one calibration pass with any outcome a summary can
carry: its `used` is the summary's count of visited targets, up to `MaxVisits`, which may
exceed the pass's share, because a session repeats its targets until its deadline.
`RecordRun` is `record_profile_run` as a whole, with `next_profile_schedule` inside.
A collection is an input: one of the *observations* the planner tells apart (no ads, few
ads, a drop, good, still learning, a technical stop, an infrastructure stop, a login
page), whether a later stage failed, and the number of targets in the pool. An exception
(`CycleRaises`) and the death of the process (`Kill`) drop what is in memory; `Restart`
follows a stop request.

The targets are counted once per cycle, as in the code: what happens to the pool between
two passes (posts that go into quarantine or come out of it) changes no count, and which
posts a pass opens is `CalibrationSession`'s and the rotation offset's business.

Instants are kept as *ages* that stop growing at `Horizon`, one past every window the
code compares them with. That makes the state space finite without a bound on the clock:
an age at the horizon is "long ago" for every comparison there is.

### CollectionPipeline

`codes` are the fields of `CollectionPipelineState`; `NoCode` is `None`. Between two
commands the thread is at a `pc` named after the next decision. A command is three
moments: the decision, which looks at the stop event and at the codes; `Launch`, which
looks at nothing; `Return`, with any code. `RequestStop` may come at any moment, which is
why the decision and the launch are separate actions. `Raise` is an exception between
commands. The contents of a file are abstracted to the stage that wrote it.

### CommandRunner

Threads run at most `Commands` children each. The rungs of the ladder of
`SubprocessCommandRunner.run` are values of `step`. `child` is what the process does:
`booting` (a signal kills it), `working`, `finalizing` (it has handled one interrupt), or
`dead`. `frames` are the calls of the signal handler on the main thread's stack: Python
runs the handler between two instructions of the main thread, also of the handler
itself, so a second signal may interrupt the first call while it holds the lock of the
stop event or of the registry; both are plain locks, which the model respects.

The `KeyboardInterrupt` branch of `run` (`subprocess_runner.py:92`) is not modelled: only
the main thread gets that exception, and only pool threads call `run`. The time budget of
each rung is abstracted to "the wait may end with a timeout".

### Collector

`pc` follows `collect_feed` (`prepare`, `view`, `row`, `scroll`, `finally`, `summary`) and,
within a row, `process_candidate` (`capture`, `video`, `click`, `register`, `permalink`).
A detected row is a text, an image and the ad id the page may show; its key is the id
alone, or text and image (`dedup_key_for`). `Consider` is `CandidateRegistry.consider`
with the removal of thumbnails and the inheritance of their artifacts, `Commit` stores the
ad after the screenshot. The two are separate because an interrupt in between loses the
post: the thumbnail is gone and the creative is not stored yet. `decision.ad` and the
stored ad are one object in the code, so `Click` changes both. `landing` records where a
landing came from, which is what tells the two ways into `register_resolved` apart.
Time is not modelled: a deadline, a time budget or a full resolve budget is a choice.
`Interrupt` is the `KeyboardInterrupt` of the first signal, `BrowserFails` an exception of
the page, `Die` everything that leaves the files as they are.

### FeedHealth

One profile. `runs` are the records on file, `pending` is the collection that is judged
and not yet recorded, with the decision it got. `Judge` is `collect_run_metrics` on what
the collector has left (which file is loaded, how its duration is known), then
`evaluate_calibration_need` with its branches in their order: blocked, the outright
reasons, volume against the baseline, relevance against the baseline, the watch list.
`RecordRun` is the part of `record_profile_run` that sets the flags of a record and drops the
oldest; the baseline is never stored by itself but built from the records
(`Baseline`, `Build`). `Seed` is `seed-baseline` at any moment, also between the two, of
any run but the one being judged.

Rates are whole numbers and ratios percentages. The Wilson bound is the input `certain`,
which says how many of the two relevance reasons are certain. What a decision takes from
the calibrations (cooldowns, targets, the daily limit) is `RecoveryCycle`'s; `due` stands
for the interval of the maintenance. A cycle that raises between the two steps leaves no
record; that, and what it loses, is in `RecoveryCycle`.

### ProfileJournal and ProfileStore

`ProfileJournal` is the promise: a `book` with a record per profile, a set of `pending`
updates, and steps that file one update whole, or lose it. A file that could not be read
may make an update start over from an empty book, which is what the code does.

In `ProfileStore` a job is a cycle (a thread of some `run` process), a `seed-baseline` or
a discovery; `at` is where it is and `stage` how far the file it replaces is. A file is
replaced in four steps, `Load`, `Open` (which truncates the temporary file), `Fill`,
`Rename`; the locks are predicates on `at` and `stage`. `StateLock` spans processes,
`ProcessLocks` only threads of one process, so two processes may interleave their
replacements of the catalog or a pool through one temporary file, and do; `touched`
remembers which files that has happened to. A cycle locks
its profile, merges its fresh ads, counts targets, reads its profile five times
(`Judge`, once per view), calibrates, records, stops the browser and unlocks. `Kill` ends
a process with all its jobs, which then begin anew, and frees its locks; `CycleRaises`
takes a cycle to the stop of its browser, the path of the `finally`; `RenameFails`,
`WriteFails` and a failing read are the faults of the disk.

Left out: `dry_run`; a browser that cannot be acquired is a collection without ads; a
cycle makes at most one pass; which schedule a record gets is any that
`next_profile_schedule` can give; `evaluate` only reads.

### AdJudgement, AdCapture and AdGate

An ad is the classes of terms its text contains, whether it is the shell of a link card,
its address, its saved post and its id. `AdJudgement` is the path of one answer: what the
parser makes of it, the eight scope rules of `rules.py`, the guard of the prefilter.
`AdGate` has one action per ad and command: `Prefilter`; `Unresolvable`, `Reuse`,
`ResolveDirect`, `ResolvePost`, `ResolutionFails`; `JudgeHeld` and `Unavailable`;
`Prepare`, `Skip`, `Pick`, `Record`; `Settle` and `Finalize`; and the ends of the commands.
The row is a record that the commands hand on; `saw` is a history of the terms its last
verdict was given on. `AdCapture` is the ad in work: its `step`, the profile's `tabs`,
whether a video plays. `Deadline` is the alarm of `hard_deadline`, `Signal` an interrupt,
`LoseBrowser` a browser that dies.

The prompts are not modelled: an answer is any that the parser can be given, and what it
claims is one of `Claims`. The archive of a landing and the frames of a video leave no
state that another step reads.

### OfferFunnel and CalibrationSession

`OfferFunnel` is one walk: `fpc` is its step, `opened` counts the tabs it has opened,
`retained` are the pages the session keeps, `tabs` those that are open. Clicks may open a
tab, answers may come late, lost or as an exception; a form may be gone, dangerous,
without contact fields or without a button. `CalibrationSession` chooses the options and
the targets, visits them until the time is over or the goals are met, plans and makes the
interactions with a saved post, calls the funnel, records the attempt and the target's
health, and writes the summary. `liked` is what Facebook knows, `label` what the page
shows, which may lag behind. `Interrupt` is a signal, which the summary survives, `Kill`
what it does not survive; `QuarantineEnds` is time passing between sessions.

What scripts find on a page is an input. Time is `left`, the number of attempts that fit;
counters are kept up to the highest number they are compared with. The dry run of an
interaction and the identity file are left out.

### StreamImport and RunLifecycle

A key is the text of a post or its id, so an ad whose id is found between two polls enters
the session twice, as in the code. `StreamImport` holds the sets of
`FacebookAdsStreamingImportSession`, the tasks in flight, the result files, the committed
rows and `ads.json`; a poll is one step with the outcomes of its sync: it commits,
another run holds an identity, it is rolled back with the sets in memory kept, or it finds
its temporary file gone. `FinishTask`, `TearResult` and `LoseTask` are the workers,
`OtherRunImports` is another run, `StoreAd` the collector. `WriteAds` is the collector's
own write at its regular end (`collection/cli/session.py:101`): all its ads, judged or not,
go to the file the syncs replace by the accepted ones. `judged` remembers what an analysis
has called relevant, a worker's or one inside the poll; a filter that is off accepts
without one. `RunLifecycle` adds the row of the run and the three sessions
that write it: `StartRun`, `Launch`, `CommitRunning`; `StopSignal` and `StopCommit`; and
the monitor, from `MonitorPoll` over the drain to `LoadRow` and `Finalize`, which are two
steps because a stop request may commit between them. `streamed` says whether the import
session exists: the first poll creates it, or `Reap` does if the collector was faster and
has written `ads.json`. Without a session `LoadRow` leads to the batch, which reads
`ads.json` and queues and waits for it, or, if the collector died before it wrote the file,
to `Close`, which sets the status and imports nothing. `BackendRestart` loses the table of processes and every
task of the event loop.

The collector and a sync write `ads.json` through one temporary file, so the one that comes
second may find it gone: a sync (`SyncWritesNothing`), or a collector, which then fails with
the file in place (`Exit` behind `FinalWrite`). That the bytes of
both are mixed is not modelled; the last sync replaces the file in any case.

## 3. Runs

Every run uses TLC without replacing definitions.

| run | instance | what it asks |
| --- | --- | --- |
| `sched_loop` | 3 profiles, 2 threads, at most 4 cycles, rest 0, retry rest 2, clock up to 3 | exclusion, rests, bounded overtaking in the loop |
| `sched_restart` | 2 profiles, 1 thread, both modes, rest 2, 1 kill or exit and restart, discovery blocks up to 1 | recorded rests after a restart; a stop ends the process; exit codes |
| `rec_core` | 6 observations, 0 or 3 targets, up to 3 visits a session, 2 passes, 2 attempts a day, 3 kept, burst limit 2, cooldowns of 2, 3 and 4, backoff 3, 1 fault | bounded series, daily limit, shares of the pool, evidence for recovery, no lock-out |
| `rec_lost` | the same limits, small | a violation, section 6 |
| `planner` | 9 collections of 2 durations and 2 metric versions, classified or not, one of them too short, 3 runs kept, baselines of exactly 2 samples, 1 seed | reasons have evidence; a changed feed is learned |
| `pipeline` | codes 0, 1 and 124, 2 passes, every combination of the switches | gating, import, calibration and stop |
| `runner` | 2 threads, 2 commands each, 2 signals | nothing left behind, everything listed is interrupted, a stop ends all cycles |
| `store` | 3 jobs without a fault, 2 jobs with one; 2 runs and 2 pool entries kept | refinement of the journal, what a cycle has read, merges of pools and catalog |
| `collector` | 2 texts, thumbnail and creative, 2 ids, 2 scrolls, 2 rows a view | indexes, one ad per clicked id, files, under failures at any step |
| `ads` | 2 ads out of 6 cards, every combination of 3 switches | who is touched, on what evidence a verdict rests, tabs |
| `session` | 2 targets, 1 with a post, 6 command lines, 3 attempts, 2 tabs kept | submits, tabs, likes, goals |
| `backend` | 1 ad under two keys, 4 modes, 2 attempts, 1 poll in the drain, 1 stop request, 1 restart | verdicts, rows and files, final status, end of the import |

Why these bounds are enough.

* *Scheduler:* three profiles on two threads is the least with a queue for a slot, and
  overtaking needs two that are not waiting; four cycles is the least with which a profile
  is run a second time while the third still waits; a retry rest longer than the poll
  interval and a rest of zero give both orders of due times. In the restart run a rest of
  two units and a request of one are the least for which the due time can come early.
* *Recovery:* `DailyLimit` 2 with two planned passes makes the limit fall between two
  passes of a cycle, when one older attempt is still in the window; `Keep` is one more than
  the limit, as 100 is more than 36; a burst limit of 2 has a first, a last and a following
  series; 0 and 3 targets lie below and above what two passes need, and 3 visits are more
  than the share of the first pass (2) and leave nothing for the second. A pass and a
  collection take a unit each and a normal rest none, so the three cooldowns and the backoff
  outlast the way from a pass to the next evaluation: each of them, and the daily limit,
  holds a calibration back alone in some reachable state. The run uses a view that leaves
  out the numbers that only the next rotation offset depends on: no guard, no property and
  no fairness condition of the run reads them, so states that share a view have the same
  futures.
* *Planner:* three kept runs are one more than a mature baseline needs, so old samples are
  dropped while they still matter; two durations and two metric versions are the least for
  a series to be interrupted and left; the short window lies one minute below the minimum and
  in the bucket of the full ones, so nothing but its length tells it apart; the levels of
  yield lie on both sides of every ratio of the policy.
* *Pipeline:* the code tells 0 from everything else, 124 stands for a timeout and 1 for a
  failure; two passes are the least with a follow-up.
* *Runner:* the second thread is there to register or leave while the handler goes through
  its snapshot, the second command to replace a child that the snapshot has listed, the
  second signal to nest.
* *Store:* two cycles of one process and a discovery meet in every file the threads share;
  a cycle of another process and a seed meet in the state file; one fault can then fall on
  every step of every pair. Two entries kept are the least with which the oldest is dropped.
* *Collector:* two rows in each of two views are the least in which a thumbnail, its
  creative and another post that leads to the same id come in every order, with a
  checkpoint in between; the second id lets a click replace the id the page showed.
* *Ads:* an ad interacts with another one through the cache of landings and the enricher's
  set of visited targets, both of which compare two; the cards are one of each kind these
  and the gates tell apart.
* *Session:* three attempts let a target be visited again after another one; one of each
  interaction makes both limits and goals fall inside a session; two retained tabs are
  reached and passed by two offers with a popup.
* *Backend:* one ad has two keys, which is what the sets, rows and identities are
  compared by; two attempts make a late first answer meet the second task; the monitor's
  load and commit are separate, so one stop request falls on each side of them; one poll in
  the drain gives a verdict before its deadline and after it. `Repeated` limits the run to
  repeated executions of the tasks queued for a text; a task queued for an id is executed
  once per attempt.

`CHECK_DEADLOCK FALSE` is in every configuration because each instance may really stop:
the process exits, the cycle has been recorded, the threads have run their commands, the
jobs have ended or a bound on the clock, faults, seeds or restarts has been reached.

Seven more configurations are kept beside the runs: `rec_rotation`, `runner_forward`,
`collector_broken`, `stream_last`, `planner_learns`, `planner_drag` and `planner_kind`. Each
checks one sentence of the documentation or of a comment and fails (section 6).

### Fairness

* `ProfileScheduler` (`StopDrains`): weak fairness of the main thread, which never blocks
  for ever (its waits are sleeps and waits for futures), and of each pool thread, whose
  commands all have timeouts. No fairness for discovery results, stops, kills or restarts.
* `RecoveryCycle` (`RecoveryContinues`): weak fairness of the cycle's next step, time
  included, and of a restart, since the container is restarted (`src/compose.prod.yml`).
  None for the outcome of a pass.
* `CommandRunner` (`StopEndsCycles`): weak fairness of the handler, which is plain code on
  the main thread, and of each thread, whose every wait has a timeout or follows SIGKILL.
  None for a child: it may ignore SIGINT and SIGTERM for ever. The property has one
  escape, `Stuck`: if a second signal interrupts the handler while it holds one of the two
  locks, the handler waits for a lock its own thread holds, and the process does not end.
* `RunLifecycle` (`ImportEnds`): weak fairness of the monitor, a task of the event loop
  whose waits are sleeps and calls with timeouts. None for the workers, so tasks may hang
  for ever, and none for the collector, whose exit is a premise of the property.
* `ProfileStore`: weak fairness of a job's next step once it has begun; a thread runs and
  locks are given back. The refinement carries it to the journal: an update that was asked
  for is filed, or lost by a failure that the model names.
* `FeedHealth` (`Relearns`): cycles go on, that is, a collection is judged again and again
  and recorded again and again. It is stated as two recurring conditions on `pending`
  instead of two `WF`, which says the same here because both steps are always enabled in
  turn. The property assumes a feed that stays the same, not that anything is fair to it.

## 4. Proofs

TLAPS checks the theorems below for every value of the constants that the named
assumption of each module allows. Together they state every property of every passing run
but the liveness properties; what those are is said at the end of the section.

The assumptions say that sets are finite where they are counted, that limits are natural
numbers, and beyond that:

* `RecoveryCycle`: more calibrations are kept than the daily limit allows, and `Horizon`
  exceeds the windows;
* `LifecycleAssumption`: a drain polls at least once;
* `StoreAssumption`: the files are distinct, and what stands for a file that is missing or
  torn is none of the things that are written into one;
* `HealthAssumption`: the policy asks for one window at least where it asks for windows in a
  row (`commands/policy.py:12-27` refuses less), and keeps at least one sample;
* `GateAssumption`, `ImportAssumption`, `FunnelAssumption`, `SessionAssumption`: the shapes
  of the inputs.

| theorem | property | argument |
| --- | --- | --- |
| `TypeCorrect` (scheduler) | `TypeOK` | one step per action |
| `CyclesAreExclusive`, `EveryCycleIsAccounted` | `CycleExclusive`, `RunningIsAccounted` | `PoolInv`: queue, threads and finished futures are disjoint parts of the keys of `running`. A profile is submitted only if it is no key, so it is in no part. |
| `ParallelismIsBounded`, `BudgetIsKept` | `AtMostMaxParallel`, `CycleBudget` | the slots counted at the selection bound the cardinality of what is added, on finite sets |
| `RestIsRespected` | `RestRespected` | `RestInv`: for a profile that has finished a cycle in this process, `next_due`, or the outcome still to be reaped, is never earlier than the end of its rest |
| `ExitsAreClean` | `ExitIsClean` | `EndInv`: what the pool and the count of completed cycles can be at each statement of the way out, in both modes |
| `RestsSurviveRestarts` | `RecordedRestSurvivesRestart` | `RestoreInv`: a due time is the restored one or a later one, and the restored one is short of the recorded rest by no more than the request that blocked |
| `OvertakenOnce` | `NoSecondOvertaking` | `QueueInv`: a profile that has overtaken a waiting one has a later due time than that one from then on, and the oldest due profiles are selected first |
| `NothingStartsInDrain` | | an action property: once the executor is shutting down, no thread leaves `Idle` |
| `RecoveryTypeCorrect` | `TypeOK` | sequences stay sequences of records through ageing, appending and keeping the last |
| `SeriesBounded` | `SeriesIsBounded` | the number of recovery calibrations since a normal rest never exceeds the stored count, which is reset when it reaches the limit |
| `RecoveryOnEvidence` | `RecoveryFollowsEvidence` | from `Phase`: a cycle holds records only with a reason |
| `DailyLimit24h` | `DailyLimitRespected` | the recent elements of the kept, concatenated and aged sequences embed injectively into the recent elements before; a pass moves one unit from `passesLeft` to `records` |
| `TargetsAreShared` | `PassesShareTargets` | `ShareInv`: visits and targets left add up to the targets counted, or none are left (`LeftAgrees`), so a share of what is left fits; that a share leaves the minimum for each pass to come, unless a session exceeds its own, is arithmetic of the rounding (`ShareFits`) |
| `PipelineTypeCorrect` | `TypeOK` | strengthened by: a calibrator runs only while passes are left |
| `StopsAfterOneCommand` | `OneCommandAfterStop` | `StopInv`: whenever a decision has been taken and not launched, nothing has been launched since the stop |
| `EnrichmentIsGated`, `ImportIsFinalized`, `CalibrationFollowsWholePipeline` | the three properties of the pipeline | `FlowInv`: which codes are set at which point (`SetOnce`), what the history of stages says about them (`Recorded`), what has been passed on the way to each stage (`Passed`), and what stands at the end (`AtTheEnd`) |
| `NoChildLeft` | `NoChildIsLeftBehind` | each rung of the ladder fixes what the child may be |
| `SnapshotInterrupted` | `SnapshotIsInterrupted` | every child a snapshot has listed is on the list of some call still on the stack, or has been signalled, or was started after |
| `RunnerTypeCorrect` | `RunnerTypeOK` | one step per action |
| `CollectorTypeCorrect`, `RegistryIndexesAgree` | `TypeOK`, `RegistryAgrees` | `RegistryInv`: between `Consider` and `Commit` the key is not stored and no thumbnail of the text is left, after `Commit` the decision's ad is the stored one; `Budget` bounds rows and scrolls at every point of the loop |
| `AdsAreClickedOnce` | `ClickedOnce` | `ClickInv`: the id of every ad with a landing of its own is in `seenIds`, but for the candidate whose click is not registered yet |
| `FilesHoldTheAds` | `FilesAgree` | `FileInv`: which file equals the registry at each point of the way out |
| `RunTypeCorrect`, `StoredAdsAreJudged`, `RowTellsTheTruth`, `ImportEndsWhole` | `TypeOK`, `OnlyJudgedAdsAreStored`, `FinalStatusIsTrue`, `FinishedImportIsWhole` | one invariant, `ImportInv`: what is accepted, in a row or in the file has been called relevant (`JudgedFirst`); what row, process and monitor can say of each other (`RowFollowsMonitor`); the first poll after the exit sees all that is stored, so a drain that ends early has nothing pending (`DrainSeesAll`); a batch decides at its end (`BatchDecidesLast`); until there is a session or a batch nothing is decided and `ads.json` is what the collector wrote, if it did, and which way the monitor takes follows from the two (`ImportStarts`) |
| `VerdictsAreFinal` | `VerdictIsFinal` | an action property, from the same invariant |
| `GateTypeCorrect`, `ProfileActsOnAllowed`, `VerdictsAreInformed`, `PromotionsAreEarned`, `VerdictsAreComplete`, `TabsAreHandedBack` | `TypeOK`, `ProfileActsOnAllowedAds`, `VerdictsSeeAllEvidence`, `PromotedOnOwnLanding`, `EveryAdGetsAVerdict`, `AdTabsAreClosed` | one invariant, `GateInv`: each row's gate is that of its last judgement, given on what the row showed (`Gated`); until the profile has acted, a row has no landing but that of its own target (`OwnLanding`), because ads that share a target of the cache lead to one page; what each command may rely on (`StageInv`); what the draft of the ad in work can be at each step (`DraftInv`); which tabs are open (`TabsInv`). `RelevantIsInScope` is the lemma about `AdJudgement`: the parser, the rules and the guard let nothing out of scope be called relevant. |
| `StoreTypeCorrect` | `TypeOK` | from `StoreInv` and `KeptInv` below, with `RestInv`: what is filled into a temporary file is a draft, and a draft is an update of something of the file's kind (`DraftIsState`); the targets counted are keys of finitely many ads |
| `CyclesOwnTheirProfiles` | `CycleOwnsItsProfile` | `StoreInv`: the holders of a lock exclude each other, a draft of the state file is an update of what the file holds, and nobody but the cycle of a profile changes the views it has read, up to runs that leave the history at the `Keep` limit |
| `StateFileIsAJournal` | the safety of `StateIsAJournal` | the step refinement: every step of `ProfileStore` from a state of `StoreInv` is a step of `ProfileJournal` or leaves its variables alone |
| `MergesStay` | `MergesAreKept` | `KeptInv`, for files that only one process has opened for writing: a draft holds what the file holds and what is merged; `MergeKeeps` says which ads a merge keeps |
| `TabsAreTracked` | `OfferTabsAreTracked` | `TabInv`: tabs are the retained ones that live, those of the run and those that are lost, through every return and exception of a funnel |
| `SubmitsOnce` | `SubmittedAtMostOnce` | `SubmitInv`: a target that was clicked is in `submitted_targets`, or waits for its answer, or the click has raised; the first two keep it from being clicked again |
| `LikesStay` | `ExistingLikesStay` | `LikeInv`: where a reaction can follow, the label shows the like that was there |
| `EarlyEndsMeetGoals` | `EarlyEndMeansGoals` | the goal is at least the minimum of targets, and only the regular end of a session reports an early one |
| `HealthTypeCorrect` | `HealthTypeOK` | `FileInv`: the file is a sequence of at most `Keep` records of windows of collections |
| `ReasonsAreEvidenced` | `ReasonsHaveEvidence` | samples of a built baseline are of one series, since they are chosen by the last one's (`BuildIsOfOneSeries`); every reason is traced to the guard it was given under (`OutrightMeans`, `VolumeMeans`, `RelevanceMeans`); a streak of `n` windows is the last `n` windows without a gap (`StreakIs`), and one of relevance rates includes the judged window, so that window is classified and the baseline it met is one of relevance; a trusted baseline is built of a run on file that was seeded or recorded as trusted, which only a run above the benchmark is (`TrustIsEarned`) |

The properties are seldom inductive alone. For instance, `ImportsFinalizedAds` says
something about the moment of the import only; that a 0 in `relevance_code` cannot be the
0 of the prefilter, copied when the pipeline was stopped, rests on the stop event never
being cleared during a cycle, so `AtTheEnd` carries "relevance code 0 and not stopping
implies that the finalize stage succeeded" through every step.

Some properties are stated with the limits the code sets them. `ReasonsHaveEvidence` is
about the step that takes a decision: until it is recorded, a seed may push the runs it
rests on out of the file. `CycleOwnsItsProfile` lets the history a cycle has read shrink at its
old end for the same reason. `MergesAreKept` does not speak of a file that two processes have
opened for writing, where merges can be lost (section 6).

`EveryCycleIsAccounted`, `ParallelismIsBounded`, `BudgetIsKept` and the type correctness of
some modules state properties that no run lists: the proofs are stronger, and other theorems
rest on them.

What recursive functions compute (`UsedBy`, `Merge`, `Chosen`) is proved by induction on the
set of the numbers for which the statement holds: `InductionOnNat` follows from the least
number principle (`LeastNumber`), that one from `WFMin` of the library. That such a function
exists at all is a lemma of its own each time (`SumExists`, `MergeExists`, `ChoiceExists`),
by the same induction on longer and longer initial parts.

Checked by TLC only: the liveness properties (`StopDrains`, `RecoveryContinues`,
`StopEndsCycles`, `ImportEnds`, `Relearns`, and the fairness that `StateIsAJournal` carries
over), which need `ENABLED` and are out of the prover's reach; the properties that fail
(section 6); and the rotation offset, which has no type in `RecoveryCycle`'s `TypeOK`.

## 5. What is not modelled

`PROJECT.json` lists every component with its status. What is left out, and why:

* *Pages and models of language.* What a script finds on a page, what a model answers,
  what a proxy or a browser does, is an input of the steps that use it. The scripts, the
  prompts and the scoring of candidates have no state of their own.
* *Input and output.* HTTP clients, Octo's API, database sessions and migrations,
  rendering of commands, logging, metrics, settings; the writer of landing archives and the
  encoder of videos, which produce files that nothing reads back.
* *One transaction on one row.* Accounts, roles, tokens, queries and statistics of the
  ad library.
* *Generated, vendored and configuration files*, the React client, container images.
* *Importing a finished directory* (`import_run`), the pool of browsers of the backend and
  nested `hard_deadline`s: plain code with state, left for later.
* *Abstracted in modelled parts:* the thresholds of a policy to numbers of a small scale,
  instants to ages or attempts, the words of an ad to classes of terms, files to what the
  next reader takes from them. Files of a run that cannot be parsed are not
  modelled; one of them counts as a file without ads (`runs/metrics/loading.py:21-27`).

## 6. Where the code and its documentation differ

`rec_lost` is a run of the project, with its finding in `PROJECT.json`: attempts of a cycle that
raises or is killed do not count toward the daily limit, while `src/README.md:559-560`
says that all attempts do. The seven configurations of section 3 show the following.

* `rec_rotation`: once the kept window of calibrations is full, the rotation offset stops
  moving, so repeated passes start at the same targets.
* `runner_forward`: a signal that arrives between the start of a child and its
  registration is not forwarded to it.
* `collector_broken` refutes the comment "a broken landing must not lose the ad"
  (`collection/adapters/playwright/candidate.py:57`). A thumbnail is clicked through to its
  landing and its ad id is registered; the loaded creative replaces it and inherits both;
  its own click finds no landing, `register_resolved` meets the id it has seen on the
  thumbnail, removes the ad and blocks its text for the rest of the run.
* `stream_last`: an ad stored between the last poll and the exit of the collector is read by
  `finalize`, which queues nothing any more; it is neither accepted nor rejected, while
  `src/README.md:153` imports the output when the process exits.
* `planner_learns`: beside a mature baseline of the old metric version or duration, windows of
  the new one are only watched, and only healthy windows become samples; so nothing is
  learned until enough old records have left the file, while `src/README.md:515-518` says that the new reference is
  learned from complete runs. `Relearns` shows that it is learned in the end.
* `planner_drag`: a window that was not judged healthy can become a sample beside a mature
  reference of its own series, against `src/README.md:503-506`.
* `planner_kind`: a trusted baseline of landings is enough for `proactive_quality_drop`, which
  `src/README.md:277-279` derives from relevance signals.

Met while modelling, without a configuration of their own; lines are of the code:

* *Orchestrator.* A maintenance calibration that misses its goals does not start the
  interval (`orchestration/lifecycle/evaluation.py:90`), so it is repeated after the retry
  cooldown, while `src/README.md:560` promises one per three hours. A validation without
  any sign of degradation does not end recovery when maintenance is due
  (`calibration/planning/service.py:39`), against `src/README.md:558`. The retry rest after a cycle
  that raised is kept in memory only (`orchestration/scheduling/scheduler.py:173`), against
  `src/README.md:407`. A parent's timeout can kill the last attempt of a calibration that
  has met its goals.
* *Feed health.* `seed-baseline` and `evaluate` know no return code, so what a killed
  collector has left passes as a complete run. Two reasons,
  `relevance_rate_below_baseline` and `relevant_ads_per_hour_below_baseline`, cannot be
  given under the default policy. Evaluating a run again builds the baseline without the
  flags and the seeds of the records.
* *Files shared by processes.* Catalog and pools are locked within one process; a `discover`
  command or a second `run` beside an orchestrator can lose a finished merge.
  `MergesAreKept` therefore speaks of files only one process has opened for writing.
* *Relevance and enrichment.* A result taken over from the cache overwrites the id of
  another ad (`relevance/adapters/landing_capture.py:92-101`). An old screenshot stays
  beside a new landing that has none. The key of an ad's target is computed before its
  post is recovered, so one post can be opened twice. The cache of a classification
  compares only the number of ads. `close_landing_tabs` keeps the tab of the post, so the
  profile's own page is closed and no page remains once that tab is closed too, while
  `src/README.md:329-330` keeps it. The landing deadline is not an `Exception` and passes
  the handler in `enrichment/landing/adapters/playwright/capture.py:100`.
* *Calibration.* A submit click whose wait raises is not remembered, so the target may be
  submitted again (`src/README.md:170`); so is a target known only by the address it leads
  to, if the address changes. A submit that opens a popup and shows no success leaves the
  popup untracked. A like that is not confirmed is clicked again and may take back what the
  first click did. Successes are counted twice in `budget["successful"]`.
  A failed visit with `continue_on_target_navigation_error` still reports an error of the
  infrastructure. Failures of other kinds do not reset the count for the quarantine.
* *Backend.* A stop request that commits after the monitor has loaded the row leaves the
  run `stopping` for ever; so does a restart of the backend with runs that were `running`.
  `import_run` checks for a row and inserts it in two steps (`runs/commands.py:32`).

## 7. Plan

Done, in this order: `ProfileScheduler` (which cycle runs when), `RecoveryCycle` (what a
cycle decides), `CollectionPipeline` (in which order it acts), `CommandRunner` (how an
action ends), `Collector` (what the first command leaves behind), then `RunLifecycle` over
`StreamImport` (the backend), `ProfileStore` against `ProfileJournal` (the shared files),
`AdGate` over `AdJudgement` and `AdCapture` (the commands between collection and import),
`CalibrationSession` over `OfferFunnel` (the last command of a cycle), `FeedHealth` (what a
cycle's decision rests on).

Then the theorems of section 4: first the components of a cycle, then the backend, the
gate, the shared files with the step refinement of `ProfileJournal`, and what a calibration
rests on and does.

Next, theorems:

1. `CalibrationSession`: type correctness, which needs that `SetToSortSeq` gives a sequence
   of the set's elements.
2. The order in `Chosen`: that the newest samples are the newest ones of their series.

Models that would follow: `import_run` beside a monitor, nested deadlines, the pool of
browsers of the backend.
