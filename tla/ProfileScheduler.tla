------------------------- MODULE ProfileScheduler -------------------------
(***************************************************************************)
(* The orchestrator process: ProfileScheduler.run_continuously and         *)
(* run_once, the thread pool they feed, profile discovery, the stop event  *)
(* set by the SIGINT/SIGTERM handler, and the part of the state file that  *)
(* survives the process (when a profile last ran and which rest its run    *)
(* recorded).                                                              *)
(*                                                                         *)
(* A profile cycle is abstracted to what the scheduler can observe of it:  *)
(* it records a schedule in the state file and then returns it, or raises  *)
(* before it has recorded anything.                                        *)
(*                                                                         *)
(* One unit of time is one poll interval.  Time passes while the scheduler *)
(* thread blocks (in time.sleep and in the discovery request) and not      *)
(* between the statements of one pass of its loop.                         *)
(***************************************************************************)
EXTENDS Integers, FiniteSets

CONSTANTS
  Profiles,           \* octo_profile_uuids the catalog can list
  Workers,            \* threads of the pool: max_parallel of them
  Idle,               \* what a thread without a cycle holds
  Modes,              \* "loop" (args.loop: run_continuously), "once" (run_once)
  MaxCycles,          \* config.max_cycles, 0 for no limit
  RetryRest,          \* config.infrastructure_retry_seconds
  Rests,              \* rest_seconds a recorded schedule can carry
  DiscoveryInterval,  \* max(5, discovery_interval_seconds)
  DiscoveryMax,       \* bound: the longest a discovery request blocks
  MaxTime,            \* bound: the horizon of the clock
  MaxRestarts         \* bound: restarts of the process

ASSUME SchedulerAssumption ==
  /\ IsFiniteSet(Profiles)
  /\ IsFiniteSet(Workers) /\ Workers # {}
  /\ Idle \notin Profiles
  /\ Modes \subseteq {"loop", "once"}
  /\ MaxCycles \in Nat /\ RetryRest \in Nat
  /\ Rests \subseteq Nat
  /\ DiscoveryInterval \in Nat \ {0} /\ DiscoveryMax \in Nat
  /\ MaxTime \in Nat /\ MaxRestarts \in Nat

VARIABLES
  clock,          \* time.monotonic(), and the wall clock of the state file
  stopping,       \* RuntimeContext.stop_event
  pc,             \* where the main thread is
  exitCode,       \* what the run command returns
  now,            \* the loop's copy of the clock, read at its head
  nextDiscovery,
  profiles,       \* the enabled profiles found by the last discovery
  nextDue,        \* next_due, NoTime where it has no entry
  running,        \* keys of the dict of futures (run_once: the futures)
  completed,      \* completed_cycles
  queued,         \* submitted futures no thread has picked up
  worker,         \* the profile whose cycle a thread runs
  recorded,       \* the threads whose cycle has recorded its run
  done,           \* the profiles whose future is done and not yet reaped
  outcome,        \* the rest of the schedule a future returned, or Raised
  store,          \* last run and last schedule in the state file
  restarts,       \* how often the process has been started again
  \* History, read by properties only:
  backoff,        \* when the rest that followed the last cycle ends
  finishedHere,   \* the profiles with a finished cycle in this process
  passed          \* who was started while this due profile waited

procVars  == <<stopping, pc, exitCode>>
loopVars  == <<now, nextDiscovery, profiles, nextDue, running, completed>>
poolVars  == <<queued, worker, recorded, done, outcome>>
diskVars  == <<store>>
histVars  == <<backoff, finishedHere, passed>>
vars == <<clock, procVars, loopVars, poolVars, diskVars, restarts, histVars>>

Continuous == Modes = {"loop"}

NoTime == -1
Raised == -2

MaxParallel == Cardinality(Workers)

Smaller(a, b) == IF a <= b THEN a ELSE b
Larger(a, b)  == IF a >= b THEN a ELSE b

NeverRan == [at |-> NoTime, rest |-> 0]

-----------------------------------------------------------------------------
(* A process that has just started has scheduled nothing; the state file   *)
(* knows no profile.                                                       *)

NothingDue == [p \in Profiles |-> NoTime]
AllIdle    == [w \in Workers |-> Idle]
NoOutcomes == [p \in Profiles |-> Raised]
NonePassed == [p \in Profiles |-> {}]

Init ==
  /\ clock = 0 /\ stopping = FALSE /\ pc = "boot" /\ exitCode = "none"
  /\ now = 0 /\ nextDiscovery = 0 /\ profiles = {}
  /\ nextDue = NothingDue /\ running = {} /\ completed = 0
  /\ queued = {} /\ worker = AllIdle /\ recorded = {}
  /\ done = {} /\ outcome = NoOutcomes
  /\ store = [p \in Profiles |-> NeverRan]
  /\ restarts = 0
  /\ backoff = [p \in Profiles |-> 0] /\ finishedHere = {} /\ passed = NonePassed

-----------------------------------------------------------------------------
(* The schedule.                                                           *)

DueAt(p) == IF nextDue[p] = NoTime THEN 0 ELSE nextDue[p]

\* Mutation: the elapsed time is not counted from the recorded run.
RemainingRestFromStart(p) ==
  IF store[p].at = NoTime THEN 0 ELSE Larger(0, store[p].rest - clock)

\* remaining_profile_rest_seconds of the persisted schedule.
RemainingRest(p) ==
  IF store[p].at = NoTime THEN 0
  ELSE Larger(0, store[p].rest - Larger(0, clock - store[p].at))

\* Mutation: known profiles are restored from the state file again.
RestoredDueForAll(S) ==
  [p \in Profiles |-> IF p \in S THEN now + RemainingRest(p) ELSE nextDue[p]]

\* _restore_new_profile_schedules: `now` was read before the discovery
\* request, the remaining rest is computed after it.
RestoredDue(S) ==
  [p \in Profiles |->
     IF p \in S /\ nextDue[p] = NoTime
       THEN now + RemainingRest(p) ELSE nextDue[p]]

\* _completed_schedule: a cycle that raised gets the infrastructure retry.
RestAfter(p) == IF outcome[p] = Raised THEN RetryRest ELSE outcome[p]

\* Mutation: running profiles are not left out.
DueOrRunning == {p \in profiles : DueAt(p) <= now}

Due == {p \in profiles \ running : DueAt(p) <= now}

AvailableSlots == Larger(0, MaxParallel - Cardinality(running))

\* Slots left by max_parallel and, when it is set, by max_cycles.
Slots ==
  IF MaxCycles = 0 THEN AvailableSlots
  ELSE Smaller(AvailableSlots,
               Larger(0, MaxCycles - completed - Cardinality(running)))

\* Mutation: any due profiles, in any order.
IsAnyDue(S) == S \subseteq Due /\ Cardinality(S) = Smaller(Cardinality(Due), Slots)

\* S is what select_due_profile_ids returns: as many due profiles as fit,
\* oldest first.  Equal due times go in catalog order, which is left open.
IsOldestDue(S) ==
  /\ S \subseteq Due
  /\ Cardinality(S) = Smaller(Cardinality(Due), Slots)
  /\ \A p \in S, q \in Due \ S : DueAt(p) <= DueAt(q)

-----------------------------------------------------------------------------
(* The main thread before the loop.                                        *)

\* run_command clears the stop event first: a signal that arrived between
\* the installation of the handlers and this line is forgotten.
Boot ==
  /\ pc = "boot"
  /\ stopping' = FALSE
  /\ pc' = "startup"
  /\ UNCHANGED <<clock, exitCode, loopVars, poolVars, diskVars, restarts, histVars>>

\* OrchestrationService.run: discovery with fail_fast, then one of the modes.
StartupDiscovery ==
  /\ pc = "startup"
  /\ \/ /\ \E mode \in Modes : pc' = IF mode = "loop" THEN "head" ELSE "once"
        /\ UNCHANGED exitCode
     \/ /\ pc' = "exited" /\ exitCode' = "error"
  /\ UNCHANGED <<clock, stopping, loopVars, poolVars, diskVars, restarts, histVars>>

-----------------------------------------------------------------------------
(* run_once.                                                               *)

\* Every enabled profile is submitted at once, whatever max_parallel is.
OnceSubmit(S) ==
  /\ pc = "once"
  /\ IF S = {} THEN pc' = "exited" /\ exitCode' = "failed"
               ELSE pc' = "await"  /\ UNCHANGED exitCode
  /\ running' = S /\ queued' = S
  /\ UNCHANGED <<clock, stopping, now, nextDiscovery, profiles, nextDue,
                 completed, worker, recorded, done, outcome, diskVars,
                 restarts, histVars>>

\* Mutation: errors of cycles do not reach the exit code.
OnceFinishUnchecked ==
  /\ pc = "await"
  /\ running \subseteq done
  /\ pc' = "exited"
  /\ exitCode' = IF stopping THEN "interrupted" ELSE "ok"
  /\ UNCHANGED <<clock, stopping, loopVars, poolVars, diskVars, restarts, histVars>>

\* as_completed has yielded every future and the pool has been left.
OnceFinish ==
  /\ pc = "await"
  /\ running \subseteq done
  /\ pc' = "exited"
  /\ exitCode' = IF stopping THEN "interrupted"
                 ELSE IF \E p \in running : outcome[p] = Raised THEN "failed"
                 ELSE "ok"
  /\ UNCHANGED <<clock, stopping, loopVars, poolVars, diskVars, restarts, histVars>>

-----------------------------------------------------------------------------
(* One pass of the loop of run_continuously.                               *)

\* Mutation: the loop does not look at the stop event.
LoopHeadDeaf ==
  /\ pc = "head"
  /\ pc' = IF clock >= nextDiscovery THEN "discover" ELSE "reap"
  /\ now' = clock
  /\ UNCHANGED <<clock, stopping, exitCode, nextDiscovery, profiles, nextDue, running,
                 completed, poolVars, diskVars, restarts, histVars>>

LoopHead ==
  /\ pc = "head"
  /\ IF stopping
       THEN /\ pc' = "shutdown" /\ exitCode' = "interrupted"
            /\ UNCHANGED now
       ELSE /\ pc' = IF clock >= nextDiscovery THEN "discover" ELSE "reap"
            /\ now' = clock
            /\ UNCHANGED exitCode
  /\ UNCHANGED <<clock, stopping, nextDiscovery, profiles, nextDue, running,
                 completed, poolVars, diskVars, restarts, histVars>>

\* The discovery request blocks; `now` grows old.
DiscoveryBlocks ==
  /\ pc = "discover"
  /\ clock < MaxTime /\ clock < now + DiscoveryMax
  /\ clock' = clock + 1
  /\ UNCHANGED <<procVars, loopVars, poolVars, diskVars, restarts, histVars>>

\* The snapshot is replaced wholesale; known profiles keep their due time.
Discover(S) ==
  /\ pc = "discover"
  /\ profiles' = S
  /\ nextDue' = RestoredDue(S)
  /\ nextDiscovery' = now + DiscoveryInterval
  /\ pc' = "reap"
  /\ UNCHANGED <<clock, stopping, exitCode, now, running, completed, poolVars,
                 diskVars, restarts, histVars>>

\* Reading the catalog or the state file raises: the loop is left through
\* its finally block.
DiscoveryRaises ==
  /\ pc = "discover"
  /\ nextDiscovery' = now + DiscoveryInterval
  /\ pc' = "shutdown" /\ exitCode' = "error"
  /\ UNCHANGED <<clock, stopping, now, profiles, nextDue, running, completed,
                 poolVars, diskVars, restarts, histVars>>

\* Every future that is done leaves the dict; the profile rests from now on.
Reap ==
  LET R == running \cap done
  IN /\ pc = "reap"
     /\ running' = running \ R
     /\ done' = done \ R
     /\ outcome' = [p \in Profiles |-> IF p \in R THEN Raised ELSE outcome[p]]
     /\ nextDue' = [p \in Profiles |->
                      IF p \in R THEN clock + RestAfter(p) ELSE nextDue[p]]
     /\ completed' = completed + Cardinality(R)
     /\ IF MaxCycles > 0 /\ R # {} /\ completed' >= MaxCycles
          THEN pc' = "shutdown" /\ exitCode' = "ok"
          ELSE pc' = "select"   /\ UNCHANGED exitCode
     /\ UNCHANGED <<clock, stopping, now, nextDiscovery, profiles, queued, worker,
                    recorded, diskVars, restarts, histVars>>

Select(S) ==
  /\ pc = "select"
  /\ IsOldestDue(S)
  /\ running' = running \cup S
  /\ queued' = queued \cup S
  /\ pc' = "sleep"
  /\ passed' = [p \in Profiles |->
                  IF p \in Due \ S THEN passed[p] \cup S ELSE {}]
  /\ UNCHANGED <<clock, stopping, exitCode, now, nextDiscovery, profiles, nextDue,
                 completed, worker, recorded, done, outcome, diskVars, restarts,
                 backoff, finishedHere>>

\* The poll interval.  At the horizon only a stop ends the last sleep.
Sleep ==
  /\ pc = "sleep"
  /\ clock < MaxTime \/ stopping
  /\ clock' = Smaller(clock + 1, MaxTime)
  /\ pc' = "head"
  /\ UNCHANGED <<stopping, exitCode, loopVars, poolVars, diskVars, restarts, histVars>>

\* executor.shutdown(cancel_futures=True): what no thread has picked up is
\* cancelled ...
Shutdown ==
  /\ pc = "shutdown"
  /\ queued' = {}
  /\ pc' = "drain"
  /\ UNCHANGED <<clock, stopping, exitCode, loopVars, worker, recorded, done,
                 outcome, diskVars, restarts, histVars>>

\* ... and shutdown(wait=True) returns when the last thread has gone idle.
Drained ==
  /\ pc = "drain"
  /\ \A w \in Workers : worker[w] = Idle
  /\ pc' = "exited"
  /\ UNCHANGED <<clock, stopping, exitCode, loopVars, poolVars, diskVars, restarts,
                 histVars>>

-----------------------------------------------------------------------------
(* The threads of the pool.                                                *)

StartCycle(w, p) ==
  /\ worker[w] = Idle
  /\ p \in queued
  /\ queued' = queued \ {p}
  /\ worker' = [worker EXCEPT ![w] = p]
  /\ UNCHANGED <<clock, procVars, loopVars, recorded, done, outcome, diskVars,
                 restarts, histVars>>

\* record_profile_run saves the time of the run and its schedule together.
RecordRun(w, rest) ==
  /\ worker[w] # Idle /\ w \notin recorded
  /\ recorded' = recorded \cup {w}
  /\ store' = [store EXCEPT ![worker[w]] = [at |-> clock, rest |-> rest]]
  /\ UNCHANGED <<clock, procVars, loopVars, queued, worker, done, outcome, restarts,
                 histVars>>

\* The thread goes idle and the future of its profile is done.
EndCycle(w, result, rest) ==
  /\ worker[w] # Idle
  /\ worker' = [worker EXCEPT ![w] = Idle]
  /\ recorded' = recorded \ {w}
  /\ done' = done \cup {worker[w]}
  /\ outcome' = [outcome EXCEPT ![worker[w]] = result]
  /\ backoff' = [backoff EXCEPT ![worker[w]] = clock + rest]
  /\ finishedHere' = finishedHere \cup {worker[w]}
  /\ UNCHANGED <<clock, procVars, loopVars, queued, diskVars, restarts, passed>>

\* The Octo profile has been stopped and the recorded schedule is returned.
ReturnSchedule(w) ==
  /\ w \in recorded
  /\ EndCycle(w, store[worker[w]].rest, store[worker[w]].rest)

\* Any error before the run is recorded: the profile lock is held by another
\* orchestrator, a stage could not be spawned, the state could not be saved.
\* Stopping the Octo profile afterwards swallows its own errors.
RaiseError(w) ==
  /\ w \notin recorded
  /\ EndCycle(w, Raised, RetryRest)

-----------------------------------------------------------------------------
(* The environment.                                                        *)

\* SIGINT or SIGTERM.
RequestStop ==
  /\ pc # "exited" /\ ~stopping
  /\ stopping' = TRUE
  /\ UNCHANGED <<clock, pc, exitCode, loopVars, poolVars, diskVars, restarts, histVars>>

\* The process is killed at any point, or has exited, and is started again:
\* the state file is all that is left.
Restart ==
  /\ restarts < MaxRestarts
  /\ restarts' = restarts + 1
  /\ stopping' = FALSE /\ pc' = "boot" /\ exitCode' = "none"
  /\ now' = 0 /\ nextDiscovery' = 0 /\ profiles' = {}
  /\ nextDue' = NothingDue /\ running' = {} /\ completed' = 0
  /\ queued' = {} /\ worker' = AllIdle /\ recorded' = {}
  /\ done' = {} /\ outcome' = NoOutcomes
  /\ finishedHere' = {} /\ passed' = NonePassed
  /\ UNCHANGED <<clock, diskVars, backoff>>

-----------------------------------------------------------------------------
Main ==
  \/ Boot \/ StartupDiscovery
  \/ \E S \in SUBSET Profiles : OnceSubmit(S)
  \/ OnceFinish
  \/ LoopHead \/ DiscoveryBlocks
  \/ \E S \in SUBSET Profiles : Discover(S)
  \/ DiscoveryRaises
  \/ Reap
  \/ \E S \in SUBSET Profiles : Select(S)
  \/ Sleep \/ Shutdown \/ Drained

Thread(w) ==
  \/ \E p \in Profiles : StartCycle(w, p)
  \/ \E rest \in Rests : RecordRun(w, rest)
  \/ ReturnSchedule(w)
  \/ RaiseError(w)

Next ==
  \/ Main
  \/ \E w \in Workers : Thread(w)
  \/ RequestStop
  \/ Restart

Spec == Init /\ [][Next]_vars

\* The main thread never blocks for ever and every stage of a cycle runs
\* under a timeout, so each thread keeps taking steps.
Fairness == WF_vars(Main) /\ \A w \in Workers : WF_vars(Thread(w))

FairSpec == Spec /\ Fairness

-----------------------------------------------------------------------------
(* Properties.                                                             *)

\* Every variable has its type.
TypeOK ==
  /\ clock \in Nat /\ now \in Nat /\ nextDiscovery \in Nat
  /\ stopping \in BOOLEAN
  /\ pc \in {"boot", "startup", "once", "await", "head", "discover", "reap",
             "select", "sleep", "shutdown", "drain", "exited"}
  /\ exitCode \in {"none", "ok", "failed", "interrupted", "error"}
  /\ profiles \in SUBSET Profiles
  /\ nextDue \in [Profiles -> Nat \cup {NoTime}]
  /\ running \in SUBSET Profiles /\ completed \in Nat
  /\ queued \in SUBSET Profiles
  /\ worker \in [Workers -> Profiles \cup {Idle}]
  /\ recorded \in SUBSET Workers
  /\ done \in SUBSET Profiles
  /\ outcome \in [Profiles -> Nat \cup {Raised}]
  /\ store \in [Profiles -> [at : Nat \cup {NoTime}, rest : Nat]]
  /\ restarts \in Nat
  /\ backoff \in [Profiles -> Nat] /\ finishedHere \in SUBSET Profiles
  /\ passed \in [Profiles -> SUBSET Profiles]

Busy == {w \in Workers : worker[w] # Idle}
InPool == queued \cup {worker[w] : w \in Busy}

\* Two threads never run a cycle of one profile, and no profile is queued
\* while a thread still runs its cycle: the loop never submits a profile whose
\* previous future it has not reaped (scheduler.py, running and done()).
CycleExclusive ==
  /\ \A v, w \in Busy : worker[v] = worker[w] => v = w
  /\ \A w \in Busy : worker[w] \notin queued

\* The dict of futures accounts for every cycle in the pool and for every
\* result that waits to be reaped: a profile that discovery has dropped or
\* disabled meanwhile keeps its slot until its cycle is over.
RunningIsAccounted ==
  /\ InPool \subseteq running
  /\ done \subseteq running
  /\ InPool \cap done = {}

\* The loop never has more than max_parallel cycles in flight, whatever
\* discovery does to the snapshot (run_once submits everything at once).
AtMostMaxParallel == Continuous => Cardinality(running) <= MaxParallel

\* With max_cycles set, completed and running cycles together never exceed it.
CycleBudget ==
  Continuous /\ MaxCycles > 0 => completed + Cardinality(running) <= MaxCycles

\* The process exits only with an idle pool; its exit code is 0 only if the loop
\* completed exactly max_cycles cycles and dropped none on the way out, or run_once
\* had profiles and no cycle of theirs raised.
ExitIsClean ==
  pc = "exited" =>
    /\ Busy = {} /\ queued = {}
    /\ exitCode = "ok" =>
         \/ completed = MaxCycles /\ MaxCycles > 0 /\ running = {}
         \/ running # {} /\ running \subseteq done /\ \A p \in running : outcome[p] # Raised

\* Within one process a profile is never submitted before the rest that
\* followed its last cycle is over - the rest of its recorded schedule, or the
\* infrastructure retry after an error - also when discovery drops and re-lists
\* the profile meanwhile.
RestRespected ==
  [][\A p \in finishedHere :
       p \in running' \ running => clock >= backoff[p]]_vars

\* After a restart a recorded rest is honoured up to the time the first
\* discovery request blocked: the due time adds the rest that remains after the
\* request to a clock read before it.
RecordedRestSurvivesRestart ==
  [][\A p \in Profiles \ finishedHere :
       /\ pc = "select"
       /\ p \in running' \ running
       /\ store[p].at # NoTime
       => clock + DiscoveryMax >= store[p].at + store[p].rest]_vars

\* Oldest-due order bounds overtaking: while a due profile waits for a slot no
\* other profile is started twice, whatever the rests are (zero included).
NoSecondOvertaking ==
  [][\A p \in Profiles :
       p \in Due \ running' => (running' \ running) \cap passed[p] = {}]_vars

\* Once the pool is shutting down no thread picks up another cycle.
DrainStartsNothing ==
  [][pc = "drain" =>
       \A w \in Workers : worker[w] = Idle => worker'[w] \in {Idle}]_vars

\* A stop request that arrives after the stop event was cleared ends the
\* process once the cycles in flight have ended, unless it is killed first
\* and starts again.
StopDrains == (stopping /\ pc # "boot") ~> (pc \in {"exited", "boot"})
=============================================================================
