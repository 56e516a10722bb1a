---------------------- MODULE ProfileSchedulerProofs ----------------------
(***************************************************************************)
(* Proofs about ProfileScheduler for every set of profiles, every number   *)
(* of threads and every configuration.                                     *)
(***************************************************************************)
EXTENDS ProfileScheduler, FiniteSetTheorems, TLAPS

Prelude == {"boot", "startup", "once"}

\* Before a mode has started nothing is in flight and nothing has finished;
\* run_once runs in its own mode only.
ModeInv ==
  /\ pc \in Prelude => running = {} /\ finishedHere = {}
  /\ pc \in {"once", "await"} => "once" \in Modes

\* What is inductive about the pool.
PoolInv == TypeOK /\ ModeInv /\ CycleExclusive /\ RunningIsAccounted

-----------------------------------------------------------------------------
(* The schedule.                                                           *)

LEMMA RestTypes ==
  ASSUME TypeOK, SchedulerAssumption
  PROVE  /\ \A p \in Profiles : DueAt(p) \in Nat
         /\ \A p \in Profiles : RemainingRest(p) \in Nat
         /\ \A p \in Profiles : RestAfter(p) \in Nat
         /\ \A S : RestoredDue(S) \in [Profiles -> Nat \cup {NoTime}]
<1>1. \A p \in Profiles : DueAt(p) \in Nat
  BY DEF TypeOK, DueAt
<1>2. \A p \in Profiles : RemainingRest(p) \in Nat
  BY DEF TypeOK, RemainingRest, Larger
<1>3. \A p \in Profiles : RestAfter(p) \in Nat
  BY DEF TypeOK, RestAfter, SchedulerAssumption
<1>4. \A S : RestoredDue(S) \in [Profiles -> Nat \cup {NoTime}]
  BY <1>2 DEF TypeOK, RestoredDue
<1> QED
  BY <1>1, <1>2, <1>3, <1>4

-----------------------------------------------------------------------------
(* Type correctness.                                                       *)

LEMMA FreshTypes ==
  /\ NothingDue \in [Profiles -> Nat \cup {NoTime}]
  /\ AllIdle \in [Workers -> Profiles \cup {Idle}]
  /\ NoOutcomes \in [Profiles -> Nat \cup {Raised}]
  /\ NonePassed \in [Profiles -> SUBSET Profiles]
BY DEF NothingDue, AllIdle, NoOutcomes, NonePassed

LEMMA InitType == SchedulerAssumption /\ Init => TypeOK
<1> SUFFICES ASSUME SchedulerAssumption, Init PROVE TypeOK
  OBVIOUS
<1>1. /\ store \in [Profiles -> [at : Nat \cup {NoTime}, rest : Nat]]
      /\ backoff \in [Profiles -> Nat]
  BY DEF Init, NeverRan
<1> QED
  BY <1>1, FreshTypes DEF Init, TypeOK

LEMMA MainType ==
  ASSUME TypeOK, SchedulerAssumption, Main
  PROVE  TypeOK'
<1> USE DEF procVars, loopVars, poolVars, diskVars, histVars
<1>1. CASE Boot
  BY <1>1 DEF Boot, TypeOK
<1>2. CASE StartupDiscovery
  BY <1>2 DEF StartupDiscovery, TypeOK
<1>3. ASSUME NEW S \in SUBSET Profiles, OnceSubmit(S) PROVE TypeOK'
  BY <1>3 DEF OnceSubmit, TypeOK
<1>4. CASE OnceFinish
  BY <1>4 DEF OnceFinish, TypeOK
<1>5. CASE LoopHead
  BY <1>5 DEF LoopHead, TypeOK
<1>6. CASE DiscoveryBlocks
  BY <1>6 DEF DiscoveryBlocks, TypeOK
<1>7. ASSUME NEW S \in SUBSET Profiles, Discover(S) PROVE TypeOK'
  <2>1. nextDue' \in [Profiles -> Nat \cup {NoTime}]
    BY <1>7, RestTypes DEF Discover
  <2> QED
    BY <1>7, <2>1 DEF Discover, TypeOK, SchedulerAssumption
<1>8. CASE DiscoveryRaises
  BY <1>8 DEF DiscoveryRaises, TypeOK, SchedulerAssumption
<1>9. CASE Reap
  <2> DEFINE R == running \cap done
  <2>1. R \in SUBSET Profiles /\ Cardinality(R) \in Nat
    BY FS_Subset, FS_CardinalityType DEF TypeOK, SchedulerAssumption
  <2>2. nextDue' \in [Profiles -> Nat \cup {NoTime}]
    BY <1>9, RestTypes DEF Reap, TypeOK
  <2> QED
    BY <1>9, <2>1, <2>2 DEF Reap, TypeOK
<1>10. ASSUME NEW S \in SUBSET Profiles, Select(S) PROVE TypeOK'
  <2>1. passed' \in [Profiles -> SUBSET Profiles]
    BY <1>10 DEF Select, TypeOK
  <2> QED
    BY <1>10, <2>1 DEF Select, TypeOK
<1>11. CASE Sleep
  BY <1>11 DEF Sleep, TypeOK, Smaller, SchedulerAssumption
<1>12. CASE Shutdown
  BY <1>12 DEF Shutdown, TypeOK
<1>13. CASE Drained
  BY <1>13 DEF Drained, TypeOK
<1> QED
  BY <1>1, <1>2, <1>3, <1>4, <1>5, <1>6, <1>7, <1>8, <1>9, <1>10, <1>11, <1>12,
     <1>13 DEF Main

LEMMA EndCycleType ==
  ASSUME TypeOK, SchedulerAssumption, NEW w \in Workers,
         NEW result \in Nat \cup {Raised}, NEW rest \in Nat, EndCycle(w, result, rest)
  PROVE  TypeOK'
<1>1. worker[w] \in Profiles
  BY DEF EndCycle, TypeOK
<1>2. /\ worker' \in [Workers -> Profiles \cup {Idle}]
      /\ outcome' \in [Profiles -> Nat \cup {Raised}]
      /\ backoff' \in [Profiles -> Nat]
      /\ done' \in SUBSET Profiles /\ finishedHere' \in SUBSET Profiles
      /\ recorded' \in SUBSET Workers
  BY <1>1 DEF EndCycle, TypeOK
<1> QED
  BY <1>2 DEF EndCycle, TypeOK, procVars, loopVars, poolVars, diskVars, histVars

LEMMA ThreadType ==
  ASSUME TypeOK, SchedulerAssumption, NEW w \in Workers, Thread(w)
  PROVE  TypeOK'
<1>1. ASSUME NEW p \in Profiles, StartCycle(w, p) PROVE TypeOK'
  BY <1>1 DEF StartCycle, TypeOK, procVars, loopVars, diskVars, histVars
<1>2. ASSUME NEW rest \in Rests, RecordRun(w, rest) PROVE TypeOK'
  <2>1. worker[w] \in Profiles /\ rest \in Nat
    BY <1>2 DEF RecordRun, TypeOK, SchedulerAssumption
  <2>2. store' \in [Profiles -> [at : Nat \cup {NoTime}, rest : Nat]]
    BY <1>2, <2>1 DEF RecordRun, TypeOK
  <2> QED
    BY <1>2, <2>2 DEF RecordRun, TypeOK, procVars, loopVars, histVars
<1>3. CASE ReturnSchedule(w)
  <2>1. worker[w] \in Profiles
    BY <1>3 DEF ReturnSchedule, EndCycle, TypeOK
  <2>2. store[worker[w]].rest \in Nat
    BY <2>1 DEF TypeOK
  <2> QED
    BY <1>3, <2>2, EndCycleType DEF ReturnSchedule
<1>4. CASE RaiseError(w)
  BY <1>4, EndCycleType DEF RaiseError, SchedulerAssumption
<1> QED
  BY <1>1, <1>2, <1>3, <1>4 DEF Thread

LEMMA NextType ==
  ASSUME TypeOK, SchedulerAssumption, [Next]_vars
  PROVE  TypeOK'
<1>1. CASE RequestStop
  BY <1>1 DEF RequestStop, TypeOK, loopVars, poolVars, diskVars, histVars
<1>2. CASE Restart
  <2>1. /\ nextDue' = NothingDue /\ worker' = AllIdle
        /\ outcome' = NoOutcomes /\ passed' = NonePassed
    BY <1>2 DEF Restart
  <2>2. /\ nextDue' \in [Profiles -> Nat \cup {NoTime}]
        /\ worker' \in [Workers -> Profiles \cup {Idle}]
        /\ outcome' \in [Profiles -> Nat \cup {Raised}]
        /\ passed' \in [Profiles -> SUBSET Profiles]
    BY <2>1, FreshTypes
  <2>3. /\ clock' = clock /\ restarts' = restarts + 1 /\ backoff' = backoff
        /\ now' = 0 /\ nextDiscovery' = 0 /\ completed' = 0
        /\ stopping' = FALSE /\ pc' = "boot" /\ exitCode' = "none"
        /\ profiles' = {} /\ running' = {} /\ queued' = {} /\ recorded' = {}
        /\ done' = {} /\ finishedHere' = {}
    BY <1>2 DEF Restart
  <2>4. /\ restarts' \in Nat
        /\ store' \in [Profiles -> [at : Nat \cup {NoTime}, rest : Nat]]
    BY <1>2 DEF Restart, TypeOK, diskVars
  <2> QED
    BY <2>2, <2>3, <2>4 DEF TypeOK
<1>3. CASE UNCHANGED vars
  BY <1>3 DEF vars, TypeOK, procVars, loopVars, poolVars, diskVars, histVars
<1> QED
  BY <1>1, <1>2, <1>3, MainType, ThreadType DEF Next

\* Every reachable state of the scheduler is well typed.
THEOREM TypeCorrect == Spec => []TypeOK
<1>1. Init => TypeOK
  BY InitType, SchedulerAssumption
<1>2. TypeOK /\ [Next]_vars => TypeOK'
  BY NextType, SchedulerAssumption
<1> QED
  BY <1>1, <1>2, PTL DEF Spec

-----------------------------------------------------------------------------
(* The dict of futures accounts for the pool, and no profile runs twice.   *)

LEMMA InitPool == SchedulerAssumption /\ Init => PoolInv
<1> SUFFICES ASSUME SchedulerAssumption, Init PROVE PoolInv
  OBVIOUS
<1>1. TypeOK
  BY InitType
<1>2. Busy = {} /\ queued = {} /\ running = {} /\ done = {} /\ finishedHere = {}
  BY DEF Init, Busy, AllIdle
<1> QED
  BY <1>1, <1>2 DEF Init, PoolInv, ModeInv, CycleExclusive, RunningIsAccounted, InPool,
                    Prelude

\* A step that leaves the pool alone and only lets the dict of futures grow
\* preserves what the two share.
LEMMA PoolUntouched ==
  ASSUME CycleExclusive, RunningIsAccounted, UNCHANGED <<queued, worker, done>>,
         running \subseteq running'
  PROVE  CycleExclusive' /\ RunningIsAccounted'
BY DEF CycleExclusive, RunningIsAccounted, InPool, Busy

\* A submission of profiles without a future.
LEMMA Submission ==
  ASSUME CycleExclusive, RunningIsAccounted, NEW S \in SUBSET Profiles,
         S \cap running = {}, UNCHANGED <<worker, done>>,
         running' = running \cup S, queued' = queued \cup S
  PROVE  CycleExclusive' /\ RunningIsAccounted'
<1>1. Busy' = Busy
  BY DEF Busy
<1>2. \A w \in Busy : worker[w] \in running
  BY DEF RunningIsAccounted, InPool
<1>3. CycleExclusive'
  BY <1>1, <1>2 DEF CycleExclusive
<1>4. InPool' = InPool \cup S
  BY <1>1 DEF InPool
<1> QED
  BY <1>3, <1>4 DEF RunningIsAccounted

LEMMA MainPool ==
  ASSUME PoolInv, SchedulerAssumption, Main
  PROVE  ModeInv' /\ CycleExclusive' /\ RunningIsAccounted'
<1> USE DEF procVars, loopVars, poolVars, diskVars, histVars, Prelude
<1>1. CASE Boot
  BY <1>1, PoolUntouched DEF Boot, PoolInv, ModeInv
<1>2. CASE StartupDiscovery
  BY <1>2, PoolUntouched DEF StartupDiscovery, PoolInv, ModeInv
<1>3. ASSUME NEW S \in SUBSET Profiles, OnceSubmit(S)
      PROVE  ModeInv' /\ CycleExclusive' /\ RunningIsAccounted'
  <2>1. running = {} /\ queued = {}
    BY <1>3 DEF OnceSubmit, PoolInv, ModeInv, RunningIsAccounted, InPool
  <2>2. CycleExclusive' /\ RunningIsAccounted'
    BY <1>3, <2>1, Submission DEF OnceSubmit, PoolInv
  <2> QED
    BY <1>3, <2>2 DEF OnceSubmit, PoolInv, ModeInv
<1>4. CASE OnceFinish
  BY <1>4, PoolUntouched DEF OnceFinish, PoolInv, ModeInv
<1>5. CASE LoopHead
  BY <1>5, PoolUntouched DEF LoopHead, PoolInv, ModeInv
<1>6. CASE DiscoveryBlocks
  BY <1>6, PoolUntouched DEF DiscoveryBlocks, PoolInv, ModeInv
<1>7. ASSUME NEW S \in SUBSET Profiles, Discover(S)
      PROVE  ModeInv' /\ CycleExclusive' /\ RunningIsAccounted'
  BY <1>7, PoolUntouched DEF Discover, PoolInv, ModeInv
<1>8. CASE DiscoveryRaises
  BY <1>8, PoolUntouched DEF DiscoveryRaises, PoolInv, ModeInv
<1>9. CASE Reap
  <2>1. running' = running \ (running \cap done) /\ done' = done \ (running \cap done)
        /\ UNCHANGED <<queued, worker>>
    BY <1>9 DEF Reap
  <2>2. CycleExclusive'
    BY <2>1 DEF PoolInv, CycleExclusive, Busy
  <2>3. InPool' = InPool
    BY <2>1 DEF InPool, Busy
  <2>4. RunningIsAccounted'
    BY <2>1, <2>3 DEF PoolInv, RunningIsAccounted
  <2> QED
    BY <1>9, <2>2, <2>4 DEF Reap, PoolInv, ModeInv
<1>10. ASSUME NEW S \in SUBSET Profiles, Select(S)
       PROVE  ModeInv' /\ CycleExclusive' /\ RunningIsAccounted'
  <2>1. S \cap running = {}
    BY <1>10 DEF Select, IsOldestDue, Due
  <2>2. CycleExclusive' /\ RunningIsAccounted'
    BY <1>10, <2>1, Submission DEF Select, PoolInv
  <2> QED
    BY <1>10, <2>2 DEF Select, PoolInv, ModeInv
<1>11. CASE Sleep
  BY <1>11, PoolUntouched DEF Sleep, PoolInv, ModeInv
<1>12. CASE Shutdown
  <2>1. CycleExclusive' /\ RunningIsAccounted'
    BY <1>12 DEF Shutdown, PoolInv, CycleExclusive, RunningIsAccounted, InPool, Busy
  <2> QED
    BY <1>12, <2>1 DEF Shutdown, PoolInv, ModeInv
<1>13. CASE Drained
  BY <1>13, PoolUntouched DEF Drained, PoolInv, ModeInv
<1> QED
  BY <1>1, <1>2, <1>3, <1>4, <1>5, <1>6, <1>7, <1>8, <1>9, <1>10, <1>11, <1>12,
     <1>13 DEF Main

LEMMA EndCyclePool ==
  ASSUME PoolInv, SchedulerAssumption, NEW w \in Workers, NEW result, NEW rest,
         EndCycle(w, result, rest)
  PROVE  ModeInv' /\ CycleExclusive' /\ RunningIsAccounted'
<1> USE DEF procVars, loopVars, poolVars, diskVars
<1>1. w \in Busy /\ worker[w] \in running
  BY DEF EndCycle, Busy, PoolInv, RunningIsAccounted, InPool
<1>2. /\ Busy' = Busy \ {w}
      /\ \A v \in Busy' : worker'[v] = worker[v]
  BY DEF EndCycle, Busy, PoolInv, TypeOK
<1>3. CycleExclusive'
  BY <1>2 DEF EndCycle, PoolInv, CycleExclusive
<1>4. InPool' = InPool \ {worker[w]}
  BY <1>1, <1>2 DEF EndCycle, PoolInv, CycleExclusive, InPool
<1>5. RunningIsAccounted'
  BY <1>1, <1>4 DEF EndCycle, PoolInv, RunningIsAccounted
<1> QED
  BY <1>1, <1>3, <1>5 DEF EndCycle, PoolInv, ModeInv

LEMMA ThreadPool ==
  ASSUME PoolInv, SchedulerAssumption, NEW w \in Workers, Thread(w)
  PROVE  ModeInv' /\ CycleExclusive' /\ RunningIsAccounted'
<1>1. ASSUME NEW p \in Profiles, StartCycle(w, p)
      PROVE  ModeInv' /\ CycleExclusive' /\ RunningIsAccounted'
  <2> USE DEF procVars, loopVars, diskVars, histVars
  <2>1. /\ Busy' = Busy \cup {w} /\ w \notin Busy
        /\ worker'[w] = p /\ \A v \in Busy : worker'[v] = worker[v]
    BY <1>1 DEF StartCycle, Busy, PoolInv, TypeOK, SchedulerAssumption
  <2>2. CycleExclusive'
    BY <1>1, <2>1 DEF StartCycle, PoolInv, CycleExclusive
  <2>3. InPool' = InPool
    BY <1>1, <2>1 DEF StartCycle, InPool
  <2>4. RunningIsAccounted'
    BY <1>1, <2>3 DEF StartCycle, PoolInv, RunningIsAccounted
  <2> QED
    BY <1>1, <2>2, <2>4 DEF StartCycle, PoolInv, ModeInv
<1>2. ASSUME NEW rest \in Rests, RecordRun(w, rest)
      PROVE  ModeInv' /\ CycleExclusive' /\ RunningIsAccounted'
  BY <1>2, PoolUntouched DEF RecordRun, PoolInv, ModeInv, procVars, loopVars, histVars
<1>3. CASE ReturnSchedule(w)
  BY <1>3, EndCyclePool DEF ReturnSchedule
<1>4. CASE RaiseError(w)
  BY <1>4, EndCyclePool DEF RaiseError
<1> QED
  BY <1>1, <1>2, <1>3, <1>4 DEF Thread

LEMMA NextPool ==
  ASSUME PoolInv, SchedulerAssumption, [Next]_vars
  PROVE  PoolInv'
<1> SUFFICES ModeInv' /\ CycleExclusive' /\ RunningIsAccounted'
  BY NextType DEF PoolInv
<1>1. CASE RequestStop
  BY <1>1, PoolUntouched DEF RequestStop, PoolInv, ModeInv, loopVars, poolVars,
                             histVars
<1>2. CASE Restart
  <2>1. Busy' = {} /\ queued' = {} /\ running' = {} /\ done' = {}
    BY <1>2 DEF Restart, Busy, AllIdle
  <2> QED
    BY <1>2, <2>1 DEF Restart, ModeInv, CycleExclusive, RunningIsAccounted, InPool,
                      Prelude
<1>3. CASE UNCHANGED vars
  BY <1>3, PoolUntouched DEF vars, PoolInv, ModeInv, procVars, loopVars, poolVars,
                             histVars
<1> QED
  BY <1>1, <1>2, <1>3, MainPool, ThreadPool DEF Next

\* The pool, the dict of futures and the mode agree in every reachable state.
THEOREM PoolInvariant == Spec => []PoolInv
<1>1. Init => PoolInv
  BY InitPool, SchedulerAssumption
<1>2. PoolInv /\ [Next]_vars => PoolInv'
  BY NextPool, SchedulerAssumption
<1> QED
  BY <1>1, <1>2, PTL DEF Spec

\* Two threads never run a cycle of one profile, and none is queued twice.
THEOREM CyclesAreExclusive == Spec => []CycleExclusive
<1>1. PoolInv => CycleExclusive
  BY DEF PoolInv
<1> QED
  BY <1>1, PoolInvariant, PTL

\* The dict of futures accounts for everything in the pool.
THEOREM EveryCycleIsAccounted == Spec => []RunningIsAccounted
<1>1. PoolInv => RunningIsAccounted
  BY DEF PoolInv
<1> QED
  BY <1>1, PoolInvariant, PTL

-----------------------------------------------------------------------------
(* Capacity.  Only Reap and Select change what the limits count; the other *)
(* steps of the loop leave it alone and a restart clears it.               *)

LEMMA CountsUntouched ==
  ASSUME PoolInv, SchedulerAssumption, Continuous, Next,
         ~Reap, ~\E S \in SUBSET Profiles : Select(S)
  PROVE  \/ UNCHANGED <<running, completed>>
         \/ running' = {} /\ completed' = 0
<1>1. CASE Main
  <2>1. ~\E S \in SUBSET Profiles : OnceSubmit(S)
    BY DEF PoolInv, ModeInv, OnceSubmit, Continuous
  <2> QED
    BY <1>1, <2>1 DEF Main, Boot, StartupDiscovery, OnceFinish, LoopHead,
       DiscoveryBlocks, Discover, DiscoveryRaises, Sleep, Shutdown, Drained, loopVars
<1>2. ASSUME NEW w \in Workers, Thread(w) PROVE UNCHANGED <<running, completed>>
  BY <1>2 DEF Thread, StartCycle, RecordRun, ReturnSchedule, RaiseError, EndCycle,
              loopVars
<1>3. CASE RequestStop
  BY <1>3 DEF RequestStop, loopVars
<1>4. CASE Restart
  BY <1>4 DEF Restart
<1> QED
  BY <1>1, <1>2, <1>3, <1>4 DEF Next

LEMMA RunningCounts ==
  ASSUME TypeOK, SchedulerAssumption
  PROVE  /\ IsFiniteSet(running) /\ Cardinality(running) \in Nat
         /\ IsFiniteSet(Due) /\ Cardinality(Due) \in Nat
         /\ MaxParallel \in Nat
<1>1. running \subseteq Profiles /\ Due \subseteq Profiles
  BY DEF TypeOK, Due
<1> QED
  BY <1>1, FS_Subset, FS_CardinalityType DEF SchedulerAssumption, MaxParallel

\* What a pass of the loop submits fits both limits.
LEMMA SelectionFits ==
  ASSUME TypeOK, SchedulerAssumption, NEW S \in SUBSET Profiles, IsOldestDue(S)
  PROVE  /\ Cardinality(running \cup S) = Cardinality(running) + Cardinality(S)
         /\ Cardinality(S) \in Nat
         /\ \/ Cardinality(S) = 0
            \/ Cardinality(running) + Cardinality(S) <= MaxParallel
         /\ MaxCycles > 0 =>
              \/ Cardinality(S) = 0
              \/ completed + Cardinality(running) + Cardinality(S) <= MaxCycles
<1>1. IsFiniteSet(S) /\ Cardinality(S) \in Nat
  BY FS_Subset, FS_CardinalityType DEF SchedulerAssumption
<1>2. running \cap S = {} /\ Cardinality({}) = 0
  BY FS_EmptySet DEF IsOldestDue, Due
<1>3. Cardinality(running \cup S) = Cardinality(running) + Cardinality(S)
  BY <1>1, <1>2, RunningCounts, FS_Union
<1>4. Cardinality(S) = Smaller(Cardinality(Due), Slots)
  BY DEF IsOldestDue
<1>5. completed \in Nat /\ MaxCycles \in Nat
  BY DEF TypeOK, SchedulerAssumption
<1>6. \/ Cardinality(S) = 0
      \/ Cardinality(running) + Cardinality(S) <= MaxParallel
  BY <1>1, <1>4, <1>5, RunningCounts DEF Slots, AvailableSlots, Smaller, Larger
<1>7. MaxCycles > 0 =>
        \/ Cardinality(S) = 0
        \/ completed + Cardinality(running) + Cardinality(S) <= MaxCycles
  BY <1>1, <1>4, <1>5, RunningCounts DEF Slots, AvailableSlots, Smaller, Larger
<1> QED
  BY <1>1, <1>3, <1>6, <1>7

\* Reaping moves cycles from running to completed.
LEMMA ReapCounts ==
  ASSUME TypeOK, SchedulerAssumption, Reap
  PROVE  /\ Cardinality(running') \in Nat
         /\ Cardinality(running') <= Cardinality(running)
         /\ completed' + Cardinality(running') = completed + Cardinality(running)
<1> DEFINE R == running \cap done
<1>1. running' = running \ R /\ completed' = completed + Cardinality(R)
  BY DEF Reap
<1>2. IsFiniteSet(R) /\ Cardinality(R) \in Nat
  BY RunningCounts, FS_Subset, FS_CardinalityType
<1>3. Cardinality(running \ R) = Cardinality(running) - Cardinality(R)
  <2>1. running \cap R = R
    OBVIOUS
  <2> QED
    BY <2>1, RunningCounts, FS_Difference
<1>4. Cardinality(running \ R) \in Nat
  BY RunningCounts, FS_Difference, FS_CardinalityType
<1> QED
  BY <1>1, <1>2, <1>3, <1>4, RunningCounts DEF TypeOK

CapacityInv == AtMostMaxParallel /\ CycleBudget

LEMMA NextCapacity ==
  ASSUME PoolInv, CapacityInv, SchedulerAssumption, [Next]_vars
  PROVE  CapacityInv'
<1> SUFFICES ASSUME Continuous PROVE CapacityInv'
  BY DEF CapacityInv, AtMostMaxParallel, CycleBudget
<1> USE DEF CapacityInv, AtMostMaxParallel, CycleBudget
<1>0. TypeOK /\ completed \in Nat /\ MaxCycles \in Nat
  BY DEF PoolInv, TypeOK, SchedulerAssumption
<1>1. CASE Reap
  BY <1>0, <1>1, ReapCounts, RunningCounts
<1>2. ASSUME NEW S \in SUBSET Profiles, Select(S) PROVE CapacityInv'
  <2>1. IsOldestDue(S) /\ running' = running \cup S /\ completed' = completed
    BY <1>2 DEF Select
  <2> QED
    BY <1>0, <2>1, SelectionFits, RunningCounts
<1>3. CASE UNCHANGED <<running, completed>>
  BY <1>3
<1>4. CASE running' = {} /\ completed' = 0
  BY <1>0, <1>4, FS_EmptySet, RunningCounts
<1>5. CASE UNCHANGED vars
  BY <1>5 DEF vars, loopVars
<1> QED
  BY <1>1, <1>2, <1>3, <1>4, <1>5, CountsUntouched

LEMMA InitCapacity == SchedulerAssumption /\ Init => CapacityInv
BY FS_EmptySet, FS_CardinalityType
   DEF SchedulerAssumption, Init, CapacityInv, AtMostMaxParallel, CycleBudget, MaxParallel

\* The limits of parallelism and of cycles hold with what each step may still add.
THEOREM CapacityInvariant == Spec => []CapacityInv
<1>1. Init => CapacityInv
  BY InitCapacity, SchedulerAssumption
<1>2. PoolInv /\ CapacityInv /\ [Next]_vars => CapacityInv'
  BY NextCapacity, SchedulerAssumption
<1> QED
  BY <1>1, <1>2, PoolInvariant, PTL DEF Spec

\* The loop never has more than max_parallel cycles in flight.
THEOREM ParallelismIsBounded == Spec => []AtMostMaxParallel
<1>1. CapacityInv => AtMostMaxParallel
  BY DEF CapacityInv
<1> QED
  BY <1>1, CapacityInvariant, PTL

\* Completed and running cycles together never exceed max_cycles.
THEOREM BudgetIsKept == Spec => []CycleBudget
<1>1. CapacityInv => CycleBudget
  BY DEF CapacityInv
<1> QED
  BY <1>1, CapacityInvariant, PTL

-----------------------------------------------------------------------------
(* Rests.  The loop's copy of the clock is never ahead of it, and a        *)
(* profile that finished here and is not running has a due time no earlier *)
(* than the end of its rest.                                               *)

RestInv ==
  /\ now <= clock /\ clock <= MaxTime
  /\ \A p \in finishedHere \ running : nextDue[p] # NoTime /\ backoff[p] <= nextDue[p]
  /\ \A p \in done : backoff[p] <= clock + RestAfter(p)

\* Steps that change neither due times nor results.
LEMMA RestUntouched ==
  ASSUME TypeOK, RestInv, SchedulerAssumption,
         UNCHANGED <<nextDue, done, outcome, backoff, finishedHere>>,
         running \subseteq running',
         clock' \in Nat, clock <= clock', clock' <= MaxTime, now' <= clock'
  PROVE  RestInv'
<1>1. \A p \in Profiles : RestAfter(p)' = RestAfter(p) /\ RestAfter(p) \in Nat
  BY RestTypes DEF RestAfter
<1>2. \A p \in done : backoff[p] <= clock' + RestAfter(p)
  BY <1>1 DEF RestInv, TypeOK
<1> QED
  BY <1>1, <1>2 DEF RestInv, TypeOK

LEMMA MainRest ==
  ASSUME PoolInv, RestInv, SchedulerAssumption, Main
  PROVE  RestInv'
<1> USE DEF procVars, loopVars, poolVars, diskVars, histVars
<1>0. TypeOK /\ clock \in Nat /\ now <= clock /\ clock <= MaxTime /\ MaxTime \in Nat
  BY DEF PoolInv, TypeOK, RestInv, SchedulerAssumption
<1>1. CASE Boot
  BY <1>0, <1>1, RestUntouched DEF Boot
<1>2. CASE StartupDiscovery
  BY <1>0, <1>2, RestUntouched DEF StartupDiscovery
<1>3. ASSUME NEW S \in SUBSET Profiles, OnceSubmit(S) PROVE RestInv'
  <2>1. running \subseteq running'
    BY <1>3 DEF OnceSubmit, PoolInv, ModeInv, Prelude
  <2> QED
    BY <1>0, <1>3, <2>1, RestUntouched DEF OnceSubmit
<1>4. CASE OnceFinish
  BY <1>0, <1>4, RestUntouched DEF OnceFinish
<1>5. CASE LoopHead
  <2>1. now' <= clock'
    BY <1>0, <1>5 DEF LoopHead
  <2> QED
    BY <1>0, <1>5, <2>1, RestUntouched DEF LoopHead
<1>6. CASE DiscoveryBlocks
  <2>1. clock' = clock + 1 /\ clock' <= MaxTime /\ now' = now
    BY <1>0, <1>6 DEF DiscoveryBlocks
  <2>2. now' <= clock'
    BY <1>0, <2>1 DEF PoolInv, TypeOK
  <2> QED
    BY <1>0, <1>6, <2>1, <2>2, RestUntouched DEF DiscoveryBlocks
<1>7. ASSUME NEW S \in SUBSET Profiles, Discover(S) PROVE RestInv'
  <2>1. \A p \in Profiles : nextDue[p] # NoTime => nextDue'[p] = nextDue[p]
    BY <1>7 DEF Discover, RestoredDue
  <2>2. \A p \in Profiles : RestAfter(p)' = RestAfter(p)
    BY <1>7 DEF Discover, RestAfter
  <2>3. now' = now /\ clock' = clock
        /\ UNCHANGED <<running, finishedHere, backoff, done>>
    BY <1>7 DEF Discover
  <2> QED
    BY <1>0, <2>1, <2>2, <2>3 DEF RestInv, TypeOK
<1>8. CASE DiscoveryRaises
  BY <1>0, <1>8, RestUntouched DEF DiscoveryRaises
<1>9. CASE Reap
  <2> DEFINE R == running \cap done
  <2>1. running' = running \ R /\ done' = {}
    BY <1>9 DEF Reap, PoolInv, RunningIsAccounted
  <2>2. \A p \in Profiles : nextDue'[p] = IF p \in R THEN clock + RestAfter(p)
                                                     ELSE nextDue[p]
    BY <1>9 DEF Reap
  <2>3. UNCHANGED <<now, clock, finishedHere, backoff>>
    BY <1>9 DEF Reap
  <2>4. \A p \in R : /\ backoff[p] <= clock + RestAfter(p)
                     /\ clock + RestAfter(p) # NoTime
    BY <1>0, RestTypes DEF RestInv, NoTime, TypeOK
  <2> QED
    BY <1>0, <2>1, <2>2, <2>3, <2>4 DEF RestInv, TypeOK
<1>10. ASSUME NEW S \in SUBSET Profiles, Select(S) PROVE RestInv'
  BY <1>0, <1>10, RestUntouched DEF Select
<1>11. CASE Sleep
  <2>1. clock' \in Nat /\ clock <= clock' /\ clock' <= MaxTime
    BY <1>0, <1>11 DEF Sleep, Smaller
  <2>2. now' = now /\ now \in Nat
    BY <1>0, <1>11 DEF Sleep, TypeOK
  <2> QED
    BY <1>0, <1>11, <2>1, <2>2, RestUntouched DEF Sleep
<1>12. CASE Shutdown
  BY <1>0, <1>12, RestUntouched DEF Shutdown
<1>13. CASE Drained
  BY <1>0, <1>13, RestUntouched DEF Drained
<1> QED
  BY <1>1, <1>2, <1>3, <1>4, <1>5, <1>6, <1>7, <1>8, <1>9, <1>10, <1>11, <1>12,
     <1>13 DEF Main

\* The history of a cycle that ends is the rest its result carries.
LEMMA EndCycleRest ==
  ASSUME PoolInv, RestInv, SchedulerAssumption, NEW w \in Workers,
         NEW result \in Nat \cup {Raised}, NEW rest \in Nat,
         rest = (IF result = Raised THEN RetryRest ELSE result),
         EndCycle(w, result, rest)
  PROVE  RestInv'
<1>0. PICK q \in Profiles : q = worker[w]
  BY DEF EndCycle, PoolInv, TypeOK
<1>1. q \in running /\ q \in Profiles
  BY <1>0 DEF EndCycle, PoolInv, RunningIsAccounted, InPool, Busy, TypeOK
<1>2. /\ UNCHANGED <<now, clock, nextDue, running>>
      /\ done' = done \cup {q} /\ finishedHere' = finishedHere \cup {q}
      /\ outcome' = [outcome EXCEPT ![q] = result]
      /\ backoff' = [backoff EXCEPT ![q] = clock + rest]
  BY <1>0 DEF EndCycle, procVars, loopVars
<1>3. \A p \in Profiles \ {q} : RestAfter(p)' = RestAfter(p) /\ backoff'[p] = backoff[p]
  BY <1>2 DEF RestAfter, PoolInv, TypeOK
<1>4. RestAfter(q)' = rest /\ backoff'[q] = clock + rest
  BY <1>1, <1>2 DEF RestAfter, PoolInv, TypeOK
<1>5. clock \in Nat /\ done \subseteq Profiles /\ finishedHere \subseteq Profiles
  BY DEF PoolInv, TypeOK
<1>6. \A p \in finishedHere' \ running' : nextDue'[p] # NoTime /\ backoff'[p] <= nextDue'[p]
  BY <1>1, <1>2, <1>3, <1>5 DEF RestInv
<1>7. \A p \in done' : backoff'[p] <= clock' + RestAfter(p)'
  BY <1>1, <1>2, <1>3, <1>4, <1>5 DEF RestInv
<1> QED
  BY <1>2, <1>6, <1>7 DEF RestInv

LEMMA NextRest ==
  ASSUME PoolInv, RestInv, SchedulerAssumption, [Next]_vars
  PROVE  RestInv'
<1> USE DEF procVars, loopVars, poolVars, diskVars, histVars
<1>0. TypeOK /\ clock \in Nat /\ now <= clock /\ clock <= MaxTime /\ MaxTime \in Nat
  BY DEF PoolInv, TypeOK, RestInv, SchedulerAssumption
<1>1. ASSUME NEW w \in Workers, Thread(w) PROVE RestInv'
  <2>1. ASSUME NEW p \in Profiles, StartCycle(w, p) PROVE RestInv'
    BY <1>0, <2>1, RestUntouched DEF StartCycle
  <2>2. ASSUME NEW rest \in Rests, RecordRun(w, rest) PROVE RestInv'
    BY <1>0, <2>2, RestUntouched DEF RecordRun
  <2>3. CASE ReturnSchedule(w)
    <3>1. worker[w] \in Profiles
      BY <1>0, <2>3 DEF ReturnSchedule, EndCycle, TypeOK
    <3>2. store[worker[w]].rest \in Nat /\ store[worker[w]].rest # Raised
      BY <1>0, <3>1 DEF TypeOK, Raised
    <3> QED
      BY <2>3, <3>2, EndCycleRest DEF ReturnSchedule
  <2>4. CASE RaiseError(w)
    BY <2>4, EndCycleRest DEF RaiseError, SchedulerAssumption
  <2> QED
    BY <1>1, <2>1, <2>2, <2>3, <2>4 DEF Thread
<1>2. CASE RequestStop
  BY <1>0, <1>2, RestUntouched DEF RequestStop
<1>3. CASE Restart
  BY <1>0, <1>3 DEF Restart, RestInv
<1>4. CASE UNCHANGED vars
  BY <1>0, <1>4, RestUntouched DEF vars
<1> QED
  BY <1>1, <1>2, <1>3, <1>4, MainRest DEF Next

LEMMA RestStep ==
  ASSUME PoolInv, RestInv, SchedulerAssumption, [Next]_vars,
         NEW p \in finishedHere, p \in running' \ running
  PROVE  clock >= backoff[p]
<1>1. ~UNCHANGED running
  OBVIOUS
<1>2. PICK S \in SUBSET Profiles : OnceSubmit(S) \/ Select(S)
  <2>1. ~Reap /\ ~Restart
    BY DEF Reap, Restart
  <2>2. ~\E w \in Workers : Thread(w)
    BY <1>1 DEF Thread, StartCycle, RecordRun, ReturnSchedule, RaiseError, EndCycle,
                loopVars
  <2>3. ~RequestStop /\ ~UNCHANGED vars
    BY <1>1 DEF RequestStop, vars, loopVars
  <2>4. Main
    BY <2>1, <2>2, <2>3 DEF Next
  <2> QED
    BY <1>1, <2>1, <2>4 DEF Main, Boot, StartupDiscovery, OnceFinish, LoopHead,
       DiscoveryBlocks, Discover, DiscoveryRaises, Sleep, Shutdown, Drained, loopVars
<1>3. CASE OnceSubmit(S)
  BY <1>3 DEF OnceSubmit, PoolInv, ModeInv, Prelude
<1>4. CASE Select(S)
  <2>1. p \in Profiles /\ p \in Due
    BY <1>4 DEF Select, IsOldestDue, PoolInv, TypeOK
  <2>2. nextDue[p] # NoTime /\ backoff[p] <= nextDue[p] /\ nextDue[p] <= now
    BY <2>1 DEF RestInv, Due, DueAt
  <2> QED
    BY <2>1, <2>2 DEF RestInv, PoolInv, TypeOK
<1> QED
  BY <1>2, <1>3, <1>4

LEMMA InitRest == SchedulerAssumption /\ Init => RestInv
BY DEF SchedulerAssumption, Init, RestInv

\* Within one process no profile is submitted before its rest is over.
THEOREM RestIsRespected == Spec => RestRespected
<1>1. Init => RestInv
  BY InitRest, SchedulerAssumption
<1>2. PoolInv /\ RestInv /\ [Next]_vars => RestInv'
  BY NextRest, SchedulerAssumption
<1>3. PoolInv /\ RestInv /\ [Next]_vars =>
        [\A p \in finishedHere : p \in running' \ running => clock >= backoff[p]]_vars
  BY RestStep, SchedulerAssumption
<1> QED
  BY <1>1, <1>2, <1>3, PoolInvariant, PTL DEF Spec, RestRespected
-----------------------------------------------------------------------------
(* The way out.  The exit code is set when the loop is left for good; the  *)
(* queue is empty from the cancellation on; the last thread is idle before *)
(* the process exits.  Reap leaves the loop with code "ok" at the limit    *)
(* only, where the budget leaves nothing running, and nothing is started   *)
(* afterwards.                                                             *)

Looping == {"head", "discover", "reap", "select", "sleep"}

Leaving == {"shutdown", "drain"}

\* The budget holds in the loop whichever other mode the process could take.
LoopBudget ==
  pc \in Looping \cup Leaving /\ MaxCycles > 0 =>
    completed + Cardinality(running) <= MaxCycles

\* The limit was reached and nothing was in flight.
LimitReached == completed = MaxCycles /\ MaxCycles > 0 /\ running = {}

\* Every future of run_once returned a schedule.
AllReturned ==
  running # {} /\ running \subseteq done /\ \A p \in running : outcome[p] # Raised

EndInv ==
  /\ pc \in Prelude => completed = 0
  /\ pc \notin Leaving \cup {"exited"} => exitCode = "none"
  /\ pc = "await" => running # {}
  /\ pc \in {"drain", "exited"} => queued = {}
  /\ pc = "exited" => Busy = {}
  /\ pc \in Leaving /\ exitCode = "ok" => LimitReached
  /\ pc = "exited" /\ exitCode = "ok" => LimitReached \/ AllReturned
  /\ LoopBudget

LEMMA InitEnd == SchedulerAssumption /\ Init => EndInv
BY DEF Init, EndInv, LoopBudget, Prelude, Looping, Leaving

\* An empty dict of futures means an empty pool.
LEMMA NothingRuns ==
  ASSUME PoolInv, running \subseteq done
  PROVE  Busy = {} /\ queued = {}
BY DEF PoolInv, RunningIsAccounted, InPool, Busy

\* Steps of the main thread that do not touch the futures.
LEMMA EndUntouched ==
  ASSUME EndInv, UNCHANGED <<running, completed, queued, worker, done, outcome>>,
         \/ UNCHANGED <<pc, exitCode>>
         \/ /\ pc \in Looping /\ pc' \in Looping
            /\ UNCHANGED exitCode
         \/ /\ pc \in Looping /\ pc' = "shutdown"
            /\ exitCode' \in {"interrupted", "error"}
  PROVE  EndInv'
BY DEF EndInv, LoopBudget, LimitReached, AllReturned, Prelude, Looping, Leaving, Busy

\* The limit that ends the loop leaves nothing running.
LEMMA ReapEnd ==
  ASSUME PoolInv, EndInv, SchedulerAssumption, Reap
  PROVE  EndInv'
<1> USE DEF Prelude, Looping, Leaving
<1>0. TypeOK /\ completed \in Nat /\ completed' \in Nat /\ MaxCycles \in Nat
  <2>1. TypeOK /\ TypeOK'
    BY MainType DEF PoolInv, Main
  <2> QED
    BY <2>1 DEF TypeOK, SchedulerAssumption
<1>1. pc = "reap" /\ exitCode = "none"
  BY DEF Reap, EndInv
<1>2. /\ Cardinality(running') \in Nat
      /\ completed' + Cardinality(running') = completed + Cardinality(running)
  BY <1>0, ReapCounts
<1>3. MaxCycles > 0 => completed' + Cardinality(running') <= MaxCycles
  BY <1>1, <1>2 DEF EndInv, LoopBudget
<1>4. CASE pc' = "select" /\ exitCode' = exitCode
  BY <1>1, <1>3, <1>4 DEF EndInv, LoopBudget
<1>5. CASE pc' = "shutdown" /\ exitCode' = "ok" /\ MaxCycles > 0 /\ completed' >= MaxCycles
  <2>1. completed' = MaxCycles /\ Cardinality(running') = 0
    BY <1>0, <1>2, <1>3, <1>5
  <2>2. running' \subseteq running
    BY DEF Reap
  <2>3. running' = {}
    BY <1>0, <2>1, <2>2, RunningCounts, FS_Subset, FS_EmptySet
  <2> QED
    BY <1>3, <1>5, <2>1, <2>3 DEF EndInv, LoopBudget, LimitReached
<1> QED
  BY <1>4, <1>5 DEF Reap

LEMMA MainEnd ==
  ASSUME PoolInv, EndInv, SchedulerAssumption, Main
  PROVE  EndInv'
<1> USE DEF procVars, loopVars, poolVars, diskVars, histVars, Prelude, Looping, Leaving
<1>0. TypeOK /\ completed \in Nat /\ MaxCycles \in Nat
  BY DEF PoolInv, TypeOK, SchedulerAssumption
<1>1. CASE Boot
  BY <1>1 DEF Boot, EndInv, LoopBudget
<1>2. CASE StartupDiscovery
  <2>1. /\ pc = "startup" /\ exitCode = "none"
        /\ running = {} /\ completed = 0 /\ Cardinality(running) = 0
    BY <1>2, FS_EmptySet DEF StartupDiscovery, EndInv, PoolInv, ModeInv
  <2>2. Busy = {} /\ queued = {}
    BY <2>1, NothingRuns
  <2>3. UNCHANGED <<running, completed, queued, worker>>
    BY <1>2 DEF StartupDiscovery
  <2>4. Busy' = {}
    BY <2>2, <2>3 DEF Busy
  <2>5. CASE pc' \in {"head", "once"} /\ exitCode' = exitCode
    BY <1>0, <2>1, <2>3, <2>5 DEF EndInv, LoopBudget
  <2>6. CASE pc' = "exited" /\ exitCode' = "error"
    BY <2>2, <2>3, <2>4, <2>6 DEF EndInv, LoopBudget
  <2> QED
    BY <1>2, <2>5, <2>6 DEF StartupDiscovery
<1>3. ASSUME NEW S \in SUBSET Profiles, OnceSubmit(S) PROVE EndInv'
  <2>1. Busy = {}
    BY <1>3, NothingRuns DEF OnceSubmit, PoolInv, ModeInv
  <2>2. Busy' = {}
    BY <1>3, <2>1 DEF OnceSubmit, Busy
  <2>3. exitCode = "none"
    BY <1>3 DEF OnceSubmit, EndInv
  <2>4. CASE S = {}
    BY <1>3, <2>2, <2>4 DEF OnceSubmit, EndInv, LoopBudget
  <2>5. CASE S # {}
    BY <1>3, <2>3, <2>5 DEF OnceSubmit, EndInv, LoopBudget
  <2> QED
    BY <2>4, <2>5
<1>4. CASE OnceFinish
  <2>1. /\ Busy = {} /\ queued = {}
        /\ running # {} /\ running \subseteq done
    BY <1>4, NothingRuns DEF OnceFinish, EndInv
  <2>2. UNCHANGED <<running, done, outcome, queued, worker>> /\ pc' = "exited"
    BY <1>4 DEF OnceFinish
  <2>3. Busy' = {} /\ queued' = {}
    BY <2>1, <2>2 DEF Busy
  <2>4. exitCode' = "ok" => AllReturned
    BY <1>4, <2>1 DEF OnceFinish, AllReturned
  <2>5. AllReturned' = AllReturned
    BY <2>2 DEF AllReturned
  <2> QED
    BY <2>2, <2>3, <2>4, <2>5 DEF EndInv, LoopBudget
<1>5. CASE LoopHead
  BY <1>5, EndUntouched DEF LoopHead
<1>6. CASE DiscoveryBlocks
  BY <1>6, EndUntouched DEF DiscoveryBlocks
<1>7. ASSUME NEW S \in SUBSET Profiles, Discover(S) PROVE EndInv'
  BY <1>7, EndUntouched DEF Discover
<1>8. CASE DiscoveryRaises
  BY <1>8, EndUntouched DEF DiscoveryRaises
<1>9. CASE Reap
  BY <1>9, ReapEnd
<1>10. ASSUME NEW S \in SUBSET Profiles, Select(S) PROVE EndInv'
  <2>1. IsOldestDue(S) /\ running' = running \cup S /\ completed' = completed
    BY <1>10 DEF Select
  <2>2. MaxCycles > 0 => completed + Cardinality(running) <= MaxCycles
    BY <1>10 DEF Select, EndInv, LoopBudget
  <2>3. MaxCycles > 0 => completed' + Cardinality(running') <= MaxCycles
    BY <1>0, <2>1, <2>2, SelectionFits, RunningCounts
  <2> QED
    BY <1>10, <2>3 DEF Select, EndInv, LoopBudget
<1>11. CASE Sleep
  BY <1>11, EndUntouched DEF Sleep
<1>12. CASE Shutdown
  BY <1>12 DEF Shutdown, EndInv, LoopBudget, LimitReached
<1>13. CASE Drained
  <2>1. Busy' = {}
    BY <1>13 DEF Drained, Busy
  <2> QED
    BY <1>13, <2>1 DEF Drained, EndInv, LoopBudget, LimitReached
<1> QED
  BY <1>1, <1>2, <1>3, <1>4, <1>5, <1>6, <1>7, <1>8, <1>9, <1>10, <1>11, <1>12,
     <1>13 DEF Main

\* A thread only works while its cycle is accounted for, so none does once the
\* process has exited, and none after the limit was reached.
LEMMA ThreadEnd ==
  ASSUME PoolInv, EndInv, SchedulerAssumption, NEW w \in Workers, Thread(w)
  PROVE  EndInv'
<1>1. UNCHANGED <<pc, exitCode, running, completed>>
  BY DEF Thread, StartCycle, RecordRun, ReturnSchedule, RaiseError, EndCycle,
         procVars, loopVars
<1>2. queued' \subseteq queued
  BY DEF Thread, StartCycle, RecordRun, ReturnSchedule, RaiseError, EndCycle
<1>3. w \in Busy \/ queued # {}
  BY DEF Thread, StartCycle, RecordRun, ReturnSchedule, RaiseError, EndCycle, Busy
<1>4. pc # "exited"
  BY <1>3 DEF EndInv
<1> QED
  BY <1>1, <1>2, <1>4 DEF EndInv, LoopBudget, LimitReached, Leaving

LEMMA NextEnd ==
  ASSUME PoolInv, EndInv, SchedulerAssumption, [Next]_vars
  PROVE  EndInv'
<1> USE DEF procVars, loopVars, poolVars, diskVars, histVars
<1>1. CASE RequestStop
  BY <1>1, EndUntouched DEF RequestStop
<1>2. CASE Restart
  BY <1>2 DEF Restart, EndInv, LoopBudget, Prelude, Looping, Leaving
<1>3. CASE UNCHANGED vars
  BY <1>3, EndUntouched DEF vars
<1> QED
  BY <1>1, <1>2, <1>3, MainEnd, ThreadEnd DEF Next

\* The process exits with an idle pool only, and with code 0 only after a clean
\* end of the loop or of run_once.
THEOREM ExitsAreClean == Spec => []ExitIsClean
<1>1. Init => EndInv
  BY InitEnd, SchedulerAssumption
<1>2. PoolInv /\ EndInv /\ [Next]_vars => EndInv'
  BY NextEnd, SchedulerAssumption
<1>3. EndInv => ExitIsClean
  BY DEF EndInv, ExitIsClean, LimitReached, AllReturned
<1> QED
  BY <1>1, <1>2, <1>3, PoolInvariant, PTL DEF Spec

\* A thread takes a cycle off a queue that the shutdown has emptied, and nobody
\* fills it again.
LEMMA DrainStep ==
  ASSUME PoolInv, EndInv, SchedulerAssumption, [Next]_vars, pc = "drain",
         NEW w \in Workers, worker[w] = Idle
  PROVE  worker'[w] = Idle
<1>1. TypeOK /\ queued = {}
  BY DEF PoolInv, EndInv
<1>2. CASE Main
  <2>1. UNCHANGED worker
    BY <1>2, <1>1 DEF Main, Boot, StartupDiscovery, OnceSubmit, OnceFinish, LoopHead,
       DiscoveryBlocks, Discover, DiscoveryRaises, Reap, Select, Sleep, Shutdown,
       Drained, poolVars
  <2> QED
    BY <2>1
<1>3. ASSUME NEW v \in Workers, Thread(v) PROVE worker'[w] = Idle
  <2>1. (v # w /\ worker' = [worker EXCEPT ![v] = Idle]) \/ UNCHANGED worker
    BY <1>1, <1>3 DEF Thread, StartCycle, RecordRun, ReturnSchedule, RaiseError,
       EndCycle, TypeOK
  <2>2. DOMAIN worker = Workers
    BY <1>1 DEF TypeOK
  <2> QED
    BY <2>1, <2>2
<1>4. CASE RequestStop
  BY <1>4 DEF RequestStop, poolVars
<1>5. CASE Restart
  BY <1>5 DEF Restart, AllIdle
<1>6. CASE UNCHANGED vars
  BY <1>6 DEF vars, poolVars
<1> QED
  BY <1>2, <1>3, <1>4, <1>5, <1>6 DEF Next

\* Once the pool is shutting down no thread picks up another cycle.
THEOREM NothingStartsInDrain == Spec => DrainStartsNothing
<1>1. Init => EndInv
  BY InitEnd, SchedulerAssumption
<1>2. PoolInv /\ EndInv /\ [Next]_vars => EndInv'
  BY NextEnd, SchedulerAssumption
<1>3. PoolInv /\ EndInv /\ [Next]_vars =>
        [pc = "drain" =>
           \A w \in Workers : worker[w] = Idle => worker'[w] \in {Idle}]_vars
  BY DrainStep, SchedulerAssumption
<1> QED
  BY <1>1, <1>2, <1>3, PoolInvariant, PTL DEF Spec, DrainStartsNothing

-----------------------------------------------------------------------------
(* Rests that were recorded before a restart.  A profile that is listed    *)
(* has a due time; while nothing has run here that due time is the one     *)
(* discovery restored, at most one blocked request short of the end of the *)
(* recorded rest.                                                          *)

RestoreInv ==
  /\ pc = "discover" => clock <= now + DiscoveryMax
  /\ done \subseteq finishedHere
  /\ \A p \in profiles : nextDue[p] # NoTime
  /\ \A p \in Profiles : store[p].at <= clock
  /\ \A p \in Profiles \ (finishedHere \cup running) :
       nextDue[p] # NoTime /\ store[p].at # NoTime =>
         store[p].at + store[p].rest <= nextDue[p] + DiscoveryMax

LEMMA InitRestore == SchedulerAssumption /\ Init => RestoreInv
BY DEF SchedulerAssumption, Init, RestoreInv, NothingDue, NeverRan, NoTime

\* Steps that neither schedule a profile nor take one out of the dict.
LEMMA RestoreUntouched ==
  ASSUME TypeOK, RestoreInv, SchedulerAssumption,
         UNCHANGED <<profiles, nextDue, store, done, finishedHere>>,
         running \subseteq running',
         clock' \in Nat, clock <= clock',
         pc' = "discover" => clock' <= now' + DiscoveryMax
  PROVE  RestoreInv'
BY DEF TypeOK, RestoreInv, NoTime, SchedulerAssumption

\* The due time discovery restores for a profile that has none.
LEMMA RestoredRest ==
  ASSUME TypeOK, RestoreInv, SchedulerAssumption, pc = "discover",
         NEW p \in Profiles, store[p].at # NoTime
  PROVE  store[p].at + store[p].rest <= now + RemainingRest(p) + DiscoveryMax
<1>1. /\ store[p].at \in Nat /\ store[p].rest \in Nat
      /\ now \in Nat /\ clock \in Nat /\ DiscoveryMax \in Nat
  BY DEF TypeOK, SchedulerAssumption
<1>2. store[p].at <= clock /\ clock <= now + DiscoveryMax
  BY DEF RestoreInv
<1> QED
  BY <1>1, <1>2 DEF RemainingRest, Larger

LEMMA MainRestore ==
  ASSUME PoolInv, RestInv, RestoreInv, SchedulerAssumption, Main
  PROVE  RestoreInv'
<1> USE DEF procVars, loopVars, poolVars, diskVars, histVars
<1>0. TypeOK /\ clock \in Nat /\ now \in Nat /\ now <= clock
      /\ clock <= MaxTime /\ MaxTime \in Nat /\ DiscoveryMax \in Nat
  BY DEF PoolInv, TypeOK, RestInv, SchedulerAssumption
<1>1. CASE Boot
  BY <1>0, <1>1, RestoreUntouched DEF Boot
<1>2. CASE StartupDiscovery
  BY <1>0, <1>2, RestoreUntouched DEF StartupDiscovery
<1>3. ASSUME NEW S \in SUBSET Profiles, OnceSubmit(S) PROVE RestoreInv'
  <2>1. running \subseteq running'
    BY <1>3 DEF OnceSubmit, PoolInv, ModeInv, Prelude
  <2> QED
    BY <1>0, <1>3, <2>1, RestoreUntouched DEF OnceSubmit
<1>4. CASE OnceFinish
  BY <1>0, <1>4, RestoreUntouched DEF OnceFinish
<1>5. CASE LoopHead
  BY <1>0, <1>5, RestoreUntouched DEF LoopHead
<1>6. CASE DiscoveryBlocks
  BY <1>0, <1>6, RestoreUntouched DEF DiscoveryBlocks
<1>7. ASSUME NEW S \in SUBSET Profiles, Discover(S) PROVE RestoreInv'
  <2>1. /\ UNCHANGED <<clock, now, store, running, done, finishedHere>>
        /\ profiles' = S /\ pc = "discover" /\ pc' = "reap"
    BY <1>7 DEF Discover
  <2>2. \A p \in Profiles :
          nextDue'[p] = IF p \in S /\ nextDue[p] = NoTime
                          THEN now + RemainingRest(p) ELSE nextDue[p]
    BY <1>7 DEF Discover, RestoredDue
  <2>3. \A p \in Profiles : now + RemainingRest(p) # NoTime
    BY <1>0, RestTypes DEF NoTime
  <2>4. \A p \in profiles' : nextDue'[p] # NoTime
    BY <2>1, <2>2, <2>3
  <2>5. ASSUME NEW p \in Profiles \ (finishedHere' \cup running'),
               nextDue'[p] # NoTime, store'[p].at # NoTime
        PROVE  store'[p].at + store'[p].rest <= nextDue'[p] + DiscoveryMax
    <3>1. CASE p \in S /\ nextDue[p] = NoTime
      BY <1>0, <2>1, <2>2, <2>5, <3>1, RestoredRest
    <3>2. CASE ~(p \in S /\ nextDue[p] = NoTime)
      BY <2>1, <2>2, <2>5, <3>2 DEF RestoreInv
    <3> QED
      BY <3>1, <3>2
  <2> QED
    BY <2>1, <2>4, <2>5 DEF RestoreInv
<1>8. CASE DiscoveryRaises
  BY <1>0, <1>8, RestoreUntouched DEF DiscoveryRaises
<1>9. CASE Reap
  <2> DEFINE R == running \cap done
  <2>1. /\ UNCHANGED <<clock, now, store, profiles, finishedHere>>
        /\ running' = running \ R /\ done' = done \ R
        /\ pc' # "discover"
    BY <1>9 DEF Reap
  <2>2. \A p \in Profiles : nextDue'[p] = IF p \in R THEN clock + RestAfter(p)
                                                     ELSE nextDue[p]
    BY <1>9 DEF Reap
  <2>3. \A p \in Profiles : clock + RestAfter(p) # NoTime
    BY <1>0, RestTypes DEF NoTime
  <2>4. R \subseteq finishedHere /\ profiles \subseteq Profiles
    BY <1>0 DEF RestoreInv, TypeOK
  <2>5. \A p \in profiles' : nextDue'[p] # NoTime
    BY <2>1, <2>2, <2>3, <2>4 DEF RestoreInv
  <2>6. \A p \in Profiles \ (finishedHere' \cup running') :
          p \in Profiles \ (finishedHere \cup running) /\ nextDue'[p] = nextDue[p]
    BY <2>1, <2>2, <2>4
  <2> QED
    BY <2>1, <2>4, <2>5, <2>6 DEF RestoreInv
<1>10. ASSUME NEW S \in SUBSET Profiles, Select(S) PROVE RestoreInv'
  BY <1>0, <1>10, RestoreUntouched DEF Select
<1>11. CASE Sleep
  <2>1. clock' \in Nat /\ clock <= clock'
    BY <1>0, <1>11 DEF Sleep, Smaller
  <2> QED
    BY <1>0, <1>11, <2>1, RestoreUntouched DEF Sleep
<1>12. CASE Shutdown
  BY <1>0, <1>12, RestoreUntouched DEF Shutdown
<1>13. CASE Drained
  BY <1>0, <1>13, RestoreUntouched DEF Drained
<1> QED
  BY <1>1, <1>2, <1>3, <1>4, <1>5, <1>6, <1>7, <1>8, <1>9, <1>10, <1>11, <1>12,
     <1>13 DEF Main

\* A thread records and finishes only profiles that are in the dict.
LEMMA EndCycleRestore ==
  ASSUME PoolInv, RestoreInv, SchedulerAssumption, NEW w \in Workers,
         NEW result, NEW rest, EndCycle(w, result, rest)
  PROVE  RestoreInv'
<1>1. /\ UNCHANGED <<pc, clock, now, store, profiles, nextDue, running>>
      /\ done' = done \cup {worker[w]}
      /\ finishedHere' = finishedHere \cup {worker[w]}
  BY DEF EndCycle, procVars, loopVars, diskVars
<1> QED
  BY <1>1 DEF RestoreInv

LEMMA NextRestore ==
  ASSUME PoolInv, RestInv, RestoreInv, SchedulerAssumption, [Next]_vars
  PROVE  RestoreInv'
<1> USE DEF procVars, loopVars, poolVars, diskVars, histVars
<1>0. TypeOK /\ clock \in Nat /\ DiscoveryMax \in Nat
      /\ (pc = "discover" => clock <= now + DiscoveryMax)
  BY DEF PoolInv, TypeOK, RestoreInv, SchedulerAssumption
<1>1. ASSUME NEW w \in Workers, Thread(w) PROVE RestoreInv'
  <2>1. ASSUME NEW p \in Profiles, StartCycle(w, p) PROVE RestoreInv'
    BY <1>0, <2>1, RestoreUntouched DEF StartCycle
  <2>2. ASSUME NEW rest \in Rests, RecordRun(w, rest) PROVE RestoreInv'
    <3>1. PICK q \in Profiles : q = worker[w]
      BY <1>0, <2>2 DEF RecordRun, TypeOK
    <3>2. q \in running
      BY <2>2, <3>1 DEF RecordRun, PoolInv, RunningIsAccounted, InPool, Busy
    <3>3. /\ UNCHANGED <<pc, clock, now, profiles, nextDue, running, done, finishedHere>>
          /\ store' = [store EXCEPT ![q] = [at |-> clock, rest |-> rest]]
      BY <2>2, <3>1 DEF RecordRun
    <3>4. \A p \in Profiles \ {q} : store'[p] = store[p]
      BY <1>0, <3>3 DEF TypeOK
    <3>5. store'[q].at = clock
      BY <1>0, <3>3 DEF TypeOK
    <3> QED
      BY <1>0, <3>2, <3>3, <3>4, <3>5 DEF RestoreInv
  <2>3. CASE ReturnSchedule(w)
    BY <2>3, EndCycleRestore DEF ReturnSchedule
  <2>4. CASE RaiseError(w)
    BY <2>4, EndCycleRestore DEF RaiseError
  <2> QED
    BY <1>1, <2>1, <2>2, <2>3, <2>4 DEF Thread
<1>2. CASE RequestStop
  BY <1>0, <1>2, RestoreUntouched DEF RequestStop
<1>3. CASE Restart
  BY <1>0, <1>3 DEF Restart, RestoreInv, NothingDue, NoTime
<1>4. CASE UNCHANGED vars
  BY <1>0, <1>4, RestoreUntouched DEF vars
<1> QED
  BY <1>1, <1>2, <1>3, <1>4, MainRestore DEF Next

\* Due times, backoffs and recorded rests agree, before and after a restart.
THEOREM RestoreInvariant == Spec => [](RestInv /\ RestoreInv)
<1>1. Init => RestInv /\ RestoreInv
  BY InitRest, InitRestore, SchedulerAssumption
<1>2. PoolInv /\ RestInv /\ RestoreInv /\ [Next]_vars => RestInv' /\ RestoreInv'
  BY NextRest, NextRestore, SchedulerAssumption
<1> QED
  BY <1>1, <1>2, PoolInvariant, PTL DEF Spec

\* The loop submits profiles in Select only.
LEMMA SubmittedBySelect ==
  ASSUME pc = "select", [Next]_vars, NEW p, p \in running' \ running
  PROVE  \E S \in SUBSET Profiles : Select(S)
<1>1. ~UNCHANGED running
  OBVIOUS
<1>2. ~Restart /\ ~RequestStop /\ ~UNCHANGED vars
  BY <1>1 DEF Restart, RequestStop, vars, loopVars
<1>3. ~\E w \in Workers : Thread(w)
  BY <1>1 DEF Thread, StartCycle, RecordRun, ReturnSchedule, RaiseError, EndCycle,
              loopVars
<1> QED
  BY <1>2, <1>3 DEF Next, Main, Boot, StartupDiscovery, OnceSubmit, OnceFinish, LoopHead,
     DiscoveryBlocks, Discover, DiscoveryRaises, Reap, Sleep, Shutdown, Drained

LEMMA RestoreStep ==
  ASSUME PoolInv, RestInv, RestoreInv, SchedulerAssumption, [Next]_vars,
         NEW p \in Profiles \ finishedHere,
         pc = "select", p \in running' \ running, store[p].at # NoTime
  PROVE  clock + DiscoveryMax >= store[p].at + store[p].rest
<1>1. PICK S \in SUBSET Profiles : Select(S)
  BY SubmittedBySelect
<1>2. p \in Due
  BY <1>1 DEF Select, IsOldestDue
<1>3. nextDue[p] # NoTime /\ nextDue[p] <= now
  BY <1>2 DEF RestoreInv, Due, DueAt
<1>4. store[p].at + store[p].rest <= nextDue[p] + DiscoveryMax
  BY <1>3 DEF RestoreInv
<1>5. /\ store[p].at \in Nat /\ store[p].rest \in Nat /\ nextDue[p] \in Nat
      /\ now \in Nat /\ clock \in Nat /\ now <= clock /\ DiscoveryMax \in Nat
  BY <1>3 DEF PoolInv, TypeOK, RestInv, SchedulerAssumption
<1> QED
  BY <1>3, <1>4, <1>5

\* A recorded rest is honoured after a restart, up to the time the discovery
\* request blocked.
THEOREM RestsSurviveRestarts == Spec => RecordedRestSurvivesRestart
<1>1. PoolInv /\ (RestInv /\ RestoreInv) /\ [Next]_vars =>
        [\A p \in Profiles \ finishedHere :
           /\ pc = "select"
           /\ p \in running' \ running
           /\ store[p].at # NoTime
           => clock + DiscoveryMax >= store[p].at + store[p].rest]_vars
  BY RestoreStep, SchedulerAssumption
<1> QED
  BY <1>1, RestoreInvariant, PoolInvariant, PTL DEF Spec, RecordedRestSurvivesRestart

-----------------------------------------------------------------------------
(* Overtaking.  A profile that was passed over is due, keeps its due time  *)
(* and is not running.  Whoever passed it is still running or, reaped in a *)
(* later pass and so at a later time, has a later due time.  A pass begins *)
(* later than the one before: at the horizon the clock stands still, but   *)
(* there only a stop ends the sleep, and the loop is left.                 *)

QueueInv ==
  /\ pc \in Prelude => \A p \in Profiles : passed[p] = {}
  /\ \A p \in Profiles : passed[p] # {} =>
       /\ p \notin running
       /\ nextDue[p] # NoTime /\ nextDue[p] <= now
       /\ pc \in {"discover", "reap"} => nextDue[p] < now
       /\ pc = "head" => stopping \/ nextDue[p] < clock
  /\ \A p \in Profiles : \A q \in passed[p] :
       q \in running \/ nextDue[p] < nextDue[q]

LEMMA InitQueue == SchedulerAssumption /\ Init => QueueInv
BY DEF Init, QueueInv, NonePassed

\* Steps of the loop that leave the schedule alone and do not begin a pass.
LEMMA QueueUntouched ==
  ASSUME QueueInv, UNCHANGED <<passed, nextDue, running, now>>,
         \/ UNCHANGED <<pc, clock>> /\ (stopping => stopping')
         \/ UNCHANGED pc /\ pc # "head"
         \/ pc \in Prelude
         \/ pc' \notin Prelude \cup {"discover", "reap", "head"}
  PROVE  QueueInv'
BY DEF QueueInv, Prelude

LEMMA MainQueue ==
  ASSUME PoolInv, RestInv, RestoreInv, QueueInv, SchedulerAssumption, Main
  PROVE  QueueInv'
<1> USE DEF procVars, loopVars, poolVars, diskVars, histVars
<1>0. /\ TypeOK
      /\ clock \in Nat /\ now \in Nat /\ now <= clock
      /\ clock <= MaxTime /\ MaxTime \in Nat
      /\ nextDue \in [Profiles -> Nat \cup {NoTime}]
      /\ passed \in [Profiles -> SUBSET Profiles]
  BY DEF PoolInv, TypeOK, RestInv, SchedulerAssumption
<1>1. CASE Boot
  BY <1>1 DEF Boot, QueueInv, Prelude
<1>2. CASE StartupDiscovery
  BY <1>2 DEF StartupDiscovery, QueueInv, Prelude
<1>3. ASSUME NEW S \in SUBSET Profiles, OnceSubmit(S) PROVE QueueInv'
  BY <1>3 DEF OnceSubmit, QueueInv, Prelude
<1>4. CASE OnceFinish
  BY <1>4, QueueUntouched DEF OnceFinish, Prelude
<1>5. CASE LoopHead
  <2>1. /\ UNCHANGED <<passed, nextDue, running, clock>> /\ pc = "head"
        /\ \/ pc' = "shutdown" /\ now' = now
           \/ pc' \in {"discover", "reap"} /\ now' = clock /\ ~stopping
    BY <1>5 DEF LoopHead
  <2>2. \A p \in Profiles : passed[p] # {} => nextDue[p] <= now'
    BY <1>0, <2>1 DEF QueueInv, NoTime
  <2> QED
    BY <2>1, <2>2 DEF QueueInv, Prelude
<1>6. CASE DiscoveryBlocks
  BY <1>6, QueueUntouched DEF DiscoveryBlocks
<1>7. ASSUME NEW S \in SUBSET Profiles, Discover(S) PROVE QueueInv'
  <2>1. /\ UNCHANGED <<passed, running, now>> /\ pc = "discover" /\ pc' = "reap"
        /\ \A p \in Profiles : nextDue[p] # NoTime => nextDue'[p] = nextDue[p]
    BY <1>7 DEF Discover, RestoredDue
  <2>2. ASSUME NEW p \in Profiles, NEW q \in passed[p]
        PROVE  nextDue'[p] = nextDue[p] /\ (q \in running \/ nextDue'[q] = nextDue[q])
    <3>1. nextDue[p] # NoTime /\ nextDue'[p] = nextDue[p] /\ q \in Profiles
      BY <1>0, <2>1 DEF QueueInv
    <3>2. q \in running \/ nextDue[p] < nextDue[q]
      BY DEF QueueInv
    <3>3. nextDue[p] < nextDue[q] => nextDue[q] # NoTime
      BY <1>0, <3>1 DEF NoTime
    <3> QED
      BY <2>1, <3>1, <3>2, <3>3
  <2> QED
    BY <2>1, <2>2 DEF QueueInv, Prelude
<1>8. CASE DiscoveryRaises
  BY <1>8, QueueUntouched DEF DiscoveryRaises, Prelude
<1>9. CASE Reap
  <2> DEFINE R == running \cap done
  <2>1. /\ UNCHANGED <<passed, now>> /\ running' = running \ R
        /\ pc = "reap" /\ pc' \in {"shutdown", "select"}
    BY <1>9 DEF Reap
  <2>2. \A p \in Profiles : nextDue'[p] = IF p \in R THEN clock + RestAfter(p)
                                                     ELSE nextDue[p]
    BY <1>9 DEF Reap
  <2>3. ASSUME NEW p \in Profiles, passed[p] # {}
        PROVE  p \notin running /\ nextDue'[p] = nextDue[p] /\ nextDue[p] < now
               /\ nextDue[p] \in Nat
    BY <1>0, <2>1, <2>2, <2>3 DEF QueueInv
  <2>4. ASSUME NEW p \in Profiles, NEW q \in passed[p]
        PROVE  q \in running' \/ nextDue'[p] < nextDue'[q]
    <3>1. q \in Profiles /\ RestAfter(q) \in Nat
      BY <1>0, RestTypes
    <3>2. nextDue'[p] = nextDue[p] /\ nextDue[p] < now /\ nextDue[p] \in Nat
      BY <2>3
    <3>3. CASE q \in R
      BY <1>0, <2>2, <3>1, <3>2, <3>3
    <3>4. CASE q \notin R
      BY <2>1, <2>2, <3>1, <3>2, <3>4 DEF QueueInv
    <3> QED
      BY <3>3, <3>4
  <2>5. \A p \in Profiles : passed'[p] # {} =>
          /\ p \notin running'
          /\ nextDue'[p] # NoTime /\ nextDue'[p] <= now'
    BY <1>0, <2>1, <2>3 DEF NoTime
  <2> HIDE DEF R
  <2>6. \A p \in Profiles : \A q \in passed'[p] :
          q \in running' \/ nextDue'[p] < nextDue'[q]
    BY <2>1, <2>4
  <2> QED
    BY <2>1, <2>5, <2>6 DEF QueueInv, Prelude
<1>10. ASSUME NEW S \in SUBSET Profiles, Select(S) PROVE QueueInv'
  <2>1. /\ IsOldestDue(S) /\ running' = running \cup S
        /\ UNCHANGED <<nextDue, now>> /\ pc' = "sleep"
    BY <1>10 DEF Select
  <2>2. \A p \in Profiles :
          passed'[p] = IF p \in Due \ S THEN passed[p] \cup S ELSE {}
    BY <1>10 DEF Select
  <2>3. \A p \in Due : /\ p \notin running
                       /\ nextDue[p] # NoTime /\ nextDue[p] <= now
    BY DEF Due, DueAt, RestoreInv
  <2>4. \A p \in Profiles : passed'[p] # {} => p \in Due \ S
    BY <2>2
  <2>5. \A p \in Profiles : \A q \in passed'[p] :
          q \in running' \/ nextDue'[p] < nextDue'[q]
    BY <2>1, <2>2 DEF QueueInv
  <2> QED
    BY <2>1, <2>3, <2>4, <2>5 DEF QueueInv, Prelude
<1>11. CASE Sleep
  <2>1. /\ UNCHANGED <<passed, nextDue, running, now, stopping>> /\ pc' = "head"
        /\ \/ clock' = clock + 1
           \/ stopping
    BY <1>0, <1>11 DEF Sleep, Smaller
  <2>2. \A p \in Profiles : passed[p] # {} => stopping' \/ nextDue[p] < clock'
    BY <1>0, <2>1 DEF QueueInv
  <2> QED
    BY <2>1, <2>2 DEF QueueInv, Prelude
<1>12. CASE Shutdown
  BY <1>12, QueueUntouched DEF Shutdown, Prelude
<1>13. CASE Drained
  BY <1>13, QueueUntouched DEF Drained, Prelude
<1> QED
  BY <1>1, <1>2, <1>3, <1>4, <1>5, <1>6, <1>7, <1>8, <1>9, <1>10, <1>11, <1>12,
     <1>13 DEF Main

LEMMA NextQueue ==
  ASSUME PoolInv, RestInv, RestoreInv, QueueInv, SchedulerAssumption, [Next]_vars
  PROVE  QueueInv'
<1> USE DEF procVars, loopVars, poolVars, diskVars, histVars
<1>1. ASSUME NEW w \in Workers, Thread(w) PROVE QueueInv'
  <2>1. UNCHANGED <<pc, clock, stopping, now, nextDue, running, passed>>
    BY <1>1 DEF Thread, StartCycle, RecordRun, ReturnSchedule, RaiseError, EndCycle
  <2> QED
    BY <2>1, QueueUntouched
<1>2. CASE RequestStop
  BY <1>2, QueueUntouched DEF RequestStop
<1>3. CASE Restart
  BY <1>3 DEF Restart, QueueInv, NonePassed
<1>4. CASE UNCHANGED vars
  BY <1>4, QueueUntouched DEF vars
<1> QED
  BY <1>1, <1>2, <1>3, <1>4, MainQueue DEF Next

LEMMA QueueStep ==
  ASSUME PoolInv, RestoreInv, QueueInv, SchedulerAssumption, [Next]_vars,
         NEW p \in Profiles, p \in Due \ running',
         NEW q \in running' \ running, q \in passed[p]
  PROVE  FALSE
<1>1. ~UNCHANGED running
  OBVIOUS
<1>2. pc \notin Prelude
  BY DEF QueueInv
<1>3. ~Restart /\ ~RequestStop /\ ~UNCHANGED vars
  BY <1>1 DEF Restart, RequestStop, vars, loopVars
<1>4. ~\E w \in Workers : Thread(w)
  BY <1>1 DEF Thread, StartCycle, RecordRun, ReturnSchedule, RaiseError, EndCycle,
              loopVars
<1>5. PICK S \in SUBSET Profiles : Select(S)
  BY <1>1, <1>2, <1>3, <1>4 DEF Prelude, Next, Main, Boot, StartupDiscovery, OnceSubmit,
     OnceFinish, LoopHead, DiscoveryBlocks, Discover, DiscoveryRaises, Reap, Sleep,
     Shutdown, Drained, loopVars
<1>6. /\ p \in Due \ S /\ q \in S
      /\ DueAt(q) <= DueAt(p) /\ q \in profiles /\ p \in profiles
  BY <1>5 DEF Select, IsOldestDue, Due
<1>7. DueAt(q) = nextDue[q] /\ DueAt(p) = nextDue[p]
  BY <1>6 DEF RestoreInv, DueAt
<1>8. nextDue[p] < nextDue[q]
  BY DEF QueueInv
<1>9. nextDue[p] \in Int /\ nextDue[q] \in Int
  BY <1>6 DEF PoolInv, TypeOK, NoTime
<1> QED
  BY <1>6, <1>7, <1>8, <1>9

\* While a due profile waits no other profile is started twice.
THEOREM OvertakenOnce == Spec => NoSecondOvertaking
<1>1. Init => QueueInv
  BY InitQueue, SchedulerAssumption
<1>2. PoolInv /\ (RestInv /\ RestoreInv) /\ QueueInv /\ [Next]_vars => QueueInv'
  BY NextQueue, SchedulerAssumption
<1>3. PoolInv /\ (RestInv /\ RestoreInv) /\ QueueInv /\ [Next]_vars =>
        [\A p \in Profiles :
           p \in Due \ running' => (running' \ running) \cap passed[p] = {}]_vars
  BY QueueStep, SchedulerAssumption
<1> QED
  BY <1>1, <1>2, <1>3, RestoreInvariant, PoolInvariant, PTL DEF Spec, NoSecondOvertaking

=============================================================================
