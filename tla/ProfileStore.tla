------------------------------ MODULE ProfileStore ------------------------------
(***************************************************************************)
(* The files the orchestrator's commands share, and the commands that      *)
(* write them: profile cycles (threads of one or several `run` processes), *)
(* seed-baseline, and the discovery of profiles.                           *)
(*                                                                         *)
(*   state.json      read and replaced under a flock: exclusive between    *)
(*                   all threads and processes                             *)
(*   profiles.json   read and replaced under a lock of the process         *)
(*   the pools       one per profile and one per country, under another    *)
(*                   lock of the process                                   *)
(*                                                                         *)
(* A file is replaced in four steps: load, open the temporary file next to *)
(* it, fill it, rename it.  A process may be killed between any two, which *)
(* frees its locks.  A cycle holds its profile's lock from its first step  *)
(* until its browser is stopped.                                           *)
(***************************************************************************)
EXTENDS Integers, Sequences, SequencesExt, FiniteSets, FiniteSetsExt

CONSTANTS
  Profiles, Countries, Ads,
  Jobs,         \* the commands that can be run; a cycle is a job
  Together,     \* what is run side by side: [jobs, faults], the faults being a
                \* bound on kills, failed reads and writes, and raised cycles
  KindOf,       \* "cycle", "seed" or "discover"
  ProfileOf,    \* the profile of a cycle or of a seeded run
  ProcessOf,    \* the process a job runs in
  Fresh,        \* ads.relevant.json of a cycle's collection
  KeyOf,        \* what tells calibration ads apart
  Direct,       \* ads a calibrator can open: is_direct_calibration_target
  CountryOf,    \* the country of an ad
  Quarantined,  \* keys of posts that could not be opened
  Catalog,      \* profiles.json at the start
  Seen,         \* the country a profile's browser is seen in
  Found,        \* profiles Octo lists
  Results,      \* what a calibration pass can report
  Keep,         \* runs and calibrations kept per profile: 100
  PoolLimit,    \* ads kept in a pool: 1000
  BurstLimit,
  StateFile, CatalogFile, Absent, Torn, Unlisted, None

Cycles == {j \in Jobs : KindOf[j] = "cycle"}
Seeds == {j \in Jobs : KindOf[j] = "seed"}
Files == {StateFile, CatalogFile} \cup Profiles \cup Countries

RecordType ==
  [runs : Seq(Jobs), calibrations : Seq(Results), burst : 0..BurstLimit,
   active : BOOLEAN]

\* The files are different paths, nothing that is written reads as no file or as one
\* that does not parse, and no country is the lack of one.
ASSUME StoreAssumption ==
  /\ KindOf \in [Jobs -> {"cycle", "seed", "discover"}]
  /\ Together \subseteq [jobs : SUBSET Jobs, faults : Nat]
  /\ ProfileOf \in [Jobs -> Profiles]
  /\ Fresh \in [Jobs -> Seq(Ads)] /\ Direct \subseteq Ads
  /\ CountryOf \in [Ads -> Countries]
  /\ Catalog \in [Profiles -> Countries \cup {None, Unlisted}]
  /\ Seen \in [Profiles -> Countries] /\ Found \subseteq Profiles
  /\ {Keep, PoolLimit} \subseteq Nat \ {0} /\ BurstLimit \in Nat
  /\ StateFile \notin {CatalogFile} \cup Profiles \cup Countries
  /\ CatalogFile \notin Profiles \cup Countries
  /\ Absent # Torn
  /\ {None, Unlisted} \cap Countries = {} /\ None # Unlisted
  /\ \A lost \in {Absent, Torn} :
       /\ lost \notin [Profiles -> RecordType]
       /\ lost \notin [Profiles -> Countries \cup {None, Unlisted}]
       /\ lost \notin Seq(Ads)

VARIABLES
  disk,      \* what each file holds
  tmp,       \* what its temporary file holds
  at,        \* where each job is
  stage,     \* how far the file it replaces is
  draft,     \* what it is going to write
  country,   \* profile.expected_country of a cycle's Profile object
  counted,   \* targets the cycle has counted
  seen,      \* what the cycle's evaluation has read of its profile
  made,      \* calibrations of the cycle, in memory only
  running,   \* profiles whose browser runs
  attached,  \* cycles that work in the browser of their profile
  spare,     \* faults that may still happen
  \* History, read by properties only:
  unread,    \* a file could not be read at some time
  touched,   \* the processes that have opened each file's temporary file
  merged     \* the (job, file) whose update is finished

vars == <<disk, tmp, at, stage, draft, country, counted, seen, made, running,
          attached, spare, unread, touched, merged>>

Blank == [runs |-> <<>>, calibrations |-> <<>>, burst |-> 0, active |-> FALSE]

\* What a missing or unreadable file counts as.
Default(f) ==
  CASE f = StateFile -> [p \in Profiles |-> Blank]
    [] f = CatalogFile -> [p \in Profiles |-> Unlisted]
    [] OTHER -> <<>>
Content(f) == IF disk[f] \in {Absent, Torn} THEN Default(f) ELSE disk[f]

Init ==
  /\ disk = [f \in Files |-> IF f = CatalogFile THEN Catalog ELSE Absent]
  /\ tmp = [f \in Files |-> Absent]
  /\ \E run \in Together :
       /\ at = [j \in Jobs |-> IF j \in run.jobs THEN "idle" ELSE "done"]
       /\ spare = run.faults
  /\ stage = [j \in Jobs |-> "load"]
  /\ draft = [j \in Jobs |-> None] /\ country = [j \in Jobs |-> None]
  /\ counted = [j \in Jobs |-> 0] /\ seen = [j \in Jobs |-> <<>>]
  /\ made = [j \in Jobs |-> <<>>]
  /\ running = {} /\ attached = {}
  /\ unread = FALSE /\ merged = {}
  /\ touched = [f \in Files |-> {}]

-----------------------------------------------------------------------------
(* What the updates do. *)

Newest(s) == IF Len(s) > Keep THEN SubSeq(s, Len(s) - Keep + 1, Len(s)) ELSE s

\* next_profile_schedule, of which RecoveryCycle says when it gives which.
Schedules(record) ==
  {[burst |-> 0, active |-> FALSE],
   [burst |-> record.burst, active |-> record.burst > 0 \/ record.active],
   [burst |-> Min({record.burst + 1, BurstLimit}), active |-> TRUE]}

Recorded(j, state) ==
  LET p == ProfileOf[j]  record == state[p] IN
  {[state EXCEPT ![p] =
      [runs |-> Newest(Append(record.runs, j)),
       calibrations |-> Newest(record.calibrations \o made[j]),
       burst |-> s.burst, active |-> s.active]] : s \in Schedules(record)}

Seeded(j, state) ==
  {[state EXCEPT ![ProfileOf[j]].runs = Newest(Append(@, j))]}

\* adopt_country: only a listed profile that has none.
Adopted(j, catalog) ==
  LET p == ProfileOf[j] IN
  IF catalog[p] = None THEN {[catalog EXCEPT ![p] = country[j]]} ELSE {}

\* add_missing: a profile that is listed stays as it is.
Added(catalog) ==
  IF \A p \in Found : catalog[p] # Unlisted THEN {}
  ELSE {[p \in Profiles |-> IF p \in Found /\ catalog[p] = Unlisted
                              THEN None ELSE catalog[p]]}

KeysOf(ads) == {KeyOf[a] : a \in ads}

\* merge_calibration_ads: what a calibrator can open, one ad for each key, the fresh
\* ones first, until the pool is full.
Merge(fresh, pool) ==
  LET ads == fresh \o pool
      unique[n \in 0..Len(ads)] ==
        IF n = 0 THEN <<>>
        ELSE LET kept == unique[n - 1] IN
             IF /\ ads[n] \in Direct
                /\ KeyOf[ads[n]] \notin KeysOf(Range(kept))
                /\ Len(kept) < PoolLimit
               THEN Append(kept, ads[n])
               ELSE kept
  IN unique[Len(ads)]

\* source_paths: its own ads, its profile's pool and its country's.
Sources(j) ==
  Fresh[j] \o Content(ProfileOf[j])
    \o (IF country[j] = None THEN <<>> ELSE Content(country[j]))

\* load_saved_facebook_targets: one per key, of the country, not quarantined.
Targets(j) ==
  KeysOf({a \in Range(Sources(j)) \cap Direct :
            country[j] \in {None, CountryOf[a]}}) \ Quarantined

-----------------------------------------------------------------------------
(* The replacement of a file. *)

Places ==
  {"idle", "collect", "adopt", "profilePool", "countryPool", "count", "judge",
   "calibrate", "record", "seed", "add", "stop", "release", "done", "refused"}
Writing == {"adopt", "profilePool", "countryPool", "record", "seed", "add"}

FileOf(j) ==
  CASE at[j] \in {"record", "seed"} -> StateFile
    [] at[j] \in {"adopt", "add"} -> CatalogFile
    [] at[j] = "profilePool" -> ProfileOf[j]
    [] at[j] = "countryPool" -> country[j]

Updates(j, content) ==
  CASE at[j] = "record" -> Recorded(j, content)
    [] at[j] = "seed" -> Seeded(j, content)
    [] at[j] = "adopt" -> Adopted(j, content)
    [] at[j] = "add" -> Added(content)
    [] OTHER -> {Merge(Fresh[j], content)}

\* Where the job goes on when its update is made.
After(j) ==
  CASE at[j] = "adopt" -> "profilePool"
    [] at[j] = "profilePool" -> IF country[j] = None THEN "count" ELSE "countryPool"
    [] at[j] = "countryPool" -> "count"
    [] at[j] = "record" -> "stop"
    [] OTHER -> "done"

Pools == {"profilePool", "countryPool"}
Under(lock, j) == at[j] \in lock
\* Both pools are written in one critical section.
Holds(j) == at[j] \in Writing /\ (stage[j] # "load" \/ at[j] = "countryPool")

ThreadLockOnly(i, j) ==  \* mutant
  /\ ProcessOf[i] = ProcessOf[j]
  /\ Under({"record", "seed"}, i) /\ Under({"record", "seed", "judge"}, j)
CatalogLockOnly(i, j) ==  \* mutant
  /\ ProcessOf[i] = ProcessOf[j]
  /\ Under({"adopt", "add"}, i) /\ Under({"adopt", "add"}, j)
StateLock(i, j) ==
  Under({"record", "seed"}, i) /\ Under({"record", "seed", "judge"}, j)
ProcessLocks(i, j) ==
  /\ ProcessOf[i] = ProcessOf[j]
  /\ \/ Under({"adopt", "add"}, i) /\ Under({"adopt", "add"}, j)
     \/ Under(Pools, i) /\ Under(Pools, j)

\* j waits for a lock another job holds.
Waits(j) == \E i \in Jobs \ {j} : Holds(i) /\ (StateLock(i, j) \/ ProcessLocks(i, j))

\* A file that cannot be read counts as empty.
Read(f, content) ==
  \/ content = Content(f) /\ UNCHANGED <<spare, unread>>
  \/ /\ spare > 0 /\ disk[f] # Absent
     /\ content = Default(f) /\ spare' = spare - 1 /\ unread' = TRUE

Load(j) ==
  /\ at[j] \in Writing /\ stage[j] = "load" /\ ~Waits(j)
  /\ \E content \in {Content(FileOf(j)), Default(FileOf(j))} :
       /\ Read(FileOf(j), content)
       /\ IF Updates(j, content) = {}
            THEN /\ at' = [at EXCEPT ![j] = After(j)]
                 /\ UNCHANGED <<stage, draft>>
            ELSE /\ \E new \in Updates(j, content) : draft' = [draft EXCEPT ![j] = new]
                 /\ stage' = [stage EXCEPT ![j] = "open"]
                 /\ UNCHANGED at
  /\ UNCHANGED <<disk, tmp, country, counted, seen, made, running, attached, touched,
                 merged>>

Open(j) ==
  /\ stage[j] = "open"
  /\ tmp' = [tmp EXCEPT ![FileOf(j)] = Torn]
  /\ stage' = [stage EXCEPT ![j] = "fill"]
  /\ touched' = [touched EXCEPT ![FileOf(j)] = @ \cup {ProcessOf[j]}]
  /\ UNCHANGED <<disk, at, draft, country, counted, seen, made, running, attached,
                 spare, unread, merged>>

\* Renamed in the meantime by another process, the open file is the file itself.
Fill(j) ==
  /\ stage[j] = "fill"
  /\ IF tmp[FileOf(j)] = Absent
       THEN disk' = [disk EXCEPT ![FileOf(j)] = draft[j]] /\ UNCHANGED tmp
       ELSE tmp' = [tmp EXCEPT ![FileOf(j)] = draft[j]] /\ UNCHANGED disk
  /\ stage' = [stage EXCEPT ![j] = "rename"]
  /\ UNCHANGED <<at, draft, country, counted, seen, made, running, attached,
                 spare, unread, touched, merged>>

Rename(j) ==
  /\ stage[j] = "rename" /\ tmp[FileOf(j)] # Absent
  /\ disk' = [disk EXCEPT ![FileOf(j)] = tmp[FileOf(j)]]
  /\ tmp' = [tmp EXCEPT ![FileOf(j)] = Absent]
  /\ at' = [at EXCEPT ![j] = After(j)] /\ stage' = [stage EXCEPT ![j] = "load"]
  /\ draft' = [draft EXCEPT ![j] = None]
  /\ merged' = merged \cup {<<j, FileOf(j)>>}
  /\ UNCHANGED <<country, counted, seen, made, running, attached, spare, unread,
                 touched>>

\* An exception leaves a cycle through the teardown, and ends another command.
Raise(j) ==
  /\ at' = [at EXCEPT ![j] = IF j \in Cycles THEN "stop" ELSE "done"]
  /\ stage' = [stage EXCEPT ![j] = "load"] /\ draft' = [draft EXCEPT ![j] = None]
  /\ UNCHANGED <<disk, tmp, country, counted, seen, made, running, attached,
                 unread, touched, merged>>

RenameFails(j) ==
  /\ stage[j] = "rename" /\ tmp[FileOf(j)] = Absent
  /\ Raise(j) /\ UNCHANGED spare

WriteFails(j) ==
  /\ stage[j] \in {"open", "fill"} /\ spare > 0
  /\ spare' = spare - 1 /\ Raise(j)

-----------------------------------------------------------------------------
(* The commands. *)

Begun == Places \ {"idle", "done", "refused"}
HoldsUntilTeardown(j) == j \in Cycles /\ at[j] \in Begun \ {"stop", "release"}  \* mutant
HoldsProfile(j) == j \in Cycles /\ at[j] \in Begun
Unwritten == <<disk, tmp, stage, draft, touched, merged>>

\* enabled_profiles lists the profile, and FileLock takes its lock or gives up.
StartCycle(j) ==
  /\ j \in Cycles /\ at[j] = "idle"
  /\ Content(CatalogFile)[ProfileOf[j]] # Unlisted
  /\ IF \E i \in Jobs \ {j} : HoldsProfile(i) /\ ProfileOf[i] = ProfileOf[j]
       THEN at' = [at EXCEPT ![j] = "refused"] /\ UNCHANGED country
       ELSE /\ at' = [at EXCEPT ![j] = "collect"]
            /\ country' = [country EXCEPT ![j] = Content(CatalogFile)[ProfileOf[j]]]
  /\ UNCHANGED <<Unwritten, counted, seen, made, running, attached, spare, unread>>

\* The browser is started, or taken over where it still runs.
Acquire(j) ==
  /\ running' = running \cup {ProfileOf[j]}
  /\ attached' = attached \cup {j}

\* A profile without a country adopts the one the collection has seen, if any.
Collect(j) ==
  /\ at[j] = "collect" /\ Acquire(j)
  /\ \E observed \in {None, Seen[ProfileOf[j]]} :
       IF country[j] = None /\ observed # None
         THEN /\ country' = [country EXCEPT ![j] = observed]
              /\ at' = [at EXCEPT ![j] = "adopt"]
         ELSE at' = [at EXCEPT ![j] = "profilePool"] /\ UNCHANGED country
  /\ UNCHANGED <<Unwritten, counted, seen, made, spare, unread>>

Count(j) ==
  /\ at[j] = "count"
  /\ counted' = [counted EXCEPT ![j] = Cardinality(Targets(j))]
  /\ at' = [at EXCEPT ![j] = "judge"]
  /\ UNCHANGED <<Unwritten, country, seen, made, running, attached, spare, unread>>

\* evaluate reads the profile five times, each time under the locks.
RecoveryActive(record) == record.burst > 0 \/ record.active
Views == <<"history", "burst", "active", "attempts", "offset">>
Effective(calibrations) == Len(SelectSeq(calibrations, LAMBDA r : r.effective))
Used(calibrations) ==
  FoldLeft(LAMBDA sum, r : sum + Max({1, r.used}), 0, calibrations)
View(name, record) ==
  CASE name = "history" ->
         [runs |-> Range(record.runs) \ Seeds,
          effective |-> Effective(record.calibrations)]
    [] name = "burst" -> record.burst
    [] name = "active" -> RecoveryActive(record)
    [] name = "attempts" -> Len(record.calibrations)
    [] name = "offset" -> Used(record.calibrations)

Judge(j) ==
  /\ at[j] = "judge" /\ ~Waits(j)
  /\ LET name == Views[Len(seen[j]) + 1] IN
     /\ \E content \in {Content(StateFile), Default(StateFile)} :
          /\ Read(StateFile, content)
          /\ seen' = [seen EXCEPT ![j] = Append(@, View(name, content[ProfileOf[j]]))]
     /\ \/ name # "offset" /\ UNCHANGED at
        \/ name = "offset" /\ at' = [at EXCEPT ![j] = "record"]
        \/ name = "offset" /\ counted[j] > 0 /\ at' = [at EXCEPT ![j] = "calibrate"]
  /\ UNCHANGED <<Unwritten, country, counted, made, running, attached>>

Calibrate(j) ==
  /\ at[j] = "calibrate"
  /\ \E result \in Results : made' = [made EXCEPT ![j] = Append(@, result)]
  /\ at' = [at EXCEPT ![j] = "record"]
  /\ UNCHANGED <<Unwritten, country, counted, seen, running, attached, spare, unread>>

CycleRaises(j) ==
  /\ at[j] \in {"collect", "count", "judge", "calibrate"} /\ j \in Cycles
  /\ spare > 0 /\ spare' = spare - 1
  /\ Raise(j)

\* stop_profile, which only logs that it could not.
Stop(j) ==
  /\ at[j] = "stop"
  /\ \/ running' = running \ {ProfileOf[j]} /\ UNCHANGED spare
     \/ spare > 0 /\ spare' = spare - 1 /\ UNCHANGED running
  /\ attached' = attached \ {j}
  /\ at' = [at EXCEPT ![j] = "release"]
  /\ UNCHANGED <<Unwritten, country, counted, seen, made, unread>>

Forget(jobs) ==
  /\ country' = [j \in Jobs |-> IF j \in jobs THEN None ELSE country[j]]
  /\ counted' = [j \in Jobs |-> IF j \in jobs THEN 0 ELSE counted[j]]
  /\ seen' = [j \in Jobs |-> IF j \in jobs THEN <<>> ELSE seen[j]]
  /\ made' = [j \in Jobs |-> IF j \in jobs THEN <<>> ELSE made[j]]

Release(j) ==
  /\ at[j] = "release"
  /\ at' = [at EXCEPT ![j] = "done"] /\ Forget({j})
  /\ UNCHANGED <<Unwritten, running, attached, spare, unread>>

\* seed-baseline takes no profile lock.
StartSeed(j) ==
  /\ j \in Seeds /\ at[j] = "idle"
  /\ at' = [at EXCEPT ![j] = "seed"]
  /\ UNCHANGED <<Unwritten, country, counted, seen, made, running, attached,
                 spare, unread>>

\* Octo lists its profiles, or the request fails and the catalog stays as it is.
StartDiscovery(j) ==
  /\ KindOf[j] = "discover" /\ at[j] = "idle"
  /\ \/ at' = [at EXCEPT ![j] = "add"] /\ UNCHANGED spare
     \/ spare > 0 /\ spare' = spare - 1 /\ at' = [at EXCEPT ![j] = "done"]
  /\ UNCHANGED <<Unwritten, country, counted, seen, made, running, attached, unread>>

\* The process is killed and started again: its jobs begin anew, its locks are
\* free, the browsers go on running.
Kill(process) ==
  LET jobs == {j \in Jobs : ProcessOf[j] = process /\ at[j] \in Begun} IN
  /\ jobs # {} /\ spare > 0 /\ spare' = spare - 1
  /\ at' = [j \in Jobs |-> IF j \in jobs THEN "idle" ELSE at[j]]
  /\ stage' = [j \in Jobs |-> IF j \in jobs THEN "load" ELSE stage[j]]
  /\ draft' = [j \in Jobs |-> IF j \in jobs THEN None ELSE draft[j]]
  /\ attached' = attached \ jobs /\ Forget(jobs)
  /\ UNCHANGED <<disk, tmp, running, unread, touched, merged>>

Proceed(j) ==
  \/ Load(j) \/ Open(j) \/ Fill(j) \/ Rename(j) \/ RenameFails(j)
  \/ Collect(j) \/ Count(j) \/ Judge(j) \/ Calibrate(j) \/ Stop(j) \/ Release(j)

Next ==
  \/ \E j \in Jobs :
       \/ StartCycle(j) \/ StartSeed(j) \/ StartDiscovery(j)
       \/ Proceed(j) \/ WriteFails(j) \/ CycleRaises(j)
  \/ \E process \in {ProcessOf[j] : j \in Jobs} : Kill(process)

\* A job that has begun goes on: a thread that runs, and locks that are given back.
Spec == Init /\ [][Next]_vars /\ \A j \in Jobs : WF_vars(Proceed(j))

-----------------------------------------------------------------------------
(* Properties. *)

Holdings(f) ==
  CASE f = StateFile -> [Profiles -> RecordType]
    [] f = CatalogFile -> [Profiles -> Countries \cup {None, Unlisted}]
    [] OTHER -> Seq(Ads)

\* The types of the variables, and that a temporary file is only ever half written.
TypeOK ==
  /\ DOMAIN disk = Files /\ DOMAIN tmp = Files
  /\ \A f \in Files : /\ disk[f] \in {Absent, Torn} \/ disk[f] \in Holdings(f)
                      /\ tmp[f] \in {Absent, Torn} \/ tmp[f] \in Holdings(f)
  /\ at \in [Jobs -> Places] /\ stage \in [Jobs -> {"load", "open", "fill", "rename"}]
  /\ country \in [Jobs -> Countries \cup {None}] /\ counted \in [Jobs -> Nat]
  /\ made \in [Jobs -> Seq(Results)]
  /\ running \subseteq Profiles /\ attached \subseteq Cycles
  /\ spare \in Nat /\ unread \in BOOLEAN
  /\ merged \subseteq Jobs \X Files

\* The state file is a journal: whichever threads and processes write it, and
\* wherever they are killed, every update is made whole, once, on top of all that
\* were made before it, and touches one profile (FileStateStore.record_profile_run
\* and seed_baseline under the two locks, save by rename).
Shared == INSTANCE ProfileJournal WITH
  book <- Content(StateFile),
  pending <- {j \in Jobs : at[j] \in {"record", "seed"}},
  unreadable <- unread
StateIsAJournal == Shared!Journal

\* From its evaluation, over the calibration that can take hours, to the record of
\* its run, what a cycle has read of its profile in five separate reads is what the
\* file says, and the browser it works in is not stopped by another command: the
\* profile's lock keeps other cycles out, seed-baseline adds a run that the history
\* leaves out (which at most pushes the oldest runs out of the file) and changes
\* nothing that is read after it, and the teardown comes before the lock is given
\* back.
OwnsItsBrowser == \A j \in attached : ProfileOf[j] \in running
StillStored(name, view, stored) ==
  IF name = "history"
    THEN stored.runs \subseteq view.runs /\ stored.effective = view.effective
    ELSE stored = view
JudgesWhatIsStored(j) ==
  \A i \in DOMAIN seen[j] :
    StillStored(Views[i], seen[j][i],
                View(Views[i], Content(StateFile)[ProfileOf[j]]))
CycleOwnsItsProfile ==
  /\ OwnsItsBrowser
  /\ ~unread => \A j \in Cycles :
                  at[j] \in {"judge", "calibrate", "record"} => JudgesWhatIsStored(j)

\* A catalog or a pool that only the threads of one process update loses nothing of
\* a finished update: the adopted country and the discovered profiles stay, and an
\* ad stays in a pool until newer ones fill it (JsonProfileCatalog and
\* JsonCalibrationTargetPool.update under the locks of the process).
StillThere(j, f) ==
  CASE f = StateFile -> TRUE
    [] f = CatalogFile ->
         IF j \in Cycles THEN Content(f)[ProfileOf[j]] \notin {None, Unlisted}
         ELSE \A p \in Found : Content(f)[p] # Unlisted
    [] OTHER ->
         \/ KeysOf(Range(Fresh[j]) \cap Direct) \subseteq KeysOf(Range(Content(f)))
         \/ Len(Content(f)) = PoolLimit
MergesAreKept ==
  ~unread => \A u \in merged : Cardinality(touched[u[2]]) = 1 => StillThere(u[1], u[2])
================================================================================
