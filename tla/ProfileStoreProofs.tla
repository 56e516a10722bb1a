-------------------------- MODULE ProfileStoreProofs --------------------------
(***************************************************************************)
(* What ProfileStore guarantees for any set of commands, in any number of  *)
(* processes and with any number of kills and failures: the locks exclude  *)
(* each other, a cycle owns its profile, the state file is the journal     *)
(* that ProfileJournal describes, and what is merged into the other files  *)
(* stays there.                                                            *)
(***************************************************************************)
EXTENDS ProfileStore, FiniteSetTheorems, WellFoundedInduction, TLAPS

States == [Profiles -> RecordType]
Catalogs == [Profiles -> Countries \cup {None, Unlisted}]
Updating == {"record", "seed"}
WritesState(j) == at[j] \in Updating /\ stage[j] # "load"

(* The inductive invariant, in its parts.                                  *)

Stages == {"load", "open", "fill", "rename"}
Batches == {<<>>} \cup {<<r>> : r \in Results}
AnyView == {View(Views[i], record) : i \in 1..5, record \in RecordType}
Judging == {"judge", "calibrate", "record"}

TypesInv ==
  /\ at \in [Jobs -> Places] /\ stage \in [Jobs -> Stages] /\ unread \in BOOLEAN
  /\ DOMAIN draft = Jobs /\ country \in [Jobs -> Countries \cup {None}]
  /\ made \in [Jobs -> Batches] /\ seen \in [Jobs -> Seq(AnyView)]
  /\ attached \subseteq Jobs

\* What the state file and the catalog hold, on disk and on their way there.
FilesInv ==
  /\ DOMAIN disk = Files /\ DOMAIN tmp = Files
  /\ disk[StateFile] \in {Absent, Torn} \/ disk[StateFile] \in States
  /\ disk[CatalogFile] \in {Absent, Torn} \/ disk[CatalogFile] \in Catalogs
  /\ tmp[CatalogFile] \in {Absent, Torn} \/ tmp[CatalogFile] \in Catalogs

\* One cycle has a profile, one command writes the state file.
LocksInv ==
  \A i, j \in Jobs :
    /\ HoldsProfile(i) /\ HoldsProfile(j) /\ ProfileOf[i] = ProfileOf[j] => i = j
    /\ WritesState(i) /\ WritesState(j) => i = j

\* Where each kind of command can be.
Placed(j) ==
  /\ at[j] = "seed" => KindOf[j] = "seed"
  /\ at[j] = "add" => KindOf[j] = "discover"
  /\ at[j] \in Begun \ {"seed", "add"} => KindOf[j] = "cycle"
  /\ stage[j] # "load" => at[j] \in Writing
  /\ at[j] = "countryPool" => country[j] # None

\* What is going to be written is an update of what the file holds, or of nothing
\* when it could not be read.
StateUpdates(j, content) ==
  IF at[j] = "record" THEN Recorded(j, content) ELSE Seeded(j, content)
Drafted(j) ==
  /\ at[j] \in {"adopt", "add"} /\ stage[j] # "load" => draft[j] \in Catalogs
  /\ WritesState(j) =>
       /\ \/ draft[j] \in StateUpdates(j, Content(StateFile))
          \/ unread /\ draft[j] \in StateUpdates(j, Default(StateFile))
       /\ stage[j] = "fill" => tmp[StateFile] = Torn
       /\ stage[j] = "rename" => tmp[StateFile] = draft[j]

\* A cycle calibrates once at most, in a browser that runs.
Works(j) ==
  /\ at[j] \notin {"record", "stop", "release"} => made[j] = <<>>
  /\ j \in attached =>
       ProfileOf[j] \in running /\ HoldsProfile(j) /\ at[j] # "release"

\* What it has read of its profile stays true until its run is recorded.
Remembers(j) ==
  /\ at[j] \notin Judging \cup {"stop", "release"} => seen[j] = <<>>
  /\ at[j] = "judge" => Len(seen[j]) < 5
  /\ at[j] \in Judging => Len(seen[j]) <= 5
  /\ ~unread /\ at[j] \in Judging => JudgesWhatIsStored(j)

JobInv(j) == Placed(j) /\ Drafted(j) /\ Works(j) /\ Remembers(j)

StoreInv == TypesInv /\ FilesInv /\ LocksInv /\ \A j \in Jobs : JobInv(j)

-----------------------------------------------------------------------------
(* The operators.                                                          *)

LEMMA ConstantTypes ==
  /\ Keep \in Nat /\ Keep >= 1 /\ BurstLimit \in Nat
  /\ StateFile # CatalogFile
  /\ StateFile \notin Profiles /\ StateFile \notin Countries
  /\ CatalogFile \notin Profiles /\ CatalogFile \notin Countries
  /\ StateFile \in Files /\ CatalogFile \in Files
  /\ \A j \in Jobs : ProfileOf[j] \in Profiles /\ KindOf[j] \in {"cycle", "seed", "discover"}
  /\ \A p \in Profiles : Seen[p] \in Countries
  /\ Catalog \in Catalogs
  /\ Absent # Torn /\ Absent \notin States /\ Torn \notin States
<1>1. /\ Keep \in Nat /\ Keep >= 1 /\ BurstLimit \in Nat
      /\ StateFile # CatalogFile
      /\ StateFile \notin Profiles /\ StateFile \notin Countries
      /\ CatalogFile \notin Profiles /\ CatalogFile \notin Countries
  BY StoreAssumption
<1>2. StateFile \in Files /\ CatalogFile \in Files
  BY DEF Files
<1>3. \A j \in Jobs : ProfileOf[j] \in Profiles /\ KindOf[j] \in {"cycle", "seed", "discover"}
  BY StoreAssumption
<1>4. \A p \in Profiles : Seen[p] \in Countries
  BY StoreAssumption
<1>5. Catalog \in Catalogs
  BY StoreAssumption DEF Catalogs
<1>6. Absent # Torn /\ Absent \notin States /\ Torn \notin States
  BY StoreAssumption DEF States
<1> QED
  BY <1>1, <1>2, <1>3, <1>4, <1>5, <1>6

\* Trimming keeps a sequence a sequence, and invents nothing.
LEMMA NewestKeeps ==
  ASSUME NEW S, NEW s \in Seq(S)
  PROVE  Newest(s) \in Seq(S) /\ Range(Newest(s)) \subseteq Range(s)
<1>1. Keep \in Nat /\ Len(s) \in Nat /\ DOMAIN s = 1..Len(s)
  BY ConstantTypes
<1>2. CASE Len(s) > Keep
  <2> DEFINE m == Len(s) - Keep + 1
  <2>1. m \in Int /\ m >= 1 /\ Len(s) \in Int /\ m <= Len(s)
    BY <1>1, <1>2, ConstantTypes
  <2>2. \A i \in m..Len(s) : s[i] \in S
    BY <2>1
  <2>3. Newest(s) = SubSeq(s, m, Len(s))
    BY <1>2 DEF Newest
  <2> HIDE DEF m
  <2>4. /\ SubSeq(s, m, Len(s)) \in Seq(S)
        /\ Len(SubSeq(s, m, Len(s))) = Len(s) - m + 1
        /\ \A i \in 1..(Len(s) - m + 1) : SubSeq(s, m, Len(s))[i] = s[m + i - 1]
    BY <2>1, <2>2, SMT
  <2>5. \A i \in 1..(Len(s) - m + 1) : m + i - 1 \in 1..Len(s)
    BY <2>1
  <2>6. DOMAIN Newest(s) = 1..(Len(s) - m + 1)
    BY <2>3, <2>4
  <2> QED
    BY <2>3, <2>4, <2>5, <2>6, <1>1 DEF Range
<1>3. CASE ~(Len(s) > Keep)
  BY <1>3 DEF Newest
<1> QED
  BY <1>2, <1>3

\* The run that is added is the only new one.
LEMMA AppendRange ==
  ASSUME NEW S, NEW s \in Seq(S), NEW e \in S
  PROVE  Append(s, e) \in Seq(S) /\ Range(Append(s, e)) \subseteq Range(s) \cup {e}
<1>1. DOMAIN Append(s, e) = 1..(Len(s) + 1) /\ DOMAIN s = 1..Len(s) /\ Len(s) \in Nat
  OBVIOUS
<1>2. \A i \in 1..(Len(s) + 1) : Append(s, e)[i] = IF i <= Len(s) THEN s[i] ELSE e
  BY <1>1
<1>3. \A i \in 1..(Len(s) + 1) : i <= Len(s) => i \in 1..Len(s)
  BY <1>1
<1> QED
  BY <1>1, <1>2, <1>3 DEF Range

LEMMA MinOfTwo ==
  ASSUME NEW a \in Nat, NEW b \in Nat
  PROVE  Min({a, b}) \in {a, b} /\ Min({a, b}) <= b
<1>1. \E x \in {a, b} : \A y \in {a, b} : x <= y
  OBVIOUS
<1> QED
  BY <1>1 DEF Min

LEMMA ScheduleFields ==
  ASSUME NEW b \in 0..BurstLimit, NEW a \in BOOLEAN, NEW s, s = [burst |-> b, active |-> a]
  PROVE  s.burst \in 0..BurstLimit /\ s.active \in BOOLEAN
<1>1. s.active = a
  BY Zenon
<1>2. s.burst = b
  BY Zenon
<1> QED
  BY <1>1, <1>2

\* What a cycle leaves of its record, in the words of the journal.
LEMMA SchedulesTyped ==
  ASSUME NEW record \in RecordType, NEW s \in Schedules(record)
  PROVE  s.burst \in 0..BurstLimit /\ s.active \in BOOLEAN
<1>1. record.burst \in 0..BurstLimit /\ record.active \in BOOLEAN /\ BurstLimit \in Nat
  BY ConstantTypes DEF RecordType
<1> DEFINE more == Min({record.burst + 1, BurstLimit})
<1>2. more \in {record.burst + 1, BurstLimit} /\ more <= BurstLimit
  BY <1>1, MinOfTwo
<1> HIDE DEF more
<1>3. more \in 0..BurstLimit
  BY <1>1, <1>2
<1>4. \/ s = [burst |-> 0, active |-> FALSE]
      \/ s = [burst |-> record.burst, active |-> record.burst > 0 \/ record.active]
      \/ s = [burst |-> more, active |-> TRUE]
  BY DEF Schedules, more
<1> DEFINE recovery == record.burst > 0 \/ record.active
<1>5. recovery \in BOOLEAN
  OBVIOUS
<1> HIDE DEF recovery
<1>6. CASE s = [burst |-> record.burst, active |-> recovery]
  BY <1>1, <1>5, <1>6, ScheduleFields
<1>7. CASE s = [burst |-> 0, active |-> FALSE]
  BY <1>1, <1>7, ScheduleFields
<1>8. CASE s = [burst |-> more, active |-> TRUE]
  BY <1>3, <1>8, ScheduleFields
<1> QED
  BY <1>4, <1>6, <1>7, <1>8 DEF recovery

LEMMA DefaultIs ==
  /\ Default(StateFile) = [p \in Profiles |-> Blank] /\ Default(StateFile) \in States
  /\ Default(CatalogFile) \in Catalogs
<1>1. StateFile # CatalogFile /\ BurstLimit \in Nat
  BY ConstantTypes
<1>2. Default(StateFile) = [p \in Profiles |-> Blank]
  BY <1>1 DEF Default
<1>3. Blank \in RecordType
  <2>1. <<>> \in Seq(Jobs) /\ <<>> \in Seq(Results) /\ 0 \in 0..BurstLimit
    BY <1>1
  <2> QED
    BY <2>1 DEF Blank, RecordType
<1>4. Default(CatalogFile) = [p \in Profiles |-> Unlisted]
  BY <1>1 DEF Default
<1> QED
  BY <1>2, <1>3, <1>4 DEF States, Catalogs

\* The record a cycle files is one the journal allows, and it is the only one that
\* changes.
LEMMA RecordedUpdates ==
  ASSUME NEW j \in Jobs, NEW state \in States, made[j] \in Batches,
         NEW new \in Recorded(j, state)
  PROVE  /\ new \in States
         /\ \A p \in Profiles : p # ProfileOf[j] => new[p] = state[p]
         /\ j \notin Seeds =>
              \E record \in Shared!Filed(j, state[ProfileOf[j]]) :
                new = [state EXCEPT ![ProfileOf[j]] = record]
<1> DEFINE q == ProfileOf[j]
<1>1. q \in Profiles
  BY ConstantTypes
<1>2. state[q] \in RecordType
  BY <1>1 DEF States
<1>3. PICK s \in Schedules(state[q]) :
        new = [state EXCEPT ![q] =
                 [runs |-> Newest(Append(state[q].runs, j)),
                  calibrations |-> Newest(state[q].calibrations \o made[j]),
                  burst |-> s.burst, active |-> s.active]]
  BY DEF Recorded
<1>4. s.burst \in 0..BurstLimit /\ s.active \in BOOLEAN
  BY <1>2, SchedulesTyped
<1>5. state[q].runs \in Seq(Jobs) /\ state[q].calibrations \in Seq(Results)
  BY <1>2 DEF RecordType
<1>6. Newest(Append(state[q].runs, j)) \in Seq(Jobs)
  <2>1. Append(state[q].runs, j) \in Seq(Jobs)
    BY <1>5
  <2> HIDE DEF q
  <2> QED
    BY <2>1, NewestKeeps
<1>7. made[j] \in Seq(Results)
  <2>1. <<>> \in Seq(Results) /\ \A r \in Results : <<r>> \in Seq(Results)
    OBVIOUS
  <2>2. made[j] = <<>> \/ \E r \in Results : made[j] = <<r>>
    BY DEF Batches
  <2> QED
    BY <2>1, <2>2, Zenon
<1>8. state[q].calibrations \o made[j] \in Seq(Results)
  BY <1>5, <1>7
<1>9. Newest(state[q].calibrations \o made[j]) \in Seq(Results)
  BY <1>8, NewestKeeps
<1> DEFINE runs == Newest(Append(state[q].runs, j))
           more == made[j]
           calibrations == Newest(state[q].calibrations \o more)
           burst == s.burst
           active == s.active
           record == [runs |-> runs, calibrations |-> calibrations,
                      burst |-> burst, active |-> active]
<1>10. new = [state EXCEPT ![q] = record]
  BY <1>3
<1>11. record \in RecordType
  <2>1. runs \in Seq(Jobs) /\ calibrations \in Seq(Results)
        /\ burst \in 0..BurstLimit /\ active \in BOOLEAN
    BY <1>4, <1>6, <1>9
  <2> HIDE DEF runs, calibrations, burst, active
  <2> QED
    BY <2>1 DEF RecordType
<1>12. j \notin Seeds => record \in Shared!Filed(j, state[q])
  <2> SUFFICES ASSUME j \notin Seeds PROVE record \in Shared!Filed(j, state[q])
    OBVIOUS
  <2>1. Shared!Filed(j, state[q]) =
          {[runs |-> runs, calibrations |-> Newest(state[q].calibrations \o m),
            burst |-> b, active |-> a] : m \in Batches, b \in 0..BurstLimit, a \in BOOLEAN}
    BY DEF Shared!Filed, Shared!Newest, Newest, Batches
  <2>2. more \in Batches /\ burst \in 0..BurstLimit /\ active \in BOOLEAN
    BY <1>4
  <2>3. \E m \in Batches, b \in 0..BurstLimit, a \in BOOLEAN :
          record = [runs |-> runs, calibrations |-> Newest(state[q].calibrations \o m),
                    burst |-> b, active |-> a]
    <3> HIDE DEF runs, more, burst, active
    <3> QED
      BY <2>2
  <2> HIDE DEF record
  <2> QED
    BY <2>1, <2>3
<1> HIDE DEF record
<1>13. new \in States
  BY <1>1, <1>10, <1>11 DEF States
<1>14. \A p \in Profiles : p # q => new[p] = state[p]
  BY <1>10 DEF States
<1> QED
  BY <1>10, <1>12, <1>13, <1>14

\* A seeded run is added to the runs of its profile, and nothing else changes.
LEMMA SeededUpdates ==
  ASSUME NEW j \in Jobs, NEW state \in States, NEW new \in Seeded(j, state)
  PROVE  /\ new \in States
         /\ \A p \in Profiles :
              /\ p # ProfileOf[j] => new[p] = state[p]
              /\ new[p].calibrations = state[p].calibrations
              /\ new[p].burst = state[p].burst /\ new[p].active = state[p].active
              /\ Range(new[p].runs) \subseteq Range(state[p].runs) \cup {j}
         /\ j \in Seeds =>
              \E record \in Shared!Filed(j, state[ProfileOf[j]]) :
                new = [state EXCEPT ![ProfileOf[j]] = record]
<1> DEFINE q == ProfileOf[j]
           runs == Newest(Append(state[q].runs, j))
           record == [state[q] EXCEPT !.runs = runs]
<1>1. q \in Profiles
  BY ConstantTypes
<1>2. state[q] \in RecordType /\ state[q].runs \in Seq(Jobs)
  BY <1>1 DEF States, RecordType
<1>3. new = [state EXCEPT ![q].runs = runs]
  BY DEF Seeded
<1>4. new = [state EXCEPT ![q] = record]
  BY <1>3
<1>5. Append(state[q].runs, j) \in Seq(Jobs)
      /\ Range(Append(state[q].runs, j)) \subseteq Range(state[q].runs) \cup {j}
  BY <1>2, AppendRange
<1>6. runs \in Seq(Jobs) /\ Range(runs) \subseteq Range(state[q].runs) \cup {j}
  BY <1>5, NewestKeeps
<1>7. j \in Seeds => record \in Shared!Filed(j, state[q])
  <2>1. j \in Seeds => Shared!Filed(j, state[q]) = {record}
    BY DEF Shared!Filed, Shared!Newest, Newest
  <2> QED
    BY <2>1
<1> HIDE DEF runs
<1>8. /\ record \in RecordType /\ record.runs = runs
      /\ record.calibrations = state[q].calibrations
      /\ record.burst = state[q].burst /\ record.active = state[q].active
  BY <1>2, <1>6 DEF RecordType
<1> HIDE DEF record
<1>9. new \in States
  BY <1>1, <1>4, <1>8 DEF States
<1>10. new[q] = record /\ \A p \in Profiles : p # q => new[p] = state[p]
  BY <1>1, <1>4 DEF States
<1>11. ASSUME NEW p \in Profiles
       PROVE  /\ p # q => new[p] = state[p]
              /\ new[p].calibrations = state[p].calibrations
              /\ new[p].burst = state[p].burst /\ new[p].active = state[p].active
              /\ Range(new[p].runs) \subseteq Range(state[p].runs) \cup {j}
  <2>1. CASE p = q
    <3> HIDE DEF q
    <3>1. new[p] = record /\ state[p] = state[q]
      BY <1>10, <2>1
    <3> QED
      BY <3>1, <1>6, <1>8, <2>1
  <2>2. CASE p # q
    <3>1. new[p] = state[p]
      BY <1>10, <2>2
    <3> QED
      BY <2>2, <3>1
  <2> QED
    BY <2>1, <2>2
<1> QED
  BY <1>4, <1>7, <1>9, <1>11

-----------------------------------------------------------------------------
(* The steps.                                                              *)

LEMMA ContentTyped ==
  ASSUME FilesInv
  PROVE  /\ Content(StateFile) \in States /\ Content(CatalogFile) \in Catalogs
         /\ disk[StateFile] \in States => Content(StateFile) = disk[StateFile]
BY DefaultIs, ConstantTypes DEF FilesInv, Content

\* The files of the updates, which are different paths.
LEMMA FileOfIs ==
  ASSUME TypesInv, NEW j \in Jobs, Placed(j), at[j] \in Writing
  PROVE  /\ FileOf(j) \in Files
         /\ FileOf(j) = StateFile <=> at[j] \in Updating
         /\ FileOf(j) = CatalogFile <=> at[j] \in {"adopt", "add"}
<1>1. ProfileOf[j] \in Profiles /\ country[j] \in Countries \cup {None}
  BY ConstantTypes DEF TypesInv
<1>2. CASE at[j] \in Updating
  <2>1. FileOf(j) = StateFile
    BY <1>2 DEF FileOf, Updating
  <2> QED
    BY <1>2, <2>1, ConstantTypes DEF Updating
<1>3. CASE at[j] \in {"adopt", "add"}
  <2>1. FileOf(j) = CatalogFile
    BY <1>3 DEF FileOf
  <2> QED
    BY <1>3, <2>1, ConstantTypes DEF Updating
<1>4. CASE at[j] = "profilePool"
  <2>1. FileOf(j) = ProfileOf[j]
    BY <1>4 DEF FileOf
  <2> QED
    BY <1>1, <1>4, <2>1, ConstantTypes DEF Updating, Files
<1>5. CASE at[j] = "countryPool"
  <2>1. FileOf(j) = country[j] /\ country[j] \in Countries
    BY <1>1, <1>5 DEF FileOf, Placed
  <2> QED
    BY <1>5, <2>1, ConstantTypes DEF Updating, Files
<1> QED
  BY <1>2, <1>3, <1>4, <1>5 DEF Writing, Updating

\* A step of one job leaves what is kept for the others.
Untouched(i) ==
  /\ at'[i] = at[i] /\ stage'[i] = stage[i] /\ draft'[i] = draft[i]
  /\ country'[i] = country[i] /\ made'[i] = made[i] /\ seen'[i] = seen[i]
  /\ i \in attached' => i \in attached
Alone(j) == \A i \in Jobs \ {j} : Untouched(i)

\* What one job asks of another's step.
Spares(i) ==
  /\ unread => unread'
  /\ WritesState(i) => disk'[StateFile] = disk[StateFile] /\ tmp'[StateFile] = tmp[StateFile]
  /\ i \in attached /\ ProfileOf[i] \in running => ProfileOf[i] \in running'
  /\ ~unread' /\ at[i] \in Judging /\ JudgesWhatIsStored(i) => JudgesWhatIsStored(i)'

LEMMA OthersKeep ==
  ASSUME NEW i \in Jobs, JobInv(i), Untouched(i), Spares(i)
  PROVE  JobInv(i)'
<1>1. /\ at'[i] = at[i] /\ stage'[i] = stage[i] /\ draft'[i] = draft[i]
      /\ country'[i] = country[i] /\ made'[i] = made[i] /\ seen'[i] = seen[i]
      /\ i \in attached' => i \in attached
  BY DEF Untouched
<1>2. Placed(i)'
  BY <1>1 DEF JobInv, Placed
<1>4. Drafted(i)'
  <2>1. (at'[i] \in {"adopt", "add"} /\ stage'[i] # "load") => draft'[i] \in Catalogs
    BY <1>1 DEF JobInv, Drafted
  <2>2. ASSUME WritesState(i)'
        PROVE  /\ \/ draft'[i] \in StateUpdates(i, Content(StateFile))'
                  \/ unread' /\ draft'[i] \in StateUpdates(i, Default(StateFile))'
               /\ stage'[i] = "fill" => tmp'[StateFile] = Torn
               /\ stage'[i] = "rename" => tmp'[StateFile] = draft'[i]
    <3>1. WritesState(i) /\ disk'[StateFile] = disk[StateFile]
          /\ tmp'[StateFile] = tmp[StateFile] /\ (unread => unread')
      BY <1>1, <2>2 DEF WritesState, Spares
    <3>2. Content(StateFile)' = Content(StateFile)
      BY <3>1 DEF Content, Default
    <3>3. StateUpdates(i, Content(StateFile))' = StateUpdates(i, Content(StateFile))
          /\ StateUpdates(i, Default(StateFile))' = StateUpdates(i, Default(StateFile))
      BY <1>1, <3>2 DEF StateUpdates, Recorded, Seeded, Default
    <3> QED
      BY <1>1, <3>1, <3>3 DEF JobInv, Drafted
  <2> QED
    BY <2>1, <2>2 DEF Drafted
<1>5. Works(i)'
  BY <1>1 DEF JobInv, Works, Spares, HoldsProfile
<1>6. Remembers(i)'
  <2>1. ~unread' /\ at'[i] \in Judging => JudgesWhatIsStored(i)'
    BY <1>1 DEF JobInv, Remembers, Spares
  <2> QED
    BY <1>1, <2>1 DEF JobInv, Remembers
<1> QED
  BY <1>2, <1>4, <1>5, <1>6 DEF JobInv

\* What the file says stays what was read while the file stays.
LEMMA StoredViews ==
  ASSUME NEW i \in Jobs, seen'[i] = seen[i], Content(StateFile)' = Content(StateFile),
         JudgesWhatIsStored(i)
  PROVE  JudgesWhatIsStored(i)'
BY DEF JudgesWhatIsStored

\* The locks after a step of one job, who takes a lock only when it is free.
LEMMA LocksKeep ==
  ASSUME LocksInv, NEW j \in Jobs, Alone(j),
         HoldsProfile(j)' =>
           \/ HoldsProfile(j)
           \/ \A i \in Jobs \ {j} : ~(HoldsProfile(i) /\ ProfileOf[i] = ProfileOf[j]),
         WritesState(j)' => WritesState(j) \/ \A i \in Jobs \ {j} : ~WritesState(i)
  PROVE  LocksInv'
<1>1. \A i \in Jobs \ {j} : (HoldsProfile(i)' <=> HoldsProfile(i))
                           /\ (WritesState(i)' <=> WritesState(i))
  BY DEF Alone, Untouched, HoldsProfile, WritesState
<1> SUFFICES ASSUME NEW i \in Jobs, NEW k \in Jobs
             PROVE  /\ HoldsProfile(i)' /\ HoldsProfile(k)' /\ ProfileOf[i] = ProfileOf[k] => i = k
                    /\ WritesState(i)' /\ WritesState(k)' => i = k
  BY DEF LocksInv
<1>2. CASE i # j /\ k # j
  BY <1>1, <1>2 DEF LocksInv
<1>3. CASE i = j /\ k # j
  BY <1>1, <1>3 DEF LocksInv
<1>4. CASE i # j /\ k = j
  BY <1>1, <1>4 DEF LocksInv
<1> QED
  BY <1>2, <1>3, <1>4

LEMMA OneJobKeeps ==
  ASSUME StoreInv, NEW j \in Jobs, Alone(j), \A i \in Jobs \ {j} : Spares(i),
         TypesInv', FilesInv', JobInv(j)',
         HoldsProfile(j)' =>
           \/ HoldsProfile(j)
           \/ \A i \in Jobs \ {j} : ~(HoldsProfile(i) /\ ProfileOf[i] = ProfileOf[j]),
         WritesState(j)' => WritesState(j) \/ \A i \in Jobs \ {j} : ~WritesState(i)
  PROVE  StoreInv'
<1>1. LocksInv'
  BY LocksKeep DEF StoreInv
<1>2. ASSUME NEW i \in Jobs PROVE JobInv(i)'
  <2>1. CASE i = j
    BY <2>1
  <2>2. CASE i # j
    BY <2>2, OthersKeep DEF StoreInv, Alone
  <2> QED
    BY <2>1, <2>2
<1> QED
  BY <1>1, <1>2 DEF StoreInv

\* A step that writes no file.
LEMMA QuietStep ==
  ASSUME StoreInv, NEW j \in Jobs, NEW x \in Places, UNCHANGED Unwritten, stage[j] = "load",
         at' = [at EXCEPT ![j] = x], unread' \in BOOLEAN, unread => unread',
         country' \in [Jobs -> Countries \cup {None}], made' \in [Jobs -> Batches],
         seen' \in [Jobs -> Seq(AnyView)], attached' \subseteq Jobs,
         \A i \in Jobs \ {j} :
           /\ country'[i] = country[i] /\ made'[i] = made[i] /\ seen'[i] = seen[i]
           /\ i \in attached' => i \in attached
           /\ i \in attached /\ ProfileOf[i] \in running => ProfileOf[i] \in running',
         HoldsProfile(j)' =>
           \/ HoldsProfile(j)
           \/ \A i \in Jobs \ {j} : ~(HoldsProfile(i) /\ ProfileOf[i] = ProfileOf[j]),
         Placed(j)', Works(j)', Remembers(j)'
  PROVE  StoreInv'
<1>1. disk' = disk /\ tmp' = tmp /\ stage' = stage /\ draft' = draft
  BY DEF Unwritten
<1>2. TypesInv'
  BY <1>1 DEF StoreInv, TypesInv
<1>3. FilesInv'
  BY <1>1 DEF StoreInv, FilesInv
<1>4. Alone(j)
  BY <1>1 DEF Alone, Untouched, StoreInv, TypesInv
<1>5. Content(StateFile)' = Content(StateFile)
  BY <1>1 DEF Content, Default
<1>6. ASSUME NEW i \in Jobs \ {j} PROVE Spares(i)
  <2>1. JudgesWhatIsStored(i) => JudgesWhatIsStored(i)'
    BY <1>5, StoredViews
  <2> QED
    BY <1>1, <2>1 DEF Spares
<1>7. ~WritesState(j)' /\ Drafted(j)'
  BY <1>1 DEF WritesState, Drafted
<1>8. JobInv(j)'
  BY <1>7 DEF JobInv
<1> QED
  BY <1>2, <1>3, <1>4, <1>6, <1>7, <1>8, OneJobKeeps

\* The parts of the invariant for one job.
LEMMA OneJob ==
  ASSUME StoreInv, NEW j \in Jobs
  PROVE  /\ TypesInv /\ FilesInv /\ LocksInv
         /\ Placed(j) /\ Drafted(j) /\ Works(j) /\ Remembers(j)
         /\ KindOf[j] \in {"cycle", "seed", "discover"} /\ ProfileOf[j] \in Profiles
BY ConstantTypes DEF StoreInv, JobInv

LEMMA StartCycleKeeps == ASSUME StoreInv, NEW j \in Jobs, StartCycle(j) PROVE StoreInv'
<1>1. /\ TypesInv /\ FilesInv /\ Placed(j) /\ Works(j) /\ Remembers(j)
      /\ ProfileOf[j] \in Profiles
  BY OneJob
<1>2. /\ at[j] = "idle" /\ KindOf[j] = "cycle" /\ UNCHANGED Unwritten
      /\ seen' = seen /\ made' = made /\ running' = running /\ attached' = attached
      /\ unread' = unread
  BY DEF StartCycle, Cycles
<1>3. stage[j] = "load" /\ made[j] = <<>> /\ seen[j] = <<>> /\ j \notin attached
  BY <1>1, <1>2 DEF Placed, Writing, Works, Remembers, Judging, HoldsProfile, Begun
<1>4. Content(CatalogFile)[ProfileOf[j]] \in Countries \cup {None}
  <2>1. Content(CatalogFile) \in Catalogs
    BY <1>1, ContentTyped
  <2> QED
    BY <1>1, <2>1 DEF StartCycle, Catalogs
<1>5. CASE at' = [at EXCEPT ![j] = "refused"] /\ UNCHANGED country
  <2>1. at'[j] = "refused"
    BY <1>1, <1>5 DEF TypesInv
  <2>2. ~HoldsProfile(j)'
    BY <2>1 DEF HoldsProfile, Begun
  <2>3. Placed(j)' /\ Works(j)' /\ Remembers(j)'
    BY <1>2, <1>3, <2>1 DEF Unwritten, Placed, Works, Remembers, Begun, Judging
  <2>4. "refused" \in Places
    BY DEF Places
  <2> QED
    BY <1>1, <1>2, <1>3, <1>5, <2>2, <2>3, <2>4, QuietStep DEF TypesInv
<1>6. CASE /\ at' = [at EXCEPT ![j] = "collect"]
           /\ country' = [country EXCEPT ![j] = Content(CatalogFile)[ProfileOf[j]]]
           /\ ~\E i \in Jobs \ {j} : HoldsProfile(i) /\ ProfileOf[i] = ProfileOf[j]
  <2>1. at'[j] = "collect"
    BY <1>1, <1>6 DEF TypesInv
  <2>2. Placed(j)' /\ Works(j)' /\ Remembers(j)'
    BY <1>2, <1>3, <2>1 DEF Unwritten, Placed, Works, Remembers, Begun, Judging
  <2>3. "collect" \in Places
    BY DEF Places
  <2>4. /\ country' \in [Jobs -> Countries \cup {None}]
        /\ \A i \in Jobs \ {j} : country'[i] = country[i]
    BY <1>1, <1>4, <1>6 DEF TypesInv
  <2> QED
    BY <1>1, <1>2, <1>3, <1>6, <2>2, <2>3, <2>4, QuietStep DEF TypesInv
<1> QED
  BY <1>5, <1>6 DEF StartCycle

LEMMA CollectKeeps == ASSUME StoreInv, NEW j \in Jobs, Collect(j) PROVE StoreInv'
<1>1. /\ TypesInv /\ Placed(j) /\ Works(j) /\ Remembers(j) /\ ProfileOf[j] \in Profiles
  BY OneJob
<1>2. /\ at[j] = "collect" /\ UNCHANGED Unwritten /\ seen' = seen /\ made' = made
      /\ running' = running \cup {ProfileOf[j]} /\ attached' = attached \cup {j}
      /\ unread' = unread
  BY DEF Collect, Acquire
<1>3. KindOf[j] = "cycle" /\ stage[j] = "load" /\ made[j] = <<>> /\ seen[j] = <<>>
  BY <1>1, <1>2 DEF Placed, Writing, Works, Remembers, Judging, Begun, Places
<1>4. HoldsProfile(j)
  BY <1>2, <1>3 DEF HoldsProfile, Cycles, Begun, Places
<1>5. PICK x \in {"adopt", "profilePool"}, c \in Countries \cup {None} :
        at' = [at EXCEPT ![j] = x] /\ country' = [country EXCEPT ![j] = c]
  <2>1. PICK observed \in {None, Seen[ProfileOf[j]]} :
          IF country[j] = None /\ observed # None
            THEN /\ country' = [country EXCEPT ![j] = observed]
                 /\ at' = [at EXCEPT ![j] = "adopt"]
            ELSE at' = [at EXCEPT ![j] = "profilePool"] /\ UNCHANGED country
    BY DEF Collect
  <2>2. observed \in Countries \cup {None}
    BY <1>1, ConstantTypes
  <2>3. country = [country EXCEPT ![j] = country[j]] /\ country[j] \in Countries \cup {None}
    BY <1>1 DEF TypesInv
  <2> QED
    BY <2>1, <2>2, <2>3
<1>6. at'[j] = x /\ x \in Places
  BY <1>1, <1>5 DEF TypesInv, Places
<1>7. Placed(j)' /\ Works(j)' /\ Remembers(j)'
  <2>1. HoldsProfile(j)'
    BY <1>3, <1>5, <1>6 DEF HoldsProfile, Cycles, Begun, Places
  <2> QED
    BY <1>2, <1>3, <1>5, <1>6, <2>1 DEF Unwritten, Placed, Works, Remembers, Judging
<1>8. /\ country' \in [Jobs -> Countries \cup {None}]
      /\ \A i \in Jobs \ {j} : country'[i] = country[i]
  BY <1>1, <1>5 DEF TypesInv
<1> QED
  BY <1>1, <1>2, <1>3, <1>4, <1>5, <1>6, <1>7, <1>8, QuietStep DEF TypesInv

LEMMA CountKeeps == ASSUME StoreInv, NEW j \in Jobs, Count(j) PROVE StoreInv'
<1>1. /\ TypesInv /\ Placed(j) /\ Works(j) /\ Remembers(j)
  BY OneJob
<1>2. /\ at[j] = "count" /\ UNCHANGED Unwritten /\ seen' = seen /\ made' = made
      /\ country' = country /\ running' = running /\ attached' = attached
      /\ unread' = unread /\ at' = [at EXCEPT ![j] = "judge"]
  BY DEF Count
<1>3. KindOf[j] = "cycle" /\ stage[j] = "load" /\ made[j] = <<>> /\ seen[j] = <<>>
  BY <1>1, <1>2 DEF Placed, Writing, Works, Remembers, Judging, Begun, Places
<1>4. at'[j] = "judge" /\ "judge" \in Places
  BY <1>1, <1>2 DEF TypesInv, Places
<1>5. HoldsProfile(j) /\ HoldsProfile(j)'
  BY <1>2, <1>3, <1>4 DEF HoldsProfile, Cycles, Begun, Places
<1>6. JudgesWhatIsStored(j)' /\ Len(seen'[j]) < 5
  BY <1>2, <1>3 DEF JudgesWhatIsStored
<1>7. Placed(j)' /\ Works(j)' /\ Remembers(j)'
  BY <1>1, <1>2, <1>3, <1>4, <1>5, <1>6 DEF Unwritten, Placed, Works, Remembers, Judging
<1> QED
  BY <1>1, <1>2, <1>3, <1>4, <1>5, <1>7, QuietStep DEF TypesInv

LEMMA CalibrateKeeps == ASSUME StoreInv, NEW j \in Jobs, Calibrate(j) PROVE StoreInv'
<1>1. /\ TypesInv /\ Placed(j) /\ Works(j) /\ Remembers(j)
  BY OneJob
<1>2. /\ at[j] = "calibrate" /\ UNCHANGED Unwritten /\ seen' = seen
      /\ country' = country /\ running' = running /\ attached' = attached
      /\ unread' = unread /\ at' = [at EXCEPT ![j] = "record"]
  BY DEF Calibrate
<1>3. KindOf[j] = "cycle" /\ stage[j] = "load" /\ made[j] = <<>>
  BY <1>1, <1>2 DEF Placed, Writing, Works, Begun, Places
<1>4. at'[j] = "record" /\ "record" \in Places
  BY <1>1, <1>2 DEF TypesInv, Places
<1>5. HoldsProfile(j) /\ HoldsProfile(j)'
  BY <1>2, <1>3, <1>4 DEF HoldsProfile, Cycles, Begun, Places
<1>6. PICK result \in Results : made' = [made EXCEPT ![j] = Append(@, result)]
  BY DEF Calibrate
<1>7. Append(made[j], result) = <<result>>
  BY <1>3
<1>8. made' = [made EXCEPT ![j] = <<result>>] /\ <<result>> \in Batches
  BY <1>6, <1>7 DEF Batches
<1>9. made' \in [Jobs -> Batches] /\ \A i \in Jobs \ {j} : made'[i] = made[i]
  BY <1>1, <1>8 DEF TypesInv
<1>10. ~unread' => JudgesWhatIsStored(j)'
  <2>1. Content(StateFile)' = Content(StateFile)
    BY <1>2 DEF Unwritten, Content, Default
  <2> QED
    BY <1>1, <1>2, <2>1, StoredViews DEF Remembers, Judging
<1>11. Placed(j)' /\ Works(j)' /\ Remembers(j)'
  BY <1>1, <1>2, <1>3, <1>4, <1>5, <1>10 DEF Unwritten, Placed, Works, Remembers, Judging
<1> QED
  BY <1>1, <1>2, <1>3, <1>4, <1>5, <1>9, <1>11, QuietStep DEF TypesInv

LEMMA StopKeeps == ASSUME StoreInv, NEW j \in Jobs, Stop(j) PROVE StoreInv'
<1>1. /\ TypesInv /\ LocksInv /\ Placed(j) /\ Works(j) /\ Remembers(j)
  BY OneJob
<1>2. /\ at[j] = "stop" /\ UNCHANGED Unwritten /\ seen' = seen /\ made' = made
      /\ country' = country /\ running \ {ProfileOf[j]} \subseteq running'
      /\ attached' = attached \ {j}
      /\ unread' = unread /\ at' = [at EXCEPT ![j] = "release"]
  BY DEF Stop
<1>3. KindOf[j] = "cycle" /\ stage[j] = "load"
  BY <1>1, <1>2 DEF Placed, Writing, Begun, Places
<1>4. at'[j] = "release" /\ "release" \in Places
  BY <1>1, <1>2 DEF TypesInv, Places
<1>5. HoldsProfile(j) /\ HoldsProfile(j)'
  BY <1>2, <1>3, <1>4 DEF HoldsProfile, Cycles, Begun, Places
<1>6. \A i \in Jobs \ {j} : i \in attached => ProfileOf[i] # ProfileOf[j]
  BY <1>1, <1>5 DEF StoreInv, JobInv, Works, LocksInv
<1>7. \A i \in Jobs \ {j} :
        i \in attached /\ ProfileOf[i] \in running => ProfileOf[i] \in running'
  BY <1>2, <1>6
<1>8. Placed(j)' /\ Works(j)' /\ Remembers(j)'
  BY <1>1, <1>2, <1>3, <1>4, <1>5 DEF Unwritten, Placed, Works, Remembers, Judging
<1> QED
  BY <1>1, <1>2, <1>3, <1>4, <1>5, <1>7, <1>8, QuietStep DEF TypesInv

\* A job that is through, or killed, leaves nothing in memory.
LEMMA Forgotten ==
  ASSUME TypesInv, NEW jobs \in SUBSET Jobs, Forget(jobs)
  PROVE  /\ country' \in [Jobs -> Countries \cup {None}] /\ made' \in [Jobs -> Batches]
         /\ seen' \in [Jobs -> Seq(AnyView)]
         /\ \A i \in jobs : made'[i] = <<>> /\ seen'[i] = <<>>
         /\ \A i \in Jobs \ jobs :
              country'[i] = country[i] /\ made'[i] = made[i] /\ seen'[i] = seen[i]
<1>1. <<>> \in Seq(AnyView) /\ <<>> \in Batches
  BY DEF Batches
<1>2. country' \in [Jobs -> Countries \cup {None}]
  BY DEF Forget, TypesInv
<1>3. made' \in [Jobs -> Batches]
  BY <1>1 DEF Forget, TypesInv
<1>4. seen' \in [Jobs -> Seq(AnyView)]
  BY <1>1 DEF Forget, TypesInv
<1>5. \A i \in jobs : made'[i] = <<>> /\ seen'[i] = <<>>
  BY DEF Forget
<1>6. \A i \in Jobs \ jobs :
        country'[i] = country[i] /\ made'[i] = made[i] /\ seen'[i] = seen[i]
  BY DEF Forget
<1> QED
  BY <1>2, <1>3, <1>4, <1>5, <1>6

LEMMA ReleaseKeeps == ASSUME StoreInv, NEW j \in Jobs, Release(j) PROVE StoreInv'
<1>1. /\ TypesInv /\ Placed(j) /\ Works(j) /\ Remembers(j)
  BY OneJob
<1>2. /\ at[j] = "release" /\ UNCHANGED Unwritten /\ Forget({j})
      /\ running' = running /\ attached' = attached
      /\ unread' = unread /\ at' = [at EXCEPT ![j] = "done"]
  BY DEF Release
<1>3. KindOf[j] = "cycle" /\ stage[j] = "load"
  BY <1>1, <1>2 DEF Placed, Writing, Begun, Places
<1>4. at'[j] = "done" /\ "done" \in Places
  BY <1>1, <1>2 DEF TypesInv, Places
<1>5. {j} \in SUBSET Jobs
  OBVIOUS
<1>6. /\ country' \in [Jobs -> Countries \cup {None}] /\ made' \in [Jobs -> Batches]
      /\ seen' \in [Jobs -> Seq(AnyView)] /\ made'[j] = <<>> /\ seen'[j] = <<>>
      /\ \A i \in Jobs \ {j} :
           country'[i] = country[i] /\ made'[i] = made[i] /\ seen'[i] = seen[i]
  BY <1>1, <1>2, <1>5, Forgotten
<1>7. ~HoldsProfile(j)'
  BY <1>4 DEF HoldsProfile, Begun
<1>8. j \notin attached
  BY <1>1, <1>2 DEF Works
<1>9. Placed(j)' /\ Works(j)' /\ Remembers(j)'
  BY <1>2, <1>3, <1>4, <1>6, <1>8 DEF Unwritten, Placed, Works, Remembers, Judging, Begun
<1> QED
  BY <1>1, <1>2, <1>3, <1>4, <1>6, <1>7, <1>9, QuietStep DEF TypesInv

\* What has just been read is what the file says.
LEMMA ReadAgrees ==
  ASSUME NEW name, NEW view
  PROVE  StillStored(name, view, view)
BY DEF StillStored

LEMMA JudgeKeeps == ASSUME StoreInv, NEW j \in Jobs, Judge(j) PROVE StoreInv'
<1>1. /\ TypesInv /\ FilesInv /\ Placed(j) /\ Works(j) /\ Remembers(j)
      /\ ProfileOf[j] \in Profiles
  BY OneJob
<1> DEFINE n == Len(seen[j]) + 1
           name == Views[n]
<1>2. /\ at[j] = "judge" /\ UNCHANGED Unwritten /\ made' = made
      /\ country' = country /\ running' = running /\ attached' = attached
  BY DEF Judge
<1>3. KindOf[j] = "cycle" /\ stage[j] = "load" /\ made[j] = <<>>
  BY <1>1, <1>2 DEF Placed, Writing, Works, Begun, Places
<1>4. PICK content \in {Content(StateFile), Default(StateFile)} :
        /\ Read(StateFile, content)
        /\ seen' = [seen EXCEPT ![j] = Append(@, View(name, content[ProfileOf[j]]))]
  BY DEF Judge
<1>5. /\ unread' \in BOOLEAN /\ (unread => unread')
      /\ ~unread' => ~unread /\ content = Content(StateFile)
  BY <1>1, <1>4 DEF Read, TypesInv
<1>6. seen[j] \in Seq(AnyView) /\ Len(seen[j]) < 5 /\ n \in 1..5
  BY <1>1, <1>2 DEF TypesInv, Remembers
<1>7. PICK x \in {"judge", "record", "calibrate"} :
        /\ at' = [at EXCEPT ![j] = x]
        /\ name # "offset" => x = "judge"
        /\ x = "judge" => name # "offset"
  <2>1. at = [at EXCEPT ![j] = "judge"]
    BY <1>1, <1>2 DEF TypesInv
  <2>2. \/ name # "offset" /\ at' = at
        \/ name = "offset" /\ at' = [at EXCEPT ![j] = "record"]
        \/ name = "offset" /\ at' = [at EXCEPT ![j] = "calibrate"]
    BY DEF Judge
  <2> HIDE DEF name
  <2> QED
    BY <2>1, <2>2
<1>8. at'[j] = x /\ x \in Places
  BY <1>1, <1>7 DEF TypesInv, Places
<1>9. HoldsProfile(j) /\ HoldsProfile(j)'
  BY <1>2, <1>3, <1>7, <1>8 DEF HoldsProfile, Cycles, Begun, Places
<1>10. x = "judge" => n < 5
  <2>1. Views[5] = "offset"
    BY DEF Views
  <2> QED
    BY <1>6, <1>7, <2>1
<1> DEFINE view == View(name, content[ProfileOf[j]])
<1>11. view \in AnyView
  <2>1. content \in States
    BY <1>1, <1>4, ContentTyped, DefaultIs
  <2>2. content[ProfileOf[j]] \in RecordType
    BY <1>1, <2>1 DEF States
  <2> QED
    BY <1>6, <2>2 DEF AnyView
<1>12. seen' = [seen EXCEPT ![j] = Append(seen[j], view)]
  BY <1>4
<1>13. ~unread' => view = View(Views[n], Content(StateFile)[ProfileOf[j]])
  BY <1>5
<1> HIDE DEF name, view
<1>14. /\ Append(seen[j], view) \in Seq(AnyView) /\ Len(Append(seen[j], view)) = n
       /\ DOMAIN Append(seen[j], view) = 1..n
       /\ Append(seen[j], view)[n] = view
       /\ \A i \in 1..n : i # n => i \in DOMAIN seen[j] /\ Append(seen[j], view)[i] = seen[j][i]
  BY <1>6, <1>11
<1>15. seen'[j] = Append(seen[j], view)
  BY <1>1, <1>12 DEF TypesInv
<1>16. Content(StateFile)' = Content(StateFile)
  BY <1>2 DEF Unwritten, Content, Default
<1>17. ASSUME ~unread' PROVE JudgesWhatIsStored(j)'
  <2>1. JudgesWhatIsStored(j)
    BY <1>1, <1>2, <1>5, <1>17 DEF Remembers, Judging
  <2> SUFFICES ASSUME NEW i \in 1..n
               PROVE  StillStored(Views[i], seen'[j][i],
                                  View(Views[i], Content(StateFile)[ProfileOf[j]]))
    BY <1>14, <1>15, <1>16 DEF JudgesWhatIsStored
  <2>2. CASE i = n
    <3>1. seen'[j][i] = View(Views[i], Content(StateFile)[ProfileOf[j]])
      BY <1>13, <1>14, <1>15, <1>17, <2>2
    <3> QED
      BY <3>1, ReadAgrees
  <2>3. CASE i # n
    <3>1. i \in DOMAIN seen[j] /\ seen'[j][i] = seen[j][i]
      BY <1>14, <1>15, <2>3
    <3> QED
      BY <2>1, <3>1 DEF JudgesWhatIsStored
  <2> QED
    BY <2>2, <2>3
<1>18. /\ seen' \in [Jobs -> Seq(AnyView)]
       /\ \A i \in Jobs \ {j} : seen'[i] = seen[i]
  BY <1>1, <1>12, <1>14 DEF TypesInv
<1>19. Placed(j)'
  BY <1>2, <1>3, <1>7, <1>8 DEF Unwritten, Placed
<1>20. Works(j)'
  BY <1>1, <1>2, <1>3, <1>7, <1>8, <1>9 DEF Works
<1>21. Remembers(j)'
  BY <1>6, <1>7, <1>8, <1>10, <1>14, <1>15, <1>17 DEF Remembers, Judging
<1> HIDE DEF n
<1> QED
  BY <1>1, <1>2, <1>3, <1>5, <1>7, <1>8, <1>9, <1>18, <1>19, <1>20, <1>21, QuietStep
     DEF TypesInv

LEMMA StartSeedKeeps == ASSUME StoreInv, NEW j \in Jobs, StartSeed(j) PROVE StoreInv'
<1>1. /\ TypesInv /\ Placed(j) /\ Works(j) /\ Remembers(j)
  BY OneJob
<1>2. /\ at[j] = "idle" /\ KindOf[j] = "seed" /\ UNCHANGED Unwritten /\ seen' = seen
      /\ made' = made /\ country' = country /\ running' = running
      /\ attached' = attached /\ unread' = unread /\ at' = [at EXCEPT ![j] = "seed"]
  BY DEF StartSeed, Seeds
<1>3. stage[j] = "load" /\ made[j] = <<>> /\ seen[j] = <<>> /\ j \notin attached
  BY <1>1, <1>2 DEF Placed, Writing, Works, Remembers, Judging, HoldsProfile, Begun
<1>4. at'[j] = "seed" /\ "seed" \in Places
  BY <1>1, <1>2 DEF TypesInv, Places
<1>5. ~HoldsProfile(j)'
  BY <1>2 DEF HoldsProfile, Cycles
<1>6. Placed(j)' /\ Works(j)' /\ Remembers(j)'
  BY <1>2, <1>3, <1>4 DEF Unwritten, Placed, Works, Remembers, Judging
<1> QED
  BY <1>1, <1>2, <1>3, <1>4, <1>5, <1>6, QuietStep DEF TypesInv

LEMMA StartDiscoveryKeeps ==
  ASSUME StoreInv, NEW j \in Jobs, StartDiscovery(j) PROVE StoreInv'
<1>1. /\ TypesInv /\ Placed(j) /\ Works(j) /\ Remembers(j)
  BY OneJob
<1>2. /\ at[j] = "idle" /\ KindOf[j] = "discover" /\ UNCHANGED Unwritten /\ seen' = seen
      /\ made' = made /\ country' = country /\ running' = running
      /\ attached' = attached /\ unread' = unread
  BY DEF StartDiscovery
<1>3. PICK x \in {"add", "done"} : at' = [at EXCEPT ![j] = x]
  BY DEF StartDiscovery
<1>4. stage[j] = "load" /\ made[j] = <<>> /\ seen[j] = <<>> /\ j \notin attached
  BY <1>1, <1>2 DEF Placed, Writing, Works, Remembers, Judging, HoldsProfile, Begun
<1>5. at'[j] = x /\ x \in Places
  BY <1>1, <1>3 DEF TypesInv, Places
<1>6. ~HoldsProfile(j)'
  BY <1>2 DEF HoldsProfile, Cycles
<1>7. Placed(j)' /\ Works(j)' /\ Remembers(j)'
  BY <1>2, <1>3, <1>4, <1>5 DEF Unwritten, Placed, Works, Remembers, Judging, Begun
<1> QED
  BY <1>1, <1>2, <1>3, <1>4, <1>5, <1>6, <1>7, QuietStep DEF TypesInv

\* A step on the way of a file, before it takes effect.
LEMMA UnderwayKeeps ==
  ASSUME StoreInv, NEW j \in Jobs, NEW y \in Stages, at[j] \in Writing, y # "load",
         stage' = [stage EXCEPT ![j] = y],
         at' = at /\ country' = country /\ made' = made /\ seen' = seen
           /\ running' = running /\ attached' = attached,
         unread' \in BOOLEAN, unread => unread',
         DOMAIN draft' = Jobs /\ \A i \in Jobs \ {j} : draft'[i] = draft[i],
         \A i \in Jobs \ {j} : WritesState(i) =>
           disk'[StateFile] = disk[StateFile] /\ tmp'[StateFile] = tmp[StateFile],
         Content(StateFile)' = Content(StateFile),
         WritesState(j)' => WritesState(j) \/ \A i \in Jobs \ {j} : ~WritesState(i),
         FilesInv', Drafted(j)'
  PROVE  StoreInv'
<1>1. /\ TypesInv /\ Placed(j) /\ Works(j) /\ Remembers(j)
  BY OneJob
<1>2. TypesInv'
  BY <1>1 DEF TypesInv
<1>3. Alone(j)
  BY <1>1 DEF Alone, Untouched, TypesInv
<1>4. ASSUME NEW i \in Jobs PROVE JudgesWhatIsStored(i) => JudgesWhatIsStored(i)'
  BY StoredViews
<1>5. \A i \in Jobs \ {j} : Spares(i)
  BY <1>4 DEF Spares
<1>6. HoldsProfile(j)' => HoldsProfile(j)
  BY DEF HoldsProfile
<1>7. stage'[j] = y
  BY <1>1 DEF TypesInv
<1>8. Placed(j)'
  BY <1>1, <1>7 DEF Placed
<1>9. Works(j)'
  BY <1>1 DEF Works, HoldsProfile
<1>10. Remembers(j)'
  BY <1>1, <1>4 DEF Remembers
<1>11. JobInv(j)'
  BY <1>8, <1>9, <1>10 DEF JobInv
<1> QED
  BY <1>2, <1>3, <1>5, <1>6, <1>11, OneJobKeeps

\* There is always something to record, to seed or to merge.
LEMMA UpdatesExist ==
  ASSUME NEW j \in Jobs, NEW content, at[j] \in Writing \ {"adopt", "add"}
  PROVE  /\ Updates(j, content) # {}
         /\ at[j] \in Updating => Updates(j, content) = StateUpdates(j, content)
<1>1. CASE at[j] = "record"
  <2>1. Updates(j, content) = Recorded(j, content)
    BY <1>1 DEF Updates
  <2>2. [burst |-> 0, active |-> FALSE] \in Schedules(content[ProfileOf[j]])
    BY DEF Schedules
  <2>3. Recorded(j, content) # {}
    BY <2>2 DEF Recorded
  <2> QED
    BY <1>1, <2>1, <2>3 DEF StateUpdates
<1>2. CASE at[j] = "seed"
  <2>1. Updates(j, content) = Seeded(j, content)
    BY <1>2 DEF Updates
  <2> QED
    BY <1>2, <2>1 DEF StateUpdates, Seeded
<1>3. CASE at[j] \in {"profilePool", "countryPool"}
  <2>1. Updates(j, content) = {Merge(Fresh[j], content)}
    BY <1>3 DEF Updates
  <2> QED
    BY <1>3, <2>1 DEF Updating
<1> QED
  BY <1>1, <1>2, <1>3 DEF Writing

\* The catalog stays a catalog.
LEMMA CatalogUpdates ==
  ASSUME TypesInv, NEW j \in Jobs, NEW content \in Catalogs, at[j] \in {"adopt", "add"},
         NEW new \in Updates(j, content)
  PROVE  new \in Catalogs
<1>1. country[j] \in Countries \cup {None}
  BY DEF TypesInv
<1>2. CASE at[j] = "adopt"
  <2>1. new \in Adopted(j, content)
    BY <1>2 DEF Updates
  <2>2. new = [content EXCEPT ![ProfileOf[j]] = country[j]]
    BY <2>1 DEF Adopted
  <2> QED
    BY <1>1, <2>2 DEF Catalogs
<1>3. CASE at[j] = "add"
  <2>1. new \in Added(content)
    BY <1>3 DEF Updates
  <2>2. new = [p \in Profiles |-> IF p \in Found /\ content[p] = Unlisted
                                   THEN None ELSE content[p]]
    BY <2>1 DEF Added
  <2> QED
    BY <2>2 DEF Catalogs
<1> QED
  BY <1>2, <1>3

\* What the lock on the state file gives: no other job is writing it.
LEMMA StateLockExcludes ==
  ASSUME NEW j \in Jobs, at[j] \in Updating \cup {"judge"}, ~Waits(j)
  PROVE  \A i \in Jobs \ {j} : ~WritesState(i)
BY DEF Waits, Holds, StateLock, Under, WritesState, Updating, Writing

LEMMA LoadKeeps == ASSUME StoreInv, NEW j \in Jobs, Load(j) PROVE StoreInv'
<1>1. /\ TypesInv /\ FilesInv /\ Placed(j) /\ Works(j) /\ Remembers(j)
  BY OneJob
<1>2. /\ at[j] \in Writing /\ stage[j] = "load" /\ ~Waits(j)
      /\ disk' = disk /\ tmp' = tmp /\ country' = country /\ seen' = seen
      /\ made' = made /\ running' = running /\ attached' = attached
      /\ touched' = touched /\ merged' = merged
  BY DEF Load
<1>3. PICK content \in {Content(FileOf(j)), Default(FileOf(j))} :
        /\ Read(FileOf(j), content)
        /\ IF Updates(j, content) = {}
             THEN /\ at' = [at EXCEPT ![j] = After(j)]
                  /\ UNCHANGED <<stage, draft>>
             ELSE /\ \E new \in Updates(j, content) : draft' = [draft EXCEPT ![j] = new]
                  /\ stage' = [stage EXCEPT ![j] = "open"]
                  /\ UNCHANGED at
  BY DEF Load
<1>4. /\ unread' \in BOOLEAN /\ (unread => unread')
      /\ content = Content(FileOf(j)) \/ (unread' /\ content = Default(FileOf(j)))
  <2>1. \/ content = Content(FileOf(j)) /\ unread' = unread
        \/ content = Default(FileOf(j)) /\ unread' = TRUE
    BY <1>3 DEF Read
  <2> QED
    BY <1>1, <2>1 DEF TypesInv
<1>5. CASE Updates(j, content) = {}
  <2>1. at[j] \in {"adopt", "add"} /\ UNCHANGED <<stage, draft>>
    BY <1>2, <1>3, <1>5, UpdatesExist
  <2>2. made[j] = <<>> /\ seen[j] = <<>>
    BY <1>1, <2>1 DEF Works, Remembers, Judging
  <2>3. PICK x \in {"profilePool", "done"} :
          /\ at' = [at EXCEPT ![j] = x]
          /\ \/ at[j] = "adopt" /\ x = "profilePool"
             \/ at[j] = "add" /\ x = "done"
    <3>1. at[j] = "adopt" => After(j) = "profilePool"
      BY DEF After
    <3>2. at[j] = "add" => After(j) = "done"
      BY DEF After
    <3>3. at' = [at EXCEPT ![j] = After(j)]
      BY <1>3, <1>5
    <3>4. CASE at[j] = "adopt"
      BY <3>1, <3>3, <3>4
    <3>5. CASE at[j] = "add"
      BY <3>2, <3>3, <3>5
    <3> QED
      BY <2>1, <3>4, <3>5
  <2>4. at'[j] = x /\ x \in Places
    BY <1>1, <2>3 DEF TypesInv, Places
  <2>5. /\ at[j] = "adopt" => KindOf[j] = "cycle" /\ HoldsProfile(j)
        /\ at[j] = "add" => KindOf[j] # "cycle" /\ ~HoldsProfile(j)
    BY <1>1 DEF Placed, HoldsProfile, Cycles, Begun, Places
  <2>6. HoldsProfile(j)' <=> HoldsProfile(j)
    BY <2>3, <2>4, <2>5 DEF HoldsProfile, Cycles, Begun, Places
  <2>7. Placed(j)'
    BY <1>1, <1>2, <2>1, <2>3, <2>4, <2>5 DEF Placed, Begun
  <2>8. Works(j)'
    BY <1>1, <1>2, <2>2, <2>4, <2>6 DEF Works
  <2>9. Remembers(j)'
    BY <1>2, <2>2, <2>4 DEF Remembers, Judging
  <2>10. UNCHANGED Unwritten
    BY <1>2, <2>1 DEF Unwritten
  <2>11. country' \in [Jobs -> Countries \cup {None}] /\ made' \in [Jobs -> Batches]
         /\ seen' \in [Jobs -> Seq(AnyView)] /\ attached' \subseteq Jobs
    BY <1>1, <1>2 DEF TypesInv
  <2> QED
    BY <1>2, <1>4, <2>3, <2>4, <2>6, <2>7, <2>8, <2>9, <2>10, <2>11, QuietStep
<1>6. CASE Updates(j, content) # {}
  <2>1. PICK new \in Updates(j, content) :
          /\ draft' = [draft EXCEPT ![j] = new]
          /\ stage' = [stage EXCEPT ![j] = "open"] /\ at' = at
    BY <1>3, <1>6
  <2>2. /\ draft'[j] = new /\ stage'[j] = "open" /\ DOMAIN draft' = Jobs
        /\ \A i \in Jobs \ {j} : draft'[i] = draft[i]
    BY <1>1, <2>1 DEF TypesInv
  <2>3. Content(StateFile)' = Content(StateFile) /\ FilesInv'
    BY <1>1, <1>2 DEF Content, Default, FilesInv
  <2>4. WritesState(j)' => \A i \in Jobs \ {j} : ~WritesState(i)
    <3>1. at[j] \in Updating => \A i \in Jobs \ {j} : ~WritesState(i)
      BY <1>2, StateLockExcludes
    <3> QED
      BY <2>1, <3>1 DEF WritesState
  <2>5. at[j] \in {"adopt", "add"} => new \in Catalogs
    <3> SUFFICES ASSUME at[j] \in {"adopt", "add"} PROVE new \in Catalogs
      OBVIOUS
    <3>1. FileOf(j) = CatalogFile
      BY <1>1, <1>2, FileOfIs
    <3>2. content \in Catalogs
      BY <1>1, <1>3, <3>1, ContentTyped, DefaultIs
    <3> QED
      BY <1>1, <3>2, CatalogUpdates
  <2>6. ASSUME at[j] \in Updating
        PROVE  \/ new \in StateUpdates(j, Content(StateFile))'
               \/ unread' /\ new \in StateUpdates(j, Default(StateFile))'
    <3>1. FileOf(j) = StateFile
      BY <1>1, <1>2, <2>6, FileOfIs
    <3>2. new \in StateUpdates(j, content)
      BY <1>2, <2>1, <2>6, UpdatesExist DEF Updating, Writing
    <3>3. /\ StateUpdates(j, Content(StateFile))' = StateUpdates(j, Content(StateFile))
          /\ StateUpdates(j, Default(StateFile))' = StateUpdates(j, Default(StateFile))
      BY <1>2, <2>1, <2>3 DEF StateUpdates, Recorded, Seeded, Default
    <3> QED
      BY <1>4, <3>1, <3>2, <3>3
  <2>7. Drafted(j)'
    BY <2>1, <2>2, <2>5, <2>6 DEF Drafted, WritesState
  <2>8. \A i \in Jobs \ {j} : WritesState(i) =>
          disk'[StateFile] = disk[StateFile] /\ tmp'[StateFile] = tmp[StateFile]
    BY <1>2
  <2>9. "open" \in Stages /\ "open" # "load"
    BY DEF Stages
  <2> QED
    BY <1>2, <1>4, <2>1, <2>2, <2>3, <2>4, <2>7, <2>8, <2>9, UnderwayKeeps
<1> QED
  BY <1>5, <1>6

LEMMA OpenKeeps == ASSUME StoreInv, NEW j \in Jobs, Open(j) PROVE StoreInv'
<1>1. /\ TypesInv /\ FilesInv /\ LocksInv /\ Placed(j) /\ Drafted(j)
  BY OneJob
<1>2. /\ stage[j] = "open" /\ tmp' = [tmp EXCEPT ![FileOf(j)] = Torn]
      /\ stage' = [stage EXCEPT ![j] = "fill"] /\ disk' = disk /\ at' = at
      /\ draft' = draft /\ country' = country /\ seen' = seen
      /\ made' = made /\ running' = running /\ attached' = attached /\ unread' = unread
  BY DEF Open
<1>3. at[j] \in Writing
  BY <1>1, <1>2 DEF Placed
<1>4. /\ FileOf(j) \in Files
      /\ FileOf(j) = StateFile <=> at[j] \in Updating
      /\ FileOf(j) = CatalogFile <=> at[j] \in {"adopt", "add"}
  BY <1>1, <1>3, FileOfIs
<1>5. WritesState(j) <=> FileOf(j) = StateFile
  BY <1>2, <1>4 DEF WritesState
<1>6. \A i \in Jobs \ {j} : WritesState(i) =>
        disk'[StateFile] = disk[StateFile] /\ tmp'[StateFile] = tmp[StateFile]
  BY <1>1, <1>2, <1>5, ConstantTypes DEF LocksInv, FilesInv
<1>7. Content(StateFile)' = Content(StateFile)
  BY <1>2 DEF Content, Default
<1>8. FilesInv'
  <2>1. tmp'[CatalogFile] \in {Absent, Torn} \/ tmp'[CatalogFile] \in Catalogs
    BY <1>1, <1>2, ConstantTypes DEF FilesInv
  <2> QED
    BY <1>1, <1>2, <2>1 DEF FilesInv
<1>9. Drafted(j)'
  <2>1. stage'[j] = "fill"
    BY <1>1, <1>2 DEF TypesInv
  <2>2. WritesState(j) => tmp'[StateFile] = Torn
    BY <1>1, <1>2, <1>4, <1>5 DEF FilesInv
  <2>3. /\ StateUpdates(j, Content(StateFile))' = StateUpdates(j, Content(StateFile))
        /\ StateUpdates(j, Default(StateFile))' = StateUpdates(j, Default(StateFile))
    BY <1>2, <1>7 DEF StateUpdates, Recorded, Seeded, Default
  <2>4. WritesState(j)' <=> WritesState(j)
    BY <1>2, <2>1 DEF WritesState
  <2> QED
    BY <1>1, <1>2, <2>1, <2>2, <2>3, <2>4 DEF Drafted
<1>10. /\ WritesState(j)' => WritesState(j)
       /\ DOMAIN draft' = Jobs
       /\ "fill" \in Stages /\ "fill" # "load" /\ unread' \in BOOLEAN
  BY <1>1, <1>2 DEF WritesState, TypesInv, Stages
<1> QED
  BY <1>2, <1>3, <1>6, <1>7, <1>8, <1>9, <1>10, UnderwayKeeps

\* The state file is never open for two, so what is filled is the temporary file.
LEMMA FillSparesState ==
  ASSUME StoreInv, NEW j \in Jobs, Fill(j)
  PROVE  disk'[StateFile] = disk[StateFile]
<1>1. /\ TypesInv /\ FilesInv /\ Placed(j) /\ Drafted(j) /\ stage[j] = "fill"
      /\ at[j] \in Writing
  BY OneJob DEF Fill, Placed
<1>2. \/ tmp[FileOf(j)] = Absent /\ disk' = [disk EXCEPT ![FileOf(j)] = draft[j]]
      \/ tmp[FileOf(j)] # Absent /\ disk' = disk
  BY DEF Fill
<1>3. CASE FileOf(j) = StateFile
  <2>1. WritesState(j)
    BY <1>1, <1>3, FileOfIs DEF WritesState
  <2>2. tmp[StateFile] = Torn
    BY <1>1, <2>1 DEF Drafted
  <2> QED
    BY <1>2, <1>3, <2>2, ConstantTypes
<1>4. CASE FileOf(j) # StateFile
  BY <1>1, <1>2, <1>4, ConstantTypes DEF FilesInv
<1> QED
  BY <1>3, <1>4

LEMMA FillKeeps == ASSUME StoreInv, NEW j \in Jobs, Fill(j) PROVE StoreInv'
<1>1. /\ TypesInv /\ FilesInv /\ LocksInv /\ Placed(j) /\ Drafted(j)
  BY OneJob
<1>2. /\ stage[j] = "fill" /\ stage' = [stage EXCEPT ![j] = "rename"] /\ at' = at
      /\ draft' = draft /\ country' = country /\ seen' = seen
      /\ made' = made /\ running' = running /\ attached' = attached /\ unread' = unread
  BY DEF Fill
<1>3. \/ /\ tmp[FileOf(j)] = Absent
         /\ disk' = [disk EXCEPT ![FileOf(j)] = draft[j]] /\ tmp' = tmp
      \/ /\ tmp[FileOf(j)] # Absent
         /\ tmp' = [tmp EXCEPT ![FileOf(j)] = draft[j]] /\ disk' = disk
  BY DEF Fill
<1>4. at[j] \in Writing
  BY <1>1, <1>2 DEF Placed
<1>5. /\ FileOf(j) \in Files
      /\ FileOf(j) = StateFile <=> at[j] \in Updating
      /\ FileOf(j) = CatalogFile <=> at[j] \in {"adopt", "add"}
  BY <1>1, <1>4, FileOfIs
<1>6. WritesState(j) <=> FileOf(j) = StateFile
  BY <1>2, <1>5 DEF WritesState
<1>7. disk'[StateFile] = disk[StateFile]
  BY FillSparesState
<1>8. \A i \in Jobs \ {j} : WritesState(i) =>
        disk'[StateFile] = disk[StateFile] /\ tmp'[StateFile] = tmp[StateFile]
  BY <1>1, <1>3, <1>6, <1>7, ConstantTypes DEF LocksInv, FilesInv
<1>9. Content(StateFile)' = Content(StateFile)
  BY <1>7 DEF Content, Default
<1>10. FilesInv'
  <2>1. at[j] \in {"adopt", "add"} => draft[j] \in Catalogs
    BY <1>1, <1>2 DEF Drafted
  <2>2. /\ tmp'[CatalogFile] \in {Absent, Torn} \/ tmp'[CatalogFile] \in Catalogs
        /\ disk'[CatalogFile] \in {Absent, Torn} \/ disk'[CatalogFile] \in Catalogs
    <3>1. CASE FileOf(j) = CatalogFile
      <4>1. draft[j] \in Catalogs
        BY <1>5, <2>1, <3>1
      <4>2. /\ disk'[CatalogFile] \in {disk[CatalogFile], draft[j]}
            /\ tmp'[CatalogFile] \in {tmp[CatalogFile], draft[j]}
        BY <1>1, <1>3, <3>1, ConstantTypes DEF FilesInv
      <4> QED
        BY <1>1, <4>1, <4>2 DEF FilesInv
    <3>2. CASE FileOf(j) # CatalogFile
      <4>1. disk'[CatalogFile] = disk[CatalogFile] /\ tmp'[CatalogFile] = tmp[CatalogFile]
        BY <1>1, <1>3, <3>2, ConstantTypes DEF FilesInv
      <4> QED
        BY <1>1, <4>1 DEF FilesInv
    <3> QED
      BY <3>1, <3>2
  <2>3. DOMAIN disk' = Files /\ DOMAIN tmp' = Files
    BY <1>1, <1>3 DEF FilesInv
  <2> QED
    BY <1>1, <1>7, <2>2, <2>3 DEF FilesInv
<1>11. stage'[j] = "rename"
  BY <1>1, <1>2 DEF TypesInv
<1>12. WritesState(j)' <=> WritesState(j)
  BY <1>2, <1>11 DEF WritesState
<1>13. Drafted(j)'
  <2>1. WritesState(j) => tmp'[StateFile] = draft[j]
    <3> SUFFICES ASSUME WritesState(j) PROVE tmp'[StateFile] = draft[j]
      OBVIOUS
    <3>1. FileOf(j) = StateFile /\ tmp[StateFile] = Torn
      BY <1>1, <1>2, <1>6 DEF Drafted
    <3> QED
      BY <1>1, <1>3, <3>1, ConstantTypes DEF FilesInv
  <2>2. /\ StateUpdates(j, Content(StateFile))' = StateUpdates(j, Content(StateFile))
        /\ StateUpdates(j, Default(StateFile))' = StateUpdates(j, Default(StateFile))
    BY <1>2, <1>9 DEF StateUpdates, Recorded, Seeded, Default
  <2> QED
    BY <1>1, <1>2, <1>11, <1>12, <2>1, <2>2 DEF Drafted
<1>14. /\ DOMAIN draft' = Jobs /\ "rename" \in Stages /\ "rename" # "load"
       /\ unread' \in BOOLEAN
  BY <1>1, <1>2 DEF TypesInv, Stages
<1> QED
  BY <1>2, <1>4, <1>8, <1>9, <1>10, <1>12, <1>13, <1>14, UnderwayKeeps

\* A replacement that is over, one way or the other.
LEMMA OverKeeps ==
  ASSUME StoreInv, NEW j \in Jobs, NEW x \in Places, at' = [at EXCEPT ![j] = x],
         stage' = [stage EXCEPT ![j] = "load"], draft' = [draft EXCEPT ![j] = None],
         country' = country /\ made' = made /\ seen' = seen
           /\ running' = running /\ attached' = attached /\ unread' = unread,
         \A i \in Jobs \ {j} : WritesState(i) =>
           disk'[StateFile] = disk[StateFile] /\ tmp'[StateFile] = tmp[StateFile],
         \A i \in Jobs \ {j} :
           ~unread /\ at[i] \in Judging /\ JudgesWhatIsStored(i) => JudgesWhatIsStored(i)',
         HoldsProfile(j)' => HoldsProfile(j),
         FilesInv', Placed(j)', Works(j)', Remembers(j)'
  PROVE  StoreInv'
<1>1. TypesInv
  BY OneJob
<1>2. TypesInv'
  BY <1>1 DEF TypesInv, Stages
<1>3. Alone(j)
  BY <1>1 DEF Alone, Untouched, TypesInv
<1>4. \A i \in Jobs \ {j} : Spares(i)
  BY DEF Spares
<1>5. stage'[j] = "load"
  BY <1>1 DEF TypesInv
<1>6. ~WritesState(j)' /\ Drafted(j)'
  BY <1>5 DEF WritesState, Drafted
<1>7. JobInv(j)'
  BY <1>6 DEF JobInv
<1> QED
  BY <1>2, <1>3, <1>4, <1>6, <1>7, OneJobKeeps

\* An exception leaves the files as they are.
LEMMA RaiseKeeps ==
  ASSUME StoreInv, NEW j \in Jobs, Raise(j), at[j] \in Begun \ {"stop", "release"}
  PROVE  StoreInv'
<1>1. /\ TypesInv /\ FilesInv /\ LocksInv /\ Placed(j) /\ Works(j) /\ Remembers(j)
      /\ KindOf[j] \in {"cycle", "seed", "discover"}
  BY OneJob
<1> DEFINE x == IF j \in Cycles THEN "stop" ELSE "done"
<1>2. /\ at' = [at EXCEPT ![j] = x]
      /\ stage' = [stage EXCEPT ![j] = "load"] /\ draft' = [draft EXCEPT ![j] = None]
      /\ disk' = disk /\ tmp' = tmp /\ country' = country /\ seen' = seen
      /\ made' = made /\ running' = running /\ attached' = attached /\ unread' = unread
  BY DEF Raise
<1>3. /\ j \in Cycles => x = "stop" /\ KindOf[j] = "cycle"
      /\ j \notin Cycles => x = "done" /\ KindOf[j] # "cycle"
      /\ x \in Places
  BY DEF Cycles, Places
<1> HIDE DEF x
<1>4. at'[j] = x /\ stage'[j] = "load"
  BY <1>1, <1>2 DEF TypesInv
<1>5. j \notin Cycles => at[j] \in {"seed", "add"}
  BY <1>1, <1>3 DEF Placed
<1>6. HoldsProfile(j)' <=> HoldsProfile(j)
  BY <1>3, <1>4, <1>5 DEF HoldsProfile, Begun, Places
<1>7. Placed(j)'
  BY <1>3, <1>4 DEF Placed, Begun
<1>8. Works(j)'
  BY <1>1, <1>2, <1>3, <1>4, <1>5, <1>6 DEF Works
<1>9. Remembers(j)'
  BY <1>1, <1>2, <1>3, <1>4, <1>5 DEF Remembers, Judging
<1>10. FilesInv'
  BY <1>1, <1>2 DEF FilesInv
<1>11. \A i \in Jobs \ {j} :
         ~unread /\ at[i] \in Judging /\ JudgesWhatIsStored(i) => JudgesWhatIsStored(i)'
  <2>1. Content(StateFile)' = Content(StateFile)
    BY <1>2 DEF Content, Default
  <2> QED
    BY <1>2, <2>1, StoredViews
<1> QED
  BY <1>2, <1>3, <1>6, <1>7, <1>8, <1>9, <1>10, <1>11, OverKeeps

\* A run that the history leaves out takes nothing from a view.
LEMMA ViewSurvives ==
  ASSUME NEW old, NEW new, NEW view, NEW n \in 1..5,
         new.calibrations = old.calibrations, new.burst = old.burst,
         new.active = old.active, Range(new.runs) \ Seeds \subseteq Range(old.runs) \ Seeds,
         StillStored(Views[n], view, View(Views[n], old))
  PROVE  StillStored(Views[n], view, View(Views[n], new))
<1>1. CASE n = 1
  <2>1. Views[n] = "history"
    BY <1>1 DEF Views
  <2>2. /\ View(Views[n], old) = [runs |-> Range(old.runs) \ Seeds,
                                 effective |-> Effective(old.calibrations)]
        /\ View(Views[n], new) = [runs |-> Range(new.runs) \ Seeds,
                                 effective |-> Effective(new.calibrations)]
    BY <2>1 DEF View
  <2> QED
    BY <2>1, <2>2 DEF StillStored
<1>2. CASE n # 1
  <2>1. Views[n] \in {"burst", "active", "attempts", "offset"}
    BY <1>2 DEF Views
  <2>2. View(Views[n], new) = View(Views[n], old)
    <3>1. CASE Views[n] = "burst"
      BY <3>1 DEF View
    <3>2. CASE Views[n] = "active"
      BY <3>2 DEF View, RecoveryActive
    <3>3. CASE Views[n] = "attempts"
      BY <3>3 DEF View
    <3>4. CASE Views[n] = "offset"
      BY <3>4 DEF View
    <3> QED
      BY <2>1, <3>1, <3>2, <3>3, <3>4
  <2> QED
    BY <2>2
<1> QED
  BY <1>1, <1>2

\* Where a finished update leads.
LEMMA AfterIs ==
  ASSUME NEW j \in Jobs, at[j] \in Writing
  PROVE  /\ at[j] \in {"adopt", "profilePool", "countryPool"} =>
              After(j) \in {"profilePool", "countryPool", "count"}
         /\ After(j) = "countryPool" => country[j] # None
         /\ at[j] = "record" => After(j) = "stop"
         /\ at[j] \in {"seed", "add"} => After(j) = "done"
<1>1. CASE at[j] = "adopt"
  BY <1>1 DEF After
<1>2. CASE at[j] = "profilePool"
  BY <1>2 DEF After
<1>3. CASE at[j] = "countryPool"
  BY <1>3 DEF After
<1>4. CASE at[j] = "record"
  BY <1>4 DEF After
<1>5. CASE at[j] \in {"seed", "add"}
  BY <1>5 DEF After
<1> QED
  BY <1>1, <1>2, <1>3, <1>4, <1>5 DEF Writing

\* What a replacement of the state file puts in its place.
LEMMA Replaced ==
  ASSUME StoreInv, NEW j \in Jobs, Rename(j), at[j] \in Updating
  PROVE  /\ disk' = [disk EXCEPT ![StateFile] = draft[j]]
         /\ draft[j] \in States /\ Content(StateFile)' = draft[j]
         /\ \/ draft[j] \in StateUpdates(j, Content(StateFile))
            \/ unread /\ draft[j] \in StateUpdates(j, Default(StateFile))
<1>1. /\ TypesInv /\ FilesInv /\ Placed(j) /\ Drafted(j) /\ stage[j] = "rename"
      /\ disk' = [disk EXCEPT ![FileOf(j)] = tmp[FileOf(j)]]
  BY OneJob DEF Rename
<1>2. FileOf(j) = StateFile
  BY <1>1, FileOfIs DEF Updating, Writing
<1>3. tmp[StateFile] = draft[j]
  BY <1>1 DEF Drafted, WritesState
<1>4. \/ draft[j] \in StateUpdates(j, Content(StateFile))
      \/ unread /\ draft[j] \in StateUpdates(j, Default(StateFile))
  BY <1>1 DEF Drafted, WritesState
<1>5. Content(StateFile) \in States /\ Default(StateFile) \in States
  BY <1>1, ContentTyped, DefaultIs
<1>6. ASSUME NEW state \in States, draft[j] \in StateUpdates(j, state)
      PROVE  draft[j] \in States
  <2>1. CASE at[j] = "record"
    <3>1. draft[j] \in Recorded(j, state) /\ made[j] \in Batches
      BY <1>1, <1>6, <2>1 DEF StateUpdates, TypesInv
    <3> QED
      BY <3>1, RecordedUpdates
  <2>2. CASE at[j] = "seed"
    <3>1. draft[j] \in Seeded(j, state)
      BY <1>6, <2>2 DEF StateUpdates
    <3> QED
      BY <3>1, SeededUpdates
  <2> QED
    BY <2>1, <2>2 DEF Updating
<1>7. draft[j] \in States
  BY <1>4, <1>5, <1>6
<1>8. disk' = [disk EXCEPT ![StateFile] = draft[j]]
  BY <1>1, <1>2, <1>3
<1>9. disk'[StateFile] = draft[j]
  BY <1>1, <1>8, ConstantTypes DEF FilesInv
<1>10. Content(StateFile)' = draft[j]
  BY <1>7, <1>9, ConstantTypes DEF Content
<1> QED
  BY <1>4, <1>7, <1>8, <1>10

LEMMA RenameKeeps == ASSUME StoreInv, NEW j \in Jobs, Rename(j) PROVE StoreInv'
<1>1. /\ TypesInv /\ FilesInv /\ LocksInv /\ Placed(j) /\ Drafted(j) /\ Works(j)
      /\ Remembers(j) /\ ProfileOf[j] \in Profiles
  BY OneJob
<1>2. /\ stage[j] = "rename" /\ tmp[FileOf(j)] # Absent
      /\ disk' = [disk EXCEPT ![FileOf(j)] = tmp[FileOf(j)]]
      /\ tmp' = [tmp EXCEPT ![FileOf(j)] = Absent]
      /\ at' = [at EXCEPT ![j] = After(j)] /\ stage' = [stage EXCEPT ![j] = "load"]
      /\ draft' = [draft EXCEPT ![j] = None] /\ country' = country /\ seen' = seen
      /\ made' = made /\ running' = running /\ attached' = attached /\ unread' = unread
  BY DEF Rename
<1>3. at[j] \in Writing
  BY <1>1, <1>2 DEF Placed
<1>4. /\ FileOf(j) \in Files
      /\ FileOf(j) = StateFile <=> at[j] \in Updating
      /\ FileOf(j) = CatalogFile <=> at[j] \in {"adopt", "add"}
  BY <1>1, <1>3, FileOfIs
<1>5. WritesState(j) <=> FileOf(j) = StateFile
  BY <1>2, <1>4 DEF WritesState
<1>6. \A i \in Jobs \ {j} : WritesState(i) =>
        disk'[StateFile] = disk[StateFile] /\ tmp'[StateFile] = tmp[StateFile]
  BY <1>1, <1>2, <1>5, ConstantTypes DEF LocksInv, FilesInv
<1>7. FilesInv'
  <2>1. disk'[StateFile] \in {Absent, Torn} \/ disk'[StateFile] \in States
    <3>1. CASE at[j] \in Updating
      BY <1>1, <3>1, Replaced, ConstantTypes DEF FilesInv
    <3>2. CASE at[j] \notin Updating
      <4>1. disk'[StateFile] = disk[StateFile]
        BY <1>1, <1>2, <1>4, <3>2, ConstantTypes DEF FilesInv
      <4> QED
        BY <1>1, <4>1 DEF FilesInv
    <3> QED
      BY <3>1, <3>2
  <2>2. /\ disk'[CatalogFile] \in {disk[CatalogFile], tmp[CatalogFile]}
        /\ tmp'[CatalogFile] \in {tmp[CatalogFile], Absent}
    BY <1>1, <1>2, <1>4, ConstantTypes DEF FilesInv
  <2>3. DOMAIN disk' = Files /\ DOMAIN tmp' = Files
    BY <1>1, <1>2 DEF FilesInv
  <2> QED
    BY <1>1, <2>1, <2>2, <2>3 DEF FilesInv
<1>8. ASSUME NEW i \in Jobs \ {j}, ~unread, at[i] \in Judging, JudgesWhatIsStored(i)
      PROVE  JudgesWhatIsStored(i)'
  <2>1. CASE at[j] \notin Updating
    <3>1. disk'[StateFile] = disk[StateFile]
      BY <1>1, <1>2, <1>4, <2>1, ConstantTypes DEF FilesInv
    <3>2. Content(StateFile)' = Content(StateFile)
      BY <3>1 DEF Content, Default
    <3> QED
      BY <1>2, <1>8, <3>2, StoredViews
  <2>2. CASE at[j] \in Updating
    <3>1. /\ draft[j] \in States /\ Content(StateFile)' = draft[j]
          /\ draft[j] \in StateUpdates(j, Content(StateFile))
      BY <1>8, <2>2, Replaced
    <3>2. Content(StateFile) \in States
      BY <1>1, ContentTyped
    <3>3. /\ Placed(i) /\ Remembers(i) /\ ProfileOf[i] \in Profiles
          /\ seen[i] \in Seq(AnyView)
      BY <1>1, OneJob DEF TypesInv
    <3>4. Len(seen[i]) <= 5 /\ DOMAIN seen[i] \subseteq 1..5
      BY <1>8, <3>3 DEF Remembers
    <3>5. HoldsProfile(i)
      BY <1>8, <3>3 DEF Placed, Judging, Begun, Places, HoldsProfile, Cycles
    <3> DEFINE p == ProfileOf[i]
               old == Content(StateFile)[p]
               new == draft[j][p]
    <3>6. \/ new = old
          \/ /\ new.calibrations = old.calibrations
             /\ new.burst = old.burst /\ new.active = old.active
             /\ Range(new.runs) \ Seeds \subseteq Range(old.runs) \ Seeds
      <4>1. CASE at[j] = "record"
        <5>1. HoldsProfile(j)
          BY <1>1, <4>1 DEF Placed, Begun, Places, HoldsProfile, Cycles
        <5>2. p # ProfileOf[j]
          BY <1>1, <3>5, <5>1 DEF LocksInv
        <5>3. draft[j] \in Recorded(j, Content(StateFile)) /\ made[j] \in Batches
          BY <1>1, <3>1, <4>1 DEF StateUpdates, TypesInv
        <5> QED
          BY <3>2, <3>3, <5>2, <5>3, RecordedUpdates
      <4>2. CASE at[j] = "seed"
        <5>1. j \in Seeds
          BY <1>1, <4>2 DEF Placed, Seeds
        <5>2. draft[j] \in Seeded(j, Content(StateFile))
          BY <3>1, <4>2 DEF StateUpdates
        <5>3. /\ new.calibrations = old.calibrations
              /\ new.burst = old.burst /\ new.active = old.active
              /\ Range(new.runs) \subseteq Range(old.runs) \cup {j}
          <6>1. \A q \in Profiles :
                  /\ draft[j][q].calibrations = Content(StateFile)[q].calibrations
                  /\ draft[j][q].burst = Content(StateFile)[q].burst
                  /\ draft[j][q].active = Content(StateFile)[q].active
                  /\ Range(draft[j][q].runs) \subseteq
                       Range(Content(StateFile)[q].runs) \cup {j}
            <7>1. PICK state \in States : state = Content(StateFile)
              BY <3>2
            <7>2. PICK next \in Seeded(j, state) : next = draft[j]
              BY <5>2, <7>1
            <7>3. ASSUME NEW q \in Profiles
                  PROVE  /\ next[q].calibrations = state[q].calibrations
                         /\ next[q].burst = state[q].burst
                         /\ next[q].active = state[q].active
                         /\ Range(next[q].runs) \subseteq Range(state[q].runs) \cup {j}
              BY SeededUpdates
            <7> QED
              BY <7>1, <7>2, <7>3
          <6> QED
            BY <3>3, <6>1
        <5> QED
          BY <5>1, <5>3
      <4> QED
        BY <2>2, <4>1, <4>2 DEF Updating
    <3> HIDE DEF old, new
    <3>7. ASSUME NEW n \in DOMAIN seen[i]
          PROVE  StillStored(Views[n], seen[i][n], View(Views[n], new))
      <4>1. n \in 1..5 /\ StillStored(Views[n], seen[i][n], View(Views[n], old))
        BY <1>8, <3>4 DEF JudgesWhatIsStored, old
      <4> QED
        BY <3>6, <4>1, ViewSurvives
    <3> QED
      BY <1>2, <3>1, <3>7 DEF JudgesWhatIsStored, new
  <2> QED
    BY <2>1, <2>2
<1>9. /\ at[j] \in {"adopt", "profilePool", "countryPool"} =>
           After(j) \in {"profilePool", "countryPool", "count"}
      /\ After(j) = "countryPool" => country[j] # None
      /\ at[j] = "record" => After(j) = "stop"
      /\ at[j] \in {"seed", "add"} => After(j) = "done"
  BY <1>3, AfterIs
<1>10. at'[j] = After(j) /\ stage'[j] = "load" /\ After(j) \in Places
  BY <1>1, <1>2, <1>3, <1>9 DEF TypesInv, Writing, Places
<1>11. /\ at[j] \in {"seed", "add"} => KindOf[j] # "cycle"
       /\ at[j] \in Writing \ {"seed", "add"} => KindOf[j] = "cycle"
  BY <1>1 DEF Placed, Writing, Begun, Places
<1>12. HoldsProfile(j)' <=> HoldsProfile(j)
  BY <1>3, <1>9, <1>10, <1>11 DEF HoldsProfile, Cycles, Begun, Places, Writing
<1>13. Placed(j)'
  BY <1>2, <1>3, <1>9, <1>10, <1>11 DEF Placed, Begun, Writing
<1>14. Works(j)'
  BY <1>1, <1>2, <1>3, <1>9, <1>10, <1>12 DEF Works, Writing
<1>15. Remembers(j)'
  BY <1>1, <1>2, <1>3, <1>9, <1>10 DEF Remembers, Judging, Writing
<1> QED
  BY <1>2, <1>6, <1>7, <1>8, <1>10, <1>12, <1>13, <1>14, <1>15, OverKeeps

\* The faults.
LEMMA FaultKeeps ==
  ASSUME StoreInv, NEW j \in Jobs, RenameFails(j) \/ WriteFails(j) \/ CycleRaises(j)
  PROVE  StoreInv'
<1>1. Placed(j) /\ Raise(j)
  BY OneJob DEF RenameFails, WriteFails, CycleRaises
<1>2. stage[j] # "load" \/ at[j] \in {"collect", "count", "judge", "calibrate"}
  BY DEF RenameFails, WriteFails, CycleRaises
<1>3. at[j] \in Begun \ {"stop", "release"}
  BY <1>1, <1>2 DEF Placed, Writing, Begun, Places
<1> QED
  BY <1>1, <1>3, RaiseKeeps

\* The kill of a process frees its locks and leaves the files as they are.
LEMMA KillKeeps == ASSUME StoreInv, NEW process, Kill(process) PROVE StoreInv'
<1> DEFINE jobs == {j \in Jobs : ProcessOf[j] = process /\ at[j] \in Begun}
<1>1. TypesInv /\ FilesInv /\ LocksInv
  BY DEF StoreInv
<1>2. /\ at' = [j \in Jobs |-> IF j \in jobs THEN "idle" ELSE at[j]]
      /\ stage' = [j \in Jobs |-> IF j \in jobs THEN "load" ELSE stage[j]]
      /\ draft' = [j \in Jobs |-> IF j \in jobs THEN None ELSE draft[j]]
      /\ attached' = attached \ jobs /\ Forget(jobs)
      /\ disk' = disk /\ tmp' = tmp /\ running' = running /\ unread' = unread
  BY DEF Kill
<1>3. jobs \in SUBSET Jobs
  OBVIOUS
<1> HIDE DEF jobs
<1>4. /\ country' \in [Jobs -> Countries \cup {None}] /\ made' \in [Jobs -> Batches]
      /\ seen' \in [Jobs -> Seq(AnyView)]
      /\ \A i \in jobs : made'[i] = <<>> /\ seen'[i] = <<>>
      /\ \A i \in Jobs \ jobs :
           country'[i] = country[i] /\ made'[i] = made[i] /\ seen'[i] = seen[i]
  BY <1>1, <1>2, <1>3, Forgotten
<1>5. TypesInv'
  BY <1>1, <1>2, <1>4 DEF TypesInv, Places, Stages
<1>6. FilesInv'
  BY <1>1, <1>2 DEF FilesInv
<1>7. \A i \in jobs : at'[i] = "idle" /\ stage'[i] = "load" /\ i \notin attached'
  BY <1>2, <1>3
<1>8. \A i \in Jobs \ jobs : Untouched(i)
  BY <1>2, <1>4 DEF Untouched
<1>9. LocksInv'
  <2>1. ASSUME NEW i \in Jobs
        PROVE  /\ HoldsProfile(i)' => HoldsProfile(i)
               /\ WritesState(i)' => WritesState(i)
    BY <1>7, <1>8 DEF Untouched, HoldsProfile, WritesState, Begun
  <2> QED
    BY <1>1, <2>1 DEF LocksInv
<1>10. ASSUME NEW i \in Jobs PROVE JobInv(i)'
  <2>1. CASE i \in jobs
    <3>1. Placed(i)'
      BY <1>7, <2>1 DEF Placed, Begun
    <3>2. Drafted(i)'
      BY <1>7, <2>1 DEF Drafted, WritesState
    <3>3. Works(i)'
      BY <1>4, <1>7, <2>1 DEF Works
    <3>4. Remembers(i)'
      BY <1>4, <1>7, <2>1 DEF Remembers, Judging
    <3> QED
      BY <3>1, <3>2, <3>3, <3>4 DEF JobInv
  <2>2. CASE i \notin jobs
    <3>1. Untouched(i) /\ JobInv(i)
      BY <1>8, <2>2 DEF StoreInv
    <3>2. Content(StateFile)' = Content(StateFile)
      BY <1>2 DEF Content, Default
    <3>3. JudgesWhatIsStored(i) => JudgesWhatIsStored(i)'
      BY <3>1, <3>2, StoredViews DEF Untouched
    <3>4. Spares(i)
      BY <1>2, <3>3 DEF Spares
    <3> QED
      BY <3>1, <3>4, OthersKeep
  <2> QED
    BY <2>1, <2>2
<1> QED
  BY <1>5, <1>6, <1>9, <1>10 DEF StoreInv

LEMMA InitStore == ASSUME Init PROVE StoreInv
<1>1. \A j \in Jobs : at[j] \in {"idle", "done"}
  BY DEF Init
<1>2. at \in [Jobs -> Places]
  BY DEF Init, Places
<1>3. /\ stage = [j \in Jobs |-> "load"] /\ draft = [j \in Jobs |-> None]
      /\ country = [j \in Jobs |-> None] /\ seen = [j \in Jobs |-> <<>>]
      /\ made = [j \in Jobs |-> <<>>] /\ attached = {} /\ unread = FALSE
      /\ disk = [f \in Files |-> IF f = CatalogFile THEN Catalog ELSE Absent]
      /\ tmp = [f \in Files |-> Absent]
  BY DEF Init
<1>4. <<>> \in Seq(AnyView) /\ <<>> \in Batches
  BY DEF Batches
<1>5. TypesInv
  BY <1>2, <1>3, <1>4 DEF TypesInv, Stages
<1>6. FilesInv
  BY <1>3, ConstantTypes DEF FilesInv
<1>7. LocksInv
  BY <1>1, <1>3 DEF LocksInv, HoldsProfile, WritesState, Begun
<1>8. ASSUME NEW j \in Jobs PROVE JobInv(j)
  BY <1>1, <1>3 DEF JobInv, Placed, Drafted, Works, Remembers, WritesState, Begun, Judging
<1> QED
  BY <1>5, <1>6, <1>7, <1>8 DEF StoreInv

LEMMA StepStore == ASSUME StoreInv, [Next]_vars PROVE StoreInv'
<1>1. ASSUME NEW j \in Jobs,
             \/ StartCycle(j) \/ StartSeed(j) \/ StartDiscovery(j)
             \/ Proceed(j) \/ WriteFails(j) \/ CycleRaises(j)
      PROVE  StoreInv'
  <2>1. CASE StartCycle(j) \/ StartSeed(j) \/ StartDiscovery(j)
    BY <2>1, StartCycleKeeps, StartSeedKeeps, StartDiscoveryKeeps
  <2>2. CASE RenameFails(j) \/ WriteFails(j) \/ CycleRaises(j)
    BY <2>2, FaultKeeps
  <2>3. CASE Load(j) \/ Open(j) \/ Fill(j) \/ Rename(j)
    BY <2>3, LoadKeeps, OpenKeeps, FillKeeps, RenameKeeps
  <2>4. CASE Collect(j) \/ Count(j) \/ Judge(j) \/ Calibrate(j)
    BY <2>4, CollectKeeps, CountKeeps, JudgeKeeps, CalibrateKeeps
  <2>5. CASE Stop(j) \/ Release(j)
    BY <2>5, StopKeeps, ReleaseKeeps
  <2> QED
    BY <1>1, <2>1, <2>2, <2>3, <2>4, <2>5 DEF Proceed
<1>2. ASSUME NEW process, Kill(process) PROVE StoreInv'
  BY <1>2, KillKeeps
<1>3. CASE UNCHANGED vars
  <2>1. TypesInv' /\ FilesInv'
    BY <1>3 DEF StoreInv, TypesInv, FilesInv, vars
  <2>2. LocksInv'
    BY <1>3 DEF StoreInv, LocksInv, HoldsProfile, WritesState, vars
  <2>3. ASSUME NEW i \in Jobs PROVE JobInv(i)'
    <3>1. Untouched(i) /\ JobInv(i) /\ seen'[i] = seen[i]
      BY <1>3 DEF StoreInv, Untouched, vars
    <3>2. Content(StateFile)' = Content(StateFile)
      BY <1>3 DEF Content, Default, vars
    <3>3. JudgesWhatIsStored(i) => JudgesWhatIsStored(i)'
      BY <3>1, <3>2, StoredViews
    <3>4. Spares(i)
      BY <1>3, <3>3 DEF Spares, vars
    <3> QED
      BY <3>1, <3>4, OthersKeep
  <2> QED
    BY <2>1, <2>2, <2>3 DEF StoreInv
<1> QED
  BY <1>1, <1>2, <1>3 DEF Next

-----------------------------------------------------------------------------
(* The results.                                                            *)

LEMMA StoreInvariant == Spec => []StoreInv
<1>1. Init => StoreInv
  BY InitStore
<1>2. StoreInv /\ [Next]_vars => StoreInv'
  BY StepStore
<1> QED
  BY <1>1, <1>2, PTL DEF Spec

\* While a cycle works, nobody stops its browser, and between its evaluation and the
\* record of its run its profile's state in the file is what it has read, up to runs
\* that its history leaves out: for any number of cycles, seeded baselines, processes
\* and kills (FileLock, FileStateStore and stop_profile).
THEOREM CyclesOwnTheirProfiles == Spec => []CycleOwnsItsProfile
<1>1. StoreInv => CycleOwnsItsProfile
  <2> SUFFICES ASSUME StoreInv PROVE CycleOwnsItsProfile
    OBVIOUS
  <2>1. \A j \in Jobs : Works(j) /\ Remembers(j)
    BY DEF StoreInv, JobInv
  <2>2. attached \subseteq Jobs /\ Cycles \subseteq Jobs
    BY DEF StoreInv, TypesInv, Cycles
  <2>3. OwnsItsBrowser
    BY <2>1, <2>2 DEF OwnsItsBrowser, Works
  <2>4. ASSUME ~unread, NEW j \in Cycles, at[j] \in {"judge", "calibrate", "record"}
        PROVE  JudgesWhatIsStored(j)
    BY <2>1, <2>2, <2>4 DEF Remembers, Judging
  <2> QED
    BY <2>3, <2>4 DEF CycleOwnsItsProfile
<1> QED
  BY <1>1, StoreInvariant, PTL

-----------------------------------------------------------------------------
(* The state file as a journal.                                            *)

Pending == {j \in Jobs : at[j] \in {"record", "seed"}}
JournalStep == [Shared!JournalNext]_(Shared!journalVars)

\* A step that neither asks for an update nor ends one, and may fail to read the file.
LEMMA Nothing ==
  ASSUME Content(StateFile)' = Content(StateFile), Pending' = Pending,
         unread' = unread \/ unread' = TRUE
  PROVE  JournalStep
<1>1. CASE unread' = unread
  BY <1>1 DEF JournalStep, Shared!journalVars, Pending
<1>2. CASE unread' = TRUE
  <2>1. Shared!CannotRead
    BY <1>2 DEF Shared!CannotRead, Pending
  <2> QED
    BY <2>1 DEF JournalStep, Shared!JournalNext
<1> QED
  BY <1>1, <1>2

LEMMA Asking ==
  ASSUME NEW j \in Jobs, j \notin Pending, Pending' = Pending \cup {j},
         Content(StateFile)' = Content(StateFile), unread' = unread \/ unread' = TRUE
  PROVE  JournalStep
<1>1. Shared!Ask(j)
  BY DEF Shared!Ask, Pending
<1> QED
  BY <1>1 DEF JournalStep, Shared!JournalNext

LEMMA Losing ==
  ASSUME NEW jobs, Pending' = Pending \ jobs,
         Content(StateFile)' = Content(StateFile), unread' = unread
  PROVE  JournalStep
<1> DEFINE lost == jobs \cap Pending
<1>1. CASE lost = {}
  <2>1. Pending' = Pending
    BY <1>1
  <2> QED
    BY <2>1, Nothing
<1>2. CASE lost # {}
  <2>1. lost \in SUBSET Pending /\ Pending' = Pending \ lost
    OBVIOUS
  <2> HIDE DEF lost
  <2>2. \E some \in SUBSET Pending : Shared!Lose(some)
    BY <1>2, <2>1 DEF Shared!Lose, Pending
  <2> QED
    BY <2>2 DEF JournalStep, Shared!JournalNext, Pending
<1> QED
  BY <1>1, <1>2

\* What one job's move does to the updates that are pending.
LEMMA PendingMoves ==
  ASSUME TypesInv, NEW j \in Jobs, NEW x, at' = [at EXCEPT ![j] = x]
  PROVE  /\ x \in Updating => Pending' = Pending \cup {j}
         /\ x \notin Updating => Pending' = Pending \ {j}
         /\ j \in Pending <=> at[j] \in Updating
<1>1. at'[j] = x /\ \A i \in Jobs \ {j} : at'[i] = at[i]
  BY DEF TypesInv
<1>2. j \in Pending <=> at[j] \in Updating
  BY DEF Pending, Updating
<1>3. ASSUME x \in Updating PROVE Pending' = Pending \cup {j}
  BY <1>1, <1>3 DEF Pending, Updating
<1>4. ASSUME x \notin Updating PROVE Pending' = Pending \ {j}
  BY <1>1, <1>4 DEF Pending, Updating
<1> QED
  BY <1>2, <1>3, <1>4

\* A replacement files the update on what the file held, or starts it over.
LEMMA RenameFiles == ASSUME StoreInv, NEW j \in Jobs, Rename(j) PROVE JournalStep
<1>1. /\ TypesInv /\ FilesInv /\ Placed(j) /\ ProfileOf[j] \in Profiles
      /\ stage[j] = "rename" /\ at[j] \in Writing
  BY OneJob DEF Rename, Placed
<1>2. /\ at' = [at EXCEPT ![j] = After(j)] /\ unread' = unread
      /\ disk' = [disk EXCEPT ![FileOf(j)] = tmp[FileOf(j)]]
  BY DEF Rename
<1>3. After(j) \notin Updating
  BY <1>1, AfterIs DEF Writing, Updating
<1>4. Pending' = Pending \ {j} /\ (j \in Pending <=> at[j] \in Updating)
  BY <1>1, <1>2, <1>3, PendingMoves
<1>5. CASE at[j] \notin Updating
  <2>1. FileOf(j) # StateFile /\ FileOf(j) \in Files
    BY <1>1, <1>5, FileOfIs
  <2>2. disk'[StateFile] = disk[StateFile]
    BY <1>1, <1>2, <2>1, ConstantTypes DEF FilesInv
  <2>3. Content(StateFile)' = Content(StateFile)
    BY <2>2 DEF Content, Default
  <2>4. Pending' = Pending
    BY <1>4, <1>5
  <2> QED
    BY <1>2, <2>3, <2>4, Nothing
<1>6. CASE at[j] \in Updating
  <2>1. /\ Content(StateFile)' = draft[j]
        /\ \/ draft[j] \in StateUpdates(j, Content(StateFile))
           \/ unread /\ draft[j] \in StateUpdates(j, Default(StateFile))
    BY <1>6, Replaced
  <2>2. ASSUME NEW state \in States, draft[j] \in StateUpdates(j, state)
        PROVE  \E record \in Shared!Filed(j, state[ProfileOf[j]]) :
                 draft[j] = [state EXCEPT ![ProfileOf[j]] = record]
    <3>1. CASE at[j] = "record"
      <4>1. draft[j] \in Recorded(j, state) /\ made[j] \in Batches
        BY <1>1, <2>2, <3>1 DEF StateUpdates, TypesInv
      <4>2. j \notin Seeds
        BY <1>1, <3>1 DEF Placed, Seeds, Begun, Places
      <4> QED
        BY <4>1, <4>2, RecordedUpdates
    <3>2. CASE at[j] = "seed"
      <4>1. draft[j] \in Seeded(j, state)
        BY <2>2, <3>2 DEF StateUpdates
      <4>2. j \in Seeds
        BY <1>1, <3>2 DEF Placed, Seeds
      <4> QED
        BY <4>1, <4>2, SeededUpdates
    <3> QED
      BY <1>6, <3>1, <3>2 DEF Updating
  <2>3. j \in Pending /\ Pending' = Pending \ {j} /\ unread' = unread
    BY <1>2, <1>4, <1>6
  <2>4. CASE draft[j] \in StateUpdates(j, Content(StateFile))
    <3>1. Content(StateFile) \in States
      BY <1>1, ContentTyped
    <3>2. \E record \in Shared!Filed(j, Content(StateFile)[ProfileOf[j]]) :
            Content(StateFile)' = [Content(StateFile) EXCEPT ![ProfileOf[j]] = record]
      BY <2>1, <2>2, <2>4, <3>1
    <3>3. Shared!File(j)
      BY <2>3, <3>2 DEF Shared!File, Shared!Put, Pending
    <3> QED
      BY <3>3 DEF JournalStep, Shared!JournalNext
  <2>5. CASE unread /\ draft[j] \in StateUpdates(j, Default(StateFile))
    <3>1. Default(StateFile) \in States
          /\ Default(StateFile) = [p \in Profiles |-> Shared!Blank]
      BY DefaultIs DEF Blank, Shared!Blank
    <3>2. \E record \in Shared!Filed(j, Default(StateFile)[ProfileOf[j]]) :
            Content(StateFile)' = [Default(StateFile) EXCEPT ![ProfileOf[j]] = record]
      BY <2>1, <2>2, <2>5, <3>1
    <3>3. Shared!StartOver(j)
      BY <2>3, <2>5, <3>1, <3>2 DEF Shared!StartOver, Shared!Put, Pending
    <3> QED
      BY <3>3 DEF JournalStep, Shared!JournalNext
  <2> QED
    BY <2>1, <2>4, <2>5
<1> QED
  BY <1>5, <1>6

LEMMA OneJobFiles ==
  ASSUME StoreInv, NEW j \in Jobs,
         \/ StartCycle(j) \/ StartSeed(j) \/ StartDiscovery(j)
         \/ Proceed(j) \/ WriteFails(j) \/ CycleRaises(j)
  PROVE  JournalStep
<1>1. TypesInv /\ FilesInv /\ Placed(j)
  BY OneJob
<1>2. ASSUME NEW x, at' = [at EXCEPT ![j] = x], at[j] \notin Updating,
             disk'[StateFile] = disk[StateFile], unread' = unread \/ unread' = TRUE
      PROVE  JournalStep
  <2>1. Content(StateFile)' = Content(StateFile)
    BY <1>2 DEF Content, Default
  <2>2. CASE x \in Updating
    BY <1>1, <1>2, <2>1, <2>2, PendingMoves, Asking
  <2>3. CASE x \notin Updating
    <3>1. Pending' = Pending
      BY <1>1, <1>2, <2>3, PendingMoves
    <3> QED
      BY <1>2, <2>1, <3>1, Nothing
  <2> QED
    BY <2>2, <2>3
<1>3. ASSUME at' = at, disk'[StateFile] = disk[StateFile], unread' = unread \/ unread' = TRUE
      PROVE  JournalStep
  <2>1. Content(StateFile)' = Content(StateFile) /\ Pending' = Pending
    BY <1>3 DEF Content, Default, Pending
  <2> QED
    BY <1>3, <2>1, Nothing
<1>4. CASE StartCycle(j)
  <2>1. PICK x \in {"refused", "collect"} : at' = [at EXCEPT ![j] = x]
    BY <1>4 DEF StartCycle
  <2>2. at[j] = "idle" /\ disk' = disk /\ unread' = unread
    BY <1>4 DEF StartCycle, Unwritten
  <2> QED
    BY <1>2, <2>1, <2>2 DEF Updating
<1>5. CASE StartSeed(j)
  BY <1>2, <1>5 DEF StartSeed, Unwritten, Updating
<1>6. CASE StartDiscovery(j)
  <2>1. PICK x \in {"add", "done"} : at' = [at EXCEPT ![j] = x]
    BY <1>6 DEF StartDiscovery
  <2>2. at[j] = "idle" /\ disk' = disk /\ unread' = unread
    BY <1>6 DEF StartDiscovery, Unwritten
  <2> QED
    BY <1>2, <2>1, <2>2 DEF Updating
<1>7. CASE Load(j)
  <2>1. /\ disk' = disk /\ at[j] \in Writing
        /\ \E content \in {Content(FileOf(j)), Default(FileOf(j))} :
             /\ unread' = unread \/ unread' = TRUE
             /\ \/ at' = at
                \/ Updates(j, content) = {} /\ at' = [at EXCEPT ![j] = After(j)]
    BY <1>7 DEF Load, Read
  <2>2. CASE at' = at
    BY <1>3, <2>1, <2>2
  <2>3. CASE at' # at
    <3>1. at[j] \in {"adopt", "add"} /\ at' = [at EXCEPT ![j] = After(j)]
      BY <2>1, <2>3, UpdatesExist
    <3> QED
      BY <1>2, <2>1, <3>1 DEF Updating
  <2> QED
    BY <2>2, <2>3
<1>8. CASE Open(j)
  BY <1>3, <1>8 DEF Open
<1>9. CASE Fill(j)
  <2>1. at' = at /\ unread' = unread
    BY <1>9 DEF Fill
  <2> QED
    BY <1>3, <1>9, <2>1, FillSparesState
<1>10. CASE Rename(j)
  BY <1>10, RenameFiles
<1>11. CASE RenameFails(j) \/ WriteFails(j) \/ CycleRaises(j)
  <2>1. Raise(j)
    BY <1>11 DEF RenameFails, WriteFails, CycleRaises
  <2>2. PICK x \in {"stop", "done"} : at' = [at EXCEPT ![j] = x]
    BY <2>1 DEF Raise
  <2>3. disk' = disk /\ unread' = unread
    BY <2>1 DEF Raise
  <2>4. Content(StateFile)' = Content(StateFile)
    BY <2>3 DEF Content, Default
  <2>5. Pending' = Pending \ {j}
    BY <1>1, <2>2, PendingMoves DEF Updating
  <2> QED
    BY <2>3, <2>4, <2>5, Losing
<1>12. CASE Collect(j)
  <2>1. PICK x \in {"adopt", "profilePool"} : at' = [at EXCEPT ![j] = x]
    BY <1>12 DEF Collect
  <2>2. at[j] = "collect" /\ disk' = disk /\ unread' = unread
    BY <1>12 DEF Collect, Unwritten
  <2> QED
    BY <1>2, <2>1, <2>2 DEF Updating
<1>13. CASE Count(j)
  BY <1>2, <1>13 DEF Count, Unwritten, Updating
<1>14. CASE Judge(j)
  <2>1. \/ at' = at \/ at' = [at EXCEPT ![j] = "record"]
        \/ at' = [at EXCEPT ![j] = "calibrate"]
    BY <1>14 DEF Judge
  <2>2. at[j] = "judge" /\ disk' = disk /\ (unread' = unread \/ unread' = TRUE)
    BY <1>14 DEF Judge, Read, Unwritten
  <2> QED
    BY <1>2, <1>3, <2>1, <2>2 DEF Updating
<1>15. CASE Calibrate(j)
  BY <1>2, <1>15 DEF Calibrate, Unwritten, Updating
<1>16. CASE Stop(j)
  BY <1>2, <1>16 DEF Stop, Unwritten, Updating
<1>17. CASE Release(j)
  BY <1>2, <1>17 DEF Release, Unwritten, Updating
<1> QED
  BY <1>4, <1>5, <1>6, <1>7, <1>8, <1>9, <1>10, <1>11, <1>12, <1>13, <1>14, <1>15, <1>16,
     <1>17 DEF Proceed

LEMMA KillLoses == ASSUME NEW process, TypesInv, Kill(process) PROVE JournalStep
<1> DEFINE jobs == {j \in Jobs : ProcessOf[j] = process /\ at[j] \in Begun}
<1>1. /\ at' = [j \in Jobs |-> IF j \in jobs THEN "idle" ELSE at[j]]
      /\ disk' = disk /\ unread' = unread
  BY DEF Kill
<1> HIDE DEF jobs
<1>2. Pending' = Pending \ jobs
  BY <1>1 DEF Pending
<1>3. Content(StateFile)' = Content(StateFile)
  BY <1>1 DEF Content, Default
<1> QED
  BY <1>1, <1>2, <1>3, Losing

\* Whatever the commands do to state.json, and wherever they are killed, is an update
\* of one profile's record filed once and whole on top of all before it, a lost update,
\* or a fresh start after a read that failed: the safety of the abstract journal, for
\* any number of commands in any number of processes (the two locks of FileStateStore
\* around load, change and save, and the rename of the temporary file).
THEOREM StateFileIsAJournal == Spec => Shared!JournalSafety
<1>1. Init => Shared!JournalInit
  <2> SUFFICES ASSUME Init PROVE Shared!JournalInit
    OBVIOUS
  <2>1. disk[StateFile] = Absent
    BY ConstantTypes DEF Init
  <2>2. Content(StateFile) = [p \in Profiles |-> Shared!Blank]
    BY <2>1, DefaultIs DEF Content, Blank, Shared!Blank
  <2>3. \A j \in Jobs : at[j] \in {"idle", "done"}
    BY DEF Init
  <2>4. {j \in Jobs : at[j] \in {"record", "seed"}} = {} /\ unread = FALSE
    BY <2>3 DEF Init
  <2> QED
    BY <2>2, <2>4 DEF Shared!JournalInit
<1>2. StoreInv /\ [Next]_vars => [Shared!JournalNext]_(Shared!journalVars)
  <2> SUFFICES ASSUME StoreInv, [Next]_vars PROVE JournalStep
    BY DEF JournalStep
  <2>1. CASE UNCHANGED vars
    <3>1. Content(StateFile)' = Content(StateFile) /\ Pending' = Pending /\ unread' = unread
      BY <2>1 DEF vars, Content, Default, Pending
    <3> QED
      BY <3>1, Nothing
  <2>2. CASE Next
    BY <2>2, OneJobFiles, KillLoses DEF Next, StoreInv
  <2> QED
    BY <2>1, <2>2
<1> QED
  BY <1>1, <1>2, StoreInvariant, PTL DEF Spec, Shared!JournalSafety

-----------------------------------------------------------------------------
(* What a merge keeps.  The loop of merge_calibration_ads is followed turn by   *)
(* turn: the set of the numbers of turns after which a statement holds has 0    *)
(* and with each number the next one.                                           *)

\* What a pool file holds: ads that can be opened, one for each key, no more than the
\* limit.
GoodPools ==
  {s \in Seq(Ads) :
     /\ Len(s) <= PoolLimit
     /\ \A i \in 1..Len(s) : s[i] \in Direct
     /\ \A i, k \in 1..Len(s) : KeyOf[s[i]] = KeyOf[s[k]] => i = k}

\* Every set of naturals that is not empty has a least element.
LEMMA LeastNumber ==
  ASSUME NEW T \in SUBSET Nat, T # {}
  PROVE  \E m \in T : \A k \in T : ~(k < m)
<1> DEFINE R == OpToRel(<, Nat)
<1>1. IsWellFoundedOn(R, Nat)
  BY NatLessThanWellFounded
<1>2. \A m, k \in Nat : k < m => <<k, m>> \in R
  BY DEF OpToRel
<1> HIDE DEF R
<1>3. \E m \in T : \A k \in T : <<k, m>> \notin R
  BY <1>1, WFMin
<1> QED
  BY <1>2, <1>3

\* A set that holds 0 and with each number the next one holds them all.
LEMMA InductionOnNat ==
  ASSUME NEW T, 0 \in T, \A n \in Nat : n \in T => n + 1 \in T
  PROVE  Nat \subseteq T
<1> SUFFICES ASSUME Nat \ T # {} PROVE FALSE
  OBVIOUS
<1>1. PICK m \in Nat \ T : \A k \in Nat \ T : ~(k < m)
  BY LeastNumber
<1>2. m # 0 /\ m - 1 \in Nat /\ m - 1 < m /\ m = (m - 1) + 1
  BY <1>1
<1> QED
  BY <1>1, <1>2

\* One turn of the loop of merge_calibration_ads.
Turn(ad, kept) ==
  IF ad \in Direct /\ KeyOf[ad] \notin KeysOf(Range(kept)) /\ Len(kept) < PoolLimit
    THEN Append(kept, ad) ELSE kept
Merges(f, ads) ==
  f = [n \in 0..Len(ads) |-> IF n = 0 THEN <<>> ELSE Turn(ads[n], f[n - 1])]

LEMMA MergeIs ==
  ASSUME NEW fresh, NEW pool
  PROVE  Merge(fresh, pool) = (CHOOSE f : Merges(f, fresh \o pool))[Len(fresh \o pool)]
BY DEF Merge, Merges, Turn

\* What the loop has after n turns.
Result(ads, n) ==
  {s \in GoodPools :
     \A i \in 1..n : ads[i] \in Direct =>
       (\E k \in 1..Len(s) : KeyOf[s[k]] = KeyOf[ads[i]]) \/ Len(s) = PoolLimit}

LEMMA EmptyResult ==
  ASSUME NEW ads
  PROVE  <<>> \in Result(ads, 0)
<1>1. PoolLimit \in Nat
  BY StoreAssumption
<1>2. <<>> \in Seq(Ads) /\ Len(<<>>) = 0
  OBVIOUS
<1>3. <<>> \in GoodPools
  BY <1>1, <1>2 DEF GoodPools
<1> QED
  BY <1>3 DEF Result

\* A turn adds an ad that is new, or the ad was there, or the pool is full.
LEMMA TurnResult ==
  ASSUME NEW ads, NEW n \in Nat, NEW s \in Result(ads, n), ads[n + 1] \in Ads
  PROVE  Turn(ads[n + 1], s) \in Result(ads, n + 1)
<1> DEFINE ad == ads[n + 1]
<1>1. /\ PoolLimit \in Nat /\ s \in Seq(Ads) /\ Len(s) \in Nat /\ Len(s) <= PoolLimit
      /\ DOMAIN s = 1..Len(s)
      /\ \A i \in 1..Len(s) : s[i] \in Direct
      /\ \A i, k \in 1..Len(s) : KeyOf[s[i]] = KeyOf[s[k]] => i = k
  BY StoreAssumption DEF Result, GoodPools
<1>a. Len(s) < PoolLimit \/ Len(s) = PoolLimit
  <2>1. PoolLimit \in Nat /\ Len(s) \in Nat /\ Len(s) <= PoolLimit
    BY <1>1
  <2> QED
    BY <2>1
<1>b. Len(s) < PoolLimit => Len(s) # PoolLimit
  <2>1. PoolLimit \in Nat /\ Len(s) \in Nat
    BY <1>1
  <2> QED
    BY <2>1
<1>2. \A i \in 1..n : ads[i] \in Direct =>
        (\E k \in 1..Len(s) : KeyOf[s[k]] = KeyOf[ads[i]]) \/ Len(s) = PoolLimit
  BY DEF Result
<1>3. KeyOf[ad] \in KeysOf(Range(s)) <=> \E k \in 1..Len(s) : KeyOf[s[k]] = KeyOf[ad]
  BY <1>1 DEF KeysOf, Range
<1>4. \A i \in 1..(n + 1) : i \in 1..n \/ i = n + 1
  OBVIOUS
<1>5. CASE /\ ad \in Direct /\ Len(s) < PoolLimit
           /\ \A k \in 1..Len(s) : KeyOf[s[k]] # KeyOf[ad]
  <2> DEFINE t == Append(s, ad)
  <2>1. Turn(ad, s) = t
    BY <1>3, <1>5 DEF Turn
  <2>2. /\ t \in Seq(Ads) /\ Len(t) = Len(s) + 1
        /\ \A i \in 1..Len(s) : t[i] = s[i]
        /\ t[Len(s) + 1] = ad
    BY <1>1
  <2> HIDE DEF t
  <2>3. \A i \in 1..Len(t) : i \in 1..Len(s) \/ i = Len(s) + 1
    BY <1>1, <2>2
  <2>4. \A i \in 1..Len(t) : t[i] \in Direct
    BY <1>1, <1>5, <2>2, <2>3
  <2>5. ASSUME NEW i \in 1..Len(t), NEW k \in 1..Len(t), KeyOf[t[i]] = KeyOf[t[k]]
        PROVE  i = k
    <3>1. CASE i \in 1..Len(s) /\ k \in 1..Len(s)
      BY <1>1, <2>2, <2>5, <3>1
    <3>2. CASE i \in 1..Len(s) /\ k = Len(s) + 1
      BY <1>5, <2>2, <2>5, <3>2
    <3>3. CASE i = Len(s) + 1 /\ k \in 1..Len(s)
      BY <1>5, <2>2, <2>5, <3>3
    <3> QED
      BY <2>3, <3>1, <3>2, <3>3
  <2>6. Len(t) <= PoolLimit
    BY <1>1, <1>5, <2>2
  <2>7. t \in GoodPools
    BY <2>2, <2>4, <2>5, <2>6 DEF GoodPools
  <2>8. ASSUME NEW i \in 1..(n + 1), ads[i] \in Direct
        PROVE  (\E k \in 1..Len(t) : KeyOf[t[k]] = KeyOf[ads[i]]) \/ Len(t) = PoolLimit
    <3>1. CASE i \in 1..n
      <4>1. PICK k \in 1..Len(s) : KeyOf[s[k]] = KeyOf[ads[i]]
        BY <1>b, <1>2, <1>5, <2>8, <3>1
      <4>2. k \in 1..Len(t) /\ t[k] = s[k]
        BY <1>1, <2>2
      <4> QED
        BY <4>1, <4>2
    <3>2. CASE i = n + 1
      <4>1. Len(s) + 1 \in 1..Len(t) /\ t[Len(s) + 1] = ads[i]
        BY <1>1, <2>2, <3>2
      <4> QED
        BY <4>1
    <3> QED
      BY <1>4, <3>1, <3>2
  <2> QED
    BY <2>1, <2>7, <2>8 DEF Result
<1>6. CASE ~(/\ ad \in Direct /\ Len(s) < PoolLimit
             /\ \A k \in 1..Len(s) : KeyOf[s[k]] # KeyOf[ad])
  <2>1. Turn(ad, s) = s
    BY <1>3, <1>6 DEF Turn
  <2>2. ad \in Direct =>
          (\E k \in 1..Len(s) : KeyOf[s[k]] = KeyOf[ad]) \/ Len(s) = PoolLimit
    BY <1>a, <1>6, Zenon
  <2>3. \A i \in 1..(n + 1) : ads[i] \in Direct =>
          (\E k \in 1..Len(s) : KeyOf[s[k]] = KeyOf[ads[i]]) \/ Len(s) = PoolLimit
    BY <1>2, <1>4, <2>2
  <2>4. s \in GoodPools
    BY DEF Result
  <2> QED
    BY <2>1, <2>3, <2>4 DEF Result
<1> QED
  BY <1>5, <1>6

\* There is a run of the loop.
LEMMA MergeExists ==
  ASSUME NEW ads, Len(ads) \in Nat
  PROVE  \E f : Merges(f, ads)
<1> DEFINE L == Len(ads)
           Upto(n, g) ==
             g = [i \in 0..n |-> IF i = 0 THEN <<>> ELSE Turn(ads[i], g[i - 1])]
           T == {n \in Nat : \E g : Upto(n, g)}
<1> HIDE DEF Upto
<1>0. \A n \in Nat : n \in T <=> \E g : Upto(n, g)
  OBVIOUS
<1> HIDE DEF T
<1>1. 0 \in T
  <2>1. Upto(0, [i \in 0..0 |-> <<>>])
    BY DEF Upto
  <2> QED
    BY <1>0, <2>1
<1>2. ASSUME NEW n \in Nat, n \in T PROVE n + 1 \in T
  <2>1. PICK g : Upto(n, g)
    BY <1>0, <1>2
  <2> DEFINE h == [i \in 0..(n + 1) |->
                     IF i = n + 1 THEN Turn(ads[n + 1], g[n]) ELSE g[i]]
  <2>2. \A i \in 0..n : g[i] = IF i = 0 THEN <<>> ELSE Turn(ads[i], g[i - 1])
    BY <2>1 DEF Upto
  <2>3. ASSUME NEW i \in 0..(n + 1)
        PROVE  h[i] = IF i = 0 THEN <<>> ELSE Turn(ads[i], h[i - 1])
    <3>1. CASE i = n + 1
      <4>1. i # 0 /\ i - 1 = n /\ n \in 0..(n + 1) /\ n # n + 1
        BY <3>1
      <4>2. h[n] = g[n] /\ h[i] = Turn(ads[n + 1], g[n])
        BY <3>1, <4>1
      <4> QED
        BY <3>1, <4>1, <4>2
    <3>2. CASE i # n + 1
      <4>1. i \in 0..n /\ h[i] = g[i]
        BY <3>2
      <4>2. CASE i = 0
        BY <2>2, <4>1, <4>2
      <4>3. CASE i # 0
        <5>1. i - 1 \in 0..(n + 1) /\ i - 1 # n + 1
          BY <4>1, <4>3
        <5>2. h[i - 1] = g[i - 1]
          BY <5>1
        <5> QED
          BY <2>2, <4>1, <4>3, <5>2
      <4> QED
        BY <4>2, <4>3
    <3> QED
      BY <3>1, <3>2
  <2>4. h = [i \in 0..(n + 1) |-> h[i]]
    OBVIOUS
  <2> HIDE DEF h
  <2>5. Upto(n + 1, h)
    BY <2>3, <2>4 DEF Upto
  <2> QED
    BY <1>0, <2>5
<1>3. L \in T
  BY <1>1, <1>2, InductionOnNat
<1> QED
  BY <1>0, <1>3 DEF Upto, Merges

\* What a merge gives: a pool, in which every ad that can be opened has its key.
LEMMA MergeGives ==
  ASSUME NEW fresh \in Seq(Ads), NEW pool \in Seq(Ads)
  PROVE  LET ads == fresh \o pool
         IN  Merge(fresh, pool) \in Result(ads, Len(ads))
<1> DEFINE ads == fresh \o pool
           f == CHOOSE f : Merges(f, ads)
           T == {n \in Nat : n <= Len(ads) => f[n] \in Result(ads, n)}
<1>1. ads \in Seq(Ads) /\ Len(ads) \in Nat /\ \A i \in 1..Len(ads) : ads[i] \in Ads
  OBVIOUS
<1>2. Merge(fresh, pool) = f[Len(ads)]
  BY MergeIs
<1> HIDE DEF ads
<1>3. Merges(f, ads)
  <2>1. \E g : Merges(g, ads)
    BY <1>1, MergeExists
  <2> QED
    BY <2>1
<1> HIDE DEF f
<1>4. \A n \in 0..Len(ads) : f[n] = IF n = 0 THEN <<>> ELSE Turn(ads[n], f[n - 1])
  BY <1>3 DEF Merges
<1>5. \A n \in Nat : n \in T <=> (n <= Len(ads) => f[n] \in Result(ads, n))
  OBVIOUS
<1> HIDE DEF T
<1>6. 0 \in T
  BY <1>1, <1>4, <1>5, EmptyResult
<1>7. ASSUME NEW n \in Nat, n \in T PROVE n + 1 \in T
  <2> SUFFICES ASSUME n + 1 <= Len(ads) PROVE f[n + 1] \in Result(ads, n + 1)
    BY <1>5
  <2>1. f[n] \in Result(ads, n)
    BY <1>1, <1>5, <1>7
  <2>2. n + 1 \in 0..Len(ads) /\ n + 1 # 0 /\ (n + 1) - 1 = n /\ n + 1 \in 1..Len(ads)
    BY <1>1
  <2>3. f[n + 1] = Turn(ads[n + 1], f[n])
    BY <1>4, <2>2
  <2>4. ads[n + 1] \in Ads
    BY <1>1, <2>2
  <2> QED
    BY <2>1, <2>3, <2>4, TurnResult
<1>8. Len(ads) \in T
  BY <1>1, <1>6, <1>7, InductionOnNat
<1> QED
  BY <1>1, <1>2, <1>5, <1>8 DEF ads

\* A merge keeps what can be opened of both, or fills the pool.
LEMMA MergeKeeps ==
  ASSUME NEW fresh \in Seq(Ads), NEW pool \in GoodPools
  PROVE  LET new == Merge(fresh, pool)
         IN  /\ new \in GoodPools
             /\ \/ KeysOf(Range(fresh) \cap Direct) \subseteq KeysOf(Range(new))
                \/ Len(new) = PoolLimit
             /\ KeysOf(Range(pool)) \subseteq KeysOf(Range(new)) \/ Len(new) = PoolLimit
<1> DEFINE new == Merge(fresh, pool)
           ads == fresh \o pool
<1>1. /\ pool \in Seq(Ads) /\ Len(pool) \in Nat /\ Len(fresh) \in Nat
      /\ DOMAIN pool = 1..Len(pool) /\ DOMAIN fresh = 1..Len(fresh)
      /\ \A i \in 1..Len(pool) : pool[i] \in Direct
  BY DEF GoodPools
<1>2. /\ Len(ads) = Len(fresh) + Len(pool)
      /\ \A i \in 1..Len(fresh) : ads[i] = fresh[i]
      /\ \A i \in 1..Len(pool) : ads[Len(fresh) + i] = pool[i]
  BY <1>1
<1>3. new \in Result(ads, Len(ads))
  BY <1>1, MergeGives
<1> HIDE DEF new, ads
<1>4. /\ new \in GoodPools /\ DOMAIN new = 1..Len(new)
      /\ \A i \in 1..Len(ads) : ads[i] \in Direct =>
           (\E k \in 1..Len(new) : KeyOf[new[k]] = KeyOf[ads[i]]) \/ Len(new) = PoolLimit
  <2>1. new \in GoodPools /\ new \in Seq(Ads)
    BY <1>3 DEF Result, GoodPools
  <2> QED
    BY <1>3, <2>1 DEF Result
<1>5. ASSUME Len(new) # PoolLimit, NEW a \in Range(fresh) \cap Direct
      PROVE  KeyOf[a] \in KeysOf(Range(new))
  <2>1. PICK i \in 1..Len(fresh) : a = fresh[i]
    BY <1>1 DEF Range
  <2>2. i \in 1..Len(ads) /\ ads[i] = a
    BY <1>1, <1>2, <2>1
  <2>3. PICK k \in 1..Len(new) : KeyOf[new[k]] = KeyOf[a]
    BY <1>4, <1>5, <2>2
  <2> QED
    BY <1>4, <2>3 DEF KeysOf, Range
<1>6. ASSUME Len(new) # PoolLimit, NEW a \in Range(pool)
      PROVE  KeyOf[a] \in KeysOf(Range(new))
  <2>1. PICK i \in 1..Len(pool) : a = pool[i]
    BY <1>1 DEF Range
  <2>2. Len(fresh) + i \in 1..Len(ads)
    BY <1>1, <1>2, <2>1
  <2>3. ads[Len(fresh) + i] = a /\ a \in Direct
    BY <1>1, <1>2, <2>1
  <2>4. PICK k \in 1..Len(new) : KeyOf[new[k]] = KeyOf[a]
    BY <1>4, <1>6, <2>2, <2>3
  <2> QED
    BY <1>4, <2>4 DEF KeysOf, Range
<1>7. Len(new) # PoolLimit =>
        /\ KeysOf(Range(fresh) \cap Direct) \subseteq KeysOf(Range(new))
        /\ KeysOf(Range(pool)) \subseteq KeysOf(Range(new))
  BY <1>5, <1>6 DEF KeysOf
<1> QED
  BY <1>4, <1>7 DEF new

\* A pool that has the key of every ad of a full one is full.
LEMMA FullStaysFull ==
  ASSUME NEW s \in GoodPools, NEW t \in GoodPools, Len(s) = PoolLimit,
         KeysOf(Range(s)) \subseteq KeysOf(Range(t))
  PROVE  Len(t) = PoolLimit
<1>1. /\ PoolLimit \in Nat /\ Len(s) \in Nat /\ Len(t) \in Nat /\ Len(t) <= PoolLimit
      /\ DOMAIN s = 1..Len(s) /\ DOMAIN t = 1..Len(t)
      /\ \A i, k \in 1..Len(s) : KeyOf[s[i]] = KeyOf[s[k]] => i = k
  BY StoreAssumption DEF GoodPools
<1> DEFINE S == 1..Len(s)
           T == 1..Len(t)
           place == [i \in S |-> CHOOSE k \in T : KeyOf[t[k]] = KeyOf[s[i]]]
<1>2. ASSUME NEW i \in S PROVE \E k \in T : KeyOf[t[k]] = KeyOf[s[i]]
  <2>1. KeyOf[s[i]] \in KeysOf(Range(s))
    BY <1>1 DEF KeysOf, Range
  <2>2. KeyOf[s[i]] \in KeysOf(Range(t))
    BY <2>1
  <2> QED
    BY <1>1, <2>2 DEF KeysOf, Range
<1>3. \A i \in S : place[i] \in T /\ KeyOf[t[place[i]]] = KeyOf[s[i]]
  BY <1>2
<1>4. place \in [S -> T]
  BY <1>3
<1>5. \A i, k \in S : place[i] = place[k] => i = k
  <2> SUFFICES ASSUME NEW i \in S, NEW k \in S, place[i] = place[k] PROVE i = k
    OBVIOUS
  <2>1. KeyOf[s[i]] = KeyOf[s[k]]
    <3> HIDE DEF place
    <3> QED
      BY <1>3
  <2> QED
    BY <1>1, <2>1
<1> HIDE DEF place
<1>6. place \in Injection(S, T)
  BY <1>4, <1>5 DEF Injection, IsInjective
<1>7. /\ IsFiniteSet(T) /\ Cardinality(T) = Len(t) /\ Cardinality(S) = Len(s)
  <2>1. 1 \in Int /\ Len(s) \in Int /\ Len(t) \in Int
    BY <1>1
  <2>2. /\ IsFiniteSet(T) /\ Cardinality(T) = IF 1 > Len(t) THEN 0 ELSE Len(t) - 1 + 1
        /\ Cardinality(S) = IF 1 > Len(s) THEN 0 ELSE Len(s) - 1 + 1
    BY <2>1, FS_Interval
  <2> QED
    BY <1>1, <2>2
<1>8. Cardinality(S) <= Cardinality(T)
  BY <1>6, <1>7, FS_Injection
<1>9. PoolLimit \in Nat /\ Len(t) \in Nat /\ Len(t) <= PoolLimit /\ Len(s) <= Len(t)
  BY <1>1, <1>7, <1>8
<1> QED
  BY <1>9

(* The inductive invariant of the files that only a lock of the process guards.  *)

PoolFiles == Profiles \cup Countries

PoolsInv ==
  /\ DOMAIN touched = Files /\ \A f \in Files : IsFiniteSet(touched[f])
  /\ merged \subseteq Jobs \X Files
  /\ \A f \in PoolFiles : /\ disk[f] \in {Absent, Torn} \/ disk[f] \in GoodPools
                          /\ tmp[f] \in {Absent, Torn} \/ tmp[f] \in GoodPools

\* The locks of a process are held by one of its threads at a time.
LocksHeld == \A i, j \in Jobs : Holds(i) /\ Holds(j) /\ ProcessLocks(i, j) => i = j

\* What a thread is going to write is up to date unless another process has opened
\* the file since.
Current(j) ==
  /\ at[j] = "adopt" => country[j] # None
  /\ at[j] \in Pools /\ stage[j] # "load" => draft[j] \in GoodPools
  /\ stage[j] \in {"fill", "rename"} => ProcessOf[j] \in touched[FileOf(j)]
  /\ /\ ~unread /\ stage[j] # "load" /\ at[j] \notin Updating
     /\ touched[FileOf(j)] \subseteq {ProcessOf[j]}
     => /\ draft[j] \in Updates(j, Content(FileOf(j)))
        /\ stage[j] = "fill" => tmp[FileOf(j)] = Torn
        /\ stage[j] = "rename" => tmp[FileOf(j)] = draft[j]

\* A finished update is still there as long as one process has opened the file.
Kept(j, f) ==
  ~unread /\ f # StateFile =>
    \A process : touched[f] \subseteq {process} => StillThere(j, f)

KeptInv ==
  /\ PoolsInv /\ LocksHeld /\ \A j \in Jobs : Current(j)
  /\ \A u \in merged : Kept(u[1], u[2])

-----------------------------------------------------------------------------
LEMMA PathsAre ==
  /\ \A f \in Files : f = StateFile \/ f = CatalogFile \/ f \in PoolFiles
  /\ PoolFiles \subseteq Files /\ StateFile \notin PoolFiles /\ CatalogFile \notin PoolFiles
  /\ StateFile # CatalogFile
  /\ None \notin Countries /\ Unlisted \notin Countries /\ None # Unlisted
  /\ \A lost \in {Absent, Torn} : lost \notin Catalogs /\ lost \notin Seq(Ads)
  /\ \A j \in Jobs : Fresh[j] \in Seq(Ads)
<1>1. /\ \A f \in Files : f = StateFile \/ f = CatalogFile \/ f \in PoolFiles
      /\ PoolFiles \subseteq Files
  BY DEF Files, PoolFiles
<1>2. StateFile \notin PoolFiles /\ CatalogFile \notin PoolFiles /\ StateFile # CatalogFile
  BY ConstantTypes DEF PoolFiles
<1>3. None \notin Countries /\ Unlisted \notin Countries /\ None # Unlisted
  BY StoreAssumption
<1>4. \A lost \in {Absent, Torn} : lost \notin Catalogs /\ lost \notin Seq(Ads)
  BY StoreAssumption DEF Catalogs
<1>5. \A j \in Jobs : Fresh[j] \in Seq(Ads)
  BY StoreAssumption
<1> QED
  BY <1>1, <1>2, <1>3, <1>4, <1>5

\* A missing or unreadable pool is an empty one.
LEMMA PoolContent ==
  ASSUME PoolsInv, NEW f \in PoolFiles
  PROVE  Content(f) \in GoodPools /\ Default(f) \in GoodPools
<1>1. f # StateFile /\ f # CatalogFile
  BY PathsAre
<1>2. Default(f) = <<>>
  BY <1>1 DEF Default
<1>3. <<>> \in GoodPools
  BY EmptyResult DEF Result
<1> QED
  BY <1>2, <1>3 DEF Content, PoolsInv

\* What is written is read again.
LEMMA ContentNext ==
  ASSUME NEW f \in Files, disk'[f] \in GoodPools \/ disk'[f] \in Catalogs
  PROVE  Content(f)' = disk'[f]
<1>1. GoodPools \subseteq Seq(Ads)
  BY DEF GoodPools
<1> QED
  BY <1>1, PathsAre DEF Content

LEMMA ContentSame ==
  ASSUME NEW f, disk'[f] = disk[f]
  PROVE  Content(f)' = Content(f)
BY DEF Content, Default

\* A finished update as a fact about the content of its file.
Still(j, f, content) ==
  IF f = CatalogFile
    THEN IF j \in Cycles THEN content[ProfileOf[j]] \notin {None, Unlisted}
         ELSE \A p \in Found : content[p] # Unlisted
    ELSE \/ KeysOf(Range(Fresh[j]) \cap Direct) \subseteq KeysOf(Range(content))
         \/ Len(content) = PoolLimit

LEMMA StillThereIs ==
  ASSUME NEW j, NEW f, f # StateFile
  PROVE  /\ StillThere(j, f) <=> Still(j, f, Content(f))
         /\ StillThere(j, f)' <=> Still(j, f, Content(f)')
<1>1. StillThere(j, f) <=> Still(j, f, Content(f))
  BY DEF StillThere, Still
<1>2. StillThere(j, f)' <=> Still(j, f, Content(f)')
  BY DEF StillThere, Still
<1> QED
  BY <1>1, <1>2

\* An update of the catalog keeps what was adopted and added before, and what it is
\* about.
LEMMA CatalogKeeps ==
  ASSUME TypesInv, NEW i \in Jobs, Placed(i), Current(i), at[i] \in {"adopt", "add"},
         NEW content \in Catalogs, NEW new \in Updates(i, content)
  PROVE  /\ \A j \in Jobs : Still(j, CatalogFile, content) => Still(j, CatalogFile, new)
         /\ Still(i, CatalogFile, new)
<1>1. /\ \A j \in Jobs : ProfileOf[j] \in Profiles
      /\ Found \subseteq Profiles
      /\ None \notin Countries /\ Unlisted \notin Countries /\ None # Unlisted
  BY ConstantTypes, PathsAre, StoreAssumption
<1>2. CASE at[i] = "adopt"
  <2>1. /\ content[ProfileOf[i]] = None
        /\ new = [content EXCEPT ![ProfileOf[i]] = country[i]]
    BY <1>2 DEF Updates, Adopted
  <2>2. country[i] \in Countries /\ i \in Cycles
    BY <1>2 DEF Current, TypesInv, Placed, Cycles, Begun, Places
  <2>3. /\ new[ProfileOf[i]] = country[i]
        /\ \A p \in Profiles : p # ProfileOf[i] => new[p] = content[p]
    BY <1>1, <2>1 DEF Catalogs
  <2>4. \A p \in Profiles : content[p] \notin {None, Unlisted} => new[p] \notin {None, Unlisted}
    BY <1>1, <2>1, <2>2, <2>3
  <2>5. \A p \in Profiles : content[p] # Unlisted => new[p] # Unlisted
    BY <1>1, <2>1, <2>2, <2>3
  <2>6. new[ProfileOf[i]] \notin {None, Unlisted}
    BY <1>1, <2>2, <2>3
  <2> QED
    BY <1>1, <2>2, <2>4, <2>5, <2>6 DEF Still
<1>3. CASE at[i] = "add"
  <2>1. new = [p \in Profiles |-> IF p \in Found /\ content[p] = Unlisted
                                    THEN None ELSE content[p]]
    BY <1>3 DEF Updates, Added
  <2>2. i \notin Cycles
    BY <1>3 DEF Placed, Cycles
  <2>3. \A p \in Profiles : content[p] \notin {None, Unlisted} => new[p] \notin {None, Unlisted}
    BY <2>1
  <2>4. \A p \in Found : new[p] # Unlisted
    BY <1>1, <2>1
  <2> QED
    BY <1>1, <2>2, <2>3, <2>4 DEF Still
<1> QED
  BY <1>2, <1>3

\* The same of a pool.
LEMMA PoolKeeps ==
  ASSUME NEW i \in Jobs, at[i] \in Pools, NEW f \in PoolFiles,
         NEW content \in GoodPools, NEW new \in Updates(i, content)
  PROVE  /\ new \in GoodPools
         /\ \A j \in Jobs : Still(j, f, content) => Still(j, f, new)
         /\ Still(i, f, new)
<1>1. f # CatalogFile /\ Fresh[i] \in Seq(Ads)
  BY PathsAre
<1>2. new = Merge(Fresh[i], content)
  <2>1. Updates(i, content) = {Merge(Fresh[i], content)}
    BY DEF Updates, Pools
  <2> QED
    BY <2>1
<1>3. /\ new \in GoodPools
      /\ \/ KeysOf(Range(Fresh[i]) \cap Direct) \subseteq KeysOf(Range(new))
         \/ Len(new) = PoolLimit
      /\ KeysOf(Range(content)) \subseteq KeysOf(Range(new)) \/ Len(new) = PoolLimit
  BY <1>1, <1>2, MergeKeeps
<1>4. Still(i, f, new)
  BY <1>1, <1>3 DEF Still
<1>5. ASSUME NEW j \in Jobs, Still(j, f, content) PROVE Still(j, f, new)
  <2>1. CASE Len(new) = PoolLimit
    BY <1>1, <2>1 DEF Still
  <2>2. CASE Len(new) # PoolLimit
    <3>1. KeysOf(Range(content)) \subseteq KeysOf(Range(new))
      BY <1>3, <2>2
    <3>2. Len(content) # PoolLimit
      BY <1>3, <2>2, <3>1, FullStaysFull
    <3>3. KeysOf(Range(Fresh[j]) \cap Direct) \subseteq KeysOf(Range(content))
      BY <1>1, <1>5, <3>2 DEF Still
    <3> QED
      BY <1>1, <3>1, <3>3 DEF Still
  <2> QED
    BY <2>1, <2>2
<1> QED
  BY <1>3, <1>4, <1>5

\* A job that a step leaves alone.
Rests(i) ==
  /\ at'[i] = at[i] /\ stage'[i] = stage[i] /\ draft'[i] = draft[i]
  /\ country'[i] = country[i] /\ made'[i] = made[i]

LEMMA RestingFile ==
  ASSUME NEW i \in Jobs, Rests(i)
  PROVE  /\ FileOf(i)' = FileOf(i)
         /\ Holds(i)' <=> Holds(i)
         /\ Content(FileOf(i))' = Content(FileOf(i)) =>
              Updates(i, Content(FileOf(i)))' = Updates(i, Content(FileOf(i)))
<1>1. FileOf(i)' = FileOf(i)
  BY DEF Rests, FileOf
<1>2. Holds(i)' <=> Holds(i)
  BY DEF Rests, Holds
<1>3. ASSUME Content(FileOf(i))' = Content(FileOf(i))
      PROVE  Updates(i, Content(FileOf(i)))' = Updates(i, Content(FileOf(i)))
  BY <1>3 DEF Rests, Updates, Recorded, Seeded, Adopted, Added
<1> QED
  BY <1>1, <1>2, <1>3

LEMMA CurrentStays ==
  ASSUME NEW i \in Jobs, Current(i), Rests(i), unread => unread',
         stage[i] # "load" =>
           /\ touched[FileOf(i)] \subseteq touched'[FileOf(i)]
           /\ at[i] \notin Updating /\ touched'[FileOf(i)] \subseteq {ProcessOf[i]} =>
                disk'[FileOf(i)] = disk[FileOf(i)] /\ tmp'[FileOf(i)] = tmp[FileOf(i)]
  PROVE  Current(i)'
<1>1. /\ at'[i] = at[i] /\ stage'[i] = stage[i] /\ draft'[i] = draft[i]
      /\ country'[i] = country[i] /\ FileOf(i)' = FileOf(i)
  BY RestingFile DEF Rests
<1>2. /\ at'[i] = "adopt" => country'[i] # None
      /\ at'[i] \in Pools /\ stage'[i] # "load" => draft'[i] \in GoodPools
  BY <1>1 DEF Current
<1>3. stage'[i] \in {"fill", "rename"} => ProcessOf[i] \in touched'[FileOf(i)']
  BY <1>1 DEF Current
<1>4. ASSUME ~unread', stage'[i] # "load", at'[i] \notin Updating,
             touched'[FileOf(i)'] \subseteq {ProcessOf[i]}
      PROVE  /\ draft'[i] \in Updates(i, Content(FileOf(i)))'
             /\ stage'[i] = "fill" => tmp'[FileOf(i)'] = Torn
             /\ stage'[i] = "rename" => tmp'[FileOf(i)'] = draft'[i]
  <2>1. /\ touched[FileOf(i)] \subseteq {ProcessOf[i]}
        /\ disk'[FileOf(i)] = disk[FileOf(i)] /\ tmp'[FileOf(i)] = tmp[FileOf(i)]
    BY <1>1, <1>4
  <2>2. /\ draft[i] \in Updates(i, Content(FileOf(i)))
        /\ stage[i] = "fill" => tmp[FileOf(i)] = Torn
        /\ stage[i] = "rename" => tmp[FileOf(i)] = draft[i]
    BY <1>1, <1>4, <2>1 DEF Current
  <2>3. Content(FileOf(i))' = Content(FileOf(i))
    BY <1>1, <2>1 DEF Content, Default
  <2>4. Updates(i, Content(FileOf(i)))' = Updates(i, Content(FileOf(i)))
    BY <2>3, RestingFile
  <2> QED
    BY <1>1, <2>1, <2>2, <2>4
<1> QED
  BY <1>2, <1>3, <1>4 DEF Current

\* Two threads that replace one file under a lock of the process are of different
\* processes.
LEMMA OneThreadWrites ==
  ASSUME StoreInv, LocksHeld, NEW i \in Jobs, NEW j \in Jobs, i # j,
         stage[i] # "load", stage[j] # "load", FileOf(i) = FileOf(j), at[i] \notin Updating
  PROVE  ProcessOf[i] # ProcessOf[j]
<1>1. TypesInv /\ Placed(i) /\ Placed(j) /\ at[i] \in Writing /\ at[j] \in Writing
  BY OneJob DEF Placed
<1>2. /\ at[j] \notin Updating
      /\ at[i] \in {"adopt", "add"} <=> at[j] \in {"adopt", "add"}
  BY <1>1, FileOfIs
<1>3. Holds(i) /\ Holds(j)
  BY <1>1 DEF Holds
<1>4. ProcessOf[i] = ProcessOf[j] => ProcessLocks(i, j)
  BY <1>1, <1>2 DEF ProcessLocks, Under, Pools, Writing, Updating
<1> QED
  BY <1>3, <1>4 DEF LocksHeld

LEMMA OthersCurrent ==
  ASSUME StoreInv, KeptInv, NEW j \in Jobs, stage[j] # "load",
         \A i \in Jobs \ {j} : Rests(i), unread => unread',
         \A f \in Files : f # FileOf(j) => disk'[f] = disk[f] /\ tmp'[f] = tmp[f],
         \A f \in Files : touched[f] \subseteq touched'[f],
         ProcessOf[j] \in touched'[FileOf(j)]
  PROVE  \A i \in Jobs \ {j} : Current(i)'
<1> SUFFICES ASSUME NEW i \in Jobs \ {j} PROVE Current(i)'
  OBVIOUS
<1>1. LocksHeld /\ Current(i) /\ TypesInv /\ Placed(i) /\ Rests(i)
  BY OneJob DEF KeptInv
<1>2. ASSUME stage[i] # "load"
      PROVE  /\ touched[FileOf(i)] \subseteq touched'[FileOf(i)]
             /\ at[i] \notin Updating /\ touched'[FileOf(i)] \subseteq {ProcessOf[i]} =>
                  disk'[FileOf(i)] = disk[FileOf(i)] /\ tmp'[FileOf(i)] = tmp[FileOf(i)]
  <2>1. FileOf(i) \in Files
    BY <1>1, <1>2, FileOfIs DEF Placed
  <2>2. ASSUME at[i] \notin Updating, touched'[FileOf(i)] \subseteq {ProcessOf[i]}
        PROVE  FileOf(i) # FileOf(j)
    <3> SUFFICES ASSUME FileOf(i) = FileOf(j) PROVE FALSE
      OBVIOUS
    <3>1. ProcessOf[j] = ProcessOf[i]
      BY <2>2
    <3> QED
      BY <1>1, <1>2, <2>2, <3>1, OneThreadWrites
  <2> QED
    BY <2>1, <2>2
<1> QED
  BY <1>1, <1>2, CurrentStays

LEMMA LocksStay ==
  ASSUME LocksHeld, NEW j \in Jobs, \A i \in Jobs \ {j} : Rests(i),
         Holds(j)' => \A i \in Jobs \ {j} : ~(Holds(i) /\ ProcessLocks(i, j)')
  PROVE  LocksHeld'
<1>1. ASSUME NEW i \in Jobs \ {j} PROVE at'[i] = at[i] /\ (Holds(i)' <=> Holds(i))
  BY RestingFile DEF Rests
<1> SUFFICES ASSUME NEW i \in Jobs, NEW k \in Jobs, Holds(i)', Holds(k)', ProcessLocks(i, k)'
             PROVE  i = k
  BY DEF LocksHeld
<1>2. CASE i # j /\ k # j
  <2>1. Holds(i) /\ Holds(k) /\ at'[i] = at[i] /\ at'[k] = at[k]
    BY <1>1, <1>2
  <2>2. ProcessLocks(i, k)
    BY <2>1 DEF ProcessLocks, Under
  <2> QED
    BY <2>1, <2>2 DEF LocksHeld
<1>3. CASE i # j /\ k = j
  BY <1>1, <1>3
<1>4. CASE i = j /\ k # j
  <2>1. ProcessLocks(k, j)'
    BY <1>4 DEF ProcessLocks, Under
  <2> QED
    BY <1>1, <1>4, <2>1
<1> QED
  BY <1>2, <1>3, <1>4

\* A step on the way, under the lock that is held.
LEMMA LocksGoOn ==
  ASSUME LocksHeld, NEW j \in Jobs, \A i \in Jobs \ {j} : Rests(i),
         Holds(j), at'[j] = at[j] \/ (at[j] \in Pools /\ at'[j] \in Pools)
  PROVE  LocksHeld'
<1>1. ASSUME NEW i \in Jobs \ {j}, Holds(i), ProcessLocks(i, j)'
      PROVE  FALSE
  <2>1. at'[i] = at[i]
    BY DEF Rests
  <2>2. ProcessLocks(i, j)
    BY <1>1, <2>1 DEF ProcessLocks, Under, Pools
  <2> QED
    BY <1>1, <2>2 DEF LocksHeld
<1> QED
  BY <1>1, LocksStay

LEMMA KeptStays ==
  ASSUME NEW i \in Jobs, NEW f \in Files, Kept(i, f), unread => unread',
         touched[f] \subseteq touched'[f],
         ~unread' => \A process : touched'[f] \subseteq {process} => disk'[f] = disk[f]
  PROVE  Kept(i, f)'
<1> SUFFICES ASSUME ~unread', f # StateFile, NEW process, touched'[f] \subseteq {process}
             PROVE  StillThere(i, f)'
  BY DEF Kept
<1>1. StillThere(i, f) /\ disk'[f] = disk[f]
  BY DEF Kept
<1>2. Content(f)' = Content(f)
  BY <1>1, ContentSame
<1>3. Still(i, f, Content(f)')
  <2>1. Still(i, f, Content(f))
    BY <1>1, StillThereIs
  <2> QED
    BY <1>2, <2>1
<1> QED
  BY <1>3, StillThereIs

\* Jobs that stop writing, or do not write at all.
LEMMA DropKeeps ==
  ASSUME KeptInv, NEW jobs \in SUBSET Jobs,
         disk' = disk, tmp' = tmp, touched' = touched, merged' = merged, unread => unread',
         \A i \in jobs : /\ stage'[i] = "load" /\ at'[i] # "countryPool"
                         /\ at'[i] = "adopt" => country'[i] # None,
         \A i \in Jobs \ jobs : Rests(i)
  PROVE  KeptInv'
<1>1. PoolsInv'
  BY DEF KeptInv, PoolsInv
<1>2. LocksHeld'
  <2>1. \A i \in jobs : ~Holds(i)'
    BY DEF Holds
  <2> SUFFICES ASSUME NEW i \in Jobs, NEW k \in Jobs, Holds(i)', Holds(k)', ProcessLocks(i, k)'
               PROVE  i = k
    BY DEF LocksHeld
  <2>2. Rests(i) /\ Rests(k)
    BY <2>1
  <2>3. Holds(i) /\ Holds(k) /\ at'[i] = at[i] /\ at'[k] = at[k]
    BY <2>2, RestingFile DEF Rests
  <2>4. ProcessLocks(i, k)
    BY <2>3 DEF ProcessLocks, Under
  <2> QED
    BY <2>3, <2>4 DEF KeptInv, LocksHeld
<1>3. ASSUME NEW i \in Jobs PROVE Current(i)'
  <2>1. CASE i \in jobs
    BY <2>1 DEF Current
  <2>2. CASE i \notin jobs
    <3>1. Rests(i) /\ Current(i)
      BY <2>2 DEF KeptInv
    <3> QED
      BY <3>1, CurrentStays
  <2> QED
    BY <2>1, <2>2
<1>4. ASSUME NEW u \in merged PROVE Kept(u[1], u[2])'
  <2>1. u[1] \in Jobs /\ u[2] \in Files /\ Kept(u[1], u[2])
    BY DEF KeptInv, PoolsInv
  <2> QED
    BY <2>1, KeptStays
<1> QED
  BY <1>1, <1>2, <1>3, <1>4 DEF KeptInv

\* The job of the next steps.
LEMMA OneWriter ==
  ASSUME StoreInv, KeptInv, NEW j \in Jobs
  PROVE  /\ PoolsInv /\ LocksHeld /\ Current(j) /\ TypesInv /\ FilesInv /\ Placed(j) /\ Drafted(j)
         /\ \A u \in merged : u[1] \in Jobs /\ u[2] \in Files /\ Kept(u[1], u[2])
         /\ at[j] \in Writing =>
              /\ FileOf(j) \in Files
              /\ FileOf(j) = StateFile <=> at[j] \in Updating
              /\ FileOf(j) = CatalogFile <=> at[j] \in {"adopt", "add"}
              /\ FileOf(j) \in PoolFiles <=> at[j] \in Pools
<1>1. /\ PoolsInv /\ LocksHeld /\ Current(j) /\ TypesInv /\ FilesInv /\ Placed(j) /\ Drafted(j)
      /\ \A u \in merged : u[1] \in Jobs /\ u[2] \in Files /\ Kept(u[1], u[2])
  BY OneJob DEF KeptInv, PoolsInv
<1>2. ASSUME at[j] \in Writing
      PROVE  /\ FileOf(j) \in Files
             /\ FileOf(j) = StateFile <=> at[j] \in Updating
             /\ FileOf(j) = CatalogFile <=> at[j] \in {"adopt", "add"}
  BY <1>1, <1>2, FileOfIs
<1>3. at[j] \in Writing => (FileOf(j) \in PoolFiles <=> at[j] \in Pools)
  BY <1>2, PathsAre DEF Writing, Pools, Updating
<1> QED
  BY <1>1, <1>2, <1>3

LEMMA LoadKept ==
  ASSUME StoreInv, KeptInv, NEW j \in Jobs, Load(j)
  PROVE  KeptInv'
<1>1. /\ PoolsInv /\ LocksHeld /\ Current(j) /\ TypesInv /\ FilesInv /\ Placed(j)
      /\ \A u \in merged : u[1] \in Jobs /\ u[2] \in Files /\ Kept(u[1], u[2])
  BY OneWriter
<1>2. /\ at[j] \in Writing /\ stage[j] = "load" /\ ~Waits(j)
      /\ disk' = disk /\ tmp' = tmp /\ country' = country
      /\ made' = made /\ touched' = touched /\ merged' = merged
  BY DEF Load
<1>3. PICK content \in {Content(FileOf(j)), Default(FileOf(j))} :
        /\ Read(FileOf(j), content)
        /\ IF Updates(j, content) = {}
             THEN /\ at' = [at EXCEPT ![j] = After(j)]
                  /\ UNCHANGED <<stage, draft>>
             ELSE /\ \E new \in Updates(j, content) : draft' = [draft EXCEPT ![j] = new]
                  /\ stage' = [stage EXCEPT ![j] = "open"]
                  /\ UNCHANGED at
  BY DEF Load
<1>4. /\ unread => unread'
      /\ ~unread' => ~unread /\ content = Content(FileOf(j))
  BY <1>3 DEF Read
<1>5. CASE Updates(j, content) = {}
  <2>1. at[j] \in {"adopt", "add"} /\ UNCHANGED <<stage, draft>>
    BY <1>2, <1>3, <1>5, UpdatesExist
  <2>2. After(j) \in {"profilePool", "done"}
    BY <2>1 DEF After
  <2>3. at' = [at EXCEPT ![j] = After(j)]
    BY <1>3, <1>5
  <2>4. at'[j] = After(j) /\ \A i \in Jobs \ {j} : at'[i] = at[i]
    BY <1>1, <2>3 DEF TypesInv
  <2>5. \A i \in Jobs \ {j} : Rests(i)
    BY <1>2, <2>1, <2>4 DEF Rests
  <2>6. {j} \in SUBSET Jobs
    OBVIOUS
  <2>7. \A i \in {j} : /\ stage'[i] = "load" /\ at'[i] # "countryPool"
                       /\ at'[i] = "adopt" => country'[i] # None
    BY <1>2, <2>1, <2>2, <2>4
  <2> QED
    BY <1>2, <1>4, <2>5, <2>6, <2>7, DropKeeps
<1>6. CASE Updates(j, content) # {}
  <2>1. PICK new \in Updates(j, content) :
          /\ draft' = [draft EXCEPT ![j] = new]
          /\ stage' = [stage EXCEPT ![j] = "open"] /\ at' = at
    BY <1>3, <1>6
  <2>2. /\ draft'[j] = new /\ stage'[j] = "open"
        /\ \A i \in Jobs \ {j} : Rests(i)
    BY <1>1, <1>2, <2>1 DEF TypesInv, Rests
  <2>3. PoolsInv'
    BY <1>1, <1>2 DEF PoolsInv
  <2>4. LocksHeld'
    <3>1. ASSUME NEW i \in Jobs \ {j}, Holds(i), ProcessLocks(i, j)' PROVE FALSE
      <4>1. ProcessLocks(i, j)
        BY <2>1, <3>1 DEF ProcessLocks, Under
      <4> QED
        BY <1>2, <3>1, <4>1 DEF Waits
    <3> QED
      BY <1>1, <2>2, <3>1, LocksStay
  <2>5. ASSUME NEW i \in Jobs \ {j} PROVE Current(i)'
    <3>1. Current(i) /\ Rests(i)
      BY <2>2 DEF KeptInv
    <3> QED
      BY <1>2, <1>4, <3>1, CurrentStays
  <2>6. Current(j)'
    <3>1. at'[j] = "adopt" => country'[j] # None
      BY <1>1, <1>2, <2>1 DEF Current
    <3>2. ASSUME at[j] \in Pools PROVE new \in GoodPools
      <4>1. FileOf(j) \in PoolFiles
        BY <1>2, <3>2, OneWriter
      <4>2. content \in GoodPools
        BY <1>1, <4>1, PoolContent
      <4> QED
        BY <3>2, <4>1, <4>2, PoolKeeps
    <3>3. ASSUME ~unread' PROVE draft'[j] \in Updates(j, Content(FileOf(j)))'
      <4>1. new \in Updates(j, Content(FileOf(j)))
        BY <1>4, <2>1, <3>3
      <4>2. at'[j] = at[j] /\ country' = country /\ made' = made
        BY <1>2, <2>1
      <4>3. Content(FileOf(j))' = Content(FileOf(j))
        BY <1>2, <2>1 DEF Content, Default, FileOf
      <4>4. Updates(j, Content(FileOf(j)))' = Updates(j, Content(FileOf(j)))
        BY <4>2, <4>3 DEF Updates, Recorded, Seeded, Adopted, Added
      <4> QED
        BY <2>2, <4>1, <4>4
    <3> QED
      BY <2>1, <2>2, <3>1, <3>2, <3>3 DEF Current
  <2>7. ASSUME NEW u \in merged PROVE Kept(u[1], u[2])'
    <3>1. u[1] \in Jobs /\ u[2] \in Files /\ Kept(u[1], u[2])
      BY <1>1
    <3> QED
      BY <1>2, <1>4, <3>1, KeptStays
  <2> QED
    BY <1>2, <2>3, <2>4, <2>5, <2>6, <2>7 DEF KeptInv
<1> QED
  BY <1>5, <1>6

LEMMA OpenKept ==
  ASSUME StoreInv, KeptInv, NEW j \in Jobs, Open(j)
  PROVE  KeptInv'
<1> DEFINE f == FileOf(j)
<1>1. /\ PoolsInv /\ LocksHeld /\ Current(j) /\ TypesInv /\ FilesInv /\ Placed(j)
      /\ \A u \in merged : u[1] \in Jobs /\ u[2] \in Files /\ Kept(u[1], u[2])
  BY OneWriter
<1>2. /\ stage[j] = "open" /\ tmp' = [tmp EXCEPT ![f] = Torn]
      /\ stage' = [stage EXCEPT ![j] = "fill"]
      /\ touched' = [touched EXCEPT ![f] = @ \cup {ProcessOf[j]}]
      /\ disk' = disk /\ at' = at /\ draft' = draft /\ country' = country
      /\ made' = made /\ unread' = unread /\ merged' = merged
  BY DEF Open
<1>3. at[j] \in Writing /\ f \in Files
  BY <1>1, <1>2, OneWriter DEF Placed
<1>4. /\ stage'[j] = "fill" /\ \A i \in Jobs \ {j} : Rests(i)
      /\ FileOf(j)' = f
  BY <1>1, <1>2 DEF TypesInv, Rests, FileOf
<1> HIDE DEF f
<1>5. /\ tmp'[f] = Torn /\ \A g \in Files : g # f => tmp'[g] = tmp[g]
      /\ touched'[f] = touched[f] \cup {ProcessOf[j]}
      /\ \A g \in Files : g # f => touched'[g] = touched[g]
  BY <1>1, <1>2, <1>3 DEF FilesInv, PoolsInv
<1>6. PoolsInv'
  <2>1. DOMAIN touched' = Files
    BY <1>1, <1>2 DEF PoolsInv
  <2>2. IsFiniteSet(touched[f] \cup {ProcessOf[j]})
    BY <1>1, <1>3, FS_AddElement DEF PoolsInv
  <2>3. \A g \in Files : IsFiniteSet(touched'[g])
    BY <1>1, <1>5, <2>2 DEF PoolsInv
  <2>4. \A g \in PoolFiles : tmp'[g] \in {Absent, Torn} \/ tmp'[g] \in GoodPools
    BY <1>1, <1>5, PathsAre DEF PoolsInv
  <2> QED
    BY <1>1, <1>2, <2>1, <2>3, <2>4 DEF PoolsInv
<1>7. LocksHeld'
  <2>1. Holds(j) /\ at'[j] = at[j]
    BY <1>2, <1>3 DEF Holds
  <2>2. \A i \in Jobs \ {j} : Rests(i)
    BY <1>4
  <2>3. LocksHeld
    BY <1>1
  <2> QED
    BY <2>1, <2>2, <2>3, LocksGoOn
<1>8. \A i \in Jobs \ {j} : Current(i)'
  BY <1>2, <1>4, <1>5, OthersCurrent DEF f
<1>9. Current(j)'
  <2>1. \A process : touched'[f] \subseteq {process} => touched[f] \subseteq {process}
    BY <1>5
  <2>2. Content(FileOf(j))' = Content(FileOf(j))
    BY <1>2, <1>4 DEF Content, Default, f
  <2>3. Updates(j, Content(FileOf(j)))' = Updates(j, Content(FileOf(j)))
    BY <1>2, <2>2 DEF Updates, Recorded, Seeded, Adopted, Added
  <2>4. /\ at'[j] = "adopt" => country'[j] # None
        /\ at'[j] \in Pools => draft'[j] \in GoodPools
    BY <1>1, <1>2 DEF Current
  <2>5. ~unread' /\ at'[j] \notin Updating /\ touched'[f] \subseteq {ProcessOf[j]} =>
          draft'[j] \in Updates(j, Content(FileOf(j)))'
    BY <1>1, <1>2, <2>1, <2>3 DEF Current, f
  <2>6. ProcessOf[j] \in touched'[f]
    BY <1>5
  <2> QED
    BY <1>4, <1>5, <2>4, <2>5, <2>6 DEF Current
<1>10. ASSUME NEW u \in merged PROVE Kept(u[1], u[2])'
  <2>1. u[1] \in Jobs /\ u[2] \in Files /\ Kept(u[1], u[2])
    BY <1>1
  <2>2. touched[u[2]] \subseteq touched'[u[2]]
    BY <1>5, <2>1
  <2> QED
    BY <1>2, <2>1, <2>2, KeptStays
<1> QED
  BY <1>2, <1>6, <1>7, <1>8, <1>9, <1>10 DEF KeptInv

\* The file that is filled is the temporary one, unless another process has renamed it.
LEMMA FillKept ==
  ASSUME StoreInv, KeptInv, NEW j \in Jobs, Fill(j)
  PROVE  KeptInv'
<1> DEFINE f == FileOf(j)
<1>1. /\ PoolsInv /\ LocksHeld /\ Current(j) /\ TypesInv /\ FilesInv /\ Placed(j) /\ Drafted(j)
      /\ \A u \in merged : u[1] \in Jobs /\ u[2] \in Files /\ Kept(u[1], u[2])
  BY OneWriter
<1>2. /\ stage[j] = "fill" /\ stage' = [stage EXCEPT ![j] = "rename"]
      /\ touched' = touched /\ at' = at /\ draft' = draft /\ country' = country
      /\ made' = made /\ unread' = unread /\ merged' = merged
  BY DEF Fill
<1>3. /\ at[j] \in Writing /\ f \in Files
      /\ f = StateFile <=> at[j] \in Updating
      /\ f \in PoolFiles => at[j] \in Pools
  BY <1>1, <1>2, OneWriter DEF Placed
<1>4. /\ stage'[j] = "rename" /\ \A i \in Jobs \ {j} : Rests(i)
      /\ FileOf(j)' = f
  BY <1>1, <1>2 DEF TypesInv, Rests, FileOf
<1>5. ASSUME ~unread, at[j] \notin Updating, touched[f] \subseteq {ProcessOf[j]}
      PROVE  tmp[f] = Torn /\ draft[j] \in Updates(j, Content(f))
  BY <1>1, <1>2, <1>5 DEF Current
<1>6. ProcessOf[j] \in touched[f] /\ (at[j] \in Pools => draft[j] \in GoodPools)
  BY <1>1, <1>2 DEF Current
<1>7. at[j] \in Updating => tmp[f] = Torn
  BY <1>1, <1>2, <1>3 DEF Drafted, WritesState
<1> HIDE DEF f
<1>8. /\ \A g \in Files : g # f => disk'[g] = disk[g] /\ tmp'[g] = tmp[g]
      /\ disk'[f] \in {disk[f], draft[j]} /\ tmp'[f] \in {tmp[f], draft[j]}
      /\ tmp[f] # Absent => disk'[f] = disk[f] /\ tmp'[f] = draft[j]
  <2>1. DOMAIN disk = Files /\ DOMAIN tmp = Files /\ f \in Files
    BY <1>1, <1>3 DEF FilesInv
  <2>2. CASE tmp[f] = Absent
    <3>1. disk' = [disk EXCEPT ![f] = draft[j]] /\ tmp' = tmp
      BY <2>2 DEF Fill, f
    <3> QED
      BY <2>1, <2>2, <3>1
  <2>3. CASE tmp[f] # Absent
    <3>1. tmp' = [tmp EXCEPT ![f] = draft[j]] /\ disk' = disk
      BY <2>3 DEF Fill, f
    <3> QED
      BY <2>1, <2>3, <3>1
  <2> QED
    BY <2>2, <2>3
<1>9. PoolsInv'
  <2>1. ASSUME NEW g \in PoolFiles
        PROVE  /\ disk'[g] \in {Absent, Torn} \/ disk'[g] \in GoodPools
               /\ tmp'[g] \in {Absent, Torn} \/ tmp'[g] \in GoodPools
    <3>1. CASE g = f
      BY <1>1, <1>3, <1>6, <1>8, <3>1 DEF PoolsInv
    <3>2. CASE g # f
      BY <1>1, <1>8, <3>2, PathsAre DEF PoolsInv
    <3> QED
      BY <3>1, <3>2
  <2>2. /\ DOMAIN touched' = Files /\ \A g \in Files : IsFiniteSet(touched'[g])
        /\ merged' \subseteq Jobs \X Files
    BY <1>1, <1>2 DEF PoolsInv
  <2> QED
    BY <2>1, <2>2 DEF PoolsInv
<1>10. LocksHeld'
  <2>1. Holds(j) /\ at'[j] = at[j]
    BY <1>2, <1>3 DEF Holds
  <2> QED
    BY <1>1, <1>4, <2>1, LocksGoOn
<1>11. \A i \in Jobs \ {j} : Current(i)'
  BY <1>2, <1>4, <1>6, <1>8, OthersCurrent DEF f
<1>12. Current(j)'
  <2>1. ASSUME ~unread', at'[j] \notin Updating, touched'[f] \subseteq {ProcessOf[j]}
        PROVE  draft'[j] \in Updates(j, Content(FileOf(j)))' /\ tmp'[f] = draft'[j]
    <3>1. /\ draft[j] \in Updates(j, Content(f))
          /\ disk'[f] = disk[f] /\ tmp'[f] = draft[j]
      BY <1>2, <1>5, <1>8, <2>1, ConstantTypes
    <3>2. Content(FileOf(j))' = Content(f)
      BY <1>4, <3>1 DEF Content, Default
    <3>3. Updates(j, Content(FileOf(j)))' = Updates(j, Content(f))
      BY <1>2, <3>2 DEF Updates, Recorded, Seeded, Adopted, Added
    <3> QED
      BY <1>2, <3>1, <3>3
  <2>2. /\ at'[j] = "adopt" => country'[j] # None
        /\ at'[j] \in Pools => draft'[j] \in GoodPools
    BY <1>1, <1>2, <1>6 DEF Current
  <2>3. ProcessOf[j] \in touched'[f]
    BY <1>2, <1>6
  <2> QED
    BY <1>4, <2>1, <2>2, <2>3 DEF Current
<1>13. ASSUME NEW u \in merged PROVE Kept(u[1], u[2])'
  <2>1. u[1] \in Jobs /\ u[2] \in Files /\ Kept(u[1], u[2])
    BY <1>1
  <2>2. ASSUME ~unread', NEW process, touched'[u[2]] \subseteq {process}
        PROVE  disk'[u[2]] = disk[u[2]]
    <3>1. CASE u[2] = f
      <4>1. touched[f] \subseteq {ProcessOf[j]}
        BY <1>2, <1>6, <2>2, <3>1
      <4>2. tmp[f] = Torn
        BY <1>2, <1>5, <1>7, <2>2, <4>1
      <4> QED
        BY <1>8, <3>1, <4>2, ConstantTypes
    <3>2. CASE u[2] # f
      BY <1>8, <2>1, <3>2
    <3> QED
      BY <3>1, <3>2
  <2> QED
    BY <1>2, <2>1, <2>2, KeptStays
<1> QED
  BY <1>2, <1>9, <1>10, <1>11, <1>12, <1>13 DEF KeptInv

\* The update that is finished, and those before it.
LEMMA RenameKeepsUpdates ==
  ASSUME StoreInv, KeptInv, NEW j \in Jobs, Rename(j), NEW i \in Jobs, NEW f, f = FileOf(j),
         ~unread, f # StateFile, touched[f] \subseteq {ProcessOf[j]},
         i = j \/ StillThere(i, f)
  PROVE  StillThere(i, f)'
<1>1. /\ PoolsInv /\ Current(j) /\ TypesInv /\ FilesInv /\ Placed(j) /\ Drafted(j)
  BY OneWriter
<1>2. stage[j] = "rename" /\ disk' = [disk EXCEPT ![f] = tmp[f]]
  BY DEF Rename
<1>3. /\ at[j] \in Writing /\ f \in Files /\ at[j] \notin Updating
      /\ f = CatalogFile <=> at[j] \in {"adopt", "add"}
      /\ f \in PoolFiles <=> at[j] \in Pools
  BY <1>1, <1>2, OneWriter DEF Placed
<1>4. draft[j] \in Updates(j, Content(f)) /\ tmp[f] = draft[j]
  BY <1>1, <1>2, <1>3 DEF Current
<1>5. disk'[f] = draft[j]
  BY <1>1, <1>2, <1>3, <1>4 DEF FilesInv
<1>6. i = j \/ Still(i, f, Content(f))
  BY StillThereIs
<1>7. ASSUME draft[j] \in GoodPools \/ draft[j] \in Catalogs, Still(i, f, draft[j])
      PROVE  StillThere(i, f)'
  <2>1. Content(f)' = draft[j]
    BY <1>3, <1>5, <1>7, ContentNext
  <2>2. Still(i, f, Content(f)')
    BY <1>7, <2>1
  <2> QED
    BY <2>2, StillThereIs
<1>8. CASE at[j] \in {"adopt", "add"}
  <2>1. f = CatalogFile /\ Content(f) \in Catalogs
    BY <1>1, <1>3, <1>8, ContentTyped
  <2>2. draft[j] \in Catalogs
    BY <1>1, <1>2, <1>8 DEF Drafted
  <2>3. Still(i, f, draft[j])
    BY <1>1, <1>4, <1>6, <1>8, <2>1, CatalogKeeps
  <2> QED
    BY <1>7, <2>2, <2>3
<1>9. CASE at[j] \in Pools
  <2>1. f \in PoolFiles /\ Content(f) \in GoodPools
    BY <1>1, <1>3, <1>9, PoolContent
  <2>2. draft[j] \in GoodPools /\ Still(i, f, draft[j])
    BY <1>4, <1>6, <1>9, <2>1, PoolKeeps
  <2> QED
    BY <1>7, <2>2
<1> QED
  BY <1>3, <1>8, <1>9 DEF Writing, Updating, Pools

LEMMA RenameKept ==
  ASSUME StoreInv, KeptInv, NEW j \in Jobs, Rename(j)
  PROVE  KeptInv'
<1> PICK f : f = FileOf(j)
  OBVIOUS
<1>1. /\ PoolsInv /\ LocksHeld /\ Current(j) /\ TypesInv /\ FilesInv /\ Placed(j)
      /\ \A u \in merged : u[1] \in Jobs /\ u[2] \in Files /\ Kept(u[1], u[2])
  BY OneWriter
<1>2. /\ stage[j] = "rename" /\ tmp[f] # Absent
      /\ disk' = [disk EXCEPT ![f] = tmp[f]] /\ tmp' = [tmp EXCEPT ![f] = Absent]
      /\ at' = [at EXCEPT ![j] = After(j)] /\ stage' = [stage EXCEPT ![j] = "load"]
      /\ draft' = [draft EXCEPT ![j] = None] /\ merged' = merged \cup {<<j, f>>}
      /\ country' = country /\ made' = made /\ unread' = unread /\ touched' = touched
  BY DEF Rename
<1>3. /\ at[j] \in Writing /\ f \in Files
      /\ f = StateFile <=> at[j] \in Updating
      /\ ProcessOf[j] \in touched[f]
  BY <1>1, <1>2, OneWriter DEF Placed, Current
<1>4. ASSUME NEW i \in Jobs, ~unread, f # StateFile, touched[f] \subseteq {ProcessOf[j]},
             i = j \/ StillThere(i, f)
      PROVE  StillThere(i, f)'
  BY <1>4, RenameKeepsUpdates
<1>5. \A i \in Jobs \ {j} : Current(i)'
  <2>1. \A i \in Jobs \ {j} : Rests(i)
    BY <1>1, <1>2 DEF TypesInv, Rests
  <2>2. \A g \in Files : g # f => disk'[g] = disk[g] /\ tmp'[g] = tmp[g]
    BY <1>1, <1>2 DEF FilesInv
  <2> QED
    BY <1>2, <1>3, <2>1, <2>2, OthersCurrent
<1>6. /\ at'[j] = After(j) /\ stage'[j] = "load"
      /\ \A i \in Jobs \ {j} : Rests(i)
  BY <1>1, <1>2 DEF TypesInv, Rests
<1>7. /\ disk'[f] = tmp[f] /\ tmp'[f] = Absent
      /\ \A g \in Files : g # f => disk'[g] = disk[g] /\ tmp'[g] = tmp[g]
  BY <1>1, <1>2, <1>3 DEF FilesInv
<1>8. PoolsInv'
  <2>1. ASSUME NEW g \in PoolFiles
        PROVE  /\ disk'[g] \in {Absent, Torn} \/ disk'[g] \in GoodPools
               /\ tmp'[g] \in {Absent, Torn} \/ tmp'[g] \in GoodPools
    <3>1. CASE g = f
      BY <1>1, <1>7, <3>1 DEF PoolsInv
    <3>2. CASE g # f
      BY <1>1, <1>7, <3>2, PathsAre DEF PoolsInv
    <3> QED
      BY <3>1, <3>2
  <2>2. DOMAIN touched' = Files /\ \A g \in Files : IsFiniteSet(touched'[g])
    BY <1>1, <1>2 DEF PoolsInv
  <2>3. merged' \subseteq Jobs \X Files
    BY <1>1, <1>2, <1>3 DEF PoolsInv
  <2> QED
    BY <2>1, <2>2, <2>3 DEF PoolsInv
<1>9. LocksHeld'
  <2>1. CASE After(j) = "countryPool"
    <3>1. at[j] = "profilePool"
      BY <1>3, <2>1 DEF After, Writing
    <3>2. Holds(j)
      BY <1>2, <1>3 DEF Holds
    <3>3. at[j] \in Pools /\ at'[j] \in Pools
      BY <1>6, <2>1, <3>1 DEF Pools
    <3> QED
      BY <1>1, <1>6, <3>2, <3>3, LocksGoOn
  <2>2. CASE After(j) # "countryPool"
    <3>1. ~Holds(j)'
      BY <1>6, <2>2 DEF Holds
    <3> QED
      BY <1>1, <1>6, <3>1, LocksStay
  <2> QED
    BY <2>1, <2>2
<1>10. Current(j)'
  <2>1. After(j) # "adopt"
    BY <1>3, AfterIs DEF Writing
  <2> QED
    BY <1>6, <2>1 DEF Current
<1>11. ASSUME NEW i \in Jobs, NEW g \in Files, (i = j /\ g = f) \/ Kept(i, g)
       PROVE  Kept(i, g)'
  <2>1. CASE g = f
    <3> SUFFICES ASSUME ~unread', f # StateFile, NEW process, touched'[f] \subseteq {process}
                 PROVE  StillThere(i, f)'
      BY <2>1 DEF Kept
    <3>1. ~unread /\ touched[f] \subseteq {process} /\ process = ProcessOf[j]
      BY <1>2, <1>3
    <3>2. i = j \/ StillThere(i, f)
      BY <1>11, <2>1, <3>1 DEF Kept
    <3> QED
      BY <1>4, <3>1, <3>2
  <2>2. CASE g # f
    <3>1. Kept(i, g) /\ disk'[g] = disk[g]
      BY <1>7, <1>11, <2>2
    <3> QED
      BY <1>2, <3>1, KeptStays
  <2> QED
    BY <2>1, <2>2
<1>12. ASSUME NEW u \in merged' PROVE Kept(u[1], u[2])'
  <2>1. CASE u \in merged
    <3>1. u[1] \in Jobs /\ u[2] \in Files /\ Kept(u[1], u[2])
      BY <1>1, <2>1
    <3> QED
      BY <1>11, <3>1
  <2>2. CASE u = <<j, f>>
    BY <1>3, <1>11, <2>2
  <2> QED
    BY <1>2, <2>1, <2>2
<1> QED
  BY <1>5, <1>8, <1>9, <1>10, <1>12 DEF KeptInv

\* A step of a job that is not replacing a file.
LEMMA IdleKeeps ==
  ASSUME StoreInv, KeptInv, NEW j \in Jobs, NEW x, at[j] \notin Writing, UNCHANGED Unwritten,
         at' = [at EXCEPT ![j] = x], x # "countryPool", unread => unread',
         x = "adopt" => country'[j] # None,
         \A i \in Jobs \ {j} : country'[i] = country[i] /\ made'[i] = made[i]
  PROVE  KeptInv'
<1>1. TypesInv /\ Placed(j)
  BY OneJob
<1>2. /\ disk' = disk /\ tmp' = tmp /\ touched' = touched /\ merged' = merged
      /\ stage' = stage /\ draft' = draft
  BY DEF Unwritten
<1>3. stage'[j] = "load" /\ at'[j] = x
  BY <1>1, <1>2 DEF Placed, TypesInv
<1>4. \A i \in Jobs \ {j} : Rests(i)
  BY <1>1, <1>2 DEF Rests, TypesInv
<1>5. {j} \in SUBSET Jobs
  OBVIOUS
<1>6. \A i \in {j} : /\ stage'[i] = "load" /\ at'[i] # "countryPool"
                     /\ at'[i] = "adopt" => country'[i] # None
  BY <1>3
<1> QED
  BY <1>2, <1>4, <1>5, <1>6, DropKeeps

LEMMA QuietKept ==
  ASSUME StoreInv, KeptInv, NEW j \in Jobs,
         \/ StartCycle(j) \/ StartSeed(j) \/ StartDiscovery(j)
         \/ Collect(j) \/ Count(j) \/ Judge(j) \/ Calibrate(j) \/ Stop(j) \/ Release(j)
  PROVE  KeptInv'
<1>1. TypesInv /\ Placed(j)
  BY OneJob
<1>2. CASE StartCycle(j)
  <2>1. /\ at[j] \notin Writing /\ UNCHANGED Unwritten
        /\ made' = made /\ unread' = unread
    BY <1>2 DEF StartCycle, Writing
  <2>2. \A i \in Jobs \ {j} : country'[i] = country[i]
    BY <1>1, <1>2 DEF StartCycle, TypesInv
  <2>3. \/ at' = [at EXCEPT ![j] = "refused"]
        \/ at' = [at EXCEPT ![j] = "collect"]
    BY <1>2 DEF StartCycle
  <2> QED
    BY <2>1, <2>2, <2>3, IdleKeeps
<1>3. CASE StartSeed(j)
  <2>1. /\ at[j] \notin Writing /\ UNCHANGED Unwritten
        /\ made' = made /\ unread' = unread /\ country' = country
        /\ at' = [at EXCEPT ![j] = "seed"]
    BY <1>3 DEF StartSeed, Writing
  <2> QED
    BY <2>1, IdleKeeps
<1>4. CASE StartDiscovery(j)
  <2>1. /\ at[j] \notin Writing /\ UNCHANGED Unwritten
        /\ made' = made /\ unread' = unread /\ country' = country
        /\ \/ at' = [at EXCEPT ![j] = "add"]
           \/ at' = [at EXCEPT ![j] = "done"]
    BY <1>4 DEF StartDiscovery, Writing
  <2> QED
    BY <2>1, IdleKeeps
<1>5. CASE Collect(j)
  <2>1. /\ at[j] \notin Writing /\ UNCHANGED Unwritten
        /\ made' = made /\ unread' = unread
    BY <1>5 DEF Collect, Writing
  <2>2. PICK observed : IF country[j] = None /\ observed # None
                          THEN /\ country' = [country EXCEPT ![j] = observed]
                               /\ at' = [at EXCEPT ![j] = "adopt"]
                          ELSE at' = [at EXCEPT ![j] = "profilePool"] /\ UNCHANGED country
    BY <1>5 DEF Collect
  <2>3. CASE country[j] = None /\ observed # None
    <3>1. /\ at' = [at EXCEPT ![j] = "adopt"] /\ country'[j] # None
          /\ \A i \in Jobs \ {j} : country'[i] = country[i]
      BY <1>1, <2>2, <2>3 DEF TypesInv
    <3> QED
      BY <2>1, <3>1, IdleKeeps
  <2>4. CASE ~(country[j] = None /\ observed # None)
    <3>1. at' = [at EXCEPT ![j] = "profilePool"] /\ country' = country
      BY <2>2, <2>4
    <3> QED
      BY <2>1, <3>1, IdleKeeps
  <2> QED
    BY <2>3, <2>4
<1>6. CASE Count(j)
  <2>1. /\ at[j] \notin Writing /\ UNCHANGED Unwritten
        /\ made' = made /\ unread' = unread /\ country' = country
        /\ at' = [at EXCEPT ![j] = "judge"]
    BY <1>6 DEF Count, Writing
  <2> QED
    BY <2>1, IdleKeeps
<1>7. CASE Judge(j)
  <2>1. /\ at[j] \notin Writing /\ at[j] = "judge" /\ UNCHANGED Unwritten
        /\ made' = made /\ country' = country
    BY <1>7 DEF Judge, Writing
  <2>2. unread => unread'
    BY <1>7 DEF Judge, Read
  <2>3. \/ at' = at
        \/ at' = [at EXCEPT ![j] = "record"]
        \/ at' = [at EXCEPT ![j] = "calibrate"]
    BY <1>7 DEF Judge
  <2>4. at' = at => at' = [at EXCEPT ![j] = "judge"]
    BY <1>1, <2>1 DEF TypesInv
  <2> QED
    BY <2>1, <2>2, <2>3, <2>4, IdleKeeps
<1>8. CASE Calibrate(j)
  <2>1. /\ at[j] \notin Writing /\ UNCHANGED Unwritten
        /\ unread' = unread /\ country' = country
        /\ at' = [at EXCEPT ![j] = "record"]
    BY <1>8 DEF Calibrate, Writing
  <2>2. \A i \in Jobs \ {j} : made'[i] = made[i]
    BY <1>1, <1>8 DEF Calibrate, TypesInv
  <2> QED
    BY <2>1, <2>2, IdleKeeps
<1>9. CASE Stop(j)
  <2>1. /\ at[j] \notin Writing /\ UNCHANGED Unwritten
        /\ made' = made /\ unread' = unread /\ country' = country
        /\ at' = [at EXCEPT ![j] = "release"]
    BY <1>9 DEF Stop, Writing
  <2> QED
    BY <2>1, IdleKeeps
<1>10. CASE Release(j)
  <2>1. /\ at[j] \notin Writing /\ UNCHANGED Unwritten /\ unread' = unread
        /\ at' = [at EXCEPT ![j] = "done"] /\ Forget({j})
    BY <1>10 DEF Release, Writing
  <2>2. {j} \in SUBSET Jobs
    OBVIOUS
  <2>3. \A i \in Jobs \ {j} : country'[i] = country[i] /\ made'[i] = made[i]
    BY <1>1, <2>1, <2>2, Forgotten
  <2> QED
    BY <2>1, <2>3, IdleKeeps
<1> QED
  BY <1>2, <1>3, <1>4, <1>5, <1>6, <1>7, <1>8, <1>9, <1>10

LEMMA FaultKept ==
  ASSUME StoreInv, KeptInv, NEW j \in Jobs, RenameFails(j) \/ WriteFails(j) \/ CycleRaises(j)
  PROVE  KeptInv'
<1>1. TypesInv /\ Raise(j)
  BY OneJob DEF RenameFails, WriteFails, CycleRaises
<1> DEFINE x == IF j \in Cycles THEN "stop" ELSE "done"
<1>2. /\ disk' = disk /\ tmp' = tmp /\ touched' = touched /\ merged' = merged
      /\ country' = country /\ made' = made /\ unread' = unread
      /\ at' = [at EXCEPT ![j] = x] /\ stage' = [stage EXCEPT ![j] = "load"]
      /\ draft' = [draft EXCEPT ![j] = None]
  BY <1>1 DEF Raise
<1>3. x \in {"stop", "done"}
  OBVIOUS
<1> HIDE DEF x
<1>4. /\ at'[j] = x /\ stage'[j] = "load"
      /\ \A i \in Jobs \ {j} : Rests(i)
  BY <1>1, <1>2 DEF TypesInv, Rests
<1>5. {j} \in SUBSET Jobs
  OBVIOUS
<1>6. \A i \in {j} : /\ stage'[i] = "load" /\ at'[i] # "countryPool"
                     /\ at'[i] = "adopt" => country'[i] # None
  BY <1>3, <1>4
<1> QED
  BY <1>2, <1>4, <1>5, <1>6, DropKeeps

LEMMA KillKept ==
  ASSUME StoreInv, KeptInv, NEW process, Kill(process)
  PROVE  KeptInv'
<1> DEFINE jobs == {j \in Jobs : ProcessOf[j] = process /\ at[j] \in Begun}
<1>1. TypesInv
  BY DEF StoreInv
<1>2. /\ at' = [j \in Jobs |-> IF j \in jobs THEN "idle" ELSE at[j]]
      /\ stage' = [j \in Jobs |-> IF j \in jobs THEN "load" ELSE stage[j]]
      /\ draft' = [j \in Jobs |-> IF j \in jobs THEN None ELSE draft[j]]
      /\ Forget(jobs) /\ disk' = disk /\ tmp' = tmp /\ unread' = unread
      /\ touched' = touched /\ merged' = merged
  BY DEF Kill
<1>3. PICK dead \in SUBSET Jobs : dead = jobs
  OBVIOUS
<1> HIDE DEF jobs
<1>4. \A i \in Jobs \ dead : country'[i] = country[i] /\ made'[i] = made[i]
  BY <1>1, <1>2, <1>3, Forgotten
<1>5. \A i \in Jobs \ dead : Rests(i)
  BY <1>2, <1>3, <1>4 DEF Rests
<1>6. \A i \in dead : /\ stage'[i] = "load" /\ at'[i] # "countryPool"
                      /\ at'[i] = "adopt" => country'[i] # None
  BY <1>2, <1>3
<1> QED
  BY <1>2, <1>5, <1>6, DropKeeps

LEMMA InitKept == ASSUME Init PROVE KeptInv
<1>1. /\ stage = [j \in Jobs |-> "load"] /\ merged = {}
      /\ touched = [f \in Files |-> {}] /\ tmp = [f \in Files |-> Absent]
      /\ disk = [f \in Files |-> IF f = CatalogFile THEN Catalog ELSE Absent]
      /\ \A j \in Jobs : at[j] \in {"idle", "done"}
  BY DEF Init
<1>2. DOMAIN touched = Files /\ \A f \in Files : IsFiniteSet(touched[f])
  BY <1>1, FS_EmptySet
<1>3. \A f \in PoolFiles : disk[f] = Absent /\ tmp[f] = Absent
  BY <1>1, PathsAre
<1>4. PoolsInv
  BY <1>1, <1>2, <1>3 DEF PoolsInv
<1>5. LocksHeld
  BY <1>1 DEF LocksHeld, Holds, Writing
<1>6. \A j \in Jobs : Current(j)
  BY <1>1 DEF Current, Pools
<1> QED
  BY <1>1, <1>4, <1>5, <1>6 DEF KeptInv

LEMMA StepKept == ASSUME StoreInv, KeptInv, [Next]_vars PROVE KeptInv'
<1>1. ASSUME NEW j \in Jobs,
             \/ StartCycle(j) \/ StartSeed(j) \/ StartDiscovery(j)
             \/ Proceed(j) \/ WriteFails(j) \/ CycleRaises(j)
      PROVE  KeptInv'
  <2>1. CASE Load(j)
    BY <2>1, LoadKept
  <2>2. CASE Open(j)
    BY <2>2, OpenKept
  <2>3. CASE Fill(j)
    BY <2>3, FillKept
  <2>4. CASE Rename(j)
    BY <2>4, RenameKept
  <2>5. CASE RenameFails(j) \/ WriteFails(j) \/ CycleRaises(j)
    BY <2>5, FaultKept
  <2>6. CASE \/ StartCycle(j) \/ StartSeed(j) \/ StartDiscovery(j)
             \/ Collect(j) \/ Count(j) \/ Judge(j) \/ Calibrate(j) \/ Stop(j) \/ Release(j)
    BY <2>6, QuietKept
  <2> QED
    BY <1>1, <2>1, <2>2, <2>3, <2>4, <2>5, <2>6 DEF Proceed
<1>2. ASSUME NEW process, Kill(process) PROVE KeptInv'
  BY <1>2, KillKept
<1>3. CASE UNCHANGED vars
  <2>1. /\ disk' = disk /\ tmp' = tmp /\ touched' = touched /\ merged' = merged
        /\ unread' = unread /\ \A i \in Jobs : Rests(i)
    BY <1>3 DEF vars, Rests
  <2>2. {} \in SUBSET Jobs /\ \A i \in Jobs \ {} : Rests(i)
    BY <2>1
  <2> QED
    BY <2>1, <2>2, DropKeeps
<1> QED
  BY <1>1, <1>2, <1>3 DEF Next

LEMMA KeptInvariant == Spec => [](StoreInv /\ KeptInv)
<1>1. Init => StoreInv /\ KeptInv
  BY InitStore, InitKept
<1>2. StoreInv /\ KeptInv /\ [Next]_vars => (StoreInv /\ KeptInv)'
  BY StepStore, StepKept
<1> QED
  BY <1>1, <1>2, PTL DEF Spec

\* Nothing is said of the state file, whose updates the journal follows.
LEMMA StateFileAside == ASSUME NEW j PROVE StillThere(j, StateFile)
BY ConstantTypes, Zenon DEF StillThere

\* An adopted country, the discovered profiles and the ads of a collection are still
\* in their file after any number of later updates by the threads of that process,
\* wherever it is killed, unless newer ads have filled the pool: for any number of
\* commands and files and any pool limit (JsonProfileCatalog and
\* JsonCalibrationTargetPool.update, merge_calibration_ads).
THEOREM MergesStay == Spec => []MergesAreKept
<1>1. KeptInv => MergesAreKept
  <2> SUFFICES ASSUME KeptInv, ~unread, NEW u \in merged, Cardinality(touched[u[2]]) = 1
               PROVE  StillThere(u[1], u[2])
    BY DEF MergesAreKept
  <2>1. /\ u[2] \in Files /\ Kept(u[1], u[2])
        /\ IsFiniteSet(touched[u[2]])
    <3>1. merged \subseteq Jobs \X Files /\ \A f \in Files : IsFiniteSet(touched[f])
      BY DEF KeptInv, PoolsInv
    <3>2. u[2] \in Files
      BY <3>1
    <3> QED
      BY <3>1, <3>2 DEF KeptInv
  <2>2. PICK process : touched[u[2]] = {process}
    <3>1. \E process : touched[u[2]] = {process}
      BY <2>1, FS_Singleton
    <3> QED
      BY <3>1
  <2>3. CASE u[2] = StateFile
    BY <2>3, StateFileAside
  <2>4. CASE u[2] # StateFile
    BY <2>1, <2>2, <2>4 DEF Kept
  <2> QED
    BY <2>3, <2>4
<1> QED
  BY <1>1, KeptInvariant, PTL

-----------------------------------------------------------------------------
(* The types of the variables, which need what the two invariants say of the     *)
(* drafts and of the pools.                                                      *)

RestInv ==
  /\ counted \in [Jobs -> Nat] /\ running \subseteq Profiles /\ spare \in Nat
  /\ tmp[StateFile] \in {Absent, Torn} \/ tmp[StateFile] \in States

\* What is on its way to the state file is a state.
LEMMA DraftIsState ==
  ASSUME StoreInv, NEW j \in Jobs, WritesState(j)
  PROVE  draft[j] \in States
<1>1. /\ TypesInv /\ FilesInv /\ Drafted(j)
  BY OneJob
<1>2. PICK content \in States : draft[j] \in StateUpdates(j, content)
  <2>1. Content(StateFile) \in States /\ Default(StateFile) \in States
    BY <1>1, ContentTyped, DefaultIs
  <2> QED
    BY <1>1, <2>1 DEF Drafted
<1>3. CASE at[j] = "record"
  <2>1. made[j] \in Batches /\ draft[j] \in Recorded(j, content)
    BY <1>1, <1>2, <1>3 DEF TypesInv, StateUpdates
  <2> QED
    BY <2>1, RecordedUpdates
<1>4. CASE at[j] # "record"
  <2>1. draft[j] \in Seeded(j, content)
    BY <1>2, <1>4 DEF StateUpdates
  <2> QED
    BY <2>1, SeededUpdates
<1> QED
  BY <1>3, <1>4

\* There are finitely many targets to count.
LEMMA TargetsAreCounted ==
  ASSUME StoreInv, KeptInv, NEW j \in Jobs
  PROVE  Cardinality(Targets(j)) \in Nat
<1>1. /\ TypesInv /\ PoolsInv /\ ProfileOf[j] \in PoolFiles /\ Fresh[j] \in Seq(Ads)
      /\ country[j] # None => country[j] \in PoolFiles
  <2>1. TypesInv /\ PoolsInv
    BY OneWriter
  <2> QED
    BY <2>1, ConstantTypes, PathsAre DEF PoolFiles, TypesInv
<1>2. \A f \in PoolFiles : Content(f) \in Seq(Ads)
  BY <1>1, PoolContent DEF GoodPools
<1> DEFINE own == Content(ProfileOf[j])
           shared == IF country[j] = None THEN <<>> ELSE Content(country[j])
           sources == Fresh[j] \o own \o shared
<1>3. own \in Seq(Ads) /\ shared \in Seq(Ads)
  BY <1>1, <1>2
<1>4. Sources(j) = sources
  BY DEF Sources
<1> HIDE DEF own, shared
<1>5. sources \in Seq(Ads) /\ Len(sources) \in Nat /\ DOMAIN sources = 1..Len(sources)
  BY <1>1, <1>3
<1> HIDE DEF sources
<1>6. IsFiniteSet(1..Len(sources))
  BY <1>5, FS_Interval
<1> DEFINE places == 1..Len(sources)
           keys == {KeyOf[sources[i]] : i \in places}
           key == [i \in places |-> KeyOf[sources[i]]]
<1>7. IsFiniteSet(keys)
  <2>1. key \in Surjection(places, keys)
    BY DEF Surjection
  <2> HIDE DEF places, keys, key
  <2>2. IsFiniteSet(places)
    BY <1>6 DEF places
  <2> QED
    BY <2>1, <2>2, FS_Surjection
<1>8. Targets(j) \subseteq keys
  BY <1>4, <1>5 DEF Targets, KeysOf, Range
<1> HIDE DEF keys
<1>9. IsFiniteSet(Targets(j))
  BY <1>7, <1>8, FS_Subset
<1> QED
  BY <1>9, FS_CardinalityType

LEMMA ReadSpares ==
  ASSUME NEW f, NEW content, spare \in Nat, Read(f, content)
  PROVE  spare' \in Nat
BY DEF Read

\* A step that leaves the temporary file of the state alone.
LEMMA StateTemporary ==
  ASSUME RestInv, tmp' = tmp
  PROVE  (tmp[StateFile] \in {Absent, Torn} \/ tmp[StateFile] \in States)'
BY DEF RestInv

\* The steps that replace a file.
LEMMA WriteRests ==
  ASSUME StoreInv, KeptInv, RestInv, NEW j \in Jobs,
         \/ Load(j) \/ Open(j) \/ Fill(j) \/ Rename(j) \/ RenameFails(j) \/ WriteFails(j)
  PROVE  RestInv'
<1>1. /\ TypesInv /\ FilesInv /\ Placed(j) /\ Drafted(j)
      /\ at[j] \in Writing =>
           FileOf(j) \in Files /\ (FileOf(j) = StateFile <=> at[j] \in Updating)
      /\ DOMAIN tmp = Files /\ StateFile \in Files
  BY OneWriter, ConstantTypes DEF FilesInv
<1>2. counted' = counted /\ running' = running
  BY DEF Load, Open, Fill, Rename, RenameFails, WriteFails, Raise
<1>3. spare' \in Nat
  <2>1. CASE Load(j)
    <3>1. \E content : Read(FileOf(j), content)
      BY <2>1 DEF Load
    <3> QED
      BY <3>1, ReadSpares DEF RestInv
  <2>2. CASE WriteFails(j)
    BY <2>2 DEF WriteFails, RestInv
  <2>3. CASE Open(j) \/ Fill(j) \/ Rename(j) \/ RenameFails(j)
    BY <2>3 DEF Open, Fill, Rename, RenameFails, RestInv
  <2> QED
    BY <2>1, <2>2, <2>3
<1>4. (tmp[StateFile] \in {Absent, Torn} \/ tmp[StateFile] \in States)'
  <2>1. CASE Load(j) \/ RenameFails(j) \/ WriteFails(j)
    BY <2>1, StateTemporary DEF Load, RenameFails, WriteFails, Raise
  <2>2. CASE Open(j)
    <3>1. tmp' = [tmp EXCEPT ![FileOf(j)] = Torn]
      BY <2>2 DEF Open
    <3> QED
      BY <1>1, <3>1 DEF RestInv
  <2>3. CASE Rename(j)
    <3>1. tmp' = [tmp EXCEPT ![FileOf(j)] = Absent]
      BY <2>3 DEF Rename
    <3> QED
      BY <1>1, <3>1 DEF RestInv
  <2>4. CASE Fill(j)
    <3>1. \/ tmp' = tmp
          \/ tmp' = [tmp EXCEPT ![FileOf(j)] = draft[j]]
      BY <2>4 DEF Fill
    <3>2. FileOf(j) = StateFile => draft[j] \in States
      <4>1. stage[j] = "fill" /\ at[j] \in Writing
        BY <1>1, <2>4 DEF Fill, Placed
      <4> QED
        BY <1>1, <4>1, DraftIsState DEF WritesState
    <3> QED
      BY <1>1, <3>1, <3>2 DEF RestInv
  <2> QED
    BY <2>1, <2>2, <2>3, <2>4
<1> QED
  BY <1>2, <1>3, <1>4 DEF RestInv

\* The steps that leave the files alone.
LEMMA QuietRests ==
  ASSUME StoreInv, KeptInv, RestInv, NEW j \in Jobs,
         \/ StartCycle(j) \/ StartSeed(j) \/ StartDiscovery(j) \/ CycleRaises(j)
         \/ Collect(j) \/ Count(j) \/ Judge(j) \/ Calibrate(j) \/ Stop(j) \/ Release(j)
  PROVE  RestInv'
<1>1. /\ counted \in [Jobs -> Nat] /\ running \subseteq Profiles /\ spare \in Nat
      /\ ProfileOf[j] \in Profiles
  BY ConstantTypes DEF RestInv
<1>2. tmp' = tmp
  BY DEF StartCycle, StartSeed, StartDiscovery, CycleRaises, Raise, Collect, Count, Judge,
         Calibrate, Stop, Release, Unwritten
<1>3. (tmp[StateFile] \in {Absent, Torn} \/ tmp[StateFile] \in States)'
  BY <1>2, StateTemporary
<1>4. counted' \in [Jobs -> Nat]
  <2>1. CASE Count(j)
    <3>1. counted' = [counted EXCEPT ![j] = Cardinality(Targets(j))]
      BY <2>1 DEF Count
    <3> QED
      BY <1>1, <3>1, TargetsAreCounted
  <2>2. CASE Release(j)
    <3>1. counted' = [i \in Jobs |-> IF i \in {j} THEN 0 ELSE counted[i]]
      BY <2>2 DEF Release, Forget
    <3> QED
      BY <1>1, <3>1
  <2>3. CASE ~Count(j) /\ ~Release(j)
    <3>1. counted' = counted
      BY <2>3 DEF StartCycle, StartSeed, StartDiscovery, CycleRaises, Raise, Collect, Judge,
                  Calibrate, Stop
    <3> QED
      BY <1>1, <3>1
  <2> QED
    BY <2>1, <2>2, <2>3
<1>5. running' \subseteq Profiles
  <2>1. \/ running' = running
        \/ running' = running \cup {ProfileOf[j]}
        \/ running' = running \ {ProfileOf[j]}
    BY DEF StartCycle, StartSeed, StartDiscovery, CycleRaises, Raise, Collect, Acquire,
           Count, Judge, Calibrate, Stop, Release
  <2> QED
    BY <1>1, <2>1
<1>6. spare' \in Nat
  <2>1. CASE Judge(j)
    <3>1. \E content : Read(StateFile, content)
      BY <2>1 DEF Judge
    <3> QED
      BY <1>1, <3>1, ReadSpares
  <2>2. CASE ~Judge(j)
    <3>1. spare' = spare \/ (spare > 0 /\ spare' = spare - 1)
      BY <2>2 DEF StartCycle, StartSeed, StartDiscovery, CycleRaises, Collect, Count,
                  Calibrate, Stop, Release
    <3> QED
      BY <1>1, <3>1
  <2> QED
    BY <2>1, <2>2
<1> QED
  BY <1>3, <1>4, <1>5, <1>6 DEF RestInv

LEMMA StepRests ==
  ASSUME StoreInv, KeptInv, RestInv, [Next]_vars
  PROVE  RestInv'
<1>1. ASSUME NEW j \in Jobs,
             \/ StartCycle(j) \/ StartSeed(j) \/ StartDiscovery(j)
             \/ Proceed(j) \/ WriteFails(j) \/ CycleRaises(j)
      PROVE  RestInv'
  BY <1>1, WriteRests, QuietRests DEF Proceed
<1>2. ASSUME NEW process, Kill(process) PROVE RestInv'
  <2>1. \E jobs : counted' = [j \in Jobs |-> IF j \in jobs THEN 0 ELSE counted[j]]
    BY <1>2 DEF Kill, Forget
  <2>2. tmp' = tmp /\ running' = running /\ spare > 0 /\ spare' = spare - 1
    BY <1>2 DEF Kill
  <2>3. counted' \in [Jobs -> Nat]
    BY <2>1 DEF RestInv
  <2> QED
    BY <2>2, <2>3, StateTemporary DEF RestInv
<1>3. CASE UNCHANGED vars
  BY <1>3 DEF vars, RestInv
<1> QED
  BY <1>1, <1>2, <1>3 DEF Next

LEMMA InitRests == ASSUME Init PROVE RestInv
<1>1. spare \in Nat
  <2>1. PICK run \in Together : spare = run.faults
    BY DEF Init
  <2>2. Together \subseteq [jobs : SUBSET Jobs, faults : Nat]
    BY StoreAssumption
  <2> QED
    BY <2>1, <2>2
<1>2. counted = [j \in Jobs |-> 0] /\ running = {} /\ tmp = [f \in Files |-> Absent]
  BY DEF Init
<1> QED
  BY <1>1, <1>2, ConstantTypes DEF RestInv

\* Whatever is killed, torn or failed, each file and each temporary file is absent,
\* torn, or something of its kind, and jobs, drafts, counts and browsers keep their
\* types: for any set of commands (FileStateStore, JsonProfileCatalog,
\* JsonCalibrationTargetPool, ProfileCycleCommand).
THEOREM StoreTypeCorrect == Spec => []TypeOK
<1>1. Init => StoreInv /\ KeptInv /\ RestInv
  BY InitStore, InitKept, InitRests
<1>2. StoreInv /\ KeptInv /\ RestInv /\ [Next]_vars => (StoreInv /\ KeptInv /\ RestInv)'
  BY StepStore, StepKept, StepRests
<1>3. StoreInv /\ KeptInv /\ RestInv => TypeOK
  <2> SUFFICES ASSUME StoreInv, KeptInv, RestInv PROVE TypeOK
    OBVIOUS
  <2>1. TypesInv /\ FilesInv /\ PoolsInv
    BY DEF StoreInv, KeptInv
  <2>2. ASSUME NEW f \in Files
        PROVE  /\ disk[f] \in {Absent, Torn} \/ disk[f] \in Holdings(f)
               /\ tmp[f] \in {Absent, Torn} \/ tmp[f] \in Holdings(f)
    <3>1. CASE f = StateFile
      <4>1. Holdings(f) = States
        BY <3>1, ConstantTypes DEF Holdings, States
      <4> QED
        BY <2>1, <3>1, <4>1 DEF FilesInv, RestInv
    <3>2. CASE f = CatalogFile
      <4>1. Holdings(f) = Catalogs
        BY <3>2, ConstantTypes DEF Holdings, Catalogs
      <4> QED
        BY <2>1, <3>2, <4>1 DEF FilesInv
    <3>3. CASE f \in PoolFiles
      <4>1. Holdings(f) = Seq(Ads)
        BY <3>3, PathsAre DEF Holdings
      <4> QED
        BY <2>1, <3>3, <4>1 DEF PoolsInv, GoodPools
    <3> QED
      BY <3>1, <3>2, <3>3, PathsAre
  <2>3. made \in [Jobs -> Seq(Results)]
    <3>1. <<>> \in Seq(Results) /\ \A r \in Results : <<r>> \in Seq(Results)
      OBVIOUS
    <3>2. \A batch \in Batches : batch = <<>> \/ \E r \in Results : batch = <<r>>
      BY DEF Batches
    <3>3. Batches \subseteq Seq(Results)
      BY <3>1, <3>2, Zenon
    <3> QED
      BY <2>1, <3>3 DEF TypesInv
  <2>4. attached \subseteq Cycles
    BY <2>1 DEF StoreInv, JobInv, Works, HoldsProfile, TypesInv
  <2>5. DOMAIN disk = Files /\ DOMAIN tmp = Files
    BY <2>1 DEF FilesInv
  <2>6. /\ at \in [Jobs -> Places] /\ stage \in [Jobs -> Stages] /\ unread \in BOOLEAN
        /\ country \in [Jobs -> Countries \cup {None}]
    BY <2>1 DEF TypesInv
  <2>7. merged \subseteq Jobs \X Files
    BY <2>1 DEF PoolsInv
  <2> QED
    BY <2>2, <2>3, <2>4, <2>5, <2>6, <2>7 DEF TypeOK, RestInv, Stages
<1> QED
  BY <1>1, <1>2, <1>3, PTL DEF Spec
=============================================================================
