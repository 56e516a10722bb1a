---------------------------- MODULE ProfileJournal ----------------------------
(***************************************************************************)
(* What the state file promises to the commands that share it: one book    *)
(* with a record per profile, and updates that each change the record of   *)
(* their own profile in one step, or not at all.  A finished cycle adds    *)
(* its run, its calibrations and the series it is in; a seeded baseline    *)
(* adds its run and leaves the rest alone.                                 *)
(*                                                                         *)
(* There is one exception, and it is the code's: a file that cannot be     *)
(* read counts as empty, and what is written next starts over from there.  *)
(***************************************************************************)
EXTENDS Integers, Sequences, SequencesExt

CONSTANTS
  Profiles,
  Jobs,       \* the commands and cycles that write an update
  ProfileOf,  \* the profile a job is for
  Seeds,      \* the jobs that seed a baseline
  Results,    \* what a calibration pass can report
  Keep,       \* runs and calibrations kept per profile
  BurstLimit

VARIABLES
  book,       \* the record of each profile
  pending,    \* updates that have been asked for and not yet filed
  unreadable  \* the file could not be read at some time

journalVars == <<book, pending, unreadable>>

Blank == [runs |-> <<>>, calibrations |-> <<>>, burst |-> 0, active |-> FALSE]
Newest(s) == IF Len(s) > Keep THEN SubSeq(s, Len(s) - Keep + 1, Len(s)) ELSE s

\* The records a filed update can make of a record.
Filed(job, record) ==
  LET runs == Newest(Append(record.runs, job)) IN
  IF job \in Seeds
    THEN {[record EXCEPT !.runs = runs]}
    ELSE {[runs |-> runs, calibrations |-> Newest(record.calibrations \o more),
           burst |-> burst, active |-> active] :
             more \in {<<>>} \cup {<<r>> : r \in Results},
             burst \in 0..BurstLimit, active \in BOOLEAN}

JournalInit ==
  /\ book = [p \in Profiles |-> Blank]
  /\ pending = {} /\ unreadable = FALSE

\* The job may just have failed to read the file.
Ask(job) ==
  /\ job \notin pending
  /\ pending' = pending \cup {job}
  /\ unreadable' \in {unreadable, TRUE}
  /\ UNCHANGED book

Put(job, from) ==
  /\ job \in pending
  /\ pending' = pending \ {job}
  /\ \E record \in Filed(job, from[ProfileOf[job]]) :
       book' = [from EXCEPT ![ProfileOf[job]] = record]
  /\ UNCHANGED unreadable

File(job) == Put(job, book)
StartOver(job) == unreadable /\ Put(job, [p \in Profiles |-> Blank])

\* The command failed or its process was killed before the update was made.
Lose(jobs) ==
  /\ jobs # {}
  /\ pending' = pending \ jobs
  /\ UNCHANGED <<book, unreadable>>

CannotRead ==
  /\ unreadable' = TRUE
  /\ UNCHANGED <<book, pending>>

Settle(job) == File(job) \/ StartOver(job) \/ (job \in pending /\ Lose({job}))

JournalNext ==
  \/ \E job \in Jobs : Ask(job) \/ File(job) \/ StartOver(job)
  \/ \E jobs \in SUBSET pending : Lose(jobs)
  \/ CannotRead

\* What may happen to the book, and what must: an update that was asked for is
\* filed or lost.
JournalSafety == JournalInit /\ [][JournalNext]_journalVars
Journal ==
  /\ JournalSafety
  /\ \A job \in Jobs : WF_journalVars(Settle(job))
================================================================================
