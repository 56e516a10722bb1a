------------------------- MODULE RunLifecycleProofs -------------------------
(***************************************************************************)
(* What RunLifecycle guarantees for any set of ads, any number of task     *)
(* attempts, polls of the drain, stop requests and restarts.               *)
(***************************************************************************)
EXTENDS RunLifecycle, TLAPS

(* The inductive invariant, in its parts.                                  *)

\* A queued task belongs to an attempt, and attempts are limited by the rounds of
\* a batch that are left.  Only the queue counts attempts.
AttemptsBounded ==
  /\ monitor # "lost" => \A k \in Keys : outstanding[k] <= attempts[k]
  /\ monitor \in {"batch", "waiting"} =>
       drains <= Attempts /\ \A k \in Keys : attempts[k] + drains <= Attempts
  /\ mode = "batch" /\ monitor \in {"none", "starting", "launched", "poll", "final"} =>
       attempts = Unqueued
  /\ mode \in {"inline", "disabled"} => attempts = Unqueued

\* A batch passes through points of its own and decides at its end.
BatchDecidesLast ==
  /\ monitor \in {"drain", "expired", "finalizing"} => mode # "batch"
  /\ monitor \in {"batch", "waiting"} => mode = "batch"
  /\ mode = "batch" /\ monitor \notin {"done", "died"} => Decided = {}

\* Unless the filter is off, whatever is stored or accepted has been called
\* relevant; the file alone may hold what the collector has written last.
JudgedFirst ==
  /\ mode # "disabled" => /\ accepted \cup rows \subseteq judged
                          /\ adsJson \subseteq judged \/ (written /\ adsJson = source)
  /\ \A k \in Keys : result[k] = "relevant" => k \in judged
  /\ rows \cap foreign = {}

DecidedOnce == accepted \cap rejected = {}

\* Until a session polls or a batch ends nothing is decided or stored, and ads.json
\* is the collector's; return code zero comes behind its write.
ImportStarts ==
  /\ ~streamed /\ monitor \notin {"done", "died", "lost"} =>
       /\ accepted = {} /\ rejected = {} /\ rows = {}
       /\ adsJson = IF written THEN source ELSE {}
       /\ mode # "batch" => attempts = Unqueued
  /\ written \/ returnCode # "zero"
  /\ streamed => mode # "batch"
  /\ monitor \in {"drain", "expired", "finalizing"} => streamed
  /\ monitor = "final" /\ mode # "batch" => streamed \/ ~written
  /\ monitor \in {"batch", "waiting"} => ~streamed /\ written
  /\ monitor = "closing" => ~streamed /\ ~written

\* What the row and the monitor's copy of it can say at each point.
RowFollowsMonitor ==
  /\ monitor \in {"none", "starting"} => process = "none"
  /\ process = "alive" \/ process = "none" => returnCode = "none"
  /\ monitor \in {"drain", "expired", "final", "finalizing", "batch", "waiting", "closing",
                 "done"}
       => process = "exited"
  /\ process = "exited" => returnCode \in {"zero", "other"}
  /\ monitor \in {"poll", "drain", "expired", "final", "finalizing", "batch", "waiting",
                 "closing"}
       => status \in {"running", "stopping"}
  /\ monitor \in {"finalizing", "batch", "waiting", "closing"} => loaded \in {"running", "stopping"}
  /\ "stopping" \in {status, loaded} \/ stopper = "signalled" => stops > 0
  /\ status \in Final => monitor = "done"

\* Once the collector has exited, the drain sees everything at its first poll.
DrainSeesAll ==
  /\ monitor = "drain" => drains = DrainPolls \/ Fresh = {} \/ Pending = {}
  /\ monitor = "expired" => Fresh = {} /\ Pending = {}
  /\ monitor \in {"final", "finalizing"} /\ mode # "batch" => Pending = {}

ImportInv ==
  /\ TypeOK /\ AttemptsBounded /\ BatchDecidesLast /\ JudgedFirst /\ DecidedOnce
  /\ ImportStarts /\ RowFollowsMonitor /\ FinalStatusIsTrue /\ DrainSeesAll /\ FinishedImportIsWhole

-----------------------------------------------------------------------------
(* The steps of the import.                                                *)

\* The part of TypeOK that is StreamImport's.
ImportType ==
  /\ mode \in Modes /\ source \in SUBSET Keys /\ written \in BOOLEAN
  /\ attempts \in [Keys -> 0..Attempts]
  /\ accepted \in SUBSET Keys /\ rejected \in SUBSET Keys /\ inserted \in SUBSET Keys
  /\ outstanding \in [Keys -> 0..Attempts]
  /\ result \in [Keys -> {"none", "relevant", "irrelevant", "broken"}]
  /\ rows \in SUBSET Keys /\ foreign \in SUBSET IdKeys /\ adsJson \in SUBSET Keys
  /\ judged \in SUBSET Keys

TasksCounted == \A k \in Keys : outstanding[k] <= attempts[k]

Kept == ImportType /\ JudgedFirst /\ DecidedOnce

LEMMA ConstantTypes ==
  /\ Attempts \in Nat /\ Attempts >= 1 /\ DrainPolls \in Nat /\ DrainPolls >= 1
  /\ MaxStops \in Nat /\ MaxRestarts \in Nat
  /\ IdKeys \subseteq Keys
BY ImportAssumption, LifecycleAssumption DEF Keys

LEMMA TypesSplit == TypeOK => ImportType
BY DEF TypeOK, ImportType

\* Tasks are only queued for keys that have an attempt left.
LEMMA QueueCounts ==
  ASSUME ImportType, TasksCounted, NEW late \in SUBSET Pending, Queue(late)
  PROVE  /\ attempts' \in [Keys -> 0..Attempts] /\ outstanding' \in [Keys -> 0..Attempts]
         /\ TasksCounted'
         /\ \A k \in Keys : attempts[k] > 0 => attempts'[k] > 0
         /\ mode = "tasks" => \A k \in Fresh : attempts'[k] > 0
         /\ mode # "tasks" => attempts' = attempts
         /\ \A k \in Keys : attempts'[k] > 0 => attempts[k] > 0 \/ k \in Fresh
<1> DEFINE sent == IF mode = "tasks" THEN Fresh \cup (late \ Exhausted(late)) ELSE {}
<1>1. /\ attempts' = [k \in Keys |-> IF k \in sent THEN attempts[k] + 1 ELSE attempts[k]]
      /\ outstanding' = [k \in Keys |-> IF k \in sent THEN outstanding[k] + 1
                                                     ELSE outstanding[k]]
  BY DEF Queue
<1>2. \A k \in Keys : attempts[k] \in 0..Attempts /\ outstanding[k] \in 0..Attempts
  BY DEF ImportType
<1>3. \A k \in sent : k \in Keys /\ attempts[k] + 1 <= Attempts
  BY <1>2, ConstantTypes DEF Fresh, Exhausted, Pending, ImportType
<1>4. \A k \in sent : k \in Fresh \/ attempts[k] > 0
  BY DEF Pending
<1>5. mode = "tasks" => Fresh \subseteq sent
  OBVIOUS
<1>6. mode # "tasks" => sent = {}
  OBVIOUS
<1>7. Fresh \subseteq Keys
  BY DEF Fresh, ImportType
<1> HIDE DEF sent
<1>8. attempts' \in [Keys -> 0..Attempts] /\ outstanding' \in [Keys -> 0..Attempts]
  BY <1>1, <1>2, <1>3, ConstantTypes DEF TasksCounted
<1>9. TasksCounted'
  BY <1>1, <1>2 DEF TasksCounted
<1>10. mode # "tasks" => attempts' = attempts
  BY <1>1, <1>6 DEF ImportType
<1> QED
  BY <1>1, <1>2, <1>4, <1>5, <1>7, <1>8, <1>9, <1>10, ConstantTypes

\* A poll's verdicts: for keys that have none, each at most once.
LEMMA JudgeKeeps ==
  ASSUME Kept, TasksCounted, NEW late \in SUBSET Pending, NEW liked \in SUBSET Fresh,
         Judge(late, liked), mode # "batch"
  PROVE  /\ mode' \in Modes /\ source' \in SUBSET Keys
         /\ mode' = mode /\ source' = source /\ written' = written
         /\ attempts' \in [Keys -> 0..Attempts] /\ outstanding' \in [Keys -> 0..Attempts]
         /\ result' \in [Keys -> {"none", "relevant", "irrelevant", "broken"}]
         /\ accepted' \in SUBSET Keys /\ rejected' \in SUBSET Keys /\ judged' \in SUBSET Keys
         /\ accepted \subseteq accepted' /\ rejected \subseteq rejected'
         /\ mode # "disabled" => accepted' \subseteq judged'
         /\ judged \subseteq judged'
         /\ \A k \in Keys : result'[k] = "relevant" => k \in judged'
         /\ DecidedOnce' /\ TasksCounted'
<1>1. /\ PollInput(late, liked) /\ Queue(late)
      /\ accepted' = accepted \cup NowAccepted(liked)
      /\ rejected' = rejected \cup NowRejected(late, liked)
      /\ judged' = judged \cup (IF mode = "inline" THEN liked ELSE {})
      /\ mode' = mode /\ source' = source /\ written' = written /\ result' = result
  BY DEF Judge
<1>2. Pending \subseteq Keys \ Decided /\ Fresh \subseteq Keys \ Decided
  BY DEF Kept, ImportType, Pending, Fresh
<1>3. NowAccepted(liked) \subseteq Keys \ Decided
  BY <1>2 DEF NowAccepted, Answered
<1>4. NowRejected(late, liked) \subseteq Keys \ Decided
  BY <1>1, <1>2 DEF NowRejected, Answered, Exhausted
<1>5. NowAccepted(liked) \cap NowRejected(late, liked) = {}
  BY <1>1 DEF NowAccepted, NowRejected, PollInput, Exhausted
<1>6. mode # "disabled" => NowAccepted(liked) \subseteq judged'
  <2>1. CASE mode = "tasks"
    BY <1>1, <1>3, <2>1 DEF NowAccepted, Kept, JudgedFirst
  <2>2. CASE mode = "inline"
    BY <1>1, <2>2 DEF NowAccepted
  <2> QED
    BY <2>1, <2>2, ImportAssumption DEF Kept, ImportType
<1>7. DecidedOnce'
  BY <1>1, <1>3, <1>4, <1>5 DEF Kept, DecidedOnce, Decided
<1>8. mode # "disabled" => accepted' \subseteq judged'
  BY <1>1, <1>6 DEF Kept, JudgedFirst
<1>9. liked \subseteq Keys
  BY <1>2
<1> QED
  BY <1>1, <1>3, <1>4, <1>7, <1>8, <1>9, QueueCounts DEF Kept, ImportType, JudgedFirst

\* What the rows and the file may hold (as in JudgedFirst).
StoredInOrder ==
  /\ mode # "disabled" => /\ rows \subseteq judged
                          /\ adsJson \subseteq judged \/ (written /\ adsJson = source)
  /\ rows \cap foreign = {}

\* A synchronisation stores only what has been accepted and is not another run's,
\* whether it goes through or not.
LEMMA SyncKeeps ==
  ASSUME Kept, NEW replace \in BOOLEAN,
         mode' = mode, written' = written, source' = source,
         accepted' \in SUBSET Keys, judged \subseteq judged',
         mode # "disabled" => accepted' \subseteq judged',
         SyncCommits(replace) \/ SyncFails(replace)
  PROVE  /\ inserted' \in SUBSET Keys /\ rows' \in SUBSET Keys
         /\ foreign' \in SUBSET IdKeys /\ adsJson' \in SUBSET Keys
         /\ StoredInOrder'
<1>1. ToInsert(replace) \subseteq accepted' /\ NewRows(replace) \subseteq accepted' \ foreign
  BY DEF ToInsert, NewRows
<1>2. InsertedBefore(replace) \subseteq Keys
  BY DEF InsertedBefore, Kept, ImportType
<1>3. CASE SyncCommits(replace)
  BY <1>1, <1>2, <1>3
     DEF SyncCommits, Remember, Kept, ImportType, JudgedFirst, StoredInOrder
<1>4. CASE SyncConflicts(replace)
  BY <1>1, <1>2, <1>4 DEF SyncConflicts, Kept, ImportType, JudgedFirst, StoredInOrder
<1>5. CASE SyncRollsBack(replace)
  BY <1>1, <1>2, <1>5
     DEF SyncRollsBack, Remember, Kept, ImportType, JudgedFirst, StoredInOrder
<1>6. CASE SyncWritesNothing
  BY <1>6 DEF SyncWritesNothing, Kept, ImportType, JudgedFirst, StoredInOrder
<1> QED
  BY <1>3, <1>4, <1>5, <1>6 DEF SyncFails

\* A whole poll.
LEMMA PollKeeps ==
  ASSUME Kept, TasksCounted, Poll, mode # "batch"
  PROVE  /\ Kept' /\ TasksCounted'
         /\ accepted \subseteq accepted' /\ rejected \subseteq rejected'
         /\ mode' = mode /\ source' = source /\ written' = written
<1>1. CASE \E late \in SUBSET Pending, liked \in SUBSET Fresh :
          /\ Judge(late, liked)
          /\ IF Changed(late)
               THEN SyncCommits(FALSE) \/ SyncFails(FALSE)
               ELSE UNCHANGED <<inserted, storeVars>>
  <2>1. PICK late \in SUBSET Pending, liked \in SUBSET Fresh :
          /\ Judge(late, liked)
          /\ IF Changed(late)
               THEN SyncCommits(FALSE) \/ SyncFails(FALSE)
               ELSE UNCHANGED <<inserted, storeVars>>
    BY <1>1
  <2>2. /\ mode' \in Modes /\ source' \in SUBSET Keys
        /\ mode' = mode /\ source' = source /\ written' = written
        /\ attempts' \in [Keys -> 0..Attempts] /\ outstanding' \in [Keys -> 0..Attempts]
        /\ result' \in [Keys -> {"none", "relevant", "irrelevant", "broken"}]
        /\ accepted' \in SUBSET Keys /\ rejected' \in SUBSET Keys /\ judged' \in SUBSET Keys
        /\ accepted \subseteq accepted' /\ rejected \subseteq rejected'
        /\ mode # "disabled" => accepted' \subseteq judged'
        /\ judged \subseteq judged'
        /\ \A k \in Keys : result'[k] = "relevant" => k \in judged'
        /\ DecidedOnce' /\ TasksCounted'
    BY <2>1, JudgeKeeps
  <2>3. CASE Changed(late)
    <3>1. /\ inserted' \in SUBSET Keys /\ rows' \in SUBSET Keys
          /\ foreign' \in SUBSET IdKeys /\ adsJson' \in SUBSET Keys
          /\ StoredInOrder'
      BY <2>1, <2>2, <2>3, SyncKeeps
    <3> QED
      BY <2>1, <2>2, <3>1 DEF Kept, ImportType, JudgedFirst, StoredInOrder, Judge
  <2>4. CASE ~Changed(late)
    BY <2>1, <2>2, <2>4 DEF storeVars, Kept, ImportType, JudgedFirst, Judge
  <2> QED
    BY <2>3, <2>4
<1>2. CASE /\ \E before \in SUBSET (Answered \ Broken) :
                /\ accepted' = accepted \cup {k \in before : result[k] = "relevant"}
                /\ rejected' = rejected \cup {k \in before : result[k] = "irrelevant"}
           /\ Queue({})
           /\ UNCHANGED <<mode, source, written, result, judged, inserted, storeVars>>
  <2>1. PICK before \in SUBSET (Answered \ Broken) :
          /\ accepted' = accepted \cup {k \in before : result[k] = "relevant"}
          /\ rejected' = rejected \cup {k \in before : result[k] = "irrelevant"}
    BY <1>2
  <2>2. before \subseteq Keys \ Decided
    BY DEF Answered, Pending
  <2>3. /\ attempts' \in [Keys -> 0..Attempts] /\ outstanding' \in [Keys -> 0..Attempts]
        /\ TasksCounted'
    BY <1>2, QueueCounts DEF Kept
  <2>4. DecidedOnce'
    BY <2>1, <2>2 DEF Kept, DecidedOnce, Decided
  <2>5. JudgedFirst'
    BY <1>2, <2>1, <2>2 DEF Kept, JudgedFirst, storeVars
  <2> QED
    BY <1>2, <2>1, <2>2, <2>3, <2>4, <2>5 DEF Kept, ImportType, storeVars
<1> QED
  BY <1>1, <1>2 DEF Poll

\* After a poll nothing the poll has seen is left without a task or a verdict, and
\* only what it has seen for the first time can be newly pending.
LEMMA PollSeesAll ==
  ASSUME Kept, TasksCounted, Poll, mode # "batch",
         mode \in {"inline", "disabled"} => attempts = Unqueued
  PROVE  /\ Fresh' = {}
         /\ Fresh = {} /\ Pending = {} => Pending' = {}
         /\ mode \in {"inline", "disabled"} => attempts' = Unqueued
<1>1. PICK late \in SUBSET Pending : Queue(late)
  BY DEF Poll, Judge
<1>2. /\ \A k \in Keys : attempts[k] > 0 => attempts'[k] > 0
      /\ mode = "tasks" => \A k \in Fresh : attempts'[k] > 0
      /\ mode # "tasks" => attempts' = attempts
      /\ \A k \in Keys : attempts'[k] > 0 => attempts[k] > 0 \/ k \in Fresh
  BY <1>1, QueueCounts DEF Kept
<1>3. accepted \subseteq accepted' /\ rejected \subseteq rejected' /\ source' = source
      /\ mode' = mode
  BY PollKeeps
<1>4. mode \in {"tasks", "inline", "disabled"}
  BY ImportAssumption DEF Kept, ImportType
<1>5. \A k \in Keys : attempts[k] \in Nat
  BY DEF Kept, ImportType
<1>6. CASE mode = "tasks"
  <2>1. \A k \in source \ Decided : attempts'[k] > 0
    BY <1>2, <1>5, <1>6 DEF Fresh, Kept, ImportType
  <2> QED
    BY <2>1, <1>2, <1>3, <1>6 DEF Fresh, Pending, Decided
<1>7. CASE mode # "tasks"
  <2>1. attempts = Unqueued
    BY <1>4, <1>7
  <2>2. Pending = {} /\ Broken = {}
    BY <2>1 DEF Pending, Broken, Unqueued
  <2>3. PICK liked \in SUBSET Fresh, l \in SUBSET Pending : Judge(l, liked)
    BY <2>2 DEF Poll
  <2>4. Fresh \subseteq accepted' \cup rejected'
    BY <2>3, <1>7 DEF Judge, NowAccepted, NowRejected
  <2> QED
    BY <2>1, <2>4, <1>2, <1>3, <1>7 DEF Fresh, Pending, Decided, Unqueued
<1> QED
  BY <1>6, <1>7

\* The workers and other runs touch neither the session nor what it has stored.
LEMMA OutsideKeeps ==
  ASSUME Kept, Outside
  PROVE  /\ Kept'
         /\ UNCHANGED <<mode, source, written, memoryVars, rows, adsJson>>
         /\ \A k \in Keys : outstanding'[k] <= outstanding[k]
         /\ rows = accepted \ foreign => rows' = accepted' \ foreign'
<1>0. \A k \in Keys : outstanding[k] \in 0..Attempts
  BY DEF Kept, ImportType
<1>1. ASSUME NEW k \in Keys, NEW v \in {"relevant", "irrelevant"}, FinishTask(k, v)
      PROVE  /\ Kept'
             /\ UNCHANGED <<mode, source, written, memoryVars, rows, adsJson>>
             /\ \A j \in Keys : outstanding'[j] <= outstanding[j]
             /\ foreign' = foreign
  <2>1. /\ outstanding' \in [Keys -> 0..Attempts]
        /\ \A j \in Keys : outstanding'[j] <= outstanding[j]
    BY <1>0, <1>1, ConstantTypes DEF FinishTask, Kept, ImportType
  <2>2. result' \in [Keys -> {"none", "relevant", "irrelevant", "broken"}]
    BY <1>1 DEF FinishTask, Kept, ImportType
  <2>3. JudgedFirst'
    BY <1>1 DEF FinishTask, Kept, ImportType, JudgedFirst, memoryVars, storeVars
  <2> QED
    BY <1>1, <2>1, <2>2, <2>3
       DEF FinishTask, Kept, ImportType, DecidedOnce, memoryVars, storeVars
<1>2. ASSUME NEW k \in Keys, TearResult(k) \/ LoseTask(k)
      PROVE  /\ Kept'
             /\ UNCHANGED <<mode, source, written, memoryVars, rows, adsJson>>
             /\ \A j \in Keys : outstanding'[j] <= outstanding[j]
             /\ foreign' = foreign
  <2>1. /\ outstanding' \in [Keys -> 0..Attempts]
        /\ \A j \in Keys : outstanding'[j] <= outstanding[j]
    BY <1>0, <1>2, ConstantTypes DEF TearResult, LoseTask, Kept, ImportType
  <2>2. /\ result' \in [Keys -> {"none", "relevant", "irrelevant", "broken"}]
        /\ \A j \in Keys : result'[j] = "relevant" => result[j] = "relevant"
    BY <1>2 DEF TearResult, LoseTask, Kept, ImportType
  <2> QED
    BY <1>2, <2>1, <2>2
       DEF TearResult, LoseTask, Kept, ImportType, JudgedFirst, DecidedOnce, memoryVars, storeVars
<1>3. ASSUME NEW k \in IdKeys, OtherRunImports(k)
      PROVE  /\ Kept'
             /\ UNCHANGED <<mode, source, written, memoryVars, rows, adsJson>>
             /\ \A j \in Keys : outstanding'[j] <= outstanding[j]
             /\ rows = accepted \ foreign => rows' = accepted' \ foreign'
  BY <1>0, <1>3
     DEF OtherRunImports, Kept, ImportType, JudgedFirst, DecidedOnce, memoryVars, taskVars
<1> QED
  BY <1>1, <1>2, <1>3 DEF Outside, memoryVars

\* The steps of the row, the process and the registry leave the import alone.
RowStep ==
  \/ StartRun \/ Launch \/ CommitRunning \/ Reap \/ DrainEnds \/ LoadRow \/ BatchWaited
  \/ Close \/ (\E code \in {"zero", "other"} : Exit(code)) \/ StopSignal \/ StopCommit
  \/ UNCHANGED vars

LEMMA RowStepKeeps ==
  ASSUME Kept, RowStep
  PROVE  Kept' /\ UNCHANGED importVars
<1>1. UNCHANGED importVars
  BY DEF RowStep, StartRun, Launch, CommitRunning, Reap, DrainEnds, LoadRow, BatchWaited,
         Close, Exit, StopSignal, StopCommit, vars
<1> QED
  BY <1>1 DEF importVars, memoryVars, taskVars, storeVars, Kept, ImportType, JudgedFirst,
              DecidedOnce

\* Every step is one of these: the cases of the proofs below.
LEMMA StepCases ==
  ASSUME [Next]_vars
  PROVE  \/ RowStep
         \/ MonitorPoll \/ DrainPoll \/ PollExpired \/ Expire
         \/ Finalize \/ FinalizeRaises \/ BatchQueue \/ BatchImport
         \/ (\E k \in Keys : Collect(k)) \/ FinalWrite
         \/ BackendRestart
         \/ Outside /\ UNCHANGED <<restVars, monitor, drains, tail, streamed>>
BY DEF Next, Monitor, RowStep

\* Whichever step is taken, types, the order of judgement and storage, and the
\* uniqueness of verdicts are kept.
LEMMA KeptStep ==
  ASSUME ImportInv, [Next]_vars
  PROVE  Kept'
<1>0. Kept /\ (monitor # "lost" => TasksCounted)
  BY TypesSplit DEF ImportInv, Kept, AttemptsBounded, TasksCounted
<1>1. CASE RowStep
  BY <1>0, <1>1, RowStepKeeps
<1>2. CASE MonitorPoll \/ DrainPoll \/ PollExpired
  <2>1. Poll /\ mode # "batch" /\ monitor # "lost"
    BY <1>2 DEF MonitorPoll, DrainPoll, PollExpired, ImportInv, BatchDecidesLast
  <2> QED
    BY <1>0, <2>1, PollKeeps
<1>3. CASE Expire
  BY <1>0, <1>3 DEF Expire, ExpirePending, Pending, Decided, Kept, ImportType, JudgedFirst,
                    DecidedOnce, taskVars, storeVars
<1>4. CASE Finalize \/ FinalizeRaises
  <2>1. PICK late \in SUBSET Pending, liked \in SUBSET Fresh : Judge(late, liked)
    BY <1>4 DEF Finalize, FinalizeRaises
  <2>2. SyncCommits(TRUE) \/ SyncFails(TRUE)
    BY <1>4 DEF Finalize, FinalizeRaises
  <2>3. monitor # "lost" /\ mode # "batch"
    BY <1>4 DEF Finalize, FinalizeRaises, ImportInv, BatchDecidesLast
  <2>4. /\ mode' \in Modes /\ source' \in SUBSET Keys
        /\ mode' = mode /\ source' = source /\ written' = written
        /\ attempts' \in [Keys -> 0..Attempts] /\ outstanding' \in [Keys -> 0..Attempts]
        /\ result' \in [Keys -> {"none", "relevant", "irrelevant", "broken"}]
        /\ accepted' \in SUBSET Keys /\ rejected' \in SUBSET Keys /\ judged' \in SUBSET Keys
        /\ mode # "disabled" => accepted' \subseteq judged'
        /\ judged \subseteq judged'
        /\ \A k \in Keys : result'[k] = "relevant" => k \in judged'
        /\ DecidedOnce'
    BY <1>0, <2>1, <2>3, JudgeKeeps
  <2>5. /\ inserted' \in SUBSET Keys /\ rows' \in SUBSET Keys
        /\ foreign' \in SUBSET IdKeys /\ adsJson' \in SUBSET Keys
        /\ StoredInOrder'
    BY <1>0, <2>2, <2>4, SyncKeeps
  <2> QED
    BY <1>0, <2>4, <2>5 DEF Kept, ImportType, JudgedFirst, StoredInOrder
<1>5. CASE BatchQueue
  <2>1. \A k \in Keys : attempts[k] + 1 <= Attempts /\ outstanding[k] <= attempts[k]
    BY <1>5, ConstantTypes DEF BatchQueue, ImportInv, TypeOK, AttemptsBounded
  <2>2. \A k \in Keys : attempts[k] \in 0..Attempts /\ outstanding[k] \in 0..Attempts
    BY <1>0 DEF Kept, ImportType
  <2>3. attempts' \in [Keys -> 0..Attempts] /\ outstanding' \in [Keys -> 0..Attempts]
    BY <1>5, <2>1, <2>2, ConstantTypes DEF BatchQueue, QueueMissing
  <2> QED
    BY <1>0, <1>5, <2>3
       DEF BatchQueue, QueueMissing, Kept, ImportType, JudgedFirst, DecidedOnce, storeVars
<1>6. CASE BatchImport
  <2>1. CASE UNCHANGED importVars
    BY <1>0, <2>1 DEF importVars, memoryVars, taskVars, storeVars, Kept, ImportType,
                      JudgedFirst, DecidedOnce
  <2>2. CASE Partition /\ (SyncCommits(TRUE) \/ SyncFails(TRUE))
    <3>1. /\ accepted' \in SUBSET Keys /\ rejected' \in SUBSET Keys
          /\ accepted' \subseteq judged' /\ judged' = judged /\ accepted' \cap rejected' = {}
          /\ mode' = mode /\ written' = written /\ source' = source
      BY <1>0, <2>2 DEF Partition, taskVars, Kept, ImportType, JudgedFirst
    <3>2. /\ inserted' \in SUBSET Keys /\ rows' \in SUBSET Keys
          /\ foreign' \in SUBSET IdKeys /\ adsJson' \in SUBSET Keys
          /\ StoredInOrder'
      BY <1>0, <2>2, <3>1, SyncKeeps
    <3> QED
      BY <1>0, <2>2, <3>1, <3>2
         DEF Partition, taskVars, Kept, ImportType, JudgedFirst, DecidedOnce, StoredInOrder
  <2> QED
    BY <1>6, <2>1, <2>2 DEF BatchImport
<1>7. ASSUME NEW k \in Keys, Collect(k)
      PROVE  Kept'
  BY <1>0, <1>7 DEF Collect, StoreAd, Kept, ImportType, JudgedFirst, DecidedOnce,
                    memoryVars, taskVars, storeVars
<1>10. CASE FinalWrite
  BY <1>0, <1>10 DEF FinalWrite, WriteAds, Kept, ImportType, JudgedFirst, DecidedOnce,
                     memoryVars, taskVars
<1>8. CASE BackendRestart
  BY <1>0, <1>8, ConstantTypes DEF BackendRestart, Kept, ImportType, JudgedFirst, DecidedOnce,
                    taskVars, storeVars, Unqueued
<1>9. CASE Outside /\ UNCHANGED <<restVars, monitor, drains, tail, streamed>>
  BY <1>0, <1>9, OutsideKeeps
<1> QED
  BY StepCases, <1>1, <1>2, <1>3, <1>4, <1>5, <1>6, <1>7, <1>8, <1>9, <1>10

-----------------------------------------------------------------------------
(* The other parts, step by step.                                          *)

\* The part of TypeOK that is RunLifecycle's.
ControlType ==
  /\ status \in Final \cup {"absent", "created", "running", "stopping"}
  /\ process \in {"none", "alive", "exited"}
  /\ returnCode \in {"none", "zero", "other"}
  /\ registered \in BOOLEAN /\ stoppedLate \in BOOLEAN /\ streamed \in BOOLEAN
  /\ monitor \in {"none", "starting", "launched", "failed", "poll", "drain", "expired",
                  "final", "finalizing", "batch", "waiting", "closing", "done", "died",
                  "lost"}
  /\ loaded \in Final \cup {"none", "created", "running", "stopping"}
  /\ drains \in Nat /\ stopper \in {"idle", "signalled"}
  /\ stops \in 0..MaxStops /\ restarts \in 0..MaxRestarts
  /\ tail \in SUBSET Keys

LEMMA ControlTypeStep ==
  ASSUME ImportInv, [Next]_vars
  PROVE  ControlType'
<1>0. ControlType /\ ImportType
  BY DEF ImportInv, TypeOK, ControlType, ImportType
<1>1. FinalStatus \in Final \cup {"absent", "created", "running", "stopping"}
  BY <1>0 DEF FinalStatus, ControlType, Final
<1>2. CASE StartRun \/ Launch \/ CommitRunning
  BY <1>0, <1>2
     DEF StartRun, Launch, CommitRunning, ControlType, rowVars, procVars, stopVars
<1>3. CASE Reap \/ DrainEnds \/ LoadRow \/ BatchWaited
  <2>1. CASE Reap
    BY <1>0, <2>1, ConstantTypes DEF Reap, ControlType, rowVars, stopVars
  <2>2. CASE DrainEnds \/ BatchWaited
    BY <1>0, <2>2
       DEF DrainEnds, BatchWaited, ControlType, rowVars, procVars, stopVars, restVars
  <2>3. CASE LoadRow
    <3>1. status \in {"running", "stopping"}
      BY <2>3 DEF LoadRow, ImportInv, RowFollowsMonitor
    <3>2. monitor' \in {"finalizing", "batch", "closing"} /\ drains' \in Nat
      BY <1>0, <2>3, ConstantTypes DEF LoadRow, ControlType
    <3> QED
      BY <1>0, <2>3, <3>1, <3>2 DEF LoadRow, ControlType, procVars, stopVars
  <2> QED
    BY <1>3, <2>1, <2>2, <2>3
<1>4. CASE MonitorPoll \/ DrainPoll \/ PollExpired \/ Expire
  <2>1. /\ UNCHANGED <<restVars, tail>>
        /\ monitor' \in {monitor, "expired", "final"}
        /\ drains' = drains \/ (drains > 0 /\ drains' = drains - 1)
    BY <1>4 DEF MonitorPoll, DrainPoll, PollExpired, Expire
  <2>2. drains' \in Nat
    BY <1>0, <2>1 DEF ControlType
  <2>3. streamed' \in BOOLEAN
    BY <1>0, <1>4 DEF MonitorPoll, DrainPoll, PollExpired, Expire, ControlType
  <2> QED
    BY <1>0, <2>1, <2>2, <2>3 DEF ControlType, rowVars, procVars, stopVars, restVars
<1>5. CASE Finalize \/ FinalizeRaises
  <2>1. Fresh \subseteq Keys
    BY <1>0 DEF Fresh, ImportType
  <2> QED
    BY <1>0, <1>1, <1>5, <2>1
       DEF Finalize, FinalizeRaises, ControlType, rowVars, procVars, stopVars, restVars
<1>6. CASE BatchQueue \/ BatchImport
  <2>1. CASE BatchQueue
    BY <1>0, <2>1 DEF BatchQueue, ControlType, rowVars, procVars, stopVars, restVars
  <2>2. CASE BatchImport
    <3>1. /\ status' \in {status, FinalStatus}
          /\ monitor' \in {"done", "died"}
          /\ UNCHANGED <<loaded, stoppedLate, procVars, stopVars, restarts, drains, tail, streamed>>
      BY <2>2 DEF BatchImport
    <3> QED
      BY <1>0, <1>1, <3>1 DEF ControlType, procVars, stopVars
  <2> QED
    BY <1>6, <2>1, <2>2
<1>7. CASE StopSignal \/ StopCommit \/ BackendRestart \/ (\E code \in {"zero", "other"} : Exit(code))
  <2>1. CASE StopSignal
    <3>1. stops' \in 0..MaxStops
      BY <1>0, <2>1, ConstantTypes DEF StopSignal, ControlType
    <3> QED
      BY <1>0, <2>1, <3>1 DEF StopSignal, ControlType, rowVars, procVars
  <2>4. CASE BackendRestart
    <3>1. restarts' \in 0..MaxRestarts
      BY <1>0, <2>4, ConstantTypes DEF BackendRestart, ControlType
    <3> QED
      BY <1>0, <2>4, <3>1 DEF BackendRestart, ControlType, rowVars
  <2>2. CASE StopCommit
    <3>1. stoppedLate' \in BOOLEAN
      BY <1>0, <2>2 DEF StopCommit, ControlType
    <3> QED
      BY <1>0, <2>2, <3>1 DEF StopCommit, ControlType, procVars
  <2>3. CASE \E code \in {"zero", "other"} : Exit(code)
    BY <1>0, <2>3 DEF Exit, ControlType, rowVars, stopVars
  <2> QED
    BY <1>7, <2>1, <2>2, <2>3, <2>4
<1>10. CASE Close
  BY <1>0, <1>1, <1>10 DEF Close, ControlType, procVars, stopVars
<1>8. CASE UNCHANGED <<restVars, monitor, drains, tail, streamed>>
  BY <1>0, <1>8 DEF ControlType, rowVars, procVars, stopVars, restVars
<1>9. CASE UNCHANGED vars
  BY <1>8, <1>9 DEF vars
<1> QED
  <2>1. (\E k \in Keys : Collect(k)) \/ FinalWrite
          => UNCHANGED <<restVars, monitor, drains, tail, streamed>>
    BY DEF Collect, FinalWrite
  <2> QED
    BY <2>1, <1>2, <1>3, <1>4, <1>5, <1>6, <1>7, <1>8, <1>9, <1>10, StepCases DEF RowStep

LEMMA AttemptsBoundedStep ==
  ASSUME ImportInv, [Next]_vars
  PROVE  AttemptsBounded'
<1>0. /\ TypeOK /\ AttemptsBounded /\ BatchDecidesLast
      /\ Kept /\ (monitor # "lost" => TasksCounted)
  BY TypesSplit DEF ImportInv, Kept, AttemptsBounded, TasksCounted
<1>1. CASE RowStep
  <2>1. UNCHANGED importVars
    BY <1>0, <1>1, RowStepKeeps
  <2>2. UNCHANGED <<mode, attempts, outstanding>>
    BY <2>1 DEF importVars, memoryVars, taskVars
  <2>3. CASE LoadRow
    <3>1. \A k \in Keys : mode = "batch" => attempts[k] = 0
      BY <1>0, <2>3 DEF LoadRow, AttemptsBounded, Unqueued
    <3>2. /\ monitor = "final" /\ monitor' \in {"finalizing", "batch", "closing"}
          /\ monitor' = "batch" => mode = "batch" /\ drains' = Attempts
      BY <2>3 DEF LoadRow, ImportInv, ImportStarts
    <3> QED
      BY <1>0, <2>2, <3>1, <3>2, ConstantTypes DEF AttemptsBounded
  <2>4. CASE ~LoadRow
    BY <1>0, <1>1, <2>2, <2>4
       DEF RowStep, AttemptsBounded, BatchDecidesLast, StartRun, Launch, CommitRunning, Reap,
           DrainEnds, BatchWaited, Close, Exit, StopSignal, StopCommit, vars
  <2> QED
    BY <2>3, <2>4
<1>2. CASE MonitorPoll \/ DrainPoll \/ PollExpired
  <2>1. Poll /\ mode # "batch" /\ monitor # "lost" /\ monitor' \notin {"batch", "waiting", "lost"}
    BY <1>0, <1>2 DEF MonitorPoll, DrainPoll, PollExpired, BatchDecidesLast
  <2>2. TasksCounted' /\ mode' = mode
    BY <1>0, <2>1, PollKeeps
  <2>3. mode \in {"inline", "disabled"} => attempts' = Unqueued
    BY <1>0, <2>1, PollSeesAll DEF AttemptsBounded
  <2> QED
    BY <2>1, <2>2, <2>3 DEF AttemptsBounded, TasksCounted
<1>3. CASE Expire
  BY <1>0, <1>3 DEF Expire, ExpirePending, AttemptsBounded, taskVars
<1>4. CASE Finalize \/ FinalizeRaises
  <2>1. PICK late \in SUBSET Pending, liked \in SUBSET Fresh : Judge(late, liked)
    BY <1>4 DEF Finalize, FinalizeRaises
  <2>2. /\ Queue(late) /\ mode' = mode /\ mode # "batch" /\ monitor # "lost"
        /\ monitor' \in {"done", "died"}
    BY <1>0, <1>4, <2>1 DEF Judge, Finalize, FinalizeRaises, BatchDecidesLast
  <2>3. TasksCounted' /\ (mode # "tasks" => attempts' = attempts)
    BY <1>0, <2>2, QueueCounts DEF Kept
  <2> QED
    BY <1>0, <2>2, <2>3 DEF AttemptsBounded, TasksCounted
<1>5. CASE BatchQueue
  <2>1. \A k \in Keys : /\ attempts[k] \in Nat /\ outstanding[k] \in Nat
                        /\ attempts[k] + drains <= Attempts /\ outstanding[k] <= attempts[k]
    BY <1>0, <1>5 DEF BatchQueue, AttemptsBounded, Kept, ImportType
  <2>2. drains \in Nat /\ drains > 0 /\ drains <= Attempts /\ drains' = drains - 1
    BY <1>0, <1>5 DEF BatchQueue, AttemptsBounded, TypeOK
  <2>3. \A k \in Keys : /\ attempts'[k] \in {attempts[k], attempts[k] + 1}
                        /\ outstanding'[k] <= attempts'[k]
                        /\ attempts'[k] + drains' <= Attempts
    BY <1>5, <2>1, <2>2, ConstantTypes DEF BatchQueue, QueueMissing
  <2>4. mode' = mode /\ mode = "batch" /\ monitor' = "waiting"
    BY <1>0, <1>5 DEF BatchQueue, QueueMissing, BatchDecidesLast
  <2> QED
    BY <2>2, <2>3, <2>4, ConstantTypes DEF AttemptsBounded
<1>6. CASE BatchImport
  <2>1. UNCHANGED <<mode, attempts, outstanding>> /\ monitor' \in {"done", "died"}
    BY <1>6 DEF BatchImport, Partition, importVars, memoryVars, taskVars
  <2>2. monitor # "lost"
    BY <1>6 DEF BatchImport
  <2> QED
    BY <1>0, <2>1, <2>2 DEF AttemptsBounded
<1>7. CASE (\E k \in Keys : Collect(k)) \/ FinalWrite
  BY <1>0, <1>7 DEF Collect, StoreAd, FinalWrite, WriteAds, AttemptsBounded, memoryVars,
                    taskVars
<1>8. CASE BackendRestart
  BY <1>0, <1>8 DEF BackendRestart, AttemptsBounded
<1>9. CASE Outside /\ UNCHANGED <<restVars, monitor, drains, tail, streamed>>
  <2>1. /\ mode' = mode /\ attempts' = attempts
        /\ \A k \in Keys : outstanding'[k] <= outstanding[k]
    BY <1>0, <1>9, OutsideKeeps DEF memoryVars
  <2>2. Kept'
    BY <1>0, <1>9, OutsideKeeps
  <2>3. \A k \in Keys : /\ attempts[k] \in Nat /\ outstanding[k] \in Nat
                        /\ outstanding'[k] \in Nat
    BY <1>0, <2>2 DEF Kept, ImportType
  <2> QED
    BY <1>0, <1>9, <2>1, <2>3 DEF AttemptsBounded
<1> QED
  BY StepCases, <1>1, <1>2, <1>3, <1>4, <1>5, <1>6, <1>7, <1>8, <1>9

LEMMA BatchDecidesLastStep ==
  ASSUME ImportInv, [Next]_vars
  PROVE  BatchDecidesLast'
<1>0. /\ TypeOK /\ AttemptsBounded /\ BatchDecidesLast
      /\ Kept /\ (monitor # "lost" => TasksCounted)
  BY TypesSplit DEF ImportInv, Kept, AttemptsBounded, TasksCounted
<1>1. CASE RowStep
  <2>1. UNCHANGED <<mode, accepted, rejected>>
    BY <1>0, <1>1, RowStepKeeps DEF importVars, memoryVars
  <2>2. CASE LoadRow
    <3>1. mode # "batch" \/ monitor' # "finalizing"
      BY <2>2 DEF LoadRow, ImportInv, ImportStarts
    <3>2. mode = "batch" \/ monitor' # "batch"
      BY <2>2 DEF LoadRow, ImportInv, ImportStarts
    <3> QED
      BY <1>0, <2>1, <2>2, <3>1, <3>2 DEF LoadRow, BatchDecidesLast, Decided
  <2>3. CASE Reap
    <3>1. monitor' = "drain" => mode # "batch"
      BY <2>3 DEF Reap, ImportInv, ImportStarts
    <3> QED
      BY <1>0, <2>1, <2>3, <3>1 DEF Reap, BatchDecidesLast, Decided
  <2> QED
    BY <1>0, <1>1, <2>1, <2>2, <2>3
       DEF RowStep, BatchDecidesLast, Decided, StartRun, Launch, CommitRunning, Reap,
           DrainEnds, LoadRow, BatchWaited, Close, Exit, StopSignal, StopCommit, vars
<1>2. CASE MonitorPoll \/ DrainPoll \/ PollExpired
  <2>1. Poll /\ mode # "batch" /\ monitor # "lost" /\ monitor' \notin {"batch", "waiting"}
    BY <1>0, <1>2 DEF MonitorPoll, DrainPoll, PollExpired, BatchDecidesLast
  <2>2. mode' = mode
    BY <1>0, <2>1, PollKeeps
  <2> QED
    BY <2>1, <2>2 DEF BatchDecidesLast
<1>3. CASE Expire \/ Finalize \/ FinalizeRaises
  <2>1. mode # "batch" /\ mode' = mode /\ monitor' \notin {"batch", "waiting"}
    BY <1>0, <1>3 DEF Expire, ExpirePending, Finalize, FinalizeRaises, Judge, BatchDecidesLast
  <2> QED
    BY <2>1 DEF BatchDecidesLast
<1>4. CASE BatchQueue \/ BatchImport
  BY <1>0, <1>4 DEF BatchQueue, QueueMissing, BatchImport, Partition, importVars,
                    BatchDecidesLast, Decided
<1>5. CASE (\E k \in Keys : Collect(k)) \/ FinalWrite
  BY <1>0, <1>5 DEF Collect, StoreAd, FinalWrite, WriteAds, BatchDecidesLast, Decided,
                    memoryVars
<1>6. CASE BackendRestart
  BY <1>0, <1>6 DEF BackendRestart, BatchDecidesLast, Decided
<1>7. CASE Outside /\ UNCHANGED <<restVars, monitor, drains, tail, streamed>>
  <2>1. UNCHANGED <<mode, accepted, rejected>>
    BY <1>0, <1>7, OutsideKeeps DEF memoryVars
  <2> QED
    BY <1>0, <1>7, <2>1 DEF BatchDecidesLast, Decided
<1> QED
  BY StepCases, <1>1, <1>2, <1>3, <1>4, <1>5, <1>6, <1>7

\* The monitor's branch on the return code and its copy of the row: what it writes
\* is true, and only a stop request can overwrite it.
LEMMA RowStatusStep ==
  ASSUME ImportInv, [Next]_vars
  PROVE  RowFollowsMonitor' /\ FinalStatusIsTrue'
<1>0. /\ ControlType /\ RowFollowsMonitor /\ FinalStatusIsTrue /\ BatchDecidesLast
      /\ MaxStops \in Nat
  BY ConstantTypes DEF ImportInv, TypeOK, ControlType
<1>1. CASE StartRun \/ Launch \/ CommitRunning
  BY <1>0, <1>1
     DEF StartRun, Launch, CommitRunning, rowVars, procVars, stopVars, ControlType, Final,
         RowFollowsMonitor, FinalStatusIsTrue
<1>2. CASE Reap \/ DrainEnds \/ BatchWaited
  BY <1>0, <1>2
     DEF Reap, DrainEnds, BatchWaited, rowVars, procVars, stopVars, restVars, ControlType, Final,
         RowFollowsMonitor, FinalStatusIsTrue
<1>3. CASE LoadRow
  BY <1>0, <1>3
     DEF LoadRow, procVars, stopVars, ControlType, Final, RowFollowsMonitor, FinalStatusIsTrue
<1>4. CASE MonitorPoll \/ DrainPoll \/ PollExpired \/ Expire \/ BatchQueue \/ FinalizeRaises
  <2>1. /\ UNCHANGED restVars
        /\ \/ monitor' = monitor
           \/ monitor \in {"drain", "expired"} /\ monitor' \in {"expired", "final"}
           \/ monitor = "batch" /\ monitor' = "waiting"
           \/ monitor = "finalizing" /\ monitor' = "died"
    BY <1>4 DEF MonitorPoll, DrainPoll, PollExpired, Expire, BatchQueue, FinalizeRaises
  <2> QED
    BY <1>0, <2>1
       DEF rowVars, procVars, stopVars, restVars, ControlType, Final,
           RowFollowsMonitor, FinalStatusIsTrue
<1>5. CASE Finalize \/ BatchImport \/ Close
  <2>1. /\ UNCHANGED <<loaded, stoppedLate, procVars, stopVars>>
        /\ monitor \in {"finalizing", "batch", "closing"}
        /\ \/ monitor' = "done" /\ status' = FinalStatus
           \/ monitor' = "died" /\ status' = status
    BY <1>5 DEF Finalize, BatchImport, Close
  <2>2. /\ FinalStatus \in Final
        /\ FinalStatus = "completed" => returnCode = "zero"
        /\ FinalStatus = "stopped" => returnCode = "other" /\ loaded = "stopping"
        /\ FinalStatus = "failed" => returnCode = "other"
    BY <1>0, <2>1 DEF FinalStatus, Final, RowFollowsMonitor
  <2> QED
    BY <1>0, <2>1, <2>2
       DEF procVars, stopVars, ControlType, Final, RowFollowsMonitor, FinalStatusIsTrue
<1>6. CASE \E code \in {"zero", "other"} : Exit(code)
  BY <1>0, <1>6
     DEF Exit, rowVars, stopVars, ControlType, Final, RowFollowsMonitor, FinalStatusIsTrue
<1>7. CASE StopSignal
  BY <1>0, <1>7
     DEF StopSignal, rowVars, procVars, ControlType, Final, RowFollowsMonitor, FinalStatusIsTrue
<1>8. CASE StopCommit
  BY <1>0, <1>8
     DEF StopCommit, procVars, ControlType, Final, RowFollowsMonitor, FinalStatusIsTrue
<1>9. CASE BackendRestart
  BY <1>0, <1>9
     DEF BackendRestart, rowVars, ControlType, Final, RowFollowsMonitor, FinalStatusIsTrue
<1>10. CASE UNCHANGED <<restVars, monitor, drains, tail, streamed>>
  BY <1>0, <1>10
     DEF rowVars, procVars, stopVars, restVars, RowFollowsMonitor, FinalStatusIsTrue
<1>11. CASE UNCHANGED vars
  BY <1>10, <1>11 DEF vars
<1>12. (\E k \in Keys : Collect(k)) \/ FinalWrite
          => UNCHANGED <<restVars, monitor, drains, tail, streamed>>
  BY DEF Collect, FinalWrite
<1> QED
  BY StepCases, <1>1, <1>2, <1>3, <1>4, <1>5, <1>6, <1>7, <1>8, <1>9, <1>10, <1>11, <1>12
     DEF RowStep

LEMMA DrainSeesAllStep ==
  ASSUME ImportInv, [Next]_vars
  PROVE  DrainSeesAll'
<1>0. /\ TypeOK /\ AttemptsBounded /\ BatchDecidesLast /\ RowFollowsMonitor /\ DrainSeesAll
      /\ Kept /\ (monitor # "lost" => TasksCounted)
  BY TypesSplit DEF ImportInv, Kept, AttemptsBounded, TasksCounted
<1>1. CASE RowStep
  <2>1. UNCHANGED <<mode, source, accepted, rejected, attempts>>
    BY <1>0, <1>1, RowStepKeeps DEF importVars, memoryVars
  <2>2. Fresh' = Fresh /\ Pending' = Pending
    BY <2>1 DEF Fresh, Pending, Decided
  <2>3. CASE Reap
    <3>1. /\ monitor' = "drain" \/ (monitor' = "final" /\ ~streamed)
          /\ drains' = DrainPolls \/ Pending = {}
      BY <2>3 DEF Reap
    <3>2. monitor' = "final" /\ mode # "batch" => Pending = {}
      BY <1>0, <2>3, <3>1 DEF Reap, ImportInv, ImportStarts, Pending, Unqueued
    <3> QED
      BY <2>1, <2>2, <3>1, <3>2 DEF DrainSeesAll
  <2>4. CASE LoadRow
    <3>1. monitor = "final" /\ monitor' \in {"finalizing", "batch", "closing"}
      BY <2>4 DEF LoadRow
    <3> QED
      BY <1>0, <2>1, <2>2, <3>1 DEF DrainSeesAll
  <2> QED
    BY <1>0, <1>1, <2>1, <2>2, <2>3, <2>4
       DEF RowStep, DrainSeesAll, StartRun, Launch, CommitRunning, DrainEnds,
           BatchWaited, Close, Exit, StopSignal, StopCommit, vars
<1>2. CASE MonitorPoll \/ DrainPoll \/ PollExpired
  <2>1. Poll /\ mode # "batch" /\ monitor # "lost"
    BY <1>0, <1>2 DEF MonitorPoll, DrainPoll, PollExpired, BatchDecidesLast
  <2>2. /\ Fresh' = {} /\ mode' = mode
        /\ Fresh = {} /\ Pending = {} => Pending' = {}
    BY <1>0, <2>1, PollSeesAll, PollKeeps DEF AttemptsBounded
  <2> QED
    BY <1>0, <1>2, <2>2 DEF MonitorPoll, DrainPoll, PollExpired, DrainSeesAll
<1>3. CASE Expire
  <2>1. Fresh = {}
    BY <1>0, <1>3, ConstantTypes DEF Expire, DrainSeesAll
  <2>2. /\ rejected' = rejected \cup Pending
        /\ UNCHANGED <<source, attempts, accepted>>
    BY <1>3 DEF Expire, ExpirePending
  <2>3. Fresh' = {} /\ Pending' = {}
    BY <2>1, <2>2 DEF Fresh, Pending, Decided
  <2> QED
    BY <1>3, <2>3 DEF Expire, DrainSeesAll
<1>4. CASE Finalize \/ FinalizeRaises \/ BatchQueue \/ BatchImport \/ BackendRestart
  BY <1>4 DEF Finalize, FinalizeRaises, BatchQueue, BatchImport, BackendRestart, DrainSeesAll
<1>5. CASE (\E k \in Keys : Collect(k)) \/ FinalWrite
  BY <1>0, <1>5 DEF Collect, FinalWrite, RowFollowsMonitor, DrainSeesAll
<1>6. CASE Outside /\ UNCHANGED <<restVars, monitor, drains, tail, streamed>>
  <2>1. UNCHANGED <<mode, source, accepted, rejected, attempts>>
    BY <1>0, <1>6, OutsideKeeps DEF memoryVars
  <2>2. Fresh' = Fresh /\ Pending' = Pending
    BY <2>1 DEF Fresh, Pending, Decided
  <2> QED
    BY <1>0, <1>6, <2>1, <2>2 DEF DrainSeesAll
<1> QED
  BY StepCases, <1>1, <1>2, <1>3, <1>4, <1>5, <1>6

\* What finalize and the end of a batch leave behind: a synchronisation that
\* replaces stores every verdict there is, also those that polls before it have
\* lost, and finalize has given every pending ad one.
LEMMA FinishedImportStep ==
  ASSUME ImportInv, [Next]_vars
  PROVE  FinishedImportIsWhole'
<1>0. /\ TypeOK /\ AttemptsBounded /\ BatchDecidesLast /\ DrainSeesAll /\ RowFollowsMonitor
      /\ FinishedImportIsWhole /\ ImportStarts /\ Kept /\ (monitor # "lost" => TasksCounted)
  BY TypesSplit DEF ImportInv, Kept, AttemptsBounded, TasksCounted
<1>1. CASE RowStep
  <2>1. UNCHANGED <<source, written, accepted, rejected, rows, foreign, adsJson>>
    BY <1>0, <1>1, RowStepKeeps DEF importVars, memoryVars, storeVars
  <2>3. CASE Close
    <3>1. ~streamed' /\ ~written' /\ returnCode' = returnCode
      BY <1>0, <2>1, <2>3 DEF Close, ImportStarts, procVars
    <3>2. adsJson = {} /\ rows = {} /\ returnCode # "zero"
      BY <1>0, <2>3 DEF Close, ImportStarts
    <3> QED
      BY <2>1, <3>1, <3>2 DEF FinishedImportIsWhole
  <2>2. ~Close /\ monitor' = "done" =>
          monitor = "done" /\ UNCHANGED <<tail, streamed, returnCode>>
    BY <1>0, <1>1 DEF RowFollowsMonitor, rowVars, procVars, stopVars, restVars, RowStep, StartRun, Launch, CommitRunning, Reap, DrainEnds, LoadRow,
                BatchWaited, Close, Exit, StopSignal, StopCommit, vars
  <2> QED
    BY <1>0, <2>1, <2>2, <2>3 DEF FinishedImportIsWhole, Decided
<1>2. CASE MonitorPoll \/ DrainPoll \/ PollExpired \/ Expire \/ FinalizeRaises \/ BatchQueue
           \/ BackendRestart
  BY <1>2 DEF MonitorPoll, DrainPoll, PollExpired, Expire, FinalizeRaises, BatchQueue,
              BackendRestart, FinishedImportIsWhole
<1>3. CASE Finalize
  <2>1. PICK late \in SUBSET Pending, liked \in SUBSET Fresh : Judge(late, liked)
    BY <1>3 DEF Finalize
  <2>2. SyncCommits(TRUE) /\ tail' = IF mode = "tasks" THEN Fresh ELSE {}
    BY <1>3 DEF Finalize
  <2>3. adsJson' = accepted' /\ rows' = accepted' \ foreign'
    BY <2>2 DEF SyncCommits, NewRows, ToInsert
  <2>4. mode # "batch" /\ Pending = {}
    BY <1>0, <1>3 DEF Finalize, BatchDecidesLast, DrainSeesAll
  <2>5. accepted \subseteq accepted' /\ rejected \subseteq rejected' /\ source' = source
    BY <2>1 DEF Judge
  <2>6. source \subseteq Decided \cup Fresh
    BY <1>0, <2>4 DEF Pending, Fresh, Kept, ImportType
  <2>7. mode # "tasks" => Fresh \subseteq accepted' \cup rejected'
    BY <2>1 DEF Judge, NowAccepted, NowRejected
  <2>8. streamed' = TRUE
    BY <1>0, <1>3 DEF Finalize, ImportStarts, TypeOK
  <2> QED
    BY <2>2, <2>3, <2>5, <2>6, <2>7, <2>8 DEF FinishedImportIsWhole, Decided
<1>4. CASE BatchImport
  <2>1. CASE monitor' = "done"
    <3>1. Partition /\ SyncCommits(TRUE)
      BY <1>4, <2>1 DEF BatchImport
    <3>2. adsJson' = accepted' /\ rows' = accepted' \ foreign'
      BY <3>1 DEF SyncCommits, NewRows, ToInsert
    <3>3. written' = TRUE /\ source' = adsJson
      BY <1>0, <1>4, <3>1 DEF BatchImport, Partition, ImportStarts, TypeOK
    <3>4. accepted' \cup rejected' = adsJson
      BY <3>1 DEF Partition
    <3> QED
      BY <3>2, <3>3, <3>4 DEF FinishedImportIsWhole, Decided
  <2>2. CASE monitor' # "done"
    BY <2>2 DEF FinishedImportIsWhole
  <2> QED
    BY <2>1, <2>2
<1>5. CASE (\E k \in Keys : Collect(k)) \/ FinalWrite
  BY <1>0, <1>5 DEF Collect, FinalWrite, RowFollowsMonitor, FinishedImportIsWhole
<1>6. CASE Outside /\ UNCHANGED <<restVars, monitor, drains, tail, streamed>>
  <2>1. /\ UNCHANGED <<source, written, accepted, rejected, adsJson, rows>>
        /\ rows = accepted \ foreign => rows' = accepted' \ foreign'
    BY <1>0, <1>6, OutsideKeeps DEF memoryVars
  <2>2. UNCHANGED <<monitor, tail, streamed, returnCode>>
    BY <1>6 DEF restVars, procVars
  <2> QED
    BY <1>0, <2>1, <2>2 DEF FinishedImportIsWhole, Decided
<1> QED
  BY StepCases, <1>1, <1>2, <1>3, <1>4, <1>5, <1>6

\* Nothing is decided or stored before a session polls or a batch ends.
LEMMA ImportStartsStep ==
  ASSUME ImportInv, [Next]_vars
  PROVE  ImportStarts'
<1>0. /\ TypeOK /\ ImportStarts /\ BatchDecidesLast /\ RowFollowsMonitor
      /\ Kept /\ (monitor # "lost" => TasksCounted)
  BY TypesSplit DEF ImportInv, Kept, AttemptsBounded, TasksCounted
<1>1. CASE RowStep
  <2>1. UNCHANGED <<mode, source, written, accepted, rejected, attempts, rows, adsJson>>
    BY <1>0, <1>1, RowStepKeeps DEF importVars, memoryVars, storeVars
  <2>2. CASE Reap
    <3>1. /\ monitor = "poll" /\ returnCode' = returnCode
          /\ streamed' = (streamed \/ (mode # "batch" /\ written))
          /\ monitor' = IF streamed' THEN "drain" ELSE "final"
      BY <2>2 DEF Reap
    <3> QED
      BY <1>0, <2>1, <3>1 DEF ImportStarts, TypeOK
  <2>3. CASE LoadRow
    <3>1. /\ monitor = "final" /\ UNCHANGED <<returnCode, streamed>>
          /\ monitor' = CASE streamed -> "finalizing"
                          [] ~streamed /\ written -> "batch"
                          [] OTHER -> "closing"
      BY <2>3 DEF LoadRow, procVars
    <3>2. CASE streamed
      BY <1>0, <2>1, <3>1, <3>2 DEF ImportStarts
    <3>3. CASE ~streamed /\ written
      BY <1>0, <2>1, <3>1, <3>3 DEF ImportStarts
    <3>4. CASE ~streamed /\ ~written
      BY <1>0, <2>1, <3>1, <3>4 DEF ImportStarts
    <3> QED
      BY <3>2, <3>3, <3>4
  <2>4. CASE \E code \in {"zero", "other"} : Exit(code)
    BY <1>0, <2>1, <2>4 DEF Exit, ImportStarts
  <2>5. CASE DrainEnds
    BY <1>0, <2>1, <2>5 DEF DrainEnds, restVars, procVars, ImportStarts
  <2>6. CASE BatchWaited \/ Close
    BY <1>0, <2>1, <2>6 DEF BatchWaited, Close, restVars, procVars, ImportStarts
  <2>7. CASE StartRun \/ Launch \/ CommitRunning
    BY <1>0, <2>1, <2>7
       DEF StartRun, Launch, CommitRunning, procVars, ImportStarts
  <2>8. CASE StopSignal \/ StopCommit \/ UNCHANGED vars
    BY <1>0, <2>1, <2>8 DEF StopSignal, StopCommit, vars, restVars, procVars, ImportStarts
  <2> QED
    BY <1>1, <2>2, <2>3, <2>4, <2>5, <2>6, <2>7, <2>8 DEF RowStep
<1>2. CASE MonitorPoll \/ DrainPoll \/ PollExpired
  <2>1. Poll /\ mode # "batch" /\ monitor # "lost" /\ streamed' = TRUE
    BY <1>0, <1>2 DEF MonitorPoll, DrainPoll, PollExpired, BatchDecidesLast, ImportStarts,
                      TypeOK
  <2>2. mode' = mode /\ written' = written
    BY <1>0, <2>1, PollKeeps
  <2>3. returnCode' = returnCode /\ monitor' \in {"poll", "drain", "final"}
    BY <1>2 DEF MonitorPoll, DrainPoll, PollExpired, restVars, procVars
  <2> QED
    BY <1>0, <2>1, <2>2, <2>3 DEF ImportStarts
<1>3. CASE Expire
  BY <1>0, <1>3 DEF Expire, ExpirePending, restVars, procVars, ImportStarts
<1>4. CASE Finalize \/ FinalizeRaises
  <2>1. mode' = mode /\ written' = written
    BY <1>4 DEF Finalize, FinalizeRaises, Judge
  <2>2. UNCHANGED <<streamed, returnCode>> /\ monitor' \in {"done", "died"}
    BY <1>4 DEF Finalize, FinalizeRaises, restVars, procVars
  <2> QED
    BY <1>0, <2>1, <2>2 DEF ImportStarts
<1>5. CASE BatchQueue
  <2>1. UNCHANGED <<mode, source, written, accepted, rejected, rows, adsJson>>
    BY <1>5 DEF BatchQueue, QueueMissing, storeVars
  <2>2. UNCHANGED <<streamed, returnCode>> /\ monitor' = "waiting" /\ monitor = "batch"
    BY <1>5 DEF BatchQueue, restVars, procVars
  <2> QED
    BY <1>0, <2>1, <2>2 DEF ImportStarts, BatchDecidesLast
<1>6. CASE BatchImport
  <2>1. mode' = mode /\ written' = written
    BY <1>6 DEF BatchImport, Partition, importVars
  <2>2. UNCHANGED <<streamed, returnCode>> /\ monitor' \in {"done", "died"}
    BY <1>6 DEF BatchImport, procVars
  <2> QED
    BY <1>0, <2>1, <2>2 DEF ImportStarts
<1>7. CASE \E k \in Keys : Collect(k)
  <2>1. /\ ~written /\ ~written' /\ process = "alive"
        /\ UNCHANGED <<mode, accepted, rejected, attempts, rows, adsJson>>
    BY <1>7 DEF Collect, StoreAd, memoryVars, storeVars
  <2>2. UNCHANGED <<monitor, streamed, returnCode>>
    BY <1>7 DEF Collect, restVars, procVars
  <2> QED
    BY <1>0, <2>1, <2>2 DEF ImportStarts
<1>10. CASE FinalWrite
  <2>1. /\ written' = TRUE /\ process = "alive" /\ adsJson' = source /\ source' = source
        /\ UNCHANGED <<mode, accepted, rejected, attempts, rows>>
    BY <1>10 DEF FinalWrite, WriteAds, memoryVars
  <2>2. UNCHANGED <<monitor, streamed, returnCode>>
    BY <1>10 DEF FinalWrite, restVars, procVars
  <2>3. monitor \notin {"drain", "final", "closing", "expired", "finalizing", "batch", "waiting"}
    BY <1>0, <2>1 DEF RowFollowsMonitor
  <2> QED
    BY <1>0, <2>1, <2>2, <2>3 DEF ImportStarts
<1>8. CASE BackendRestart
  BY <1>0, <1>8 DEF BackendRestart, ImportStarts
<1>9. CASE Outside /\ UNCHANGED <<restVars, monitor, drains, tail, streamed>>
  <2>1. UNCHANGED <<mode, source, written, accepted, rejected, attempts, rows, adsJson>>
    BY <1>0, <1>9, OutsideKeeps DEF memoryVars
  <2> QED
    BY <1>0, <1>9, <2>1 DEF ImportStarts, restVars, procVars
<1> QED
  BY StepCases, <1>1, <1>2, <1>3, <1>4, <1>5, <1>6, <1>7, <1>8, <1>9, <1>10

LEMMA ImportInvInit == Init => ImportInv
<1> SUFFICES ASSUME Init PROVE ImportInv
  OBVIOUS
<1> USE ConstantTypes DEF Init, SessionInit
<1>1. TypeOK
  <2>1. attempts \in [Keys -> 0..Attempts] /\ outstanding \in [Keys -> 0..Attempts]
    BY DEF Unqueued
  <2>2. result \in [Keys -> {"none", "relevant", "irrelevant", "broken"}]
    OBVIOUS
  <2>3. stops \in 0..MaxStops /\ restarts \in 0..MaxRestarts
    OBVIOUS
  <2> QED
    BY <2>1, <2>2, <2>3 DEF TypeOK
<1>2. AttemptsBounded
  BY DEF AttemptsBounded, Unqueued
<1>3. BatchDecidesLast /\ JudgedFirst /\ DecidedOnce
  BY DEF BatchDecidesLast, JudgedFirst, DecidedOnce, Decided
<1>4. RowFollowsMonitor /\ FinalStatusIsTrue
  BY DEF RowFollowsMonitor, FinalStatusIsTrue, Final
<1>5. DrainSeesAll /\ FinishedImportIsWhole /\ ImportStarts
  BY DEF DrainSeesAll, FinishedImportIsWhole, ImportStarts
<1> QED
  BY <1>1, <1>2, <1>3, <1>4, <1>5 DEF ImportInv

LEMMA ImportInvStep == ImportInv /\ [Next]_vars => ImportInv'
<1> SUFFICES ASSUME ImportInv, [Next]_vars PROVE ImportInv'
  OBVIOUS
<1>1. Kept' /\ ControlType'
  BY KeptStep, ControlTypeStep
<1>2. TypeOK' /\ JudgedFirst' /\ DecidedOnce'
  BY <1>1 DEF Kept, ImportType, ControlType, TypeOK
<1> QED
  BY <1>2, AttemptsBoundedStep, BatchDecidesLastStep, RowStatusStep, DrainSeesAllStep,
     FinishedImportStep, ImportStartsStep DEF ImportInv

LEMMA ImportInvariant == Spec => []ImportInv
BY ImportInvInit, ImportInvStep, PTL DEF Spec

-----------------------------------------------------------------------------
(* Theorems.                                                               *)

\* Every variable of a run and of its import keeps its type.
THEOREM RunTypeCorrect == Spec => []TypeOK
BY ImportInvariant, PTL DEF ImportInv

\* Unless the filter is off, only ads an analysis has called relevant become rows,
\* and they alone are in ads.json when the monitor is done, although the collector
\* writes all its ads to that file (sync_stream, write_ads); no row has an identity
\* that belongs to another run.
THEOREM StoredAdsAreJudged == Spec => []OnlyJudgedAdsAreStored
<1>1. ImportInv /\ monitor = "done" /\ mode # "disabled" => adsJson \subseteq judged
  BY DEF ImportInv, JudgedFirst, FinishedImportIsWhole
<1>2. ImportInv => OnlyJudgedAdsAreStored
  BY <1>1 DEF ImportInv, JudgedFirst, OnlyJudgedAdsAreStored
<1> QED
  BY <1>2, ImportInvariant, PTL

\* A final status of the row tells the truth about return code and stop requests,
\* and a monitor that ends gives one (_monitor).
THEOREM RowTellsTheTruth == Spec => []FinalStatusIsTrue
BY ImportInvariant, PTL DEF ImportInv

\* A monitor that ends leaves rows and ads.json that agree with the verdicts, and
\* no ad undecided but those finalize was the first to see; or nothing at all, if
\* the collector failed before its own write and no poll had found it.
THEOREM ImportEndsWhole == Spec => []FinishedImportIsWhole
BY ImportInvariant, PTL DEF ImportInv

\* No step of a session changes a verdict.
THEOREM VerdictsAreFinal == Spec => VerdictIsFinal
<1>1. ASSUME ImportInv, ImportInv', [Next]_vars, monitor' # "lost"
      PROVE  /\ accepted \subseteq accepted' /\ rejected \subseteq rejected'
             /\ accepted' \cap rejected' = {}
  <2>0. /\ BatchDecidesLast /\ Kept /\ (monitor # "lost" => TasksCounted)
    BY <1>1, TypesSplit DEF ImportInv, Kept, AttemptsBounded, TasksCounted
  <2>1. accepted' \cap rejected' = {}
    BY <1>1 DEF ImportInv, DecidedOnce
  <2>2. CASE RowStep
    BY <2>0, <2>1, <2>2, RowStepKeeps DEF importVars, memoryVars
  <2>3. CASE MonitorPoll \/ DrainPoll \/ PollExpired
    <3>1. Poll /\ mode # "batch" /\ monitor # "lost"
      BY <2>0, <2>3 DEF MonitorPoll, DrainPoll, PollExpired, BatchDecidesLast
    <3> QED
      BY <2>0, <2>1, <3>1, PollKeeps
  <2>4. CASE Expire \/ Finalize \/ FinalizeRaises \/ BatchQueue
    BY <2>1, <2>4 DEF Expire, ExpirePending, Finalize, FinalizeRaises, BatchQueue,
                      QueueMissing, Judge
  <2>5. CASE BatchImport
    BY <2>0, <2>1, <2>5 DEF BatchImport, BatchDecidesLast, Decided, importVars, memoryVars
  <2>6. CASE (\E k \in Keys : Collect(k)) \/ FinalWrite
    BY <2>1, <2>6 DEF Collect, StoreAd, FinalWrite, WriteAds, memoryVars
  <2>7. CASE BackendRestart
    BY <1>1, <2>7 DEF BackendRestart
  <2>8. CASE Outside /\ UNCHANGED <<restVars, monitor, drains, tail, streamed>>
    BY <2>0, <2>1, <2>8, OutsideKeeps DEF memoryVars
  <2> QED
    BY <1>1, StepCases, <2>2, <2>3, <2>4, <2>5, <2>6, <2>7, <2>8
<1>2. ImportInv /\ ImportInv' /\ [Next]_vars =>
        [monitor' # "lost" =>
           /\ accepted \subseteq accepted' /\ rejected \subseteq rejected'
           /\ accepted' \cap rejected' = {}]_vars
  BY <1>1
<1> QED
  BY <1>2, ImportInvariant, PTL DEF Spec, VerdictIsFinal
=============================================================================
