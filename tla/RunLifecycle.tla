---------------------------- MODULE RunLifecycle ----------------------------
(***************************************************************************)
(* One run of the backend, from the request that starts it to its final    *)
(* state: RunService.start_run and stop_run, FacebookRunnerRegistry.start, *)
(* stop and _monitor.  The row of the run is written from three sessions   *)
(* that know nothing of each other: the start request, stop requests, and  *)
(* the monitor, a task of the event loop that polls the import while the   *)
(* collector runs and finishes it afterwards.                              *)
(***************************************************************************)
EXTENDS StreamImport

CONSTANTS
  DrainPolls,  \* bound: polls that fit in _stream_drain_timeout
  MaxStops,    \* bound: stop requests
  MaxRestarts  \* bound: restarts of the backend

\* The drain has five seconds at least: it polls once before it can be too late.
ASSUME LifecycleAssumption ==
  DrainPolls \in Nat \ {0} /\ MaxStops \in Nat /\ MaxRestarts \in Nat

VARIABLES
  status,      \* of the row, as committed
  process,     \* the collector: none, alive, exited
  returnCode,  \* "zero" or "other" once it has exited
  registered,  \* the run is a key of _processes
  monitor,     \* where start_run and then the monitor task is
  loaded,      \* the status the monitor's last session has loaded
  streamed,    \* the monitor has created the import session of the run
  drains,      \* polls left before the drain's deadline, or rounds of a batch
  stopper,     \* a stop request has signalled and not committed yet
  stops, restarts,
  stoppedLate, \* history: a stop request committed after that load
  tail         \* history: what finalize was the first to see

rowVars  == <<status, loaded, stoppedLate>>
procVars == <<process, returnCode, registered>>
stopVars == <<stopper, stops>>
restVars == <<rowVars, procVars, stopVars, restarts>>
vars == <<importVars, restVars, monitor, drains, tail, streamed>>

Final == {"completed", "failed", "stopped"}

Init ==
  /\ SessionInit
  /\ status = "absent" /\ process = "none" /\ returnCode = "none"
  /\ registered = FALSE /\ monitor = "none" /\ loaded = "none" /\ drains = 0
  /\ streamed = FALSE
  /\ stopper = "idle" /\ stops = 0 /\ restarts = 0
  /\ stoppedLate = FALSE /\ tail = {}

-----------------------------------------------------------------------------
(* start_run.                                                              *)

\* The row is committed before there is a process.
StartRun ==
  /\ monitor = "none"
  /\ status' = "created" /\ monitor' = "starting"
  /\ UNCHANGED <<importVars, loaded, stoppedLate, procVars, stopVars, restarts, drains, tail, streamed>>

\* Popen; if it raises the request fails and nothing marks the row.
Launch ==
  /\ monitor = "starting"
  /\ \/ process' = "alive" /\ registered' = TRUE /\ monitor' = "launched"
     \/ monitor' = "failed" /\ UNCHANGED <<process, registered>>
  /\ UNCHANGED <<importVars, rowVars, returnCode, stopVars, restarts, drains, tail, streamed>>

\* If this commit raises, the collector runs without a monitor.
CommitRunning ==
  /\ monitor = "launched"
  /\ \/ status' = "running" /\ monitor' = "poll"
     \/ monitor' = "failed" /\ UNCHANGED status
  /\ UNCHANGED <<importVars, loaded, stoppedLate, procVars, stopVars, restarts, drains, tail, streamed>>

-----------------------------------------------------------------------------
(* _monitor.                                                               *)

\* The first poll that finds the directory of the run creates the session.
MonitorPoll ==
  /\ monitor = "poll" /\ process = "alive" /\ mode # "batch"
  /\ Poll
  /\ streamed' = TRUE
  /\ UNCHANGED <<restVars, monitor, drains, tail>>

\* The wait is over: the run leaves the registry.  A collector that was faster
\* than the first poll is streamed now, if it has written ads.json.  The deadline
\* of the drain is computed from what is pending now.
Reap ==
  /\ monitor = "poll" /\ process = "exited"
  /\ registered' = FALSE
  /\ streamed' = (streamed \/ (mode # "batch" /\ written))
  /\ monitor' = IF streamed' THEN "drain" ELSE "final"
  /\ drains' = IF Pending = {} THEN 0 ELSE DrainPolls
  /\ UNCHANGED <<importVars, rowVars, process, returnCode, stopVars, restarts, tail>>

\* Mutation: the deadline is computed anew in each round.
DrainWithoutDeadline ==
  /\ monitor = "drain" /\ Pending # {} /\ drains > 0
  /\ Poll
  /\ UNCHANGED <<restVars, monitor, drains, tail, streamed>>

DrainPoll ==
  /\ monitor = "drain" /\ Pending # {} /\ drains > 0
  /\ Poll
  /\ drains' = drains - 1
  /\ UNCHANGED <<restVars, monitor, tail, streamed>>

\* Without anything pending the drain does not poll at all.
DrainEnds ==
  /\ monitor = "drain" /\ Pending = {}
  /\ monitor' = "final"
  /\ UNCHANGED <<importVars, restVars, drains, tail, streamed>>

Expire ==
  /\ monitor = "drain" /\ Pending # {} /\ drains = 0
  /\ ExpirePending
  /\ monitor' = "expired"
  /\ UNCHANGED <<restVars, drains, tail, streamed>>

PollExpired ==
  /\ monitor = "expired"
  /\ Poll
  /\ monitor' = "final"
  /\ UNCHANGED <<restVars, drains, tail, streamed>>

\* The last session loads the row; everything it decides about the status it
\* decides from here on by this copy.  Without a session and without ads.json
\* there is nothing to import.
LoadRow ==
  /\ monitor = "final"
  /\ loaded' = status
  /\ monitor' = CASE streamed -> "finalizing"
                  [] ~streamed /\ written -> "batch"
                  [] OTHER -> "closing"
  /\ drains' = IF monitor' = "batch" THEN Attempts ELSE drains
  /\ UNCHANGED <<importVars, status, stoppedLate, procVars, stopVars, restarts, tail,
                 streamed>>

\* Mutation: any nonzero return code counts as a stop.
FinalStatusStopped ==
  IF returnCode = "zero" THEN "completed" ELSE "stopped"

FinalStatus ==
  CASE returnCode = "zero" -> "completed"
    [] returnCode # "zero" /\ loaded = "running"  -> "failed"
    [] returnCode # "zero" /\ loaded = "stopping" -> "stopped"
    [] OTHER -> status

\* finalize polls once more, replaces all rows, and commits with the status.
\* What it is the first to see is queued and not waited for.
Finalize ==
  /\ monitor = "finalizing" /\ Broken = {}
  /\ \E late \in SUBSET Pending, liked \in SUBSET Fresh : Judge(late, liked)
  /\ SyncCommits(TRUE)
  /\ tail' = IF mode = "tasks" THEN Fresh ELSE {}
  /\ status' = FinalStatus
  /\ monitor' = "done"
  /\ UNCHANGED <<loaded, stoppedLate, procVars, stopVars, restarts, drains, streamed>>

\* An exception in there ends the task: the transaction is rolled back, with
\* it the status.
FinalizeRaises ==
  /\ monitor = "finalizing"
  /\ \E late \in SUBSET Pending, liked \in SUBSET Fresh : Judge(late, liked)
  /\ SyncFails(TRUE)
  /\ monitor' = "died"
  /\ UNCHANGED <<restVars, drains, tail, streamed>>

\* One round of a batch: tasks for what has no result, then a wait until
\* everything has one or the round times out.
BatchQueue ==
  /\ monitor = "batch" /\ Missing # {} /\ drains > 0
  /\ QueueMissing
  /\ drains' = drains - 1
  /\ monitor' = "waiting"
  /\ UNCHANGED <<restVars, tail, streamed>>

BatchWaited ==
  /\ monitor = "waiting"
  /\ monitor' = "batch"
  /\ UNCHANGED <<importVars, restVars, drains, tail, streamed>>

\* The answers are read again after the last round.
BatchImport ==
  /\ monitor = "batch"
  /\ Missing = {} \/ drains = 0
  /\ IF \E k \in adsJson : result[k] = "broken"
       THEN /\ monitor' = "died"
            /\ UNCHANGED <<importVars, status>>
       ELSE /\ Partition
            /\ \/ SyncCommits(TRUE) /\ monitor' = "done" /\ status' = FinalStatus
               \/ SyncFails(TRUE) /\ monitor' = "died" /\ UNCHANGED status
  /\ UNCHANGED <<loaded, stoppedLate, procVars, stopVars, restarts, drains, tail, streamed>>

\* Nothing to import: the session that has loaded the row only closes it.
Close ==
  /\ monitor = "closing"
  /\ status' = FinalStatus /\ monitor' = "done"
  /\ UNCHANGED <<importVars, loaded, stoppedLate, procVars, stopVars, restarts, drains, tail,
                 streamed>>

Monitor ==
  \/ MonitorPoll \/ Reap
  \/ DrainPoll \/ DrainEnds \/ Expire \/ PollExpired
  \/ LoadRow \/ Finalize \/ FinalizeRaises
  \/ BatchQueue \/ BatchWaited \/ BatchImport \/ Close

-----------------------------------------------------------------------------
(* The collector process, stop requests, the end of the backend.           *)

Collect(k) ==
  /\ process = "alive"
  /\ StoreAd(k)
  /\ UNCHANGED <<restVars, monitor, drains, tail, streamed>>

FinalWrite ==
  /\ process = "alive"
  /\ WriteAds
  /\ UNCHANGED <<restVars, monitor, drains, tail, streamed>>

\* It returns zero only behind that write; behind it, closing the browser can
\* still fail, and a kill or a crash ends it anywhere.
Exit(code) ==
  /\ process = "alive"
  /\ code = "zero" => written
  /\ process' = "exited" /\ returnCode' = code
  /\ UNCHANGED <<importVars, rowVars, registered, stopVars, restarts, monitor, drains, tail, streamed>>

\* stop_run first signals the process group ...
StopSignal ==
  /\ stops < MaxStops /\ stopper = "idle"
  /\ registered /\ process = "alive"
  /\ stopper' = "signalled" /\ stops' = stops + 1
  /\ UNCHANGED <<importVars, rowVars, procVars, restarts, monitor, drains, tail, streamed>>

\* ... and then writes "stopping", whatever the row says by then.
StopCommit ==
  /\ stopper = "signalled"
  /\ status' = "stopping"
  /\ stopper' = "idle"
  /\ stoppedLate' = (stoppedLate \/ monitor \in {"finalizing", "batch", "waiting", "closing", "done"})
  /\ UNCHANGED <<importVars, loaded, procVars, stops, restarts, monitor, drains, tail, streamed>>

\* The backend ends: requests, monitors, the registry and the sessions of the
\* import are gone, rows and files stay, the collector may live on.
BackendRestart ==
  /\ restarts < MaxRestarts
  /\ monitor \notin {"none", "done", "died", "failed", "lost"}
  /\ restarts' = restarts + 1
  /\ monitor' = "lost" /\ registered' = FALSE /\ stopper' = "idle"
  /\ streamed' = FALSE
  /\ attempts' = Unqueued /\ accepted' = {} /\ rejected' = {} /\ inserted' = {}
  /\ UNCHANGED <<mode, source, written, taskVars, storeVars, rowVars, process, returnCode,
                 stops, drains, tail>>

Next ==
  \/ StartRun \/ Launch \/ CommitRunning
  \/ Monitor
  \/ (\E k \in Keys : Collect(k)) \/ FinalWrite
  \/ \E code \in {"zero", "other"} : Exit(code)
  \/ StopSignal \/ StopCommit \/ BackendRestart
  \/ Outside /\ UNCHANGED <<restVars, monitor, drains, tail, streamed>>

Spec == Init /\ [][Next]_vars

\* The monitor is a task of the event loop: its awaits are sleeps, database
\* calls and a wait in a thread, so it goes on as long as the backend lives.
FairSpec == Spec /\ WF_vars(Monitor)

-----------------------------------------------------------------------------
(* Properties.                                                             *)

\* Every variable has its type.
TypeOK ==
  /\ mode \in Modes /\ source \in SUBSET Keys /\ written \in BOOLEAN
  /\ attempts \in [Keys -> 0..Attempts]
  /\ accepted \in SUBSET Keys /\ rejected \in SUBSET Keys /\ inserted \in SUBSET Keys
  /\ outstanding \in [Keys -> 0..Attempts]
  /\ result \in [Keys -> {"none", "relevant", "irrelevant", "broken"}]
  /\ rows \in SUBSET Keys /\ foreign \in SUBSET IdKeys /\ adsJson \in SUBSET Keys
  /\ judged \in SUBSET Keys
  /\ status \in Final \cup {"absent", "created", "running", "stopping"}
  /\ process \in {"none", "alive", "exited"}
  /\ returnCode \in {"none", "zero", "other"}
  /\ registered \in BOOLEAN /\ stoppedLate \in BOOLEAN /\ streamed \in BOOLEAN
  /\ monitor \in {"none", "starting", "launched", "failed", "poll", "drain", "expired",
                  "final", "finalizing", "batch", "waiting", "closing", "done", "died",
                  "lost"}
  /\ loaded \in Final \cup {"none", "created", "running", "stopping"}
  /\ drains \in Nat /\ stopper \in {"idle", "signalled"}
  /\ stops \in 0..MaxStops /\ restarts \in 0..MaxRestarts
  /\ tail \in SUBSET Keys

\* An ad is judged once: whatever answers arrive late, twice or torn, and
\* however often its task is queued again, a session never changes a verdict
\* (QueuedRelevance.completed in streaming.py).
VerdictIsFinal ==
  [][monitor' # "lost" =>
       /\ accepted \subseteq accepted' /\ rejected \subseteq rejected'
       /\ accepted' \cap rejected' = {}]_vars

\* Unless the filter is off, only ads an analysis has called relevant become rows,
\* also after failed transactions; ads.json holds others only between the
\* collector's own write of all its ads and the next sync, and never once the
\* monitor is done.  No row has an identity another run holds.
OnlyJudgedAdsAreStored ==
  /\ mode # "disabled" =>
       /\ rows \subseteq judged
       /\ adsJson \subseteq judged \/ (written /\ adsJson = source /\ monitor # "done")
  /\ rows \cap foreign = {}

\* A monitor that ends leaves rows and ads.json that agree with the verdicts,
\* although polls before it may have been rolled back with their keys kept in
\* _inserted; undecided is only what finalize was the first to see.  Nothing is
\* imported only if the collector failed before its own write and before a poll had
\* found it: never with return code zero.
FinishedImportIsWhole ==
  monitor = "done" =>
    IF streamed \/ written
      THEN /\ adsJson = accepted
           /\ rows = accepted \ foreign
           /\ source \subseteq Decided \cup tail
      ELSE returnCode # "zero" /\ adsJson = {} /\ rows = {}

\* A final status is true: completed means return code zero, stopped that a stop
\* was requested; and the monitor's end gives a final status unless a stop
\* request commits after the monitor has loaded the row.
FinalStatusIsTrue ==
  /\ status = "completed" => returnCode = "zero"
  /\ status = "stopped" => returnCode = "other" /\ stops > 0
  /\ status = "failed" => returnCode = "other"
  /\ monitor = "done" /\ ~stoppedLate => status \in Final

\* Once the collector has exited the import comes to an end, however many tasks
\* hang or are lost: the drain has a deadline and then rejects what is pending.
ImportEnds ==
  (monitor = "poll" /\ process = "exited") ~> (monitor \in {"done", "died", "lost"})

\* README.md:153: the output of the collector is imported when the process exits;
\* every ad of the file it leaves is then accepted or rejected.
LastAdsAreImported == monitor = "done" /\ written => source \subseteq Decided
=============================================================================
