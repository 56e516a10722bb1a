---------------------------- MODULE StreamImport ----------------------------
(***************************************************************************)
(* FacebookAdsStreamingImportSession: the import of one run while its      *)
(* collector still writes, the relevance tasks it queues, the result files *)
(* the workers write, and the rows and files a sync leaves behind.  The    *)
(* module gives the steps of a session; RunLifecycle says when the monitor *)
(* of the run takes them.                                                  *)
(*                                                                         *)
(* An ad is known by its source key: the text of the post while its id is  *)
(* unknown, the id afterwards.  An ad whose id is resolved between two     *)
(* polls therefore enters the session a second time.                       *)
(***************************************************************************)
EXTENDS Naturals, FiniteSets

CONSTANTS
  Ads,       \* the ads the collector of the run may store
  Resolved,  \* those of them whose id may become known
  Modes,     \* "tasks", "inline", "disabled": how the filter of a streaming
             \* import is configured; "batch": no streaming, tasks at the end
  Attempts,  \* relevance_filter_task_retries + 1
  Repeated   \* bound: kinds of key ("text", "id") whose tasks the queue repeats

ASSUME ImportAssumption ==
  /\ Resolved \subseteq Ads
  /\ Modes \subseteq {"tasks", "inline", "disabled", "batch"}
  /\ Attempts \in Nat \ {0} /\ Repeated \subseteq {"text", "id"}

TextKeys == Ads \X {"text"}
IdKeys   == Resolved \X {"id"}
Keys     == TextKeys \cup IdKeys

VARIABLES
  mode,         \* the filter's configuration
  source,       \* the keys of the ads in ads.partial.json
  written,      \* the collector has written its ads to ads.json as well
  attempts,     \* _queued: how often a task was queued for the key
  accepted, rejected, inserted,   \* the sets of the session
  outstanding,  \* queued or running tasks of each key
  result,       \* the result file of each key
  rows,         \* facebook_ads of this run, as committed
  foreign,      \* identities that belong to ads of other runs
  adsJson,      \* the keys in ads.json, as the collector or a sync wrote it last
  judged        \* history: keys an analysis has called relevant

memoryVars == <<attempts, accepted, rejected, inserted>>
taskVars   == <<outstanding, result, judged>>
storeVars  == <<rows, foreign, adsJson>>
importVars == <<mode, source, written, memoryVars, taskVars, storeVars>>

Unqueued == [k \in Keys |-> 0]

SessionInit ==
  /\ mode \in Modes /\ source = {} /\ written = FALSE
  /\ attempts = Unqueued /\ accepted = {} /\ rejected = {} /\ inserted = {}
  /\ outstanding = Unqueued /\ result = [k \in Keys |-> "none"]
  /\ rows = {} /\ foreign = {} /\ adsJson = {} /\ judged = {}

-----------------------------------------------------------------------------
(* What a poll finds.                                                      *)

Decided == accepted \cup rejected

\* Mutation: a completed item is looked at again.
PendingWithCompleted == {k \in Keys : attempts[k] > 0}

Pending == {k \in Keys : attempts[k] > 0 /\ k \notin Decided}

Fresh == {k \in source \ Decided : attempts[k] = 0}

Answered == {k \in Pending : result[k] # "none"}

Broken == {k \in Pending : result[k] = "broken"}

\* Items whose last attempt has timed out and was the last.
Exhausted(late) == {k \in late : attempts[k] >= Attempts}

\* Mutation: any answer counts as relevant.
AcceptedAnswers(liked) == IF mode = "tasks" THEN Answered ELSE liked

\* `liked` is what an analysis inside the poll accepts.
NowAccepted(liked) ==
  IF mode = "tasks" THEN {k \in Answered : result[k] = "relevant"} ELSE liked

NowRejected(late, liked) ==
  IF mode = "tasks"
    THEN {k \in Answered : result[k] = "irrelevant"} \cup Exhausted(late)
    ELSE Fresh \ liked

\* Timeouts only reach items without a result, and tasks are queued only if
\* the filter runs through the queue.
PollInput(late, liked) ==
  /\ late \subseteq Pending \ Answered
  /\ mode = "tasks" => liked = {}
  /\ liked \subseteq Fresh
  /\ mode = "disabled" => liked = Fresh

\* What the retry of the late and the discovery of the fresh put in the queue.
Queue(late) ==
  LET sent == IF mode = "tasks" THEN Fresh \cup (late \ Exhausted(late)) ELSE {}
  IN /\ attempts' = [k \in Keys |-> IF k \in sent THEN attempts[k] + 1 ELSE attempts[k]]
     /\ outstanding' = [k \in Keys |-> IF k \in sent THEN outstanding[k] + 1
                                                    ELSE outstanding[k]]

\* poll before its sync: discover, collect, retry or time out.  A filter that is
\* off accepts without an analysis.
Judge(late, liked) ==
  /\ PollInput(late, liked)
  /\ Queue(late)
  /\ accepted' = accepted \cup NowAccepted(liked)
  /\ rejected' = rejected \cup NowRejected(late, liked)
  /\ judged' = judged \cup (IF mode = "inline" THEN liked ELSE {})
  /\ UNCHANGED <<mode, source, written, result>>

Changed(late) == Fresh \cup Answered \cup Exhausted(late) # {}

-----------------------------------------------------------------------------
(* sync_stream: files first, then the ingestion, then the bookkeeping.     *)

\* Mutation: what was inserted before is not inserted again by a replacement.
ToInsertOnce(replace) == accepted' \ inserted

ToInsert(replace) == IF replace THEN accepted' ELSE accepted' \ inserted

\* An ad whose identity another run has imported is skipped.
NewRows(replace) == ToInsert(replace) \ foreign

InsertedBefore(replace) == IF replace THEN {} ELSE inserted

Remember(replace) ==
  inserted' = InsertedBefore(replace)
                \cup (IF NewRows(replace) = {} THEN {} ELSE ToInsert(replace))

SyncCommits(replace) ==
  /\ adsJson' = accepted'
  /\ rows' = (IF replace THEN {} ELSE rows) \cup NewRows(replace)
  /\ Remember(replace)
  /\ UNCHANGED foreign

\* Another run inserts the identity between the look-up and the insert: the
\* unique index refuses the transaction, files and memory stay as they are.
SyncConflicts(replace) ==
  /\ \E k \in NewRows(replace) \cap IdKeys :
       k \notin rows /\ foreign' = foreign \cup {k}
  /\ adsJson' = accepted'
  /\ inserted' = InsertedBefore(replace)
  /\ UNCHANGED rows

\* The statistics or the commit fail: the rows are rolled back, the set of
\* inserted keys is not.
SyncRollsBack(replace) ==
  /\ adsJson' = accepted'
  /\ Remember(replace)
  /\ UNCHANGED <<rows, foreign>>

\* The collector writes ads.json through the same temporary file: the sync's
\* rename may find it gone, after the collector's has published one content or the other.
SyncWritesNothing ==
  /\ written /\ adsJson = source
  /\ adsJson' \in {adsJson, accepted'}
  /\ UNCHANGED <<inserted, rows, foreign>>

SyncFails(replace) ==
  SyncConflicts(replace) \/ SyncRollsBack(replace) \/ SyncWritesNothing

\* One poll under _poll_stream_import, which swallows what goes wrong.
Poll ==
  \/ /\ Broken = {}
     /\ \E late \in SUBSET Pending, liked \in SUBSET Fresh :
          /\ Judge(late, liked)
          /\ IF Changed(late)
               THEN SyncCommits(FALSE) \/ SyncFails(FALSE)
               ELSE UNCHANGED <<inserted, storeVars>>
  \* A result file that does not parse ends the poll after the items before
  \* it in the dict have been completed: no retry, no sync.
  \/ /\ Broken # {}
     /\ \E before \in SUBSET (Answered \ Broken) :
          /\ accepted' = accepted \cup {k \in before : result[k] = "relevant"}
          /\ rejected' = rejected \cup {k \in before : result[k] = "irrelevant"}
     /\ Queue({})
     /\ UNCHANGED <<mode, source, written, result, judged, inserted, storeVars>>

\* expire_pending
ExpirePending ==
  /\ rejected' = rejected \cup Pending
  /\ UNCHANGED <<mode, source, written, attempts, accepted, inserted, taskVars, storeVars>>

-----------------------------------------------------------------------------
(* TaskiqRelevanceBatch.filter and import_ads_json: the ads.json that the  *)
(* collector has written, at the end of a run that was not streamed, in    *)
(* rounds of tasks.                                                        *)

Missing == {k \in adsJson : result[k] = "none"}

QueueMissing ==
  /\ attempts' = [k \in Keys |-> IF k \in Missing THEN attempts[k] + 1 ELSE attempts[k]]
  /\ outstanding' = [k \in Keys |-> IF k \in Missing THEN outstanding[k] + 1
                                                     ELSE outstanding[k]]
  /\ UNCHANGED <<mode, source, written, accepted, rejected, inserted, result, judged, storeVars>>

\* What has no result by now is rejected.
Partition ==
  /\ accepted' = {k \in adsJson : result[k] = "relevant"}
  /\ rejected' = adsJson \ accepted'
  /\ UNCHANGED <<mode, source, written, attempts, taskVars>>

-----------------------------------------------------------------------------
(* The workers.  A task is executed at least once: Redis hands an entry    *)
(* that was not acknowledged in time to another worker.                    *)

FinishTask(k, verdict) ==
  /\ outstanding[k] > 0
  /\ result' = [result EXCEPT ![k] = verdict]
  /\ \/ outstanding' = [outstanding EXCEPT ![k] = @ - 1]
     \/ k[2] \in Repeated /\ UNCHANGED outstanding
  /\ judged' = judged \cup (IF verdict = "relevant" THEN {k} ELSE {})
  /\ UNCHANGED <<mode, source, written, memoryVars, storeVars>>

\* Two executions write through the same temporary file: the first rename
\* publishes what the second has only begun to write.
TearResult(k) ==
  /\ outstanding[k] > 1
  /\ result' = [result EXCEPT ![k] = "broken"]
  /\ outstanding' = [outstanding EXCEPT ![k] = @ - 1]
  /\ UNCHANGED <<mode, source, written, memoryVars, judged, storeVars>>

\* An entry is trimmed from the stream or its worker is gone for good.
LoseTask(k) ==
  /\ outstanding[k] > 0
  /\ outstanding' = [outstanding EXCEPT ![k] = @ - 1]
  /\ UNCHANGED <<mode, source, written, memoryVars, result, judged, storeVars>>

\* Another run imports an ad of this identity first.
OtherRunImports(k) ==
  /\ k \in IdKeys \ (foreign \cup rows)
  /\ foreign' = foreign \cup {k}
  /\ UNCHANGED <<mode, source, written, memoryVars, taskVars, rows, adsJson>>

\* The collector stores an ad, or learns the id of a stored one.
StoreAd(k) ==
  /\ k \in Keys /\ k \notin source /\ ~written
  /\ <<k[1], "id">> \notin source
  /\ source' = (source \ {<<k[1], "text">>}) \cup {k}
  /\ UNCHANGED <<mode, written, memoryVars, taskVars, storeVars>>

\* At its regular end the collector writes all its ads, accepted or not, to the
\* file the syncs write the accepted ones to.
WriteAds ==
  /\ ~written /\ written' = TRUE
  /\ adsJson' = source
  /\ UNCHANGED <<mode, source, memoryVars, taskVars, rows, foreign>>

Outside ==
  \/ \E k \in Keys : \/ \E v \in {"relevant", "irrelevant"} : FinishTask(k, v)
                     \/ TearResult(k) \/ LoseTask(k)
  \/ \E k \in IdKeys : OtherRunImports(k)
=============================================================================
