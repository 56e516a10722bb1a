------------------------- MODULE CollectionPipeline -------------------------
(***************************************************************************)
(* The commands of one profile cycle, in the order its thread runs them:   *)
(* collector, relevance stages, backend import, and the calibration passes *)
(* that the transition after the pipeline allows.  Every command is a      *)
(* child process; the stop event can be set at any time and is looked at   *)
(* between commands only (CollectionPipelineService.run,                   *)
(* CollectionPipelineState, ProfileCycleService.run,                       *)
(* RecoveryCycleCoordinator.run).                                          *)
(*                                                                         *)
(* Which ads a file holds is abstracted to which stage has written it.     *)
(***************************************************************************)
EXTENDS Integers

CONSTANTS
  Codes,      \* return codes of a child process
  MaxPasses   \* planned calibration passes, at most

ASSUME PipelineAssumption ==
  /\ Codes \subseteq Nat /\ 0 \in Codes
  /\ MaxPasses \in Nat

NoCode == -1   \* None: the stage has not been reached
Unsafe == 4    \* interest_safety_code after a violation

Stages == {"collector", "prefilter", "standard", "resolver", "gate", "enricher",
           "finalize", "importer", "calibrator"}

\* Stages that send the profile to pages of ads or hand ads on.
ActiveStages == {"resolver", "enricher", "importer"}

Files == {"none", "ads", "prefilter", "isolated", "gated", "enriched", "relevant"}

VARIABLES
  request,    \* the switches of CollectionPipelineRequest
  stopping,   \* the stop event
  pc,         \* where the thread is between commands, or "command"
  command,    \* the stage whose command is about to run or runs
  launched,   \* its process has been started
  input,      \* the file it is given
  source,     \* enrichment_source
  codes,      \* CollectionPipelineState
  passesLeft,
  \* History, read by properties only:
  succeeded,  \* stages whose command has returned 0
  failed,     \* stages whose command has returned something else
  afterStop   \* processes started since the stop event was set

vars == <<request, stopping, pc, command, launched, input, source, codes,
          passesLeft, succeeded, failed, afterStop>>

history == <<succeeded, failed, afterStop>>

Switches == {"dryRun", "safe", "isolated", "enrich", "import"}
Fields == {"collect", "safety", "prefilter", "isolated", "gate", "enrichment",
           "relevance"}

Init ==
  /\ request \in [Switches -> BOOLEAN]
  /\ stopping \in BOOLEAN
  /\ pc = "collector"
  /\ command = "collector" /\ launched = FALSE /\ input = "none"
  /\ source = "prefilter"
  /\ codes = [f \in Fields |-> NoCode]
  /\ passesLeft = 0
  /\ succeeded = {} /\ failed = {} /\ afterStop = 0

-----------------------------------------------------------------------------
(* What the codes amount to. *)

Succeeded(code) == code \in {NoCode, 0}

\* Python's `a or b`.
Or(a, b) == IF Succeeded(a) THEN b ELSE a

ResolutionSucceeded == Succeeded(codes["isolated"]) /\ Succeeded(codes["gate"])

ResolutionFailure == Or(codes["gate"], codes["isolated"])
ResolutionResult == IF ResolutionSucceeded THEN 0 ELSE ResolutionFailure

\* Mutation: the last code is taken to stand for all of them.
RelevanceFailed == ~Succeeded(codes["relevance"])

PostCollectionFailed ==
  \E f \in Fields \ {"collect"} : ~Succeeded(codes[f])

CanStartRelevance(enabled, ads) ==
  /\ codes["collect"] = 0 /\ Succeeded(codes["safety"])
  /\ ~request["dryRun"] /\ ~stopping /\ enabled /\ ads

\* Mutation: no stage has failed, so there is something to import.
CanImportUnfinished ==
  /\ codes["collect"] = 0 /\ request["import"] /\ ~request["dryRun"]
  /\ Succeeded(codes["relevance"])
  /\ request["safe"] => codes["relevance"] = 0

CanImport ==
  /\ codes["collect"] = 0 /\ request["import"]
  /\ ~request["dryRun"] /\ ~stopping
  /\ Succeeded(codes["relevance"])
  /\ request["safe"] => codes["relevance"] = 0

-----------------------------------------------------------------------------
(* A command: decided on, started, ended. *)

Decide(stage, file) ==
  /\ pc' = "command" /\ command' = stage /\ launched' = FALSE /\ input' = file
  /\ UNCHANGED <<request, stopping, source, codes, passesLeft, history>>

\* Nothing is run; the codes listed in `new` are set and the thread goes on.
Skip(next, new) ==
  /\ pc' = next
  /\ codes' = [f \in Fields |-> IF f \in DOMAIN new THEN new[f] ELSE codes[f]]
  /\ UNCHANGED <<request, stopping, command, launched, input, source, passesLeft,
                 history>>

Nothing == [f \in {} |-> NoCode]

\* Popen.  The stop event is not looked at again.
Launch ==
  /\ pc = "command" /\ ~launched
  /\ launched' = TRUE
  /\ afterStop' = IF stopping THEN afterStop + 1 ELSE afterStop
  /\ UNCHANGED <<request, stopping, pc, command, input, source, codes, passesLeft,
                 succeeded, failed>>

Field ==
  [s \in Stages |->
     CASE s = "collector" -> "collect"   [] s = "prefilter" -> "prefilter"
       [] s = "standard"  -> "relevance" [] s = "resolver"  -> "isolated"
       [] s = "gate"      -> "gate"      [] s = "enricher"  -> "enrichment"
       [] s = "finalize"  -> "relevance" [] OTHER           -> "none"]

Following ==
  [s \in Stages |->
     CASE s = "collector" -> "audit"    [] s = "prefilter"  -> "prefiltered"
       [] s = "standard"  -> "import"   [] s = "resolver"   -> "resolved"
       [] s = "gate"      -> "enrich"   [] s = "enricher"   -> "finalize"
       [] s = "finalize"  -> "import"   [] s = "importer"   -> "transition"
       [] OTHER           -> "passes"]

\* wait() returns, whatever the process was doing: its end, an error, a signal,
\* or the end of the timeout.  The code of the importer is only logged; `more` is
\* whether the summary a calibrator leaves allows another pass.
Return(code, more) ==
  /\ pc = "command" /\ launched
  /\ pc' = Following[command]
  /\ codes' = [f \in Fields |-> IF f = Field[command] THEN code ELSE codes[f]]
  /\ source' = IF command = "gate" /\ code = 0 THEN "gated" ELSE source
  /\ passesLeft' = IF command # "calibrator" THEN passesLeft
                   ELSE IF more THEN passesLeft - 1 ELSE 0
  /\ succeeded' = IF code = 0 THEN succeeded \cup {command} ELSE succeeded
  /\ failed' = IF code = 0 THEN failed ELSE failed \cup {command}
  /\ launched' = FALSE
  /\ UNCHANGED <<request, stopping, command, input, afterStop>>

\* The process cannot be started, or a file between two commands cannot be
\* read or written: the exception leaves the cycle.
Raise ==
  /\ pc \notin {"recorded", "raised"} /\ ~launched
  /\ pc' = "raised"
  /\ UNCHANGED <<request, stopping, command, launched, input, source, codes,
                 passesLeft, history>>

-----------------------------------------------------------------------------
(* The pipeline. *)

\* No look at the stop event before the collector.
Collect ==
  /\ pc = "collector"
  /\ IF request["dryRun"] THEN Skip("audit", [collect |-> 0])
                          ELSE Decide("collector", "none")

Audit(violation) ==
  /\ pc = "audit"
  /\ IF codes["collect"] = 0 /\ request["safe"] /\ ~request["dryRun"]
       THEN Skip("relevance", [safety |-> IF violation THEN Unsafe ELSE 0])
       ELSE Skip("relevance", Nothing)

StartRelevance(enabled, ads) ==
  /\ pc = "relevance"
  /\ IF CanStartRelevance(enabled, ads)
       THEN Decide(IF request["safe"] THEN "prefilter" ELSE "standard", "ads")
       ELSE Skip("import", Nothing)

\* Mutation: holds are resolved whatever the prefilter returned.
ResolveUnfiltered ==
  /\ pc = "prefiltered"
  /\ IF stopping THEN Skip("import", [relevance |-> codes["prefilter"]])
     ELSE IF request["isolated"] THEN Decide("resolver", "prefilter")
     ELSE Skip("enrich", [isolated |-> 0, gate |-> 0])

Resolve ==
  /\ pc = "prefiltered"
  /\ IF codes["prefilter"] # 0 \/ stopping
       THEN Skip("import", [relevance |-> codes["prefilter"]])
     ELSE IF request["isolated"] THEN Decide("resolver", "prefilter")
     ELSE Skip("enrich", [isolated |-> 0, gate |-> 0])

\* Mutation: the stop event is not looked at after the resolver.
GateDeaf ==
  /\ pc = "resolved"
  /\ IF codes["isolated"] = 0 THEN Decide("gate", "isolated")
                              ELSE Skip("enrich", Nothing)

Gate ==
  /\ pc = "resolved"
  /\ IF codes["isolated"] = 0 /\ ~stopping THEN Decide("gate", "isolated")
                                           ELSE Skip("enrich", Nothing)

Enrich ==
  /\ pc = "enrich"
  /\ IF ~request["enrich"] THEN Skip("finalize", [enrichment |-> ResolutionResult])
     ELSE IF ResolutionSucceeded /\ ~stopping THEN Decide("enricher", source)
     ELSE Skip("finalize", [enrichment |-> ResolutionFailure])

Finalize ==
  /\ pc = "finalize"
  /\ IF codes["enrichment"] = 0 /\ ~stopping
       THEN Decide("finalize", IF request["enrich"] THEN "enriched" ELSE source)
       ELSE Skip("import", [relevance |-> codes["enrichment"]])

Import(exists) ==
  /\ pc = "import"
  /\ IF CanImport /\ exists
       THEN Decide("importer", IF codes["relevance"] = 0 THEN "relevant" ELSE "ads")
       ELSE Skip("transition", Nothing)

-----------------------------------------------------------------------------
(* The calibration passes. *)

\* calibration_transition; whether a calibration is asked for and how many
\* passes are planned is the decision's business.
Transition(requested, passes) ==
  /\ pc = "transition"
  /\ passesLeft' = IF requested /\ ~stopping /\ ~PostCollectionFailed
                     THEN passes ELSE 0
  /\ pc' = "passes"
  /\ UNCHANGED <<request, stopping, command, launched, input, source, codes, history>>

\* A calibrator is given the pools, not this collection's files; a dry run
\* leaves its command out, and nothing follows its empty summary.
Pass ==
  /\ pc = "passes"
  /\ IF passesLeft = 0 \/ stopping THEN Skip("recorded", Nothing)
     ELSE IF request["dryRun"] THEN Skip("recorded", Nothing)
     ELSE Decide("calibrator", "none")

-----------------------------------------------------------------------------
RequestStop ==
  /\ ~stopping
  /\ stopping' = TRUE
  /\ UNCHANGED <<request, pc, command, launched, input, source, codes, passesLeft,
                 history>>

Step ==
  \/ Collect
  \/ \E violation \in BOOLEAN : Audit(violation)
  \/ \E enabled, ads \in BOOLEAN : StartRelevance(enabled, ads)
  \/ Resolve \/ Gate \/ Enrich \/ Finalize
  \/ \E exists \in BOOLEAN : Import(exists)
  \/ \E requested \in BOOLEAN, passes \in 1..MaxPasses : Transition(requested, passes)
  \/ Pass
  \/ Launch
  \/ \E code \in Codes, more \in BOOLEAN : Return(code, more)

Next == Step \/ Raise \/ RequestStop

Spec == Init /\ [][Next]_vars

-----------------------------------------------------------------------------
(* Properties. *)

\* Every variable has its type.
TypeOK ==
  /\ request \in [Switches -> BOOLEAN] /\ stopping \in BOOLEAN
  /\ pc \in {"collector", "audit", "relevance", "prefiltered", "resolved", "enrich",
             "finalize", "import", "transition", "passes", "command", "recorded",
             "raised"}
  /\ command \in Stages /\ launched \in BOOLEAN
  /\ input \in Files /\ source \in Files
  /\ codes \in [Fields -> Nat \cup {NoCode}]
  /\ passesLeft \in 0..MaxPasses
  /\ succeeded \in SUBSET Stages /\ failed \in SUBSET Stages
  /\ afterStop \in Nat

At(stage) == pc = "command" /\ command = stage

\* Once the stop event is set, a cycle starts one more process at most - the one
\* whose check of the event had already passed, or the collector, which has none.
OneCommandAfterStop == afterStop <= 1

\* In an interest-safe collection nothing reaches the pages of ads before this
\* collection has passed the audit and the passive filter, and the enricher is
\* given the gated ads whenever holds are resolved.
EnrichesGatedAds ==
  request["safe"] /\ (At("resolver") \/ At("enricher")) =>
    /\ codes["safety"] = 0 /\ "prefilter" \in succeeded
    /\ At("enricher") =>
         IF request["isolated"]
         THEN input = "gated" /\ {"resolver", "gate"} \subseteq succeeded
         ELSE input = "prefilter"

\* relevance_code 0 stands for a finished classification when it is used: an
\* import of an interest-safe collection takes the file that this cycle's
\* finalize stage has written, although a stopped pipeline also copies the 0 of
\* an earlier stage to relevance_code.
ImportsFinalizedAds ==
  At("importer") =>
    /\ request["safe"] => input = "relevant" /\ "finalize" \in succeeded
    /\ input = "relevant" => {"finalize", "standard"} \cap succeeded # {}
    /\ failed = {}

\* A calibration never follows a pipeline that was left half-way: if a relevance
\* stage has started, the last one has succeeded and none has failed; the codes
\* of collector and importer are left to the metrics and to the log.
CalibratesAfterWholePipeline ==
  At("calibrator") =>
    /\ failed \subseteq {"collector", "importer", "calibrator"}
    /\ codes["safety"] # Unsafe
    /\ "prefilter" \in succeeded => "finalize" \in succeeded
=============================================================================
