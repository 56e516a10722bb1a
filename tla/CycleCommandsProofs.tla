------------------------- MODULE CycleCommandsProofs -------------------------
(***************************************************************************)
(* What holds of the commands of a cycle: of their order, for every set of *)
(* return codes and every number of passes (CollectionPipeline), and of    *)
(* the processes they are, for every number of threads, commands and       *)
(* signals (CommandRunner).                                                *)
(***************************************************************************)
EXTENDS CollectionPipeline, CommandRunner, TLAPS

-----------------------------------------------------------------------------
(* The order of the commands: what the stop event allows, and the codes.   *)


\* The stop event: a process started after it is the one decided on before it.
StopInv ==
  /\ afterStop \in {0, 1}
  /\ ~stopping => afterStop = 0
  /\ pc = "collector" \/ (pc = "command" /\ ~launched) => afterStop = 0

\* How far the relevance stages have come, the later groups first.
AtEnd == pc \in {"import", "transition", "passes", "recorded", "raised"}
           \/ At("importer") \/ At("calibrator")
AtFinalize == AtEnd \/ pc = "finalize" \/ At("finalize")
AtEnrich == AtFinalize \/ pc \in {"resolved", "enrich"} \/ At("gate") \/ At("enricher")
AtResolve == AtEnrich \/ pc = "prefiltered" \/ At("resolver")
Filtered == \/ pc \in {"resolved", "enrich", "finalize"}
            \/ At("resolver") \/ At("gate") \/ At("enricher") \/ At("finalize")

\* A code is set once, by the stage or by the decision to leave it out.
SetOnce ==
  /\ codes["relevance"] # NoCode => AtEnd
  /\ codes["enrichment"] # NoCode => AtFinalize
  /\ codes["isolated"] # NoCode \/ codes["gate"] # NoCode => AtEnrich
  /\ codes["prefilter"] # NoCode => AtResolve
  /\ ~request["safe"] =>
       /\ codes["safety"] = NoCode
       /\ codes["prefilter"] = NoCode /\ codes["isolated"] = NoCode
       /\ codes["gate"] = NoCode /\ codes["enrichment"] = NoCode

\* No code after the collector's tells of a failure: ~PostCollectionFailed.
Whole ==
  /\ Succeeded(codes["safety"]) /\ Succeeded(codes["prefilter"])
  /\ Succeeded(codes["isolated"]) /\ Succeeded(codes["gate"])
  /\ Succeeded(codes["enrichment"]) /\ Succeeded(codes["relevance"])

\* What the histories say is in the codes.
Recorded ==
  /\ "collector" \in failed => ~Succeeded(codes["collect"])
  /\ "prefilter" \in failed => ~Succeeded(codes["prefilter"])
  /\ "resolver" \in failed => ~Succeeded(codes["isolated"])
  /\ "gate" \in failed => ~Succeeded(codes["gate"])
  /\ "enricher" \in failed => ~Succeeded(codes["enrichment"])
  /\ "standard" \in failed \/ "finalize" \in failed => ~Succeeded(codes["relevance"])
  /\ "prefilter" \in succeeded <=> codes["prefilter"] = 0
  /\ pc = "resolved" \/ At("gate") => ("resolver" \in succeeded <=> codes["isolated"] = 0)
  /\ "resolver" \in succeeded => codes["isolated"] = 0
  /\ pc = "collector" \/ At("collector") => "collector" \notin failed
  /\ "importer" \in failed =>
       pc \in {"transition", "passes", "recorded", "raised"} \/ At("calibrator")
  /\ "calibrator" \in failed =>
       pc \in {"passes", "recorded", "raised"} \/ At("calibrator")

\* What has been passed on the way to a stage.
Passed ==
  /\ pc = "command" /\ command \notin {"collector", "calibrator"} => codes["collect"] = 0
  /\ pc \in {"prefiltered", "resolved", "enrich", "finalize"} => codes["collect"] = 0
  /\ pc = "relevance" /\ request["safe"] /\ codes["collect"] = 0 /\ ~request["dryRun"]
       => codes["safety"] \in {0, Unsafe}
  /\ At("prefilter") => request["safe"]
  /\ At("standard") => ~request["safe"]
  /\ request["safe"] /\ ((AtResolve /\ ~AtEnd) \/ At("prefilter")) => codes["safety"] = 0
  /\ Filtered => request["safe"] /\ codes["prefilter"] = 0
  /\ pc = "prefiltered" => request["safe"] /\ codes["prefilter"] # NoCode
  /\ pc = "resolved" => codes["isolated"] # NoCode /\ codes["gate"] = NoCode
  /\ At("gate") => codes["isolated"] = 0 /\ codes["gate"] = NoCode
  /\ pc \in {"prefiltered", "resolved"} \/ At("prefilter") \/ At("resolver") \/ At("gate")
       => source = "prefilter"
  /\ pc \in {"collector", "audit", "relevance"} \/ At("collector") => source = "prefilter"
  /\ At("resolver") \/ pc = "resolved" \/ At("gate") => request["isolated"]
  /\ pc = "enrich" =>
       IF request["isolated"]
       THEN ResolutionSucceeded /\ ~stopping =>
              source = "gated" /\ "resolver" \in succeeded /\ "gate" \in succeeded
       ELSE source = "prefilter"
  /\ At("enricher") =>
       /\ ResolutionSucceeded
       /\ IF request["isolated"]
          THEN input = "gated" /\ "resolver" \in succeeded /\ "gate" \in succeeded
          ELSE input = "prefilter"
  /\ pc = "finalize" => /\ codes["enrichment"] = 0 => ResolutionSucceeded
                        /\ ~stopping => codes["enrichment"] # NoCode
  /\ At("finalize") => codes["enrichment"] = 0 /\ ResolutionSucceeded

\* What stands at the end of the relevance stages.
AtTheEnd ==
  /\ codes["relevance"] = 0 /\ ~stopping =>
       IF request["safe"]
       THEN /\ "finalize" \in succeeded /\ codes["safety"] = 0
            /\ Succeeded(codes["prefilter"]) /\ Succeeded(codes["isolated"])
            /\ Succeeded(codes["gate"]) /\ Succeeded(codes["enrichment"])
       ELSE "standard" \in succeeded
  /\ AtEnd /\ pc # "raised" /\ ~stopping /\ "prefilter" \in succeeded =>
       "finalize" \in succeeded \/ ~Succeeded(codes["relevance"])
  /\ At("importer") =>
       /\ Whole
       /\ request["safe"] => input = "relevant" /\ "finalize" \in succeeded
       /\ input = "relevant" => "finalize" \in succeeded \/ "standard" \in succeeded
  /\ At("calibrator") /\ "prefilter" \in succeeded => "finalize" \in succeeded
  /\ passesLeft > 0 => Whole /\ (pc \in {"passes", "recorded", "raised"} \/ At("calibrator"))

FlowInv == SetOnce /\ Recorded /\ Passed /\ AtTheEnd

-----------------------------------------------------------------------------
(* Types and the stop event.                                               *)

Pcs == {"collector", "audit", "relevance", "prefiltered", "resolved", "enrich",
        "finalize", "import", "transition", "passes", "command", "recorded",
        "raised"}

\* A decision, and a stage left out, change nothing else.
LEMMA DecideEffect ==
  ASSUME NEW stage, NEW file, Decide(stage, file)
  PROVE  /\ pc' = "command" /\ command' = stage /\ launched' = FALSE /\ input' = file
         /\ request' = request /\ stopping' = stopping /\ source' = source
         /\ codes' = codes /\ passesLeft' = passesLeft /\ succeeded' = succeeded
         /\ failed' = failed /\ afterStop' = afterStop
  BY DEF Decide, history

LEMMA SkipEffect ==
  ASSUME NEW next, NEW new, Skip(next, new)
  PROVE  /\ pc' = next /\ command' = command /\ launched' = launched
         /\ input' = input /\ request' = request /\ stopping' = stopping
         /\ source' = source /\ passesLeft' = passesLeft
         /\ succeeded' = succeeded /\ failed' = failed /\ afterStop' = afterStop
         /\ codes' = [f \in Fields |-> IF f \in DOMAIN new THEN new[f] ELSE codes[f]]
  BY DEF Skip, history

\* TypeOK is inductive once it is known that a pass is counted down from above 0.
TypeInv == TypeOK /\ (At("calibrator") => passesLeft > 0)

LEMMA TypeInit == Init => TypeInv
<1> SUFFICES ASSUME Init PROVE TypeInv
  OBVIOUS
<1>1. codes \in [Fields -> Nat \cup {NoCode}]
  BY DEF Init
<1>2. request \in [Switches -> BOOLEAN]
  BY DEF Init
<1>3. passesLeft \in 0..MaxPasses /\ afterStop \in Nat
  BY PipelineAssumption DEF Init
<1>4. /\ pc = "collector" /\ command = "collector" /\ launched = FALSE
      /\ input = "none" /\ source = "prefilter" /\ stopping \in BOOLEAN
      /\ succeeded = {} /\ failed = {}
  BY DEF Init
<1> QED
  BY <1>1, <1>2, <1>3, <1>4 DEF TypeInv, TypeOK, At, Stages, Files

LEMMA TypeStep == TypeInv /\ [Next]_vars => TypeInv'
<1> SUFFICES ASSUME TypeInv, [Next]_vars PROVE TypeInv'
  OBVIOUS
<1> USE PipelineAssumption
<1>0. \A f \in Fields : codes[f] \in Nat \cup {NoCode}
  BY DEF TypeInv, TypeOK
<1>1. ASSUME NEW stage \in Stages, NEW file \in Files, Decide(stage, file),
             stage = "calibrator" => passesLeft > 0
      PROVE  TypeInv'
  <2>1. /\ pc' = "command" /\ command' = stage /\ launched' = FALSE /\ input' = file
        /\ request' = request /\ stopping' = stopping /\ source' = source
        /\ codes' = codes /\ passesLeft' = passesLeft /\ succeeded' = succeeded
        /\ failed' = failed /\ afterStop' = afterStop
    BY <1>1, DecideEffect, Zenon
  <2> QED
    BY <1>1, <2>1 DEF TypeInv, TypeOK, At
<1>2. ASSUME NEW next \in Pcs \ {"command"}, NEW new, Skip(next, new),
             \A f \in DOMAIN new : new[f] \in Nat \cup {NoCode}
      PROVE  TypeInv'
  <2>1. codes' \in [Fields -> Nat \cup {NoCode}]
    BY <1>0, <1>2, SkipEffect DEF TypeInv, TypeOK
  <2>2. /\ pc' = next /\ command' = command /\ launched' = launched
        /\ input' = input /\ request' = request /\ stopping' = stopping
        /\ source' = source /\ passesLeft' = passesLeft
        /\ succeeded' = succeeded /\ failed' = failed /\ afterStop' = afterStop
    BY <1>2, SkipEffect
  <2> QED
    BY <1>2, <2>1, <2>2 DEF TypeInv, TypeOK, Pcs, At
<1>3. CASE Collect
  BY <1>1, <1>2, <1>3 DEF Collect, Stages, Files, Pcs, NoCode
<1>4. CASE \E violation \in BOOLEAN : Audit(violation)
  BY <1>1, <1>2, <1>4 DEF Audit, Pcs, Unsafe, Nothing
<1>5. CASE \E enabled, ads \in BOOLEAN : StartRelevance(enabled, ads)
  BY <1>1, <1>2, <1>5 DEF StartRelevance, Stages, Files, Pcs, Nothing
<1>6. CASE Resolve
  BY <1>0, <1>1, <1>2, <1>6 DEF Resolve, Stages, Files, Pcs, Fields
<1>7. CASE Gate
  BY <1>1, <1>2, <1>7 DEF Gate, Stages, Files, Pcs, Nothing
<1>8. CASE Enrich
  <2>1. /\ ResolutionResult \in Nat \cup {NoCode}
        /\ ResolutionFailure \in Nat \cup {NoCode}
    BY <1>0 DEF ResolutionResult, ResolutionFailure, Or, Fields
  <2>2. source \in Files
    BY DEF TypeInv, TypeOK
  <2> QED
    BY <1>1, <1>2, <1>8, <2>1, <2>2 DEF Enrich, Stages, Pcs
<1>9. CASE Finalize
  <2>1. source \in Files
    BY DEF TypeInv, TypeOK
  <2> QED
    BY <1>0, <1>1, <1>2, <1>9, <2>1 DEF Finalize, Stages, Files, Pcs, Fields
<1>10. CASE \E exists \in BOOLEAN : Import(exists)
  BY <1>1, <1>2, <1>10 DEF Import, Stages, Files, Pcs, Nothing
<1>11. CASE \E requested \in BOOLEAN, passes \in 1..MaxPasses :
              Transition(requested, passes)
  BY <1>11 DEF Transition, TypeInv, TypeOK, history, At
<1>12. CASE Pass
  <2>1. passesLeft # 0 => passesLeft > 0
    BY DEF TypeInv, TypeOK
  <2> QED
    BY <1>1, <1>2, <1>12, <2>1 DEF Pass, Stages, Files, Pcs, Nothing
<1>13. CASE Launch
  BY <1>13 DEF Launch, TypeInv, TypeOK, At
<1>14. CASE \E code \in Codes, more \in BOOLEAN : Return(code, more)
  <2> PICK code \in Codes, more \in BOOLEAN : Return(code, more)
    BY <1>14
  <2>1. code \in Nat
    OBVIOUS
  <2>2. codes' \in [Fields -> Nat \cup {NoCode}]
    BY <1>0, <2>1 DEF Return
  <2>3. Following[command] \in Pcs \ {"command"}
    BY DEF Following, Pcs, TypeInv, TypeOK, Stages
  <2>4. passesLeft' \in 0..MaxPasses
    BY DEF Return, TypeInv, TypeOK, At
  <2>5. pc' \in Pcs /\ ~At("calibrator")'
    BY <2>3 DEF Return, At
  <2>6. /\ succeeded' \in SUBSET Stages /\ failed' \in SUBSET Stages
        /\ source' \in Files
    BY DEF Return, TypeInv, TypeOK, Files
  <2> QED
    BY <2>2, <2>4, <2>5, <2>6 DEF Return, TypeInv, TypeOK, Pcs
<1>15. CASE Raise \/ RequestStop
  BY <1>15 DEF Raise, RequestStop, TypeInv, TypeOK, history, At
<1>16. CASE UNCHANGED vars
  BY <1>16 DEF vars, history, TypeInv, TypeOK, At
<1> QED
  BY <1>3, <1>4, <1>5, <1>6, <1>7, <1>8, <1>9, <1>10, <1>11, <1>12, <1>13, <1>14,
     <1>15, <1>16 DEF Next, Step

\* Every variable keeps its type; in particular a pass is never taken off an
\* empty plan, whatever the summaries of the calibrators say.
THEOREM PipelineTypeCorrect == Spec => []TypeOK
<1>1. TypeInv => TypeOK
  BY DEF TypeInv
<1> QED
  BY TypeInit, TypeStep, <1>1, PTL DEF Spec

LEMMA StopStep == TypeOK /\ StopInv /\ [Next]_vars => StopInv'
<1> SUFFICES ASSUME TypeOK, StopInv, [Next]_vars PROVE StopInv'
  OBVIOUS
<1>1. ASSUME NEW stage, NEW file, Decide(stage, file),
             pc = "collector" \/ ~stopping
      PROVE  StopInv'
  BY <1>1, DecideEffect DEF StopInv
<1>2. ASSUME NEW next, next \notin {"collector", "command"}, NEW new, Skip(next, new)
      PROVE  StopInv'
  BY <1>2, SkipEffect DEF StopInv
<1>3. CASE Collect
  BY <1>1, <1>2, <1>3 DEF Collect
<1>4. CASE \E violation \in BOOLEAN : Audit(violation)
  BY <1>2, <1>4 DEF Audit
<1>5. CASE \E enabled, ads \in BOOLEAN : StartRelevance(enabled, ads)
  BY <1>1, <1>2, <1>5 DEF StartRelevance, CanStartRelevance
<1>6. CASE Resolve \/ Gate \/ Enrich \/ Finalize
  BY <1>1, <1>2, <1>6 DEF Resolve, Gate, Enrich, Finalize
<1>7. CASE \E exists \in BOOLEAN : Import(exists)
  BY <1>1, <1>2, <1>7 DEF Import, CanImport
<1>8. CASE \E requested \in BOOLEAN, passes \in 1..MaxPasses :
             Transition(requested, passes)
  BY <1>8 DEF Transition, history, StopInv
<1>9. CASE Pass
  BY <1>1, <1>2, <1>9 DEF Pass
<1>10. CASE Launch
  BY <1>10 DEF Launch, StopInv
<1>11. CASE \E code \in Codes, more \in BOOLEAN : Return(code, more)
  <2>1. Following[command] \notin {"collector", "command"}
    BY DEF Following, TypeOK, Stages
  <2> QED
    BY <1>11, <2>1 DEF Return, StopInv
<1>12. CASE Raise \/ RequestStop
  BY <1>12 DEF Raise, RequestStop, history, StopInv
<1>13. CASE UNCHANGED vars
  BY <1>13 DEF vars, history, StopInv
<1> QED
  BY <1>3, <1>4, <1>5, <1>6, <1>7, <1>8, <1>9, <1>10, <1>11, <1>12, <1>13
     DEF Next, Step

\* Whatever the commands return and whenever the stop is asked for, the cycle
\* starts one more process at most.
THEOREM StopsAfterOneCommand == Spec => []OneCommandAfterStop
<1>1. Init => StopInv
  BY DEF Init, StopInv
<1>2. StopInv => OneCommandAfterStop
  BY DEF StopInv, OneCommandAfterStop
<1> QED
  BY PipelineTypeCorrect, <1>1, <1>2, StopStep, PTL DEF Spec
-----------------------------------------------------------------------------
(* The flow of the stages. *)

\* PostCollectionFailed, field by field.
LEMMA WholeMeans == PostCollectionFailed <=> ~Whole
  BY DEF PostCollectionFailed, Whole, Fields, Succeeded

\* What no decision changes.
Unchanging ==
  /\ request' = request /\ stopping' = stopping
  /\ source' = source /\ succeeded' = succeeded /\ failed' = failed

Kept(f) == codes'[f] = codes[f]
AllKept ==
  /\ Kept("collect") /\ Kept("safety") /\ Kept("prefilter") /\ Kept("isolated")
  /\ Kept("gate") /\ Kept("enrichment") /\ Kept("relevance")

LEMMA DecideKeeps ==
  ASSUME NEW stage, NEW file, Decide(stage, file)
  PROVE  Unchanging /\ AllKept /\ passesLeft' = passesLeft
           /\ pc' = "command" /\ command' = stage /\ input' = file
  BY DEF Decide, history, Unchanging, AllKept, Kept

LEMMA SkipKeeps ==
  ASSUME TypeOK, NEW next, NEW new, Skip(next, new)
  PROVE  /\ Unchanging /\ passesLeft' = passesLeft /\ pc' = next
         /\ command' = command /\ input' = input
         /\ \A f \in Fields : codes'[f] = IF f \in DOMAIN new THEN new[f] ELSE codes[f]
  BY DEF Skip, history, Unchanging, TypeOK


\* The collector, or the codes of a dry run.
LEMMA FlowCollect ==
  ASSUME TypeInv, FlowInv, Collect PROVE FlowInv'
<1>0. pc = "collector" /\ TypeOK
  BY DEF Collect, TypeInv
<1> USE <1>0 DEF FlowInv, SetOnce, Recorded, Passed, AtTheEnd, AtEnd, AtFinalize,
          AtEnrich, AtResolve, At, Filtered, ResolutionSucceeded, Succeeded, Whole,
          NoCode, Unchanging
<1>1. CASE request["dryRun"]
  <2>1. Skip("audit", [collect |-> 0])
    BY <1>1 DEF Collect
  <2>2. Unchanging /\ passesLeft' = passesLeft /\ pc' = "audit"
    BY <2>1, SkipKeeps
  <2>3. /\ codes'["collect"] = 0 /\ Kept("safety") /\ Kept("prefilter")
        /\ Kept("isolated") /\ Kept("gate") /\ Kept("enrichment")
        /\ Kept("relevance")
    BY <2>1, SkipKeeps DEF Fields, Kept
  <2> QED
    BY <1>1, <2>2, <2>3 DEF Kept
<1>2. CASE ~request["dryRun"]
  <2>1. Decide("collector", "none")
    BY <1>2 DEF Collect
  <2>2. /\ Unchanging /\ AllKept /\ passesLeft' = passesLeft
        /\ pc' = "command" /\ command' = "collector" /\ input' = "none"
    BY <2>1, DecideKeeps
  <2>3. SetOnce'
    BY <1>2, <2>2 DEF AllKept, Kept
  <2>4. Recorded'
    BY <1>2, <2>2 DEF AllKept, Kept
  <2>5. Passed'
    BY <1>2, <2>2 DEF AllKept, Kept
  <2>6. AtTheEnd'
    BY <1>2, <2>2 DEF AllKept, Kept
  <2> QED
    BY <2>3, <2>4, <2>5, <2>6 DEF FlowInv
<1> QED
  BY <1>1, <1>2

\* The interest-safety audit.
LEMMA FlowAudit ==
  ASSUME TypeInv, FlowInv, NEW violation \in BOOLEAN, Audit(violation) PROVE FlowInv'
<1>0. pc = "audit" /\ TypeOK
  BY DEF Audit, TypeInv
<1> USE <1>0 DEF FlowInv, SetOnce, Recorded, Passed, AtTheEnd, AtEnd, AtFinalize,
          AtEnrich, AtResolve, At, Filtered, ResolutionSucceeded, Succeeded, Whole,
          NoCode, Unchanging
<1> DEFINE audited == codes["collect"] = 0 /\ request["safe"] /\ ~request["dryRun"]
<1>1. CASE audited
  <2>1. Skip("relevance", [safety |-> IF violation THEN Unsafe ELSE 0])
    BY <1>1 DEF Audit
  <2>2. Unchanging /\ passesLeft' = passesLeft /\ pc' = "relevance"
    BY <2>1, SkipKeeps
  <2>3. /\ Kept("collect") /\ codes'["safety"] = (IF violation THEN Unsafe ELSE 0)
        /\ Kept("prefilter")
        /\ Kept("isolated") /\ Kept("gate") /\ Kept("enrichment")
        /\ Kept("relevance")
    BY <2>1, SkipKeeps DEF Fields, Kept
  <2> QED
    BY <1>1, <2>2, <2>3 DEF Kept
<1>2. CASE ~audited
  <2>1. Skip("relevance", Nothing)
    BY <1>2 DEF Audit
  <2>2. Unchanging /\ passesLeft' = passesLeft /\ pc' = "relevance"
    BY <2>1, SkipKeeps
  <2>3. /\ Kept("collect") /\ Kept("safety") /\ Kept("prefilter")
        /\ Kept("isolated") /\ Kept("gate") /\ Kept("enrichment")
        /\ Kept("relevance")
    BY <2>1, SkipKeeps DEF Fields, Kept, Nothing
  <2> QED
    BY <1>2, <2>2, <2>3 DEF Kept
<1> QED
  BY <1>1, <1>2

\* The first relevance stage, or none.
LEMMA FlowStartRelevance ==
  ASSUME TypeInv, FlowInv, NEW enabled \in BOOLEAN, NEW ads \in BOOLEAN,
         StartRelevance(enabled, ads) PROVE FlowInv'
<1>0. pc = "relevance" /\ TypeOK
  BY DEF StartRelevance, TypeInv
<1> USE <1>0 DEF FlowInv, SetOnce, Recorded, Passed, AtTheEnd, AtEnd, AtFinalize,
          AtEnrich, AtResolve, At, Filtered, ResolutionSucceeded, Succeeded, Whole,
          NoCode, Unchanging
<1>1. CASE CanStartRelevance(enabled, ads) /\ request["safe"]
  <2>1. Decide("prefilter", "ads")
    BY <1>1 DEF StartRelevance
  <2>2. /\ Unchanging /\ AllKept /\ passesLeft' = passesLeft
        /\ pc' = "command" /\ command' = "prefilter" /\ input' = "ads"
    BY <2>1, DecideKeeps
  <2>3. SetOnce'
    BY <1>1, <2>2 DEF AllKept, Kept
  <2>4. Recorded'
    BY <1>1, <2>2 DEF AllKept, Kept
  <2>5. Passed'
    BY <1>1, <2>2 DEF AllKept, Kept, CanStartRelevance, Unsafe
  <2>6. AtTheEnd'
    BY <1>1, <2>2 DEF AllKept, Kept, CanStartRelevance, Unsafe
  <2> QED
    BY <2>3, <2>4, <2>5, <2>6 DEF FlowInv
<1>2. CASE CanStartRelevance(enabled, ads) /\ ~request["safe"]
  <2>1. Decide("standard", "ads")
    BY <1>2 DEF StartRelevance
  <2>2. /\ Unchanging /\ AllKept /\ passesLeft' = passesLeft
        /\ pc' = "command" /\ command' = "standard" /\ input' = "ads"
    BY <2>1, DecideKeeps
  <2>3. SetOnce'
    BY <1>2, <2>2 DEF AllKept, Kept
  <2>4. Recorded'
    BY <1>2, <2>2 DEF AllKept, Kept
  <2>5. Passed'
    BY <1>2, <2>2 DEF AllKept, Kept, CanStartRelevance
  <2>6. AtTheEnd'
    BY <1>2, <2>2 DEF AllKept, Kept, CanStartRelevance
  <2> QED
    BY <2>3, <2>4, <2>5, <2>6 DEF FlowInv
<1>3. CASE ~CanStartRelevance(enabled, ads)
  <2>1. Skip("import", Nothing)
    BY <1>3 DEF StartRelevance
  <2>2. Unchanging /\ passesLeft' = passesLeft /\ pc' = "import"
    BY <2>1, SkipKeeps
  <2>3. /\ Kept("collect") /\ Kept("safety") /\ Kept("prefilter")
        /\ Kept("isolated") /\ Kept("gate") /\ Kept("enrichment")
        /\ Kept("relevance")
    BY <2>1, SkipKeeps DEF Fields, Kept, Nothing
  <2> QED
    BY <1>3, <2>2, <2>3 DEF Kept
<1> QED
  BY <1>1, <1>2, <1>3

\* After the passive filter.
LEMMA FlowResolve ==
  ASSUME TypeInv, FlowInv, Resolve PROVE FlowInv'
<1>0. pc = "prefiltered" /\ TypeOK
  BY DEF Resolve, TypeInv
<1> USE <1>0 DEF FlowInv, SetOnce, Recorded, Passed, AtTheEnd, AtEnd, AtFinalize,
          AtEnrich, AtResolve, At, Filtered, ResolutionSucceeded, Succeeded, Whole,
          NoCode, Unchanging
<1> DEFINE over == codes["prefilter"] # 0 \/ stopping
<1>1. CASE over
  <2>1. Skip("import", [relevance |-> codes["prefilter"]])
    BY <1>1 DEF Resolve
  <2>2. Unchanging /\ passesLeft' = passesLeft /\ pc' = "import"
    BY <2>1, SkipKeeps
  <2>3. /\ Kept("collect") /\ Kept("safety") /\ Kept("prefilter")
        /\ Kept("isolated") /\ Kept("gate") /\ Kept("enrichment")
        /\ codes'["relevance"] = codes["prefilter"]
    BY <2>1, SkipKeeps DEF Fields, Kept
  <2> QED
    BY <1>1, <2>2, <2>3 DEF Kept
<1>2. CASE ~over /\ request["isolated"]
  <2>1. Decide("resolver", "prefilter")
    BY <1>2 DEF Resolve
  <2>2. /\ Unchanging /\ AllKept /\ passesLeft' = passesLeft
        /\ pc' = "command" /\ command' = "resolver" /\ input' = "prefilter"
    BY <2>1, DecideKeeps
  <2>3. SetOnce'
    BY <1>2, <2>2 DEF AllKept, Kept
  <2>4. Recorded'
    BY <1>2, <2>2 DEF AllKept, Kept
  <2>5. Passed'
    BY <1>2, <2>2 DEF AllKept, Kept
  <2>6. AtTheEnd'
    BY <1>2, <2>2 DEF AllKept, Kept
  <2> QED
    BY <2>3, <2>4, <2>5, <2>6 DEF FlowInv
<1>3. CASE ~over /\ ~request["isolated"]
  <2>1. Skip("enrich", [isolated |-> 0, gate |-> 0])
    BY <1>3 DEF Resolve
  <2>2. Unchanging /\ passesLeft' = passesLeft /\ pc' = "enrich"
    BY <2>1, SkipKeeps
  <2>3. /\ Kept("collect") /\ Kept("safety") /\ Kept("prefilter")
        /\ codes'["isolated"] = 0 /\ codes'["gate"] = 0 /\ Kept("enrichment")
        /\ Kept("relevance")
    BY <2>1, SkipKeeps DEF Fields, Kept
  <2> QED
    BY <1>3, <2>2, <2>3 DEF Kept
<1> QED
  BY <1>1, <1>2, <1>3

\* After the resolver.
LEMMA FlowGate ==
  ASSUME TypeInv, FlowInv, Gate PROVE FlowInv'
<1>0. pc = "resolved" /\ TypeOK
  BY DEF Gate, TypeInv
<1> USE <1>0 DEF FlowInv, SetOnce, Recorded, Passed, AtTheEnd, AtEnd, AtFinalize,
          AtEnrich, AtResolve, At, Filtered, ResolutionSucceeded, Succeeded, Whole,
          NoCode, Unchanging
<1> DEFINE gates == codes["isolated"] = 0 /\ ~stopping
<1>1. CASE gates
  <2>1. Decide("gate", "isolated")
    BY <1>1 DEF Gate
  <2>2. /\ Unchanging /\ AllKept /\ passesLeft' = passesLeft
        /\ pc' = "command" /\ command' = "gate" /\ input' = "isolated"
    BY <2>1, DecideKeeps
  <2>3. SetOnce'
    BY <1>1, <2>2 DEF AllKept, Kept
  <2>4. Recorded'
    BY <1>1, <2>2 DEF AllKept, Kept
  <2>5. Passed'
    BY <1>1, <2>2 DEF AllKept, Kept
  <2>6. AtTheEnd'
    BY <1>1, <2>2 DEF AllKept, Kept
  <2> QED
    BY <2>3, <2>4, <2>5, <2>6 DEF FlowInv
<1>2. CASE ~gates
  <2>1. Skip("enrich", Nothing)
    BY <1>2 DEF Gate
  <2>2. Unchanging /\ passesLeft' = passesLeft /\ pc' = "enrich"
    BY <2>1, SkipKeeps
  <2>3. /\ Kept("collect") /\ Kept("safety") /\ Kept("prefilter")
        /\ Kept("isolated") /\ Kept("gate") /\ Kept("enrichment")
        /\ Kept("relevance")
    BY <2>1, SkipKeeps DEF Fields, Kept, Nothing
  <2> QED
    BY <1>2, <2>2, <2>3 DEF Kept
<1> QED
  BY <1>1, <1>2

\* Enrichment, or the codes that stand for it.
LEMMA FlowEnrich ==
  ASSUME TypeInv, FlowInv, Enrich PROVE FlowInv'
<1>0. pc = "enrich" /\ TypeOK
  BY DEF Enrich, TypeInv
<1> USE <1>0 DEF FlowInv, SetOnce, Recorded, Passed, AtTheEnd, AtEnd, AtFinalize,
          AtEnrich, AtResolve, At, Filtered, ResolutionSucceeded, Succeeded, Whole,
          NoCode, Unchanging
<1>1. CASE ~request["enrich"]
  <2>1. Skip("finalize", [enrichment |-> ResolutionResult])
    BY <1>1 DEF Enrich
  <2>2. Unchanging /\ passesLeft' = passesLeft /\ pc' = "finalize"
    BY <2>1, SkipKeeps
  <2>3. /\ Kept("collect") /\ Kept("safety") /\ Kept("prefilter")
        /\ Kept("isolated") /\ Kept("gate") /\ codes'["enrichment"] = ResolutionResult
        /\ Kept("relevance")
    BY <2>1, SkipKeeps DEF Fields, Kept
  <2> QED
    BY <1>1, <2>2, <2>3 DEF Kept, ResolutionResult, ResolutionFailure, Or
<1>2. CASE request["enrich"] /\ ResolutionSucceeded /\ ~stopping
  <2>1. Decide("enricher", source)
    BY <1>2 DEF Enrich
  <2>2. /\ Unchanging /\ AllKept /\ passesLeft' = passesLeft
        /\ pc' = "command" /\ command' = "enricher" /\ input' = source
    BY <2>1, DecideKeeps
  <2>3. SetOnce'
    BY <1>2, <2>2 DEF AllKept, Kept
  <2>4. Recorded'
    BY <1>2, <2>2 DEF AllKept, Kept
  <2>5. Passed'
    BY <1>2, <2>2 DEF AllKept, Kept
  <2>6. AtTheEnd'
    BY <1>2, <2>2 DEF AllKept, Kept
  <2> QED
    BY <2>3, <2>4, <2>5, <2>6 DEF FlowInv
<1>3. CASE request["enrich"] /\ (~ResolutionSucceeded \/ stopping)
  <2>1. Skip("finalize", [enrichment |-> ResolutionFailure])
    BY <1>3 DEF Enrich
  <2>2. Unchanging /\ passesLeft' = passesLeft /\ pc' = "finalize"
    BY <2>1, SkipKeeps
  <2>3. /\ Kept("collect") /\ Kept("safety") /\ Kept("prefilter")
        /\ Kept("isolated") /\ Kept("gate") /\ codes'["enrichment"] = ResolutionFailure
        /\ Kept("relevance")
    BY <2>1, SkipKeeps DEF Fields, Kept
  <2> QED
    BY <1>3, <2>2, <2>3 DEF Kept, ResolutionFailure, Or
<1> QED
  BY <1>1, <1>2, <1>3

\* The final classification.
LEMMA FlowFinalize ==
  ASSUME TypeInv, FlowInv, Finalize PROVE FlowInv'
<1>0. pc = "finalize" /\ TypeOK
  BY DEF Finalize, TypeInv
<1> USE <1>0 DEF FlowInv, SetOnce, Recorded, Passed, AtTheEnd, AtEnd, AtFinalize,
          AtEnrich, AtResolve, At, Filtered, ResolutionSucceeded, Succeeded, Whole,
          NoCode, Unchanging
<1> DEFINE ready == codes["enrichment"] = 0 /\ ~stopping
<1> DEFINE file == IF request["enrich"] THEN "enriched" ELSE source
<1>1. CASE ready
  <2>1. Decide("finalize", file)
    BY <1>1 DEF Finalize
  <2>2. /\ Unchanging /\ AllKept /\ passesLeft' = passesLeft
        /\ pc' = "command" /\ command' = "finalize" /\ input' = file
    BY <2>1, DecideKeeps
  <2>3. SetOnce'
    BY <1>1, <2>2 DEF AllKept, Kept
  <2>4. Recorded'
    BY <1>1, <2>2 DEF AllKept, Kept
  <2>5. Passed'
    BY <1>1, <2>2 DEF AllKept, Kept
  <2>6. AtTheEnd'
    BY <1>1, <2>2 DEF AllKept, Kept
  <2> QED
    BY <2>3, <2>4, <2>5, <2>6 DEF FlowInv
<1>2. CASE ~ready
  <2>1. Skip("import", [relevance |-> codes["enrichment"]])
    BY <1>2 DEF Finalize
  <2>2. Unchanging /\ passesLeft' = passesLeft /\ pc' = "import"
    BY <2>1, SkipKeeps
  <2>3. /\ Kept("collect") /\ Kept("safety") /\ Kept("prefilter")
        /\ Kept("isolated") /\ Kept("gate") /\ Kept("enrichment")
        /\ codes'["relevance"] = codes["enrichment"]
    BY <2>1, SkipKeeps DEF Fields, Kept
  <2> QED
    BY <1>2, <2>2, <2>3 DEF Kept
<1> QED
  BY <1>1, <1>2

\* The import of the finished ads.
LEMMA FlowImport ==
  ASSUME TypeInv, FlowInv, NEW exists \in BOOLEAN, Import(exists) PROVE FlowInv'
<1>0. pc = "import" /\ TypeOK
  BY DEF Import, TypeInv
<1> USE <1>0 DEF FlowInv, SetOnce, Recorded, Passed, AtTheEnd, AtEnd, AtFinalize,
          AtEnrich, AtResolve, At, Filtered, ResolutionSucceeded, Succeeded, Whole,
          NoCode, Unchanging
<1> DEFINE imports == CanImport /\ exists
<1> DEFINE file == IF codes["relevance"] = 0 THEN "relevant" ELSE "ads"
<1>1. CASE imports
  <2>1. Decide("importer", file)
    BY <1>1 DEF Import
  <2>2. /\ Unchanging /\ AllKept /\ passesLeft' = passesLeft
        /\ pc' = "command" /\ command' = "importer" /\ input' = file
    BY <2>1, DecideKeeps
  <2>3. SetOnce'
    BY <1>1, <2>2 DEF AllKept, Kept
  <2>4. Recorded'
    BY <1>1, <2>2 DEF AllKept, Kept
  <2>5. Passed'
    BY <1>1, <2>2 DEF AllKept, Kept, CanImport
  <2>6. AtTheEnd'
    BY <1>1, <2>2 DEF AllKept, Kept, CanImport
  <2> QED
    BY <2>3, <2>4, <2>5, <2>6 DEF FlowInv
<1>2. CASE ~imports
  <2>1. Skip("transition", Nothing)
    BY <1>2 DEF Import
  <2>2. Unchanging /\ passesLeft' = passesLeft /\ pc' = "transition"
    BY <2>1, SkipKeeps
  <2>3. /\ Kept("collect") /\ Kept("safety") /\ Kept("prefilter")
        /\ Kept("isolated") /\ Kept("gate") /\ Kept("enrichment")
        /\ Kept("relevance")
    BY <2>1, SkipKeeps DEF Fields, Kept, Nothing
  <2> QED
    BY <1>2, <2>2, <2>3 DEF Kept
<1> QED
  BY <1>1, <1>2

\* The decision on calibration.
LEMMA FlowTransition ==
  ASSUME TypeInv, FlowInv, NEW requested \in BOOLEAN, NEW passes \in 1..MaxPasses,
         Transition(requested, passes)
  PROVE  FlowInv'
<1>1. /\ Unchanging /\ pc = "transition" /\ pc' = "passes" /\ codes' = codes
      /\ passesLeft' > 0 => ~stopping /\ Whole
  BY WholeMeans DEF Transition, history, Unchanging
<1>2. AllKept
  BY <1>1 DEF Kept, AllKept
<1> QED
  BY <1>1, <1>2 DEF AllKept, FlowInv, SetOnce, Recorded, Passed, AtTheEnd, AtEnd, AtFinalize,
          AtEnrich, AtResolve, At, Filtered, ResolutionSucceeded, Succeeded, Whole,
          NoCode, Unchanging, Kept

\* A calibration pass, or the end of the cycle.
LEMMA FlowPass ==
  ASSUME TypeInv, FlowInv, Pass PROVE FlowInv'
<1>0. pc = "passes" /\ TypeOK
  BY DEF Pass, TypeInv
<1> USE <1>0 DEF FlowInv, SetOnce, Recorded, Passed, AtTheEnd, AtEnd, AtFinalize,
          AtEnrich, AtResolve, At, Filtered, ResolutionSucceeded, Succeeded, Whole,
          NoCode, Unchanging
<1> DEFINE done == passesLeft = 0 \/ stopping \/ request["dryRun"]
<1>1. CASE done
  <2>1. Skip("recorded", Nothing)
    BY <1>1 DEF Pass
  <2>2. Unchanging /\ passesLeft' = passesLeft /\ pc' = "recorded"
    BY <2>1, SkipKeeps
  <2>3. /\ Kept("collect") /\ Kept("safety") /\ Kept("prefilter")
        /\ Kept("isolated") /\ Kept("gate") /\ Kept("enrichment")
        /\ Kept("relevance")
    BY <2>1, SkipKeeps DEF Fields, Kept, Nothing
  <2> QED
    BY <1>1, <2>2, <2>3 DEF Kept
<1>3. passesLeft # 0 => passesLeft > 0
  BY PipelineAssumption DEF TypeInv, TypeOK
<1>2. CASE ~done
  <2>1. Decide("calibrator", "none")
    BY <1>2 DEF Pass
  <2>2. /\ Unchanging /\ AllKept /\ passesLeft' = passesLeft
        /\ pc' = "command" /\ command' = "calibrator" /\ input' = "none"
    BY <2>1, DecideKeeps
  <2>3. SetOnce'
    BY <1>2, <1>3, <2>2 DEF AllKept, Kept
  <2>4. Recorded'
    BY <1>2, <1>3, <2>2 DEF AllKept, Kept
  <2>5. Passed'
    BY <1>2, <1>3, <2>2 DEF AllKept, Kept
  <2>6. AtTheEnd'
    BY <1>2, <1>3, <2>2, SMTT(30) DEF AllKept, Kept
  <2> QED
    BY <2>3, <2>4, <2>5, <2>6 DEF FlowInv
<1> QED
  BY <1>1, <1>2

\* The end of a command.
LEMMA FlowReturn ==
  ASSUME TypeInv, FlowInv, NEW code \in Codes, NEW more \in BOOLEAN, Return(code, more)
  PROVE  FlowInv'
<1> USE DEF FlowInv, SetOnce, Recorded, Passed, AtTheEnd, AtEnd, AtFinalize,
          AtEnrich, AtResolve, At, Filtered, ResolutionSucceeded, Succeeded, Whole,
          NoCode
<1>0. /\ pc = "command" /\ code \in Nat
      /\ request' = request /\ stopping' = stopping
      /\ passesLeft' = IF command # "calibrator" THEN passesLeft
                       ELSE IF more THEN passesLeft - 1 ELSE 0
      /\ source' = IF command = "gate" /\ code = 0 THEN "gated" ELSE source
      /\ succeeded' = IF code = 0 THEN succeeded \cup {command} ELSE succeeded
      /\ failed' = IF code = 0 THEN failed ELSE failed \cup {command}
  BY PipelineAssumption DEF Return
<1> DEFINE field == Field[command]
<1>10. /\ pc' = Following[command]
      /\ \A f \in Fields : codes'[f] = IF f = field THEN code ELSE codes[f]
  BY DEF Return, TypeInv, TypeOK
<1> HIDE DEF field
<1>1. CASE command = "collector"
  <2>1. pc' = "audit" /\ field = "collect"
    BY <1>1, <1>10 DEF Following, field, Field, Stages
  <2>2. /\ codes'["collect"] = code /\ Kept("safety") /\ Kept("prefilter")
        /\ Kept("isolated") /\ Kept("gate") /\ Kept("enrichment")
        /\ Kept("relevance")
    BY <1>10, <2>1 DEF Fields, Kept
  <2> QED
    BY <1>0, <1>1, <2>1, <2>2, PipelineAssumption DEF TypeInv, TypeOK, Kept
<1>2. CASE command = "prefilter"
  <2>1. pc' = "prefiltered" /\ field = "prefilter"
    BY <1>2, <1>10 DEF Following, field, Field, Stages
  <2>2. /\ Kept("collect") /\ Kept("safety") /\ codes'["prefilter"] = code
        /\ Kept("isolated") /\ Kept("gate") /\ Kept("enrichment")
        /\ Kept("relevance")
    BY <1>10, <2>1 DEF Fields, Kept
  <2> QED
    BY <1>0, <1>2, <2>1, <2>2, PipelineAssumption DEF TypeInv, TypeOK, Kept
<1>3. CASE command = "standard"
  <2>1. pc' = "import" /\ field = "relevance"
    BY <1>3, <1>10 DEF Following, field, Field, Stages
  <2>2. /\ Kept("collect") /\ Kept("safety") /\ Kept("prefilter")
        /\ Kept("isolated") /\ Kept("gate") /\ Kept("enrichment")
        /\ codes'["relevance"] = code
    BY <1>10, <2>1 DEF Fields, Kept
  <2> QED
    BY <1>0, <1>3, <2>1, <2>2, PipelineAssumption DEF TypeInv, TypeOK, Kept
<1>4. CASE command = "resolver"
  <2>1. pc' = "resolved" /\ field = "isolated"
    BY <1>4, <1>10 DEF Following, field, Field, Stages
  <2>2. /\ Kept("collect") /\ Kept("safety") /\ Kept("prefilter")
        /\ codes'["isolated"] = code /\ Kept("gate") /\ Kept("enrichment")
        /\ Kept("relevance")
    BY <1>10, <2>1 DEF Fields, Kept
  <2> QED
    BY <1>0, <1>4, <2>1, <2>2, PipelineAssumption DEF TypeInv, TypeOK, Kept
<1>5. CASE command = "gate"
  <2>1. pc' = "enrich" /\ field = "gate"
    BY <1>5, <1>10 DEF Following, field, Field, Stages
  <2>2. /\ Kept("collect") /\ Kept("safety") /\ Kept("prefilter")
        /\ Kept("isolated") /\ codes'["gate"] = code /\ Kept("enrichment")
        /\ Kept("relevance")
    BY <1>10, <2>1 DEF Fields, Kept
  <2> QED
    BY <1>0, <1>5, <2>1, <2>2, PipelineAssumption DEF TypeInv, TypeOK, Kept
<1>6. CASE command = "enricher"
  <2>1. pc' = "finalize" /\ field = "enrichment"
    BY <1>6, <1>10 DEF Following, field, Field, Stages
  <2>2. /\ Kept("collect") /\ Kept("safety") /\ Kept("prefilter")
        /\ Kept("isolated") /\ Kept("gate") /\ codes'["enrichment"] = code
        /\ Kept("relevance")
    BY <1>10, <2>1 DEF Fields, Kept
  <2> QED
    BY <1>0, <1>6, <2>1, <2>2, PipelineAssumption DEF TypeInv, TypeOK, Kept
<1>7. CASE command = "finalize"
  <2>1. pc' = "import" /\ field = "relevance"
    BY <1>7, <1>10 DEF Following, field, Field, Stages
  <2>2. /\ Kept("collect") /\ Kept("safety") /\ Kept("prefilter")
        /\ Kept("isolated") /\ Kept("gate") /\ Kept("enrichment")
        /\ codes'["relevance"] = code
    BY <1>10, <2>1 DEF Fields, Kept
  <2> QED
    BY <1>0, <1>7, <2>1, <2>2, PipelineAssumption DEF TypeInv, TypeOK, Kept
<1>8. CASE command = "importer"
  <2>1. pc' = "transition" /\ field = "none"
    BY <1>8, <1>10 DEF Following, field, Field, Stages
  <2>2. /\ Kept("collect") /\ Kept("safety") /\ Kept("prefilter")
        /\ Kept("isolated") /\ Kept("gate") /\ Kept("enrichment")
        /\ Kept("relevance")
    BY <1>10, <2>1 DEF Fields, Kept
  <2> QED
    BY <1>0, <1>8, <2>1, <2>2, PipelineAssumption DEF TypeInv, TypeOK, Kept
<1>9. CASE command = "calibrator"
  <2>1. pc' = "passes" /\ field = "none"
    BY <1>9, <1>10 DEF Following, field, Field, Stages
  <2>2. /\ Kept("collect") /\ Kept("safety") /\ Kept("prefilter")
        /\ Kept("isolated") /\ Kept("gate") /\ Kept("enrichment")
        /\ Kept("relevance")
    BY <1>10, <2>1, SMTT(30) DEF Fields, Kept
  <2> QED
    BY <1>0, <1>9, <2>1, <2>2, PipelineAssumption DEF TypeInv, TypeOK, Kept
<1> QED
  BY <1>1, <1>2, <1>3, <1>4, <1>5, <1>6, <1>7, <1>8, <1>9 DEF TypeInv, TypeOK, Stages

\* FlowInv is inductive.
LEMMA FlowStep == TypeInv /\ FlowInv /\ [Next]_vars => FlowInv'
<1> SUFFICES ASSUME TypeInv, FlowInv, [Next]_vars PROVE FlowInv'
  OBVIOUS
<1>1. CASE Collect \/ Resolve \/ Gate \/ Enrich \/ Finalize \/ Pass
  BY <1>1, FlowCollect, FlowResolve, FlowGate, FlowEnrich, FlowFinalize, FlowPass
<1>2. CASE \E violation \in BOOLEAN : Audit(violation)
  BY <1>2, FlowAudit
<1>3. CASE \E enabled, ads \in BOOLEAN : StartRelevance(enabled, ads)
  BY <1>3, FlowStartRelevance
<1>4. CASE \E exists \in BOOLEAN : Import(exists)
  BY <1>4, FlowImport
<1>5. CASE \E requested \in BOOLEAN, passes \in 1..MaxPasses :
             Transition(requested, passes)
  BY <1>5, FlowTransition
<1>6. CASE \E code \in Codes, more \in BOOLEAN : Return(code, more)
  BY <1>6, FlowReturn
<1> USE DEF FlowInv, SetOnce, Recorded, Passed, AtTheEnd, AtEnd, AtFinalize,
          AtEnrich, AtResolve, At, Filtered, ResolutionSucceeded, Succeeded, Whole,
          NoCode
<1>7. CASE Launch \/ UNCHANGED vars
  BY <1>7 DEF Launch, vars, history
<1>8. CASE Raise \/ RequestStop
  BY <1>8 DEF Raise, RequestStop, history
<1> QED
  BY <1>1, <1>2, <1>3, <1>4, <1>5, <1>6, <1>7, <1>8 DEF Next, Step

LEMMA FlowInit == Init => FlowInv
<1> SUFFICES ASSUME Init PROVE FlowInv
  OBVIOUS
<1>1. codes["collect"] = NoCode /\ codes["safety"] = NoCode
        /\ codes["prefilter"] = NoCode /\ codes["isolated"] = NoCode
        /\ codes["gate"] = NoCode /\ codes["enrichment"] = NoCode
        /\ codes["relevance"] = NoCode
  BY DEF Init, Fields
<1> QED
  BY <1>1 DEF Init, FlowInv, SetOnce, Recorded, Passed, AtTheEnd, AtEnd, AtFinalize,
       AtEnrich, AtResolve, At, Filtered, ResolutionSucceeded, Succeeded, Whole, NoCode

LEMMA FlowAlways == Spec => [](TypeInv /\ FlowInv)
  BY TypeInit, TypeStep, FlowInit, FlowStep, PTL DEF Spec

\* Nothing of an interest-safe collection reaches the pages of ads unfiltered or
\* past the gate, whatever the stages return and whenever the stop comes.
THEOREM EnrichmentIsGated == Spec => []EnrichesGatedAds
<1>1. FlowInv => EnrichesGatedAds
  BY DEF FlowInv, Recorded, Passed, AtTheEnd, AtEnd, AtFinalize, AtEnrich, AtResolve,
         At, Filtered, EnrichesGatedAds
<1> QED
  BY FlowAlways, <1>1, PTL

\* An import takes the file its own cycle's last relevance stage has written.
THEOREM ImportIsFinalized == Spec => []ImportsFinalizedAds
<1>1. TypeInv /\ FlowInv => ImportsFinalizedAds
  <2> SUFFICES ASSUME TypeInv, FlowInv, At("importer") PROVE ImportsFinalizedAds
    BY DEF ImportsFinalizedAds
  <2>1. \A s \in Stages : s \notin failed
    BY DEF FlowInv, Recorded, Passed, AtTheEnd, At, Stages, Succeeded, Whole
  <2>2. failed = {}
    BY <2>1 DEF TypeInv, TypeOK
  <2> QED
    BY <2>2 DEF FlowInv, AtTheEnd, At, ImportsFinalizedAds
<1> QED
  BY FlowAlways, <1>1, PTL

\* No calibration pass follows relevance stages that failed or were left half-way.
THEOREM CalibrationFollowsWholePipeline == Spec => []CalibratesAfterWholePipeline
<1>1. TypeInv /\ FlowInv => CalibratesAfterWholePipeline
  <2> SUFFICES ASSUME TypeInv, FlowInv, At("calibrator")
               PROVE  CalibratesAfterWholePipeline
    BY DEF CalibratesAfterWholePipeline
  <2>1. Whole
    BY DEF TypeInv, FlowInv, AtTheEnd
  <2>2. \A s \in Stages \ {"collector", "importer", "calibrator"} : s \notin failed
    BY <2>1 DEF FlowInv, Recorded, Stages, Succeeded, Whole
  <2>3. failed \subseteq {"collector", "importer", "calibrator"}
    BY <2>2 DEF TypeInv, TypeOK
  <2>4. codes["safety"] # Unsafe
    BY <2>1 DEF Whole, Succeeded, NoCode, Unsafe
  <2>5. "prefilter" \in succeeded => "finalize" \in succeeded
    BY DEF FlowInv, AtTheEnd
  <2> QED
    BY <2>3, <2>4, <2>5 DEF CalibratesAfterWholePipeline
<1> QED
  BY FlowAlways, <1>1, PTL

-----------------------------------------------------------------------------
(* The processes: the calls of the handler, and what a signal does.        *)


FrameAt == {"set", "setting", "lock", "reading", "forwarding"}
Calls == [at : FrameAt, left : SUBSET (Threads \X (0..Commands))]

\* A call that is replaced by another on top of the stack, or taken from it,
\* leaves the calls below it as they are.
LEMMA TopReplaced ==
  ASSUME NEW at \in FrameAt, NEW left \in SUBSET (Threads \X (0..Commands)),
         frames \in Seq(Calls), frames # <<>>, Goto(at, left)
  PROVE  /\ frames' \in Seq(Calls) /\ Len(frames') = Len(frames)
         /\ Len(frames) \in Nat \ {0}
         /\ frames'[Len(frames)] = Frame(at, left)
         /\ \A i \in 1..(Len(frames) - 1) : frames'[i] = frames[i]
<1>1. Len(frames) \in Nat \ {0}
  OBVIOUS
<1>2. Frame(at, left) \in Calls
  BY DEF Frame, Calls
<1>3. frames' = [frames EXCEPT ![Len(frames)] = Frame(at, left)]
  BY DEF Goto
<1> QED
  BY <1>1, <1>2, <1>3

LEMMA TopTaken ==
  ASSUME frames \in Seq(Calls), frames # <<>>, HandlerReturns
  PROVE  /\ frames' \in Seq(Calls) /\ Len(frames') = Len(frames) - 1
         /\ Len(frames) \in Nat \ {0}
         /\ \A i \in 1..(Len(frames) - 1) : frames'[i] = frames[i]
<1>1. Len(frames) \in Nat \ {0}
  OBVIOUS
<1>2. frames' = SubSeq(frames, 1, Len(frames) - 1)
  BY DEF HandlerReturns
<1> DEFINE n == Len(frames) - 1
<1>3. frames' = [i \in 1..n |-> frames[i]]
  BY <1>1, <1>2
<1>4. n \in Nat /\ \A i \in 1..n : frames[i] \in Calls
  BY <1>1
<1>5. frames' \in [1..n -> Calls]
  BY <1>3, <1>4
<1>6. Len(frames') = n /\ frames' \in Seq(Calls)
  BY <1>4, <1>5
<1> QED
  BY <1>1, <1>3, <1>6

\* What a signal makes of a child: it never stays at work, and an ended one
\* stays ended.
LEMMA SendEffect ==
  ASSUME NEW t \in Threads, NEW sig \in {"INT", "TERM", "KILL"}, RunnerTypeOK, Send(t, sig)
  PROVE  /\ child' \in [Threads -> Alive \cup {"none", "dead"}]
         /\ \A u \in Threads \ {t} : child'[u] = child[u]
         /\ child'[t] \notin {"booting", "working"}
         /\ child[t] \in {"none", "dead"} => child'[t] = child[t]
         /\ sig = "KILL" => child'[t] \notin Alive
         /\ child[t] # "none" => child'[t] # "none"
<1>1. PICK next \in After(child[t], sig) : child' = [child EXCEPT ![t] = next]
  BY DEF Send
<1>2. child[t] \in Alive \cup {"none", "dead"}
  BY DEF RunnerTypeOK
<1>3. /\ next \in {"finalizing", "dead", "none"}
      /\ child[t] \in {"none", "dead"} => next = child[t]
      /\ sig = "KILL" => next \notin Alive
      /\ child[t] # "none" => next # "none"
  BY <1>1, <1>2 DEF After, Alive
<1> QED
  BY <1>1, <1>3 DEF RunnerTypeOK, Alive

-----------------------------------------------------------------------------
(* Types. *)

LEMMA RunnerTypeInit == RunnerInit => RunnerTypeOK
<1> SUFFICES ASSUME RunnerInit PROVE RunnerTypeOK
  OBVIOUS
<1>1. frames \in Seq([at : {"set", "setting", "lock", "reading", "forwarding"},
                     left : SUBSET (Threads \X (0..Commands))])
  BY DEF RunnerInit
<1>2. started \in [Threads -> 0..Commands] /\ signals \in 0..MaxSignals
  BY RunnerAssumption DEF RunnerInit
<1>3. /\ step \in [Threads -> {"idle"}] /\ child \in [Threads -> {"none"}]
      /\ unlisted \in [Threads -> {"no"}]
  BY DEF RunnerInit
<1> QED
  BY <1>1, <1>2, <1>3 DEF RunnerInit, RunnerTypeOK, Alive

LEMMA RunnerTypeStep == RunnerTypeOK /\ [RunnerNext]_runnerVars => RunnerTypeOK'
<1> SUFFICES ASSUME RunnerTypeOK, [RunnerNext]_runnerVars PROVE RunnerTypeOK'
  OBVIOUS
<1> USE RunnerAssumption
<1>0. /\ frames \in Seq(Calls)
      /\ \A t \in Threads : started[t] \in 0..Commands
  BY DEF RunnerTypeOK, Calls, FrameAt
<1>1. CASE Signal
  <2>1. Frame("set", {}) \in Calls
    BY DEF Frame, Calls, FrameAt
  <2>2. frames' \in Seq(Calls)
    BY <1>0, <1>1, <2>1 DEF Signal
  <2> QED
    BY <1>1, <2>2 DEF Signal, RunnerTypeOK, Calls, FrameAt
<1>2. ASSUME NEW at \in FrameAt, NEW left \in SUBSET (Threads \X (0..Commands)),
             frames # <<>>, Goto(at, left)
      PROVE  frames' \in Seq([at : {"set", "setting", "lock", "reading", "forwarding"},
                              left : SUBSET (Threads \X (0..Commands))])
  BY <1>0, <1>2, TopReplaced DEF Calls, FrameAt
<1>3. CASE LockEvent
  BY <1>2, <1>3 DEF LockEvent, RunnerTypeOK, FrameAt
<1>4. CASE SetEvent
  BY <1>2, <1>4 DEF SetEvent, RunnerTypeOK, FrameAt
<1>5. CASE LockRegistry
  BY <1>2, <1>5 DEF LockRegistry, RunnerTypeOK, FrameAt
<1>6. CASE Snapshot
  <2>1. {<<t, started[t]>> : t \in registry} \in SUBSET (Threads \X (0..Commands))
    BY <1>0 DEF RunnerTypeOK
  <2>2. unlisted' \in [Threads -> {"no", "early", "late"}]
    BY <1>6 DEF Snapshot, RunnerTypeOK
  <2> QED
    BY <1>2, <1>6, <2>1, <2>2 DEF Snapshot, RunnerTypeOK, FrameAt
<1>7. CASE \E t \in Threads, n \in 1..Commands : Forward(t, n)
  <2> PICK t \in Threads, n \in 1..Commands : Forward(t, n)
    BY <1>7
  <2>1. frames # <<>> /\ Top \in Calls
    BY <1>0 DEF Forward, Top
  <2>2. Top.left \ {<<t, n>>} \in SUBSET (Threads \X (0..Commands))
    BY <2>1 DEF Calls
  <2>3. child' \in [Threads -> Alive \cup {"none", "dead"}]
    BY SendEffect DEF Forward, RunnerTypeOK
  <2> QED
    BY <1>2, <2>1, <2>2, <2>3 DEF Forward, RunnerTypeOK, FrameAt
<1>8. CASE HandlerReturns
  <2>1. frames' \in Seq(Calls)
    BY <1>0, <1>8, TopTaken DEF HandlerReturns
  <2> QED
    BY <1>8, <2>1 DEF HandlerReturns, RunnerTypeOK, Calls, FrameAt
<1>9. ASSUME NEW t \in Threads, Thread(t) \/ Child(t) PROVE RunnerTypeOK'
  <2>1. CASE StartCommand(t)
    BY <2>1, <1>0 DEF StartCommand, handlerVars, RunnerTypeOK
  <2>2. CASE Spawn(t)
    BY <2>2 DEF Spawn, handlerVars, RunnerTypeOK, Alive
  <2>3. CASE Register(t) \/ Timeout(t) \/ Ended(t)
    BY <2>3 DEF Register, Timeout, Ended, handlerVars, RunnerTypeOK
  <2>4. CASE Discard(t)
    BY <2>4 DEF Discard, handlerVars, RunnerTypeOK
  <2>5. CASE Interrupt(t) \/ Terminate(t) \/ Kill(t)
    <3>1. child' \in [Threads -> Alive \cup {"none", "dead"}]
      BY <2>5, SendEffect DEF Interrupt, Terminate, Kill, Escalate
    <3> QED
      BY <2>5, <3>1 DEF Interrupt, Terminate, Kill, Escalate, handlerVars, RunnerTypeOK
  <2>6. CASE GraceOver(t)
    BY <2>6 DEF GraceOver, handlerVars, RunnerTypeOK
  <2>7. CASE Boot(t) \/ Die(t)
    BY <2>7 DEF Boot, Die, handlerVars, RunnerTypeOK, Alive
  <2> QED
    BY <1>9, <2>1, <2>2, <2>3, <2>4, <2>5, <2>6, <2>7 DEF Thread, Child
<1>10. CASE UNCHANGED runnerVars
  BY <1>10 DEF runnerVars, handlerVars, RunnerTypeOK
<1> QED
  BY <1>1, <1>3, <1>4, <1>5, <1>6, <1>7, <1>8, <1>9, <1>10 DEF RunnerNext, Handler

\* Every reachable state is well typed.
THEOREM RunnerTypeCorrect == RunnerSpec => []RunnerTypeOK
  BY RunnerTypeInit, RunnerTypeStep, PTL DEF RunnerSpec

-----------------------------------------------------------------------------
(* No child outlives the call that started it.                             *)

Owned ==
  \A t \in Threads :
    /\ step[t] \in {"idle", "spawning"} => child[t] = "none"
    /\ step[t] = "leaving" => child[t] \notin Alive
    /\ step[t] \in {"idle", "spawning", "registering"} => t \notin registry

LEMMA OwnedStep == RunnerTypeOK /\ Owned /\ [RunnerNext]_runnerVars => Owned'
<1> SUFFICES ASSUME RunnerTypeOK, Owned, [RunnerNext]_runnerVars PROVE Owned'
  OBVIOUS
<1>1. CASE Signal \/ LockEvent \/ SetEvent \/ LockRegistry \/ Snapshot \/ HandlerReturns
  BY <1>1 DEF Signal, LockEvent, SetEvent, LockRegistry, Snapshot, HandlerReturns, Owned
<1>2. CASE \E t \in Threads, n \in 1..Commands : Forward(t, n)
  <2> PICK t \in Threads, n \in 1..Commands : Forward(t, n)
    BY <1>2
  <2>1. CASE n = started[t]
    <3>1. Send(t, "INT") /\ step' = step /\ registry' = registry
      BY <2>1 DEF Forward
    <3> QED
      BY <3>1, SendEffect DEF RunnerTypeOK, Owned, Alive
  <2>2. CASE n # started[t]
    BY <2>2 DEF Forward, Owned
  <2> QED
    BY <2>1, <2>2
<1>3. ASSUME NEW t \in Threads, Thread(t) \/ Child(t) PROVE Owned'
  <2>1. CASE StartCommand(t)
    BY <2>1 DEF StartCommand, RunnerTypeOK, Owned
  <2>2. CASE Spawn(t)
    BY <2>2 DEF Spawn, RunnerTypeOK, Owned
  <2>3. CASE Register(t)
    BY <2>3 DEF Register, RunnerTypeOK, Owned
  <2>4. CASE Ended(t)
    BY <2>4 DEF Ended, RunnerTypeOK, Owned, Alive
  <2>5. CASE Timeout(t)
    BY <2>5 DEF Timeout, RunnerTypeOK, Owned
  <2>6. CASE Discard(t)
    BY <2>6 DEF Discard, RunnerTypeOK, Owned
  <2>7. CASE Interrupt(t) \/ Terminate(t) \/ Kill(t)
    <3>1. PICK from \in {"interrupt", "terminate", "kill"},
               sig \in {"INT", "TERM", "KILL"},
               to \in {"grace", "termGrace", "reaping"} : Escalate(t, from, sig, to)
      BY <2>7 DEF Interrupt, Terminate, Kill
    <3> QED
      BY <3>1, SendEffect DEF Escalate, RunnerTypeOK, Owned
  <2>8. CASE GraceOver(t)
    BY <2>8 DEF GraceOver, RunnerTypeOK, Owned
  <2>9. CASE Boot(t) \/ Die(t)
    BY <2>9 DEF Boot, Die, RunnerTypeOK, Owned, Alive
  <2> QED
    BY <1>3, <2>1, <2>2, <2>3, <2>4, <2>5, <2>6, <2>7, <2>8, <2>9 DEF Thread, Child
<1>4. CASE UNCHANGED runnerVars
  BY <1>4 DEF runnerVars, Owned
<1> QED
  BY <1>1, <1>2, <1>3, <1>4 DEF RunnerNext, Handler

\* run() is left only after its child has been waited for, on every rung of the
\* ladder, and no entry stays in the registry.
THEOREM NoChildLeft == RunnerSpec => []NoChildIsLeftBehind
<1>1. RunnerInit => Owned
  BY DEF RunnerInit, Owned
<1>2. Owned => NoChildIsLeftBehind
  BY DEF Owned, NoChildIsLeftBehind, Alive
<1> QED
  BY <1>1, <1>2, OwnedStep, RunnerTypeCorrect, PTL DEF RunnerSpec

-----------------------------------------------------------------------------
(* A child that a snapshot has listed does not go on working.              *)

\* A call of the handler has yet to signal it.
Pending(t) == \E i \in DOMAIN frames :
                frames[i].at = "forwarding" /\ <<t, started[t]>> \in frames[i].left

AtWork(t) == child[t] \in {"booting", "working"}

ListedIsPending == \A t \in Threads : AtWork(t) /\ unlisted[t] = "no" => Pending(t)

LEMMA ListedStep ==
  RunnerTypeOK /\ Owned /\ ListedIsPending /\ [RunnerNext]_runnerVars => ListedIsPending'
<1> SUFFICES ASSUME RunnerTypeOK, Owned, ListedIsPending, [RunnerNext]_runnerVars,
                    NEW u \in Threads, AtWork(u)', unlisted'[u] = "no"
             PROVE  Pending(u)'
  BY DEF ListedIsPending, AtWork
<1>0. frames \in Seq(Calls)
  BY DEF RunnerTypeOK, Calls, FrameAt
<1>a. ASSUME NEW i \in DOMAIN frames, i \in DOMAIN frames', frames'[i] = frames[i],
             frames[i].at = "forwarding", <<u, started[u]>> \in frames[i].left,
             started' = started
      PROVE  Pending(u)'
  BY <1>a DEF Pending
<1>b. ASSUME frames' = frames, started'[u] = started[u], unlisted[u] = "no",
             child[u] \in {"booting", "working"}
      PROVE  Pending(u)'
  BY <1>b DEF Pending, ListedIsPending, AtWork
<1>1. CASE Signal
  <2>1. PICK i \in DOMAIN frames :
          frames[i].at = "forwarding" /\ <<u, started[u]>> \in frames[i].left
    BY <1>1 DEF Signal, ListedIsPending, AtWork, Pending
  <2>2. i \in DOMAIN frames' /\ frames'[i] = frames[i]
    BY <1>0, <1>1 DEF Signal
  <2> QED
    BY <1>1, <1>a, <2>1, <2>2 DEF Signal
<1>2. ASSUME NEW at \in FrameAt, NEW left \in SUBSET (Threads \X (0..Commands)),
             frames # <<>>, Goto(at, left), Top.at # "forwarding",
             started' = started, child' = child, unlisted' = unlisted
      PROVE  Pending(u)'
  <2>1. PICK i \in DOMAIN frames :
          frames[i].at = "forwarding" /\ <<u, started[u]>> \in frames[i].left
    BY <1>2 DEF ListedIsPending, AtWork, Pending
  <2>2. i \in 1..(Len(frames) - 1)
    BY <1>0, <1>2, <2>1 DEF Top
  <2>3. i \in DOMAIN frames' /\ frames'[i] = frames[i]
    BY <1>0, <1>2, <2>2, TopReplaced
  <2> QED
    BY <1>2, <1>a, <2>1, <2>3
<1>3. CASE LockEvent
  BY <1>2, <1>3 DEF LockEvent, FrameAt
<1>4. CASE SetEvent
  BY <1>2, <1>4 DEF SetEvent, FrameAt
<1>5. CASE LockRegistry
  BY <1>2, <1>5 DEF LockRegistry, FrameAt
<1>6. CASE Snapshot
  <2> DEFINE listed == {<<t, started[t]>> : t \in registry}
  <2>1. frames # <<>> /\ Goto("forwarding", listed) /\ started' = started
        /\ child' = child
    BY <1>6 DEF Snapshot
  <2>2. listed \in SUBSET (Threads \X (0..Commands))
    BY DEF RunnerTypeOK
  <2> HIDE DEF listed
  <2>3. /\ Len(frames) \in DOMAIN frames'
        /\ frames'[Len(frames)] = Frame("forwarding", listed)
        /\ \A i \in 1..(Len(frames) - 1) :
             i \in DOMAIN frames' /\ frames'[i] = frames[i]
    BY <1>0, <2>1, <2>2, TopReplaced DEF FrameAt
  <2>4. CASE u \in registry
    BY <2>1, <2>3, <2>4 DEF Pending, Frame, listed
  <2>5. CASE u \notin registry
    <3>1. PICK i \in DOMAIN frames :
            frames[i].at = "forwarding" /\ <<u, started[u]>> \in frames[i].left
      BY <1>6, <2>5 DEF Snapshot, ListedIsPending, AtWork, Pending
    <3>2. i \in 1..(Len(frames) - 1)
      BY <1>0, <1>6, <3>1 DEF Snapshot, Top
    <3> QED
      BY <1>a, <2>1, <2>3, <3>1, <3>2
  <2> QED
    BY <2>4, <2>5
<1>7. CASE \E t \in Threads, n \in 1..Commands : Forward(t, n)
  <2> PICK t \in Threads, n \in 1..Commands : Forward(t, n)
    BY <1>7
  <2>1. frames # <<>> /\ Top \in Calls /\ Top.at = "forwarding"
        /\ started' = started /\ unlisted' = unlisted
    BY <1>0 DEF Forward, Top
  <2> DEFINE left == Top.left \ {<<t, n>>}
  <2>2. left \in SUBSET (Threads \X (0..Commands)) /\ Goto("forwarding", left)
    BY <2>1 DEF Forward, Calls
  <2>3. AtWork(u) /\ (u = t => n # started[t])
    <3>1. CASE n = started[t]
      BY <3>1, SendEffect DEF Forward, AtWork
    <3>2. CASE n # started[t]
      BY <3>2 DEF Forward, AtWork
    <3> QED
      BY <3>1, <3>2
  <2>4. PICK i \in DOMAIN frames :
          frames[i].at = "forwarding" /\ <<u, started[u]>> \in frames[i].left
    BY <2>1, <2>3 DEF ListedIsPending, Pending
  <2>5. i = Len(frames) => <<u, started[u]>> \in left
    BY <2>3, <2>4 DEF Top
  <2> HIDE DEF left
  <2>6. /\ Len(frames) \in DOMAIN frames'
        /\ frames'[Len(frames)] = Frame("forwarding", left)
        /\ \A j \in 1..(Len(frames) - 1) :
             j \in DOMAIN frames' /\ frames'[j] = frames[j]
    BY <1>0, <2>1, <2>2, TopReplaced DEF FrameAt
  <2>7. CASE i = Len(frames)
    BY <2>1, <2>5, <2>6, <2>7 DEF Pending, Frame
  <2>8. CASE i # Len(frames)
    <3>1. i \in 1..(Len(frames) - 1)
      BY <1>0, <2>4, <2>8
    <3> QED
      BY <1>a, <2>1, <2>4, <2>6, <3>1
  <2> QED
    BY <2>7, <2>8
<1>8. CASE HandlerReturns
  <2>1. PICK i \in DOMAIN frames :
          frames[i].at = "forwarding" /\ <<u, started[u]>> \in frames[i].left
    BY <1>8 DEF HandlerReturns, ListedIsPending, AtWork, Pending
  <2>2. i \in 1..(Len(frames) - 1)
    BY <1>0, <1>8, <2>1 DEF HandlerReturns, Top
  <2>3. i \in DOMAIN frames' /\ frames'[i] = frames[i]
    BY <1>0, <1>8, <2>2, TopTaken DEF HandlerReturns
  <2> QED
    BY <1>8, <1>a, <2>1, <2>3 DEF HandlerReturns
<1>9. ASSUME NEW t \in Threads, Thread(t) \/ Child(t) PROVE Pending(u)'
  <2>1. CASE StartCommand(t)
    BY <1>b, <2>1 DEF StartCommand, handlerVars, RunnerTypeOK, Owned, AtWork
  <2>2. CASE Spawn(t)
    BY <1>b, <2>2 DEF Spawn, handlerVars, RunnerTypeOK, AtWork
  <2>3. CASE Register(t) \/ Timeout(t) \/ Ended(t) \/ GraceOver(t)
    BY <1>b, <2>3 DEF Register, Timeout, Ended, GraceOver, handlerVars, AtWork
  <2>4. CASE Discard(t)
    BY <1>b, <2>4 DEF Discard, handlerVars, RunnerTypeOK, AtWork
  <2>5. CASE Interrupt(t) \/ Terminate(t) \/ Kill(t)
    <3>1. PICK from \in {"interrupt", "terminate", "kill"},
               sig \in {"INT", "TERM", "KILL"},
               to \in {"grace", "termGrace", "reaping"} : Escalate(t, from, sig, to)
      BY <2>5 DEF Interrupt, Terminate, Kill
    <3> QED
      BY <1>b, <3>1, SendEffect DEF Escalate, handlerVars, AtWork
  <2>6. CASE Boot(t) \/ Die(t)
    BY <1>b, <2>6 DEF Boot, Die, handlerVars, RunnerTypeOK, AtWork
  <2> QED
    BY <1>9, <2>1, <2>2, <2>3, <2>4, <2>5, <2>6 DEF Thread, Child
<1>10. CASE UNCHANGED runnerVars
  BY <1>b, <1>10 DEF runnerVars, handlerVars, AtWork
<1> QED
  BY <1>1, <1>3, <1>4, <1>5, <1>6, <1>7, <1>8, <1>9, <1>10 DEF RunnerNext, Handler

\* When the handler is through, no listed child goes on working, whatever has
\* ended, been replaced or been signalled again while it went round.
THEOREM SnapshotInterrupted == RunnerSpec => []SnapshotIsInterrupted
<1>1. RunnerInit => Owned /\ ListedIsPending
  BY DEF RunnerInit, Owned, ListedIsPending, AtWork
<1>2. ListedIsPending => SnapshotIsInterrupted
  BY DEF ListedIsPending, AtWork, Pending, SnapshotIsInterrupted
<1> QED
  BY <1>1, <1>2, OwnedStep, ListedStep, RunnerTypeCorrect, PTL DEF RunnerSpec
=============================================================================
