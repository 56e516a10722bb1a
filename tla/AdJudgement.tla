----------------------------- MODULE AdJudgement -----------------------------
(***************************************************************************)
(* What becomes of the answer of the model about one ad: the parser, the   *)
(* deterministic scope rules and the guard of the prefilter                *)
(* (RelevanceClassificationService).  The words of an ad, of its landing   *)
(* URL and of the model's reason are abstracted to the classes of terms    *)
(* the rules look for.                                                     *)
(***************************************************************************)
EXTENDS Naturals

\* Classes whose terms put an ad out of scope unless something outweighs them:
\* "host" is a mobile attribution host, "own" an advertiser named like its domain,
\* "foreign" a category that is not allowed.
ExclusionTerms ==
  {"health", "enterprise", "gaming", "host", "education", "gambling", "own", "foreign"}

\* Classes that are evidence for an ad.
EvidenceTerms ==
  {"finance", "fakenews", "scam", "strong", "anchor", "aiincome", "supporting"}

Terms == ExclusionTerms \cup EvidenceTerms

CONSTANT
  Claims  \* what the reason and the category of a "relevant" answer may say

ASSUME ClaimsAssumption == Claims \subseteq SUBSET Terms

Binary == {"relevant", "not_relevant"}

\* apply_scope_guards: `text` is what the ad says, `claim` what the model says of it.
OutOfScope(text, claim) ==
  LET both     == text \cup claim
      evidence == {"finance", "fakenews"} \cap text
  IN \/ "foreign" \in claim
     \/ {"health", "gaming"} \cap both # {} /\ "finance" \notin text
     \/ {"enterprise", "gambling"} \cap both # {} /\ evidence = {}
     \/ "host" \in text /\ evidence = {}
     \/ "education" \in both /\ "strong" \notin both
     \/ "finance" \in both /\ "own" \in text /\ {"fakenews", "scam"} \cap text = {}
     \/ "aiincome" \in text /\ evidence = {} /\ "anchor" \notin both
     \/ "supporting" \in both /\ "anchor" \notin both

\* A "relevant" answer is stripped of it; no other answer is changed.
Scoped(text, claim) == IF OutOfScope(text, claim) THEN "not_relevant" ELSE "relevant"

\* parse_model_json: what is not an accepted result, or not JSON, is a refusal.
\* Mutation: an answer only the prefilter may give is let through everywhere.
ParsedLoosely(answer, prefilter) ==
  IF answer \in Binary \cup {"uncertain"} THEN answer ELSE "not_relevant"

Parsed(answer, prefilter) ==
  IF answer \in Binary \/ (prefilter /\ answer = "uncertain")
  THEN answer ELSE "not_relevant"

\* apply_prefilter_uncertainty_guard: the shell of a link card that can still be
\* resolved is not refused for what it does not show.
Unsure(shell, verdict) ==
  IF shell /\ verdict = "not_relevant" THEN "uncertain" ELSE verdict

\* _result: parser, then rules, then the guard of the prefilter.
Guarded(text, shell, answer, claim, prefilter) ==
  LET parsed == Parsed(answer, prefilter)
      scoped == IF parsed = "relevant" THEN Scoped(text, claim) ELSE parsed
  IN  IF prefilter THEN Unsure(shell, scoped) ELSE scoped

\* Everything a provider may make of the ad.
Verdicts(text, shell, prefilter) ==
  {Guarded(text, shell, answer, claim, prefilter) :
     answer \in Binary \cup {"uncertain", "garbage"}, claim \in Claims}

\* analyze: the video, both pictures together, each alone, at last the words.  Only a
\* relevant video ends the search, any answer about pictures does, and a request that
\* raises passes to the next, so that the ad fails only if the last of them does.
Outcomes(text, shell, prefilter) == Verdicts(text, shell, prefilter) \cup {"error"}

\* Mutation: only a refusal keeps an ad from the profile.
GateUnlessDenied(verdict) == IF verdict = "not_relevant" THEN "deny" ELSE "allow"

\* The answer of the prefilter as a gate.
GateFor(verdict) ==
  CASE verdict = "relevant"     -> "allow"
    [] verdict = "not_relevant" -> "deny"
    [] OTHER                    -> "hold"
=============================================================================
