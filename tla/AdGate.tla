-------------------------------- MODULE AdGate --------------------------------
(***************************************************************************)
(* The ads of one interest-safe collection, from ads.json to               *)
(* ads.relevant.json: the prefilter gives each a gate, the isolated        *)
(* resolver looks for the landings of those it holds, a second judgement   *)
(* settles them, the enricher goes through the allowed ones with the       *)
(* profile, and the last command gives every ad its verdict.  Each stage   *)
(* is a process of its own; CollectionPipeline says when it is started,    *)
(* this module what it does to the rows it is given.                       *)
(***************************************************************************)
EXTENDS AdJudgement, AdCapture, FiniteSets, FiniteSetsExt

CONSTANTS
  Ads,          \* rows of ads.json, 1..n
  Cards,        \* what the collector may have seen: [text, shell, cta, post, id]
  LandingText,  \* terms in an address
  Public,       \* addresses outside Meta and outside private networks
  Redirect,     \* where an address ends
  PostLanding   \* where the call to action of a post ends

ASSUME GateAssumption ==
  /\ Ads \subseteq Nat /\ IsFiniteSet(Ads)
  /\ Cards \subseteq [text : SUBSET Terms, shell : BOOLEAN, cta : Landings \cup {None},
                      post : Posts \cup {None}, id : Ids \cup {None}]
  /\ LandingText \in [Landings -> SUBSET Terms]
  /\ Public \subseteq Landings
  /\ Redirect \in [Landings -> Landings] /\ PostLanding \in [Posts -> Landings]

VARIABLES
  card,     \* the ads as collected
  switches, \* isolated_hold_resolution, relevant_enrichment, archive_landings
  rows,     \* the file the stages hand on
  stage,    \* the command that runs, or how the last one ended
  todo,     \* rows it has not come to
  cache,    \* resolved_cache: the row each target was first resolved for
  seen,     \* seen_targets
  current   \* the row in `draft`

vars == <<card, switches, rows, stage, todo, cache, seen, current, captureVars>>

Commands == {"prefilter", "resolve", "gate", "enrich", "finalize"}
Ends == {"done", "failed", "interrupted", "crashed"}

Row(c) ==
  [gate |-> "none", pre |-> "none", iso |-> "none", res |-> "none", landing |-> None,
   shot |-> None, id |-> c.id, post |-> c.post, enr |-> "none", active |-> FALSE,
   infra |-> FALSE, final |-> "none", saw |-> {}]

Init ==
  /\ card \in [Ads -> Cards]
  /\ switches \in [isolate : BOOLEAN, enrich : BOOLEAN, archive : BOOLEAN]
  /\ rows = [a \in Ads |-> Row(card[a])]
  /\ stage = "prefilter" /\ todo = Ads
  /\ cache = {} /\ seen = {} /\ current = 0
  /\ CaptureInit

\* _raw_text: the card and the address it is known to lead to.
Text(a, row) ==
  card[a].text \cup (IF row.landing = None THEN {} ELSE LandingText[row.landing])

Judged(a) == Outcomes(Text(a, rows[a]), card[a].shell, FALSE)

Holding(gate) == {a \in Ads : rows[a].gate = gate}

\* The next command starts, or the pipeline ends, with the rows `work` to go through.
Start(next, work) == stage' = next /\ todo' = work

Only(a, row) == rows' = [rows EXCEPT ![a] = row]

-----------------------------------------------------------------------------
(* Prefilter: the ads are judged concurrently, on what the feed showed. *)

Prefilter(a) ==
  /\ stage = "prefilter" /\ a \in todo
  /\ \E verdict \in Outcomes(card[a].text, card[a].shell, TRUE) :
       Only(a, [rows[a] EXCEPT !.pre = verdict, !.gate = GateFor(verdict),
                               !.saw = card[a].text])
  /\ todo' = todo \ {a}
  /\ UNCHANGED <<card, switches, stage, cache, seen, current, captureVars>>

\* Return code 3 if an ad could not be judged: the pipeline ends there.
EndPrefilter ==
  /\ stage = "prefilter" /\ todo = {}
  /\ IF \E a \in Ads : rows[a].pre = "error" THEN Start("failed", {})
     ELSE IF switches.isolate THEN Start("resolve", Holding("hold"))
     ELSE IF switches.enrich THEN Start("enrich", Holding("allow"))
     ELSE Start("finalize", Ads)
  /\ UNCHANGED <<card, switches, rows, cache, seen, current, captureVars>>

-----------------------------------------------------------------------------
(* Isolated resolver: one held ad after the other, each in a context of its own. *)

\* isolated_external_url.
External(address) == IF address \in Public THEN address ELSE None

\* resolution_candidate: an external address is preferred to the post.
Candidate(a) ==
  IF External(card[a].cta) # None THEN <<"passive_cta_href", card[a].cta>>
  ELSE IF card[a].post # None THEN <<"anonymous_facebook_post", card[a].post>>
  ELSE <<>>

\* Where it leads.
Leads(a) ==
  IF External(card[a].cta) # None THEN Redirect[card[a].cta] ELSE PostLanding[card[a].post]

\* Mutation: resolved once per kind of source.
CachedBySource(a, b) == Candidate(a)[1] = Candidate(b)[1]

CachedFor(a, b) == Candidate(a) = Candidate(b)

InTurn(a) == stage = "resolve" /\ a \in todo /\ a = Min(todo)

Resolved(a, row) ==
  /\ Only(a, row) /\ todo' = todo \ {a}
  /\ UNCHANGED <<card, switches, stage, seen, current, captureVars>>

Unresolvable(a) ==
  /\ InTurn(a) /\ Candidate(a) = <<>>
  /\ Resolved(a, [rows[a] EXCEPT !.res = "unresolvable"])
  /\ UNCHANGED cache

\* reuse_resolution: whatever the first row has is taken over, its id included.
Reuse(a) ==
  /\ InTurn(a) /\ Candidate(a) # <<>>
  /\ \E b \in cache :
       /\ CachedFor(a, b)
       /\ Resolved(a, [rows[a] EXCEPT !.res = "reused",
            !.landing = IF rows[b].landing # None THEN rows[b].landing ELSE @,
            !.shot = IF rows[b].shot # None THEN rows[b].shot ELSE @,
            !.id = IF rows[b].id # None THEN rows[b].id ELSE @])
  /\ UNCHANGED cache

First(a) == InTurn(a) /\ Candidate(a) # <<>> /\ ~\E b \in cache : CachedFor(a, b)

\* The page does not open, answers with an error, needs a login or does not show the
\* ad; the guard of the context aborts what is not public.
ResolutionFails(a) ==
  /\ First(a)
  /\ Resolved(a, [rows[a] EXCEPT !.res = "failed"])
  /\ cache' = cache \cup {a}

\* A picture of the landing, if it can be taken.
Picture(address) == {None, address}

\* An id that is known stays.  The archive comes last and may raise: the row is then
\* "failed" with its landing and its picture.
ResolveDirect(a) ==
  /\ First(a) /\ Candidate(a)[1] = "passive_cta_href" /\ External(Leads(a)) # None
  /\ \E shot \in Picture(Leads(a)),
        res \in {"completed"} \cup (IF switches.archive THEN {"failed"} ELSE {}) :
       Resolved(a, [rows[a] EXCEPT !.res = res, !.landing = Leads(a), !.shot = shot,
                                   !.id = IF @ = None THEN LandingId[Leads(a)] ELSE @])
  /\ cache' = cache \cup {a}

\* The call to action of the post is clicked, whose landing may tell another id.
ResolvePost(a) ==
  /\ First(a) /\ Candidate(a)[1] = "anonymous_facebook_post" /\ External(Leads(a)) # None
  /\ LET new == LandingId[Leads(a)]
     IN \E shot \in Picture(Leads(a)) :
          Resolved(a, [rows[a] EXCEPT !.res = "completed", !.landing = Leads(a),
                                      !.shot = shot, !.id = IF new = None THEN @ ELSE new])
  /\ cache' = cache \cup {a}

EndResolve ==
  /\ stage = "resolve" /\ todo = {}
  /\ Start("gate", Holding("hold"))
  /\ UNCHANGED <<card, switches, rows, cache, seen, current, captureVars>>

-----------------------------------------------------------------------------
(* Second gate: the held ads with a landing are judged again, concurrently. *)

\* isolated_resolution_available: landing_resolved follows the status, or the landing
\* of a reused result.
\* Mutation: any resolution that did not fail counts.
AttemptedResolution(row) == row.res \in {"completed", "reused"}

Available(row) ==
  row.res \in {"completed", "reused"} /\ row.landing # None /\ row.shot # None

Unavailable(a) ==
  /\ stage = "gate" /\ a \in todo /\ ~Available(rows[a])
  /\ todo' = todo \ {a}
  /\ UNCHANGED <<card, switches, rows, stage, cache, seen, current, captureVars>>

JudgeHeld(a) ==
  /\ stage = "gate" /\ a \in todo /\ Available(rows[a])
  /\ \E verdict \in Judged(a) :
       Only(a, [rows[a] EXCEPT !.iso = verdict, !.gate = GateFor(verdict),
                               !.saw = Text(a, rows[a])])
  /\ todo' = todo \ {a}
  /\ UNCHANGED <<card, switches, stage, cache, seen, current, captureVars>>

EndGate ==
  /\ stage = "gate" /\ todo = {}
  /\ IF \E a \in Ads : rows[a].iso = "error" THEN Start("failed", {})
     ELSE IF switches.enrich THEN Start("enrich", Holding("allow"))
     ELSE Start("finalize", Ads)
  /\ UNCHANGED <<card, switches, rows, cache, seen, current, captureVars>>

-----------------------------------------------------------------------------
(* Enricher: one allowed ad after the other. *)

\* EnrichmentService.prepare.  Mutation: an ad that is held is a candidate, too.
NotDenied(row) == row.gate # "deny"
IsCandidate(row) == row.gate = "allow"

\* target_key: the post, else the id, else the words of the card.
TargetKey(a) ==
  IF rows[a].post # None THEN <<"post", rows[a].post>>
  ELSE IF rows[a].id # None THEN <<"id", rows[a].id>>
  ELSE <<"card", card[a].text>>

\* The rows that are not candidates are marked before the browser is asked for.
Prepare ==
  /\ stage = "enrich" /\ \A a \in Ads : rows[a].enr = "none"
  /\ LET candidates == {a \in Ads : IsCandidate(rows[a])}
     IN /\ rows' = [a \in Ads |-> IF a \in candidates THEN [rows[a] EXCEPT !.enr = "waiting"]
                                  ELSE [rows[a] EXCEPT !.enr = "blocked"]]
        /\ IF candidates = {} THEN Start("finalize", Ads)
           ELSE stage' = stage /\ todo' = candidates
  /\ UNCHANGED <<card, switches, cache, seen, current, captureVars>>

Prepared == stage = "enrich" /\ \A a \in Ads : rows[a].enr # "none"

Skip(a) ==
  /\ Prepared /\ step = "idle" /\ a \in todo /\ a = Min(todo)
  /\ TargetKey(a) \in seen
  /\ Only(a, [rows[a] EXCEPT !.enr = "duplicate"])
  /\ todo' = todo \ {a}
  /\ UNCHANGED <<card, switches, stage, cache, seen, current, captureVars>>

Pick(a) ==
  /\ Prepared /\ step = "idle" /\ a \in todo /\ a = Min(todo)
  /\ TargetKey(a) \notin seen
  /\ seen' = seen \cup {TargetKey(a)} /\ current' = a
  /\ draft' = rows[a] /\ found' = None
  /\ step' = IF rows[a].post = None THEN "recover" ELSE "open"
  /\ UNCHANGED <<card, switches, rows, stage, todo, cache, tabs, playing, alive>>

Capture ==
  /\ Prepared /\ CaptureStep
  /\ UNCHANGED <<card, switches, rows, stage, todo, cache, seen, current>>

\* The result is written; the browser going away ends the loop.
Record ==
  /\ Prepared /\ step = "ended"
  /\ Only(current, draft)
  /\ todo' = IF draft.infra THEN {} ELSE todo \ {current}
  /\ step' = "idle" /\ draft' = [infra |-> FALSE] /\ found' = None /\ current' = 0
  /\ UNCHANGED <<card, switches, stage, cache, seen, tabs, playing, alive>>

EndEnrich ==
  /\ Prepared /\ step = "idle" /\ todo = {}
  /\ tabs' = Neutral(tabs) /\ playing' = FALSE
  /\ IF \E a \in Ads : rows[a].infra THEN Start("failed", {}) ELSE Start("finalize", Ads)
  /\ UNCHANGED <<card, switches, rows, cache, seen, current, alive, step, draft, found>>

\* The landing deadline leaves the process with a traceback: no neutralize_context.
Deadline ==
  /\ Prepared /\ DeadlineExpires
  /\ Start("crashed", {}) /\ current' = 0
  /\ UNCHANGED <<card, switches, rows, cache, seen>>

Signal ==
  /\ Prepared /\ Interrupted
  /\ Start("interrupted", {}) /\ current' = 0
  /\ UNCHANGED <<card, switches, rows, cache, seen>>

LoseBrowser ==
  /\ Prepared /\ BrowserDies
  /\ UNCHANGED <<card, switches, rows, stage, todo, cache, seen, current>>

-----------------------------------------------------------------------------
(* Final verdicts, given concurrently to the ads that were touched. *)

\* _settled_gate_result.  Mutation: an ad that is allowed keeps its first verdict.
SettledByGate(row) == TRUE
Settled(row) == row.gate # "allow" \/ ~row.active

\* The judgement that set the gate, or a refusal for want of one.
Verdict(row) ==
  IF row.gate = "hold" THEN "not_relevant"
  ELSE IF row.iso # "none" THEN row.iso
  ELSE IF row.pre \in Binary THEN row.pre ELSE "error"

Settle(a) ==
  /\ stage = "finalize" /\ a \in todo /\ Settled(rows[a])
  /\ Only(a, [rows[a] EXCEPT !.final = Verdict(rows[a])])
  /\ todo' = todo \ {a}
  /\ UNCHANGED <<card, switches, stage, cache, seen, current, captureVars>>

Finalize(a) ==
  /\ stage = "finalize" /\ a \in todo /\ ~Settled(rows[a])
  /\ \E verdict \in Judged(a) :
       Only(a, [rows[a] EXCEPT !.final = verdict, !.saw = Text(a, rows[a])])
  /\ todo' = todo \ {a}
  /\ UNCHANGED <<card, switches, stage, cache, seen, current, captureVars>>

EndFinalize ==
  /\ stage = "finalize" /\ todo = {}
  /\ Start(IF \E a \in Ads : rows[a].final = "error" THEN "failed" ELSE "done", {})
  /\ UNCHANGED <<card, switches, rows, cache, seen, current, captureVars>>

\* A command without a file, a key, a browser or the time it needs; its rows are not
\* used by anybody.
CommandFails ==
  /\ stage \in Commands \ {"enrich"} \/ (Prepared /\ step = "idle" /\ seen = {})
  /\ Start("failed", {})
  /\ UNCHANGED <<card, switches, rows, cache, seen, current, captureVars>>

Next ==
  \/ \E a \in Ads :
       \/ Prefilter(a) \/ Unresolvable(a) \/ Reuse(a) \/ ResolutionFails(a)
       \/ ResolveDirect(a) \/ ResolvePost(a)
       \/ Unavailable(a) \/ JudgeHeld(a) \/ Skip(a) \/ Pick(a)
       \/ Settle(a) \/ Finalize(a)
  \/ EndPrefilter \/ EndResolve \/ EndGate \/ Prepare \/ Capture \/ Record \/ EndEnrich
  \/ Deadline \/ Signal \/ LoseBrowser \/ EndFinalize \/ CommandFails

Spec == Init /\ [][Next]_vars

-----------------------------------------------------------------------------

TypeOK ==
  /\ stage \in Commands \cup Ends /\ todo \subseteq Ads /\ cache \subseteq Ads
  /\ current \in Ads \cup {0} /\ step \in Steps /\ tabs \subseteq {"home", "post", "landing"}
  /\ \A a \in Ads :
       /\ rows[a].gate \in {"none", "allow", "deny", "hold"}
       /\ rows[a].landing \in Landings \cup {None} /\ rows[a].shot \in Landings \cup {None}
       /\ rows[a].post \in Posts \cup {None} /\ rows[a].id \in Ids \cup {None}
       /\ {rows[a].pre, rows[a].iso, rows[a].final}
            \subseteq {"none", "relevant", "not_relevant", "uncertain", "error"}

\* The profile touches an ad only after a judgement that called it relevant, on its
\* card or on the landing found without the profile, and the scope rules could accept
\* what was read; an ad that is held, refused or was not judged is left alone ("Denied
\* or unresolved rows cannot start authenticated profile actions", README.md:326-328).
ProfileActsOnAllowedAds ==
  \A a \in Ads :
    (step # "idle" /\ current = a) \/ rows[a].active =>
      /\ "relevant" \in {rows[a].pre, rows[a].iso} /\ rows[a].iso \in {"none", "relevant"}
      /\ rows[a].final = "none" =>
           \E claim \in Claims : ~OutOfScope(rows[a].saw, claim)

\* A final verdict was given on everything that is known of the ad at the end: one
\* that the profile found a landing for was judged again after that
\* (_settled_gate_result, finalize_ads).
VerdictsSeeAllEvidence ==
  stage = "done" =>
    \A a \in Ads : rows[a].gate # "hold" => rows[a].saw = Text(a, rows[a])

\* An ad that was held is judged on the public page its own address or post leads to,
\* with a picture of that page, also when the result of an earlier ad was taken over
\* (resolved_cache, reuse_resolution, isolated_external_url).
PromotedOnOwnLanding ==
  \A a \in Ads :
    rows[a].iso # "none" /\ rows[a].enr # "completed" =>
      /\ Leads(a) \in Public
      /\ rows[a].landing = Leads(a) /\ rows[a].shot = Leads(a)

\* The pipeline that ends well leaves every ad with one of the two verdicts, and
\* relevant only if its gate was opened.
EveryAdGetsAVerdict ==
  stage = "done" =>
    \A a \in Ads : /\ rows[a].final \in Binary
                   /\ rows[a].final = "relevant" => rows[a].gate = "allow"

\* An enricher that was not killed hands the profile back with at most one tab, which
\* shows nothing and plays nothing, however its ads ended.
AdTabsAreClosed ==
  stage \in {"finalize", "failed", "done"} => tabs \subseteq {"home"} /\ ~playing
=============================================================================
