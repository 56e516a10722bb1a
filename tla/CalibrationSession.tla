------------------------- MODULE CalibrationSession -------------------------
(***************************************************************************)
(* One calibration process after another for one profile: run_command,     *)
(* CalibrationService.run, SavedPostTargetExecutor.execute and the         *)
(* engagement with a saved post, with the offer funnel of OfferFunnel.  A  *)
(* process visits its targets one after the other; what Facebook and the   *)
(* offers show are inputs.  The target health file and what the profile    *)
(* has liked outlive the process.                                          *)
(***************************************************************************)
EXTENDS OfferFunnel, FiniteSets

CONSTANTS
  Posts,            \* targets with a saved post
  Configs,          \* command lines of a calibration
  MinTargets,       \* min_successful_targets
  MinInteractions,  \* min_interactions
  CommentEvery, MaxComments, MaxReactions, MaxFollows,
  Threshold,        \* failure_threshold of the target health
  SessionTime,      \* bound: attempts that fit into session_seconds
  MaxSessions       \* bound: processes

ASSUME SessionAssumption ==
  /\ Posts \subseteq Targets
  /\ Configs \subseteq
       [funnel : BOOLEAN, fallback : BOOLEAN, complete : BOOLEAN, repeat : BOOLEAN,
        tolerate : BOOLEAN, submit : {"disabled", "fill_only", "allowlisted"}]
  /\ MinTargets \in Nat \ {0}
  /\ {MinInteractions, CommentEvery, MaxComments, MaxReactions, MaxFollows,
      SessionTime, MaxSessions} \subseteq Nat
  /\ Threshold \in Nat \ {0}

VARIABLES
  config, batch,   \* the options and the targets of the process
  posts,           \* those it visits by their saved post
  pc,              \* its step
  attempt, left,   \* attempt_index, and what is left of the session
  now,             \* the attempt: result and plan
  budget,          \* attempts per kind, targets opened, successes
  totals,          \* what results.json adds up to
  summary,         \* summary.json of the last process
  health,          \* target health: failures and quarantine
  liked,           \* posts the profile likes
  label,           \* what the page of the post shows of that
  before,          \* history: liked when the attempt began
  sessions

sessionVars == <<config, batch, posts, attempt, left>>
worldVars   == <<health, liked, label, before>>
endVars     == <<summary, sessions>>
vars == <<funnelVars, sessionVars, pc, now, budget, totals, worldVars, endVars>>

Cap(n, limit) == IF n <= limit THEN n ELSE limit
Bool(b) == IF b THEN 1 ELSE 0
Larger(a, b) == IF a >= b THEN a ELSE b

NoBudget == [opened |-> 0, reaction |-> 0, comment |-> 0, follow |-> 0, successful |-> 0]
NoTotals == [ok |-> 0, interactions |-> 0, infra |-> FALSE]
Fresh == [located |-> FALSE, viewed |-> FALSE, ok |-> FALSE, missing |-> FALSE,
          gained |-> 0, error |-> "none", plan |-> {}, tries |-> 0, unsure |-> FALSE]

Healthy == [failures |-> 0, quarantined |-> FALSE]
Quarantined == [failures |-> Threshold, quarantined |-> TRUE]

\* Counters are kept up to the highest number anything compares them with.
Goal == Larger(MinTargets, CommentEvery)
Gain(n) == /\ now' = [now EXCEPT !.gained = Cap(@ + n, MinInteractions)]
           /\ budget' = [budget EXCEPT !.successful = Cap(@ + n, MinInteractions)]

Target == batch[((attempt - 1) % Len(batch)) + 1]

Init ==
  /\ FunnelInit
  /\ config \in Configs /\ batch = <<>> /\ posts = {} /\ pc = "idle"
  /\ attempt = 0 /\ left = 0 /\ now = Fresh /\ budget = NoBudget /\ totals = NoTotals
  /\ summary = [status |-> "none", goals |-> FALSE, early |-> FALSE]
  /\ \E quarantined \in SUBSET Posts :
       health = [t \in Targets |-> IF t \in quarantined THEN Quarantined ELSE Healthy]
  /\ liked \in SUBSET Posts /\ label = FALSE /\ before = liked /\ sessions = 0

\* What a process that has ended knew is gone.
Gone ==
  /\ batch' = <<>> /\ posts' = {} /\ attempt' = 0 /\ left' = 0
  /\ now' = Fresh /\ budget' = NoBudget /\ totals' = NoTotals

-----------------------------------------------------------------------------
(* The process starts.                                                     *)

\* load_saved_targets, rotated by the offset.  A target in quarantine is left
\* with its offer, if the process may open that.
Usable(c) == {t \in Targets : \/ t \in Posts /\ ~health[t].quarantined
                              \/ c.funnel /\ c.fallback /\ t \in Offers}

Rotations(s) ==
  IF s = <<>> THEN {s}
  ELSE {SubSeq(s, i, Len(s)) \o SubSeq(s, 1, i - 1) : i \in 1..Len(s)}

Start ==
  /\ pc = "idle" /\ sessions < MaxSessions
  /\ sessions' = sessions + 1
  /\ config' \in Configs
  /\ posts' = {t \in Posts : ~health[t].quarantined}
  /\ batch' \in Rotations(SetToSortSeq(Usable(config'), <))
  /\ IF batch' = <<>>
       THEN /\ pc' = "idle"
            /\ summary' = [status |-> "no_targets", goals |-> FALSE, early |-> FALSE]
       ELSE IF config'.funnel /\ config'.submit = "allowlisted" /\ ~config'.complete
       THEN /\ pc' = "idle"
            /\ summary' = [status |-> "failed", goals |-> FALSE, early |-> FALSE]
       ELSE /\ pc' = "check"
            /\ summary' = [status |-> "none", goals |-> FALSE, early |-> FALSE]
  /\ attempt' = 0 /\ left' = SessionTime
  /\ now' = Fresh /\ budget' = NoBudget /\ totals' = NoTotals
  /\ FunnelReset
  /\ UNCHANGED worldVars

-----------------------------------------------------------------------------
(* SavedPostTargetExecutor.execute.                                        *)

Exhausted == attempt >= Len(batch) /\ ~config.repeat

Begin ==
  /\ pc = "check" /\ left > 0 /\ ~Exhausted
  /\ attempt' = attempt + 1
  /\ pc' = "open"
  /\ now' = Fresh /\ before' = liked
  /\ UNCHANGED <<funnelVars, config, batch, posts, left, budget, totals, health, liked, label, endVars>>

\* A target that is opened, by its post or by its offer, has the next number.
Opened == [budget EXCEPT !.opened = Cap(@ + 1, Goal)]

\* The funnel without the page of a post: nothing of the saved post counts.
DirectOffer ==
  /\ StartRun(FALSE)
  /\ pc' = "funnel"
  /\ budget' = Opened

Fails(error) ==
  /\ now' = [now EXCEPT !.error = error]
  /\ pc' = "judge"
  /\ UNCHANGED <<funnelVars, budget>>

\* A target without a post goes to its offer, if there is a funnel.
OpenOffer ==
  /\ pc = "open" /\ Target \notin posts
  /\ IF config.funnel THEN DirectOffer /\ UNCHANGED now ELSE Fails("other")
  /\ UNCHANGED <<sessionVars, totals, worldVars, endVars>>

OpenPost ==
  /\ pc = "open" /\ Target \in posts
  /\ pc' = "locate"
  /\ label' = (Target \in liked)
  /\ UNCHANGED <<funnelVars, sessionVars, now, budget, totals, health, liked, before, endVars>>

\* How a navigation raises after its retries.
Errors == {"transient", "closed", "other"}

\* The post does not open; where the access is blocked the offer stands in for it.
OpenFails ==
  /\ pc = "open" /\ Target \in posts
  /\ \/ \E error \in Errors : Fails(error)
     \/ IF config.funnel /\ Target \in Offers
          THEN DirectOffer /\ UNCHANGED now ELSE Fails("blocked")
  /\ UNCHANGED <<sessionVars, totals, worldVars, endVars>>

\* wait_for_saved_post: the post is recognised by its id or by what was saved of it,
\* is not on the page when the time is up, or the page raises to the end.
Search == {"located", "post_not_found", "locate_error"}

NotLocated ==
  /\ pc = "locate"
  /\ \E missing \in {found = "post_not_found" : found \in Search \ {"located"}} :
       IF config.funnel
         THEN /\ DirectOffer
              /\ now' = [now EXCEPT !.missing = missing]
         ELSE /\ now' = [now EXCEPT !.missing = missing, !.error = "other"]
              /\ pc' = "judge"
              /\ UNCHANGED <<funnelVars, budget>>
  /\ UNCHANGED <<sessionVars, totals, worldVars, endVars>>

\* plan_engagement, for the number this post will have.
CommentDue(number) ==
  /\ CommentEvery > 0 /\ budget.comment < MaxComments
  /\ number % CommentEvery = 0

Plans(number) ==
  {p \in SUBSET {"reaction", "comment", "follow"} :
     /\ "reaction" \in p => budget.reaction < MaxReactions
     /\ budget.reaction < MaxReactions /\ budget.successful < MinInteractions
          => "reaction" \in p
     /\ "comment" \in p <=> CommentDue(number)
     /\ "follow" \in p => budget.follow < MaxFollows}

\* view_feed_ad: viewed, unless the post has left the page or the page raises.
Views == {"viewing", "root_not_found", "failed"}

\* The post is found, viewed or not, and its engagement planned.
Located ==
  /\ pc = "locate"
  /\ \E viewed \in {view = "viewing" : view \in Views} :
     \E p \in Plans(budget.opened + 1) :
       now' = [now EXCEPT !.located = TRUE, !.viewed = viewed, !.plan = p]
  /\ budget' = Opened
  /\ pc' = "engage"
  /\ UNCHANGED <<funnelVars, sessionVars, totals, worldVars, endVars>>

Due(kind, earlier) ==
  /\ pc = "engage" /\ kind \in now.plan /\ now.plan \cap earlier = {}

Finished(kind) == [now EXCEPT !.plan = @ \ {kind}]

\* Mutation: the pressed state of the control is not looked at.
ClickAnyLike == TRUE

\* click_like clicks unless the control says that the post is liked.
ClickLike == ~label

\* A click toggles the like, unless it is lost; the page shows the result, or
\* does not yet.
Toggle ==
  /\ liked' \in {liked, IF Target \in liked THEN liked \ {Target}
                                             ELSE liked \cup {Target}}
  /\ label' \in BOOLEAN

\* engage_reaction: up to three clicks, as long as none is confirmed.
React ==
  /\ Due("reaction", {}) /\ ClickLike
  /\ now.tries < 3
  /\ Toggle
  /\ IF label'
       THEN /\ now' = [Finished("reaction") EXCEPT !.gained = Cap(@ + 1, MinInteractions)]
            /\ budget' = [budget EXCEPT !.reaction = @ + Bool(now.tries = 0),
                                        !.successful = Cap(@ + 1, MinInteractions)]
       ELSE /\ now' = [now EXCEPT !.tries = @ + 1, !.unsure = TRUE,
                                  !.plan = IF now.tries = 2 THEN @ \ {"reaction"} ELSE @]
            /\ budget' = [budget EXCEPT !.reaction = @ + Bool(now.tries = 0)]
  /\ UNCHANGED <<funnelVars, sessionVars, pc, totals, health, before, endVars>>

\* The label catches up with what an earlier click has done.
LabelCatchesUp ==
  /\ pc = "engage" /\ now.unsure /\ label # (Target \in liked)
  /\ label' = (Target \in liked)
  /\ UNCHANGED <<funnelVars, sessionVars, pc, now, budget, totals, health, liked, before, endVars>>

\* The control is active: a success if a click of this attempt was unconfirmed.
AlreadyActive ==
  /\ Due("reaction", {}) /\ label
  /\ now' = [Finished("reaction") EXCEPT
               !.gained = Cap(@ + Bool(now.unsure), MinInteractions)]
  /\ budget' = [budget EXCEPT !.reaction = @ + Bool(now.tries = 0),
                              !.successful = Cap(@ + Bool(now.unsure), MinInteractions)]
  /\ UNCHANGED <<funnelVars, sessionVars, pc, totals, worldVars, endVars>>

\* No control, no root, or the post is not found again after a click.
NoReaction ==
  /\ Due("reaction", {})
  /\ now' = Finished("reaction")
  /\ budget' = [budget EXCEPT !.reaction = @ + Bool(now.tries = 0)]
  /\ UNCHANGED <<funnelVars, sessionVars, pc, totals, worldVars, endVars>>

\* safe_action: the attempt is counted, and what raises has gained nothing.
Act(kind, gained) ==
  /\ now' = [Finished(kind) EXCEPT !.gained = Cap(@ + gained, MinInteractions)]
  /\ budget' = [budget EXCEPT ![kind] = @ + 1,
                              !.successful = Cap(@ + gained, MinInteractions)]
  /\ UNCHANGED <<funnelVars, sessionVars, pc, totals, worldVars, endVars>>

\* post_comment: 1 when the comment shows and the composer is empty again; a composer
\* that is not found and a comment that stays pending are 0.
CommentPosted == {0, 1}

Comment == Due("comment", {"reaction"}) /\ \E n \in CommentPosted : Act("comment", n)

\* follow_advertiser: 1 when the page of this advertiser shows that it is followed;
\* another page, no control and no confirmation are 0.
FollowClicked == {0, 1}

Follow == Due("follow", {"reaction", "comment"}) /\ \E n \in FollowClicked : Act("follow", n)

\* The landing is left to the funnel, with the page of the post; what the reaction
\* knew of its clicks is not needed any more ...
Land ==
  /\ pc = "engage" /\ now.plan = {} /\ config.funnel
  /\ StartRun(TRUE)
  /\ pc' = "funnel"
  /\ now' = [now EXCEPT !.tries = 0, !.unsure = FALSE] /\ label' = FALSE
  /\ UNCHANGED <<sessionVars, budget, totals, health, liked, before, endVars>>

\* ... or visited and its tabs closed.
VisitLanding ==
  /\ pc = "engage" /\ now.plan = {} /\ ~config.funnel
  /\ \E n \in {0, 1} : Gain(n)
  /\ pc' = "judge"
  /\ UNCHANGED <<funnelVars, sessionVars, totals, worldVars, endVars>>

Funnel ==
  /\ pc = "funnel"
  /\ FunnelStep(Target, config)
  /\ UNCHANGED <<sessionVars, pc, now, budget, totals, worldVars, endVars>>

\* The funnel has returned.  Where it was run without the page of the post an
\* exception ends the attempt, otherwise it is a failed action; and a success
\* is counted twice in the budget if the located post was not viewed.
FunnelEnds ==
  /\ pc = "funnel" /\ fpc \in {"done", "raised"}
  /\ LET success == fpc = "done" /\ fstatus \in Success IN
     IF fpc = "raised" /\ ~source
       THEN /\ \E error \in Errors : now' = [now EXCEPT !.error = error]
            /\ UNCHANGED budget
       ELSE /\ now' = [now EXCEPT !.gained = Cap(@ + Bool(success), MinInteractions),
                                  !.ok = success /\ (now.viewed \/ ~now.located)]
            /\ budget' = [budget EXCEPT !.successful =
                 Cap(@ + Bool(success) + Bool(success /\ now.located /\ ~now.viewed),
                     MinInteractions)]
  /\ pc' = "judge"
  /\ Forget
  /\ UNCHANGED <<tabVars, submitVars, sessionVars, totals, worldVars, endVars>>

\* calibration_target_ok, for an attempt without a funnel.
PlainOk == now.error = "none" /\ now.located /\ now.viewed

Infra(error) == error \in {"blocked", "transient", "closed"}

\* The result is complete, the page of the post closed, and the result added to
\* results.json and engagement_results.json.
Record ==
  /\ pc = "judge"
  /\ LET ok == IF config.funnel THEN now.ok ELSE PlainOk IN
     /\ now' = [Fresh EXCEPT !.ok = ok, !.missing = now.missing, !.error = now.error]
     /\ totals' = [ok |-> Cap(totals.ok + Bool(ok), Goal),
                   interactions |-> Cap(totals.interactions + now.gained, MinInteractions),
                   infra |-> totals.infra \/ Infra(now.error)]
  /\ CloseSource
  /\ pc' = "health"
  /\ UNCHANGED <<runVars, tabs, lost, submitVars, sessionVars, budget, worldVars, endVars>>

\* record_facebook_post_target_result: two failures to find a post in a row
\* quarantine it, a success takes it out of the file.
RecordHealth ==
  /\ pc = "health"
  /\ health' =
       IF Target \notin posts THEN health
       ELSE IF now.ok
         THEN [health EXCEPT ![Target] = Healthy]
       ELSE IF now.missing
         THEN [health EXCEPT ![Target] =
                 [failures |-> Cap(@.failures + 1, Threshold),
                  quarantined |-> @.failures + 1 >= Threshold]]
         ELSE health
  /\ pc' = "after"
  /\ UNCHANGED <<funnelVars, sessionVars, now, budget, totals, liked, label, before, endVars>>

-----------------------------------------------------------------------------
(* CalibrationService.run after an attempt.                                *)

\* Mutation: interactions are no goal.
TargetsMet == totals.ok >= MinTargets

\* calibration_goals_met: with comments, as many targets as a comment needs, if
\* the batch has them.
GoalsMet ==
  /\ totals.ok >= (IF MaxComments > 0 /\ CommentEvery > 0 /\ Len(batch) >= CommentEvery
                     THEN Goal ELSE MinTargets)
  /\ totals.interactions >= MinInteractions

StopsAfter ==
  /\ Infra(now.error)
  /\ ~(config.tolerate /\ now.error = "transient")

\* _completed_summary
Completed(early) ==
  [status |-> IF totals.infra THEN "infrastructure_error" ELSE "completed",
   goals |-> totals.ok >= MinTargets /\ totals.interactions >= MinInteractions,
   early |-> early]

\* The run has its result, and the funnel session is closed.
Finish(early) ==
  /\ summary' = Completed(early)
  /\ CloseRetained
  /\ pc' = "idle" /\ Gone
  /\ UNCHANGED <<runVars, lost, submitVars, config, worldVars, sessions>>

StopAfter ==
  /\ pc = "after" /\ StopsAfter
  /\ Finish(FALSE)

EndWithGoals ==
  /\ pc = "after" /\ ~StopsAfter /\ ~config.repeat /\ GoalsMet
  /\ Finish(attempt < Len(batch))

\* Each attempt takes a part of the session, with the pause after it; the
\* session of a process that does not repeat may end at any attempt.
GoOn ==
  /\ pc = "after" /\ ~StopsAfter
  /\ config.repeat \/ ~GoalsMet
  /\ pc' = "check" /\ now' = Fresh
  /\ left' \in IF config.repeat THEN {left - 1} ELSE {0, left}
  /\ UNCHANGED <<funnelVars, config, batch, posts, attempt, budget, totals, worldVars, endVars>>

End ==
  /\ pc = "check" /\ (left = 0 \/ Exhausted)
  /\ Finish(FALSE)

\* A signal raises KeyboardInterrupt wherever the process is: the page of the
\* post and the retained tabs are closed, a funnel in progress leaves its tabs.
Interrupt ==
  /\ pc # "idle"
  /\ summary' = [status |-> "interrupted", goals |-> FALSE, early |-> FALSE]
  /\ CloseRetained
  /\ lost' = lost + (IF fpc \in {"offer", "redirected", "form", "sent"} THEN opened ELSE 0)
  /\ unsaved' = unsaved \cup (IF fpc = "sent" THEN {Target} ELSE {})
  /\ pc' = "idle" /\ Gone
  /\ Forget
  /\ UNCHANGED <<submitted, clicks, config, worldVars, sessions>>

\* The process is killed: nothing is written and nothing closed.
Kill ==
  /\ pc # "idle"
  /\ pc' = "idle" /\ Gone
  /\ Forget
  /\ lost' = tabs
  /\ UNCHANGED <<retained, tabs, submitVars, config, worldVars, endVars>>

\* Seven days later.
QuarantineEnds ==
  /\ pc = "idle"
  /\ \E t \in Targets : /\ health[t].quarantined
                        /\ health' = [health EXCEPT ![t].quarantined = FALSE]
  /\ UNCHANGED <<funnelVars, sessionVars, pc, now, budget, totals, liked, label, before, endVars>>

Next ==
  \/ Start \/ Begin \/ OpenOffer \/ OpenPost \/ OpenFails \/ NotLocated \/ Located
  \/ React \/ LabelCatchesUp \/ AlreadyActive \/ NoReaction \/ Comment \/ Follow
  \/ Land \/ VisitLanding \/ Funnel \/ FunnelEnds \/ Record \/ RecordHealth
  \/ StopAfter \/ EndWithGoals \/ GoOn \/ End
  \/ Interrupt \/ Kill \/ QuarantineEnds

Spec == Init /\ [][Next]_vars

-----------------------------------------------------------------------------
(* Properties.                                                             *)

TypeOK ==
  /\ FunnelTypeOK
  /\ config \in Configs /\ batch \in Seq(Targets) /\ posts \in SUBSET Posts
  /\ pc \in {"idle", "check", "open", "locate", "engage", "funnel", "judge", "health", "after"}
  /\ attempt \in Nat /\ left \in 0..SessionTime
  /\ budget.reaction \in 0..MaxReactions /\ budget.comment \in 0..MaxComments
  /\ budget.follow \in 0..MaxFollows
  /\ totals.ok \in 0..Goal /\ totals.interactions \in 0..MinInteractions
  /\ health \in [Targets -> [failures : 0..Threshold, quarantined : BOOLEAN]]
  /\ liked \in SUBSET Posts /\ before \in SUBSET Posts /\ label \in BOOLEAN
  /\ sessions \in 0..MaxSessions

\* A target with an ad id or a clean landing is submitted at most once in a
\* process (README.md:170), however often it is visited until the deadline; only a
\* click whose answer never came back may be repeated.
SubmittedAtMostOnce == \A t \in Named : clicks[t] > 1 => t \in unsaved

\* The offer tabs that are open are those the session will close, those of the
\* run in progress and those an exception, a signal or an unseen answer has cut off: no path
\* through landing, fallback, redirect, form and retention loses one.
OfferTabsAreTracked ==
  LET inRun == IF fpc \in {"offer", "redirected", "form", "sent"} THEN opened ELSE 0
  IN tabs = (IF pc = "idle" THEN 0 ELSE Live(retained) + inRun) + lost

\* A like that was there when the post was opened is never toggled off
\* (README.md:577), however often a click is repeated or a post is visited again.
ExistingLikesStay == pc # "idle" => before \subseteq liked

\* A session without a deadline that leaves targets unvisited has met its goals,
\* as the summary counts them, unless the browser or the connection failed.
EarlyEndMeansGoals ==
  summary.early /\ summary.status = "completed" => summary.goals
=============================================================================
