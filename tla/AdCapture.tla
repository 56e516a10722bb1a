------------------------------ MODULE AdCapture ------------------------------
(***************************************************************************)
(* The enrichment of one allowed ad with the profile's browser: its post   *)
(* is found again in the feed if it is not known, opened in a tab of its   *)
(* own, its video recorded and its call to action followed                 *)
(* (enrich_allowed_ad, recover_allowed_post_url, resolve_in_view).         *)
(* AdGate chooses the ad and keeps the result.                             *)
(***************************************************************************)
EXTENDS Naturals

CONSTANTS
  Posts,     \* saved posts
  Landings,  \* external addresses
  Ids,       \* fb_ad_id values
  LandingId, \* the id an address carries, or None
  None

ASSUME CaptureAssumption ==
  /\ None \notin Posts \cup Landings \cup Ids
  /\ LandingId \in [Landings -> Ids \cup {None}]

VARIABLES
  tabs,    \* "home", the tab the profile was left with, "post" and "landing"
  playing, \* a video of the post plays
  alive,   \* the browser can be driven
  step,    \* of enrich_allowed_ad
  draft,   \* the row being enriched, with `infra` of its details
  found    \* the landing the click has led to

captureVars == <<tabs, playing, alive, step, draft, found>>

Steps == {"idle", "recover", "open", "locate", "video", "landing", "click",
          "shown", "merge", "ended"}

CaptureInit ==
  /\ tabs = {"home"} /\ playing = FALSE /\ alive = TRUE
  /\ step = "idle" /\ draft = [infra |-> FALSE] /\ found = None

-----------------------------------------------------------------------------
(* Tabs. *)

\* Mutation: the tabs are left as they are.
LeftOpen(open) == open

\* neutralize_context, neutralize_profile_pages: one tab stays, whichever it is, and
\* is sent to about:blank.
Neutral(open) == IF open = {} THEN {} ELSE {"home"}

\* close_landing_tabs(ctx, keep=page), where page is the tab of the post.
OnlyThePost == {"post"}

\* The finally of enrich_allowed_ad.
ClosePost ==
  /\ tabs' = tabs \ {"post"} /\ playing' = FALSE

-----------------------------------------------------------------------------
(* The post is not known: back to the feed. *)

EndOfSearch(status) ==
  /\ step' = "ended" /\ draft' = [draft EXCEPT !.enr = status, !.active = tabs # {}]

NoPageToSearch ==
  /\ step = "recover" /\ tabs = {}
  /\ EndOfSearch("skipped")
  /\ UNCHANGED <<tabs, playing, alive, found>>

\* The feed is not restored, the card is not there or not the only match, its
\* comments do not open or do not show a direct address.
SearchFails ==
  /\ step = "recover" /\ tabs # {}
  /\ EndOfSearch("skipped")
  /\ tabs' = Neutral(tabs)
  /\ UNCHANGED <<playing, alive, found>>

\* A card seen in the feed may tell the id as well.
PostRecovered ==
  /\ step = "recover" /\ tabs # {}
  /\ \E post \in Posts, id \in IF draft.id = None THEN Ids \cup {None} ELSE {draft.id} :
       draft' = [draft EXCEPT !.post = post, !.id = id, !.active = TRUE]
  /\ tabs' = Neutral(tabs) /\ step' = "open"
  /\ UNCHANGED <<playing, alive, found>>

-----------------------------------------------------------------------------
(* The post, in a tab of its own. *)

\* `broken`: the message of the exception is one of is_infrastructure_error.
Fail(broken) ==
  /\ step' = "ended" /\ draft' = [draft EXCEPT !.enr = "failed", !.infra = broken]
  /\ ClosePost /\ UNCHANGED <<alive, found>>

NoNewTab == step = "open" /\ ~alive /\ Fail(TRUE)

OpenPost ==
  /\ step = "open" /\ alive
  /\ tabs' = tabs \cup {"post"} /\ step' = "locate"
  /\ draft' = [draft EXCEPT !.active = TRUE] /\ found' = None
  /\ UNCHANGED <<playing, alive>>

\* goto, an HTTP error, the match of the post, the file of the video, a click.
StepFails ==
  /\ step \in {"locate", "video", "click", "shown"}
  /\ \E broken \in BOOLEAN : (~alive => broken) /\ Fail(broken)

Located ==
  /\ step = "locate" /\ alive
  /\ step' = "video" /\ UNCHANGED <<tabs, playing, alive, draft, found>>

\* record_ad_video pauses what it has recorded; a block without a visible frame is
\* given up after it was started.
RecordVideo ==
  /\ step = "video" /\ alive
  /\ step' = "landing" /\ playing' \in BOOLEAN
  /\ UNCHANGED <<tabs, alive, draft, found>>

\* An ad without a link or a domain has no landing to look for.
NoLanding ==
  /\ step = "landing" /\ step' = "merge"
  /\ UNCHANGED <<tabs, playing, alive, draft, found>>

StartLanding ==
  /\ step = "landing" /\ alive
  /\ tabs' = OnlyThePost /\ step' = "click"
  /\ UNCHANGED <<playing, alive, draft, found>>

NoCta ==
  /\ step = "click" /\ alive
  /\ step' = "merge" /\ UNCHANGED <<tabs, playing, alive, draft, found>>

\* A new tab, the same tab, or nothing within 8 s; a tab that stays inside Facebook
\* is not a landing.
ClickCta ==
  /\ step = "click" /\ alive
  /\ step' = "shown"
  /\ found' \in Landings \cup {None}
  /\ \E new \in SUBSET {"landing"} : tabs' = tabs \cup new
  /\ UNCHANGED <<playing, alive, draft>>

\* Screenshot and archive, which may both fail, then the tabs are closed.
CaptureLanding ==
  /\ step = "shown" /\ alive
  /\ tabs' = OnlyThePost /\ step' = "merge"
  /\ \E shot \in BOOLEAN :
       draft' = IF found = None THEN draft
                ELSE [draft EXCEPT !.landing = found,
                        !.shot = IF shot THEN found ELSE @,
                        !.id = IF LandingId[found] # None THEN LandingId[found] ELSE @]
  /\ UNCHANGED <<playing, alive, found>>

Complete ==
  /\ step = "merge" /\ step' = "ended"
  /\ draft' = [draft EXCEPT !.enr = "completed"]
  /\ ClosePost /\ UNCHANGED <<alive, found>>

\* hard_deadline: the timer of the landing expires, in a BaseException that
\* enrich_allowed_ad and run do not catch.  The landing of the draft is lost with it.
\* AdGate ends the command.
DeadlineExpires ==
  /\ step \in {"click", "shown"}
  /\ step' = "idle" /\ draft' = [infra |-> FALSE] /\ found' = None
  /\ ClosePost /\ UNCHANGED alive

\* A signal: KeyboardInterrupt is raised wherever the process is.
Interrupted ==
  /\ step' = "idle" /\ draft' = [infra |-> FALSE] /\ found' = None
  /\ ClosePost /\ UNCHANGED alive

\* External: the browser goes away.
BrowserDies ==
  /\ alive
  /\ alive' = FALSE /\ tabs' = {} /\ playing' = FALSE
  /\ UNCHANGED <<step, draft, found>>

CaptureStep ==
  \/ NoPageToSearch \/ SearchFails \/ PostRecovered
  \/ NoNewTab \/ OpenPost \/ StepFails \/ Located \/ RecordVideo \/ NoLanding
  \/ StartLanding \/ NoCta \/ ClickCta \/ CaptureLanding \/ Complete
=============================================================================
