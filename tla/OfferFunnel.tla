----------------------------- MODULE OfferFunnel -----------------------------
(***************************************************************************)
(* OfferFunnelSession: the offers one calibration process opens.  A run of *)
(* the funnel opens the landing of a target, by the call to action of the  *)
(* saved post or directly, browses it, handles a lead form and either      *)
(* closes the tabs it has opened or keeps them for the rest of the         *)
(* session.  CalibrationSession says when a run begins and what becomes of *)
(* its result.                                                             *)
(*                                                                         *)
(* What a page shows is an input of each step; a place is the site a tab   *)
(* has ended on.                                                           *)
(***************************************************************************)
EXTENDS Naturals, Sequences, SequencesExt

CONSTANTS
  Targets,  \* saved ads a session may visit, 1..n
  Named,    \* those with an ad id or a clean landing
  Landings, \* those with a saved landing, the domain a click is checked against
  Offers,   \* those with a usable offer URL
  Places,   \* sites a funnel may end on
  Allowed,  \* offer_submit_allow_domain
  MaxTabs   \* max_retained_offer_tabs

ASSUME FunnelAssumption ==
  /\ Targets \subseteq Nat /\ Named \subseteq Targets /\ Offers \subseteq Targets
  /\ Landings \subseteq Targets
  /\ Allowed \subseteq Places /\ MaxTabs \in Nat \ {0}

VARIABLES
  fpc,        \* step of the run
  source,     \* the run was given the page of the saved post
  own,        \* its active page is that page
  opened,     \* tabs it has opened itself
  place,      \* where the active page is
  fstatus,    \* the status of the result
  submitted,  \* submitted_targets
  retained,   \* retained_pages: "offer", "source", or "closed" since
  tabs,       \* offer tabs that are open
  lost,       \* history: those left behind by a run that raised, or by a submit
              \* whose answer opened a tab nobody looked at
  clicks,     \* history: submit clicks per target
  unsaved     \* history: targets whose click was not followed by submitted.add

runVars    == <<fpc, source, own, opened, place, fstatus>>
tabVars    == <<retained, tabs, lost>>
submitVars == <<submitted, clicks, unsaved>>
funnelVars == <<runVars, tabVars, submitVars>>

\* target_key: an id if the target has one, else the address it has led to.
SubmitKeys == Named \cup Places
SubmitKey(t) == IF t \in Named THEN t ELSE place

Success == {"offer_engaged", "form_ready", "form_submitted_unconfirmed",
            "success_confirmed", "unsafe_form_blocked"}

Blank == CHOOSE p \in Places : TRUE

FunnelInit ==
  /\ fpc = "idle" /\ source = FALSE /\ own = FALSE /\ opened = 0
  /\ place = Blank /\ fstatus = "none"
  /\ submitted = {} /\ retained = <<>> /\ tabs = 0 /\ lost = 0
  /\ clicks = [t \in Targets |-> 0] /\ unsaved = {}

Forget ==
  /\ fpc' = "idle" /\ source' = FALSE /\ own' = FALSE /\ opened' = 0
  /\ fstatus' = "none" /\ place' = Blank

-----------------------------------------------------------------------------
(* The tabs.                                                               *)

\* Tabs that a click on a page opens.
Popups == {0, 1}

Live(pages) == Cardinality({i \in DOMAIN pages : pages[i] = "offer"})

\* _retain: the active page first, then the tabs of the run, oldest out.
Kept(pages) ==
  IF Len(pages) > MaxTabs THEN SubSeq(pages, Len(pages) - MaxTabs + 1, Len(pages))
                          ELSE pages
Retain(n, strays) ==
  LET pages == retained \o (IF own /\ n = opened THEN <<"source">> ELSE <<>>)
                        \o [i \in 1..n |-> "offer"]
  IN /\ retained' = Kept(pages)
     /\ tabs' = tabs + (n - opened) + strays - (Live(pages) - Live(Kept(pages)))

\* Mutation: a page that was only viewed stays open, and is not retained.
ReleaseNothing(n, strays) == tabs' = tabs + (n - opened) + strays /\ UNCHANGED retained

Release(n, strays) == tabs' = tabs - opened + strays /\ UNCHANGED retained

\* The run returns with n tabs of its own, and with others it has not seen.
ReturnLeaving(status, n, strays) ==
  /\ fpc' = "done" /\ fstatus' = status /\ opened' = n
  /\ IF status \in Success THEN Retain(n, strays) ELSE Release(n, strays)
  /\ lost' = lost + strays
  /\ UNCHANGED <<source, own, place>>

Return(status, n) == ReturnLeaving(status, n, 0)

\* An exception leaves what the run has opened to nobody.
Raise(popups) ==
  /\ fpc' = "raised" /\ fstatus' = "failed"
  /\ tabs' = tabs + popups /\ lost' = lost + opened + popups
  /\ UNCHANGED <<source, own, opened, place, retained>>

-----------------------------------------------------------------------------
(* open_funnel_landing.                                                    *)

StartRun(withSource) ==
  /\ fpc = "idle"
  /\ fpc' = IF withSource THEN "landing" ELSE "direct"
  /\ source' = withSource /\ own' = FALSE /\ opened' = 0 /\ fstatus' = "none"
  /\ UNCHANGED <<place, tabVars, submitVars>>

\* The call to action leads to the expected domain, in a new tab or in the page
\* of the post.  Without an expected domain nothing matches.
CtaLands(t) ==
  /\ fpc = "landing" /\ t \in Landings
  /\ own' \in BOOLEAN /\ place' \in Places
  /\ opened' = IF own' THEN 0 ELSE 1
  /\ tabs' = tabs + opened'
  /\ fpc' = "offer"
  /\ UNCHANGED <<source, fstatus, retained, lost, submitVars>>

FallBack(fallback, status) ==
  /\ fpc' = IF fallback THEN "direct" ELSE "done"
  /\ fstatus' = IF fallback THEN fstatus ELSE status
  /\ UNCHANGED <<source, own, opened, place, tabVars, submitVars>>

\* No control in the post, or no navigation: new tabs are closed.
CtaNotFound(fallback) == fpc = "landing" /\ FallBack(fallback, "control_not_found")

\* It leads to another domain, and the tab is closed.
CtaMismatch(fallback) == fpc = "landing" /\ FallBack(fallback, "cta_domain_mismatch")

\* The click raises: a tab it has opened is not seen any more.
CtaRaises ==
  /\ fpc = "landing"
  /\ \E popups \in Popups : Raise(popups)
  /\ UNCHANGED submitVars

\* It may end on another site that shows neither form, quiz nor control.
DirectOpens(t, fallback) ==
  /\ fpc = "direct" /\ fallback /\ t \in Offers
  /\ place' \in Places
  /\ fpc' \in {"offer", "redirected"}
  /\ opened' = 1 /\ tabs' = tabs + 1
  /\ UNCHANGED <<source, own, fstatus, retained, lost, submitVars>>

\* Disabled, no URL, or a navigation that fails and whose tab is closed.
DirectFails(t, fallback) ==
  /\ fpc = "direct"
  /\ fpc' = "done"
  /\ fstatus' \in (IF ~fallback THEN {"direct_fallback_disabled"}
                   ELSE IF t \notin Offers THEN {"missing_direct_offer_url"}
                   ELSE {"direct_navigation_failed"})
  /\ UNCHANGED <<source, own, opened, place, tabVars, submitVars>>

-----------------------------------------------------------------------------
(* browse_offer_page: quiz, scroll, call to action.                        *)

Redirected ==
  /\ fpc = "redirected"
  /\ Return("redirected_without_offer_signals", 1)
  /\ UNCHANGED submitVars

\* Nothing to do on the page but look at it.
Viewed ==
  /\ fpc = "offer"
  /\ Return("landing_viewed", opened)
  /\ UNCHANGED submitVars

\* A quiz or a control is clicked, perhaps into a new tab, and no form appears.
Engaged ==
  /\ fpc = "offer"
  /\ \E popup \in Popups : Return("offer_engaged", opened + popup)
  /\ UNCHANGED submitVars

\* A form is found, at once or behind the control, perhaps in a new tab.
FindForm ==
  /\ fpc = "offer"
  /\ \E popup \in Popups :
       /\ opened' = opened + popup /\ tabs' = tabs + popup
       /\ own' = (own /\ popup = 0)
  /\ place' \in Places
  /\ fpc' = "form"
  /\ UNCHANGED <<source, fstatus, retained, lost, submitVars>>

\* browse_offer_page
Browse == Redirected \/ Viewed \/ Engaged \/ FindForm

-----------------------------------------------------------------------------
(* handle_offer_form.                                                      *)

\* What the second look at the form shows.
Looks == [gone : BOOLEAN, dangerous : BOOLEAN, contact : BOOLEAN, button : BOOLEAN]

\* The first of these that holds ends the handling without a click.
Refusals(t, submit, complete, look) ==
  << <<look.gone, "not_found">>,
     <<look.dangerous, "blocked_dangerous_fields">>,
     <<submit = "disabled", "detected">>,
     <<~complete, "identity_missing">>,
     <<submit = "fill_only", "filled_not_submitted">>,
     <<SubmitKey(t) \in submitted, "repeat_submit_blocked">>,
     <<place \notin Allowed, "submit_domain_not_allowed">>,
     <<~look.contact, "required_contact_fields_not_filled">>,
     <<~look.button, "submit_control_not_found">> >>

Refusal(t, submit, complete, look) ==
  LET refusals == Refusals(t, submit, complete, look)
      holds    == {i \in DOMAIN refusals : refusals[i][1]}
  IN IF holds = {} THEN "none" ELSE refusals[Min(holds)][2]

FormOutcomes(t, submit, complete) == {Refusal(t, submit, complete, look) : look \in Looks}

\* funnel_status of a result that has handled a form.
FunnelStatus(formStatus) ==
  CASE formStatus = "success_confirmed" -> "success_confirmed"
    [] formStatus \in {"filled_not_submitted", "detected", "submit_domain_not_allowed"}
         -> "form_ready"
    [] formStatus = "submitted_unconfirmed" -> "form_submitted_unconfirmed"
    [] formStatus = "blocked_dangerous_fields" -> "unsafe_form_blocked"
    [] OTHER -> "offer_engaged"

RefuseForm(t, submit, complete) ==
  /\ fpc = "form"
  /\ \E outcome \in FormOutcomes(t, submit, complete) \ {"none"} :
       Return(FunnelStatus(outcome), opened)
  /\ UNCHANGED submitVars

\* The click is dispatched.  It may be dispatched and still raise, in which
\* case the form counts as not submitted.
ClickSubmit(t, submit, complete) ==
  /\ fpc = "form"
  /\ "none" \in FormOutcomes(t, submit, complete)
  /\ clicks' = [clicks EXCEPT ![t] = @ + 1]
  /\ \/ /\ fpc' = "sent"
        /\ UNCHANGED <<source, own, opened, place, fstatus, tabVars, unsaved>>
     \/ /\ Return(FunnelStatus("submit_failed"), opened)
        /\ unsaved' = unsaved \cup {t}
  /\ UNCHANGED submitted

\* Mutation: only a confirmed submission is remembered.
RememberedIfConfirmed(t, confirmed) == IF confirmed THEN {SubmitKey(t)} ELSE {}

Remembered(t, confirmed) == {SubmitKey(t)}

\* submitted_targets grows when handle_offer_form has returned, and by the key
\* of before the form was handled.
Answer(t) ==
  /\ fpc = "sent"
  /\ \/ /\ \E popup \in Popups : Return("success_confirmed", opened + popup)
        /\ submitted' = submitted \cup Remembered(t, TRUE)
     \/ /\ \E popup \in Popups : ReturnLeaving("form_submitted_unconfirmed", opened, popup)
        /\ submitted' = submitted \cup Remembered(t, FALSE)
  /\ UNCHANGED <<clicks, unsaved>>

\* The page is gone while the answer is waited for.
AnswerRaises(t) ==
  /\ fpc = "sent"
  /\ Raise(0)
  /\ unsaved' = unsaved \cup {t}
  /\ UNCHANGED <<submitted, clicks>>

\* One step of OfferFunnelSession.run.
FunnelStep(t, config) ==
  \/ CtaLands(t) \/ CtaRaises
  \/ CtaNotFound(config.fallback) \/ CtaMismatch(config.fallback)
  \/ DirectOpens(t, config.fallback) \/ DirectFails(t, config.fallback)
  \/ Browse
  \/ RefuseForm(t, config.submit, config.complete)
  \/ ClickSubmit(t, config.submit, config.complete)
  \/ Answer(t) \/ AnswerRaises(t)

\* The page of the post is closed after the attempt.
CloseSource == retained' = [i \in DOMAIN retained |->
                              IF retained[i] = "source" THEN "closed" ELSE retained[i]]

\* close
CloseRetained ==
  /\ retained' = <<>> /\ tabs' = tabs - Live(retained)

\* A process begins with a new session in a browser without offer tabs.
FunnelReset ==
  /\ Forget
  /\ submitted' = {} /\ retained' = <<>> /\ tabs' = 0 /\ lost' = 0
  /\ clicks' = [t \in Targets |-> 0] /\ unsaved' = {}

FunnelTypeOK ==
  /\ fpc \in {"idle", "landing", "direct", "redirected", "offer", "form",
             "sent", "raised", "done"}
  /\ source \in BOOLEAN /\ own \in BOOLEAN /\ opened \in 0..3 /\ place \in Places
  /\ submitted \in SUBSET SubmitKeys /\ unsaved \in SUBSET Targets
  /\ retained \in Seq({"offer", "source", "closed"}) /\ Len(retained) <= MaxTabs
  /\ tabs \in Nat /\ lost \in Nat /\ clicks \in [Targets -> Nat]
=============================================================================
