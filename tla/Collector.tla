----------------------------- MODULE Collector -----------------------------
(***************************************************************************)
(* The collector process: the feed loop of collect_feed, what it does with *)
(* one detected post (process_candidate), the registry that recognises     *)
(* duplicates, and the files it leaves for the importer.                   *)
(*                                                                         *)
(* A detected row is the text of a post (its coarse key), the image the    *)
(* page showed for it and the ad id found in the page, if any.  Time,      *)
(* scroll distances, screenshots and diagnostics are left out: a budget    *)
(* that may run out is a choice.                                           *)
(***************************************************************************)
EXTENDS Integers, FiniteSets

CONSTANTS
  Posts,       \* texts: advertiser, domain, headline, text and button
  Images,      \* creative identities
  LazyImages,  \* those of the small stand-in shown while a video loads
  Ids,         \* numbers in fb_ad_id
  None,        \* no ad id, and no post or image in a key
  MaxScrolls,  \* options.max_scrolls
  MaxAdsPerView, \* options.max_ads_per_view, 0 for no limit
  MaxRows      \* bound: rows detected in one view

ASSUME CollectorAssumption ==
  /\ LazyImages \subseteq Images
  /\ None \notin Posts \cup Images \cup Ids
  /\ MaxScrolls \in Nat /\ MaxAdsPerView \in Nat /\ MaxRows \in Nat

VARIABLES
  pc,           \* where collect_feed and its caller are
  stopReason,   \* state.stop_reason
  raising,      \* an exception is on its way through the finally block
  scrolls,      \* state.scrolls
  left,         \* rows of the view still to be processed
  newAds,       \* new_ads_in_view
  ads,          \* registry.ads: key -> ad
  coarseKeys,   \* registry._coarse_keys
  lazyKeys,     \* registry._lazy_media_keys
  seenIds,      \* registry._seen_fb_ad_ids
  duplicates,   \* registry._duplicate_coarse_keys
  decision,     \* the candidate in process_candidate
  partial,      \* ads.partial.json
  adsJson,      \* ads.json
  exit          \* how the process ended

registryVars == <<ads, coarseKeys, lazyKeys, seenIds, duplicates>>
vars == <<pc, stopReason, raising, scrolls, left, newAds, registryVars, decision, partial,
          adsJson, exit>>

Rows == [post : Posts, image : Images, id : Ids \cup {None}]

\* An ad keeps the row it was made from; landing tells how it got its landing:
\* by its own click, or from the stand-in it replaced.
Landings == {"none", "inherited", "own"}
AdsOf(S) == [post : Posts, image : Images, id : Ids \cup {None}, landing : S]

\* dedup_key_for: the ad id alone when the page shows one.
Key(row) ==
  IF row.id = None THEN row ELSE [row EXCEPT !.post = None, !.image = None]

Keys == {Key(row) : row \in Rows}

NoFile == <<>>
NoAds == [k \in {} |-> None]

NoDecision == [key |-> None, ad |-> None, lazy |-> FALSE, landed |-> FALSE]

Without(f, S) == [k \in DOMAIN f \ S |-> f[k]]
With(f, k, v) == [j \in DOMAIN f \cup {k} |-> IF j = k THEN v ELSE f[j]]

Init ==
  /\ pc = "prepare" /\ stopReason = "" /\ raising = FALSE
  /\ scrolls = 0 /\ left = 0 /\ newAds = 0
  /\ ads = NoAds /\ coarseKeys = [c \in Posts |-> {}] /\ lazyKeys = {}
  /\ seenIds = {} /\ duplicates = {}
  /\ decision = NoDecision
  /\ partial = NoFile /\ adsJson = NoFile /\ exit = "none"

-----------------------------------------------------------------------------
(* The loop.                                                               *)

\* prepare_feed: the feed is opened, and may ask for a login.
Prepare ==
  /\ pc = "prepare"
  /\ stopReason' \in {"", "facebook_login_required"}
  /\ pc' = "view"
  /\ UNCHANGED <<raising, scrolls, left, newAds, registryVars, decision, partial,
                 adsJson, exit>>

\* The head of the loop: a reason to stop, the time or the scroll budget ends
\* it; else the rows in view are detected, none when detection fails.
View ==
  /\ pc = "view"
  /\ \/ /\ stopReason = "" /\ scrolls < MaxScrolls
        /\ left' \in 0..MaxRows /\ newAds' = 0 /\ pc' = "row"
     \/ pc' = "finally" /\ UNCHANGED <<left, newAds>>
  /\ UNCHANGED <<stopReason, raising, scrolls, registryVars, decision, partial, adsJson,
                 exit>>

\* The view is left after its last row, or after max_ads_per_view ads.
ViewIsDone == left = 0 \/ (MaxAdsPerView > 0 /\ newAds >= MaxAdsPerView)

Row ==
  /\ pc = "row"
  /\ \/ ViewIsDone /\ pc' = "scroll" /\ UNCHANGED stopReason
     \/ ~ViewIsDone /\ stopReason' = "time_budget" /\ pc' = "finally"
  /\ UNCHANGED <<raising, scrolls, left, newAds, registryVars, decision, partial,
                 adsJson, exit>>

\* advance_feed: the scroll may fail; the first views and every tenth are
\* checkpointed.
Scroll ==
  /\ pc = "scroll"
  /\ \/ /\ scrolls' = scrolls + 1
        /\ partial' = IF scrolls' <= 3 \/ scrolls' % 10 = 0 THEN ads ELSE partial
        /\ pc' = "view" /\ UNCHANGED stopReason
     \/ /\ stopReason' = "scroll_failed" /\ pc' = "finally"
        /\ UNCHANGED <<scrolls, partial>>
  /\ UNCHANGED <<raising, left, newAds, registryVars, decision, adsJson, exit>>

-----------------------------------------------------------------------------
(* One candidate.                                                          *)

LazySiblings(row) ==
  IF row.image \in LazyImages THEN {} ELSE coarseKeys[row.post] \cap lazyKeys

Rejected(row) ==
  \/ row.post \in duplicates
  \/ Key(row) \in DOMAIN ads
  \/ row.image \in LazyImages /\ coarseKeys[row.post] # {}

\* inherit_artifacts from the stand-in that is replaced: what it has wins.
Inherit(row, old) ==
  [post |-> row.post, image |-> row.image,
   id |-> IF old.id # None THEN old.id ELSE row.id,
   landing |-> IF old.landing # "none" THEN "inherited" ELSE "none"]

FreshAd(row) ==
  [post |-> row.post, image |-> row.image, id |-> row.id, landing |-> "none"]

\* Mutation: a stand-in that is replaced stays in the index of its post.
ConsiderKeepingIndex(row) ==
  LET removed == LazySiblings(row)
  IN /\ pc = "row" /\ ~ViewIsDone
     /\ left' = left - 1
     /\ IF Rejected(row)
          THEN UNCHANGED <<pc, ads, coarseKeys, lazyKeys, decision>>
          ELSE /\ ads' = Without(ads, removed)
               /\ UNCHANGED coarseKeys
               /\ lazyKeys' = lazyKeys \ removed
               /\ \E ad \in IF removed = {} THEN {FreshAd(row)}
                            ELSE {Inherit(row, ads[k]) : k \in removed} :
                    decision' = [key |-> Key(row), ad |-> ad,
                                 lazy |-> row.image \in LazyImages, landed |-> FALSE]
               /\ pc' = "capture"
     /\ UNCHANGED <<stopReason, raising, scrolls, newAds, seenIds, duplicates, partial,
                    adsJson, exit>>

\* CandidateRegistry.consider: a confirmed duplicate, a known key and a
\* stand-in beside its siblings are skipped.  The loaded creative removes the
\* stand-ins of its post at once, before it is stored itself.
Consider(row) ==
  LET removed == LazySiblings(row)
  IN /\ pc = "row" /\ ~ViewIsDone
     /\ left' = left - 1
     /\ IF Rejected(row)
          THEN UNCHANGED <<pc, ads, coarseKeys, lazyKeys, decision>>
          ELSE /\ ads' = Without(ads, removed)
               /\ coarseKeys' = [coarseKeys EXCEPT ![row.post] = @ \ removed]
               /\ lazyKeys' = lazyKeys \ removed
               /\ \E ad \in IF removed = {} THEN {FreshAd(row)}
                            ELSE {Inherit(row, ads[k]) : k \in removed} :
                    decision' = [key |-> Key(row), ad |-> ad,
                                 lazy |-> row.image \in LazyImages, landed |-> FALSE]
               /\ pc' = "capture"
     /\ UNCHANGED <<stopReason, raising, scrolls, newAds, seenIds, duplicates, partial,
                    adsJson, exit>>

\* The screenshot has been taken; CandidateRegistry.commit.
Commit ==
  /\ pc = "capture"
  /\ ads' = With(ads, decision.key, decision.ad)
  /\ coarseKeys' = [coarseKeys EXCEPT ![decision.ad.post] = @ \cup {decision.key}]
  /\ lazyKeys' = IF decision.lazy THEN lazyKeys \cup {decision.key} ELSE lazyKeys
  /\ pc' = "video"
  /\ UNCHANGED <<stopReason, raising, scrolls, left, newAds, seenIds, duplicates,
                 decision, partial, adsJson, exit>>

\* Mutation: the file is written after the click only.
VideoWithoutPersist ==
  /\ pc = "video"
  /\ \/ pc' = "click" /\ UNCHANGED stopReason
     \/ stopReason' = "video_timeout" /\ pc' = "finally"
  /\ UNCHANGED <<raising, scrolls, left, newAds, registryVars, decision, partial,
                 adsJson, exit>>

\* record_candidate_video, then the ad is written before it is clicked.
Video ==
  /\ pc = "video"
  /\ partial' = ads
  /\ \/ pc' = "click" /\ UNCHANGED stopReason
     \/ stopReason' = "video_timeout" /\ pc' = "finally"
  /\ UNCHANGED <<raising, scrolls, left, newAds, registryVars, decision, adsJson, exit>>

\* capture_landing_artifacts changes the stored ad.
Landed(ad, id) ==
  [ad EXCEPT !.landing = "own", !.id = IF id # None THEN id ELSE @]

\* The CTA is left alone: not a link, no budget, resolve_max reached.
SkipClick ==
  /\ pc = "click"
  /\ pc' = "permalink"
  /\ UNCHANGED <<stopReason, raising, scrolls, left, newAds, registryVars, decision,
                 partial, adsJson, exit>>

\* resolve_in_view finds no landing, or one that names an ad id or none.
Click(id) ==
  /\ pc = "click"
  /\ \/ /\ decision' = [decision EXCEPT !.landed = TRUE, !.ad = Landed(@, id)]
        /\ ads' = With(ads, decision.key, Landed(decision.ad, id))
     \/ UNCHANGED <<decision, ads>>
  /\ \/ pc' = "register" /\ UNCHANGED stopReason
     \/ stopReason' = "resolve_timeout" /\ pc' = "finally"
  /\ UNCHANGED <<raising, scrolls, left, newAds, coarseKeys, lazyKeys, seenIds,
                 duplicates, partial, adsJson, exit>>

\* Mutation: the ad id is not remembered.
RegisterForgetful ==
  /\ pc = "register"
  /\ pc' = "permalink"
  /\ UNCHANGED <<stopReason, raising, scrolls, left, newAds, registryVars, decision,
                 partial, adsJson, exit>>

\* CandidateRegistry.register_resolved, which an inherited landing reaches
\* too: an ad whose id was seen is removed, and the text of its post is not
\* accepted again.
Register ==
  LET ad == decision.ad
  IN /\ pc = "register"
     /\ IF ad.landing # "none" /\ ad.id \in seenIds
          THEN /\ duplicates' = duplicates \cup {ad.post}
               /\ ads' = Without(ads, {decision.key})
               /\ coarseKeys' = [coarseKeys EXCEPT ![ad.post] = @ \ {decision.key}]
               /\ lazyKeys' = lazyKeys \ {decision.key}
               /\ partial' = ads'
               /\ pc' = "row"
               /\ UNCHANGED seenIds
          ELSE /\ seenIds' = IF ad.landing # "none" /\ ad.id # None
                               THEN seenIds \cup {ad.id} ELSE seenIds
               /\ pc' = "permalink"
               /\ UNCHANGED <<ads, coarseKeys, lazyKeys, duplicates, partial>>
     /\ UNCHANGED <<stopReason, raising, scrolls, left, newAds, decision, adsJson,
                    exit>>

\* The permalink, and the second write of an accepted ad.
Permalink ==
  /\ pc = "permalink"
  /\ partial' = ads
  /\ newAds' = newAds + 1
  /\ pc' = "row"
  /\ UNCHANGED <<stopReason, raising, scrolls, left, registryVars, decision, adsJson,
                 exit>>

-----------------------------------------------------------------------------
(* The way out.                                                            *)

InLoop == pc \in {"view", "row", "scroll", "capture", "video", "click", "register",
                  "permalink"}

\* The first signal, as a KeyboardInterrupt: caught around the loop.
Interrupt ==
  /\ InLoop
  /\ pc' = "finally"
  /\ UNCHANGED <<stopReason, raising, scrolls, left, newAds, registryVars, decision,
                 partial, adsJson, exit>>

\* The browser raises in the middle of a candidate.
BrowserFails ==
  /\ pc \in {"capture", "video", "click", "permalink"}
  /\ raising' = TRUE
  /\ pc' = "finally"
  /\ UNCHANGED <<stopReason, scrolls, left, newAds, registryVars, decision, partial,
                 adsJson, exit>>

\* Mutation: the last write is not in a finally block.
FinallyUnlessRaising ==
  /\ pc = "finally"
  /\ partial' = IF raising THEN partial ELSE ads
  /\ IF raising THEN pc' = "ended" /\ exit' = "error"
                ELSE pc' = "summary" /\ UNCHANGED exit
  /\ UNCHANGED <<stopReason, raising, scrolls, left, newAds, registryVars, decision,
                 adsJson>>

Finally ==
  /\ pc = "finally"
  /\ partial' = ads
  /\ IF raising THEN pc' = "ended" /\ exit' = "error"
                ELSE pc' = "summary" /\ UNCHANGED exit
  /\ UNCHANGED <<stopReason, raising, scrolls, left, newAds, registryVars, decision,
                 adsJson>>

\* finalize_collection writes the summary, the session writes ads.json; after
\* a timeout of the browser the process leaves without closing it.
Summary ==
  /\ pc = "summary"
  /\ adsJson' = ads
  /\ pc' = "ended" /\ exit' = "ok"
  /\ UNCHANGED <<stopReason, raising, scrolls, left, newAds, registryVars, decision,
                 partial>>

\* A failure before the loop, a signal after it, or a SIGKILL at any step: the
\* files stay as they are.
Die ==
  /\ pc # "ended"
  /\ pc' = "ended"
  /\ exit' = "dead"
  /\ UNCHANGED <<stopReason, raising, scrolls, left, newAds, registryVars, decision,
                 partial, adsJson>>

Next ==
  \/ Prepare \/ View \/ Row \/ Scroll
  \/ \E row \in Rows : Consider(row)
  \/ Commit \/ Video \/ SkipClick
  \/ \E id \in Ids \cup {None} : Click(id)
  \/ Register \/ Permalink
  \/ Interrupt \/ BrowserFails \/ Finally \/ Summary \/ Die

Spec == Init /\ [][Next]_vars

-----------------------------------------------------------------------------
(* Properties.                                                             *)

IsAdFile(f) ==
  /\ DOMAIN f \subseteq Keys
  /\ \A k \in DOMAIN f : f[k] \in AdsOf(Landings)

Decisions ==
  [key : Keys, ad : AdsOf(Landings), lazy : BOOLEAN, landed : BOOLEAN]

\* Every variable has its type.
TypeOK ==
  /\ pc \in {"prepare", "view", "row", "scroll", "capture", "video", "click", "register",
             "permalink", "finally", "summary", "ended"}
  /\ stopReason \in {"", "facebook_login_required", "time_budget", "scroll_failed",
                     "video_timeout", "resolve_timeout"}
  /\ raising \in BOOLEAN
  /\ scrolls \in 0..MaxScrolls /\ left \in 0..MaxRows /\ newAds \in 0..MaxRows
  /\ IsAdFile(ads) /\ IsAdFile(partial) /\ IsAdFile(adsJson)
  /\ coarseKeys \in [Posts -> SUBSET Keys] /\ lazyKeys \in SUBSET Keys
  /\ seenIds \in SUBSET Ids /\ duplicates \in SUBSET Posts
  /\ decision \in Decisions \cup {NoDecision}
  /\ exit \in {"none", "ok", "error", "dead"}

\* The three indexes of the registry describe the ads it stores, and a
\* stand-in never stays beside another creative of its post: whatever the order
\* in which thumbnails and loaded creatives of a post come into view.
RegistryAgrees ==
  /\ \A c \in Posts : coarseKeys[c] = {k \in DOMAIN ads : ads[k].post = c}
  /\ lazyKeys = {k \in DOMAIN ads : ads[k].image \in LazyImages}
  /\ \A k \in lazyKeys : coarseKeys[ads[k].post] = {k}

\* Two stored ads were never clicked through to one ad id, unless the second
\* click was cut short before it could be registered.
ClickedOnce ==
  \A j, k \in DOMAIN ads :
    /\ j # k /\ ads[j].id # None /\ ads[j].id = ads[k].id
    /\ ads[j].landing = "own" /\ ads[k].landing = "own"
    => pc \in {"register", "finally", "summary", "ended"}

\* While its CTA is clicked an ad is on disk; on every way out through the
\* finally block the partial file holds all that was stored, and exit code 0
\* means that both files do.
FilesAgree ==
  /\ pc = "click" => decision.key \in DOMAIN partial
  /\ exit \in {"ok", "error"} => partial = ads
  /\ exit = "ok" => adsJson = ads

\* A landing that could not be captured does not cost the ad.
BrokenLandingKeepsAd ==
  [][pc = "register" /\ ~decision.landed => decision.key \in DOMAIN ads']_vars
=============================================================================
