-------------------------- MODULE CollectorProofs --------------------------
(***************************************************************************)
(* For every set of posts, images and ad ids: type correctness of the      *)
(* collector, the agreement of the registry's indexes, one stored ad for   *)
(* each id that was clicked through to, and files that hold what was       *)
(* stored.                                                                 *)
(***************************************************************************)
EXTENDS Collector, TLAPS

-----------------------------------------------------------------------------
(* Types.                                                                  *)

LEMMA KeysAreRows ==
  ASSUME NEW row \in Rows
  PROVE  Key(row) \in Keys
BY DEF Keys

LEMMA WithoutIsAdFile ==
  ASSUME IsAdFile(ads), NEW S
  PROVE  IsAdFile(Without(ads, S))
BY DEF IsAdFile, Without

LEMMA WithIsAdFile ==
  ASSUME IsAdFile(ads), NEW k \in Keys, NEW ad \in AdsOf(Landings)
  PROVE  IsAdFile(With(ads, k, ad))
BY DEF IsAdFile, With

LEMMA NewAdsAreAds ==
  ASSUME NEW row \in Rows
  PROVE  /\ FreshAd(row) \in AdsOf(Landings)
         /\ \A old \in AdsOf(Landings) : Inherit(row, old) \in AdsOf(Landings)
         /\ FreshAd(row).post = row.post /\ FreshAd(row).image = row.image
         /\ FreshAd(row).landing # "own"
         /\ \A old : /\ Inherit(row, old).post = row.post
                     /\ Inherit(row, old).image = row.image
                     /\ Inherit(row, old).landing # "own"
BY DEF FreshAd, Inherit, Rows, AdsOf, Landings

LEMMA LandedAds ==
  ASSUME NEW ad \in AdsOf(Landings), NEW id \in Ids \cup {None}
  PROVE  /\ Landed(ad, id) \in AdsOf(Landings)
         /\ Landed(ad, id).post = ad.post /\ Landed(ad, id).image = ad.image
         /\ Landed(ad, id).landing = "own"
BY DEF Landed, AdsOf, Landings

(* What a candidate holds between two of its steps. *)

InCandidate == pc \in {"capture", "video", "click", "register", "permalink"}

DecisionType == decision \in Decisions

Before ==
  pc = "capture" =>
    /\ decision.key \notin DOMAIN ads
    /\ decision.lazy <=> decision.ad.image \in LazyImages
    /\ decision.ad.landing # "own"
    /\ coarseKeys[decision.ad.post] \cap lazyKeys = {}
    /\ decision.lazy => coarseKeys[decision.ad.post] = {}

After ==
  pc \in {"video", "click", "register", "permalink"} =>
    decision.key \in DOMAIN ads /\ ads[decision.key] = decision.ad

\* Rows and scrolls still allowed.
Budget ==
  /\ pc \in {"row", "scroll"} => scrolls < MaxScrolls /\ newAds + left <= MaxRows
  /\ InCandidate => scrolls < MaxScrolls /\ newAds + left < MaxRows

CandidateInv == (InCandidate => DecisionType) /\ Before /\ After /\ Budget

RegistryInv == TypeOK /\ RegistryAgrees /\ CandidateInv

\* What accepting a row does, as the properties need it.
Accepts(row) ==
  /\ decision'.key = Key(row)
  /\ decision'.ad \in AdsOf(Landings)
  /\ decision'.ad.post = row.post /\ decision'.ad.image = row.image
  /\ decision'.ad.landing # "own"
  /\ decision' \in Decisions
  /\ decision'.lazy <=> row.image \in LazyImages

LEMMA ConsiderAccepts ==
  ASSUME TypeOK, RegistryAgrees, NEW row \in Rows, Consider(row), ~Rejected(row)
  PROVE  Accepts(row)
<1> DEFINE removed == LazySiblings(row)
           choices == IF removed = {} THEN {FreshAd(row)}
                      ELSE {Inherit(row, ads[k]) : k \in removed}
<1>1. PICK ad \in choices :
        decision' = [key |-> Key(row), ad |-> ad,
                     lazy |-> row.image \in LazyImages, landed |-> FALSE]
  BY DEF Consider
<1>2. \A k \in removed : ads[k] \in AdsOf(Landings)
  BY DEF LazySiblings, RegistryAgrees, TypeOK, IsAdFile
<1>3. /\ ad \in AdsOf(Landings)
      /\ ad.post = row.post /\ ad.image = row.image /\ ad.landing # "own"
  BY <1>2, NewAdsAreAds
<1>4. decision'.key = Key(row) /\ decision'.ad = ad
  BY <1>1
<1>5. decision'.lazy = (row.image \in LazyImages) /\ decision'.landed = FALSE
  BY <1>1, Zenon
<1>6. decision' \in Decisions
  <2>1. (row.image \in LazyImages) \in BOOLEAN
    OBVIOUS
  <2>2. Key(row) \in Keys
    BY KeysAreRows
  <2> QED
    BY <1>1, <1>3, <2>1, <2>2 DEF Decisions
<1>7. decision'.lazy <=> row.image \in LazyImages
  BY <1>5, Zenon
<1> QED
  BY <1>3, <1>4, <1>6, <1>7 DEF Accepts

LEMMA Counters ==
  ASSUME CollectorAssumption, TypeOK
  PROVE  /\ scrolls \in 0..MaxScrolls /\ MaxScrolls \in Nat
         /\ newAds \in 0..MaxRows /\ left \in 0..MaxRows /\ MaxRows \in Nat
         /\ newAds \in Int /\ left \in Int
<1>1. scrolls \in 0..MaxScrolls /\ newAds \in 0..MaxRows /\ left \in 0..MaxRows
  BY DEF TypeOK
<1>2. MaxScrolls \in Nat /\ MaxRows \in Nat
  BY DEF CollectorAssumption
<1> QED
  BY <1>1, <1>2

LEMMA ZeroPlus ==
  ASSUME NEW n \in Nat, NEW x \in 0..n
  PROVE  0 + x <= n
OBVIOUS

LEMMA BudgetKept ==
  ASSUME CollectorAssumption, TypeOK, Budget, UNCHANGED <<scrolls, left, newAds>>,
         \/ InCandidate
         \/ pc' = pc
         \/ pc = "row" /\ pc' = "scroll"
         \/ ~InCandidate' /\ pc' \notin {"row", "scroll"}
  PROVE  Budget'
<1>1. newAds \in Int /\ left \in Int /\ MaxRows \in Int
  BY Counters
<1> QED
  BY <1>1 DEF Budget, InCandidate

-----------------------------------------------------------------------------
(* The steps that change the registry.                                     *)

LEMMA ConsiderStep ==
  ASSUME CollectorAssumption, RegistryInv, NEW row \in Rows, Consider(row)
  PROVE  RegistryInv'
<1>1. TypeOK /\ RegistryAgrees /\ pc = "row"
  BY DEF RegistryInv, Consider
<1>2. left \in Nat /\ left > 0 /\ left' = left - 1 /\ left' \in 0..MaxRows
  <2>1. left \in 0..MaxRows /\ MaxRows \in Nat /\ left # 0 /\ left' = left - 1
    BY DEF RegistryInv, TypeOK, Consider, ViewIsDone, CollectorAssumption
  <2> QED
    BY <2>1
<1>3. /\ scrolls < MaxScrolls /\ newAds + left' < MaxRows
      /\ newAds + left' <= MaxRows
  <2>1. /\ scrolls < MaxScrolls /\ newAds + left <= MaxRows
        /\ newAds \in Int /\ MaxRows \in Int
    BY <1>1, Counters DEF RegistryInv, CandidateInv, Budget
  <2> QED
    BY <1>2, <2>1
<1>4. CASE Rejected(row)
  <2>1. UNCHANGED <<pc, stopReason, raising, scrolls, newAds, registryVars, decision,
                    partial, adsJson, exit>>
    BY <1>4 DEF Consider, registryVars
  <2>2. Budget'
    BY <1>1, <1>3, <2>1 DEF Budget, InCandidate
  <2> QED
    BY <1>1, <1>2, <2>1, <2>2
    DEF RegistryInv, TypeOK, RegistryAgrees, CandidateInv, InCandidate, DecisionType,
        Before, After, IsAdFile, registryVars
<1>5. CASE ~Rejected(row)
  <2> DEFINE removed == LazySiblings(row)
  <2>1. Accepts(row)
    BY <1>1, <1>5, ConsiderAccepts
  <2>2. /\ ads' = Without(ads, removed)
        /\ coarseKeys' = [coarseKeys EXCEPT ![row.post] = @ \ removed]
        /\ lazyKeys' = lazyKeys \ removed
        /\ pc' = "capture"
        /\ UNCHANGED <<stopReason, raising, scrolls, newAds, seenIds, duplicates, partial,
                       adsJson, exit>>
    BY <1>5 DEF Consider
  <2>3. row.post \in Posts /\ Key(row) \in Keys /\ Key(row) \notin DOMAIN ads
    BY <1>5, KeysAreRows DEF Rows, Rejected
  <2>4. DecisionType'
    BY <2>1, <2>3 DEF Accepts, DecisionType
  <2>5. TypeOK'
    BY <1>1, <1>2, <2>2, <2>4, WithoutIsAdFile DEF TypeOK, IsAdFile, DecisionType
  <2>6. RegistryAgrees'
    <3>1. /\ DOMAIN ads' = DOMAIN ads \ removed
          /\ \A k \in DOMAIN ads' : ads'[k] = ads[k]
      BY <2>2 DEF Without
    <3>2. removed \subseteq coarseKeys[row.post] \cap lazyKeys
      BY DEF LazySiblings
    <3>3. \A c \in Posts : coarseKeys'[c] = coarseKeys[c] \ removed
      <4>1. \A c \in Posts : c # row.post => coarseKeys[c] \cap removed = {}
        BY <1>1, <2>3, <3>2 DEF RegistryAgrees
      <4>2. \A c \in Posts : coarseKeys'[c] = IF c = row.post THEN coarseKeys[c] \ removed
                                             ELSE coarseKeys[c]
        BY <1>1, <2>2 DEF TypeOK
      <4> QED
        BY <4>1, <4>2
    <3>4. \A k \in DOMAIN ads : ads[k].post \in Posts
      BY <1>1 DEF TypeOK, IsAdFile, AdsOf
    <3> QED
      BY <1>1, <2>2, <3>1, <3>2, <3>3, <3>4 DEF RegistryAgrees
  <2>7. Before'
    <3>1. coarseKeys'[row.post] = coarseKeys[row.post] \ removed
      BY <1>1, <2>2, <2>3 DEF TypeOK
    <3>2. Key(row) \notin DOMAIN ads'
      BY <2>2, <2>3 DEF Without
    <3>3. row.image \in LazyImages => coarseKeys[row.post] = {}
      BY <1>5 DEF Rejected
    <3> QED
      BY <2>1, <2>2, <3>1, <3>2, <3>3 DEF Before, Accepts, LazySiblings
  <2>8. Budget'
    BY <1>3, <2>2 DEF Budget, InCandidate
  <2> QED
    BY <2>2, <2>4, <2>5, <2>6, <2>7, <2>8 DEF RegistryInv, CandidateInv, After
<1> QED
  BY <1>4, <1>5

LEMMA CommitStep ==
  ASSUME CollectorAssumption, RegistryInv, Commit
  PROVE  RegistryInv'
<1> DEFINE key == decision.key
           ad == decision.ad
<1>1. /\ TypeOK /\ RegistryAgrees /\ pc = "capture" /\ DecisionType
      /\ key \notin DOMAIN ads /\ (decision.lazy <=> ad.image \in LazyImages)
      /\ coarseKeys[ad.post] \cap lazyKeys = {}
      /\ decision.lazy => coarseKeys[ad.post] = {}
  BY DEF RegistryInv, Commit, CandidateInv, InCandidate, Before
<1>2. /\ ads' = With(ads, key, ad)
      /\ coarseKeys' = [coarseKeys EXCEPT ![ad.post] = @ \cup {key}]
      /\ lazyKeys' = IF decision.lazy THEN lazyKeys \cup {key} ELSE lazyKeys
      /\ pc' = "video"
      /\ UNCHANGED <<stopReason, raising, scrolls, left, newAds, seenIds, duplicates,
                     decision, partial, adsJson, exit>>
  BY DEF Commit
<1>3. key \in Keys /\ ad \in AdsOf(Landings) /\ ad.post \in Posts
  BY <1>1 DEF DecisionType, Decisions, AdsOf
<1>4. TypeOK'
  BY <1>1, <1>2, <1>3, WithIsAdFile DEF TypeOK, IsAdFile, DecisionType
<1>5. /\ DOMAIN ads' = DOMAIN ads \cup {key}
      /\ ads'[key] = ad
      /\ \A k \in DOMAIN ads : k # key /\ ads'[k] = ads[k]
  BY <1>1, <1>2 DEF With
<1>6. \A c \in Posts :
        coarseKeys'[c] = IF c = ad.post THEN coarseKeys[c] \cup {key} ELSE coarseKeys[c]
  BY <1>1, <1>2, <1>3 DEF TypeOK
<1>7. RegistryAgrees'
  <2>0. lazyKeys' = IF ad.image \in LazyImages THEN lazyKeys \cup {key} ELSE lazyKeys
    BY <1>1, <1>2
  <2>1. \A c \in Posts : coarseKeys'[c] = {k \in DOMAIN ads' : ads'[k].post = c}
    <3> TAKE c \in Posts
    <3>1. coarseKeys[c] = {k \in DOMAIN ads : ads[k].post = c}
      BY <1>1 DEF RegistryAgrees
    <3>2. ASSUME NEW k
          PROVE  k \in coarseKeys'[c] <=> k \in DOMAIN ads' /\ ads'[k].post = c
      <4>1. CASE k = key
        <5>1. key \in DOMAIN ads' /\ ads'[key] = ad /\ key \notin DOMAIN ads
          BY <1>1, <1>5
        <5>2. key \in coarseKeys'[c] <=> c = ad.post
          BY <1>6, <3>1, <5>1
        <5> QED
          BY <4>1, <5>1, <5>2
      <4>2. CASE k # key
        <5>1. k \in coarseKeys'[c] <=> k \in coarseKeys[c]
          BY <1>6, <4>2
        <5>2. k \in DOMAIN ads' <=> k \in DOMAIN ads
          BY <1>5, <4>2
        <5> QED
          BY <1>5, <3>1, <5>1, <5>2
      <4> QED
        BY <4>1, <4>2
    <3> QED
      BY <3>2
  <2>2. lazyKeys' = {k \in DOMAIN ads' : ads'[k].image \in LazyImages}
    <3>1. lazyKeys = {k \in DOMAIN ads : ads[k].image \in LazyImages}
      BY <1>1 DEF RegistryAgrees
    <3> QED
      BY <1>5, <2>0, <3>1
  <2>3. ASSUME NEW k \in lazyKeys' PROVE coarseKeys'[ads'[k].post] = {k}
    <3>1. CASE k = key
      <4>1. ad.image \in LazyImages
        BY <1>5, <2>2, <3>1
      <4>2. coarseKeys[ad.post] = {}
        BY <1>1, <4>1
      <4> QED
        BY <1>3, <1>5, <1>6, <3>1, <4>2
    <3>2. CASE k # key
      <4>1. k \in lazyKeys /\ k \in DOMAIN ads /\ ads[k].post \in Posts
        BY <1>1, <2>0, <3>2 DEF RegistryAgrees, TypeOK, IsAdFile, AdsOf
      <4>2. k \in coarseKeys[ads[k].post]
        BY <1>1, <4>1 DEF RegistryAgrees
      <4>3. ads[k].post # ad.post
        BY <1>1, <4>1, <4>2
      <4> QED
        <5>1. coarseKeys[ads[k].post] = {k}
          BY <1>1, <4>1 DEF RegistryAgrees
        <5> QED
          BY <1>5, <1>6, <4>1, <4>3, <5>1
    <3> QED
      BY <3>1, <3>2
  <2> QED
    BY <2>1, <2>2, <2>3 DEF RegistryAgrees
<1>8. DecisionType' /\ After' /\ Before'
  BY <1>1, <1>2, <1>5 DEF DecisionType, After, Before
<1>9. Budget'
  BY <1>1, <1>2, BudgetKept DEF RegistryInv, CandidateInv, InCandidate
<1> QED
  BY <1>4, <1>7, <1>8, <1>9 DEF RegistryInv, CandidateInv

LEMMA ClickStep ==
  ASSUME CollectorAssumption, RegistryInv, NEW id \in Ids \cup {None}, Click(id)
  PROVE  RegistryInv'
<1> DEFINE key == decision.key
           ad == decision.ad
<1>1. /\ TypeOK /\ RegistryAgrees /\ pc = "click" /\ DecisionType
      /\ key \in DOMAIN ads /\ ads[key] = ad
  BY DEF RegistryInv, Click, CandidateInv, InCandidate, After
<1>2. /\ pc' \in {"register", "finally"} /\ stopReason' \in {stopReason, "resolve_timeout"}
      /\ UNCHANGED <<raising, scrolls, left, newAds, coarseKeys, lazyKeys, seenIds,
                     duplicates, partial, adsJson, exit>>
  BY DEF Click
<1>3. Budget'
  BY <1>1, <1>2, BudgetKept DEF RegistryInv, CandidateInv, InCandidate
<1>4. CASE UNCHANGED <<decision, ads>>
  BY <1>1, <1>2, <1>3, <1>4
  DEF RegistryInv, TypeOK, RegistryAgrees, CandidateInv, InCandidate, DecisionType, Before,
      After, IsAdFile
<1>5. CASE /\ decision' = [decision EXCEPT !.landed = TRUE, !.ad = Landed(@, id)]
           /\ ads' = With(ads, key, Landed(ad, id))
  <2>1. /\ Landed(ad, id) \in AdsOf(Landings)
        /\ Landed(ad, id).post = ad.post /\ Landed(ad, id).image = ad.image
    BY <1>1, LandedAds DEF DecisionType, Decisions
  <2>2. /\ DOMAIN ads' = DOMAIN ads /\ ads'[key] = Landed(ad, id)
        /\ \A k \in DOMAIN ads : ads'[k].post = ads[k].post /\ ads'[k].image = ads[k].image
    BY <1>1, <1>5, <2>1 DEF With
  <2>3. DecisionType' /\ After' /\ Before'
    <3>1. decision'.key = key /\ decision'.ad = Landed(ad, id)
      BY <1>1, <1>5 DEF DecisionType, Decisions
    <3>2. DecisionType'
      BY <1>1, <1>5, <2>1 DEF DecisionType, Decisions
    <3> QED
      BY <1>1, <1>2, <2>2, <3>1, <3>2 DEF After, Before
  <2>4. TypeOK'
    <3>1. IsAdFile(ads')
      BY <1>1, <1>5, <2>1, WithIsAdFile DEF TypeOK, DecisionType, Decisions
    <3> QED
      BY <1>1, <1>2, <2>3, <3>1 DEF TypeOK, IsAdFile, DecisionType
  <2>5. RegistryAgrees'
    BY <1>1, <1>2, <2>2 DEF RegistryAgrees
  <2> QED
    BY <1>3, <2>3, <2>4, <2>5 DEF RegistryInv, CandidateInv
<1> QED
  BY <1>4, <1>5 DEF Click

LEMMA RegisterStep ==
  ASSUME CollectorAssumption, RegistryInv, Register
  PROVE  RegistryInv'
<1> DEFINE key == decision.key
           ad == decision.ad
<1>1. /\ TypeOK /\ RegistryAgrees /\ pc = "register" /\ DecisionType
      /\ key \in DOMAIN ads /\ ads[key] = ad
  BY DEF RegistryInv, Register, CandidateInv, InCandidate, After
<1>2. UNCHANGED <<stopReason, raising, scrolls, left, newAds, decision, adsJson, exit>>
  BY DEF Register
<1>3. ad.post \in Posts /\ ad.id \in Ids \cup {None}
  BY <1>1 DEF DecisionType, Decisions, AdsOf
<1>4. Budget'
  BY <1>1, <1>2, BudgetKept DEF RegistryInv, CandidateInv, InCandidate
<1>5. CASE ad.landing # "none" /\ ad.id \in seenIds
  <2>1. /\ ads' = Without(ads, {key}) /\ partial' = ads' /\ pc' = "row"
        /\ coarseKeys' = [coarseKeys EXCEPT ![ad.post] = @ \ {key}]
        /\ lazyKeys' = lazyKeys \ {key}
        /\ duplicates' = duplicates \cup {ad.post} /\ seenIds' = seenIds
    BY <1>5 DEF Register
  <2>2. /\ DOMAIN ads' = DOMAIN ads \ {key}
        /\ \A k \in DOMAIN ads' : ads'[k] = ads[k]
    BY <2>1 DEF Without
  <2>3. \A c \in Posts : coarseKeys'[c] = coarseKeys[c] \ {key}
    <3>1. \A c \in Posts : c # ad.post => key \notin coarseKeys[c]
      BY <1>1 DEF RegistryAgrees
    <3>2. \A c \in Posts : coarseKeys'[c] = IF c = ad.post THEN coarseKeys[c] \ {key}
                                           ELSE coarseKeys[c]
      BY <1>1, <2>1 DEF TypeOK
    <3> QED
      BY <3>1, <3>2
  <2>4. TypeOK'
    <3>1. IsAdFile(ads')
      BY <1>1, <2>1, WithoutIsAdFile DEF TypeOK
    <3> QED
      BY <1>1, <1>2, <1>3, <2>1, <3>1 DEF TypeOK, IsAdFile, DecisionType
  <2>5. RegistryAgrees'
    <3>1. \A k \in DOMAIN ads : ads[k].post \in Posts
      BY <1>1 DEF TypeOK, IsAdFile, AdsOf
    <3>2. /\ \A c \in Posts : coarseKeys[c] = {k \in DOMAIN ads : ads[k].post = c}
          /\ lazyKeys = {k \in DOMAIN ads : ads[k].image \in LazyImages}
          /\ \A k \in lazyKeys : coarseKeys[ads[k].post] = {k}
      BY <1>1 DEF RegistryAgrees
    <3>3. \A c \in Posts : coarseKeys'[c] = {k \in DOMAIN ads' : ads'[k].post = c}
      BY <2>2, <2>3, <3>2
    <3>4. lazyKeys' = {k \in DOMAIN ads' : ads'[k].image \in LazyImages}
      BY <2>1, <2>2, <3>2
    <3>5. ASSUME NEW k \in lazyKeys' PROVE coarseKeys'[ads'[k].post] = {k}
      <4>1. k \in lazyKeys /\ k \in DOMAIN ads /\ k # key /\ ads'[k] = ads[k]
        BY <2>1, <2>2, <3>2
      <4>2. coarseKeys'[ads[k].post] = {k} \ {key}
        BY <2>3, <3>1, <3>2, <4>1
      <4> QED
        BY <4>1, <4>2
    <3> QED
      BY <3>3, <3>4, <3>5 DEF RegistryAgrees
  <2> QED
    BY <1>4, <2>1, <2>4, <2>5 DEF RegistryInv, CandidateInv, InCandidate, Before, After
<1>6. CASE ~(ad.landing # "none" /\ ad.id \in seenIds)
  <2>1. /\ UNCHANGED <<duplicates, ads, coarseKeys, lazyKeys, partial>>
        /\ pc' = "permalink"
        /\ seenIds' = IF ad.landing # "none" /\ ad.id # None
                        THEN seenIds \cup {ad.id} ELSE seenIds
    BY <1>6 DEF Register
  <2>2. seenIds' \in SUBSET Ids
    BY <1>1, <1>3, <2>1 DEF TypeOK
  <2> QED
    BY <1>1, <1>2, <1>4, <2>1, <2>2
    DEF RegistryInv, TypeOK, RegistryAgrees, CandidateInv, InCandidate, DecisionType,
        Before, After, IsAdFile
<1> QED
  BY <1>5, <1>6

-----------------------------------------------------------------------------
(* The steps that leave it alone.                                          *)

\* No step but Consider enters a candidate, none but Commit stores one.
QuietPc ==
  \/ pc' = pc
  \/ ~InCandidate'
  \/ /\ pc \in {"video", "click", "register", "permalink"}
     /\ pc' \in {"video", "click", "register", "permalink"}

Quiet == UNCHANGED <<registryVars, decision>> /\ QuietPc

LEMMA QuietStep ==
  ASSUME CollectorAssumption, RegistryInv, Quiet, TypeOK', Budget'
  PROVE  RegistryInv'
BY DEF Quiet, QuietPc, RegistryInv, RegistryAgrees, CandidateInv, InCandidate,
       DecisionType, Before, After, registryVars

LEMMA LoopSteps ==
  ASSUME CollectorAssumption, RegistryInv, Prepare \/ View \/ Row \/ Scroll
  PROVE  RegistryInv'
<1>1. TypeOK /\ Budget
  BY DEF RegistryInv, CandidateInv
<1>2. CASE Prepare
  <2>1. TypeOK'
    BY <1>1, <1>2 DEF Prepare, TypeOK, IsAdFile, registryVars
  <2>2. Budget'
    BY <1>1, <1>2, BudgetKept DEF Prepare, InCandidate
  <2> QED
    BY <1>2, <2>1, <2>2, QuietStep DEF Prepare, Quiet, QuietPc, InCandidate
<1>3. CASE View
  <2>1. MaxRows \in Nat /\ newAds \in 0..MaxRows /\ left \in 0..MaxRows
    BY <1>1, Counters
  <2>2. newAds' \in 0..MaxRows /\ left' \in 0..MaxRows
    <3>1. \/ left' \in 0..MaxRows /\ newAds' = 0
          \/ left' = left /\ newAds' = newAds
      BY <1>3 DEF View
    <3> QED
      BY <2>1, <3>1
  <2>3. TypeOK'
    BY <1>1, <1>3, <2>2 DEF View, TypeOK, IsAdFile, registryVars
  <2>4. Budget'
    <3>1. CASE pc' = "finally"
      BY <3>1 DEF Budget, InCandidate
    <3>2. CASE pc' # "finally"
      <4>1. /\ pc' = "row" /\ newAds' = 0 /\ left' \in 0..MaxRows
            /\ scrolls < MaxScrolls /\ scrolls' = scrolls
        BY <1>3, <3>2 DEF View
      <4> QED
        <5>1. newAds' + left' <= MaxRows
          <6>1. newAds' = 0 /\ left' \in 0..MaxRows /\ MaxRows \in Nat
            BY <2>1, <4>1
          <6>2. newAds' + left' = 0 + left'
            BY <6>1, Zenon
          <6>3. 0 + left' <= MaxRows
            BY <6>1, ZeroPlus
          <6> QED
            BY <6>2, <6>3, Zenon
        <5> QED
          BY <4>1, <5>1 DEF Budget, InCandidate
    <3> QED
      BY <3>1, <3>2
  <2> QED
    BY <1>3, <2>3, <2>4, QuietStep DEF View, Quiet, QuietPc, InCandidate
<1>4. CASE Row
  <2>1. TypeOK'
    BY <1>1, <1>4 DEF Row, TypeOK, IsAdFile, registryVars
  <2>2. Budget'
    BY <1>1, <1>4, BudgetKept DEF Row, InCandidate
  <2> QED
    BY <1>4, <2>1, <2>2, QuietStep DEF Row, Quiet, QuietPc, InCandidate
<1>5. CASE Scroll
  <2>1. IsAdFile(ads) /\ IsAdFile(partial)
    BY <1>1 DEF TypeOK
  <2>2. partial' \in {ads, partial}
    BY <1>5 DEF Scroll
  <2>3. scrolls' \in 0..MaxScrolls
    <3>1. scrolls \in 0..MaxScrolls /\ scrolls < MaxScrolls /\ MaxScrolls \in Nat
      BY <1>1, <1>5 DEF TypeOK, Budget, Scroll, CollectorAssumption
    <3> QED
      BY <1>5, <3>1 DEF Scroll
  <2>4. TypeOK'
    BY <1>1, <1>5, <2>1, <2>2, <2>3 DEF Scroll, TypeOK, IsAdFile, registryVars
  <2>5. Budget'
    BY <1>5 DEF Scroll, Budget, InCandidate
  <2> QED
    BY <1>5, <2>4, <2>5, QuietStep DEF Scroll, Quiet, QuietPc, InCandidate
<1> QED
  BY <1>2, <1>3, <1>4, <1>5

LEMMA CandidateSteps ==
  ASSUME CollectorAssumption, RegistryInv, Video \/ SkipClick \/ Permalink
  PROVE  RegistryInv'
<1>1. TypeOK /\ Budget /\ IsAdFile(ads)
  BY DEF RegistryInv, CandidateInv, TypeOK
<1>2. CASE Video
  <2>1. TypeOK'
    BY <1>1, <1>2 DEF Video, TypeOK, IsAdFile, registryVars
  <2>2. Budget'
    BY <1>1, <1>2, BudgetKept DEF Video, InCandidate
  <2> QED
    BY <1>2, <2>1, <2>2, QuietStep DEF Video, Quiet, QuietPc, InCandidate
<1>3. CASE SkipClick
  <2>1. TypeOK'
    BY <1>1, <1>3 DEF SkipClick, TypeOK, IsAdFile, registryVars
  <2>2. Budget'
    BY <1>1, <1>3, BudgetKept DEF SkipClick, InCandidate
  <2> QED
    BY <1>3, <2>1, <2>2, QuietStep DEF SkipClick, Quiet, QuietPc, InCandidate
<1>4. CASE Permalink
  <2>1. /\ pc = "permalink" /\ pc' = "row" /\ newAds' = newAds + 1
        /\ UNCHANGED <<scrolls, left>>
    BY <1>4 DEF Permalink
  <2>2. /\ scrolls < MaxScrolls /\ newAds + left < MaxRows
        /\ newAds \in 0..MaxRows /\ left \in 0..MaxRows /\ MaxRows \in Nat
    BY <1>1, <2>1 DEF TypeOK, Budget, InCandidate, CollectorAssumption
  <2>3. newAds' \in 0..MaxRows /\ newAds' + left <= MaxRows
    BY <2>1, <2>2
  <2>4. TypeOK'
    BY <1>1, <1>4, <2>3 DEF Permalink, TypeOK, IsAdFile, registryVars
  <2>5. Budget'
    BY <2>1, <2>2, <2>3 DEF Budget, InCandidate
  <2> QED
    BY <1>4, <2>4, <2>5, QuietStep DEF Permalink, Quiet, QuietPc, InCandidate
<1> QED
  BY <1>2, <1>3, <1>4

LEMMA LastSteps ==
  ASSUME CollectorAssumption, RegistryInv,
         Interrupt \/ BrowserFails \/ Finally \/ Summary \/ Die
  PROVE  RegistryInv'
<1>1. TypeOK /\ Budget /\ IsAdFile(ads)
  BY DEF RegistryInv, CandidateInv, TypeOK
<1>2. /\ pc' \in {"finally", "summary", "ended"}
      /\ UNCHANGED <<stopReason, scrolls, left, newAds, registryVars, decision>>
  BY DEF Interrupt, BrowserFails, Finally, Summary, Die
<1>3. /\ raising' \in {raising, TRUE} /\ partial' \in {ads, partial}
      /\ adsJson' \in {ads, adsJson} /\ exit' \in {exit, "error", "ok", "dead"}
  BY DEF Interrupt, BrowserFails, Finally, Summary, Die
<1>4. TypeOK'
  <2>1. IsAdFile(ads') /\ IsAdFile(partial') /\ IsAdFile(adsJson')
    BY <1>1, <1>2, <1>3 DEF TypeOK, IsAdFile, registryVars
  <2>2. raising' \in BOOLEAN /\ exit' \in {"none", "ok", "error", "dead"}
    BY <1>1, <1>3 DEF TypeOK
  <2> QED
    BY <1>1, <1>2, <2>1, <2>2 DEF TypeOK, registryVars
<1>5. Budget'
  BY <1>1, <1>2, BudgetKept DEF InCandidate
<1> QED
  BY <1>2, <1>4, <1>5, QuietStep DEF Quiet, QuietPc, InCandidate

LEMMA RegistryStep ==
  CollectorAssumption /\ RegistryInv /\ [Next]_vars => RegistryInv'
<1> SUFFICES ASSUME CollectorAssumption, RegistryInv, [Next]_vars PROVE RegistryInv'
  OBVIOUS
<1>1. CASE UNCHANGED vars
  <2>1. TypeOK'
    BY <1>1 DEF vars, registryVars, RegistryInv, TypeOK, IsAdFile
  <2>2. Budget'
    BY <1>1 DEF vars, RegistryInv, CandidateInv, Budget, InCandidate
  <2> QED
    BY <1>1, <2>1, <2>2, QuietStep DEF vars, Quiet, QuietPc, registryVars
<1>2. CASE \E row \in Rows : Consider(row)
  BY <1>2, ConsiderStep
<1>3. CASE \E id \in Ids \cup {None} : Click(id)
  BY <1>3, ClickStep
<1> QED
  BY <1>1, <1>2, <1>3, CommitStep, RegisterStep, LoopSteps, CandidateSteps, LastSteps
  DEF Next

LEMMA RegistryInit == CollectorAssumption /\ Init => RegistryInv
<1> SUFFICES ASSUME CollectorAssumption, Init PROVE RegistryInv
  OBVIOUS
<1>1. DOMAIN NoAds = {} /\ DOMAIN NoFile = {}
  BY DEF NoAds, NoFile
<1>2. TypeOK
  <2>1. IsAdFile(ads) /\ IsAdFile(partial) /\ IsAdFile(adsJson)
    BY <1>1 DEF Init, IsAdFile
  <2>2. 0 \in 0..MaxScrolls /\ 0 \in 0..MaxRows
    BY DEF CollectorAssumption
  <2> QED
    BY <2>1, <2>2 DEF Init, TypeOK
<1>3. RegistryAgrees
  BY <1>1 DEF Init, RegistryAgrees
<1> QED
  BY <1>2, <1>3
  DEF Init, RegistryInv, CandidateInv, InCandidate, Before, After, Budget

\* The invariant the theorems below share.
LEMMA RegistryInvariant == Spec => []RegistryInv
  BY RegistryInit, RegistryStep, CollectorAssumption, PTL DEF Spec

\* Every variable of the collector keeps its type, the scroll budget included.
THEOREM CollectorTypeCorrect == Spec => []TypeOK
<1>1. RegistryInv => TypeOK
  BY DEF RegistryInv
<1> QED
  BY <1>1, RegistryInvariant, PTL

\* CandidateRegistry: the indexes agree with the stored ads, and a thumbnail
\* never stays beside another creative of its post.
THEOREM RegistryIndexesAgree == Spec => []RegistryAgrees
<1>1. RegistryInv => RegistryAgrees
  BY DEF RegistryInv
<1> QED
  BY <1>1, RegistryInvariant, PTL

-----------------------------------------------------------------------------
(* One stored ad for each id that was clicked through to.                  *)

Owned(k) == ads[k].landing = "own" /\ ads[k].id # None

\* The click of this candidate may not have been registered.
Unregistered == pc \in {"register", "finally", "summary", "ended"}

ClickInv ==
  /\ \A k \in DOMAIN ads :
       Owned(k) => ads[k].id \in seenIds \/ (Unregistered /\ k = decision.key)
  /\ \A j, k \in DOMAIN ads :
       j # k /\ Owned(j) /\ Owned(k) /\ ads[j].id = ads[k].id
       => Unregistered /\ (j = decision.key \/ k = decision.key)

\* Ads were only removed, none was changed, and what is known of ids stays.
Fewer ==
  /\ DOMAIN ads' \subseteq DOMAIN ads
  /\ \A k \in DOMAIN ads' : ads'[k] = ads[k]
  /\ seenIds \subseteq seenIds'

LEMMA FewerKeepsClickInv ==
  ASSUME ClickInv, Fewer, ~Unregistered \/ (Unregistered' /\ decision' = decision)
  PROVE  ClickInv'
BY DEF ClickInv, Fewer, Owned

LEMMA ClickInvOfConsider ==
  ASSUME ClickInv, NEW row \in Rows, Consider(row)
  PROVE  ClickInv'
<1>1. ~Unregistered
  BY DEF Consider, Unregistered
<1>2. ads' = ads \/ ads' = Without(ads, LazySiblings(row))
  BY DEF Consider
<1>3. Fewer
  BY <1>2 DEF Fewer, Without, Consider
<1> QED
  BY <1>1, <1>3, FewerKeepsClickInv

LEMMA ClickInvOfCommit ==
  ASSUME RegistryInv, ClickInv, Commit
  PROVE  ClickInv'
<1>1. ~Unregistered /\ decision.key \notin DOMAIN ads /\ decision.ad.landing # "own"
  BY DEF Commit, Unregistered, RegistryInv, CandidateInv, Before
<1>2. /\ DOMAIN ads' = DOMAIN ads \cup {decision.key}
      /\ ads'[decision.key] = decision.ad
      /\ \A k \in DOMAIN ads : ads'[k] = ads[k]
      /\ seenIds' = seenIds
  BY <1>1 DEF Commit, With
<1> QED
  BY <1>1, <1>2 DEF ClickInv, Owned

LEMMA ClickInvOfClick ==
  ASSUME RegistryInv, ClickInv, NEW id \in Ids \cup {None}, Click(id)
  PROVE  ClickInv'
<1>1. ~Unregistered /\ Unregistered' /\ decision.key \in DOMAIN ads
  BY DEF Click, Unregistered, RegistryInv, CandidateInv, After
<1>2. decision'.key = decision.key /\ seenIds' = seenIds
  <2>1. \/ decision' = decision
        \/ decision' = [decision EXCEPT !.landed = TRUE, !.ad = Landed(@, id)]
    BY DEF Click
  <2>2. decision \in Decisions
    BY DEF Click, RegistryInv, CandidateInv, InCandidate, DecisionType
  <2>3. seenIds' = seenIds
    BY DEF Click
  <2> QED
    BY <2>1, <2>2, <2>3 DEF Decisions
<1>3. /\ DOMAIN ads' = DOMAIN ads
      /\ \A k \in DOMAIN ads : k # decision.key => ads'[k] = ads[k]
  BY <1>1 DEF Click, With
<1> QED
  BY <1>1, <1>2, <1>3 DEF ClickInv, Owned

LEMMA ClickInvOfRegister ==
  ASSUME RegistryInv, ClickInv, Register
  PROVE  ClickInv'
<1> DEFINE key == decision.key
           ad == decision.ad
<1>1. pc = "register" /\ key \in DOMAIN ads /\ ads[key] = ad
  BY DEF Register, RegistryInv, CandidateInv, After
<1>2. CASE ad.landing # "none" /\ ad.id \in seenIds
  <2>1. /\ DOMAIN ads' = DOMAIN ads \ {key}
        /\ \A k \in DOMAIN ads' : ads'[k] = ads[k]
        /\ seenIds' = seenIds
    BY <1>2 DEF Register, Without
  <2> QED
    BY <2>1 DEF ClickInv, Owned
<1>3. CASE ~(ad.landing # "none" /\ ad.id \in seenIds)
  <2>1. /\ ads' = ads
        /\ seenIds' = IF ad.landing # "none" /\ ad.id # None
                        THEN seenIds \cup {ad.id} ELSE seenIds
    BY <1>3 DEF Register
  <2>2. Owned(key) => ad.id \notin seenIds /\ ad.id \in seenIds'
    BY <1>1, <1>3, <2>1 DEF Owned
  <2>3. \A k \in DOMAIN ads : k # key /\ Owned(k) => ads[k].id \in seenIds
    BY DEF ClickInv
  <2>4. \A k \in DOMAIN ads : Owned(k) => ads[k].id \in seenIds'
    BY <1>1, <2>1, <2>2, <2>3
  <2>5. \A j, k \in DOMAIN ads :
          j # k /\ Owned(j) /\ Owned(k) => ads[j].id # ads[k].id
    BY <1>1, <2>2, <2>3 DEF ClickInv
  <2> QED
    BY <2>1, <2>4, <2>5 DEF ClickInv, Owned
<1> QED
  BY <1>2, <1>3

LEMMA ClickInvOfTheRest ==
  ASSUME ClickInv,
         \/ UNCHANGED vars
         \/ Prepare \/ View \/ Row \/ Scroll \/ Video \/ SkipClick \/ Permalink
         \/ Interrupt \/ BrowserFails \/ Finally \/ Summary \/ Die
  PROVE  ClickInv'
<1>1. UNCHANGED <<ads, seenIds, decision>>
  BY DEF vars, registryVars, Prepare, View, Row, Scroll, Video, SkipClick, Permalink,
         Interrupt, BrowserFails, Finally, Summary, Die
<1>2. Unregistered => Unregistered'
  BY DEF vars, Unregistered, Prepare, View, Row, Scroll, Video, SkipClick, Permalink,
         Interrupt, BrowserFails, Finally, Summary, Die
<1>3. Fewer
  BY <1>1 DEF Fewer
<1> QED
  BY <1>1, <1>2, <1>3, FewerKeepsClickInv

\* register_resolved: two stored ads were never clicked through to one id,
\* unless the second click was cut short before its registration.
THEOREM AdsAreClickedOnce == Spec => []ClickedOnce
<1>1. Init => ClickInv
  BY DEF Init, ClickInv, NoAds
<1>2. RegistryInv /\ ClickInv /\ [Next]_vars => ClickInv'
  <2> SUFFICES ASSUME RegistryInv, ClickInv, [Next]_vars PROVE ClickInv'
    OBVIOUS
  <2>1. CASE \E row \in Rows : Consider(row)
    BY <2>1, ClickInvOfConsider
  <2>2. CASE \E id \in Ids \cup {None} : Click(id)
    BY <2>2, ClickInvOfClick
  <2> QED
    BY <2>1, <2>2, ClickInvOfCommit, ClickInvOfRegister, ClickInvOfTheRest DEF Next
<1>3. ClickInv => ClickedOnce
  BY DEF ClickInv, ClickedOnce, Owned, Unregistered
<1> QED
  BY <1>1, <1>2, <1>3, RegistryInvariant, PTL DEF Spec

-----------------------------------------------------------------------------
(* The files.                                                              *)

FileInv ==
  /\ pc = "click" => decision.key \in DOMAIN partial
  /\ pc = "summary" => partial = ads
  /\ exit # "none" => pc = "ended"
  /\ exit \in {"ok", "error"} => partial = ads
  /\ exit = "ok" => adsJson = ads

LEMMA FileStep ==
  ASSUME RegistryInv, FileInv, Next
  PROVE  FileInv'
<1>1. exit = "none" \/ pc = "ended"
  BY DEF FileInv
<1>2. CASE Video
  <2>1. decision.key \in DOMAIN ads
    BY <1>2 DEF Video, RegistryInv, CandidateInv, After
  <2> QED
    BY <1>1, <1>2, <2>1 DEF Video, FileInv, registryVars
<1>3. CASE Prepare \/ View \/ Row \/ Scroll
  BY <1>1, <1>3 DEF Prepare, View, Row, Scroll, FileInv
<1>4. CASE \E row \in Rows : Consider(row)
  BY <1>1, <1>4 DEF Consider, FileInv
<1>5. CASE Commit \/ SkipClick \/ Register \/ Permalink
  BY <1>1, <1>5 DEF Commit, SkipClick, Register, Permalink, FileInv
<1>6. CASE \E id \in Ids \cup {None} : Click(id)
  BY <1>1, <1>6 DEF Click, FileInv
<1>7. CASE Interrupt \/ BrowserFails
  BY <1>1, <1>7 DEF InLoop, Interrupt, BrowserFails, FileInv
<1>8. CASE Finally
  BY <1>1, <1>8 DEF Finally, FileInv, registryVars
<1>9. CASE Summary
  BY <1>1, <1>9 DEF Summary, FileInv, registryVars
<1>10. CASE Die
  BY <1>1, <1>10 DEF Die, FileInv, registryVars
<1> QED
  BY <1>2, <1>3, <1>4, <1>5, <1>6, <1>7, <1>8, <1>9, <1>10 DEF Next

\* write_ads before the click and in the finally block: an ad is on disk while
\* its CTA is clicked, and the files of a process that ended by itself hold all
\* it had stored.
THEOREM FilesHoldTheAds == Spec => []FilesAgree
<1>1. Init => FileInv
  BY DEF Init, FileInv
<1>2. RegistryInv /\ FileInv /\ [Next]_vars => FileInv'
  <2>1. FileInv /\ UNCHANGED vars => FileInv'
    BY DEF FileInv, vars, registryVars
  <2> QED
    BY <2>1, FileStep
<1>3. FileInv => FilesAgree
  BY DEF FileInv, FilesAgree
<1> QED
  BY <1>1, <1>2, <1>3, RegistryInvariant, PTL DEF Spec
=============================================================================
