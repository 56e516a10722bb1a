--------------------------- MODULE CalibrationProofs ---------------------------
(***************************************************************************)
(* What holds of the calibrations of a profile.  Of the process that       *)
(* calibrates (CalibrationSession), for every batch of targets, every      *)
(* command line and whatever the pages show: it submits once, knows its    *)
(* tabs, takes no like back and ends early with its goals only.  Of the    *)
(* decision to calibrate (FeedHealth), for every set of collections and    *)
(* every policy: it rests on comparable windows.                           *)
(***************************************************************************)
EXTENDS CalibrationSession, FeedHealth, FiniteSetTheorems, WellFoundedInduction, TLAPS

Pages == {"offer", "source", "closed"}
RunSteps == {"idle", "landing", "direct", "redirected", "offer", "form", "sent",
             "raised", "done"}
Browsing == {"offer", "redirected", "form", "sent"}

-----------------------------------------------------------------------------
(* The tabs.                                                               *)

LEMMA LiveIsNat ==
  ASSUME NEW s \in Seq(Pages)
  PROVE  /\ IsFiniteSet({i \in DOMAIN s : s[i] = "offer"}) /\ Live(s) \in Nat
<1> DEFINE L == {i \in DOMAIN s : s[i] = "offer"}
<1>1. Len(s) \in Nat /\ DOMAIN s = 1..Len(s)
  OBVIOUS
<1>2. IsFiniteSet(1..Len(s))
  BY <1>1, FS_Interval
<1>3. L \in SUBSET (1..Len(s))
  BY <1>1
<1>4. IsFiniteSet(L)
  BY <1>2, <1>3, FS_Subset
<1>5. Cardinality(L) \in Nat
  BY <1>4, FS_CardinalityType
<1> QED
  BY <1>4, <1>5 DEF Live

LEMMA NoneLive == Live(<<>>) = 0
<1>1. {i \in DOMAIN <<>> : <<>>[i] = "offer"} = {}
  OBVIOUS
<1> QED
  BY <1>1, FS_EmptySet DEF Live

\* What a run adds to the retained pages: perhaps the page of the post, and its tabs.
LEMMA LiveAdded ==
  ASSUME NEW s \in Seq(Pages), NEW src \in {<<>>, <<"source">>}, NEW n \in Nat
  PROVE  /\ s \o src \o [i \in 1..n |-> "offer"] \in Seq(Pages)
         /\ Live(s \o src \o [i \in 1..n |-> "offer"]) = Live(s) + n
<1> DEFINE t == s \o src
           all == t \o [i \in 1..n |-> "offer"]
           old == {i \in DOMAIN s : s[i] = "offer"}
           new == (Len(t) + 1)..(Len(t) + n)
<1>1. /\ t \in Seq(Pages) /\ Len(t) \in Nat /\ Len(s) \in Nat
      /\ Len(s) <= Len(t) /\ \A i \in 1..Len(s) : t[i] = s[i]
      /\ \A i \in 1..Len(t) : t[i] = "offer" => i <= Len(s)
  <2>1. CASE src = <<>>
    BY <2>1 DEF Pages
  <2>2. CASE src = <<"source">>
    <3>1. /\ t \in Seq(Pages) /\ Len(t) = Len(s) + 1 /\ Len(s) \in Nat
          /\ \A i \in 1..Len(s) : t[i] = s[i]
      BY <2>2 DEF Pages
    <3>2. t[Len(s) + 1] = "source"
      BY <2>2
    <3> QED
      BY <3>1, <3>2
  <2> QED
    BY <2>1, <2>2
<1> HIDE DEF t
<1>2. [i \in 1..n |-> "offer"] \in Seq(Pages) /\ Len([i \in 1..n |-> "offer"]) = n
  BY DEF Pages
<1>3. /\ all \in Seq(Pages) /\ Len(all) = Len(t) + n
      /\ \A i \in 1..Len(t) : all[i] = t[i]
      /\ \A i \in new : all[i] = "offer"
  BY <1>1, <1>2 DEF Pages
<1> HIDE DEF all
<1>4. {i \in DOMAIN all : all[i] = "offer"} = old \cup new
  <2>1. DOMAIN all = 1..(Len(t) + n) /\ DOMAIN s = 1..Len(s)
    BY <1>1, <1>3
  <2> SUFFICES ASSUME NEW i
               PROVE i \in DOMAIN all /\ all[i] = "offer" <=> i \in old \cup new
    OBVIOUS
  <2>2. CASE i \in 1..Len(s)
    BY <1>1, <1>3, <2>1, <2>2
  <2>3. CASE i \in 1..Len(t) /\ i \notin 1..Len(s)
    BY <1>1, <1>3, <2>1, <2>3
  <2>4. CASE i \in new
    BY <1>1, <1>3, <2>1, <2>4
  <2>5. CASE i \notin 1..Len(t) /\ i \notin new
    BY <1>1, <2>1, <2>5
  <2> QED
    BY <2>2, <2>3, <2>4, <2>5
<1>5. old \cap new = {}
  BY <1>1
<1>6. IsFiniteSet(old) /\ Cardinality(old) = Live(s) /\ Live(s) \in Nat
  BY LiveIsNat DEF Live
<1>7. IsFiniteSet(new) /\ Cardinality(new) = n
  <2>1. /\ Len(t) + 1 \in Int /\ Len(t) + n \in Int
        /\ (Len(t) + n) - (Len(t) + 1) + 1 = n
        /\ Len(t) + 1 > Len(t) + n => n = 0
    BY <1>1
  <2> QED
    BY <2>1, FS_Interval
<1> HIDE DEF old, new
<1>8. Cardinality(old \cup new) = Cardinality(old) + Cardinality(new) - Cardinality({})
  BY <1>5, <1>6, <1>7, FS_Union
<1>9. Live(all) = Live(s) + n
  <2>1. Cardinality(old \cup new) = Live(s) + n
    <3>1. Cardinality({}) = 0
      BY FS_EmptySet
    <3> QED
      BY <1>6, <1>7, <1>8, <3>1
  <2> QED
    BY <1>4, <2>1 DEF Live
<1> QED
  BY <1>3, <1>9 DEF all, t

LEMMA KeptPages ==
  ASSUME NEW s \in Seq(Pages)
  PROVE  Kept(s) \in Seq(Pages)
<1>1. MaxTabs \in Nat \ {0}
  BY FunnelAssumption
<1>2. CASE Len(s) > MaxTabs
  <2>1. /\ Len(s) \in Nat /\ Len(s) - MaxTabs + 1 \in 1..Len(s)
        /\ \A i \in 1..Len(s) : s[i] \in Pages
    BY <1>1, <1>2
  <2>2. SubSeq(s, Len(s) - MaxTabs + 1, Len(s)) \in Seq(Pages)
    BY <2>1
  <2> QED
    BY <1>2, <2>2 DEF Kept
<1>3. CASE ~(Len(s) > MaxTabs)
  BY <1>3 DEF Kept
<1> QED
  BY <1>2, <1>3

\* Closing the page of the post touches no offer.
LEMMA SourceClosed ==
  ASSUME retained \in Seq(Pages), CloseSource
  PROVE  retained' \in Seq(Pages) /\ Live(retained') = Live(retained)
<1>1. /\ Len(retained) \in Nat /\ DOMAIN retained = 1..Len(retained)
      /\ \A i \in DOMAIN retained : retained[i] \in Pages
  OBVIOUS
<1>2. /\ DOMAIN retained' = DOMAIN retained
      /\ \A i \in DOMAIN retained :
           retained'[i] = IF retained[i] = "source" THEN "closed" ELSE retained[i]
  BY DEF CloseSource
<1>3. retained' = [i \in 1..Len(retained) |->
                     IF retained[i] = "source" THEN "closed" ELSE retained[i]]
  BY <1>1 DEF CloseSource
<1>4. retained' \in Seq(Pages)
  BY <1>1, <1>3 DEF Pages
<1>5. {i \in DOMAIN retained' : retained'[i] = "offer"}
        = {i \in DOMAIN retained : retained[i] = "offer"}
  BY <1>2
<1> QED
  BY <1>4, <1>5 DEF Live
-----------------------------------------------------------------------------
(* The offer tabs are tracked.                                             *)

\* A run is in progress in the funnel only, and begins without tabs of its own.
StepInv ==
  /\ pc \in {"idle", "check", "open", "locate", "engage", "funnel", "judge", "health",
             "after"}
  /\ fpc \in RunSteps
  /\ pc # "funnel" => fpc = "idle"
  /\ opened \in Nat
  /\ fpc \in {"landing", "direct"} => opened = 0

Tracked(inRun) == tabs = Live(retained) + inRun + lost
InRun == IF fpc \in Browsing THEN opened ELSE 0

TabTypes == retained \in Seq(Pages) /\ tabs \in Int /\ lost \in Int

TabInv ==
  /\ StepInv /\ TabTypes
  /\ IF pc = "idle" THEN tabs = lost ELSE Tracked(InRun)

LEMMA TabsOfReturn ==
  ASSUME StepInv, TabTypes, Tracked(opened), NEW status, NEW n \in Nat, NEW strays \in Nat,
         ReturnLeaving(status, n, strays)
  PROVE  /\ fpc' = "done" /\ opened' \in Nat /\ TabTypes' /\ Tracked(0)'
<1>1. /\ fpc' = "done" /\ opened' = n /\ lost' = lost + strays
      /\ lost \in Int /\ tabs \in Int /\ opened \in Nat /\ retained \in Seq(Pages)
  BY DEF ReturnLeaving, StepInv, TabTypes
<1>2. tabs = Live(retained) + opened + lost /\ Live(retained) \in Nat
  BY <1>1, LiveIsNat DEF Tracked
<1>3. CASE status \in Success
  <2> DEFINE src == IF own /\ n = opened THEN <<"source">> ELSE <<>>
             pages == retained \o src \o [i \in 1..n |-> "offer"]
  <2>1. /\ retained' = Kept(pages)
        /\ tabs' = tabs + (n - opened) + strays - (Live(pages) - Live(Kept(pages)))
    BY <1>3 DEF ReturnLeaving, Retain
  <2>2. src \in {<<>>, <<"source">>}
    OBVIOUS
  <2> HIDE DEF src
  <2>3. pages \in Seq(Pages) /\ Live(pages) = Live(retained) + n
    BY <1>1, <2>2, LiveAdded
  <2> HIDE DEF pages
  <2>4. Kept(pages) \in Seq(Pages) /\ Live(Kept(pages)) \in Nat
    BY <2>3, KeptPages, LiveIsNat
  <2> DEFINE old == Live(retained)
             new == Live(Kept(pages))
  <2>5. /\ old \in Nat /\ new \in Nat /\ tabs = old + opened + lost
        /\ tabs' = tabs + (n - opened) + strays - ((old + n) - new)
    BY <1>2, <2>1, <2>3, <2>4
  <2> HIDE DEF old, new
  <2>6. tabs' = new + 0 + lost' /\ tabs' \in Int /\ lost' \in Int
    BY <1>1, <2>5
  <2> QED
    BY <1>1, <2>1, <2>4, <2>6 DEF TabTypes, Tracked, new
<1>4. CASE status \notin Success
  <2>1. retained' = retained /\ tabs' = tabs - opened + strays
    BY <1>4 DEF ReturnLeaving, Release
  <2> DEFINE old == Live(retained)
  <2>2. old \in Nat /\ tabs = old + opened + lost
    BY <1>2
  <2> HIDE DEF old
  <2>3. tabs' = old + 0 + lost' /\ tabs' \in Int /\ lost' \in Int
    BY <1>1, <2>1, <2>2, SMTT(30)
  <2> QED
    BY <1>1, <2>1, <2>3 DEF TabTypes, Tracked, old
<1> QED
  BY <1>3, <1>4

LEMMA TabsOfRaise ==
  ASSUME StepInv, TabTypes, Tracked(opened), NEW popups \in Nat, Raise(popups)
  PROVE  /\ fpc' = "raised" /\ opened' \in Nat /\ TabTypes' /\ Tracked(0)'
<1>1. /\ tabs \in Int /\ lost \in Int /\ opened \in Nat /\ Live(retained) \in Nat
      /\ tabs = Live(retained) + opened + lost
  BY LiveIsNat DEF StepInv, TabTypes, Tracked
<1>2. /\ fpc' = "raised" /\ tabs' = tabs + popups /\ lost' = lost + opened + popups
      /\ opened' = opened /\ retained' = retained
  BY DEF Raise
<1>3. tabs' = Live(retained) + 0 + lost' /\ tabs' \in Int /\ lost' \in Int
  BY <1>1, <1>2
<1> QED
  BY <1>1, <1>2, <1>3 DEF TabTypes, Tracked

\* Every step of a run moves the tabs it opens with it.
LEMMA TabsOfRun ==
  ASSUME TabInv, pc = "funnel", NEW t, NEW c, FunnelStep(t, c)
  PROVE  /\ fpc' \in RunSteps /\ opened' \in Nat
         /\ fpc' \in {"landing", "direct"} => opened' = 0
         /\ TabTypes' /\ Tracked(InRun)'
<1>0. StepInv /\ TabTypes /\ Tracked(InRun)
  BY DEF TabInv
<1>t. /\ tabs \in Int /\ lost \in Int /\ opened \in Nat /\ Live(retained) \in Nat
      /\ tabs = Live(retained) + InRun + lost
  BY <1>0, LiveIsNat DEF StepInv, TabTypes, Tracked
<1>a. ASSUME fpc \in Browsing \cup {"landing"}
      PROVE  Tracked(opened)
  <2>1. InRun = opened
    BY <1>0, <1>a DEF InRun, Browsing, StepInv
  <2> QED
    BY <1>0, <2>1 DEF Tracked
<1>b. ASSUME fpc \in Browsing, NEW status, NEW n \in Nat, NEW strays \in Nat,
             ReturnLeaving(status, n, strays)
      PROVE  /\ fpc' \in RunSteps /\ opened' \in Nat
             /\ fpc' \in {"landing", "direct"} => opened' = 0
             /\ TabTypes' /\ Tracked(InRun)'
  <2>1. fpc' = "done" /\ opened' \in Nat /\ TabTypes' /\ Tracked(0)'
    BY <1>0, <1>a, <1>b, TabsOfReturn
  <2>2. InRun' = 0
    BY <2>1 DEF InRun, Browsing
  <2> QED
    BY <2>1, <2>2 DEF Tracked, RunSteps
<1>c. ASSUME fpc \in Browsing \cup {"landing"}, NEW popups \in Nat, Raise(popups)
      PROVE  /\ fpc' \in RunSteps /\ opened' \in Nat
             /\ fpc' \in {"landing", "direct"} => opened' = 0
             /\ TabTypes' /\ Tracked(InRun)'
  <2>1. fpc' = "raised" /\ opened' \in Nat /\ TabTypes' /\ Tracked(0)'
    BY <1>0, <1>a, <1>c, TabsOfRaise
  <2>2. InRun' = 0
    BY <2>1 DEF InRun, Browsing
  <2> QED
    BY <2>1, <2>2 DEF Tracked, RunSteps
<1>d. ASSUME NEW more \in Nat, NEW inRun \in Nat, InRun' = inRun, inRun = InRun + more,
             tabs' = tabs + more, lost' = lost, retained' = retained
      PROVE  TabTypes' /\ Tracked(InRun)'
  <2>1. InRun \in Nat
    BY <1>t DEF InRun
  <2>2. tabs' = Live(retained) + inRun + lost /\ tabs' \in Int
    BY <1>t, <1>d, <2>1
  <2> QED
    BY <1>0, <1>d, <2>2 DEF TabTypes, Tracked
<1>1. CASE CtaLands(t)
  <2>1. PICK n \in {0, 1} : opened' = n /\ tabs' = tabs + n
    BY <1>1 DEF CtaLands
  <2>2. /\ fpc = "landing" /\ fpc' = "offer" /\ retained' = retained /\ lost' = lost
    BY <1>1 DEF CtaLands
  <2>3. InRun = 0 /\ InRun' = n /\ n \in Nat /\ n = 0 + n
    BY <2>1, <2>2 DEF InRun, Browsing
  <2> QED
    BY <1>d, <2>1, <2>2, <2>3 DEF RunSteps
<1>2. CASE CtaRaises
  BY <1>2, <1>c DEF CtaRaises, Popups
<1>3. CASE CtaNotFound(c.fallback) \/ CtaMismatch(c.fallback) \/ DirectFails(t, c.fallback)
  <2>1. /\ fpc \in {"landing", "direct"} /\ fpc' \in {"direct", "done"}
        /\ opened' = opened /\ tabs' = tabs /\ retained' = retained /\ lost' = lost
    BY <1>3 DEF CtaNotFound, CtaMismatch, DirectFails, FallBack, tabVars
  <2>2. opened = 0 /\ InRun = 0 /\ InRun' = 0
    BY <1>0, <2>1 DEF InRun, Browsing, StepInv
  <2>3. Tracked(InRun)' /\ TabTypes'
    BY <1>0, <2>1, <2>2 DEF Tracked, TabTypes
  <2> QED
    BY <2>1, <2>2, <2>3 DEF RunSteps
<1>4. CASE DirectOpens(t, c.fallback)
  <2>1. /\ fpc = "direct" /\ fpc' \in {"offer", "redirected"} /\ opened' = 1
        /\ tabs' = tabs + 1 /\ retained' = retained /\ lost' = lost
    BY <1>4 DEF DirectOpens
  <2>2. InRun = 0 /\ InRun' = 1
    BY <2>1 DEF InRun, Browsing
  <2> QED
    BY <1>d, <2>1, <2>2 DEF RunSteps
<1>5. CASE Redirected \/ Viewed
  <2>1. fpc \in Browsing /\ \E n \in Nat : \E status : ReturnLeaving(status, n, 0)
    BY <1>5, <1>t DEF Redirected, Viewed, Browsing, Return
  <2> QED
    BY <1>b, <2>1
<1>6. CASE Engaged
  <2>1. PICK popup \in {0, 1} : ReturnLeaving("offer_engaged", opened + popup, 0)
    BY <1>6 DEF Engaged, Popups, Return
  <2>2. opened + popup \in Nat /\ fpc \in Browsing
    BY <1>6, <1>t DEF Engaged, Browsing
  <2> QED
    BY <1>b, <2>1, <2>2
<1>7. CASE FindForm
  <2>1. PICK popup \in {0, 1} : opened' = opened + popup /\ tabs' = tabs + popup
    BY <1>7 DEF FindForm, Popups
  <2>2. fpc = "offer" /\ fpc' = "form" /\ retained' = retained /\ lost' = lost
    BY <1>7 DEF FindForm
  <2>3. InRun = opened /\ InRun' = opened' /\ opened' \in Nat /\ popup \in Nat
    BY <1>t, <2>1, <2>2 DEF InRun, Browsing
  <2> QED
    BY <1>d, <2>1, <2>2, <2>3 DEF RunSteps
<1>8. CASE RefuseForm(t, c.submit, c.complete)
  <2>1. fpc \in Browsing /\ \E status : ReturnLeaving(status, opened, 0)
    BY <1>8 DEF RefuseForm, Browsing, Return
  <2> QED
    BY <1>b, <1>t, <2>1
<1>9. CASE ClickSubmit(t, c.submit, c.complete)
  <2>1. CASE ReturnLeaving(FunnelStatus("submit_failed"), opened, 0)
    <3>1. fpc \in Browsing
      BY <1>9 DEF ClickSubmit, Browsing
    <3> QED
      BY <1>b, <1>t, <2>1, <3>1
  <2>2. CASE fpc' = "sent" /\ UNCHANGED <<opened, tabVars>>
    <3>1. fpc = "form" /\ opened' = opened /\ tabs' = tabs + 0 /\ lost' = lost
          /\ retained' = retained
      BY <1>9, <1>t, <2>2 DEF ClickSubmit, tabVars
    <3>2. InRun = opened /\ InRun' = opened /\ opened = opened + 0
      BY <1>t, <2>2, <3>1 DEF InRun, Browsing
    <3> QED
      BY <1>d, <1>t, <2>2, <3>1, <3>2 DEF RunSteps
  <2> QED
    BY <1>9, <2>1, <2>2 DEF ClickSubmit, Return
<1>10. CASE Answer(t)
  <2>1. fpc \in Browsing
    BY <1>10 DEF Answer, Browsing
  <2>2. CASE \E popup \in Popups : Return("success_confirmed", opened + popup)
    <3>1. PICK popup \in {0, 1} : ReturnLeaving("success_confirmed", opened + popup, 0)
      BY <2>2 DEF Popups, Return
    <3>2. opened + popup \in Nat
      BY <1>t
    <3> QED
      BY <1>b, <2>1, <3>1, <3>2
  <2>3. CASE \E popup \in Popups :
               ReturnLeaving("form_submitted_unconfirmed", opened, popup)
    <3>1. PICK popup \in {0, 1} : ReturnLeaving("form_submitted_unconfirmed", opened, popup)
      BY <2>3 DEF Popups
    <3>2. popup \in Nat
      OBVIOUS
    <3> QED
      BY <1>b, <1>t, <2>1, <3>1, <3>2
  <2> QED
    BY <1>10, <2>2, <2>3 DEF Answer
<1>11. CASE AnswerRaises(t)
  BY <1>11, <1>c DEF AnswerRaises, Browsing
<1> QED
  BY <1>1, <1>2, <1>3, <1>4, <1>5, <1>6, <1>7, <1>8, <1>9, <1>10, <1>11
  DEF FunnelStep, Browse

\* A step that leaves run and tabs alone.
LEMMA TabsUntouched ==
  ASSUME TabInv, UNCHANGED <<fpc, opened, tabVars>>,
         pc' \in {"idle", "check", "open", "locate", "engage", "judge", "health", "after"},
         pc' = "idle" <=> pc = "idle", fpc = "idle"
  PROVE  TabInv'
<1>1. /\ fpc' = fpc /\ opened' = opened /\ retained' = retained /\ tabs' = tabs
      /\ lost' = lost
  BY DEF tabVars
<1>2. StepInv' /\ TabTypes'
  BY <1>1 DEF TabInv, StepInv, TabTypes
<1>3. CASE pc = "idle"
  BY <1>1, <1>2, <1>3 DEF TabInv
<1>4. CASE pc # "idle"
  <2>1. Tracked(InRun)'
    BY <1>1, <1>4 DEF TabInv, Tracked, InRun
  <2> QED
    BY <1>2, <1>4, <2>1 DEF TabInv
<1> QED
  BY <1>3, <1>4

LEMMA TabsOfStart ==
  ASSUME TabInv, NEW withSource \in BOOLEAN, StartRun(withSource), pc # "idle",
         pc' = "funnel"
  PROVE  TabInv'
<1>1. /\ fpc = "idle" /\ fpc' \in {"landing", "direct"} /\ opened' = 0
      /\ retained' = retained /\ tabs' = tabs /\ lost' = lost
  BY DEF StartRun, tabVars
<1>2. InRun = 0 /\ InRun' = 0
  BY <1>1 DEF InRun, Browsing
<1>3. StepInv' /\ TabTypes'
  BY <1>1 DEF TabInv, StepInv, TabTypes, RunSteps
<1>4. Tracked(InRun)'
  BY <1>1, <1>2 DEF TabInv, Tracked
<1> QED
  BY <1>3, <1>4 DEF TabInv

LEMMA TabsOfFinish ==
  ASSUME TabInv, pc \in {"after", "check"}, NEW early, Finish(early)
  PROVE  TabInv'
<1>1. /\ fpc = "idle" /\ fpc' = fpc /\ opened' = opened /\ lost' = lost /\ pc' = "idle"
      /\ retained' = <<>> /\ tabs' = tabs - Live(retained)
  BY DEF TabInv, StepInv, Finish, CloseRetained, runVars
<1>2. /\ tabs = Live(retained) + 0 + lost /\ Live(retained) \in Nat
      /\ tabs \in Int /\ lost \in Int
  BY <1>1, LiveIsNat DEF TabInv, Tracked, InRun, Browsing, TabTypes
<1>3. tabs' = lost' /\ tabs' \in Int
  BY <1>1, <1>2
<1>4. retained' \in Seq(Pages)
  BY <1>1
<1> QED
  BY <1>1, <1>2, <1>3, <1>4 DEF TabInv, StepInv, TabTypes

LEMMA TabsStep == TabInv /\ [Next]_vars => TabInv'
<1> SUFFICES ASSUME TabInv, [Next]_vars PROVE TabInv'
  OBVIOUS
<1>0. StepInv /\ TabTypes
  BY DEF TabInv
<1>1. CASE Start
  <2>1. /\ pc' \in {"idle", "check"} /\ FunnelReset
    BY <1>1 DEF Start
  <2>2. /\ fpc' = "idle" /\ opened' = 0 /\ retained' = <<>> /\ tabs' = 0 /\ lost' = 0
    BY <2>1 DEF FunnelReset, Forget
  <2>3. InRun' = 0 /\ Live(retained') = 0
    BY <2>2, NoneLive DEF InRun, Browsing
  <2>4. StepInv' /\ TabTypes'
    BY <2>1, <2>2 DEF StepInv, TabTypes, RunSteps
  <2>5. Tracked(InRun)'
    BY <2>2, <2>3 DEF Tracked
  <2> QED
    BY <2>2, <2>4, <2>5 DEF TabInv
<1>2. CASE Begin \/ OpenPost \/ Located \/ RecordHealth \/ GoOn \/ VisitLanding
             \/ QuarantineEnds
  <2>1. /\ pc # "funnel" /\ pc' # "funnel" /\ (pc' = "idle" <=> pc = "idle")
        /\ pc' \in {"idle", "check", "open", "locate", "engage", "judge", "health", "after"}
    BY <1>0, <1>2 DEF StepInv, Begin, OpenPost, Located, RecordHealth, GoOn, VisitLanding,
                      QuarantineEnds
  <2>2. UNCHANGED funnelVars
    BY <1>2 DEF Begin, OpenPost, Located, RecordHealth, GoOn, VisitLanding, QuarantineEnds
  <2> QED
    BY <1>0, <2>1, <2>2, TabsUntouched DEF funnelVars, runVars, StepInv
<1>3. CASE React \/ LabelCatchesUp \/ AlreadyActive \/ NoReaction \/ Comment \/ Follow
  <2>1. pc = "engage" /\ pc' = pc /\ UNCHANGED funnelVars
    BY <1>3 DEF React, LabelCatchesUp, AlreadyActive, NoReaction, Comment, Follow, Act, Due
  <2> QED
    BY <1>0, <2>1, TabsUntouched DEF funnelVars, runVars, StepInv
<1>4. CASE OpenOffer \/ OpenFails \/ NotLocated
  <2>1. pc # "idle" /\ pc # "funnel"
    BY <1>4 DEF OpenOffer, OpenFails, NotLocated
  <2>2. CASE DirectOffer
    BY <2>1, <2>2, TabsOfStart DEF DirectOffer
  <2>3. CASE pc' = "judge" /\ UNCHANGED funnelVars
    BY <1>0, <2>1, <2>3, TabsUntouched DEF funnelVars, runVars, StepInv
  <2> QED
    BY <1>4, <2>2, <2>3 DEF OpenOffer, OpenFails, NotLocated, Fails
<1>5. CASE Land
  BY <1>5, TabsOfStart DEF Land
<1>6. CASE Funnel
  <2>1. pc = "funnel" /\ pc' = pc /\ FunnelStep(Target, config)
    BY <1>6 DEF Funnel
  <2>2. /\ fpc' \in RunSteps /\ opened' \in Nat /\ TabTypes' /\ Tracked(InRun)'
        /\ fpc' \in {"landing", "direct"} => opened' = 0
    BY <2>1, TabsOfRun
  <2>3. StepInv'
    BY <1>0, <2>1, <2>2 DEF StepInv
  <2> QED
    BY <2>1, <2>2, <2>3 DEF TabInv
<1>7. CASE FunnelEnds
  <2>1. /\ pc = "funnel" /\ fpc \in {"done", "raised"} /\ pc' = "judge"
        /\ fpc' = "idle" /\ opened' = 0 /\ retained' = retained /\ tabs' = tabs
        /\ lost' = lost
    BY <1>7 DEF FunnelEnds, Forget, tabVars
  <2>2. InRun = 0 /\ InRun' = 0
    BY <2>1 DEF InRun, Browsing
  <2>3. StepInv' /\ TabTypes'
    BY <1>0, <2>1 DEF StepInv, TabTypes, RunSteps
  <2>4. Tracked(InRun)'
    BY <2>1, <2>2 DEF TabInv, Tracked
  <2> QED
    BY <2>1, <2>3, <2>4 DEF TabInv
<1>8. CASE Record
  <2>1. /\ pc = "judge" /\ pc' = "health" /\ CloseSource /\ tabs' = tabs /\ lost' = lost
        /\ fpc' = fpc /\ opened' = opened
    BY <1>8 DEF Record, runVars
  <2>2. retained' \in Seq(Pages) /\ Live(retained') = Live(retained)
    BY <1>0, <2>1, SourceClosed DEF TabTypes
  <2>3. StepInv' /\ TabTypes'
    BY <1>0, <2>1, <2>2 DEF StepInv, TabTypes
  <2>4. Tracked(InRun)'
    BY <2>1, <2>2 DEF TabInv, Tracked, InRun
  <2> QED
    BY <2>1, <2>3, <2>4 DEF TabInv
<1>9. CASE StopAfter \/ EndWithGoals \/ End
  BY <1>9, TabsOfFinish DEF StopAfter, EndWithGoals, End
<1>10. CASE Interrupt
  <2>1. /\ pc # "idle" /\ pc' = "idle" /\ fpc' = "idle" /\ opened' = 0
        /\ retained' = <<>> /\ tabs' = tabs - Live(retained) /\ lost' = lost + InRun
    BY <1>10 DEF Interrupt, CloseRetained, Forget, InRun, Browsing
  <2>2. /\ tabs = Live(retained) + InRun + lost /\ Live(retained) \in Nat
        /\ InRun \in Nat /\ lost \in Int
    BY <1>0, <2>1, LiveIsNat DEF TabInv, Tracked, InRun, TabTypes, StepInv
  <2>3. tabs' = lost' /\ tabs' \in Int
    BY <2>1, <2>2
  <2>4. StepInv' /\ retained' \in Seq(Pages)
    BY <2>1 DEF StepInv, RunSteps
  <2> QED
    BY <2>1, <2>3, <2>4 DEF TabInv, TabTypes
<1>11. CASE Kill
  <2>1. /\ pc' = "idle" /\ fpc' = "idle" /\ opened' = 0 /\ lost' = tabs
        /\ retained' = retained /\ tabs' = tabs
    BY <1>11 DEF Kill, Forget
  <2>2. StepInv' /\ TabTypes'
    BY <1>0, <2>1 DEF StepInv, TabTypes, RunSteps
  <2> QED
    BY <2>1, <2>2 DEF TabInv
<1>12. CASE UNCHANGED vars
  <2>1. UNCHANGED <<fpc, opened, retained, tabs, lost, pc>>
    BY <1>12 DEF vars, funnelVars, runVars, tabVars
  <2> QED
    BY <2>1 DEF TabInv, StepInv, TabTypes, Tracked, InRun
<1> QED
  BY <1>1, <1>2, <1>3, <1>4, <1>5, <1>6, <1>7, <1>8, <1>9, <1>10, <1>11, <1>12 DEF Next

LEMMA TabsInit == Init => TabInv
<1> SUFFICES ASSUME Init PROVE TabInv
  OBVIOUS
<1>1. /\ fpc = "idle" /\ opened = 0 /\ retained = <<>> /\ tabs = 0 /\ lost = 0
      /\ pc = "idle"
  BY DEF Init, FunnelInit
<1> QED
  BY <1>1 DEF TabInv, StepInv, TabTypes, RunSteps

LEMMA TabsInvariant == Spec => []TabInv
<1> QED
  BY TabsInit, TabsStep, PTL DEF Spec

\* On every path through landing, fallback, redirect, form, retention, exception,
\* signal and kill the open offer tabs are those the session knows and those it has
\* lost by a failure.
THEOREM TabsAreTracked == Spec => []OfferTabsAreTracked
<1>1. TabInv => OfferTabsAreTracked
  <2> SUFFICES ASSUME TabInv PROVE OfferTabsAreTracked
    OBVIOUS
  <2>1. /\ tabs \in Int /\ lost \in Int /\ opened \in Nat /\ Live(retained) \in Nat
    BY LiveIsNat DEF TabInv, TabTypes, StepInv
  <2>2. CASE pc = "idle"
    BY <2>1, <2>2 DEF TabInv, OfferTabsAreTracked
  <2>3. CASE pc # "idle"
    BY <2>3 DEF TabInv, Tracked, InRun, Browsing, OfferTabsAreTracked
  <2> QED
    BY <2>2, <2>3
<1> QED
  BY <1>1, TabsInvariant, PTL

-----------------------------------------------------------------------------
(* A target is submitted once.                                             *)

\* A form of a target that is remembered is refused, whatever it shows.
LEMMA Refused ==
  ASSUME NEW t, NEW submit, NEW complete, SubmitKey(t) \in submitted
  PROVE  "none" \notin FormOutcomes(t, submit, complete)
<1> SUFFICES ASSUME NEW look \in Looks
             PROVE  Refusal(t, submit, complete, look) # "none"
  BY DEF FormOutcomes
<1> DEFINE rs == Refusals(t, submit, complete, look)
           holds == {i \in DOMAIN rs : rs[i][1]}
<1>1. /\ DOMAIN rs = 1..9 /\ \A i \in 1..9 : rs[i][2] # "none"
  BY DEF Refusals
<1>2. rs[6] = <<SubmitKey(t) \in submitted, "repeat_submit_blocked">>
  BY DEF Refusals
<1>3. rs[6][1]
  <2>1. \A b, s : <<b, s>>[1] = b
    OBVIOUS
  <2>2. rs[6][1] = (SubmitKey(t) \in submitted)
    BY <1>2, <2>1, Zenon
  <2> QED
    BY <2>2, Zenon
<1> HIDE DEF rs
<1>4. 6 \in holds /\ holds \subseteq 1..9
  BY <1>1, <1>3
<1>5. Min(holds) \in holds
  <2>1. \E i \in holds : \A j \in holds : i <= j
    BY <1>4
  <2> QED
    BY <2>1 DEF Min
<1> QED
  BY <1>1, <1>4, <1>5 DEF Refusal, rs

\* What the session remembers of its submit clicks, while it lasts.
Known(t) ==
  /\ clicks[t] \in Nat
  /\ clicks[t] > 1 => t \in unsaved
  /\ pc # "idle" /\ clicks[t] > 0 /\ t \notin unsaved
       => t \in submitted \/ (fpc = "sent" /\ Target = t)

SubmitInv == DOMAIN clicks = Targets /\ \A t \in Named : Known(t)

LEMMA SubmitsOfRun ==
  ASSUME SubmitInv, pc = "funnel", pc' = pc, NEW c, FunnelStep(Target, c), Target' = Target
  PROVE  SubmitInv'
<1>s. DOMAIN clicks' = Targets
  <2>1. \/ clicks' = clicks
        \/ clicks' = [clicks EXCEPT ![Target] = @ + 1]
    BY DEF FunnelStep, CtaLands, CtaRaises, CtaNotFound, CtaMismatch, FallBack, DirectOpens,
           DirectFails, Browse, Redirected, Viewed, Engaged, FindForm, RefuseForm,
           ClickSubmit, Answer, AnswerRaises, submitVars
  <2> QED
    BY <2>1 DEF SubmitInv
<1> SUFFICES ASSUME NEW t \in Named
             PROVE  Known(t)'
  BY <1>s DEF SubmitInv
<1>0. Known(t) /\ DOMAIN clicks = Targets /\ t \in Targets
  BY FunnelAssumption DEF SubmitInv
<1>1. ASSUME UNCHANGED submitVars, fpc # "sent"
      PROVE  Known(t)'
  BY <1>0, <1>1 DEF Known, submitVars
<1>2. CASE CtaLands(Target) \/ CtaRaises \/ CtaNotFound(c.fallback) \/ CtaMismatch(c.fallback)
             \/ DirectOpens(Target, c.fallback) \/ DirectFails(Target, c.fallback)
             \/ Browse \/ RefuseForm(Target, c.submit, c.complete)
  <2>1. UNCHANGED submitVars /\ fpc # "sent"
    BY <1>2 DEF CtaLands, CtaRaises, CtaNotFound, CtaMismatch, FallBack, DirectOpens,
                DirectFails, Browse, Redirected, Viewed, Engaged, FindForm, RefuseForm
  <2> QED
    BY <1>1, <2>1
<1>3. CASE ClickSubmit(Target, c.submit, c.complete)
  <2>1. /\ fpc = "form" /\ SubmitKey(Target) \notin submitted
        /\ clicks' = [clicks EXCEPT ![Target] = @ + 1] /\ submitted' = submitted
        /\ \/ fpc' = "sent" /\ unsaved' = unsaved
           \/ unsaved' = unsaved \cup {Target}
    BY <1>3, Refused DEF ClickSubmit
  <2>2. CASE t = Target
    <3>1. t \notin submitted
      BY <2>1, <2>2 DEF SubmitKey
    <3>2. clicks[t] = 0 \/ t \in unsaved
      BY <1>0, <2>1, <3>1 DEF Known
    <3>3. clicks'[t] = clicks[t] + 1 /\ clicks[t] \in Nat
      BY <1>0, <2>1, <2>2 DEF Known
    <3> QED
      BY <1>0, <2>1, <2>2, <3>2, <3>3 DEF Known
  <2>3. CASE t # Target
    <3>1. clicks'[t] = clicks[t] /\ (t \in unsaved' <=> t \in unsaved)
      BY <1>0, <2>1, <2>3
    <3> QED
      BY <1>0, <2>1, <2>3, <3>1 DEF Known
  <2> QED
    BY <2>2, <2>3
<1>4. CASE Answer(Target)
  <2>1. /\ submitted' = submitted \cup {SubmitKey(Target)} /\ UNCHANGED <<clicks, unsaved>>
    BY <1>4 DEF Answer, Remembered
  <2>2. t = Target => t \in submitted'
    BY <2>1 DEF SubmitKey
  <2> QED
    BY <1>0, <2>1, <2>2 DEF Known
<1>5. CASE AnswerRaises(Target)
  BY <1>0, <1>5 DEF AnswerRaises, Known
<1> QED
  BY <1>2, <1>3, <1>4, <1>5 DEF FunnelStep

LEMMA SubmitsStep == StepInv /\ SubmitInv /\ [Next]_vars => SubmitInv'
<1> SUFFICES ASSUME StepInv, SubmitInv, [Next]_vars PROVE SubmitInv'
  OBVIOUS
<1>0. Named \subseteq Targets
  BY FunnelAssumption
<1>1. ASSUME UNCHANGED submitVars, pc' = "idle" \/ pc # "idle", fpc # "sent"
      PROVE  SubmitInv'
  BY <1>1 DEF SubmitInv, Known, submitVars
<1>2. CASE Start
  <2>1. clicks' = [t \in Targets |-> 0]
    BY <1>2 DEF Start, FunnelReset
  <2> QED
    BY <1>0, <2>1 DEF SubmitInv, Known
<1>3. CASE Funnel
  <2>1. Target' = Target
    BY <1>3 DEF Funnel, sessionVars, Target
  <2> QED
    BY <1>3, <2>1, SubmitsOfRun DEF Funnel
<1>4. CASE Interrupt
  <2>1. /\ pc' = "idle" /\ UNCHANGED <<submitted, clicks>> /\ unsaved \subseteq unsaved'
    BY <1>4 DEF Interrupt
  <2> QED
    BY <2>1 DEF SubmitInv, Known
<1>5. CASE Kill
  BY <1>5 DEF Kill, SubmitInv, Known, submitVars
<1>6. CASE Begin \/ OpenPost \/ Located \/ RecordHealth \/ GoOn \/ VisitLanding
  BY <1>1, <1>6 DEF Begin, OpenPost, Located, RecordHealth, GoOn, VisitLanding, funnelVars,
                    StepInv
<1>7. CASE React \/ LabelCatchesUp \/ AlreadyActive \/ NoReaction \/ Comment \/ Follow
  <2>1. pc = "engage" /\ UNCHANGED funnelVars
    BY <1>7 DEF React, LabelCatchesUp, AlreadyActive, NoReaction, Comment, Follow, Act, Due
  <2> QED
    BY <1>1, <2>1 DEF funnelVars, StepInv
<1>8. CASE OpenOffer \/ OpenFails \/ NotLocated \/ Land
  <2>1. pc \in {"open", "locate", "engage"} /\ UNCHANGED submitVars
    BY <1>8 DEF OpenOffer, OpenFails, NotLocated, Land, DirectOffer, Fails, StartRun, funnelVars
  <2> QED
    BY <1>1, <2>1 DEF StepInv
<1>9. CASE FunnelEnds \/ Record
  <2>1. pc # "idle" /\ fpc # "sent" /\ UNCHANGED submitVars
    BY <1>9 DEF FunnelEnds, Record, StepInv
  <2> QED
    BY <1>1, <2>1
<1>10. CASE StopAfter \/ EndWithGoals \/ End
  BY <1>1, <1>10 DEF StopAfter, EndWithGoals, End, Finish, StepInv
<1>11. CASE QuarantineEnds
  BY <1>11 DEF QuarantineEnds, funnelVars, submitVars, SubmitInv, Known
<1>12. CASE UNCHANGED vars
  <2>1. UNCHANGED <<submitVars, pc, fpc>> /\ Target' = Target
    BY <1>12 DEF vars, funnelVars, runVars, sessionVars, Target
  <2> QED
    BY <2>1 DEF SubmitInv, Known, submitVars
<1> QED
  BY <1>2, <1>3, <1>4, <1>5, <1>6, <1>7, <1>8, <1>9, <1>10, <1>11, <1>12 DEF Next

LEMMA SubmitsInit == Init => SubmitInv
<1>1. Named \subseteq Targets
  BY FunnelAssumption
<1> QED
  BY <1>1 DEF Init, FunnelInit, SubmitInv, Known

\* However often a target is visited again and by whichever way its offer is reached,
\* a second submit click follows a first one only if that one's answer never came.
THEOREM SubmitsOnce == Spec => []SubmittedAtMostOnce
<1>1. SubmitInv => SubmittedAtMostOnce
  BY DEF SubmitInv, Known, SubmittedAtMostOnce
<1>2. TabInv => StepInv
  BY DEF TabInv
<1> QED
  BY <1>1, <1>2, SubmitsInit, SubmitsStep, TabsInvariant, PTL DEF Spec

-----------------------------------------------------------------------------
(* Likes stay.                                                             *)

\* Where a reaction can follow, the page shows the likes that were there.
LikeInv ==
  /\ before \subseteq liked
  /\ pc \in {"locate", "engage"} /\ Target \in before => label = TRUE

LEMMA LikesStep == StepInv /\ LikeInv /\ [Next]_vars => LikeInv'
<1> SUFFICES ASSUME StepInv, LikeInv, [Next]_vars PROVE LikeInv'
  OBVIOUS
<1>1. ASSUME UNCHANGED <<before, liked>>, pc' \notin {"locate", "engage"}
      PROVE  LikeInv'
  BY <1>1 DEF LikeInv
<1>2. ASSUME UNCHANGED <<before, liked, label, batch, attempt>>,
             pc' \in {"locate", "engage"} => pc \in {"locate", "engage"}
      PROVE  LikeInv'
  BY <1>2 DEF LikeInv, Target
<1>3. CASE Start
  BY <1>1, <1>3 DEF Start, worldVars
<1>4. CASE Begin
  BY <1>4 DEF Begin, LikeInv
<1>5. CASE OpenPost
  <2>1. Target' = Target
    BY <1>5 DEF OpenPost, sessionVars, Target
  <2>2. label' = (Target \in liked) /\ UNCHANGED <<before, liked>>
    BY <1>5 DEF OpenPost
  <2>3. Target \in before => label' = TRUE
    BY <2>2 DEF LikeInv
  <2> QED
    BY <2>1, <2>2, <2>3 DEF LikeInv
<1>6. CASE React
  <2>1. /\ pc = "engage" /\ label # TRUE /\ before' = before
        /\ Target' = Target
    BY <1>6 DEF React, Due, ClickLike, sessionVars, Target
  <2>2. Target \notin before
    BY <2>1 DEF LikeInv
  <2>3. liked \ {Target} \subseteq liked'
    BY <1>6 DEF React, Toggle
  <2> QED
    BY <2>1, <2>2, <2>3 DEF LikeInv
<1>7. CASE LabelCatchesUp
  <2>1. /\ Target' = Target /\ label' = (Target \in liked) /\ UNCHANGED <<before, liked>>
    BY <1>7 DEF LabelCatchesUp, sessionVars, Target
  <2>2. Target \in before => label' = TRUE
    BY <2>1 DEF LikeInv
  <2> QED
    BY <2>1, <2>2 DEF LikeInv
<1>8. CASE AlreadyActive \/ NoReaction \/ Comment \/ Follow \/ Located
  BY <1>2, <1>8 DEF AlreadyActive, NoReaction, Comment, Follow, Located, Act, Due, worldVars,
                    sessionVars
<1>9. CASE Land \/ OpenOffer \/ OpenFails \/ NotLocated
  BY <1>1, <1>9 DEF Land, OpenOffer, OpenFails, NotLocated, DirectOffer, Fails, worldVars
<1>10. CASE VisitLanding \/ FunnelEnds \/ Record \/ RecordHealth \/ GoOn
  BY <1>1, <1>10 DEF VisitLanding, FunnelEnds, Record, RecordHealth, GoOn, worldVars
<1>11. CASE Funnel
  BY <1>2, <1>11 DEF Funnel, worldVars, sessionVars
<1>12. CASE StopAfter \/ EndWithGoals \/ End \/ Interrupt \/ Kill
  BY <1>1, <1>12 DEF StopAfter, EndWithGoals, End, Finish, Interrupt, Kill, worldVars
<1>13. CASE QuarantineEnds
  BY <1>2, <1>13 DEF QuarantineEnds, sessionVars
<1>14. CASE UNCHANGED vars
  BY <1>2, <1>14 DEF vars, worldVars, sessionVars
<1> QED
  BY <1>3, <1>4, <1>5, <1>6, <1>7, <1>8, <1>9, <1>10, <1>11, <1>12, <1>13, <1>14 DEF Next

\* No click of a session takes away a like that was there when the post was opened,
\* although the page may show the effect of a click late and a post is visited again.
THEOREM LikesStay == Spec => []ExistingLikesStay
<1>1. Init => LikeInv
  BY DEF Init, LikeInv
<1>2. LikeInv => ExistingLikesStay
  BY DEF LikeInv, ExistingLikesStay
<1>3. TabInv => StepInv
  BY DEF TabInv
<1> QED
  BY <1>1, <1>2, <1>3, LikesStep, TabsInvariant, PTL DEF Spec

-----------------------------------------------------------------------------
(* An early end has met the goals.                                         *)

GoalInv == totals.ok \in Nat /\ EarlyEndMeansGoals

LEMMA GoalsStep == GoalInv /\ [Next]_vars => GoalInv'
<1> SUFFICES ASSUME GoalInv, [Next]_vars PROVE GoalInv'
  OBVIOUS
<1>0. /\ MinTargets \in Nat /\ Goal \in Nat /\ MinTargets <= Goal
  BY SessionAssumption DEF Goal, Larger
<1>1. ASSUME totals' = totals \/ totals' = NoTotals,
             UNCHANGED summary \/ summary'.early = FALSE
      PROVE  GoalInv'
  BY <1>1 DEF GoalInv, EarlyEndMeansGoals, NoTotals
<1>2. ASSUME NEW early, Finish(early), early => GoalsMet
      PROVE  GoalInv'
  <2>1. totals' = NoTotals
    BY <1>2 DEF Finish, Gone
  <2>2. summary' = Completed(early)
    BY <1>2 DEF Finish
  <2>3. early => totals.ok >= MinTargets /\ totals.interactions >= MinInteractions
    BY <1>0, <1>2 DEF GoalsMet, GoalInv
  <2>4. summary'.early => summary'.goals
    BY <2>2, <2>3, Zenon DEF Completed
  <2>5. totals'.ok \in Nat
    BY <2>1 DEF NoTotals
  <2>6. EarlyEndMeansGoals'
    BY <2>4, Zenon DEF EarlyEndMeansGoals
  <2> QED
    BY <2>5, <2>6 DEF GoalInv
<1>3. CASE Start
  <2>1. summary'.early = FALSE
    <3>1. \E s \in {"no_targets", "failed", "none"} :
            summary' = [status |-> s, goals |-> FALSE, early |-> FALSE]
      BY <1>3 DEF Start
    <3> QED
      BY <3>1
  <2>2. totals' = NoTotals
    BY <1>3 DEF Start
  <2> QED
    BY <1>1, <2>1, <2>2
<1>4. CASE StopAfter \/ End
  BY <1>2, <1>4 DEF StopAfter, End
<1>5. CASE EndWithGoals
  BY <1>2, <1>5 DEF EndWithGoals
<1>6. CASE Interrupt
  BY <1>1, <1>6 DEF Interrupt, Gone
<1>7. CASE Kill
  BY <1>1, <1>7 DEF Kill, Gone, endVars
<1>8. CASE Record
  <2>1. summary' = summary /\ \E n \in {0, 1} : totals'.ok = Cap(totals.ok + n, Goal)
    BY <1>8 DEF Record, endVars, Bool
  <2>2. totals'.ok \in Nat
    BY <1>0, <2>1 DEF GoalInv, Cap
  <2> QED
    BY <2>1, <2>2 DEF GoalInv, EarlyEndMeansGoals
<1>9. CASE Begin \/ OpenOffer \/ OpenPost \/ OpenFails \/ NotLocated \/ Located
  BY <1>1, <1>9 DEF Begin, OpenOffer, OpenPost, OpenFails, NotLocated, Located, endVars
<1>10. CASE React \/ LabelCatchesUp \/ AlreadyActive \/ NoReaction \/ Comment \/ Follow
  BY <1>1, <1>10 DEF React, LabelCatchesUp, AlreadyActive, NoReaction, Comment, Follow, Act,
                     endVars
<1>11. CASE Land \/ VisitLanding \/ Funnel \/ FunnelEnds
  <2>1. totals' = totals /\ summary' = summary
    BY <1>11 DEF Land, VisitLanding, Funnel, FunnelEnds, endVars
  <2> QED
    BY <1>1, <2>1
<1>12. CASE RecordHealth \/ GoOn \/ QuarantineEnds
  BY <1>1, <1>12 DEF RecordHealth, GoOn, QuarantineEnds, endVars
<1>13. CASE UNCHANGED vars
  BY <1>1, <1>13 DEF vars, endVars
<1> QED
  BY <1>3, <1>4, <1>5, <1>6, <1>7, <1>8, <1>9, <1>10, <1>11, <1>12, <1>13 DEF Next

\* For every number of targets, comments and interactions: a session that leaves
\* targets unvisited before its time has met the goals its summary reports.
THEOREM EarlyEndsMeetGoals == Spec => []EarlyEndMeansGoals
<1>1. Init => GoalInv
  BY DEF Init, GoalInv, EarlyEndMeansGoals, NoTotals
<1>2. GoalInv => EarlyEndMeansGoals
  BY DEF GoalInv
<1> QED
  BY <1>1, <1>2, GoalsStep, PTL DEF Spec

-----------------------------------------------------------------------------
(* Induction, as a fact about sets of numbers: the induction theorems of   *)
(* the library take a predicate, which the provers cannot instantiate.     *)

\* Every set of naturals that is not empty has a least element.
LEMMA LeastNumber ==
  ASSUME NEW T \in SUBSET Nat, T # {}
  PROVE  \E m \in T : \A k \in T : ~(k < m)
<1> DEFINE R == OpToRel(<, Nat)
<1>1. IsWellFoundedOn(R, Nat)
  BY NatLessThanWellFounded
<1>2. \A m, k \in Nat : k < m => <<k, m>> \in R
  BY DEF OpToRel
<1> HIDE DEF R
<1>3. \E m \in T : \A k \in T : <<k, m>> \notin R
  BY <1>1, WFMin
<1> QED
  BY <1>2, <1>3

\* A set that holds 0 and with each number the next one holds them all.
LEMMA InductionOnNat ==
  ASSUME NEW T, 0 \in T, \A n \in Nat : n \in T => n + 1 \in T
  PROVE  Nat \subseteq T
<1> SUFFICES ASSUME Nat \ T # {} PROVE FALSE
  OBVIOUS
<1>1. PICK m \in Nat \ T : \A k \in Nat \ T : ~(k < m)
  BY LeastNumber
<1>2. m # 0 /\ m - 1 \in Nat /\ m - 1 < m /\ m = (m - 1) + 1
  BY <1>1
<1> QED
  BY <1>1, <1>2

\* A bounded set of numbers has a greatest one.
LEMMA GreatestNumber ==
  ASSUME NEW n \in Nat, NEW T \in SUBSET (0..n), T # {}
  PROVE  Max(T) \in T /\ \A k \in T : k <= Max(T)
<1> DEFINE D == {n - k : k \in T}
<1>1. D \in SUBSET Nat /\ D # {}
  <2>1. \A k \in T : n - k \in Nat
    OBVIOUS
  <2>2. PICK k \in T : TRUE
    OBVIOUS
  <2>3. n - k \in D
    OBVIOUS
  <2> QED
    BY <2>1, <2>3
<1>2. PICK d \in D : \A e \in D : ~(e < d)
  BY <1>1, LeastNumber
<1>3. PICK m \in T : d = n - m
  BY <1>2
<1>4. ASSUME NEW k \in T PROVE m >= k
  <2>1. n - k \in D
    OBVIOUS
  <2>2. ~(n - k < n - m)
    BY <1>2, <1>3, <2>1
  <2> QED
    BY <2>2
<1>5. \E x \in T : \A y \in T : x >= y
  BY <1>4
<1>6. Max(T) \in T /\ \A k \in T : Max(T) >= k
  BY <1>5 DEF Max
<1> QED
  BY <1>6

-----------------------------------------------------------------------------
(* The windows a decision looks at.                                        *)

\* A streak of k windows is the last k windows, each of which qualifies.
LEMMA StreakIs ==
  ASSUME NEW n \in Nat, NEW Q, NEW k \in Nat, InARow(n, Q) >= k
  PROVE  n >= k /\ \A i \in (n - k + 1)..n : i \in Q
<1> DEFINE T == ((1..n) \ Q) \cup {0}
           m == Max(T)
<1>1. T \in SUBSET (0..n) /\ T # {}
  OBVIOUS
<1>2. m \in T /\ \A i \in T : i <= m
  BY <1>1, GreatestNumber
<1>3. m \in 0..n
  BY <1>1, <1>2
<1>4. n - m >= k
  BY DEF InARow
<1> HIDE DEF m
<1>5. n >= k
  BY <1>3, <1>4
<1>6. ASSUME NEW i \in (n - k + 1)..n PROVE i \in Q
  <2>1. i \in 1..n /\ i > m
    BY <1>3, <1>4, <1>5
  <2>2. i \notin T
    BY <1>2, <1>3, <2>1
  <2> QED
    BY <2>1, <2>2
<1> QED
  BY <1>5, <1>6

\* The elements of s at some of its positions: the loop, one position a turn.
Choice(s, positions, n, kept) == IF n \in positions THEN Append(kept, s[n]) ELSE kept
Chooses(f, s, positions) ==
  f = [n \in 0..Len(s) |-> IF n = 0 THEN <<>>
                           ELSE IF n \in positions THEN Append(f[n - 1], s[n]) ELSE f[n - 1]]

\* There is a run of the loop.
LEMMA ChoiceExists ==
  ASSUME NEW s, NEW P, Len(s) \in Nat
  PROVE  \E f : Chooses(f, s, P)
<1> DEFINE L == Len(s)
           Upto(n, g) ==
             g = [i \in 0..n |-> IF i = 0 THEN <<>> ELSE Choice(s, P, i, g[i - 1])]
           T == {n \in Nat : \E g : Upto(n, g)}
<1> HIDE DEF Upto
<1>0. \A n \in Nat : n \in T <=> \E g : Upto(n, g)
  OBVIOUS
<1> HIDE DEF T
<1>1. 0 \in T
  <2>1. Upto(0, [i \in 0..0 |-> <<>>])
    BY DEF Upto
  <2> QED
    BY <1>0, <2>1
<1>2. ASSUME NEW n \in Nat, n \in T PROVE n + 1 \in T
  <2>1. PICK g : Upto(n, g)
    BY <1>0, <1>2
  <2> DEFINE h == [i \in 0..(n + 1) |->
                     IF i = n + 1 THEN Choice(s, P, n + 1, g[n]) ELSE g[i]]
  <2>2. \A i \in 0..n : g[i] = IF i = 0 THEN <<>> ELSE Choice(s, P, i, g[i - 1])
    BY <2>1 DEF Upto
  <2>3. ASSUME NEW i \in 0..(n + 1)
        PROVE  h[i] = IF i = 0 THEN <<>> ELSE Choice(s, P, i, h[i - 1])
    <3>1. CASE i = n + 1
      <4>1. i # 0 /\ i - 1 = n /\ n \in 0..(n + 1) /\ n # n + 1
        BY <3>1
      <4>2. h[n] = g[n] /\ h[i] = Choice(s, P, n + 1, g[n])
        BY <3>1, <4>1
      <4> QED
        BY <3>1, <4>1, <4>2
    <3>2. CASE i # n + 1
      <4>1. i \in 0..n /\ h[i] = g[i]
        BY <3>2
      <4>2. CASE i = 0
        BY <2>2, <4>1, <4>2
      <4>3. CASE i # 0
        <5>1. i - 1 \in 0..(n + 1) /\ i - 1 # n + 1
          BY <4>1, <4>3
        <5>2. h[i - 1] = g[i - 1]
          BY <5>1
        <5> QED
          BY <2>2, <4>1, <4>3, <5>2
      <4> QED
        BY <4>2, <4>3
    <3> QED
      BY <3>1, <3>2
  <2>4. h = [i \in 0..(n + 1) |-> h[i]]
    OBVIOUS
  <2> HIDE DEF h
  <2>5. Upto(n + 1, h)
    BY <2>3, <2>4 DEF Upto
  <2> QED
    BY <1>0, <2>5
<1>3. L \in T
  BY <1>1, <1>2, InductionOnNat
<1> QED
  BY <1>0, <1>3 DEF Upto, Chooses, Choice

\* What is chosen of s comes from its positions, and from those only.
LEMMA ChosenFrom ==
  ASSUME NEW S, NEW s \in Seq(S), NEW P
  PROVE  /\ Chosen(s, P) \in Seq(S)
         /\ \A k \in 1..Len(Chosen(s, P)) : \E i \in 1..Len(s) :
              i \in P /\ Chosen(s, P)[k] = s[i]
<1> DEFINE f == CHOOSE f : Chooses(f, s, P)
           From(n) == {t \in Seq(S) : \A k \in 1..Len(t) : \E i \in 1..Len(s) :
                                        i \in P /\ t[k] = s[i]}
           T == {n \in Nat : n <= Len(s) => f[n] \in From(n)}
<1>1. Len(s) \in Nat /\ \A i \in 1..Len(s) : s[i] \in S
  OBVIOUS
<1>2. Chosen(s, P) = f[Len(s)]
  BY DEF Chosen, Chooses
<1>3. Chooses(f, s, P)
  <2>1. \E g : Chooses(g, s, P)
    BY <1>1, ChoiceExists
  <2> QED
    BY <2>1
<1> HIDE DEF f
<1>4. \A n \in 0..Len(s) :
        f[n] = IF n = 0 THEN <<>>
               ELSE IF n \in P THEN Append(f[n - 1], s[n]) ELSE f[n - 1]
  BY <1>3 DEF Chooses
<1>5. \A n \in Nat : n \in T <=> (n <= Len(s) => f[n] \in From(n))
  OBVIOUS
<1> HIDE DEF T
<1>6. 0 \in T
  <2>1. 0 \in 0..Len(s)
    BY <1>1
  <2>2. f[0] = <<>>
    BY <1>4, <2>1
  <2>3. <<>> \in From(0)
    OBVIOUS
  <2> QED
    BY <1>5, <2>2, <2>3
<1>7. ASSUME NEW n \in Nat, n \in T PROVE n + 1 \in T
  <2> SUFFICES ASSUME n + 1 <= Len(s) PROVE f[n + 1] \in From(n + 1)
    BY <1>5
  <2>1. f[n] \in From(n)
    <3>1. n <= Len(s)
      BY <1>1
    <3> QED
      BY <1>5, <1>7, <3>1, Zenon
  <2>2. n + 1 \in 0..Len(s) /\ n + 1 # 0 /\ (n + 1) - 1 = n /\ n + 1 \in 1..Len(s)
    BY <1>1
  <2>3. f[n + 1] = IF n + 1 \in P THEN Append(f[n], s[n + 1]) ELSE f[n]
    BY <1>4, <2>2
  <2>4. CASE n + 1 \notin P
    BY <2>1, <2>3, <2>4
  <2>5. CASE n + 1 \in P
    <3> DEFINE old == f[n]
               t == Append(old, s[n + 1])
    <3>1. old \in Seq(S) /\ s[n + 1] \in S /\ Len(old) \in Nat
      BY <1>1, <2>1, <2>2
    <3>2. \A k \in 1..Len(old) : \E i \in 1..Len(s) : i \in P /\ old[k] = s[i]
      BY <2>1
    <3> HIDE DEF old
    <3>3. /\ t \in Seq(S) /\ Len(t) = Len(old) + 1
          /\ \A k \in 1..Len(old) : t[k] = old[k]
          /\ t[Len(old) + 1] = s[n + 1]
      BY <3>1
    <3> HIDE DEF t
    <3>4. ASSUME NEW k \in 1..Len(t) PROVE \E i \in 1..Len(s) : i \in P /\ t[k] = s[i]
      <4>1. k \in 1..Len(old) \/ k = Len(old) + 1
        BY <3>1, <3>3
      <4> QED
        BY <2>2, <2>5, <3>2, <3>3, <4>1
    <3>5. t \in From(n + 1)
      BY <3>3, <3>4
    <3> QED
      BY <2>3, <2>5, <3>5 DEF old, t
  <2> QED
    BY <2>4, <2>5
<1>8. f[Len(s)] \in From(Len(s))
  BY <1>1, <1>5, <1>6, <1>7, InductionOnNat
<1> QED
  BY <1>2, <1>8

LEMMA NewestIsPart ==
  ASSUME NEW S, NEW s \in Seq(S), NEW n \in Nat \ {0}
  PROVE  /\ NewestOf(s, n) \in Seq(S)
         /\ \A k \in 1..Len(NewestOf(s, n)) : \E i \in 1..Len(s) : NewestOf(s, n)[k] = s[i]
         /\ Len(NewestOf(s, n)) <= n
<1> DEFINE low == IF Len(s) > n THEN Len(s) - n + 1 ELSE 1
           t == SubSeq(s, low, Len(s))
<1>1. /\ Len(s) \in Nat /\ low \in 1..(Len(s) + 1)
      /\ Len(s) - low + 1 \in 0..n
  OBVIOUS
<1>2. NewestOf(s, n) = t
  BY DEF NewestOf
<1> HIDE DEF low
<1>3. /\ t \in Seq(S) /\ Len(t) = Len(s) - low + 1
      /\ \A k \in 1..Len(t) : t[k] = s[low + k - 1]
  BY <1>1
<1> HIDE DEF t
<1>4. ASSUME NEW k \in 1..Len(t) PROVE \E i \in 1..Len(s) : t[k] = s[i]
  <2>1. low + k - 1 \in 1..Len(s)
    BY <1>1, <1>3
  <2> QED
    BY <1>3, <2>1
<1>5. Len(t) <= n
  BY <1>1, <1>3
<1>6. t \in Seq(S) /\ \A k \in 1..Len(t) : \E i \in 1..Len(s) : t[k] = s[i]
  BY <1>3, <1>4
<1> QED
  BY <1>2, <1>5, <1>6, Zenon

-----------------------------------------------------------------------------
(* A baseline has samples of one series, and is one of relevance if some   *)
(* of them are above the benchmark.                                        *)

OfOneSeries(b) ==
  /\ Len(b.samples) \in Nat /\ DOMAIN b.samples = 1..Len(b.samples)
  /\ \A i, k \in 1..Len(b.samples) : SameSeries(b.samples[i], b.samples[k])
  /\ b.source = "relevance" => \E k \in 1..Len(b.samples) : AboveBenchmark(b.samples[k])

LEMMA BuildFields ==
  ASSUME NEW ws, NEW trusted
  PROVE  LET samples == NewestOf(Chosen(ws, InSeries(ws)), Policy.maxSamples)
             healthy == Chosen(samples, {i \in DOMAIN samples : AboveBenchmark(samples[i])})
         IN  /\ Build(ws, trusted).samples = samples
             /\ Build(ws, trusted).source = "relevance" => healthy # <<>>
BY DEF Build

LEMMA BuildIsOfOneSeries ==
  ASSUME NEW S, NEW ws \in Seq(S), NEW trusted
  PROVE  OfOneSeries(Build(ws, trusted))
<1> DEFINE series == Chosen(ws, InSeries(ws))
           samples == NewestOf(series, Policy.maxSamples)
           above == {i \in DOMAIN samples : AboveBenchmark(samples[i])}
           healthy == Chosen(samples, above)
           b == Build(ws, trusted)
<1>1. Policy.maxSamples \in Nat \ {0}
  BY HealthAssumption
<1>2. /\ series \in Seq(S)
      /\ \A k \in 1..Len(series) : \E i \in 1..Len(ws) :
           i \in InSeries(ws) /\ series[k] = ws[i]
  BY ChosenFrom
<1>3. \A k \in 1..Len(series) : SameSeries(Last(ws), series[k])
  BY <1>2 DEF InSeries
<1> HIDE DEF series
<1>4. /\ samples \in Seq(S)
      /\ \A k \in 1..Len(samples) : \E i \in 1..Len(series) : samples[k] = series[i]
  BY <1>1, <1>2, NewestIsPart, SMTT(30)
<1>5. b.samples = samples /\ (b.source = "relevance" => healthy # <<>>)
  BY BuildFields DEF series
<1> HIDE DEF b, samples
<1>6. Len(samples) \in Nat /\ DOMAIN samples = 1..Len(samples)
  BY <1>4
<1>7. \A k \in 1..Len(samples) : SameSeries(Last(ws), samples[k])
  BY <1>3, <1>4
<1>8. \A i, k \in 1..Len(samples) : SameSeries(samples[i], samples[k])
  BY <1>7 DEF SameSeries
<1>9. ASSUME b.source = "relevance"
      PROVE  \E k \in 1..Len(samples) : AboveBenchmark(samples[k])
  <2>1. /\ healthy \in Seq(S)
        /\ \A k \in 1..Len(healthy) : \E i \in 1..Len(samples) :
             i \in above /\ healthy[k] = samples[i]
    <3> HIDE DEF above
    <3> QED
      BY <1>4, ChosenFrom
  <2>2. healthy # <<>>
    BY <1>5, <1>9
  <2> HIDE DEF healthy
  <2>3. 1 \in 1..Len(healthy)
    BY <2>1, <2>2
  <2>4. PICK i \in 1..Len(samples) : i \in above
    BY <2>1, <2>3
  <2> QED
    BY <2>4
<1>10. OfOneSeries(b)
  BY <1>5, <1>6, <1>8, <1>9 DEF OfOneSeries
<1> QED
  BY <1>10 DEF b

\* The samples are of the series of the newest window.
LEMMA BuildIsOfNewest ==
  ASSUME NEW S, NEW ws \in Seq(S), NEW trusted
  PROVE  \A k \in 1..Len(Build(ws, trusted).samples) :
           SameSeries(Last(ws), Build(ws, trusted).samples[k])
<1> DEFINE series == Chosen(ws, InSeries(ws))
           samples == NewestOf(series, Policy.maxSamples)
<1>1. Policy.maxSamples \in Nat \ {0}
  BY HealthAssumption
<1>2. /\ series \in Seq(S)
      /\ \A k \in 1..Len(series) : \E i \in 1..Len(ws) :
           i \in InSeries(ws) /\ series[k] = ws[i]
  BY ChosenFrom
<1>3. \A k \in 1..Len(series) : SameSeries(Last(ws), series[k])
  BY <1>2 DEF InSeries
<1>5. Build(ws, trusted).samples = samples
  BY BuildFields
<1> HIDE DEF series
<1>4. \A k \in 1..Len(samples) : \E i \in 1..Len(series) : samples[k] = series[i]
  BY <1>1, <1>2, NewestIsPart, SMTT(30)
<1> HIDE DEF samples
<1> QED
  BY <1>3, <1>4, <1>5

\* What the provers need to know of the windows: nothing but where they come from.
Seen == Windows \cup {Unchecked(w) : w \in Windows}
OnFile == {r \in [window : Seen, candidate : BOOLEAN, trusted : BOOLEAN, seed : BOOLEAN,
                  superseded : BOOLEAN] : r.trusted => AboveBenchmark(r.window)}

LEMMA WindowsOfFile ==
  ASSUME NEW s \in Seq(OnFile)
  PROVE  WindowsOf(s) \in Seq(Seen) /\ Len(WindowsOf(s)) = Len(s)
<1>0. \A r \in OnFile : r.window \in Seen
  BY DEF OnFile
<1>1. DOMAIN s = 1..Len(s) /\ Len(s) \in Nat /\ \A i \in 1..Len(s) : s[i].window \in Seen
  <2>1. DOMAIN s = 1..Len(s) /\ Len(s) \in Nat /\ \A i \in 1..Len(s) : s[i] \in OnFile
    OBVIOUS
  <2> QED
    BY <1>0, <2>1
<1> DEFINE t == [i \in 1..Len(s) |-> s[i].window]
<1>2. t \in [1..Len(s) -> Seen]
  BY <1>1
<1>3. t \in Seq(Seen) /\ Len(t) = Len(s)
  BY <1>1, <1>2
<1>4. WindowsOf(s) = t
  BY <1>1 DEF WindowsOf
<1> QED
  BY <1>3, <1>4

LEMMA ReferenceIsOfOneSeries ==
  ASSUME runs \in Seq(OnFile)
  PROVE  History \in Seq(Seen) /\ OfOneSeries(Reference)
<1>1. History \in Seq(Seen)
  <2> DEFINE s == Chosen(runs, {i \in DOMAIN runs : ~runs[i].seed})
  <2>1. s \in Seq(OnFile)
    BY ChosenFrom
  <2> HIDE DEF s
  <2>2. WindowsOf(s) \in Seq(Seen)
    BY <2>1, WindowsOfFile
  <2> QED
    BY <2>2 DEF s, History
<1>2. OfOneSeries(Baseline(runs))
  <2> DEFINE s == Chosen(runs, {i \in DOMAIN runs : runs[i].candidate /\ ~runs[i].superseded})
  <2>1. s \in Seq(OnFile)
    BY ChosenFrom
  <2> HIDE DEF s
  <2>2. WindowsOf(s) \in Seq(Seen)
    BY <2>1, WindowsOfFile
  <2>3. PICK trusted : Baseline(runs) = Build(WindowsOf(s), trusted)
    BY DEF Baseline, s
  <2> QED
    BY <2>2, <2>3, BuildIsOfOneSeries
<1>3. OfOneSeries(Build(Chosen(History, {i \in DOMAIN History : Good(History[i])}), FALSE))
  <2>1. Chosen(History, {i \in DOMAIN History : Good(History[i])}) \in Seq(Seen)
    BY <1>1, ChosenFrom
  <2> QED
    BY <2>1, BuildIsOfOneSeries
<1> QED
  BY <1>1, <1>2, <1>3 DEF Reference

\* A baseline is trusted as far as it is built so.
LEMMA BuildKeepsTrust ==
  ASSUME NEW s, NEW t \in BOOLEAN, Build(s, t).trusted
  PROVE  t
<1>1. CASE t = FALSE
  <2>1. Build(s, FALSE).trusted = FALSE
    BY DEF Build
  <2> QED
    BY <1>1, <2>1
<1> QED
  BY <1>1

\* The records a baseline is built from are runs on file that count.
Eligible(s) == {i \in DOMAIN s : s[i].candidate /\ ~s[i].superseded}

LEMMA EligibleAreOnFile ==
  ASSUME NEW s \in Seq(OnFile), NEW e, e = Chosen(s, Eligible(s))
  PROVE  /\ e \in Seq(OnFile)
         /\ \A k \in 1..Len(e) : \E i \in 1..Len(s) :
              s[i].candidate /\ ~s[i].superseded /\ e[k] = s[i]
<1> DEFINE E == Eligible(s)
<1>0. s \in Seq(OnFile)
  OBVIOUS
<1> HIDE DEF E
<1>1. Chosen(s, E) \in Seq(OnFile)
  BY ONLY <1>0, ChosenFrom
<1>2. \A k \in 1..Len(Chosen(s, E)) : \E i \in 1..Len(s) : i \in E /\ Chosen(s, E)[k] = s[i]
  BY ONLY <1>0, ChosenFrom
<1>3. \A i \in Eligible(s) : s[i].candidate /\ ~s[i].superseded
  BY DEF Eligible
<1>4. e = Chosen(s, E) /\ \A i \in E : s[i].candidate /\ ~s[i].superseded
  BY <1>3 DEF E
<1> QED
  BY <1>1, <1>2, <1>4

\* Behind a trusted baseline is a run on file that was seeded or is above the benchmark.
LEMMA TrustIsEarned ==
  ASSUME runs \in Seq(OnFile), Reference.trusted, NEW w, Matches(w, Reference)
  PROVE  \E i \in DOMAIN runs : /\ SameSeries(runs[i].window, w)
                                /\ runs[i].candidate /\ ~runs[i].superseded
                                /\ (runs[i].seed \/ AboveBenchmark(runs[i].window))
<1> DEFINE e == Chosen(runs, {i \in DOMAIN runs : runs[i].candidate /\ ~runs[i].superseded})
           ws == WindowsOf(e)
           series == Chosen(e, InSeries(ws))
           samples == NewestOf(series, Policy.maxSamples)
           sound == \E i \in DOMAIN samples : samples[i].seed \/ samples[i].trusted
<1>0. Policy.maxSamples \in Nat \ {0}
  BY HealthAssumption
<1>1. Baseline(runs) = Build(ws, sound)
  BY DEF Baseline
<1>2. \A s : Build(s, FALSE).trusted = FALSE
  BY DEF Build
<1>3. Reference = Baseline(runs)
  BY <1>2 DEF Reference
<1>4. sound
  <2>1. sound \in BOOLEAN
    OBVIOUS
  <2>2. Build(ws, sound).trusted
    BY <1>1, <1>3
  <2> HIDE DEF sound, ws
  <2> QED
    BY <2>1, <2>2, BuildKeepsTrust
<1>5. /\ e \in Seq(OnFile)
      /\ \A k \in 1..Len(e) : \E i \in 1..Len(runs) :
           runs[i].candidate /\ ~runs[i].superseded /\ e[k] = runs[i]
  <2>1. runs \in Seq(OnFile)
    OBVIOUS
  <2>2. e = Chosen(runs, Eligible(runs))
    BY DEF Eligible
  <2> HIDE DEF e
  <2> QED
    BY <2>1, <2>2, EligibleAreOnFile
<1>6. PICK i \in DOMAIN samples : samples[i].seed \/ samples[i].trusted
  BY <1>4
<1> HIDE DEF sound, e
<1>7. /\ ws \in Seq(Seen) /\ Len(ws) = Len(e)
      /\ \A k \in 1..Len(e) : ws[k] = e[k].window
  BY <1>5, WindowsOfFile DEF WindowsOf
<1> HIDE DEF ws
<1>8. /\ series \in Seq(OnFile)
      /\ \A k \in 1..Len(series) : \E j \in 1..Len(e) : j \in InSeries(ws) /\ series[k] = e[j]
  BY <1>5, ChosenFrom
<1> HIDE DEF series
<1>9. /\ samples \in Seq(OnFile)
      /\ \A k \in 1..Len(samples) : \E j \in 1..Len(series) : samples[k] = series[j]
  <2>1. series \in Seq(OnFile)
    BY <1>8
  <2>2. NewestOf(series, Policy.maxSamples) \in Seq(OnFile)
    BY <1>0, <2>1, NewestIsPart, SMTT(90)
  <2>3. \A k \in 1..Len(NewestOf(series, Policy.maxSamples)) : \E j \in 1..Len(series) :
          NewestOf(series, Policy.maxSamples)[k] = series[j]
    BY <1>0, <2>1, NewestIsPart, SMTT(90)
  <2> QED
    BY <2>2, <2>3
<1> HIDE DEF samples
<1>10. PICK k \in 1..Len(series) : samples[i] = series[k]
  BY <1>6, <1>9
<1>11. PICK j \in 1..Len(e) : j \in InSeries(ws) /\ series[k] = e[j]
  BY <1>8
<1>12. PICK n \in 1..Len(runs) : /\ runs[n].candidate /\ ~runs[n].superseded
                                 /\ e[j] = runs[n]
  BY <1>5
<1>13. SameSeries(Last(ws), runs[n].window)
  BY <1>7, <1>11, <1>12 DEF InSeries
<1>14. SameSeries(Last(ws), Last(Reference.samples))
  <2> DEFINE b == Build(ws, sound)
  <2>1. Len(b.samples) \in Nat /\ Len(b.samples) > 0
    BY <1>1, <1>3, <1>7, BuildIsOfOneSeries DEF OfOneSeries, Matches, Count
  <2>2. \A m \in 1..Len(b.samples) : SameSeries(Last(ws), b.samples[m])
    BY <1>7, BuildIsOfNewest
  <2> HIDE DEF b
  <2>3. SameSeries(Last(ws), Last(b.samples))
    BY <2>1, <2>2 DEF Last
  <2> QED
    BY <1>1, <1>3, <2>3 DEF b
<1>15. SameSeries(runs[n].window, w)
  BY <1>13, <1>14 DEF SameSeries, Matches
<1>16. runs[n] \in OnFile /\ n \in DOMAIN runs
  OBVIOUS
<1>17. runs[n].seed \/ AboveBenchmark(runs[n].window)
  BY <1>6, <1>10, <1>11, <1>12, <1>16 DEF OnFile
<1> QED
  BY <1>12, <1>15, <1>16, <1>17

-----------------------------------------------------------------------------
(* The reasons, and what each of them has been given for.                  *)

LEMMA OutrightMeans ==
  ASSUME NEW ws, NEW r \in Outright(ws)
  PROVE  \/ r = "zero_ads_repeated" /\ ZeroAds(ws) >= Policy.zeroWindows
         \/ r = "absolute_low_ad_yield" /\ FewAds(ws) >= Policy.absoluteWindows
         \/ r = "relevance_below_benchmark"
BY DEF Outright, Only

LEMMA VolumeMeans ==
  ASSUME NEW ws, NEW b, NEW r \in AgainstVolume(ws, b)
  PROVE  /\ Ready(Last(ws), b)
         /\ r \in VolumeReasons \cup {"proactive_quality_drop"}
         /\ r = "proactive_quality_drop" => b.trusted
         /\ r = "ads_per_hour_below_baseline" => SevereAds(ws, b)
         /\ r = "ads_per_scroll_below_baseline" => SevereDensity(ws, b)
BY DEF AgainstVolume, Only, VolumeReasons

LEMMA RelevanceMeans ==
  ASSUME NEW ws, NEW b, NEW certain, NEW r \in AgainstRelevance(ws, b, certain)
  PROVE  \/ r = "relevance_rate_too_low"
         \/ /\ r \in YieldReasons /\ YieldReady(Last(ws), b)
            /\ \/ Classified(Last(ws))
               \/ RateBelow(ws, b, Policy.lowRatio, Policy.rateDrop) >= Policy.lowWindows
               \/ RateBelow(ws, b, Policy.watchRatio, 0) >= Policy.softWindows
BY DEF AgainstRelevance, Only, YieldReasons, ValidRelevance, SevereYield, SevereRate, SoftRate

LEMMA ReasonsAre ==
  ASSUME NEW ws, NEW b, NEW due, NEW certain, NEW r \in Decision(ws, b, due, certain).reasons
  PROVE  \/ r = "periodic_account_maintenance" \/ r \in Outright(ws)
         \/ r \in AgainstVolume(ws, b) \/ r \in AgainstRelevance(ws, b, certain)
BY DEF Decision

\* A streak of valid windows of the series is what Repeated asks for.
LEMMA StreakRepeats ==
  ASSUME NEW S, NEW ws \in Seq(S), NEW n \in Nat, NEW Q,
         \A i \in Q : i \in InSeries(ws) /\ ValidObservation(ws[i]),
         Streak(ws, Q) >= n
  PROVE  Repeated(ws, n)
<1>1. Len(ws) \in Nat
  OBVIOUS
<1>2. Len(ws) >= n /\ \A i \in (Len(ws) - n + 1)..Len(ws) : i \in Q
  BY <1>1, StreakIs DEF Streak
<1>3. \A i \in Q : /\ SameSeries(ws[i], Last(ws))
                   /\ ws[i].completed /\ ws[i].stop = "none" /\ ws[i].full
  BY DEF InSeries, SameSeries, ValidObservation
<1> QED
  BY <1>2, <1>3 DEF Repeated

\* A repeated drop of the relevance rate includes the last window.
LEMMA RateDropIsClassified ==
  ASSUME NEW S, NEW ws \in Seq(S), NEW b, NEW ratio, NEW drop, NEW n \in Nat \ {0},
         RateBelow(ws, b, ratio, drop) >= n
  PROVE  Classified(Last(ws))
<1> DEFINE Q == {i \in InMode(ws) : /\ ValidRelevance(ws[i]) /\ AboveBenchmark(ws[i])
                                    /\ FarBelow(Rate(ws[i]), b.rate, ratio, drop)}
<1>1. Len(ws) \in Nat /\ InARow(Len(ws), Q) >= n
  BY DEF RateBelow, Streak
<1>2. \A i \in Q : Classified(ws[i])
  BY DEF ValidRelevance
<1> HIDE DEF Q
<1>3. Len(ws) >= n /\ \A i \in (Len(ws) - n + 1)..Len(ws) : i \in Q
  BY <1>1, StreakIs
<1>4. Len(ws) \in (Len(ws) - n + 1)..Len(ws)
  BY <1>1, <1>3
<1> QED
  BY <1>2, <1>3, <1>4 DEF Last

\* A drop against the baseline has samples of the judged window's series behind it.
LEMMA SamplesMatch ==
  ASSUME NEW w, NEW b, OfOneSeries(b), Ready(w, b) \/ YieldReady(w, b)
  PROVE  \A v \in ToSet(b.samples) : SameSeries(v, w)
<1>1. Len(b.samples) > 0 /\ SameSeries(Last(b.samples), w)
  BY DEF Ready, YieldReady, Matches, Count
<1>2. Len(b.samples) \in 1..Len(b.samples)
  BY <1>1 DEF OfOneSeries
<1>3. \A k \in 1..Len(b.samples) : SameSeries(b.samples[k], b.samples[Len(b.samples)])
  BY <1>2 DEF OfOneSeries
<1>4. \A k \in 1..Len(b.samples) : SameSeries(b.samples[k], w)
  BY <1>1, <1>3 DEF SameSeries, Last
<1>5. DOMAIN b.samples = 1..Len(b.samples)
  BY DEF OfOneSeries
<1> QED
  BY <1>4, <1>5 DEF ToSet

LEMMA DecisionIsEvidenced ==
  ASSUME NEW S, NEW ws \in Seq(S), NEW b, OfOneSeries(b), NEW due, NEW certain
  PROVE  LET reasons == Decision(ws, b, due, certain).reasons
             samples == ToSet(b.samples)
         IN  /\ reasons \cap (VolumeReasons \cup YieldReasons) # {} =>
                  \A v \in samples : SameSeries(v, Last(ws))
             /\ "proactive_quality_drop" \in reasons =>
                  /\ \A v \in samples : SameSeries(v, Last(ws))
                  /\ b.trusted /\ Matches(Last(ws), b)
             /\ reasons \cap YieldReasons # {} => \E v \in samples : AboveBenchmark(v)
             /\ "zero_ads_repeated" \in reasons => Repeated(ws, Policy.zeroWindows)
             /\ "absolute_low_ad_yield" \in reasons => Repeated(ws, Policy.absoluteWindows)
             /\ "ads_per_hour_below_baseline" \in reasons => Repeated(ws, Policy.lowWindows)
             /\ "ads_per_scroll_below_baseline" \in reasons => Repeated(ws, Policy.lowWindows)
<1> DEFINE w == Last(ws)
           reasons == Decision(ws, b, due, certain).reasons
           samples == ToSet(b.samples)
<1>0. /\ Policy.zeroWindows \in Nat \ {0} /\ Policy.absoluteWindows \in Nat \ {0}
      /\ Policy.lowWindows \in Nat \ {0} /\ Policy.softWindows \in Nat \ {0}
  BY HealthAssumption
<1>1. \A r \in reasons :
        \/ r = "periodic_account_maintenance" \/ r \in Outright(ws)
        \/ r \in AgainstVolume(ws, b) \/ r \in AgainstRelevance(ws, b, certain)
  BY ReasonsAre
<1> HIDE DEF reasons
<1>2. ASSUME NEW r \in reasons, r \in VolumeReasons
      PROVE  r \in AgainstVolume(ws, b)
  <2>1. r # "periodic_account_maintenance"
    BY <1>2 DEF VolumeReasons
  <2>2. r \notin Outright(ws)
    <3> SUFFICES ASSUME r \in Outright(ws) PROVE FALSE
      OBVIOUS
    <3>1. r \in {"zero_ads_repeated", "absolute_low_ad_yield", "relevance_below_benchmark"}
      BY OutrightMeans
    <3> QED
      BY <1>2, <3>1 DEF VolumeReasons
  <2>3. r \notin AgainstRelevance(ws, b, certain)
    <3> SUFFICES ASSUME r \in AgainstRelevance(ws, b, certain) PROVE FALSE
      OBVIOUS
    <3>1. r \in YieldReasons \cup {"relevance_rate_too_low"}
      BY RelevanceMeans
    <3> QED
      BY <1>2, <3>1 DEF VolumeReasons, YieldReasons
  <2> QED
    BY <1>1, <2>1, <2>2, <2>3
<1>3. ASSUME NEW r \in reasons, r \in YieldReasons
      PROVE  YieldReady(w, b) /\ Classified(w)
  <2>1. r \notin Outright(ws)
    <3> SUFFICES ASSUME r \in Outright(ws) PROVE FALSE
      OBVIOUS
    <3>1. r \in {"zero_ads_repeated", "absolute_low_ad_yield", "relevance_below_benchmark"}
      BY OutrightMeans
    <3> QED
      BY <1>3, <3>1 DEF YieldReasons
  <2>2. r \notin AgainstVolume(ws, b)
    <3> SUFFICES ASSUME r \in AgainstVolume(ws, b) PROVE FALSE
      OBVIOUS
    <3>1. r \in VolumeReasons \cup {"proactive_quality_drop"}
      BY VolumeMeans
    <3> QED
      BY <1>3, <3>1 DEF VolumeReasons, YieldReasons
  <2>3. r # "periodic_account_maintenance" /\ r # "relevance_rate_too_low"
    BY <1>3 DEF YieldReasons
  <2>4. r \in AgainstRelevance(ws, b, certain)
    BY <1>1, <2>1, <2>2, <2>3
  <2>5. /\ YieldReady(w, b)
        /\ \/ Classified(w)
           \/ RateBelow(ws, b, Policy.lowRatio, Policy.rateDrop) >= Policy.lowWindows
           \/ RateBelow(ws, b, Policy.watchRatio, 0) >= Policy.softWindows
    BY <2>3, <2>4, RelevanceMeans
  <2> QED
    BY <1>0, <2>5, RateDropIsClassified
<1>4. ASSUME reasons \cap (VolumeReasons \cup YieldReasons) # {}
      PROVE  \A v \in samples : SameSeries(v, w)
  <2>1. PICK r \in reasons : r \in VolumeReasons \/ r \in YieldReasons
    BY <1>4
  <2>2. Ready(w, b) \/ YieldReady(w, b)
    BY <1>2, <1>3, <2>1, VolumeMeans
  <2> QED
    BY <2>2, SamplesMatch
<1>5. ASSUME reasons \cap YieldReasons # {}
      PROVE  \E v \in samples : AboveBenchmark(v)
  <2>1. YieldReady(w, b) /\ Classified(w)
    BY <1>3, <1>5
  <2>2. b.source = "relevance"
    BY <2>1 DEF YieldReady, Source
  <2> QED
    BY <2>2 DEF OfOneSeries, ToSet
<1>6. ASSUME NEW r \in reasons, r \in {"zero_ads_repeated", "absolute_low_ad_yield"}
      PROVE  r \in Outright(ws)
  <2>1. r \notin AgainstVolume(ws, b)
    <3> SUFFICES ASSUME r \in AgainstVolume(ws, b) PROVE FALSE
      OBVIOUS
    <3>1. r \in VolumeReasons \cup {"proactive_quality_drop"}
      BY VolumeMeans
    <3> QED
      BY <1>6, <3>1 DEF VolumeReasons
  <2>2. r \notin AgainstRelevance(ws, b, certain)
    <3> SUFFICES ASSUME r \in AgainstRelevance(ws, b, certain) PROVE FALSE
      OBVIOUS
    <3>1. r \in YieldReasons \cup {"relevance_rate_too_low"}
      BY RelevanceMeans
    <3> QED
      BY <1>6, <3>1 DEF YieldReasons
  <2>3. r # "periodic_account_maintenance"
    BY <1>6
  <2> QED
    BY <1>1, <2>1, <2>2, <2>3
<1>7. ASSUME "zero_ads_repeated" \in reasons
      PROVE  Repeated(ws, Policy.zeroWindows)
  <2>1. ZeroAds(ws) >= Policy.zeroWindows
    BY <1>6, <1>7, OutrightMeans
  <2> DEFINE Q == {i \in InSeries(ws) : ValidObservation(ws[i]) /\ ws[i].ads = 0}
  <2>2. Streak(ws, Q) >= Policy.zeroWindows
    BY <2>1 DEF ZeroAds
  <2>3. \A i \in Q : i \in InSeries(ws) /\ ValidObservation(ws[i])
    OBVIOUS
  <2> HIDE DEF Q
  <2> QED
    BY <1>0, <2>2, <2>3, StreakRepeats
<1>8. ASSUME "absolute_low_ad_yield" \in reasons
      PROVE  Repeated(ws, Policy.absoluteWindows)
  <2>1. FewAds(ws) >= Policy.absoluteWindows
    BY <1>6, <1>8, OutrightMeans
  <2> DEFINE Q == {i \in InSeries(ws) : /\ ValidObservation(ws[i])
                                        /\ ws[i].adsPerHour <= Policy.absoluteLowAds}
  <2>2. Streak(ws, Q) >= Policy.absoluteWindows
    BY <2>1 DEF FewAds
  <2>3. \A i \in Q : i \in InSeries(ws) /\ ValidObservation(ws[i])
    OBVIOUS
  <2> HIDE DEF Q
  <2> QED
    BY <1>0, <2>2, <2>3, StreakRepeats
<1>9. ASSUME "ads_per_hour_below_baseline" \in reasons
      PROVE  Repeated(ws, Policy.lowWindows)
  <2>1. "ads_per_hour_below_baseline" \in AgainstVolume(ws, b)
    BY <1>2, <1>9 DEF VolumeReasons
  <2>2. SevereAds(ws, b)
    BY <2>1, VolumeMeans
  <2> DEFINE Q == {i \in InSeries(ws) :
                     /\ ValidObservation(ws[i])
                     /\ FarBelow(ws[i].adsPerHour, b.adsPerHour, Policy.lowRatio, Policy.adsDrop)}
  <2>3. Streak(ws, Q) >= Policy.lowWindows
    BY <2>2 DEF SevereAds, AdsBelow
  <2>4. \A i \in Q : i \in InSeries(ws) /\ ValidObservation(ws[i])
    OBVIOUS
  <2> HIDE DEF Q
  <2> QED
    BY <1>0, <2>3, <2>4, StreakRepeats
<1>10. ASSUME "ads_per_scroll_below_baseline" \in reasons
       PROVE  Repeated(ws, Policy.lowWindows)
  <2>1. "ads_per_scroll_below_baseline" \in AgainstVolume(ws, b)
    BY <1>2, <1>10 DEF VolumeReasons
  <2>2. SevereDensity(ws, b)
    BY <2>1, VolumeMeans
  <2> DEFINE Q == {i \in InSeries(ws) :
                     /\ ValidObservation(ws[i])
                     /\ FarBelow(ws[i].density, b.density, Policy.lowRatio, Policy.densityDrop)}
  <2>3. Streak(ws, Q) >= Policy.lowWindows
    BY <2>2 DEF SevereDensity, DensityBelow
  <2>4. \A i \in Q : i \in InSeries(ws) /\ ValidObservation(ws[i])
    OBVIOUS
  <2> HIDE DEF Q
  <2> QED
    BY <1>0, <2>3, <2>4, StreakRepeats
<1>12. ASSUME "proactive_quality_drop" \in reasons
       PROVE  (\A v \in samples : SameSeries(v, w)) /\ b.trusted /\ Matches(w, b)
  <2>1. "proactive_quality_drop" \notin Outright(ws)
    BY OutrightMeans
  <2>2. "proactive_quality_drop" \notin AgainstRelevance(ws, b, certain)
    <3>1. "proactive_quality_drop" \notin YieldReasons
      BY DEF YieldReasons
    <3> QED
      BY <3>1, RelevanceMeans
  <2>3. "proactive_quality_drop" \in AgainstVolume(ws, b)
    BY <1>1, <1>12, <2>1, <2>2
  <2>4. Ready(w, b) /\ b.trusted
    BY <2>3, VolumeMeans
  <2>5. \A v \in samples : SameSeries(v, w)
    BY <2>4, SamplesMatch
  <2> QED
    BY <2>4, <2>5 DEF Ready
<1> HIDE DEF samples
<1>11. /\ reasons \cap (VolumeReasons \cup YieldReasons) # {} =>
            \A v \in samples : SameSeries(v, w)
       /\ "proactive_quality_drop" \in reasons =>
            /\ \A v \in samples : SameSeries(v, w)
            /\ b.trusted /\ Matches(w, b)
       /\ reasons \cap YieldReasons # {} => \E v \in samples : AboveBenchmark(v)
       /\ "zero_ads_repeated" \in reasons => Repeated(ws, Policy.zeroWindows)
       /\ "absolute_low_ad_yield" \in reasons => Repeated(ws, Policy.absoluteWindows)
       /\ "ads_per_hour_below_baseline" \in reasons => Repeated(ws, Policy.lowWindows)
       /\ "ads_per_scroll_below_baseline" \in reasons => Repeated(ws, Policy.lowWindows)
  BY <1>4, <1>5, <1>7, <1>8, <1>9, <1>10, <1>12
<1> QED
  BY <1>11 DEF reasons, samples

-----------------------------------------------------------------------------
(* The file of a profile.                                                  *)

Statuses == {"blocked", "watch", "calibrate", "healthy"}

FileInv ==
  /\ runs \in Seq(OnFile) /\ Len(runs) <= Keep
  /\ pending # None => pending.window \in Windows /\ pending.status \in Statuses
  /\ seeds \in 0..MaxSeeds

\* seed-baseline finds the same window again.
LEMMA UncheckedTwice ==
  ASSUME NEW c
  PROVE  Unchecked(Unchecked(Measured(c))) = Unchecked(Measured(c))
<1> DEFINE w == Measured(c)
<1>1. w = [x \in DOMAIN w |-> w[x]]
  BY DEF Measured
<1> HIDE DEF w
<1>2. Unchecked(w) = [x \in DOMAIN w |-> IF x = "completed" THEN TRUE ELSE w[x]]
  BY <1>1 DEF Unchecked
<1> DEFINE u == Unchecked(w)
<1>3. /\ DOMAIN u = DOMAIN w
      /\ \A x \in DOMAIN w : u[x] = IF x = "completed" THEN TRUE ELSE w[x]
  BY <1>2
<1>4. Unchecked(u) = [x \in DOMAIN u |-> IF x = "completed" THEN TRUE ELSE u[x]]
  BY <1>2 DEF Unchecked
<1>5. Unchecked(u) = [x \in DOMAIN w |-> IF x = "completed" THEN TRUE ELSE w[x]]
  BY <1>3, <1>4
<1> QED
  BY <1>2, <1>5 DEF w, u

LEMMA UncheckedIsSeen == ASSUME NEW w \in Seen PROVE Unchecked(w) \in Seen
<1>1. CASE w \in Windows
  BY <1>1 DEF Seen
<1>2. CASE w \notin Windows
  <2>1. PICK c \in Collections : w = Unchecked(Measured(c))
    BY <1>2 DEF Seen, Windows
  <2>2. Unchecked(w) = Unchecked(Measured(c)) /\ Measured(c) \in Windows
    BY <2>1, UncheckedTwice DEF Windows
  <2> QED
    BY <2>2 DEF Seen
<1> QED
  BY <1>1, <1>2

LEMMA RunOnFile ==
  ASSUME NEW w \in Seen, NEW a \in BOOLEAN, NEW t \in BOOLEAN, NEW seed \in BOOLEAN,
         NEW d \in BOOLEAN, t => AboveBenchmark(w)
  PROVE  [window |-> w, candidate |-> a, trusted |-> t, seed |-> seed, superseded |-> d]
           \in OnFile
BY DEF OnFile

\* One more run on file; the oldest leaves.
LEMMA FileGrows ==
  ASSUME NEW s \in Seq(OnFile), NEW r \in OnFile
  PROVE  Stored(Append(s, r)) \in Seq(OnFile) /\ Len(Stored(Append(s, r))) <= Keep
<1>1. Append(s, r) \in Seq(OnFile) /\ Keep \in Nat \ {0}
  BY HealthAssumption
<1> QED
  BY <1>1, NewestIsPart DEF Stored

LEMMA DecisionFields ==
  ASSUME NEW ws, NEW b, NEW due, NEW certain
  PROVE  LET d == Decision(ws, b, due, certain)
         IN  /\ d.window = Last(ws) /\ d.baseline = b
             /\ d.status \in Statuses
BY DEF Decision, Statuses

LEMMA JudgedWindow ==
  ASSUME NEW S, NEW s \in Seq(S), NEW w \in S
  PROVE  Append(s, w) \in Seq(S) /\ Last(Append(s, w)) = w
BY DEF Last

LEMMA HealthStep == FileInv /\ [HealthNext]_healthVars => FileInv'
<1> SUFFICES ASSUME FileInv, [HealthNext]_healthVars PROVE FileInv'
  OBVIOUS
<1>1. /\ runs \in Seq(OnFile) /\ Len(runs) <= Keep
      /\ pending # None => pending.window \in Windows /\ pending.status \in Statuses
      /\ seeds \in 0..MaxSeeds
  BY DEF FileInv
<1>2. Windows \subseteq Seen
  BY DEF Seen
<1>3. CASE Judging
  <2>1. PICK w \in Windows, due \in BOOLEAN, certain \in 0..2 : Judge(w, due, certain)
    BY <1>3 DEF Judging
  <2>2. /\ pending' = Decision(Append(History, w), Reference, due, certain)
        /\ runs' = runs /\ seeds' = seeds
    BY <2>1 DEF Judge
  <2>3. Last(Append(History, w)) = w
    BY <1>1, <1>2, ReferenceIsOfOneSeries, JudgedWindow
  <2>4. pending'.window = w /\ pending'.status \in Statuses
    BY <2>2, <2>3, DecisionFields
  <2> QED
    BY <1>1, <2>2, <2>4 DEF FileInv
<1>4. CASE RecordRun
  <2> DEFINE r == [window |-> pending.window, candidate |-> Candidate(pending),
                   trusted |-> Trusted(pending), seed |-> FALSE, superseded |-> FALSE]
  <2>1. /\ pending # None /\ pending' = None /\ seeds' = seeds
        /\ runs' = Stored(Append(runs, r))
    BY <1>4 DEF RecordRun
  <2>2. Candidate(pending) \in BOOLEAN /\ Trusted(pending) \in BOOLEAN
    BY Zenon DEF Candidate, Trusted
  <2>3. pending.window \in Seen
    BY <1>1, <1>2, <2>1
  <2>6. Trusted(pending) => AboveBenchmark(pending.window)
    BY Zenon DEF Trusted
  <2>4. r \in OnFile
    BY <2>2, <2>3, <2>6, RunOnFile, Zenon
  <2> HIDE DEF r
  <2>5. runs' \in Seq(OnFile) /\ Len(runs') <= Keep
    BY <1>1, <2>1, <2>4, FileGrows
  <2> QED
    BY <1>1, <2>1, <2>5 DEF FileInv
<1>5. CASE Seed
  <2>0. MaxSeeds \in Nat
    BY HealthAssumption
  <2>1. seeds' \in 0..MaxSeeds /\ pending' = pending
    BY <1>1, <1>5, <2>0 DEF Seed
  <2>2. \A w \in Seen : Seeded(w) \in OnFile
    BY RunOnFile DEF Seeded
  <2>3. runs' \in Seq(OnFile) /\ Len(runs') <= Keep
    <3>1. ASSUME NEW v \in Windows, runs' = Stored(Append(runs, Seeded(Unchecked(v))))
          PROVE  runs' \in Seq(OnFile) /\ Len(runs') <= Keep
      <4>1. Seeded(Unchecked(v)) \in OnFile
        BY <1>2, <2>2, UncheckedIsSeen
      <4> QED
        BY <1>1, <3>1, <4>1, FileGrows
    <3>2. ASSUME NEW i \in DOMAIN runs,
                 runs' = Stored(Append([runs EXCEPT ![i].superseded = TRUE],
                                       Seeded(Unchecked(runs[i].window))))
          PROVE  runs' \in Seq(OnFile) /\ Len(runs') <= Keep
      <4> DEFINE again == [runs EXCEPT ![i].superseded = TRUE]
      <4>1. runs[i] \in OnFile
        BY <1>1
      <4>2. runs[i].window \in Seen /\ [runs[i] EXCEPT !.superseded = TRUE] \in OnFile
        BY <4>1 DEF OnFile
      <4>3. again \in Seq(OnFile)
        BY <1>1, <4>2
      <4>4. Seeded(Unchecked(runs[i].window)) \in OnFile
        BY <2>2, <4>2, UncheckedIsSeen
      <4> HIDE DEF again
      <4>5. runs' = Stored(Append(again, Seeded(Unchecked(runs[i].window))))
        BY <3>2 DEF again
      <4> QED
        BY <4>3, <4>4, <4>5, FileGrows
    <3>3. \/ \E v \in Windows : runs' = Stored(Append(runs, Seeded(Unchecked(v))))
          \/ \E i \in DOMAIN runs :
               runs' = Stored(Append([runs EXCEPT ![i].superseded = TRUE],
                                     Seeded(Unchecked(runs[i].window))))
      BY <1>5 DEF Seed
    <3> QED
      BY <3>1, <3>2, <3>3
  <2> QED
    BY <1>1, <2>1, <2>3 DEF FileInv
<1>6. CASE UNCHANGED healthVars
  BY <1>1, <1>6 DEF healthVars, FileInv
<1> QED
  BY <1>3, <1>4, <1>5, <1>6 DEF HealthNext

LEMMA HealthStart == HealthInit => FileInv
<1>1. <<>> \in Seq(OnFile) /\ Len(<<>>) = 0
  OBVIOUS
<1>2. Keep \in Nat /\ MaxSeeds \in Nat
  BY HealthAssumption
<1> QED
  BY <1>1, <1>2 DEF HealthInit, FileInv

\* For every set of collections, every policy and every number of seeds: the file holds
\* at most as many runs as it keeps, each with the window of a collection.
THEOREM HealthTypeCorrect == HealthSpec => []HealthTypeOK
<1>1. FileInv => HealthTypeOK
  <2> SUFFICES ASSUME FileInv PROVE HealthTypeOK
    OBVIOUS
  <2>1. \A r \in OnFile : /\ r.window \in Windows \cup {Unchecked(w) : w \in Windows}
                          /\ \A f \in Flags : r[f] \in BOOLEAN
    BY DEF OnFile, Seen, Flags
  <2>2. \A i \in DOMAIN runs : runs[i] \in OnFile
    BY DEF FileInv
  <2> QED
    BY <2>1, <2>2 DEF HealthTypeOK, FileInv, Statuses
<1> QED
  BY <1>1, HealthStart, HealthStep, PTL DEF HealthSpec

LEMMA JudgedOnEvidence ==
  FileInv /\ [HealthNext]_healthVars => (pending = None /\ pending' # None => Evidence')
<1> SUFFICES ASSUME FileInv, [HealthNext]_healthVars, pending = None, pending' # None
             PROVE  Evidence'
  OBVIOUS
<1>1. Judging
  BY DEF HealthNext, RecordRun, Seed, healthVars
<1>2. PICK w \in Windows, due \in BOOLEAN, certain \in 0..2 : Judge(w, due, certain)
  BY <1>1 DEF Judging
<1> DEFINE ws == Append(History, w)
           b == Reference
<1>3. pending' = Decision(ws, b, due, certain) /\ runs' = runs
  BY <1>2 DEF Judge
<1>4. History \in Seq(Seen) /\ OfOneSeries(b)
  BY ReferenceIsOfOneSeries DEF FileInv
<1>5. w \in Seen
  BY DEF Seen
<1>6. ws \in Seq(Seen) /\ Last(ws) = w
  BY <1>4, <1>5, JudgedWindow
<1>7. History' = History
  BY <1>3 DEF History
<1> HIDE DEF ws, b
<1>8. pending'.window = w /\ pending'.baseline = b
  BY <1>3, <1>6, DecisionFields
<1>9. Append(History', pending'.window) = ws
  BY <1>7, <1>8 DEF ws
<1> DEFINE reasons == pending'.reasons
<1>10. reasons = Decision(ws, b, due, certain).reasons
  BY <1>3
<1> HIDE DEF reasons
<1>11. /\ reasons \cap (VolumeReasons \cup YieldReasons) # {} =>
            \A v \in ToSet(b.samples) : SameSeries(v, w)
       /\ "proactive_quality_drop" \in reasons =>
            /\ \A v \in ToSet(b.samples) : SameSeries(v, w)
            /\ b.trusted /\ Matches(w, b)
       /\ reasons \cap YieldReasons # {} => \E v \in ToSet(b.samples) : AboveBenchmark(v)
       /\ "zero_ads_repeated" \in reasons => Repeated(ws, Policy.zeroWindows)
       /\ "absolute_low_ad_yield" \in reasons => Repeated(ws, Policy.absoluteWindows)
       /\ "ads_per_hour_below_baseline" \in reasons => Repeated(ws, Policy.lowWindows)
       /\ "ads_per_scroll_below_baseline" \in reasons => Repeated(ws, Policy.lowWindows)
  BY <1>4, <1>6, <1>10, DecisionIsEvidenced
<1>12. /\ \A r : reasons \cap {r} # {} => r \in reasons
       /\ \A r, q : reasons \cap {r, q} # {} => r \in reasons \/ q \in reasons
       /\ \A T, r : reasons \cap (T \cup {r}) # {} => reasons \cap T # {} \/ r \in reasons
  OBVIOUS
<1>13. "proactive_quality_drop" \in reasons =>
         \E i \in DOMAIN runs : /\ SameSeries(runs[i].window, w)
                                /\ runs[i].candidate /\ ~runs[i].superseded
                                /\ (runs[i].seed \/ AboveBenchmark(runs[i].window))
  BY <1>11, TrustIsEarned DEF FileInv, b
<1>14. "proactive_quality_drop" \in reasons =>
         \E i \in DOMAIN runs' : /\ SameSeries(runs'[i].window, w)
                                 /\ runs'[i].candidate /\ ~runs'[i].superseded
                                 /\ (runs'[i].seed \/ AboveBenchmark(runs'[i].window))
  BY <1>3, <1>13
<1>15. reasons \cap (VolumeReasons \cup YieldReasons \cup {"proactive_quality_drop"}) # {} =>
         \A v \in ToSet(b.samples) : SameSeries(v, w)
  BY <1>11, <1>12
<1> QED
  BY <1>8, <1>9, <1>11, <1>12, <1>14, <1>15 DEF Evidence, reasons

\* For every set of collections, every policy, every history and every time of seeding: a
\* drop is stated on samples of the window's own series; a lasting or severe drop of
\* relevance also on samples above the benchmark, a proactive one on a run that was seeded
\* or is above it; repeated windows follow each other without a gap and are long enough.
THEOREM ReasonsAreEvidenced == HealthSpec => ReasonsHaveEvidence
<1>1. HealthSpec => []FileInv
  BY HealthStart, HealthStep, PTL DEF HealthSpec
<1> QED
  BY <1>1, JudgedOnEvidence, PTL DEF HealthSpec, ReasonsHaveEvidence
=============================================================================
