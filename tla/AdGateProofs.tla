---------------------------- MODULE AdGateProofs ----------------------------
(***************************************************************************)
(* What AdGate guarantees for any number of ads, whatever their cards, the *)
(* addresses they lead to and the answers of the model are.                *)
(***************************************************************************)
EXTENDS AdGate, TLAPS

-----------------------------------------------------------------------------
(* The judgement of one ad.                                                *)

\* A verdict that calls an ad relevant has passed the scope rules on what was read.
LEMMA RelevantIsInScope ==
  ASSUME NEW text, NEW shell, NEW prefilter,
         "relevant" \in Outcomes(text, shell, prefilter)
  PROVE  \E claim \in Claims : ~OutOfScope(text, claim)
<1>1. PICK answer \in Binary \cup {"uncertain", "garbage"}, claim \in Claims :
        "relevant" = Guarded(text, shell, answer, claim, prefilter)
  BY DEF Outcomes, Verdicts
<1>2. ~OutOfScope(text, claim)
  BY <1>1 DEF Guarded, Unsure, Scoped, Parsed, Binary
<1> QED
  BY <1>2

\* Only the prefilter can be uncertain.
LEMMA OutcomeTypes ==
  ASSUME NEW text, NEW shell, NEW prefilter \in BOOLEAN,
         NEW verdict \in Outcomes(text, shell, prefilter)
  PROVE  /\ verdict \in {"relevant", "not_relevant", "uncertain", "error"}
         /\ ~prefilter => verdict \in {"relevant", "not_relevant", "error"}
<1>1. CASE verdict = "error"
  BY <1>1
<1>2. CASE verdict \in Verdicts(text, shell, prefilter)
  <2>1. PICK answer \in Binary \cup {"uncertain", "garbage"}, claim \in Claims :
          verdict = Guarded(text, shell, answer, claim, prefilter)
    BY <1>2 DEF Verdicts
  <2> QED
    BY <2>1 DEF Guarded, Unsure, Scoped, Parsed, Binary
<1> QED
  BY <1>1, <1>2 DEF Outcomes

LEMMA Gates ==
  /\ GateFor("relevant") = "allow" /\ GateFor("not_relevant") = "deny"
  /\ GateFor("uncertain") = "hold" /\ GateFor("error") = "hold"
BY DEF GateFor

\* Ads that share a target of the cache end on the same page.
LEMMA SameTargetSameLanding ==
  ASSUME NEW a, NEW b, Candidate(a) # <<>>, CachedFor(a, b)
  PROVE  Leads(a) = Leads(b)
BY DEF CachedFor, Candidate, Leads

-----------------------------------------------------------------------------
(* The inductive invariant.                                                *)

Judgements == {"none", "relevant", "not_relevant", "uncertain", "error"}

RowSet ==
  [gate : {"none", "allow", "deny", "hold"}, pre : Judgements, iso : Judgements \ {"uncertain"},
   res : {"none", "unresolvable", "reused", "failed", "completed"},
   landing : Landings \cup {None}, shot : Landings \cup {None}, id : Ids \cup {None},
   post : Posts \cup {None},
   enr : {"none", "waiting", "blocked", "duplicate", "skipped", "failed", "completed"},
   active : BOOLEAN, infra : BOOLEAN, final : Judgements, saw : SUBSET Terms]

\* The gate of a row is the last judgement's, and what that judgement has read is what
\* the row shows until the profile has acted on the ad.
Gated(a, r) ==
  /\ r.gate = (IF r.iso # "none" THEN GateFor(r.iso)
               ELSE IF r.pre # "none" THEN GateFor(r.pre) ELSE "none")
  /\ r.gate = "allow" /\ r.final = "none" => \E claim \in Claims : ~OutOfScope(r.saw, claim)
  /\ r.active => r.gate = "allow"
  /\ r.pre # "none" /\ r.gate # "hold" /\ ~r.active => r.saw = Text(a, r)

\* Before the profile has found a landing, a row only has that of its own target.
OwnLanding(a, r) ==
  /\ r.landing # None => r.landing = Leads(a) /\ Leads(a) \in Public
  /\ r.shot # None => r.shot = Leads(a)
  /\ r.iso # "none" => r.landing # None /\ r.shot # None

RowOK(a, r) ==
  /\ r \in RowSet /\ Gated(a, r)
  /\ r.enr # "completed" => OwnLanding(a, r)
  /\ r.enr \in {"none", "waiting"} => ~r.active
  /\ r.enr = "completed" => r.active

\* A row with its final verdict.
Concluded(a, r) ==
  /\ r.final \in Binary \cup {"error"}
  /\ r.final = "relevant" => r.gate = "allow"
  /\ r.gate # "hold" => r.saw = Text(a, r)

RowsInv ==
  /\ card \in [Ads -> Cards] /\ rows \in [Ads -> RowSet]
  /\ \A a \in Ads : RowOK(a, rows[a])

\* What each command may rely on.
StageInv ==
  /\ stage \in Commands \cup Ends /\ todo \subseteq Ads /\ cache \subseteq Ads
  /\ stage = "prefilter" => \A a \in Ads : IF a \in todo THEN rows[a] = Row(card[a])
                                                         ELSE rows[a].pre # "none"
  /\ stage \in {"prefilter", "resolve"} => \A a \in Ads : rows[a].iso = "none"
  /\ stage \in {"prefilter", "resolve", "gate"} => \A a \in Ads : rows[a].enr = "none"
  /\ stage \in {"resolve", "gate", "enrich", "finalize", "done"} =>
       \A a \in Ads : rows[a].pre # "none"
  /\ stage \in {"resolve", "gate"} => \A a \in todo : rows[a].gate = "hold"
  /\ Prepared => \A a \in todo : rows[a].gate = "allow" /\ rows[a].enr = "waiting"
  /\ stage = "finalize" => \A a \in Ads \ todo : Concluded(a, rows[a])
  /\ stage = "done" => \A a \in Ads : Concluded(a, rows[a]) /\ rows[a].final # "error"

\* The ad the enricher is at: only a click that has led somewhere changes its landing,
\* and only after the profile has opened the post.
DraftOK(d, at) ==
  /\ d \in RowSet /\ Gated(current, d) /\ d.gate = "allow" /\ d.pre # "none"
  /\ IF at = "ended" THEN d.enr \in {"skipped", "failed", "completed"} ELSE d.enr = "waiting"
  /\ at # "merge" /\ d.enr # "completed" => OwnLanding(current, d)
  /\ at = "recover" => ~d.active
  /\ at \in {"locate", "video", "landing", "click", "shown", "merge"}
       \/ d.enr = "completed" => d.active

DraftInv ==
  /\ current \in Ads \cup {0} /\ step \in Steps /\ found \in Landings \cup {None}
  /\ step # "idle" => Prepared /\ current \in todo /\ DraftOK(draft, step)

TabsInv ==
  /\ tabs \subseteq {"home", "post", "landing"} /\ playing \in BOOLEAN /\ alive \in BOOLEAN
  /\ stage \notin {"enrich", "interrupted", "crashed"} => tabs \subseteq {"home"} /\ ~playing
  /\ stage = "enrich" /\ (seen = {} \/ \A a \in Ads : rows[a].enr = "none") =>
       step = "idle" /\ tabs \subseteq {"home"} /\ ~playing

GateInv == RowsInv /\ StageInv /\ DraftInv /\ TabsInv

-----------------------------------------------------------------------------
(* Types of the constants and of a card.                                   *)

LEMMA LandingTypes ==
  /\ None \notin Landings /\ None \notin Posts /\ None \notin Ids
  /\ \A l \in Landings : /\ LandingText[l] \in SUBSET Terms /\ Redirect[l] \in Landings
                         /\ LandingId[l] \in Ids \cup {None}
  /\ \A p \in Posts : PostLanding[p] \in Landings
  /\ Public \subseteq Landings
BY GateAssumption, CaptureAssumption

LEMMA CardTypes ==
  ASSUME card \in [Ads -> Cards], NEW a \in Ads
  PROVE  /\ card[a].text \in SUBSET Terms /\ card[a].shell \in BOOLEAN
         /\ card[a].cta \in Landings \cup {None} /\ card[a].post \in Posts \cup {None}
         /\ card[a].id \in Ids \cup {None}
BY GateAssumption

LEMMA TextTypes ==
  ASSUME card \in [Ads -> Cards], NEW a \in Ads, NEW r \in RowSet
  PROVE  Text(a, r) \in SUBSET Terms
BY CardTypes, LandingTypes DEF Text, RowSet

\* A row that has a target leads to an address, and only public addresses pass.
LEMMA LeadsTypes ==
  ASSUME card \in [Ads -> Cards], NEW a \in Ads, Candidate(a) # <<>>
  PROVE  /\ Leads(a) \in Landings
         /\ External(Leads(a)) # None => Leads(a) \in Public
<1>1. card[a].cta \in Landings \cup {None} /\ card[a].post \in Posts \cup {None}
  BY CardTypes
<1>2. Leads(a) \in Landings
  BY <1>1, LandingTypes DEF Candidate, Leads, External
<1> QED
  BY <1>2, LandingTypes DEF External

-----------------------------------------------------------------------------
(* A step that rewrites one row.                                           *)

LEMMA OneRow ==
  ASSUME RowsInv, NEW a \in Ads, NEW r, RowOK(a, r), Only(a, r), card' = card
  PROVE  /\ RowsInv' /\ rows'[a] = r
         /\ \A b \in Ads \ {a} : rows'[b] = rows[b]
<1>1. rows'[a] = r /\ \A b \in Ads \ {a} : rows'[b] = rows[b]
  BY DEF Only, RowsInv
<1>2. rows' \in [Ads -> RowSet]
  BY DEF Only, RowsInv, RowOK
<1>3. ASSUME NEW b \in Ads
      PROVE  RowOK(b, rows[b])'
  <2>1. RowOK(b, rows'[b])
    BY <1>1 DEF RowsInv
  <2> QED
    BY <2>1 DEF RowOK, Gated, OwnLanding, Text, Leads, External
<1> QED
  BY <1>1, <1>2, <1>3 DEF RowsInv

\* The row in turn is done: what the rest of the command and the next one rely on.
LEMMA RowInTurn ==
  ASSUME RowsInv, StageInv, NEW a \in todo, NEW r, RowOK(a, r), Only(a, r),
         todo' = todo \ {a}, stage' = stage, card' = card, cache' \subseteq Ads,
         stage \in Commands, stage = "enrich" => Prepared,
         r.pre # "none",
         stage \in {"prefilter", "resolve"} => r.iso = "none",
         stage \in {"prefilter", "resolve", "gate"} => r.enr = "none",
         stage = "finalize" => Concluded(a, r)
  PROVE  RowsInv' /\ StageInv'
<1>1. a \in Ads /\ todo \subseteq Ads
  BY DEF StageInv
<1>2. /\ RowsInv' /\ rows'[a] = r
      /\ \A b \in Ads \ {a} : rows'[b] = rows[b]
  BY <1>1, OneRow
<1>3. stage' = "prefilter" => \A b \in Ads : IF b \in todo' THEN rows'[b] = Row(card'[b])
                                                           ELSE rows'[b].pre # "none"
  BY <1>1, <1>2 DEF StageInv
<1>4. /\ stage' \in {"prefilter", "resolve"} => \A b \in Ads : rows'[b].iso = "none"
      /\ stage' \in {"prefilter", "resolve", "gate"} => \A b \in Ads : rows'[b].enr = "none"
  BY <1>1, <1>2 DEF StageInv
<1>5. stage' \in {"resolve", "gate", "enrich", "finalize", "done"} =>
        \A b \in Ads : rows'[b].pre # "none"
  BY <1>1, <1>2 DEF StageInv
<1>6. stage' \in {"resolve", "gate"} => \A b \in todo' : rows'[b].gate = "hold"
  BY <1>1, <1>2 DEF StageInv
<1>7. Prepared' => \A b \in todo' : rows'[b].gate = "allow" /\ rows'[b].enr = "waiting"
  BY <1>1, <1>2 DEF StageInv, Prepared
<1>8. stage' = "finalize" => \A b \in Ads \ todo' : Concluded(b, rows[b])'
  <2>1. stage = "finalize" => \A b \in Ads \ todo' : Concluded(b, rows'[b])
    BY <1>1, <1>2 DEF StageInv
  <2> QED
    BY <2>1 DEF Concluded, Text
<1>9. stage' # "done" /\ stage' \in Commands
  BY DEF Commands
<1>10. cache' \subseteq Ads /\ todo' \subseteq Ads
  BY <1>1
<1> QED
  BY <1>2, <1>3, <1>4, <1>5, <1>6, <1>7, <1>8, <1>9, <1>10 DEF StageInv

-----------------------------------------------------------------------------
(* What each command makes of a row.                                       *)

\* The prefilter has read the card, which is all a row shows at that time.
LEMMA PrefilteredRow ==
  ASSUME RowsInv, NEW a \in Ads, rows[a] = Row(card[a]),
         NEW verdict \in Outcomes(card[a].text, card[a].shell, TRUE),
         NEW r, r = [rows[a] EXCEPT !.pre = verdict, !.gate = GateFor(verdict),
                                    !.saw = card[a].text]
  PROVE  RowOK(a, r) /\ r.pre # "none" /\ r.iso = "none" /\ r.enr = "none"
<1>1. rows[a] \in RowSet /\ card[a].text \in SUBSET Terms
  BY CardTypes DEF RowsInv
<1>2. verdict \in {"relevant", "not_relevant", "uncertain", "error"}
  BY OutcomeTypes
<1>3. r \in RowSet
  <2>1. GateFor(verdict) \in {"allow", "deny", "hold"}
    BY <1>2, Gates
  <2> QED
    BY <1>1, <1>2, <2>1 DEF RowSet, Judgements
<1>4. /\ rows[a].iso = "none" /\ rows[a].landing = None /\ rows[a].shot = None
      /\ rows[a].active = FALSE /\ rows[a].enr = "none"
  BY DEF Row
<1>5. /\ r.gate = GateFor(verdict) /\ r.pre = verdict /\ r.saw = card[a].text
      /\ r.iso = "none" /\ r.landing = None /\ r.shot = None /\ r.active = FALSE
      /\ r.enr = "none"
  BY <1>1, <1>4 DEF RowSet
<1>6. r.gate = "allow" => \E claim \in Claims : ~OutOfScope(r.saw, claim)
  <2>1. SUFFICES ASSUME r.gate = "allow" PROVE \E claim \in Claims : ~OutOfScope(r.saw, claim)
    OBVIOUS
  <2>2. verdict = "relevant"
    BY <1>2, <1>5, <2>1, Gates
  <2> QED
    BY <1>5, <2>2, RelevantIsInScope
<1>7. Gated(a, r)
  BY <1>2, <1>5, <1>6 DEF Gated, Text
<1>8. OwnLanding(a, r)
  BY <1>5 DEF OwnLanding
<1> QED
  BY <1>2, <1>3, <1>5, <1>7, <1>8 DEF RowOK

\* The resolver only writes to rows that are held, and only what belongs to them.
LEMMA ResolvedRow ==
  ASSUME RowsInv, NEW a \in Ads, rows[a].gate = "hold", rows[a].iso = "none",
         NEW r \in RowSet,
         r.gate = "hold", r.iso = "none", r.pre = rows[a].pre, r.active = rows[a].active,
         r.enr = rows[a].enr, r.saw = rows[a].saw, r.final = rows[a].final,
         r.landing # None => r.landing = Leads(a) /\ Leads(a) \in Public,
         r.shot # None => r.shot = Leads(a)
  PROVE  RowOK(a, r)
<1>1. RowOK(a, rows[a])
  BY DEF RowsInv
<1>2. Gated(a, r)
  BY <1>1 DEF RowOK, Gated
<1>3. OwnLanding(a, r)
  BY DEF OwnLanding
<1> QED
  BY <1>1, <1>2, <1>3 DEF RowOK

\* The second gate has read the card and the landing.
LEMMA JudgedRow ==
  ASSUME RowsInv, NEW a \in Ads, rows[a].gate = "hold", Available(rows[a]),
         NEW verdict \in Judged(a),
         NEW r, r = [rows[a] EXCEPT !.iso = verdict, !.gate = GateFor(verdict),
                                    !.saw = Text(a, rows[a])]
  PROVE  RowOK(a, r) /\ r.pre = rows[a].pre /\ r.enr = rows[a].enr
<1>1. RowOK(a, rows[a])
  BY DEF RowsInv
<1>2. verdict \in {"relevant", "not_relevant", "error"}
  BY OutcomeTypes DEF Judged
<1>3. Text(a, rows[a]) \in SUBSET Terms
  BY TextTypes DEF RowsInv
<1>4. r \in RowSet
  BY <1>1, <1>2, <1>3, Gates DEF RowOK, RowSet, Judgements
<1>5. /\ r.gate = GateFor(verdict) /\ r.iso = verdict /\ r.pre = rows[a].pre
      /\ r.landing = rows[a].landing /\ r.shot = rows[a].shot
      /\ r.active = rows[a].active /\ r.enr = rows[a].enr
      /\ r.saw = Text(a, rows[a]) /\ r.final = rows[a].final
  BY <1>1 DEF RowOK, RowSet
<1>6. r.gate = "allow" => \E claim \in Claims : ~OutOfScope(r.saw, claim)
  <2>1. SUFFICES ASSUME r.gate = "allow" PROVE \E claim \in Claims : ~OutOfScope(r.saw, claim)
    OBVIOUS
  <2>2. verdict = "relevant"
    BY <1>2, <1>5, <2>1, Gates
  <2>3. "relevant" \in Outcomes(r.saw, card[a].shell, FALSE)
    BY <1>5, <2>2 DEF Judged
  <2> QED
    BY <2>3, RelevantIsInScope
<1>7. ~rows[a].active
  BY <1>1 DEF RowOK, Gated
<1>8. Text(a, r) = Text(a, rows[a])
  BY <1>5 DEF Text
<1>9. Gated(a, r)
  BY <1>2, <1>5, <1>6, <1>7, <1>8 DEF Gated
<1>10. r.enr # "completed" => OwnLanding(a, r)
  BY <1>1, <1>5 DEF RowOK, OwnLanding, Available
<1> QED
  BY <1>1, <1>4, <1>5, <1>9, <1>10 DEF RowOK

\* The mark of a row that the enricher does not open.
LEMMA MarkedRow ==
  ASSUME RowsInv, NEW a \in Ads, rows[a].enr \in {"none", "waiting"},
         NEW mark \in {"waiting", "blocked", "duplicate"},
         NEW r, r = [rows[a] EXCEPT !.enr = mark]
  PROVE  /\ RowOK(a, r) /\ r.enr = mark
         /\ r.gate = rows[a].gate /\ r.pre = rows[a].pre /\ r.iso = rows[a].iso
<1>1. RowOK(a, rows[a])
  BY DEF RowsInv
<1>2. r \in RowSet
  BY <1>1 DEF RowOK, RowSet
<1>3. /\ r.gate = rows[a].gate /\ r.iso = rows[a].iso /\ r.pre = rows[a].pre
      /\ r.landing = rows[a].landing /\ r.shot = rows[a].shot /\ r.active = rows[a].active
      /\ r.enr = mark /\ r.saw = rows[a].saw /\ r.final = rows[a].final
  BY <1>1 DEF RowOK, RowSet
<1>4. Gated(a, r) /\ OwnLanding(a, r)
  BY <1>1, <1>3 DEF RowOK, Gated, OwnLanding, Text
<1> QED
  BY <1>1, <1>2, <1>3, <1>4 DEF RowOK

\* A final verdict: the one that set the gate, or one on what the row shows now.
LEMMA SettledRow ==
  ASSUME RowsInv, NEW a \in Ads, Settled(rows[a]), rows[a].pre # "none",
         NEW r, r = [rows[a] EXCEPT !.final = Verdict(rows[a])]
  PROVE  RowOK(a, r) /\ Concluded(a, r) /\ r.pre = rows[a].pre
<1>1. RowOK(a, rows[a]) /\ rows[a] \in RowSet
  BY DEF RowsInv, RowOK
<1>2. /\ Verdict(rows[a]) \in {"relevant", "not_relevant", "error"}
      /\ Verdict(rows[a]) = "relevant" => rows[a].gate = "allow"
  BY <1>1, Gates DEF Verdict, Binary, RowOK, Gated, RowSet, Judgements
<1>3. r \in RowSet
  BY <1>1, <1>2 DEF RowSet, Judgements
<1>4. /\ r.gate = rows[a].gate /\ r.iso = rows[a].iso /\ r.pre = rows[a].pre
      /\ r.landing = rows[a].landing /\ r.shot = rows[a].shot /\ r.active = rows[a].active
      /\ r.enr = rows[a].enr /\ r.saw = rows[a].saw /\ r.final = Verdict(rows[a])
  BY <1>1 DEF RowSet
<1>5. Gated(a, r) /\ (r.enr # "completed" => OwnLanding(a, r))
  BY <1>1, <1>2, <1>4 DEF RowOK, Gated, OwnLanding, Text
<1>6. r.gate # "hold" => r.saw = Text(a, r)
  BY <1>1, <1>4 DEF RowOK, Gated, Settled, Text
<1> QED
  BY <1>1, <1>2, <1>3, <1>4, <1>5, <1>6 DEF RowOK, Concluded, Binary

LEMMA FinalizedRow ==
  ASSUME RowsInv, NEW a \in Ads, ~Settled(rows[a]), NEW verdict \in Judged(a),
         NEW r, r = [rows[a] EXCEPT !.final = verdict, !.saw = Text(a, rows[a])]
  PROVE  RowOK(a, r) /\ Concluded(a, r) /\ r.pre = rows[a].pre
<1>1. RowOK(a, rows[a]) /\ rows[a] \in RowSet
  BY DEF RowsInv, RowOK
<1>2. verdict \in {"relevant", "not_relevant", "error"}
  BY OutcomeTypes DEF Judged
<1>3. Text(a, rows[a]) \in SUBSET Terms
  BY TextTypes DEF RowsInv
<1>4. r \in RowSet
  BY <1>1, <1>2, <1>3 DEF RowSet, Judgements
<1>5. /\ r.gate = rows[a].gate /\ r.iso = rows[a].iso /\ r.pre = rows[a].pre
      /\ r.landing = rows[a].landing /\ r.shot = rows[a].shot /\ r.active = rows[a].active
      /\ r.enr = rows[a].enr /\ r.saw = Text(a, rows[a]) /\ r.final = verdict
  BY <1>1 DEF RowSet
<1>6. rows[a].gate = "allow" /\ rows[a].active
  BY DEF Settled
<1>7. Gated(a, r) /\ (r.enr # "completed" => OwnLanding(a, r))
  BY <1>1, <1>2, <1>5, <1>6 DEF RowOK, Gated, OwnLanding
<1>8. Text(a, r) = Text(a, rows[a])
  BY <1>5 DEF Text
<1> QED
  BY <1>1, <1>2, <1>4, <1>5, <1>6, <1>7, <1>8 DEF RowOK, Concluded, Binary

-----------------------------------------------------------------------------
(* The commands that go through the rows.                                  *)

\* Nothing that the enricher has in its hands changes.
LEMMA BrowserUntouched ==
  ASSUME DraftInv, TabsInv, step = "idle", stage' = stage,
         UNCHANGED <<seen, current, captureVars>>,
         stage = "enrich" => \E a \in Ads : rows'[a].enr # "none"
  PROVE  DraftInv' /\ TabsInv'
BY DEF DraftInv, TabsInv, captureVars

LEMMA IdleBefore ==
  ASSUME DraftInv, stage # "enrich"
  PROVE  step = "idle"
BY DEF DraftInv, Prepared

LEMMA PrefilterStep ==
  ASSUME GateInv, NEW a \in Ads, Prefilter(a)
  PROVE  GateInv'
<1>1. PICK verdict \in Outcomes(card[a].text, card[a].shell, TRUE) :
        Only(a, [rows[a] EXCEPT !.pre = verdict, !.gate = GateFor(verdict),
                                !.saw = card[a].text])
  BY DEF Prefilter
<1> DEFINE r == [rows[a] EXCEPT !.pre = verdict, !.gate = GateFor(verdict),
                                !.saw = card[a].text]
<1>2. RowOK(a, r) /\ r.pre # "none" /\ r.iso = "none" /\ r.enr = "none"
  <2>1. RowsInv /\ rows[a] = Row(card[a])
    BY DEF GateInv, StageInv, Prefilter
  <2> QED
    BY <2>1, PrefilteredRow
<1> HIDE DEF r
<1>3. Only(a, r)
  BY <1>1 DEF r
<1>4. RowsInv' /\ StageInv'
  <2>1. /\ a \in todo /\ todo' = todo \ {a} /\ stage' = stage /\ card' = card
        /\ cache' \subseteq Ads /\ stage = "prefilter" /\ stage \in Commands
    BY DEF Prefilter, GateInv, StageInv, Commands
  <2> QED
    BY <1>2, <1>3, <2>1, RowInTurn DEF GateInv
<1> QED
  BY <1>4, IdleBefore, BrowserUntouched DEF Prefilter, GateInv

\* What reuse_resolution takes over from the first row of the target, and what a
\* resolution writes, belongs to the row: the landing of its own target.
LEMMA ResolveWrites ==
  ASSUME RowsInv, StageInv, stage = "resolve",
         NEW a \in Ads, rows[a].gate = "hold", rows[a].iso = "none",
         Unresolvable(a) \/ Reuse(a) \/ ResolutionFails(a) \/ ResolveDirect(a) \/ ResolvePost(a)
  PROVE  \E r : /\ RowOK(a, r) /\ r.iso = "none" /\ r.pre = rows[a].pre
                /\ r.enr = rows[a].enr /\ Resolved(a, r)
<1>1. card \in [Ads -> Cards] /\ RowOK(a, rows[a]) /\ rows[a] \in RowSet
  BY DEF RowsInv, RowOK
<1>2. /\ rows[a].landing # None => rows[a].landing = Leads(a) /\ Leads(a) \in Public
      /\ rows[a].shot # None => rows[a].shot = Leads(a)
  BY <1>1 DEF RowOK, Gated, OwnLanding
<1>3. CASE Unresolvable(a) \/ ResolutionFails(a)
  <2>1. PICK res \in {"unresolvable", "failed"} : Resolved(a, [rows[a] EXCEPT !.res = res])
    BY <1>3 DEF Unresolvable, ResolutionFails
  <2> DEFINE r == [rows[a] EXCEPT !.res = res]
  <2>2. r \in RowSet
    BY <1>1 DEF RowSet
  <2>3. /\ r.gate = rows[a].gate /\ r.iso = rows[a].iso /\ r.pre = rows[a].pre
        /\ r.active = rows[a].active /\ r.enr = rows[a].enr /\ r.saw = rows[a].saw
        /\ r.final = rows[a].final /\ r.landing = rows[a].landing /\ r.shot = rows[a].shot
    BY <1>1 DEF RowSet
  <2> HIDE DEF r
  <2>4. RowOK(a, r)
    BY <1>2, <2>2, <2>3, ResolvedRow
  <2> QED
    BY <2>1, <2>3, <2>4 DEF r
<1>4. CASE Reuse(a)
  <2> DEFINE taken(b) == [rows[a] EXCEPT !.res = "reused",
            !.landing = IF rows[b].landing # None THEN rows[b].landing ELSE @,
            !.shot = IF rows[b].shot # None THEN rows[b].shot ELSE @,
            !.id = IF rows[b].id # None THEN rows[b].id ELSE @]
  <2>1. PICK b \in cache : CachedFor(a, b) /\ Resolved(a, taken(b))
    BY <1>4 DEF Reuse
  <2>2. b \in Ads /\ Leads(b) = Leads(a)
    BY <1>4, <2>1, SameTargetSameLanding DEF StageInv, Reuse
  <2>3. RowOK(b, rows[b]) /\ rows[b] \in RowSet
    BY <2>2 DEF RowsInv
  <2> DEFINE r == taken(b)
  <2>4. r \in RowSet
    <3>1. /\ rows[b].landing \in Landings \cup {None} /\ rows[b].shot \in Landings \cup {None}
          /\ rows[b].id \in Ids \cup {None}
          /\ rows[a].landing \in Landings \cup {None} /\ rows[a].shot \in Landings \cup {None}
          /\ rows[a].id \in Ids \cup {None}
      BY <1>1, <2>3 DEF RowSet
    <3>2. PICK landing \in Landings \cup {None}, shot \in Landings \cup {None},
               id \in Ids \cup {None} :
            r = [rows[a] EXCEPT !.res = "reused", !.landing = landing, !.shot = shot, !.id = id]
      BY <3>1
    <3> HIDE DEF r
    <3> QED
      BY <1>1, <3>2 DEF RowSet
  <2>5. /\ r.gate = rows[a].gate /\ r.iso = rows[a].iso /\ r.pre = rows[a].pre
        /\ r.active = rows[a].active /\ r.enr = rows[a].enr /\ r.saw = rows[a].saw
        /\ r.final = rows[a].final
        /\ r.landing = (IF rows[b].landing # None THEN rows[b].landing ELSE rows[a].landing)
        /\ r.shot = (IF rows[b].shot # None THEN rows[b].shot ELSE rows[a].shot)
    BY <1>1 DEF RowSet
  <2> HIDE DEF r
  <2>6. /\ rows[b].landing # None => rows[b].landing = Leads(b) /\ Leads(b) \in Public
        /\ rows[b].shot # None => rows[b].shot = Leads(b)
    BY <2>2, <2>3 DEF RowOK, OwnLanding, StageInv
  <2>7. RowOK(a, r)
    BY <1>2, <2>2, <2>4, <2>5, <2>6, ResolvedRow
  <2> QED
    BY <2>1, <2>5, <2>7 DEF r
<1>5. CASE ResolveDirect(a) \/ ResolvePost(a)
  <2>0. Candidate(a) # <<>> /\ External(Leads(a)) # None
    BY <1>5 DEF ResolveDirect, ResolvePost, First
  <2>1. Leads(a) \in Landings /\ Leads(a) \in Public
    BY <1>1, <2>0, LeadsTypes
  <2>2. LandingId[Leads(a)] \in Ids \cup {None} /\ rows[a].id \in Ids \cup {None}
    BY <1>1, <2>1, LandingTypes DEF RowSet
  <2>3. PICK res \in {"completed", "failed"}, shot \in Picture(Leads(a)), id \in Ids \cup {None} :
          Resolved(a, [rows[a] EXCEPT !.res = res, !.landing = Leads(a), !.shot = shot,
                                      !.id = id])
    <3>1. CASE ResolveDirect(a)
      <4>1. PICK shot \in Picture(Leads(a)), res \in {"completed", "failed"} :
              Resolved(a, [rows[a] EXCEPT !.res = res, !.landing = Leads(a), !.shot = shot,
                                   !.id = IF @ = None THEN LandingId[Leads(a)] ELSE @])
        BY <3>1 DEF ResolveDirect
      <4> QED
        BY <2>2, <4>1
    <3>2. CASE ResolvePost(a)
      <4>1. PICK shot \in Picture(Leads(a)) :
              Resolved(a, [rows[a] EXCEPT !.res = "completed", !.landing = Leads(a),
                 !.shot = shot,
                 !.id = IF LandingId[Leads(a)] = None THEN @ ELSE LandingId[Leads(a)]])
        BY <3>2 DEF ResolvePost
      <4> QED
        BY <2>2, <4>1
    <3> QED
      BY <1>5, <3>1, <3>2
  <2> DEFINE r == [rows[a] EXCEPT !.res = res, !.landing = Leads(a), !.shot = shot, !.id = id]
  <2>4. shot \in {None, Leads(a)}
    BY DEF Picture
  <2>5. r \in RowSet
    BY <1>1, <2>1, <2>4 DEF RowSet
  <2>6. /\ r.gate = rows[a].gate /\ r.iso = rows[a].iso /\ r.pre = rows[a].pre
        /\ r.active = rows[a].active /\ r.enr = rows[a].enr /\ r.saw = rows[a].saw
        /\ r.final = rows[a].final /\ r.landing = Leads(a) /\ r.shot = shot
    BY <1>1 DEF RowSet
  <2> HIDE DEF r
  <2>7. RowOK(a, r)
    BY <2>1, <2>4, <2>5, <2>6, ResolvedRow
  <2> QED
    BY <2>3, <2>6, <2>7 DEF r
<1> QED
  BY <1>3, <1>4, <1>5

LEMMA ResolveStep ==
  ASSUME GateInv, NEW a \in Ads,
         Unresolvable(a) \/ Reuse(a) \/ ResolutionFails(a) \/ ResolveDirect(a) \/ ResolvePost(a)
  PROVE  GateInv'
<1>0. RowsInv /\ StageInv /\ DraftInv /\ TabsInv
  BY DEF GateInv
<1>1. /\ stage = "resolve" /\ a \in todo /\ rows[a].enr = "none"
      /\ rows[a].gate = "hold" /\ rows[a].iso = "none" /\ rows[a].pre # "none"
  BY <1>0 DEF Unresolvable, Reuse, ResolutionFails, ResolveDirect, ResolvePost, First, InTurn,
              StageInv
<1>2. cache' \subseteq Ads
  BY <1>0 DEF Unresolvable, Reuse, ResolutionFails, ResolveDirect, ResolvePost, StageInv
<1>3. PICK r : /\ RowOK(a, r) /\ r.iso = "none" /\ r.pre = rows[a].pre
               /\ r.enr = rows[a].enr /\ Resolved(a, r)
  BY <1>0, <1>1, ResolveWrites
<1>4. /\ Only(a, r) /\ todo' = todo \ {a}
      /\ UNCHANGED <<card, switches, stage, seen, current, captureVars>>
  BY <1>3 DEF Resolved
<1>5. RowsInv' /\ StageInv'
  BY <1>0, <1>1, <1>2, <1>3, <1>4, RowInTurn DEF Commands
<1> QED
  BY <1>0, <1>1, <1>4, <1>5, IdleBefore, BrowserUntouched DEF GateInv

LEMMA JudgeHeldStep ==
  ASSUME GateInv, NEW a \in Ads, JudgeHeld(a)
  PROVE  GateInv'
<1>0. RowsInv /\ StageInv /\ DraftInv /\ TabsInv
  BY DEF GateInv
<1> DEFINE judged(verdict) == [rows[a] EXCEPT !.iso = verdict, !.gate = GateFor(verdict),
                                              !.saw = Text(a, rows[a])]
<1>1. PICK verdict \in Judged(a) : Only(a, judged(verdict))
  BY DEF JudgeHeld
<1>2. /\ stage = "gate" /\ a \in todo /\ todo' = todo \ {a} /\ Available(rows[a])
      /\ rows[a].gate = "hold" /\ rows[a].pre # "none" /\ rows[a].enr = "none"
      /\ UNCHANGED <<card, stage, cache, seen, current, captureVars>> /\ cache' \subseteq Ads
  BY <1>0 DEF JudgeHeld, StageInv
<1>3. PICK r : r = judged(verdict)
  OBVIOUS
<1>4. RowOK(a, r) /\ r.pre = rows[a].pre /\ r.enr = rows[a].enr
  BY <1>0, <1>2, <1>3, JudgedRow
<1>5. Only(a, r)
  BY <1>1, <1>3
<1> HIDE DEF judged
<1>6. RowsInv' /\ StageInv'
  BY <1>0, <1>2, <1>4, <1>5, RowInTurn DEF Commands
<1> QED
  BY <1>0, <1>2, <1>6, IdleBefore, BrowserUntouched DEF GateInv

LEMMA SkipStep ==
  ASSUME GateInv, NEW a \in Ads, Skip(a)
  PROVE  GateInv'
<1>0. RowsInv /\ StageInv /\ DraftInv /\ TabsInv
  BY DEF GateInv
<1>1. /\ Prepared /\ stage = "enrich" /\ step = "idle" /\ a \in todo /\ todo' = todo \ {a}
      /\ rows[a].enr = "waiting" /\ rows[a].pre # "none"
      /\ UNCHANGED <<card, stage, cache, seen, current, captureVars>> /\ cache' \subseteq Ads
  BY <1>0 DEF Skip, StageInv, Prepared
<1>2. PICK r : r = [rows[a] EXCEPT !.enr = "duplicate"]
  OBVIOUS
<1>3. RowOK(a, r) /\ r.pre = rows[a].pre /\ r.enr # "none"
  BY <1>0, <1>1, <1>2, MarkedRow
<1>4. Only(a, r)
  BY <1>2 DEF Skip
<1>5. RowsInv' /\ StageInv'
  BY <1>0, <1>1, <1>3, <1>4, RowInTurn DEF Commands
<1>6. a \in Ads /\ rows'[a].enr # "none"
  BY <1>0, <1>1, <1>3, <1>4, OneRow
<1> QED
  BY <1>0, <1>1, <1>5, <1>6, BrowserUntouched DEF GateInv

LEMMA SettleStep ==
  ASSUME GateInv, NEW a \in Ads, Settle(a) \/ Finalize(a)
  PROVE  GateInv'
<1>0. RowsInv /\ StageInv /\ DraftInv /\ TabsInv
  BY DEF GateInv
<1>1. /\ stage = "finalize" /\ a \in todo /\ todo' = todo \ {a} /\ rows[a].pre # "none"
      /\ UNCHANGED <<card, stage, cache, seen, current, captureVars>> /\ cache' \subseteq Ads
  BY <1>0 DEF Settle, Finalize, StageInv
<1>2. PICK r : RowOK(a, r) /\ Concluded(a, r) /\ r.pre = rows[a].pre /\ Only(a, r)
  <2>1. CASE Settle(a)
    <3>1. PICK r : r = [rows[a] EXCEPT !.final = Verdict(rows[a])]
      OBVIOUS
    <3>2. Settled(rows[a]) /\ Only(a, r)
      BY <2>1, <3>1 DEF Settle
    <3>3. RowOK(a, r) /\ Concluded(a, r) /\ r.pre = rows[a].pre
      BY <1>0, <1>1, <3>1, <3>2, SettledRow
    <3> QED
      BY <3>2, <3>3
  <2>2. CASE Finalize(a)
    <3>1. PICK verdict \in Judged(a) :
            Only(a, [rows[a] EXCEPT !.final = verdict, !.saw = Text(a, rows[a])])
      BY <2>2 DEF Finalize
    <3>2. PICK r : r = [rows[a] EXCEPT !.final = verdict, !.saw = Text(a, rows[a])]
      OBVIOUS
    <3>3. ~Settled(rows[a]) /\ Only(a, r)
      BY <2>2, <3>1, <3>2 DEF Finalize
    <3>4. RowOK(a, r) /\ Concluded(a, r) /\ r.pre = rows[a].pre
      BY <1>0, <1>1, <3>2, <3>3, FinalizedRow
    <3> QED
      BY <3>3, <3>4
  <2> QED
    BY <2>1, <2>2
<1>3. RowsInv' /\ StageInv'
  BY <1>0, <1>1, <1>2, RowInTurn DEF Commands
<1> QED
  BY <1>0, <1>1, <1>3, IdleBefore, BrowserUntouched DEF GateInv

LEMMA UnavailableStep ==
  ASSUME GateInv, NEW a \in Ads, Unavailable(a)
  PROVE  GateInv'
<1>1. /\ stage = "gate" /\ stage' = stage /\ todo' = todo \ {a}
      /\ UNCHANGED <<card, rows, cache, seen, current, captureVars>>
  BY DEF Unavailable
<1>2. RowsInv'
  BY <1>1 DEF GateInv, RowsInv, RowOK, Gated, OwnLanding, Text, Leads, External
<1>3. StageInv'
  BY <1>1 DEF GateInv, StageInv, Prepared
<1> QED
  BY <1>1, <1>2, <1>3, IdleBefore, BrowserUntouched DEF GateInv

-----------------------------------------------------------------------------
(* A command ends.                                                         *)

LEMMA RowsUntouched ==
  ASSUME RowsInv, UNCHANGED <<card, rows>>
  PROVE  RowsInv'
BY DEF RowsInv, RowOK, Gated, OwnLanding, Text, Leads, External

LEMMA EndPrefilterStep ==
  ASSUME GateInv, EndPrefilter
  PROVE  GateInv'
<1>0. RowsInv /\ StageInv /\ DraftInv /\ TabsInv
  BY DEF GateInv
<1>1. /\ stage = "prefilter" /\ todo = {} /\ stage' \in {"failed", "resolve", "enrich", "finalize"}
      /\ UNCHANGED <<card, rows, cache, seen, current, captureVars>>
      /\ stage' = "resolve" => todo' = Holding("hold")
      /\ stage' = "enrich" => todo' = Holding("allow")
      /\ stage' = "finalize" => todo' = Ads
      /\ stage' = "failed" => todo' = {}
  BY DEF EndPrefilter, Start
<1>2. StageInv'
  BY <1>0, <1>1 DEF StageInv, Holding, Prepared, Commands, Ends
<1>3. DraftInv' /\ TabsInv'
  <2>1. step = "idle"
    BY <1>0, <1>1, IdleBefore
  <2> QED
    BY <1>0, <1>1, <2>1 DEF DraftInv, TabsInv, captureVars
<1> QED
  BY <1>0, <1>1, <1>2, <1>3, RowsUntouched DEF GateInv

LEMMA EndResolveStep ==
  ASSUME GateInv, EndResolve \/ EndGate
  PROVE  GateInv'
<1>0. RowsInv /\ StageInv /\ DraftInv /\ TabsInv
  BY DEF GateInv
<1>1. /\ stage \in {"resolve", "gate"} /\ stage' \in {"gate", "failed", "enrich", "finalize"}
      /\ UNCHANGED <<card, rows, cache, seen, current, captureVars>>
      /\ stage' = "gate" => todo' = Holding("hold")
      /\ stage' = "enrich" => todo' = Holding("allow")
      /\ stage' = "finalize" => todo' = Ads
      /\ stage' = "failed" => todo' = {}
  BY DEF EndResolve, EndGate, Start
<1>2. StageInv'
  BY <1>0, <1>1 DEF StageInv, Holding, Prepared, Commands, Ends
<1>3. DraftInv' /\ TabsInv'
  <2>1. step = "idle"
    BY <1>0, <1>1, IdleBefore
  <2> QED
    BY <1>0, <1>1, <2>1 DEF DraftInv, TabsInv, captureVars
<1> QED
  BY <1>0, <1>1, <1>2, <1>3, RowsUntouched DEF GateInv

LEMMA EndFinalizeStep ==
  ASSUME GateInv, EndFinalize
  PROVE  GateInv'
<1>0. RowsInv /\ StageInv /\ DraftInv /\ TabsInv
  BY DEF GateInv
<1>1. /\ stage = "finalize" /\ todo = {} /\ stage' \in {"failed", "done"} /\ todo' = {}
      /\ UNCHANGED <<card, rows, cache, seen, current, captureVars>>
      /\ stage' = "done" => \A a \in Ads : rows[a].final # "error"
  BY DEF EndFinalize, Start
<1>2. stage' = "done" => \A a \in Ads : Concluded(a, rows[a])' /\ rows'[a].final # "error"
  <2>1. \A a \in Ads : Concluded(a, rows[a])
    BY <1>0, <1>1 DEF StageInv
  <2> QED
    BY <1>1, <2>1 DEF Concluded, Text
<1>3. StageInv'
  BY <1>0, <1>1, <1>2 DEF StageInv, Prepared, Commands, Ends
<1>4. DraftInv' /\ TabsInv'
  <2>1. step = "idle"
    BY <1>0, <1>1, IdleBefore
  <2> QED
    BY <1>0, <1>1, <2>1 DEF DraftInv, TabsInv, captureVars
<1> QED
  BY <1>0, <1>1, <1>3, <1>4, RowsUntouched DEF GateInv

LEMMA CommandFailsStep ==
  ASSUME GateInv, CommandFails
  PROVE  GateInv'
<1>0. RowsInv /\ StageInv /\ DraftInv /\ TabsInv
  BY DEF GateInv
<1>1. /\ stage' = "failed" /\ todo' = {}
      /\ UNCHANGED <<card, rows, cache, seen, current, captureVars>>
      /\ stage \in Commands \ {"enrich"} \/ (stage = "enrich" /\ step = "idle" /\ seen = {})
  BY DEF CommandFails, Start, Prepared
<1>2. StageInv'
  BY <1>0, <1>1 DEF StageInv, Prepared, Commands, Ends
<1>3. DraftInv' /\ TabsInv'
  <2>1. step = "idle"
    BY <1>0, <1>1, IdleBefore
  <2> QED
    BY <1>0, <1>1, <2>1 DEF DraftInv, TabsInv, captureVars, Commands
<1> QED
  BY <1>0, <1>1, <1>2, <1>3, RowsUntouched DEF GateInv

\* The enricher ends: by itself and with its tabs closed, at the deadline, or by a signal.
LEMMA EnrichEndsStep ==
  ASSUME GateInv, EndEnrich \/ Deadline \/ Signal
  PROVE  GateInv'
<1>0. RowsInv /\ StageInv /\ DraftInv /\ TabsInv
  BY DEF GateInv
<1>1. /\ Prepared /\ stage = "enrich"
      /\ stage' \in {"failed", "finalize", "crashed", "interrupted"}
      /\ stage' = "finalize" => todo' = Ads
      /\ stage' # "finalize" => todo' = {}
      /\ UNCHANGED <<card, rows, cache, seen>>
  BY DEF EndEnrich, Deadline, Signal, Start, Prepared
<1>2. StageInv'
  BY <1>0, <1>1 DEF StageInv, Prepared, Commands, Ends
<1>3. /\ step' = "idle" /\ current' \in Ads \cup {0} /\ found' \in Landings \cup {None}
      /\ tabs' \subseteq {"home", "post", "landing"} /\ playing' = FALSE /\ alive' = alive
      /\ stage' \in {"failed", "finalize"} => tabs' \subseteq {"home"}
  BY <1>0 DEF EndEnrich, Deadline, Signal, Start, DeadlineExpires, Interrupted, ClosePost,
              Neutral, DraftInv, TabsInv
<1>4. DraftInv' /\ TabsInv'
  BY <1>0, <1>1, <1>3 DEF DraftInv, TabsInv, Steps
<1> QED
  BY <1>0, <1>1, <1>2, <1>4, RowsUntouched DEF GateInv

-----------------------------------------------------------------------------
(* The enricher.                                                           *)

LEMMA PrepareStep ==
  ASSUME GateInv, Prepare
  PROVE  GateInv'
<1>0. RowsInv /\ StageInv /\ DraftInv /\ TabsInv
  BY DEF GateInv
<1> DEFINE mark(a) == IF IsCandidate(rows[a]) THEN "waiting" ELSE "blocked"
<1>1. /\ stage = "enrich" /\ \A a \in Ads : rows[a].enr = "none" /\ rows[a].pre # "none"
      /\ stage' \in {"enrich", "finalize"} /\ (stage' = "finalize" => todo' = Ads)
      /\ stage' = "enrich" => todo' = {a \in Ads : rows[a].gate = "allow"}
      /\ UNCHANGED <<card, cache, seen, current, captureVars>>
  BY <1>0 DEF Prepare, Start, IsCandidate, StageInv
<1>2. \A a \in Ads : rows'[a] = [rows[a] EXCEPT !.enr = mark(a)]
  BY DEF Prepare
<1>3. ASSUME NEW a \in Ads
      PROVE  /\ RowOK(a, rows'[a]) /\ rows'[a].enr = mark(a)
             /\ rows'[a].gate = rows[a].gate /\ rows'[a].pre = rows[a].pre
  <2>1. mark(a) \in {"waiting", "blocked"}
    OBVIOUS
  <2>2. PICK r : r = [rows[a] EXCEPT !.enr = mark(a)]
    OBVIOUS
  <2> HIDE DEF mark
  <2> QED
    BY <1>0, <1>1, <1>2, <2>1, <2>2, MarkedRow
<1>4. RowsInv'
  <2>1. rows' \in [Ads -> RowSet]
    <3>1. DOMAIN rows' = Ads /\ rows' = [a \in Ads |-> rows'[a]]
      BY DEF Prepare
    <3> QED
      BY <1>3, <3>1 DEF RowOK
  <2>2. \A a \in Ads : RowOK(a, rows[a])'
    BY <1>1, <1>3 DEF RowOK, Gated, OwnLanding, Text, Leads, External
  <2> QED
    BY <1>0, <1>1, <2>1, <2>2 DEF RowsInv
<1>5. StageInv'
  <2>1. \A a \in Ads : rows'[a].pre # "none" /\ rows'[a].gate = rows[a].gate
                       /\ rows'[a].enr = mark(a)
    BY <1>1, <1>3
  <2>2. stage' = "enrich" => \A a \in todo' : rows'[a].gate = "allow" /\ rows'[a].enr = "waiting"
    BY <1>1, <2>1 DEF IsCandidate
  <2> HIDE DEF mark
  <2> QED
    BY <1>0, <1>1, <2>1, <2>2 DEF StageInv, Prepared, Commands, Ends
<1>6. DraftInv' /\ TabsInv'
  <2>1. step = "idle" /\ (stage' = "finalize" => tabs \subseteq {"home"} /\ ~playing)
    BY <1>0, <1>1 DEF TabsInv
  <2> QED
    BY <1>0, <1>1, <2>1 DEF DraftInv, TabsInv, captureVars
<1> QED
  BY <1>4, <1>5, <1>6 DEF GateInv

\* The row that is picked has neither been opened nor given a landing by the profile.
LEMMA PickStep ==
  ASSUME GateInv, NEW a \in Ads, Pick(a)
  PROVE  GateInv'
<1>0. RowsInv /\ StageInv /\ DraftInv /\ TabsInv
  BY DEF GateInv
<1>1. /\ Prepared /\ stage = "enrich" /\ a \in todo /\ seen' # {} /\ current' = a
      /\ draft' = rows[a] /\ found' = None /\ step' \in {"recover", "open"}
      /\ UNCHANGED <<card, rows, stage, todo, cache, tabs, playing, alive>>
  BY DEF Pick, Prepared
<1>2. /\ rows[a].gate = "allow" /\ rows[a].enr = "waiting" /\ RowOK(a, rows[a])
      /\ rows[a].pre # "none"
  BY <1>0, <1>1 DEF StageInv, RowsInv
<1>3. DraftOK(draft, step)'
  BY <1>1, <1>2 DEF DraftOK, RowOK, Gated, OwnLanding, Text, Leads, External
<1>4. RowsInv' /\ StageInv'
  <2>1. StageInv'
    BY <1>0, <1>1 DEF StageInv, Prepared
  <2> QED
    BY <1>0, <1>1, <2>1, RowsUntouched
<1>5. DraftInv'
  BY <1>0, <1>1, <1>3 DEF DraftInv, Prepared, Steps
<1>6. TabsInv'
  BY <1>0, <1>1 DEF TabsInv, Prepared
<1> QED
  BY <1>4, <1>5, <1>6 DEF GateInv

LEMMA RecordStep ==
  ASSUME GateInv, Record
  PROVE  GateInv'
<1>0. RowsInv /\ StageInv /\ DraftInv /\ TabsInv
  BY DEF GateInv
<1>1. /\ Prepared /\ stage = "enrich" /\ step = "ended" /\ Only(current, draft)
      /\ step' = "idle" /\ found' = None /\ current' = 0
      /\ todo' \subseteq todo \ {current}
      /\ UNCHANGED <<card, stage, cache, seen, tabs, playing, alive>>
  BY DEF Record, Prepared
<1>2. /\ current \in todo /\ current \in Ads /\ DraftOK(draft, "ended")
      /\ \A a \in Ads : rows[a].pre # "none" /\ rows[a].enr # "none"
  BY <1>0, <1>1 DEF DraftInv, StageInv, Prepared
<1>3. RowOK(current, draft) /\ draft.enr # "none"
  BY <1>2 DEF DraftOK, RowOK
<1>4. /\ RowsInv' /\ rows'[current] = draft
      /\ \A b \in Ads \ {current} : rows'[b] = rows[b]
  BY <1>0, <1>1, <1>2, <1>3, OneRow
<1>5. \A a \in Ads : rows'[a].pre # "none" /\ rows'[a].enr # "none"
  BY <1>2, <1>3, <1>4 DEF DraftOK
<1>6. StageInv'
  <2>1. \A a \in todo' : rows'[a].gate = "allow" /\ rows'[a].enr = "waiting"
    BY <1>0, <1>1, <1>4 DEF StageInv
  <2> QED
    BY <1>0, <1>1, <1>5, <2>1 DEF StageInv
<1>7. DraftInv'
  BY <1>1 DEF DraftInv, Steps
<1>8. TabsInv'
  BY <1>0, <1>1, <1>2, <1>5 DEF TabsInv
<1> QED
  BY <1>4, <1>6, <1>7, <1>8 DEF GateInv

LEMMA LoseBrowserStep ==
  ASSUME GateInv, LoseBrowser
  PROVE  GateInv'
<1>0. RowsInv /\ StageInv /\ DraftInv /\ TabsInv
  BY DEF GateInv
<1>1. /\ Prepared /\ stage = "enrich"
      /\ UNCHANGED <<card, rows, stage, todo, cache, seen, current, step, draft, found>>
      /\ tabs' = {} /\ playing' = FALSE /\ alive' = FALSE
  BY DEF LoseBrowser, BrowserDies, Prepared
<1>2. StageInv'
  BY <1>0, <1>1 DEF StageInv, Prepared
<1>3. DraftInv'
  BY <1>0, <1>1 DEF DraftInv, Prepared, DraftOK, Gated, OwnLanding, Text, Leads, External
<1>4. TabsInv'
  BY <1>0, <1>1 DEF TabsInv
<1> QED
  BY <1>0, <1>1, <1>2, <1>3, <1>4, RowsUntouched DEF GateInv

\* The capture never changes what the ad was allowed for.
LEMMA GatedDraft ==
  ASSUME NEW a, NEW r \in RowSet, NEW d \in RowSet, Gated(a, r), r.gate = "allow",
         d.gate = r.gate, d.pre = r.pre, d.iso = r.iso, d.final = r.final, d.saw = r.saw,
         d.active \/ (~r.active /\ d.landing = r.landing)
  PROVE  Gated(a, d)
BY DEF Gated, Text

\* What a step of the capture leaves in the draft.
LEMMA CaptureDraft ==
  ASSUME RowsInv, current \in Ads, DraftOK(draft, step), step \in Steps,
         found \in Landings \cup {None}, CaptureStep
  PROVE  /\ DraftOK(draft', step') /\ step' \in Steps \ {"idle"}
         /\ found' \in Landings \cup {None}
<1>0. /\ draft \in RowSet /\ Gated(current, draft) /\ draft.gate = "allow" /\ draft.pre # "none"
  BY DEF DraftOK
<1>1. CASE NoPageToSearch \/ SearchFails
  <2>1. /\ step = "recover" /\ step' = "ended" /\ found' = found
        /\ draft' = [draft EXCEPT !.enr = "skipped", !.active = tabs # {}]
    BY <1>1 DEF NoPageToSearch, SearchFails, EndOfSearch
  <2>2. ~draft.active /\ OwnLanding(current, draft)
    BY <2>1 DEF DraftOK
  <2>3. PICK active \in BOOLEAN : draft' = [draft EXCEPT !.enr = "skipped", !.active = active]
    BY <2>1
  <2>4. /\ draft' \in RowSet /\ draft'.enr = "skipped"
        /\ draft'.gate = draft.gate /\ draft'.pre = draft.pre /\ draft'.iso = draft.iso
        /\ draft'.final = draft.final /\ draft'.saw = draft.saw
        /\ draft'.landing = draft.landing /\ draft'.shot = draft.shot
    BY <1>0, <2>3 DEF RowSet
  <2>5. Gated(current, draft')
    BY <1>0, <2>2, <2>4, GatedDraft
  <2> QED
    BY <1>0, <2>1, <2>2, <2>4, <2>5 DEF DraftOK, OwnLanding, Steps
<1>2. CASE PostRecovered
  <2>1. step = "recover" /\ step' = "open" /\ found' = found
    BY <1>2 DEF PostRecovered
  <2>2. PICK post \in Posts, id \in Ids \cup {None} :
          draft' = [draft EXCEPT !.post = post, !.id = id, !.active = TRUE]
    <3>1. draft.id \in Ids \cup {None}
      BY <1>0 DEF RowSet
    <3> QED
      BY <1>2, <3>1 DEF PostRecovered
  <2>3. /\ draft' \in RowSet /\ draft'.enr = draft.enr /\ draft'.active = TRUE
        /\ draft'.gate = draft.gate /\ draft'.pre = draft.pre /\ draft'.iso = draft.iso
        /\ draft'.final = draft.final /\ draft'.saw = draft.saw
        /\ draft'.landing = draft.landing /\ draft'.shot = draft.shot
    BY <1>0, <2>2 DEF RowSet
  <2>4. Gated(current, draft')
    BY <1>0, <2>3, GatedDraft
  <2> QED
    BY <1>0, <2>1, <2>3, <2>4 DEF DraftOK, OwnLanding, Steps
<1>3. CASE NoNewTab \/ StepFails
  <2>1. PICK broken \in BOOLEAN : draft' = [draft EXCEPT !.enr = "failed", !.infra = broken]
    BY <1>3 DEF NoNewTab, StepFails, Fail
  <2>2. /\ step \in {"open", "locate", "video", "click", "shown"} /\ step' = "ended"
        /\ found' = found
    BY <1>3 DEF NoNewTab, StepFails, Fail
  <2>3. /\ draft' \in RowSet /\ draft'.enr = "failed" /\ draft'.active = draft.active
        /\ draft'.gate = draft.gate /\ draft'.pre = draft.pre /\ draft'.iso = draft.iso
        /\ draft'.final = draft.final /\ draft'.saw = draft.saw
        /\ draft'.landing = draft.landing /\ draft'.shot = draft.shot
    BY <1>0, <2>1 DEF RowSet
  <2>4. Gated(current, draft')
    BY <1>0, <2>3, GatedDraft DEF RowSet
  <2>5. OwnLanding(current, draft)
    BY <2>2 DEF DraftOK
  <2> QED
    BY <1>0, <2>2, <2>3, <2>4, <2>5 DEF DraftOK, OwnLanding, Steps
<1>4. CASE OpenPost
  <2>1. /\ step = "open" /\ step' = "locate" /\ found' = None
        /\ draft' = [draft EXCEPT !.active = TRUE]
    BY <1>4 DEF OpenPost
  <2>2. /\ draft' \in RowSet /\ draft'.enr = draft.enr /\ draft'.active = TRUE
        /\ draft'.gate = draft.gate /\ draft'.pre = draft.pre /\ draft'.iso = draft.iso
        /\ draft'.final = draft.final /\ draft'.saw = draft.saw
        /\ draft'.landing = draft.landing /\ draft'.shot = draft.shot
    BY <1>0, <2>1 DEF RowSet
  <2>3. Gated(current, draft')
    BY <1>0, <2>2, GatedDraft
  <2> QED
    BY <1>0, <2>1, <2>2, <2>3 DEF DraftOK, OwnLanding, Steps
<1>5. CASE Located \/ RecordVideo \/ NoLanding \/ StartLanding \/ NoCta \/ ClickCta
  <2>1. /\ draft' = draft /\ found' \in Landings \cup {None}
        /\ step \in {"locate", "video", "landing", "click"}
        /\ step' \in {"video", "landing", "merge", "click", "shown"}
    BY <1>5 DEF Located, RecordVideo, NoLanding, StartLanding, NoCta, ClickCta
  <2> QED
    BY <2>1 DEF DraftOK, Steps
<1>6. CASE CaptureLanding
  <2>1. step = "shown" /\ step' = "merge" /\ found' = found
    BY <1>6 DEF CaptureLanding
  <2>2. CASE draft' = draft
    BY <2>1, <2>2 DEF DraftOK, Steps
  <2>3. CASE draft' # draft
    <3>1. /\ draft.shot \in Landings \cup {None} /\ draft.id \in Ids \cup {None}
          /\ found # None => LandingId[found] \in Ids \cup {None}
      BY <1>0, LandingTypes DEF RowSet
    <3>2. found # None
      BY <1>6, <2>3 DEF CaptureLanding
    <3>3. PICK shot \in Landings \cup {None}, id \in Ids \cup {None} :
            draft' = [draft EXCEPT !.landing = found, !.shot = shot, !.id = id]
      <4>1. PICK taken \in BOOLEAN :
              draft' = [draft EXCEPT !.landing = found, !.shot = IF taken THEN found ELSE @,
                          !.id = IF LandingId[found] # None THEN LandingId[found] ELSE @]
        BY <1>6, <3>2 DEF CaptureLanding
      <4> QED
        BY <3>1, <3>2, <4>1
    <3>4. /\ draft' \in RowSet /\ draft'.enr = draft.enr /\ draft'.active = draft.active
          /\ draft'.gate = draft.gate /\ draft'.pre = draft.pre /\ draft'.iso = draft.iso
          /\ draft'.final = draft.final /\ draft'.saw = draft.saw
      BY <1>0, <3>3 DEF RowSet
    <3>5. draft.active /\ draft.enr = "waiting"
      BY <2>1 DEF DraftOK
    <3>6. Gated(current, draft')
      BY <1>0, <3>4, <3>5, GatedDraft
    <3> QED
      BY <1>0, <2>1, <3>4, <3>5, <3>6 DEF DraftOK, Steps
  <2> QED
    BY <2>2, <2>3
<1>7. CASE Complete
  <2>1. /\ step = "merge" /\ step' = "ended" /\ found' = found
        /\ draft' = [draft EXCEPT !.enr = "completed"]
    BY <1>7 DEF Complete
  <2>2. /\ draft' \in RowSet /\ draft'.enr = "completed" /\ draft'.active = draft.active
        /\ draft'.gate = draft.gate /\ draft'.pre = draft.pre /\ draft'.iso = draft.iso
        /\ draft'.final = draft.final /\ draft'.saw = draft.saw
    BY <1>0, <2>1 DEF RowSet
  <2>3. draft.active
    BY <2>1 DEF DraftOK
  <2>4. Gated(current, draft')
    BY <1>0, <2>2, <2>3, GatedDraft
  <2> QED
    BY <1>0, <2>1, <2>2, <2>3, <2>4 DEF DraftOK, Steps
<1> QED
  BY <1>1, <1>2, <1>3, <1>4, <1>5, <1>6, <1>7 DEF CaptureStep

LEMMA CaptureMoves ==
  ASSUME GateInv, Capture
  PROVE  GateInv'
<1>0. RowsInv /\ StageInv /\ DraftInv /\ TabsInv
  BY DEF GateInv
<1>1. /\ Prepared /\ stage = "enrich" /\ CaptureStep
      /\ UNCHANGED <<card, rows, stage, todo, cache, seen, current>>
  BY DEF Capture, Prepared
<1>2. step # "idle"
  BY <1>1 DEF CaptureStep, NoPageToSearch, SearchFails, PostRecovered, NoNewTab, OpenPost,
              StepFails, Located, RecordVideo, NoLanding, StartLanding, NoCta, ClickCta,
              CaptureLanding, Complete
<1>3. current \in todo /\ current \in Ads /\ DraftOK(draft, step)
  BY <1>0, <1>2 DEF DraftInv, StageInv
<1>4. /\ DraftOK(draft', step') /\ step' \in Steps \ {"idle"}
      /\ found' \in Landings \cup {None}
  BY <1>0, <1>1, <1>3, CaptureDraft DEF DraftInv
<1>5. DraftInv'
  <2>1. DraftOK(draft, step)'
    BY <1>1, <1>4 DEF DraftOK, Gated, OwnLanding, Text, Leads, External
  <2> QED
    BY <1>0, <1>1, <1>3, <1>4, <2>1 DEF DraftInv, Prepared
<1>6. TabsInv'
  <2>1. /\ tabs' \subseteq {"home", "post", "landing"} /\ playing' \in BOOLEAN
        /\ alive' = alive
    <3> USE <1>0 DEF TabsInv
    <3>1. CASE NoPageToSearch \/ SearchFails \/ PostRecovered
      BY <3>1 DEF NoPageToSearch, SearchFails, PostRecovered, EndOfSearch, Neutral
    <3>2. CASE NoNewTab \/ StepFails \/ Complete
      BY <3>2 DEF NoNewTab, StepFails, Complete, Fail, ClosePost
    <3>3. CASE OpenPost \/ Located \/ RecordVideo \/ NoLanding \/ StartLanding \/ NoCta
      BY <3>3 DEF OpenPost, Located, RecordVideo, NoLanding, StartLanding, NoCta, OnlyThePost
    <3>4. CASE ClickCta \/ CaptureLanding
      BY <3>4 DEF ClickCta, CaptureLanding, OnlyThePost
    <3> QED
      BY <1>1, <3>1, <3>2, <3>3, <3>4 DEF CaptureStep
  <2> QED
    BY <1>0, <1>1, <1>2, <2>1 DEF TabsInv
<1>7. StageInv'
  BY <1>0, <1>1 DEF StageInv, Prepared
<1> QED
  BY <1>0, <1>1, <1>5, <1>6, <1>7, RowsUntouched DEF GateInv

-----------------------------------------------------------------------------
(* Theorems.                                                               *)

LEMMA GateInvInit == Init => GateInv
<1> SUFFICES ASSUME Init PROVE GateInv
  OBVIOUS
<1>1. card \in [Ads -> Cards] /\ rows = [a \in Ads |-> Row(card[a])]
  BY DEF Init
<1>2. ASSUME NEW a \in Ads
      PROVE  RowOK(a, rows[a])
  <2>1. /\ card[a].post \in Posts \cup {None} /\ card[a].id \in Ids \cup {None}
    BY <1>1, CardTypes
  <2>2. rows[a] = Row(card[a])
    BY <1>1
  <2>3. rows[a] \in RowSet
    BY <2>1, <2>2 DEF Row, RowSet, Judgements
  <2>4. /\ rows[a].gate = "none" /\ rows[a].pre = "none" /\ rows[a].iso = "none"
        /\ rows[a].landing = None /\ rows[a].shot = None /\ rows[a].active = FALSE
        /\ rows[a].enr = "none"
    BY <2>2 DEF Row
  <2> QED
    BY <2>3, <2>4 DEF RowOK, Gated, OwnLanding
<1>3. RowsInv
  <2>1. rows \in [Ads -> RowSet]
    BY <1>1, <1>2 DEF RowOK
  <2> QED
    BY <1>1, <1>2, <2>1 DEF RowsInv
<1>4. StageInv
  BY <1>1 DEF Init, StageInv, Commands, Ends, Prepared, Row
<1>5. DraftInv /\ TabsInv
  BY DEF Init, CaptureInit, DraftInv, TabsInv, Steps
<1> QED
  BY <1>3, <1>4, <1>5 DEF GateInv

LEMMA GateInvStep == GateInv /\ [Next]_vars => GateInv'
<1> SUFFICES ASSUME GateInv, [Next]_vars PROVE GateInv'
  OBVIOUS
<1>1. ASSUME NEW a \in Ads,
             \/ Prefilter(a) \/ Unresolvable(a) \/ Reuse(a) \/ ResolutionFails(a)
             \/ ResolveDirect(a) \/ ResolvePost(a)
             \/ Unavailable(a) \/ JudgeHeld(a) \/ Skip(a) \/ Pick(a)
             \/ Settle(a) \/ Finalize(a)
      PROVE  GateInv'
  BY <1>1, PrefilterStep, ResolveStep, UnavailableStep, JudgeHeldStep, SkipStep, PickStep,
     SettleStep
<1>2. CASE UNCHANGED vars
  <2>1. RowsInv'
    BY <1>2, RowsUntouched DEF GateInv, vars
  <2>2. StageInv'
    BY <1>2 DEF GateInv, vars, StageInv, Prepared, Concluded, Text
  <2>3. DraftInv' /\ TabsInv'
    BY <1>2 DEF GateInv, vars, captureVars, DraftInv, TabsInv, Prepared, DraftOK, Gated,
                OwnLanding, Text, Leads, External
  <2> QED
    BY <2>1, <2>2, <2>3 DEF GateInv
<1> QED
  BY <1>1, <1>2, EndPrefilterStep, EndResolveStep, PrepareStep, CaptureMoves, RecordStep,
     EnrichEndsStep, LoseBrowserStep, EndFinalizeStep, CommandFailsStep DEF Next

LEMMA GateInvariant == Spec => []GateInv
BY GateInvInit, GateInvStep, PTL DEF Spec

\* Every variable of the pipeline and every field of a row keeps its type.
THEOREM GateTypeCorrect == Spec => []TypeOK
<1>1. GateInv => TypeOK
  <2> SUFFICES ASSUME GateInv PROVE TypeOK
    OBVIOUS
  <2>1. ASSUME NEW a \in Ads
        PROVE  /\ rows[a].gate \in {"none", "allow", "deny", "hold"}
               /\ rows[a].landing \in Landings \cup {None}
               /\ rows[a].shot \in Landings \cup {None}
               /\ rows[a].post \in Posts \cup {None} /\ rows[a].id \in Ids \cup {None}
               /\ {rows[a].pre, rows[a].iso, rows[a].final}
                    \subseteq {"none", "relevant", "not_relevant", "uncertain", "error"}
    <3>1. rows[a] \in RowSet
      BY DEF GateInv, RowsInv
    <3> QED
      BY <3>1 DEF RowSet, Judgements
  <2> QED
    BY <2>1 DEF GateInv, StageInv, DraftInv, TabsInv, TypeOK
<1> QED
  BY <1>1, GateInvariant, PTL

\* The profile acts only on ads that a judgement without it has called relevant, on
\* evidence the scope rules accept.
THEOREM ProfileActsOnAllowed == Spec => []ProfileActsOnAllowedAds
<1>1. GateInv => ProfileActsOnAllowedAds
  <2> SUFFICES ASSUME GateInv, NEW a \in Ads,
                      (step # "idle" /\ current = a) \/ rows[a].active
               PROVE  /\ "relevant" \in {rows[a].pre, rows[a].iso}
                      /\ rows[a].iso \in {"none", "relevant"}
                      /\ rows[a].final = "none" =>
                           \E claim \in Claims : ~OutOfScope(rows[a].saw, claim)
    BY DEF ProfileActsOnAllowedAds
  <2>1. rows[a] \in RowSet /\ Gated(a, rows[a])
    BY DEF GateInv, RowsInv, RowOK
  <2>2. rows[a].gate = "allow"
    BY <2>1 DEF GateInv, StageInv, DraftInv, Gated
  <2>3. rows[a].iso # "none" => rows[a].iso = "relevant"
    BY <2>1, <2>2, Gates DEF Gated, RowSet, Judgements
  <2>4. rows[a].iso = "none" => rows[a].pre = "relevant"
    BY <2>1, <2>2, Gates DEF Gated, RowSet, Judgements
  <2> QED
    BY <2>1, <2>2, <2>3, <2>4 DEF Gated
<1> QED
  BY <1>1, GateInvariant, PTL

\* The verdicts of a pipeline that ends well were given on all that is known of the ads.
THEOREM VerdictsAreInformed == Spec => []VerdictsSeeAllEvidence
<1>1. GateInv => VerdictsSeeAllEvidence
  BY DEF GateInv, StageInv, Concluded, VerdictsSeeAllEvidence
<1> QED
  BY <1>1, GateInvariant, PTL

\* A held ad is judged again on its own public landing and a picture of it, although
\* results are shared between the rows of a target.
THEOREM PromotionsAreEarned == Spec => []PromotedOnOwnLanding
<1>1. GateInv => PromotedOnOwnLanding
  BY DEF GateInv, RowsInv, RowOK, OwnLanding, PromotedOnOwnLanding
<1> QED
  BY <1>1, GateInvariant, PTL

\* A pipeline that ends well has given every ad one of the two verdicts.
THEOREM VerdictsAreComplete == Spec => []EveryAdGetsAVerdict
<1>1. GateInv => EveryAdGetsAVerdict
  BY DEF GateInv, StageInv, Concluded, EveryAdGetsAVerdict
<1> QED
  BY <1>1, GateInvariant, PTL

\* The profile is handed on with at most its own tab, and nothing plays.
THEOREM TabsAreHandedBack == Spec => []AdTabsAreClosed
<1>1. GateInv => AdTabsAreClosed
  BY DEF GateInv, TabsInv, AdTabsAreClosed
<1> QED
  BY <1>1, GateInvariant, PTL
=============================================================================
