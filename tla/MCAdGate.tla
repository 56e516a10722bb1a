------------------------------ MODULE MCAdGate ------------------------------
(* Two ads out of a few that differ in what the gates, the cache and the      *)
(* enricher look at.                                                           *)
EXTENDS AdGate

MCLandingId == [l \in Landings |-> IF l = "la" THEN "ia" ELSE None]
MCRedirect == [l \in Landings |-> IF l = "lr" THEN "lx" ELSE l]
MCPublic == Landings \ {"lx"}
MCLandingText == [l \in Landings |-> IF l = "la" THEN {"health"} ELSE {"finance"}]
MCPostLanding == [p \in Posts |-> "la"]
MCClaims == {{}, {"foreign"}}

Ad(text, shell, cta, post, id) ==
  [text |-> text, shell |-> shell, cta |-> cta, post |-> post, id |-> id]

\* Shells with an address: one that is not public, one that ends there, two good ones;
\* a card with a post only; one without both.
MCCards ==
  {Ad({}, TRUE, "lx", "p", "ia"), Ad({}, TRUE, "lr", None, None),
   Ad({}, TRUE, "la", None, None), Ad({}, TRUE, "lb", "p", None),
   Ad({"scam"}, TRUE, None, "p", None), Ad({"finance"}, FALSE, None, None, "ia")}
=============================================================================
