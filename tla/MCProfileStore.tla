---------------------------- MODULE MCProfileStore ----------------------------
(***************************************************************************)
(* Two profiles of one country, one of which has yet to learn it.  Their   *)
(* cycles run in one orchestrator; a second run of one of them, a          *)
(* seed-baseline command and the discovery of a third profile run beside.  *)
(***************************************************************************)
EXTENDS ProfileStore

CONSTANTS p1, p2, p3, x, orch, shell, manual,
          a1, a2, k1, k2

MCProfiles == {p1, p2, p3}
MCJobs == {"c1", "c2", "again", "seed", "discover"}
MCKindOf == [j \in MCJobs |-> IF j \in {"seed", "discover"} THEN j ELSE "cycle"]
MCProfileOf ==
  [j \in MCJobs |-> IF j \in {"c2", "again"} THEN p2 ELSE IF j = "discover" THEN p3 ELSE p1]
MCProcessOf ==
  [j \in MCJobs |-> CASE j = "seed" -> shell [] j = "again" -> manual [] OTHER -> orch]
MCFresh ==
  [j \in MCJobs |-> CASE j = "c1" -> <<a1>> [] j = "c2" -> <<a2>> [] OTHER -> <<>>]
MCKeyOf == [a \in {a1, a2} |-> IF a = a1 THEN k1 ELSE k2]
MCCountryOf == [a \in {a1, a2} |-> x]
MCCatalog == [p \in MCProfiles |-> CASE p = p1 -> None [] p = p2 -> x [] p = p3 -> Unlisted]
MCSeen == [p \in MCProfiles |-> x]
MCTogether ==
  [jobs : {{"c1", "c2", "discover"}, {"c2", "again", "seed"}},
   faults : {0}]
  \cup [jobs : {{"c1", "again"}, {"c1", "discover"}, {"c1", "seed"}},
         faults : {1}]
MCResults == {[effective |-> TRUE, used |-> 2]}
================================================================================
