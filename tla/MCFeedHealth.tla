---------------------------- MODULE MCFeedHealth ----------------------------
(***************************************************************************)
(* Collections of two durations and two metric versions: full ones at two  *)
(* levels of yield, classified and not, one without ads, one like it that  *)
(* was too short, one that ran into a timeout and one whose collector was  *)
(* killed.                                                                 *)
(***************************************************************************)
EXTENDS FeedHealth

Ads(n)  == [total |-> n, classified |-> 0, relevant |-> 0, landings |-> n, there |-> TRUE]
Judged(n, relevant) == [Ads(n) EXCEPT !.classified = n, !.relevant = relevant]

Full == [completed |-> TRUE, summary |-> TRUE, stop |-> "none", geo |-> TRUE, mode |-> 1,
         minutes |-> 45, lastAd |-> 44, scrolls |-> 100,
         classified |-> Absent, complete |-> Ads(20), partial |-> Ads(20)]

MCCollections ==
  { Full,
    [Full EXCEPT !.complete = Ads(6), !.partial = Ads(6)],
    [Full EXCEPT !.complete = Ads(0), !.partial = Ads(0)],
    [Full EXCEPT !.complete = Ads(0), !.partial = Ads(0), !.minutes = 44],
    [Full EXCEPT !.classified = Judged(20, 18)],
    [Full EXCEPT !.classified = Judged(20, 15), !.stop = "timeout"],
    [Full EXCEPT !.mode = 2],
    [Full EXCEPT !.minutes = 60, !.complete = Ads(26), !.partial = Ads(26)],
    [Full EXCEPT !.completed = FALSE, !.summary = FALSE, !.complete = Absent,
                 !.partial = Ads(12)] }

MCPolicy ==
  [minMinutes |-> 45, minScrolls |-> 80,
   zeroWindows |-> 2, absoluteWindows |-> 2, lowWindows |-> 2, watchWindows |-> 2,
   softWindows |-> 2, lowRatio |-> 45, watchRatio |-> 95, immediateRatio |-> 70,
   proactiveRatio |-> 97, proactiveSignals |-> 2, proactiveAds |-> 20,
   adsDrop |-> 1, yieldDrop |-> 1, densityDrop |-> 1, rateDrop |-> 1,
   absoluteLowAds |-> 3, absoluteLowRate |-> 3, healthyRate |-> 75, healthyAds |-> 15,
   actionableAds |-> 10, goodAds |-> 5, goodTargets |-> 5, minSamples |-> 2,
   maxSamples |-> 2, maintenanceWindows |-> 2]
=============================================================================
