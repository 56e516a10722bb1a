------------------------ MODULE MCProfileScheduler ------------------------
EXTENDS ProfileScheduler, TLC
Symmetry == Permutations(Profiles) \cup Permutations(Workers)
=============================================================================
