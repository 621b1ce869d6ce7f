-------------------------------- MODULE MCBio -------------------------------
EXTENDS Bio, TLC
Alike == Permutations(Bufs) \cup Permutations(Blocks) \cup Permutations(Procs)
=============================================================================
