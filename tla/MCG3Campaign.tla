---------------------------- MODULE MCG3Campaign ----------------------------
EXTENDS G3Campaign, TLC

Symmetry == Permutations(Commits) \cup Permutations(Tools) \cup Permutations(Pids)
=============================================================================
