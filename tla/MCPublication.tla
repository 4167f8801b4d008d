--------------------------- MODULE MCPublication ---------------------------
EXTENDS Publication, TLC
CONSTANTS p1, p2, p3
MCPublishers == {p1, p2, p3}
MCSymmetry == Permutations(MCPublishers)
=============================================================================
