------------------------ MODULE MCPortForwardingApp ------------------------
EXTENDS PortForwardingApp

CONSTANTS c1, c2, t1, t2, w1, w2

MCCreates == {c1, c2}
MCTaps == {t1, t2}
MCShows == {w1, w2}
MCSymmetry == Permutations(MCCreates) \cup Permutations(MCTaps)
                \cup Permutations(MCShows)
=============================================================================
