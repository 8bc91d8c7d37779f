--------------------------- MODULE MCChannelQueue ---------------------------
EXTENDS ChannelQueue

Symmetry == Permutations(Jobs)
Limits == {0, 2}
=============================================================================
