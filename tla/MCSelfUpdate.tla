---------------------------- MODULE MCSelfUpdate ----------------------------
EXTENDS SelfUpdate, TLC

Symmetry == Permutations(Applies)
=============================================================================
