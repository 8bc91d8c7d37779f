------------------------------ MODULE MCWsHub ------------------------------
EXTENDS WsHub, TLC

CONSTANTS c1, u1

SameUser == [c \in Conns |-> u1]
Symmetry == Permutations(Publishers) \cup Permutations(Conns)
            \cup Permutations(Topics)
=============================================================================
