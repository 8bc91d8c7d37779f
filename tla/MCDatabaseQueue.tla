-------------------------- MODULE MCDatabaseQueue --------------------------
EXTENDS DatabaseQueue, TLC

WorkerSymmetry == Permutations(Workers)
Symmetry == Permutations(Workers) \cup Permutations(Jobs)
Limits == {0, 2}
OneLimit == {1}
TwoAttempts == {2}
=============================================================================
