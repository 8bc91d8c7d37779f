---------------------------- MODULE MCScheduler -----------------------------
EXTENDS Scheduler

CONSTANTS a, b

\* a is due at every second, b at the second one and never again
AB == <<a, b>>
Times == a :> {1, 2, 3} @@ b :> {2}
=============================================================================
