------------------------------ MODULE EventBus ------------------------------
(***************************************************************************)
(* What the cluster bridge promises: every event is shown on the node that *)
(* published it, and on each other node at most once, never before it was  *)
(* published, the events of one node in the order it published them.  An   *)
(* event may be lost on the way to another node.                           *)
(***************************************************************************)
EXTENDS Sequences, SequencesExt

CONSTANTS Nodes, Events,
    Origin          \* the node that publishes each event

VARIABLES
    order,      \* per node, the events it published, in order
    log         \* per node, the events shown to its sockets, in order

busVars == <<order, log>>

Init ==
    /\ order = [n \in Nodes |-> <<>>]
    /\ log = [n \in Nodes |-> <<>>]

Published(e) == e \in ToSet(order[Origin[e]])
Shown(e, n) == e \in ToSet(log[n])

\* e was published before f, by the same node
Before(e, f) ==
    \E i, j \in DOMAIN order[Origin[f]] :
        i < j /\ order[Origin[f]][i] = e /\ order[Origin[f]][j] = f

Publish(e) ==
    /\ ~Published(e)
    /\ order' = [order EXCEPT ![Origin[e]] = Append(@, e)]
    /\ UNCHANGED log

Show(e, n) ==
    /\ Published(e) /\ ~Shown(e, n)
    /\ n # Origin[e] => \A f \in ToSet(log[n]) : ~Before(e, f)
    /\ log' = [log EXCEPT ![n] = Append(@, e)]
    /\ UNCHANGED order

Next == \E e \in Events : Publish(e) \/ \E n \in Nodes : Show(e, n)

Spec == Init /\ [][Next]_busVars
=============================================================================
