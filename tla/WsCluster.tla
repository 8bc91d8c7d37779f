----------------------------- MODULE WsCluster ------------------------------
(***************************************************************************)
(* The Redis bridge between the hubs of several instances                  *)
(* (infra/ws/cluster.rs, bootstrap/ws.rs and the cluster half of           *)
(* infra/ws/hub.rs).  A publish puts a frame into the bounded relay queue  *)
(* and then delivers locally; one task of the node takes frames out of the *)
(* queue and PUBLISHes them, another one holds the subscription and hands  *)
(* the frames of other nodes to the hub.  Redis passes a frame to the      *)
(* subscriptions that exist at that moment, the publisher's included.      *)
(***************************************************************************)
EXTENDS Integers, Sequences, SequencesExt

CONSTANTS
    Nodes, Events,
    Origin,         \* the node that publishes each event
    Nothing,        \* no frame in hand
    Junk,           \* a message on the channel that is no frame
    RelayBuffer,    \* CLUSTER_RELAY_BUFFER
    MaxFaults       \* bound: how often the environment misbehaves

ASSUME ClusterConstantsAssumption ==
    /\ Origin \in [Events -> Nodes]
    /\ Nothing \notin Events /\ Junk \notin Events /\ Junk # Nothing
    /\ RelayBuffer \in Nat \ {0} /\ MaxFaults \in Nat

VARIABLES
    stage,      \* each event's publish call
    relay,      \* per node: the queue of the hub to publish_loop
    sending,    \* the frame publish_loop has taken out of it
    link,       \* the subscription: "up" or "down"
    inbound,    \* frames in the subscription's stream
    order,      \* history: the events each node forwarded, in order
    log,        \* history: the events each hub delivered, in order
    excused,    \* history: <<event, node>> that missed each other, with a cause
    faults      \* bound: how often the environment misbehaved

bridgeVars == <<relay, sending, link, inbound>>
vars == <<stage, bridgeVars, order, log, excused, faults>>

Init ==
    /\ stage = [e \in Events |-> "none"]
    /\ relay = [n \in Nodes |-> <<>>]
    /\ sending = [n \in Nodes |-> Nothing]
    /\ link = [n \in Nodes |-> "down"]
    /\ inbound = [n \in Nodes |-> <<>>]
    /\ order = [n \in Nodes |-> <<>>]
    /\ log = [n \in Nodes |-> <<>>]
    /\ excused = {}
    /\ faults = 0

Missed(e, ns) == {e} \X (ns \ {Origin[e]})
Disconnected == {n \in Nodes : link[n] = "down"}

-----------------------------------------------------------------------------
(* publish, publish_to_user and broadcast                                  *)

\* "called", "forwarded", then "done"; "died" with the process
Call(e) ==
    /\ stage[e] = "none"
    /\ stage' = [stage EXCEPT ![e] = "called"]
    /\ UNCHANGED <<bridgeVars, order, log, excused, faults>>

Forwarded(e) ==
    /\ stage[e] = "called"
    /\ stage' = [stage EXCEPT ![e] = "forwarded"]
    /\ order' = [order EXCEPT ![Origin[e]] = Append(@, e)]
    /\ UNCHANGED <<sending, link, inbound, log, faults>>

\* Mutant: a full queue makes the publisher wait.
ForwardBlocking(e) ==
    /\ Forwarded(e)
    /\ Len(relay[Origin[e]]) < RelayBuffer
    /\ relay' = [relay EXCEPT ![Origin[e]] = Append(@, e)]
    /\ UNCHANGED excused

\* forward_to_cluster: try_send; a full queue keeps the event to this node
Forward(e) ==
    /\ Forwarded(e)
    /\ IF Len(relay[Origin[e]]) < RelayBuffer
       THEN /\ relay' = [relay EXCEPT ![Origin[e]] = Append(@, e)]
            /\ UNCHANGED excused
       ELSE /\ excused' = excused \cup Missed(e, Nodes)
            /\ UNCHANGED relay

\* publish_local and its two siblings
DeliverLocally(e) ==
    /\ stage[e] = "forwarded"
    /\ stage' = [stage EXCEPT ![e] = "done"]
    /\ log' = [log EXCEPT ![Origin[e]] = Append(@, e)]
    /\ UNCHANGED <<bridgeVars, order, excused, faults>>

-----------------------------------------------------------------------------
(* publish_loop                                                            *)

TakeFrame(n) ==
    /\ sending[n] = Nothing
    /\ relay[n] # <<>>
    /\ sending' = [sending EXCEPT ![n] = Head(relay[n])]
    /\ relay' = [relay EXCEPT ![n] = Tail(@)]
    /\ UNCHANGED <<stage, link, inbound, order, log, excused, faults>>

\* PUBLISH reached Redis, whether or not its reply came back
PublishFrame(n) ==
    /\ sending[n] # Nothing
    /\ sending' = [sending EXCEPT ![n] = Nothing]
    /\ inbound' = [m \in Nodes |-> IF link[m] = "up" THEN Append(inbound[m], sending[n])
                                   ELSE inbound[m]]
    /\ excused' = excused \cup Missed(sending[n], Disconnected)
    /\ UNCHANGED <<stage, relay, link, order, log, faults>>

\* no connection in the pool, or PUBLISH failed: on with the next frame
PublishFails(n) ==
    /\ sending[n] # Nothing
    /\ sending' = [sending EXCEPT ![n] = Nothing]
    /\ excused' = excused \cup Missed(sending[n], Nodes)
    /\ UNCHANGED <<stage, relay, link, inbound, order, log, faults>>

-----------------------------------------------------------------------------
(* subscribe_loop and run_subscriber                                       *)

Subscribe(n) ==
    /\ link[n] = "down"
    /\ link' = [link EXCEPT ![n] = "up"]
    /\ UNCHANGED <<stage, relay, sending, inbound, order, log, excused, faults>>

Received(n) ==
    /\ inbound[n] # <<>>
    /\ inbound' = [inbound EXCEPT ![n] = Tail(@)]
    /\ UNCHANGED <<stage, relay, sending, order, excused, faults>>

\* Mutant: every frame is handed to the hub.
ReceiveAll(n) ==
    /\ Received(n)
    /\ LET e == Head(inbound[n])
       IN  log' = IF e # Junk THEN [log EXCEPT ![n] = Append(@, e)] ELSE log
    /\ UNCHANGED link

\* Mutant: a frame of its own ends the subscription.
ReceiveUntilOwn(n) ==
    /\ inbound[n] # <<>>
    /\ LET e == Head(inbound[n])
           own == e # Junk /\ Origin[e] = n
       IN  /\ log' = IF e # Junk /\ ~own THEN [log EXCEPT ![n] = Append(@, e)] ELSE log
           /\ link' = IF own THEN [link EXCEPT ![n] = "down"] ELSE link
           /\ inbound' = [inbound EXCEPT ![n] = IF own THEN <<>> ELSE Tail(@)]
    /\ UNCHANGED <<stage, relay, sending, order, excused, faults>>

\* what is no frame and what is its own it skips; dispatch_cluster_frame
\* delivers the rest and relays nothing
Receive(n) ==
    /\ Received(n)
    /\ LET e == Head(inbound[n])
       IN  log' = IF e # Junk /\ Origin[e] # n THEN [log EXCEPT ![n] = Append(@, e)] ELSE log
    /\ UNCHANGED link

-----------------------------------------------------------------------------
(* The environment                                                         *)

Fault == faults < MaxFaults /\ faults' = faults + 1

LoseStream(n) ==
    /\ link' = [link EXCEPT ![n] = "down"]
    /\ inbound' = [inbound EXCEPT ![n] = <<>>]

OnStream(n) == UNION {Missed(e, {n}) : e \in ToSet(inbound[n]) \ {Junk}}

\* the stream ends; the task sleeps RECONNECT_DELAY and subscribes anew
Disconnect(n) ==
    /\ link[n] = "up"
    /\ Fault
    /\ LoseStream(n)
    /\ excused' = excused \cup OnStream(n)
    /\ UNCHANGED <<stage, relay, sending, order, log>>

\* the process dies and a new one takes its place, with a hub that is empty
Crash(n) ==
    /\ Fault
    /\ LoseStream(n)
    /\ stage' = [e \in Events |-> IF Origin[e] = n /\ stage[e] \in {"called", "forwarded"}
                                  THEN "died" ELSE stage[e]]
    /\ relay' = [relay EXCEPT ![n] = <<>>]
    /\ sending' = [sending EXCEPT ![n] = Nothing]
    /\ excused' = excused \cup OnStream(n)
                  \cup UNION {Missed(e, Nodes) : e \in ToSet(relay[n]) \cup ({sending[n]} \ {Nothing})}
    /\ UNCHANGED <<order, log>>

Noise ==
    /\ Fault
    /\ inbound' = [m \in Nodes |-> IF link[m] = "up" THEN Append(inbound[m], Junk)
                                   ELSE inbound[m]]
    /\ UNCHANGED <<stage, relay, sending, link, order, log, excused>>

-----------------------------------------------------------------------------
PublishStep(e) == Forward(e) \/ DeliverLocally(e)
RelayStep(n) == TakeFrame(n) \/ PublishFrame(n) \/ PublishFails(n)
Environment(n) == Disconnect(n) \/ Crash(n)

Next ==
    \/ \E e \in Events : Call(e) \/ PublishStep(e)
    \/ \E n \in Nodes : RelayStep(n) \/ Subscribe(n) \/ Receive(n) \/ Environment(n)
    \/ Noise

(***************************************************************************)
(* A publish is synchronous and finishes.  Nothing is assumed of Redis: a  *)
(* PUBLISH has no timeout, and a subscription may never be made.           *)
(***************************************************************************)
Fairness == \A e \in Events : WF_vars(PublishStep(e))

Spec == Init /\ [][Next]_vars /\ Fairness

-----------------------------------------------------------------------------
Frames == Events \cup {Junk}

TypeOK ==
    /\ stage \in [Events -> {"none", "called", "forwarded", "done", "died"}]
    /\ \A n \in Nodes : /\ ToSet(relay[n]) \subseteq Events /\ Len(relay[n]) <= RelayBuffer
                        /\ sending[n] \in Events \cup {Nothing}
                        /\ ToSet(inbound[n]) \subseteq Frames
                        /\ link[n] = "down" => inbound[n] = <<>>
                        /\ ToSet(order[n]) \subseteq {e \in Events : Origin[e] = n}
                        /\ ToSet(log[n]) \subseteq Events
    /\ link \in [Nodes -> {"up", "down"}]
    /\ excused \subseteq Events \X Nodes
    /\ faults \in 0 .. MaxFaults

\* on its way to n
InTransit(e, n) == \/ e \in ToSet(relay[Origin[e]])
                   \/ e = sending[Origin[e]]
                   \/ e \in ToSet(inbound[n])

\* An event that was forwarded is with every other node, on its way to it, or
\* missed it for a reason: a full relay queue, an error of Redis, a node that
\* was not subscribed, a stream that broke, a process that died.
LostOnlyWithCause ==
    \A n \in Nodes : \A e \in ToSet(order[n]), m \in Nodes \ {n} :
        e \in ToSet(log[m]) \/ InTransit(e, m) \/ <<e, m>> \in excused

\* The relay queue stays within its bound, a broken subscription holds nothing
\* back, and no event is lost without a cause.
ClusterInv == TypeOK /\ LostOnlyWithCause

\* Dropping frames of one's own "is what prevents an event from echoing back":
\* no event is shown twice, unpublished, or out of its node's order.
Bus == INSTANCE EventBus
IsAnEventBus == Bus!Spec

\* Redis being down, slow or gone does not keep an event from the sockets of
\* the node that publishes it.
LocalDespiteRedis == \A e \in Events : stage[e] = "called" ~> stage[e] \in {"done", "died"}
=============================================================================
