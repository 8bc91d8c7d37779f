-------------------------- MODULE WsClusterProofs ---------------------------
(***************************************************************************)
(* Theorems about the Redis bridge, for any nodes, events, queue bound and *)
(* number of faults: the relay queue keeps its bound, no event is lost     *)
(* without a cause, and what the sockets of the nodes are shown is an      *)
(* EventBus: nothing twice, unpublished, or out of its node's order.       *)
(***************************************************************************)
EXTENDS WsCluster, SequenceTheorems, TLAPS

-----------------------------------------------------------------------------
(***************************************************************************)
(* The inductive invariant.  The events of one node stay in the order it   *)
(* forwarded them all along the way to another node: through the relay     *)
(* queue, the frame in hand, the stream of the subscription and the hub.   *)
(***************************************************************************)

Published(e) == e \in ToSet(order[Origin[e]])
Shown(e, n) == e \in ToSet(log[n])
Before(e, f) ==
    \E i, k \in DOMAIN order[Origin[f]] :
        i < k /\ order[Origin[f]][i] = e /\ order[Origin[f]][k] = f

\* the first of two frames of one node was published first
Agree ==
    {p \in Frames \X Frames :
        p[1] # Junk /\ p[2] # Junk /\ Origin[p[1]] = Origin[p[2]] => Before(p[1], p[2])}

SortedBy(R, s) == \A i, k \in DOMAIN s : i < k => <<s[i], s[k]>> \in R
Ahead(R, S, T) == \A x \in S, y \in T : <<x, y>> \in R
InHand(n) == {sending[n]} \ {Nothing}
Foreign(m) == {e \in ToSet(log[m]) : Origin[e] # m}

Shape ==
    /\ relay \in [Nodes -> Seq(Events)]
    /\ inbound \in [Nodes -> Seq(Frames)]
    /\ order \in [Nodes -> Seq(Events)]
    /\ log \in [Nodes -> Seq(Events)]
    /\ sending \in [Nodes -> Events \cup {Nothing}]

\* how far a publish call is, and what its node has of the event
StageInv ==
    \A e \in Events :
        /\ stage[e] \in {"none", "called"} => ~Published(e)
        /\ stage[e] \in {"forwarded", "done"} => Published(e)
        /\ Shown(e, Origin[e]) => stage[e] = "done"

\* a node forwards each event once, and nothing is anywhere before that
PublishedInv ==
    \A n \in Nodes :
        /\ \A i, k \in DOMAIN order[n] : order[n][i] = order[n][k] => i = k
        /\ ToSet(relay[n]) \cup InHand(n) \subseteq ToSet(order[n])
        /\ \A e \in ToSet(inbound[n]) \cup ToSet(log[n]) : e # Junk => Published(e)

OrderInv ==
    /\ \A n \in Nodes :
          /\ SortedBy(Agree, relay[n]) /\ SortedBy(Agree, inbound[n])
          /\ Ahead(Agree, InHand(n), ToSet(relay[n]))
          /\ Ahead(Agree, Foreign(n), ToSet(inbound[n]))
    /\ \A m, n \in Nodes :
          Ahead(Agree, ToSet(inbound[m]) \cup Foreign(m), InHand(n) \cup ToSet(relay[n]))

IInv ==
    /\ TypeOK
    /\ Shape
    /\ StageInv
    /\ PublishedInv
    /\ OrderInv
    /\ LostOnlyWithCause

-----------------------------------------------------------------------------
(* Queues and streams.                                                     *)

\* An appended member is one of the sequence.
LEMMA AppendMembers ==
    ASSUME NEW S, NEW s \in Seq(S), NEW x \in S
    PROVE  /\ Append(s, x) \in Seq(S) /\ Len(Append(s, x)) = Len(s) + 1
           /\ ToSet(Append(s, x)) = ToSet(s) \cup {x}
<1> DEFINE t == Append(s, x)
<1>1. /\ t \in Seq(S) /\ Len(t) = Len(s) + 1
      /\ \A i \in 1 .. Len(s) : t[i] = s[i]
      /\ t[Len(s) + 1] = x
  BY AppendProperties
<1>2. Len(s) \in Nat /\ DOMAIN s = 1 .. Len(s) /\ DOMAIN t = 1 .. Len(s) + 1
  BY <1>1, LenProperties
<1> HIDE DEF t
<1>3. ToSet(t) = ToSet(s) \cup {x}
  BY <1>1, <1>2 DEF ToSet
<1> QED
  BY <1>1, <1>3 DEF t

\* What is after everything else may be appended.
LEMMA AppendSorted ==
    ASSUME NEW S, NEW R, NEW s \in Seq(S), NEW x \in S
    PROVE  SortedBy(R, s) /\ (\A y \in ToSet(s) : <<y, x>> \in R)
           => SortedBy(R, Append(s, x))
<1> DEFINE t == Append(s, x)
<1>1. /\ t \in Seq(S) /\ Len(t) = Len(s) + 1
      /\ \A i \in 1 .. Len(s) : t[i] = s[i]
      /\ t[Len(s) + 1] = x
  BY AppendProperties
<1>2. Len(s) \in Nat /\ DOMAIN s = 1 .. Len(s) /\ DOMAIN t = 1 .. Len(s) + 1
  BY <1>1, LenProperties
<1> HIDE DEF t
<1>4. ASSUME SortedBy(R, s), \A y \in ToSet(s) : <<y, x>> \in R
      PROVE  SortedBy(R, t)
  <2> SUFFICES ASSUME NEW i \in 1 .. Len(s) + 1, NEW k \in 1 .. Len(s) + 1, i < k
               PROVE  <<t[i], t[k]>> \in R
    BY <1>2 DEF SortedBy
  <2>1. i \in 1 .. Len(s) /\ t[i] = s[i] /\ s[i] \in ToSet(s)
    BY <1>1, <1>2 DEF ToSet
  <2>2. CASE k = Len(s) + 1
    BY <1>1, <1>4, <2>1, <2>2
  <2>3. CASE k \in 1 .. Len(s)
    BY <1>1, <1>2, <1>4, <2>1, <2>3 DEF SortedBy
  <2> QED
    BY <1>2, <2>2, <2>3
<1> QED
  BY <1>4 DEF t

\* What is taken out comes before all that is left.
LEMMA TailSorted ==
    ASSUME NEW S, NEW R, NEW s \in Seq(S), s # <<>>
    PROVE  /\ Head(s) \in S /\ ToSet(s) = {Head(s)} \cup ToSet(Tail(s))
           /\ Tail(s) \in Seq(S) /\ Len(Tail(s)) = Len(s) - 1
           /\ SortedBy(R, s) => /\ SortedBy(R, Tail(s))
                                /\ Ahead(R, {Head(s)}, ToSet(Tail(s)))
<1> DEFINE t == Tail(s)
<1>1. /\ t \in Seq(S) /\ Len(t) = Len(s) - 1
      /\ \A i \in 1 .. Len(t) : t[i] = s[i + 1]
      /\ Head(s) \in S
  BY HeadTailProperties
<1>2. /\ Len(s) \in Nat \ {0} /\ DOMAIN s = 1 .. Len(s)
      /\ DOMAIN t = 1 .. Len(s) - 1 /\ Head(s) = s[1]
  BY <1>1, LenProperties, EmptySeq
<1> HIDE DEF t
<1>3. ASSUME NEW k \in 1 .. Len(s) - 1
      PROVE  t[k] = s[k + 1] /\ k + 1 \in DOMAIN s /\ 1 < k + 1
  BY <1>1, <1>2
<1>4. ToSet(s) = {Head(s)} \cup ToSet(t)
  <2>1. ToSet(t) \subseteq ToSet(s) /\ Head(s) \in ToSet(s)
    BY <1>2, <1>3 DEF ToSet
  <2>2. ASSUME NEW i \in 1 .. Len(s), i # 1 PROVE s[i] \in ToSet(t)
    <3>1. i - 1 \in 1 .. Len(s) - 1 /\ t[i - 1] = s[i]
      BY <1>1, <1>2, <2>2
    <3> QED
      BY <1>2, <3>1 DEF ToSet
  <2> QED
    BY <1>2, <2>1, <2>2 DEF ToSet
<1>5. ASSUME SortedBy(R, s) PROVE SortedBy(R, t)
  <2> SUFFICES ASSUME NEW i \in 1 .. Len(s) - 1, NEW k \in 1 .. Len(s) - 1, i < k
               PROVE  <<t[i], t[k]>> \in R
    BY <1>2 DEF SortedBy
  <2>1. /\ t[i] = s[i + 1] /\ t[k] = s[k + 1] /\ i + 1 < k + 1
        /\ i + 1 \in DOMAIN s /\ k + 1 \in DOMAIN s
    BY <1>3
  <2> QED
    BY <1>5, <2>1 DEF SortedBy
<1>6. ASSUME SortedBy(R, s) PROVE Ahead(R, {Head(s)}, ToSet(t))
  <2>1. ASSUME NEW k \in 1 .. Len(s) - 1 PROVE <<Head(s), t[k]>> \in R
    <3>1. /\ t[k] = s[k + 1] /\ Head(s) = s[1] /\ 1 < k + 1
          /\ 1 \in DOMAIN s /\ k + 1 \in DOMAIN s
      BY <1>2, <1>3
    <3> QED
      BY <1>6, <3>1 DEF SortedBy
  <2>2. \A y \in ToSet(t) : <<Head(s), y>> \in R
    BY <1>2, <2>1 DEF ToSet
  <2> QED
    BY <2>2 DEF Ahead
<1> QED
  BY <1>1, <1>4, <1>5, <1>6 DEF t

\* An empty queue is in order.
LEMMA EmptySorted ==
    ASSUME NEW S, NEW R
    PROVE  <<>> \in Seq(S) /\ Len(<<>>) = 0 /\ ToSet(<<>>) = {} /\ SortedBy(R, <<>>)
BY DEF ToSet, SortedBy

\* The members of a sequence are of its type.
LEMMA MembersOf ==
    ASSUME NEW S, NEW s \in Seq(S)
    PROVE  ToSet(s) \subseteq S
<1>1. DOMAIN s = 1 .. Len(s) /\ \A i \in 1 .. Len(s) : s[i] \in S
  BY ElementOfSeq, LenProperties
<1> QED
  BY <1>1 DEF ToSet

\* The initial state satisfies the inductive invariant.
LEMMA InvInit == Init => IInv
<1> SUFFICES ASSUME Init PROVE IInv
  OBVIOUS
<1>1. \A S, R : <<>> \in Seq(S) /\ Len(<<>>) = 0 /\ ToSet(<<>>) = {} /\ SortedBy(R, <<>>)
  BY EmptySorted
<1>2. \A n \in Nodes : /\ relay[n] = <<>> /\ sending[n] = Nothing /\ link[n] = "down"
                       /\ inbound[n] = <<>> /\ order[n] = <<>> /\ log[n] = <<>>
  BY DEF Init
<1>3. TypeOK
  <2>1. 0 \in 0 .. MaxFaults /\ 0 <= RelayBuffer
    BY ClusterConstantsAssumption
  <2> QED
    BY <1>1, <1>2, <2>1 DEF Init, TypeOK
<1>4. Shape
  BY <1>1 DEF Init, Shape
<1>5. StageInv
  <2>1. ASSUME NEW e \in Events
        PROVE  stage[e] = "none" /\ ~Published(e) /\ ~Shown(e, Origin[e])
    <3>1. Origin[e] \in Nodes /\ stage[e] = "none"
      BY ClusterConstantsAssumption DEF Init
    <3>2. ToSet(order[Origin[e]]) = {} /\ ToSet(log[Origin[e]]) = {}
      BY <1>1, <1>2, <3>1
    <3> QED
      BY <3>1, <3>2 DEF Published, Shown
  <2> QED
    BY <2>1 DEF StageInv
<1>6. PublishedInv
  <2>1. ASSUME NEW n \in Nodes
        PROVE  \A i, k \in DOMAIN order[n] : order[n][i] = order[n][k] => i = k
    BY <1>2
  <2>2. \A n \in Nodes : /\ ToSet(relay[n]) = {} /\ InHand(n) = {}
                         /\ ToSet(inbound[n]) = {} /\ ToSet(log[n]) = {}
    BY <1>1, <1>2 DEF InHand
  <2> QED
    BY <2>1, <2>2 DEF PublishedInv
<1>7. OrderInv
  <2>1. \A n \in Nodes : /\ ToSet(relay[n]) = {} /\ InHand(n) = {}
                         /\ ToSet(inbound[n]) = {} /\ Foreign(n) = {}
    BY <1>1, <1>2 DEF InHand, Foreign
  <2> QED
    BY <1>1, <1>2, <2>1 DEF OrderInv, Ahead
<1>8. LostOnlyWithCause
  BY <1>1, <1>2 DEF LostOnlyWithCause
<1> QED
  BY <1>3, <1>4, <1>5, <1>6, <1>7, <1>8 DEF IInv

-----------------------------------------------------------------------------
(* What the invariant says of one node and one event.                      *)

\* What is where, and of which type.
LEMMA NodeType ==
    ASSUME IInv, NEW n \in Nodes
    PROVE  /\ relay[n] \in Seq(Events) /\ Len(relay[n]) <= RelayBuffer
           /\ inbound[n] \in Seq(Frames) /\ order[n] \in Seq(Events)
           /\ log[n] \in Seq(Events) /\ sending[n] \in Events \cup {Nothing}
           /\ ToSet(relay[n]) \subseteq ToSet(order[n])
           /\ InHand(n) \subseteq ToSet(order[n]) /\ InHand(n) \subseteq Events
           /\ ToSet(order[n]) \subseteq {e \in Events : Origin[e] = n}
           /\ ToSet(relay[n]) \subseteq Events /\ ToSet(inbound[n]) \subseteq Frames
           /\ ToSet(log[n]) \subseteq Events /\ Foreign(n) \subseteq ToSet(log[n])
           /\ link[n] = "down" => inbound[n] = <<>>
           /\ link[n] \in {"up", "down"}
BY DEF IInv, TypeOK, Shape, PublishedInv, InHand, Foreign

\* The order of publication is a strict one.
LEMMA BeforeStrict ==
    ASSUME IInv, NEW e \in Events, NEW f \in Events, Before(e, f)
    PROVE  e # f /\ ~Before(f, e)
<1>0. Origin[e] \in Nodes /\ Origin[f] \in Nodes
  BY ClusterConstantsAssumption
<1>1. PICK i, k \in DOMAIN order[Origin[f]] :
        i < k /\ order[Origin[f]][i] = e /\ order[Origin[f]][k] = f
  BY DEF Before
<1>2. e \in ToSet(order[Origin[f]]) /\ f \in ToSet(order[Origin[f]])
  BY <1>1 DEF ToSet
<1>3. Origin[e] = Origin[f]
  BY <1>0, <1>2, NodeType
<1>4. \A x, y \in DOMAIN order[Origin[f]] :
         order[Origin[f]][x] = order[Origin[f]][y] => x = y
  BY <1>0 DEF IInv, PublishedInv
<1>5. DOMAIN order[Origin[f]] \subseteq Nat
  BY <1>0, NodeType, LenProperties
<1>6. i \in Nat /\ k \in Nat
  BY <1>1, <1>5
<1>7. e # f
  BY <1>1, <1>4, <1>6
<1>8. ~Before(f, e)
  <2> SUFFICES ASSUME Before(f, e) PROVE FALSE
    OBVIOUS
  <2>1. PICK x, y \in DOMAIN order[Origin[f]] :
          x < y /\ order[Origin[f]][x] = f /\ order[Origin[f]][y] = e
    BY <1>3 DEF Before
  <2>2. x = k /\ y = i
    BY <1>1, <1>4, <2>1
  <2> QED
    BY <1>1, <1>6, <2>1, <2>2
<1> QED
  BY <1>7, <1>8

\* The order changes only when an event is forwarded.
LEMMA AgreeFrame ==
    ASSUME UNCHANGED order
    PROVE  Agree' = Agree
BY DEF Agree, Before

\* A publish call is judged by the stages, the order and the logs alone.
LEMMA StageFrame ==
    ASSUME StageInv, UNCHANGED <<stage, order, log>>
    PROVE  StageInv'
BY DEF StageInv, Published, Shown

\* What loses frames on their way, or nothing, leaves the rest in order.
LEMMA FewerInOrder ==
    ASSUME IInv, UNCHANGED <<order, log>>,
           \A n \in Nodes : /\ relay'[n] \in {relay[n], <<>>}
                            /\ inbound'[n] \in {inbound[n], <<>>}
                            /\ sending'[n] \in {sending[n], Nothing}
    PROVE  PublishedInv' /\ OrderInv'
<1>1. \A R : ToSet(<<>>) = {} /\ SortedBy(R, <<>>)
  BY EmptySorted
<1>2. Agree' = Agree
  BY AgreeFrame
<1>3. \A n \in Nodes : /\ ToSet(relay'[n]) \subseteq ToSet(relay[n])
                       /\ ToSet(inbound'[n]) \subseteq ToSet(inbound[n])
                       /\ InHand(n)' \subseteq InHand(n)
                       /\ Foreign(n)' = Foreign(n)
                       /\ SortedBy(Agree, relay[n]) => SortedBy(Agree, relay'[n])
                       /\ SortedBy(Agree, inbound[n]) => SortedBy(Agree, inbound'[n])
  BY <1>1 DEF InHand, Foreign
<1>4. PublishedInv'
  BY <1>3 DEF IInv, PublishedInv, Published
<1>5. OrderInv'
  <2>1. ASSUME NEW n \in Nodes
        PROVE  /\ SortedBy(Agree', relay'[n]) /\ SortedBy(Agree', inbound'[n])
               /\ Ahead(Agree', InHand(n)', ToSet(relay'[n]))
               /\ Ahead(Agree', Foreign(n)', ToSet(inbound'[n]))
    BY <1>2, <1>3 DEF IInv, OrderInv, Ahead
  <2>2. ASSUME NEW m \in Nodes, NEW n \in Nodes
        PROVE  Ahead(Agree', ToSet(inbound'[m]) \cup Foreign(m)',
                     InHand(n)' \cup ToSet(relay'[n]))
    <3>1. Ahead(Agree, ToSet(inbound[m]) \cup Foreign(m), InHand(n) \cup ToSet(relay[n]))
      BY DEF IInv, OrderInv
    <3> QED
      BY <1>2, <1>3, <3>1 DEF Ahead
  <2> QED
    BY <2>1, <2>2 DEF OrderInv
<1> QED
  BY <1>4, <1>5

-----------------------------------------------------------------------------
(* The steps.                                                              *)

\* A publish is called.
LEMMA CallKeeps ==
    ASSUME IInv, NEW e \in Events, Call(e)
    PROVE  IInv'
<1>1. /\ stage[e] = "none" /\ stage' = [stage EXCEPT ![e] = "called"]
      /\ UNCHANGED <<relay, sending, link, inbound, order, log, excused, faults>>
  BY DEF Call, bridgeVars
<1>2. TypeOK'
  BY <1>1 DEF IInv, TypeOK
<1>3. Shape'
  BY <1>1 DEF IInv, Shape
<1>4. StageInv'
  BY <1>1 DEF IInv, StageInv, Published, Shown, TypeOK
<1>5. PublishedInv' /\ OrderInv'
  BY <1>1, FewerInOrder
<1>6. LostOnlyWithCause'
  BY <1>1 DEF IInv, LostOnlyWithCause, InTransit
<1> QED
  BY <1>2, <1>3, <1>4, <1>5, <1>6 DEF IInv

\* The subscription is made; what comes next is delivered.
LEMMA SubscribeKeeps ==
    ASSUME IInv, NEW n \in Nodes, Subscribe(n)
    PROVE  IInv'
<1>1. /\ link' = [link EXCEPT ![n] = "up"]
      /\ UNCHANGED <<stage, relay, sending, inbound, order, log, excused, faults>>
  BY DEF Subscribe
<1>2. TypeOK'
  BY <1>1 DEF IInv, TypeOK
<1>3. Shape'
  BY <1>1 DEF IInv, Shape
<1>4. StageInv'
  BY <1>1, StageFrame DEF IInv
<1>5. PublishedInv' /\ OrderInv'
  BY <1>1, FewerInOrder
<1>6. LostOnlyWithCause'
  BY <1>1 DEF IInv, LostOnlyWithCause, InTransit
<1> QED
  BY <1>2, <1>3, <1>4, <1>5, <1>6 DEF IInv

\* The event reaches the sockets of its own node, for the first time.
LEMMA DeliverKeeps ==
    ASSUME IInv, NEW e \in Events, DeliverLocally(e)
    PROVE  IInv'
<1> DEFINE n == Origin[e]
<1>1. /\ stage[e] = "forwarded" /\ stage' = [stage EXCEPT ![e] = "done"]
      /\ log' = [log EXCEPT ![n] = Append(@, e)]
      /\ UNCHANGED <<relay, sending, link, inbound, order, excused, faults>>
  BY DEF DeliverLocally, bridgeVars
<1>2. n \in Nodes /\ Published(e)
  BY <1>1, ClusterConstantsAssumption DEF IInv, StageInv
<1>3. /\ log'[n] \in Seq(Events) /\ ToSet(log'[n]) = ToSet(log[n]) \cup {e}
      /\ \A m \in Nodes \ {n} : log'[m] = log[m]
  <2>1. log[n] \in Seq(Events) /\ log'[n] = Append(log[n], e)
        /\ \A m \in Nodes \ {n} : log'[m] = log[m]
    BY <1>1, <1>2 DEF IInv, Shape
  <2> HIDE DEF n
  <2> QED
    BY <2>1, AppendMembers
<1>4. TypeOK'
  <2>1. stage' \in [Events -> {"none", "called", "forwarded", "done", "died"}]
    BY <1>1 DEF IInv, TypeOK
  <2>2. \A m \in Nodes : ToSet(log'[m]) \subseteq Events
    <3>1. ASSUME NEW m \in Nodes PROVE ToSet(log'[m]) \subseteq Events
      <4>1. ToSet(log[m]) \subseteq Events
        BY NodeType
      <4> QED
        BY <1>3, <4>1
    <3> QED
      BY <3>1
  <2> QED
    BY <1>1, <2>1, <2>2 DEF IInv, TypeOK
<1>5. Shape'
  BY <1>1, <1>2, <1>3 DEF IInv, Shape
<1>6. StageInv'
  <2>1. \A f \in Events : stage'[f] = IF f = e THEN "done" ELSE stage[f]
    BY <1>1 DEF IInv, TypeOK
  <2>2. \A f \in Events : f # e /\ Shown(f, Origin[f])' => Shown(f, Origin[f])
    BY <1>3, ClusterConstantsAssumption DEF Shown
  <2>3. \A f \in Events : Published(f)' = Published(f)
    BY <1>1 DEF Published
  <2> QED
    BY <1>2, <2>1, <2>2, <2>3 DEF IInv, StageInv
<1>7. PublishedInv'
  <2>1. \A f : Published(f)' = Published(f)
    BY <1>1 DEF Published
  <2>2. \A m \in Nodes : ToSet(log'[m]) \subseteq ToSet(log[m]) \cup {e}
    BY <1>3
  <2>3. \A m \in Nodes : \A f \in ToSet(inbound[m]) \cup ToSet(log'[m]) :
           f # Junk => Published(f)
    BY <1>2, <2>2 DEF IInv, PublishedInv
  <2>4. \A m \in Nodes : InHand(m)' = InHand(m)
    BY <1>1 DEF InHand
  <2> QED
    BY <1>1, <2>1, <2>3, <2>4 DEF IInv, PublishedInv
<1>8. OrderInv'
  <2>1. Agree' = Agree
    BY <1>1, AgreeFrame
  <2>2. \A m \in Nodes : Foreign(m)' = Foreign(m) /\ InHand(m)' = InHand(m)
    BY <1>1, <1>2, <1>3 DEF Foreign, InHand
  <2> QED
    BY <1>1, <2>1, <2>2 DEF IInv, OrderInv
<1>9. LostOnlyWithCause'
  <2>1. \A m \in Nodes : ToSet(log[m]) \subseteq ToSet(log'[m])
    BY <1>3
  <2>2. \A f, m : InTransit(f, m)' = InTransit(f, m)
    BY <1>1 DEF InTransit
  <2> QED
    BY <1>1, <2>1, <2>2 DEF IInv, LostOnlyWithCause
<1> QED
  BY <1>4, <1>5, <1>6, <1>7, <1>8, <1>9 DEF IInv

\* Forwarding an event puts it after everything its node has published.
LEMMA ForwardOrder ==
    ASSUME IInv, NEW e \in Events, Forward(e)
    PROVE  /\ ToSet(order'[Origin[e]]) = ToSet(order[Origin[e]]) \cup {e}
           /\ e \notin ToSet(order[Origin[e]])
           /\ order'[Origin[e]] \in Seq(Events)
           /\ \A n \in Nodes \ {Origin[e]} : order'[n] = order[n]
           /\ \A n \in Nodes : \A i, k \in DOMAIN order'[n] :
                 order'[n][i] = order'[n][k] => i = k
           /\ Agree \subseteq Agree'
           /\ \A x \in Frames : (x # Junk => Published(x)) => <<x, e>> \in Agree'
<1>0. PICK n \in Nodes : n = Origin[e]
  BY ClusterConstantsAssumption
<1>1. /\ order' = [order EXCEPT ![n] = Append(@, e)] /\ stage[e] = "called"
  BY <1>0 DEF Forward, Forwarded
<1>2. order[n] \in Seq(Events) /\ order'[n] = Append(order[n], e)
      /\ \A m \in Nodes \ {n} : order'[m] = order[m]
  BY <1>1 DEF IInv, Shape
<1>3. e \notin ToSet(order[n])
  BY <1>0, <1>1 DEF IInv, StageInv, Published
<1>4. /\ order'[n] \in Seq(Events) /\ Len(order'[n]) = Len(order[n]) + 1
      /\ \A i \in 1 .. Len(order[n]) : order'[n][i] = order[n][i]
      /\ order'[n][Len(order[n]) + 1] = e
  BY <1>2, AppendProperties
<1>5. /\ Len(order[n]) \in Nat /\ DOMAIN order[n] = 1 .. Len(order[n])
      /\ DOMAIN order'[n] = 1 .. Len(order[n]) + 1
  BY <1>2, <1>4, LenProperties
<1>6. ToSet(order'[n]) = ToSet(order[n]) \cup {e}
  BY <1>2, AppendMembers
<1>7. \A i, k \in DOMAIN order'[n] : order'[n][i] = order'[n][k] => i = k
  <2>1. \A i \in 1 .. Len(order[n]) : order[n][i] # e
    BY <1>3, <1>5 DEF ToSet
  <2>2. \A i, k \in 1 .. Len(order[n]) : order[n][i] = order[n][k] => i = k
    BY <1>5 DEF IInv, PublishedInv
  <2> QED
    BY <1>4, <1>5, <2>1, <2>2
<1>8. \A m \in Nodes : \A i, k \in DOMAIN order'[m] : order'[m][i] = order'[m][k] => i = k
  BY <1>2, <1>7 DEF IInv, PublishedInv
<1>9. ASSUME NEW x, NEW y \in Events, Before(x, y) PROVE Before(x, y)'
  <2>1. Origin[y] \in Nodes
    BY ClusterConstantsAssumption
  <2>2. CASE Origin[y] # n
    BY <1>2, <1>9, <2>1, <2>2 DEF Before
  <2>3. CASE Origin[y] = n
    <3>1. PICK i, k \in 1 .. Len(order[n]) : i < k /\ order[n][i] = x /\ order[n][k] = y
      BY <1>5, <1>9, <2>3 DEF Before
    <3>2. i \in DOMAIN order'[n] /\ k \in DOMAIN order'[n]
      BY <1>5, <3>1
    <3> QED
      BY <1>4, <2>3, <3>1, <3>2 DEF Before
  <2> QED
    BY <2>2, <2>3
<1>10. Agree \subseteq Agree'
  <2>1. \A p \in Agree : p[2] # Junk => p[2] \in Events
    BY DEF Agree, Frames
  <2> QED
    BY <1>9, <2>1 DEF Agree, Frames
<1>11. ASSUME NEW x \in Frames, x # Junk => Published(x) PROVE <<x, e>> \in Agree'
  <2>1. e \in Frames /\ <<x, e>> \in Frames \X Frames
    BY DEF Frames
  <2>2. ASSUME x # Junk, Origin[x] = Origin[e] PROVE Before(x, e)'
    <3>1. x \in ToSet(order[n])
      BY <1>0, <1>11, <2>2 DEF Published
    <3>2. PICK i \in 1 .. Len(order[n]) : order[n][i] = x
      BY <1>5, <3>1 DEF ToSet
    <3>3. /\ i \in DOMAIN order'[n] /\ Len(order[n]) + 1 \in DOMAIN order'[n]
          /\ i < Len(order[n]) + 1
          /\ order'[n][i] = x /\ order'[n][Len(order[n]) + 1] = e
      BY <1>4, <1>5, <3>2
    <3> QED
      BY <1>0, <3>3 DEF Before
  <2> QED
    BY <2>1, <2>2 DEF Agree
<1> QED
  BY <1>0, <1>2, <1>3, <1>4, <1>6, <1>8, <1>10, <1>11

\* The event enters the relay queue, or stays with its node.
LEMMA ForwardKeeps ==
    ASSUME IInv, NEW e \in Events, Forward(e)
    PROVE  IInv'
<1>0. PICK n \in Nodes : n = Origin[e]
  BY ClusterConstantsAssumption
<1>1. /\ stage[e] = "called" /\ stage' = [stage EXCEPT ![e] = "forwarded"]
      /\ UNCHANGED <<sending, link, inbound, log, faults>>
  BY DEF Forward, Forwarded
<1>2. /\ ToSet(order'[n]) = ToSet(order[n]) \cup {e} /\ e \notin ToSet(order[n])
      /\ order'[n] \in Seq(Events)
      /\ \A m \in Nodes \ {n} : order'[m] = order[m]
      /\ \A m \in Nodes : \A i, k \in DOMAIN order'[m] :
            order'[m][i] = order'[m][k] => i = k
      /\ Agree \subseteq Agree'
      /\ \A x \in Frames : (x # Junk => Published(x)) => <<x, e>> \in Agree'
  BY <1>0, ForwardOrder
<1>3. \/ /\ Len(relay[n]) < RelayBuffer /\ relay'[n] = Append(relay[n], e)
         /\ \A m \in Nodes \ {n} : relay'[m] = relay[m]
         /\ UNCHANGED excused
      \/ /\ UNCHANGED relay
         /\ excused \subseteq excused' /\ excused' \subseteq Events \X Nodes
         /\ \A m \in Nodes \ {n} : <<e, m>> \in excused'
  <2>1. CASE Len(relay[n]) < RelayBuffer
    BY <1>0, <2>1 DEF Forward, IInv, Shape
  <2>2. CASE ~(Len(relay[n]) < RelayBuffer)
    <3>1. UNCHANGED relay /\ excused' = excused \cup Missed(e, Nodes)
      BY <1>0, <2>2 DEF Forward
    <3>2. Missed(e, Nodes) \subseteq Events \X Nodes
          /\ \A m \in Nodes \ {n} : <<e, m>> \in Missed(e, Nodes)
      BY <1>0 DEF Missed
    <3> QED
      BY <3>1, <3>2 DEF IInv, TypeOK
  <2> QED
    BY <2>1, <2>2
<1>4. /\ relay[n] \in Seq(Events) /\ Len(relay[n]) <= RelayBuffer
      /\ relay'[n] \in Seq(Events) /\ Len(relay'[n]) <= RelayBuffer
      /\ ToSet(relay[n]) \subseteq ToSet(relay'[n])
      /\ ToSet(relay'[n]) \subseteq ToSet(relay[n]) \cup {e}
      /\ \A m \in Nodes \ {n} : relay'[m] = relay[m]
  <2>1. relay[n] \in Seq(Events) /\ Len(relay[n]) <= RelayBuffer
        /\ Len(relay[n]) \in Nat /\ RelayBuffer \in Nat
    BY NodeType, LenProperties, ClusterConstantsAssumption
  <2>2. /\ Append(relay[n], e) \in Seq(Events)
        /\ Len(Append(relay[n], e)) = Len(relay[n]) + 1
        /\ ToSet(Append(relay[n], e)) = ToSet(relay[n]) \cup {e}
    BY <2>1, AppendMembers
  <2>3. CASE Len(relay[n]) < RelayBuffer /\ relay'[n] = Append(relay[n], e)
             /\ \A m \in Nodes \ {n} : relay'[m] = relay[m]
    BY <2>1, <2>2, <2>3
  <2>4. CASE UNCHANGED relay
    BY <2>1, <2>4
  <2> QED
    BY <1>3, <2>3, <2>4
<1>5. \A m \in Nodes : InHand(m)' = InHand(m) /\ Foreign(m)' = Foreign(m)
  BY <1>1 DEF InHand, Foreign
<1>6. TypeOK'
  <2>1. stage' \in [Events -> {"none", "called", "forwarded", "done", "died"}]
    BY <1>1 DEF IInv, TypeOK
  <2>2. ASSUME NEW m \in Nodes
        PROVE  /\ ToSet(relay'[m]) \subseteq Events /\ Len(relay'[m]) <= RelayBuffer
               /\ ToSet(order'[m]) \subseteq {f \in Events : Origin[f] = m}
    <3>1. /\ ToSet(relay[m]) \subseteq Events /\ Len(relay[m]) <= RelayBuffer
          /\ ToSet(order[m]) \subseteq {f \in Events : Origin[f] = m}
      BY NodeType
    <3>2. CASE m = n
      BY <1>0, <1>2, <1>4, <3>1, <3>2
    <3>3. CASE m # n
      BY <1>2, <1>4, <3>1, <3>3
    <3> QED
      BY <3>2, <3>3
  <2>3. excused' \subseteq Events \X Nodes
    BY <1>3 DEF IInv, TypeOK
  <2> QED
    BY <1>1, <2>1, <2>2, <2>3 DEF IInv, TypeOK
<1>7. Shape'
  <2>1. relay' \in [Nodes -> Seq(Events)]
    BY <1>0, <1>3, <1>4 DEF IInv, Shape, Forward
  <2>2. order' \in [Nodes -> Seq(Events)]
    BY <1>0, <1>2 DEF IInv, Shape, Forward, Forwarded
  <2> QED
    BY <1>1, <2>1, <2>2 DEF IInv, Shape
<1>8. \A f \in Events : Published(f)' <=> Published(f) \/ f = e
  BY <1>0, <1>2, ClusterConstantsAssumption DEF Published
<1>9. StageInv'
  <2>1. \A f \in Events : stage'[f] = IF f = e THEN "forwarded" ELSE stage[f]
    BY <1>1 DEF IInv, TypeOK
  <2>2. \A f \in Events : Shown(f, Origin[f])' = Shown(f, Origin[f])
    BY <1>1 DEF Shown
  <2> QED
    BY <1>1, <1>8, <2>1, <2>2 DEF IInv, StageInv
<1>10. PublishedInv'
  <2>1. ASSUME NEW m \in Nodes
        PROVE  ToSet(relay'[m]) \cup InHand(m) \subseteq ToSet(order'[m])
    <3>1. ToSet(relay[m]) \cup InHand(m) \subseteq ToSet(order[m])
      BY DEF IInv, PublishedInv
    <3> QED
      BY <1>2, <1>4, <3>1
  <2>2. ASSUME NEW m \in Nodes, NEW f \in ToSet(inbound[m]) \cup ToSet(log[m]), f # Junk
        PROVE  Published(f)'
    <3>1. f \in Events /\ Published(f)
      BY <2>2, NodeType DEF IInv, PublishedInv, Frames
    <3> QED
      BY <1>8, <3>1
  <2> QED
    BY <1>1, <1>2, <1>5, <2>1, <2>2 DEF PublishedInv
<1>11. OrderInv'
  <2>1. ASSUME NEW m \in Nodes, NEW x \in ToSet(inbound[m]) \cup Foreign(m) \cup InHand(m)
                                           \cup ToSet(relay[m])
        PROVE  <<x, e>> \in Agree'
    <3>1. x \in Frames
      BY <2>1, NodeType DEF Frames
    <3>2. x # Junk => Published(x)
      <4>1. CASE x \in ToSet(inbound[m]) \cup Foreign(m)
        BY <4>1, NodeType DEF IInv, PublishedInv
      <4>2. CASE x \in InHand(m) \cup ToSet(relay[m])
        BY <4>2, NodeType DEF Published
      <4> QED
        BY <2>1, <4>1, <4>2
    <3> QED
      BY <1>2, <3>1, <3>2
  <2>2. ASSUME NEW m \in Nodes
        PROVE  /\ SortedBy(Agree', relay'[m]) /\ SortedBy(Agree', inbound[m])
               /\ Ahead(Agree', InHand(m), ToSet(relay'[m]))
               /\ Ahead(Agree', Foreign(m), ToSet(inbound[m]))
    <3>1. /\ SortedBy(Agree', relay[m]) /\ SortedBy(Agree', inbound[m])
          /\ Ahead(Agree', InHand(m), ToSet(relay[m]))
          /\ Ahead(Agree', Foreign(m), ToSet(inbound[m]))
      BY <1>2 DEF IInv, OrderInv, SortedBy, Ahead
    <3>2. CASE m # n
      BY <1>4, <3>1, <3>2
    <3>3. CASE m = n
      <4>1. \A y \in ToSet(relay[n]) \cup InHand(n) : <<y, e>> \in Agree'
        BY <2>1, <3>3
      <4>2. SortedBy(Agree', relay[n]) => SortedBy(Agree', Append(relay[n], e))
        BY <1>4, <4>1, AppendSorted
      <4>3. SortedBy(Agree', relay'[n])
        BY <1>3, <3>1, <3>3, <4>2
      <4>4. Ahead(Agree', InHand(n), ToSet(relay'[n]))
        BY <1>4, <3>1, <3>3, <4>1 DEF Ahead
      <4> QED
        BY <3>1, <3>3, <4>3, <4>4
    <3> QED
      BY <3>2, <3>3
  <2>3. ASSUME NEW m \in Nodes, NEW k \in Nodes
        PROVE  Ahead(Agree', ToSet(inbound[m]) \cup Foreign(m), InHand(k) \cup ToSet(relay'[k]))
    <3>1. Ahead(Agree', ToSet(inbound[m]) \cup Foreign(m), InHand(k) \cup ToSet(relay[k]))
      BY <1>2 DEF IInv, OrderInv, Ahead
    <3>2. ToSet(relay'[k]) \subseteq ToSet(relay[k]) \cup {e}
      BY <1>4
    <3> QED
      BY <2>1, <3>1, <3>2 DEF Ahead
  <2> QED
    BY <1>1, <1>5, <2>2, <2>3 DEF OrderInv
<1>12. LostOnlyWithCause'
  <2> SUFFICES ASSUME NEW k \in Nodes, NEW f \in ToSet(order'[k]), NEW m \in Nodes \ {k}
               PROVE  f \in ToSet(log'[m]) \/ InTransit(f, m)' \/ <<f, m>> \in excused'
    BY DEF LostOnlyWithCause
  <2>1. CASE f = e
    <3>1. k = n
      BY <1>0, <1>2, <2>1, NodeType
    <3>2. CASE \A i \in Nodes \ {n} : <<e, i>> \in excused'
      BY <2>1, <3>1, <3>2
    <3>3. CASE relay'[n] = Append(relay[n], e)
      <4>1. e \in ToSet(relay'[n])
        BY <1>4, <3>3, AppendMembers
      <4> QED
        BY <1>0, <2>1, <4>1 DEF InTransit
    <3> QED
      BY <1>3, <3>2, <3>3
  <2>2. CASE f # e
    <3>1. f \in ToSet(order[k]) /\ Origin[f] \in Nodes
      <4>1. k = n => f \in ToSet(order[k])
        BY <1>2, <2>2
      <4>2. k # n => f \in ToSet(order[k])
        BY <1>2
      <4>3. f \in ToSet(order[k])
        BY <4>1, <4>2
      <4>4. f \in Events
        BY <4>3, NodeType
      <4> QED
        BY <4>3, <4>4, ClusterConstantsAssumption
    <3>2. f \in ToSet(log[m]) \/ InTransit(f, m) \/ <<f, m>> \in excused
      BY <3>1 DEF IInv, LostOnlyWithCause
    <3>3. ToSet(relay[Origin[f]]) \subseteq ToSet(relay'[Origin[f]])
      BY <1>4, <3>1
    <3>4. InTransit(f, m) => InTransit(f, m)'
      BY <1>1, <3>3 DEF InTransit
    <3>5. excused \subseteq excused'
      BY <1>3
    <3> QED
      BY <1>1, <3>2, <3>4, <3>5
  <2> QED
    BY <2>1, <2>2
<1> QED
  BY <1>6, <1>7, <1>9, <1>10, <1>11, <1>12 DEF IInv

\* The pairs that an excuse names.
LEMMA MissedPairs ==
    ASSUME NEW e \in Events, NEW ns \in SUBSET Nodes
    PROVE  /\ Missed(e, ns) \subseteq Events \X Nodes
           /\ \A m \in ns : m # Origin[e] => <<e, m>> \in Missed(e, ns)
BY DEF Missed

\* An event of no fixed node agrees with everything of the others.
LEMMA AgreeOthers ==
    ASSUME NEW x \in Frames, NEW y \in Frames,
           x # Junk /\ y # Junk => Origin[x] # Origin[y]
    PROVE  <<x, y>> \in Agree
BY DEF Agree

\* The oldest frame of the relay queue goes into the hands of publish_loop.
LEMMA TakeFrameKeeps ==
    ASSUME IInv, NEW n \in Nodes, TakeFrame(n)
    PROVE  IInv'
<1>1. PICK x \in Events :
        /\ x = Head(relay[n]) /\ sending[n] = Nothing /\ sending'[n] = x
        /\ ToSet(relay[n]) = {x} \cup ToSet(relay'[n])
        /\ relay'[n] \in Seq(Events) /\ Len(relay'[n]) = Len(relay[n]) - 1
        /\ SortedBy(Agree, relay'[n]) /\ Ahead(Agree, {x}, ToSet(relay'[n]))
  <2>1. relay[n] \in Seq(Events) /\ relay[n] # <<>> /\ relay'[n] = Tail(relay[n])
    BY DEF TakeFrame, IInv, Shape
  <2>2. SortedBy(Agree, relay[n])
    BY DEF IInv, OrderInv
  <2>3. sending[n] = Nothing /\ sending'[n] = Head(relay[n])
    BY DEF TakeFrame, IInv, Shape
  <2>4. /\ Head(relay[n]) \in Events
        /\ ToSet(relay[n]) = {Head(relay[n])} \cup ToSet(Tail(relay[n]))
        /\ Tail(relay[n]) \in Seq(Events) /\ Len(Tail(relay[n])) = Len(relay[n]) - 1
        /\ SortedBy(Agree, Tail(relay[n]))
        /\ Ahead(Agree, {Head(relay[n])}, ToSet(Tail(relay[n])))
    BY <2>1, <2>2, TailSorted
  <2> QED
    BY <2>1, <2>3, <2>4
<1>2. /\ \A m \in Nodes \ {n} : sending'[m] = sending[m] /\ relay'[m] = relay[m]
      /\ relay' = [relay EXCEPT ![n] = Tail(@)]
      /\ sending' = [sending EXCEPT ![n] = Head(relay[n])]
      /\ UNCHANGED <<stage, link, inbound, order, log, excused, faults>>
  BY DEF TakeFrame, IInv, Shape
<1>3. /\ InHand(n) = {} /\ InHand(n)' = {x}
      /\ \A m \in Nodes \ {n} : InHand(m)' = InHand(m)
      /\ \A m \in Nodes : Foreign(m)' = Foreign(m)
  BY <1>1, <1>2, ClusterConstantsAssumption DEF InHand, Foreign
<1>4. \A m \in Nodes : ToSet(relay[m]) \cup InHand(m) = ToSet(relay'[m]) \cup InHand(m)'
  BY <1>1, <1>2, <1>3
<1>5. TypeOK'
  <2>1. ASSUME NEW m \in Nodes
        PROVE  /\ ToSet(relay'[m]) \subseteq Events /\ Len(relay'[m]) <= RelayBuffer
               /\ sending'[m] \in Events \cup {Nothing}
    <3>1. /\ ToSet(relay[m]) \subseteq Events /\ Len(relay[m]) <= RelayBuffer
          /\ sending[m] \in Events \cup {Nothing} /\ Len(relay[m]) \in Nat
          /\ RelayBuffer \in Nat
      BY NodeType, LenProperties, ClusterConstantsAssumption
    <3>2. m = n \/ m \in Nodes \ {n}
      OBVIOUS
    <3> QED
      BY <1>1, <1>2, <3>1, <3>2
  <2> QED
    BY <1>2, <2>1 DEF IInv, TypeOK
<1>6. Shape'
  BY <1>1, <1>2 DEF IInv, Shape
<1>7. StageInv'
  BY <1>2, StageFrame DEF IInv
<1>8. PublishedInv'
  BY <1>2, <1>4 DEF IInv, PublishedInv, Published
<1>9. OrderInv'
  <2>1. Agree' = Agree
    BY <1>2, AgreeFrame
  <2>2. ASSUME NEW m \in Nodes
        PROVE  /\ SortedBy(Agree, relay'[m]) /\ SortedBy(Agree, inbound[m])
               /\ Ahead(Agree, InHand(m)', ToSet(relay'[m]))
               /\ Ahead(Agree, Foreign(m), ToSet(inbound[m]))
    <3>1. /\ SortedBy(Agree, relay[m]) /\ SortedBy(Agree, inbound[m])
          /\ Ahead(Agree, InHand(m), ToSet(relay[m]))
          /\ Ahead(Agree, Foreign(m), ToSet(inbound[m]))
      BY DEF IInv, OrderInv
    <3>2. m = n \/ m \in Nodes \ {n}
      OBVIOUS
    <3> QED
      BY <1>1, <1>2, <1>3, <3>1, <3>2
  <2>3. ASSUME NEW m \in Nodes, NEW k \in Nodes
        PROVE  Ahead(Agree, ToSet(inbound[m]) \cup Foreign(m), InHand(k)' \cup ToSet(relay'[k]))
    <3>1. Ahead(Agree, ToSet(inbound[m]) \cup Foreign(m), InHand(k) \cup ToSet(relay[k]))
      BY DEF IInv, OrderInv
    <3> QED
      BY <1>4, <3>1 DEF Ahead
  <2> QED
    BY <1>2, <1>3, <2>1, <2>2, <2>3 DEF OrderInv
<1>10. LostOnlyWithCause'
  <2> SUFFICES ASSUME NEW k \in Nodes, NEW f \in ToSet(order[k]), NEW m \in Nodes \ {k}
               PROVE  f \in ToSet(log[m]) \/ InTransit(f, m)' \/ <<f, m>> \in excused
    BY <1>2 DEF LostOnlyWithCause
  <2>1. f \in Events /\ Origin[f] \in Nodes
    BY NodeType, ClusterConstantsAssumption
  <2>2. f \in ToSet(log[m]) \/ InTransit(f, m) \/ <<f, m>> \in excused
    BY DEF IInv, LostOnlyWithCause
  <2>3. f # Nothing
    BY <2>1, ClusterConstantsAssumption
  <2>4. f \in ToSet(relay[Origin[f]]) \cup InHand(Origin[f]) \/ f \in ToSet(inbound[m])
        <=> InTransit(f, m)
    BY <2>3 DEF InTransit, InHand
  <2>5. f \in ToSet(relay'[Origin[f]]) \cup InHand(Origin[f])' \/ f \in ToSet(inbound[m])
        <=> InTransit(f, m)'
    BY <1>2, <2>3 DEF InTransit, InHand
  <2> QED
    BY <1>4, <2>1, <2>2, <2>4, <2>5
<1> QED
  BY <1>5, <1>6, <1>7, <1>8, <1>9, <1>10 DEF IInv

\* The frame reaches every stream that is up.
LEMMA PublishFrameKeeps ==
    ASSUME IInv, NEW n \in Nodes, PublishFrame(n)
    PROVE  IInv'
<1>1. PICK x \in Events : x = sending[n]
  BY NodeType DEF PublishFrame
<1>2. /\ sending' = [sending EXCEPT ![n] = Nothing]
      /\ inbound' = [m \in Nodes |-> IF link[m] = "up" THEN Append(inbound[m], x)
                                     ELSE inbound[m]]
      /\ excused' = excused \cup Missed(x, Disconnected)
      /\ UNCHANGED <<stage, relay, link, order, log, faults>>
  BY <1>1 DEF PublishFrame
<1>3. /\ InHand(n) = {x} /\ InHand(n)' = {}
      /\ \A m \in Nodes \ {n} : InHand(m)' = InHand(m)
      /\ \A m \in Nodes : Foreign(m)' = Foreign(m)
  BY <1>1, <1>2, ClusterConstantsAssumption DEF InHand, Foreign, IInv, Shape
<1>4. x \in Frames /\ x # Junk /\ Origin[x] = n /\ Published(x)
  <2>1. x \in ToSet(order[n])
    BY <1>3, NodeType
  <2>2. Origin[x] = n
    BY <2>1, NodeType
  <2> QED
    BY <2>1, <2>2, ClusterConstantsAssumption DEF Published, Frames
<1>5. ASSUME NEW m \in Nodes
      PROVE  /\ inbound'[m] \in Seq(Frames)
             /\ ToSet(inbound[m]) \subseteq ToSet(inbound'[m])
             /\ ToSet(inbound'[m]) \subseteq ToSet(inbound[m]) \cup {x}
             /\ link[m] = "up" => x \in ToSet(inbound'[m])
             /\ link[m] = "down" => inbound'[m] = inbound[m]
             /\ inbound'[m] \in {inbound[m], Append(inbound[m], x)}
  <2>1. inbound[m] \in Seq(Frames)
    BY NodeType
  <2>2. /\ Append(inbound[m], x) \in Seq(Frames)
        /\ ToSet(Append(inbound[m], x)) = ToSet(inbound[m]) \cup {x}
    BY <1>4, <2>1, AppendMembers
  <2> QED
    BY <1>2, <2>1, <2>2
<1>6. TypeOK'
  <2>1. \A m \in Nodes : sending'[m] \in Events \cup {Nothing}
    BY <1>2 DEF IInv, Shape
  <2>2. \A m \in Nodes : /\ ToSet(inbound'[m]) \subseteq Frames
                         /\ link[m] = "down" => inbound'[m] = <<>>
    <3>1. ASSUME NEW m \in Nodes
          PROVE  /\ ToSet(inbound'[m]) \subseteq Frames
                 /\ link[m] = "down" => inbound'[m] = <<>>
      <4>1. ToSet(inbound[m]) \subseteq Frames /\ (link[m] = "down" => inbound[m] = <<>>)
        BY NodeType
      <4> QED
        BY <1>4, <1>5, <4>1
    <3> QED
      BY <3>1
  <2>3. excused' \subseteq Events \X Nodes
    BY <1>2, MissedPairs DEF Disconnected, IInv, TypeOK
  <2> QED
    BY <1>2, <2>1, <2>2, <2>3 DEF IInv, TypeOK
<1>7. Shape'
  <2>1. inbound' \in [Nodes -> Seq(Frames)]
    BY <1>2, <1>5
  <2> QED
    BY <1>2, <2>1 DEF IInv, Shape
<1>8. StageInv'
  BY <1>2, StageFrame DEF IInv
<1>9. PublishedInv'
  <2>1. \A f : Published(f)' = Published(f)
    BY <1>2 DEF Published
  <2>2. \A m \in Nodes : InHand(m)' \subseteq InHand(m)
    BY <1>3
  <2>3. ASSUME NEW m \in Nodes, NEW f \in ToSet(inbound'[m]) \cup ToSet(log[m]), f # Junk
        PROVE  Published(f)
    BY <1>4, <1>5, <2>3 DEF IInv, PublishedInv
  <2> QED
    BY <1>2, <2>1, <2>2, <2>3 DEF IInv, PublishedInv
<1>10. OrderInv'
  <2>1. Agree' = Agree
    BY <1>2, AgreeFrame
  <2>2. ASSUME NEW m \in Nodes
        PROVE  /\ SortedBy(Agree, relay[m]) /\ SortedBy(Agree, inbound'[m])
               /\ Ahead(Agree, InHand(m)', ToSet(relay[m]))
               /\ Ahead(Agree, Foreign(m), ToSet(inbound'[m]))
    <3>1. /\ SortedBy(Agree, relay[m]) /\ SortedBy(Agree, inbound[m])
          /\ Ahead(Agree, InHand(m), ToSet(relay[m]))
          /\ Ahead(Agree, Foreign(m), ToSet(inbound[m]))
          /\ Ahead(Agree, ToSet(inbound[m]) \cup Foreign(m), InHand(n) \cup ToSet(relay[n]))
      BY DEF IInv, OrderInv
    <3>2. \A y \in ToSet(inbound[m]) \cup Foreign(m) : <<y, x>> \in Agree
      BY <1>3, <3>1 DEF Ahead
    <3>3. SortedBy(Agree, Append(inbound[m], x))
      <4>1. inbound[m] \in Seq(Frames)
        BY NodeType
      <4> QED
        BY <1>4, <3>1, <3>2, <4>1, AppendSorted
    <3>4. SortedBy(Agree, inbound'[m])
      BY <1>5, <3>1, <3>3
    <3>5. Ahead(Agree, Foreign(m), ToSet(inbound'[m]))
      BY <1>5, <3>1, <3>2 DEF Ahead
    <3>6. InHand(m)' \subseteq InHand(m)
      BY <1>3
    <3> QED
      BY <3>1, <3>4, <3>5, <3>6 DEF Ahead
  <2>3. ASSUME NEW m \in Nodes, NEW k \in Nodes
        PROVE  Ahead(Agree, ToSet(inbound'[m]) \cup Foreign(m), InHand(k)' \cup ToSet(relay[k]))
    <3>1. Ahead(Agree, ToSet(inbound[m]) \cup Foreign(m), InHand(k) \cup ToSet(relay[k]))
      BY DEF IInv, OrderInv
    <3>2. InHand(k)' \subseteq InHand(k)
      BY <1>3
    <3>3. \A y \in InHand(k)' \cup ToSet(relay[k]) : <<x, y>> \in Agree
      <4>1. CASE k = n
        BY <1>3, <4>1 DEF IInv, OrderInv, Ahead
      <4>2. CASE k # n
        <5>1. ASSUME NEW y \in InHand(k)' \cup ToSet(relay[k])
              PROVE  y \in Frames /\ Origin[y] = k
          BY <3>2, NodeType DEF Frames
        <5> QED
          BY <1>4, <4>2, <5>1, AgreeOthers
      <4> QED
        BY <4>1, <4>2
    <3> QED
      BY <1>5, <3>1, <3>2, <3>3 DEF Ahead
  <2> QED
    BY <1>2, <1>3, <2>1, <2>2, <2>3 DEF OrderInv
<1>11. LostOnlyWithCause'
  <2> SUFFICES ASSUME NEW k \in Nodes, NEW f \in ToSet(order[k]), NEW m \in Nodes \ {k}
               PROVE  f \in ToSet(log[m]) \/ InTransit(f, m)' \/ <<f, m>> \in excused'
    BY <1>2 DEF LostOnlyWithCause
  <2>1. f \in Events /\ Origin[f] = k
    BY NodeType
  <2>2. f \in ToSet(log[m]) \/ InTransit(f, m) \/ <<f, m>> \in excused
    BY DEF IInv, LostOnlyWithCause
  <2>3. CASE f = x
    <3>1. CASE link[m] = "up"
      BY <1>5, <2>3, <3>1 DEF InTransit
    <3>2. CASE link[m] = "down"
      <4>1. Disconnected \in SUBSET Nodes /\ m \in Disconnected
        BY <3>2 DEF Disconnected
      <4>2. <<f, m>> \in Missed(x, Disconnected)
        BY <2>1, <2>3, <4>1, MissedPairs
      <4> QED
        BY <1>2, <4>2
    <3> QED
      BY <3>1, <3>2, NodeType
  <2>4. CASE f # x
    <3>1. f = sending[Origin[f]] => f = sending'[Origin[f]]
      BY <1>1, <1>2, <2>1, <2>4 DEF IInv, Shape
    <3>2. InTransit(f, m) => InTransit(f, m)'
      BY <1>2, <1>5, <3>1 DEF InTransit
    <3> QED
      BY <1>2, <2>2, <3>2
  <2> QED
    BY <2>3, <2>4
<1> QED
  BY <1>6, <1>7, <1>8, <1>9, <1>10, <1>11 DEF IInv

\* A frame that is lost on its way is excused, and nothing else is.
LEMMA LosesKeeps ==
    ASSUME IInv, UNCHANGED <<order, log>>,
           stage' \in [Events -> {"none", "called", "forwarded", "done", "died"}],
           StageInv', faults' \in 0 .. MaxFaults,
           link' \in [Nodes -> {"up", "down"}],
           relay' \in [Nodes -> Seq(Events)], inbound' \in [Nodes -> Seq(Frames)],
           sending' \in [Nodes -> Events \cup {Nothing}],
           \A n \in Nodes : /\ relay'[n] \in {relay[n], <<>>}
                            /\ inbound'[n] \in {inbound[n], <<>>}
                            /\ sending'[n] \in {sending[n], Nothing}
                            /\ link'[n] = "down" => inbound'[n] = <<>>,
           excused \subseteq excused', excused' \subseteq Events \X Nodes,
           \A n \in Nodes, f \in Events :
              n # Origin[f] /\ InTransit(f, n) /\ ~InTransit(f, n)' => <<f, n>> \in excused'
    PROVE  IInv'
<1>1. TypeOK'
  <2>1. ASSUME NEW n \in Nodes
        PROVE  /\ ToSet(relay'[n]) \subseteq Events /\ Len(relay'[n]) <= RelayBuffer
               /\ ToSet(inbound'[n]) \subseteq Frames
    <3>1. /\ ToSet(relay[n]) \subseteq Events /\ Len(relay[n]) <= RelayBuffer
          /\ ToSet(inbound[n]) \subseteq Frames
          /\ RelayBuffer \in Nat
      BY NodeType, ClusterConstantsAssumption
    <3>2. ToSet(<<>>) = {} /\ Len(<<>>) = 0
      BY EmptySorted
    <3>3. relay'[n] = relay[n] \/ relay'[n] = <<>>
      OBVIOUS
    <3>4. inbound'[n] = inbound[n] \/ inbound'[n] = <<>>
      OBVIOUS
    <3>5. ToSet(relay'[n]) \subseteq Events /\ Len(relay'[n]) <= RelayBuffer
      BY <3>1, <3>2, <3>3
    <3>6. ToSet(inbound'[n]) \subseteq Frames
      BY <3>1, <3>2, <3>4
    <3> QED
      BY <3>5, <3>6
  <2> QED
    BY <2>1 DEF IInv, TypeOK
<1>2. Shape'
  BY DEF IInv, Shape
<1>3. PublishedInv' /\ OrderInv'
  BY FewerInOrder
<1>4. LostOnlyWithCause'
  <2> SUFFICES ASSUME NEW k \in Nodes, NEW f \in ToSet(order[k]), NEW m \in Nodes \ {k}
               PROVE  f \in ToSet(log[m]) \/ InTransit(f, m)' \/ <<f, m>> \in excused'
    BY DEF LostOnlyWithCause
  <2>1. f \in Events /\ Origin[f] = k
    BY NodeType
  <2>2. f \in ToSet(log[m]) \/ InTransit(f, m) \/ <<f, m>> \in excused
    BY DEF IInv, LostOnlyWithCause
  <2> QED
    BY <2>1, <2>2
<1> QED
  BY <1>1, <1>2, <1>3, <1>4 DEF IInv

\* PUBLISH failed.
LEMMA PublishFailsKeeps ==
    ASSUME IInv, NEW n \in Nodes, PublishFails(n)
    PROVE  IInv'
<1>1. PICK x \in Events : x = sending[n]
  BY NodeType DEF PublishFails
<1>2. /\ sending' = [sending EXCEPT ![n] = Nothing]
      /\ excused' = excused \cup Missed(x, Nodes)
      /\ UNCHANGED <<stage, relay, link, inbound, order, log, faults>>
  BY <1>1 DEF PublishFails
<1>3. Missed(x, Nodes) \subseteq Events \X Nodes
      /\ \A m \in Nodes : m # Origin[x] => <<x, m>> \in Missed(x, Nodes)
  BY MissedPairs
<1>4. excused \subseteq excused' /\ excused' \subseteq Events \X Nodes
  BY <1>2, <1>3 DEF IInv, TypeOK
<1>5. ASSUME NEW m \in Nodes, NEW f \in Events, m # Origin[f],
             InTransit(f, m), ~InTransit(f, m)'
      PROVE  <<f, m>> \in excused'
  <2>1. f = x
    BY <1>1, <1>2, <1>5, ClusterConstantsAssumption DEF InTransit, IInv, Shape
  <2> QED
    BY <1>2, <1>3, <1>5, <2>1
<1>6. \A m \in Nodes : sending'[m] \in {sending[m], Nothing}
  BY <1>2 DEF IInv, Shape
<1>7. StageInv'
  BY <1>2, StageFrame DEF IInv
<1>8. sending' \in [Nodes -> Events \cup {Nothing}]
  BY <1>2 DEF IInv, Shape
<1> QED
  BY <1>2, <1>4, <1>5, <1>6, <1>7, <1>8, LosesKeeps DEF IInv, TypeOK, Shape

\* What is in a stream that breaks is excused.
LEMMA StreamExcuses ==
    ASSUME IInv, NEW n \in Nodes
    PROVE  /\ OnStream(n) \subseteq Events \X Nodes
           /\ \A f \in Events : n # Origin[f] /\ f \in ToSet(inbound[n])
                                => <<f, n>> \in OnStream(n)
<1>1. \A f \in ToSet(inbound[n]) \ {Junk} : f \in Events
  BY NodeType DEF Frames
<1>2. \A f \in Events : /\ Missed(f, {n}) \subseteq Events \X Nodes
                        /\ n # Origin[f] => <<f, n>> \in Missed(f, {n})
  BY MissedPairs
<1> QED
  BY <1>1, <1>2, ClusterConstantsAssumption DEF OnStream

\* The stream ends.
LEMMA DisconnectKeeps ==
    ASSUME IInv, NEW n \in Nodes, Disconnect(n)
    PROVE  IInv'
<1>1. /\ link' = [link EXCEPT ![n] = "down"]
      /\ inbound' = [inbound EXCEPT ![n] = <<>>]
      /\ excused' = excused \cup OnStream(n)
      /\ faults < MaxFaults /\ faults' = faults + 1
      /\ UNCHANGED <<stage, relay, sending, order, log>>
  BY DEF Disconnect, LoseStream, Fault
<1>2. excused \subseteq excused' /\ excused' \subseteq Events \X Nodes
  BY <1>1, StreamExcuses DEF IInv, TypeOK
<1>3. ASSUME NEW m \in Nodes, NEW f \in Events, m # Origin[f],
             InTransit(f, m), ~InTransit(f, m)'
      PROVE  <<f, m>> \in excused'
  <2>1. m = n /\ f \in ToSet(inbound[n])
    BY <1>1, <1>3 DEF InTransit, IInv, Shape
  <2> QED
    BY <1>1, <1>3, <2>1, StreamExcuses
<1>4. \A m \in Nodes : /\ inbound'[m] \in {inbound[m], <<>>}
                       /\ link'[m] = "down" => inbound'[m] = <<>>
  BY <1>1, NodeType DEF IInv, Shape, TypeOK
<1>5. StageInv'
  BY <1>1, StageFrame DEF IInv
<1>6. inbound' \in [Nodes -> Seq(Frames)]
  BY <1>1, EmptySorted DEF IInv, Shape
<1>7. faults' \in 0 .. MaxFaults /\ link' \in [Nodes -> {"up", "down"}]
  BY <1>1, ClusterConstantsAssumption DEF IInv, TypeOK
<1> QED
  BY <1>1, <1>2, <1>3, <1>4, <1>5, <1>6, <1>7, LosesKeeps DEF IInv, TypeOK, Shape

\* The process dies.
LEMMA CrashKeeps ==
    ASSUME IInv, NEW n \in Nodes, Crash(n)
    PROVE  IInv'
<1> DEFINE Q == ToSet(relay[n]) \cup ({sending[n]} \ {Nothing})
           X == UNION {Missed(e, Nodes) : e \in Q}
<1>1. /\ link' = [link EXCEPT ![n] = "down"]
      /\ inbound' = [inbound EXCEPT ![n] = <<>>]
      /\ stage' = [e \in Events |-> IF Origin[e] = n /\ stage[e] \in {"called", "forwarded"}
                                    THEN "died" ELSE stage[e]]
      /\ relay' = [relay EXCEPT ![n] = <<>>]
      /\ sending' = [sending EXCEPT ![n] = Nothing]
      /\ faults < MaxFaults /\ faults' = faults + 1
      /\ UNCHANGED <<order, log>>
  BY DEF Crash, LoseStream, Fault
<1>2. excused' = excused \cup OnStream(n) \cup X
  BY DEF Crash
<1>3. Q \subseteq Events
  BY NodeType
<1> HIDE DEF Q
<1>4. /\ X \subseteq Events \X Nodes
      /\ \A f \in Q, m \in Nodes : m # Origin[f] => <<f, m>> \in X
  <2>1. \A f \in Events : /\ Missed(f, Nodes) \subseteq Events \X Nodes
                          /\ \A m \in Nodes : m # Origin[f] => <<f, m>> \in Missed(f, Nodes)
    BY MissedPairs
  <2> QED
    BY <1>3, <2>1
<1> HIDE DEF X
<1>5. excused \subseteq excused' /\ excused' \subseteq Events \X Nodes
  BY <1>2, <1>4, StreamExcuses DEF IInv, TypeOK
<1>6. ASSUME NEW m \in Nodes, NEW f \in Events, m # Origin[f],
             InTransit(f, m), ~InTransit(f, m)'
      PROVE  <<f, m>> \in excused'
  <2>1. f # Nothing
    BY ClusterConstantsAssumption
  <2>2. f \in Q \/ (m = n /\ f \in ToSet(inbound[n]))
    BY <1>1, <1>6, <2>1, ClusterConstantsAssumption DEF InTransit, IInv, Shape, Q
  <2> QED
    BY <1>2, <1>4, <1>6, <2>2, StreamExcuses
<1>7. \A m \in Nodes : /\ inbound'[m] \in {inbound[m], <<>>}
                       /\ relay'[m] \in {relay[m], <<>>}
                       /\ sending'[m] \in {sending[m], Nothing}
                       /\ link'[m] = "down" => inbound'[m] = <<>>
  BY <1>1, NodeType DEF IInv, Shape, TypeOK
<1>8. StageInv'
  BY <1>1 DEF IInv, StageInv, Published, Shown
<1>9. /\ inbound' \in [Nodes -> Seq(Frames)] /\ relay' \in [Nodes -> Seq(Events)]
      /\ sending' \in [Nodes -> Events \cup {Nothing}]
  BY <1>1, EmptySorted DEF IInv, Shape
<1>10. /\ faults' \in 0 .. MaxFaults /\ link' \in [Nodes -> {"up", "down"}]
       /\ stage' \in [Events -> {"none", "called", "forwarded", "done", "died"}]
  BY <1>1, ClusterConstantsAssumption DEF IInv, TypeOK
<1> QED
  BY <1>1, <1>5, <1>6, <1>7, <1>8, <1>9, <1>10, LosesKeeps

\* Something that is no frame arrives.
LEMMA NoiseKeeps ==
    ASSUME IInv, Noise
    PROVE  IInv'
<1>1. /\ inbound' = [m \in Nodes |-> IF link[m] = "up" THEN Append(inbound[m], Junk)
                                     ELSE inbound[m]]
      /\ faults < MaxFaults /\ faults' = faults + 1
      /\ UNCHANGED <<stage, relay, sending, link, order, log, excused>>
  BY DEF Noise, Fault
<1>2. \A y \in Frames : <<y, Junk>> \in Agree /\ <<Junk, y>> \in Agree
  BY AgreeOthers DEF Frames
<1>3. ASSUME NEW m \in Nodes
      PROVE  /\ inbound'[m] \in Seq(Frames)
             /\ ToSet(inbound[m]) \subseteq ToSet(inbound'[m])
             /\ ToSet(inbound'[m]) \subseteq ToSet(inbound[m]) \cup {Junk}
             /\ ToSet(inbound'[m]) \subseteq Frames
             /\ link[m] = "down" => inbound'[m] = <<>>
             /\ SortedBy(Agree, inbound'[m])
  <2>1. /\ inbound[m] \in Seq(Frames) /\ ToSet(inbound[m]) \subseteq Frames
        /\ link[m] = "down" => inbound[m] = <<>>
        /\ SortedBy(Agree, inbound[m]) /\ Junk \in Frames
    BY NodeType DEF IInv, OrderInv, Frames
  <2>2. /\ Append(inbound[m], Junk) \in Seq(Frames)
        /\ ToSet(Append(inbound[m], Junk)) = ToSet(inbound[m]) \cup {Junk}
    BY <2>1, AppendMembers
  <2>3. SortedBy(Agree, Append(inbound[m], Junk))
    BY <1>2, <2>1, AppendSorted
  <2> QED
    BY <1>1, <2>1, <2>2, <2>3
<1>4. TypeOK'
  BY <1>1, <1>3, ClusterConstantsAssumption DEF IInv, TypeOK
<1>5. Shape'
  BY <1>1, <1>3 DEF IInv, Shape
<1>6. StageInv'
  BY <1>1, StageFrame DEF IInv
<1>i. \A m \in Nodes : InHand(m)' = InHand(m) /\ Foreign(m)' = Foreign(m)
  BY <1>1 DEF InHand, Foreign
<1>7. PublishedInv'
  <2>1. \A f : Published(f)' = Published(f)
    BY <1>1 DEF Published
  <2>2. \A m \in Nodes : \A f \in ToSet(inbound'[m]) \cup ToSet(log[m]) :
           f # Junk => Published(f)
    BY <1>3 DEF IInv, PublishedInv
  <2> QED
    BY <1>1, <1>i, <2>1, <2>2 DEF IInv, PublishedInv
<1>8. OrderInv'
  <2>1. Agree' = Agree
    BY <1>1, AgreeFrame
  <2>2. ASSUME NEW m \in Nodes PROVE Ahead(Agree, Foreign(m), ToSet(inbound'[m]))
    <3>1. Foreign(m) \subseteq Frames
      BY NodeType DEF Frames
    <3> QED
      BY <1>2, <1>3, <3>1 DEF IInv, OrderInv, Ahead
  <2>3. ASSUME NEW m \in Nodes, NEW k \in Nodes
        PROVE  Ahead(Agree, ToSet(inbound'[m]) \cup Foreign(m), InHand(k) \cup ToSet(relay[k]))
    <3>1. Ahead(Agree, ToSet(inbound[m]) \cup Foreign(m), InHand(k) \cup ToSet(relay[k]))
      BY DEF IInv, OrderInv
    <3>2. InHand(k) \cup ToSet(relay[k]) \subseteq Frames
      BY NodeType DEF Frames
    <3> QED
      BY <1>2, <1>3, <3>1, <3>2 DEF Ahead
  <2> QED
    BY <1>1, <1>3, <1>i, <2>1, <2>2, <2>3 DEF IInv, OrderInv
<1>9. LostOnlyWithCause'
  <2>1. \A f : \A m \in Nodes : InTransit(f, m) => InTransit(f, m)'
    BY <1>1, <1>3 DEF InTransit
  <2> QED
    BY <1>1, <2>1 DEF IInv, LostOnlyWithCause
<1> QED
  BY <1>4, <1>5, <1>6, <1>7, <1>8, <1>9 DEF IInv

\* A frame of another node reaches the hub, the oldest of the stream first.
LEMMA ReceiveKeeps ==
    ASSUME IInv, NEW n \in Nodes, Receive(n)
    PROVE  IInv'
<1>1. PICK x \in Frames :
        /\ x = Head(inbound[n])
        /\ ToSet(inbound[n]) = {x} \cup ToSet(inbound'[n])
        /\ inbound'[n] \in Seq(Frames) /\ link[n] # "down"
        /\ SortedBy(Agree, inbound'[n]) /\ Ahead(Agree, {x}, ToSet(inbound'[n]))
  <2>1. inbound[n] \in Seq(Frames) /\ inbound[n] # <<>> /\ inbound'[n] = Tail(inbound[n])
        /\ SortedBy(Agree, inbound[n])
    BY DEF Receive, Received, IInv, Shape, OrderInv
  <2>2. /\ Head(inbound[n]) \in Frames
        /\ ToSet(inbound[n]) = {Head(inbound[n])} \cup ToSet(Tail(inbound[n]))
        /\ Tail(inbound[n]) \in Seq(Frames)
        /\ SortedBy(Agree, Tail(inbound[n]))
        /\ Ahead(Agree, {Head(inbound[n])}, ToSet(Tail(inbound[n])))
    BY <2>1, TailSorted
  <2>3. link[n] # "down"
    BY <2>1, NodeType
  <2> QED
    BY <2>1, <2>2, <2>3
<1> DEFINE shows == x # Junk /\ Origin[x] # n
<1>2. /\ \A m \in Nodes \ {n} : inbound'[m] = inbound[m]
      /\ inbound' = [inbound EXCEPT ![n] = Tail(@)]
      /\ log' = IF shows THEN [log EXCEPT ![n] = Append(@, x)] ELSE log
      /\ UNCHANGED <<stage, relay, sending, link, order, excused, faults>>
  BY <1>1 DEF Receive, Received, IInv, Shape
<1>3. shows => x \in Events /\ Published(x)
  BY <1>1 DEF Frames, IInv, PublishedInv
<1>4. /\ log'[n] \in Seq(Events)
      /\ ToSet(log'[n]) = IF shows THEN ToSet(log[n]) \cup {x} ELSE ToSet(log[n])
      /\ \A m \in Nodes \ {n} : log'[m] = log[m]
  <2>1. log[n] \in Seq(Events)
    BY NodeType
  <2>2. CASE shows
    <3>1. log'[n] = Append(log[n], x) /\ \A m \in Nodes \ {n} : log'[m] = log[m]
      BY <1>2, <2>2 DEF IInv, Shape
    <3> QED
      BY <1>3, <2>1, <2>2, <3>1, AppendMembers
  <2>3. CASE ~shows
    BY <1>2, <2>1, <2>3
  <2> QED
    BY <2>2, <2>3
<1>5. \A m \in Nodes : InHand(m)' = InHand(m)
  BY <1>2 DEF InHand
<1>6. \A m \in Nodes \ {n} : Foreign(m)' = Foreign(m)
  BY <1>4 DEF Foreign
<1>7. Foreign(n)' \subseteq Foreign(n) \cup (IF shows THEN {x} ELSE {})
  BY <1>4 DEF Foreign
<1>8. \A m \in Nodes : ToSet(log[m]) \subseteq ToSet(log'[m])
  BY <1>4
<1>9. TypeOK'
  <2>1. ASSUME NEW m \in Nodes
        PROVE  /\ ToSet(inbound'[m]) \subseteq Frames /\ ToSet(log'[m]) \subseteq Events
               /\ link[m] = "down" => inbound'[m] = <<>>
    <3>1. /\ ToSet(inbound[m]) \subseteq Frames /\ ToSet(log[m]) \subseteq Events
          /\ link[m] = "down" => inbound[m] = <<>>
      BY NodeType
    <3>2. m = n => ToSet(inbound'[m]) \subseteq Frames /\ ToSet(log'[m]) \subseteq Events
      BY <1>1, <1>3, <1>4, <3>1
    <3>3. m # n => inbound'[m] = inbound[m] /\ log'[m] = log[m]
      BY <1>2, <1>4
    <3> QED
      BY <1>1, <3>1, <3>2, <3>3
  <2> QED
    BY <1>2, <2>1 DEF IInv, TypeOK
<1>10. Shape'
  BY <1>1, <1>2, <1>3 DEF IInv, Shape
<1>11. StageInv'
  <2>1. \A f \in Events : Shown(f, Origin[f])' => Shown(f, Origin[f])
    BY <1>4, ClusterConstantsAssumption DEF Shown
  <2>2. \A f : Published(f)' = Published(f)
    BY <1>2 DEF Published
  <2> QED
    BY <1>2, <2>1, <2>2 DEF IInv, StageInv
<1>12. PublishedInv'
  <2>1. \A f : Published(f)' = Published(f)
    BY <1>2 DEF Published
  <2>2. ASSUME NEW m \in Nodes, NEW f \in ToSet(inbound'[m]) \cup ToSet(log'[m]), f # Junk
        PROVE  Published(f)
    <3>1. \A g \in ToSet(inbound[m]) \cup ToSet(log[m]) : g # Junk => Published(g)
      BY DEF IInv, PublishedInv
    <3>2. m = n => Published(f)
      BY <1>1, <1>3, <1>4, <2>2, <3>1
    <3>3. m # n => Published(f)
      BY <1>2, <1>4, <2>2, <3>1
    <3> QED
      BY <3>2, <3>3
  <2> QED
    BY <1>2, <1>5, <2>1, <2>2 DEF IInv, PublishedInv
<1>13. OrderInv'
  <2>1. Agree' = Agree
    BY <1>2, AgreeFrame
  <2>2. ASSUME NEW m \in Nodes
        PROVE  /\ SortedBy(Agree, relay[m]) /\ SortedBy(Agree, inbound'[m])
               /\ Ahead(Agree, InHand(m), ToSet(relay[m]))
               /\ Ahead(Agree, Foreign(m)', ToSet(inbound'[m]))
    <3>1. /\ SortedBy(Agree, relay[m]) /\ SortedBy(Agree, inbound[m])
          /\ Ahead(Agree, InHand(m), ToSet(relay[m]))
          /\ Ahead(Agree, Foreign(m), ToSet(inbound[m]))
      BY DEF IInv, OrderInv
    <3>2. m = n => Ahead(Agree, Foreign(m)', ToSet(inbound'[m]))
      BY <1>1, <1>7, <3>1 DEF Ahead
    <3>3. m # n => Ahead(Agree, Foreign(m)', ToSet(inbound'[m]))
      BY <1>2, <1>6, <3>1
    <3> QED
      BY <1>1, <1>2, <3>1, <3>2, <3>3
  <2>3. ASSUME NEW m \in Nodes, NEW k \in Nodes
        PROVE  Ahead(Agree, ToSet(inbound'[m]) \cup Foreign(m)', InHand(k) \cup ToSet(relay[k]))
    <3>1. Ahead(Agree, ToSet(inbound[m]) \cup Foreign(m), InHand(k) \cup ToSet(relay[k]))
      BY DEF IInv, OrderInv
    <3>2. ToSet(inbound'[m]) \cup Foreign(m)' \subseteq ToSet(inbound[m]) \cup Foreign(m)
      <4>1. m = n => ToSet(inbound'[m]) \cup Foreign(m)' \subseteq ToSet(inbound[m]) \cup Foreign(m)
        BY <1>1, <1>7
      <4>2. m # n => ToSet(inbound'[m]) \cup Foreign(m)' \subseteq ToSet(inbound[m]) \cup Foreign(m)
        BY <1>2, <1>6
      <4> QED
        BY <4>1, <4>2
    <3> QED
      BY <3>1, <3>2 DEF Ahead
  <2> QED
    BY <1>2, <1>5, <2>1, <2>2, <2>3 DEF OrderInv
<1>14. LostOnlyWithCause'
  <2> SUFFICES ASSUME NEW k \in Nodes, NEW f \in ToSet(order[k]), NEW m \in Nodes \ {k}
               PROVE  f \in ToSet(log'[m]) \/ InTransit(f, m)' \/ <<f, m>> \in excused
    BY <1>2 DEF LostOnlyWithCause
  <2>1. f \in Events /\ Origin[f] = k /\ f # Junk
    BY NodeType, ClusterConstantsAssumption
  <2>2. f \in ToSet(log[m]) \/ InTransit(f, m) \/ <<f, m>> \in excused
    BY DEF IInv, LostOnlyWithCause
  <2>3. CASE f = x /\ m = n
    BY <1>4, <2>1, <2>3
  <2>4. CASE f # x \/ m # n
    <3>1. f \in ToSet(inbound[m]) => f \in ToSet(inbound'[m])
      BY <1>1, <1>2, <2>4
    <3>2. InTransit(f, m) => InTransit(f, m)'
      BY <1>2, <3>1 DEF InTransit
    <3> QED
      BY <1>2, <1>8, <2>2, <3>2
  <2> QED
    BY <2>3, <2>4
<1> QED
  BY <1>9, <1>10, <1>11, <1>12, <1>13, <1>14 DEF IInv

\* Every step keeps the invariant.
LEMMA InvStep == IInv /\ [Next]_vars => IInv'
<1> SUFFICES ASSUME IInv, [Next]_vars PROVE IInv'
  OBVIOUS
<1>1. ASSUME NEW e \in Events, Call(e) \/ PublishStep(e) PROVE IInv'
  BY <1>1, CallKeeps, ForwardKeeps, DeliverKeeps DEF PublishStep
<1>2. ASSUME NEW n \in Nodes, RelayStep(n) PROVE IInv'
  BY <1>2, TakeFrameKeeps, PublishFrameKeeps, PublishFailsKeeps DEF RelayStep
<1>3. ASSUME NEW n \in Nodes, Subscribe(n) \/ Receive(n) PROVE IInv'
  BY <1>3, SubscribeKeeps, ReceiveKeeps
<1>4. ASSUME NEW n \in Nodes, Environment(n) PROVE IInv'
  BY <1>4, DisconnectKeeps, CrashKeeps DEF Environment
<1>5. CASE UNCHANGED vars
  <2>1. UNCHANGED <<stage, relay, sending, link, inbound, order, log, excused, faults>>
    BY <1>5 DEF vars, bridgeVars
  <2>2. StageInv' /\ PublishedInv' /\ OrderInv'
    BY <2>1, StageFrame, FewerInOrder DEF IInv
  <2>3. TypeOK' /\ Shape'
    BY <2>1 DEF IInv, TypeOK, Shape
  <2>4. LostOnlyWithCause'
    BY <2>1 DEF IInv, LostOnlyWithCause, InTransit
  <2> QED
    BY <2>2, <2>3, <2>4 DEF IInv
<1> QED
  BY <1>1, <1>2, <1>3, <1>4, <1>5, NoiseKeeps DEF Next

\* The events of a node are in the order it forwarded them wherever they are:
\* in its relay queue, in the frame in hand, in every stream and in every log.
THEOREM Invariant == Spec => []IInv
BY InvInit, InvStep, PTL DEF Spec

\* The relay queue keeps its bound, a broken subscription holds nothing back,
\* and an event that a node forwarded and another one neither has nor will get
\* was lost to a full queue, an error of Redis, a subscription that was down, a
\* stream that broke or a process that died.
THEOREM ClusterInvHolds == Spec => []ClusterInv
<1>1. IInv => ClusterInv
  BY DEF IInv, ClusterInv
<1> QED
  BY <1>1, Invariant, PTL

-----------------------------------------------------------------------------
(* What the sockets see.                                                   *)

\* The abstract bus reads the same histories.
LEMMA BusReads ==
    /\ \A e : Bus!Published(e) <=> Published(e)
    /\ \A e, n : Bus!Shown(e, n) <=> Shown(e, n)
    /\ \A e, f : Bus!Before(e, f) <=> Before(e, f)
    /\ \A s : Bus!ToSet(s) = ToSet(s)
BY DEF Bus!Published, Bus!Shown, Bus!Before, Bus!ToSet, Published, Shown, Before, ToSet

\* Forwarding is the publication,
LEMMA ForwardMaps ==
    ASSUME IInv, NEW e \in Events, Forward(e)
    PROVE  Bus!Publish(e)
<1>1. ~Published(e)
  BY DEF Forward, Forwarded, IInv, StageInv
<1> QED
  BY <1>1, BusReads DEF Forward, Forwarded, Bus!Publish

\* the local delivery shows the event at home,
LEMMA DeliverMaps ==
    ASSUME IInv, NEW e \in Events, DeliverLocally(e)
    PROVE  Origin[e] \in Nodes /\ Bus!Show(e, Origin[e])
<1>1. Published(e) /\ ~Shown(e, Origin[e]) /\ Origin[e] \in Nodes
  BY ClusterConstantsAssumption DEF DeliverLocally, IInv, StageInv
<1> QED
  BY <1>1, BusReads DEF DeliverLocally, Bus!Show

\* and what a node receives it shows, or skips.
LEMMA ReceiveMaps ==
    ASSUME IInv, NEW n \in Nodes, Receive(n)
    PROVE  (\E e \in Events : Bus!Show(e, n)) \/ UNCHANGED <<order, log>>
<1>1. PICK x \in Frames :
        /\ x = Head(inbound[n]) /\ x \in ToSet(inbound[n])
  <2>1. inbound[n] \in Seq(Frames) /\ inbound[n] # <<>>
    BY NodeType DEF Receive, Received
  <2> QED
    BY <2>1, TailSorted
<1>2. CASE x # Junk /\ Origin[x] # n
  <2>1. x \in Events /\ Published(x)
    BY <1>1, <1>2 DEF Frames, IInv, PublishedInv
  <2>2. ASSUME NEW f \in ToSet(log[n]), Origin[f] = Origin[x]
        PROVE  Before(f, x)
    <3>1. f \in Foreign(n)
      BY <1>2, <2>2 DEF Foreign
    <3>2. <<f, x>> \in Agree
      BY <1>1, <3>1 DEF IInv, OrderInv, Ahead
    <3>3. f \in Events /\ f # Junk
      BY <2>2, NodeType, ClusterConstantsAssumption
    <3> QED
      BY <1>2, <2>2, <3>2, <3>3 DEF Agree
  <2>3. ~Shown(x, n)
    BY <2>1, <2>2, BeforeStrict DEF Shown
  <2>4. ASSUME NEW f \in ToSet(log[n]) PROVE ~Before(x, f)
    <3> SUFFICES ASSUME Before(x, f) PROVE FALSE
      OBVIOUS
    <3>1. f \in Events /\ Origin[f] \in Nodes
      BY NodeType, ClusterConstantsAssumption
    <3>2. x \in ToSet(order[Origin[f]])
      BY DEF Before, ToSet
    <3>3. Origin[x] = Origin[f]
      BY <3>1, <3>2, NodeType
    <3> QED
      BY <2>1, <2>2, <3>1, <3>3, BeforeStrict
  <2>5. log' = [log EXCEPT ![n] = Append(@, x)] /\ UNCHANGED order
    BY <1>1, <1>2 DEF Receive, Received
  <2>6. Bus!Show(x, n)
    BY <1>2, <2>1, <2>3, <2>4, <2>5, BusReads DEF Bus!Show
  <2> QED
    BY <2>1, <2>6
<1>3. CASE ~(x # Junk /\ Origin[x] # n)
  BY <1>1, <1>3 DEF Receive, Received
<1> QED
  BY <1>2, <1>3

\* Over any nodes, with frames of one's own and foreign matter on the channel,
\* broken streams and restarts, the bridge is an EventBus: no socket is shown
\* an event twice, before it was published, or after a later one of its node.
THEOREM Refinement == Spec => IsAnEventBus
<1>1. Init => Bus!Init
  BY DEF Init, Bus!Init
<1>2. IInv /\ [Next]_vars => [Bus!Next]_Bus!busVars
  <2> SUFFICES ASSUME IInv, [Next]_vars
               PROVE  Bus!Next \/ UNCHANGED <<order, log>>
    BY DEF Bus!busVars
  <2>1. ASSUME NEW e \in Events, Call(e) \/ PublishStep(e)
        PROVE  Bus!Next \/ UNCHANGED <<order, log>>
    BY <2>1, ForwardMaps, DeliverMaps DEF Call, PublishStep, Bus!Next
  <2>2. ASSUME NEW n \in Nodes, RelayStep(n) \/ Subscribe(n) \/ Environment(n)
        PROVE  UNCHANGED <<order, log>>
    BY <2>2 DEF RelayStep, TakeFrame, PublishFrame, PublishFails, Subscribe,
                Environment, Disconnect, Crash
  <2>3. ASSUME NEW n \in Nodes, Receive(n)
        PROVE  Bus!Next \/ UNCHANGED <<order, log>>
    BY <2>3, ReceiveMaps DEF Bus!Next
  <2>4. CASE Noise \/ UNCHANGED vars
    BY <2>4 DEF Noise, vars
  <2> QED
    BY <2>1, <2>2, <2>3, <2>4 DEF Next
<1> QED
  BY <1>1, <1>2, Invariant, PTL DEF Spec, IsAnEventBus, Bus!Spec
=============================================================================
