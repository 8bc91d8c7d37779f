-------------------------- MODULE WsSessionProofs ---------------------------
(***************************************************************************)
(* Theorems about one WebSocket connection, for any users, topics, limits  *)
(* and intervals: what the hub keeps for it is bounded and has a task that *)
(* will remove it, nobody listens to another user's topic, the handshake   *)
(* admits whom it authenticated, and a silent client is not kept.          *)
(***************************************************************************)
EXTENDS WsSession, FiniteSetTheorems, TLAPS

(***************************************************************************)
(* The inductive invariant.  The bound on the subscriptions needs them to  *)
(* be finitely many; that they belong to this user needs that there are    *)
(* none before the handshake, which sets who, so none without a            *)
(* registration.                                                           *)
(***************************************************************************)
Subscriptions ==
    /\ IsFiniteSet(subs)
    /\ ~live => subs = {}

\* While the ticker is not due, the client was heard of so recently that the
\* next tick comes within a heartbeat of the timeout.
TickerInv == wait > 0 => idle + wait <= ClientTimeout + HeartbeatInterval

IInv == SessionInv /\ Subscriptions /\ PrivateTopicsStayPrivate /\ TickerInv

\* The bounds of the model are natural numbers, and at least 1.
LEMMA Bounds ==
    /\ SendBuffer \in Nat /\ SendBuffer > 0
    /\ OutBuffer \in Nat /\ OutBuffer > 0
    /\ MaxInbox \in Nat /\ MaxInbox > 0
    /\ HeartbeatInterval \in Nat /\ HeartbeatInterval > 0
    /\ ClientTimeout \in Nat /\ ClientTimeout > 0
    /\ MaxTopics \in Nat
    /\ IdleBound = ClientTimeout + HeartbeatInterval + 1
BY SessionConstantsAssumption DEF IdleBound

\* Nothing subscribed is within every limit.
LEMMA NoSubscriptions ==
    /\ IsFiniteSet({}) /\ {} \subseteq Topics
    /\ MaxTopics > 0 => Cardinality({}) <= MaxTopics
BY FS_EmptySet, Bounds

\* The initial state satisfies the invariant.
LEMMA TypeInit == Init => IInv
<1> SUFFICES ASSUME Init PROVE IInv
  OBVIOUS
<1>1. /\ IsFiniteSet(subs) /\ subs \subseteq Topics
      /\ MaxTopics > 0 => Cardinality(subs) <= MaxTopics
  BY NoSubscriptions DEF Init
<1>2. TypeOK
  <2>1. live \in BOOLEAN /\ stage \in Stage /\ who \in Users \cup {Anonymous}
    BY DEF Init, Stage
  <2>2. /\ queue \in 0 .. SendBuffer /\ out \in 0 .. OutBuffer /\ inbox \in 0 .. MaxInbox
        /\ idle \in 0 .. IdleBound /\ wait \in 0 .. HeartbeatInterval
    BY Bounds DEF Init
  <2> QED
    BY <1>1, <2>1, <2>2 DEF Init, TypeOK
<1>3. RegistrationsAreOwned /\ Subscriptions /\ PrivateTopicsStayPrivate
  BY <1>1 DEF Init, RegistrationsAreOwned, Subscriptions, PrivateTopicsStayPrivate
<1>4. TickerInv
  BY Bounds DEF Init, TickerInv
<1> QED
  BY <1>2, <1>3, <1>4 DEF IInv, SessionInv

-----------------------------------------------------------------------------
(* The steps, in three groups: those that change the subscriptions, those  *)
(* that end the session, and those that leave both alone.                  *)

\* A step after which nothing is registered.
LEMMA UnregisteredInv ==
    ASSUME IInv, live' = FALSE, subs' = {}, TypeOK', UNCHANGED who, TickerInv'
    PROVE  IInv'
BY FS_EmptySet
   DEF IInv, SessionInv, RegistrationsAreOwned, Subscriptions, PrivateTopicsStayPrivate

\* The session ends.
LEMMA LeaveKeeps == ASSUME IInv, Leave PROVE IInv'
<1> USE DEF Leave, Unregister, Forget
<1>1. TypeOK'
  <2>1. subs' \subseteq Topics /\ (MaxTopics > 0 => Cardinality(subs') <= MaxTopics)
    BY NoSubscriptions
  <2>2. live' \in BOOLEAN /\ stage' \in Stage
    BY DEF Stage
  <2>3. /\ queue' \in 0 .. SendBuffer /\ inbox' \in 0 .. MaxInbox
        /\ idle' \in 0 .. IdleBound /\ wait' \in 0 .. HeartbeatInterval
    BY Bounds
  <2> QED
    BY <2>1, <2>2, <2>3 DEF IInv, SessionInv, TypeOK
<1>2. TickerInv'
  BY Bounds DEF TickerInv
<1> QED
  BY <1>1, <1>2, UnregisteredInv

\* The welcome frame could not be sent.
LEMMA WelcomeFailsKeeps == ASSUME IInv, WelcomeFails PROVE IInv'
<1> USE DEF WelcomeFails, Unregister, Forget
<1>1. TypeOK'
  <2>1. subs' \subseteq Topics /\ (MaxTopics > 0 => Cardinality(subs') <= MaxTopics)
    BY NoSubscriptions
  <2>2. live' \in BOOLEAN /\ stage' \in Stage
    BY DEF Stage
  <2>3. /\ queue' \in 0 .. SendBuffer /\ inbox' \in 0 .. MaxInbox
        /\ idle' \in 0 .. IdleBound /\ wait' \in 0 .. HeartbeatInterval
    BY Bounds
  <2> QED
    BY <2>1, <2>2, <2>3 DEF IInv, SessionInv, TypeOK
<1>2. TickerInv'
  BY Bounds DEF TickerInv
<1> QED
  BY <1>1, <1>2, UnregisteredInv

\* An eviction empties the subscriptions, an ordinary delivery leaves them.
LEMMA DeliverKeeps == ASSUME IInv, Deliver PROVE IInv'
<1> USE DEF Deliver, timeVars, peerVars
<1>1. CASE queue < SendBuffer
  BY <1>1, Bounds
     DEF IInv, SessionInv, TypeOK, RegistrationsAreOwned, Subscriptions,
         PrivateTopicsStayPrivate, TickerInv
<1>2. CASE ~(queue < SendBuffer)
  <2>1. live' = FALSE /\ subs' = {} /\ UNCHANGED who
    BY <1>2 DEF Unregister
  <2>2. TypeOK'
    <3>1. subs' \subseteq Topics /\ (MaxTopics > 0 => Cardinality(subs') <= MaxTopics)
      BY <2>1, NoSubscriptions
    <3> QED
      BY <1>2, <2>1, <3>1 DEF IInv, SessionInv, TypeOK
  <2>3. TickerInv'
    BY DEF IInv, TickerInv
  <2> QED
    BY <2>1, <2>2, <2>3, UnregisteredInv
<1> QED
  BY <1>1, <1>2

\* The handshake finds no subscriptions, so whoever it admits has none of
\* somebody else's.
LEMMA HandshakeKeeps == ASSUME IInv, Handshake PROVE IInv'
<1> USE DEF Handshake, timeVars, peerVars
<1>1. subs = {} /\ subs' = {} /\ stage = "new" /\ ~live
  BY DEF IInv, SessionInv, TypeOK, RegistrationsAreOwned, Subscriptions, Running
<1>2. TypeOK'
  BY <1>1, NoSubscriptions
     DEF IInv, SessionInv, TypeOK, Stage, Running, NoOffer, Tokens
<1>3. RegistrationsAreOwned' /\ Subscriptions' /\ PrivateTopicsStayPrivate'
  BY <1>1, NoSubscriptions
     DEF RegistrationsAreOwned, Subscriptions, PrivateTopicsStayPrivate, Running
<1>4. TickerInv'
  BY DEF IInv, TickerInv
<1> QED
  BY <1>2, <1>3, <1>4 DEF IInv, SessionInv

\* on_connect subscribes a user to one topic, which is its own.
LEMMA ConnectKeeps == ASSUME IInv, Connect PROVE IInv'
<1> USE DEF Connect, timeVars, peerVars
<1>1. ASSUME live, who # Anonymous
      PROVE  /\ OwnTopic[who] \in Topics /\ Owner[OwnTopic[who]] = who /\ who \in Users
             /\ subs' = {OwnTopic[who]}
             /\ IsFiniteSet(subs') /\ Cardinality(subs') = 1
  BY <1>1, SessionConstantsAssumption, FS_Singleton
     DEF IInv, SessionInv, TypeOK
<1>2. IsFiniteSet(subs') /\ Cardinality(subs') \in {0, 1} /\ subs' \subseteq Topics
  BY <1>1, FS_EmptySet
<1>3. TypeOK'
  BY <1>2, Bounds DEF IInv, SessionInv, TypeOK, Stage, Running
<1>4. RegistrationsAreOwned' /\ Subscriptions'
  BY <1>2 DEF IInv, SessionInv, RegistrationsAreOwned, Subscriptions, Running
<1>5. PrivateTopicsStayPrivate'
  BY <1>1, SessionConstantsAssumption DEF PrivateTopicsStayPrivate
<1>6. TickerInv'
  BY DEF IInv, TickerInv
<1> QED
  BY <1>3, <1>4, <1>5, <1>6 DEF IInv, SessionInv

\* What a message does to everything but the subscriptions.
LEMMA ReceivedKeeps ==
    ASSUME IInv, Received, stage' \in Running,
           subs' \subseteq Topics, IsFiniteSet(subs'), ~live => subs' = {},
           MaxTopics > 0 => Cardinality(subs') <= MaxTopics,
           PrivateTopicsStayPrivate'
    PROVE  IInv'
<1> USE DEF Received
<1>1. TypeOK'
  BY Bounds DEF IInv, SessionInv, TypeOK, Stage, Running
<1>2. RegistrationsAreOwned' /\ Subscriptions'
  BY DEF RegistrationsAreOwned, Subscriptions
<1>3. TickerInv'
  BY Bounds DEF IInv, SessionInv, TypeOK, TickerInv
<1> QED
  BY <1>1, <1>2, <1>3 DEF IInv, SessionInv

\* The policy and the limit are asked before the topic is added.
LEMMA SubscribeKeeps == ASSUME IInv, NEW t \in Topics, Subscribe(t) PROVE IInv'
<1>1. IsFiniteSet(subs) /\ Cardinality(subs) \in Nat
  BY FS_CardinalityType DEF IInv, Subscriptions
<1>2. Received /\ stage' \in Running /\ UNCHANGED who
  BY DEF Subscribe, Received, Running
<1>3. CASE MaySubscribe(t) /\ live /\ ~AtTopicLimit(t)
  <2>1. subs' = subs \cup {t}
    BY <1>3 DEF Subscribe
  <2>2. IsFiniteSet(subs') /\ (MaxTopics > 0 => Cardinality(subs') <= MaxTopics)
    <3>1. CASE t \in subs
      <4>1. subs' = subs
        BY <2>1, <3>1
      <4> QED
        BY <1>1, <4>1 DEF IInv, SessionInv, TypeOK
    <3>2. CASE t \notin subs
      <4>1. IsFiniteSet(subs') /\ Cardinality(subs') = Cardinality(subs) + 1
        BY <1>1, <2>1, <3>2, FS_AddElement
      <4> QED
        BY <1>1, <1>3, <3>2, <4>1, Bounds DEF AtTopicLimit
    <3> QED
      BY <3>1, <3>2
  <2>3. PrivateTopicsStayPrivate'
    BY <1>2, <1>3, <2>1, SessionConstantsAssumption
       DEF IInv, PrivateTopicsStayPrivate, MaySubscribe
  <2>4. subs' \subseteq Topics
    BY <2>1 DEF IInv, SessionInv, TypeOK
  <2> QED
    BY <1>2, <1>3, <2>2, <2>3, <2>4, ReceivedKeeps
<1>4. CASE ~(MaySubscribe(t) /\ live /\ ~AtTopicLimit(t))
  <2>1. subs' = subs
    BY <1>4 DEF Subscribe
  <2> QED
    BY <1>1, <1>2, <2>1, ReceivedKeeps
       DEF IInv, SessionInv, TypeOK, Subscriptions, PrivateTopicsStayPrivate
<1> QED
  BY <1>3, <1>4

\* An unsubscribe.
LEMMA UnsubscribeKeeps == ASSUME IInv, NEW t \in Topics, Unsubscribe(t) PROVE IInv'
<1>1. /\ Received /\ stage' \in Running /\ UNCHANGED who
      /\ subs' = subs \ {t}
  BY DEF Unsubscribe, Received, Running
<1>2. /\ IsFiniteSet(subs) /\ Cardinality(subs) \in Nat
      /\ IsFiniteSet(subs') /\ Cardinality(subs') <= Cardinality(subs)
  BY <1>1, FS_CardinalityType, FS_Subset DEF IInv, Subscriptions
<1>3. MaxTopics > 0 => Cardinality(subs') <= MaxTopics
  <2>1. Cardinality(subs') \in Nat
    BY <1>2, FS_CardinalityType
  <2> QED
    BY <1>2, <2>1, Bounds DEF IInv, SessionInv, TypeOK
<1>4. subs' \subseteq Topics /\ (~live => subs' = {}) /\ PrivateTopicsStayPrivate'
  BY <1>1 DEF IInv, SessionInv, TypeOK, Subscriptions, PrivateTopicsStayPrivate
<1> QED
  BY <1>1, <1>2, <1>3, <1>4, ReceivedKeeps

\* A frame that only answers, or a pong.
LEMMA AnswerKeeps == ASSUME IInv, Answer \/ Pong PROVE IInv'
<1>1. Received /\ stage' \in Running /\ UNCHANGED <<who, subs>>
  BY DEF Answer, Pong, Received, Running
<1> QED
  BY <1>1, ReceivedKeeps
     DEF IInv, SessionInv, TypeOK, Subscriptions, PrivateTopicsStayPrivate

\* A step that leaves the registration, its subscriptions and the user alone.
LEMMA QuietKeeps ==
    ASSUME IInv, UNCHANGED <<who, live, subs>>, TypeOK', TickerInv',
           live => stage' \in Running
    PROVE  IInv'
BY DEF IInv, SessionInv, RegistrationsAreOwned, Subscriptions, PrivateTopicsStayPrivate

\* Every step keeps the invariant.
LEMMA StepKeeps == IInv /\ [Next]_vars => IInv'
<1> SUFFICES ASSUME IInv, [Next]_vars PROVE IInv'
  OBVIOUS
<1> USE DEF timeVars, peerVars, hubVars
<1>t. TypeOK /\ TickerInv /\ (live => stage \in Running)
  BY DEF IInv, SessionInv, RegistrationsAreOwned
<1>1. CASE Handshake
  BY <1>1, HandshakeKeeps
<1>2. CASE Connect
  BY <1>2, ConnectKeeps
<1>3. CASE WelcomeFails
  BY <1>3, WelcomeFailsKeeps
<1>4. CASE WriteFails \/ HubGone \/ ClientCloses \/ StreamEnds \/ TimesOut
  BY <1>4, LeaveKeeps DEF WriteFails, HubGone, ClientCloses, StreamEnds, TimesOut
<1>5. CASE Write
  <2>1. TypeOK'
    BY <1>5, <1>t, Bounds DEF Write, Blocked, TypeOK, Stage, Running
  <2> QED
    BY <1>5, <1>t, <2>1, QuietKeeps DEF Write, TickerInv, Running
<1>6. CASE Close
  <2>1. TypeOK' /\ ~live
    BY <1>6, <1>t, Bounds DEF Close, TypeOK, Stage, Running
  <2> QED
    BY <1>6, <1>t, <2>1, QuietKeeps DEF Close, TickerInv
<1>7. CASE FromHub
  <2>1. TypeOK'
    BY <1>7, <1>t, Bounds DEF FromHub, TypeOK, Stage, Running
  <2> QED
    BY <1>7, <1>t, <2>1, QuietKeeps DEF FromHub, TickerInv, Running
<1>8. CASE \E t \in Topics : Subscribe(t) \/ Unsubscribe(t)
  BY <1>8, SubscribeKeeps, UnsubscribeKeeps
<1>9. CASE Answer \/ Pong
  BY <1>9, AnswerKeeps
<1>10. CASE Ping
  <2>1. TypeOK'
    BY <1>10, <1>t, Bounds DEF Ping, TypeOK, Stage, Running
  <2>2. TickerInv'
    BY <1>10, <1>t, Bounds DEF Ping, TypeOK, TickerInv
  <2> QED
    BY <1>10, <2>1, <2>2, QuietKeeps DEF Ping, Running
<1>11. CASE Deliver
  BY <1>11, DeliverKeeps
<1>12. CASE ClientSends
  <2>1. TypeOK'
    BY <1>12, <1>t, Bounds DEF ClientSends, TypeOK
  <2> QED
    BY <1>12, <1>t, <2>1, QuietKeeps DEF ClientSends, TickerInv
<1>13. CASE ClientReads
  <2>1. TypeOK'
    BY <1>13, <1>t, Bounds DEF ClientReads, TypeOK
  <2> QED
    BY <1>13, <1>t, <2>1, QuietKeeps DEF ClientReads, TickerInv
<1>14. CASE ClientGoes
  <2>1. TypeOK'
    BY <1>14, <1>t DEF ClientGoes, TypeOK
  <2> QED
    BY <1>14, <1>t, <2>1, QuietKeeps DEF ClientGoes, TickerInv
<1>15. CASE Tick
  <2>1. TypeOK'
    BY <1>15, <1>t, Bounds DEF Tick, TypeOK
  <2>2. TickerInv'
    BY <1>15, <1>t, Bounds DEF Tick, TypeOK, TickerInv
  <2> QED
    BY <1>15, <1>t, <2>1, <2>2, QuietKeeps DEF Tick
<1>16. CASE UNCHANGED vars
  BY <1>16, <1>t, QuietKeeps DEF vars, TypeOK, TickerInv
<1> QED
  BY <1>1, <1>2, <1>3, <1>4, <1>5, <1>6, <1>7, <1>8, <1>9, <1>10, <1>11, <1>12,
     <1>13, <1>14, <1>15, <1>16
     DEF Next, SessionStep, Writing, FromClient, Heartbeat

-----------------------------------------------------------------------------
(* The theorems.                                                           *)

\* The inductive invariant holds in every reachable state.
THEOREM Invariant == Spec => []IInv
BY TypeInit, StepKeeps, PTL DEF Spec

\* A connection's queues and subscriptions stay within their bounds, and
\* whichever way the session ends the hub does not keep the connection
\* (run_session's calls of unregister, hub.rs deliver).
THEOREM SessionInvHolds == Spec => []SessionInv
<1>1. IInv => SessionInv
  BY DEF IInv
<1> QED
  BY <1>1, Invariant, PTL

\* Nobody is ever subscribed to another user's topic, an anonymous client to
\* public ones only (AppWsPolicy::authorize_subscribe, on_connect).
THEOREM PrivateTopicsStayPrivateHolds == Spec => []PrivateTopicsStayPrivate
<1>1. IInv => PrivateTopicsStayPrivate
  BY DEF IInv
<1> QED
  BY <1>1, Invariant, PTL

\* The handshake admits a connection as the user of the token that counts, and
\* no token that does not verify counts as none (resolve_identity).
THEOREM AdmittedAsAuthenticatedHolds == Spec => AdmittedAsAuthenticated
<1> DEFINE A == ~live /\ live' =>
                  /\ offer.header # BadToken
                  /\ offer.header = NoToken /\ offer.allow => offer.query # BadToken
                  /\ who' = Anonymous => ~offer.require
                  /\ who' # Anonymous =>
                        \/ who' = offer.header
                        \/ offer.header = NoToken /\ offer.allow /\ who' = offer.query
<1>1. ASSUME [Next]_vars, ~live, live' PROVE Handshake
  BY <1>1
     DEF Next, SessionStep, Writing, FromClient, Heartbeat, Connect, WelcomeFails,
         WriteFails, Write, Close, FromHub, HubGone, Subscribe, Unsubscribe, Answer,
         Pong, Received, ClientCloses, StreamEnds, TimesOut, Ping, Deliver,
         ClientSends, ClientReads, ClientGoes, Tick, Leave, Unregister, vars, hubVars
<1>2. ASSUME Handshake, ~live, live' PROVE A
  <2>1. Admits(Token) /\ who' = IF Token \in Users THEN Token ELSE Anonymous
    BY <1>2 DEF Handshake
  <2> QED
    BY <2>1, SessionConstantsAssumption DEF Admits, Token
<1>3. [Next]_vars => [A]_vars
  BY <1>1, <1>2
<1> QED
  BY <1>3, PTL DEF Spec, AdmittedAsAuthenticated

\* The clock never advances past the client timeout by a heartbeat on a session
\* that is in its select (run_session's ticker and its check of last_seen).
THEOREM ReapedInTimeHolds == Spec => ReapedInTime
<1> DEFINE A == Tick => \/ Blocked \/ stage = "close"
                        \/ idle < ClientTimeout + HeartbeatInterval
<1>1. IInv => A
  <2> SUFFICES ASSUME IInv, Tick, ~Blocked, stage # "close"
               PROVE  idle < ClientTimeout + HeartbeatInterval
    OBVIOUS
  <2>1. stage = "open" /\ wait # 0
    BY DEF Tick, Ready, Running, Blocked
  <2> QED
    BY <2>1, Bounds DEF IInv, SessionInv, TypeOK, TickerInv
<1>2. IInv /\ [Next]_vars => [A]_vars
  BY <1>1
<1> QED
  BY <1>2, Invariant, PTL DEF Spec, ReapedInTime
=============================================================================
