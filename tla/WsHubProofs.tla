---------------------------- MODULE WsHubProofs -----------------------------
(***************************************************************************)
(* Theorems about the WebSocket hub, for any connections, topics, users,   *)
(* publishers and limits: the two indexes agree with the registry although *)
(* no method locks more than one map at a time, and nothing but the        *)
(* entries of one known race outlives a connection in them.                *)
(***************************************************************************)
EXTENDS WsHub, TLAPS

(***************************************************************************)
(* The inductive invariant: what the place of a session and of its removal *)
(* say about the one connection they are about.  No step of a thread can   *)
(* break it for another connection.                                        *)
(***************************************************************************)
BeforeInsert == {"new", "registering"}
InTopicCall == {"subscribing", "detaching", "pruning"}

\* a session is in the registry from its insert until someone removes it, once
RegistryInv(c) ==
    /\ c \in live => /\ session[c] \in {"indexing", "open"} \cup InTopicCall
                     /\ teardown[c].at = "none"
    /\ c \notin live => subs[c] = {}
    /\ session[c] \in BeforeInsert =>
          /\ c \notin live /\ teardown[c].at = "none"
          /\ \A t \in Topics : c \notin topics[t]
          /\ \A u \in Users : c \notin users[u]
    /\ session[c] \in {"indexing", "subscribing"} => c \in live \cup raced

\* what its current call is about
CallInv(c) ==
    /\ session[c] \in InTopicCall => arg[c] \in Topics
    /\ session[c] = "indexing" => UserOf[c] \in Users
    /\ c \in live =>
          /\ session[c] = "subscribing" => arg[c] \in subs[c]
          /\ session[c] = "detaching" => arg[c] \notin subs[c]

\* what its removal has left to do
TeardownInv(c) ==
    /\ teardown[c].at \notin {"topics", "prune"} => teardown[c].todo = {}
    /\ teardown[c].at = "prune" => teardown[c].topic \in Topics
    /\ teardown[c].at = "pruneUser" => UserOf[c] \in Users
    /\ \A u \in Users : c \in users[u] => u = UserOf[c]

ConnInv(c) == RegistryInv(c) /\ CallInv(c) /\ TeardownInv(c)

IInv ==
    /\ TypeOK
    /\ \A c \in Conns : ConnInv(c)
    /\ IndexesAgreeOnLive
    /\ NoIdleTopics
    /\ DanglingOnlyAfterRace

-----------------------------------------------------------------------------
\* TeardownTo moves the removal of one connection and no other.
LEMMA TeardownMoves ==
    ASSUME IInv, NEW c \in Conns, NEW state \in TeardownState,
           NEW left \in SUBSET Topics, NEW topic \in Topics \cup {NoTopic},
           TeardownTo(c, state, left, topic)
    PROVE  /\ teardown' \in [Conns -> [at: TeardownState,
                                       by: Conns \cup Publishers \cup {Nobody},
                                       todo: SUBSET Topics,
                                       topic: Topics \cup {NoTopic}]]
           /\ teardown'[c].at = state /\ teardown'[c].todo = left
           /\ teardown'[c].topic = topic
           /\ \A d \in Conns : d # c => teardown'[d] = teardown[d]
<1> DEFINE R == [at: TeardownState, by: Conns \cup Publishers \cup {Nobody},
                 todo: SUBSET Topics, topic: Topics \cup {NoTopic}]
<1>1. teardown \in [Conns -> R]
  BY DEF IInv, TypeOK
<1>2. PICK r \in R : r = [teardown[c] EXCEPT !.at = state, !.todo = left, !.topic = topic]
  BY <1>1
<1>3. r.at = state /\ r.todo = left /\ r.topic = topic
  BY <1>1, <1>2
<1>4. teardown' = [teardown EXCEPT ![c] = r]
  BY <1>1, <1>2 DEF TeardownTo
<1> QED
  BY <1>1, <1>3, <1>4

\* register checks the limit: the connection is in no index and stays out.
LEMMA CheckLimitKeeps == ASSUME IInv, NEW c \in Conns, CheckLimit(c) PROVE IInv'
<1> USE HubConstantsAssumption DEF CheckLimit, Goto, connVars, indexVars,
        sessionVars, publisherVars, historyVars
<1>1. TypeOK'
  BY DEF IInv, TypeOK, SessionState, TeardownState
<1>2. ASSUME NEW d \in Conns PROVE ConnInv(d)'
  BY DEF IInv, TypeOK, ConnInv, RegistryInv, CallInv, TeardownInv, BeforeInsert,
         InTopicCall
<1>3. IndexesAgreeOnLive'
  BY DEF IInv, TypeOK, ConnInv, RegistryInv, CallInv, BeforeInsert, InTopicCall,
         IndexesAgreeOnLive, InCall
<1>4. NoIdleTopics'
  BY DEF IInv, TypeOK, ConnInv, RegistryInv, InTopicCall, NoIdleTopics, InCall
<1>5. DanglingOnlyAfterRace'
  BY DEF IInv, TypeOK, ConnInv, RegistryInv, CallInv, TeardownInv, BeforeInsert,
         InTopicCall, IndexesAgreeOnLive, DanglingOnlyAfterRace, InCall
<1> QED
  BY <1>1, <1>2, <1>3, <1>4, <1>5 DEF IInv

\* register inserts the connection, which nobody has subscribed or removed yet.
LEMMA InsertConnectionKeeps == ASSUME IInv, NEW c \in Conns, InsertConnection(c) PROVE IInv'
<1> USE HubConstantsAssumption DEF InsertConnection, Goto, connVars, indexVars,
        sessionVars, publisherVars, historyVars
<1>1. TypeOK'
  BY DEF IInv, TypeOK, SessionState, TeardownState
<1>2. ASSUME NEW d \in Conns PROVE ConnInv(d)'
  <2>1. RegistryInv(d)'
    BY DEF IInv, TypeOK, ConnInv, RegistryInv, CallInv, TeardownInv, BeforeInsert,
           InTopicCall
  <2>2. CallInv(d)'
    BY DEF IInv, TypeOK, ConnInv, RegistryInv, CallInv, TeardownInv, BeforeInsert,
           InTopicCall
  <2>3. TeardownInv(d)'
    BY DEF IInv, TypeOK, ConnInv, RegistryInv, CallInv, TeardownInv, BeforeInsert,
           InTopicCall
  <2> QED
    BY <2>1, <2>2, <2>3 DEF ConnInv
<1>3. IndexesAgreeOnLive'
  BY DEF IInv, TypeOK, ConnInv, RegistryInv, CallInv, BeforeInsert, InTopicCall,
         IndexesAgreeOnLive, InCall
<1>4. NoIdleTopics'
  BY DEF IInv, TypeOK, ConnInv, RegistryInv, InTopicCall, NoIdleTopics, InCall
<1>5. DanglingOnlyAfterRace'
  BY DEF IInv, TypeOK, ConnInv, RegistryInv, CallInv, TeardownInv, BeforeInsert,
         InTopicCall, IndexesAgreeOnLive, DanglingOnlyAfterRace, InCall
<1> QED
  BY <1>1, <1>2, <1>3, <1>4, <1>5 DEF IInv

\* register lists the connection under its user; if it was evicted before that,
\* it is one of the raced.
LEMMA InsertUserKeeps == ASSUME IInv, NEW c \in Conns, InsertUser(c) PROVE IInv'
<1> USE HubConstantsAssumption DEF InsertUser, Goto, connVars, indexVars,
        sessionVars, publisherVars, historyVars
<1>1. TypeOK'
  <2>1. /\ live' \subseteq Conns /\ subs' \in [Conns -> SUBSET Topics]
        /\ queue' \in [Conns -> 0 .. SendBuffer]
    BY DEF IInv, TypeOK
  <2>2. /\ topics' \in [Topics -> SUBSET Conns] /\ topicKeys' \subseteq Topics
        /\ users' \in [Users -> SUBSET Conns] /\ userKeys' \subseteq Users
    BY DEF IInv, TypeOK, ConnInv, CallInv
  <2>3. /\ session' \in [Conns -> SessionState]
        /\ arg' \in [Conns -> Topics \cup {NoTopic}]
    BY DEF IInv, TypeOK, SessionState
  <2>4. teardown' \in [Conns -> [at: TeardownState,
                               by: Conns \cup Publishers \cup {Nobody},
                               todo: SUBSET Topics,
                               topic: Topics \cup {NoTopic}]]
    BY DEF IInv, TypeOK
  <2>5. /\ todo' \in [Publishers -> SUBSET Conns] /\ slow' \in [Publishers -> SUBSET Conns]
        /\ evicted' \subseteq Conns /\ raced' \subseteq evicted'
    BY DEF IInv, TypeOK
  <2> QED
    BY <2>1, <2>2, <2>3, <2>4, <2>5 DEF TypeOK
<1>2. ASSUME NEW d \in Conns PROVE ConnInv(d)'
  BY DEF IInv, TypeOK, ConnInv, RegistryInv, CallInv, TeardownInv, BeforeInsert,
         InTopicCall
<1>3. IndexesAgreeOnLive'
  BY DEF IInv, TypeOK, ConnInv, RegistryInv, CallInv, BeforeInsert, InTopicCall,
         IndexesAgreeOnLive, InCall
<1>4. NoIdleTopics'
  BY DEF IInv, TypeOK, ConnInv, RegistryInv, InTopicCall, NoIdleTopics, InCall
<1>5. DanglingOnlyAfterRace'
  BY DEF IInv, TypeOK, ConnInv, RegistryInv, CallInv, TeardownInv, BeforeInsert,
         InTopicCall, IndexesAgreeOnLive, DanglingOnlyAfterRace, InCall
<1> QED
  BY <1>1, <1>2, <1>3, <1>4, <1>5 DEF IInv

\* subscribe records the topic on a live connection.
LEMMA SubscribeConnectionKeeps == ASSUME IInv, NEW c \in Conns, NEW t \in Topics, SubscribeConnection(c, t) PROVE IInv'
<1> USE HubConstantsAssumption DEF SubscribeConnection, AtTopicLimit, Goto, connVars, indexVars,
        sessionVars, publisherVars, historyVars
<1>1. TypeOK'
  BY DEF IInv, TypeOK, SessionState, TeardownState
<1>2. ASSUME NEW d \in Conns PROVE ConnInv(d)'
  BY DEF IInv, TypeOK, ConnInv, RegistryInv, CallInv, TeardownInv, BeforeInsert,
         InTopicCall
<1>3. IndexesAgreeOnLive'
  BY DEF IInv, TypeOK, ConnInv, RegistryInv, CallInv, BeforeInsert, InTopicCall,
         IndexesAgreeOnLive, InCall
<1>4. NoIdleTopics'
  BY DEF IInv, TypeOK, ConnInv, RegistryInv, InTopicCall, NoIdleTopics, InCall
<1>5. DanglingOnlyAfterRace'
  BY DEF IInv, TypeOK, ConnInv, RegistryInv, CallInv, TeardownInv, BeforeInsert,
         InTopicCall, IndexesAgreeOnLive, DanglingOnlyAfterRace, InCall
<1> QED
  BY <1>1, <1>2, <1>3, <1>4, <1>5 DEF IInv

\* subscribe lists the connection under the topic it has recorded, so the topic
\* is not idle; if it was evicted before that, it is one of the raced.
LEMMA SubscribeTopicKeeps == ASSUME IInv, NEW c \in Conns, SubscribeTopic(c) PROVE IInv'
<1> USE HubConstantsAssumption DEF SubscribeTopic, Goto, connVars, indexVars,
        sessionVars, publisherVars, historyVars
<1>1. TypeOK'
  <2>1. /\ live' \subseteq Conns /\ subs' \in [Conns -> SUBSET Topics]
        /\ queue' \in [Conns -> 0 .. SendBuffer]
    BY DEF IInv, TypeOK
  <2>2. /\ topics' \in [Topics -> SUBSET Conns] /\ topicKeys' \subseteq Topics
        /\ users' \in [Users -> SUBSET Conns] /\ userKeys' \subseteq Users
    BY DEF IInv, TypeOK, ConnInv, CallInv, InTopicCall
  <2>3. /\ session' \in [Conns -> SessionState]
        /\ arg' \in [Conns -> Topics \cup {NoTopic}]
    BY DEF IInv, TypeOK, SessionState
  <2>4. teardown' \in [Conns -> [at: TeardownState,
                               by: Conns \cup Publishers \cup {Nobody},
                               todo: SUBSET Topics,
                               topic: Topics \cup {NoTopic}]]
    BY DEF IInv, TypeOK
  <2>5. /\ todo' \in [Publishers -> SUBSET Conns] /\ slow' \in [Publishers -> SUBSET Conns]
        /\ evicted' \subseteq Conns /\ raced' \subseteq evicted'
    BY DEF IInv, TypeOK
  <2> QED
    BY <2>1, <2>2, <2>3, <2>4, <2>5 DEF TypeOK
<1>2. ASSUME NEW d \in Conns PROVE ConnInv(d)'
  BY DEF IInv, TypeOK, ConnInv, RegistryInv, CallInv, TeardownInv, BeforeInsert,
         InTopicCall
<1>3. IndexesAgreeOnLive'
  BY DEF IInv, TypeOK, ConnInv, RegistryInv, CallInv, BeforeInsert, InTopicCall,
         IndexesAgreeOnLive, InCall
<1>4. NoIdleTopics'
  <2> SUFFICES ASSUME NEW t \in topicKeys', topics'[t] = {}
               PROVE  \E d \in Conns : \/ InCall(d, "pruning", t)'
                                      \/ (teardown[d].at = "prune" /\ teardown[d].topic = t)'
    BY DEF NoIdleTopics
  <2>1. t # arg[c] /\ t \in topicKeys /\ topics[t] = {}
    BY DEF IInv, TypeOK, ConnInv, CallInv, InTopicCall
  <2>2. PICK d \in Conns : \/ InCall(d, "pruning", t)
                           \/ (teardown[d].at = "prune" /\ teardown[d].topic = t)
    BY <2>1 DEF IInv, NoIdleTopics
  <2> QED
    BY <2>2 DEF IInv, TypeOK, InCall
<1>5. DanglingOnlyAfterRace'
  BY DEF IInv, TypeOK, ConnInv, RegistryInv, CallInv, TeardownInv, BeforeInsert,
         InTopicCall, IndexesAgreeOnLive, DanglingOnlyAfterRace, InCall
<1> QED
  BY <1>1, <1>2, <1>3, <1>4, <1>5 DEF IInv

\* unsubscribe erases the topic on the connection.
LEMMA UnsubscribeConnectionKeeps == ASSUME IInv, NEW c \in Conns, NEW t \in Topics, UnsubscribeConnection(c, t) PROVE IInv'
<1> USE HubConstantsAssumption DEF UnsubscribeConnection, Goto, connVars, indexVars,
        sessionVars, publisherVars, historyVars
<1>1. TypeOK'
  BY DEF IInv, TypeOK, SessionState, TeardownState
<1>2. ASSUME NEW d \in Conns PROVE ConnInv(d)'
  BY DEF IInv, TypeOK, ConnInv, RegistryInv, CallInv, TeardownInv, BeforeInsert,
         InTopicCall
<1>3. IndexesAgreeOnLive'
  BY DEF IInv, TypeOK, ConnInv, RegistryInv, CallInv, BeforeInsert, InTopicCall,
         IndexesAgreeOnLive, InCall
<1>4. NoIdleTopics'
  BY DEF IInv, TypeOK, ConnInv, RegistryInv, InTopicCall, NoIdleTopics, InCall
<1>5. DanglingOnlyAfterRace'
  BY DEF IInv, TypeOK, ConnInv, RegistryInv, CallInv, TeardownInv, BeforeInsert,
         InTopicCall, IndexesAgreeOnLive, DanglingOnlyAfterRace, InCall
<1> QED
  BY <1>1, <1>2, <1>3, <1>4, <1>5 DEF IInv

\* unsubscribe detaches the connection; if it was the last, this session will
\* drop the topic.
LEMMA UnsubscribeTopicKeeps == ASSUME IInv, NEW c \in Conns, UnsubscribeTopic(c) PROVE IInv'
<1> USE HubConstantsAssumption DEF UnsubscribeTopic, DetachFrom, Goto, connVars, indexVars,
        sessionVars, publisherVars, historyVars
<1>1. TypeOK'
  BY DEF IInv, TypeOK, SessionState, TeardownState
<1>2. ASSUME NEW d \in Conns PROVE ConnInv(d)'
  BY DEF IInv, TypeOK, ConnInv, RegistryInv, CallInv, TeardownInv, BeforeInsert,
         InTopicCall
<1>3. IndexesAgreeOnLive'
  BY DEF IInv, TypeOK, ConnInv, RegistryInv, CallInv, BeforeInsert, InTopicCall,
         IndexesAgreeOnLive, InCall
<1>4. NoIdleTopics'
  BY DEF IInv, TypeOK, ConnInv, RegistryInv, InTopicCall, NoIdleTopics, InCall
<1>5. DanglingOnlyAfterRace'
  BY DEF IInv, TypeOK, ConnInv, RegistryInv, CallInv, TeardownInv, BeforeInsert,
         InTopicCall, IndexesAgreeOnLive, DanglingOnlyAfterRace, InCall
<1> QED
  BY <1>1, <1>2, <1>3, <1>4, <1>5 DEF IInv

\* unsubscribe drops the topic only if it is empty, and then it is not idle.
LEMMA UnsubscribePruneKeeps == ASSUME IInv, NEW c \in Conns, UnsubscribePrune(c) PROVE IInv'
<1> USE HubConstantsAssumption DEF UnsubscribePrune, Prune, Goto, connVars, indexVars,
        sessionVars, publisherVars, historyVars
<1>1. TypeOK'
  BY DEF IInv, TypeOK, SessionState, TeardownState
<1>2. ASSUME NEW d \in Conns PROVE ConnInv(d)'
  BY DEF IInv, TypeOK, ConnInv, RegistryInv, CallInv, TeardownInv, BeforeInsert,
         InTopicCall
<1>3. IndexesAgreeOnLive'
  BY DEF IInv, TypeOK, ConnInv, RegistryInv, CallInv, BeforeInsert, InTopicCall,
         IndexesAgreeOnLive, InCall
<1>4. NoIdleTopics'
  BY DEF IInv, TypeOK, ConnInv, RegistryInv, InTopicCall, NoIdleTopics, InCall
<1>5. DanglingOnlyAfterRace'
  BY DEF IInv, TypeOK, ConnInv, RegistryInv, CallInv, TeardownInv, BeforeInsert,
         InTopicCall, IndexesAgreeOnLive, DanglingOnlyAfterRace, InCall
<1> QED
  BY <1>1, <1>2, <1>3, <1>4, <1>5 DEF IInv

\* The session unregisters its connection, or finds it evicted.
LEMMA CloseSessionKeeps == ASSUME IInv, NEW c \in Conns, CloseSession(c) PROVE IInv'
<1> USE HubConstantsAssumption DEF CloseSession, Remove, Goto, connVars, indexVars,
        sessionVars, publisherVars, historyVars
<1>1. TypeOK'
  <2>1. /\ live' \subseteq Conns /\ subs' \in [Conns -> SUBSET Topics]
        /\ queue' \in [Conns -> 0 .. SendBuffer]
    BY DEF IInv, TypeOK
  <2>2. /\ topics' \in [Topics -> SUBSET Conns] /\ topicKeys' \subseteq Topics
        /\ users' \in [Users -> SUBSET Conns] /\ userKeys' \subseteq Users
    BY DEF IInv, TypeOK
  <2>3. /\ session' \in [Conns -> SessionState]
        /\ arg' \in [Conns -> Topics \cup {NoTopic}]
    BY DEF IInv, TypeOK, SessionState
  <2>4. teardown' \in [Conns -> [at: TeardownState,
                               by: Conns \cup Publishers \cup {Nobody},
                               todo: SUBSET Topics,
                               topic: Topics \cup {NoTopic}]]
    BY DEF IInv, TypeOK, TeardownState
  <2>5. /\ todo' \in [Publishers -> SUBSET Conns] /\ slow' \in [Publishers -> SUBSET Conns]
        /\ evicted' \subseteq Conns /\ raced' \subseteq evicted'
    BY DEF IInv, TypeOK
  <2> QED
    BY <2>1, <2>2, <2>3, <2>4, <2>5 DEF TypeOK
<1>2. ASSUME NEW d \in Conns PROVE ConnInv(d)'
  BY DEF IInv, TypeOK, ConnInv, RegistryInv, CallInv, TeardownInv, BeforeInsert,
         InTopicCall
<1>3. IndexesAgreeOnLive'
  BY DEF IInv, TypeOK, ConnInv, RegistryInv, CallInv, BeforeInsert, InTopicCall,
         IndexesAgreeOnLive, InCall
<1>4. NoIdleTopics'
  BY DEF IInv, TypeOK, ConnInv, RegistryInv, InTopicCall, NoIdleTopics, InCall
<1>5. DanglingOnlyAfterRace'
  BY DEF IInv, TypeOK, ConnInv, RegistryInv, CallInv, TeardownInv, BeforeInsert,
         InTopicCall, IndexesAgreeOnLive, DanglingOnlyAfterRace, InCall
<1> QED
  BY <1>1, <1>2, <1>3, <1>4, <1>5 DEF IInv

\* The session ends after its unregister call.
LEMMA SessionEndsKeeps == ASSUME IInv, NEW c \in Conns, SessionEnds(c) PROVE IInv'
<1> USE HubConstantsAssumption DEF SessionEnds, Goto, connVars, indexVars,
        sessionVars, publisherVars, historyVars
<1>1. TypeOK'
  BY DEF IInv, TypeOK, SessionState, TeardownState
<1>2. ASSUME NEW d \in Conns PROVE ConnInv(d)'
  BY DEF IInv, TypeOK, ConnInv, RegistryInv, CallInv, TeardownInv, BeforeInsert,
         InTopicCall
<1>3. IndexesAgreeOnLive'
  BY DEF IInv, TypeOK, ConnInv, RegistryInv, CallInv, BeforeInsert, InTopicCall,
         IndexesAgreeOnLive, InCall
<1>4. NoIdleTopics'
  BY DEF IInv, TypeOK, ConnInv, RegistryInv, InTopicCall, NoIdleTopics, InCall
<1>5. DanglingOnlyAfterRace'
  BY DEF IInv, TypeOK, ConnInv, RegistryInv, CallInv, TeardownInv, BeforeInsert,
         InTopicCall, IndexesAgreeOnLive, DanglingOnlyAfterRace, InCall
<1> QED
  BY <1>1, <1>2, <1>3, <1>4, <1>5 DEF IInv

\* unregister detaches from one of the topics it took from the entry.
LEMMA TeardownDetachKeeps == ASSUME IInv, NEW c \in Conns, TeardownDetach(c) PROVE IInv'
<1> USE HubConstantsAssumption DEF TeardownDetach, DetachFrom, TeardownTo, connVars, indexVars,
        sessionVars, publisherVars, historyVars
<1>1. TypeOK'
  BY DEF IInv, TypeOK, SessionState, TeardownState
<1>2. ASSUME NEW d \in Conns PROVE ConnInv(d)'
  BY DEF IInv, TypeOK, ConnInv, RegistryInv, CallInv, TeardownInv, BeforeInsert,
         InTopicCall
<1>3. IndexesAgreeOnLive'
  BY DEF IInv, TypeOK, ConnInv, RegistryInv, CallInv, BeforeInsert, InTopicCall,
         IndexesAgreeOnLive, InCall
<1>4. NoIdleTopics'
  BY DEF IInv, TypeOK, ConnInv, RegistryInv, InTopicCall, NoIdleTopics, InCall
<1>5. DanglingOnlyAfterRace'
  BY DEF IInv, TypeOK, ConnInv, RegistryInv, CallInv, TeardownInv, BeforeInsert,
         InTopicCall, IndexesAgreeOnLive, DanglingOnlyAfterRace, InCall
<1> QED
  BY <1>1, <1>2, <1>3, <1>4, <1>5 DEF IInv

\* unregister drops that topic only if it is empty.
LEMMA TeardownPruneKeeps == ASSUME IInv, NEW c \in Conns, TeardownPrune(c) PROVE IInv'
<1> USE HubConstantsAssumption DEF TeardownPrune, Prune, TeardownTo, connVars, indexVars,
        sessionVars, publisherVars, historyVars
<1>1. TypeOK'
  <2>1. /\ live' \subseteq Conns /\ subs' \in [Conns -> SUBSET Topics]
        /\ queue' \in [Conns -> 0 .. SendBuffer]
    BY DEF IInv, TypeOK
  <2>2. /\ topics' \in [Topics -> SUBSET Conns] /\ topicKeys' \subseteq Topics
        /\ users' \in [Users -> SUBSET Conns] /\ userKeys' \subseteq Users
    BY DEF IInv, TypeOK
  <2>3. /\ session' \in [Conns -> SessionState]
        /\ arg' \in [Conns -> Topics \cup {NoTopic}]
    BY DEF IInv, TypeOK
  <2>4. teardown' \in [Conns -> [at: TeardownState,
                               by: Conns \cup Publishers \cup {Nobody},
                               todo: SUBSET Topics,
                               topic: Topics \cup {NoTopic}]]
    <3>1. teardown[c].todo \in SUBSET Topics
      BY DEF IInv, TypeOK
    <3> QED
      BY <3>1, TeardownMoves DEF TeardownState
  <2>5. /\ todo' \in [Publishers -> SUBSET Conns] /\ slow' \in [Publishers -> SUBSET Conns]
        /\ evicted' \subseteq Conns /\ raced' \subseteq evicted'
    BY DEF IInv, TypeOK
  <2> QED
    BY <2>1, <2>2, <2>3, <2>4, <2>5 DEF TypeOK
<1>2. ASSUME NEW d \in Conns PROVE ConnInv(d)'
  BY DEF IInv, TypeOK, ConnInv, RegistryInv, CallInv, TeardownInv, BeforeInsert,
         InTopicCall
<1>3. IndexesAgreeOnLive'
  BY DEF IInv, TypeOK, ConnInv, RegistryInv, CallInv, BeforeInsert, InTopicCall,
         IndexesAgreeOnLive, InCall
<1>4. NoIdleTopics'
  BY DEF IInv, TypeOK, ConnInv, RegistryInv, InTopicCall, NoIdleTopics, InCall
<1>5. DanglingOnlyAfterRace'
  BY DEF IInv, TypeOK, ConnInv, RegistryInv, CallInv, TeardownInv, BeforeInsert,
         InTopicCall, IndexesAgreeOnLive, DanglingOnlyAfterRace, InCall
<1> QED
  BY <1>1, <1>2, <1>3, <1>4, <1>5 DEF IInv

\* unregister detaches from the user, who is the only one that lists it.
LEMMA TeardownUserKeeps == ASSUME IInv, NEW c \in Conns, TeardownUser(c) PROVE IInv'
<1> USE HubConstantsAssumption DEF TeardownUser, TeardownTo, connVars, indexVars,
        sessionVars, publisherVars, historyVars
<1>a. /\ UNCHANGED <<live, subs, queue, session, arg, todo, slow, evicted, raced>>
      /\ UNCHANGED <<topics, topicKeys, userKeys>>
      /\ teardown[c].at = "topics" /\ teardown[c].todo = {}
  BY DEF TeardownTo
<1>b. /\ \A d \in Conns : d # c => teardown'[d] = teardown[d]
      /\ teardown'[c].at \in {"pruneUser", "done"} /\ teardown'[c].todo = {}
      /\ UserOf[c] = Anonymous => teardown'[c].at = "done"
      /\ teardown' \in [Conns -> [at: TeardownState,
                                  by: Conns \cup Publishers \cup {Nobody},
                                  todo: SUBSET Topics,
                                  topic: Topics \cup {NoTopic}]]
  <2> HIDE DEF TeardownTo
  <2> QED
    BY TeardownMoves DEF TeardownState
<1>c. /\ users' \in [Users -> SUBSET Conns]
      /\ \A u \in Users, d \in Conns :
            d \in users'[u] <=> d \in users[u] /\ ~(d = c /\ u = UserOf[c])
  <2>1. CASE UserOf[c] = Anonymous
    BY <2>1 DEF IInv, TypeOK
  <2>2. CASE UserOf[c] # Anonymous
    <3>1. users' = [users EXCEPT ![UserOf[c]] = @ \ {c}]
      BY <2>2
    <3>2. users \in [Users -> SUBSET Conns] /\ UserOf[c] \in Users
      BY <2>2 DEF IInv, TypeOK
    <3> HIDE DEF TeardownUser, TeardownTo
    <3> QED
      BY <3>1, <3>2
  <2> QED
    BY <2>1, <2>2
<1> HIDE DEF TeardownUser, TeardownTo
<1>1. TypeOK'
  BY <1>a, <1>b, <1>c DEF IInv, TypeOK, SessionState, TeardownState
<1>2. ASSUME NEW d \in Conns PROVE ConnInv(d)'
  BY <1>a, <1>b, <1>c DEF IInv, TypeOK, ConnInv, RegistryInv, CallInv, TeardownInv, BeforeInsert,
         InTopicCall
<1>3. IndexesAgreeOnLive'
  BY <1>a, <1>b, <1>c DEF IInv, TypeOK, ConnInv, RegistryInv, CallInv, BeforeInsert, InTopicCall,
         IndexesAgreeOnLive, InCall
<1>4. NoIdleTopics'
  BY <1>a, <1>b, <1>c DEF IInv, TypeOK, ConnInv, RegistryInv, InTopicCall, NoIdleTopics, InCall
<1>5. DanglingOnlyAfterRace'
  <2>1. \A t \in Topics : \A d \in topics'[t] \ (live' \cup raced') :
           t \in teardown'[d].todo \/ InCall(d, "detaching", t)'
    BY <1>a, <1>b DEF IInv, TypeOK, DanglingOnlyAfterRace, InCall
  <2>2. ASSUME NEW u \in Users, NEW d \in users'[u] \ (live' \cup raced')
        PROVE  teardown'[d].at \in {"topics", "prune"}
    <3>1. d \in Conns /\ d \in users[u] /\ ~(d = c /\ u = UserOf[c])
      BY <1>c
    <3>2. u = UserOf[d]
      BY <3>1 DEF IInv, ConnInv, TeardownInv
    <3> QED
      BY <3>1, <3>2, <1>a, <1>b DEF IInv, DanglingOnlyAfterRace
  <2> QED
    BY <2>1, <2>2 DEF DanglingOnlyAfterRace
<1> QED
  BY <1>1, <1>2, <1>3, <1>4, <1>5 DEF IInv

\* unregister drops the user's entry only if it is empty.
LEMMA TeardownPruneUserKeeps == ASSUME IInv, NEW c \in Conns, TeardownPruneUser(c) PROVE IInv'
<1> USE HubConstantsAssumption DEF TeardownPruneUser, TeardownTo, connVars, indexVars,
        sessionVars, publisherVars, historyVars
<1>1. TypeOK'
  <2>1. /\ live' \subseteq Conns /\ subs' \in [Conns -> SUBSET Topics]
        /\ queue' \in [Conns -> 0 .. SendBuffer]
    BY DEF IInv, TypeOK
  <2>2. /\ topics' \in [Topics -> SUBSET Conns] /\ topicKeys' \subseteq Topics
        /\ users' \in [Users -> SUBSET Conns] /\ userKeys' \subseteq Users
    BY DEF IInv, TypeOK, ConnInv, TeardownInv
  <2>3. /\ session' \in [Conns -> SessionState]
        /\ arg' \in [Conns -> Topics \cup {NoTopic}]
    BY DEF IInv, TypeOK
  <2>4. teardown' \in [Conns -> [at: TeardownState,
                               by: Conns \cup Publishers \cup {Nobody},
                               todo: SUBSET Topics,
                               topic: Topics \cup {NoTopic}]]
    BY TeardownMoves DEF TeardownState
  <2>5. /\ todo' \in [Publishers -> SUBSET Conns] /\ slow' \in [Publishers -> SUBSET Conns]
        /\ evicted' \subseteq Conns /\ raced' \subseteq evicted'
    BY DEF IInv, TypeOK
  <2> QED
    BY <2>1, <2>2, <2>3, <2>4, <2>5 DEF TypeOK
<1>2. ASSUME NEW d \in Conns PROVE ConnInv(d)'
  BY DEF IInv, TypeOK, ConnInv, RegistryInv, CallInv, TeardownInv, BeforeInsert,
         InTopicCall
<1>3. IndexesAgreeOnLive'
  BY DEF IInv, TypeOK, ConnInv, RegistryInv, CallInv, BeforeInsert, InTopicCall,
         IndexesAgreeOnLive, InCall
<1>4. NoIdleTopics'
  BY DEF IInv, TypeOK, ConnInv, RegistryInv, InTopicCall, NoIdleTopics, InCall
<1>5. DanglingOnlyAfterRace'
  BY DEF IInv, TypeOK, ConnInv, RegistryInv, CallInv, TeardownInv, BeforeInsert,
         InTopicCall, IndexesAgreeOnLive, DanglingOnlyAfterRace, InCall
<1> QED
  BY <1>1, <1>2, <1>3, <1>4, <1>5 DEF IInv

\* publish copies ids out of an index, all of them connections.
LEMMA PublishKeeps == ASSUME IInv, NEW p \in Publishers, NEW ids \in SUBSET Conns, Publish(p, ids) PROVE IInv'
<1> USE HubConstantsAssumption DEF Publish, connVars, indexVars,
        sessionVars, publisherVars, historyVars
<1>1. TypeOK'
  BY DEF IInv, TypeOK, SessionState, TeardownState
<1>2. ASSUME NEW d \in Conns PROVE ConnInv(d)'
  BY DEF IInv, TypeOK, ConnInv, RegistryInv, CallInv, TeardownInv, BeforeInsert,
         InTopicCall
<1>3. IndexesAgreeOnLive'
  BY DEF IInv, TypeOK, ConnInv, RegistryInv, CallInv, BeforeInsert, InTopicCall,
         IndexesAgreeOnLive, InCall
<1>4. NoIdleTopics'
  BY DEF IInv, TypeOK, ConnInv, RegistryInv, InTopicCall, NoIdleTopics, InCall
<1>5. DanglingOnlyAfterRace'
  BY DEF IInv, TypeOK, ConnInv, RegistryInv, CallInv, TeardownInv, BeforeInsert,
         InTopicCall, IndexesAgreeOnLive, DanglingOnlyAfterRace, InCall
<1> QED
  BY <1>1, <1>2, <1>3, <1>4, <1>5 DEF IInv

\* deliver hands a frame to a connection's queue while there is room.
LEMMA SendKeeps == ASSUME IInv, NEW p \in Publishers, NEW c \in Conns, Send(p, c) PROVE IInv'
<1> USE HubConstantsAssumption DEF Send, connVars, indexVars,
        sessionVars, publisherVars, historyVars
<1>1. TypeOK'
  <2>1. /\ queue' \in [Conns -> 0 .. SendBuffer]
        /\ todo' \in [Publishers -> SUBSET Conns] /\ slow' \in [Publishers -> SUBSET Conns]
    <3>1. SendBuffer \in Nat /\ queue[c] \in 0 .. SendBuffer
      BY DEF IInv, TypeOK
    <3>2. /\ queue \in [Conns -> 0 .. SendBuffer]
          /\ todo \in [Publishers -> SUBSET Conns] /\ slow \in [Publishers -> SUBSET Conns]
      BY DEF IInv, TypeOK
    <3>3. CASE c \notin live
      BY <3>2, <3>3
    <3>4. CASE c \in live /\ queue[c] < SendBuffer
      <4>a. ~(c \notin live) /\ ~(c \in live /\ queue[c] >= SendBuffer)
        BY <3>1, <3>4
      <4>1. queue' = [queue EXCEPT ![c] = queue[c] + 1] /\ UNCHANGED slow
        BY <3>4, <4>a, Zenon
      <4>2. queue[c] + 1 \in 0 .. SendBuffer
        BY <3>1, <3>4
      <4>3. todo' = [todo EXCEPT ![p] = todo[p] \ {c}]
        OBVIOUS
      <4> HIDE DEF Send
      <4>4. queue' \in [Conns -> 0 .. SendBuffer]
        BY <3>2, <4>1, <4>2
      <4> QED
        BY <3>2, <4>1, <4>3, <4>4
    <3>5. CASE c \in live /\ queue[c] >= SendBuffer
      BY <3>1, <3>2, <3>5
    <3> QED
      BY <3>1, <3>3, <3>4, <3>5
  <2> QED
    BY <2>1 DEF IInv, TypeOK
<1>2. ASSUME NEW d \in Conns PROVE ConnInv(d)'
  BY DEF IInv, TypeOK, ConnInv, RegistryInv, CallInv, TeardownInv, BeforeInsert,
         InTopicCall
<1>3. IndexesAgreeOnLive'
  BY DEF IInv, TypeOK, ConnInv, RegistryInv, CallInv, BeforeInsert, InTopicCall,
         IndexesAgreeOnLive, InCall
<1>4. NoIdleTopics'
  BY DEF IInv, TypeOK, ConnInv, RegistryInv, InTopicCall, NoIdleTopics, InCall
<1>5. DanglingOnlyAfterRace'
  BY DEF IInv, TypeOK, ConnInv, RegistryInv, CallInv, TeardownInv, BeforeInsert,
         InTopicCall, IndexesAgreeOnLive, DanglingOnlyAfterRace, InCall
<1> QED
  BY <1>1, <1>2, <1>3, <1>4, <1>5 DEF IInv

\* deliver evicts a slow connection; if its session was inside register or
\* subscribe, it is one of the raced.
LEMMA EvictKeeps == ASSUME IInv, NEW p \in Publishers, NEW c \in Conns, Evict(p, c) PROVE IInv'
<1> USE HubConstantsAssumption DEF Evict, Remove, connVars, indexVars,
        sessionVars, publisherVars, historyVars
<1>1. TypeOK'
  <2>1. /\ live' \subseteq Conns /\ subs' \in [Conns -> SUBSET Topics]
        /\ queue' \in [Conns -> 0 .. SendBuffer]
    BY DEF IInv, TypeOK
  <2>2. /\ topics' \in [Topics -> SUBSET Conns] /\ topicKeys' \subseteq Topics
        /\ users' \in [Users -> SUBSET Conns] /\ userKeys' \subseteq Users
    BY DEF IInv, TypeOK
  <2>3. /\ session' \in [Conns -> SessionState]
        /\ arg' \in [Conns -> Topics \cup {NoTopic}]
    BY DEF IInv, TypeOK
  <2>4. teardown' \in [Conns -> [at: TeardownState,
                               by: Conns \cup Publishers \cup {Nobody},
                               todo: SUBSET Topics,
                               topic: Topics \cup {NoTopic}]]
    BY DEF IInv, TypeOK, TeardownState
  <2>5. /\ todo' \in [Publishers -> SUBSET Conns] /\ slow' \in [Publishers -> SUBSET Conns]
        /\ evicted' \subseteq Conns /\ raced' \subseteq evicted'
    BY DEF IInv, TypeOK
  <2> QED
    BY <2>1, <2>2, <2>3, <2>4, <2>5 DEF TypeOK
<1>2. ASSUME NEW d \in Conns PROVE ConnInv(d)'
  <2>1. RegistryInv(d)'
    BY DEF IInv, TypeOK, ConnInv, RegistryInv, CallInv, TeardownInv, BeforeInsert,
           InTopicCall
  <2>2. CallInv(d)'
    BY DEF IInv, TypeOK, ConnInv, RegistryInv, CallInv, TeardownInv, BeforeInsert,
           InTopicCall
  <2>3. TeardownInv(d)'
    BY DEF IInv, TypeOK, ConnInv, RegistryInv, CallInv, TeardownInv, BeforeInsert,
           InTopicCall
  <2> QED
    BY <2>1, <2>2, <2>3 DEF ConnInv
<1>3. IndexesAgreeOnLive'
  BY DEF IInv, TypeOK, ConnInv, RegistryInv, CallInv, BeforeInsert, InTopicCall,
         IndexesAgreeOnLive, InCall
<1>4. NoIdleTopics'
  BY DEF IInv, TypeOK, ConnInv, RegistryInv, InTopicCall, NoIdleTopics, InCall
<1>5. DanglingOnlyAfterRace'
  <2>1. CASE c \notin live
    BY <2>1 DEF IInv, TypeOK, DanglingOnlyAfterRace, InCall
  <2>2. CASE c \in live
    <3>1. ASSUME NEW t \in Topics, NEW d \in topics'[t] \ (live' \cup raced')
          PROVE  t \in teardown'[d].todo \/ InCall(d, "detaching", t)'
      <4>1. CASE d = c
        BY <2>2, <4>1 DEF IInv, TypeOK, IndexesAgreeOnLive, InCall
      <4>2. CASE d # c
        BY <2>2, <4>2 DEF IInv, TypeOK, DanglingOnlyAfterRace, InCall
      <4> QED
        BY <4>1, <4>2
    <3>2. ASSUME NEW u \in Users, NEW d \in users'[u] \ (live' \cup raced')
          PROVE  teardown'[d].at \in {"topics", "prune"}
      BY <2>2 DEF IInv, TypeOK, DanglingOnlyAfterRace
    <3> QED
      BY <3>1, <3>2 DEF DanglingOnlyAfterRace
  <2> QED
    BY <2>1, <2>2
<1> QED
  BY <1>1, <1>2, <1>3, <1>4, <1>5 DEF IInv

\* The session takes a frame out of its queue.
LEMMA DrainKeeps == ASSUME IInv, NEW c \in Conns, Drain(c) PROVE IInv'
<1> USE HubConstantsAssumption DEF Drain, connVars, indexVars,
        sessionVars, publisherVars, historyVars
<1>1. TypeOK'
  BY DEF IInv, TypeOK, SessionState, TeardownState
<1>2. ASSUME NEW d \in Conns PROVE ConnInv(d)'
  BY DEF IInv, TypeOK, ConnInv, RegistryInv, CallInv, TeardownInv, BeforeInsert,
         InTopicCall
<1>3. IndexesAgreeOnLive'
  BY DEF IInv, TypeOK, ConnInv, RegistryInv, CallInv, BeforeInsert, InTopicCall,
         IndexesAgreeOnLive, InCall
<1>4. NoIdleTopics'
  BY DEF IInv, TypeOK, ConnInv, RegistryInv, InTopicCall, NoIdleTopics, InCall
<1>5. DanglingOnlyAfterRace'
  BY DEF IInv, TypeOK, ConnInv, RegistryInv, CallInv, TeardownInv, BeforeInsert,
         InTopicCall, IndexesAgreeOnLive, DanglingOnlyAfterRace, InCall
<1> QED
  BY <1>1, <1>2, <1>3, <1>4, <1>5 DEF IInv

-----------------------------------------------------------------------------
\* Nothing is registered and no index has an entry in the initial state.
LEMMA InvInit == Init => IInv
<1> SUFFICES ASSUME Init PROVE IInv
  OBVIOUS
<1> USE HubConstantsAssumption DEF Init
<1>1. TypeOK
  BY DEF TypeOK, SessionState, TeardownState
<1>2. ASSUME NEW c \in Conns PROVE ConnInv(c)
  BY DEF ConnInv, RegistryInv, CallInv, TeardownInv, BeforeInsert, InTopicCall
<1>3. IndexesAgreeOnLive /\ NoIdleTopics /\ DanglingOnlyAfterRace
  BY DEF IndexesAgreeOnLive, NoIdleTopics, DanglingOnlyAfterRace
<1> QED
  BY <1>1, <1>2, <1>3 DEF IInv

\* Every step of every thread keeps the invariant.
LEMMA InvStep == IInv /\ [Next]_vars => IInv'
<1> SUFFICES ASSUME IInv, [Next]_vars PROVE IInv'
  OBVIOUS
<1>1. ASSUME NEW c \in Conns, SessionStep(c) PROVE IInv'
  BY <1>1, CheckLimitKeeps, SubscribeConnectionKeeps, UnsubscribeConnectionKeeps,
     CloseSessionKeeps, DrainKeeps
     DEF SessionStep
<1>2. ASSUME NEW c \in Conns, CallStep(c) PROVE IInv'
  BY <1>2, InsertConnectionKeeps, InsertUserKeeps, SubscribeTopicKeeps,
     UnsubscribeTopicKeeps, UnsubscribePruneKeeps, SessionEndsKeeps
     DEF CallStep
<1>3. ASSUME NEW c \in Conns, TeardownStep(c) PROVE IInv'
  BY <1>3, TeardownDetachKeeps, TeardownPruneKeeps, TeardownUserKeeps,
     TeardownPruneUserKeeps
     DEF TeardownStep
<1>4. ASSUME NEW p \in Publishers, PublisherStep(p) PROVE IInv'
  <2>1. /\ \A t \in topicKeys : topics[t] \in SUBSET Conns
        /\ \A u \in userKeys : users[u] \in SUBSET Conns
        /\ live \in SUBSET Conns
        /\ \A c \in Conns : {c} \in SUBSET Conns
    BY DEF IInv, TypeOK
  <2> QED
    BY <1>4, <2>1, PublishKeeps DEF PublisherStep
<1>5. ASSUME NEW p \in Publishers, DeliverStep(p) PROVE IInv'
  BY <1>5, SendKeeps, EvictKeeps DEF DeliverStep
<1>6. CASE UNCHANGED vars
  <2> USE <1>6 DEF vars, connVars, indexVars, sessionVars, publisherVars, historyVars
  <2>1. TypeOK' /\ \A c \in Conns : ConnInv(c)'
    BY DEF IInv, TypeOK, ConnInv, RegistryInv, CallInv, TeardownInv, BeforeInsert,
           InTopicCall
  <2>2. IndexesAgreeOnLive' /\ NoIdleTopics' /\ DanglingOnlyAfterRace'
    BY DEF IInv, IndexesAgreeOnLive, NoIdleTopics, DanglingOnlyAfterRace, InCall
  <2> QED
    BY <2>1, <2>2 DEF IInv
<1> QED
  BY <1>1, <1>2, <1>3, <1>4, <1>5, <1>6 DEF Next

\* Every reachable state satisfies the inductive invariant, for any number of
\* sessions and publishers and any limits.
THEOREM Invariant == Spec => []IInv
BY InvInit, InvStep, PTL DEF Spec

\* Every variable keeps its type; above all no outbound queue (hub.rs: the
\* channel of a connection) ever holds more than websocket.send_buffer frames.
THEOREM TypeCorrect == Spec => []TypeOK
<1>1. IInv => TypeOK
  BY DEF IInv
<1> QED
  BY <1>1, Invariant, PTL

\* subscribe, unsubscribe, register and unregister (hub.rs) keep the indexes by
\* topic and by user in agreement with every live connection, although each of
\* them touches the maps one after the other.
THEOREM IndexesAgreeOnLiveHolds == Spec => []IndexesAgreeOnLive
<1>1. IInv => IndexesAgreeOnLive
  BY DEF IInv
<1> QED
  BY <1>1, Invariant, PTL

\* detach_from_topic and unregister (hub.rs) leave no idle topic, and no entry of
\* a connection that is gone but those of an eviction that struck its session
\* inside register or subscribe.
THEOREM NothingLeftBehindHolds == Spec => []NothingLeftBehind
<1>1. IInv => NothingLeftBehind
  BY DEF IInv, NothingLeftBehind
<1> QED
  BY <1>1, Invariant, PTL

=============================================================================
