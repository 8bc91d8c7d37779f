------------------------------- MODULE WsHub -------------------------------
(***************************************************************************)
(* The WebSocket hub (infra/ws/hub.rs): the registry of live connections   *)
(* and its two reverse indexes, by topic and by user.  Each index is a     *)
(* concurrent map of its own; a method touches them one after the other    *)
(* and holds no lock in between, so every access below is one action.      *)
(*                                                                         *)
(* Two kinds of threads use the hub.  The session task of a connection     *)
(* registers it, (un)subscribes it and unregisters it, one call at a time. *)
(* Publishers (HTTP handlers, jobs, the cluster bridge) fan frames out and *)
(* evict the connections whose outbound queue is full.                     *)
(***************************************************************************)
EXTENDS Integers, FiniteSets

CONSTANTS
    Conns,          \* connection ids: each socket gets a fresh Uuid
    Publishers,     \* threads that may be inside a publish at the same time
    Topics,
    Users,
    UserOf,         \* the user each connection authenticated as, or Anonymous
    Anonymous,
    NoTopic,
    Nobody,
    MaxConnections, \* websocket.max_connections, 0 for no limit
    MaxTopics,      \* websocket.max_topics_per_connection, 0 for no limit
    SendBuffer      \* websocket.send_buffer

ASSUME HubConstantsAssumption ==
    /\ MaxConnections \in Nat /\ MaxTopics \in Nat
    /\ SendBuffer \in Nat \ {0}
    /\ Anonymous \notin Users /\ NoTopic \notin Topics
    /\ Nobody \notin Conns \cup Publishers
    /\ Conns \cap Publishers = {}
    /\ UserOf \in [Conns -> Users \cup {Anonymous}]

VARIABLES
    live,       \* keys of the connections map
    subs,       \* Connection::topics of each entry
    queue,      \* frames in the outbound channel of each connection
    topics,     \* topic -> subscribers
    topicKeys,  \* keys of the topics map
    users,      \* user -> connections
    userKeys,   \* keys of the users map
    session,    \* where each session task is
    arg,        \* the topic its current call is about
    teardown,   \* the unregister call that removed each connection
    todo,       \* ids a publisher still has to send its frame to
    slow,       \* ids it found full and will evict
    evicted,    \* history: connections an eviction removed
    raced       \* history: those removed while their session was in a call

connVars == <<live, subs, queue>>
indexVars == <<topics, topicKeys, users, userKeys>>
sessionVars == <<session, arg>>
publisherVars == <<todo, slow>>
historyVars == <<evicted, raced>>
vars == <<connVars, indexVars, sessionVars, teardown, publisherVars,
          historyVars>>

(***************************************************************************)
(* "new"         the handshake has not reached the hub                     *)
(* "registering" register has passed the limit check                       *)
(* "indexing"    register has inserted the connection, not yet the user    *)
(* "open"        in the session loop, inside no call to the hub            *)
(* "subscribing" subscribe has recorded the topic on the connection        *)
(* "detaching"   unsubscribe has erased it there, not yet in topics        *)
(* "pruning"     unsubscribe is about to drop the topic if it is empty     *)
(* "closing"     inside its final unregister                               *)
(* "gone"        the session task has ended, or was refused                *)
(***************************************************************************)
SessionState == {"new", "registering", "indexing", "open", "subscribing",
                 "detaching", "pruning", "closing", "gone"}

(***************************************************************************)
(* unregister, after it removed the connection: "topics" goes through the  *)
(* topics of the removed entry, "prune" drops one if empty, "user" and     *)
(* "pruneUser" do the same for the user.                                   *)
(***************************************************************************)
TeardownState == {"none", "topics", "prune", "user", "pruneUser", "done"}

Init ==
    /\ live = {}
    /\ subs = [c \in Conns |-> {}]
    /\ queue = [c \in Conns |-> 0]
    /\ topics = [t \in Topics |-> {}]
    /\ topicKeys = {}
    /\ users = [u \in Users |-> {}]
    /\ userKeys = {}
    /\ session = [c \in Conns |-> "new"]
    /\ arg = [c \in Conns |-> NoTopic]
    /\ teardown = [c \in Conns |-> [at |-> "none", by |-> Nobody,
                                    todo |-> {}, topic |-> NoTopic]]
    /\ todo = [p \in Publishers |-> {}]
    /\ slow = [p \in Publishers |-> {}]
    /\ evicted = {}
    /\ raced = {}

\* the thread is inside an unregister call that it has to finish first
Busy(x) == \E c \in Conns : /\ teardown[c].by = x
                            /\ teardown[c].at \notin {"none", "done"}

Goto(c, state, topic) ==
    /\ session' = [session EXCEPT ![c] = state]
    /\ arg' = [arg EXCEPT ![c] = topic]

-----------------------------------------------------------------------------
(* register                                                                *)

CheckLimit(c) ==
    /\ session[c] = "new"
    /\ IF MaxConnections > 0 /\ Cardinality(live) >= MaxConnections
       THEN Goto(c, "gone", NoTopic)
       ELSE Goto(c, "registering", NoTopic)
    /\ UNCHANGED <<connVars, indexVars, teardown, publisherVars, historyVars>>

InsertConnection(c) ==
    /\ session[c] = "registering"
    /\ live' = live \cup {c}
    /\ Goto(c, IF UserOf[c] = Anonymous THEN "open" ELSE "indexing", NoTopic)
    /\ UNCHANGED <<subs, queue, indexVars, teardown, publisherVars, historyVars>>

InsertUser(c) ==
    /\ session[c] = "indexing"
    /\ users' = [users EXCEPT ![UserOf[c]] = @ \cup {c}]
    /\ userKeys' = userKeys \cup {UserOf[c]}
    /\ Goto(c, "open", NoTopic)
    /\ UNCHANGED <<connVars, topics, topicKeys, teardown, publisherVars, historyVars>>

-----------------------------------------------------------------------------
(* subscribe and unsubscribe                                               *)

AtTopicLimit(c, t) ==
    /\ MaxTopics > 0
    /\ t \notin subs[c]
    /\ Cardinality(subs[c]) >= MaxTopics

\* get_mut keeps the entry locked over the check and the insert; a connection
\* that is no longer registered, or at its limit, gets an error
SubscribeConnection(c, t) ==
    /\ session[c] = "open"
    /\ c \in live
    /\ ~AtTopicLimit(c, t)
    /\ subs' = [subs EXCEPT ![c] = @ \cup {t}]
    /\ Goto(c, "subscribing", t)
    /\ UNCHANGED <<live, queue, indexVars, teardown, publisherVars, historyVars>>

SubscribeTopic(c) ==
    /\ session[c] = "subscribing"
    /\ topics' = [topics EXCEPT ![arg[c]] = @ \cup {c}]
    /\ topicKeys' = topicKeys \cup {arg[c]}
    /\ Goto(c, "open", NoTopic)
    /\ UNCHANGED <<connVars, users, userKeys, teardown, publisherVars, historyVars>>

UnsubscribeConnection(c, t) ==
    /\ session[c] = "open"
    /\ subs' = IF c \in live THEN [subs EXCEPT ![c] = @ \ {t}] ELSE subs
    /\ Goto(c, "detaching", t)
    /\ UNCHANGED <<live, queue, indexVars, teardown, publisherVars, historyVars>>

\* detach_from_topic, first half: get_mut and remove
DetachFrom(t, c) ==
    /\ topics' = [topics EXCEPT ![t] = @ \ {c}]
    /\ UNCHANGED topicKeys

\* Mutant: the topic is dropped without a second look at its subscribers.
PruneAlways(t) ==
    /\ topicKeys' = topicKeys \ {t}
    /\ topics' = [topics EXCEPT ![t] = {}]

\* detach_from_topic, second half: remove_if the set is empty, atomically
Prune(t) ==
    /\ topicKeys' = IF topics[t] = {} THEN topicKeys \ {t} ELSE topicKeys
    /\ UNCHANGED topics

UnsubscribeTopic(c) ==
    /\ session[c] = "detaching"
    /\ DetachFrom(arg[c], c)
    /\ Goto(c, "pruning", arg[c])
    /\ UNCHANGED <<connVars, users, userKeys, teardown, publisherVars, historyVars>>

UnsubscribePrune(c) ==
    /\ session[c] = "pruning"
    /\ Prune(arg[c])
    /\ Goto(c, "open", NoTopic)
    /\ UNCHANGED <<connVars, users, userKeys, teardown, publisherVars, historyVars>>

-----------------------------------------------------------------------------
(* unregister, called by the session when its loop ends and by deliver     *)

\* Mutant: the subscriptions of the removed connection are not detached.
RemoveWithoutTopics(c, by) ==
    /\ c \in live
    /\ live' = live \ {c}
    /\ subs' = [subs EXCEPT ![c] = {}]
    /\ teardown' = [teardown EXCEPT ![c] =
                      [at |-> "topics", by |-> by, todo |-> {},
                       topic |-> NoTopic]]

\* connections.remove: of several callers one gets the entry, the others return
Remove(c, by) ==
    /\ c \in live
    /\ live' = live \ {c}
    /\ subs' = [subs EXCEPT ![c] = {}]
    /\ teardown' = [teardown EXCEPT ![c] =
                      [at |-> "topics", by |-> by, todo |-> subs[c],
                       topic |-> NoTopic]]

\* the loop ends: the client left, timed out, or the hub dropped the sender
\* and every frame already queued has been sent
CloseSession(c) ==
    /\ session[c] = "open"
    /\ IF c \in live THEN Remove(c, c) ELSE UNCHANGED <<live, subs, teardown>>
    /\ Goto(c, "closing", NoTopic)
    /\ UNCHANGED <<queue, indexVars, publisherVars, historyVars>>

SessionEnds(c) ==
    /\ session[c] = "closing"
    /\ ~Busy(c)
    /\ Goto(c, "gone", NoTopic)
    /\ UNCHANGED <<connVars, indexVars, teardown, publisherVars, historyVars>>

TeardownTo(c, state, left, topic) ==
    /\ teardown' = [teardown EXCEPT ![c].at = state, ![c].todo = left,
                                    ![c].topic = topic]
    /\ UNCHANGED <<connVars, sessionVars, publisherVars, historyVars>>

TeardownDetach(c) ==
    /\ teardown[c].at = "topics"
    /\ \E t \in teardown[c].todo :
          /\ DetachFrom(t, c)
          /\ TeardownTo(c, "prune", teardown[c].todo \ {t}, t)
    /\ UNCHANGED <<users, userKeys>>

TeardownPrune(c) ==
    /\ teardown[c].at = "prune"
    /\ Prune(teardown[c].topic)
    /\ TeardownTo(c, "topics", teardown[c].todo, NoTopic)
    /\ UNCHANGED <<users, userKeys>>

TeardownUser(c) ==
    /\ teardown[c].at = "topics"
    /\ teardown[c].todo = {}
    /\ IF UserOf[c] = Anonymous
       THEN /\ TeardownTo(c, "done", {}, NoTopic)
            /\ UNCHANGED users
       ELSE /\ users' = [users EXCEPT ![UserOf[c]] = @ \ {c}]
            /\ TeardownTo(c, "pruneUser", {}, NoTopic)
    /\ UNCHANGED <<topics, topicKeys, userKeys>>

TeardownPruneUser(c) ==
    /\ teardown[c].at = "pruneUser"
    /\ userKeys' = IF users[UserOf[c]] = {} THEN userKeys \ {UserOf[c]}
                   ELSE userKeys
    /\ TeardownTo(c, "done", {}, NoTopic)
    /\ UNCHANGED <<topics, topicKeys, users>>

-----------------------------------------------------------------------------
(* publish, publish_to_user, broadcast: copy the ids, then deliver         *)

Idle(p) == todo[p] = {} /\ slow[p] = {} /\ ~Busy(p)

Publish(p, ids) ==
    /\ Idle(p)
    /\ todo' = [todo EXCEPT ![p] = ids]
    /\ UNCHANGED <<connVars, indexVars, sessionVars, teardown, slow, historyVars>>

\* Mutant: the outbound queue is unbounded.
SendUnbounded(p, c) ==
    /\ c \in todo[p]
    /\ todo' = [todo EXCEPT ![p] = @ \ {c}]
    /\ queue' = [queue EXCEPT ![c] = IF c \in live THEN @ + 1 ELSE @]
    /\ UNCHANGED <<live, subs, slow, indexVars, sessionVars, teardown, historyVars>>

\* one try_send of deliver's loop, into a bounded queue
Send(p, c) ==
    /\ c \in todo[p]
    /\ todo' = [todo EXCEPT ![p] = @ \ {c}]
    /\ CASE c \notin live -> UNCHANGED <<queue, slow>>
         [] c \in live /\ queue[c] < SendBuffer ->
               /\ queue' = [queue EXCEPT ![c] = @ + 1]
               /\ UNCHANGED slow
         [] c \in live /\ queue[c] >= SendBuffer ->
               /\ slow' = [slow EXCEPT ![p] = @ \cup {c}]
               /\ UNCHANGED queue
    /\ UNCHANGED <<live, subs, indexVars, sessionVars, teardown, historyVars>>

\* after the loop: disconnect a slow client
Evict(p, c) ==
    /\ todo[p] = {}
    /\ ~Busy(p)
    /\ c \in slow[p]
    /\ slow' = [slow EXCEPT ![p] = @ \ {c}]
    /\ IF c \in live
       THEN /\ Remove(c, p)
            /\ evicted' = evicted \cup {c}
            /\ raced' = IF session[c] \in {"indexing", "subscribing"}
                        THEN raced \cup {c} ELSE raced
       ELSE UNCHANGED <<live, subs, teardown, historyVars>>
    /\ UNCHANGED <<queue, indexVars, sessionVars, todo>>

\* the session takes a frame out of its queue and writes it to the socket
Drain(c) ==
    /\ session[c] = "open"
    /\ queue[c] > 0
    /\ queue' = [queue EXCEPT ![c] = @ - 1]
    /\ UNCHANGED <<live, subs, indexVars, sessionVars, teardown,
                   publisherVars, historyVars>>

-----------------------------------------------------------------------------
\* steps of a session that is inside a call, which nothing can keep waiting
CallStep(c) ==
    \/ InsertConnection(c) \/ InsertUser(c)
    \/ SubscribeTopic(c) \/ UnsubscribeTopic(c) \/ UnsubscribePrune(c)
    \/ SessionEnds(c)

TeardownStep(c) ==
    TeardownDetach(c) \/ TeardownPrune(c) \/ TeardownUser(c) \/ TeardownPruneUser(c)

SessionStep(c) ==
    \/ CheckLimit(c)
    \/ \E t \in Topics : SubscribeConnection(c, t) \/ UnsubscribeConnection(c, t)
    \/ CloseSession(c)
    \/ Drain(c)

DeliverStep(p) == \E c \in Conns : Send(p, c) \/ Evict(p, c)

PublisherStep(p) ==
    \/ \E t \in topicKeys : Publish(p, topics[t])
    \/ \E u \in userKeys : Publish(p, users[u])
    \/ Publish(p, live)
    \/ \E c \in Conns : Publish(p, {c})

Next ==
    \/ \E c \in Conns : SessionStep(c) \/ CallStep(c) \/ TeardownStep(c)
    \/ \E p \in Publishers : PublisherStep(p) \/ DeliverStep(p)

Spec == Init /\ [][Next]_vars

-----------------------------------------------------------------------------
TypeOK ==
    /\ live \subseteq Conns
    /\ subs \in [Conns -> SUBSET Topics]
    /\ queue \in [Conns -> 0 .. SendBuffer]
    /\ topics \in [Topics -> SUBSET Conns] /\ topicKeys \subseteq Topics
    /\ users \in [Users -> SUBSET Conns] /\ userKeys \subseteq Users
    /\ session \in [Conns -> SessionState]
    /\ arg \in [Conns -> Topics \cup {NoTopic}]
    /\ teardown \in [Conns -> [at: TeardownState,
                               by: Conns \cup Publishers \cup {Nobody},
                               todo: SUBSET Topics,
                               topic: Topics \cup {NoTopic}]]
    /\ todo \in [Publishers -> SUBSET Conns]
    /\ slow \in [Publishers -> SUBSET Conns]
    /\ evicted \subseteq Conns /\ raced \subseteq evicted

InCall(c, state, t) == session[c] = state /\ arg[c] = t

\* The indexes agree with every live connection: outside the call that changes
\* it, a connection is listed under a topic exactly when it is subscribed to
\* it, and under its user; no concurrent subscribe, unsubscribe, unregister or
\* eviction of another connection hides it from a publish.
IndexesAgreeOnLive ==
    \A c \in live :
        /\ \A t \in Topics :
              /\ t \in subs[c] /\ ~InCall(c, "subscribing", t)
                    => c \in topics[t] /\ t \in topicKeys
              /\ c \in topics[t] => t \in subs[c] \/ InCall(c, "detaching", t)
        /\ UserOf[c] # Anonymous /\ session[c] # "indexing"
              => c \in users[UserOf[c]] /\ UserOf[c] \in userKeys

\* "dropping the topic once it is empty so idle topics do not accumulate": an
\* empty topic is in the map only while a thread is about to drop it, even
\* when several threads detach from it and others attach to it at once.
NoIdleTopics ==
    \A t \in topicKeys :
        topics[t] = {} =>
            \E c \in Conns : \/ InCall(c, "pruning", t)
                            \/ (teardown[c].at = "prune" /\ teardown[c].topic = t)

\* The only entries of a removed connection that stay in an index are those of
\* an eviction that struck while its session was inside register or subscribe.
DanglingOnlyAfterRace ==
    /\ \A t \in Topics : \A c \in topics[t] \ (live \cup raced) :
          t \in teardown[c].todo \/ InCall(c, "detaching", t)
    /\ \A u \in Users : \A c \in users[u] \ (live \cup raced) :
          teardown[c].at \in {"topics", "prune"}

\* Nothing accumulates in the indexes: neither idle topics nor, but for that one
\* race, entries of connections that are gone.
NothingLeftBehind == NoIdleTopics /\ DanglingOnlyAfterRace
=============================================================================
