----------------------------- MODULE WsSession ------------------------------
(***************************************************************************)
(* The life of one WebSocket connection: the handshake                     *)
(* (handlers/ws.rs), the session task (infra/ws/session.rs) with the       *)
(* application's policy (app/ws/policy.rs), its bounded outbound queue in  *)
(* the hub, and its peer.  The hub's calls are atomic here; module WsHub   *)
(* takes them apart.  A frame the session writes goes into the bounded     *)
(* channel of actix_ws, which the connection empties as fast as the client *)
(* reads: a write waits while the channel is full, and the session polls   *)
(* nothing else meanwhile.                                                 *)
(***************************************************************************)
EXTENDS Integers, FiniteSets

CONSTANTS
    Users, Anonymous,
    NoToken, BadToken,  \* no token; one that is malformed or expired
    Topics,
    Owner,          \* who may listen: Public, Members, a user, or Malformed
    OwnTopic,       \* user.<uuid> of each user; its uuid may be spelt in other ways
    Public, Members, Malformed,
    MaxTopics,      \* websocket.max_topics_per_connection, 0 for no limit
    SendBuffer,     \* websocket.send_buffer
    OutBuffer,      \* capacity of the channel to the socket (actix_ws)
    MaxInbox,       \* bound: client messages not yet read
    HeartbeatInterval,  \* websocket.heartbeat_interval_seconds
    ClientTimeout   \* websocket.client_timeout_seconds

ASSUME SessionConstantsAssumption ==
    /\ {SendBuffer, OutBuffer, MaxInbox, HeartbeatInterval, ClientTimeout} \subseteq Nat \ {0}
    /\ MaxTopics \in Nat
    /\ Owner \in [Topics -> Users \cup {Public, Members, Malformed}]
    /\ {Anonymous, NoToken, BadToken, Public, Members, Malformed} \cap Users = {}
    /\ NoToken # BadToken /\ Malformed \notin {Public, Members}
    /\ OwnTopic \in [Users -> Topics] /\ \A u \in Users : Owner[OwnTopic[u]] = u

VARIABLES
    offer,      \* the tokens the client presents, and the server's settings
    stage,      \* where the session task is
    who,        \* WsContext::user_id
    live,       \* the hub has the connection, and with it the sender
    subs,       \* topics it is subscribed to
    queue,      \* frames in the hub's outbound queue
    out,        \* frames in the channel to the socket
    client,     \* "up", "vanished" without a word, or "left"
    inbox,      \* client messages the session has not read
    idle,       \* time since last_seen
    wait        \* time until the ticker is due

hubVars == <<live, subs, queue>>
peerVars == <<client, inbox>>
timeVars == <<idle, wait>>
vars == <<offer, stage, who, hubVars, out, peerVars, timeVars>>

(***************************************************************************)
(* "new"      the upgrade request has not been handled                     *)
(* "connect"  registered, about to call on_connect                         *)
(* "welcome"  writing the welcome frame                                    *)
(* "open"     in the select                                                *)
(* "write"    writing a frame, then back to the select                     *)
(* "close"    unregistered, writing the close frame                        *)
(* "gone"     ended, or turned away                                        *)
(***************************************************************************)
Running == {"connect", "welcome", "open", "write"}
Stage == Running \cup {"new", "close", "gone"}

Tokens == Users \cup {NoToken, BadToken}
NoOffer == [header |-> NoToken, query |-> NoToken, require |-> FALSE, allow |-> FALSE]

\* idle is counted no further than where it stops to matter
IdleBound == ClientTimeout + HeartbeatInterval + 1

Init ==
    /\ offer \in [header: Tokens, query: Tokens,
                  require: BOOLEAN,     \* websocket.require_auth
                  allow: BOOLEAN]       \* websocket.allow_query_token
    /\ stage = "new" /\ who = Anonymous
    /\ live = FALSE /\ subs = {} /\ queue = 0
    /\ out = 0 /\ client = "up" /\ inbox = 0
    /\ idle = 0 /\ wait = HeartbeatInterval

-----------------------------------------------------------------------------
(* The handshake: resolve_identity, then register                          *)

\* the token that counts: a header hides the query parameter
Token == IF offer.header # NoToken THEN offer.header
         ELSE IF offer.allow THEN offer.query ELSE NoToken

\* Mutant: a token that does not verify counts as none.
AdmitsLeniently(token) == token \in Users \/ ~offer.require

Admits(token) == token \in Users \/ (token = NoToken /\ ~offer.require)

\* 401 without an identity, 503 from a hub that is full, else a session
Handshake ==
    /\ stage = "new"
    /\ offer' = NoOffer
    /\ \/ /\ Admits(Token)
          /\ who' = IF Token \in Users THEN Token ELSE Anonymous
          /\ live' = TRUE
          /\ stage' = "connect"
       \/ stage' = "gone" /\ UNCHANGED <<who, live>>
    /\ UNCHANGED <<subs, queue, out, peerVars, timeVars>>

\* on_connect: to its own topic, unless the hub has evicted it already
Connect ==
    /\ stage = "connect"
    /\ stage' = "welcome"
    /\ subs' = IF live /\ who # Anonymous THEN {OwnTopic[who]} ELSE {}
    /\ UNCHANGED <<offer, who, live, queue, out, peerVars, timeVars>>

-----------------------------------------------------------------------------
(* Writing: session.text, ping, pong and close                             *)

Unregister == live' = FALSE /\ subs' = {}

\* the session forgets what it no longer looks at
Forget == queue' = 0 /\ inbox' = 0 /\ idle' = 0 /\ wait' = HeartbeatInterval

\* Mutant: a welcome that cannot be sent ends the session as it is.
WelcomeFailsOnly ==
    /\ stage = "welcome" /\ client = "left"
    /\ stage' = "gone"
    /\ Forget
    /\ UNCHANGED <<offer, who, live, subs, out, client>>

WelcomeFails ==
    /\ stage = "welcome" /\ client = "left"
    /\ Unregister /\ Forget
    /\ stage' = "gone"
    /\ UNCHANGED <<offer, who, out, client>>

\* the loop is left: unregister, on_disconnect, then close
Leave ==
    /\ Unregister /\ Forget
    /\ stage' = "close"
    /\ UNCHANGED <<offer, who, out, client>>

WriteFails == stage = "write" /\ client = "left" /\ Leave

Blocked == stage \in {"welcome", "write", "close"} /\ client # "left" /\ out = OutBuffer

Write ==
    /\ stage \in {"welcome", "write"} /\ client # "left" /\ ~Blocked
    /\ out' = out + 1
    /\ stage' = "open"
    /\ UNCHANGED <<offer, who, hubVars, peerVars, timeVars>>

Close ==
    /\ stage = "close" /\ ~Blocked
    /\ stage' = "gone"
    /\ out' = 0
    /\ UNCHANGED <<offer, who, hubVars, peerVars, timeVars>>

-----------------------------------------------------------------------------
(* The branches of the select                                              *)

\* Mutant: any user may listen to any user's topic.
MaySubscribeLoosely(t) ==
    \/ Owner[t] = Public
    \/ Owner[t] # Malformed /\ who # Anonymous

\* authorize_subscribe
MaySubscribe(t) ==
    \/ Owner[t] = Public
    \/ Owner[t] = Members /\ who # Anonymous
    \/ Owner[t] \in Users /\ Owner[t] = who

AtTopicLimit(t) == MaxTopics > 0 /\ t \notin subs /\ Cardinality(subs) >= MaxTopics

FromHub ==
    /\ stage = "open" /\ queue > 0
    /\ queue' = queue - 1
    /\ stage' = "write"
    /\ UNCHANGED <<offer, who, live, subs, out, peerVars, timeVars>>

\* Mutant: a closed outbound queue only disables its branch.
HubGoneIgnored == FALSE /\ UNCHANGED vars

\* the hub dropped the sender, and what it had queued has been written
HubGone == stage = "open" /\ queue = 0 /\ ~live /\ Leave

\* a message whatever it is proves that the client is there
Received ==
    /\ stage = "open" /\ inbox > 0
    /\ inbox' = inbox - 1
    /\ idle' = 0
    /\ UNCHANGED <<offer, who, live, queue, out, client, wait>>

\* handle_text; a refusal of the policy or the hub is answered, too
Subscribe(t) ==
    /\ Received
    /\ subs' = IF MaySubscribe(t) /\ live /\ ~AtTopicLimit(t) THEN subs \cup {t} ELSE subs
    /\ stage' = "write"

Unsubscribe(t) ==
    /\ Received
    /\ subs' = subs \ {t}
    /\ stage' = "write"

\* a publish (authorize_publish refuses them all), an application ping, text
\* that does not parse, a binary frame, a ping
Answer ==
    /\ Received
    /\ stage' = "write"
    /\ UNCHANGED subs

Pong ==
    /\ Received
    /\ UNCHANGED <<stage, subs>>

\* a close frame, or an error of the protocol
ClientCloses == stage = "open" /\ inbox > 0 /\ Leave

StreamEnds == stage = "open" /\ inbox = 0 /\ client = "left" /\ Leave

\* Mutant: the timeout is logged and the loop goes on.
TimesOutOnPaper ==
    /\ stage = "open" /\ wait = 0 /\ idle > ClientTimeout
    /\ wait' = HeartbeatInterval
    /\ UNCHANGED <<offer, stage, who, hubVars, out, peerVars, idle>>

TimesOut == stage = "open" /\ wait = 0 /\ idle > ClientTimeout /\ Leave

\* MissedTickBehavior::Delay: the next tick is a full interval after this one
Ping ==
    /\ stage = "open" /\ wait = 0 /\ idle <= ClientTimeout
    /\ wait' = HeartbeatInterval
    /\ stage' = "write"
    /\ UNCHANGED <<offer, who, hubVars, out, peerVars, idle>>

-----------------------------------------------------------------------------
(* The hub's side, the client's, and time                                  *)

\* deliver: a full queue evicts
Deliver ==
    /\ live
    /\ IF queue < SendBuffer THEN queue' = queue + 1 /\ UNCHANGED <<live, subs>>
       ELSE Unregister /\ UNCHANGED queue
    /\ UNCHANGED <<offer, stage, who, out, peerVars, timeVars>>

ClientSends ==
    /\ stage \in Running /\ client = "up" /\ inbox < MaxInbox
    /\ inbox' = inbox + 1
    /\ UNCHANGED <<offer, stage, who, hubVars, out, client, timeVars>>

ClientReads ==
    /\ client = "up" /\ out > 0
    /\ out' = out - 1
    /\ UNCHANGED <<offer, stage, who, hubVars, peerVars, timeVars>>

\* without a close frame, as behind a NAT; a connection the system gives up
\* later has left
ClientGoes ==
    /\ stage \in Running \cup {"close"}
    /\ \/ client = "up" /\ client' \in {"vanished", "left"}
       \/ client = "vanished" /\ client' = "left"
    /\ UNCHANGED <<offer, stage, who, hubVars, out, inbox, timeVars>>

Ready ==
    \/ stage = "connect"
    \/ stage \in {"welcome", "write", "close"} /\ ~Blocked
    \/ stage = "open" /\ (queue > 0 \/ ~live \/ inbox > 0 \/ wait = 0 \/ client = "left")

\* a task that can go on does so before the clock advances
Tick ==
    /\ stage \in Running \cup {"close"} /\ ~Ready
    /\ IF stage = "close" THEN UNCHANGED timeVars
       ELSE /\ idle' = IF idle < IdleBound THEN idle + 1 ELSE idle
            /\ wait' = IF wait = 0 THEN 0 ELSE wait - 1
    /\ UNCHANGED <<offer, stage, who, hubVars, out, peerVars>>

-----------------------------------------------------------------------------
FromClient ==
    \/ \E t \in Topics : Subscribe(t) \/ Unsubscribe(t)
    \/ Answer \/ Pong \/ ClientCloses \/ StreamEnds

Heartbeat == TimesOut \/ Ping

Writing == WelcomeFails \/ WriteFails \/ Write \/ Close

SessionStep == Connect \/ Writing \/ FromHub \/ HubGone \/ FromClient \/ Heartbeat

Next == Handshake \/ SessionStep \/ Deliver \/ ClientSends \/ ClientReads \/ ClientGoes \/ Tick

(***************************************************************************)
(* The runtime polls the task, and tokio::select! takes its ready branches *)
(* in random order, so none is passed over forever.  Nothing is assumed of *)
(* the client and of the publishers.                                       *)
(***************************************************************************)
Fairness ==
    /\ WF_vars(Connect) /\ WF_vars(Writing) /\ WF_vars(Tick)
    /\ SF_vars(FromHub) /\ SF_vars(HubGone) /\ SF_vars(Heartbeat) /\ SF_vars(FromClient)

Spec == Init /\ [][Next]_vars /\ Fairness

-----------------------------------------------------------------------------
TypeOK ==
    /\ offer \in [header: Tokens, query: Tokens, require: BOOLEAN, allow: BOOLEAN]
    /\ stage \in Stage /\ who \in Users \cup {Anonymous}
    /\ live \in BOOLEAN /\ subs \subseteq Topics /\ (MaxTopics > 0 => Cardinality(subs) <= MaxTopics)
    /\ queue \in 0 .. SendBuffer /\ out \in 0 .. OutBuffer /\ inbox \in 0 .. MaxInbox
    /\ client \in {"up", "vanished", "left"}
    /\ idle \in 0 .. IdleBound /\ wait \in 0 .. HeartbeatInterval

\* Whichever way a connection ends, none stays in the hub without a task that
\* will unregister it ("so no cleanup path is missed").
RegistrationsAreOwned == live => stage \in Running

\* The state as the code can have it: bounds of the two queues and of the
\* subscriptions, and no registration without its task.
SessionInv == TypeOK /\ RegistrationsAreOwned

\* Nobody is subscribed to another user's topic, and an anonymous client to
\* public ones only, whatever was asked for and however the hub's evictions
\* fall between the session's steps.
PrivateTopicsStayPrivate ==
    \A t \in subs : /\ Owner[t] \in Users => Owner[t] = who
                    /\ Owner[t] # Malformed
                    /\ who = Anonymous => Owner[t] = Public

\* A connection is admitted as the user of the token that counts; a token that
\* does not verify is never treated as none, nor replaced by the other one.
AdmittedAsAuthenticated ==
    [][~live /\ live' =>
          /\ offer.header # BadToken
          /\ offer.header = NoToken /\ offer.allow => offer.query # BadToken
          /\ who' = Anonymous => ~offer.require
          /\ who' # Anonymous => \/ who' = offer.header
                                 \/ offer.header = NoToken /\ offer.allow /\ who' = offer.query]_vars

\* A client that says nothing is not kept for more than a heartbeat beyond its
\* timeout, unless a write to it does not return.
ReapedInTime ==
    [][Tick => \/ Blocked \/ stage = "close"
               \/ idle < ClientTimeout + HeartbeatInterval]_vars

\* A session the hub has evicted ends, and so does one whose client vanished or
\* left, unless it waits forever in a write to a socket nobody reads.
DeadConnectionsEnd ==
    (stage \in Running /\ (~live \/ client # "up"))
        ~> (stage \in {"close", "gone"} \/ []Blocked)
=============================================================================
