---------------------------- MODULE UserRequests ----------------------------
(***************************************************************************)
(* The user endpoints (handlers/user.rs, services/user_service.rs) of      *)
(* several API instances over one database: each instance has an in-process*)
(* cache of its own (infra/cache/local.rs).  Every await of a request, on  *)
(* the database or the cache, is an action.  Requests with a body pass     *)
(* through the logging middleware (middleware/observability.rs), and the   *)
(* list endpoint pages through the table (http/pagination.rs).             *)
(***************************************************************************)
EXTENDS Integers, FiniteSets, Sequences

CONSTANTS
    Instances,      \* API processes
    Slots,          \* requests in flight at once; a slot is used again
    Ids,            \* user ids
    MaxVersion,     \* bound: how often a row is written
    Ttl,            \* cache.local.ttl_seconds
    Others,         \* rows of the table that no request here names
    Bodies,         \* the request bodies clients send
    BodyLimit,      \* 65536 in the middleware
    Pages, PerPages,    \* values of the query parameters, NoParam for none
    NoParam,
    DefaultPerPage, MaxPerPage, \* 20 and 100
    Modulus         \* where the u64 of the paging arithmetic wraps: 2^64

ASSUME RequestConstantsAssumption ==
    /\ IsFiniteSet(Ids)
    /\ MaxVersion \in Nat \ {0} /\ Others \in Nat /\ Ttl \in Nat \ {0}
    /\ BodyLimit \in Nat /\ Modulus \in Nat \ {0}
    /\ Pages \subseteq Nat \cup {NoParam} /\ PerPages \subseteq Nat \cup {NoParam}
    /\ DefaultPerPage \in 1 .. MaxPerPage /\ MaxPerPage \in Nat

(***************************************************************************)
(* A body is a document of so many units, sent in chunks; the last chunk   *)
(* may be an Error of the connection, before or after the document ends.   *)
(***************************************************************************)
Error == 0
Sound(body) == \A n \in DOMAIN body.chunks : body.chunks[n] # Error

Sum(chunks) ==
    LET s[n \in 0 .. Len(chunks)] == IF n = 0 THEN 0 ELSE s[n - 1] + chunks[n]
    IN  s[Len(chunks)]

ASSUME BodiesAssumption ==
    \A b \in Bodies : /\ b.document \in Nat /\ b.chunks \in Seq(Nat)
                      /\ Sound(b) => Sum(b.chunks) = b.document

VARIABLES
    row,        \* the users table: how often each row was written
    cache,      \* per instance and id: the version cached, and its age
    excused,    \* history: cached versions whose staleness has a known cause
    req,        \* the requests in flight
    logging     \* logging.http_request_logging.enabled

vars == <<row, cache, excused, req, logging>>

Unborn == 0 - 1
Deleted == 0
Versions == 1 .. MaxVersion

NoEntry == [v |-> 0, age |-> 0]
NoRequest == [at |-> "idle"]

(***************************************************************************)
(* A request is at the step it takes next:                                 *)
(* get:    "lookup" in the cache, "fetch" the row, "insert" into the cache *)
(* update: "body", "find" the row, "write" it, "reread" it (MySQL has no   *)
(*         RETURNING), "invalidate" the cache entry                        *)
(* delete: "delete" the row, "invalidate"                                  *)
(* create: "body", "create" the row; the id is new                         *)
(* list:   "count" the rows, "page" through them, "listed"                 *)
(***************************************************************************)
UserStage == {"lookup", "fetch", "find", "write", "reread", "invalidate", "delete", "create"}

Init ==
    /\ row = [u \in Ids |-> Unborn]
    /\ cache = [i \in Instances |-> [u \in Ids |-> NoEntry]]
    /\ excused = [i \in Instances |-> {}]
    /\ req = [r \in Slots |-> NoRequest]
    /\ logging \in BOOLEAN

Goto(r, at) == req' = [req EXCEPT ![r].at = at]
Become(r, next) == req' = [req EXCEPT ![r] = next]
End(r) == Become(r, NoRequest)

Rows == Others + Cardinality({u \in Ids : row[u] \in Versions})
Exists(r) == row[req[r].id] \in Versions

Page(p) == IF p = NoParam \/ p = 0 THEN 1 ELSE p

PerPage(n) ==
    IF n = NoParam THEN DefaultPerPage
    ELSE IF n < 1 THEN 1 ELSE IF n > MaxPerPage THEN MaxPerPage ELSE n

\* the routes; those with a body name the step that follows its extraction
Request(r) ==
    /\ req[r].at = "idle"
    /\ \E u \in Ids, i \in Instances :
          \/ \E at \in {"lookup", "delete"} : Become(r, [at |-> at, on |-> i, id |-> u])
          \/ \E b \in Bodies, next \in {"find", "create"} :
                /\ next = "create" => row[u] = Unborn
                /\ Become(r, [at |-> "body", on |-> i, id |-> u, next |-> next, body |-> b])
          \/ \E p \in Pages, n \in PerPages :
                Become(r, [at |-> "count", page |-> Page(p), per |-> PerPage(n)])
    /\ UNCHANGED <<row, cache, excused, logging>>

-----------------------------------------------------------------------------
(* The body on its way through the middleware to the handler.              *)

\* Mutant: a chunk over the limit is left out and the loop goes on.
KeptSkipping(chunks) ==
    {n \in DOMAIN chunks : Sum(SubSeq(chunks, 1, n)) <= BodyLimit
                           \/ chunks[n] <= 1}

\* the chunks the middleware puts back: it stops at the first that would pass
\* the limit, and at an error
Kept(chunks) ==
    {n \in DOMAIN chunks : /\ Sum(SubSeq(chunks, 1, n)) <= BodyLimit
                           /\ \A m \in 1 .. n : chunks[m] # Error}

\* what the handler reads: everything, or with logging on what was put back,
\* which always ends without an error
Seen(body) == IF logging THEN Kept(body.chunks) ELSE DOMAIN body.chunks

Whole(body, seen) ==
    /\ seen = 1 .. Cardinality(seen)
    /\ Sum(SubSeq(body.chunks, 1, Cardinality(seen))) = body.document

\* no JSON document is a proper prefix of another; one with a hole may parse
Parses(body, seen) ==
    IF \E n \in seen : body.chunks[n] = Error THEN {FALSE}
    ELSE IF seen = 1 .. Cardinality(seen) THEN {Whole(body, seen)}
    ELSE BOOLEAN

\* the extractor and validate: otherwise 400 or 422
ExtractBody(r) ==
    /\ req[r].at = "body"
    /\ \E ok \in Parses(req[r].body, Seen(req[r].body)) :
          IF ok THEN Become(r, [at |-> req[r].next, on |-> req[r].on, id |-> req[r].id])
          ELSE End(r)
    /\ UNCHANGED <<row, cache, excused, logging>>

-----------------------------------------------------------------------------
(* find_by_id                                                              *)

Entry(r) == cache[req[r].on][req[r].id]
SetEntry(r, e) == cache' = [cache EXCEPT ![req[r].on][req[r].id] = e]
Excuse(r, yes) ==
    excused' = [excused EXCEPT ![req[r].on] =
                  IF yes THEN @ \cup {req[r].id} ELSE @ \ {req[r].id}]

\* Mutant: a hit starts the life of the entry anew.
LookupRenews(r) ==
    /\ req[r].at = "lookup"
    /\ IF Entry(r).v # 0
       THEN End(r) /\ SetEntry(r, [v |-> Entry(r).v, age |-> 0])
       ELSE Goto(r, "fetch") /\ UNCHANGED cache
    /\ UNCHANGED <<row, excused, logging>>

Lookup(r) ==
    /\ req[r].at = "lookup"
    /\ IF Entry(r).v # 0 THEN End(r) ELSE Goto(r, "fetch")
    /\ UNCHANGED <<row, cache, excused, logging>>

\* without a row: 404, and nothing is cached
FetchRow(r) ==
    /\ req[r].at = "fetch"
    /\ IF Exists(r)
       THEN Become(r, [at |-> "insert", on |-> req[r].on, id |-> req[r].id, v |-> row[req[r].id]])
       ELSE End(r)
    /\ UNCHANGED <<row, cache, excused, logging>>

InsertEntry(r) ==
    /\ req[r].at = "insert"
    /\ SetEntry(r, [v |-> req[r].v, age |-> 0])
    /\ Excuse(r, req[r].v # row[req[r].id])
    /\ End(r)
    /\ UNCHANGED <<row, logging>>

-----------------------------------------------------------------------------
(* create, update and delete                                               *)

SetRow(r, v) == row' = [row EXCEPT ![req[r].id] = v]

\* the copies on other instances are not touched
ExcuseElsewhere(r) ==
    excused' = [i \in Instances |->
                  IF i # req[r].on /\ cache[i][req[r].id].v # 0
                  THEN excused[i] \cup {req[r].id} ELSE excused[i]]

\* of two creations for one id the other made a row of another id
CreateRow(r) ==
    /\ req[r].at = "create"
    /\ IF row[req[r].id] = Unborn THEN SetRow(r, 1) ELSE UNCHANGED row
    /\ End(r)
    /\ UNCHANGED <<cache, excused, logging>>

FindRow(r) ==
    /\ req[r].at = "find"
    /\ IF Exists(r) THEN Goto(r, "write") ELSE End(r)
    /\ UNCHANGED <<row, cache, excused, logging>>

\* UPDATE by id; a row deleted since it was found is an error, as is whatever
\* the database reports
WriteRow(r) ==
    /\ req[r].at = "write"
    /\ \/ /\ Exists(r)
          /\ row[req[r].id] < MaxVersion
          /\ SetRow(r, row[req[r].id] + 1)
          /\ ExcuseElsewhere(r)
          /\ Goto(r, "reread")
       \/ End(r) /\ UNCHANGED <<row, excused>>
    /\ UNCHANGED <<cache, logging>>

\* an error here, or a row deleted meanwhile, ends the request after the write
\* and before the invalidation
RereadRow(r) ==
    /\ req[r].at = "reread"
    /\ \/ Exists(r) /\ Goto(r, "invalidate") /\ UNCHANGED excused
       \/ End(r) /\ Excuse(r, Entry(r).v # 0)
    /\ UNCHANGED <<row, cache, logging>>

\* Mutant: the cached copy is forgotten.
DeleteRowOnly(r) ==
    /\ req[r].at = "delete"
    /\ \/ Exists(r) /\ SetRow(r, Deleted) /\ ExcuseElsewhere(r)
       \/ UNCHANGED <<row, excused>>
    /\ End(r)
    /\ UNCHANGED <<cache, logging>>

\* without a row (404) and after an error of the database, no invalidation
DeleteRow(r) ==
    /\ req[r].at = "delete"
    /\ \/ /\ Exists(r)
          /\ SetRow(r, Deleted)
          /\ ExcuseElsewhere(r)
          /\ Goto(r, "invalidate")
       \/ End(r) /\ UNCHANGED <<row, excused>>
    /\ UNCHANGED <<cache, logging>>

Invalidate(r) ==
    /\ req[r].at = "invalidate"
    /\ SetEntry(r, NoEntry)
    /\ Excuse(r, FALSE)
    /\ End(r)
    /\ UNCHANGED <<row, logging>>

-----------------------------------------------------------------------------
(* The cache by itself: time_to_live and max_capacity.                     *)

Tick ==
    /\ \E i \in Instances, u \in Ids : cache[i][u].v # 0
    /\ cache' = [i \in Instances |-> [u \in Ids |->
                   LET e == cache[i][u] IN
                   IF e.v = 0 \/ e.age + 1 = Ttl THEN NoEntry
                   ELSE [e EXCEPT !.age = @ + 1]]]
    /\ excused' = [i \in Instances |-> {u \in excused[i] : cache'[i][u].v # 0}]
    /\ UNCHANGED <<row, req, logging>>

Evict(i, u) ==
    /\ cache[i][u].v # 0
    /\ cache' = [cache EXCEPT ![i][u] = NoEntry]
    /\ excused' = [excused EXCEPT ![i] = @ \ {u}]
    /\ UNCHANGED <<row, req, logging>>

-----------------------------------------------------------------------------
(* find_all, in the arithmetic of the parameters                           *)

\* Mutant: pages are counted from zero.
OffsetFromZero(p, n) == (p * n) % Modulus

\* release builds wrap; debug builds panic where this one wraps
Offset(p, n) == ((p - 1) * n) % Modulus

TotalPages(total, n) == (total + n - 1) \div n

CountRows(r) ==
    /\ req[r].at = "count"
    /\ Become(r, [at |-> "page", page |-> req[r].page, per |-> req[r].per, total |-> Rows])
    /\ UNCHANGED <<row, cache, excused, logging>>

\* a second statement, without ORDER BY: which rows it returns is open, how
\* many is not
SelectPage(r) ==
    /\ req[r].at = "page"
    /\ LET left == Rows - Offset(req[r].page, req[r].per)
       IN  Become(r, [at |-> "listed",
                      size |-> IF left < 0 THEN 0
                               ELSE IF left > req[r].per THEN req[r].per ELSE left])
    /\ UNCHANGED <<row, cache, excused, logging>>

ListEnds(r) ==
    /\ req[r].at = "listed"
    /\ End(r)
    /\ UNCHANGED <<row, cache, excused, logging>>

-----------------------------------------------------------------------------
RequestStep(r) ==
    \/ Request(r) \/ ExtractBody(r)
    \/ Lookup(r) \/ FetchRow(r) \/ InsertEntry(r)
    \/ CreateRow(r)
    \/ FindRow(r) \/ WriteRow(r) \/ RereadRow(r)
    \/ DeleteRow(r) \/ Invalidate(r)
    \/ CountRows(r) \/ SelectPage(r) \/ ListEnds(r)

Next ==
    \/ \E r \in Slots : RequestStep(r)
    \/ Tick
    \/ \E i \in Instances, u \in Ids : Evict(i, u)

\* time passes
Fairness == WF_vars(Tick)

Spec == Init /\ [][Next]_vars /\ Fairness

-----------------------------------------------------------------------------
UserRequest == [at: UserStage, on: Instances, id: Ids]

ListRequest ==
    [at: {"count"}, page: Nat \ {0}, per: 1 .. MaxPerPage]
    \cup [at: {"page"}, page: Nat \ {0}, per: 1 .. MaxPerPage,
          total: Others .. Others + Cardinality(Ids)]
    \cup [at: {"listed"}, size: 0 .. MaxPerPage]

RequestState ==
    {NoRequest} \cup UserRequest \cup ListRequest
    \cup [at: {"insert"}, on: Instances, id: Ids, v: Versions]
    \cup [at: {"body"}, on: Instances, id: Ids, next: {"find", "create"}, body: Bodies]

TypeOK ==
    /\ row \in [Ids -> {Unborn, Deleted} \cup Versions]
    /\ cache \in [Instances -> [Ids -> [v: 0 .. MaxVersion, age: 0 .. Ttl - 1]]]
    /\ excused \in [Instances -> SUBSET Ids]
    /\ req \in [Slots -> RequestState]
    /\ logging \in BOOLEAN

Stale(i, u) == cache[i][u].v \notin {0, row[u]}

\* An instance serves an outdated user only while its own writer has still to
\* invalidate, or for one of three reasons: another instance wrote, a reader
\* put back what it had fetched before the write, or the request failed
\* between its write and its invalidation.
StaleOnlyWithCause ==
    \A i \in Instances, u \in Ids :
        Stale(i, u) => \/ u \in excused[i]
                       \/ \E r \in Slots : /\ req[r].at \in {"reread", "invalidate"}
                                           /\ req[r].on = i /\ req[r].id = u

\* The requests and caches are as the code can have them, entries within their
\* time to live, and no outdated entry lacks a cause.
RequestInv == TypeOK /\ StaleOnlyWithCause

\* Whatever its cause, an outdated copy does not stay: however often it is
\* read, it expires or is replaced.
StaleCopiesGo ==
    \A i \in Instances, u \in Ids :
        \A v \in Versions : (cache[i][u].v = v /\ row[u] # v) ~> (cache[i][u].v # v)

Extracted(r) == req[r].at = "body" /\ req'[r].at = req[r].next

\* What reaches the service is the whole document the client sent, never a
\* part of it that happens to parse.
ActsOnWholeBodies(r) ==
    Extracted(r) => \E n \in 0 .. Len(req[r].body.chunks) :
                        /\ Sum(SubSeq(req[r].body.chunks, 1, n)) = req[r].body.document
                        /\ 1 .. n = {m \in Seen(req[r].body) : req[r].body.chunks[m] # Error}

\* Logging does not change what a request does: an unbroken body within the
\* limit reaches the service.  (One beyond it becomes a 400, and a body whose
\* connection breaks after the document is accepted.)
LoggingIsTransparent(r) ==
    req[r].at = "body" /\ req'[r] # req[r] /\ Sound(req[r].body)
    /\ Sum(req[r].body.chunks) <= BodyLimit => Extracted(r)

\* A handler gets the body its client sent, or none.
BodiesArriveWhole ==
    [][\A r \in Slots : ActsOnWholeBodies(r) /\ LoggingIsTransparent(r)]_vars

\* While the table keeps its size, a page holds the rows its number says: full
\* pages up to the last, the rest on the last, none after it.  A page so far
\* out that the offset wraps around is the exception.
PagesCoverTheTable ==
    [][\A r \in Slots :
          req[r].at = "page" /\ req'[r].at = "listed" /\ req[r].total = Rows
          /\ (req[r].page - 1) * req[r].per < Modulus =>
          LET last == TotalPages(Rows, req[r].per)
          IN  req'[r].size =
                CASE req[r].page < last -> req[r].per
                  [] req[r].page = last -> Rows - (last - 1) * req[r].per
                  [] req[r].page > last -> 0]_vars
=============================================================================
