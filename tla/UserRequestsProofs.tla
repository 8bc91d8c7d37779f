------------------------- MODULE UserRequestsProofs --------------------------
(***************************************************************************)
(* Theorems about the user endpoints, for any instances, users, requests,  *)
(* bodies and limits: no copy in a cache is outdated without a cause, a    *)
(* handler gets a whole body or none, and the pages of the list cover the  *)
(* table.                                                                  *)
(***************************************************************************)
EXTENDS UserRequests, FiniteSetTheorems, SequenceTheorems, TLAPS

-----------------------------------------------------------------------------
(* Types.                                                                  *)

\* What a request carries at each of its steps.
LEMMA CarriedBy ==
    ASSUME TypeOK, NEW r \in Slots
    PROVE  /\ req[r].at \in UserStage => req[r] \in UserRequest
           /\ req[r].at \in UserStage \cup {"insert", "body"}
              => req[r].on \in Instances /\ req[r].id \in Ids
           /\ req[r].at = "insert" => req[r].v \in Versions
           /\ req[r].at = "body" => req[r].body \in Bodies /\ req[r].next \in {"find", "create"}
           /\ req[r].at \in {"count", "page"}
              => req[r].page \in Nat \ {0} /\ req[r].per \in 1 .. MaxPerPage
           /\ req[r].at = "page"
              => req[r].total \in Others .. Others + Cardinality(Ids)
<1>1. req[r] \in RequestState
  BY DEF TypeOK
<1>2. CASE req[r] = NoRequest
  BY <1>2 DEF NoRequest, UserStage
<1>3. CASE req[r] \in UserRequest
  BY <1>3 DEF UserRequest, UserStage
<1>4. CASE req[r] \in ListRequest
  BY <1>4 DEF ListRequest, UserStage
<1>5. CASE req[r] \in [at: {"insert"}, on: Instances, id: Ids, v: Versions]
  BY <1>5 DEF UserStage
<1>6. CASE req[r] \in [at: {"body"}, on: Instances, id: Ids, next: {"find", "create"},
                       body: Bodies]
  BY <1>6 DEF UserStage
<1> QED
  BY <1>1, <1>2, <1>3, <1>4, <1>5, <1>6 DEF RequestState

\* The table holds the rows of the model and the others.
LEMMA RowsType == Rows \in Others .. Others + Cardinality(Ids) /\ Rows \in Nat
<1> DEFINE S == {u \in Ids : row[u] \in Versions}
<1>1. S \in SUBSET Ids
  OBVIOUS
<1> HIDE DEF S
<1>2. /\ Cardinality(Ids) \in Nat /\ Cardinality(S) \in Nat
      /\ Cardinality(S) <= Cardinality(Ids)
  <2>1. IsFiniteSet(Ids) /\ IsFiniteSet(S)
    BY <1>1, FS_Subset, RequestConstantsAssumption
  <2> QED
    BY <1>1, <2>1, FS_Subset, FS_CardinalityType
<1>3. Others \in Nat
  BY RequestConstantsAssumption
<1>4. Rows = Others + Cardinality(S)
  BY DEF Rows, S
<1> QED
  BY <1>2, <1>3, <1>4

\* The step a request takes leads to a request of one of the known forms.
Moves(r) == \E x \in RequestState : req' = [req EXCEPT ![r] = x]

\* A request that goes on to another step of its route is one of the known forms.
LEMMA GotoMoves ==
    ASSUME TypeOK, NEW r \in Slots, NEW at \in UserStage, req[r].at \in UserStage,
           Goto(r, at)
    PROVE  Moves(r)
<1> DEFINE x == [req[r] EXCEPT !.at = at]
<1>1. x \in UserRequest
  BY CarriedBy DEF UserRequest
<1>2. req' = [req EXCEPT ![r] = x]
  BY DEF Goto, TypeOK
<1> HIDE DEF x
<1> QED
  BY <1>1, <1>2 DEF Moves, RequestState

\* So is a slot whose request has ended.
LEMMA EndMoves ==
    ASSUME NEW r \in Slots, End(r)
    PROVE  Moves(r)
BY DEF End, Become, Moves, RequestState

\* So is a request that becomes one of them outright.
LEMMA BecomeMoves ==
    ASSUME NEW r \in Slots, NEW x \in RequestState, Become(r, x)
    PROVE  Moves(r)
BY DEF Become, Moves

\* A request that comes in is one of the known forms.
LEMMA RequestMoves ==
    ASSUME TypeOK, NEW r \in Slots, Request(r)
    PROVE  Moves(r)
<1>1. PICK u \in Ids, i \in Instances :
          \/ \E at \in {"lookup", "delete"} : Become(r, [at |-> at, on |-> i, id |-> u])
          \/ \E b \in Bodies, next \in {"find", "create"} :
                Become(r, [at |-> "body", on |-> i, id |-> u, next |-> next, body |-> b])
          \/ \E p \in Pages, n \in PerPages :
                Become(r, [at |-> "count", page |-> Page(p), per |-> PerPage(n)])
  BY DEF Request
<1>2. ASSUME NEW at \in {"lookup", "delete"}, Become(r, [at |-> at, on |-> i, id |-> u])
      PROVE  Moves(r)
  <2>1. [at |-> at, on |-> i, id |-> u] \in RequestState
    BY DEF RequestState, UserRequest, UserStage
  <2> QED
    BY <1>2, <2>1, BecomeMoves
<1>3. ASSUME NEW b \in Bodies, NEW next \in {"find", "create"},
             Become(r, [at |-> "body", on |-> i, id |-> u, next |-> next, body |-> b])
      PROVE  Moves(r)
  <2>1. [at |-> "body", on |-> i, id |-> u, next |-> next, body |-> b] \in RequestState
    BY DEF RequestState
  <2> QED
    BY <1>3, <2>1, BecomeMoves
<1>4. ASSUME NEW p \in Pages, NEW n \in PerPages,
             Become(r, [at |-> "count", page |-> Page(p), per |-> PerPage(n)])
      PROVE  Moves(r)
  <2>1. Page(p) \in Nat \ {0} /\ PerPage(n) \in 1 .. MaxPerPage
    BY RequestConstantsAssumption DEF Page, PerPage
  <2>2. [at |-> "count", page |-> Page(p), per |-> PerPage(n)] \in RequestState
    BY <2>1 DEF RequestState, ListRequest
  <2> QED
    BY <1>4, <2>2, BecomeMoves
<1> QED
  BY <1>1, <1>2, <1>3, <1>4

\* The list: the pages it returns are not larger than asked for.
LEMMA ListMoves ==
    ASSUME TypeOK, NEW r \in Slots, CountRows(r) \/ SelectPage(r) \/ ListEnds(r)
    PROVE  Moves(r)
<1>1. CASE CountRows(r)
  <2>1. [at |-> "page", page |-> req[r].page, per |-> req[r].per, total |-> Rows]
        \in RequestState
    BY <1>1, CarriedBy, RowsType DEF CountRows, RequestState, ListRequest
  <2> QED
    BY <1>1, <2>1, BecomeMoves DEF CountRows
<1>2. CASE SelectPage(r)
  <2> DEFINE offset == Offset(req[r].page, req[r].per)
             left == Rows - offset
             size == IF left < 0 THEN 0 ELSE IF left > req[r].per THEN req[r].per ELSE left
  <2>1. req[r].page \in Nat \ {0} /\ req[r].per \in 1 .. MaxPerPage /\ MaxPerPage \in Nat
    BY <1>2, CarriedBy, RequestConstantsAssumption DEF SelectPage
  <2>2. offset \in Int
    BY <2>1, RequestConstantsAssumption DEF Offset
  <2>3. size \in 0 .. MaxPerPage
    <3> HIDE DEF offset
    <3> QED
      BY <2>1, <2>2, RowsType
  <2>4. Become(r, [at |-> "listed", size |-> size])
    BY <1>2 DEF SelectPage
  <2> HIDE DEF size
  <2>5. [at |-> "listed", size |-> size] \in RequestState
    BY <2>3 DEF RequestState, ListRequest
  <2> QED
    BY <2>4, <2>5, BecomeMoves
<1>3. CASE ListEnds(r)
  BY <1>3, EndMoves DEF ListEnds
<1> QED
  BY <1>1, <1>2, <1>3

\* A whole row, or none, of the table and of a cache.
LEMMA SetEntryType ==
    ASSUME TypeOK, NEW r \in Slots, req[r].on \in Instances, req[r].id \in Ids,
           NEW e \in [v: 0 .. MaxVersion, age: 0 .. Ttl - 1], SetEntry(r, e)
    PROVE  cache' \in [Instances -> [Ids -> [v: 0 .. MaxVersion, age: 0 .. Ttl - 1]]]
BY DEF SetEntry, TypeOK

\* The excused copies stay copies of users.
LEMMA ExcuseType ==
    ASSUME TypeOK, NEW r \in Slots, req[r].on \in Instances, req[r].id \in Ids,
           ExcuseElsewhere(r) \/ (\E yes \in BOOLEAN : Excuse(r, yes))
    PROVE  excused' \in [Instances -> SUBSET Ids]
<1>1. CASE ExcuseElsewhere(r)
  BY <1>1 DEF ExcuseElsewhere, TypeOK
<1>2. ASSUME NEW yes \in BOOLEAN, Excuse(r, yes)
      PROVE  excused' \in [Instances -> SUBSET Ids]
  <2>1. PICK ids \in SUBSET Ids : excused' = [excused EXCEPT ![req[r].on] = ids]
    <3>1. CASE yes
      <4>1. excused[req[r].on] \cup {req[r].id} \in SUBSET Ids
        BY DEF TypeOK
      <4> QED
        BY <1>2, <3>1, <4>1 DEF Excuse
    <3>2. CASE ~yes
      <4>1. excused[req[r].on] \ {req[r].id} \in SUBSET Ids
        BY DEF TypeOK
      <4> QED
        BY <1>2, <3>2, <4>1 DEF Excuse
    <3> QED
      BY <3>1, <3>2
  <2> QED
    BY <2>1 DEF TypeOK
<1> QED
  BY <1>1, <1>2

\* A row that is written stays one.
LEMMA SetRowType ==
    ASSUME TypeOK, NEW r \in Slots, req[r].id \in Ids,
           NEW v \in {Unborn, Deleted} \cup Versions, SetRow(r, v)
    PROVE  row' \in [Ids -> {Unborn, Deleted} \cup Versions]
BY DEF SetRow, TypeOK

\* Every step keeps the types.
LEMMA TypeStep == TypeOK /\ [Next]_vars => TypeOK'
<1> SUFFICES ASSUME TypeOK, [Next]_vars PROVE TypeOK'
  OBVIOUS
<1>0. /\ MaxVersion \in Nat \ {0} /\ Ttl \in Nat \ {0}
      /\ NoEntry \in [v: 0 .. MaxVersion, age: 0 .. Ttl - 1]
  BY RequestConstantsAssumption DEF NoEntry
<1>1. ASSUME NEW r \in Slots, Moves(r),
             row' \in [Ids -> {Unborn, Deleted} \cup Versions],
             cache' \in [Instances -> [Ids -> [v: 0 .. MaxVersion, age: 0 .. Ttl - 1]]],
             excused' \in [Instances -> SUBSET Ids], UNCHANGED logging
      PROVE  TypeOK'
  BY <1>1 DEF TypeOK, Moves
<1>2. ASSUME NEW r \in Slots, Moves(r), UNCHANGED <<row, cache, excused, logging>>
      PROVE  TypeOK'
  BY <1>1, <1>2 DEF TypeOK
<1>3. ASSUME NEW r \in Slots, Request(r) PROVE TypeOK'
  BY <1>2, <1>3, RequestMoves DEF Request
<1>4. ASSUME NEW r \in Slots, ExtractBody(r) PROVE TypeOK'
  <2>1. req[r].next \in {"find", "create"} /\ req[r].on \in Instances /\ req[r].id \in Ids
    BY <1>4, CarriedBy DEF ExtractBody
  <2>2. [at |-> req[r].next, on |-> req[r].on, id |-> req[r].id] \in RequestState
    BY <2>1 DEF RequestState, UserRequest, UserStage
  <2> QED
    BY <1>2, <1>4, <2>2, EndMoves, BecomeMoves DEF ExtractBody
<1>5. ASSUME NEW r \in Slots, Lookup(r) \/ FindRow(r) PROVE TypeOK'
  <2>1. End(r) \/ Goto(r, "fetch") \/ Goto(r, "write")
    BY <1>5 DEF Lookup, FindRow
  <2>2. req[r].at \in UserStage
    BY <1>5 DEF Lookup, FindRow, UserStage
  <2>3. Moves(r)
    BY <2>1, <2>2, EndMoves, GotoMoves DEF UserStage
  <2> QED
    BY <1>2, <1>5, <2>3 DEF Lookup, FindRow
<1>6. ASSUME NEW r \in Slots, FetchRow(r) PROVE TypeOK'
  <2>1. req[r].on \in Instances /\ req[r].id \in Ids
    BY <1>6, CarriedBy DEF FetchRow, UserStage
  <2>2. CASE Exists(r)
    <3>1. [at |-> "insert", on |-> req[r].on, id |-> req[r].id, v |-> row[req[r].id]]
          \in RequestState
      BY <2>1, <2>2 DEF RequestState, Exists
    <3> QED
      BY <1>2, <1>6, <2>2, <3>1, BecomeMoves DEF FetchRow
  <2> QED
    BY <1>2, <1>6, <2>2, EndMoves DEF FetchRow
<1>7. ASSUME NEW r \in Slots, InsertEntry(r) PROVE TypeOK'
  <2>1. req[r].on \in Instances /\ req[r].id \in Ids /\ req[r].v \in Versions
    BY <1>7, CarriedBy DEF InsertEntry
  <2>2. [v |-> req[r].v, age |-> 0] \in [v: 0 .. MaxVersion, age: 0 .. Ttl - 1]
    BY <1>0, <2>1 DEF Versions
  <2>3. cache' \in [Instances -> [Ids -> [v: 0 .. MaxVersion, age: 0 .. Ttl - 1]]]
    BY <1>7, <2>1, <2>2, SetEntryType DEF InsertEntry
  <2>4. excused' \in [Instances -> SUBSET Ids]
    BY <1>7, <2>1, ExcuseType DEF InsertEntry
  <2>5. Moves(r)
    BY <1>7, EndMoves DEF InsertEntry
  <2> QED
    BY <1>1, <1>7, <2>3, <2>4, <2>5 DEF InsertEntry, TypeOK
<1>8. ASSUME NEW r \in Slots, CreateRow(r) PROVE TypeOK'
  <2>1. req[r].id \in Ids
    BY <1>8, CarriedBy DEF CreateRow, UserStage
  <2>2. row' \in [Ids -> {Unborn, Deleted} \cup Versions]
    <3>1. 1 \in Versions
      BY <1>0 DEF Versions
    <3> QED
      BY <1>8, <2>1, <3>1, SetRowType DEF CreateRow, TypeOK
  <2>3. Moves(r)
    BY <1>8, EndMoves DEF CreateRow
  <2> QED
    BY <1>1, <1>8, <2>2, <2>3 DEF CreateRow, TypeOK
<1>9. ASSUME NEW r \in Slots, WriteRow(r) PROVE TypeOK'
  <2>1. req[r].at \in UserStage /\ req[r].on \in Instances /\ req[r].id \in Ids
    BY <1>9, CarriedBy DEF WriteRow, UserStage
  <2>2. CASE End(r) /\ UNCHANGED <<row, excused>>
    BY <1>2, <1>9, <2>2, EndMoves DEF WriteRow
  <2>3. CASE /\ Exists(r) /\ row[req[r].id] < MaxVersion
             /\ SetRow(r, row[req[r].id] + 1) /\ ExcuseElsewhere(r) /\ Goto(r, "reread")
    <3>1. row[req[r].id] + 1 \in Versions
      BY <1>0, <2>3 DEF Exists, Versions
    <3>2. row' \in [Ids -> {Unborn, Deleted} \cup Versions]
      BY <2>1, <2>3, <3>1, SetRowType
    <3>3. excused' \in [Instances -> SUBSET Ids]
      BY <2>1, <2>3, ExcuseType
    <3>4. Moves(r)
      BY <2>1, <2>3, GotoMoves DEF UserStage
    <3> QED
      BY <1>1, <1>9, <3>2, <3>3, <3>4 DEF WriteRow, TypeOK
  <2> QED
    BY <1>9, <2>2, <2>3 DEF WriteRow
<1>10. ASSUME NEW r \in Slots, RereadRow(r) PROVE TypeOK'
  <2>1. req[r].at \in UserStage /\ req[r].on \in Instances /\ req[r].id \in Ids
    BY <1>10, CarriedBy DEF RereadRow, UserStage
  <2>2. CASE Goto(r, "invalidate") /\ UNCHANGED excused
    <3>1. Moves(r)
      BY <2>1, <2>2, GotoMoves DEF UserStage
    <3> QED
      BY <1>2, <1>10, <2>2, <3>1 DEF RereadRow
  <2>3. CASE End(r) /\ Excuse(r, Entry(r).v # 0)
    <3>1. excused' \in [Instances -> SUBSET Ids]
      BY <2>1, <2>3, ExcuseType
    <3> QED
      BY <1>1, <1>10, <2>3, <3>1, EndMoves DEF RereadRow, TypeOK
  <2> QED
    BY <1>10, <2>2, <2>3 DEF RereadRow
<1>11. ASSUME NEW r \in Slots, DeleteRow(r) PROVE TypeOK'
  <2>1. req[r].at \in UserStage /\ req[r].on \in Instances /\ req[r].id \in Ids
    BY <1>11, CarriedBy DEF DeleteRow, UserStage
  <2>2. CASE End(r) /\ UNCHANGED <<row, excused>>
    BY <1>2, <1>11, <2>2, EndMoves DEF DeleteRow
  <2>3. CASE SetRow(r, Deleted) /\ ExcuseElsewhere(r) /\ Goto(r, "invalidate")
    <3>1. row' \in [Ids -> {Unborn, Deleted} \cup Versions]
      BY <2>1, <2>3, SetRowType
    <3>2. excused' \in [Instances -> SUBSET Ids]
      BY <2>1, <2>3, ExcuseType
    <3>3. Moves(r)
      BY <2>1, <2>3, GotoMoves DEF UserStage
    <3> QED
      BY <1>1, <1>11, <3>1, <3>2, <3>3 DEF DeleteRow, TypeOK
  <2> QED
    BY <1>11, <2>2, <2>3 DEF DeleteRow
<1>12. ASSUME NEW r \in Slots, Invalidate(r) PROVE TypeOK'
  <2>1. req[r].on \in Instances /\ req[r].id \in Ids
    BY <1>12, CarriedBy DEF Invalidate, UserStage
  <2>2. cache' \in [Instances -> [Ids -> [v: 0 .. MaxVersion, age: 0 .. Ttl - 1]]]
    BY <1>0, <1>12, <2>1, SetEntryType DEF Invalidate
  <2>3. excused' \in [Instances -> SUBSET Ids]
    BY <1>12, <2>1, ExcuseType DEF Invalidate
  <2>4. Moves(r)
    BY <1>12, EndMoves DEF Invalidate
  <2> QED
    BY <1>1, <1>12, <2>2, <2>3, <2>4 DEF Invalidate, TypeOK
<1>13. ASSUME NEW r \in Slots, CountRows(r) \/ SelectPage(r) \/ ListEnds(r) PROVE TypeOK'
  BY <1>2, <1>13, ListMoves DEF CountRows, SelectPage, ListEnds
<1>14. CASE Tick
  <2>1. ASSUME NEW i \in Instances, NEW u \in Ids
        PROVE  cache'[i][u] \in [v: 0 .. MaxVersion, age: 0 .. Ttl - 1]
    <3> DEFINE e == cache[i][u]
    <3>1. e \in [v: 0 .. MaxVersion, age: 0 .. Ttl - 1]
      BY DEF TypeOK
    <3>2. cache'[i][u] = IF e.v = 0 \/ e.age + 1 = Ttl THEN NoEntry
                         ELSE [e EXCEPT !.age = @ + 1]
      BY <1>14 DEF Tick
    <3> HIDE DEF e
    <3> QED
      BY <1>0, <3>1, <3>2
  <2>2. cache' \in [Instances -> [Ids -> [v: 0 .. MaxVersion, age: 0 .. Ttl - 1]]]
    <3>1. cache' = [i \in Instances |-> [u \in Ids |-> cache'[i][u]]]
      BY <1>14 DEF Tick
    <3> QED
      BY <2>1, <3>1
  <2>3. excused' \in [Instances -> SUBSET Ids]
    BY <1>14 DEF Tick, TypeOK
  <2> QED
    BY <1>14, <2>2, <2>3 DEF Tick, TypeOK
<1>15. ASSUME NEW i \in Instances, NEW u \in Ids, Evict(i, u) PROVE TypeOK'
  BY <1>0, <1>15 DEF Evict, TypeOK
<1>16. CASE UNCHANGED vars
  BY <1>16 DEF vars, TypeOK
<1> QED
  BY <1>3, <1>4, <1>5, <1>6, <1>7, <1>8, <1>9, <1>10, <1>11, <1>12, <1>13, <1>14, <1>15,
     <1>16 DEF Next, RequestStep

-----------------------------------------------------------------------------
(* Outdated copies.                                                        *)

\* A request is between its write and its invalidation.
Writing(r, i, u) ==
    req[r].at \in {"reread", "invalidate"} /\ req[r].on = i /\ req[r].id = u

Caused(i, u) == u \in excused[i] \/ \E r \in Slots : Writing(r, i, u)

\* A step of a request leaves the others where they are.
LEMMA OthersStay ==
    ASSUME TypeOK, NEW r \in Slots, Moves(r)
    PROVE  \A q \in Slots : q # r => req'[q] = req[q]
BY DEF TypeOK, Moves

\* What a request becomes.
LEMMA GotoIs ==
    ASSUME TypeOK, NEW r \in Slots, NEW at, Goto(r, at), req[r].at \in UserStage
    PROVE  req'[r].at = at /\ req'[r].on = req[r].on /\ req'[r].id = req[r].id
<1>1. req[r] \in UserRequest
  BY CarriedBy
<1>2. req'[r] = [req[r] EXCEPT !.at = at]
  BY DEF Goto, TypeOK
<1> QED
  BY <1>1, <1>2 DEF UserRequest

\* A cause lasts unless its request takes the step or its excuse is withdrawn.
LEMMA CauseLasts ==
    ASSUME TypeOK, NEW r \in Slots, Moves(r), NEW i, NEW u, Caused(i, u),
           ~Writing(r, i, u), (u \in excused[i] => u \in excused'[i])
    PROVE  Caused(i, u)'
<1>1. CASE u \in excused[i]
  BY <1>1 DEF Caused
<1>2. ASSUME NEW q \in Slots, Writing(q, i, u) PROVE Caused(i, u)'
  <2>1. req'[q] = req[q]
    BY <1>2, OthersStay
  <2>2. Writing(q, i, u)'
    BY <1>2, <2>1 DEF Writing
  <2> QED
    BY <2>2 DEF Caused
<1> QED
  BY <1>1, <1>2 DEF Caused

\* A step that writes neither row nor cache outdates no copy.
LEMMA QuietKeeps ==
    ASSUME TypeOK, StaleOnlyWithCause, NEW r \in Slots, Moves(r),
           UNCHANGED <<row, cache, excused>>,
           req[r].at \notin {"reread", "invalidate"}
    PROVE  StaleOnlyWithCause'
<1> SUFFICES ASSUME NEW i \in Instances, NEW u \in Ids, Stale(i, u)
             PROVE  Caused(i, u)'
  BY DEF StaleOnlyWithCause, Stale, Caused, Writing
<1>1. Caused(i, u)
  BY DEF StaleOnlyWithCause, Caused, Writing
<1> QED
  BY <1>1, CauseLasts DEF Writing

\* A write of a row leaves its own copy to the invalidation that follows and
\* excuses those on other instances.
LEMMA WriteKeeps ==
    ASSUME TypeOK, StaleOnlyWithCause, NEW r \in Slots, Moves(r), NEW v,
           req[r].on \in Instances, req[r].id \in Ids,
           req[r].at \notin {"reread", "invalidate"},
           SetRow(r, v), ExcuseElsewhere(r), UNCHANGED cache,
           req'[r].at \in {"reread", "invalidate"},
           req'[r].on = req[r].on, req'[r].id = req[r].id
    PROVE  StaleOnlyWithCause'
<1> SUFFICES ASSUME NEW i \in Instances, NEW u \in Ids, Stale(i, u)'
             PROVE  Caused(i, u)'
  BY DEF StaleOnlyWithCause, Caused, Writing
<1>1. cache[i][u].v # 0
  BY DEF Stale
<1>2. excused[i] \subseteq excused'[i]
  BY DEF ExcuseElsewhere
<1>3. CASE u = req[r].id /\ i = req[r].on
  <2>1. Writing(r, i, u)'
    BY <1>3 DEF Writing
  <2> QED
    BY <2>1 DEF Caused
<1>4. CASE u = req[r].id /\ i # req[r].on
  <2>1. u \in excused'[i]
    BY <1>1, <1>4 DEF ExcuseElsewhere
  <2> QED
    BY <2>1 DEF Caused
<1>5. CASE u # req[r].id
  <2>1. Stale(i, u)
    BY <1>5 DEF Stale, SetRow, TypeOK
  <2>2. Caused(i, u)
    BY <2>1 DEF StaleOnlyWithCause, Caused, Writing
  <2> QED
    BY <1>2, <2>2, CauseLasts DEF Writing
<1> QED
  BY <1>3, <1>4, <1>5

\* A step that sets the copy of its request or ends it without one settles the
\* account of that copy and touches no other.
LEMMA CopyKeeps ==
    ASSUME TypeOK, StaleOnlyWithCause, NEW r \in Slots, Moves(r),
           req[r].on \in Instances, req[r].id \in Ids, UNCHANGED row,
           \A i \in Instances, u \in Ids :
              ~(i = req[r].on /\ u = req[r].id)
              => cache'[i][u] = cache[i][u] /\ (u \in excused[i] => u \in excused'[i]),
           cache'[req[r].on][req[r].id].v \in {0, row[req[r].id]}
           \/ req[r].id \in excused'[req[r].on]
    PROVE  StaleOnlyWithCause'
<1> SUFFICES ASSUME NEW i \in Instances, NEW u \in Ids, Stale(i, u)'
             PROVE  Caused(i, u)'
  BY DEF StaleOnlyWithCause, Caused, Writing
<1>1. CASE i = req[r].on /\ u = req[r].id
  BY <1>1 DEF Stale, Caused
<1>2. CASE ~(i = req[r].on /\ u = req[r].id)
  <2>1. Stale(i, u)
    BY <1>2 DEF Stale
  <2>2. Caused(i, u)
    BY <2>1 DEF StaleOnlyWithCause, Caused, Writing
  <2>3. ~Writing(r, i, u)
    BY <1>2 DEF Writing
  <2>4. u \in excused[i] => u \in excused'[i]
    BY <1>2
  <2> QED
    BY <2>2, <2>3, <2>4, CauseLasts
<1> QED
  BY <1>1, <1>2

\* Every step keeps each outdated copy accounted for.
LEMMA StaleStep == TypeOK /\ StaleOnlyWithCause /\ [Next]_vars => StaleOnlyWithCause'
<1> SUFFICES ASSUME TypeOK, StaleOnlyWithCause, [Next]_vars PROVE StaleOnlyWithCause'
  OBVIOUS
<1>1. ASSUME NEW r \in Slots, Request(r) PROVE StaleOnlyWithCause'
  BY <1>1, RequestMoves, QuietKeeps DEF Request
<1>2. ASSUME NEW r \in Slots, ExtractBody(r) PROVE StaleOnlyWithCause'
  <2>1. req[r].next \in {"find", "create"} /\ req[r].on \in Instances /\ req[r].id \in Ids
    BY <1>2, CarriedBy DEF ExtractBody
  <2>2. [at |-> req[r].next, on |-> req[r].on, id |-> req[r].id] \in RequestState
    BY <2>1 DEF RequestState, UserRequest, UserStage
  <2>3. Moves(r)
    BY <1>2, <2>2, EndMoves, BecomeMoves DEF ExtractBody
  <2> QED
    BY <1>2, <2>3, QuietKeeps DEF ExtractBody
<1>3. ASSUME NEW r \in Slots, Lookup(r) \/ FindRow(r) PROVE StaleOnlyWithCause'
  <2>1. End(r) \/ Goto(r, "fetch") \/ Goto(r, "write")
    BY <1>3 DEF Lookup, FindRow
  <2>2. Moves(r)
    BY <1>3, <2>1, EndMoves, GotoMoves DEF Lookup, FindRow, UserStage
  <2> QED
    BY <1>3, <2>2, QuietKeeps DEF Lookup, FindRow
<1>4. ASSUME NEW r \in Slots, FetchRow(r) PROVE StaleOnlyWithCause'
  <2>1. req[r].on \in Instances /\ req[r].id \in Ids
    BY <1>4, CarriedBy DEF FetchRow, UserStage
  <2>2. Exists(r) => [at |-> "insert", on |-> req[r].on, id |-> req[r].id,
                      v |-> row[req[r].id]] \in RequestState
    BY <2>1 DEF RequestState, Exists
  <2>3. Moves(r)
    BY <1>4, <2>2, EndMoves, BecomeMoves DEF FetchRow
  <2> QED
    BY <1>4, <2>3, QuietKeeps DEF FetchRow
<1>5. ASSUME NEW r \in Slots, InsertEntry(r) PROVE StaleOnlyWithCause'
  <2>1. req[r].on \in Instances /\ req[r].id \in Ids /\ req[r].v \in Versions
    BY <1>5, CarriedBy DEF InsertEntry
  <2>2. /\ Moves(r) /\ UNCHANGED row
        /\ cache' = [cache EXCEPT ![req[r].on][req[r].id] = [v |-> req[r].v, age |-> 0]]
        /\ excused' = [excused EXCEPT ![req[r].on] =
                         IF req[r].v # row[req[r].id] THEN @ \cup {req[r].id}
                         ELSE @ \ {req[r].id}]
    BY <1>5, EndMoves DEF InsertEntry, SetEntry, Excuse
  <2>3. cache'[req[r].on][req[r].id].v = req[r].v
    BY <2>1, <2>2 DEF TypeOK
  <2>4. req[r].v = row[req[r].id] \/ req[r].id \in excused'[req[r].on]
    BY <2>1, <2>2 DEF TypeOK
  <2>6. \/ cache'[req[r].on][req[r].id].v \in {0, row[req[r].id]}
        \/ req[r].id \in excused'[req[r].on]
    BY <2>3, <2>4
  <2>7. Moves(r) /\ row' = row
    BY <2>2
  <2>5. \A i \in Instances, u \in Ids :
           ~(i = req[r].on /\ u = req[r].id)
           => cache'[i][u] = cache[i][u] /\ (u \in excused[i] => u \in excused'[i])
    BY <2>1, <2>2 DEF TypeOK
  <2> QED
    BY <2>1, <2>5, <2>6, <2>7, CopyKeeps
<1>6. ASSUME NEW r \in Slots, CreateRow(r) PROVE StaleOnlyWithCause'
  <2>1. req[r].id \in Ids /\ Moves(r) /\ req[r].at \notin {"reread", "invalidate"}
    BY <1>6, CarriedBy, EndMoves DEF CreateRow, UserStage
  <2> SUFFICES ASSUME NEW i \in Instances, NEW u \in Ids, Stale(i, u)'
               PROVE  Caused(i, u)'
    BY DEF StaleOnlyWithCause, Caused, Writing
  <2>2. Stale(i, u)
    <3>1. CASE row' = row
      BY <1>6, <3>1 DEF CreateRow, Stale
    <3>2. CASE row[req[r].id] = Unborn /\ SetRow(r, 1)
      <4>1. cache'[i][u] = cache[i][u] /\ cache[i][u].v \in 0 .. MaxVersion
        BY <1>6 DEF CreateRow, TypeOK
      <4>2. u # req[r].id => row'[u] = row[u]
        BY <3>2 DEF SetRow, TypeOK
      <4> QED
        BY <3>2, <4>1, <4>2, RequestConstantsAssumption DEF Stale, Unborn
    <3> QED
      BY <1>6, <3>1, <3>2 DEF CreateRow
  <2>3. Caused(i, u)
    BY <2>2 DEF StaleOnlyWithCause, Caused, Writing
  <2> QED
    BY <1>6, <2>1, <2>3, CauseLasts DEF CreateRow, Writing
<1>7. ASSUME NEW r \in Slots, WriteRow(r) \/ DeleteRow(r) PROVE StaleOnlyWithCause'
  <2>1. /\ req[r].at \in UserStage /\ req[r].on \in Instances /\ req[r].id \in Ids
        /\ req[r].at \notin {"reread", "invalidate"} /\ UNCHANGED cache
    BY <1>7, CarriedBy DEF WriteRow, DeleteRow, UserStage
  <2>2. CASE End(r) /\ UNCHANGED <<row, excused>>
    BY <2>1, <2>2, EndMoves, QuietKeeps
  <2>3. ASSUME NEW v, NEW at \in {"reread", "invalidate"},
               SetRow(r, v), ExcuseElsewhere(r), Goto(r, at)
        PROVE  StaleOnlyWithCause'
    <3>1. Moves(r)
      BY <2>1, <2>3, GotoMoves DEF UserStage
    <3>2. req'[r].at = at /\ req'[r].on = req[r].on /\ req'[r].id = req[r].id
      BY <2>1, <2>3, GotoIs
    <3> QED
      BY <2>1, <2>3, <3>1, <3>2, WriteKeeps
  <2>4. CASE WriteRow(r)
    BY <2>2, <2>3, <2>4 DEF WriteRow
  <2>5. CASE DeleteRow(r)
    BY <2>2, <2>3, <2>5 DEF DeleteRow
  <2> QED
    BY <1>7, <2>4, <2>5
<1>8. ASSUME NEW r \in Slots, RereadRow(r) PROVE StaleOnlyWithCause'
  <2>1. /\ req[r].at = "reread" /\ req[r].at \in UserStage
        /\ req[r].on \in Instances /\ req[r].id \in Ids /\ UNCHANGED <<row, cache>>
    BY <1>8, CarriedBy DEF RereadRow, UserStage
  <2>2. CASE Goto(r, "invalidate") /\ UNCHANGED excused
    <3>1. Moves(r)
      BY <2>1, <2>2, GotoMoves DEF UserStage
    <3>2. req'[r].at = "invalidate" /\ req'[r].on = req[r].on /\ req'[r].id = req[r].id
      BY <2>1, <2>2, GotoIs
    <3> SUFFICES ASSUME NEW i \in Instances, NEW u \in Ids, Stale(i, u)'
                 PROVE  Caused(i, u)'
      BY DEF StaleOnlyWithCause, Caused, Writing
    <3>3. Caused(i, u)
      BY <2>1 DEF StaleOnlyWithCause, Caused, Writing, Stale
    <3>4. CASE Writing(r, i, u)
      <4>1. Writing(r, i, u)'
        BY <3>2, <3>4 DEF Writing
      <4> QED
        BY <4>1 DEF Caused
    <3>5. CASE ~Writing(r, i, u)
      BY <2>2, <3>1, <3>3, <3>5, CauseLasts
    <3> QED
      BY <3>4, <3>5
  <2>3. CASE End(r) /\ Excuse(r, Entry(r).v # 0)
    <3>1. /\ Moves(r)
          /\ excused' = [excused EXCEPT ![req[r].on] =
                           IF cache[req[r].on][req[r].id].v # 0 THEN @ \cup {req[r].id}
                           ELSE @ \ {req[r].id}]
      BY <2>3, EndMoves DEF Excuse, Entry
    <3>2. \/ cache'[req[r].on][req[r].id].v \in {0, row[req[r].id]}
          \/ req[r].id \in excused'[req[r].on]
      BY <2>1, <3>1 DEF TypeOK
    <3>4. Moves(r) /\ row' = row
      BY <2>1, <3>1
    <3>3. \A i \in Instances, u \in Ids :
             ~(i = req[r].on /\ u = req[r].id)
             => cache'[i][u] = cache[i][u] /\ (u \in excused[i] => u \in excused'[i])
      BY <2>1, <3>1 DEF TypeOK
    <3> QED
      BY <2>1, <3>2, <3>3, <3>4, CopyKeeps
  <2> QED
    BY <1>8, <2>2, <2>3 DEF RereadRow
<1>9. ASSUME NEW r \in Slots, Invalidate(r) PROVE StaleOnlyWithCause'
  <2>1. req[r].on \in Instances /\ req[r].id \in Ids
    BY <1>9, CarriedBy DEF Invalidate, UserStage
  <2>2. /\ Moves(r) /\ UNCHANGED row
        /\ cache' = [cache EXCEPT ![req[r].on][req[r].id] = NoEntry]
        /\ excused' = [excused EXCEPT ![req[r].on] = @ \ {req[r].id}]
    BY <1>9, EndMoves DEF Invalidate, SetEntry, Excuse
  <2>3. cache'[req[r].on][req[r].id].v = 0
    BY <2>1, <2>2 DEF TypeOK, NoEntry
  <2>4. \A i \in Instances, u \in Ids :
           ~(i = req[r].on /\ u = req[r].id)
           => cache'[i][u] = cache[i][u] /\ (u \in excused[i] => u \in excused'[i])
    BY <2>1, <2>2 DEF TypeOK
  <2> QED
    BY <2>1, <2>2, <2>3, <2>4, CopyKeeps
<1>10. ASSUME NEW r \in Slots, CountRows(r) \/ SelectPage(r) \/ ListEnds(r)
       PROVE  StaleOnlyWithCause'
  BY <1>10, ListMoves, QuietKeeps DEF CountRows, SelectPage, ListEnds
<1>11. ASSUME UNCHANGED <<row, req>>,
              \A i \in Instances, u \in Ids :
                 \/ cache'[i][u].v = 0
                 \/ /\ cache'[i][u].v = cache[i][u].v
                    /\ u \in excused[i] => u \in excused'[i]
       PROVE  StaleOnlyWithCause'
  BY <1>11 DEF StaleOnlyWithCause, Stale
<1>12. CASE Tick
  <2>1. ASSUME NEW i \in Instances, NEW u \in Ids, cache'[i][u].v # 0
        PROVE  cache'[i][u].v = cache[i][u].v /\ (u \in excused[i] => u \in excused'[i])
    <3> DEFINE e == cache[i][u]
    <3>1. e \in [v: 0 .. MaxVersion, age: 0 .. Ttl - 1]
      BY DEF TypeOK
    <3>2. cache'[i][u] = IF e.v = 0 \/ e.age + 1 = Ttl THEN NoEntry
                         ELSE [e EXCEPT !.age = @ + 1]
      BY <1>12 DEF Tick
    <3>3. excused'[i] = {w \in excused[i] : cache'[i][w].v # 0}
      BY <1>12 DEF Tick
    <3>4. cache'[i][u].v = e.v
      <4> HIDE DEF e
      <4> QED
        BY <2>1, <3>1, <3>2 DEF NoEntry
    <3> QED
      BY <2>1, <3>3, <3>4
  <2>2. \A i \in Instances, u \in Ids :
           \/ cache'[i][u].v = 0
           \/ /\ cache'[i][u].v = cache[i][u].v
              /\ u \in excused[i] => u \in excused'[i]
    BY <2>1
  <2>3. row' = row /\ req' = req
    BY <1>12 DEF Tick
  <2> QED
    BY <1>11, <2>2, <2>3
<1>13. ASSUME NEW i \in Instances, NEW u \in Ids, Evict(i, u)
       PROVE  StaleOnlyWithCause'
  <2>1. ASSUME NEW k \in Instances, NEW w \in Ids
        PROVE  \/ cache'[k][w].v = 0
               \/ /\ cache'[k][w].v = cache[k][w].v
                  /\ w \in excused[k] => w \in excused'[k]
    <3>1. CASE k = i /\ w = u
      <4>1. cache'[k][w] = NoEntry
        BY <1>13, <3>1 DEF Evict, TypeOK
      <4> QED
        BY <4>1 DEF NoEntry
    <3>2. CASE ~(k = i /\ w = u)
      <4>1. cache'[k][w] = cache[k][w]
        BY <1>13, <3>2 DEF Evict, TypeOK
      <4>2. w \in excused[k] => w \in excused'[k]
        BY <1>13, <3>2 DEF Evict, TypeOK
      <4> QED
        BY <4>1, <4>2
    <3> QED
      BY <3>1, <3>2
  <2>2. row' = row /\ req' = req
    BY <1>13 DEF Evict
  <2> QED
    BY <1>11, <2>1, <2>2
<1>14. CASE UNCHANGED vars
  BY <1>14 DEF vars, StaleOnlyWithCause, Stale
<1> QED
  BY <1>1, <1>2, <1>3, <1>4, <1>5, <1>6, <1>7, <1>8, <1>9, <1>10, <1>12, <1>13, <1>14
  DEF Next, RequestStep

\* The requests, rows and caches keep their types, and every outdated copy in
\* a cache has a cause: its writer has still to invalidate it, another instance
\* wrote, a reader put back what it had fetched before, or a writer failed.
THEOREM RequestInvHolds == Spec => []RequestInv
<1>1. Init => RequestInv
  <2> SUFFICES ASSUME Init PROVE TypeOK /\ StaleOnlyWithCause
    BY DEF RequestInv
  <2>1. NoEntry \in [v: 0 .. MaxVersion, age: 0 .. Ttl - 1] /\ NoEntry.v = 0
    BY RequestConstantsAssumption DEF NoEntry
  <2>2. TypeOK
    BY <2>1 DEF Init, TypeOK, RequestState
  <2>3. StaleOnlyWithCause
    BY <2>1 DEF Init, StaleOnlyWithCause, Stale
  <2> QED
    BY <2>2, <2>3
<1>2. RequestInv /\ [Next]_vars => RequestInv'
  BY TypeStep, StaleStep DEF RequestInv
<1> QED
  BY <1>1, <1>2, PTL DEF Spec

-----------------------------------------------------------------------------
(* Pages.                                                                  *)

\* How many rows of a table of R a page of n at most, the p-th, holds.
LEMMA PageSize ==
    ASSUME NEW R \in Nat, NEW n \in Nat \ {0}, NEW p \in Nat \ {0}
    PROVE  /\ TotalPages(R, n) \in Nat
           /\ p < TotalPages(R, n) => R - (p - 1) * n >= n
           /\ p = TotalPages(R, n) => 0 <= R - (p - 1) * n /\ R - (p - 1) * n <= n
           /\ p > TotalPages(R, n) => R - (p - 1) * n <= 0
<1> DEFINE l == TotalPages(R, n)
<1>1. l \in Nat /\ l * n <= R + n - 1 /\ R + n - 1 < l * n + n
  BY DEF TotalPages
<1> HIDE DEF l
<1>2. l * n < R + n /\ R <= l * n
  <2>1. l * n \in Int
    BY <1>1
  <2> QED
    BY <1>1, <2>1
<1>3. CASE p < l
  <2>1. p * n <= (l - 1) * n
    BY <1>1, <1>3
  <2>2. (l - 1) * n = l * n - n /\ (p - 1) * n = p * n - n /\ p * n \in Int /\ l * n \in Int
    BY <1>1
  <2>3. R - (p - 1) * n >= n
    BY <1>2, <2>1, <2>2
  <2> QED
    BY <1>1, <1>3, <2>3 DEF l
<1>4. CASE p = l
  <2>1. (p - 1) * n = l * n - n /\ l * n \in Int
    BY <1>4
  <2>2. 0 <= R - (p - 1) * n /\ R - (p - 1) * n <= n
    BY <1>2, <2>1
  <2> QED
    BY <1>1, <1>4, <2>2 DEF l
<1>5. CASE p > l
  <2>1. l * n <= (p - 1) * n
    BY <1>1, <1>5
  <2>2. (p - 1) * n \in Int /\ l * n \in Int
    BY <1>1
  <2>3. R - (p - 1) * n <= 0
    BY <1>2, <2>1, <2>2
  <2> QED
    BY <1>1, <1>5, <2>3 DEF l
<1> QED
  BY <1>1, <1>3, <1>4, <1>5 DEF l

\* An offset that does not wrap is the number of rows before the page.
LEMMA OffsetIs ==
    ASSUME NEW p \in Nat \ {0}, NEW n \in Nat, (p - 1) * n < Modulus
    PROVE  Offset(p, n) = (p - 1) * n
<1> DEFINE a == (p - 1) * n
<1>1. a \in Nat
  OBVIOUS
<1> HIDE DEF a
<1>2. a % Modulus = a
  BY <1>1, RequestConstantsAssumption DEF a
<1> QED
  BY <1>2 DEF Offset, a

\* A step of one request is none of another.
LEMMA OnlyOneMoves ==
    ASSUME TypeOK, NEW q \in Slots, RequestStep(q), NEW r \in Slots, r # q
    PROVE  req'[r] = req[r]
<1>1. ASSUME NEW x, Become(q, x) PROVE req'[r] = req[r]
  BY <1>1 DEF Become, TypeOK
<1>2. ASSUME NEW at, Goto(q, at) PROVE req'[r] = req[r]
  BY <1>2 DEF Goto, TypeOK
<1>3. CASE End(q)
  BY <1>1, <1>3 DEF End
<1>4. CASE Request(q)
  BY <1>1, <1>4 DEF Request
<1>5. CASE ExtractBody(q) \/ FetchRow(q) \/ CountRows(q) \/ SelectPage(q)
  BY <1>1, <1>3, <1>5 DEF ExtractBody, FetchRow, CountRows, SelectPage
<1>6. CASE \/ Lookup(q) \/ FindRow(q) \/ WriteRow(q) \/ RereadRow(q) \/ DeleteRow(q)
           \/ InsertEntry(q) \/ CreateRow(q) \/ Invalidate(q) \/ ListEnds(q)
  BY <1>2, <1>3, <1>6 DEF Lookup, FindRow, WriteRow, RereadRow, DeleteRow, InsertEntry,
     CreateRow, Invalidate, ListEnds
<1> QED
  BY <1>4, <1>5, <1>6 DEF RequestStep

\* Only the second statement of the list leads from "page" to "listed".
LEMMA PagedBySelect ==
    ASSUME TypeOK, Next, NEW r \in Slots, req[r].at = "page", req'[r].at = "listed"
    PROVE  SelectPage(r)
<1>1. ASSUME NEW q \in Slots, RequestStep(q) PROVE q = r
  BY <1>1, OnlyOneMoves
<1>2. PICK q \in Slots : RequestStep(q)
  BY DEF Next, Tick, Evict
<1>3. RequestStep(r)
  BY <1>1, <1>2
<1> QED
  BY <1>3 DEF RequestStep, Request, ExtractBody, Lookup, FetchRow, InsertEntry, CreateRow,
     FindRow, WriteRow, RereadRow, DeleteRow, Invalidate, CountRows, ListEnds

\* While the table keeps its size between the two statements of a list, its
\* pages cover it: each is full up to the last, which holds the rest, and
\* those beyond are empty, unless the offset wraps around.
THEOREM PagesCoverTheTableHolds == Spec => PagesCoverTheTable
<1>1. ASSUME TypeOK, Next, NEW r \in Slots,
             req[r].at = "page", req'[r].at = "listed",
             (req[r].page - 1) * req[r].per < Modulus
      PROVE  LET last == TotalPages(Rows, req[r].per)
             IN  req'[r].size =
                   CASE req[r].page < last -> req[r].per
                     [] req[r].page = last -> Rows - (last - 1) * req[r].per
                     [] req[r].page > last -> 0
  <2> DEFINE p == req[r].page
             n == req[r].per
             last == TotalPages(Rows, n)
             left == Rows - (p - 1) * n
  <2>1. p \in Nat \ {0} /\ n \in Nat \ {0} /\ Rows \in Nat
    BY <1>1, CarriedBy, RowsType, RequestConstantsAssumption
  <2>2. Offset(p, n) = (p - 1) * n
    BY <1>1, <2>1, OffsetIs
  <2>3. req'[r].size = IF left < 0 THEN 0 ELSE IF left > n THEN n ELSE left
    BY <1>1, <2>2, PagedBySelect DEF SelectPage, Become, TypeOK
  <2>4. /\ last \in Nat
        /\ p < last => left >= n
        /\ p = last => 0 <= left /\ left <= n
        /\ p > last => left <= 0
    BY <2>1, PageSize
  <2>5. left \in Int
    BY <2>1
  <2> HIDE DEF p, n, last, left
  <2>6. /\ p < last => req'[r].size = n
        /\ p = last => req'[r].size = left
        /\ p > last => req'[r].size = 0
    BY <2>1, <2>3, <2>4, <2>5
  <2>7. p < last \/ p = last \/ p > last
    BY <2>1, <2>4
  <2>8. p = last => left = Rows - (last - 1) * n
    BY DEF left
  <2>9. /\ ~(p < last /\ p = last) /\ ~(p < last /\ p > last)
        /\ ~(p = last /\ p > last)
    BY <2>1, <2>4
  <2>10. req'[r].size = CASE p < last -> n
                          [] p = last -> Rows - (last - 1) * n
                          [] p > last -> 0
    BY <2>6, <2>7, <2>8, <2>9
  <2> QED
    BY <2>10 DEF p, n, last
<1>2. TypeOK /\ [Next]_vars
      => [\A r \in Slots :
            req[r].at = "page" /\ req'[r].at = "listed" /\ req[r].total = Rows
            /\ (req[r].page - 1) * req[r].per < Modulus =>
            LET last == TotalPages(Rows, req[r].per)
            IN  req'[r].size =
                  CASE req[r].page < last -> req[r].per
                    [] req[r].page = last -> Rows - (last - 1) * req[r].per
                    [] req[r].page > last -> 0]_vars
  BY <1>1
<1>3. RequestInv => TypeOK
  BY DEF RequestInv
<1> QED
  BY <1>2, <1>3, RequestInvHolds, PTL DEF Spec, PagesCoverTheTable

-----------------------------------------------------------------------------
(* Bodies.                                                                 *)

\* A set of natural numbers that is not empty has a least element.
LEMMA LeastNatural ==
    ASSUME NEW S \in SUBSET Nat, S # {}
    PROVE  \E x \in S : \A y \in S : x <= y
<1> DEFINE F == {0 .. x : x \in S}
<1>1. ASSUME NEW x \in S PROVE 0 .. x \in FiniteSubsetsOf(Nat)
  <2>1. IsFiniteSet(0 .. x)
    BY FS_Interval
  <2>2. 0 .. x \subseteq Nat
    OBVIOUS
  <2> QED
    BY <2>1, <2>2 DEF FiniteSubsetsOf
<1>2. PICK X \in F : \A Y \in F : <<Y, X>> \notin StrictSubsetOrdering(Nat)
  <2>1. F \subseteq FiniteSubsetsOf(Nat) /\ F # {}
    BY <1>1
  <2> QED
    BY <2>1, FS_StrictSubsetOrderingWellFounded, WFMin
<1>3. PICK x \in S : X = 0 .. x
  BY <1>2
<1>4. ASSUME NEW y \in S, y < x PROVE FALSE
  <2>1. 0 .. y \subseteq 0 .. x /\ x \in 0 .. x /\ x \notin 0 .. y
    BY <1>4
  <2>2. <<0 .. y, X>> \in StrictSubsetOrdering(Nat)
    BY <1>3, <2>1 DEF StrictSubsetOrdering
  <2> QED
    BY <1>2, <2>2
<1> QED
  BY <1>4

\* The sums of the first chunks, one after the other.
Adds(s, chunks, k) ==
    s = [n \in 0 .. k |-> IF n = 0 THEN 0 ELSE s[n - 1] + chunks[n]]

\* Two runs of sums over chunks that begin alike agree as far as both go.
LEMMA AddsAgree ==
    ASSUME NEW c, NEW d, NEW k \in Nat, NEW l \in Nat, NEW s, NEW t,
           Adds(s, c, k), Adds(t, d, l), k <= l, \A n \in 1 .. k : c[n] = d[n]
    PROVE  \A n \in 0 .. k : s[n] = t[n]
<1> DEFINE S == {n \in 0 .. k : s[n] # t[n]}
<1> SUFFICES ASSUME S # {} PROVE FALSE
  OBVIOUS
<1>1. S \in SUBSET Nat
  OBVIOUS
<1>2. PICK x \in S : \A y \in S : x <= y
  <2> HIDE DEF S
  <2> QED
    BY <1>1, LeastNatural
<1>3. x \in 0 .. k /\ s[x] # t[x]
  OBVIOUS
<1>4. x # 0
  <2>1. s[0] = 0 /\ t[0] = 0
    BY DEF Adds
  <2> QED
    BY <1>3, <2>1
<1>5. x - 1 \in 0 .. k /\ s[x - 1] = t[x - 1]
  <2>1. x - 1 \in 0 .. k /\ ~(x <= x - 1)
    BY <1>3, <1>4
  <2>2. x - 1 \notin S
    BY <1>2, <2>1
  <2> QED
    BY <2>1, <2>2
<1>6. s[x] = s[x - 1] + c[x] /\ t[x] = t[x - 1] + d[x]
  BY <1>3, <1>4 DEF Adds
<1>7. c[x] = d[x]
  BY <1>3, <1>4
<1> QED
  BY <1>3, <1>5, <1>6, <1>7

\* There is a run of sums over any chunks.
LEMMA AddsExist ==
    ASSUME NEW c \in Seq(Nat), NEW k \in 0 .. Len(c)
    PROVE  \E s : Adds(s, c, k)
<1> DEFINE S == {n \in 0 .. Len(c) : ~ \E s : Adds(s, c, n)}
<1> SUFFICES ASSUME S # {} PROVE FALSE
  OBVIOUS
<1>1. S \in SUBSET Nat
  OBVIOUS
<1>2. PICK x \in S : \A y \in S : x <= y
  <2> HIDE DEF S
  <2> QED
    BY <1>1, LeastNatural
<1>3. x \in 0 .. Len(c) /\ ~ \E s : Adds(s, c, x)
  OBVIOUS
<1>4. x # 0
  <2> DEFINE z == [n \in 0 .. 0 |-> 0]
  <2>1. Adds(z, c, 0)
    BY DEF Adds
  <2> QED
    BY <1>3, <2>1
<1>5. \E s : Adds(s, c, x - 1)
  <2>1. x - 1 \in 0 .. Len(c) /\ ~(x <= x - 1)
    BY <1>3, <1>4
  <2>2. x - 1 \notin S
    BY <1>2, <2>1
  <2> QED
    BY <2>1, <2>2
<1>6. PICK s : Adds(s, c, x - 1)
  BY <1>5
<1> DEFINE t == [n \in 0 .. x |-> IF n = x THEN s[x - 1] + c[x] ELSE s[n]]
<1>7. Adds(t, c, x)
  <2>1. ASSUME NEW n \in 0 .. x
        PROVE  t[n] = IF n = 0 THEN 0 ELSE t[n - 1] + c[n]
    <3>1. CASE n = x
      BY <1>3, <1>4, <3>1
    <3>2. CASE n # x
      <4>1. n \in 0 .. x - 1 /\ t[n] = s[n]
        BY <1>3, <1>4, <3>2
      <4>2. s[n] = IF n = 0 THEN 0 ELSE s[n - 1] + c[n]
        BY <1>6, <4>1 DEF Adds
      <4>3. n # 0 => t[n - 1] = s[n - 1]
        BY <1>3, <1>4, <3>2
      <4> QED
        BY <4>1, <4>2, <4>3
    <3> QED
      BY <3>1, <3>2
  <2> HIDE DEF t
  <2>2. t = [n \in 0 .. x |-> t[n]]
    BY DEF t
  <2> QED
    BY <2>1, <2>2 DEF Adds
<1> QED
  BY <1>3, <1>7

\* The sum of the chunks is what such a run ends with.
LEMMA SumIs ==
    ASSUME NEW c \in Seq(Nat), NEW s, Adds(s, c, Len(c))
    PROVE  Sum(c) = s[Len(c)]
<1> DEFINE t == CHOOSE t : t = [n \in 0 .. Len(c) |-> IF n = 0 THEN 0 ELSE t[n - 1] + c[n]]
<1>1. t = [n \in 0 .. Len(c) |-> IF n = 0 THEN 0 ELSE t[n - 1] + c[n]]
  BY DEF Adds
<1>2. Sum(c) = t[Len(c)]
  BY DEF Sum
<1> HIDE DEF t
<1>3. Adds(t, c, Len(c))
  BY <1>1 DEF Adds
<1>4. t[Len(c)] = s[Len(c)]
  BY <1>3, AddsAgree
<1> QED
  BY <1>2, <1>4

\* The first chunks sum up to no more than any more of them.
LEMMA PrefixesGrow ==
    ASSUME NEW c \in Seq(Nat), NEW n \in 0 .. Len(c), NEW m \in 0 .. n
    PROVE  /\ Sum(SubSeq(c, 1, m)) <= Sum(SubSeq(c, 1, n))
           /\ Sum(SubSeq(c, 1, m)) \in Nat
<1>0. Len(c) \in Nat /\ \A i \in 1 .. Len(c) : c[i] \in Nat
  OBVIOUS
<1>1. PICK s : Adds(s, c, Len(c))
  BY AddsExist
<1>2. ASSUME NEW k \in 0 .. Len(c) PROVE Sum(SubSeq(c, 1, k)) = s[k]
  <2> DEFINE p == SubSeq(c, 1, k)
  <2>1. p \in Seq(Nat) /\ Len(p) = k /\ \A i \in 1 .. k : p[i] = c[i]
    BY <1>0, SubSeqProperties
  <2> HIDE DEF p
  <2>2. PICK t : Adds(t, p, k)
    BY <2>1, AddsExist
  <2>3. t[k] = s[k]
    BY <1>1, <2>1, <2>2, AddsAgree
  <2>4. Sum(p) = t[k]
    BY <2>1, <2>2, SumIs
  <2> QED
    BY <2>3, <2>4 DEF p
<1>3. \A k \in 0 .. Len(c) : s[k] \in Nat
  <2> DEFINE S == {k \in 0 .. Len(c) : s[k] \notin Nat}
  <2> SUFFICES ASSUME S # {} PROVE FALSE
    OBVIOUS
  <2>1. S \in SUBSET Nat
    OBVIOUS
  <2>2. PICK x \in S : \A y \in S : x <= y
    <3> HIDE DEF S
    <3> QED
      BY <2>1, LeastNatural
  <2>3. s[0] = 0
    BY <1>1 DEF Adds
  <2>4. x - 1 \in 0 .. Len(c) /\ s[x - 1] \in Nat /\ c[x] \in Nat /\ x # 0
    <3>1. x \in 1 .. Len(c) /\ ~(x <= x - 1)
      BY <2>3
    <3>2. x - 1 \notin S
      BY <2>2, <3>1
    <3>3. x - 1 \in 0 .. Len(c)
      BY <1>0, <3>1
    <3>4. s[x - 1] \in Nat
      BY <3>2, <3>3, Zenon
    <3> QED
      BY <1>0, <3>1, <3>3, <3>4
  <2>5. s[x] = s[x - 1] + c[x]
    BY <1>1, <2>4 DEF Adds
  <2>6. s[x] \in Nat
    <3> \A a, b \in Nat : a + b \in Nat
      OBVIOUS
    <3> QED
      BY <2>4, <2>5, Zenon
  <2> QED
    BY <2>6
<1>4. ASSUME NEW k \in 1 .. Len(c) PROVE s[k - 1] <= s[k]
  <2>1. k \in 0 .. Len(c) /\ k - 1 \in 0 .. Len(c) /\ k # 0
    BY <1>0
  <2>2. s[k - 1] \in Nat /\ c[k] \in Nat
    BY <1>0, <1>3, <2>1
  <2>3. s[k] = s[k - 1] + c[k]
    BY <1>1, <2>1 DEF Adds
  <2> QED
    BY <2>2, <2>3
<1>5. s[m] <= s[n]
  <2>1. m \in Nat /\ n \in Nat /\ \A k \in m .. n : k \in 0 .. Len(c)
    BY <1>0
  <2>2. \A k \in m .. n : s[k] \in Nat /\ s[m] \in Nat
    BY <1>3, <2>1
  <2> DEFINE S == {k \in m .. n : s[k] < s[m]}
  <2>3. ASSUME S # {} PROVE FALSE
    <3>1. S \in SUBSET Nat
      BY <2>1
    <3>2. PICK x \in S : \A y \in S : x <= y
      <4> HIDE DEF S
      <4> QED
        BY <2>3, <3>1, LeastNatural
    <3>3. x \in m .. n /\ s[x] < s[m] /\ s[x] \in Nat /\ s[m] \in Nat
      BY <2>2
    <3>4. x # m
      BY <3>3
    <3>5. x - 1 \in m .. n /\ ~(x <= x - 1) /\ x \in 1 .. Len(c)
      BY <1>0, <2>1, <3>3, <3>4
    <3>6. ~(s[x - 1] < s[m])
      BY <3>2, <3>5
    <3>7. s[x - 1] <= s[x] /\ s[x - 1] \in Nat
      BY <1>4, <2>2, <3>5
    <3> QED
      BY <3>3, <3>6, <3>7
  <2>4. n \in m .. n /\ n \notin S
    BY <2>1, <2>3
  <2>5. ~(s[n] < s[m])
    BY <2>4, Zenon
  <2> QED
    BY <2>2, <2>4, <2>5
<1>6. m \in 0 .. Len(c)
  BY <1>0
<1> QED
  BY <1>2, <1>3, <1>5, <1>6

\* A set of positions that has with each the ones before it is a beginning.
LEMMA Beginning ==
    ASSUME NEW k \in Nat, NEW S \in SUBSET (1 .. k), \A n \in S : 1 .. n \subseteq S
    PROVE  S = 1 .. Cardinality(S) /\ Cardinality(S) \in 0 .. k
<1> DEFINE R == {n \in Nat : n # 0 /\ n \notin S}
<1>1. R \in SUBSET Nat /\ k + 1 \in R
  OBVIOUS
<1>2. PICK x \in R : \A y \in R : x <= y
  <2> HIDE DEF R
  <2> QED
    BY <1>1, LeastNatural
<1>3. x \in Nat /\ x # 0 /\ x \notin S /\ x <= k + 1
  BY <1>1, <1>2
<1>4. \A n \in 1 .. x - 1 : n \in S
  <2> SUFFICES ASSUME NEW n \in 1 .. x - 1 PROVE n \in S
    OBVIOUS
  <2>1. ~(x <= n) /\ n \in Nat /\ n # 0
    BY <1>3
  <2> QED
    BY <1>2, <2>1
<1>5. \A n \in S : n \in 1 .. x - 1
  <2> SUFFICES ASSUME NEW n \in S PROVE n \in 1 .. x - 1
    OBVIOUS
  <2>1. n \in 1 .. k /\ x \notin 1 .. n
    BY <1>3
  <2> QED
    BY <1>3, <2>1
<1>6. S = 1 .. x - 1
  BY <1>4, <1>5
<1>7. Cardinality(1 .. x - 1) = x - 1
  <2>1. 1 \in Int /\ x - 1 \in Int
    BY <1>3
  <2>2. Cardinality(1 .. x - 1) = IF 1 > x - 1 THEN 0 ELSE x - 1 - 1 + 1
    BY <2>1, FS_Interval
  <2> QED
    BY <1>3, <2>2
<1> QED
  BY <1>3, <1>6, <1>7

\* What a handler reads of a body is a beginning of it.
LEMMA SeenIsABeginning ==
    ASSUME TypeOK, NEW b \in Bodies
    PROVE  /\ Seen(b) = 1 .. Cardinality(Seen(b))
           /\ Cardinality(Seen(b)) \in 0 .. Len(b.chunks)
<1> DEFINE c == b.chunks
           S == Seen(b)
<1>1. c \in Seq(Nat) /\ Len(c) \in Nat /\ DOMAIN c = 1 .. Len(c)
  BY BodiesAssumption
<1> HIDE DEF c
<1>2. S \in SUBSET (1 .. Len(c)) /\ \A n \in S : 1 .. n \subseteq S
  <2>1. CASE logging
    <3>1. S = {n \in 1 .. Len(c) : /\ Sum(SubSeq(c, 1, n)) <= BodyLimit
                                   /\ \A m \in 1 .. n : c[m] # Error}
      BY <1>1, <2>1 DEF Seen, Kept, c
    <3> SUFFICES ASSUME NEW n \in S, NEW m \in 1 .. n PROVE m \in S
      BY <3>1
    <3> HIDE DEF S
    <3>2. n \in 1 .. Len(c) /\ n \in 0 .. Len(c) /\ m \in 0 .. n /\ m \in 1 .. Len(c)
      BY <1>1, <3>1
    <3>3. /\ Sum(SubSeq(c, 1, m)) <= Sum(SubSeq(c, 1, n))
          /\ Sum(SubSeq(c, 1, m)) \in Nat /\ Sum(SubSeq(c, 1, n)) \in Nat
      <4>1. n \in 0 .. n
        BY <3>2
      <4> QED
        BY <1>1, <3>2, <4>1, PrefixesGrow
    <3>4. Sum(SubSeq(c, 1, n)) <= BodyLimit /\ \A i \in 1 .. n : c[i] # Error
      BY <3>1
    <3>5. Sum(SubSeq(c, 1, m)) <= BodyLimit
      BY <3>3, <3>4, RequestConstantsAssumption
    <3>6. \A i \in 1 .. m : c[i] # Error
      BY <3>2, <3>4
    <3> QED
      BY <3>1, <3>2, <3>5, <3>6
  <2>2. CASE ~logging
    BY <1>1, <2>2 DEF Seen, c
  <2> QED
    BY <2>1, <2>2
<1> HIDE DEF S
<1>3. S = 1 .. Cardinality(S) /\ Cardinality(S) \in 0 .. Len(c)
  BY <1>1, <1>2, Beginning
<1> QED
  BY <1>3 DEF S, c

\* Logging leaves an unbroken body within the limit as it came.
LEMMA SoundIsSeen ==
    ASSUME TypeOK, NEW b \in Bodies, Sound(b), Sum(b.chunks) <= BodyLimit
    PROVE  Parses(b, Seen(b)) = {TRUE}
<1> DEFINE c == b.chunks
<1>1. c \in Seq(Nat) /\ Len(c) \in Nat /\ DOMAIN c = 1 .. Len(c) /\ c = SubSeq(c, 1, Len(c))
  BY BodiesAssumption
<1>2. Sum(c) = b.document /\ Sum(c) <= BodyLimit /\ \A n \in 1 .. Len(c) : c[n] # Error
  BY <1>1, BodiesAssumption DEF Sound
<1>3. Seen(b) = 1 .. Len(c)
  <2>1. ASSUME NEW n \in 1 .. Len(c)
        PROVE  /\ Sum(SubSeq(c, 1, n)) <= BodyLimit
               /\ \A m \in 1 .. n : c[m] # Error
    <3>1. n \in 0 .. Len(c) /\ Len(c) \in 0 .. Len(c)
      BY <1>1
    <3>2. /\ Sum(SubSeq(c, 1, n)) <= Sum(SubSeq(c, 1, Len(c)))
          /\ Sum(SubSeq(c, 1, n)) \in Nat /\ Sum(SubSeq(c, 1, Len(c))) \in Nat
      <4> HIDE DEF c
      <4> QED
        BY <1>1, <3>1, PrefixesGrow
    <3>3. Sum(SubSeq(c, 1, Len(c))) = Sum(c)
      BY <1>1
    <3> QED
      BY <1>1, <1>2, <3>2, <3>3, RequestConstantsAssumption
  <2>2. Kept(c) = 1 .. Len(c)
    BY <1>1, <2>1 DEF Kept
  <2> QED
    BY <1>1, <2>2 DEF Seen
<1>4. Cardinality(Seen(b)) = Len(c)
  <2> DEFINE k == Len(c)
  <2>1. k \in Nat
    BY <1>1
  <2> HIDE DEF k
  <2>2. Cardinality(1 .. k) = IF 1 > k THEN 0 ELSE k - 1 + 1
    BY <2>1, FS_Interval
  <2>3. Cardinality(1 .. k) = k
    BY <2>1, <2>2
  <2> QED
    BY <1>3, <2>3 DEF k
<1>5. Whole(b, Seen(b)) = TRUE
  BY <1>1, <1>2, <1>3, <1>4 DEF Whole
<1> QED
  BY <1>2, <1>3, <1>4, <1>5 DEF Parses

\* A body leads on to the step of its route only when it was read whole.
LEMMA ParsedIsWhole ==
    ASSUME TypeOK, NEW b \in Bodies, TRUE \in Parses(b, Seen(b))
    PROVE  \E n \in 0 .. Len(b.chunks) :
              /\ Sum(SubSeq(b.chunks, 1, n)) = b.document
              /\ 1 .. n = {m \in Seen(b) : b.chunks[m] # Error}
<1>1. ~ \E n \in Seen(b) : b.chunks[n] = Error
  BY DEF Parses
<1>2. /\ Seen(b) = 1 .. Cardinality(Seen(b))
      /\ Cardinality(Seen(b)) \in 0 .. Len(b.chunks)
  BY SeenIsABeginning
<1>3. Whole(b, Seen(b))
  BY <1>1, <1>2 DEF Parses
<1>4. 1 .. Cardinality(Seen(b)) = {m \in Seen(b) : b.chunks[m] # Error}
  BY <1>1, <1>2
<1>5. Sum(SubSeq(b.chunks, 1, Cardinality(Seen(b)))) = b.document
  BY <1>3 DEF Whole
<1> QED
  BY <1>2, <1>4, <1>5

\* Only the extraction takes a request from its body.
LEMMA BodyByExtraction ==
    ASSUME TypeOK, Next, NEW r \in Slots, req[r].at = "body", req'[r] # req[r]
    PROVE  ExtractBody(r)
<1>1. PICK q \in Slots : RequestStep(q)
  BY DEF Next, Tick, Evict
<1>2. RequestStep(r)
  BY <1>1, OnlyOneMoves
<1> QED
  BY <1>2 DEF RequestStep, Request, Lookup, FetchRow, InsertEntry, CreateRow,
     FindRow, WriteRow, RereadRow, DeleteRow, Invalidate, CountRows, SelectPage, ListEnds

\* What a handler gets is the body its client sent, or none, with logging on or
\* off and wherever the body was cut, passed the limit or broke; and logging
\* costs no request its body that is within the limit and unbroken.
THEOREM BodiesArriveWholeHolds == Spec => BodiesArriveWhole
<1>1. ASSUME TypeOK, Next, NEW r \in Slots
      PROVE  ActsOnWholeBodies(r) /\ LoggingIsTransparent(r)
  <2> SUFFICES ASSUME req[r].at = "body", req'[r] # req[r]
               PROVE  ActsOnWholeBodies(r) /\ LoggingIsTransparent(r)
    <3>1. Extracted(r) => req'[r] # req[r]
      BY <1>1, CarriedBy DEF Extracted
    <3> QED
      BY <3>1 DEF Extracted, ActsOnWholeBodies, LoggingIsTransparent
  <2>1. ExtractBody(r)
    BY <1>1, BodyByExtraction
  <2>2. req[r].body \in Bodies /\ req[r].next \in {"find", "create"}
    BY <1>1, CarriedBy
  <2>3. PICK ok \in Parses(req[r].body, Seen(req[r].body)) :
           IF ok THEN Become(r, [at |-> req[r].next, on |-> req[r].on, id |-> req[r].id])
           ELSE End(r)
    BY <2>1 DEF ExtractBody
  <2>4. Parses(req[r].body, Seen(req[r].body)) \subseteq BOOLEAN
    BY DEF Parses, Whole
  <2>5. CASE ok = TRUE
    <3>1. req'[r].at = req[r].next
      BY <1>1, <2>3, <2>5 DEF Become, TypeOK
    <3>2. Extracted(r)
      BY <3>1 DEF Extracted
    <3>3. TRUE \in Parses(req[r].body, Seen(req[r].body))
      BY <2>3, <2>5
    <3> QED
      BY <1>1, <2>2, <3>2, <3>3, ParsedIsWhole DEF ActsOnWholeBodies, LoggingIsTransparent
  <2>6. CASE ok = FALSE
    <3>1. req'[r] = NoRequest
      BY <1>1, <2>3, <2>6 DEF End, Become, TypeOK
    <3>2. ~Extracted(r)
      BY <2>2, <3>1 DEF Extracted, NoRequest
    <3>3. ~(Sound(req[r].body) /\ Sum(req[r].body.chunks) <= BodyLimit)
      BY <1>1, <2>2, <2>3, <2>6, SoundIsSeen
    <3> QED
      BY <3>2, <3>3 DEF ActsOnWholeBodies, LoggingIsTransparent
  <2> QED
    BY <2>3, <2>4, <2>5, <2>6
<1>2. TypeOK /\ [Next]_vars
      => [\A r \in Slots : ActsOnWholeBodies(r) /\ LoggingIsTransparent(r)]_vars
  BY <1>1
<1>3. RequestInv => TypeOK
  BY DEF RequestInv
<1> QED
  BY <1>2, <1>3, RequestInvHolds, PTL DEF Spec, BodiesArriveWhole
=============================================================================
