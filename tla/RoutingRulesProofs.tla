------------------------- MODULE RoutingRulesProofs -------------------------
(***************************************************************************)
(* Proofs about RoutingRules for every finite set of requests, every set   *)
(* of priorities and every number of faults: its inductive invariant, and  *)
(* the properties of the table and of the engine that it implies.          *)
(***************************************************************************)
EXTENDS RoutingRules, FiniteSetTheorems, TLAPS

-----------------------------------------------------------------------------
(* Constants and rows.                                                      *)

(* The ids are an interval that begins with 1.                              *)
LEMMA IdsInterval ==
    /\ Cardinality(Requests) \in Nat
    /\ Ids = 1 .. Cardinality(Requests) + 1
    /\ 1 \in Ids
  <1>1. Cardinality(Requests) \in Nat
    BY RoutingAssumption, FS_CardinalityType
  <1> QED
    BY <1>1 DEF Ids

(* A row is its two columns, and "no row" is none.                          *)
LEMMA RowColumns ==
    /\ \A row \in Row : /\ row = [priority |-> row.priority, active |-> row.active]
                        /\ row.priority \in Priorities
                        /\ row.active \in BOOLEAN
    /\ \A p \in Priorities, a \in BOOLEAN : [priority |-> p, active |-> a] \in Row
    /\ NoRow \notin Row
    /\ NoRow.priority = 0
  <1>1. 0 \notin Priorities
    BY RoutingAssumption
  <1> QED
    BY <1>1 DEF Row, NoRow

(* Neither a row nor its absence has the field the engine asks for.         *)
LEMMA NothingIsActive ==
    ASSUME NEW table \in Table
    PROVE  ActiveRules(table) = {}
  <1> SUFFICES ASSUME NEW id \in Ids, "is_active" \in DOMAIN table[id]
               PROVE  FALSE
    BY DEF ActiveRules
  <1>1. table[id] \in Row \cup {NoRow}
    BY DEF Table
  <1>2. table[id] = [priority |-> table[id].priority, active |-> table[id].active]
    BY <1>1, RowColumns DEF NoRow
  <1>3. DOMAIN [priority |-> table[id].priority, active |-> table[id].active]
          = {"priority", "active"}
    OBVIOUS
  <1> QED
    BY <1>2, <1>3

(* What the session writes over a row is a row.                             *)
LEMMA MergedIsRow ==
    ASSUME NEW r \in Requests, NEW row \in Row, request[r].body \in Row
    PROVE  Merged(r, row) \in Row
  <1>1. /\ row.priority \in Priorities /\ row.active \in BOOLEAN
        /\ request[r].body.priority \in Priorities /\ request[r].body.active \in BOOLEAN
    BY RowColumns
  <1> DEFINE p == IF request[r].body.priority = request[r].loaded.priority
                  THEN row.priority ELSE request[r].body.priority
             a == IF request[r].body.active = request[r].loaded.active
                  THEN row.active ELSE request[r].body.active
  <1>2. p \in Priorities
    BY <1>1
  <1>3. a \in BOOLEAN
    <2>1. CASE request[r].body.active = request[r].loaded.active
      BY <1>1, <2>1
    <2>2. CASE request[r].body.active # request[r].loaded.active
      BY <1>1, <2>2
    <2> QED
      BY <2>1, <2>2
  <1>4. Merged(r, row) = [priority |-> p, active |-> a]
    BY DEF Merged
  <1> HIDE DEF p, a
  <1> QED
    BY <1>2, <1>3, <1>4, RowColumns

(* Over the row it loaded, a PUT writes its whole body.                     *)
LEMMA MergedIsBody ==
    ASSUME NEW r \in Requests, request[r].body \in Row
    PROVE  Merged(r, request[r].loaded) = request[r].body
  <1>1. request[r].body = [priority |-> request[r].body.priority,
                           active |-> request[r].body.active]
    BY RowColumns
  <1>2. Merged(r, request[r].loaded) = [priority |-> request[r].body.priority,
                                        active |-> request[r].body.active]
    BY DEF Merged
  <1> QED
    BY <1>1, <1>2

-----------------------------------------------------------------------------
(* Types.                                                                   *)

RequestRecord == [pc : RequestPCs, method : Methods \cup {"none"}, id : Ids \cup {0},
                  body : Row \cup {NoRow}, loaded : Row \cup {NoRow}]

RequestType == request \in [Requests -> RequestRecord]

(* A record stays one when one of its fields is set.                        *)
LEMMA RecordEdits ==
    ASSUME NEW req \in RequestRecord
    PROVE  /\ \A pc \in RequestPCs : [req EXCEPT !.pc = pc] \in RequestRecord
           /\ \A id \in Ids : [req EXCEPT !.id = id] \in RequestRecord
           /\ \A row \in Row \cup {NoRow} : [req EXCEPT !.loaded = row] \in RequestRecord
  BY DEF RequestRecord

(* What a step to another position does to the requests.                    *)
LEMMA ToEffect ==
    ASSUME RequestType, NEW r \in Requests, NEW pc \in RequestPCs, To(r, pc)
    PROVE  /\ RequestType'
           /\ request'[r] = [request[r] EXCEPT !.pc = pc]
           /\ request'[r].pc = pc
           /\ request'[r].method = request[r].method
           /\ request'[r].id = request[r].id
           /\ request'[r].body = request[r].body
           /\ request'[r].loaded = request[r].loaded
           /\ \A o \in Requests \ {r} : request'[o] = request[o]
  <1>1. request[r] \in RequestRecord
    BY DEF RequestType
  <1>2. request' = [request EXCEPT ![r] = [request[r] EXCEPT !.pc = pc]]
    BY DEF To
  <1> DEFINE req == [request[r] EXCEPT !.pc = pc]
  <1>3. req \in RequestRecord
    BY <1>1, RecordEdits
  <1>4. /\ req.pc = pc
        /\ req.method = request[r].method
        /\ req.id = request[r].id
        /\ req.body = request[r].body
        /\ req.loaded = request[r].loaded
    BY <1>1 DEF RequestRecord
  <1> HIDE DEF req
  <1>5. request' = [request EXCEPT ![r] = req]
    BY <1>2 DEF req
  <1>6. request'[r] = req /\ request' \in [Requests -> RequestRecord]
    BY <1>3, <1>5 DEF RequestType
  <1>7. \A o \in Requests \ {r} : request'[o] = request[o]
    BY <1>5 DEF RequestType
  <1>8. request'[r] = [request[r] EXCEPT !.pc = pc]
    BY <1>6 DEF req
  <1> QED
    BY <1>4, <1>6, <1>7, <1>8 DEF RequestType

(* What receiving a request does to the requests.                           *)
LEMMA ReceiveEffect ==
    ASSUME RequestType, last_id \in Ids, NEW r \in Requests, Receive(r)
    PROVE  /\ RequestType'
           /\ \/ /\ request'[r].pc = "committing"
                 /\ request'[r].method = "POST"
                 /\ request'[r].body \in Row
              \/ /\ request'[r].pc = "selecting"
                 /\ request'[r].method \in {"PUT", "DELETE"}
                 /\ request'[r].id \in 1 .. last_id
                 /\ request'[r].method = "PUT" => request'[r].body \in Row
           /\ \A o \in Requests \ {r} : request'[o] = request[o]
  <1> DEFINE Posted(body) == [Idle EXCEPT !.pc = "committing", !.method = "POST",
                                          !.body = body]
             Put(id, body) == [Idle EXCEPT !.pc = "selecting", !.method = "PUT",
                                           !.id = id, !.body = body]
             Deleted(id) == [Idle EXCEPT !.pc = "selecting", !.method = "DELETE",
                                         !.id = id]
  <1>1. 1 .. last_id \subseteq Ids
    BY IdsInterval
  <1>2. \A body \in Row : /\ Posted(body) \in RequestRecord
                          /\ Posted(body).pc = "committing"
                          /\ Posted(body).method = "POST"
                          /\ Posted(body).body \in Row
    BY DEF Idle, RequestRecord, RequestPCs, Methods
  <1>3. \A id \in 1 .. last_id, body \in Row : /\ Put(id, body) \in RequestRecord
                                               /\ Put(id, body).pc = "selecting"
                                               /\ Put(id, body).method = "PUT"
                                               /\ Put(id, body).id = id
                                               /\ Put(id, body).body \in Row
    BY <1>1 DEF Idle, RequestRecord, RequestPCs, Methods
  <1>4. \A id \in 1 .. last_id : /\ Deleted(id) \in RequestRecord
                                 /\ Deleted(id).pc = "selecting"
                                 /\ Deleted(id).method = "DELETE"
                                 /\ Deleted(id).id = id
    BY <1>1 DEF Idle, RequestRecord, RequestPCs, Methods
  <1>5. \/ \E body \in Row : request' = [request EXCEPT ![r] = Posted(body)]
        \/ \E id \in 1 .. last_id, body \in Row :
               request' = [request EXCEPT ![r] = Put(id, body)]
        \/ \E id \in 1 .. last_id : request' = [request EXCEPT ![r] = Deleted(id)]
    BY DEF Receive
  <1> HIDE DEF Posted, Put, Deleted
  <1>6. CASE \E body \in Row : request' = [request EXCEPT ![r] = Posted(body)]
    BY <1>2, <1>6 DEF RequestType
  <1>7. CASE \E id \in 1 .. last_id, body \in Row :
               request' = [request EXCEPT ![r] = Put(id, body)]
    BY <1>3, <1>7 DEF RequestType
  <1>8. CASE \E id \in 1 .. last_id : request' = [request EXCEPT ![r] = Deleted(id)]
    BY <1>4, <1>8 DEF RequestType
  <1> QED
    BY <1>5, <1>6, <1>7, <1>8

(* What selecting the row does to the requests.                             *)
LEMMA SelectEffect ==
    ASSUME RequestType, NEW r \in Requests, Select(r),
           rules[request[r].id] \in Row \cup {NoRow}
    PROVE  /\ RequestType'
           /\ request'[r].pc = IF rules[request[r].id] = NoRow THEN "not found"
                               ELSE "committing"
           /\ request'[r].method = request[r].method
           /\ request'[r].id = request[r].id
           /\ request'[r].body = request[r].body
           /\ request'[r].loaded = rules[request[r].id]
           /\ \A o \in Requests \ {r} : request'[o] = request[o]
  <1> DEFINE row == rules[request[r].id]
             pc == IF row = NoRow THEN "not found" ELSE "committing"
             req == [[request[r] EXCEPT !.pc = pc] EXCEPT !.loaded = row]
  <1>1. request[r] \in RequestRecord
    BY DEF RequestType
  <1>2. request' = [request EXCEPT ![r] = req]
    BY DEF Select, RequestType
  <1>3. pc \in RequestPCs
    BY DEF RequestPCs, Answers
  <1>4. req \in RequestRecord
    <2> HIDE DEF pc, row
    <2>1. [request[r] EXCEPT !.pc = pc] \in RequestRecord
      BY <1>1, <1>3, RecordEdits
    <2> QED
      BY <2>1, RecordEdits DEF row
  <1>5. /\ req.pc = pc
        /\ req.method = request[r].method
        /\ req.id = request[r].id
        /\ req.body = request[r].body
        /\ req.loaded = row
    <2> HIDE DEF pc, row
    <2> QED
      BY <1>1 DEF RequestRecord
  <1> HIDE DEF req
  <1> QED
    BY <1>2, <1>4, <1>5 DEF RequestType

(* What inserting the row does to the requests.                             *)
LEMMA InsertEffect ==
    ASSUME RequestType, NEW r \in Requests, Insert(r), last_id + 1 \in Ids
    PROVE  /\ RequestType'
           /\ request'[r].pc = "committed"
           /\ request'[r].id = last_id + 1
           /\ \A o \in Requests \ {r} : request'[o] = request[o]
  <1> DEFINE req == [[request[r] EXCEPT !.pc = "committed"] EXCEPT !.id = last_id + 1]
  <1>1. request[r] \in RequestRecord /\ "committed" \in RequestPCs
    BY DEF RequestType, RequestPCs
  <1>2. request' = [request EXCEPT ![r] = req]
    BY DEF Insert, RequestType
  <1>3. req \in RequestRecord
    BY <1>1, RecordEdits
  <1>4. req.pc = "committed" /\ req.id = last_id + 1
    BY <1>1 DEF RequestRecord
  <1> HIDE DEF req
  <1> QED
    BY <1>2, <1>3, <1>4 DEF RequestType

(* What a crash does to the requests.                                       *)
LEMMA CrashEffect ==
    ASSUME RequestType, CrashApi
    PROVE  /\ RequestType'
           /\ \A r \in Requests :
                /\ request'[r] = request[r] \/ request'[r].pc = "error"
                /\ request[r].pc \notin {"none"} \cup Answers => request'[r].pc = "error"
  <1>1. \A r \in Requests : request[r] \in RequestRecord
    BY DEF RequestType
  <1>2. "error" \in RequestPCs
    BY DEF RequestPCs, Answers
  <1>3. \A r \in Requests : /\ [request[r] EXCEPT !.pc = "error"] \in RequestRecord
                            /\ [request[r] EXCEPT !.pc = "error"].pc = "error"
    BY <1>1, <1>2, RecordEdits DEF RequestRecord
  <1>4. request' = [r \in Requests |-> IF request[r].pc \in {"none"} \cup Answers
                                       THEN request[r]
                                       ELSE [request[r] EXCEPT !.pc = "error"]]
    BY DEF CrashApi
  <1>5. \A r \in Requests : request'[r] = IF request[r].pc \in {"none"} \cup Answers
                                          THEN request[r]
                                          ELSE [request[r] EXCEPT !.pc = "error"]
    BY <1>4
  <1>6. request' \in [Requests -> RequestRecord]
    BY <1>1, <1>3, <1>4
  <1> QED
    BY <1>3, <1>5, <1>6 DEF RequestType

(* While a request has not committed, the sequence has an id left.          *)
LEMMA RoomForInsert ==
    ASSUME TypeOK, SequenceInv, NEW r \in Requests, At(r, "committing")
    PROVE  last_id + 1 \in Ids
  <1>1. /\ Past \subseteq Requests \ {r}
        /\ last_id \in Nat
        /\ last_id >= 1
    BY IdsInterval DEF Past, Uncommitted, At, TypeOK
  <1>2. /\ IsFiniteSet(Requests \ {r})
        /\ Cardinality(Requests \ {r}) = Cardinality(Requests) - 1
    BY RoutingAssumption, FS_RemoveElement
  <1>3. /\ Cardinality(Past) \in Nat
        /\ Cardinality(Past) <= Cardinality(Requests \ {r})
    BY <1>1, <1>2, FS_Subset, FS_CardinalityType
  <1> QED
    BY <1>1, <1>2, <1>3, IdsInterval DEF SequenceInv

(* The initial states have their types.                                     *)
LEMMA TypeInit ==
    Init => TypeOK
  <1> SUFFICES ASSUME Init
               PROVE  TypeOK
    OBVIOUS
  <1>1. rules \in Table /\ \A id \in Ids : id > last_id => rules[id] = NoRow
    BY IdsInterval DEF Init, Table, EmptyTable
  <1>2. EmptyTable \in Table
    BY DEF Table, EmptyTable
  <1>3. request \in [Requests -> RequestRecord]
    BY DEF Init, Idle, RequestRecord, RequestPCs
  <1>4. engine \in [pc : EnginePCs, fetched : Table, failed : BOOLEAN]
    BY <1>2 DEF Init, EnginePCs
  <1>5. faults \in 0 .. MaxFaults /\ last_id \in Ids /\ pending \in Nat
    BY IdsInterval, RoutingAssumption DEF Init
  <1>6. written \in Table /\ classes \subseteq Priorities /\ overlapped \subseteq Ids
    BY <1>1 DEF Init
  <1>7. subscribed \in BOOLEAN /\ silent \in BOOLEAN
    BY DEF Init
  <1> QED
    BY <1>1, <1>3, <1>4, <1>5, <1>6, <1>7 DEF TypeOK, RequestRecord

(* A fault keeps the count within its bound.                                *)
LEMMA FaultType ==
    ASSUME faults \in 0 .. MaxFaults, Fault \/ UNCHANGED faults
    PROVE  faults' \in 0 .. MaxFaults
  BY RoutingAssumption DEF Fault

(* The handlers keep the types.                                             *)
LEMMA HandlerType ==
    ASSUME TypeOK, SequenceInv, RequestInv, NEW r \in Requests, Handler(r)
    PROVE  TypeOK'
  <1> USE DEF TypeOK
  <1>1. RequestType
    BY DEF RequestRecord, RequestType
  <1>2. CASE Receive(r)
    <2>1. RequestType'
      BY <1>1, <1>2, ReceiveEffect
    <2> QED
      BY <1>2, <2>1 DEF Receive, engineSide, RequestType, RequestRecord
  <1>3. CASE Select(r)
    <2>1. rules[request[r].id] \in Row \cup {NoRow}
      <3>1. request[r].id \in 1 .. last_id
        BY <1>3 DEF Select, RequestInv, Knows
      <3>2. request[r].id \in Ids
        BY <3>1, IdsInterval
      <3> QED
        BY <3>2 DEF Table
    <2>2. RequestType'
      BY <1>1, <1>3, <2>1, SelectEffect
    <2> QED
      BY <1>3, <2>2 DEF Select, engineSide, RequestType, RequestRecord
  <1>4. CASE Commit(r)
    <2>1. /\ At(r, "committing")
          /\ request[r].id \in Ids \cup {0}
          /\ request[r].method # "POST" => request[r].id \in 1 .. last_id /\ request[r].id \in Ids
          /\ request[r].method \notin {"DELETE", "none"} => request[r].body \in Row
      BY <1>1, <1>4, IdsInterval DEF Commit, RequestInv, Knows, RequestType, RequestRecord, Methods
    <2>2. UNCHANGED <<engineSide, pending, faults, silent>>
      BY <1>4 DEF Commit
    <2>3. CASE Insert(r)
      <3>1. last_id + 1 \in Ids
        BY <2>1, RoomForInsert
      <3>2. request[r].body \in Row
        BY <2>1, <2>3 DEF Insert
      <3>3. RequestType'
        BY <1>1, <2>3, <3>1, InsertEffect
      <3>4. rules' \in Table /\ written' \in Table
        BY <2>3, <3>1, <3>2 DEF Insert, Table
      <3>5. \A id \in Ids : id > last_id' => rules'[id] = NoRow
        BY <2>3, <3>1, IdsInterval DEF Insert, Table
      <3> QED
        BY <2>2, <2>3, <3>1, <3>3, <3>4, <3>5 DEF Insert, engineSide, RequestType, RequestRecord
    <2>4. CASE Update(r)
      <3>1. RequestType'
        BY <1>1, <2>4, ToEffect DEF Update, RequestPCs
      <3>2. CASE rules[request[r].id] = NoRow
        BY <2>2, <2>4, <3>1, <3>2 DEF Update, engineSide, RequestType, RequestRecord
      <3>3. CASE rules[request[r].id] # NoRow
        <4>1. Merged(r, rules[request[r].id]) \in Row
          BY <2>1, <2>4, <3>3, MergedIsRow DEF Update, Table
        <4> DEFINE row == Merged(r, rules[request[r].id])
                   id == request[r].id
        <4>2. WriteRow(r, row) /\ last_id' = last_id
          BY <2>4, <3>3 DEF Update
        <4>3. id \in 1 .. last_id /\ id \in Ids /\ request[r].body \in Row
          BY <2>1, <2>4 DEF Update
        <4> HIDE DEF row
        <4>4. rules' = [rules EXCEPT ![id] = row] /\ written' = [written EXCEPT ![id] = request[r].body]
          BY <4>2 DEF WriteRow
        <4>5. rules' \in Table /\ written' \in Table
          BY <4>1, <4>3, <4>4 DEF Table, row
        <4>6. \A i \in Ids : i > last_id' => rules'[i] = NoRow
          BY <4>2, <4>3, <4>4, IdsInterval DEF Table
        <4>7. overlapped' \subseteq Ids
          BY <4>2, <4>3 DEF WriteRow
        <4> QED
          BY <2>2, <3>1, <4>2, <4>5, <4>6, <4>7 DEF engineSide, RequestType, RequestRecord
      <3> QED
        BY <3>2, <3>3
    <2>5. CASE Delete(r)
      <3>1. RequestType'
        BY <1>1, <2>5, ToEffect DEF Delete, RequestPCs
      <3>2. rules' \in Table /\ written' \in Table
        BY <2>5 DEF Delete, Table
      <3>3. \A id \in Ids : id > last_id' => rules'[id] = NoRow
        BY <2>5 DEF Delete, Table
      <3> QED
        BY <2>2, <2>5, <3>1, <3>2, <3>3 DEF Delete, engineSide, RequestType, RequestRecord
    <2> QED
      BY <1>4, <2>3, <2>4, <2>5 DEF Commit
  <1>5. CASE Unwritten(r)
    <2>1. RequestType'
      BY <1>1, <1>5, ToEffect DEF Unwritten, RequestPCs, Answers
    <2>2. faults' \in 0 .. MaxFaults
      BY <1>5, FaultType DEF Unwritten
    <2> QED
      BY <1>5, <2>1, <2>2 DEF Unwritten, engineSide, RequestType, RequestRecord
  <1>6. CASE Announce(r)
    <2>1. RequestType'
      BY <1>1, <1>6, ToEffect DEF Announce, RequestPCs, Answers
    <2>2. pending' \in Nat /\ silent' \in BOOLEAN
      BY <1>6 DEF Announce
    <2> QED
      BY <1>6, <2>1, <2>2 DEF Announce, engineSide, RequestType, RequestRecord
  <1>7. CASE Unannounced(r)
    <2>1. RequestType'
      BY <1>1, <1>7, ToEffect DEF Unannounced, RequestPCs, Answers
    <2>2. faults' \in 0 .. MaxFaults
      BY <1>7, FaultType DEF Unannounced
    <2> QED
      BY <1>7, <2>1, <2>2 DEF Unannounced, engineSide, RequestType, RequestRecord
  <1> QED
    BY <1>2, <1>3, <1>4, <1>5, <1>6, <1>7 DEF Handler

(* Every step keeps the types.                                              *)
LEMMA TypeStep ==
    ASSUME TypeOK, SequenceInv, RequestInv, [Next]_vars
    PROVE  TypeOK'
  <1>1. ASSUME NEW r \in Requests, Handler(r)
        PROVE  TypeOK'
    BY <1>1, HandlerType
  <1>2. CASE CrashApi
    <2>1. RequestType'
      BY <1>2, CrashEffect DEF TypeOK, RequestType, RequestRecord
    <2>2. faults' \in 0 .. MaxFaults /\ silent' \in BOOLEAN
      BY <1>2, FaultType DEF CrashApi, TypeOK
    <2> QED
      BY <1>2, <2>1, <2>2 DEF CrashApi, engineSide, TypeOK, RequestType, RequestRecord
  <1>3. CASE StartEngine
    BY <1>3 DEF StartEngine, EngineTo, EnginePCs, apiSide, TypeOK
  <1>4. CASE Subscribed
    BY <1>4 DEF Subscribed, apiSide, TypeOK
  <1>5. CASE Fetch
    <2>1. EmptyTable \in Table
      BY DEF Table, EmptyTable
    <2>2. engine' \in [pc : EnginePCs, fetched : Table, failed : BOOLEAN]
      <3>1. engine' = [pc |-> "applying", fetched |-> rules, failed |-> FALSE]
            \/ engine' = [pc |-> "applying", fetched |-> EmptyTable, failed |-> TRUE]
        BY <1>5 DEF Fetch
      <3>2. "applying" \in EnginePCs /\ rules \in Table
        BY DEF EnginePCs, TypeOK
      <3>3. CASE engine' = [pc |-> "applying", fetched |-> rules, failed |-> FALSE]
        BY <3>2, <3>3
      <3>4. CASE engine' = [pc |-> "applying", fetched |-> EmptyTable, failed |-> TRUE]
        BY <2>1, <3>2, <3>4
      <3> QED
        BY <3>1, <3>3, <3>4
    <2>3. faults' \in 0 .. MaxFaults
      BY <1>5, FaultType DEF Fetch, TypeOK
    <2> QED
      BY <1>5, <2>2, <2>3 DEF Fetch, apiSide, TypeOK
  <1>6. CASE Apply
    <2>1. ActiveRules(engine.fetched) = {}
      BY NothingIsActive DEF TypeOK
    <2>2. classes' = {}
      BY <1>6, <2>1 DEF Apply
    <2>3. engine' \in [pc : EnginePCs, fetched : Table, failed : BOOLEAN]
      BY <1>6 DEF Apply, EngineTo, EnginePCs, TypeOK
    <2> QED
      BY <1>6, <2>2, <2>3 DEF Apply, apiSide, TypeOK
  <1>7. CASE Hear
    BY <1>7 DEF Hear, EngineTo, EnginePCs, apiSide, TypeOK
  <1>8. CASE Reconnect
    <2>1. faults' \in 0 .. MaxFaults
      BY <1>8, FaultType DEF Reconnect, TypeOK
    <2> QED
      BY <1>8, <2>1 DEF Reconnect, apiSide, TypeOK
  <1>9. CASE StopEngine
    <2>1. faults' \in 0 .. MaxFaults
      BY <1>9, FaultType DEF StopEngine, TypeOK
    <2> QED
      BY <1>9, <2>1 DEF StopEngine, EngineTo, EnginePCs, apiSide, TypeOK
  <1>10. CASE UNCHANGED vars
    BY <1>10 DEF vars, TypeOK
  <1> QED
    BY <1>1, <1>2, <1>3, <1>4, <1>5, <1>6, <1>7, <1>8, <1>9, <1>10 DEF Next, EngineStep

-----------------------------------------------------------------------------
(* The sequence of ids.                                                     *)

(* Steps other than an insertion give out no id, and a request that is past *)
(* its commit stays so: an insertion adds one to both sides.                *)
LEMMA SequenceStep ==
    ASSUME TypeOK, SequenceInv, RequestInv, [Next]_vars
    PROVE  SequenceInv'
  <1>1. RequestType /\ last_id \in Nat
    BY IdsInterval DEF TypeOK, RequestType, RequestRecord
  <1>2. /\ IsFiniteSet(Past) /\ IsFiniteSet(Past')
        /\ Cardinality(Past) \in Nat /\ Cardinality(Past') \in Nat
    BY RoutingAssumption, FS_Subset, FS_CardinalityType DEF Past
  <1>3. ASSUME last_id' = last_id, Past \subseteq Past'
        PROVE  SequenceInv'
    <2>1. Cardinality(Past) <= Cardinality(Past')
      BY <1>2, <1>3, FS_Subset
    <2> QED
      BY <1>1, <1>2, <1>3, <2>1 DEF SequenceInv
  <1>4. ASSUME NEW r \in Requests, Handler(r)
        PROVE  SequenceInv'
    <2>1. CASE Receive(r)
      <3>1. Past \subseteq Past'
        BY <1>1, <2>1, ReceiveEffect DEF Past, Uncommitted, Receive, At, TypeOK
      <3> QED
        BY <1>3, <2>1, <3>1 DEF Receive
    <2>2. CASE Select(r)
      <3> DEFINE id == request[r].id
      <3>0. id \in 1 .. last_id
        BY <2>2 DEF Select, RequestInv, Knows
      <3>1. id \in Ids
        <4> HIDE DEF id
        <4> QED
          BY <3>0, IdsInterval DEF TypeOK
      <3>2. rules[request[r].id] \in Row \cup {NoRow}
        BY <3>1 DEF TypeOK, Table
      <3>3. Past \subseteq Past'
        BY <1>1, <2>2, <3>2, SelectEffect DEF Past, Uncommitted, Select, At
      <3> QED
        BY <1>3, <2>2, <3>3 DEF Select
    <2>3. CASE Commit(r) /\ Insert(r)
      <3>1. last_id + 1 \in Ids
        BY <2>3, RoomForInsert DEF Commit
      <3>2. Past' = Past \cup {r} /\ r \notin Past
        BY <1>1, <2>3, <3>1, InsertEffect DEF Past, Uncommitted, Commit, At
      <3>3. Cardinality(Past') = Cardinality(Past) + 1
        BY <1>2, <3>2, FS_AddElement
      <3>4. last_id' = last_id + 1
        BY <2>3 DEF Insert
      <3> QED
        BY <1>1, <1>2, <3>3, <3>4 DEF SequenceInv
    <2>4. CASE \E pc \in RequestPCs \ Uncommitted : To(r, pc) /\ last_id' = last_id
      <3>1. PICK pc \in RequestPCs \ Uncommitted : To(r, pc) /\ last_id' = last_id
        BY <2>4
      <3>2. Past \subseteq Past'
        <4>1. /\ request'[r].pc = pc
              /\ \A o \in Requests \ {r} : request'[o] = request[o]
          BY <1>1, <3>1, ToEffect
        <4> QED
          BY <4>1 DEF Past, Uncommitted
      <3> QED
        BY <1>3, <3>1, <3>2
    <2>5. {"committed", "ok", "error"} \subseteq RequestPCs \ Uncommitted
      BY DEF RequestPCs, Answers, Uncommitted
    <2> QED
      BY <1>4, <2>1, <2>2, <2>3, <2>4, <2>5
      DEF Handler, Commit, Update, Delete, Unwritten, Announce, Unannounced
  <1>5. CASE CrashApi
    <2>1. Past \subseteq Past'
      BY <1>1, <1>5, CrashEffect DEF Past, Uncommitted
    <2> QED
      BY <1>3, <1>5, <2>1 DEF CrashApi
  <1>6. CASE UNCHANGED apiSide
    BY <1>3, <1>6 DEF apiSide, Past
  <1> QED
    BY <1>4, <1>5, <1>6
    DEF Next, EngineStep, StartEngine, Subscribed, Fetch, Apply, Hear, Reconnect, StopEngine,
        vars, apiSide

-----------------------------------------------------------------------------
(* What the handlers know.                                                  *)

(* A request that takes no step knows what it knew.                         *)
LEMMA StillKnows ==
    ASSUME last_id \in Nat, last_id' \in Nat, last_id <= last_id',
           NEW r \in Requests, request'[r] = request[r], Knows(r)
    PROVE  Knows(r)'
  <1>1. \A id : id \in 1 .. last_id => id \in 1 .. last_id'
    OBVIOUS
  <1> QED
    BY <1>1 DEF Knows, At

(* Every step leaves the handlers with what they must know.                 *)
LEMMA RequestStep ==
    ASSUME TypeOK, SequenceInv, RequestInv, [Next]_vars
    PROVE  RequestInv'
  <1>1. RequestType /\ last_id \in Nat
    BY IdsInterval DEF TypeOK, RequestType, RequestRecord
  <1>2. ASSUME NEW r \in Requests, last_id' \in Nat, last_id <= last_id',
               \A o \in Requests \ {r} : request'[o] = request[o], Knows(r)'
        PROVE  RequestInv'
    <2>1. \A o \in Requests \ {r} : Knows(o)'
      BY <1>1, <1>2, StillKnows DEF RequestInv
    <2> QED
      BY <1>2, <2>1 DEF RequestInv
  <1>3. ASSUME NEW r \in Requests, Handler(r)
        PROVE  RequestInv'
    <2>1. Knows(r)
      BY DEF RequestInv
    <2>2. CASE Receive(r)
      <3>1. last_id' = last_id
        BY <2>2 DEF Receive
      <3>2. Knows(r)'
        BY <1>1, <2>2, <3>1, ReceiveEffect DEF Knows, At, Methods, TypeOK
      <3>3. \A o \in Requests \ {r} : request'[o] = request[o]
        BY <1>1, <2>2, ReceiveEffect DEF TypeOK
      <3> QED
        BY <1>1, <1>2, <3>1, <3>2, <3>3
    <2>3. CASE Select(r)
      <3> DEFINE id == request[r].id
      <3>1. /\ id \in 1 .. last_id
            /\ request[r].method \in {"PUT", "DELETE"}
            /\ request[r].method = "PUT" => request[r].body \in Row
        BY <2>1, <2>3 DEF Select, Knows
      <3>2. id \in Ids
        <4> HIDE DEF id
        <4> QED
          BY <3>1, IdsInterval DEF TypeOK
      <3>3. rules[id] \in Row \cup {NoRow}
        BY <3>2 DEF TypeOK, Table
      <3>4. last_id' = last_id
        BY <2>3 DEF Select
      <3>5. /\ request'[r].pc = IF rules[id] = NoRow THEN "not found" ELSE "committing"
            /\ request'[r].method = request[r].method
            /\ request'[r].id = id
            /\ request'[r].body = request[r].body
            /\ request'[r].loaded = rules[id]
            /\ \A o \in Requests \ {r} : request'[o] = request[o]
        BY <1>1, <2>3, <3>3, SelectEffect
      <3>6. Knows(r)'
        BY <3>1, <3>3, <3>4, <3>5 DEF Knows, At, Methods
      <3> QED
        <4>1. last_id' \in Nat /\ last_id <= last_id'
          BY <1>1, <3>4
        <4> HIDE DEF id
        <4> QED
          BY <1>2, <3>5, <3>6, <4>1
    <2>4. CASE Commit(r) /\ Insert(r)
      <3>1. last_id + 1 \in Ids
        BY <2>4, RoomForInsert DEF Commit
      <3>2. last_id' = last_id + 1
        BY <2>4 DEF Insert
      <3>3. /\ request'[r].pc = "committed"
            /\ request'[r].id = last_id + 1
            /\ \A o \in Requests \ {r} : request'[o] = request[o]
        BY <1>1, <2>4, <3>1, InsertEffect
      <3>4. last_id + 1 \in 1 .. last_id' /\ last_id' \in Nat /\ last_id <= last_id'
        BY <1>1, <3>2
      <3>5. Knows(r)'
        BY <3>3, <3>4 DEF Knows, At
      <3> QED
        BY <1>2, <3>3, <3>4, <3>5
    <2>5. CASE Commit(r) /\ (Update(r) \/ Delete(r))
      <3>1. request[r].id \in 1 .. last_id
        BY <2>1, <2>5 DEF Commit, Update, Delete, Knows
      <3>2. To(r, "committed") /\ last_id' = last_id
        BY <2>5 DEF Update, Delete
      <3>3. /\ request'[r].pc = "committed"
            /\ request'[r].id = request[r].id
            /\ \A o \in Requests \ {r} : request'[o] = request[o]
        BY <1>1, <3>2, ToEffect DEF RequestPCs
      <3>4. Knows(r)'
        BY <3>1, <3>2, <3>3 DEF Knows, At
      <3> QED
        BY <1>1, <1>2, <3>2, <3>3, <3>4
    <2>6. CASE \E pc \in Answers : To(r, pc) /\ last_id' = last_id
      <3>1. PICK pc \in Answers : To(r, pc) /\ last_id' = last_id
        BY <2>6
      <3>2. /\ request'[r].pc \in {"ok", "not found", "error"}
            /\ \A o \in Requests \ {r} : request'[o] = request[o]
        BY <1>1, <3>1, ToEffect DEF RequestPCs, Answers
      <3>3. Knows(r)'
        BY <3>2 DEF Knows, At
      <3> QED
        <4>1. last_id' \in Nat /\ last_id <= last_id'
          BY <1>1, <3>1
        <4> QED
          BY <1>2, <3>2, <3>3, <4>1
    <2> QED
      BY <1>3, <2>2, <2>3, <2>4, <2>5, <2>6
      DEF Handler, Commit, Unwritten, Announce, Unannounced, Answers
  <1>4. CASE CrashApi
    <2>1. last_id' = last_id
      BY <1>4 DEF CrashApi
    <2> SUFFICES ASSUME NEW r \in Requests
                 PROVE  Knows(r)'
      BY DEF RequestInv
    <2>2. CASE request'[r] = request[r]
      BY <1>1, <2>1, <2>2, StillKnows DEF RequestInv
    <2>3. CASE request'[r].pc = "error"
      BY <2>3 DEF Knows, At
    <2> QED
      BY <1>1, <1>4, <2>2, <2>3, CrashEffect
  <1>5. CASE UNCHANGED apiSide
    BY <1>5 DEF apiSide, RequestInv, Knows, At
  <1> QED
    BY <1>3, <1>4, <1>5
    DEF Next, EngineStep, StartEngine, Subscribed, Fetch, Apply, Hear, Reconnect, StopEngine,
        vars, apiSide

-----------------------------------------------------------------------------
(* What the table holds.                                                    *)

(* A commit inserts a row at an id that is new, or changes the row of an id *)
(* that was given out, and then a row that is gone stays gone.              *)
LEMMA CommitEffect ==
    ASSUME TypeOK, SequenceInv, RequestInv, NEW r \in Requests, Commit(r)
    PROVE  /\ request'[r].pc = "committed"
           /\ \A o \in Requests \ {r} : request'[o] = request[o]
           /\ overlapped \subseteq overlapped'
           /\ last_id <= last_id'
           /\ \A id \in 1 .. last_id : id # request[r].id =>
                  rules'[id] = rules[id] /\ written'[id] = written[id]
           /\ \A id \in 1 .. last_id : rules[id] = NoRow => rules'[id] = NoRow
  <1>1. /\ RequestType /\ last_id \in Nat /\ At(r, "committing")
        /\ rules \in Table /\ written \in Table
    BY IdsInterval DEF TypeOK, RequestType, RequestRecord, Commit
  <1>2. 1 .. last_id \subseteq Ids /\ last_id + 1 \notin 1 .. last_id
    BY IdsInterval DEF TypeOK
  <1>3. CASE Insert(r)
    <2>1. last_id + 1 \in Ids
      BY <1>1, RoomForInsert
    <2>2. /\ request'[r].pc = "committed"
          /\ \A o \in Requests \ {r} : request'[o] = request[o]
      BY <1>1, <1>3, <2>1, InsertEffect
    <2>3. \A id \in 1 .. last_id : rules'[id] = rules[id] /\ written'[id] = written[id]
      BY <1>1, <1>2, <1>3 DEF Insert, Table
    <2>4. last_id <= last_id' /\ overlapped' = overlapped
      BY <1>1, <1>3 DEF Insert
    <2> QED
      BY <2>2, <2>3, <2>4
  <1>4. CASE Update(r) \/ Delete(r)
    <2>1. To(r, "committed") /\ last_id' = last_id
      BY <1>4 DEF Update, Delete
    <2>2. /\ request'[r].pc = "committed"
          /\ \A o \in Requests \ {r} : request'[o] = request[o]
      BY <1>1, <2>1, ToEffect DEF RequestPCs
    <2> DEFINE id == request[r].id
    <2>3. /\ overlapped \subseteq overlapped'
          /\ \/ UNCHANGED <<rules, written>>
             \/ /\ rules[id] # NoRow
                /\ \E row : rules' = [rules EXCEPT ![id] = row]
                /\ \E row : written' = [written EXCEPT ![id] = row]
             \/ /\ rules' = [rules EXCEPT ![id] = NoRow]
                /\ written' = [written EXCEPT ![id] = NoRow]
      <3>1. CASE Update(r) /\ rules[id] = NoRow
        BY <3>1 DEF Update
      <3>2. CASE Update(r) /\ rules[id] # NoRow
        <4>1. WriteRow(r, Merged(r, rules[id]))
          BY <3>2 DEF Update
        <4> DEFINE row == Merged(r, rules[id])
                   body == request[r].body
        <4>2. /\ rules' = [rules EXCEPT ![id] = row]
              /\ written' = [written EXCEPT ![id] = body]
              /\ overlapped \subseteq overlapped'
          BY <4>1 DEF WriteRow
        <4> HIDE DEF row, body
        <4> QED
          BY <3>2, <4>2
      <3>3. CASE Delete(r)
        BY <3>3 DEF Delete
      <3> QED
        BY <1>4, <3>1, <3>2, <3>3
    <2> HIDE DEF id
    <2>4. \A i \in 1 .. last_id : i # id => rules'[i] = rules[i] /\ written'[i] = written[i]
      BY <1>1, <1>2, <2>3 DEF Table
    <2>5. \A i \in 1 .. last_id : rules[i] = NoRow => rules'[i] = NoRow
      BY <1>1, <1>2, <2>3 DEF Table
    <2> QED
      BY <1>1, <2>1, <2>2, <2>3, <2>4, <2>5 DEF id
  <1> QED
    BY <1>3, <1>4 DEF Commit

(* A deleted row stays deleted in every step.                               *)
LEMMA DeletionStep ==
    ASSUME TypeOK, SequenceInv, RequestInv, [Next]_vars
    PROVE  \A id \in 1 .. last_id : rules[id] = NoRow => rules'[id] = NoRow
  <1>1. ASSUME NEW r \in Requests, Commit(r)
        PROVE  \A id \in 1 .. last_id : rules[id] = NoRow => rules'[id] = NoRow
    BY <1>1, CommitEffect
  <1>2. CASE UNCHANGED rules
    BY <1>2
  <1> QED
    BY <1>1, <1>2
    DEF Next, Handler, Receive, Select, Unwritten, Announce, Unannounced, CrashApi, EngineStep,
        StartEngine, Subscribed, Fetch, Apply, Hear, Reconnect, StopEngine, vars, apiSide

(* While a PUT is about to commit, another commit that changes its row      *)
(* deletes it or is recorded as overlapping.                                *)
LEMMA LoadedCommit ==
    ASSUME TypeOK, SequenceInv, RequestInv, LoadedInv,
           NEW r \in Requests, Commit(r),
           NEW o \in Requests \ {r}, At(o, "committing"), request[o].method = "PUT"
    PROVE  \/ request[o].id \in overlapped'
           \/ rules'[request[o].id] \in {request[o].loaded, NoRow}
  <1> DEFINE id == request[o].id
  <1>1. id \in 1 .. last_id
    BY DEF RequestInv, Knows
  <1>2. id \in overlapped \/ rules[id] \in {request[o].loaded, NoRow}
    BY DEF LoadedInv
  <1>3. /\ overlapped \subseteq overlapped'
        /\ id # request[r].id => rules'[id] = rules[id]
        /\ rules[id] = NoRow => rules'[id] = NoRow
    BY <1>1, CommitEffect
  <1>4. CASE id # request[r].id
    BY <1>2, <1>3, <1>4
  <1>5. CASE id = request[r].id /\ request[r].method = "POST"
    <2>1. last_id + 1 # id /\ id \in Ids /\ rules \in Table
      BY <1>1, IdsInterval DEF TypeOK
    <2>2. rules' = [rules EXCEPT ![last_id + 1] = request[r].body]
      BY <1>5 DEF Commit, Insert, Update, Delete
    <2>3. rules'[id] = rules[id]
      BY <2>1, <2>2 DEF Table
    <2> QED
      BY <1>2, <1>3, <2>3
  <1>6. CASE id = request[r].id /\ request[r].method = "PUT"
    <2>1. CASE rules[id] = NoRow
      BY <1>3, <2>1
    <2>2. CASE rules[id] # NoRow
      <3>1. OthersLoaded(r)
        BY <1>6 DEF OthersLoaded
      <3>2. overlapped' = overlapped \cup {id}
        BY <1>6, <2>2, <3>1 DEF Commit, Insert, Update, Delete, WriteRow
      <3> QED
        BY <3>2
    <2> QED
      BY <2>1, <2>2
  <1>7. CASE id = request[r].id /\ request[r].method = "DELETE"
    <2>1. rules' = [rules EXCEPT ![id] = NoRow]
      BY <1>7 DEF Commit, Insert, Update, Delete
    <2>2. id \in Ids /\ rules \in Table
      BY <1>1, IdsInterval DEF TypeOK
    <2> QED
      BY <2>1, <2>2 DEF Table
  <1> QED
    BY <1>4, <1>5, <1>6, <1>7 DEF Commit, Insert, Update, Delete

(* Every step keeps LoadedInv: a row that was selected is as it is loaded,  *)
(* and a commit is LoadedCommit's.                                          *)
LEMMA LoadedStep ==
    ASSUME TypeOK, SequenceInv, RequestInv, LoadedInv, [Next]_vars
    PROVE  LoadedInv'
  <1>1. RequestType
    BY DEF TypeOK, RequestType, RequestRecord
  <1> SUFFICES ASSUME NEW o \in Requests,
                      request'[o].pc = "committing", request'[o].method = "PUT"
               PROVE  \/ request'[o].id \in overlapped'
                      \/ rules'[request'[o].id] \in {request'[o].loaded, NoRow}
    BY DEF LoadedInv, At
  <1>2. ASSUME request'[o] = request[o], UNCHANGED <<rules, overlapped>>
        PROVE  \/ request'[o].id \in overlapped'
               \/ rules'[request'[o].id] \in {request'[o].loaded, NoRow}
    BY <1>2 DEF LoadedInv, At
  <1>3. ASSUME NEW r \in Requests, Handler(r)
        PROVE  \/ request'[o].id \in overlapped'
               \/ rules'[request'[o].id] \in {request'[o].loaded, NoRow}
    <2>1. CASE Receive(r)
      <3>1. o # r /\ request'[o] = request[o]
        BY <1>1, <2>1, ReceiveEffect DEF TypeOK
      <3> QED
        BY <1>2, <2>1, <3>1 DEF Receive
    <2>2. CASE Select(r)
      <3> DEFINE id == request[r].id
      <3>1. id \in 1 .. last_id
        BY <2>2 DEF Select, RequestInv, Knows
      <3>2. id \in Ids
        <4> HIDE DEF id
        <4> QED
          BY <3>1, IdsInterval DEF TypeOK
      <3>3. rules[id] \in Row \cup {NoRow}
        BY <3>2 DEF TypeOK, Table
      <3>4. /\ request'[r].id = id
            /\ request'[r].loaded = rules[id]
            /\ \A q \in Requests \ {r} : request'[q] = request[q]
        BY <1>1, <2>2, <3>3, SelectEffect
      <3>5. UNCHANGED <<rules, overlapped>>
        BY <2>2 DEF Select
      <3> QED
        BY <1>2, <3>4, <3>5
    <2>3. CASE Commit(r)
      <3>1. o # r /\ request'[o] = request[o]
        BY <2>3, CommitEffect
      <3> QED
        BY <2>3, <3>1, LoadedCommit DEF At
    <2>4. CASE \E pc \in Answers : To(r, pc) /\ UNCHANGED <<rules, overlapped>>
      <3>1. PICK pc \in Answers : To(r, pc) /\ UNCHANGED <<rules, overlapped>>
        BY <2>4
      <3>2. /\ request'[r].pc \in {"ok", "not found", "error"}
            /\ \A q \in Requests \ {r} : request'[q] = request[q]
        BY <1>1, <3>1, ToEffect DEF RequestPCs, Answers
      <3> QED
        BY <1>2, <3>1, <3>2
    <2> QED
      BY <1>3, <2>1, <2>2, <2>3, <2>4 DEF Handler, Unwritten, Announce, Unannounced, Answers
  <1>4. CASE CrashApi
    <2>1. request'[o] = request[o]
      BY <1>1, <1>4, CrashEffect
    <2> QED
      BY <1>2, <1>4, <2>1 DEF CrashApi
  <1>5. CASE UNCHANGED apiSide
    BY <1>2, <1>5 DEF apiSide
  <1> QED
    BY <1>3, <1>4, <1>5
    DEF Next, EngineStep, StartEngine, Subscribed, Fetch, Apply, Hear, Reconnect, StopEngine,
        vars, apiSide

(* Every step keeps RowIsOneBody: a PUT that writes over the row it loaded  *)
(* writes its whole body, and one that does not has overlapped.             *)
LEMMA BodyStep ==
    ASSUME TypeOK, SequenceInv, RequestInv, LoadedInv, RowIsOneBody, [Next]_vars
    PROVE  RowIsOneBody'
  <1>1. ASSUME NEW r \in Requests, Commit(r)
        PROVE  RowIsOneBody'
    <2>1. /\ rules \in Table /\ written \in Table /\ At(r, "committing")
          /\ overlapped \subseteq overlapped'
      BY <1>1, CommitEffect DEF TypeOK, Commit
    <2>2. ASSUME NEW i \in Ids, NEW row, NEW body, row # body => i \in overlapped,
                 rules' = [rules EXCEPT ![i] = row], written' = [written EXCEPT ![i] = body]
          PROVE  RowIsOneBody'
      BY <2>1, <2>2 DEF RowIsOneBody, Table
    <2>3. CASE Insert(r)
      <3>1. last_id + 1 \in Ids
        BY <2>1, RoomForInsert
      <3> QED
        BY <2>2, <2>3, <3>1 DEF Insert
    <2>4. CASE Update(r)
      <3> DEFINE id == request[r].id
                 row == Merged(r, rules[id])
      <3>1. /\ id \in 1 .. last_id
            /\ request[r].body \in Row
            /\ request[r].method = "PUT"
        BY <2>1, <2>4 DEF Update, RequestInv, Knows
      <3>2. id \in Ids
        <4> HIDE DEF id
        <4> QED
          BY <3>1, IdsInterval DEF TypeOK
      <3>3. CASE rules[id] = NoRow
        BY <2>1, <2>4, <3>3 DEF Update, RowIsOneBody
      <3>4. CASE rules[id] # NoRow
        <4>1. id \in overlapped \/ rules[id] = request[r].loaded
          BY <2>1, <3>1, <3>4 DEF LoadedInv
        <4>2. row # request[r].body => id \in overlapped
          BY <3>1, <4>1, MergedIsBody
        <4>3. WriteRow(r, row)
          BY <2>4, <3>4 DEF Update
        <4> HIDE DEF row
        <4>4. rules' = [rules EXCEPT ![id] = row]
              /\ written' = [written EXCEPT ![id] = request[r].body]
          BY <4>3 DEF WriteRow
        <4> HIDE DEF id
        <4> QED
          BY <2>2, <3>2, <4>2, <4>4
      <3> QED
        BY <3>3, <3>4
    <2>5. CASE Delete(r)
      <3> DEFINE id == request[r].id
      <3>1. id \in 1 .. last_id
        BY <2>1, <2>5 DEF Delete, RequestInv, Knows
      <3>2. rules' = [rules EXCEPT ![id] = NoRow] /\ written' = [written EXCEPT ![id] = NoRow]
        BY <2>5 DEF Delete
      <3> HIDE DEF id
      <3>3. id \in Ids
        BY <3>1, IdsInterval DEF TypeOK
      <3> QED
        BY <2>2, <3>2, <3>3
    <2> QED
      BY <1>1, <2>3, <2>4, <2>5 DEF Commit
  <1>2. CASE UNCHANGED <<rules, written, overlapped>>
    BY <1>2 DEF RowIsOneBody
  <1> QED
    BY <1>1, <1>2
    DEF Next, Handler, Receive, Select, Unwritten, Announce, Unannounced, CrashApi, EngineStep,
        StartEngine, Subscribed, Fetch, Apply, Hear, Reconnect, StopEngine, vars, apiSide

-----------------------------------------------------------------------------
(* What the engine knows.                                                   *)

(* Every step keeps EngineKeepsUp: between a commit and its announcement    *)
(* the request is "committed", and afterwards there is a message to hear or *)
(* the engine was left out.                                                 *)
LEMMA EngineStepKeepsUp ==
    ASSUME TypeOK, SequenceInv, RequestInv, EngineKeepsUp, [Next]_vars
    PROVE  EngineKeepsUp'
  <1> SUFFICES ASSUME engine'.pc \in {"applying", "listening"}, pending' = 0,
                      ~engine'.failed, ~silent',
                      \A r \in Requests : request'[r].pc # "committed"
               PROVE  engine'.fetched = rules'
    BY DEF EngineKeepsUp, At
  <1>1. RequestType /\ pending \in Nat /\ silent \in BOOLEAN
    BY DEF TypeOK, RequestType, RequestRecord
  <1>2. ASSUME UNCHANGED <<engine, rules, pending, silent>>,
               \A r \in Requests : ~At(r, "committed")
        PROVE  engine'.fetched = rules'
    BY <1>2 DEF EngineKeepsUp
  <1>3. ASSUME NEW r \in Requests, Handler(r)
        PROVE  engine'.fetched = rules'
    <2>1. ASSUME \A o \in Requests \ {r} : request'[o] = request[o], ~At(r, "committed")
          PROVE  \A o \in Requests : ~At(o, "committed")
      BY <2>1 DEF At
    <2>2. CASE Receive(r)
      <3>1. \A o \in Requests \ {r} : request'[o] = request[o]
        BY <1>1, <2>2, ReceiveEffect DEF TypeOK
      <3> QED
        BY <1>2, <2>1, <2>2, <3>1 DEF Receive, At, engineSide
    <2>3. CASE Select(r)
      <3> DEFINE id == request[r].id
      <3>1. id \in 1 .. last_id
        BY <2>3 DEF Select, RequestInv, Knows
      <3>2. id \in Ids
        <4> HIDE DEF id
        <4> QED
          BY <3>1, IdsInterval DEF TypeOK
      <3>3. rules[id] \in Row \cup {NoRow}
        BY <3>2 DEF TypeOK, Table
      <3>4. \A o \in Requests \ {r} : request'[o] = request[o]
        BY <1>1, <2>3, <3>3, SelectEffect
      <3> QED
        BY <1>2, <2>1, <2>3, <3>4 DEF Select, At, engineSide
    <2>4. CASE Commit(r)
      BY <2>4, CommitEffect
    <2>5. CASE Unwritten(r)
      <3>1. \A o \in Requests \ {r} : request'[o] = request[o]
        BY <1>1, <2>5, ToEffect DEF Unwritten, RequestPCs, Answers
      <3> QED
        BY <1>2, <2>1, <2>5, <3>1 DEF Unwritten, At, engineSide
    <2>6. CASE Announce(r)
      <3>1. CASE subscribed
        <4>1. pending' = pending + 1
          BY <2>6, <3>1 DEF Announce
        <4> QED
          BY <1>1, <4>1
      <3>2. CASE ~subscribed
        <4>1. silent' = (silent \/ ~subscribed)
          BY <2>6 DEF Announce
        <4> QED
          BY <3>2, <4>1, Zenon
      <3> QED
        BY <3>1, <3>2
    <2>7. CASE Unannounced(r)
      BY <2>7 DEF Unannounced
    <2> QED
      BY <1>3, <2>2, <2>3, <2>4, <2>5, <2>6, <2>7 DEF Handler
  <1>4. CASE CrashApi
    <2>1. silent' = (silent \/ \E r \in Requests : At(r, "committed"))
      BY <1>4 DEF CrashApi
    <2>2. ~silent /\ \A r \in Requests : ~At(r, "committed")
      BY <2>1, Zenon
    <2>3. silent' = silent
      BY <1>1, <2>1, <2>2, Zenon
    <2> QED
      BY <1>2, <1>4, <2>2, <2>3 DEF CrashApi, engineSide
  <1>5. ASSUME UNCHANGED apiSide
        PROVE  \A r \in Requests : ~At(r, "committed")
    BY <1>5 DEF apiSide, At
  <1>6. CASE StartEngine \/ Hear \/ StopEngine
    BY <1>6 DEF StartEngine, Hear, StopEngine, EngineTo, TypeOK
  <1>7. CASE Subscribed \/ UNCHANGED vars
    BY <1>2, <1>5, <1>7 DEF Subscribed, apiSide, vars
  <1>8. CASE Fetch
    BY <1>8 DEF Fetch, apiSide
  <1>9. CASE Apply
    <2>1. engine.pc = "applying" /\ engine'.fetched = engine.fetched
          /\ engine'.failed = engine.failed
      BY <1>9 DEF Apply, EngineAt, EngineTo, TypeOK
    <2> QED
      BY <1>5, <1>9, <2>1 DEF Apply, apiSide, EngineKeepsUp
  <1>10. CASE Reconnect
    <2>1. silent' = (silent \/ pending > 0)
      BY <1>10 DEF Reconnect
    <2>2. ~silent /\ ~(pending > 0)
      BY <2>1, Zenon
    <2>3. pending = 0
      BY <1>1, <2>2
    <2> QED
      BY <1>5, <1>10, <2>2, <2>3 DEF Reconnect, apiSide, EngineKeepsUp
  <1> QED
    BY <1>3, <1>4, <1>6, <1>7, <1>8, <1>9, <1>10 DEF Next, EngineStep

-----------------------------------------------------------------------------
(* The theorems.                                                            *)

(* The inductive invariant holds at the start.                              *)
LEMMA InitIndInv ==
    Init => IndInv
  <1> SUFFICES ASSUME Init
               PROVE  IndInv
    OBVIOUS
  <1>1. TypeOK
    BY TypeInit
  <1>2. \A r \in Requests : request[r].pc = "none"
    BY DEF Init, Idle
  <1>3. SequenceInv
    <2>1. Past = {}
      BY <1>2 DEF Past, Uncommitted
    <2> QED
      BY <2>1, FS_EmptySet DEF SequenceInv, Init
  <1>4. RequestInv /\ LoadedInv
    BY <1>2 DEF RequestInv, Knows, LoadedInv, At
  <1>5. RowIsOneBody
    BY DEF Init, RowIsOneBody
  <1>6. EngineKeepsUp
    BY DEF Init, EngineKeepsUp
  <1> QED
    BY <1>1, <1>3, <1>4, <1>5, <1>6 DEF IndInv

(* Every step keeps the inductive invariant.                                *)
LEMMA NextIndInv ==
    IndInv /\ [Next]_vars => IndInv'
  BY TypeStep, SequenceStep, RequestStep, LoadedStep, BodyStep, EngineStepKeepsUp DEF IndInv

(* IndInv holds throughout, for every finite set of requests, every set of  *)
(* priorities and any number of faults.                                     *)
THEOREM Invariant ==
    Spec => []IndInv
  <1> QED
    BY InitIndInv, NextIndInv, PTL DEF Spec

(* The variables keep their types; in particular the sequence of            *)
(* routing_rules.id (models/routing_rule.py) does not run out of ids.       *)
THEOREM TypeCorrect ==
    Spec => []TypeOK
  <1>1. IndInv => TypeOK
    BY DEF IndInv
  <1> QED
    BY <1>1, Invariant, PTL

(* routing.py, update_routing_rule: a row mixes two bodies only if two PUTs *)
(* of it overlapped.                                                        *)
THEOREM RowsAreBodies ==
    Spec => []RowIsOneBody
  <1>1. IndInv => RowIsOneBody
    BY DEF IndInv
  <1> QED
    BY <1>1, Invariant, PTL

(* rule_engine.py, rule_engine_loop: an engine that was left out of nothing *)
(* and has heard all has the table.                                         *)
THEOREM EngineCatchesUp ==
    Spec => []EngineKeepsUp
  <1>1. IndInv => EngineKeepsUp
    BY DEF IndInv
  <1> QED
    BY <1>1, Invariant, PTL

(* routing.py: no interleaving of the handlers brings a deleted row back.   *)
THEOREM DeletionsLast ==
    Spec => DeletedStaysDeleted
  <1>1. IndInv /\ [Next]_vars
          => [\A id \in 1 .. last_id : rules[id] = NoRow => rules'[id] = NoRow]_vars
    BY DeletionStep DEF IndInv
  <1> QED
    BY <1>1, Invariant, PTL DEF Spec, DeletedStaysDeleted

=============================================================================
