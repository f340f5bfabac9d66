---------------------------- MODULE RoutingRules ----------------------------
(***************************************************************************)
(* Routing rules from the REST API to the traffic shaper:                  *)
(*   the handlers of backend/app/api/routing.py, each with a database      *)
(*   session of its own, interleave at their awaits; a change is committed *)
(*   first and published on "routing_rules_updated" afterwards;            *)
(*   the rule engine (services/rule_engine.py), another process, fetches   *)
(*   the rules over HTTP whenever it hears of a change, and rebuilds the   *)
(*   tc configuration of its interfaces (backend/capture/qos_manager.py).  *)
(***************************************************************************)
EXTENDS Naturals, FiniteSets

CONSTANTS
    Requests,       \* bound: the write requests the API receives
    Priorities,     \* bound: the priorities rules are given
    MaxFaults       \* bound: failed commits, refreshes, publications and fetches, broken
                    \* connections, crashes

Row == [priority : Priorities, active : BOOLEAN]
NoRow == [priority |-> 0, active |-> FALSE]
Ids == 1 .. Cardinality(Requests) + 1

ASSUME RoutingAssumption ==
    /\ IsFiniteSet(Requests)
    /\ Priorities \subseteq Nat \ {0}
    /\ MaxFaults \in Nat

VARIABLES
    rules,          \* the table routing_rules: the row of each id, if it has one
    last_id,        \* the id given out last
    request,        \* each write request: position, method, id, body, the row it loaded
    engine,         \* the rule engine: position, rules fetched last, did that fetch fail?
    subscribed,     \* does Redis count the engine among the channel's subscribers?
    pending,        \* messages on their way to the engine
    classes,        \* priorities that have a tc class on the engine's interfaces
    faults,         \* failures so far
    silent,         \* history: was a change committed since the engine's last fetch
                    \* that the engine will not be told of?
    written,        \* history: the body committed last for each id
    overlapped      \* history: ids with a PUT committed while another one had the row loaded

vars == <<rules, last_id, request, engine, subscribed, pending, classes, faults, silent,
          written, overlapped>>

Methods == {"POST", "PUT", "DELETE"}
Answers == {"ok", "not found", "error"}
RequestPCs == {"none", "selecting", "committing", "committed"} \cup Answers
EnginePCs == {"down", "fetching", "applying", "listening"}
Idle == [pc |-> "none", method |-> "none", id |-> 0, body |-> NoRow, loaded |-> NoRow]
Table == [Ids -> Row \cup {NoRow}]

TypeOK ==
    /\ rules \in Table
    /\ last_id \in Ids
    /\ \A id \in Ids : id > last_id => rules[id] = NoRow
    /\ request \in [Requests -> [pc : RequestPCs, method : Methods \cup {"none"},
                                 id : Ids \cup {0}, body : Row \cup {NoRow},
                                 loaded : Row \cup {NoRow}]]
    /\ engine \in [pc : EnginePCs, fetched : Table, failed : BOOLEAN]
    /\ subscribed \in BOOLEAN
    /\ pending \in Nat
    /\ classes \subseteq Priorities
    /\ faults \in 0 .. MaxFaults
    /\ silent \in BOOLEAN
    /\ written \in Table
    /\ overlapped \subseteq Ids

EmptyTable == [id \in Ids |-> NoRow]

(* One rule is there from the start.                                        *)
Init ==
    /\ \E row \in Row : rules = [EmptyTable EXCEPT ![1] = row]
    /\ last_id = 1
    /\ request = [r \in Requests |-> Idle]
    /\ engine = [pc |-> "down", fetched |-> EmptyTable, failed |-> FALSE]
    /\ subscribed = FALSE
    /\ pending = 0
    /\ classes = {}
    /\ faults = 0
    /\ silent = FALSE
    /\ written = rules
    /\ overlapped = {}

Fault == /\ faults < MaxFaults
         /\ faults' = faults + 1

-----------------------------------------------------------------------------
(* The handlers of the API.                                                 *)

At(r, pc) == request[r].pc = pc
To(r, pc) == request' = [request EXCEPT ![r].pc = pc]
engineSide == <<engine, subscribed, classes>>

(* POST has nothing to select.  The body has passed the schema.             *)
Receive(r) ==
    /\ At(r, "none")
    /\ \/ \E body \in Row :
            request' = [request EXCEPT ![r] = [Idle EXCEPT !.pc = "committing",
                                                 !.method = "POST", !.body = body]]
       \/ \E id \in 1 .. last_id, body \in Row :
            request' = [request EXCEPT ![r] = [Idle EXCEPT !.pc = "selecting",
                                                 !.method = "PUT", !.id = id, !.body = body]]
       \/ \E id \in 1 .. last_id :
            request' = [request EXCEPT ![r] = [Idle EXCEPT !.pc = "selecting",
                                                 !.method = "DELETE", !.id = id]]
    /\ UNCHANGED <<rules, last_id, engineSide, pending, faults, silent, written, overlapped>>

Select(r) ==
    /\ At(r, "selecting")
    /\ LET row == rules[request[r].id]
       IN  request' = [request EXCEPT ![r].pc = IF row = NoRow THEN "not found"
                                                ELSE "committing",
                                      ![r].loaded = row]
    /\ UNCHANGED <<rules, last_id, engineSide, pending, faults, silent, written, overlapped>>

(* Mutant: the row is inserted at an id the sequence has not given out.      *)
InsertKeepsSequence(r) ==
    /\ request[r].method = "POST"
    /\ last_id' = last_id
    /\ rules' = [rules EXCEPT ![last_id + 1] = request[r].body]
    /\ written' = [written EXCEPT ![last_id + 1] = request[r].body]
    /\ request' = [request EXCEPT ![r].pc = "committed", ![r].id = last_id + 1]
    /\ UNCHANGED overlapped

Insert(r) ==
    /\ request[r].method = "POST"
    /\ last_id' = last_id + 1
    /\ rules' = [rules EXCEPT ![last_id + 1] = request[r].body]
    /\ written' = [written EXCEPT ![last_id + 1] = request[r].body]
    /\ request' = [request EXCEPT ![r].pc = "committed", ![r].id = last_id + 1]
    /\ UNCHANGED overlapped

Changed(r) == request[r].body # request[r].loaded

(* The session writes the columns that differ from the row it loaded.       *)
Merged(r, row) ==
    LET req == request[r]
    IN  [priority |-> IF req.body.priority = req.loaded.priority
                      THEN row.priority ELSE req.body.priority,
         active |-> IF req.body.active = req.loaded.active
                    THEN row.active ELSE req.body.active]

OthersLoaded(r) ==
    \E o \in Requests \ {r} : At(o, "committing") /\ request[o].method = "PUT"
                               /\ request[o].id = request[r].id

WriteRow(r, row) ==
    LET id == request[r].id
    IN  /\ rules' = [rules EXCEPT ![id] = row]
        /\ written' = [written EXCEPT ![id] = request[r].body]
        /\ overlapped' = overlapped \cup IF OthersLoaded(r) THEN {id} ELSE {}

(* Mutant: an update of a row that is gone inserts it again.                *)
UpdateOrInsert(r) ==
    /\ request[r].method = "PUT"
    /\ WriteRow(r, IF rules[request[r].id] = NoRow THEN request[r].body
                   ELSE Merged(r, rules[request[r].id]))
    /\ To(r, "committed")
    /\ UNCHANGED last_id

(* Mutant: only the values that are true are set.                           *)
UpdateTruthy(r) ==
    /\ request[r].method = "PUT"
    /\ rules[request[r].id] # NoRow
    /\ WriteRow(r, [Merged(r, rules[request[r].id]) EXCEPT
                      !.active = @ \/ rules[request[r].id].active])
    /\ To(r, "committed")
    /\ UNCHANGED last_id

(* A row that was deleted since it was loaded fails the commit (Unwritten)  *)
(* if there is a column to write, and the refresh (Refreshed) otherwise.    *)
Update(r) ==
    /\ request[r].method = "PUT"
    /\ IF rules[request[r].id] = NoRow
       THEN ~Changed(r) /\ UNCHANGED <<rules, written, overlapped>>
       ELSE WriteRow(r, Merged(r, rules[request[r].id]))
    /\ To(r, "committed")
    /\ UNCHANGED last_id

(* Deleting a row that is gone is no error.                                 *)
Delete(r) ==
    /\ request[r].method = "DELETE"
    /\ rules' = [rules EXCEPT ![request[r].id] = NoRow]
    /\ written' = [written EXCEPT ![request[r].id] = NoRow]
    /\ To(r, "committed")
    /\ UNCHANGED <<last_id, overlapped>>

Commit(r) ==
    /\ At(r, "committing")
    /\ Insert(r) \/ Update(r) \/ Delete(r)
    /\ UNCHANGED <<engineSide, pending, faults, silent>>

(* The commit raises: the row is gone, or the database fails.               *)
Unwritten(r) ==
    /\ At(r, "committing")
    /\ \/ /\ request[r].method = "PUT"
          /\ rules[request[r].id] = NoRow
          /\ Changed(r)
          /\ UNCHANGED faults
       \/ Fault
    /\ To(r, "error")
    /\ UNCHANGED <<rules, last_id, engineSide, pending, silent, written, overlapped>>

Refreshed(r) == request[r].method # "DELETE" => rules[request[r].id] # NoRow

(* Mutant: a deletion is not published.                                     *)
AnnounceNoDeletion(r) ==
    /\ At(r, "committed")
    /\ Refreshed(r)
    /\ To(r, "ok")
    /\ pending' = IF subscribed /\ request[r].method # "DELETE" THEN pending + 1 ELSE pending
    /\ silent' = (silent \/ ~subscribed)
    /\ UNCHANGED <<rules, last_id, engineSide, faults, written, overlapped>>

(* The refresh, and the publication with no await in between.  Redis passes *)
(* the message to those that are subscribed now.                            *)
Announce(r) ==
    /\ At(r, "committed")
    /\ Refreshed(r)
    /\ To(r, "ok")
    /\ pending' = IF subscribed THEN pending + 1 ELSE pending
    /\ silent' = (silent \/ ~subscribed)
    /\ UNCHANGED <<rules, last_id, engineSide, faults, written, overlapped>>

(* The refresh finds no row, or fails, or the publication does: the caller  *)
(* gets an error although the change is committed.                          *)
Unannounced(r) ==
    /\ At(r, "committed")
    /\ IF Refreshed(r) THEN Fault ELSE UNCHANGED faults
    /\ To(r, "error")
    /\ silent' = TRUE
    /\ UNCHANGED <<rules, last_id, engineSide, pending, written, overlapped>>

(* The API process ends: what is committed stays.                           *)
CrashApi ==
    /\ Fault
    /\ request' = [r \in Requests |-> IF request[r].pc \in {"none"} \cup Answers
                                      THEN request[r] ELSE [request[r] EXCEPT !.pc = "error"]]
    /\ silent' = (silent \/ \E r \in Requests : At(r, "committed"))
    /\ UNCHANGED <<rules, last_id, engineSide, pending, written, overlapped>>

-----------------------------------------------------------------------------
(* The rule engine.                                                         *)

apiSide == <<rules, last_id, request, written, overlapped>>
EngineAt(pc) == engine.pc = pc
EngineTo(pc) == engine' = [engine EXCEPT !.pc = pc]

(* subscribe sends its command and does not wait for the confirmation.      *)
StartEngine ==
    /\ EngineAt("down")
    /\ EngineTo("fetching")
    /\ UNCHANGED <<apiSide, subscribed, pending, classes, faults, silent>>

(* Redis gets to the command.                                               *)
Subscribed ==
    /\ ~EngineAt("down")
    /\ ~subscribed
    /\ subscribed' = TRUE
    /\ UNCHANGED <<apiSide, engine, pending, classes, faults, silent>>

(* fetch_active_rules: an error looks like an empty list.                   *)
Fetch ==
    /\ EngineAt("fetching")
    /\ \/ /\ engine' = [pc |-> "applying", fetched |-> rules, failed |-> FALSE]
          /\ UNCHANGED faults
       \/ /\ engine' = [pc |-> "applying", fetched |-> EmptyTable, failed |-> TRUE]
          /\ Fault
    /\ silent' = FALSE
    /\ UNCHANGED <<apiSide, subscribed, pending, classes>>

(* r.get("is_active"): a field rules do not have counts as false.           *)
ActiveRules(table) ==
    {id \in Ids : "is_active" \in DOMAIN table[id] /\ table[id].is_active}

(* clear_qos on every interface, then one class for each priority in use.   *)
Apply ==
    /\ EngineAt("applying")
    /\ classes' = {engine.fetched[id].priority : id \in ActiveRules(engine.fetched)}
    /\ EngineTo("listening")
    /\ UNCHANGED <<apiSide, subscribed, pending, faults, silent>>

Hear ==
    /\ EngineAt("listening")
    /\ pending > 0
    /\ pending' = pending - 1
    /\ EngineTo("fetching")
    /\ UNCHANGED <<apiSide, subscribed, classes, faults, silent>>

(* The connection to Redis breaks under listen, and the client library      *)
(* connects and subscribes again: nothing tells the loop, which fetches no  *)
(* rules for it.  What Redis had for the engine is gone.                    *)
Reconnect ==
    /\ EngineAt("listening")
    /\ Fault
    /\ subscribed' = FALSE
    /\ pending' = 0
    /\ silent' = (silent \/ pending > 0)
    /\ UNCHANGED <<apiSide, engine, classes>>

(* The connection breaks for good or the process ends.  What tc was told    *)
(* stays.                                                                   *)
StopEngine ==
    /\ ~EngineAt("down")
    /\ Fault
    /\ EngineTo("down")
    /\ subscribed' = FALSE
    /\ pending' = 0
    /\ UNCHANGED <<apiSide, classes, silent>>

Handler(r) ==
    Receive(r) \/ Select(r) \/ Commit(r) \/ Unwritten(r) \/ Announce(r) \/ Unannounced(r)

EngineStep == Subscribed \/ Fetch \/ Apply \/ Hear

Next ==
    \/ \E r \in Requests : Handler(r)
    \/ CrashApi
    \/ StartEngine \/ EngineStep \/ Reconnect \/ StopEngine

Spec == Init /\ [][Next]_vars

-----------------------------------------------------------------------------
(* Properties.                                                              *)

(* When the engine has nothing left to hear and no change was committed     *)
(* behind its back, what it fetched last is the table, however its fetches  *)
(* and the commits interleaved.  (routing.py commits before it publishes,   *)
(* rule_engine.py takes one message and fetches once for it.)               *)
EngineKeepsUp ==
    /\ engine.pc \in {"applying", "listening"}
    /\ pending = 0
    /\ ~engine.failed
    /\ ~silent
    /\ \A r \in Requests : ~At(r, "committed")
    => engine.fetched = rules

(* A deleted rule stays deleted: a PUT that had loaded it does not bring it *)
(* back, and its id is not given out again.                                 *)
DeletedStaysDeleted ==
    [][\A id \in 1 .. last_id : rules[id] = NoRow => rules'[id] = NoRow]_vars

(* A row is one body as a whole, the one committed last, unless two PUTs    *)
(* of it overlapped: update_routing_rule sets every column, but the session *)
(* writes only those that differ from the row it loaded.                    *)
RowIsOneBody ==
    \A id \in Ids : rules[id] # written[id] => id \in overlapped

(* "A rule engine applies configured routing priorities to the simulated    *)
(* topology" (README.md:49): once the engine has seen the table, every      *)
(* active rule has the class of its priority.                               *)
PrioritiesApplied ==
    /\ EngineAt("listening")
    /\ ~engine.failed
    /\ engine.fetched = rules
    => {rules[id].priority : id \in {i \in Ids : rules[i].active}} \subseteq classes

-----------------------------------------------------------------------------
(* The inductive invariant behind TypeOK, RowIsOneBody, DeletedStaysDeleted *)
(* and EngineKeepsUp.                                                       *)

Uncommitted == {"none", "selecting", "committing"}
Past == {r \in Requests : request[r].pc \notin Uncommitted}

(* The sequence has given out an id for each request that is past its       *)
(* commit at most, so that there is one left for each of the others.        *)
SequenceInv == last_id <= 1 + Cardinality(Past)

(* What a handler knows in each position.                                   *)
Knows(r) ==
    LET req == request[r]
    IN  /\ At(r, "selecting") => /\ req.method \in {"PUT", "DELETE"}
                                 /\ req.id \in 1 .. last_id
                                 /\ req.method = "PUT" => req.body \in Row
        /\ At(r, "committing") => /\ req.method \in Methods
                                  /\ req.method # "POST" => req.id \in 1 .. last_id
                                  /\ req.method # "DELETE" => req.body \in Row
                                  /\ req.method = "PUT" => req.loaded \in Row
        /\ At(r, "committed") => req.id \in 1 .. last_id

RequestInv == \A r \in Requests : Knows(r)

(* A PUT that is about to commit has the row as it is now, or the row is    *)
(* gone, or another PUT has committed over it.                              *)
LoadedInv ==
    \A r \in Requests :
        At(r, "committing") /\ request[r].method = "PUT"
          => \/ request[r].id \in overlapped
             \/ rules[request[r].id] \in {request[r].loaded, NoRow}

IndInv ==
    TypeOK /\ SequenceInv /\ RequestInv /\ LoadedInv /\ RowIsOneBody /\ EngineKeepsUp
=============================================================================
