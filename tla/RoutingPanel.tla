----------------------------- MODULE RoutingPanel -----------------------------
(***************************************************************************)
(* The routing panel (frontend/src/components/RoutingPanel.jsx) over the   *)
(* table of routing rules.  It asks for the rules when it is mounted,      *)
(* every 5 seconds and after each click, and never cancels a request.      *)
(* The API changes the table in one commit each (module RoutingRules has   *)
(* its steps) and asks for a key in a header (backend/app/core/security.py)*)
(* that the panel does not send and no proxy adds (infra/nginx,            *)
(* frontend/vite.config.js).                                               *)
(* A rule is its id and whether it is active; other columns are left out.  *)
(***************************************************************************)
EXTENDS Naturals, Sequences, SequencesExt, Functions

CONSTANTS
    RuleIds,        \* ids of rules
    ServerKey,      \* AINIS_API_KEY, or NoKey when it is not set
    NoKey,          \* no X-API-Key header
    ErrorObject,    \* what an answer that is refused holds
    MaxRequests,    \* bound: requests of the panel under way at a time
    MaxChanges,     \* bound: changes of the table by other clients
    MaxClicks       \* bound: clicks that send a request, while the panel is mounted

ASSUME RoutingPanelAssumption ==
    /\ MaxRequests \in Nat \ {0}
    /\ MaxChanges \in Nat
    /\ MaxClicks \in Nat

VARIABLES
    rules,          \* the table
    changes,        \* changes so far
    clicks,         \* clicks since it was mounted
    routingPanel,   \* the component
    requests        \* its requests, in the order they were made

routingVars == <<rules, changes, clicks, routingPanel, requests>>

Tables == UNION {[ids -> BOOLEAN] : ids \in SUBSET RuleIds}

ASSUME ErrorAssumption == ErrorObject \notin Tables

NoRules == [id \in {} |-> FALSE]
Write == [state : {"asked"}, method : {"POST", "PUT"}, id : RuleIds, active : BOOLEAN]
           \cup [state : {"asked"}, method : {"DELETE"}, id : RuleIds]
Request == Write \cup [state : {"asked", "failed"}, method : {"GET"}]
             \cup [state : {"answered"}, method : {"GET"}, rules : Tables]
             \cup [state : {"answered", "refused", "failed"}, method : {"POST", "PUT", "DELETE"}]

RoutingTypeOK ==
    /\ rules \in Tables
    /\ changes \in 0 .. MaxChanges
    /\ clicks \in 0 .. MaxClicks
    /\ routingPanel \in [mounted : BOOLEAN, rules : Tables, loading : BOOLEAN,
                         showForm : BOOLEAN]
    /\ requests \in Seq(Request)
    /\ Len(requests) <= MaxRequests
    /\ ~routingPanel.mounted => requests = <<>>

RoutingUnmounted ==
    [mounted |-> FALSE, rules |-> NoRules, loading |-> TRUE, showForm |-> FALSE]

RoutingInit ==
    /\ rules \in {NoRules, [id \in RuleIds |-> TRUE]}
    /\ changes = 0
    /\ clicks = 0
    /\ routingPanel = RoutingUnmounted
    /\ requests = <<>>

-----------------------------------------------------------------------------
(* The API.                                                                 *)

verify_api_key(key) == ServerKey # NoKey /\ key = ServerKey

(* The table after a write; one of a rule that is not there is a 404.       *)
Written(w) ==
    CASE w.method = "POST"   -> [id \in DOMAIN rules \cup {w.id} |->
                                   IF id = w.id THEN w.active ELSE rules[id]]
      [] w.method = "PUT"    -> IF w.id \in DOMAIN rules
                                THEN [rules EXCEPT ![w.id] = w.active] ELSE rules
      [] w.method = "DELETE" -> Restrict(rules, DOMAIN rules \ {w.id})

(* Any client that has the key.  An id is new: the sequence never goes back.*)
OtherClientWrites ==
    /\ changes < MaxChanges
    /\ changes' = changes + 1
    /\ verify_api_key(ServerKey)
    /\ \E w \in Write :
         /\ w.method = "POST" => w.id \notin DOMAIN rules
         /\ rules' = Written(w)
    /\ UNCHANGED <<clicks, routingPanel, requests>>

fetchRules == [state |-> "asked", method |-> "GET"]

ServeRouting(i) ==
    /\ requests[i].state = "asked"
    /\ IF requests[i].method = "GET"
       THEN /\ requests' = [requests EXCEPT ![i] =
                              [state |-> "answered", method |-> "GET", rules |-> rules]]
            /\ rules' = rules
       ELSE IF verify_api_key(NoKey)
       THEN /\ rules' = Written(requests[i])
            /\ requests' = [requests EXCEPT ![i] = [state |-> "answered", method |-> @.method]]
       ELSE /\ rules' = rules
            /\ requests' = [requests EXCEPT ![i] = [state |-> "refused", method |-> @.method]]
    /\ UNCHANGED <<changes, clicks, routingPanel>>

(* No answer; or, to a GET, one that is not ok.                             *)
RefuseRouting(i) ==
    /\ requests[i].state = "asked"
    /\ requests' = [requests EXCEPT ![i] = [state |-> "failed", method |-> @.method]]
    /\ UNCHANGED <<rules, changes, clicks, routingPanel>>

-----------------------------------------------------------------------------
(* The component.                                                           *)

RoutingMount ==
    /\ routingPanel' = [RoutingUnmounted EXCEPT !.mounted = TRUE]
    /\ requests' = <<fetchRules>>
    /\ clicks' = 0
    /\ UNCHANGED <<rules, changes>>

(* The answers find no component, and what is under way changes nothing:    *)
(* the API refuses the panel's writes.                                      *)
RoutingUnmount ==
    /\ routingPanel' = RoutingUnmounted
    /\ requests' = <<>>
    /\ clicks' = 0
    /\ UNCHANGED <<rules, changes>>

Send(r) ==
    /\ Len(requests) < MaxRequests
    /\ requests' = Append(requests, r)
    /\ UNCHANGED <<rules, changes>>

Click(r) == clicks < MaxClicks /\ clicks' = clicks + 1 /\ Send(r)

(* The timer.                                                               *)
PollRules ==
    /\ routingPanel.mounted
    /\ Send(fetchRules)
    /\ UNCHANGED <<clicks, routingPanel>>

ToggleForm ==
    /\ routingPanel.mounted /\ ~routingPanel.loading
    /\ routingPanel' = [routingPanel EXCEPT !.showForm = ~@]
    /\ UNCHANGED <<rules, changes, clicks, requests>>

(* The id is given by the server.  The form stays until the answer.         *)
createRule ==
    /\ routingPanel.mounted /\ ~routingPanel.loading /\ routingPanel.showForm
    /\ \E id \in RuleIds \ DOMAIN rules, active \in BOOLEAN :
         Click([state |-> "asked", method |-> "POST", id |-> id, active |-> active])
    /\ UNCHANGED routingPanel

(* The whole row as it was fetched, but for active.                         *)
toggleRule(id) ==
    /\ routingPanel.mounted /\ ~routingPanel.loading
    /\ Click([state |-> "asked", method |-> "PUT", id |-> id, active |-> ~routingPanel.rules[id]])
    /\ UNCHANGED routingPanel

deleteRule(id) ==
    /\ routingPanel.mounted /\ ~routingPanel.loading
    /\ Click([state |-> "asked", method |-> "DELETE", id |-> id])
    /\ UNCHANGED routingPanel

(* Mutant: fetchRules takes any answer for the rules.                       *)
RulesArriveUnchecked(i) ==
    /\ requests[i].method = "GET" /\ requests[i].state # "asked"
    /\ routingPanel' = [routingPanel EXCEPT !.loading = FALSE,
                          !.rules = IF requests[i].state = "answered"
                                    THEN requests[i].rules ELSE ErrorObject]
    /\ requests' = RemoveAt(requests, i)
    /\ UNCHANGED <<rules, changes, clicks>>

(* fetchRules keeps what it has when the answer is not ok.                  *)
RulesArrive(i) ==
    /\ requests[i].method = "GET" /\ requests[i].state # "asked"
    /\ routingPanel' = [routingPanel EXCEPT !.loading = FALSE,
                          !.rules = IF requests[i].state = "answered"
                                    THEN requests[i].rules ELSE @]
    /\ requests' = RemoveAt(requests, i)
    /\ UNCHANGED <<rules, changes, clicks>>

(* Toggling and deleting do not look at the status: the rules are fetched   *)
(* again after any answer.  Creating does, and leaves the form as it is     *)
(* when the rule is not created.                                            *)
WriteArrives(i) ==
    LET refetch == Append(RemoveAt(requests, i), fetchRules)
        request == requests[i]
    IN  /\ request.method # "GET" /\ request.state # "asked"
        /\ requests' = IF \/ request.state = "answered"
                          \/ request.state = "refused" /\ request.method # "POST"
                       THEN refetch ELSE RemoveAt(requests, i)
        /\ routingPanel' = [routingPanel EXCEPT !.showForm =
                              @ /\ ~(request.method = "POST" /\ request.state = "answered")]
        /\ UNCHANGED <<rules, changes, clicks>>

-----------------------------------------------------------------------------
(* Properties.                                                              *)

(* A panel that stays open ends up with the table once nothing changes and  *)
(* nothing fails any more, although answers overtake each other and none is *)
(* ever cancelled.  (The timer asks again.)                                 *)
RulesSettle ==
    <>[](routingPanel.mounted) => <>[](routingPanel.rules = rules /\ ~routingPanel.loading)
=============================================================================
