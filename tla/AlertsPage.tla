------------------------------ MODULE AlertsPage ------------------------------
(***************************************************************************)
(* The alerts page of the dashboard (frontend/src/pages/Alerts.jsx) and    *)
(* the two operations of the alerts API (backend/app/api/alerts.py).       *)
(* The page asks for the alerts of its page number when it is mounted,     *)
(* every 15 seconds and when the number changes; a request takes any time, *)
(* so that requests overlap and their answers overtake each other.         *)
(* An alert is its number in the order of created_at, which is taken to be *)
(* distinct.                                                               *)
(***************************************************************************)
EXTENDS Integers, FiniteSets, Sequences, SequencesExt

CONSTANTS
    PageSize,       \* alerts of a page (20)
    MaxAlerts,      \* bound: alerts ever created
    MaxPolls        \* bound: requests of one component under way at a time

ASSUME AlertsAssumption ==
    /\ PageSize \in Nat \ {0}
    /\ MaxAlerts \in Nat
    /\ MaxPolls \in Nat \ {0}

VARIABLES
    created,        \* the table of alerts: 1 .. created
    alertsPage,     \* the state of the component
    polls           \* its requests that are not cancelled, in the order they were made

alertsVars == <<created, alertsPage, polls>>

Alerts == 1 .. MaxAlerts
Poll == [state : {"asked", "failed"}, page : Nat \ {0}]
          \cup [state : {"answered"}, page : Nat \ {0}, alerts : SUBSET Alerts]

AlertsTypeOK ==
    /\ created \in 0 .. MaxAlerts
    /\ alertsPage \in [mounted : BOOLEAN, page : Nat \ {0}, total : Nat,
                       alerts : SUBSET Alerts, loading : BOOLEAN, error : BOOLEAN]
    /\ polls \in Seq(Poll)
    /\ Len(polls) <= MaxPolls
    /\ ~alertsPage.mounted => polls = <<>>

AlertsUnmounted == [mounted |-> FALSE, page |-> 1, total |-> 0, alerts |-> {},
                    loading |-> TRUE, error |-> FALSE]

AlertsInit ==
    /\ created = 0
    /\ alertsPage = AlertsUnmounted
    /\ polls = <<>>

-----------------------------------------------------------------------------
(* The API.                                                                 *)

create_alert ==
    /\ created < MaxAlerts
    /\ created' = created + 1
    /\ UNCHANGED <<alertsPage, polls>>

(* Mutant: the oldest alerts come first.                                    *)
list_alerts_ascending(skip, limit) == {a \in 1 .. created : skip < a /\ a <= skip + limit}

(* Newest first, offset, limit.                                             *)
list_alerts(skip, limit) ==
    {a \in 1 .. created : skip <= created - a /\ created - a < skip + limit}

-----------------------------------------------------------------------------
(* The effect of the component and its timer.                               *)

skipOf(page) == (page - 1) * PageSize
Asked(page) == [state |-> "asked", page |-> page]

(* The effect runs for a page number: requests for another are cancelled,   *)
(* and what they answer is ignored.                                         *)
LoadFirst(component) ==
    /\ alertsPage' = [component EXCEPT !.loading = TRUE, !.error = FALSE]
    /\ polls' = <<Asked(component.page)>>

AlertsMount ==
    /\ LoadFirst([AlertsUnmounted EXCEPT !.mounted = TRUE])
    /\ UNCHANGED created

AlertsUnmount ==
    /\ alertsPage' = AlertsUnmounted
    /\ polls' = <<>>
    /\ UNCHANGED created

(* The timer.                                                               *)
loadAlerts ==
    /\ alertsPage.mounted
    /\ Len(polls) < MaxPolls
    /\ alertsPage' = [alertsPage EXCEPT !.loading = TRUE, !.error = FALSE]
    /\ polls' = Append(polls, Asked(alertsPage.page))
    /\ UNCHANGED created

ServeAlerts(i) ==
    /\ polls[i].state = "asked"
    /\ polls' = [polls EXCEPT ![i] =
                   [state |-> "answered", page |-> @.page,
                    alerts |-> list_alerts(skipOf(@.page), PageSize)]]
    /\ UNCHANGED <<created, alertsPage>>

(* No answer, or one that is not ok.                                        *)
RefuseAlerts(i) ==
    /\ polls[i].state = "asked"
    /\ polls' = [polls EXCEPT ![i] = [state |-> "failed", page |-> @.page]]
    /\ UNCHANGED <<created, alertsPage>>

totalOf(list, skip) == IF list = {} THEN 0 ELSE Cardinality(list) + skip

(* Either way the page stops loading; a success leaves an error that        *)
(* another request has set meanwhile.                                       *)
AlertsArrive(i) ==
    LET poll == polls[i]
    IN  /\ poll.state # "asked"
        /\ polls' = RemoveAt(polls, i)
        /\ alertsPage' =
             IF poll.state = "failed"
             THEN [alertsPage EXCEPT !.loading = FALSE, !.error = TRUE]
             ELSE [alertsPage EXCEPT !.loading = FALSE, !.alerts = poll.alerts,
                                     !.total = totalOf(poll.alerts, skipOf(poll.page))]
        /\ UNCHANGED created

-----------------------------------------------------------------------------
(* The pager: it is rendered below a list, and a button that is disabled    *)
(* does nothing when it is clicked.                                         *)

Greater(a, b) == IF a > b THEN a ELSE b
Lesser(a, b) == IF a < b THEN a ELSE b
totalPages == Greater(1, (alertsPage.total + PageSize - 1) \div PageSize)

Previous == IF alertsPage.page <= 1 THEN alertsPage.page ELSE Greater(1, alertsPage.page - 1)
Following == IF alertsPage.page >= totalPages
             THEN alertsPage.page ELSE Lesser(totalPages, alertsPage.page + 1)

ClickPager ==
    /\ alertsPage.mounted /\ ~alertsPage.loading /\ ~alertsPage.error
    /\ alertsPage.alerts # {}
    /\ \E p \in {Previous, Following} :
         IF p = alertsPage.page THEN UNCHANGED <<alertsPage, polls>>
                                ELSE LoadFirst([alertsPage EXCEPT !.page = p])
    /\ UNCHANGED created

-----------------------------------------------------------------------------
(* Properties.                                                              *)

Newest == {a \in 1 .. created : created - a < PageSize}

(* The page lists the newest alerts there are.                              *)
NewestShown ==
    /\ alertsPage.mounted /\ ~alertsPage.loading /\ ~alertsPage.error
    /\ alertsPage.alerts = Newest

(* "full alert history" (docs/runbook.md:737, of Alerts.jsx): a page that   *)
(* lists what is in the table has a place on one of its pages for every     *)
(* alert of it.  This is not so (OlderAlertsUnreachable in DashboardProofs).*)
FullHistoryOffered == NewestShown => created <= totalPages * PageSize

(* A page that stays open ends up with the newest alerts and no error once  *)
(* nothing is created and nothing fails any more, although stale answers    *)
(* may arrive last and errors outlive later successes.  (The timer asks     *)
(* again, and asking clears the error.)                                     *)
AlertsSettle ==
    <>[](alertsPage.mounted) => <>[](alertsPage.alerts = Newest /\ ~alertsPage.error)
=============================================================================
