------------------------------ MODULE Dashboard ------------------------------
(***************************************************************************)
(* The dashboard (frontend/src/main.jsx): a single-page application that   *)
(* shows one route at a time.  Navigating unmounts the components of one   *)
(* route and mounts those of the next; the backend goes on meanwhile.      *)
(* Composes PredictionsPanel, AlertsPage and RoutingPanel; the topology    *)
(* route is in module SocketStore.                                         *)
(***************************************************************************)
EXTENDS AlertsPage, PredictionsPanel, RoutingPanel

CONSTANT
    MaxFaults       \* bound: requests that fail or are refused, sockets that close

ASSUME DashboardAssumption == MaxFaults \in Nat

VARIABLES
    route,          \* the route shown, "blank" when React has given up the tree
    faults          \* failures so far

vars == <<route, faults, alertsVars, panelVars, routingVars>>

Routes == {"/", "/topology", "/alerts", "/routing"}
Blank == "blank"

TypeOK ==
    /\ route \in Routes \cup {Blank}
    /\ faults \in 0 .. MaxFaults
    /\ AlertsTypeOK /\ (alertsPage.mounted <=> route = "/alerts")
    /\ PanelTypeOK /\ (panel.mounted <=> route = "/")
    /\ RoutingTypeOK /\ (routingPanel.mounted <=> route = "/routing")

Init ==
    /\ route = "/topology"
    /\ faults = 0
    /\ AlertsInit /\ PanelInit /\ RoutingInit

(* A list that is none makes the next rendering throw: an answer with an   *)
(* error that is taken for a list takes the whole application down.         *)
Broken == panel.history = NotAList \/ routingPanel.rules = ErrorObject

Fault == faults < MaxFaults /\ faults' = faults + 1
NoFault == UNCHANGED faults

-----------------------------------------------------------------------------
(* Routing in the browser.                                                  *)

(* What a component does when the route changes from its own, to its own,   *)
(* or neither.                                                              *)
Switch(own, to, mount, unmount, leave) ==
    CASE to = own /\ route # own -> mount
      [] to # own /\ route = own -> unmount
      [] OTHER -> leave

GoTo(to) ==
    /\ route' = to
    /\ Switch("/", to, PanelMount, PanelUnmount, UNCHANGED panelVars)
    /\ Switch("/alerts", to, AlertsMount, AlertsUnmount, UNCHANGED alertsVars)
    /\ Switch("/routing", to, RoutingMount, RoutingUnmount, UNCHANGED routingVars)
    /\ NoFault

(* A click in the sidebar; from a blank page, a reload.                     *)
Navigate == \E to \in Routes \ {route} : ~Broken /\ GoTo(to)

(* There is no error boundary: the whole tree is unmounted.                 *)
Render == Broken /\ GoTo(Blank)

-----------------------------------------------------------------------------
(* The steps of the components and their servers.                           *)

AlertsLeaves == <<route, panelVars, routingVars>>
AlertsSteps(A) == ~Broken /\ A /\ UNCHANGED AlertsLeaves
AlertCreated == AlertsSteps(create_alert) /\ NoFault
AlertsTimer == AlertsSteps(loadAlerts) /\ NoFault
AlertsServed == AlertsSteps(\E i \in DOMAIN polls : ServeAlerts(i)) /\ NoFault
AlertsRefused == AlertsSteps(\E i \in DOMAIN polls : RefuseAlerts(i)) /\ Fault
AlertsAnswered == AlertsSteps(\E i \in DOMAIN polls : AlertsArrive(i)) /\ NoFault
PagerClicked == AlertsSteps(ClickPager) /\ NoFault

PanelLeaves == <<route, alertsVars, routingVars>>
PanelSteps(A) == ~Broken /\ A /\ UNCHANGED PanelLeaves
PredictionSaved == PanelSteps(SavePrediction) /\ NoFault
PredictionPublished == PanelSteps(PublishPrediction) /\ NoFault
PanelServed == PanelSteps(Subscribe \/ ServePredictions) /\ NoFault
PanelRefused == PanelSteps(RefusePredictions \/ PredictionsFail \/ onclosePanel) /\ Fault
PanelAnswered == PanelSteps(PredictionsArrive \/ ErrorArrives) /\ NoFault
PanelHears == PanelSteps(onopenPanel \/ onmessagePanel) /\ NoFault

RoutingLeaves == <<route, alertsVars, panelVars>>
RoutingSteps(A) == ~Broken /\ A /\ UNCHANGED RoutingLeaves
RulesChanged == RoutingSteps(OtherClientWrites) /\ NoFault
RoutingTimer == RoutingSteps(PollRules) /\ NoFault
RoutingServed == RoutingSteps(\E i \in DOMAIN requests : ServeRouting(i)) /\ NoFault
RoutingRefused == RoutingSteps(\E i \in DOMAIN requests : RefuseRouting(i)) /\ Fault
RoutingAnswered ==
    RoutingSteps(\E i \in DOMAIN requests : RulesArrive(i) \/ WriteArrives(i)) /\ NoFault
RoutingClicked ==
    /\ RoutingSteps(\/ ToggleForm \/ createRule
                    \/ \E id \in DOMAIN routingPanel.rules : toggleRule(id) \/ deleteRule(id))
    /\ NoFault

Next ==
    \/ Navigate \/ Render
    \/ AlertCreated \/ AlertsTimer \/ AlertsServed \/ AlertsRefused \/ AlertsAnswered
    \/ PagerClicked
    \/ PredictionSaved \/ PredictionPublished \/ PanelServed \/ PanelRefused
    \/ PanelAnswered \/ PanelHears
    \/ RulesChanged \/ RoutingTimer \/ RoutingServed \/ RoutingRefused \/ RoutingAnswered
    \/ RoutingClicked

Spec == Init /\ [][Next]_vars

OldestPoll ==
    polls # <<>> /\ AlertsSteps(ServeAlerts(1) \/ AlertsArrive(1)) /\ NoFault
OldestRequest ==
    /\ requests # <<>>
    /\ RoutingSteps(ServeRouting(1) \/ RulesArrive(1) \/ WriteArrives(1))
    /\ NoFault

(* The browser's timers fire while their component is mounted, the API      *)
(* answers or the connection fails, and an answer that came is handled: no  *)
(* request stays the oldest for ever.                                       *)
FairSpec ==
    /\ Spec
    /\ WF_vars(AlertsTimer) /\ WF_vars(OldestPoll)
    /\ WF_vars(RoutingTimer) /\ WF_vars(OldestRequest)
    /\ WF_vars(Render)

-----------------------------------------------------------------------------
(* Properties.                                                              *)

(* An application goes blank only while it shows the home route and only    *)
(* after a request was refused: no answer to the alerts page or the routing *)
(* panel, and none to a panel that is no longer mounted, takes the tree     *)
(* down.  (PredictionsPanel.jsx:51: its fetch alone does not look at the    *)
(* status.)                                                                 *)
BlankNeedsRefusal == [][route # Blank /\ route' = Blank => route = "/" /\ faults > 0]_vars

(* A page that stays open shows what is in the table in the end, whatever   *)
(* overtook what and whatever failed before.                                *)
PagesSettle == AlertsSettle /\ RulesSettle
=============================================================================
