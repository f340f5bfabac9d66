--------------------------- MODULE PredictionsPanel ---------------------------
(***************************************************************************)
(* The predictions panel (frontend/src/components/PredictionsPanel.jsx):   *)
(* when it is mounted it asks once for the latest predictions              *)
(* (GET /predict/predictions/latest, backend/app/api/predictions.py) and   *)
(* opens a socket of its own on /ws/predictions.  The answer replaces the  *)
(* list, each message is put in front of it, and the two may come in any   *)
(* order.  The inference scheduler saves a prediction before it publishes  *)
(* it, one prediction at a time (module Inference).                        *)
(* A prediction is its number in the order of created_at.                  *)
(***************************************************************************)
EXTENDS Naturals, Sequences, SequencesExt

CONSTANTS
    Models,         \* the models
    NotAList,       \* what an answer with an error holds
    Cap,            \* length of the list, of the API's answer and of the panel's (20)
    MaxPredictions  \* bound: predictions saved

ASSUME PanelAssumption ==
    /\ Cap \in Nat \ {0}
    /\ MaxPredictions \in Nat
    /\ NotAList \notin Seq(Nat)

VARIABLES
    predictions,    \* the table: the model of each prediction
    unpublished,    \* the prediction that is saved and not yet published, 0 if none
    panel,          \* the component: history, the latest prediction of each model's gauge,
                    \* where its GET and its socket are, messages under way
    unheard,        \* history: published when the panel's socket was not subscribed, or never
    removed         \* history: entries that the answer of the GET replaced or newer ones pushed out

panelVars == <<predictions, unpublished, panel, unheard, removed>>

Saved == 1 .. Len(predictions)
Ids == 1 .. MaxPredictions
NoPrediction == 0
SocketStates == {"connecting", "open", "closed"}
Get == [state : {"asked", "refused", "done"}] \cup [state : {"answered"}, list : Seq(Ids)]

PanelTypeOK ==
    /\ predictions \in Seq(Models)
    /\ Len(predictions) <= MaxPredictions
    /\ unpublished \in Saved \cup {NoPrediction}
    /\ panel \in [mounted : BOOLEAN, history : Seq(Ids) \cup {NotAList},
                  gauge : [Models -> Ids \cup {NoPrediction}], get : Get,
                  socket : SocketStates, subscribed : BOOLEAN, inbox : Seq(Ids)]
    /\ panel.history # NotAList => Len(panel.history) <= Cap
    /\ unheard \subseteq Saved
    /\ removed \subseteq Saved

PanelUnmounted ==
    [mounted |-> FALSE, history |-> <<>>, gauge |-> [m \in Models |-> NoPrediction],
     get |-> [state |-> "done"], socket |-> "closed", subscribed |-> FALSE, inbox |-> <<>>]

PanelInit ==
    /\ predictions = <<>>
    /\ unpublished = NoPrediction
    /\ panel = PanelUnmounted
    /\ unheard = {}
    /\ removed = {}

Latest(s) == SubSeq(s, 1, IF Len(s) < Cap THEN Len(s) ELSE Cap)

-----------------------------------------------------------------------------
(* The scheduler and the handler of the panel's socket.                     *)

SavePrediction ==
    /\ unpublished = NoPrediction
    /\ Len(predictions) < MaxPredictions
    /\ \E m \in Models : predictions' = Append(predictions, m)
    /\ unpublished' = Len(predictions')
    /\ UNCHANGED <<panel, unheard, removed>>

(* What Redis publishes reaches the sockets whose handlers have subscribed. *)
(* The publication may fail.                                                *)
PublishPrediction ==
    /\ unpublished # NoPrediction
    /\ unpublished' = NoPrediction
    /\ \/ /\ panel.subscribed
          /\ panel' = [panel EXCEPT !.inbox = Append(@, unpublished)]
          /\ unheard' = unheard
       \/ /\ unheard' = IF panel.mounted THEN unheard \cup {unpublished} ELSE {}
          /\ panel' = panel
    /\ UNCHANGED <<predictions, removed>>

(* The handler accepts the socket, which the browser then sees open, and    *)
(* subscribes.                                                              *)
Subscribe ==
    /\ panel.mounted /\ panel.socket # "closed" /\ ~panel.subscribed
    /\ panel' = [panel EXCEPT !.subscribed = TRUE]
    /\ UNCHANGED <<predictions, unpublished, unheard, removed>>

get_latest_predictions == Latest(Reverse([p \in Saved |-> p]))

ServePredictions ==
    /\ panel.get.state = "asked"
    /\ panel' = [panel EXCEPT !.get = [state |-> "answered", list |-> get_latest_predictions]]
    /\ UNCHANGED <<predictions, unpublished, unheard, removed>>

(* The limiter or the handler of exceptions answers with an object.         *)
RefusePredictions ==
    /\ panel.get.state = "asked"
    /\ panel' = [panel EXCEPT !.get = [state |-> "refused"]]
    /\ UNCHANGED <<predictions, unpublished, unheard, removed>>

-----------------------------------------------------------------------------
(* The effects and callbacks of the component.                              *)

PanelMount ==
    /\ panel' = [PanelUnmounted EXCEPT !.mounted = TRUE, !.get = [state |-> "asked"],
                                       !.socket = "connecting"]
    /\ unheard' = Saved \ {unpublished}
    /\ removed' = {}
    /\ UNCHANGED <<predictions, unpublished>>

(* The socket is closed, now or as soon as it opens, and its messages are   *)
(* ignored; the answer of the GET finds no component.                       *)
PanelUnmount ==
    /\ panel' = PanelUnmounted
    /\ unheard' = {}
    /\ removed' = {}
    /\ UNCHANGED <<predictions, unpublished>>

ModelOf(p) == predictions[p]
FirstOf(list, m) == SelectInSeq(list, LAMBDA p : ModelOf(p) = m)

(* Mutant: a gauge that shows something keeps it.                           *)
GaugesFromKeeping(list) ==
    [m \in Models |-> IF panel.gauge[m] # NoPrediction \/ FirstOf(list, m) = 0
                      THEN panel.gauge[m] ELSE list[FirstOf(list, m)]]

GaugesFrom(list) ==
    [m \in Models |-> IF FirstOf(list, m) = 0 THEN panel.gauge[m]
                                              ELSE list[FirstOf(list, m)]]

(* The answer replaces the list.                                            *)
PredictionsArrive ==
    /\ panel.get.state = "answered"
    /\ LET list == panel.get.list
       IN  /\ panel' = [panel EXCEPT !.history = list, !.gauge = GaugesFrom(list),
                                     !.get = [state |-> "done"]]
           /\ removed' = removed \cup (ToSet(panel.history) \ ToSet(list))
    /\ UNCHANGED <<predictions, unpublished, unheard>>

(* The status is not looked at: an error is taken for the list, and the     *)
(* gauges are left alone by the exception that follows.                     *)
ErrorArrives ==
    /\ panel.get.state = "refused"
    /\ panel' = [panel EXCEPT !.history = NotAList, !.get = [state |-> "done"]]
    /\ UNCHANGED <<predictions, unpublished, unheard, removed>>

(* No answer, or none that is JSON: a warning.                              *)
PredictionsFail ==
    /\ panel.get.state = "asked"
    /\ panel' = [panel EXCEPT !.get = [state |-> "done"]]
    /\ UNCHANGED <<predictions, unpublished, unheard, removed>>

onopenPanel ==
    /\ panel.socket = "connecting"
    /\ panel' = [panel EXCEPT !.socket = "open"]
    /\ UNCHANGED <<predictions, unpublished, unheard, removed>>

(* The connection fails or is closed by the server or the network; nothing  *)
(* opens another.  What was under way is lost.                              *)
onclosePanel ==
    /\ panel.socket # "closed"
    /\ panel' = [panel EXCEPT !.socket = "closed", !.subscribed = FALSE, !.inbox = <<>>]
    /\ unheard' = unheard \cup ToSet(panel.inbox)
    /\ UNCHANGED <<predictions, unpublished, removed>>

(* Mutant: a message of the model that came last replaces its entry.        *)
InFrontReplacing(p, list) ==
    Latest(<<p>> \o IF list # <<>> /\ ModelOf(Head(list)) = ModelOf(p) THEN Tail(list) ELSE list)

InFront(p, list) == Latest(<<p>> \o list)

onmessagePanel ==
    /\ panel.socket = "open"
    /\ panel.inbox # <<>>
    /\ LET p == Head(panel.inbox)
       IN  panel' = [panel EXCEPT !.inbox = Tail(@), !.gauge[ModelOf(p)] = p,
                                  !.history = InFront(p, @)]
    /\ removed' = removed \cup {panel.history[i] : i \in {Cap} \cap DOMAIN panel.history}
    /\ UNCHANGED <<predictions, unpublished, unheard>>

-----------------------------------------------------------------------------
(* Properties.                                                              *)

(* A prediction that the list does not show is on its way, or was published *)
(* when the panel could not hear it, or was in the list until the answer of *)
(* the GET replaced it or Cap newer entries pushed it out: nothing else     *)
(* loses one, whatever the order of answer, opening, subscription and       *)
(* messages.                                                                *)
GapsHaveTheirCause ==
    panel.mounted /\ panel.history # NotAList =>
        Saved \subseteq ToSet(panel.history) \cup ToSet(panel.inbox) \cup unheard
                          \cup removed \cup {unpublished}

(* A gauge shows the prediction of its model that stands first in the list, *)
(* although answer and messages set list and gauges separately and either   *)
(* may be the older.                                                        *)
GaugesMatchHistory ==
    panel.history # NotAList =>
        \A m \in Models :
            LET first == FirstOf(panel.history, m)
            IN  first # 0 => panel.gauge[m] = panel.history[first]
=============================================================================
