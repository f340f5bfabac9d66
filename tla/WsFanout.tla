------------------------------ MODULE WsFanout ------------------------------
(***************************************************************************)
(* The WebSocket fan-out (backend/app/websocket/manager.py and             *)
(* backend/app/api/websocket_routes.py).                                   *)
(*                                                                         *)
(* Every connection to /ws/metrics runs a handler with a Redis             *)
(* subscription of its own, and every handler broadcasts what it receives  *)
(* to the whole list of the shared ConnectionManager.  Every connection to *)
(* /ws/predictions runs a handler that sends to its own socket only.  All  *)
(* handlers are coroutines of one event loop: they interleave at awaits,   *)
(* and broadcast awaits inside its loop over the live list.                *)
(***************************************************************************)
EXTENDS Naturals, Sequences, FiniteSets

CONSTANTS
    Clients,        \* connections to /ws/metrics, each made at most once
    Viewers,        \* connections to /ws/predictions, each made at most once
    MaxMessages,    \* bound: messages published on "packets"
    MaxPredictions  \* bound: messages published on "predictions"

ASSUME FanoutAssumption ==
    /\ IsFiniteSet(Clients)
    /\ IsFiniteSet(Viewers)
    /\ Clients \cap Viewers = {}
    /\ MaxMessages \in Nat
    /\ MaxPredictions \in Nat

VARIABLES
    handler,        \* position of each /ws/metrics handler, its message and list position
    failed,         \* the handler's local list "disconnected", as a set
    subscription,   \* messages of "packets" each handler has yet to read
    connections,    \* manager.active_connections
    gauge,          \* the Prometheus gauge active_connections
    open,           \* sockets the server still takes for connected
    received,       \* what each client was sent, in order
    published,      \* messages published on "packets"
    audience,       \* history: the handlers subscribed when a message was published
    removals,       \* history: entries taken out of the list
    viewer,         \* position of each /ws/predictions handler
    feed,           \* messages of "predictions" each viewer has yet to read
    predicted       \* messages published on "predictions"

metricsVars == <<handler, failed, subscription, connections, received, published, audience,
                 removals>>
predictionVars == <<viewer, feed, predicted>>
vars == <<metricsVars, predictionVars, gauge, open>>

Messages == 1 .. MaxMessages
HandlerPCs == {"none", "subscribing", "listening", "sending", "done"}
ViewerPCs == {"none", "subscribing", "listening", "done"}
Idle == [pc |-> "none", msg |-> 0, at |-> 1]

Listening(c) == handler[c].pc \in {"listening", "sending"}
Occurrences(s, m) == Cardinality({i \in DOMAIN s : s[i] = m})
Listed(c) == \E i \in DOMAIN connections : connections[i] = c

TypeOK ==
    /\ handler \in [Clients -> [pc : HandlerPCs, msg : 0 .. MaxMessages, at : Nat \ {0}]]
    /\ failed \in [Clients -> SUBSET Clients]
    /\ subscription \in [Clients -> Seq(Messages)]
    /\ connections \in Seq(Clients)
    /\ gauge \in Nat
    /\ open \subseteq Clients \cup Viewers
    /\ received \in [Clients -> Seq(Messages)]
    /\ published \in 0 .. MaxMessages
    /\ audience \in [Messages -> SUBSET Clients]
    /\ removals \in Nat
    /\ viewer \in [Viewers -> ViewerPCs]
    /\ feed \in [Viewers -> Seq(1 .. MaxPredictions)]
    /\ predicted \in 0 .. MaxPredictions

Init ==
    /\ handler = [c \in Clients |-> Idle]
    /\ failed = [c \in Clients |-> {}]
    /\ subscription = [c \in Clients |-> <<>>]
    /\ connections = <<>>
    /\ gauge = 0
    /\ open = {}
    /\ received = [c \in Clients |-> <<>>]
    /\ published = 0
    /\ audience = [m \in Messages |-> {}]
    /\ removals = 0
    /\ viewer = [v \in Viewers |-> "none"]
    /\ feed = [v \in Viewers |-> <<>>]
    /\ predicted = 0

-----------------------------------------------------------------------------
(* ConnectionManager.                                                       *)

(* The list s without the entries of S: its j-th entry is the j-th entry of *)
(* s that stays.                                                            *)
Rank(I, i) == Cardinality({k \in I : k <= i})
Staying(s, S) == {i \in DOMAIN s : s[i] \notin S}
Without(s, S) ==
    [j \in 1 .. Cardinality(Staying(s, S)) |->
        s[CHOOSE i \in Staying(s, S) : Rank(Staying(s, S), i) = j]]

connect(c) ==
    /\ connections' = Append(connections, c)
    /\ gauge' = gauge + 1

(* Mutant: disconnect decrements the gauge for an absent socket too.        *)
DropUnchecked(S) ==
    /\ connections' = Without(connections, S)
    /\ gauge' = gauge - Cardinality(S)
    /\ removals' = removals + Cardinality(S)

(* disconnect of every socket of S, with no await in between.               *)
Drop(S) ==
    LET gone == {c \in S : Listed(c)}
    IN  /\ connections' = Without(connections, gone)
        /\ gauge' = gauge - Cardinality(gone)
        /\ removals' = removals + Cardinality(gone)

-----------------------------------------------------------------------------
(* /ws/metrics.                                                             *)

Connect(c) ==
    /\ handler[c].pc = "none"
    /\ handler' = [handler EXCEPT ![c].pc = "subscribing"]
    /\ connect(c)
    /\ open' = open \cup {c}
    /\ UNCHANGED <<failed, subscription, received, published, audience, removals,
                   predictionVars>>

(* Mutant: the socket is registered again once the subscription is up.      *)
SubscribeRegisters(c) ==
    /\ handler[c].pc = "subscribing"
    /\ handler' = [handler EXCEPT ![c].pc = "listening"]
    /\ connections' = Append(connections, c)
    /\ UNCHANGED <<failed, subscription, received, published, audience, removals, gauge, open,
                   predictionVars>>

Subscribe(c) ==
    /\ handler[c].pc = "subscribing"
    /\ handler' = [handler EXCEPT ![c].pc = "listening"]
    /\ UNCHANGED <<failed, subscription, connections, received, published, audience, removals,
                   gauge, open, predictionVars>>

(* Redis delivers a published message to the subscriptions that exist.      *)
PublishPacket ==
    /\ published < MaxMessages
    /\ published' = published + 1
    /\ audience' = [audience EXCEPT ![published + 1] = {c \in Clients : Listening(c)}]
    /\ subscription' = [c \in Clients |-> IF Listening(c)
                                          THEN Append(subscription[c], published + 1)
                                          ELSE subscription[c]]
    /\ UNCHANGED <<handler, failed, connections, received, removals, gauge, open,
                   predictionVars>>

(* Mutant: the messages that piled up are skipped.                          *)
GetLatestMessage(c) ==
    /\ handler[c].pc = "listening"
    /\ subscription[c] # <<>>
    /\ handler' = [handler EXCEPT ![c] = [pc |-> "sending",
                                         msg |-> subscription[c][Len(subscription[c])],
                                         at |-> 1]]
    /\ subscription' = [subscription EXCEPT ![c] = <<>>]
    /\ UNCHANGED <<failed, connections, received, published, audience, removals, gauge, open,
                   predictionVars>>

GetMessage(c) ==
    /\ handler[c].pc = "listening"
    /\ subscription[c] # <<>>
    /\ handler' = [handler EXCEPT ![c] = [pc |-> "sending", msg |-> Head(subscription[c]), at |-> 1]]
    /\ subscription' = [subscription EXCEPT ![c] = Tail(@)]
    /\ UNCHANGED <<failed, connections, received, published, audience, removals, gauge, open,
                   predictionVars>>

(* One turn of broadcast's loop.  The list iterator is an index into the    *)
(* live list: a removal by another broadcast shifts what it meets next.     *)
SendNext(c) ==
    /\ handler[c].pc = "sending"
    /\ handler[c].at <= Len(connections)
    /\ LET target == connections[handler[c].at]
       IN  IF target \in open
           THEN /\ received' = [received EXCEPT ![target] = Append(@, handler[c].msg)]
                /\ failed' = failed
           ELSE /\ failed' = [failed EXCEPT ![c] = @ \cup {target}]
                /\ received' = received
    /\ handler' = [handler EXCEPT ![c].at = @ + 1]
    /\ UNCHANGED <<subscription, connections, published, audience, removals, gauge, open,
                   predictionVars>>

EndBroadcast(c) ==
    /\ handler[c].pc = "sending"
    /\ handler[c].at > Len(connections)
    /\ Drop(failed[c])
    /\ failed' = [failed EXCEPT ![c] = {}]
    /\ handler' = [handler EXCEPT ![c].pc = "listening"]
    /\ UNCHANGED <<subscription, received, published, audience, open, predictionVars>>

(* A Redis error while subscribing or reading ends the handler: its finally *)
(* block runs and the server closes the socket.                             *)
HandlerEnds(c) ==
    /\ handler[c].pc \in {"subscribing", "listening"}
    /\ handler' = [handler EXCEPT ![c].pc = "done"]
    /\ Drop({c})
    /\ subscription' = [subscription EXCEPT ![c] = <<>>]
    /\ open' = open \ {c}
    /\ UNCHANGED <<failed, received, published, audience, predictionVars>>

(* The browser goes away.  The handler never receives, so it is not told.   *)
Leave(s) ==
    /\ s \in open
    /\ open' = open \ {s}
    /\ UNCHANGED <<metricsVars, predictionVars, gauge>>

-----------------------------------------------------------------------------
(* /ws/predictions.                                                         *)

ViewerConnect(v) ==
    /\ viewer[v] = "none"
    /\ viewer' = [viewer EXCEPT ![v] = "subscribing"]
    /\ gauge' = gauge + 1
    /\ open' = open \cup {v}
    /\ UNCHANGED <<metricsVars, feed, predicted>>

ViewerSubscribe(v) ==
    /\ viewer[v] = "subscribing"
    /\ viewer' = [viewer EXCEPT ![v] = "listening"]
    /\ UNCHANGED <<metricsVars, feed, predicted, gauge, open>>

PublishPrediction ==
    /\ predicted < MaxPredictions
    /\ predicted' = predicted + 1
    /\ feed' = [v \in Viewers |-> IF viewer[v] = "listening"
                                  THEN Append(feed[v], predicted + 1) ELSE feed[v]]
    /\ UNCHANGED <<metricsVars, viewer, gauge, open>>

(* The finally block: also after a Redis error.                             *)
ViewerEnds(v) ==
    /\ viewer' = [viewer EXCEPT ![v] = "done"]
    /\ feed' = [feed EXCEPT ![v] = <<>>]
    /\ gauge' = gauge - 1
    /\ open' = open \ {v}
    /\ UNCHANGED <<metricsVars, predicted>>

(* Mutant: a failed send is ignored and the loop goes on.                   *)
ViewerSendIgnoresFailure(v) ==
    /\ viewer[v] = "listening"
    /\ feed[v] # <<>>
    /\ feed' = [feed EXCEPT ![v] = Tail(@)]
    /\ UNCHANGED <<metricsVars, viewer, predicted, gauge, open>>

ViewerSend(v) ==
    /\ viewer[v] = "listening"
    /\ feed[v] # <<>>
    /\ IF v \in open
       THEN /\ feed' = [feed EXCEPT ![v] = Tail(@)]
            /\ UNCHANGED <<metricsVars, viewer, predicted, gauge, open>>
       ELSE ViewerEnds(v)

ViewerFails(v) ==
    /\ viewer[v] \in {"subscribing", "listening"}
    /\ ViewerEnds(v)

-----------------------------------------------------------------------------
HandlerStep(c) == Subscribe(c) \/ GetMessage(c) \/ SendNext(c) \/ EndBroadcast(c)
ViewerStep(v) == ViewerSubscribe(v) \/ ViewerSend(v)

Next ==
    \/ \E c \in Clients : Connect(c) \/ HandlerStep(c) \/ HandlerEnds(c)
    \/ \E v \in Viewers : ViewerConnect(v) \/ ViewerStep(v) \/ ViewerFails(v)
    \/ \E s \in open : Leave(s)
    \/ PublishPacket
    \/ PublishPrediction

Spec == Init /\ [][Next]_vars

(* The event loop runs every coroutine that is ready.                       *)
FairSpec ==
    /\ Spec
    /\ \A c \in Clients : WF_vars(HandlerStep(c))
    /\ \A v \in Viewers : WF_vars(ViewerStep(v))

-----------------------------------------------------------------------------
(* Properties.                                                              *)

(* The gauge counts the registered sockets and the live predictions         *)
(* handlers, whichever broadcasts and finally blocks disconnect a socket,   *)
(* and in whatever order (manager.py: disconnect).                          *)
GaugeCountsSockets ==
    gauge = Len(connections)
            + Cardinality({v \in Viewers : viewer[v] \in {"subscribing", "listening"}})

(* A client gets at most one copy of a packet event per handler that was    *)
(* subscribed when the event was published: every handler broadcasts to     *)
(* everyone, but none twice.                                                *)
CopiesBounded ==
    \A c \in Clients, m \in Messages :
        Occurrences(received[c], m) <= Cardinality(audience[m])

Settled == \A c \in Clients : handler[c].pc # "sending" /\ subscription[c] = <<>>

(* Once every handler has caught up, a connected client whose handler was   *)
(* subscribed when an event was published has got it, unless an entry was   *)
(* taken out of the list meanwhile: removal from the list shifts it under   *)
(* the loops of the other broadcasts.                                       *)
MissesNeedRemoval ==
    Settled /\ removals = 0 =>
        \A m \in 1 .. published : \A c \in audience[m] \cap open :
            Occurrences(received[c], m) > 0

(* A predictions handler whose browser has left ends at the next prediction.*)
ViewerReleased ==
    \A v \in Viewers :
        v \notin open /\ feed[v] # <<>> ~> viewer[v] = "done"

(* "broadcasts packet events to all connected clients"                      *)
(* (websocket_routes.py:22): a client that was subscribed when an event was *)
(* published and is still connected has got it once every handler has       *)
(* caught up.                                                               *)
EveryClientHears ==
    Settled =>
        \A m \in 1 .. published : \A c \in audience[m] \cap open :
            Occurrences(received[c], m) > 0

(* "packets captured since connection opened" (PacketCounter.jsx:46, a      *)
(* counter of the messages of /ws/metrics): a client is never sent more     *)
(* events than packets were published.                                      *)
CounterCountsPackets ==
    \A c \in Clients : Len(received[c]) <= published
=============================================================================
