----------------------------- MODULE SocketStore -----------------------------
(***************************************************************************)
(* The dashboard's view of the topology (frontend/src/hooks):              *)
(*   useWebSocket.js keeps one store per path, shared by the components    *)
(*   that use it: the first one in opens the socket, the last one out      *)
(*   closes it, and the socket's callbacks write to the store;             *)
(*   useTopology.js shows the last message of /topology/ws, and the answer *)
(*   of one GET /topology per mount, whichever arrives last;               *)
(*   backend/app/api/topology.py pushes the current topology to each       *)
(*   socket when it opens and every 5 seconds.                             *)
(* An action is one task of the browser's event loop: an effect, a         *)
(* callback, a rendering; or one step of the server or the network.        *)
(***************************************************************************)
EXTENDS Naturals, Sequences, FiniteSets

CONSTANTS
    Components,     \* components that use the hook, each mounted any number of times
    HistoryCap,     \* length of messageHistory (100)
    StrictMode,     \* is it the development build, whose StrictMode (main.jsx) runs the
                    \* effects of every mount twice?
    MaxSockets,     \* bound: sockets created
    MaxVersions,    \* bound: changes of the topology
    MaxMessages     \* bound: messages pushed

ASSUME StoreAssumption ==
    /\ IsFiniteSet(Components)
    /\ HistoryCap \in Nat \ {0}
    /\ StrictMode \in BOOLEAN
    /\ MaxSockets \in Nat
    /\ MaxVersions \in Nat
    /\ MaxMessages \in Nat

VARIABLES
    version,        \* the topology as the server would build it now
    pushed,         \* messages pushed so far
    sockets,        \* the sockets created: readyState and messages under way
    store,          \* the shared store of the path
    view,           \* what each mounted component shows, the message its effects saw last,
                    \* how many they counted, where its GET is, and (histories) whether it
                    \* shows the GET's answer and whether its mount counted a message twice
    dirty,          \* components with a rendering due (forceRender)
    overwritten     \* history: has the close of another socket been written to the store
                    \* since the last onopen?

vars == <<version, pushed, sockets, store, view, dirty, overwritten>>

NoSocket == 0
Nothing == 0
Versions == 1 .. MaxVersions + 1
Message == [socket : 1 .. MaxSockets, serial : 1 .. MaxMessages, version : Versions]
NoMessage == [socket |-> NoSocket, serial |-> 0, version |-> Nothing]
States == {"connecting", "open", "closing", "closed"}
Requested == {"none", "asked", "answered"}
Unmounted == [shown |-> Nothing, seen |-> NoMessage, get |-> "none", answer |-> Nothing,
              byGet |-> FALSE, count |-> 0, recounted |-> FALSE]

TypeOK ==
    /\ version \in Versions
    /\ pushed \in 0 .. MaxMessages
    /\ sockets \in Seq([state : States, inbox : Seq(Message)])
    /\ Len(sockets) <= MaxSockets
    /\ store \in [socket : 0 .. MaxSockets, data : Message \cup {NoMessage},
                  connected : BOOLEAN,
                  connectionStatus : {"connecting", "connected", "disconnected"},
                  messageHistory : Seq(Message), listeners : SUBSET Components]
    /\ Len(store.messageHistory) <= HistoryCap
    /\ view \in [Components -> [shown : Versions \cup {Nothing},
                                seen : Message \cup {NoMessage},
                                get : Requested, answer : Versions \cup {Nothing},
                                byGet : BOOLEAN, count : 0 .. MaxMessages + 1,
                                recounted : BOOLEAN]]
    /\ dirty \subseteq store.listeners
    /\ overwritten \in BOOLEAN

EmptyStore == [socket |-> NoSocket, data |-> NoMessage, connected |-> FALSE,
               connectionStatus |-> "connecting", messageHistory |-> <<>>, listeners |-> {}]

Init ==
    /\ version = 1
    /\ pushed = 0
    /\ sockets = <<>>
    /\ store = EmptyStore
    /\ view = [c \in Components |-> Unmounted]
    /\ dirty = {}
    /\ overwritten = FALSE

Mounted(c) == c \in store.listeners
StateOf(w) == sockets[w].state
SetState(w, state) == sockets' = [sockets EXCEPT ![w].state = state]

-----------------------------------------------------------------------------
(* The effects of the hooks.                                                *)

(* Mutant: the effect runs after every rendering.                           *)
CountedAlways(count, seen, data) == IF data # NoMessage THEN count + 1 ELSE count

(* The effect on lastMessage of the components that count what they see     *)
(* (PacketCounter, MetricsPanel, ProtocolBreakdown, the metrics of          *)
(* RealtimeProvider).                                                       *)
Counted(count, seen, data) == IF data \notin {NoMessage, seen} THEN count + 1 ELSE count

(* What a mount counts: StrictMode runs the effect once more, with the same *)
(* message and the count kept.                                              *)
CountedByMount(data) ==
    LET once == Counted(0, NoMessage, data)
    IN  IF StrictMode THEN Counted(once, NoMessage, data) ELSE once

MountedView ==
    [shown |-> store.data.version, seen |-> store.data,
     get |-> "asked", answer |-> Nothing, byGet |-> FALSE,
     count |-> CountedByMount(store.data),
     recounted |-> StrictMode /\ store.data # NoMessage]

NewSocket(state) == [state |-> state, inbox |-> <<>>]

(* The sockets that the first component in creates: under StrictMode the    *)
(* cleanup closes the first one while it is connecting.                     *)
Created == IF StrictMode THEN <<NewSocket("closing"), NewSocket("connecting")>>
                         ELSE <<NewSocket("connecting")>>

(* Mutant: every mount starts the status afresh.                            *)
MountResetsStatus(c) ==
    /\ ~Mounted(c)
    /\ IF store.socket = NoSocket
       THEN /\ Len(sockets) + Len(Created) <= MaxSockets
            /\ sockets' = sockets \o Created
            /\ store' = [store EXCEPT !.listeners = @ \cup {c}, !.socket = Len(sockets'),
                                      !.connectionStatus = "connecting"]
       ELSE /\ store' = [store EXCEPT !.listeners = @ \cup {c}, !.connected = FALSE,
                                      !.connectionStatus = "connecting"]
            /\ UNCHANGED sockets
    /\ dirty' = store'.listeners
    /\ view' = [view EXCEPT ![c] = MountedView]
    /\ UNCHANGED <<version, pushed, overwritten>>

(* The effects run in order: the store's, the one on lastMessage with what  *)
(* was rendered, the GET.  Under StrictMode they are cleaned up and run     *)
(* again in the same task: the cleanup finds nothing else to reset in a     *)
(* store that had no listener, and the answer of the first GET is ignored.  *)
Mount(c) ==
    /\ ~Mounted(c)
    /\ IF store.socket = NoSocket
       THEN /\ Len(sockets) + Len(Created) <= MaxSockets
            /\ sockets' = sockets \o Created
            /\ store' = [store EXCEPT !.listeners = @ \cup {c}, !.socket = Len(sockets'),
                                      !.connectionStatus = "connecting"]
       ELSE /\ store' = [store EXCEPT !.listeners = @ \cup {c}]
            /\ UNCHANGED sockets
    /\ dirty' = store'.listeners
    /\ view' = [view EXCEPT ![c] = MountedView]
    /\ UNCHANGED <<version, pushed, overwritten>>

(* close(): an open socket starts the closing handshake, one that is still  *)
(* connecting fails; both fire their events in a later task.  A socket that *)
(* is closed stays so.                                                      *)
Close(w) == IF StateOf(w) = "closed" THEN UNCHANGED sockets ELSE SetState(w, "closing")

(* Mutant: resetStore forgets the socket without closing it.                *)
ResetStoreLeavesOpen(listeners) ==
    /\ UNCHANGED sockets
    /\ store' = [EmptyStore EXCEPT !.listeners = listeners]

resetStore(listeners) ==
    /\ Close(store.socket)
    /\ store' = [EmptyStore EXCEPT !.listeners = listeners]

(* The component leaves the page: the cleanup of both effects, so that the  *)
(* answer of the GET will be ignored, and the end of its state.  (Under     *)
(* StrictMode a mount runs the cleanups too and keeps the state; that is    *)
(* part of Mount.)                                                          *)
Unmount(c) ==
    /\ Mounted(c)
    /\ IF store.listeners = {c}
       THEN resetStore({})
       ELSE /\ store' = [store EXCEPT !.listeners = @ \ {c}]
            /\ UNCHANGED sockets
    /\ dirty' = dirty \ {c}
    /\ view' = [view EXCEPT ![c] = Unmounted]
    /\ UNCHANGED <<version, pushed, overwritten>>

(* The rendering asked for, and the effect on lastMessage.                  *)
Render(c) ==
    /\ c \in dirty
    /\ dirty' = dirty \ {c}
    /\ view' = [view EXCEPT ![c].seen = store.data,
                            ![c].shown = IF store.data \notin {NoMessage, view[c].seen}
                                         THEN store.data.version ELSE @,
                            ![c].byGet = @ /\ store.data \in {NoMessage, view[c].seen},
                            ![c].count = Counted(@, view[c].seen, store.data)]
    /\ UNCHANGED <<version, pushed, sockets, store, overwritten>>

-----------------------------------------------------------------------------
(* The callbacks of a socket.  They write to the store whichever socket the *)
(* store has now.                                                           *)

notify == dirty' = store.listeners

onopen(w) ==
    /\ StateOf(w) = "connecting"
    /\ SetState(w, "open")
    /\ store' = [store EXCEPT !.connected = TRUE, !.connectionStatus = "connected"]
    /\ notify
    /\ overwritten' = FALSE
    /\ UNCHANGED <<version, pushed, view>>

(* Mutant: one message too many is kept.                                    *)
LatestOneMore(s) == SubSeq(s, IF Len(s) > HistoryCap THEN Len(s) - HistoryCap ELSE 1, Len(s))

Latest(s) == SubSeq(s, IF Len(s) > HistoryCap THEN Len(s) - HistoryCap + 1 ELSE 1, Len(s))

Receives(w) ==
    /\ StateOf(w) = "open"
    /\ sockets[w].inbox # <<>>
    /\ sockets' = [sockets EXCEPT ![w].inbox = Tail(@)]
    /\ store' = [store EXCEPT !.data = Head(sockets[w].inbox),
                              !.messageHistory = Latest(Append(@, Head(sockets[w].inbox)))]

(* Mutant: the listeners are not told.                                      *)
onmessageSilent(w) ==
    /\ Receives(w)
    /\ UNCHANGED <<version, pushed, view, dirty, overwritten>>

(* The browser delivers no message once close() was called.                 *)
onmessage(w) ==
    /\ Receives(w)
    /\ notify
    /\ UNCHANGED <<version, pushed, view, overwritten>>

(* The handshake ends, the server or the network closes the connection, or  *)
(* it cannot be made.  onerror, when there is one, comes just before in the *)
(* same task, so that its status is never rendered.                         *)
onclose(w) ==
    /\ StateOf(w) # "closed"
    /\ SetState(w, "closed")
    /\ store' = [store EXCEPT !.connected = FALSE, !.connectionStatus = "disconnected"]
    /\ notify
    /\ overwritten' = (overwritten \/ w # store.socket)
    /\ UNCHANGED <<version, pushed, view>>

-----------------------------------------------------------------------------
(* The server and the GET of each mount.                                    *)

TopologyChanges ==
    /\ version <= MaxVersions
    /\ version' = version + 1
    /\ UNCHANGED <<pushed, sockets, store, view, dirty, overwritten>>

(* The server has accepted before the browser calls onopen.                 *)
Push(w) ==
    /\ StateOf(w) \in {"connecting", "open"}
    /\ pushed < MaxMessages
    /\ pushed' = pushed + 1
    /\ sockets' = [sockets EXCEPT ![w].inbox =
                     Append(@, [socket |-> w, serial |-> pushed', version |-> version])]
    /\ UNCHANGED <<version, store, view, dirty, overwritten>>

ServeGet(c) ==
    /\ view[c].get = "asked"
    /\ view' = [view EXCEPT ![c].get = "answered", ![c].answer = version]
    /\ UNCHANGED <<version, pushed, sockets, store, dirty, overwritten>>

GetArrives(c) ==
    /\ view[c].get = "answered"
    /\ view' = [view EXCEPT ![c].shown = view[c].answer, ![c].get = "none",
                            ![c].answer = Nothing, ![c].byGet = TRUE]
    /\ UNCHANGED <<version, pushed, sockets, store, dirty, overwritten>>

GetFails(c) ==
    /\ view[c].get # "none"
    /\ view' = [view EXCEPT ![c].get = "none", ![c].answer = Nothing]
    /\ UNCHANGED <<version, pushed, sockets, store, dirty, overwritten>>

Next ==
    \/ \E c \in Components :
         Mount(c) \/ Unmount(c) \/ Render(c) \/ ServeGet(c) \/ GetArrives(c) \/ GetFails(c)
    \/ \E w \in DOMAIN sockets : onopen(w) \/ onmessage(w) \/ onclose(w) \/ Push(w)
    \/ TopologyChanges

Spec == Init /\ [][Next]_vars

-----------------------------------------------------------------------------
(* Properties.                                                              *)

(* Whatever the order of mounts, unmounts and late callbacks, the store's   *)
(* socket is the only one that is not given up, and there is one exactly    *)
(* while a component listens.  (useWebSocket.js: the first effect opens,    *)
(* the last cleanup closes; there is no other reference to a socket.)       *)
NoLeakedSocket ==
    /\ \A w \in DOMAIN sockets : StateOf(w) \in {"connecting", "open"} => w = store.socket
    /\ store.socket = NoSocket <=> store.listeners = {}

(* A store denies an open connection only when the late onclose of a socket *)
(* of an earlier mount has written over its status since it opened.         *)
DenialHasItsCause ==
    store.socket # NoSocket /\ StateOf(store.socket) = "open" /\ ~store.connected
      => overwritten

(* The messages the store has received since its socket was opened; once    *)
(* the list is full, what was pushed is a bound.                            *)
Received ==
    IF Len(store.messageHistory) < HistoryCap THEN Len(store.messageHistory)
                                              ELSE store.data.serial

(* What its mount counted too often.                                        *)
Excess(v) == IF v.recounted THEN 1 ELSE 0

(* What a component has counted since it was mounted exceeds what the store *)
(* has received by one at most, and only if StrictMode ran its effects      *)
(* twice beside a message that was there already; it is not zero when the   *)
(* store lists some.  Renderings, the mounts of other components and the    *)
(* callbacks of other sockets add nothing.  (Messages that come before a    *)
(* rendering are counted once.)                                             *)
CountWithinHistory ==
    \A c \in store.listeners :
        /\ view[c].count <= Received + Excess(view[c])
        /\ c \notin dirty /\ store.messageHistory # <<>> => view[c].count > 0

(* Components of one store show the same topology, the last message's, once *)
(* they are rendered, except one whose GET was answered after that message  *)
(* (useTopology.js takes whichever arrives last).                           *)
ComponentsAgree ==
    \A c \in store.listeners \ dirty :
        ~view[c].byGet => view[c].shown = store.data.version

(* "packets total" (ProtocolBreakdown.jsx:107, beside the sum of what its   *)
(* effect on the last message has counted): the total is at most the number *)
(* of packets that the store has received.                                  *)
TotalCountsPackets ==
    \A c \in store.listeners : view[c].count <= Received
=============================================================================
