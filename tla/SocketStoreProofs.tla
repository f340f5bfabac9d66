--------------------------- MODULE SocketStoreProofs ---------------------------
(***************************************************************************)
(* Proofs about SocketStore for every set of components, every length of   *)
(* the history and every number of sockets, messages and changes: one      *)
(* socket at a time, an honest status, and components that agree and count *)
(* no more than there was, in either build.                                *)
(***************************************************************************)
EXTENDS SocketStore, SequenceTheorems, TLAPS

-----------------------------------------------------------------------------
(* The inductive invariant.                                                 *)

(* The store's socket is one that was created; without one it is as new.    *)
SocketKnown ==
    /\ store.socket \in 0 .. Len(sockets)
    /\ store.socket = NoSocket => /\ store.data = NoMessage /\ store.messageHistory = <<>>
                                  /\ ~store.connected

(* What is under way to the store is newer than what it has.                *)
InboxAhead ==
    /\ store.data.serial <= pushed
    /\ \A w \in DOMAIN sockets : \A i \in DOMAIN sockets[w].inbox :
         sockets[w].inbox[i].serial <= pushed
    /\ \A w \in DOMAIN sockets : w = store.socket =>
         \A i \in DOMAIN sockets[w].inbox :
            /\ store.data.serial < sockets[w].inbox[i].serial
            /\ \A j \in DOMAIN sockets[w].inbox :
                 i < j => sockets[w].inbox[i].serial < sockets[w].inbox[j].serial

(* The list ends with the last message.                                     *)
HistoryEnds ==
    /\ store.messageHistory = <<>> <=> store.data = NoMessage
    /\ store.messageHistory # <<>> =>
         store.messageHistory[Len(store.messageHistory)] = store.data

(* What a component shows and counts is of the messages up to the one its   *)
(* effects saw last, which is the store's unless a rendering is due; one of *)
(* them may count twice, under StrictMode.                                  *)
ViewOf(c) ==
    LET v == view[c]
    IN  /\ v.seen.serial <= store.data.serial
        /\ v.seen # store.data => v.seen.serial < store.data.serial
        /\ v.recounted => StrictMode
        /\ v.count <= v.seen.serial + Excess(v)
        /\ v.seen # NoMessage => v.count > 0
        /\ ~v.byGet => v.shown = v.seen.version
        /\ c \notin dirty => v.seen = store.data
        /\ Len(store.messageHistory) < HistoryCap =>
             \/ v.count = 0
             \/ \E k \in DOMAIN store.messageHistory :
                    store.messageHistory[k] = v.seen /\ v.count <= k + Excess(v)

IInv ==
    /\ TypeOK
    /\ NoLeakedSocket /\ SocketKnown
    /\ DenialHasItsCause
    /\ InboxAhead /\ HistoryEnds
    /\ \A c \in store.listeners : ViewOf(c)

-----------------------------------------------------------------------------
(* Types.                                                                   *)

SocketRecord == [state : States, inbox : Seq(Message)]
StoreRecord == [socket : 0 .. MaxSockets, data : Message \cup {NoMessage}, connected : BOOLEAN,
                connectionStatus : {"connecting", "connected", "disconnected"},
                messageHistory : Seq(Message), listeners : SUBSET Components]
ViewRecord == [shown : Versions \cup {Nothing}, seen : Message \cup {NoMessage},
               get : Requested, answer : Versions \cup {Nothing}, byGet : BOOLEAN,
               count : 0 .. MaxMessages + 1, recounted : BOOLEAN]

(* A message is numbered from 1; "no message" is number 0, of no version.   *)
LEMMA MessageFields ==
    /\ \A m \in Message : /\ m.serial \in 1 .. MaxMessages /\ m.serial \in Nat /\ m.serial > 0
                          /\ m.version \in Versions /\ m.socket \in 1 .. MaxSockets
                          /\ m # NoMessage
    /\ \A m \in Message \cup {NoMessage} :
         /\ m.serial \in 0 .. MaxMessages /\ m.serial \in Nat
         /\ m.version \in Versions \cup {Nothing}
         /\ m.serial = 0 => m = NoMessage
    /\ NoMessage.serial = 0 /\ NoMessage.version = Nothing
  BY StoreAssumption DEF Message, NoMessage, NoSocket

(* TypeOK, in the parts that steps are about.                               *)
LEMMA Types ==
    TypeOK <=>
        /\ version \in Versions
        /\ pushed \in 0 .. MaxMessages
        /\ sockets \in Seq(SocketRecord) /\ Len(sockets) <= MaxSockets
        /\ store \in StoreRecord /\ Len(store.messageHistory) <= HistoryCap
        /\ view \in [Components -> ViewRecord]
        /\ dirty \subseteq store.listeners
        /\ overwritten \in BOOLEAN
  BY DEF TypeOK, SocketRecord, StoreRecord, ViewRecord

LEMMA TypesNext ==
    ASSUME version' \in Versions,
           pushed' \in 0 .. MaxMessages,
           sockets' \in Seq(SocketRecord), Len(sockets') <= MaxSockets,
           store' \in StoreRecord, Len(store'.messageHistory) <= HistoryCap,
           view' \in [Components -> ViewRecord],
           dirty' \subseteq store'.listeners,
           overwritten' \in BOOLEAN
    PROVE  TypeOK'
  BY DEF TypeOK, SocketRecord, StoreRecord, ViewRecord

(* Sockets are numbered from 1.                                             *)
LEMMA SocketTypes ==
    ASSUME TypeOK
    PROVE  /\ Len(sockets) \in Nat /\ DOMAIN sockets = 1 .. Len(sockets)
           /\ \A w \in DOMAIN sockets : /\ sockets[w] \in SocketRecord
                                        /\ sockets[w].inbox \in Seq(Message)
                                        /\ StateOf(w) \in States
                                        /\ w # NoSocket /\ w \in 1 .. MaxSockets
  <1>1. sockets \in Seq(SocketRecord) /\ Len(sockets) <= MaxSockets
    BY Types
  <1>2. Len(sockets) \in Nat /\ DOMAIN sockets = 1 .. Len(sockets)
    BY <1>1, LenProperties
  <1>3. \A w \in DOMAIN sockets : sockets[w] \in SocketRecord
    BY <1>1, <1>2, ElementOfSeq
  <1> QED
    BY <1>1, <1>2, <1>3, StoreAssumption DEF SocketRecord, StateOf, NoSocket

(* The messages of an inbox.                                                *)
LEMMA InboxTypes ==
    ASSUME TypeOK, NEW w \in DOMAIN sockets
    PROVE  /\ Len(sockets[w].inbox) \in Nat
           /\ DOMAIN sockets[w].inbox = 1 .. Len(sockets[w].inbox)
           /\ \A i \in DOMAIN sockets[w].inbox : /\ sockets[w].inbox[i] \in Message
                                                 /\ sockets[w].inbox[i].serial \in Nat
  <1>1. sockets[w].inbox \in Seq(Message)
    BY SocketTypes
  <1>2. \A i \in 1 .. Len(sockets[w].inbox) : sockets[w].inbox[i] \in Message
    BY <1>1, ElementOfSeq
  <1> QED
    BY <1>1, <1>2, LenProperties, MessageFields

(* A socket that changes stays one, and the others are what they were.      *)
LEMMA SocketChange ==
    ASSUME TypeOK, NEW w \in DOMAIN sockets, NEW s \in SocketRecord,
           sockets' = [sockets EXCEPT ![w] = s]
    PROVE  /\ sockets' \in Seq(SocketRecord) /\ Len(sockets') = Len(sockets)
           /\ DOMAIN sockets' = DOMAIN sockets
           /\ sockets'[w] = s
           /\ \A o \in DOMAIN sockets : o # w => sockets'[o] = sockets[o]
  <1>1. sockets \in Seq(SocketRecord) /\ DOMAIN sockets = 1 .. Len(sockets)
        /\ w \in 1 .. Len(sockets)
    BY Types, SocketTypes
  <1>2. /\ [sockets EXCEPT ![w] = s] \in Seq(SocketRecord)
        /\ Len([sockets EXCEPT ![w] = s]) = Len(sockets)
        /\ \A j \in 1 .. Len(sockets) :
             [sockets EXCEPT ![w] = s][j] = IF j = w THEN s ELSE sockets[j]
    BY <1>1, ExceptSeq
  <1> QED
    BY <1>1, <1>2, LenProperties

LEMMA SetStateEffect ==
    ASSUME TypeOK, NEW w \in DOMAIN sockets, NEW state \in States, SetState(w, state)
    PROVE  /\ sockets' \in Seq(SocketRecord) /\ Len(sockets') = Len(sockets)
           /\ DOMAIN sockets' = DOMAIN sockets
           /\ sockets'[w].state = state
           /\ \A o \in DOMAIN sockets : /\ sockets'[o].inbox = sockets[o].inbox
                                        /\ o # w => sockets'[o] = sockets[o]
  <1> DEFINE s == [sockets[w] EXCEPT !.state = state]
  <1>1. sockets' = [sockets EXCEPT ![w] = s]
    BY DEF SetState
  <1>2. s \in SocketRecord /\ s.state = state /\ s.inbox = sockets[w].inbox
    BY SocketTypes DEF SocketRecord
  <1> HIDE DEF s
  <1>3. /\ sockets' \in Seq(SocketRecord) /\ Len(sockets') = Len(sockets)
        /\ DOMAIN sockets' = DOMAIN sockets
        /\ sockets'[w] = s
        /\ \A o \in DOMAIN sockets : o # w => sockets'[o] = sockets[o]
    BY <1>1, <1>2, SocketChange
  <1> QED
    BY <1>2, <1>3

-----------------------------------------------------------------------------
(* What a step leaves alone.                                                *)

(* A component that stays shows what it showed, if neither it nor the       *)
(* store's messages have changed and no rendering was forgotten.            *)
LEMMA ViewsLeft ==
    ASSUME NEW c, ViewOf(c), view'[c] = view[c],
           store'.data = store.data, store'.messageHistory = store.messageHistory,
           c \notin dirty' => c \notin dirty
    PROVE  ViewOf(c)'
  BY DEF ViewOf

(* A step of a component that stays mounted, or of the topology.            *)
LEMMA SocketsLeft ==
    ASSUME NoLeakedSocket, SocketKnown, DenialHasItsCause, InboxAhead, HistoryEnds,
           UNCHANGED <<sockets, pushed, store, overwritten>>
    PROVE  NoLeakedSocket' /\ SocketKnown' /\ DenialHasItsCause' /\ InboxAhead' /\ HistoryEnds'
  <1>1. NoLeakedSocket' /\ SocketKnown' /\ DenialHasItsCause'
    BY DEF NoLeakedSocket, SocketKnown, DenialHasItsCause, StateOf
  <1>2. InboxAhead' /\ HistoryEnds'
    BY DEF InboxAhead, HistoryEnds
  <1> QED
    BY <1>1, <1>2

(* The same when inboxes and messages are as they were.                     *)
LEMMA MessagesLeft ==
    ASSUME InboxAhead, HistoryEnds, UNCHANGED pushed,
           store'.data = store.data, store'.messageHistory = store.messageHistory,
           store'.socket = store.socket, DOMAIN sockets' = DOMAIN sockets,
           \A w \in DOMAIN sockets : sockets'[w].inbox = sockets[w].inbox
    PROVE  InboxAhead' /\ HistoryEnds'
  BY DEF InboxAhead, HistoryEnds

LEMMA InitEstablishes == Init => IInv
  <1> SUFFICES ASSUME Init PROVE IInv
    OBVIOUS
  <1>1. /\ store = EmptyStore
        /\ store.socket = NoSocket /\ store.data = NoMessage /\ store.messageHistory = <<>>
        /\ store.listeners = {} /\ store.connected = FALSE
        /\ store.connectionStatus = "connecting"
    BY DEF Init, EmptyStore
  <1>2. version = 1 /\ pushed = 0 /\ sockets = <<>> /\ dirty = {} /\ overwritten = FALSE
        /\ view = [c \in Components |-> Unmounted]
    BY DEF Init
  <1>3. TypeOK
    <2>1. Unmounted \in ViewRecord
      BY StoreAssumption DEF Unmounted, ViewRecord, Requested
    <2>2. store \in StoreRecord /\ Len(store.messageHistory) <= HistoryCap
      BY <1>1, StoreAssumption DEF StoreRecord, EmptyStore, NoSocket
    <2>3. version \in Versions
      BY <1>2, StoreAssumption DEF Versions
    <2>4. sockets \in Seq(SocketRecord) /\ Len(sockets) <= MaxSockets
      BY <1>2, StoreAssumption
    <2>5. view \in [Components -> ViewRecord]
      BY <1>2, <2>1
    <2>6. pushed \in 0 .. MaxMessages /\ dirty \subseteq store.listeners
      BY <1>2, StoreAssumption
    <2>7. overwritten \in BOOLEAN
      BY <1>2, Zenon
    <2> QED
      BY <2>2, <2>3, <2>4, <2>5, <2>6, <2>7, Types
  <1>4. NoLeakedSocket /\ SocketKnown /\ DenialHasItsCause
    BY <1>1, <1>2 DEF NoLeakedSocket, SocketKnown, DenialHasItsCause, NoSocket
  <1>5. InboxAhead /\ HistoryEnds
    BY <1>1, <1>2, MessageFields DEF InboxAhead, HistoryEnds
  <1> QED
    BY <1>1, <1>3, <1>4, <1>5 DEF IInv

-----------------------------------------------------------------------------
(* Steps of a component that is mounted already.                            *)

(* Only its own view changes.                                               *)
LEMMA OneView ==
    ASSUME IInv, NEW c \in Components,
           UNCHANGED <<pushed, sockets, store, overwritten>>,
           version' \in Versions, dirty' \subseteq dirty, dirty \subseteq dirty' \cup {c},
           NEW v \in ViewRecord, view' = [view EXCEPT ![c] = v],
           c \in store.listeners => ViewOf(c)'
    PROVE  IInv'
  <1>1. view \in [Components -> ViewRecord] /\ store \in StoreRecord
    BY Types DEF IInv
  <1>2. view' \in [Components -> ViewRecord]
    BY <1>1
  <1>3. TypeOK'
    BY <1>2, Types, TypesNext DEF IInv
  <1>4. NoLeakedSocket' /\ SocketKnown' /\ DenialHasItsCause' /\ InboxAhead' /\ HistoryEnds'
    BY SocketsLeft DEF IInv
  <1>5. ASSUME NEW d \in store.listeners, d # c
        PROVE  ViewOf(d)'
    <2>1. view'[d] = view[d] /\ (d \notin dirty' => d \notin dirty)
      BY <1>1, <1>5 DEF StoreRecord
    <2>2. ViewOf(d) /\ store'.data = store.data
          /\ store'.messageHistory = store.messageHistory
      BY DEF IInv
    <2> QED
      BY <2>1, <2>2, ViewsLeft
  <1>6. \A d \in store'.listeners : ViewOf(d)'
    BY <1>5
  <1> QED
    BY <1>3, <1>4, <1>6 DEF IInv

(* Neither what a component saw nor what it counted depends on its GET.     *)
LEMMA GetSteps ==
    ASSUME IInv, NEW c \in Components, ServeGet(c) \/ GetArrives(c) \/ GetFails(c)
    PROVE  IInv'
  <1>1. /\ UNCHANGED <<version, pushed, sockets, store, dirty, overwritten>>
        /\ version' \in Versions
    BY Types DEF IInv, ServeGet, GetArrives, GetFails
  <1>2. view \in [Components -> ViewRecord] /\ view[c] \in ViewRecord
        /\ version \in Versions
    BY Types DEF IInv
  <1>3. ASSUME NEW v \in ViewRecord, view' = [view EXCEPT ![c] = v],
               v.seen = view[c].seen, v.count = view[c].count,
               v.recounted = view[c].recounted,
               v.byGet \/ (v.byGet = view[c].byGet /\ v.shown = view[c].shown)
        PROVE  IInv'
    <2>1. view'[c] = v
      BY <1>2, <1>3
    <2>2. c \in store.listeners => ViewOf(c)'
      <3>1. SUFFICES ASSUME c \in store.listeners
                     PROVE  ViewOf(c)'
        OBVIOUS
      <3>2. ViewOf(c)
        BY <3>1 DEF IInv
      <3> QED
        BY <1>1, <1>3, <2>1, <3>2 DEF ViewOf, Excess
    <2> QED
      BY <1>1, <1>3, <2>2, OneView
  <1>4. CASE ServeGet(c)
    <2> DEFINE v == [view[c] EXCEPT !.get = "answered", !.answer = version]
    <2>1. v \in ViewRecord /\ v.seen = view[c].seen /\ v.count = view[c].count
          /\ v.recounted = view[c].recounted
          /\ v.byGet = view[c].byGet /\ v.shown = view[c].shown
      BY <1>2 DEF ViewRecord, Requested
    <2>2. view' = [view EXCEPT ![c] = v]
      BY <1>2, <1>4 DEF ServeGet
    <2> HIDE DEF v
    <2> QED
      BY <1>3, <2>1, <2>2
  <1>5. CASE GetArrives(c)
    <2> DEFINE v == [view[c] EXCEPT !.shown = view[c].answer, !.get = "none",
                                    !.answer = Nothing, !.byGet = TRUE]
    <2>1. v \in ViewRecord /\ v.seen = view[c].seen /\ v.count = view[c].count /\ v.byGet
          /\ v.recounted = view[c].recounted
      BY <1>2 DEF ViewRecord, Requested
    <2>2. view' = [view EXCEPT ![c] = v]
      BY <1>2, <1>5 DEF GetArrives
    <2> HIDE DEF v
    <2> QED
      BY <1>3, <2>1, <2>2
  <1>6. CASE GetFails(c)
    <2> DEFINE v == [view[c] EXCEPT !.get = "none", !.answer = Nothing]
    <2>1. v \in ViewRecord /\ v.seen = view[c].seen /\ v.count = view[c].count
          /\ v.recounted = view[c].recounted
          /\ v.byGet = view[c].byGet /\ v.shown = view[c].shown
      BY <1>2 DEF ViewRecord, Requested
    <2>2. view' = [view EXCEPT ![c] = v]
      BY <1>2, <1>6 DEF GetFails
    <2> HIDE DEF v
    <2> QED
      BY <1>3, <2>1, <2>2
  <1> QED
    BY <1>4, <1>5, <1>6

(* A rendering counts the last message if the component has not seen it,    *)
(* and shows it.                                                            *)
LEMMA RenderStep ==
    ASSUME IInv, NEW c \in Components, Render(c)
    PROVE  IInv'
  <1> DEFINE old == view[c]
             fresh == store.data \notin {NoMessage, old.seen}
             v == [old EXCEPT !.seen = store.data,
                              !.shown = IF fresh THEN store.data.version ELSE @,
                              !.byGet = @ /\ store.data \in {NoMessage, old.seen},
                              !.count = Counted(@, old.seen, store.data)]
             n == Len(store.messageHistory)
  <1>1. /\ c \in dirty /\ c \in store.listeners
        /\ dirty' = dirty \ {c}
        /\ UNCHANGED <<version, pushed, sockets, store, overwritten>>
        /\ version' \in Versions
    BY Types DEF IInv, Render
  <1>2. /\ view \in [Components -> ViewRecord] /\ old \in ViewRecord
        /\ store \in StoreRecord /\ store.data \in Message \cup {NoMessage}
        /\ store.messageHistory \in Seq(Message)
    BY Types DEF IInv, StoreRecord
  <1>3. view' = [view EXCEPT ![c] = v]
    BY <1>2 DEF Render
  <1>4. ViewOf(c)
    BY <1>1 DEF IInv
  <1>5. /\ old.seen.serial \in Nat /\ store.data.serial \in 0 .. MaxMessages
        /\ store.data.serial \in Nat /\ old.count \in 0 .. MaxMessages + 1
        /\ store.data.version \in Versions \cup {Nothing}
        /\ MaxMessages \in Nat /\ Excess(old) \in {0, 1}
    BY <1>2, MessageFields, StoreAssumption DEF ViewRecord, Excess
  <1>6. CASE fresh
    <2>1. old.seen.serial < store.data.serial
      BY <1>4, <1>6 DEF ViewOf
    <2>2. /\ old.count + 1 \in 0 .. MaxMessages + 1
          /\ old.count + 1 <= store.data.serial + Excess(old)
      BY <1>4, <1>5, <2>1 DEF ViewOf
    <2>3. v = [old EXCEPT !.seen = store.data, !.shown = store.data.version,
                          !.byGet = FALSE, !.count = old.count + 1]
      BY <1>2, <1>6 DEF Counted, ViewRecord
    <2> HIDE DEF v
    <2>4. v \in ViewRecord /\ v.seen = store.data /\ v.shown = store.data.version
          /\ v.count = old.count + 1 /\ v.recounted = old.recounted
          /\ Excess(v) = Excess(old)
      BY <1>2, <1>5, <2>2, <2>3 DEF ViewRecord, Excess
    <2>5. n \in Nat /\ DOMAIN store.messageHistory = 1 .. n /\ n > 0
          /\ store.messageHistory[n] = store.data
      <3>1. store.messageHistory # <<>>
        BY <1>6 DEF IInv, HistoryEnds
      <3> QED
        BY <1>2, <3>1, EmptySeq, LenProperties DEF IInv, HistoryEnds
    <2>6. n < HistoryCap => old.count + 1 <= n + Excess(old)
      BY <1>4, <1>5, <1>6, <2>5 DEF ViewOf
    <2>7. view'[c] = v
      BY <1>2, <1>3, <2>4
    <2>8. ViewOf(c)'
      <3>1. view'[c].count <= view'[c].seen.serial + Excess(view'[c])
        BY <2>2, <2>4, <2>7
      <3>2. n < HistoryCap => /\ n \in DOMAIN store.messageHistory
                              /\ store.messageHistory[n] = view'[c].seen
                              /\ view'[c].count <= n + Excess(view'[c])
        BY <2>4, <2>5, <2>6, <2>7
      <3>3. view'[c].count > 0 /\ (view'[c].recounted => StrictMode)
        BY <1>4, <1>5, <2>4, <2>7 DEF ViewOf
      <3> QED
        BY <1>1, <1>5, <2>4, <2>7, <3>1, <3>2, <3>3 DEF ViewOf
    <2> QED
      BY <1>1, <1>3, <2>4, <2>8, OneView
  <1>7. CASE ~fresh
    <2>1. old.seen = store.data
      BY <1>2, <1>4, <1>5, <1>7, MessageFields DEF ViewOf, ViewRecord
    <2>2. v = [old EXCEPT !.seen = store.data, !.byGet = old.byGet]
      BY <1>2, <1>7 DEF Counted, ViewRecord
    <2>3. v = old
      BY <1>2, <2>1, <2>2 DEF ViewRecord
    <2> HIDE DEF v
    <2>4. view'[c] = old
      BY <1>2, <1>3, <2>3
    <2>5. ViewOf(c)'
      BY <1>1, <1>4, <2>1, <2>4 DEF ViewOf
    <2> QED
      BY <1>1, <1>2, <1>3, <2>3, <2>5, OneView
  <1> QED
    BY <1>6, <1>7

-----------------------------------------------------------------------------
(* Mounting and unmounting.                                                 *)

(* The sockets a mount creates are empty, and only the last is not given up. *)
LEMMA CreatedSockets ==
    /\ Len(Created) \in Nat /\ Len(Created) > 0 /\ DOMAIN Created = 1 .. Len(Created)
    /\ Created \in Seq(SocketRecord)
    /\ \A i \in DOMAIN Created : Created[i].inbox = <<>>
    /\ \A i \in DOMAIN Created : i < Len(Created) => Created[i].state = "closing"
    /\ Created[Len(Created)].state = "connecting"
  <1>1. NewSocket("closing") \in SocketRecord /\ NewSocket("connecting") \in SocketRecord
    BY DEF NewSocket, SocketRecord, States
  <1>2. CASE StrictMode
    <2>1. Created = <<NewSocket("closing"), NewSocket("connecting")>>
      BY <1>2 DEF Created
    <2> QED
      BY <1>1, <2>1 DEF NewSocket
  <1>3. CASE ~StrictMode
    <2>1. Created = <<NewSocket("connecting")>>
      BY <1>3 DEF Created
    <2> QED
      BY <1>1, <2>1 DEF NewSocket
  <1> QED
    BY <1>2, <1>3, StoreAssumption

LEMMA MountStep ==
    ASSUME IInv, NEW c \in Components, Mount(c)
    PROVE  IInv'
  <1> DEFINE v == MountedView
             n == Len(store.messageHistory)
  <1>1. /\ c \notin store.listeners
        /\ dirty' = store'.listeners
        /\ view' = [view EXCEPT ![c] = v]
        /\ UNCHANGED <<version, pushed, overwritten>>
    BY DEF Mount, Mounted
  <1>2. /\ version \in Versions /\ pushed \in 0 .. MaxMessages /\ overwritten \in BOOLEAN
        /\ sockets \in Seq(SocketRecord) /\ Len(sockets) <= MaxSockets
        /\ store \in StoreRecord /\ Len(store.messageHistory) <= HistoryCap
        /\ view \in [Components -> ViewRecord]
        /\ store.data \in Message \cup {NoMessage}
        /\ store.messageHistory \in Seq(Message)
    BY Types DEF IInv, StoreRecord
  <1>3. /\ v.recounted = (StrictMode /\ store.data # NoMessage)
        /\ v.seen = store.data /\ v.shown = store.data.version
        /\ v.count = IF store.data = NoMessage THEN 0 ELSE 1 + Excess(v)
        /\ store.data # NoMessage => store.data.serial \in 1 .. MaxMessages
        /\ MaxMessages \in Nat /\ Excess(v) \in {0, 1}
    BY <1>2, MessageFields, StoreAssumption
       DEF MountedView, CountedByMount, Counted, Excess
  <1>4. v \in ViewRecord
    <2>1. CountedByMount(store.data) \in 0 .. MaxMessages + 1
      BY <1>2, MessageFields, StoreAssumption DEF CountedByMount, Counted
    <2>2. (StrictMode /\ store.data # NoMessage) \in BOOLEAN
      BY StoreAssumption
    <2> QED
      BY <1>2, <2>1, <2>2, MessageFields DEF MountedView, ViewRecord, Requested
  <1> HIDE DEF v
  <1>5. view' \in [Components -> ViewRecord] /\ view'[c] = v
        /\ \A d \in Components : d # c => view'[d] = view[d]
    BY <1>1, <1>2, <1>4
  <1>6. /\ n \in Nat
        /\ store.data = NoMessage <=> n = 0
        /\ n > 0 => n \in DOMAIN store.messageHistory /\ store.messageHistory[n] = store.data
    <2>1. n \in Nat /\ DOMAIN store.messageHistory = 1 .. n
          /\ (store.messageHistory = <<>> <=> n = 0)
      BY <1>2, LenProperties, EmptySeq
    <2> QED
      BY <2>1 DEF IInv, HistoryEnds
  <1>7. ASSUME store'.data = store.data, store'.messageHistory = store.messageHistory,
               store'.listeners = store.listeners \cup {c}
        PROVE  \A d \in store'.listeners : ViewOf(d)'
    <2>1. ViewOf(c)'
      <3>1. view'[c].count <= view'[c].seen.serial + Excess(view'[c])
        BY <1>2, <1>3, <1>5, MessageFields
      <3>2. \/ view'[c].count = 0
            \/ /\ n \in DOMAIN store.messageHistory
               /\ store.messageHistory[n] = view'[c].seen
               /\ view'[c].count <= n + Excess(view'[c])
        BY <1>3, <1>5, <1>6
      <3>3. view'[c].seen # NoMessage => view'[c].count > 0
        BY <1>3, <1>5
      <3>4. view'[c].recounted => StrictMode
        BY <1>3, <1>5, Zenon
      <3> QED
        BY <1>1, <1>2, <1>3, <1>5, <1>7, <3>1, <3>2, <3>3, <3>4, MessageFields DEF ViewOf
    <2>2. ASSUME NEW d \in store.listeners
          PROVE  ViewOf(d)'
      <3>1. d \in Components /\ d # c /\ ViewOf(d)
        BY <1>1, <1>2 DEF StoreRecord, IInv
      <3>2. d \in dirty'
        BY <1>1, <1>7
      <3> QED
        BY <1>5, <1>7, <3>1, <3>2, ViewsLeft
    <2> QED
      BY <1>7, <2>1, <2>2
  <1>8. CASE store.socket = NoSocket
    <2>1. /\ Len(sockets) + Len(Created) <= MaxSockets
          /\ sockets' = sockets \o Created
          /\ store' = [store EXCEPT !.listeners = @ \cup {c}, !.socket = Len(sockets'),
                                    !.connectionStatus = "connecting"]
      BY <1>8 DEF Mount
    <2> DEFINE last == Len(sockets) + Len(Created)
    <2>2. /\ Len(Created) \in Nat /\ Len(Created) > 0 /\ DOMAIN Created = 1 .. Len(Created)
          /\ Created \in Seq(SocketRecord)
          /\ \A i \in DOMAIN Created : Created[i].inbox = <<>>
          /\ \A i \in DOMAIN Created : i < Len(Created) => Created[i].state = "closing"
          /\ Created[Len(Created)].state = "connecting"
      BY CreatedSockets
    <2>3. /\ sockets' \in Seq(SocketRecord) /\ Len(sockets') = last
          /\ Len(sockets) \in Nat /\ last \in Nat /\ last > Len(sockets)
          /\ DOMAIN sockets' = 1 .. last /\ DOMAIN sockets = 1 .. Len(sockets)
          /\ \A w \in 1 .. Len(sockets) : sockets'[w] = sockets[w]
          /\ \A w \in DOMAIN sockets' : w > Len(sockets) =>
               sockets'[w].inbox = <<>> /\ (w # last => sockets'[w].state = "closing")
          /\ sockets'[last].state = "connecting"
      <3>1. /\ sockets \o Created \in Seq(SocketRecord)
            /\ Len(sockets \o Created) = Len(sockets) + Len(Created)
            /\ \A i \in 1 .. Len(sockets) + Len(Created) :
                 (sockets \o Created)[i] = IF i <= Len(sockets) THEN sockets[i]
                                           ELSE Created[i - Len(sockets)]
        BY <1>2, <2>2, ConcatProperties
      <3>2. Len(sockets) \in Nat /\ DOMAIN sockets = 1 .. Len(sockets)
            /\ DOMAIN sockets' = 1 .. last
        BY <1>2, <2>1, <3>1, LenProperties
      <3>3. \A w \in 1 .. last : w > Len(sockets) => /\ w - Len(sockets) \in DOMAIN Created
                                                     /\ sockets'[w] = Created[w - Len(sockets)]
        BY <2>1, <2>2, <3>1, <3>2
      <3>4. /\ last \in 1 .. last /\ last > Len(sockets) /\ last \in Nat
            /\ last - Len(sockets) = Len(Created)
        BY <2>2, <3>2
      <3>5. \A w \in 1 .. last : w # last => w - Len(sockets) < Len(Created)
        BY <2>2, <3>2
      <3> HIDE DEF last
      <3>6. sockets'[last].state = "connecting"
        BY <2>2, <3>3, <3>4
      <3>7. \A w \in 1 .. last : w > Len(sockets) =>
               sockets'[w].inbox = <<>> /\ (w # last => sockets'[w].state = "closing")
        BY <2>2, <3>3, <3>5
      <3>8. Len(sockets') = last
        BY <2>1, <3>1 DEF last
      <3>9. \A w \in 1 .. Len(sockets) : sockets'[w] = sockets[w]
        BY <2>1, <2>2, <3>1, <3>2
      <3> QED
        BY <2>1, <3>1, <3>2, <3>4, <3>6, <3>7, <3>8, <3>9
    <2> HIDE DEF last
    <2>4. /\ store' \in StoreRecord /\ store'.socket = last
          /\ store'.listeners = store.listeners \cup {c} /\ store'.data = store.data
          /\ store'.messageHistory = store.messageHistory /\ store'.connected = store.connected
      <3>1. last \in 0 .. MaxSockets
        BY <2>1, <2>3, StoreAssumption DEF last
      <3>2. store' = [store EXCEPT !.listeners = @ \cup {c}, !.socket = last,
                                   !.connectionStatus = "connecting"]
        BY <2>1, <2>3
      <3> QED
        BY <1>2, <3>1, <3>2 DEF StoreRecord
    <2>5. store.listeners = {} /\ store.data = NoMessage
      BY <1>8 DEF IInv, NoLeakedSocket, SocketKnown
    <2>6. TypeOK'
      <3>1. Len(sockets') <= MaxSockets
        BY <2>1, <2>3, StoreAssumption DEF last
      <3>2. Len(store'.messageHistory) <= HistoryCap /\ dirty' \subseteq store'.listeners
        BY <1>1, <1>2, <2>4
      <3>3. version' \in Versions /\ pushed' \in 0 .. MaxMessages
        BY <1>1, <1>2
      <3>4. overwritten' \in BOOLEAN
        BY <1>1, <1>2, Zenon
      <3> QED
        BY <1>5, <2>3, <2>4, <3>1, <3>2, <3>3, <3>4, TypesNext
    <2>7. NoLeakedSocket' /\ SocketKnown'
      <3>1. \A w \in 1 .. Len(sockets) : StateOf(w) \notin {"connecting", "open"}
        BY <1>8, <2>3 DEF IInv, NoLeakedSocket, NoSocket
      <3> QED
        BY <2>3, <2>4, <3>1 DEF NoLeakedSocket, SocketKnown, StateOf, NoSocket
    <2>8. DenialHasItsCause'
      BY <2>3, <2>4 DEF DenialHasItsCause, StateOf
    <2>9. InboxAhead' /\ HistoryEnds'
      <3>1. \A w \in DOMAIN sockets' : \A i \in DOMAIN sockets'[w].inbox :
               w \in DOMAIN sockets /\ i \in DOMAIN sockets[w].inbox
                 /\ sockets'[w].inbox[i] = sockets[w].inbox[i]
        BY <2>3
      <3>2. \A w \in DOMAIN sockets' : w = store'.socket => DOMAIN sockets'[w].inbox = {}
        BY <2>3, <2>4
      <3> QED
        BY <1>1, <2>4, <3>1, <3>2 DEF IInv, InboxAhead, HistoryEnds
    <2> QED
      BY <1>7, <2>4, <2>6, <2>7, <2>8, <2>9 DEF IInv
  <1>9. CASE store.socket # NoSocket
    <2>1. store' = [store EXCEPT !.listeners = @ \cup {c}] /\ UNCHANGED sockets
      BY <1>9 DEF Mount
    <2>2. /\ store' \in StoreRecord /\ store'.socket = store.socket
          /\ store'.listeners = store.listeners \cup {c} /\ store'.data = store.data
          /\ store'.messageHistory = store.messageHistory /\ store'.connected = store.connected
      BY <1>2, <2>1 DEF StoreRecord
    <2>3. TypeOK'
      BY <1>1, <1>2, <1>5, <2>1, <2>2, TypesNext
    <2>4. NoLeakedSocket' /\ SocketKnown' /\ DenialHasItsCause'
      BY <1>1, <1>9, <2>1, <2>2 DEF IInv, NoLeakedSocket, SocketKnown, DenialHasItsCause, StateOf
    <2>5. InboxAhead' /\ HistoryEnds'
      BY <1>1, <2>1, <2>2, MessagesLeft DEF IInv
    <2> QED
      BY <1>7, <2>2, <2>3, <2>4, <2>5 DEF IInv
  <1> QED
    BY <1>8, <1>9

LEMMA UnmountStep ==
    ASSUME IInv, NEW c \in Components, Unmount(c)
    PROVE  IInv'
  <1>1. /\ c \in store.listeners
        /\ dirty' = dirty \ {c}
        /\ view' = [view EXCEPT ![c] = Unmounted]
        /\ UNCHANGED <<version, pushed, overwritten>>
    BY DEF Unmount, Mounted
  <1>2. /\ version \in Versions /\ pushed \in 0 .. MaxMessages /\ overwritten \in BOOLEAN
        /\ sockets \in Seq(SocketRecord) /\ Len(sockets) <= MaxSockets
        /\ store \in StoreRecord /\ Len(store.messageHistory) <= HistoryCap
        /\ view \in [Components -> ViewRecord]
        /\ dirty \subseteq store.listeners
    BY Types DEF IInv
  <1>3. Unmounted \in ViewRecord
    BY StoreAssumption DEF Unmounted, ViewRecord, Requested
  <1>4. view' \in [Components -> ViewRecord]
        /\ \A d \in Components : d # c => view'[d] = view[d]
    BY <1>1, <1>2, <1>3
  <1>5. CASE store.listeners = {c}
    <2>1. /\ Close(store.socket)
          /\ store' = EmptyStore
      BY <1>5 DEF Unmount, resetStore, EmptyStore
    <2>2. store.socket \in DOMAIN sockets
      <3>1. store.socket # NoSocket
        BY <1>5 DEF IInv, NoLeakedSocket
      <3>2. store.socket \in 0 .. Len(sockets)
        BY DEF IInv, SocketKnown
      <3>3. Len(sockets) \in Nat /\ DOMAIN sockets = 1 .. Len(sockets)
        BY SocketTypes DEF IInv
      <3> QED
        BY <3>1, <3>2, <3>3 DEF NoSocket
    <2>3. /\ sockets' \in Seq(SocketRecord) /\ Len(sockets') = Len(sockets)
          /\ DOMAIN sockets' = DOMAIN sockets
          /\ sockets'[store.socket].state \in {"closing", "closed"}
          /\ \A o \in DOMAIN sockets : /\ sockets'[o].inbox = sockets[o].inbox
                                       /\ o # store.socket => sockets'[o] = sockets[o]
      <3>1. CASE StateOf(store.socket) = "closed"
        BY <1>2, <2>1, <3>1 DEF Close, StateOf
      <3>2. CASE StateOf(store.socket) # "closed"
        <4>1. SetState(store.socket, "closing") /\ "closing" \in States
          BY <2>1, <3>2 DEF Close, States
        <4> QED
          BY <2>2, <4>1, SetStateEffect DEF IInv
      <3> QED
        BY <3>1, <3>2
    <2>4. /\ store'.socket = NoSocket /\ store'.data = NoMessage
          /\ store'.messageHistory = <<>> /\ store'.listeners = {}
          /\ store' \in StoreRecord /\ Len(store'.messageHistory) <= HistoryCap
      BY <2>1, StoreAssumption DEF EmptyStore, StoreRecord, NoSocket
    <2>5. TypeOK'
      BY <1>1, <1>2, <1>4, <1>5, <2>3, <2>4, TypesNext
    <2>6. NoLeakedSocket' /\ SocketKnown' /\ DenialHasItsCause'
      <3>1. Len(sockets) \in Nat
        BY SocketTypes DEF IInv
      <3>2. \A w \in DOMAIN sockets' : StateOf(w)' \notin {"connecting", "open"}
        BY <2>3 DEF IInv, NoLeakedSocket, StateOf
      <3>3. SocketKnown'
        <4>1. ~store'.connected
          BY <2>1 DEF EmptyStore
        <4> QED
          BY <2>3, <2>4, <3>1, <4>1 DEF SocketKnown, NoSocket
      <3> QED
        BY <2>3, <2>4, <3>1, <3>2, <3>3 DEF NoLeakedSocket, DenialHasItsCause, NoSocket
    <2>7. InboxAhead' /\ HistoryEnds'
      <3>1. \A w \in DOMAIN sockets' : w # NoSocket
        BY <2>3, SocketTypes DEF IInv
      <3>2. \A w \in DOMAIN sockets' : \A i \in DOMAIN sockets'[w].inbox :
               sockets'[w].inbox[i].serial <= pushed
        BY <2>3 DEF IInv, InboxAhead
      <3>3. NoMessage.serial <= pushed
        BY <1>2, MessageFields
      <3> QED
        BY <1>1, <2>4, <3>1, <3>2, <3>3 DEF InboxAhead, HistoryEnds
    <2> QED
      BY <2>4, <2>5, <2>6, <2>7 DEF IInv
  <1>6. CASE store.listeners # {c}
    <2>1. store' = [store EXCEPT !.listeners = @ \ {c}] /\ UNCHANGED sockets
      BY <1>6 DEF Unmount
    <2>2. /\ store' \in StoreRecord /\ store'.socket = store.socket
          /\ store'.listeners = store.listeners \ {c} /\ store'.data = store.data
          /\ store'.messageHistory = store.messageHistory /\ store'.connected = store.connected
      BY <1>2, <2>1 DEF StoreRecord
    <2>3. TypeOK'
      BY <1>1, <1>2, <1>4, <2>1, <2>2, TypesNext
    <2>4. NoLeakedSocket' /\ SocketKnown' /\ DenialHasItsCause'
      BY <1>1, <1>6, <2>1, <2>2 DEF IInv, NoLeakedSocket, SocketKnown, DenialHasItsCause, StateOf
    <2>5. InboxAhead' /\ HistoryEnds'
      BY <1>1, <2>1, <2>2, MessagesLeft DEF IInv
    <2>6. ASSUME NEW d \in store'.listeners
          PROVE  ViewOf(d)'
      <3>1. d \in Components /\ d # c /\ d \in store.listeners
        BY <1>2, <2>2 DEF StoreRecord
      <3>2. ViewOf(d) /\ view'[d] = view[d] /\ (d \notin dirty' => d \notin dirty)
        BY <1>1, <1>4, <3>1 DEF IInv
      <3> QED
        BY <2>2, <3>2, ViewsLeft
    <2> QED
      BY <2>3, <2>4, <2>5, <2>6 DEF IInv
  <1> QED
    BY <1>5, <1>6

-----------------------------------------------------------------------------
(* The callbacks of the sockets, and the server.                            *)

(* A callback that changes the state of a socket and the status.            *)
LEMMA StatusChange ==
    ASSUME IInv, NEW w \in DOMAIN sockets, NEW state \in States, SetState(w, state),
           store' \in StoreRecord, UNCHANGED <<version, pushed, view>>,
           dirty' = store.listeners, overwritten' \in BOOLEAN,
           store'.socket = store.socket, store'.listeners = store.listeners,
           store'.data = store.data, store'.messageHistory = store.messageHistory,
           state \in {"connecting", "open"} => w = store.socket,
           store.socket = NoSocket => ~store'.connected,
           DenialHasItsCause'
    PROVE  IInv'
  <1>1. /\ version \in Versions /\ pushed \in 0 .. MaxMessages
        /\ Len(sockets) <= MaxSockets /\ Len(store.messageHistory) <= HistoryCap
        /\ view \in [Components -> ViewRecord]
    BY Types DEF IInv
  <1>2. /\ sockets' \in Seq(SocketRecord) /\ Len(sockets') = Len(sockets)
        /\ DOMAIN sockets' = DOMAIN sockets
        /\ sockets'[w].state = state
        /\ \A o \in DOMAIN sockets : /\ sockets'[o].inbox = sockets[o].inbox
                                     /\ o # w => sockets'[o] = sockets[o]
    BY SetStateEffect DEF IInv
  <1>3. TypeOK'
    BY <1>1, <1>2, TypesNext
  <1>4. NoLeakedSocket'
    BY <1>2 DEF IInv, NoLeakedSocket, StateOf
  <1>5. SocketKnown'
    BY <1>2 DEF IInv, SocketKnown
  <1>6. InboxAhead' /\ HistoryEnds'
    BY <1>2, MessagesLeft DEF IInv
  <1>7. \A c \in store'.listeners : ViewOf(c)'
    BY ViewsLeft DEF IInv
  <1> QED
    BY <1>3, <1>4, <1>5, <1>6, <1>7 DEF IInv

LEMMA OpenStep ==
    ASSUME IInv, NEW w \in DOMAIN sockets, onopen(w)
    PROVE  IInv'
  <1>1. /\ StateOf(w) = "connecting" /\ SetState(w, "open") /\ "open" \in States
        /\ store' = [store EXCEPT !.connected = TRUE, !.connectionStatus = "connected"]
        /\ dirty' = store.listeners
        /\ UNCHANGED <<version, pushed, view>>
    BY DEF onopen, notify, States
  <1>2. overwritten' = FALSE
    BY DEF onopen
  <1>3. w = store.socket
    BY <1>1 DEF IInv, NoLeakedSocket
  <1>4. store \in StoreRecord
    BY Types DEF IInv
  <1>5. /\ store' \in StoreRecord /\ store'.connected
        /\ store'.socket = store.socket /\ store'.listeners = store.listeners
        /\ store'.data = store.data /\ store'.messageHistory = store.messageHistory
    BY <1>1, <1>4 DEF StoreRecord
  <1>6. overwritten' \in BOOLEAN
    BY <1>2, Zenon
  <1>7. DenialHasItsCause'
    BY <1>5 DEF DenialHasItsCause
  <1>8. store.socket # NoSocket
    BY <1>3, SocketTypes DEF IInv
  <1> QED
    BY <1>1, <1>3, <1>5, <1>6, <1>7, <1>8, StatusChange

(* The one callback of an earlier socket that can come late.                *)
LEMMA CloseStep ==
    ASSUME IInv, NEW w \in DOMAIN sockets, onclose(w)
    PROVE  IInv'
  <1>1. /\ SetState(w, "closed") /\ "closed" \in States
        /\ store' = [store EXCEPT !.connected = FALSE, !.connectionStatus = "disconnected"]
        /\ dirty' = store.listeners
        /\ UNCHANGED <<version, pushed, view>>
    BY DEF onclose, notify, States
  <1>2. overwritten' = (overwritten \/ w # store.socket)
    BY DEF onclose
  <1>3. store \in StoreRecord
    BY Types DEF IInv
  <1>4. /\ store' \in StoreRecord
        /\ store'.socket = store.socket /\ store'.listeners = store.listeners
        /\ store'.data = store.data /\ store'.messageHistory = store.messageHistory
    BY <1>1, <1>3 DEF StoreRecord
  <1>5. overwritten' \in BOOLEAN
    BY <1>2, Zenon
  <1>6. DenialHasItsCause'
    <2>1. CASE w = store.socket
      <3>1. sockets'[w].state = "closed"
        BY <1>1, SetStateEffect DEF IInv
      <3> QED
        BY <1>4, <2>1, <3>1 DEF DenialHasItsCause, StateOf
    <2>2. CASE w # store.socket
      <3>1. overwritten'
        BY <1>2, <2>2, Zenon
      <3> QED
        BY <3>1 DEF DenialHasItsCause
    <2> QED
      BY <2>1, <2>2
  <1>7. ~store'.connected
    BY <1>1, <1>3 DEF StoreRecord
  <1> QED
    BY <1>1, <1>4, <1>5, <1>6, <1>7, StatusChange

(* The list with one message more, and the older ones let go.               *)
LEMMA LatestKeeps ==
    ASSUME NEW h \in Seq(Message), Len(h) <= HistoryCap, NEW m \in Message
    PROVE  LET l == Latest(Append(h, m))
           IN  /\ l \in Seq(Message) /\ Len(l) \in Nat /\ Len(l) <= HistoryCap
               /\ Len(l) > 0 /\ l # <<>> /\ l[Len(l)] = m
               /\ Len(l) < HistoryCap =>
                    /\ Len(l) = Len(h) + 1
                    /\ \A k \in DOMAIN h : k \in DOMAIN l /\ l[k] = h[k]
  <1> DEFINE a == Append(h, m)
             n == Len(h)
             first == IF n = HistoryCap THEN 2 ELSE 1
             l == SubSeq(a, first, n + 1)
  <1>1. /\ a \in Seq(Message) /\ Len(a) = n + 1
        /\ n \in Nat /\ n <= HistoryCap /\ DOMAIN h = 1 .. n
        /\ \A i \in 1 .. n : a[i] = h[i]
        /\ a[n + 1] = m
    BY AppendProperties, LenProperties
  <1> HIDE DEF a, n
  <1>2. HistoryCap \in Nat /\ HistoryCap > 0
    BY StoreAssumption
  <1>3. l = Latest(a)
    <2> DEFINE from == IF Len(a) > HistoryCap THEN Len(a) - HistoryCap + 1 ELSE 1
    <2>1. from = first
      BY <1>1, <1>2
    <2>2. Latest(a) = SubSeq(a, from, Len(a))
      BY DEF Latest
    <2> HIDE DEF from, first
    <2> QED
      BY <1>1, <2>1, <2>2
  <1>4. first \in {1, 2} /\ first \in Int /\ n + 1 \in Int /\ first <= n + 1
    BY <1>1, <1>2
  <1>5. \A i \in first .. n + 1 : a[i] \in Message
    BY <1>1, <1>4, ElementOfSeq
  <1>6. /\ l \in Seq(Message)
        /\ Len(l) = n + 1 - first + 1
        /\ \A i \in 1 .. n + 1 - first + 1 : l[i] = a[first + i - 1]
    <2> DEFINE last == n + 1
    <2>1. /\ first \in Int /\ last \in Int /\ first <= last
          /\ \A i \in first .. last : a[i] \in Message
      BY <1>4, <1>5
    <2> HIDE DEF first, last
    <2>2. l = SubSeq(a, first, last)
      BY DEF last
    <2> HIDE DEF l
    <2>3. /\ l \in Seq(Message)
          /\ Len(l) = IF first <= last THEN last - first + 1 ELSE 0
          /\ \A i \in 1 .. last - first + 1 : l[i] = a[first + i - 1]
      <3>1. /\ SubSeq(a, first, last) \in Seq(Message)
            /\ Len(SubSeq(a, first, last)) = IF first <= last THEN last - first + 1 ELSE 0
            /\ \A i \in 1 .. last - first + 1 : SubSeq(a, first, last)[i] = a[first + i - 1]
        BY <2>1, SubSeqProperties
      <3> QED
        BY <2>2, <3>1, Zenon
    <2>4. Len(l) = last - first + 1
      BY <2>1, <2>3
    <2> QED
      BY <1>1, <1>4, <2>3, <2>4 DEF last
  <1>7. first = 1 \/ (first = 2 /\ n = HistoryCap)
    BY <1>1
  <1>8. first = 1 => n < HistoryCap
    BY <1>1, <1>2
  <1> HIDE DEF first, l
  <1>9. DOMAIN l = 1 .. Len(l)
    BY <1>6, LenProperties
  <1>10. Len(l) \in Nat /\ Len(l) > 0 /\ Len(l) <= HistoryCap
    BY <1>1, <1>2, <1>6, <1>7, <1>8
  <1>11. l # <<>>
    BY <1>10, EmptySeq
  <1>12. l[Len(l)] = m
    <2>1. Len(l) \in 1 .. n + 1 - first + 1 /\ first + Len(l) - 1 = n + 1
      BY <1>1, <1>4, <1>6, <1>10
    <2> QED
      BY <1>1, <1>6, <2>1
  <1>13. ASSUME Len(l) < HistoryCap
         PROVE  Len(l) = n + 1 /\ \A k \in DOMAIN h : k \in DOMAIN l /\ l[k] = h[k]
    <2>1. first = 1 /\ Len(l) = n + 1
      BY <1>1, <1>2, <1>6, <1>7, <1>13
    <2>2. ASSUME NEW k \in DOMAIN h
          PROVE  k \in DOMAIN l /\ l[k] = h[k]
      <3>1. k \in 1 .. n /\ k \in 1 .. n + 1 - first + 1 /\ first + k - 1 = k
        BY <1>1, <2>1, <2>2
      <3> QED
        BY <1>1, <1>6, <1>9, <2>1, <3>1
    <2> QED
      BY <2>1, <2>2
  <1> QED
    BY <1>3, <1>6, <1>10, <1>11, <1>12, <1>13 DEF a, n

LEMMA MessageStep ==
    ASSUME IInv, NEW w \in DOMAIN sockets, onmessage(w)
    PROVE  IInv'
  <1> DEFINE inbox == sockets[w].inbox
             m == Head(inbox)
             s == [sockets[w] EXCEPT !.inbox = Tail(inbox)]
             h == store.messageHistory
             l == Latest(Append(h, m))
  <1>1. /\ StateOf(w) = "open" /\ inbox # <<>>
        /\ sockets' = [sockets EXCEPT ![w] = s]
        /\ store' = [store EXCEPT !.data = m, !.messageHistory = l]
        /\ dirty' = store.listeners
        /\ UNCHANGED <<version, pushed, view, overwritten>>
    BY DEF onmessage, Receives, notify
  <1>2. /\ version \in Versions /\ pushed \in 0 .. MaxMessages /\ overwritten \in BOOLEAN
        /\ sockets \in Seq(SocketRecord) /\ Len(sockets) <= MaxSockets
        /\ store \in StoreRecord /\ Len(h) <= HistoryCap /\ h \in Seq(Message)
        /\ view \in [Components -> ViewRecord]
        /\ sockets[w] \in SocketRecord /\ inbox \in Seq(Message)
    BY Types, SocketTypes DEF IInv, StoreRecord
  <1>3. w = store.socket
    BY <1>1 DEF IInv, NoLeakedSocket
  <1>4. /\ m \in Message /\ Tail(inbox) \in Seq(Message)
        /\ Len(Tail(inbox)) = Len(inbox) - 1 /\ Len(inbox) \in Nat /\ Len(inbox) > 0
        /\ DOMAIN inbox = 1 .. Len(inbox) /\ m = inbox[1]
        /\ DOMAIN Tail(inbox) = 1 .. Len(inbox) - 1
        /\ \A i \in 1 .. Len(inbox) - 1 : Tail(inbox)[i] = inbox[i + 1]
    <2>1. /\ m \in Message /\ Tail(inbox) \in Seq(Message)
          /\ Len(Tail(inbox)) = Len(inbox) - 1 /\ Len(inbox) \in Nat \ {0}
          /\ DOMAIN inbox = 1 .. Len(inbox)
          /\ DOMAIN Tail(inbox) = 1 .. Len(Tail(inbox))
          /\ \A i \in 1 .. Len(Tail(inbox)) : Tail(inbox)[i] = inbox[i + 1]
      BY <1>1, <1>2, HeadTailProperties, LenProperties, EmptySeq
    <2>2. m = inbox[1]
      BY <1>1, <1>2
    <2> QED
      BY <2>1, <2>2
  <1>5. /\ l \in Seq(Message) /\ Len(l) \in Nat /\ Len(l) <= HistoryCap
        /\ l # <<>> /\ l[Len(l)] = m
        /\ Len(l) < HistoryCap =>
             /\ Len(l) = Len(h) + 1
             /\ \A k \in DOMAIN h : k \in DOMAIN l /\ l[k] = h[k]
    BY <1>2, <1>4, LatestKeeps
  <1>6. s \in SocketRecord /\ s.inbox = Tail(inbox) /\ s.state = sockets[w].state
    BY <1>2, <1>4 DEF SocketRecord
  <1> HIDE DEF l, m, s
  <1>7. /\ sockets' \in Seq(SocketRecord) /\ Len(sockets') = Len(sockets)
        /\ DOMAIN sockets' = DOMAIN sockets
        /\ sockets'[w] = s
        /\ \A o \in DOMAIN sockets : o # w => sockets'[o] = sockets[o]
    BY <1>1, <1>6, SocketChange DEF IInv
  <1>8. /\ store' \in StoreRecord /\ store'.socket = store.socket
        /\ store'.listeners = store.listeners /\ store'.connected = store.connected
        /\ store'.data = m /\ store'.messageHistory = l
    BY <1>1, <1>2, <1>4, <1>5 DEF StoreRecord
  <1>9. TypeOK'
    <2>1. overwritten' \in BOOLEAN
      BY <1>1, <1>2, Zenon
    <2> QED
      BY <1>1, <1>2, <1>5, <1>7, <1>8, <2>1, TypesNext
  <1>10. NoLeakedSocket' /\ SocketKnown' /\ DenialHasItsCause'
    <2>1. \A o \in DOMAIN sockets : sockets'[o].state = sockets[o].state
      BY <1>6, <1>7
    <2>2. store.socket # NoSocket
      BY <1>3, SocketTypes DEF IInv
    <2>3. NoLeakedSocket'
      BY <1>7, <1>8, <2>1 DEF IInv, NoLeakedSocket, StateOf
    <2>4. SocketKnown'
      BY <1>7, <1>8, <2>2 DEF IInv, SocketKnown
    <2>5. DenialHasItsCause'
      <3>1. sockets'[store.socket].state = sockets[store.socket].state
        BY <1>3, <2>1
      <3> QED
        BY <1>1, <1>8, <3>1 DEF IInv, DenialHasItsCause, StateOf
    <2> QED
      BY <2>3, <2>4, <2>5
  <1>11. /\ store.data.serial < m.serial /\ m.serial <= pushed
         /\ store.data.serial \in Nat /\ m.serial \in Nat /\ m.serial > 0
    BY <1>2, <1>3, <1>4, MessageFields DEF IInv, InboxAhead, StoreRecord
  <1>12. InboxAhead'
    <2>1. \A i \in DOMAIN s.inbox :
             /\ i \in Nat /\ i + 1 \in DOMAIN inbox /\ 1 < i + 1 /\ s.inbox[i] = inbox[i + 1]
      BY <1>4, <1>6
    <2>2. \A o \in DOMAIN sockets' : \A i \in DOMAIN sockets'[o].inbox :
             sockets'[o].inbox[i].serial <= pushed
      BY <1>7, <2>1 DEF IInv, InboxAhead
    <2>3. \A i, j \in DOMAIN inbox : i < j => inbox[i].serial < inbox[j].serial
      BY <1>3 DEF IInv, InboxAhead
    <2>4. \A i \in DOMAIN s.inbox :
             /\ m.serial < s.inbox[i].serial
             /\ \A j \in DOMAIN s.inbox : i < j => s.inbox[i].serial < s.inbox[j].serial
      <3>1. 1 \in DOMAIN inbox /\ m.serial = inbox[1].serial
        BY <1>4
      <3> QED
        BY <2>1, <2>3, <3>1
    <2> QED
      BY <1>1, <1>3, <1>7, <1>8, <1>11, <2>2, <2>4 DEF InboxAhead
  <1>13. HistoryEnds'
    BY <1>4, <1>5, <1>8, MessageFields DEF HistoryEnds
  <1>14. ASSUME NEW c \in store.listeners
         PROVE  ViewOf(c)'
    <2>1. c \in Components /\ ViewOf(c) /\ view'[c] = view[c] /\ c \in dirty'
      BY <1>1, <1>2 DEF IInv, StoreRecord
    <2>2. view[c].seen.serial \in Nat
      BY <1>2, <2>1, MessageFields DEF ViewRecord
    <2>3. view[c].seen.serial < m.serial
      BY <1>11, <2>1, <2>2 DEF ViewOf
    <2>4. ASSUME Len(l) < HistoryCap
          PROVE  \/ view[c].count = 0
                 \/ \E k \in DOMAIN l :
                        l[k] = view[c].seen /\ view[c].count <= k + Excess(view[c])
      <3>1. Len(h) < HistoryCap
        BY <1>2, <1>5, <2>4, LenProperties, StoreAssumption
      <3> QED
        BY <1>5, <2>1, <2>4, <3>1 DEF ViewOf
    <2> QED
      BY <1>8, <1>11, <2>1, <2>2, <2>3, <2>4 DEF ViewOf
  <1> QED
    BY <1>8, <1>9, <1>10, <1>12, <1>13, <1>14 DEF IInv

(* Only a socket that is not given up is written to: the store's.           *)
LEMMA PushStep ==
    ASSUME IInv, NEW w \in DOMAIN sockets, Push(w)
    PROVE  IInv'
  <1> DEFINE inbox == sockets[w].inbox
             m == [socket |-> w, serial |-> pushed + 1, version |-> version]
             s == [sockets[w] EXCEPT !.inbox = Append(inbox, m)]
  <1>1. /\ StateOf(w) \in {"connecting", "open"}
        /\ pushed < MaxMessages /\ pushed' = pushed + 1
        /\ sockets' = [sockets EXCEPT ![w] = s]
        /\ UNCHANGED <<version, store, view, dirty, overwritten>>
    BY DEF Push
  <1>2. /\ version \in Versions /\ pushed \in Nat /\ overwritten \in BOOLEAN
        /\ pushed' \in 0 .. MaxMessages
        /\ Len(sockets) <= MaxSockets
        /\ store \in StoreRecord /\ Len(store.messageHistory) <= HistoryCap
        /\ view \in [Components -> ViewRecord] /\ dirty \subseteq store.listeners
        /\ sockets[w] \in SocketRecord /\ inbox \in Seq(Message)
        /\ w \in 1 .. MaxSockets
    BY <1>1, Types, SocketTypes, StoreAssumption DEF IInv
  <1>3. w = store.socket
    BY <1>1 DEF IInv, NoLeakedSocket
  <1>4. m \in Message /\ m.serial = pushed + 1
    BY <1>1, <1>2, StoreAssumption DEF Message
  <1> HIDE DEF m
  <1>5. /\ Append(inbox, m) \in Seq(Message)
        /\ Len(inbox) \in Nat /\ DOMAIN inbox = 1 .. Len(inbox)
        /\ DOMAIN Append(inbox, m) = 1 .. Len(inbox) + 1
        /\ \A i \in 1 .. Len(inbox) : Append(inbox, m)[i] = inbox[i]
        /\ Append(inbox, m)[Len(inbox) + 1] = m
    BY <1>2, <1>4, AppendProperties, LenProperties
  <1>6. s \in SocketRecord /\ s.inbox = Append(inbox, m) /\ s.state = sockets[w].state
    BY <1>2, <1>5 DEF SocketRecord
  <1> HIDE DEF s
  <1>7. /\ sockets' \in Seq(SocketRecord) /\ Len(sockets') = Len(sockets)
        /\ DOMAIN sockets' = DOMAIN sockets
        /\ sockets'[w] = s
        /\ \A o \in DOMAIN sockets : o # w => sockets'[o] = sockets[o]
    BY <1>1, <1>6, SocketChange DEF IInv
  <1>8. TypeOK'
    <2>1. overwritten' \in BOOLEAN
      BY <1>1, <1>2, Zenon
    <2> QED
      BY <1>1, <1>2, <1>7, <2>1, TypesNext
  <1>9. NoLeakedSocket' /\ SocketKnown' /\ DenialHasItsCause' /\ HistoryEnds'
    <2>1. \A o \in DOMAIN sockets : sockets'[o].state = sockets[o].state
      BY <1>6, <1>7
    <2>2. NoLeakedSocket'
      BY <1>1, <1>7, <2>1 DEF IInv, NoLeakedSocket, StateOf
    <2>3. SocketKnown'
      BY <1>1, <1>7 DEF IInv, SocketKnown
    <2>4. DenialHasItsCause'
      <3>1. sockets'[store.socket].state = sockets[store.socket].state
        BY <1>3, <2>1
      <3> QED
        BY <1>1, <3>1 DEF IInv, DenialHasItsCause, StateOf
    <2>5. HistoryEnds'
      BY <1>1 DEF IInv, HistoryEnds
    <2> QED
      BY <2>2, <2>3, <2>4, <2>5
  <1>10. InboxAhead'
    <2>1. \A i \in DOMAIN s.inbox : \/ i \in DOMAIN inbox /\ s.inbox[i] = inbox[i]
                                    \/ i = Len(inbox) + 1 /\ s.inbox[i] = m
      BY <1>5, <1>6
    <2>2. store.data.serial <= pushed
          /\ \A o \in DOMAIN sockets : \A i \in DOMAIN sockets[o].inbox :
                sockets[o].inbox[i].serial \in Nat /\ sockets[o].inbox[i].serial <= pushed
      BY InboxTypes DEF IInv, InboxAhead
    <2>3. store.data.serial \in Nat
      BY <1>2, MessageFields DEF StoreRecord
    <2>4. \A o \in DOMAIN sockets' : \A i \in DOMAIN sockets'[o].inbox :
             sockets'[o].inbox[i].serial <= pushed'
      BY <1>1, <1>2, <1>4, <1>7, <2>1, <2>2
    <2>5. \A i \in DOMAIN s.inbox :
             /\ store.data.serial < s.inbox[i].serial
             /\ \A j \in DOMAIN s.inbox : i < j => s.inbox[i].serial < s.inbox[j].serial
      <3>1. \A i \in DOMAIN inbox :
               /\ store.data.serial < inbox[i].serial
               /\ inbox[i].serial < m.serial
               /\ \A j \in DOMAIN inbox : i < j => inbox[i].serial < inbox[j].serial
        BY <1>2, <1>3, <1>4, <2>2 DEF IInv, InboxAhead
      <3>2. store.data.serial < m.serial
        BY <1>2, <1>4, <2>2, <2>3
      <3> QED
        BY <1>5, <2>1, <3>1, <3>2
    <2> QED
      BY <1>1, <1>2, <1>3, <1>7, <2>2, <2>3, <2>4, <2>5 DEF InboxAhead
  <1>11. \A c \in store'.listeners : ViewOf(c)'
    BY <1>1, ViewsLeft DEF IInv
  <1> QED
    BY <1>8, <1>9, <1>10, <1>11 DEF IInv

LEMMA QuietStep ==
    ASSUME IInv, TopologyChanges \/ UNCHANGED vars
    PROVE  IInv'
  <1>1. version' \in Versions /\ UNCHANGED <<pushed, sockets, store, view, dirty, overwritten>>
    BY Types, StoreAssumption DEF IInv, TopologyChanges, vars, Versions
  <1>2. TypeOK'
    <2>1. overwritten' \in BOOLEAN
      BY <1>1, Types, Zenon DEF IInv
    <2> QED
      BY <1>1, <2>1, Types, TypesNext DEF IInv
  <1>3. NoLeakedSocket' /\ SocketKnown' /\ DenialHasItsCause' /\ InboxAhead' /\ HistoryEnds'
    BY <1>1, SocketsLeft DEF IInv
  <1>4. \A c \in store'.listeners : ViewOf(c)'
    BY <1>1, ViewsLeft DEF IInv
  <1> QED
    BY <1>2, <1>3, <1>4 DEF IInv

-----------------------------------------------------------------------------
(* The theorems.                                                            *)

LEMMA StepPreserves == IInv /\ [Next]_vars => IInv'
  <1> SUFFICES ASSUME IInv, [Next]_vars PROVE IInv'
    OBVIOUS
  <1>1. ASSUME NEW c \in Components, Mount(c) PROVE IInv'
    BY <1>1, MountStep
  <1>2. ASSUME NEW c \in Components, Unmount(c) PROVE IInv'
    BY <1>2, UnmountStep
  <1>3. ASSUME NEW c \in Components, Render(c) PROVE IInv'
    BY <1>3, RenderStep
  <1>4. ASSUME NEW c \in Components, ServeGet(c) \/ GetArrives(c) \/ GetFails(c) PROVE IInv'
    BY <1>4, GetSteps
  <1>5. ASSUME NEW w \in DOMAIN sockets, onopen(w) PROVE IInv'
    BY <1>5, OpenStep
  <1>6. ASSUME NEW w \in DOMAIN sockets, onmessage(w) PROVE IInv'
    BY <1>6, MessageStep
  <1>7. ASSUME NEW w \in DOMAIN sockets, onclose(w) PROVE IInv'
    BY <1>7, CloseStep
  <1>8. ASSUME NEW w \in DOMAIN sockets, Push(w) PROVE IInv'
    BY <1>8, PushStep
  <1>9. ASSUME TopologyChanges \/ UNCHANGED vars PROVE IInv'
    BY <1>9, QuietStep
  <1> QED
    BY <1>1, <1>2, <1>3, <1>4, <1>5, <1>6, <1>7, <1>8, <1>9 DEF Next

(* In every state of every run the inductive invariant holds.               *)
THEOREM Invariant == Spec => []IInv
  BY InitEstablishes, StepPreserves, PTL DEF Spec

(* The hooks keep their state well formed: the list never outgrows its cap  *)
(* and only mounted components have renderings due (useWebSocket.js).       *)
THEOREM TypeCorrect == Spec => []TypeOK
  <1>1. IInv => TypeOK
    BY DEF IInv
  <1> QED
    BY <1>1, Invariant, PTL

(* Whatever the order of mounts, unmounts and late callbacks, every socket  *)
(* but the store's is given up, and there is one exactly while a component  *)
(* listens (useWebSocket.js: resetStore and the effect).                    *)
THEOREM OneSocket == Spec => []NoLeakedSocket
  <1>1. IInv => NoLeakedSocket
    BY DEF IInv
  <1> QED
    BY <1>1, Invariant, PTL

(* A store denies an open connection only when the onclose of a socket of   *)
(* an earlier mount has come since it opened (useWebSocket.js: onclose).    *)
THEOREM HonestStatus == Spec => []DenialHasItsCause
  <1>1. IInv => DenialHasItsCause
    BY DEF IInv
  <1> QED
    BY <1>1, Invariant, PTL

(* A mounted component has counted what the store has received for it, or   *)
(* one more if its mount counted a message twice.                           *)
LEMMA CountBounded ==
    ASSUME IInv, NEW c \in store.listeners
    PROVE  view[c].count <= Received + Excess(view[c])
  <1> DEFINE h == store.messageHistory
  <1>1. /\ h \in Seq(Message) /\ Len(h) \in Nat /\ DOMAIN h = 1 .. Len(h)
        /\ store \in StoreRecord /\ view[c] \in ViewRecord
    BY Types, LenProperties DEF IInv, StoreRecord
  <1>2. /\ view[c].count \in 0 .. MaxMessages + 1 /\ MaxMessages \in Nat
        /\ view[c].seen.serial \in Nat /\ store.data.serial \in Nat
        /\ Excess(view[c]) \in {0, 1}
    BY <1>1, MessageFields, StoreAssumption DEF StoreRecord, ViewRecord, Excess
  <1>3. ViewOf(c)
    BY DEF IInv
  <1>4. view[c].count <= store.data.serial + Excess(view[c])
    BY <1>2, <1>3 DEF ViewOf
  <1>5. Len(h) < HistoryCap => view[c].count <= Len(h) + Excess(view[c])
    BY <1>1, <1>2, <1>3 DEF ViewOf
  <1> QED
    BY <1>4, <1>5 DEF Received

(* In either build, no component has counted more than the store has        *)
(* received for it, but for one message that StrictMode may count twice     *)
(* when the component is mounted, and none is at zero beside a list that is *)
(* not (PacketCounter and the other effects on lastMessage).                *)
THEOREM CountsAreFounded == Spec => []CountWithinHistory
  <1>1. IInv => CountWithinHistory
    <2> SUFFICES ASSUME IInv, NEW c \in store.listeners
                 PROVE  /\ view[c].count <= Received + Excess(view[c])
                        /\ c \notin dirty /\ store.messageHistory # <<>> => view[c].count > 0
      BY DEF CountWithinHistory
    <2>1. view[c].count <= Received + Excess(view[c])
      BY CountBounded
    <2>2. c \notin dirty /\ store.messageHistory # <<>> => view[c].count > 0
      BY DEF IInv, ViewOf, HistoryEnds
    <2> QED
      BY <2>1, <2>2
  <1> QED
    BY <1>1, Invariant, PTL

(* In the production build, where effects run once, the total that          *)
(* ProtocolBreakdown shows never exceeds the packets that the store has     *)
(* received; in the development build it may, by one.                       *)
THEOREM ProductionCountsOnce ==
    ASSUME ~StrictMode
    PROVE  Spec => []TotalCountsPackets
  <1>1. IInv => TotalCountsPackets
    <2> SUFFICES ASSUME IInv, NEW c \in store.listeners
                 PROVE  view[c].count <= Received
      BY DEF TotalCountsPackets
    <2>1. view[c].count <= Received + Excess(view[c])
      BY CountBounded
    <2>2. Excess(view[c]) = 0
      BY DEF IInv, ViewOf, Excess
    <2>3. view[c].count \in Nat /\ Received \in Nat
      <3>1. view[c] \in ViewRecord /\ store \in StoreRecord /\ MaxMessages \in Nat
        BY Types, StoreAssumption DEF IInv, StoreRecord
      <3>2. Len(store.messageHistory) \in Nat /\ store.data.serial \in Nat
        BY <3>1, LenProperties, MessageFields DEF StoreRecord
      <3> QED
        BY <3>1, <3>2 DEF ViewRecord, Received
    <2> QED
      BY <2>1, <2>2, <2>3
  <1> QED
    BY <1>1, Invariant, PTL

(* Rendered components of one store show the topology of its last message,  *)
(* except one whose GET was answered after it (useTopology.js).             *)
THEOREM ComponentsShowTheSame == Spec => []ComponentsAgree
  <1>1. IInv => ComponentsAgree
    BY DEF IInv, ViewOf, ComponentsAgree
  <1> QED
    BY <1>1, Invariant, PTL
=============================================================================
