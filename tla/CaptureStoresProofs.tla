-------------------------- MODULE CaptureStoresProofs --------------------------
(***************************************************************************)
(* Proofs about what the capture agent's packets leave behind, in the two  *)
(* stores of the API and on the live channel, for every number of frames,  *)
(* buffer capacity and number of failed exchanges.                         *)
(***************************************************************************)
EXTENDS CaptureAgentProofs

-----------------------------------------------------------------------------
(* The inductive invariant, beside IndInv.                                  *)

(* Packets with a row, or with a request the API may still handle; packets  *)
(* the flusher will post; packets that will be posted.                      *)
Offered == Elements(events) \cup {r.pkt : r \in late}
Waiting == Elements(packet_buffer) \cup InFlight
Unsettled == Waiting \cup InHand

(* No packet that waits is below one that was offered, and one that was     *)
(* offered before waits only because its outcome is unknown to the agent.   *)
OfferedInv ==
    /\ \A r \in late : r.pkt \in doubted
    /\ \A e \in Offered : e < next
    /\ \A e \in Offered, p \in Waiting : e <= p
    /\ \A e \in Offered \cap Unsettled : e \in Elements(acked) \cup doubted

(* The sniffer's packet is the last frame and above what was announced.     *)
AnnouncedInv ==
    /\ AnnouncedRegardless
    /\ \A e \in Elements(announced) : e < next
    /\ ~SnifferAt("sniffing") => sniffer.pkt = next - 1
    /\ sniffer.pc \in {"posting", "buffering", "announcing"} =>
           \A e \in Elements(announced) : e < sniffer.pkt
    /\ SnifferAt("exited") => sniffer.pkt \in lost

StoresInv ==
    IndInv /\ OfferedInv /\ IrregularRowsAreDoubted /\ AckedIsStored /\ AnnouncedInv

-----------------------------------------------------------------------------
(* Rows and offers.                                                         *)

LEMMA OfferedTypes ==
    ASSUME TypeOK
    PROVE  /\ events \in Seq(Frames) /\ Elements(events) \subseteq Frames
           /\ Offered \subseteq Frames /\ Frames \subseteq Nat
           /\ \A r \in late : r.pkt \in Frames
  <1>1. events \in Seq(Frames)
    BY DEF TypeOK, IngestTypeOK
  <1>2. Elements(events) \subseteq Frames
    BY <1>1, ElementsIn
  <1>3. \A r \in late : r.pkt \in Frames
    BY DEF TypeOK
  <1>4. Frames \subseteq Nat
    BY PacketsAreNumbers
  <1> QED
    BY <1>1, <1>2, <1>3, <1>4 DEF Offered

(* One row more does not disturb the others, and is regular or doubted.     *)
LEMMA RowAppended ==
    ASSUME TypeOK, IrregularRowsAreDoubted, NEW p \in Frames,
           events' \in {events, Append(events, p)}, doubted \subseteq doubted',
           p \in doubted' \/ \A e \in Elements(events) : e < p
    PROVE  IrregularRowsAreDoubted'
  <1>1. CASE events' = events
    BY <1>1 DEF IrregularRowsAreDoubted
  <1>2. CASE events' = Append(events, p)
    <2>1. /\ Len(events) \in Nat /\ DOMAIN events = 1 .. Len(events)
          /\ DOMAIN events' = 1 .. Len(events) + 1
          /\ \A i \in 1 .. Len(events) : events'[i] = events[i]
          /\ events'[Len(events) + 1] = p
      BY <1>2, OfferedTypes, AppendProperties, LenProperties
    <2>2. Elements(events) \subseteq Nat /\ p \in Nat
      BY OfferedTypes
    <2> SUFFICES ASSUME NEW i \in DOMAIN events', NEW j \in DOMAIN events',
                        i < j, events'[j] <= events'[i]
                 PROVE  events'[j] \in doubted'
      BY DEF IrregularRowsAreDoubted
    <2>3. i \in DOMAIN events /\ events'[i] = events[i] /\ events[i] \in Elements(events)
      <3>1. i \in 1 .. Len(events)
        BY <2>1
      <3> QED
        BY <2>1, <3>1 DEF Elements
    <2>4. CASE j \in DOMAIN events
      BY <2>1, <2>3, <2>4 DEF IrregularRowsAreDoubted
    <2>5. CASE j \notin DOMAIN events
      <3>1. events'[j] = p
        BY <2>1, <2>5
      <3>2. ~(events[i] < p)
        BY <2>2, <2>3, <3>1
      <3> QED
        BY <2>3, <3>1, <3>2
    <2> QED
      BY <2>4, <2>5
  <1> QED
    BY <1>1, <1>2

(* What an exchange for a packet leaves behind.                             *)
LEMMA ExchangeEffect ==
    ASSUME TypeOK, NEW p \in Frames, Answered201(p) \/ NotSent(p)
    PROVE  /\ events' \in {events, Append(events, p)}
           /\ doubted \subseteq doubted'
           /\ \A r \in late' : r \in late \/ (r.pkt = p /\ p \in doubted')
           /\ Offered' \subseteq Offered \cup {p}
           /\ Elements(acked) \subseteq Elements(acked')
           /\ Offered' \subseteq Offered \/ p \in Elements(acked') \cup doubted'
           /\ influx \subseteq influx'
           /\ Elements(acked') \subseteq Elements(acked) \cup {p}
           /\ InfluxConfigured /\ Answered201(p) => p \in influx'
           /\ ~Answered201(p) => acked' = acked
  <1>1. Elements(Append(events, p)) = Elements(events) \cup {p}
    BY OfferedTypes, ElementsAppend
  <1>2. CASE Answered201(p)
    <2>1. /\ events' \in {events, Append(events, p)}
          /\ acked' = Append(acked, p) /\ UNCHANGED <<late, doubted>>
          /\ influx \subseteq influx' /\ (InfluxConfigured => p \in influx')
      BY <1>2 DEF Answered201, Accept, WritePoint
    <2>2. Elements(acked') = Elements(acked) \cup {p}
      <3>1. acked \in Seq(Frames)
        BY DEF TypeOK
      <3> QED
        BY <2>1, <3>1, ElementsAppend
    <2> QED
      BY <1>1, <1>2, <2>1, <2>2 DEF Offered
  <1>3. CASE ~Answered201(p) /\ AnsweredOther(p)
    <2>1. /\ UNCHANGED <<late, acked>>
          /\ \/ UNCHANGED <<events, influx, doubted>>
             \/ /\ doubted' = doubted \cup {p}
                /\ events' \in {events, Append(events, p)}
                /\ influx \subseteq influx'
      BY <1>3 DEF AnsweredOther, Refuse, Fail, WritePoint, stores
    <2> QED
      BY <1>1, <1>3, <2>1 DEF Offered
  <1>4. CASE ~Answered201(p) /\ Unreachable(p)
    BY <1>4 DEF Unreachable, stores, Offered
  <1>5. CASE ~Answered201(p) /\ Unanswered(p)
    <2>1. /\ late' = late \cup {[pkt |-> p, id |-> faults + 1]}
          /\ doubted' = doubted \cup {p}
          /\ UNCHANGED <<acked, events, influx>>
      BY <1>5 DEF Unanswered, stores
    <2> QED
      BY <1>5, <2>1 DEF Offered
  <1> QED
    BY <1>2, <1>3, <1>4, <1>5 DEF NotSent

(* An exchange of a packet that no offered one is above.                    *)
LEMMA ExchangeKeeps ==
    ASSUME TypeOK, OfferedInv, IrregularRowsAreDoubted, AckedIsStored,
           NEW p \in Unsettled, p \in Frames, p \notin Elements(acked),
           Answered201(p) \/ NotSent(p),
           \A e \in Offered : e <= p
    PROVE  /\ IrregularRowsAreDoubted' /\ AckedIsStored'
           /\ \A r \in late' : r.pkt \in doubted'
           /\ Offered' \subseteq Offered \cup {p}
           /\ \A e \in Offered' \cap (Unsettled \cup {p}) : e \in Elements(acked') \cup doubted'
  <1>1. /\ events' \in {events, Append(events, p)}
        /\ doubted \subseteq doubted'
        /\ \A r \in late' : r \in late \/ (r.pkt = p /\ p \in doubted')
        /\ Offered' \subseteq Offered \cup {p}
        /\ Elements(acked) \subseteq Elements(acked')
        /\ Offered' \subseteq Offered \/ p \in Elements(acked') \cup doubted'
    BY ExchangeEffect
  <1>2. AckedIsStored'
    BY ExchangeEffect DEF AckedIsStored
  <1>3. IrregularRowsAreDoubted'
    <2>1. p \in Nat /\ \A e \in Elements(events) : e \in Nat /\ e <= p
      BY OfferedTypes DEF Offered
    <2>2. p \in Elements(events) => p \in doubted
      BY DEF OfferedInv, Offered
    <2>3. p \in doubted' \/ \A e \in Elements(events) : e < p
      <3>1. CASE p \in Elements(events)
        BY <1>1, <2>2, <3>1
      <3>2. CASE p \notin Elements(events)
        <4>1. \A e \in Elements(events) : e # p
          BY <3>2
        <4> QED
          BY <2>1, <4>1
      <3> QED
        BY <3>1, <3>2
    <2> QED
      BY <1>1, <2>3, RowAppended
  <1>4. \A e \in Offered' \cap (Unsettled \cup {p}) : e \in Elements(acked') \cup doubted'
    BY <1>1 DEF OfferedInv
  <1>5. \A r \in late' : r.pkt \in doubted'
    BY <1>1 DEF OfferedInv
  <1> QED
    BY <1>1, <1>2, <1>3, <1>4, <1>5

(* A step that offers nothing and settles no packet by another way.         *)
LEMMA NothingOffered ==
    ASSUME TypeOK, OfferedInv, IrregularRowsAreDoubted, AckedIsStored,
           UNCHANGED <<events, influx, late, acked, doubted>>,
           next' \in Nat, next <= next',
           \A e \in Offered, p \in Waiting' : e <= p,
           \A e \in Offered \cap Unsettled' : e \in Unsettled
    PROVE  OfferedInv' /\ IrregularRowsAreDoubted' /\ AckedIsStored'
  <1>1. Offered' = Offered /\ Offered \subseteq Nat /\ next \in Nat
    BY OfferedTypes, PacketsAreNumbers DEF Offered
  <1>2. OfferedInv'
    BY <1>1 DEF OfferedInv
  <1>3. IrregularRowsAreDoubted' /\ AckedIsStored'
    BY DEF IrregularRowsAreDoubted, AckedIsStored
  <1> QED
    BY <1>2, <1>3

-----------------------------------------------------------------------------
(* The steps, as far as the stores are concerned.                           *)

LEMMA StoresStep ==
    ASSUME IndInv, OfferedInv, IrregularRowsAreDoubted, AckedIsStored, [Next]_vars
    PROVE  OfferedInv' /\ IrregularRowsAreDoubted' /\ AckedIsStored'
  <1> DEFINE B == Elements(packet_buffer)
  <1>a. /\ TypeOK /\ BufferInv /\ AckedInv /\ HandInv /\ FlightInv
        /\ packet_buffer \in Seq(Nat) /\ B \subseteq Nat /\ next \in Nat
        /\ Offered \subseteq Nat /\ Frames \subseteq Nat
    BY PacketsAreNumbers, OfferedTypes DEF IndInv
  <1>b. /\ sniffer \in [pc : SnifferPCs, pkt : Frames \cup {NoPacket}]
        /\ flusher \in [pc : FlusherPCs, pkt : Frames \cup {NoPacket}, left : Nat]
        /\ ~SnifferAt("sniffing") => sniffer.pkt \in Frames
        /\ flusher.pc \in {"posting", "popping"} => flusher.pkt \in Frames
    BY <1>a DEF TypeOK
  <1>c. /\ \A e \in Offered : e < next
        /\ \A e \in Offered, p \in Waiting : e <= p
    BY DEF OfferedInv
  (* The sniffer's packet is the last frame, and what waits is in the       *)
  (* buffer or on its way.                                                  *)
  <1>d. ASSUME SnifferAt("posting") \/ SnifferAt("buffering")
        PROVE  /\ InHand = {sniffer.pkt} /\ sniffer.pkt \in Frames /\ sniffer.pkt < next
               /\ sniffer.pkt \notin Elements(acked)
               /\ \A e \in Offered : e <= sniffer.pkt
    <2>1. InHand = {sniffer.pkt} /\ sniffer.pkt \in Frames
      BY <1>b, <1>d DEF InHand, SnifferAt
    <2>2. sniffer.pkt = next - 1 /\ \A q \in Elements(acked) : q < sniffer.pkt
      BY <1>a, <2>1 DEF HandInv
    <2>3. sniffer.pkt \in Nat
      BY <1>a, <2>1
    <2> QED
      BY <1>a, <1>c, <2>1, <2>2, <2>3
  <1>e. ASSUME FlusherAt("posting")
        PROVE  /\ InFlight = {flusher.pkt} /\ flusher.pkt \in Frames /\ flusher.pkt < next
               /\ flusher.pkt \notin Elements(acked)
               /\ \A p \in B : flusher.pkt <= p
               /\ \A e \in Offered : e <= flusher.pkt
    <2>1. InFlight = {flusher.pkt} /\ flusher.pkt \in Frames
      BY <1>b, <1>e DEF InFlight, FlusherAt
    <2>2. flusher.pkt \in B \cup evicted /\ flusher.pkt \notin Elements(acked)
          /\ (\A p \in B : flusher.pkt <= p)
      BY <1>a, <1>e DEF FlightInv, FlusherAt
    <2>3. flusher.pkt < next
      BY <1>a, <2>2 DEF BufferInv
    <2> QED
      BY <1>c, <2>1, <2>2, <2>3 DEF Waiting
  <1> HIDE DEF B
  <1>1. CASE IgnoreFrame
    <2>1. /\ next' = next + 1
          /\ UNCHANGED <<packet_buffer, sniffer, flusher, late, acked, doubted, events, influx>>
      BY <1>1 DEF IgnoreFrame, histories, stores
    <2>2. Waiting' = Waiting /\ Unsettled' = Unsettled
      BY <2>1 DEF Waiting, Unsettled, InFlight, InHand
    <2> QED
      BY <1>a, <1>c, <2>1, <2>2, NothingOffered
  <1>2. CASE CaptureFrame
    <2>1. /\ next' = next + 1 /\ sniffer'.pkt = next
          /\ UNCHANGED <<packet_buffer, flusher, late, acked, doubted, events, influx>>
      BY <1>2 DEF CaptureFrame, histories, stores
    <2>2. Waiting' = Waiting /\ Unsettled' \subseteq Waiting \cup {next}
      BY <2>1 DEF Waiting, Unsettled, InFlight, InHand
    <2>3. next \notin Offered
      BY <1>a, <1>c
    <2> QED
      BY <1>a, <1>c, <2>1, <2>2, <2>3, NothingOffered DEF Unsettled
  <1>3. CASE SentLive \/ NotSentLive
    <2> DEFINE p == sniffer.pkt
    <2>1. /\ SnifferAt("posting")
          /\ Answered201(p) \/ NotSent(p)
          /\ UNCHANGED <<next, packet_buffer, flusher>>
          /\ sniffer'.pkt = p
      BY <1>b, <1>3 DEF SentLive, NotSentLive, SnifferTo
    <2>2. Waiting = {} /\ Waiting' = {}
      BY <1>a, <2>1, ElementsEmpty
         DEF HandInv, LiveSendOvertakesNothing, Waiting, InFlight, SnifferAt
    <2>3. Unsettled = {p} /\ Unsettled' \subseteq {p}
      BY <1>d, <2>1, <2>2 DEF Unsettled, InHand
    <2>4. /\ IrregularRowsAreDoubted' /\ AckedIsStored'
          /\ \A r \in late' : r.pkt \in doubted'
          /\ Offered' \subseteq Offered \cup {p}
          /\ \A e \in Offered' \cap (Unsettled \cup {p}) :
                e \in Elements(acked') \cup doubted'
      BY <1>a, <1>d, <2>1, <2>3, ExchangeKeeps
    <2>5. OfferedInv'
      BY <1>c, <1>d, <2>1, <2>2, <2>3, <2>4 DEF OfferedInv
    <2> QED
      BY <2>4, <2>5
  <1>4. CASE SnifferEscape
    <2> DEFINE p == sniffer.pkt
    <2>1. /\ SnifferAt("posting") /\ NotSent(p)
          /\ packet_buffer' = <<>> /\ flusher'.pc = "dead" /\ sniffer'.pc = "exited"
          /\ next' = next
      BY <1>b, <1>4 DEF SnifferEscape, NotSent, SnifferTo
    <2>2. Waiting' = {} /\ Unsettled' = {}
      BY <2>1, ElementsEmpty DEF Waiting, Unsettled, InFlight, InHand
    <2>3. p \in Unsettled
      BY <1>d, <2>1 DEF Unsettled
    <2>4. /\ IrregularRowsAreDoubted' /\ AckedIsStored'
          /\ \A r \in late' : r.pkt \in doubted'
          /\ Offered' \subseteq Offered \cup {p}
      BY <1>a, <1>d, <2>1, <2>3, ExchangeKeeps
    <2>5. OfferedInv'
      BY <1>c, <1>d, <2>1, <2>2, <2>4 DEF OfferedInv
    <2> QED
      BY <2>4, <2>5
  <1>5. CASE BufferPacket
    <2> DEFINE p == sniffer.pkt
    <2>1. /\ SnifferAt("buffering") /\ sniffer'.pc = "announcing"
          /\ UNCHANGED <<next, flusher, late, acked, doubted, events, influx>>
          /\ packet_buffer' = Append(IF Len(packet_buffer) = MaxBuffer THEN Tail(packet_buffer)
                                      ELSE packet_buffer, p)
      BY <1>b, <1>5 DEF BufferPacket, SnifferTo, stores
    <2>2. Elements(packet_buffer') \subseteq B \cup {p}
      <3>1. p \in Nat
        BY <1>a, <1>d, <2>1
      <3>2. CASE Len(packet_buffer) = MaxBuffer
        <4>1. packet_buffer # <<>>
          BY <3>2, AgentAssumption, EmptySeq
        <4>2. Tail(packet_buffer) \in Seq(Nat) /\ Elements(Tail(packet_buffer)) \subseteq B
          BY <1>a, <4>1, HeadTailProperties, AscendingTail DEF BufferInv, B
        <4>3. packet_buffer' = Append(Tail(packet_buffer), p)
          BY <2>1, <3>2
        <4>4. Elements(Append(Tail(packet_buffer), p)) = Elements(Tail(packet_buffer)) \cup {p}
          <5> DEFINE rest == Tail(packet_buffer)
          <5>1. rest \in Seq(Nat) /\ p \in Nat
            BY <3>1, <4>2
          <5> HIDE DEF rest, p
          <5>2. Elements(Append(rest, p)) = Elements(rest) \cup {p}
            BY <5>1, ElementsAppend
          <5> QED
            BY <5>2 DEF rest
        <4> QED
          BY <4>2, <4>3, <4>4
      <3>3. CASE Len(packet_buffer) # MaxBuffer
        BY <1>a, <2>1, <3>1, <3>3, ElementsAppend DEF B
      <3> QED
        BY <3>2, <3>3
    <2>3. Waiting' \subseteq Waiting \cup {p} /\ Unsettled' \subseteq Unsettled
      BY <1>d, <2>1, <2>2 DEF Waiting, Unsettled, InFlight, InHand, B
    <2> QED
      BY <1>a, <1>c, <1>d, <2>1, <2>3, NothingOffered
  <1>6. CASE Announce
    <2>1. UNCHANGED <<next, packet_buffer, flusher, late, acked, doubted, events, influx>>
          /\ sniffer'.pc = "sniffing"
      BY <1>6 DEF Announce, stores
    <2>2. Waiting' = Waiting /\ Unsettled' \subseteq Unsettled
      BY <2>1 DEF Waiting, Unsettled, InFlight, InHand
    <2> QED
      BY <1>a, <1>c, <2>1, <2>2, NothingOffered
  <1>7. CASE Restart \/ StartPass \/ EndPass \/ PopHead
    <2>1. /\ UNCHANGED <<next, late, acked, doubted, events, influx>>
          /\ flusher'.pc # "posting"
          /\ sniffer' = sniffer \/ sniffer'.pc = "sniffing"
          /\ packet_buffer' = packet_buffer \/ (packet_buffer # <<>>
                                                /\ packet_buffer' = Tail(packet_buffer))
      <3>1. CASE Restart
        BY <3>1 DEF Restart, histories, stores
      <3>2. CASE StartPass \/ EndPass
        BY <1>b, <3>2 DEF StartPass, EndPass, FlusherTo, histories, stores
      <3>3. CASE PopHead
        BY <1>b, <3>3 DEF PopHead, FlusherTo, histories, stores
      <3> QED
        BY <1>7, <3>1, <3>2, <3>3
    <2>2. Elements(packet_buffer') \subseteq B
      BY <1>a, <2>1, AscendingTail DEF BufferInv, B
    <2>3. Waiting' \subseteq Waiting /\ Unsettled' \subseteq Unsettled
      BY <2>1, <2>2 DEF Waiting, Unsettled, InFlight, InHand, B
    <2> QED
      BY <1>a, <1>c, <2>1, <2>3, NothingOffered
  <1>8. CASE PeekHead
    <2>1. /\ UNCHANGED <<next, packet_buffer, sniffer, late, acked, doubted, events, influx>>
          /\ packet_buffer # <<>> /\ flusher'.pkt = Head(packet_buffer)
      BY <1>8 DEF PeekHead, histories, stores
    <2>2. Head(packet_buffer) \in B
      BY <1>a, <2>1, AscendingTail DEF BufferInv, B
    <2>3. Waiting' \subseteq Waiting /\ Unsettled' \subseteq Unsettled
      BY <2>1, <2>2 DEF Waiting, Unsettled, InFlight, InHand, B
    <2> QED
      BY <1>a, <1>c, <2>1, <2>3, NothingOffered
  <1>9. CASE Flushed \/ NotFlushed \/ FlusherEscape
    <2> DEFINE p == flusher.pkt
    <2>1. /\ FlusherAt("posting")
          /\ Answered201(p) \/ NotSent(p)
          /\ UNCHANGED <<next, packet_buffer, sniffer>>
          /\ flusher'.pc # "posting"
      BY <1>b, <1>9 DEF Flushed, NotFlushed, FlusherEscape, FlusherTo, NotSent
    <2>2. p \in Unsettled /\ Waiting' = B /\ Waiting' \subseteq Waiting
          /\ Unsettled' \subseteq Unsettled
      BY <1>e, <2>1 DEF Waiting, Unsettled, InFlight, InHand, B
    <2>3. /\ IrregularRowsAreDoubted' /\ AckedIsStored'
          /\ \A r \in late' : r.pkt \in doubted'
          /\ Offered' \subseteq Offered \cup {p}
          /\ \A e \in Offered' \cap (Unsettled \cup {p}) :
                e \in Elements(acked') \cup doubted'
      BY <1>a, <1>e, <2>1, <2>2, ExchangeKeeps
    <2>4. OfferedInv'
      BY <1>c, <1>e, <2>1, <2>2, <2>3 DEF OfferedInv
    <2> QED
      BY <2>3, <2>4
  <1>10. CASE HandleLate
    <2>1. PICK r \in late : /\ Handle(r.pkt) /\ late' = late \ {r}
                            /\ UNCHANGED <<agentVars, faults, histories>>
      BY <1>10 DEF HandleLate
    <2>2. UNCHANGED <<next, packet_buffer, sniffer, flusher, acked, doubted>>
      BY <2>1 DEF agentVars, histories
    <2>3. /\ r.pkt \in Frames /\ r.pkt \in doubted
          /\ events' \in {events, Append(events, r.pkt)}
          /\ influx \subseteq influx'
      BY <1>a, <2>1, OfferedTypes
         DEF OfferedInv, Handle, Accept, Refuse, Fail, WritePoint, stores
    <2>4. IrregularRowsAreDoubted' /\ AckedIsStored'
      <3>1. AckedIsStored'
        BY <2>2, <2>3 DEF AckedIsStored
      <3> QED
        BY <1>a, <2>2, <2>3, <3>1, RowAppended
    <2>5. Offered' \subseteq Offered
      <3>1. Elements(Append(events, r.pkt)) = Elements(events) \cup {r.pkt}
        BY <1>a, <2>3, OfferedTypes, ElementsAppend
      <3> QED
        BY <2>1, <2>3, <3>1 DEF Offered
    <2>6. Waiting' = Waiting /\ Unsettled' = Unsettled
      BY <2>2 DEF Waiting, Unsettled, InFlight, InHand
    <2>7. OfferedInv'
      BY <2>1, <2>2, <2>5, <2>6 DEF OfferedInv
    <2> QED
      BY <2>4, <2>7
  <1>11. CASE UNCHANGED vars
    <2>1. UNCHANGED <<next, packet_buffer, sniffer, flusher, late, acked, doubted, events, influx>>
      BY <1>11 DEF vars, agentVars, histories, stores
    <2>2. Waiting' = Waiting /\ Unsettled' = Unsettled
      BY <2>1 DEF Waiting, Unsettled, InFlight, InHand
    <2> QED
      BY <1>a, <1>c, <2>1, <2>2, NothingOffered
  <1> QED
    BY <1>1, <1>2, <1>3, <1>4, <1>5, <1>6, <1>7, <1>8, <1>9, <1>10, <1>11
       DEF Next, SnifferStep, FlusherStep

-----------------------------------------------------------------------------
(* The steps, as far as the live channel is concerned.                      *)

LEMMA AnnouncedStep ==
    ASSUME IndInv, AnnouncedInv, [Next]_vars
    PROVE  AnnouncedInv'
  <1> DEFINE unfinished == IF SnifferAt("sniffing") THEN {} ELSE {sniffer.pkt}
             N == Elements(announced)
  <1>a. /\ TypeOK /\ next \in Nat /\ announced \in Seq(Frames) /\ announced \in Seq(Nat)
        /\ N \subseteq Nat /\ Ascending(announced)
        /\ sniffer \in [pc : SnifferPCs, pkt : Frames \cup {NoPacket}]
        /\ ~SnifferAt("sniffing") => sniffer.pkt \in Nat
    <2>1. TypeOK /\ next \in Nat /\ Frames \subseteq Nat
          /\ (~SnifferAt("sniffing") => sniffer.pkt \in Nat)
      BY PacketsAreNumbers DEF IndInv
    <2>2. announced \in Seq(Frames) /\ sniffer \in [pc : SnifferPCs, pkt : Frames \cup {NoPacket}]
      BY <2>1 DEF TypeOK
    <2>3. announced \in Seq(Nat)
      <3> HIDE DEF Frames
      <3> QED
        BY <2>1, <2>2, SeqMonotonic
    <2>4. N \subseteq Nat
      BY <2>3, ElementsIn
    <2> QED
      BY <2>1, <2>2, <2>3, <2>4 DEF AnnouncedInv, AnnouncedRegardless
  <1>b. Captured \ unfinished \subseteq N \cup lost
    BY DEF AnnouncedInv, AnnouncedRegardless
  <1>1. ASSUME UNCHANGED <<next, sniffer, announced, lost>>
        PROVE  AnnouncedInv'
    BY <1>1 DEF AnnouncedInv, AnnouncedRegardless, Captured, SnifferAt
  <1>2. CASE IgnoreFrame
    <2>1. /\ next' = next + 1 /\ next \in NonIP /\ UNCHANGED <<sniffer, announced, lost>>
          /\ SnifferAt("sniffing")
      BY <1>2 DEF IgnoreFrame, histories
    <2>2. Captured' \subseteq Captured
      BY <1>a, <2>1 DEF Captured
    <2> QED
      BY <1>a, <1>b, <2>1, <2>2 DEF AnnouncedInv, AnnouncedRegardless, SnifferAt
  <1>3. CASE CaptureFrame
    <2>1. /\ next' = next + 1 /\ UNCHANGED <<announced, lost>> /\ SnifferAt("sniffing")
          /\ sniffer'.pkt = next /\ sniffer'.pc \in {"posting", "buffering"}
      BY <1>3 DEF CaptureFrame, histories
    <2>2. Captured' \subseteq Captured \cup {next}
      BY <1>a, <2>1 DEF Captured
    <2>3. AnnouncedRegardless'
      BY <1>a, <1>b, <2>1, <2>2 DEF AnnouncedRegardless, SnifferAt
    <2> QED
      BY <1>a, <2>1, <2>3 DEF AnnouncedInv, SnifferAt
  <1>4. CASE SentLive \/ NotSentLive \/ BufferPacket
    <2>1. /\ UNCHANGED <<next, announced, lost>> /\ sniffer'.pkt = sniffer.pkt
          /\ sniffer.pc \in {"posting", "buffering"}
          /\ sniffer'.pc \in {"buffering", "announcing"}
      BY <1>a, <1>4 DEF SentLive, NotSentLive, BufferPacket, SnifferTo, SnifferAt
    <2>2. Captured' = Captured
      BY <2>1 DEF Captured
    <2> QED
      BY <2>1, <2>2 DEF AnnouncedInv, AnnouncedRegardless, SnifferAt
  <1>5. CASE Announce
    <2>1. /\ UNCHANGED <<next, lost>> /\ sniffer'.pc = "sniffing" /\ SnifferAt("announcing")
          /\ announced' = Append(announced, sniffer.pkt)
      BY <1>5 DEF Announce
    <2>2. sniffer.pkt \in Nat /\ sniffer.pkt < next /\ \A e \in N : e < sniffer.pkt
      BY <1>a, <2>1 DEF AnnouncedInv, SnifferAt
    <2>3. Elements(announced') = N \cup {sniffer.pkt} /\ Ascending(announced')
      BY <1>a, <2>1, <2>2, AppendAbove
    <2>4. Captured' = Captured
      BY <2>1 DEF Captured
    <2> QED
      BY <1>b, <2>1, <2>2, <2>3, <2>4 DEF AnnouncedInv, AnnouncedRegardless, SnifferAt
  <1>6. CASE SnifferEscape
    <2>1. /\ UNCHANGED <<next, announced>> /\ sniffer'.pkt = sniffer.pkt
          /\ sniffer.pc = "posting" /\ sniffer'.pc = "exited"
          /\ lost \subseteq lost' /\ sniffer.pkt \in lost'
      BY <1>a, <1>6 DEF SnifferEscape, SnifferTo, SnifferAt
    <2>2. Captured' = Captured
      BY <2>1 DEF Captured
    <2> QED
      BY <1>b, <2>1, <2>2 DEF AnnouncedInv, AnnouncedRegardless, SnifferAt
  <1>7. CASE Restart
    <2>1. /\ UNCHANGED <<next, announced, lost>> /\ sniffer.pc = "exited"
          /\ sniffer'.pc = "sniffing"
      BY <1>7 DEF Restart, histories, SnifferAt
    <2>2. Captured' = Captured /\ sniffer.pkt \in lost
      BY <2>1 DEF Captured, AnnouncedInv, SnifferAt
    <2> QED
      BY <1>b, <2>1, <2>2 DEF AnnouncedInv, AnnouncedRegardless, SnifferAt
  <1>8. CASE FlusherStep \/ FlusherEscape \/ HandleLate \/ UNCHANGED vars
    <2>1. UNCHANGED <<next, sniffer, announced, lost>>
      BY <1>8 DEF FlusherStep, StartPass, PeekHead, EndPass, Flushed, PopHead, NotFlushed,
                  FlusherEscape, HandleLate, vars, agentVars, histories
    <2> QED
      BY <1>1, <2>1
  <1> QED
    BY <1>2, <1>3, <1>4, <1>5, <1>6, <1>7, <1>8 DEF Next, SnifferStep

-----------------------------------------------------------------------------
(* The theorems.                                                            *)

LEMMA StoresInit == Init => StoresInv
  <1> SUFFICES ASSUME Init PROVE StoresInv
    OBVIOUS
  <1>1. /\ events = <<>> /\ late = {} /\ acked = <<>> /\ announced = <<>> /\ lost = {}
        /\ next = 1 /\ sniffer.pc = "sniffing" /\ influx = {}
    BY DEF Init, IngestInit
  <1>2. Elements(events) = {} /\ Elements(acked) = {} /\ Elements(announced) = {}
        /\ Ascending(announced) /\ DOMAIN events = {}
    BY <1>1, ElementsEmpty
  <1>3. OfferedInv /\ IrregularRowsAreDoubted /\ AckedIsStored
    BY <1>1, <1>2 DEF OfferedInv, Offered, IrregularRowsAreDoubted, AckedIsStored
  <1>4. AnnouncedInv
    <2>1. Captured = {}
      BY <1>1 DEF Captured
    <2> QED
      BY <1>1, <1>2, <2>1 DEF AnnouncedInv, AnnouncedRegardless, SnifferAt
  <1> QED
    BY <1>3, <1>4, IndInit DEF StoresInv

(* In every state the offered packets are known to the order of the agent.  *)
THEOREM StoresInvariant == Spec => []StoresInv
  <1>1. StoresInv /\ [Next]_vars => StoresInv'
    BY IndStep, StoresStep, AnnouncedStep DEF StoresInv
  <1> QED
    BY <1>1, StoresInit, PTL DEF Spec

(* A second row of a packet, or a row out of capture order, is of a packet  *)
(* the agent once posted without learning the outcome (metrics.py has no    *)
(* key for a packet, scapy_agent.py posts again what was not answered 201). *)
THEOREM RowsAreRegular == Spec => []IrregularRowsAreDoubted
  <1>1. StoresInv => IrregularRowsAreDoubted
    BY DEF StoresInv
  <1> QED
    BY <1>1, StoresInvariant, PTL

(* What the agent forgets because it was answered 201 is in InfluxDB, when  *)
(* InfluxDB is configured (metrics.py writes it first).                     *)
THEOREM AckedReachesInflux == Spec => []AckedIsStored
  <1>1. StoresInv => AckedIsStored
    BY DEF StoresInv
  <1> QED
    BY <1>1, StoresInvariant, PTL

(* The live channel gets every packet whose handling is over, in capture    *)
(* order, whatever became of its POST (scapy_agent.py: handle_packet).      *)
THEOREM LiveChannelIsComplete == Spec => []AnnouncedRegardless
  <1>1. StoresInv => AnnouncedRegardless
    BY DEF StoresInv, AnnouncedInv
  <1> QED
    BY <1>1, StoresInvariant, PTL
=============================================================================
