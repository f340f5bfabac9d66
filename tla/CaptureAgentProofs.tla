------------------------- MODULE CaptureAgentProofs -------------------------
(***************************************************************************)
(* Proofs about CaptureAgent for every number of frames, buffer capacity,  *)
(* number of failed exchanges, set of refused packets and API set-up: its  *)
(* inductive invariant, the safety properties it implies, and that the     *)
(* agent implements OrderedDelivery.                                       *)
(***************************************************************************)
EXTENDS CaptureAgent, SequenceTheorems, TLAPS

-----------------------------------------------------------------------------
(* Sequences of packets as sets.                                            *)

(* What appending to a sequence adds to its elements.                       *)
LEMMA ElementsAppend ==
    ASSUME NEW S, NEW s \in Seq(S), NEW e \in S
    PROVE  Elements(Append(s, e)) = Elements(s) \cup {e}
  <1> DEFINE t == Append(s, e)
  <1>1. /\ DOMAIN s = 1 .. Len(s)
        /\ DOMAIN t = 1 .. Len(s) + 1
        /\ Len(s) \in Nat
        /\ \A i \in 1 .. Len(s) : t[i] = s[i]
        /\ t[Len(s) + 1] = e
    BY AppendProperties, LenProperties
  <1> HIDE DEF t
  <1>2. ASSUME NEW q \in Elements(t) PROVE q \in Elements(s) \cup {e}
    <2>1. PICK i \in 1 .. Len(s) + 1 : q = t[i]
      BY <1>1 DEF Elements
    <2>2. CASE i = Len(s) + 1
      BY <1>1, <2>1, <2>2
    <2>3. CASE i \in 1 .. Len(s)
      BY <1>1, <2>1, <2>3 DEF Elements
    <2> QED
      BY <1>1, <2>2, <2>3
  <1>3. e \in Elements(t)
    BY <1>1 DEF Elements
  <1>4. ASSUME NEW i \in 1 .. Len(s) PROVE s[i] \in Elements(t)
    <2>1. i \in DOMAIN t /\ t[i] = s[i]
      BY <1>1
    <2> QED
      BY <2>1 DEF Elements
  <1> QED
    BY <1>1, <1>2, <1>3, <1>4 DEF Elements, t

(* A packet above every element can be appended to an ascending sequence.   *)
LEMMA AscendingAppend ==
    ASSUME NEW s \in Seq(Nat), NEW e \in Nat, Ascending(s),
           \A q \in Elements(s) : q < e
    PROVE  Ascending(Append(s, e))
  <1> DEFINE t == Append(s, e)
  <1>1. /\ DOMAIN s = 1 .. Len(s)
        /\ DOMAIN t = 1 .. Len(s) + 1
        /\ Len(s) \in Nat
        /\ \A i \in 1 .. Len(s) : t[i] = s[i]
        /\ t[Len(s) + 1] = e
    BY AppendProperties, LenProperties
  <1>2. \A i \in 1 .. Len(s) : s[i] < e
    BY <1>1 DEF Elements
  <1> HIDE DEF t
  <1>3. Ascending(t)
    BY <1>1, <1>2 DEF Ascending
  <1> QED
    BY <1>3 DEF t

(* Both at once, for the sequences of the agent.                            *)
LEMMA AppendAbove ==
    ASSUME NEW s \in Seq(Nat), NEW e \in Nat, Ascending(s),
           \A q \in Elements(s) : q < e
    PROVE  /\ Ascending(Append(s, e))
           /\ Elements(Append(s, e)) = Elements(s) \cup {e}
           /\ Append(s, e) # <<>>
  <1>1. Elements(Append(s, e)) = Elements(s) \cup {e}
    BY ElementsAppend
  <1>2. Append(s, e) # <<>>
    BY AppendProperties
  <1> QED
    BY <1>1, <1>2, AscendingAppend

(* The head of an ascending sequence is below the rest of it.               *)
LEMMA AscendingTail ==
    ASSUME NEW s \in Seq(Nat), s # <<>>, Ascending(s)
    PROVE  /\ Ascending(Tail(s))
           /\ Head(s) \in Elements(s)
           /\ Elements(Tail(s)) = Elements(s) \ {Head(s)}
           /\ \A q \in Elements(Tail(s)) : Head(s) < q
  <1>1. /\ Tail(s) \in Seq(Nat)
        /\ Len(Tail(s)) = Len(s) - 1
        /\ \A i \in 1 .. Len(Tail(s)) : Tail(s)[i] = s[i + 1]
        /\ Head(s) = s[1]
        /\ Len(s) \in Nat \ {0}
    BY HeadTailProperties, EmptySeq
  <1>2. /\ DOMAIN s = 1 .. Len(s)
        /\ DOMAIN Tail(s) = 1 .. Len(Tail(s))
    BY <1>1, LenProperties
  <1>3. Ascending(Tail(s))
    BY <1>1, <1>2 DEF Ascending
  <1>4. Head(s) \in Elements(s)
    BY <1>1, <1>2 DEF Elements
  <1>5. \A q \in Elements(Tail(s)) : Head(s) < q
    BY <1>1, <1>2 DEF Elements, Ascending
  <1>6. Elements(Tail(s)) \subseteq Elements(s)
    BY <1>1, <1>2 DEF Elements
  <1>7. ASSUME NEW q \in Elements(s), q # Head(s)
        PROVE  q \in Elements(Tail(s))
    <2>1. PICK i \in DOMAIN s : q = s[i]
      BY DEF Elements
    <2>2. /\ i - 1 \in DOMAIN Tail(s)
          /\ Tail(s)[i - 1] = q
      BY <1>1, <1>2, <1>7, <2>1
    <2> QED
      BY <2>2 DEF Elements
  <1>8. Head(s) \notin Elements(Tail(s))
    <2>1. Head(s) \in Nat
      BY <1>1, HeadTailProperties
    <2> QED
      BY <2>1, <1>5
  <1> QED
    BY <1>3, <1>4, <1>5, <1>6, <1>7, <1>8

(* The elements of a sequence over a set lie in it.                         *)
LEMMA ElementsIn ==
    ASSUME NEW S, NEW s \in Seq(S)
    PROVE  Elements(s) \subseteq S
  BY DEF Elements

(* The empty sequence has no elements and is ascending.                    *)
LEMMA ElementsEmpty == Elements(<<>>) = {} /\ Ascending(<<>>)
  BY DEF Elements, Ascending
-----------------------------------------------------------------------------
(* Type correctness.                                                        *)

(* The API's handling of a request keeps its stores well typed.             *)
LEMMA HandleTypes ==
    ASSUME IngestTypeOK, NEW p \in Frames, Handle(p)
    PROVE  IngestTypeOK'
  <1>1. Append(events, p) \in Seq(Frames)
    BY AppendProperties DEF IngestTypeOK
  <1>2. events' \in {events, Append(events, p)}
    BY DEF Handle, Accept, Refuse, Fail, stores
  <1>3. influx' \subseteq influx \cup {p}
    BY DEF Handle, Accept, Refuse, Fail, WritePoint, stores
  <1>4. packets_captured_total' \in {packets_captured_total, packets_captured_total + 1}
    BY DEF Handle, Accept, Refuse, Fail, stores
  <1> QED
    BY <1>1, <1>2, <1>3, <1>4 DEF IngestTypeOK

(* What an exchange for a packet leaves behind is well typed.               *)
LEMMA ExchangeTypes ==
    ASSUME TypeOK, NEW p \in Frames,
           Answered201(p) \/ NotSent(p) \/ Unanswered(p)
    PROVE  /\ IngestTypeOK'
           /\ faults' \in 0 .. MaxFaults
           /\ late' \subseteq [pkt : Frames, id : 1 .. MaxFaults]
           /\ acked' \in Seq(Frames)
           /\ doubted' \subseteq Frames
  <1>1. Handle(p) => IngestTypeOK'
    BY HandleTypes DEF TypeOK
  <1>2. Append(acked, p) \in Seq(Frames)
    BY AppendProperties DEF TypeOK
  <1> USE AgentAssumption DEF TypeOK
  <1>4. UNCHANGED stores => IngestTypeOK'
    BY DEF stores, IngestTypeOK
  <1>5. Fault => faults' \in 1 .. MaxFaults /\ faults' = faults + 1
    BY DEF Fault
  <1>6. CASE Answered201(p)
    BY <1>1, <1>2, <1>6 DEF Answered201, Handle
  <1>7. CASE AnsweredOther(p)
    BY <1>1, <1>5, <1>7 DEF AnsweredOther, Handle
  <1>8. CASE Unreachable(p)
    BY <1>4, <1>5, <1>8 DEF Unreachable
  <1>9. CASE Unanswered(p)
    BY <1>4, <1>5, <1>9 DEF Unanswered
  <1> QED
    BY <1>6, <1>7, <1>8, <1>9 DEF NotSent

(* The agent starts with well-typed state: an empty deque, idle threads.   *)
LEMMA TypeInit == Init => TypeOK
  BY AgentAssumption, IngestAssumption
     DEF Init, TypeOK, IngestInit, IngestTypeOK, SnifferPCs, FlusherPCs, SnifferAt, NoPacket

(* No step of sniffer, flusher or API leaves the types; the deque stays bounded. *)
LEMMA TypeStep == TypeOK /\ [Next]_vars => TypeOK'
  <1> SUFFICES ASSUME TypeOK, [Next]_vars PROVE TypeOK'
    OBVIOUS
  <1> USE AgentAssumption, IngestAssumption DEF TypeOK, SnifferPCs, FlusherPCs, SnifferAt, FlusherAt
  <1> USE DEF agentVars, histories, stores, IngestTypeOK
  <1>1. CASE IgnoreFrame
    BY <1>1 DEF IgnoreFrame, Frames
  <1>2. CASE CaptureFrame
    BY <1>2 DEF CaptureFrame, Frames
  <1>3. CASE SentLive
    BY <1>3, ExchangeTypes DEF SentLive, SnifferTo
  <1>4. CASE NotSentLive
    BY <1>4, ExchangeTypes DEF NotSentLive, SnifferTo
  <1>5. CASE BufferPacket
    <2>1. /\ packet_buffer' \in Seq(Frames)
          /\ Len(packet_buffer') <= MaxBuffer
          /\ evicted' \subseteq Frames
      <3>1. sniffer.pkt \in Frames
        BY <1>5 DEF BufferPacket
      <3>2. CASE Len(packet_buffer) = MaxBuffer
        <4>1. packet_buffer # <<>>
          BY <3>2, EmptySeq
        <4>2. /\ Head(packet_buffer) \in Frames
              /\ Tail(packet_buffer) \in Seq(Frames)
              /\ Len(Tail(packet_buffer)) = Len(packet_buffer) - 1
          BY <4>1, HeadTailProperties
        <4>3. /\ Append(Tail(packet_buffer), sniffer.pkt) \in Seq(Frames)
              /\ Len(Append(Tail(packet_buffer), sniffer.pkt)) = Len(packet_buffer) - 1 + 1
          BY <3>1, <4>2, AppendProperties
        <4>4. Len(packet_buffer) \in Nat
          BY LenProperties
        <4>5. /\ packet_buffer' = Append(Tail(packet_buffer), sniffer.pkt)
              /\ evicted' = evicted \cup {Head(packet_buffer)}
          BY <1>5, <3>2 DEF BufferPacket
        <4> QED
          BY <4>2, <4>3, <4>4, <4>5
      <3>3. CASE Len(packet_buffer) # MaxBuffer
        <4>1. Len(packet_buffer) < MaxBuffer /\ Len(packet_buffer) \in Nat
          BY <3>3, LenProperties
        <4>2. /\ Append(packet_buffer, sniffer.pkt) \in Seq(Frames)
              /\ Len(Append(packet_buffer, sniffer.pkt)) = Len(packet_buffer) + 1
          BY <3>1, AppendProperties
        <4>3. /\ packet_buffer' = Append(packet_buffer, sniffer.pkt)
              /\ evicted' = evicted
          BY <1>5, <3>3 DEF BufferPacket
        <4> QED
          BY <4>1, <4>2, <4>3
      <3> QED
        BY <3>2, <3>3
    <2> QED
      BY <1>5, <2>1 DEF BufferPacket, SnifferTo
  <1>6. CASE Announce
    <2>1. Append(announced, sniffer.pkt) \in Seq(Frames)
      BY <1>6, AppendProperties DEF Announce
    <2> QED
      BY <1>6, <2>1 DEF Announce
  <1>7. CASE SnifferEscape
    <2>1. lost' \subseteq Frames
      BY <1>7, ElementsIn DEF SnifferEscape
    <2>2. packet_buffer' \in Seq(Frames) /\ Len(packet_buffer') = 0
      BY <1>7, EmptySeq DEF SnifferEscape
    <2>3. sniffer.pkt \in Frames /\ Unanswered(sniffer.pkt)
      BY <1>7 DEF SnifferEscape
    <2>4. /\ IngestTypeOK'
          /\ faults' \in 0 .. MaxFaults
          /\ late' \subseteq [pkt : Frames, id : 1 .. MaxFaults]
          /\ acked' \in Seq(Frames)
          /\ doubted' \subseteq Frames
      BY <2>3, ExchangeTypes
    <2>5. /\ sniffer' = [sniffer EXCEPT !.pc = "exited"]
          /\ flusher' = [flusher EXCEPT !.pc = "dead"]
          /\ UNCHANGED <<next, evicted, announced>>
      BY <1>7 DEF SnifferEscape, SnifferTo
    <2>6. /\ sniffer' \in [pc : SnifferPCs, pkt : Frames \cup {NoPacket}]
          /\ sniffer'.pkt \in Frames
      BY <2>3, <2>5
    <2>7. /\ flusher' \in [pc : FlusherPCs, pkt : Frames \cup {NoPacket}, left : Nat]
          /\ flusher'.pc = "dead"
      BY <2>5
    <2>8. Len(packet_buffer') <= MaxBuffer
      BY <2>2
    <2> QED
      BY <2>1, <2>2, <2>4, <2>5, <2>6, <2>7, <2>8
  <1>8. CASE Restart
    BY <1>8 DEF Restart
  <1>9. CASE StartPass
    BY <1>9, LenProperties DEF StartPass
  <1>10. CASE PeekHead
    <2>1. Head(packet_buffer) \in Frames
      BY <1>10, HeadTailProperties DEF PeekHead
    <2> QED
      BY <1>10, <2>1 DEF PeekHead
  <1>11. CASE EndPass
    BY <1>11 DEF EndPass, FlusherTo
  <1>12. CASE Flushed
    BY <1>12, ExchangeTypes DEF Flushed, FlusherTo
  <1>13. CASE PopHead
    <2>1. packet_buffer' \in Seq(Frames) /\ Len(packet_buffer') <= MaxBuffer
      BY <1>13, HeadTailProperties DEF PopHead
    <2> QED
      BY <1>13, <2>1 DEF PopHead, FlusherTo
  <1>14. CASE NotFlushed
    BY <1>14, ExchangeTypes DEF NotFlushed, FlusherTo
  <1>15. CASE FlusherEscape
    BY <1>15, ExchangeTypes DEF FlusherEscape, FlusherTo
  <1>16. CASE HandleLate
    <2>1. PICK r \in late : Handle(r.pkt) /\ late' = late \ {r}
                            /\ UNCHANGED <<agentVars, faults, histories>>
      BY <1>16 DEF HandleLate
    <2>2. IngestTypeOK'
      BY <2>1, HandleTypes
    <2> QED
      BY <2>1, <2>2
  <1>17. CASE UNCHANGED vars
    BY <1>17 DEF vars
  <1> QED
    BY <1>1, <1>2, <1>3, <1>4, <1>5, <1>6, <1>7, <1>8, <1>9, <1>10, <1>11, <1>12,
       <1>13, <1>14, <1>15, <1>16, <1>17 DEF Next, SnifferStep, FlusherStep

(* The type invariant of CaptureAgent, with the capacity of the deque.      *)
THEOREM TypeCorrect == Spec => []TypeOK
  BY TypeInit, TypeStep, PTL DEF Spec
-----------------------------------------------------------------------------
(* The inductive invariant.                                                 *)

(* The ordering invariant holds of the empty agent.                        *)
LEMMA IndInit == Init => IndInv
  <1> SUFFICES ASSUME Init PROVE IndInv
    OBVIOUS
  <1>1. TypeOK
    BY TypeInit
  <1>2. /\ Elements(packet_buffer) = {} /\ Ascending(packet_buffer)
        /\ Elements(acked) = {} /\ Ascending(acked)
        /\ evicted = {} /\ lost = {} /\ next = 1
        /\ sniffer.pc = "sniffing" /\ flusher.pc = "sleeping"
    BY ElementsEmpty DEF Init
  <1>3. Captured = {}
    BY <1>2 DEF Captured
  <1>4. InHand = {}
    BY <1>2 DEF InHand
  <1> QED
    BY <1>1, <1>2, <1>3, <1>4
       DEF IndInv, BufferInv, AckedInv, HandInv, FlightInv, Conservation,
           LiveSendOvertakesNothing, SnifferAt, FlusherAt

(* What the type invariant says of the sets the invariant compares.         *)
LEMMA PacketsAreNumbers ==
    ASSUME TypeOK
    PROVE  /\ Elements(packet_buffer) \subseteq Nat
           /\ Elements(acked) \subseteq Nat
           /\ packet_buffer \in Seq(Nat)
           /\ acked \in Seq(Nat)
           /\ evicted \cup lost \subseteq Nat
           /\ Frames \subseteq Nat
           /\ next \in Nat \ {0}
           /\ ~SnifferAt("sniffing") => sniffer.pkt \in Nat
           /\ flusher.pc \in {"posting", "popping"} => flusher.pkt \in Nat
  <1>1. Frames \subseteq Nat
    BY IngestAssumption DEF Frames
  <1>2. packet_buffer \in Seq(Nat) /\ acked \in Seq(Nat)
    <2>1. packet_buffer \in Seq(Frames) /\ acked \in Seq(Frames)
      BY DEF TypeOK
    <2> HIDE DEF Frames
    <2> QED
      BY <1>1, <2>1, SeqMonotonic
  <1>3. Elements(packet_buffer) \subseteq Nat /\ Elements(acked) \subseteq Nat
    BY <1>2, ElementsIn
  <1>4. evicted \subseteq Nat /\ lost \subseteq Nat
    BY <1>1 DEF TypeOK
  <1>5. next \in Nat \ {0}
    BY IngestAssumption DEF TypeOK
  <1>6. /\ ~SnifferAt("sniffing") => sniffer.pkt \in Nat
        /\ flusher.pc \in {"posting", "popping"} => flusher.pkt \in Nat
    BY <1>1 DEF TypeOK
  <1> QED
    BY <1>1, <1>2, <1>3, <1>4, <1>5, <1>6

(* Every critical section, exchange and publish keeps the ordering invariant. *)
LEMMA IndStep == IndInv /\ [Next]_vars => IndInv'
  <1> SUFFICES ASSUME IndInv, [Next]_vars PROVE IndInv'
    OBVIOUS
  <1> DEFINE B == Elements(packet_buffer)
             A == Elements(acked)
  <1>a. TypeOK /\ TypeOK'
    BY TypeStep DEF IndInv
  <1>b. /\ B \subseteq Nat /\ A \subseteq Nat /\ evicted \cup lost \subseteq Nat
        /\ packet_buffer \in Seq(Nat) /\ acked \in Seq(Nat)
        /\ next \in Nat \ {0}
        /\ ~SnifferAt("sniffing") => sniffer.pkt \in Nat
        /\ flusher.pc \in {"posting", "popping"} => flusher.pkt \in Nat
    BY <1>a, PacketsAreNumbers
  <1>c. BufferInv /\ AckedInv /\ HandInv /\ FlightInv /\ Conservation
    BY DEF IndInv
  <1>d. /\ sniffer \in [pc : SnifferPCs, pkt : Frames \cup {NoPacket}]
        /\ flusher \in [pc : FlusherPCs, pkt : Frames \cup {NoPacket}, left : Nat]
    BY <1>a DEF TypeOK
  <1> SUFFICES BufferInv' /\ AckedInv' /\ HandInv' /\ FlightInv' /\ Conservation'
    BY <1>a DEF IndInv
  <1> HIDE DEF A, B
  <1>0. ASSUME UNCHANGED <<agentVars, histories>>
        PROVE  BufferInv' /\ AckedInv' /\ HandInv' /\ FlightInv' /\ Conservation'
    BY <1>c, <1>0
       DEF agentVars, histories, BufferInv, AckedInv, HandInv, FlightInv, Conservation, InHand,
           Captured, LiveSendOvertakesNothing, SnifferAt, FlusherAt
  <1>1. CASE IgnoreFrame
    <2>1. /\ next' = next + 1 /\ next \in NonIP
          /\ UNCHANGED <<packet_buffer, sniffer, flusher, acked, evicted, lost>>
          /\ sniffer.pc = "sniffing"
      BY <1>1 DEF IgnoreFrame, histories, SnifferAt
    <2>2. Captured' \subseteq Captured
      BY <1>b, <2>1 DEF Captured
    <2>3. InHand = {} /\ InHand' = {}
      BY <2>1 DEF InHand
    <2> QED
      BY <1>b, <1>c, <2>1, <2>2, <2>3
         DEF A, B, BufferInv, AckedInv, HandInv, FlightInv, Conservation,
             LiveSendOvertakesNothing, SnifferAt, FlusherAt
  <1>2. CASE CaptureFrame
    <2>1. /\ next' = next + 1
          /\ UNCHANGED <<packet_buffer, flusher, acked, evicted, lost>>
          /\ sniffer' = [pc |-> IF packet_buffer = <<>> THEN "posting" ELSE "buffering",
                         pkt |-> next]
          /\ sniffer.pc = "sniffing"
      BY <1>2 DEF CaptureFrame, histories, SnifferAt
    <2>2. Captured' \subseteq Captured \cup {next}
      BY <1>b, <2>1 DEF Captured
    <2>3. InHand = {} /\ InHand' = {next}
      BY <2>1 DEF InHand
    <2>4. LiveSendOvertakesNothing'
      BY <1>c, <2>1 DEF LiveSendOvertakesNothing, SnifferAt, FlightInv
    <2>5. BufferInv' /\ AckedInv' /\ FlightInv'
      BY <1>b, <1>c, <2>1 DEF A, B, BufferInv, AckedInv, FlightInv, FlusherAt
    <2>6. HandInv'
      <3>1. \A q \in Elements(packet_buffer) \cup Elements(acked) \cup evicted \cup lost : q < next
        BY <1>c DEF BufferInv, AckedInv
      <3>2. sniffer'.pc # "exited"
        BY <2>1
      <3> QED
        BY <1>b, <2>1, <2>3, <2>4, <3>1, <3>2 DEF HandInv, SnifferAt
    <2>7. Conservation'
      BY <1>c, <2>1, <2>2, <2>3 DEF Conservation
    <2> QED
      BY <2>5, <2>6, <2>7
  <1>3. CASE SentLive
    <2>1. /\ acked' = Append(acked, sniffer.pkt)
          /\ UNCHANGED <<next, packet_buffer, flusher, evicted, lost>>
          /\ sniffer' = [sniffer EXCEPT !.pc = "announcing"]
          /\ sniffer.pc = "posting"
      BY <1>3 DEF SentLive, Answered201, SnifferTo, SnifferAt
    <2>2. InHand = {sniffer.pkt} /\ InHand' = {} /\ sniffer'.pc = "announcing"
      BY <1>d, <2>1 DEF InHand
    <2>3. sniffer.pkt \in Nat /\ \A q \in A : q < sniffer.pkt
      BY <1>b, <1>c, <2>1, <2>2 DEF HandInv, A, SnifferAt
    <2>4. Elements(acked') = A \cup {sniffer.pkt} /\ Ascending(acked')
      <3>1. Ascending(acked) /\ \A q \in Elements(acked) : q < sniffer.pkt
        BY <1>c, <2>3 DEF A, AckedInv
      <3> QED
        BY <1>b, <2>1, <2>3, <3>1, AppendAbove DEF A
    <2>5. B = {} /\ flusher.pc \notin {"posting", "popping"}
      BY <1>c, <2>1, ElementsEmpty DEF HandInv, LiveSendOvertakesNothing, SnifferAt, B
    <2>6. sniffer.pkt < next
      BY <1>b, <1>c, <2>2 DEF HandInv
    <2>7. Captured' = Captured
      BY <2>1 DEF Captured
    <2> QED
      BY <1>b, <1>c, <2>1, <2>2, <2>4, <2>5, <2>6, <2>7
         DEF A, B, BufferInv, AckedInv, HandInv, FlightInv, Conservation, FlusherAt, SnifferAt,
             LiveSendOvertakesNothing
  <1>4. CASE NotSentLive
    <2>1. /\ UNCHANGED <<next, packet_buffer, flusher, evicted, lost, acked>>
          /\ sniffer' = [sniffer EXCEPT !.pc = "buffering"]
          /\ sniffer.pc = "posting"
      BY <1>4 DEF NotSentLive, NotSent, AnsweredOther, Unreachable, Unanswered, SnifferTo,
                  SnifferAt
    <2>2. InHand = {sniffer.pkt} /\ InHand' = {sniffer.pkt} /\ sniffer'.pc = "buffering"
      BY <1>d, <2>1 DEF InHand
    <2>3. Captured' = Captured
      BY <2>1 DEF Captured
    <2> QED
      BY <1>c, <2>1, <2>2, <2>3
         DEF BufferInv, AckedInv, HandInv, FlightInv, Conservation, FlusherAt, SnifferAt,
             LiveSendOvertakesNothing
  <1>5. CASE BufferPacket
    <2> DEFINE h == sniffer.pkt
               hd == Head(packet_buffer)
    <2>1. /\ UNCHANGED <<next, flusher, acked, lost>>
          /\ sniffer' = [sniffer EXCEPT !.pc = "announcing"]
          /\ sniffer.pc = "buffering"
      BY <1>5 DEF BufferPacket, SnifferTo, SnifferAt
    <2>2. InHand = {h} /\ InHand' = {} /\ sniffer'.pc = "announcing"
      BY <1>d, <2>1 DEF InHand
    <2>3. /\ h \in Nat /\ h < next
          /\ \A q \in B \cup A \cup evicted \cup lost : q < h
      BY <1>b, <1>c, <2>1, <2>2 DEF HandInv, A, B, SnifferAt
    <2>4. Captured' = Captured
      BY <2>1 DEF Captured
    <2>5. CASE Len(packet_buffer) = MaxBuffer
      <3>1. packet_buffer # <<>>
        BY <2>5, EmptySeq, AgentAssumption
      <3>2. /\ evicted' = evicted \cup {hd}
            /\ packet_buffer' = Append(Tail(packet_buffer), h)
        BY <1>5, <2>5 DEF BufferPacket
      <3>3. /\ Ascending(Tail(packet_buffer))
            /\ hd \in B
            /\ Elements(Tail(packet_buffer)) = B \ {hd}
            /\ \A q \in B \ {hd} : hd < q
            /\ Tail(packet_buffer) \in Seq(Nat)
        BY <1>b, <1>c, <3>1, AscendingTail, HeadTailProperties DEF B, BufferInv
      <3>4. /\ Ascending(packet_buffer')
            /\ Elements(packet_buffer') = (B \ {hd}) \cup {h}
            /\ packet_buffer' # <<>>
        <4>1. \A q \in Elements(Tail(packet_buffer)) : q < h
          BY <2>3, <3>3
        <4> HIDE DEF h, hd
        <4> QED
          BY <2>3, <3>2, <3>3, <4>1, AppendAbove
      <3> HIDE DEF h, hd
      <3> QED
        BY <1>b, <1>c, <2>1, <2>2, <2>3, <2>4, <3>2, <3>3, <3>4
           DEF A, B, BufferInv, AckedInv, HandInv, FlightInv, Conservation, FlusherAt, SnifferAt,
               LiveSendOvertakesNothing
    <2>6. CASE Len(packet_buffer) # MaxBuffer
      <3>1. evicted' = evicted /\ packet_buffer' = Append(packet_buffer, h)
        BY <1>5, <2>6 DEF BufferPacket
      <3>2. /\ Ascending(packet_buffer')
            /\ Elements(packet_buffer') = B \cup {h}
            /\ packet_buffer' # <<>>
        <4>1. Ascending(packet_buffer) /\ \A q \in Elements(packet_buffer) : q < h
          BY <1>c, <2>3 DEF B, BufferInv
        <4> HIDE DEF h
        <4> QED
          BY <1>b, <2>3, <3>1, <4>1, AppendAbove DEF B
      <3> HIDE DEF h
      <3> QED
        BY <1>b, <1>c, <2>1, <2>2, <2>3, <2>4, <3>1, <3>2
           DEF A, B, BufferInv, AckedInv, HandInv, FlightInv, Conservation, FlusherAt, SnifferAt,
               LiveSendOvertakesNothing
    <2> QED
      BY <2>5, <2>6
  <1>6. CASE Announce
    <2>1. /\ UNCHANGED <<next, packet_buffer, flusher, acked, evicted, lost>>
          /\ sniffer' = [pc |-> "sniffing", pkt |-> NoPacket]
          /\ sniffer.pc = "announcing"
      BY <1>6 DEF Announce, SnifferAt
    <2>2. InHand = {} /\ InHand' = {} /\ Captured' = Captured
      BY <2>1 DEF InHand, Captured
    <2> QED
      BY <1>c, <2>1, <2>2
         DEF BufferInv, AckedInv, HandInv, FlightInv, Conservation, FlusherAt, SnifferAt,
             LiveSendOvertakesNothing
  <1>7. CASE SnifferEscape
    <2> DEFINE h == sniffer.pkt
    <2>1. /\ UNCHANGED <<next, acked, evicted>>
          /\ sniffer' = [sniffer EXCEPT !.pc = "exited"]
          /\ flusher' = [flusher EXCEPT !.pc = "dead"]
          /\ packet_buffer' = <<>>
          /\ lost' = lost \cup B \cup {h}
          /\ sniffer.pc = "posting"
      BY <1>7 DEF SnifferEscape, Unanswered, SnifferTo, SnifferAt, B
    <2>2. /\ InHand = {h} /\ InHand' = {} /\ sniffer'.pc = "exited" /\ flusher'.pc = "dead"
          /\ Elements(packet_buffer') = {} /\ Ascending(packet_buffer')
      BY <1>d, <2>1, ElementsEmpty DEF InHand
    <2>3. h \in Nat /\ h < next
      BY <1>b, <1>c, <2>1, <2>2 DEF HandInv, SnifferAt
    <2>4. Captured' = Captured
      BY <2>1 DEF Captured
    <2> HIDE DEF h
    <2> QED
      BY <1>b, <1>c, <2>1, <2>2, <2>3, <2>4
         DEF A, B, BufferInv, AckedInv, HandInv, FlightInv, Conservation, FlusherAt, SnifferAt,
             LiveSendOvertakesNothing
  <1>8. CASE Restart
    <2>1. /\ UNCHANGED <<next, packet_buffer, acked, evicted, lost>>
          /\ sniffer' = [pc |-> "sniffing", pkt |-> NoPacket]
          /\ flusher' = [pc |-> "sleeping", pkt |-> NoPacket, left |-> 0]
          /\ sniffer.pc = "exited"
      BY <1>8 DEF Restart, SnifferAt, histories
    <2>2. InHand = {} /\ InHand' = {} /\ Captured' = Captured
      BY <2>1 DEF InHand, Captured
    <2>3. FlusherAt("dead")
      BY <1>c, <2>1 DEF HandInv, SnifferAt
    <2> QED
      BY <1>c, <2>1, <2>2, <2>3
         DEF BufferInv, AckedInv, HandInv, FlightInv, Conservation, FlusherAt, SnifferAt,
             LiveSendOvertakesNothing
  <1>9. CASE StartPass \/ EndPass
    <2>1. /\ UNCHANGED <<next, packet_buffer, sniffer, acked, evicted, lost>>
          /\ flusher.pc \in {"sleeping", "flushing"}
          /\ flusher'.pc \in {"sleeping", "flushing"}
      BY <1>d, <1>9 DEF StartPass, EndPass, FlusherTo, FlusherAt, histories
    <2>2. InHand' = InHand /\ Captured' = Captured
      BY <2>1 DEF InHand, Captured
    <2> QED
      BY <1>c, <2>1, <2>2
         DEF BufferInv, AckedInv, HandInv, FlightInv, Conservation, FlusherAt, SnifferAt,
             LiveSendOvertakesNothing
  <1>10. CASE PeekHead
    <2> DEFINE hd == Head(packet_buffer)
    <2>1. /\ UNCHANGED <<next, packet_buffer, sniffer, acked, evicted, lost>>
          /\ flusher.pc = "flushing"
          /\ flusher'.pc = "posting" /\ flusher'.pkt = hd
          /\ packet_buffer # <<>>
      BY <1>10 DEF PeekHead, FlusherAt, histories
    <2>2. hd \in B /\ \A p \in B \ {hd} : hd < p
      BY <1>b, <1>c, <2>1, AscendingTail DEF B, BufferInv
    <2>3. InHand' = InHand /\ Captured' = Captured
      BY <2>1 DEF InHand, Captured
    <2>4. \A q \in A : q < hd
      BY <1>c, <2>1, <2>2 DEF AckedInv, FlusherAt, A, B
    <2>5. ~SnifferAt("posting")
      BY <1>c, <2>1 DEF HandInv, LiveSendOvertakesNothing
    <2> HIDE DEF hd
    <2> QED
      BY <1>b, <1>c, <2>1, <2>2, <2>3, <2>4, <2>5
         DEF A, B, BufferInv, AckedInv, HandInv, FlightInv, Conservation, FlusherAt, SnifferAt,
             LiveSendOvertakesNothing
  <1>11. CASE Flushed
    <2> DEFINE f == flusher.pkt
    <2>1. /\ acked' = Append(acked, f)
          /\ UNCHANGED <<next, packet_buffer, sniffer, evicted, lost>>
          /\ flusher.pc = "posting"
          /\ flusher'.pc = "popping" /\ flusher'.pkt = f
      BY <1>d, <1>11 DEF Flushed, Answered201, FlusherTo, FlusherAt
    <2>2. /\ f \in Nat /\ f \in B \cup evicted /\ packet_buffer # <<>>
          /\ \A p \in B : f <= p
          /\ \A q \in A : q < f
      BY <1>b, <1>c, <2>1 DEF FlightInv, FlusherAt, A, B
    <2>3. Elements(acked') = A \cup {f} /\ Ascending(acked')
      <3>1. Ascending(acked) /\ \A q \in Elements(acked) : q < f
        BY <1>c, <2>2 DEF A, AckedInv
      <3> HIDE DEF f
      <3> QED
        BY <1>b, <2>1, <2>2, <3>1, AppendAbove DEF A
    <2>4. InHand' = InHand /\ Captured' = Captured
      BY <2>1 DEF InHand, Captured
    <2>5. ~SnifferAt("posting") /\ ~SnifferAt("exited")
      BY <1>c, <2>1 DEF HandInv, LiveSendOvertakesNothing, FlusherAt
    <2> HIDE DEF f
    <2> QED
      BY <1>b, <1>c, <2>1, <2>2, <2>3, <2>4, <2>5
         DEF A, B, BufferInv, AckedInv, HandInv, FlightInv, Conservation, FlusherAt, SnifferAt,
             LiveSendOvertakesNothing
  <1>12. CASE PopHead
    <2> DEFINE f == flusher.pkt
               hd == Head(packet_buffer)
    <2>1. /\ UNCHANGED <<next, sniffer, acked, evicted, lost>>
          /\ flusher.pc = "popping" /\ flusher'.pc = "flushing"
      BY <1>d, <1>12 DEF PopHead, FlusherTo, FlusherAt, histories
    <2>2. /\ f \in Nat /\ f \in A /\ f \in B \cup evicted /\ packet_buffer # <<>>
          /\ \A p \in B : f <= p
          /\ \A q \in A : q <= f
      BY <1>b, <1>c, <2>1 DEF FlightInv, FlusherAt, A, B
    <2>3. /\ Ascending(Tail(packet_buffer))
          /\ hd \in B
          /\ Elements(Tail(packet_buffer)) = B \ {hd}
          /\ \A q \in B \ {hd} : hd < q
      BY <1>b, <1>c, <2>2, AscendingTail DEF B, BufferInv
    <2>4. InHand' = InHand /\ Captured' = Captured
      BY <2>1 DEF InHand, Captured
    <2>5. ~SnifferAt("posting") /\ ~SnifferAt("exited")
      BY <1>c, <2>1 DEF HandInv, LiveSendOvertakesNothing, FlusherAt
    <2>6. CASE hd = f
      <3>1. packet_buffer' = Tail(packet_buffer)
        BY <1>12, <2>2, <2>6 DEF PopHead
      <3>2. Ascending(packet_buffer') /\ Elements(packet_buffer') = B \ {f}
        BY <2>3, <2>6, <3>1
      <3> HIDE DEF f, hd
      <3> QED
        BY <1>b, <1>c, <2>1, <2>2, <2>3, <2>4, <2>5, <2>6, <3>2
           DEF A, B, BufferInv, AckedInv, HandInv, FlightInv, Conservation, FlusherAt, SnifferAt,
               LiveSendOvertakesNothing
    <2>7. CASE hd # f
      <3>1. packet_buffer' = packet_buffer
        BY <1>12, <2>2, <2>7 DEF PopHead
      <3>2. f \in evicted
        BY <1>b, <2>2, <2>3, <2>7
      <3>3. \A q \in A, p \in B : q < p
        BY <1>b, <1>c, <2>2, <3>2 DEF BufferInv, B
      <3> HIDE DEF f, hd
      <3> QED
        BY <1>b, <1>c, <2>1, <2>2, <2>4, <2>5, <3>1, <3>3
           DEF A, B, BufferInv, AckedInv, HandInv, FlightInv, Conservation, FlusherAt, SnifferAt,
               LiveSendOvertakesNothing
    <2> QED
      BY <2>6, <2>7
  <1>13. CASE NotFlushed \/ FlusherEscape
    <2>1. /\ UNCHANGED <<next, packet_buffer, sniffer, evicted, lost, acked>>
          /\ flusher.pc = "posting"
          /\ flusher'.pc \in {"sleeping", "dead"}
      BY <1>d, <1>13 DEF NotFlushed, FlusherEscape, NotSent, AnsweredOther, Unreachable,
                         Unanswered, FlusherTo, FlusherAt
    <2>2. InHand' = InHand /\ Captured' = Captured
      BY <2>1 DEF InHand, Captured
    <2>3. ~SnifferAt("exited")
      BY <1>c, <2>1 DEF HandInv, FlusherAt
    <2> QED
      BY <1>c, <2>1, <2>2, <2>3
         DEF BufferInv, AckedInv, HandInv, FlightInv, Conservation, FlusherAt, SnifferAt,
             LiveSendOvertakesNothing
  <1>14. CASE HandleLate
    BY <1>0, <1>14 DEF HandleLate
  <1>15. CASE UNCHANGED vars
    BY <1>0, <1>15 DEF vars
  <1> QED
    BY <1>1, <1>2, <1>3, <1>4, <1>5, <1>6, <1>7, <1>8, <1>9, <1>10, <1>11, <1>12, <1>13,
       <1>14, <1>15 DEF Next, SnifferStep, FlusherStep

(* IndInv holds in every reachable state: what was given up or answered     *)
(* lies below what is buffered, and that below what the sniffer holds.      *)
THEOREM Invariant == Spec => []IndInv
  BY IndInit, IndStep, PTL DEF Spec

(* No captured packet disappears: it is answered 201, buffered, in hand,    *)
(* pushed out or was in memory at the end (scapy_agent.py).                 *)
THEOREM NothingDisappears == Spec => []Conservation
  <1>1. IndInv => Conservation
    BY DEF IndInv
  <1> QED
    BY <1>1, Invariant, PTL

(* The packets answered 201 ascend: capture order, and none twice           *)
(* (scapy_agent.py: handle_packet and _flush_buffer).                       *)
THEOREM DeliveredInOrder == Spec => []AckedInOrder
  <1>1. IndInv => AckedInOrder
    BY DEF IndInv, AckedInv, AckedInOrder
  <1> QED
    BY <1>1, Invariant, PTL

(* A live POST meets an empty buffer and an idle flusher, although neither  *)
(* thread holds buffer_lock during it (scapy_agent.py: handle_packet).      *)
THEOREM NothingOvertaken == Spec => []LiveSendOvertakesNothing
  <1>1. IndInv => LiveSendOvertakesNothing
    BY DEF IndInv, HandInv
  <1> QED
    BY <1>1, Invariant, PTL

(* The flusher never posts a packet again that was answered 201, nor one    *)
(* that was already counted as dropped.                                     *)
THEOREM Freshness == Spec => PostsAreFresh
  <1> DEFINE Fresh == ~FlusherAt("posting") /\ FlusherAt("posting")'
                        => flusher'.pkt \notin Elements(acked) \cup evicted
  <1>1. IndInv /\ [Next]_vars => [Fresh]_vars
    <2> SUFFICES ASSUME IndInv, Next, flusher.pc # "posting", flusher'.pc = "posting"
                 PROVE  flusher'.pkt \notin Elements(acked) \cup evicted
      BY DEF FlusherAt
    <2>1. flusher \in [pc : FlusherPCs, pkt : Frames \cup {NoPacket}, left : Nat]
      BY DEF IndInv, TypeOK
    <2>2. PeekHead
      <3>1. ~(IgnoreFrame \/ CaptureFrame \/ SentLive \/ NotSentLive \/ BufferPacket \/ Announce)
        BY DEF IgnoreFrame, CaptureFrame, SentLive, NotSentLive, BufferPacket, Announce
      <3>2. ~(SnifferEscape \/ Restart \/ HandleLate)
        BY <2>1 DEF SnifferEscape, Restart, HandleLate, agentVars
      <3>3. ~(StartPass \/ EndPass \/ Flushed)
        BY <2>1 DEF StartPass, EndPass, Flushed, FlusherTo
      <3>4. ~(PopHead \/ NotFlushed \/ FlusherEscape)
        BY <2>1 DEF PopHead, NotFlushed, FlusherEscape, FlusherTo
      <3> QED
        BY <3>1, <3>2, <3>3, <3>4 DEF Next, SnifferStep, FlusherStep
    <2>3. /\ packet_buffer \in Seq(Nat) /\ packet_buffer # <<>>
          /\ Elements(packet_buffer) \cup Elements(acked) \cup evicted \subseteq Nat
          /\ Ascending(packet_buffer)
          /\ flusher.pc = "flushing"
          /\ flusher'.pkt = Head(packet_buffer)
      BY <2>2, PacketsAreNumbers DEF IndInv, BufferInv, PeekHead, FlusherAt
    <2>4. Head(packet_buffer) \in Elements(packet_buffer)
      BY <2>3, AscendingTail
    <2>5. \A q \in Elements(acked) \cup evicted : q < Head(packet_buffer)
      BY <2>3, <2>4 DEF IndInv, AckedInv, BufferInv, FlusherAt
    <2> QED
      BY <2>3, <2>4, <2>5
  <1> QED
    BY <1>1, Invariant, PTL DEF Spec, PostsAreFresh

-----------------------------------------------------------------------------
(* CaptureAgent implements OrderedDelivery.                                 *)

(* An agent that starts has nothing pending, delivered or given up.        *)
LEMMA PromiseInit == Init => Promise!Init
  <1> SUFFICES ASSUME Init PROVE Promise!Init
    OBVIOUS
  <1>1. Elements(packet_buffer) = {} /\ InHand = {} /\ InFlight = {}
    BY ElementsEmpty DEF Init, InHand, InFlight
  <1>2. acked = <<>> /\ evicted = {} /\ lost = {}
    BY DEF Init
  <1> QED
    BY <1>1, <1>2 DEF Promise!Init, PendingBar, DroppedBar

(* Every step of the agent is one of the promise, or a stutter of it.      *)
LEMMA PromiseStep == IndInv /\ [Next]_vars => [Promise!Next]_(Promise!vars)
  <1> SUFFICES ASSUME IndInv, [Next]_vars PROVE [Promise!Next]_(Promise!vars)
    OBVIOUS
  <1> DEFINE B == Elements(packet_buffer)
             A == Elements(acked)
             h == sniffer.pkt
             f == flusher.pkt
  <1>b. /\ B \subseteq Nat /\ A \subseteq Nat /\ evicted \subseteq Nat /\ lost \subseteq Nat
        /\ packet_buffer \in Seq(Nat) /\ acked \in Seq(Nat)
        /\ next \in Nat \ {0}
        /\ ~SnifferAt("sniffing") => h \in Nat
        /\ flusher.pc \in {"posting", "popping"} => f \in Nat
    BY PacketsAreNumbers DEF IndInv
  <1>c. BufferInv /\ AckedInv /\ HandInv /\ FlightInv
    BY DEF IndInv
  <1>d. /\ sniffer \in [pc : SnifferPCs, pkt : Frames \cup {NoPacket}]
        /\ flusher \in [pc : FlusherPCs, pkt : Frames \cup {NoPacket}, left : Nat]
        /\ TypeOK
    BY DEF IndInv, TypeOK
  <1>e. /\ PendingBar = (B \cup InHand \cup InFlight) \ A
        /\ DroppedBar = (evicted \cup lost) \ (A \cup InFlight)
        /\ PendingBar' = (B' \cup InHand' \cup InFlight') \ A'
        /\ DroppedBar' = (evicted' \cup lost') \ (A' \cup InFlight')
        /\ Promise!DeliveredSet = A
    BY DEF PendingBar, DroppedBar, Promise!DeliveredSet, Elements
  <1>f. ASSUME UNCHANGED <<PendingBar, acked, DroppedBar>>
        PROVE  [Promise!Next]_(Promise!vars)
    BY <1>f DEF Promise!vars
  <1>g. ASSUME NEW S \in SUBSET PendingBar, PendingBar' = PendingBar \ S,
               DroppedBar' = DroppedBar \cup S, acked' = acked
        PROVE  [Promise!Next]_(Promise!vars)
    BY <1>g DEF Promise!Next, Promise!GiveUp
  <1>h. ASSUME NEW p \in PendingBar, \A q \in PendingBar : p <= q,
               PendingBar' = PendingBar \ {p}, acked' = Append(acked, p),
               DroppedBar' = DroppedBar
        PROVE  [Promise!Next]_(Promise!vars)
    BY <1>h DEF Promise!Next, Promise!Deliver
  <1>i. /\ \A q \in InHand : q = h
        /\ SnifferAt("posting") \/ SnifferAt("buffering") <=> InHand = {h}
        /\ ~(SnifferAt("posting") \/ SnifferAt("buffering")) <=> InHand = {}
        /\ FlusherAt("posting") <=> InFlight = {f}
        /\ ~FlusherAt("posting") <=> InFlight = {}
    BY DEF InHand, InFlight, SnifferAt, FlusherAt
  <1> HIDE DEF A, B, h, f
  <1>1. CASE IgnoreFrame \/ HandleLate \/ UNCHANGED vars \/ Announce \/ NotSentLive
    <2>1. UNCHANGED <<packet_buffer, flusher, acked, evicted, lost>>
      BY <1>1 DEF IgnoreFrame, HandleLate, vars, agentVars, histories, Announce, NotSentLive,
                  NotSent, AnsweredOther, Unreachable, Unanswered
    <2>2. InHand' = InHand
      <3>1. CASE Announce
        BY <3>1 DEF Announce, InHand, SnifferAt
      <3>2. CASE NotSentLive
        <4>1. /\ sniffer.pc = "posting" /\ sniffer'.pc = "buffering"
              /\ sniffer'.pkt = sniffer.pkt
          BY <1>d, <3>2 DEF NotSentLive, SnifferAt, SnifferTo
        <4> QED
          BY <4>1 DEF InHand
      <3>3. CASE UNCHANGED sniffer
        BY <3>3 DEF InHand
      <3> QED
        BY <1>1, <3>1, <3>2, <3>3 DEF IgnoreFrame, HandleLate, vars, agentVars
    <2>3. InFlight' = InFlight
      BY <2>1 DEF InFlight
    <2> QED
      BY <1>e, <1>f, <2>1, <2>2, <2>3 DEF A, B
  <1>2. CASE CaptureFrame
    <2>1. /\ next \in Frames
          /\ UNCHANGED <<packet_buffer, flusher, acked, evicted, lost>>
          /\ sniffer.pc = "sniffing"
          /\ sniffer'.pc \in {"posting", "buffering"} /\ sniffer'.pkt = next
      BY <1>2 DEF CaptureFrame, histories, SnifferAt
    <2>2. InHand = {} /\ InHand' = {next} /\ InFlight' = InFlight
      BY <2>1 DEF InHand, InFlight
    <2>3. \A q \in B \cup A \cup evicted \cup lost \cup InFlight : q < next
      BY <1>b, <1>c, <1>i DEF BufferInv, AckedInv, FlightInv, FlusherAt, A, B, f
    <2>4. PendingBar' = PendingBar \cup {next} /\ DroppedBar' = DroppedBar
      BY <1>b, <1>e, <2>1, <2>2, <2>3 DEF A, B
    <2>5. \A q \in PendingBar \cup Promise!DeliveredSet \cup DroppedBar : q < next
      BY <1>e, <2>2, <2>3
    <2>6. Promise!Capture(next)
      BY <2>1, <2>4, <2>5 DEF Promise!Capture
    <2> QED
      BY <2>1, <2>6 DEF Promise!Next
  <1>3. CASE SentLive
    <2>1. /\ UNCHANGED <<packet_buffer, flusher, evicted, lost>>
          /\ acked' = Append(acked, h)
          /\ sniffer.pc = "posting" /\ sniffer'.pc = "announcing"
      BY <1>3, <1>d DEF SentLive, Answered201, SnifferAt, SnifferTo, h
    <2>2. InHand = {h} /\ InHand' = {} /\ InFlight = {} /\ InFlight' = {} /\ B = {}
      BY <1>c, <2>1, ElementsEmpty
         DEF InHand, InFlight, HandInv, LiveSendOvertakesNothing, SnifferAt, h, B
    <2>3. h \in Nat /\ \A q \in A \cup evicted \cup lost : q < h
      BY <1>b, <1>c, <2>1, <2>2 DEF HandInv, A, SnifferAt
    <2>4. A' = A \cup {h}
      BY <1>b, <2>1, <2>3, ElementsAppend DEF A
    <2>5. PendingBar = {h} /\ PendingBar' = {} /\ DroppedBar' = DroppedBar
      BY <1>b, <1>e, <2>1, <2>2, <2>3, <2>4 DEF B
    <2> QED
      BY <1>h, <2>1, <2>3, <2>5
  <1>4. CASE BufferPacket
    <2> DEFINE hd == Head(packet_buffer)
    <2>1. /\ UNCHANGED <<flusher, acked, lost>>
          /\ sniffer.pc = "buffering" /\ sniffer'.pc = "announcing"
      BY <1>4, <1>d DEF BufferPacket, SnifferAt, SnifferTo
    <2>2. InHand = {h} /\ InHand' = {} /\ InFlight' = InFlight /\ A' = A
      BY <2>1 DEF InHand, InFlight, h, A
    <2>3. h \in Nat /\ \A q \in B \cup A \cup evicted \cup lost : q < h
      BY <1>b, <1>c, <2>1, <2>2 DEF HandInv, A, B, SnifferAt
    <2>4. CASE Len(packet_buffer) = MaxBuffer
      <3>1. packet_buffer # <<>>
        BY <2>4, EmptySeq, AgentAssumption
      <3>2. /\ evicted' = evicted \cup {hd}
            /\ packet_buffer' = Append(Tail(packet_buffer), h)
        BY <1>4, <2>4 DEF BufferPacket, h
      <3>3. /\ hd \in B
            /\ Elements(Tail(packet_buffer)) = B \ {hd}
            /\ Tail(packet_buffer) \in Seq(Nat)
        BY <1>b, <1>c, <3>1, AscendingTail, HeadTailProperties DEF B, BufferInv
      <3>4. B' = (B \ {hd}) \cup {h}
        <4> DEFINE t == Tail(packet_buffer)
        <4>1. t \in Seq(Nat) /\ h \in Nat /\ Elements(t) = B \ {hd}
          BY <2>3, <3>3
        <4>2. B' = Elements(Append(t, h))
          BY <3>2 DEF B
        <4> HIDE DEF t
        <4>3. Elements(Append(t, h)) = Elements(t) \cup {h}
          BY <4>1, ElementsAppend
        <4> QED
          BY <4>1, <4>2, <4>3
      <3>5. h # hd
        BY <2>3, <3>3
      <3>6. hd \notin InHand
        BY <2>2, <3>5
      <3> DEFINE S == {hd} \ (A \cup InFlight)
      <3> HIDE DEF hd
      <3>7. S \in SUBSET PendingBar
        BY <1>e, <3>3
      <3>8. PendingBar' = PendingBar \ S
        BY <1>e, <2>2, <3>4, <3>6
      <3>9. DroppedBar' = DroppedBar \cup S
        BY <1>e, <2>1, <2>2, <3>2
      <3> HIDE DEF S
      <3> QED
        BY <1>g, <2>1, <3>7, <3>8, <3>9
    <2>5. CASE Len(packet_buffer) # MaxBuffer
      <3>1. evicted' = evicted /\ packet_buffer' = Append(packet_buffer, h)
        BY <1>4, <2>5 DEF BufferPacket, h
      <3>2. B' = B \cup {h}
        BY <1>b, <2>3, <3>1, ElementsAppend DEF B
      <3>3. PendingBar' = PendingBar /\ DroppedBar' = DroppedBar
        BY <1>e, <2>1, <2>2, <3>1, <3>2
      <3> QED
        BY <1>f, <2>1, <3>3
    <2> QED
      BY <2>4, <2>5
  <1>5. CASE SnifferEscape
    <2>1. /\ UNCHANGED <<acked, evicted>>
          /\ packet_buffer' = <<>>
          /\ lost' = lost \cup B \cup {h}
          /\ sniffer.pc = "posting" /\ sniffer'.pc = "exited" /\ flusher'.pc = "dead"
      BY <1>5, <1>d DEF SnifferEscape, Unanswered, SnifferAt, SnifferTo, h, B
    <2>2. /\ InHand = {h} /\ InHand' = {} /\ InFlight = {} /\ InFlight' = {}
          /\ B = {} /\ B' = {} /\ A' = A
      BY <1>c, <2>1, ElementsEmpty
         DEF InHand, InFlight, HandInv, LiveSendOvertakesNothing, SnifferAt, h, A, B
    <2>3. h \notin A
      BY <1>b, <1>c, <2>1, <2>2 DEF HandInv, A, SnifferAt
    <2>4. /\ PendingBar = {h} /\ PendingBar' = PendingBar \ {h}
          /\ DroppedBar' = DroppedBar \cup {h}
      BY <1>e, <2>1, <2>2, <2>3
    <2> QED
      BY <1>g, <2>1, <2>4
  <1>6. CASE Restart \/ StartPass \/ EndPass
    <2>1. UNCHANGED <<packet_buffer, acked, evicted, lost>>
      BY <1>6 DEF Restart, StartPass, EndPass, histories
    <2>2. InHand' = InHand
      BY <1>6 DEF Restart, StartPass, EndPass, InHand, SnifferAt
    <2>3. flusher.pc # "posting"
      BY <1>6, <1>c DEF Restart, StartPass, EndPass, FlusherAt, HandInv, SnifferAt
    <2>4. flusher'.pc # "posting"
      <3>1. Restart => flusher'.pc = "sleeping"
        BY DEF Restart
      <3>2. StartPass => flusher'.pc = "flushing"
        BY <1>d DEF StartPass
      <3>3. EndPass => flusher'.pc = "sleeping"
        BY <1>d DEF EndPass, FlusherTo
      <3> QED
        BY <1>6, <3>1, <3>2, <3>3
    <2>5. InFlight' = {} /\ InFlight = {}
      BY <2>3, <2>4 DEF InFlight
    <2> QED
      BY <1>e, <1>f, <2>1, <2>2, <2>5 DEF A, B
  <1>7. CASE PeekHead
    <2> DEFINE hd == Head(packet_buffer)
    <2>1. /\ UNCHANGED <<packet_buffer, sniffer, acked, evicted, lost>>
          /\ flusher.pc = "flushing"
          /\ flusher'.pc = "posting" /\ flusher'.pkt = hd
          /\ packet_buffer # <<>>
      BY <1>7 DEF PeekHead, FlusherAt, histories
    <2>2. InHand' = InHand /\ InFlight = {} /\ InFlight' = {hd} /\ A' = A /\ B' = B
      BY <2>1 DEF InHand, InFlight, A, B
    <2>3. hd \in B
      BY <1>b, <1>c, <2>1, AscendingTail DEF B, BufferInv
    <2>4. \A q \in A \cup evicted \cup lost : q < hd
      BY <1>c, <2>1, <2>3 DEF AckedInv, BufferInv, FlusherAt, A, B
    <2> HIDE DEF hd
    <2>5. hd \notin A \cup evicted \cup lost
      BY <1>b, <2>3, <2>4
    <2>6. PendingBar' = PendingBar /\ DroppedBar' = DroppedBar
      BY <1>e, <2>1, <2>2, <2>3, <2>5
    <2> QED
      BY <1>f, <2>1, <2>6
  <1>8. CASE Flushed
    <2>1. /\ UNCHANGED <<packet_buffer, sniffer, evicted, lost>>
          /\ acked' = Append(acked, f)
          /\ flusher.pc = "posting" /\ flusher'.pc = "popping"
      BY <1>8, <1>d DEF Flushed, Answered201, FlusherAt, FlusherTo, f
    <2>2. InHand' = InHand /\ InFlight = {f} /\ InFlight' = {} /\ B' = B
      BY <2>1 DEF InHand, InFlight, f, B
    <2>3. /\ f \in Nat /\ f \in B \cup evicted /\ f \notin A
          /\ \A p \in B : f <= p
      BY <1>b, <1>c, <2>1 DEF FlightInv, FlusherAt, A, B, f
    <2>4. \A p \in InHand : f <= p
      BY <1>b, <1>c, <1>i, <2>3 DEF HandInv, B, SnifferAt
    <2>5. A' = A \cup {f}
      BY <1>b, <2>1, <2>3, ElementsAppend DEF A
    <2>6. f \in PendingBar /\ \A q \in PendingBar : f <= q
      BY <1>e, <2>2, <2>3, <2>4
    <2>7. PendingBar' = PendingBar \ {f} /\ DroppedBar' = DroppedBar
      <3>1. f \notin InHand
        BY <1>b, <1>c, <2>3 DEF HandInv, B
      <3> QED
        BY <1>e, <2>1, <2>2, <2>5, <3>1
    <2> QED
      BY <1>h, <2>1, <2>6, <2>7
  <1>9. CASE PopHead
    <2>1. /\ UNCHANGED <<sniffer, acked, evicted, lost>>
          /\ flusher.pc = "popping" /\ flusher'.pc = "flushing"
      BY <1>9, <1>d DEF PopHead, FlusherAt, FlusherTo, histories
    <2>2. InHand' = InHand /\ InFlight = {} /\ InFlight' = {} /\ A' = A
      BY <2>1 DEF InHand, InFlight, A
    <2>3. f \in A /\ packet_buffer # <<>>
      BY <1>c, <2>1 DEF FlightInv, FlusherAt, A, f
    <2>4. Elements(Tail(packet_buffer)) = B \ {Head(packet_buffer)}
      BY <1>b, <1>c, <2>3, AscendingTail DEF B, BufferInv
    <2>5. B' \in {B, B \ {f}}
      BY <1>9, <2>3, <2>4 DEF PopHead, B, f
    <2>6. PendingBar' = PendingBar /\ DroppedBar' = DroppedBar
      BY <1>e, <2>1, <2>2, <2>3, <2>5
    <2> QED
      BY <1>f, <2>1, <2>6
  <1>10. CASE NotFlushed \/ FlusherEscape
    <2>1. /\ UNCHANGED <<packet_buffer, sniffer, acked, evicted, lost>>
          /\ flusher.pc = "posting" /\ flusher'.pc \in {"sleeping", "dead"}
      BY <1>10, <1>d DEF NotFlushed, FlusherEscape, NotSent, AnsweredOther, Unreachable,
                         Unanswered, FlusherAt, FlusherTo
    <2>2. InHand' = InHand /\ InFlight = {f} /\ InFlight' = {} /\ A' = A /\ B' = B
      BY <2>1 DEF InHand, InFlight, f, A, B
    <2>3. f \in Nat /\ f \in B \cup evicted /\ f \notin A
      BY <1>b, <1>c, <2>1 DEF FlightInv, FlusherAt, A, B, f
    <2>4. f \notin InHand
      BY <1>b, <1>c, <2>3 DEF HandInv, B
    <2>5. f \in B => f \notin evicted \cup lost
      BY <1>b, <1>c, <2>3 DEF BufferInv, B
    <2> DEFINE S == {f} \ B
    <2>6. S \in SUBSET PendingBar
      BY <1>e, <2>2, <2>3
    <2>7. PendingBar' = PendingBar \ S
      BY <1>e, <2>2, <2>4
    <2>8. DroppedBar' = DroppedBar \cup S
      BY <1>e, <2>1, <2>2, <2>3, <2>5
    <2> HIDE DEF S
    <2> QED
      BY <1>g, <2>1, <2>6, <2>7, <2>8
  <1> QED
    BY <1>1, <1>2, <1>3, <1>4, <1>5, <1>6, <1>7, <1>8, <1>9, <1>10
       DEF Next, SnifferStep, FlusherStep

(* The capture agent delivers the packets it takes in at most once, oldest  *)
(* first, and never one it has given up: it implements OrderedDelivery.     *)
THEOREM ImplementsPromise == Spec => KeepsPromise
  BY PromiseInit, PromiseStep, Invariant, PTL DEF Spec, KeepsPromise, Promise!Spec
=============================================================================
