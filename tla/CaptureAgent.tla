---------------------------- MODULE CaptureAgent ----------------------------
(***************************************************************************)
(* The capture agent (backend/capture/scapy_agent.py) in front of the      *)
(* ingestion API.  Two threads share packet_buffer under buffer_lock and   *)
(* hold it only for the few statements that touch the deque, never during  *)
(* a POST:                                                                 *)
(*   the sniffer runs handle_packet for one frame at a time, posts live    *)
(*   when it saw the buffer empty and buffers what was not answered 201;   *)
(*   the flusher wakes up, takes the buffer's length and posts at most     *)
(*   that many heads, stopping at the first failure.                       *)
(* One action is one critical section, one HTTP exchange or one publish.   *)
(***************************************************************************)
EXTENDS IngestApi, FiniteSets

CONSTANTS
    MaxBuffer,      \* MAX_BUFFER, the deque's maxlen
    NonIP,          \* frames packet_to_payload turns into None
    MaxFaults,      \* bound: exchanges that fail (unreachable, late, broken, 500)
    OtherErrors     \* can httpx raise something but ConnectError and TimeoutException?

ASSUME AgentAssumption ==
    /\ MaxBuffer \in Nat \ {0}
    /\ NonIP \subseteq Frames
    /\ MaxFaults \in Nat
    /\ OtherErrors \in BOOLEAN

VARIABLES
    next,           \* the next frame to arrive
    packet_buffer,  \* the deque, oldest packet first
    sniffer,        \* the main thread: its position in handle_packet and its packet
    flusher,        \* the flush thread: its position, its packet, posts left in the pass
    faults,         \* failed exchanges so far
    late,           \* requests given up by the agent that the API may still handle
    acked,          \* history: packets the agent saw answered 201, in that order
    evicted,        \* history: packets pushed out of the full deque (stats "dropped")
    lost,           \* history: packets that were in memory when the agent ended
    doubted,        \* history: packets with an exchange whose outcome the agent never learned
    announced       \* history: packets offered to the Redis channel "packets"

agentVars == <<next, packet_buffer, sniffer, flusher>>
histories == <<acked, evicted, lost, doubted, announced>>
vars == <<agentVars, faults, late, histories, stores>>

NoPacket == 0
SnifferPCs == {"sniffing", "posting", "buffering", "announcing", "exited"}
FlusherPCs == {"sleeping", "flushing", "posting", "popping", "dead"}

SnifferAt(pc) == sniffer.pc = pc
FlusherAt(pc) == flusher.pc = pc

Elements(s) == {s[i] : i \in DOMAIN s}
Ascending(s) == \A i, j \in DOMAIN s : i < j => s[i] < s[j]

TypeOK ==
    /\ IngestTypeOK
    /\ next \in 1 .. MaxFrames + 1
    /\ packet_buffer \in Seq(Frames)
    /\ Len(packet_buffer) <= MaxBuffer
    /\ sniffer \in [pc : SnifferPCs, pkt : Frames \cup {NoPacket}]
    /\ ~SnifferAt("sniffing") => sniffer.pkt \in Frames
    /\ flusher \in [pc : FlusherPCs, pkt : Frames \cup {NoPacket}, left : Nat]
    /\ flusher.pc \in {"posting", "popping"} => flusher.pkt \in Frames
    /\ faults \in 0 .. MaxFaults
    /\ late \subseteq [pkt : Frames, id : 1 .. MaxFaults]
    /\ acked \in Seq(Frames)
    /\ evicted \subseteq Frames
    /\ lost \subseteq Frames
    /\ doubted \subseteq Frames
    /\ announced \in Seq(Frames)

Init ==
    /\ IngestInit
    /\ next = 1
    /\ packet_buffer = <<>>
    /\ sniffer = [pc |-> "sniffing", pkt |-> NoPacket]
    /\ flusher = [pc |-> "sleeping", pkt |-> NoPacket, left |-> 0]
    /\ faults = 0
    /\ late = {}
    /\ acked = <<>>
    /\ evicted = {}
    /\ lost = {}
    /\ doubted = {}
    /\ announced = <<>>

-----------------------------------------------------------------------------
(* How an exchange for packet p ends, seen from the agent.                  *)

Fault == /\ faults < MaxFaults
         /\ faults' = faults + 1

Answered201(p) ==
    /\ Accept(p)
    /\ acked' = Append(acked, p)
    /\ UNCHANGED <<faults, late, doubted>>

AnsweredOther(p) ==
    /\ \/ /\ Refuse(p)
          /\ UNCHANGED <<faults, doubted>>
       \/ /\ Fault
          /\ Fail(p)
          /\ doubted' = doubted \cup {p}
    /\ UNCHANGED <<late, acked>>

(* httpx.ConnectError: the request never left.                              *)
Unreachable(p) ==
    /\ Fault
    /\ UNCHANGED <<late, acked, doubted, stores>>

(* The request left and no answer came: the API may handle it later.        *)
Unanswered(p) ==
    /\ Fault
    /\ late' = late \cup {[pkt |-> p, id |-> faults + 1]}
    /\ doubted' = doubted \cup {p}
    /\ UNCHANGED <<acked, stores>>

NotSent(p) == AnsweredOther(p) \/ Unreachable(p) \/ Unanswered(p)

-----------------------------------------------------------------------------
(* The sniffer: handle_packet.                                              *)

SnifferTo(pc) == sniffer' = [sniffer EXCEPT !.pc = pc]

IgnoreFrame ==
    /\ SnifferAt("sniffing")
    /\ next \in NonIP
    /\ next' = next + 1
    /\ UNCHANGED <<packet_buffer, sniffer, flusher, faults, late, histories, stores>>

(* Mutant: the live POST is tried whatever is buffered.                     *)
CaptureFrameAlwaysLive ==
    /\ SnifferAt("sniffing")
    /\ next \in Frames \ NonIP
    /\ next' = next + 1
    /\ sniffer' = [pc |-> "posting", pkt |-> next]
    /\ UNCHANGED <<packet_buffer, flusher, faults, late, histories, stores>>

CaptureFrame ==
    /\ SnifferAt("sniffing")
    /\ next \in Frames \ NonIP
    /\ next' = next + 1
    /\ sniffer' = [pc |-> IF packet_buffer = <<>> THEN "posting" ELSE "buffering",
                   pkt |-> next]
    /\ UNCHANGED <<packet_buffer, flusher, faults, late, histories, stores>>

(* Mutant: handle_packet returns once the live POST succeeded.              *)
SentLiveReturnsEarly ==
    /\ SnifferAt("posting")
    /\ Answered201(sniffer.pkt)
    /\ SnifferTo("sniffing")
    /\ UNCHANGED <<next, packet_buffer, flusher, evicted, lost, announced>>

SentLive ==
    /\ SnifferAt("posting")
    /\ Answered201(sniffer.pkt)
    /\ SnifferTo("announcing")
    /\ UNCHANGED <<next, packet_buffer, flusher, evicted, lost, announced>>

NotSentLive ==
    /\ SnifferAt("posting")
    /\ NotSent(sniffer.pkt)
    /\ SnifferTo("buffering")
    /\ UNCHANGED <<next, packet_buffer, flusher, evicted, lost, announced>>

(* Mutant: a list instead of a deque with a maxlen.                         *)
BufferPacketUnbounded ==
    /\ SnifferAt("buffering")
    /\ packet_buffer' = Append(packet_buffer, sniffer.pkt)
    /\ SnifferTo("announcing")
    /\ UNCHANGED <<next, flusher, faults, late, histories, stores>>

(* Mutant: the drop is counted from one packet too late.                    *)
BufferPacketOffByOne ==
    /\ SnifferAt("buffering")
    /\ packet_buffer' = Append(IF Len(packet_buffer) = MaxBuffer
                               THEN Tail(packet_buffer) ELSE packet_buffer, sniffer.pkt)
    /\ evicted' = IF Len(packet_buffer) > MaxBuffer
                  THEN evicted \cup {Head(packet_buffer)} ELSE evicted
    /\ SnifferTo("announcing")
    /\ UNCHANGED <<next, flusher, faults, late, acked, lost, doubted, announced, stores>>

(* append to a deque with a maxlen: a full one loses its head.              *)
BufferPacket ==
    /\ SnifferAt("buffering")
    /\ IF Len(packet_buffer) = MaxBuffer
       THEN /\ evicted' = evicted \cup {Head(packet_buffer)}
            /\ packet_buffer' = Append(Tail(packet_buffer), sniffer.pkt)
       ELSE /\ packet_buffer' = Append(packet_buffer, sniffer.pkt)
            /\ evicted' = evicted
    /\ SnifferTo("announcing")
    /\ UNCHANGED <<next, flusher, faults, late, acked, lost, doubted, announced, stores>>

Announce ==
    /\ SnifferAt("announcing")
    /\ announced' = Append(announced, sniffer.pkt)
    /\ sniffer' = [pc |-> "sniffing", pkt |-> NoPacket]
    /\ UNCHANGED <<next, packet_buffer, flusher, faults, late, acked, evicted, lost,
                   doubted, stores>>

(* Any other exception of the POST leaves handle_packet: sniff returns, the *)
(* process ends, the daemon flush thread and the deque end with it.         *)
SnifferEscape ==
    /\ OtherErrors
    /\ SnifferAt("posting")
    /\ Unanswered(sniffer.pkt)
    /\ SnifferTo("exited")
    /\ flusher' = [flusher EXCEPT !.pc = "dead"]
    /\ packet_buffer' = <<>>
    /\ lost' = lost \cup Elements(packet_buffer) \cup {sniffer.pkt}
    /\ UNCHANGED <<next, evicted, announced>>

(* The operator starts the agent again.                                     *)
Restart ==
    /\ SnifferAt("exited")
    /\ sniffer' = [pc |-> "sniffing", pkt |-> NoPacket]
    /\ flusher' = [pc |-> "sleeping", pkt |-> NoPacket, left |-> 0]
    /\ UNCHANGED <<next, packet_buffer, faults, late, histories, stores>>

-----------------------------------------------------------------------------
(* The flusher: flush_buffer_loop and _flush_buffer.                        *)

FlusherTo(pc) == flusher' = [flusher EXCEPT !.pc = pc]

(* Mutant: a single buffered packet is not worth a pass.                    *)
StartPassFromTwo ==
    /\ FlusherAt("sleeping")
    /\ Len(packet_buffer) > 1
    /\ flusher' = [flusher EXCEPT !.pc = "flushing", !.left = Len(packet_buffer)]
    /\ UNCHANGED <<next, packet_buffer, sniffer, faults, late, histories, stores>>

StartPass ==
    /\ FlusherAt("sleeping")
    /\ packet_buffer # <<>>
    /\ flusher' = [flusher EXCEPT !.pc = "flushing", !.left = Len(packet_buffer)]
    /\ UNCHANGED <<next, packet_buffer, sniffer, faults, late, histories, stores>>

(* Mutant: the head leaves the buffer before it is posted.                  *)
PeekHeadPops ==
    /\ FlusherAt("flushing")
    /\ flusher.left > 0
    /\ packet_buffer # <<>>
    /\ flusher' = [pc |-> "posting", pkt |-> Head(packet_buffer), left |-> flusher.left - 1]
    /\ packet_buffer' = Tail(packet_buffer)
    /\ UNCHANGED <<next, sniffer, faults, late, histories, stores>>

PeekHead ==
    /\ FlusherAt("flushing")
    /\ flusher.left > 0
    /\ packet_buffer # <<>>
    /\ flusher' = [pc |-> "posting", pkt |-> Head(packet_buffer), left |-> flusher.left - 1]
    /\ UNCHANGED <<next, packet_buffer, sniffer, faults, late, histories, stores>>

EndPass ==
    /\ FlusherAt("flushing")
    /\ flusher.left = 0 \/ packet_buffer = <<>>
    /\ FlusherTo("sleeping")
    /\ UNCHANGED <<next, packet_buffer, sniffer, faults, late, histories, stores>>

(* Mutant: the packet answered 201 stays at the head.                       *)
FlushedNotPopped ==
    /\ FlusherAt("posting")
    /\ Answered201(flusher.pkt)
    /\ FlusherTo("flushing")
    /\ UNCHANGED <<next, packet_buffer, sniffer, evicted, lost, announced>>

Flushed ==
    /\ FlusherAt("posting")
    /\ Answered201(flusher.pkt)
    /\ FlusherTo("popping")
    /\ UNCHANGED <<next, packet_buffer, sniffer, evicted, lost, announced>>

(* Mutant: whatever is at the head now is removed.                          *)
PopHeadUnchecked ==
    /\ FlusherAt("popping")
    /\ packet_buffer' = IF packet_buffer # <<>> THEN Tail(packet_buffer) ELSE packet_buffer
    /\ FlusherTo("flushing")
    /\ UNCHANGED <<next, sniffer, faults, late, histories, stores>>

(* The head is removed only if it is still the packet that was posted: the  *)
(* sniffer may have pushed it out during the POST.                          *)
PopHead ==
    /\ FlusherAt("popping")
    /\ packet_buffer' =
         IF packet_buffer # <<>> /\ Head(packet_buffer) = flusher.pkt
         THEN Tail(packet_buffer) ELSE packet_buffer
    /\ FlusherTo("flushing")
    /\ UNCHANGED <<next, sniffer, faults, late, histories, stores>>

NotFlushed ==
    /\ FlusherAt("posting")
    /\ NotSent(flusher.pkt)
    /\ FlusherTo("sleeping")
    /\ UNCHANGED <<next, packet_buffer, sniffer, evicted, lost, announced>>

(* Any other exception of the POST leaves flush_buffer_loop: the thread ends. *)
FlusherEscape ==
    /\ OtherErrors
    /\ FlusherAt("posting")
    /\ Unanswered(flusher.pkt)
    /\ FlusherTo("dead")
    /\ UNCHANGED <<next, packet_buffer, sniffer, evicted, lost, announced>>

-----------------------------------------------------------------------------
(* The API handles a request the agent has given up on.                     *)
HandleLate ==
    \E r \in late :
        /\ Handle(r.pkt)
        /\ late' = late \ {r}
        /\ UNCHANGED <<agentVars, faults, histories>>

SnifferStep == SentLive \/ NotSentLive \/ BufferPacket \/ Announce
FlusherStep == StartPass \/ PeekHead \/ EndPass \/ Flushed \/ PopHead \/ NotFlushed

Next ==
    \/ IgnoreFrame \/ CaptureFrame
    \/ SnifferStep \/ SnifferEscape \/ Restart
    \/ FlusherStep \/ FlusherEscape
    \/ HandleLate

Spec == Init /\ [][Next]_vars

(* handle_packet returns (every POST is answered or times out after 2s) and *)
(* the flush thread is scheduled; frames need not arrive, nobody need       *)
(* restart the agent and a late request need not be handled.                *)
FairSpec == Spec /\ WF_vars(SnifferStep) /\ WF_vars(FlusherStep)
-----------------------------------------------------------------------------
(* Properties.                                                              *)

InHand == IF sniffer.pc \in {"posting", "buffering"} THEN {sniffer.pkt} ELSE {}
InFlight == IF flusher.pc = "posting" THEN {flusher.pkt} ELSE {}
Captured == (1 .. next - 1) \ NonIP

(* Whatever the two threads' order, a captured IP packet is accounted for:  *)
(* answered 201, in the buffer, in the sniffer's hand, pushed out by the    *)
(* full buffer, or in memory when the process ended.  (scapy_agent.py: the  *)
(* deque is read, posted from and popped in three critical sections.)       *)
Conservation ==
    Captured \subseteq Elements(acked) \cup Elements(packet_buffer) \cup InHand
                       \cup evicted \cup lost

(* Packets are answered 201 in capture order and never twice ("the agent's  *)
(* stated ordering guarantee", test_capture_pipeline.py:211).               *)
AckedInOrder == Ascending(acked)

(* A live POST races no buffered packet: while it is on the way the buffer  *)
(* is empty and the flusher has no exchange of its own, although neither    *)
(* thread holds the lock (test_capture_pipeline.py:124).                    *)
LiveSendOvertakesNothing ==
    SnifferAt("posting") => /\ packet_buffer = <<>>
                            /\ flusher.pc \notin {"posting", "popping"}

(* A POST of the flusher never starts for a packet that was answered 201    *)
(* before or was already counted as dropped.                                *)
PostsAreFresh ==
    [][~FlusherAt("posting") /\ FlusherAt("posting")'
         => flusher'.pkt \notin Elements(acked) \cup evicted]_vars

(* network_events holds two rows of one packet, or rows in another order    *)
(* than capture order, only when the agent once did not learn the outcome   *)
(* of an exchange for the packet that stands out.                           *)
IrregularRowsAreDoubted ==
    \A i, j \in DOMAIN events :
        i < j /\ events[j] <= events[i] => events[j] \in doubted

(* A packet the agent has seen answered 201, and so forgotten, is in        *)
(* InfluxDB when InfluxDB is configured.                                    *)
AckedIsStored ==
    InfluxConfigured => Elements(acked) \subseteq influx

(* The live channel gets the packets in capture order, and every IP packet  *)
(* whose handling is over whatever became of its POST, except one that was  *)
(* in memory when the process ended                                         *)
(* (test_handle_packet_publishes_to_redis_regardless_of_http_outcome).      *)
AnnouncedRegardless ==
    LET unfinished == IF SnifferAt("sniffing") THEN {} ELSE {sniffer.pkt}
    IN  /\ Captured \ unfinished \subseteq Elements(announced) \cup lost
        /\ Ascending(announced)

(* The pending, delivered and given-up packets of the abstract promise.  A  *)
(* packet pushed out of the buffer during its own POST is still pending:    *)
(* the answer to that POST settles it.                                      *)
PendingBar == (Elements(packet_buffer) \cup InHand \cup InFlight) \ Elements(acked)
DroppedBar == (evicted \cup lost) \ (Elements(acked) \cup InFlight)

Promise == INSTANCE OrderedDelivery WITH
    Packet <- Frames, pending <- PendingBar, delivered <- acked, dropped <- DroppedBar

(* The agent keeps the promise of OrderedDelivery.                          *)
KeepsPromise == Promise!Spec

(* Once exchanges stop failing the buffer drains: a buffered packet leaves  *)
(* the buffer, unless the flush thread is dead or the head is a packet the  *)
(* API refuses (every later packet then waits behind it).                   *)
DrainsOrBlocked ==
    \A p \in Frames :
        p \in Elements(packet_buffer)
          ~> \/ p \notin Elements(packet_buffer)
             \/ FlusherAt("dead")
             \/ Head(packet_buffer) \in Rejected

(* The buffer drains once the API answers again                             *)
(* (test_flush_buffer_drains_when_http_recovers).                           *)
BufferDrains ==
    \A p \in Frames :
        p \in Elements(packet_buffer) ~> p \notin Elements(packet_buffer)

-----------------------------------------------------------------------------
(* The inductive invariant behind Conservation, AckedInOrder,               *)
(* LiveSendOvertakesNothing, PostsAreFresh and KeepsPromise.  Packets are   *)
(* compared by their numbers: what was given up or answered lies below what *)
(* is buffered, and that below what the sniffer holds.                      *)

BufferInv ==
    /\ Ascending(packet_buffer)
    /\ \A q \in Elements(packet_buffer) \cup evicted \cup lost : q < next
    /\ \A q \in evicted \cup lost, p \in Elements(packet_buffer) : q < p

AckedInv ==
    /\ Ascending(acked)
    /\ \A q \in Elements(acked) : q < next
    /\ ~FlusherAt("popping") =>
           \A q \in Elements(acked), p \in Elements(packet_buffer) : q < p

HandInv ==
    /\ \A h \in InHand :
           /\ h = next - 1
           /\ \A q \in Elements(packet_buffer) \cup Elements(acked) \cup evicted \cup lost :
                 q < h
    /\ LiveSendOvertakesNothing
    /\ SnifferAt("exited") => packet_buffer = <<>> /\ FlusherAt("dead")

FlightInv ==
    flusher.pc \in {"posting", "popping"} =>
        /\ packet_buffer # <<>>
        /\ flusher.pkt \in Elements(packet_buffer) \cup evicted
        /\ \A p \in Elements(packet_buffer) : flusher.pkt <= p
        /\ \A q \in Elements(acked) : q <= flusher.pkt
        /\ FlusherAt("posting") <=> flusher.pkt \notin Elements(acked)

IndInv == TypeOK /\ BufferInv /\ AckedInv /\ HandInv /\ FlightInv /\ Conservation
=============================================================================
