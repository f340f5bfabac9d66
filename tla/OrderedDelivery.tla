--------------------------- MODULE OrderedDelivery ---------------------------
(***************************************************************************)
(* What the capture agent promises about the packets it takes in, whatever *)
(* the network does: each is delivered at most once, oldest first, or      *)
(* given up.  A packet given up is never delivered afterwards.             *)
(***************************************************************************)
EXTENDS Naturals, Sequences

CONSTANT Packet         \* packets are numbered in capture order

VARIABLES pending,      \* packets taken in and not settled
          delivered,    \* packets delivered, in that order
          dropped       \* packets given up

vars == <<pending, delivered, dropped>>

DeliveredSet == {delivered[i] : i \in DOMAIN delivered}

Init ==
    /\ pending = {}
    /\ delivered = <<>>
    /\ dropped = {}

Capture(p) ==
    /\ \A q \in pending \cup DeliveredSet \cup dropped : q < p
    /\ pending' = pending \cup {p}
    /\ UNCHANGED <<delivered, dropped>>

Deliver(p) ==
    /\ \A q \in pending : p <= q
    /\ pending' = pending \ {p}
    /\ delivered' = Append(delivered, p)
    /\ UNCHANGED dropped

GiveUp(S) ==
    /\ pending' = pending \ S
    /\ dropped' = dropped \cup S
    /\ UNCHANGED delivered

Next ==
    \/ \E p \in Packet : Capture(p)
    \/ \E p \in pending : Deliver(p)
    \/ \E S \in SUBSET pending : GiveUp(S)

Spec == Init /\ [][Next]_vars
=============================================================================
