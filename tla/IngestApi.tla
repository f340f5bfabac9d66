------------------------------ MODULE IngestApi ------------------------------
(***************************************************************************)
(* POST /metrics of the FastAPI backend (backend/app/api/metrics.py) and   *)
(* the two stores it writes: InfluxDB (points, keyed by tags and capture   *)
(* time, so that a second write of a packet overwrites the first) and      *)
(* PostgreSQL (network_events: one row per insertion, no key that would    *)
(* recognise a packet).                                                    *)
(*                                                                         *)
(* Each action handles one request; the caller learns whether the answer   *)
(* was 201.  A packet is its position in capture order.                    *)
(***************************************************************************)
EXTENDS Naturals, Sequences

CONSTANTS
    MaxFrames,          \* bound: frames that arrive at the interface
    Rejected,           \* packets the API refuses whenever they are posted (401, 422)
    InfluxConfigured    \* influx_is_configured()

Frames == 1 .. MaxFrames

ASSUME IngestAssumption ==
    /\ MaxFrames \in Nat
    /\ Rejected \subseteq Frames
    /\ InfluxConfigured \in BOOLEAN

VARIABLES
    influx,                 \* packets with a network_traffic point
    events,                 \* the rows of network_events, in insertion order
    packets_captured_total  \* the Prometheus counter

stores == <<influx, events, packets_captured_total>>

IngestTypeOK ==
    /\ influx \subseteq Frames
    /\ events \in Seq(Frames)
    /\ packets_captured_total \in Nat

IngestInit ==
    /\ influx = {}
    /\ events = <<>>
    /\ packets_captured_total = 0

WritePoint(p) == influx' = IF InfluxConfigured THEN influx \cup {p} ELSE influx

(* Mutant: a failed write to InfluxDB is swallowed like one to PostgreSQL.   *)
AcceptDespiteInflux(p) ==
    /\ p \notin Rejected
    /\ packets_captured_total' = packets_captured_total + 1
    /\ influx' \in {influx, influx \cup {p}}
    /\ events' \in {events, Append(events, p)}

(* 201.  A failed insertion is rolled back, logged and answered 201 too.    *)
Accept(p) ==
    /\ p \notin Rejected
    /\ packets_captured_total' = packets_captured_total + 1
    /\ WritePoint(p)
    /\ events' \in {events, Append(events, p)}

(* Neither the key nor the body reaches the handler: 401 or 422.            *)
Refuse(p) ==
    /\ p \in Rejected
    /\ UNCHANGED stores

(* 500.  Either the write to InfluxDB raises (it may have taken effect) and *)
(* PostgreSQL is not reached, or the insertion fails and the rollback       *)
(* raises too (the commit may have taken effect).                           *)
Fail(p) ==
    /\ p \notin Rejected
    /\ packets_captured_total' = packets_captured_total + 1
    /\ \/ /\ InfluxConfigured
          /\ influx' \in {influx, influx \cup {p}}
          /\ events' = events
       \/ /\ WritePoint(p)
          /\ events' \in {events, Append(events, p)}

Handle(p) == Accept(p) \/ Refuse(p) \/ Fail(p)
=============================================================================
