----------------------------- MODULE WALOutbox -----------------------------
(***************************************************************************)
(* What the write-ahead log of the metrics exporter promises, whatever its *)
(* locks, indices, retries and restarts: an outbox that is filled in       *)
(* order, whose oldest request alone is sent, possibly more than once, and *)
(* whose oldest request leaves only when its fate is settled.              *)
(***************************************************************************)
EXTENDS Naturals, Sequences

VARIABLES
    accepted,  \* numbers of the requests ever accepted
    pending,   \* those that have not left the outbox
    last,      \* the last request the backend has received, 0 if none
    settled    \* those whose export loop has ended

vars == <<accepted, pending, last, settled>>

Oldest(i) == i \in pending /\ \A j \in pending : i <= j

Init == accepted = {} /\ pending = {} /\ last = 0 /\ settled = {}

Accept(i) ==
    /\ i \in Nat /\ \A j \in accepted : j < i
    /\ accepted' = accepted \cup {i}
    /\ pending' = pending \cup {i}
    /\ UNCHANGED <<last, settled>>

Send(i) ==
    /\ Oldest(i)
    /\ last' \in {last, i}
    /\ settled' \in {settled, settled \cup {i}}
    /\ UNCHANGED <<accepted, pending>>

Retire(i) ==
    /\ Oldest(i) /\ i \in settled
    /\ pending' = pending \ {i}
    /\ UNCHANGED <<accepted, last, settled>>

Next ==
    \/ \E i \in accepted' \ accepted : Accept(i)
    \/ \E i \in pending : Send(i) \/ Retire(i)

Spec == Init /\ [][Next]_vars
=============================================================================
