----------------------------- MODULE WALBackoff -----------------------------
(***************************************************************************)
(* The exponential backoff of readWALAndExport (exporter/collector/        *)
(* metrics.go) on one entry of the write-ahead log, in seconds.            *)
(* ExporterWAL takes from it that the number of exports of an entry is     *)
(* bounded; here is by what, and for how long the lock is held asleep.     *)
(***************************************************************************)
EXTENDS Integers

CONSTANT MaxBackoffs    \* values of metric.experimental_wal_config.max_backoff
ASSUME BackoffAssumption == MaxBackoffs \subseteq Nat

VARIABLES
    maxBackoff,  \* me.wal.maxBackoff
    i,           \* the loop counter
    power,       \* 1 << i
    slept,       \* history: the sum of the sleeps
    phase        \* "retrying", "answered" or "spent"

vars == <<maxBackoff, i, power, slept, phase>>

Loops == 12
Default == 3600

Init ==
    /\ maxBackoff \in {IF c = 0 THEN Default ELSE c : c \in MaxBackoffs}
    /\ i = 0 /\ power = 1 /\ slept = 0 /\ phase = "retrying"

(* nil, or an error that isNotRecoverable.                                 *)
Answered ==
    /\ phase = "retrying"
    /\ phase' = "answered" /\ UNCHANGED <<maxBackoff, i, power, slept>>

(* Whether this delay is the one that ends the loop.                       *)
Enough_OneEarly(delay) == 2 * delay >= maxBackoff
Enough(delay) == delay >= maxBackoff

(* DeadlineExceeded or Unavailable.                                        *)
Retry_SleepsFirst ==
    /\ phase = "retrying"
    /\ i' = i + 1 /\ power' = 2 * power /\ slept' = slept + power
    /\ phase' = IF Enough(power) \/ i' = Loops THEN "spent" ELSE phase
    /\ UNCHANGED maxBackoff
Retry ==
    /\ phase = "retrying"
    /\ \/ Enough(power) /\ phase' = "spent" /\ UNCHANGED <<i, power, slept>>
       \/ /\ ~Enough(power)
          /\ i' = i + 1 /\ power' = 2 * power /\ slept' = slept + power
          /\ phase' = IF i' = Loops THEN "spent" ELSE phase
    /\ UNCHANGED maxBackoff

Next == Answered \/ Retry
Spec == Init /\ [][Next]_vars
----------------------------------------------------------------------------
(* However long the outage, one entry holds the lock asleep for less than  *)
(* twice the configured maximum.                                           *)
SleptUnderTwice == slept < 2 * maxBackoff

(* An entry is not given up early: all but a second of the configured      *)
(* maximum has been slept, or all twelve turns of the loop were used.      *)
NotSpentEarly == phase = "spent" => slept >= maxBackoff - 1 \/ i = Loops

(* The two together: an entry gets the time it is configured to, between   *)
(* nearly all of it and nearly twice as much.                              *)
KeepsToMaxBackoff == SleptUnderTwice /\ NotSpentEarly
=============================================================================
