----------------------------- MODULE Timestamps -----------------------------
(* Lists of timestamps, as bags: how many there are of each time.          *)
EXTENDS Integers, FiniteSets

CONSTANT MaxTime \* bound on the clock

ASSUME ClockAssumption == MaxTime \in Nat

Time == 0..MaxTime
Empty == [t \in Time |-> 0]

\* [t for t in times if now - t < window]
Trimmed(times, now, window) == [t \in Time |-> IF now - t < window THEN times[t] ELSE 0]
Extended(times, now) == [times EXCEPT ![now] = @ + 1]
Entries(times) == UNION {{t} \X (1..times[t]) : t \in Time}
Count(times) == Cardinality(Entries(times))
=============================================================================
