--------------------------- MODULE SlidingWindow ----------------------------
(***************************************************************************)
(* What the admission of connections promises: an address is banned by the *)
(* first attempt with which it has made more than Threshold within Window, *)
(* counted over everything it has done since the server runs, and not      *)
(* before.                                                                 *)
(***************************************************************************)
EXTENDS Timestamps

CONSTANTS Address, Threshold, Window

VARIABLES
  clock,  \* the time
  log,    \* every attempt of each address since the server runs
  banned  \* the addresses that are turned away

vars == <<clock, log, banned>>

Init == clock = 0 /\ log = [a \in Address |-> Empty] /\ banned = {}

Tick == clock' > clock /\ clock' \in Time /\ UNCHANGED <<log, banned>>

Attempt(a) ==
  /\ a \notin banned
  /\ log' = [log EXCEPT ![a] = Extended(@, clock)]
  /\ banned' = IF Count(Trimmed(log'[a], clock, Window)) > Threshold
               THEN banned \cup {a} ELSE banned
  /\ UNCHANGED clock

\* A server that starts knows the bans it is told of and no attempts.
Reboot ==
  /\ log' = [a \in Address |-> Empty]
  /\ banned' \in SUBSET Address
  /\ UNCHANGED clock

Next == Tick \/ Reboot \/ \E a \in Address : Attempt(a)
Spec == Init /\ [][Next]_vars
=============================================================================
