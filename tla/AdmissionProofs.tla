-------------------------- MODULE AdmissionProofs ---------------------------
(***************************************************************************)
(* Proofs about Admission: types, bans that survive, and the sliding       *)
(* window that two threads keep, for all limits, periods and addresses.    *)
(***************************************************************************)
EXTENDS Admission, FunctionTheorems, FiniteSetTheorems, TLAPS

\* The time that the trimming thread has read is not in the future.
CleanerNotAhead == cleaner.at = "trim" => cleaner.time <= clock

\* Of an address that is not banned, the counter knows every attempt that is
\* young enough to count.
CounterKnowsWindow ==
  \A a \in Address \ blacklist : \A t \in Time :
    clock - t < time_window => conns[a][t] = log[a][t]

Inv == TypeOK /\ BansSurvive /\ CleanerNotAhead /\ CounterKnowsWindow

LEMMA Constants ==
  /\ Time \subseteq Nat /\ MaxTime \in Nat
  /\ time_window \in Nat /\ time_window > 0
  /\ CleanPeriod \in Nat /\ MaxBoots \in Nat
BY AdmissionAssumption, ClockAssumption DEF Time

-----------------------------------------------------------------------------
(* Lists of timestamps *)

Times == [Time -> Nat]

LEMMA EmptyTyped == Empty \in Times
BY DEF Empty, Times

LEMMA TrimmedTyped ==
  ASSUME NEW times \in Times, NEW now, NEW w
  PROVE  Trimmed(times, now, w) \in Times
BY DEF Trimmed, Times

LEMMA TrimmedEmpty == \A now, w : Trimmed(Empty, now, w) = Empty
BY DEF Trimmed, Empty

LEMMA ExtendedTyped ==
  ASSUME NEW times \in Times, NEW now \in Time
  PROVE  Extended(times, now) \in Times
BY DEF Extended, Times

\* A window over the counter, with the new attempt, is the window over
\* everything, if the counter knows what is young enough.
LEMMA WindowFromCounter ==
  ASSUME NEW now \in Time, NEW counter \in Times, NEW all \in Times,
         \A t \in Time : now - t < time_window => counter[t] = all[t]
  PROVE  Extended(Trimmed(counter, now, time_window), now)
           = Trimmed(Extended(all, now), now, time_window)
<1> DEFINE left == Extended(Trimmed(counter, now, time_window), now)
           right == Trimmed(Extended(all, now), now, time_window)
<1>1. left \in Times
  BY TrimmedTyped, ExtendedTyped
<1>2. right \in Times
  BY TrimmedTyped, ExtendedTyped
<1>3. ASSUME NEW t \in Time PROVE left[t] = right[t]
  BY Constants DEF Extended, Trimmed, Times
<1> QED BY <1>1, <1>2, <1>3 DEF Times

\* The counter knows what it knew, and the new attempt.
LEMMA NewAttempt ==
  ASSUME NEW now \in Time, NEW counter \in Times, NEW all \in Times, NEW t \in Time,
         now - t < time_window, counter[t] = all[t]
  PROVE  Extended(Trimmed(counter, now, time_window), now)[t] = Extended(all, now)[t]
BY Constants DEF Extended, Trimmed, Times

-----------------------------------------------------------------------------
(* The invariant *)

LEMMA InitInv == Init => Inv
<1> SUFFICES ASSUME Init PROVE Inv
  OBVIOUS
<1> USE DEF Init, Asleep
<1>1. clock \in Time /\ boots \in 0..MaxBoots
  BY Constants DEF Time
<1>2. /\ conns \in [Address -> Times] /\ log \in [Address -> Times]
      /\ msgs \in [Sock -> Times] /\ handled \in [Sock -> Times]
  BY EmptyTyped
<1>3. TypeOK BY <1>1, <1>2 DEF TypeOK, Times
<1>4. BansSurvive /\ CleanerNotAhead /\ CounterKnowsWindow
  BY DEF BansSurvive, CleanerNotAhead, CounterKnowsWindow
<1> QED BY <1>3, <1>4 DEF Inv

\* What a server that starts or ends leaves of connections and counters.
LEMMA ForgottenInv ==
  ASSUME TypeOK, Forgotten, clock' = clock
  PROVE  /\ conns' \in [Address -> Times] /\ log' \in [Address -> Times]
         /\ sock' \in [Sock -> {"free", "pending", "connected"}]
         /\ msgs' \in [Sock -> Times] /\ handled' \in [Sock -> Times]
         /\ cleaner' \in [at : {"sleep", "trim"}, time : Nat]
         /\ \A s \in Sock : msgs'[s] = Empty
         /\ CleanerNotAhead' /\ CounterKnowsWindow'
<1> USE DEF Forgotten
<1>1. conns' \in [Address -> Times] /\ log' \in [Address -> Times]
  BY EmptyTyped
<1>2. msgs' \in [Sock -> Times] /\ handled' \in [Sock -> Times]
  BY EmptyTyped
<1>3. cleaner' \in [at : {"sleep", "trim"}, time : Nat] /\ CleanerNotAhead'
  BY Constants DEF TypeOK, Asleep, CleanerNotAhead
<1>4. CounterKnowsWindow'
  BY DEF CounterKnowsWindow
<1> QED BY <1>1, <1>2, <1>3, <1>4

LEMMA ClosedTyped ==
  ASSUME TypeOK, NEW s \in Sock, Closed(s)
  PROVE  /\ sock' \in [Sock -> {"free", "pending", "connected"}]
         /\ msgs' \in [Sock -> Times] /\ handled' \in [Sock -> Times]
         /\ \A u \in Sock : sock'[u] # "connected" => msgs'[u] = Empty
BY EmptyTyped DEF TypeOK, Closed, Times

\* The counter of an address after an attempt that was admitted.
LEMMA AttemptTyped ==
  ASSUME TypeOK, NEW a \in Address
  PROVE  /\ WindowOf(a) \in Times
         /\ Extended(log[a], clock) \in Times
BY TrimmedTyped, ExtendedTyped DEF TypeOK, WindowOf, Times

LEMMA TickInv == ASSUME Inv, Tick PROVE Inv'
BY Constants
   DEF Inv, TypeOK, BansSurvive, CleanerNotAhead, CounterKnowsWindow, Tick, Time, procVars,
       banVars, connVars, msgVars

LEMMA ProcessInv == ASSUME Inv, Start \/ StartFails \/ Stop \/ Killed PROVE Inv'
<1> USE DEF Inv, BansSurvive
<1>1. CASE Start
  BY <1>1, ForgottenInv, Constants DEF Start, TypeOK, Times
<1>2. CASE StartFails
  BY <1>2, Constants
     DEF StartFails, TypeOK, CleanerNotAhead, CounterKnowsWindow, connVars, msgVars
<1>3. CASE Stop
  BY <1>3, ForgottenInv, Constants DEF Stop, TypeOK, Times
<1>4. CASE Killed
  BY <1>4, ForgottenInv, Constants DEF Killed, TypeOK, Times
<1> QED BY <1>1, <1>2, <1>3, <1>4

LEMMA BansInv == ASSUME Inv, NEW a \in Address, Bans(a) PROVE Inv'
<1> USE DEF Bans, Counted, procVars, msgVars
<1>1. TypeOK'
  <2>1. conns' \in [Address -> Times] /\ log' \in [Address -> Times]
    BY AttemptTyped, EmptyTyped DEF Inv, TypeOK, Times
  <2> QED BY <2>1 DEF Inv, TypeOK, Times
<1>2. BansSurvive' BY DEF Inv, BansSurvive
<1>3. CleanerNotAhead' BY DEF Inv, CleanerNotAhead
<1>4. CounterKnowsWindow' BY DEF Inv, TypeOK, CounterKnowsWindow
<1> QED BY <1>1, <1>2, <1>3, <1>4 DEF Inv

LEMMA AdmitsInv == ASSUME Inv, NEW a \in Address, NEW s \in Sock, Admits(a, s) PROVE Inv'
<1> USE DEF Admits, Counted, procVars, msgVars, banVars
<1>1. TypeOK'
  <2>1. conns' \in [Address -> Times] /\ log' \in [Address -> Times]
    BY AttemptTyped DEF Inv, TypeOK, Times
  <2>2. \A u \in Sock : sock'[u] # "connected" => msgs'[u] = Empty
    BY DEF Inv, TypeOK
  <2> QED BY <2>1, <2>2 DEF Inv, TypeOK, Times
<1>2. BansSurvive' BY DEF Inv, BansSurvive
<1>3. CleanerNotAhead' BY DEF Inv, CleanerNotAhead
<1>4. CounterKnowsWindow'
  <2> SUFFICES ASSUME NEW b \in Address \ blacklist, NEW t \in Time, clock - t < time_window
               PROVE  conns'[b][t] = log'[b][t]
    BY DEF CounterKnowsWindow
  <2>1. conns[b][t] = log[b][t] BY DEF Inv, CounterKnowsWindow
  <2>2. CASE b # a BY <2>1, <2>2 DEF Inv, TypeOK
  <2>3. CASE b = a
    <3>1. conns'[b] = Extended(Trimmed(conns[a], clock, time_window), clock)
          /\ log'[b] = Extended(log[a], clock)
      BY <2>3 DEF Inv, TypeOK, WindowOf
    <3>2. clock \in Time /\ conns[a] \in Times /\ log[a] \in Times
      BY DEF Inv, TypeOK, Times
    <3> QED BY <2>1, <2>3, <3>1, <3>2, NewAttempt
  <2> QED BY <2>2, <2>3
<1> QED BY <1>1, <1>2, <1>3, <1>4 DEF Inv

LEMMA ConnectionInv ==
  ASSUME Inv, NEW s \in Sock,
         Handshake(s) \/ Leaves(s) \/ MessageAllowed(s) \/ MessageRefused(s)
  PROVE  Inv'
<1> USE DEF procVars, banVars, connVars, msgVars
<1>1. /\ UNCHANGED <<clock, up, boots, blacklist, file, sentenced, conns, log, cleaner>>
      /\ TypeOK'
  <2>1. CASE Handshake(s) BY <2>1 DEF Handshake, Inv, TypeOK
  <2>2. CASE Leaves(s) BY <2>2, ClosedTyped DEF Leaves, Inv, TypeOK, Times
  <2>3. CASE MessageRefused(s) BY <2>3, ClosedTyped DEF MessageRefused, Inv, TypeOK, Times
  <2>4. CASE MessageAllowed(s)
    <3>1. MessagesOf(s) \in Times /\ Extended(handled[s], clock) \in Times
      BY TrimmedTyped, ExtendedTyped DEF Inv, TypeOK, MessagesOf, Times
    <3> QED BY <2>4, <3>1 DEF MessageAllowed, Inv, TypeOK, Times
  <2> QED BY <2>1, <2>2, <2>3, <2>4
<1> QED BY <1>1 DEF Inv, BansSurvive, CleanerNotAhead, CounterKnowsWindow

LEMMA CleanerInv == ASSUME Inv, CleanerWakes \/ CleanerTrims PROVE Inv'
<1> USE DEF procVars, banVars, connVars, msgVars
<1>1. CASE CleanerWakes
  BY <1>1, Constants
     DEF CleanerWakes, Inv, TypeOK, BansSurvive, CleanerNotAhead, CounterKnowsWindow
<1>2. CASE CleanerTrims
  <2> USE <1>2 DEF CleanerTrims
  <2>1. TypeOK'
    <3>1. conns' \in [Address -> Times] /\ msgs' \in [Sock -> Times]
      BY TrimmedTyped DEF Inv, TypeOK, Times
    <3>2. \A s \in Sock : sock'[s] # "connected" => msgs'[s] = Empty
      BY TrimmedEmpty DEF Inv, TypeOK
    <3>3. cleaner' \in [at : {"sleep", "trim"}, time : Nat]
      BY Constants DEF Inv, TypeOK, Asleep
    <3> QED BY <3>1, <3>2, <3>3 DEF Inv, TypeOK, Times
  <2>2. BansSurvive' BY DEF Inv, BansSurvive
  <2>3. CleanerNotAhead' BY DEF CleanerNotAhead, Asleep
  <2>4. CounterKnowsWindow'
    <3> SUFFICES ASSUME NEW a \in Address \ blacklist, NEW t \in Time,
                        clock - t < time_window
                 PROVE  conns'[a][t] = log'[a][t]
      BY DEF CounterKnowsWindow
    <3>1. conns[a][t] = log[a][t] BY DEF Inv, CounterKnowsWindow
    <3>2. cleaner.time - t < time_window
      BY Constants DEF Inv, TypeOK, CleanerNotAhead
    <3> QED BY <3>1, <3>2 DEF Trimmed, Inv, TypeOK
  <2> QED BY <2>1, <2>2, <2>3, <2>4 DEF Inv
<1> QED BY <1>1, <1>2

LEMMA StepInv == Inv /\ [Next]_vars => Inv'
<1> SUFFICES ASSUME Inv, [Next]_vars PROVE Inv'
  OBVIOUS
<1>1. CASE UNCHANGED vars
  BY <1>1 DEF Inv, TypeOK, BansSurvive, CleanerNotAhead, CounterKnowsWindow, vars, procVars,
              banVars, connVars, msgVars
<1>2. CASE Next
  BY <1>2, TickInv, ProcessInv, BansInv, AdmitsInv, ConnectionInv, CleanerInv DEF Next
<1> QED BY <1>1, <1>2

\* Types hold, whatever the limits and periods.
THEOREM AdmissionTypes == Spec => []TypeOK
<1>1. Inv => TypeOK BY DEF Inv
<1> QED BY InitInv, StepInv, <1>1, PTL DEF Spec

\* A ban is never lost but with a server that is killed or fails to start
\* (_save_banned_ip, _load_banned_ips).
THEOREM BansAreKept == Spec => []BansSurvive
<1>1. Inv => BansSurvive BY DEF Inv
<1> QED BY InitInv, StepInv, <1>1, PTL DEF Spec

-----------------------------------------------------------------------------
(* The refinement *)

\* The two modules speak of the same lists and count them alike.
LEMMA SameCount ==
  /\ \A times : Window!Count(times) = Count(times)
  /\ \A times, now, w : Window!Trimmed(times, now, w) = Trimmed(times, now, w)
  /\ \A times, now : Window!Extended(times, now) = Extended(times, now)
  /\ Window!Empty = Empty /\ Window!Time = Time
BY DEF Count, Window!Count, Cardinality, Window!Cardinality, Entries, Window!Entries, Trimmed, Window!Trimmed, Extended,
       Window!Extended, Empty, Window!Empty, Time, Window!Time

LEMMA InitMaps == Init => Window!Init
BY SameCount DEF Init, Window!Init

\* An attempt, banned or admitted, is the abstract one: the window over the
\* counter is the window over everything the address has done.
LEMMA AttemptMaps ==
  ASSUME Inv, NEW a \in Address, Bans(a) \/ \E s \in Sock : Admits(a, s)
  PROVE  Window!Attempt(a)
<1>1. /\ Counted(a) /\ clock' = clock
      /\ blacklist' = IF Count(WindowOf(a)) > connection_threshold
                      THEN blacklist \cup {a} ELSE blacklist
  <2>1. CASE Bans(a) BY <2>1 DEF Bans, TooMany
  <2>2. CASE \E s \in Sock : Admits(a, s) BY <2>2 DEF Admits, TooMany, banVars
  <2> QED BY <2>1, <2>2
<1>2. a \notin blacklist /\ log' = [log EXCEPT ![a] = Extended(log[a], clock)]
  BY <1>1 DEF Counted
<1>3. log'[a] = Extended(log[a], clock)
  BY <1>2 DEF Inv, TypeOK
<1>4. WindowOf(a) = Trimmed(log'[a], clock, time_window)
  <2>1. clock \in Time /\ conns[a] \in Times /\ log[a] \in Times
    BY DEF Inv, TypeOK, Times
  <2>2. \A t \in Time : clock - t < time_window => conns[a][t] = log[a][t]
    BY <1>2 DEF Inv, CounterKnowsWindow
  <2> QED BY <1>3, <2>1, <2>2, WindowFromCounter DEF WindowOf
<1> QED BY <1>1, <1>2, <1>4, SameCount DEF Window!Attempt

LEMMA StepMaps == Inv /\ [Next]_vars => [Window!Next]_(Window!vars)
<1> SUFFICES ASSUME Inv, Next PROVE Window!Next \/ UNCHANGED <<clock, log, blacklist>>
  BY DEF vars, Window!vars, banVars, connVars
<1> USE DEF procVars, banVars, connVars, msgVars
<1>1. CASE Tick
  BY <1>1, Constants, SameCount DEF Tick, Inv, TypeOK, Window!Next, Window!Tick, Time
<1>2. CASE Start \/ Stop \/ Killed
  <2>1. log' = [a \in Address |-> Empty] /\ clock' = clock
    BY <1>2 DEF Start, Stop, Killed, Forgotten
  <2>2. blacklist' \in SUBSET Address
    BY <1>2 DEF Start, Stop, Killed, Inv, TypeOK
  <2> QED BY <2>1, <2>2, SameCount DEF Window!Next, Window!Reboot
<1>3. CASE StartFails BY <1>3 DEF StartFails
<1>4. CASE \E a \in Address : Bans(a) \/ \E s \in Sock : Admits(a, s)
  BY <1>4, AttemptMaps DEF Window!Next
<1>5. CASE \E s \in Sock : Handshake(s) \/ Leaves(s) \/ MessageAllowed(s) \/ MessageRefused(s)
  BY <1>5 DEF Handshake, Leaves, MessageAllowed, MessageRefused
<1>6. CASE CleanerWakes \/ CleanerTrims
  BY <1>6 DEF CleanerWakes, CleanerTrims
<1> QED BY <1>1, <1>2, <1>3, <1>4, <1>5, <1>6 DEF Next

\* The counters, trimmed by two threads, implement the sliding window over all
\* attempts: an address is banned by the attempt that is one too many, and not
\* before, for every limit and window.
THEOREM CountersImplementWindow == Spec => AddressesAreLimited
<1>1. Init => Window!Init BY InitMaps
<1>2. Inv /\ [Next]_vars => [Window!Next]_(Window!vars) BY StepMaps
<1> QED BY InitInv, StepInv, <1>1, <1>2, PTL DEF Spec, Window!Spec, AddressesAreLimited

-----------------------------------------------------------------------------
(* Counting *)

LEMMA EntriesAre ==
  ASSUME NEW times \in Times
  PROVE  Entries(times) = {m \in Time \X Nat : m[2] > 0 /\ m[2] <= times[m[1]]}
<1>1. ASSUME NEW m \in Entries(times)
      PROVE  m \in Time \X Nat /\ m[2] > 0 /\ m[2] <= times[m[1]]
  <2>1. PICK t \in Time : m \in {t} \X (1..times[t])
    BY DEF Entries
  <2>2. m[1] = t /\ m[2] \in 1..times[t] /\ m = <<m[1], m[2]>> /\ times[t] \in Nat
    BY <2>1 DEF Times
  <2> QED BY <2>2
<1>2. ASSUME NEW m \in Time \X Nat, m[2] > 0, m[2] <= times[m[1]]
      PROVE  m \in Entries(times)
  <2>1. m[1] \in Time /\ m[2] \in 1..times[m[1]] /\ m = <<m[1], m[2]>>
    BY <1>2 DEF Times
  <2>2. m \in {m[1]} \X (1..times[m[1]])
    BY <2>1
  <2> QED BY <2>1, <2>2 DEF Entries
<1> QED BY <1>1, <1>2

LEMMA EntriesFinite ==
  ASSUME NEW times \in Times
  PROVE  IsFiniteSet(Entries(times)) /\ Count(times) \in Nat
<1> DEFINE Of == [t \in Time |-> {t} \X (1..times[t])]
           All == {Of[t] : t \in Time}
<1>1. IsFiniteSet(Time)
  BY FS_Interval, Constants DEF Time
<1>2. Of \in Surjection(Time, All)
  BY DEF Surjection
<1>3. IsFiniteSet(All)
  BY <1>1, <1>2, FS_Surjection
<1>4. ASSUME NEW t \in Time PROVE IsFiniteSet(Of[t])
  <2>1. IsFiniteSet({t}) BY FS_Singleton
  <2>2. IsFiniteSet(1..times[t]) BY FS_Interval DEF Times
  <2> QED BY <2>1, <2>2, FS_Product
<1>5. IsFiniteSet(UNION All)
  BY <1>3, <1>4, FS_UNION
<1>6. Entries(times) = UNION All
  BY DEF Entries
<1> QED BY <1>5, <1>6, FS_CardinalityType DEF Count

LEMMA CountMonotone ==
  ASSUME NEW f \in Times, NEW g \in Times, \A t \in Time : f[t] <= g[t]
  PROVE  Count(f) <= Count(g)
<1>1. ASSUME NEW m \in Entries(f) PROVE m \in Entries(g)
  <2>1. m \in Time \X Nat /\ m[2] > 0 /\ m[2] <= f[m[1]]
    BY EntriesAre
  <2>2. m[1] \in Time /\ m[2] \in Nat /\ f[m[1]] \in Nat /\ g[m[1]] \in Nat
    BY <2>1 DEF Times
  <2> QED BY <2>1, <2>2, EntriesAre
<1> QED BY <1>1, EntriesFinite, FS_Subset DEF Count

\* A list that is no more than two together has no more entries than they have.
LEMMA CountSplit ==
  ASSUME NEW f \in Times, NEW g \in Times, NEW h \in Times,
         \A t \in Time : f[t] <= g[t] + h[t]
  PROVE  Count(f) <= Count(g) + Count(h)
<1> DEFINE Rest == Entries(f) \ Entries(g)
           Shift == [m \in Rest |-> <<m[1], m[2] - g[m[1]]>>]
<1>1. /\ IsFiniteSet(Entries(f)) /\ IsFiniteSet(Entries(g)) /\ IsFiniteSet(Entries(h))
      /\ Count(f) \in Nat /\ Count(g) \in Nat /\ Count(h) \in Nat
  BY EntriesFinite
<1>2. ASSUME NEW m \in Rest
      PROVE  /\ m \in Time \X Nat /\ m[2] > g[m[1]] /\ m[2] <= f[m[1]]
             /\ Shift[m] \in Entries(h)
  <2>1. m \in Time \X Nat /\ m[2] > 0 /\ m[2] <= f[m[1]] /\ m[2] > g[m[1]]
    BY EntriesAre DEF Times
  <2>2. m[1] \in Time /\ m[2] \in Nat
    BY <2>1
  <2>3. f[m[1]] \in Nat /\ g[m[1]] \in Nat /\ h[m[1]] \in Nat
        /\ f[m[1]] <= g[m[1]] + h[m[1]]
    BY <2>2 DEF Times
  <2>4. m[2] - g[m[1]] \in Nat /\ m[2] - g[m[1]] > 0 /\ m[2] - g[m[1]] <= h[m[1]]
    BY <2>1, <2>2, <2>3
  <2>5. Shift[m] = <<m[1], m[2] - g[m[1]]>>
    OBVIOUS
  <2> HIDE DEF Shift
  <2>6. Shift[m] \in Time \X Nat /\ Shift[m][1] = m[1] /\ Shift[m][2] = m[2] - g[m[1]]
    BY <2>2, <2>4, <2>5
  <2> QED BY <2>1, <2>4, <2>6, EntriesAre
<1>3. Shift \in Injection(Rest, Entries(h))
  <2>1. Shift \in [Rest -> Entries(h)]
    BY <1>2
  <2>2. ASSUME NEW m \in Rest, NEW n \in Rest, Shift[m] = Shift[n]
        PROVE  m = n
    <3>1. m[1] = n[1] /\ m[2] - g[m[1]] = n[2] - g[n[1]]
      BY <2>2
    <3>2. m \in Time \X Nat /\ n \in Time \X Nat
      BY <1>2
    <3>3. g[m[1]] \in Nat
      BY <3>2 DEF Times
    <3>4. m[2] = n[2]
      BY <3>1, <3>2, <3>3
    <3> QED BY <3>1, <3>2, <3>4
  <2> HIDE DEF Shift
  <2> QED BY <2>1, <2>2 DEF Injection, IsInjective
<1>4. IsFiniteSet(Rest) /\ Cardinality(Rest) <= Count(h)
  BY <1>1, <1>3, FS_Injection DEF Count
<1>5. /\ Cardinality(Rest) = Cardinality(Entries(f)) - Cardinality(Entries(f) \cap Entries(g))
      /\ Cardinality(Entries(f) \cap Entries(g)) <= Cardinality(Entries(g))
      /\ Cardinality(Entries(f) \cap Entries(g)) \in Nat
  BY <1>1, FS_Difference, FS_Intersection, FS_CardinalityType
<1> QED BY <1>1, <1>4, <1>5, FS_CardinalityType DEF Count

-----------------------------------------------------------------------------
(* Messages *)

\* No message comes from the future; those young enough for either window of
\* the trimming thread are still in the counter, which is within its limit.
CounterKnowsMessages ==
  \A s \in Sock :
    /\ \A t \in Time : t > clock => handled[s][t] = 0
    /\ \A t \in Time : clock - t < time_window => handled[s][t] <= msgs[s][t]
    /\ Count(msgs[s]) <= msg_rate_limit

\* The messages of a connection that the trimming thread found when it last
\* had the lock, which was CleanPeriod before the time for which it sleeps, and
\* those that came after: each within the limit.
FoundAndNew ==
  \A s \in Sock : \E found \in Times :
    /\ \A t \in Time : found[t] <= handled[s][t]
    /\ \A t \in Time : t > cleaner.time - CleanPeriod => found[t] = 0
    /\ Count(Trimmed(found, clock, msg_time_window)) <= msg_rate_limit
    /\ \A t \in Time : clock - t < msg_time_window =>
         handled[s][t] <= found[t] + msgs[s][t]

MessageInv == CounterKnowsMessages /\ (CleanPeriod >= msg_time_window => FoundAndNew)

LEMMA Limits ==
  /\ msg_rate_limit \in Nat /\ msg_time_window \in Nat /\ time_window <= msg_time_window
BY AdmissionAssumption

LEMMA CountEmpty == Count(Empty) = 0
<1>1. Entries(Empty) = {}
  BY Constants DEF Entries, Empty
<1> QED BY <1>1, FS_EmptySet DEF Count

\* A list that is trimmed later, or not, is no longer.
LEMMA TrimmedShrinks ==
  ASSUME NEW times \in Times, NEW now \in Int, NEW later \in Int, now <= later, NEW w \in Int
  PROVE  /\ Count(Trimmed(times, later, w)) <= Count(Trimmed(times, now, w))
         /\ Count(Trimmed(times, now, w)) <= Count(times)
<1>1. /\ Trimmed(times, now, w) \in Times /\ Trimmed(times, later, w) \in Times
  BY TrimmedTyped
<1>2. \A t \in Time : Trimmed(times, later, w)[t] <= Trimmed(times, now, w)[t]
  BY Constants DEF Trimmed, Times
<1>3. \A t \in Time : Trimmed(times, now, w)[t] <= times[t]
  BY Constants DEF Trimmed, Times
<1> QED BY <1>1, <1>2, <1>3, CountMonotone

\* The typed state, as the steps below use it.
LEMMA Typed ==
  ASSUME TypeOK
  PROVE  /\ clock \in Nat /\ cleaner.time \in Nat /\ clock \in Time
         /\ \A s \in Sock : msgs[s] \in Times /\ handled[s] \in Times
BY Constants DEF TypeOK, Times

LEMMA ForgottenMessages ==
  ASSUME \A s \in Sock : msgs'[s] = Empty /\ handled'[s] = Empty
  PROVE  MessageInv'
<1>1. CounterKnowsMessages'
  BY CountEmpty, Limits DEF CounterKnowsMessages, Empty
<1>2. FoundAndNew'
  <2> SUFFICES ASSUME NEW s \in Sock
               PROVE  \E found \in Times :
                        /\ \A t \in Time : found[t] <= handled'[s][t]
                        /\ \A t \in Time : t > cleaner'.time - CleanPeriod => found[t] = 0
                        /\ Count(Trimmed(found, clock', msg_time_window)) <= msg_rate_limit
                        /\ \A t \in Time : clock' - t < msg_time_window =>
                             handled'[s][t] <= found[t] + msgs'[s][t]
    BY DEF FoundAndNew
  <2>1. Count(Trimmed(Empty, clock', msg_time_window)) <= msg_rate_limit
    BY TrimmedEmpty, CountEmpty, Limits
  <2> WITNESS Empty \in Times
  <2> QED BY <2>1, EmptyTyped DEF Empty
<1> QED BY <1>1, <1>2 DEF MessageInv

LEMMA InitMessages == Init => MessageInv
<1> SUFFICES ASSUME Init PROVE MessageInv
  OBVIOUS
<1>1. \A s \in Sock : msgs[s] = Empty /\ handled[s] = Empty
  BY DEF Init
<1>2. CounterKnowsMessages
  BY <1>1, CountEmpty, Limits DEF CounterKnowsMessages, Empty
<1>3. FoundAndNew
  <2> SUFFICES ASSUME NEW s \in Sock
               PROVE  \E found \in Times :
                        /\ \A t \in Time : found[t] <= handled[s][t]
                        /\ \A t \in Time : t > cleaner.time - CleanPeriod => found[t] = 0
                        /\ Count(Trimmed(found, clock, msg_time_window)) <= msg_rate_limit
                        /\ \A t \in Time : clock - t < msg_time_window =>
                             handled[s][t] <= found[t] + msgs[s][t]
    BY DEF FoundAndNew
  <2>1. Count(Trimmed(Empty, clock, msg_time_window)) <= msg_rate_limit
    BY TrimmedEmpty, CountEmpty, Limits
  <2> WITNESS Empty \in Times
  <2> QED BY <1>1, <2>1, EmptyTyped DEF Empty
<1> QED BY <1>2, <1>3 DEF MessageInv

LEMMA LaterIsOlder == \A now, later, t, w \in Nat : now <= later /\ later - t < w => now - t < w
OBVIOUS

\* Time passes, or the thread wakes: less counts than before.
LEMMA LaterMessages ==
  ASSUME TypeOK, MessageInv, clock' \in Nat, clock <= clock',
         cleaner'.time \in Nat, cleaner.time <= cleaner'.time,
         UNCHANGED <<msgs, handled>>
  PROVE  MessageInv'
<1>0. ASSUME NEW t \in Time, NEW w \in Nat
      PROVE  /\ t > clock' => t > clock
             /\ clock' - t < w => clock - t < w
             /\ t > cleaner'.time - CleanPeriod => t > cleaner.time - CleanPeriod
  <2>1. /\ clock \in Nat /\ cleaner.time \in Nat /\ CleanPeriod \in Nat /\ t \in Nat
        /\ clock' \in Nat /\ clock <= clock'
        /\ cleaner'.time \in Nat /\ cleaner.time <= cleaner'.time
    BY Typed, Constants
  <2>2. t > clock' => t > clock
    BY <2>1
  <2>3. clock' - t < w => clock - t < w
    BY <2>1, LaterIsOlder
  <2>4. t > cleaner'.time - CleanPeriod => t > cleaner.time - CleanPeriod
    BY <2>1
  <2> QED BY <2>2, <2>3, <2>4
<1>1. CounterKnowsMessages'
  BY <1>0, Constants DEF MessageInv, CounterKnowsMessages
<1>2. ASSUME FoundAndNew PROVE FoundAndNew'
  <2> SUFFICES ASSUME NEW s \in Sock
               PROVE  \E found \in Times :
                        /\ \A t \in Time : found[t] <= handled[s][t]
                        /\ \A t \in Time : t > cleaner'.time - CleanPeriod => found[t] = 0
                        /\ Count(Trimmed(found, clock', msg_time_window)) <= msg_rate_limit
                        /\ \A t \in Time : clock' - t < msg_time_window =>
                             handled[s][t] <= found[t] + msgs[s][t]
    BY DEF FoundAndNew
  <2>1. PICK found \in Times :
          /\ \A t \in Time : found[t] <= handled[s][t]
          /\ \A t \in Time : t > cleaner.time - CleanPeriod => found[t] = 0
          /\ Count(Trimmed(found, clock, msg_time_window)) <= msg_rate_limit
          /\ \A t \in Time : clock - t < msg_time_window =>
               handled[s][t] <= found[t] + msgs[s][t]
    BY <1>2 DEF FoundAndNew
  <2>2. Count(Trimmed(found, clock', msg_time_window)) <= msg_rate_limit
    <3>1. Count(Trimmed(found, clock', msg_time_window))
            <= Count(Trimmed(found, clock, msg_time_window))
      BY Typed, Limits, TrimmedShrinks
    <3> QED BY <2>1, <3>1, Limits, TrimmedTyped, EntriesFinite
  <2> WITNESS found \in Times
  <2> QED BY <1>0, <2>1, <2>2, Limits
<1> QED BY <1>1, <1>2 DEF MessageInv

\* A message that is allowed is in the counter.
LEMMA AllowedMessages ==
  ASSUME TypeOK, MessageInv, NEW s \in Sock, MessageAllowed(s)
  PROVE  MessageInv'
<1> DEFINE counter == MessagesOf(s)
<1>1. /\ clock' = clock /\ cleaner' = cleaner
      /\ \A u \in Sock : u # s => msgs'[u] = msgs[u] /\ handled'[u] = handled[u]
      /\ msgs'[s] = counter /\ handled'[s] = Extended(handled[s], clock)
      /\ Count(counter) <= msg_rate_limit
  BY DEF MessageAllowed, TypeOK
<1>2. \A t \in Time :
        /\ handled'[s][t] = IF t = clock THEN handled[s][t] + 1 ELSE handled[s][t]
        /\ clock - t < msg_time_window =>
             counter[t] = IF t = clock THEN msgs[s][t] + 1 ELSE msgs[s][t]
        /\ counter[clock] > 0
  BY <1>1, Typed, Constants, Limits DEF Extended, Trimmed, Times, MessagesOf
<1>3. counter \in Times
  BY Typed, TrimmedTyped, ExtendedTyped DEF MessagesOf
<1> HIDE DEF counter
<1>4. CounterKnowsMessages'
  <2>1. \A t \in Time : t > clock => handled'[s][t] = 0
    BY <1>2, Typed, Constants DEF MessageInv, CounterKnowsMessages
  <2>2. \A t \in Time : clock - t < time_window => handled'[s][t] <= msgs'[s][t]
    BY <1>1, <1>2, Typed, Constants, Limits DEF MessageInv, CounterKnowsMessages, Times
  <2> QED BY <1>1, <2>1, <2>2 DEF MessageInv, CounterKnowsMessages
<1>5. ASSUME FoundAndNew PROVE FoundAndNew'
  <2> SUFFICES ASSUME NEW u \in Sock
               PROVE  \E found \in Times :
                        /\ \A t \in Time : found[t] <= handled'[u][t]
                        /\ \A t \in Time : t > cleaner.time - CleanPeriod => found[t] = 0
                        /\ Count(Trimmed(found, clock, msg_time_window)) <= msg_rate_limit
                        /\ \A t \in Time : clock - t < msg_time_window =>
                             handled'[u][t] <= found[t] + msgs'[u][t]
    BY <1>1 DEF FoundAndNew
  <2>1. PICK found \in Times :
          /\ \A t \in Time : found[t] <= handled[u][t]
          /\ \A t \in Time : t > cleaner.time - CleanPeriod => found[t] = 0
          /\ Count(Trimmed(found, clock, msg_time_window)) <= msg_rate_limit
          /\ \A t \in Time : clock - t < msg_time_window =>
               handled[u][t] <= found[t] + msgs[u][t]
    BY <1>5 DEF FoundAndNew
  <2>2. \A t \in Time : found[t] \in Nat /\ handled[u][t] \in Nat /\ msgs[u][t] \in Nat
    BY Typed DEF Times
  <2>3. \A t \in Time : found[t] <= handled'[u][t]
    BY <1>1, <1>2, <2>1, <2>2
  <2>4. \A t \in Time : clock - t < msg_time_window =>
                          handled'[u][t] <= found[t] + msgs'[u][t]
    BY <1>1, <1>2, <2>1, <2>2
  <2> WITNESS found \in Times
  <2> QED BY <2>1, <2>3, <2>4
<1> QED BY <1>4, <1>5 DEF MessageInv

\* The thread trims: what is young for the limit has come since it last did,
\* so all of it is in the counter, and found from now on.
LEMMA TrimmedMessages ==
  ASSUME TypeOK, CleanerNotAhead, MessageInv, CleanerTrims
  PROVE  MessageInv'
<1>1. /\ clock' = clock /\ handled' = handled /\ cleaner.time <= clock
      /\ cleaner'.time = clock + CleanPeriod
      /\ \A s \in Sock : msgs'[s] = Trimmed(msgs[s], cleaner.time, time_window)
  BY DEF CleanerTrims, CleanerNotAhead, Asleep
<1>2. CounterKnowsMessages'
  <2> SUFFICES ASSUME NEW s \in Sock
               PROVE  /\ \A t \in Time : clock - t < time_window =>
                                           handled[s][t] <= msgs'[s][t]
                      /\ Count(msgs'[s]) <= msg_rate_limit
    BY <1>1 DEF MessageInv, CounterKnowsMessages
  <2>1. ASSUME NEW t \in Time, clock - t < time_window
        PROVE  handled[s][t] <= msgs'[s][t]
    <3>1. clock \in Nat /\ cleaner.time \in Nat /\ t \in Nat /\ time_window \in Nat
      BY Typed, Constants
    <3>2. cleaner.time - t < time_window
      BY <1>1, <2>1, <3>1
    <3>3. msgs'[s][t] = msgs[s][t]
      BY <1>1, <3>2 DEF Trimmed
    <3> QED BY <2>1, <3>3 DEF MessageInv, CounterKnowsMessages
  <2>2. Count(msgs'[s]) <= Count(msgs[s])
    BY <1>1, Typed, Constants, TrimmedShrinks
  <2>3. Count(msgs'[s]) \in Nat /\ Count(msgs[s]) \in Nat
    BY <1>1, Typed, TrimmedTyped, EntriesFinite
  <2> QED BY <2>1, <2>2, <2>3, Limits DEF MessageInv, CounterKnowsMessages
<1>3. ASSUME FoundAndNew, CleanPeriod >= msg_time_window PROVE FoundAndNew'
  <2> SUFFICES ASSUME NEW s \in Sock
               PROVE  \E found \in Times :
                        /\ \A t \in Time : found[t] <= handled[s][t]
                        /\ \A t \in Time : t > clock => found[t] = 0
                        /\ Count(Trimmed(found, clock, msg_time_window)) <= msg_rate_limit
                        /\ \A t \in Time : clock - t < msg_time_window =>
                             handled[s][t] <= found[t] + msgs'[s][t]
    BY <1>1, Typed, Constants DEF FoundAndNew
  <2>1. PICK found \in Times :
          /\ \A t \in Time : t > cleaner.time - CleanPeriod => found[t] = 0
          /\ \A t \in Time : clock - t < msg_time_window =>
               handled[s][t] <= found[t] + msgs[s][t]
    BY <1>3 DEF FoundAndNew
  <2>2. \A t \in Time : /\ found[t] \in Nat /\ handled[s][t] \in Nat /\ msgs[s][t] \in Nat
                        /\ msgs'[s][t] \in Nat
    BY <1>1, Typed, TrimmedTyped DEF Times
  <2>3. \A t \in Time : clock - t < msg_time_window => handled[s][t] <= msgs[s][t]
    BY <1>1, <1>3, <2>1, <2>2, Typed, Constants, Limits
  <2>4. \A t \in Time : Trimmed(handled[s], clock, msg_time_window)[t] <= msgs[s][t]
    BY <2>2, <2>3 DEF Trimmed
  <2>5. Count(Trimmed(handled[s], clock, msg_time_window)) <= Count(msgs[s])
    BY <2>4, Typed, TrimmedTyped, CountMonotone
  <2>6. Count(Trimmed(handled[s], clock, msg_time_window)) <= msg_rate_limit
    BY <2>5, Typed, TrimmedTyped, EntriesFinite, Limits DEF MessageInv, CounterKnowsMessages
  <2>7. handled[s] \in Times
    BY Typed
  <2> WITNESS handled[s] \in Times
  <2> QED BY <2>2, <2>6 DEF MessageInv, CounterKnowsMessages
<1> QED BY <1>2, <1>3 DEF MessageInv

LEMMA ClosedMessages ==
  ASSUME TypeOK, MessageInv, NEW s \in Sock, Closed(s), clock' = clock, cleaner' = cleaner
  PROVE  MessageInv'
<1>1. /\ msgs'[s] = Empty /\ handled'[s] = Empty
      /\ \A u \in Sock : u # s => msgs'[u] = msgs[u] /\ handled'[u] = handled[u]
  BY DEF Closed, TypeOK
<1>2. CounterKnowsMessages'
  BY <1>1, CountEmpty, Limits DEF MessageInv, CounterKnowsMessages, Empty
<1>3. ASSUME FoundAndNew PROVE FoundAndNew'
  <2> SUFFICES ASSUME NEW u \in Sock
               PROVE  \E found \in Times :
                        /\ \A t \in Time : found[t] <= handled'[u][t]
                        /\ \A t \in Time : t > cleaner.time - CleanPeriod => found[t] = 0
                        /\ Count(Trimmed(found, clock, msg_time_window)) <= msg_rate_limit
                        /\ \A t \in Time : clock - t < msg_time_window =>
                             handled'[u][t] <= found[t] + msgs'[u][t]
    BY DEF FoundAndNew
  <2>1. CASE u # s
    BY <1>1, <1>3, <2>1 DEF FoundAndNew
  <2>2. CASE u = s
    <3>1. Count(Trimmed(Empty, clock, msg_time_window)) <= msg_rate_limit
      BY TrimmedEmpty, CountEmpty, Limits
    <3> WITNESS Empty \in Times
    <3> QED BY <1>1, <2>2, <3>1, EmptyTyped DEF Empty
  <2> QED BY <2>1, <2>2
<1> QED BY <1>2, <1>3 DEF MessageInv

LEMMA StepMessages == Inv /\ MessageInv /\ [Next]_vars => MessageInv'
<1> SUFFICES ASSUME Inv, MessageInv, [Next]_vars PROVE MessageInv'
  OBVIOUS
<1> USE DEF Inv, procVars, banVars, connVars, msgVars
<1>1. CASE Tick
  BY <1>1, LaterMessages, Typed, Constants DEF Tick, Time
<1>2. CASE Start \/ Stop \/ Killed
  <2>1. \A s \in Sock : msgs'[s] = Empty /\ handled'[s] = Empty
    BY <1>2 DEF Start, Stop, Killed, Forgotten
  <2> QED BY <2>1, ForgottenMessages
<1>3. CASE CleanerWakes
  BY <1>3, LaterMessages, Typed DEF CleanerWakes
<1>4. CASE CleanerTrims
  BY <1>4, TrimmedMessages
<1>5. ASSUME NEW s \in Sock, Leaves(s) \/ MessageRefused(s)
      PROVE  MessageInv'
  BY <1>5, ClosedMessages DEF Leaves, MessageRefused
<1>6. ASSUME NEW s \in Sock, MessageAllowed(s)
      PROVE  MessageInv'
  BY <1>6, AllowedMessages
<1>7. CASE \/ StartFails \/ UNCHANGED vars
           \/ \E a \in Address : Bans(a) \/ \E s \in Sock : Admits(a, s)
           \/ \E s \in Sock : Handshake(s)
  <2>1. UNCHANGED <<clock, cleaner, msgs, handled>>
    BY <1>7 DEF StartFails, Bans, Admits, Handshake, vars
  <2> QED BY <2>1, Typed, LaterMessages
<1> QED BY <1>1, <1>2, <1>3, <1>4, <1>5, <1>6, <1>7 DEF Next

\* A connection never gets more than msg_rate_limit messages through in
\* time_window, nor twice as many in msg_time_window, for any limits and
\* windows (start, _cleanup_ip_counters).
THEOREM MessagesAreLimited == Spec => []MessageLimits
<1>1. ASSUME Inv, MessageInv PROVE MessageLimits
  <2> SUFFICES ASSUME NEW s \in Sock
               PROVE  /\ Count(Trimmed(handled[s], clock, time_window)) <= msg_rate_limit
                      /\ CleanPeriod >= msg_time_window =>
                           Count(Trimmed(handled[s], clock, msg_time_window))
                             <= 2 * msg_rate_limit
    BY DEF MessageLimits
  <2>1. /\ clock \in Nat /\ msgs[s] \in Times /\ handled[s] \in Times
        /\ \A t \in Time : msgs[s][t] \in Nat /\ handled[s][t] \in Nat
    BY <1>1, Typed DEF Inv, Times
  <2>2. Count(msgs[s]) <= msg_rate_limit /\ Count(msgs[s]) \in Nat
    BY <1>1, <2>1, EntriesFinite DEF MessageInv, CounterKnowsMessages
  <2>3. Count(Trimmed(handled[s], clock, time_window)) <= msg_rate_limit
    <3>1. \A t \in Time : Trimmed(handled[s], clock, time_window)[t] <= msgs[s][t]
      BY <1>1, <2>1 DEF MessageInv, CounterKnowsMessages, Trimmed
    <3>2. Count(Trimmed(handled[s], clock, time_window)) <= Count(msgs[s])
      BY <2>1, <3>1, TrimmedTyped, CountMonotone
    <3> QED BY <2>1, <2>2, <3>2, TrimmedTyped, EntriesFinite, Limits
  <2>4. ASSUME CleanPeriod >= msg_time_window
        PROVE  Count(Trimmed(handled[s], clock, msg_time_window)) <= 2 * msg_rate_limit
    <3>1. PICK found \in Times :
            /\ Count(Trimmed(found, clock, msg_time_window)) <= msg_rate_limit
            /\ \A t \in Time : clock - t < msg_time_window =>
                 handled[s][t] <= found[t] + msgs[s][t]
      BY <1>1, <2>4 DEF MessageInv, FoundAndNew
    <3> DEFINE all == Trimmed(handled[s], clock, msg_time_window)
               old == Trimmed(found, clock, msg_time_window)
    <3>2. all \in Times /\ old \in Times
      BY <2>1, TrimmedTyped
    <3>3. \A t \in Time : all[t] <= old[t] + msgs[s][t]
      BY <2>1, <3>1 DEF Trimmed, Times
    <3>4. Count(all) <= Count(old) + Count(msgs[s])
      BY <2>1, <3>2, <3>3, CountSplit
    <3>5. Count(all) \in Nat /\ Count(old) \in Nat
      BY <3>2, EntriesFinite
    <3> QED BY <2>2, <3>1, <3>4, <3>5, Limits
  <2> QED BY <2>3, <2>4
<1> QED BY <1>1, InitInv, StepInv, InitMessages, StepMessages, PTL DEF Spec
=============================================================================
