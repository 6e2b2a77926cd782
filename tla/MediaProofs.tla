---------------------------- MODULE MediaProofs -----------------------------
(***************************************************************************)
(* Proofs about MediaSession: one process of a kind at a time, and screens *)
(* that never go back to an earlier call, for any number of calls and      *)
(* frames and any kind of pipe.                                            *)
(***************************************************************************)
EXTENDS MediaSession, TLAPS

Process == [call : Call, kind : Kind]
Ended == {"none", "dead"}
Place == {"loop", "clearing", "ending", "over", "building", "starting", "raised", "stranded"}
ProcessState == {"built", "broken"} \cup Ended \cup Alive

-----------------------------------------------------------------------------
(* The invariant of the processes *)

ProcessTypes ==
  /\ call \in 0..MaxCalls /\ phase \in {"none", "agreed", "live"}
  /\ phase # "none" => call \in Call
  /\ proc \in [Call -> [Kind -> ProcessState]]
  /\ lists \in Seq(Seq(Process)) /\ Len(lists) > 0
  /\ thread \in [{"sip", "gui"} -> [at : Place, list : Nat, next : Nat \ {0}]]
  /\ thread["gui"].at \in {"loop", "ending", "over"}
  /\ \A t \in {"sip", "gui"} :
       thread[t].at \in {"clearing", "ending", "starting"} => thread[t].list \in 1..Len(lists)

\* The GUI thread is not in mediator.stop, nor past it.
Open == thread["gui"].at = "loop"
Sip(places) == thread["sip"].at \in places
Latest == lists[Len(lists)]

\* What has not ended belongs to the last call.
LastCallOnly == \A n \in Call, k \in Kind : proc[n][k] \notin Ended => n = call

\* Between calls the manager has no processes, and nothing is left alive
\* unless the window has been closed.
CleanBetween ==
  /\ phase = "agreed" \/ (phase = "none" /\ Sip({"loop"})) => Latest = <<>>
  /\ phase = "agreed" \/ (phase = "none" /\ Sip({"loop"}) /\ Open) =>
       \A n \in Call, k \in Kind : proc[n][k] \in Ended

\* While the SIP thread starts processes they are those of the last call.
StartsItsOwn ==
  /\ Sip({"building", "starting"}) => phase = "live"
  /\ Sip({"building"}) => \A j \in DOMAIN Latest : Latest[j].call = call
  /\ Sip({"starting"}) =>
       \A j \in DOMAIN lists[thread["sip"].list] : lists[thread["sip"].list][j].call = call

\* Until the window is closed the present list holds what has not ended, and
\* the SIP thread works on that list.
Listed ==
  Open =>
    /\ \A k \in Kind : call \in Call /\ proc[call][k] \notin Ended =>
         \E j \in DOMAIN Latest : Latest[j] = [call |-> call, kind |-> k]
    /\ Sip({"clearing", "starting"}) => thread["sip"].list = Len(lists)
    /\ Sip({"clearing"}) =>
         \A j \in DOMAIN Latest : j < thread["sip"].next =>
           proc[Latest[j].call][Latest[j].kind] = "dead"
    /\ ~Sip({"ending", "over", "raised", "stranded"})

ProcessInv == ProcessTypes /\ LastCallOnly /\ CleanBetween /\ StartsItsOwn /\ Listed

processVars == <<call, phase, lists, proc, thread>>

LEMMA Constants ==
  /\ MaxCalls \in Nat /\ Call = 1..MaxCalls
  /\ Len(Kinds) = 2 /\ Kinds[1] = "send" /\ Kinds[2] = "recv" /\ Kind = {"send", "recv"}
BY MediaAssumption DEF Call, Kinds, Kind

LEMMA LatestTyped ==
  ASSUME ProcessTypes
  PROVE  /\ Latest \in Seq(Process)
         /\ \A j \in DOMAIN Latest :
              Latest[j] \in Process /\ Latest[j].call \in Call /\ Latest[j].kind \in Kind
<1>1. Latest \in Seq(Process) BY DEF ProcessTypes, Latest
<1>2. \A j \in DOMAIN Latest : Latest[j] \in Process BY <1>1
<1> QED BY <1>1, <1>2 DEF Process

LEMMA ProcessInit == Init => ProcessInv
<1> SUFFICES ASSUME Init PROVE ProcessInv
  OBVIOUS
<1> USE Constants DEF Init, At
<1>1. lists \in Seq(Seq(Process)) /\ Len(lists) = 1 /\ Latest = <<>>
  BY DEF Latest
<1>2. ProcessTypes BY <1>1 DEF ProcessTypes, ProcessState, Ended, Place
<1>3. LastCallOnly BY DEF LastCallOnly, Ended
<1>4. CleanBetween BY <1>1 DEF CleanBetween, Ended
<1>5. StartsItsOwn BY DEF StartsItsOwn, Sip
<1>6. Listed BY DEF Listed, Sip, Ended
<1> QED BY <1>2, <1>3, <1>4, <1>5, <1>6 DEF ProcessInv

-----------------------------------------------------------------------------
(* Each step preserves it *)

LEMMA ProcessRests == ASSUME ProcessInv, UNCHANGED processVars PROVE ProcessInv'
BY DEF ProcessInv, ProcessTypes, LastCallOnly, CleanBetween, StartsItsOwn, Listed, processVars,
       Open, Sip, Latest

\* Processes come nearer to their end, and those that have ended stay so.
Ending ==
  /\ proc' \in [Call -> [Kind -> ProcessState]]
  /\ \A n \in Call, k \in Kind :
       /\ proc'[n][k] \notin Ended => proc[n][k] \notin Ended
       /\ proc[n][k] = "dead" => proc'[n][k] = "dead"

LEMMA ProcessEnds ==
  ASSUME ProcessInv, Ending, UNCHANGED <<call, phase, lists, thread>>
  PROVE  ProcessInv'
<1> USE DEF Ending, ProcessInv, Open, Sip, Latest
<1>1. ProcessTypes' BY DEF ProcessTypes
<1>2. LastCallOnly' BY DEF LastCallOnly
<1>3. CleanBetween' BY DEF CleanBetween
<1>4. StartsItsOwn' BY DEF StartsItsOwn
<1>5. Listed'
  <2>1. \A j \in DOMAIN Latest : Latest[j].call \in Call /\ Latest[j].kind \in Kind
    BY LatestTyped DEF ProcessInv
  <2> SUFFICES ASSUME Open' PROVE Listed'
    BY DEF Listed
  <2>2. \A k \in Kind : call \in Call /\ proc'[call][k] \notin Ended =>
          \E j \in DOMAIN Latest : Latest[j] = [call |-> call, kind |-> k]
    BY DEF Listed
  <2>3. Sip({"clearing"}) => \A j \in DOMAIN Latest : j < thread["sip"].next =>
          proc'[Latest[j].call][Latest[j].kind] = "dead"
    BY <2>1 DEF Listed
  <2> QED BY <2>2, <2>3 DEF Listed
<1> QED BY <1>1, <1>2, <1>3, <1>4, <1>5

LEMMA OneEnds ==
  ASSUME ProcessInv, NEW n \in Call, NEW k \in Kind, NEW state \in {"flush", "dead"},
         proc[n][k] \in Alive \cup {"dead"}, state = "flush" => proc[n][k] = "run",
         proc' = [proc EXCEPT ![n][k] = state]
  PROVE  Ending
BY DEF Ending, ProcessInv, ProcessTypes, ProcessState, Ended, Alive

LEMMA ProcessStepsInv ==
  ASSUME ProcessInv, NEW n \in Call, ProcessStep(n) \/ CameraFails(n)
  PROVE  ProcessInv'
<1> USE DEF callVars, managerVars, Becomes
<1>1. Ending
  <2>1. CASE CameraFails(n)
    BY <2>1, OneEnds, Constants DEF CameraFails, Alive
  <2>2. ASSUME NEW k \in Kind, ProcessStops(n, k) PROVE Ending
    BY <2>2, OneEnds DEF ProcessStops, Alive
  <2>3. CASE Flushed(n)
    BY <2>3, OneEnds, Constants DEF Flushed, Alive
  <2> QED BY <2>1, <2>2, <2>3 DEF ProcessStep
<1>2. UNCHANGED <<call, phase, lists, thread>>
  BY DEF ProcessStep, CameraFails, ProcessStops, Flushed
<1> QED BY <1>1, <1>2, ProcessEnds

LEMMA VisitedTyped ==
  ASSUME ProcessTypes, NEW t \in {"sip", "gui"}, HasNext(t),
         thread[t].at \in {"clearing", "ending", "starting"}
  PROVE  /\ Visits(t) \in Process /\ Visits(t).call \in Call /\ Visits(t).kind \in Kind
         /\ thread[t].next \in DOMAIN lists[thread[t].list]
<1> DEFINE list == lists[thread[t].list]
<1>1. list \in Seq(Process) BY DEF ProcessTypes
<1>2. thread[t].next \in Nat \ {0} BY DEF ProcessTypes
<1>3. thread[t].next \in 1..Len(list) BY <1>1, <1>2 DEF HasNext
<1>4. list[thread[t].next] \in Process BY <1>1, <1>3
<1> QED BY <1>1, <1>3, <1>4 DEF Visits, Process

LEMMA AdvancesTyped ==
  ASSUME ProcessTypes, NEW t \in {"sip", "gui"}, Advances(t),
         UNCHANGED <<call, phase, lists>>, proc' \in [Call -> [Kind -> ProcessState]]
  PROVE  /\ ProcessTypes'
         /\ \A u \in {"sip", "gui"} : thread'[u].at = thread[u].at /\ thread'[u].list = thread[u].list
         /\ \A u \in {"sip", "gui"} \ {t} : thread'[u] = thread[u]
         /\ thread'[t].next = thread[t].next + 1
BY DEF ProcessTypes, Advances

\* join: the process visited is dead then, in one way or the other.
LEMMA JoinInv ==
  ASSUME ProcessInv, NEW t \in {"sip", "gui"}, JoinReturns(t) \/ JoinTimesOut(t)
  PROVE  ProcessInv'
<1> USE DEF callVars, managerVars
<1> DEFINE p == Visits(t)
<1>1. Stopping(t) /\ HasNext(t) /\ Advances(t) /\ UNCHANGED <<call, phase, lists>>
  BY DEF JoinReturns, JoinTimesOut
<1>2. p.call \in Call /\ p.kind \in Kind /\ thread[t].next \in DOMAIN lists[thread[t].list]
  BY <1>1, VisitedTyped DEF ProcessInv, Stopping
<1>3. Ending /\ proc'[p.call][p.kind] = "dead"
  <2>1. CASE JoinReturns(t)
    BY <2>1, <1>2 DEF JoinReturns, StateOf, Ending, ProcessInv, ProcessTypes
  <2>2. CASE JoinTimesOut(t)
    <3>1. proc' = [proc EXCEPT ![p.call][p.kind] = "dead"] /\ proc[p.call][p.kind] \in Alive
      BY <2>2 DEF JoinTimesOut, Killed, StateOf
    <3>2. proc'[p.call][p.kind] = "dead"
      BY <1>2, <3>1 DEF ProcessInv, ProcessTypes
    <3> QED BY <1>2, <3>1, <3>2, OneEnds
  <2> QED BY <2>1, <2>2
<1>4. /\ ProcessTypes'
      /\ \A u \in {"sip", "gui"} : thread'[u].at = thread[u].at /\ thread'[u].list = thread[u].list
      /\ \A u \in {"sip", "gui"} \ {t} : thread'[u] = thread[u]
      /\ thread'[t].next = thread[t].next + 1
  BY <1>1, <1>3, AdvancesTyped DEF ProcessInv, Ending
<1> USE DEF ProcessInv, Open, Sip, Latest
<1>5. LastCallOnly' BY <1>1, <1>3 DEF LastCallOnly, Ending
<1>6. CleanBetween' BY <1>1, <1>3, <1>4 DEF CleanBetween, Ending
<1>7. StartsItsOwn' BY <1>1, <1>4 DEF StartsItsOwn
<1>8. Listed'
  <2> SUFFICES ASSUME Open' PROVE Listed'
    BY DEF Listed
  <2>1. Open BY <1>4
  <2>2. t = "sip" /\ Sip({"clearing"}) /\ thread["sip"].list = Len(lists)
    BY <2>1, <1>1 DEF Stopping, Listed
  <2>3. \A j \in DOMAIN Latest : Latest[j].call \in Call /\ Latest[j].kind \in Kind
    BY LatestTyped
  <2>4. ASSUME NEW j \in DOMAIN Latest, j < thread'["sip"].next
        PROVE  proc'[Latest[j].call][Latest[j].kind] = "dead"
    <3>1. CASE j < thread["sip"].next
      BY <3>1, <2>1, <2>2, <2>3, <1>3 DEF Listed, Ending
    <3>2. CASE j = thread["sip"].next
      BY <3>2, <2>2, <1>3 DEF Visits
    <3> QED BY <3>1, <3>2, <2>2, <2>4, <1>4 DEF ProcessTypes
  <2>5. \A k \in Kind : call \in Call /\ proc'[call][k] \notin Ended =>
          \E j \in DOMAIN Latest : Latest[j] = [call |-> call, kind |-> k]
    BY <2>1, <1>3 DEF Listed, Ending
  <2> QED BY <2>1, <2>2, <2>4, <2>5, <1>1, <1>4 DEF Listed
<1> QED BY <1>4, <1>5, <1>6, <1>7, <1>8

LEMMA CallAgreedInv == ASSUME ProcessInv, CallAgreed PROVE ProcessInv'
<1> USE Constants DEF ProcessInv, CallAgreed, Open, Sip, Latest
<1>1. ProcessTypes' BY DEF ProcessTypes
<1>2. \A n \in Call, k \in Kind : proc[n][k] \in Ended BY DEF CleanBetween
<1>3. LastCallOnly' BY <1>2 DEF LastCallOnly
<1>4. CleanBetween' BY <1>2 DEF CleanBetween
<1>5. StartsItsOwn' BY DEF StartsItsOwn
<1>6. Listed' BY <1>1, <1>2 DEF Listed, ProcessTypes
<1> QED BY <1>1, <1>3, <1>4, <1>5, <1>6

LEMMA JoinRaisesInv == ASSUME ProcessInv, JoinRaises PROVE ProcessInv'
<1> USE DEF ProcessInv, JoinRaises, Open, Sip, Latest, callVars, managerVars, Goes, At
<1>1. ProcessTypes' BY DEF ProcessTypes, Place
<1>2. LastCallOnly' BY DEF LastCallOnly
<1>3. CleanBetween' BY <1>1 DEF CleanBetween, ProcessTypes
<1>4. StartsItsOwn' BY <1>1 DEF StartsItsOwn, ProcessTypes
<1>5. Listed' BY <1>1 DEF Listed, ProcessTypes
<1> QED BY <1>1, <1>2, <1>3, <1>4, <1>5

\* A list is appended and the ones before stay: no thread loses the one it is in.
LEMMA PortsCleared ==
  ASSUME ProcessTypes, ClearPorts
  PROVE  /\ lists' \in Seq(Seq(Process)) /\ Len(lists') = Len(lists) + 1
         /\ Latest' = <<>>
         /\ \A i \in 1..Len(lists) : lists'[i] = lists[i]
BY DEF ProcessTypes, ClearPorts, Latest

LEMMA PostsPlaces ==
  ASSUME ProcessTypes, NEW cb, PostsTo(thread["gui"].at, cb)
  PROVE  /\ thread' \in [{"sip", "gui"} -> [at : Place, list : Nat, next : Nat \ {0}]]
         /\ thread'["gui"] = thread["gui"]
         /\ IF Open THEN thread'["sip"].at = "loop"
            ELSE thread'["sip"].at \in {"stranded", "raised"}
BY DEF ProcessTypes, PostsTo, Goes, At, Open, Place

LEMMA ClearEndsInv == ASSUME ProcessInv, ClearEnds PROVE ProcessInv'
<1> USE DEF ProcessInv, callVars
<1>1. /\ thread' \in [{"sip", "gui"} -> [at : Place, list : Nat, next : Nat \ {0}]]
      /\ thread'["gui"] = thread["gui"]
      /\ thread'["sip"].at \in {"loop", "stranded", "raised"}
      /\ Open => thread'["sip"].at = "loop"
  BY PostsPlaces DEF ClearEnds, Goes, At, Place, ProcessTypes
<1>2. /\ lists' \in Seq(Seq(Process)) /\ Len(lists') = Len(lists) + 1
      /\ Latest' = <<>>
      /\ \A i \in 1..Len(lists) : lists'[i] = lists[i]
  BY PortsCleared DEF ClearEnds
<1>3. UNCHANGED <<call, phase, proc>> BY DEF ClearEnds
<1>4. ProcessTypes' BY <1>1, <1>2, <1>3 DEF ProcessTypes
<1>5. LastCallOnly' BY <1>3 DEF LastCallOnly
<1>6. ASSUME Open, NEW k \in Kind, call \in Call PROVE proc[call][k] \in Ended
  <2> SUFFICES ASSUME proc[call][k] \notin Ended PROVE FALSE
    OBVIOUS
  <2>1. thread["sip"].list = Len(lists) /\ ~HasNext("sip") /\ Sip({"clearing"})
    BY <1>6 DEF Listed, ClearEnds, Sip
  <2>2. PICK j \in DOMAIN Latest : Latest[j] = [call |-> call, kind |-> k]
    BY <1>6 DEF Listed
  <2>3. j < thread["sip"].next
    BY <2>1, LatestTyped DEF HasNext, Latest, ProcessTypes
  <2> QED BY <2>1, <2>2, <2>3, <1>6 DEF Listed, Ended
<1>7. CleanBetween'
  <2>1. Open' => Open BY <1>1 DEF Open
  <2> QED BY <2>1, <1>6, <1>1, <1>2, <1>3 DEF CleanBetween, LastCallOnly
<1>8. StartsItsOwn' BY <1>1 DEF StartsItsOwn, Sip
<1>9. Listed' BY <1>1, <1>3, <1>6 DEF Listed, Open, Sip
<1> QED BY <1>4, <1>5, <1>7, <1>8, <1>9

LEMMA StopEndsInv ==
  ASSUME ProcessInv, NEW t \in {"sip", "gui"}, StopEnds(t)
  PROVE  ProcessInv'
<1> USE DEF ProcessInv, callVars, Open, Sip
<1>1. /\ thread' = [thread EXCEPT ![t] = At("over")] /\ thread[t].at = "ending"
      /\ UNCHANGED <<call, phase, proc>>
  BY DEF StopEnds, Goes
<1>2. /\ lists' \in Seq(Seq(Process)) /\ Len(lists') = Len(lists) + 1
      /\ Latest' = <<>>
      /\ \A i \in 1..Len(lists) : lists'[i] = lists[i]
  BY PortsCleared DEF StopEnds
<1>3. ProcessTypes' BY <1>1, <1>2 DEF ProcessTypes, At, Place
<1>4. LastCallOnly' BY <1>1 DEF LastCallOnly
<1>5. CleanBetween' BY <1>1, <1>2 DEF CleanBetween, ProcessTypes, At
<1>6. StartsItsOwn'
  <2>1. Sip({"building"})' => Sip({"building"})
    BY <1>1 DEF ProcessTypes, At
  <2>2. Sip({"starting"})' =>
          /\ Sip({"starting"}) /\ thread'["sip"].list = thread["sip"].list
          /\ thread["sip"].list \in 1..Len(lists)
    BY <1>1 DEF ProcessTypes, At
  <2>3. Sip({"starting"})' => lists'[thread'["sip"].list] = lists[thread["sip"].list]
    BY <2>2, <1>2
  <2>4. DOMAIN Latest' = {} BY <1>2
  <2>5. Sip({"building", "starting"})' => phase' = "live"
    BY <2>1, <2>2, <1>1 DEF StartsItsOwn
  <2>6. Sip({"starting"})' => \A j \in DOMAIN lists'[thread'["sip"].list] :
          lists'[thread'["sip"].list][j].call = call'
    BY <2>2, <2>3, <1>1 DEF StartsItsOwn
  <2> QED BY <2>4, <2>5, <2>6 DEF StartsItsOwn
<1>7. Listed' BY <1>1 DEF Listed, ProcessTypes, At
<1> QED BY <1>3, <1>4, <1>5, <1>6, <1>7

LEMMA StreamStartsInv == ASSUME ProcessInv, StreamStarts PROVE ProcessInv'
<1> USE DEF ProcessInv, Open, Sip, Latest
<1>1. /\ thread' = [thread EXCEPT !["sip"] = At("building")] /\ thread["sip"].at = "loop"
      /\ phase = "agreed" /\ phase' = "live" /\ UNCHANGED <<call, proc, lists>>
  BY DEF StreamStarts, Goes
<1>2. Latest = <<>> /\ \A n \in Call, k \in Kind : proc[n][k] \in Ended
  BY <1>1 DEF CleanBetween
<1>3. ProcessTypes' BY <1>1 DEF ProcessTypes, At, Place
<1>4. LastCallOnly' BY <1>1 DEF LastCallOnly
<1>5. CleanBetween' BY <1>1 DEF CleanBetween
<1>6. StartsItsOwn' BY <1>1, <1>2 DEF StartsItsOwn, ProcessTypes, At
<1>7. Listed' BY <1>1, <1>2 DEF Listed, ProcessTypes, At
<1> QED BY <1>3, <1>4, <1>5, <1>6, <1>7

LEMMA LastExtended ==
  ASSUME NEW S, NEW all \in Seq(Seq(S)), Len(all) > 0, NEW x \in S,
         NEW new, new = [all EXCEPT ![Len(all)] = Append(@, x)]
  PROVE  /\ new \in Seq(Seq(S)) /\ Len(new) = Len(all)
         /\ new[Len(new)] = Append(all[Len(all)], x)
<1>1. Len(all) \in DOMAIN all /\ all[Len(all)] \in Seq(S) OBVIOUS
<1>2. Append(all[Len(all)], x) \in Seq(S) BY <1>1
<1>3. new \in Seq(Seq(S)) BY <1>1, <1>2
<1>4. Len(new) = Len(all) BY <1>1, <1>2
<1> QED BY <1>1, <1>2, <1>3, <1>4

LEMMA BuildNextInv == ASSUME ProcessInv, BuildNext PROVE ProcessInv'
<1> USE DEF ProcessInv, Open, Sip
<1> DEFINE s == thread["sip"]
           k == Kinds[s.next]
           p == [call |-> call, kind |-> k]
<1>1. /\ s.at = "building" /\ s.next \in 1..2 /\ Advances("sip")
      /\ UNCHANGED <<call, phase>>
  BY Constants DEF BuildNext, callVars, ProcessTypes
<1>2. phase = "live" /\ call \in Call /\ k \in Kind /\ p \in Process
  BY <1>1, Constants DEF StartsItsOwn, ProcessTypes, Process
<1>3. \/ UNCHANGED <<proc, lists>>
      \/ /\ \E state \in {"broken", "built"} : proc' = [proc EXCEPT ![call][k] = state]
         /\ lists' = [lists EXCEPT ![Len(lists)] = Append(@, p)]
  BY DEF BuildNext, Present
<1>4. proc' \in [Call -> [Kind -> ProcessState]]
  <2>1. CASE UNCHANGED proc BY <2>1 DEF ProcessTypes
  <2>2. ASSUME NEW state \in {"broken", "built"}, proc' = [proc EXCEPT ![call][k] = state]
        PROVE  proc' \in [Call -> [Kind -> ProcessState]]
    <3>1. state \in ProcessState BY DEF ProcessState
    <3> QED BY <3>1, <2>2, <1>2 DEF ProcessTypes
  <2> QED BY <1>3, <2>1, <2>2
<1>5. Latest \in Seq(Process) BY LatestTyped
<1>6. /\ lists' \in Seq(Seq(Process)) /\ Len(lists') = Len(lists)
      /\ Latest' = Latest \/ Latest' = Append(Latest, p)
      /\ UNCHANGED lists => Latest' = Latest
      /\ ~UNCHANGED <<proc, lists>> => Latest' = Append(Latest, p)
  <2>1. lists \in Seq(Seq(Process)) /\ Len(lists) > 0 BY DEF ProcessTypes
  <2>2. CASE UNCHANGED <<proc, lists>> BY <2>1, <2>2 DEF Latest
  <2>3. CASE lists' = [lists EXCEPT ![Len(lists)] = Append(@, p)]
    <3>1. /\ lists' \in Seq(Seq(Process)) /\ Len(lists') = Len(lists)
          /\ Latest' = Append(Latest, p)
      BY <2>1, <2>3, <1>2, LastExtended DEF Latest
    <3>2. Latest' # Latest BY <3>1, <1>2, <1>5
    <3> QED BY <3>1, <3>2 DEF Latest
  <2> QED BY <1>3, <2>2, <2>3
<1>7. /\ thread' \in [{"sip", "gui"} -> [at : Place, list : Nat, next : Nat \ {0}]]
      /\ thread'["gui"] = thread["gui"] /\ thread'["sip"].at = "building"
  BY <1>1 DEF ProcessTypes, Advances
<1>8. ProcessTypes' BY <1>1, <1>4, <1>6, <1>7 DEF ProcessTypes
<1>9. LastCallOnly' BY <1>1, <1>2, <1>3, <1>4 DEF LastCallOnly, ProcessTypes
<1>10. CleanBetween' BY <1>1, <1>2 DEF CleanBetween
<1>11. StartsItsOwn'
  <2>1. \A j \in DOMAIN Latest : Latest[j].call = call BY <1>1 DEF StartsItsOwn
  <2>2. \A j \in DOMAIN Latest' : Latest'[j].call = call
    <3>1. CASE Latest' = Latest BY <3>1, <2>1
    <3>2. CASE Latest' = Append(Latest, p) BY <3>2, <2>1, <1>2, <1>5
    <3> QED BY <3>1, <3>2, <1>6
  <2> QED BY <2>2, <1>1, <1>2, <1>7 DEF StartsItsOwn
<1>12. Listed'
  <2> SUFFICES ASSUME Open' PROVE Listed'
    BY DEF Listed
  <2>1. Open BY <1>7
  <2>2. ASSUME NEW l \in Kind, proc'[call][l] \notin Ended
        PROVE  \E j \in DOMAIN Latest' : Latest'[j] = [call |-> call, kind |-> l]
    <3>1. CASE proc[call][l] \notin Ended
      <4>1. PICK j \in DOMAIN Latest : Latest[j] = [call |-> call, kind |-> l]
        BY <3>1, <2>1, <1>2 DEF Listed
      <4>2. CASE Latest' = Latest BY <4>1, <4>2
      <4>3. CASE Latest' = Append(Latest, p)
        <5>1. j \in DOMAIN Latest' /\ Latest'[j] = Latest[j] BY <4>3, <1>2, <1>5
        <5> QED BY <4>1, <5>1
      <4> QED BY <4>2, <4>3, <1>6
    <3>2. CASE proc[call][l] \in Ended
      <4>1. l = k /\ ~UNCHANGED <<proc, lists>>
        BY <3>2, <2>2, <1>2, <1>3 DEF ProcessTypes
      <4>2. Latest' = Append(Latest, p) BY <4>1, <1>6
      <4>3. Len(Latest') \in DOMAIN Latest' /\ Latest'[Len(Latest')] = p
        BY <4>2, <1>2, <1>5
      <4> QED BY <4>1, <4>3
    <3> QED BY <3>1, <3>2
  <2> QED BY <2>2, <1>1, <1>7 DEF Listed
<1> QED BY <1>8, <1>9, <1>10, <1>11, <1>12

LEMMA StartLoopInv == ASSUME ProcessInv, StartLoop PROVE ProcessInv'
<1> USE DEF ProcessInv, Open, Sip, Latest
<1>1. /\ thread["sip"].at = "building"
      /\ thread' = [thread EXCEPT !["sip"] = [at |-> "starting", list |-> Len(lists), next |-> 1]]
      /\ UNCHANGED <<call, phase, proc, lists>>
  BY DEF StartLoop, Goes, Present, callVars, managerVars
<1>2. Len(lists) \in Nat BY DEF ProcessTypes
<1>3. ProcessTypes' BY <1>1, <1>2 DEF ProcessTypes, Place
<1>4. LastCallOnly' BY <1>1 DEF LastCallOnly
<1>5. CleanBetween' BY <1>1 DEF CleanBetween, StartsItsOwn
<1>6. StartsItsOwn' BY <1>1 DEF StartsItsOwn, ProcessTypes
<1>7. Listed' BY <1>1 DEF Listed, ProcessTypes
<1> QED BY <1>3, <1>4, <1>5, <1>6, <1>7

LEMMA StartNextInv == ASSUME ProcessInv, StartNext PROVE ProcessInv'
<1> USE DEF ProcessInv, Open, Sip
<1> DEFINE p == Visits("sip")
<1>1. /\ thread["sip"].at = "starting" /\ HasNext("sip") /\ Advances("sip")
      /\ UNCHANGED <<call, phase, lists>>
      /\ \E outcome \in {"run", "dead"} : proc' = [proc EXCEPT ![p.call][p.kind] = outcome]
  BY DEF StartNext, callVars, managerVars
<1>2. p \in Process /\ p.kind \in Kind /\ thread["sip"].next \in DOMAIN lists[thread["sip"].list]
  BY <1>1, VisitedTyped
<1>3. phase = "live" /\ call \in Call /\ p.call = call
  BY <1>1, <1>2 DEF StartsItsOwn, ProcessTypes, Visits
<1>4. /\ proc' \in [Call -> [Kind -> ProcessState]]
      /\ \A n \in Call, k \in Kind :
           proc'[n][k] \notin Ended => proc[n][k] \notin Ended \/ (n = call /\ k = p.kind)
  <2>1. PICK outcome \in {"run", "dead"} : proc' = [proc EXCEPT ![p.call][p.kind] = outcome]
    BY <1>1
  <2>2. outcome \in ProcessState BY DEF ProcessState, Alive, Ended
  <2> QED BY <2>1, <2>2, <1>2, <1>3 DEF ProcessTypes
<1>5. /\ ProcessTypes'
      /\ thread'["sip"].at = "starting" /\ thread'["sip"].list = thread["sip"].list
      /\ thread'["gui"] = thread["gui"]
  BY <1>1, <1>4, AdvancesTyped
<1>6. LastCallOnly' BY <1>1, <1>4 DEF LastCallOnly
<1>7. CleanBetween' BY <1>1, <1>3 DEF CleanBetween
<1>8. StartsItsOwn' BY <1>1, <1>3, <1>5 DEF StartsItsOwn
<1>9. Listed'
  <2> SUFFICES ASSUME Open' PROVE Listed'
    BY DEF Listed
  <2>1. Open /\ thread["sip"].list = Len(lists) BY <1>1, <1>5 DEF Listed
  <2>2. thread["sip"].next \in DOMAIN Latest /\ Latest[thread["sip"].next] = p
    BY <2>1, <1>2 DEF Visits, Latest
  <2>3. p = [call |-> call, kind |-> p.kind] BY <1>2, <1>3 DEF Process
  <2>4. ASSUME NEW k \in Kind, proc'[call][k] \notin Ended
        PROVE  \E j \in DOMAIN Latest : Latest[j] = [call |-> call, kind |-> k]
    BY <2>1, <2>2, <2>3, <2>4, <1>3, <1>4 DEF Listed
  <2> QED BY <2>1, <2>4, <1>1, <1>5 DEF Listed, Latest
<1> QED BY <1>5, <1>6, <1>7, <1>8, <1>9

LEMMA StreamShownInv == ASSUME ProcessInv, StreamShown PROVE ProcessInv'
<1> USE DEF ProcessInv, Sip, Latest
<1>1. /\ thread["sip"].at = "starting" /\ UNCHANGED <<call, phase, proc, lists>>
  BY DEF StreamShown, callVars, managerVars
<1>2. /\ thread' \in [{"sip", "gui"} -> [at : Place, list : Nat, next : Nat \ {0}]]
      /\ thread'["gui"] = thread["gui"]
      /\ thread'["sip"].at \in {"loop", "stranded", "raised"}
      /\ Open => thread'["sip"].at = "loop"
  BY PostsPlaces DEF StreamShown
<1>3. ProcessTypes' BY <1>1, <1>2 DEF ProcessTypes
<1>4. LastCallOnly' BY <1>1 DEF LastCallOnly
<1>5. CleanBetween' BY <1>1 DEF CleanBetween, StartsItsOwn
<1>6. StartsItsOwn' BY <1>2 DEF StartsItsOwn
<1>7. Listed' BY <1>1, <1>2 DEF Listed, Open
<1> QED BY <1>3, <1>4, <1>5, <1>6, <1>7

LEMMA CallEndsInv == ASSUME ProcessInv, CallEnds PROVE ProcessInv'
<1> USE DEF ProcessInv, Open, Sip, Latest
<1>1. /\ thread["sip"].at = "loop" /\ phase' = "none" /\ UNCHANGED <<call, proc, lists>>
      /\ thread' = [thread EXCEPT !["sip"] = [at |-> "clearing", list |-> Len(lists), next |-> 1]]
  BY DEF CallEnds, EnterStop, Goes, Present
<1>2. Len(lists) \in Nat BY DEF ProcessTypes
<1>3. ProcessTypes' BY <1>1, <1>2 DEF ProcessTypes, Place
<1>4. LastCallOnly' BY <1>1 DEF LastCallOnly
<1>5. CleanBetween' BY <1>1 DEF CleanBetween, ProcessTypes
<1>6. StartsItsOwn' BY <1>1 DEF StartsItsOwn, ProcessTypes
<1>7. Listed' BY <1>1, LatestTyped DEF Listed, ProcessTypes
<1> QED BY <1>3, <1>4, <1>5, <1>6, <1>7

LEMMA SipEndsInv == ASSUME ProcessInv, SipEnds PROVE ProcessInv'
<1> USE DEF ProcessInv, Open, Sip, Latest
<1>1. /\ UNCHANGED <<call, phase, proc, lists>>
      /\ thread' = [thread EXCEPT !["sip"] = [at |-> "ending", list |-> Len(lists), next |-> 1],
                                  !["gui"] = IF @.at = "loop" THEN At("over") ELSE @]
  BY DEF SipEnds, Present, callVars
<1>2. Len(lists) \in Nat BY DEF ProcessTypes
<1>3. /\ ProcessTypes' /\ thread'["gui"].at # "loop" /\ thread'["sip"].at = "ending"
  BY <1>1, <1>2 DEF ProcessTypes, Place, At
<1>4. LastCallOnly' BY <1>1 DEF LastCallOnly
<1>5. CleanBetween' BY <1>1, <1>3 DEF CleanBetween
<1>6. StartsItsOwn' BY <1>3 DEF StartsItsOwn
<1>7. Listed' BY <1>3 DEF Listed
<1> QED BY <1>3, <1>4, <1>5, <1>6, <1>7

LEMMA WindowClosedInv == ASSUME ProcessInv, WindowClosed PROVE ProcessInv'
<1> USE DEF ProcessInv, Open, Sip, Latest
<1>1. /\ UNCHANGED <<call, phase, proc, lists>>
      /\ thread' = [thread EXCEPT !["gui"] = [at |-> "ending", list |-> Len(lists), next |-> 1]]
  BY DEF WindowClosed, EnterStop, Goes, Present, callVars
<1>2. Len(lists) \in Nat BY DEF ProcessTypes
<1>3. /\ ProcessTypes' /\ thread'["gui"].at # "loop" /\ thread'["sip"] = thread["sip"]
  BY <1>1, <1>2 DEF ProcessTypes, Place
<1>4. LastCallOnly' BY <1>1 DEF LastCallOnly
<1>5. CleanBetween' BY <1>1, <1>3 DEF CleanBetween
<1>6. StartsItsOwn' BY <1>1, <1>3 DEF StartsItsOwn
<1>7. Listed' BY <1>3 DEF Listed
<1> QED BY <1>3, <1>4, <1>5, <1>6, <1>7

LEMMA ProcessNext == ProcessInv /\ [Next]_vars => ProcessInv'
<1> SUFFICES ASSUME ProcessInv, [Next]_vars PROVE ProcessInv'
  OBVIOUS
<1> USE DEF callVars, managerVars
<1>1. CASE SipStep
  BY <1>1, StreamStartsInv, BuildNextInv, StartLoopInv, StartNextInv, StreamShownInv, SipEndsInv,
     ClearEndsInv, StopEndsInv, JoinInv DEF SipStep
<1>2. CASE GuiStep
  <2>1. CASE ShowScreen BY <2>1, ProcessRests DEF ShowScreen, processVars
  <2> QED BY <2>1, <1>2, StopEndsInv, JoinInv, JoinRaisesInv DEF GuiStep
<1>3. CASE Outside
  <2>1. CASE ServerCloses BY <2>1, ProcessRests DEF ServerCloses, processVars
  <2>2. CASE EndCallClicked BY <2>2, ProcessRests DEF EndCallClicked, processVars
  <2> QED BY <2>1, <2>2, <1>3, CallAgreedInv, CallEndsInv, WindowClosedInv DEF Outside
<1>4. ASSUME NEW n \in Call, ProcessStep(n) \/ CameraFails(n) PROVE ProcessInv'
  BY <1>4, ProcessStepsInv
<1>5. ASSUME NEW n \in Call, QueueStep(n) PROVE ProcessInv'
  BY <1>5, ProcessRests DEF QueueStep, FrameReceived, WriteBegins, WriteEnds, processVars
<1>6. ASSUME NEW n \in Call, PlayerStep(n) PROVE ProcessInv'
  BY <1>6, ProcessRests
  DEF PlayerStep, PlayerLooks, PlayerFetches, PlayerReads, PlayerPlays, PlayerGoes, processVars
<1>7. CASE UNCHANGED vars BY <1>7, ProcessRests DEF vars, processVars
<1> QED BY <1>1, <1>2, <1>3, <1>4, <1>5, <1>6, <1>7 DEF Next

THEOREM ProcessesStayInv == Spec => []ProcessInv
BY ProcessInit, ProcessNext, PTL DEF Spec

\* OneProcessOfAKind for every number of calls: RTPManager.stop leaves nothing
\* alive for the processes of the next call to meet (rtp_manager.py).
THEOREM ProcessesAreAlone == Spec => []OneProcessOfAKind
<1>1. ProcessInv => OneProcessOfAKind
  BY DEF ProcessInv, LastCallOnly, OneProcessOfAKind, Alive, Ended
<1> QED BY <1>1, ProcessesStayInv, PTL

-----------------------------------------------------------------------------
(* The invariant of the frames *)

PlayerPlace == {"none", "top", "fetch", "reading", "holding", "done"}
Round == 0..MaxCalls

FrameTypes ==
  /\ pipe \in Seq(Call)
  /\ player \in [Call -> [at : PlayerPlace, frame : Round]]
  /\ shown \in [Call -> Round]

\* The frames wait in the order of their calls, and none is of a call to come.
PipeInOrder ==
  /\ \A i \in DOMAIN pipe : pipe[i] <= call
  /\ \A i, j \in DOMAIN pipe : i <= j => pipe[i] <= pipe[j]

\* What has left the pipe is not younger than what is still in it, and what a
\* thread has in its hands is not older than what it has played.
PlayedInOrder ==
  \A n \in Call :
    /\ shown[n] <= call /\ player[n].frame <= call
    /\ \A i \in DOMAIN pipe : shown[n] <= pipe[i] /\ player[n].frame <= pipe[i]
    /\ player[n].at \in {"reading", "holding"} => shown[n] <= player[n].frame

FrameInv == FrameTypes /\ PipeInOrder /\ PlayedInOrder

LEMMA FrameInit == Init => FrameInv
BY Constants
DEF Init, FrameInv, FrameTypes, PipeInOrder, PlayedInOrder, PlayerPlace, Round

LEMMA FrontAndTail ==
  ASSUME NEW S, NEW s \in Seq(S), s # <<>>
  PROVE  /\ Len(s) \in Nat \ {0} /\ Head(s) = s[1] /\ s[1] \in S
         /\ SubSeq(s, 1, Len(s) - 1) \in Seq(S) /\ Len(SubSeq(s, 1, Len(s) - 1)) = Len(s) - 1
         /\ \A i \in 1..(Len(s) - 1) : SubSeq(s, 1, Len(s) - 1)[i] = s[i]
         /\ Tail(s) \in Seq(S) /\ Len(Tail(s)) = Len(s) - 1
         /\ \A i \in 1..(Len(s) - 1) : Tail(s)[i] = s[i + 1]
<1>1. Len(s) \in Nat \ {0} OBVIOUS
<1>2. \A i \in 1..(Len(s) - 1) : s[i] \in S BY <1>1
<1>3. SubSeq(s, 1, Len(s) - 1) = [i \in 1..(Len(s) - 1) |-> s[i]] BY <1>1
<1>4. /\ SubSeq(s, 1, Len(s) - 1) \in Seq(S) /\ Len(SubSeq(s, 1, Len(s) - 1)) = Len(s) - 1
      /\ \A i \in 1..(Len(s) - 1) : SubSeq(s, 1, Len(s) - 1)[i] = s[i]
  <2>1. PICK m \in Nat : m = Len(s) - 1 BY <1>1
  <2> DEFINE front == [i \in 1..m |-> s[i]]
  <2>2. front \in [1..m -> S] BY <2>1, <1>2
  <2>3. front \in Seq(S) /\ Len(front) = m BY <2>1, <2>2
  <2> QED BY <2>1, <2>3, <1>3
<1>5. Head(s) = s[1] /\ s[1] \in S BY <1>1
<1>6. Tail(s) \in Seq(S) /\ Len(Tail(s)) = Len(s) - 1 BY <1>1
<1>7. \A i \in 1..(Len(s) - 1) : Tail(s)[i] = s[i + 1] BY <1>1
<1> QED BY <1>1, <1>4, <1>5, <1>6, <1>7

\* A pipe that loses its last frame, or nothing.
LEMMA FramesLost ==
  ASSUME FrameInv, call \in Nat, UNCHANGED <<player, shown>>, call' \in Nat, call' >= call,
         \/ UNCHANGED pipe
         \/ pipe # <<>> /\ pipe' = SubSeq(pipe, 1, Len(pipe) - 1)
  PROVE  FrameInv'
<1> USE DEF FrameInv
<1>1. /\ pipe' \in Seq(Call) /\ DOMAIN pipe' \subseteq DOMAIN pipe
      /\ \A i \in DOMAIN pipe' : pipe'[i] = pipe[i]
  <2>1. CASE UNCHANGED pipe BY <2>1 DEF FrameTypes
  <2>2. CASE pipe # <<>> /\ pipe' = SubSeq(pipe, 1, Len(pipe) - 1)
    <3>1. pipe \in Seq(Call) BY DEF FrameTypes
    <3>2. /\ Len(pipe) \in Nat \ {0} /\ pipe' \in Seq(Call) /\ Len(pipe') = Len(pipe) - 1
          /\ \A i \in 1..(Len(pipe) - 1) : pipe'[i] = pipe[i]
      BY <3>1, <2>2, FrontAndTail
    <3>3. DOMAIN pipe' = 1..(Len(pipe) - 1) /\ DOMAIN pipe = 1..Len(pipe) BY <3>1, <3>2
    <3> QED BY <3>2, <3>3
  <2> QED BY <2>1, <2>2
<1>2. FrameTypes' BY <1>1 DEF FrameTypes
<1>3. \A i \in DOMAIN pipe' : pipe'[i] \in Nat BY <1>1, Constants
<1>4. PipeInOrder' BY <1>1, <1>3 DEF PipeInOrder
<1>5. \A n \in Call : shown[n] \in Nat /\ player[n].frame \in Nat
  BY Constants DEF FrameTypes, Round
<1>6. PlayedInOrder' BY <1>1, <1>3, <1>5 DEF PlayedInOrder
<1> QED BY <1>2, <1>4, <1>6

\* Only the receiver of the last call writes.
LEMMA WriteBeginsFrames ==
  ASSUME ProcessInv, FrameInv, NEW n \in Call, WriteBegins(n)
  PROVE  FrameInv'
<1> USE DEF FrameInv
<1>1. n = call /\ call \in Nat
  <2>1. proc[n]["recv"] \notin Ended /\ "recv" \in Kind BY Constants DEF WriteBegins, Ended
  <2> QED BY <2>1, Constants DEF ProcessInv, LastCallOnly
<1>2. pipe' = Append(pipe, n) /\ UNCHANGED <<call, player, shown>>
  BY DEF WriteBegins, callVars, guiVars
<1>3. /\ pipe' \in Seq(Call) /\ Len(pipe') = Len(pipe) + 1 /\ Len(pipe) \in Nat
      /\ \A i \in DOMAIN pipe' : pipe'[i] = IF i \in DOMAIN pipe THEN pipe[i] ELSE call
  BY <1>1, <1>2 DEF FrameTypes
<1>4. \A i \in DOMAIN pipe' : pipe'[i] \in Nat BY <1>3, Constants
<1>5. FrameTypes' BY <1>2, <1>3 DEF FrameTypes
<1>6. PipeInOrder' BY <1>1, <1>2, <1>3, <1>4 DEF PipeInOrder, FrameTypes
<1>7. PlayedInOrder' BY <1>1, <1>2, <1>3 DEF PlayedInOrder
<1> QED BY <1>5, <1>6, <1>7

\* What a thread does with the frame it has in its hands.
LEMMA PlayerMovesFrames ==
  ASSUME FrameInv, call \in Nat, UNCHANGED <<call, pipe>>, NEW n \in Call,
         NEW place \in PlayerPlace, NEW frame \in Round, NEW played \in Round,
         player' = [player EXCEPT ![n] = [at |-> place, frame |-> frame]],
         shown' = [shown EXCEPT ![n] = played],
         \/ frame = 0 /\ place \notin {"reading", "holding"}
         \/ frame = player[n].frame /\ player[n].at \in {"reading", "holding"},
         \/ played = shown[n]
         \/ played = player[n].frame /\ place \notin {"reading", "holding"}
  PROVE  FrameInv'
<1> USE DEF FrameInv
<1>1. FrameTypes' BY DEF FrameTypes
<1>2. PipeInOrder' BY DEF PipeInOrder
<1>3. \A m \in Call : player'[m] = IF m = n THEN [at |-> place, frame |-> frame] ELSE player[m]
  BY DEF FrameTypes
<1>4. \A m \in Call : shown'[m] = IF m = n THEN played ELSE shown[m]
  BY DEF FrameTypes
<1>5. \A i \in DOMAIN pipe : pipe[i] \in Nat /\ 0 <= pipe[i] BY Constants DEF FrameTypes
<1>6. PlayedInOrder' BY <1>3, <1>4, <1>5 DEF PlayedInOrder
<1> QED BY <1>1, <1>2, <1>6

\* The first frame is taken out.
LEMMA FrameTaken ==
  ASSUME FrameInv, call \in Nat, UNCHANGED <<call, shown>>, NEW n \in Call,
         pipe # <<>>, pipe' = Tail(pipe),
         player' = [player EXCEPT ![n] = [at |-> "reading", frame |-> Head(pipe)]]
  PROVE  FrameInv'
<1> USE DEF FrameInv
<1>1. /\ Len(pipe) \in Nat \ {0} /\ Head(pipe) = pipe[1] /\ pipe[1] \in Call
      /\ pipe' \in Seq(Call) /\ Len(pipe') = Len(pipe) - 1
      /\ \A i \in 1..(Len(pipe) - 1) : pipe'[i] = pipe[i + 1]
  BY FrontAndTail DEF FrameTypes
<1>2. DOMAIN pipe' = 1..(Len(pipe) - 1) /\ DOMAIN pipe = 1..Len(pipe) BY <1>1 DEF FrameTypes
<1>3. ASSUME NEW i \in DOMAIN pipe PROVE pipe[i] \in Nat /\ pipe[1] <= pipe[i]
  <2>1. 1 \in DOMAIN pipe /\ 1 <= i BY <1>1, <1>2
  <2>2. pipe[i] \in Call BY DEF FrameTypes
  <2> QED BY <2>1, <2>2, Constants DEF PipeInOrder
<1>4. \A m \in Call : player'[m] = IF m = n THEN [at |-> "reading", frame |-> pipe[1]] ELSE player[m]
  BY <1>1 DEF FrameTypes
<1>5. FrameTypes'
  <2>1. pipe[1] \in Round BY <1>1, Constants DEF Round
  <2> QED BY <2>1, <1>1 DEF FrameTypes, PlayerPlace
<1>6. PipeInOrder' BY <1>1, <1>2, <1>3 DEF PipeInOrder
<1>7. PlayedInOrder'
  <2>1. \A i \in DOMAIN pipe' : i + 1 \in DOMAIN pipe /\ pipe'[i] = pipe[i + 1] BY <1>1, <1>2
  <2>2. 1 \in DOMAIN pipe BY <1>1, <1>2
  <2>3. pipe[1] <= call BY <2>2 DEF PipeInOrder
  <2> QED BY <2>1, <2>2, <2>3, <1>3, <1>4 DEF PlayedInOrder
<1> QED BY <1>5, <1>6, <1>7

LEMMA PlayerStepFrames ==
  ASSUME ProcessInv, FrameInv, NEW n \in Call, PlayerStep(n)
  PROVE  FrameInv' /\ shown'[n] >= shown[n] /\ \A m \in Call \ {n} : shown'[m] = shown[m]
<1>1. call \in Nat /\ UNCHANGED call
  BY Constants DEF ProcessInv, ProcessTypes, PlayerStep, PlayerLooks,
    PlayerFetches, PlayerReads, PlayerPlays, PlayerGoes, callVars
<1>2. /\ shown \in [Call -> Round] /\ shown[n] \in Round /\ player[n].frame \in Round
      /\ 0 \in Round /\ Round \subseteq Nat /\ player[n].at \in PlayerPlace
  BY Constants DEF FrameInv, FrameTypes, Round
<1>3. UNCHANGED shown => shown' = [shown EXCEPT ![n] = shown[n]] /\ shown'[n] >= shown[n]
  <2>1. shown[n] \in Nat BY <1>2
  <2>2. shown = [shown EXCEPT ![n] = shown[n]] BY <1>2
  <2> QED BY <2>1, <2>2
<1>4. CASE PlayerLooks(n)
  <2>1. PICK place \in {"fetch", "done"} :
          player' = [player EXCEPT ![n] = [at |-> place, frame |-> 0]]
    BY <1>4 DEF PlayerLooks, PlayerGoes
  <2>2. UNCHANGED <<pipe, shown>> BY <1>4 DEF PlayerLooks
  <2>3. FrameInv' BY <2>1, <2>2, <1>1, <1>2, <1>3, PlayerMovesFrames DEF PlayerPlace
  <2> QED BY <2>2, <2>3, <1>3
<1>5. CASE PlayerFetches(n)
  <2>1. UNCHANGED shown BY <1>5 DEF PlayerFetches
  <2>2. CASE UNCHANGED pipe /\ player' = [player EXCEPT ![n] = [at |-> "top", frame |-> 0]]
    <3>1. FrameInv' BY <2>1, <2>2, <1>1, <1>2, <1>3, PlayerMovesFrames DEF PlayerPlace
    <3> QED BY <3>1, <2>1, <1>3
  <2>3. CASE /\ pipe # <<>> /\ pipe' = Tail(pipe)
             /\ player' = [player EXCEPT ![n] = [at |-> "reading", frame |-> Head(pipe)]]
    <3>1. FrameInv' BY <2>1, <2>3, <1>1, FrameTaken
    <3> QED BY <3>1, <2>1, <1>3
  <2> QED BY <2>2, <2>3, <1>5 DEF PlayerFetches, PlayerGoes
<1>6. CASE PlayerReads(n)
  <2>1. /\ player' = [player EXCEPT ![n] = [at |-> "holding", frame |-> player[n].frame]]
        /\ UNCHANGED <<pipe, shown>> /\ player[n].at = "reading"
    BY <1>6 DEF PlayerReads, PlayerGoes
  <2>2. FrameInv' BY <2>1, <1>1, <1>2, <1>3, PlayerMovesFrames DEF PlayerPlace
  <2> QED BY <2>1, <2>2, <1>3
<1>7. CASE PlayerPlays(n)
  <2>1. /\ shown' = [shown EXCEPT ![n] = player[n].frame]
        /\ player' = [player EXCEPT ![n] = [at |-> "top", frame |-> 0]]
        /\ UNCHANGED pipe /\ player[n].at = "holding"
    BY <1>7 DEF PlayerPlays, PlayerGoes
  <2>2. FrameInv' BY <2>1, <1>1, <1>2, PlayerMovesFrames DEF PlayerPlace
  <2>3. shown'[n] = player[n].frame /\ shown[n] <= player[n].frame
        /\ \A m \in Call \ {n} : shown'[m] = shown[m]
    BY <2>1, <1>2 DEF FrameInv, PlayedInOrder
  <2> QED BY <2>2, <2>3, <1>2
<1> QED BY <1>4, <1>5, <1>6, <1>7 DEF PlayerStep

\* Killed takes the last frame from the pipe, or none.
LEMMA JoinFrames ==
  ASSUME NEW t \in {"sip", "gui"}, JoinReturns(t) \/ JoinTimesOut(t)
  PROVE  /\ UNCHANGED <<call, player, shown>>
         /\ \/ UNCHANGED pipe
            \/ pipe # <<>> /\ pipe' = SubSeq(pipe, 1, Len(pipe) - 1)
BY DEF JoinReturns, JoinTimesOut, Killed, callVars, queueVars, guiVars

LEMMA ShowScreenFrames ==
  ASSUME FrameInv, call \in Nat, ShowScreen
  PROVE  FrameInv' /\ UNCHANGED shown
<1>1. /\ UNCHANGED <<call, pipe, shown>>
      /\ \E s : player' = player \/ player' = [player EXCEPT ![s].at = "top"]
  BY DEF ShowScreen, callVars, queueVars
<1>2. PICK s : player' = player \/ player' = [player EXCEPT ![s].at = "top"]
  BY <1>1
<1>3. \A n \in Call : /\ player'[n].frame = player[n].frame
                      /\ player'[n].at = player[n].at \/ player'[n].at = "top"
  BY <1>2 DEF FrameInv, FrameTypes
<1>4. FrameTypes' BY <1>1, <1>2 DEF FrameInv, FrameTypes, PlayerPlace
<1>5. PipeInOrder' BY <1>1 DEF FrameInv, PipeInOrder
<1>6. PlayedInOrder' BY <1>1, <1>3 DEF FrameInv, PlayedInOrder
<1> QED BY <1>1, <1>4, <1>5, <1>6 DEF FrameInv

FrameGoal == FrameInv' /\ \A n \in Call : shown'[n] >= shown[n]

LEMMA FrameNext == ProcessInv /\ FrameInv /\ [Next]_vars => FrameGoal
<1> SUFFICES ASSUME ProcessInv, FrameInv, [Next]_vars PROVE FrameGoal
  OBVIOUS
<1>1. call \in Nat /\ \A n \in Call : shown[n] \in Nat /\ shown[n] >= shown[n]
  BY Constants DEF ProcessInv, ProcessTypes, FrameInv, FrameTypes, Round
<1>2. ASSUME call' \in Nat, call' >= call, UNCHANGED <<player, shown>>,
             \/ UNCHANGED pipe
             \/ pipe # <<>> /\ pipe' = SubSeq(pipe, 1, Len(pipe) - 1)
      PROVE  FrameGoal
  BY <1>1, <1>2, FramesLost DEF FrameGoal
<1>3. ASSUME NEW t \in {"sip", "gui"}, JoinReturns(t) \/ JoinTimesOut(t) PROVE FrameGoal
  BY <1>1, <1>2, <1>3, JoinFrames
<1>4. ASSUME NEW t \in {"sip", "gui"}, StopEnds(t) PROVE FrameGoal
  BY <1>1, <1>2, <1>4 DEF StopEnds, callVars, queueVars, guiVars
<1>5. CASE SipStep
  <2>1. CASE StreamStarts \/ BuildNext \/ StartLoop \/ StartNext
    BY <1>1, <1>2, <2>1
    DEF StreamStarts, BuildNext, StartLoop, StartNext, callVars, queueVars, guiVars
  <2>2. CASE StreamShown \/ SipEnds \/ ClearEnds
    BY <1>1, <1>2, <2>2 DEF StreamShown, SipEnds, ClearEnds, GuiStops, callVars, queueVars
  <2> QED BY <2>1, <2>2, <1>3, <1>4, <1>5 DEF SipStep
<1>6. CASE GuiStep
  <2>1. CASE ShowScreen BY <2>1, <1>1, ShowScreenFrames DEF FrameGoal
  <2>2. CASE JoinRaises BY <2>2, <1>1, <1>2 DEF JoinRaises, callVars, queueVars, guiVars
  <2> QED BY <2>1, <2>2, <1>3, <1>4, <1>6 DEF GuiStep
<1>7. CASE Outside
  <2>1. CASE CallAgreed
    BY <2>1, <1>1, <1>2 DEF CallAgreed, queueVars, guiVars
  <2>2. CASE ServerCloses \/ CallEnds \/ EndCallClicked \/ WindowClosed
    BY <2>2, <1>1, <1>2
    DEF ServerCloses, CallEnds, EndCallClicked, WindowClosed, GuiStops, callVars, queueVars, guiVars
  <2> QED BY <2>1, <2>2, <1>7 DEF Outside
<1>8. ASSUME NEW n \in Call, ProcessStep(n) \/ CameraFails(n) PROVE FrameGoal
  BY <1>1, <1>2, <1>8
  DEF ProcessStep, CameraFails, ProcessStops, Flushed, callVars, queueVars, guiVars
<1>9. ASSUME NEW n \in Call, QueueStep(n) PROVE FrameGoal
  <2>1. CASE WriteBegins(n)
    BY <2>1, <1>1, WriteBeginsFrames DEF FrameGoal, WriteBegins, guiVars
  <2>2. CASE FrameReceived(n) \/ WriteEnds(n)
    BY <2>2, <1>1, <1>2 DEF FrameReceived, WriteEnds, callVars, guiVars
  <2> QED BY <2>1, <2>2, <1>9 DEF QueueStep
<1>10. ASSUME NEW n \in Call, PlayerStep(n) PROVE FrameGoal
  BY <1>10, <1>1, PlayerStepFrames DEF FrameGoal
<1>11. CASE UNCHANGED vars
  BY <1>11, <1>1, <1>2 DEF vars, callVars, queueVars, guiVars
<1> QED BY <1>5, <1>6, <1>7, <1>8, <1>9, <1>10, <1>11 DEF Next

\* NeverBackwards for every number of calls and frames and every pipe: a video
\* screen never shows a frame of an earlier call than the one before
\* (get_next_video_frame in rtp_manager.py, data_loop in call_controller.py).
THEOREM ScreensNeverGoBack == Spec => NeverBackwards
<1>1. Init => ProcessInv /\ FrameInv
  BY ProcessInit, FrameInit
<1>2. ProcessInv /\ FrameInv /\ [Next]_vars =>
        (ProcessInv /\ FrameInv)' /\ [\A n \in Call : shown'[n] >= shown[n]]_shown
  BY ProcessNext, FrameNext DEF FrameGoal
<1> QED BY <1>1, <1>2, PTL DEF Spec, NeverBackwards
=============================================================================
