-------------------------- MODULE CallSystemProofs --------------------------
(***************************************************************************)
(* Theorems about the whole signalling.  First, that the server among its  *)
(* programs is the server of SipServer: what is proved of the one with any *)
(* clients holds of the composition.  Then the types of the composition,   *)
(* with where the call ids come from that travel in it.  Last, that a call *)
(* stays between the two users it was begun for.                           *)
(***************************************************************************)
EXTENDS CallSystem, SipServerLocks

-----------------------------------------------------------------------------
(* The composition implements the server *)

\* Every step of the composition is one of the server's own, or leaves the
\* server alone.
LEMMA SystemStepIsServerStep ==
  ASSUME [SystemNext]_systemVars
  PROVE  [Next]_vars
<1>1. CASE \E s \in Sock : ServerSelects(s)
  BY <1>1 DEF ServerSelects, Next, MainLoop
<1>2. CASE \E w \in Worker : ServerReads(w)
  BY <1>2 DEF ServerReads, Next, MainLoop
<1>3. CASE ServerHangsUp
  BY <1>3 DEF ServerHangsUp, Next, MainLoop
<1>4. CASE \E t \in Thread : ServerThread(t)
  BY <1>4 DEF ServerThread, Next
<1>5. CASE \E u \in Uri : ConnectionEnds(u)
  BY <1>5, SocketAssumption DEF ConnectionEnds, Next
<1>6. CASE ProgramStep
  BY <1>6 DEF ProgramStep, ServerRests
<1>7. CASE UNCHANGED systemVars
  BY <1>7 DEF systemVars
<1> QED
  BY <1>1, <1>2, <1>3, <1>4, <1>5, <1>6, <1>7 DEF SystemNext, ServerStep

\* The composition implements the open server: a step of a program is none of
\* the server's, and the server reads nothing from a program that it would not
\* take from any client.
THEOREM SystemImplementsServer == SystemSpec => Spec
<1>1. SystemInit => Init
  BY DEF SystemInit
<1>2. [SystemNext]_systemVars => [Next]_vars
  BY SystemStepIsServerStep
<1> QED
  BY <1>1, <1>2, PTL DEF SystemSpec, Spec

\* So the theorems about the server hold among its programs.
THEOREM ServerTheoremsHold ==
  SystemSpec => /\ []MapsAgree /\ []CallShape /\ []RemainingHaveAnswered /\ []LocksExclude
                /\ CallIdentityFixed /\ OkMeansRegistered /\ EstablishedCallStays
                /\ RefinesLifecycle
  BY SystemImplementsServer, MapsAlwaysAgree, CallsHaveShape, ProbedHaveAnswered,
     LocksAreExclusive, IdentityFixed, OkIsTrue, EstablishedStays, ServerImplementsLifecycle, PTL

-----------------------------------------------------------------------------
(* Call ids *)

\* A message, or a call, goes back to a call-id that a program has drawn.
Drawn(m) == m.cid \in CallId \ unused /\ m.cseq > 0
DrawnIfAny(m) == m # NoMsg => Drawn(m)
FramesDrawn(fs) == \A i \in 1..Len(fs) : DrawnIfAny(fs[i].msg)

ServerDraws ==
  /\ \A c \in CallId : Known(c) => c \notin unused /\ calls[c].cseq > 0
  /\ \A w \in Worker : task[w].stage # "idle" => Drawn(task[w].msg)
  /\ \A t \in Thread : FramesDrawn(stack[t])
  /\ sent # NoMsg => Drawn(sent.msg)

\* An INVITE is relayed to whom it calls, everything else to one of the parties
\* of its call.
RelayedTo(s, m) ==
  IF m.what = "INVITE" THEN Taken(m.to) /\ s = valToObj[m.to]
  ELSE Involves(m.cid, s)

\* All that a handler has left to send is about the message it works on: the
\* server's answers to its sender, and the message itself.
AboutOne(f, m, s) ==
  /\ f.pc = "send" /\ f.msg.cid = m.cid /\ f.msg.cseq = m.cseq
  /\ \/ f.sock = s /\ f.msg.from = ServerUri /\ f.msg.what \in ServerKind
     \/ f.msg = Relay(m) /\ RelayedTo(f.sock, m)

About(fs, m, s) == \A i \in 1..Len(fs) : AboutOne(fs[i], m, s)

\* A reply, a relayed message, and nothing at all are about the message.
LEMMA ReplyAbout ==
  ASSUME NEW s, NEW m, NEW what \in ServerKind
  PROVE  About(<<Send(s, Reply(m, what))>>, m, s)
  BY DEF About, AboutOne, Send, Reply

LEMMA RelayAbout ==
  ASSUME NEW s, NEW m, NEW peer, RelayedTo(peer, m)
  PROVE  About(<<Send(peer, Relay(m))>>, m, s)
  BY DEF About, AboutOne, Send, Relay

LEMMA NothingAbout ==
  ASSUME NEW m, NEW s
  PROVE  About(<<>>, m, s)
  BY DEF About

LEMMA AboutConcat ==
  ASSUME NEW fs \in Seq(Frame), NEW gs \in Seq(Frame), NEW m, NEW s,
         About(fs, m, s), About(gs, m, s)
  PROVE  About(fs \o gs, m, s)
<1> DEFINE hs == fs \o gs
<1>1. Len(fs) \in Nat /\ Len(gs) \in Nat /\ Len(hs) = Len(fs) + Len(gs)
  OBVIOUS
<1>2. \A i \in 1..Len(hs) :
        \/ i \in 1..Len(fs) /\ hs[i] = fs[i]
        \/ i - Len(fs) \in 1..Len(gs) /\ hs[i] = gs[i - Len(fs)]
  BY <1>1, ConcatProperties
<1> HIDE DEF hs
<1>3. About(hs, m, s)
  BY <1>2 DEF About
<1> QED
  BY <1>3 DEF hs

\* A worker goes on with its message, or ends, and has left to send what is
\* about it.
WorksOn(w) ==
  /\ task[w].stage # "idle"
  /\ \E stage : task' \in {task, [task EXCEPT ![w] = IdleTask],
                           [task EXCEPT ![w].stage = stage]}
  /\ \E fs : stack' = [stack EXCEPT ![w] = fs] /\ About(fs, task[w].msg, task[w].sock)
  /\ sent' = NoMsg

\* The ways a handler ends a stage.
LEMMA LeaveWorks ==
  ASSUME NEW w, task[w].stage # "idle", NEW stage, NEW fs, NEW ls, Leave(w, stage, fs, ls),
         About(fs, task[w].msg, task[w].sock)
  PROVE  WorksOn(w)
  BY DEF Leave, WorksOn, Quiet

LEMMA AnswerWorks ==
  ASSUME NEW w, task[w].stage # "idle", NEW what \in ServerKind, NEW ls, Answer(w, what, ls)
  PROVE  WorksOn(w)
  BY LeaveWorks, ReplyAbout DEF Answer

LEMMA DropWorks ==
  ASSUME NEW w, task[w].stage # "idle", Drop(w)
  PROVE  WorksOn(w)
  BY LeaveWorks, NothingAbout DEF Drop

\* Every stage of a handler works on its message.
LEMMA HandleWorks ==
  ASSUME Shape, NEW w \in Worker, Handle(w)
  PROVE  WorksOn(w)
<1> USE DEF Shape, TypeOK
<1> DEFINE m == task[w].msg
           s == task[w].sock
<1>0. {"OK", "UNAUTHORIZED", "FORBIDDEN", "BAD_REQUEST", "NOT_FOUND", "BAD_GATEWAY",
       "NOT_ACCEPTABLE", "TRYING"} \subseteq ServerKind
  BY DEF ServerKind
<1>1. task[w].stage # "idle" /\ s \in Sock /\ m \in ClientMsg
  <2>1. \E stage \in Stage \ {"idle"} : \E kinds : Runs(w, stage, kinds)
    BY DEF Handle, Stage, Invalid, BumpCSeq, Unhandled, RegisterRefused, RegisterOpens,
           RegisterChecks, RegisterRechecks, RegisterForgets, RegisterChallenged,
           RegisterUnverified, RegisterVerified, InviteRefused, InviteRuns, InviteMismatch,
           InviteCalleeAway, InviteStopped, InviteTried, NoSuchCall, RequestMismatch, Ack,
           Bye, ResponseLookedUp, KeepAliveAnswered, ResponseRuns, ResponseMoves,
           ResponseEnds, ResponseDropped, ResponseToRegister, WaitsForReg
  <2> QED
    BY <2>1, RunsTyped DEF Runs
<1>2. CASE \/ BumpCSeq(w) \/ Unhandled(w) \/ RegisterForgets(w) \/ NoSuchCall(w)
           \/ ResponseLookedUp(w) \/ KeepAliveAnswered(w) \/ ResponseDropped(w)
  <2>1. \E stage, ls : Leave(w, stage, <<>>, ls)
    BY <1>2 DEF BumpCSeq, Unhandled, RegisterForgets, NoSuchCall,
                ResponseLookedUp, KeepAliveAnswered, ResponseDropped, Drop
  <2> QED
    BY <1>1, <2>1, LeaveWorks, NothingAbout
<1>3. CASE \/ RegisterRefused(w) \/ RegisterUnverified(w) \/ InviteRefused(w)
           \/ RegisterChallenged(w) \/ InviteMismatch(w) \/ RequestMismatch(w)
           \/ ResponseToRegister(w) \/ InviteCalleeAway(w) \/ InviteStopped(w)
  <2>1. CASE RegisterRefused(w) \/ RegisterUnverified(w) \/ InviteRefused(w)
    BY <1>0, <1>1, <2>1, AnswerWorks DEF RegisterRefused, RegisterUnverified, InviteRefused
  <2>2. CASE \/ RegisterChallenged(w) \/ InviteMismatch(w) \/ RequestMismatch(w)
             \/ ResponseToRegister(w)
    BY <1>0, <1>1, <2>2, AnswerWorks DEF RegisterChallenged, InviteMismatch, RequestMismatch,
                                   ResponseToRegister
  <2>3. CASE InviteCalleeAway(w)
    BY <1>0, <1>1, <2>3, AnswerWorks DEF InviteCalleeAway
  <2>4. CASE InviteStopped(w)
    BY <1>0, <1>1, <2>4, AnswerWorks DEF InviteStopped
  <2> QED
    BY <1>3, <2>1, <2>2, <2>3, <2>4
<1>4. CASE Invalid(w)
  BY <1>0, <1>1, <1>4, LeaveWorks, ReplyAbout DEF Invalid
<1>5. CASE RegisterOpens(w)
  BY <1>0, <1>1, <1>5, AnswerWorks, LeaveWorks, NothingAbout DEF RegisterOpens
<1>6. CASE RegisterChecks(w) \/ RegisterRechecks(w)
  <2>1. \E stage, fs, ls : /\ Leave(w, stage, fs, ls)
                           /\ \/ fs = <<>>
                              \/ \E what \in ServerKind : fs = <<Send(s, Reply(m, what))>>
    BY <1>0, <1>6 DEF RegisterChecks, RegisterRechecks, Drop
  <2> QED
    BY <1>1, <2>1, LeaveWorks, NothingAbout, ReplyAbout
<1>7. CASE RegisterVerified(w)
  BY <1>0, <1>1, <1>7, AnswerWorks, DropWorks DEF RegisterVerified
<1>8. CASE InviteTried(w)
  <2> DEFINE callee == valToObj[m.to]
             caller == [CallOf(m, s, "INVITE", m.to) EXCEPT !.callee = callee,
                                                            !.state = "TRYING"].caller
             relay == <<Send(callee, Relay(m))>>
             trying == <<Send(caller, Reply(m, "TRYING"))>>
             rejected == <<Send(s, Reply(m, "BAD_REQUEST"))>>
  <2>1. callee \in Sock /\ s \in Sock /\ caller = s
    <3> DEFINE opened == CallOf(m, s, "INVITE", m.to)
    <3>1. callee \in Sock /\ s \in Sock /\ opened \in Call /\ opened.caller = s
      BY <1>8, InviteRunsTyped DEF InviteTried
    <3>2. caller = [opened EXCEPT !.callee = callee, !.state = "TRYING"].caller
      OBVIOUS
    <3> HIDE DEF opened, caller
    <3> QED
      BY <3>1, <3>2 DEF Call
  <2>2. Leave(w, "done", Objection(w) \o (IF m.body THEN <<Send(callee, Relay(m)), Send(caller, Reply(m, "TRYING"))>> ELSE rejected), {"call"})
    BY <1>8 DEF InviteTried
  <2> HIDE DEF callee, caller
  <2>3. /\ relay \in Seq(Frame) /\ trying \in Seq(Frame) /\ rejected \in Seq(Frame)
        /\ Objection(w) \in Seq(Frame)
    BY <1>1, <2>1, RelayTyped, ReplyTyped, SendTyped, OneFrame DEF ServerKind, Objection
  <2>4. About(relay, m, s) /\ About(trying, m, s) /\ About(rejected, m, s)
        /\ About(Objection(w), m, s)
    <3>1. m.what = "INVITE" /\ Taken(m.to)
      BY <1>8 DEF InviteTried, InviteRuns, Runs
    <3>2. RelayedTo(callee, m)
      BY <3>1 DEF RelayedTo, callee
    <3> QED
      BY <1>0, <2>1, <3>2, RelayAbout, ReplyAbout, NothingAbout DEF Objection
  <2>5. relay \o trying = <<Send(callee, Relay(m)), Send(caller, Reply(m, "TRYING"))>>
    BY <1>1, <2>1, RelayTyped, ReplyTyped, SendTyped, TwoJoined DEF ServerKind
  <2> DEFINE sends == IF m.body THEN relay \o trying ELSE rejected
  <2>6. sends \in Seq(Frame) /\ About(sends, m, s)
    <3> HIDE DEF relay, trying, rejected
    <3> QED
      BY <2>3, <2>4, AboutConcat, ConcatProperties
  <2>7. Leave(w, "done", Objection(w) \o sends, {"call"})
    BY <2>2, <2>5
  <2> HIDE DEF sends
  <2>8. About(Objection(w) \o sends, m, s)
    BY <2>3, <2>4, <2>6, AboutConcat
  <2> QED
    BY <1>1, <2>7, <2>8, LeaveWorks
<1>9. CASE Ack(w) \/ Bye(w) \/ ResponseMoves(w) \/ ResponseEnds(w)
  <2>1. \/ Drop(w)
        \/ \E peer : /\ RelayedTo(peer, m)
                     /\ Leave(w, "done", <<Send(peer, Relay(m))>>, {"call"})
    <3>1. CASE Ack(w)
      <4>1. m.what # "INVITE" /\ Involves(m.cid, calls[m.cid].callee)
        BY <3>1 DEF Ack, Runs, Involves
      <4> QED
        BY <3>1, <4>1 DEF Ack, RelayedTo
    <3>2. CASE Bye(w)
      <4>1. m.what # "INVITE" /\ Involves(m.cid, OtherSide(m.cid, s))
        BY <3>2 DEF Bye, Runs, Involves, OtherSide
      <4> QED
        BY <3>2, <4>1 DEF Bye, RelayedTo
    <3>3. CASE ResponseMoves(w) \/ ResponseEnds(w)
      <4> DEFINE peer == IF s # calls[m.cid].caller THEN calls[m.cid].caller
                         ELSE calls[m.cid].callee
      <4>1. m.what # "INVITE" /\ Known(m.cid)
        BY <3>3 DEF ResponseMoves, ResponseEnds, ResponseRuns, Runs, ResponseKind
      <4>2. RelayedTo(peer, m)
        BY <4>1 DEF Involves, RelayedTo
      <4>3. Drop(w) \/ Leave(w, "done", <<Send(peer, Relay(m))>>, {"call"})
        BY <3>3 DEF ResponseMoves, ResponseEnds, Forward
      <4> HIDE DEF peer
      <4> QED
        BY <4>2, <4>3
    <3> QED
      BY <1>9, <3>1, <3>2, <3>3
  <2> QED
    BY <1>1, <2>1, RelayAbout, LeaveWorks, DropWorks
<1>10. CASE WaitsForReg(w)
  <2>1. stack' = [stack EXCEPT ![w] = stack[w]] /\ stack[w] = <<>>
    BY <1>10 DEF WaitsForReg, InviteRuns, Runs, StackOK
  <2> QED
    BY <1>1, <1>10, <2>1, NothingAbout DEF WaitsForReg, WorksOn, Quiet
<1> QED
  BY <1>2, <1>3, <1>4, <1>5, <1>6, <1>7, <1>8, <1>9, <1>10 DEF Handle

-----------------------------------------------------------------------------
(* A send or a close says what was to be said already, or that a call of   *)
(* active_calls is gone.                                                   *)

Told(t, m) ==
  \/ m = NoMsg
  \/ \E j \in 1..Len(stack[t]) : m = stack[t][j].msg
  \/ \E c \in CallId : Known(c) /\ m = Gone(c)

SaysOn(t) ==
  /\ \A w \in Worker : task'[w].stage # "idle" => task'[w] = task[w]
  /\ \E fs : stack' = [stack EXCEPT ![t] = fs] /\ \A i \in 1..Len(fs) : Told(t, fs[i].msg)
  /\ \/ sent' = NoMsg
     \/ \E j \in 1..Len(stack[t]) : sent'.msg = stack[t][j].msg /\ sent'.msg # NoMsg

\* A thread that sends or closes leaves the work of the executor threads as it
\* is, or ends its own.
LEMMA GoOnTask ==
  ASSUME TaskOK, NEW t \in Thread, NEW fs, NEW ls, GoOn(t, fs, ls)
  PROVE  \A w \in Worker : task'[w].stage # "idle" => task'[w] = task[w]
<1>1. task' = task \/ (t \in Worker /\ task' = [task EXCEPT ![t] = IdleTask])
  BY DEF GoOn
<1> QED
  BY <1>1 DEF TaskOK, IdleTask

LEMMA RaiseTask ==
  ASSUME TaskOK, NEW t \in Thread, Raise(t)
  PROVE  \A w \in Worker : task'[w].stage # "idle" => task'[w] = task[w]
<1>1. task' = task \/ (t \in Worker /\ task' = [task EXCEPT ![t] = IdleTask])
  BY DEF Raise
<1> QED
  BY <1>1 DEF TaskOK, IdleTask

\* What is below the top frame was to be said already.
LEMMA BelowTold ==
  ASSUME StackOK, NEW t \in Thread, stack[t] # <<>>
  PROVE  /\ \A i \in 1..Len(Tail(stack[t])) : Told(t, Tail(stack[t])[i].msg)
         /\ \A g \in Frame : Told(t, g.msg) =>
              \A i \in 1..Len(<<g>> \o Tail(stack[t])) :
                Told(t, (<<g>> \o Tail(stack[t]))[i].msg)
<1>1. stack[t] \in Seq(Frame)
  BY DEF StackOK
<1>2. \A i \in 1..Len(Tail(stack[t])) :
        i + 1 \in 1..Len(stack[t]) /\ Tail(stack[t])[i] = stack[t][i + 1]
  BY <1>1
<1>3. \A i \in 2..Len(stack[t]) : i \in 1..Len(stack[t])
  BY <1>1
<1>4. ASSUME NEW g \in Frame, Told(t, g.msg), NEW i \in 1..Len(<<g>> \o Tail(stack[t]))
      PROVE  Told(t, (<<g>> \o Tail(stack[t]))[i].msg)
  <2> DEFINE f == (<<g>> \o Tail(stack[t]))[i]
  <2>1. f = g \/ \E j \in 1..Len(stack[t]) : f = stack[t][j]
    BY <1>1, <1>3, TurnedFrames
  <2> HIDE DEF f
  <2>2. Told(t, f.msg)
    BY <1>4, <2>1 DEF Told
  <2> QED
    BY <2>2 DEF f
<1>5. \A i \in 1..Len(Tail(stack[t])) : Told(t, Tail(stack[t])[i].msg)
  BY <1>2 DEF Told
<1> QED
  BY <1>4, <1>5

LEMMA TopTold ==
  ASSUME StackOK, NEW t \in Thread, stack[t] # <<>>
  PROVE  \E j \in 1..Len(stack[t]) : Top(t).msg = stack[t][j].msg
<1>1. stack[t] \in Seq(Frame)
  BY DEF StackOK
<1>2. 1 \in 1..Len(stack[t]) /\ Top(t) = stack[t][1]
  BY <1>1 DEF Top
<1> QED
  BY <1>2

\* The ways a send or a close goes on.
LEMMA GoOnSays ==
  ASSUME Shape, NEW t \in Thread, NEW fs, NEW ls, GoOn(t, fs, ls),
         \A i \in 1..Len(fs) : Told(t, fs[i].msg), sent' = NoMsg
  PROVE  SaysOn(t)
<1>1. stack' = [stack EXCEPT ![t] = fs]
  BY DEF GoOn
<1>2. \A w \in Worker : task'[w].stage # "idle" => task'[w] = task[w]
  BY GoOnTask DEF Shape, TypeOK
<1> QED
  BY <1>1, <1>2 DEF SaysOn

LEMMA TurnSays ==
  ASSUME Shape, NEW t \in Thread, stack[t] # <<>>, NEW g \in Frame, Turn(t, g),
         Told(t, g.msg), sent' = NoMsg
  PROVE  SaysOn(t)
  BY BelowTold, GoOnSays DEF Turn, Shape, TypeOK

LEMMA RaiseSays ==
  ASSUME Shape, NEW t \in Thread, Raise(t), sent' = NoMsg
  PROVE  SaysOn(t)
<1>1. \A w \in Worker : task'[w].stage # "idle" => task'[w] = task[w]
  BY RaiseTask DEF Shape, TypeOK
<1>2. stack' = [stack EXCEPT ![t] = <<>>]
  BY DEF Raise
<1>3. \A i \in 1..Len(<<>>) : Told(t, <<>>[i].msg)
  OBVIOUS
<1> QED
  BY <1>1, <1>2, <1>3 DEF SaysOn

\* One round of the loop of _close_connection over the calls of a socket.
LEMMA CloseOneCallSays ==
  ASSUME Shape, NEW t \in Thread, CloseOneCall(t)
  PROVE  SaysOn(t)
<1> USE DEF Shape, TypeOK
<1> DEFINE f == Top(t)
<1>1. /\ stack[t] # <<>> /\ f \in Frame /\ f.pc = "sweep" /\ f.todo \subseteq CallId
      /\ Tail(stack[t]) \in Seq(Frame) /\ sent' = NoMsg
  BY TopTyped DEF CloseOneCall, At, Frame
<1>2. PICK c \in f.todo :
        /\ Known(c)
        /\ LET peer == PeerAfter(f, c)
               notice == NoticeAfter(f, c)
               rest == [f EXCEPT !.todo = @ \ {c}, !.peer = peer, !.msg = notice]
           IN \/ Turn(t, rest)
              \/ /\ notice # NoMsg /\ peer # NoSock
                 /\ GoOn(t, <<Send(peer, notice), rest>> \o Tail(stack[t]), holds[t])
              \/ Raise(t)
  BY DEF CloseOneCall
<1> DEFINE peer == PeerAfter(f, c)
           notice == NoticeAfter(f, c)
           rest == [f EXCEPT !.todo = f.todo \ {c}, !.peer = peer, !.msg = notice]
           send == Send(peer, notice)
<1>3. c \in CallId /\ calls[c] \in Call
  BY <1>1, <1>2, KnownTyped
<1>4. peer \in Sock \cup {NoSock}
  BY <1>1, <1>3, SideTyped DEF PeerAfter, Frame
<1>5. notice \in ServerMsg \cup {NoMsg}
  BY <1>1, <1>3, GoneTyped DEF NoticeAfter, Frame
<1>6. Told(t, notice)
  <2>1. notice = Gone(c) \/ notice = f.msg
    BY DEF NoticeAfter
  <2> HIDE DEF notice
  <2> QED
    BY <1>1, <1>2, <1>3, <2>1, TopTold DEF Told
<1>7. rest \in Frame /\ rest.msg = notice
  <2>1. f.todo \ {c} \in SUBSET CallId
    BY <1>1
  <2> HIDE DEF f, peer, notice
  <2>2. rest \in Frame
    BY <2>1, <1>1, <1>4, <1>5, CloseFrameTyped
  <2> QED
    BY <1>1, <2>2 DEF Frame
<1>8. send.msg = notice
  BY DEF Send
<1>9. Told(t, rest.msg) /\ Told(t, send.msg)
  <2> HIDE DEF rest, send, notice
  <2> QED
    BY <1>6, <1>7, <1>8
<1>10. notice # NoMsg /\ peer # NoSock => send \in Frame
  BY <1>4, <1>5, SendTyped
<1> HIDE DEF f, peer, notice, rest, send
<1>11. CASE Turn(t, rest)
  BY <1>1, <1>7, <1>9, <1>11, TurnSays
<1>12. CASE /\ notice # NoMsg /\ peer # NoSock
            /\ GoOn(t, <<send, rest>> \o Tail(stack[t]), holds[t])
  <2> DEFINE gs == <<send, rest>> \o Tail(stack[t])
  <2>1. \A i \in 1..Len(gs) : Told(t, gs[i].msg)
    <3>1. SUFFICES ASSUME NEW i \in 1..Len(gs)
                   PROVE  Told(t, gs[i].msg)
      OBVIOUS
    <3>2. CASE gs[i] \in {send, rest}
      BY <3>2, <1>9
    <3>3. CASE i - 2 \in 1..Len(Tail(stack[t])) /\ gs[i] = Tail(stack[t])[i - 2]
      <4> HIDE DEF gs
      <4> QED
        BY <1>1, <3>3, BelowTold
    <3> QED
      BY <1>1, <1>7, <1>10, <1>12, <3>2, <3>3, PushedFrames
  <2> HIDE DEF gs
  <2> QED
    BY <1>1, <1>12, <2>1, GoOnSays DEF gs
<1>13. CASE Raise(t)
  BY <1>1, <1>13, RaiseSays
<1> QED
  BY <1>2, <1>11, <1>12, <1>13 DEF f, peer, notice, rest, send

\* Every step of a send or a close.
LEMMA SendOrCloseSays ==
  ASSUME Shape, NEW t \in Thread, SendOrClose(t)
  PROVE  SaysOn(t)
<1> USE DEF Shape, TypeOK
<1>1. /\ stack[t] # <<>> /\ Top(t) \in Frame /\ Top(t).sock \in Sock
      /\ stack[t] \in Seq(Frame)
  BY TopTyped DEF SendOrClose, SendSucceeds, SendFails, CloseConn, CloseReg, CloseCalls,
                  CloseOneCall, CloseLosesCall, CloseSocket, At, Frame, StackOK
<1>2. CASE SendSucceeds(t)
  <2>1. sent'.msg = Top(t).msg /\ Top(t).msg \in ServerMsg
    BY <1>1, <1>2 DEF SendSucceeds, At, Frame
  <2>2. GoOn(t, Tail(stack[t]), holds[t])
    BY <1>2 DEF SendSucceeds, Pop
  <2>3. stack' = [stack EXCEPT ![t] = Tail(stack[t])]
    BY <2>2 DEF GoOn
  <2>4. \A w \in Worker : task'[w].stage # "idle" => task'[w] = task[w]
    BY <2>2, GoOnTask
  <2>5. \E j \in 1..Len(stack[t]) : sent'.msg = stack[t][j].msg /\ sent'.msg # NoMsg
    BY <1>1, <2>1, TopTold, AbsentAssumption
  <2> QED
    BY <1>1, <2>3, <2>4, <2>5, BelowTold DEF SaysOn
<1>3. CASE SendFails(t)
  <2>1. Told(t, Close(Top(t).sock).msg)
    BY DEF Told, Close
  <2> QED
    BY <1>1, <1>3, <2>1, CloseTyped, TurnSays DEF SendFails
<1>4. CASE CloseConn(t) \/ CloseReg(t)
  <2>1. PICK pc \in {"reg", "calls"} : Turn(t, [Top(t) EXCEPT !.pc = pc])
    BY <1>4 DEF CloseConn, CloseReg
  <2> DEFINE g == [Top(t) EXCEPT !.pc = pc]
  <2>2. g \in Frame
    BY <1>1, CloseFrameTyped
  <2>3. g.msg = Top(t).msg
    BY <1>1 DEF Frame
  <2>4. Turn(t, g) /\ sent' = NoMsg
    BY <1>4, <2>1 DEF CloseConn, CloseReg
  <2> HIDE DEF g
  <2>5. Told(t, g.msg)
    BY <1>1, <2>3, TopTold DEF Told
  <2> QED
    BY <1>1, <2>2, <2>4, <2>5, TurnSays
<1>5. CASE CloseCalls(t)
  <2> DEFINE todo == {c \in CallId : Involves(c, Top(t).sock)}
             g == [Top(t) EXCEPT !.pc = "sweep", !.took = "call" \notin holds[t], !.todo = todo]
             gs == <<g>> \o Tail(stack[t])
  <2>1. g \in Frame /\ g.msg = Top(t).msg
    <3>1. g \in Frame
      BY <1>1, CloseFrameTyped
    <3>2. g.msg = Top(t).msg
      BY <1>1 DEF Frame
    <3> QED
      BY <3>1, <3>2
  <2>2. GoOn(t, gs, holds[t] \cup {"call"}) /\ sent' = NoMsg
    BY <1>5 DEF CloseCalls
  <2> HIDE DEF g
  <2>3. Told(t, g.msg)
    BY <1>1, <2>1, TopTold DEF Told
  <2>4. \A i \in 1..Len(gs) : Told(t, gs[i].msg)
    BY <1>1, <2>1, <2>3, BelowTold
  <2> HIDE DEF gs
  <2> QED
    BY <2>2, <2>4, GoOnSays
<1>6. CASE CloseLosesCall(t)
  BY <1>6, RaiseSays DEF CloseLosesCall
<1>7. CASE CloseSocket(t)
  <2>1. \E ls : GoOn(t, Tail(stack[t]), ls)
    BY <1>7 DEF CloseSocket, Pop
  <2>2. sent' = NoMsg
    BY <1>7 DEF CloseSocket
  <2> QED
    BY <1>1, <2>1, <2>2, BelowTold, GoOnSays
<1>8. CASE CloseOneCall(t)
  BY <1>8, CloseOneCallSays
<1> QED
  BY <1>2, <1>3, <1>4, <1>5, <1>6, <1>7, <1>8 DEF SendOrClose

-----------------------------------------------------------------------------
(* The server knows no call-id that has not been drawn *)

\* A call that was not there is the one the message names.
LEMMA OpenedByMessage ==
  ASSUME Shape, NEW w \in Worker, Handle(w), NEW c \in CallId, ~Known(c), calls'[c] # NoCall
  PROVE  c = task[w].msg.cid /\ calls'[c].cseq = task[w].msg.cseq
<1> USE DEF Shape, TypeOK
<1> DEFINE m == task[w].msg
           s == task[w].sock
<1>1. calls[c] = NoCall
  BY DEF Known
<1>2. CASE RegisterOpens(w)
  <2> DEFINE opened == CallOf(m, s, "REGISTER", m.from)
  <2>1. calls' = [calls EXCEPT ![m.cid] = opened]
    BY <1>1, <1>2 DEF RegisterOpens
  <2>2. ~Known(m.cid) => opened.cseq = m.cseq
    BY DEF CallOf, NewCall
  <2> HIDE DEF opened
  <2> QED
    BY <1>1, <2>1, <2>2 DEF CallsOK
<1>3. CASE InviteCalleeAway(w) \/ InviteStopped(w) \/ InviteTried(w)
  <2> DEFINE opened == CallOf(m, s, "INVITE", m.to)
             called == [opened EXCEPT !.callee = valToObj[m.to]]
             tried == [opened EXCEPT !.callee = valToObj[m.to], !.state = "TRYING"]
  <2>1. PICK new \in {opened, called, tried} : calls' = [calls EXCEPT ![m.cid] = new]
    BY <1>3 DEF InviteCalleeAway, InviteStopped, InviteTried
  <2>2. opened \in Call
    BY <1>3, InviteRunsTyped DEF InviteCalleeAway, InviteStopped, InviteTried
  <2>3. ~Known(m.cid) => opened.cseq = m.cseq
    BY DEF CallOf, NewCall
  <2> HIDE DEF opened
  <2>4. new.cseq = opened.cseq
    BY <2>1, <2>2 DEF Call
  <2> HIDE DEF called, tried
  <2> QED
    BY <1>1, <2>1, <2>3, <2>4 DEF CallsOK
<1>4. CASE ~(RegisterOpens(w) \/ InviteCalleeAway(w) \/ InviteStopped(w) \/ InviteTried(w))
  <2>1. calls'[c] = calls[c] \/ calls'[c] = NoCall
    <3>1. CASE BumpCSeq(w)
      BY <3>1 DEF BumpCSeq, Known, CallsOK
    <3>2. CASE RegisterForgets(w) \/ RegisterVerified(w) \/ ResponseEnds(w)
      BY <3>2 DEF RegisterForgets, RegisterVerified, ResponseEnds, CallsOK
    <3>3. CASE Ack(w) \/ Bye(w)
      <4>1. Known(m.cid)
        BY <3>3 DEF Ack, Bye
      <4>2. c # m.cid
        BY <4>1
      <4> QED
        BY <3>3, <4>2 DEF Ack, Bye, CallsOK
    <3>4. CASE ResponseMoves(w)
      <4>1. PICK next : Known(m.cid) /\ calls' = [calls EXCEPT ![m.cid].state = next]
        BY <3>4 DEF ResponseMoves
      <4>2. c # m.cid
        BY <4>1
      <4> QED
        BY <4>1, <4>2 DEF CallsOK
    <3>5. CASE \/ Invalid(w) \/ Unhandled(w) \/ RegisterRefused(w) \/ RegisterChecks(w)
               \/ RegisterRechecks(w) \/ RegisterChallenged(w) \/ RegisterUnverified(w)
               \/ InviteRefused(w) \/ InviteMismatch(w) \/ NoSuchCall(w) \/ RequestMismatch(w)
               \/ ResponseLookedUp(w) \/ KeepAliveAnswered(w) \/ ResponseDropped(w)
               \/ ResponseToRegister(w) \/ WaitsForReg(w)
      BY <3>5
      DEF callVars, Invalid, Unhandled, RegisterRefused, RegisterChecks,
          RegisterRechecks, RegisterChallenged, RegisterUnverified, InviteRefused,
          InviteMismatch, NoSuchCall, RequestMismatch, ResponseLookedUp, KeepAliveAnswered,
          ResponseDropped, ResponseToRegister, WaitsForReg
    <3> QED
      BY <1>4, <3>1, <3>2, <3>3, <3>4, <3>5 DEF Handle
  <2> QED
    BY <1>1, <2>1
<1> QED
  BY <1>2, <1>3, <1>4

\* A known call keeps its cseq or raises it.
LEMMA CSeqGrows ==
  ASSUME Shape, [Next]_vars, NEW c \in CallId, Known(c), calls'[c] # NoCall
  PROVE  calls'[c].cseq >= calls[c].cseq
<1> USE DEF Shape, TypeOK
<1>1. calls[c] \in Call /\ calls[c].cseq \in Nat
  BY KnownTyped DEF Call
<1>2. CASE calls' = calls
  BY <1>1, <1>2
<1>3. ASSUME NEW d \in CallId, NEW new \in Call \cup {NoCall},
             calls' = [calls EXCEPT ![d] = new], Continues(d, new)
      PROVE  calls'[c].cseq >= calls[c].cseq
  <2>1. CASE c # d
    BY <1>1, <1>3, <2>1 DEF CallsOK
  <2>2. CASE c = d
    BY <1>3, <2>2 DEF CallsOK, Continues
  <2> QED
    BY <2>1, <2>2
<1> QED
  BY <1>2, <1>3, CallSteps DEF CallStep

\* Handlers, and sends and closes, keep the server to call ids that were drawn.
LEMMA HandleDraws ==
  ASSUME Shape, ServerDraws, unused' = unused, NEW w \in Worker, Handle(w)
  PROVE  ServerDraws'
<1> USE DEF Shape, TypeOK
<1> DEFINE m == task[w].msg
<1>1. Drawn(m) /\ sent' = NoMsg /\ task[w].stage # "idle"
  BY HandleWorks DEF ServerDraws, WorksOn
<1>2. ASSUME NEW c \in CallId, Known(c)'
      PROVE  c \notin unused' /\ calls'[c].cseq > 0
  <2>1. CASE Known(c)
    <3>1. calls'[c].cseq >= calls[c].cseq /\ calls[c].cseq > 0 /\ c \notin unused
      BY <1>2, <2>1, CSeqGrows DEF Known, Next, ServerDraws
    <3>2. calls[c].cseq \in Nat /\ calls'[c].cseq \in Nat
      <4>1. CallsOK'
        BY HandleTypes
      <4> QED
        BY <1>2, <2>1, <4>1 DEF Known, CallsOK, Call
    <3> QED
      BY <3>1, <3>2
  <2>2. CASE ~Known(c)
    BY <1>1, <1>2, <2>2, OpenedByMessage DEF Known, Drawn
  <2> QED
    BY <2>1, <2>2
<1>3. ASSUME NEW v \in Worker, task'[v].stage # "idle"
      PROVE  Drawn(task[v].msg)' /\ task'[v].msg = task[v].msg
  <2>1. PICK stage : task' \in {task, [task EXCEPT ![w] = IdleTask],
                               [task EXCEPT ![w].stage = stage]}
    BY HandleWorks DEF WorksOn
  <2>2. task'[v].msg = task[v].msg /\ task[v].stage # "idle"
    BY <1>1, <1>3, <2>1 DEF TaskOK, Task, IdleTask
  <2> QED
    BY <2>2 DEF ServerDraws, Drawn
<1>4. ASSUME NEW t \in Thread
      PROVE  FramesDrawn(stack[t])'
  <2>1. PICK fs : stack' = [stack EXCEPT ![w] = fs] /\ About(fs, m, task[w].sock)
    BY HandleWorks DEF WorksOn
  <2>2. CASE t = w
    <3>1. stack'[t] = fs
      BY <2>1, <2>2 DEF StackOK
    <3> QED
      BY <1>1, <2>1, <3>1 DEF FramesDrawn, DrawnIfAny, Drawn, About, AboutOne
  <2>3. CASE t # w
    BY <2>1, <2>3 DEF ServerDraws, FramesDrawn, DrawnIfAny, Drawn, StackOK
  <2> QED
    BY <2>2, <2>3
<1> QED
  BY <1>1, <1>2, <1>3, <1>4 DEF ServerDraws

LEMMA ClosesDraw ==
  ASSUME Shape, ServerDraws, unused' = unused, NEW t \in Thread, SendOrClose(t)
  PROVE  ServerDraws'
<1> USE DEF Shape, TypeOK
<1>1. ASSUME NEW c \in CallId, Known(c)'
      PROVE  c \notin unused' /\ calls'[c].cseq > 0
  <2>1. calls' = calls \/ \E d : calls' = [calls EXCEPT ![d] = NoCall]
    BY DEF SendOrClose, SendSucceeds, SendFails, CloseConn, CloseReg, CloseCalls,
           CloseOneCall, CloseLosesCall, CloseSocket, callVars
  <2>2. Known(c) /\ calls'[c] = calls[c]
    BY <1>1, <2>1 DEF Known, CallsOK
  <2> QED
    BY <2>2 DEF ServerDraws
<1>2. ASSUME NEW v \in Worker, task'[v].stage # "idle"
      PROVE  Drawn(task[v].msg)'
  BY <1>2, SendOrCloseSays DEF SaysOn, ServerDraws, Drawn
<1>3. \A c \in CallId : Known(c) => Gone(c).cid = c /\ Gone(c).cseq = calls[c].cseq
  BY DEF Gone
<1>4. ASSUME NEW n, Told(t, n), n # NoMsg
      PROVE  Drawn(n)
  BY <1>3, <1>4 DEF Told, ServerDraws, FramesDrawn, DrawnIfAny, Drawn
<1>5. ASSUME NEW u \in Thread
      PROVE  FramesDrawn(stack[u])'
  <2>1. PICK fs : stack' = [stack EXCEPT ![t] = fs] /\ \A i \in 1..Len(fs) : Told(t, fs[i].msg)
    BY SendOrCloseSays DEF SaysOn
  <2>2. CASE u = t
    <3>1. stack'[u] = fs
      BY <2>1, <2>2 DEF StackOK
    <3> QED
      BY <1>4, <2>1, <3>1 DEF FramesDrawn, DrawnIfAny, Drawn
  <2>3. CASE u # t
    BY <2>1, <2>3 DEF ServerDraws, FramesDrawn, DrawnIfAny, Drawn, StackOK
  <2> QED
    BY <2>2, <2>3
<1>6. sent' # NoMsg => Drawn(sent.msg)'
  BY SendOrCloseSays DEF SaysOn, ServerDraws, FramesDrawn, DrawnIfAny, Drawn
<1> QED
  BY <1>1, <1>2, <1>5, <1>6 DEF ServerDraws
-----------------------------------------------------------------------------
(* What the programs hold, write and read; ids are the call ids drawn      *)

Screen == {"login", "make call", "dialing", "incoming call", "video", "error"}
Hand == {"free", "accepting", "declining", "clearing"}
Place == {"ready", "over", "clear", "clear with alert", "rang", "bye", "logged in", "acked"}
Callback == [to : Screen, back : Screen \cup {""}, atLogin : BOOLEAN]
WrittenKind == {"REGISTER", "INVITE", "ACK", "BYE", "RINGING", "OK", "DECLINE"}

WrittenBy(u, ids) ==
  {m \in ClientMsg : m.from = u /\ m.what \in WrittenKind /\ m.cid \in ids /\ m.cseq > 0}
ReadFrom(ids) == {m \in ServerMsg : m.cid \in ids /\ m.cseq > 0}
ProgramCall(ids) ==
  [type : {"REGISTER", "INVITE"}, cid : ids, peer : Uri \cup {ServerUri},
   state : Programs!State, cseq : Nat \ {0}, data : ReadFrom(ids) \cup {NoMsg}]
LoopAt(ids) == [at : Place, msg : ReadFrom(ids) \cup {NoMsg}]

CallsTyped(ids) == myCall \in [Uri -> ProgramCall(ids) \cup {NoCall}]

ThreadsTyped(ids) ==
  /\ loop \in [Uri -> LoopAt(ids)]
  /\ screen \in [Uri -> Screen \cup {""}] /\ hand \in [Uri -> Hand]
  /\ \A u \in Uri : /\ (loop[u] # Programs!Over) <=> (screen[u] # "")
                    /\ hand[u] # "free" => screen[u] # ""

ScreensTyped ==
  /\ backTo \in [Uri -> Screen] /\ callbacks \in [Uri -> Seq(Callback)]
  /\ loggedIn \in [Uri -> BOOLEAN] /\ streaming \in [Uri -> BOOLEAN]

WiresTyped(ids) ==
  /\ toServer \in [Uri -> Seq(ClientMsg)]
  /\ \A u \in Uri : toServer[u] \in Seq(WrittenBy(u, ids))
  /\ toClient \in [Uri -> Seq(ReadFrom(ids))]

ProgramsTyped(ids) ==
  CallsTyped(ids) /\ ThreadsTyped(ids) /\ ScreensTyped /\ WiresTyped(ids)

\* More call ids may be drawn.
LEMMA SeqGrows ==
  ASSUME NEW S, NEW T, S \subseteq T, NEW q \in Seq(S)
  PROVE  q \in Seq(T)
  OBVIOUS

LEMMA TypesGrow ==
  ASSUME NEW ids, NEW more, ids \subseteq more, ProgramsTyped(ids)
  PROVE  ProgramsTyped(more)
<1>1. /\ ReadFrom(ids) \subseteq ReadFrom(more)
      /\ \A u \in Uri : WrittenBy(u, ids) \subseteq WrittenBy(u, more)
  BY DEF ReadFrom, WrittenBy
<1>2. ProgramCall(ids) \subseteq ProgramCall(more) /\ LoopAt(ids) \subseteq LoopAt(more)
  BY <1>1 DEF ProgramCall, LoopAt
<1>3. CallsTyped(more) /\ ThreadsTyped(more)
  BY <1>2 DEF ProgramsTyped, CallsTyped, ThreadsTyped
<1>4. WiresTyped(more)
  BY <1>1, SeqGrows DEF ProgramsTyped, WiresTyped
<1> QED
  BY <1>3, <1>4 DEF ProgramsTyped

-----------------------------------------------------------------------------
(* self.call *)

\* The assignments to fields of self.call, and a new one.
LEMMA CallField ==
  ASSUME NEW ids, NEW c \in ProgramCall(ids), NEW n \in Nat \ {0},
         NEW state \in Programs!State, NEW m \in ReadFrom(ids) \cup {NoMsg}
  PROVE  /\ [c EXCEPT !.cseq = n] \in ProgramCall(ids)
         /\ [c EXCEPT !.state = state] \in ProgramCall(ids)
         /\ [c EXCEPT !.cseq = n, !.state = state] \in ProgramCall(ids)
         /\ [c EXCEPT !.data = m] \in ProgramCall(ids)
  BY DEF ProgramCall

LEMMA NewCallTyped ==
  ASSUME NEW ids, NEW type \in {"REGISTER", "INVITE"}, NEW c \in ids,
         NEW peer \in Uri \cup {ServerUri}, NEW state \in Programs!State, NEW n \in Nat \ {0}
  PROVE  Programs!NewCall(type, c, peer, state, n) \in ProgramCall(ids)
  BY DEF Programs!NewCall, ProgramCall

\* The next message of the server.
LEMMA HeadRead ==
  ASSUME NEW ids, WiresTyped(ids), NEW u \in Uri, toClient[u] # <<>>
  PROVE  /\ Head(toClient[u]) \in ReadFrom(ids)
         /\ Tail(toClient[u]) \in Seq(ReadFrom(ids))
  BY HeadTailProperties DEF WiresTyped

\* What a program copies out of a message.
LEMMA ReadTyped ==
  ASSUME NEW ids, NEW m \in ReadFrom(ids)
  PROVE  /\ m.cid \in ids /\ m.cseq \in Nat \ {0} /\ m.cseq + 1 \in Nat \ {0}
         /\ m.from \in Uri \cup {ServerUri}
  BY DEF ReadFrom, ServerMsg

CallChanges(u, ids) ==
  \E c \in ProgramCall(ids) \cup {NoCall} : myCall' = [myCall EXCEPT ![u] = c]

LEMMA CallKept ==
  ASSUME NEW ids, CallsTyped(ids), NEW u \in Uri, myCall' = myCall
  PROVE  CallChanges(u, ids)
<1>1. myCall[u] \in ProgramCall(ids) \cup {NoCall} /\ myCall' = [myCall EXCEPT ![u] = myCall[u]]
  BY DEF CallsTyped
<1> QED
  BY <1>1 DEF CallChanges

\* The SIP thread, and the GUI thread, leave self.call a call.
LEMMA SipThreadCalls ==
  ASSUME NEW ids, CallsTyped(ids), ThreadsTyped(ids), WiresTyped(ids),
         NEW u \in Uri, Programs!SipThread(u)
  PROVE  CallChanges(u, ids)
<1> DEFINE m == Head(toClient[u])
           call == myCall[u]
<1>1. call # NoCall => call \in ProgramCall(ids) /\ call.cseq + 1 \in Nat \ {0}
  BY DEF CallsTyped, ProgramCall
<1>2. toClient[u] # <<>> => m \in ReadFrom(ids)
  BY HeadRead
<1>3. CASE \/ Programs!LoopClears(u) \/ Programs!InviteDeclined(u) \/ Programs!LoopRaises(u)
           \/ Programs!Ignored(u) \/ Programs!LoginGranted(u) \/ Programs!LoginRefused(u)
           \/ Programs!StreamStarts(u) \/ Programs!Unexpected(u)
  BY <1>3, CallKept
  DEF Programs!LoopClears, Programs!InviteDeclined, Programs!LoopRaises, Programs!Ignored,
      Programs!LoginGranted, Programs!LoginRefused, Programs!StreamStarts,
      Programs!Unexpected, Programs!sipVars
<1>4. CASE \/ Programs!ByeClears(u) \/ Programs!CallFails(u) \/ Programs!LoginClears(u)
           \/ Programs!CallEnded(u)
  BY <1>4 DEF CallChanges, Programs!ByeClears, Programs!CallFails, Programs!LoginClears,
              Programs!CallEnded
<1>5. CASE Programs!InviteRings(u)
  <2>1. toClient[u] # <<>> /\ myCall' = [myCall EXCEPT ![u] =
          Programs!NewCall("INVITE", m.cid, m.from, "RINGING", m.cseq)]
    BY <1>5 DEF Programs!InviteRings, Programs!Got
  <2> HIDE DEF m
  <2>2. Programs!NewCall("INVITE", m.cid, m.from, "RINGING", m.cseq) \in ProgramCall(ids)
    BY <1>2, <2>1, ReadTyped, NewCallTyped DEF Programs!State
  <2> QED
    BY <2>1, <2>2 DEF CallChanges
<1>6. CASE Programs!UserAsked(u)
  <2>1. call # NoCall /\ myCall' = [myCall EXCEPT ![u] = [call EXCEPT !.data = loop[u].msg]]
    BY <1>6 DEF Programs!UserAsked, Programs!Raises, CallsTyped
  <2>2. loop[u].msg \in ReadFrom(ids) \cup {NoMsg}
    BY DEF ThreadsTyped, LoopAt
  <2>3. [call EXCEPT !.data = loop[u].msg] \in ProgramCall(ids)
    BY <1>1, <2>1, <2>2, CallField DEF Programs!State
  <2> QED
    BY <2>1, <2>3 DEF CallChanges
<1>7. CASE Programs!Acknowledged(u) \/ Programs!ByeReceived(u)
  <2>1. /\ call # NoCall
        /\ myCall' = [myCall EXCEPT ![u] = [call EXCEPT !.cseq = call.cseq + 1]]
    BY <1>7 DEF Programs!Acknowledged, Programs!ByeReceived, Programs!IsMine, CallsTyped
  <2>2. [call EXCEPT !.cseq = call.cseq + 1] \in ProgramCall(ids)
    BY <1>1, <2>1, CallField DEF Programs!State
  <2> QED
    BY <2>1, <2>2 DEF CallChanges
<1>8. CASE Programs!ChallengeAnswered(u) \/ Programs!Answered(u)
  <2>1. /\ call # NoCall /\ toClient[u] # <<>>
        /\ myCall' = [myCall EXCEPT ![u] = [call EXCEPT !.cseq = m.cseq + 1]]
    BY <1>8 DEF Programs!ChallengeAnswered, Programs!Answered, Programs!Answers,
                Programs!Got, Programs!IsMine, CallsTyped
  <2> HIDE DEF m
  <2>2. [call EXCEPT !.cseq = m.cseq + 1] \in ProgramCall(ids)
    BY <1>1, <1>2, <2>1, ReadTyped, CallField DEF Programs!State
  <2> QED
    BY <2>1, <2>2 DEF CallChanges
<1>9. CASE Programs!Progress(u)
  <2>1. PICK state \in {"TRYING", "RINGING"} :
          myCall' = [myCall EXCEPT ![u] = [call EXCEPT !.state = state]]
    BY <1>9 DEF Programs!Progress, CallsTyped
  <2>2. call # NoCall
    BY <1>9 DEF Programs!Progress, Programs!IsInvite
  <2>3. [call EXCEPT !.state = state] \in ProgramCall(ids)
    BY <1>1, <2>2, CallField DEF Programs!State
  <2> QED
    BY <2>1, <2>3 DEF CallChanges
<1> QED
  BY <1>3, <1>4, <1>5, <1>6, <1>7, <1>8, <1>9 DEF Programs!SipThread

LEMMA GuiThreadCalls ==
  ASSUME NEW ids, CallsTyped(ids), CallId \ unused' \subseteq ids, unused \subseteq CallId,
         NEW u \in Uri, Programs!GuiProceeds(u) \/ Programs!UserActs(u)
  PROVE  CallChanges(u, ids)
<1> DEFINE call == myCall[u]
<1>1. call # NoCall => call \in ProgramCall(ids) /\ call.cseq + 1 \in Nat \ {0}
  BY DEF CallsTyped, ProgramCall
<1>2. CASE \/ Programs!CallbackRuns(u) \/ Programs!DeclineEnds(u) \/ Programs!Decline(u)
           \/ Programs!GoBack(u) \/ Programs!CloseWindow(u)
  BY <1>2, CallKept
  DEF Programs!CallbackRuns, Programs!DeclineEnds, Programs!Decline, Programs!GoBack,
      Programs!CloseWindow, Programs!sipVars
<1>3. CASE Programs!SignIn(u)
  <2>1. PICK c \in unused :
          /\ unused' = unused \ {c}
          /\ myCall' = [myCall EXCEPT ![u] =
                          Programs!NewCall("REGISTER", c, ServerUri, "WAITING_AUTH", 1)]
    BY <1>3 DEF Programs!SignIn
  <2>2. c \in ids
    BY <2>1
  <2>3. Programs!NewCall("REGISTER", c, ServerUri, "WAITING_AUTH", 1) \in ProgramCall(ids)
    <3>1. /\ "REGISTER" \in {"REGISTER", "INVITE"} /\ ServerUri \in Uri \cup {ServerUri}
          /\ "WAITING_AUTH" \in Programs!State /\ 1 \in Nat \ {0}
      BY DEF Programs!State
    <3> QED
      BY <2>2, <3>1, NewCallTyped
  <2> QED
    BY <2>1, <2>3 DEF CallChanges
<1>4. CASE Programs!Dial(u)
  <2>1. PICK c \in unused : \E v \in Uri \ {u} :
          /\ unused' = unused \ {c}
          /\ myCall' = [myCall EXCEPT ![u] =
                          Programs!NewCall("INVITE", c, v, "WAITING_AUTH", 1)]
    BY <1>4 DEF Programs!Dial
  <2>2. PICK v \in Uri \ {u} :
          /\ unused' = unused \ {c}
          /\ myCall' = [myCall EXCEPT ![u] =
                          Programs!NewCall("INVITE", c, v, "WAITING_AUTH", 1)]
    BY <2>1
  <2>3. c \in ids
    BY <2>2
  <2>4. Programs!NewCall("INVITE", c, v, "WAITING_AUTH", 1) \in ProgramCall(ids)
    BY <2>3, NewCallTyped DEF Programs!State
  <2> QED
    BY <2>2, <2>4 DEF CallChanges
<1>5. CASE Programs!Accept(u)
  <2>1. /\ call # NoCall
        /\ myCall' = [myCall EXCEPT ![u] = [call EXCEPT !.state = "WAITING_ACK"]]
    BY <1>5 DEF Programs!Accept, CallsTyped
  <2>2. [call EXCEPT !.state = "WAITING_ACK"] \in ProgramCall(ids)
    BY <1>1, <2>1, CallField DEF Programs!State
  <2> QED
    BY <2>1, <2>2 DEF CallChanges
<1>6. CASE Programs!AcceptEnds(u)
  <2>1. CASE call = NoCall
    BY <1>6, <2>1, CallKept DEF Programs!AcceptEnds
  <2>2. CASE call # NoCall
    <3>1. myCall' = [myCall EXCEPT ![u] = [call EXCEPT !.data = NoMsg]]
      BY <1>6, <2>2 DEF Programs!AcceptEnds, CallsTyped
    <3>2. [call EXCEPT !.data = NoMsg] \in ProgramCall(ids)
      BY <1>1, <2>2, CallField DEF Programs!State
    <3> QED
      BY <3>1, <3>2 DEF CallChanges
  <2> QED
    BY <2>1, <2>2
<1>7. CASE Programs!DeclineClears(u)
  BY <1>7 DEF Programs!DeclineClears, CallChanges
<1>8. CASE Programs!EndCall(u)
  <2>1. /\ call # NoCall
        /\ myCall' = [myCall EXCEPT ![u] =
                        [call EXCEPT !.cseq = call.cseq + 1, !.state = "WAITING_BYE"]]
    BY <1>8 DEF Programs!EndCall, CallsTyped
  <2>2. [call EXCEPT !.cseq = call.cseq + 1, !.state = "WAITING_BYE"] \in ProgramCall(ids)
    BY <1>1, <2>1, CallField DEF Programs!State
  <2> QED
    BY <2>1, <2>2 DEF CallChanges
<1> QED
  BY <1>2, <1>3, <1>4, <1>5, <1>6, <1>7, <1>8 DEF Programs!GuiProceeds, Programs!UserActs

LEMMA CallsStayTyped ==
  ASSUME NEW ids, CallsTyped(ids), NEW u \in Uri, CallChanges(u, ids)
  PROVE  CallsTyped(ids)'
  BY DEF CallsTyped, CallChanges

-----------------------------------------------------------------------------
(* The two threads of a program: a program runs just while it shows a      *)
(* screen, and the GUI thread is in a handler of one that runs             *)

\* The ways a step of a program that runs may move its threads and screen; and
\* the end of the program.
LEMMA LoopMoves ==
  ASSUME NEW ids, ThreadsTyped(ids), NEW u \in Uri, loop[u] # Programs!Over,
         NEW place \in LoopAt(ids), place # Programs!Over, Programs!Goto(u, place),
         screen' = screen, hand' = hand
  PROVE  ThreadsTyped(ids)'
  BY DEF ThreadsTyped, Programs!Goto

LEMMA HandMoves ==
  ASSUME NEW ids, ThreadsTyped(ids), NEW u \in Uri, loop[u] # Programs!Over,
         NEW h \in Hand, hand' = [hand EXCEPT ![u] = h], loop' = loop, screen' = screen
  PROVE  ThreadsTyped(ids)'
  BY DEF ThreadsTyped

LEMMA ScreenMoves ==
  ASSUME NEW ids, ThreadsTyped(ids), NEW u \in Uri, loop[u] # Programs!Over,
         NEW s \in Screen, screen' = [screen EXCEPT ![u] = s], loop' = loop, hand' = hand
  PROVE  ThreadsTyped(ids)'
  BY DEF ThreadsTyped, Screen

LEMMA ThreadsRest ==
  ASSUME NEW ids, ThreadsTyped(ids), loop' = loop, hand' = hand, screen' = screen
  PROVE  ThreadsTyped(ids)'
  BY DEF ThreadsTyped

LEMMA ThreadsStop ==
  ASSUME NEW ids, ThreadsTyped(ids), NEW u \in Uri, Programs!Stop(u)
  PROVE  ThreadsTyped(ids)'
  BY DEF ThreadsTyped, Programs!Stop, Programs!Goto, Programs!Over, Programs!At, LoopAt,
         Place, Hand

\* Where the SIP thread goes inside an iteration.
LEMMA PlacesTyped ==
  ASSUME NEW ids, NEW m \in ReadFrom(ids) \cup {NoMsg},
         NEW where \in {"clear", "clear with alert", "rang", "bye", "logged in", "acked"}
  PROVE  /\ Programs!At(where, m) \in LoopAt(ids) /\ Programs!At(where, m) # Programs!Over
         /\ Programs!Ready \in LoopAt(ids) /\ Programs!Ready # Programs!Over
  BY DEF LoopAt, Place, Programs!At, Programs!Ready, Programs!Over

\* The steps of the SIP thread and of the GUI thread.
LEMMA SipThreadThreads ==
  ASSUME NEW ids, ThreadsTyped(ids), WiresTyped(ids), NEW u \in Uri, Programs!SipThread(u)
  PROVE  ThreadsTyped(ids)'
<1> DEFINE m == Head(toClient[u])
<1>1. toClient[u] # <<>> => m \in ReadFrom(ids)
  BY HeadRead
<1>2. Programs!Ready # Programs!Over /\ Programs!Over.at = "over"
  BY DEF Programs!Ready, Programs!Over, Programs!At
<1>3. CASE \/ Programs!InviteDeclined(u) \/ Programs!Ignored(u) \/ Programs!Acknowledged(u)
           \/ Programs!ChallengeAnswered(u) \/ Programs!LoginRefused(u)
           \/ Programs!Progress(u) \/ Programs!Unexpected(u)
  BY <1>3, ThreadsRest
  DEF Programs!InviteDeclined, Programs!Ignored, Programs!Acknowledged,
      Programs!ChallengeAnswered, Programs!LoginRefused, Programs!Progress,
      Programs!Unexpected, Programs!screenVars
<1>4. CASE Programs!LoopRaises(u)
  BY <1>4, ThreadsStop DEF Programs!LoopRaises
<1>5. CASE \/ Programs!LoopClears(u) \/ Programs!UserAsked(u) \/ Programs!StreamStarts(u)
  <2>1. loop[u] # Programs!Over
    BY <1>2, <1>5 DEF Programs!LoopClears, Programs!UserAsked, Programs!StreamStarts
  <2>2. Programs!Goto(u, Programs!Ready) /\ screen' = screen /\ hand' = hand
    BY <1>5 DEF Programs!LoopClears, Programs!UserAsked, Programs!StreamStarts,
                Programs!screenVars
  <2> QED
    BY <2>1, <2>2, PlacesTyped, LoopMoves
<1>6. CASE \/ Programs!ByeClears(u) \/ Programs!LoginClears(u) \/ Programs!CallFails(u)
           \/ Programs!LoginGranted(u) \/ Programs!Answered(u) \/ Programs!CallEnded(u)
  <2>1. loop[u] # Programs!Over
    BY <1>2, <1>6 DEF Programs!ByeClears, Programs!LoginClears, Programs!CallFails,
                Programs!LoginGranted, Programs!Answered, Programs!CallEnded,
                Programs!Answers, Programs!Got
  <2>2. /\ \E where \in {"clear", "clear with alert", "logged in", "acked"} :
             Programs!Goto(u, Programs!At(where, NoMsg))
        /\ screen' = screen /\ hand' = hand
    BY <1>6 DEF Programs!ByeClears, Programs!LoginClears, Programs!CallFails,
                Programs!LoginGranted, Programs!Answered, Programs!CallEnded,
                Programs!screenVars
  <2> QED
    BY <2>1, <2>2, PlacesTyped, LoopMoves
<1>7. CASE Programs!InviteRings(u) \/ Programs!ByeReceived(u)
  <2>1. toClient[u] # <<>> /\ loop[u] # Programs!Over
    BY <1>2, <1>7 DEF Programs!InviteRings, Programs!ByeReceived, Programs!Got
  <2>2. /\ \E where \in {"rang", "bye"} : Programs!Goto(u, Programs!At(where, m))
        /\ screen' = screen /\ hand' = hand
    BY <1>7 DEF Programs!InviteRings, Programs!ByeReceived, Programs!screenVars
  <2> HIDE DEF m
  <2> QED
    BY <1>1, <2>1, <2>2, PlacesTyped, LoopMoves
<1> QED
  BY <1>3, <1>4, <1>5, <1>6, <1>7 DEF Programs!SipThread

LEMMA GuiThreadThreads ==
  ASSUME NEW ids, ThreadsTyped(ids), ScreensTyped, NEW u \in Uri,
         Programs!GuiProceeds(u) \/ Programs!UserActs(u)
  PROVE  ThreadsTyped(ids)'
<1>1. hand[u] # "free" => loop[u] # Programs!Over
  BY DEF ThreadsTyped
<1>2. CASE \/ Programs!SignIn(u) \/ Programs!Dial(u) \/ Programs!EndCall(u)
  BY <1>2, ThreadsRest DEF Programs!SignIn, Programs!Dial, Programs!EndCall
<1>3. CASE Programs!CloseWindow(u)
  BY <1>3, ThreadsStop DEF Programs!CloseWindow
<1>4. CASE Programs!GoBack(u)
  BY <1>4, ScreenMoves DEF Programs!GoBack, Programs!ScreenShown, Programs!Running,
                           ScreensTyped
<1>5. CASE Programs!CallbackRuns(u)
  <2>1. CASE UNCHANGED Programs!screenVars
    BY <1>5, <2>1, ThreadsRest DEF Programs!CallbackRuns, Programs!screenVars
  <2>2. CASE screen' = [screen EXCEPT ![u] = Head(callbacks[u]).to]
    <3>1. Head(callbacks[u]).to \in Screen
      <4>1. callbacks[u] \in Seq(Callback) /\ callbacks[u] # <<>>
        BY <1>5 DEF Programs!CallbackRuns, ScreensTyped
      <4>2. Head(callbacks[u]) \in Callback
        BY <4>1
      <4> QED
        BY <4>2 DEF Callback
    <3>2. loop[u] # Programs!Over /\ loop' = loop /\ hand' = hand
      BY <1>5 DEF Programs!CallbackRuns, Programs!Running
    <3> QED
      BY <2>2, <3>1, <3>2, ScreenMoves
  <2> QED
    BY <1>5, <2>1, <2>2 DEF Programs!CallbackRuns, Programs!ScreenShown
<1>6. CASE \/ Programs!AcceptEnds(u) \/ Programs!DeclineClears(u) \/ Programs!DeclineEnds(u)
           \/ Programs!Accept(u) \/ Programs!Decline(u)
  <2>1. loop[u] # Programs!Over
    BY <1>1, <1>6 DEF Programs!AcceptEnds, Programs!DeclineClears, Programs!DeclineEnds,
                      Programs!Accept, Programs!Decline, Programs!Click, Programs!Running
  <2>2. loop' = loop /\ screen' = screen
    BY <1>6 DEF Programs!AcceptEnds, Programs!DeclineClears, Programs!DeclineEnds,
                Programs!Accept, Programs!Decline, Programs!screenVars
  <2>3. hand' = hand \/ \E h \in Hand : hand' = [hand EXCEPT ![u] = h]
    BY <1>6 DEF Programs!AcceptEnds, Programs!DeclineClears, Programs!DeclineEnds,
                Programs!Accept, Programs!Decline, Hand
  <2> QED
    BY <2>1, <2>2, <2>3, ThreadsRest, HandMoves
<1> QED
  BY <1>2, <1>3, <1>4, <1>5, <1>6 DEF Programs!GuiProceeds, Programs!UserActs

-----------------------------------------------------------------------------
(* Callbacks, where an error returns to, the media *)

\* The callbacks that the mediator leaves.
LEMMA CallbacksTyped ==
  ASSUME ScreensTyped, NEW u \in Uri
  PROVE  /\ Programs!Home(u) \in Screen
         /\ \A s \in Screen : /\ Programs!Show(s) \in Callback
                              /\ Programs!DisplayError(s) \in Callback
                              /\ Programs!SignInAnswer(s) \in Callback
         /\ Programs!DisplayError("") \in Callback
  BY DEF Screen, Callback, Programs!Home, Programs!Show, Programs!DisplayError,
         Programs!SignInAnswer

\* What a step may do to them, but for the callback that runs and the end.
Notes(u) ==
  /\ callbacks' = callbacks \/ \E cb \in Callback : Programs!Leave(u, cb)
  /\ loggedIn' = loggedIn \/ loggedIn' = [loggedIn EXCEPT ![u] = TRUE]
  /\ streaming' = streaming \/ \E b \in BOOLEAN : streaming' = [streaming EXCEPT ![u] = b]
  /\ backTo' = backTo

LEMMA NotesTyped ==
  ASSUME ScreensTyped, NEW u \in Uri, Notes(u)
  PROVE  ScreensTyped'
<1>1. callbacks' \in [Uri -> Seq(Callback)]
  <2>1. ASSUME NEW cb \in Callback, Programs!Leave(u, cb)
        PROVE  callbacks' \in [Uri -> Seq(Callback)]
    <3>1. callbacks[u] \in Seq(Callback)
      BY DEF ScreensTyped
    <3>2. Append(callbacks[u], cb) \in Seq(Callback)
      BY <3>1
    <3> QED
      BY <2>1, <3>2 DEF ScreensTyped, Programs!Leave
  <2> QED
    BY <2>1 DEF Notes, ScreensTyped
<1> QED
  BY <1>1 DEF Notes, ScreensTyped

\* clear_call, and the end of the program.
LEMMA ClearedNotes ==
  ASSUME ScreensTyped, NEW u \in Uri, NEW alert, Programs!Cleared(u, alert),
         loggedIn' = loggedIn, backTo' = backTo
  PROVE  Notes(u)
  BY CallbacksTyped DEF Programs!Cleared, Notes

LEMMA StopTyped ==
  ASSUME ScreensTyped, NEW u \in Uri, Programs!Stop(u)
  PROVE  ScreensTyped'
<1>1. <<>> \in Seq(Callback)
  OBVIOUS
<1> QED
  BY <1>1 DEF ScreensTyped, Programs!Stop

\* The steps of the SIP thread and of the GUI thread.
LEMMA SipThreadScreens ==
  ASSUME ScreensTyped, NEW u \in Uri, Programs!SipThread(u)
  PROVE  ScreensTyped'
<1>1. CASE Programs!LoopRaises(u)
  BY <1>1, StopTyped DEF Programs!LoopRaises
<1>2. CASE Programs!LoopClears(u)
  BY <1>2, ClearedNotes, NotesTyped DEF Programs!LoopClears, Programs!screenVars
<1>3. CASE \/ Programs!InviteDeclined(u) \/ Programs!InviteRings(u) \/ Programs!Ignored(u)
           \/ Programs!ByeReceived(u) \/ Programs!ByeClears(u)
           \/ Programs!ChallengeAnswered(u) \/ Programs!CallFails(u)
           \/ Programs!LoginClears(u) \/ Programs!Answered(u) \/ Programs!CallEnded(u)
  <2>1. Notes(u)
    BY <1>3
    DEF Notes, Programs!InviteDeclined, Programs!InviteRings, Programs!Ignored,
        Programs!ByeReceived, Programs!ByeClears, Programs!ChallengeAnswered,
        Programs!CallFails, Programs!LoginClears, Programs!Answered, Programs!CallEnded,
        Programs!sipVars, Programs!screenVars
  <2> QED
    BY <2>1, NotesTyped
<1>4. CASE \/ Programs!UserAsked(u) \/ Programs!Acknowledged(u) \/ Programs!LoginGranted(u)
           \/ Programs!LoginRefused(u) \/ Programs!Progress(u)
           \/ Programs!StreamStarts(u) \/ Programs!Unexpected(u)
  <2>1. {"incoming call", "video", "make call", "error", "dialing"} \subseteq Screen
    BY DEF Screen
  <2>2. \/ callbacks' = callbacks
        \/ \E cb \in Callback : Programs!Leave(u, cb)
    BY <1>4, <2>1, CallbacksTyped
    DEF Programs!UserAsked, Programs!Acknowledged, Programs!LoginGranted,
        Programs!LoginRefused, Programs!Progress, Programs!StreamStarts,
        Programs!Unexpected, Programs!StartStream
  <2>3. Notes(u)
    BY <1>4, <2>2
    DEF Notes, Programs!UserAsked, Programs!Acknowledged, Programs!LoginGranted,
        Programs!LoginRefused, Programs!Progress, Programs!StreamStarts,
        Programs!Unexpected, Programs!StartStream, Programs!sipVars, Programs!screenVars
  <2> QED
    BY <2>3, NotesTyped
<1> QED
  BY <1>1, <1>2, <1>3, <1>4 DEF Programs!SipThread

LEMMA GuiThreadScreens ==
  ASSUME NEW ids, ThreadsTyped(ids), ScreensTyped, NEW u \in Uri,
         Programs!GuiProceeds(u) \/ Programs!UserActs(u)
  PROVE  ScreensTyped'
<1>1. CASE Programs!CloseWindow(u)
  BY <1>1, StopTyped DEF Programs!CloseWindow
<1>2. CASE Programs!DeclineEnds(u)
  BY <1>2, ClearedNotes, NotesTyped DEF Programs!DeclineEnds, Programs!screenVars
<1>3. CASE Programs!CallbackRuns(u)
  <2> DEFINE cb == Head(callbacks[u])
             back == IF cb.back = "" THEN screen[u] ELSE cb.back
  <2>1. callbacks[u] \in Seq(Callback) /\ callbacks[u] # <<>> /\ screen[u] # ""
    BY <1>3 DEF Programs!CallbackRuns, ScreensTyped, ThreadsTyped, Programs!Running
  <2>2. cb \in Callback /\ Tail(callbacks[u]) \in Seq(Callback)
    BY <2>1, HeadTailProperties
  <2>3. screen[u] \in Screen
    BY <2>1 DEF ThreadsTyped
  <2>4. back \in Screen
    <3> HIDE DEF cb
    <3> QED
      BY <2>2, <2>3 DEF Callback
  <2>5. backTo' = backTo \/ backTo' = [backTo EXCEPT ![u] = back]
    BY <1>3 DEF Programs!CallbackRuns, Programs!screenVars
  <2>6. /\ callbacks' = [callbacks EXCEPT ![u] = Tail(callbacks[u])]
        /\ loggedIn' = loggedIn /\ streaming' = streaming
    BY <1>3 DEF Programs!CallbackRuns, Programs!sipVars
  <2> HIDE DEF cb, back
  <2> QED
    BY <2>2, <2>4, <2>5, <2>6 DEF ScreensTyped
<1>4. CASE \/ Programs!AcceptEnds(u) \/ Programs!DeclineClears(u) \/ Programs!SignIn(u)
           \/ Programs!Dial(u) \/ Programs!Accept(u) \/ Programs!Decline(u)
           \/ Programs!EndCall(u) \/ Programs!GoBack(u)
  BY <1>4
  DEF ScreensTyped, Programs!AcceptEnds, Programs!DeclineClears, Programs!SignIn,
      Programs!Dial, Programs!Accept, Programs!Decline, Programs!EndCall, Programs!GoBack,
      Programs!sipVars, Programs!screenVars
<1> QED
  BY <1>1, <1>2, <1>3, <1>4 DEF Programs!GuiProceeds, Programs!UserActs

-----------------------------------------------------------------------------
(* What the programs write *)

\* The requests and responses that a program builds are in its own name, and of
\* a call that has been drawn.
LEMMA WithoutBody ==
  ASSUME NEW ids, NEW u, NEW m \in WrittenBy(u, ids)
  PROVE  [m EXCEPT !.body = FALSE] \in WrittenBy(u, ids)
  BY DEF WrittenBy, ClientMsg

LEMMA RequestWritten ==
  ASSUME NEW ids \in SUBSET CallId, NEW u \in Uri, NEW call \in ProgramCall(ids),
         NEW what \in {"REGISTER", "INVITE", "ACK", "BYE"},
         NEW auth \in {"none", "wrong", "right"}
  PROVE  /\ Programs!Request(u, what, call, auth) \in WrittenBy(u, ids)
         /\ [Programs!Request(u, what, call, auth) EXCEPT !.body = FALSE]
              \in WrittenBy(u, ids)
<1> DEFINE request(body) ==
             [what |-> what, cid |-> call.cid, cseq |-> call.cseq, from |-> u,
              to |-> call.peer, auth |-> auth, body |-> body]
<1>1. /\ call.cid \in ids /\ call.cid \in CallId \cup {KeepAliveId}
      /\ call.cseq \in Nat /\ call.cseq > 0 /\ call.peer \in Uri \cup {ServerUri}
  BY DEF ProgramCall
<1>2. what \in WrittenKind /\ what \in RequestKind \cup ResponseKind
  BY DEF WrittenKind, RequestKind
<1>3. ASSUME NEW body \in BOOLEAN
      PROVE  request(body) \in WrittenBy(u, ids)
  <2>1. request(body) \in ClientMsg
    BY <1>1, <1>2 DEF ClientMsg
  <2> QED
    BY <1>1, <1>2, <2>1 DEF WrittenBy
<1>4. Programs!Request(u, what, call, auth) = request(what = "INVITE")
  BY Zenon DEF Programs!Request
<1>5. (what = "INVITE") \in BOOLEAN
  OBVIOUS
<1> HIDE DEF request
<1>6. Programs!Request(u, what, call, auth) \in WrittenBy(u, ids)
  BY <1>3, <1>4, <1>5
<1> QED
  BY <1>6, WithoutBody

LEMMA ResponseWritten ==
  ASSUME NEW ids \in SUBSET CallId, NEW u \in Uri, NEW m \in ReadFrom(ids),
         NEW what \in {"RINGING", "OK", "DECLINE"}
  PROVE  Programs!Response(u, m, what) \in WrittenBy(u, ids)
  BY DEF Programs!Response, WrittenBy, WrittenKind, ClientMsg, ServerMsg, ResponseKind,
         ReadFrom

\* What a step may do to the wires of the program of u, but for the end.
Talks(u, ids) ==
  /\ toServer' = toServer \/ \E m \in WrittenBy(u, ids) : Programs!Transmit(u, m)
  /\ toClient' = toClient \/ (toClient[u] # <<>> /\ Programs!Consume(u))

\* Writing and reading; the end of the program.
LEMMA TransmitTyped ==
  ASSUME NEW ids, WiresTyped(ids), NEW u \in Uri, NEW m \in WrittenBy(u, ids),
         Programs!Transmit(u, m)
  PROVE  /\ toServer' \in [Uri -> Seq(ClientMsg)]
         /\ \A v \in Uri : toServer'[v] \in Seq(WrittenBy(v, ids))
<1>1. toServer' = [toServer EXCEPT ![u] = Append(toServer[u], m)] /\ m \in ClientMsg
  BY DEF Programs!Transmit, WrittenBy
<1>2. toServer[u] \in Seq(ClientMsg) /\ toServer[u] \in Seq(WrittenBy(u, ids))
  BY DEF WiresTyped
<1>3. /\ Append(toServer[u], m) \in Seq(ClientMsg)
      /\ Append(toServer[u], m) \in Seq(WrittenBy(u, ids))
  BY <1>1, <1>2
<1> QED
  BY <1>1, <1>3 DEF WiresTyped

LEMMA TalksTyped ==
  ASSUME NEW ids, WiresTyped(ids), NEW u \in Uri, Talks(u, ids)
  PROVE  WiresTyped(ids)'
<1>1. toClient' \in [Uri -> Seq(ReadFrom(ids))]
  <2>1. CASE toClient[u] # <<>> /\ Programs!Consume(u)
    BY <2>1, HeadRead DEF Programs!Consume, WiresTyped
  <2> QED
    BY <2>1 DEF Talks, WiresTyped
<1> QED
  BY <1>1, TransmitTyped DEF Talks, WiresTyped

LEMMA StopWires ==
  ASSUME NEW ids, WiresTyped(ids), NEW u \in Uri, Programs!Stop(u)
  PROVE  WiresTyped(ids)'
<1>1. <<>> \in Seq(ReadFrom(ids))
  OBVIOUS
<1> QED
  BY <1>1 DEF WiresTyped, Programs!Stop

\* The steps of the SIP thread and of the GUI thread.
LEMMA SipThreadWires ==
  ASSUME NEW ids \in SUBSET CallId, CallsTyped(ids), WiresTyped(ids),
         NEW u \in Uri, Programs!SipThread(u)
  PROVE  WiresTyped(ids)'
<1> DEFINE m == Head(toClient[u])
           call == myCall[u]
<1>1. call # NoCall => call \in ProgramCall(ids)
  BY DEF CallsTyped
<1>2. toClient[u] # <<>> => m \in ReadFrom(ids)
  BY HeadRead
<1>3. CASE Programs!LoopRaises(u)
  BY <1>3, StopWires DEF Programs!LoopRaises
<1>4. CASE \/ Programs!LoopClears(u) \/ Programs!UserAsked(u) \/ Programs!ByeClears(u)
           \/ Programs!LoginClears(u) \/ Programs!StreamStarts(u)
  BY <1>4, TalksTyped
  DEF Talks, Programs!LoopClears, Programs!UserAsked, Programs!ByeClears,
      Programs!LoginClears, Programs!StreamStarts
<1>5. CASE \/ Programs!Ignored(u) \/ Programs!Acknowledged(u) \/ Programs!CallFails(u)
           \/ Programs!LoginGranted(u) \/ Programs!LoginRefused(u)
           \/ Programs!Progress(u) \/ Programs!CallEnded(u) \/ Programs!Unexpected(u)
  <2>1. toClient[u] # <<>> /\ Programs!Consume(u) /\ toServer' = toServer
    BY <1>5
    DEF Programs!Ignored, Programs!Acknowledged, Programs!CallFails,
        Programs!LoginGranted, Programs!LoginRefused, Programs!Progress,
        Programs!CallEnded, Programs!Unexpected, Programs!Answers, Programs!Got
  <2> QED
    BY <2>1, TalksTyped DEF Talks
<1>6. CASE \/ Programs!InviteDeclined(u) \/ Programs!InviteRings(u)
           \/ Programs!ByeReceived(u)
  <2>1. /\ toClient[u] # <<>> /\ Programs!Consume(u)
        /\ \E what \in {"RINGING", "OK", "DECLINE"} :
             Programs!Transmit(u, Programs!Response(u, m, what))
    BY <1>6 DEF Programs!InviteDeclined, Programs!InviteRings, Programs!ByeReceived,
                Programs!Got
  <2> HIDE DEF m
  <2> QED
    BY <1>2, <2>1, ResponseWritten, TalksTyped DEF Talks
<1>7. CASE Programs!ChallengeAnswered(u) \/ Programs!Answered(u)
  <2> DEFINE next == [call EXCEPT !.cseq = m.cseq + 1]
             to == [next EXCEPT !.peer = m.from]
  <2>1. call # NoCall /\ toClient[u] # <<>> /\ Programs!Consume(u)
    BY <1>7 DEF Programs!ChallengeAnswered, Programs!Answered, Programs!Answers,
                Programs!Got, Programs!IsMine
  <2>2. next \in ProgramCall(ids) /\ next.type = call.type
    <3> HIDE DEF m
    <3>1. next \in ProgramCall(ids)
      BY <1>1, <1>2, <2>1, ReadTyped, CallField DEF Programs!State
    <3> QED
      BY <1>1, <2>1, <3>1 DEF ProgramCall
  <2>3. to \in ProgramCall(ids)
    <3> HIDE DEF m, next
    <3>1. m.from \in Uri \cup {ServerUri}
      BY <1>2, <2>1, ReadTyped
    <3> QED
      BY <2>2, <3>1 DEF ProgramCall
  <2>4. call.type \in {"REGISTER", "INVITE", "ACK", "BYE"}
    BY <1>1, <2>1 DEF ProgramCall
  <2>5. \/ \E auth \in Passwords :
             Programs!Transmit(u, [Programs!Request(u, call.type, to, auth)
                                     EXCEPT !.body = FALSE])
        \/ Programs!Transmit(u, Programs!Request(u, "ACK", to, "none"))
    BY <1>7, <2>2 DEF Programs!ChallengeAnswered, Programs!Answered
  <2> HIDE DEF to, next, m
  <2>6. PICK w \in WrittenBy(u, ids) : Programs!Transmit(u, w)
    BY <2>3, <2>4, <2>5, RequestWritten, PasswordsAssumption
  <2> QED
    BY <2>1, <2>6, TalksTyped DEF Talks
<1> QED
  BY <1>3, <1>4, <1>5, <1>6, <1>7 DEF Programs!SipThread

LEMMA GuiThreadWires ==
  ASSUME NEW ids \in SUBSET CallId, CallsTyped(ids), WiresTyped(ids),
         CallId \ unused' \subseteq ids, unused \subseteq CallId,
         NEW u \in Uri, Programs!GuiProceeds(u) \/ Programs!UserActs(u)
  PROVE  WiresTyped(ids)'
<1> DEFINE call == myCall[u]
<1>1. call # NoCall => call \in ProgramCall(ids) /\ call.cseq + 1 \in Nat \ {0}
  BY DEF CallsTyped, ProgramCall
<1>2. CASE Programs!CloseWindow(u)
  BY <1>2, StopWires DEF Programs!CloseWindow
<1>3. CASE \/ Programs!CallbackRuns(u) \/ Programs!AcceptEnds(u)
           \/ Programs!DeclineClears(u) \/ Programs!DeclineEnds(u) \/ Programs!GoBack(u)
  BY <1>3, TalksTyped
  DEF Talks, Programs!CallbackRuns, Programs!AcceptEnds, Programs!DeclineClears,
      Programs!DeclineEnds, Programs!GoBack
<1>4. CASE Programs!SignIn(u) \/ Programs!Dial(u)
  <2>1. PICK c \in unused, peer \in Uri \cup {ServerUri}, type \in {"REGISTER", "INVITE"} :
          /\ unused' = unused \ {c} /\ toClient' = toClient
          /\ Programs!Transmit(u, Programs!Request(u, type,
               Programs!NewCall(type, c, peer, "WAITING_AUTH", 1), "none"))
    BY <1>4 DEF Programs!SignIn, Programs!Dial
  <2> DEFINE new == Programs!NewCall(type, c, peer, "WAITING_AUTH", 1)
  <2>2. c \in ids /\ "WAITING_AUTH" \in Programs!State /\ 1 \in Nat \ {0}
    BY <2>1 DEF Programs!State
  <2>3. new \in ProgramCall(ids)
    BY <2>2, NewCallTyped
  <2> HIDE DEF new
  <2>4. Programs!Request(u, type, new, "none") \in WrittenBy(u, ids)
    BY <2>3, RequestWritten
  <2> QED
    BY <2>1, <2>4, TalksTyped DEF Talks, new
<1>5. CASE Programs!Accept(u) \/ Programs!Decline(u)
  <2>1. toClient' = toClient
    BY <1>5 DEF Programs!Accept, Programs!Decline
  <2>2. \/ toServer' = toServer
        \/ /\ call # NoCall /\ call.data # NoMsg
           /\ \E what \in {"OK", "DECLINE"} :
                Programs!Transmit(u, Programs!Response(u, call.data, what))
    BY <1>5 DEF Programs!Accept, Programs!Decline
  <2>3. call # NoCall /\ call.data # NoMsg => call.data \in ReadFrom(ids)
    BY <1>1 DEF ProgramCall
  <2> QED
    BY <2>1, <2>2, <2>3, ResponseWritten, TalksTyped DEF Talks
<1>6. CASE Programs!EndCall(u)
  <2> DEFINE next == [call EXCEPT !.cseq = call.cseq + 1, !.state = "WAITING_BYE"]
  <2>1. /\ call # NoCall /\ toClient' = toClient
        /\ Programs!Transmit(u, Programs!Request(u, "BYE", next, "none"))
    BY <1>6 DEF Programs!EndCall
  <2>2. next \in ProgramCall(ids)
    BY <1>1, <2>1, CallField DEF Programs!State
  <2> HIDE DEF next
  <2>3. Programs!Request(u, "BYE", next, "none") \in WrittenBy(u, ids)
    BY <2>2, RequestWritten
  <2> QED
    BY <2>1, <2>3, TalksTyped DEF Talks
<1> QED
  BY <1>2, <1>3, <1>4, <1>5, <1>6 DEF Programs!GuiProceeds, Programs!UserActs

-----------------------------------------------------------------------------
(* The inductive invariant: ids are those drawn.  The types of the server  *)
(* are part of it, for what the server sends is what the programs read;    *)
(* and the programs' types part of what bounds the call ids of the server. *)

Ids == CallId \ unused

WholeTyped ==
  Shape /\ unused \subseteq CallId /\ ServerDraws /\ ProgramsTyped(Ids)

\* Drawing a call-id takes none back.
LEMMA DrawsGrow ==
  ASSUME ServerDraws, unused' \subseteq unused, UNCHANGED vars
  PROVE  ServerDraws'
<1>1. /\ \A m : Drawn(m) => Drawn(m)'
      /\ calls' = calls /\ task' = task /\ stack' = stack /\ sent' = sent
  BY DEF Drawn, vars, callVars, threadVars
<1> QED
  BY <1>1 DEF ServerDraws, FramesDrawn, DrawnIfAny, Known

LEMMA UnusedShrinks ==
  ASSUME Programs!Next
  PROVE  unused' \subseteq unused
<1>1. PICK u \in Uri : Programs!SipThread(u) \/ Programs!GuiProceeds(u) \/ Programs!UserActs(u)
  BY DEF Programs!Next, Programs!Proceeds
<1>2. CASE Programs!SipThread(u)
  BY <1>2
  DEF Programs!SipThread, Programs!LoopClears, Programs!InviteDeclined, Programs!InviteRings,
      Programs!UserAsked, Programs!LoopRaises, Programs!Ignored, Programs!Acknowledged,
      Programs!ByeReceived, Programs!ByeClears, Programs!ChallengeAnswered,
      Programs!CallFails, Programs!LoginGranted, Programs!LoginClears,
      Programs!LoginRefused, Programs!Progress, Programs!Answered, Programs!StreamStarts,
      Programs!CallEnded, Programs!Unexpected, Programs!Stop
<1>3. CASE Programs!GuiProceeds(u) \/ Programs!UserActs(u)
  BY <1>3
  DEF Programs!GuiProceeds, Programs!UserActs, Programs!CallbackRuns, Programs!AcceptEnds,
      Programs!DeclineClears, Programs!DeclineEnds, Programs!SignIn, Programs!Dial,
      Programs!Accept, Programs!Decline, Programs!EndCall, Programs!GoBack,
      Programs!CloseWindow, Programs!Stop
<1> QED
  BY <1>1, <1>2, <1>3

\* The parts of the invariant after a step, with the ids drawn by then.
LEMMA TypedPrimed ==
  ASSUME NEW ids, ids = CallId \ unused', CallsTyped(ids)', ThreadsTyped(ids)',
         ScreensTyped', WiresTyped(ids)', Shape', unused' \subseteq CallId, ServerDraws'
  PROVE  WholeTyped'
<1>1. ProgramsTyped(ids)'
  BY DEF ProgramsTyped
<1>2. Ids' = ids
  BY DEF Ids
<1> HIDE DEF Ids
<1>3. ProgramsTyped(Ids)'
  BY <1>1, <1>2 DEF ProgramsTyped, CallsTyped, ThreadsTyped, ScreensTyped, WiresTyped
<1> QED
  BY <1>3 DEF WholeTyped

\* The steps of the programs, the server's, and the initial state.
LEMMA ProgramStepTyped ==
  ASSUME WholeTyped, ProgramStep
  PROVE  WholeTyped'
<1>1. unused' \subseteq unused /\ UNCHANGED vars
  BY UnusedShrinks DEF ProgramStep, ServerRests
<1>2. ServerDraws' /\ unused' \subseteq CallId /\ Shape'
  BY <1>1, DrawsGrow, StutterTypes DEF WholeTyped
<1>3. PICK ids \in SUBSET CallId : ids = CallId \ unused'
  OBVIOUS
<1>4. ProgramsTyped(ids)
  BY <1>1, <1>3, TypesGrow DEF WholeTyped, Ids
<1>5. PICK u \in Uri : Programs!SipThread(u) \/ Programs!GuiProceeds(u) \/ Programs!UserActs(u)
  BY DEF ProgramStep, Programs!Next, Programs!Proceeds
<1>6. CallId \ unused' \subseteq ids /\ unused \subseteq CallId
  BY <1>3 DEF WholeTyped
<1>7. CallsTyped(ids) /\ ThreadsTyped(ids) /\ ScreensTyped /\ WiresTyped(ids)
  BY <1>4 DEF ProgramsTyped
<1>8. CASE Programs!SipThread(u)
  <2>1. CallsTyped(ids)'
    BY <1>7, <1>8, SipThreadCalls, CallsStayTyped
  <2>2. ThreadsTyped(ids)' /\ ScreensTyped' /\ WiresTyped(ids)'
    BY <1>4, <1>7, <1>8, SipThreadThreads, SipThreadScreens, SipThreadWires
  <2> QED
    BY <1>2, <1>3, <2>1, <2>2, TypedPrimed
<1>9. CASE Programs!GuiProceeds(u) \/ Programs!UserActs(u)
  <2>1. CallsTyped(ids)'
    BY <1>6, <1>7, <1>9, GuiThreadCalls, CallsStayTyped
  <2>2. ThreadsTyped(ids)' /\ ScreensTyped' /\ WiresTyped(ids)'
    BY <1>4, <1>6, <1>7, <1>9, GuiThreadThreads, GuiThreadScreens, GuiThreadWires
  <2> QED
    BY <1>2, <1>3, <2>1, <2>2, TypedPrimed
<1> QED
  BY <1>5, <1>8, <1>9

\* The server's threads leave the programs alone, but for what they send.
LEMMA ProgramsRest ==
  ASSUME ProgramsTyped(Ids), UNCHANGED programVars, toServer' = toServer, toClient' = toClient
  PROVE  ProgramsTyped(Ids)'
<1>1. Ids' = Ids
  BY DEF Ids, programVars
<1> HIDE DEF Ids
<1> QED
  BY <1>1 DEF ProgramsTyped, CallsTyped, ThreadsTyped, ScreensTyped, WiresTyped,
              programVars, screenVars

\* A socket has its user.
LEMMA UserOfSocket ==
  ASSUME NEW s \in Sock
  PROVE  UserOf(s) \in Uri /\ SocketOf[UserOf(s)] = s
  BY SocketAssumption DEF UserOf

LEMMA ServerThreadTyped ==
  ASSUME WholeTyped, NEW t \in Thread, ServerThread(t)
  PROVE  WholeTyped'
<1>1. [Next]_vars /\ unused' = unused /\ UNCHANGED programVars /\ toServer' = toServer
  BY DEF ServerThread, Next, programVars
<1>2. Shape'
  BY <1>1, NextTypes DEF WholeTyped
<1>3. ServerDraws'
  BY <1>1, HandleDraws, ClosesDraw DEF WholeTyped, ServerThread
<1>4. Ids' = Ids
  BY <1>1 DEF Ids
<1>5. toClient' \in [Uri -> Seq(ReadFrom(Ids))]
  <2> DEFINE u == UserOf(sent'.to)
  <2>1. toClient \in [Uri -> Seq(ReadFrom(Ids))]
    BY DEF WholeTyped, ProgramsTyped, WiresTyped
  <2>2. CASE toClient' = toClient
    BY <2>1, <2>2
  <2>3. CASE sent' # NoMsg /\ toClient' = [toClient EXCEPT ![u] = Append(@, sent'.msg)]
    <3>1. sent' \in [to : Sock, msg : ServerMsg]
      BY <1>2, <2>3 DEF Shape, TypeOK, SentOK
    <3>2. sent'.msg.cid \in CallId \ unused' /\ sent'.msg.cseq > 0
      BY <1>3, <2>3 DEF ServerDraws, Drawn
    <3>3. sent'.msg \in ReadFrom(Ids)
      BY <1>1, <3>1, <3>2 DEF ReadFrom, Ids
    <3>4. u \in Uri
      BY <3>1, UserOfSocket
    <3> HIDE DEF u
    <3>5. toClient[u] \in Seq(ReadFrom(Ids))
      BY <2>1, <3>4
    <3>6. Append(toClient[u], sent'.msg) \in Seq(ReadFrom(Ids))
      BY <3>3, <3>5
    <3> QED
      BY <2>1, <2>3, <3>6
  <2> QED
    BY <2>2, <2>3 DEF ServerThread, Arrives
<1> HIDE DEF Ids
<1>6. ProgramsTyped(Ids)'
  BY <1>1, <1>4, <1>5 DEF WholeTyped, ProgramsTyped, CallsTyped, ThreadsTyped, ScreensTyped,
                          WiresTyped, programVars, screenVars
<1> QED
  BY <1>1, <1>2, <1>3, <1>6 DEF WholeTyped

LEMMA ServerReadsTyped ==
  ASSUME WholeTyped, NEW w \in Worker, ServerReads(w)
  PROVE  WholeTyped'
<1> DEFINE u == UserOf(main.sock)
           m == Head(toServer[u])
<1>1. [Next]_vars /\ unused' = unused /\ UNCHANGED programVars /\ toClient' = toClient
  BY DEF ServerReads, Next, MainLoop, programVars
<1>2. Shape'
  BY <1>1, NextTypes DEF WholeTyped
<1>3. Ids' = Ids
  BY <1>1 DEF Ids
<1>4. u \in Uri /\ toServer[u] # <<>>
  <2>1. main.sock \in Sock
    BY DEF WholeTyped, Shape, TypeOK, LoopOK, ServerReads, Receive
  <2> QED
    BY <2>1, UserOfSocket DEF ServerReads
<1>5. toServer' = [toServer EXCEPT ![u] = Tail(toServer[u])] /\ task'[w].msg = m
  BY DEF ServerReads
<1>6. toServer \in [Uri -> Seq(ClientMsg)] /\ \A v \in Uri : toServer[v] \in Seq(WrittenBy(v, Ids))
  BY DEF WholeTyped, ProgramsTyped, WiresTyped
<1> HIDE DEF Ids, u
<1>7. m \in WrittenBy(u, Ids) /\ Tail(toServer[u]) \in Seq(WrittenBy(u, Ids))
  <2>1. toServer[u] \in Seq(WrittenBy(u, Ids)) /\ toServer[u] # <<>>
    BY <1>4, <1>6
  <2> QED
    BY <2>1, HeadTailProperties
<1>8. Tail(toServer[u]) \in Seq(ClientMsg)
  <2>1. toServer[u] \in Seq(ClientMsg) /\ toServer[u] # <<>>
    BY <1>4, <1>6
  <2> QED
    BY <2>1, HeadTailProperties
<1>9. ProgramsTyped(Ids)'
  <2>1. WiresTyped(Ids)'
    <3>1. /\ toServer' \in [Uri -> Seq(ClientMsg)]
          /\ \A v \in Uri : toServer'[v] \in Seq(WrittenBy(v, Ids))
      BY <1>5, <1>6, <1>7, <1>8
    <3>2. toClient \in [Uri -> Seq(ReadFrom(Ids))]
      BY DEF WholeTyped, ProgramsTyped, WiresTyped
    <3> QED
      BY <1>1, <1>3, <3>1, <3>2 DEF WiresTyped
  <2> QED
    BY <1>1, <1>3, <2>1 DEF WholeTyped, ProgramsTyped, CallsTyped, ThreadsTyped, ScreensTyped,
                            programVars, screenVars
<1>10. ServerDraws'
  <2>1. Drawn(m)
    BY <1>7 DEF WrittenBy, Drawn, Ids
  <2> HIDE DEF m
  <2>2. /\ calls' = calls /\ stack' = stack /\ sent' = NoMsg
        /\ \E new : task' = [task EXCEPT ![w] = new]
    BY DEF ServerReads, Receive, Quiet, callVars
  <2>3. ASSUME NEW v \in Worker, task'[v].stage # "idle"
        PROVE  Drawn(task[v].msg)'
    <3>1. CASE v = w
      BY <1>1, <1>5, <2>1, <3>1 DEF Drawn
    <3>2. CASE v # w
      <4>1. task'[v] = task[v]
        BY <2>2, <3>2 DEF WholeTyped, Shape, TypeOK, TaskOK
      <4> QED
        BY <1>1, <2>3, <4>1 DEF WholeTyped, ServerDraws, Drawn
    <3> QED
      BY <3>1, <3>2
  <2> QED
    BY <1>1, <2>2, <2>3 DEF WholeTyped, ServerDraws, FramesDrawn, DrawnIfAny, Drawn, Known
<1> QED
  BY <1>1, <1>2, <1>9, <1>10 DEF WholeTyped

LEMMA ServerRestTyped ==
  ASSUME WholeTyped,
         \/ \E s \in Sock : ServerSelects(s)
         \/ ServerHangsUp
         \/ \E u \in Uri : ConnectionEnds(u)
  PROVE  WholeTyped'
<1>1. /\ unused' = unused /\ UNCHANGED <<programVars, toServer, toClient>>
  BY DEF ServerSelects, ServerHangsUp, ConnectionEnds, programVars
<1>2. Shape'
  <2>1. [Next]_vars
    BY SystemStepIsServerStep DEF SystemNext, ServerStep
  <2> QED
    BY <2>1, NextTypes DEF WholeTyped
<1>3. ProgramsTyped(Ids)'
  BY <1>1, ProgramsRest DEF WholeTyped
<1>4. calls' = calls /\ task' = task /\ sent' = NoMsg
  BY DEF ServerSelects, ServerHangsUp, ConnectionEnds, Select, Hangup, Vanish, Quiet,
         callVars, threadVars
<1>5. \A t \in Thread : stack'[t] = stack[t] \/ \E s : stack'[t] = <<Close(s)>>
  BY DEF ServerSelects, ServerHangsUp, ConnectionEnds, Select, Hangup, Vanish, threadVars,
         WholeTyped, Shape, TypeOK, StackOK
<1>6. ASSUME NEW s
      PROVE  FramesDrawn(<<Close(s)>>)'
  BY DEF FramesDrawn, DrawnIfAny, Close
<1>7. ASSUME NEW t \in Thread
      PROVE  FramesDrawn(stack[t])'
  <2>1. CASE stack'[t] = stack[t]
    BY <1>1, <2>1 DEF WholeTyped, ServerDraws, FramesDrawn, DrawnIfAny, Drawn
  <2>2. CASE \E s : stack'[t] = <<Close(s)>>
    BY <1>6, <2>2 DEF FramesDrawn, DrawnIfAny, Drawn
  <2> QED
    BY <1>5, <2>1, <2>2
<1>8. ServerDraws'
  BY <1>1, <1>4, <1>7 DEF WholeTyped, ServerDraws, Drawn, Known
<1> QED
  BY <1>1, <1>2, <1>3, <1>8 DEF WholeTyped

LEMMA InitWhole == SystemInit => WholeTyped
<1> SUFFICES ASSUME SystemInit PROVE WholeTyped
  OBVIOUS
<1> USE DEF SystemInit
<1>1. Shape
  BY InitTypes
<1>2. /\ calls = [c \in CallId |-> NoCall] /\ task = [w \in Worker |-> IdleTask]
      /\ stack = [t \in Thread |-> <<>>] /\ sent = NoMsg
  BY DEF Init
<1>3. ServerDraws
  BY <1>2 DEF ServerDraws, Known, IdleTask, FramesDrawn
<1>4. CallsTyped(Ids) /\ ScreensTyped /\ WiresTyped(Ids)
  <2>1. /\ callbacks = [u \in Uri |-> <<>>]
        /\ toServer = [u \in Uri |-> <<>>] /\ toClient = [u \in Uri |-> <<>>]
    BY DEF Programs!Init
  <2>2. callbacks \in [Uri -> Seq(Callback)] /\ WiresTyped(Ids)
    <3>1. \A S : <<>> \in Seq(S)
      OBVIOUS
    <3> QED
      BY <2>1, <3>1, Zenon DEF WiresTyped
  <2>3. CallsTyped(Ids) /\ backTo \in [Uri -> Screen]
    BY DEF Programs!Init, CallsTyped, Screen
  <2>4. loggedIn = [u \in Uri |-> u \in LoggedInAtStart] /\ streaming = [u \in Uri |-> FALSE]
    BY DEF Programs!Init
  <2>5. loggedIn \in [Uri -> BOOLEAN] /\ streaming \in [Uri -> BOOLEAN]
    BY <2>4
  <2> QED
    BY <2>2, <2>3, <2>5 DEF ScreensTyped
<1>5. ThreadsTyped(Ids)
  <2>1. Programs!Ready \in LoopAt(Ids) /\ Programs!Ready # Programs!Over
    BY DEF Programs!Ready, Programs!Over, Programs!At, LoopAt, Place
  <2> QED
    BY <2>1 DEF Programs!Init, ThreadsTyped, Screen, Hand
<1> QED
  BY <1>1, <1>3, <1>4, <1>5 DEF WholeTyped, ProgramsTyped, Programs!Init

LEMMA SystemStepTyped ==
  ASSUME WholeTyped, [SystemNext]_systemVars
  PROVE  WholeTyped'
<1>1. CASE ProgramStep
  BY <1>1, ProgramStepTyped
<1>2. CASE \E t \in Thread : ServerThread(t)
  BY <1>2, ServerThreadTyped
<1>3. CASE \E w \in Worker : ServerReads(w)
  BY <1>3, ServerReadsTyped
<1>4. CASE \/ \E s \in Sock : ServerSelects(s)
           \/ ServerHangsUp
           \/ \E u \in Uri : ConnectionEnds(u)
  BY <1>4, ServerRestTyped
<1>5. CASE UNCHANGED systemVars
  <2>1. UNCHANGED vars /\ unused' = unused /\ UNCHANGED <<programVars, toServer, toClient>>
    BY <1>5 DEF systemVars, programVars
  <2>2. Shape' /\ ServerDraws' /\ ProgramsTyped(Ids)'
    BY <2>1, StutterTypes, DrawsGrow, ProgramsRest DEF WholeTyped
  <2> QED
    BY <2>1, <2>2 DEF WholeTyped
<1> QED
  BY <1>1, <1>2, <1>3, <1>4, <1>5 DEF SystemNext, ServerStep

\* The invariant holds: server and programs have their types, and every call-id
\* in use has been drawn.
THEOREM WholeInvariant == SystemSpec => []WholeTyped
  BY InitWhole, SystemStepTyped, PTL DEF SystemSpec

\* Neither the server nor a message anywhere is about call-id c.
Fresh(c) ==
  /\ ~Known(c)
  /\ sent # NoMsg => sent.msg.cid # c
  /\ \A w \in Worker : task[w].stage # "idle" => task[w].msg.cid # c
  /\ \A t \in Thread : \A i \in 1..Len(stack[t]) :
       stack[t][i].msg # NoMsg => stack[t][i].msg.cid # c
  /\ \A u \in Uri : /\ \A i \in 1..Len(toServer[u]) : toServer[u][i].cid # c
                    /\ \A i \in 1..Len(toClient[u]) : toClient[u][i].cid # c

\* A call-id that is still to be drawn is new to everybody: no call of the
\* server's, no handler's work, no message sent or to be sent is about it.  So
\* an answer that a program takes for one to its new call (process_response
\* compares call ids only) is not a late answer to somebody's earlier call.
THEOREM NewCallIdsAreFresh == SystemSpec => [](\A c \in unused : Fresh(c))
<1>1. ASSUME WholeTyped, NEW c \in unused
      PROVE  Fresh(c)
  <2>1. ~Known(c) /\ (sent # NoMsg => sent.msg.cid # c)
    BY <1>1 DEF WholeTyped, ServerDraws, Drawn
  <2>2. \A w \in Worker : task[w].stage # "idle" => task[w].msg.cid # c
    BY <1>1 DEF WholeTyped, ServerDraws, Drawn
  <2>3. \A t \in Thread : \A i \in 1..Len(stack[t]) :
          stack[t][i].msg # NoMsg => stack[t][i].msg.cid # c
    BY <1>1 DEF WholeTyped, ServerDraws, FramesDrawn, DrawnIfAny, Drawn
  <2>4. ASSUME NEW u \in Uri, NEW i \in 1..Len(toServer[u])
        PROVE  toServer[u][i].cid # c
    <3>1. toServer[u][i] \in WrittenBy(u, Ids)
      BY <1>1 DEF WholeTyped, ProgramsTyped, WiresTyped
    <3> QED
      BY <3>1 DEF WrittenBy, Ids
  <2>5. ASSUME NEW u \in Uri, NEW i \in 1..Len(toClient[u])
        PROVE  toClient[u][i].cid # c
    <3>1. toClient[u][i] \in ReadFrom(Ids)
      BY <1>1 DEF WholeTyped, ProgramsTyped, WiresTyped
    <3> QED
      BY <3>1 DEF ReadFrom, Ids
  <2> QED
    BY <2>1, <2>2, <2>3, <2>4, <2>5 DEF Fresh
<1>2. WholeTyped => \A c \in unused : Fresh(c)
  BY <1>1
<1> QED
  BY <1>2, WholeInvariant, PTL

\* The types of the programs, whatever the server answers.
THEOREM ProgramsTypeCorrect == SystemSpec => []Programs!TypeOK
<1>1. WholeTyped => Programs!TypeOK
  <2> SUFFICES ASSUME WholeTyped PROVE Programs!TypeOK
    OBVIOUS
  <2>1. ASSUME NEW u \in Uri, myCall[u] # NoCall
        PROVE  /\ myCall[u].type \in {"REGISTER", "INVITE"} /\ myCall[u].state \in Programs!State
               /\ myCall[u].cid \in CallId \ unused /\ myCall[u].cseq \in Nat \ {0}
               /\ myCall[u].peer \in Uri \cup {ServerUri}
    <3>1. myCall[u] \in ProgramCall(Ids)
      BY <2>1 DEF WholeTyped, ProgramsTyped, CallsTyped
    <3> QED
      BY <3>1 DEF ProgramCall, Ids
  <2>2. /\ ThreadsTyped(Ids) /\ ScreensTyped
    BY DEF WholeTyped, ProgramsTyped
  <2>3. /\ screen \in [Uri -> {"login", "make call", "dialing", "incoming call", "video",
                               "error", ""}]
        /\ hand \in [Uri -> {"free", "accepting", "declining", "clearing"}]
    BY <2>2 DEF ThreadsTyped, Screen, Hand
  <2>4. \A u \in Uri : /\ Programs!Running(u) <=> screen[u] # ""
                       /\ hand[u] # "free" => Programs!Running(u)
    BY <2>2 DEF ThreadsTyped, Programs!Running
  <2>5. loggedIn \in [Uri -> BOOLEAN] /\ streaming \in [Uri -> BOOLEAN]
    BY <2>2 DEF ScreensTyped
  <2> QED
    BY <2>1, <2>3, <2>4, <2>5 DEF Programs!TypeOK
<1> QED
  BY <1>1, WholeInvariant, PTL

\* The menus of the server's clients leave out nothing that a program may write,
\* as when Menu[SocketOf[u]] is WrittenBy(u, CallId) for every u.
MenuIsOpen == \A u \in Uri : WrittenBy(u, CallId) \subseteq Menu[SocketOf[u]]

\* With such menus all that is on its way to the server is input of the server's
\* own model: no message of a program is one that SIPServer is not modelled for.
THEOREM SystemTypeCorrect ==
  ASSUME MenuIsOpen
  PROVE  SystemSpec => []SystemTypeOK
<1>1. WholeTyped => \A u \in Uri : \A i \in 1..Len(toServer[u]) : toServer[u][i] \in Menu[SocketOf[u]]
  <2> SUFFICES ASSUME WholeTyped, NEW u \in Uri, NEW i \in 1..Len(toServer[u])
               PROVE  toServer[u][i] \in Menu[SocketOf[u]]
    OBVIOUS
  <2>1. toServer[u][i] \in WrittenBy(u, Ids)
    BY DEF WholeTyped, ProgramsTyped, WiresTyped
  <2>2. WrittenBy(u, Ids) \subseteq WrittenBy(u, CallId)
    BY DEF WrittenBy, Ids
  <2> QED
    BY <2>1, <2>2 DEF MenuIsOpen
<1>2. WholeTyped /\ Programs!TypeOK => SystemTypeOK
  BY <1>1 DEF SystemTypeOK
<1> QED
  BY <1>2, WholeInvariant, ProgramsTypeCorrect, PTL

-----------------------------------------------------------------------------
(* A call is between two.  P[c] are the two that call-id c was drawn for:  *)
(* who drew it, and whom the call is to.                                   *)

\* What a program may write.
Asks(P, m) ==
  /\ m.from \in P[m.cid]
  /\ m.what = "INVITE" /\ m.to \in Uri => P[m.cid] = {m.from, m.to}

\* What u may read, but for 604, which _close_connection may send to the peer
\* of an earlier call of its loop.
Hears(P, u, m) ==
  /\ m.what # "GONE" => u \in P[m.cid]
  /\ m.what = "INVITE" => P[m.cid] = {m.from, u}
  /\ m.what = "UNAUTHORIZED" => m.from = ServerUri

\* What a thread is to send, and what a close may send when it goes on.
FrameFits(P, f) ==
  IF f.pc = "send" THEN Hears(P, UserOf(f.sock), f.msg)
  ELSE f.msg = NoMsg \/ f.msg.what = "GONE"

\* A socket that may be the caller or the callee of call-id c.
Party(P, c, s) == s # NoSock => UserOf(s) \in P[c]

\* The server: a user is registered by its own program only, a worker has its
\* message from the socket of its sender, and what it has to send and the calls
\* it knows are about the two of their call-id.
Own == \A u \in Uri : valToObj[u] \in {SocketOf[u], NoSock}
TasksFit(P) ==
  \A w \in Worker : task[w].stage # "idle" =>
    Asks(P, task[w].msg) /\ task[w].sock = SocketOf[task[w].msg.from]
FramesFit(P) == \A t \in Thread : \A i \in 1..Len(stack[t]) : FrameFits(P, stack[t][i])
CallsFit(P) ==
  \A c \in CallId : Known(c) => Party(P, c, calls[c].caller) /\ Party(P, c, calls[c].callee)
ServerFits(P) == Own /\ TasksFit(P) /\ FramesFit(P) /\ CallsFit(P)

\* The program of u: its call, the message its SIP thread is about to use, and
\* what is on its way from it and to it.
CallFits(P, u, call) ==
  call # NoCall => /\ P[call.cid] = {u, call.peer}
                   /\ call.data # NoMsg => u \in P[call.data.cid]
PlaceFits(P, u, place) == place.msg # NoMsg => u \in P[place.msg.cid]
ProgramFits(P, u) ==
  /\ CallFits(P, u, myCall[u]) /\ PlaceFits(P, u, loop[u])
  /\ \A i \in 1..Len(toServer[u]) : Asks(P, toServer[u][i])
  /\ \A i \in 1..Len(toClient[u]) : Hears(P, u, toClient[u][i])

\* P accounts for all there is: the inductive invariant is that some pairing does.
Fits(P) == ServerFits(P) /\ \A u \in Uri : ProgramFits(P, u)
Pairing == [CallId -> SUBSET (Uri \cup {ServerUri})]

\* The user of a program's socket.
LEMMA SocketsUser ==
  ASSUME NEW u \in Uri
  PROVE  SocketOf[u] \in Sock /\ UserOf(SocketOf[u]) = u
  BY UserOfSocket, SocketAssumption

-----------------------------------------------------------------------------
(* The handlers *)

\* An answer goes to who asked; the message itself to the other of the two.
LEMMA AnswersFit ==
  ASSUME NEW P, ServerFits(P), NEW w \in Worker, task[w].stage # "idle",
         task[w].msg \in ClientMsg, task[w].msg.cid \in CallId,
         NEW f \in Frame, AboutOne(f, task[w].msg, task[w].sock)
  PROVE  FrameFits(P, f)
<1> DEFINE m == task[w].msg
<1>1. Asks(P, m) /\ task[w].sock = SocketOf[m.from] /\ m.from \in Uri /\ f.sock \in Sock
  BY DEF ServerFits, TasksFit, ClientMsg, Frame
<1>2. CASE f.sock = task[w].sock /\ f.msg.from = ServerUri /\ f.msg.what \in ServerKind
  <2>1. UserOf(f.sock) = m.from /\ f.msg.what # "INVITE"
    BY <1>1, <1>2, SocketsUser DEF ServerKind
  <2> QED
    BY <1>1, <1>2, <2>1 DEF FrameFits, Hears, AboutOne, Asks
<1>3. CASE f.msg = Relay(m) /\ RelayedTo(f.sock, m)
  <2>1. /\ f.msg.what = m.what /\ f.msg.from = m.from
        /\ m.what \notin {"GONE", "UNAUTHORIZED"}
    BY <1>3 DEF Relay, ClientMsg, RequestKind, ResponseKind
  <2>2. CASE m.what = "INVITE"
    <3>1. m.to \in Uri /\ f.sock = SocketOf[m.to]
      BY <1>1, <1>3, <2>2, ConstantsAssumption DEF RelayedTo, Taken, ServerFits, Own
    <3>2. UserOf(f.sock) = m.to
      BY <3>1, SocketsUser
    <3> QED
      BY <1>1, <2>1, <2>2, <3>1, <3>2 DEF FrameFits, Hears, AboutOne, Asks
  <2>3. CASE m.what # "INVITE"
    <3>1. Known(m.cid) /\ f.sock \in {calls[m.cid].caller, calls[m.cid].callee}
      BY <1>3, <2>3 DEF RelayedTo, Involves
    <3>2. UserOf(f.sock) \in P[m.cid]
      BY <1>1, <3>1, ConstantsAssumption DEF ServerFits, CallsFit, Party
    <3> QED
      BY <2>1, <2>3, <3>2 DEF FrameFits, Hears, AboutOne
  <2> QED
    BY <2>2, <2>3
<1> QED
  BY <1>2, <1>3 DEF AboutOne

\* A handler leaves a call its caller, and gives it no callee but the one that
\* its INVITE calls; a call that it opens has the sender as its caller.
LEMMA HandleParties ==
  ASSUME Shape, NEW w \in Worker, Handle(w), NEW c \in CallId, calls'[c] # NoCall
  PROVE  /\ IF Known(c) THEN calls'[c].caller = calls[c].caller
            ELSE c = task[w].msg.cid /\ calls'[c].caller = task[w].sock
         /\ \/ calls'[c].callee = NoSock
            \/ Known(c) /\ calls'[c].callee = calls[c].callee
            \/ /\ c = task[w].msg.cid /\ task[w].msg.what = "INVITE" /\ Taken(task[w].msg.to)
               /\ calls'[c].callee = valToObj[task[w].msg.to]
<1> USE DEF Shape, TypeOK
<1> DEFINE m == task[w].msg
           s == task[w].sock
<1>1. Known(c) => calls[c] \in Call
  BY KnownTyped
<1>2. CASE RegisterOpens(w)
  <2> DEFINE opened == CallOf(m, s, "REGISTER", m.from)
  <2>1. calls' = calls \/ calls' = [calls EXCEPT ![m.cid] = opened]
    BY <1>2 DEF RegisterOpens
  <2>2. IF Known(m.cid) THEN opened = calls[m.cid]
        ELSE opened.caller = s /\ opened.callee = NoSock
    BY DEF CallOf, NewCall
  <2> HIDE DEF opened
  <2>3. CASE c = m.cid
    BY <2>1, <2>2, <2>3 DEF CallsOK, Known
  <2>4. CASE c # m.cid
    BY <2>1, <2>4 DEF CallsOK, Known
  <2> QED
    BY <2>3, <2>4
<1>3. CASE InviteCalleeAway(w) \/ InviteStopped(w) \/ InviteTried(w)
  <2> DEFINE opened == CallOf(m, s, "INVITE", m.to)
             called == [opened EXCEPT !.callee = valToObj[m.to]]
             tried == [opened EXCEPT !.callee = valToObj[m.to], !.state = "TRYING"]
  <2>1. \/ calls' = [calls EXCEPT ![m.cid] = opened]
        \/ Taken(m.to) /\ \E new \in {called, tried} : calls' = [calls EXCEPT ![m.cid] = new]
    BY <1>3 DEF InviteCalleeAway, InviteStopped, InviteTried
  <2>2. opened \in Call /\ m.cid \in CallId /\ m.what = "INVITE"
    BY <1>3, InviteRunsTyped DEF InviteCalleeAway, InviteStopped, InviteTried, InviteRuns, Runs
  <2>3. IF Known(m.cid) THEN opened = calls[m.cid]
        ELSE opened.caller = s /\ opened.callee = NoSock
    BY DEF CallOf, NewCall
  <2> HIDE DEF opened
  <2>4. \A new \in {called, tried} : new.caller = opened.caller /\ new.callee = valToObj[m.to]
    BY <2>2 DEF Call
  <2> HIDE DEF called, tried
  <2>5. CASE c = m.cid
    BY <2>1, <2>2, <2>3, <2>4, <2>5 DEF CallsOK, Known
  <2>6. CASE c # m.cid
    BY <2>1, <2>6 DEF CallsOK, Known
  <2> QED
    BY <2>5, <2>6
<1>4. CASE ~(RegisterOpens(w) \/ InviteCalleeAway(w) \/ InviteStopped(w) \/ InviteTried(w))
  <2>1. \/ calls'[c] = calls[c]
        \/ Known(c) /\ calls'[c].caller = calls[c].caller /\ calls'[c].callee = calls[c].callee
    <3>1. CASE BumpCSeq(w)
      BY <1>1, <3>1 DEF BumpCSeq, CallsOK, Call
    <3>2. CASE RegisterForgets(w) \/ RegisterVerified(w) \/ ResponseEnds(w)
      BY <3>2 DEF RegisterForgets, RegisterVerified, ResponseEnds, CallsOK
    <3>3. CASE Ack(w) \/ Bye(w)
      <4>1. CASE c = m.cid
        BY <1>1, <3>3, <4>1 DEF Ack, Bye, CallsOK, Call
      <4>2. CASE c # m.cid
        BY <3>3, <4>2 DEF Ack, Bye, CallsOK
      <4> QED
        BY <4>1, <4>2
    <3>4. CASE ResponseMoves(w)
      BY <1>1, <3>4 DEF ResponseMoves, CallsOK, Call
    <3>5. CASE \/ Invalid(w) \/ Unhandled(w) \/ RegisterRefused(w) \/ RegisterChecks(w)
               \/ RegisterRechecks(w) \/ RegisterChallenged(w) \/ RegisterUnverified(w)
               \/ InviteRefused(w) \/ InviteMismatch(w) \/ NoSuchCall(w) \/ RequestMismatch(w)
               \/ ResponseLookedUp(w) \/ KeepAliveAnswered(w) \/ ResponseDropped(w)
               \/ ResponseToRegister(w) \/ WaitsForReg(w)
      BY <3>5
      DEF callVars, Invalid, Unhandled, RegisterRefused, RegisterChecks,
          RegisterRechecks, RegisterChallenged, RegisterUnverified, InviteRefused,
          InviteMismatch, NoSuchCall, RequestMismatch, ResponseLookedUp, KeepAliveAnswered,
          ResponseDropped, ResponseToRegister, WaitsForReg
    <3> QED
      BY <1>4, <3>1, <3>2, <3>3, <3>4, <3>5 DEF Handle
  <2>2. CASE calls'[c] = calls[c]
    BY <2>2 DEF Known
  <2>3. CASE calls'[c] # calls[c]
    BY <2>1, <2>3
  <2> QED
    BY <2>2, <2>3
<1> QED
  BY <1>2, <1>3, <1>4

\* A program's socket is registered under its own name only: register_request
\* files the socket it read the message from under the message's sender.
LEMMA HandleOwn ==
  ASSUME Shape, NEW P, ServerFits(P), NEW w \in Worker, Handle(w)
  PROVE  Own'
<1> USE DEF Shape, TypeOK, RegOK
<1> DEFINE m == task[w].msg
           s == task[w].sock
<1>1. Own
  BY DEF ServerFits
<1>2. CASE RegisterChecks(w) \/ RegisterVerified(w)
  <2>1. task[w].stage # "idle" /\ m.from \in Uri
    <3>1. \E stage \in Stage \ {"idle"} : Runs(w, stage, {"REGISTER"})
      BY <1>2 DEF RegisterChecks, RegisterVerified, Stage
    <3> QED
      BY <3>1, RunsTyped DEF Runs, ClientMsg
  <2>2. s = SocketOf[m.from] /\ s \in Sock
    BY <2>1, SocketsUser DEF ServerFits, TasksFit
  <2>3. valToObj' = valToObj \/ Add(s, m.from) \/ RemoveByKey(s) \/ Replace(s, m.from)
    BY <1>2 DEF RegisterChecks, RegisterVerified, regVars
  <2> HIDE DEF m, s
  <2> QED
    BY <1>1, <2>1, <2>2, <2>3 DEF Own, Add, RemoveByKey, Replace, WithoutKey
<1>3. CASE ~(RegisterChecks(w) \/ RegisterVerified(w))
  <2>1. valToObj' = valToObj
    BY <1>3
    DEF regVars, Handle, Invalid, BumpCSeq, Unhandled, RegisterRefused, RegisterOpens,
        RegisterRechecks, RegisterForgets, RegisterChallenged, RegisterUnverified,
        InviteRefused, InviteMismatch, InviteCalleeAway, InviteStopped, InviteTried,
        NoSuchCall, RequestMismatch, Ack, Bye, ResponseLookedUp, KeepAliveAnswered,
        ResponseMoves, ResponseEnds, ResponseDropped, ResponseToRegister, WaitsForReg
  <2> QED
    BY <1>1, <2>1 DEF Own
<1> QED
  BY <1>2, <1>3

\* A handler keeps the pairing: it answers who asked, relays to the other of the
\* two, and the call it opens is theirs.
LEMMA HandleFits ==
  ASSUME Shape, ServerDraws, NEW P, ServerFits(P), NEW w \in Worker, Handle(w)
  PROVE  ServerFits(P)' /\ sent' = NoMsg
<1> USE DEF Shape, TypeOK
<1> DEFINE m == task[w].msg
           s == task[w].sock
<1>1. PICK stage : task' \in {task, [task EXCEPT ![w] = IdleTask],
                             [task EXCEPT ![w].stage = stage]}
  BY HandleWorks DEF WorksOn
<1>2. PICK fs : stack' = [stack EXCEPT ![w] = fs] /\ About(fs, m, s)
  BY HandleWorks DEF WorksOn
<1>3. task[w].stage # "idle" /\ sent' = NoMsg
  BY HandleWorks DEF WorksOn
<1>4. m \in ClientMsg /\ m.cid \in CallId
  BY <1>3, MenuAssumption DEF TaskOK, ServerDraws, Drawn
<1>5. Asks(P, m) /\ s = SocketOf[m.from] /\ m.from \in Uri
  BY <1>3, <1>4 DEF ServerFits, TasksFit, ClientMsg
<1>6. TasksFit(P)'
  <2> SUFFICES ASSUME NEW v \in Worker, task'[v].stage # "idle"
               PROVE  task[v].stage # "idle" /\ task'[v].msg = task[v].msg
                      /\ task'[v].sock = task[v].sock
    BY DEF ServerFits, TasksFit, Asks
  <2> QED
    BY <1>1, <1>3 DEF TaskOK, Task, IdleTask
<1>7. FramesFit(P)'
  <2> SUFFICES ASSUME NEW t \in Thread, NEW i \in 1..Len(stack'[t])
               PROVE  FrameFits(P, stack'[t][i])
    BY DEF FramesFit, FrameFits, Hears
  <2>1. CASE t # w
    BY <1>2, <2>1 DEF StackOK, ServerFits, FramesFit
  <2>2. CASE t = w
    <3>1. stack'[t] = fs
      BY <1>2, <2>2 DEF StackOK
    <3>2. fs[i] \in Frame
      <4>1. stack'[t] \in Seq(Frame)
        BY HandleTypes DEF StackOK
      <4> QED
        BY <3>1, <4>1
    <3>3. AboutOne(fs[i], m, s)
      BY <1>2, <3>1 DEF About
    <3> QED
      BY <1>3, <1>4, <3>1, <3>2, <3>3, AnswersFit
  <2> QED
    BY <2>1, <2>2
<1>8. CallsFit(P)'
  <2> SUFFICES ASSUME NEW c \in CallId, Known(c)'
               PROVE  Party(P, c, calls'[c].caller) /\ Party(P, c, calls'[c].callee)
    BY DEF CallsFit, Party
  <2>1. calls'[c] # NoCall
    BY DEF Known
  <2>2. Known(c) => Party(P, c, calls[c].caller) /\ Party(P, c, calls[c].callee)
    BY DEF ServerFits, CallsFit
  <2>3. Party(P, c, calls'[c].caller)
    <3>1. UserOf(s) = m.from
      BY <1>5, SocketsUser
    <3> QED
      BY <1>5, <2>1, <2>2, <3>1, HandleParties DEF Party, Asks
  <2>4. Party(P, c, calls'[c].callee)
    <3>1. CASE c = m.cid /\ m.what = "INVITE" /\ Taken(m.to) /\ calls'[c].callee = valToObj[m.to]
      <4>1. m.to \in Uri /\ valToObj[m.to] = SocketOf[m.to]
        BY <3>1 DEF Taken, ServerFits, Own
      <4>2. UserOf(calls'[c].callee) = m.to
        BY <3>1, <4>1, SocketsUser
      <4> QED
        BY <1>5, <3>1, <4>1, <4>2 DEF Party, Asks
    <3> QED
      BY <2>1, <2>2, <3>1, HandleParties DEF Party
  <2> QED
    BY <2>3, <2>4
<1> QED
  BY <1>3, <1>6, <1>7, <1>8, HandleOwn DEF ServerFits

\* A close sends nothing but 604, and a send sends what was to be sent.
LEMMA ClosesFit ==
  ASSUME Shape, Sweeping, NEW P, ServerFits(P), NEW t \in Thread, SendOrClose(t)
  PROVE  /\ ServerFits(P)'
         /\ sent' # NoMsg => Hears(P, UserOf(sent'.to), sent'.msg)
<1> USE DEF Shape, TypeOK
<1>1. /\ Moves(t) /\ stack[t] \in Seq(Frame)
      /\ \E fs : stack' = [stack EXCEPT ![t] = fs]
      /\ stack' \in [Thread -> Seq(Frame)]
  BY SendOrCloseMoves, SendOrCloseTypes DEF StackOK, Moves
<1>2. 1 \in 1..Len(stack[t]) /\ Top(t) = stack[t][1]
  BY <1>1 DEF Top, Moves
<1>3. FrameFits(P, Top(t))
  BY <1>2 DEF ServerFits, FramesFit
<1>4. ASSUME NEW g \in Frame, Made(t, g)
      PROVE  FrameFits(P, g)
  <2>1. CASE \E j \in 2..Len(stack[t]) : g = stack[t][j]
    BY <1>1, <2>1 DEF ServerFits, FramesFit
  <2>2. CASE ~\E j \in 2..Len(stack[t]) : g = stack[t][j]
    BY <1>3, <1>4, <2>2, AbsentAssumption DEF Made, FrameFits, Hears, Frame
  <2> QED
    BY <2>1, <2>2
<1>5. FramesFit(P)'
  <2> SUFFICES ASSUME NEW u \in Thread, NEW i \in 1..Len(stack'[u])
               PROVE  FrameFits(P, stack'[u][i])
    BY DEF FramesFit, FrameFits, Hears
  <2>1. CASE u = t
    BY <1>1, <1>4, <2>1 DEF Moves
  <2>2. CASE u # t
    BY <1>1, <2>2 DEF StackOK, ServerFits, FramesFit
  <2> QED
    BY <2>1, <2>2
<1>6. TasksFit(P)'
  <2>1. \A w \in Worker : task'[w].stage # "idle" => task'[w] = task[w]
    BY SendOrCloseSays DEF SaysOn
  <2> QED
    BY <2>1 DEF ServerFits, TasksFit, Asks
<1>7. CallsFit(P)'
  <2>1. calls' = calls \/ \E d : calls' = [calls EXCEPT ![d] = NoCall]
    BY DEF SendOrClose, SendSucceeds, SendFails, CloseConn, CloseReg, CloseCalls,
           CloseOneCall, CloseLosesCall, CloseSocket, callVars
  <2>2. \A c \in CallId : Known(c)' => Known(c) /\ calls'[c] = calls[c]
    BY <2>1 DEF Known, CallsOK
  <2> QED
    BY <2>2 DEF ServerFits, CallsFit, Party
<1>8. Own'
  <2>1. valToObj' = valToObj \/ RemoveByKey(Top(t).sock)
    BY DEF SendOrClose, SendSucceeds, SendFails, CloseConn, CloseReg, CloseCalls,
           CloseOneCall, CloseLosesCall, CloseSocket, regVars
  <2> QED
    BY <2>1 DEF RegOK, ServerFits, Own, RemoveByKey, WithoutKey
<1>9. ASSUME sent' # NoMsg
      PROVE  Hears(P, UserOf(sent'.to), sent'.msg)
  <2>1. At(t, "send") /\ sent' = [to |-> Top(t).sock, msg |-> Top(t).msg]
    BY <1>9 DEF SendOrClose, SendSucceeds, SendFails, CloseConn, CloseReg, CloseCalls,
                CloseOneCall, CloseLosesCall, CloseSocket
  <2> QED
    BY <1>3, <2>1 DEF At, FrameFits
<1> QED
  BY <1>5, <1>6, <1>7, <1>8, <1>9 DEF ServerFits

-----------------------------------------------------------------------------
(* The programs *)

\* What a step of the program of u may do to its call, its place and its wires.
Acts(P, u) ==
  /\ myCall' = myCall \/ \E call : CallFits(P, u, call) /\ myCall' = [myCall EXCEPT ![u] = call]
  /\ loop' = loop \/ \E place : PlaceFits(P, u, place) /\ Programs!Goto(u, place)
  /\ toServer' = toServer \/ \E m : Asks(P, m) /\ Programs!Transmit(u, m)
  /\ \/ toClient' = toClient
     \/ toClient[u] # <<>> /\ Programs!Consume(u)
     \/ toClient' = [toClient EXCEPT ![u] = <<>>]

\* The fields of a call that a program assigns to say nothing of whom it is with.
LEMMA FieldsFit ==
  ASSUME NEW ids, NEW P, NEW u, NEW c \in ProgramCall(ids), CallFits(P, u, c), c # NoCall,
         NEW n, NEW state
  PROVE  /\ CallFits(P, u, [c EXCEPT !.cseq = n])
         /\ CallFits(P, u, [c EXCEPT !.state = state])
         /\ CallFits(P, u, [c EXCEPT !.cseq = n, !.state = state])
         /\ \A m : (m # NoMsg => u \in P[m.cid]) => CallFits(P, u, [c EXCEPT !.data = m])
  BY DEF CallFits, ProgramCall

\* What a program writes of its own call, and in answer to a request.
LEMMA RequestAsks ==
  ASSUME NEW P, NEW u, NEW what, NEW call, NEW auth, u \in P[call.cid],
         what = "INVITE" /\ call.peer \in Uri => P[call.cid] = {u, call.peer}
  PROVE  /\ Asks(P, Programs!Request(u, what, call, auth))
         /\ Asks(P, [Programs!Request(u, what, call, auth) EXCEPT !.body = FALSE])
  BY DEF Asks, Programs!Request

\* A response is about a message that its sender has heard.
LEMMA ResponseAsks ==
  ASSUME NEW P, NEW u, NEW m, u \in P[m.cid], NEW what \in {"RINGING", "OK", "DECLINE"}
  PROVE  Asks(P, Programs!Response(u, m, what))
  BY DEF Asks, Programs!Response

\* The next message of a program is one it may hear.
LEMMA HeadHeard ==
  ASSUME NEW P, NEW u \in Uri, ProgramFits(P, u), WiresTyped(Ids), toClient[u] # <<>>
  PROVE  Hears(P, u, Head(toClient[u]))
<1>1. toClient[u] \in Seq(ReadFrom(Ids))
  BY DEF WiresTyped
<1>2. 1 \in 1..Len(toClient[u]) /\ Head(toClient[u]) = toClient[u][1]
  BY <1>1
<1> QED
  BY <1>2 DEF ProgramFits

\* The SIP thread keeps its call with whom it is; a new one is the caller's.
LEMMA SipThreadCallFits ==
  ASSUME NEW P, NEW u \in Uri, ProgramFits(P, u), CallsTyped(Ids), WiresTyped(Ids),
         Programs!SipThread(u)
  PROVE  myCall' = myCall \/ \E call : CallFits(P, u, call) /\ myCall' = [myCall EXCEPT ![u] = call]
<1> DEFINE m == Head(toClient[u])
           call == myCall[u]
<1>1. /\ CallFits(P, u, call) /\ PlaceFits(P, u, loop[u]) /\ CallFits(P, u, NoCall)
      /\ call # NoCall => call \in ProgramCall(Ids)
      /\ toClient[u] # <<>> => Hears(P, u, m)
  BY HeadHeard DEF ProgramFits, CallsTyped, CallFits
<1>2. CASE \/ Programs!LoopClears(u) \/ Programs!InviteDeclined(u) \/ Programs!LoopRaises(u)
           \/ Programs!Ignored(u) \/ Programs!LoginGranted(u) \/ Programs!LoginRefused(u)
           \/ Programs!StreamStarts(u) \/ Programs!Unexpected(u)
  BY <1>2
  DEF Programs!LoopClears, Programs!InviteDeclined, Programs!LoopRaises, Programs!Ignored,
      Programs!LoginGranted, Programs!LoginRefused, Programs!StreamStarts,
      Programs!Unexpected, Programs!sipVars
<1>3. CASE \/ Programs!ByeClears(u) \/ Programs!CallFails(u) \/ Programs!LoginClears(u)
           \/ Programs!CallEnded(u)
  BY <1>1, <1>3 DEF Programs!ByeClears, Programs!CallFails, Programs!LoginClears,
                    Programs!CallEnded
<1>4. CASE Programs!InviteRings(u)
  <2> DEFINE new == Programs!NewCall("INVITE", m.cid, m.from, "RINGING", m.cseq)
  <2>1. toClient[u] # <<>> /\ m.what = "INVITE" /\ myCall' = [myCall EXCEPT ![u] = new]
    BY <1>4 DEF Programs!InviteRings, Programs!Got
  <2>2. new.cid = m.cid /\ new.peer = m.from /\ new.data = NoMsg
    BY DEF Programs!NewCall
  <2>3. CallFits(P, u, new)
    BY <1>1, <2>1, <2>2 DEF CallFits, Hears
  <2> HIDE DEF new
  <2> QED
    BY <2>1, <2>3
<1>5. CASE Programs!UserAsked(u)
  <2>1. call # NoCall /\ myCall' = [myCall EXCEPT ![u] = [call EXCEPT !.data = loop[u].msg]]
    BY <1>5 DEF Programs!UserAsked, Programs!Raises, CallsTyped
  <2>2. CallFits(P, u, [call EXCEPT !.data = loop[u].msg])
    BY <1>1, <2>1, FieldsFit DEF PlaceFits
  <2> QED
    BY <2>1, <2>2
<1>6. CASE \/ Programs!Acknowledged(u) \/ Programs!ByeReceived(u)
           \/ Programs!ChallengeAnswered(u) \/ Programs!Answered(u)
  <2>1. /\ call # NoCall
        /\ \E n : myCall' = [myCall EXCEPT ![u] = [call EXCEPT !.cseq = n]]
    BY <1>6 DEF Programs!Acknowledged, Programs!ByeReceived, Programs!ChallengeAnswered,
                Programs!Answered, Programs!Answers, Programs!IsMine, CallsTyped
  <2> QED
    BY <1>1, <2>1, FieldsFit
<1>7. CASE Programs!Progress(u)
  <2>1. /\ call # NoCall
        /\ \E state : myCall' = [myCall EXCEPT ![u] = [call EXCEPT !.state = state]]
    BY <1>7 DEF Programs!Progress, Programs!IsInvite, CallsTyped
  <2> QED
    BY <1>1, <2>1, FieldsFit
<1> QED
  BY <1>2, <1>3, <1>4, <1>5, <1>6, <1>7 DEF Programs!SipThread

\* The SIP thread goes on with a message it has just read, or with none.
LEMMA SipThreadPlaceFits ==
  ASSUME NEW P, NEW u \in Uri, ProgramFits(P, u), WiresTyped(Ids), Programs!SipThread(u)
  PROVE  loop' = loop \/ \E place : PlaceFits(P, u, place) /\ Programs!Goto(u, place)
<1> DEFINE m == Head(toClient[u])
<1>1. \A where : PlaceFits(P, u, Programs!At(where, NoMsg)) /\ PlaceFits(P, u, Programs!Ready)
                 /\ PlaceFits(P, u, Programs!Over)
  BY DEF PlaceFits, Programs!At, Programs!Ready, Programs!Over
<1>2. CASE \/ Programs!InviteDeclined(u) \/ Programs!Ignored(u) \/ Programs!Acknowledged(u)
           \/ Programs!ChallengeAnswered(u) \/ Programs!LoginRefused(u)
           \/ Programs!Progress(u) \/ Programs!Unexpected(u)
  BY <1>2
  DEF Programs!InviteDeclined, Programs!Ignored, Programs!Acknowledged,
      Programs!ChallengeAnswered, Programs!LoginRefused, Programs!Progress,
      Programs!Unexpected
<1>3. CASE \/ Programs!LoopRaises(u) \/ Programs!LoopClears(u) \/ Programs!UserAsked(u)
           \/ Programs!StreamStarts(u) \/ Programs!ByeClears(u) \/ Programs!LoginClears(u)
           \/ Programs!CallFails(u) \/ Programs!LoginGranted(u) \/ Programs!Answered(u)
           \/ Programs!CallEnded(u)
  BY <1>1, <1>3
  DEF Programs!LoopRaises, Programs!Stop, Programs!LoopClears, Programs!UserAsked,
      Programs!StreamStarts, Programs!ByeClears, Programs!LoginClears, Programs!CallFails,
      Programs!LoginGranted, Programs!Answered, Programs!CallEnded
<1>4. CASE Programs!InviteRings(u) \/ Programs!ByeReceived(u)
  <2>1. /\ toClient[u] # <<>> /\ m.what \in {"INVITE", "BYE"}
        /\ \E where : Programs!Goto(u, Programs!At(where, m))
    BY <1>4 DEF Programs!InviteRings, Programs!ByeReceived, Programs!Got
  <2>2. u \in P[m.cid]
    BY <2>1, HeadHeard DEF Hears
  <2>3. \A where : PlaceFits(P, u, Programs!At(where, m))
    BY <2>2 DEF PlaceFits, Programs!At
  <2> QED
    BY <2>1, <2>3
<1> QED
  BY <1>2, <1>3, <1>4 DEF Programs!SipThread

\* The SIP thread writes of its own call, or in answer to what it has read.
LEMMA SipThreadTalkFits ==
  ASSUME NEW P, NEW u \in Uri, ProgramFits(P, u), CallsTyped(Ids), WiresTyped(Ids),
         Programs!SipThread(u)
  PROVE  /\ toServer' = toServer \/ \E m : Asks(P, m) /\ Programs!Transmit(u, m)
         /\ \/ toClient' = toClient
            \/ toClient[u] # <<>> /\ Programs!Consume(u)
            \/ toClient' = [toClient EXCEPT ![u] = <<>>]
<1> DEFINE m == Head(toClient[u])
           call == myCall[u]
<1>1. CASE \/ Programs!LoopRaises(u) \/ Programs!LoopClears(u) \/ Programs!UserAsked(u)
           \/ Programs!ByeClears(u) \/ Programs!LoginClears(u) \/ Programs!StreamStarts(u)
  BY <1>1
  DEF Programs!LoopRaises, Programs!Stop, Programs!LoopClears, Programs!UserAsked,
      Programs!ByeClears, Programs!LoginClears, Programs!StreamStarts
<1>2. CASE \/ Programs!Ignored(u) \/ Programs!Acknowledged(u) \/ Programs!CallFails(u)
           \/ Programs!LoginGranted(u) \/ Programs!LoginRefused(u)
           \/ Programs!Progress(u) \/ Programs!CallEnded(u) \/ Programs!Unexpected(u)
  BY <1>2
  DEF Programs!Ignored, Programs!Acknowledged, Programs!CallFails,
      Programs!LoginGranted, Programs!LoginRefused, Programs!Progress,
      Programs!CallEnded, Programs!Unexpected, Programs!Answers, Programs!Got
<1>3. CASE \/ Programs!InviteDeclined(u) \/ Programs!InviteRings(u)
           \/ Programs!ByeReceived(u)
  <2>1. /\ toClient[u] # <<>> /\ Programs!Consume(u) /\ m.what \in {"INVITE", "BYE"}
        /\ \E what \in {"RINGING", "OK", "DECLINE"} :
             Programs!Transmit(u, Programs!Response(u, m, what))
    BY <1>3 DEF Programs!InviteDeclined, Programs!InviteRings, Programs!ByeReceived,
                Programs!Got
  <2>2. u \in P[m.cid]
    BY <2>1, HeadHeard DEF Hears
  <2> HIDE DEF m
  <2> QED
    BY <2>1, <2>2, ResponseAsks
<1>4. CASE Programs!ChallengeAnswered(u) \/ Programs!Answered(u)
  <2> DEFINE next == [call EXCEPT !.cseq = m.cseq + 1]
             to == [next EXCEPT !.peer = m.from]
  <2>1. call # NoCall /\ toClient[u] # <<>> /\ Programs!Consume(u)
    BY <1>4 DEF Programs!ChallengeAnswered, Programs!Answered, Programs!Answers,
                Programs!Got, Programs!IsMine
  <2>2. call \in ProgramCall(Ids) /\ u \in P[call.cid]
    BY <2>1 DEF ProgramFits, CallFits, CallsTyped
  <2>3. to.cid = call.cid /\ to.peer = m.from /\ next.type = call.type
    BY <2>2 DEF ProgramCall
  <2>4. CASE Programs!ChallengeAnswered(u)
    <3>1. m.what = "UNAUTHORIZED" /\ \E auth \in Passwords :
             Programs!Transmit(u, [Programs!Request(u, call.type, to, auth)
                                     EXCEPT !.body = FALSE])
      BY <2>3, <2>4 DEF Programs!ChallengeAnswered, Programs!Answers, Programs!Got
    <3>2. to.peer \notin Uri
      BY <2>1, <2>3, <3>1, HeadHeard, ConstantsAssumption DEF Hears
    <3> HIDE DEF to, next, m
    <3> QED
      BY <2>1, <2>2, <2>3, <3>1, <3>2, RequestAsks
  <2>5. CASE Programs!Answered(u)
    <3>1. Programs!Transmit(u, Programs!Request(u, "ACK", to, "none"))
      BY <2>5 DEF Programs!Answered
    <3> HIDE DEF to, next, m
    <3> QED
      BY <2>1, <2>2, <2>3, <3>1, RequestAsks
  <2> QED
    BY <1>4, <2>4, <2>5
<1> QED
  BY <1>1, <1>2, <1>3, <1>4 DEF Programs!SipThread

\* The GUI thread, but for what draws a call-id.
LEMMA GuiThreadFits ==
  ASSUME NEW P, NEW u \in Uri, ProgramFits(P, u), CallsTyped(Ids), unused' = unused,
         Programs!GuiProceeds(u) \/ Programs!UserActs(u)
  PROVE  Acts(P, u)
<1> DEFINE call == myCall[u]
<1>1. CallFits(P, u, call) /\ CallFits(P, u, NoCall) /\ PlaceFits(P, u, Programs!Over)
  BY DEF ProgramFits, CallFits, PlaceFits, Programs!Over, Programs!At
<1>2. call # NoCall => call \in ProgramCall(Ids) /\ u \in P[call.cid]
  BY <1>1 DEF CallsTyped, CallFits
<1>3. CASE \/ Programs!CallbackRuns(u) \/ Programs!DeclineEnds(u) \/ Programs!GoBack(u)
           \/ Programs!CloseWindow(u)
  BY <1>1, <1>3
  DEF Acts, Programs!CallbackRuns, Programs!DeclineEnds, Programs!GoBack,
      Programs!CloseWindow, Programs!Stop, Programs!sipVars
<1>4. CASE Programs!DeclineClears(u)
  BY <1>1, <1>4 DEF Acts, Programs!DeclineClears
<1>5. CASE Programs!AcceptEnds(u)
  <2>1. CASE call = NoCall
    BY <1>5, <2>1 DEF Acts, Programs!AcceptEnds
  <2>2. CASE call # NoCall
    <3>1. myCall' = [myCall EXCEPT ![u] = [call EXCEPT !.data = NoMsg]]
      BY <1>5, <2>2 DEF Programs!AcceptEnds, CallsTyped
    <3>2. CallFits(P, u, [call EXCEPT !.data = NoMsg])
      BY <1>1, <1>2, <2>2, FieldsFit
    <3> QED
      BY <1>5, <3>1, <3>2 DEF Acts, Programs!AcceptEnds
  <2> QED
    BY <2>1, <2>2
<1>6. CASE Programs!Accept(u) \/ Programs!Decline(u)
  <2>1. call # NoCall /\ loop' = loop /\ toClient' = toClient
    BY <1>6 DEF Programs!Accept, Programs!Decline
  <2>2. \/ myCall' = myCall
        \/ myCall' = [myCall EXCEPT ![u] = [call EXCEPT !.state = "WAITING_ACK"]]
    BY <1>6 DEF Programs!Accept, Programs!Decline, Programs!sipVars, CallsTyped
  <2>3. \/ toServer' = toServer
        \/ call.data # NoMsg /\ \E what \in {"RINGING", "OK", "DECLINE"} :
             Programs!Transmit(u, Programs!Response(u, call.data, what))
    BY <1>6 DEF Programs!Accept, Programs!Decline
  <2>4. CallFits(P, u, [call EXCEPT !.state = "WAITING_ACK"])
    BY <1>1, <1>2, <2>1, FieldsFit
  <2>5. toServer' = toServer \/ \E m : Asks(P, m) /\ Programs!Transmit(u, m)
    BY <1>1, <2>1, <2>3, ResponseAsks DEF CallFits
  <2> QED
    BY <2>1, <2>2, <2>4, <2>5 DEF Acts
<1>7. CASE Programs!EndCall(u)
  <2> DEFINE next == [call EXCEPT !.cseq = call.cseq + 1, !.state = "WAITING_BYE"]
  <2>1. /\ call # NoCall /\ loop' = loop /\ toClient' = toClient
        /\ myCall' = [myCall EXCEPT ![u] = next]
        /\ Programs!Transmit(u, Programs!Request(u, "BYE", next, "none"))
    BY <1>7 DEF Programs!EndCall, CallsTyped
  <2>2. CallFits(P, u, next)
    BY <1>1, <1>2, <2>1, FieldsFit
  <2>3. next.cid = call.cid
    BY <1>2, <2>1 DEF ProgramCall
  <2> HIDE DEF next
  <2>4. Asks(P, Programs!Request(u, "BYE", next, "none"))
    BY <1>2, <2>1, <2>3, RequestAsks
  <2> QED
    BY <2>1, <2>2, <2>4 DEF Acts
<1>8. CASE Programs!SignIn(u) \/ Programs!Dial(u)
  BY <1>8 DEF Programs!SignIn, Programs!Dial
<1> QED
  BY <1>3, <1>4, <1>5, <1>6, <1>7, <1>8 DEF Programs!GuiProceeds, Programs!UserActs

\* A call-id is drawn, for its program and whom it calls.
Draws(u, c, peer) ==
  /\ c \in unused /\ unused' = unused \ {c} /\ peer \in (Uri \ {u}) \cup {ServerUri}
  /\ \E type \in {"REGISTER", "INVITE"} :
       LET call == Programs!NewCall(type, c, peer, "WAITING_AUTH", 1)
       IN /\ myCall' = [myCall EXCEPT ![u] = call]
          /\ Programs!Transmit(u, Programs!Request(u, type, call, "none"))
  /\ loop' = loop /\ toClient' = toClient

\* A program draws a call-id for a call of its own only: register and invite.
LEMMA OnlyNewCallsDraw ==
  ASSUME NEW u \in Uri,
         Programs!SipThread(u) \/ Programs!GuiProceeds(u) \/ Programs!UserActs(u)
  PROVE  unused' = unused \/ \E c, peer : Draws(u, c, peer)
<1>1. CASE Programs!SipThread(u)
  BY <1>1
  DEF Programs!SipThread, Programs!LoopClears, Programs!InviteDeclined, Programs!InviteRings,
      Programs!UserAsked, Programs!LoopRaises, Programs!Ignored, Programs!Acknowledged,
      Programs!ByeReceived, Programs!ByeClears, Programs!ChallengeAnswered,
      Programs!CallFails, Programs!LoginGranted, Programs!LoginClears,
      Programs!LoginRefused, Programs!Progress, Programs!Answered, Programs!StreamStarts,
      Programs!CallEnded, Programs!Unexpected, Programs!Stop
<1>2. CASE Programs!SignIn(u) \/ Programs!Dial(u)
  <2>1. PICK c \in unused, peer \in (Uri \ {u}) \cup {ServerUri}, type \in {"REGISTER", "INVITE"} :
          LET call == Programs!NewCall(type, c, peer, "WAITING_AUTH", 1)
          IN /\ unused' = unused \ {c} /\ myCall' = [myCall EXCEPT ![u] = call]
             /\ Programs!Transmit(u, Programs!Request(u, type, call, "none"))
             /\ loop' = loop /\ toClient' = toClient
    BY <1>2 DEF Programs!SignIn, Programs!Dial
  <2> QED
    BY <2>1 DEF Draws
<1>3. CASE Programs!GuiProceeds(u) \/ Programs!UserActs(u)
  BY <1>2, <1>3
  DEF Programs!GuiProceeds, Programs!UserActs, Programs!CallbackRuns, Programs!AcceptEnds,
      Programs!DeclineClears, Programs!DeclineEnds,
      Programs!Accept, Programs!Decline, Programs!EndCall, Programs!GoBack,
      Programs!CloseWindow, Programs!Stop
<1> QED
  BY <1>1, <1>3

\* Whom a new call-id is for is free to say while nothing is about it.
LEMMA PairingFree ==
  ASSUME WholeTyped, NEW P \in Pairing, Fits(P), NEW c \in unused, NEW parties
  PROVE  Fits([P EXCEPT ![c] = parties])
<1> DEFINE Q == [P EXCEPT ![c] = parties]
<1>1. \A d \in Ids : d \in CallId /\ Q[d] = P[d]
  BY DEF Ids, Pairing
<1> HIDE DEF Q
<1>2. \A m : m.cid \in Ids => /\ Asks(P, m) => Asks(Q, m)
                             /\ \A u : Hears(P, u, m) => Hears(Q, u, m)
  BY <1>1 DEF Asks, Hears
<1>3. TasksFit(Q)
  BY <1>2 DEF Fits, ServerFits, TasksFit, WholeTyped, ServerDraws, Drawn, Ids
<1>4. FramesFit(Q)
  <2> SUFFICES ASSUME NEW t \in Thread, NEW i \in 1..Len(stack[t])
               PROVE  FrameFits(Q, stack[t][i])
    BY DEF FramesFit
  <2>1. FrameFits(P, stack[t][i]) /\ stack[t][i] \in Frame
    BY DEF Fits, ServerFits, FramesFit, WholeTyped, Shape, TypeOK, StackOK
  <2>2. stack[t][i].msg # NoMsg => stack[t][i].msg.cid \in Ids
    BY DEF WholeTyped, ServerDraws, FramesDrawn, DrawnIfAny, Drawn, Ids
  <2> QED
    BY <1>2, <2>1, <2>2, AbsentAssumption DEF FrameFits, Frame
<1>5. CallsFit(Q)
  BY <1>1 DEF Fits, ServerFits, CallsFit, Party, WholeTyped, ServerDraws, Ids
<1>6. ASSUME NEW u \in Uri
      PROVE  ProgramFits(Q, u)
  <2>1. ProgramFits(P, u) /\ ProgramsTyped(Ids)
    BY DEF Fits, WholeTyped
  <2>2. CallFits(Q, u, myCall[u])
    <3>1. myCall[u] \in ProgramCall(Ids) \cup {NoCall}
      BY <2>1 DEF ProgramsTyped, CallsTyped
    <3>2. myCall[u] # NoCall => /\ myCall[u].cid \in Ids
                                /\ myCall[u].data # NoMsg => myCall[u].data.cid \in Ids
      BY <3>1 DEF ProgramCall, ReadFrom
    <3> QED
      BY <1>1, <2>1, <3>2 DEF ProgramFits, CallFits
  <2>3. PlaceFits(Q, u, loop[u])
    <3>1. loop[u] \in LoopAt(Ids)
      BY <2>1 DEF ProgramsTyped, ThreadsTyped
    <3>2. loop[u].msg # NoMsg => loop[u].msg.cid \in Ids
      BY <3>1 DEF LoopAt, ReadFrom
    <3> QED
      BY <1>1, <2>1, <3>2 DEF ProgramFits, PlaceFits
  <2>4. ASSUME NEW i \in 1..Len(toServer[u])
        PROVE  Asks(Q, toServer[u][i])
    <3>1. toServer[u][i] \in WrittenBy(u, Ids)
      BY <2>1 DEF ProgramsTyped, WiresTyped
    <3> QED
      BY <1>2, <2>1, <3>1 DEF WrittenBy, ProgramFits
  <2>5. ASSUME NEW i \in 1..Len(toClient[u])
        PROVE  Hears(Q, u, toClient[u][i])
    <3>1. toClient[u][i] \in ReadFrom(Ids)
      BY <2>1 DEF ProgramsTyped, WiresTyped
    <3> QED
      BY <1>2, <2>1, <3>1 DEF ReadFrom, ProgramFits
  <2> QED
    BY <2>2, <2>3, <2>4, <2>5 DEF ProgramFits
<1> QED
  BY <1>3, <1>4, <1>5, <1>6 DEF Fits, ServerFits, Q

\* The places of an appended sequence, whatever is appended.
LEMMA AppendedPlaces ==
  ASSUME NEW S, NEW q \in Seq(S), NEW m, NEW r, r = Append(q, m), NEW i \in 1..Len(r)
  PROVE  r[i] = m \/ (i \in 1..Len(q) /\ r[i] = q[i])
<1>1. q \in Seq(S \cup {m})
  OBVIOUS
<1> QED
  BY <1>1, AppendProperties

\* Drawing a call-id, for whom it is now known.
LEMMA DrawsActs ==
  ASSUME NEW P, NEW u \in Uri, NEW c, NEW peer, Draws(u, c, peer), P[c] = {u, peer}
  PROVE  Acts(P, u)
<1>1. PICK type \in {"REGISTER", "INVITE"} :
        LET call == Programs!NewCall(type, c, peer, "WAITING_AUTH", 1)
        IN /\ myCall' = [myCall EXCEPT ![u] = call]
           /\ Programs!Transmit(u, Programs!Request(u, type, call, "none"))
  BY DEF Draws
<1> DEFINE call == Programs!NewCall(type, c, peer, "WAITING_AUTH", 1)
<1>2. call.cid = c /\ call.peer = peer /\ call.data = NoMsg
  BY DEF Programs!NewCall
<1>3. CallFits(P, u, call)
  BY <1>2 DEF CallFits
<1> HIDE DEF call
<1>4. Asks(P, Programs!Request(u, type, call, "none"))
  BY <1>2, RequestAsks
<1> QED
  BY <1>1, <1>3, <1>4 DEF Acts, Draws, call

\* A step of a program that acts within the pairing keeps it.
LEMMA ActsFit ==
  ASSUME WholeTyped, NEW P, Fits(P), NEW u \in Uri, Acts(P, u), UNCHANGED vars
  PROVE  Fits(P)'
<1>1. ProgramFits(P, u) /\ ProgramsTyped(Ids)
  BY DEF Fits, WholeTyped
<1>2. CallFits(P, u, myCall'[u]) /\ \A v \in Uri \ {u} : myCall'[v] = myCall[v]
  BY <1>1 DEF Acts, ProgramFits, ProgramsTyped, CallsTyped
<1>3. PlaceFits(P, u, loop'[u]) /\ \A v \in Uri \ {u} : loop'[v] = loop[v]
  BY <1>1 DEF Acts, ProgramFits, ProgramsTyped, ThreadsTyped, Programs!Goto
<1>4. /\ \A i \in 1..Len(toServer'[u]) : Asks(P, toServer'[u][i])
      /\ \A v \in Uri \ {u} : toServer'[v] = toServer[v]
  <2>1. toServer \in [Uri -> Seq(ClientMsg)] /\ toServer[u] \in Seq(ClientMsg)
    BY <1>1 DEF ProgramsTyped, WiresTyped
  <2>2. CASE toServer' = toServer
    BY <1>1, <2>2 DEF ProgramFits
  <2>3. ASSUME NEW m, Asks(P, m), Programs!Transmit(u, m)
        PROVE  \A i \in 1..Len(toServer'[u]) : Asks(P, toServer'[u][i])
    <3>1. toServer'[u] = Append(toServer[u], m)
      BY <2>1, <2>3 DEF Programs!Transmit
    <3>2. \A i \in 1..Len(toServer'[u]) :
            toServer'[u][i] = m \/ (i \in 1..Len(toServer[u]) /\ toServer'[u][i] = toServer[u][i])
      BY <2>1, <3>1, AppendedPlaces
    <3> QED
      BY <1>1, <2>3, <3>2 DEF ProgramFits
  <2> QED
    BY <2>1, <2>2, <2>3 DEF Acts, Programs!Transmit
<1>5. /\ \A i \in 1..Len(toClient'[u]) : Hears(P, u, toClient'[u][i])
      /\ \A v \in Uri \ {u} : toClient'[v] = toClient[v]
  <2>1. toClient \in [Uri -> Seq(ReadFrom(Ids))] /\ toClient[u] \in Seq(ReadFrom(Ids))
    BY <1>1 DEF ProgramsTyped, WiresTyped
  <2>2. CASE toClient' = toClient
    BY <1>1, <2>2 DEF ProgramFits
  <2>3. CASE toClient[u] # <<>> /\ Programs!Consume(u)
    <3>1. toClient'[u] = Tail(toClient[u])
      BY <2>1, <2>3 DEF Programs!Consume
    <3>2. \A i \in 1..Len(toClient'[u]) :
            i + 1 \in 1..Len(toClient[u]) /\ toClient'[u][i] = toClient[u][i + 1]
      BY <2>1, <2>3, <3>1
    <3> QED
      BY <1>1, <2>1, <2>3, <3>2 DEF ProgramFits, Programs!Consume
  <2>4. CASE toClient' = [toClient EXCEPT ![u] = <<>>]
    BY <2>1, <2>4
  <2> QED
    BY <2>2, <2>3, <2>4 DEF Acts
<1>6. ASSUME NEW v \in Uri
      PROVE  ProgramFits(P, v)'
  <2>1. CASE v = u
    BY <1>2, <1>3, <1>4, <1>5, <2>1 DEF ProgramFits, CallFits, PlaceFits, Asks, Hears
  <2>2. CASE v # u
    <3>1. ProgramFits(P, v)
      BY DEF Fits
    <3>2. /\ myCall'[v] = myCall[v] /\ loop'[v] = loop[v]
          /\ toServer'[v] = toServer[v] /\ toClient'[v] = toClient[v]
      BY <1>2, <1>3, <1>4, <1>5, <2>2
    <3> QED
      BY <3>1, <3>2 DEF ProgramFits, CallFits, PlaceFits, Asks, Hears
  <2> QED
    BY <2>1, <2>2
<1>7. ServerFits(P)'
  BY DEF Fits, ServerFits, Own, TasksFit, FramesFit, CallsFit, FrameFits, Asks, Hears, Party,
         Known, vars, regVars, callVars, threadVars
<1> QED
  BY <1>6, <1>7 DEF Fits

\* A step of a program keeps some pairing: the one there is, but for the call-id
\* it may draw.
LEMMA ProgramStepFits ==
  ASSUME WholeTyped, NEW P \in Pairing, Fits(P), ProgramStep
  PROVE  \E Q \in Pairing : Fits(Q)'
<1>1. PICK u \in Uri : Programs!SipThread(u) \/ Programs!GuiProceeds(u) \/ Programs!UserActs(u)
  BY DEF ProgramStep, Programs!Next, Programs!Proceeds
<1>2. UNCHANGED vars
  BY DEF ProgramStep, ServerRests
<1>3. ProgramFits(P, u) /\ CallsTyped(Ids) /\ WiresTyped(Ids)
  BY DEF Fits, WholeTyped, ProgramsTyped
<1>4. CASE unused' = unused
  <2>1. Acts(P, u)
    <3>1. CASE Programs!SipThread(u)
      BY <1>3, <3>1, SipThreadCallFits, SipThreadPlaceFits, SipThreadTalkFits DEF Acts
    <3>2. CASE Programs!GuiProceeds(u) \/ Programs!UserActs(u)
      BY <1>3, <1>4, <3>2, GuiThreadFits
    <3> QED
      BY <1>1, <3>1, <3>2
  <2> QED
    BY <1>2, <2>1, ActsFit
<1>5. ASSUME NEW c, NEW peer, Draws(u, c, peer)
      PROVE  \E Q \in Pairing : Fits(Q)'
  <2> DEFINE Q == [P EXCEPT ![c] = {u, peer}]
  <2>1. c \in unused /\ c \in CallId /\ peer \in Uri \cup {ServerUri}
    BY <1>5 DEF Draws, WholeTyped
  <2>2. Q \in Pairing /\ Q[c] = {u, peer}
    BY <2>1 DEF Pairing
  <2>3. Fits(Q)
    BY <2>1, PairingFree
  <2> HIDE DEF Q
  <2>4. Acts(Q, u)
    BY <1>5, <2>2, DrawsActs
  <2> QED
    BY <1>2, <2>2, <2>3, <2>4, ActsFit
<1> QED
  BY <1>1, <1>4, <1>5, OnlyNewCallsDraw

\* The server's threads: what one sends arrives where it may be heard.
LEMMA ServerThreadFits ==
  ASSUME WholeTyped, Sweeping, NEW P, Fits(P), NEW t \in Thread, ServerThread(t)
  PROVE  Fits(P)'
<1>1. /\ ServerFits(P)'
      /\ sent' # NoMsg => Hears(P, UserOf(sent'.to), sent'.msg)
  BY HandleFits, ClosesFit DEF ServerThread, WholeTyped, Fits
<1>2. UNCHANGED programVars /\ toServer' = toServer
  BY DEF ServerThread
<1>3. ASSUME NEW v \in Uri, NEW i \in 1..Len(toClient'[v])
      PROVE  Hears(P, v, toClient'[v][i])
  <2> DEFINE u == UserOf(sent'.to)
  <2>1. toClient \in [Uri -> Seq(ReadFrom(Ids))] /\ toClient[v] \in Seq(ReadFrom(Ids))
    BY DEF WholeTyped, ProgramsTyped, WiresTyped
  <2>2. CASE toClient'[v] = toClient[v]
    BY <1>3, <2>2 DEF Fits, ProgramFits
  <2>3. CASE sent' # NoMsg /\ v = u /\ toClient'[v] = Append(toClient[v], sent'.msg)
    <3>1. toClient'[v][i] = sent'.msg \/ (i \in 1..Len(toClient[v]) /\ toClient'[v][i] = toClient[v][i])
      BY <1>3, <2>1, <2>3, AppendedPlaces
    <3> QED
      BY <1>1, <2>3, <3>1 DEF Fits, ProgramFits
  <2>4. \/ toClient' = toClient
        \/ sent' # NoMsg /\ toClient' = [toClient EXCEPT ![u] = Append(toClient[u], sent'.msg)]
    BY DEF ServerThread, Arrives
  <2> HIDE DEF u
  <2> QED
    BY <2>1, <2>2, <2>3, <2>4
<1>4. ASSUME NEW v \in Uri
      PROVE  ProgramFits(P, v)'
  <2>1. ProgramFits(P, v)
    BY DEF Fits
  <2> QED
    BY <1>2, <1>3, <2>1 DEF ProgramFits, CallFits, PlaceFits, Asks, Hears, programVars
<1> QED
  BY <1>1, <1>4 DEF Fits

\* The worker that reads a message has it from its sender's socket.
LEMMA ServerReadsFits ==
  ASSUME WholeTyped, NEW P, Fits(P), NEW w \in Worker, ServerReads(w)
  PROVE  Fits(P)'
<1> DEFINE u == UserOf(main.sock)
           m == Head(toServer[u])
<1>1. u \in Uri /\ SocketOf[u] = main.sock /\ toServer[u] # <<>>
  <2>1. main.sock \in Sock
    BY DEF WholeTyped, Shape, TypeOK, LoopOK, ServerReads, Receive
  <2> QED
    BY <2>1, UserOfSocket DEF ServerReads
<1>2. toServer \in [Uri -> Seq(ClientMsg)] /\ toServer[u] \in Seq(WrittenBy(u, Ids))
  BY <1>1 DEF WholeTyped, ProgramsTyped, WiresTyped
<1>3. /\ toServer' = [toServer EXCEPT ![u] = Tail(toServer[u])]
      /\ task'[w].msg = m /\ UNCHANGED <<programVars, toClient>>
      /\ \E n : task' = [task EXCEPT ![w] = [sock |-> main.sock, msg |-> n, stage |-> "start"]]
      /\ stack' = stack /\ calls' = calls /\ valToObj' = valToObj
  BY DEF ServerReads, Receive, callVars, regVars
<1> HIDE DEF u
<1>4. m = toServer[u][1] /\ 1 \in 1..Len(toServer[u]) /\ m.from = u
  <2>1. m \in WrittenBy(u, Ids) /\ m = toServer[u][1] /\ 1 \in 1..Len(toServer[u])
    BY <1>1, <1>2
  <2> QED
    BY <2>1 DEF WrittenBy
<1>5. Asks(P, m)
  BY <1>1, <1>4 DEF Fits, ProgramFits
<1> HIDE DEF m
<1>6. TasksFit(P)'
  <2> SUFFICES ASSUME NEW v \in Worker, task'[v].stage # "idle"
               PROVE  Asks(P, task'[v].msg) /\ task'[v].sock = SocketOf[task'[v].msg.from]
    BY DEF TasksFit, Asks
  <2>1. CASE v = w
    <3>1. task'[w].sock = main.sock
      BY <1>3 DEF WholeTyped, Shape, TypeOK, TaskOK
    <3> QED
      BY <1>1, <1>3, <1>4, <1>5, <2>1, <3>1
  <2>2. CASE v # w
    BY <1>3, <2>2 DEF Fits, ServerFits, TasksFit, WholeTyped, Shape, TypeOK, TaskOK
  <2> QED
    BY <2>1, <2>2
<1>7. ServerFits(P)'
  BY <1>3, <1>6 DEF Fits, ServerFits, Own, FramesFit, CallsFit, FrameFits, Hears, Party, Known
<1>8. ASSUME NEW v \in Uri, NEW i \in 1..Len(toServer'[v])
      PROVE  Asks(P, toServer'[v][i])
  <2>1. CASE v = u
    <3>1. i + 1 \in 1..Len(toServer[v]) /\ toServer'[v][i] = toServer[v][i + 1]
      BY <1>1, <1>2, <1>3, <1>8, <2>1
    <3> QED
      BY <3>1 DEF Fits, ProgramFits
  <2>2. CASE v # u
    BY <1>2, <1>3, <1>8, <2>2 DEF Fits, ProgramFits
  <2> QED
    BY <2>1, <2>2
<1>9. ASSUME NEW v \in Uri
      PROVE  ProgramFits(P, v)'
  <2>1. ProgramFits(P, v)
    BY DEF Fits
  <2> QED
    BY <1>3, <1>8, <2>1 DEF ProgramFits, CallFits, PlaceFits, Asks, Hears, programVars
<1> QED
  BY <1>7, <1>9 DEF Fits

\* Waiting, hanging up and lost connections: only closes begin.
LEMMA ServerRestFits ==
  ASSUME WholeTyped, NEW P, Fits(P),
         \/ \E s \in Sock : ServerSelects(s)
         \/ ServerHangsUp
         \/ \E u \in Uri : ConnectionEnds(u)
  PROVE  Fits(P)'
<1>1. UNCHANGED <<programVars, toServer, toClient>>
  BY DEF ServerSelects, ServerHangsUp, ConnectionEnds
<1>2. calls' = calls /\ task' = task /\ valToObj' = valToObj
  BY DEF ServerSelects, ServerHangsUp, ConnectionEnds, Select, Hangup, Vanish,
         callVars, regVars, threadVars
<1>3. \A t \in Thread : stack'[t] = stack[t] \/ \E s : stack'[t] = <<Close(s)>>
  BY DEF ServerSelects, ServerHangsUp, ConnectionEnds, Select, Hangup, Vanish, threadVars,
         WholeTyped, Shape, TypeOK, StackOK
<1>4. ASSUME NEW s
      PROVE  \A i \in 1..Len(<<Close(s)>>) : FrameFits(P, <<Close(s)>>[i])
  BY DEF FrameFits, Close
<1>5. ASSUME NEW t \in Thread, NEW i \in 1..Len(stack'[t])
      PROVE  FrameFits(P, stack'[t][i])
  BY <1>3, <1>4 DEF Fits, ServerFits, FramesFit
<1>6. ServerFits(P)'
  BY <1>2, <1>5 DEF Fits, ServerFits, Own, TasksFit, Asks, FramesFit, CallsFit, FrameFits,
                    Hears, Party, Known
<1>7. \A v \in Uri : ProgramFits(P, v)'
  BY <1>1 DEF Fits, ProgramFits, CallFits, PlaceFits, Asks, Hears, programVars
<1> QED
  BY <1>6, <1>7 DEF Fits

\* Who connects as whom: no program starts with another's registration.
RegisteredAsOneself == \A u \in Uri : RegisteredAtStart[u] \in {SocketOf[u], NoSock}

\* At the start no call-id has been drawn: any pairing fits.
LEMMA InitFits ==
  ASSUME RegisteredAsOneself, SystemInit
  PROVE  \E P \in Pairing : Fits(P)
<1> DEFINE P == [c \in CallId |-> {}]
<1>1. P \in Pairing
  BY DEF Pairing
<1>2. ServerFits(P)
  <2>1. /\ \A u \in Uri : valToObj[u] \in {SocketOf[u], NoSock}
        /\ \A c \in CallId : ~Known(c)
        /\ \A w \in Worker : task[w].stage = "idle"
        /\ \A t \in Thread : stack[t] = <<>>
    BY DEF SystemInit, Init, RegisteredAsOneself, Known, IdleTask
  <2> QED
    BY <2>1 DEF ServerFits, Own, TasksFit, FramesFit, CallsFit
<1>3. ASSUME NEW u \in Uri
      PROVE  ProgramFits(P, u)
  <2>1. /\ myCall[u] = NoCall /\ loop[u] = Programs!Ready
        /\ toServer[u] = <<>> /\ toClient[u] = <<>>
    BY DEF SystemInit, Programs!Init
  <2>2. Programs!Ready.msg = NoMsg
    BY DEF Programs!Ready, Programs!At
  <2> HIDE DEF P
  <2> QED
    BY <2>1, <2>2 DEF ProgramFits, CallFits, PlaceFits
<1> HIDE DEF P
<1> QED
  BY <1>1, <1>2, <1>3 DEF Fits

\* Every step of server and programs leaves some pairing that fits.
LEMMA SystemStepFits ==
  ASSUME WholeTyped, Sweeping, \E P \in Pairing : Fits(P), [SystemNext]_systemVars
  PROVE  \E P \in Pairing : Fits(P)'
<1> PICK P \in Pairing : Fits(P)
  OBVIOUS
<1>1. CASE ProgramStep
  BY <1>1, ProgramStepFits
<1>2. CASE \E t \in Thread : ServerThread(t)
  BY <1>2, ServerThreadFits
<1>3. CASE \E w \in Worker : ServerReads(w)
  BY <1>3, ServerReadsFits
<1>4. CASE \/ \E s \in Sock : ServerSelects(s)
           \/ ServerHangsUp
           \/ \E u \in Uri : ConnectionEnds(u)
  BY <1>4, ServerRestFits
<1>5. CASE UNCHANGED systemVars
  <2>1. /\ UNCHANGED <<valToObj, calls, task, stack>>
        /\ UNCHANGED <<myCall, loop, toServer, toClient>>
    BY <1>5 DEF systemVars, programVars, vars, regVars, callVars, threadVars
  <2>2. ServerFits(P)'
    BY <2>1 DEF Fits, ServerFits, Own, TasksFit, FramesFit, CallsFit, FrameFits, Asks, Hears,
                Party, Known
  <2>3. \A v \in Uri : ProgramFits(P, v)'
    BY <2>1 DEF Fits, ProgramFits, CallFits, PlaceFits, Asks, Hears
  <2> QED
    BY <2>2, <2>3 DEF Fits
<1> QED
  BY <1>1, <1>2, <1>3, <1>4, <1>5 DEF SystemNext, ServerStep

\* The pair of a call-id says who may have to do with it.
LEMMA PairsTell ==
  ASSUME WholeTyped, NEW P, Fits(P)
  PROVE  CallsAreBetweenTwo
<1> SUFFICES ASSUME NEW u \in Uri, myCall[u] # NoCall
             PROVE  LET c == myCall[u].cid
                        parties == {u, myCall[u].peer} IN
                    /\ \A v \in Uri : SameCall(u, v) => {v, myCall[v].peer} = parties
                    /\ \A s \in Sock : Involves(c, s) => UserOf(s) \in parties
                    /\ \A v \in Uri :
                         /\ \A i \in 1..Len(toServer[v]) :
                              toServer[v][i].cid = c => v \in parties
                         /\ \A i \in 1..Len(toClient[v]) :
                              toClient[v][i].cid = c /\ toClient[v][i].what # "GONE"
                                => v \in parties
  BY DEF CallsAreBetweenTwo
<1> DEFINE c == myCall[u].cid
<1>1. \A v \in Uri : myCall[v] # NoCall => P[myCall[v].cid] = {v, myCall[v].peer}
  BY DEF Fits, ProgramFits, CallFits
<1>2. \A v \in Uri : SameCall(u, v) => {v, myCall[v].peer} = P[c]
  BY <1>1 DEF SameCall
<1>3. ASSUME NEW s \in Sock, Involves(c, s)
      PROVE  UserOf(s) \in P[c]
  <2>1. c \in CallId
    BY DEF WholeTyped, ProgramsTyped, CallsTyped, ProgramCall, Ids
  <2>2. s # NoSock
    BY ConstantsAssumption
  <2> QED
    BY <1>3, <2>1, <2>2 DEF Fits, ServerFits, CallsFit, Party, Involves
<1>4. ASSUME NEW v \in Uri, NEW i \in 1..Len(toServer[v]), toServer[v][i].cid = c
      PROVE  v \in P[c]
  <2>1. toServer[v][i] \in WrittenBy(v, Ids)
    BY DEF WholeTyped, ProgramsTyped, WiresTyped
  <2>2. toServer[v][i].from = v
    BY <2>1 DEF WrittenBy
  <2> QED
    BY <1>4, <2>2 DEF Fits, ProgramFits, Asks
<1>5. ASSUME NEW v \in Uri, NEW i \in 1..Len(toClient[v]), toClient[v][i].cid = c,
             toClient[v][i].what # "GONE"
      PROVE  v \in P[c]
  BY <1>5 DEF Fits, ProgramFits, Hears
<1> QED
  BY <1>1, <1>2, <1>3, <1>4, <1>5

\* A call stays between the two it was begun for: the call-id that invite draws
\* is shared with the user it dials and with nobody else, however the programs
\* click and hang up, whichever connections end and whatever the server's
\* threads interleave.  The server relays by the caller and the callee it has
\* recorded (bye_request, ack_request, process_response), and the clients compare
\* call ids only: nothing in the code compares what the two ends hold.
THEOREM CallsStayBetweenTwo ==
  ASSUME RegisteredAsOneself
  PROVE  SystemSpec => []CallsAreBetweenTwo
<1>1. SystemInit => \E P \in Pairing : Fits(P)
  BY InitFits
<1>2. /\ WholeTyped /\ Locked /\ (\E P \in Pairing : Fits(P)) /\ [SystemNext]_systemVars
      => (\E P \in Pairing : Fits(P))'
  BY SystemStepFits DEF Locked, Pairing
<1>3. WholeTyped /\ (\E P \in Pairing : Fits(P)) => CallsAreBetweenTwo
  BY PairsTell
<1>4. SystemSpec => []Locked
  BY SystemImplementsServer, LockedAlways, PTL
<1> QED
  BY <1>1, <1>2, <1>3, <1>4, WholeInvariant, PTL DEF SystemSpec
=============================================================================
