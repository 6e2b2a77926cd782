--------------------------- MODULE SipServerLocks ---------------------------
(***************************************************************************)
(* What SIPServer's locks achieve: properties that hold because a thread   *)
(* keeps a lock while it still has sends or closes to do.  Locked says     *)
(* which frames of a stack go with which lock; each theorem adds what the  *)
(* lock protects and rests on the actions of the others being locked out.  *)
(* The second half is about _close_connection (1184-1230): when it ends by *)
(* an exception, and that it leaves no call of a closed caller behind.     *)
(***************************************************************************)
EXTENDS SipServerProofs

-----------------------------------------------------------------------------
(* The invariants *)

\* A close that has taken its snapshot of the calls is inside the call lock;
\* of the nested closes of a stack, the outermost one took it.
Sound(fs, ls) ==
  /\ \A i \in 1..Len(fs) : fs[i].pc = "sweep" => "call" \in ls
  /\ \A i, j \in 1..Len(fs) :
       i < j /\ fs[i].pc = "sweep" /\ fs[j].pc = "sweep" => ~fs[i].took

Sweeping == \A t \in Thread : Sound(stack[t], holds[t])

\* A pass of _keep_alive is inside the connection lock.
Probing ==
  /\ prober.pc \in {"evict", "probe"} => "conn" \in holds["keepalive"]
  /\ prober.pc \notin {"evict", "probe"} => stack["keepalive"] = <<>>

\* _cleanup_inactive_calls is inside the call lock until its last `del`, so no
\* close it makes takes or gives back that lock.
Cleaning ==
  /\ cleaner.pc \in {"first", "second"} => "call" \in holds["cleanup"]
  /\ cleaner.pc \notin {"first", "second"} => stack["cleanup"] = <<>>
  /\ \A i \in 1..Len(stack["cleanup"]) : ~stack["cleanup"][i].took

Locked == Sweeping /\ Probing /\ Cleaning

\* The snapshot stays true of the calls that are left: the one who closes
\* socket s still has only calls of s before him.
Swept ==
  \A t \in Thread : \A i \in 1..Len(stack[t]) :
    stack[t][i].pc = "sweep" =>
      \A c \in stack[t][i].todo : Known(c) => Involves(c, stack[t][i].sock)

\* The call found idle is not established while the cleaner works on it.
Idled == cleaner.pc = "first" /\ Known(cleaner.cid) => calls[cleaner.cid].state # "IN_CALL"

\* _keep_alive has yet to evict each connected socket with an open entry.
Evicted ==
  /\ prober.pc = "evict" => \A s \in keepAlive : conn[s] = "up" => s \in prober.todo
  /\ RemainingHaveAnswered

\* A 200 OK of the server itself, yet to be sent.
IsOk(f) == f.msg # NoMsg /\ f.msg.what = "OK" /\ f.msg.from = ServerUri

\* It is all its worker has left to do, inside the registration lock, and its
\* receiver is registered.
OkAlone(t) ==
  \A i \in 1..Len(stack[t]) : IsOk(stack[t][i]) =>
    /\ t \in Worker /\ Len(stack[t]) = 1 /\ stack[t][i].pc = "send"
    /\ "reg" \in holds[t] /\ LoggedIn(stack[t][i].sock)

OksAlone == \A t \in Thread : OkAlone(t)

-----------------------------------------------------------------------------
(* Stacks *)

LEMMA SoundTail ==
  ASSUME NEW fs \in Seq(Frame), fs # <<>>, NEW ls, Sound(fs, ls)
  PROVE  Sound(Tail(fs), ls)
<1>1. Len(Tail(fs)) = Len(fs) - 1 /\ \A i \in 1..Len(Tail(fs)) : Tail(fs)[i] = fs[i + 1]
  OBVIOUS
<1>2. Len(fs) \in Nat /\ Len(fs) > 0
  OBVIOUS
<1> QED
  BY <1>1, <1>2 DEF Sound

\* The outermost close of a stack gives the lock back: no sweep is below it.
LEMMA SoundRelease ==
  ASSUME NEW fs \in Seq(Frame), fs # <<>>, NEW ls, Sound(fs, ls),
         Head(fs).pc = "sweep", Head(fs).took
  PROVE  Sound(Tail(fs), ls \ {"call"})
<1>1. Len(Tail(fs)) = Len(fs) - 1 /\ \A i \in 1..Len(Tail(fs)) : Tail(fs)[i] = fs[i + 1]
  OBVIOUS
<1>2. Len(fs) \in Nat /\ Len(fs) > 0 /\ Head(fs) = fs[1]
  OBVIOUS
<1>3. \A j \in 1..Len(fs) : 1 < j => fs[j].pc # "sweep"
  BY <1>2 DEF Sound
<1> QED
  BY <1>1, <1>2, <1>3 DEF Sound

\* The frame on top changes, without becoming another sweep.
LEMMA SoundTurn ==
  ASSUME NEW fs \in Seq(Frame), fs # <<>>, NEW ls, Sound(fs, ls), NEW g \in Frame,
         g.pc = "sweep" => Head(fs).pc = "sweep" /\ g.took = Head(fs).took
  PROVE  Sound(<<g>> \o Tail(fs), ls)
<1> DEFINE gs == <<g>> \o Tail(fs)
<1>1. Len(fs) \in Nat /\ Len(fs) > 0 /\ Head(fs) = fs[1]
  OBVIOUS
<1>2. Len(gs) = Len(fs) /\ gs[1] = g /\ \A i \in 2..Len(fs) : gs[i] = fs[i]
  OBVIOUS
<1> HIDE DEF gs
<1> QED
  BY <1>1, <1>2 DEF Sound, gs

LEMMA SoundPush ==
  ASSUME NEW fs \in Seq(Frame), NEW ls, Sound(fs, ls), NEW g \in Frame, g.pc # "sweep"
  PROVE  Sound(<<g>> \o fs, ls)
<1> DEFINE gs == <<g>> \o fs
<1>1. Len(fs) \in Nat
  OBVIOUS
<1>2. Len(gs) = Len(fs) + 1 /\ gs[1] = g /\ \A i \in 2..Len(gs) : gs[i] = fs[i - 1]
  OBVIOUS
<1> HIDE DEF gs
<1>3. \A i \in 1..Len(gs) : gs[i].pc = "sweep" =>
        i - 1 \in 1..Len(fs) /\ gs[i] = fs[i - 1]
  BY <1>1, <1>2
<1>4. ASSUME NEW i \in 1..Len(gs), gs[i].pc = "sweep"
      PROVE  "call" \in ls
  BY <1>3, <1>4 DEF Sound
<1>5. ASSUME NEW i \in 1..Len(gs), NEW j \in 1..Len(gs), i < j,
             gs[i].pc = "sweep", gs[j].pc = "sweep"
      PROVE  ~gs[i].took
  <2>1. i - 1 < j - 1
    BY <1>1, <1>2, <1>5
  <2> QED
    BY <1>3, <1>5, <2>1 DEF Sound
<1> QED
  BY <1>4, <1>5 DEF Sound, gs

\* A close takes its snapshot: it took the lock if no other sweep is below it.
LEMMA SoundSweep ==
  ASSUME NEW fs \in Seq(Frame), fs # <<>>, NEW ls, Sound(fs, ls), NEW g \in Frame,
         g.took <=> "call" \notin ls
  PROVE  Sound(<<g>> \o Tail(fs), ls \cup {"call"})
<1> DEFINE gs == <<g>> \o Tail(fs)
<1>1. Len(fs) \in Nat /\ Len(fs) > 0 /\ Head(fs) = fs[1]
  OBVIOUS
<1>2. Len(gs) = Len(fs) /\ gs[1] = g /\ \A i \in 2..Len(fs) : gs[i] = fs[i]
  OBVIOUS
<1> HIDE DEF gs
<1>3. ASSUME NEW i \in 1..Len(gs), NEW j \in 1..Len(gs), i < j,
             gs[i].pc = "sweep", gs[j].pc = "sweep"
      PROVE  ~gs[i].took
  <2>1. gs[j] = fs[j] /\ j \in 1..Len(fs)
    BY <1>1, <1>2, <1>3
  <2>2. "call" \in ls
    BY <1>3, <2>1 DEF Sound
  <2>3. CASE i = 1
    BY <1>2, <2>2, <2>3
  <2>4. CASE i # 1
    BY <1>1, <1>2, <1>3, <2>1, <2>4 DEF Sound
  <2> QED
    BY <2>3, <2>4
<1> QED
  BY <1>3 DEF Sound, gs

-----------------------------------------------------------------------------
(* The steps of a handler *)

Plain(fs) ==
  \A i \in 1..Len(fs) :
    /\ fs[i].pc \in {"send", "conn"} /\ ~fs[i].took /\ ~IsOk(fs[i])
    /\ fs[i].pc = "conn" => fs[i].msg = NoMsg

Leaves(w, fs, ls) ==
  /\ stack[w] = <<>>
  /\ stack' = [stack EXCEPT ![w] = fs]
  /\ holds' = [holds EXCEPT ![w] = ls]
  /\ UNCHANGED <<netVars, main, prober, cleaner>>
  /\ Quiet

Confirms(fs, ls) ==
  \E s \in Sock : \E m \in ClientMsg :
    fs = <<Send(s, Reply(m, "OK"))>> /\ "reg" \in ls /\ LoggedIn(s)'

\* A handler that goes on is left with sends that are no 200 OK of the server,
\* or with that one alone.
HandlerStep(w) == \E fs, ls : Leaves(w, fs, ls) /\ (Plain(fs) \/ Confirms(fs, ls))

LEMMA LeaveLeaves ==
  ASSUME NEW w, NEW stage, NEW fs, NEW ls, stack[w] = <<>>, Leave(w, stage, fs, ls),
         Plain(fs) \/ Confirms(fs, ls)
  PROVE  HandlerStep(w)
  BY DEF Leave, HandlerStep, Leaves

LEMMA DropLeaves ==
  ASSUME NEW w, stack[w] = <<>>, NEW stage, NEW ls, Leave(w, stage, <<>>, ls)
  PROVE  HandlerStep(w)
<1>1. Plain(<<>>)
  BY DEF Plain
<1> QED
  BY <1>1, LeaveLeaves

LEMMA ReplyPlain ==
  ASSUME NEW s, NEW m, NEW what, what # "OK"
  PROVE  Plain(<<Send(s, Reply(m, what))>>)
  BY DEF Plain, Send, Reply, IsOk

LEMMA RelayPlain ==
  ASSUME NEW s, NEW m \in ClientMsg
  PROVE  Plain(<<Send(s, Relay(m))>>)
  BY ConstantsAssumption DEF Plain, Send, Relay, IsOk, ClientMsg

LEMMA PlainConcat ==
  ASSUME NEW fs \in Seq(Frame), NEW gs \in Seq(Frame), Plain(fs), Plain(gs)
  PROVE  Plain(fs \o gs)
<1> DEFINE hs == fs \o gs
<1>1. Len(fs) \in Nat /\ Len(gs) \in Nat /\ Len(hs) = Len(fs) + Len(gs)
  OBVIOUS
<1>2. \A i \in 1..Len(hs) :
        \/ i \in 1..Len(fs) /\ hs[i] = fs[i]
        \/ i - Len(fs) \in 1..Len(gs) /\ hs[i] = gs[i - Len(fs)]
  BY <1>1, ConcatProperties
<1> HIDE DEF hs
<1>3. Plain(hs)
  BY <1>2 DEF Plain
<1> QED
  BY <1>3 DEF hs

LEMMA TwoJoined ==
  ASSUME NEW f \in Frame, NEW g \in Frame
  PROVE  <<f>> \o <<g>> = <<f, g>>
<1> DEFINE joined == <<f>> \o <<g>>
<1>1. /\ joined \in Seq(Frame) /\ Len(joined) = 2
      /\ joined[1] = f /\ joined[2] = g
  BY ConcatProperties
<1> HIDE DEF joined
<1>2. joined = <<f, g>>
  BY <1>1, SeqEqual
<1> QED
  BY <1>2 DEF joined

LEMMA AnswerLeaves ==
  ASSUME NEW w, stack[w] = <<>>, NEW what, what # "OK", NEW ls, Answer(w, what, ls)
  PROVE  HandlerStep(w)
  BY ReplyPlain, LeaveLeaves DEF Answer

LEMMA RefusalLeaves ==
  ASSUME NEW w \in Worker,
         \/ Invalid(w) \/ BumpCSeq(w) \/ Unhandled(w) \/ RegisterRefused(w)
         \/ RegisterForgets(w) \/ RegisterChallenged(w) \/ RegisterUnverified(w)
         \/ InviteRefused(w) \/ InviteMismatch(w) \/ InviteCalleeAway(w) \/ InviteStopped(w)
         \/ NoSuchCall(w) \/ RequestMismatch(w) \/ ResponseLookedUp(w)
         \/ KeepAliveAnswered(w) \/ ResponseDropped(w) \/ ResponseToRegister(w)
  PROVE  HandlerStep(w)
<1>1. stack[w] = <<>>
  BY DEF Runs, Invalid, BumpCSeq, Unhandled, RegisterRefused, RegisterForgets,
         RegisterChallenged, RegisterUnverified, InviteRefused, InviteRuns, InviteMismatch,
         InviteCalleeAway, InviteStopped, NoSuchCall, RequestMismatch, ResponseLookedUp,
         KeepAliveAnswered, ResponseRuns, ResponseDropped, ResponseToRegister
<1>2. \/ \E stage, ls : Leave(w, stage, <<>>, ls)
      \/ \E what, ls : what # "OK" /\ Answer(w, what, ls)
      \/ \E stage, what, ls :
           what # "OK" /\ Leave(w, stage, <<Send(task[w].sock, Reply(task[w].msg, what))>>, ls)
  <2>1. CASE \/ BumpCSeq(w) \/ Unhandled(w) \/ RegisterForgets(w) \/ NoSuchCall(w)
             \/ ResponseLookedUp(w) \/ KeepAliveAnswered(w) \/ ResponseDropped(w)
    BY <2>1 DEF BumpCSeq, Unhandled, RegisterForgets, NoSuchCall, ResponseLookedUp,
                KeepAliveAnswered, ResponseDropped, Drop
  <2>2. CASE Invalid(w)
    BY <2>2 DEF Invalid
  <2>3. CASE RegisterRefused(w) \/ RegisterUnverified(w) \/ InviteRefused(w)
    BY <2>3 DEF RegisterRefused, RegisterUnverified, InviteRefused
  <2>4. CASE RegisterChallenged(w) \/ InviteMismatch(w)
             \/ RequestMismatch(w) \/ ResponseToRegister(w)
    BY <2>4 DEF RegisterChallenged, InviteMismatch, RequestMismatch,
                ResponseToRegister
  <2>5. CASE InviteCalleeAway(w) \/ InviteStopped(w)
    BY <2>5 DEF InviteCalleeAway, InviteStopped
  <2> QED
    BY <2>1, <2>2, <2>3, <2>4, <2>5
<1> QED
  BY <1>1, <1>2, DropLeaves, AnswerLeaves, ReplyPlain, LeaveLeaves

LEMMA RegisteredConfirms ==
  ASSUME RegOK, NEW w, stack[w] = <<>>, NEW stage, NEW ls, "reg" \in ls,
         NEW s \in Sock, NEW m \in ClientMsg,
         Add(s, m.from) \/ Replace(s, m.from),
         Leave(w, stage, <<Send(s, Reply(m, "OK"))>>, ls)
  PROVE  HandlerStep(w)
<1>1. m.from \in Uri
  BY DEF ClientMsg
<1>2. keyToVal'[s] = m.from /\ valToObj'[m.from] = s
  BY <1>1 DEF Add, Replace, WithoutKey, RegOK
<1>3. LoggedIn(s)'
  BY <1>1, <1>2, ConstantsAssumption DEF LoggedIn
<1>4. Confirms(<<Send(s, Reply(m, "OK"))>>, ls)
  BY <1>3 DEF Confirms
<1> QED
  BY <1>4, LeaveLeaves

LEMMA RegisterLeaves ==
  ASSUME Shape, NEW w \in Worker,
         RegisterOpens(w) \/ RegisterChecks(w) \/ RegisterRechecks(w) \/ RegisterVerified(w)
  PROVE  HandlerStep(w)
<1> USE DEF Shape, TypeOK
<1>1. stack[w] = <<>> /\ task[w].sock \in Sock /\ task[w].msg \in ClientMsg
  <2>1. \E stage \in Stage \ {"idle"} : Runs(w, stage, {"REGISTER"})
    BY DEF RegisterOpens, RegisterChecks, RegisterRechecks, RegisterVerified, Stage
  <2> QED
    BY <2>1, RunsTyped DEF Runs
<1>2. PICK s \in Sock, m \in ClientMsg : s = task[w].sock /\ m = task[w].msg
  BY <1>1
<1>3. CASE RegisterOpens(w)
  BY <1>1, <1>3, AnswerLeaves, DropLeaves DEF RegisterOpens
<1>4. CASE RegisterChecks(w)
  <2>1. CASE Add(s, m.from) /\ Leave(w, "recheck", <<Send(s, Reply(m, "OK"))>>, {"reg"})
    BY <1>1, <2>1, RegisteredConfirms
  <2>2. CASE Leave(w, "forget", <<Send(s, Reply(m, "FORBIDDEN"))>>, {"reg"})
    BY <1>1, <2>2, ReplyPlain, LeaveLeaves
  <2>3. CASE Leave(w, "auth", <<>>, {}) \/ Drop(w)
    BY <1>1, <2>3, DropLeaves DEF Drop
  <2> QED
    BY <1>2, <1>4, <2>1, <2>2, <2>3 DEF RegisterChecks
<1>5. CASE RegisterRechecks(w)
  BY <1>1, <1>5, ReplyPlain, DropLeaves, LeaveLeaves DEF RegisterRechecks
<1>6. CASE RegisterVerified(w)
  <2>1. CASE Drop(w)
    BY <1>1, <2>1, DropLeaves DEF Drop
  <2>2. CASE Replace(s, m.from) /\ Leave(w, "done", <<Send(s, Reply(m, "OK"))>>, {"call", "reg"})
    BY <1>1, <2>2, RegisteredConfirms
  <2> QED
    BY <1>2, <1>6, <2>1, <2>2 DEF RegisterVerified, Answer
<1> QED
  BY <1>3, <1>4, <1>5, <1>6

LEMMA CallLeaves ==
  ASSUME Shape, NEW w \in Worker,
         \/ InviteTried(w) \/ Ack(w) \/ Bye(w) \/ ResponseMoves(w) \/ ResponseEnds(w)
         \/ WaitsForReg(w)
  PROVE  HandlerStep(w)
<1> USE DEF Shape, TypeOK
<1> DEFINE m == task[w].msg
           s == task[w].sock
<1>1. stack[w] = <<>> /\ s \in Sock /\ m \in ClientMsg
  <2>1. \E stage \in Stage \ {"idle"} : \E kinds : Runs(w, stage, kinds)
    BY DEF InviteTried, InviteRuns, Ack, Bye, ResponseRuns, ResponseMoves, ResponseEnds,
           WaitsForReg, Stage
  <2> QED
    BY <2>1, RunsTyped DEF Runs
<1>2. CASE InviteTried(w)
  <2> DEFINE opened == CallOf(m, s, "INVITE", m.to)
             call == [opened EXCEPT !.callee = valToObj[m.to], !.state = "TRYING"]
             relay == <<Send(valToObj[m.to], Relay(m))>>
             trying == <<Send(call.caller, Reply(m, "TRYING"))>>
             rejected == <<Send(s, Reply(m, "BAD_REQUEST"))>>
  <2>1. valToObj[m.to] \in Sock /\ call.caller \in Sock
    <3>1. valToObj[m.to] \in Sock /\ opened \in Call
      BY <1>2, InviteRunsTyped DEF InviteTried
    <3> HIDE DEF opened
    <3> QED
      BY <3>1 DEF Call
  <2>2. /\ relay \in Seq(Frame) /\ trying \in Seq(Frame) /\ rejected \in Seq(Frame)
        /\ Objection(w) \in Seq(Frame)
    <3> HIDE DEF call
    <3> QED
      BY <1>1, <2>1, RelayTyped, ReplyTyped, SendTyped, OneFrame DEF ServerKind, Objection
  <2>3. Plain(relay) /\ Plain(trying) /\ Plain(rejected)
    <3> HIDE DEF call
    <3> QED
      BY <1>1, RelayPlain, ReplyPlain
  <2>4. Plain(Objection(w))
    <3>1. Plain(<<>>)
      BY DEF Plain
    <3> QED
      BY <3>1, ReplyPlain DEF Objection
  <2>5. relay \o trying = <<Send(valToObj[m.to], Relay(m)),
                           Send(call.caller, Reply(m, "TRYING"))>>
    <3> HIDE DEF call
    <3> QED
      BY <1>1, <2>1, RelayTyped, ReplyTyped, SendTyped, TwoJoined DEF ServerKind
  <2>6. \E fs : Plain(fs) /\ Leave(w, "done", fs, {"call"})
    <3>1. CASE m.body
      <4>1. relay \o trying \in Seq(Frame) /\ Plain(relay \o trying)
        <5> HIDE DEF relay, trying
        <5> QED
          BY <2>2, <2>3, PlainConcat, ConcatProperties
      <4>2. Plain(Objection(w) \o (relay \o trying))
        <5> HIDE DEF relay, trying
        <5> QED
          BY <2>2, <2>4, <4>1, PlainConcat
      <4>3. Leave(w, "done", Objection(w) \o (relay \o trying), {"call"})
        BY <1>2, <2>5, <3>1 DEF InviteTried
      <4> QED
        BY <4>2, <4>3
    <3>2. CASE ~m.body
      <4>1. Plain(Objection(w) \o rejected)
        <5> HIDE DEF rejected
        <5> QED
          BY <2>2, <2>3, <2>4, PlainConcat
      <4>2. Leave(w, "done", Objection(w) \o rejected, {"call"})
        BY <1>2, <3>2 DEF InviteTried
      <4> QED
        BY <4>1, <4>2
    <3> QED
      BY <3>1, <3>2
  <2> QED
    BY <1>1, <2>6, LeaveLeaves
<1>3. CASE Ack(w) \/ Bye(w) \/ ResponseMoves(w) \/ ResponseEnds(w)
  <2>1. \/ Drop(w)
        \/ \E peer : Leave(w, "done", <<Send(peer, Relay(m))>>, {"call"})
    BY <1>3 DEF Ack, Bye, ResponseMoves, ResponseEnds, Forward
  <2> QED
    BY <1>1, <2>1, RelayPlain, LeaveLeaves, DropLeaves DEF Drop
<1>4. CASE WaitsForReg(w)
  <2>1. Plain(<<>>)
    BY DEF Plain
  <2>2. stack' = [stack EXCEPT ![w] = <<>>] /\ holds' = [holds EXCEPT ![w] = {"call"}]
    BY <1>1, <1>4 DEF WaitsForReg, StackOK
  <2>3. Leaves(w, <<>>, {"call"})
    BY <1>1, <1>4, <2>2 DEF WaitsForReg, Leaves
  <2> QED
    BY <2>1, <2>3 DEF HandlerStep
<1> QED
  BY <1>2, <1>3, <1>4

LEMMA HandleLeaves ==
  ASSUME Shape, NEW w \in Worker, Handle(w)
  PROVE  HandlerStep(w)
  BY RefusalLeaves, RegisterLeaves, CallLeaves DEF Handle

-----------------------------------------------------------------------------
(* The steps of a send or a close, and of the other threads *)

LEMMA TurnedFrames ==
  ASSUME NEW fs \in Seq(Frame), fs # <<>>, NEW g \in Frame
  PROVE  \A i \in 1..Len(<<g>> \o Tail(fs)) :
           \/ (<<g>> \o Tail(fs))[i] = g
           \/ i \in 2..Len(fs) /\ (<<g>> \o Tail(fs))[i] = fs[i]
  OBVIOUS

\* A send on top of a frame, in the form in which CloseOneCall writes it.
LEMMA PushedFrames ==
  ASSUME NEW f \in Frame, NEW g \in Frame, NEW q \in Seq(Frame)
  PROVE  /\ <<f, g>> \o q = <<f>> \o (<<g>> \o q)
         /\ \A i \in 1..Len(<<f, g>> \o q) :
              \/ (<<f, g>> \o q)[i] \in {f, g}
              \/ i - 2 \in 1..Len(q) /\ (<<f, g>> \o q)[i] = q[i - 2]
<1>1. <<f, g>> = <<f>> \o <<g>>
  BY TwoJoined
<1>2. (<<f>> \o <<g>>) \o q = <<f>> \o (<<g>> \o q)
  BY ConcatAssociative, OneFrame
<1>3. \A i \in 1..Len(<<f, g>> \o q) :
        \/ (<<f, g>> \o q)[i] \in {f, g}
        \/ i - 2 \in 1..Len(q) /\ (<<f, g>> \o q)[i] = q[i - 2]
  OBVIOUS
<1> QED
  BY <1>1, <1>2, <1>3

\* What a frame of thread t can be after t sent or closed: one of those that
\* were below the top, or made of the top frame.
Made(t, g) ==
  \/ \E j \in 2..Len(stack[t]) : g = stack[t][j]
  \/ g.pc \in {"send", "conn"} /\ ~g.took /\ g.msg = NoMsg
  \/ g.pc = "send" /\ ~g.took /\ g.msg.what = "GONE"
  \/ g.pc = "send" /\ ~g.took /\ Top(t).pc = "sweep" /\ g.msg = Top(t).msg
  \/ /\ g.pc \in {"reg", "calls"} /\ Top(t).pc \in {"conn", "reg"}
     /\ g.took = Top(t).took /\ g.msg = Top(t).msg
  \/ /\ g.pc = "sweep" /\ Top(t).pc = "calls" /\ g.msg = Top(t).msg
     /\ (g.took <=> "call" \notin holds[t])
     /\ \A c \in g.todo : Involves(c, g.sock)
     /\ calls' = calls
  \/ /\ g.pc = "sweep" /\ Top(t).pc = "sweep" /\ g.took = Top(t).took
     /\ g.sock = Top(t).sock /\ g.todo \subseteq Top(t).todo
     /\ g.msg = Top(t).msg \/ g.msg.what = "GONE"

Moves(t) ==
  /\ stack[t] # <<>>
  /\ \E fs, ls : stack' = [stack EXCEPT ![t] = fs] /\ holds' = [holds EXCEPT ![t] = ls]
  /\ Sound(stack'[t], holds'[t])
  /\ \A i \in 1..Len(stack'[t]) : Made(t, stack'[t][i])

LEMMA GoOnMoves ==
  ASSUME Shape, NEW t \in Thread, stack[t] # <<>>, NEW gs, NEW ls, GoOn(t, gs, ls),
         Sound(gs, ls), \A i \in 1..Len(gs) : Made(t, gs[i])
  PROVE  Moves(t)
<1>1. stack'[t] = gs /\ stack' = [stack EXCEPT ![t] = gs]
  BY DEF GoOn, Shape, TypeOK, StackOK
<1>2. PICK hs : holds' = [holds EXCEPT ![t] = hs] /\ (gs = <<>> \/ hs = ls)
  BY DEF GoOn
<1>3. holds'[t] = hs
  BY <1>2 DEF Shape, TypeOK, StackOK
<1>4. Sound(gs, hs)
  <2>1. Sound(<<>>, hs)
    BY DEF Sound
  <2> QED
    BY <1>2, <2>1
<1> QED
  BY <1>1, <1>2, <1>3, <1>4 DEF Moves

LEMMA RaiseMoves ==
  ASSUME Shape, NEW t \in Thread, stack[t] # <<>>, Raise(t)
  PROVE  Moves(t)
<1>1. stack'[t] = <<>> /\ \E fs, ls : /\ stack' = [stack EXCEPT ![t] = fs]
                                    /\ holds' = [holds EXCEPT ![t] = ls]
  BY DEF Raise, Shape, TypeOK, StackOK
<1>2. Sound(<<>>, holds'[t])
  BY DEF Sound
<1>3. \A i \in 1..Len(stack'[t]) : Made(t, stack'[t][i])
  <2>1. 1..Len(stack'[t]) = {}
    BY <1>1
  <2> QED
    BY <2>1
<1> QED
  BY <1>1, <1>2, <1>3 DEF Moves

LEMMA TurnMoves ==
  ASSUME Shape, Sweeping, NEW t \in Thread, stack[t] # <<>>, NEW g \in Frame, Turn(t, g),
         Made(t, g), g.pc = "sweep" => Top(t).pc = "sweep" /\ g.took = Top(t).took
  PROVE  Moves(t)
<1> DEFINE gs == <<g>> \o Tail(stack[t])
<1>1. stack[t] \in Seq(Frame) /\ Sound(stack[t], holds[t])
  BY DEF Shape, TypeOK, StackOK, Sweeping
<1>2. Sound(gs, holds[t])
  BY <1>1, SoundTurn DEF Top
<1>3. \A i \in 1..Len(gs) : Made(t, gs[i])
  BY <1>1, TurnedFrames DEF Made
<1> HIDE DEF gs
<1>4. GoOn(t, gs, holds[t])
  BY DEF Turn, gs
<1> QED
  BY <1>2, <1>3, <1>4, GoOnMoves

LEMMA PopMoves ==
  ASSUME Shape, NEW t \in Thread, stack[t] # <<>>, NEW ls, Pop(t, ls),
         Sound(Tail(stack[t]), ls)
  PROVE  Moves(t)
<1> DEFINE gs == Tail(stack[t])
<1>1. stack[t] \in Seq(Frame) /\ Len(stack[t]) \in Nat
  BY DEF Shape, TypeOK, StackOK
<1>2. \A i \in 1..Len(gs) : i + 1 \in 2..Len(stack[t]) /\ gs[i] = stack[t][i + 1]
  BY <1>1
<1> HIDE DEF gs
<1>3. \A i \in 1..Len(gs) : Made(t, gs[i])
  BY <1>2 DEF Made
<1> QED
  BY <1>3, GoOnMoves DEF Pop, gs

LEMMA SendMoves ==
  ASSUME Shape, Sweeping, NEW t \in Thread,
         \/ SendSucceeds(t) \/ SendFails(t) \/ CloseConn(t) \/ CloseReg(t)
         \/ CloseLosesCall(t) \/ CloseSocket(t)
  PROVE  Moves(t)
<1>1. /\ stack[t] # <<>> /\ Top(t) \in Frame /\ Top(t).sock \in Sock
      /\ stack[t] \in Seq(Frame) /\ Sound(stack[t], holds[t])
  BY TopTyped DEF SendSucceeds, SendFails, CloseConn, CloseReg, CloseLosesCall, CloseSocket,
                  At, Frame, Shape, TypeOK, StackOK, Sweeping
<1>2. CASE SendSucceeds(t)
  BY <1>1, <1>2, SoundTail, PopMoves DEF SendSucceeds
<1>3. CASE SendFails(t)
  <2>1. Close(Top(t).sock) \in Frame /\ Made(t, Close(Top(t).sock))
        /\ Close(Top(t).sock).pc = "conn"
    BY <1>1, CloseTyped DEF Made, Close
  <2> QED
    BY <1>1, <1>3, <2>1, TurnMoves DEF SendFails
<1>4. CASE CloseConn(t) \/ CloseReg(t)
  <2>1. PICK pc \in {"reg", "calls"} : Turn(t, [Top(t) EXCEPT !.pc = pc])
    BY <1>4 DEF CloseConn, CloseReg
  <2> DEFINE g == [Top(t) EXCEPT !.pc = pc]
  <2>2. g \in Frame
    BY <1>1, CloseFrameTyped
  <2>3. g.pc = pc /\ g.took = Top(t).took /\ g.msg = Top(t).msg
    BY <1>1 DEF Frame
  <2>4. Top(t).pc \in {"conn", "reg"}
    BY <1>4 DEF CloseConn, CloseReg, At
  <2>5. Turn(t, g)
    BY <2>1
  <2> HIDE DEF g
  <2>6. Made(t, g) /\ g.pc # "sweep"
    BY <2>3, <2>4 DEF Made
  <2> QED
    BY <1>1, <2>2, <2>5, <2>6, TurnMoves
<1>5. CASE CloseLosesCall(t)
  BY <1>1, <1>5, RaiseMoves DEF CloseLosesCall
<1>6. CASE CloseSocket(t)
  <2>1. Head(stack[t]).pc = "sweep"
    BY <1>6 DEF CloseSocket, At, Top
  <2>2. CASE Top(t).took
    <3>1. Sound(Tail(stack[t]), holds[t] \ {"call"})
      BY <1>1, <2>1, <2>2, SoundRelease DEF Top
    <3> QED
      BY <1>1, <1>6, <2>2, <3>1, PopMoves DEF CloseSocket
  <2>3. CASE ~Top(t).took
    BY <1>1, <1>6, <2>3, SoundTail, PopMoves DEF CloseSocket
  <2> QED
    BY <2>2, <2>3
<1> QED
  BY <1>2, <1>3, <1>4, <1>5, <1>6

LEMMA CloseCallsMoves ==
  ASSUME Shape, Sweeping, NEW t \in Thread, CloseCalls(t)
  PROVE  Moves(t)
<1>1. /\ stack[t] # <<>> /\ Top(t) \in Frame /\ Top(t).pc = "calls"
      /\ stack[t] \in Seq(Frame) /\ Sound(stack[t], holds[t])
  BY TopTyped DEF CloseCalls, At, Shape, TypeOK, StackOK, Sweeping
<1> DEFINE todo == {c \in CallId : Involves(c, Top(t).sock)}
           g == [Top(t) EXCEPT !.pc = "sweep", !.took = "call" \notin holds[t], !.todo = todo]
           gs == <<g>> \o Tail(stack[t])
           ls == holds[t] \cup {"call"}
<1>2. g \in Frame
  BY <1>1, CloseFrameTyped
<1>3. /\ g.pc = "sweep" /\ (g.took <=> "call" \notin holds[t]) /\ g.msg = Top(t).msg
      /\ g.todo = todo /\ g.sock = Top(t).sock
  BY <1>1 DEF Frame
<1>4. GoOn(t, gs, ls) /\ calls' = calls
  BY DEF CloseCalls, callVars
<1> HIDE DEF g
<1>5. Made(t, g)
  BY <1>1, <1>3, <1>4 DEF Made
<1>6. Sound(gs, ls)
  BY <1>1, <1>2, <1>3, SoundSweep
<1>7. \A i \in 1..Len(gs) : Made(t, gs[i])
  BY <1>1, <1>2, <1>5, TurnedFrames DEF Made
<1> HIDE DEF gs, ls
<1> QED
  BY <1>1, <1>4, <1>6, <1>7, GoOnMoves

LEMMA CloseOneCallMoves ==
  ASSUME Shape, Sweeping, NEW t \in Thread, CloseOneCall(t)
  PROVE  Moves(t)
<1> USE DEF Shape, TypeOK
<1> DEFINE f == Top(t)
<1>1. /\ stack[t] # <<>> /\ f \in Frame /\ f.pc = "sweep" /\ f.todo \subseteq CallId
      /\ Tail(stack[t]) \in Seq(Frame) /\ stack[t] \in Seq(Frame)
      /\ Sound(stack[t], holds[t])
  BY TopTyped DEF CloseOneCall, At, Frame, Sweeping, StackOK
<1>2. PICK c \in f.todo :
        /\ Known(c)
        /\ LET peer == PeerAfter(f, c)
               notice == NoticeAfter(f, c)
               rest == [f EXCEPT !.todo = @ \ {c}, !.peer = peer, !.msg = notice]
           IN \/ Turn(t, rest)
              \/ /\ notice # NoMsg /\ peer # NoSock
                 /\ GoOn(t, <<Send(peer, notice), rest>> \o Tail(stack[t]), holds[t])
              \/ Raise(t)
  BY DEF CloseOneCall
<1> DEFINE peer == PeerAfter(f, c)
           notice == NoticeAfter(f, c)
           rest == [f EXCEPT !.todo = f.todo \ {c}, !.peer = peer, !.msg = notice]
           send == Send(peer, notice)
<1>3. c \in CallId /\ calls[c] \in Call
  BY <1>1, <1>2, KnownTyped
<1>4. peer \in Sock \cup {NoSock}
  BY <1>1, <1>3, SideTyped DEF PeerAfter, Frame
<1>5. notice \in ServerMsg \cup {NoMsg}
  BY <1>1, <1>3, GoneTyped DEF NoticeAfter, Frame
<1>6. notice = f.msg \/ notice.what = "GONE"
  BY DEF NoticeAfter, Gone
<1>7. rest \in Frame
  <2>1. f.todo \ {c} \in SUBSET CallId
    BY <1>1
  <2> HIDE DEF f, peer, notice
  <2> QED
    BY <2>1, <1>1, <1>4, <1>5, CloseFrameTyped
<1>8. /\ rest.pc = "sweep" /\ rest.took = f.took /\ rest.sock = f.sock
      /\ rest.todo \subseteq f.todo /\ rest.msg = notice
  <2> HIDE DEF f, peer, notice
  <2> QED
    BY <1>1 DEF Frame
<1>9. Made(t, rest)
  <2> HIDE DEF rest, notice
  <2> QED
    BY <1>1, <1>6, <1>8 DEF Made
<1>10. Made(t, send)
  <2>1. send.pc = "send" /\ ~send.took /\ send.msg = notice
    BY DEF Send
  <2> HIDE DEF send, notice
  <2> QED
    BY <1>1, <1>6, <2>1 DEF Made
<1>11. Sound(<<rest>> \o Tail(stack[t]), holds[t])
  <2> HIDE DEF rest
  <2> QED
    BY <1>1, <1>7, <1>8, SoundTurn DEF Top
<1> HIDE DEF f, peer, notice, rest
<1>12. CASE Turn(t, rest)
  BY <1>1, <1>7, <1>8, <1>9, <1>12, TurnMoves DEF f
<1>13. CASE /\ notice # NoMsg /\ peer # NoSock
            /\ GoOn(t, <<send, rest>> \o Tail(stack[t]), holds[t])
  <2>1. send \in Frame /\ send.pc # "sweep"
    <3>1. send \in Frame
      BY <1>4, <1>5, <1>13, SendTyped
    <3>2. send.pc = "send"
      BY DEF Send
    <3> QED
      BY <3>1, <3>2
  <2> HIDE DEF send
  <2> DEFINE gs == <<send, rest>> \o Tail(stack[t])
  <2>2. <<rest>> \o Tail(stack[t]) \in Seq(Frame)
    BY <1>1, <1>7, OneFrame, ConcatProperties
  <2>3. Sound(gs, holds[t])
    BY <1>1, <1>7, <1>11, <2>1, <2>2, PushedFrames, SoundPush
  <2>4. \A i \in 1..Len(gs) : Made(t, gs[i])
    <3>1. SUFFICES ASSUME NEW i \in 1..Len(gs)
                   PROVE  Made(t, gs[i])
      OBVIOUS
    <3>2. CASE gs[i] \in {send, rest}
      BY <3>2, <1>9, <1>10
    <3>3. CASE i - 2 \in 1..Len(Tail(stack[t])) /\ gs[i] = Tail(stack[t])[i - 2]
      <4>1. i - 1 \in 2..Len(stack[t]) /\ gs[i] = stack[t][i - 1]
        BY <1>1, <3>3
      <4> HIDE DEF gs
      <4> QED
        BY <4>1 DEF Made
    <3> QED
      BY <1>1, <1>7, <2>1, <3>2, <3>3, PushedFrames
  <2> HIDE DEF gs
  <2> QED
    BY <1>1, <1>13, <2>3, <2>4, GoOnMoves DEF gs
<1>14. CASE Raise(t)
  BY <1>1, <1>14, RaiseMoves
<1> QED
  BY <1>2, <1>12, <1>13, <1>14 DEF f, peer, notice, rest

LEMMA SendOrCloseMoves ==
  ASSUME Shape, Sweeping, NEW t \in Thread, SendOrClose(t)
  PROVE  Moves(t)
  BY SendMoves, CloseCallsMoves, CloseOneCallMoves DEF SendOrClose

\* The loop, the daemons and the environment start from an empty stack, or
\* leave it alone.
OtherStep ==
  \E t \in {"main"} \cup Daemon : \E fs, ls :
    /\ stack' = [stack EXCEPT ![t] = fs] /\ holds' = [holds EXCEPT ![t] = ls]
    /\ (fs = stack[t] /\ ls = holds[t]) \/ Plain(fs)

Others == \/ MainLoop \/ KeepAliveThread \/ CleanupThread
          \/ (\E u \in Uri : RegistrationExpires(u))
          \/ (\E s \in Sock : Vanish(s)) \/ UNCHANGED vars

LEMMA OneStep ==
  ASSUME StackOK, NEW t \in {"main"} \cup Daemon, NEW fs, NEW ls,
         stack' = [stack EXCEPT ![t] = fs], holds' = [holds EXCEPT ![t] = ls],
         (fs = stack[t] /\ ls = holds[t]) \/ Plain(fs)
  PROVE  OtherStep
  BY DEF OtherStep

LEMMA PlainFrames ==
  ASSUME NEW s
  PROVE  /\ Plain(<<>>) /\ Plain(<<Close(s)>>) /\ Plain(<<Send(s, Options)>>)
         /\ \A c : Plain(<<Send(s, Gone(c))>>)
  BY DEF Plain, IsOk, Close, Send, Options, Gone

LEMMA OtherSteps ==
  ASSUME Shape, Locked, Others
  PROVE  OtherStep
<1> USE DEF Shape, TypeOK
<1>1. CASE UNCHANGED <<stack, holds>>
  <2>1. /\ stack' = [stack EXCEPT !["main"] = stack["main"]]
        /\ holds' = [holds EXCEPT !["main"] = holds["main"]]
    BY <1>1 DEF StackOK
  <2> QED
    BY <2>1, OneStep
<1>2. CASE Hangup
  BY <1>2, OneStep, PlainFrames DEF Hangup
<1>3. CASE ProbeStarts
  <2>1. stack["keepalive"] = <<>>
    BY <1>3 DEF ProbeStarts, Locked, Probing
  <2>2. stack' = [stack EXCEPT !["keepalive"] = <<>>]
    BY <1>3, <2>1 DEF ProbeStarts, StackOK
  <2> QED
    BY <1>3, <2>2, OneStep, PlainFrames DEF ProbeStarts, Daemon
<1>4. CASE ProbeEnds
  <2>1. stack' = [stack EXCEPT !["keepalive"] = <<>>]
    BY <1>4 DEF ProbeEnds, StackOK
  <2> QED
    BY <1>4, <2>1, OneStep, PlainFrames DEF ProbeEnds, Daemon
<1>5. ASSUME NEW s \in Sock, ProbeEvicts(s) \/ ProbeSends(s)
      PROVE  OtherStep
  <2>1. holds' = [holds EXCEPT !["keepalive"] = holds["keepalive"]]
    BY <1>5 DEF ProbeEvicts, ProbeSends, StackOK
  <2>2. PICK fs : /\ stack' = [stack EXCEPT !["keepalive"] = fs]
                  /\ fs = stack["keepalive"] \/ Plain(fs)
    <3>1. CASE stack' = stack
      <4>1. stack' = [stack EXCEPT !["keepalive"] = stack["keepalive"]]
        BY <3>1 DEF StackOK
      <4> QED
        BY <4>1
    <3>2. CASE stack' # stack
      BY <1>5, <3>2, PlainFrames DEF ProbeEvicts, ProbeSends
    <3> QED
      BY <3>1, <3>2
  <2> QED
    BY <2>1, <2>2, OneStep DEF Daemon
<1>6. ASSUME NEW c \in CallId, IdleCallFound(c)
      PROVE  OtherStep
  BY <1>6, OneStep, PlainFrames DEF IdleCallFound, Daemon
<1>7. CASE IdleCallRemoved \/ IdleCallRemovedTwice
  <2>1. stack["cleanup"] = <<>>
    BY <1>7 DEF IdleCallRemoved, IdleCallRemovedTwice
  <2>2. \E fs, ls : /\ stack' = [stack EXCEPT !["cleanup"] = fs] /\ Plain(fs)
                   /\ holds' = [holds EXCEPT !["cleanup"] = ls]
    <3>1. CASE Raise("cleanup")
      BY <3>1, PlainFrames DEF Raise
    <3>2. CASE IdleCallRemoved /\ ~Raise("cleanup")
      <4>1. CASE cleaner.callee = NoSock
        <5>1. stack' = [stack EXCEPT !["cleanup"] = <<>>]
          BY <2>1, <3>2, <4>1 DEF IdleCallRemoved, StackOK
        <5> QED
          BY <3>2, <4>1, <5>1, PlainFrames DEF IdleCallRemoved
      <4>2. CASE cleaner.callee # NoSock
        <5>1. holds' = [holds EXCEPT !["cleanup"] = holds["cleanup"]]
          BY <3>2, <4>2 DEF IdleCallRemoved, StackOK
        <5>2. stack' = [stack EXCEPT !["cleanup"] =
                         <<Send(cleaner.callee, Gone(cleaner.cid))>>]
          BY <3>2, <4>2 DEF IdleCallRemoved
        <5>3. Plain(<<Send(cleaner.callee, Gone(cleaner.cid))>>)
          BY PlainFrames
        <5> QED
          BY <5>1, <5>2, <5>3
      <4> QED
        BY <4>1, <4>2
    <3> QED
      BY <1>7, <3>1, <3>2 DEF IdleCallRemovedTwice
  <2> QED
    BY <2>2, OneStep DEF Daemon
<1> QED
  BY <1>1, <1>2, <1>3, <1>4, <1>5, <1>6, <1>7
  DEF Others, MainLoop, Accept, Handshake, Select, Receive, Shutdown, KeepAliveThread,
      ProbeTurns, ProbePurges, CleanupThread, RegistrationExpires, Vanish, threadVars, vars

-----------------------------------------------------------------------------
(* Locked is an invariant *)

LEMMA PlainSound ==
  ASSUME NEW fs, NEW ls, Plain(fs)
  PROVE  Sound(fs, ls)
  BY DEF Plain, Sound

LEMMA SweepingStep ==
  ASSUME Shape, Locked, Next \/ UNCHANGED vars
  PROVE  Sweeping'
<1> SUFFICES ASSUME NEW u \in Thread PROVE Sound(stack'[u], holds'[u])
  BY DEF Sweeping
<1> USE DEF Shape, TypeOK
<1>1. Sound(stack[u], holds[u])
  BY DEF Locked, Sweeping
<1>2. CASE \E w \in Worker : Handle(w)
  <2>1. PICK w \in Worker : HandlerStep(w)
    BY <1>2, HandleLeaves
  <2>2. PICK fs, ls : Leaves(w, fs, ls) /\ (Plain(fs) \/ Confirms(fs, ls))
    BY <2>1 DEF HandlerStep
  <2>3. Sound(fs, ls)
    <3>1. CASE Plain(fs)
      BY <3>1, PlainSound
    <3>2. CASE Confirms(fs, ls)
      BY <3>2 DEF Confirms, Sound, Send
    <3> QED
      BY <2>2, <3>1, <3>2
  <2>4. CASE u = w
    BY <2>2, <2>3, <2>4 DEF Leaves, StackOK
  <2>5. CASE u # w
    BY <1>1, <2>2, <2>5 DEF Leaves, StackOK
  <2> QED
    BY <2>4, <2>5
<1>3. CASE \E t \in Thread : SendOrClose(t)
  <2>1. PICK t \in Thread : Moves(t)
    BY <1>3, SendOrCloseMoves DEF Locked
  <2>2. CASE u = t
    BY <2>1, <2>2 DEF Moves
  <2>3. CASE u # t
    BY <1>1, <2>1, <2>3 DEF Moves, StackOK
  <2> QED
    BY <2>2, <2>3
<1>4. CASE Others
  <2>0. PICK t \in {"main"} \cup Daemon : \E fs, ls :
          /\ stack' = [stack EXCEPT ![t] = fs] /\ holds' = [holds EXCEPT ![t] = ls]
          /\ (fs = stack[t] /\ ls = holds[t]) \/ Plain(fs)
    BY <1>4, OtherSteps DEF OtherStep
  <2>1. PICK fs, ls :
          /\ stack' = [stack EXCEPT ![t] = fs] /\ holds' = [holds EXCEPT ![t] = ls]
          /\ (fs = stack[t] /\ ls = holds[t]) \/ Plain(fs)
    BY <2>0
  <2>2. CASE u = t
    <3>1. stack'[u] = fs /\ holds'[u] = ls
      BY <2>1, <2>2 DEF StackOK
    <3> QED
      BY <1>1, <2>1, <2>2, <3>1, PlainSound
  <2>3. CASE u # t
    BY <1>1, <2>1, <2>3 DEF StackOK
  <2> QED
    BY <2>2, <2>3
<1> QED
  BY <1>2, <1>3, <1>4 DEF Next, Others

\* A daemon that sends or closes keeps the locks of its pass.
LEMMA DaemonKeeps ==
  ASSUME Shape, NEW t \in Daemon, SendOrClose(t)
  PROVE  \/ Raise(t) /\ stack'[t] = <<>>
         \/ /\ holds[t] \ holds'[t] \subseteq (IF Top(t).took THEN {"call"} ELSE {})
            /\ UNCHANGED cleaner
            /\ \/ UNCHANGED prober
               \/ t = "keepalive" /\ \E todo : prober' = [prober EXCEPT !.todo = todo]
<1> USE DEF Shape, TypeOK, StackOK
<1>1. t \in Thread /\ ~Returns(t)
  BY ConstantsAssumption DEF Thread, Daemon, Returns
<1>2. ASSUME NEW gs, NEW ls, GoOn(t, gs, ls)
      PROVE  holds'[t] = ls
  BY <1>1, <1>2 DEF GoOn
<1>3. CASE Raise(t)
  BY <1>1, <1>3 DEF Raise
<1>4. CASE SendSucceeds(t) \/ SendFails(t) \/ CloseReg(t)
  BY <1>2, <1>4 DEF SendSucceeds, SendFails, CloseReg, Pop, Turn
<1>5. CASE CloseConn(t)
  BY <1>2, <1>5 DEF CloseConn, Turn
<1>6. CASE CloseCalls(t)
  BY <1>2, <1>6 DEF CloseCalls
<1>7. CASE CloseOneCall(t) /\ ~Raise(t)
  BY <1>2, <1>7 DEF CloseOneCall, Turn
<1>8. CASE CloseSocket(t)
  BY <1>2, <1>8 DEF CloseSocket, Pop
<1> QED
  BY <1>3, <1>4, <1>5, <1>6, <1>7, <1>8 DEF SendOrClose, CloseLosesCall

\* One that another thread makes leaves the daemon alone.
LEMMA DaemonAlone ==
  ASSUME Shape, NEW d \in Daemon, NEW t \in Thread, t # d, SendOrClose(t)
  PROVE  /\ stack'[d] = stack[d] /\ holds'[d] = holds[d]
         /\ d = "keepalive" => UNCHANGED prober
         /\ d = "cleanup" => UNCHANGED cleaner
<1> USE DEF Shape, TypeOK, StackOK
<1>1. d \in Thread
  BY DEF Thread
<1>2. CASE SendSucceeds(t) \/ SendFails(t) \/ CloseReg(t) \/ CloseCalls(t) \/ CloseSocket(t)
  BY <1>1, <1>2 DEF SendSucceeds, SendFails, CloseReg, CloseCalls, CloseSocket, GoOn, Pop, Turn
<1>3. CASE CloseConn(t)
  BY <1>1, <1>3 DEF CloseConn, GoOn, Turn
<1>4. CASE CloseOneCall(t) \/ CloseLosesCall(t)
  BY <1>1, <1>4 DEF CloseOneCall, CloseLosesCall, GoOn, Turn, Raise, Daemon
<1> QED
  BY <1>2, <1>3, <1>4 DEF SendOrClose

LEMMA HandlerAlone ==
  ASSUME Shape, NEW d \in Daemon, NEW w \in Worker, HandlerStep(w)
  PROVE  stack'[d] = stack[d] /\ holds'[d] = holds[d] /\ UNCHANGED <<prober, cleaner>>
<1>1. d # w /\ d \in Thread
  BY ConstantsAssumption DEF Thread
<1> QED
  BY <1>1 DEF HandlerStep, Leaves, Shape, TypeOK, StackOK

LEMMA ProbingStep ==
  ASSUME Shape, Locked, Next \/ UNCHANGED vars
  PROVE  Probing'
<1> USE DEF Shape, TypeOK, Locked, Probing
<1>1. "keepalive" \in Daemon /\ "keepalive" \in Thread
  BY DEF Daemon, Thread
<1>2. CASE \E w \in Worker : Handle(w)
  BY <1>1, <1>2, HandleLeaves, HandlerAlone
<1>3. CASE \E t \in Thread : SendOrClose(t)
  <2>1. PICK t \in Thread : SendOrClose(t)
    BY <1>3
  <2>2. CASE t = "keepalive"
    <3>1. prober.pc \in {"evict", "probe"}
      BY <2>1, <2>2
      DEF SendOrClose, SendSucceeds, SendFails, CloseConn, CloseReg, CloseCalls,
          CloseOneCall, CloseLosesCall, CloseSocket, At
    <3>2. CASE Raise(t) /\ stack'[t] = <<>>
      BY <2>2, <3>2 DEF Raise
    <3>3. CASE /\ holds[t] \ holds'[t] \subseteq (IF Top(t).took THEN {"call"} ELSE {})
               /\ \/ UNCHANGED prober
                  \/ \E todo : prober' = [prober EXCEPT !.todo = todo]
      <4>1. prober'.pc = prober.pc
        BY <3>3 DEF ProberOK
      <4>2. "conn" \in holds'[t]
        BY <2>2, <3>1, <3>3
      <4> QED
        BY <2>2, <3>1, <4>1, <4>2
    <3> QED
      BY <1>1, <2>1, <2>2, <3>2, <3>3, DaemonKeeps
  <2>3. CASE t # "keepalive"
    BY <1>1, <2>1, <2>3, DaemonAlone
  <2> QED
    BY <2>2, <2>3
<1>4. CASE KeepAliveThread
  <2>1. CASE ProbeStarts
    BY <1>1, <2>1 DEF ProbeStarts, StackOK
  <2>2. CASE ProbeTurns \/ ProbeEnds \/ ProbePurges
    BY <1>1, <2>2 DEF ProbeTurns, ProbeEnds, ProbePurges, ProberOK
  <2>3. ASSUME NEW s \in Sock, ProbeEvicts(s) \/ ProbeSends(s)
        PROVE  Probing'
    <3>1. prober'.pc = prober.pc /\ holds' = holds /\ prober.pc \in {"evict", "probe"}
      BY <2>3 DEF ProbeEvicts, ProbeSends, ProberOK
    <3> QED
      BY <3>1
  <2> QED
    BY <1>4, <2>1, <2>2, <2>3 DEF KeepAliveThread
<1>5. CASE CleanupThread
  <2>1. prober' = prober /\ stack'["keepalive"] = stack["keepalive"]
        /\ holds'["keepalive"] = holds["keepalive"]
    BY <1>1, <1>5 DEF CleanupThread, IdleCallFound, IdleCallRemoved, IdleCallRemovedTwice,
                      Raise, StackOK
  <2> QED
    BY <2>1
<1>6. CASE \/ MainLoop \/ (\E u \in Uri : RegistrationExpires(u))
           \/ (\E s \in Sock : Vanish(s)) \/ UNCHANGED vars
  <2>1. prober' = prober /\ stack'["keepalive"] = stack["keepalive"]
        /\ holds'["keepalive"] = holds["keepalive"]
    BY <1>1, <1>6
    DEF MainLoop, Accept, Handshake, Select, Receive, Hangup, Shutdown,
        RegistrationExpires, Vanish, threadVars, vars, StackOK
  <2> QED
    BY <2>1
<1> QED
  BY <1>2, <1>3, <1>4, <1>5, <1>6 DEF Next

LEMMA CleaningStep ==
  ASSUME Shape, Locked, Next \/ UNCHANGED vars
  PROVE  Cleaning'
<1> USE DEF Shape, TypeOK, Locked, Cleaning
<1>1. "cleanup" \in Daemon /\ "cleanup" \in Thread
  BY DEF Daemon, Thread
<1>2. CASE \E w \in Worker : Handle(w)
  BY <1>1, <1>2, HandleLeaves, HandlerAlone
<1>3. CASE \E t \in Thread : SendOrClose(t)
  <2>1. PICK t \in Thread : SendOrClose(t)
    BY <1>3
  <2>2. CASE t = "cleanup"
    <3>1. Moves(t)
      BY <2>1, SendOrCloseMoves
    <3>2. cleaner.pc \in {"first", "second"} /\ "call" \in holds[t]
      BY <2>2, <3>1 DEF Moves
    <3>3. stack[t] \in Seq(Frame) /\ ~Top(t).took
      BY <1>1, <2>2, <3>1 DEF Moves, Top, StackOK
    <3>4. \A i \in 1..Len(stack'[t]) : ~stack'[t][i].took
      <4>1. SUFFICES ASSUME NEW i \in 1..Len(stack'[t]), Made(t, stack'[t][i])
                     PROVE  ~stack'[t][i].took
        BY <3>1 DEF Moves
      <4> QED
        BY <2>2, <3>2, <3>3, <4>1 DEF Made
    <3>5. CASE Raise(t) /\ stack'[t] = <<>>
      BY <2>2, <3>4, <3>5 DEF Raise
    <3>6. CASE /\ holds[t] \ holds'[t] \subseteq (IF Top(t).took THEN {"call"} ELSE {})
               /\ UNCHANGED cleaner
      BY <2>2, <3>2, <3>3, <3>4, <3>6
    <3> QED
      BY <1>1, <2>1, <2>2, <3>5, <3>6, DaemonKeeps
  <2>3. CASE t # "cleanup"
    BY <1>1, <2>1, <2>3, DaemonAlone
  <2> QED
    BY <2>2, <2>3
<1>4. CASE CleanupThread
  <2>1. CASE \E c \in CallId : IdleCallFound(c)
    <3>1. PICK c \in CallId : IdleCallFound(c)
      BY <2>1
    <3>2. /\ cleaner'.pc = "first" /\ "call" \in holds'["cleanup"]
          /\ stack'["cleanup"] = <<Send(calls[c].caller, Gone(c))>>
      BY <1>1, <3>1 DEF IdleCallFound, StackOK
    <3> QED
      BY <3>2 DEF Send
  <2>2. CASE IdleCallRemoved /\ ~Raise("cleanup")
    <3>1. CASE cleaner.callee = NoSock
      BY <1>1, <2>2, <3>1 DEF IdleCallRemoved, StackOK
    <3>2. CASE cleaner.callee # NoSock
      <4>1. /\ cleaner'.pc = "second" /\ holds' = holds /\ cleaner.pc = "first"
            /\ stack'["cleanup"] = <<Send(cleaner.callee, Gone(cleaner.cid))>>
        BY <1>1, <2>2, <3>2 DEF IdleCallRemoved, StackOK, CleanerOK
      <4> QED
        BY <4>1 DEF Send
    <3> QED
      BY <3>1, <3>2
  <2>3. CASE Raise("cleanup")
    BY <1>1, <2>3 DEF Raise, StackOK
  <2> QED
    BY <1>4, <2>1, <2>2, <2>3 DEF CleanupThread, IdleCallRemovedTwice
<1>5. CASE \/ MainLoop \/ KeepAliveThread \/ (\E u \in Uri : RegistrationExpires(u))
           \/ (\E s \in Sock : Vanish(s)) \/ UNCHANGED vars
  <2>1. cleaner' = cleaner /\ stack'["cleanup"] = stack["cleanup"]
        /\ holds'["cleanup"] = holds["cleanup"]
    BY <1>1, <1>5
    DEF MainLoop, Accept, Handshake, Select, Receive, Hangup, Shutdown, KeepAliveThread,
        ProbeStarts, ProbeEvicts, ProbeTurns, ProbeSends, ProbeEnds, ProbePurges,
        RegistrationExpires, Vanish, threadVars, vars, StackOK
  <2> QED
    BY <2>1
<1> QED
  BY <1>2, <1>3, <1>4, <1>5 DEF Next

\* Sends and closes are inside the locks that Locked says, from the start on.
THEOREM LockedAlways == Spec => []Locked
<1>1. Init => Locked
  BY DEF Init, Locked, Sweeping, Sound, Probing, Cleaning, Thread, Daemon
<1>2. Shape /\ Locked /\ [Next]_vars => Locked'
  BY SweepingStep, ProbingStep, CleaningStep DEF Locked
<1> QED
  BY <1>1, <1>2, ShapeInvariant, PTL DEF Spec

-----------------------------------------------------------------------------
(* The connection lock: _keep_alive *)

\* No send or close connects a socket; one that _keep_alive makes takes only
\* sockets from its list that are not connected any more.
LEMMA ClosedNotUp ==
  ASSUME Shape, Evicted, NEW t \in Thread, SendOrClose(t)
  PROVE  Evicted'
<1> USE DEF Shape, TypeOK
<1>1. keepAlive' = keepAlive
  BY DEF SendOrClose, SendSucceeds, SendFails, CloseConn, CloseReg, CloseCalls, CloseOneCall,
         CloseLosesCall, CloseSocket
<1>2. CASE CloseConn(t)
  <2> DEFINE s == Top(t).sock
  <2>1. s \in Sock
    BY <1>2, TopTyped DEF CloseConn, At, Frame
  <2>2. conn'[s] # "up" /\ \A r \in Sock : conn'[r] = "up" => conn[r] = "up" /\ r # s
    BY <1>2, <2>1 DEF CloseConn, NetOK
  <2>3. PICK k \in SkippedBy(t, s) :
          prober' = IF t = "keepalive" THEN [prober EXCEPT !.todo = @ \ (k \cup {s})]
                                       ELSE prober
    BY <1>2 DEF CloseConn
  <2>4. prober.pc = "evict" => k = {}
    BY <2>3 DEF SkippedBy
  <2>5. /\ prober'.pc = prober.pc /\ prober'.todo \subseteq prober.todo
        /\ prober.pc = "evict" => prober.todo \ {s} \subseteq prober'.todo
    BY <2>3, <2>4 DEF ProberOK
  <2> QED
    BY <1>1, <2>2, <2>5 DEF Evicted, RemainingHaveAnswered
<1>3. CASE ~CloseConn(t)
  <2>1. prober' = prober \/ prober'.pc = "dead"
    <3>1. CASE UNCHANGED prober
      BY <3>1
    <3>2. CASE Raise(t)
      BY <3>2 DEF Raise
    <3> QED
      BY <1>3, <3>1, <3>2
      DEF SendOrClose, SendSucceeds, SendFails, CloseReg, CloseCalls, CloseOneCall,
          CloseLosesCall, CloseSocket
  <2>2. \A s \in Sock : conn'[s] = "up" => conn[s] = "up"
    BY <1>3 DEF SendOrClose, SendSucceeds, SendFails, CloseReg, CloseCalls, CloseOneCall,
                CloseLosesCall, CloseSocket, netVars, NetOK
  <2> QED
    BY <1>1, <2>1, <2>2 DEF Evicted, RemainingHaveAnswered
<1> QED
  BY <1>2, <1>3

LEMMA EvictedStep ==
  ASSUME Shape, Probing, Evicted, [Next]_vars
  PROVE  Evicted'
<1> USE DEF Shape, TypeOK, Evicted, RemainingHaveAnswered
<1>1. CASE \E w \in Worker : Handle(w)
  <2>1. PICK w \in Worker : Handle(w)
    BY <1>1
  <2>2. UNCHANGED <<conn, prober>>
    BY <2>1, HandleLeaves DEF HandlerStep, Leaves, netVars
  <2>3. CASE KeepAliveAnswered(w)
    BY <2>2, <2>3 DEF KeepAliveAnswered
  <2>4. CASE ~KeepAliveAnswered(w)
    <3>1. UNCHANGED keepAlive
      BY <2>1, <2>4
      DEF Handle, Invalid, BumpCSeq, Unhandled, RegisterRefused, RegisterOpens, RegisterChecks,
          RegisterRechecks, RegisterForgets, RegisterChallenged, RegisterUnverified,
          RegisterVerified, InviteRefused, InviteMismatch, InviteCalleeAway, InviteStopped,
          InviteTried, NoSuchCall, RequestMismatch, Ack, Bye, ResponseLookedUp,
          ResponseMoves, ResponseEnds, ResponseDropped, ResponseToRegister, WaitsForReg
    <3> QED
      BY <2>2, <3>1
  <2> QED
    BY <2>3, <2>4
<1>2. CASE \E t \in Thread : SendOrClose(t)
  BY <1>2, ClosedNotUp
<1>3. CASE \E s \in Sock : Handshake(s)
  <2>1. prober.pc # "evict"
    BY <1>3 DEF Handshake, Free, Thread, Daemon, Probing
  <2> QED
    BY <1>3, <2>1 DEF Handshake, threadVars
<1>4. CASE MainLoop /\ ~\E s \in Sock : Handshake(s)
  <2>1. UNCHANGED <<prober, keepAlive>> /\ \A s \in Sock : conn'[s] = "up" => conn[s] = "up"
    BY <1>4 DEF MainLoop, Accept, Select, Receive, Hangup, Shutdown, netVars, threadVars, NetOK
  <2> QED
    BY <2>1
<1>5. CASE KeepAliveThread
  <2>1. CASE ProbeStarts
    BY <2>1 DEF ProbeStarts, Unanswered, netVars
  <2>2. CASE ProbeTurns
    BY <2>2 DEF ProbeTurns, Connected, netVars
  <2>3. CASE ProbeEnds \/ ProbePurges
    BY <2>3 DEF ProbeEnds, ProbePurges, ProberOK
  <2>4. ASSUME NEW s \in Sock, ProbeEvicts(s)
        PROVE  Evicted'
    <3>1. prober'.pc = "evict" /\ prober'.todo = prober.todo \ {s} /\ conn' = conn
      BY <2>4 DEF ProbeEvicts, ProberOK, netVars
    <3>2. keepAlive' \subseteq keepAlive /\ (conn[s] = "up" => s \notin keepAlive')
      BY <2>4 DEF ProbeEvicts
    <3> QED
      BY <2>4, <3>1, <3>2 DEF ProbeEvicts
  <2>5. ASSUME NEW s \in Sock, ProbeSends(s)
        PROVE  Evicted'
    BY <2>5 DEF ProbeSends, ProberOK
  <2> QED
    BY <1>5, <2>1, <2>2, <2>3, <2>4, <2>5 DEF KeepAliveThread
<1>6. CASE CleanupThread \/ \E u \in Uri : RegistrationExpires(u)
  BY <1>6 DEF CleanupThread, IdleCallFound, IdleCallRemoved, IdleCallRemovedTwice, Raise,
              RegistrationExpires, netVars, threadVars
<1>7. CASE (\E s \in Sock : Vanish(s)) \/ UNCHANGED vars
  BY <1>7 DEF Vanish, netVars, threadVars, vars
<1> QED
  BY <1>1, <1>2, <1>3, <1>4, <1>5, <1>6, <1>7 DEF Next

\* The comment in _keep_alive is right for any number of sockets, whatever the
\* executor and the loop do meanwhile: no handshake ends during the pass, so a
\* connected socket with an open entry is one that the pass has evicted.
THEOREM ProbedHaveAnswered == Spec => []RemainingHaveAnswered
<1>1. Init => Evicted
  BY DEF Init, Evicted, RemainingHaveAnswered
<1>2. Shape /\ Locked /\ Evicted /\ [Next]_vars => Evicted'
  BY EvictedStep DEF Locked
<1>3. Evicted => RemainingHaveAnswered
  BY DEF Evicted
<1> QED
  BY <1>1, <1>2, <1>3, ShapeInvariant, LockedAlways, PTL DEF Spec

-----------------------------------------------------------------------------
(* The registration lock: register_request's 200 OK *)

\* The registrations of sockets do not change while somebody else is inside
\* the registration lock.
LEMMA RegistrationsKept ==
  ASSUME Shape, [Next]_vars, NEW u \in Thread, "reg" \in holds[u],
         stack[u] # <<>>, Top(u).pc = "send"
  PROVE  UNCHANGED regVars
<1> USE DEF Shape, TypeOK
<1>1. ASSUME NEW w \in Worker, Handle(w)
      PROVE  UNCHANGED regVars
  <2>1. w # u
    BY <1>1, HandleLeaves DEF HandlerStep, Leaves
  <2>2. ~Free("reg", w)
    BY <2>1 DEF Free
  <2> QED
    BY <1>1, <2>2
    DEF Handle, Invalid, BumpCSeq, Unhandled, RegisterRefused, RegisterOpens, RegisterChecks,
        RegisterRechecks, RegisterForgets, RegisterChallenged, RegisterUnverified,
        RegisterVerified, InviteRefused, InviteMismatch, InviteCalleeAway, InviteStopped,
        InviteTried, NoSuchCall, RequestMismatch, Ack, Bye, ResponseLookedUp,
        KeepAliveAnswered, ResponseMoves, ResponseEnds, ResponseDropped,
        ResponseToRegister, WaitsForReg
<1>2. ASSUME NEW t \in Thread, SendOrClose(t)
      PROVE  UNCHANGED regVars
  <2>1. ~CloseReg(t)
    BY DEF CloseReg, Free, At
  <2> QED
    BY <1>2, <2>1 DEF SendOrClose, SendSucceeds, SendFails, CloseConn, CloseCalls,
                      CloseOneCall, CloseLosesCall, CloseSocket
<1>3. CASE \E v \in Uri : RegistrationExpires(v)
  BY <1>3 DEF RegistrationExpires
<1>4. CASE MainLoop \/ KeepAliveThread \/ CleanupThread \/ \E s \in Sock : Vanish(s)
  BY <1>4
  DEF MainLoop, Accept, Handshake, Select, Receive, Hangup, Shutdown,
      KeepAliveThread, ProbeStarts, ProbeEvicts, ProbeTurns, ProbeSends, ProbeEnds,
      ProbePurges, CleanupThread, IdleCallFound, IdleCallRemoved, IdleCallRemovedTwice,
      Vanish
<1>5. CASE UNCHANGED vars
  BY <1>5 DEF vars
<1> QED
  BY <1>1, <1>2, <1>3, <1>4, <1>5 DEF Next

\* A thread that sends or closes is left with no 200 OK of the server.
LEMMA MovesSilent ==
  ASSUME Shape, NEW t \in Thread, OkAlone(t), Moves(t), NEW i \in 1..Len(stack'[t])
  PROVE  ~IsOk(stack'[t][i])
<1> DEFINE g == stack'[t][i]
<1>1. Made(t, g) /\ stack[t] \in Seq(Frame) /\ stack[t] # <<>>
  BY DEF Moves, Shape, TypeOK, StackOK
<1>2. Len(stack[t]) \in Nat /\ Len(stack[t]) >= 1 /\ Top(t) = stack[t][1]
  BY <1>1 DEF Top
<1>3. \A j \in 2..Len(stack[t]) : ~IsOk(stack[t][j])
  BY <1>2 DEF OkAlone
<1>4. Top(t).pc # "send" => ~IsOk(Top(t))
  BY <1>2 DEF OkAlone
<1> HIDE DEF g
<1> SUFFICES ~IsOk(g)
  BY DEF g
<1>5. CASE \E j \in 2..Len(stack[t]) : g = stack[t][j]
  BY <1>3, <1>5
<1>6. CASE g.msg = NoMsg \/ g.msg.what = "GONE"
  BY <1>6 DEF IsOk
<1>7. CASE g.msg = Top(t).msg /\ Top(t).pc # "send"
  BY <1>4, <1>7 DEF IsOk
<1> QED
  BY <1>1, <1>5, <1>6, <1>7 DEF Made

LEMMA OksAloneStep ==
  ASSUME Shape, Locked, OksAlone, [Next]_vars
  PROVE  OksAlone'
<1> SUFFICES ASSUME NEW u \in Thread, NEW i \in 1..Len(stack'[u]), IsOk(stack'[u][i])
             PROVE  /\ u \in Worker /\ Len(stack'[u]) = 1 /\ stack'[u][i].pc = "send"
                    /\ "reg" \in holds'[u] /\ (LoggedIn(stack[u][i].sock))'
  BY DEF OksAlone, OkAlone, IsOk
<1> USE DEF Shape, TypeOK
<1>1. OkAlone(u)
  BY DEF OksAlone
<1>2. CASE stack'[u] = stack[u] /\ holds'[u] = holds[u]
  <2>1. /\ u \in Worker /\ Len(stack[u]) = 1 /\ stack[u][i].pc = "send" /\ i = 1
        /\ "reg" \in holds[u] /\ LoggedIn(stack[u][i].sock) /\ stack[u] # <<>>
    BY <1>1, <1>2 DEF OkAlone
  <2>2. Top(u).pc = "send"
    BY <2>1 DEF Top, StackOK
  <2>3. UNCHANGED regVars
    BY <2>1, <2>2, RegistrationsKept
  <2> QED
    BY <1>2, <2>1, <2>3 DEF LoggedIn, regVars
<1>3. ASSUME NEW w \in Worker, Handle(w), w = u
      PROVE  /\ u \in Worker /\ Len(stack'[u]) = 1 /\ stack'[u][i].pc = "send"
             /\ "reg" \in holds'[u] /\ (LoggedIn(stack[u][i].sock))'
  <2>1. PICK fs, ls : Leaves(w, fs, ls) /\ (Plain(fs) \/ Confirms(fs, ls))
    BY <1>3, HandleLeaves DEF HandlerStep
  <2>2. stack'[u] = fs /\ holds'[u] = ls
    BY <1>3, <2>1 DEF Leaves, StackOK
  <2>3. Confirms(fs, ls)
    BY <2>1, <2>2 DEF Plain
  <2>4. PICK s \in Sock, m \in ClientMsg :
          fs = <<Send(s, Reply(m, "OK"))>> /\ "reg" \in ls /\ LoggedIn(s)'
    BY <2>3 DEF Confirms
  <2>5. Len(stack'[u]) = 1 /\ i = 1 /\ stack'[u][i] = Send(s, Reply(m, "OK"))
    BY <2>2, <2>4
  <2>6. stack'[u][i].pc = "send" /\ stack'[u][i].sock = s
    BY <2>5 DEF Send
  <2> QED
    BY <1>3, <2>2, <2>4, <2>5, <2>6
<1>4. ASSUME NEW w \in Worker, Handle(w), w # u
      PROVE  stack'[u] = stack[u] /\ holds'[u] = holds[u]
  BY <1>4, HandleLeaves DEF HandlerStep, Leaves, StackOK
<1>5. ASSUME NEW t \in Thread, SendOrClose(t)
      PROVE  stack'[u] = stack[u] /\ holds'[u] = holds[u]
  <2>1. Moves(t)
    BY <1>5, SendOrCloseMoves DEF Locked
  <2>2. t # u
    BY <1>1, <2>1, MovesSilent
  <2> QED
    BY <2>1, <2>2 DEF Moves, StackOK
<1>6. CASE Others
  <2>0. PICK t \in {"main"} \cup Daemon : \E fs, ls :
          /\ stack' = [stack EXCEPT ![t] = fs] /\ holds' = [holds EXCEPT ![t] = ls]
          /\ (fs = stack[t] /\ ls = holds[t]) \/ Plain(fs)
    BY <1>6, OtherSteps DEF OtherStep
  <2>1. PICK fs, ls :
          /\ stack' = [stack EXCEPT ![t] = fs] /\ holds' = [holds EXCEPT ![t] = ls]
          /\ (fs = stack[t] /\ ls = holds[t]) \/ Plain(fs)
    BY <2>0
  <2>2. t = u => fs = stack[t] /\ ls = holds[t]
    BY <2>1 DEF Plain, StackOK
  <2> QED
    BY <1>2, <2>1, <2>2 DEF StackOK
<1> QED
  BY <1>2, <1>3, <1>4, <1>5, <1>6 DEF Next, Others

\* What goes on the wire is the message of the frame on top.
LEMMA SentIsTop ==
  ASSUME Shape, Next, sent' # NoMsg
  PROVE  \E t \in Thread : /\ At(t, "send")
                           /\ sent' = [to |-> Top(t).sock, msg |-> Top(t).msg]
<1> USE DEF Shape, TypeOK
<1>1. CASE \E w \in Worker : Handle(w)
  BY <1>1, HandleLeaves DEF HandlerStep, Leaves, Quiet
<1>2. CASE \E t \in Thread : SendOrClose(t)
  BY <1>2 DEF SendOrClose, SendSucceeds, SendFails, CloseConn, CloseReg, CloseCalls,
              CloseOneCall, CloseLosesCall, CloseSocket, At
<1>3. CASE \/ MainLoop \/ KeepAliveThread \/ CleanupThread
           \/ (\E u \in Uri : RegistrationExpires(u)) \/ (\E s \in Sock : Vanish(s))
  BY <1>3
  DEF MainLoop, Accept, Handshake, Select, Receive, Hangup, Shutdown,
      KeepAliveThread, ProbeStarts, ProbeEvicts, ProbeTurns, ProbeSends, ProbeEnds,
      ProbePurges, CleanupThread, IdleCallFound, IdleCallRemoved, IdleCallRemovedTwice,
      RegistrationExpires, Vanish, Quiet
<1> QED
  BY <1>1, <1>2, <1>3 DEF Next

\* A client that is told 200 OK is registered at that moment, for any number of
\* clients of one account, threads and closes under way: register_request
\* sends inside the lock under which it added the socket.
THEOREM OkIsTrue == Spec => OkMeansRegistered
<1>1. Init => OksAlone
  BY DEF Init, OksAlone, OkAlone
<1>2. Shape /\ Locked /\ OksAlone /\ [Next]_vars => OksAlone'
  BY OksAloneStep
<1>3. Shape /\ OksAlone /\ [Next]_vars =>
        [\A s \in Sock :
           (/\ sent' # NoMsg /\ sent'.to = s
            /\ sent'.msg.what = "OK" /\ sent'.msg.from = ServerUri)
           => LoggedIn(s)]_vars
  <2> SUFFICES ASSUME Shape, OksAlone, Next, NEW s \in Sock, sent' # NoMsg, sent'.to = s,
                      sent'.msg.what = "OK", sent'.msg.from = ServerUri
               PROVE  LoggedIn(s)
    OBVIOUS
  <2>1. PICK t \in Thread : At(t, "send") /\ sent' = [to |-> Top(t).sock, msg |-> Top(t).msg]
    BY SentIsTop
  <2>2. Top(t) \in Frame /\ Top(t).sock = s /\ stack[t] \in Seq(Frame) /\ stack[t] # <<>>
    BY <2>1, TopTyped DEF At, Shape, TypeOK, StackOK
  <2>3. Top(t).msg \in ServerMsg
    BY <2>1, <2>2 DEF At, Frame
  <2>4. IsOk(Top(t))
    BY <2>1, <2>3, AbsentAssumption DEF IsOk
  <2>5. 1 \in 1..Len(stack[t]) /\ Top(t) = stack[t][1]
    BY <2>2 DEF Top
  <2> QED
    BY <2>2, <2>4, <2>5 DEF OksAlone, OkAlone
<1> QED
  BY <1>1, <1>2, <1>3, ShapeInvariant, LockedAlways, PTL DEF Spec, OkMeansRegistered

-----------------------------------------------------------------------------
(* The call lock: established calls *)

LEMMA BumpKeeps ==
  ASSUME Shape, NEW w \in Worker, BumpCSeq(w), NEW c \in CallId, Known(c)
  PROVE  calls'[c] # NoCall
<1> USE DEF Shape, TypeOK
<1> DEFINE d == task[w].msg.cid
           new == [calls[d] EXCEPT !.cseq = calls[d].cseq + 1]
<1>1. CASE calls' = calls
  BY <1>1 DEF Known
<1>2. CASE Known(d) /\ calls' = [calls EXCEPT ![d] = new]
  <2>1. d \in CallId
    BY RunsTyped DEF BumpCSeq, Stage, RequestKind
  <2>2. calls[d] \in Call
    BY <1>2, <2>1, KnownTyped
  <2>3. new \in Call
    BY <2>2 DEF Call
  <2> HIDE DEF new
  <2> QED
    BY <1>2, <2>3, AbsentAssumption DEF CallsOK, Known
<1> QED
  BY <1>1, <1>2 DEF BumpCSeq

LEMMA InviteKeeps ==
  ASSUME Shape, NEW w \in Worker, NEW c \in CallId, Known(c),
         RegisterOpens(w) \/ InviteCalleeAway(w) \/ InviteStopped(w) \/ InviteTried(w)
  PROVE  calls'[c] # NoCall
<1> USE DEF Shape, TypeOK
<1> DEFINE m == task[w].msg
           opened == CallOf(m, task[w].sock, "INVITE", m.to)
<1>1. CASE RegisterOpens(w)
  <2>1. calls' = calls \/ \E call : /\ Known(m.cid) => call = calls[m.cid]
                                   /\ calls' = [calls EXCEPT ![m.cid] = call]
    BY <1>1 DEF RegisterOpens, CallOf
  <2> QED
    BY <2>1 DEF CallsOK, Known
<1>2. CASE InviteCalleeAway(w)
  <2>1. \E call : /\ Known(m.cid) => call = calls[m.cid]
                 /\ calls' = [calls EXCEPT ![m.cid] = call]
    BY <1>2 DEF InviteCalleeAway, CallOf
  <2> QED
    BY <2>1 DEF CallsOK, Known
<1>3. CASE InviteStopped(w) \/ InviteTried(w)
  <2>1. m.cid \in CallId /\ opened \in Call /\ valToObj[m.to] \in Sock
    BY <1>3, InviteRunsTyped DEF InviteStopped, InviteTried
  <2>2. \E new \in Call : calls' = [calls EXCEPT ![m.cid] = new]
    <3>1. CASE InviteStopped(w)
      <4>1. calls' = [calls EXCEPT ![m.cid] = [opened EXCEPT !.callee = valToObj[m.to]]]
        BY <3>1 DEF InviteStopped
      <4> HIDE DEF opened
      <4>2. [opened EXCEPT !.callee = valToObj[m.to]] \in Call
        BY <2>1 DEF Call
      <4> QED
        BY <4>1, <4>2
    <3>2. CASE InviteTried(w)
      <4>1. calls' = [calls EXCEPT ![m.cid] = [opened EXCEPT !.callee = valToObj[m.to],
                                                             !.state = "TRYING"]]
        BY <3>2 DEF InviteTried
      <4> HIDE DEF opened
      <4>2. [opened EXCEPT !.callee = valToObj[m.to], !.state = "TRYING"] \in Call
        BY <2>1 DEF Call, CallState
      <4> QED
        BY <4>1, <4>2
    <3> QED
      BY <1>3, <3>1, <3>2
  <2> QED
    BY <2>2, AbsentAssumption DEF CallsOK, Known
<1> QED
  BY <1>1, <1>2, <1>3

LEMMA AckKeeps ==
  ASSUME Shape, NEW w \in Worker, Ack(w) \/ Bye(w) \/ ResponseMoves(w),
         NEW c \in CallId, Known(c)
  PROVE  calls'[c] # NoCall
<1> USE DEF Shape, TypeOK
<1> DEFINE m == task[w].msg
           d == m.cid
<1>1. d \in CallId /\ m \in ClientMsg /\ m.cseq \in Nat /\ Known(d)
  <2>1. \E stage \in Stage \ {"idle"}, kinds \in {{"ACK"}, {"BYE"}, ResponseKind} :
          Runs(w, stage, kinds)
    BY DEF Ack, Bye, ResponseMoves, ResponseRuns, Stage
  <2>2. m \in ClientMsg /\ (m.what \in RequestKind => d \in CallId)
        /\ (d # KeepAliveId => d \in CallId)
    BY <2>1, RunsTyped
  <2>3. m.what \in RequestKind \/ d # KeepAliveId
    BY DEF Ack, Bye, ResponseMoves, ResponseRuns, Runs, RequestKind
  <2> QED
    BY <2>2, <2>3 DEF ClientMsg, Ack, Bye, ResponseMoves
<1>2. calls[d] \in Call
  BY <1>1, KnownTyped
<1>3. \E cseq \in Nat, state \in CallState :
        calls' = [calls EXCEPT ![d] = [calls[d] EXCEPT !.cseq = cseq, !.state = state]]
  <2>1. calls[d].cseq \in Nat /\ calls[d].state \in CallState
    BY <1>2 DEF Call
  <2>2. CASE Ack(w)
    <3>1. calls' = [calls EXCEPT ![d] = [calls[d] EXCEPT !.cseq = m.cseq, !.state =
                      IF calls[d].state = "WAITING_ACK" THEN "IN_CALL" ELSE calls[d].state]]
      BY <2>2 DEF Ack
    <3> QED
      BY <1>1, <2>1, <3>1 DEF CallState
  <2>3. CASE Bye(w) /\ OtherSide(d, task[w].sock) = NoSock
    <3>1. calls' = [calls EXCEPT ![d] = [calls[d] EXCEPT !.cseq = m.cseq]]
      BY <2>3 DEF Bye
    <3>2. [calls[d] EXCEPT !.cseq = m.cseq]
            = [calls[d] EXCEPT !.cseq = m.cseq, !.state = calls[d].state]
      BY <1>2 DEF Call
    <3> QED
      BY <1>1, <2>1, <3>1, <3>2
  <2>4. CASE Bye(w) /\ OtherSide(d, task[w].sock) # NoSock
    <3>1. calls' = [calls EXCEPT ![d] = [calls[d] EXCEPT !.cseq = m.cseq,
                                                         !.state = "WAITING_BYE"]]
      BY <2>4 DEF Bye
    <3> QED
      BY <1>1, <3>1 DEF CallState
  <2>5. CASE ResponseMoves(w)
    <3>1. PICK next \in CallState : calls' = [calls EXCEPT ![d] = [calls[d] EXCEPT !.state = next]]
      BY <2>5 DEF ResponseMoves
    <3>2. [calls[d] EXCEPT !.state = next]
            = [calls[d] EXCEPT !.cseq = calls[d].cseq, !.state = next]
      BY <1>2 DEF Call
    <3> QED
      BY <2>1, <3>1, <3>2
  <2> QED
    BY <2>2, <2>3, <2>4, <2>5
<1>4. PICK cseq \in Nat, state \in CallState :
        calls' = [calls EXCEPT ![d] = [calls[d] EXCEPT !.cseq = cseq, !.state = state]]
  BY <1>3
<1> DEFINE new == [calls[d] EXCEPT !.cseq = cseq, !.state = state]
<1>5. new \in Call
  BY <1>2 DEF Call
<1>6. calls' = [calls EXCEPT ![d] = new]
  BY <1>4
<1> HIDE DEF new
<1> QED
  BY <1>5, <1>6, AbsentAssumption DEF CallsOK, Known

\* A call that is known to whoever is inside the call lock is left as it is by
\* all others, or ended.
LEMMA CallsKept ==
  ASSUME Shape, [Next]_vars, NEW u \in Thread, "call" \in holds[u],
         \A w \in Worker : Handle(w) => w # u,
         NEW c \in CallId, calls'[c] # NoCall
  PROVE  calls'[c] = calls[c]
<1> USE DEF Shape, TypeOK, CallsOK
<1>1. ASSUME NEW w \in Worker, Handle(w)
      PROVE  calls'[c] = calls[c]
  <2>1. ~Free("call", w)
    BY <1>1 DEF Free
  <2>2. CASE RegisterForgets(w)
    BY <2>2 DEF RegisterForgets
  <2>3. CASE ~RegisterForgets(w)
    <3>1. calls' = calls
      BY <1>1, <2>1, <2>3
      DEF Handle, Invalid, BumpCSeq, Unhandled, RegisterRefused, RegisterOpens,
          RegisterChecks, RegisterRechecks, RegisterChallenged, RegisterUnverified,
          RegisterVerified, InviteRefused, InviteRuns, InviteMismatch, InviteCalleeAway,
          InviteStopped, InviteTried, NoSuchCall, RequestMismatch, Ack, Bye,
          ResponseLookedUp, KeepAliveAnswered, ResponseRuns, ResponseMoves, ResponseEnds,
          ResponseDropped, ResponseToRegister, WaitsForReg, callVars
    <3> QED
      BY <3>1
  <2> QED
    BY <2>2, <2>3
<1>2. ASSUME NEW t \in Thread, SendOrClose(t)
      PROVE  calls'[c] = calls[c]
  BY <1>2 DEF SendOrClose, SendSucceeds, SendFails, CloseConn, CloseReg, CloseCalls,
              CloseOneCall, CloseLosesCall, CloseSocket, callVars
<1>3. CASE CleanupThread
  BY <1>3 DEF CleanupThread, IdleCallFound, IdleCallRemoved, IdleCallRemovedTwice, callVars
<1>4. CASE MainLoop \/ KeepAliveThread
  BY <1>4 DEF MainLoop, Accept, Handshake, Select, Receive, Hangup, Shutdown,
              KeepAliveThread, ProbeStarts, ProbeEvicts, ProbeTurns, ProbeSends, ProbeEnds,
              ProbePurges, callVars
<1>5. CASE \/ (\E v \in Uri : RegistrationExpires(v)) \/ (\E s \in Sock : Vanish(s))
           \/ UNCHANGED vars
  BY <1>5 DEF RegistrationExpires, Vanish, vars, callVars
<1> QED
  BY <1>1, <1>2, <1>3, <1>4, <1>5 DEF Next

LEMMA InvolvesKept ==
  ASSUME NEW c, calls'[c] = calls[c], NEW s, Involves(c, s)
  PROVE  Involves(c, s)'
  BY DEF Involves, Known

\* A frame that was there before a step, inside the call lock.
LEMMA OldFrameSwept ==
  ASSUME Shape, Sweeping, Swept, [Next]_vars, NEW u \in Thread,
         NEW j \in 1..Len(stack[u]), NEW f, f = stack[u][j], f.pc = "sweep",
         NEW c \in f.todo, c \in CallId, calls'[c] # NoCall
  PROVE  Involves(c, f.sock)'
<1>1. "call" \in holds[u] /\ stack[u] # <<>>
  BY DEF Sweeping, Sound
<1>2. \A w \in Worker : Handle(w) => w # u
  BY <1>1, HandleLeaves DEF HandlerStep, Leaves
<1>3. calls'[c] = calls[c]
  BY <1>1, <1>2, CallsKept
<1>4. Involves(c, f.sock)
  BY <1>3 DEF Swept, Known
<1> QED
  BY <1>3, <1>4, InvolvesKept

LEMMA SweptStep ==
  ASSUME Shape, Shape', Locked, Swept, [Next]_vars
  PROVE  Swept'
<1> SUFFICES ASSUME NEW u \in Thread, NEW i \in 1..Len(stack'[u]),
                    NEW g, g = stack'[u][i], g.pc = "sweep",
                    NEW c \in g.todo, calls'[c] # NoCall
             PROVE  Involves(c, g.sock)'
  BY DEF Swept, Known
<1>1. c \in CallId
  <2>1. stack'[u] \in Seq(Frame)
    BY DEF Shape, TypeOK, StackOK
  <2>2. g \in Frame
    BY <2>1
  <2> QED
    BY <2>2 DEF Frame
<1> USE DEF Shape, TypeOK, Locked
<1>2. CASE stack'[u] = stack[u]
  BY <1>1, <1>2, OldFrameSwept
<1>3. ASSUME NEW w \in Worker, Handle(w)
      PROVE  stack'[u] = stack[u]
  <2>1. PICK fs, ls : Leaves(w, fs, ls) /\ (Plain(fs) \/ Confirms(fs, ls))
    BY <1>3, HandleLeaves DEF HandlerStep
  <2>2. w # u
    <3>1. \A j \in 1..Len(fs) : fs[j].pc # "sweep"
      BY <2>1 DEF Plain, Confirms, Send
    <3> QED
      BY <2>1, <3>1 DEF Leaves, StackOK
  <2> QED
    BY <2>1, <2>2 DEF Leaves, StackOK
<1>4. CASE Others
  <2>0. PICK t \in {"main"} \cup Daemon : \E fs, ls :
          /\ stack' = [stack EXCEPT ![t] = fs] /\ holds' = [holds EXCEPT ![t] = ls]
          /\ (fs = stack[t] /\ ls = holds[t]) \/ Plain(fs)
    BY <1>4, OtherSteps DEF OtherStep
  <2>1. PICK fs, ls :
          /\ stack' = [stack EXCEPT ![t] = fs] /\ holds' = [holds EXCEPT ![t] = ls]
          /\ (fs = stack[t] /\ ls = holds[t]) \/ Plain(fs)
    BY <2>0
  <2>2. t = u => fs = stack[t]
    BY <2>1 DEF Plain, StackOK
  <2>3. stack'[u] = stack[u]
    BY <2>1, <2>2 DEF StackOK
  <2> QED
    BY <1>2, <2>3
<1>5. ASSUME NEW t \in Thread, SendOrClose(t), t # u
      PROVE  stack'[u] = stack[u]
  BY <1>5, SendOrCloseMoves DEF Moves, StackOK
<1>6. CASE SendOrClose(u)
  <2>1. Made(u, g) /\ stack[u] # <<>> /\ stack[u] \in Seq(Frame)
    BY <1>6, SendOrCloseMoves DEF Moves, StackOK
  <2>2. 1 \in 1..Len(stack[u]) /\ 2..Len(stack[u]) \subseteq 1..Len(stack[u])
        /\ Top(u) = stack[u][1]
    BY <2>1 DEF Top
  <2>3. CASE \E j \in 2..Len(stack[u]) : g = stack[u][j]
    BY <1>1, <2>2, <2>3, OldFrameSwept
  <2>4. CASE (\A d \in g.todo : Involves(d, g.sock)) /\ calls' = calls
    BY <2>4, InvolvesKept
  <2>5. CASE Top(u).pc = "sweep" /\ g.sock = Top(u).sock /\ g.todo \subseteq Top(u).todo
    <3>1. PICK f : f = stack[u][1]
      OBVIOUS
    <3>2. f.pc = "sweep" /\ g.sock = f.sock /\ c \in f.todo
      BY <2>2, <2>5, <3>1
    <3>3. Involves(c, f.sock)'
      BY <1>1, <2>2, <3>1, <3>2, OldFrameSwept
    <3> QED
      BY <3>2, <3>3
  <2> QED
    BY <2>1, <2>3, <2>4, <2>5 DEF Made
<1> QED
  BY <1>2, <1>3, <1>4, <1>5, <1>6 DEF Next, Others

LEMMA IdledStep ==
  ASSUME Shape, Locked, Idled, [Next]_vars
  PROVE  Idled'
<1> USE DEF Shape, TypeOK, Idled
<1>1. CASE cleaner' = cleaner
  <2> SUFFICES ASSUME cleaner.pc = "first", calls'[cleaner.cid] # NoCall
               PROVE  calls'[cleaner.cid].state # "IN_CALL"
    BY <1>1 DEF Known
  <2>1. "cleanup" \in Thread /\ \A w \in Worker : w # "cleanup"
    BY ConstantsAssumption DEF Thread, Daemon
  <2>2. "call" \in holds["cleanup"] /\ cleaner.cid \in CallId
    BY DEF Locked, Cleaning, CleanerOK
  <2>3. calls'[cleaner.cid] = calls[cleaner.cid]
    BY <2>1, <2>2, CallsKept
  <2> QED
    BY <2>3 DEF Known
<1>2. CASE cleaner'.pc # "first"
  BY <1>2
<1>3. ASSUME NEW c \in CallId, IdleCallFound(c)
      PROVE  Idled'
  BY <1>3 DEF IdleCallFound, MayExpire, callVars, Known
<1>4. CASE IdleCallRemoved \/ IdleCallRemovedTwice
  <2>1. cleaner'.pc # "first"
    BY <1>4 DEF IdleCallRemoved, IdleCallRemovedTwice, Raise, CleanerOK
  <2> QED
    BY <2>1
<1>5. ASSUME NEW t \in Thread, SendOrClose(t)
      PROVE  cleaner' = cleaner \/ cleaner'.pc # "first"
  <2>1. CASE UNCHANGED cleaner
    BY <2>1
  <2>2. CASE Raise(t)
    BY <2>2 DEF Raise
  <2> QED
    BY <1>5, <2>1, <2>2
    DEF SendOrClose, SendSucceeds, SendFails, CloseConn, CloseReg, CloseCalls, CloseOneCall,
        CloseLosesCall, CloseSocket
<1>6. ASSUME NEW w \in Worker, Handle(w)
      PROVE  cleaner' = cleaner
  BY <1>6, HandleLeaves DEF HandlerStep, Leaves
<1>7. CASE \/ MainLoop \/ KeepAliveThread \/ (\E v \in Uri : RegistrationExpires(v))
           \/ (\E s \in Sock : Vanish(s)) \/ UNCHANGED vars
  <2>1. cleaner' = cleaner
    BY <1>7 DEF MainLoop, Accept, Handshake, Select, Receive, Hangup, Shutdown,
              KeepAliveThread, ProbeStarts, ProbeEvicts, ProbeTurns, ProbeSends, ProbeEnds,
              ProbePurges, RegistrationExpires, Vanish, threadVars, vars
  <2> QED
    BY <1>1, <2>1
<1> QED
  BY <1>1, <1>2, <1>3, <1>4, <1>5, <1>6, <1>7 DEF Next, CleanupThread

\* An established call that ends was closed with a party or forgotten by a
\* REGISTER: the three places that delete calls, and ResponseEnds, which needs
\* another state.
LEMMA EstablishedStep ==
  ASSUME Shape, Sweeping, Swept, Idled, Next,
         NEW c \in CallId, Known(c), calls[c].state = "IN_CALL", calls'[c] = NoCall
  PROVE  Closing(c) \/ Registering(c)
<1> USE DEF Shape, TypeOK
<1>1. calls'[c] # calls[c]
  BY DEF Known
<1>2. ASSUME NEW w \in Worker, Handle(w)
      PROVE  Registering(c)
  <2>1. CASE RegisterForgets(w) \/ RegisterVerified(w)
    <3>1. task[w].stage \in {"forget", "auth"} /\ task[w].msg.cid = c
      BY <1>1, <2>1 DEF RegisterForgets, RegisterVerified, Runs, CallsOK
    <3> QED
      BY <3>1 DEF Registering
  <2>2. CASE ResponseEnds(w)
    <3>1. task[w].msg.cid = c
      BY <1>1, <2>2 DEF ResponseEnds, CallsOK
    <3> QED
      BY <2>2, <3>1 DEF ResponseEnds, ResponseEnd
  <2>3. CASE \/ BumpCSeq(w) \/ RegisterOpens(w) \/ InviteCalleeAway(w) \/ InviteStopped(w)
             \/ InviteTried(w) \/ Ack(w) \/ Bye(w) \/ ResponseMoves(w)
    BY <2>3, BumpKeeps, InviteKeeps, AckKeeps
  <2>4. CASE ~\/ RegisterForgets(w) \/ RegisterVerified(w) \/ ResponseEnds(w)
              \/ BumpCSeq(w) \/ RegisterOpens(w) \/ InviteCalleeAway(w) \/ InviteStopped(w)
              \/ InviteTried(w) \/ Ack(w) \/ Bye(w) \/ ResponseMoves(w)
    <3>1. calls' = calls
      BY <1>2, <2>4
      DEF Handle, Invalid, Unhandled, RegisterRefused, RegisterChecks, RegisterRechecks,
          RegisterChallenged, RegisterUnverified, InviteRefused, InviteMismatch, NoSuchCall,
          RequestMismatch, ResponseLookedUp, KeepAliveAnswered, ResponseDropped,
          ResponseToRegister, WaitsForReg, callVars
    <3> QED
      BY <1>1, <3>1
  <2> QED
    BY <2>1, <2>2, <2>3, <2>4
<1>3. ASSUME NEW t \in Thread, SendOrClose(t)
      PROVE  Closing(c)
  <2>1. CloseOneCall(t) /\ Top(t).pc = "sweep" /\ c \in Top(t).todo
    BY <1>1, <1>3 DEF SendOrClose, SendSucceeds, SendFails, CloseConn, CloseReg, CloseCalls,
              CloseOneCall, CloseLosesCall, CloseSocket, callVars, At, CallsOK
  <2>2. stack[t] # <<>> /\ stack[t] \in Seq(Frame)
    BY <2>1 DEF CloseOneCall, At, StackOK
  <2>3. 1 \in 1..Len(stack[t]) /\ Top(t) = stack[t][1]
    BY <2>2 DEF Top
  <2>4. Involves(c, stack[t][1].sock)
    BY <2>1, <2>3 DEF Swept
  <2> QED
    BY <2>1, <2>3, <2>4 DEF Closing, Involves
<1>4. CASE CleanupThread
  <2>1. cleaner.pc = "first" /\ cleaner.cid = c
    BY <1>1, <1>4 DEF CleanupThread, IdleCallFound, IdleCallRemoved, IdleCallRemovedTwice,
                      callVars, CallsOK
  <2> QED
    BY <2>1 DEF Idled
<1>5. CASE \/ MainLoop \/ KeepAliveThread \/ (\E v \in Uri : RegistrationExpires(v))
           \/ (\E s \in Sock : Vanish(s))
  <2>1. calls' = calls
    BY <1>5 DEF MainLoop, Accept, Handshake, Select, Receive, Hangup, Shutdown,
              KeepAliveThread, ProbeStarts, ProbeEvicts, ProbeTurns, ProbeSends, ProbeEnds,
              ProbePurges, RegistrationExpires, Vanish, callVars
  <2> QED
    BY <1>1, <2>1
<1> QED
  BY <1>2, <1>3, <1>4, <1>5 DEF Next

\* For any number of calls, parties and threads, an established call is not
\* idled out, declined or confirmed away: the cleaner, which found it idle before,
\* and a close, which listed it before, are inside the call lock in between.
THEOREM EstablishedStays == Spec => EstablishedCallStays
<1>1. Init => Swept /\ Idled
  BY DEF Init, Swept, Idled
<1>2. Shape /\ Locked /\ Swept /\ Idled /\ [Next]_vars => Swept' /\ Idled'
  BY NextTypes, SweptStep, IdledStep
<1>3. Shape /\ Locked /\ Swept /\ Idled /\ [Next]_vars =>
        [\A c \in CallId : (Known(c) /\ calls[c].state = "IN_CALL" /\ calls'[c] = NoCall)
                              => Closing(c) \/ Registering(c)]_vars
  BY EstablishedStep DEF Locked
<1> QED
  BY <1>1, <1>2, <1>3, ShapeInvariant, LockedAlways, PTL DEF Spec, EstablishedCallStays

-----------------------------------------------------------------------------
(* One thread at a time has a lock *)

\* A with-block on conn_lock, reg_lock or call_lock (214-216) excludes those of
\* all other threads, however deep the blocks of one thread are nested.
LocksExclude == \A t, u \in Thread : \A l \in Lock : l \in holds[t] /\ l \in holds[u] => t = u

\* register_request answers a socket that is registered already inside the
\* registration lock, and keeps it for the test that follows.
Rechecking == \A w \in Worker : task[w].stage = "recheck" => "reg" \in holds[w]

\* A step of thread t leaves it with locks that it had, or that nobody had.
Takes(t) ==
  /\ \A u \in Thread \ {t} : holds'[u] = holds[u]
  /\ \A l \in holds'[t] : l \in holds[t] \/ Free(l, t)

LEMMA LeaveTakes ==
  ASSUME StackOK, NEW w \in Worker, NEW stage, NEW fs, NEW ls, Leave(w, stage, fs, ls),
         \A l \in ls : l \in holds[w] \/ Free(l, w)
  PROVE  Takes(w)
<1>1. w \in Thread /\ holds' = [holds EXCEPT ![w] = ls]
  BY DEF Leave, Thread
<1> QED
  BY <1>1 DEF StackOK, Takes

LEMMA HandleTakes ==
  ASSUME Shape, Rechecking, NEW w \in Worker, Handle(w)
  PROVE  Takes(w)
<1> USE DEF Shape, TypeOK
<1>1. ASSUME \/ Invalid(w) \/ BumpCSeq(w) \/ Unhandled(w) \/ RegisterRefused(w)
             \/ RegisterForgets(w) \/ InviteRefused(w) \/ NoSuchCall(w)
             \/ ResponseLookedUp(w) \/ KeepAliveAnswered(w) \/ ResponseDropped(w)
      PROVE  Takes(w)
  <2>1. \E stage, fs : Leave(w, stage, fs, {})
    BY <1>1
    DEF Invalid, BumpCSeq, Unhandled, RegisterRefused, RegisterForgets, InviteRefused,
        NoSuchCall, ResponseLookedUp, KeepAliveAnswered, ResponseDropped, Drop, Answer
  <2> QED
    BY <2>1, LeaveTakes
<1>2. ASSUME \/ RegisterOpens(w) \/ RegisterChallenged(w) \/ RegisterUnverified(w)
             \/ InviteMismatch(w) \/ InviteStopped(w) \/ InviteTried(w)
             \/ RequestMismatch(w) \/ Ack(w) \/ Bye(w) \/ ResponseMoves(w)
             \/ ResponseEnds(w) \/ ResponseToRegister(w)
      PROVE  Takes(w)
  <2>1. Free("call", w)
    BY <1>2
    DEF RegisterOpens, RegisterChallenged, RegisterUnverified, InviteRuns, InviteMismatch,
        InviteStopped, InviteTried, RequestMismatch, Ack, Bye, ResponseRuns, ResponseMoves,
        ResponseEnds, ResponseToRegister
  <2>2. \E stage, fs : \E ls \in {{}, {"call"}} : Leave(w, stage, fs, ls)
    BY <1>2
    DEF RegisterOpens, RegisterChallenged, RegisterUnverified, InviteMismatch,
        InviteStopped, InviteTried, RequestMismatch, Ack, Bye, ResponseMoves,
        ResponseEnds, ResponseToRegister, Drop, Answer
  <2> QED
    BY <2>1, <2>2, LeaveTakes
<1>3. CASE RegisterChecks(w)
  <2>1. Free("reg", w) /\ \E stage, fs : \E ls \in {{}, {"reg"}} : Leave(w, stage, fs, ls)
    BY <1>3 DEF RegisterChecks, Drop
  <2> QED
    BY <2>1, LeaveTakes
<1>4. CASE RegisterRechecks(w)
  <2>1. "reg" \in holds[w] /\ \E stage, fs : Leave(w, stage, fs, {"reg"})
    BY <1>4 DEF RegisterRechecks, Runs, Rechecking
  <2> QED
    BY <2>1, LeaveTakes
<1>5. CASE RegisterVerified(w) \/ InviteCalleeAway(w)
  <2>1. \/ \E stage, fs : Leave(w, stage, fs, {})
        \/ /\ Free("call", w) /\ Free("reg", w)
           /\ \E stage, fs : Leave(w, stage, fs, {"call", "reg"})
    BY <1>5 DEF RegisterVerified, InviteRuns, InviteCalleeAway, Drop, Answer
  <2> QED
    BY <2>1, LeaveTakes
<1>6. CASE WaitsForReg(w)
  <2>1. Free("call", w) /\ holds' = [holds EXCEPT ![w] = {"call"}]
    BY <1>6 DEF WaitsForReg, InviteRuns
  <2>2. w \in Thread
    BY DEF Thread
  <2> QED
    BY <2>1, <2>2 DEF StackOK, Takes
<1> QED
  BY <1>1, <1>2, <1>3, <1>4, <1>5, <1>6 DEF Handle

LEMMA SendOrCloseTakes ==
  ASSUME Shape, NEW t \in Thread, SendOrClose(t)
  PROVE  Takes(t)
<1> USE DEF Shape, TypeOK, StackOK
<1>1. ASSUME NEW gs, NEW ls, GoOn(t, gs, ls), \A l \in ls : l \in holds[t] \/ Free(l, t)
      PROVE  Takes(t)
  BY <1>1 DEF GoOn, Takes
<1>2. CASE Raise(t)
  BY <1>2 DEF Raise, Takes
<1>3. CASE \/ SendSucceeds(t) \/ SendFails(t) \/ CloseConn(t) \/ CloseReg(t)
           \/ (CloseOneCall(t) /\ ~Raise(t))
  <2>1. \E gs : GoOn(t, gs, holds[t])
    BY <1>3 DEF SendSucceeds, SendFails, CloseConn, CloseReg, CloseOneCall, Turn, Pop
  <2> QED
    BY <1>1, <2>1
<1>4. CASE CloseCalls(t)
  <2>1. Free("call", t) /\ \E gs : GoOn(t, gs, holds[t] \cup {"call"})
    BY <1>4 DEF CloseCalls
  <2> QED
    BY <1>1, <2>1
<1>5. CASE CloseSocket(t)
  <2>1. \E gs : \E ls \in {holds[t], holds[t] \ {"call"}} : GoOn(t, gs, ls)
    BY <1>5 DEF CloseSocket, Pop
  <2> QED
    BY <1>1, <2>1
<1> QED
  BY <1>2, <1>3, <1>4, <1>5 DEF SendOrClose, CloseLosesCall

LEMMA OthersTake ==
  ASSUME Shape, Others
  PROVE  \E t \in Thread : Takes(t)
<1> USE DEF Shape, TypeOK, StackOK
<1>0. {"main", "keepalive", "cleanup"} \subseteq Thread
  BY DEF Thread, Daemon
<1>1. CASE holds' = holds
  <2>1. holds' = [holds EXCEPT !["main"] = holds["main"]]
    BY <1>1
  <2> QED
    BY <1>0, <2>1 DEF Takes
<1>2. CASE Hangup
  <2>1. Free("conn", "main") /\ holds' = [holds EXCEPT !["main"] = {"conn"}]
    BY <1>2 DEF Hangup
  <2> QED
    BY <1>0, <2>1 DEF Takes
<1>3. CASE ProbeStarts \/ ProbeEnds
  <2>1. \/ holds' = [holds EXCEPT !["keepalive"] = {}]
        \/ /\ Free("conn", "keepalive")
           /\ holds' = [holds EXCEPT !["keepalive"] = {"conn"}]
    BY <1>3 DEF ProbeStarts, ProbeEnds
  <2> QED
    BY <1>0, <2>1 DEF Takes
<1>4. ASSUME NEW c \in CallId, IdleCallFound(c)
      PROVE  Takes("cleanup")
  <2>1. Free("call", "cleanup") /\ holds' = [holds EXCEPT !["cleanup"] = {"call"}]
    BY <1>4 DEF IdleCallFound
  <2> QED
    BY <1>0, <2>1 DEF Takes
<1>5. CASE (IdleCallRemoved \/ IdleCallRemovedTwice) /\ holds' # holds
  <2>1. holds' = [holds EXCEPT !["cleanup"] = {}]
    BY <1>5 DEF IdleCallRemoved, IdleCallRemovedTwice, Raise
  <2> QED
    BY <1>0, <2>1 DEF Takes
<1> QED
  BY <1>0, <1>1, <1>2, <1>3, <1>4, <1>5
  DEF Others, MainLoop, Accept, Handshake, Select, Receive, Shutdown, KeepAliveThread,
      ProbeEvicts, ProbeSends, ProbeTurns, ProbePurges, CleanupThread, RegistrationExpires,
      Vanish, threadVars, vars

LEMMA ExcludeStep ==
  ASSUME Shape, Rechecking, LocksExclude, Next \/ UNCHANGED vars
  PROVE  LocksExclude'
<1>1. PICK t \in Thread : Takes(t)
  <2>1. Worker \subseteq Thread
    BY DEF Thread
  <2> QED
    BY <2>1, HandleTakes, SendOrCloseTakes, OthersTake DEF Next, Others
<1>2. SUFFICES ASSUME NEW u \in Thread, u # t, NEW l \in Lock, l \in holds'[t], l \in holds[u]
               PROVE  FALSE
  BY <1>1 DEF LocksExclude, Takes
<1> QED
  BY <1>1, <1>2 DEF LocksExclude, Takes, Free

\* A handler has its own task and its own locks.
LEMMA HandleTask ==
  ASSUME Shape, NEW w \in Worker, Handle(w), NEW v \in Worker, v # w
  PROVE  task'[v] = task[v] /\ holds'[v] = holds[v]
<1> USE DEF Shape, TypeOK, StackOK, TaskOK
<1>1. Worker \subseteq Thread
  BY DEF Thread
<1>2. \/ \E stage, fs, ls : Leave(w, stage, fs, ls)
      \/ WaitsForReg(w)
  BY DEF Handle, Invalid, BumpCSeq, Unhandled, RegisterRefused, RegisterOpens,
         RegisterChecks, RegisterRechecks, RegisterForgets, RegisterChallenged,
         RegisterUnverified, RegisterVerified, InviteRefused, InviteMismatch,
         InviteCalleeAway, InviteStopped, InviteTried, NoSuchCall, RequestMismatch, Ack,
         Bye, ResponseLookedUp, KeepAliveAnswered, ResponseMoves, ResponseEnds,
         ResponseDropped, ResponseToRegister, Drop, Answer
<1>3. ASSUME NEW stage, NEW fs, NEW ls, Leave(w, stage, fs, ls)
      PROVE  task'[v] = task[v] /\ holds'[v] = holds[v]
  BY <1>1, <1>3 DEF Leave
<1> QED
  BY <1>1, <1>2, <1>3 DEF WaitsForReg

LEMMA RecheckingStep ==
  ASSUME Shape, Rechecking, Next \/ UNCHANGED vars
  PROVE  Rechecking'
<1> USE DEF Shape, TypeOK, StackOK, TaskOK
<1>0. Worker \subseteq Thread /\ \A w \in Worker : w \notin {"main", "keepalive", "cleanup"}
  BY ConstantsAssumption DEF Thread, Daemon
<1>1. ASSUME NEW w \in Worker, Handle(w)
      PROVE  Rechecking'
  <2>1. \A v \in Worker \ {w} : task'[v] = task[v] /\ holds'[v] = holds[v]
    BY <1>1, HandleTask
  <2>2. task'[w].stage # "recheck" \/ "reg" \in holds'[w]
    <3>1. ASSUME NEW stage, stage # "recheck", NEW fs, NEW ls, Leave(w, stage, fs, ls)
          PROVE  task'[w].stage # "recheck"
      <4>1. task'[w].stage \in {"idle", stage}
        BY <3>1 DEF Leave, IdleTask, Task
      <4> QED
        BY <3>1, <4>1
    <3>2. CASE RegisterChecks(w)
      <4>1. \/ \E stage, fs, ls : stage # "recheck" /\ Leave(w, stage, fs, ls)
            \/ \E stage, fs : Leave(w, stage, fs, {"reg"})
        BY <3>2 DEF RegisterChecks, Drop
      <4>2. ASSUME NEW stage, NEW fs, Leave(w, stage, fs, {"reg"})
            PROVE  "reg" \in holds'[w]
        BY <1>0, <4>2 DEF Leave
      <4> QED
        BY <3>1, <4>1, <4>2
    <3>3. CASE WaitsForReg(w)
      BY <3>3 DEF WaitsForReg, InviteRuns, Runs
    <3>4. CASE ~RegisterChecks(w) /\ ~WaitsForReg(w)
      <4>1. \E stage, fs, ls : stage # "recheck" /\ Leave(w, stage, fs, ls)
        BY <1>1, <3>4
        DEF Handle, Invalid, BumpCSeq, Unhandled, RegisterRefused, RegisterOpens,
            RegisterRechecks, RegisterForgets, RegisterChallenged, RegisterUnverified,
            RegisterVerified, InviteRefused, InviteMismatch, InviteCalleeAway,
            InviteStopped, InviteTried, NoSuchCall, RequestMismatch, Ack, Bye,
            ResponseLookedUp, KeepAliveAnswered, ResponseMoves, ResponseEnds,
            ResponseDropped, ResponseToRegister, Drop, Answer
      <4> QED
        BY <3>1, <4>1
    <3> QED
      BY <3>2, <3>3, <3>4
  <2> QED
    BY <2>1, <2>2 DEF Rechecking
<1>2. ASSUME NEW t \in Thread, SendOrClose(t)
      PROVE  Rechecking'
  <2>1. ASSUME NEW gs, NEW ls, GoOn(t, gs, ls), holds[t] \ {"call"} \subseteq ls
        PROVE  Rechecking'
    <3>1. \A v \in Worker : v = t => task'[v] = IdleTask \/ "reg" \notin holds[t]
                                     \/ (task'[v] = task[v] /\ "reg" \in holds'[t])
      BY <2>1 DEF GoOn
    <3>2. \A v \in Worker : v = t => task'[v] \in {IdleTask, task[v]}
      BY <2>1 DEF GoOn
    <3>3. \A v \in Worker : v # t => task'[v] = task[v] /\ holds'[v] = holds[v]
      BY <1>0, <2>1 DEF GoOn
    <3> QED
      BY <3>1, <3>2, <3>3 DEF Rechecking, IdleTask
  <2>2. CASE Raise(t)
    <3>1. \A v \in Worker : \/ task'[v] = IdleTask
                            \/ task'[v] = task[v] /\ holds'[v] = holds[v]
      BY <1>0, <2>2 DEF Raise
    <3> QED
      BY <3>1 DEF Rechecking, IdleTask
  <2>3. CASE SendOrClose(t) /\ ~Raise(t)
    <3>1. \E gs : \E ls \in {holds[t], holds[t] \cup {"call"}, holds[t] \ {"call"}} :
            GoOn(t, gs, ls)
      BY <2>3 DEF SendOrClose, SendSucceeds, SendFails, CloseConn, CloseReg, CloseCalls,
                  CloseOneCall, CloseLosesCall, CloseSocket, Turn, Pop
    <3> QED
      BY <2>1, <3>1
  <2> QED
    BY <1>2, <2>2, <2>3
<1>3. ASSUME NEW w \in Worker, Receive(w)
      PROVE  Rechecking'
  <2>1. task'[w].stage = "start" /\ \A v \in Worker \ {w} : task'[v] = task[v]
    BY <1>3 DEF Receive
  <2> QED
    BY <1>3, <2>1 DEF Receive, Rechecking
<1>4. CASE Others /\ task' = task
  <2>1. \A w \in Worker : holds'[w] = holds[w]
    BY <1>0, <1>4
    DEF Others, MainLoop, Accept, Handshake, Select, Receive, Hangup, Shutdown,
        KeepAliveThread, ProbeStarts, ProbeEnds, ProbeEvicts, ProbeSends, ProbeTurns,
        ProbePurges, CleanupThread, IdleCallFound, IdleCallRemoved, IdleCallRemovedTwice,
        Raise, RegistrationExpires, Vanish, threadVars, vars
  <2> QED
    BY <1>4, <2>1 DEF Rechecking
<1>5. CASE Others /\ ~(\E w \in Worker : Receive(w))
  <2>1. task' = task
    BY <1>0, <1>5
    DEF Others, MainLoop, Accept, Handshake, Select, Hangup, Shutdown,
        KeepAliveThread, ProbeStarts, ProbeEnds, ProbeEvicts, ProbeSends, ProbeTurns,
        ProbePurges, CleanupThread, IdleCallFound, IdleCallRemoved, IdleCallRemovedTwice,
        Raise, RegistrationExpires, Vanish, threadVars, vars
  <2> QED
    BY <1>4, <1>5, <2>1
<1> QED
  BY <1>1, <1>2, <1>3, <1>5 DEF Next, Others

\* No lock of the server is ever held by two of its threads, though handlers
\* take it again inside itself, keep it over sends and give it back in parts.
THEOREM LocksAreExclusive == Spec => []LocksExclude
<1>1. Init => LocksExclude /\ Rechecking
  BY DEF Init, LocksExclude, Rechecking, IdleTask
<1>2. Shape /\ LocksExclude /\ Rechecking /\ [Next]_vars => LocksExclude' /\ Rechecking'
  BY ExcludeStep, RecheckingStep
<1> QED
  BY <1>1, <1>2, ShapeInvariant, PTL DEF Spec

-----------------------------------------------------------------------------
(* What becomes of a stack when its thread sends or closes *)

\* Frame g is what is left to do of the top frame of thread t.
Becomes(t, g) ==
  LET f == Top(t) IN
  /\ g.sock = f.sock
  /\ \/ f.pc = "send" /\ g.pc = "conn" /\ g.msg = NoMsg /\ calls' = calls
     \/ f.pc \in {"conn", "reg"} /\ g.pc \in {"reg", "calls"} /\ g.msg = f.msg /\ calls' = calls
     \/ /\ f.pc = "calls" /\ g.pc = "sweep" /\ g.msg = f.msg /\ calls' = calls
        /\ g.todo = {c \in CallId : Involves(c, f.sock)}
     \/ /\ f.pc = "sweep" /\ g.pc = "sweep"
        /\ \E c \in f.todo : /\ Known(c) /\ g.todo = f.todo \ {c}
                             /\ calls' = [calls EXCEPT ![c] = NoCall]

\* An exception in a close: the call to delete is gone (1224), or the other
\* party is told through a socket that is None (1227).
BreaksOff(t) == CloseLosesCall(t) \/ (CloseOneCall(t) /\ stack'[t] = <<>>)

Works(t) ==
  \/ Raise(t) /\ BreaksOff(t)
  \/ stack'[t] = Tail(stack[t]) /\ (SendSucceeds(t) \/ CloseSocket(t))
  \/ \E g \in Frame : Becomes(t, g) /\ stack'[t] = <<g>> \o Tail(stack[t])
  \/ \E g, h \in Frame :
       /\ Becomes(t, g) /\ Top(t).pc = "sweep" /\ g.pc = "sweep" /\ h.pc = "send"
       /\ stack'[t] = <<h, g>> \o Tail(stack[t])

LEMMA TurnWorks ==
  ASSUME NEW t, NEW g \in Frame, Becomes(t, g), stack'[t] = <<g>> \o Tail(stack[t])
  PROVE  Works(t)
  BY DEF Works

LEMMA CloseOneCallWorks ==
  ASSUME Shape, NEW t \in Thread, CloseOneCall(t)
  PROVE  Works(t)
<1> USE DEF Shape, TypeOK
<1> DEFINE f == Top(t)
<1>1. /\ stack[t] # <<>> /\ f \in Frame /\ f.pc = "sweep" /\ f.todo \subseteq CallId
      /\ Tail(stack[t]) \in Seq(Frame) /\ stack[t] \in Seq(Frame)
  BY TopTyped DEF CloseOneCall, At, Frame, StackOK
<1>2. PICK c \in f.todo :
        /\ Known(c)
        /\ calls' = [calls EXCEPT ![c] = NoCall]
        /\ LET peer == PeerAfter(f, c)
               notice == NoticeAfter(f, c)
               rest == [f EXCEPT !.todo = @ \ {c}, !.peer = peer, !.msg = notice]
           IN \/ Turn(t, rest)
              \/ /\ notice # NoMsg /\ peer # NoSock
                 /\ GoOn(t, <<Send(peer, notice), rest>> \o Tail(stack[t]), holds[t])
              \/ Raise(t)
  BY DEF CloseOneCall
<1> DEFINE peer == PeerAfter(f, c)
           notice == NoticeAfter(f, c)
           rest == [f EXCEPT !.todo = f.todo \ {c}, !.peer = peer, !.msg = notice]
           send == Send(peer, notice)
<1>3. c \in CallId /\ calls[c] \in Call
  BY <1>1, <1>2, KnownTyped
<1>4. peer \in Sock \cup {NoSock}
  BY <1>1, <1>3, SideTyped DEF PeerAfter, Frame
<1>5. notice \in ServerMsg \cup {NoMsg}
  BY <1>1, <1>3, GoneTyped DEF NoticeAfter, Frame
<1>6. rest \in Frame
  <2>1. f.todo \ {c} \in SUBSET CallId
    BY <1>1
  <2> HIDE DEF f, peer, notice
  <2> QED
    BY <2>1, <1>1, <1>4, <1>5, CloseFrameTyped
<1>7. rest.pc = "sweep" /\ rest.sock = f.sock /\ rest.todo = f.todo \ {c}
  <2> HIDE DEF f, peer, notice
  <2> QED
    BY <1>1 DEF Frame
<1> HIDE DEF rest
<1>8. Becomes(t, rest)
  BY <1>1, <1>2, <1>7 DEF Becomes
<1> HIDE DEF f, peer, notice
<1>9. CASE Turn(t, rest)
  <2>1. stack'[t] = <<rest>> \o Tail(stack[t])
    BY <1>9 DEF Turn, GoOn, StackOK
  <2> QED
    BY <1>6, <1>8, <2>1 DEF Works
<1>10. CASE /\ notice # NoMsg /\ peer # NoSock
            /\ GoOn(t, <<send, rest>> \o Tail(stack[t]), holds[t])
  <2>1. send \in Frame /\ send.pc = "send"
    <3>1. send \in Frame
      BY <1>4, <1>5, <1>10, SendTyped
    <3>2. send.pc = "send"
      BY DEF Send
    <3> QED
      BY <3>1, <3>2
  <2> HIDE DEF send
  <2>2. stack'[t] = <<send, rest>> \o Tail(stack[t])
    BY <1>10 DEF GoOn, StackOK
  <2> QED
    BY <1>1, <1>6, <1>7, <1>8, <2>1, <2>2 DEF Works, f
<1>11. CASE Raise(t)
  <2>1. stack'[t] = <<>>
    BY <1>11 DEF Raise, StackOK
  <2> QED
    BY <1>11, <2>1 DEF Works, BreaksOff
<1> QED
  BY <1>2, <1>9, <1>10, <1>11 DEF f, peer, notice, rest

LEMMA SendOrCloseWorks ==
  ASSUME Shape, NEW t \in Thread, SendOrClose(t)
  PROVE  Works(t) /\ stack[t] # <<>> /\ stack[t] \in Seq(Frame)
<1> USE DEF Shape, TypeOK
<1>1. /\ stack[t] # <<>> /\ Top(t) \in Frame /\ stack[t] \in Seq(Frame)
  BY TopTyped DEF SendOrClose, SendSucceeds, SendFails, CloseConn, CloseReg, CloseCalls,
                  CloseOneCall, CloseLosesCall, CloseSocket, At, StackOK
<1> SUFFICES Works(t)
  BY <1>1
<1>2. ASSUME NEW gs, NEW ls, GoOn(t, gs, ls)
      PROVE  stack'[t] = gs
  BY <1>2 DEF GoOn, StackOK
<1>3. CASE SendSucceeds(t) \/ CloseSocket(t)
  <2>1. \E ls : GoOn(t, Tail(stack[t]), ls)
    BY <1>3 DEF SendSucceeds, CloseSocket, Pop
  <2>2. stack'[t] = Tail(stack[t])
    BY <1>2, <2>1
  <2> QED
    BY <1>3, <2>2 DEF Works
<1>4. CASE SendFails(t)
  <2>1. stack'[t] = <<Close(Top(t).sock)>> \o Tail(stack[t])
    BY <1>2, <1>4 DEF SendFails, Turn
  <2>2. Close(Top(t).sock) \in Frame
    BY <1>1, CloseTyped DEF Frame
  <2>3. Becomes(t, Close(Top(t).sock))
    BY <1>4 DEF SendFails, At, Becomes, Close, callVars
  <2> QED
    BY <2>1, <2>2, <2>3, TurnWorks
<1>5. CASE CloseConn(t) \/ CloseReg(t)
  <2>1. PICK pc \in {"reg", "calls"} : Turn(t, [Top(t) EXCEPT !.pc = pc])
    BY <1>5 DEF CloseConn, CloseReg
  <2> DEFINE g == [Top(t) EXCEPT !.pc = pc]
  <2>2. g \in Frame
    BY <1>1, CloseFrameTyped
  <2>3. g.pc = pc /\ g.sock = Top(t).sock /\ g.msg = Top(t).msg
    BY <1>1 DEF Frame
  <2>4. Top(t).pc \in {"conn", "reg"} /\ calls' = calls
    BY <1>5 DEF CloseConn, CloseReg, At, callVars
  <2>5. stack'[t] = <<g>> \o Tail(stack[t])
    BY <1>2, <2>1 DEF Turn
  <2> HIDE DEF g
  <2>6. Becomes(t, g)
    BY <2>3, <2>4 DEF Becomes
  <2> QED
    BY <2>2, <2>5, <2>6, TurnWorks
<1>6. CASE CloseCalls(t)
  <2> DEFINE todo == {c \in CallId : Involves(c, Top(t).sock)}
             g == [Top(t) EXCEPT !.pc = "sweep", !.took = "call" \notin holds[t],
                                 !.todo = todo]
  <2>1. stack'[t] = <<g>> \o Tail(stack[t])
    BY <1>2, <1>6 DEF CloseCalls
  <2>2. g \in Frame
    BY <1>1, CloseFrameTyped
  <2>3. g.pc = "sweep" /\ g.msg = Top(t).msg /\ g.todo = todo /\ g.sock = Top(t).sock
    BY <1>1 DEF Frame
  <2>4. Top(t).pc = "calls" /\ calls' = calls
    BY <1>6 DEF CloseCalls, At, callVars
  <2> HIDE DEF g
  <2>5. Becomes(t, g)
    BY <2>3, <2>4 DEF Becomes
  <2> QED
    BY <2>1, <2>2, <2>5, TurnWorks
<1>7. CASE CloseLosesCall(t)
  <2>1. Raise(t) /\ BreaksOff(t)
    BY <1>7 DEF CloseLosesCall, BreaksOff
  <2> QED
    BY <2>1 DEF Works
<1> QED
  BY <1>1, <1>3, <1>4, <1>5, <1>6, <1>7, CloseOneCallWorks DEF SendOrClose

\* The frames after such a step, and where those below the top are now.
LEMMA WorksFrames ==
  ASSUME NEW t \in Thread, stack \in [Thread -> Seq(Frame)], Works(t), stack[t] # <<>>,
         NEW i \in 1..Len(stack'[t])
  PROVE  LET f == stack'[t][i] IN
         \/ \E j \in 2..Len(stack[t]) : f = stack[t][j]
         \/ f.pc = "send"
         \/ Becomes(t, f) /\ (f.pc = "sweep" /\ Top(t).pc = "calls" => i = 1)
<1> DEFINE fs == stack[t]
<1>0. Len(fs) \in Nat /\ Len(Tail(fs)) = Len(fs) - 1
      /\ \A j \in 1..Len(Tail(fs)) : j + 1 \in 2..Len(fs) /\ Tail(fs)[j] = fs[j + 1]
  OBVIOUS
<1>1. CASE Raise(t)
  <2>1. stack'[t] = <<>>
    BY <1>1 DEF Raise
  <2> QED
    BY <2>1
<1>2. CASE stack'[t] = Tail(fs)
  BY <1>0, <1>2
<1>3. ASSUME NEW g \in Frame, Becomes(t, g), stack'[t] = <<g>> \o Tail(fs)
      PROVE  \/ \E j \in 2..Len(fs) : stack'[t][i] = fs[j]
             \/ Becomes(t, stack'[t][i]) /\ i = 1
  <2>1. \/ i = 1 /\ stack'[t][i] = g
        \/ i - 1 \in 1..Len(Tail(fs)) /\ stack'[t][i] = Tail(fs)[i - 1]
    BY <1>3
  <2> QED
    BY <1>0, <1>3, <2>1
<1>4. ASSUME NEW g \in Frame, NEW h \in Frame, Becomes(t, g), g.pc = "sweep", Top(t).pc # "calls",
             h.pc = "send",
             stack'[t] = <<h, g>> \o Tail(fs)
      PROVE  \/ \E j \in 2..Len(fs) : stack'[t][i] = fs[j]
             \/ stack'[t][i].pc = "send"
             \/ Becomes(t, stack'[t][i])
  <2>1. \/ stack'[t][i] \in {h, g}
        \/ i - 2 \in 1..Len(Tail(fs)) /\ stack'[t][i] = Tail(fs)[i - 2]
    BY <1>4
  <2> QED
    BY <1>0, <1>4, <2>1
<1> QED
  BY <1>1, <1>2, <1>3, <1>4 DEF Works


-----------------------------------------------------------------------------
(* The stacks of the threads that do neither *)

\* The server loop has frames only while it closes a client.
LoopIdle == main.pc # "closing" => stack["main"] = <<>>

LEMMA LoopIdleStep ==
  ASSUME Shape, LoopIdle, [Next]_vars
  PROVE  LoopIdle'
<1> USE DEF Shape, TypeOK, StackOK
<1>0. "main" \in Thread /\ "main" \notin Daemon /\ "main" \notin Worker
  BY ConstantsAssumption DEF Thread, Daemon
<1>1. CASE main' = main /\ stack'["main"] = stack["main"]
  BY <1>1 DEF LoopIdle
<1>2. ASSUME NEW w \in Worker, Handle(w)
      PROVE  LoopIdle'
  <2>1. main' = main /\ stack'["main"] = stack["main"]
    BY <1>0, <1>2, HandleLeaves DEF HandlerStep, Leaves
  <2> QED
    BY <1>1, <2>1
<1>3. ASSUME NEW t \in Thread, SendOrClose(t)
      PROVE  LoopIdle'
  <2>1. ASSUME NEW gs, NEW ls, GoOn(t, gs, ls)
        PROVE  LoopIdle'
    <3>1. CASE t # "main"
      <4>1. main' = main /\ stack'["main"] = stack["main"]
        BY <1>0, <2>1, <3>1 DEF GoOn
      <4> QED
        BY <1>1, <4>1
    <3>2. CASE t = "main" /\ gs # <<>>
      <4>1. main' = main /\ main.pc = "closing"
        BY <1>3, <2>1, <3>2
        DEF GoOn, LoopIdle, SendOrClose, SendSucceeds, SendFails, CloseConn, CloseReg,
            CloseCalls, CloseOneCall, CloseLosesCall, CloseSocket, At
      <4> QED
        BY <4>1 DEF LoopIdle
    <3>3. CASE t = "main" /\ gs = <<>>
      <4>1. stack'["main"] = <<>>
        BY <1>0, <2>1, <3>3 DEF GoOn
      <4> QED
        BY <4>1 DEF LoopIdle
    <3> QED
      BY <3>1, <3>2, <3>3
  <2>2. CASE Raise(t)
    BY <1>0, <2>2 DEF Raise, LoopIdle
  <2>3. CASE ~Raise(t)
    <3>1. \E gs, ls : GoOn(t, gs, ls)
      BY <1>3, <2>3
      DEF SendOrClose, SendSucceeds, SendFails, CloseConn, CloseReg, CloseCalls,
          CloseOneCall, CloseLosesCall, CloseSocket, Turn, Pop
    <3> QED
      BY <2>1, <3>1
  <2> QED
    BY <2>2, <2>3
<1>4. CASE MainLoop
  <2>1. CASE Hangup
    BY <2>1 DEF Hangup, LoopIdle, LoopOK
  <2>2. CASE ~Hangup
    <3>1. stack'["main"] = stack["main"] /\ main.pc # "closing"
      BY <1>4, <2>2 DEF MainLoop, Accept, Handshake, Select, Receive, Shutdown, threadVars
    <3> QED
      BY <3>1 DEF LoopIdle
  <2> QED
    BY <2>1, <2>2
<1>5. CASE Others /\ ~MainLoop
  <2>1. main' = main /\ stack'["main"] = stack["main"]
    BY <1>0, <1>5
    DEF Others, KeepAliveThread, ProbeStarts, ProbeEnds, ProbeEvicts, ProbeSends, ProbeTurns,
        ProbePurges, CleanupThread, IdleCallFound, IdleCallRemoved, IdleCallRemovedTwice,
        Raise, RegistrationExpires, Vanish, threadVars, vars, Daemon
  <2> QED
    BY <1>1, <2>1
<1> QED
  BY <1>2, <1>3, <1>4, <1>5 DEF Next, Others

\* The loop and the daemons start their work from an empty stack.
LEMMA OthersStart ==
  ASSUME Shape, Locked, LoopIdle, Others, NEW u \in Thread, stack'[u] # stack[u]
  PROVE  stack[u] = <<>>
<1> USE DEF Shape, TypeOK, StackOK
<1>1. CASE Hangup
  <2>1. stack["main"] = <<>> /\ u = "main"
    BY <1>1 DEF Hangup, LoopIdle
  <2> QED
    BY <2>1
<1>2. ASSUME NEW s \in Sock, ProbeEvicts(s) \/ ProbeSends(s)
      PROVE  stack[u] = <<>>
  <2>1. stack["keepalive"] = <<>> /\ u = "keepalive"
    BY <1>2 DEF ProbeEvicts, ProbeSends
  <2> QED
    BY <2>1
<1>3. ASSUME NEW c \in CallId, IdleCallFound(c)
      PROVE  stack[u] = <<>>
  <2>1. stack["cleanup"] = <<>> /\ u = "cleanup"
    BY <1>3 DEF IdleCallFound, Locked, Cleaning
  <2> QED
    BY <2>1
<1>4. CASE IdleCallRemoved \/ IdleCallRemovedTwice
  <2>1. stack["cleanup"] = <<>> /\ u = "cleanup"
    BY <1>4 DEF IdleCallRemoved, IdleCallRemovedTwice, Raise
  <2> QED
    BY <2>1
<1> QED
  BY <1>1, <1>2, <1>3, <1>4
  DEF Others, MainLoop, Accept, Handshake, Select, Receive, Shutdown, KeepAliveThread,
      ProbeStarts, ProbeEnds, ProbeTurns, ProbePurges, CleanupThread, RegistrationExpires,
      Vanish, threadVars, vars

\* A frame that is new to a thread which neither sends nor closes.
FreshFrame(f) == f.pc \in {"send", "conn"} /\ (f.pc = "conn" => f.msg = NoMsg)

LEMMA Elsewhere ==
  ASSUME Shape, Locked, LoopIdle, [Next]_vars, NEW u \in Thread, ~SendOrClose(u)
  PROVE  \/ stack'[u] = stack[u]
         \/ stack[u] = <<>> /\ \A i \in 1..Len(stack'[u]) : FreshFrame(stack'[u][i])
<1> USE DEF Shape, TypeOK, StackOK
<1>1. ASSUME NEW fs, Plain(fs), NEW i \in 1..Len(fs)
      PROVE  FreshFrame(fs[i])
  BY <1>1 DEF Plain, FreshFrame
<1>2. ASSUME NEW w \in Worker, Handle(w)
      PROVE  \/ stack'[u] = stack[u]
             \/ stack[u] = <<>> /\ \A i \in 1..Len(stack'[u]) : FreshFrame(stack'[u][i])
  <2>1. PICK fs, ls : Leaves(w, fs, ls) /\ (Plain(fs) \/ Confirms(fs, ls))
    BY <1>2, HandleLeaves DEF HandlerStep
  <2>2. \A i \in 1..Len(fs) : FreshFrame(fs[i])
    <3>1. CASE Plain(fs)
      BY <1>1, <3>1
    <3>2. CASE Confirms(fs, ls)
      BY <3>2 DEF Confirms, Send, FreshFrame
    <3> QED
      BY <2>1, <3>1, <3>2
  <2>3. stack[w] = <<>> /\ stack' = [stack EXCEPT ![w] = fs]
    BY <2>1 DEF Leaves
  <2>4. u # w => stack'[u] = stack[u]
    BY <2>3
  <2>5. u = w => stack'[u] = fs
    BY <2>3
  <2> QED
    BY <2>2, <2>3, <2>4, <2>5
<1>3. ASSUME NEW t \in Thread, SendOrClose(t)
      PROVE  stack'[u] = stack[u]
  BY <1>3, SendOrCloseMoves DEF Moves, Locked
<1>4. CASE Others
  <2>0. PICK t \in {"main"} \cup Daemon : \E fs, ls :
          /\ stack' = [stack EXCEPT ![t] = fs] /\ holds' = [holds EXCEPT ![t] = ls]
          /\ (fs = stack[t] /\ ls = holds[t]) \/ Plain(fs)
    BY <1>4, OtherSteps DEF OtherStep
  <2>1. PICK fs : stack' = [stack EXCEPT ![t] = fs] /\ (fs = stack[t] \/ Plain(fs))
    BY <2>0
  <2>2. u # t => stack'[u] = stack[u]
    BY <2>1
  <2>3. u = t => stack'[u] = fs
    BY <2>1
  <2>4. stack'[u] = stack[u] \/ stack[u] = <<>>
    BY <1>4, OthersStart
  <2> QED
    BY <1>1, <2>1, <2>2, <2>3, <2>4
<1> QED
  BY <1>2, <1>3, <1>4 DEF Next, Others

-----------------------------------------------------------------------------
(* A close comes to its end *)

\* Somebody who closes a connection has listed call c and not come to it yet.
AwaitsClose(c) ==
  \E t \in Thread : \E i \in 1..Len(stack[t]) :
    stack[t][i].pc = "sweep" /\ c \in stack[t][i].todo

\* A close lists two calls: what the first is told can end the second.
ClosesTwoCalls ==
  \E t \in Thread :
    /\ CloseCalls(t)
    /\ \E c, d \in CallId : c # d /\ Involves(c, Top(t).sock) /\ Involves(d, Top(t).sock)

\* A REGISTER handler deletes, without the call lock (818), a call that a close
\* has listed (1207).
ForgetsClosed == \E w \in Worker : RegisterForgets(w) /\ AwaitsClose(task[w].msg.cid)

\* A close has one call to delete at most, which is there, and has told nobody
\* anything before.
Left(f, i) ==
  /\ f.pc \in {"conn", "reg", "calls"} => f.msg = NoMsg
  /\ f.pc = "sweep" /\ f.todo # {} =>
       /\ i = 1 /\ f.msg = NoMsg
       /\ \A c \in f.todo : Known(c)
       /\ \A c, d \in f.todo : c = d

OneLeft == \A t \in Thread : \A i \in 1..Len(stack[t]) : Left(stack[t][i], i)

\* A call that a close has listed is there until it is closed.
LEMMA ListedStays ==
  ASSUME Shape, Locked, LocksExclude, [Next]_vars, ~ForgetsClosed,
         NEW u \in Thread, ~SendOrClose(u), NEW i \in 1..Len(stack[u]),
         stack[u][i].pc = "sweep", NEW c \in stack[u][i].todo, c \in CallId, Known(c)
  PROVE  calls'[c] # NoCall
<1> USE DEF Shape, TypeOK
<1>1. "call" \in holds[u] /\ stack[u] # <<>>
  BY DEF Locked, Sweeping, Sound
<1>2. calls[c] # NoCall
  BY DEF Known
<1>3. ASSUME NEW w \in Worker, Handle(w)
      PROVE  calls'[c] # NoCall
  <2>1. w # u
    BY <1>1, <1>3, HandleLeaves DEF HandlerStep, Leaves
  <2>2. ~Free("call", w)
    BY <1>1, <2>1 DEF Free
  <2>3. CASE RegisterForgets(w)
    <3>1. task[w].msg.cid # c
      BY <2>3 DEF ForgetsClosed, AwaitsClose
    <3> QED
      BY <1>2, <2>3, <3>1 DEF RegisterForgets, CallsOK
  <2>4. CASE ~RegisterForgets(w)
    <3>1. calls' = calls
      BY <1>3, <2>2, <2>4
      DEF Handle, Invalid, BumpCSeq, Unhandled, RegisterRefused, RegisterOpens,
          RegisterChecks, RegisterRechecks, RegisterChallenged, RegisterUnverified,
          RegisterVerified, InviteRefused, InviteRuns, InviteMismatch, InviteCalleeAway,
          InviteStopped, InviteTried, NoSuchCall, RequestMismatch, Ack, Bye,
          ResponseLookedUp, KeepAliveAnswered, ResponseRuns, ResponseMoves, ResponseEnds,
          ResponseDropped, ResponseToRegister, WaitsForReg, callVars
    <3> QED
      BY <1>2, <3>1
  <2> QED
    BY <2>3, <2>4
<1>4. ASSUME NEW t \in Thread, SendOrClose(t)
      PROVE  calls'[c] # NoCall
  <2>1. CASE CloseOneCall(t)
    <3>1. stack[t] # <<>> /\ stack[t] \in Seq(Frame) /\ Top(t).pc = "sweep"
      BY <2>1 DEF CloseOneCall, At, StackOK
    <3>2. 1 \in 1..Len(stack[t]) /\ stack[t][1].pc = "sweep"
      BY <3>1 DEF Top
    <3>3. "call" \in holds[t]
      BY <3>2 DEF Locked, Sweeping, Sound
    <3> QED
      BY <1>1, <1>4, <3>3 DEF LocksExclude, Lock
  <2>2. CASE ~CloseOneCall(t)
    <3>1. calls' = calls
      BY <1>4, <2>2 DEF SendOrClose, SendSucceeds, SendFails, CloseConn, CloseReg,
                        CloseCalls, CloseLosesCall, CloseSocket, callVars
    <3> QED
      BY <1>2, <3>1
  <2> QED
    BY <2>1, <2>2
<1>5. CASE CleanupThread
  <2>1. CASE IdleCallRemoved
    <3>1. "cleanup" \in Thread /\ "call" \in holds["cleanup"] /\ stack["cleanup"] = <<>>
      BY <2>1 DEF IdleCallRemoved, Locked, Cleaning, Thread, Daemon
    <3>2. u = "cleanup"
      BY <1>1, <3>1 DEF LocksExclude, Lock
    <3> QED
      BY <1>1, <3>1, <3>2
  <2>2. CASE ~IdleCallRemoved
    BY <1>2, <1>5, <2>2 DEF CleanupThread, IdleCallFound, IdleCallRemovedTwice, callVars
  <2> QED
    BY <2>1, <2>2
<1>6. CASE \/ MainLoop \/ KeepAliveThread \/ (\E v \in Uri : RegistrationExpires(v))
           \/ (\E s \in Sock : Vanish(s)) \/ UNCHANGED vars
  <2>1. calls' = calls
    BY <1>6 DEF MainLoop, Accept, Handshake, Select, Receive, Hangup, Shutdown,
              KeepAliveThread, ProbeStarts, ProbeEvicts, ProbeTurns, ProbeSends, ProbeEnds,
              ProbePurges, RegistrationExpires, Vanish, callVars, vars
  <2> QED
    BY <1>2, <2>1
<1> QED
  BY <1>3, <1>4, <1>5, <1>6 DEF Next

LEMMA OneLeftStep ==
  ASSUME Shape, Shape', Locked, LocksExclude, LoopIdle, OneLeft, [Next]_vars,
         ~ForgetsClosed, ~ClosesTwoCalls
  PROVE  OneLeft'
<1> USE DEF Shape, TypeOK, StackOK
<1> SUFFICES ASSUME NEW u \in Thread, NEW i \in 1..Len(stack'[u]), NEW f,
                    f = stack'[u][i]
             PROVE  Left(f, i)'
  BY DEF OneLeft
<1>1. CASE ~SendOrClose(u) /\ stack'[u] = stack[u]
  <2>1. Left(f, i) /\ f = stack[u][i] /\ i \in 1..Len(stack[u])
    BY <1>1 DEF OneLeft
  <2>2. ASSUME f.pc = "sweep", NEW c \in f.todo
        PROVE  Known(c)'
    <3>1. f.todo \subseteq CallId /\ Known(c)
      <4>1. f \in Frame
        BY <2>1
      <4> QED
        BY <2>1, <2>2, <4>1 DEF Left, Frame
    <3> QED
      BY <1>1, <2>1, <2>2, <3>1, ListedStays DEF Known
  <2> QED
    BY <2>1, <2>2 DEF Left
<1>2. CASE FreshFrame(f)
  BY <1>2 DEF FreshFrame, Left
<1>3. CASE SendOrClose(u)
  <2>1. Works(u) /\ stack[u] # <<>> /\ stack[u] \in Seq(Frame)
    BY <1>3, SendOrCloseWorks
  <2>2. 1 \in 1..Len(stack[u]) /\ Top(u) = stack[u][1] /\ Left(Top(u), 1)
    BY <2>1 DEF Top, OneLeft
  <2>3. \/ \E j \in 2..Len(stack[u]) : f = stack[u][j]
        \/ f.pc = "send"
        \/ Becomes(u, f) /\ (f.pc = "sweep" /\ Top(u).pc = "calls" => i = 1)
    BY <2>1, WorksFrames
  <2>4. ASSUME NEW j \in 2..Len(stack[u]), f = stack[u][j]
        PROVE  Left(f, i)'
    <3>1. Left(f, j) /\ j # 1
      BY <2>1, <2>4 DEF OneLeft
    <3> QED
      BY <3>1 DEF Left
  <2>5. CASE f.pc = "send"
    BY <2>5 DEF Left
  <2>6. CASE Becomes(u, f) /\ f.pc # "sweep"
    BY <2>2, <2>6 DEF Becomes, Left
  <2>7. CASE Becomes(u, f) /\ f.pc = "sweep" /\ Top(u).pc = "sweep"
    <3>1. PICK c \in Top(u).todo : f.todo = Top(u).todo \ {c}
      BY <2>7 DEF Becomes
    <3>2. f.todo = {}
      BY <2>2, <2>7, <3>1 DEF Left
    <3> QED
      BY <2>7, <3>2 DEF Left
  <2>8. CASE Becomes(u, f) /\ f.pc = "sweep" /\ Top(u).pc = "calls" /\ i = 1
    <3>1. /\ f.msg = NoMsg /\ calls' = calls
          /\ f.todo = {c \in CallId : Involves(c, Top(u).sock)}
      BY <2>2, <2>8 DEF Becomes, Left
    <3>2. CloseCalls(u)
      BY <1>3, <2>8 DEF SendOrClose, SendSucceeds, SendFails, CloseConn, CloseReg,
                        CloseOneCall, CloseLosesCall, CloseSocket, At
    <3>3. \A c, d \in f.todo : c = d
      BY <3>1, <3>2 DEF ClosesTwoCalls
    <3>4. \A c \in f.todo : Known(c)'
      BY <3>1 DEF Involves, Known
    <3> QED
      BY <2>8, <3>1, <3>3, <3>4 DEF Left
  <2> QED
    BY <2>3, <2>4, <2>5, <2>6, <2>7, <2>8 DEF Becomes
<1> QED
  BY <1>1, <1>2, <1>3, Elsewhere

LEMMA NothingBreaks ==
  ASSUME Shape, OneLeft, NEW t \in Thread
  PROVE  ~BreaksOff(t)
<1> USE DEF Shape, TypeOK, StackOK
<1> SUFFICES ASSUME BreaksOff(t) PROVE FALSE
  OBVIOUS
<1> DEFINE f == Top(t)
<1>1. /\ stack[t] # <<>> /\ stack[t] \in Seq(Frame) /\ f \in Frame /\ f.pc = "sweep"
      /\ Tail(stack[t]) \in Seq(Frame)
  BY TopTyped DEF BreaksOff, CloseLosesCall, CloseOneCall, At
<1>2. Left(f, 1)
  BY <1>1 DEF Top, OneLeft
<1>3. CASE CloseLosesCall(t)
  BY <1>1, <1>2, <1>3 DEF CloseLosesCall, Left
<1>4. CASE CloseOneCall(t) /\ stack'[t] = <<>>
  <2>1. PICK c \in f.todo :
          LET peer == PeerAfter(f, c)
              notice == NoticeAfter(f, c)
              rest == [f EXCEPT !.todo = @ \ {c}, !.peer = peer, !.msg = notice]
          IN \/ Turn(t, rest)
             \/ GoOn(t, <<Send(peer, notice), rest>> \o Tail(stack[t]), holds[t])
             \/ notice # NoMsg /\ peer = NoSock
    BY <1>4 DEF CloseOneCall
  <2> DEFINE peer == PeerAfter(f, c)
             notice == NoticeAfter(f, c)
             rest == [f EXCEPT !.todo = f.todo \ {c}, !.peer = peer, !.msg = notice]
             send == Send(peer, notice)
  <2> HIDE DEF rest, send, peer, notice, f
  <2>2. CASE Turn(t, rest)
    <3>1. stack'[t] = <<rest>> \o Tail(stack[t])
      BY <2>2 DEF Turn, GoOn
    <3> QED
      BY <1>1, <1>4, <3>1
  <2>3. CASE GoOn(t, <<send, rest>> \o Tail(stack[t]), holds[t])
    <3>1. stack'[t] = <<send, rest>> \o Tail(stack[t])
      BY <2>3 DEF GoOn
    <3> QED
      BY <1>1, <1>4, <3>1
  <2>4. CASE notice # NoMsg /\ peer = NoSock
    <3>1. f.msg = NoMsg
      BY <1>1, <1>2 DEF Left
    <3>2. calls[c].type = "INVITE" /\ OtherSide(c, f.sock) # NoSock
      BY <2>4, <3>1 DEF notice, NoticeAfter
    <3> QED
      BY <2>4, <3>2 DEF peer, PeerAfter
  <2> QED
    BY <2>1, <2>2, <2>3, <2>4 DEF rest, send, peer, notice
<1> QED
  BY <1>3, <1>4 DEF BreaksOff

\* If no close lists two calls and no REGISTER deletes a call that a close has
\* listed, no close ever ends with an exception: with any number of threads,
\* whatever else happens in between.
THEOREM ClosesComeToAnEnd ==
  Spec /\ [][~ClosesTwoCalls /\ ~ForgetsClosed]_vars => [][\A t \in Thread : ~BreaksOff(t)]_vars
<1>1. Init => LoopIdle /\ OneLeft
  <2>1. Init => \A t \in Thread : stack[t] = <<>>
    BY DEF Init
  <2>2. "main" \in Thread
    BY DEF Thread
  <2> QED
    BY <2>1, <2>2 DEF LoopIdle, OneLeft
<1>2. Shape /\ LoopIdle /\ [Next]_vars => LoopIdle'
  BY LoopIdleStep
<1>3. /\ Shape /\ Shape' /\ Locked /\ LocksExclude /\ LoopIdle /\ OneLeft
      /\ [Next]_vars /\ [~ClosesTwoCalls /\ ~ForgetsClosed]_vars
      => OneLeft'
  <2>1. OneLeft /\ UNCHANGED vars => OneLeft'
    BY DEF OneLeft, Left, Known, vars, threadVars, callVars
  <2> QED
    BY <2>1, OneLeftStep
<1>4. Shape /\ OneLeft => [\A t \in Thread : ~BreaksOff(t)]_vars
  BY NothingBreaks
<1> QED
  BY <1>1, <1>2, <1>3, <1>4, ShapeInvariant, LockedAlways, LocksAreExclusive, PTL DEF Spec

LEMMA LoopSurvivesStep ==
  ASSUME Shape, LoopSurvives, [Next]_vars, ~BreaksOff("main")
  PROVE  LoopSurvives'
<1> USE DEF LoopSurvives
<1>0. "main" \in Thread /\ "main" \notin Worker /\ "main" \notin Daemon
  BY ConstantsAssumption DEF Thread, Daemon
<1>1. CASE main' = main
  BY <1>1
<1>2. ASSUME NEW w \in Worker, Handle(w)
      PROVE  main' = main
  BY <1>2, HandleLeaves DEF HandlerStep, Leaves
<1>3. ASSUME NEW t \in Thread, SendOrClose(t)
      PROVE  main' \in {main, IdleMain}
  <2>1. ASSUME NEW gs, NEW ls, GoOn(t, gs, ls)
        PROVE  main' \in {main, IdleMain}
    BY <2>1 DEF GoOn
  <2>2. CASE Raise(t) /\ (CloseOneCall(t) \/ CloseLosesCall(t))
    <3>1. stack'[t] = <<>>
      BY <2>2 DEF Raise, Shape, TypeOK, StackOK
    <3>2. t # "main"
      BY <2>2, <3>1 DEF BreaksOff
    <3> QED
      BY <2>2, <3>2 DEF Raise
  <2>3. CASE ~(Raise(t) /\ (CloseOneCall(t) \/ CloseLosesCall(t)))
    <3>1. \E gs, ls : GoOn(t, gs, ls)
      BY <1>3, <2>3
      DEF SendOrClose, SendSucceeds, SendFails, CloseConn, CloseReg, CloseCalls,
          CloseOneCall, CloseLosesCall, CloseSocket, Turn, Pop
    <3> QED
      BY <2>1, <3>1
  <2> QED
    BY <2>2, <2>3
<1>4. CASE MainLoop
  BY <1>4 DEF MainLoop, Accept, Handshake, Select, Receive, Hangup, Shutdown, threadVars,
              IdleMain, Shape, TypeOK, LoopOK
<1>5. CASE Others /\ ~MainLoop
  BY <1>0, <1>1, <1>5
  DEF Others, KeepAliveThread, ProbeStarts, ProbeEnds, ProbeEvicts, ProbeSends, ProbeTurns,
      ProbePurges, CleanupThread, IdleCallFound, IdleCallRemoved, IdleCallRemovedTwice,
      Raise, RegistrationExpires, Vanish, threadVars, vars, Daemon
<1> QED
  BY <1>1, <1>2, <1>3, <1>4, <1>5 DEF Next, Others, IdleMain

\* ... and the server loop, which closes clients itself and survives no
\* exception, goes on.
THEOREM LoopGoesOn ==
  Spec /\ [][~ClosesTwoCalls /\ ~ForgetsClosed]_vars => []LoopSurvives
<1>1. Init => LoopSurvives
  BY DEF Init, LoopSurvives, IdleMain
<1>2. /\ Shape /\ LoopSurvives /\ [Next]_vars /\ [\A t \in Thread : ~BreaksOff(t)]_vars
      => LoopSurvives'
  <2>1. LoopSurvives /\ UNCHANGED vars => LoopSurvives'
    BY DEF LoopSurvives, vars, threadVars
  <2>2. "main" \in Thread
    BY DEF Thread
  <2> QED
    BY <2>1, <2>2, LoopSurvivesStep
<1> QED
  BY <1>1, <1>2, ShapeInvariant, ClosesComeToAnEnd, PTL DEF Spec

-----------------------------------------------------------------------------
(* A close leaves no call of its socket *)

\* A close that has listed the calls of its socket has listed them all: no
\* call of the socket is opened before the close gives the call lock back.
Complete ==
  \A t \in Thread : \A i \in 1..Len(stack[t]) :
    stack[t][i].pc = "sweep" =>
      \A c \in CallId : Involves(c, stack[t][i].sock) => c \in stack[t][i].todo

\* A frame that was there before the step, and the call lock with it.
LEMMA OldFrameComplete ==
  ASSUME Shape, Sweeping, Complete, [Next]_vars, NEW u \in Thread,
         NEW j \in 1..Len(stack[u]), NEW f, f = stack[u][j], f.pc = "sweep",
         NEW c \in CallId, Involves(c, f.sock)'
  PROVE  c \in f.todo
<1>1. "call" \in holds[u] /\ stack[u] # <<>>
  BY DEF Sweeping, Sound
<1>2. \A w \in Worker : Handle(w) => w # u
  BY <1>1, HandleLeaves DEF HandlerStep, Leaves
<1>3. calls'[c] = calls[c]
  BY <1>1, <1>2, CallsKept DEF Involves, Known
<1> QED
  BY <1>3 DEF Complete, Involves, Known

LEMMA CompleteStep ==
  ASSUME Shape, Locked, LoopIdle, Complete, [Next]_vars
  PROVE  Complete'
<1> SUFFICES ASSUME NEW u \in Thread, NEW i \in 1..Len(stack'[u]), NEW f,
                    f = stack'[u][i], f.pc = "sweep",
                    NEW c \in CallId, Involves(c, f.sock)'
             PROVE  c \in f.todo
  BY DEF Complete
<1> USE DEF Locked
<1>1. CASE stack'[u] = stack[u]
  BY <1>1, OldFrameComplete
<1>2. CASE FreshFrame(f)
  BY <1>2 DEF FreshFrame
<1>3. CASE SendOrClose(u)
  <2>1. Works(u) /\ stack[u] # <<>> /\ stack[u] \in Seq(Frame)
    BY <1>3, SendOrCloseWorks
  <2>2. 1 \in 1..Len(stack[u]) /\ Top(u) = stack[u][1]
        /\ 2..Len(stack[u]) \subseteq 1..Len(stack[u])
    BY <2>1 DEF Top
  <2>3. (\E j \in 2..Len(stack[u]) : f = stack[u][j]) \/ Becomes(u, f)
    BY <2>1, WorksFrames DEF Shape, TypeOK, StackOK
  <2>4. CASE \E j \in 2..Len(stack[u]) : f = stack[u][j]
    BY <2>2, <2>4, OldFrameComplete
  <2>5. CASE Becomes(u, f) /\ calls' = calls /\ Top(u).pc = "calls"
    <3>1. f.todo = {d \in CallId : Involves(d, Top(u).sock)} /\ f.sock = Top(u).sock
      BY <2>5 DEF Becomes
    <3> QED
      BY <2>5, <3>1 DEF Involves, Known
  <2>6. CASE Becomes(u, f) /\ Top(u).pc = "sweep"
    <3>1. PICK d \in Top(u).todo : /\ f.todo = Top(u).todo \ {d} /\ f.sock = Top(u).sock
                                   /\ calls' = [calls EXCEPT ![d] = NoCall]
      BY <2>6 DEF Becomes
    <3>2. c \in Top(u).todo
      BY <2>2, <2>6, <3>1, OldFrameComplete
    <3>3. c # d
      BY <3>1 DEF Involves, Known, Shape, TypeOK, CallsOK
    <3> QED
      BY <3>1, <3>2, <3>3
  <2> QED
    BY <2>3, <2>4, <2>5, <2>6 DEF Becomes
<1> QED
  BY <1>1, <1>2, <1>3, Elsewhere

-----------------------------------------------------------------------------
(* Who will find out that the caller of a call is gone *)

\* Frame f is a send to socket s, which will fail, or a close of s that has
\* yet to delete call c.
Owes(f, c, s) == f.sock = s /\ (f.pc = "sweep" => c \in f.todo)

OwedByFrame(c, s) == \E t \in Thread : \E i \in 1..Len(stack[t]) : Owes(stack[t][i], c, s)

\* A REGISTER handler of s at work on c, which it will delete or answer.
OwedByHandler(c, s) ==
  \E w \in Worker : /\ task[w].sock = s /\ task[w].msg.cid = c
                    /\ task[w].stage \in {"check", "recheck", "forget", "auth"}

Owed(c, s) == OwedByFrame(c, s) \/ OwedByHandler(c, s)

\* Socket s, the caller of call c, is closed and not registered.
Orphaned(c, s) ==
  Running /\ Known(c) /\ s = calls[c].caller /\ conn[s] = "down" /\ keyToVal[s] = NoUri

AllOwed == \A c \in CallId : \A s \in Sock : Orphaned(c, s) => Owed(c, s)

\* _cleanup_expired_reg drops the registration of a socket that is closed (1103).
ExpiresClosed == \E u \in Uri : RegistrationExpires(u) /\ conn[valToObj[u]] = "down"

\* register_request drops one (857), and then raises, as getpeername does.
WithdrawsClosed ==
  \E w \in Worker : RegisterVerified(w) /\ conn[task[w].sock] = "down" /\ LoggedIn(task[w].sock)

\* The frames below the top stay, unless the thread breaks off ...
LEMMA WorksKeeps ==
  ASSUME NEW t \in Thread, stack \in [Thread -> Seq(Frame)], Works(t), ~BreaksOff(t),
         NEW i \in 2..Len(stack[t])
  PROVE  \E j \in 1..Len(stack'[t]) : stack'[t][j] = stack[t][i]
<1> DEFINE fs == stack[t]
<1>1. /\ Len(fs) \in Nat /\ Len(Tail(fs)) = Len(fs) - 1 /\ Tail(fs) \in Seq(Frame)
      /\ i - 1 \in 1..Len(Tail(fs)) /\ Tail(fs)[i - 1] = fs[i]
  OBVIOUS
<1>2. CASE stack'[t] = Tail(fs)
  BY <1>1, <1>2
<1>3. ASSUME NEW g \in Frame, stack'[t] = <<g>> \o Tail(fs)
      PROVE  \E j \in 1..Len(stack'[t]) : stack'[t][j] = stack[t][i]
  <2>1. i \in 1..Len(stack'[t]) /\ stack'[t][i] = Tail(fs)[i - 1]
    BY <1>1, <1>3
  <2> QED
    BY <1>1, <2>1
<1>4. ASSUME NEW g \in Frame, NEW h \in Frame, stack'[t] = <<h, g>> \o Tail(fs)
      PROVE  \E j \in 1..Len(stack'[t]) : stack'[t][j] = stack[t][i]
  <2>1. i + 1 \in 1..Len(stack'[t]) /\ stack'[t][i + 1] = Tail(fs)[i - 1]
    BY <1>1, <1>4
  <2> QED
    BY <1>1, <2>1
<1> QED
  BY <1>2, <1>3, <1>4 DEF Works

\* ... and so does what is left to do of the top, unless it is done.
LEMMA WorksTop ==
  ASSUME NEW t \in Thread, stack \in [Thread -> Seq(Frame)], stack[t] # <<>>, Works(t),
         ~BreaksOff(t), ~SendSucceeds(t), ~CloseSocket(t)
  PROVE  \E j \in 1..Len(stack'[t]) : Becomes(t, stack'[t][j])
<1>1. Tail(stack[t]) \in Seq(Frame)
  OBVIOUS
<1>2. ASSUME NEW g \in Frame, Becomes(t, g), stack'[t] = <<g>> \o Tail(stack[t])
      PROVE  \E j \in 1..Len(stack'[t]) : Becomes(t, stack'[t][j])
  <2>1. 1 \in 1..Len(stack'[t]) /\ stack'[t][1] = g
    BY <1>1, <1>2
  <2> QED
    BY <1>2, <2>1
<1>3. ASSUME NEW g \in Frame, NEW h \in Frame, Becomes(t, g),
             stack'[t] = <<h, g>> \o Tail(stack[t])
      PROVE  \E j \in 1..Len(stack'[t]) : Becomes(t, stack'[t][j])
  <2>1. 2 \in 1..Len(stack'[t]) /\ stack'[t][2] = g
    BY <1>1, <1>3
  <2> QED
    BY <1>3, <2>1
<1> QED
  BY <1>2, <1>3 DEF Works

LEMMA FrameStillOwes ==
  ASSUME Shape, Locked, LoopIdle, [Next]_vars, \A t \in Thread : ~BreaksOff(t),
         NEW c \in CallId, NEW s, Known(c), calls'[c] # NoCall, calls[c].caller = s,
         conn[s] = "down", OwedByFrame(c, s)
  PROVE  OwedByFrame(c, s)'
<1> USE DEF Shape, TypeOK, StackOK
<1>0. PICK u \in Thread : \E i \in 1..Len(stack[u]) : Owes(stack[u][i], c, s)
  BY DEF OwedByFrame
<1>1. PICK i \in 1..Len(stack[u]) : Owes(stack[u][i], c, s)
  BY <1>0
<1>2. SUFFICES \E j \in 1..Len(stack'[u]) : Owes(stack'[u][j], c, s)
  BY DEF OwedByFrame, Owes
<1>3. CASE ~SendOrClose(u)
  <2>1. stack'[u] = stack[u]
    BY <1>1, <1>3, Elsewhere
  <2> QED
    BY <1>1, <2>1
<1>4. CASE SendOrClose(u) /\ i # 1
  <2>1. Works(u) /\ i \in 2..Len(stack[u])
    BY <1>4, SendOrCloseWorks
  <2> QED
    BY <1>1, <2>1, WorksKeeps
<1>5. CASE SendOrClose(u) /\ i = 1
  <2>1. Works(u) /\ stack[u] # <<>> /\ Owes(Top(u), c, s)
    BY <1>1, <1>5, SendOrCloseWorks DEF Top
  <2>2. ~SendSucceeds(u) /\ ~CloseSocket(u)
    BY <2>1 DEF SendSucceeds, CloseSocket, At, Owes
  <2>3. PICK j \in 1..Len(stack'[u]) : Becomes(u, stack'[u][j])
    BY <2>1, <2>2, WorksTop
  <2>4. PICK g : g = stack'[u][j]
    OBVIOUS
  <2>5. Becomes(u, g)
    BY <2>3, <2>4
  <2>6. Owes(g, c, s)
    <3>1. g.sock = s
      BY <2>1, <2>5 DEF Becomes, Owes
    <3>2. CASE g.pc # "sweep"
      BY <3>1, <3>2 DEF Owes
    <3>3. CASE g.pc = "sweep" /\ Top(u).pc = "calls"
      <4>1. g.todo = {d \in CallId : Involves(d, s)}
        BY <2>1, <2>5, <3>3 DEF Becomes, Owes
      <4> QED
        BY <3>1, <4>1 DEF Involves, Owes
    <3>4. CASE g.pc = "sweep" /\ Top(u).pc = "sweep"
      <4>1. PICK d \in Top(u).todo : /\ g.todo = Top(u).todo \ {d}
                                     /\ calls' = [calls EXCEPT ![d] = NoCall]
        BY <2>5, <3>4 DEF Becomes
      <4>2. c # d /\ c \in Top(u).todo
        BY <2>1, <3>4, <4>1 DEF CallsOK, Owes
      <4> QED
        BY <3>1, <4>1, <4>2 DEF Owes
    <3> QED
      BY <2>5, <3>2, <3>3, <3>4 DEF Becomes
  <2> QED
    BY <2>4, <2>6
<1> QED
  BY <1>3, <1>4, <1>5

\* A handler that ends with an answer owes it to its client.
LEMMA AnswerOwes ==
  ASSUME Shape, NEW w \in Worker, NEW what, NEW ls, Answer(w, what, ls), NEW c,
         NEW s, task[w].sock = s
  PROVE  OwedByFrame(c, s)'
<1> DEFINE f == Send(s, Reply(task[w].msg, what))
<1>1. stack'[w] = <<f>> /\ w \in Thread
  BY DEF Answer, Leave, Shape, TypeOK, StackOK, Thread
<1>2. Owes(f, c, s)
  BY DEF Owes, Send
<1> HIDE DEF f
<1>3. 1 \in 1..Len(stack'[w]) /\ stack'[w][1] = f
  BY <1>1
<1> QED
  BY <1>1, <1>2, <1>3 DEF OwedByFrame, Owes

LEMMA HandlerStillOwes ==
  ASSUME Shape, Locked, [Next]_vars, \A t \in Thread : ~BreaksOff(t),
         NEW c \in CallId, NEW s, calls'[c] # NoCall, keyToVal[s] = NoUri, OwedByHandler(c, s)
  PROVE  Owed(c, s)'
<1> USE DEF Shape, TypeOK, StackOK, TaskOK
<1> DEFINE working == {"check", "recheck", "forget", "auth"}
<1>0. Worker \subseteq Thread /\ Worker \cap ({"main"} \cup Daemon) = {}
  BY ConstantsAssumption DEF Thread
<1>1. PICK w \in Worker : task[w].sock = s /\ task[w].msg.cid = c /\ task[w].stage \in working
  BY DEF OwedByHandler
<1>2. CASE task'[w] = task[w]
  BY <1>1, <1>2 DEF Owed, OwedByHandler
<1>3. CASE Handle(w)
  <2>1. ASSUME NEW stage \in working, NEW fs, NEW ls, Leave(w, stage, fs, ls)
        PROVE  OwedByHandler(c, s)'
    <3>1. task' = [task EXCEPT ![w].stage = stage]
      BY <2>1 DEF Leave
    <3>2. task'[w].sock = s /\ task'[w].msg.cid = c /\ task'[w].stage = stage
      BY <1>1, <3>1 DEF Task
    <3> QED
      BY <3>2 DEF OwedByHandler
  <2>2. CASE RegisterChecks(w)
    <3>1. ~LoggedIn(s)
      BY DEF LoggedIn
    <3> QED
      BY <1>1, <2>1, <2>2, <3>1 DEF RegisterChecks, Owed
  <2>3. CASE RegisterRechecks(w)
    BY <2>1, <2>3 DEF RegisterRechecks, Owed
  <2>4. CASE RegisterChallenged(w) \/ RegisterUnverified(w)
    <3>1. \E what, ls : Answer(w, what, ls)
      BY <2>4 DEF RegisterChallenged, RegisterUnverified
    <3> QED
      BY <1>1, <3>1, AnswerOwes DEF Owed
  <2>5. CASE WaitsForReg(w)
    <3>1. task' = task
      BY <2>5 DEF WaitsForReg
    <3> QED
      BY <1>2, <3>1
  <2>6. ~RegisterForgets(w) /\ ~RegisterVerified(w)
    BY <1>1 DEF RegisterForgets, RegisterVerified, CallsOK
  <2> QED
    BY <1>1, <1>3, <2>2, <2>3, <2>4, <2>5, <2>6
    DEF Handle, Runs, Invalid, BumpCSeq, Unhandled, RegisterRefused, RegisterOpens,
        InviteRuns, InviteRefused, InviteMismatch, InviteCalleeAway, InviteStopped,
        InviteTried, NoSuchCall, RequestMismatch, Ack, Bye, ResponseLookedUp,
        KeepAliveAnswered, ResponseRuns, ResponseMoves, ResponseEnds, ResponseDropped,
        ResponseToRegister
<1>4. ASSUME NEW v \in Worker, v # w, Handle(v)
      PROVE  task'[w] = task[w]
  BY <1>4, HandleTask
<1>5. ASSUME NEW t \in Thread, SendOrClose(t)
      PROVE  task'[w] = task[w]
  <2>1. ASSUME NEW gs, NEW ls, GoOn(t, gs, ls)
        PROVE  task'[w] = task[w]
    <3>1. t = w => ~Returns(t)
      BY <1>0, <1>1 DEF Returns
    <3> QED
      BY <2>1, <3>1 DEF GoOn
  <2>2. CASE \E gs, ls : GoOn(t, gs, ls)
    BY <2>1, <2>2
  <2>3. CASE ~\E gs, ls : GoOn(t, gs, ls)
    <3>1. CloseLosesCall(t) \/ (CloseOneCall(t) /\ Raise(t))
      BY <1>5, <2>3
      DEF SendOrClose, SendSucceeds, SendFails, CloseConn, CloseReg, CloseCalls,
          CloseOneCall, CloseSocket, Turn, Pop
    <3>2. Raise(t) => stack'[t] = <<>>
      BY DEF Raise
    <3> QED
      BY <3>1, <3>2 DEF BreaksOff
  <2> QED
    BY <2>2, <2>3
<1>6. ASSUME NEW v \in Worker, Receive(v)
      PROVE  task'[w] = task[w]
  BY <1>1, <1>6 DEF Receive, IdleTask
<1>7. CASE Others /\ ~(\E v \in Worker : Receive(v))
  <2>1. task' = task
    BY <1>0, <1>7
    DEF Others, MainLoop, Accept, Handshake, Select, Hangup, Shutdown,
        KeepAliveThread, ProbeStarts, ProbeEnds, ProbeEvicts, ProbeSends, ProbeTurns,
        ProbePurges, CleanupThread, IdleCallFound, IdleCallRemoved, IdleCallRemovedTwice,
        Raise, RegistrationExpires, Vanish, threadVars, vars, Daemon
  <2> QED
    BY <1>2, <2>1
<1> QED
  BY <1>2, <1>3, <1>4, <1>5, <1>6, <1>7 DEF Next, Others

\* Whoever opens a call has an answer to its caller to send, or a stage of
\* register_request to go through.
LEMMA OpenedOwed ==
  ASSUME Shape, [Next]_vars, NEW c \in CallId, ~Known(c), calls'[c] # NoCall,
         NEW s, calls'[c].caller = s
  PROVE  Owed(c, s)'
<1> USE DEF Shape, TypeOK, StackOK, TaskOK
<1>1. PICK w \in Worker : \/ RegisterOpens(w) \/ InviteCalleeAway(w) \/ InviteStopped(w)
                          \/ InviteTried(w)
  <2>1. calls'[c] # calls[c]
    BY DEF Known
  <2>2. ASSUME NEW w \in Worker, Handle(w)
        PROVE  RegisterOpens(w) \/ InviteCalleeAway(w) \/ InviteStopped(w) \/ InviteTried(w)
    <3>1. CASE \/ BumpCSeq(w) \/ RegisterForgets(w) \/ RegisterVerified(w) \/ Ack(w)
               \/ Bye(w) \/ ResponseMoves(w) \/ ResponseEnds(w)
      <4>1. \E new : /\ calls' = [calls EXCEPT ![task[w].msg.cid] = new]
                     /\ new = NoCall \/ Known(task[w].msg.cid)
        BY <2>1, <3>1 DEF BumpCSeq, RegisterForgets, RegisterVerified, Ack, Bye,
                          ResponseMoves, ResponseEnds
      <4> QED
        BY <4>1 DEF CallsOK, Known
    <3>2. CASE ~\/ BumpCSeq(w) \/ RegisterForgets(w) \/ RegisterVerified(w) \/ Ack(w)
                \/ Bye(w) \/ ResponseMoves(w) \/ ResponseEnds(w)
      BY <2>1, <2>2, <3>2
      DEF Handle, Invalid, Unhandled, RegisterRefused, RegisterChecks, RegisterRechecks,
          RegisterChallenged, RegisterUnverified, InviteRefused, InviteMismatch, NoSuchCall,
          RequestMismatch, ResponseLookedUp, KeepAliveAnswered, ResponseDropped,
          ResponseToRegister, WaitsForReg, callVars
    <3> QED
      BY <3>1, <3>2
  <2>3. ASSUME NEW t \in Thread, SendOrClose(t)
        PROVE  calls'[c] = calls[c] \/ calls'[c] = NoCall
    BY <2>3 DEF SendOrClose, SendSucceeds, SendFails, CloseConn, CloseReg, CloseCalls,
                CloseOneCall, CloseLosesCall, CloseSocket, callVars, CallsOK
  <2>4. CASE Others
    <3>1. calls'[c] = calls[c] \/ calls'[c] = NoCall
      BY <2>4 DEF Others, MainLoop, Accept, Handshake, Select, Receive, Hangup, Shutdown,
                KeepAliveThread, ProbeStarts, ProbeEvicts, ProbeTurns, ProbeSends, ProbeEnds,
                ProbePurges, CleanupThread, IdleCallFound, IdleCallRemoved,
                IdleCallRemovedTwice, RegistrationExpires, Vanish, callVars, vars, CallsOK
    <3> QED
      BY <2>1, <3>1
  <2> QED
    BY <2>1, <2>2, <2>3, <2>4 DEF Next, Others
<1> DEFINE m == task[w].msg
           from == task[w].sock
<1>2. /\ m \in ClientMsg /\ m.cid \in CallId /\ from \in Sock /\ stack[w] = <<>> /\ w \in Thread
      /\ task[w].stage = "start" /\ m.from \in Uri
  <2>1. \E kinds \in {{"REGISTER"}, {"INVITE"}} : Runs(w, "start", kinds)
    BY <1>1 DEF RegisterOpens, InviteRuns, InviteCalleeAway, InviteStopped, InviteTried
  <2> QED
    BY <2>1, RunsTyped DEF Runs, Stage, RequestKind, ClientMsg, Thread
<1>3. CASE RegisterOpens(w)
  <2> DEFINE new == CallOf(m, from, "REGISTER", m.from)
  <2>1. /\ calls' = [calls EXCEPT ![m.cid] = new] /\ Leave(w, "check", <<>>, {})
        /\ Known(m.cid) => NextOfCaller(m, from, "REGISTER", m.from)
    BY <1>3 DEF RegisterOpens, Known
  <2>2. new.caller = from
    BY <1>2, <2>1, CallOfTyped
  <2>3. c = m.cid /\ calls'[c] = new
    <3> HIDE DEF new
    <3> QED
      BY <1>2, <2>1 DEF CallsOK, Known
  <2>4. task'[w].sock = from /\ task'[w].msg = m /\ task'[w].stage = "check"
    BY <2>1 DEF Leave, Task
  <2> HIDE DEF new
  <2>5. OwedByHandler(c, s)'
    BY <2>2, <2>3, <2>4 DEF OwedByHandler
  <2> QED
    BY <2>5 DEF Owed
<1>4. CASE InviteCalleeAway(w) \/ InviteStopped(w) \/ InviteTried(w)
  <2> DEFINE opened == CallOf(m, from, "INVITE", m.to)
  <2>1. opened \in Call /\ opened.caller = from
    BY <1>4, InviteRunsTyped DEF InviteCalleeAway, InviteStopped, InviteTried
  <2>2. \E callee, state :
          calls' = [calls EXCEPT ![m.cid] = [opened EXCEPT !.callee = callee, !.state = state]]
    <3>1. opened = [opened EXCEPT !.callee = opened.callee, !.state = opened.state]
      <4> HIDE DEF opened
      <4> QED
        BY <2>1 DEF Call
    <3>2. \A callee : [opened EXCEPT !.callee = callee]
                        = [opened EXCEPT !.callee = callee, !.state = opened.state]
      <4> HIDE DEF opened
      <4> QED
        BY <2>1 DEF Call
    <3>3. CASE InviteCalleeAway(w)
      <4>1. calls' = [calls EXCEPT ![m.cid] = opened]
        BY <3>3 DEF InviteCalleeAway
      <4> HIDE DEF opened
      <4> QED
        BY <3>1, <4>1
    <3>4. CASE InviteStopped(w)
      <4>1. calls' = [calls EXCEPT ![m.cid] = [opened EXCEPT !.callee = valToObj[m.to]]]
        BY <3>4 DEF InviteStopped
      <4> HIDE DEF opened
      <4> QED
        BY <3>2, <4>1
    <3>5. CASE InviteTried(w)
      <4>1. calls' = [calls EXCEPT ![m.cid] = [opened EXCEPT !.callee = valToObj[m.to],
                                                             !.state = "TRYING"]]
        BY <3>5 DEF InviteTried
      <4> HIDE DEF opened
      <4> QED
        BY <4>1
    <3> QED
      BY <1>4, <3>3, <3>4, <3>5
  <2> HIDE DEF opened
  <2>3. c = m.cid /\ from = s
    <3>1. PICK callee, state :
            calls' = [calls EXCEPT ![m.cid] = [opened EXCEPT !.callee = callee, !.state = state]]
      BY <2>2
    <3>2. c = m.cid
      BY <1>2, <3>1 DEF CallsOK, Known
    <3>3. calls'[c] = [opened EXCEPT !.callee = callee, !.state = state]
      BY <3>1, <3>2 DEF CallsOK
    <3> QED
      BY <2>1, <3>2, <3>3 DEF Call
  <2>4. OwedByFrame(c, s)'
    <3>1. CASE InviteCalleeAway(w) \/ InviteStopped(w)
      <4>1. \E what, ls : Answer(w, what, ls)
        BY <3>1 DEF InviteCalleeAway, InviteStopped
      <4> QED
        BY <2>3, <4>1, AnswerOwes
    <3>2. CASE InviteTried(w)
      <4> DEFINE call == [opened EXCEPT !.callee = valToObj[m.to], !.state = "TRYING"]
                 relayed == <<Send(valToObj[m.to], Relay(m)), Send(call.caller, Reply(m, "TRYING"))>>
                 rejected == <<Send(from, Reply(m, "BAD_REQUEST"))>>
      <4>1. stack'[w] = Objection(w) \o (IF m.body THEN relayed ELSE rejected)
        BY <1>2, <3>2 DEF InviteTried, Leave, opened
      <4>2. call.caller = s
        BY <2>1, <2>3 DEF Call
      <4>3. valToObj[m.to] \in Sock
        BY <3>2, InviteRunsTyped DEF InviteTried
      <4> HIDE DEF call
      <4>4. Objection(w) \in Seq(Frame) /\ relayed \in Seq(Frame) /\ rejected \in Seq(Frame)
        <5>1. /\ Relay(m) \in ServerMsg
              /\ \A what \in {"TRYING", "BAD_REQUEST", "UNAUTHORIZED"} :
                   Reply(m, what) \in ServerMsg
          BY <1>2, RelayTyped, ReplyTyped DEF ServerKind
        <5>2. /\ Send(valToObj[m.to], Relay(m)) \in Frame
              /\ \A what \in {"TRYING", "BAD_REQUEST", "UNAUTHORIZED"} :
                   Send(from, Reply(m, what)) \in Frame
          BY <1>2, <4>3, <5>1, SendTyped
        <5>3. <<Send(valToObj[m.to], Relay(m)), Send(from, Reply(m, "TRYING"))>> \in Seq(Frame)
          BY <5>2, TwoFrames
        <5>4. \A what \in {"BAD_REQUEST", "UNAUTHORIZED"} :
                <<Send(from, Reply(m, what))>> \in Seq(Frame)
          BY <5>2, OneFrame
        <5> QED
          BY <2>3, <4>2, <5>3, <5>4 DEF Objection
      <4>5. /\ Len(relayed) = 2 /\ Owes(relayed[2], c, s)
            /\ Len(rejected) = 1 /\ Owes(rejected[1], c, s)
        BY <2>3, <4>2 DEF Owes, Send
      <4> HIDE DEF relayed, rejected
      <4>6. ASSUME NEW fs \in Seq(Frame), NEW gs \in Seq(Frame), stack'[w] = fs \o gs,
                   NEW j \in 1..Len(gs), Owes(gs[j], c, s)
            PROVE  OwedByFrame(c, s)'
        <5>1. Len(fs) + j \in 1..Len(stack'[w]) /\ stack'[w][Len(fs) + j] = gs[j]
          BY <4>6
        <5> QED
          BY <1>2, <4>6, <5>1 DEF OwedByFrame, Owes
      <4>7. CASE m.body
        <5>1. stack'[w] = Objection(w) \o relayed /\ 2 \in 1..Len(relayed)
          BY <4>1, <4>5, <4>7
        <5> QED
          BY <4>4, <4>5, <4>6, <5>1
      <4>8. CASE ~m.body
        <5>1. stack'[w] = Objection(w) \o rejected /\ 1 \in 1..Len(rejected)
          BY <4>1, <4>5, <4>8
        <5> QED
          BY <4>4, <4>5, <4>6, <5>1
      <4> QED
        BY <4>7, <4>8
    <3> QED
      BY <1>4, <3>1, <3>2
  <2> QED
    BY <2>3, <2>4 DEF Owed
<1> QED
  BY <1>1, <1>3, <1>4

\* A socket is closed by a close, or by the server as it ends.
LEMMA ClosedSteps ==
  ASSUME Shape, [Next]_vars, NEW s \in Sock, conn[s] # "down", conn'[s] = "down",
         main'.pc # "stopped"
  PROVE  \E t \in Thread : CloseSocket(t) /\ Top(t).sock = s
<1> USE DEF Shape, TypeOK, NetOK
<1>1. ASSUME NEW t \in Thread, SendOrClose(t)
      PROVE  CloseSocket(t) /\ Top(t).sock = s
  BY <1>1 DEF SendOrClose, SendSucceeds, SendFails, CloseConn, CloseReg, CloseCalls,
              CloseOneCall, CloseLosesCall, CloseSocket, netVars
<1>2. ASSUME NEW w \in Worker, Handle(w)
      PROVE  conn' = conn
  BY <1>2, HandleLeaves DEF HandlerStep, Leaves, netVars
<1>3. CASE Others
  BY <1>3 DEF Others, MainLoop, Accept, Handshake, Select, Receive, Hangup, Shutdown,
            KeepAliveThread, ProbeStarts, ProbeEvicts, ProbeTurns, ProbeSends, ProbeEnds,
            ProbePurges, CleanupThread, IdleCallFound, IdleCallRemoved,
            IdleCallRemovedTwice, RegistrationExpires, Vanish, netVars, vars
<1> QED
  BY <1>1, <1>2, <1>3 DEF Next, Others

\* A socket stops being registered in three ways.
LEMMA UnregisteredSteps ==
  ASSUME Shape, [Next]_vars, NEW s \in Sock, keyToVal[s] # NoUri, keyToVal'[s] = NoUri
  PROVE  \/ \E t \in Thread : CloseReg(t) /\ Top(t).sock = s
         \/ \E u \in Uri : RegistrationExpires(u) /\ valToObj[u] = s
         \/ \E w \in Worker : /\ RegisterVerified(w) /\ task[w].sock = s
                              /\ LoggedIn(s) /\ conn[s] = "down"
<1> USE DEF Shape, TypeOK, RegOK
<1>1. ASSUME NEW w \in Worker, Handle(w)
      PROVE  RegisterVerified(w) /\ task[w].sock = s /\ LoggedIn(s) /\ conn[s] = "down"
  <2>1. CASE RegisterChecks(w) \/ RegisterVerified(w)
    <3>1. task[w].sock \in Sock /\ task[w].msg.from \in Uri
      <4>1. \E stage \in Stage \ {"idle"} : Runs(w, stage, {"REGISTER"})
        BY <2>1 DEF RegisterChecks, RegisterVerified, Stage
      <4> QED
        BY <4>1, RunsTyped DEF ClientMsg
    <3> QED
      BY <2>1, <3>1, ConstantsAssumption
      DEF RegisterChecks, RegisterVerified, Add, Replace, RemoveByKey, regVars
  <2>2. CASE ~(RegisterChecks(w) \/ RegisterVerified(w))
    BY <1>1, <2>2
    DEF Handle, Invalid, BumpCSeq, Unhandled, RegisterRefused, RegisterOpens,
        RegisterRechecks, RegisterForgets, RegisterChallenged, RegisterUnverified,
        InviteRefused, InviteMismatch, InviteCalleeAway, InviteStopped, InviteTried,
        NoSuchCall, RequestMismatch, Ack, Bye, ResponseLookedUp, KeepAliveAnswered,
        ResponseMoves, ResponseEnds, ResponseDropped, ResponseToRegister, WaitsForReg,
        regVars
  <2> QED
    BY <2>1, <2>2
<1>2. ASSUME NEW t \in Thread, SendOrClose(t)
      PROVE  CloseReg(t) /\ Top(t).sock = s
  BY <1>2 DEF SendOrClose, SendSucceeds, SendFails, CloseConn, CloseReg, CloseCalls,
              CloseOneCall, CloseLosesCall, CloseSocket, RemoveByKey, regVars
<1>3. ASSUME NEW u \in Uri, RegistrationExpires(u)
      PROVE  valToObj[u] = s
  BY <1>3 DEF RegistrationExpires, RemoveByVal
<1>4. CASE MainLoop \/ KeepAliveThread \/ CleanupThread \/ (\E r \in Sock : Vanish(r))
           \/ UNCHANGED vars
  BY <1>4
  DEF MainLoop, Accept, Handshake, Select, Receive, Hangup, Shutdown,
      KeepAliveThread, ProbeStarts, ProbeEvicts, ProbeTurns, ProbeSends, ProbeEnds,
      ProbePurges, CleanupThread, IdleCallFound, IdleCallRemoved, IdleCallRemovedTwice,
      Vanish, vars, regVars
<1> QED
  BY <1>1, <1>2, <1>3, <1>4 DEF Next

\* The server does not start again.
LEMMA RunningStays ==
  ASSUME Shape, LoopIdle, [Next]_vars, Running'
  PROVE  Running
<1> SUFFICES ASSUME main.pc = "stopped" PROVE main' = main
  BY DEF Running
<1>0. stack["main"] = <<>> /\ "main" \notin Worker /\ "main" \notin Daemon
  BY ConstantsAssumption DEF LoopIdle, Daemon
<1>1. ASSUME NEW w \in Worker, Handle(w)
      PROVE  main' = main
  BY <1>1, HandleLeaves DEF HandlerStep, Leaves
<1>2. ASSUME NEW t \in Thread, SendOrClose(t)
      PROVE  main' = main
  <2>1. t # "main"
    BY <1>0, <1>2 DEF SendOrClose, SendSucceeds, SendFails, CloseConn, CloseReg, CloseCalls,
                      CloseOneCall, CloseLosesCall, CloseSocket, At
  <2>2. (\E gs, ls : GoOn(t, gs, ls)) \/ Raise(t)
    BY <1>2 DEF SendOrClose, SendSucceeds, SendFails, CloseConn, CloseReg, CloseCalls,
                CloseOneCall, CloseLosesCall, CloseSocket, Turn, Pop
  <2> QED
    BY <2>1, <2>2 DEF GoOn, Raise
<1>3. CASE Others
  BY <1>0, <1>3
  DEF Others, MainLoop, Accept, Handshake, Select, Receive, Hangup, Shutdown,
      KeepAliveThread, ProbeStarts, ProbeEnds, ProbeEvicts, ProbeSends, ProbeTurns,
      ProbePurges, CleanupThread, IdleCallFound, IdleCallRemoved, IdleCallRemovedTwice,
      Raise, RegistrationExpires, Vanish, threadVars, vars, Daemon
<1> QED
  BY <1>1, <1>2, <1>3 DEF Next, Others

LEMMA AllOwedStep ==
  ASSUME Shape, Shape', Locked, LoopIdle, Complete, AllOwed, [Next]_vars,
         ~ExpiresClosed, ~WithdrawsClosed, \A t \in Thread : ~BreaksOff(t)
  PROVE  AllOwed'
<1> USE DEF Shape, TypeOK
<1> SUFFICES ASSUME NEW c \in CallId, NEW s \in Sock, Orphaned(c, s)'
             PROVE  Owed(c, s)'
  BY DEF AllOwed
<1>1. /\ Running' /\ calls'[c] # NoCall /\ s = calls'[c].caller
      /\ conn'[s] = "down" /\ keyToVal'[s] = NoUri
  BY DEF Orphaned, Known
<1>2. CASE ~Known(c)
  BY <1>1, <1>2, OpenedOwed
<1>3. CASE Known(c)
  <2>1. calls[c].caller = s
    <3>1. CallStep
      BY CallSteps
    <3> QED
      BY <1>1, <1>3, <3>1 DEF CallStep, Continues, CallsOK
  <2>2. conn[s] = "down"
    <3> SUFFICES ASSUME conn[s] # "down" PROVE FALSE
      OBVIOUS
    <3>1. PICK t \in Thread : CloseSocket(t) /\ Top(t).sock = s
      BY <1>1, ClosedSteps DEF Running
    <3>2. /\ stack[t] # <<>> /\ stack[t] \in Seq(Frame) /\ Top(t).pc = "sweep"
          /\ Top(t).todo = {}
      BY <3>1 DEF CloseSocket, At, StackOK
    <3>3. 1 \in 1..Len(stack[t]) /\ Top(t) = stack[t][1]
      BY <3>2 DEF Top
    <3> QED
      BY <1>3, <2>1, <3>1, <3>2, <3>3 DEF Complete, Involves
  <2>3. CASE keyToVal[s] = NoUri
    <3>1. Owed(c, s)
      <4>1. Running
        BY <1>1, RunningStays
      <4> QED
        BY <1>3, <2>1, <2>2, <2>3, <4>1 DEF AllOwed, Orphaned
    <3>2. CASE OwedByFrame(c, s)
      BY <1>1, <1>3, <2>1, <2>2, <3>2, FrameStillOwes DEF Owed
    <3>3. CASE OwedByHandler(c, s)
      BY <1>1, <2>3, <3>3, HandlerStillOwes
    <3> QED
      BY <3>1, <3>2, <3>3 DEF Owed
  <2>4. CASE keyToVal[s] # NoUri
    <3>1. PICK t \in Thread : CloseReg(t) /\ Top(t).sock = s
      BY <1>1, <2>2, <2>4, UnregisteredSteps DEF ExpiresClosed, WithdrawsClosed
    <3>2. Works(t) /\ stack[t] # <<>> /\ ~SendSucceeds(t) /\ ~CloseSocket(t)
      BY <3>1, SendOrCloseWorks DEF SendOrClose, CloseReg, SendSucceeds, CloseSocket, At
    <3>3. PICK j \in 1..Len(stack'[t]) : Becomes(t, stack'[t][j])
      BY <3>2, WorksTop DEF StackOK
    <3>4. Owes(stack'[t][j], c, s)
      BY <3>1, <3>3 DEF Becomes, CloseReg, At, Owes
    <3> QED
      BY <3>4 DEF Owed, OwedByFrame, Owes
  <2> QED
    BY <2>3, <2>4
<1> QED
  BY <1>2, <1>3

\* Unless a close breaks off, or a closed socket's registration expires or is
\* taken back for it, a closed and unregistered socket for which nobody works
\* is the caller of no call.
THEOREM ClosedCallersAreCleared ==
  Spec /\ [][/\ ~ExpiresClosed /\ ~WithdrawsClosed
             /\ \A t \in Thread : ~BreaksOff(t)]_vars => []ClosedCallerHasNoCalls
<1>1. Init => LoopIdle /\ Complete /\ AllOwed
  <2>1. Init => /\ \A t \in Thread : stack[t] = <<>>
                /\ \A c \in CallId : ~Known(c)
    BY DEF Init, Known
  <2>2. "main" \in Thread
    BY DEF Thread
  <2> QED
    BY <2>1, <2>2 DEF LoopIdle, Complete, AllOwed, Orphaned
<1>2. Shape /\ Locked /\ LoopIdle /\ Complete /\ [Next]_vars => LoopIdle' /\ Complete'
  BY LoopIdleStep, CompleteStep
<1>3. /\ Shape /\ Shape' /\ Locked /\ LoopIdle /\ Complete /\ AllOwed /\ [Next]_vars
      /\ [/\ ~ExpiresClosed /\ ~WithdrawsClosed /\ \A t \in Thread : ~BreaksOff(t)]_vars
      => AllOwed'
  <2>1. AllOwed /\ UNCHANGED vars => AllOwed'
    BY DEF AllOwed, Orphaned, Owed, OwedByFrame, OwedByHandler, Running, Known, vars,
           threadVars, callVars, netVars, regVars
  <2> QED
    BY <2>1, AllOwedStep
<1>4. Shape /\ AllOwed => ClosedCallerHasNoCalls
  <2> SUFFICES ASSUME Shape, AllOwed, NEW c \in CallId, Running, Known(c),
                      conn[calls[c].caller] = "down", keyToVal[calls[c].caller] = NoUri
               PROVE  Busy(calls[c].caller)
    BY DEF ClosedCallerHasNoCalls
  <2>1. calls[c].caller \in Sock
    BY KnownTyped DEF Shape, TypeOK, Call
  <2>2. Owed(c, calls[c].caller)
    BY <2>1 DEF AllOwed, Orphaned
  <2> QED
    BY <2>2 DEF Owed, OwedByFrame, OwedByHandler, Owes, Busy
<1> QED
  BY <1>1, <1>2, <1>3, <1>4, ShapeInvariant, LockedAlways, PTL DEF Spec
=============================================================================
