-------------------------- MODULE SipServerProofs --------------------------
(***************************************************************************)
(* Theorems about SIPServer, for any number of sockets, users, call ids    *)
(* and executor threads, any messages and any daemons.                     *)
(*                                                                         *)
(* First TypeOK and CallShape, proved together: ack_request, bye_request   *)
(* and process_response send to the callee without a test for None, so     *)
(* their frames are well typed because of CallShape.  The lemmas say what  *)
(* the operators that the actions are made of preserve; the actions of one *)
(* handler are then taken together.                                        *)
(*                                                                         *)
(* Then what the server does to its registrations and its calls: RegSteps  *)
(* and CallSteps read all actions once and say how a step of any thread    *)
(* may change the two; the other theorems follow from these.               *)
(***************************************************************************)
EXTENDS SipServerProps, SequenceTheorems, TLAPS

Shape == TypeOK /\ CallShape

-----------------------------------------------------------------------------
(* Messages and frames *)

\* A reply and a relayed message of a client are messages of the server.
LEMMA ReplyTyped ==
  ASSUME NEW m \in ClientMsg, NEW what \in ServerKind
  PROVE  Reply(m, what) \in ServerMsg
  BY ConstantsAssumption DEF Reply, ServerMsg, ClientMsg

LEMMA RelayTyped ==
  ASSUME NEW m \in ClientMsg
  PROVE  Relay(m) \in ServerMsg
  BY DEF Relay, ServerMsg, ClientMsg

LEMMA SendTyped ==
  ASSUME NEW s \in Sock, NEW m \in ServerMsg
  PROVE  Send(s, m) \in Frame
  BY DEF Send, Frame

LEMMA CloseTyped ==
  ASSUME NEW s \in Sock
  PROVE  Close(s) \in Frame
  BY DEF Close, Frame

\* One frame and two are a stack; so is a frame on top of a stack.
LEMMA OneFrame ==
  ASSUME NEW f \in Frame
  PROVE  <<f>> \in Seq(Frame)
  OBVIOUS

LEMMA TwoFrames ==
  ASSUME NEW f \in Frame, NEW g \in Frame
  PROVE  <<f, g>> \in Seq(Frame)
  OBVIOUS

\* The message of a thread at work comes from the menu of its client: a
\* request never carries the call id of a probe.
LEMMA WorkTyped ==
  ASSUME TaskOK, NEW w \in Worker, task[w].stage # "idle"
  PROVE  /\ task[w].sock \in Sock
         /\ task[w].msg \in ClientMsg
         /\ task[w].msg.what \in RequestKind => task[w].msg.cid \in CallId
         /\ task[w].msg.cid # KeepAliveId => task[w].msg.cid \in CallId
<1>1. task[w].sock \in Sock /\ task[w].msg \in Menu[task[w].sock]
  BY DEF TaskOK
<1>2. task[w].msg \in ClientMsg
  BY <1>1, MenuAssumption
<1>3. task[w].msg.cid = KeepAliveId => task[w].msg.what \in ResponseKind
  BY <1>1, MenuAssumption
<1>4. RequestKind \cap ResponseKind = {}
  BY DEF RequestKind, ResponseKind
<1> QED
  BY <1>1, <1>2, <1>3, <1>4 DEF ClientMsg

LEMMA RunsTyped ==
  ASSUME TaskOK, NEW w \in Worker, NEW stage \in Stage \ {"idle"}, NEW kinds,
         Runs(w, stage, kinds)
  PROVE  /\ task[w].stage = stage
         /\ task[w].sock \in Sock
         /\ task[w].msg \in ClientMsg
         /\ task[w].msg.what \in kinds
         /\ task[w].msg.what \in RequestKind => task[w].msg.cid \in CallId
         /\ task[w].msg.cid # KeepAliveId => task[w].msg.cid \in CallId
  BY WorkTyped DEF Runs

-----------------------------------------------------------------------------
(* What the steps of a thread preserve *)

\* A handler that leaves for another stage, or ends.
LEMMA LeaveTyped ==
  ASSUME TypeOK, NEW w \in Worker, task[w].stage # "idle",
         NEW stage \in Stage, NEW fs \in Seq(Frame), NEW ls \in SUBSET Lock,
         Leave(w, stage, fs, ls)
  PROVE  (NetOK /\ TaskOK /\ StackOK /\ LoopOK /\ ProberOK /\ CleanerOK /\ SentOK)'
<1> USE DEF TypeOK, Leave
<1>1. TaskOK'
  <2>1. CASE stage = "done" /\ fs = <<>>
    BY <2>1 DEF TaskOK, IdleTask, Task, Stage
  <2>2. CASE ~(stage = "done" /\ fs = <<>>)
    BY <2>2 DEF TaskOK, Task
  <2> QED
    BY <2>1, <2>2
<1>2. StackOK'
  BY DEF StackOK, Thread
<1>3. (NetOK /\ LoopOK /\ ProberOK /\ CleanerOK)'
  BY DEF NetOK, netVars, LoopOK, ProberOK, CleanerOK
<1>4. SentOK'
  BY DEF SentOK, Quiet
<1> QED
  BY <1>1, <1>2, <1>3, <1>4

LEMMA AnswerTyped ==
  ASSUME TypeOK, NEW w \in Worker, task[w].stage # "idle",
         NEW what \in ServerKind, NEW ls \in SUBSET Lock,
         Answer(w, what, ls)
  PROVE  (NetOK /\ TaskOK /\ StackOK /\ LoopOK /\ ProberOK /\ CleanerOK /\ SentOK)'
<1>1. task[w].sock \in Sock /\ task[w].msg \in ClientMsg
  BY WorkTyped DEF TypeOK
<1>2. <<Send(task[w].sock, Reply(task[w].msg, what))>> \in Seq(Frame)
  BY <1>1, ReplyTyped, SendTyped, OneFrame
<1> QED
  BY <1>2, LeaveTyped DEF Answer, Stage

LEMMA DropTyped ==
  ASSUME TypeOK, NEW w \in Worker, task[w].stage # "idle", Drop(w)
  PROVE  (NetOK /\ TaskOK /\ StackOK /\ LoopOK /\ ProberOK /\ CleanerOK /\ SentOK)'
<1>1. <<>> \in Seq(Frame) /\ {} \in SUBSET Lock
  OBVIOUS
<1> QED
  BY <1>1, LeaveTyped DEF Drop, Stage

\* A thread that goes on with other frames.
LEMMA GoOnTyped ==
  ASSUME TaskOK, StackOK, LoopOK, NEW t \in Thread,
         NEW fs \in Seq(Frame), NEW ls \in SUBSET Lock, GoOn(t, fs, ls)
  PROVE  (TaskOK /\ StackOK /\ LoopOK)'
<1> DEFINE over == fs = <<>> /\ Returns(t)
<1>1. /\ stack' = [stack EXCEPT ![t] = fs]
      /\ holds' = [holds EXCEPT ![t] = IF over THEN {} ELSE ls]
      /\ task' = IF over /\ t \in Worker THEN [task EXCEPT ![t] = IdleTask] ELSE task
      /\ main' = IF over /\ t = "main" THEN IdleMain ELSE main
  BY DEF GoOn
<1> HIDE DEF over
<1>2. TaskOK'
  BY <1>1 DEF TaskOK, IdleTask, Task, Stage
<1>3. StackOK'
  BY <1>1 DEF StackOK
<1>4. LoopOK'
  BY <1>1 DEF LoopOK, IdleMain
<1> QED
  BY <1>2, <1>3, <1>4

\* The frame on top, and the frames below it.
LEMMA TopTyped ==
  ASSUME StackOK, NEW t \in Thread, stack[t] # <<>>
  PROVE  /\ Top(t) \in Frame
         /\ Tail(stack[t]) \in Seq(Frame)
         /\ holds[t] \in SUBSET Lock
  BY HeadTailProperties DEF StackOK, Top

LEMMA TurnTyped ==
  ASSUME TaskOK, StackOK, LoopOK, NEW t \in Thread, stack[t] # <<>>,
         NEW f \in Frame, Turn(t, f)
  PROVE  (TaskOK /\ StackOK /\ LoopOK)'
<1>1. <<f>> \o Tail(stack[t]) \in Seq(Frame) /\ holds[t] \in SUBSET Lock
  BY TopTyped, OneFrame, ConcatProperties
<1> QED
  BY <1>1, GoOnTyped DEF Turn

\* An exception.
LEMMA RaiseTyped ==
  ASSUME TaskOK, StackOK, LoopOK, ProberOK, CleanerOK, NEW t \in Thread, Raise(t)
  PROVE  (TaskOK /\ StackOK /\ LoopOK /\ ProberOK /\ CleanerOK)'
<1> USE DEF Raise
<1>1. TaskOK'
  BY DEF TaskOK, IdleTask, Task, Stage
<1>2. StackOK'
  BY DEF StackOK
<1>3. LoopOK'
  BY DEF LoopOK
<1>4. ProberOK' /\ CleanerOK'
  BY DEF ProberOK, CleanerOK
<1> QED
  BY <1>1, <1>2, <1>3, <1>4

-----------------------------------------------------------------------------
(* What changes of registered_user and active_calls preserve *)

LEMMA RemoveByKeyTyped ==
  ASSUME RegOK, NEW s \in Sock, RemoveByKey(s)
  PROVE  RegOK'
  BY DEF RegOK, RemoveByKey, WithoutKey

LEMMA AddTyped ==
  ASSUME RegOK, NEW s \in Sock, NEW u \in Uri, Add(s, u)
  PROVE  RegOK'
  BY DEF RegOK, Add

LEMMA ReplaceTyped ==
  ASSUME RegOK, NEW s \in Sock, NEW u \in Uri, Replace(s, u)
  PROVE  RegOK'
  BY DEF RegOK, Replace, WithoutKey

LEMMA RemoveByValTyped ==
  ASSUME RegOK, NEW u \in Uri, RemoveByVal(u)
  PROVE  RegOK'
  BY DEF RegOK, RemoveByVal

\* The state of a call and its parties agree, as CallShape says of each call.
Shaped(call) ==
  /\ call.type = "REGISTER" => call.state = "WAITING_AUTH" /\ call.callee = NoSock
  /\ call.state # "WAITING_AUTH" => call.callee # NoSock

LEMMA KnownTyped ==
  ASSUME CallsOK, CallShape, NEW c \in CallId, Known(c)
  PROVE  calls[c] \in Call /\ Shaped(calls[c])
  BY DEF CallsOK, CallShape, Known, Shaped

LEMMA CallSetTyped ==
  ASSUME CallsOK, CallShape, NEW c \in CallId, NEW call \in Call, Shaped(call),
         calls' = [calls EXCEPT ![c] = call], pendingAuth' \subseteq CallId
  PROVE  CallsOK' /\ CallShape'
<1>1. CallsOK'
  BY DEF CallsOK
<1>2. CallShape'
  BY DEF CallsOK, CallShape, Known, Shaped
<1> QED
  BY <1>1, <1>2

LEMMA CallEndsTyped ==
  ASSUME CallsOK, CallShape, NEW c,
         calls' = [calls EXCEPT ![c] = NoCall], pendingAuth' \subseteq CallId
  PROVE  CallsOK' /\ CallShape'
<1>1. CallsOK'
  BY DEF CallsOK
<1>2. CallShape'
  BY DEF CallsOK, CallShape, Known
<1> QED
  BY <1>1, <1>2

LEMMA CallsUnchanged ==
  ASSUME CallsOK, CallShape, calls' = calls, pendingAuth' \subseteq CallId
  PROVE  CallsOK' /\ CallShape'
  BY DEF CallsOK, CallShape, Known

LEMMA SideTyped ==
  ASSUME NEW c, calls[c] \in Call, NEW s
  PROVE  OtherSide(c, s) \in Sock \cup {NoSock}
  BY DEF OtherSide, Call

LEMMA GoneTyped ==
  ASSUME NEW c \in CallId, calls[c] \in Call
  PROVE  Gone(c) \in ServerMsg
  BY DEF Gone, ServerMsg, ServerKind, Call

-----------------------------------------------------------------------------
(* _send_to_client and _close_connection *)

\* A step that changes only the stack of its thread, and what goes with it.
LEMMA SendTypes ==
  ASSUME Shape, NEW t \in Thread, SendSucceeds(t) \/ SendFails(t)
  PROVE  Shape'
<1> USE DEF Shape, TypeOK
<1>1. stack[t] # <<>> /\ Top(t) \in Frame /\ Tail(stack[t]) \in Seq(Frame)
      /\ Top(t).sock \in Sock /\ Top(t).msg \in ServerMsg /\ holds[t] \in SUBSET Lock
  BY TopTyped DEF SendSucceeds, SendFails, At, Frame
<1>2. UNCHANGED <<netVars, regVars, callVars, keepAlive, prober, cleaner>>
  BY DEF SendSucceeds, SendFails
<1>3. (TaskOK /\ StackOK /\ LoopOK)'
  <2>1. CASE SendSucceeds(t)
    BY <2>1, <1>1, GoOnTyped DEF SendSucceeds, Pop
  <2>2. CASE SendFails(t)
    BY <2>2, <1>1, CloseTyped, TurnTyped DEF SendFails
  <2> QED
    BY <2>1, <2>2
<1>4. SentOK'
  BY <1>1 DEF SendSucceeds, SendFails, SentOK
<1>5. (NetOK /\ RegOK /\ ProberOK /\ CleanerOK)' /\ keepAlive' \subseteq Sock
  BY <1>2 DEF NetOK, RegOK, ProberOK, CleanerOK, netVars, regVars
<1>6. CallsOK' /\ CallShape'
  BY <1>2, CallsUnchanged DEF CallsOK, callVars
<1> QED
  BY <1>3, <1>4, <1>5, <1>6

\* A frame keeps its type when its locals change, unless it is a send.
LEMMA CloseFrameTyped ==
  ASSUME NEW f \in Frame, NEW pc \in {"conn", "reg", "calls", "sweep"},
         NEW msg \in ServerMsg \cup {NoMsg}, NEW peer \in Sock \cup {NoSock},
         NEW todo \in SUBSET CallId, NEW took \in BOOLEAN
  PROVE  /\ [f EXCEPT !.pc = pc] \in Frame
         /\ [f EXCEPT !.pc = pc, !.took = took, !.todo = todo] \in Frame
         /\ f.pc # "send" => [f EXCEPT !.todo = todo, !.peer = peer, !.msg = msg] \in Frame
  BY ZenonT(60) DEF Frame

LEMMA CloseConnTypes ==
  ASSUME Shape, NEW t \in Thread, CloseConn(t)
  PROVE  Shape'
<1> USE DEF Shape, TypeOK, CloseConn
<1>1. stack[t] # <<>> /\ Top(t) \in Frame /\ Top(t).sock \in Sock
  BY TopTyped DEF At, Frame
<1>2. (TaskOK /\ StackOK /\ LoopOK)'
  BY <1>1, CloseFrameTyped, TurnTyped
<1>3. NetOK' /\ ProberOK'
  BY <1>1 DEF NetOK, ProberOK
<1>4. (RegOK /\ CleanerOK /\ SentOK)' /\ keepAlive' \subseteq Sock
  BY DEF RegOK, regVars, CleanerOK, SentOK
<1>5. CallsOK' /\ CallShape'
  BY CallsUnchanged DEF CallsOK, callVars
<1> QED
  BY <1>2, <1>3, <1>4, <1>5

LEMMA CloseRegTypes ==
  ASSUME Shape, NEW t \in Thread, CloseReg(t)
  PROVE  Shape'
<1> USE DEF Shape, TypeOK, CloseReg
<1>1. stack[t] # <<>> /\ Top(t) \in Frame /\ Top(t).sock \in Sock
  BY TopTyped DEF At, Frame
<1>2. (TaskOK /\ StackOK /\ LoopOK)'
  BY <1>1, CloseFrameTyped, TurnTyped
<1>3. RegOK'
  BY <1>1, RemoveByKeyTyped
<1>4. (NetOK /\ ProberOK /\ CleanerOK /\ SentOK)' /\ keepAlive' \subseteq Sock
  BY DEF NetOK, netVars, ProberOK, CleanerOK, SentOK
<1>5. CallsOK' /\ CallShape'
  BY CallsUnchanged DEF CallsOK, callVars
<1> QED
  BY <1>2, <1>3, <1>4, <1>5

LEMMA CloseCallsTypes ==
  ASSUME Shape, NEW t \in Thread, CloseCalls(t)
  PROVE  Shape'
<1> USE DEF Shape, TypeOK, CloseCalls
<1>1. /\ stack[t] # <<>> /\ Top(t) \in Frame /\ Tail(stack[t]) \in Seq(Frame)
      /\ holds[t] \cup {"call"} \in SUBSET Lock
  BY TopTyped DEF At, Lock
<1> DEFINE todo == {c \in CallId : Involves(c, Top(t).sock)}
           f == [Top(t) EXCEPT !.pc = "sweep", !.took = "call" \notin holds[t], !.todo = todo]
<1>2. f \in Frame
  BY <1>1, CloseFrameTyped
<1>3. <<f>> \o Tail(stack[t]) \in Seq(Frame)
  BY <1>1, <1>2, OneFrame, ConcatProperties
<1>4. (TaskOK /\ StackOK /\ LoopOK)'
  BY <1>1, <1>3, GoOnTyped
<1>5. (NetOK /\ RegOK /\ ProberOK /\ CleanerOK /\ SentOK)' /\ keepAlive' \subseteq Sock
  BY DEF NetOK, netVars, RegOK, regVars, ProberOK, CleanerOK, SentOK
<1>6. CallsOK' /\ CallShape'
  BY CallsUnchanged DEF CallsOK, callVars
<1> QED
  BY <1>4, <1>5, <1>6

\* The call goes first; the notice, if there is one, is a well-typed send.
LEMMA CloseOneCallTypes ==
  ASSUME Shape, NEW t \in Thread, CloseOneCall(t)
  PROVE  Shape'
<1> USE DEF Shape, TypeOK
<1> DEFINE f == Top(t)
<1>1. /\ stack[t] # <<>> /\ f \in Frame /\ f.pc # "send" /\ f.todo \subseteq CallId
      /\ Tail(stack[t]) \in Seq(Frame) /\ holds[t] \in SUBSET Lock
  BY TopTyped DEF CloseOneCall, At, Frame
<1>2. PICK c \in f.todo :
        /\ Known(c)
        /\ calls' = [calls EXCEPT ![c] = NoCall]
        /\ LET peer == PeerAfter(f, c)
               notice == NoticeAfter(f, c)
               rest == [f EXCEPT !.todo = @ \ {c}, !.peer = peer, !.msg = notice]
           IN \/ /\ notice = NoMsg
                 /\ Turn(t, rest)
                 /\ UNCHANGED <<prober, cleaner>>
              \/ /\ notice # NoMsg /\ peer # NoSock
                 /\ GoOn(t, <<Send(peer, notice), rest>> \o Tail(stack[t]), holds[t])
                 /\ UNCHANGED <<prober, cleaner>>
              \/ notice # NoMsg /\ peer = NoSock /\ Raise(t)
  BY DEF CloseOneCall
<1> DEFINE peer == PeerAfter(f, c)
           notice == NoticeAfter(f, c)
           rest == [f EXCEPT !.todo = f.todo \ {c}, !.peer = peer, !.msg = notice]
<1>3. c \in CallId /\ calls[c] \in Call
  BY <1>1, <1>2, KnownTyped
<1>4. peer \in Sock \cup {NoSock}
  BY <1>1, <1>3, SideTyped DEF PeerAfter, Frame
<1>5. notice \in ServerMsg \cup {NoMsg}
  BY <1>1, <1>3, GoneTyped DEF NoticeAfter, Frame
<1>6. rest \in Frame
  <2>1. f.todo \ {c} \in SUBSET CallId /\ TRUE \in BOOLEAN /\ "sweep" \in {"conn", "reg", "calls", "sweep"}
    BY <1>1
  <2> HIDE DEF f, peer, notice
  <2> QED
    BY <2>1, <1>1, <1>4, <1>5, CloseFrameTyped
<1> HIDE DEF f, peer, notice, rest
<1>7. (TaskOK /\ StackOK /\ LoopOK /\ ProberOK /\ CleanerOK)'
  <2>1. CASE Turn(t, rest) /\ UNCHANGED <<prober, cleaner>>
    BY <2>1, <1>1, <1>6, TurnTyped DEF ProberOK, CleanerOK
  <2>2. CASE /\ notice # NoMsg /\ peer # NoSock
             /\ GoOn(t, <<Send(peer, notice), rest>> \o Tail(stack[t]), holds[t])
             /\ UNCHANGED <<prober, cleaner>>
    <3>1. <<Send(peer, notice), rest>> \o Tail(stack[t]) \in Seq(Frame)
      BY <2>2, <1>1, <1>4, <1>5, <1>6, SendTyped, TwoFrames, ConcatProperties
    <3> QED
      BY <2>2, <3>1, <1>1, GoOnTyped DEF ProberOK, CleanerOK
  <2>3. CASE Raise(t)
    BY <2>3, RaiseTyped
  <2> QED
    BY <2>1, <2>2, <2>3, <1>2 DEF f, peer, notice, rest
<1>8. (NetOK /\ RegOK /\ SentOK)' /\ keepAlive' \subseteq Sock
  BY DEF CloseOneCall, NetOK, netVars, RegOK, regVars, SentOK
<1>9. CallsOK' /\ CallShape'
  BY <1>2, CallEndsTyped DEF CloseOneCall, CallsOK
<1> QED
  BY <1>7, <1>8, <1>9

LEMMA CloseEndsTypes ==
  ASSUME Shape, NEW t \in Thread, CloseLosesCall(t) \/ CloseSocket(t)
  PROVE  Shape'
<1> USE DEF Shape, TypeOK
<1>1. /\ stack[t] # <<>> /\ Top(t) \in Frame /\ Top(t).sock \in Sock
      /\ Tail(stack[t]) \in Seq(Frame) /\ holds[t] \in SUBSET Lock
  BY TopTyped DEF CloseLosesCall, CloseSocket, At, Frame
<1>2. (TaskOK /\ StackOK /\ LoopOK /\ ProberOK /\ CleanerOK)'
  <2>1. CASE CloseLosesCall(t)
    BY <2>1, RaiseTyped DEF CloseLosesCall
  <2>2. CASE CloseSocket(t)
    <3>1. PICK ls \in SUBSET Lock : GoOn(t, Tail(stack[t]), ls)
      BY <2>2, <1>1 DEF CloseSocket, Pop
    <3> QED
      BY <2>2, <3>1, <1>1, GoOnTyped DEF CloseSocket, ProberOK, CleanerOK
  <2> QED
    BY <2>1, <2>2
<1>3. (NetOK /\ RegOK /\ SentOK)' /\ keepAlive' \subseteq Sock
  BY <1>1 DEF CloseLosesCall, CloseSocket, NetOK, netVars, RegOK, regVars, SentOK
<1>4. CallsOK' /\ CallShape'
  BY CallsUnchanged DEF CloseLosesCall, CloseSocket, CallsOK, callVars
<1> QED
  BY <1>2, <1>3, <1>4

LEMMA SendOrCloseTypes ==
  ASSUME Shape, NEW t \in Thread, SendOrClose(t)
  PROVE  Shape'
  BY SendTypes, CloseConnTypes, CloseRegTypes, CloseCallsTypes, CloseOneCallTypes,
     CloseEndsTypes DEF SendOrClose

-----------------------------------------------------------------------------
(* The handlers: first those that leave calls and registrations alone *)

\* What the three ends of a handler's step preserve, and all of Shape but it.
Machine == NetOK /\ TaskOK /\ StackOK /\ LoopOK /\ ProberOK /\ CleanerOK /\ SentOK

LEMMA AloneTyped ==
  ASSUME Shape, Machine', regVars' = regVars, calls' = calls,
         pendingAuth' \subseteq CallId, keepAlive' \subseteq keepAlive
  PROVE  Shape'
<1>1. RegOK'
  BY DEF Shape, TypeOK, RegOK, regVars
<1>2. CallsOK' /\ CallShape'
  BY CallsUnchanged DEF Shape, TypeOK
<1> QED
  BY <1>1, <1>2 DEF Shape, TypeOK, Machine

LEMMA RefusalTypes ==
  ASSUME Shape, NEW w \in Worker,
         \/ Unhandled(w) \/ RegisterRefused(w)
         \/ RegisterUnverified(w) \/ InviteRefused(w) \/ InviteMismatch(w)
         \/ NoSuchCall(w) \/ RequestMismatch(w)
         \/ ResponseDropped(w) \/ ResponseToRegister(w)
  PROVE  Shape'
<1> USE DEF Shape, TypeOK
<1>1. task[w].stage # "idle"
  BY DEF Runs, Unhandled, RegisterRefused, RegisterUnverified, InviteRefused,
         InviteMismatch, InviteRuns, NoSuchCall, RequestMismatch, ResponseRuns,
         ResponseDropped, ResponseToRegister
<1>2. \/ Drop(w)
      \/ \E what \in ServerKind, ls \in SUBSET Lock : Answer(w, what, ls)
  <2>1. CASE Unhandled(w) \/ NoSuchCall(w) \/ ResponseDropped(w)
    BY <2>1 DEF Unhandled, NoSuchCall, ResponseDropped
  <2>2. CASE RegisterRefused(w)
    BY <2>2 DEF RegisterRefused, ServerKind
  <2>3. CASE RegisterUnverified(w)
    BY <2>3 DEF RegisterUnverified, ServerKind, Lock
  <2>4. CASE InviteRefused(w) \/ InviteMismatch(w)
    BY <2>4 DEF InviteRefused, InviteMismatch, ServerKind, Lock
  <2>5. CASE RequestMismatch(w) \/ ResponseToRegister(w)
    BY <2>5 DEF RequestMismatch, ResponseToRegister, ServerKind, Lock
  <2> QED
    BY <2>1, <2>2, <2>3, <2>4, <2>5
<1>3. Machine'
  BY <1>1, <1>2, AnswerTyped, DropTyped DEF Machine
<1>4. UNCHANGED <<regVars, callVars, keepAlive>>
  BY DEF Unhandled, RegisterRefused, RegisterUnverified, InviteRefused, InviteMismatch,
         NoSuchCall, RequestMismatch, ResponseDropped, ResponseToRegister
<1> QED
  BY <1>3, <1>4, AloneTyped DEF callVars, CallsOK

LEMMA InvalidTypes ==
  ASSUME Shape, NEW w \in Worker, Invalid(w) \/ BumpCSeq(w)
  PROVE  Shape'
<1> USE DEF Shape, TypeOK
<1>1. task[w].stage # "idle" /\ task[w].sock \in Sock /\ task[w].msg \in ClientMsg
      /\ task[w].msg.cid \in CallId
  BY RunsTyped DEF Invalid, BumpCSeq, Stage, RequestKind
<1>2. CASE Invalid(w)
  <2>1. <<Send(task[w].sock, Reply(task[w].msg, "BAD_REQUEST"))>> \in Seq(Frame)
    BY <1>1, ReplyTyped, SendTyped, OneFrame DEF ServerKind
  <2>2. {} \in SUBSET Lock /\ "bump" \in Stage
    BY DEF Stage
  <2>3. Machine'
    BY <1>1, <1>2, <2>1, <2>2, LeaveTyped DEF Invalid, Machine
  <2> QED
    BY <1>2, <2>3, AloneTyped DEF Invalid, callVars, CallsOK
<1>3. CASE BumpCSeq(w)
  <2> DEFINE c == task[w].msg.cid
  <2>1. Machine'
    BY <1>1, <1>3, DropTyped DEF BumpCSeq, Machine
  <2>2. CallsOK' /\ CallShape'
    <3>1. CASE Known(c) /\ calls[c].cseq < MaxCSeq
      <4> DEFINE call == [calls[c] EXCEPT !.cseq = calls[c].cseq + 1]
      <4>1. calls[c] \in Call /\ Shaped(calls[c])
        BY <1>1, <3>1, KnownTyped
      <4>2. call \in Call /\ Shaped(call)
        <5>1. call \in Call
          BY <4>1 DEF Call
        <5>2. \A f \in {"type", "state", "callee"} : call[f] = calls[c][f]
          BY <4>1 DEF Call
        <5>3. Shaped(call)
          BY <4>1, <5>2 DEF Shaped
        <5> QED BY <5>1, <5>3
      <4>3. calls' = [calls EXCEPT ![c] = call] /\ pendingAuth' \subseteq CallId
        BY <1>3, <3>1 DEF BumpCSeq, CallsOK
      <4> HIDE DEF call
      <4> QED
        BY <1>1, <4>2, <4>3, CallSetTyped
    <3>2. CASE ~(Known(c) /\ calls[c].cseq < MaxCSeq)
      BY <1>3, <3>2, CallsUnchanged DEF BumpCSeq, CallsOK
    <3> QED
      BY <3>1, <3>2
  <2> QED
    BY <1>3, <2>1, <2>2 DEF BumpCSeq, Machine, RegOK, regVars
<1> QED
  BY <1>2, <1>3

-----------------------------------------------------------------------------
(* register_request *)

LEMMA CallOfTyped ==
  ASSUME Shape, NEW m \in ClientMsg, m.cid \in CallId, NEW s \in Sock,
         NEW type \in {"REGISTER", "INVITE"}, NEW uri \in Uri \cup {ServerUri},
         Known(m.cid) => NextOfCaller(m, s, type, uri)
  PROVE  /\ CallOf(m, s, type, uri) \in Call
         /\ Shaped(CallOf(m, s, type, uri))
         /\ CallOf(m, s, type, uri).type = type
         /\ CallOf(m, s, type, uri).caller = s
<1>1. CASE Known(m.cid)
  BY <1>1, KnownTyped DEF Shape, TypeOK, CallOf, NextOfCaller
<1>2. CASE ~Known(m.cid)
  BY <1>2 DEF CallOf, NewCall, Call, CallState, Shaped, ClientMsg
<1> QED
  BY <1>1, <1>2

LEMMA RegisterOpensTypes ==
  ASSUME Shape, NEW w \in Worker, RegisterOpens(w)
  PROVE  Shape'
<1> USE DEF Shape, TypeOK
<1> DEFINE m == task[w].msg
           s == task[w].sock
           call == CallOf(m, s, "REGISTER", m.from)
<1>1. task[w].stage # "idle" /\ s \in Sock /\ m \in ClientMsg /\ m.cid \in CallId
  BY RunsTyped DEF RegisterOpens, Stage, RequestKind
<1>2. m.from \in Uri
  BY <1>1 DEF ClientMsg
<1>3. UNCHANGED <<regVars, pendingAuth, keepAlive>>
  BY DEF RegisterOpens
<1>4. CASE Answer(w, "BAD_REQUEST", {"call"}) /\ UNCHANGED calls
  <2>1. Machine'
    BY <1>1, <1>4, AnswerTyped DEF Machine, ServerKind, Lock
  <2> QED
    BY <1>3, <1>4, <2>1, AloneTyped DEF CallsOK
<1>5. CASE /\ ~(Known(m.cid) /\ ~NextOfCaller(m, s, "REGISTER", m.from))
           /\ calls' = [calls EXCEPT ![m.cid] = call]
           /\ Leave(w, "check", <<>>, {})
  <2>1. Machine'
    <3>1. <<>> \in Seq(Frame) /\ {} \in SUBSET Lock /\ "check" \in Stage
      BY DEF Stage
    <3> QED
      BY <1>1, <1>5, <3>1, LeaveTyped DEF Machine
  <2>2. call \in Call /\ Shaped(call)
    BY <1>1, <1>2, <1>5, CallOfTyped
  <2> HIDE DEF call
  <2>3. CallsOK' /\ CallShape'
    BY <1>1, <1>3, <1>5, <2>2, CallSetTyped DEF CallsOK
  <2> QED
    BY <1>3, <2>1, <2>3 DEF Machine, RegOK, regVars
<1> QED
  BY <1>4, <1>5 DEF RegisterOpens

LEMMA RegisterChecksTypes ==
  ASSUME Shape, NEW w \in Worker, RegisterChecks(w) \/ RegisterRechecks(w)
  PROVE  Shape'
<1> USE DEF Shape, TypeOK
<1> DEFINE m == task[w].msg
           s == task[w].sock
<1>1. task[w].stage # "idle" /\ s \in Sock /\ m \in ClientMsg /\ m.from \in Uri
  BY RunsTyped DEF RegisterChecks, RegisterRechecks, Stage, ClientMsg
<1>2. /\ <<Send(s, Reply(m, "OK"))>> \in Seq(Frame)
      /\ <<Send(s, Reply(m, "FORBIDDEN"))>> \in Seq(Frame)
      /\ <<>> \in Seq(Frame)
  BY <1>1, ReplyTyped, SendTyped, OneFrame DEF ServerKind
<1>3. Drop(w) \/ \E stage \in Stage, fs \in Seq(Frame), ls \in SUBSET Lock :
                     Leave(w, stage, fs, ls)
  <2>1. {"reg"} \in SUBSET Lock /\ {} \in SUBSET Lock
        /\ {"recheck", "forget", "auth"} \subseteq Stage
    BY DEF Lock, Stage
  <2> QED
    BY <1>2, <2>1 DEF RegisterChecks, RegisterRechecks
<1>4. Machine'
  BY <1>1, <1>3, LeaveTyped, DropTyped DEF Machine
<1>5. RegOK'
  BY <1>1, AddTyped DEF RegisterChecks, RegisterRechecks, RegOK, regVars
<1>6. CallsOK' /\ CallShape' /\ keepAlive' \subseteq Sock
  BY CallsUnchanged DEF RegisterChecks, RegisterRechecks, CallsOK, callVars
<1> QED
  BY <1>4, <1>5, <1>6 DEF Machine

LEMMA RegisterEndsTypes ==
  ASSUME Shape, NEW w \in Worker,
         RegisterForgets(w) \/ RegisterChallenged(w) \/ RegisterVerified(w)
  PROVE  Shape'
<1> USE DEF Shape, TypeOK
<1> DEFINE m == task[w].msg
           s == task[w].sock
<1>1. /\ task[w].stage # "idle" /\ s \in Sock /\ m \in ClientMsg /\ m.cid \in CallId
      /\ m.from \in Uri
  <2>1. \E stage \in Stage \ {"idle"} : Runs(w, stage, {"REGISTER"})
    BY DEF RegisterForgets, RegisterChallenged, RegisterVerified, Stage
  <2> QED
    BY <2>1, RunsTyped DEF RequestKind, ClientMsg
<1>2. Machine'
  <2>1. Drop(w) \/ \E what \in ServerKind, ls \in SUBSET Lock : Answer(w, what, ls)
    <3>1. {} \in SUBSET Lock /\ {"call"} \in SUBSET Lock /\ {"call", "reg"} \in SUBSET Lock
          /\ {"UNAUTHORIZED", "OK"} \subseteq ServerKind
      BY DEF Lock, ServerKind
    <3> QED
      BY <3>1 DEF RegisterForgets, RegisterChallenged, RegisterVerified
  <2> QED
    BY <1>1, <2>1, AnswerTyped, DropTyped DEF Machine
<1>3. RegOK'
  <2>1. \/ UNCHANGED regVars \/ RemoveByKey(s) \/ Replace(s, m.from)
    BY DEF RegisterForgets, RegisterChallenged, RegisterVerified
  <2> QED
    BY <1>1, <2>1, RemoveByKeyTyped, ReplaceTyped DEF RegOK, regVars
<1>4. pendingAuth' \subseteq CallId /\ keepAlive' \subseteq Sock
  BY <1>1 DEF RegisterForgets, RegisterChallenged, RegisterVerified, CallsOK
<1>5. calls' = calls \/ calls' = [calls EXCEPT ![m.cid] = NoCall]
  BY DEF RegisterForgets, RegisterChallenged, RegisterVerified
<1>6. CallsOK' /\ CallShape'
  BY <1>4, <1>5, CallEndsTyped, CallsUnchanged
<1> QED
  BY <1>2, <1>3, <1>4, <1>6 DEF Machine

-----------------------------------------------------------------------------
(* invite_request, ack_request and bye_request *)

\* The call an INVITE goes on with, for those that pass the first tests.
LEMMA InviteRunsTyped ==
  ASSUME Shape, NEW w \in Worker, InviteRuns(w), FitsCall(w)
  PROVE  LET m == task[w].msg
             s == task[w].sock
             call == CallOf(m, s, "INVITE", m.to)
         IN /\ task[w].stage # "idle" /\ s \in Sock /\ m \in ClientMsg /\ m.cid \in CallId
            /\ call \in Call /\ Shaped(call) /\ call.type = "INVITE" /\ call.caller = s
            /\ Taken(m.to) => valToObj[m.to] \in Sock
<1> DEFINE m == task[w].msg
           s == task[w].sock
<1>1. task[w].stage # "idle" /\ s \in Sock /\ m \in ClientMsg /\ m.cid \in CallId
  BY RunsTyped DEF Shape, TypeOK, InviteRuns, Stage, RequestKind
<1>2. m.to \in Uri \cup {ServerUri}
  BY <1>1 DEF ClientMsg
<1>3. Taken(m.to) => valToObj[m.to] \in Sock
  BY DEF Taken, Shape, TypeOK, RegOK
<1> QED
  BY <1>1, <1>2, <1>3, CallOfTyped DEF FitsCall

\* A callee with a record, and a state past WAITING_AUTH only with a callee.
LEMMA WithCalleeTyped ==
  ASSUME NEW call \in Call, Shaped(call), call.type = "INVITE",
         NEW callee \in Sock, NEW state \in CallState
  PROVE  /\ [call EXCEPT !.callee = callee] \in Call
         /\ Shaped([call EXCEPT !.callee = callee])
         /\ [call EXCEPT !.callee = callee, !.state = state] \in Call
         /\ Shaped([call EXCEPT !.callee = callee, !.state = state])
  BY ConstantsAssumption DEF Call, Shaped

LEMMA InviteAnsweredTypes ==
  ASSUME Shape, NEW w \in Worker, InviteCalleeAway(w) \/ InviteStopped(w)
  PROVE  Shape'
<1> USE DEF Shape, TypeOK
<1> DEFINE m == task[w].msg
           s == task[w].sock
           opened == CallOf(m, s, "INVITE", m.to)
           called == [opened EXCEPT !.callee = valToObj[m.to]]
<1>1. /\ task[w].stage # "idle" /\ s \in Sock /\ m.cid \in CallId
      /\ opened \in Call /\ Shaped(opened) /\ opened.type = "INVITE"
      /\ Taken(m.to) => valToObj[m.to] \in Sock
  BY InviteRunsTyped DEF InviteCalleeAway, InviteStopped
<1>2. Machine'
  <2>1. \E what \in ServerKind, ls \in SUBSET Lock : Answer(w, what, ls)
    BY DEF InviteCalleeAway, InviteStopped, ServerKind, Lock
  <2> QED
    BY <1>1, <2>1, AnswerTyped DEF Machine
<1>3. UNCHANGED <<regVars, keepAlive>> /\ pendingAuth' \subseteq CallId
  BY <1>1 DEF InviteCalleeAway, InviteStopped, CallsOK
<1>4. CallsOK' /\ CallShape'
  <2>1. CASE InviteCalleeAway(w)
    <3>1. calls' = [calls EXCEPT ![m.cid] = opened]
      BY <2>1 DEF InviteCalleeAway
    <3> HIDE DEF opened
    <3> QED
      BY <3>1, <1>1, <1>3, CallSetTyped
  <2>2. CASE InviteStopped(w)
    <3>1. calls' = [calls EXCEPT ![m.cid] = called] /\ Taken(m.to)
      BY <2>2 DEF InviteStopped
    <3> HIDE DEF opened
    <3>2. called \in Call /\ Shaped(called)
      BY <3>1, <1>1, WithCalleeTyped, "TRYING" \in CallState DEF CallState
    <3> HIDE DEF called
    <3> QED
      BY <3>1, <3>2, <1>1, <1>3, CallSetTyped
  <2> QED
    BY <2>1, <2>2
<1> QED
  BY <1>2, <1>3, <1>4 DEF Machine, RegOK, regVars

LEMMA InviteTriedTypes ==
  ASSUME Shape, NEW w \in Worker, InviteTried(w)
  PROVE  Shape'
<1> USE DEF Shape, TypeOK
<1> DEFINE m == task[w].msg
           s == task[w].sock
           opened == CallOf(m, s, "INVITE", m.to)
           callee == valToObj[m.to]
           call == [opened EXCEPT !.callee = callee, !.state = "TRYING"]
           relayed == <<Send(callee, Relay(m)), Send(call.caller, Reply(m, "TRYING"))>>
           rejected == <<Send(s, Reply(m, "BAD_REQUEST"))>>
<1>1. /\ task[w].stage # "idle" /\ s \in Sock /\ m \in ClientMsg /\ m.cid \in CallId
      /\ opened \in Call /\ Shaped(opened) /\ opened.type = "INVITE" /\ opened.caller = s
      /\ callee \in Sock
  BY InviteRunsTyped DEF InviteTried
<1>2. call \in Call /\ Shaped(call) /\ call.caller = s
  <2> HIDE DEF opened
  <2>1. call \in Call /\ Shaped(call)
    BY <1>1, WithCalleeTyped DEF CallState
  <2>2. call.caller = s
    BY <1>1 DEF Call
  <2> QED
    BY <2>1, <2>2
<1>3. Machine'
  <2>1. /\ relayed \in Seq(Frame)
        /\ rejected \in Seq(Frame)
    BY <1>1, <1>2, RelayTyped, ReplyTyped, SendTyped, OneFrame, TwoFrames DEF ServerKind
  <2>2. Objection(w) \in Seq(Frame)
    BY <1>1, ReplyTyped, SendTyped, OneFrame DEF Objection, ServerKind
  <2>3. Objection(w) \o (IF m.body THEN relayed ELSE rejected) \in Seq(Frame)
    BY <2>1, <2>2, ConcatProperties
  <2>4. {"call"} \in SUBSET Lock /\ "done" \in Stage
    BY DEF Lock, Stage
  <2> QED
    BY <1>1, <2>3, <2>4, LeaveTyped DEF InviteTried, Machine
<1>4. UNCHANGED <<regVars, keepAlive>> /\ pendingAuth' \subseteq CallId
      /\ calls' = [calls EXCEPT ![m.cid] = call]
  BY DEF InviteTried, CallsOK
<1>5. CallsOK' /\ CallShape'
  <2> HIDE DEF call
  <2> QED
    BY <1>1, <1>2, <1>4, CallSetTyped
<1> QED
  BY <1>3, <1>4, <1>5 DEF Machine, RegOK, regVars

LEMMA AckTypes ==
  ASSUME Shape, NEW w \in Worker, Ack(w)
  PROVE  Shape'
<1> USE DEF Shape, TypeOK
<1> DEFINE m == task[w].msg
           answered == calls[m.cid].state = "WAITING_ACK"
           call == [calls[m.cid] EXCEPT !.cseq = m.cseq,
                      !.state = IF answered THEN "IN_CALL" ELSE calls[m.cid].state]
<1>1. task[w].stage # "idle" /\ m \in ClientMsg /\ m.cid \in CallId
  <2>1. TaskOK /\ Runs(w, "start", {"ACK"})
    BY DEF Ack
  <2>2. "start" \in Stage \ {"idle"} /\ "ACK" \in RequestKind
    BY DEF Stage, RequestKind
  <2> QED BY <2>1, <2>2, RunsTyped
<1>2. calls[m.cid] \in Call /\ Shaped(calls[m.cid]) /\ calls[m.cid].type = "INVITE"
  BY <1>1, KnownTyped DEF Ack, AckFits, NextOfCaller
<1>3. call \in Call /\ Shaped(call)
  BY <1>1, <1>2 DEF Call, CallState, Shaped, ClientMsg
<1>4. Machine'
  <2>1. CASE answered
    <3>1. calls[m.cid].callee \in Sock
      BY <1>2, <2>1 DEF Call, Shaped
    <3>2. <<Send(calls[m.cid].callee, Relay(m))>> \in Seq(Frame)
      BY <1>1, <3>1, RelayTyped, SendTyped, OneFrame
    <3>3. {"call"} \in SUBSET Lock /\ "done" \in Stage
      BY DEF Lock, Stage
    <3> QED
      BY <1>1, <2>1, <3>2, <3>3, LeaveTyped DEF Ack, Machine
  <2>2. CASE ~answered
    BY <1>1, <2>2, DropTyped DEF Ack, Machine
  <2> QED
    BY <2>1, <2>2
<1>5. UNCHANGED <<regVars, pendingAuth, keepAlive>> /\ calls' = [calls EXCEPT ![m.cid] = call]
  BY <1>1 DEF Ack, CallsOK
<1>6. CallsOK' /\ CallShape'
  <2> HIDE DEF call
  <2> QED
    BY <1>1, <1>3, <1>5, CallSetTyped DEF CallsOK
<1> QED
  BY <1>4, <1>5, <1>6 DEF Machine, RegOK, regVars

LEMMA ByeTypes ==
  ASSUME Shape, NEW w \in Worker, Bye(w)
  PROVE  Shape'
<1> USE DEF Shape, TypeOK
<1> DEFINE m == task[w].msg
           peer == OtherSide(m.cid, task[w].sock)
           numbered == [calls[m.cid] EXCEPT !.cseq = m.cseq]
           ending == [calls[m.cid] EXCEPT !.cseq = m.cseq, !.state = "WAITING_BYE"]
<1>1. task[w].stage # "idle" /\ task[w].sock \in Sock /\ m \in ClientMsg /\ m.cid \in CallId
  BY RunsTyped DEF Bye, Stage, RequestKind
<1>2. calls[m.cid] \in Call /\ Shaped(calls[m.cid])
  BY <1>1, KnownTyped DEF Bye
<1>3. calls[m.cid].type = "INVITE"
  BY <1>2 DEF Bye, ByeFits, Shaped, Call
<1>4. peer \in Sock \cup {NoSock}
  BY <1>2, SideTyped
<1>5. UNCHANGED <<regVars, pendingAuth, keepAlive>>
  BY DEF Bye
<1>6. CASE peer = NoSock
  <2>1. Machine'
    BY <1>1, <1>6, DropTyped DEF Bye, Machine
  <2>2. numbered \in Call /\ Shaped(numbered)
    BY <1>1, <1>2 DEF Call, Shaped, ClientMsg
  <2>3. calls' = [calls EXCEPT ![m.cid] = numbered]
    BY <1>6 DEF Bye
  <2> HIDE DEF numbered
  <2>4. CallsOK' /\ CallShape'
    BY <1>1, <1>5, <2>2, <2>3, CallSetTyped DEF CallsOK
  <2> QED
    BY <1>5, <2>1, <2>4 DEF Machine, RegOK, regVars
<1>7. CASE peer # NoSock
  <2>1. <<Send(peer, Relay(m))>> \in Seq(Frame)
    BY <1>1, <1>4, <1>7, RelayTyped, SendTyped, OneFrame
  <2>2. {"call"} \in SUBSET Lock /\ "done" \in Stage
    BY DEF Lock, Stage
  <2>3. Machine'
    BY <1>1, <1>7, <2>1, <2>2, LeaveTyped DEF Bye, Machine
  <2>4. calls[m.cid].callee # NoSock
    BY <1>1, <1>7, ConstantsAssumption DEF OtherSide
  <2>5. ending \in Call /\ Shaped(ending)
    BY <1>1, <1>2, <1>3, <2>4 DEF Call, CallState, Shaped, ClientMsg
  <2>6. calls' = [calls EXCEPT ![m.cid] = ending]
    BY <1>1, <1>7 DEF Bye, CallsOK
  <2> HIDE DEF ending
  <2>7. CallsOK' /\ CallShape'
    BY <1>1, <1>5, <2>5, <2>6, CallSetTyped DEF CallsOK
  <2> QED
    BY <1>5, <2>3, <2>7 DEF Machine, RegOK, regVars
<1> QED
  BY <1>6, <1>7

-----------------------------------------------------------------------------
(* process_response, and a worker that waits *)

LEMMA ResponseAloneTypes ==
  ASSUME Shape, NEW w \in Worker,
         ResponseLookedUp(w) \/ KeepAliveAnswered(w) \/ WaitsForReg(w)
  PROVE  Shape'
<1> USE DEF Shape, TypeOK
<1>1. Machine'
  <2>1. CASE ResponseLookedUp(w)
    <3>1. /\ {} \in SUBSET Lock /\ "respond" \in Stage /\ <<>> \in Seq(Frame)
          /\ task[w].stage # "idle"
      BY <2>1 DEF Stage, ResponseLookedUp, Runs
    <3> QED
      BY <2>1, <3>1, LeaveTyped, DropTyped DEF ResponseLookedUp, Machine
  <2>2. CASE KeepAliveAnswered(w)
    <3>1. Drop(w) /\ task[w].stage # "idle"
      BY <2>2 DEF KeepAliveAnswered, Runs
    <3> QED
      BY <3>1, DropTyped DEF Machine
  <2>3. CASE WaitsForReg(w)
    <3>1. StackOK'
      BY <2>3 DEF WaitsForReg, StackOK, Lock
    <3>2. (NetOK /\ TaskOK /\ LoopOK /\ ProberOK /\ CleanerOK /\ SentOK)'
      BY <2>3 DEF WaitsForReg, Quiet, NetOK, netVars, TaskOK, LoopOK, ProberOK,
                  CleanerOK, SentOK
    <3> QED
      BY <3>1, <3>2 DEF Machine
  <2> QED
    BY <2>1, <2>2, <2>3
<1>2. UNCHANGED <<regVars, callVars>> /\ keepAlive' \subseteq keepAlive
  BY DEF ResponseLookedUp, KeepAliveAnswered, WaitsForReg
<1> QED
  BY <1>1, <1>2, AloneTyped DEF callVars, CallsOK

\* The other side of a call that is past WAITING_AUTH can be sent to.
LEMMA ForwardTyped ==
  ASSUME Shape, NEW w \in Worker, task[w].msg \in ClientMsg, task[w].msg.cid \in CallId,
         Known(task[w].msg.cid), calls[task[w].msg.cid].state # "WAITING_AUTH"
  PROVE  <<Forward(w)>> \in Seq(Frame)
<1> DEFINE call == calls[task[w].msg.cid]
<1>1. call.caller \in Sock /\ call.callee \in Sock
  BY KnownTyped DEF Shape, TypeOK, Shaped, Call
<1>2. Relay(task[w].msg) \in ServerMsg
  BY RelayTyped
<1>3. Forward(w) \in Frame
  <2>1. CASE task[w].sock # call.caller
    BY <1>1, <1>2, <2>1, SendTyped DEF Forward
  <2>2. CASE task[w].sock = call.caller
    BY <1>1, <1>2, <2>2, SendTyped DEF Forward
  <2> QED
    BY <2>1, <2>2
<1> QED
  BY <1>3, OneFrame

LEMMA ResponseCallTypes ==
  ASSUME Shape, NEW w \in Worker, ResponseMoves(w) \/ ResponseEnds(w)
  PROVE  Shape'
<1> USE DEF Shape, TypeOK
<1> DEFINE m == task[w].msg
           c == m.cid
<1>1. task[w].stage # "idle" /\ m \in ClientMsg /\ c \in CallId
  <2>1. TaskOK /\ ResponseRuns(w)
    BY DEF ResponseMoves, ResponseEnds
  <2>2. Runs(w, "respond", ResponseKind) /\ c # KeepAliveId
    BY <2>1 DEF ResponseRuns
  <2>3. "respond" \in Stage \ {"idle"}
    BY DEF Stage
  <2> QED BY <2>1, <2>2, <2>3, RunsTyped
<1>2. calls[c] \in Call /\ Shaped(calls[c]) /\ calls[c].type = "INVITE" /\ Known(c)
  BY <1>1, KnownTyped DEF ResponseMoves, ResponseEnds
<1>3. calls[c].state # "WAITING_AUTH"
  BY DEF ResponseMoves, ResponseEnds, ResponseMove, ResponseEnd
<1>4. Machine'
  <2>1. <<Forward(w)>> \in Seq(Frame)
    BY <1>1, <1>2, <1>3, ForwardTyped
  <2>2. {"call"} \in SUBSET Lock /\ "done" \in Stage
    BY DEF Lock, Stage
  <2>3. Drop(w) \/ Leave(w, "done", <<Forward(w)>>, {"call"})
    BY DEF ResponseMoves, ResponseEnds
  <2> QED
    BY <1>1, <2>1, <2>2, <2>3, LeaveTyped, DropTyped DEF Machine
<1>5. UNCHANGED <<regVars, pendingAuth, keepAlive>>
  BY DEF ResponseMoves, ResponseEnds
<1>6. CallsOK' /\ CallShape'
  <2>1. CASE ResponseMoves(w)
    <3>1. PICK next \in CallState : calls' = [calls EXCEPT ![c].state = next]
      BY <2>1 DEF ResponseMoves
    <3> DEFINE call == [calls[c] EXCEPT !.state = next]
    <3>2. call \in Call /\ Shaped(call)
      BY <1>2, <1>3 DEF Call, Shaped
    <3>3. calls' = [calls EXCEPT ![c] = call]
      BY <3>1
    <3> HIDE DEF call
    <3> QED
      BY <1>1, <1>5, <3>2, <3>3, CallSetTyped DEF CallsOK
  <2>2. CASE ResponseEnds(w)
    BY <2>2, <1>5, CallEndsTyped DEF ResponseEnds, CallsOK
  <2> QED
    BY <2>1, <2>2
<1> QED
  BY <1>4, <1>5, <1>6 DEF Machine, RegOK, regVars

LEMMA HandleTypes ==
  ASSUME Shape, NEW w \in Worker, Handle(w)
  PROVE  Shape'
<1>1. CASE \/ Unhandled(w) \/ RegisterRefused(w)
           \/ RegisterUnverified(w) \/ InviteRefused(w) \/ InviteMismatch(w)
           \/ NoSuchCall(w) \/ RequestMismatch(w)
           \/ ResponseDropped(w) \/ ResponseToRegister(w)
  BY <1>1, RefusalTypes
<1>2. CASE Invalid(w) \/ BumpCSeq(w)
  BY <1>2, InvalidTypes
<1>3. CASE RegisterOpens(w)
  BY <1>3, RegisterOpensTypes
<1>4. CASE RegisterChecks(w) \/ RegisterRechecks(w)
  BY <1>4, RegisterChecksTypes
<1>5. CASE RegisterForgets(w) \/ RegisterChallenged(w) \/ RegisterVerified(w)
  BY <1>5, RegisterEndsTypes
<1>6. CASE InviteCalleeAway(w) \/ InviteStopped(w)
  BY <1>6, InviteAnsweredTypes
<1>7. CASE InviteTried(w)
  BY <1>7, InviteTriedTypes
<1>8. CASE Ack(w)
  BY <1>8, AckTypes
<1>9. CASE Bye(w)
  BY <1>9, ByeTypes
<1>10. CASE ResponseLookedUp(w) \/ KeepAliveAnswered(w) \/ WaitsForReg(w)
  BY <1>10, ResponseAloneTypes
<1>11. CASE ResponseMoves(w) \/ ResponseEnds(w)
  BY <1>11, ResponseCallTypes
<1> QED
  BY <1>1, <1>2, <1>3, <1>4, <1>5, <1>6, <1>7, <1>8, <1>9, <1>10, <1>11 DEF Handle

-----------------------------------------------------------------------------
(* The server loop, the daemon threads and the environment *)

LEMMA MainLoopTypes ==
  ASSUME Shape, MainLoop
  PROVE  Shape'
<1> USE DEF Shape, TypeOK
<1>1. NetOK'
  BY DEF MainLoop, Accept, Handshake, Select, Receive, Hangup, Shutdown, NetOK, netVars
<1>2. LoopOK'
  BY DEF MainLoop, Accept, Handshake, Select, Receive, Hangup, Shutdown, threadVars,
         LoopOK, IdleMain
<1>3. TaskOK'
  <2>1. CASE \E w \in Worker : Receive(w)
    <3>1. PICK w \in Worker : Receive(w)
      BY <2>1
    <3>2. main.sock \in Sock
      BY <3>1 DEF Receive, LoopOK
    <3>3. PICK m \in Menu[main.sock] :
            task' = [task EXCEPT ![w] = [sock |-> main.sock, msg |-> m, stage |-> "start"]]
      BY <3>1 DEF Receive
    <3>4. m \in ClientMsg
      BY <3>2, MenuAssumption
    <3> QED
      BY <3>2, <3>3, <3>4 DEF TaskOK, Task, Stage
  <2>2. CASE UNCHANGED task
    BY <2>2 DEF TaskOK
  <2> QED
    BY <2>1, <2>2 DEF MainLoop, Accept, Handshake, Select, Hangup, Shutdown, threadVars
<1>4. StackOK'
  <2>1. CASE Hangup
    <3>1. main.sock \in Sock
      BY <2>1 DEF Hangup, LoopOK
    <3>2. <<Close(main.sock)>> \in Seq(Frame) /\ {"conn"} \in SUBSET Lock
      BY <3>1, CloseTyped, OneFrame DEF Lock
    <3> QED
      BY <2>1, <3>2 DEF Hangup, StackOK
  <2>2. CASE UNCHANGED <<stack, holds>>
    BY <2>2 DEF StackOK
  <2> QED
    BY <2>1, <2>2 DEF MainLoop, Accept, Handshake, Select, Receive, Shutdown, threadVars
<1>5. (ProberOK /\ CleanerOK /\ SentOK)' /\ UNCHANGED <<regVars, callVars, keepAlive>>
  BY DEF MainLoop, Accept, Handshake, Select, Receive, Hangup, Shutdown, threadVars,
         ProberOK, CleanerOK, SentOK, Quiet
<1>6. Machine'
  BY <1>1, <1>2, <1>3, <1>4, <1>5 DEF Machine
<1> QED
  BY <1>5, <1>6, AloneTyped DEF callVars, CallsOK

LEMMA KeepAliveTypes ==
  ASSUME Shape, KeepAliveThread
  PROVE  Shape'
<1> USE DEF Shape, TypeOK
<1>1. NetOK'
  BY DEF KeepAliveThread, ProbeStarts, ProbeTurns, ProbeEnds, ProbePurges, ProbeEvicts,
         ProbeSends, NetOK, netVars
<1>2. ProberOK'
  BY DEF KeepAliveThread, ProbeStarts, ProbeTurns, ProbeEnds, ProbePurges, ProbeEvicts,
         ProbeSends, ProberOK, Unanswered, Connected
<1>3. StackOK'
  <2>1. CASE \E s \in Sock : ProbeEvicts(s)
    <3>1. PICK s \in Sock : ProbeEvicts(s)
      BY <2>1
    <3>2. <<Close(s)>> \in Seq(Frame)
      BY CloseTyped, OneFrame
    <3> QED
      BY <3>1, <3>2 DEF ProbeEvicts, StackOK
  <2>2. CASE \E s \in Sock : ProbeSends(s)
    <3>1. Options \in ServerMsg
      BY DEF Options, ServerMsg, ServerKind
    <3>2. PICK s \in Sock : ProbeSends(s)
      BY <2>2
    <3>3. <<Send(s, Options)>> \in Seq(Frame)
      BY <3>1, SendTyped, OneFrame
    <3> QED
      BY <3>2, <3>3 DEF ProbeSends, StackOK
  <2>3. CASE ProbeStarts \/ ProbeTurns \/ ProbeEnds \/ ProbePurges
    <3>1. \/ UNCHANGED <<stack, holds>>
          \/ \E ls \in SUBSET Lock : holds' = [holds EXCEPT !["keepalive"] = ls]
                                      /\ stack' = stack
      <4>1. {"conn"} \in SUBSET Lock /\ {} \in SUBSET Lock
        BY DEF Lock
      <4> QED
        BY <2>3, <4>1 DEF ProbeStarts, ProbeTurns, ProbeEnds, ProbePurges
    <3> QED
      BY <3>1 DEF StackOK
  <2> QED
    BY <2>1, <2>2, <2>3 DEF KeepAliveThread
<1>4. keepAlive' \subseteq Sock
  BY DEF KeepAliveThread, ProbeStarts, ProbeTurns, ProbeEnds, ProbePurges, ProbeEvicts,
         ProbeSends
<1>5. /\ UNCHANGED <<regVars, callVars, main, cleaner, task>>
      /\ sent' = NoMsg
  BY DEF KeepAliveThread, ProbeStarts, ProbeTurns, ProbeEnds, ProbePurges, ProbeEvicts,
         ProbeSends, Quiet
<1>6. (RegOK /\ TaskOK /\ LoopOK /\ CleanerOK /\ SentOK)'
  BY <1>5 DEF RegOK, regVars, TaskOK, LoopOK, CleanerOK, SentOK
<1>7. CallsOK' /\ CallShape'
  BY <1>5, CallsUnchanged DEF CallsOK, callVars
<1> QED
  BY <1>1, <1>2, <1>3, <1>4, <1>6, <1>7

LEMMA CleanupTypes ==
  ASSUME Shape, CleanupThread
  PROVE  Shape'
<1> USE DEF Shape, TypeOK
<1>1. "cleanup" \in Thread
  BY DEF Thread, Daemon
<1>2. (NetOK /\ RegOK /\ SentOK)' /\ keepAlive' \subseteq Sock
  BY DEF CleanupThread, IdleCallFound, IdleCallRemoved, IdleCallRemovedTwice, NetOK, netVars,
         RegOK, regVars, SentOK, Quiet
<1>3. CASE \E c \in CallId : IdleCallFound(c)
  <2>1. PICK c \in CallId : IdleCallFound(c)
    BY <1>3
  <2>2. calls[c] \in Call
    BY <2>1, KnownTyped DEF IdleCallFound, MayExpire
  <2>3. <<Send(calls[c].caller, Gone(c))>> \in Seq(Frame) /\ {"call"} \in SUBSET Lock
    BY <2>2, GoneTyped, SendTyped, OneFrame DEF Call, Lock
  <2>4. (StackOK /\ CleanerOK)'
    BY <2>1, <2>2, <2>3 DEF IdleCallFound, StackOK, CleanerOK, Call
  <2>5. (TaskOK /\ LoopOK /\ ProberOK)'
    BY <2>1 DEF IdleCallFound, TaskOK, LoopOK, ProberOK
  <2>6. CallsOK' /\ CallShape'
    BY <2>1, CallsUnchanged DEF IdleCallFound, CallsOK, callVars
  <2> QED
    BY <1>2, <2>4, <2>5, <2>6
<1>4. CASE IdleCallRemovedTwice \/ (IdleCallRemoved /\ ~Known(cleaner.cid))
  <2>1. Raise("cleanup") /\ UNCHANGED callVars
    BY <1>4 DEF IdleCallRemovedTwice, IdleCallRemoved
  <2>2. CallsOK' /\ CallShape'
    BY <2>1, CallsUnchanged DEF CallsOK, callVars
  <2> QED
    BY <1>1, <1>2, <2>1, <2>2, RaiseTyped
<1>5. CASE IdleCallRemoved /\ Known(cleaner.cid)
  <2> DEFINE c == cleaner.cid
  <2>1. c \in CallId /\ calls[c] \in Call
    BY <1>5, KnownTyped DEF IdleCallRemoved, CleanerOK
  <2>2. (StackOK /\ CleanerOK)'
    <3>1. CASE cleaner.callee = NoSock
      <4>1. /\ cleaner' = [pc |-> "idle", cid |-> NoCall, callee |-> NoSock]
            /\ holds' = [holds EXCEPT !["cleanup"] = {}]
            /\ UNCHANGED stack
        BY <1>5, <3>1 DEF IdleCallRemoved
      <4> QED
        BY <4>1 DEF StackOK, CleanerOK
    <3>2. CASE cleaner.callee # NoSock
      <4>1. cleaner.callee \in Sock
        BY <3>2 DEF CleanerOK
      <4>2. <<Send(cleaner.callee, Gone(c))>> \in Seq(Frame)
        BY <2>1, <4>1, GoneTyped, SendTyped, OneFrame
      <4>3. /\ cleaner' = [cleaner EXCEPT !.pc = "second"]
            /\ stack' = [stack EXCEPT !["cleanup"] = <<Send(cleaner.callee, Gone(c))>>]
            /\ UNCHANGED holds
        BY <1>5, <3>2 DEF IdleCallRemoved
      <4>4. StackOK'
        BY <4>2, <4>3 DEF StackOK
      <4>5. CleanerOK'
        BY <2>1, <4>3 DEF CleanerOK
      <4> QED
        BY <4>4, <4>5
    <3> QED
      BY <3>1, <3>2
  <2>3. (TaskOK /\ LoopOK /\ ProberOK)'
    BY <1>5 DEF IdleCallRemoved, TaskOK, LoopOK, ProberOK
  <2>4. CallsOK' /\ CallShape'
    BY <1>5, <2>1, CallEndsTyped DEF IdleCallRemoved, CallsOK
  <2> QED
    BY <1>2, <2>2, <2>3, <2>4
<1> QED
  BY <1>3, <1>4, <1>5 DEF CleanupThread

LEMMA ExpiryTypes ==
  ASSUME Shape, NEW u \in Uri, RegistrationExpires(u)
  PROVE  Shape'
<1> USE DEF Shape, TypeOK, RegistrationExpires
<1>1. RegOK'
  BY RemoveByValTyped
<1>2. Machine' /\ keepAlive' \subseteq Sock
  BY DEF Machine, Quiet, NetOK, netVars, threadVars, TaskOK, StackOK, LoopOK, ProberOK,
         CleanerOK, SentOK
<1>3. CallsOK' /\ CallShape'
  BY CallsUnchanged DEF CallsOK, callVars
<1> QED
  BY <1>1, <1>2, <1>3 DEF Machine

LEMMA VanishTypes ==
  ASSUME Shape, NEW s \in Sock, Vanish(s)
  PROVE  Shape'
<1> USE DEF Shape, TypeOK, Vanish
<1>1. Machine'
  BY DEF Machine, Quiet, NetOK, threadVars, TaskOK, StackOK, LoopOK, ProberOK,
         CleanerOK, SentOK
<1> QED
  BY <1>1, AloneTyped DEF callVars, CallsOK

LEMMA StutterTypes ==
  ASSUME Shape, UNCHANGED vars
  PROVE  Shape'
<1> USE DEF Shape, TypeOK, vars, netVars, regVars, callVars, threadVars
<1>1. Machine'
  BY DEF Machine, NetOK, TaskOK, StackOK, LoopOK, ProberOK, CleanerOK, SentOK
<1> QED
  BY <1>1, AloneTyped DEF CallsOK

-----------------------------------------------------------------------------
(* The theorems *)

LEMMA InitTypes == Init => Shape
<1> SUFFICES ASSUME Init PROVE Shape
  OBVIOUS
<1> USE DEF Init
<1>1. NetOK /\ CallsOK /\ LoopOK /\ ProberOK /\ CleanerOK /\ SentOK /\ keepAlive \subseteq Sock
  BY DEF NetOK, CallsOK, LoopOK, IdleMain, ProberOK, CleanerOK, SentOK
<1>2. RegOK
  BY RegisteredAssumption, ConstantsAssumption DEF RegOK
<1>3. TaskOK /\ StackOK
  BY DEF TaskOK, IdleTask, Task, Stage, StackOK
<1>4. CallShape
  BY DEF CallShape, Known
<1> QED
  BY <1>1, <1>2, <1>3, <1>4 DEF Shape, TypeOK

LEMMA NextTypes == Shape /\ [Next]_vars => Shape'
<1> SUFFICES ASSUME Shape, [Next]_vars PROVE Shape'
  OBVIOUS
<1>1. CASE \E w \in Worker : Handle(w)
  BY <1>1, HandleTypes
<1>2. CASE \E t \in Thread : SendOrClose(t)
  BY <1>2, SendOrCloseTypes
<1>3. CASE MainLoop
  BY <1>3, MainLoopTypes
<1>4. CASE KeepAliveThread
  BY <1>4, KeepAliveTypes
<1>5. CASE CleanupThread
  BY <1>5, CleanupTypes
<1>6. CASE \E u \in Uri : RegistrationExpires(u)
  BY <1>6, ExpiryTypes
<1>7. CASE \E s \in Sock : Vanish(s)
  BY <1>7, VanishTypes
<1>8. CASE UNCHANGED vars
  BY <1>8, StutterTypes
<1> QED
  BY <1>1, <1>2, <1>3, <1>4, <1>5, <1>6, <1>7, <1>8 DEF Next

\* Types and call shape together are an invariant of the server.
THEOREM ShapeInvariant == Spec => []Shape
  BY InitTypes, NextTypes, PTL DEF Spec

\* Every variable has its type, and a thread at work what it works on: the
\* handlers of SIPServer never meet a message, socket or frame of another kind.
THEOREM TypeCorrect == Spec => []TypeOK
<1>1. Shape => TypeOK
  BY DEF Shape
<1> QED
  BY <1>1, ShapeInvariant, PTL

\* A call past WAITING_AUTH has a callee, and a REGISTER exchange stays in
\* WAITING_AUTH without one: the sends of ack_request and process_response to
\* the callee, which do not test for None, have a receiver.
THEOREM CallsHaveShape == Spec => []CallShape
<1>1. Shape => CallShape
  BY DEF Shape
<1> QED
  BY <1>1, ShapeInvariant, PTL

-----------------------------------------------------------------------------
(* Registrations *)

RegStep ==
  \/ UNCHANGED regVars
  \/ \E s \in Sock : RemoveByKey(s)
  \/ \E u \in Uri : Taken(u) /\ RemoveByVal(u)
  \/ \E s \in Sock, u \in Uri : LoggedIn(s) /\ keyToVal[s] = u /\ Add(s, u)
  \/ \E s \in Sock, u \in Uri : Replace(s, u)

LEMMA RegSteps ==
  ASSUME Shape, [Next]_vars
  PROVE  RegStep
<1> USE DEF Shape, TypeOK
<1>1. CASE \E w \in Worker : Handle(w)
  <2>1. PICK w \in Worker : Handle(w)
    BY <1>1
  <2>2. CASE RegisterChecks(w) \/ RegisterVerified(w)
    <3>1. task[w].sock \in Sock /\ task[w].msg.from \in Uri
      <4>1. \E stage \in Stage \ {"idle"} : Runs(w, stage, {"REGISTER"})
        BY <2>2 DEF RegisterChecks, RegisterVerified, Stage
      <4> QED
        BY <4>1, RunsTyped DEF ClientMsg
    <3> QED
      BY <2>2, <3>1 DEF RegisterChecks, RegisterVerified, RegStep
  <2>3. CASE ~(RegisterChecks(w) \/ RegisterVerified(w))
    BY <2>1, <2>3
    DEF RegStep, Handle, Invalid, BumpCSeq, Unhandled, RegisterRefused, RegisterOpens,
        RegisterRechecks, RegisterForgets, RegisterChallenged, RegisterUnverified,
        InviteRefused, InviteMismatch, InviteCalleeAway, InviteStopped, InviteTried,
        NoSuchCall, RequestMismatch, Ack, Bye, ResponseLookedUp, KeepAliveAnswered,
        ResponseMoves, ResponseEnds, ResponseDropped, ResponseToRegister, WaitsForReg
  <2> QED
    BY <2>2, <2>3
<1>2. CASE \E t \in Thread : SendOrClose(t)
  <2>1. PICK t \in Thread : SendOrClose(t)
    BY <1>2
  <2>2. CASE CloseReg(t)
    <3>1. Top(t).sock \in Sock
      BY <2>2, TopTyped DEF CloseReg, At, Frame
    <3> QED
      BY <2>2, <3>1 DEF CloseReg, RegStep
  <2>3. CASE ~CloseReg(t)
    BY <2>1, <2>3
    DEF RegStep, SendOrClose, SendSucceeds, SendFails, CloseConn, CloseCalls, CloseOneCall,
        CloseLosesCall, CloseSocket
  <2> QED
    BY <2>2, <2>3
<1>3. CASE \E u \in Uri : RegistrationExpires(u)
  BY <1>3 DEF RegistrationExpires, RegStep
<1>4. CASE MainLoop \/ KeepAliveThread \/ CleanupThread \/ \E s \in Sock : Vanish(s)
  BY <1>4
  DEF RegStep, MainLoop, Accept, Handshake, Select, Receive, Hangup, Shutdown,
      KeepAliveThread, ProbeStarts, ProbeEvicts, ProbeTurns, ProbeSends, ProbeEnds,
      ProbePurges, CleanupThread, IdleCallFound, IdleCallRemoved, IdleCallRemovedTwice,
      Vanish
<1>5. CASE UNCHANGED vars
  BY <1>5 DEF vars, RegStep
<1> QED
  BY <1>1, <1>2, <1>3, <1>4, <1>5 DEF Next

\* A socket that owns a record is filed under its uri, so dropping or moving
\* the socket's key never leaves a second record of it behind.
LEMMA MapsStep ==
  ASSUME RegOK, MapsAgree, RegStep
  PROVE  MapsAgree'
<1> USE ConstantsAssumption DEF RegOK
<1>1. CASE UNCHANGED regVars
  BY <1>1 DEF MapsAgree, regVars
<1>2. CASE \E s \in Sock : RemoveByKey(s)
  BY <1>2 DEF MapsAgree, RemoveByKey, WithoutKey
<1>3. CASE \E u \in Uri : Taken(u) /\ RemoveByVal(u)
  BY <1>3 DEF MapsAgree, RemoveByVal, Taken
<1>4. CASE \E s \in Sock, u \in Uri : LoggedIn(s) /\ keyToVal[s] = u /\ Add(s, u)
  BY <1>4 DEF MapsAgree, Add
<1>5. CASE \E s \in Sock, u \in Uri : Replace(s, u)
  <2>1. PICK s \in Sock, u \in Uri : Replace(s, u)
    BY <1>5
  <2>2. SUFFICES ASSUME NEW v \in Uri, valToObj'[v] # NoSock
                 PROVE  keyToVal'[valToObj'[v]] = v
    BY DEF MapsAgree
  <2>3. CASE v = u
    BY <2>1, <2>3 DEF Replace, WithoutKey
  <2>4. CASE v # u
    <3>1. valToObj'[v] = valToObj[v] /\ valToObj[v] \in Sock
      BY <2>1, <2>2, <2>4 DEF Replace, WithoutKey
    <3>2. keyToVal[valToObj[v]] = v
      BY <2>2, <3>1 DEF MapsAgree
    <3>3. valToObj[v] # s
      BY <2>1, <2>2, <2>4, <3>1, <3>2 DEF Replace, WithoutKey, LoggedIn
    <3> QED
      BY <2>1, <3>1, <3>2, <3>3 DEF Replace
  <2> QED
    BY <2>3, <2>4
<1> QED
  BY <1>1, <1>2, <1>3, <1>4, <1>5 DEF RegStep

\* The two dictionaries of BiMap agree at all times: no interleaving of
\* register_request, _close_connection and _cleanup_expired_reg leaves a record
\* of a socket that is filed under another uri or under none.
THEOREM MapsAlwaysAgree == Spec => []MapsAgree
<1>1. Init => MapsAgree
  BY RegisteredAssumption, ConstantsAssumption DEF Init, MapsAgree
<1>2. Shape /\ MapsAgree /\ [Next]_vars => MapsAgree'
  BY RegSteps, MapsStep DEF Shape, TypeOK
<1> QED
  BY <1>1, <1>2, ShapeInvariant, PTL DEF Spec

-----------------------------------------------------------------------------
(* Calls *)

\* The states a call may go to from state p.
Follows(p, q) ==
  \/ q = p
  \/ q \in {"TRYING", "WAITING_BYE"}
  \/ <<p, q>> \in {<<"TRYING", "RINGING">>, <<"RINGING", "WAITING_ACK">>,
                   <<"WAITING_ACK", "IN_CALL">>}

\* Call c becomes `new` in one step: it ends, opens, or goes on as the same
\* exchange.
Continues(c, new) ==
  \/ new = NoCall
  \/ /\ ~Known(c)
     /\ new.state \in {"WAITING_AUTH", "TRYING"}
     /\ new.type = "REGISTER" => new.state = "WAITING_AUTH"
  \/ /\ Known(c)
     /\ new.type = calls[c].type /\ new.uri = calls[c].uri /\ new.caller = calls[c].caller
     /\ new.cseq >= calls[c].cseq
     /\ new.state = calls[c].state \/ new.type = "INVITE"
     /\ Follows(calls[c].state, new.state)

CallStep ==
  \/ calls' = calls
  \/ \E c \in CallId, new \in Call \cup {NoCall} :
       calls' = [calls EXCEPT ![c] = new] /\ Continues(c, new)

LEMMA EndStep ==
  ASSUME NEW c \in CallId, calls' = [calls EXCEPT ![c] = NoCall]
  PROVE  CallStep
  BY DEF CallStep, Continues

LEMMA GoesOn ==
  ASSUME NEW c \in CallId, NEW new \in Call, calls' = [calls EXCEPT ![c] = new],
         Continues(c, new)
  PROVE  CallStep
  BY DEF CallStep

LEMMA BumpStep ==
  ASSUME Shape, NEW w \in Worker, BumpCSeq(w)
  PROVE  CallStep
<1> USE DEF Shape, TypeOK
<1> DEFINE c == task[w].msg.cid
           new == [calls[c] EXCEPT !.cseq = calls[c].cseq + 1]
<1>1. c \in CallId
  BY RunsTyped DEF BumpCSeq, Stage, RequestKind
<1>2. CASE Known(c) /\ calls[c].cseq < MaxCSeq
  <2>1. calls[c] \in Call
    BY <1>1, <1>2, KnownTyped
  <2>2. new \in Call /\ Continues(c, new)
    BY <1>2, <2>1 DEF Call, Continues, Follows
  <2>3. calls' = [calls EXCEPT ![c] = new]
    BY <1>2 DEF BumpCSeq
  <2> HIDE DEF new
  <2> QED
    BY <1>1, <2>2, <2>3, GoesOn
<1>3. CASE ~(Known(c) /\ calls[c].cseq < MaxCSeq)
  BY <1>3 DEF BumpCSeq, CallStep
<1> QED
  BY <1>2, <1>3

LEMMA RegisterCallStep ==
  ASSUME Shape, NEW w \in Worker,
         RegisterOpens(w) \/ RegisterForgets(w) \/ RegisterVerified(w)
  PROVE  CallStep
<1> USE DEF Shape, TypeOK
<1> DEFINE m == task[w].msg
           s == task[w].sock
           new == CallOf(m, s, "REGISTER", m.from)
<1>1. s \in Sock /\ m \in ClientMsg /\ m.cid \in CallId /\ m.from \in Uri
  <2>1. \E stage \in Stage \ {"idle"} : Runs(w, stage, {"REGISTER"})
    BY DEF RegisterOpens, RegisterForgets, RegisterVerified, Stage
  <2> QED
    BY <2>1, RunsTyped DEF RequestKind, ClientMsg
<1>2. CASE calls' = calls \/ calls' = [calls EXCEPT ![m.cid] = NoCall]
  BY <1>1, <1>2, EndStep DEF CallStep
<1>3. CASE /\ Known(m.cid) => NextOfCaller(m, s, "REGISTER", m.from)
           /\ calls' = [calls EXCEPT ![m.cid] = new]
  <2>1. new \in Call
    BY <1>1, <1>3, CallOfTyped
  <2>2. Continues(m.cid, new)
    <3>1. CASE Known(m.cid)
      <4>1. calls[m.cid] \in Call
        BY <1>1, <3>1, KnownTyped
      <4> QED
        BY <3>1, <4>1 DEF Continues, CallOf, Follows, Call
    <3>2. CASE ~Known(m.cid)
      BY <3>2 DEF Continues, CallOf, NewCall
    <3> QED
      BY <3>1, <3>2
  <2> HIDE DEF new
  <2> QED
    BY <1>1, <1>3, <2>1, <2>2, GoesOn
<1> QED
  BY <1>2, <1>3 DEF RegisterOpens, RegisterForgets, RegisterVerified

LEMMA InviteCallStep ==
  ASSUME Shape, NEW w \in Worker,
         InviteCalleeAway(w) \/ InviteStopped(w) \/ InviteTried(w)
  PROVE  CallStep
<1> USE DEF Shape, TypeOK
<1> DEFINE m == task[w].msg
           s == task[w].sock
           opened == CallOf(m, s, "INVITE", m.to)
           called == [opened EXCEPT !.callee = valToObj[m.to]]
           tried == [opened EXCEPT !.callee = valToObj[m.to], !.state = "TRYING"]
<1>1. /\ m.cid \in CallId /\ opened \in Call /\ Shaped(opened) /\ opened.type = "INVITE"
      /\ Taken(m.to) => valToObj[m.to] \in Sock
  BY InviteRunsTyped DEF InviteCalleeAway, InviteStopped, InviteTried
<1>2. /\ Known(m.cid) => opened = calls[m.cid]
      /\ ~Known(m.cid) => opened.state = "WAITING_AUTH"
  BY DEF CallOf, NewCall
<1> HIDE DEF opened
<1>3. Continues(m.cid, opened)
  BY <1>1, <1>2 DEF Continues, Follows, Call
<1>4. CASE InviteCalleeAway(w)
  <2>1. calls' = [calls EXCEPT ![m.cid] = opened]
    BY <1>4 DEF InviteCalleeAway, opened
  <2> QED
    BY <1>1, <1>3, <2>1, GoesOn
<1>5. CASE InviteStopped(w)
  <2>1. calls' = [calls EXCEPT ![m.cid] = called] /\ Taken(m.to)
    BY <1>5 DEF InviteStopped, opened
  <2>2. called \in Call /\ Continues(m.cid, called)
    BY <1>1, <1>2, <2>1 DEF Continues, Follows, Call
  <2> HIDE DEF called
  <2> QED
    BY <1>1, <2>1, <2>2, GoesOn
<1>6. CASE InviteTried(w)
  <2>1. calls' = [calls EXCEPT ![m.cid] = tried] /\ Taken(m.to)
    BY <1>6 DEF InviteTried, opened
  <2>2. tried \in Call
    BY <1>1, <2>1 DEF Call, CallState
  <2>3. Continues(m.cid, tried)
    <3>1. /\ tried.type = "INVITE" /\ tried.state = "TRYING" /\ tried.uri = opened.uri
          /\ tried.caller = opened.caller /\ tried.cseq = opened.cseq /\ opened.cseq \in Nat
      BY <1>1 DEF Call
    <3> HIDE DEF tried
    <3> QED
      BY <1>1, <1>2, <3>1 DEF Continues, Follows
  <2> HIDE DEF tried
  <2> QED
    BY <1>1, <2>1, <2>2, <2>3, GoesOn
<1> QED
  BY <1>4, <1>5, <1>6

LEMMA AckByeStep ==
  ASSUME Shape, NEW w \in Worker, Ack(w) \/ Bye(w)
  PROVE  CallStep
<1> USE DEF Shape, TypeOK
<1> DEFINE m == task[w].msg
           c == m.cid
<1>1. c \in CallId /\ m \in ClientMsg
  <2>1. TaskOK /\ (Runs(w, "start", {"ACK"}) \/ Runs(w, "start", {"BYE"}))
    BY DEF Ack, Bye
  <2>2. "start" \in Stage \ {"idle"} /\ {"ACK", "BYE"} \subseteq RequestKind
    BY DEF Stage, RequestKind
  <2> QED BY <2>1, <2>2, RunsTyped
<1>2. calls[c] \in Call /\ Shaped(calls[c]) /\ Known(c) /\ m.cseq = calls[c].cseq + 1
  BY <1>1, KnownTyped DEF Ack, Bye, AckFits, ByeFits, NextOfCaller
<1>3. calls[c].type = "INVITE"
  BY <1>2 DEF Ack, Bye, AckFits, ByeFits, NextOfCaller, Shaped, Call
<1>4. PICK state \in {calls[c].state, "IN_CALL", "WAITING_BYE"} :
        /\ calls' = [calls EXCEPT ![c] = [calls[c] EXCEPT !.cseq = m.cseq, !.state = state]]
        /\ state = "IN_CALL" => calls[c].state \in {"WAITING_ACK", "IN_CALL"}
  <2>1. CASE Ack(w)
    <3>1. CASE calls[c].state = "WAITING_ACK"
      BY <1>1, <1>2, <2>1, <3>1 DEF Ack, CallsOK
    <3>2. CASE calls[c].state # "WAITING_ACK"
      BY <1>1, <1>2, <2>1, <3>2 DEF Ack, CallsOK
    <3> QED
      BY <3>1, <3>2
  <2>2. CASE Bye(w)
    <3>1. CASE OtherSide(c, task[w].sock) = NoSock
      <4>1. calls' = [calls EXCEPT ![c] = [calls[c] EXCEPT !.cseq = m.cseq]]
        BY <2>2, <3>1 DEF Bye
      <4>2. [calls[c] EXCEPT !.cseq = m.cseq]
              = [calls[c] EXCEPT !.cseq = m.cseq, !.state = calls[c].state]
        BY <1>2 DEF Call
      <4> QED
        BY <4>1, <4>2
    <3>2. CASE OtherSide(c, task[w].sock) # NoSock
      BY <1>1, <1>2, <2>2, <3>2 DEF Bye, CallsOK
    <3> QED
      BY <3>1, <3>2
  <2> QED
    BY <2>1, <2>2
<1> DEFINE new == [calls[c] EXCEPT !.cseq = m.cseq, !.state = state]
<1>5. new \in Call
  BY <1>1, <1>2, <1>4 DEF Call, CallState, ClientMsg
<1>6. Continues(c, new)
  <2>1. /\ new.type = "INVITE" /\ new.state = state /\ new.uri = calls[c].uri
        /\ new.caller = calls[c].caller /\ new.cseq = m.cseq /\ calls[c].cseq \in Nat
    BY <1>2, <1>3 DEF Call
  <2> HIDE DEF new
  <2>2. Follows(calls[c].state, state)
    BY <1>4 DEF Follows
  <2>3. new.cseq >= calls[c].cseq
    BY <1>2, <2>1
  <2> QED
    BY <1>2, <1>3, <2>1, <2>2, <2>3 DEF Continues
<1> HIDE DEF new
<1> QED
  BY <1>1, <1>4, <1>5, <1>6, GoesOn DEF new

LEMMA ResponseStep ==
  ASSUME Shape, NEW w \in Worker, ResponseMoves(w) \/ ResponseEnds(w)
  PROVE  CallStep
<1> USE DEF Shape, TypeOK
<1> DEFINE m == task[w].msg
           c == m.cid
<1>1. c \in CallId
  BY RunsTyped DEF ResponseMoves, ResponseEnds, ResponseRuns, Stage
<1>2. CASE ResponseEnds(w)
  BY <1>1, <1>2, EndStep DEF ResponseEnds
<1>3. CASE ResponseMoves(w)
  <2>1. calls[c] \in Call /\ calls[c].type = "INVITE" /\ Known(c)
    BY <1>1, <1>3, KnownTyped DEF ResponseMoves
  <2>2. PICK next \in CallState :
          /\ <<calls[c].state, m.what, next>> \in ResponseMove
          /\ calls' = [calls EXCEPT ![c].state = next]
    BY <1>3 DEF ResponseMoves
  <2> DEFINE new == [calls[c] EXCEPT !.state = next]
  <2>3. calls' = [calls EXCEPT ![c] = new]
    BY <2>2
  <2>4. new \in Call
    BY <2>1 DEF Call
  <2>5. Continues(c, new)
    <3>1. /\ new.type = "INVITE" /\ new.state = next /\ new.uri = calls[c].uri
          /\ new.caller = calls[c].caller /\ new.cseq = calls[c].cseq /\ calls[c].cseq \in Nat
      BY <2>1 DEF Call
    <3>2. Follows(calls[c].state, next)
      BY <2>2 DEF ResponseMove, Follows
    <3> HIDE DEF new
    <3> QED
      BY <2>1, <3>1, <3>2 DEF Continues
  <2> HIDE DEF new
  <2> QED
    BY <1>1, <2>3, <2>4, <2>5, GoesOn
<1> QED
  BY <1>2, <1>3

\* The steps that end a call from outside of its handlers.
LEMMA CloseStep ==
  ASSUME Shape, (\E t \in Thread : SendOrClose(t)) \/ CleanupThread
  PROVE  CallStep
<1> USE DEF Shape, TypeOK
<1>1. CASE \E t \in Thread : SendOrClose(t)
  <2>1. PICK t \in Thread : SendOrClose(t)
    BY <1>1
  <2>2. CASE CloseOneCall(t)
    <3>1. Top(t).todo \subseteq CallId
      BY <2>2, TopTyped DEF CloseOneCall, At, Frame
    <3> QED
      BY <2>2, <3>1, EndStep DEF CloseOneCall
  <2>3. CASE ~CloseOneCall(t)
    BY <2>1, <2>3
    DEF CallStep, SendOrClose, SendSucceeds, SendFails, CloseConn, CloseReg, CloseCalls,
        CloseLosesCall, CloseSocket, callVars
  <2> QED
    BY <2>2, <2>3
<1>2. CASE CleanupThread
  <2>1. CASE IdleCallRemoved
    <3>1. cleaner.cid \in CallId
      BY <2>1 DEF IdleCallRemoved, CleanerOK
    <3> QED
      BY <2>1, <3>1, EndStep DEF IdleCallRemoved, CallStep, callVars
  <2>2. CASE ~IdleCallRemoved
    BY <1>2, <2>2 DEF CleanupThread, IdleCallFound, IdleCallRemovedTwice, CallStep, callVars
  <2> QED
    BY <2>1, <2>2
<1> QED
  BY <1>1, <1>2

LEMMA CallSteps ==
  ASSUME Shape, [Next]_vars
  PROVE  CallStep
<1>1. CASE \E w \in Worker : Handle(w)
  <2>1. PICK w \in Worker : Handle(w)
    BY <1>1
  <2>2. CASE BumpCSeq(w)
    BY <2>2, BumpStep
  <2>3. CASE RegisterOpens(w) \/ RegisterForgets(w) \/ RegisterVerified(w)
    BY <2>3, RegisterCallStep
  <2>4. CASE InviteCalleeAway(w) \/ InviteStopped(w) \/ InviteTried(w)
    BY <2>4, InviteCallStep
  <2>5. CASE Ack(w) \/ Bye(w)
    BY <2>5, AckByeStep
  <2>6. CASE ResponseMoves(w) \/ ResponseEnds(w)
    BY <2>6, ResponseStep
  <2>7. CASE \/ Invalid(w) \/ Unhandled(w) \/ RegisterRefused(w) \/ RegisterChecks(w)
             \/ RegisterRechecks(w) \/ RegisterChallenged(w) \/ RegisterUnverified(w)
             \/ InviteRefused(w) \/ InviteMismatch(w) \/ NoSuchCall(w) \/ RequestMismatch(w)
             \/ ResponseLookedUp(w) \/ KeepAliveAnswered(w) \/ ResponseDropped(w)
             \/ ResponseToRegister(w) \/ WaitsForReg(w)
    BY <2>7
    DEF CallStep, callVars, Invalid, Unhandled, RegisterRefused, RegisterChecks,
        RegisterRechecks, RegisterChallenged, RegisterUnverified, InviteRefused,
        InviteMismatch, NoSuchCall, RequestMismatch, ResponseLookedUp, KeepAliveAnswered,
        ResponseDropped, ResponseToRegister, WaitsForReg
  <2> QED
    BY <2>1, <2>2, <2>3, <2>4, <2>5, <2>6, <2>7 DEF Handle
<1>2. CASE (\E t \in Thread : SendOrClose(t)) \/ CleanupThread
  BY <1>2, CloseStep
<1>3. CASE \/ MainLoop \/ KeepAliveThread \/ \E s \in Sock : Vanish(s)
           \/ \E u \in Uri : RegistrationExpires(u)
  BY <1>3
  DEF CallStep, callVars, MainLoop, Accept, Handshake, Select, Receive, Hangup, Shutdown,
      KeepAliveThread, ProbeStarts, ProbeEvicts, ProbeTurns, ProbeSends, ProbeEnds,
      ProbePurges, Vanish, RegistrationExpires
<1>4. CASE UNCHANGED vars
  BY <1>4 DEF vars, callVars, CallStep
<1> QED
  BY <1>1, <1>2, <1>3, <1>4 DEF Next

\* While a call exists its type, uri and caller are fixed and its cseq never
\* goes back: no request, response, close or cleanup turns a call into another
\* exchange, in whatever order the threads run.
THEOREM IdentityFixed == Spec => CallIdentityFixed
<1> DEFINE A == \A c \in CallId : Known(c) /\ calls'[c] # NoCall =>
                  /\ calls'[c].type = calls[c].type
                  /\ calls'[c].uri = calls[c].uri
                  /\ calls'[c].caller = calls[c].caller
                  /\ calls'[c].cseq >= calls[c].cseq
<1>1. Shape /\ [Next]_vars => A
  <2> SUFFICES ASSUME Shape, [Next]_vars, NEW c \in CallId, Known(c), calls'[c] # NoCall
               PROVE  /\ calls'[c].type = calls[c].type
                      /\ calls'[c].uri = calls[c].uri
                      /\ calls'[c].caller = calls[c].caller
                      /\ calls'[c].cseq >= calls[c].cseq
    OBVIOUS
  <2>1. CallsOK /\ calls[c] \in Call
    BY KnownTyped DEF Shape, TypeOK
  <2>2. CASE calls'[c] = calls[c]
    BY <2>1, <2>2 DEF Call
  <2>3. CASE calls'[c] # calls[c]
    <3>1. PICK new : calls' = [calls EXCEPT ![c] = new] /\ Continues(c, new)
      BY <2>1, <2>3, CallSteps DEF CallStep, CallsOK
    <3>2. calls'[c] = new
      BY <2>1, <3>1 DEF CallsOK
    <3> QED
      BY <3>1, <3>2 DEF Continues
  <2> QED
    BY <2>2, <2>3
<1>2. Shape /\ [Next]_vars => [A]_vars
  BY <1>1
<1> QED
  BY <1>2, ShapeInvariant, PTL DEF Spec, CallIdentityFixed

-----------------------------------------------------------------------------
(* The server implements CallLifecycle *)

PhaseOf == [c \in CallId |-> IF Known(c) THEN calls[c].state ELSE "none"]
KindOf == [c \in CallId |-> IF Known(c) THEN calls[c].type ELSE "none"]

\* One call changes; the abstract state changes at that call only.
LEMMA OneCallMoves ==
  ASSUME CallsOK, NEW c \in CallId, NEW new \in Call \cup {NoCall},
         calls' = [calls EXCEPT ![c] = new]
  PROVE  /\ PhaseOf' = [PhaseOf EXCEPT ![c] = IF new # NoCall THEN new.state ELSE "none"]
         /\ KindOf' = [KindOf EXCEPT ![c] = IF new # NoCall THEN new.type ELSE "none"]
         /\ PhaseOf[c] = IF Known(c) THEN calls[c].state ELSE "none"
         /\ KindOf[c] = IF Known(c) THEN calls[c].type ELSE "none"
  BY DEF CallsOK, PhaseOf, KindOf, Known

LEMMA SameCell ==
  ASSUME NEW S, NEW f, f = [x \in S |-> f[x]], NEW c \in S, NEW g, g = [f EXCEPT ![c] = f[c]]
  PROVE  g = f
  OBVIOUS

LEMMA LifecycleStep ==
  ASSUME CallsOK, NEW c \in CallId, NEW new \in Call \cup {NoCall},
         calls' = [calls EXCEPT ![c] = new], Continues(c, new)
  PROVE  Lifecycle!Next \/ UNCHANGED <<PhaseOf, KindOf>>
<1> USE DEF Lifecycle!Next
<1>1. /\ PhaseOf' = [PhaseOf EXCEPT ![c] = IF new # NoCall THEN new.state ELSE "none"]
      /\ KindOf' = [KindOf EXCEPT ![c] = IF new # NoCall THEN new.type ELSE "none"]
      /\ PhaseOf[c] = IF Known(c) THEN calls[c].state ELSE "none"
      /\ KindOf[c] = IF Known(c) THEN calls[c].type ELSE "none"
  BY OneCallMoves
<1>2. /\ PhaseOf = [x \in CallId |-> PhaseOf[x]]
      /\ KindOf = [x \in CallId |-> KindOf[x]]
  BY DEF PhaseOf, KindOf
<1>3. Known(c) => calls[c] \in Call
  BY DEF CallsOK, Known
<1>4. CASE new = NoCall /\ ~Known(c)
  BY <1>1, <1>2, <1>4, SameCell
<1>5. CASE new = NoCall /\ Known(c)
  <2>1. KindOf[c] # "none"
    BY <1>1, <1>3, <1>5 DEF Call
  <2>2. Lifecycle!End(c)
    BY <1>1, <1>5, <2>1 DEF Lifecycle!End, PhaseOf, KindOf
  <2> QED
    BY <2>2
<1>6. CASE new # NoCall /\ ~Known(c)
  <2>1. /\ new.type \in {"REGISTER", "INVITE"}
        /\ new.state \in {"WAITING_AUTH", "TRYING"}
        /\ new.type = "REGISTER" => new.state = "WAITING_AUTH"
    BY <1>6 DEF Continues, Call
  <2>2. Lifecycle!Open(c)
    BY <1>1, <1>6, <2>1 DEF Lifecycle!Open, PhaseOf, KindOf
  <2> QED
    BY <2>2
<1>7. CASE /\ new # NoCall /\ Known(c)
           /\ new.type = calls[c].type /\ new.state = calls[c].state
  <2>1. PhaseOf' = PhaseOf
    BY <1>1, <1>2, <1>7, SameCell
  <2>2. KindOf' = KindOf
    BY <1>1, <1>2, <1>7, SameCell
  <2> QED
    BY <2>1, <2>2
<1>8. CASE /\ new # NoCall /\ Known(c)
           /\ new.type = calls[c].type /\ new.type = "INVITE"
           /\ new.state # calls[c].state /\ Follows(calls[c].state, new.state)
  <2>1. /\ KindOf[c] = "INVITE" /\ KindOf' = KindOf
        /\ PhaseOf[c] \in CallState /\ PhaseOf' = [PhaseOf EXCEPT ![c] = new.state]
    <3>1. KindOf[c] = "INVITE" /\ KindOf' = [KindOf EXCEPT ![c] = KindOf[c]]
      BY <1>1, <1>8
    <3>2. KindOf' = KindOf
      BY <1>2, <3>1, SameCell
    <3> QED
      BY <1>1, <1>3, <1>8, <3>1, <3>2 DEF Call
  <2>2. \/ new.state = "TRYING" /\ Lifecycle!Invite(c)
        \/ new.state = "WAITING_BYE" /\ Lifecycle!HangUp(c)
        \/ new.state = "RINGING" /\ Lifecycle!Ring(c)
        \/ new.state = "WAITING_ACK" /\ Lifecycle!PickUp(c)
        \/ new.state = "IN_CALL" /\ Lifecycle!Establish(c)
    BY <1>1, <1>8, <2>1
    DEF Follows, PhaseOf, KindOf, CallState, Lifecycle!Invite, Lifecycle!HangUp,
        Lifecycle!Ring, Lifecycle!PickUp, Lifecycle!Establish, Lifecycle!Move, Lifecycle!Phase
  <2> QED
    BY <2>2
<1> QED
  BY <1>4, <1>5, <1>6, <1>7, <1>8 DEF Continues

\* Seen from the calls, every step of the server is a step of the life cycle or
\* none: a call is established (IN_CALL) only by an ACK after a 200 OK after a
\* 180 RINGING, for any number of calls, sockets and threads.
THEOREM ServerImplementsLifecycle == Spec => RefinesLifecycle
<1>1. Init => Lifecycle!Init
  BY DEF Init, Lifecycle!Init, Known
<1>2. Shape /\ [Next]_vars => [Lifecycle!Next]_<<PhaseOf, KindOf>>
  <2> SUFFICES ASSUME Shape, [Next]_vars
               PROVE  Lifecycle!Next \/ UNCHANGED <<PhaseOf, KindOf>>
    OBVIOUS
  <2>1. CASE calls' = calls
    BY <2>1 DEF PhaseOf, KindOf, Known
  <2>2. CASE \E c \in CallId, new \in Call \cup {NoCall} :
               calls' = [calls EXCEPT ![c] = new] /\ Continues(c, new)
    BY <2>2, LifecycleStep DEF Shape, TypeOK
  <2> QED
    BY <2>1, <2>2, CallSteps DEF CallStep
<1>3. Shape /\ [Next]_vars =>
        [Lifecycle!Next]_<<[c \in CallId |-> IF Known(c) THEN calls[c].state ELSE "none"],
                           [c \in CallId |-> IF Known(c) THEN calls[c].type ELSE "none"]>>
  BY <1>2 DEF PhaseOf, KindOf
<1> QED
  BY <1>1, <1>3, ShapeInvariant, PTL DEF Spec, RefinesLifecycle, Lifecycle!Spec
=============================================================================
