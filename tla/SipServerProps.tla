--------------------------- MODULE SipServerProps ---------------------------
(* What SIPServer should guarantee, and the fairness of its threads.       *)
EXTENDS SipServer

-----------------------------------------------------------------------------
(* Safety *)

\* The two dictionaries of registered_user: a record filed under uri u names
\* a socket that is filed under u too, so a socket owns one record at most.
\* Every add and removal updates both, one of them by a key it looked up.
MapsAgree ==
  \A u \in Uri : valToObj[u] # NoSock => keyToVal[valToObj[u]] = u

\* The state of a call and its parties agree: a REGISTER exchange never
\* leaves WAITING_AUTH and has no callee, an INVITE past WAITING_AUTH has one,
\* so that BYE, ACK and responses have somewhere to go (bye_request,
\* ack_request and process_response send without testing for None).
CallShape ==
  \A c \in CallId : Known(c) =>
    /\ calls[c].type = "REGISTER" =>
         calls[c].state = "WAITING_AUTH" /\ calls[c].callee = NoSock
    /\ calls[c].state # "WAITING_AUTH" => calls[c].callee # NoSock

\* Somebody still works for socket s: a handler, a send or a close.
Busy(s) ==
  \/ \E w \in Worker : task[w].sock = s
  \/ \E t \in Thread : \E i \in 1..Len(stack[t]) : stack[t][i].sock = s

\* _close_connection removes the calls of the socket, and a handler that opens
\* one afterwards ends with a send that fails and closes again: a closed socket
\* that nobody works for is the caller of no call, unless the socket is still
\* registered: then getpeername raises before anything is sent.
ClosedCallerHasNoCalls ==
  \A c \in CallId :
    LET s == calls[c].caller
    IN Running /\ Known(c) /\ conn[s] = "down" /\ keyToVal[s] = NoUri => Busy(s)

\* REGISTER is answered 200 OK (register_request, under the registration lock)
\* while the socket is registered: no close, expiry or other registration of
\* it comes between add and send.
OkMeansRegistered ==
  [][\A s \in Sock :
       (/\ sent' # NoMsg /\ sent'.to = s
        /\ sent'.msg.what = "OK" /\ sent'.msg.from = ServerUri)
       => LoggedIn(s)]_vars

\* As long as a call exists it is the same exchange: its type, uri and caller
\* are those it was opened with, and its cseq never goes back, whatever
\* requests with its call-id arrive, and in whatever order.
CallIdentityFixed ==
  [][\A c \in CallId : Known(c) /\ calls'[c] # NoCall =>
       /\ calls'[c].type = calls[c].type
       /\ calls'[c].uri = calls[c].uri
       /\ calls'[c].caller = calls[c].caller
       /\ calls'[c].cseq >= calls[c].cseq]_vars

\* Somebody closes a connection of call c, or has found it broken.
Closing(c) ==
  \E t \in Thread : \E i \in 1..Len(stack[t]) :
    stack[t][i].pc # "send" /\ stack[t][i].sock \in {calls[c].caller, calls[c].callee}

\* A REGISTER handler at work on call-id c, which may since name another call:
\* it deletes what it finds.
Registering(c) ==
  \E w \in Worker : task[w].stage \in {"forget", "auth"} /\ task[w].msg.cid = c

\* An established call is neither declined, confirmed away nor idled out
\* (process_response, _cleanup_inactive_calls): unless a REGISTER has taken its
\* call-id, only closing a connection of one of its parties removes it, or it
\* first leaves IN_CALL.
EstablishedCallStays ==
  [][\A c \in CallId : (Known(c) /\ calls[c].state = "IN_CALL" /\ calls'[c] = NoCall)
                        => Closing(c) \/ Registering(c)]_vars

\* _keep_alive, "Everyone that remained has answered the keep alive": when it
\* starts to probe, no connected socket it is to probe has an open entry.
RemainingHaveAnswered ==
  prober.pc = "probe" => prober.todo \cap keepAlive = {}

\* The server loop does not end while it closes a client: start() catches any
\* exception outside of its loop and shuts the server down.
LoopSurvives == main.pc \notin {"dead", "stopped"}

-----------------------------------------------------------------------------
(* Fairness: a thread that can run does.  The locks are not fair, but every *)
(* connection may send msg_rate_limit messages per minute only, so a lock   *)
(* that is free again and again is taken in the end: strong fairness.       *)

WorkerStep(w) == Handle(w) \/ SendOrClose(w)
LoopStep == SendOrClose("main") \/ (\E w \in Worker : Receive(w)) \/ Hangup \/ Shutdown
ProberStep == SendOrClose("keepalive") \/ KeepAliveThread
CleanerStep == SendOrClose("cleanup") \/ CleanupThread

Fairness ==
  /\ \A w \in Worker : SF_vars(WorkerStep(w))
  /\ SF_vars(LoopStep) /\ SF_vars(ProberStep) /\ SF_vars(CleanerStep)

FairSpec == Spec /\ Fairness

-----------------------------------------------------------------------------
(* Liveness *)

\* Every message handed to the executor is handled to the end.
MessagesHandled == \A w \in Worker : task[w] # IdleTask ~> task[w] = IdleTask

\* _keep_alive, "remove unresponsive clients": a client that has vanished is
\* removed from the connections, for as long as the thread lives.  It ends when
\* a handshake takes too long (ProbePurges).
VanishedRemoved ==
  \A s \in Sock : s \in gone ~> (conn[s] # "up" \/ prober.pc = "dead")

-----------------------------------------------------------------------------
(* The life cycle of each call-id, as an abstract specification *)

Lifecycle == INSTANCE CallLifecycle WITH
  phase <- [c \in CallId |-> IF Known(c) THEN calls[c].state ELSE "none"],
  kind <- [c \in CallId |-> IF Known(c) THEN calls[c].type ELSE "none"]

\* Every step of the server is, for the calls, one step of the life cycle or
\* none: IN_CALL is reached through TRYING, RINGING and WAITING_ACK only.
RefinesLifecycle == Lifecycle!Spec
=============================================================================
