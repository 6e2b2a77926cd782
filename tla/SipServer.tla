----------------------------- MODULE SipServer ------------------------------
(***************************************************************************)
(* SIPServer (server/serverFINAL.py): the server loop, the request and     *)
(* response handlers that the executor's threads run, and the daemon       *)
(* threads.  Clients are open: the client of s sends any message of        *)
(* Menu[s], in any order, whenever the loop reads s.                       *)
(***************************************************************************)
EXTENDS ServerCore

Init ==
  /\ conn = [s \in Sock |-> IF s \in ConnectedAtStart THEN "up" ELSE "new"]
  /\ gone = {}
  /\ keyToVal = [s \in Sock |-> IF \E u \in Uri : RegisteredAtStart[u] = s
                                THEN CHOOSE u \in Uri : RegisteredAtStart[u] = s
                                ELSE NoUri]
  /\ valToObj = RegisteredAtStart
  /\ calls = [c \in CallId |-> NoCall]
  /\ pendingAuth = {}
  /\ keepAlive = {}
  /\ main = IdleMain
  /\ prober = [pc |-> "idle", todo |-> {}]
  /\ cleaner = [pc |-> "idle", cid |-> NoCall, callee |-> NoSock]
  /\ task = [w \in Worker |-> IdleTask]
  /\ stack = [t \in Thread |-> <<>>]
  /\ holds = [t \in Thread |-> {}]
  /\ sent = NoMsg

-----------------------------------------------------------------------------
(* Stages of a handler.  Each conjunct Quiet says that the step itself     *)
(* puts nothing on the wire: sends are frames that SendOrClose runs.       *)

Quiet == sent' = NoMsg

\* Worker w is about to run a stage of the handler of a message of kind k.
Runs(w, stage, kinds) ==
  /\ task[w].stage = stage
  /\ stack[w] = <<>>
  /\ task[w].msg.what \in kinds

\* The handler runs the frames fs, then continues with stage; the locks ls
\* are held meanwhile.
Leave(w, stage, fs, ls) ==
  /\ task' = IF stage = "done" /\ fs = <<>> THEN [task EXCEPT ![w] = IdleTask]
             ELSE [task EXCEPT ![w].stage = stage]
  /\ stack' = [stack EXCEPT ![w] = fs]
  /\ holds' = [holds EXCEPT ![w] = ls]
  /\ UNCHANGED <<netVars, main, prober, cleaner>>
  /\ Quiet

AnswerVariant(w, what, ls) ==
  Leave(w, "done", <<Send(task[w].sock, Reply(task[w].msg, what))>>, {})
Answer(w, what, ls) ==
  Leave(w, "done", <<Send(task[w].sock, Reply(task[w].msg, what))>>, ls)

\* An exception, or a return with nothing to send.
Drop(w) == Leave(w, "done", <<>>, {})

\* The request belongs to call c as its next request, from its caller.
NextOfCallerVariant(m, s, type, uri) ==
  /\ calls[m.cid].uri = uri
  /\ calls[m.cid].type = type
  /\ calls[m.cid].caller = s
NextOfCaller(m, s, type, uri) ==
  /\ m.cseq = calls[m.cid].cseq + 1
  /\ calls[m.cid].uri = uri
  /\ calls[m.cid].type = type
  /\ calls[m.cid].caller = s

NewCall(m, s, type, uri) ==
  [type |-> type, uri |-> uri, state |-> "WAITING_AUTH", cseq |-> m.cseq,
   caller |-> s, callee |-> NoSock]

\* The call a request continues, or the one it opens.  An existing call keeps
\* its cseq: neither invite_request nor register_request updates it.
CallOf(m, s, type, uri) == IF Known(m.cid) THEN calls[m.cid] ELSE NewCall(m, s, type, uri)

-----------------------------------------------------------------------------
(* process_request: malformed requests and methods nobody handles *)

Invalid(w) ==
  /\ Runs(w, "start", {"INVALID"})
  /\ Leave(w, "bump", <<Send(task[w].sock, Reply(task[w].msg, "BAD_REQUEST"))>>, {})
  /\ UNCHANGED <<regVars, callVars, keepAlive>>

\* The cseq of the call named moves on; an unknown call is a KeyError.
BumpCSeq(w) ==
  LET c == task[w].msg.cid IN
  /\ Runs(w, "bump", {"INVALID"})
  /\ Free("call", w)
  /\ calls' = IF Known(c) /\ calls[c].cseq < MaxCSeq
              THEN [calls EXCEPT ![c].cseq = @ + 1] ELSE calls
  /\ Drop(w)
  /\ UNCHANGED <<regVars, pendingAuth, keepAlive>>

Unhandled(w) ==
  /\ Runs(w, "start", {"CANCEL"})
  /\ Drop(w)
  /\ UNCHANGED <<regVars, callVars, keepAlive>>

-----------------------------------------------------------------------------
(* register_request: three regions, under the call lock, under the         *)
(* registration lock, and under both, with nothing held in between         *)

RegisterRefused(w) ==
  LET m == task[w].msg IN
  /\ Runs(w, "start", {"REGISTER"})
  /\ \/ m.to # ServerUri /\ Answer(w, "BAD_GATEWAY", {})
     \/ m.to = ServerUri /\ m.from \notin Users /\ Answer(w, "NOT_FOUND", {})
  /\ UNCHANGED <<regVars, callVars, keepAlive>>

RegisterOpens(w) ==
  LET m == task[w].msg
      s == task[w].sock
  IN /\ Runs(w, "start", {"REGISTER"})
     /\ m.to = ServerUri /\ m.from \in Users
     /\ Free("call", w)
     /\ IF Known(m.cid) /\ ~NextOfCaller(m, s, "REGISTER", m.from)
        THEN Answer(w, "BAD_REQUEST", {"call"}) /\ UNCHANGED calls
        ELSE /\ calls' = [calls EXCEPT ![m.cid] = CallOf(m, s, "REGISTER", m.from)]
             /\ Leave(w, "check", <<>>, {})
     /\ UNCHANGED <<regVars, pendingAuth, keepAlive>>

\* getpeername raises on a closed socket.
RegisterChecks(w) ==
  LET m == task[w].msg
      s == task[w].sock
      own == LoggedIn(s) /\ keyToVal[s] = m.from
      ok == <<Send(s, Reply(m, "OK"))>>
      forbidden == <<Send(s, Reply(m, "FORBIDDEN"))>>
  IN /\ Runs(w, "check", {"REGISTER"})
     /\ Free("reg", w)
     /\ \/ own /\ conn[s] = "down" /\ Drop(w) /\ UNCHANGED regVars
        \/ /\ own /\ conn[s] # "down"
           /\ Add(s, m.from)
           /\ Leave(w, "recheck", ok, {"reg"})
        \/ /\ ~own /\ Taken(m.from)
           /\ Leave(w, "forget", forbidden, {"reg"})
           /\ UNCHANGED regVars
        \/ /\ ~own /\ ~Taken(m.from)
           /\ Leave(w, "auth", <<>>, {})
           /\ UNCHANGED regVars
     /\ UNCHANGED <<callVars, keepAlive>>

\* Still under the registration lock: the test "someone is registered to the
\* uri already" follows the 200 OK of the socket's own registration.
RegisterRechecks(w) ==
  LET m == task[w].msg IN
  /\ Runs(w, "recheck", {"REGISTER"})
  /\ Leave(w, "forget",
           IF Taken(m.from) THEN <<Send(task[w].sock, Reply(m, "FORBIDDEN"))>> ELSE <<>>,
           {"reg"})
  /\ UNCHANGED <<regVars, callVars, keepAlive>>

\* `del self.active_calls[call_id]`, without the call lock.
RegisterForgets(w) ==
  /\ Runs(w, "forget", {"REGISTER"})
  /\ calls' = [calls EXCEPT ![task[w].msg.cid] = NoCall]
  /\ Drop(w)
  /\ UNCHANGED <<regVars, pendingAuth, keepAlive>>

\* No header: the challenge is stored under the call lock, sent without it.
\* A header without a challenge: both under the call lock.
RegisterChallenged(w) ==
  LET m == task[w].msg IN
  /\ Runs(w, "auth", {"REGISTER"})
  /\ Free("call", w)
  /\ m.auth = "none" \/ m.cid \notin pendingAuth
  /\ pendingAuth' = pendingAuth \cup {m.cid}
  /\ Answer(w, "UNAUTHORIZED", IF m.auth = "none" THEN {} ELSE {"call"})
  /\ UNCHANGED <<regVars, calls, keepAlive>>

RegisterUnverified(w) ==
  LET m == task[w].msg IN
  /\ Runs(w, "auth", {"REGISTER"})
  /\ Free("call", w)
  /\ m.cid \in pendingAuth
  /\ \/ m.auth = "malformed" /\ Answer(w, "BAD_REQUEST", {"call"})
     \/ m.auth = "wrong" /\ Answer(w, "FORBIDDEN", {"call"})
  /\ UNCHANGED <<regVars, callVars, keepAlive>>

\* The right response.  The uri is not looked up again.
RegisterVerified(w) ==
  LET m == task[w].msg
      s == task[w].sock
  IN /\ Runs(w, "auth", {"REGISTER"})
     /\ Free("call", w)
     /\ m.cid \in pendingAuth /\ m.auth = "right"
     /\ pendingAuth' = pendingAuth \ {m.cid}
     /\ calls' = [calls EXCEPT ![m.cid] = NoCall]
     /\ \/ ~Known(m.cid) /\ Drop(w) /\ UNCHANGED regVars        \* KeyError
        \/ /\ Known(m.cid) /\ Free("reg", w)
           /\ IF conn[s] = "down"                      \* getpeername raises
              THEN /\ IF LoggedIn(s) THEN RemoveByKey(s) ELSE UNCHANGED regVars
                   /\ Drop(w)
              ELSE Replace(s, m.from) /\ Answer(w, "OK", {"call", "reg"})
     /\ UNCHANGED keepAlive

-----------------------------------------------------------------------------
(* invite_request: one region, under the call lock *)

InviteRefused(w) ==
  LET m == task[w].msg IN
  /\ Runs(w, "start", {"INVITE"})
  /\ \/ m.from \notin Users /\ Answer(w, "NOT_FOUND", {})
     \/ m.from \in Users /\ m.from = m.to /\ Answer(w, "BAD_REQUEST", {})
  /\ UNCHANGED <<regVars, callVars, keepAlive>>

\* The request is in order so far; the rest of the handler may run.
InviteRuns(w) ==
  LET m == task[w].msg IN
  /\ Runs(w, "start", {"INVITE"})
  /\ m.from \in Users /\ m.from # m.to
  /\ Free("call", w)

FitsCall(w) ==
  LET m == task[w].msg
  IN Known(m.cid) => NextOfCaller(m, task[w].sock, "INVITE", m.to)

InviteMismatch(w) ==
  /\ InviteRuns(w)
  /\ ~FitsCall(w)
  /\ Answer(w, "BAD_REQUEST", {"call"})
  /\ UNCHANGED <<regVars, callVars, keepAlive>>

\* 404 under both locks; the call that the request opened stays.
InviteCalleeAway(w) ==
  LET m == task[w].msg IN
  /\ InviteRuns(w) /\ FitsCall(w)
  /\ Free("reg", w)
  /\ ~Taken(m.to)
  /\ calls' = [calls EXCEPT ![m.cid] = CallOf(m, task[w].sock, "INVITE", m.to)]
  /\ Answer(w, "NOT_FOUND", {"call", "reg"})
  /\ UNCHANGED <<regVars, pendingAuth, keepAlive>>

\* is_auth: somebody is registered as `from`, and this socket as anybody.
Authenticated(w) == Taken(task[w].msg.from) /\ LoggedIn(task[w].sock)

\* A response is checked against the digest for REGISTER while the challenge
\* was made for INVITE: no response to it is ever accepted.
InviteStopped(w) ==
  LET m == task[w].msg
      s == task[w].sock
      call == [CallOf(m, s, "INVITE", m.to) EXCEPT !.callee = valToObj[m.to]]
  IN /\ InviteRuns(w) /\ FitsCall(w)
     /\ Free("reg", w)
     /\ Taken(m.to) /\ ~Authenticated(w)
     /\ calls' = [calls EXCEPT ![m.cid] = call]
     /\ \/ /\ m.auth # "none" /\ m.cid \notin pendingAuth
           /\ pendingAuth' = pendingAuth \cup {m.cid}
           /\ Answer(w, "UNAUTHORIZED", {"call"})
        \/ /\ m.auth \in {"wrong", "right"} /\ m.cid \in pendingAuth
           /\ UNCHANGED pendingAuth
           /\ Answer(w, "FORBIDDEN", {"call"})
     /\ UNCHANGED <<regVars, keepAlive>>

\* What an unauthenticated caller is told before the handler goes on.
Objection(w) ==
  LET m == task[w].msg
      s == task[w].sock
  IN IF Authenticated(w) THEN <<>>
     ELSE IF m.auth = "none" THEN <<Send(s, Reply(m, "UNAUTHORIZED"))>>
     ELSE <<Send(s, Reply(m, "BAD_REQUEST"))>>

\* The call is tried: relayed to the callee, 100 to the caller; without a
\* body, 400 with the call left in TRYING.  A challenge just stored goes.
InviteTried(w) ==
  LET m == task[w].msg
      s == task[w].sock
      callee == valToObj[m.to]
      call == [CallOf(m, s, "INVITE", m.to) EXCEPT !.callee = callee, !.state = "TRYING"]
      relayed == <<Send(callee, Relay(m)), Send(call.caller, Reply(m, "TRYING"))>>
  IN /\ InviteRuns(w) /\ FitsCall(w)
     /\ Free("reg", w)
     /\ Taken(m.to)
     /\ \/ Authenticated(w)
        \/ m.auth = "none"
        \/ m.auth = "malformed" /\ m.cid \in pendingAuth
     /\ calls' = [calls EXCEPT ![m.cid] = call]
     /\ pendingAuth' = pendingAuth \ {m.cid}
     /\ Leave(w, "done",
              Objection(w) \o (IF m.body THEN relayed
                               ELSE <<Send(s, Reply(m, "BAD_REQUEST"))>>),
              {"call"})
     /\ UNCHANGED <<regVars, keepAlive>>

-----------------------------------------------------------------------------
(* ack_request and bye_request: under the call lock *)

\* An unknown call: ACK ends quietly, BYE with an UnboundLocalError.
NoSuchCall(w) ==
  /\ Runs(w, "start", {"ACK", "BYE"})
  /\ Free("call", w)
  /\ ~Known(task[w].msg.cid)
  /\ Drop(w)
  /\ UNCHANGED <<regVars, callVars, keepAlive>>

AckFits(w) ==
  LET m == task[w].msg IN NextOfCaller(m, task[w].sock, "INVITE", m.to)

\* `or` binds weaker than `and`: the state counts for a REGISTER call only,
\* and the sender's socket not at all.
ByeFits(w) ==
  LET m == task[w].msg
      call == calls[m.cid]
  IN /\ m.cseq = call.cseq + 1
     /\ call.uri \in {m.from, m.to}
     /\ call.type = "INVITE" \/ call.state = "IN_CALL"

RequestMismatch(w) ==
  /\ Runs(w, "start", {"ACK", "BYE"})
  /\ Free("call", w)
  /\ Known(task[w].msg.cid)
  /\ ~IF task[w].msg.what = "ACK" THEN AckFits(w) ELSE ByeFits(w)
  /\ Answer(w, "BAD_REQUEST", {"call"})
  /\ UNCHANGED <<regVars, callVars, keepAlive>>

Ack(w) ==
  LET m == task[w].msg
      call == calls[m.cid]
      answered == call.state = "WAITING_ACK"
  IN /\ Runs(w, "start", {"ACK"})
     /\ Free("call", w)
     /\ Known(m.cid) /\ AckFits(w)
     /\ calls' = [calls EXCEPT ![m.cid].cseq = m.cseq,
                               ![m.cid].state = IF answered THEN "IN_CALL" ELSE @]
     /\ IF answered THEN Leave(w, "done", <<Send(call.callee, Relay(m))>>, {"call"})
                    ELSE Drop(w)
     /\ UNCHANGED <<regVars, pendingAuth, keepAlive>>

\* A call without a callee: the cseq moves, then None.encrypt raises.
Bye(w) ==
  LET m == task[w].msg
      peer == OtherSide(m.cid, task[w].sock)
  IN /\ Runs(w, "start", {"BYE"})
     /\ Free("call", w)
     /\ Known(m.cid) /\ ByeFits(w)
     /\ IF peer = NoSock
        THEN /\ calls' = [calls EXCEPT ![m.cid].cseq = m.cseq]
             /\ Drop(w)
        ELSE /\ calls' = [calls EXCEPT ![m.cid].cseq = m.cseq,
                                       ![m.cid].state = "WAITING_BYE"]
             /\ Leave(w, "done", <<Send(peer, Relay(m))>>, {"call"})
     /\ UNCHANGED <<regVars, pendingAuth, keepAlive>>

-----------------------------------------------------------------------------
(* process_response: the call is looked up under the call lock, and again  *)
(* after the lock was released                                             *)

\* not_valid is None by then: each error branch raises, nothing is sent.
ResponseMatches(w) ==
  LET m == task[w].msg IN
  /\ m.from # m.to
  /\ IF m.cid = KeepAliveId THEN task[w].sock \in keepAlive
     ELSE Known(m.cid) /\ m.cseq = calls[m.cid].cseq

ResponseLookedUp(w) ==
  /\ Runs(w, "start", ResponseKind)
  /\ Free("call", w)
  /\ IF ResponseMatches(w) THEN Leave(w, "respond", <<>>, {}) ELSE Drop(w)
  /\ UNCHANGED <<regVars, callVars, keepAlive>>

\* A probe's call id is the key of the entry of the socket it was sent to.
KeepAliveAnswered(w) ==
  LET m == task[w].msg
      s == task[w].sock
  IN /\ Runs(w, "respond", ResponseKind)
     /\ m.cid = KeepAliveId
     /\ s \in keepAlive => Free("conn", w)
     /\ keepAlive' = IF m.what = "OK" /\ m.cseq = 1 THEN keepAlive \ {s} ELSE keepAlive
     /\ Drop(w)
     /\ UNCHANGED <<regVars, callVars>>

ResponseRuns(w) ==
  /\ Runs(w, "respond", ResponseKind)
  /\ task[w].msg.cid # KeepAliveId
  /\ Free("call", w)

Forward(w) ==
  LET call == calls[task[w].msg.cid]
  IN Send(IF task[w].sock # call.caller THEN call.caller ELSE call.callee,
          Relay(task[w].msg))

\* State and status of a response that moves the call to another state.
ResponseMoveVariant ==
  {<<"TRYING", "RINGING", "RINGING">>, <<"RINGING", "OK", "WAITING_ACK">>,
   <<"TRYING", "OK", "WAITING_ACK">>}
ResponseMove ==
  {<<"TRYING", "RINGING", "RINGING">>, <<"RINGING", "OK", "WAITING_ACK">>}
\* ... and of one that removes it.
ResponseEnd == {<<"RINGING", "DECLINE">>, <<"WAITING_BYE", "OK">>}

\* An OK without a body moves the call and is then not forwarded.
ResponseMoves(w) ==
  LET m == task[w].msg IN
  /\ ResponseRuns(w)
  /\ Known(m.cid) /\ calls[m.cid].type = "INVITE"
  /\ \E next \in CallState :
       /\ <<calls[m.cid].state, m.what, next>> \in ResponseMove
       /\ calls' = [calls EXCEPT ![m.cid].state = next]
  /\ IF m.what = "OK" /\ ~m.body THEN Drop(w)
     ELSE Leave(w, "done", <<Forward(w)>>, {"call"})
  /\ UNCHANGED <<regVars, pendingAuth, keepAlive>>

ResponseEnds(w) ==
  LET m == task[w].msg IN
  /\ ResponseRuns(w)
  /\ Known(m.cid) /\ calls[m.cid].type = "INVITE"
  /\ <<calls[m.cid].state, m.what>> \in ResponseEnd
  /\ calls' = [calls EXCEPT ![m.cid] = NoCall]
  /\ Leave(w, "done", <<Forward(w)>>, {"call"})
  /\ UNCHANGED <<regVars, pendingAuth, keepAlive>>

\* The call is gone by now, or in no state for this response.
ResponseDropped(w) ==
  LET m == task[w].msg IN
  /\ ResponseRuns(w)
  /\ Known(m.cid) =>
       /\ calls[m.cid].type = "INVITE"
       /\ \A next \in CallState : <<calls[m.cid].state, m.what, next>> \notin ResponseMove
       /\ <<calls[m.cid].state, m.what>> \notin ResponseEnd
  /\ Drop(w)
  /\ UNCHANGED <<regVars, callVars, keepAlive>>

ResponseToRegister(w) ==
  LET m == task[w].msg IN
  /\ ResponseRuns(w)
  /\ Known(m.cid) /\ calls[m.cid].type = "REGISTER"
  /\ Answer(w, "NOT_ACCEPTABLE", {"call"})
  /\ UNCHANGED <<regVars, callVars, keepAlive>>

\* A handler that takes the registration lock inside the call lock may have
\* to wait for it, with the call lock held.
WaitsForReg(w) ==
  /\ \/ InviteRuns(w) /\ FitsCall(w)
     \/ /\ Runs(w, "auth", {"REGISTER"}) /\ Free("call", w)
        /\ task[w].msg.auth = "right" /\ task[w].msg.cid \in pendingAuth
  /\ ~Free("reg", w)
  /\ holds[w] = {}
  /\ holds' = [holds EXCEPT ![w] = {"call"}]
  /\ Quiet
  /\ UNCHANGED <<netVars, regVars, callVars, keepAlive,
                 main, prober, cleaner, task, stack>>

Handle(w) ==
  \/ Invalid(w) \/ BumpCSeq(w) \/ Unhandled(w)
  \/ RegisterRefused(w) \/ RegisterOpens(w) \/ RegisterChecks(w)
  \/ RegisterRechecks(w) \/ RegisterForgets(w)
  \/ RegisterChallenged(w) \/ RegisterUnverified(w) \/ RegisterVerified(w)
  \/ InviteRefused(w) \/ InviteMismatch(w) \/ InviteCalleeAway(w)
  \/ InviteStopped(w) \/ InviteTried(w)
  \/ NoSuchCall(w) \/ RequestMismatch(w) \/ Ack(w) \/ Bye(w)
  \/ ResponseLookedUp(w) \/ KeepAliveAnswered(w) \/ ResponseMoves(w)
  \/ ResponseEnds(w) \/ ResponseDropped(w) \/ ResponseToRegister(w)
  \/ WaitsForReg(w)

-----------------------------------------------------------------------------
(* start: the server loop *)

Accept(s) ==
  /\ main.pc = "idle" /\ Free("conn", "main")
  /\ conn[s] = "new"
  /\ conn' = [conn EXCEPT ![s] = "crypt"]
  /\ Quiet
  /\ UNCHANGED <<gone, regVars, callVars, keepAlive, threadVars>>

\* The AES key arrives.
Handshake(s) ==
  /\ main.pc = "idle" /\ Free("conn", "main")
  /\ conn[s] = "crypt"
  /\ conn' = [conn EXCEPT ![s] = "up"]
  /\ Quiet
  /\ UNCHANGED <<gone, regVars, callVars, keepAlive, threadVars>>

\* select returns s; the lock is released and taken again before s is read.
Select(s) ==
  /\ main.pc = "idle" /\ Free("conn", "main")
  /\ conn[s] = "up"
  /\ s \notin gone => Menu[s] # {} \/ s \in Unruly
  /\ main' = [pc |-> "ready", sock |-> s]
  /\ Quiet
  /\ UNCHANGED <<netVars, regVars, callVars, keepAlive,
                 prober, cleaner, task, stack, holds>>

\* The executor's queue is not modelled: a message is read when a thread of
\* the executor is free for it.
Receive(w) ==
  /\ main.pc = "ready" /\ Free("conn", "main")
  /\ conn[main.sock] # "down" /\ main.sock \notin gone
  /\ task[w] = IdleTask
  /\ \E m \in Menu[main.sock] :
       task' = [task EXCEPT ![w] = [sock |-> main.sock, msg |-> m, stage |-> "start"]]
  /\ main' = IdleMain
  /\ Quiet
  /\ UNCHANGED <<netVars, regVars, callVars, keepAlive, prober, cleaner, stack, holds>>

\* End of stream, an unreadable message, too many messages, or a socket that
\* another thread closed since select.
Hangup ==
  /\ main.pc = "ready" /\ Free("conn", "main")
  /\ main.sock \in gone \cup Unruly \/ conn[main.sock] = "down"
  /\ main' = [main EXCEPT !.pc = "closing"]
  /\ stack' = [stack EXCEPT !["main"] = <<Close(main.sock)>>]
  /\ holds' = [holds EXCEPT !["main"] = {"conn"}]
  /\ Quiet
  /\ UNCHANGED <<netVars, regVars, callVars, keepAlive, prober, cleaner, task>>

\* The finally clause: the executor is drained, every connection closed.
Shutdown ==
  /\ main.pc = "dead"
  /\ \A w \in Worker : task[w] = IdleTask
  /\ Free("conn", "main")
  /\ main' = [pc |-> "stopped", sock |-> NoSock]
  /\ conn' = [s \in Sock |-> IF conn[s] = "up" THEN "down" ELSE conn[s]]
  /\ Quiet
  /\ UNCHANGED <<gone, regVars, callVars, keepAlive, prober, cleaner,
                 task, stack, holds>>

MainLoop ==
  \/ \E s \in Sock : Accept(s) \/ Handshake(s) \/ Select(s)
  \/ \E w \in Worker : Receive(w)
  \/ Hangup \/ Shutdown

-----------------------------------------------------------------------------
(* The daemon threads *)

Running == main.pc # "stopped"
ConnectedVariant == {s \in Sock : conn[s] = "up" /\ LoggedIn(s)}
Connected == {s \in Sock : conn[s] = "up"}

\* The entries a pass of _keep_alive checks.
UnansweredVariant == {s \in keepAlive : LoggedIn(s)}
Unanswered == keepAlive

\* _keep_alive: one pass holds the connection lock throughout.
ProbeStarts ==
  /\ "keepalive" \in Daemons /\ Running
  /\ prober.pc = "idle" /\ Free("conn", "keepalive")
  /\ prober' = [pc |-> "evict", todo |-> Unanswered]
  /\ holds' = [holds EXCEPT !["keepalive"] = {"conn"}]
  /\ Quiet
  /\ UNCHANGED <<netVars, regVars, callVars, keepAlive, main, cleaner, task, stack>>

\* An unanswered probe: only a socket still connected loses its entry.
ProbeEvicts(s) ==
  /\ prober.pc = "evict" /\ stack["keepalive"] = <<>>
  /\ s \in prober.todo
  /\ prober' = [prober EXCEPT !.todo = @ \ {s}]
  /\ IF conn[s] = "up"
     THEN /\ keepAlive' = keepAlive \ {s}
          /\ stack' = [stack EXCEPT !["keepalive"] = <<Close(s)>>]
     ELSE UNCHANGED <<keepAlive, stack>>
  /\ Quiet
  /\ UNCHANGED <<netVars, regVars, callVars, main, cleaner, task, holds>>

ProbeTurns ==
  /\ prober.pc = "evict" /\ stack["keepalive"] = <<>>
  /\ prober.todo = {}
  /\ prober' = [pc |-> "probe", todo |-> Connected]
  /\ Quiet
  /\ UNCHANGED <<netVars, regVars, callVars, keepAlive, main, cleaner, task, stack, holds>>

Options == [what |-> "OPTIONS", cid |-> KeepAliveId, cseq |-> 1, from |-> ServerUri]

ProbeSends(s) ==
  /\ prober.pc = "probe" /\ stack["keepalive"] = <<>>
  /\ s \in prober.todo
  /\ prober' = [prober EXCEPT !.todo = @ \ {s}]
  /\ keepAlive' = keepAlive \cup {s}
  /\ stack' = [stack EXCEPT !["keepalive"] = <<Send(s, Options)>>]
  /\ Quiet
  /\ UNCHANGED <<netVars, regVars, callVars, main, cleaner, task, holds>>

\* The pass ends and the lock with it; then handshakes that take too long are
\* dropped from pending_crypt while iterating over it, which raises.  So does
\* an entry that the server loop adds or removes meanwhile.
ProbeEnds ==
  /\ prober.pc = "probe" /\ stack["keepalive"] = <<>>
  /\ prober.todo = {}
  /\ prober' = [pc |-> "purge", todo |-> {}]
  /\ holds' = [holds EXCEPT !["keepalive"] = {}]
  /\ Quiet
  /\ UNCHANGED <<netVars, regVars, callVars, keepAlive, main, cleaner, task, stack>>

ProbePurges ==
  /\ prober.pc = "purge"
  /\ \/ /\ prober' = [prober EXCEPT !.pc = "idle"]
        /\ UNCHANGED conn
     \/ \E s \in Sock :
          /\ conn[s] = "crypt"
          /\ conn' \in {conn, [conn EXCEPT ![s] = "off"]}
          /\ prober' = [prober EXCEPT !.pc = "dead"]
  /\ Quiet
  /\ UNCHANGED <<gone, regVars, callVars, keepAlive, main, cleaner, task, stack, holds>>

MayExpireVariant(c) == Known(c)
MayExpire(c) == Known(c) /\ calls[c].state # "IN_CALL"

\* _cleanup_inactive_calls: call c has been idle for CALL_IDLE_LIMIT.
IdleCallFound(c) ==
  /\ "cleanup" \in Daemons /\ Running
  /\ cleaner.pc = "idle" /\ Free("call", "cleanup")
  /\ MayExpire(c)
  /\ cleaner' = [pc |-> "first", cid |-> c, callee |-> calls[c].callee]
  /\ stack' = [stack EXCEPT !["cleanup"] = <<Send(calls[c].caller, Gone(c))>>]
  /\ holds' = [holds EXCEPT !["cleanup"] = {"call"}]
  /\ Quiet
  /\ UNCHANGED <<netVars, regVars, callVars, keepAlive, main, prober, task>>

\* The first `del`; a KeyError if the send closed the caller.
IdleCallRemoved ==
  LET c == cleaner.cid IN
  /\ cleaner.pc = "first" /\ stack["cleanup"] = <<>>
  /\ \/ ~Known(c) /\ Raise("cleanup") /\ UNCHANGED callVars
     \/ /\ Known(c)
        /\ calls' = [calls EXCEPT ![c] = NoCall]
        /\ IF cleaner.callee = NoSock
           THEN /\ cleaner' = [pc |-> "idle", cid |-> NoCall, callee |-> NoSock]
                /\ holds' = [holds EXCEPT !["cleanup"] = {}]
                /\ UNCHANGED stack
           ELSE /\ cleaner' = [cleaner EXCEPT !.pc = "second"]
                /\ stack' = [stack EXCEPT !["cleanup"] = <<Send(cleaner.callee, Gone(c))>>]
                /\ UNCHANGED holds
        /\ UNCHANGED <<pendingAuth, main, prober, task>>
  /\ Quiet
  /\ UNCHANGED <<netVars, regVars, keepAlive>>

\* The second `del` of the same call: always a KeyError.
IdleCallRemovedTwice ==
  /\ cleaner.pc = "second" /\ stack["cleanup"] = <<>>
  /\ Raise("cleanup")
  /\ Quiet
  /\ UNCHANGED <<netVars, regVars, callVars, keepAlive>>

\* _cleanup_expired_reg
RegistrationExpires(u) ==
  /\ "registrations" \in Daemons /\ Running
  /\ Taken(u)
  /\ \A t \in Thread : "reg" \notin holds[t]
  /\ RemoveByVal(u)
  /\ Quiet
  /\ UNCHANGED <<netVars, callVars, keepAlive, threadVars>>

KeepAliveThread ==
  \/ ProbeStarts \/ ProbeTurns \/ ProbeEnds \/ ProbePurges
  \/ \E s \in Sock : ProbeEvicts(s) \/ ProbeSends(s)

CleanupThread ==
  \/ IdleCallRemoved \/ IdleCallRemovedTwice
  \/ \E c \in CallId : IdleCallFound(c)

-----------------------------------------------------------------------------
(* The environment and the whole server *)

Vanish(s) ==
  /\ s \in Unruly \ gone
  /\ conn[s] = "up"
  /\ gone' = gone \cup {s}
  /\ Quiet
  /\ UNCHANGED <<conn, regVars, callVars, keepAlive, threadVars>>

Next ==
  \/ \E w \in Worker : Handle(w)
  \/ \E t \in Thread : SendOrClose(t)
  \/ MainLoop \/ KeepAliveThread \/ CleanupThread
  \/ \E u \in Uri : RegistrationExpires(u)
  \/ \E s \in Sock : Vanish(s)

Spec == Init /\ [][Next]_vars

-----------------------------------------------------------------------------
(* Types, with what a thread at work may count on: a busy executor thread  *)
(* has a message of its client, the loop and the cleaner a socket, a call. *)

NetOK ==
  /\ conn \in [Sock -> {"new", "crypt", "up", "off", "down"}]
  /\ gone \subseteq Sock

RegOK ==
  /\ keyToVal \in [Sock -> Uri \cup {NoUri}]
  /\ valToObj \in [Uri -> Sock \cup {NoSock}]

CallsOK ==
  /\ calls \in [CallId -> Call \cup {NoCall}]
  /\ pendingAuth \subseteq CallId

TaskOK ==
  /\ task \in [Worker -> Task]
  /\ \A w \in Worker : task[w].stage # "idle" =>
       task[w].sock \in Sock /\ task[w].msg \in Menu[task[w].sock]

StackOK ==
  /\ stack \in [Thread -> Seq(Frame)]
  /\ holds \in [Thread -> SUBSET Lock]

LoopOK ==
  /\ main \in [pc : {"idle", "ready", "closing", "dead", "stopped"},
               sock : Sock \cup {NoSock}]
  /\ main.pc \in {"ready", "closing"} => main.sock \in Sock

ProberOK == prober \in [pc : {"idle", "evict", "probe", "purge", "dead"},
                       todo : SUBSET Sock]

CleanerOK ==
  /\ cleaner \in [pc : {"idle", "first", "second", "dead"},
                  cid : CallId \cup {NoCall}, callee : Sock \cup {NoSock}]
  /\ cleaner.pc \in {"first", "second"} => cleaner.cid \in CallId

SentOK == sent \in [to : Sock, msg : ServerMsg] \cup {NoMsg}

TypeOK ==
  /\ NetOK /\ RegOK /\ CallsOK /\ keepAlive \subseteq Sock
  /\ TaskOK /\ StackOK /\ LoopOK /\ ProberOK /\ CleanerOK /\ SentOK
=============================================================================
