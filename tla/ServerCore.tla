----------------------------- MODULE ServerCore -----------------------------
(***************************************************************************)
(* The state of SIPServer (server/serverFINAL.py), the registration map,   *)
(* the three locks, and the two routines that every thread of the server   *)
(* runs: _send_to_client and _close_connection.                            *)
(*                                                                         *)
(* A thread that must still send or close keeps that work on a stack:      *)
(* stack[t] is the call stack of thread t seen from its handler, top       *)
(* first.  A send that fails turns into a close of its receiver, inside    *)
(* the locks the thread holds, and a close may send again.  A handler's    *)
(* next statement runs when the thread's stack is empty.                   *)
(***************************************************************************)
EXTENDS Naturals, Sequences, FiniteSets

CONSTANTS
  Sock,         \* server side sockets (EncryptedSocket objects)
  Uri,          \* user names
  Users,        \* those in the user database
  CallId,       \* call ids chosen by clients
  Worker,       \* threads of the executor (MAX_WORKERS of them)
  Menu,         \* Menu[s]: the messages the client of s may send
  Unruly,       \* sockets whose client may vanish or break the protocol
  Daemons,      \* daemon threads whose timer may fire
  MaxCSeq,      \* bound on the sequence number an invalid request bumps
  ConnectedAtStart,   \* sockets whose handshake is over at the start
  RegisteredAtStart,  \* [Uri -> Sock \cup {NoSock}]: registrations then
  KeepAliveId,  \* stands for the random call ids of keep-alive probes
  ServerUri, NoSock, NoUri, NoCall, NoMsg

Lock == {"conn", "reg", "call"}
Daemon == {"keepalive", "cleanup"}
Thread == {"main"} \cup Daemon \cup Worker

RequestKind == {"REGISTER", "INVITE", "ACK", "BYE", "CANCEL", "INVALID"}
ResponseKind == {"RINGING", "OK", "DECLINE"}
\* What the server itself writes; GONE is 604, DOES_NOT_EXIST_ANYWHERE.
ServerKind == {"OK", "TRYING", "UNAUTHORIZED", "FORBIDDEN", "BAD_REQUEST",
               "NOT_FOUND", "BAD_GATEWAY", "NOT_ACCEPTABLE", "GONE", "OPTIONS"}

\* auth is what the www-authenticate header holds: nothing, a header that
\* _parse_auth_header rejects, a wrong response or the right one.
ClientMsg == [what: RequestKind \cup ResponseKind, cid: CallId \cup {KeepAliveId},
              cseq: Nat, from: Uri, to: Uri \cup {ServerUri},
              auth: {"none", "malformed", "wrong", "right"}, body: BOOLEAN]
ServerMsg == [what: RequestKind \cup ResponseKind \cup ServerKind,
              cid: CallId \cup {KeepAliveId}, cseq: Nat, from: Uri \cup {ServerUri}]

ASSUME ConstantsAssumption ==
  /\ NoSock \notin Sock /\ NoUri \notin Uri /\ KeepAliveId \notin CallId
  /\ Users \subseteq Uri /\ ServerUri \notin Uri
  /\ Unruly \subseteq Sock /\ ConnectedAtStart \subseteq Sock
  /\ Worker \cap ({"main"} \cup Daemon) = {}
  /\ Daemons \subseteq Daemon \cup {"registrations"}
  /\ MaxCSeq \in Nat
ASSUME MenuAssumption ==
  /\ Menu \in [Sock -> SUBSET ClientMsg]
  /\ \A s \in Sock : \A m \in Menu[s] :
       m.cid = KeepAliveId => m.what \in ResponseKind
ASSUME RegisteredAssumption ==
  /\ RegisteredAtStart \in [Uri -> Sock \cup {NoSock}]
  /\ \A u \in Uri : RegisteredAtStart[u] \in ConnectedAtStart \cup {NoSock}
  /\ \A u, v \in Uri : RegisteredAtStart[u] = RegisteredAtStart[v] =>
                         u = v \/ RegisteredAtStart[u] = NoSock

VARIABLES
  conn,        \* life of a socket: new, crypt (pending_crypt), up
               \* (connected_users), off (in neither list), down (closed)
  gone,        \* sockets whose client has vanished
  keyToVal,    \* registered_user.key_to_val: socket -> uri
  valToObj,    \* registered_user.val_to_obj: uri -> socket of the record
  calls,       \* active_calls
  pendingAuth, \* call ids with a challenge in pending_auth
  keepAlive,   \* sockets with an entry in pending_keep_alive
  main,        \* the server loop
  prober,      \* the _keep_alive thread
  cleaner,     \* the _cleanup_inactive_calls thread
  task,        \* what each executor thread works on
  stack,       \* the sends and closes each thread still has to do
  holds,       \* the locks each thread holds between two steps
  sent         \* the message the last step put on the wire, if any

netVars == <<conn, gone>>
regVars == <<keyToVal, valToObj>>
callVars == <<calls, pendingAuth>>
threadVars == <<main, prober, cleaner, task, stack, holds>>
vars == <<netVars, regVars, callVars, keepAlive, threadVars, sent>>

-----------------------------------------------------------------------------
(* Calls and tasks *)

CallState == {"WAITING_AUTH", "TRYING", "RINGING", "WAITING_ACK", "IN_CALL",
              "WAITING_BYE"}
\* uri_other is left out: only cancel_request, which nothing calls, reads it.
Call == [type: {"REGISTER", "INVITE"}, uri: Uri \cup {ServerUri}, state: CallState,
         cseq: Nat, caller: Sock, callee: Sock \cup {NoSock}]
ASSUME AbsentAssumption == NoCall \notin Call /\ NoMsg \notin ServerMsg

Known(c) == calls[c] # NoCall
InvolvesVariant(c, s) == Known(c) /\ s = calls[c].callee
Involves(c, s) == Known(c) /\ s \in {calls[c].caller, calls[c].callee}
\* the side of the call that is not s
OtherSide(c, s) == IF calls[c].callee = s THEN calls[c].caller ELSE calls[c].callee

\* start is the entry of the worker, done its end; between them a handler
\* that releases its locks, or that goes on after a send, has stages.
Stage == {"idle", "start", "check", "recheck", "forget", "auth", "bump",
          "respond", "done"}
Task == [sock: Sock \cup {NoSock}, msg: ClientMsg \cup {NoMsg}, stage: Stage]
IdleTask == [sock |-> NoSock, msg |-> NoMsg, stage |-> "idle"]
IdleMain == [pc |-> "idle", sock |-> NoSock]

Reply(m, what) == [what |-> what, cid |-> m.cid, cseq |-> m.cseq, from |-> ServerUri]
RelayVariant(m) == [what |-> m.what, cid |-> m.cid, cseq |-> m.cseq, from |-> ServerUri]
Relay(m) == [what |-> m.what, cid |-> m.cid, cseq |-> m.cseq, from |-> m.from]
Gone(c) == [what |-> "GONE", cid |-> c, cseq |-> calls[c].cseq, from |-> ServerUri]

-----------------------------------------------------------------------------
(* BiMap: two dictionaries that each method updates one after the other *)

\* get_by_key(s) is an object: the uri of s has a record, whoever owns it.
LoggedIn(s) == keyToVal[s] # NoUri /\ valToObj[keyToVal[s]] # NoSock

TakenVariant(u) == u \in Uri
Taken(u) == u \in Uri /\ valToObj[u] # NoSock

WithoutKeyVariant(s) == valToObj
WithoutKey(s) == IF keyToVal[s] = NoUri THEN valToObj
                 ELSE [valToObj EXCEPT ![keyToVal[s]] = NoSock]

Add(s, u) ==
  /\ keyToVal' = [keyToVal EXCEPT ![s] = u]
  /\ valToObj' = [valToObj EXCEPT ![u] = s]

RemoveByKey(s) ==
  /\ keyToVal' = [keyToVal EXCEPT ![s] = NoUri]
  /\ valToObj' = WithoutKey(s)

RemoveByVal(u) ==
  /\ keyToVal' = [keyToVal EXCEPT ![valToObj[u]] = NoUri]
  /\ valToObj' = [valToObj EXCEPT ![u] = NoSock]

\* register_request's replacement: the previous registration of s, if it has
\* a record, goes first.
Replace(s, u) ==
  /\ keyToVal' = [keyToVal EXCEPT ![s] = u]
  /\ valToObj' = [IF LoggedIn(s) THEN WithoutKey(s) ELSE valToObj EXCEPT ![u] = s]

-----------------------------------------------------------------------------
(* Threads: locks, stacks, and what happens when a stack runs empty *)

FreeVariant(l, t) == \A u \in Thread : l \notin holds[u]
Free(l, t) == \A u \in Thread \ {t} : l \notin holds[u]

\* peer, msg, todo and took are locals of a close; msg is what a send sends.
Frame == {f \in [pc: {"send", "conn", "reg", "calls", "sweep"}, sock: Sock,
                 msg: ServerMsg \cup {NoMsg}, peer: Sock \cup {NoSock},
                 todo: SUBSET CallId, took: BOOLEAN] :
            f.pc = "send" => f.msg \in ServerMsg}

Send(s, m) == [pc |-> "send", sock |-> s, msg |-> m, peer |-> NoSock,
               todo |-> {}, took |-> FALSE]
Close(s) == [pc |-> "conn", sock |-> s, msg |-> NoMsg, peer |-> NoSock,
             todo |-> {}, took |-> FALSE]

Top(t) == Head(stack[t])
At(t, pc) == stack[t] # <<>> /\ Top(t).pc = pc

\* The thread has nothing left after its stack: a worker past its last
\* statement, or the server loop after closing a client.
Returns(t) == \/ t = "main"
              \/ t \in Worker /\ task[t].stage = "done"

\* Thread t goes on with the frames fs and keeps the locks ls.
GoOn(t, fs, ls) ==
  LET over == fs = <<>> /\ Returns(t)
  IN /\ stack' = [stack EXCEPT ![t] = fs]
     /\ holds' = [holds EXCEPT ![t] = IF over THEN {} ELSE ls]
     /\ task' = IF over /\ t \in Worker THEN [task EXCEPT ![t] = IdleTask] ELSE task
     /\ main' = IF over /\ t = "main" THEN IdleMain ELSE main

Pop(t, ls) == GoOn(t, Tail(stack[t]), ls)

\* The top frame becomes f.
Turn(t, f) == GoOn(t, <<f>> \o Tail(stack[t]), holds[t])

\* An exception leaves every frame of t: the executor swallows it, a daemon
\* thread dies of it, the server loop ends.
Raise(t) ==
  /\ stack' = [stack EXCEPT ![t] = <<>>]
  /\ holds' = [holds EXCEPT ![t] = {}]
  /\ task' = IF t \in Worker THEN [task EXCEPT ![t] = IdleTask] ELSE task
  /\ main' = IF t = "main" THEN [main EXCEPT !.pc = "dead"] ELSE main
  /\ prober' = IF t = "keepalive" THEN [pc |-> "dead", todo |-> {}] ELSE prober
  /\ cleaner' = IF t = "cleanup" THEN [pc |-> "dead", cid |-> NoCall, callee |-> NoSock]
                                 ELSE cleaner

-----------------------------------------------------------------------------
(* _send_to_client *)

SendSucceeds(t) ==
  /\ At(t, "send")
  /\ conn[Top(t).sock] # "down"
  /\ sent' = [to |-> Top(t).sock, msg |-> Top(t).msg]
  /\ Pop(t, holds[t])
  /\ UNCHANGED <<netVars, regVars, callVars, keepAlive, prober, cleaner>>

\* A closed socket never sends; TCP tells the loss of the client, or not yet.
SendFails(t) ==
  /\ At(t, "send")
  /\ conn[Top(t).sock] = "down" \/ Top(t).sock \in gone
  /\ Turn(t, Close(Top(t).sock))
  /\ sent' = NoMsg
  /\ UNCHANGED <<netVars, regVars, callVars, keepAlive, prober, cleaner>>

-----------------------------------------------------------------------------
(* _close_connection *)

\* Removing a socket from connected_users while _keep_alive iterates over
\* that list may make the iteration skip the next socket.
SkippedBy(t, s) ==
  IF t = "keepalive" /\ prober.pc = "probe" /\ conn[s] = "up"
  THEN {k \in SUBSET (prober.todo \ {s}) : Cardinality(k) <= 1}
  ELSE {{}}

CloseConn(t) ==
  LET s == Top(t).sock
  IN /\ At(t, "conn")
     /\ Free("conn", t)
     /\ conn' = IF conn[s] = "up" THEN [conn EXCEPT ![s] = "off"] ELSE conn
     /\ \E k \in SkippedBy(t, s) :
          prober' = IF t = "keepalive" THEN [prober EXCEPT !.todo = @ \ (k \cup {s})]
                                       ELSE prober
     /\ Turn(t, [Top(t) EXCEPT !.pc = "reg"])
     /\ sent' = NoMsg
     /\ UNCHANGED <<gone, regVars, callVars, keepAlive, cleaner>>

CloseReg(t) ==
  /\ At(t, "reg")
  /\ Free("reg", t)
  /\ RemoveByKey(Top(t).sock)
  /\ Turn(t, [Top(t) EXCEPT !.pc = "calls"])
  /\ sent' = NoMsg
  /\ UNCHANGED <<netVars, callVars, keepAlive, prober, cleaner>>

\* list(self.active_calls.items()): the calls to visit, fixed at this point.
CloseCalls(t) ==
  /\ At(t, "calls")
  /\ Free("call", t)
  /\ GoOn(t, <<[Top(t) EXCEPT !.pc = "sweep", !.took = "call" \notin holds[t],
                              !.todo = {c \in CallId : Involves(c, Top(t).sock)}]>>
              \o Tail(stack[t]),
          holds[t] \cup {"call"})
  /\ sent' = NoMsg
  /\ UNCHANGED <<netVars, regVars, callVars, keepAlive, prober, cleaner>>

\* The loop's locals after visiting call c in frame f: send_sock and end_msg
\* are assigned for an INVITE only and keep their value from call to call.
PeerAfter(f, c) == IF calls[c].type = "INVITE" THEN OtherSide(c, f.sock) ELSE f.peer
NoticeVariant(f, c) == IF calls[c].type = "INVITE" THEN Gone(c) ELSE f.msg
NoticeAfter(f, c) ==
  IF /\ calls[c].type = "INVITE"
     /\ OtherSide(c, f.sock) # NoSock /\ LoggedIn(OtherSide(c, f.sock))
  THEN Gone(c) ELSE f.msg

\* One iteration: the call goes, then end_msg, if there is one, is sent.
CloseOneCall(t) ==
  LET f == Top(t) IN
  /\ At(t, "sweep")
  /\ \E c \in f.todo :
       /\ Known(c)
       /\ calls[c].type = "INVITE" => Free("reg", t)
       /\ calls' = [calls EXCEPT ![c] = NoCall]
       /\ LET peer == PeerAfter(f, c)
              notice == NoticeAfter(f, c)
              rest == [f EXCEPT !.todo = @ \ {c}, !.peer = peer, !.msg = notice]
          IN \/ /\ notice = NoMsg
                /\ Turn(t, rest)
                /\ UNCHANGED <<prober, cleaner>>
             \/ /\ notice # NoMsg /\ peer # NoSock
                /\ GoOn(t, <<Send(peer, notice), rest>> \o Tail(stack[t]), holds[t])
                /\ UNCHANGED <<prober, cleaner>>
             \/ notice # NoMsg /\ peer = NoSock /\ Raise(t)  \* None.encrypt
  /\ sent' = NoMsg
  /\ UNCHANGED <<netVars, regVars, pendingAuth, keepAlive>>

\* `del self.active_calls[call_id]` of a call that a nested close, or a
\* REGISTER worker without the call lock, has removed since the snapshot.
CloseLosesCall(t) ==
  /\ At(t, "sweep")
  /\ \E c \in Top(t).todo : ~Known(c)
  /\ Raise(t)
  /\ sent' = NoMsg
  /\ UNCHANGED <<netVars, regVars, callVars, keepAlive>>

CloseSocket(t) ==
  /\ At(t, "sweep")
  /\ Top(t).todo = {}
  /\ conn' = [conn EXCEPT ![Top(t).sock] = "down"]
  /\ Pop(t, IF Top(t).took THEN holds[t] \ {"call"} ELSE holds[t])
  /\ sent' = NoMsg
  /\ UNCHANGED <<gone, regVars, callVars, keepAlive, prober, cleaner>>

SendOrClose(t) ==
  \/ SendSucceeds(t) \/ SendFails(t)
  \/ CloseConn(t) \/ CloseReg(t) \/ CloseCalls(t)
  \/ CloseOneCall(t) \/ CloseLosesCall(t) \/ CloseSocket(t)
=============================================================================
