----------------------------- MODULE CallSystem -----------------------------
(***************************************************************************)
(* The whole signalling: SipServer and the programs of its users, joined   *)
(* by TCP.  The server reads what the programs have written, in order, and *)
(* a program reads what the server has sent to its socket.                 *)
(***************************************************************************)
EXTENDS SipServer

CONSTANTS SocketOf, Caller, Quitter, Impatient, Passwords

ASSUME SocketAssumption ==
  /\ SocketOf \in [Uri -> Sock]
  /\ \A u, v \in Uri : SocketOf[u] = SocketOf[v] => u = v
  /\ \A s \in Sock : \E u \in Uri : SocketOf[u] = s
ASSUME PasswordsAssumption == Passwords \subseteq {"right", "wrong"}

VARIABLES myCall, loggedIn, loop, hand, callbacks, screen, backTo, clicked,
          streaming, unused, toServer, toClient

LoggedInAtStart == {u \in Uri : RegisteredAtStart[u] # NoSock}

Programs == INSTANCE SipClient WITH User <- Uri

screenVars == <<callbacks, screen, backTo, clicked>>
programVars == <<myCall, loggedIn, loop, hand, screenVars, streaming, unused>>
systemVars == <<vars, programVars, toServer, toClient>>

UserOf(s) == CHOOSE u \in Uri : SocketOf[u] = s

SystemInit == Init /\ Programs!Init

\* What the server puts on the wire arrives at the program, if it still runs.
Arrives ==
  IF sent' # NoMsg /\ Programs!Running(UserOf(sent'.to))
  THEN toClient' = [toClient EXCEPT ![UserOf(sent'.to)] = Append(@, sent'.msg)]
  ELSE UNCHANGED toClient

\* select returns a socket with something to read, or whose program ended.
ServerSelects(s) ==
  /\ Select(s)
  /\ toServer[UserOf(s)] # <<>> \/ s \in gone
  /\ UNCHANGED <<programVars, toServer, toClient>>

ServerReads(w) ==
  LET u == UserOf(main.sock) IN
  /\ main.sock # NoSock
  /\ toServer[u] # <<>>
  /\ Receive(w)
  /\ task'[w].msg = Head(toServer[u])
  /\ toServer' = [toServer EXCEPT ![u] = Tail(@)]
  /\ UNCHANGED <<programVars, toClient>>

ServerHangsUp ==
  /\ Hangup
  /\ main.sock \in gone \/ conn[main.sock] = "down"
  /\ UNCHANGED <<programVars, toServer, toClient>>

ServerThread(t) ==
  /\ \/ t \in Worker /\ Handle(t)
     \/ SendOrClose(t)
  /\ Arrives
  /\ UNCHANGED <<programVars, toServer>>

\* The server learns that a program has closed its socket, perhaps before it
\* has read all that the program had sent.
ConnectionEnds(u) ==
  /\ ~Programs!Running(u)
  /\ Vanish(SocketOf[u])
  /\ UNCHANGED <<programVars, toServer, toClient>>

ServerStep ==
  \/ \E s \in Sock : ServerSelects(s)
  \/ \E w \in Worker : ServerReads(w)
  \/ ServerHangsUp
  \/ \E t \in Thread : ServerThread(t)
  \/ \E u \in Uri : ConnectionEnds(u)

ServerRests == UNCHANGED vars
ProgramStep == Programs!Next /\ ServerRests

SystemNext == ServerStep \/ ProgramStep

SystemSpec == SystemInit /\ [][SystemNext]_systemVars

-----------------------------------------------------------------------------
(* Types *)

\* The programs' types; and all they write, in whatever state, are messages of
\* the sender's menu: what the server's own runs draw its input from.
SystemTypeOK ==
  /\ Programs!TypeOK
  /\ \A u \in Uri : \A i \in 1..Len(toServer[u]) : toServer[u][i] \in Menu[SocketOf[u]]

-----------------------------------------------------------------------------
(* Nothing is on its way and nobody is at work, except the users *)

Settled ==
  /\ main.pc = "idle"
  /\ \A w \in Worker : task[w] = IdleTask
  /\ \A t \in Thread : stack[t] = <<>>
  /\ \A u \in Uri :
       /\ IF Programs!Running(u) THEN loop[u] = Programs!Ready /\ hand[u] = "free"
          ELSE conn[SocketOf[u]] = "down"
       /\ callbacks[u] = <<>> /\ toClient[u] = <<>>
       /\ toServer[u] = <<>> \/ ~Programs!Running(u)

SameCall(u, v) ==
  myCall[u] # NoCall /\ myCall[v] # NoCall /\ myCall[u].cid = myCall[v].cid

\* Media in one direction only, or to somebody else, is what users would see
\* of signalling that got lost (start_stream at an ACK and at a 200): once all
\* has settled, the media processes of a program run for a call in which those
\* of another program run too.
StreamsAgree ==
  Settled => \A u \in Uri : streaming[u] =>
    \E v \in Uri \ {u} : streaming[v] /\ SameCall(u, v)

\* The media outlive neither the call of their program nor the server's record
\* of it: once all has settled, a program that streams is a party of a call
\* that the server holds to be established, so that BYE will find it.
StreamsAreCalls ==
  Settled => \A u \in Uri : streaming[u] =>
    /\ myCall[u] # NoCall
    /\ Known(myCall[u].cid)
    /\ calls[myCall[u].cid].state = "IN_CALL"
    /\ Involves(myCall[u].cid, SocketOf[u])

\* The screen follows the media, though it changes in another thread, by
\* callbacks that may run late (start_stream, clear): once all has settled, the
\* video screen is shown just while the media processes run.
VideoShowsCall ==
  Settled => \A u \in Uri : Programs!Running(u) => (screen[u] = "video" <=> streaming[u])

\* bye waits for its 200: once all has settled, no program waits for it,
\* whoever has hung up first, or twice, or closed the window meanwhile.
HangupEnds ==
  Settled => \A u \in Uri :
    Programs!Running(u) /\ myCall[u] # NoCall => myCall[u].state # "WAITING_BYE"

\* Nothing compares what the two ends of a call hold of it: the server relays by
\* the sockets it has recorded (bye_request, ack_request, process_response), a
\* program tells answers by their call-id.  Still all that a call-id stands for
\* is between the same two users: the calls of the programs, the server's record,
\* and what is on its way.  The exception is the notice of _close_connection
\* (1225): end_msg may still be the one about the call before.
CallsAreBetweenTwo ==
  \A u \in Uri : myCall[u] # NoCall =>
    LET c == myCall[u].cid
        parties == {u, myCall[u].peer} IN
    /\ \A v \in Uri : SameCall(u, v) => {v, myCall[v].peer} = parties
    /\ \A s \in Sock : Involves(c, s) => UserOf(s) \in parties
    /\ \A v \in Uri :
         /\ \A i \in 1..Len(toServer[v]) : toServer[v][i].cid = c => v \in parties
         /\ \A i \in 1..Len(toClient[v]) :
              toClient[v][i].cid = c /\ toClient[v][i].what # "GONE" => v \in parties

\* The handlers of the SIP thread use self.call without testing it, and
\* another thread clears it: a program is not ended by their exceptions unless
\* another user clicks twice.
NobodyRaises == \A u \in Uri : Programs!Raises(u) => Impatient \ {u} # {}

\* Nobody waits for ever: while something has not settled, somebody other than
\* the users can take a step.  The exception is the close that a worker begins
\* when its send fails, inside the locks of its handler.
NothingHangs ==
  \/ Settled
  \/ \E w \in Worker : At(w, "conn")
  \/ ENABLED ((Programs!Proceeds /\ ServerRests) \/ ServerStep)
=============================================================================
