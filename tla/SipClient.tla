------------------------------ MODULE SipClient -----------------------------
(***************************************************************************)
(* The user agents: SIPHandler (client/sip_logic/sip_client.py) with the   *)
(* Mediator, the AppController and the screens around it.  Each program    *)
(* has two threads without a lock between them: the SIP thread, which runs *)
(* _main_loop, and the GUI thread, which runs the handlers of buttons and  *)
(* the callbacks that the SIP thread leaves with root.after(0, ...).       *)
(*                                                                         *)
(* A thread gives way to the other after each send, and inside clear_call, *)
(* which waits for the media processes.  The message is on its way then.   *)
(***************************************************************************)
EXTENDS Naturals, Sequences

CONSTANTS
  User,             \* user names: one program each
  CallId,           \* what generate_random_call_id draws from
  LoggedInAtStart,  \* users who have logged in
  Caller,           \* users who may call somebody
  Quitter,          \* users who may close the window
  Impatient,        \* users who may click a button again
  Passwords,        \* what users may type: a subset of {"right", "wrong"}
  MaxCSeq,          \* no BYE is clicked with this sequence number
  ServerUri, NoCall, NoMsg

VARIABLES
  myCall,     \* self.call of the SIPHandler
  loggedIn,   \* its logged_in
  loop,       \* the SIP thread: at its loop, or after a send or half a clear
  hand,       \* the GUI thread: free, or inside the handler of a button
  callbacks,  \* the callbacks of root.after
  screen,     \* current_screen
  backTo,     \* model.error.return_screen
  clicked,    \* the user has clicked on the screen that is shown
  streaming,  \* RTPManager: its processes run
  unused,     \* call ids not drawn yet
  toServer, toClient  \* TCP in both directions

sipVars == <<myCall, loggedIn, streaming>>
screenVars == <<screen, backTo, clicked>>
vars == <<sipVars, screenVars, callbacks, loop, hand, unused, toServer, toClient>>

-----------------------------------------------------------------------------
(* Calls, messages, callbacks *)

State == {"WAITING_AUTH", "TRYING", "RINGING", "WAITING_ACK", "WAITING_BYE"}
\* data is call_data: the INVITE of a call that rings here.
NewCall(type, c, peer, state, n) ==
  [type |-> type, cid |-> c, peer |-> peer, state |-> state, cseq |-> n, data |-> NoMsg]

Request(u, what, call, auth) ==
  [what |-> what, cid |-> call.cid, cseq |-> call.cseq, from |-> u, to |-> call.peer,
   auth |-> auth, body |-> what = "INVITE"]
\* create_response_from_request
ResponseVariant(u, m, what) ==
  [what |-> what, cid |-> m.cid, cseq |-> m.cseq, from |-> u, to |-> m.from,
   auth |-> "none", body |-> FALSE]
Response(u, m, what) ==
  [what |-> what, cid |-> m.cid, cseq |-> m.cseq, from |-> u, to |-> m.from,
   auth |-> "none", body |-> what = "OK" /\ m.what = "INVITE"]

\* What a callback shows; from an error the user goes back to screen back,
\* "" being the one shown when the callback runs.  sign_in_answer exists on
\* the login screen only.
Show(s) == [to |-> s, back |-> "", atLogin |-> FALSE]
DisplayError(back) == [to |-> "error", back |-> back, atLogin |-> FALSE]
SignInAnswer(s) == [to |-> s, back |-> "login", atLogin |-> TRUE]

Ready == [at |-> "ready", msg |-> NoMsg]
At(where, m) == [at |-> where, msg |-> m]
Over == At("over", NoMsg)
Running(u) == loop[u] # Over

Transmit(u, m) == toServer' = [toServer EXCEPT ![u] = Append(@, m)]
Leave(u, callback) == callbacks' = [callbacks EXCEPT ![u] = Append(@, callback)]
Goto(u, place) == loop' = [loop EXCEPT ![u] = place]
Consume(u) == toClient' = [toClient EXCEPT ![u] = Tail(@)]

Init ==
  /\ myCall = [u \in User |-> NoCall]
  /\ loggedIn = [u \in User |-> u \in LoggedInAtStart]
  /\ loop = [u \in User |-> Ready]
  /\ hand = [u \in User |-> "free"]
  /\ callbacks = [u \in User |-> <<>>]
  /\ screen = [u \in User |-> IF u \in LoggedInAtStart THEN "make call" ELSE "login"]
  /\ backTo = [u \in User |-> "login"]
  /\ clicked = [u \in User |-> FALSE]
  /\ streaming = [u \in User |-> FALSE]
  /\ unused = CallId
  /\ toServer = [u \in User |-> <<>>]
  /\ toClient = [u \in User |-> <<>>]

\* The types; a call-id in use has been drawn, a program that has ended shows
\* nothing and is in no handler.
TypeOK ==
  /\ \A u \in User : myCall[u] # NoCall =>
       /\ myCall[u].type \in {"REGISTER", "INVITE"} /\ myCall[u].state \in State
       /\ myCall[u].cid \in CallId \ unused /\ myCall[u].cseq \in Nat \ {0}
       /\ myCall[u].peer \in User \cup {ServerUri}
  /\ screen \in [User -> {"login", "make call", "dialing", "incoming call", "video",
                         "error", ""}]
  /\ \A u \in User : Running(u) <=> screen[u] # ""
  /\ hand \in [User -> {"free", "accepting", "declining", "clearing"}]
  /\ \A u \in User : hand[u] # "free" => Running(u)
  /\ loggedIn \in [User -> BOOLEAN] /\ streaming \in [User -> BOOLEAN]

-----------------------------------------------------------------------------
(* clear_call: the call goes, the media processes are stopped, and the     *)
(* screen that is shown by then decides whether another one is needed      *)

Home(u) == IF loggedIn[u] THEN "make call" ELSE "login"

\* mediator.clear, after rtp_manager.stop
ClearedUnstopped(u, alert) ==
  /\ IF alert THEN Leave(u, DisplayError(Home(u)))
     ELSE IF screen[u] # Home(u) THEN Leave(u, Show(Home(u)))
     ELSE UNCHANGED callbacks
  /\ streaming' = [streaming EXCEPT ![u] = @ /\ ~alert]
ClearedUnshown(u, alert) ==
  /\ streaming' = [streaming EXCEPT ![u] = FALSE]
  /\ IF alert THEN Leave(u, DisplayError(Home(u))) ELSE UNCHANGED callbacks
Cleared(u, alert) ==
  /\ streaming' = [streaming EXCEPT ![u] = FALSE]
  /\ IF alert THEN Leave(u, DisplayError(Home(u)))
     ELSE IF screen[u] # Home(u) THEN Leave(u, Show(Home(u)))
     ELSE UNCHANGED callbacks

\* mediator.stop: everything ends, the socket is closed.
Stop(u) ==
  /\ Goto(u, Over)
  /\ hand' = [hand EXCEPT ![u] = "free"]
  /\ screen' = [screen EXCEPT ![u] = ""]
  /\ streaming' = [streaming EXCEPT ![u] = FALSE]
  /\ callbacks' = [callbacks EXCEPT ![u] = <<>>]
  /\ toClient' = [toClient EXCEPT ![u] = <<>>]
  /\ UNCHANGED <<loggedIn, backTo, clicked, unused, toServer>>

\* The rest of an iteration of _main_loop that reached clear_call.
LoopClears(u) ==
  /\ loop[u].at \in {"clear", "clear with alert"}
  /\ Cleared(u, loop[u].at = "clear with alert")
  /\ Goto(u, Ready)
  /\ UNCHANGED <<myCall, loggedIn, screenVars, hand, unused, toServer, toClient>>

-----------------------------------------------------------------------------
(* _main_loop: requests *)

Got(u, kinds) ==
  /\ loop[u] = Ready
  /\ toClient[u] # <<>>
  /\ Head(toClient[u]).what \in kinds

ResponseKind == {"RINGING", "OK", "DECLINE", "TRYING", "UNAUTHORIZED", "FORBIDDEN",
                 "BAD_REQUEST", "NOT_FOUND", "BAD_GATEWAY", "NOT_ACCEPTABLE", "GONE"}
IsInvite(u) == myCall[u] # NoCall /\ myCall[u].type = "INVITE"
IsMine(u, m) == myCall[u] # NoCall /\ m.cid = myCall[u].cid

InviteDeclined(u) ==
  /\ Got(u, {"INVITE"})
  /\ myCall[u] # NoCall
  /\ Transmit(u, Response(u, Head(toClient[u]), "DECLINE"))
  /\ Consume(u)
  /\ UNCHANGED <<sipVars, screenVars, callbacks, loop, hand, unused>>

InviteRings(u) ==
  LET m == Head(toClient[u]) IN
  /\ Got(u, {"INVITE"})
  /\ myCall[u] = NoCall
  /\ myCall' = [myCall EXCEPT ![u] = NewCall("INVITE", m.cid, m.from, "RINGING", m.cseq)]
  /\ Transmit(u, Response(u, m, "RINGING"))
  /\ Goto(u, At("rang", m))
  /\ Consume(u)
  /\ UNCHANGED <<loggedIn, streaming, screenVars, callbacks, hand, unused>>

\* An exception in the SIP thread: a request, or the rest of a handler, finds
\* no call, or the media processes have been started already.
Raises(u) ==
  \/ Got(u, {"ACK", "BYE"}) /\ myCall[u] = NoCall
  \/ loop[u].at \in {"rang", "bye", "logged in"} /\ myCall[u] = NoCall
  \/ Got(u, {"ACK"}) /\ IsMine(u, Head(toClient[u])) /\ streaming[u]
  \/ loop[u].at = "acked" /\ streaming[u]

\* It ends the loop, and the loop stops the program.
LoopRaises(u) ==
  /\ Raises(u)
  /\ Stop(u)
  /\ UNCHANGED myCall

\* process_invite after its send: self.call may be another one by now.
UserAsked(u) ==
  /\ loop[u].at = "rang"
  /\ ~Raises(u)
  /\ myCall' = [myCall EXCEPT ![u].data = loop[u].msg]
  /\ Leave(u, Show("incoming call"))
  /\ Goto(u, Ready)
  /\ UNCHANGED <<loggedIn, streaming, screenVars, hand, unused, toServer, toClient>>

\* Nothing happens: a request of another call; a response to another call, or
\* to none; a response that a ringing call does not wait for.
Ignored(u) ==
  LET m == Head(toClient[u])
      mute == IsInvite(u) /\ myCall[u].state = "RINGING"
              /\ m.what \in ResponseKind \ {"OK", "DECLINE", "GONE"}
  IN /\ toClient[u] # <<>> /\ loop[u] = Ready
     /\ m.what # "INVITE"
     /\ IsMine(u, m) => mute
     /\ m.what \in {"ACK", "BYE"} => myCall[u] # NoCall
     /\ Consume(u)
     /\ UNCHANGED <<sipVars, screenVars, callbacks, loop, hand, unused, toServer>>

\* start_stream of the mediator
StartStreamVariant(u) ==
  /\ streaming' = [streaming EXCEPT ![u] = myCall[u].state = "RINGING"]
  /\ Leave(u, Show("video"))
StartStream(u) ==
  /\ streaming' = [streaming EXCEPT ![u] = TRUE]
  /\ Leave(u, Show("video"))

\* process_ack, in whatever state the call is
Acknowledged(u) ==
  /\ Got(u, {"ACK"})
  /\ IsMine(u, Head(toClient[u])) /\ ~Raises(u)
  /\ myCall' = [myCall EXCEPT ![u].cseq = @ + 1]
  /\ StartStream(u)
  /\ Consume(u)
  /\ UNCHANGED <<loggedIn, screenVars, loop, hand, unused, toServer>>

ByeReceivedVariant(u) ==
  /\ Got(u, {"BYE"})
  /\ IsMine(u, Head(toClient[u]))
  /\ myCall' = [myCall EXCEPT ![u].cseq = @ + 1]
  /\ Goto(u, At("bye", NoMsg))
  /\ Consume(u)
  /\ UNCHANGED <<loggedIn, streaming, screenVars, callbacks, hand, unused, toServer>>
ByeReceived(u) ==
  LET m == Head(toClient[u]) IN
  /\ Got(u, {"BYE"})
  /\ IsMine(u, m)
  /\ myCall' = [myCall EXCEPT ![u].cseq = @ + 1]
  /\ Transmit(u, Response(u, m, "OK"))
  /\ Goto(u, At("bye", m))
  /\ Consume(u)
  /\ UNCHANGED <<loggedIn, streaming, screenVars, callbacks, hand, unused>>

ByeClears(u) ==
  /\ loop[u].at = "bye"
  /\ ~Raises(u)
  /\ myCall' = [myCall EXCEPT ![u] = NoCall]
  /\ Goto(u, At("clear with alert", NoMsg))
  /\ UNCHANGED <<loggedIn, streaming, screenVars, callbacks, hand, unused,
                 toServer, toClient>>

-----------------------------------------------------------------------------
(* process_response, in the order of its branches *)

\* A response to the call there is, in one of these states.
Answers(u, kinds, states) ==
  /\ Got(u, kinds)
  /\ IsMine(u, Head(toClient[u]))
  /\ myCall[u].state \in states
  /\ Consume(u)

\* The answer goes to whoever sent the challenge: the server.  It has no body.
ChallengeAnswered(u) ==
  LET m == Head(toClient[u])
      call == [myCall[u] EXCEPT !.cseq = m.cseq + 1]
  IN /\ Answers(u, {"UNAUTHORIZED"}, {"WAITING_AUTH"})
     /\ myCall' = [myCall EXCEPT ![u] = call]
     /\ \E auth \in Passwords :
          LET request == Request(u, call.type, [call EXCEPT !.peer = m.from], auth)
          IN Transmit(u, [request EXCEPT !.body = FALSE])
     /\ UNCHANGED <<loggedIn, streaming, screenVars, callbacks, loop, hand, unused>>

\* clear_call with a message: 604, or the callee declines a call that rings.
CallFails(u) ==
  /\ Answers(u, {"GONE", "DECLINE"}, State)
  /\ Head(toClient[u]).what = "DECLINE" => IsInvite(u) /\ myCall[u].state = "RINGING"
  /\ myCall' = [myCall EXCEPT ![u] = NoCall]
  /\ Goto(u, At("clear with alert", NoMsg))
  /\ UNCHANGED <<loggedIn, streaming, screenVars, callbacks, hand, unused, toServer>>

\* The GUI is told before the exchange is cleared.
LoginGranted(u) ==
  /\ Answers(u, {"OK"}, State)
  /\ ~IsInvite(u)
  /\ loggedIn' = [loggedIn EXCEPT ![u] = TRUE]
  /\ Leave(u, SignInAnswer("make call"))
  /\ Goto(u, At("logged in", NoMsg))
  /\ UNCHANGED <<myCall, streaming, screenVars, hand, unused, toServer>>

LoginClears(u) ==
  /\ loop[u].at = "logged in"
  /\ ~Raises(u)
  /\ myCall' = [myCall EXCEPT ![u] = NoCall]
  /\ Goto(u, At("clear", NoMsg))
  /\ UNCHANGED <<loggedIn, streaming, screenVars, callbacks, hand, unused,
                 toServer, toClient>>

\* The exchange stays: self.call is only replaced by the next one.
LoginRefused(u) ==
  /\ Answers(u, ResponseKind \ {"OK", "UNAUTHORIZED", "GONE"}, State)
  /\ ~IsInvite(u)
  /\ Leave(u, SignInAnswer("error"))
  /\ UNCHANGED <<sipVars, screenVars, loop, hand, unused, toServer>>

Progress(u) ==
  /\ IsInvite(u)
  /\ \/ /\ Answers(u, {"TRYING"}, {"WAITING_AUTH"})
        /\ myCall' = [myCall EXCEPT ![u].state = "TRYING"]
        /\ Leave(u, Show("dialing"))
     \/ /\ Answers(u, {"RINGING"}, {"TRYING"})
        /\ myCall' = [myCall EXCEPT ![u].state = "RINGING"]
        /\ UNCHANGED callbacks
  /\ UNCHANGED <<loggedIn, streaming, screenVars, loop, hand, unused, toServer>>

\* call_state stays RINGING: line 344 assigns another attribute.
Answered(u) ==
  LET m == Head(toClient[u])
      call == [myCall[u] EXCEPT !.cseq = m.cseq + 1]
  IN /\ Answers(u, {"OK"}, {"RINGING"})
     /\ IsInvite(u)
     /\ myCall' = [myCall EXCEPT ![u] = call]
     /\ Transmit(u, Request(u, "ACK", [call EXCEPT !.peer = m.from], "none"))
     /\ Goto(u, At("acked", NoMsg))
     /\ UNCHANGED <<loggedIn, streaming, screenVars, callbacks, hand, unused>>

StreamStarts(u) ==
  /\ loop[u].at = "acked"
  /\ ~Raises(u)
  /\ StartStream(u)
  /\ Goto(u, Ready)
  /\ UNCHANGED <<myCall, loggedIn, screenVars, hand, unused, toServer, toClient>>

CallEnded(u) ==
  /\ Answers(u, {"OK"}, {"WAITING_BYE"})
  /\ IsInvite(u)
  /\ myCall' = [myCall EXCEPT ![u] = NoCall]
  /\ Goto(u, At("clear", NoMsg))
  /\ UNCHANGED <<loggedIn, streaming, screenVars, callbacks, hand, unused, toServer>>

\* What the call of an INVITE waits for in each state.
Awaited == [WAITING_AUTH |-> {"UNAUTHORIZED", "TRYING"}, TRYING |-> {"RINGING"},
            RINGING |-> ResponseKind, WAITING_ACK |-> {}, WAITING_BYE |-> {"OK"}]

\* Anything else is shown; the call stays.
Unexpected(u) ==
  /\ Answers(u, ResponseKind \ {"GONE"}, State)
  /\ IsInvite(u) /\ Head(toClient[u]).what \notin Awaited[myCall[u].state]
  /\ Leave(u, DisplayError(""))
  /\ UNCHANGED <<sipVars, screenVars, loop, hand, unused, toServer>>

-----------------------------------------------------------------------------
(* The GUI thread: callbacks *)

ScreenShown(u, s) ==
  /\ screen' = [screen EXCEPT ![u] = s]
  /\ clicked' = [clicked EXCEPT ![u] = FALSE]

\* sign_in_answer on another screen raises, which tkinter reports and survives.
CallbackRuns(u) ==
  LET cb == Head(callbacks[u])
      back == IF cb.back = "" THEN screen[u] ELSE cb.back
  IN /\ Running(u) /\ hand[u] = "free"
     /\ callbacks[u] # <<>>
     /\ callbacks' = [callbacks EXCEPT ![u] = Tail(@)]
     /\ IF cb.atLogin /\ screen[u] # "login" THEN UNCHANGED screenVars
        ELSE /\ ScreenShown(u, cb.to)
             /\ backTo' = IF cb.to = "error" THEN [backTo EXCEPT ![u] = back] ELSE backTo
     /\ UNCHANGED <<sipVars, loop, hand, unused, toServer, toClient>>

-----------------------------------------------------------------------------
(* The GUI thread: buttons *)

\* The user clicks on a screen that is up to date (no callback waits), and
\* once, unless impatient.
Click(u, s) ==
  /\ Running(u) /\ hand[u] = "free"
  /\ screen[u] = s
  /\ callbacks[u] = <<>>
  /\ clicked[u] => u \in Impatient
  /\ clicked' = [clicked EXCEPT ![u] = TRUE]

SignIn(u) ==
  /\ Click(u, "login")
  /\ \E c \in unused :
       LET call == NewCall("REGISTER", c, ServerUri, "WAITING_AUTH", 1)
       IN /\ unused' = unused \ {c}
          /\ myCall' = [myCall EXCEPT ![u] = call]
          /\ Transmit(u, Request(u, "REGISTER", call, "none"))
  /\ UNCHANGED <<loggedIn, streaming, screen, backTo, callbacks, loop, hand, toClient>>

\* invite replaces self.call, whatever it is.
Dial(u) ==
  /\ u \in Caller
  /\ Click(u, "make call")
  /\ \E c \in unused, v \in User \ {u} :
       LET call == NewCall("INVITE", c, v, "WAITING_AUTH", 1)
       IN /\ unused' = unused \ {c}
          /\ myCall' = [myCall EXCEPT ![u] = call]
          /\ Transmit(u, Request(u, "INVITE", call, "none"))
  /\ UNCHANGED <<loggedIn, streaming, screen, backTo, callbacks, loop, hand, toClient>>

\* answer_call: only a call that rings; without call_data the state changes
\* and the rest raises.
Accept(u) ==
  LET call == myCall[u] IN
  /\ Click(u, "incoming call")
  /\ call # NoCall /\ call.state = "RINGING"
  /\ myCall' = [myCall EXCEPT ![u].state = "WAITING_ACK"]
  /\ IF call.data = NoMsg THEN UNCHANGED <<toServer, hand>>
     ELSE /\ Transmit(u, Response(u, call.data, "OK"))
          /\ hand' = [hand EXCEPT ![u] = "accepting"]
  /\ UNCHANGED <<loggedIn, streaming, screen, backTo, callbacks, loop, unused, toClient>>

AcceptEnds(u) ==
  /\ hand[u] = "accepting"
  /\ myCall' = IF myCall[u] = NoCall THEN myCall ELSE [myCall EXCEPT ![u].data = NoMsg]
  /\ hand' = [hand EXCEPT ![u] = "free"]
  /\ UNCHANGED <<loggedIn, streaming, screenVars, callbacks, loop, unused,
                 toServer, toClient>>

Decline(u) ==
  LET call == myCall[u] IN
  /\ Click(u, "incoming call")
  /\ call # NoCall /\ call.state = "RINGING" /\ call.data # NoMsg
  /\ Transmit(u, Response(u, call.data, "DECLINE"))
  /\ hand' = [hand EXCEPT ![u] = "declining"]
  /\ UNCHANGED <<sipVars, screen, backTo, callbacks, loop, unused, toClient>>

\* clear_call in the GUI thread; without a call it raises.
DeclineClears(u) ==
  /\ hand[u] = "declining"
  /\ hand' = [hand EXCEPT ![u] = IF myCall[u] = NoCall THEN "free" ELSE "clearing"]
  /\ myCall' = [myCall EXCEPT ![u] = NoCall]
  /\ UNCHANGED <<loggedIn, streaming, screenVars, callbacks, loop, unused,
                 toServer, toClient>>

DeclineEnds(u) ==
  /\ hand[u] = "clearing"
  /\ Cleared(u, FALSE)
  /\ hand' = [hand EXCEPT ![u] = "free"]
  /\ UNCHANGED <<myCall, loggedIn, screenVars, loop, unused, toServer, toClient>>

\* bye; without a call it raises.
EndCallVariant(u) ==
  /\ Click(u, "video")
  /\ myCall[u] # NoCall /\ myCall[u].cseq < MaxCSeq
  /\ myCall' = [myCall EXCEPT ![u] = NoCall]
  /\ Transmit(u, Request(u, "BYE", [myCall[u] EXCEPT !.cseq = @ + 1], "none"))
  /\ UNCHANGED <<loggedIn, streaming, screen, backTo, callbacks, loop, hand, unused,
                 toClient>>
EndCall(u) ==
  LET call == [myCall[u] EXCEPT !.cseq = @ + 1, !.state = "WAITING_BYE"] IN
  /\ Click(u, "video")
  /\ myCall[u] # NoCall /\ myCall[u].cseq < MaxCSeq
  /\ myCall' = [myCall EXCEPT ![u] = call]
  /\ Transmit(u, Request(u, "BYE", call, "none"))
  /\ UNCHANGED <<loggedIn, streaming, screen, backTo, callbacks, loop, hand, unused,
                 toClient>>

GoBack(u) ==
  /\ Running(u) /\ hand[u] = "free"
  /\ screen[u] = "error"
  /\ ScreenShown(u, backTo[u])
  /\ UNCHANGED <<sipVars, backTo, callbacks, loop, hand, unused, toServer, toClient>>

CloseWindow(u) ==
  /\ u \in Quitter /\ Running(u) /\ hand[u] = "free"
  /\ Stop(u)
  /\ UNCHANGED myCall

-----------------------------------------------------------------------------

SipThread(u) ==
  \/ LoopClears(u) \/ InviteDeclined(u) \/ InviteRings(u) \/ UserAsked(u)
  \/ LoopRaises(u) \/ Ignored(u) \/ Acknowledged(u) \/ ByeReceived(u) \/ ByeClears(u)
  \/ ChallengeAnswered(u) \/ CallFails(u) \/ LoginGranted(u) \/ LoginClears(u)
  \/ LoginRefused(u) \/ Progress(u) \/ Answered(u) \/ StreamStarts(u)
  \/ CallEnded(u) \/ Unexpected(u)

\* What the GUI thread does of itself, and what its user makes it do.
GuiProceeds(u) == CallbackRuns(u) \/ AcceptEnds(u) \/ DeclineClears(u) \/ DeclineEnds(u)

UserActs(u) ==
  \/ SignIn(u) \/ Dial(u) \/ Accept(u) \/ Decline(u) \/ EndCall(u)
  \/ GoBack(u) \/ CloseWindow(u)

Proceeds == \E u \in User : SipThread(u) \/ GuiProceeds(u)
Next == Proceeds \/ \E u \in User : UserActs(u)

Spec == Init /\ [][Next]_vars
=============================================================================
