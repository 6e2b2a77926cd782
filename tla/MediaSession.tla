---------------------------- MODULE MediaSession ----------------------------
(***************************************************************************)
(* The media of one program, call after call: RTPManager with its          *)
(* processes and the queue of received frames (client/rtp_logic/           *)
(* rtp_manager.py), and the video screens that play them (CallController). *)
(*                                                                         *)
(* Four kinds of actors share them without a lock: the SIP thread starts   *)
(* and stops the processes, the GUI thread shows the screens and stops     *)
(* everything when the window is closed, the processes fill the queue, and *)
(* a thread per video screen empties it.  One medium is modelled; audio    *)
(* and video have a copy each of all but the screen and its thread.        *)
(***************************************************************************)
EXTENDS Naturals, Sequences, FiniteSets

CONSTANTS
  MaxCalls,    \* bound on the calls
  MaxFrames,   \* bound on the frames that wait in a receiving process
  Pipes        \* what the pipe of a multiprocessing.Queue may be like: how many
               \* frames it has room for, and whether it takes them as a whole

ASSUME MediaAssumption ==
  /\ MaxCalls \in Nat /\ MaxFrames \in Nat
  /\ Pipes \subseteq [room : Nat, atomic : BOOLEAN]

Call == 1..MaxCalls
Kinds == <<"send", "recv">>
Kind == {"send", "recv"}

VARIABLES
  call,     \* the calls so far
  phase,    \* of the last one: none, agreed (it has its ports) or live
  ports,    \* the ports that are set, as the kinds of processes that need one
  event,    \* running_event: the call it was made for, 0 for None
  raised,   \* the calls whose event is set
  lists,    \* the values of self.processes, of which the last is the present one
  proc,     \* the processes of each call
  buffer,   \* the frames each receiving process has put that its queue thread
            \* has not begun to write
  pipe,     \* the frames in the pipe, as the calls they belong to
  writing,  \* the call whose process is in the middle of the last frame, or 0
  kindOfPipe, \* one of Pipes, chosen once
  thread,   \* the SIP thread and the GUI thread
  online,   \* connected
  callbacks,\* what root.after has to show: the screens of calls, 0 for home
  screen,   \* which is shown
  playing,  \* the video screens whose controller is running
  player,   \* the thread of each of them
  shown     \* the frame each of them has played last

callVars == <<call, phase>>
managerVars == <<ports, event, raised, lists>>
queueVars == <<buffer, pipe, writing, kindOfPipe>>
guiVars == <<callbacks, screen, playing, player, shown>>
vars == <<callVars, managerVars, proc, queueVars, thread, online, guiVars>>

At(place) == [at |-> place, list |-> 0, next |-> 1]
Goes(t, to) == thread' = [thread EXCEPT ![t] = to]
Advances(t) == thread' = [thread EXCEPT ![t].next = @ + 1]
Present == Len(lists)
Alive == {"run", "flush"}

Init ==
  /\ call = 0 /\ phase = "none"
  /\ ports = {} /\ event = 0 /\ raised = {} /\ lists = <<<<>>>>
  /\ proc = [n \in Call |-> [k \in Kind |-> "none"]]
  /\ buffer = [n \in Call |-> 0] /\ pipe = <<>> /\ writing = 0
  /\ kindOfPipe \in Pipes
  /\ thread = [t \in {"sip", "gui"} |-> At("loop")]
  /\ online = TRUE
  /\ callbacks = <<>> /\ screen = 0 /\ playing = {}
  /\ player = [n \in Call |-> [at |-> "none", frame |-> 0]]
  /\ shown = [n \in Call |-> 0]

-----------------------------------------------------------------------------
(* Signalling, as far as media see it *)

\* invite, or the answer to one, and the 200: the ports of both sides are set.
CallAgreed ==
  /\ phase = "none" /\ call < MaxCalls
  /\ thread["sip"].at = "loop" /\ thread["gui"].at = "loop"
  /\ screen = 0 /\ callbacks = <<>>
  /\ call' = call + 1 /\ phase' = "agreed"
  /\ ports' = Kind
  /\ UNCHANGED <<event, raised, lists, proc, queueVars, thread, online, guiVars>>

\* The loop of a program whose connection has been closed ends, when it is
\* back in it.
ServerCloses ==
  /\ online /\ thread["sip"].at = "loop"
  /\ online' = FALSE
  /\ UNCHANGED <<callVars, managerVars, proc, queueVars, thread, guiVars>>

-----------------------------------------------------------------------------
(* RTPManager.stop, in whichever thread *)

\* From here on the thread visits the processes of the list that is present.
EnterStop(t, place) ==
  /\ raised' = raised \ {event}
  /\ Goes(t, [at |-> place, list |-> Present, next |-> 1])
  /\ UNCHANGED <<ports, event, lists>>

Stopping(t) == thread[t].at \in {"clearing", "ending"}
Visits(t) == lists[thread[t].list][thread[t].next]
HasNext(t) == thread[t].next <= Len(lists[thread[t].list])
StateOf(p) == proc[p.call][p.kind]

JoinReturns(t) ==
  /\ Stopping(t) /\ HasNext(t)
  /\ StateOf(Visits(t)) = "dead"
  /\ Advances(t)
  /\ UNCHANGED <<callVars, managerVars, proc, queueVars, online, guiVars>>

\* The end of a process that is killed: the pipe keeps what it has written of
\* a frame, and the lock of the writer, unless frames go in as a whole.
Killed(p) ==
  /\ proc' = [proc EXCEPT ![p.call][p.kind] = "dead"]
  /\ IF p.kind = "send" THEN UNCHANGED <<buffer, pipe, writing>>
     ELSE /\ buffer' = [buffer EXCEPT ![p.call] = 0]
          /\ IF writing = p.call /\ kindOfPipe.atomic
             THEN /\ pipe' = IF pipe = <<>> THEN pipe ELSE SubSeq(pipe, 1, Len(pipe) - 1)
                  /\ writing' = 0
             ELSE UNCHANGED <<pipe, writing>>
  /\ UNCHANGED kindOfPipe

LeftAloneVariant(t) ==
  /\ Stopping(t) /\ HasNext(t)
  /\ StateOf(Visits(t)) \in Alive
  /\ Advances(t)
  /\ UNCHANGED <<callVars, managerVars, proc, queueVars, online, guiVars>>
\* join(timeout=5.0), terminate, join
JoinTimesOut(t) ==
  /\ Stopping(t) /\ HasNext(t)
  /\ StateOf(Visits(t)) \in Alive
  /\ Killed(Visits(t))
  /\ Advances(t)
  /\ UNCHANGED <<callVars, managerVars, online, guiVars>>

\* join refuses a process that the SIP thread has not started yet: the handler
\* of the closed window ends there, and with it the main loop.
JoinRaises ==
  /\ Stopping("gui") /\ HasNext("gui")
  /\ StateOf(Visits("gui")) \in {"built", "broken"}
  /\ Goes("gui", At("over"))
  /\ UNCHANGED <<callVars, managerVars, proc, queueVars, online, guiVars>>

ClearPorts ==
  /\ lists' = Append(lists, <<>>)
  /\ event' = 0 /\ ports' = {}

\* root.after in the SIP thread waits for the main loop to take the callback:
\* for ever if the loop has been told to quit, and it raises if it has ended;
\* then the SIP thread stops the program itself.
PostsTo(place, cb) ==
  /\ IF place = "loop" THEN callbacks' = Append(callbacks, cb)
     ELSE UNCHANGED callbacks
  /\ Goes("sip", At(IF place = "loop" THEN "loop"
                    ELSE IF place = "ending" THEN "stranded" ELSE "raised"))

\* mediator.clear: home, unless it is shown already
ClearEnds ==
  /\ thread["sip"].at = "clearing" /\ ~HasNext("sip")
  /\ ClearPorts
  /\ IF screen = 0 THEN Goes("sip", At("loop")) /\ UNCHANGED callbacks
     ELSE PostsTo(thread["gui"].at, 0)
  /\ UNCHANGED <<callVars, raised, proc, queueVars, online, screen, playing, player, shown>>

\* The last statement of mediator.stop: disconnect.
StopEndsVariant(t) ==
  /\ thread[t].at = "ending" /\ ~HasNext(t)
  /\ ClearPorts
  /\ Goes(t, At("over"))
  /\ UNCHANGED <<callVars, raised, proc, queueVars, online, guiVars>>
StopEnds(t) ==
  /\ thread[t].at = "ending" /\ ~HasNext(t)
  /\ ClearPorts
  /\ online' = FALSE
  /\ Goes(t, At("over"))
  /\ UNCHANGED <<callVars, raised, proc, queueVars, guiVars>>

-----------------------------------------------------------------------------
(* The SIP thread *)

\* start_rtp_comms: a new event, then one process after the other
StreamStarts ==
  /\ thread["sip"].at = "loop" /\ phase = "agreed"
  /\ phase' = "live"
  /\ event' = call /\ raised' = raised \cup {call}
  /\ Goes("sip", At("building"))
  /\ UNCHANGED <<call, ports, lists, proc, queueVars, online, guiVars>>

\* A process for each port that is set; one that is given no event any more
\* fails as soon as it looks at it.
BuildNext ==
  LET s == thread["sip"] k == Kinds[s.next] IN
  /\ s.at = "building" /\ s.next <= Len(Kinds)
  /\ IF k \in ports
     THEN /\ proc' = [proc EXCEPT ![call][k] = IF event = 0 THEN "broken" ELSE "built"]
          /\ lists' = [lists EXCEPT ![Present] = Append(@, [call |-> call, kind |-> k])]
     ELSE UNCHANGED <<proc, lists>>
  /\ Advances("sip")
  /\ UNCHANGED <<callVars, ports, event, raised, queueVars, online, guiVars>>

StartLoop ==
  /\ thread["sip"].at = "building" /\ thread["sip"].next > Len(Kinds)
  /\ Goes("sip", [at |-> "starting", list |-> Present, next |-> 1])
  /\ UNCHANGED <<callVars, managerVars, proc, queueVars, online, guiVars>>

\* It ends at once if its port has been taken or there is no camera.
StartNext ==
  LET p == Visits("sip") IN
  /\ thread["sip"].at = "starting" /\ HasNext("sip")
  /\ \E outcome \in IF StateOf(p) = "broken" THEN {"dead"} ELSE {"run", "dead"} :
       proc' = [proc EXCEPT ![p.call][p.kind] = outcome]
  /\ Advances("sip")
  /\ UNCHANGED <<callVars, managerVars, queueVars, online, guiVars>>

\* the end of mediator.start_stream
StreamShown ==
  /\ thread["sip"].at = "starting" /\ ~HasNext("sip")
  /\ PostsTo(thread["gui"].at, call)
  /\ UNCHANGED <<callVars, managerVars, proc, queueVars, online, screen, playing,
                 player, shown>>

\* A BYE, a 604 or the 200 to the own BYE: clear_call.
CallEnds ==
  /\ thread["sip"].at = "loop" /\ phase # "none" /\ online
  /\ phase' = "none"
  /\ EnterStop("sip", "clearing")
  /\ UNCHANGED <<call, proc, queueVars, online, guiVars>>

\* gui.stop
GuiStops ==
  /\ playing' = playing \ {screen}
  /\ screen' = 0
  /\ callbacks' = <<>>
  /\ UNCHANGED <<player, shown>>

\* The end of _main_loop, by an exception or without a connection:
\* mediator.stop, whose gui.stop ends the main loop.
SipEnds ==
  /\ \/ thread["sip"].at = "raised"
     \/ thread["sip"].at = "loop" /\ ~online
  /\ GuiStops
  /\ raised' = raised \ {event}
  /\ thread' = [thread EXCEPT !["sip"] = [at |-> "ending", list |-> Present, next |-> 1],
                              !["gui"] = IF @.at = "loop" THEN At("over") ELSE @]
  /\ UNCHANGED <<callVars, ports, event, lists, proc, queueVars, online>>

-----------------------------------------------------------------------------
(* The GUI thread *)

\* show_screen: the old controller is told to end, and a video screen has a
\* controller with a thread of its own.
ShowScreen ==
  LET s == Head(callbacks) IN
  /\ thread["gui"].at = "loop" /\ callbacks # <<>>
  /\ callbacks' = Tail(callbacks)
  /\ playing' = (playing \ {screen}) \cup ({s} \ {0})
  /\ player' = IF s = 0 THEN player ELSE [player EXCEPT ![s].at = "top"]
  /\ screen' = s
  /\ UNCHANGED <<callVars, managerVars, proc, queueVars, thread, online, shown>>

\* The button "end call" ends the playing at once; the BYE is signalling.
EndCallClicked ==
  /\ thread["gui"].at = "loop" /\ callbacks = <<>>
  /\ screen \in playing
  /\ playing' = playing \ {screen}
  /\ UNCHANGED <<callVars, managerVars, proc, queueVars, thread, online, callbacks,
                 screen, player, shown>>

\* on_closing: mediator.stop in the GUI thread
WindowClosed ==
  /\ thread["gui"].at = "loop"
  /\ GuiStops
  /\ EnterStop("gui", "ending")
  /\ UNCHANGED <<callVars, proc, queueVars, online>>

-----------------------------------------------------------------------------
(* The processes *)

Becomes(n, k, state) == proc' = [proc EXCEPT ![n][k] = state]

\* The camera gives no picture any more.
CameraFails(n) ==
  /\ proc[n]["send"] = "run"
  /\ Becomes(n, "send", "dead")
  /\ UNCHANGED <<callVars, managerVars, queueVars, thread, online, guiVars>>

\* The loop ends: a receiver still has to write the frames of its queue.
ProcessStops(n, k) ==
  /\ proc[n][k] = "run" /\ n \notin raised
  /\ Becomes(n, k, IF k = "recv" THEN "flush" ELSE "dead")
  /\ UNCHANGED <<callVars, managerVars, queueVars, thread, online, guiVars>>

FrameReceived(n) ==
  /\ proc[n]["recv"] = "run" /\ buffer[n] < MaxFrames
  /\ buffer' = [buffer EXCEPT ![n] = @ + 1]
  /\ UNCHANGED <<callVars, managerVars, proc, pipe, writing, kindOfPipe, thread, online, guiVars>>

\* The thread of the queue in the process, which holds the queue's lock while
\* it writes a frame; a frame is in when the pipe has room for all of it.
WriteBegins(n) ==
  /\ proc[n]["recv"] \in {"run", "flush"}
  /\ buffer[n] > 0 /\ writing = 0
  /\ buffer' = [buffer EXCEPT ![n] = @ - 1]
  /\ pipe' = Append(pipe, n)
  /\ writing' = n
  /\ UNCHANGED <<callVars, managerVars, proc, kindOfPipe, thread, online, guiVars>>

WriteEnds(n) ==
  /\ proc[n]["recv"] \in {"run", "flush"}
  /\ writing = n /\ Len(pipe) <= kindOfPipe.room
  /\ writing' = 0
  /\ UNCHANGED <<callVars, managerVars, proc, buffer, pipe, kindOfPipe, thread,
                 online, guiVars>>

Flushed(n) ==
  /\ proc[n]["recv"] = "flush"
  /\ buffer[n] = 0 /\ writing # n
  /\ Becomes(n, "recv", "dead")
  /\ UNCHANGED <<callVars, managerVars, queueVars, thread, online, guiVars>>

-----------------------------------------------------------------------------
(* The thread of a video screen: data_loop *)

PlayerGoes(n, place, frame) ==
  /\ player' = [player EXCEPT ![n] = [at |-> place, frame |-> frame]]
  /\ UNCHANGED <<callVars, managerVars, proc, buffer, writing, kindOfPipe, thread,
                 online, callbacks, screen, playing>>

PlayerLooks(n) ==
  /\ player[n].at = "top"
  /\ PlayerGoes(n, IF n \in playing THEN "fetch" ELSE "done", 0)
  /\ UNCHANGED <<pipe, shown>>

\* get_nowait: nothing if the pipe is empty or another thread is reading it
PlayerFetchesVariant(n) ==
  /\ player[n].at = "fetch"
  /\ IF pipe = <<>> \/ \E m \in Call : player[m].at = "reading"
     THEN PlayerGoes(n, "done", 0) /\ UNCHANGED pipe
     ELSE PlayerGoes(n, "reading", Head(pipe)) /\ pipe' = Tail(pipe)
  /\ UNCHANGED shown
PlayerFetches(n) ==
  /\ player[n].at = "fetch"
  /\ IF pipe = <<>> \/ \E m \in Call : player[m].at = "reading"
     THEN PlayerGoes(n, "top", 0) /\ UNCHANGED pipe
     ELSE PlayerGoes(n, "reading", Head(pipe)) /\ pipe' = Tail(pipe)
  /\ UNCHANGED shown

\* A frame that is in the pipe in part is waited for.
PlayerReads(n) ==
  /\ player[n].at = "reading"
  /\ kindOfPipe.atomic \/ writing = 0 \/ pipe # <<>>
  /\ PlayerGoes(n, "holding", player[n].frame)
  /\ UNCHANGED <<pipe, shown>>

PlayerPlays(n) ==
  /\ player[n].at = "holding"
  /\ PlayerGoes(n, "top", 0)
  /\ shown' = [shown EXCEPT ![n] = player[n].frame]
  /\ UNCHANGED pipe

-----------------------------------------------------------------------------

SipStep ==
  \/ StreamStarts \/ BuildNext \/ StartLoop \/ StartNext \/ StreamShown
  \/ SipEnds \/ ClearEnds \/ StopEnds("sip") \/ JoinReturns("sip") \/ JoinTimesOut("sip")
GuiStep ==
  \/ ShowScreen \/ StopEnds("gui") \/ JoinReturns("gui") \/ JoinTimesOut("gui")
  \/ JoinRaises
ProcessStep(n) == (\E k \in Kind : ProcessStops(n, k)) \/ Flushed(n)
QueueStep(n) == FrameReceived(n) \/ WriteBegins(n) \/ WriteEnds(n)
PlayerStep(n) == PlayerLooks(n) \/ PlayerFetches(n) \/ PlayerReads(n) \/ PlayerPlays(n)

Outside == CallAgreed \/ ServerCloses \/ CallEnds \/ EndCallClicked \/ WindowClosed

Next ==
  \/ SipStep \/ GuiStep \/ Outside
  \/ \E n \in Call : ProcessStep(n) \/ CameraFails(n) \/ QueueStep(n) \/ PlayerStep(n)

Spec == Init /\ [][Next]_vars

\* What runs goes on, and the peer sends; users, signalling and failures are
\* under no obligation.
Fairness ==
  /\ WF_vars(SipStep) /\ WF_vars(GuiStep)
  /\ \A n \in Call :
       WF_vars(ProcessStep(n)) /\ WF_vars(QueueStep(n)) /\ WF_vars(PlayerStep(n))
FairSpec == Spec /\ Fairness

-----------------------------------------------------------------------------
(* What should hold *)

\* stop waits for every process and kills those that do not end, so the camera
\* and the microphone are free when the next call wants them: never do two
\* processes of one kind live at once.
OneProcessOfAKind ==
  \A m, n \in Call, k \in Kind : proc[m][k] \in Alive /\ proc[n][k] \in Alive => m = n

\* The queue outlives the call and its frames are not dropped, so a screen may
\* begin with frames of the call before; but what it plays never goes back to
\* an earlier call: no process of that call writes any more.
NeverBackwards == [][\A n \in Call : shown'[n] >= shown[n]]_shown

\* A process was killed in the middle of a frame.
Torn == \E n \in Call : writing = n /\ proc[n]["recv"] = "dead"

\* A video screen comes to play the frames of its own call, in spite of those
\* that are left over (get_next_video_frame, one queue for all calls), unless
\* it is left first, its receiver fails, or an earlier receiver was killed in
\* the middle of a frame: then the queue is blocked for all calls to come.
OwnCallIsPlayed ==
  playing # {} ~>
    (\A n \in playing : shown[n] = n \/ proc[n]["recv"] = "dead") \/ Torn

\* A closed window ends the program: both threads, and every process of every
\* call, though stop runs beside the SIP thread that starts them.  The
\* exception is a SIP thread that had a screen to show while the window closed:
\* it waits for ever for the main loop.
ClosedWindowEnds ==
  thread["gui"].at # "loop" ~>
    \/ thread["sip"].at = "stranded"
    \/ /\ \A t \in {"sip", "gui"} : thread[t].at = "over"
       /\ \A n \in Call, k \in Kind : proc[n][k] \notin Alive
=============================================================================
