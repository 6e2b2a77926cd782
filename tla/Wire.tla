-------------------------------- MODULE Wire --------------------------------
(***************************************************************************)
(* One direction of a connection (utils/comms.py): threads that send       *)
(* messages over one socket without a lock, a stream that keeps the order  *)
(* of bytes and nothing else, and the loop that reads them.                *)
(*                                                                         *)
(* A frame is a header with the length and the encrypted text.  The stream *)
(* is a sequence of pieces, each of which knows its frame and its place in *)
(* it; sock.send takes as many pieces as there is room for, sock.recv      *)
(* returns as many as have come.                                           *)
(***************************************************************************)
EXTENDS SipText

CONSTANTS
  Sender,    \* the threads that send
  Menu,      \* the messages each of them may send
  Offers,    \* the offers that some of them carry
  INT_SIZE,  \* pieces of a header
  MaxSize,   \* bound on the pieces of a text
  MaxSent,   \* bound on the messages
  Room       \* how many pieces the buffers of the connection hold

ASSUME WireAssumption ==
  /\ INT_SIZE \in Nat \ {0} /\ MaxSize \in Nat \ {0} /\ MaxSent \in Nat /\ Room \in Nat \ {0}

Message == UNION {Menu[t] : t \in Sender}

\* The messages whose text parse does not survive: a blank or a ": " in a name.
Unparsable == {m \in Message : Raises(Build(m))}

\* What the reader understands
Understood == [m \in Message \ Unparsable |-> Parse(Build(m))]

VARIABLES
  frames,    \* the frames so far: who sends which message, the size of its text
  sending,   \* what each thread is sending: a frame, 0 if none, and how much
             \* of it the socket has taken
  open,      \* the sender has not closed its socket
  stream,    \* the pieces that are on their way
  reader,    \* where the reading loop is, what it has got, how much it wants
  delivered, \* the frames it has handed on
  crossed    \* a thread has sent while another was in the middle of a frame

vars == <<frames, sending, open, stream, reader, delivered, crossed>>

Idle == [frame |-> 0, sent |-> 0]
AtHeader == [at |-> "header", got |-> <<>>, wants |-> INT_SIZE]
Ends(how) == [at |-> how, got |-> <<>>, wants |-> 0]

Init ==
  /\ frames = <<>> /\ sending = [t \in Sender |-> Idle] /\ open = TRUE
  /\ stream = <<>> /\ reader = AtHeader /\ delivered = <<>> /\ crossed = FALSE

-----------------------------------------------------------------------------
(* send_encrypted *)

Total(f) == INT_SIZE + frames[f].size
Pieces(f, from, to) == [i \in 1..(to - from) |-> [frame |-> f, place |-> from + i]]
Inside(t) == sending[t].frame # 0 /\ sending[t].sent \in 1..(Total(sending[t].frame) - 1)

SendBegins(t) ==
  /\ open /\ sending[t] = Idle /\ Len(frames) < MaxSent
  /\ \E msg \in Menu[t], size \in 1..MaxSize :
       frames' = Append(frames, [by |-> t, msg |-> msg, size |-> size])
  /\ sending' = [sending EXCEPT ![t] = [frame |-> Len(frames'), sent |-> 0]]
  /\ UNCHANGED <<open, stream, reader, delivered, crossed>>

SendOnceVariant(t) ==
  LET f == sending[t].frame IN
  /\ open /\ f # 0
  /\ \E upto \in (sending[t].sent + 1)..Total(f) :
       /\ Len(stream) + upto - sending[t].sent <= Room
       /\ stream' = stream \o Pieces(f, sending[t].sent, upto)
       /\ sending' = [sending EXCEPT ![t] = Idle]
  /\ crossed' = (crossed \/ \E u \in Sender \ {t} : Inside(u))
  /\ UNCHANGED <<frames, open, reader, delivered>>
\* sent += sock.send(to_send[sent:])
SendMore(t) ==
  LET f == sending[t].frame IN
  /\ open /\ f # 0
  /\ \E upto \in (sending[t].sent + 1)..Total(f) :
       /\ Len(stream) + upto - sending[t].sent <= Room
       /\ stream' = stream \o Pieces(f, sending[t].sent, upto)
       /\ sending' = [sending EXCEPT ![t] = IF upto = Total(f) THEN Idle
                                            ELSE [frame |-> f, sent |-> upto]]
  /\ crossed' = (crossed \/ \E u \in Sender \ {t} : Inside(u))
  /\ UNCHANGED <<frames, open, reader, delivered>>

\* sock.send raises: send_encrypted returns False.
SendFails(t) ==
  /\ sending[t] # Idle /\ ~open
  /\ sending' = [sending EXCEPT ![t] = Idle]
  /\ UNCHANGED <<frames, open, stream, reader, delivered, crossed>>

SenderCloses ==
  /\ open
  /\ open' = FALSE
  /\ UNCHANGED <<frames, sending, stream, reader, delivered, crossed>>

-----------------------------------------------------------------------------
(* recv_encrypted, decryption and SIPMsgFactory.parse *)

Reading == reader.at \in {"header", "text"}

\* Pieces 1 to n of one frame, or n + 1 to the end
Whole(got, first) ==
  \A i \in DOMAIN got : got[i] = [frame |-> got[1].frame, place |-> first + i]

\* What follows a complete header: a length that is 0 ends the connection, and
\* a torn one may be any.
AfterHeader(got) ==
  {IF n = 0 THEN Ends("closed") ELSE [at |-> "text", got |-> <<>>, wants |-> n] :
     n \in IF Whole(got, 0) THEN {frames[got[1].frame].size} ELSE 0..MaxSize}

\* A complete text that does not decrypt raises, and so may parse.
Readable(got) ==
  LET f == frames[got[1].frame] IN
  Whole(got, INT_SIZE) /\ Len(got) = f.size /\ f.msg \notin Unparsable
AfterTextVariant(got) ==
  reader' = AtHeader /\
  IF Readable(got) THEN delivered' = Append(delivered, got[1].frame) ELSE UNCHANGED delivered
AfterText(got) ==
  IF Readable(got)
  THEN reader' = AtHeader /\ delivered' = Append(delivered, got[1].frame)
  ELSE reader' = Ends("raised") /\ UNCHANGED delivered

RecvVariant ==
  /\ Reading
  /\ \E n \in 1..(reader.wants - Len(reader.got)) :
       LET got == reader.got \o SubSeq(stream, 1, n) IN
       /\ n <= Len(stream)
       /\ stream' = SubSeq(stream, n + 1, Len(stream))
       /\ \/ /\ reader.at = "header" /\ Len(got) < reader.wants
             /\ reader' = [reader EXCEPT !.got = got] /\ UNCHANGED delivered
          \/ /\ reader.at = "header" /\ Len(got) = reader.wants
             /\ reader' \in AfterHeader(got) /\ UNCHANGED delivered
          \/ /\ reader.at = "text"
             /\ AfterText(got)
  /\ UNCHANGED <<frames, sending, open, crossed>>
\* buf = sock.recv(wants - len(got)), until there is no more to want
Recv ==
  /\ Reading
  /\ \E n \in 1..(reader.wants - Len(reader.got)) :
       LET got == reader.got \o SubSeq(stream, 1, n) IN
       /\ n <= Len(stream)
       /\ stream' = SubSeq(stream, n + 1, Len(stream))
       /\ \/ /\ Len(got) < reader.wants
             /\ reader' = [reader EXCEPT !.got = got] /\ UNCHANGED delivered
          \/ /\ Len(got) = reader.wants /\ reader.at = "header"
             /\ reader' \in AfterHeader(got) /\ UNCHANGED delivered
          \/ /\ Len(got) = reader.wants /\ reader.at = "text"
             /\ AfterText(got)
  /\ UNCHANGED <<frames, sending, open, crossed>>

\* buf == b''
RecvEnds ==
  /\ Reading /\ ~open /\ stream = <<>>
  /\ reader' = Ends("closed")
  /\ UNCHANGED <<frames, sending, open, stream, delivered, crossed>>

Next ==
  \/ \E t \in Sender : SendBegins(t) \/ SendMore(t) \/ SendFails(t)
  \/ SenderCloses \/ Recv \/ RecvEnds
Spec == Init /\ [][Next]_vars

\* Both loops go on while they can.
FairSpec ==
  Spec /\ WF_vars(Recv \/ RecvEnds) /\ \A t \in Sender : WF_vars(SendMore(t) \/ SendFails(t))

-----------------------------------------------------------------------------
(* What should hold *)

\* However the pieces are cut, the messages of a thread arrive in the order in
\* which it sent them, each once and none left out, unless two threads have
\* sent into one another.
InOrder ==
  crossed \/
    \A i \in DOMAIN delivered :
      LET f == delivered[i] IN
      /\ \A j \in 1..(i - 1) : delivered[j] # f
      /\ \A g \in 1..(f - 1) : frames[g].by = frames[f].by =>
           \E j \in 1..(i - 1) : delivered[j] = g

\* The loop that reads, and with it the whole server, ends by an exception for
\* two reasons only.
RaisesForAReason ==
  reader.at = "raised" => crossed \/ \E f \in DOMAIN frames : frames[f].msg \in Unparsable

\* A message arrives as it was sent, except that the names in its headers are
\* in lower case, while the one in the start line is not; what the server
\* relays of it is read in the same way again; and an offer is understood,
\* unless it offers no port (SIPMsgFactory.parse, SDP.parse).
Folded(msg) ==
  [msg EXCEPT !.headers = [key \in DOMAIN msg.headers |->
     IF key \in {"cseq", "content-length"} THEN msg.headers[key] ELSE Lower(msg.headers[key])]]
Mute(offer) == offer.audio_port = 0 /\ offer.video_port = 0
Faithful ==
  [m \in DOMAIN Understood |->
     LET u == Understood[m] IN
     /\ u = Folded(m) /\ ~Raises(Build(u)) /\ Parse(Build(u)) = u
     /\ \A o \in Offers : m.body = SdpLines(o) => SdpParse(u.body) = IF Mute(o) THEN {} ELSE {o}]
SaysTheSame == \A i \in DOMAIN delivered : Faithful[frames[delivered[i]].msg]

\* Every message that was begun is delivered in the end, unless a side has
\* ended or two threads have sent into one another.
EveryMessageArrives ==
  \A f \in 1..MaxSent :
    Len(frames) >= f ~>
      \/ ~open \/ ~Reading \/ crossed
      \/ \E i \in DOMAIN delivered : delivered[i] = f
=============================================================================
