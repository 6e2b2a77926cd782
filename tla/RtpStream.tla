------------------------------ MODULE RtpStream ------------------------------
(***************************************************************************)
(* One direction of a media stream: RTPHandler.send_packet, which cuts a   *)
(* payload into numbered packets, and RTPHandler._receive_loop, which puts *)
(* them together again (client/rtp_logic/rtp_handler.py), over UDP.        *)
(***************************************************************************)
EXTENDS Naturals, Sequences

CONSTANTS
  SeqLimit,   \* 2^16: struct.pack('!H') refuses this and more
  FirstSeqs,  \* where the random my_seq may start
  Sizes,      \* into how many packets a payload may be cut
  MaxFrames,  \* bound on the calls of send_packet
  NoSeq       \* None

ASSUME StreamAssumption ==
  /\ SeqLimit \in Nat
  /\ FirstSeqs \subseteq 0..(SeqLimit - 1)
  /\ Sizes \subseteq Nat \ {0}
  /\ MaxFrames \in Nat
  /\ NoSeq \notin Nat

VARIABLES
  mySeq,     \* my_seq of the sender
  frame,     \* how many payloads send_packet was called with
  size,      \* into how many packets it has cut the last one
  part,      \* how many of them it is done with
  sent,      \* the packets given to the network, in order
  calm,      \* whether the network has delivered all of them so far, in order
  arrived,   \* how many have arrived in that time
  building,  \* recv_payload: the packets that it was made of, none for None
  remoteSeq, \* remote_seq
  delivered  \* the frame that the last step put in receive_queue, if any

senderVars == <<mySeq, frame, size, part>>
receiverVars == <<building, remoteSeq, delivered>>
vars == <<senderVars, sent, calm, arrived, receiverVars>>

\* A payload that fits into one packet is sent without the marker.
MarkerVariant(p) == p.size > 1 /\ p.part + 1 = p.size
Marker(p) == p.size > 1 /\ p.part = p.size

Init ==
  /\ mySeq \in FirstSeqs
  /\ frame = 0 /\ size = 0 /\ part = 0
  /\ sent = <<>>
  /\ calm = TRUE /\ arrived = 0
  /\ building = <<>> /\ remoteSeq = NoSeq /\ delivered = <<>>

-----------------------------------------------------------------------------
(* The sender *)

SendPacket(n) ==
  /\ part = size /\ frame < MaxFrames
  /\ frame' = frame + 1 /\ size' = n /\ part' = 0
  /\ delivered' = <<>>
  /\ UNCHANGED <<mySeq, sent, calm, arrived, building, remoteSeq>>

AfterVariant(seq) == (seq + 1) % SeqLimit
After(seq) == seq + 1

FitsVariant(seq) == seq <= SeqLimit
Fits(seq) == seq < SeqLimit

SendTo ==
  /\ part < size /\ Fits(mySeq)
  /\ sent' = Append(sent, [seq |-> mySeq, frame |-> frame, part |-> part + 1, size |-> size])
  /\ part' = part + 1
  /\ mySeq' = After(mySeq)
  /\ delivered' = <<>>
  /\ UNCHANGED <<frame, size, calm, arrived, building, remoteSeq>>

\* build_packet has no room for the number, or sendto fails: the packet and
\* the rest of its frame are given up, the number is used up.
SendRaises ==
  /\ part < size /\ (~Fits(mySeq) \/ ~calm)
  /\ part' = size
  /\ mySeq' = After(mySeq)
  /\ delivered' = <<>>
  /\ UNCHANGED <<frame, size, sent, calm, arrived, building, remoteSeq>>

-----------------------------------------------------------------------------
(* The receiver *)

BelongsVariant(p) == building # <<>>
Belongs(p) == building # <<>> /\ p.seq = remoteSeq

ExpectVariant(p) == p.seq
Expect(p) == p.seq + 1

Receive(p) ==
  LET kept == IF Belongs(p) THEN building ELSE <<>> IN
  /\ IF Marker(p)
     THEN /\ delivered' = Append(kept, p)
          /\ building' = <<>>
          /\ remoteSeq' = IF kept = <<>> THEN remoteSeq ELSE NoSeq
     ELSE /\ delivered' = <<>>
          /\ building' = Append(kept, p)
          /\ remoteSeq' = IF kept = <<>> THEN Expect(p) ELSE remoteSeq + 1
  /\ UNCHANGED <<senderVars, sent, calm>>

-----------------------------------------------------------------------------
(* The network *)

ReceiveNext ==
  /\ calm /\ arrived < Len(sent)
  /\ arrived' = arrived + 1
  /\ Receive(sent[arrived + 1])

\* Any packet, in any order, any number of times or never.
ReceiveAny ==
  /\ ~calm
  /\ \E i \in DOMAIN sent : Receive(sent[i])
  /\ UNCHANGED arrived

TurnsRough ==
  /\ calm /\ calm' = FALSE
  /\ delivered' = <<>>
  /\ UNCHANGED <<senderVars, sent, arrived, building, remoteSeq>>

Next ==
  \/ \E n \in Sizes : SendPacket(n)
  \/ SendTo \/ SendRaises \/ ReceiveNext \/ ReceiveAny \/ TurnsRough

Spec == Init /\ [][Next]_vars

\* The receive loop reads what has arrived.
FairSpec == Spec /\ WF_vars(ReceiveNext)

-----------------------------------------------------------------------------
Packet == [seq : 0..(SeqLimit - 1), frame : 1..MaxFrames, part : Nat \ {0}, size : Sizes]

TypeOK ==
  /\ mySeq \in Nat
  /\ frame \in 0..MaxFrames
  /\ size \in Sizes \cup {0}
  /\ part \in 0..size
  /\ sent \in Seq(Packet)
  /\ calm \in BOOLEAN
  /\ arrived \in 0..Len(sent)
  /\ building \in Seq(Packet)
  /\ remoteSeq \in Nat \cup {NoSeq}
  /\ delivered \in Seq(Packet)

LastOfCut(p) == p.part = p.size /\ p.size > 1

\* How packet q continues packet p: the next part of one frame, or the first
\* part of a later one after a frame of a single packet.
Continues(p, q) ==
  \/ q.frame = p.frame /\ q.size = p.size /\ q.part = p.part + 1
  \/ q.frame > p.frame /\ p.size = 1 /\ q.part = 1

\* A frame put in receive_queue has no hole, whatever the network loses,
\* repeats or reorders: it ends with the last part of a frame that was cut,
\* and before that part come the parts that precede it, never those of
\* another frame that was cut.
DeliveredWithoutHole ==
  delivered # <<>> =>
    /\ LastOfCut(delivered[Len(delivered)])
    /\ \A i \in 1..(Len(delivered) - 1) :
         ~LastOfCut(delivered[i]) /\ Continues(delivered[i], delivered[i + 1])

\* While the network loses nothing, no frame is delivered without its start.
WholeWhileCalm == calm /\ delivered # <<>> => delivered[1].part = 1

\* While the network loses nothing, every payload that was cut and that got to
\* the network whole is delivered.
LastPartSent(f) ==
  \E i \in DOMAIN sent : i > arrived /\ sent[i].frame = f /\ LastOfCut(sent[i])

EndsWith(f) ==
  /\ delivered # <<>>
  /\ LET last == delivered[Len(delivered)] IN last.frame = f /\ LastOfCut(last)

CutFramesArrive ==
  \A f \in 1..MaxFrames : LastPartSent(f) ~> (~calm \/ EndsWith(f))

-----------------------------------------------------------------------------
\* "build fragmented packets, only add a full frame" (rtp_handler.py:98): a
\* frame in receive_queue is one payload of the sender, from its first part.
OnlyFullFrames ==
  delivered # <<>> =>
    /\ delivered[1].part = 1
    /\ \A i \in DOMAIN delivered : delivered[i].frame = delivered[1].frame
=============================================================================
