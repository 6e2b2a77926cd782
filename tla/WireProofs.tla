----------------------------- MODULE WireProofs -----------------------------
(***************************************************************************)
(* Proofs about Wire: while no thread has sent into another's frame, the   *)
(* stream is the frames laid end to end, however it is cut; what is handed *)
(* on is a message that can be read, in the order in which it was sent.    *)
(***************************************************************************)
EXTENDS Wire, SequenceTheorems, TLAPS

\* The frames there are, and the pieces of frames
Frames == 1..Len(frames)
Frame == [by : Sender, msg : Message, size : 1..MaxSize]
Piece == [frame : Frames, place : Nat]

TypeInv ==
  /\ frames \in Seq(Frame)
  /\ sending \in [Sender -> [frame : {0} \cup Frames, sent : Nat]]
  /\ open \in BOOLEAN /\ crossed \in BOOLEAN
  /\ stream \in Seq(Piece)
  /\ reader \in [at : {"header", "text", "closed", "raised"}, got : Seq(Piece), wants : Nat]
  /\ Reading => Len(reader.got) < reader.wants
  /\ delivered \in Seq(Frames)

\* What is handed on can be read, even if threads have sent into one another.
DeliveredAreParsable ==
  \A i \in DOMAIN delivered : frames[delivered[i]].msg \notin Unparsable

-----------------------------------------------------------------------------
(* The order of the frames on the wire, and where each of them begins *)

\* A thread is sending the last of its frames, and has begun to if the frame is
\* on the wire, where it is then the last.
AtSenders(order) ==
  \A t \in Sender : sending[t] # Idle =>
    LET f == sending[t].frame IN
    /\ f \in Frames /\ frames[f].by = t /\ sending[t].sent < Total(f)
    /\ \A g \in Frames : frames[g].by = t => g <= f
    /\ sending[t].sent = 0 => \A k \in 1..Len(order) : order[k] # f
    /\ sending[t].sent > 0 => order # <<>> /\ order[Len(order)] = f

\* Until the socket is closed, every frame is on the wire except those whose
\* first piece is still to be sent.
AllOnTheWire(order) ==
  open => \A f \in Frames :
    \/ sending[frames[f].by] = [frame |-> f, sent |-> 0]
    \/ \E k \in 1..Len(order) : order[k] = f

\* Each frame is on the wire once, behind all earlier ones of its thread.
InTurn(order) ==
  \A k \in 1..Len(order) :
    /\ \A j \in 1..(k - 1) : order[j] # order[k]
    /\ \A g \in 1..(order[k] - 1) : frames[g].by = frames[order[k]].by =>
         \E j \in 1..(k - 1) : order[j] = g

\* Frame k of the order follows off[k] pieces.
EndToEnd(order, off) ==
  /\ Len(off) = Len(order) + 1 /\ off[1] = 0
  /\ \A k \in 1..Len(order) : off[k + 1] = off[k] + Total(order[k])
  /\ \A j, k \in 1..Len(off) : j <= k => off[j] <= off[k]

DeliveredInTurn(order) ==
  /\ Len(delivered) <= Len(order)
  /\ \A i \in 1..Len(delivered) : delivered[i] = order[i]

\* The frame that is being read, and the pieces read of all frames
Skipped == IF reader.at = "text" THEN INT_SIZE ELSE 0
ReadSoFar(off) == off[Len(delivered) + 1] + Skipped + Len(reader.got)

AtReader(order) ==
  LET k == Len(delivered) + 1 IN
  /\ reader.at = "header" => reader.wants = INT_SIZE
  /\ reader.at = "text" => k <= Len(order) /\ reader.wants = frames[order[k]].size
  /\ \A i \in 1..Len(reader.got) :
       /\ k <= Len(order)
       /\ reader.got[i] = [frame |-> order[k], place |-> Skipped + i]

\* How far the frames have been written
Written(order, off) ==
  LET written == ReadSoFar(off) + Len(stream) IN
  /\ written <= off[Len(off)]
  /\ open /\ (\A t \in Sender : ~Inside(t)) => written = off[Len(off)]
  /\ open => \A t \in Sender : Inside(t) => written = off[Len(order)] + sending[t].sent

\* What is on its way is what belongs there.
OnItsWay(order, off) ==
  \A k \in 1..Len(order), i \in 1..Len(stream) :
    off[k] < ReadSoFar(off) + i /\ ReadSoFar(off) + i <= off[k + 1] =>
      stream[i] = [frame |-> order[k], place |-> (ReadSoFar(off) + i) - off[k]]

OnTheWire(order, off) ==
  /\ order \in Seq(Frames) /\ off \in Seq(Nat)
  /\ AtSenders(order) /\ AllOnTheWire(order) /\ InTurn(order) /\ EndToEnd(order, off)
  /\ DeliveredInTurn(order)
  /\ Reading => AtReader(order) /\ Written(order, off) /\ OnItsWay(order, off)

Inv ==
  /\ TypeInv /\ DeliveredAreParsable /\ RaisesForAReason
  /\ crossed \/ \E order \in Seq(Frames), off \in Seq(Nat) : OnTheWire(order, off)

-----------------------------------------------------------------------------
(* Facts about frames and pieces *)

LEMMA FrameFacts ==
  ASSUME TypeInv, NEW f \in Frames
  PROVE  /\ frames[f] \in Frame /\ frames[f].by \in Sender /\ frames[f].size \in 1..MaxSize
         /\ Total(f) \in Nat /\ Total(f) > INT_SIZE /\ INT_SIZE > 0
<1>1. frames[f] \in Frame
  BY DEF TypeInv, Frames
<1>2. frames[f].by \in Sender /\ frames[f].size \in 1..MaxSize
  BY <1>1 DEF Frame
<1> QED
  BY <1>1, <1>2, WireAssumption DEF Total

\* Pieces(f, from, to) are the pieces from + 1 to to of frame f.
LEMMA PiecesFacts ==
  ASSUME NEW f \in Frames, NEW from \in Nat, NEW to \in Nat, from <= to
  PROVE  /\ Pieces(f, from, to) \in Seq(Piece)
         /\ Len(Pieces(f, from, to)) = to - from
         /\ \A i \in 1..(to - from) :
              Pieces(f, from, to)[i] = [frame |-> f, place |-> from + i]
<1>1. \A i \in 1..(to - from) : [frame |-> f, place |-> from + i] \in Piece
  BY DEF Piece
<1> QED
  BY <1>1 DEF Pieces

\* What the senders write goes behind what is on its way.
LEMMA Written1 ==
  ASSUME TypeInv, NEW f \in Frames, NEW from \in Nat, NEW to \in Nat, from <= to
  PROVE  LET s == stream \o Pieces(f, from, to) IN
         /\ s \in Seq(Piece) /\ Len(s) = Len(stream) + to - from
         /\ \A i \in 1..Len(s) :
              s[i] = IF i <= Len(stream) THEN stream[i]
                     ELSE [frame |-> f, place |-> from + i - Len(stream)]
<1> DEFINE s == stream \o Pieces(f, from, to)
<1>1. stream \in Seq(Piece) /\ Len(stream) \in Nat
  BY DEF TypeInv
<1>2. /\ s \in Seq(Piece) /\ Len(s) = Len(stream) + (to - from)
      /\ \A i \in 1..(Len(stream) + (to - from)) :
           s[i] = IF i <= Len(stream) THEN stream[i] ELSE Pieces(f, from, to)[i - Len(stream)]
  <2>1. /\ Pieces(f, from, to) \in Seq(Piece)
        /\ Len(Pieces(f, from, to)) = to - from
    BY PiecesFacts
  <2> QED
    BY <1>1, <2>1, ConcatProperties
<1> HIDE DEF s
<1>3. ASSUME NEW i \in 1..Len(s), i > Len(stream)
      PROVE  s[i] = [frame |-> f, place |-> from + i - Len(stream)]
  <2>1. i - Len(stream) \in 1..(to - from) /\ i \in 1..(Len(stream) + (to - from))
    BY <1>1, <1>2, <1>3
  <2>2. Pieces(f, from, to)[i - Len(stream)] = [frame |-> f, place |-> from + (i - Len(stream))]
    BY <2>1, PiecesFacts
  <2>3. from + (i - Len(stream)) = from + i - Len(stream)
    BY <1>1, <2>1
  <2> QED
    BY <1>1, <1>2, <1>3, <2>1, <2>2, <2>3
<1>4. ASSUME NEW i \in 1..Len(s), i <= Len(stream)
      PROVE  s[i] = stream[i]
  BY <1>1, <1>2, <1>4
<1>5. \A i \in 1..Len(s) :
        s[i] = IF i <= Len(stream) THEN stream[i]
               ELSE [frame |-> f, place |-> from + i - Len(stream)]
  BY <1>1, <1>2, <1>3, <1>4
<1>6. Len(s) = Len(stream) + to - from
  BY <1>1, <1>2
<1> QED
  BY <1>2, <1>5, <1>6 DEF s

\* What the reader takes is the first n pieces that are on their way.
LEMMA Taken ==
  ASSUME TypeInv, NEW n \in 1..Len(stream)
  PROVE  LET got == reader.got \o SubSeq(stream, 1, n)
             rest == SubSeq(stream, n + 1, Len(stream)) IN
         /\ got \in Seq(Piece) /\ Len(got) = Len(reader.got) + n
         /\ \A i \in 1..Len(got) : got[i] = IF i <= Len(reader.got) THEN reader.got[i]
                                            ELSE stream[i - Len(reader.got)]
         /\ rest \in Seq(Piece) /\ Len(rest) = Len(stream) - n
         /\ \A i \in 1..Len(rest) : rest[i] = stream[n + i]
<1> DEFINE got == reader.got \o SubSeq(stream, 1, n)
           rest == SubSeq(stream, n + 1, Len(stream))
<1>1. /\ stream \in Seq(Piece) /\ Len(stream) \in Nat /\ n \in Nat
      /\ \A i \in 1..Len(stream) : stream[i] \in Piece
      /\ reader.got \in Seq(Piece) /\ Len(reader.got) \in Nat
  BY DEF TypeInv
<1>2. /\ SubSeq(stream, 1, n) \in Seq(Piece)
      /\ Len(SubSeq(stream, 1, n)) = n
      /\ \A i \in 1..n : SubSeq(stream, 1, n)[i] = stream[i]
  <2>1. \A i \in 1..n : stream[i] \in Piece
    BY <1>1
  <2>2. /\ SubSeq(stream, 1, n) \in Seq(Piece)
        /\ Len(SubSeq(stream, 1, n)) = IF 1 <= n THEN n - 1 + 1 ELSE 0
        /\ \A i \in 1..(n - 1 + 1) : SubSeq(stream, 1, n)[i] = stream[1 + i - 1]
    BY <1>1, <2>1, SubSeqProperties
  <2> QED
    BY <1>1, <2>2
<1>3. /\ got \in Seq(Piece) /\ Len(got) = Len(reader.got) + n
      /\ \A i \in 1..(Len(reader.got) + n) :
           got[i] = IF i <= Len(reader.got) THEN reader.got[i]
                    ELSE SubSeq(stream, 1, n)[i - Len(reader.got)]
  BY <1>1, <1>2, ConcatProperties
<1> HIDE DEF got
<1>4. ASSUME NEW i \in 1..Len(got)
      PROVE  got[i] = IF i <= Len(reader.got) THEN reader.got[i] ELSE stream[i - Len(reader.got)]
  <2>1. i \in Nat /\ i \in 1..(Len(reader.got) + n)
    BY <1>1, <1>3, <1>4
  <2>2. CASE i <= Len(reader.got)
    BY <1>3, <2>1, <2>2
  <2>3. CASE i > Len(reader.got)
    <3>1. i - Len(reader.got) \in 1..n
      BY <1>1, <2>1, <2>3
    <3> QED
      BY <1>1, <1>2, <1>3, <2>1, <2>3, <3>1
  <2> QED
    BY <1>1, <2>1, <2>2, <2>3
<1>5. /\ rest \in Seq(Piece) /\ Len(rest) = Len(stream) - n
      /\ \A i \in 1..Len(rest) : rest[i] = stream[n + i]
  <2>1. \A i \in (n + 1)..Len(stream) : stream[i] \in Piece
    BY <1>1
  <2>2. /\ rest \in Seq(Piece)
        /\ Len(rest) = IF n + 1 <= Len(stream) THEN Len(stream) - (n + 1) + 1 ELSE 0
        /\ \A i \in 1..(Len(stream) - (n + 1) + 1) : rest[i] = stream[(n + 1) + i - 1]
    BY <1>1, <2>1, SubSeqProperties
  <2> QED
    BY <1>1, <2>2
<1> HIDE DEF rest
<1> QED
  BY <1>3, <1>4, <1>5 DEF got, rest

-----------------------------------------------------------------------------
(* Types *)

LEMMA TypeInit == Init => TypeInv
<1> SUFFICES ASSUME Init PROVE TypeInv
  OBVIOUS
<1>1. frames \in Seq(Frame) /\ stream \in Seq(Piece) /\ delivered \in Seq(Frames)
  BY EmptySeq DEF Init
<1>2. sending \in [Sender -> [frame : {0} \cup Frames, sent : Nat]]
  BY DEF Init, Idle
<1>3. /\ reader = [at |-> "header", got |-> <<>>, wants |-> INT_SIZE]
      /\ <<>> \in Seq(Piece) /\ Len(<<>>) = 0 /\ INT_SIZE \in Nat /\ 0 < INT_SIZE
  BY EmptySeq, WireAssumption DEF Init, AtHeader
<1>4. reader \in [at : {"header", "text", "closed", "raised"}, got : Seq(Piece), wants : Nat]
  BY <1>3
<1>5. Len(reader.got) < reader.wants
  BY <1>3
<1> QED
  BY <1>1, <1>2, <1>4, <1>5 DEF Init, TypeInv

\* A new frame is the last, and says nothing new of the others.
LEMMA NewFrame ==
  ASSUME TypeInv, NEW t \in Sender, SendBegins(t)
  PROVE  /\ frames' \in Seq(Frame) /\ Len(frames') = Len(frames) + 1
         /\ \A f \in Frames : frames'[f] = frames[f]
         /\ frames'[Len(frames')].by = t
         /\ frames'[Len(frames')] \in Frame
         /\ Frames' = Frames \cup {Len(frames')} /\ Frames \subseteq Frames'
         /\ Len(frames') \notin Frames
<1>1. PICK msg \in Menu[t], size \in 1..MaxSize :
        frames' = Append(frames, [by |-> t, msg |-> msg, size |-> size])
  BY DEF SendBegins
<1>2. [by |-> t, msg |-> msg, size |-> size] \in Frame
  BY DEF Frame, Message
<1>3. frames \in Seq(Frame) /\ Len(frames) \in Nat
  BY DEF TypeInv
<1>4. /\ frames' \in Seq(Frame) /\ Len(frames') = Len(frames) + 1
      /\ \A f \in 1..Len(frames) : frames'[f] = frames[f]
      /\ frames'[Len(frames) + 1] = [by |-> t, msg |-> msg, size |-> size]
  BY <1>1, <1>2, <1>3, AppendProperties
<1>5. /\ Frames' = Frames \cup {Len(frames')} /\ Frames \subseteq Frames'
      /\ Len(frames') \notin Frames
  BY <1>3, <1>4 DEF Frames
<1> QED
  BY <1>2, <1>4, <1>5 DEF Frames

\* What the reader takes: some of the pieces there are, at most what it wants.
LEMMA RecvFacts ==
  ASSUME TypeInv, Recv
  PROVE  \E n \in 1..Len(stream) : \E got \in Seq(Piece) :
           /\ n <= reader.wants - Len(reader.got)
           /\ Len(got) = Len(reader.got) + n /\ Len(got) \in Nat
           /\ \A i \in 1..Len(got) : got[i] = IF i <= Len(reader.got) THEN reader.got[i]
                                              ELSE stream[i - Len(reader.got)]
           /\ stream' \in Seq(Piece) /\ Len(stream') = Len(stream) - n
           /\ \A i \in 1..Len(stream') : stream'[i] = stream[n + i]
           /\ \/ /\ Len(got) < reader.wants
                 /\ reader' = [reader EXCEPT !.got = got] /\ UNCHANGED delivered
              \/ /\ Len(got) = reader.wants /\ reader.at = "header"
                 /\ reader' \in AfterHeader(got) /\ UNCHANGED delivered
              \/ /\ Len(got) = reader.wants /\ reader.at = "text"
                 /\ AfterText(got)
<1>1. /\ Len(stream) \in Nat /\ Len(reader.got) \in Nat /\ reader.wants \in Nat
      /\ stream \in Seq(Piece)
  BY DEF TypeInv
<1>2. PICK n \in 1..(reader.wants - Len(reader.got)) :
        LET got == reader.got \o SubSeq(stream, 1, n) IN
        /\ n <= Len(stream)
        /\ stream' = SubSeq(stream, n + 1, Len(stream))
        /\ \/ /\ Len(got) < reader.wants
              /\ reader' = [reader EXCEPT !.got = got] /\ UNCHANGED delivered
           \/ /\ Len(got) = reader.wants /\ reader.at = "header"
              /\ reader' \in AfterHeader(got) /\ UNCHANGED delivered
           \/ /\ Len(got) = reader.wants /\ reader.at = "text"
              /\ AfterText(got)
  BY DEF Recv
<1>3. n \in 1..Len(stream) /\ n <= reader.wants - Len(reader.got)
  BY <1>1, <1>2
<1> DEFINE got == reader.got \o SubSeq(stream, 1, n)
<1>4. /\ got \in Seq(Piece) /\ Len(got) = Len(reader.got) + n
      /\ \A i \in 1..Len(got) : got[i] = IF i <= Len(reader.got) THEN reader.got[i]
                                         ELSE stream[i - Len(reader.got)]
      /\ stream' \in Seq(Piece) /\ Len(stream') = Len(stream) - n
      /\ \A i \in 1..Len(stream') : stream'[i] = stream[n + i]
  BY <1>2, <1>3, Taken
<1>5. Len(got) \in Nat
  BY <1>1, <1>3, <1>4
<1> QED
  BY <1>2, <1>3, <1>4, <1>5

\* What is found readable is a frame whose message can be parsed.
LEMMA ReadableIsFrame ==
  ASSUME TypeInv, NEW got \in Seq(Piece), Len(got) > 0
  PROVE  /\ got[1].frame \in Frames
         /\ frames[got[1].frame].size \in 1..MaxSize
         /\ Readable(got) => frames[got[1].frame].msg \notin Unparsable
<1>1. got[1] \in Piece
  BY ElementOfSeq
<1>2. got[1].frame \in Frames
  BY <1>1 DEF Piece
<1> QED
  BY <1>2, FrameFacts DEF Readable

LEMMA TypeStep == TypeInv /\ [Next]_vars => TypeInv'
<1> SUFFICES ASSUME TypeInv, [Next]_vars PROVE TypeInv'
  OBVIOUS
<1> USE DEF Reading
<1>0. /\ stream \in Seq(Piece) /\ Len(stream) \in Nat
      /\ reader.got \in Seq(Piece) /\ Len(reader.got) \in Nat
  BY DEF TypeInv
<1>1. ASSUME NEW t \in Sender, SendBegins(t)
      PROVE  TypeInv'
  <2>1. /\ frames' \in Seq(Frame) /\ Frames \subseteq Frames' /\ Len(frames') \in Frames'
    BY <1>1, NewFrame
  <2>2. Piece \subseteq Piece'
    BY <2>1 DEF Piece
  <2>3. stream' \in Seq(Piece') /\ reader'.got \in Seq(Piece') /\ delivered' \in Seq(Frames')
    BY <1>0, <1>1, <2>1, <2>2, SeqMonotonic DEF TypeInv, SendBegins
  <2>4. sending' \in [Sender -> [frame : {0} \cup Frames', sent : Nat]]
    BY <1>1, <2>1 DEF TypeInv, SendBegins
  <2>5. Frame' = Frame
    BY DEF Frame, Message
  <2>6. reader' \in [at : {"header", "text", "closed", "raised"}, got : Seq(Piece'), wants : Nat]
    BY <1>1, <2>3 DEF TypeInv, SendBegins
  <2> QED
    BY <1>1, <2>1, <2>3, <2>4, <2>5, <2>6 DEF TypeInv, SendBegins
<1>2. ASSUME UNCHANGED frames
      PROVE  Frames' = Frames /\ Piece' = Piece /\ Frame' = Frame
  BY <1>2 DEF Frames, Piece, Frame
<1>3. ASSUME NEW t \in Sender, SendMore(t)
      PROVE  TypeInv'
  <2> DEFINE f == sending[t].frame
  <2>1. PICK upto \in (sending[t].sent + 1)..Total(f) :
          /\ stream' = stream \o Pieces(f, sending[t].sent, upto)
          /\ sending' = [sending EXCEPT ![t] = IF upto = Total(f) THEN Idle
                                               ELSE [frame |-> f, sent |-> upto]]
    BY <1>3 DEF SendMore
  <2>2. f \in Frames /\ sending[t].sent \in Nat
    BY <1>3 DEF SendMore, TypeInv
  <2>3. upto \in Nat /\ sending[t].sent <= upto
    BY <2>1, <2>2, FrameFacts
  <2>4. stream' \in Seq(Piece)
    BY <2>1, <2>2, <2>3, Written1
  <2>5. sending' \in [Sender -> [frame : {0} \cup Frames, sent : Nat]]
    BY <2>1, <2>2, <2>3 DEF TypeInv, Idle
  <2>6. crossed' \in BOOLEAN
    BY <1>3 DEF SendMore
  <2> QED
    BY <1>2, <1>3, <2>4, <2>5, <2>6 DEF TypeInv, SendMore
<1>4. ASSUME NEW t \in Sender, SendFails(t)
      PROVE  TypeInv'
  BY <1>2, <1>4 DEF TypeInv, SendFails, Idle
<1>5. CASE SenderCloses
  BY <1>2, <1>5 DEF TypeInv, SenderCloses
<1>6. CASE Recv
  <2>1. PICK n \in 1..Len(stream), got \in Seq(Piece) :
          /\ Len(got) \in Nat /\ Len(got) = Len(reader.got) + n
          /\ stream' \in Seq(Piece)
          /\ \/ /\ Len(got) < reader.wants
                /\ reader' = [reader EXCEPT !.got = got] /\ UNCHANGED delivered
             \/ /\ Len(got) = reader.wants /\ reader.at = "header"
                /\ reader' \in AfterHeader(got) /\ UNCHANGED delivered
             \/ /\ Len(got) = reader.wants /\ reader.at = "text"
                /\ AfterText(got)
    BY <1>6, RecvFacts
  <2>2. /\ Len(got) > 0 /\ <<>> \in Seq(Piece) /\ Len(<<>>) = 0 /\ INT_SIZE \in Nat /\ INT_SIZE > 0
    BY <1>0, <2>1, EmptySeq, WireAssumption
  <2>3. got[1].frame \in Frames /\ frames[got[1].frame].size \in 1..MaxSize
    BY <2>2, ReadableIsFrame
  <2>4. /\ reader' \in [at : {"header", "text", "closed", "raised"}, got : Seq(Piece), wants : Nat]
        /\ reader'.at \in {"header", "text"} => Len(reader'.got) < reader'.wants
        /\ delivered' \in Seq(Frames)
    <3>1. CASE Len(got) < reader.wants /\ reader' = [reader EXCEPT !.got = got] /\ UNCHANGED delivered
      BY <2>1, <3>1 DEF TypeInv
    <3>2. CASE reader' \in AfterHeader(got) /\ UNCHANGED delivered
      <4>1. PICK n1 \in IF Whole(got, 0) THEN {frames[got[1].frame].size} ELSE 0..MaxSize :
              reader' = IF n1 = 0 THEN Ends("closed") ELSE [at |-> "text", got |-> <<>>, wants |-> n1]
        BY <3>2 DEF AfterHeader
      <4>2. n1 \in Nat
        BY <2>3, <4>1, WireAssumption
      <4> QED
        BY <2>2, <3>2, <4>1, <4>2 DEF TypeInv, Ends
    <3>3. CASE AfterText(got)
      <4>1. CASE Readable(got)
        <5>1. reader' = AtHeader /\ delivered' = Append(delivered, got[1].frame)
          BY <3>3, <4>1 DEF AfterText
        <5>2. delivered' \in Seq(Frames)
          BY <2>3, <5>1, AppendProperties DEF TypeInv
        <5> QED
          BY <2>2, <5>1, <5>2 DEF AtHeader
      <4>2. CASE ~Readable(got)
        <5>1. reader' = [at |-> "raised", got |-> <<>>, wants |-> 0] /\ delivered' = delivered
          BY <3>3, <4>2 DEF AfterText, Ends
        <5>2. delivered' \in Seq(Frames)
          BY <5>1 DEF TypeInv
        <5> QED
          BY <2>2, <5>1, <5>2
      <4> QED
        BY <4>1, <4>2
    <3> QED
      BY <2>1, <3>1, <3>2, <3>3
  <2> QED
    BY <1>2, <1>6, <2>1, <2>4 DEF TypeInv, Recv
<1>7. CASE RecvEnds
  BY <1>2, <1>7, EmptySeq DEF TypeInv, RecvEnds, Ends
<1>8. CASE UNCHANGED vars
  BY <1>2, <1>8 DEF TypeInv, vars
<1> QED
  BY <1>1, <1>3, <1>4, <1>5, <1>6, <1>7, <1>8 DEF Next

-----------------------------------------------------------------------------
(* What is handed on *)

LEMMA ParsableStep ==
  TypeInv /\ TypeInv' /\ DeliveredAreParsable /\ [Next]_vars => DeliveredAreParsable'
<1> SUFFICES ASSUME TypeInv, TypeInv', DeliveredAreParsable, [Next]_vars
             PROVE  DeliveredAreParsable'
  OBVIOUS
<1>0. delivered \in Seq(Frames) /\ \A i \in DOMAIN delivered : delivered[i] \in Frames
  BY DEF TypeInv
<1>1. ASSUME NEW t \in Sender, SendBegins(t)
      PROVE  DeliveredAreParsable'
  <2>1. delivered' = delivered /\ \A f \in Frames : frames'[f] = frames[f]
    BY <1>1, NewFrame DEF SendBegins
  <2> QED
    BY <1>0, <2>1 DEF DeliveredAreParsable
<1>2. CASE Recv
  <2>1. PICK n \in 1..Len(stream), got \in Seq(Piece) :
          /\ Len(got) = Len(reader.got) + n
          /\ UNCHANGED delivered \/ AfterText(got)
    BY <1>2, RecvFacts
  <2>2. frames' = frames
    BY <1>2 DEF Recv
  <2>3. CASE UNCHANGED delivered
    BY <2>2, <2>3 DEF DeliveredAreParsable
  <2>4. CASE Readable(got) /\ delivered' = Append(delivered, got[1].frame)
    <3>1. Len(got) > 0
      BY <2>1 DEF TypeInv
    <3>2. got[1].frame \in Frames /\ frames[got[1].frame].msg \notin Unparsable
      BY <2>4, <3>1, ReadableIsFrame
    <3>3. \A i \in DOMAIN delivered' :
            \/ delivered'[i] = got[1].frame
            \/ i \in DOMAIN delivered /\ delivered'[i] = delivered[i]
      BY <1>0, <2>4, <3>2, AppendProperties
    <3> QED
      BY <2>2, <3>2, <3>3 DEF DeliveredAreParsable
  <2> QED
    BY <2>1, <2>3, <2>4 DEF AfterText
<1>3. ASSUME UNCHANGED <<frames, delivered>>
      PROVE  DeliveredAreParsable'
  BY <1>3 DEF DeliveredAreParsable
<1> QED
  BY <1>1, <1>2, <1>3 DEF Next, vars, SendMore, SendFails, SenderCloses, RecvEnds

-----------------------------------------------------------------------------
(* The frames on the wire *)

LEMMA WireInit == Init => OnTheWire(<<>>, <<0>>)
<1> SUFFICES ASSUME Init PROVE OnTheWire(<<>>, <<0>>)
  OBVIOUS
<1>1. /\ <<>> \in Seq(Frames) /\ Len(<<>>) = 0
      /\ <<0>> \in Seq(Nat) /\ Len(<<0>>) = 1 /\ <<0>>[1] = 0
  BY EmptySeq
<1>2. frames = <<>> /\ delivered = <<>> /\ stream = <<>> /\ Frames = {}
  BY <1>1 DEF Init, Frames
<1>3. \A t \in Sender : sending[t] = Idle /\ ~Inside(t)
  BY DEF Init, Idle, Inside
<1>4. reader.at = "header" /\ reader.got = <<>> /\ reader.wants = INT_SIZE
  BY DEF Init, AtHeader
<1>5. ReadSoFar(<<0>>) = 0
  BY <1>1, <1>2, <1>4 DEF ReadSoFar, Skipped
<1>6. AtSenders(<<>>) /\ AllOnTheWire(<<>>) /\ InTurn(<<>>)
  BY <1>1, <1>2, <1>3 DEF AtSenders, AllOnTheWire, InTurn
<1>7. EndToEnd(<<>>, <<0>>)
  BY <1>1 DEF EndToEnd
<1>8. DeliveredInTurn(<<>>) /\ AtReader(<<>>)
  BY <1>1, <1>2, <1>4 DEF DeliveredInTurn, AtReader
<1>9. Written(<<>>, <<0>>) /\ OnItsWay(<<>>, <<0>>)
  BY <1>1, <1>2, <1>3, <1>5 DEF Written, OnItsWay
<1> QED
  BY <1>1, <1>6, <1>7, <1>8, <1>9 DEF OnTheWire

\* What OnTheWire says of the places, with their types.
LEMMA WireFacts ==
  ASSUME TypeInv, NEW order, NEW off, OnTheWire(order, off)
  PROVE  /\ order \in Seq(Frames) /\ off \in Seq(Nat)
         /\ Len(order) \in Nat /\ Len(off) = Len(order) + 1
         /\ \A k \in 1..Len(order) :
              /\ order[k] \in Frames /\ Total(order[k]) \in Nat /\ Total(order[k]) > INT_SIZE
              /\ off[k + 1] = off[k] + Total(order[k])
         /\ \A k \in 1..(Len(order) + 1) : off[k] \in Nat
         /\ \A j, k \in 1..(Len(order) + 1) : j <= k => off[j] <= off[k]
         /\ Len(stream) \in Nat /\ Len(reader.got) \in Nat /\ Skipped \in Nat
         /\ Len(delivered) \in Nat /\ Len(delivered) <= Len(order)
         /\ ReadSoFar(off) \in Nat
<1>1. /\ order \in Seq(Frames) /\ off \in Seq(Nat)
      /\ Len(order) \in Nat /\ Len(off) = Len(order) + 1
      /\ \A k \in 1..Len(order) : order[k] \in Frames
      /\ \A k \in 1..(Len(order) + 1) : off[k] \in Nat
      /\ \A k \in 1..Len(order) : off[k + 1] = off[k] + Total(order[k])
  BY DEF OnTheWire, EndToEnd
<1>2. \A j, k \in 1..(Len(order) + 1) : j <= k => off[j] <= off[k]
  BY <1>1 DEF OnTheWire, EndToEnd
<1>3. \A k \in 1..Len(order) : Total(order[k]) \in Nat /\ Total(order[k]) > INT_SIZE
  BY <1>1, FrameFacts
<1>4. /\ Len(stream) \in Nat /\ Len(reader.got) \in Nat
      /\ Len(delivered) \in Nat
  BY DEF TypeInv
<1>5. Skipped \in Nat
  BY WireAssumption DEF Skipped
<1>6. Len(delivered) <= Len(order)
  BY DEF OnTheWire, DeliveredInTurn
<1>7. ReadSoFar(off) \in Nat
  <2>1. off[Len(delivered) + 1] \in Nat
    BY <1>1, <1>4, <1>6
  <2> QED
    BY <2>1, <1>4, <1>5 DEF ReadSoFar
<1> QED
  BY <1>1, <1>2, <1>3, <1>4, <1>5, <1>6, <1>7

\* A new frame is not on the wire yet.
LEMMA SendBeginsOnWire ==
  ASSUME TypeInv, TypeInv', NEW order, NEW off, OnTheWire(order, off),
         NEW t \in Sender, SendBegins(t)
  PROVE  OnTheWire(order, off)'
<1>1. PICK new \in Nat :
      /\ new = Len(frames')
      /\ \A f \in Frames : frames'[f] = frames[f]
      /\ frames'[new].by = t /\ frames'[new] \in Frame
      /\ Frames' = Frames \cup {new} /\ Frames \subseteq Frames'
      /\ new \notin Frames /\ \A f \in Frames : f < new
  <2>1. Len(frames') = Len(frames) + 1 /\ Len(frames) \in Nat
    BY NewFrame DEF TypeInv
  <2>2. \A f \in Frames : f < Len(frames')
    BY <2>1 DEF Frames
  <2> QED
    BY <2>1, <2>2, NewFrame
<1>2. /\ sending' = [sending EXCEPT ![t] = [frame |-> new, sent |-> 0]]
      /\ sending[t] = [frame |-> 0, sent |-> 0] /\ 0 \notin Frames
      /\ sending \in [Sender -> [frame : {0} \cup Frames, sent : Nat]]
      /\ UNCHANGED <<open, stream, reader, delivered, crossed>>
  BY <1>1 DEF SendBegins, Idle, TypeInv, Frames
<1>3. \A f \in Frames : Total(f)' = Total(f)
  BY <1>1 DEF Total
<1>4. /\ order \in Seq(Frames) /\ order \in Seq(Frames') /\ off \in Seq(Nat)
      /\ \A k \in 1..Len(order) : order[k] \in Frames /\ frames'[order[k]] = frames[order[k]]
  <2>1. order \in Seq(Frames) /\ off \in Seq(Nat) /\ \A k \in 1..Len(order) : order[k] \in Frames
    BY WireFacts
  <2> QED
    BY <1>1, <2>1, SeqMonotonic
<1>5. AtSenders(order)'
  <2> SUFFICES ASSUME NEW u \in Sender, sending'[u] # Idle, NEW f, f = sending'[u].frame
               PROVE  /\ f \in Frames' /\ frames'[f].by = u /\ sending'[u].sent < Total(f)'
                      /\ \A g \in Frames' : frames'[g].by = u => g <= f
                      /\ sending'[u].sent = 0 => \A k \in 1..Len(order) : order[k] # f
                      /\ sending'[u].sent > 0 => order # <<>> /\ order[Len(order)] = f
    BY DEF AtSenders, Idle, Total
  <2>1. CASE u = t
    <3>1. sending'[u] = [frame |-> new, sent |-> 0]
      BY <1>2, <2>1
    <3>2. Total(new)' \in Nat /\ 0 < Total(new)'
      <4>1. frames'[new].size \in 1..MaxSize
        BY <1>1 DEF Frame
      <4>2. frames'[new].size \in Nat
        BY <4>1, WireAssumption
      <4> QED
        BY <4>2, WireAssumption DEF Total
    <3>3. f = new /\ sending'[u].sent = 0
      BY <3>1
    <3>4. \A k \in 1..Len(order) : order[k] # f
      BY <1>1, <1>4, <3>3
    <3>5. \A g \in Frames' : g <= f
      <4>1. \A g \in Frames : g < new /\ g \in Nat
        BY <1>1 DEF Frames
      <4> QED
        BY <1>1, <3>3, <4>1
    <3> QED
      BY <1>1, <2>1, <3>2, <3>3, <3>4, <3>5
  <2>2. CASE u # t
    <3>1. sending'[u] = sending[u]
      BY <1>2, <2>2
    <3>2. /\ f \in Frames /\ frames[f].by = u /\ sending[u].sent < Total(f)
          /\ \A g \in Frames : frames[g].by = u => g <= f
          /\ sending[u].sent = 0 => \A k \in 1..Len(order) : order[k] # f
          /\ sending[u].sent > 0 => order # <<>> /\ order[Len(order)] = f
      BY <3>1 DEF OnTheWire, AtSenders, Idle
    <3> QED
      BY <1>1, <1>3, <2>2, <3>1, <3>2
  <2> QED
    BY <2>1, <2>2
<1>6. AllOnTheWire(order)'
  <2> SUFFICES ASSUME open', NEW f \in Frames'
               PROVE  \/ sending'[frames'[f].by] = [frame |-> f, sent |-> 0]
                      \/ \E k \in 1..Len(order) : order[k] = f
    BY DEF AllOnTheWire
  <2>1. CASE f = new
    BY <1>1, <1>2, <2>1
  <2>2. CASE f \in Frames
    <3>1. \/ sending[frames[f].by] = [frame |-> f, sent |-> 0]
          \/ \E k \in 1..Len(order) : order[k] = f
      BY <1>2, <2>2 DEF OnTheWire, AllOnTheWire
    <3>2. frames[f].by \in Sender /\ frames'[f] = frames[f]
      BY <1>1, <2>2, FrameFacts
    <3>3. sending[frames[f].by] = [frame |-> f, sent |-> 0] => frames[f].by # t
      BY <1>2, <2>2
    <3> QED
      BY <1>2, <3>1, <3>2, <3>3
  <2> QED
    BY <1>1, <2>1, <2>2
<1>7. InTurn(order)'
  <2> SUFFICES ASSUME NEW k \in 1..Len(order)
               PROVE  /\ \A j \in 1..(k - 1) : order[j] # order[k]
                      /\ \A g \in 1..(order[k] - 1) : frames'[g].by = frames'[order[k]].by =>
                           \E j \in 1..(k - 1) : order[j] = g
    BY DEF InTurn
  <2>1. /\ \A j \in 1..(k - 1) : order[j] # order[k]
        /\ \A g \in 1..(order[k] - 1) : frames[g].by = frames[order[k]].by =>
             \E j \in 1..(k - 1) : order[j] = g
    BY DEF OnTheWire, InTurn
  <2>2. \A g \in 1..(order[k] - 1) : g \in Frames
    <3>1. order[k] \in 1..Len(frames) /\ Len(frames) \in Nat
      BY <1>4 DEF Frames, TypeInv
    <3> QED
      BY <3>1 DEF Frames
  <2> QED
    BY <1>1, <1>4, <2>1, <2>2
<1>8. EndToEnd(order, off)'
  BY <1>3, <1>4 DEF OnTheWire, EndToEnd
<1>9. DeliveredInTurn(order)'
  BY <1>2 DEF OnTheWire, DeliveredInTurn
<1>10. Skipped' = Skipped /\ ReadSoFar(off)' = ReadSoFar(off)
  BY <1>2 DEF Skipped, ReadSoFar
<1>11. \A u \in Sender : Inside(u)' <=> Inside(u)
  <2> TAKE u \in Sender
  <2>1. CASE u = t
    BY <1>2, <2>1 DEF Inside
  <2>2. CASE u # t
    <3>1. sending'[u] = sending[u] /\ sending[u].frame \in {0} \cup Frames
      BY <1>2, <2>2
    <3> QED
      BY <1>3, <3>1 DEF Inside
  <2> QED
    BY <2>1, <2>2
<1>12. ASSUME Reading' PROVE (AtReader(order) /\ Written(order, off) /\ OnItsWay(order, off))'
  <2>1. AtReader(order) /\ Written(order, off) /\ OnItsWay(order, off)
    BY <1>2, <1>12 DEF OnTheWire, Reading
  <2>2. AtReader(order)'
    <3>1. reader.at = "text" => frames'[order[Len(delivered) + 1]] = frames[order[Len(delivered) + 1]]
      BY <1>4, <2>1 DEF AtReader, TypeInv
    <3> QED
      BY <1>2, <1>10, <2>1, <3>1 DEF AtReader
  <2>3. Written(order, off)'
    <3>1. \A u \in Sender : Inside(u) => u # t
      BY <1>2 DEF Inside
    <3> QED
      BY <1>2, <1>10, <1>11, <2>1, <3>1 DEF Written
  <2>4. OnItsWay(order, off)'
    BY <1>2, <1>10, <2>1 DEF OnItsWay
  <2> QED
    BY <2>2, <2>3, <2>4
<1> QED
  BY <1>4, <1>5, <1>6, <1>7, <1>8, <1>9, <1>12 DEF OnTheWire

\* The wire, once the place of the frame that a thread is sending is known:
\* it is the last, and no other thread has begun a frame that is not complete.
Placed(order, off, t) ==
  LET f == sending[t].frame IN
  /\ order \in Seq(Frames) /\ off \in Seq(Nat)
  /\ order # <<>> /\ order[Len(order)] = f
  /\ InTurn(order) /\ EndToEnd(order, off) /\ AllOnTheWire(order) /\ DeliveredInTurn(order)
  /\ \A u \in Sender \ {t} : sending[u] # Idle =>
       sending[u].sent = 0 /\ \A k \in 1..Len(order) : order[k] # sending[u].frame
  /\ Reading =>
       /\ AtReader(order) /\ OnItsWay(order, off)
       /\ ReadSoFar(off) + Len(stream) = off[Len(order)] + sending[t].sent

\* The thread that sends, and the others: none is inside a frame.
LEMMA SenderFacts ==
  ASSUME TypeInv, NEW order, NEW off, OnTheWire(order, off),
         NEW t \in Sender, SendMore(t), ~crossed'
  PROVE  /\ sending[t] # Idle /\ open
         /\ sending[t].frame \in Frames /\ frames[sending[t].frame].by = t
         /\ sending[t].sent \in Nat /\ sending[t].sent < Total(sending[t].frame)
         /\ \A g \in Frames : frames[g].by = t => g <= sending[t].frame
         /\ \A u \in Sender \ {t} : ~Inside(u)
         /\ \A u \in Sender \ {t} : sending[u] # Idle =>
              sending[u].sent = 0 /\ \A k \in 1..Len(order) : order[k] # sending[u].frame
<1>1. sending[t] # Idle /\ open /\ \A u \in Sender \ {t} : ~Inside(u)
  <2>1. crossed' = (crossed \/ \E u \in Sender \ {t} : Inside(u)) /\ open /\ sending[t].frame # 0
    BY DEF SendMore
  <2>2. sending[t] # Idle
    BY <2>1 DEF Idle
  <2> QED
    BY <2>1, <2>2
<1>2. \A u \in Sender : sending[u].sent \in Nat
  BY DEF TypeInv
<1>3. ASSUME NEW u \in Sender, sending[u] # Idle
      PROVE  /\ sending[u].frame \in Frames /\ frames[sending[u].frame].by = u
             /\ sending[u].sent < Total(sending[u].frame)
             /\ \A g \in Frames : frames[g].by = u => g <= sending[u].frame
             /\ sending[u].sent = 0 => \A k \in 1..Len(order) : order[k] # sending[u].frame
  BY <1>3 DEF OnTheWire, AtSenders
<1>4. ASSUME NEW u \in Sender \ {t}, sending[u] # Idle
      PROVE  sending[u].sent = 0
  <2>1. sending[u].frame \in Frames /\ sending[u].sent < Total(sending[u].frame)
    BY <1>3, <1>4
  <2>2. sending[u].frame # 0 /\ Total(sending[u].frame) \in Nat
    BY <2>1, FrameFacts DEF Frames
  <2>3. sending[u].sent \notin 1..(Total(sending[u].frame) - 1)
    BY <1>1, <2>2 DEF Inside
  <2> QED
    BY <1>2, <2>1, <2>2, <2>3
<1> QED
  BY <1>1, <1>2, <1>3, <1>4

\* A frame whose first pieces are sent is laid behind all others.
LEMMA FirstPieces ==
  ASSUME TypeInv, NEW order, NEW off, OnTheWire(order, off),
         NEW t \in Sender, SendMore(t), ~crossed', sending[t].sent = 0
  PROVE  \E o, p : Placed(o, p, t)
<1> DEFINE f == sending[t].frame
           L == Len(order)
<1>0. L \in Nat
  BY WireFacts
<1>1. /\ order \in Seq(Frames) /\ off \in Seq(Nat) /\ L \in Nat /\ Len(off) = L + 1
      /\ \A k \in 1..L : order[k] \in Frames /\ Total(order[k]) \in Nat
      /\ \A k \in 1..L : off[k + 1] = off[k] + Total(order[k])
      /\ \A k \in 1..(L + 1) : off[k] \in Nat
      /\ \A j, k \in 1..(L + 1) : j <= k => off[j] <= off[k]
      /\ Len(stream) \in Nat /\ Len(delivered) \in Nat /\ Len(delivered) <= L
      /\ ReadSoFar(off) \in Nat
  BY WireFacts
<1>2. /\ sending[t] # Idle /\ open /\ f \in Frames /\ frames[f].by = t
      /\ \A g \in Frames : frames[g].by = t => g <= f
      /\ \A u \in Sender \ {t} : ~Inside(u)
      /\ \A u \in Sender \ {t} : sending[u] # Idle =>
           sending[u].sent = 0 /\ \A k \in 1..L : order[k] # sending[u].frame
  BY SenderFacts
<1>3. Total(f) \in Nat
  BY <1>2, FrameFacts
<1>4. PICK o \in Seq(Frames) :
        Len(o) = L + 1 /\ o[L + 1] = f /\ \A k \in 1..L : o[k] = order[k]
  <2> DEFINE q == Append(order, f)
  <2>1. /\ q \in Seq(Frames) /\ Len(q) = L + 1 /\ q[L + 1] = f
        /\ \A k \in 1..L : q[k] = order[k]
    BY <1>1, <1>2, AppendProperties
  <2> QED
    BY <2>1
<1>5. PICK p \in Seq(Nat) :
        /\ Len(p) = L + 2 /\ p[L + 2] = off[L + 1] + Total(f)
        /\ \A k \in 1..(L + 1) : p[k] = off[k]
  <2> DEFINE q == Append(off, off[L + 1] + Total(f))
  <2>1. off[L + 1] + Total(f) \in Nat
    BY <1>1, <1>3
  <2>2. /\ q \in Seq(Nat) /\ Len(q) = Len(off) + 1
        /\ \A k \in 1..Len(off) : q[k] = off[k]
        /\ q[Len(off) + 1] = off[L + 1] + Total(f)
    BY <1>1, <2>1, AppendProperties
  <2>3. /\ q \in Seq(Nat) /\ Len(q) = L + 2 /\ q[L + 2] = off[L + 1] + Total(f)
        /\ \A k \in 1..(L + 1) : q[k] = off[k]
    <3>1. Len(off) = L + 1 /\ Len(off) + 1 = L + 2
      BY <1>1
    <3> QED
      BY <2>2, <3>1
  <2> QED
    BY <2>3
<1>6. \A k \in 1..L : order[k] # f
  BY <1>2 DEF OnTheWire, AtSenders
<1>7. ASSUME NEW g \in Frames, g # f, frames[g].by = t
      PROVE  \E j \in 1..L : order[j] = g
  <2>1. sending[frames[g].by] # [frame |-> g, sent |-> 0]
    BY <1>7
  <2> QED
    BY <1>2, <2>1 DEF OnTheWire, AllOnTheWire
<1>8. InTurn(o)
  <2> SUFFICES ASSUME NEW k \in 1..(L + 1)
               PROVE  /\ \A j \in 1..(k - 1) : o[j] # o[k]
                      /\ \A g \in 1..(o[k] - 1) : frames[g].by = frames[o[k]].by =>
                           \E j \in 1..(k - 1) : o[j] = g
    BY <1>4 DEF InTurn
  <2>1. CASE k <= L
    <3>1. /\ \A j \in 1..(k - 1) : order[j] # order[k]
          /\ \A g \in 1..(order[k] - 1) : frames[g].by = frames[order[k]].by =>
               \E j \in 1..(k - 1) : order[j] = g
      <4>1. InTurn(order) /\ k \in 1..Len(order)
        BY <1>1, <2>1 DEF OnTheWire
      <4> QED
        BY <4>1 DEF InTurn
    <3>2. o[k] = order[k] /\ \A j \in 1..(k - 1) : o[j] = order[j]
      <4>1. k \in 1..L /\ \A j \in 1..(k - 1) : j \in 1..L
        BY <1>0, <2>1
      <4> QED
        BY <1>4, <4>1
    <3> QED
      BY <3>1, <3>2
  <2>2. CASE k = L + 1
    <3>1. \A j \in 1..L : o[j] # o[k]
      BY <1>4, <1>6, <2>2
    <3>2. \A g \in 1..(f - 1) : g \in Frames /\ g # f
      <4>1. f \in 1..Len(frames) /\ Len(frames) \in Nat
        BY <1>2 DEF Frames, TypeInv
      <4> QED
        BY <4>1 DEF Frames
    <3>3. \A g \in 1..(f - 1) : frames[g].by = t => \E j \in 1..L : o[j] = g
      BY <1>4, <1>7, <3>2
    <3>4. 1..(k - 1) = 1..L /\ o[k] = f
      <4>1. k - 1 = L
        BY <1>1, <2>2
      <4> QED
        BY <1>4, <2>2, <4>1
    <3>5. \A g \in 1..(o[k] - 1) : frames[g].by = frames[o[k]].by => \E j \in 1..(k - 1) : o[j] = g
      BY <1>2, <3>3, <3>4
    <3> QED
      BY <3>1, <3>4, <3>5
  <2>3. k <= L \/ k = L + 1
    BY <1>0
  <2> QED
    BY <2>1, <2>2, <2>3
<1>9. EndToEnd(o, p)
  <2>1. p[1] = 0
    BY <1>1, <1>5 DEF OnTheWire, EndToEnd
  <2>2. ASSUME NEW k \in 1..(L + 1)
        PROVE  p[k + 1] = p[k] + Total(o[k])
    <3>1. CASE k <= L
      <4>1. k \in 1..L /\ k + 1 \in 1..(L + 1)
        BY <1>0, <2>2, <3>1
      <4>2. o[k] = order[k] /\ p[k] = off[k] /\ p[k + 1] = off[k + 1]
        BY <1>4, <1>5, <2>2, <4>1
      <4>3. off[k + 1] = off[k] + Total(order[k])
        BY <1>1, <4>1
      <4> QED
        BY <4>2, <4>3
    <3>2. CASE k = L + 1
      <4>1. k + 1 = L + 2 /\ L + 1 \in 1..(L + 1)
        BY <1>0, <3>2
      <4> QED
        BY <1>4, <1>5, <3>2, <4>1
    <3>3. k <= L \/ k = L + 1
      BY <1>0, <2>2
    <3> QED
      BY <3>1, <3>2, <3>3
  <2>3. ASSUME NEW j \in 1..(L + 2), NEW k \in 1..(L + 2), j <= k
        PROVE  p[j] <= p[k]
    <3>1. CASE k <= L + 1
      <4>1. j \in 1..(L + 1) /\ k \in 1..(L + 1)
        BY <1>0, <2>3, <3>1
      <4>2. p[j] = off[j] /\ p[k] = off[k]
        BY <1>5, <4>1
      <4>3. off[j] <= off[k]
        BY <1>1, <2>3, <4>1
      <4> QED
        BY <4>2, <4>3
    <3>2. CASE k = L + 2 /\ j <= L + 1
      <4>0. j \in 1..(L + 1) /\ L + 1 \in 1..(L + 1)
        BY <1>0, <2>3, <3>2
      <4>1. off[j] <= off[L + 1] /\ off[L + 1] \in Nat /\ off[j] \in Nat
        <5>1. j <= L + 1
          BY <3>2
        <5> QED
          BY <1>1, <4>0, <5>1
      <4>2. p[k] = off[L + 1] + Total(f) /\ p[j] = off[j]
        BY <1>5, <3>2, <4>0
      <4> QED
        BY <1>3, <4>1, <4>2
    <3>3. CASE k = L + 2 /\ j = L + 2
      <4>1. p[k] \in Nat
        BY <1>5, <2>3
      <4> QED
        BY <3>3, <4>1
    <3>4. k <= L + 1 \/ (k = L + 2 /\ (j <= L + 1 \/ j = L + 2))
      BY <1>0, <2>3
    <3> QED
      BY <3>1, <3>2, <3>3, <3>4
  <2> QED
    <3>1. Len(p) = Len(o) + 1
      BY <1>0, <1>4, <1>5
    <3>2. \A k \in 1..Len(o) : p[k + 1] = p[k] + Total(o[k])
      BY <1>4, <2>2
    <3>3. \A j, k \in 1..Len(p) : j <= k => p[j] <= p[k]
      BY <1>5, <2>3
    <3> QED
      BY <2>1, <3>1, <3>2, <3>3 DEF EndToEnd
<1>10. AllOnTheWire(o)
  <2>1. \A g \in Frames : \A k \in 1..L : order[k] = g => k \in 1..Len(o) /\ o[k] = g
    <3>1. \A k \in 1..L : k \in 1..(L + 1)
      BY <1>0
    <3> QED
      BY <1>4, <3>1
  <2>2. AllOnTheWire(order)
    BY DEF OnTheWire
  <2> QED
    BY <2>1, <2>2 DEF AllOnTheWire
<1>11. DeliveredInTurn(o)
  <2>1. DeliveredInTurn(order)
    BY DEF OnTheWire
  <2>2. Len(delivered) <= Len(o) /\ \A i \in 1..Len(delivered) : i \in 1..L
    BY <1>1, <1>4
  <2> QED
    BY <1>4, <2>1, <2>2 DEF DeliveredInTurn
<1>12. \A u \in Sender \ {t} : sending[u] # Idle =>
         sending[u].sent = 0 /\ \A k \in 1..Len(o) : o[k] # sending[u].frame
  <2> SUFFICES ASSUME NEW u \in Sender \ {t}, sending[u] # Idle
               PROVE  \A k \in 1..(L + 1) : o[k] # sending[u].frame
    BY <1>2, <1>4
  <2>1. frames[sending[u].frame].by = u
    BY DEF OnTheWire, AtSenders
  <2>2. sending[u].frame # f
    BY <1>2, <2>1
  <2>3. ASSUME NEW k \in 1..(L + 1)
        PROVE  o[k] # sending[u].frame
    <3>1. k \in 1..L \/ k = L + 1
      BY <1>0, <2>3
    <3> QED
      BY <1>2, <1>4, <2>2, <3>1
  <2> QED
    BY <2>3
<1>13. ReadSoFar(p) = ReadSoFar(off)
  <2>1. Len(delivered) + 1 \in 1..(L + 1)
    BY <1>1
  <2>2. p[Len(delivered) + 1] = off[Len(delivered) + 1]
    BY <1>5, <2>1
  <2> QED
    BY <2>2 DEF ReadSoFar
<1>14. ASSUME Reading
       PROVE  /\ AtReader(o) /\ OnItsWay(o, p)
              /\ ReadSoFar(p) + Len(stream) = p[Len(o)] + sending[t].sent
  <2>1. AtReader(order) /\ Written(order, off) /\ OnItsWay(order, off)
    BY <1>14 DEF OnTheWire
  <2>2. ReadSoFar(off) + Len(stream) = off[L + 1]
    <3>1. ~Inside(t)
      BY DEF Inside
    <3>2. \A u \in Sender : ~Inside(u)
      BY <1>2, <3>1
    <3> QED
      BY <1>1, <1>2, <2>1, <3>2 DEF Written
  <2>3. AtReader(o)
    <3>1. Len(delivered) + 1 <= L => Len(delivered) + 1 <= Len(o) /\ Len(delivered) + 1 \in 1..L
      BY <1>1, <1>4
    <3> QED
      BY <1>4, <2>1, <3>1 DEF AtReader
  <2>4. OnItsWay(o, p)
    <3>0. 1..Len(o) = 1..(L + 1)
      BY <1>4
    <3> SUFFICES ASSUME NEW k \in 1..(L + 1), NEW i \in 1..Len(stream),
                        p[k] < ReadSoFar(off) + i, ReadSoFar(off) + i <= p[k + 1]
                 PROVE  stream[i] = [frame |-> o[k], place |-> (ReadSoFar(off) + i) - p[k]]
      BY <1>13, <3>0, Zenon DEF OnItsWay
    <3>1. ReadSoFar(off) + i <= off[L + 1]
      BY <1>1, <2>2
    <3>2. k \in 1..L
      <4>1. p[L + 1] = off[L + 1] /\ off[L + 1] \in Nat
        BY <1>1, <1>5
      <4>2. k # L + 1
        BY <1>1, <3>1, <4>1
      <4> QED
        BY <1>1, <4>2
    <3>3. k \in 1..(L + 1) /\ k + 1 \in 1..(L + 1)
      BY <1>0, <3>2
    <3>4. o[k] = order[k] /\ p[k] = off[k] /\ p[k + 1] = off[k + 1]
      BY <1>4, <1>5, <3>2, <3>3
    <3>5. off[k] < ReadSoFar(off) + i /\ ReadSoFar(off) + i <= off[k + 1]
      BY <3>4
    <3>6. stream[i] = [frame |-> order[k], place |-> (ReadSoFar(off) + i) - off[k]]
      BY <2>1, <3>2, <3>5 DEF OnItsWay
    <3> QED
      BY <3>4, <3>6
  <2>5. ReadSoFar(p) + Len(stream) = p[Len(o)] + sending[t].sent
    BY <1>1, <1>4, <1>5, <1>13, <2>2
  <2> QED
    BY <2>3, <2>4, <2>5
<1>15. o # <<>>
  BY <1>1, <1>4, EmptySeq
<1> QED
  BY <1>4, <1>5, <1>8, <1>9, <1>10, <1>11, <1>12, <1>14, <1>15 DEF Placed

\* Of the other pieces of a frame, the frame is known to be the last.
LEMMA LaterPieces ==
  ASSUME TypeInv, NEW order, NEW off, OnTheWire(order, off),
         NEW t \in Sender, SendMore(t), ~crossed', sending[t].sent > 0
  PROVE  Placed(order, off, t)
<1>1. /\ sending[t] # Idle /\ open
      /\ sending[t].frame \in Frames
      /\ sending[t].sent \in Nat /\ sending[t].sent < Total(sending[t].frame)
      /\ \A u \in Sender \ {t} : sending[u] # Idle =>
           sending[u].sent = 0 /\ \A k \in 1..Len(order) : order[k] # sending[u].frame
  BY SenderFacts
<1>2. order # <<>> /\ order[Len(order)] = sending[t].frame
  BY <1>1 DEF OnTheWire, AtSenders
<1>3. Inside(t)
  <2>1. Total(sending[t].frame) \in Nat /\ sending[t].frame # 0
    BY <1>1, FrameFacts DEF Frames
  <2> QED
    BY <1>1, <2>1 DEF Inside
<1>4. ASSUME Reading
      PROVE  /\ AtReader(order) /\ OnItsWay(order, off)
             /\ ReadSoFar(off) + Len(stream) = off[Len(order)] + sending[t].sent
  <2>1. AtReader(order) /\ Written(order, off) /\ OnItsWay(order, off)
    BY <1>4 DEF OnTheWire
  <2> QED
    BY <1>1, <1>3, <2>1 DEF Written
<1> QED
  BY <1>1, <1>2, <1>4 DEF OnTheWire, Placed

\* The pieces go behind those of the same frame.
LEMMA PiecesOnWire ==
  ASSUME TypeInv, TypeInv', NEW order, NEW off, OnTheWire(order, off),
         NEW t \in Sender, SendMore(t), ~crossed',
         NEW o, NEW p, Placed(o, p, t)
  PROVE  OnTheWire(o, p)'
<1> DEFINE f == sending[t].frame
           sent == sending[t].sent
           L == Len(o)
<1>1. /\ open /\ f \in Frames /\ frames[f].by = t /\ sent \in Nat /\ sent < Total(f)
      /\ \A g \in Frames : frames[g].by = t => g <= f
  BY SenderFacts
<1>2. Total(f) \in Nat /\ f # 0
  BY <1>1, FrameFacts DEF Frames
<1>3. PICK upto \in (sent + 1)..Total(f) :
        /\ stream' = stream \o Pieces(f, sent, upto)
        /\ sending' = [sending EXCEPT ![t] = IF upto = Total(f) THEN Idle
                                             ELSE [frame |-> f, sent |-> upto]]
  BY DEF SendMore
<1>4. UNCHANGED <<frames, open, reader, delivered>>
  BY DEF SendMore
<1>5. upto \in Nat /\ sent < upto /\ upto <= Total(f)
  BY <1>1, <1>2, <1>3
<1>6. /\ Len(stream') = Len(stream) + upto - sent /\ Len(stream) \in Nat
      /\ \A i \in 1..Len(stream') :
           stream'[i] = IF i <= Len(stream) THEN stream[i]
                        ELSE [frame |-> f, place |-> sent + i - Len(stream)]
  <2>1. Len(stream) \in Nat
    BY DEF TypeInv
  <2>2. f \in Frames /\ sent \in Nat /\ upto \in Nat /\ sent <= upto
    BY <1>1, <1>5
  <2> DEFINE longer == stream \o Pieces(f, sent, upto)
  <2>3. /\ Len(longer) = Len(stream) + upto - sent
        /\ \A i \in 1..Len(longer) :
             longer[i] = IF i <= Len(stream) THEN stream[i]
                         ELSE [frame |-> f, place |-> sent + i - Len(stream)]
    BY <2>2, Written1
  <2>4. stream' = longer
    BY <1>3
  <2> HIDE DEF longer
  <2> QED
    BY <2>1, <2>3, <2>4
<1>7. /\ o \in Seq(Frames) /\ p \in Seq(Nat) /\ L \in Nat \ {0} /\ o[L] = f /\ o # <<>>
      /\ InTurn(o) /\ EndToEnd(o, p) /\ AllOnTheWire(o) /\ DeliveredInTurn(o)
      /\ \A u \in Sender \ {t} : sending[u] # Idle =>
           sending[u].sent = 0 /\ \A k \in 1..L : o[k] # sending[u].frame
  BY EmptySeq DEF Placed
<1>8. /\ Len(p) = L + 1 /\ \A k \in 1..(L + 1) : p[k] \in Nat
      /\ p[L + 1] = p[L] + Total(f)
      /\ \A j, k \in 1..(L + 1) : j <= k => p[j] <= p[k]
  <2>1. L \in 1..L
    BY <1>7
  <2>2. Len(p) = L + 1
    BY <1>7 DEF EndToEnd
  <2>3. \A k \in 1..(L + 1) : p[k] \in Nat
    BY <1>7, <2>2
  <2>4. p[L + 1] = p[L] + Total(f)
    BY <1>7, <2>1 DEF EndToEnd
  <2>5. \A j, k \in 1..(L + 1) : j <= k => p[j] <= p[k]
    BY <1>7, <2>2 DEF EndToEnd
  <2> QED
    BY <2>2, <2>3, <2>4, <2>5
<1>9. Frames' = Frames /\ \A g : Total(g)' = Total(g)
  BY <1>4 DEF Frames, Total
<1>10. /\ sending \in [Sender -> [frame : {0} \cup Frames, sent : Nat]]
       /\ sending'[t] = IF upto = Total(f) THEN Idle ELSE [frame |-> f, sent |-> upto]
       /\ \A u \in Sender \ {t} : sending'[u] = sending[u]
  BY <1>3 DEF TypeInv
<1>11. AtSenders(o)'
  <2> SUFFICES ASSUME NEW u \in Sender, sending'[u] # Idle, NEW g, g = sending'[u].frame
               PROVE  /\ g \in Frames /\ frames[g].by = u /\ sending'[u].sent < Total(g)
                      /\ \A h \in Frames : frames[h].by = u => h <= g
                      /\ sending'[u].sent = 0 => \A k \in 1..L : o[k] # g
                      /\ sending'[u].sent > 0 => o # <<>> /\ o[L] = g
    BY <1>4, <1>9 DEF AtSenders, Idle
  <2>1. CASE u = t
    <3>1. g = f /\ sending'[u].sent = upto /\ upto < Total(f)
      BY <1>2, <1>5, <1>10, <2>1
    <3> QED
      BY <1>1, <1>5, <1>7, <2>1, <3>1
  <2>2. CASE u # t
    <3>1. sending'[u] = sending[u] /\ sending[u] # Idle
      BY <1>10, <2>2
    <3>2. /\ g \in Frames /\ frames[g].by = u /\ sending[u].sent < Total(g)
          /\ \A h \in Frames : frames[h].by = u => h <= g
      BY <3>1 DEF OnTheWire, AtSenders
    <3>3. sending[u].sent = 0 /\ \A k \in 1..L : o[k] # g
      BY <1>7, <2>2, <3>1
    <3> QED
      BY <3>1, <3>2, <3>3
  <2> QED
    BY <2>1, <2>2
<1>12. AllOnTheWire(o)'
  <2> SUFFICES ASSUME NEW g \in Frames
               PROVE  \/ sending'[frames[g].by] = [frame |-> g, sent |-> 0]
                      \/ \E k \in 1..L : o[k] = g
    BY <1>4, <1>9 DEF AllOnTheWire
  <2>1. \/ sending[frames[g].by] = [frame |-> g, sent |-> 0]
        \/ \E k \in 1..L : o[k] = g
    BY <1>1, <1>7 DEF AllOnTheWire
  <2>2. CASE sending[frames[g].by] = [frame |-> g, sent |-> 0] /\ frames[g].by = t
    <3>1. g = f /\ L \in 1..L
      BY <1>7, <2>2
    <3> QED
      BY <1>7, <3>1
  <2>3. frames[g].by \in Sender
    BY FrameFacts
  <2> QED
    BY <1>10, <2>1, <2>2, <2>3
<1>13. InTurn(o)' /\ EndToEnd(o, p)' /\ DeliveredInTurn(o)'
  <2>1. InTurn(o)'
    BY <1>4, <1>7 DEF InTurn
  <2>2. EndToEnd(o, p)'
    BY <1>7, <1>9 DEF EndToEnd
  <2>3. DeliveredInTurn(o)'
    BY <1>4, <1>7 DEF DeliveredInTurn
  <2> QED
    BY <2>1, <2>2, <2>3
<1>14. ReadSoFar(p)' = ReadSoFar(p)
  BY <1>4 DEF ReadSoFar, Skipped
<1>15. ASSUME Reading' PROVE (AtReader(o) /\ Written(o, p) /\ OnItsWay(o, p))'
  <2>1. /\ AtReader(o) /\ OnItsWay(o, p)
        /\ ReadSoFar(p) + Len(stream) = p[L] + sent
    BY <1>4, <1>15 DEF Placed, Reading
  <2>2. ReadSoFar(p) \in Nat
    <3>1. /\ Len(delivered) \in Nat /\ Len(delivered) <= L /\ Len(reader.got) \in Nat
          /\ Skipped \in Nat
      BY <1>7, WireAssumption DEF DeliveredInTurn, TypeInv, Skipped
    <3>2. Len(delivered) + 1 \in 1..(L + 1)
      BY <1>7, <3>1
    <3>3. p[Len(delivered) + 1] \in Nat
      BY <1>8, <3>2
    <3> QED
      BY <3>1, <3>3 DEF ReadSoFar
  <2>3. AtReader(o)'
    BY <1>4, <2>1 DEF AtReader, Skipped
  <2>4. L \in 1..(L + 1) /\ L + 1 \in 1..(L + 1) /\ p[L] \in Nat
    BY <1>7, <1>8
  <2>5. ReadSoFar(p) + Len(stream') = p[L] + upto
    <3>1. PICK r, s, a, q \in Nat :
            r = ReadSoFar(p) /\ s = Len(stream) /\ a = sent /\ q = p[L]
      BY <1>1, <1>6, <2>2, <2>4
    <3>2. r + s = q + a
      BY <2>1, <3>1
    <3>3. r + (s + upto - a) = q + upto
      BY <1>5, <3>2
    <3> QED
      BY <1>6, <3>1, <3>3
  <2>6. Written(o, p)'
    <3>1. p[L] + upto <= p[Len(p)]
      BY <1>2, <1>5, <1>8, <2>4
    <3>2. ASSUME NEW u \in Sender, Inside(u)' PROVE upto = sending'[u].sent
      <4>1. sending'[u].frame # 0 /\ sending'[u].sent \in 1..(Total(sending'[u].frame) - 1)
        BY <1>4, <3>2 DEF Inside, Total
      <4>2. CASE u = t
        BY <1>10, <4>1, <4>2 DEF Idle
      <4>3. CASE u # t
        <5>1. sending[u] # Idle /\ sending[u].sent # 0
          BY <1>10, <4>1, <4>3 DEF Idle
        <5> QED
          BY <1>7, <4>3, <5>1
      <4> QED
        BY <4>2, <4>3
    <3>3. ASSUME ~Inside(t)' PROVE upto = Total(f)
      <4>1. SUFFICES ASSUME upto # Total(f) PROVE FALSE
        OBVIOUS
      <4>2. sending'[t] = [frame |-> f, sent |-> upto]
        BY <1>10, <4>1
      <4>3. upto \in 1..(Total(f) - 1)
        BY <1>1, <1>2, <1>5, <4>1
      <4> QED
        BY <1>2, <1>4, <3>3, <4>2, <4>3 DEF Inside, Total
    <3>4. upto = Total(f) => p[L] + upto = p[Len(p)]
      BY <1>8
    <3> QED
      BY <1>14, <2>5, <3>1, <3>2, <3>3, <3>4 DEF Written
  <2>7. OnItsWay(o, p)'
    <3> SUFFICES ASSUME NEW k \in 1..L, NEW i \in 1..Len(stream'),
                        p[k] < ReadSoFar(p) + i, ReadSoFar(p) + i <= p[k + 1]
                 PROVE  stream'[i] = [frame |-> o[k], place |-> (ReadSoFar(p) + i) - p[k]]
      BY <1>14, Zenon DEF OnItsWay
    <3>1. CASE i <= Len(stream)
      <4>1. i \in 1..Len(stream)
        BY <1>6, <3>1
      <4>2. stream[i] = [frame |-> o[k], place |-> (ReadSoFar(p) + i) - p[k]]
        BY <2>1, <4>1 DEF OnItsWay
      <4> QED
        BY <1>6, <3>1, <4>2
    <3>2. CASE i > Len(stream)
      <4>0. Len(stream) \in Nat /\ sent \in Nat /\ i \in Nat
        BY <1>1, <1>6
      <4>1. k \in 1..(L + 1) /\ k + 1 \in 1..(L + 1)
        BY <1>7
      <4>2. p[L] < ReadSoFar(p) + i
        <5>1. \A r, s, a, j, q \in Nat : r + s = q + a /\ j > s => q < r + j
          OBVIOUS
        <5> QED
          BY <2>1, <2>2, <2>4, <3>2, <4>0, <5>1
      <4>3. p[L] < p[k + 1]
        BY <1>8, <2>2, <2>4, <4>1, <4>2
      <4>4. k = L
        <5>1. k + 1 <= L => p[k + 1] <= p[L]
          BY <1>8, <2>4, <4>1
        <5>2. p[k + 1] \in Nat
          BY <1>8, <4>1
        <5> QED
          BY <1>7, <2>4, <4>3, <5>1, <5>2
      <4>5. stream'[i] = [frame |-> f, place |-> sent + i - Len(stream)]
        BY <1>6, <3>2
      <4>6. sent + i - Len(stream) = (ReadSoFar(p) + i) - p[L]
        <5>1. PICK r, s, a, q \in Nat :
                r = ReadSoFar(p) /\ s = Len(stream) /\ a = sent /\ q = p[L]
          BY <2>2, <2>4, <4>0
        <5>2. r + s = q + a
          BY <2>1, <5>1
        <5>3. a + i - s = r + i - q
          BY <4>0, <5>2
        <5> QED
          BY <5>1, <5>3
      <4> QED
        BY <1>7, <4>4, <4>5, <4>6
    <3> QED
      BY <1>6, <3>1, <3>2
  <2> QED
    BY <2>3, <2>6, <2>7
<1> QED
  BY <1>7, <1>9, <1>11, <1>12, <1>13, <1>15 DEF OnTheWire

LEMMA SendMoreOnWire ==
  ASSUME TypeInv, TypeInv', NEW order, NEW off, OnTheWire(order, off),
         NEW t \in Sender, SendMore(t), ~crossed'
  PROVE  \E o, p : OnTheWire(o, p)'
<1>1. \E o, p : Placed(o, p, t)
  <2>1. sending[t].sent \in Nat
    BY DEF TypeInv
  <2> QED
    BY <2>1, FirstPieces, LaterPieces
<1> QED
  BY <1>1, PiecesOnWire

\* The reader leaves the order of the frames as it is.
LEMMA OrderStays ==
  ASSUME TypeInv, NEW order, NEW off, OnTheWire(order, off), UNCHANGED <<frames, sending, open>>
  PROVE  /\ order \in Seq(Frames') /\ off \in Seq(Nat)
         /\ AtSenders(order)' /\ AllOnTheWire(order)' /\ InTurn(order)' /\ EndToEnd(order, off)'
<1>1. /\ order \in Seq(Frames) /\ off \in Seq(Nat)
      /\ AtSenders(order) /\ AllOnTheWire(order) /\ InTurn(order) /\ EndToEnd(order, off)
  BY DEF OnTheWire
<1>2. Frames' = Frames /\ \A f : Total(f)' = Total(f)
  BY DEF Frames, Total
<1>3. AtSenders(order)'
  BY <1>1, <1>2 DEF AtSenders, Idle, Total
<1>4. AllOnTheWire(order)'
  BY <1>1, <1>2 DEF AllOnTheWire
<1>5. InTurn(order)'
  BY <1>1 DEF InTurn
<1>6. EndToEnd(order, off)'
  BY <1>1, <1>2 DEF EndToEnd
<1> QED
  BY <1>1, <1>2, <1>3, <1>4, <1>5, <1>6

\* The pieces that the reader holds are the first of the frame it is at.
LEMMA GotFacts ==
  ASSUME TypeInv, NEW order, NEW off, OnTheWire(order, off), Reading,
         NEW n \in 1..Len(stream), n <= reader.wants - Len(reader.got),
         NEW got, Len(got) = Len(reader.got) + n,
         \A i \in 1..Len(got) : got[i] = IF i <= Len(reader.got) THEN reader.got[i]
                                         ELSE stream[i - Len(reader.got)]
  PROVE  LET k == Len(delivered) + 1 IN
         /\ k \in 1..Len(order)
         /\ \A i \in 1..Len(got) : got[i] = [frame |-> order[k], place |-> Skipped + i]
<1> DEFINE k == Len(delivered) + 1
           g == Len(reader.got)
           L == Len(order)
<1>1. AtReader(order) /\ Written(order, off) /\ OnItsWay(order, off)
  BY DEF OnTheWire
<1>2. /\ L \in Nat /\ g \in Nat /\ Skipped \in Nat /\ Len(stream) \in Nat
      /\ Len(delivered) \in Nat /\ Len(delivered) <= L /\ Len(off) = L + 1
      /\ ReadSoFar(off) \in Nat
  BY WireFacts
<1>3. k \in 1..(L + 1) /\ n \in Nat /\ n >= 1 /\ n <= Len(stream)
  BY <1>2
<1>4. off[k] \in Nat /\ off[L + 1] \in Nat
  <2>1. \A j \in 1..(L + 1) : off[j] \in Nat
    BY WireFacts
  <2> QED
    BY <1>2, <1>3, <2>1
<1>5. ReadSoFar(off) = off[k] + Skipped + g
  BY DEF ReadSoFar
<1>6. k \in 1..L
  <2>1. ReadSoFar(off) + Len(stream) <= off[L + 1]
    BY <1>1, <1>2 DEF Written
  <2>2. k # L + 1
    BY <1>2, <1>3, <1>4, <1>5, <2>1
  <2> QED
    BY <1>2, <1>3, <2>2
<1>7. off[k + 1] = off[k] + Total(order[k])
  <2>1. \A j \in 1..L : off[j + 1] = off[j] + Total(order[j])
    BY WireFacts
  <2> HIDE DEF k
  <2> QED
    BY <1>6, <2>1
<1>8. Skipped + reader.wants <= Total(order[k]) /\ reader.wants \in Nat
  <2>1. order[k] \in Frames
    BY <1>6, WireFacts
  <2>2. frames[order[k]].size \in Nat
    BY <2>1, FrameFacts, WireAssumption
  <2>3. CASE reader.at = "header"
    BY <1>1, <2>2, <2>3, WireAssumption DEF AtReader, Skipped, Total
  <2>4. CASE reader.at = "text"
    BY <1>1, <2>2, <2>4, WireAssumption DEF AtReader, Skipped, Total
  <2> QED
    BY <2>3, <2>4 DEF Reading
<1>9. ASSUME NEW i \in 1..Len(got)
      PROVE  got[i] = [frame |-> order[k], place |-> Skipped + i]
  <2>0. i \in Nat /\ i >= 1 /\ i <= g + n
    BY <1>2, <1>3, <1>9
  <2>1. CASE i <= g
    BY <1>1, <1>9, <2>0, <2>1 DEF AtReader
  <2>2. CASE i > g
    <3>1. i - g \in 1..Len(stream) /\ i <= reader.wants
      <4>1. i - g \in Nat /\ 1 <= i - g /\ i - g <= n
        BY <1>2, <1>3, <2>0, <2>2
      <4>2. i - g <= Len(stream)
        BY <1>2, <1>3, <4>1
      <4>3. n + g <= reader.wants
        <5>1. \A a, b, c \in Nat : a <= b - c => a + c <= b
          OBVIOUS
        <5>2. n \in Nat /\ g \in Nat /\ reader.wants \in Nat
          BY <1>2, <1>3, <1>8
        <5> QED
          BY <5>1, <5>2
      <4>4. i <= reader.wants
        BY <1>2, <1>3, <1>8, <2>0, <4>3
      <4>5. i - g \in 1..Len(stream)
        BY <1>2, <4>1, <4>2
      <4> QED
        BY <4>4, <4>5
    <3>2. ReadSoFar(off) + (i - g) = off[k] + Skipped + i
      <4>1. \A x, c, q, j \in Nat : (x + c + q) + (j - q) = x + c + j
        OBVIOUS
      <4>2. (off[k] + Skipped + g) + (i - g) = off[k] + Skipped + i
        BY <1>2, <1>4, <2>0, <4>1
      <4> QED
        BY <1>5, <4>2
    <3>3. off[k] < off[k] + Skipped + i /\ off[k] + Skipped + i <= off[k + 1]
      <4>1. order[k] \in Frames
        BY <1>6, WireFacts
      <4>2. Total(order[k]) \in Nat
        BY <4>1, FrameFacts
      <4>3. Skipped + i <= Total(order[k])
        BY <1>2, <1>8, <2>0, <3>1, <4>2
      <4> QED
        BY <1>2, <1>4, <1>7, <2>0, <4>2, <4>3
    <3>4. stream[i - g] = [frame |-> order[k], place |-> (ReadSoFar(off) + (i - g)) - off[k]]
      <4>1. off[k] < ReadSoFar(off) + (i - g) /\ ReadSoFar(off) + (i - g) <= off[k + 1]
        BY <3>2, <3>3
      <4> QED
        BY <1>1, <1>6, <3>1, <4>1 DEF OnItsWay
    <3>5. (ReadSoFar(off) + (i - g)) - off[k] = Skipped + i
      <4>0. \A x, c, j \in Nat : (x + c + j) - x = c + j
        OBVIOUS
      <4>1. (off[k] + Skipped + i) - off[k] = Skipped + i
        BY <1>2, <1>4, <2>0, <4>0
      <4> QED
        BY <3>2, <4>1
    <3>6. got[i] = stream[i - g]
      BY <1>2, <1>9, <2>0, <2>2
    <3> QED
      BY <3>4, <3>5, <3>6
  <2> QED
    BY <1>2, <2>0, <2>1, <2>2
<1> QED
  BY <1>6, <1>9

\* What has been read is no longer on its way.
LEMMA ReadShifts ==
  ASSUME TypeInv, NEW order, NEW off, OnTheWire(order, off), Reading,
         UNCHANGED <<frames, sending, open>>,
         NEW n \in 1..Len(stream), Len(stream') = Len(stream) - n,
         \A i \in 1..Len(stream') : stream'[i] = stream[n + i],
         ReadSoFar(off)' = ReadSoFar(off) + n
  PROVE  Written(order, off)' /\ OnItsWay(order, off)'
<1>1. Written(order, off) /\ OnItsWay(order, off)
  BY DEF OnTheWire
<1>2. Len(stream) \in Nat /\ n \in Nat /\ n <= Len(stream) /\ ReadSoFar(off) \in Nat
  BY WireFacts
<1>3. ReadSoFar(off)' + Len(stream') = ReadSoFar(off) + Len(stream)
  <2>1. ReadSoFar(off) + n + (Len(stream) - n) = ReadSoFar(off) + Len(stream)
    BY <1>2
  <2> QED
    BY <2>1
<1>4. Written(order, off)'
  <2>1. \A t \in Sender : Inside(t)' <=> Inside(t)
    BY DEF Inside, Total
  <2> QED
    BY <1>1, <1>3, <2>1 DEF Written
<1>5. ASSUME NEW k \in 1..Len(order), NEW i \in 1..Len(stream'),
             off[k] < ReadSoFar(off)' + i, ReadSoFar(off)' + i <= off[k + 1]
      PROVE  stream'[i] = [frame |-> order[k], place |-> (ReadSoFar(off)' + i) - off[k]]
  <2>1. n + i \in 1..Len(stream) /\ i \in Nat
    BY <1>2, <1>5
  <2>2. ReadSoFar(off)' + i = ReadSoFar(off) + (n + i)
    BY <1>2, <2>1
  <2>3. stream[n + i] = [frame |-> order[k], place |-> (ReadSoFar(off) + (n + i)) - off[k]]
    <3>1. off[k] < ReadSoFar(off) + (n + i) /\ ReadSoFar(off) + (n + i) <= off[k + 1]
      BY <1>5, <2>2
    <3> QED
      BY <1>1, <1>5, <2>1, <3>1 DEF OnItsWay
  <2>4. stream'[i] = stream[n + i]
    BY <1>5
  <2>5. (ReadSoFar(off)' + i) - off[k] = (ReadSoFar(off) + (n + i)) - off[k]
    BY <2>2
  <2> QED
    BY <2>3, <2>4, <2>5
<1> QED
  BY <1>4, <1>5, Zenon DEF OnItsWay

\* The header that a reader completes is whole, and says how long the text is.
LEMMA HeaderIsWhole ==
  ASSUME TypeInv, NEW f \in Frames, NEW got, Len(got) = INT_SIZE,
         got \in Seq(Piece),
         \A i \in 1..Len(got) : got[i] = [frame |-> f, place |-> i],
         reader' \in AfterHeader(got)
  PROVE  reader' = [at |-> "text", got |-> <<>>, wants |-> frames[f].size]
<1>1. INT_SIZE \in Nat /\ INT_SIZE > 0 /\ 1 \in 1..Len(got) /\ DOMAIN got = 1..Len(got)
  BY WireAssumption, LenProperties
<1>2. got[1].frame = f
  BY <1>1
<1>3. Whole(got, 0)
  <2>1. \A i \in 1..Len(got) : 0 + i = i
    BY <1>1
  <2> QED
    BY <1>1, <1>2, <2>1 DEF Whole
<1>4. reader' = IF frames[f].size = 0 THEN Ends("closed")
                ELSE [at |-> "text", got |-> <<>>, wants |-> frames[f].size]
  BY <1>2, <1>3 DEF AfterHeader
<1>5. frames[f].size # 0
  <2>1. frames[f].size \in 1..MaxSize
    BY FrameFacts
  <2> QED
    BY <2>1, WireAssumption
<1> QED
  BY <1>4, <1>5

\* The text that a reader completes is whole: it is handed on if its message
\* can be parsed, and is what the reader raises on if not.
LEMMA TextIsWhole ==
  ASSUME TypeInv, NEW f \in Frames, NEW got, Len(got) = frames[f].size,
         got \in Seq(Piece),
         \A i \in 1..Len(got) : got[i] = [frame |-> f, place |-> INT_SIZE + i],
         AfterText(got)
  PROVE  \/ reader' = AtHeader /\ delivered' = Append(delivered, f)
         \/ /\ reader' = Ends("raised") /\ UNCHANGED delivered
            /\ frames[f].msg \in Unparsable
<1>1. Len(got) \in Nat /\ Len(got) > 0 /\ 1 \in 1..Len(got) /\ DOMAIN got = 1..Len(got)
  <2>1. frames[f].size \in 1..MaxSize
    BY FrameFacts
  <2>2. Len(got) \in Nat /\ Len(got) > 0
    BY <2>1, WireAssumption
  <2> QED
    BY <2>2, LenProperties
<1>2. got[1].frame = f
  <2>1. got[1] = [frame |-> f, place |-> INT_SIZE + 1]
    BY <1>1
  <2> QED
    BY <2>1
<1>3. Whole(got, INT_SIZE)
  BY <1>1, <1>2 DEF Whole
<1>4. Readable(got) <=> frames[f].msg \notin Unparsable
  BY <1>2, <1>3 DEF Readable
<1> QED
  BY <1>2, <1>4 DEF AfterText

LEMMA RecvOnWire ==
  ASSUME TypeInv, TypeInv', NEW order, NEW off, OnTheWire(order, off), Recv
  PROVE  /\ OnTheWire(order, off)'
         /\ reader'.at = "raised" => \E f \in DOMAIN frames : frames[f].msg \in Unparsable
<1> DEFINE k == Len(delivered) + 1
           g == Len(reader.got)
           L == Len(order)
<1>1. Reading /\ UNCHANGED <<frames, sending, open, crossed>>
  BY DEF Recv
<1>2. PICK n \in 1..Len(stream), got \in Seq(Piece) :
        /\ n <= reader.wants - g
        /\ Len(got) = g + n /\ Len(got) \in Nat
        /\ \A i \in 1..Len(got) : got[i] = IF i <= g THEN reader.got[i] ELSE stream[i - g]
        /\ stream' \in Seq(Piece) /\ Len(stream') = Len(stream) - n
        /\ \A i \in 1..Len(stream') : stream'[i] = stream[n + i]
        /\ \/ /\ Len(got) < reader.wants
              /\ reader' = [reader EXCEPT !.got = got] /\ UNCHANGED delivered
           \/ /\ Len(got) = reader.wants /\ reader.at = "header"
              /\ reader' \in AfterHeader(got) /\ UNCHANGED delivered
           \/ /\ Len(got) = reader.wants /\ reader.at = "text"
              /\ AfterText(got)
  BY RecvFacts
<1>3. /\ k \in 1..L
      /\ \A i \in 1..Len(got) : got[i] = [frame |-> order[k], place |-> Skipped + i]
  BY <1>1, <1>2, GotFacts
<1>4. /\ AtReader(order) /\ DeliveredInTurn(order)
  BY <1>1 DEF OnTheWire
<1>5. /\ L \in Nat /\ g \in Nat /\ n \in Nat /\ Skipped \in Nat /\ Len(delivered) \in Nat
      /\ k \in Nat /\ INT_SIZE \in Nat
  BY WireFacts, WireAssumption
<1>6. /\ off[k] \in Nat /\ off[k + 1] = off[k] + Total(order[k]) /\ order[k] \in Frames
      /\ off[k + 1] \in Nat
  <2>1. \A j \in 1..L : off[j + 1] = off[j] + Total(order[j]) /\ order[j] \in Frames
    BY WireFacts
  <2>2. \A j \in 1..(L + 1) : off[j] \in Nat
    BY WireFacts
  <2>3. k \in 1..(L + 1) /\ k + 1 \in 1..(L + 1)
    BY <1>3, <1>5
  <2> HIDE DEF k
  <2> QED
    BY <1>3, <2>1, <2>2, <2>3
<1>7. /\ order \in Seq(Frames') /\ off \in Seq(Nat)
      /\ AtSenders(order)' /\ AllOnTheWire(order)' /\ InTurn(order)' /\ EndToEnd(order, off)'
  BY <1>1, OrderStays
<1>8. ReadSoFar(off) = off[k] + Skipped + g
  BY DEF ReadSoFar
<1>9. ReadSoFar(off)' = ReadSoFar(off) + n => Written(order, off)' /\ OnItsWay(order, off)'
  BY <1>1, <1>2, ReadShifts
<1>10. CASE Len(got) < reader.wants /\ reader' = [reader EXCEPT !.got = got] /\ UNCHANGED delivered
  <2>1. /\ reader'.at = reader.at /\ reader'.got = got /\ reader'.wants = reader.wants
        /\ delivered' = delivered
    BY <1>10 DEF TypeInv
  <2>2. Skipped' = Skipped
    BY <2>1 DEF Skipped
  <2>3. ReadSoFar(off)' = ReadSoFar(off) + n
    <3>1. ReadSoFar(off)' = off[k] + Skipped + Len(got)
      BY <2>1, <2>2 DEF ReadSoFar
    <3> QED
      BY <1>2, <1>5, <1>6, <1>8, <3>1
  <2>4. AtReader(order)'
    <3>1. \A i \in 1..Len(got) : k <= L /\ got[i] = [frame |-> order[k], place |-> Skipped + i]
      BY <1>3, <1>5
    <3> QED
      BY <1>1, <1>4, <2>1, <2>2, <3>1 DEF AtReader
  <2>5. DeliveredInTurn(order)'
    BY <1>4, <2>1 DEF DeliveredInTurn
  <2>6. reader'.at # "raised"
    BY <1>1, <2>1 DEF Reading
  <2> QED
    BY <1>7, <1>9, <2>3, <2>4, <2>5, <2>6 DEF OnTheWire
<1>11. CASE /\ Len(got) = reader.wants /\ reader.at = "header"
            /\ reader' \in AfterHeader(got) /\ UNCHANGED delivered
  <2>1. Skipped = 0 /\ reader.wants = INT_SIZE
    BY <1>4, <1>11 DEF Skipped, AtReader
  <2>2. \A i \in 1..Len(got) : got[i] = [frame |-> order[k], place |-> i]
    <3>1. \A i \in 1..Len(got) : Skipped + i = i
      BY <1>2, <2>1
    <3> QED
      BY <1>3, <3>1
  <2>3. reader' = [at |-> "text", got |-> <<>>, wants |-> frames[order[k]].size]
    BY <1>6, <1>11, <2>1, <2>2, HeaderIsWhole
  <2>4. /\ reader'.at = "text" /\ Len(reader'.got) = 0 /\ reader'.wants = frames[order[k]].size
        /\ delivered' = delivered
    BY <1>11, <2>3, EmptySeq
  <2>5. ReadSoFar(off)' = ReadSoFar(off) + n
    <3>1. ReadSoFar(off)' = off[k] + INT_SIZE + 0
      BY <2>4 DEF ReadSoFar, Skipped
    <3>2. g + n = INT_SIZE
      BY <1>2, <1>11, <2>1
    <3> QED
      BY <1>5, <1>6, <1>8, <2>1, <3>1, <3>2
  <2>6. AtReader(order)'
    <3>1. k <= L
      BY <1>3, <1>5
    <3> QED
      BY <1>1, <2>4, <3>1 DEF AtReader
  <2>7. DeliveredInTurn(order)'
    BY <1>4, <2>4 DEF DeliveredInTurn
  <2> QED
    BY <1>7, <1>9, <2>4, <2>5, <2>6, <2>7 DEF OnTheWire
<1>12. CASE Len(got) = reader.wants /\ reader.at = "text" /\ AfterText(got)
  <2>1. Skipped = INT_SIZE /\ reader.wants = frames[order[k]].size
    BY <1>4, <1>12 DEF Skipped, AtReader
  <2>2. \A i \in 1..Len(got) : got[i] = [frame |-> order[k], place |-> INT_SIZE + i]
    BY <1>3, <2>1
  <2>3. \/ reader' = AtHeader /\ delivered' = Append(delivered, order[k])
        \/ /\ reader' = Ends("raised") /\ UNCHANGED delivered
           /\ frames[order[k]].msg \in Unparsable
    BY <1>6, <1>12, <2>1, <2>2, TextIsWhole
  <2>4. CASE reader' = AtHeader /\ delivered' = Append(delivered, order[k])
    <3>1. /\ Len(delivered') = k /\ delivered'[k] = order[k]
          /\ \A i \in 1..Len(delivered) : delivered'[i] = delivered[i]
      BY <1>6, <2>4, AppendProperties DEF TypeInv
    <3>2. /\ reader'.at = "header" /\ Len(reader'.got) = 0 /\ reader'.wants = INT_SIZE
      BY <2>4, EmptySeq DEF AtHeader
    <3>3. ReadSoFar(off)' = ReadSoFar(off) + n
      <4>1. ReadSoFar(off)' = off[k + 1] + 0 + 0
        BY <3>1, <3>2 DEF ReadSoFar, Skipped
      <4>2. g + n = frames[order[k]].size
        BY <1>2, <1>12, <2>1
      <4>3. off[k + 1] = off[k] + (INT_SIZE + (g + n))
        BY <1>6, <4>2 DEF Total
      <4> QED
        BY <1>5, <1>6, <1>8, <2>1, <4>1, <4>3
    <3>4. AtReader(order)'
      BY <3>2 DEF AtReader
    <3>5. DeliveredInTurn(order)'
      <4>1. \A i \in 1..k : i \in 1..Len(delivered) \/ i = k
        BY <1>5
      <4>2. \A i \in 1..k : delivered'[i] = order[i]
        BY <1>4, <3>1, <4>1 DEF DeliveredInTurn
      <4>3. k <= L
        BY <1>3, <1>5
      <4> QED
        BY <3>1, <4>2, <4>3 DEF DeliveredInTurn
    <3> QED
      BY <1>7, <1>9, <3>2, <3>3, <3>4, <3>5 DEF OnTheWire
  <2>5. CASE /\ reader' = Ends("raised") /\ UNCHANGED delivered
             /\ frames[order[k]].msg \in Unparsable
    <3>1. ~Reading'
      BY <2>5 DEF Reading, Ends
    <3>2. DeliveredInTurn(order)'
      BY <1>4, <2>5 DEF DeliveredInTurn
    <3>3. order[k] \in DOMAIN frames
      BY <1>6 DEF Frames, TypeInv
    <3> QED
      BY <1>7, <2>5, <3>1, <3>2, <3>3 DEF OnTheWire
  <2> QED
    BY <2>3, <2>4, <2>5
<1> QED
  BY <1>2, <1>10, <1>11, <1>12

\* The senders give up, or the socket is closed: what is on its way stays.
LEMMA SenderStopsOnWire ==
  ASSUME TypeInv, NEW order, NEW off, OnTheWire(order, off), ~open',
         UNCHANGED <<frames, stream, reader, delivered>>,
         \A t \in Sender : sending'[t] = Idle \/ sending'[t] = sending[t]
  PROVE  OnTheWire(order, off)'
<1>1. /\ order \in Seq(Frames) /\ off \in Seq(Nat)
      /\ AtSenders(order) /\ InTurn(order) /\ EndToEnd(order, off) /\ DeliveredInTurn(order)
      /\ Reading => AtReader(order) /\ Written(order, off) /\ OnItsWay(order, off)
  BY DEF OnTheWire
<1>2. Frames' = Frames /\ (\A f : Total(f)' = Total(f)) /\ Skipped' = Skipped
  BY DEF Frames, Total, Skipped
<1>3. ReadSoFar(off)' = ReadSoFar(off)
  BY <1>2 DEF ReadSoFar
<1>4. AtSenders(order)'
  BY <1>1, <1>2 DEF AtSenders, Idle, Total
<1>5. AllOnTheWire(order)'
  BY DEF AllOnTheWire
<1>6. InTurn(order)' /\ DeliveredInTurn(order)'
  BY <1>1 DEF InTurn, DeliveredInTurn
<1>7. EndToEnd(order, off)'
  BY <1>1, <1>2 DEF EndToEnd
<1>8. AtReader(order) => AtReader(order)'
  BY <1>2 DEF AtReader
<1>9. Written(order, off) => Written(order, off)'
  BY <1>3 DEF Written
<1>10. OnItsWay(order, off) => OnItsWay(order, off)'
  BY <1>3 DEF OnItsWay
<1> QED
  BY <1>1, <1>2, <1>4, <1>5, <1>6, <1>7, <1>8, <1>9, <1>10 DEF OnTheWire, Reading

LEMMA RecvEndsOnWire ==
  ASSUME TypeInv, NEW order, NEW off, OnTheWire(order, off), RecvEnds
  PROVE  OnTheWire(order, off)'
<1>1. UNCHANGED <<frames, sending, open, delivered>> /\ ~Reading'
  BY DEF RecvEnds, Ends, Reading
<1>2. DeliveredInTurn(order)'
  BY <1>1 DEF OnTheWire, DeliveredInTurn
<1> QED
  BY <1>1, <1>2, OrderStays DEF OnTheWire

-----------------------------------------------------------------------------
(* The theorems *)

\* While nobody has crossed, every step keeps the frames end to end.
LEMMA WireStep ==
  ASSUME TypeInv, TypeInv', [Next]_vars, ~crossed',
         NEW order, NEW off, OnTheWire(order, off)
  PROVE  /\ \E o, p : OnTheWire(o, p)'
         /\ reader'.at = "raised" =>
              reader.at = "raised" \/ \E f \in DOMAIN frames : frames[f].msg \in Unparsable
<1>1. ASSUME NEW t \in Sender, SendBegins(t)
      PROVE  OnTheWire(order, off)' /\ reader' = reader
  BY <1>1, SendBeginsOnWire DEF SendBegins
<1>2. ASSUME NEW t \in Sender, SendMore(t)
      PROVE  (\E o, p : OnTheWire(o, p)') /\ reader' = reader
  BY <1>2, SendMoreOnWire DEF SendMore
<1>3. ASSUME NEW t \in Sender, SendFails(t)
      PROVE  OnTheWire(order, off)' /\ reader' = reader
  <2>1. /\ ~open' /\ UNCHANGED <<frames, stream, reader, delivered>>
        /\ \A u \in Sender : sending'[u] = Idle \/ sending'[u] = sending[u]
    BY <1>3 DEF SendFails, TypeInv
  <2> QED
    BY <2>1, SenderStopsOnWire
<1>4. ASSUME SenderCloses
      PROVE  OnTheWire(order, off)' /\ reader' = reader
  <2>1. /\ ~open' /\ UNCHANGED <<frames, stream, reader, delivered>>
        /\ \A u \in Sender : sending'[u] = Idle \/ sending'[u] = sending[u]
    BY <1>4 DEF SenderCloses
  <2> QED
    BY <2>1, SenderStopsOnWire
<1>5. ASSUME RecvEnds
      PROVE  OnTheWire(order, off)' /\ reader'.at = "closed"
  BY <1>5, RecvEndsOnWire DEF RecvEnds, Ends
<1>6. ASSUME UNCHANGED vars
      PROVE  OnTheWire(order, off)' /\ reader' = reader
  <2>1. UNCHANGED <<frames, sending, open, stream, reader, delivered>>
    BY <1>6 DEF vars
  <2>2. DeliveredInTurn(order)'
    BY <2>1 DEF OnTheWire, DeliveredInTurn
  <2>3. Reading' => AtReader(order)' /\ Written(order, off)' /\ OnItsWay(order, off)'
    BY <2>1 DEF OnTheWire, Reading, AtReader, Written, OnItsWay, ReadSoFar, Skipped, Inside, Total
  <2> QED
    BY <2>1, <2>2, <2>3, OrderStays DEF OnTheWire
<1>7. ASSUME Recv
      PROVE  /\ OnTheWire(order, off)'
             /\ reader'.at = "raised" => \E f \in DOMAIN frames : frames[f].msg \in Unparsable
  BY <1>7, RecvOnWire
<1> QED
  BY <1>1, <1>2, <1>3, <1>4, <1>5, <1>6, <1>7 DEF Next

\* Frames are not forgotten, nor is a crossing.
LEMMA FramesStay ==
  ASSUME TypeInv, [Next]_vars
  PROVE  /\ crossed => crossed'
         /\ \A f \in DOMAIN frames : f \in DOMAIN frames' /\ frames'[f] = frames[f]
<1>1. ASSUME NEW t \in Sender, SendBegins(t)
      PROVE  /\ crossed' = crossed
             /\ \A f \in DOMAIN frames : f \in DOMAIN frames' /\ frames'[f] = frames[f]
  <2>1. DOMAIN frames = Frames /\ frames' \in Seq(Frame) /\ DOMAIN frames' = Frames'
    BY <1>1, NewFrame DEF Frames, TypeInv
  <2> QED
    BY <1>1, <2>1, NewFrame DEF SendBegins
<1>2. ASSUME NEW t \in Sender, SendMore(t)
      PROVE  frames' = frames /\ (crossed => crossed')
  BY <1>2 DEF SendMore
<1>3. CASE UNCHANGED <<frames, crossed>>
  BY <1>3
<1> QED
  BY <1>1, <1>2, <1>3 DEF Next, vars, SendFails, SenderCloses, Recv, RecvEnds

LEMMA InvHolds == Spec => []Inv
<1>1. Init => Inv
  <2> SUFFICES ASSUME Init PROVE Inv
    OBVIOUS
  <2>1. <<>> \in Seq(Frames) /\ <<0>> \in Seq(Nat) /\ OnTheWire(<<>>, <<0>>)
    BY EmptySeq, WireInit
  <2>2. DeliveredAreParsable /\ RaisesForAReason
    <3>1. delivered = <<>> /\ DOMAIN delivered = {} /\ reader.at = "header"
      BY DEF Init, AtHeader
    <3> QED
      BY <3>1 DEF DeliveredAreParsable, RaisesForAReason
  <2> QED
    BY <2>1, <2>2, TypeInit DEF Inv
<1>2. Inv /\ [Next]_vars => Inv'
  <2> SUFFICES ASSUME Inv, [Next]_vars PROVE Inv'
    OBVIOUS
  <2>1. TypeInv /\ TypeInv' /\ DeliveredAreParsable'
    BY TypeStep, ParsableStep DEF Inv
  <2>2. CASE crossed'
    <3>1. RaisesForAReason'
      BY <2>2 DEF RaisesForAReason
    <3> QED
      BY <2>1, <2>2, <3>1 DEF Inv
  <2>3. CASE ~crossed'
    <3>1. ~crossed
      BY <2>1, <2>3, FramesStay
    <3>2. PICK order, off : OnTheWire(order, off)
      BY <3>1 DEF Inv
    <3>3. /\ \E o, p : OnTheWire(o, p)'
          /\ reader'.at = "raised" =>
               reader.at = "raised" \/ \E f \in DOMAIN frames : frames[f].msg \in Unparsable
      BY <2>1, <2>3, <3>2, WireStep
    <3>4. PICK o, p : OnTheWire(o, p)'
      BY <3>3
    <3>5. o \in Seq(Frames') /\ p \in Seq(Nat)
      BY <3>4 DEF OnTheWire
    <3>6. RaisesForAReason'
      <4>1. reader'.at = "raised" => \E f \in DOMAIN frames : frames[f].msg \in Unparsable
        BY <3>1, <3>3 DEF Inv, RaisesForAReason
      <4> QED
        BY <2>1, <4>1, FramesStay DEF RaisesForAReason
    <3> QED
      BY <2>1, <3>4, <3>5, <3>6 DEF Inv
  <2> QED
    BY <2>2, <2>3
<1> QED
  BY <1>1, <1>2, PTL DEF Spec

\* The types of Wire: what is on its way, held or handed on are pieces of
\* frames that some thread has begun (send_encrypted, recv_encrypted).
THEOREM WireTypes == Spec => []TypeInv
<1>1. Inv => TypeInv
  BY DEF Inv
<1> QED
  BY <1>1, InvHolds, PTL

\* However the pieces are cut (send, recv), and whenever the sender closes, the
\* messages of each thread are handed on in the order in which it sent them,
\* each once and none left out, unless two threads have sent into one another.
THEOREM MessagesArriveInOrder == Spec => []InOrder
<1>1. Inv => InOrder
  <2> SUFFICES ASSUME Inv, ~crossed, NEW i \in DOMAIN delivered
               PROVE  /\ \A j \in 1..(i - 1) : delivered[j] # delivered[i]
                      /\ \A g \in 1..(delivered[i] - 1) :
                           frames[g].by = frames[delivered[i]].by =>
                             \E j \in 1..(i - 1) : delivered[j] = g
    BY DEF InOrder
  <2>1. PICK order, off : OnTheWire(order, off)
    BY DEF Inv
  <2>2. TypeInv
    BY DEF Inv
  <2>3. /\ Len(delivered) \in Nat /\ Len(order) \in Nat /\ Len(delivered) <= Len(order)
    BY <2>1, <2>2, WireFacts
  <2>4. i \in 1..Len(delivered) /\ i \in 1..Len(order)
    BY <2>2, <2>3 DEF TypeInv
  <2>5. \A j \in 1..i : delivered[j] = order[j]
    <3>1. \A j \in 1..i : j \in 1..Len(delivered)
      BY <2>3, <2>4
    <3> QED
      BY <2>1, <3>1 DEF OnTheWire, DeliveredInTurn
  <2>6. delivered[i] = order[i] /\ \A j \in 1..(i - 1) : delivered[j] = order[j]
    BY <2>3, <2>4, <2>5
  <2>7. /\ \A j \in 1..(i - 1) : order[j] # order[i]
        /\ \A g \in 1..(order[i] - 1) : frames[g].by = frames[order[i]].by =>
             \E j \in 1..(i - 1) : order[j] = g
    <3>1. InTurn(order)
      BY <2>1 DEF OnTheWire
    <3> QED
      BY <2>4, <3>1 DEF InTurn
  <2> QED
    BY <2>6, <2>7
<1> QED
  BY <1>1, InvHolds, PTL

\* The reading loop ends by an exception only if a message was sent whose text
\* parse does not survive, or two threads have sent into one another.
THEOREM ReaderRaisesForAReason == Spec => []RaisesForAReason
<1>1. Inv => RaisesForAReason
  BY DEF Inv
<1> QED
  BY <1>1, InvHolds, PTL

\* Nothing is handed on but frames whose message can be parsed, whatever the
\* threads have sent into one another.
THEOREM OnlyReadableIsDelivered == Spec => []DeliveredAreParsable
<1>1. Inv => DeliveredAreParsable
  BY DEF Inv
<1> QED
  BY <1>1, InvHolds, PTL

\* If every message of the menus that can be parsed is understood as it was
\* meant, then so is everything that is handed on: no cut, closing or crossing
\* can hand on a message that says something else.
THEOREM WhatArrivesIsWhatWasSent ==
  ASSUME \A m \in Message \ Unparsable : Faithful[m]
  PROVE  Spec => []SaysTheSame
<1>1. Inv => SaysTheSame
  <2> SUFFICES ASSUME Inv, NEW i \in DOMAIN delivered
               PROVE  Faithful[frames[delivered[i]].msg]
    BY DEF SaysTheSame
  <2>1. TypeInv /\ frames[delivered[i]].msg \notin Unparsable
    BY DEF Inv, DeliveredAreParsable
  <2>2. delivered[i] \in Frames
    BY <2>1 DEF TypeInv
  <2>3. frames[delivered[i]].msg \in Message
    BY <2>1, <2>2, FrameFacts DEF Frame
  <2> QED
    BY <2>1, <2>3
<1> QED
  BY <1>1, InvHolds, PTL
=============================================================================
