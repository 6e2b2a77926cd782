------------------------------ MODULE RtpProofs ------------------------------
(***************************************************************************)
(* Proofs about RtpStream: types, frames without a hole on any network,    *)
(* frames with their start on a network that loses nothing.                *)
(***************************************************************************)
EXTENDS RtpStream, TLAPS

\* What the sender does after packet p: the next part, or a later frame.
Next1(p, q) ==
  \/ p.part < p.size /\ q.frame = p.frame /\ q.size = p.size /\ q.part = p.part + 1
  \/ p.part = p.size /\ q.frame > p.frame /\ q.part = 1

\* The numbers grow, and a number that follows the other belongs to the packet
\* that follows.
Numbered ==
  /\ \A i \in DOMAIN sent : sent[i].seq < mySeq
  /\ \A i, j \in DOMAIN sent : i < j => sent[i].seq < sent[j].seq
  /\ \A i, j \in DOMAIN sent : sent[j].seq = sent[i].seq + 1 => Next1(sent[i], sent[j])

\* The last packet sent, when its number was the last used, and the place of
\* the sender.
AtSender ==
  /\ \A i \in DOMAIN sent : sent[i].seq + 1 = mySeq =>
       \/ sent[i].frame = frame /\ sent[i].size = size /\ sent[i].part = part
       \/ sent[i].frame < frame /\ sent[i].part = sent[i].size /\ part = 0
  /\ size = 0 => sent = <<>>
  /\ frame = 0 => size = 0

\* What is being built is a stretch of what was sent, with no marker in it.
Built(b) ==
  /\ \A i \in 1..Len(b) : ~Marker(b[i]) /\ \E j \in DOMAIN sent : b[i] = sent[j]
  /\ \A i \in 1..(Len(b) - 1) : Continues(b[i], b[i + 1])

BuildingOK ==
  /\ Built(building)
  /\ building # <<>> => remoteSeq = building[Len(building)].seq + 1

\* On a calm network numbers have no gap, and what is being built is what
\* arrived after the last marker.
CalmSent ==
  /\ \A i \in 1..(Len(sent) - 1) : sent[i + 1].seq = sent[i].seq + 1
  /\ mySeq < SeqLimit /\ sent # <<>> => sent[Len(sent)].seq + 1 = mySeq
  /\ mySeq < SeqLimit /\ sent = <<>> => part = 0
  /\ sent # <<>> => sent[1].part = 1

CalmBuilding ==
  /\ building = <<>> => arrived = 0 \/ Marker(sent[arrived])
  /\ building # <<>> =>
       arrived > 0 /\ building[Len(building)] = sent[arrived] /\ building[1].part = 1

Inv ==
  /\ TypeOK /\ Numbered /\ AtSender /\ BuildingOK
  /\ calm => CalmSent /\ CalmBuilding
  /\ DeliveredWithoutHole /\ WholeWhileCalm

-----------------------------------------------------------------------------
\* What the types say of the packets sent, in the form the proofs use.
LEMMA PacketFacts ==
  ASSUME TypeOK
  PROVE  /\ sent \in Seq(Packet) /\ Len(sent) \in Nat /\ DOMAIN sent = 1..Len(sent)
         /\ mySeq \in Nat /\ frame \in Nat /\ size \in Nat /\ part \in Nat
         /\ \A i \in 1..Len(sent) :
              /\ sent[i] \in Packet
              /\ sent[i].seq \in Nat /\ sent[i].seq < SeqLimit
              /\ sent[i].frame \in Nat
              /\ sent[i].part \in Nat \ {0} /\ sent[i].size \in Nat \ {0}
<1>1. \A q \in Packet : /\ q.seq \in Nat /\ q.seq < SeqLimit /\ q.frame \in Nat
                        /\ q.part \in Nat \ {0} /\ q.size \in Nat \ {0}
  <2> TAKE q \in Packet
  <2>1. /\ q.seq \in 0..(SeqLimit - 1) /\ q.frame \in 1..MaxFrames
        /\ q.part \in Nat \ {0} /\ q.size \in Sizes
    BY DEF Packet
  <2>2. q.seq \in Nat /\ q.seq < SeqLimit
    BY <2>1, StreamAssumption
  <2>3. q.frame \in Nat
    BY <2>1, StreamAssumption
  <2>4. q.size \in Nat \ {0}
    BY <2>1, StreamAssumption
  <2> QED BY <2>1, <2>2, <2>3, <2>4
<1>2. sent \in Seq(Packet)
  BY DEF TypeOK
<1>3. mySeq \in Nat /\ frame \in Nat /\ size \in Nat /\ part \in Nat
  BY StreamAssumption DEF TypeOK
<1> QED BY <1>1, <1>2, <1>3

LEMMA InitInv == Init => Inv
  BY StreamAssumption
  DEF Init, Inv, TypeOK, Numbered, AtSender, BuildingOK, Built, CalmSent, CalmBuilding,
      DeliveredWithoutHole, WholeWhileCalm, Packet

LEMMA SendPacketInv ==
  ASSUME Inv, NEW n \in Sizes, SendPacket(n) PROVE Inv'
<1> USE StreamAssumption DEF Inv, SendPacket
<1>1. TypeOK'
  BY DEF TypeOK
<1>2. Numbered'
  BY DEF Numbered, Next1
<1>3. AtSender'
  <2>1. AtSender /\ part = size /\ size' = n /\ n # 0 /\ part' = 0 /\ frame' = frame + 1
    OBVIOUS
  <2>2. /\ DOMAIN sent = 1..Len(sent) /\ frame \in Nat /\ UNCHANGED <<mySeq, sent>>
        /\ \A i \in DOMAIN sent : sent[i].size # 0 /\ sent[i].frame \in Nat
    BY PacketFacts
  <2> HIDE DEF Inv, SendPacket
  <2>3. ASSUME NEW i \in DOMAIN sent, sent[i].seq + 1 = mySeq
        PROVE  sent[i].frame < frame' /\ sent[i].part = sent[i].size
    <3>1. sent[i].frame = frame \/ sent[i].frame < frame
      BY <2>1, <2>3 DEF AtSender
    <3>2. sent[i].part = sent[i].size
      BY <2>1, <2>2, <2>3 DEF AtSender
    <3> QED BY <2>1, <2>2, <3>1, <3>2
  <2>4. frame' # 0
    BY <2>1, <2>2
  <2> QED BY <2>1, <2>2, <2>3, <2>4 DEF AtSender
<1>4. BuildingOK'
  BY DEF BuildingOK, Built, Marker, Continues
<1>5. calm' => CalmSent' /\ CalmBuilding'
  BY DEF CalmSent, CalmBuilding, Marker
<1>6. DeliveredWithoutHole' /\ WholeWhileCalm'
  BY DEF DeliveredWithoutHole, WholeWhileCalm
<1> QED BY <1>1, <1>2, <1>3, <1>4, <1>5, <1>6

LEMMA SendToInv ==
  ASSUME Inv, SendTo PROVE Inv'
<1> DEFINE p == [seq |-> mySeq, frame |-> frame, part |-> part + 1, size |-> size]
           n == Len(sent)
<1>1. TypeOK /\ Numbered /\ AtSender /\ BuildingOK /\ (calm => CalmSent /\ CalmBuilding)
  BY DEF Inv
<1>2. /\ sent' = Append(sent, p) /\ part' = part + 1 /\ mySeq' = mySeq + 1 /\ delivered' = <<>>
      /\ part < size /\ mySeq < SeqLimit
      /\ UNCHANGED <<frame, size, calm, arrived, building, remoteSeq>>
  BY DEF SendTo, After, Fits
<1>3. /\ sent \in Seq(Packet) /\ n \in Nat /\ DOMAIN sent = 1..n
      /\ mySeq \in Nat /\ frame \in Nat /\ size \in Nat /\ part \in Nat
      /\ \A i \in 1..n : sent[i].seq \in Nat /\ sent[i].frame \in Nat
                         /\ sent[i].part \in Nat \ {0} /\ sent[i].size \in Nat \ {0}
  BY <1>1, PacketFacts
<1>4. p \in Packet
  <2>1. mySeq \in 0..(SeqLimit - 1) /\ part + 1 \in Nat \ {0}
    BY <1>2, <1>3, StreamAssumption
  <2>2. size \in Sizes /\ frame \in 1..MaxFrames
    BY <1>1, <1>2, <1>3, StreamAssumption DEF TypeOK, AtSender
  <2> QED BY <2>1, <2>2 DEF Packet
<1>5. p.seq = mySeq /\ p.frame = frame /\ p.part = part + 1 /\ p.size = size
  OBVIOUS
<1> HIDE DEF p
<1>6. /\ sent' \in Seq(Packet) /\ Len(sent') = n + 1 /\ DOMAIN sent' = 1..(n + 1)
      /\ \A i \in 1..n : sent'[i] = sent[i]
      /\ sent'[n + 1] = p
  BY <1>2, <1>3, <1>4
<1>7. TypeOK'
  BY <1>1, <1>2, <1>3, <1>6 DEF TypeOK
<1> HIDE DEF n
<1>8. Numbered'
  <2>1. \A i \in 1..n : sent[i].seq < mySeq
    BY <1>1, <1>3 DEF Numbered
  <2>2. \A i \in DOMAIN sent' : sent'[i].seq < mySeq'
    BY <1>2, <1>3, <1>5, <1>6, <2>1
  <2>3. \A i, j \in DOMAIN sent' : i < j => sent'[i].seq < sent'[j].seq
    <3>1. \A i, j \in 1..n : i < j => sent[i].seq < sent[j].seq
      BY <1>1, <1>3 DEF Numbered
    <3> QED BY <1>3, <1>5, <1>6, <2>1, <3>1
  <2>4. ASSUME NEW i \in DOMAIN sent', NEW j \in DOMAIN sent', sent'[j].seq = sent'[i].seq + 1
        PROVE  Next1(sent'[i], sent'[j])
    <3>1. i \in 1..n
      <4>1. CASE i = n + 1
        BY <1>3, <1>5, <1>6, <2>1, <2>4, <4>1
      <4> QED BY <1>3, <1>6, <4>1
    <3>2. CASE j \in 1..n
      BY <1>1, <1>3, <1>6, <2>4, <3>1, <3>2 DEF Numbered
    <3>3. CASE j = n + 1
      <4>1. sent[i].seq + 1 = mySeq
        BY <1>5, <1>6, <2>4, <3>1, <3>3
      <4>2. \/ sent[i].frame = frame /\ sent[i].size = size /\ sent[i].part = part
            \/ sent[i].frame < frame /\ sent[i].part = sent[i].size /\ part = 0
        BY <1>1, <1>3, <3>1, <4>1 DEF AtSender
      <4>3. Next1(sent[i], p)
        BY <1>2, <1>3, <1>5, <3>1, <4>2 DEF Next1
      <4> QED BY <1>6, <3>1, <3>3, <4>3
    <3> QED BY <1>3, <1>6, <3>2, <3>3
  <2> QED BY <2>2, <2>3, <2>4 DEF Numbered
<1>9. AtSender'
  <2>1. ASSUME NEW i \in DOMAIN sent', sent'[i].seq + 1 = mySeq'
        PROVE  sent'[i].frame = frame' /\ sent'[i].size = size' /\ sent'[i].part = part'
    <3>1. CASE i = n + 1
      BY <1>2, <1>5, <1>6, <3>1
    <3>2. CASE i \in 1..n
      <4>1. sent[i].seq < mySeq
        BY <1>1, <1>3, <3>2 DEF Numbered
      <4> QED BY <1>2, <1>3, <1>6, <2>1, <3>2, <4>1
    <3> QED BY <1>3, <1>6, <3>1, <3>2
  <2>2. size' # 0 /\ (frame' = 0 => size' = 0)
    BY <1>1, <1>2, <1>3 DEF AtSender
  <2> QED BY <2>1, <2>2 DEF AtSender
<1>10. BuildingOK'
  <2>1. \A j \in DOMAIN sent : j \in DOMAIN sent' /\ sent'[j] = sent[j]
    BY <1>3, <1>6
  <2> QED BY <1>1, <1>2, <2>1 DEF BuildingOK, Built, Marker, Continues
<1>11. calm' => CalmSent'
  <2> SUFFICES ASSUME calm PROVE CalmSent'
    BY <1>2
  <2>1. CASE n = 0
    <3>1. sent = <<>> /\ part = 0
      BY <1>1, <1>2, <1>3, <2>1 DEF CalmSent, n
    <3>2. Len(sent') = 1 /\ sent'[1] = p /\ p.part = 1 /\ p.seq + 1 = mySeq' /\ sent' # <<>>
      BY <1>2, <1>3, <1>5, <1>6, <2>1, <3>1
    <3> QED BY <1>2, <3>2 DEF CalmSent
  <2>2. CASE n > 0
    <3>1. /\ sent # <<>> /\ sent[n].seq + 1 = mySeq /\ sent[1].part = 1
          /\ \A i \in 1..(n - 1) : sent[i + 1].seq = sent[i].seq + 1
      BY <1>1, <1>2, <1>3, <2>2 DEF CalmSent, n
    <3>2. \A i \in 1..n : sent'[i + 1].seq = sent'[i].seq + 1
      <4> TAKE i \in 1..n
      <4>1. sent'[i] = sent[i] /\ n \in Nat /\ n > 0
        BY <1>3, <1>6, <2>2
      <4>2. CASE i = n
        BY <1>5, <1>6, <3>1, <4>1, <4>2
      <4>3. CASE i \in 1..(n - 1)
        <5>1. i + 1 \in 1..n
          BY <4>1, <4>3
        <5>2. sent'[i + 1] = sent[i + 1]
          BY <1>6, <5>1
        <5> QED BY <3>1, <4>1, <4>3, <5>2
      <4> QED BY <4>1, <4>2, <4>3
    <3>3. Len(sent') = n + 1 /\ sent'[Len(sent')].seq + 1 = mySeq' /\ sent' # <<>>
      <4>1. Len(sent') = n + 1 /\ sent'[n + 1] = p /\ n \in Nat
        BY <1>3, <1>6
      <4>2. sent' # <<>>
        BY <4>1
      <4> QED BY <1>2, <1>5, <4>1, <4>2
    <3>4. sent'[1].part = 1
      BY <1>3, <1>6, <2>2, <3>1
    <3>5. \A i \in 1..(Len(sent') - 1) : sent'[i + 1].seq = sent'[i].seq + 1
      BY <1>3, <3>2, <3>3
    <3> QED BY <3>3, <3>4, <3>5 DEF CalmSent
  <2> QED BY <1>3, <2>1, <2>2
<1>12. calm' => CalmBuilding'
  BY <1>1, <1>2, <1>3, <1>6 DEF CalmBuilding, Marker, TypeOK, n
<1>13. DeliveredWithoutHole' /\ WholeWhileCalm'
  BY <1>2 DEF DeliveredWithoutHole, WholeWhileCalm
<1> QED BY <1>7, <1>8, <1>9, <1>10, <1>11, <1>12, <1>13 DEF Inv

LEMMA SendRaisesInv ==
  ASSUME Inv, SendRaises PROVE Inv'
<1> USE StreamAssumption DEF Inv, SendRaises, After
<1>0. /\ mySeq \in Nat /\ DOMAIN sent = 1..Len(sent)
      /\ \A i \in DOMAIN sent : sent[i].seq \in Nat /\ sent[i].seq < mySeq
  BY PacketFacts DEF Numbered
<1>1. TypeOK'
  BY DEF TypeOK
<1>2. Numbered'
  BY <1>0 DEF Numbered, Next1
<1>3. AtSender'
  BY <1>0 DEF AtSender
<1>4. BuildingOK'
  BY DEF BuildingOK, Built, Marker, Continues
<1>5. calm' => CalmSent' /\ CalmBuilding'
  BY DEF CalmSent, CalmBuilding, Marker, Fits, TypeOK
<1>6. DeliveredWithoutHole' /\ WholeWhileCalm'
  BY DEF DeliveredWithoutHole, WholeWhileCalm
<1> QED BY <1>1, <1>2, <1>3, <1>4, <1>5, <1>6

LEMMA TurnsRoughInv ==
  ASSUME Inv, TurnsRough PROVE Inv'
<1> USE DEF Inv, TurnsRough, senderVars
<1>1. TypeOK'
  <2>1. TypeOK
    OBVIOUS
  <2>2. calm' \in BOOLEAN /\ delivered' = <<>>
    OBVIOUS
  <2>3. UNCHANGED <<mySeq, frame, size, part, sent, arrived, building, remoteSeq>>
    OBVIOUS
  <2> HIDE DEF Inv, TurnsRough
  <2> QED BY <2>1, <2>2, <2>3 DEF TypeOK
<1>2. Numbered' /\ AtSender'
  BY DEF Numbered, Next1, AtSender
<1>3. BuildingOK'
  BY DEF BuildingOK, Built, Marker, Continues
<1>4. DeliveredWithoutHole' /\ WholeWhileCalm'
  BY DEF DeliveredWithoutHole, WholeWhileCalm
<1> QED BY <1>1, <1>2, <1>3, <1>4

-----------------------------------------------------------------------------
\* Receiving packet p when b is kept of what was built: what is built or
\* delivered then.
LEMMA Extends ==
  ASSUME Inv, NEW k \in DOMAIN sent, Belongs(sent[k])
  PROVE  /\ Continues(building[Len(building)], sent[k])
         /\ building \in Seq(Packet) /\ building # <<>>
<1>1. building \in Seq(Packet) /\ building # <<>> /\ sent[k].seq = building[Len(building)].seq + 1
  BY DEF Inv, TypeOK, BuildingOK, Belongs
<1>2. PICK j \in DOMAIN sent : building[Len(building)] = sent[j]
  BY <1>1 DEF Inv, BuildingOK, Built
<1>3. Next1(sent[j], sent[k]) /\ ~Marker(sent[j]) /\ sent[j] \in Packet
  <2>1. Next1(sent[j], sent[k])
    BY <1>1, <1>2 DEF Inv, Numbered
  <2>2. Len(building) \in 1..Len(building)
    BY <1>1
  <2>3. ~Marker(building[Len(building)])
    BY <2>2 DEF Inv, BuildingOK, Built
  <2>4. sent[j] \in Packet
    BY PacketFacts DEF Inv
  <2> QED BY <1>2, <2>1, <2>3, <2>4
<1>4. Continues(sent[j], sent[k])
  BY <1>3, StreamAssumption DEF Next1, Marker, Continues, Packet
<1> QED BY <1>1, <1>2, <1>4

LEMMA ReceiveKeeps ==
  ASSUME Inv, NEW k \in DOMAIN sent, Receive(sent[k]), UNCHANGED arrived \/ arrived' = k
  PROVE  TypeOK' /\ Numbered' /\ AtSender' /\ BuildingOK' /\ DeliveredWithoutHole'
<1> DEFINE p == sent[k]
           kept == IF Belongs(p) THEN building ELSE <<>>
           run == Append(kept, p)
<1>0. UNCHANGED <<mySeq, frame, size, part, sent, calm>>
  BY DEF Receive, senderVars
<1>1. /\ p \in Packet /\ sent \in Seq(Packet) /\ building \in Seq(Packet) /\ kept \in Seq(Packet)
      /\ p.seq \in Nat
  BY PacketFacts DEF Inv, TypeOK
<1>2. IF Marker(p)
      THEN /\ delivered' = run /\ building' = <<>>
           /\ remoteSeq' = IF kept = <<>> THEN remoteSeq ELSE NoSeq
      ELSE /\ delivered' = <<>> /\ building' = run
           /\ remoteSeq' = IF kept = <<>> THEN Expect(p) ELSE remoteSeq + 1
  BY DEF Receive
<1>3. Len(run) = Len(kept) + 1 /\ run[Len(run)] = p /\ run # <<>> /\ run \in Seq(Packet)
      /\ \A i \in 1..Len(kept) : run[i] = kept[i]
  BY <1>1
<1>4. Built(kept) /\ (kept # <<>> => kept = building /\ remoteSeq = p.seq)
  BY DEF Inv, BuildingOK, Built, Belongs
<1>5. kept # <<>> => Continues(kept[Len(kept)], p)
  BY Extends
<1> HIDE DEF p, kept, run
<1>6. \A i \in 1..(Len(run) - 1) : Continues(run[i], run[i + 1]) /\ ~Marker(run[i])
  <2> TAKE i \in 1..(Len(run) - 1)
  <2>1. Len(kept) \in Nat /\ i \in 1..Len(kept) /\ run[i] = kept[i]
    BY <1>1, <1>3
  <2>2. ~Marker(kept[i])
    BY <1>4, <2>1 DEF Built
  <2>3. CASE i = Len(kept)
    BY <1>1, <1>3, <1>5, <2>1, <2>2, <2>3
  <2>4. CASE i < Len(kept)
    BY <1>3, <1>4, <2>1, <2>2, <2>4 DEF Built
  <2> QED BY <2>1, <2>3, <2>4
<1>7. TypeOK'
  <2>1. TypeOK
    BY DEF Inv
  <2>2. remoteSeq' \in Nat \cup {NoSeq} /\ building' \in Seq(Packet) /\ delivered' \in Seq(Packet)
    <3>1. remoteSeq \in Nat \cup {NoSeq} /\ (kept # <<>> => remoteSeq + 1 \in Nat)
      BY <1>1, <1>4, <2>1 DEF TypeOK
    <3>2. <<>> \in Seq(Packet)
      OBVIOUS
    <3>3. CASE Marker(p)
      BY <1>2, <1>3, <3>1, <3>2, <3>3
    <3>4. CASE ~Marker(p)
      BY <1>1, <1>2, <1>3, <3>1, <3>2, <3>4 DEF Expect
    <3> QED BY <3>3, <3>4
  <2>3. arrived' \in 0..Len(sent')
    BY <1>0, <2>1, PacketFacts DEF TypeOK
  <2> QED BY <1>0, <2>1, <2>2, <2>3 DEF TypeOK
<1>8. Numbered' /\ AtSender'
  BY <1>0 DEF Inv, Numbered, Next1, AtSender
<1>9. BuildingOK'
  <2>1. CASE Marker(p)
    BY <1>2, <2>1 DEF BuildingOK, Built
  <2>2. CASE ~Marker(p)
    <3>1. building' = run /\ remoteSeq' = p.seq + 1
      BY <1>2, <1>4, <2>2 DEF Expect
    <3>2. p = sent[k] /\ sent' = sent
      BY <1>0 DEF p
    <3>3. \A i \in 1..Len(run) : ~Marker(run[i]) /\ \E j \in DOMAIN sent : run[i] = sent[j]
      BY <1>1, <1>3, <1>4, <2>2, <3>2 DEF Built
    <3> QED BY <1>3, <1>6, <3>1, <3>2, <3>3 DEF BuildingOK, Built, Marker, Continues
  <2> QED BY <2>1, <2>2
<1>10. DeliveredWithoutHole'
  <2>1. CASE Marker(p)
    BY <1>2, <1>3, <1>6, <2>1 DEF DeliveredWithoutHole, Marker, LastOfCut, Continues
  <2>2. CASE ~Marker(p)
    BY <1>2, <2>2 DEF DeliveredWithoutHole
  <2> QED BY <2>1, <2>2
<1> QED BY <1>7, <1>8, <1>9, <1>10

LEMMA ReceiveAnyInv ==
  ASSUME Inv, ReceiveAny PROVE Inv'
<1>1. PICK k \in DOMAIN sent : Receive(sent[k])
  BY DEF ReceiveAny
<1>2. ~calm' /\ UNCHANGED arrived
  BY <1>1 DEF ReceiveAny, Receive
<1>3. TypeOK' /\ Numbered' /\ AtSender' /\ BuildingOK' /\ DeliveredWithoutHole'
  BY <1>1, <1>2, ReceiveKeeps
<1> QED BY <1>2, <1>3 DEF Inv, WholeWhileCalm

LEMMA ReceiveNextInv ==
  ASSUME Inv, ReceiveNext PROVE Inv'
<1> DEFINE k == arrived + 1
           p == sent[k]
<1>1. calm /\ k \in DOMAIN sent /\ arrived' = k /\ Receive(p) /\ arrived \in Nat
  BY DEF ReceiveNext, Inv, TypeOK
<1>2. calm' /\ UNCHANGED <<mySeq, frame, size, part, sent>>
  BY <1>1 DEF Receive, senderVars
<1>3. TypeOK' /\ Numbered' /\ AtSender' /\ BuildingOK' /\ DeliveredWithoutHole'
  BY <1>1, ReceiveKeeps
<1>4. CalmSent'
  BY <1>1, <1>2 DEF Inv, CalmSent
<1>5. p \in Packet /\ building \in Seq(Packet) /\ p.part \in Nat /\ p.size \in Nat
  BY <1>1, PacketFacts DEF Inv, TypeOK
<1>6. building = <<>> => p.part = 1
  <2>1. CASE arrived = 0
    BY <1>1, <2>1 DEF Inv, CalmSent
  <2>2. CASE arrived # 0 /\ building = <<>>
    <3>1. /\ arrived \in DOMAIN sent /\ Marker(sent[arrived])
          /\ p.seq = sent[arrived].seq + 1
      <4>1. arrived \in 1..(Len(sent) - 1)
        BY <1>1, <2>2, PacketFacts DEF Inv
      <4> QED BY <1>1, <2>2, <4>1, PacketFacts DEF Inv, CalmSent, CalmBuilding
    <3>2. Next1(sent[arrived], p)
      BY <1>1, <3>1 DEF Inv, Numbered
    <3>3. sent[arrived].part = sent[arrived].size /\ sent[arrived].size \in Nat
      BY <3>1, PacketFacts DEF Marker, Inv
    <3> QED BY <3>2, <3>3 DEF Next1
  <2> QED BY <2>1, <2>2
<1>7. building # <<>> => Belongs(p)
  <2> SUFFICES ASSUME building # <<>> PROVE p.seq = remoteSeq
    BY DEF Belongs
  <2>1. arrived > 0 /\ building[Len(building)] = sent[arrived]
    BY <1>1 DEF Inv, CalmBuilding
  <2>2. arrived \in 1..(Len(sent) - 1)
    BY <1>1, <2>1, PacketFacts DEF Inv
  <2>3. p.seq = sent[arrived].seq + 1
    BY <1>1, <2>2 DEF Inv, CalmSent
  <2> QED BY <2>1, <2>3 DEF Inv, BuildingOK
<1>8. IF Marker(p) THEN delivered' = Append(building, p) /\ building' = <<>>
                   ELSE delivered' = <<>> /\ building' = Append(building, p)
  BY <1>1, <1>7 DEF Receive
<1>9. building # <<>> => building[1].part = 1
  BY <1>1 DEF Inv, CalmBuilding
<1>10. LET run == Append(building, p) IN run[1].part = 1 /\ run[Len(run)] = p /\ run # <<>>
  BY <1>5, <1>6, <1>9
<1>11. CalmBuilding'
  BY <1>1, <1>2, <1>8, <1>10 DEF CalmBuilding, Marker
<1>12. WholeWhileCalm'
  BY <1>8, <1>10 DEF WholeWhileCalm
<1> QED BY <1>2, <1>3, <1>4, <1>11, <1>12 DEF Inv

-----------------------------------------------------------------------------
LEMMA NextInv ==
  ASSUME Inv, [Next]_vars PROVE Inv'
<1>1. CASE UNCHANGED vars
  BY <1>1
  DEF vars, senderVars, receiverVars, Inv, TypeOK, Numbered, Next1, AtSender, BuildingOK, Built,
      CalmSent, CalmBuilding, DeliveredWithoutHole, WholeWhileCalm, Marker, LastOfCut, Continues
<1>2. CASE \E n \in Sizes : SendPacket(n)
  BY <1>2, SendPacketInv
<1> QED
  BY <1>1, <1>2, SendToInv, SendRaisesInv, TurnsRoughInv, ReceiveNextInv, ReceiveAnyInv DEF Next

LEMMA InvAlways == Spec => []Inv
<1>1. Init => Inv
  BY InitInv
<1>2. Inv /\ [Next]_vars => Inv'
  BY NextInv
<1> QED BY <1>1, <1>2, PTL DEF Spec

\* The state of sender and receiver is always well typed; in particular no
\* packet goes out with a number that has no 16-bit form.
THEOREM StreamTypes == Spec => []TypeOK
<1>1. Inv => TypeOK
  BY DEF Inv
<1> QED BY <1>1, InvAlways, PTL

\* _receive_loop never delivers a frame with a hole or with parts of two cut
\* frames, on a network that may lose, repeat and reorder, for any payloads.
THEOREM NoHoles == Spec => []DeliveredWithoutHole
<1>1. Inv => DeliveredWithoutHole
  BY DEF Inv
<1> QED BY <1>1, InvAlways, PTL

\* While the network loses nothing, _receive_loop delivers no frame without
\* its start.
THEOREM FramesHaveStart == Spec => []WholeWhileCalm
<1>1. Inv => WholeWhileCalm
  BY DEF Inv
<1> QED BY <1>1, InvAlways, PTL
=============================================================================
