----------------------------- MODULE RouterProofs -----------------------------
(* Proofs about the CAN router for every set of frames and identifiers and   *)
(* every size of its queue, mailboxes and FIFO: it is the channel CanChannel *)
(* describes, and messages are read in order and lost only when they crowd.  *)
EXTENDS CanRouter, SequenceTheorems, TLAPS

(* An uncrowded mailbox has at most one unread message, in one place.        *)
AtMostOneUnread(m) ==
  /\ Len(mail[m]) <= 1
  /\ mail[m] # <<>> => InFifo(m) = {}
  /\ \A j, k \in InFifo(m) : j = k

Uncrowded == \A m \in MailId \ crowded : AtMostOneUnread(m)

(* Nothing has a number that was not given yet.                              *)
NumbersGiven ==
  /\ \A k \in DOMAIN fifo : fifo[k].number <= given[fifo[k].id]
  /\ \A m \in MailId : /\ read[m] <= given[m]
                       /\ \A k \in DOMAIN mail[m] : mail[m][k] <= given[m]

RouterInv ==
  RouterTypeOK /\ NumbersGiven /\ ReadInOrder /\ Uncrowded /\ LostOnlyIfCrowded
-----------------------------------------------------------------------------
(* Types                                                                     *)

LEMMA RouterInit == Init => RouterInv
<1> SUFFICES ASSUME Init PROVE RouterInv
  OBVIOUS
<1>1. RouterTypeOK
  <2>1. taken \in BOOLEAN
    BY Zenon DEF Init
  <2> QED
    BY <2>1, RouterAssumption DEF Init, RouterTypeOK, Id
<1>2. NumbersGiven
  BY DEF Init, NumbersGiven, Id
<1>3. ReadInOrder
  BY DEF Init, ReadInOrder, MailInOrder, FifoInOrder, InFifo
<1>4. Uncrowded /\ LostOnlyIfCrowded
  BY DEF Init, Uncrowded, AtMostOneUnread, LostOnlyIfCrowded, InFifo
<1> QED
  BY <1>1, <1>2, <1>3, <1>4 DEF RouterInv

LEMMA PutType ==
  ASSUME RouterTypeOK, NEW f \in Frame, putMsg(f)
  PROVE  /\ txQue' \in Seq(Frame) /\ Len(txQue') <= QueSize - 1
         /\ taken' \in BOOLEAN /\ UNCHANGED <<boxes, wire>>
<1>1. CASE Len(txQue) < QueSize - 1 /\ taken' = TRUE /\ txQue' = Append(txQue, f)
  <2>1. taken' \in BOOLEAN
    BY <1>1, Zenon
  <2> QED
    BY <1>1, <2>1, AppendProperties, RouterAssumption DEF putMsg, RouterTypeOK
<1>2. CASE Len(txQue) >= QueSize - 1 /\ taken' = FALSE /\ UNCHANGED txQue
  <2>1. taken' \in BOOLEAN
    BY <1>2, Zenon
  <2> QED
    BY <1>2, <2>1 DEF putMsg, RouterTypeOK
<1> QED
  BY <1>1, <1>2 DEF putMsg

(* A mailbox holds numbers.                                                  *)
LEMMA MailNumbers ==
  ASSUME RouterTypeOK, NEW m \in MailId
  PROVE  /\ mail[m] \in Seq(1 .. MaxGiven) /\ read[m] \in Nat
         /\ Len(mail[m]) \in Nat /\ DOMAIN mail[m] = 1 .. Len(mail[m])
         /\ \A k \in DOMAIN mail[m] : mail[m][k] \in 1 .. MaxGiven /\ mail[m][k] \in Nat
<1>1. mail[m] \in Seq(1 .. MaxGiven) /\ read[m] \in Nat
  BY RouterAssumption DEF RouterTypeOK
<1>2. Len(mail[m]) \in Nat /\ DOMAIN mail[m] = 1 .. Len(mail[m])
  BY <1>1, LenProperties
<1>3. \A k \in DOMAIN mail[m] : mail[m][k] \in 1 .. MaxGiven
  BY <1>1, <1>2, ElementOfSeq
<1> QED
  BY <1>1, <1>2, <1>3, RouterAssumption

LEMMA LookType ==
  ASSUME RouterTypeOK, NEW m \in MailId, looksInto(m)
  PROVE  /\ mail' \in [MailId -> Seq(1 .. MaxGiven)]
         /\ read' \in [MailId -> 0 .. MaxGiven]
         /\ UNCHANGED <<fifo, given, lost, crowded>>
<1>1. CASE mail[m] # <<>>
  <2>1. mail[m] \in Seq(1 .. MaxGiven)
    BY DEF RouterTypeOK
  <2>2. Head(mail[m]) \in 1 .. MaxGiven /\ Tail(mail[m]) \in Seq(1 .. MaxGiven)
    BY <1>1, <2>1, HeadTailProperties
  <2>3. /\ read' = [read EXCEPT ![m] = Head(mail[m])]
        /\ mail' = [mail EXCEPT ![m] = Tail(mail[m])]
    BY <1>1 DEF looksInto, getMsg
  <2>4. /\ mail \in [MailId -> Seq(1 .. MaxGiven)] /\ read \in [MailId -> 0 .. MaxGiven]
        /\ UNCHANGED <<fifo, given, lost, crowded>>
    BY DEF looksInto, RouterTypeOK
  <2>5. Head(mail[m]) \in 0 .. MaxGiven
    BY <2>2, RouterAssumption
  <2>6. mail' \in [MailId -> Seq(1 .. MaxGiven)]
    BY <2>2, <2>3, <2>4, Zenon
  <2>7. read' \in [MailId -> 0 .. MaxGiven]
    BY <2>3, <2>4, <2>5, Zenon
  <2> QED
    BY <2>4, <2>6, <2>7
<1>2. CASE mail[m] = <<>>
  BY <1>2 DEF looksInto, RouterTypeOK
<1> QED
  BY <1>1, <1>2

(* Handing the oldest waiting frame to the controller leaves every frame in  *)
(* its place in the order.                                                   *)
LEMMA HandOverKeepsOrder ==
  ASSUME NEW S, NEW b \in Seq(S), NEW q \in Seq(S), q # <<>>
  PROVE  Append(b, Head(q)) \o Tail(q) = b \o q
<1>1. Head(q) \in S /\ Tail(q) \in Seq(S) /\ Len(Tail(q)) = Len(q) - 1
  BY HeadTailProperties
<1>2. \A i \in 1 .. Len(Tail(q)) : Tail(q)[i] = q[i + 1]
  BY HeadTailProperties
<1>3. Head(q) = q[1]
  OBVIOUS
<1> DEFINE a == Append(b, Head(q))
<1>4. /\ a \in Seq(S) /\ Len(a) = Len(b) + 1
      /\ \A i \in 1 .. Len(b) : a[i] = b[i]
      /\ a[Len(b) + 1] = q[1]
  BY <1>1, <1>3, AppendProperties
<1>5. Len(q) \in Nat \ {0} /\ Len(b) \in Nat
  BY EmptySeq, LenProperties
<1> HIDE DEF a
<1>6. /\ a \o Tail(q) \in Seq(S)
      /\ Len(a \o Tail(q)) = Len(a) + Len(Tail(q))
      /\ \A i \in 1 .. Len(a) + Len(Tail(q)) :
           (a \o Tail(q))[i] = IF i <= Len(a) THEN a[i] ELSE Tail(q)[i - Len(a)]
  BY <1>1, <1>4, ConcatProperties
<1>7. /\ b \o q \in Seq(S)
      /\ Len(b \o q) = Len(b) + Len(q)
      /\ \A i \in 1 .. Len(b) + Len(q) :
           (b \o q)[i] = IF i <= Len(b) THEN b[i] ELSE q[i - Len(b)]
  BY ConcatProperties
<1>8. Len(a \o Tail(q)) = Len(b \o q)
  BY <1>1, <1>4, <1>5, <1>6, <1>7
<1>9. ASSUME NEW i \in 1 .. Len(a \o Tail(q))
      PROVE  (a \o Tail(q))[i] = (b \o q)[i]
  <2>1. CASE i <= Len(b)
    BY <2>1, <1>1, <1>4, <1>5, <1>6, <1>7
  <2>2. CASE i = Len(b) + 1
    BY <2>2, <1>1, <1>4, <1>5, <1>6, <1>7
  <2>3. CASE i > Len(b) + 1
    <3>1. i - Len(a) \in 1 .. Len(Tail(q)) /\ (i - Len(a)) + 1 = i - Len(b)
      BY <2>3, <1>1, <1>4, <1>5, <1>6
    <3> QED
      BY <2>3, <3>1, <1>1, <1>2, <1>4, <1>5, <1>6, <1>7
  <2> QED
    BY <2>1, <2>2, <2>3, <1>4, <1>5, <1>6
<1>10. a \o Tail(q) = b \o q
  BY <1>6, <1>7, <1>8, <1>9, SeqEqual
<1> QED
  BY <1>10 DEF a

(* Taking the oldest of the mailboxes in use takes the oldest frame.         *)
LEMMA OldestGoes ==
  ASSUME NEW S, NEW b \in Seq(S), NEW q \in Seq(S), b # <<>>
  PROVE  /\ b \o q # <<>>
         /\ b[1] \in S
         /\ Head(b \o q) = b[1]
         /\ SubSeq(b, 1, 0) \o SubSeq(b, 2, Len(b)) = Tail(b)
         /\ Tail(b \o q) = Tail(b) \o q
<1>1. Len(b) \in Nat \ {0} /\ Len(q) \in Nat
  BY EmptySeq, LenProperties
<1>2. /\ b \o q \in Seq(S)
      /\ Len(b \o q) = Len(b) + Len(q)
      /\ \A i \in 1 .. Len(b) + Len(q) :
           (b \o q)[i] = IF i <= Len(b) THEN b[i] ELSE q[i - Len(b)]
  BY ConcatProperties
<1>3. b \o q # <<>>
  BY <1>1, <1>2, EmptySeq
<1>4. Head(b \o q) = b[1]
  BY <1>1, <1>2, <1>3
<1>5. Tail(b) \in Seq(S) /\ Len(Tail(b)) = Len(b) - 1
  BY HeadTailProperties
<1>6. \A i \in 1 .. Len(Tail(b)) : Tail(b)[i] = b[i + 1]
  BY HeadTailProperties
<1>7. SubSeq(b, 1, 0) \o SubSeq(b, 2, Len(b)) = Tail(b)
  <2>1. SubSeq(b, 1, 0) = <<>>
    BY SubSeqEmpty
  <2>2. SubSeq(b, 2, Len(b)) = Tail(b)
    BY TailIsSubSeq
  <2>3. <<>> \o Tail(b) = Tail(b)
    BY <1>5, ConcatEmptySeq
  <2> QED
    BY <2>1, <2>2, <2>3
<1>8. Tail(b \o q) = Tail(b) \o q
  <2>1. /\ Tail(b \o q) \in Seq(S) /\ Len(Tail(b \o q)) = Len(b \o q) - 1
        /\ \A i \in 1 .. Len(Tail(b \o q)) : Tail(b \o q)[i] = (b \o q)[i + 1]
    BY <1>2, <1>3, HeadTailProperties
  <2>2. /\ Tail(b) \o q \in Seq(S)
        /\ Len(Tail(b) \o q) = Len(Tail(b)) + Len(q)
        /\ \A i \in 1 .. Len(Tail(b)) + Len(q) :
             (Tail(b) \o q)[i] = IF i <= Len(Tail(b)) THEN Tail(b)[i]
                                 ELSE q[i - Len(Tail(b))]
    BY <1>5, ConcatProperties
  <2>3. Len(Tail(b \o q)) = Len(Tail(b) \o q)
    BY <2>1, <2>2, <1>1, <1>2, <1>5
  <2>4. ASSUME NEW i \in 1 .. Len(Tail(b \o q))
        PROVE  Tail(b \o q)[i] = (Tail(b) \o q)[i]
    <3>1. i \in Nat \ {0} /\ i + 1 \in 1 .. Len(b) + Len(q)
      BY <2>1, <1>1, <1>2
    <3>2. Tail(b \o q)[i] = IF i + 1 <= Len(b) THEN b[i + 1] ELSE q[i + 1 - Len(b)]
      BY <2>1, <3>1, <1>2
    <3>3. (Tail(b) \o q)[i] = IF i <= Len(b) - 1 THEN b[i + 1] ELSE q[i - (Len(b) - 1)]
      BY <2>2, <2>3, <3>1, <1>1, <1>5, <1>6
    <3> QED
      BY <3>1, <3>2, <3>3, <1>1
  <2> QED
    BY <2>1, <2>2, <2>3, <2>4, SeqEqual
<1> QED
  BY <1>1, <1>3, <1>4, <1>7, <1>8, ElementOfSeq
-----------------------------------------------------------------------------
(* The invariant, one lemma per kind of step                                 *)

LEMMA SendersInv ==
  ASSUME RouterInv, CAN_Transmit \/ TransmitterEnds \/ BusTakes \/ ReceiverEnds
  PROVE  RouterInv'
<1>1. RouterTypeOK'
  <2>1. CASE CAN_Transmit
    <3>1. /\ Head(txQue) \in Frame /\ Tail(txQue) \in Seq(Frame)
          /\ Len(Tail(txQue)) = Len(txQue) - 1
      BY <2>1, HeadTailProperties DEF CAN_Transmit, RouterInv, RouterTypeOK
    <3>2. /\ Append(boxes, Head(txQue)) \in Seq(Frame)
          /\ Len(Append(boxes, Head(txQue))) = Len(boxes) + 1
      BY <3>1, AppendProperties DEF RouterInv, RouterTypeOK
    <3> QED
      BY <2>1, <3>1, <3>2, RouterAssumption
      DEF CAN_Transmit, RouterInv, RouterTypeOK, recvVars
  <2>2. CASE TransmitterEnds
    BY <2>2 DEF TransmitterEnds, RouterInv, RouterTypeOK, sendVars, recvVars
  <2>3. CASE BusTakes
    <3>1. boxes' = Tail(boxes) /\ wire' = <<boxes[1]>> /\ boxes[1] \in Frame
      BY <2>3, OldestGoes DEF BusTakes, Picked, RouterInv, RouterTypeOK
    <3>2. Tail(boxes) \in Seq(Frame) /\ Len(Tail(boxes)) = Len(boxes) - 1
      BY <2>3, HeadTailProperties DEF BusTakes, RouterInv, RouterTypeOK
    <3>3. wire' \in {<<>>} \cup {<<f>> : f \in Frame}
      BY <3>1
    <3>4. UNCHANGED <<stage, txQue, taken, recvVars>>
      BY <2>3, Zenon DEF BusTakes
    <3> QED
      BY <3>1, <3>2, <3>3, <3>4, RouterAssumption DEF RouterInv, RouterTypeOK, recvVars
  <2>4. CASE ReceiverEnds
    BY <2>4 DEF ReceiverEnds, RouterInv, RouterTypeOK, sendVars, recvVars
  <2> QED
    BY <2>1, <2>2, <2>3, <2>4
<1>2. UNCHANGED recvVars
  BY DEF CAN_Transmit, TransmitterEnds, BusTakes, ReceiverEnds
<1> QED
  BY <1>1, <1>2
  DEF RouterInv, recvVars, NumbersGiven, ReadInOrder, MailInOrder, FifoInOrder,
      InFifo, Uncrowded, AtMostOneUnread, LostOnlyIfCrowded

LEMMA ArrivesInv ==
  ASSUME RouterInv, NEW d \in Id, Arrives(d)
  PROVE  RouterInv'
<1> DEFINE msg == [id |-> d, number |-> given[d] + 1]
<1>1. /\ msg \in Message /\ msg.id = d /\ msg.number = given[d] + 1
      /\ given[d] \in Nat /\ given[d] < MaxGiven
      /\ given' = [given EXCEPT ![d] = given[d] + 1]
      /\ UNCHANGED <<stage, sendVars, mail, read>>
  BY RouterAssumption DEF Arrives, Message, RouterInv, RouterTypeOK
<1>2. /\ fifo \in Seq(Message) /\ Len(fifo) \in Nat /\ DOMAIN fifo = 1 .. Len(fifo)
      /\ \A k \in DOMAIN fifo : fifo[k] \in Message
  BY DEF RouterInv, RouterTypeOK
<1>3. /\ fifo' \in Seq(Message) /\ Len(fifo') <= FifoLen
      /\ lost' \subseteq MailId /\ crowded' \subseteq MailId /\ crowded \subseteq crowded'
      /\ DOMAIN fifo' = 1 .. Len(fifo') /\ Len(fifo') \in {Len(fifo), Len(fifo) + 1}
      /\ Len(fifo') > 0 /\ fifo'[Len(fifo')] = msg
      /\ \A k \in DOMAIN fifo' : k # Len(fifo') =>
           k \in DOMAIN fifo /\ fifo'[k] = fifo[k] /\ fifo[k] \in Message
      /\ \A j, k \in DOMAIN fifo' : j < k => j # Len(fifo')
      /\ d \in AlreadyUnread => d \in crowded'
  <2>1. CASE Len(fifo) < FifoLen
    <3>1. /\ fifo' = Append(fifo, msg) /\ lost' = lost
          /\ crowded' = crowded \cup ({d} \cap AlreadyUnread)
      BY <2>1 DEF Arrives
    <3>2. /\ fifo' \in Seq(Message) /\ Len(fifo') = Len(fifo) + 1
          /\ \A k \in 1 .. Len(fifo) : fifo'[k] = fifo[k]
          /\ fifo'[Len(fifo) + 1] = msg
      BY <3>1, <1>1, <1>2, AppendProperties
    <3>3. /\ lost' \subseteq MailId /\ crowded' \subseteq MailId /\ crowded \subseteq crowded'
          /\ d \in AlreadyUnread => d \in crowded'
      BY <3>1 DEF AlreadyUnread, RouterInv, RouterTypeOK
    <3>4. Len(fifo') <= FifoLen /\ Len(fifo') > 0 /\ Len(fifo') \in Nat
      BY <2>1, <3>2, <1>2, RouterAssumption
    <3>5. DOMAIN fifo' = 1 .. Len(fifo')
      BY <3>2
    <3>6. \A j, k \in DOMAIN fifo' : j < k => j # Len(fifo')
      BY <3>4, <3>5
    <3>7. \A k \in DOMAIN fifo' : k # Len(fifo') => k \in DOMAIN fifo
      BY <1>2, <3>2, <3>5
    <3> QED
      BY <1>2, <3>2, <3>3, <3>4, <3>5, <3>6, <3>7
  <2>2. CASE ~(Len(fifo) < FifoLen)
    <3>1. /\ fifo' = [fifo EXCEPT ![FifoLen] = msg]
          /\ lost' = lost \cup ({fifo[FifoLen].id} \cap MailId)
          /\ crowded' = crowded \cup ({d, fifo[FifoLen].id} \cap AlreadyUnread)
      BY <2>2 DEF Arrives
    <3>2. Len(fifo) = FifoLen
      <4>1. Len(fifo) <= FifoLen
        BY Zenon DEF RouterInv, RouterTypeOK
      <4>2. Len(fifo) \in Nat /\ FifoLen \in Nat
        BY <1>2, RouterAssumption
      <4> QED
        BY <4>1, <4>2, <2>2
    <3>3. /\ fifo' \in Seq(Message) /\ Len(fifo') = Len(fifo)
          /\ \A j \in 1 .. Len(fifo) : fifo'[j] = IF j = FifoLen THEN msg ELSE fifo[j]
      BY <3>1, <3>2, <1>1, <1>2, ExceptSeq, RouterAssumption
    <3>4. /\ lost' \subseteq MailId /\ crowded' \subseteq MailId /\ crowded \subseteq crowded'
          /\ d \in AlreadyUnread => d \in crowded'
      BY <3>1 DEF AlreadyUnread, RouterInv, RouterTypeOK
    <3>5. Len(fifo') = FifoLen /\ FifoLen \in Nat \ {0} /\ DOMAIN fifo' = 1 .. FifoLen
      BY <3>2, <3>3, RouterAssumption
    <3> QED
      BY <1>2, <3>2, <3>3, <3>4, <3>5
  <2> QED
    BY <2>1, <2>2
<1> HIDE DEF msg
<1>4. RouterTypeOK'
  <2>1. given' \in [Id -> 0 .. MaxGiven]
    BY <1>1, RouterAssumption DEF RouterInv, RouterTypeOK
  <2> QED
    BY <2>1, <1>1, <1>3, RouterAssumption DEF RouterInv, RouterTypeOK, sendVars
<1>5. \A m \in MailId : m \in Id
  BY DEF Id
<1>6. NumbersGiven'
  <2>1. \A c \in Id : given[c] \in Nat /\ given[c] <= given'[c]
    BY <1>1, RouterAssumption DEF RouterInv, RouterTypeOK
  <2>2. ASSUME NEW k \in DOMAIN fifo' PROVE fifo'[k].number <= given'[fifo'[k].id]
    <3>1. CASE k = Len(fifo')
      BY <3>1, <1>1, <1>3 DEF RouterInv, RouterTypeOK
    <3>2. CASE k # Len(fifo')
      <4>1. k \in DOMAIN fifo /\ fifo'[k] = fifo[k] /\ fifo[k] \in Message
        BY <3>2, <1>2, <1>3
      <4>2. fifo[k].number <= given[fifo[k].id] /\ fifo[k].id \in Id /\ fifo[k].number \in Nat
        BY <4>1 DEF RouterInv, NumbersGiven, Message
      <4> QED
        BY <4>1, <4>2, <2>1, <1>1, RouterAssumption DEF RouterInv, RouterTypeOK
    <3> QED
      BY <3>1, <3>2
  <2>3. ASSUME NEW m \in MailId
        PROVE  /\ read'[m] <= given'[m]
               /\ \A k \in DOMAIN mail'[m] : mail'[m][k] <= given'[m]
    <3>1. read[m] \in Nat /\ \A k \in DOMAIN mail[m] : mail[m][k] \in Nat
      BY MailNumbers DEF RouterInv
    <3> QED
      BY <3>1, <1>1, <1>5, <2>1, RouterAssumption
      DEF RouterInv, NumbersGiven, RouterTypeOK
  <2> QED
    BY <2>2, <2>3 DEF NumbersGiven
<1>7. ReadInOrder'
  <2> SUFFICES ASSUME NEW m \in MailId PROVE (MailInOrder(m) /\ FifoInOrder(m))'
    BY DEF ReadInOrder
  <2>1. MailInOrder(m)'
    BY <1>1 DEF RouterInv, ReadInOrder, MailInOrder
  <2>2. ASSUME NEW k \in DOMAIN fifo', fifo'[k].id = m
        PROVE  /\ read[m] < fifo'[k].number
               /\ \A j \in DOMAIN mail[m] : mail[m][j] < fifo'[k].number
               /\ \A j \in DOMAIN fifo' :
                    fifo'[j].id = m /\ j < k => fifo'[j].number < fifo'[k].number
    <3>1. read[m] \in Nat /\ \A j \in DOMAIN mail[m] : mail[m][j] \in Nat
      BY MailNumbers DEF RouterInv
    <3>3. CASE k = Len(fifo')
      <4>1. d = m /\ fifo'[k].number = given[m] + 1
        BY <3>3, <2>2, <1>1, <1>3
      <4>2. /\ read[m] <= given[m]
            /\ \A j \in DOMAIN mail[m] : mail[m][j] <= given[m]
        BY DEF RouterInv, NumbersGiven
      <4>3. ASSUME NEW j \in DOMAIN fifo', fifo'[j].id = m, j < k
            PROVE  fifo'[j].number < fifo'[k].number
        <5>1. j \in DOMAIN fifo /\ fifo'[j] = fifo[j] /\ fifo[j] \in Message
          BY <4>3, <1>3
        <5>2. fifo[j].number <= given[m] /\ fifo[j].number \in Nat
          BY <5>1, <4>3 DEF RouterInv, NumbersGiven, Message
        <5> QED
          BY <5>1, <5>2, <4>1, <1>1
      <4> QED
        BY <4>1, <4>2, <4>3, <3>1, <1>1
    <3>4. CASE k # Len(fifo')
      <4>1. k \in DOMAIN fifo /\ fifo'[k] = fifo[k]
        BY <3>4, <1>3
      <4>2. ASSUME NEW j \in DOMAIN fifo', j < k
            PROVE  j \in DOMAIN fifo /\ fifo'[j] = fifo[j]
        BY <4>2, <1>3
      <4> QED
        BY <2>2, <4>1, <4>2 DEF RouterInv, ReadInOrder, FifoInOrder, InFifo
    <3> QED
      BY <3>3, <3>4
  <2>3. FifoInOrder(m)'
    BY <2>2, <1>1 DEF FifoInOrder, InFifo
  <2> QED
    BY <2>1, <2>3
<1>8. Uncrowded'
  <2> SUFFICES ASSUME NEW m \in MailId, m \notin crowded' PROVE AtMostOneUnread(m)'
    BY DEF Uncrowded
  <2>1. AtMostOneUnread(m) /\ (m = d => mail[m] = <<>> /\ InFifo(m) = {})
    BY <1>3 DEF RouterInv, Uncrowded, AlreadyUnread
  <2>2. CASE m = d
    <3>1. \A k \in DOMAIN fifo' : fifo'[k].id = m => k = Len(fifo')
      BY <2>1, <2>2, <1>3 DEF InFifo
    <3>2. mail'[m] = <<>>
      BY <2>1, <2>2, <1>1
    <3> QED
      BY <3>1, <3>2 DEF AtMostOneUnread, InFifo
  <2>3. CASE m # d
    <3>1. \A k \in DOMAIN fifo' : fifo'[k].id = m => k \in InFifo(m)
      BY <2>3, <1>1, <1>3 DEF InFifo
    <3> QED
      BY <3>1, <2>1, <1>1 DEF AtMostOneUnread, InFifo
  <2> QED
    BY <2>2, <2>3
<1>9. LostOnlyIfCrowded'
  <2>1. CASE Len(fifo) < FifoLen
    BY <2>1, <1>3 DEF Arrives, RouterInv, LostOnlyIfCrowded
  <2>2. CASE ~(Len(fifo) < FifoLen)
    <3>1. FifoLen \in DOMAIN fifo
      BY <2>2, <1>2, RouterAssumption DEF RouterInv, RouterTypeOK
    <3>2. {fifo[FifoLen].id} \cap MailId \subseteq AlreadyUnread
      BY <3>1 DEF AlreadyUnread, InFifo
    <3> QED
      BY <2>2, <3>2 DEF Arrives, RouterInv, LostOnlyIfCrowded
  <2> QED
    BY <2>1, <2>2
<1> QED
  BY <1>4, <1>6, <1>7, <1>8, <1>9 DEF RouterInv

LEMMA LooksInv ==
  ASSUME RouterInv, NEW m \in MailId, looksInto(m)
  PROVE  (NumbersGiven /\ ReadInOrder /\ Uncrowded /\ LostOnlyIfCrowded)'
<1>1. UNCHANGED <<fifo, given, lost, crowded>>
  BY DEF looksInto
<1>2. CASE mail[m] = <<>>
  BY <1>1, <1>2
  DEF looksInto, RouterInv, NumbersGiven, ReadInOrder, MailInOrder, FifoInOrder,
      InFifo, Uncrowded, AtMostOneUnread, LostOnlyIfCrowded
<1>3. CASE mail[m] # <<>>
  <2>1. /\ read' = [read EXCEPT ![m] = Head(mail[m])]
        /\ mail' = [mail EXCEPT ![m] = Tail(mail[m])]
    BY <1>3 DEF looksInto, getMsg
  <2>2. /\ mail \in [MailId -> Seq(1 .. MaxGiven)] /\ read \in [MailId -> 0 .. MaxGiven]
        /\ mail[m] \in Seq(1 .. MaxGiven) /\ Len(mail[m]) \in Nat
        /\ DOMAIN mail[m] = 1 .. Len(mail[m])
    BY MailNumbers DEF RouterInv, RouterTypeOK
  <2>3. /\ Head(mail[m]) = mail[m][1] /\ Len(mail[m]) > 0 /\ 1 \in DOMAIN mail[m]
        /\ Len(Tail(mail[m])) = Len(mail[m]) - 1
        /\ Tail(mail[m]) \in Seq(1 .. MaxGiven)
        /\ \A k \in 1 .. Len(Tail(mail[m])) : Tail(mail[m])[k] = mail[m][k + 1]
    BY <1>3, <2>2, HeadTailProperties, EmptySeq
  <2>4. /\ read'[m] = mail[m][1]
        /\ DOMAIN mail'[m] = 1 .. Len(mail[m]) - 1
        /\ \A k \in DOMAIN mail'[m] : k + 1 \in DOMAIN mail[m] /\ mail'[m][k] = mail[m][k + 1]
    <3>1. mail'[m] = Tail(mail[m]) /\ read'[m] = mail[m][1]
      BY <2>1, <2>2, <2>3
    <3>2. DOMAIN Tail(mail[m]) = 1 .. Len(mail[m]) - 1
      BY <2>3, LenProperties
    <3> QED
      BY <3>1, <3>2, <2>2, <2>3
  <2>5. \A n \in MailId : n # m => mail'[n] = mail[n] /\ read'[n] = read[n]
    BY <2>1, <2>2
  <2>6. NumbersGiven'
    <3>1. ASSUME NEW n \in MailId
          PROVE  /\ read'[n] <= given[n]
                 /\ \A k \in DOMAIN mail'[n] : mail'[n][k] <= given[n]
      <4>1. CASE n = m
        BY <4>1, <2>3, <2>4 DEF RouterInv, NumbersGiven
      <4>2. CASE n # m
        BY <4>2, <2>5 DEF RouterInv, NumbersGiven
      <4> QED
        BY <4>1, <4>2
    <3> QED
      BY <3>1, <1>1 DEF RouterInv, NumbersGiven
  <2>7. ASSUME NEW n \in MailId PROVE (MailInOrder(n) /\ FifoInOrder(n))'
    <3>1. CASE n = m
      <4>1. MailInOrder(m) /\ FifoInOrder(m)
        BY DEF RouterInv, ReadInOrder
      <4>2. ASSUME NEW k \in DOMAIN mail'[m] PROVE read'[m] < mail'[m][k]
        <5>1. k + 1 \in DOMAIN mail[m] /\ 1 < k + 1
          BY <2>2, <2>4
        <5> QED
          BY <5>1, <4>1, <2>3, <2>4 DEF MailInOrder
      <4>3. ASSUME NEW j \in DOMAIN mail'[m], NEW k \in DOMAIN mail'[m], j < k
            PROVE  mail'[m][j] < mail'[m][k]
        <5>1. j + 1 \in DOMAIN mail[m] /\ k + 1 \in DOMAIN mail[m] /\ j + 1 < k + 1
          BY <4>3, <2>2, <2>4
        <5> QED
          BY <5>1, <4>1, <2>4 DEF MailInOrder
      <4>4. FifoInOrder(m)'
        BY <1>1, <4>1, <2>3, <2>4 DEF FifoInOrder, InFifo
      <4> QED
        BY <3>1, <4>2, <4>3, <4>4 DEF MailInOrder
    <3>2. CASE n # m
      BY <3>2, <2>5, <1>1 DEF RouterInv, ReadInOrder, MailInOrder, FifoInOrder, InFifo
    <3> QED
      BY <3>1, <3>2
  <2>8. ASSUME NEW n \in MailId, n \notin crowded' PROVE AtMostOneUnread(n)'
    <3>1. AtMostOneUnread(n)
      BY <2>8, <1>1 DEF RouterInv, Uncrowded
    <3>2. CASE n = m
      <4>1. mail'[m] = Tail(mail[m]) /\ Len(mail'[m]) <= 1 /\ InFifo(m) = {}
        BY <3>1, <3>2, <1>3, <2>1, <2>2, <2>3 DEF AtMostOneUnread
      <4> QED
        BY <4>1, <3>2, <1>1 DEF AtMostOneUnread, InFifo
    <3>3. CASE n # m
      BY <3>1, <3>3, <2>5, <1>1 DEF AtMostOneUnread, InFifo
    <3> QED
      BY <3>2, <3>3
  <2>9. LostOnlyIfCrowded'
    BY <1>1 DEF RouterInv, LostOnlyIfCrowded
  <2> QED
    BY <2>6, <2>7, <2>8, <2>9 DEF ReadInOrder, Uncrowded
<1> QED
  BY <1>2, <1>3

LEMMA ReceiveInv ==
  ASSUME RouterInv, CAN_Receive
  PROVE  RouterInv'
<1> DEFINE msg == Head(fifo)
           h == fifo[1].id
<1>1. /\ fifo \in Seq(Message) /\ Len(fifo) \in Nat \ {0} /\ msg = fifo[1]
      /\ fifo[1] \in Message /\ DOMAIN fifo = 1 .. Len(fifo) /\ 1 \in DOMAIN fifo
  BY EmptySeq, LenProperties, ElementOfSeq DEF CAN_Receive, RouterInv, RouterTypeOK
<1>2. /\ fifo' = Tail(fifo) /\ fifo' \in Seq(Message) /\ Len(fifo') = Len(fifo) - 1
      /\ UNCHANGED <<stage, sendVars, given, read, crowded>>
  BY <1>1, HeadTailProperties DEF CAN_Receive, RouterInv, RouterTypeOK
<1>3. /\ DOMAIN fifo' = 1 .. Len(fifo) - 1
      /\ \A k \in DOMAIN fifo' : k + 1 \in DOMAIN fifo /\ fifo'[k] = fifo[k + 1]
  <2>1. \A k \in 1 .. Len(Tail(fifo)) : Tail(fifo)[k] = fifo[k + 1]
    BY <1>1, HeadTailProperties DEF CAN_Receive
  <2>2. DOMAIN fifo' = 1 .. Len(fifo')
    BY <1>2, LenProperties
  <2> QED
    BY <1>1, <1>2, <2>1, <2>2
<1>4. h \in Id /\ fifo[1].number \in 1 .. MaxGiven
  BY <1>1 DEF Message
<1>5. \/ UNCHANGED mail /\ (lost' = lost \/ (h \in MailId /\ lost' = lost \cup {h} /\ ~HasRoom(mail[h])))
      \/ /\ h \in MailId /\ HasRoom(mail[h]) /\ lost' = lost
         /\ mail' = [mail EXCEPT ![h] = Append(mail[h], fifo[1].number)]
  BY <1>1 DEF CAN_Receive
<1>6. h \in MailId => 1 \in InFifo(h)
  BY <1>1 DEF InFifo
<1>7. \A m \in MailId : \A k \in DOMAIN fifo' : fifo'[k].id = m => k + 1 \in InFifo(m)
  BY <1>3 DEF InFifo
<1>8. LostOnlyIfCrowded'
  <2>1. ASSUME h \in MailId, ~HasRoom(mail[h]) PROVE h \in crowded
    <3>1. mail[h] # <<>>
      BY <2>1, EmptySeq, RouterAssumption DEF HasRoom
    <3> QED
      BY <3>1, <2>1, <1>6 DEF RouterInv, Uncrowded, AtMostOneUnread
  <2> QED
    BY <2>1, <1>2, <1>5 DEF RouterInv, LostOnlyIfCrowded
<1>9. lost' \subseteq MailId
  BY <1>5 DEF RouterInv, RouterTypeOK
<1>10. CASE UNCHANGED mail
  <2>1. RouterTypeOK'
    BY <1>10, <1>1, <1>2, <1>9, RouterAssumption DEF RouterInv, RouterTypeOK, sendVars
  <2>2. NumbersGiven'
    BY <1>10, <1>2, <1>3 DEF RouterInv, NumbersGiven
  <2>3. ASSUME NEW m \in MailId PROVE (MailInOrder(m) /\ FifoInOrder(m))'
    <3>1. MailInOrder(m)'
      BY <1>10, <1>2 DEF RouterInv, ReadInOrder, MailInOrder
    <3>2. ASSUME NEW j \in DOMAIN fifo', NEW k \in DOMAIN fifo', j < k
          PROVE  j + 1 < k + 1
      BY <3>2, <1>1, <1>3
    <3>3. FifoInOrder(m)'
      BY <3>2, <1>10, <1>2, <1>3, <1>7 DEF RouterInv, ReadInOrder, FifoInOrder, InFifo
    <3> QED
      BY <3>1, <3>3
  <2>4. ASSUME NEW m \in MailId, m \notin crowded' PROVE AtMostOneUnread(m)'
    <3>1. AtMostOneUnread(m)
      BY <2>4, <1>2 DEF RouterInv, Uncrowded
    <3>2. \A j, k \in DOMAIN fifo' : j + 1 = k + 1 => j = k
      BY <1>1, <1>3
    <3> QED
      BY <3>1, <3>2, <1>10, <1>7 DEF AtMostOneUnread, InFifo
  <2> QED
    BY <2>1, <2>2, <2>3, <2>4, <1>8 DEF RouterInv, ReadInOrder, Uncrowded
<1>11. CASE /\ h \in MailId /\ HasRoom(mail[h]) /\ lost' = lost
            /\ mail' = [mail EXCEPT ![h] = Append(mail[h], fifo[1].number)]
  <2> DEFINE n == fifo[1].number
  <2>1. /\ mail[h] \in Seq(1 .. MaxGiven) /\ Len(mail[h]) \in Nat
        /\ DOMAIN mail[h] = 1 .. Len(mail[h])
    BY <1>11, MailNumbers DEF RouterInv
  <2>2. /\ mail'[h] = Append(mail[h], n) /\ mail'[h] \in Seq(1 .. MaxGiven)
        /\ Len(mail'[h]) = Len(mail[h]) + 1
        /\ \A m \in MailId : m # h => mail'[m] = mail[m]
        /\ mail' \in [MailId -> Seq(1 .. MaxGiven)]
    <3>1. /\ Append(mail[h], n) \in Seq(1 .. MaxGiven)
          /\ Len(Append(mail[h], n)) = Len(mail[h]) + 1
      BY <2>1, <1>4, AppendProperties
    <3> QED
      BY <3>1, <1>11 DEF RouterInv, RouterTypeOK
  <2>3. /\ DOMAIN mail'[h] = 1 .. Len(mail[h]) + 1
        /\ \A k \in DOMAIN mail'[h] : k # Len(mail[h]) + 1 =>
             k \in DOMAIN mail[h] /\ mail'[h][k] = mail[h][k]
        /\ mail'[h][Len(mail[h]) + 1] = n
    <3>1. DOMAIN mail'[h] = 1 .. Len(mail[h]) + 1
      BY <2>2, LenProperties
    <3>2. /\ \A k \in 1 .. Len(mail[h]) : mail'[h][k] = mail[h][k]
          /\ mail'[h][Len(mail[h]) + 1] = n
      BY <2>1, <2>2, <1>4, AppendProperties
    <3> QED
      BY <3>1, <3>2, <2>1
  <2>4. /\ read[h] < n
        /\ \A j \in DOMAIN mail[h] : mail[h][j] < n
        /\ \A k \in InFifo(h) : 1 < k => n < fifo[k].number
        /\ n <= given[h]
    BY <1>1, <1>6, <1>11 DEF RouterInv, ReadInOrder, FifoInOrder, NumbersGiven
  <2> HIDE DEF n
  <2>5. RouterTypeOK'
    <3>1. Len(fifo') <= FifoLen
      BY <1>1, <1>2, RouterAssumption DEF RouterInv, RouterTypeOK
    <3>2. mail' \in [MailId -> Seq(1 .. MaxGiven)]
      BY <2>2
    <3> QED
      BY <3>1, <3>2, <1>2, <1>9 DEF RouterInv, RouterTypeOK, sendVars
  <2>6. NumbersGiven'
    <3>1. ASSUME NEW k \in DOMAIN mail'[h] PROVE mail'[h][k] <= given[h]
      BY <2>3, <2>4, <1>11 DEF RouterInv, NumbersGiven
    <3>2. ASSUME NEW m \in MailId
          PROVE  read[m] <= given[m] /\ \A k \in DOMAIN mail'[m] : mail'[m][k] <= given[m]
      BY <3>1, <2>2 DEF RouterInv, NumbersGiven
    <3>3. \A k \in DOMAIN fifo' : fifo'[k].number <= given[fifo'[k].id]
      BY <1>3 DEF RouterInv, NumbersGiven
    <3> QED
      BY <3>2, <3>3, <1>2 DEF NumbersGiven
  <2>7. ASSUME NEW m \in MailId PROVE (MailInOrder(m) /\ FifoInOrder(m))'
    <3>1. MailInOrder(m) /\ FifoInOrder(m)
      BY DEF RouterInv, ReadInOrder
    <3>2. ASSUME NEW j \in DOMAIN fifo', NEW k \in DOMAIN fifo', j < k
          PROVE  j + 1 < k + 1
      BY <3>2, <1>1, <1>3
    <3>3. CASE m = h
      <4>1. \A k \in DOMAIN mail'[h] : read[h] < mail'[h][k]
        BY <3>1, <3>3, <2>3, <2>4 DEF MailInOrder
      <4>2. ASSUME NEW j \in DOMAIN mail'[h], NEW k \in DOMAIN mail'[h], j < k
            PROVE  mail'[h][j] < mail'[h][k]
        <5>1. j # Len(mail[h]) + 1
          BY <4>2, <2>1, <2>3
        <5>2. j \in DOMAIN mail[h] /\ mail'[h][j] = mail[h][j]
          BY <5>1, <2>3
        <5> QED
          BY <4>2, <5>2, <3>1, <3>3, <2>3, <2>4 DEF MailInOrder
      <4>3. ASSUME NEW k \in DOMAIN fifo', fifo'[k].id = h
            PROVE  /\ read[h] < fifo'[k].number
                   /\ \A j \in DOMAIN mail'[h] : mail'[h][j] < fifo'[k].number
        <5>1. k + 1 \in InFifo(h) /\ fifo'[k] = fifo[k + 1] /\ 1 < k + 1
          BY <4>3, <1>1, <1>3, <1>11, <1>7
        <5> QED
          BY <5>1, <3>1, <3>3, <2>3, <2>4 DEF FifoInOrder
      <4>4. ASSUME NEW j \in DOMAIN fifo', NEW k \in DOMAIN fifo',
                   fifo'[j].id = h, fifo'[k].id = h, j < k
            PROVE  fifo'[j].number < fifo'[k].number
        BY <4>4, <3>1, <3>2, <3>3, <1>3, <1>7, <1>11 DEF FifoInOrder
      <4> QED
        BY <3>3, <4>1, <4>2, <4>3, <4>4, <1>2 DEF MailInOrder, FifoInOrder, InFifo
    <3>4. CASE m # h
      <4>1. mail'[m] = mail[m] /\ read'[m] = read[m]
        BY <3>4, <2>2, <1>2
      <4>2. MailInOrder(m)'
        BY <4>1, <3>1 DEF MailInOrder
      <4>3. FifoInOrder(m)'
        BY <4>1, <3>1, <3>2, <1>3, <1>7 DEF FifoInOrder, InFifo
      <4> QED
        BY <4>2, <4>3
    <3> QED
      BY <3>3, <3>4
  <2>8. ASSUME NEW m \in MailId, m \notin crowded' PROVE AtMostOneUnread(m)'
    <3>1. AtMostOneUnread(m)
      BY <2>8, <1>2 DEF RouterInv, Uncrowded
    <3>2. \A j, k \in DOMAIN fifo' : j + 1 = k + 1 => j = k
      BY <1>1, <1>3
    <3>3. CASE m = h
      <4>1. mail[h] = <<>>
        BY <3>1, <3>3, <1>6, <1>11 DEF AtMostOneUnread
      <4>2. Len(mail'[h]) = 1
        BY <4>1, <2>2
      <4>3. \A k \in DOMAIN fifo' : fifo'[k].id # h
        <5>1. ASSUME NEW k \in DOMAIN fifo', fifo'[k].id = h PROVE FALSE
          <6>1. k + 1 \in InFifo(h) /\ k + 1 # 1
            BY <5>1, <1>1, <1>3, <1>7, <1>11
          <6> QED
            BY <6>1, <3>1, <3>3, <1>6, <1>11 DEF AtMostOneUnread
        <5> QED
          BY <5>1
      <4> QED
        BY <3>3, <4>2, <4>3 DEF AtMostOneUnread, InFifo
    <3>4. CASE m # h
      <4>1. mail'[m] = mail[m]
        BY <3>4, <2>2
      <4> QED
        BY <4>1, <3>1, <3>2, <1>7 DEF AtMostOneUnread, InFifo
    <3> QED
      BY <3>3, <3>4
  <2> QED
    BY <2>5, <2>6, <2>7, <2>8, <1>8 DEF RouterInv, ReadInOrder, Uncrowded
<1> QED
  BY <1>5, <1>10, <1>11

LEMMA ProceduresInv ==
  ASSUME RouterInv, CanDispatchRun \/ canTest2000
  PROVE  RouterInv'
<1>1. PICK m \in MailId : looksInto(m)
  BY DEF CanDispatchRun, canTest2000, MailId
<1>2. /\ txQue' \in Seq(Frame) /\ Len(txQue') <= QueSize - 1
      /\ taken' \in BOOLEAN /\ UNCHANGED <<boxes, wire>>
  <2>1. ASSUME UNCHANGED sendVars
        PROVE  /\ txQue' \in Seq(Frame) /\ Len(txQue') <= QueSize - 1
               /\ taken' \in BOOLEAN /\ UNCHANGED <<boxes, wire>>
    BY <2>1 DEF RouterInv, RouterTypeOK, sendVars
  <2>2. (\E f \in Frame : putMsg(f)) \/ UNCHANGED sendVars
    BY DEF CanDispatchRun, canTest2000, Frame
  <2> QED
    BY <2>1, <2>2, PutType DEF RouterInv
<1>3. /\ mail' \in [MailId -> Seq(1 .. MaxGiven)]
      /\ read' \in [MailId -> 0 .. MaxGiven]
      /\ UNCHANGED <<fifo, given, lost, crowded>>
  BY <1>1, LookType DEF RouterInv
<1>4. stage' \in {"transmit", "receive", "dispatch", "test"}
  BY DEF CanDispatchRun, canTest2000
<1>5. RouterTypeOK'
  BY <1>2, <1>3, <1>4 DEF RouterInv, RouterTypeOK
<1> QED
  BY <1>1, <1>5, LooksInv DEF RouterInv

LEMMA RouterStepInv == RouterInv /\ [Next]_routerVars => RouterInv'
<1> SUFFICES ASSUME RouterInv, [Next]_routerVars PROVE RouterInv'
  OBVIOUS
<1>1. CASE CAN_Transmit \/ TransmitterEnds \/ BusTakes \/ ReceiverEnds
  BY <1>1, SendersInv
<1>2. CASE CAN_Receive
  BY <1>2, ReceiveInv
<1>3. CASE CanDispatchRun \/ canTest2000
  BY <1>3, ProceduresInv
<1>4. ASSUME NEW d \in Id, Arrives(d) PROVE RouterInv'
  BY <1>4, ArrivesInv
<1>5. CASE UNCHANGED routerVars
  BY <1>5
  DEF routerVars, sendVars, recvVars, RouterInv, RouterTypeOK, NumbersGiven,
      ReadInOrder, MailInOrder, FifoInOrder, InFifo, Uncrowded, AtMostOneUnread,
      LostOnlyIfCrowded
<1> QED
  BY <1>1, <1>2, <1>3, <1>4, <1>5 DEF Next, Loop

(* The invariant the router's properties follow from.                        *)
THEOREM RouterInvariant == RouterSpec => []RouterInv
<1>1. Init => RouterInv
  BY RouterInit
<1>2. RouterInv /\ [Next]_routerVars => RouterInv'
  BY RouterStepInv
<1> QED
  BY <1>1, <1>2, PTL DEF RouterSpec

(* CCan.cpp: no queue, mailbox or FIFO ever holds more than it has slots     *)
(* for, whatever the sizes.                                                  *)
THEOREM RouterTypeCorrect == RouterSpec => []RouterTypeOK
<1>1. RouterInv => RouterTypeOK
  BY DEF RouterInv
<1> QED
  BY <1>1, RouterInvariant, PTL

(* runReceiver, pushMsg, getMsg: a reader gets an identifier's messages in   *)
(* the order they came in and none twice, though some are thrown away.       *)
THEOREM MessagesReadInOrder == RouterSpec => []ReadInOrder
<1>1. RouterInv => ReadInOrder
  BY DEF RouterInv
<1> QED
  BY <1>1, RouterInvariant, PTL

(* pushMsg drops nothing, and the FIFO replaces nothing, of an identifier    *)
(* whose messages never met unread.                                          *)
THEOREM MessagesLostOnlyIfCrowded == RouterSpec => []LostOnlyIfCrowded
<1>1. RouterInv => LostOnlyIfCrowded
  BY DEF RouterInv
<1> QED
  BY <1>1, RouterInvariant, PTL
-----------------------------------------------------------------------------
(* The router implements the channel                                         *)

LEMMA ChannelStarts == Init => Channel!ChannelInit
<1> SUFFICES ASSUME Init PROVE Channel!ChannelInit
  OBVIOUS
<1>1. boxes \o txQue = <<>>
  <2>1. <<>> \in Seq(Frame)
    BY EmptySeq
  <2> QED
    BY <2>1, ConcatEmptySeq DEF Init
<1> QED
  BY <1>1 DEF Init, Channel!ChannelInit

LEMMA ChannelPuts ==
  ASSUME RouterInv, NEW f \in Frame, putMsg(f)
  PROVE  Channel!ChannelPut(f)
<1>1. /\ txQue \in Seq(Frame) /\ boxes \in Seq(Frame)
      /\ boxes' = boxes /\ wire' = wire
  BY DEF putMsg, RouterInv, RouterTypeOK
<1>2. CASE Len(txQue) < QueSize - 1 /\ taken' = TRUE /\ txQue' = Append(txQue, f)
  <2>1. boxes \o Append(txQue, f) = Append(boxes \o txQue, f)
    <3>1. <<f>> \in Seq(Frame)
      OBVIOUS
    <3>2. boxes \o txQue \in Seq(Frame)
      BY <1>1, ConcatProperties
    <3>3. Append(txQue, f) = txQue \o <<f>>
      BY <1>1, AppendIsConcat
    <3>4. Append(boxes \o txQue, f) = (boxes \o txQue) \o <<f>>
      BY <3>2, AppendIsConcat
    <3>5. (boxes \o txQue) \o <<f>> = boxes \o (txQue \o <<f>>)
      BY <1>1, <3>1, ConcatAssociative
    <3> QED
      BY <3>3, <3>4, <3>5
  <2> QED
    BY <1>1, <1>2, <2>1 DEF Channel!ChannelPut
<1>3. CASE Len(txQue) >= QueSize - 1 /\ taken' = FALSE /\ UNCHANGED txQue
  <2>1. Len(boxes \o txQue) = Len(boxes) + Len(txQue)
    BY <1>1, ConcatProperties
  <2>2. Len(boxes) \in Nat /\ Len(txQue) \in Nat
    BY <1>1, LenProperties
  <2>3. Len(boxes \o txQue) >= QueSize - 1
    BY <1>3, <2>1, <2>2, RouterAssumption
  <2> QED
    BY <1>1, <1>3, <2>3 DEF Channel!ChannelPut
<1> QED
  BY <1>2, <1>3 DEF putMsg

LEMMA ChannelSteps ==
  ASSUME RouterInv, [Next]_routerVars
  PROVE  [Channel!ChannelNext]_(Channel!channelVars)
<1>1. txQue \in Seq(Frame) /\ boxes \in Seq(Frame)
  BY DEF RouterInv, RouterTypeOK
<1>2. CASE CAN_Transmit
  <2>1. /\ boxes' = Append(boxes, Head(txQue)) /\ txQue' = Tail(txQue) /\ txQue # <<>>
        /\ taken' = taken /\ wire' = wire
    BY <1>2 DEF CAN_Transmit
  <2>2. boxes' \o txQue' = boxes \o txQue
    BY <1>1, <2>1, HandOverKeepsOrder
  <2> QED
    BY <2>1, <2>2 DEF Channel!channelVars
<1>3. CASE BusTakes
  <2>1. /\ boxes # <<>> /\ txQue' = txQue /\ taken' = taken
        /\ wire' = <<boxes[1]>>
        /\ boxes' = SubSeq(boxes, 1, 0) \o SubSeq(boxes, 2, Len(boxes))
    BY <1>3 DEF BusTakes, Picked
  <2>2. /\ boxes \o txQue # <<>> /\ Head(boxes \o txQue) = boxes[1]
        /\ Tail(boxes \o txQue) = boxes' \o txQue
    <3>1. /\ boxes \o txQue # <<>> /\ Head(boxes \o txQue) = boxes[1]
          /\ SubSeq(boxes, 1, 0) \o SubSeq(boxes, 2, Len(boxes)) = Tail(boxes)
          /\ Tail(boxes \o txQue) = Tail(boxes) \o txQue
      BY <1>1, <2>1, OldestGoes, Zenon
    <3>2. boxes' = Tail(boxes)
      BY <2>1, <3>1, Zenon
    <3> QED
      BY <3>1, <3>2, Zenon
  <2> QED
    BY <2>1, <2>2 DEF Channel!ChannelNext, Channel!ChannelSend
<1>4. ASSUME UNCHANGED sendVars PROVE [Channel!ChannelNext]_(Channel!channelVars)
  BY <1>4 DEF sendVars, Channel!channelVars
<1>5. CASE CanDispatchRun \/ canTest2000
  <2>1. (\E f \in Frame : putMsg(f)) \/ UNCHANGED sendVars
    BY <1>5 DEF CanDispatchRun, canTest2000, Frame
  <2>2. ASSUME NEW f \in Frame, putMsg(f) PROVE Channel!ChannelNext
    BY <2>2, ChannelPuts DEF Channel!ChannelNext
  <2> QED
    BY <1>4, <2>1, <2>2
<1>6. CASE TransmitterEnds \/ CAN_Receive \/ ReceiverEnds
           \/ (\E d \in Id : Arrives(d)) \/ UNCHANGED routerVars
  BY <1>4, <1>6 DEF TransmitterEnds, CAN_Receive, ReceiverEnds, Arrives, routerVars
<1> QED
  BY <1>2, <1>3, <1>5, <1>6 DEF Next, Loop

(* putMsg, runTransmitter and the controller together are the channel        *)
(* CanChannel describes: a frame is dropped at the door and only behind      *)
(* QueSize - 1 others, what is taken goes out once and in order.             *)
THEOREM RouterImplementsChannel == RouterSpec => ImplementsChannel
<1>1. Init => Channel!ChannelInit
  BY ChannelStarts
<1>2. RouterInv /\ [Next]_routerVars => [Channel!ChannelNext]_(Channel!channelVars)
  BY ChannelSteps
<1> QED
  BY <1>1, <1>2, RouterInvariant, PTL
  DEF RouterSpec, ImplementsChannel, Channel!ChannelSpec
=============================================================================
