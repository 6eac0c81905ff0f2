------------------------------ MODULE LinkProofs ------------------------------
(***************************************************************************)
(* Proofs about the link, for any number and size of blocks, any receive   *)
(* queue, any losses.  Types, for every host; and that a load by a host    *)
(* that waits out every write and pauses once at most implements           *)
(* BlockTransfer: host and bootloader stay in step, with one datagram or   *)
(* one answer on the way between them (InStep), or the bootloader refuses  *)
(* everything until the rest of an address is gone (OutOfStep).            *)
(***************************************************************************)
EXTENDS IapLink, SequenceTheorems, TLAPS

Byte == {"cmd", "addr", "len", "data"} \X Nat \X Nat

(* Also inductive: what is on its way and in the queue is bytes, and a host  *)
(* that waits has neither given up nor come to its end.                      *)
LinkInv ==
  /\ LinkTypeOK
  /\ up \in Seq(Seq(Byte)) /\ ring \in Seq(Byte)
  /\ waiting => phase # "exit" /\ next < Blocks
  /\ phase # "exit" => tries <= Breaker

-----------------------------------------------------------------------------
(* Datagrams. *)

LEMMA CommandBytes ==
  Command \in Seq(Byte) /\ Len(Command) = 2
    /\ Command[1] = <<"cmd", 0, 1>> /\ Command[2] = <<"cmd", 0, 2>>
BY DEF Command, Bytes, Byte

LEMMA SwappedBytes ==
  Swapped \in Seq(Byte) /\ Swapped # <<>> /\ Swapped[1] = <<"cmd", 0, 2>>
<1>1. Swapped = [i \in 1 .. 2 |-> Command[(2 - i) + 1]]
  BY CommandBytes DEF Swapped, Reverse
<1>2. Swapped = [i \in 1 .. 2 |-> <<"cmd", 0, (2 - i) + 1>>]
  BY <1>1 DEF Command, Bytes
<1>3. Swapped \in Seq(Byte) /\ Len(Swapped) = 2
  BY <1>2 DEF Byte
<1>4. Swapped # <<>>
  BY <1>3, EmptySeq
<1> QED
  BY <1>2, <1>3, <1>4

LEMMA AddressBytes ==
  ASSUME NEW b \in Nat
  PROVE  Address(b) \in Seq(Byte) /\ Len(Address(b)) = 5 /\ Address(b)[1] = <<"addr", b, 1>>
BY DEF Address, Bytes, Byte

LEMMA DataBytes ==
  ASSUME NEW b \in Nat
  PROVE  /\ Data(b) \in Seq(Byte) /\ Len(Data(b)) = DataLen + 1
         /\ Data(b)[1] = <<"data", b, 1>>
<1>1. DataLen + 1 \in Nat /\ 1 \in 1 .. DataLen + 1
  BY LinkAssumption
<1> QED
  BY <1>1 DEF Data, Bytes, Byte

LEMMA LengthBytes ==
  ASSUME NEW b \in Nat
  PROVE  <<LengthByte(b)>> \in Seq(Byte) /\ Len(<<LengthByte(b)>>) = 1
BY DEF LengthByte, Byte

LEMMA DatagramBytes ==
  ASSUME NEW what \in {"cmd", "addr", "data"}, NEW b \in Nat
  PROVE  /\ Datagram(what, b) \in Seq(Byte)
         /\ what = "cmd" => Len(Datagram(what, b)) = 2
         /\ what = "addr" => Len(Datagram(what, b)) = 5
         /\ what = "data" => Len(Datagram(what, b)) = DataLen + 2
<1>1. CASE what = "cmd"
  BY <1>1, CommandBytes DEF Datagram
<1>2. CASE what = "addr"
  BY <1>2, AddressBytes DEF Datagram
<1>3. CASE what = "data"
  <2>1. Datagram(what, b) = <<LengthByte(b)>> \o Data(b)
    BY <1>3 DEF Datagram
  <2>2. /\ <<LengthByte(b)>> \o Data(b) \in Seq(Byte)
        /\ Len(<<LengthByte(b)>> \o Data(b)) = 1 + (DataLen + 1)
    BY LengthBytes, DataBytes, ConcatProperties
  <2>3. 1 + (DataLen + 1) = DataLen + 2
    BY LinkAssumption
  <2> QED
    BY <1>3, <2>1, <2>2, <2>3
<1> QED
  BY <1>1, <1>2, <1>3

(* One byte, or a sequence of them, of a prefix.                             *)
LEMMA PrefixFirst ==
  ASSUME NEW s \in Seq(Byte), NEW t \in Seq(Byte), s # <<>>, IsPrefix(s, t)
  PROVE  t # <<>> /\ s[1] = t[1]
<1>1. /\ Len(s) \in Nat \ {0} /\ Len(t) \in Nat /\ Len(s) <= Len(t)
      /\ SubSeq(s, 1, Len(s)) = SubSeq(t, 1, Len(s))
  BY EmptySeq DEF IsPrefix
<1>2. 1 \in 1 .. Len(s) /\ 1 \in 1 .. Len(t) /\ Len(s) \in 1 .. Len(t)
  BY <1>1
<1>3. SubSeq(s, 1, Len(s))[1] = s[1]
  BY <1>1, <1>2, SubSeqFull
<1>4. SubSeq(t, 1, Len(s))[1] = t[1]
  <2>1. \A i \in 1 .. Len(s) : t[i] \in Byte
    BY <1>1
  <2> QED
    BY <1>1, <2>1, SubSeqProperties
<1> QED
  BY <1>1, <1>3, <1>4

LEMMA PrefixOfSelf ==
  ASSUME NEW s \in Seq(Byte)
  PROVE  IsPrefix(s, s)
BY DEF IsPrefix

-----------------------------------------------------------------------------
(* Types. *)

LEMMA FittingType ==
  ASSUME LinkInv, NEW d \in Seq(Byte)
  PROVE  /\ Fitting(d) \in Seq(Byte)
         /\ Len(Fitting(d)) <= BuffSize - Len(ring) /\ Len(Fitting(d)) <= Len(d)
         /\ Len(ring) \in Nat /\ BuffSize \in Nat /\ Len(ring) <= BuffSize
         /\ Len(d) <= BuffSize - Len(ring) => Fitting(d) = d
         /\ \A i \in 1 .. Len(Fitting(d)) : Fitting(d)[i] = d[i]
<1>1. Len(ring) \in Nat /\ BuffSize \in Nat /\ Len(ring) <= BuffSize /\ Len(d) \in Nat
  BY LinkAssumption DEF LinkInv, LinkTypeOK
<1> DEFINE n == IF Len(d) <= BuffSize - Len(ring) THEN Len(d) ELSE BuffSize - Len(ring)
<1>2. n \in Nat /\ n <= Len(d) /\ n <= BuffSize - Len(ring)
  BY <1>1
<1>3. Fitting(d) = SubSeq(d, 1, n)
  BY DEF Fitting
<1>4. Len(d) <= BuffSize - Len(ring) => n = Len(d)
  OBVIOUS
<1> HIDE DEF n
<1>5. \A i \in 1 .. n : d[i] \in Byte
  BY <1>1, <1>2
<1>6. /\ SubSeq(d, 1, n) \in Seq(Byte) /\ Len(SubSeq(d, 1, n)) = n
      /\ \A i \in 1 .. n : SubSeq(d, 1, n)[i] = d[i]
  BY <1>2, <1>5, SubSeqProperties
<1>7. SubSeq(d, 1, Len(d)) = d
  BY SubSeqFull
<1> QED
  BY <1>1, <1>2, <1>3, <1>4, <1>6, <1>7

LEMMA ReceivedType ==
  ASSUME LinkInv
  PROVE  /\ Received \in Seq(Byte) /\ Len(Received) \in Nat /\ Len(Received) <= BuffSize
         /\ up = <<>> => Received = ring
         /\ up # <<>> /\ ring = <<>> => Received = Fitting(Head(up))
<1>1. up \in Seq(Seq(Byte)) /\ ring \in Seq(Byte) /\ Len(ring) <= BuffSize
      /\ BuffSize \in Nat /\ Len(ring) \in Nat
  BY LinkAssumption DEF LinkInv, LinkTypeOK
<1>2. CASE up = <<>>
  BY <1>1, <1>2 DEF Received
<1>3. CASE up # <<>>
  <2>1. Head(up) \in Seq(Byte)
    BY <1>1, <1>3, HeadTailProperties
  <2>2. Fitting(Head(up)) \in Seq(Byte) /\ Len(Fitting(Head(up))) <= BuffSize - Len(ring)
    BY <2>1, FittingType
  <2>3. /\ ring \o Fitting(Head(up)) \in Seq(Byte)
        /\ Len(ring \o Fitting(Head(up))) = Len(ring) + Len(Fitting(Head(up)))
    BY <1>1, <2>2, ConcatProperties
  <2>4. ring = <<>> => ring \o Fitting(Head(up)) = Fitting(Head(up))
    BY <2>2, ConcatEmptySeq
  <2>5. Len(Fitting(Head(up))) \in Nat
    BY <2>2
  <2>6. Received = ring \o Fitting(Head(up))
    BY <1>3 DEF Received
  <2> QED
    BY <1>1, <1>3, <2>2, <2>3, <2>4, <2>5, <2>6
<1> QED
  BY <1>2, <1>3

LEMMA RoundType ==
  ASSUME LinkInv, NEW n \in Nat, n <= Len(Received), NEW st \in Stage, Round(n, st)
  PROVE  /\ ring' \in Seq(Byte) /\ Len(ring') = Len(Received) - n /\ Len(ring') <= BuffSize
         /\ up' \in Seq(Seq(Byte)) /\ Len(up') <= MaxSockPbuf /\ stage' \in Stage
<1>1. Received \in Seq(Byte) /\ Len(Received) \in Nat /\ Len(Received) <= BuffSize
      /\ BuffSize \in Nat
  BY ReceivedType, LinkAssumption
<1> DEFINE m == Len(Received)
<1>2. m \in Nat /\ m <= BuffSize /\ n <= m
  BY <1>1
<1>3. \A i \in n + 1 .. m : Received[i] \in Byte
  BY <1>1
<1>4. /\ SubSeq(Received, n + 1, m) \in Seq(Byte)
      /\ Len(SubSeq(Received, n + 1, m)) = IF n + 1 <= m THEN m - (n + 1) + 1 ELSE 0
  <2> HIDE DEF m
  <2> QED
    BY <1>2, <1>3, SubSeqProperties
<1>5. ring' = SubSeq(Received, n + 1, m)
  BY DEF Round
<1>6. ring' \in Seq(Byte) /\ Len(ring') = m - n /\ Len(ring') <= BuffSize
  <2> HIDE DEF m
  <2> QED
    BY <1>1, <1>2, <1>4, <1>5
<1>7. up' \in Seq(Seq(Byte)) /\ Len(up') <= MaxSockPbuf
  <2>1. up \in Seq(Seq(Byte)) /\ Len(up) <= MaxSockPbuf /\ MaxSockPbuf \in Nat
    BY LinkAssumption DEF LinkInv, LinkTypeOK
  <2>2. CASE up = <<>>
    BY <2>1, <2>2 DEF Round
  <2>3. CASE up # <<>>
    <3>1. Tail(up) \in Seq(Seq(Byte)) /\ Len(Tail(up)) = Len(up) - 1 /\ Len(up) \in Nat
      BY <2>1, <2>3, HeadTailProperties
    <3> QED
      BY <2>1, <2>3, <3>1 DEF Round
  <2> QED
    BY <2>2, <2>3
<1> QED
  BY <1>6, <1>7 DEF Round

LEMMA AnswerType ==
  ASSUME LinkInv, Reply("ack") \/ Reply("nack") \/ NoReply
  PROVE  down' \in Seq({"ack", "nack"}) /\ left' \in [{"loss", "slow", "pause"} -> Nat]
<1>1. down \in Seq({"ack", "nack"}) /\ left \in [{"loss", "slow", "pause"} -> Nat]
  BY DEF LinkInv, LinkTypeOK
<1>2. ASSUME NEW answer \in {"ack", "nack"}, down' = Append(down, answer)
      PROVE  down' \in Seq({"ack", "nack"})
  BY <1>1, <1>2
<1>3. CASE Reply("ack") \/ Reply("nack")
  <2>1. \E answer \in {"ack", "nack"} : down' = Append(down, answer)
    BY <1>3 DEF Reply
  <2>2. left' = left
    BY <1>3 DEF Reply
  <2> QED
    BY <1>1, <1>2, <2>1, <2>2
<1>4. CASE NoReply
  BY <1>1, <1>4 DEF NoReply
<1> QED
  BY <1>3, <1>4

LEMMA SpendType ==
  ASSUME LinkInv, NEW what \in {"loss", "slow", "pause"}, Spend(what)
  PROVE  left' \in [{"loss", "slow", "pause"} -> Nat]
BY DEF LinkInv, LinkTypeOK, Spend

LEMMA DeviceType == ASSUME LinkInv, DeviceRound PROVE LinkInv'
<1> USE DEF Stage, KeepData
<1>1. LinkTypeOK /\ UNCHANGED <<hostVars, patient>>
  BY DEF LinkInv, DeviceRound
<1>2. /\ ring' \in Seq(Byte) /\ Len(ring') <= BuffSize
      /\ up' \in Seq(Seq(Byte)) /\ Len(up') <= MaxSockPbuf
      /\ stage' \in Stage
      /\ start_addr' \in Block /\ long_data' \in Block
      /\ flash' \in [Block -> Block \cup {Nothing}]
      /\ down' \in Seq({"ack", "nack"})
      /\ left' \in [{"loss", "slow", "pause"} -> Nat]
  <2>1. /\ start_addr \in Block /\ long_data \in Block
        /\ flash \in [Block -> Block \cup {Nothing}]
        /\ stage \in Stage /\ Len(Received) \in Nat /\ DataLen + 1 \in Nat
    BY <1>1, ReceivedType, LinkAssumption DEF LinkTypeOK
  <2>2. CASE GetCommand
    <3>1. Round(2, "ack") \/ Round(2, "unknown") \/ Round(2, "cmd")
      BY <2>2 DEF GetCommand
    <3>2. Reply("nack") \/ NoReply
      BY <2>2 DEF GetCommand
    <3> QED
      BY <2>1, <2>2, <3>1, <3>2, RoundType, AnswerType DEF GetCommand
  <2>3. CASE UnknownCommand
    BY <2>1, <2>3, RoundType, AnswerType DEF UnknownCommand
  <2>4. CASE AckCommand
    BY <2>1, <2>4, RoundType, AnswerType DEF AckCommand
  <2>5. CASE GetAddress
    <3>1. Round(5, "len") \/ Round(5, "cmd")
      BY <2>5 DEF GetAddress
    <3>2. Reply("ack") \/ Reply("nack")
      BY <2>5 DEF GetAddress
    <3>3. start_addr' \in Block
      BY <2>1, <2>5 DEF GetAddress, TakeAddress
    <3> QED
      BY <2>1, <2>5, <3>1, <3>2, <3>3, RoundType, AnswerType DEF GetAddress
  <2>6. CASE GetLength
    <3>1. Round(1, "data") \/ Round(1, "cmd")
      BY <2>6 DEF GetLength
    <3>2. 1 <= Len(Received)
      BY <2>1, <2>6, ReceivedType, EmptySeq DEF GetLength
    <3> QED
      BY <2>1, <2>6, <3>1, <3>2, RoundType, AnswerType DEF GetLength
  <2>7. CASE GetData
    <3>1. Round(DataLen + 1, "flash") \/ Round(DataLen + 1, "cmd")
      BY <2>7 DEF GetData
    <3>2. Reply("nack") \/ NoReply
      BY <2>7 DEF GetData, AnswerToData
    <3>3. long_data' \in Block
      BY <2>1, <2>7 DEF GetData
    <3> QED
      BY <2>1, <2>7, <3>1, <3>2, <3>3, RoundType, AnswerType DEF GetData
  <2>8. CASE WriteFlash
    <3>1. flash' \in [Block -> Block \cup {Nothing}]
      BY <2>1, <2>8 DEF WriteFlash
    <3> QED
      BY <1>1, <2>1, <2>8, <3>1, AnswerType DEF WriteFlash, LinkInv, LinkTypeOK
  <2>9. CASE GetMore
    BY <2>1, <2>9, RoundType, AnswerType DEF GetMore
  <2>10. CASE FlowBreak
    <3>1. left' \in [{"loss", "slow", "pause"} -> Nat]
      BY <1>1, <2>10, SpendType DEF FlowBreak, LinkTypeOK
    <3>2. ring' \in Seq(Byte) /\ Len(ring') <= BuffSize
      BY <2>10, LinkAssumption DEF FlowBreak, GiveUp
    <3> QED
      BY <1>1, <2>1, <2>10, <3>1, <3>2 DEF FlowBreak, GiveUp, LinkInv, LinkTypeOK
  <2> QED
    BY <2>2, <2>3, <2>4, <2>5, <2>6, <2>7, <2>8, <2>9, <2>10 DEF DeviceRound
<1> QED
  BY <1>1, <1>2 DEF LinkInv, LinkTypeOK, hostVars

LEMMA HostType == ASSUME LinkInv, HostStep PROVE LinkInv'
<1>1. /\ LinkTypeOK /\ UNCHANGED <<patient, ring, stage, start_addr, long_data, flash>>
      /\ up \in Seq(Seq(Byte)) /\ ring \in Seq(Byte) /\ down \in Seq({"ack", "nack"})
      /\ left \in [{"loss", "slow", "pause"} -> Nat]
      /\ tries \in Nat /\ next \in Nat /\ Blocks \in Nat /\ next <= Blocks /\ Breaker \in Nat
      /\ phase \in Phase
  <2>1. UNCHANGED <<patient, ring, stage, start_addr, long_data, flash>>
    BY DEF HostStep, HostSend, HostRecv, HostTimeout, deviceVars
  <2>2. Blocks \in Nat /\ Breaker \in Nat
    BY LinkAssumption
  <2>3. next \in 0 .. Blocks
    BY DEF LinkInv, LinkTypeOK
  <2>4. next \in Nat /\ next <= Blocks
    BY <2>2, <2>3
  <2>5. /\ LinkTypeOK /\ up \in Seq(Seq(Byte)) /\ ring \in Seq(Byte)
        /\ down \in Seq({"ack", "nack"}) /\ left \in [{"loss", "slow", "pause"} -> Nat]
        /\ tries \in Nat /\ phase \in Phase
    BY DEF LinkInv, LinkTypeOK
  <2> QED
    BY <2>1, <2>2, <2>4, <2>5, Zenon
<1>2. CASE HostSend
  <2>1. /\ up' = (IF Len(up) < MaxSockPbuf THEN Append(up, Datagram(phase, next)) ELSE up)
        /\ waiting' = TRUE /\ UNCHANGED <<next, phase, tries, left>>
        /\ next < Blocks /\ phase # "exit"
    BY <1>2 DEF HostSend
  <2>2. Datagram(phase, next) \in Seq(Byte)
    BY <1>1, <2>1, DatagramBytes DEF Phase
  <2>3. up' \in Seq(Seq(Byte)) /\ Len(up') <= MaxSockPbuf
    BY <1>1, <2>1, <2>2, AppendProperties, LinkAssumption DEF LinkTypeOK
  <2>4. down' \in Seq({"ack", "nack"})
    <3>1. PICK n \in 0 .. Len(down) : down' = SubSeq(down, n + 1, Len(down))
      BY <1>2 DEF HostSend
    <3>2. n + 1 \in Int /\ Len(down) \in Int
          /\ \A i \in n + 1 .. Len(down) : down[i] \in {"ack", "nack"}
      BY <1>1, <3>1
    <3> QED
      BY <3>1, <3>2, SubSeqProperties
  <2> QED
    BY <1>1, <2>1, <2>3, <2>4 DEF LinkInv, LinkTypeOK
<1>3. ASSUME TryAgain, waiting
      PROVE  /\ next' = next /\ phase' \in Phase /\ waiting' = FALSE
             /\ tries' \in 0 .. Breaker + 1
             /\ phase' # "exit" => tries' <= Breaker
  <2>1. tries <= Breaker
    BY <1>3 DEF LinkInv
  <2> QED
    BY <1>1, <1>3, <2>1 DEF TryAgain, whileBreaker, Phase
<1>4. CASE HostRecv
  <2>1. /\ UNCHANGED <<up, left>> /\ waiting /\ down # <<>> /\ down' = Tail(down)
    BY <1>4 DEF HostRecv
  <2>2. down' \in Seq({"ack", "nack"})
    BY <1>1, <2>1, HeadTailProperties
  <2>3. CASE Confirmed(Head(down))
    <3>1. next < Blocks /\ phase # "exit" /\ tries <= Breaker
      BY <2>1 DEF LinkInv
    <3>2. /\ phase' \in {"cmd", "addr", "data"} /\ next' \in 0 .. Blocks
          /\ waiting' = FALSE /\ tries' = tries
      BY <1>1, <1>4, <2>3, <3>1 DEF HostRecv, Phase
    <3> QED
      BY <1>1, <2>1, <2>2, <3>1, <3>2 DEF LinkInv, LinkTypeOK, Phase
  <2>4. CASE ~Confirmed(Head(down))
    <3>1. TryAgain
      BY <1>4, <2>4 DEF HostRecv
    <3> QED
      BY <1>1, <1>3, <2>1, <2>2, <3>1 DEF LinkInv, LinkTypeOK
  <2> QED
    BY <2>3, <2>4
<1>5. CASE HostTimeout
  <2>1. TryAgain /\ waiting /\ UNCHANGED <<up, down>>
    BY <1>5 DEF HostTimeout
  <2>2. left' \in [{"loss", "slow", "pause"} -> Nat]
    BY <1>1, <1>5, SpendType DEF HostTimeout
  <2> QED
    BY <1>1, <1>3, <2>1, <2>2 DEF LinkInv, LinkTypeOK
<1> QED
  BY <1>2, <1>4, <1>5 DEF HostStep

LEMMA WithoutType ==
  ASSUME NEW S, NEW s \in Seq(S), NEW i \in DOMAIN s
  PROVE  Without(s, i) \in Seq(S) /\ Len(Without(s, i)) = Len(s) - 1
<1>1. Len(s) \in Nat /\ i \in 1 .. Len(s)
  OBVIOUS
<1>2. \A j \in 1 .. i - 1 : s[j] \in S
  BY <1>1
<1>3. \A j \in i + 1 .. Len(s) : s[j] \in S
  BY <1>1
<1>4. SubSeq(s, 1, i - 1) \in Seq(S) /\ Len(SubSeq(s, 1, i - 1)) = i - 1
  BY <1>1, <1>2, SubSeqProperties
<1>5. SubSeq(s, i + 1, Len(s)) \in Seq(S) /\ Len(SubSeq(s, i + 1, Len(s))) = Len(s) - i
  BY <1>1, <1>3, SubSeqProperties
<1>6. /\ SubSeq(s, 1, i - 1) \o SubSeq(s, i + 1, Len(s)) \in Seq(S)
      /\ Len(SubSeq(s, 1, i - 1) \o SubSeq(s, i + 1, Len(s))) = (i - 1) + (Len(s) - i)
  BY <1>4, <1>5, ConcatProperties
<1>7. (i - 1) + (Len(s) - i) = Len(s) - 1
  BY <1>1
<1> QED
  BY <1>6, <1>7 DEF Without

LEMMA LossType == ASSUME LinkInv, LoseDatagram PROVE LinkInv'
<1>1. /\ LinkTypeOK
      /\ up \in Seq(Seq(Byte)) /\ down \in Seq({"ack", "nack"})
      /\ Len(up) <= MaxSockPbuf /\ Len(up) \in Nat /\ MaxSockPbuf \in Nat
  <2>1. /\ LinkTypeOK /\ up \in Seq(Seq(Byte)) /\ down \in Seq({"ack", "nack"})
        /\ Len(up) <= MaxSockPbuf
    BY DEF LinkInv, LinkTypeOK
  <2>2. MaxSockPbuf \in Nat
    BY LinkAssumption
  <2>3. Len(up) \in Nat
    BY <2>1
  <2> QED
    BY <2>1, <2>2, <2>3, Zenon
<1>2. up' \in Seq(Seq(Byte)) /\ Len(up') <= MaxSockPbuf /\ down' \in Seq({"ack", "nack"})
  <2>1. CASE \E i \in DOMAIN up : up' = Without(up, i) /\ UNCHANGED down
    BY <1>1, <2>1, WithoutType
  <2>2. CASE \E i \in DOMAIN down : down' = Without(down, i) /\ UNCHANGED up
    BY <1>1, <2>2, WithoutType
  <2> QED
    BY <2>1, <2>2 DEF LoseDatagram
<1>3. left' \in [{"loss", "slow", "pause"} -> Nat]
  BY SpendType DEF LoseDatagram
<1> QED
  BY <1>1, <1>2, <1>3 DEF LoseDatagram, LinkInv, LinkTypeOK, hostVars, deviceVars

LEMMA LinkInvInit == LinkInit => LinkInv
<1> SUFFICES ASSUME LinkInit PROVE LinkInv
  OBVIOUS
<1>1. 0 \in Block /\ Blocks \in Nat /\ BuffSize \in Nat /\ MaxSockPbuf \in Nat /\ Breaker \in Nat
  BY LinkAssumption DEF Block
<1>2. left \in [{"loss", "slow", "pause"} -> Nat]
  <2>1. {MaxLoss, MaxPause, MaxSlow, MaxSlowLoss} \subseteq Nat
    BY LinkAssumption
  <2>2. \/ left = [loss |-> MaxLoss, slow |-> 0, pause |-> MaxPause]
        \/ left = [loss |-> MaxSlowLoss, slow |-> MaxSlow, pause |-> 0]
    BY Zenon DEF LinkInit
  <2> QED
    BY <2>1, <2>2
<1>3. flash \in [Block -> Block \cup {Nothing}]
  BY DEF LinkInit
<1>4. /\ next = 0 /\ phase = "cmd" /\ waiting = FALSE /\ tries = 0 /\ up = <<>>
      /\ down = <<>> /\ ring = <<>> /\ stage = "cmd" /\ start_addr = 0 /\ long_data = 0
      /\ patient \in BOOLEAN
  BY Zenon DEF LinkInit
<1>5. /\ next \in 0 .. Blocks /\ tries \in 0 .. Breaker + 1 /\ tries <= Breaker
      /\ start_addr \in Block /\ long_data \in Block
  BY <1>1, <1>4
<1>6. /\ Len(up) <= MaxSockPbuf /\ down \in Seq({"ack", "nack"}) /\ Len(ring) <= BuffSize
      /\ up \in Seq(Seq(Byte)) /\ ring \in Seq(Byte)
  BY <1>1, <1>4
<1>7. phase \in Phase /\ stage \in Stage
  BY <1>4 DEF Phase, Stage
<1>8. waiting \in BOOLEAN /\ ~waiting
  BY <1>4, Zenon
<1>9. LinkTypeOK
  BY <1>2, <1>3, <1>4, <1>5, <1>6, <1>7, <1>8, Zenon DEF LinkTypeOK
<1> QED
  BY <1>5, <1>6, <1>8, <1>9, Zenon DEF LinkInv

LEMMA LinkInvNext == LinkInv /\ [LinkNext]_vars => LinkInv'
<1> SUFFICES ASSUME LinkInv, [LinkNext]_vars PROVE LinkInv'
  OBVIOUS
<1>1. CASE LinkNext
  BY <1>1, DeviceType, HostType, LossType DEF LinkNext
<1>2. CASE UNCHANGED vars
  BY <1>2 DEF vars, hostVars, deviceVars, LinkInv, LinkTypeOK
<1> QED
  BY <1>1, <1>2

THEOREM LinkInvariant == LinkSpec => []LinkInv
BY LinkInvInit, LinkInvNext, PTL DEF LinkSpec

(* Types: the receive queue and the socket keep within their sizes, the host *)
(* counts no more failed tries than whileBreaker lets it, whatever is lost   *)
(* or late (iap.c:31-60, iapdev.py:54-61).                                   *)
THEOREM LinkTypeCorrect == LinkSpec => []LinkTypeOK
BY LinkInvariant, PTL DEF LinkInv

-----------------------------------------------------------------------------
(* A host that misses no answer that still comes.  While it does not pause,  *)
(* it and the bootloader take turns: nothing is on the way while the host is *)
(* about to send; then its datagram is; then the bootloader is at work, or   *)
(* waits for what was lost; then its answer is on the way.                   *)

(* Where the bootloader can be when the host sends.  A host that begins      *)
(* again may find it at a later step, whose answer was lost.                 *)
ReadyFor ==
  /\ phase \in {"cmd", "exit"} => stage \in {"cmd", "addr", "len"}
  /\ phase = "addr" => stage = "addr"
  /\ phase = "data" => stage = "len" /\ start_addr = next

Idle == up = <<>> /\ down = <<>> /\ ring = <<>> /\ ReadyFor

Sent == up = <<Datagram(phase, next)>> /\ down = <<>> /\ ring = <<>> /\ ReadyFor

AtCommand ==
  \/ stage = "cmd" /\ Len(ring) < 2
  \/ stage = "addr" /\ Len(ring) < 5
  \/ stage \in {"ack", "len"} /\ ring = <<>>

AtAddress ==
  \/ stage = "addr" /\ Len(ring) < 5
  \/ stage \in {"cmd", "len"} /\ ring = <<>>

AtData ==
  \/ stage \in {"cmd", "len"} /\ ring = <<>>
  \/ /\ stage = "data" /\ start_addr = next /\ ring # <<>>
     /\ Len(ring) <= DataLen \/ ring = Data(next)
  \/ stage = "flash" /\ start_addr = next /\ long_data = next /\ ring = <<>>

AtWork ==
  /\ up = <<>> /\ down = <<>>
  /\ phase = "cmd" => AtCommand
  /\ phase = "addr" => AtAddress
  /\ phase = "data" => AtData

Answered ==
  /\ up = <<>> /\ down = <<"ack">> /\ ring = <<>>
  /\ phase = "cmd" => stage = "addr"
  /\ phase = "addr" => stage = "len" /\ start_addr = next
  /\ phase = "data" => stage = "cmd" /\ flash[next] = next

LoadedSoFar == \A b \in Block : b < next => flash[b] = b

(* The one pause may come where an address fits the queue.                   *)
OnePause == left.pause = 0 \/ (left.pause = 1 /\ BuffSize >= 5)

(* Behind an address that fitted, more than one byte fits too.               *)
InStep ==
  /\ left.slow = 0 /\ OnePause
  /\ stage \in {"len", "data"} => BuffSize >= 5
  /\ (~waiting /\ Idle) \/ (waiting /\ (Sent \/ AtWork \/ Answered))
  /\ LoadedSoFar

(* A pause that makes the bootloader give up a command whose acknowledgement *)
(* the host has: it sends an address where a command is expected (GivenUp).  *)
(* The bootloader reads that as commands and refuses them two bytes at a     *)
(* time, and then the host's next commands shifted by one byte.  No command  *)
(* is read while an odd number of bytes waits that has none at its odd       *)
(* places; they and the refusals that are still to come are never more than  *)
(* an address, as each command that is sent takes the place of a refusal     *)
(* (Leftover).  Once all are read but one, the timer clears the queue.       *)
NoCommand(s) == \A i \in {1, 3, 5} : i <= Len(s) => s[i] # <<"cmd", 0, 1>>

GivenUp ==
  /\ phase = "addr" /\ stage = "cmd" /\ ring = <<>> /\ down = <<>>
  /\ up = (IF waiting THEN <<Address(next)>> ELSE <<>>)

Leftover ==
  /\ stage \in {"cmd", "unknown"}
  /\ phase \in {"cmd", "addr", "exit"} /\ (phase = "addr" => waiting)
  /\ Len(ring) \in {1, 3, 5} /\ NoCommand(ring)
  /\ up \in Seq({Command}) /\ down \in Seq({"nack"})
  /\ Len(ring) + 2 * Len(up) + 2 * Len(down) <= (IF waiting THEN 5 ELSE 3)

OutOfStep ==
  /\ left.slow = 0 /\ left.pause = 0 /\ BuffSize >= 5
  /\ GivenUp \/ Leftover
  /\ LoadedSoFar

LEMMA PrefixOne ==
  ASSUME NEW t \in Seq(Byte), t # <<>>
  PROVE  IsPrefix(<<t[1]>>, t)
<1>1. Len(t) \in Nat /\ 1 <= Len(t) /\ 1 \in 1 .. Len(t) /\ t[1] \in Byte
  BY EmptySeq, ElementOfSeq
<1>2. \A i \in 1 .. 1 : t[i] \in Byte
  BY <1>1
<1>3. /\ SubSeq(t, 1, 1) \in Seq(Byte) /\ Len(SubSeq(t, 1, 1)) = 1
      /\ SubSeq(t, 1, 1)[1] = t[1]
  BY <1>2, SubSeqProperties
<1>4. <<t[1]>> \in Seq(Byte) /\ Len(<<t[1]>>) = 1 /\ <<t[1]>>[1] = t[1]
  BY <1>1
<1>5. SubSeq(<<t[1]>>, 1, 1) = <<t[1]>>
  BY <1>4, SubSeqFull
<1>6. SubSeq(t, 1, 1) = <<t[1]>>
  <2>1. \A i \in 1 .. Len(SubSeq(t, 1, 1)) : SubSeq(t, 1, 1)[i] = <<t[1]>>[i]
    BY <1>3, <1>4
  <2> QED
    BY <2>1, <1>3, <1>4, SeqEqual
<1> QED
  BY <1>1, <1>4, <1>5, <1>6 DEF IsPrefix

LEMMA BehindFirst ==
  ASSUME NEW x \in Byte, NEW s \in Seq(Byte)
  PROVE  SubSeq(<<x>> \o s, 2, Len(<<x>> \o s)) = s
<1> DEFINE t == <<x>> \o s
<1>1. <<x>> \in Seq(Byte) /\ Len(<<x>>) = 1 /\ Len(s) \in Nat
  OBVIOUS
<1>2. /\ t \in Seq(Byte) /\ Len(t) = 1 + Len(s)
      /\ \A i \in 1 .. 1 + Len(s) : t[i] = IF i <= 1 THEN <<x>>[i] ELSE s[i - 1]
  BY <1>1, ConcatProperties
<1> HIDE DEF t
<1>3. Len(t) \in Nat /\ Len(t) \in Int
  BY <1>1, <1>2
<1>4. \A i \in 2 .. Len(t) : t[i] \in Byte
  BY <1>2, <1>3
<1>5. /\ SubSeq(t, 2, Len(t)) \in Seq(Byte)
      /\ Len(SubSeq(t, 2, Len(t))) = IF 2 <= Len(t) THEN Len(t) - 2 + 1 ELSE 0
      /\ \A i \in 1 .. Len(t) - 2 + 1 : SubSeq(t, 2, Len(t))[i] = t[2 + i - 1]
  BY <1>3, <1>4, SubSeqProperties
<1>6. Len(SubSeq(t, 2, Len(t))) = Len(s)
  BY <1>1, <1>2, <1>5
<1>7. \A i \in 1 .. Len(s) : SubSeq(t, 2, Len(t))[i] = s[i]
  BY <1>1, <1>2, <1>5
<1>8. SubSeq(t, 2, Len(t)) = s
  BY <1>5, <1>6, <1>7, SeqEqual
<1> QED
  BY <1>8 DEF t

(* What every step of these relies on.                                       *)
LEMMA StepTypes ==
  ASSUME LinkInv
  PROVE  /\ DataLen \in Nat \ {0} /\ BuffSize \in Nat /\ Blocks \in Nat
         /\ next \in Nat /\ phase \in Phase /\ stage \in Stage
         /\ waiting \in BOOLEAN /\ waiting => next \in Block /\ phase \in {"cmd", "addr", "data"}
         /\ Len(ring) \in Nat /\ ring \in Seq(Byte) /\ (Len(ring) = 0 <=> ring = <<>>)
<1>1. next \in 0 .. Blocks /\ phase \in Phase /\ stage \in Stage /\ waiting \in BOOLEAN
      /\ ring \in Seq(Byte) /\ (waiting => phase # "exit" /\ next < Blocks)
  BY DEF LinkInv, LinkTypeOK
<1>2. DataLen \in Nat \ {0} /\ BuffSize \in Nat /\ Blocks \in Nat
  BY LinkAssumption
<1>3. Len(ring) \in Nat /\ (Len(ring) = 0 <=> ring = <<>>)
  BY <1>1, EmptySeq
<1>4. waiting => next \in Block /\ phase \in {"cmd", "addr", "data"}
  BY <1>1, <1>2 DEF Block, Phase
<1> QED
  BY <1>1, <1>2, <1>3, <1>4

(* A round that has consumed all there was leaves nothing.                   *)
LEMMA RoundEmpties ==
  ASSUME LinkInv, NEW n \in Nat, n = Len(Received), NEW st \in Stage, Round(n, st)
  PROVE  ring' = <<>>
<1>1. ring' \in Seq(Byte) /\ Len(ring') = Len(Received) - n /\ Len(Received) \in Nat
  BY RoundType, ReceivedType
<1>2. Len(ring') = 0
  BY <1>1
<1> QED
  BY <1>1, <1>2, EmptySeq

LEMMA DeviceWaits ==
  ASSUME LinkInv, InStep, DeviceRound, waiting
  PROVE  Sent \/ AtWork
<1> SUFFICES ASSUME Answered PROVE FALSE
  BY DEF InStep
<1>1. up = <<>> /\ ring = <<>> /\ stage \in {"cmd", "addr", "len"} /\ down # <<>>
  <2>1. phase \in {"cmd", "addr", "data"}
    BY StepTypes
  <2>2. down = <<"ack">> /\ <<"ack">> # <<>>
    BY DEF Answered
  <2> QED
    BY <2>1, <2>2 DEF Answered
<1>2. Received = <<>> /\ Len(Received) = 0
  BY <1>1, ReceivedType, EmptySeq
<1>3. ~GetCommand /\ ~GetAddress /\ ~GetLength /\ ~GetData /\ ~GetMore
  BY <1>1, <1>2 DEF GetCommand, GetAddress, GetLength, GetData, GetMore
<1>4. ~UnknownCommand /\ ~AckCommand /\ ~WriteFlash
  BY <1>1 DEF UnknownCommand, AckCommand, WriteFlash
<1>5. ~FlowBreak
  BY <1>1 DEF FlowBreak
<1> QED
  BY <1>3, <1>4, <1>5 DEF DeviceRound

(* The one pause: the bootloader gives up a command it has acknowledged.     *)
LEMMA PauseStep ==
  ASSUME LinkInv, InStep, DeviceRound, ~waiting
  PROVE  (InStep' \/ OutOfStep') /\ UNCHANGED <<next, flash, patient>>
<1>1. /\ up = <<>> /\ ring = <<>> /\ down = <<>> /\ ReadyFor
      /\ stage \in {"cmd", "addr", "len"} /\ phase \in Phase
      /\ left.slow = 0 /\ OnePause /\ LoadedSoFar
  BY StepTypes DEF InStep, Idle, ReadyFor, Phase
<1>2. Received = <<>> /\ Len(Received) = 0
  BY <1>1, ReceivedType, EmptySeq
<1>3. ~GetCommand /\ ~GetAddress /\ ~GetLength /\ ~GetData /\ ~GetMore
  BY <1>1, <1>2 DEF GetCommand, GetAddress, GetLength, GetData, GetMore
<1>4. ~UnknownCommand /\ ~AckCommand /\ ~WriteFlash
  BY <1>1 DEF UnknownCommand, AckCommand, WriteFlash
<1>5. FlowBreak /\ UNCHANGED <<hostVars, patient>>
  BY <1>3, <1>4 DEF DeviceRound
<1>6. /\ stage = "addr" /\ stage' = "cmd" /\ ring' = <<>> /\ up' = <<>> /\ down' = <<>>
      /\ UNCHANGED <<next, phase, waiting, patient, start_addr, flash>>
  BY <1>1, <1>5 DEF FlowBreak, GiveUp, KeepData, hostVars
<1>7. left'.slow = 0 /\ left'.pause = 0 /\ BuffSize >= 5
  <2>1. left \in [{"loss", "slow", "pause"} -> Nat]
    BY DEF LinkInv, LinkTypeOK
  <2>2. Spend("pause")
    BY <1>5 DEF FlowBreak
  <2>3. left' = [left EXCEPT !["pause"] = @ - 1] /\ left.pause # 0
    BY <2>1, <2>2 DEF Spend
  <2>4. left.pause = 1 /\ BuffSize >= 5
    BY <1>1, <2>3 DEF OnePause
  <2> QED
    BY <1>1, <2>1, <2>3, <2>4
<1>8. LoadedSoFar'
  BY <1>1, <1>6 DEF LoadedSoFar
<1>9. CASE phase = "addr"
  <2>1. GivenUp'
    BY <1>6, <1>9 DEF GivenUp
  <2> QED
    BY <1>6, <1>7, <1>8, <2>1 DEF OutOfStep
<1>10. CASE phase # "addr"
  <2>1. Idle'
    BY <1>1, <1>6, <1>10 DEF Idle, ReadyFor
  <2> QED
    BY <1>6, <1>7, <1>8, <2>1 DEF InStep, OnePause
<1> QED
  BY <1>9, <1>10

(* The bootloader's part of the datagram the host has just sent.             *)
LEMMA SentReceived ==
  ASSUME LinkInv, InStep, waiting, Sent
  PROVE  /\ Datagram(phase, next) \in Seq(Byte)
         /\ Len(Received) <= Len(Datagram(phase, next))
         /\ Len(Received) = Len(Datagram(phase, next)) => Received = Datagram(phase, next)
         /\ \A i \in 1 .. Len(Received) : Received[i] = Datagram(phase, next)[i]
         /\ BuffSize < Len(Datagram(phase, next)) => Len(Received) = BuffSize
         /\ BuffSize >= Len(Datagram(phase, next)) => Received = Datagram(phase, next)
         /\ up # <<>> /\ Tail(up) = <<>>
<1> DEFINE d == Datagram(phase, next)
<1>1. d \in Seq(Byte) /\ Len(d) \in Nat
  BY StepTypes, DatagramBytes
<1>2. up = <<d>> /\ ring = <<>> /\ BuffSize \in Nat
  BY StepTypes DEF Sent
<1> HIDE DEF d
<1>3. up # <<>> /\ Tail(up) = <<>> /\ Head(up) = d
  BY <1>2
<1>4. Received = Fitting(d)
  BY <1>2, <1>3, ReceivedType
<1>5. Len(ring) = 0
  BY <1>2
<1> DEFINE n == IF Len(d) <= BuffSize THEN Len(d) ELSE BuffSize
<1>6. Received = SubSeq(d, 1, n)
  BY <1>1, <1>2, <1>4, <1>5 DEF Fitting
<1>7. n \in Nat /\ n <= Len(d) /\ (BuffSize < Len(d) => n = BuffSize)
      /\ (BuffSize >= Len(d) => n = Len(d))
  BY <1>1, <1>2
<1> HIDE DEF n
<1>8. \A i \in 1 .. n : d[i] \in Byte
  BY <1>1, <1>7
<1>9. Len(SubSeq(d, 1, n)) = n /\ \A i \in 1 .. n : SubSeq(d, 1, n)[i] = d[i]
  BY <1>7, <1>8, SubSeqProperties
<1>10. n = Len(d) => SubSeq(d, 1, n) = d
  BY <1>1, SubSeqFull
<1> QED
  BY <1>1, <1>3, <1>6, <1>7, <1>9, <1>10 DEF d

LEMMA SentCommandTaken ==
  ASSUME LinkInv, InStep, waiting, Sent, GetCommand
  PROVE  NoReply /\ UNCHANGED <<start_addr, long_data, flash>>
           /\ phase = "cmd" /\ stage' = "ack" /\ up' = <<>> /\ ring' = <<>>
<1>1. phase = "cmd" /\ stage = "cmd"
  BY StepTypes DEF Sent, ReadyFor, GetCommand
<1>2. Datagram(phase, next) = Command
  BY <1>1 DEF Datagram
<1>3. Received = Command /\ Len(Received) = 2
  BY <1>2, SentReceived, CommandBytes, ReceivedType DEF GetCommand
<1>4. Starts(Command)
  BY <1>3, CommandBytes, PrefixOfSelf DEF Starts
<1>5. ~Starts(Swapped)
  <2> SUFFICES ASSUME Starts(Swapped) PROVE FALSE
    OBVIOUS
  <2>1. Swapped \in Seq(Byte) /\ Swapped # <<>> /\ Swapped[1] = <<"cmd", 0, 2>>
    BY SwappedBytes
  <2>2. Swapped[1] = Received[1]
    BY <2>1, ReceivedType, PrefixFirst DEF Starts
  <2> QED
    BY <1>3, <2>1, <2>2, CommandBytes
<1>6. Round(2, "ack") /\ NoReply
  BY <1>4, <1>5 DEF GetCommand
<1>7. ring' = <<>>
  BY <1>3, <1>6, RoundEmpties DEF Stage
<1>8. stage' = "ack" /\ up' = <<>>
  BY <1>6, SentReceived DEF Round
<1> QED
  BY <1>1, <1>6, <1>7, <1>8 DEF GetCommand, KeepData

LEMMA SentAddressTaken ==
  ASSUME LinkInv, InStep, waiting, Sent, GetAddress
  PROVE  Reply("ack") /\ UNCHANGED <<long_data, flash>> /\ start_addr' = next
           /\ phase = "addr" /\ stage' = "len" /\ up' = <<>> /\ ring' = <<>> /\ BuffSize >= 5
<1>1. stage = "addr" /\ Len(Received) >= 5 /\ Len(Received) \in Nat
      /\ Len(Received) <= BuffSize /\ BuffSize \in Nat
  BY ReceivedType, StepTypes DEF GetAddress
<1>2. phase = "addr"
  <2>1. phase # "data" /\ phase \in {"cmd", "addr", "data"}
    BY <1>1, StepTypes DEF Sent, ReadyFor
  <2>2. phase = "cmd" => Len(Datagram(phase, next)) = 2
    BY StepTypes, DatagramBytes
  <2> QED
    BY <1>1, <2>1, <2>2, SentReceived
<1>3. Datagram(phase, next) = Address(next) /\ next \in Block /\ next \in Nat
  BY <1>2, StepTypes DEF Datagram
<1>4. Received = Address(next) /\ Len(Received) = 5
  <2>1. Len(Datagram(phase, next)) = 5
    BY <1>3, AddressBytes
  <2>2. Len(Received) <= Len(Datagram(phase, next))
        /\ (Len(Received) = Len(Datagram(phase, next)) => Received = Datagram(phase, next))
    BY SentReceived
  <2> DEFINE n == Len(Received)
  <2>3. n <= 5 /\ n >= 5 /\ n \in Nat
    BY <1>1, <2>1, <2>2
  <2>4. n = 5
    <3> HIDE DEF n
    <3> QED
      BY <2>3
  <2> QED
    BY <1>3, <2>1, <2>2, <2>4
<1>5. Starts(Address(next))
  BY <1>3, <1>4, AddressBytes, PrefixOfSelf DEF Starts
<1>6. ASSUME NEW b \in Block, Starts(Address(b)) PROVE b = next
  <2>1. b \in Nat
    BY <1>6 DEF Block
  <2>2. Address(b) \in Seq(Byte) /\ Address(b) # <<>>
    BY <2>1, AddressBytes
  <2>3. Address(b)[1] = Received[1]
    BY <1>6, <2>2, ReceivedType, PrefixFirst DEF Starts
  <2> QED
    BY <1>3, <1>4, <2>1, <2>3, AddressBytes
<1>7. Round(5, "len") /\ Reply("ack") /\ start_addr' = next
  BY <1>3, <1>5, <1>6 DEF GetAddress, TakeAddress
<1>8. ring' = <<>>
  BY <1>4, <1>7, RoundEmpties DEF Stage
<1>9. stage' = "len" /\ up' = <<>>
  BY <1>7, SentReceived DEF Round
<1> QED
  BY <1>1, <1>2, <1>7, <1>8, <1>9 DEF GetAddress

(* A length that begins a datagram of data is taken, and so is what follows; *)
(* the first byte of a command ends the step.                                *)
LEMMA SentLengthTaken ==
  ASSUME LinkInv, InStep, waiting, Sent, GetLength
  PROVE  NoReply /\ UNCHANGED <<start_addr, long_data, flash>> /\ up' = <<>>
           /\ \/ phase = "cmd" /\ stage' = "cmd" /\ Len(ring') < 2
              \/ /\ phase = "data" /\ stage' = "data" /\ start_addr = next
                 /\ ring' # <<>> /\ (Len(ring') <= DataLen \/ ring' = Data(next))
                 /\ BuffSize >= 5
<1>1. /\ stage = "len" /\ Received # <<>> /\ Received \in Seq(Byte)
      /\ Len(Received) \in Nat /\ 1 <= Len(Received) /\ BuffSize >= 5
      /\ next \in Nat /\ next \in Block /\ phase \in {"cmd", "data"}
  BY ReceivedType, EmptySeq, StepTypes DEF GetLength, InStep, Sent, ReadyFor
<1>2. NoReply /\ UNCHANGED <<start_addr, long_data, flash>> /\ up' = <<>>
  BY SentReceived DEF GetLength, KeepData, Round
<1>3. ASSUME NEW st \in Stage, Round(1, st)
      PROVE  ring' = SubSeq(Received, 2, Len(Received)) /\ Len(ring') = Len(Received) - 1
  <2>1. Len(ring') = Len(Received) - 1
    BY <1>1, <1>3, RoundType
  <2> QED
    BY <1>3, <2>1 DEF Round
<1>4. CASE phase = "cmd"
  <2>1. Datagram(phase, next) = Command
    BY <1>4 DEF Datagram
  <2>2. Len(Received) <= 2 /\ Received[1] = <<"cmd", 0, 1>>
    BY <1>1, <2>1, SentReceived, CommandBytes
  <2>3. ASSUME NEW b \in Block, Starts(<<LengthByte(b)>>) PROVE FALSE
    <3>1. <<LengthByte(b)>> \in Seq(Byte) /\ <<LengthByte(b)>> # <<>>
      BY LengthBytes DEF Block
    <3>2. <<LengthByte(b)>>[1] = Received[1]
      BY <2>3, <3>1, <1>1, PrefixFirst DEF Starts
    <3> QED
      BY <2>2, <3>2 DEF LengthByte
  <2>4. Round(1, "cmd")
    BY <2>3 DEF GetLength
  <2>5. Len(ring') < 2 /\ stage' = "cmd"
    BY <1>1, <1>3, <2>2, <2>4 DEF Stage, Round
  <2> QED
    BY <1>2, <1>4, <2>5
<1>5. CASE phase = "data"
  <2>1. /\ Datagram(phase, next) = <<LengthByte(next)>> \o Data(next)
        /\ Len(Datagram(phase, next)) = DataLen + 2
        /\ LengthByte(next) \in Byte /\ Data(next) \in Seq(Byte) /\ Len(Data(next)) = DataLen + 1
    BY <1>1, <1>5, DatagramBytes, DataBytes DEF Datagram, LengthByte, Byte
  <2>2. Datagram(phase, next)[1] = LengthByte(next)
    BY <2>1, ConcatProperties
  <2>3. Received[1] = LengthByte(next)
    BY <1>1, <2>2, SentReceived
  <2>4. Starts(<<LengthByte(next)>>)
    BY <1>1, <2>3, PrefixOne DEF Starts
  <2>5. Round(1, "data")
    BY <1>1, <2>4 DEF GetLength
  <2>6. ring' = SubSeq(Received, 2, Len(Received)) /\ Len(ring') = Len(Received) - 1
        /\ stage' = "data" /\ start_addr = next
    BY <1>3, <1>5, <2>5 DEF Stage, Round, Sent, ReadyFor
  <2>7. DataLen \in Nat \ {0} /\ BuffSize \in Nat
    BY StepTypes
  <2>8. Len(Received) >= 3
    BY <1>1, <2>1, <2>7, SentReceived
  <2>9. ring' # <<>>
    <3>1. Len(ring') = Len(Received) - 1 /\ Len(Received) \in Nat
      BY <1>1, <2>6
    <3>2. Len(ring') >= 2
      BY <2>8, <3>1
    <3> QED
      BY <3>2
  <2>10. Len(ring') <= DataLen \/ ring' = Data(next)
    <3>1. CASE Len(Received) = DataLen + 2
      <4>1. Received = <<LengthByte(next)>> \o Data(next)
        BY <2>1, <3>1, SentReceived
      <4> QED
        BY <2>1, <2>6, <4>1, BehindFirst
    <3>2. CASE Len(Received) # DataLen + 2
      BY <1>1, <2>1, <2>6, <2>7, <3>2, SentReceived
    <3> QED
      BY <3>1, <3>2
  <2> QED
    BY <1>1, <1>2, <1>5, <2>6, <2>9, <2>10
<1> QED
  BY <1>1, <1>4, <1>5

LEMMA SentStep ==
  ASSUME LinkInv, InStep, waiting, Sent, DeviceRound
  PROVE  InStep' /\ UNCHANGED <<next, flash, patient>>
<1>1. /\ UNCHANGED <<next, phase, waiting, patient>> /\ next \in Block
      /\ phase \in {"cmd", "addr", "data"} /\ down = <<>>
      /\ stage \in {"cmd", "addr", "len"} /\ up # <<>>
      /\ left.slow = 0 /\ OnePause
      /\ stage \in {"len", "data"} => BuffSize >= 5
  BY SentReceived, StepTypes DEF DeviceRound, hostVars, InStep, Sent, ReadyFor
<1> SUFFICES /\ left' = left /\ flash' = flash
             /\ stage' \in {"len", "data"} => BuffSize >= 5
             /\ AtWork' \/ Answered'
  BY <1>1 DEF InStep, OnePause, LoadedSoFar
<1>2. CASE GetCommand
  BY <1>1, <1>2, SentCommandTaken DEF NoReply, AtWork, AtCommand
<1>3. CASE GetAddress
  <2>1. left' = left /\ down' = <<"ack">>
    BY <1>1, <1>3, SentAddressTaken DEF Reply
  <2> QED
    BY <1>1, <1>3, <2>1, SentAddressTaken DEF Answered
<1>4. CASE GetLength
  BY <1>1, <1>4, SentLengthTaken DEF NoReply, AtWork, AtCommand, AtData, Data, Bytes
<1>5. CASE GetMore
  <2>1. Round(0, stage) /\ NoReply /\ KeepData /\ Len(Received) < Needed
        /\ Len(Received) \in Nat
    BY <1>5, ReceivedType DEF GetMore
  <2>2. stage \in Stage
    BY StepTypes
  <2>3. ring' \in Seq(Byte) /\ Len(ring') = Len(Received) /\ stage' = stage /\ up' = <<>>
    <3>1. Len(ring') = Len(Received) - 0 /\ ring' \in Seq(Byte)
      BY <2>1, <2>2, RoundType
    <3> QED
      BY <2>1, <3>1, SentReceived DEF Round
  <2>4. (stage = "cmd" => Len(ring') < 2) /\ (stage = "addr" => Len(ring') < 5)
        /\ (stage = "len" => ring' = <<>>)
    BY <2>1, <2>3, EmptySeq DEF Needed
  <2>5. (phase = "cmd" => stage \in {"cmd", "addr", "len"})
        /\ (phase = "addr" => stage = "addr") /\ (phase = "data" => stage = "len")
    BY DEF Sent, ReadyFor
  <2> QED
    BY <1>1, <2>1, <2>3, <2>4, <2>5
       DEF NoReply, KeepData, AtWork, AtCommand, AtAddress, AtData
<1>6. ~UnknownCommand /\ ~AckCommand /\ ~GetData /\ ~WriteFlash /\ ~FlowBreak
  BY <1>1 DEF UnknownCommand, AckCommand, GetData, WriteFlash, FlowBreak
<1> QED
  BY <1>2, <1>3, <1>4, <1>5, <1>6 DEF DeviceRound

(* What is written is the block the host is at, at its own place.            *)
LEMMA WorkStep ==
  ASSUME LinkInv, InStep, waiting, AtWork, DeviceRound
  PROVE  /\ InStep' /\ UNCHANGED <<next, patient>>
         /\ flash' = flash \/ flash' = [flash EXCEPT ![next] = next]
<1>1. /\ UNCHANGED <<next, phase, waiting, patient>> /\ next \in Block
      /\ phase \in {"cmd", "addr", "data"} /\ down = <<>> /\ up = <<>>
      /\ left.slow = 0 /\ OnePause /\ LoadedSoFar
      /\ stage \in {"len", "data"} => BuffSize >= 5
  BY StepTypes DEF DeviceRound, hostVars, InStep, AtWork
<1>2. Received = ring /\ Len(ring) \in Nat /\ DataLen \in Nat
  BY <1>1, ReceivedType, StepTypes
<1>3. ASSUME NEW n \in Nat, NEW st, Round(n, st) PROVE up' = <<>> /\ stage' = st
  BY <1>1, <1>3 DEF Round
<1>4. CASE AckCommand
  <2>1. stage = "ack" /\ Round(0, "addr") /\ Reply("ack") /\ KeepData
    BY <1>4 DEF AckCommand
  <2>2. phase = "cmd" /\ ring = <<>>
    BY <1>1, <2>1 DEF AtWork, AtCommand, AtAddress, AtData
  <2>3. ring' = <<>>
    <3>1. Len(Received) = 0 /\ "addr" \in Stage
      BY <1>2, <2>2 DEF Stage
    <3> QED
      BY <2>1, <3>1, RoundEmpties
  <2>4. up' = <<>> /\ stage' = "addr" /\ down' = <<"ack">> /\ left' = left /\ flash' = flash
    BY <1>1, <1>3, <2>1 DEF Reply, KeepData
  <2> QED
    BY <1>1, <2>2, <2>3, <2>4 DEF InStep, OnePause, Answered, LoadedSoFar
<1>5. CASE GetData
  <2>1. stage = "data" /\ Len(ring) >= DataLen + 1
    BY <1>2, <1>5 DEF GetData
  <2>2. phase = "data" /\ start_addr = next /\ ring = Data(next)
    BY <1>1, <1>2, <2>1 DEF AtWork, AtCommand, AtAddress, AtData
  <2>3. next \in Nat
    BY StepTypes
  <2>4. Starts(Data(next)) /\ Len(ring) = DataLen + 1
    BY <1>2, <2>2, <2>3, DataBytes, PrefixOfSelf DEF Starts
  <2>5. ASSUME NEW b \in Block, Starts(Data(b)) PROVE b = next
    <3>1. b \in Nat
      BY <2>5 DEF Block
    <3>2. Data(b) \in Seq(Byte) /\ Len(Data(b)) = DataLen + 1 /\ Data(b)[1] = <<"data", b, 1>>
      BY <3>1, DataBytes
    <3>3. Data(b) # <<>>
      BY <1>2, <3>2, EmptySeq
    <3>4. Data(b)[1] = Received[1]
      BY <2>5, <3>2, <3>3, ReceivedType, PrefixFirst DEF Starts
    <3> QED
      BY <1>2, <2>2, <2>3, <3>2, <3>4, DataBytes
  <2>6. /\ long_data' = next /\ Round(DataLen + 1, "flash") /\ NoReply
        /\ UNCHANGED <<start_addr, flash>>
    BY <1>1, <1>5, <2>4, <2>5 DEF GetData, AnswerToData
  <2>7. ring' = <<>>
    <3>1. DataLen + 1 \in Nat /\ DataLen + 1 = Len(Received) /\ "flash" \in Stage
      BY <1>2, <2>4 DEF Stage
    <3> QED
      BY <2>6, <3>1, RoundEmpties
  <2>8. up' = <<>> /\ stage' = "flash" /\ down' = <<>> /\ left' = left
    BY <1>1, <1>2, <1>3, <2>6 DEF NoReply
  <2> QED
    BY <1>1, <2>2, <2>6, <2>7, <2>8 DEF InStep, OnePause, AtWork, AtData, LoadedSoFar
<1>6. CASE WriteFlash
  <2>1. stage = "flash" /\ phase = "data" /\ start_addr = next /\ long_data = next /\ ring = <<>>
    BY <1>1, <1>6 DEF WriteFlash, AtWork, AtCommand, AtAddress, AtData
  <2>2. /\ flash' = [flash EXCEPT ![next] = next] /\ stage' = "cmd"
        /\ up' = <<>> /\ ring' = <<>> /\ down' = <<"ack">> /\ left' = left
    BY <1>1, <1>6, <2>1 DEF WriteFlash, Reply
  <2>3. flash \in [Block -> Block \cup {Nothing}]
    BY DEF LinkInv, LinkTypeOK
  <2>4. flash'[next] = next /\ \A b \in Block : b # next => flash'[b] = flash[b]
    BY <1>1, <2>2, <2>3
  <2>5. LoadedSoFar'
    BY <1>1, <2>4 DEF LoadedSoFar
  <2> QED
    BY <1>1, <2>1, <2>2, <2>4, <2>5 DEF InStep, OnePause, Answered
<1>7. CASE FlowBreak
  <2>1. ring' = <<>> /\ stage' = "cmd" /\ UNCHANGED <<up, down>> /\ UNCHANGED left
        /\ UNCHANGED flash
    BY <1>1, <1>7 DEF FlowBreak, GiveUp, KeepData, Spend
  <2>2. Len(ring') = 0
    BY <2>1
  <2> QED
    BY <1>1, <2>1, <2>2 DEF InStep, OnePause, AtWork, AtCommand, AtAddress, AtData, LoadedSoFar
<1>8. ~GetCommand /\ ~UnknownCommand /\ ~GetAddress /\ ~GetLength /\ ~GetMore
  <2>1. ~GetMore /\ ~UnknownCommand
    BY <1>1 DEF GetMore, UnknownCommand, AtWork, AtCommand, AtAddress, AtData
  <2>2. Len(<<>>) = 0
    OBVIOUS
  <2>3. stage = "cmd" => Len(ring) < 2
    BY <1>1, <2>2 DEF AtWork, AtCommand, AtAddress, AtData
  <2>4. stage = "addr" => Len(ring) < 5
    BY <1>1, <2>2 DEF AtWork, AtCommand, AtAddress, AtData
  <2>5. stage = "len" => ring = <<>>
    BY <1>1 DEF AtWork, AtCommand, AtAddress, AtData
  <2> QED
    BY <1>2, <2>1, <2>3, <2>4, <2>5 DEF GetCommand, GetAddress, GetLength
<1> QED
  BY <1>4, <1>5, <1>6, <1>7, <1>8 DEF DeviceRound

LEMMA SendStep ==
  ASSUME LinkInv, InStep, HostSend
  PROVE  InStep' /\ UNCHANGED <<next, flash>>
<1>1. /\ ~waiting /\ Idle /\ waiting' = TRUE /\ UNCHANGED <<next, phase, deviceVars, left>>
      /\ MaxSockPbuf \in Nat \ {0}
  BY LinkAssumption DEF HostSend, InStep
<1>2. up' = <<Datagram(phase, next)>>
  <2>1. up = <<>> /\ Len(<<>>) = 0
    BY <1>1 DEF Idle
  <2>2. Len(up) < MaxSockPbuf
    BY <1>1, <2>1
  <2> QED
    BY <2>1, <2>2 DEF HostSend
<1>3. down' = <<>>
  <2>1. down = <<>> /\ Len(<<>>) = 0
    BY <1>1 DEF Idle
  <2>2. PICK n \in 0 .. Len(down) : down' = SubSeq(down, n + 1, Len(down))
    BY DEF HostSend
  <2>3. n = 0
    BY <2>1, <2>2
  <2> QED
    BY <2>1, <2>2, <2>3, SubSeqEmpty
<1>4. Datagram(phase, next)' = Datagram(phase, next)
  BY <1>1 DEF Datagram, Data, Bytes
<1>5. Sent'
  BY <1>1, <1>2, <1>3, <1>4 DEF Sent, Idle, ReadyFor, deviceVars
<1> QED
  BY <1>1, <1>5 DEF InStep, OnePause, LoadedSoFar, deviceVars

(* The host goes on only with the answer to what it sent.                    *)
LEMMA RecvStep ==
  ASSUME LinkInv, InStep, HostRecv
  PROVE  /\ InStep' /\ UNCHANGED flash
         /\ next' = next \/ (next' = next + 1 /\ flash[next] = next)
<1>1. /\ waiting /\ down # <<>> /\ down' = Tail(down) /\ UNCHANGED <<up, deviceVars, left>>
      /\ phase \in {"cmd", "addr", "data"} /\ next \in Block
  BY StepTypes DEF HostRecv
<1>2. Answered
  BY <1>1 DEF InStep, Sent, AtWork
<1>3. Head(down) = "ack" /\ down' = <<>>
  BY <1>1, <1>2 DEF Answered
<1>4. /\ phase' = CASE phase = "cmd" -> "addr" [] phase = "addr" -> "data"
                    [] phase = "data" -> "cmd"
      /\ next' = (IF phase = "data" THEN next + 1 ELSE next) /\ waiting' = FALSE
  BY <1>3 DEF HostRecv, Confirmed
<1>5. Idle'
  BY <1>1, <1>2, <1>3, <1>4 DEF Idle, ReadyFor, Answered, deviceVars
<1>6. LoadedSoFar'
  <2>1. phase = "data" => flash[next] = next
    BY <1>2 DEF Answered
  <2> QED
    BY <1>1, <1>4, <2>1 DEF InStep, LoadedSoFar, Block, deviceVars
<1> QED
  BY <1>1, <1>2, <1>4, <1>5, <1>6 DEF InStep, OnePause, Answered, deviceVars

(* Nobody answers any more, and the bootloader has given up or not begun.    *)
LEMMA TimeoutStep ==
  ASSUME LinkInv, InStep, HostTimeout
  PROVE  InStep' /\ UNCHANGED <<next, flash>>
<1>1. /\ waiting /\ down = <<>> /\ TryAgain /\ UNCHANGED <<up, down, deviceVars>>
      /\ phase \in {"cmd", "addr", "data"}
      /\ left.slow = 0 /\ OnePause
  BY StepTypes DEF HostTimeout, InStep
<1>2. up = <<>> /\ ring = <<>> /\ stage \in {"cmd", "addr", "len", "data"} /\ UNCHANGED left
  BY <1>1 DEF HostTimeout, Spend
<1>3. AtWork
  BY <1>1, <1>2 DEF InStep, Sent, Answered
<1>4. stage # "data"
  BY <1>1, <1>2, <1>3 DEF AtWork, AtCommand, AtAddress, AtData
<1>5. phase' \in {"cmd", "exit"} /\ waiting' = FALSE /\ next' = next
  BY <1>1 DEF TryAgain, whileBreaker
<1>6. Idle'
  BY <1>1, <1>2, <1>4, <1>5 DEF Idle, ReadyFor, deviceVars
<1> QED
  BY <1>1, <1>2, <1>5, <1>6 DEF InStep, OnePause, LoadedSoFar, deviceVars

LEMMA LossStep ==
  ASSUME LinkInv, InStep, LoseDatagram
  PROVE  InStep' /\ UNCHANGED <<next, flash, patient>>
<1>1. /\ UNCHANGED <<next, phase, waiting, patient, ring, stage, start_addr, long_data, flash>>
      /\ left'.slow = left.slow /\ left'.pause = left.pause
  <2>1. left \in [{"loss", "slow", "pause"} -> Nat]
    BY DEF LinkInv, LinkTypeOK
  <2>2. left' = [left EXCEPT !["loss"] = @ - 1]
    BY DEF LoseDatagram, Spend
  <2> QED
    BY <2>1, <2>2 DEF LoseDatagram, hostVars, deviceVars
<1>2. waiting /\ up' = <<>> /\ down' = <<>> /\ (Sent \/ Answered)
  <2>1. up \in Seq(Seq(Byte)) /\ down \in Seq({"ack", "nack"})
    BY DEF LinkInv, LinkTypeOK
  <2>2. CASE \E i \in DOMAIN up : up' = Without(up, i) /\ UNCHANGED down
    <3>1. PICK i \in DOMAIN up : up' = Without(up, i) /\ UNCHANGED down
      BY <2>2
    <3>2. up # <<>>
      BY <2>1, <3>1
    <3>3. waiting /\ Sent
      BY <3>2 DEF InStep, Idle, AtWork, Answered
    <3>4. Len(up) = 1 /\ down = <<>>
      BY <3>3 DEF Sent
    <3>5. up' \in Seq(Seq(Byte)) /\ Len(up') = 0
      <4>1. Without(up, i) \in Seq(Seq(Byte)) /\ Len(Without(up, i)) = Len(up) - 1
        BY <2>1, <3>1, WithoutType
      <4> QED
        BY <3>1, <3>4, <4>1
    <3> QED
      BY <3>1, <3>3, <3>4, <3>5, EmptySeq
  <2>3. CASE \E i \in DOMAIN down : down' = Without(down, i) /\ UNCHANGED up
    <3>1. PICK i \in DOMAIN down : down' = Without(down, i) /\ UNCHANGED up
      BY <2>3
    <3>2. down # <<>>
      BY <2>1, <3>1
    <3>3. waiting /\ Answered
      BY <3>2 DEF InStep, Idle, AtWork, Sent
    <3>4. Len(down) = 1 /\ up = <<>>
      BY <3>3 DEF Answered
    <3>5. down' \in Seq({"ack", "nack"}) /\ Len(down') = 0
      <4>1. Without(down, i) \in Seq({"ack", "nack"}) /\ Len(Without(down, i)) = Len(down) - 1
        BY <2>1, <3>1, WithoutType
      <4> QED
        BY <3>1, <3>4, <4>1
    <3> QED
      BY <3>1, <3>3, <3>4, <3>5, EmptySeq
  <2> QED
    BY <2>2, <2>3 DEF LoseDatagram
<1>3. AtWork'
  <2>1. ring = <<>> /\ Len(<<>>) = 0
    BY <1>2 DEF Sent, Answered
  <2>2. phase = "cmd" => stage \in {"cmd", "addr", "len"}
    BY <1>2 DEF Sent, Answered, ReadyFor
  <2>3. phase = "addr" => stage \in {"addr", "len"}
    BY <1>2 DEF Sent, Answered, ReadyFor
  <2>4. phase = "data" => stage \in {"len", "cmd"}
    BY <1>2 DEF Sent, Answered, ReadyFor
  <2> QED
    BY <1>1, <1>2, <2>1, <2>2, <2>3, <2>4 DEF AtWork, AtCommand, AtAddress, AtData
<1> QED
  BY <1>1, <1>2, <1>3 DEF InStep, OnePause, LoadedSoFar

-----------------------------------------------------------------------------
(* Behind the pause. *)

LEMMA OddLength ==
  ASSUME NEW m
  PROVE  m \in {1, 3, 5} <=> m = 1 \/ m = 3 \/ m = 5
BY Zenon

LEMMA BehindTwo ==
  ASSUME NEW s \in Seq(Byte), Len(s) \in {3, 5}, NoCommand(s)
  PROVE  /\ SubSeq(s, 3, Len(s)) \in Seq(Byte) /\ Len(SubSeq(s, 3, Len(s))) = Len(s) - 2
         /\ NoCommand(SubSeq(s, 3, Len(s)))
<1> DEFINE t == SubSeq(s, 3, Len(s))
<1>1. \A i \in 3 .. Len(s) : s[i] \in Byte
  OBVIOUS
<1>2. /\ t \in Seq(Byte) /\ Len(t) = (IF 3 <= Len(s) THEN Len(s) - 3 + 1 ELSE 0)
      /\ \A i \in 1 .. Len(s) - 3 + 1 : t[i] = s[3 + i - 1]
  BY <1>1, SubSeqProperties
<1> HIDE DEF t
<1>3. Len(t) = Len(s) - 2 /\ Len(t) \in {1, 3}
  <2>1. CASE Len(s) = 3
    BY <1>2, <2>1
  <2>2. CASE Len(s) = 5
    BY <1>2, <2>2
  <2> QED
    BY <2>1, <2>2
<1>4. \A i \in {1, 3} : i <= Len(t) => t[i] = s[i + 2]
  BY <1>2, <1>3
<1>5. NoCommand(t)
  BY <1>3, <1>4 DEF NoCommand
<1> QED
  BY <1>2, <1>3, <1>5 DEF t

LEMMA NoCommandStarts ==
  ASSUME LinkInv, NoCommand(Received)
  PROVE  ~Starts(Command)
<1> SUFFICES ASSUME Starts(Command) PROVE FALSE
  OBVIOUS
<1>1. Command # <<>>
  BY CommandBytes, EmptySeq
<1>2. Received # <<>> /\ Received[1] = <<"cmd", 0, 1>>
  BY <1>1, ReceivedType, CommandBytes, PrefixFirst DEF Starts
<1>3. 1 <= Len(Received)
  BY <1>2, ReceivedType, EmptySeq
<1> QED
  BY <1>2, <1>3 DEF NoCommand

(* All of the bytes that are left over and of the next command fit the queue. *)
LEMMA LeftoverReceived ==
  ASSUME LinkInv, Leftover, BuffSize >= 5
  PROVE  /\ Received \in Seq(Byte) /\ Len(Received) \in Nat /\ Len(ring) \in Nat
         /\ Len(Received) \in {1, 3, 5} /\ NoCommand(Received)
         /\ up = <<>> => Len(Received) = Len(ring)
         /\ up # <<>> => /\ Len(Received) = Len(ring) + 2
                         /\ Tail(up) \in Seq({Command}) /\ Len(Tail(up)) = Len(up) - 1
<1>1. /\ ring \in Seq(Byte) /\ Len(ring) \in Nat /\ Len(ring) \in {1, 3, 5} /\ NoCommand(ring)
      /\ up \in Seq({Command}) /\ Len(up) \in Nat /\ Len(down) \in Nat
      /\ Len(ring) + 2 * Len(up) + 2 * Len(down) <= 5
      /\ Received \in Seq(Byte) /\ Len(Received) \in Nat
  BY ReceivedType DEF Leftover, LinkInv
<1>2. CASE up = <<>>
  BY <1>1, <1>2, ReceivedType
<1>3. CASE up # <<>>
  <2>1. /\ Head(up) = Command /\ Tail(up) \in Seq({Command}) /\ Len(Tail(up)) = Len(up) - 1
        /\ Len(up) >= 1
    BY <1>1, <1>3, HeadTailProperties, EmptySeq
  <2>2. Len(ring) <= 3
    BY <1>1, <2>1
  <2>3. BuffSize \in Nat
    BY LinkAssumption
  <2>4. Fitting(Command) = Command
    <3>1. Len(Command) <= BuffSize - Len(ring)
      BY <1>1, <2>2, <2>3, CommandBytes
    <3> QED
      BY <3>1, CommandBytes, FittingType
  <2>5. Received = ring \o Command
    BY <1>3, <2>1, <2>4 DEF Received
  <2>6. /\ Len(Received) = Len(ring) + 2
        /\ \A i \in 1 .. Len(ring) + 2 :
             Received[i] = IF i <= Len(ring) THEN ring[i] ELSE Command[i - Len(ring)]
    <3>1. Command \in Seq(Byte) /\ Len(Command) = 2
      BY CommandBytes
    <3>2. /\ Len(ring \o Command) = Len(ring) + Len(Command)
          /\ \A i \in 1 .. Len(ring) + Len(Command) :
               (ring \o Command)[i] = IF i <= Len(ring) THEN ring[i] ELSE Command[i - Len(ring)]
      BY <1>1, <3>1, ConcatProperties
    <3> QED
      BY <2>5, <3>1, <3>2
  <2>7. \A i \in {1, 3, 5} : i <= Len(ring) + 2 =>
          \/ i <= Len(ring) /\ Received[i] = ring[i]
          \/ i = Len(ring) + 2 /\ Received[i] = Command[2]
    <3>1. CASE Len(ring) = 1
      BY <2>6, <3>1
    <3>2. CASE Len(ring) = 3
      BY <2>6, <3>2
    <3>3. CASE Len(ring) = 5
      BY <2>6, <3>3
    <3> QED
      BY <1>1, <3>1, <3>2, <3>3, OddLength
  <2>8. NoCommand(Received)
    <3>1. Command[2] # <<"cmd", 0, 1>>
      BY CommandBytes
    <3>2. \A i \in {1, 3, 5} : i <= Len(ring) => ring[i] # <<"cmd", 0, 1>>
      BY <1>1 DEF NoCommand
    <3>3. Len(Received) = Len(ring) + 2
      BY <2>6
    <3> QED
      BY <2>7, <3>1, <3>2, <3>3 DEF NoCommand
  <2>9. Len(Received) \in {1, 3, 5}
    <3>1. Len(ring) = 1 \/ Len(ring) = 3 \/ Len(ring) = 5
      BY <1>1, OddLength
    <3>2. Len(ring) # 5
      BY <2>2
    <3>3. CASE Len(ring) = 1
      BY <2>6, <3>3, OddLength
    <3>4. CASE Len(ring) = 3
      BY <2>6, <3>4, OddLength
    <3> QED
      BY <3>1, <3>2, <3>3, <3>4
  <2> QED
    BY <1>1, <1>3, <2>1, <2>6, <2>8, <2>9
<1> QED
  BY <1>2, <1>3

(* A round keeps an odd number of bytes with no command at its odd places.   *)
LEMMA LeftoverRound ==
  ASSUME LinkInv, Leftover, BuffSize >= 5, NEW n \in {0, 2}, n < Len(Received),
         NEW st, Round(n, st)
  PROVE  /\ Len(ring') \in {1, 3, 5} /\ NoCommand(ring') /\ up' \in Seq({Command})
         /\ Len(ring') + 2 * Len(up') = Len(ring) + 2 * Len(up) - n
         /\ stage' = st
<1>1. /\ Received \in Seq(Byte) /\ Len(Received) \in Nat
      /\ Len(Received) \in {1, 3, 5} /\ NoCommand(Received)
  BY LeftoverReceived
<1>2. ring' = SubSeq(Received, n + 1, Len(Received)) /\ stage' = st
      /\ up' = (IF up = <<>> THEN up ELSE Tail(up))
  BY DEF Round
<1>3. Len(ring') = Len(Received) - n /\ NoCommand(ring')
  <2>1. CASE n = 0
    <3>1. ring' = Received
      BY <1>1, <1>2, <2>1, SubSeqFull
    <3> QED
      BY <1>1, <2>1, <3>1
  <2>2. CASE n = 2
    <3>1. Len(Received) = 1 \/ Len(Received) = 3 \/ Len(Received) = 5
      BY <1>1, OddLength
    <3>2. Len(Received) \in {3, 5}
      BY <2>2, <3>1
    <3>3. ring' = SubSeq(Received, 3, Len(Received))
      BY <1>2, <2>2
    <3> QED
      BY <1>1, <2>2, <3>2, <3>3, BehindTwo
  <2> QED
    BY <2>1, <2>2
<1>4. up' \in Seq({Command}) /\ Len(Received) + 2 * Len(up') = Len(ring) + 2 * Len(up)
  <2>1. up \in Seq({Command}) /\ Len(up) \in Nat /\ Len(ring) \in Nat
    BY LeftoverReceived DEF Leftover
  <2>2. CASE up = <<>>
    BY <1>2, <2>1, <2>2, LeftoverReceived
  <2>3. CASE up # <<>>
    <3>1. up' \in Seq({Command}) /\ Len(up') = Len(up) - 1 /\ Len(Received) = Len(ring) + 2
      BY <1>2, <2>3, LeftoverReceived
    <3>2. Len(ring) + 2 + 2 * (Len(up) - 1) = Len(ring) + 2 * Len(up)
      BY <2>1
    <3> QED
      BY <3>1, <3>2
  <2> QED
    BY <2>2, <2>3
<1>5. Len(ring') \in {1, 3, 5}
  <2>1. CASE n = 0
    BY <1>1, <1>3, <2>1
  <2>2. CASE n = 2
    <3>1. Len(Received) = 1 \/ Len(Received) = 3 \/ Len(Received) = 5
      BY <1>1, OddLength
    <3> QED
      BY <1>3, <2>2, <3>1
  <2> QED
    BY <2>1, <2>2
<1>6. Len(ring') + 2 * Len(up') = Len(ring) + 2 * Len(up) - n
  <2> DEFINE r == Len(Received)
             u == 2 * Len(up')
             t == Len(ring) + 2 * Len(up)
  <2>1. r \in Nat /\ u \in Nat /\ r + u = t /\ Len(ring') = r - n
    <3>1. Len(up') \in Nat
      BY <1>4
    <3> QED
      BY <1>1, <1>3, <1>4, <3>1
  <2> HIDE DEF r, u, t
  <2>2. Len(ring') + u = t - n
    BY <2>1
  <2> QED
    BY <2>2 DEF u, t
<1> QED
  BY <1>2, <1>3, <1>4, <1>5, <1>6

(* The address that comes where a command is expected is refused, and three  *)
(* bytes of it are left over.                                                *)
LEMMA GivenUpStep ==
  ASSUME LinkInv, OutOfStep, GivenUp, DeviceRound
  PROVE  OutOfStep' /\ UNCHANGED <<next, flash, patient>>
<1>1. /\ UNCHANGED <<next, phase, waiting, patient>> /\ phase = "addr" /\ stage = "cmd"
      /\ ring = <<>> /\ down = <<>> /\ up = (IF waiting THEN <<Address(next)>> ELSE <<>>)
      /\ left.slow = 0 /\ left.pause = 0 /\ BuffSize >= 5 /\ LoadedSoFar
      /\ next \in Nat /\ BuffSize \in Nat
  BY StepTypes DEF DeviceRound, hostVars, OutOfStep, GivenUp
<1>2. Len(ring) = 0
  BY <1>1
<1>3. waiting
  <2> SUFFICES ASSUME ~waiting PROVE FALSE
    OBVIOUS
  <2>1. up = <<>> /\ Received = <<>> /\ Len(Received) = 0
    BY <1>1, ReceivedType
  <2> QED
    BY <1>1, <2>1 DEF DeviceRound, GetCommand, UnknownCommand, AckCommand, GetAddress,
                      GetLength, GetData, WriteFlash, GetMore, FlowBreak
<1>4. /\ Address(next) \in Seq(Byte) /\ Len(Address(next)) = 5
      /\ Address(next)[1] = <<"addr", next, 1>>
      /\ \A i \in {1, 3, 5} : Address(next)[i] = <<"addr", next, i>>
  BY <1>1, AddressBytes DEF Address, Bytes
<1>5. up # <<>> /\ Head(up) = Address(next) /\ Tail(up) = <<>>
  BY <1>1, <1>3
<1>6. Received = Address(next)
  <2>1. Len(Address(next)) <= BuffSize - Len(ring)
    BY <1>1, <1>2, <1>4
  <2>2. Fitting(Address(next)) = Address(next)
    BY <1>4, <2>1, FittingType
  <2> QED
    BY <1>1, <1>5, <2>2, ReceivedType
<1>7. Len(Received) = 5 /\ NoCommand(Received)
  BY <1>4, <1>6 DEF NoCommand
<1>8. ~Starts(Command)
  BY <1>7, NoCommandStarts
<1>9. ~Starts(Swapped)
  <2> SUFFICES ASSUME Starts(Swapped) PROVE FALSE
    OBVIOUS
  <2>1. Swapped[1] = Received[1]
    BY SwappedBytes, ReceivedType, PrefixFirst DEF Starts
  <2> QED
    BY <1>4, <1>6, <2>1, SwappedBytes
<1>10. GetCommand
  <2>1. ~GetMore
    BY <1>1, <1>7 DEF GetMore, Needed
  <2>2. ~FlowBreak
    BY <1>5 DEF FlowBreak
  <2> QED
    BY <1>1, <2>1, <2>2 DEF DeviceRound, UnknownCommand, AckCommand, GetAddress,
                            GetLength, GetData, WriteFlash
<1>11. Round(2, "cmd") /\ Reply("nack") /\ KeepData
  BY <1>8, <1>9, <1>10 DEF GetCommand
<1>12. /\ Len(ring') = 3 /\ NoCommand(ring') /\ up' = <<>> /\ stage' = "cmd"
       /\ down' = <<"nack">> /\ left' = left /\ flash' = flash
  <2>1. ring' = SubSeq(Received, 3, Len(Received)) /\ up' = <<>> /\ stage' = "cmd"
    BY <1>5, <1>11 DEF Round
  <2>2. Len(ring') = 3 /\ NoCommand(ring')
    <3>1. /\ Len(SubSeq(Received, 3, Len(Received))) = Len(Received) - 2
          /\ NoCommand(SubSeq(Received, 3, Len(Received)))
      BY <1>7, ReceivedType, BehindTwo
    <3> QED
      BY <1>7, <2>1, <3>1
  <2> QED
    BY <1>1, <1>11, <2>1, <2>2 DEF Reply, KeepData
<1>13. Leftover'
  <2>1. up' \in Seq({Command}) /\ Len(up') = 0
    BY <1>12
  <2>2. down' \in Seq({"nack"}) /\ Len(down') = 1
    BY <1>12
  <2> QED
    BY <1>1, <1>3, <1>12, <2>1, <2>2 DEF Leftover
<1> QED
  BY <1>1, <1>12, <1>13 DEF OutOfStep, LoadedSoFar

(* Bytes left over are refused or taken for a command swapped, until one is  *)
(* left, with which the queue is cleared.                                    *)
LEMMA LeftoverStep ==
  ASSUME LinkInv, OutOfStep, Leftover, DeviceRound
  PROVE  (InStep' \/ OutOfStep') /\ UNCHANGED <<next, flash, patient>>
<1>1. /\ UNCHANGED <<next, phase, waiting, patient>>
      /\ left.slow = 0 /\ left.pause = 0 /\ BuffSize >= 5 /\ LoadedSoFar
      /\ stage \in {"cmd", "unknown"} /\ phase \in {"cmd", "addr", "exit"}
      /\ phase = "addr" => waiting
      /\ Len(ring) \in {1, 3, 5} /\ up \in Seq({Command}) /\ Len(up) \in Nat
      /\ down \in Seq({"nack"}) /\ Len(down) \in Nat
      /\ Len(ring) + 2 * Len(up) + 2 * Len(down) <= (IF waiting THEN 5 ELSE 3)
  BY DEF DeviceRound, hostVars, OutOfStep, Leftover
<1>2. /\ Len(Received) \in Nat /\ Len(Received) \in {1, 3, 5}
      /\ up # <<>> => Len(Received) >= 3
  <2>1. Len(Received) \in Nat /\ Len(Received) \in {1, 3, 5}
    BY <1>1, LeftoverReceived
  <2>2. up # <<>> => Len(Received) = Len(ring) + 2
    BY <1>1, LeftoverReceived
  <2>3. Len(ring) = 1 \/ Len(ring) = 3 \/ Len(ring) = 5
    BY <1>1, OddLength
  <2>4. up # <<>> => Len(Received) >= 3
    BY <2>2, <2>3
  <2> QED
    BY <2>1, <2>4
<1>3. ASSUME NEW n \in {0, 2}, n < Len(Received), NEW st \in {"cmd", "unknown"}, Round(n, st),
             KeepData, NoReply \/ (n = 2 /\ Reply("nack"))
      PROVE  OutOfStep' /\ UNCHANGED <<next, flash, patient>>
  <2>1. /\ Len(ring') \in {1, 3, 5} /\ NoCommand(ring') /\ up' \in Seq({Command})
        /\ Len(ring') + 2 * Len(up') = Len(ring) + 2 * Len(up) - n
        /\ stage' = st
    BY <1>1, <1>3, LeftoverRound
  <2>2. left' = left /\ flash' = flash
    BY <1>3 DEF NoReply, Reply, KeepData
  <2>3. Len(up') \in Nat
    BY <2>1
  <2>4. down' \in Seq({"nack"}) /\ Len(down') \in Nat /\ 2 * Len(down') <= 2 * Len(down) + n
    <3>1. CASE NoReply
      BY <1>1, <3>1 DEF NoReply
    <3>2. CASE n = 2 /\ Reply("nack")
      <4>1. down' = Append(down, "nack")
        BY <3>2 DEF Reply
      <4>2. down' \in Seq({"nack"}) /\ Len(down') = Len(down) + 1
        BY <1>1, <4>1, AppendProperties
      <4> QED
        BY <1>1, <3>2, <4>2
    <3> QED
      BY <1>3, <3>1, <3>2
  <2>5. Len(ring') + 2 * Len(up') + 2 * Len(down') <= (IF waiting THEN 5 ELSE 3)
    <3>1. Len(ring') \in Nat /\ Len(ring) \in Nat
      BY <1>1, <2>1
    <3> QED
      BY <1>1, <2>1, <2>3, <2>4, <3>1
  <2>6. Leftover'
    BY <1>1, <2>1, <2>4, <2>5 DEF Leftover
  <2> QED
    BY <1>1, <2>2, <2>6 DEF OutOfStep, LoadedSoFar
<1>4. CASE GetCommand
  <2>1. NoCommand(Received)
    BY <1>1, LeftoverReceived
  <2>2. ~Starts(Command)
    BY <2>1, NoCommandStarts
  <2>3. 2 < Len(Received)
    <3>1. Len(Received) = 1 \/ Len(Received) = 3 \/ Len(Received) = 5
      BY <1>2, OddLength
    <3>2. Len(Received) >= 2
      BY <1>4 DEF GetCommand
    <3>3. Len(Received) # 1
      BY <3>2
    <3> QED
      BY <3>1, <3>3
  <2>4. \/ Round(2, "unknown") /\ NoReply
        \/ Round(2, "cmd") /\ Reply("nack")
    BY <1>4, <2>2 DEF GetCommand
  <2>5. KeepData
    BY <1>4 DEF GetCommand
  <2> QED
    BY <1>3, <2>3, <2>4, <2>5
<1>5. CASE UnknownCommand
  <2>1. Round(0, "cmd") /\ NoReply /\ KeepData /\ 0 < Len(Received)
    BY <1>2, <1>5 DEF UnknownCommand
  <2> QED
    BY <1>3, <2>1
<1>6. CASE FlowBreak
  <2>1. /\ up = <<>> /\ ring' = <<>> /\ stage' = "cmd" /\ UNCHANGED <<up, down, flash>>
        /\ \/ waiting /\ down = <<>> /\ left' = left
           \/ ~waiting /\ Spend("pause")
    BY <1>6 DEF FlowBreak, GiveUp, KeepData
  <2>2. ~Spend("pause")
    BY <1>1 DEF Spend
  <2>3. waiting /\ down = <<>> /\ left' = left
    BY <2>1, <2>2
  <2>4. Len(ring') = 0
    BY <2>1
  <2>5. AtWork'
    BY <1>1, <2>1, <2>3, <2>4 DEF AtWork, AtCommand, AtAddress
  <2> QED
    BY <1>1, <2>1, <2>3, <2>5 DEF InStep, OnePause, LoadedSoFar
<1>7. ~AckCommand /\ ~GetAddress /\ ~GetLength /\ ~GetData /\ ~WriteFlash /\ ~GetMore
  <2>1. ~GetMore
    BY <1>1, <1>2 DEF GetMore, Needed
  <2> QED
    BY <1>1, <2>1 DEF AckCommand, GetAddress, GetLength, GetData, WriteFlash
<1> QED
  BY <1>4, <1>5, <1>6, <1>7 DEF DeviceRound

(* A command that is sent takes the place of the refusal the host has taken. *)
LEMMA OutSendStep ==
  ASSUME LinkInv, OutOfStep, HostSend
  PROVE  OutOfStep' /\ UNCHANGED <<next, flash>>
<1>1. /\ ~waiting /\ waiting' = TRUE /\ phase # "exit"
      /\ UNCHANGED <<next, phase, ring, stage, flash, left>>
      /\ left.slow = 0 /\ left.pause = 0 /\ BuffSize >= 5 /\ LoadedSoFar
      /\ up' = (IF Len(up) < MaxSockPbuf THEN Append(up, Datagram(phase, next)) ELSE up)
      /\ MaxSockPbuf \in Nat \ {0}
  BY LinkAssumption DEF HostSend, deviceVars, OutOfStep
<1>2. PICK n \in 0 .. Len(down) : down' = SubSeq(down, n + 1, Len(down))
  BY DEF HostSend
<1>3. LoadedSoFar'
  BY <1>1 DEF LoadedSoFar
<1>4. CASE GivenUp
  <2>1. phase = "addr" /\ stage = "cmd" /\ ring = <<>> /\ down = <<>> /\ up = <<>>
    BY <1>1, <1>4 DEF GivenUp
  <2>2. Len(up) = 0 /\ Len(down) = 0 /\ n = 0
    BY <1>2, <2>1
  <2>3. down' = <<>>
    BY <1>2, <2>1, <2>2, SubSeqEmpty
  <2>4. up' = <<Address(next)>>
    BY <1>1, <2>1, <2>2 DEF Datagram
  <2>5. Address(next)' = Address(next)
    BY <1>1 DEF Address, Bytes
  <2>6. GivenUp'
    BY <1>1, <2>1, <2>3, <2>4, <2>5 DEF GivenUp
  <2> QED
    BY <1>1, <1>3, <2>6 DEF OutOfStep
<1>5. CASE Leftover
  <2>1. /\ phase = "cmd" /\ stage \in {"cmd", "unknown"}
        /\ Len(ring) \in {1, 3, 5} /\ NoCommand(ring)
        /\ up \in Seq({Command}) /\ down \in Seq({"nack"})
        /\ Len(ring) + 2 * Len(up) + 2 * Len(down) <= 3
    BY <1>1, <1>5 DEF Leftover
  <2>2. up' \in Seq({Command}) /\ Len(up) \in Nat /\ Len(up') \in Nat /\ Len(up') <= Len(up) + 1
    <3>1. Len(up) \in Nat
      BY <2>1
    <3>2. /\ Append(up, Command) \in Seq({Command})
          /\ Len(Append(up, Command)) = Len(up) + 1
      BY <2>1, AppendProperties
    <3>3. up' = Append(up, Command) \/ up' = up
      BY <1>1, <2>1 DEF Datagram
    <3> QED
      BY <2>1, <3>1, <3>2, <3>3
  <2>3. /\ down' \in Seq({"nack"}) /\ Len(down) \in Nat /\ Len(down') \in Nat
        /\ Len(down') <= Len(down)
    <3>1. Len(down) \in Nat /\ n \in Nat /\ n <= Len(down)
      BY <2>1
    <3>2. \A i \in n + 1 .. Len(down) : down[i] \in {"nack"}
      BY <2>1, <3>1
    <3>3. /\ SubSeq(down, n + 1, Len(down)) \in Seq({"nack"})
          /\ Len(SubSeq(down, n + 1, Len(down)))
               = (IF n + 1 <= Len(down) THEN Len(down) - (n + 1) + 1 ELSE 0)
      BY <3>1, <3>2, SubSeqProperties
    <3> QED
      BY <1>2, <3>1, <3>3
  <2>4. Len(ring') + 2 * Len(up') + 2 * Len(down') <= 5
    <3>1. Len(ring) \in Nat /\ ring' = ring
      BY <1>1, <2>1
    <3> QED
      BY <2>1, <2>2, <2>3, <3>1
  <2>5. Leftover'
    BY <1>1, <2>1, <2>2, <2>3, <2>4 DEF Leftover, NoCommand
  <2> QED
    BY <1>1, <1>3, <2>5 DEF OutOfStep
<1> QED
  BY <1>4, <1>5 DEF OutOfStep

(* Only refusals are on the way to the host, and it begins again with each.  *)
LEMMA OutRecvStep ==
  ASSUME LinkInv, OutOfStep, HostRecv
  PROVE  OutOfStep' /\ UNCHANGED <<next, flash>>
<1>1. /\ waiting /\ down # <<>> /\ down' = Tail(down)
      /\ UNCHANGED <<up, ring, stage, flash, left>>
      /\ left.slow = 0 /\ left.pause = 0 /\ BuffSize >= 5 /\ LoadedSoFar
  BY DEF HostRecv, deviceVars, OutOfStep
<1>2. Leftover
  BY <1>1 DEF OutOfStep, GivenUp
<1>3. /\ stage \in {"cmd", "unknown"} /\ Len(ring) \in {1, 3, 5} /\ NoCommand(ring)
      /\ up \in Seq({Command}) /\ Len(up) \in Nat /\ down \in Seq({"nack"})
      /\ Len(ring) + 2 * Len(up) + 2 * Len(down) <= 5
  BY <1>1, <1>2 DEF Leftover
<1>4. /\ Head(down) = "nack" /\ down' \in Seq({"nack"}) /\ Len(down') = Len(down) - 1
      /\ Len(down) \in Nat
  BY <1>1, <1>3, HeadTailProperties
<1>5. TryAgain
  BY <1>4 DEF HostRecv, Confirmed
<1>6. phase' \in {"cmd", "exit"} /\ waiting' = FALSE /\ next' = next
  BY <1>5 DEF TryAgain, whileBreaker
<1>7. Len(ring') + 2 * Len(up') + 2 * Len(down') <= 3
  <2>1. Len(ring) \in Nat /\ ring' = ring /\ up' = up
    BY <1>1, <1>3
  <2> QED
    BY <1>3, <1>4, <2>1
<1>8. Leftover'
  BY <1>1, <1>3, <1>4, <1>6, <1>7 DEF Leftover, NoCommand
<1>9. LoadedSoFar'
  BY <1>1, <1>6 DEF LoadedSoFar
<1> QED
  BY <1>1, <1>6, <1>8, <1>9 DEF OutOfStep

(* The bootloader has the datagram or bytes left over: the host's second     *)
(* does not pass before they are read or cleared.                            *)
LEMMA OutNoTimeout ==
  ASSUME LinkInv, OutOfStep
  PROVE  ~HostTimeout
<1>1. CASE GivenUp
  BY <1>1 DEF GivenUp, HostTimeout
<1>2. CASE Leftover
  <2>1. ring # <<>> /\ stage # "flash"
    <3>1. stage # "flash" /\ Len(ring) \in {1, 3, 5}
      BY <1>2 DEF Leftover
    <3>2. Len(ring) # 0
      BY <3>1, OddLength
    <3> QED
      BY <3>1, <3>2, StepTypes
  <2> QED
    BY <2>1 DEF HostTimeout
<1> QED
  BY <1>1, <1>2 DEF OutOfStep

LEMMA OutLossStep ==
  ASSUME LinkInv, OutOfStep, LoseDatagram
  PROVE  (InStep' \/ OutOfStep') /\ UNCHANGED <<next, flash, patient>>
<1>1. /\ UNCHANGED <<next, phase, waiting, patient, ring, stage, start_addr, long_data, flash>>
      /\ left'.slow = 0 /\ left'.pause = 0 /\ BuffSize >= 5 /\ LoadedSoFar
  <2>1. left \in [{"loss", "slow", "pause"} -> Nat]
    BY DEF LinkInv, LinkTypeOK
  <2>2. left' = [left EXCEPT !["loss"] = @ - 1]
    BY DEF LoseDatagram, Spend
  <2> QED
    BY <2>1, <2>2 DEF LoseDatagram, hostVars, deviceVars, OutOfStep
<1>2. LoadedSoFar'
  BY <1>1 DEF LoadedSoFar
<1>3. CASE GivenUp
  <2>1. /\ phase = "addr" /\ stage = "cmd" /\ ring = <<>> /\ down = <<>>
        /\ up = (IF waiting THEN <<Address(next)>> ELSE <<>>)
    BY <1>3 DEF GivenUp
  <2>2. ~\E i \in DOMAIN down : down' = Without(down, i) /\ UNCHANGED up
    BY <2>1
  <2>3. PICK i \in DOMAIN up : up' = Without(up, i) /\ UNCHANGED down
    BY <2>2 DEF LoseDatagram
  <2>4. up \in Seq(Seq(Byte)) /\ up # <<>>
    BY <2>3 DEF LinkInv
  <2>5. waiting /\ Len(up) = 1
    BY <2>1, <2>4
  <2>6. up' = <<>>
    <3>1. Without(up, i) \in Seq(Seq(Byte)) /\ Len(Without(up, i)) = Len(up) - 1
      BY <2>3, <2>4, WithoutType
    <3>2. up' \in Seq(Seq(Byte)) /\ Len(up') = 0
      BY <2>3, <2>5, <3>1
    <3> QED
      BY <3>2, EmptySeq
  <2>7. AtWork'
    BY <1>1, <2>1, <2>3, <2>6 DEF AtWork, AtAddress
  <2> QED
    BY <1>1, <1>2, <2>1, <2>5, <2>7 DEF InStep, OnePause
<1>4. CASE Leftover
  <2>1. /\ stage \in {"cmd", "unknown"} /\ phase \in {"cmd", "addr", "exit"}
        /\ phase = "addr" => waiting
        /\ Len(ring) \in {1, 3, 5} /\ NoCommand(ring)
        /\ up \in Seq({Command}) /\ Len(up) \in Nat
        /\ down \in Seq({"nack"}) /\ Len(down) \in Nat
        /\ Len(ring) + 2 * Len(up) + 2 * Len(down) <= (IF waiting THEN 5 ELSE 3)
    BY <1>4 DEF Leftover
  <2>2. /\ up' \in Seq({Command}) /\ Len(up') \in Nat /\ Len(up') <= Len(up)
        /\ down' \in Seq({"nack"}) /\ Len(down') \in Nat /\ Len(down') <= Len(down)
    <3>1. CASE \E i \in DOMAIN up : up' = Without(up, i) /\ UNCHANGED down
      <4>1. up' \in Seq({Command}) /\ Len(up') = Len(up) - 1 /\ down' = down
        BY <2>1, <3>1, WithoutType
      <4>2. Len(up') \in Nat
        BY <4>1
      <4> QED
        BY <2>1, <4>1, <4>2
    <3>2. CASE \E i \in DOMAIN down : down' = Without(down, i) /\ UNCHANGED up
      <4>1. down' \in Seq({"nack"}) /\ Len(down') = Len(down) - 1 /\ up' = up
        BY <2>1, <3>2, WithoutType
      <4>2. Len(down') \in Nat
        BY <4>1
      <4> QED
        BY <2>1, <4>1, <4>2
    <3> QED
      BY <3>1, <3>2 DEF LoseDatagram
  <2>3. Len(ring') + 2 * Len(up') + 2 * Len(down') <= (IF waiting THEN 5 ELSE 3)
    <3>1. Len(ring) \in Nat /\ ring' = ring
      BY <1>1, <2>1
    <3> QED
      BY <2>1, <2>2, <3>1
  <2>4. Leftover'
    BY <1>1, <2>1, <2>2, <2>3 DEF Leftover, NoCommand
  <2> QED
    BY <1>1, <1>2, <2>4 DEF OutOfStep
<1> QED
  BY <1>3, <1>4 DEF OutOfStep

-----------------------------------------------------------------------------
LEMMA InStepInit ==
  ASSUME MaxPause = 0 \/ (MaxPause = 1 /\ BuffSize >= 5)
  PROVE  LinkInit /\ patient => InStep
<1> SUFFICES ASSUME LinkInit, patient PROVE InStep
  OBVIOUS
<1>1. left.slow = 0 /\ left.pause = MaxPause
  BY DEF LinkInit
<1>2. ~waiting /\ Idle /\ stage = "cmd"
  BY DEF LinkInit, Idle, ReadyFor
<1>3. LoadedSoFar
  BY DEF LinkInit, LoadedSoFar, Block
<1> QED
  BY <1>1, <1>2, <1>3 DEF InStep, OnePause

(* Every step keeps host and bootloader in step, or leads back to it, and is *)
(* one of the abstract specification's or a stutter.                         *)
LEMMA InStepNext ==
  ASSUME LinkInv, InStep, [LinkNext]_vars
  PROVE  /\ InStep' \/ OutOfStep'
         /\ [BT!AbsWrite \/ BT!AbsAdvance]_<<next, flash, patient>>
<1>1. CASE DeviceRound
  <2>1. CASE ~waiting
    BY <1>1, <2>1, PauseStep
  <2>2. CASE waiting /\ Sent
    BY <1>1, <2>2, SentStep
  <2>3. CASE waiting /\ AtWork
    <3>1. /\ InStep' /\ UNCHANGED <<next, patient>>
          /\ flash' = flash \/ flash' = [flash EXCEPT ![next] = next]
      BY <1>1, <2>3, WorkStep
    <3>2. next \in 0 .. Blocks - 1
      BY <2>3, StepTypes DEF Block
    <3> QED
      BY <3>1, <3>2 DEF BT!AbsWrite
  <2> QED
    BY <1>1, <2>1, <2>2, <2>3, DeviceWaits
<1>2. CASE HostStep
  <2>1. patient' = patient
    BY <1>2 DEF HostStep
  <2>2. CASE HostSend
    BY <2>1, <2>2, SendStep
  <2>3. CASE HostRecv
    <3>1. /\ InStep' /\ UNCHANGED flash
          /\ next' = next \/ (next' = next + 1 /\ flash[next] = next)
      BY <2>3, RecvStep
    <3>2. next < Blocks
      BY <2>3 DEF HostRecv, LinkInv
    <3> QED
      BY <2>1, <3>1, <3>2 DEF BT!AbsAdvance
  <2>4. CASE HostTimeout
    BY <2>1, <2>4, TimeoutStep
  <2> QED
    BY <1>2, <2>2, <2>3, <2>4 DEF HostStep
<1>3. CASE LoseDatagram
  BY <1>3, LossStep
<1>4. CASE UNCHANGED vars
  <2>1. UNCHANGED <<next, phase, waiting, up, down, ring, stage, start_addr, long_data, flash,
                    left, patient>>
    BY <1>4 DEF vars, hostVars, deviceVars
  <2> QED
    BY <2>1 DEF InStep, OnePause, Idle, Sent, AtWork, Answered, ReadyFor, AtCommand, AtAddress,
                AtData, LoadedSoFar, Datagram, Data, Bytes
<1> QED
  BY <1>1, <1>2, <1>3, <1>4 DEF LinkNext

(* Behind the pause, nothing is written and the host does not go on.         *)
LEMMA OutOfStepNext ==
  ASSUME LinkInv, OutOfStep, [LinkNext]_vars
  PROVE  (InStep' \/ OutOfStep') /\ UNCHANGED <<next, flash, patient>>
<1>1. CASE DeviceRound
  BY <1>1, GivenUpStep, LeftoverStep DEF OutOfStep
<1>2. CASE HostStep
  BY <1>2, OutSendStep, OutRecvStep, OutNoTimeout DEF HostStep
<1>3. CASE LoseDatagram
  BY <1>3, OutLossStep
<1>4. CASE UNCHANGED vars
  <2>1. UNCHANGED <<next, phase, waiting, up, down, ring, stage, flash, left, patient>>
    BY <1>4 DEF vars, hostVars, deviceVars
  <2> QED
    BY <2>1 DEF OutOfStep, GivenUp, Leftover, NoCommand, LoadedSoFar
<1> QED
  BY <1>1, <1>2, <1>3, <1>4 DEF LinkNext

LEMMA SteadyInvariant ==
  ASSUME MaxPause = 0 \/ (MaxPause = 1 /\ BuffSize >= 5)
  PROVE  LinkSpec /\ patient => [](InStep \/ OutOfStep)
<1>1. LinkInit /\ patient => InStep
  BY InStepInit
<1>2. LinkInv /\ (InStep \/ OutOfStep) /\ [LinkNext]_vars => (InStep \/ OutOfStep)'
  BY InStepNext, OutOfStepNext
<1> QED
  BY <1>1, <1>2, LinkInvariant, PTL DEF LinkSpec

LEMMA LinkInitRefines == LinkInit => BT!AbsInit
BY DEF LinkInit, BT!AbsInit, Block, Nothing

-----------------------------------------------------------------------------
(* A load by a host that waits out every flash write, on a link that loses   *)
(* what it likes, with any receive queue if the host does not pause, even    *)
(* one that chops every datagram, and with one pause if an address fits the  *)
(* queue: blocks are written at their own place only, and the host goes on   *)
(* only behind the write of the block it is at                               *)
(* (iapdev.py:199-229, st_bootloader_protocol.c:255-392, iap.c:50-59).       *)
THEOREM SteadyLoadImplements ==
  ASSUME MaxPause = 0 \/ (MaxPause = 1 /\ BuffSize >= 5)
  PROVE  LinkSpec /\ patient => RefinesBlockTransfer
<1>1. LinkInv /\ (InStep \/ OutOfStep) /\ [LinkNext]_vars
        => [BT!AbsWrite \/ BT!AbsAdvance]_<<next, flash, patient>>
  BY InStepNext, OutOfStepNext
<1> QED
  BY <1>1, LinkInvariant, SteadyInvariant, LinkInitRefines, PTL
     DEF LinkSpec, RefinesBlockTransfer, BT!AbsSpec

(* When such a host has had its last answer, every block is in flash: what   *)
(* the loader's exit code says (chardev.py:45), and what does not hold of a  *)
(* host that leaves writes unanswered.                                       *)
THEOREM SteadySuccessMeansWritten ==
  ASSUME MaxPause = 0 \/ (MaxPause = 1 /\ BuffSize >= 5)
  PROVE  LinkSpec /\ patient => []SuccessMeansWritten
<1>1. InStep \/ OutOfStep => SuccessMeansWritten
  BY LinkAssumption DEF InStep, OutOfStep, LoadedSoFar, SuccessMeansWritten, written, Block
<1> QED
  BY <1>1, SteadyInvariant, PTL
=============================================================================
