------------------------------ MODULE EthProofs ------------------------------
(* Proofs about the Ethernet driver and the sockets for every number of      *)
(* descriptors, pbufs and sockets, and every length of the lists: each pbuf  *)
(* is in one place, datagrams are read in order, no wake-up is lost, and     *)
(* frames go out as they were given.                                         *)
EXTENDS EthSocket, SequenceTheorems, TLAPS

(* The main loop is between SYS_ARCH_PROTECT and SYS_ARCH_UNPROTECT.         *)
Masked == {"take", "taken", "copy", "packet", "resume", "sent"}

(* Interrupt and protected section exclude each other, and the buffer of the *)
(* current descriptor holds what its sender copied.                          *)
Exclusion ==
  /\ isr # "off" => main \notin Masked
  /\ main \in Masked => enabled = FALSE
  /\ main = "packet" => buf[toSet] = msg
  /\ isr = "packet" => buf[toSet] = IsrContent

(* The DMA's descriptors are those from toSend up to toSet, round the chain. *)
OwnInv ==
  \/ toSend < toSet /\ own = toSend .. toSet - 1
  \/ toSet < toSend /\ own = (toSend .. TxNum - 1) \cup (0 .. toSet - 1)
  \/ toSend = toSet /\ (own = {} \/ own = Desc)

(* All frames in the ring came in behind the last look of the interrupt.     *)
OnlyLate == \A k \in DOMAIN ring : ring[k].late

(* Hands are empty where nothing was taken.                                  *)
HandsInv ==
  /\ main \in {"idle", "recv", "take"} => hand = {}
  /\ isr \in {"off", "look", "print", "clear"} => inIsr = {}

(* Nothing has a number that was not given yet.                              *)
RingGiven == \A k \in DOMAIN ring : ring[k].n <= given
NumbersGiven(s) ==
  /\ read[s] <= given
  /\ \A p \in Listed(s) : data[p].n <= given
  /\ \A q \in hand : InHand(s) => data[q].n <= given
-----------------------------------------------------------------------------
(* Types                                                                     *)

LEMMA AllocType ==
  ASSUME Typed, NEW p, NEW d \in Message, pbuf_alloc(p, d)
  PROVE  p \in Pbuf /\ free' \subseteq Pbuf /\ data' \in [Pbuf -> Message]
BY DEF Typed, pbuf_alloc

LEMMA FreeType ==
  ASSUME Typed, NEW ps \in SUBSET Pbuf, pbuf_free(ps)
  PROVE  free' \subseteq Pbuf /\ data' \in [Pbuf -> Message]
<1>1. Blank \in Message
  BY EthAssumption DEF Blank, Message
<1> QED
  BY <1>1 DEF Typed, pbuf_free

TxTyped ==
  /\ buf \in [Desc -> Content] /\ promised \in [Desc -> Content]
  /\ own \subseteq Desc /\ lapped \subseteq Desc /\ toSet \in Desc /\ toSend \in Desc

LEMMA NextInDesc == \A d \in Desc : Next(d) \in Desc
BY EthAssumption DEF Desc, Next

LEMMA CopiedType == ASSUME Typed, NEW c \in Content, Copied(c) PROVE TxTyped' /\ running' \in BOOLEAN
<1>1. TxTyped'
  BY DEF Typed, Copied, TxTyped
<1>2. running' \in BOOLEAN
  BY Zenon DEF Typed, Copied
<1> QED
  BY <1>1, <1>2

LEMMA PacketType == ASSUME Typed, NEW c \in Content, ETH_Tx_Packet(c) PROVE TxTyped' /\ running' \in BOOLEAN
<1>1. TxTyped'
  BY NextInDesc DEF Typed, ETH_Tx_Packet, TxTyped
<1>2. running' \in BOOLEAN
  BY Zenon DEF Typed, ETH_Tx_Packet
<1> QED
  BY <1>1, <1>2

LEMMA ResumedType == ASSUME Typed, Resumed PROVE TxTyped' /\ running' \in BOOLEAN
<1>1. TxTyped'
  BY DEF Typed, Resumed, TxTyped
<1>2. running' \in BOOLEAN
  BY Zenon DEF Typed, Resumed
<1> QED
  BY <1>1, <1>2

LEMMA TxUnchangedType == ASSUME Typed, UNCHANGED txVars PROVE TxTyped' /\ running' \in BOOLEAN
<1>1. TxTyped'
  BY DEF Typed, txVars, TxTyped
<1>2. running' \in BOOLEAN
  BY Zenon DEF Typed, txVars
<1> QED
  BY <1>1, <1>2

BitsTyped == pend \in BOOLEAN /\ enabled \in BOOLEAN
RxTyped == ring \in Seq(Frame) /\ Len(ring) <= RxNum
StageTyped ==
  /\ isr \in Isr /\ prints \in 0 .. PrintLen /\ main \in Main
  /\ at \in Socket /\ msg \in Payload
PoolTyped ==
  /\ free \subseteq Pbuf /\ hand \subseteq Pbuf /\ inIsr \subseteq Pbuf
  /\ data \in [Pbuf -> Message]
ListTyped ==
  /\ list \in [Socket -> Seq(Pbuf)] /\ \A s \in Socket : Len(list[s]) < ListSlots
  /\ callback \subseteq Socket
HistTyped == given \in 0 .. MaxGiven /\ read \in [Socket -> 0 .. MaxGiven]

LEMMA TypedParts ==
  Typed <=> /\ BitsTyped /\ RxTyped /\ StageTyped /\ PoolTyped /\ ListTyped /\ HistTyped
            /\ TxTyped /\ running \in BOOLEAN
BY Zenon DEF Typed, BitsTyped, RxTyped, StageTyped, PoolTyped, ListTyped, HistTyped, TxTyped

LEMMA TypedPartsNext ==
  Typed' <=> /\ BitsTyped' /\ RxTyped' /\ StageTyped' /\ PoolTyped' /\ ListTyped' /\ HistTyped'
             /\ TxTyped' /\ running' \in BOOLEAN
BY Zenon DEF Typed, BitsTyped, RxTyped, StageTyped, PoolTyped, ListTyped, HistTyped, TxTyped

(* What a variable left alone keeps.                                         *)
LEMMA Kept ==
  ASSUME Typed
  PROVE  /\ UNCHANGED <<pend, enabled>> => BitsTyped'
         /\ UNCHANGED ring => RxTyped'
         /\ UNCHANGED <<free, data, hand, inIsr>> => PoolTyped'
         /\ UNCHANGED <<isr, prints, main, at, msg>> => StageTyped'
         /\ UNCHANGED <<list, callback>> => ListTyped'
         /\ UNCHANGED <<given, read>> => HistTyped'
         /\ UNCHANGED <<buf, own, toSet, toSend, promised, lapped>> => TxTyped'
         /\ UNCHANGED running => running' \in BOOLEAN
<1>1. UNCHANGED <<pend, enabled>> => BitsTyped'
  BY Zenon DEF Typed, BitsTyped
<1>2. UNCHANGED running => running' \in BOOLEAN
  BY Zenon DEF Typed
<1>3. UNCHANGED ring => RxTyped'
  BY DEF Typed, RxTyped
<1>4. UNCHANGED <<free, data, hand, inIsr>> => PoolTyped'
  BY DEF Typed, PoolTyped
<1>5. UNCHANGED <<isr, prints, main, at, msg>> => StageTyped'
  BY DEF Typed, StageTyped
<1>6. UNCHANGED <<list, callback>> => ListTyped'
  BY DEF Typed, ListTyped
<1>7. UNCHANGED <<given, read>> => HistTyped'
  BY DEF Typed, HistTyped
<1>8. UNCHANGED <<buf, own, toSet, toSend, promised, lapped>> => TxTyped'
  BY DEF Typed, TxTyped
<1> QED
  BY <1>1, <1>2, <1>3, <1>4, <1>5, <1>6, <1>7, <1>8

LEMMA EthInitTyped == EthInit => Typed
<1> SUFFICES ASSUME EthInit PROVE Typed
  OBVIOUS
<1>1. BitsTyped /\ running \in BOOLEAN
  BY Zenon DEF EthInit, BitsTyped
<1>2. RxTyped
  BY EthAssumption DEF EthInit, RxTyped
<1>3. StageTyped
  BY EthAssumption DEF EthInit, StageTyped, Isr, Main
<1>4. PoolTyped
  BY EthAssumption DEF EthInit, PoolTyped, Blank, Message
<1>5. ListTyped
  BY EthAssumption DEF EthInit, ListTyped
<1>6. HistTyped
  BY EthAssumption DEF EthInit, HistTyped
<1>7. TxTyped
  BY EthAssumption DEF EthInit, TxTyped, Desc, Content
<1> QED
  BY <1>1, <1>2, <1>3, <1>4, <1>5, <1>6, <1>7, TypedParts

LEMMA DmaTyped == ASSUME Typed, DmaSends PROVE Typed'
<1>1. TxTyped'
  BY NextInDesc DEF Typed, TxTyped, DmaSends
<1>2. running' \in BOOLEAN
  BY Zenon DEF Typed, DmaSends
<1>3. UNCHANGED <<rxVars, enabled, isrVars, poolVars, listVars, mainVars, given, read>>
  BY DEF DmaSends
<1> QED
  BY <1>1, <1>2, <1>3, Kept, TypedPartsNext DEF rxVars, isrVars, poolVars, listVars, mainVars

LEMMA FrameArrives ==
  ASSUME NEW to \in Socket \cup {Peer}, NEW n \in 0 .. MaxGiven
  PROVE  [to |-> to, n |-> n, late |-> isr = "clear"] \in Frame
<1>1. (isr = "clear") \in BOOLEAN
  BY Zenon
<1> DEFINE late == isr = "clear"
<1>2. late \in BOOLEAN
  BY <1>1
<1> HIDE DEF late
<1>3. [to |-> to, n |-> n, late |-> late] \in Frame
  BY <1>2, Zenon DEF Frame
<1> QED
  BY <1>3, Zenon DEF late

LEMMA ArrivesTyped ==
  ASSUME Typed, NEW to \in Socket \cup {Peer}, Arrives(to)
  PROVE  Typed'
<1>1. HistTyped'
  BY EthAssumption DEF Typed, HistTyped, Arrives
<1>2. BitsTyped'
  BY Zenon DEF Typed, BitsTyped, Arrives, rxVars
<1>3. RxTyped'
  <2>1. CASE Len(ring) < RxNum
    <3> DEFINE f == [to |-> to, n |-> given', late |-> isr = "clear"]
    <3>1. f \in Frame
      BY <1>1, FrameArrives DEF HistTyped
    <3> HIDE DEF f
    <3>2. ring' = Append(ring, f)
      BY <2>1, Zenon DEF Arrives, f
    <3> QED
      BY <2>1, <3>1, <3>2, AppendProperties, EthAssumption DEF Typed, RxTyped
  <2>2. CASE ~(Len(ring) < RxNum)
    BY <2>2 DEF Arrives, Typed, RxTyped, rxVars
  <2> QED
    BY <2>1, <2>2
<1>4. UNCHANGED <<enabled, isrVars, poolVars, listVars, mainVars, txVars, read>>
  BY DEF Arrives
<1> QED
  BY <1>1, <1>2, <1>3, <1>4, Kept, TypedPartsNext
  DEF rxVars, isrVars, poolVars, listVars, mainVars, txVars

LEMMA ListsOf ==
  ASSUME Typed, NEW s \in Socket
  PROVE  /\ list[s] \in Seq(Pbuf) /\ Len(list[s]) \in Nat
         /\ DOMAIN list[s] = 1 .. Len(list[s]) /\ Listed(s) \subseteq Pbuf
<1>1. list[s] \in Seq(Pbuf)
  BY DEF Typed
<1> QED
  BY <1>1, LenProperties, ElementOfSeq DEF Listed, Range

(* The oldest frame, and what is left in the ring behind it.                 *)
LEMMA OldestFrame ==
  ASSUME Typed, MoreToCome
  PROVE  /\ Head(ring) \in Frame /\ Head(ring) = ring[1] /\ Tail(ring) \in Seq(Frame)
         /\ Len(ring) \in Nat \ {0} /\ DOMAIN ring = 1 .. Len(ring)
         /\ Len(Tail(ring)) = Len(ring) - 1 /\ DOMAIN Tail(ring) = 1 .. Len(ring) - 1
         /\ \A k \in 1 .. Len(ring) - 1 : Tail(ring)[k] = ring[k + 1]
         /\ [to |-> Head(ring).to, n |-> Head(ring).n] \in Message
<1>1. ring \in Seq(Frame) /\ ring # <<>>
  BY DEF Typed, MoreToCome
<1>2. Head(ring) \in Frame /\ Tail(ring) \in Seq(Frame)
  BY <1>1, HeadTailProperties
<1>3. /\ Len(ring) \in Nat \ {0} /\ DOMAIN ring = 1 .. Len(ring)
      /\ Len(Tail(ring)) = Len(ring) - 1 /\ Head(ring) = ring[1]
  BY <1>1, HeadTailProperties, LenProperties, EmptySeq
<1>4. \A k \in 1 .. Len(ring) - 1 : Tail(ring)[k] = ring[k + 1]
  BY <1>1, <1>3, HeadTailProperties
<1>5. DOMAIN Tail(ring) = 1 .. Len(ring) - 1
  BY <1>2, <1>3, LenProperties
<1>6. Head(ring).to \in Socket \cup {Peer} /\ Head(ring).n \in 0 .. MaxGiven
  BY <1>2 DEF Frame
<1> QED
  BY <1>2, <1>3, <1>4, <1>5, <1>6 DEF Message

LEMMA PacketHandled ==
  ASSUME Typed, Handles
  PROVE  Typed'
<1> DEFINE f == Head(ring)
           d == [to |-> f.to, n |-> f.n]
<1>1. MoreToCome /\ ring' = Tail(ring) /\ UNCHANGED callback
      /\ UNCHANGED <<pend, enabled, mainVars, txVars, given, read>>
  BY Zenon DEF Handles, lwip_pkt_handle
<1>2. RxTyped'
  BY <1>1, OldestFrame, EthAssumption DEF RxTyped, Typed
<1>3. d \in Message
  BY <1>1, OldestFrame
<1> HIDE DEF d
<1>4. CASE /\ \E p \in free : pbuf_alloc(p, d) /\ inIsr' = {p}
           /\ isr' = "copy" /\ UNCHANGED <<prints, list>>
  <2>1. PoolTyped'
    BY <1>1, <1>3, <1>4, AllocType DEF PoolTyped, Typed, mainVars
  <2>2. StageTyped' /\ ListTyped'
    BY <1>1, <1>4 DEF StageTyped, ListTyped, Typed, Isr, mainVars
  <2> QED
    BY <1>1, <1>2, <2>1, <2>2, Kept, TypedPartsNext DEF txVars
<1>5. CASE /\ f.to \in callback
           /\ \E p \in free : runAtSocketRecv(f.to, p, d)
           /\ UNCHANGED inIsr
  <2>1. f.to \in Socket
    BY <1>5 DEF Typed
  <2> PICK p \in free : runAtSocketRecv(f.to, p, d)
    BY <1>5
  <2> DEFINE q == list[f.to]
  <2>2. q \in Seq(Pbuf) /\ Len(q) \in Nat /\ p \in Pbuf
    BY <2>1, ListsOf DEF Typed
  <2>3. CASE Len(q) < ListSlots - 1
    <3>1. /\ pbuf_alloc(p, d) /\ list' = [list EXCEPT ![f.to] = Append(q, p)]
          /\ UNCHANGED <<isr, prints>>
      BY <2>3, Zenon DEF runAtSocketRecv
    <3>2. Append(q, p) \in Seq(Pbuf) /\ Len(Append(q, p)) = Len(q) + 1
      BY <2>2, AppendProperties
    <3>3. ListTyped'
      <4>1. Len(Append(q, p)) < ListSlots
        BY <2>2, <2>3, <3>2, EthAssumption
      <4>2. list \in [Socket -> Seq(Pbuf)] /\ \A s \in Socket : Len(list[s]) < ListSlots
        BY <1>1 DEF Typed
      <4> HIDE DEF q
      <4>3. list' \in [Socket -> Seq(Pbuf)] /\ \A s \in Socket : Len(list'[s]) < ListSlots
        BY <2>1, <3>1, <3>2, <4>1, <4>2
      <4>4. callback' \subseteq Socket
        BY <1>1 DEF Typed, mainVars
      <4> QED
        BY <4>3, <4>4 DEF ListTyped
    <3>4. PoolTyped'
      BY <1>1, <1>3, <1>5, <3>1, AllocType DEF PoolTyped, Typed, mainVars
    <3>5. StageTyped'
      BY <1>1, <3>1, Kept DEF mainVars
    <3> QED
      BY <1>1, <1>2, <3>3, <3>4, <3>5, Kept, TypedPartsNext DEF txVars
  <2>4. CASE ~(Len(q) < ListSlots - 1)
    <3>1. isr' = "print" /\ prints' = PrintLen /\ UNCHANGED <<poolVars, list>>
      BY <2>4, Zenon DEF runAtSocketRecv
    <3>2. StageTyped'
      BY <1>1, <3>1, EthAssumption DEF StageTyped, Typed, Isr, mainVars
    <3> QED
      BY <1>1, <1>2, <1>5, <3>1, <3>2, Kept, TypedPartsNext DEF poolVars, mainVars, txVars
  <2> QED
    BY <2>3, <2>4
<1>6. CASE UNCHANGED <<isrVars, poolVars, list>>
  BY <1>1, <1>2, <1>6, Kept, TypedPartsNext DEF isrVars, poolVars, mainVars, txVars
<1> QED
  BY <1>4, <1>5, <1>6, Zenon DEF Handles, lwip_pkt_handle, d

LEMMA InterruptTyped == ASSUME Typed, ETH_IRQHandler PROVE Typed'
<1>1. CASE EntersInterrupt \/ LooksInVain
  <2>1. StageTyped'
    BY <1>1 DEF StageTyped, Typed, Isr, EntersInterrupt, LooksInVain, mainVars
  <2> QED
    BY <1>1, <2>1, Kept, TypedPartsNext
    DEF EntersInterrupt, LooksInVain, rxVars, poolVars, listVars, mainVars, txVars
<1>2. CASE ClearsPending
  <2>1. StageTyped'
    BY <1>2 DEF StageTyped, Typed, Isr, ClearsPending, mainVars
  <2>2. BitsTyped'
    BY <1>2, Zenon DEF BitsTyped, Typed, ClearsPending
  <2> QED
    BY <1>2, <2>1, <2>2, Kept, TypedPartsNext
    DEF ClearsPending, poolVars, listVars, mainVars, txVars
<1>3. CASE Handles
  BY <1>3, PacketHandled
<1>4. Blank \in Message /\ IsrContent \in Content
  BY EthAssumption DEF Blank, Message, IsrContent, Content
<1>5. CASE Prints
  <2>1. StageTyped'
    BY <1>5, EthAssumption DEF StageTyped, Typed, Isr, Prints, mainVars
  <2>2. PoolTyped'
    BY <1>4, <1>5, AllocType DEF PoolTyped, Typed, Prints, mainVars, poolVars
  <2> QED
    BY <1>5, <2>1, <2>2, Kept, TypedPartsNext DEF Prints, rxVars, listVars, txVars
<1>6. CASE IsrSends
  <2>1. StageTyped'
    BY <1>6 DEF StageTyped, Typed, Isr, IsrSends, mainVars
  <2>2. TxTyped' /\ running' \in BOOLEAN
    BY <1>4, <1>6, CopiedType, PacketType DEF IsrSends
  <2> QED
    BY <1>6, <2>1, <2>2, Kept, TypedPartsNext DEF IsrSends, rxVars, poolVars, listVars, mainVars
<1>7. CASE IsrSent
  <2>1. StageTyped'
    BY <1>7, EthAssumption DEF StageTyped, Typed, Isr, IsrSent, mainVars
  <2>2. TxTyped' /\ running' \in BOOLEAN
    BY <1>7, ResumedType, TxUnchangedType DEF IsrSent, ETH_ERROR
  <2>3. PoolTyped'
    BY <1>7, FreeType DEF PoolTyped, Typed, IsrSent, mainVars
  <2> QED
    BY <1>7, <2>1, <2>2, <2>3, Kept, TypedPartsNext DEF IsrSent, rxVars, listVars
<1> QED
  BY <1>1, <1>2, <1>3, <1>5, <1>6, <1>7 DEF ETH_IRQHandler

LEMMA TaskTyped == ASSUME Typed, Task PROVE Typed'
<1>1. ASSUME NEW s \in Socket, recvfrom(s) PROVE Typed'
  <2>1. StageTyped' /\ ListTyped'
    BY <1>1 DEF StageTyped, ListTyped, Typed, Main, recvfrom, isrVars
  <2> QED
    BY <1>1, <2>1, Kept, TypedPartsNext DEF recvfrom, rxVars, isrVars, poolVars, txVars
<1>2. Blank \in Message
  BY EthAssumption DEF Blank, Message
<1>3. ASSUME NEW c \in Payload, sendto(c) PROVE Typed'
  <2>1. StageTyped'
    BY <1>3 DEF StageTyped, Typed, Main, sendto, isrVars
  <2>2. PoolTyped'
    BY <1>2, <1>3, AllocType DEF PoolTyped, Typed, sendto, isrVars
  <2> QED
    BY <1>3, <2>1, <2>2, Kept, TypedPartsNext DEF sendto, rxVars, listVars, txVars
<1>4. CASE Protects \/ Unprotects
  <2>1. StageTyped'
    BY <1>4 DEF StageTyped, Typed, Main, Protects, Unprotects, From, isrVars
  <2>2. BitsTyped'
    BY <1>4, Zenon DEF BitsTyped, Typed, Protects, Unprotects, SYS_ARCH_PROTECT, SYS_ARCH_UNPROTECT, rxVars
  <2> QED
    BY <1>4, <2>1, <2>2, Kept, TypedPartsNext
    DEF Protects, Unprotects, rxVars, isrVars, poolVars, listVars, txVars
<1>5. CASE Takes
  <2>1. StageTyped'
    BY <1>5 DEF StageTyped, Typed, Main, Takes, From, isrVars
  <2>2. CASE list[at] = <<>>
    BY <1>5, <2>1, <2>2, Kept, TypedPartsNext
    DEF Takes, rxVars, isrVars, poolVars, txVars
  <2>3. CASE list[at] # <<>>
    <3>1. list[at] \in Seq(Pbuf) /\ at \in Socket
      BY ListsOf DEF Typed
    <3>2. /\ Head(list[at]) \in Pbuf /\ Tail(list[at]) \in Seq(Pbuf)
          /\ Len(Tail(list[at])) = Len(list[at]) - 1 /\ Len(list[at]) \in Nat
      BY <2>3, <3>1, HeadTailProperties, LenProperties
    <3>3. TakesOldest
      BY <1>5, <2>3 DEF Takes
    <3>4. ListTyped'
      BY <1>5, <3>1, <3>2, <3>3, EthAssumption DEF Typed, ListTyped, Takes, TakesOldest
    <3>5. PoolTyped'
      BY <1>5, <3>2, <3>3 DEF Typed, PoolTyped, Takes, TakesOldest, isrVars, poolVars
    <3> QED
      BY <1>5, <2>1, <3>4, <3>5, Kept, TypedPartsNext DEF Takes, rxVars, txVars
  <2> QED
    BY <2>2, <2>3
<1>6. CASE Reads
  <2>1. StageTyped'
    BY <1>6 DEF StageTyped, Typed, Main, Reads, From, isrVars
  <2>2. HistTyped'
    <3> PICK p \in hand : read' = [read EXCEPT ![at] = data[p].n]
      BY <1>6 DEF Reads
    <3>1. data[p].n \in 0 .. MaxGiven
      BY DEF Typed, Message
    <3> QED
      BY <1>6, <3>1 DEF HistTyped, Typed, Reads
  <2> QED
    BY <1>6, <2>1, <2>2, Kept, TypedPartsNext
    DEF Reads, rxVars, isrVars, poolVars, listVars, txVars
<1>7. CASE Frees
  <2>1. StageTyped'
    BY <1>7 DEF StageTyped, Typed, Main, Frees, From, isrVars
  <2>2. PoolTyped'
    BY <1>7, FreeType DEF PoolTyped, Typed, Frees, isrVars
  <2> QED
    BY <1>7, <2>1, <2>2, Kept, TypedPartsNext DEF Frees, rxVars, listVars, txVars
<1>8. CASE Sends
  <2>1. StageTyped'
    BY <1>8 DEF StageTyped, Typed, Main, Sends, From, isrVars
  <2>2. msg \in Content
    BY DEF Typed, Content
  <2>3. TxTyped' /\ running' \in BOOLEAN
    BY <1>8, <2>2, CopiedType, PacketType, ResumedType, TxUnchangedType DEF Sends, ETH_ERROR
  <2> QED
    BY <1>8, <2>1, <2>3, Kept, TypedPartsNext DEF Sends, rxVars, isrVars, poolVars, listVars
<1> QED
  BY <1>1, <1>3, <1>4, <1>5, <1>6, <1>7, <1>8 DEF Task

LEMMA StepTyped == ASSUME Typed, [EthNext]_vars PROVE Typed'
<1>1. CASE UNCHANGED vars
  BY <1>1, Kept, TypedPartsNext
  DEF vars, rxVars, isrVars, poolVars, listVars, mainVars, txVars
<1> QED
  BY <1>1, DmaTyped, ArrivesTyped, InterruptTyped, TaskTyped DEF EthNext
-----------------------------------------------------------------------------
(* Transmitting                                                              *)

TxInv == Exclusion /\ OwnInv /\ SentAsGiven

LEMMA EthInitTx == EthInit => TxInv
<1> SUFFICES ASSUME EthInit PROVE TxInv
  OBVIOUS
<1>1. Exclusion
  BY DEF EthInit, Exclusion, Masked
<1>2. OwnInv /\ SentAsGiven
  BY DEF EthInit, OwnInv, SentAsGiven
<1> QED
  BY <1>1, <1>2 DEF TxInv

(* Which parts of the driver an action leaves alone.                         *)
LEMMA Untouched ==
  /\ Exclusion /\ UNCHANGED <<isr, prints, main, enabled, msg, buf, toSet>> => Exclusion'
  /\ OwnInv /\ UNCHANGED <<own, toSet, toSend>> => OwnInv'
  /\ SentAsGiven /\ UNCHANGED <<own, buf, promised, lapped>> => SentAsGiven'
<1>1. Exclusion /\ UNCHANGED <<isr, prints, main, enabled, msg, buf, toSet>> => Exclusion'
  <2> SUFFICES ASSUME Exclusion, UNCHANGED <<isr, prints, main, enabled, msg, buf, toSet>>
               PROVE  Exclusion'
    OBVIOUS
  <2>1. isr' = isr /\ main' = main /\ IsrContent' = IsrContent /\ msg' = msg
        /\ buf'[toSet'] = buf[toSet]
    BY DEF IsrContent
  <2>2. (isr # "off" => main \notin Masked)' /\ (main = "packet" => buf[toSet] = msg)'
        /\ (isr = "packet" => buf[toSet] = IsrContent)'
    BY <2>1 DEF Exclusion
  <2>3. (main \in Masked => enabled = FALSE)'
    BY <2>1, Zenon DEF Exclusion
  <2> QED
    BY <2>2, <2>3, Zenon DEF Exclusion
<1>2. OwnInv /\ UNCHANGED <<own, toSet, toSend>> => OwnInv'
  BY DEF OwnInv
<1>3. SentAsGiven /\ UNCHANGED <<own, buf, promised, lapped>> => SentAsGiven'
  BY DEF SentAsGiven
<1> QED
  BY <1>1, <1>2, <1>3

LEMMA PacketOwn ==
  ASSUME Typed, OwnInv, NEW c, ETH_Tx_Packet(c)
  PROVE  OwnInv'
<1>1. /\ toSet \in 0 .. TxNum - 1 /\ toSend \in 0 .. TxNum - 1 /\ TxNum \in Nat \ {0}
      /\ toSet \notin own /\ own' = own \cup {toSet} /\ toSend' = toSend
      /\ toSet' = IF toSet + 1 = TxNum THEN 0 ELSE toSet + 1
  BY EthAssumption DEF Typed, ETH_Tx_Packet, Next, Desc
<1>2. CASE toSend < toSet
  BY <1>1, <1>2 DEF OwnInv, Desc
<1>3. CASE toSet < toSend
  BY <1>1, <1>3 DEF OwnInv, Desc
<1>4. CASE toSend = toSet
  BY <1>1, <1>4 DEF OwnInv, Desc
<1> QED
  BY <1>1, <1>2, <1>3, <1>4

LEMMA DmaOwn ==
  ASSUME Typed, OwnInv, DmaSends
  PROVE  OwnInv' /\ (toSend \in own \/ own = {})
<1>1. /\ toSet \in 0 .. TxNum - 1 /\ toSend \in 0 .. TxNum - 1 /\ TxNum \in Nat \ {0}
      /\ toSet' = toSet
  BY EthAssumption DEF Typed, DmaSends, Desc
<1>2. toSend \in own \/ own = {}
  BY <1>1 DEF OwnInv, Desc
<1>3. CASE toSend \notin own
  <2>1. own' = own /\ toSend' = toSend
    BY <1>3, Zenon DEF DmaSends
  <2> QED
    BY <1>1, <1>2, <2>1 DEF OwnInv, Desc
<1>4. CASE toSend \in own
  <2>1. own' = own \ {toSend} /\ toSend' = IF toSend + 1 = TxNum THEN 0 ELSE toSend + 1
    BY <1>4 DEF DmaSends, Next
  <2>2. CASE toSend < toSet
    BY <1>1, <2>1, <2>2 DEF OwnInv, Desc
  <2>3. CASE toSet < toSend
    BY <1>1, <2>1, <2>3 DEF OwnInv, Desc
  <2>4. CASE toSend = toSet
    BY <1>1, <1>4, <2>1, <2>4 DEF OwnInv, Desc
  <2> QED
    BY <1>1, <2>2, <2>3, <2>4
<1> QED
  BY <1>2, <1>3, <1>4

(* A copy into a buffer, and what ETH_Tx_Packet then promises of it          *)
LEMMA CopiedSent ==
  ASSUME Typed, OwnInv, SentAsGiven, NEW c, Copied(c)
  PROVE  OwnInv' /\ SentAsGiven' /\ buf'[toSet'] = c /\ UNCHANGED <<own, running>>
BY DEF Typed, OwnInv, SentAsGiven, Copied

LEMMA PacketSent ==
  ASSUME Typed, OwnInv, SentAsGiven, NEW c, ETH_Tx_Packet(c), buf[toSet] = c
  PROVE  OwnInv' /\ SentAsGiven'
<1>1. SentAsGiven'
  BY DEF Typed, SentAsGiven, ETH_Tx_Packet
<1> QED
  BY <1>1, PacketOwn

LEMMA InterruptTx == ASSUME Typed, TxInv, ETH_IRQHandler PROVE TxInv'
<1>1. Exclusion /\ OwnInv /\ SentAsGiven
  BY DEF TxInv
<1>2. CASE EntersInterrupt
  <2>1. Exclusion'
    BY <1>1, <1>2, Zenon DEF Exclusion, EntersInterrupt, Masked, mainVars, txVars
  <2> QED
    BY <1>1, <1>2, <2>1, Untouched DEF TxInv, EntersInterrupt, txVars
<1>3. ASSUME isr # "off", isr' # "packet", UNCHANGED <<main, enabled, msg, txVars>>
      PROVE  TxInv'
  <2>1. Exclusion'
    BY <1>1, <1>3, Zenon DEF Exclusion, Masked, txVars
  <2> QED
    BY <1>1, <1>3, <2>1, Untouched DEF TxInv, txVars
<1>4. CASE LooksInVain \/ ClearsPending \/ Prints
  BY <1>3, <1>4 DEF LooksInVain, ClearsPending, Prints, mainVars
<1>5. CASE Handles
  <2>1. isr' # "packet"
    BY <1>5 DEF Handles, lwip_pkt_handle, runAtSocketRecv, isrVars
  <2> QED
    BY <1>3, <1>5, <2>1 DEF Handles, mainVars
<1>6. CASE IsrSends
  <2>1. UNCHANGED <<main, enabled, msg, prints>> /\ isr' # "off" /\ main \notin Masked
    BY <1>1, <1>6, Zenon DEF IsrSends, mainVars, Exclusion
  <2>2. CASE isr = "copy" /\ Copied(IsrContent) /\ isr' = "packet"
    <3>1. OwnInv' /\ SentAsGiven' /\ buf'[toSet'] = IsrContent
      BY <1>1, <2>2, CopiedSent
    <3>2. Exclusion'
      BY <2>1, <3>1, Zenon DEF Exclusion, Masked, IsrContent
    <3> QED
      BY <3>1, <3>2 DEF TxInv
  <2>3. CASE isr = "packet" /\ ETH_Tx_Packet(IsrContent) /\ isr' = "resume"
    <3>1. OwnInv' /\ SentAsGiven'
      BY <1>1, <2>3, PacketSent DEF Exclusion
    <3>2. Exclusion'
      BY <2>1, <2>3, Zenon DEF Exclusion, Masked
    <3> QED
      BY <3>1, <3>2 DEF TxInv
  <2> QED
    BY <1>6, <2>2, <2>3 DEF IsrSends
<1>7. CASE IsrSent
  <2>1. UNCHANGED <<main, enabled, msg>> /\ isr' = "print" /\ isr # "off"
    BY <1>7, Zenon DEF IsrSent, mainVars
  <2>2. UNCHANGED <<own, toSet, toSend, buf, promised, lapped>>
    BY <1>7 DEF IsrSent, Resumed, ETH_ERROR, txVars
  <2>3. Exclusion'
    BY <1>1, <2>1, Zenon DEF Exclusion, Masked
  <2> QED
    BY <1>1, <2>2, <2>3, Untouched DEF TxInv
<1> QED
  BY <1>2, <1>4, <1>5, <1>6, <1>7 DEF ETH_IRQHandler

LEMMA TaskTx == ASSUME Typed, TxInv, Task PROVE TxInv'
<1>1. Exclusion /\ OwnInv /\ SentAsGiven
  BY DEF TxInv
<1>2. ASSUME isr = "off", UNCHANGED <<isr, txVars>>, main' # "packet",
             main' \in Masked => enabled' = FALSE
      PROVE  TxInv'
  <2>1. Exclusion'
    BY <1>2, Zenon DEF Exclusion
  <2> QED
    BY <1>1, <1>2, <2>1, Untouched DEF TxInv, txVars
<1>3. ASSUME NEW s \in Socket, recvfrom(s) PROVE TxInv'
  BY <1>2, <1>3, Zenon DEF recvfrom, From, isrVars, Masked
<1>4. ASSUME NEW c \in Payload, sendto(c) PROVE TxInv'
  BY <1>2, <1>4, Zenon DEF sendto, From, isrVars, Masked
<1>5. CASE Protects
  BY <1>2, <1>5, Zenon DEF Protects, From, isrVars, SYS_ARCH_PROTECT
<1>6. CASE Unprotects
  <2>1. main' \in {"idle", "read", "free"} /\ isr = "off" /\ UNCHANGED <<isr, txVars>>
    BY <1>6 DEF Unprotects, From, isrVars
  <2> QED
    BY <1>2, <2>1 DEF Masked
<1>7. CASE Takes
  <2>1. UNCHANGED enabled /\ isr = "off" /\ main \in Masked
    BY <1>7, Zenon DEF Takes, From, Masked
  <2>2. enabled' = FALSE
    BY <1>1, <2>1, Zenon DEF Exclusion
  <2> QED
    BY <1>2, <1>7, <2>1, <2>2, Zenon DEF Takes, isrVars
<1>8. CASE Reads \/ Frees
  BY <1>2, <1>8, Zenon DEF Reads, Frees, From, isrVars, Masked
<1>9. CASE Sends
  <2>1. isr = "off" /\ UNCHANGED <<isr, prints, msg, enabled>> /\ main \in Masked
    BY <1>9, Zenon DEF Sends, From, isrVars, Masked
  <2>2. enabled' = FALSE
    BY <1>1, <2>1, Zenon DEF Exclusion
  <2>3. CASE main = "copy" /\ Copied(msg) /\ main' = "packet"
    <3>1. OwnInv' /\ SentAsGiven' /\ buf'[toSet'] = msg
      BY <1>1, <2>3, CopiedSent
    <3>2. Exclusion'
      BY <2>1, <2>2, <3>1, Zenon DEF Exclusion
    <3> QED
      BY <3>1, <3>2 DEF TxInv
  <2>4. CASE main = "packet" /\ ETH_Tx_Packet(msg) /\ main' = "resume"
    <3>1. OwnInv' /\ SentAsGiven'
      BY <1>1, <2>4, PacketSent DEF Exclusion
    <3>2. Exclusion'
      BY <2>1, <2>2, <2>4, Zenon DEF Exclusion
    <3> QED
      BY <3>1, <3>2 DEF TxInv
  <2>5. CASE main' = "sent" /\ (Resumed \/ ETH_ERROR)
    <3>1. UNCHANGED <<own, toSet, toSend, buf, promised, lapped>>
      BY <2>5 DEF Resumed, ETH_ERROR, txVars
    <3>2. Exclusion'
      BY <2>1, <2>2, <2>5, Zenon DEF Exclusion
    <3> QED
      BY <1>1, <3>1, <3>2, Untouched DEF TxInv
  <2> QED
    BY <1>9, <2>3, <2>4, <2>5 DEF Sends, From
<1> QED
  BY <1>3, <1>4, <1>5, <1>6, <1>7, <1>8, <1>9 DEF Task

LEMMA StepTx == ASSUME Typed, TxInv, [EthNext]_vars PROVE TxInv'
<1>1. Exclusion /\ OwnInv /\ SentAsGiven
  BY DEF TxInv
<1>2. CASE UNCHANGED vars
  BY <1>1, <1>2, Untouched DEF TxInv, vars, isrVars, mainVars, txVars
<1>3. CASE DmaSends
  <2>1. UNCHANGED <<isr, prints, main, enabled, msg, buf, toSet>>
    BY <1>3 DEF DmaSends, isrVars, mainVars
  <2>2. SentAsGiven'
    BY <1>1, <1>3 DEF DmaSends, SentAsGiven
  <2> QED
    BY <1>1, <1>3, <2>1, <2>2, Untouched, DmaOwn DEF TxInv
<1>4. ASSUME NEW to \in Socket \cup {Peer}, Arrives(to) PROVE TxInv'
  BY <1>1, <1>4, Untouched DEF TxInv, Arrives, isrVars, mainVars, txVars
<1> QED
  BY <1>2, <1>3, <1>4, InterruptTx, TaskTx DEF EthNext
-----------------------------------------------------------------------------
(* Wake-ups                                                                  *)

RxWake == isr = "clear" \/ (isr = "off" /\ pend = FALSE) => OnlyLate
TxWake == own # {} => running = TRUE \/ isr = "resume" \/ main = "resume"

LEMMA WakeUps == ASSUME Typed, RxWake, TxWake PROVE NoLostWakeUp
<1>1. ASSUME isr = "off", ~pend PROVE OnlyLate
  <2>1. pend = FALSE
    BY <1>1, Zenon DEF Typed
  <2> QED
    BY <1>1, <2>1, Zenon DEF RxWake
<1>2. ASSUME own # {}, ~running PROVE isr = "resume" \/ main = "resume"
  BY <1>2, Zenon DEF TxWake
<1> QED
  BY <1>1, <1>2, Zenon DEF NoLostWakeUp, OnlyLate

LEMMA EthInitWake == EthInit => RxWake /\ TxWake
<1>1. EthInit => RxWake
  BY DEF EthInit, RxWake, OnlyLate
<1>2. EthInit => TxWake
  BY Zenon DEF EthInit, TxWake
<1> QED
  BY <1>1, <1>2

LEMMA RxWakeKept == RxWake /\ UNCHANGED <<ring, pend, isr>> => RxWake'
<1> SUFFICES ASSUME RxWake, UNCHANGED <<ring, pend, isr>> PROVE RxWake'
  OBVIOUS
<1>1. OnlyLate => OnlyLate'
  BY DEF OnlyLate
<1>2. pend' = pend /\ isr' = isr
  BY Zenon
<1> QED
  BY <1>1, <1>2, Zenon DEF RxWake

LEMMA StepRxWake == ASSUME Typed, RxWake, [EthNext]_vars PROVE RxWake'
<1>1. ASSUME isr' \notin {"off", "clear"} PROVE RxWake'
  BY <1>1, Zenon DEF RxWake
<1>2. ASSUME NEW to \in Socket \cup {Peer}, Arrives(to) PROVE RxWake'
  <2>1. CASE Len(ring) < RxNum
    <3> DEFINE f == [to |-> to, n |-> given', late |-> isr = "clear"]
    <3>1. pend' = TRUE /\ isr' = isr /\ ring' = Append(ring, f)
      BY <1>2, <2>1, Zenon DEF Arrives, isrVars
    <3>2. ASSUME isr = "clear", OnlyLate PROVE OnlyLate'
      <4>1. f.late
        BY <3>2, Zenon
      <4> HIDE DEF f
      <4>2. ring \in Seq(Frame)
        BY DEF Typed
      <4> QED
        BY <3>1, <3>2, <4>1, <4>2 DEF OnlyLate
    <3> QED
      BY <3>1, <3>2, Zenon DEF RxWake
  <2>2. CASE ~(Len(ring) < RxNum)
    BY <1>2, <2>2, RxWakeKept, Zenon DEF Arrives, isrVars, rxVars
  <2> QED
    BY <2>1, <2>2
<1>3. CASE EntersInterrupt
  BY <1>1, <1>3 DEF EntersInterrupt
<1>4. CASE Handles
  BY <1>1, <1>4 DEF Handles, lwip_pkt_handle, runAtSocketRecv, isrVars
<1>5. CASE LooksInVain
  <2>1. OnlyLate'
    BY <1>5 DEF LooksInVain, MoreToCome, OnlyLate, rxVars
  <2> QED
    BY <2>1, Zenon DEF RxWake
<1>6. CASE ClearsPending
  <2>1. OnlyLate'
    BY <1>6 DEF ClearsPending, RxWake, OnlyLate
  <2> QED
    BY <2>1, Zenon DEF RxWake
<1>7. CASE Prints \/ IsrSends \/ IsrSent
  BY <1>1, <1>7 DEF Prints, IsrSends, IsrSent
<1>8. CASE UNCHANGED <<rxVars, isr>>
  BY <1>8, RxWakeKept, Zenon DEF rxVars
<1>9. CASE DmaSends \/ Task \/ UNCHANGED vars
  <2>1. UNCHANGED <<rxVars, isr>>
    BY <1>9 DEF DmaSends, Task, recvfrom, sendto, Protects, Unprotects, Takes, Reads, Frees,
                Sends, vars, isrVars
  <2> QED
    BY <1>8, <2>1
<1> QED
  BY <1>2, <1>3, <1>4, <1>5, <1>6, <1>7, <1>9 DEF EthNext, ETH_IRQHandler

LEMMA StepTxWake == ASSUME Typed, Exclusion, OwnInv, TxWake, [EthNext]_vars PROVE TxWake'
<1>1. ASSUME UNCHANGED <<own, running>>, isr = "resume" => isr' = "resume",
             main = "resume" => main' = "resume"
      PROVE  TxWake'
  <2>1. own' = own /\ running' = running
    BY <1>1, Zenon
  <2> QED
    BY <1>1, <2>1, Zenon DEF TxWake
<1>2. CASE DmaSends
  <2>1. isr' = isr /\ main' = main /\ running = TRUE
    BY <1>2, Zenon DEF DmaSends, isrVars, mainVars, Typed
  <2>2. CASE toSend \in own
    <3>1. running' = running
      BY <1>2, <2>2, Zenon DEF DmaSends
    <3> QED
      BY <2>1, <3>1, Zenon DEF TxWake
  <2>3. CASE toSend \notin own
    <3>1. own' = own /\ own = {}
      BY <1>2, <2>3, DmaOwn DEF DmaSends
    <3> QED
      BY <3>1, Zenon DEF TxWake
  <2> QED
    BY <2>2, <2>3
<1>3. CASE (\E to \in Socket \cup {Peer} : Arrives(to)) \/ UNCHANGED vars
  <2>1. UNCHANGED <<own, running>> /\ isr' = isr /\ main' = main
    BY <1>3, Zenon DEF Arrives, vars, txVars, isrVars, mainVars
  <2> QED
    BY <1>1, <2>1
<1>4. CASE EntersInterrupt \/ LooksInVain \/ ClearsPending
  <2>1. UNCHANGED <<own, running>> /\ isr # "resume" /\ main' = main
    BY <1>4, Zenon DEF EntersInterrupt, LooksInVain, ClearsPending, txVars, mainVars
  <2> QED
    BY <1>1, <2>1
<1>5. CASE Handles \/ Prints
  <2>1. UNCHANGED <<own, running>> /\ isr # "resume" /\ main' = main
    BY <1>5, Zenon DEF Handles, Prints, txVars, mainVars
  <2> QED
    BY <1>1, <2>1
<1>6. CASE IsrSends
  <2>1. main' = main
    BY <1>6, Zenon DEF IsrSends, mainVars
  <2>2. CASE isr = "copy" /\ Copied(IsrContent) /\ isr' = "packet"
    <3>1. UNCHANGED <<own, running>> /\ isr # "resume"
      BY <2>2, Zenon DEF Copied
    <3> QED
      BY <1>1, <2>1, <3>1
  <2>3. CASE isr' = "resume"
    BY <2>3, Zenon DEF TxWake
  <2> QED
    BY <1>6, <2>2, <2>3 DEF IsrSends
<1>7. CASE Resumed
  BY <1>7, Zenon DEF Resumed, TxWake
<1>8. CASE IsrSent /\ ETH_ERROR /\ isr = "packet"
  <2>1. UNCHANGED <<own, running>> /\ isr # "resume" /\ main' = main
    BY <1>8, Zenon DEF IsrSent, ETH_ERROR, txVars, mainVars
  <2> QED
    BY <1>1, <2>1
<1>9. CASE Sends
  <2>1. isr' = isr
    BY <1>9, Zenon DEF Sends, isrVars
  <2>2. CASE main' = "resume"
    BY <2>2, Zenon DEF TxWake
  <2>3. CASE main \in {"copy", "packet"} /\ (Copied(msg) \/ ETH_ERROR)
    <3>1. UNCHANGED <<own, running>> /\ main # "resume"
      BY <2>3, Zenon DEF Copied, ETH_ERROR, txVars
    <3> QED
      BY <1>1, <2>1, <3>1
  <2> QED
    BY <1>7, <1>9, <2>2, <2>3 DEF Sends, From
<1>10. CASE Task /\ ~Sends
  <2>1. UNCHANGED <<own, running>>
    BY <1>10, Zenon DEF Task, recvfrom, sendto, Protects, Unprotects, Takes, Reads, Frees, txVars
  <2>2. main # "resume" /\ isr' = isr
    BY <1>10 DEF Task, recvfrom, sendto, Protects, Unprotects, Takes, Reads, Frees, From, isrVars
  <2> QED
    BY <1>1, <2>1, <2>2
<1> QED
  BY <1>2, <1>3, <1>4, <1>5, <1>6, <1>7, <1>8, <1>9, <1>10
  DEF EthNext, ETH_IRQHandler, IsrSent
-----------------------------------------------------------------------------
(* Every pbuf in one place                                                   *)

LEMMA AppendListed ==
  ASSUME NEW S, NEW q \in Seq(S), NEW p \in S
  PROVE  /\ Range(Append(q, p)) = Range(q) \cup {p}
         /\ IsInjective(q) /\ p \notin Range(q) => IsInjective(Append(q, p))
<1>1. /\ DOMAIN q = 1 .. Len(q) /\ Len(q) \in Nat
      /\ DOMAIN Append(q, p) = 1 .. Len(q) + 1
      /\ \A k \in 1 .. Len(q) : Append(q, p)[k] = q[k]
      /\ Append(q, p)[Len(q) + 1] = p
  BY AppendProperties, LenProperties
<1>2. Range(Append(q, p)) = Range(q) \cup {p}
  <2>1. ASSUME NEW x \in Range(q) PROVE x \in Range(Append(q, p))
    BY <1>1, <2>1 DEF Range
  <2>2. p \in Range(Append(q, p))
    BY <1>1 DEF Range
  <2>3. ASSUME NEW k \in DOMAIN Append(q, p) PROVE Append(q, p)[k] \in Range(q) \cup {p}
    <3>1. CASE k = Len(q) + 1
      BY <1>1, <3>1
    <3>2. CASE k # Len(q) + 1
      BY <1>1, <2>3, <3>2 DEF Range
    <3> QED
      BY <3>1, <3>2
  <2> QED
    BY <2>1, <2>2, <2>3 DEF Range
<1>3. ASSUME IsInjective(q), p \notin Range(q),
             NEW j \in DOMAIN Append(q, p), NEW k \in DOMAIN Append(q, p),
             Append(q, p)[j] = Append(q, p)[k]
      PROVE  j = k
  BY <1>1, <1>3 DEF IsInjective, Range
<1> QED
  BY <1>2, <1>3 DEF IsInjective

LEMMA TailListed ==
  ASSUME NEW S, NEW q \in Seq(S), q # <<>>, IsInjective(q)
  PROVE  /\ Head(q) \in Range(q) /\ IsInjective(Tail(q))
         /\ Range(Tail(q)) = Range(q) \ {Head(q)}
<1>1. /\ DOMAIN q = 1 .. Len(q) /\ Len(q) \in Nat \ {0} /\ Head(q) = q[1]
      /\ Tail(q) \in Seq(S) /\ Len(Tail(q)) = Len(q) - 1
      /\ \A k \in 1 .. Len(q) - 1 : Tail(q)[k] = q[k + 1]
  BY HeadTailProperties, LenProperties, EmptySeq
<1>2. DOMAIN Tail(q) = 1 .. Len(q) - 1
  BY <1>1, LenProperties
<1>3. Head(q) \in Range(q)
  BY <1>1 DEF Range
<1>4. IsInjective(Tail(q))
  BY <1>1, <1>2 DEF IsInjective
<1>5. ASSUME NEW k \in DOMAIN Tail(q) PROVE Tail(q)[k] \in Range(q) \ {Head(q)}
  BY <1>1, <1>2 DEF IsInjective, Range
<1>6. ASSUME NEW k \in DOMAIN q, q[k] # Head(q) PROVE q[k] \in Range(Tail(q))
  <2>1. k - 1 \in DOMAIN Tail(q) /\ Tail(q)[k - 1] = q[k]
    BY <1>1, <1>2, <1>6
  <2> QED
    BY <2>1 DEF Range
<1>7. Range(Tail(q)) = Range(q) \ {Head(q)}
  BY <1>5, <1>6 DEF Range
<1> QED
  BY <1>3, <1>4, <1>7

(* A hand that takes a pbuf out of the pool, or gives it back; a list that   *)
(* gets one, or loses its oldest.                                            *)
LEMMA PoolKept == PoolWhole /\ UNCHANGED <<free, hand, inIsr, list>> => PoolWhole'
BY DEF PoolWhole, Listed

LEMMA HandTakes ==
  ASSUME PoolWhole, NEW p \in free, free' = free \ {p}, UNCHANGED list,
         \/ hand = {} /\ hand' = {p} /\ UNCHANGED inIsr
         \/ inIsr = {} /\ inIsr' = {p} /\ UNCHANGED hand
  PROVE  PoolWhole'
<1>1. \A s \in Socket : Listed(s)' = Listed(s) /\ list'[s] = list[s]
  BY DEF Listed
<1> QED
  BY <1>1 DEF PoolWhole

LEMMA HandGives ==
  ASSUME PoolWhole, UNCHANGED list,
         \/ free' = free \cup hand /\ hand' = {} /\ UNCHANGED inIsr
         \/ free' = free \cup inIsr /\ inIsr' = {} /\ UNCHANGED hand
  PROVE  PoolWhole'
<1>1. \A s \in Socket : Listed(s)' = Listed(s) /\ list'[s] = list[s]
  BY DEF Listed
<1> QED
  BY <1>1 DEF PoolWhole

LEMMA ListGets ==
  ASSUME Typed, PoolWhole, NEW s \in Socket, NEW p \in free, free' = free \ {p},
         list' = [list EXCEPT ![s] = Append(list[s], p)], UNCHANGED <<hand, inIsr>>
  PROVE  /\ PoolWhole' /\ Listed(s)' = Listed(s) \cup {p} /\ p \notin Listed(s)
         /\ \A t \in Socket \ {s} : Listed(t)' = Listed(t)
<1>1. list[s] \in Seq(Pbuf) /\ p \in Pbuf /\ p \notin Listed(s) /\ s \in DOMAIN list
  BY ListsOf DEF Typed, PoolWhole
<1>2. list'[s] = Append(list[s], p) /\ \A t \in Socket \ {s} : list'[t] = list[t]
  BY <1>1 DEF Typed
<1>3. Listed(s)' = Listed(s) \cup {p} /\ IsInjective(list'[s])
  BY <1>1, <1>2, AppendListed DEF Listed, PoolWhole
<1>4. \A t \in Socket \ {s} : Listed(t)' = Listed(t)
  BY <1>2 DEF Listed
<1>5. \A t \in Socket : IsInjective(list'[t])
  BY <1>2, <1>3 DEF PoolWhole
<1> QED
  BY <1>1, <1>3, <1>4, <1>5 DEF PoolWhole

LEMMA ListGives ==
  ASSUME Typed, PoolWhole, NEW s \in Socket, list[s] # <<>>, hand = {},
         hand' = {Head(list[s])}, list' = [list EXCEPT ![s] = Tail(list[s])],
         UNCHANGED <<free, inIsr>>
  PROVE  /\ PoolWhole' /\ Listed(s)' = Listed(s) \ {Head(list[s])} /\ Head(list[s]) \in Listed(s)
         /\ \A t \in Socket \ {s} : Listed(t)' = Listed(t)
<1>1. list[s] \in Seq(Pbuf) /\ IsInjective(list[s]) /\ s \in DOMAIN list
  BY ListsOf DEF Typed, PoolWhole
<1>2. list'[s] = Tail(list[s]) /\ \A t \in Socket \ {s} : list'[t] = list[t]
  BY <1>1 DEF Typed
<1>3. /\ Listed(s)' = Listed(s) \ {Head(list[s])} /\ Head(list[s]) \in Listed(s)
      /\ IsInjective(list'[s])
  BY <1>1, <1>2, TailListed DEF Listed
<1>4. \A t \in Socket \ {s} : Listed(t)' = Listed(t)
  BY <1>2 DEF Listed
<1>5. \A t \in Socket : IsInjective(list'[t])
  BY <1>2, <1>3 DEF PoolWhole
<1> QED
  BY <1>1, <1>3, <1>4, <1>5 DEF PoolWhole

PoolInv == PoolWhole /\ HandsInv

LEMMA EthInitPool == EthInit => PoolInv
<1> SUFFICES ASSUME EthInit PROVE PoolInv
  OBVIOUS
<1>1. \A s \in Socket : Listed(s) = {} /\ IsInjective(list[s])
  BY DEF EthInit, Listed, Range, IsInjective
<1> QED
  BY <1>1 DEF EthInit, PoolInv, PoolWhole, HandsInv

LEMMA StepHands == ASSUME HandsInv, [EthNext]_vars PROVE HandsInv'
<1>1. CASE DmaSends \/ (\E to \in Socket \cup {Peer} : Arrives(to)) \/ UNCHANGED vars
  BY <1>1 DEF HandsInv, DmaSends, Arrives, vars, isrVars, mainVars
<1>2. CASE EntersInterrupt \/ LooksInVain \/ ClearsPending
  BY <1>2 DEF HandsInv, EntersInterrupt, LooksInVain, ClearsPending, mainVars
<1>3. CASE Handles
  BY <1>3 DEF HandsInv, Handles, lwip_pkt_handle, runAtSocketRecv, mainVars, isrVars
<1>4. CASE Prints
  BY <1>4 DEF HandsInv, Prints, mainVars
<1>5. CASE IsrSends \/ IsrSent
  BY <1>5 DEF HandsInv, IsrSends, IsrSent, mainVars
<1>6. CASE \/ \E s \in Socket : recvfrom(s)
           \/ \E c \in Payload : sendto(c)
           \/ Protects \/ Unprotects
  BY <1>6 DEF HandsInv, recvfrom, sendto, Protects, Unprotects, From, isrVars
<1>7. CASE Takes \/ Reads \/ Frees \/ Sends
  BY <1>7 DEF HandsInv, Takes, Reads, Frees, Sends, From, isrVars
<1> QED
  BY <1>1, <1>2, <1>3, <1>4, <1>5, <1>6, <1>7 DEF EthNext, ETH_IRQHandler, Task

LEMMA StepPool == ASSUME Typed, PoolInv, [EthNext]_vars PROVE PoolInv'
<1>1. HandsInv' /\ HandsInv /\ PoolWhole
  BY StepHands DEF PoolInv
<1>2. CASE UNCHANGED <<free, hand, inIsr, list>>
  BY <1>1, <1>2, PoolKept DEF PoolInv
<1>3. CASE DmaSends \/ (\E to \in Socket \cup {Peer} : Arrives(to)) \/ UNCHANGED vars
  BY <1>2, <1>3 DEF DmaSends, Arrives, vars, isrVars, mainVars, poolVars, listVars
<1>4. CASE EntersInterrupt \/ LooksInVain \/ ClearsPending \/ IsrSends
  BY <1>2, <1>4 DEF EntersInterrupt, LooksInVain, ClearsPending, IsrSends, mainVars, poolVars, listVars
<1>5. CASE Handles
  <2> DEFINE f == Head(ring)
             d == [to |-> f.to, n |-> f.n]
  <2>1. isr = "look" /\ inIsr = {} /\ UNCHANGED hand
    BY <1>1, <1>5 DEF Handles, HandsInv, mainVars
  <2>2. CASE (\E p \in free : pbuf_alloc(p, d) /\ inIsr' = {p}) /\ UNCHANGED list
    BY <1>1, <2>1, <2>2, HandTakes DEF pbuf_alloc, PoolInv
  <2>3. CASE f.to \in callback /\ (\E p \in free : runAtSocketRecv(f.to, p, d)) /\ UNCHANGED inIsr
    <3>1. f.to \in Socket
      BY <2>3 DEF Typed
    <3> PICK p \in free : runAtSocketRecv(f.to, p, d)
      BY <2>3
    <3>2. CASE Len(list[f.to]) < ListSlots - 1
      <4>1. free' = free \ {p} /\ list' = [list EXCEPT ![f.to] = Append(list[f.to], p)]
        BY <3>2, Zenon DEF runAtSocketRecv, pbuf_alloc
      <4> QED
        BY <1>1, <2>1, <2>3, <3>1, <4>1, ListGets DEF PoolInv
    <3>3. CASE ~(Len(list[f.to]) < ListSlots - 1)
      BY <1>2, <2>1, <2>3, <3>3 DEF runAtSocketRecv, poolVars
    <3> QED
      BY <3>2, <3>3
  <2>4. CASE UNCHANGED <<isrVars, poolVars, list>>
    BY <1>2, <2>1, <2>4 DEF isrVars, poolVars
  <2> QED
    BY <1>5, <2>2, <2>3, <2>4, Zenon DEF Handles, lwip_pkt_handle
<1>6. CASE Prints
  <2>1. inIsr = {} /\ UNCHANGED <<hand, list>>
    BY <1>1, <1>6 DEF Prints, HandsInv, mainVars, listVars
  <2>2. CASE \E p \in free : pbuf_alloc(p, Blank) /\ inIsr' = {p}
    BY <1>1, <2>1, <2>2, HandTakes DEF pbuf_alloc, PoolInv
  <2>3. CASE UNCHANGED <<inIsr, poolVars>>
    BY <1>2, <2>1, <2>3 DEF poolVars
  <2> QED
    BY <1>6, <2>2, <2>3 DEF Prints
<1>7. CASE IsrSent
  <2>1. free' = free \cup inIsr /\ inIsr' = {} /\ UNCHANGED <<hand, list>>
    BY <1>7 DEF IsrSent, pbuf_free, mainVars, listVars
  <2> QED
    BY <1>1, <2>1, HandGives DEF PoolInv
<1>8. ASSUME NEW c \in Payload, sendto(c) PROVE PoolInv'
  <2>1. hand = {} /\ UNCHANGED <<inIsr, list>>
    BY <1>1, <1>8 DEF sendto, HandsInv, From, isrVars, listVars
  <2> PICK p \in free : pbuf_alloc(p, Blank) /\ hand' = {p}
    BY <1>8 DEF sendto
  <2> QED
    BY <1>1, <2>1, HandTakes DEF pbuf_alloc, PoolInv
<1>9. CASE \/ \E s \in Socket : recvfrom(s)
           \/ Protects \/ Unprotects \/ Reads \/ Sends
  BY <1>2, <1>9 DEF recvfrom, Protects, Unprotects, Reads, Sends, isrVars, poolVars, listVars
<1>10. CASE Takes
  <2>1. hand = {} /\ UNCHANGED inIsr /\ at \in Socket
    BY <1>1, <1>10 DEF Takes, HandsInv, From, isrVars, Typed
  <2>2. CASE list[at] = <<>>
    BY <1>2, <1>10, <2>1, <2>2 DEF Takes, poolVars
  <2>3. CASE list[at] # <<>>
    <3>1. /\ hand' = {Head(list[at])} /\ list' = [list EXCEPT ![at] = Tail(list[at])]
          /\ UNCHANGED free
      BY <1>10, <2>3, Zenon DEF Takes, TakesOldest, poolVars
    <3> QED
      BY <1>1, <2>1, <2>3, <3>1, ListGives DEF PoolInv
  <2> QED
    BY <2>2, <2>3
<1>11. CASE Frees
  <2>1. free' = free \cup hand /\ hand' = {} /\ UNCHANGED <<inIsr, list>>
    BY <1>11 DEF Frees, pbuf_free, isrVars, listVars
  <2> QED
    BY <1>1, <2>1, HandGives DEF PoolInv
<1> QED
  BY <1>3, <1>4, <1>5, <1>6, <1>7, <1>8, <1>9, <1>10, <1>11 DEF EthNext, ETH_IRQHandler, Task
-----------------------------------------------------------------------------
(* Datagrams in order                                                        *)

Order(s) == ListInOrder(s) /\ RingInOrder(s) /\ NumbersGiven(s)
OrderInv == RingGiven /\ \A s \in Socket : Order(s)

LEMMA EthInitOrder == EthInit => OrderInv
<1> SUFFICES ASSUME EthInit PROVE OrderInv
  OBVIOUS
<1>1. RingGiven
  BY DEF EthInit, RingGiven
<1>2. ASSUME NEW s \in Socket PROVE Order(s)
  <2>1. Listed(s) = {} /\ list[s] = <<>> /\ hand = {} /\ ring = <<>> /\ read[s] = 0 /\ given = 0
    BY DEF EthInit, Listed, Range
  <2> QED
    BY <2>1 DEF Order, ListInOrder, RingInOrder, NumbersGiven
<1> QED
  BY <1>1, <1>2 DEF OrderInv

(* What is left of the ring is as it was, a place further on.                *)
RingLeft ==
  \/ ring' = ring
  \/ MoreToCome /\ ring' = Tail(ring)

LEMMA RingLeftAt ==
  ASSUME Typed, RingLeft
  PROVE  \/ ring' = ring
         \/ /\ 1 \in DOMAIN ring /\ ring[1] = Head(ring) /\ DOMAIN ring = 1 .. Len(ring)
            /\ \A k \in DOMAIN ring' : k + 1 \in DOMAIN ring /\ ring'[k] = ring[k + 1] /\ k \in Nat \ {0}
BY OldestFrame DEF RingLeft

LEMMA RingGivenLeft == Typed /\ RingGiven /\ RingLeft /\ given' = given => RingGiven'
BY RingLeftAt DEF RingGiven

(* A socket whose list, reader and pbufs an action leaves alone.             *)
LEMMA OrderKept ==
  ASSUME Typed, NEW s \in Socket, Order(s), RingLeft,
         list'[s] = list[s], read'[s] = read[s], given' = given,
         \A p \in Listed(s) : data'[p] = data[p],
         \/ hand' = {} \/ ~InHand(s)'
         \/ InHand(s) /\ hand' = hand /\ \A q \in hand : data'[q] = data[q]
  PROVE  Order(s)'
<1>1. Listed(s)' = Listed(s)
  BY DEF Listed
<1>2. \A q \in hand' : InHand(s)' => q \in hand /\ InHand(s) /\ data'[q] = data[q]
  OBVIOUS
<1> HIDE DEF InHand
<1>3. ListInOrder(s)'
  <2>1. \A j \in DOMAIN list[s] : list[s][j] \in Listed(s)
    BY ListsOf DEF Listed, Range
  <2> QED
    BY <1>1, <1>2, <2>1 DEF ListInOrder, Order
<1>4. RingInOrder(s)'
  <2>1. CASE ring' = ring
    BY <1>1, <1>2, <2>1 DEF RingInOrder, Order
  <2>2. CASE \A k \in DOMAIN ring' : k + 1 \in DOMAIN ring /\ ring'[k] = ring[k + 1] /\ k \in Nat \ {0}
    BY <1>1, <1>2, <2>2 DEF RingInOrder, Order
  <2> QED
    BY <2>1, <2>2, RingLeftAt
<1>5. NumbersGiven(s)'
  BY <1>1, <1>2 DEF NumbersGiven, Order
<1> QED
  BY <1>3, <1>4, <1>5 DEF Order

(* Numbers are numbers.                                                      *)
LEMMA Numbers ==
  ASSUME Typed
  PROVE  /\ given \in Nat /\ \A p \in Pbuf : data[p].n \in Nat
         /\ \A s \in Socket : read[s] \in Nat
         /\ \A k \in DOMAIN ring : ring[k].n \in Nat
<1>1. given \in Nat /\ \A s \in Socket : read[s] \in Nat
  BY EthAssumption DEF Typed
<1>2. \A p \in Pbuf : data[p].n \in Nat
  BY EthAssumption DEF Typed, Message
<1>3. ASSUME NEW k \in DOMAIN ring PROVE ring[k].n \in Nat
  <2>1. ring[k] \in Frame
    BY <1>3, ElementOfSeq, LenProperties DEF Typed
  <2> QED
    BY <2>1, EthAssumption DEF Frame
<1> QED
  BY <1>1, <1>2, <1>3

LEMMA ArrivesOrder ==
  ASSUME Typed, OrderInv, NEW to \in Socket \cup {Peer}, Arrives(to)
  PROVE  OrderInv'
<1>1. /\ UNCHANGED <<list, data, hand, main, at, read>>
      /\ given' = IF to = Peer THEN given ELSE given + 1
  BY DEF Arrives, poolVars, listVars, mainVars
<1>2. /\ given' \in Nat /\ given' >= given /\ \A k \in DOMAIN ring : ring[k].n <= given
      /\ to # Peer => given' > given
  BY <1>1, Numbers DEF OrderInv, RingGiven
<1>3. ASSUME NEW s \in Socket PROVE (ListInOrder(s) /\ NumbersGiven(s))'
  <2>1. ListInOrder(s) /\ NumbersGiven(s) /\ Listed(s)' = Listed(s) /\ InHand(s)' = InHand(s)
    BY <1>1 DEF OrderInv, Order, Listed, InHand
  <2>2. ListInOrder(s)'
    BY <1>1, <2>1 DEF ListInOrder
  <2>3. Listed(s) \subseteq Pbuf /\ hand \subseteq Pbuf
    BY ListsOf DEF Typed
  <2> HIDE DEF InHand
  <2>4. NumbersGiven(s)'
    BY <1>1, <1>2, <2>1, <2>3, Numbers DEF NumbersGiven
  <2> QED
    BY <2>2, <2>4
<1>4. CASE ring' = ring
  <2>1. RingGiven'
    BY <1>2, <1>4, Numbers DEF RingGiven
  <2>2. \A s \in Socket : RingInOrder(s)'
    BY <1>1, <1>4 DEF RingInOrder, OrderInv, Order, Listed, InHand
  <2> QED
    BY <1>3, <2>1, <2>2 DEF OrderInv, Order
<1>5. CASE Len(ring) < RxNum
  <2> DEFINE f == [to |-> to, n |-> given', late |-> isr = "clear"]
  <2>1. ring' = Append(ring, f)
    BY <1>5, Zenon DEF Arrives
  <2>2. f.to = to /\ f.n = given'
    BY Zenon
  <2> HIDE DEF f
  <2>3. /\ DOMAIN ring = 1 .. Len(ring) /\ Len(ring) \in Nat /\ DOMAIN ring' = 1 .. Len(ring) + 1
        /\ ring'[Len(ring) + 1] = f /\ \A k \in DOMAIN ring : ring'[k] = ring[k]
    BY <2>1, LenProperties DEF Typed
  <2>4. RingGiven'
    BY <1>2, <2>2, <2>3, Numbers DEF RingGiven
  <2>5. ASSUME NEW s \in Socket PROVE RingInOrder(s)'
    <3>1. Listed(s)' = Listed(s) /\ InHand(s)' = InHand(s) /\ RingInOrder(s) /\ NumbersGiven(s)
      BY <1>1 DEF OrderInv, Order, Listed, InHand
    <3>2. Listed(s) \subseteq Pbuf /\ hand \subseteq Pbuf
      BY ListsOf DEF Typed
    <3> HIDE DEF InHand
    <3> SUFFICES ASSUME NEW k \in DOMAIN ring', ring'[k].to = s
                 PROVE  /\ read'[s] < ring'[k].n
                        /\ \A p \in Listed(s) : data'[p].n < ring'[k].n
                        /\ \A q \in hand : InHand(s) => data'[q].n < ring'[k].n
                        /\ \A j \in DOMAIN ring' : ring'[j].to = s /\ j < k => ring'[j].n < ring'[k].n
      BY <1>1, <3>1 DEF RingInOrder
    <3>3. CASE k \in DOMAIN ring
      <4>1. \A j \in DOMAIN ring' : j < k => j \in DOMAIN ring
        BY <2>3, <3>3
      <4> QED
        BY <1>1, <2>3, <3>1, <3>3, <4>1 DEF RingInOrder
    <3>4. CASE k = Len(ring) + 1
      <4>1. to # Peer /\ ring'[k].n = given'
        BY <2>2, <2>3, <3>4, EthAssumption
      <4>2. given < given' /\ given \in Nat
        BY <1>2, <4>1, Numbers
      <4>3. \A j \in DOMAIN ring' : j < k => ring'[j].n <= given /\ ring'[j].n \in Nat
        BY <1>2, <2>3, <3>4, Numbers
      <4> QED
        BY <1>1, <1>2, <3>1, <3>2, <4>1, <4>2, <4>3, Numbers DEF NumbersGiven
    <3> QED
      BY <2>3, <3>3, <3>4
  <2> QED
    BY <1>3, <2>4, <2>5 DEF OrderInv, Order
<1> QED
  BY <1>4, <1>5 DEF Arrives, rxVars

(* A datagram goes behind the others of its socket's list.                   *)
LEMMA ListedOrder ==
  ASSUME Typed, PoolWhole, OrderInv, MoreToCome, NEW s \in Socket, Head(ring).to = s,
         NEW p \in free, pbuf_alloc(p, [to |-> s, n |-> Head(ring).n]),
         list' = [list EXCEPT ![s] = Append(list[s], p)], ring' = Tail(ring),
         UNCHANGED <<hand, main, at, inIsr, read, given>>
  PROVE  OrderInv'
<1>1. /\ Listed(s)' = Listed(s) \cup {p} /\ p \notin Listed(s)
      /\ \A t \in Socket \ {s} : Listed(t)' = Listed(t)
  BY ListGets DEF pbuf_alloc
<1>2. /\ list[s] \in Seq(Pbuf) /\ DOMAIN list[s] = 1 .. Len(list[s]) /\ Len(list[s]) \in Nat
      /\ p \in Pbuf
  BY ListsOf DEF Typed
<1>3. \A t \in Socket \ {s} : list'[t] = list[t]
  BY DEF Typed
<1>4. list'[s] = Append(list[s], p)
  BY DEF Typed
<1>5. data'[p].to = s /\ data'[p].n = Head(ring).n /\ \A q \in Pbuf \ {p} : data'[q] = data[q]
  BY <1>2 DEF pbuf_alloc, Typed
<1>6. \A t \in Socket : p \notin Listed(t) /\ Listed(t) \subseteq Pbuf \ {p}
  BY ListsOf DEF PoolWhole
<1>7. hand \subseteq Pbuf \ {p}
  BY DEF PoolWhole, Typed
<1>8. RingLeft
  BY DEF RingLeft
<1>9. RingGiven'
  BY <1>8, RingGivenLeft DEF OrderInv
<1>10. ASSUME NEW t \in Socket \ {s} PROVE Order(t)'
  <2>1. Order(t) /\ InHand(t)' = InHand(t)
    BY DEF OrderInv, InHand
  <2>2. \A q \in Listed(t) : data'[q] = data[q]
    BY <1>5, <1>6
  <2>3. \A q \in hand : data'[q] = data[q]
    BY <1>5, <1>7
  <2> HIDE DEF InHand
  <2> QED
    BY <1>3, <1>8, <2>1, <2>2, <2>3, OrderKept
<1>11. Order(s)'
  <2> DEFINE f == ring[1]
  <2>1. Order(s) /\ InHand(s)' = InHand(s)
    BY DEF OrderInv, InHand
  <2>2. /\ 1 \in DOMAIN ring /\ f = Head(ring) /\ f.to = s
        /\ \A k \in DOMAIN ring' : k + 1 \in DOMAIN ring /\ ring'[k] = ring[k + 1] /\ k \in Nat \ {0}
    BY OldestFrame
  <2>3. /\ read[s] < f.n /\ \A q \in Listed(s) : data[q].n < f.n
        /\ \A q \in hand : InHand(s) => data[q].n < f.n
        /\ \A k \in DOMAIN ring' : ring'[k].to = s => f.n < ring'[k].n
    BY <2>1, <2>2 DEF Order, RingInOrder
  <2> HIDE DEF f, InHand
  <2>4. /\ DOMAIN list'[s] = 1 .. Len(list[s]) + 1 /\ list'[s][Len(list[s]) + 1] = p
        /\ \A k \in DOMAIN list[s] : list'[s][k] = list[s][k] /\ list[s][k] \in Listed(s)
    BY <1>2, <1>4 DEF Listed, Range
  <2>5. ListInOrder(s)'
    <3>1. \A j, k \in DOMAIN list'[s] : j < k => data'[list'[s][j]].n < data'[list'[s][k]].n
      <4> SUFFICES ASSUME NEW j \in DOMAIN list'[s], NEW k \in DOMAIN list'[s], j < k
                   PROVE  data'[list'[s][j]].n < data'[list'[s][k]].n
        OBVIOUS
      <4>1. j \in DOMAIN list[s] /\ list'[s][j] \in Listed(s)
        BY <1>2, <2>4
      <4>2. CASE k \in DOMAIN list[s]
        BY <1>5, <1>6, <2>1, <2>4, <4>1, <4>2 DEF Order, ListInOrder
      <4>3. CASE k = Len(list[s]) + 1
        BY <1>5, <1>6, <2>2, <2>3, <2>4, <4>1, <4>3
      <4> QED
        BY <1>2, <2>4, <4>2, <4>3
    <3>2. ASSUME NEW q \in Listed(s)'
          PROVE  /\ data'[q].to = s /\ read'[s] < data'[q].n
                 /\ \A h \in hand' : InHand(s)' => data'[h].n < data'[q].n
      <4>1. CASE q = p
        BY <1>5, <1>7, <2>1, <2>2, <2>3, <4>1
      <4>2. CASE q \in Listed(s)
        BY <1>5, <1>6, <1>7, <2>1, <4>2 DEF Order, ListInOrder
      <4> QED
        BY <1>1, <4>1, <4>2
    <3>3. \A h \in hand' : InHand(s)' => data'[h].to = s /\ read'[s] < data'[h].n
      BY <1>5, <1>7, <2>1 DEF Order, ListInOrder
    <3> QED
      BY <3>1, <3>2, <3>3 DEF ListInOrder
  <2>6. RingInOrder(s)'
    <3>1. ASSUME NEW k \in DOMAIN ring', ring'[k].to = s
          PROVE  /\ read'[s] < ring'[k].n
                 /\ \A q \in Listed(s)' : data'[q].n < ring'[k].n
                 /\ \A h \in hand' : InHand(s)' => data'[h].n < ring'[k].n
                 /\ \A j \in DOMAIN ring' : ring'[j].to = s /\ j < k => ring'[j].n < ring'[k].n
      <4>1. ring[k + 1].to = s /\ k + 1 \in DOMAIN ring
        BY <2>2, <3>1
      <4>2. data'[p].n < ring'[k].n
        BY <1>5, <2>2, <2>3, <3>1
      <4>3. \A j \in DOMAIN ring' : ring'[j].to = s /\ j < k => ring'[j].n < ring'[k].n
        <5> SUFFICES ASSUME NEW j \in DOMAIN ring', ring'[j].to = s, j < k
                     PROVE  ring'[j].n < ring'[k].n
          OBVIOUS
        <5>1. j + 1 < k + 1 /\ j + 1 \in DOMAIN ring /\ ring[j + 1].to = s
          BY <2>2
        <5> QED
          BY <2>1, <2>2, <4>1, <5>1 DEF Order, RingInOrder
      <4> QED
        BY <1>1, <1>5, <1>6, <1>7, <2>1, <2>2, <4>1, <4>2, <4>3 DEF Order, RingInOrder
    <3> QED
      BY <3>1 DEF RingInOrder
  <2>7. NumbersGiven(s)'
    <3>1. data'[p].n <= given
      BY <1>5, <2>2 DEF OrderInv, RingGiven
    <3> QED
      BY <1>1, <1>5, <1>6, <1>7, <2>1, <3>1 DEF Order, NumbersGiven
  <2> QED
    BY <2>5, <2>6, <2>7 DEF Order
<1> QED
  BY <1>9, <1>10, <1>11 DEF OrderInv

(* The oldest of a list is older than the others, and than what is to come.  *)
LEMMA TakenOrder ==
  ASSUME Typed, PoolWhole, OrderInv, hand = {}, list[at] # <<>>, main' = "taken",
         hand' = {Head(list[at])}, list' = [list EXCEPT ![at] = Tail(list[at])],
         UNCHANGED <<free, inIsr, data, at, ring, read, given>>
  PROVE  OrderInv'
<1> DEFINE s == at
           h == list[at][1]
<1>1. /\ s \in Socket /\ list[s] \in Seq(Pbuf) /\ DOMAIN list[s] = 1 .. Len(list[s])
      /\ Len(list[s]) \in Nat
  BY ListsOf DEF Typed
<1>2. /\ h = Head(list[s]) /\ 1 \in DOMAIN list[s] /\ Tail(list[s]) \in Seq(Pbuf)
      /\ Len(Tail(list[s])) = Len(list[s]) - 1
      /\ \A k \in 1 .. Len(list[s]) - 1 : Tail(list[s])[k] = list[s][k + 1]
  BY <1>1, HeadTailProperties, EmptySeq
<1>3. list'[s] = Tail(list[s]) /\ \A t \in Socket \ {s} : list'[t] = list[t]
  BY <1>1 DEF Typed
<1>4. DOMAIN list'[s] = 1 .. Len(list[s]) - 1
  BY <1>2, <1>3, LenProperties
<1>5. RingGiven' /\ RingLeft
  BY DEF OrderInv, RingGiven, RingLeft
<1>6. ASSUME NEW t \in Socket \ {s} PROVE Order(t)'
  <2>1. Order(t) /\ ~InHand(t)'
    BY DEF OrderInv, InHand
  <2> HIDE DEF InHand
  <2> QED
    BY <1>3, <1>5, <2>1, OrderKept
<1>7. Order(s)'
  <2>1. ListInOrder(s) /\ RingInOrder(s) /\ NumbersGiven(s) /\ h \in Listed(s) /\ hand' = {h}
    BY <1>1, <1>2 DEF OrderInv, Order, Listed, Range
  <2>2. Listed(s)' = Listed(s) \ {h}
    BY <1>1, <1>2, ListGives
  <2>3. ASSUME NEW p \in Listed(s) \ {h} PROVE data[h].n < data[p].n
    <3>1. PICK k \in DOMAIN list[s] : p = list[s][k]
      BY <2>3 DEF Listed, Range
    <3>2. 1 < k
      BY <1>1, <2>3, <3>1
    <3> QED
      BY <1>2, <2>1, <3>1, <3>2 DEF ListInOrder
  <2>4. \A j, k \in DOMAIN list'[s] : j < k => data[list'[s][j]].n < data[list'[s][k]].n
    <3> SUFFICES ASSUME NEW j \in DOMAIN list'[s], NEW k \in DOMAIN list'[s], j < k
                 PROVE  data[list'[s][j]].n < data[list'[s][k]].n
      OBVIOUS
    <3>1. /\ j + 1 \in DOMAIN list[s] /\ k + 1 \in DOMAIN list[s] /\ j + 1 < k + 1
          /\ list'[s][j] = list[s][j + 1] /\ list'[s][k] = list[s][k + 1]
      BY <1>1, <1>2, <1>3, <1>4
    <3> QED
      BY <2>1, <3>1 DEF ListInOrder
  <2> HIDE DEF s, h
  <2>5. ListInOrder(s)'
    BY <2>1, <2>2, <2>3, <2>4 DEF ListInOrder, s
  <2>6. RingInOrder(s)'
    BY <2>1, <2>2 DEF RingInOrder, s
  <2>7. NumbersGiven(s)'
    BY <2>1, <2>2 DEF NumbersGiven, s
  <2> QED
    BY <2>5, <2>6, <2>7 DEF Order, s
<1> QED
  BY <1>5, <1>6, <1>7 DEF OrderInv

(* What was read was in hand, and older than all that is left.               *)
LEMMA ReadOrder ==
  ASSUME Typed, OrderInv, main = "read", main' = "free", NEW q \in hand,
         read' = [read EXCEPT ![at] = data[q].n],
         UNCHANGED <<list, data, hand, at, ring, given>>
  PROVE  OrderInv'
<1>1. at \in Socket /\ at \in DOMAIN read
  BY DEF Typed
<1>2. read'[at] = data[q].n /\ \A t \in Socket \ {at} : read'[t] = read[t]
  BY <1>1 DEF Typed
<1>3. RingGiven' /\ RingLeft
  BY DEF OrderInv, RingGiven, RingLeft
<1>4. ASSUME NEW t \in Socket \ {at} PROVE Order(t)'
  <2>1. Order(t) /\ ~InHand(t)'
    BY DEF OrderInv, InHand
  <2> HIDE DEF InHand
  <2> QED
    BY <1>2, <1>3, <2>1, OrderKept
<1>5. Order(at)'
  <2>1. ListInOrder(at) /\ RingInOrder(at) /\ NumbersGiven(at) /\ InHand(at) /\ ~InHand(at)'
    BY <1>1 DEF OrderInv, Order, InHand
  <2>2. Listed(at)' = Listed(at)
    BY DEF Listed
  <2> HIDE DEF InHand
  <2>3. ListInOrder(at)'
    BY <1>2, <2>1, <2>2 DEF ListInOrder
  <2>4. RingInOrder(at)'
    BY <1>2, <2>1, <2>2 DEF RingInOrder
  <2>5. NumbersGiven(at)'
    BY <1>2, <2>1, <2>2 DEF NumbersGiven
  <2> QED
    BY <2>3, <2>4, <2>5 DEF Order
<1> QED
  BY <1>3, <1>4, <1>5 DEF OrderInv

LEMMA StepOrder ==
  ASSUME Typed, PoolInv, OrderInv, [EthNext]_vars
  PROVE  OrderInv'
<1>1. PoolWhole /\ HandsInv
  BY DEF PoolInv
(* No list, no reader and no pbuf that is listed or in hand *)
<1>2. ASSUME RingLeft, UNCHANGED <<list, read, given>>,
             \A p \in Pbuf : p \in free \cup inIsr \/ data'[p] = data[p],
             \/ hand' = {} \/ main' \notin {"taken", "read"}
             \/ main \in {"taken", "read"} /\ UNCHANGED <<at, hand>>
      PROVE  OrderInv'
  <2>1. RingGiven'
    BY <1>2, RingGivenLeft DEF OrderInv
  <2>2. ASSUME NEW s \in Socket PROVE Order(s)'
    <3>1. \A p \in Listed(s) \cup hand : data'[p] = data[p]
      BY <1>1, <1>2, ListsOf DEF PoolWhole, Typed
    <3>2. Order(s)
      BY DEF OrderInv
    <3>3. hand' = {} \/ ~InHand(s)' \/ (InHand(s) /\ hand' = hand)
      BY <1>2 DEF InHand
    <3> HIDE DEF InHand
    <3> QED
      BY <1>2, <3>1, <3>2, <3>3, OrderKept
  <2> QED
    BY <2>1, <2>2 DEF OrderInv
<1>3. ASSUME RingLeft, UNCHANGED <<list, read, given, main, at, hand>>,
             \A p \in Pbuf : p \in free \cup inIsr \/ data'[p] = data[p]
      PROVE  OrderInv'
  BY <1>2, <1>3
<1>4. CASE DmaSends \/ UNCHANGED vars
  BY <1>3, <1>4 DEF DmaSends, vars, rxVars, poolVars, listVars, mainVars, RingLeft
<1>5. CASE EntersInterrupt \/ LooksInVain \/ ClearsPending \/ IsrSends
  BY <1>3, <1>5
  DEF EntersInterrupt, LooksInVain, ClearsPending, IsrSends, rxVars, poolVars, listVars, mainVars, RingLeft
<1>6. ASSUME NEW p \in free, NEW d, pbuf_alloc(p, d)
      PROVE  \A r \in Pbuf : r \in free \cup inIsr \/ data'[r] = data[r]
  BY <1>6 DEF pbuf_alloc, Typed
<1>7. CASE Handles
  <2> DEFINE f == Head(ring)
             d == [to |-> f.to, n |-> f.n]
  <2>1. MoreToCome /\ ring' = Tail(ring) /\ UNCHANGED <<main, at, hand, read, given>>
    BY <1>7, Zenon DEF Handles, lwip_pkt_handle, mainVars
  <2>2. RingLeft
    BY <2>1 DEF RingLeft
  <2>3. CASE (\E p \in free : pbuf_alloc(p, d)) /\ UNCHANGED list
    BY <1>3, <1>6, <2>1, <2>2, <2>3
  <2>4. CASE f.to \in callback /\ (\E p \in free : runAtSocketRecv(f.to, p, d)) /\ UNCHANGED inIsr
    <3>1. f.to \in Socket
      BY <2>4 DEF Typed
    <3> PICK p \in free : runAtSocketRecv(f.to, p, d)
      BY <2>4
    <3>2. CASE Len(list[f.to]) < ListSlots - 1
      <4>1. pbuf_alloc(p, d) /\ list' = [list EXCEPT ![f.to] = Append(list[f.to], p)]
        BY <3>2, Zenon DEF runAtSocketRecv
      <4> QED
        BY <1>1, <2>1, <2>4, <3>1, <4>1, ListedOrder
    <3>3. CASE ~(Len(list[f.to]) < ListSlots - 1)
      BY <1>3, <2>1, <2>2, <3>3 DEF runAtSocketRecv, poolVars
    <3> QED
      BY <3>2, <3>3
  <2>5. CASE UNCHANGED <<isrVars, poolVars, list>>
    BY <1>3, <2>1, <2>2, <2>5 DEF poolVars
  <2> QED
    BY <1>7, <2>3, <2>4, <2>5, Zenon DEF Handles, lwip_pkt_handle
<1>8. CASE Prints
  <2>1. RingLeft /\ UNCHANGED <<list, read, given, main, at, hand>>
    BY <1>8 DEF Prints, rxVars, listVars, mainVars, RingLeft
  <2>2. CASE \E p \in free : pbuf_alloc(p, Blank)
    BY <1>3, <1>6, <2>1, <2>2
  <2>3. CASE UNCHANGED poolVars
    BY <1>3, <2>1, <2>3 DEF poolVars
  <2> QED
    BY <1>8, <2>2, <2>3, Zenon DEF Prints, poolVars
<1>9. CASE IsrSent
  BY <1>3, <1>9 DEF IsrSent, pbuf_free, rxVars, listVars, mainVars, RingLeft
<1>10. ASSUME NEW s \in Socket, recvfrom(s) PROVE OrderInv'
  BY <1>2, <1>10 DEF recvfrom, rxVars, poolVars, RingLeft
<1>11. ASSUME NEW c \in Payload, sendto(c) PROVE OrderInv'
  <2>1. RingLeft /\ UNCHANGED <<list, read, given>> /\ main' = "send"
    BY <1>11 DEF sendto, rxVars, listVars, RingLeft
  <2> QED
    BY <1>2, <1>6, <1>11, <2>1 DEF sendto
<1>12. CASE Protects \/ Unprotects \/ Sends
  BY <1>2, <1>12 DEF Protects, Unprotects, Sends, From, rxVars, poolVars, listVars, RingLeft
<1>13. CASE Takes
  <2>1. hand = {} /\ at \in Socket /\ main' = "taken" /\ UNCHANGED <<inIsr, at, ring, read, given>>
    BY <1>1, <1>13 DEF Takes, HandsInv, From, isrVars, rxVars, Typed
  <2>2. CASE list[at] = <<>>
    BY <1>2, <1>13, <2>1, <2>2 DEF Takes, poolVars, RingLeft
  <2>3. CASE list[at] # <<>>
    <3>1. /\ hand' = {Head(list[at])} /\ list' = [list EXCEPT ![at] = Tail(list[at])]
          /\ UNCHANGED <<free, data>>
      BY <1>13, <2>3, Zenon DEF Takes, TakesOldest, poolVars
    <3> QED
      BY <1>1, <2>1, <2>3, <3>1, TakenOrder
  <2> QED
    BY <2>2, <2>3
<1>14. CASE Reads
  <2> PICK q \in hand : read' = [read EXCEPT ![at] = data[q].n]
    BY <1>14 DEF Reads
  <2> QED
    BY <1>14, ReadOrder DEF Reads, From, rxVars, poolVars, listVars
<1>15. CASE Frees
  <2>1. RingLeft /\ UNCHANGED <<list, read, given>> /\ hand' = {} /\ main' = "idle"
    BY <1>15 DEF Frees, rxVars, listVars, RingLeft
  <2>2. RingGiven'
    BY <2>1, RingGivenLeft DEF OrderInv
  <2>3. ASSUME NEW s \in Socket PROVE Order(s)'
    <3>1. \A p \in Listed(s) : data'[p] = data[p]
      BY <1>1, <1>15, ListsOf DEF Frees, pbuf_free, PoolWhole
    <3>2. Order(s)
      BY DEF OrderInv
    <3> QED
      BY <2>1, <3>1, <3>2, OrderKept
  <2> QED
    BY <2>2, <2>3 DEF OrderInv
<1> QED
  BY <1>4, <1>5, <1>7, <1>8, <1>9, <1>10, <1>11, <1>12, <1>13, <1>14, <1>15, ArrivesOrder
  DEF EthNext, ETH_IRQHandler, Task
-----------------------------------------------------------------------------
(* The inductive invariant *)
EthInv == Typed /\ TxInv /\ RxWake /\ TxWake /\ PoolInv /\ OrderInv

(* The parts hold together in every reachable state: each pbuf in one place  *)
(* is what keeps a listed datagram from being overwritten, and the exclusion *)
(* of interrupt and protected section is what keeps the transmit buffers.    *)
THEOREM EthInvariant == EthSpec => []EthInv
<1>1. EthInit => EthInv
  BY EthInitTyped, EthInitTx, EthInitWake, EthInitPool, EthInitOrder DEF EthInv
<1>2. EthInv /\ [EthNext]_vars => EthInv'
  BY StepTyped, StepTx, StepRxWake, StepTxWake, StepPool, StepOrder DEF EthInv, TxInv
<1> QED
  BY <1>1, <1>2, PTL DEF EthSpec

(* No pbuf is lost, none is in two places, none is freed while a list, the   *)
(* reader or a sender still has it (socket.cpp's lists, recvSocketMsg).      *)
THEOREM EthTypeCorrect == EthSpec => []EthTypeOK
<1>1. EthInv => EthTypeOK
  BY DEF EthInv, PoolInv, EthTypeOK
<1> QED
  BY <1>1, EthInvariant, PTL

(* recvfrom hands a socket's datagrams over in the order they came in, none  *)
(* twice and none of another socket's.                                       *)
THEOREM DatagramsReadAsArrived == EthSpec => []ReadAsArrived
<1>1. EthInv => ReadAsArrived
  BY DEF EthInv, OrderInv, Order, ReadAsArrived
<1> QED
  BY <1>1, EthInvariant, PTL

(* A frame left in the ring without an interrupt came in behind the last     *)
(* look of ETH_IRQHandler, and a frame handed to a suspended transmit DMA    *)
(* has its sender about to resume it.                                        *)
THEOREM NoWakeUpLost == EthSpec => []NoLostWakeUp
<1>1. EthInv => NoLostWakeUp
  BY WakeUps DEF EthInv
<1> QED
  BY <1>1, EthInvariant, PTL

(* What ETH_Tx_Packet returned ETH_SUCCESS for goes out as it was given,     *)
(* unless a sender has gone round the whole ring.                            *)
THEOREM FramesSentAsGiven == EthSpec => []SentAsGiven
<1>1. EthInv => SentAsGiven
  BY DEF EthInv, TxInv
<1> QED
  BY <1>1, EthInvariant, PTL
=============================================================================
