------------------------------ MODULE EthSocket ------------------------------
(* Datagrams between the wire and the main loop: the descriptor rings of the *)
(* Ethernet DMA, the receive interrupt, lwIP's pool of pbufs, the list each  *)
(* socket keeps for its reader, recvfrom and sendto.  The interrupt may come *)
(* between any two steps of the main loop, unless SYS_ARCH_PROTECT has       *)
(* disabled it, and the DMA works on between any two steps of both.          *)
EXTENDS Naturals, Sequences, Functions

CONSTANTS
  Socket,       \* the sockets that are read
  Peer,         \* where a frame goes that lwIP answers itself: ARP, ICMP
  Payload,      \* what the tasks send
  Reply, Text,  \* what the interrupt sends: an answer, a character of printf
  Pbuf,         \* the pbufs of lwIP's pool: 20
  RxNum, TxNum, \* descriptors: 20 and 5
  ListSlots,    \* MAX_SOCK_PBUF_NUM, slots of a list; one of them stays empty
  PrintLen,     \* bound: characters of the message about a thrown away frame
  MaxGiven      \* bound: datagrams to the sockets

Content == Payload \cup {Reply, Text}
Desc == 0 .. TxNum - 1
Message == [to : Socket \cup {Peer}, n : 0 .. MaxGiven]
Blank == [to |-> Peer, n |-> 0]

ASSUME EthAssumption ==
  /\ RxNum \in Nat \ {0} /\ TxNum \in Nat \ {0} /\ ListSlots \in Nat \ {0}
  /\ PrintLen \in Nat /\ MaxGiven \in Nat /\ Peer \notin Socket

VARIABLES
  ring,         \* frames in descriptors the receive DMA has given up, oldest first
  pend,         \* R and NIS of DMASR
  enabled,      \* R and NIS of the interrupt mask
  isr,          \* where ETH_IRQHandler is
  prints,       \* characters it still has to print
  inIsr,        \* the pbuf it is sending, as a set
  free, data,   \* the pool's free list, and what each pbuf holds
  list,         \* splist of each socket
  callback,     \* sockets whose pcb has its receive function
  main,         \* where the main loop is
  at,           \* the socket it reads
  msg,          \* what it sends
  hand,         \* the pbuf it has in hand, as a set
  buf, own,     \* transmit buffers; descriptors that belong to the DMA
  toSet, toSend,\* DMATxDescToSet, and the descriptor the DMA comes to next
  running,      \* the transmit DMA is not suspended (TBUS)
  given, read,  \* history: number of the last datagram, and of the last one read from a socket
  promised,     \* history: what ETH_SUCCESS was returned for
  lapped        \* history: descriptors written over while the DMA had them

rxVars == <<ring, pend>>
poolVars == <<free, data>>
listVars == <<list, callback>>
txVars == <<buf, own, toSet, toSend, running, promised, lapped>>
mainVars == <<main, at, msg, hand>>
isrVars == <<isr, prints, inIsr>>
vars == <<rxVars, enabled, isrVars, poolVars, listVars, mainVars, txVars, given, read>>

Isr == {"off", "look", "copy", "packet", "resume", "print", "clear"}
Main == {"idle", "recv", "take", "taken", "read", "send", "copy", "packet",
         "resume", "sent", "free"}

EthInit ==
  /\ ring = <<>> /\ pend = FALSE /\ enabled = TRUE
  /\ isr = "off" /\ prints = 0 /\ inIsr = {}
  /\ free = Pbuf /\ data = [p \in Pbuf |-> Blank]
  /\ list = [s \in Socket |-> <<>>] /\ callback = {}
  /\ main = "idle" /\ at \in Socket /\ msg \in Payload /\ hand = {}
  /\ buf \in [Desc -> {Text}] /\ own = {} /\ toSet = 0 /\ toSend = 0 /\ running = TRUE
  /\ given = 0 /\ read = [s \in Socket |-> 0]
  /\ promised = buf /\ lapped = {}
-----------------------------------------------------------------------------
(* lwIP's pool.  memp_malloc and memp_free disable the interrupt, so each is *)
(* one step.  A chain of pbufs counts as one.                                *)
pbuf_alloc(p, d) == p \in free /\ free' = free \ {p} /\ data' = [data EXCEPT ![p] = d]
pbuf_free(ps) == free' = free \cup ps /\ data' = [p \in Pbuf |-> IF p \in ps THEN Blank ELSE data[p]]
-----------------------------------------------------------------------------
(* Transmitting: low_level_output, by the main loop and by the interrupt     *)

(* The frame is copied into the buffer of the current descriptor.            *)
Copied(c) ==
  /\ buf' = [buf EXCEPT ![toSet] = c]
  /\ lapped' = IF toSet \in own THEN lapped \cup {toSet} ELSE lapped
  /\ UNCHANGED <<own, toSet, toSend, running, promised>>

(* The descriptors are chained, the last to the first.                       *)
Next(d) == IF d + 1 = TxNum THEN 0 ELSE d + 1

(* ETH_Tx_Packet: the descriptor goes to the DMA, unless it has it already.  *)
ETH_Tx_Packet(c) ==
  /\ toSet \notin own
  /\ own' = own \cup {toSet} /\ toSet' = Next(toSet)
  /\ promised' = [promised EXCEPT ![toSet] = c] /\ lapped' = lapped \ {toSet}
  /\ UNCHANGED <<buf, toSend, running>>

ETH_ERROR == toSet \in own /\ UNCHANGED txVars

\* mutant: TBUS is cleared, and nothing else
Resumed_Cleared == UNCHANGED txVars

(* Its end: TBUS is cleared, and the DMA resumed.                            *)
Resumed == running' = TRUE /\ UNCHANGED <<buf, own, toSet, toSend, promised, lapped>>

(* The DMA sends the descriptor it comes to, or is suspended.                *)
DmaSends ==
  /\ running
  /\ \/ /\ toSend \in own
        /\ own' = own \ {toSend} /\ toSend' = Next(toSend) /\ UNCHANGED running
     \/ toSend \notin own /\ running' = FALSE /\ UNCHANGED <<own, toSend>>
  /\ UNCHANGED <<rxVars, enabled, isrVars, poolVars, listVars, mainVars, given, read,
                 buf, toSet, promised, lapped>>
-----------------------------------------------------------------------------
(* Receiving                                                                 *)

(* A frame comes in; without a descriptor for it, it is lost (RBUS), and the *)
(* DMA looks again when the next comes.                                      *)
Arrives(to) ==
  /\ \/ to = Peer /\ UNCHANGED given
     \/ to # Peer /\ given < MaxGiven /\ given' = given + 1
  /\ IF Len(ring) < RxNum
     THEN /\ pend' = TRUE
          /\ ring' = Append(ring, [to |-> to, n |-> given', late |-> isr = "clear"])
     ELSE UNCHANGED rxVars
  /\ UNCHANGED <<enabled, isrVars, poolVars, listVars, mainVars, txVars, read>>

EntersInterrupt ==
  /\ isr = "off" /\ pend /\ enabled /\ isr' = "look"
  /\ UNCHANGED <<rxVars, enabled, prints, inIsr, poolVars, listVars, mainVars, txVars, given, read>>

\* mutant: a datagram that is thrown away keeps its pbuf
runAtSocketRecv_Kept(s, p, d) ==
  /\ pbuf_alloc(p, d)
  /\ IF Len(list[s]) < ListSlots - 1
     THEN list' = [list EXCEPT ![s] = Append(@, p)] /\ UNCHANGED <<isr, prints>>
     ELSE isr' = "print" /\ prints' = PrintLen /\ UNCHANGED list

(* runAtSocketRecv: into the socket's list, or thrown away with a message.   *)
runAtSocketRecv(s, p, d) ==
  IF Len(list[s]) < ListSlots - 1
  THEN /\ pbuf_alloc(p, d) /\ list' = [list EXCEPT ![s] = Append(@, p)]
       /\ UNCHANGED <<isr, prints>>
  ELSE isr' = "print" /\ prints' = PrintLen /\ UNCHANGED <<poolVars, list>>

(* lwip_pkt_handle: the oldest frame goes into a pbuf, its descriptor back   *)
(* to the DMA, and the pbuf to the socket's list; into an answer; or, while  *)
(* recvfrom has not been called or the pool is empty, nowhere.               *)
lwip_pkt_handle ==
  LET f == Head(ring)
      d == [to |-> f.to, n |-> f.n]
  IN  /\ ring' = Tail(ring)
      /\ \/ /\ free # {} /\ f.to = Peer
            /\ \E p \in free : pbuf_alloc(p, d) /\ inIsr' = {p}
            /\ isr' = "copy" /\ UNCHANGED <<prints, list>>
         \/ /\ free # {} /\ f.to \in callback
            /\ \E p \in free : runAtSocketRecv(f.to, p, d)
            /\ UNCHANGED inIsr
         \/ /\ free = {} \/ f.to \notin callback \cup {Peer}
            /\ UNCHANGED <<isrVars, poolVars, list>>
      /\ UNCHANGED callback

MoreToCome == ring # <<>>

(* ETH_IRQHandler                                                            *)
Handles ==
  /\ isr = "look" /\ MoreToCome /\ lwip_pkt_handle
  /\ UNCHANGED <<pend, enabled, mainVars, txVars, given, read>>

LooksInVain ==
  /\ isr = "look" /\ ~MoreToCome /\ isr' = "clear"
  /\ UNCHANGED <<rxVars, enabled, prints, inIsr, poolVars, listVars, mainVars, txVars, given, read>>

ClearsPending ==
  /\ isr = "clear" /\ pend' = FALSE /\ isr' = "off"
  /\ UNCHANGED <<ring, enabled, prints, inIsr, poolVars, listVars, mainVars, txVars, given, read>>

(* printf, a character at a time, each of them a datagram of the UDP console *)
(* if there is a pbuf for it.                                                *)
Prints ==
  /\ isr = "print"
  /\ \/ /\ prints > 0
        /\ \E p \in free : pbuf_alloc(p, Blank) /\ inIsr' = {p}
        /\ isr' = "copy" /\ UNCHANGED prints
     \/ /\ prints > 0 /\ free = {} /\ prints' = prints - 1
        /\ UNCHANGED <<isr, inIsr, poolVars>>
     \/ prints = 0 /\ isr' = "look" /\ UNCHANGED <<prints, inIsr, poolVars>>
  /\ UNCHANGED <<rxVars, enabled, listVars, mainVars, txVars, given, read>>

IsrContent == IF prints > 0 THEN Text ELSE Reply

(* low_level_output in the interrupt, which nothing but the DMA interrupts   *)
IsrSends ==
  /\ \/ isr = "copy" /\ Copied(IsrContent) /\ isr' = "packet"
     \/ isr = "packet" /\ ETH_Tx_Packet(IsrContent) /\ isr' = "resume"
  /\ UNCHANGED <<rxVars, enabled, prints, inIsr, poolVars, listVars, mainVars, given, read>>

IsrSent ==
  /\ \/ isr = "resume" /\ Resumed
     \/ isr = "packet" /\ ETH_ERROR
  /\ pbuf_free(inIsr) /\ inIsr' = {}
  /\ isr' = "print" /\ prints' = IF prints > 0 THEN prints - 1 ELSE 0
  /\ UNCHANGED <<rxVars, enabled, listVars, mainVars, given, read>>

ETH_IRQHandler ==
  EntersInterrupt \/ Handles \/ LooksInVain \/ ClearsPending
  \/ Prints \/ IsrSends \/ IsrSent
-----------------------------------------------------------------------------
(* The tasks, while the interrupt is not running                             *)

From(here) == isr = "off" /\ main = here

\* mutant: the port of cc.h without OS_CRITICAL_METHOD, which protects nothing
SYS_ARCH_PROTECT_Nothing == UNCHANGED enabled

SYS_ARCH_PROTECT == enabled' = FALSE
SYS_ARCH_UNPROTECT == enabled' = TRUE

(* recvfrom, setSocketRecvCallBack                                           *)
recvfrom(s) ==
  /\ From("idle") /\ at' = s /\ callback' = callback \cup {s} /\ main' = "recv"
  /\ UNCHANGED <<rxVars, enabled, isrVars, poolVars, list, msg, hand, txVars, given, read>>

(* sendto, as far as its pbuf; without one, it returns.                      *)
sendto(c) ==
  /\ From("idle") /\ msg' = c
  /\ \E p \in free : pbuf_alloc(p, Blank) /\ hand' = {p}
  /\ main' = "send"
  /\ UNCHANGED <<rxVars, enabled, isrVars, listVars, at, txVars, given, read>>

Protects ==
  /\ \/ From("recv") /\ main' = "take"
     \/ From("send") /\ main' = "copy"
  /\ SYS_ARCH_PROTECT
  /\ UNCHANGED <<rxVars, isrVars, poolVars, listVars, at, msg, hand, txVars, given, read>>

Unprotects ==
  /\ \/ From("taken") /\ main' = IF hand = {} THEN "idle" ELSE "read"
     \/ From("sent") /\ main' = "free"
  /\ SYS_ARCH_UNPROTECT
  /\ UNCHANGED <<rxVars, isrVars, poolVars, listVars, at, msg, hand, txVars, given, read>>

\* mutant: the pbuf is freed while it is taken off the list, as in freeSocket
TakesOldest_Freed ==
  /\ hand' = {Head(list[at])} /\ list' = [list EXCEPT ![at] = Tail(@)]
  /\ free' = free \cup {Head(list[at])} /\ UNCHANGED data

TakesOldest ==
  /\ hand' = {Head(list[at])} /\ list' = [list EXCEPT ![at] = Tail(@)]
  /\ UNCHANGED poolVars

(* recvSocketMsg while the interrupt is disabled                             *)
Takes ==
  /\ From("take") /\ main' = "taken"
  /\ IF list[at] = <<>> THEN UNCHANGED <<hand, list, poolVars>> ELSE TakesOldest
  /\ UNCHANGED <<rxVars, enabled, isrVars, callback, at, msg, txVars, given, read>>

(* What it copies when the interrupt is enabled again                        *)
Reads ==
  /\ From("read") /\ main' = "free"
  /\ \E p \in hand : read' = [read EXCEPT ![at] = data[p].n]
  /\ UNCHANGED <<rxVars, enabled, isrVars, poolVars, listVars, at, msg, hand, txVars, given>>

Frees ==
  /\ From("free") /\ main' = "idle" /\ pbuf_free(hand) /\ hand' = {}
  /\ UNCHANGED <<rxVars, enabled, isrVars, listVars, at, msg, txVars, given, read>>

(* low_level_output in a task                                                *)
Sends ==
  /\ \/ From("copy") /\ Copied(msg) /\ main' = "packet"
     \/ From("packet") /\ ETH_Tx_Packet(msg) /\ main' = "resume"
     \/ From("packet") /\ ETH_ERROR /\ main' = "sent"
     \/ From("resume") /\ Resumed /\ main' = "sent"
  /\ UNCHANGED <<rxVars, enabled, isrVars, poolVars, listVars, at, msg, hand, given, read>>

Task ==
  (\E s \in Socket : recvfrom(s)) \/ (\E c \in Payload : sendto(c))
  \/ Protects \/ Unprotects \/ Takes \/ Reads \/ Frees \/ Sends

EthNext == DmaSends \/ (\E to \in Socket \cup {Peer} : Arrives(to)) \/ ETH_IRQHandler \/ Task

EthSpec == EthInit /\ [][EthNext]_vars
-----------------------------------------------------------------------------
Listed(s) == Range(list[s])

(* Types; and every pbuf is in one place: free, in one list once, or in one  *)
(* hand.  None is lost, and none freed while somebody still has it.          *)
Frame == [to : Socket \cup {Peer}, n : 0 .. MaxGiven, late : BOOLEAN]

Typed ==
  /\ ring \in Seq(Frame) /\ Len(ring) <= RxNum
  /\ pend \in BOOLEAN /\ enabled \in BOOLEAN /\ running \in BOOLEAN
  /\ isr \in Isr /\ prints \in 0 .. PrintLen /\ main \in Main
  /\ free \subseteq Pbuf /\ hand \subseteq Pbuf /\ inIsr \subseteq Pbuf
  /\ data \in [Pbuf -> Message]
  /\ list \in [Socket -> Seq(Pbuf)] /\ \A s \in Socket : Len(list[s]) < ListSlots
  /\ callback \subseteq Socket /\ at \in Socket /\ msg \in Payload
  /\ buf \in [Desc -> Content] /\ promised \in [Desc -> Content]
  /\ own \subseteq Desc /\ lapped \subseteq Desc /\ toSet \in Desc /\ toSend \in Desc
  /\ given \in 0 .. MaxGiven /\ read \in [Socket -> 0 .. MaxGiven]

PoolWhole ==
  /\ \A p \in Pbuf : p \in free \cup hand \cup inIsr \/ \E s \in Socket : p \in Listed(s)
  /\ free \cap hand = {} /\ free \cap inIsr = {} /\ hand \cap inIsr = {}
  /\ \A s \in Socket :
       /\ Listed(s) \cap (free \cup hand \cup inIsr) = {} /\ IsInjective(list[s])
       /\ \A t \in Socket \ {s} : Listed(s) \cap Listed(t) = {}

EthTypeOK == Typed /\ PoolWhole

(* A socket's datagrams reach its reader in the order they came in, none     *)
(* twice and none of another socket's, through descriptors, pbufs and lists  *)
(* that the interrupt fills and the loop empties.                            *)
InHand(s) == main \in {"taken", "read"} /\ at = s
ListInOrder(s) ==
  /\ \A p \in Listed(s) :
       /\ data[p].to = s /\ read[s] < data[p].n
       /\ \A q \in hand : InHand(s) => data[q].n < data[p].n
  /\ \A j, k \in DOMAIN list[s] : j < k => data[list[s][j]].n < data[list[s][k]].n
  /\ \A q \in hand : InHand(s) => data[q].to = s /\ read[s] < data[q].n

RingInOrder(s) ==
  \A k \in DOMAIN ring : ring[k].to = s =>
    /\ read[s] < ring[k].n
    /\ \A p \in Listed(s) : data[p].n < ring[k].n
    /\ \A q \in hand : InHand(s) => data[q].n < ring[k].n
    /\ \A j \in DOMAIN ring : ring[j].to = s /\ j < k => ring[j].n < ring[k].n

ReadAsArrived == \A s \in Socket : ListInOrder(s) /\ RingInOrder(s)

(* Nobody waits for a wake-up that does not come.  A frame in the ring has   *)
(* the interrupt, or came in between its last look and its clearing of the   *)
(* pending bits, and goes with the next; a frame handed to the transmit DMA  *)
(* finds it running, or the sender about to resume it.                       *)
NoLostWakeUp ==
  /\ isr = "off" /\ ~pend => \A k \in DOMAIN ring : ring[k].late
  /\ own # {} /\ ~running => isr = "resume" \/ main = "resume"

(* A frame that ETH_SUCCESS was returned for goes out as it was given,       *)
(* although tasks and interrupt fill the same buffers; but for a sender that *)
(* has gone round the whole ring, and copies before it looks whose the       *)
(* descriptor is.                                                            *)
SentAsGiven == \A d \in own : buf[d] = promised[d] \/ d \in lapped
=============================================================================
