------------------------------- MODULE CanRouter -------------------------------
(* CCanRouter between the tasks and the CAN controller, and the two test     *)
(* procedures that use it.  A pass of the main loop runs the transmitter and *)
(* the receiver, then CanDispatchRun and canTest2000; the controller sends   *)
(* and receives at any point of it.                                          *)
EXTENDS Naturals, Sequences, Functions

CONSTANTS
  Command,      \* frames CanDispatchRun sends
  Beat,         \* the frame canTest2000 sends
  QueSize,      \* slots of txQue_, one of which stays empty: 35
  BoxNum,       \* transmit mailboxes of the controller: 3
  FifoLen,      \* messages its receive FIFO holds: 3
  MailSlots,    \* slots of a mailbox's rxQue_, one of which stays empty: 2
  AnswerId,     \* can_dispatch's identifier, 0xD1
  BeatId,       \* can_mailbox_test_2000's identifier, 1
  OtherId,      \* identifiers no mailbox has; the filter lets them pass
  MaxGiven      \* bound: messages of one identifier

Frame == Command \cup {Beat}
MailId == {AnswerId, BeatId}
Id == MailId \cup OtherId

ASSUME RouterAssumption ==
  /\ QueSize \in Nat \ {0} /\ BoxNum \in Nat \ {0}
  /\ FifoLen \in Nat \ {0} /\ MailSlots \in Nat \ {0, 1} /\ MaxGiven \in Nat
ASSUME IdAssumption == AnswerId # BeatId /\ MailId \cap OtherId = {}

VARIABLES
  stage,        \* "transmit", "receive", "dispatch" or "test"
  txQue,        \* txQue_, oldest first
  boxes,        \* the transmit mailboxes in use, in the order of their requests
  taken,        \* history: putMsg found room
  wire,         \* history: the last frame sent
  fifo,         \* the receive FIFO
  mail,         \* rxQue_ of each mailbox
  given,        \* messages of each identifier so far; the last one's number
  read,         \* number of the last message a procedure took, of each mailbox
  lost,         \* history: mailboxes that lost a message
  crowded       \* history: mailboxes two of whose messages, or a full FIFO, met

sendVars == <<txQue, boxes, taken, wire>>
recvVars == <<fifo, mail, given, read, lost, crowded>>
routerVars == <<stage, sendVars, recvVars>>

Message == [id : Id, number : 1 .. MaxGiven]

Init ==
  /\ stage = "transmit"
  /\ txQue = <<>> /\ boxes = <<>> /\ taken = TRUE /\ wire = <<>>
  /\ fifo = <<>> /\ mail = [m \in MailId |-> <<>>]
  /\ given = [d \in Id |-> 0] /\ read = [m \in MailId |-> 0]
  /\ lost = {} /\ crowded = {}
-----------------------------------------------------------------------------
(* Transmitting                                                              *)

(* mutant: the queue is popped whether or not there was a mailbox            *)
CAN_Transmit_PopFirst ==
  /\ stage = "transmit" /\ txQue # <<>>
  /\ txQue' = Tail(txQue)
  /\ boxes' = IF Len(boxes) < BoxNum THEN Append(boxes, Head(txQue)) ELSE boxes
  /\ UNCHANGED <<stage, taken, wire, recvVars>>

(* CAN_Transmit finds a free mailbox, and the frame leaves the queue.        *)
CAN_Transmit ==
  /\ stage = "transmit" /\ txQue # <<>> /\ Len(boxes) < BoxNum
  /\ boxes' = Append(boxes, Head(txQue)) /\ txQue' = Tail(txQue)
  /\ UNCHANGED <<stage, taken, wire, recvVars>>

(* runTransmitter is done: an empty queue, or CAN_TxStatus_NoMailBox         *)
TransmitterEnds ==
  /\ stage = "transmit" /\ (txQue = <<>> \/ Len(boxes) = BoxNum)
  /\ stage' = "receive"
  /\ UNCHANGED <<sendVars, recvVars>>

\* mutant: the lowest identifier first, a beat's, as without CAN_TXFP
Picked_ByIdentifier(b) == IF \E k \in DOMAIN b : b[k] = Beat
                          THEN CHOOSE k \in DOMAIN b : b[k] = Beat ELSE 1

(* CAN_TXFP: the oldest request goes first.                                  *)
Picked(b) == 1

(* The bus takes a frame; one that nobody acknowledges is tried again.       *)
BusTakes ==
  /\ boxes # <<>>
  /\ LET k == Picked(boxes)
     IN  /\ wire' = <<boxes[k]>>
         /\ boxes' = SubSeq(boxes, 1, k - 1) \o SubSeq(boxes, k + 1, Len(boxes))
  /\ UNCHANGED <<stage, txQue, taken, recvVars>>

\* mutant: every slot of the ring is used
putMsg_AllSlots(f) ==
  /\ \/ Len(txQue) < QueSize /\ taken' = TRUE /\ txQue' = Append(txQue, f)
     \/ Len(txQue) >= QueSize /\ taken' = FALSE /\ UNCHANGED txQue
  /\ UNCHANGED <<boxes, wire>>

(* CCanRouter::putMsg                                                        *)
putMsg(f) ==
  /\ \/ Len(txQue) < QueSize - 1 /\ taken' = TRUE /\ txQue' = Append(txQue, f)
     \/ Len(txQue) >= QueSize - 1 /\ taken' = FALSE /\ UNCHANGED txQue
  /\ UNCHANGED <<boxes, wire>>
-----------------------------------------------------------------------------
(* Receiving                                                                 *)

InFifo(d) == {k \in DOMAIN fifo : fifo[k].id = d}
AlreadyUnread == {m \in MailId : InFifo(m) # {} \/ mail[m] # <<>>}

(* A message comes in.  FIFO overrun: it replaces the last one (CAN_RFLM).   *)
Arrives(d) ==
  /\ given[d] < MaxGiven
  /\ LET msg == [id |-> d, number |-> given[d] + 1]
     IN  IF Len(fifo) < FifoLen
         THEN /\ fifo' = Append(fifo, msg) /\ UNCHANGED lost
              /\ crowded' = crowded \cup ({d} \cap AlreadyUnread)
         ELSE /\ fifo' = [fifo EXCEPT ![FifoLen] = msg]
              /\ lost' = lost \cup ({fifo[FifoLen].id} \cap MailId)
              /\ crowded' = crowded \cup ({d, fifo[FifoLen].id} \cap AlreadyUnread)
  /\ given' = [given EXCEPT ![d] = given[d] + 1]
  /\ UNCHANGED <<stage, sendVars, mail, read>>

\* mutant: a ring of one slot, which is full when it is empty
HasRoom_OneSlot(q) == Len(q) < MailSlots - 2

HasRoom(q) == Len(q) < MailSlots - 1

(* runReceiver takes a message off the FIFO, and pushMsg puts it into the    *)
(* mailbox with its identifier, or drops it.                                 *)
CAN_Receive ==
  /\ stage = "receive" /\ fifo # <<>>
  /\ LET msg == Head(fifo)
     IN  IF msg.id \in MailId
         THEN IF HasRoom(mail[msg.id])
              THEN mail' = [mail EXCEPT ![msg.id] = Append(@, msg.number)] /\ UNCHANGED lost
              ELSE lost' = lost \cup {msg.id} /\ UNCHANGED mail
         ELSE UNCHANGED <<mail, lost>>
  /\ fifo' = Tail(fifo)
  /\ UNCHANGED <<stage, sendVars, given, read, crowded>>

ReceiverEnds ==
  /\ stage = "receive" /\ fifo = <<>>
  /\ stage' = "dispatch"
  /\ UNCHANGED <<sendVars, recvVars>>

\* mutant: front() is copied and stays
getMsg_Keeps(m) ==
  /\ read' = [read EXCEPT ![m] = Head(mail[m])]
  /\ UNCHANGED mail

(* getMsg, if msgsInQue() > 0                                                *)
getMsg(m) ==
  /\ read' = [read EXCEPT ![m] = Head(mail[m])]
  /\ mail' = [mail EXCEPT ![m] = Tail(mail[m])]

looksInto(m) ==
  /\ IF mail[m] # <<>> THEN getMsg(m) ELSE UNCHANGED <<mail, read>>
  /\ UNCHANGED <<fifo, given, lost, crowded>>
-----------------------------------------------------------------------------
(* The procedures put a frame or none, and look into their mailbox.          *)
CanDispatchRun ==
  /\ stage = "dispatch" /\ stage' = "test"
  /\ UNCHANGED sendVars \/ \E f \in Command : putMsg(f)
  /\ looksInto(AnswerId)

canTest2000 ==
  /\ stage = "test" /\ stage' = "transmit"
  /\ UNCHANGED sendVars \/ putMsg(Beat)
  /\ looksInto(BeatId)

Loop == CAN_Transmit \/ TransmitterEnds \/ CAN_Receive \/ ReceiverEnds
        \/ CanDispatchRun \/ canTest2000

Next == Loop \/ BusTakes \/ \E d \in Id : Arrives(d)

RouterSpec == Init /\ [][Next]_routerVars

FairRouterSpec == RouterSpec /\ WF_routerVars(Loop)
-----------------------------------------------------------------------------
RouterTypeOK ==
  /\ stage \in {"transmit", "receive", "dispatch", "test"}
  /\ txQue \in Seq(Frame) /\ Len(txQue) <= QueSize - 1
  /\ boxes \in Seq(Frame) /\ Len(boxes) <= BoxNum
  /\ taken \in BOOLEAN /\ wire \in {<<>>} \cup {<<f>> : f \in Frame}
  /\ fifo \in Seq(Message) /\ Len(fifo) <= FifoLen
  /\ mail \in [MailId -> Seq(1 .. MaxGiven)]
  /\ given \in [Id -> 0 .. MaxGiven] /\ read \in [MailId -> 0 .. MaxGiven]
  /\ lost \subseteq MailId /\ crowded \subseteq MailId

(* The queue, the transmit mailboxes and the controller together are one     *)
(* queue: nothing taken is lost, doubled or overtaken on its way to the bus, *)
(* and nothing is dropped while the controller has room.                     *)
Channel == INSTANCE CanChannel WITH Room <- QueSize - 1, waiting <- boxes \o txQue

ImplementsChannel == Channel!ChannelSpec

(* Messages of an identifier reach their reader in the order they came in,   *)
(* none twice, although the FIFO and the ring both throw messages away.      *)
MailInOrder(m) ==
  /\ \A k \in DOMAIN mail[m] : read[m] < mail[m][k]
  /\ \A j, k \in DOMAIN mail[m] : j < k => mail[m][j] < mail[m][k]

FifoInOrder(m) ==
  \A k \in InFifo(m) :
    /\ read[m] < fifo[k].number
    /\ \A j \in DOMAIN mail[m] : mail[m][j] < fifo[k].number
    /\ \A j \in InFifo(m) : j < k => fifo[j].number < fifo[k].number

ReadInOrder == \A m \in MailId : MailInOrder(m) /\ FifoInOrder(m)

(* A mailbox of two slots has room for one message, and a procedure takes    *)
(* one in a pass: that loses nothing unless a message comes in while the one *)
(* before it is unread, or the controller's FIFO runs over.                  *)
LostOnlyIfCrowded == lost \subseteq crowded

(* The beats of a CAN test nobody answers never keep a dispatch that found   *)
(* room from the bus, if only the bus takes frames at all.                   *)
DispatchGoesOut ==
  \A f \in Command :
    []<><<BusTakes>>_routerVars /\ []<>(f \in Range(boxes \o txQue))
      => []<><<BusTakes /\ wire' = <<f>>>>_routerVars
=============================================================================
