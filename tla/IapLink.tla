------------------------------- MODULE IapLink -------------------------------
(***************************************************************************)
(* One write-memory transaction after the other, byte by byte: the host's  *)
(* loadbin (iapTool/iapdev/iapdev.py), the UDP link, and the bootloader's  *)
(* receive path and command interpreter (udpDevice.cpp, iap.c,             *)
(* bl_write_memory).  Flash and its failures are UpdateSystem's subject.   *)
(*                                                                         *)
(* A byte is <<what, b, i>>: the i-th byte of the datagram "what" about    *)
(* block b.  A check byte fits the bytes it was sent with and no others,   *)
(* and bytes of data never look like a command or a length.                *)
(***************************************************************************)
EXTENDS Naturals, Sequences, SequencesExt

CONSTANTS
  Blocks,          \* the number of blocks the host sends
  DataLen,         \* pack_length, the bytes of a block
  BuffSize,        \* IAP_BUFF_SIZE - 1, what the receive queue holds
  MaxSockPbuf,     \* datagrams a socket keeps for its reader
  Breaker,         \* the failed tries after which whileBreaker exits
  MaxLoss,         \* bound: datagrams lost on a host that waits out every write
  MaxPause,        \* bound: pauses of such a host longer than the data flow timer
  MaxSlow,         \* bound: flash writes a host does not wait out
  MaxSlowLoss      \* bound: datagrams lost on such a host

ASSUME LinkAssumption ==
  /\ Blocks \in Nat \ {0} /\ DataLen \in Nat \ {0}
  /\ BuffSize \in Nat /\ MaxSockPbuf \in Nat \ {0}
  /\ Breaker \in Nat
  /\ {MaxLoss, MaxPause, MaxSlow, MaxSlowLoss} \subseteq Nat

Block == 0 .. Blocks - 1
Nothing == Blocks     \* the content of flash no block was written to

VARIABLES
  next,       \* the block the host is at
  phase,      \* what it sends next, or is waiting for the answer to
  waiting,    \* it is inside confirmack
  tries,      \* failed tries so far, whileBreaker's count
  up,         \* datagrams on their way to iap_run, the socket's included
  down,       \* answers on their way to the host
  ring,       \* rx_queue_
  stage,      \* iap_tick and exe_tick: what iap_run does next
  start_addr, \* the block whose address bl_write_memory has taken
  long_data,  \* the block whose data it has taken
  flash,      \* the block whose data lies at each block's address
  left,       \* how often each thing may still go wrong
  patient     \* history: the host waits out every flash write

hostVars == <<next, phase, waiting, tries>>
deviceVars == <<ring, stage, start_addr, long_data, flash>>
vars == <<hostVars, up, down, deviceVars, left, patient>>

Phase == {"cmd", "addr", "data", "exit"}
Stage == {"cmd", "unknown", "ack", "addr", "len", "data", "flash"}

(* The datagrams: command and complement, address and check byte, length,  *)
(* data and check byte.                                                    *)
Bytes(what, b, n) == [i \in 1 .. n |-> <<what, b, i>>]

Command == Bytes("cmd", 0, 2)
Swapped == Reverse(Command)
Address(b) == Bytes("addr", b, 5)
LengthByte(b) == <<"len", b, 1>>
Data(b) == Bytes("data", b, DataLen + 1)

Datagram(what, b) ==
  CASE what = "cmd"  -> Command
    [] what = "addr" -> Address(b)
    [] what = "data" -> <<LengthByte(b)>> \o Data(b)

LinkInit ==
  /\ next = 0 /\ phase = "cmd" /\ waiting = FALSE /\ tries = 0
  /\ up = <<>> /\ down = <<>>
  /\ ring = <<>> /\ stage = "cmd" /\ start_addr = 0 /\ long_data = 0
  /\ flash = [b \in Block |-> Nothing]
  /\ patient \in BOOLEAN
  /\ \/ patient /\ left = [loss |-> MaxLoss, slow |-> 0, pause |-> MaxPause]
     \/ ~patient /\ left = [loss |-> MaxSlowLoss, slow |-> MaxSlow, pause |-> 0]

Spend(what) == left[what] > 0 /\ left' = [left EXCEPT ![what] = @ - 1]

-----------------------------------------------------------------------------
(* The bootloader.  A round of its loop takes the oldest datagram from the *)
(* socket into the queue, as much of it as fits, and then runs one step of *)
(* the command interpreter.                                                *)

Fitting(d) == SubSeq(d, 1, IF Len(d) <= BuffSize - Len(ring) THEN Len(d)
                                                             ELSE BuffSize - Len(ring))

Received == IF up = <<>> THEN ring ELSE ring \o Fitting(Head(up))

Starts(bytes) == IsPrefix(bytes, Received)

(* A round that consumes n bytes and goes on with step st. *)
Round(n, st) ==
  /\ ring' = SubSeq(Received, n + 1, Len(Received))
  /\ up' = IF up = <<>> THEN up ELSE Tail(up)
  /\ stage' = st

Reply(answer) == down' = Append(down, answer) /\ UNCHANGED left
NoReply == UNCHANGED <<down, left>>
KeepData == UNCHANGED <<start_addr, long_data, flash>>

(* iap_run, case 0. *)
GetCommand ==
  /\ stage = "cmd" /\ Len(Received) >= 2
  /\ \/ Starts(Command) /\ Round(2, "ack") /\ NoReply
     \/ Starts(Swapped) /\ Round(2, "unknown") /\ NoReply
     \/ ~Starts(Command) /\ ~Starts(Swapped) /\ Round(2, "cmd") /\ Reply("nack")
  /\ KeepData

(* bl_excute_cmd does not find the command: no answer. *)
UnknownCommand == stage = "unknown" /\ Round(0, "cmd") /\ NoReply /\ KeepData

(* bl_write_memory, one action per case. *)
AckCommand == stage = "ack" /\ Round(0, "addr") /\ Reply("ack") /\ KeepData

TakeAddress_NotTaken(b) == UNCHANGED start_addr

TakeAddress(b) == start_addr' = b

GetAddress ==
  /\ stage = "addr" /\ Len(Received) >= 5
  /\ \/ \E b \in Block : /\ Starts(Address(b))
                         /\ TakeAddress(b)
                         /\ Round(5, "len") /\ Reply("ack")
     \/ /\ \A b \in Block : ~Starts(Address(b))
        /\ Round(5, "cmd") /\ Reply("nack")
        /\ UNCHANGED start_addr
  /\ UNCHANGED <<long_data, flash>>

(* A byte that is no length ends the command without an answer.  This step *)
(* waits without a time limit.                                             *)
GetLength ==
  /\ stage = "len" /\ Received # <<>>
  /\ Round(1, IF \E b \in Block : Starts(<<LengthByte(b)>>) THEN "data" ELSE "cmd")
  /\ NoReply /\ KeepData

(* The answer comes after the flash write. *)
AnswerToData_AckFirst == Reply("ack")

AnswerToData == NoReply

GetData ==
  /\ stage = "data" /\ Len(Received) >= DataLen + 1
  /\ \/ \E b \in Block : /\ Starts(Data(b))
                         /\ long_data' = b
                         /\ Round(DataLen + 1, "flash") /\ AnswerToData
     \/ /\ \A b \in Block : ~Starts(Data(b))
        /\ Round(DataLen + 1, "cmd") /\ Reply("nack")
        /\ UNCHANGED long_data
  /\ UNCHANGED <<start_addr, flash>>

(* The end of the same round: STMFLASH_write_bytes returns, after up to    *)
(* two seconds when it had to erase a sector.                              *)
WriteFlash ==
  /\ stage = "flash"
  /\ flash' = [flash EXCEPT ![start_addr] = long_data]
  /\ stage' = "cmd"
  /\ Reply("ack")
  /\ UNCHANGED <<up, ring, start_addr, long_data>>

(* The bytes a step waits for before it does anything. *)
Needed == CASE stage = "cmd" -> 2 [] stage = "addr" -> 5 [] stage = "len" -> 1
            [] stage = "data" -> DataLen + 1 [] OTHER -> 0

GetMore ==
  /\ up # <<>> /\ Len(Received) < Needed
  /\ Round(0, stage)
  /\ NoReply /\ KeepData

(* clear_read_buf, exe_tick = 0. *)
GiveUp_KeepsBytes == stage' = "cmd" /\ UNCHANGED ring

GiveUp == ring' = <<>> /\ stage' = "cmd"

(* is_data_flow_break: the queue is not empty() and no datagram came for   *)
(* 200 ms, that is while the host waits for an answer nobody will send, or *)
(* has paused.  empty() also takes a queue whose front pointer is one past *)
(* the array for filled (RingQueue), so the command may be given up with   *)
(* nothing received.                                                       *)
FlowBreak ==
  /\ up = <<>> /\ Len(ring) < Needed /\ stage # "len"
  /\ ring # <<>> \/ stage # "cmd"
  /\ \/ waiting /\ down = <<>> /\ UNCHANGED left
     \/ ~waiting /\ Spend("pause")
  /\ GiveUp
  /\ UNCHANGED <<up, down>> /\ KeepData

DeviceRound ==
  /\ \/ GetCommand \/ UnknownCommand \/ AckCommand \/ GetAddress
     \/ GetLength \/ GetData \/ WriteFlash \/ GetMore \/ FlowBreak
  /\ UNCHANGED <<hostVars, patient>>

-----------------------------------------------------------------------------
(* The host tool. *)

(* forwardwrite: answers that have arrived are thrown away first.  A       *)
(* socket whose queue is full drops the new datagram.                      *)
HostSend ==
  /\ ~waiting /\ next < Blocks /\ phase # "exit"
  /\ \E n \in 0 .. Len(down) : down' = SubSeq(down, n + 1, Len(down))
  /\ up' = IF Len(up) < MaxSockPbuf THEN Append(up, Datagram(phase, next)) ELSE up
  /\ waiting' = TRUE
  /\ UNCHANGED <<next, phase, tries, deviceVars, left>>

(* whileBreaker counts the failed tries and exits behind the limit. *)
whileBreaker_Endless(count) == "cmd"

whileBreaker(count) == IF count > Breaker THEN "exit" ELSE "cmd"

(* wb(); continue *)
TryAgain ==
  /\ tries' = tries + 1
  /\ phase' = whileBreaker(tries + 1)
  /\ waiting' = FALSE
  /\ UNCHANGED next

(* confirmack. *)
Confirmed_AnyAnswer(answer) == TRUE

Confirmed(answer) == answer = "ack"

HostRecv ==
  /\ waiting /\ down # <<>>
  /\ down' = Tail(down)
  /\ IF Confirmed(Head(down))
       THEN /\ phase' = CASE phase = "cmd" -> "addr" [] phase = "addr" -> "data"
                          [] phase = "data" -> "cmd"
            /\ next' = IF phase = "data" THEN next + 1 ELSE next
            /\ waiting' = FALSE
            /\ UNCHANGED tries
       ELSE TryAgain
  /\ UNCHANGED <<up, deviceVars, left>>

(* One second without an answer: the board has nothing left to do, or it   *)
(* is inside the flash driver.                                             *)
HostTimeout ==
  /\ waiting /\ down = <<>>
  /\ \/ stage = "flash" /\ Spend("slow")
     \/ up = <<>> /\ ring = <<>> /\ stage \in {"cmd", "addr", "len", "data"}
        /\ UNCHANGED left
  /\ TryAgain
  /\ UNCHANGED <<up, down, deviceVars>>

HostStep == (HostSend \/ HostRecv \/ HostTimeout) /\ UNCHANGED patient

Without(s, i) == SubSeq(s, 1, i - 1) \o SubSeq(s, i + 1, Len(s))

LoseDatagram ==
  /\ Spend("loss")
  /\ \/ \E i \in DOMAIN up : up' = Without(up, i) /\ UNCHANGED down
     \/ \E i \in DOMAIN down : down' = Without(down, i) /\ UNCHANGED up
  /\ UNCHANGED <<hostVars, deviceVars, patient>>

-----------------------------------------------------------------------------

LinkNext == DeviceRound \/ HostStep \/ LoseDatagram

LinkSpec == LinkInit /\ [][LinkNext]_vars

(* The bootloader's loop never ends, and the host either gets an answer or *)
(* its socket's timeout.                                                   *)
FairLinkSpec == LinkSpec /\ WF_vars(DeviceRound) /\ WF_vars(HostStep)

-----------------------------------------------------------------------------

LinkTypeOK ==
  /\ next \in 0 .. Blocks /\ phase \in Phase /\ waiting \in BOOLEAN
  /\ tries \in 0 .. Breaker + 1
  /\ Len(up) <= MaxSockPbuf /\ down \in Seq({"ack", "nack"})
  /\ Len(ring) <= BuffSize
  /\ stage \in Stage /\ start_addr \in Block /\ long_data \in Block
  /\ flash \in [Block -> Block \cup {Nothing}]
  /\ left \in [{"loss", "slow", "pause"} -> Nat] /\ patient \in BOOLEAN

written == {b \in Block : flash[b] = b}

(* A host that waits out every flash write, and pauses once at most, goes  *)
(* on to the next block only when the bootloader has written the current   *)
(* one, whatever is lost, chopped or given up on the way; and no block's   *)
(* data ever ends up at another's address, although the interpreter may    *)
(* read one datagram's bytes as another's.  This is what lets UpdateSystem *)
(* take a whole transaction as one request and its answer                  *)
(* (iapdev.py:199-229, st_bootloader_protocol.c:255-392).                  *)
BT == INSTANCE BlockTransfer
RefinesBlockTransfer == BT!AbsSpec

(* Losses only delay the load: it comes to its end with every block in     *)
(* flash, the interpreter finds back to the start of a command also from   *)
(* the step that has no time limit, and the retry limit that covers the    *)
(* whole image, two tries for a lost datagram and four for a pause, is not *)
(* reached (st_bootloader_protocol.c:319-322, iap.c:50-59, iapdev.py:199). *)
LoadCompletes == patient => <>[](next = Blocks /\ written = Block)

(* With flash writes that outlast the host's second, and the answers to    *)
(* earlier tries they leave behind, the load may run into its retry limit; *)
(* but one that ends without it has every block in flash, although the     *)
(* host takes answers for those of a later request (iapdev.py:54-61,       *)
(* udpchardev.py:68-76).                                                   *)
LoadHonest == ~patient => <>[](phase = "exit" \/ (next = Blocks /\ written = Block))

(* The same with one datagram lost on top, as the table of the loader's    *)
(* exit codes says: a load that does not end with code 7, "loadbin         *)
(* failed" (chardev.py:45, "process failed, exit %d"), is in flash.        *)
SuccessMeansWritten ==
  next = Blocks /\ up = <<>> /\ ring = <<>> /\ stage = "cmd" => written = Block
=============================================================================
