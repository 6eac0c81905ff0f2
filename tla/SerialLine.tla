------------------------------ MODULE SerialLine ------------------------------
(* The serial test of the tester board, down to the line: CUsart, the DMA    *)
(* stream and the two interrupt handlers behind it, and the loop that sends  *)
(* a frame every half second until an answer has come.                       *)
(*                                                                           *)
(* USART3 sends in both tests.  RS-485 shares one pair of wires: pin says    *)
(* who drives it, and while it is "tx" nothing is received.  RS-232 does not *)
(* look at the pin and receives on USART2.                                   *)
(*                                                                           *)
(* Main does nothing while an interrupt is pending or served.  A handler may *)
(* itself wait for the Ethernet's, which has a higher priority: shifting     *)
(* goes on meanwhile, a byte at a time, MaxLate times in all.                *)
EXTENDS Naturals, Sequences, SequencesExt

CONSTANTS
  FrameLen,      \* bytes of a frame and of an answer: 5
  BufLen,        \* [mode -> bytes the receive stream has room for]: 2 and 5
  Header, Fill,  \* [mode -> first byte of an answer], and the others
  Expected,      \* [mode -> check_sum of the answer that ends the test]
  MaxEarly,      \* bound: frames sent without half a second of quiet before them
  MaxLate        \* bound: bytes on the line while an interrupt waits

Modes == {"rs485", "rs232"}

ASSUME LineAssumption ==
  /\ FrameLen \in Nat \ {0, 1} /\ MaxEarly \in Nat /\ MaxLate \in Nat
  /\ BufLen \in [Modes -> 1 .. FrameLen]
  /\ Header \in [Modes -> Nat \ {0}] /\ Fill \in [Modes -> Nat \ {0}]

VARIABLES
  mode,          \* the test, as is_232_or_485_mode has it
  main,          \* where the loop is: "loop", "send", "pin" or "clear"
  over,          \* can_test_case_select is not this test's
  check_sum,     \* of the bytes last read
  ndtr,          \* DmaTxStream_->NDTR; the stream runs while it is not 0
  dr, shift,     \* the number of the byte in the data and the shift register, or 0
  tc, tcie,      \* USART3's transmission complete flag, and its interrupt's enable
  tcif,          \* the DMA stream's
  isr,           \* TRUE: USART3_IRQHandler is before its USART_ClearITPendingBit
  pin,           \* UART3_Dir_Pin: "tx" or "rx"
  buf,           \* bytes in the receive buffer; the stream runs while there is room
  rdr,           \* a byte that waits for the stream, or 0
  asked, ans,    \* the board under test has a frame to answer; answer bytes to come
  early, late,   \* frames and bytes, up to their bounds
  quiet, stale,  \* history: the frame was begun in quiet; with tc set
  cut,           \* history: a part of the frame found the pin at "rx"
  heard,         \* history: bytes of this answer that reached the receiver
  missed,        \* history: whole answers since the last one the test took
  sent,          \* history: a frame went out since the request
  givenUp        \* history: a test was given up

mainVars == <<main, over, check_sum>>
sendVars == <<ndtr, dr, shift, tc, tcie, tcif, isr, pin>>
recvVars == <<buf, rdr>>
peerVars == <<asked, ans>>
pastVars == <<quiet, stale, cut>>
takeVars == <<heard, missed, sent, givenUp>>
lineVars == <<mode, mainVars, sendVars, recvVars, peerVars, early, late, pastVars, takeVars>>

Pending  == tcif \/ (tcie /\ tc)
MainRuns == ~Pending /\ ~isr
Driving  == mode = "rs485" /\ pin = "tx"

\* mutant: the stream is told the length of a frame, not of the buffer
RoomIn_Frame(b) == Len(b) < FrameLen

RoomIn(b) == Len(b) < BufLen[mode]

Init ==
  /\ mode \in Modes
  /\ main = "loop" /\ over = FALSE /\ check_sum = 0
  /\ ndtr = 0 /\ dr = 0 /\ shift = 0
  /\ tc \in BOOLEAN            \* set by reset, cleared if clearErr has read it
  /\ tcie = FALSE /\ tcif = FALSE /\ isr = FALSE /\ pin = "rx"
  /\ \E n \in 0 .. BufLen[mode] - 1 : buf = [j \in 1 .. n |-> Fill[mode]]  \* a tail
  /\ rdr = 0 /\ asked = FALSE /\ ans = 0 /\ early = 0 /\ late = 0
  /\ quiet = FALSE /\ stale = FALSE /\ cut = FALSE
  /\ heard = 0 /\ missed = 0 /\ sent = FALSE /\ givenUp = FALSE
-----------------------------------------------------------------------------
(* The sending half of the loop                                              *)

Quiet ==
  /\ ndtr = 0 /\ dr = 0 /\ shift = 0 /\ MainRuns
  /\ ~asked /\ ans = 0 /\ RoomIn(buf)

(* transfer_frq is up.  It is early when it ran on from a test that was      *)
(* given up, or when the other test has just sent.                           *)
TimeUp ==
  /\ main = "loop" /\ MainRuns /\ ~over
  /\ main' = "send"
  /\ quiet' = Quiet
  /\ IF Quiet THEN UNCHANGED early ELSE early < MaxEarly /\ early' = early + 1
  /\ UNCHANGED <<mode, over, check_sum, sendVars, recvVars, peerVars, late, stale, cut, takeVars>>

(* get_BytesInTxFifo has come to 0; setFlowPinToTxMode                       *)
setFlowPinToTxMode ==
  /\ main = "send" /\ MainRuns /\ ndtr = 0
  /\ pin' = "tx" /\ main' = "pin"
  /\ UNCHANGED <<mode, over, check_sum, ndtr, dr, shift, tc, tcie, tcif, isr, recvVars,
                 peerVars, early, late, pastVars, takeVars>>

(* The rest of send_Array                                                    *)
send_Array ==
  /\ main = "pin" /\ MainRuns
  /\ IF ndtr # 0 THEN UNCHANGED <<ndtr, tcif, stale>>
                 ELSE ndtr' = FrameLen /\ tcif' = FALSE /\ stale' = tc
  /\ main' = "loop"
  /\ UNCHANGED <<mode, over, check_sum, dr, shift, tc, tcie, isr, pin, recvVars, peerVars,
                 early, late, quiet, cut, takeVars>>
-----------------------------------------------------------------------------
(* USART3 and its DMA stream                                                 *)

(* The byte that goes into the shift register is cut if the pin is at "rx".  *)
CutFrom(byte) == (byte > 1 /\ cut) \/ pin = "rx"

(* The time of a byte passes: an interrupt that waits is late.               *)
ByteTime == IF MainRuns THEN UNCHANGED late ELSE late < MaxLate /\ late' = late + 1

DmaMove ==
  /\ ndtr > 0 /\ dr = 0
  /\ LET byte == FrameLen - ndtr + 1
     IN  IF shift = 0 THEN shift' = byte /\ cut' = CutFrom(byte) /\ UNCHANGED dr
                      ELSE dr' = byte /\ UNCHANGED <<shift, cut>>
  /\ ndtr' = ndtr - 1
  /\ tcif' = (tcif \/ ndtr = 1)
  /\ UNCHANGED <<mode, mainVars, tc, tcie, isr, pin, recvVars, peerVars, early, late,
                 quiet, stale, takeVars>>

(* A byte is out.  The stream is faster than a byte, but may find the data   *)
(* register empty when the frame has only just begun.                        *)
ShiftOut ==
  /\ shift # 0
  /\ ndtr \in 1 .. FrameLen - 1 => dr # 0
  /\ ByteTime
  /\ shift' = dr /\ dr' = 0
  /\ IF dr = 0 THEN tc' = TRUE /\ UNCHANGED cut
               ELSE cut' = CutFrom(dr) /\ UNCHANGED tc
  /\ IF shift = FrameLen
     THEN sent' = TRUE /\ asked' = (asked \/ mode = "rs232" \/ ~cut)
     ELSE UNCHANGED <<sent, asked>>
  /\ UNCHANGED <<mode, mainVars, ndtr, tcie, tcif, isr, pin, recvVars, ans, early,
                 quiet, stale, heard, missed, givenUp>>
-----------------------------------------------------------------------------
(* The interrupt handlers                                                    *)

\* mutant: as the handler of USART2's stream is, the flag and no more
DMA1_Stream3_IRQHandler_Clear ==
  /\ tcif /\ ~isr
  /\ tcif' = FALSE
  /\ UNCHANGED <<mode, mainVars, ndtr, dr, shift, tc, tcie, isr, pin, recvVars, peerVars,
                 early, late, pastVars, takeVars>>

DMA1_Stream3_IRQHandler ==
  /\ tcif /\ ~isr
  /\ tcie' = TRUE /\ tcif' = FALSE
  /\ UNCHANGED <<mode, mainVars, ndtr, dr, shift, tc, isr, pin, recvVars, peerVars,
                 early, late, pastVars, takeVars>>

\* mutant: transmission complete is the end of the frame, whatever TXE says
USART3_IRQHandler_NoTXE ==
  /\ tcie /\ tc /\ ~tcif /\ ~isr
  /\ pin' = "rx" /\ tcie' = FALSE /\ cut' = (cut \/ shift # 0)
  /\ isr' = TRUE
  /\ UNCHANGED <<mode, mainVars, ndtr, dr, shift, tc, tcif, recvVars, peerVars, early,
                 late, quiet, stale, takeVars>>

(* USART3_IRQHandler up to USART_ClearITPendingBit                           *)
USART3_IRQHandler ==
  /\ tcie /\ tc /\ ~tcif /\ ~isr
  /\ IF dr = 0
     THEN pin' = "rx" /\ tcie' = FALSE /\ cut' = (cut \/ shift # 0)
     ELSE UNCHANGED <<pin, tcie, cut>>
  /\ isr' = TRUE
  /\ UNCHANGED <<mode, mainVars, ndtr, dr, shift, tc, tcif, recvVars, peerVars, early,
                 late, quiet, stale, takeVars>>

USART_ClearITPendingBit ==
  /\ isr
  /\ tc' = FALSE /\ isr' = FALSE
  /\ UNCHANGED <<mode, mainVars, ndtr, dr, shift, tcie, tcif, pin, recvVars, peerVars,
                 early, late, pastVars, takeVars>>
-----------------------------------------------------------------------------
(* The board under test, and the receiving half                              *)

Answers ==
  /\ asked /\ ans = 0
  /\ asked' = FALSE /\ ans' = FrameLen /\ heard' = 0
  /\ UNCHANGED <<mode, mainVars, sendVars, recvVars, early, late, pastVars, missed, sent,
                 givenUp>>

(* The stream takes the byte, or it waits; a second one that waits is lost.  *)
Take(byte) ==
  IF RoomIn(buf) THEN buf' = Append(buf, byte) /\ UNCHANGED rdr
                 ELSE rdr' = (IF rdr = 0 THEN byte ELSE rdr) /\ UNCHANGED buf

(* While clearErr is due its read of the data register may take the byte.    *)
ByteArrives ==
  /\ ans > 0 /\ ans' = ans - 1
  /\ ByteTime
  /\ IF Driving
     THEN UNCHANGED <<recvVars, heard, missed>>
     ELSE /\ \/ Take(IF ans = FrameLen THEN Header[mode] ELSE Fill[mode])
             \/ main = "clear" /\ UNCHANGED recvVars
          /\ heard' = heard + 1
          /\ missed' = IF ans = 1 /\ heard' = FrameLen /\ ~over THEN missed + 1 ELSE missed
  /\ UNCHANGED <<mode, mainVars, sendVars, asked, early, pastVars, sent, givenUp>>

(* mutants: NDTR is not loaded again; the bytes are compared in their       *)
(* places, as the lines commented out do.                                    *)
StartAgain_Full(byte) == buf
CheckSum_InPlace(bytes) ==
  IF bytes = [j \in 1 .. BufLen[mode] |-> IF j = 1 THEN Header[mode] ELSE Fill[mode]]
  THEN Expected[mode] ELSE 0

(* NDTR is the buffer's size again; a byte that waited moves in.             *)
StartAgain(byte) == IF byte = 0 THEN <<>> ELSE <<byte>>

SumOf(bytes) == FoldSeq(LAMBDA byte, sum : byte + sum, 0, bytes)

CheckSum(bytes) == SumOf(bytes)

(* A buffer of nothing but an answer's tail does not end the test: 2 * 0xCC  *)
(* is not 0xD0, nor 5 * 0xDD 0x378.                                          *)
ASSUME TailAssumption ==
  \A m \in Modes : SumOf([j \in 1 .. BufLen[m] |-> Fill[m]]) # Expected[m]

(* One with a header and tails for the rest does, wherever the header is.    *)
ASSUME HeaderAssumption ==
  \A m \in Modes : \A k \in 1 .. BufLen[m] :
    SumOf([j \in 1 .. BufLen[m] |-> IF j = k THEN Header[m] ELSE Fill[m]]) = Expected[m]

(* The buffer is full: read_RxFifo up to clearErr                            *)
read_RxFifo ==
  /\ main = "loop" /\ MainRuns /\ ~over /\ ~RoomIn(buf)
  /\ check_sum' = CheckSum(buf)
  /\ buf' = StartAgain(rdr) /\ rdr' = 0
  /\ main' = "clear"
  /\ UNCHANGED <<mode, over, sendVars, peerVars, early, late, pastVars, takeVars>>

(* clearErr, and the verdict                                                 *)
clearErr ==
  /\ main = "clear" /\ MainRuns
  /\ over' = (check_sum = Expected[mode])
  /\ IF over' THEN missed' = 0 /\ heard' = 0 ELSE UNCHANGED <<missed, heard>>
  /\ check_sum' = 0 /\ main' = "loop"
  /\ UNCHANGED <<mode, sendVars, recvVars, peerVars, early, late, pastVars, sent,
                 givenUp>>

(* The PC asks for another test,                                             *)
GiveUp ==
  /\ main = "loop" /\ MainRuns /\ ~over
  /\ over' = TRUE /\ givenUp' = TRUE
  /\ UNCHANGED <<mode, main, check_sum, sendVars, recvVars, peerVars, early, late,
                 pastVars, heard, missed, sent>>

(* and for this one again.  Nothing is cleared: clear_rxFifo has no caller.  *)
Request ==
  /\ main = "loop" /\ MainRuns /\ over
  /\ over' = FALSE /\ sent' = FALSE /\ missed' = 0 /\ heard' = 0
  /\ UNCHANGED <<mode, main, check_sum, sendVars, recvVars, peerVars, early, late,
                 pastVars, givenUp>>
-----------------------------------------------------------------------------
Loop == TimeUp \/ setFlowPinToTxMode \/ send_Array \/ read_RxFifo \/ clearErr
Shifter == DmaMove \/ ShiftOut
Handler == DMA1_Stream3_IRQHandler \/ USART3_IRQHandler \/ USART_ClearITPendingBit
Peer == Answers \/ ByteArrives

Next == Loop \/ Shifter \/ Handler \/ Peer \/ GiveUp \/ Request

LineSpec == Init /\ [][Next]_lineVars

(* The loop, the hardware, the handlers and the board under test go on.      *)
FairLineSpec ==
  LineSpec /\ WF_lineVars(Loop) /\ WF_lineVars(Shifter) /\ WF_lineVars(Handler)
           /\ WF_lineVars(Peer)

Registers ==
  /\ ndtr \in 0 .. FrameLen /\ dr \in 0 .. FrameLen /\ shift \in 0 .. FrameLen
  /\ tc \in BOOLEAN /\ tcie \in BOOLEAN /\ tcif \in BOOLEAN /\ isr \in BOOLEAN
  /\ pin \in {"tx", "rx"}

(* Types.  The receive stream never writes behind its buffer.                *)
LineTypeOK ==
  /\ mode \in Modes /\ main \in {"loop", "send", "pin", "clear"}
  /\ over \in BOOLEAN /\ (main # "clear" => check_sum = 0)
  /\ Registers
  /\ buf \in Seq(Nat) /\ Len(buf) <= BufLen[mode] /\ rdr \in Nat
  /\ asked \in BOOLEAN /\ ans \in 0 .. FrameLen
  /\ early \in 0 .. MaxEarly /\ late \in 0 .. MaxLate
  /\ quiet \in BOOLEAN /\ stale \in BOOLEAN /\ cut \in BOOLEAN
  /\ heard \in Nat /\ missed \in Nat /\ sent \in BOOLEAN
  /\ givenUp \in BOOLEAN

(* The pin goes back to "rx" behind the last byte and never before: the end  *)
(* of the DMA transfer comes two bytes earlier, and the first frame after a  *)
(* reset finds the flag set already, so that only the TXE test tells the end *)
(* of the frame.  It is not enough if that frame's handler is a byte late.   *)
NotCutOff == quiet /\ shift # 0 /\ cut => stale /\ late > 0

(* Bytes left from an earlier answer shift those of the next across the      *)
(* buffer, and some may be lost while the buffer is read; every answer to a  *)
(* frame begun in quiet is recognised all the same.  A frame sent early      *)
(* costs two at most: its own answer, and that of the frame behind it, if    *)
(* the header of an answer cut short is left in the buffer.                  *)
MissedOnlyIfEarly ==
  main = "loop" /\ MainRuns /\ RoomIn(buf) /\ ~over => missed <= 2 * early

(* A verdict comes from an answer to a frame sent since the PC's request,    *)
(* unless frames were sent so close that an answer was left over, or a test  *)
(* was given up: its answer stays in the buffer and decides the next test.   *)
VerdictIsFresh ==
  [][~over /\ over' /\ ~givenUp' => sent \/ early > 0]_lineVars

(* A test that is not given up ends: a frame goes out whole in the end, the  *)
(* line is released, and an answer is recognised.                            *)
TestEnds == ~over ~> over
=============================================================================
