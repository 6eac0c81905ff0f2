----------------------------- MODULE SerialProofs -----------------------------
(* Proofs about SerialLine: its types, that no byte of a frame begun in      *)
(* quiet is cut off, that verdicts come from the test's own answers, and     *)
(* that whole answers are missed only if frames are sent early.              *)
EXTENDS SerialLine, TLAPS

(***************************************************************************)
(* Types                                                                   *)
(***************************************************************************)

LEMMA TypeInit == Init => LineTypeOK
<1> SUFFICES ASSUME Init PROVE LineTypeOK
  OBVIOUS
<1>1. buf \in Seq(Nat) /\ Len(buf) <= BufLen[mode]
  <2>1. mode \in Modes /\ BufLen[mode] \in Nat /\ Fill[mode] \in Nat
    BY LineAssumption DEF Init
  <2>2. PICK n \in 0 .. BufLen[mode] - 1 : buf = [j \in 1 .. n |-> Fill[mode]]
    BY DEF Init
  <2> QED
    BY <2>1, <2>2
<1>2. FrameLen \in Nat /\ MaxEarly \in Nat /\ MaxLate \in Nat
  BY LineAssumption
<1>3. /\ ndtr = 0 /\ dr = 0 /\ shift = 0 /\ tc \in BOOLEAN /\ tcie = FALSE /\ tcif = FALSE
      /\ isr = FALSE /\ pin = "rx" /\ rdr = 0 /\ asked = FALSE /\ ans = 0 /\ early = 0
      /\ late = 0 /\ quiet = FALSE /\ stale = FALSE /\ cut = FALSE /\ heard = 0
      /\ missed = 0 /\ sent = FALSE /\ givenUp = FALSE /\ mode \in Modes
      /\ main = "loop" /\ over = FALSE /\ check_sum = 0
  BY Zenon DEF Init
<1>4. Registers
  <2>1. /\ ndtr \in 0 .. FrameLen /\ dr \in 0 .. FrameLen /\ shift \in 0 .. FrameLen
        /\ ans \in 0 .. FrameLen /\ early \in 0 .. MaxEarly /\ late \in 0 .. MaxLate
    BY <1>2, <1>3
  <2>2. tcie \in BOOLEAN /\ tcif \in BOOLEAN /\ isr \in BOOLEAN
    BY <1>3, Zenon
  <2> QED
    BY <1>3, <2>1, <2>2, Zenon DEF Registers
<1>5. /\ over \in BOOLEAN /\ asked \in BOOLEAN /\ quiet \in BOOLEAN /\ stale \in BOOLEAN
      /\ cut \in BOOLEAN /\ sent \in BOOLEAN /\ givenUp \in BOOLEAN
  BY <1>3, Zenon
<1>6. /\ main \in {"loop", "send", "pin", "clear"} /\ check_sum = 0 /\ mode \in Modes
      /\ rdr \in Nat /\ heard \in Nat /\ missed \in Nat /\ ans \in 0 .. FrameLen
      /\ early \in 0 .. MaxEarly /\ late \in 0 .. MaxLate
  BY <1>2, <1>3
<1> QED
  BY <1>1, <1>4, <1>5, <1>6, Zenon DEF LineTypeOK

(* A byte taken or left to wait keeps the types and the buffer's bound.      *)
LEMMA TakeType ==
  ASSUME LineTypeOK, NEW byte \in Nat, Take(byte), mode' = mode
  PROVE  buf' \in Seq(Nat) /\ Len(buf') <= BufLen[mode'] /\ rdr' \in Nat
<1>1. BufLen[mode] \in Nat
  BY LineAssumption DEF LineTypeOK
<1>2. CASE RoomIn(buf)
  <2>1. buf \in Seq(Nat) /\ Len(buf) < BufLen[mode] /\ rdr \in Nat
    BY <1>2 DEF LineTypeOK, RoomIn
  <2>2. buf' = Append(buf, byte) /\ rdr' = rdr
    BY <1>2 DEF Take
  <2>3. Append(buf, byte) \in Seq(Nat) /\ Len(Append(buf, byte)) = Len(buf) + 1
    BY <2>1
  <2>4. Len(buf) \in Nat
    BY <2>1
  <2> QED
    BY <1>1, <2>1, <2>2, <2>3, <2>4
<1>3. CASE ~RoomIn(buf)
  BY <1>1, <1>3 DEF LineTypeOK, Take
<1> QED
  BY <1>2, <1>3

(* What only the registers and the history of a cut change.                  *)
LEMMA RegisterType ==
  ASSUME LineTypeOK, Registers', cut' \in BOOLEAN,
         UNCHANGED <<mode, mainVars, recvVars, peerVars, early, late, quiet, stale, takeVars>>
  PROVE  LineTypeOK'
<1>1. UNCHANGED <<mode, main, over, check_sum, buf, rdr, asked, ans, early, late, quiet,
                  stale, heard, missed, sent, givenUp>>
  BY DEF mainVars, recvVars, peerVars, takeVars
<1> QED
  BY <1>1, Zenon DEF LineTypeOK

(* What only the loop's own place and the counts of answers change.         *)
LEMMA PlaceType ==
  ASSUME LineTypeOK, main' \in {"loop", "send", "pin", "clear"}, over' \in BOOLEAN,
         main' # "clear" => check_sum' = 0, heard' \in Nat, missed' \in Nat, sent' \in BOOLEAN,
         givenUp' \in BOOLEAN,
         UNCHANGED <<mode, sendVars, recvVars, peerVars, early, late, pastVars>>
  PROVE  LineTypeOK'
<1>1. UNCHANGED <<mode, ndtr, dr, shift, tc, tcie, tcif, isr, pin, buf, rdr, asked, ans,
                  early, late, quiet, stale, cut>>
  BY DEF sendVars, recvVars, peerVars, pastVars
<1>2. Registers'
  BY <1>1, Zenon DEF LineTypeOK, Registers
<1> QED
  BY <1>1, <1>2, Zenon DEF LineTypeOK

LEMMA TypeNext == LineTypeOK /\ [Next]_lineVars => LineTypeOK'
<1> SUFFICES ASSUME LineTypeOK, [Next]_lineVars PROVE LineTypeOK'
  OBVIOUS
<1> USE LineAssumption DEF LineTypeOK, Registers
<1>0. BufLen[mode] \in 1 .. FrameLen /\ Header[mode] \in Nat /\ Fill[mode] \in Nat
  OBVIOUS
<1>1. CASE TimeUp
  <2>1. quiet' \in BOOLEAN
    BY <1>1 DEF TimeUp, Quiet
  <2>2. early' \in 0 .. MaxEarly
    BY <1>1 DEF TimeUp
  <2> QED
    BY <1>1, <2>1, <2>2 DEF TimeUp, sendVars, recvVars, peerVars, takeVars
<1>2. CASE setFlowPinToTxMode
  BY <1>2 DEF setFlowPinToTxMode, recvVars, peerVars, pastVars, takeVars
<1>3. CASE send_Array
  <2>1. ndtr' \in 0 .. FrameLen /\ tcif' \in BOOLEAN /\ stale' \in BOOLEAN
    <3>1. CASE ndtr = 0
      <4>1. ndtr' = FrameLen /\ tcif' = FALSE /\ stale' = tc
        BY <1>3, <3>1 DEF send_Array
      <4>2. tcif' \in BOOLEAN /\ stale' \in BOOLEAN
        BY <4>1, Zenon
      <4> QED
        BY <4>1, <4>2
    <3>2. CASE ndtr # 0
      BY <1>3, <3>2 DEF send_Array
    <3> QED
      BY <3>1, <3>2
  <2>2. main = "pin" /\ main' = "loop" /\ check_sum' = check_sum
    BY <1>3 DEF send_Array
  <2> QED
    BY <1>3, <2>1, <2>2 DEF send_Array, recvVars, peerVars, takeVars
<1>4. CASE read_RxFifo
  <2>1. buf' \in Seq(Nat) /\ Len(buf') <= BufLen[mode']
    BY <1>0, <1>4 DEF read_RxFifo, StartAgain
  <2> QED
    BY <1>4, <2>1 DEF read_RxFifo, sendVars, peerVars, pastVars, takeVars
<1>5. CASE clearErr
  <2>1. /\ main' = "loop" /\ check_sum' = 0 /\ over' \in BOOLEAN
        /\ UNCHANGED <<mode, sendVars, recvVars, peerVars, early, late, pastVars>>
    BY <1>5, Zenon DEF clearErr
  <2>2. heard' \in Nat /\ missed' \in Nat /\ sent' \in BOOLEAN /\ givenUp' \in BOOLEAN
    BY <1>5 DEF clearErr
  <2> QED
    BY <2>1, <2>2, PlaceType
<1>6. CASE DmaMove
  <2>1. ndtr' \in 0 .. FrameLen /\ dr' \in 0 .. FrameLen /\ shift' \in 0 .. FrameLen
    BY <1>6 DEF DmaMove
  <2>2. tcif' \in BOOLEAN
    BY <1>6 DEF DmaMove
  <2>3. cut' \in BOOLEAN
    BY <1>6 DEF DmaMove, CutFrom
  <2> QED
    BY <1>6, <2>1, <2>2, <2>3 DEF DmaMove, mainVars, recvVars, peerVars, takeVars
<1>7. CASE ShiftOut
  <2>1. late' \in 0 .. MaxLate
    BY <1>7 DEF ShiftOut, ByteTime
  <2> QED
    <3>1. cut' \in BOOLEAN
      BY <1>7 DEF ShiftOut, CutFrom
    <3>2. sent' \in BOOLEAN /\ asked' \in BOOLEAN
      <4>1. \/ sent' = TRUE /\ asked' = (asked \/ mode = "rs232" \/ ~cut)
            \/ sent' = sent /\ asked' = asked
        BY <1>7, Zenon DEF ShiftOut
      <4> QED
        BY <4>1, Zenon
    <3>3. shift' \in 0 .. FrameLen /\ dr' \in 0 .. FrameLen
      BY <1>7 DEF ShiftOut
    <3>4. tc' \in BOOLEAN
      BY <1>7, Zenon DEF ShiftOut
    <3>5. UNCHANGED <<mode, mainVars, ndtr, tcie, tcif, isr, pin, recvVars, ans, early,
                      quiet, stale, heard, missed, givenUp>>
      BY <1>7 DEF ShiftOut
    <3> QED
      BY <2>1, <3>1, <3>2, <3>3, <3>4, <3>5 DEF mainVars, recvVars
<1>8. CASE DMA1_Stream3_IRQHandler
  <2>1. /\ tcie' = TRUE /\ tcif' = FALSE
        /\ UNCHANGED <<ndtr, dr, shift, tc, isr, pin, cut, quiet, stale, mode, mainVars,
                       recvVars, peerVars, early, late, takeVars>>
    BY <1>8, Zenon DEF DMA1_Stream3_IRQHandler, pastVars
  <2>2. Registers' /\ cut' \in BOOLEAN
    BY <2>1, Zenon DEF Registers, LineTypeOK
  <2> QED
    BY <2>1, <2>2, RegisterType, Zenon
<1>9. CASE USART3_IRQHandler
  <2>1. /\ pin' \in {"rx", pin} /\ tcie' \in {FALSE, tcie} /\ cut' \in {cut, TRUE, shift # 0}
        /\ isr' = TRUE
        /\ UNCHANGED <<ndtr, dr, shift, tc, tcif, quiet, stale, mode, mainVars, recvVars,
                       peerVars, early, late, takeVars>>
    <3>1. CASE dr = 0
      <4>1. pin' = "rx" /\ tcie' = FALSE /\ cut' = (cut \/ shift # 0)
        BY <1>9, <3>1, Zenon DEF USART3_IRQHandler
      <4>2. cut' \in {cut, TRUE, shift # 0}
        BY <4>1, Zenon DEF LineTypeOK
      <4> QED
        BY <1>9, <4>1, <4>2, Zenon DEF USART3_IRQHandler
    <3>2. CASE dr # 0
      BY <1>9, <3>2, Zenon DEF USART3_IRQHandler
    <3> QED
      BY <3>1, <3>2
  <2>2. tcie' \in BOOLEAN /\ isr' \in BOOLEAN /\ cut' \in BOOLEAN
    BY <2>1, Zenon DEF Registers, LineTypeOK
  <2>3. Registers'
    BY <2>1, <2>2, Zenon DEF Registers, LineTypeOK
  <2> QED
    BY <2>1, <2>2, <2>3, RegisterType, Zenon
<1>10. CASE USART_ClearITPendingBit
  <2>1. /\ tc' = FALSE /\ isr' = FALSE
        /\ UNCHANGED <<ndtr, dr, shift, tcie, tcif, pin, cut, quiet, stale, mode, mainVars,
                       recvVars, peerVars, early, late, takeVars>>
    BY <1>10, Zenon DEF USART_ClearITPendingBit, pastVars
  <2>2. Registers' /\ cut' \in BOOLEAN
    BY <2>1, Zenon DEF Registers, LineTypeOK
  <2> QED
    BY <2>1, <2>2, RegisterType, Zenon
<1>11. CASE Answers
  <2>1. ans' \in 0 .. FrameLen /\ heard' \in Nat
    BY <1>11 DEF Answers
  <2>2. asked' \in BOOLEAN
    BY <1>11, Zenon DEF Answers
  <2>3. UNCHANGED <<mode, mainVars, sendVars, recvVars, early, late, pastVars, missed, sent,
                    givenUp>>
    BY <1>11 DEF Answers
  <2> QED
    BY <2>1, <2>2, <2>3 DEF mainVars, sendVars, recvVars, pastVars
<1>12. CASE ByteArrives
  <2>1. late' \in 0 .. MaxLate
    BY <1>12 DEF ByteArrives, ByteTime
  <2>2. mode' = mode
    BY <1>12 DEF ByteArrives
  <2>3. buf' \in Seq(Nat) /\ Len(buf') <= BufLen[mode'] /\ rdr' \in Nat
    <3>1. CASE UNCHANGED recvVars
      BY <2>2, <3>1 DEF recvVars
    <3>2. CASE Take(IF ans = FrameLen THEN Header[mode] ELSE Fill[mode])
      BY <1>0, <2>2, <3>2, TakeType
    <3> QED
      BY <1>12, <3>1, <3>2 DEF ByteArrives
  <2>4. heard' \in Nat /\ missed' \in Nat
    BY <1>12 DEF ByteArrives
  <2> QED
    BY <1>12, <2>1, <2>3, <2>4 DEF ByteArrives, mainVars, sendVars, pastVars
<1>13. CASE GiveUp
  <2>1. /\ over' = TRUE /\ givenUp' = TRUE
        /\ UNCHANGED <<main, check_sum, heard, missed, sent>>
        /\ UNCHANGED <<mode, sendVars, recvVars, peerVars, early, late, pastVars>>
    BY <1>13, Zenon DEF GiveUp
  <2> QED
    BY <2>1, PlaceType
<1>14. CASE Request
  <2>1. /\ over' = FALSE /\ sent' = FALSE /\ missed' = 0 /\ heard' = 0
        /\ UNCHANGED <<main, check_sum, givenUp>>
        /\ UNCHANGED <<mode, sendVars, recvVars, peerVars, early, late, pastVars>>
    BY <1>14, Zenon DEF Request
  <2> QED
    BY <2>1, PlaceType
<1>15. CASE UNCHANGED lineVars
  <2>1. /\ UNCHANGED <<main, over, check_sum, heard, missed, sent, givenUp>>
        /\ UNCHANGED <<mode, sendVars, recvVars, peerVars, early, late, pastVars>>
    BY <1>15 DEF lineVars, mainVars, takeVars
  <2> QED
    BY <2>1, PlaceType
<1> QED
  BY <1>1, <1>2, <1>3, <1>4, <1>5, <1>6, <1>7, <1>8, <1>9, <1>10, <1>11, <1>12, <1>13,
     <1>14, <1>15
  DEF Next, Loop, Shifter, Handler, Peer

(* The registers and the history keep their types, and the receive stream    *)
(* writes nothing behind its buffer, whatever arrives when.                  *)
THEOREM LineTypeCorrect == LineSpec => []LineTypeOK
<1> QED
  BY TypeInit, TypeNext, PTL DEF LineSpec
-----------------------------------------------------------------------------
(***************************************************************************)
(* A frame begun in quiet, from the timer to its last bit.  While the DMA  *)
(* stream has bytes no interrupt can come; behind it, only the end of the  *)
(* last byte can set the flag, or find it set with the data register full. *)
(***************************************************************************)

\* The frame is one NotCutOff answers for.
Prompt == ~stale \/ late = 0

BeforeFrame ==
  main \in {"send", "pin"} =>
    /\ ndtr = 0 /\ dr = 0 /\ shift = 0 /\ MainRuns
    /\ main = "pin" => pin = "tx"

StreamRuns ==
  /\ ndtr > 0 => MainRuns /\ pin = "tx" /\ (tc => stale)
  /\ ndtr = FrameLen => dr = 0 /\ shift = 0
  /\ ndtr \in 1 .. FrameLen - 1 => shift # 0
  /\ dr # 0 => shift # 0

Shifting ==
  shift # 0 =>
    /\ ~stale => ~tc /\ ~isr
    /\ Prompt => pin = "tx" /\ ~cut
    /\ Prompt /\ tc /\ (tcie \/ tcif) => dr # 0

FrameInv == LineTypeOK /\ (quiet => BeforeFrame /\ StreamRuns /\ Shifting)

LEMMA FrameInit == Init => FrameInv
BY TypeInit DEF Init, FrameInv

(* A step that touches none of the registers keeps a frame as it is.         *)
LEMMA FrameUntouched ==
  ASSUME FrameInv, LineTypeOK', UNCHANGED <<sendVars, pastVars>>, late' >= late,
         main' \in {"send", "pin"} => main' = main
  PROVE  FrameInv'
<1>1. late \in Nat /\ late' \in Nat
  BY DEF FrameInv, LineTypeOK
<1>2. Prompt' => Prompt
  BY <1>1 DEF Prompt, pastVars
<1> QED
  BY <1>2
  DEF FrameInv, BeforeFrame, StreamRuns, Shifting, MainRuns, Pending, sendVars, pastVars

LEMMA FrameNext == FrameInv /\ [Next]_lineVars => FrameInv'
<1> SUFFICES ASSUME FrameInv, [Next]_lineVars PROVE FrameInv'
  OBVIOUS
<1>a. LineTypeOK /\ LineTypeOK'
  BY TypeNext DEF FrameInv
<1>b. /\ FrameLen \in Nat \ {0, 1} /\ MaxLate \in Nat
      /\ late \in Nat /\ ndtr \in 0 .. FrameLen /\ dr \in 0 .. FrameLen
      /\ shift \in 0 .. FrameLen /\ quiet \in BOOLEAN
  BY <1>a, LineAssumption DEF LineTypeOK, Registers
<1>1. CASE TimeUp
  BY <1>1, <1>a, <1>b
  DEF TimeUp, Quiet, FrameInv, BeforeFrame, StreamRuns, Shifting, MainRuns, Pending, sendVars
<1>2. CASE setFlowPinToTxMode
  BY <1>2, <1>a, <1>b
  DEF setFlowPinToTxMode, FrameInv, BeforeFrame, StreamRuns, Shifting, MainRuns, Pending,
      pastVars
<1>3. CASE send_Array
  BY <1>3, <1>a, <1>b
  DEF send_Array, FrameInv, BeforeFrame, StreamRuns, Shifting, MainRuns, Pending
<1>4. CASE read_RxFifo
  BY <1>4, <1>a, <1>b, FrameUntouched DEF read_RxFifo
<1>5. CASE clearErr
  BY <1>5, <1>a, <1>b, FrameUntouched DEF clearErr
<1>6. CASE DmaMove
  <2> SUFFICES ASSUME quiet PROVE (BeforeFrame /\ StreamRuns /\ Shifting)'
    BY <1>6, <1>a DEF DmaMove, FrameInv
  <2>1. BeforeFrame /\ StreamRuns /\ Shifting
    BY DEF FrameInv
  <2>2. main \notin {"send", "pin"} /\ MainRuns /\ pin = "tx"
    BY <1>6, <1>b, <2>1 DEF DmaMove, BeforeFrame, StreamRuns
  <2>3. BeforeFrame'
    BY <1>6, <2>2 DEF DmaMove, BeforeFrame, mainVars
  <2>4. ndtr' = ndtr - 1 /\ (tcif' => ndtr' = 0)
    <3>1. ndtr' = ndtr - 1 /\ (tcif' => ndtr = 1)
      BY <1>6, <2>2, Zenon DEF DmaMove, MainRuns, Pending
    <3> QED
      BY <1>b, <3>1
  <2>5. UNCHANGED <<tc, tcie, isr, pin, late, stale>>
    BY <1>6 DEF DmaMove
  <2>6. tc => stale
    BY <1>6, <2>1 DEF DmaMove, StreamRuns
  <2>7. CASE ndtr = FrameLen
    <3>1. dr = 0 /\ shift = 0
      BY <2>1, <2>7 DEF StreamRuns
    <3>2. shift' = 1 /\ dr' = 0 /\ ~cut'
      <4>1. shift' = FrameLen - ndtr + 1 /\ dr' = dr /\ cut' = CutFrom(FrameLen - ndtr + 1)
        BY <1>6, <3>1, Zenon DEF DmaMove
      <4>2. FrameLen - ndtr + 1 = 1
        BY <1>b, <2>7
      <4>3. ~CutFrom(1)
        BY <2>2 DEF CutFrom
      <4> QED
        BY <3>1, <4>1, <4>2, <4>3
    <3>3. ndtr' \in 1 .. FrameLen - 1 /\ ~tcif'
      BY <1>b, <2>4, <2>7
    <3>4. StreamRuns'
      BY <2>2, <2>5, <2>6, <3>2, <3>3 DEF StreamRuns, MainRuns, Pending
    <3>5. Shifting'
      BY <2>2, <2>5, <2>6, <3>2, <3>3 DEF Shifting, MainRuns, Pending
    <3> QED
      BY <2>3, <3>4, <3>5
  <2>8. CASE ndtr # FrameLen
    <3>1. shift # 0 /\ dr = 0 /\ ndtr \in 1 .. FrameLen - 1
      BY <1>6, <1>b, <2>1, <2>8 DEF DmaMove, StreamRuns
    <3>2. dr' # 0 /\ shift' = shift /\ cut' = cut
      BY <1>6, <1>b, <3>1 DEF DmaMove
    <3>3. ndtr' # FrameLen /\ (ndtr' > 0 => ~tcif')
      BY <1>b, <2>4, <3>1
    <3>4. StreamRuns'
      BY <2>2, <2>5, <2>6, <3>1, <3>2, <3>3 DEF StreamRuns, MainRuns, Pending
    <3>5. Shifting'
      BY <2>1, <2>5, <3>1, <3>2 DEF Shifting, Prompt
    <3> QED
      BY <2>3, <3>4, <3>5
  <2> QED
    BY <2>7, <2>8
<1>7. CASE ShiftOut
  <2> SUFFICES ASSUME quiet PROVE (BeforeFrame /\ StreamRuns /\ Shifting)'
    BY <1>7, <1>a DEF ShiftOut, FrameInv
  <2>1. BeforeFrame /\ StreamRuns /\ Shifting
    BY DEF FrameInv
  <2>2. shift # 0 /\ ndtr # FrameLen /\ main \notin {"send", "pin"}
    BY <1>7, <1>b, <2>1 DEF ShiftOut, BeforeFrame, StreamRuns
  <2>3. late' \in Nat /\ late' >= late /\ (~MainRuns => late' > 0)
    BY <1>7, <1>b DEF ShiftOut, ByteTime
  <2>4. BeforeFrame'
    BY <1>7, <2>2 DEF ShiftOut, BeforeFrame, mainVars
  <2>5. CASE dr = 0
    BY <1>7, <1>b, <2>1, <2>2, <2>4, <2>5 DEF ShiftOut, StreamRuns, Shifting
  <2>6. CASE dr # 0
    <3>1. shift' = dr /\ dr' = 0 /\ tc' = tc /\ cut' = CutFrom(dr)
      BY <1>7, <2>6 DEF ShiftOut
    <3>2. Prompt' => Prompt
      BY <1>7, <1>b, <2>3 DEF ShiftOut, Prompt
    <3>3. StreamRuns'
      BY <1>7, <1>b, <2>1, <2>2, <2>6, <3>1 DEF ShiftOut, StreamRuns, MainRuns, Pending
    <3>4. Prompt' => pin' = "tx" /\ ~cut'
      BY <1>7, <2>1, <2>2, <3>1, <3>2 DEF ShiftOut, Shifting, CutFrom
    <3>5. ~(Prompt' /\ tc' /\ (tcie' \/ tcif'))
      <4>1. CASE stale
        BY <1>7, <1>b, <2>3, <3>1, <4>1 DEF ShiftOut, Prompt, MainRuns, Pending
      <4>2. CASE ~stale
        BY <2>1, <2>2, <3>1, <4>2 DEF Shifting
      <4> QED
        BY <4>1, <4>2
    <3>6. Shifting'
      BY <1>7, <2>1, <2>2, <3>1, <3>4, <3>5 DEF ShiftOut, Shifting
    <3> QED
      BY <2>4, <3>3, <3>6
  <2> QED
    BY <2>5, <2>6
<1>8. CASE DMA1_Stream3_IRQHandler
  BY <1>8, <1>a, <1>b
  DEF DMA1_Stream3_IRQHandler, FrameInv, BeforeFrame, StreamRuns, Shifting, MainRuns, Pending,
      Prompt, mainVars, pastVars
<1>9. CASE USART3_IRQHandler
  <2> SUFFICES ASSUME quiet PROVE (BeforeFrame /\ StreamRuns /\ Shifting)'
    BY <1>9, <1>a DEF USART3_IRQHandler, FrameInv
  <2>1. BeforeFrame /\ StreamRuns /\ Shifting
    BY DEF FrameInv
  <2>2. tcie /\ tc /\ ~tcif /\ ~isr /\ ~MainRuns
    BY <1>9 DEF USART3_IRQHandler, MainRuns, Pending
  <2>3. ndtr = 0 /\ main \notin {"send", "pin"}
    BY <1>b, <2>1, <2>2 DEF BeforeFrame, StreamRuns
  <2>4. shift # 0 => stale
    BY <2>1, <2>2 DEF Shifting
  <2>5. shift # 0 /\ Prompt => dr # 0
    BY <2>1, <2>2 DEF Shifting
  <2>6. BeforeFrame' /\ StreamRuns'
    BY <1>9, <1>b, <2>1, <2>3
    DEF USART3_IRQHandler, BeforeFrame, StreamRuns, mainVars
  <2>7. Shifting'
    BY <1>9, <2>1, <2>4, <2>5 DEF USART3_IRQHandler, Shifting, Prompt
  <2> QED
    BY <2>6, <2>7
<1>10. CASE USART_ClearITPendingBit
  BY <1>10, <1>a, <1>b
  DEF USART_ClearITPendingBit, FrameInv, BeforeFrame, StreamRuns, Shifting, MainRuns, Pending,
      Prompt, mainVars, pastVars
<1>11. CASE Answers
  BY <1>11, <1>a, <1>b, FrameUntouched DEF Answers, mainVars
<1>12. CASE ByteArrives
  <2>1. late' >= late
    BY <1>12, <1>b DEF ByteArrives, ByteTime
  <2> QED
    BY <1>12, <1>a, <2>1, FrameUntouched DEF ByteArrives, mainVars
<1>13. CASE GiveUp
  BY <1>13, <1>a, <1>b, FrameUntouched DEF GiveUp
<1>14. CASE Request
  BY <1>14, <1>a, <1>b, FrameUntouched DEF Request
<1>15. CASE UNCHANGED lineVars
  BY <1>15, <1>a, <1>b, FrameUntouched DEF lineVars, mainVars
<1> QED
  BY <1>1, <1>2, <1>3, <1>4, <1>5, <1>6, <1>7, <1>8, <1>9, <1>10, <1>11, <1>12, <1>13,
     <1>14, <1>15
  DEF Next, Loop, Shifter, Handler, Peer

LEMMA FrameImplies == FrameInv => NotCutOff
BY DEF FrameInv, LineTypeOK, Shifting, NotCutOff, Prompt

(* For every length of frame: while the DMA stream, the shift register and   *)
(* two handlers run on their own, the line is not given up before the frame  *)
(* is out.                                                                   *)
THEOREM FramesNotCutOff == LineSpec => []NotCutOff
<1> QED
  BY FrameInit, FrameNext, FrameImplies, PTL DEF LineSpec
-----------------------------------------------------------------------------
(***************************************************************************)
(* Whose answer a verdict is.  While no test was given up and every frame  *)
(* was begun in quiet, the line carries a frame, or an answer, or nothing, *)
(* and only an answer to a frame sent since the request leaves anything in *)
(* the buffer but the tail of an earlier one.                              *)
(***************************************************************************)

OnlyTails == \A j \in 1 .. Len(buf) : buf[j] = Fill[mode]

FrameOut == main \in {"send", "pin"} \/ ndtr # 0 \/ dr # 0 \/ shift # 0

\* The bytes of a frame in the registers are the next ones of it.
Places ==
  /\ shift # 0 /\ dr = 0 => shift + ndtr = FrameLen
  /\ dr # 0 => dr + ndtr = FrameLen /\ shift = dr - 1

Awaiting == ~over /\ main # "clear" /\ RoomIn(buf) /\ OnlyTails

Waits == rdr \in {0, Fill[mode]} /\ (rdr # 0 => ~RoomIn(buf))

FrameAlone == FrameOut => quiet /\ Places /\ ~asked /\ ans = 0 /\ Awaiting

AnswerAlone ==
  /\ asked \/ ans = FrameLen => ~FrameOut /\ sent /\ Awaiting
  /\ asked => ans = 0

\* Once a header is heard, so is the rest, and the buffer gets full of it.
HeaderHeard ==
  ~OnlyTails =>
    /\ sent /\ ~over /\ main = "loop" /\ ~FrameOut /\ ~asked /\ ans # FrameLen
    /\ ~Driving /\ Len(buf) + ans >= BufLen[mode]

Judged == main = "clear" => ~over /\ (check_sum = Expected[mode] => sent)

FreshInv ==
  early = 0 /\ ~givenUp => Waits /\ FrameAlone /\ AnswerAlone /\ HeaderHeard /\ Judged

LEMMA FreshInit == Init => FreshInv
<1> SUFFICES ASSUME Init PROVE FreshInv
  OBVIOUS
<1>1. mode \in Modes /\ BufLen[mode] \in 1 .. FrameLen /\ FrameLen \in Nat \ {0, 1}
  BY LineAssumption DEF Init
<1>2. PICK n \in 0 .. BufLen[mode] - 1 : buf = [j \in 1 .. n |-> Fill[mode]]
  BY DEF Init
<1>3. OnlyTails
  BY <1>1, <1>2 DEF OnlyTails
<1> QED
  BY <1>1, <1>3
  DEF Init, FreshInv, Waits, FrameOut, FrameAlone, AnswerAlone, HeaderHeard, Judged

(* What the steps below rely on.                                             *)
LEMMA FreshTypes ==
  ASSUME LineTypeOK
  PROVE  /\ mode \in Modes /\ BufLen[mode] \in 1 .. FrameLen /\ FrameLen \in Nat \ {0, 1}
         /\ Header[mode] \in Nat \ {0} /\ Fill[mode] \in Nat \ {0}
         /\ buf \in Seq(Nat) /\ Len(buf) \in Nat /\ Len(buf) <= BufLen[mode]
         /\ ans \in Nat /\ ans <= FrameLen /\ early \in Nat
         /\ ndtr \in 0 .. FrameLen /\ dr \in 0 .. FrameLen /\ shift \in 0 .. FrameLen
         /\ main \in {"loop", "send", "pin", "clear"} /\ over \in BOOLEAN
         /\ asked \in BOOLEAN /\ givenUp \in BOOLEAN
BY LineAssumption DEF LineTypeOK, Registers

(* A full buffer of tails has not the sum that ends the test.                *)
LEMMA TailsDoNotCount ==
  ASSUME LineTypeOK, OnlyTails, ~RoomIn(buf)
  PROVE  CheckSum(buf) # Expected[mode]
<1>1. mode \in Modes /\ buf \in Seq(Nat) /\ BufLen[mode] \in Nat /\ Len(buf) = BufLen[mode]
  BY FreshTypes DEF RoomIn
<1>2. buf = [j \in 1 .. BufLen[mode] |-> Fill[mode]]
  BY <1>1 DEF OnlyTails
<1>3. CheckSum(buf) = SumOf([j \in 1 .. BufLen[mode] |-> Fill[mode]])
  BY <1>2 DEF CheckSum
<1> QED
  BY <1>1, <1>3, TailAssumption

(* A byte of a tail changes nothing: it goes to the others, or it waits.     *)
LEMMA TailTaken ==
  ASSUME LineTypeOK, Take(Fill[mode]), Waits, mode' = mode
  PROVE  /\ Waits' /\ (OnlyTails' <=> OnlyTails)
         /\ RoomIn(buf) => Len(buf') = Len(buf) + 1
         /\ ~RoomIn(buf) => buf' = buf
<1>1. buf \in Seq(Nat) /\ Len(buf) \in Nat /\ Fill[mode] \in Nat \ {0} /\ BufLen[mode] \in Nat
  BY FreshTypes
<1>2. CASE RoomIn(buf)
  <2>1. buf' = Append(buf, Fill[mode]) /\ rdr' = rdr /\ rdr = 0
    BY <1>2 DEF Take, Waits
  <2>2. /\ Len(buf') = Len(buf) + 1 /\ buf'[Len(buf) + 1] = Fill[mode]
        /\ \A j \in 1 .. Len(buf) : buf'[j] = buf[j]
    BY <1>1, <2>1
  <2>3. OnlyTails' <=> OnlyTails
    BY <1>1, <2>2 DEF OnlyTails
  <2> QED
    BY <1>2, <2>1, <2>2, <2>3 DEF Waits
<1>3. CASE ~RoomIn(buf)
  BY <1>1, <1>3 DEF Take, Waits, OnlyTails, RoomIn
<1> QED
  BY <1>2, <1>3

\* What the history below says while it says anything.
Fresh == Waits /\ FrameAlone /\ AnswerAlone /\ HeaderHeard /\ Judged

(* A step that leaves the loop, the buffer and the registers of a frame as   *)
(* they are.                                                                 *)
LEMMA FreshUntouched ==
  ASSUME Fresh,
         UNCHANGED <<mode, main, over, check_sum, ndtr, dr, shift, recvVars, asked, ans, quiet,
                     sent>>,
         pin' = pin \/ pin' = "rx"
  PROVE  Fresh'
BY DEF Fresh, Waits, RoomIn, Places, Awaiting, OnlyTails, FrameOut, FrameAlone, AnswerAlone,
       HeaderHeard, Judged, Driving, recvVars

LEMMA FreshLoop ==
  ASSUME LineTypeOK, FrameInv, Fresh, early' = 0, ~givenUp', Loop
  PROVE  Fresh'
<1>1. mode' = mode /\ UNCHANGED peerVars /\ UNCHANGED <<sent, givenUp>>
  BY DEF Loop, TimeUp, setFlowPinToTxMode, send_Array, read_RxFifo, clearErr, takeVars, peerVars
<1>2. buf \in Seq(Nat) /\ Len(buf) \in Nat /\ BufLen[mode] \in Nat /\ FrameLen \in Nat \ {0, 1}
  BY FreshTypes
<1>3. CASE TimeUp
  <2>1. /\ main = "loop" /\ ~over /\ main' = "send" /\ quiet' = Quiet
        /\ UNCHANGED <<over, check_sum, sendVars, recvVars, asked, ans, sent>>
    BY <1>3 DEF TimeUp, peerVars, takeVars
  <2>2. Quiet
    <3> SUFFICES ASSUME ~Quiet PROVE FALSE
      OBVIOUS
    <3>1. early' = early + 1 /\ early \in Nat
      BY <1>3, FreshTypes DEF TimeUp
    <3> QED
      BY <3>1
  <2>3. ndtr = 0 /\ dr = 0 /\ shift = 0 /\ ~asked /\ ans = 0 /\ RoomIn(buf)
    BY <2>2 DEF Quiet
  <2>4. OnlyTails
    BY <1>2, <2>3 DEF Fresh, HeaderHeard, RoomIn
  <2>5. OnlyTails' /\ RoomIn(buf)' /\ rdr' = rdr /\ Waits'
    BY <1>1, <2>1, <2>3, <2>4 DEF OnlyTails, RoomIn, recvVars, Fresh, Waits
  <2>6. FrameAlone'
    BY <1>1, <2>1, <2>2, <2>3, <2>5 DEF FrameAlone, Places, Awaiting, sendVars
  <2>7. AnswerAlone' /\ HeaderHeard' /\ Judged'
    BY <1>2, <2>1, <2>3, <2>5 DEF AnswerAlone, HeaderHeard, Judged
  <2> QED
    BY <2>5, <2>6, <2>7 DEF Fresh
<1>4. CASE setFlowPinToTxMode
  <2>1. /\ main = "send" /\ main' = "pin" /\ quiet' = quiet
        /\ UNCHANGED <<over, check_sum, ndtr, dr, shift, buf, rdr, asked, ans, sent>>
    BY <1>4 DEF setFlowPinToTxMode, recvVars, peerVars, takeVars, pastVars
  <2>2. /\ quiet /\ Places /\ ~asked /\ ans = 0 /\ Awaiting
    BY <2>1 DEF Fresh, FrameAlone, FrameOut
  <2>3. Waits' /\ Awaiting' /\ Places'
    BY <1>1, <2>1, <2>2 DEF Fresh, Waits, Awaiting, Places, RoomIn, OnlyTails
  <2>4. FrameAlone'
    BY <2>1, <2>2, <2>3 DEF FrameAlone
  <2>5. AnswerAlone' /\ HeaderHeard' /\ Judged'
    BY <1>2, <2>1, <2>2, <2>3 DEF AnswerAlone, HeaderHeard, Judged, Awaiting
  <2> QED
    BY <2>3, <2>4, <2>5 DEF Fresh
<1>5. CASE send_Array
  <2>1. /\ main = "pin" /\ main' = "loop" /\ quiet' = quiet
        /\ UNCHANGED <<over, check_sum, dr, shift, buf, rdr, asked, ans, sent>>
    BY <1>5 DEF send_Array, recvVars, peerVars, takeVars
  <2>2. quiet /\ Places /\ ~asked /\ ans = 0 /\ Awaiting
    BY <2>1 DEF Fresh, FrameAlone, FrameOut
  <2>3. dr = 0 /\ shift = 0
    BY <2>1, <2>2 DEF FrameInv, BeforeFrame
  <2>4. Waits' /\ Awaiting' /\ Places'
    BY <1>1, <2>1, <2>2, <2>3 DEF Fresh, Waits, Awaiting, Places, RoomIn, OnlyTails
  <2>5. FrameAlone'
    BY <2>1, <2>2, <2>4 DEF FrameAlone
  <2>6. AnswerAlone' /\ HeaderHeard' /\ Judged'
    BY <1>2, <2>1, <2>2, <2>4 DEF AnswerAlone, HeaderHeard, Judged, Awaiting
  <2> QED
    BY <2>4, <2>5, <2>6 DEF Fresh
<1>6. CASE read_RxFifo
  <2>1. /\ main = "loop" /\ ~over /\ ~RoomIn(buf) /\ check_sum' = CheckSum(buf)
        /\ buf' = StartAgain(rdr) /\ rdr' = 0 /\ main' = "clear"
        /\ UNCHANGED <<over, sendVars, quiet, asked, ans, sent>>
    BY <1>6 DEF read_RxFifo, peerVars, pastVars, takeVars
  <2>2. ~FrameOut /\ ~asked /\ ans # FrameLen
    BY <2>1 DEF Fresh, FrameAlone, AnswerAlone, Awaiting
  <2>3. OnlyTails'
    <3>1. rdr = 0 \/ rdr = Fill[mode]
      BY DEF Fresh, Waits
    <3>2. buf' = <<>> \/ buf' = <<Fill[mode]>>
      BY <2>1, <3>1 DEF StartAgain
    <3> QED
      BY <1>1, <3>2 DEF OnlyTails
  <2>4. CheckSum(buf) = Expected[mode] => sent
    <3>1. CASE OnlyTails
      BY <2>1, <3>1, TailsDoNotCount
    <3>2. CASE ~OnlyTails
      BY <3>2 DEF Fresh, HeaderHeard
    <3> QED
      BY <3>1, <3>2
  <2>5. ~FrameOut'
    BY <2>1, <2>2 DEF FrameOut, sendVars
  <2>6. Judged'
    BY <1>1, <2>1, <2>4 DEF Judged
  <2>7. Waits'
    BY <2>1 DEF Waits
  <2>8. FrameAlone' /\ AnswerAlone' /\ HeaderHeard'
    BY <2>1, <2>2, <2>3, <2>5 DEF FrameAlone, AnswerAlone, HeaderHeard
  <2> QED
    BY <2>6, <2>7, <2>8 DEF Fresh
<1>7. CASE clearErr
  <2>1. /\ main = "clear" /\ main' = "loop"
        /\ UNCHANGED <<sendVars, quiet, buf, rdr, asked, ans, sent>>
    BY <1>7 DEF clearErr, recvVars, peerVars, pastVars
  <2>2. ~FrameOut /\ ~asked /\ ans # FrameLen /\ OnlyTails
    BY <2>1 DEF Fresh, FrameAlone, AnswerAlone, Awaiting, HeaderHeard
  <2>3. ~FrameOut' /\ OnlyTails' /\ Waits'
    BY <1>1, <2>1, <2>2 DEF FrameOut, OnlyTails, Fresh, Waits, RoomIn, sendVars
  <2> QED
    BY <2>1, <2>2, <2>3 DEF Fresh, FrameAlone, AnswerAlone, HeaderHeard, Judged
<1> QED
  BY <1>3, <1>4, <1>5, <1>6, <1>7 DEF Loop

LEMMA FreshShifter ==
  ASSUME LineTypeOK, FrameInv, Fresh, Shifter
  PROVE  Fresh'
<1>1. /\ UNCHANGED <<mode, main, over, check_sum, pin, buf, rdr, ans, quiet>>
      /\ FrameLen \in Nat \ {0, 1} /\ ndtr \in 0 .. FrameLen
      /\ dr \in 0 .. FrameLen /\ shift \in 0 .. FrameLen
  <2>1. UNCHANGED <<mode, main, over, check_sum, pin, buf, rdr, ans, quiet>>
    BY DEF Shifter, DmaMove, ShiftOut, mainVars, recvVars, peerVars
  <2> QED
    BY <2>1, FreshTypes
<1>2. FrameOut
  BY <1>1 DEF Shifter, DmaMove, ShiftOut, FrameOut
<1>3. quiet /\ Places /\ ~asked /\ ans = 0 /\ Awaiting
  BY <1>2 DEF Fresh, FrameAlone
<1>4. StreamRuns /\ main \notin {"send", "pin"}
  BY <1>1, <1>3 DEF FrameInv, BeforeFrame, Shifter, DmaMove, ShiftOut
<1>5. Awaiting' /\ Waits'
  BY <1>1, <1>3 DEF Awaiting, RoomIn, OnlyTails, Fresh, Waits
<1>6. HeaderHeard' /\ Judged'
  BY <1>5 DEF HeaderHeard, Judged, Awaiting
<1>7. CASE DmaMove
  <2>1. asked' = asked /\ sent' = sent /\ ndtr' = ndtr - 1 /\ ndtr > 0 /\ dr = 0
    BY <1>7 DEF DmaMove, peerVars, takeVars
  <2>2. Places'
    <3>1. CASE shift = 0
      <4>1. shift' = FrameLen - ndtr + 1 /\ dr' = 0
        BY <1>7, <2>1, <3>1 DEF DmaMove
      <4> QED
        BY <1>1, <2>1, <4>1 DEF Places
    <3>2. CASE shift # 0
      <4>1. dr' = FrameLen - ndtr + 1 /\ shift' = shift /\ shift + ndtr = FrameLen
        BY <1>3, <1>7, <2>1, <3>2 DEF DmaMove, Places
      <4> QED
        BY <1>1, <2>1, <4>1 DEF Places
    <3> QED
      BY <3>1, <3>2
  <2> QED
    BY <1>1, <1>3, <1>5, <1>6, <2>1, <2>2 DEF Fresh, FrameAlone, AnswerAlone
<1>8. CASE ShiftOut
  <2>1. shift # 0 /\ shift' = dr /\ dr' = 0 /\ ndtr' = ndtr
    BY <1>8 DEF ShiftOut
  <2>2. Places'
    BY <1>1, <1>3, <2>1 DEF Places
  <2>3. CASE shift = FrameLen
    <3>1. dr = 0 /\ ndtr = 0
      BY <1>1, <1>3, <2>1, <2>3 DEF Places
    <3>2. ~FrameOut' /\ sent'
      BY <1>1, <1>4, <1>8, <2>1, <2>3, <3>1 DEF FrameOut, ShiftOut
    <3> QED
      BY <1>1, <1>3, <1>5, <1>6, <3>2 DEF Fresh, FrameAlone, AnswerAlone
  <2>4. CASE shift # FrameLen
    <3>1. asked' = asked /\ sent' = sent
      BY <1>8, <2>4 DEF ShiftOut
    <3> QED
      BY <1>1, <1>3, <1>5, <1>6, <2>2, <3>1 DEF Fresh, FrameAlone, AnswerAlone
  <2> QED
    BY <2>3, <2>4
<1> QED
  BY <1>7, <1>8 DEF Shifter

LEMMA FreshPeer ==
  ASSUME LineTypeOK, Fresh, Peer
  PROVE  Fresh'
<1>1. /\ UNCHANGED <<mode, main, over, check_sum, ndtr, dr, shift, pin, quiet, sent>>
      /\ FrameLen \in Nat \ {0, 1} /\ ans \in Nat /\ ans <= FrameLen
      /\ buf \in Seq(Nat) /\ Len(buf) \in Nat /\ BufLen[mode] \in 1 .. FrameLen
  BY FreshTypes DEF Peer, Answers, ByteArrives, mainVars, sendVars, pastVars
<1>2. FrameOut' <=> FrameOut
  BY <1>1 DEF FrameOut
<1>3. CASE Answers
  <2>1. asked /\ asked' = FALSE /\ ans' = FrameLen /\ buf' = buf /\ rdr' = rdr
    BY <1>3 DEF Answers, recvVars
  <2>2. ~FrameOut /\ sent /\ Awaiting
    BY <2>1 DEF Fresh, AnswerAlone
  <2>3. Awaiting' /\ Waits'
    BY <1>1, <2>1, <2>2 DEF Awaiting, RoomIn, OnlyTails, Fresh, Waits
  <2> QED
    BY <1>1, <1>2, <2>1, <2>2, <2>3
    DEF Fresh, FrameAlone, AnswerAlone, HeaderHeard, Judged, Awaiting
<1>4. CASE ByteArrives
  <2>1. ans > 0 /\ ans' = ans - 1 /\ asked' = asked
    BY <1>4 DEF ByteArrives
  <2>2. ~FrameOut /\ ~asked
    BY <1>1, <2>1 DEF Fresh, FrameAlone, AnswerAlone
  <2>3. FrameAlone' /\ AnswerAlone'
    BY <1>1, <1>2, <2>1, <2>2 DEF FrameAlone, AnswerAlone
  <2>4. Judged'
    BY <1>1 DEF Fresh, Judged
  <2>5. CASE Driving \/ (main = "clear" /\ UNCHANGED recvVars)
    <3>1. UNCHANGED recvVars
      BY <1>4, <2>5 DEF ByteArrives
    <3>2. OnlyTails
      BY <2>5 DEF Fresh, HeaderHeard
    <3>3. OnlyTails' /\ Waits'
      BY <1>1, <3>1, <3>2 DEF OnlyTails, Fresh, Waits, RoomIn, recvVars
    <3> QED
      BY <2>3, <2>4, <3>3 DEF Fresh, HeaderHeard
  <2>6. CASE ~Driving /\ Take(IF ans = FrameLen THEN Header[mode] ELSE Fill[mode])
    <3>1. CASE ans = FrameLen
      <4>1. sent /\ Awaiting
        BY <3>1 DEF Fresh, AnswerAlone
      <4>2. buf' = Append(buf, Header[mode]) /\ rdr' = rdr /\ rdr = 0
        BY <2>6, <3>1, <4>1 DEF Take, Awaiting, Fresh, Waits
      <4>3. Len(buf') = Len(buf) + 1
        BY <1>1, <4>2
      <4>4. Waits'
        BY <4>2 DEF Waits
      <4>5. main = "loop" /\ ~over
        BY <2>2, <4>1, FreshTypes DEF Awaiting, FrameOut
      <4>6. ~Driving'
        BY <1>1, <2>6 DEF Driving
      <4>7. Len(buf') + ans' >= BufLen[mode']
        BY <1>1, <2>1, <3>1, <4>3
      <4>8. HeaderHeard'
        BY <1>1, <1>2, <2>1, <2>2, <3>1, <4>1, <4>5, <4>6, <4>7 DEF HeaderHeard
      <4> QED
        BY <2>3, <2>4, <4>4, <4>8 DEF Fresh
    <3>2. CASE ans # FrameLen
      <4>1. Waits /\ Take(Fill[mode])
        BY <2>6, <3>2 DEF Fresh
      <4>2. /\ Waits' /\ (OnlyTails' <=> OnlyTails)
            /\ RoomIn(buf) => Len(buf') = Len(buf) + 1
            /\ ~RoomIn(buf) => buf' = buf
        BY <1>1, <4>1, TailTaken
      <4>3. HeaderHeard'
        <5> SUFFICES ASSUME ~OnlyTails'
                     PROVE  /\ sent' /\ ~over' /\ main' = "loop" /\ ~FrameOut' /\ ~asked'
                            /\ ans' # FrameLen /\ ~Driving' /\ Len(buf') + ans' >= BufLen[mode']
          BY DEF HeaderHeard
        <5>1. /\ sent /\ ~over /\ main = "loop" /\ ~FrameOut /\ ~asked
              /\ ~Driving /\ Len(buf) + ans >= BufLen[mode]
          BY <4>2 DEF Fresh, HeaderHeard
        <5>2. Len(buf') + ans' >= BufLen[mode]
          BY <1>1, <2>1, <4>2, <5>1 DEF RoomIn
        <5>3. ans' # FrameLen
          BY <1>1, <2>1
        <5> QED
          BY <1>1, <1>2, <2>1, <5>1, <5>2, <5>3 DEF Driving
      <4> QED
        BY <2>3, <2>4, <4>2, <4>3 DEF Fresh
    <3> QED
      BY <3>1, <3>2
  <2> QED
    BY <1>4, <2>5, <2>6 DEF ByteArrives
<1> QED
  BY <1>3, <1>4 DEF Peer

LEMMA FreshNext ==
  FrameInv /\ FreshInv /\ [Next]_lineVars => FreshInv'
<1> SUFFICES ASSUME FrameInv, FreshInv, [Next]_lineVars, early' = 0, ~givenUp'
             PROVE  Fresh'
  BY DEF FreshInv, Fresh
<1>1. LineTypeOK /\ LineTypeOK' /\ early \in Nat /\ givenUp \in BOOLEAN
  BY TypeNext, FreshTypes DEF FrameInv
<1>2. early = 0 /\ ~givenUp
  BY <1>1
  DEF Next, Loop, Shifter, Handler, Peer, TimeUp, setFlowPinToTxMode, send_Array, read_RxFifo,
      clearErr, DmaMove, ShiftOut, DMA1_Stream3_IRQHandler, USART3_IRQHandler,
      USART_ClearITPendingBit, Answers, ByteArrives, GiveUp, Request, takeVars, lineVars
<1>3. Fresh
  BY <1>2 DEF FreshInv, Fresh
<1>4. CASE Loop
  BY <1>1, <1>3, <1>4, FreshLoop
<1>5. CASE Shifter
  BY <1>1, <1>3, <1>5, FreshShifter
<1>6. CASE Peer
  BY <1>1, <1>3, <1>6, FreshPeer
<1>7. CASE Handler
  <2>1. UNCHANGED <<mode, main, over, check_sum, ndtr, dr, shift, recvVars, asked, ans, quiet,
                    sent>>
    BY <1>7
    DEF Handler, DMA1_Stream3_IRQHandler, USART3_IRQHandler, USART_ClearITPendingBit, mainVars,
        peerVars, pastVars, takeVars
  <2>2. pin' = pin \/ pin' = "rx"
    BY <1>7 DEF Handler, DMA1_Stream3_IRQHandler, USART3_IRQHandler, USART_ClearITPendingBit
  <2> QED
    BY <1>3, <2>1, <2>2, FreshUntouched
<1>8. CASE GiveUp
  BY <1>8 DEF GiveUp
<1>9. CASE Request
  <2>1. /\ main = "loop" /\ over /\ over' = FALSE
        /\ UNCHANGED <<mode, main, check_sum, sendVars, recvVars, asked, ans, quiet>>
    BY <1>9 DEF Request, peerVars, pastVars
  <2>2. ~FrameOut /\ ~asked /\ ans # FrameLen /\ OnlyTails
    BY <1>3, <2>1 DEF Fresh, FrameAlone, AnswerAlone, HeaderHeard, Awaiting
  <2>3. ~FrameOut' /\ OnlyTails' /\ Waits'
    BY <1>3, <2>1, <2>2 DEF FrameOut, OnlyTails, Fresh, Waits, RoomIn, sendVars, recvVars
  <2> QED
    BY <2>1, <2>2, <2>3 DEF Fresh, FrameAlone, AnswerAlone, HeaderHeard, Judged
<1>10. CASE UNCHANGED lineVars
  <2>1. UNCHANGED <<mode, main, over, check_sum, ndtr, dr, shift, recvVars, asked, ans, quiet,
                    sent>> /\ pin' = pin
    BY <1>10 DEF lineVars, mainVars, sendVars, peerVars, pastVars, takeVars
  <2> QED
    BY <1>3, <2>1, FreshUntouched
<1> QED
  BY <1>4, <1>5, <1>6, <1>7, <1>8, <1>9, <1>10 DEF Next

LEMMA FreshImplies ==
  FrameInv /\ FreshInv /\ [Next]_lineVars
    => [~over /\ over' /\ ~givenUp' => sent \/ early > 0]_lineVars
<1> SUFFICES ASSUME FrameInv, FreshInv, Next, ~over, over', ~givenUp', ~(early > 0)
             PROVE  sent
  OBVIOUS
<1>1. LineTypeOK /\ early = 0 /\ givenUp \in BOOLEAN
  BY FreshTypes DEF FrameInv
<1>2. clearErr
  BY DEF Next, Loop, Shifter, Handler, Peer, TimeUp, setFlowPinToTxMode, send_Array,
         read_RxFifo, DmaMove, ShiftOut, DMA1_Stream3_IRQHandler, USART3_IRQHandler,
         USART_ClearITPendingBit, Answers, ByteArrives, GiveUp, Request, mainVars
<1>3. main = "clear" /\ check_sum = Expected[mode] /\ ~givenUp
  BY <1>2 DEF clearErr
<1> QED
  BY <1>1, <1>3 DEF FreshInv, Judged

(* A verdict comes from an answer to a frame sent since the PC's request,    *)
(* for every length of frame, answer and buffer in which a tail alone has    *)
(* not the sum that ends the test (read_RxFifo and clearErr,                 *)
(* CUsart.cpp:105-137, 543-551; uart485Run and uart232Run).                  *)
THEOREM VerdictsAreFresh == LineSpec => VerdictIsFresh
<1>1. LineSpec => [](FrameInv /\ FreshInv)
  <2>1. Init => FrameInv /\ FreshInv
    BY FrameInit, FreshInit
  <2>2. (FrameInv /\ FreshInv) /\ [Next]_lineVars => (FrameInv /\ FreshInv)'
    BY FrameNext, FreshNext
  <2> QED
    BY <2>1, <2>2, PTL DEF LineSpec
<1> QED
  BY <1>1, FreshImplies, PTL DEF LineSpec, VerdictIsFresh

(***************************************************************************)
(* Missed answers.  Every frame between the loop and its answer's last     *)
(* byte is counted; all but the first were begun early, and so two answers *)
(* each are theirs to spoil.  The first has a credit of its own: none if   *)
(* its answer is bound to be recognised, one if the header of an answer    *)
(* that was cut short may be in the buffer before it, two if it was begun  *)
(* early itself.                                                           *)
(***************************************************************************)

One(holds) == IF holds THEN 1 ELSE 0

Coming ==
  One(main \in {"send", "pin"}) + One(ndtr # 0) + One(dr = FrameLen) + One(shift = FrameLen)
    + One(asked) + One(ans > 0)

Debt(credit) == IF Coming = 0 THEN credit ELSE 2 * (Coming - 1) + credit

\* The buffer has the sum that ends the test, or the loop has it already.
Recognised ==
  \/ main = "clear" /\ check_sum = Expected[mode]
  \/ main # "clear" /\ ~RoomIn(buf) /\ CheckSum(buf) = Expected[mode]

TailWaits == rdr \in {0, Fill[mode]}

\* Nothing but tails are left once a full buffer is read.
Clean == (RoomIn(buf) => OnlyTails) /\ TailWaits

OneHeader ==
  \E k \in 1 .. Len(buf) :
    buf[k] = Header[mode] /\ \A j \in 1 .. Len(buf) : j # k => buf[j] = Fill[mode]

\* The buffer gets full, with one header.
Filling ==
  /\ OneHeader /\ main # "clear" /\ TailWaits
  /\ RoomIn(buf) => Len(buf) + ans >= BufLen[mode] /\ (Driving => Coming > 1)

\* The buffer gets full, whatever was in it before this answer.
Closing == RoomIn(buf) /\ main # "clear" /\ Len(buf) + ans >= BufLen[mode]

\* Up to now all of the answer was heard.
Whole == heard + ans = FrameLen

\* No frame is under way; the first one's answer has not begun; or it has.
NoneComes(credit) == Coming = 0 => credit # 2 /\ (credit = 0 => Clean)

BeforeAnswer(credit) ==
  Coming > 0 /\ ans \in {0, FrameLen} =>
    (credit # 2 => RoomIn(buf) /\ main # "clear") /\ (credit = 0 => OnlyTails)

InAnswer(credit) ==
  ans \in 1 .. FrameLen - 1 =>
    /\ credit = 1 /\ Whole => Clean \/ Closing
    /\ credit = 0 => Filling \/ (Clean /\ (Whole => Recognised)) \/ (Coming > 1 /\ ~Whole)

Credited(credit) ==
  /\ Debt(credit) <= 2 * early
  /\ ~over /\ ~Recognised => missed + Debt(credit) <= 2 * early
  /\ NoneComes(credit) /\ BeforeAnswer(credit) /\ InAnswer(credit)

AnswersInv ==
  /\ rdr # 0 => ~RoomIn(buf)
  /\ ans > 0 => heard + ans <= FrameLen
  /\ main = "clear" => ~over
  /\ \E credit \in 0 .. 2 : Credited(credit)

LEMMA ComingType ==
  ASSUME LineTypeOK
  PROVE  Coming \in Nat /\ (ans > 0 => Coming > 0)
BY FreshTypes DEF Coming, One

LEMMA AnswersTypes ==
  ASSUME LineTypeOK
  PROVE  /\ heard \in Nat /\ missed \in Nat /\ early \in Nat /\ ans \in 0 .. FrameLen
         /\ rdr \in Nat /\ FrameLen \in Nat \ {0, 1}
BY LineAssumption DEF LineTypeOK

(* A full buffer with one header has the sum that ends the test.             *)
LEMMA HeaderCounts ==
  ASSUME NEW m \in Modes, NEW b \in Seq(Nat), Len(b) = BufLen[m],
         \E k \in 1 .. Len(b) :
           b[k] = Header[m] /\ \A j \in 1 .. Len(b) : j # k => b[j] = Fill[m]
  PROVE  SumOf(b) = Expected[m]
<1>1. PICK k \in 1 .. BufLen[m] :
        b[k] = Header[m] /\ \A j \in 1 .. BufLen[m] : j # k => b[j] = Fill[m]
  OBVIOUS
<1>2. BufLen[m] \in Nat
  BY LineAssumption
<1>3. b = [j \in 1 .. BufLen[m] |-> IF j = k THEN Header[m] ELSE Fill[m]]
  BY <1>1, <1>2
<1>4. SumOf(b) = SumOf([j \in 1 .. BufLen[m] |-> IF j = k THEN Header[m] ELSE Fill[m]])
  BY <1>3
<1> QED
  BY <1>1, <1>4, HeaderAssumption

LEMMA AnswersInit == Init => AnswersInv
<1> SUFFICES ASSUME Init PROVE AnswersInv
  OBVIOUS
<1>1. LineTypeOK /\ mode \in Modes /\ BufLen[mode] \in 1 .. FrameLen /\ FrameLen \in Nat \ {0, 1}
  BY LineAssumption, TypeInit DEF Init
<1>2. PICK n \in 0 .. BufLen[mode] - 1 : buf = [j \in 1 .. n |-> Fill[mode]]
  BY DEF Init
<1>3. OnlyTails
  BY <1>1, <1>2 DEF OnlyTails
<1>4. Coming = 0
  BY <1>1 DEF Init, Coming, One
<1>5. Credited(0)
  BY <1>1, <1>3, <1>4
  DEF Init, Credited, Debt, NoneComes, BeforeAnswer, InAnswer, Clean, TailWaits
<1> QED
  BY <1>1, <1>5 DEF Init, AnswersInv

(* A step that leaves buffer, answer and frames under way as they are; the   *)
(* test may begin anew or be given up meanwhile.                             *)
LEMMA AnswersKept ==
  ASSUME LineTypeOK, LineTypeOK', AnswersInv,
         UNCHANGED <<mode, check_sum, buf, rdr, ans, early>>,
         main' = "clear" <=> main = "clear",
         Coming' = Coming,
         Driving' => Driving \/ (ans > 0 => Coming > 1),
         heard' \in {0, heard},
         main = "clear" => over' = over,
         over' \/ missed' = 0 \/ (missed' = missed /\ ~over)
  PROVE  AnswersInv'
<1>1. PICK credit \in 0 .. 2 : Credited(credit)
  BY DEF AnswersInv
<1>2. /\ heard \in Nat /\ missed \in Nat /\ early \in Nat /\ ans \in 0 .. FrameLen
      /\ FrameLen \in Nat \ {0, 1} /\ Coming \in Nat
  BY AnswersTypes, ComingType
<1>0. ans' = ans /\ (heard' = 0 \/ heard' = heard)
  OBVIOUS
<1>3. /\ RoomIn(buf)' = RoomIn(buf) /\ OnlyTails' = OnlyTails /\ TailWaits' = TailWaits
      /\ OneHeader' = OneHeader /\ CheckSum(buf)' = CheckSum(buf)
  BY DEF RoomIn, OnlyTails, TailWaits, OneHeader, CheckSum
<1>4. Recognised' <=> Recognised
  BY <1>3 DEF Recognised
<1>5. /\ Clean' <=> Clean
      /\ Closing' <=> Closing
  BY <1>3 DEF Clean, Closing
<1>6. ans > 0 => heard' + ans' <= FrameLen
  <2>1. ans > 0 => heard + ans <= FrameLen
    BY DEF AnswersInv
  <2>2. CASE heard' = 0
    BY <1>0, <1>2, <2>2
  <2>3. CASE heard' = heard
    BY <1>0, <1>2, <2>1, <2>3
  <2> QED
    BY <1>0, <2>2, <2>3
<1>7. Debt(credit)' = Debt(credit)
  BY DEF Debt
<1>8. NoneComes(credit)' /\ BeforeAnswer(credit)'
  BY <1>1, <1>3, <1>5 DEF Credited, NoneComes, BeforeAnswer
<1>9. InAnswer(credit)'
  <2> SUFFICES ASSUME ans \in 1 .. FrameLen - 1
               PROVE  /\ credit = 1 /\ Whole' => Clean' \/ Closing'
                      /\ credit = 0 => \/ Filling' \/ (Clean' /\ (Whole' => Recognised'))
                                       \/ (Coming' > 1 /\ ~Whole')
    BY DEF InAnswer
  <2>1. Whole' => Whole
    <3>1. CASE heard' = 0
      BY <1>0, <1>2, <3>1 DEF Whole
    <3>2. CASE heard' = heard
      BY <1>0, <3>2 DEF Whole
    <3> QED
      BY <1>0, <3>1, <3>2
  <2>2. Filling => Filling'
    BY <1>2, <1>3 DEF Filling
  <2> QED
    BY <1>1, <1>4, <1>5, <2>1, <2>2 DEF Credited, InAnswer
<1>10. ~over' /\ ~Recognised' => missed' + Debt(credit)' <= 2 * early'
  <2>1. Debt(credit) \in Nat /\ Debt(credit) <= 2 * early
    BY <1>1, <1>2 DEF Credited, Debt
  <2>2. CASE missed' = 0
    BY <1>2, <1>7, <2>1, <2>2
  <2>3. CASE missed' = missed /\ ~over
    BY <1>1, <1>4, <1>7, <2>3 DEF Credited
  <2> QED
    BY <2>2, <2>3
<1>11. Credited(credit)'
  BY <1>1, <1>7, <1>8, <1>9, <1>10 DEF Credited
<1> QED
  BY <1>3, <1>6, <1>11 DEF AnswersInv

(* A step that leaves the test alone, too.                                   *)
LEMMA AnswersSame ==
  ASSUME LineTypeOK, LineTypeOK', AnswersInv,
         UNCHANGED <<mode, over, check_sum, buf, rdr, ans, early, heard, missed>>,
         main' = "clear" <=> main = "clear",
         Coming' = Coming,
         Driving' => Driving \/ (ans > 0 => Coming > 1)
  PROVE  AnswersInv'
<1>1. CASE ~over
  BY <1>1, AnswersKept
<1>2. CASE over
  BY <1>2, AnswersKept
<1> QED
  BY <1>1, <1>2

(* A frame that is not sent, not understood, or runs into another's answer:  *)
(* what it could have spoilt is the first one's to spoil.                    *)
LEMMA FrameDropped ==
  ASSUME LineTypeOK, LineTypeOK', AnswersInv,
         UNCHANGED <<mode, check_sum, buf, rdr, ans, early, heard, missed, over>>,
         main' = "clear" <=> main = "clear",
         Coming' = Coming - 1,
         ans > 0 => Coming > 1
  PROVE  AnswersInv'
<1>1. PICK credit \in 0 .. 2 : Credited(credit)
  BY DEF AnswersInv
<1>2. /\ heard \in Nat /\ missed \in Nat /\ early \in Nat /\ ans \in 0 .. FrameLen
      /\ FrameLen \in Nat \ {0, 1} /\ Coming \in Nat /\ Coming' \in Nat
  <2>1. Coming' \in Nat
    BY DEF Coming, One
  <2> QED
    BY <2>1, AnswersTypes, ComingType
<1>3. /\ RoomIn(buf)' = RoomIn(buf) /\ OnlyTails' = OnlyTails /\ TailWaits' = TailWaits
      /\ CheckSum(buf)' = CheckSum(buf)
  BY DEF RoomIn, OnlyTails, TailWaits, CheckSum
<1>4. Recognised' <=> Recognised
  BY <1>3 DEF Recognised
<1>5. CASE Coming > 1
  <2>1. Debt(2)' <= Debt(credit) /\ Debt(2)' \in Nat /\ Debt(credit) \in Nat
    BY <1>2, <1>5 DEF Debt
  <2>2. NoneComes(2)' /\ BeforeAnswer(2)' /\ InAnswer(2)'
    BY <1>2, <1>5 DEF NoneComes, BeforeAnswer, InAnswer
  <2>3. Credited(2)'
    BY <1>1, <1>2, <1>4, <2>1, <2>2 DEF Credited
  <2> QED
    BY <1>3, <2>3 DEF AnswersInv
<1>6. CASE Coming = 1
  <2>1. ans = 0 /\ Coming' = 0
    BY <1>2, <1>6
  <2>2. PICK next \in 0 .. 1 : next <= credit /\ (next = 0 => credit = 0)
    <3>1. CASE credit = 0
      BY <3>1
    <3>2. CASE credit # 0
      <4>1. 1 \in 0 .. 1 /\ 1 <= credit
        BY <3>2
      <4> QED
        BY <4>1
    <3> QED
      BY <3>1, <3>2
  <2>3. next = 0 => Clean'
    <3> SUFFICES ASSUME next = 0 PROVE Clean'
      OBVIOUS
    <3>1. OnlyTails /\ RoomIn(buf)
      BY <1>1, <1>6, <2>1, <2>2 DEF Credited, BeforeAnswer
    <3> QED
      BY <1>3, <3>1 DEF Clean, TailWaits, AnswersInv
  <2>4. Debt(next)' <= Debt(credit) /\ Debt(next)' \in Nat /\ Debt(credit) \in Nat
    BY <1>2, <1>6, <2>1, <2>2 DEF Debt
  <2>5. NoneComes(next)' /\ BeforeAnswer(next)' /\ InAnswer(next)'
    BY <1>2, <2>1, <2>2, <2>3 DEF NoneComes, BeforeAnswer, InAnswer
  <2>6. Credited(next)'
    BY <1>1, <1>2, <1>4, <2>4, <2>5 DEF Credited
  <2> QED
    BY <1>3, <2>1, <2>2, <2>6 DEF AnswersInv
<1> QED
  BY <1>2, <1>5, <1>6

(* One lemma for each action that matters.  TimeUp begins a frame, in quiet  *)
(* or early;                                                                 *)
LEMMA AnswersTimeUp ==
  ASSUME LineTypeOK, LineTypeOK', AnswersInv, TimeUp
  PROVE  AnswersInv'
<1>1. PICK credit \in 0 .. 2 : Credited(credit)
  BY DEF AnswersInv
<1>2. /\ heard \in Nat /\ missed \in Nat /\ early \in Nat /\ ans \in 0 .. FrameLen
      /\ FrameLen \in Nat \ {0, 1} /\ Coming \in Nat /\ early' \in Nat
  BY AnswersTypes, ComingType DEF TimeUp
<1>3. /\ main = "loop" /\ main' = "send" /\ MainRuns /\ ~over
      /\ UNCHANGED <<mode, over, check_sum, ndtr, dr, shift, pin, buf, rdr, asked, ans, heard,
                     missed>>
  BY DEF TimeUp, sendVars, recvVars, peerVars, takeVars
<1>4. Coming' = Coming + 1
  BY <1>3 DEF Coming, One
<1>5. /\ RoomIn(buf)' = RoomIn(buf) /\ OnlyTails' = OnlyTails /\ TailWaits' = TailWaits
      /\ OneHeader' = OneHeader /\ CheckSum(buf)' = CheckSum(buf) /\ Driving' = Driving
  BY <1>3 DEF RoomIn, OnlyTails, TailWaits, OneHeader, CheckSum, Driving
<1>6. Recognised' <=> Recognised
  BY <1>3, <1>5 DEF Recognised
<1>7. (rdr # 0 => ~RoomIn(buf))' /\ (ans > 0 => heard + ans <= FrameLen)'
  BY <1>3, <1>5 DEF AnswersInv
<1>8. CASE Quiet
  <2>1. early' = early
    BY <1>8 DEF TimeUp
  <2>2. ans = 0 /\ RoomIn(buf) /\ Coming = 0
    BY <1>3, <1>2, <1>8 DEF Quiet, Coming, One
  <2>3. credit # 2 /\ (credit = 0 => OnlyTails)
    BY <1>1, <2>2 DEF Credited, NoneComes, Clean
  <2>4. Debt(credit)' = Debt(credit)
    BY <1>4, <2>2 DEF Debt
  <2>5. NoneComes(credit)' /\ BeforeAnswer(credit)' /\ InAnswer(credit)'
    BY <1>2, <1>3, <1>4, <1>5, <2>2, <2>3 DEF NoneComes, BeforeAnswer, InAnswer
  <2>6. Credited(credit)'
    BY <1>1, <1>3, <1>6, <2>1, <2>4, <2>5 DEF Credited
  <2> QED
    BY <1>3, <1>7, <2>6 DEF AnswersInv
<1>9. CASE ~Quiet /\ Coming = 0
  <2>1. early' = early + 1
    BY <1>9 DEF TimeUp
  <2>2. Debt(2)' = 2 /\ Debt(credit) \in Nat
    BY <1>2, <1>4, <1>9 DEF Debt
  <2>3. NoneComes(2)' /\ BeforeAnswer(2)' /\ InAnswer(2)'
    BY <1>2, <1>4, <1>9 DEF NoneComes, BeforeAnswer, InAnswer
  <2>4. Debt(2)' <= 2 * early'
    BY <1>2, <2>1, <2>2
  <2>5. ~over' /\ ~Recognised' => missed' + Debt(2)' <= 2 * early'
    <3> SUFFICES ASSUME ~over', ~Recognised' PROVE missed' + Debt(2)' <= 2 * early'
      OBVIOUS
    <3>1. missed + Debt(credit) <= 2 * early
      BY <1>1, <1>3, <1>6 DEF Credited
    <3> QED
      BY <1>2, <1>3, <2>1, <2>2, <3>1
  <2>6. Credited(2)'
    BY <2>3, <2>4, <2>5 DEF Credited
  <2> QED
    BY <1>3, <1>7, <2>6 DEF AnswersInv
<1>10. CASE ~Quiet /\ Coming # 0
  <2>1. early' = early + 1
    BY <1>10 DEF TimeUp
  <2>2. Debt(credit)' = Debt(credit) + 2 /\ Debt(credit) \in Nat
    BY <1>2, <1>4, <1>10 DEF Debt
  <2>3. NoneComes(credit)' /\ BeforeAnswer(credit)'
    BY <1>1, <1>2, <1>3, <1>4, <1>5, <1>10 DEF Credited, NoneComes, BeforeAnswer
  <2>4. InAnswer(credit)'
    <3> SUFFICES ASSUME ans \in 1 .. FrameLen - 1
                 PROVE  /\ credit = 1 /\ Whole' => Clean' \/ Closing'
                        /\ credit = 0 => \/ Filling' \/ (Clean' /\ (Whole' => Recognised'))
                                         \/ (Coming' > 1 /\ ~Whole')
      BY <1>3 DEF InAnswer
    <3>1. Whole' <=> Whole
      BY <1>3 DEF Whole
    <3>2. Filling => Filling'
      BY <1>2, <1>3, <1>4, <1>5, <1>10 DEF Filling
    <3>3. Clean' = Clean /\ (Closing => Closing')
      BY <1>3, <1>5 DEF Clean, Closing
    <3>4. Coming' > 1
      BY <1>2, <1>4, <1>10
    <3> QED
      BY <1>1, <1>6, <3>1, <3>2, <3>3, <3>4 DEF Credited, InAnswer
  <2>5. Debt(credit)' <= 2 * early'
    BY <1>1, <1>2, <2>1, <2>2 DEF Credited
  <2>6. ~over' /\ ~Recognised' => missed' + Debt(credit)' <= 2 * early'
    <3> SUFFICES ASSUME ~over', ~Recognised' PROVE missed' + Debt(credit)' <= 2 * early'
      OBVIOUS
    <3>1. missed + Debt(credit) <= 2 * early
      BY <1>1, <1>3, <1>6 DEF Credited
    <3> QED
      BY <1>2, <1>3, <2>1, <2>2, <3>1
  <2>7. Credited(credit)'
    BY <2>3, <2>4, <2>5, <2>6 DEF Credited
  <2> QED
    BY <1>3, <1>7, <2>7 DEF AnswersInv
<1> QED
  BY <1>8, <1>9, <1>10

(* a buffer with one header is recognised, and leaves only tails;            *)
LEMMA AnswersRead ==
  ASSUME LineTypeOK, LineTypeOK', AnswersInv, read_RxFifo
  PROVE  AnswersInv'
<1>1. PICK credit \in 0 .. 2 : Credited(credit)
  BY DEF AnswersInv
<1>2. /\ heard \in Nat /\ missed \in Nat /\ early \in Nat /\ ans \in 0 .. FrameLen
      /\ FrameLen \in Nat \ {0, 1} /\ Coming \in Nat /\ BufLen[mode] \in 1 .. FrameLen
  BY AnswersTypes, ComingType, FreshTypes
<1>3. /\ main = "loop" /\ main' = "clear" /\ ~over /\ ~RoomIn(buf) /\ check_sum' = CheckSum(buf)
      /\ buf' = StartAgain(rdr) /\ rdr' = 0
      /\ UNCHANGED <<mode, over, ndtr, dr, shift, asked, ans, heard, missed, early>>
  BY DEF read_RxFifo, sendVars, peerVars, pastVars, takeVars
<1>4. Coming' = Coming
  BY <1>3 DEF Coming, One
<1>5. Debt(credit)' = Debt(credit)
  BY <1>4 DEF Debt
<1>6. Recognised' <=> Recognised
  BY <1>3 DEF Recognised
<1>7. (rdr # 0 => ~RoomIn(buf))' /\ (ans > 0 => heard + ans <= FrameLen)' /\ ~over'
  BY <1>3 DEF AnswersInv
<1>8. TailWaits => Clean'
  <2> SUFFICES ASSUME TailWaits PROVE Clean'
    OBVIOUS
  <2>1. buf' = <<>> \/ buf' = <<Fill[mode]>>
    BY <1>3 DEF TailWaits, StartAgain
  <2>2. OnlyTails'
    BY <1>3, <2>1 DEF OnlyTails
  <2> QED
    BY <1>3, <2>2 DEF Clean, TailWaits
<1>9. NoneComes(credit)'
  BY <1>1, <1>4, <1>8 DEF Credited, NoneComes, Clean
<1>10. BeforeAnswer(credit)'
  BY <1>1, <1>3, <1>4 DEF Credited, BeforeAnswer
<1>11. InAnswer(credit)'
  <2> SUFFICES ASSUME ans \in 1 .. FrameLen - 1
               PROVE  /\ credit = 1 /\ Whole' => Clean' \/ Closing'
                      /\ credit = 0 => \/ Filling' \/ (Clean' /\ (Whole' => Recognised'))
                                       \/ (Coming' > 1 /\ ~Whole')
    BY <1>3 DEF InAnswer
  <2>1. Whole' <=> Whole
    BY <1>3 DEF Whole
  <2>2. Clean => Clean'
    BY <1>8 DEF Clean
  <2>3. ~Closing
    BY <1>3 DEF Closing
  <2>4. Filling => Clean' /\ Recognised'
    <3> SUFFICES ASSUME Filling PROVE Clean' /\ Recognised'
      OBVIOUS
    <3>1. CheckSum(buf) = Expected[mode]
      <4>1. mode \in Modes /\ buf \in Seq(Nat) /\ Len(buf) = BufLen[mode]
        BY <1>3, FreshTypes DEF RoomIn
      <4>2. \E k \in 1 .. Len(buf) :
              buf[k] = Header[mode] /\ \A j \in 1 .. Len(buf) : j # k => buf[j] = Fill[mode]
        BY Zenon DEF Filling, OneHeader
      <4>3. SumOf(buf) = Expected[mode]
        BY <4>1, <4>2, HeaderCounts, Zenon
      <4> QED
        BY <4>3, Zenon DEF CheckSum
    <3> QED
      BY <1>3, <1>8, <3>1 DEF Filling, Recognised
  <2> QED
    BY <1>1, <1>4, <1>6, <2>1, <2>2, <2>3, <2>4 DEF Credited, InAnswer
<1>12. Credited(credit)'
  BY <1>1, <1>3, <1>5, <1>6, <1>9, <1>10, <1>11 DEF Credited
<1> QED
  BY <1>7, <1>12 DEF AnswersInv

(* the verdict clears the count of what was missed;                          *)
LEMMA AnswersClear ==
  ASSUME LineTypeOK, LineTypeOK', AnswersInv, clearErr
  PROVE  AnswersInv'
<1>1. PICK credit \in 0 .. 2 : Credited(credit)
  BY DEF AnswersInv
<1>2. /\ heard \in Nat /\ missed \in Nat /\ early \in Nat /\ ans \in 0 .. FrameLen
      /\ FrameLen \in Nat \ {0, 1} /\ Coming \in Nat
  BY AnswersTypes, ComingType
<1>3. /\ main = "clear" /\ main' = "loop" /\ over' = (check_sum = Expected[mode])
      /\ (IF over' THEN missed' = 0 /\ heard' = 0 ELSE UNCHANGED <<missed, heard>>)
      /\ UNCHANGED <<mode, ndtr, dr, shift, pin, buf, rdr, asked, ans, early>>
  BY DEF clearErr, sendVars, recvVars, peerVars, pastVars
<1>4. Coming' = Coming
  BY <1>3 DEF Coming, One
<1>5. Debt(credit)' = Debt(credit)
  BY <1>4 DEF Debt
<1>6. RoomIn(buf)' = RoomIn(buf) /\ OnlyTails' = OnlyTails /\ TailWaits' = TailWaits
  BY <1>3 DEF RoomIn, OnlyTails, TailWaits
<1>7. Clean' = Clean
  BY <1>6 DEF Clean
<1>8. (rdr # 0 => ~RoomIn(buf))'
  BY <1>3, <1>6 DEF AnswersInv
<1>9. ans > 0 => heard' + ans' <= FrameLen
  <2>1. CASE over'
    <3>1. heard' = 0 /\ ans' = ans
      BY <1>3, <2>1
    <3> QED
      BY <1>2, <3>1
  <2>2. CASE ~over'
    BY <1>2, <1>3, <2>2 DEF AnswersInv
  <2> QED
    BY <2>1, <2>2
<1>10. NoneComes(credit)' /\ BeforeAnswer(credit)'
  BY <1>1, <1>3, <1>4, <1>6, <1>7 DEF Credited, NoneComes, BeforeAnswer
<1>11. InAnswer(credit)'
  <2> SUFFICES ASSUME ans \in 1 .. FrameLen - 1
               PROVE  /\ credit = 1 /\ Whole' => Clean' \/ Closing'
                      /\ credit = 0 => \/ Filling' \/ (Clean' /\ (Whole' => Recognised'))
                                       \/ (Coming' > 1 /\ ~Whole')
    BY <1>3 DEF InAnswer
  <2>1. ~Closing /\ ~Filling
    BY <1>3 DEF Closing, Filling
  <2>2. CASE over'
    <3>1. ~Whole'
      <4>1. heard' = 0 /\ ans' = ans
        BY <1>3, <2>2
      <4> QED
        BY <1>2, <4>1 DEF Whole
    <3> QED
      BY <1>1, <1>4, <1>7, <2>1, <3>1 DEF Credited, InAnswer
  <2>3. CASE ~over'
    <3>1. Whole' <=> Whole
      BY <1>3, <2>3 DEF Whole
    <3>2. ~Recognised
      BY <1>3, <2>3 DEF Recognised
    <3> QED
      BY <1>1, <1>4, <1>7, <2>1, <3>1, <3>2 DEF Credited, InAnswer
  <2> QED
    BY <2>2, <2>3
<1>12. ~over' => missed' + Debt(credit)' <= 2 * early'
  <2> SUFFICES ASSUME ~over' PROVE missed' + Debt(credit)' <= 2 * early'
    OBVIOUS
  <2>1. ~Recognised /\ missed' = missed /\ ~over
    BY <1>3 DEF Recognised, AnswersInv
  <2> QED
    BY <1>1, <1>3, <1>5, <2>1 DEF Credited
<1>13. Credited(credit)'
  BY <1>1, <1>3, <1>5, <1>10, <1>11, <1>12 DEF Credited
<1> QED
  BY <1>3, <1>8, <1>9, <1>13 DEF AnswersInv

(* an answer begins.                                                         *)
LEMMA AnswersAnswered ==
  ASSUME LineTypeOK, LineTypeOK', AnswersInv, Answers
  PROVE  AnswersInv'
<1>1. PICK credit \in 0 .. 2 : Credited(credit)
  BY DEF AnswersInv
<1>2. /\ FrameLen \in Nat \ {0, 1} /\ Coming \in Nat
  BY AnswersTypes, ComingType
<1>3. /\ asked /\ ans = 0 /\ asked' = FALSE /\ ans' = FrameLen /\ heard' = 0
      /\ UNCHANGED <<mode, main, over, check_sum, ndtr, dr, shift, pin, buf, rdr, early, missed>>
  BY DEF Answers, mainVars, sendVars, recvVars
<1>4. Coming' = Coming /\ Coming > 0
  BY <1>2, <1>3 DEF Coming, One
<1>5. Debt(credit)' = Debt(credit)
  BY <1>4 DEF Debt
<1>6. /\ RoomIn(buf)' = RoomIn(buf) /\ OnlyTails' = OnlyTails
      /\ CheckSum(buf)' = CheckSum(buf)
  BY <1>3 DEF RoomIn, OnlyTails, CheckSum
<1>7. Recognised' <=> Recognised
  BY <1>3, <1>6 DEF Recognised
<1>8. NoneComes(credit)' /\ BeforeAnswer(credit)'
  BY <1>1, <1>3, <1>4, <1>6 DEF Credited, NoneComes, BeforeAnswer
<1>9. InAnswer(credit)'
  BY <1>2, <1>3 DEF InAnswer
<1>10. Credited(credit)'
  BY <1>1, <1>3, <1>5, <1>7, <1>8, <1>9 DEF Credited
<1>11. heard' + ans' <= FrameLen
  BY <1>2, <1>3
<1> QED
  BY <1>3, <1>6, <1>10, <1>11 DEF AnswersInv

(* What a byte of an answer leaves as it is, and how answers are counted.    *)
LEMMA ByteCounted ==
  ASSUME LineTypeOK, AnswersInv, ByteArrives
  PROVE  /\ UNCHANGED <<mode, main, over, check_sum, ndtr, dr, shift, pin, asked, early>>
         /\ ans > 0 /\ ans' = ans - 1 /\ Driving' = Driving
         /\ heard' = (IF Driving THEN heard ELSE heard + 1)
         /\ Whole' <=> Whole /\ ~Driving
         /\ heard' + ans' <= FrameLen
         /\ missed' # missed => missed' = missed + 1 /\ ans = 1 /\ Whole' /\ ~over
         /\ Recognised => Recognised'
<1>1. /\ heard \in Nat /\ missed \in Nat /\ ans \in 0 .. FrameLen /\ FrameLen \in Nat \ {0, 1}
  BY AnswersTypes
<1>2. /\ UNCHANGED <<mode, main, over, check_sum, ndtr, dr, shift, pin, asked, early>>
      /\ ans > 0 /\ ans' = ans - 1
  BY DEF ByteArrives, mainVars, sendVars
<1>3. heard' = (IF Driving THEN heard ELSE heard + 1)
  BY DEF ByteArrives
<1>4. Driving' = Driving
  BY <1>2 DEF Driving
<1>5. heard + ans <= FrameLen
  BY <1>2 DEF AnswersInv
<1>6. (Whole' <=> Whole /\ ~Driving) /\ heard' + ans' <= FrameLen
  <2>1. CASE Driving
    BY <1>1, <1>2, <1>3, <1>5, <2>1 DEF Whole
  <2>2. CASE ~Driving
    BY <1>1, <1>2, <1>3, <1>5, <2>2 DEF Whole
  <2> QED
    BY <2>1, <2>2
<1>7. missed' # missed => missed' = missed + 1 /\ ans = 1 /\ Whole' /\ ~over
  <2>1. missed' # missed => missed' = missed + 1 /\ ans = 1 /\ heard' = FrameLen /\ ~over
    BY DEF ByteArrives
  <2> QED
    BY <1>1, <1>2, <2>1 DEF Whole
<1>8. ASSUME Recognised PROVE Recognised'
  <2>1. CASE main = "clear"
    BY <1>2, <1>8, <2>1 DEF Recognised
  <2>2. CASE main # "clear"
    <3>1. ~RoomIn(buf) /\ CheckSum(buf) = Expected[mode]
      BY <1>8, <2>2 DEF Recognised
    <3>2. buf' = buf
      BY <3>1 DEF ByteArrives, Take, recvVars
    <3> QED
      BY <1>2, <2>2, <3>1, <3>2 DEF Recognised, RoomIn, CheckSum
  <2> QED
    BY <2>1, <2>2
<1> QED
  BY <1>2, <1>3, <1>4, <1>6, <1>7, <1>8

(* The header of an answer, ...                                              *)
LEMMA HeaderArrives ==
  ASSUME LineTypeOK, AnswersInv, ByteArrives, ans = FrameLen, RoomIn(buf), main # "clear"
  PROVE  /\ rdr' = 0
         /\ ~Driving => Len(buf') + ans' >= BufLen[mode]
         /\ ~Driving /\ OnlyTails => OneHeader'
         /\ Driving => buf' = buf
<1>1. /\ buf \in Seq(Nat) /\ Len(buf) \in Nat /\ Header[mode] \in Nat
      /\ FrameLen \in Nat \ {0, 1} /\ BufLen[mode] \in 1 .. FrameLen
  BY FreshTypes
<1>2. rdr = 0 /\ ans' = ans - 1 /\ mode' = mode
  BY ByteCounted DEF AnswersInv
<1>3. CASE Driving
  BY <1>2, <1>3 DEF ByteArrives, recvVars
<1>4. CASE ~Driving
  <2>1. buf' = Append(buf, Header[mode]) /\ rdr' = rdr
    BY <1>4 DEF ByteArrives, Take
  <2>2. /\ Len(buf') = Len(buf) + 1 /\ buf'[Len(buf) + 1] = Header[mode]
        /\ \A j \in 1 .. Len(buf) : buf'[j] = buf[j]
    BY <1>1, <2>1
  <2>3. Len(buf') + ans' >= BufLen[mode]
    BY <1>1, <1>2, <2>2
  <2>4. ASSUME OnlyTails PROVE OneHeader'
    <3>1. Len(buf) + 1 \in 1 .. Len(buf')
      BY <1>1, <2>2
    <3>2. \A j \in 1 .. Len(buf') : j # Len(buf) + 1 => buf'[j] = Fill[mode']
      BY <1>1, <1>2, <2>2, <2>4 DEF OnlyTails
    <3> QED
      BY <1>2, <2>2, <3>1, <3>2 DEF OneHeader
  <2> QED
    BY <1>2, <1>4, <2>1, <2>3, <2>4
<1> QED
  BY <1>3, <1>4

(* ... and the rest of it.                                                   *)
LEMMA FillArrives ==
  ASSUME LineTypeOK, AnswersInv, ByteArrives, ans # FrameLen
  PROVE  /\ Clean => Clean'
         /\ Closing /\ ~Driving => Clean' \/ Closing'
         /\ Filling /\ ~(RoomIn(buf) /\ Driving) => Filling'
<1>1. /\ buf \in Seq(Nat) /\ Len(buf) \in Nat /\ Fill[mode] \in Nat \ {0}
      /\ FrameLen \in Nat \ {0, 1} /\ BufLen[mode] \in 1 .. FrameLen /\ ans \in Nat
      /\ rdr \in Nat
  BY FreshTypes, AnswersTypes
<1>2. UNCHANGED <<mode, main>> /\ ans > 0 /\ ans' = ans - 1 /\ Driving' = Driving
  BY ByteCounted
<1>3. rdr # 0 => ~RoomIn(buf)
  BY DEF AnswersInv
<1>4. CASE RoomIn(buf) /\ ~Driving /\ buf' = Append(buf, Fill[mode]) /\ rdr' = rdr
  <2>1. /\ Len(buf') = Len(buf) + 1 /\ buf'[Len(buf) + 1] = Fill[mode]
        /\ \A j \in 1 .. Len(buf) : buf'[j] = buf[j]
    BY <1>1, <1>4
  <2>2. TailWaits'
    BY <1>3, <1>4 DEF TailWaits
  <2>3. OnlyTails => OnlyTails'
    <3> SUFFICES ASSUME OnlyTails, NEW j \in 1 .. Len(buf') PROVE buf'[j] = Fill[mode']
      BY DEF OnlyTails
    <3>1. CASE j = Len(buf) + 1
      BY <1>2, <2>1, <3>1
    <3>2. CASE j # Len(buf) + 1
      <4>1. j \in 1 .. Len(buf)
        BY <1>1, <2>1, <3>2
      <4> QED
        BY <1>2, <2>1, <4>1 DEF OnlyTails
    <3> QED
      BY <3>1, <3>2
  <2>4. OneHeader => OneHeader'
    <3> SUFFICES ASSUME OneHeader PROVE OneHeader'
      OBVIOUS
    <3>1. PICK k \in 1 .. Len(buf) :
            buf[k] = Header[mode] /\ \A j \in 1 .. Len(buf) : j # k => buf[j] = Fill[mode]
      BY DEF OneHeader
    <3>2. k \in 1 .. Len(buf') /\ buf'[k] = Header[mode']
      <4>1. k \in 1 .. Len(buf')
        BY <1>1, <2>1
      <4>2. mode' = mode
        BY <1>2
      <4> QED
        BY <2>1, <3>1, <4>1, <4>2, Zenon
    <3>3. ASSUME NEW j \in 1 .. Len(buf'), j # k PROVE buf'[j] = Fill[mode']
      <4>1. mode' = mode
        BY <1>2
      <4>2. CASE j = Len(buf) + 1
        BY <2>1, <4>1, <4>2, Zenon
      <4>3. CASE j # Len(buf) + 1
        <5>1. Len(buf') = Len(buf) + 1 /\ Len(buf) \in Nat
          BY <1>1, <2>1, Zenon
        <5>2. j \in 1 .. Len(buf)
          BY <3>3, <4>3, <5>1
        <5> QED
          BY <2>1, <3>1, <3>3, <4>1, <5>2, Zenon
      <4> QED
        BY <4>2, <4>3
    <3> QED
      BY <3>2, <3>3 DEF OneHeader
  <2>5. Len(buf') + ans' = Len(buf) + ans
    BY <1>1, <1>2, <2>1
  <2>6. Clean => Clean'
    BY <1>4, <2>2, <2>3 DEF Clean
  <2>7. Closing => Clean' \/ Closing'
    BY <1>2, <2>2, <2>5 DEF Closing, Clean
  <2>8. Filling => Filling'
    BY <1>2, <1>4, <2>2, <2>4, <2>5 DEF Filling
  <2> QED
    BY <2>6, <2>7, <2>8
<1>5. CASE UNCHANGED buf /\ (rdr' = rdr \/ rdr' = Fill[mode]) /\ ~RoomIn(buf)
  <2>1. TailWaits => TailWaits'
    BY <1>2, <1>5 DEF TailWaits
  <2>2. ~RoomIn(buf)' /\ OneHeader' = OneHeader
    BY <1>2, <1>5 DEF RoomIn, OneHeader
  <2> QED
    BY <1>2, <1>5, <2>1, <2>2 DEF Clean, Closing, Filling
<1>6. CASE UNCHANGED recvVars /\ RoomIn(buf) /\ (Driving \/ main = "clear")
  <2>1. Clean' = Clean
    BY <1>2, <1>6 DEF Clean, RoomIn, OnlyTails, TailWaits, recvVars
  <2> QED
    BY <1>6, <2>1 DEF Closing, Filling
<1>7. \/ ~Driving /\ Take(Fill[mode])
      \/ UNCHANGED recvVars /\ (Driving \/ main = "clear")
  BY DEF ByteArrives
<1> QED
  BY <1>4, <1>5, <1>6, <1>7 DEF Take, recvVars

(* Sums of the step below.                                                   *)
LEMMA OneMore ==
  ASSUME NEW m \in Nat, NEW n \in Nat, n <= m + 1
  PROVE  n + 0 <= m + 1 /\ n + 1 <= m + 2
OBVIOUS

(* At an answer's last byte its credit pays if it was missed, and what is    *)
(* left of it goes to the frame behind, or to the buffer it leaves.          *)
LEMMA AnswersByte ==
  ASSUME LineTypeOK, LineTypeOK', AnswersInv, ByteArrives
  PROVE  AnswersInv'
<1>1. PICK credit \in 0 .. 2 : Credited(credit)
  BY DEF AnswersInv
<1>2. /\ heard \in Nat /\ missed \in Nat /\ early \in Nat /\ ans \in 0 .. FrameLen
      /\ FrameLen \in Nat \ {0, 1} /\ Coming \in Nat /\ Coming > 0
      /\ Len(buf) \in Nat /\ Len(buf') \in Nat /\ BufLen[mode] \in 1 .. FrameLen
  <2>1. Len(buf') \in Nat
    BY DEF LineTypeOK
  <2>2. ans > 0
    BY DEF ByteArrives
  <2> QED
    BY <2>1, <2>2, AnswersTypes, ComingType, FreshTypes
<1>3. /\ UNCHANGED <<mode, main, over, check_sum, ndtr, dr, shift, pin, asked, early>>
      /\ ans > 0 /\ ans' = ans - 1 /\ Driving' = Driving
      /\ heard' = (IF Driving THEN heard ELSE heard + 1)
      /\ Whole' <=> Whole /\ ~Driving
      /\ heard' + ans' <= FrameLen
      /\ missed' # missed => missed' = missed + 1 /\ ans = 1 /\ Whole' /\ ~over
      /\ Recognised => Recognised'
  BY ByteCounted
<1>4. Coming' = IF ans = 1 THEN Coming - 1 ELSE Coming
  BY <1>2, <1>3 DEF Coming, One
<1>5. RoomIn(buf)' => RoomIn(buf) /\ Len(buf') < BufLen[mode]
  BY <1>3 DEF RoomIn, ByteArrives, Take, recvVars
<1>6. (rdr # 0 => ~RoomIn(buf))'
  <2>1. CASE UNCHANGED recvVars
    BY <1>3, <2>1 DEF AnswersInv, RoomIn, recvVars
  <2>2. CASE RoomIn(buf) /\ rdr' = rdr
    BY <2>2 DEF AnswersInv
  <2>3. CASE ~RoomIn(buf)
    BY <1>5, <2>3
  <2> QED
    BY <2>1, <2>2, <2>3 DEF ByteArrives, Take
<1>7. ASSUME NEW next \in 0 .. 2, Credited(next)' PROVE AnswersInv'
  BY <1>3, <1>6, <1>7 DEF AnswersInv
<1>8. CASE ans = FrameLen
  <2>1. Coming' = Coming /\ ans' \in 1 .. FrameLen - 1 /\ missed' = missed
    BY <1>2, <1>3, <1>4, <1>8
  <2>2. (credit # 2 => RoomIn(buf) /\ main # "clear") /\ (credit = 0 => OnlyTails)
    BY <1>1, <1>2, <1>8 DEF Credited, BeforeAnswer
  <2>3. credit # 2 => /\ rdr' = 0
                      /\ ~Driving => Len(buf') + ans' >= BufLen[mode]
                      /\ ~Driving /\ OnlyTails => OneHeader'
                      /\ Driving => buf' = buf
    BY <1>8, <2>2, HeaderArrives
  <2>4. Debt(credit)' = Debt(credit)
    BY <2>1 DEF Debt
  <2>5. NoneComes(credit)' /\ BeforeAnswer(credit)'
    BY <1>2, <2>1 DEF NoneComes, BeforeAnswer
  <2>6. credit = 1 /\ Whole' => Clean' \/ Closing'
    BY <1>3, <2>2, <2>3 DEF Clean, Closing, TailWaits
  <2>7. credit = 0 => Filling' \/ (Clean' /\ ~Whole')
    <3> SUFFICES ASSUME credit = 0 PROVE Filling' \/ (Clean' /\ ~Whole')
      OBVIOUS
    <3>1. CASE Driving
      BY <1>3, <2>2, <2>3, <3>1 DEF Clean, TailWaits, OnlyTails
    <3>2. CASE ~Driving
      BY <1>3, <2>2, <2>3, <3>2 DEF Filling, TailWaits
    <3> QED
      BY <3>1, <3>2
  <2>8. InAnswer(credit)'
    BY <2>6, <2>7 DEF InAnswer
  <2>9. Credited(credit)'
    BY <1>1, <1>3, <2>1, <2>4, <2>5, <2>8 DEF Credited
  <2> QED
    BY <1>7, <2>9
<1>9. CASE ans # FrameLen
  <2>1. /\ Clean => Clean'
        /\ Closing /\ ~Driving => Clean' \/ Closing'
        /\ Filling /\ ~(RoomIn(buf) /\ Driving) => Filling'
    BY <1>9, FillArrives
  <2>2. /\ credit = 1 /\ Whole => Clean \/ Closing
        /\ credit = 0 => Filling \/ (Clean /\ (Whole => Recognised)) \/ (Coming > 1 /\ ~Whole)
    BY <1>1, <1>2, <1>3, <1>9 DEF Credited, InAnswer
  <2>3. credit = 1 /\ Whole' => Clean' \/ Closing'
    BY <1>3, <2>1, <2>2
  <2>4. Filling => Filling' \/ (Coming > 1 /\ ~Whole')
    BY <1>3, <2>1 DEF Filling
  <2>5. credit = 0 => Filling' \/ (Clean' /\ (Whole' => Recognised')) \/ (Coming > 1 /\ ~Whole')
    BY <1>3, <2>1, <2>2, <2>4
  <2>6. CASE ans # 1
    <3>1. Coming' = Coming /\ missed' = missed /\ ans' \in 1 .. FrameLen - 1
      BY <1>2, <1>3, <1>4, <1>9, <2>6
    <3>2. Debt(credit)' = Debt(credit)
      BY <3>1 DEF Debt
    <3>3. NoneComes(credit)' /\ BeforeAnswer(credit)'
      BY <1>2, <3>1 DEF NoneComes, BeforeAnswer
    <3>4. InAnswer(credit)'
      BY <2>3, <2>5, <3>1 DEF InAnswer
    <3>5. Credited(credit)'
      BY <1>1, <1>3, <3>1, <3>2, <3>3, <3>4 DEF Credited
    <3> QED
      BY <1>7, <3>5
  <2>7. CASE ans = 1
    <3>1. Coming' = Coming - 1 /\ ans' = 0
      BY <1>2, <1>3, <1>4, <2>7
    <3>2. ~RoomIn(buf)' \/ ~(Len(buf') + ans' >= BufLen[mode'])
      BY <1>2, <1>3, <1>5, <3>1
    <3>3. ~Closing' /\ (Filling' => Clean' /\ ~RoomIn(buf)')
      BY <3>2 DEF Closing, Filling, Clean
    <3>4. Filling' => Recognised'
      <4> SUFFICES ASSUME Filling' PROVE Recognised'
        OBVIOUS
      <4>1. OneHeader' /\ ~RoomIn(buf)' /\ main' # "clear"
        BY <3>3 DEF Filling
      <4>2. CheckSum(buf') = Expected[mode']
        <5>1. /\ mode' \in Modes /\ buf' \in Seq(Nat) /\ BufLen[mode'] \in Nat
              /\ Len(buf') <= BufLen[mode'] /\ Len(buf') \in Nat
          <6>1. mode' \in Modes /\ buf' \in Seq(Nat) /\ Len(buf') <= BufLen[mode']
            BY Zenon DEF LineTypeOK
          <6>2. BufLen[mode'] \in Nat /\ Len(buf') \in Nat
            BY <6>1, LineAssumption
          <6> QED
            BY <6>1, <6>2, Zenon
        <5>2. Len(buf') = BufLen[mode']
          BY <4>1, <5>1 DEF RoomIn
        <5> QED
          BY <4>1, <5>1, <5>2, HeaderCounts DEF OneHeader, CheckSum
      <4> QED
        BY <4>1, <4>2 DEF Recognised
    <3>5. credit = 0 => (Clean' \/ Coming > 1) /\ (Whole' => Recognised')
      BY <2>5, <3>3, <3>4
    <3>6. missed' \in Nat /\ (missed' = missed \/ (missed' = missed + 1 /\ Whole' /\ ~over))
      BY <1>2, <1>3
    <3>10. missed \in Nat /\ missed' \in Nat /\ missed' <= missed + 1
      BY <1>2, <3>6
    <3>7. /\ Debt(credit) \in Nat /\ Debt(credit) <= 2 * early
          /\ ~over /\ ~Recognised => missed + Debt(credit) <= 2 * early
      BY <1>1, <1>2 DEF Credited, Debt
    <3>8. CASE Coming > 1
      <4>1. Debt(2)' \in Nat /\ Debt(2)' + credit = Debt(credit)
        BY <1>2, <3>1, <3>8 DEF Debt
      <4>2. NoneComes(2)' /\ BeforeAnswer(2)' /\ InAnswer(2)'
        BY <1>2, <3>1, <3>8 DEF NoneComes, BeforeAnswer, InAnswer
      <4>3. Debt(2)' <= 2 * early'
        BY <1>2, <1>3, <3>7, <4>1
      <4>4. ASSUME ~over', ~Recognised' PROVE missed' + Debt(2)' <= 2 * early'
        <5>1. missed + Debt(credit) <= 2 * early
          BY <1>3, <3>7, <4>4
        <5>2. missed' <= missed + credit
          BY <1>2, <3>5, <3>6, <4>4
        <5> QED
          BY <1>2, <1>3, <3>6, <3>7, <4>1, <5>1, <5>2
      <4>5. Credited(2)'
        BY <4>2, <4>3, <4>4 DEF Credited
      <4> QED
        BY <1>7, <4>5
    <3>9. CASE Coming = 1
      <4>1. Coming' = 0 /\ Debt(credit) = credit
        BY <3>1, <3>9 DEF Debt
      <4>2. PICK next \in 0 .. 1 :
              /\ next <= credit /\ (next = 0 => Clean')
              /\ ~Recognised' => missed' + next <= missed + credit
        <5>1. CASE credit = 0
          <6>1. Clean' /\ (~Recognised' => missed' = missed)
            BY <3>5, <3>6, <3>9, <5>1
          <6> QED
            BY <1>2, <5>1, <6>1
        <5>2. CASE credit = 1 /\ Whole'
          <6>1. Clean'
            BY <2>3, <3>3, <5>2
          <6>2. 0 \in 0 .. 1 /\ 0 <= credit /\ missed' + 0 <= missed + credit
            <7>1. missed' + 0 <= missed + 1
              BY <3>10, OneMore
            <7> QED
              BY <5>2, <7>1
          <6> QED
            BY <6>1, <6>2
        <5>3. CASE credit = 2 \/ (credit = 1 /\ ~Whole')
          <6>1. 1 \in 0 .. 1 /\ 1 <= credit /\ missed' + 1 <= missed + credit
            <7>1. CASE credit = 2
              <8>1. missed' + 1 <= missed + 2
                BY <3>10, OneMore
              <8> QED
                BY <7>1, <8>1
            <7>2. CASE credit = 1 /\ ~Whole'
              <8>1. missed' = missed
                BY <3>6, <7>2
              <8> QED
                BY <1>2, <7>2, <8>1
            <7> QED
              BY <5>3, <7>1, <7>2
          <6> QED
            BY <6>1
        <5> QED
          BY <5>1, <5>2, <5>3
      <4>3. Debt(next)' = next /\ next \in 0 .. 2
        BY <4>1 DEF Debt
      <4>4. NoneComes(next)' /\ BeforeAnswer(next)' /\ InAnswer(next)'
        BY <1>2, <3>1, <4>1, <4>2 DEF NoneComes, BeforeAnswer, InAnswer
      <4>5. Debt(next)' <= 2 * early'
        BY <1>2, <1>3, <3>7, <4>1, <4>2, <4>3
      <4>6. ASSUME ~over', ~Recognised' PROVE missed' + Debt(next)' <= 2 * early'
        <5>1. missed + Debt(credit) <= 2 * early
          BY <1>3, <3>7, <4>6
        <5>2. missed' + next <= missed + credit
          BY <4>2, <4>6
        <5> QED
          <6>1. missed' \in Nat /\ Debt(next)' = next /\ Debt(credit) = credit /\ early' = early
            BY <1>3, <3>6, <4>1, <4>3
          <6>2. missed' + next <= 2 * early
            <7>1. missed + credit <= 2 * early /\ 2 * early \in Nat
              BY <1>2, <5>1, <6>1
            <7>2. PICK n \in Nat, m \in Nat, bound \in Nat :
                    n = missed' /\ m = missed /\ bound = 2 * early
              BY <3>10, <7>1
            <7>3. n + next <= m + credit /\ m + credit <= bound
              BY <5>2, <7>1, <7>2
            <7>4. n + next <= bound
              BY <7>3
            <7> QED
              BY <7>2, <7>4
          <6> QED
            BY <6>1, <6>2
      <4>7. Credited(next)'
        BY <4>4, <4>5, <4>6 DEF Credited
      <4> QED
        BY <1>7, <4>3, <4>7
    <3> QED
      BY <1>2, <3>8, <3>9
  <2> QED
    BY <2>6, <2>7
<1> QED
  BY <1>8, <1>9

LEMMA AnswersNext == LineTypeOK /\ AnswersInv /\ [Next]_lineVars => AnswersInv'
<1> SUFFICES ASSUME LineTypeOK, AnswersInv, [Next]_lineVars PROVE AnswersInv'
  OBVIOUS
<1>1. LineTypeOK'
  BY TypeNext
<1>2. FrameLen \in Nat \ {0, 1} /\ ndtr \in 0 .. FrameLen /\ dr \in 0 .. FrameLen
      /\ shift \in 0 .. FrameLen /\ ans \in 0 .. FrameLen
  BY LineAssumption DEF LineTypeOK, Registers
<1>3. CASE TimeUp
  BY <1>1, <1>3, AnswersTimeUp
<1>4. CASE read_RxFifo
  BY <1>1, <1>4, AnswersRead
<1>5. CASE clearErr
  BY <1>1, <1>5, AnswersClear
<1>6. CASE Answers
  BY <1>1, <1>6, AnswersAnswered
<1>7. CASE ByteArrives
  BY <1>1, <1>7, AnswersByte
<1>8. CASE setFlowPinToTxMode
  <2>1. /\ main = "send" /\ main' = "pin"
        /\ UNCHANGED <<mode, over, check_sum, ndtr, dr, shift, buf, rdr, asked, ans, early,
                       heard, missed>>
    BY <1>8 DEF setFlowPinToTxMode, recvVars, peerVars, takeVars
  <2>2. Coming' = Coming
    BY <2>1 DEF Coming, One
  <2>3. ans > 0 => Coming > 1
    BY <1>2, <2>1 DEF Coming, One
  <2> QED
    BY <1>1, <2>1, <2>2, <2>3, AnswersSame
<1>9. CASE send_Array
  <2>1. /\ main = "pin" /\ main' = "loop"
        /\ UNCHANGED <<mode, over, check_sum, dr, shift, pin, buf, rdr, asked, ans, early,
                       heard, missed>>
    BY <1>9 DEF send_Array, recvVars, peerVars, takeVars
  <2>2. CASE ndtr = 0
    <3>1. ndtr' = FrameLen
      BY <1>9, <2>2 DEF send_Array
    <3>2. Coming' = Coming
      BY <1>2, <2>1, <2>2, <3>1 DEF Coming, One
    <3> QED
      BY <1>1, <2>1, <3>2, AnswersSame DEF Driving
  <2>3. CASE ndtr # 0
    <3>1. ndtr' = ndtr
      BY <1>9, <2>3 DEF send_Array
    <3>2. Coming' = Coming - 1 /\ (ans > 0 => Coming > 1)
      BY <1>2, <2>1, <2>3, <3>1 DEF Coming, One
    <3> QED
      BY <1>1, <2>1, <3>2, FrameDropped
  <2> QED
    BY <2>2, <2>3
<1>10. CASE Shifter
  <2>1. UNCHANGED <<mode, main, over, check_sum, pin, buf, rdr, ans, early, heard, missed>>
    BY <1>10 DEF Shifter, DmaMove, ShiftOut, mainVars, recvVars, peerVars, takeVars
  <2>2. \/ Coming' = Coming
        \/ Coming' = Coming - 1 /\ (ans > 0 => Coming > 1)
    <3>1. CASE DmaMove
      BY <1>2, <2>1, <3>1 DEF DmaMove, peerVars, Coming, One
    <3>2. CASE ShiftOut
      <4>1. shift # 0 /\ shift' = dr /\ dr' = 0 /\ ndtr' = ndtr
        BY <3>2 DEF ShiftOut
      <4>2. CASE shift # FrameLen
        <5>1. asked' = asked
          BY <3>2, <4>2 DEF ShiftOut
        <5> QED
          BY <1>2, <2>1, <4>1, <4>2, <5>1 DEF Coming, One
      <4>3. CASE shift = FrameLen
        <5>1. asked' = asked \/ (asked' /\ ~asked)
          BY <3>2, <4>3 DEF ShiftOut, LineTypeOK
        <5> QED
          BY <1>2, <2>1, <4>1, <4>3, <5>1 DEF Coming, One
      <4> QED
        BY <4>2, <4>3
    <3> QED
      BY <1>10, <3>1, <3>2 DEF Shifter
  <2>3. CASE Coming' = Coming
    BY <1>1, <2>1, <2>3, AnswersSame DEF Driving
  <2>4. CASE Coming' = Coming - 1 /\ (ans > 0 => Coming > 1)
    BY <1>1, <2>1, <2>4, FrameDropped
  <2> QED
    BY <2>2, <2>3, <2>4
<1>11. CASE Handler \/ UNCHANGED lineVars
  <2>1. /\ UNCHANGED <<mode, main, over, check_sum, ndtr, dr, shift, buf, rdr, asked, ans,
                       early, heard, missed>>
        /\ pin' = pin \/ pin' = "rx"
    BY <1>11
    DEF Handler, DMA1_Stream3_IRQHandler, USART3_IRQHandler, USART_ClearITPendingBit, mainVars,
        sendVars, recvVars, peerVars, pastVars, takeVars, lineVars
  <2>2. Coming' = Coming /\ (Driving' => Driving)
    BY <2>1 DEF Coming, Driving
  <2> QED
    BY <1>1, <2>1, <2>2, AnswersSame
<1>12. CASE GiveUp \/ Request
  <2>1. /\ main = "loop" /\ UNCHANGED <<mode, main, check_sum, ndtr, dr, shift, pin, buf, rdr,
                                        asked, ans, early>>
        /\ heard' \in {0, heard} /\ (over' \/ missed' = 0)
    BY <1>12 DEF GiveUp, Request, sendVars, recvVars, peerVars
  <2>2. Coming' = Coming /\ (Driving' => Driving)
    BY <2>1 DEF Coming, Driving
  <2> QED
    BY <1>1, <2>1, <2>2, AnswersKept
<1> QED
  BY <1>3, <1>4, <1>5, <1>6, <1>7, <1>8, <1>9, <1>10, <1>11, <1>12 DEF Next, Loop, Peer

(* Every answer to a frame begun in quiet is recognised, and a frame begun   *)
(* early costs two answers at most, for any lengths and bytes, however often *)
(* tests are given up and asked for again (uart485Run and uart232Run behind  *)
(* read_RxFifo and clearErr, ControllerSurveyorTask.cpp:689-694 and          *)
(* CUsart.cpp:105-137, 543-551).                                             *)
THEOREM AnswersMissedOnlyIfEarly == LineSpec => []MissedOnlyIfEarly
<1>1. LineSpec => [](LineTypeOK /\ AnswersInv)
  <2>1. Init => LineTypeOK /\ AnswersInv
    BY TypeInit, AnswersInit
  <2>2. (LineTypeOK /\ AnswersInv) /\ [Next]_lineVars => (LineTypeOK /\ AnswersInv)'
    BY TypeNext, AnswersNext
  <2> QED
    BY <2>1, <2>2, PTL DEF LineSpec
<1>2. LineTypeOK /\ AnswersInv => MissedOnlyIfEarly
  <2> SUFFICES ASSUME LineTypeOK, AnswersInv, main = "loop", RoomIn(buf), ~over
               PROVE  missed <= 2 * early
    BY DEF MissedOnlyIfEarly
  <2>1. PICK credit \in 0 .. 2 : Credited(credit)
    BY DEF AnswersInv
  <2>2. ~Recognised
    BY DEF Recognised
  <2>3. Debt(credit) \in Nat /\ missed \in Nat /\ early \in Nat
    BY AnswersTypes, ComingType DEF Debt
  <2> QED
    BY <2>1, <2>2, <2>3 DEF Credited
<1> QED
  BY <1>1, <1>2, PTL
=============================================================================
