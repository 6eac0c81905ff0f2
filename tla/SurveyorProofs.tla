---------------------------- MODULE SurveyorProofs ----------------------------
(***************************************************************************)
(* The safety properties of Surveyor, for every set of requests, answers,  *)
(* frames and inputs and every limit.  The inductive invariant says which  *)
(* test each flag belongs to, how far the outputs have followed the flags  *)
(* at each call of doRun, and what a result flag or a verdict leaves       *)
(* behind.                                                                 *)
(***************************************************************************)
EXTENDS Surveyor, TLAPS

\* A flag that is on belongs to the selected test, and the flags of the two
\* switched outputs stand as that test wants them
FlagsBelong ==
    /\ can_test_case_select \in {requested, "none"}
    /\ "detect_pc_light" \in switch => requested = "light"
    /\ "rs485_test" \in switch => can_test_case_select = "rs485"
    /\ "rs232_test" \in switch => can_test_case_select = "rs232"
    /\ "detect_emergency" \in switch =>
         /\ can_test_case_select \in {"emcOn", "emcOff"}
         /\ "charge_and_emergency" \in switch <=> can_test_case_select = "emcOff"
    /\ "detect_brake" \in switch =>
         /\ can_test_case_select \in {"brakeOn", "brakeOff"}
         /\ "brake_or_di" \in switch <=> can_test_case_select = "brakeOff"

\* Outside the calls between the dispatch and the driving procedure, an output
\* under test follows its flag
OutputsFollow ==
    /\ "detect_emergency" \in switch
         /\ at \notin {"openPCRun", "closePCRun", "chargeAndEmergencyRun"}
       => ("charge" \in pin <=> "charge_and_emergency" \notin switch)
    /\ "detect_brake" \in switch
         /\ at \notin {"openPCRun", "closePCRun", "chargeAndEmergencyRun", "brakeOrDIRun"}
       => ("brake" \in pin <=> "brake_or_di" \notin switch)

\* A serial test under way has set the mode, and the line has it from the end
\* of the loop on
LineFollows ==
    /\ begun /\ can_test_case_select = "rs485" /\ "rs485_test" \notin switch =>
         /\ ~is_232_or_485_mode
         /\ at \notin {"uart232Run", "uartChangeRun"} => "uart" \in pin
    /\ begun /\ can_test_case_select = "rs232" /\ "rs232_test" \notin switch =>
         /\ is_232_or_485_mode
         /\ at # "uartChangeRun" => "uart" \notin pin

\* A result flag was reported since the request
ResultsHeard ==
    /\ "can1" \in ok => <<"can", "can1">> \in heard
    /\ "can2" \in ok => <<"can", "can2">> \in heard
    /\ "manual" \in ok => <<"charge", "manual">> \in heard
    /\ "auto" \in ok => <<"charge", "auto">> \in heard
    /\ "di_off" \in ok => <<"diOff", "di_off">> \in heard
    /\ "di_on" \in ok => <<"diOn", "di_on">> \in heard

\* A flag that looks at inputs waits for no dispatch, and a verdict leaves no
\* flag on for the test it ended
VerdictEnds ==
    /\ \A t \in Judged : Detects(t) \in switch => ~can_dispatch_switch
    /\ judged => \/ can_test_case_select = "none"
                 \/ /\ can_test_case_select \in Judged
                    /\ Detects(can_test_case_select) \notin switch
                    /\ ~can_dispatch_switch

SurveyorInv ==
    /\ SurveyorTypeOK
    /\ FlagsBelong /\ OutputsFollow /\ LineFollows /\ ResultsHeard /\ VerdictEnds
    /\ JudgedAsWired /\ LocalVerdictIsForTheRequest /\ NoOldResults /\ UartModeRight
-------------------------------------------------------------------------------
LEMMA SilenceTyped ==
  NoReply \in [test : Tests \cup {"none"}, pass : BOOLEAN] /\ NoReply.test = "none"
  BY DEF NoReply

LEMMA VerdictTyped ==
  \A t \in Tests : /\ Verdict(t) \in [test : Tests \cup {"none"}, pass : BOOLEAN]
                   /\ Verdict(t).test = t
  BY DEF Verdict

LEMMA InitHolds == Init => SurveyorInv
<1> SUFFICES ASSUME Init PROVE SurveyorInv
  OBVIOUS
<1>0. 0 \in 0 .. AnswerLimit + 1
  BY SurveyorAssumption DEF SurveyorAssumption
<1>1. SurveyorTypeOK
  BY <1>0, SilenceTyped DEF Init, SurveyorTypeOK, Procedures
<1>2. FlagsBelong
  BY DEF Init, FlagsBelong
<1>3. OutputsFollow /\ LineFollows /\ ResultsHeard
  BY DEF Init, OutputsFollow, LineFollows, ResultsHeard
<1>4. VerdictEnds
  BY DEF Init, VerdictEnds
<1>5. JudgedAsWired
  BY DEF Init, JudgedAsWired, NoReply, Verdict
<1>6. LocalVerdictIsForTheRequest
  BY DEF Init, LocalVerdictIsForTheRequest, NoReply, Ending, Judged
<1>7. NoOldResults /\ UartModeRight
  BY DEF Init, NoOldResults, UartModeRight, NoReply
<1> QED
  BY <1>1, <1>2, <1>3, <1>4, <1>5, <1>6, <1>7 DEF SurveyorInv
-------------------------------------------------------------------------------
\* What the four properties of a reply and a frame ask is nothing of silence
RepliesRight ==
    JudgedAsWired /\ LocalVerdictIsForTheRequest /\ NoOldResults /\ UartModeRight

LEMMA SilenceIsRight == Silent => RepliesRight'
  BY DEF Silent, RepliesRight, JudgedAsWired, LocalVerdictIsForTheRequest, NoOldResults,
      UartModeRight, NoReply, Verdict, Ending, Judged

\* The tests' flags, without CASE
LEMMA DetectsFacts ==
  /\ Detects("doOn") = "detect_pdo" /\ Detects("doOff") = "detect_pdo"
  /\ Detects("emcOn") = "detect_emergency" /\ Detects("emcOff") = "detect_emergency"
  /\ Detects("brakeOn") = "detect_brake" /\ Detects("brakeOff") = "detect_brake"
  /\ Detects("relayOn") = "detect_delay" /\ Detects("relayOff") = "detect_delay"
  /\ Detects("warnOn") = "detect_warninglight" /\ Detects("warnOff") = "detect_warninglight"
  BY DEF Detects

LEMMA DetectsRange ==
  \A t \in Judged : Detects(t) \in {"detect_pdo", "detect_emergency", "detect_brake",
                                    "detect_delay", "detect_warninglight"}
  BY DetectsFacts DEF Judged

LEMMA RequestKeeps ==
  ASSUME SurveyorInv, NEW t \in Requests, Request(t)
  PROVE  SurveyorInv'
<1>1. RepliesRight'
  BY SilenceIsRight DEF Request
<1>2. SurveyorTypeOK'
  <2>1. 0 \in 0 .. AnswerLimit + 1
    BY SurveyorAssumption DEF SurveyorAssumption
  <2> QED
    BY <2>1, SilenceTyped DEF SurveyorInv, SurveyorTypeOK, Request, Turn, doRun, CallAfter,
        Silent, Procedures, resetAllSwitch, resetAllResult, selectedBy
<1>3. FlagsBelong' /\ OutputsFollow' /\ LineFollows' /\ ResultsHeard' /\ VerdictEnds'
  BY DEF Request, FlagsBelong, OutputsFollow, LineFollows, ResultsHeard, VerdictEnds,
      resetAllSwitch, resetAllResult, selectedBy
<1> QED
  BY <1>1, <1>2, <1>3 DEF SurveyorInv, RepliesRight

LEMMA NoRequestKeeps ==
  ASSUME SurveyorInv, NoRequest
  PROVE  SurveyorInv'
<1> USE DEF NoRequest, Selection, Findings, Outputs, history, Turn, doRun, CallAfter
<1>1. RepliesRight'
  BY SilenceIsRight
<1>2. SurveyorTypeOK'
  BY DEF SurveyorInv, SurveyorTypeOK, Silent, NoReply, Procedures
<1>3. FlagsBelong' /\ ResultsHeard' /\ VerdictEnds'
  BY DEF SurveyorInv, FlagsBelong, ResultsHeard, VerdictEnds
<1>4. OutputsFollow' /\ LineFollows'
  BY DEF SurveyorInv, OutputsFollow, LineFollows
<1> QED
  BY <1>1, <1>2, <1>3, <1>4 DEF SurveyorInv, RepliesRight
-------------------------------------------------------------------------------
\* What a dispatch does to the flags, with or without an answer
DispatchStep(up) ==
    /\ at = "CanDispatchRun" /\ at' = "openPCRun"
    /\ switch' = Switched(up)
    /\ can_dispatch_switch' => can_dispatch_switch /\ ~up
    /\ begun' = (begun \/ Dispatches(up))
    /\ UNCHANGED <<can_test_case_select, Outputs, requested, judged>>

LEMMA TurnsFacts ==
  ASSUME NEW t \in Tests \cup {"none"}
  PROVE  /\ TurnsOn(t) \subseteq Switches
         /\ "detect_pc_light" \in TurnsOn(t) <=> t = "light"
         /\ "rs485_test" \in TurnsOn(t) <=> t = "rs485"
         /\ "rs232_test" \in TurnsOn(t) <=> t = "rs232"
         /\ "detect_emergency" \in TurnsOn(t) <=> t \in {"emcOn", "emcOff"}
         /\ "charge_and_emergency" \in TurnsOn(t) <=> t \in {"emcOff", "noCharge"}
         /\ "detect_brake" \in TurnsOn(t) <=> t \in {"brakeOn", "brakeOff"}
         /\ "brake_or_di" \in TurnsOn(t) <=> t \in {"brakeOff", "diOff"}
         /\ TurnsOff(t) \subseteq {"charge_and_emergency", "brake_or_di"}
         /\ "charge_and_emergency" \in TurnsOff(t) <=> t \in {"emcOn", "charge"}
         /\ "brake_or_di" \in TurnsOff(t) <=> t \in {"brakeOn", "diOn"}
  BY DetectsFacts DEF TurnsOn, TurnsOff, Tests, Judged, Switches

LEMMA DispatchKeepsFlags ==
  ASSUME SurveyorInv, NEW up \in BOOLEAN, DispatchStep(up)
  PROVE  /\ switch' \subseteq Switches /\ begun' \in BOOLEAN
         /\ FlagsBelong' /\ OutputsFollow' /\ LineFollows' /\ VerdictEnds'
<1> DEFINE t == can_test_case_select
<1>0. t \in Tests \cup {"none"}
  BY SurveyorAssumption DEF SurveyorInv, SurveyorTypeOK, SurveyorAssumption
<1>1. CASE ~Dispatches(up)
  <2>1. UNCHANGED <<switch, begun, can_test_case_select, requested, judged, timer, pin,
                    is_232_or_485_mode>>
    BY <1>1 DEF DispatchStep, Switched, Outputs, SurveyorInv, SurveyorTypeOK
  <2>2. can_dispatch_switch' => can_dispatch_switch
    BY DEF DispatchStep
  <2>3. FlagsBelong' /\ VerdictEnds'
    BY <2>1, <2>2 DEF SurveyorInv, SurveyorTypeOK, FlagsBelong, VerdictEnds
  <2>4. OutputsFollow' /\ LineFollows'
    BY <2>1 DEF SurveyorInv, OutputsFollow, LineFollows, DispatchStep
  <2> QED
    BY <2>1, <2>3, <2>4 DEF SurveyorInv, SurveyorTypeOK
<1>2. CASE Dispatches(up)
  <2>1. switch' = (switch \ TurnsOff(t)) \cup TurnsOn(t)
    BY <1>2 DEF DispatchStep, Switched
  <2>2. \A u \in Judged : Detects(u) \notin switch
    BY <1>2 DEF Dispatches, SurveyorInv, VerdictEnds
  <2>3. "detect_emergency" \notin switch /\ "detect_brake" \notin switch
    BY <2>2, DetectsFacts DEF Judged
  <2>4. ~can_dispatch_switch'
    BY <1>2 DEF DispatchStep, Dispatches
  <2>5. FlagsBelong'
    BY <1>0, <2>1, <2>3, TurnsFacts DEF SurveyorInv, FlagsBelong, DispatchStep
  <2>6. OutputsFollow'
    BY DEF OutputsFollow, DispatchStep
  <2>7. LineFollows'
    BY <1>0, <2>1, TurnsFacts DEF LineFollows, DispatchStep
  <2>8. VerdictEnds'
    <3>1. judged => t = "none"
      BY <1>2 DEF SurveyorInv, VerdictEnds, Dispatches
    <3> QED
      BY <2>4, <3>1 DEF VerdictEnds, DispatchStep
  <2> QED
    BY <1>0, <1>2, <2>1, <2>5, <2>6, <2>7, <2>8, TurnsFacts
    DEF SurveyorInv, SurveyorTypeOK, DispatchStep
<1> QED
  BY <1>1, <1>2

LEMMA DispatchOnlyKeeps ==
  ASSUME SurveyorInv, NEW up \in BOOLEAN, DispatchOnly(up)
  PROVE  SurveyorInv'
<1>1. DispatchStep(up)
  BY DEF DispatchOnly, DispatchStep, Turn, doRun, CallAfter
<1>2. RepliesRight'
  BY SilenceIsRight DEF DispatchOnly
<1>3. ResultsHeard'
  BY DEF DispatchOnly, SurveyorInv, ResultsHeard, Findings
<1>4. SurveyorTypeOK'
  BY <1>1, DispatchKeepsFlags DEF SurveyorInv, SurveyorTypeOK, DispatchOnly, DispatchStep,
      Findings, Outputs, Silent, NoReply, Procedures
<1> QED
  BY <1>1, <1>2, <1>3, <1>4, DispatchKeepsFlags DEF SurveyorInv, RepliesRight

LEMMA DispatchAnswerKeeps ==
  ASSUME SurveyorInv, NEW up \in BOOLEAN, NEW a \in Answers, DispatchAnswer(up, a)
  PROVE  SurveyorInv'
<1>0. a.test \in Tests /\ a.says \subseteq Results \cup {"new"}
  BY SurveyorAssumption DEF SurveyorAssumption
<1>1. DispatchStep(up)
  BY DEF DispatchAnswer, DispatchStep, Turn, doRun, CallAfter
<1>2. ok' = OkAfter(a) /\ reply' = ReplyTo(a) /\ heard' = heard \cup Reported(a) /\ frame' = "none"
  BY DEF DispatchAnswer
<1>3. ok' \subseteq ok \cup a.says /\ ok' \subseteq Results
  BY <1>0, <1>2 DEF OkAfter, SurveyorInv, SurveyorTypeOK, Results
<1>4. ResultsHeard'
  BY <1>0, <1>2 DEF OkAfter, Reported, SurveyorInv, ResultsHeard
<1>5. /\ reply'.test \in {"charge", "noCharge", "diOff", "diOn", "uid", "version", "none"}
      /\ reply' \in [test : Tests \cup {"none"}, pass : BOOLEAN]
  BY <1>2 DEF ReplyTo, Verdict, NoReply, Tests
<1>6. NoOldResults'
  <2>1. /\ reply'.test = "charge" => {"manual", "auto"} \subseteq ok'
        /\ reply'.test = "diOff" => "di_off" \in ok'
        /\ reply'.test = "diOn" => "di_on" \in ok'
    BY <1>2 DEF ReplyTo, Verdict, NoReply
  <2> QED
    BY <1>4, <1>5, <2>1 DEF NoOldResults, ResultsHeard
<1>7. JudgedAsWired' /\ LocalVerdictIsForTheRequest' /\ UartModeRight'
  BY <1>2, <1>5 DEF JudgedAsWired, LocalVerdictIsForTheRequest, UartModeRight, Verdict,
      Ending, Judged
<1>8. SurveyorTypeOK'
  <2>1. Reported(a) \subseteq Tests \X (Results \cup {"new", "answer"})
    BY <1>0 DEF Reported
  <2>2. can_dispatch_times_counter' \in 0 .. AnswerLimit + 1
    BY SurveyorAssumption DEF SurveyorAssumption, SurveyorInv, SurveyorTypeOK, DispatchAnswer
  <2>3. hardware_version' \in {"old", "new"} /\ can_dispatch_switch' \in BOOLEAN
    BY DEF SurveyorInv, SurveyorTypeOK, DispatchAnswer
  <2>4. switch' \subseteq Switches /\ begun' \in BOOLEAN
    BY <1>1, DispatchKeepsFlags
  <2> QED
    BY <1>1, <1>2, <1>3, <1>5, <2>1, <2>2, <2>3, <2>4
    DEF SurveyorInv, SurveyorTypeOK, DispatchAnswer, DispatchStep, Outputs, Procedures
<1> QED
  BY <1>1, <1>4, <1>6, <1>7, <1>8, DispatchKeepsFlags DEF SurveyorInv
-------------------------------------------------------------------------------
\* A step that says nothing, and switches off no flag of a test
QuietStep ==
    /\ Silent
    /\ switch' \subseteq switch /\ switch \ switch' \subseteq {"open_pc", "close_pc"}
    /\ at' \in Procedures
    /\ timer' \subseteq timer \cup {"open_pc_time", "close_pc_time"}
    /\ pin' \subseteq pin \cup {"power", "charge", "brake", "uart"}
    /\ UNCHANGED <<Selection, Findings, is_232_or_485_mode, di, history>>

LEMMA QuietKeeps ==
  ASSUME SurveyorInv, QuietStep
  PROVE  SurveyorTypeOK' /\ FlagsBelong' /\ ResultsHeard' /\ VerdictEnds' /\ RepliesRight'
<1> USE DEF QuietStep, Selection, Findings, history
<1>1. RepliesRight'
  BY SilenceIsRight
<1>2. SurveyorTypeOK'
  BY SilenceTyped DEF SurveyorInv, SurveyorTypeOK, Silent
<1>3. FlagsBelong'
  BY DEF SurveyorInv, FlagsBelong
<1>4. VerdictEnds'
  BY DEF SurveyorInv, VerdictEnds
<1> QED
  BY <1>1, <1>2, <1>3, <1>4 DEF SurveyorInv, ResultsHeard

LEMMA PressKeeps ==
  ASSUME SurveyorInv, openPCRun \/ closePCRun
  PROVE  SurveyorInv'
<1>1. PICK s \in {"open_pc", "close_pc"}, t \in {"open_pc_time", "close_pc_time"} :
         PressStarts(s, t) \/ PressEnds(s, t) \/ PressWaits(s)
  BY DEF openPCRun, openPCEnds, closePCRun, closePCEnds
<1>2. /\ at \in {"openPCRun", "closePCRun"}
      /\ at' \in {"closePCRun", "chargeAndEmergencyRun"}
  BY DEF openPCRun, openPCEnds, closePCRun, closePCEnds, Turn, doRun, CallAfter
<1>3. QuietStep /\ ("uart" \in pin' <=> "uart" \in pin)
  BY <1>1, <1>2 DEF PressStarts, PressEnds, PressWaits, QuietStep, Outputs, Procedures
<1>4. OutputsFollow'
  BY <1>2 DEF OutputsFollow
<1>5. LineFollows'
  BY <1>2, <1>3 DEF SurveyorInv, LineFollows, QuietStep, Selection, history
<1> QED
  BY <1>3, <1>4, <1>5, QuietKeeps DEF SurveyorInv, RepliesRight

LEMMA DriveKeeps ==
  ASSUME SurveyorInv, chargeAndEmergencyRun \/ brakeOrDIRun \/ uartChangeRun
  PROVE  SurveyorInv'
<1> USE DEF Drive, Selection, history
<1>1. QuietStep
  BY DEF chargeAndEmergencyRun, brakeOrDIRun, uartChangeRun, QuietStep, Turn, doRun,
      CallAfter, Procedures
<1>2. OutputsFollow' /\ LineFollows'
  <2>1. CASE chargeAndEmergencyRun
    <3>1. /\ at = "chargeAndEmergencyRun" /\ at' = "brakeOrDIRun"
          /\ "charge" \in pin' <=> "charge_and_emergency" \notin switch
          /\ "uart" \in pin' <=> "uart" \in pin
      BY <2>1 DEF chargeAndEmergencyRun, Turn, doRun, CallAfter
    <3> QED
      BY <2>1, <3>1 DEF chargeAndEmergencyRun, SurveyorInv, OutputsFollow, LineFollows
  <2>2. CASE brakeOrDIRun
    <3>1. /\ at = "brakeOrDIRun" /\ at' = "detectPDORun"
          /\ "brake" \in pin' <=> "brake_or_di" \notin switch
          /\ "charge" \in pin' <=> "charge" \in pin
          /\ "uart" \in pin' <=> "uart" \in pin
      BY <2>2 DEF brakeOrDIRun, Turn, doRun, CallAfter
    <3> QED
      BY <2>2, <3>1 DEF brakeOrDIRun, SurveyorInv, OutputsFollow, LineFollows
  <2>3. CASE uartChangeRun
    <3>1. /\ at = "uartChangeRun" /\ at' = "detectDelay"
          /\ "brake" \in pin' <=> "brake" \in pin
          /\ "charge" \in pin' <=> "charge" \in pin
          /\ "uart" \in pin' <=> ~is_232_or_485_mode
      BY <2>3 DEF uartChangeRun, Turn, doRun, CallAfter
    <3> QED
      BY <2>3, <3>1 DEF uartChangeRun, SurveyorInv, OutputsFollow, LineFollows
  <2> QED
    BY <2>1, <2>2, <2>3
<1> QED
  BY <1>1, <1>2, QuietKeeps DEF SurveyorInv, RepliesRight
-------------------------------------------------------------------------------
\* A call that reads the inputs: it moves on to another call behind the outputs
Readers == {"detectPDORun", "detectPCLight", "detectEmergency", "detectBrake",
            "detectDelay", "detectWarningLight"}

LEMMA ReaderMoves ==
  ASSUME NEW p \in Readers, Turn(p)
  PROVE  /\ at = p
         /\ at' \in Readers \cup {"canTest2000", "udpRecieveRun"}
  BY DEF Readers, Turn, doRun, CallAfter

JudgeStep(p, s) ==
    /\ Judge(p, s) /\ p \in Readers
    /\ p = "detectEmergency" <=> s = "detect_emergency"
    /\ p = "detectBrake" <=> s = "detect_brake"
    /\ s \in {"detect_pdo", "detect_emergency", "detect_brake", "detect_delay",
              "detect_warninglight"}

\* A verdict is about the selected test, which has not had one
LEMMA JudgeSays ==
  ASSUME SurveyorInv, NEW p, NEW s, JudgeStep(p, s)
  PROVE  \/ Silent /\ UNCHANGED <<switch, judged>>
         \/ /\ can_test_case_select \in Judged /\ Detects(can_test_case_select) = s
            /\ s \in switch /\ ~judged
            /\ reply' = Verdict(can_test_case_select) /\ frame' = "none"
            /\ switch' = switch \ {s} /\ judged' = TRUE
<1>1. CASE Silent /\ UNCHANGED <<switch, judged>>
  BY <1>1
<1>2. CASE ~(Silent /\ UNCHANGED <<switch, judged>>)
  <2>1. /\ can_test_case_select \in Judged /\ Detects(can_test_case_select) = s
        /\ s \in switch /\ SendVerdict(s) /\ frame' = "none"
    BY <1>2 DEF JudgeStep, Judge
  <2>2. ~judged
    BY <2>1 DEF SurveyorInv, VerdictEnds, Judged
  <2> QED
    BY <2>1, <2>2 DEF SendVerdict
<1> QED
  BY <1>1, <1>2

LEMMA JudgeKeeps ==
  ASSUME SurveyorInv, NEW p, NEW s, JudgeStep(p, s)
  PROVE  SurveyorInv'
<1> DEFINE t == can_test_case_select
<1>1. /\ at = p /\ p \in Readers /\ at' \in Readers \cup {"canTest2000", "udpRecieveRun"}
      /\ UNCHANGED <<Selection, Findings, Outputs, di, requested, begun, heard>>
  BY ReaderMoves DEF JudgeStep, Judge
<1>2. at' \in Procedures
  BY <1>1 DEF Readers, Procedures
<1>3. CASE Silent /\ UNCHANGED <<switch, judged>>
  <2>1. QuietStep
    BY <1>1, <1>2, <1>3 DEF QuietStep, Outputs, history
  <2>2. OutputsFollow' /\ LineFollows'
    BY <1>1, <1>3 DEF SurveyorInv, OutputsFollow, LineFollows, Readers, Selection, Outputs
  <2> QED
    BY <2>1, <2>2, QuietKeeps DEF SurveyorInv, RepliesRight
<1>4. CASE /\ t \in Judged /\ Detects(t) = s /\ s \in switch /\ ~judged
           /\ reply' = Verdict(t) /\ frame' = "none"
           /\ switch' = switch \ {s} /\ judged' = TRUE
  <2> USE DEF Selection, Outputs, Findings
  <2>0. s \in {"detect_pdo", "detect_emergency", "detect_brake", "detect_delay",
               "detect_warninglight"}
    BY DEF JudgeStep
  <2>1. reply' \in [test : Tests \cup {"none"}, pass : BOOLEAN]
    BY <1>4 DEF Verdict, Judged, Tests
  <2>2. SurveyorTypeOK'
    BY <1>1, <1>2, <1>4, <2>1 DEF SurveyorInv, SurveyorTypeOK
  <2>3. FlagsBelong' /\ ResultsHeard'
    BY <1>1, <1>4, <2>0 DEF SurveyorInv, FlagsBelong, ResultsHeard
  <2>4. OutputsFollow' /\ LineFollows'
    BY <1>1, <1>4, <2>0 DEF SurveyorInv, OutputsFollow, LineFollows, Readers
  <2>5. VerdictEnds'
    BY <1>1, <1>4 DEF SurveyorInv, VerdictEnds
  <2>6. LocalVerdictIsForTheRequest' /\ NoOldResults' /\ UartModeRight'
    BY <1>1, <1>4 DEF SurveyorInv, FlagsBelong, LocalVerdictIsForTheRequest, NoOldResults,
        UartModeRight, Verdict, Judged
  <2>7. JudgedAsWired'
    <3>1. t \in {"emcOn", "emcOff"} => p = "detectEmergency" /\ "detect_emergency" \in switch
      BY <1>4, DetectsFacts DEF JudgeStep
    <3>2. t \in {"brakeOn", "brakeOff"} => p = "detectBrake" /\ "detect_brake" \in switch
      BY <1>4, DetectsFacts DEF JudgeStep
    <3>3. reply'.test = t
      BY <1>4 DEF Verdict
    <3>4. t \in {"emcOn", "emcOff"} => ("charge" \in pin' <=> t = "emcOn")
      BY <1>1, <3>1 DEF SurveyorInv, FlagsBelong, OutputsFollow
    <3>5. t \in {"brakeOn", "brakeOff"} => ("brake" \in pin' <=> t = "brakeOn")
      BY <1>1, <3>2 DEF SurveyorInv, FlagsBelong, OutputsFollow
    <3> QED
      BY <3>3, <3>4, <3>5 DEF JudgedAsWired, Verdict
  <2> QED
    BY <2>2, <2>3, <2>4, <2>5, <2>6, <2>7 DEF SurveyorInv
<1> QED
  BY <1>3, <1>4, JudgeSays

LEMMA LightKeeps ==
  ASSUME SurveyorInv, detectPCLight
  PROVE  SurveyorInv'
<1>1. /\ at = "detectPCLight" /\ at' = "detectEmergency" /\ frame' = "none"
      /\ UNCHANGED <<Selection, switch, Findings, Outputs, di, history>>
  BY DEF detectPCLight, Turn, doRun, CallAfter
<1>2. CASE reply' = NoReply
  <2>1. QuietStep
    BY <1>1, <1>2 DEF QuietStep, Silent, Outputs, Procedures
  <2>2. OutputsFollow' /\ LineFollows'
    BY <1>1 DEF SurveyorInv, OutputsFollow, LineFollows, Selection, Outputs, history
  <2> QED
    BY <2>1, <2>2, QuietKeeps DEF SurveyorInv, RepliesRight
<1>3. CASE /\ "detect_pc_light" \in switch
           /\ reply' = [test |-> "light", pass |-> "first" \in di]
  <2> USE DEF Selection, Outputs, Findings, history
  <2>1. reply' \in [test : Tests \cup {"none"}, pass : BOOLEAN] /\ reply'.test = "light"
    BY <1>3 DEF Tests
  <2>2. SurveyorTypeOK'
    BY <1>1, <2>1 DEF SurveyorInv, SurveyorTypeOK, Procedures
  <2>3. FlagsBelong' /\ OutputsFollow' /\ LineFollows' /\ ResultsHeard' /\ VerdictEnds'
    BY <1>1 DEF SurveyorInv, FlagsBelong, OutputsFollow, LineFollows, ResultsHeard, VerdictEnds
  <2>4. RepliesRight'
    BY <1>1, <1>3, <2>1 DEF SurveyorInv, FlagsBelong, RepliesRight, JudgedAsWired, NoOldResults,
        LocalVerdictIsForTheRequest, UartModeRight, Verdict
  <2> QED
    BY <2>2, <2>3, <2>4 DEF SurveyorInv, RepliesRight
<1> QED
  BY <1>2, <1>3 DEF detectPCLight
-------------------------------------------------------------------------------
LEMMA CanTestKeeps ==
  ASSUME SurveyorInv, canTest2000
  PROVE  SurveyorInv'
<1> USE DEF Selection
<1>1. /\ at = "canTest2000" /\ at' = "uart485Run" /\ frame' = "none"
      /\ switch' = switch \ {"can_test"}
      /\ UNCHANGED <<Selection, is_232_or_485_mode, hardware_version, pin, di,
                     requested, begun, judged>>
  BY DEF canTest2000, Turn, doRun, CallAfter
<1>2. PICK m \in Beats \cup {"none"} :
        /\ ok' = ok \cup (Beats \cap {m})
        /\ heard' = heard \cup ({"can"} \X (Beats \cap {m}))
        /\ timer' \subseteq timer \cup {"can_tx_freq"}
        /\ \/ reply' = NoReply
           \/ reply' = Verdict("can") /\ {"can1", "can2"} \subseteq ok'
  BY DEF canTest2000
<1>3. Beats \subseteq {"can1", "can2"}
  BY SurveyorAssumption DEF SurveyorAssumption
<1>4. reply' \in [test : Tests \cup {"none"}, pass : BOOLEAN] /\ reply'.test \in {"none", "can"}
  BY <1>2, SilenceTyped, VerdictTyped DEF Tests
<1>5. SurveyorTypeOK'
  <2>1. {"can"} \X (Beats \cap {m}) \subseteq Tests \X (Results \cup {"new", "answer"})
    BY <1>3 DEF Tests, Results
  <2> QED
    BY <1>1, <1>2, <1>3, <1>4, <2>1 DEF SurveyorInv, SurveyorTypeOK, Procedures, Results
<1>6. FlagsBelong' /\ OutputsFollow' /\ LineFollows' /\ VerdictEnds'
  BY <1>1, DetectsRange
  DEF SurveyorInv, FlagsBelong, OutputsFollow, LineFollows, VerdictEnds
<1>7. ResultsHeard'
  BY <1>2, <1>3 DEF SurveyorInv, ResultsHeard
<1>8. RepliesRight'
  BY <1>1, <1>2, <1>4, <1>7 DEF RepliesRight, JudgedAsWired, LocalVerdictIsForTheRequest,
      NoOldResults, UartModeRight, Verdict, NoReply, Ending, Judged, ResultsHeard
<1> QED
  BY <1>5, <1>6, <1>7, <1>8 DEF SurveyorInv, RepliesRight
-------------------------------------------------------------------------------
\* The two serial procedures: r is the call, t its test, s its flag
Serial(r, t, s, f) ==
    /\ r \in {"uart485Run", "uart232Run"}
    /\ t = (IF r = "uart485Run" THEN "rs485" ELSE "rs232")
    /\ s = (IF r = "uart485Run" THEN "rs485_test" ELSE "rs232_test")
    /\ f = (IF r = "uart485Run" THEN "transfer_frq_485" ELSE "transfer_frq_232")
    /\ Turn(r) /\ SerialRun(t, s, f)

\* A frame leaves for the selected test, with its flag off; the frame back ends
\* that test, which has had no verdict
SerialStep(r, t, s, f) ==
    /\ at = r
    /\ at' = IF r = "uart485Run" THEN "uart232Run" ELSE "uartChangeRun"
    /\ switch' = switch \ {s} /\ timer' \subseteq timer \cup {f}
    /\ is_232_or_485_mode' = IF s \in switch THEN t = "rs232" ELSE is_232_or_485_mode
    /\ UNCHANGED <<can_dispatch_switch, can_dispatch_times_counter, ok, hardware_version,
                   pin, di, requested, begun, heard>>
    /\ \/ frame' = "none"
       \/ frame' = t /\ can_test_case_select = t /\ s \notin switch
    /\ \/ /\ can_test_case_select' = can_test_case_select
          /\ reply' = NoReply /\ judged' = judged
       \/ /\ can_test_case_select = t /\ can_test_case_select' = "none"
          /\ reply' = Verdict(t) /\ ~judged /\ judged' = TRUE

LEMMA SerialSays ==
  ASSUME SurveyorInv, NEW r, NEW t, NEW s, NEW f, Serial(r, t, s, f)
  PROVE  SerialStep(r, t, s, f)
<1> USE DEF SerialStep, Findings
<1>1. PICK up, back \in BOOLEAN :
        LET sends == can_test_case_select = t /\ s \notin switch /\ f \in timer /\ up
            done  == FrameBack(t, back)
            runs  == IF s \in switch THEN timer \cup {f} ELSE timer
        IN  /\ switch' = switch \ {s}
            /\ is_232_or_485_mode' = IF s \in switch THEN ModeOf(t) ELSE is_232_or_485_mode
            /\ timer' = IF done THEN runs \ {f} ELSE runs
            /\ frame' = IF sends THEN t ELSE "none"
            /\ can_test_case_select' = SelectedAfter(done)
            /\ reply' = IF done THEN Verdict(t) ELSE NoReply
            /\ judged' = (judged \/ done)
            /\ UNCHANGED <<can_dispatch_switch, can_dispatch_times_counter, Findings, pin, di,
                           requested, begun, heard>>
  BY DEF Serial, SerialRun
<1>2. t \in {"rs485", "rs232"}
  BY DEF Serial
<1>3. can_test_case_select = t => ~judged
  BY <1>2 DEF SurveyorInv, VerdictEnds, Judged
<1>4. /\ at = r
      /\ at' = IF r = "uart485Run" THEN "uart232Run" ELSE "uartChangeRun"
  BY DEF Serial, Turn, doRun, CallAfter
<1>5. CASE FrameBack(t, back)
  <2>1. can_test_case_select = t
    BY <1>5 DEF FrameBack
  <2> QED
    BY <1>1, <1>3, <1>4, <1>5, <2>1 DEF SelectedAfter, ModeOf
<1>6. CASE ~FrameBack(t, back)
  BY <1>1, <1>4, <1>6 DEF SelectedAfter, ModeOf, SurveyorInv, SurveyorTypeOK
<1> QED
  BY <1>5, <1>6

LEMMA SerialKeeps ==
  ASSUME SurveyorInv, NEW r, NEW t, NEW s, NEW f, Serial(r, t, s, f)
  PROVE  SurveyorInv'
<1>0. SerialStep(r, t, s, f)
  BY SerialSays
<1> USE <1>0 DEF SerialStep
<1>1. /\ r \in {"uart485Run", "uart232Run"}
      /\ t = (IF r = "uart485Run" THEN "rs485" ELSE "rs232")
      /\ s = (IF r = "uart485Run" THEN "rs485_test" ELSE "rs232_test")
      /\ f = (IF r = "uart485Run" THEN "transfer_frq_485" ELSE "transfer_frq_232")
  BY DEF Serial
<1>2. \/ can_test_case_select' = can_test_case_select
      \/ can_test_case_select = t /\ can_test_case_select' = "none"
  OBVIOUS
<1>3. SurveyorTypeOK'
  <2>1. reply' \in [test : Tests \cup {"none"}, pass : BOOLEAN]
    BY <1>1, SilenceTyped, VerdictTyped DEF Tests
  <2>2. at' \in Procedures
    BY DEF Procedures
  <2>3. frame' \in {"none", "rs485", "rs232"} /\ is_232_or_485_mode' \in BOOLEAN
    BY <1>1 DEF SurveyorInv, SurveyorTypeOK
  <2>4. judged' \in BOOLEAN
    BY DEF SurveyorInv, SurveyorTypeOK
  <2> QED
    BY <1>1, <1>2, <2>1, <2>2, <2>3, <2>4 DEF SurveyorInv, SurveyorTypeOK
<1>4. FlagsBelong'
  BY <1>1, <1>2 DEF SurveyorInv, FlagsBelong
<1>5. OutputsFollow' /\ ResultsHeard'
  BY <1>1 DEF SurveyorInv, OutputsFollow, ResultsHeard
<1>6. LineFollows'
  BY <1>1, <1>2 DEF SurveyorInv, FlagsBelong, LineFollows
<1>7. VerdictEnds'
  BY <1>1 DEF SurveyorInv, VerdictEnds
<1>8. UartModeRight'
  BY <1>1 DEF SurveyorInv, LineFollows, UartModeRight
<1>9. LocalVerdictIsForTheRequest'
  BY <1>1 DEF SurveyorInv, FlagsBelong, LocalVerdictIsForTheRequest, Verdict,
      NoReply, Ending, Judged
<1>10. JudgedAsWired' /\ NoOldResults'
  BY <1>1 DEF JudgedAsWired, NoOldResults, Verdict, NoReply
<1> QED
  BY <1>3, <1>4, <1>5, <1>6, <1>7, <1>8, <1>9, <1>10 DEF SurveyorInv

LEMMA InputsKeep ==
  ASSUME SurveyorInv, InputsChange
  PROVE  SurveyorInv'
<1> USE DEF InputsChange, Selection, Findings, Outputs, history
<1>1. SurveyorTypeOK'
  BY DEF SurveyorInv, SurveyorTypeOK
<1>2. FlagsBelong' /\ OutputsFollow' /\ LineFollows' /\ ResultsHeard' /\ VerdictEnds'
  BY DEF SurveyorInv, FlagsBelong, OutputsFollow, LineFollows, ResultsHeard, VerdictEnds
<1>3. JudgedAsWired' /\ LocalVerdictIsForTheRequest' /\ NoOldResults' /\ UartModeRight'
  BY DEF SurveyorInv, JudgedAsWired, LocalVerdictIsForTheRequest, NoOldResults, UartModeRight
<1> QED
  BY <1>1, <1>2, <1>3 DEF SurveyorInv
-------------------------------------------------------------------------------
\* The five tests judged from inputs, and the two serial ones, as above
LEMMA Judges ==
  ASSUME detectPDORun \/ detectEmergency \/ detectBrake \/ detectDelay \/ detectWarningLight
  PROVE  \E p, s : JudgeStep(p, s)
<1>1. CASE detectPDORun
  BY <1>1 DEF detectPDORun, JudgeStep, Readers
<1>2. CASE detectEmergency
  BY <1>2 DEF detectEmergency, JudgeStep, Readers
<1>3. CASE detectBrake
  BY <1>3 DEF detectBrake, JudgeStep, Readers
<1>4. CASE detectDelay
  BY <1>4 DEF detectDelay, JudgeStep, Readers
<1>5. CASE detectWarningLight
  BY <1>5 DEF detectWarningLight, JudgeStep, Readers
<1> QED
  BY <1>1, <1>2, <1>3, <1>4, <1>5

LEMMA Serials ==
  ASSUME uart485Run \/ uart232Run
  PROVE  \E r, t, s, f : Serial(r, t, s, f)
<1>1. CASE uart485Run
  BY <1>1 DEF uart485Run, Serial
<1>2. CASE uart232Run
  BY <1>2 DEF uart232Run, Serial
<1> QED
  BY <1>1, <1>2

LEMMA StepKeeps == SurveyorInv /\ [Next]_vars => SurveyorInv'
<1> SUFFICES ASSUME SurveyorInv, [Next]_vars PROVE SurveyorInv'
  OBVIOUS
<1>1. CASE udpRecieveRun
  BY <1>1, RequestKeeps, NoRequestKeeps DEF udpRecieveRun
<1>2. CASE CanDispatchRun
  BY <1>2, DispatchOnlyKeeps, DispatchAnswerKeeps DEF CanDispatchRun
<1>3. CASE openPCRun \/ closePCRun
  BY <1>3, PressKeeps
<1>4. CASE chargeAndEmergencyRun \/ brakeOrDIRun \/ uartChangeRun
  BY <1>4, DriveKeeps
<1>5. CASE detectPDORun \/ detectEmergency \/ detectBrake \/ detectDelay \/ detectWarningLight
  BY <1>5, Judges, JudgeKeeps
<1>6. CASE detectPCLight
  BY <1>6, LightKeeps
<1>7. CASE canTest2000
  BY <1>7, CanTestKeeps
<1>8. CASE uart485Run \/ uart232Run
  BY <1>8, Serials, SerialKeeps
<1>9. CASE InputsChange
  BY <1>9, InputsKeep
<1>10. CASE UNCHANGED vars
  <2> USE <1>10 DEF vars, history
  <2>1. SurveyorTypeOK'
    BY DEF SurveyorInv, SurveyorTypeOK
  <2>2. FlagsBelong' /\ OutputsFollow' /\ LineFollows' /\ ResultsHeard' /\ VerdictEnds'
    BY DEF SurveyorInv, FlagsBelong, OutputsFollow, LineFollows, ResultsHeard, VerdictEnds
  <2>3. JudgedAsWired' /\ LocalVerdictIsForTheRequest' /\ NoOldResults' /\ UartModeRight'
    BY DEF SurveyorInv, JudgedAsWired, LocalVerdictIsForTheRequest, NoOldResults, UartModeRight
  <2> QED
    BY <2>1, <2>2, <2>3 DEF SurveyorInv
<1> QED
  BY <1>1, <1>2, <1>3, <1>4, <1>5, <1>6, <1>7, <1>8, <1>9, <1>10 DEF Next, Procedure

\* No verdict a step sends for a test that ends with it is a second one: the
\* judging procedures and the serial ones speak of a test under way, and
\* VerdictEnds leaves none under way behind a verdict.
LEMMA VerdictIsFirst ==
  SurveyorInv /\ [Next]_vars => [at' # at /\ reply'.test \in Ending => ~judged]_vars
<1> SUFFICES ASSUME SurveyorInv, Next, at' # at, reply'.test \in Ending PROVE ~judged
  OBVIOUS
<1>1. NoReply.test \notin Ending
  BY DEF NoReply, Ending, Judged
<1>2. CASE Silent
  BY <1>1, <1>2 DEF Silent
<1>3. CASE CanDispatchRun
  <2>1. PICK up \in BOOLEAN : DispatchOnly(up) \/ \E a \in Answers : DispatchAnswer(up, a)
    BY <1>3 DEF CanDispatchRun
  <2>2. CASE DispatchOnly(up)
    BY <1>2, <2>2 DEF DispatchOnly
  <2>3. ASSUME NEW a \in Answers, DispatchAnswer(up, a) PROVE FALSE
    BY <2>3 DEF DispatchAnswer, ReplyTo, Verdict, NoReply, Ending, Judged
  <2> QED
    BY <2>1, <2>2, <2>3
<1>4. CASE detectPDORun \/ detectEmergency \/ detectBrake \/ detectDelay \/ detectWarningLight
  BY <1>2, <1>4, Judges, JudgeSays
<1>5. CASE uart485Run \/ uart232Run
  <2>1. PICK r, t, s, f : Serial(r, t, s, f)
    BY <1>5, Serials
  <2>2. SerialStep(r, t, s, f)
    BY <2>1, SerialSays
  <2> QED
    BY <1>1, <2>2 DEF SerialStep
<1>6. CASE detectPCLight
  BY <1>6 DEF detectPCLight, NoReply, Ending, Judged
<1>7. CASE canTest2000
  BY <1>7 DEF canTest2000, Verdict, NoReply, Ending, Judged
<1>8. CASE InputsChange
  BY <1>8 DEF InputsChange
<1>9. CASE \/ udpRecieveRun \/ openPCRun \/ closePCRun
           \/ chargeAndEmergencyRun \/ brakeOrDIRun \/ uartChangeRun
  <2>1. Silent
    BY <1>9 DEF udpRecieveRun, Request, NoRequest, openPCRun, openPCEnds, closePCRun, closePCEnds,
        PressStarts, PressEnds, PressWaits, chargeAndEmergencyRun, brakeOrDIRun, uartChangeRun,
        Drive
  <2> QED
    BY <1>2, <2>1
<1> QED
  BY <1>3, <1>4, <1>5, <1>6, <1>7, <1>8, <1>9 DEF Next, Procedure
-------------------------------------------------------------------------------
\* The invariant: which test each flag belongs to, how far the outputs have
\* followed, and what results and verdicts leave behind, at every call of doRun.
THEOREM SurveyorInvariant == Spec => []SurveyorInv
<1>1. Init => SurveyorInv
  BY InitHolds
<1>2. SurveyorInv /\ [Next]_vars => SurveyorInv'
  BY StepKeeps
<1> QED
  BY <1>1, <1>2, PTL DEF Spec

\* Every part of the surveyor's state keeps its type, for any requests, answers
\* and input lines.
THEOREM SurveyorTypeCorrect == Spec => []SurveyorTypeOK
<1>1. SurveyorInv => SurveyorTypeOK
  BY DEF SurveyorInv
<1> QED
  BY <1>1, SurveyorInvariant, PTL

\* A verdict on the emergency stop or the brake finds the output it is about as
\* the test wants it: no reading gets between the dispatch and the driving call.
THEOREM VerdictsAreAsWired == Spec => []JudgedAsWired
<1>1. SurveyorInv => JudgedAsWired
  BY DEF SurveyorInv
<1> QED
  BY <1>1, SurveyorInvariant, PTL

\* A verdict from inputs or serial frames is about the test asked for last.
THEOREM LocalVerdictsAreForTheRequest == Spec => []LocalVerdictIsForTheRequest
<1>1. SurveyorInv => LocalVerdictIsForTheRequest
  BY DEF SurveyorInv
<1> QED
  BY <1>1, SurveyorInvariant, PTL

\* A verdict put together from several CAN frames counts no result of an earlier
\* request.
THEOREM VerdictsCountNoOldResults == Spec => []NoOldResults
<1>1. SurveyorInv => NoOldResults
  BY DEF SurveyorInv
<1> QED
  BY <1>1, SurveyorInvariant, PTL

\* A serial frame of a dispatched test leaves on a line in that test's mode.
THEOREM FramesLeaveInTheirMode == Spec => []UartModeRight
<1>1. SurveyorInv => UartModeRight
  BY DEF SurveyorInv
<1> QED
  BY <1>1, SurveyorInvariant, PTL

\* A test that ends with its verdict gets at most one for each request.
THEOREM AtMostOneVerdict == Spec => OneVerdict
<1>1. SurveyorInv /\ [Next]_vars => [at' # at /\ reply'.test \in Ending => ~judged]_vars
  BY VerdictIsFirst
<1> QED
  BY <1>1, SurveyorInvariant, PTL DEF Spec, OneVerdict
===============================================================================
