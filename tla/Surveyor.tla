------------------------------- MODULE Surveyor -------------------------------
(***************************************************************************)
(* The test procedures of the tester board: ControllerSurveyorTask.cpp.    *)
(* A PC names a test by UDP; the task tells the board under test over CAN, *)
(* switches its own outputs, and replies with a verdict when its inputs,   *)
(* the CAN answers or the serial frames are what the test wants.           *)
(*                                                                         *)
(* doRun calls sixteen procedures in a fixed order, forever; each is an    *)
(* action, and `at` is the one that comes next.  Inputs may change between *)
(* two of them.  A frame from the board under test carries no number of a  *)
(* request and may have waited in a mailbox since an earlier one, so a     *)
(* procedure that looks into a mailbox or a receive FIFO finds any frame   *)
(* the board may ever send, or none.  A timer that runs may or may not be  *)
(* up; one started in the same call is not.                                *)
(*                                                                         *)
(* Left out: the heartbeat LED, text output, result flags that are only    *)
(* printed, and the frames' way through CanRouter.                         *)
(***************************************************************************)
EXTENDS Naturals

CONSTANTS
    Requests,     \* tests the PC may ask for, "none" for a number no test has
    Answers,      \* CAN answers the board under test may send
    Beats,        \* frames of its CAN test: "can1", "can2"
    Inputs,       \* the input lines a local test reads
    AnswerLimit   \* once the answers are more, one more calls a dispatch off: 5 in the code

Tests == {"rs232", "rs485", "can", "doOn", "doOff", "light", "emcOn", "emcOff",
          "charge", "noCharge", "brakeOn", "brakeOff", "diOff", "diOn",
          "relayOff", "relayOn", "open", "close", "warnOn", "warnOff",
          "uid", "version", "gyro"}      \* 0x01 .. 0x17, in this order
Results == {"can1", "can2", "manual", "auto", "di_off", "di_on"}

SurveyorAssumption ==
    /\ Requests \subseteq Tests \cup {"none"}
    /\ \A a \in Answers : a.test \in Tests /\ a.says \subseteq Results \cup {"new"}
    /\ Beats \subseteq {"can1", "can2"}
    /\ AnswerLimit \in Nat
ASSUME SurveyorAssumption

VARIABLES
    at,                          \* the procedure doRun calls next
    can_test_case_select,        \* the selected test, "none" for 0xFF
    can_dispatch_switch,         \* it is still to be told to the board under test
    can_dispatch_times_counter,  \* answers since, up to one more than AnswerLimit
    switch,                      \* the *_switch and detect_* flags that are on
    ok,                          \* the is_*_ok flags that are on
    is_232_or_485_mode,          \* TRUE: RS-232
    hardware_version,            \* of the board under test: "new" from 5 on
    timer,                       \* the stoppable timers that run
    pin,                         \* the output pins that are high
    di,                          \* the input lines that are high
    reply,                       \* what the last procedure sent to the PC
    frame,                       \* the serial frame it sent
    requested, begun, judged, heard  \* history: see Bookkeeping

history == <<requested, begun, judged, heard>>
vars == <<at, can_test_case_select, can_dispatch_switch, can_dispatch_times_counter,
          switch, ok, is_232_or_485_mode, hardware_version, timer, pin, di,
          reply, frame, history>>

(***************************************************************************)
(* Bookkeeping, read by no action: the last test the PC asked for, whether *)
(* it was told to the board under test, whether a test that ends with its  *)
(* verdict has had it, and the results reported since the request.         *)
(***************************************************************************)
NoReply == [test |-> "none", pass |-> FALSE]
Verdict(t) == [test |-> t, pass |-> TRUE]

\* Tests judged from the inputs, each by one procedure, and the flag it looks at
Judged == {"doOn", "doOff", "emcOn", "emcOff", "brakeOn", "brakeOff",
           "relayOn", "relayOff", "warnOn", "warnOff"}
Ending == Judged \cup {"rs232", "rs485"}
Detects(t) ==
    CASE t \in {"doOn", "doOff"}       -> "detect_pdo"
      [] t \in {"emcOn", "emcOff"}     -> "detect_emergency"
      [] t \in {"brakeOn", "brakeOff"} -> "detect_brake"
      [] t \in {"relayOn", "relayOff"} -> "detect_delay"
      [] t \in {"warnOn", "warnOff"}   -> "detect_warninglight"

Switches == {"open_pc", "close_pc", "charge_and_emergency", "brake_or_di",
             "detect_pdo", "detect_pc_light", "detect_emergency", "detect_brake",
             "can_test", "rs485_test", "rs232_test", "detect_delay",
             "detect_warninglight"}
-------------------------------------------------------------------------------
\* The order of the calls
CallAfter(p) ==
    CASE p = "udpRecieveRun"         -> "CanDispatchRun"
      [] p = "CanDispatchRun"       -> "openPCRun"
      [] p = "openPCRun"            -> "closePCRun"
      [] p = "closePCRun"           -> "chargeAndEmergencyRun"
      [] p = "chargeAndEmergencyRun" -> "brakeOrDIRun"
      [] p = "brakeOrDIRun"         -> "detectPDORun"
      [] p = "detectPDORun"         -> "detectPCLight"
      [] p = "detectPCLight"        -> "detectEmergency"
      [] p = "detectEmergency"      -> "detectBrake"
      [] p = "detectBrake"          -> "canTest2000"
      [] p = "canTest2000"          -> "uart485Run"
      [] p = "uart485Run"           -> "uart232Run"
      [] p = "uart232Run"           -> "uartChangeRun"
      [] p = "uartChangeRun"        -> "detectDelay"
      [] p = "detectDelay"          -> "detectWarningLight"
      [] p = "detectWarningLight"   -> "udpRecieveRun"

\* Each turn goes to the call behind; the emergency test before its line is switched
doRun_EmergencyFirst(p) ==
    CASE p = "closePCRun"         -> "detectEmergency"
      [] p = "detectEmergency"    -> "chargeAndEmergencyRun"
      [] p = "detectPCLight"      -> "detectBrake"
      [] OTHER                    -> CallAfter(p)

doRun(p) == CallAfter(p)

Turn(p) == at = p /\ at' = doRun(p)
Procedures == {"udpRecieveRun", "CanDispatchRun", "openPCRun", "closePCRun",
               "chargeAndEmergencyRun", "brakeOrDIRun", "detectPDORun",
               "detectPCLight", "detectEmergency", "detectBrake", "canTest2000",
               "uart485Run", "uart232Run", "uartChangeRun", "detectDelay",
               "detectWarningLight"}

\* initial() switched everything off; the members keep their initializers
Init ==
    /\ at = "udpRecieveRun"
    /\ can_test_case_select = "none"
    /\ can_dispatch_switch = TRUE
    /\ can_dispatch_times_counter = 0
    /\ switch = {} /\ ok = {}
    /\ is_232_or_485_mode = FALSE
    /\ hardware_version = "old"
    /\ timer = {} /\ pin = {}
    /\ di \in SUBSET Inputs
    /\ reply = NoReply /\ frame = "none"
    /\ requested = "none" /\ begun = FALSE /\ judged = FALSE /\ heard = {}

\* The three parts of the state a procedure may leave alone, and its silence
Selection == <<can_test_case_select, can_dispatch_switch, can_dispatch_times_counter>>
Outputs == <<is_232_or_485_mode, timer, pin>>
Findings == <<ok, hardware_version>>
Silent == reply' = NoReply /\ frame' = "none"
-------------------------------------------------------------------------------
\* What a request clears; without the flags of the tests under way, or their results
resetAllSwitch_NotLight == switch \cap {"detect_pc_light"}
resetAllSwitch == {}
resetAllResult_NotCan == ok \cap {"can1", "can2"}
resetAllResult == {}

\* The third byte of the datagram; the one before it
selectedBy_PrefixByte(t) == "0x34"
selectedBy(t) == t

\* A datagram with 0x12 0x34 in front
Request(t) ==
    /\ Turn("udpRecieveRun")
    /\ switch' = resetAllSwitch
    /\ ok' = resetAllResult
    /\ can_test_case_select' = selectedBy(t)
    /\ can_dispatch_switch' = TRUE
    /\ can_dispatch_times_counter' = 0
    /\ requested' = t /\ begun' = FALSE /\ judged' = FALSE /\ heard' = {}
    /\ Silent
    /\ UNCHANGED <<is_232_or_485_mode, hardware_version, timer, pin, di>>

\* No datagram, or another one
NoRequest ==
    /\ Turn("udpRecieveRun")
    /\ Silent
    /\ UNCHANGED <<Selection, switch, Findings, Outputs, di, history>>

udpRecieveRun == NoRequest \/ \E t \in Requests : Request(t)
-------------------------------------------------------------------------------
\* The flags the dispatch of a test switches on and off
TurnsOn(t) ==
    CASE t = "rs232"                -> {"rs232_test"}
      [] t = "rs485"                -> {"rs485_test"}
      [] t = "can"                  -> {"can_test"}
      [] t = "light"                -> {"detect_pc_light"}
      [] t = "open"                 -> {"open_pc"}
      [] t = "close"                -> {"close_pc"}
      [] t = "noCharge"             -> {"charge_and_emergency"}
      [] t = "diOff"                -> {"brake_or_di"}
      [] t = "emcOff"               -> {"charge_and_emergency", "detect_emergency"}
      [] t = "brakeOff"             -> {"brake_or_di", "detect_brake"}
      [] t \in Judged \ {"emcOff", "brakeOff"} -> {Detects(t)}
      [] OTHER                      -> {}
TurnsOff(t) ==
    CASE t \in {"emcOn", "charge"}  -> {"charge_and_emergency"}
      [] t \in {"brakeOn", "diOn"}  -> {"brake_or_di"}
      [] OTHER                      -> {}

\* What an answer does to the result flags, and what is sent to the PC for it
OkAfter(a) ==
    CASE a.test = "charge"   -> ok \cup (a.says \cap {"manual", "auto"})
      [] a.test = "noCharge" -> ok \ (a.says \cap {"manual", "auto"})
      [] a.test = "diOff"    -> ok \cup (a.says \cap {"di_off"})
      [] a.test = "diOn"     -> ok \cup (a.says \cap {"di_on"})
      [] OTHER               -> ok
ReplyTo(a) ==
    CASE a.test = "charge" /\ {"manual", "auto"} \subseteq OkAfter(a) -> Verdict("charge")
      [] a.test = "noCharge" /\ {"manual", "auto"} \cap OkAfter(a) = {} -> Verdict("noCharge")
      [] a.test = "diOff" /\ "di_off" \in OkAfter(a) -> Verdict("diOff")
      [] a.test = "diOn" /\ "di_on" \in OkAfter(a)   -> Verdict("diOn")
      [] a.test = "uid"                    -> Verdict("uid")
      [] a.test \in {"version", "gyro"}    -> Verdict("version")
      [] OTHER                             -> NoReply
\* What an answer says, for the history
Reported(a) ==
    {a.test} \X (IF a.test \in {"uid", "version", "gyro"} THEN {"answer"} ELSE a.says)

\* The 50 ms timer is up and a test waits: set its flags and tell the board under test
Dispatches(up) == up /\ can_dispatch_switch
Switched_OnlyOff(up) ==
    IF Dispatches(up) THEN switch \ TurnsOff(can_test_case_select) ELSE switch
Switched(up) ==
    IF Dispatches(up)
    THEN (switch \ TurnsOff(can_test_case_select)) \cup TurnsOn(can_test_case_select)
    ELSE switch

\* The mailbox is empty
DispatchOnly(up) ==
    /\ Turn("CanDispatchRun")
    /\ switch' = Switched(up)
    /\ can_dispatch_switch' = (can_dispatch_switch /\ ~up)
    /\ begun' = (begun \/ Dispatches(up))
    /\ Silent
    /\ UNCHANGED <<can_test_case_select, can_dispatch_times_counter, Findings, Outputs,
                   di, requested, judged, heard>>

\* The mailbox holds the answer a
DispatchAnswer(up, a) ==
    /\ Turn("CanDispatchRun")
    /\ switch' = Switched(up)
    /\ ok' = OkAfter(a)
    /\ reply' = ReplyTo(a)
    /\ hardware_version' = IF a.test # "version" THEN hardware_version
                           ELSE IF "new" \in a.says THEN "new" ELSE "old"
    /\ can_dispatch_switch' = (/\ can_dispatch_switch /\ ~up
                               /\ a.test \notin {"uid", "version", "gyro"}
                               /\ can_dispatch_times_counter <= AnswerLimit)
    /\ can_dispatch_times_counter' = IF can_dispatch_times_counter > AnswerLimit
                                     THEN can_dispatch_times_counter
                                     ELSE can_dispatch_times_counter + 1
    /\ begun' = (begun \/ Dispatches(up))
    /\ heard' = heard \cup Reported(a)
    /\ frame' = "none"
    /\ UNCHANGED <<can_test_case_select, Outputs, di, requested, judged>>

CanDispatchRun ==
    \E up \in BOOLEAN : DispatchOnly(up) \/ \E a \in Answers : DispatchAnswer(up, a)
TestDispatched ==
    can_dispatch_switch /\ (DispatchOnly(TRUE) \/ \E a \in Answers : DispatchAnswer(TRUE, a))
-------------------------------------------------------------------------------
\* The power button of the board under test: press, wait, release
PressStarts(s, t) ==
    /\ s \in switch
    /\ switch' = switch \ {s}
    /\ timer' = timer \cup {t}
    /\ pin' = pin \cup {"power"}
    /\ Silent
    /\ UNCHANGED <<Selection, Findings, is_232_or_485_mode, di, history>>

PressEnds_TimerRuns(s, t) ==
    /\ s \notin switch /\ t \in timer
    /\ timer' = timer \ {t}
    /\ pin' = pin
    /\ Silent
    /\ UNCHANGED <<Selection, switch, Findings, is_232_or_485_mode, di, history>>

PressEnds(s, t) ==
    /\ s \notin switch /\ t \in timer
    /\ timer' = timer \ {t}
    /\ pin' = pin \ {"power"}
    /\ Silent
    /\ UNCHANGED <<Selection, switch, Findings, is_232_or_485_mode, di, history>>

PressWaits(s) ==
    /\ s \notin switch
    /\ Silent
    /\ UNCHANGED <<Selection, switch, Findings, Outputs, di, history>>

openPCEnds == Turn("openPCRun") /\ PressEnds("open_pc", "open_pc_time")
openPCRun ==
    \/ openPCEnds
    \/ Turn("openPCRun") /\ (PressStarts("open_pc", "open_pc_time") \/ PressWaits("open_pc"))
closePCEnds == Turn("closePCRun") /\ PressEnds("close_pc", "close_pc_time")
closePCRun ==
    \/ closePCEnds
    \/ Turn("closePCRun") /\ (PressStarts("close_pc", "close_pc_time") \/ PressWaits("close_pc"))

\* An output that follows a flag: low while the flag is on
Drive(p, low) ==
    /\ pin' = IF low THEN pin \ {p} ELSE pin \cup {p}
    /\ Silent
    /\ UNCHANGED <<Selection, switch, Findings, is_232_or_485_mode, timer, di, history>>

chargeAndEmergencyRun ==
    Turn("chargeAndEmergencyRun") /\ Drive("charge", "charge_and_emergency" \in switch)
brakeOrDIRun == Turn("brakeOrDIRun") /\ Drive("brake", "brake_or_di" \in switch)
uartChangeRun == Turn("uartChangeRun") /\ Drive("uart", is_232_or_485_mode)
-------------------------------------------------------------------------------
(***************************************************************************)
(* Verdicts from the inputs.  The lines a test reads are Inputs; of the    *)
(* brake test, "first" is the 12 V output, which a new board has not got.  *)
(***************************************************************************)
Passes(t) ==
    \/ t \in {"doOn", "emcOn", "relayOn"} /\ di = Inputs
    \/ t \in {"doOff", "emcOff", "relayOff"} /\ di = {}
    \/ t = "brakeOn" /\ "second" \in di /\ (hardware_version = "new" \/ "first" \in di)
    \/ t = "brakeOff" /\ (IF hardware_version = "new" THEN "second" ELSE "first") \notin di
    \/ t = "warnOff" /\ "first" \in di
    \/ t = "warnOn"

\* The verdict is sent once: the flag goes off with it
SendVerdict_FlagStays(s) ==
    /\ reply' = Verdict(can_test_case_select)
    /\ switch' = switch
    /\ judged' = TRUE
SendVerdict(s) ==
    /\ reply' = Verdict(can_test_case_select)
    /\ switch' = switch \ {s}
    /\ judged' = TRUE

Judge(p, s) ==
    /\ Turn(p)
    /\ IF /\ s \in switch
          /\ can_test_case_select \in {t \in Judged : Detects(t) = s}
          /\ Passes(can_test_case_select)
       THEN SendVerdict(s) /\ frame' = "none"
       ELSE Silent /\ UNCHANGED <<switch, judged>>
    /\ UNCHANGED <<Selection, Findings, Outputs, di, requested, begun, heard>>

detectPDORun == Judge("detectPDORun", "detect_pdo")
detectEmergency == Judge("detectEmergency", "detect_emergency")
detectBrake == Judge("detectBrake", "detect_brake")
detectDelay == Judge("detectDelay", "detect_delay")
detectWarningLight == Judge("detectWarningLight", "detect_warninglight")

\* The boot light is reported every 100 ms, lit or not, until the next request
detectPCLight ==
    /\ Turn("detectPCLight")
    /\ \/ /\ "detect_pc_light" \in switch
          /\ reply' = [test |-> "light", pass |-> "first" \in di]
       \/ reply' = NoReply
    /\ frame' = "none"
    /\ UNCHANGED <<Selection, switch, Findings, Outputs, di, history>>
-------------------------------------------------------------------------------
\* The CAN test: a frame every 50 ms until the board answered on both of its buses
canTest2000 ==
    /\ Turn("canTest2000")
    /\ switch' = switch \ {"can_test"}
    /\ \E m \in Beats \cup {"none"} :
         LET found == ok \cup (Beats \cap {m})
             done  == m # "none" /\ {"can1", "can2"} \subseteq found
         IN  /\ ok' = found
             /\ heard' = heard \cup ({"can"} \X (Beats \cap {m}))
             /\ timer' = (IF "can_test" \in switch THEN timer \cup {"can_tx_freq"} ELSE timer)
                         \ (IF done THEN {"can_tx_freq"} ELSE {})
             /\ reply' = IF done THEN Verdict("can") ELSE NoReply
    /\ frame' = "none"
    /\ UNCHANGED <<Selection, is_232_or_485_mode, hardware_version, pin, di,
                   requested, begun, judged>>

(***************************************************************************)
(* The serial tests: t is the test, s its flag, f its timer.  The flag     *)
(* sets the line's mode and starts the timer; while the test is selected   *)
(* each period sends a frame, and the right frame back ends the test.      *)
(***************************************************************************)
ModeOf_Kept(t) == is_232_or_485_mode
ModeOf(t) == (t = "rs232")
FrameBack_AnyTest(t, back) == back
FrameBack(t, back) == can_test_case_select = t /\ back
SelectedAfter_Kept(done) == can_test_case_select
SelectedAfter(done) == IF done THEN "none" ELSE can_test_case_select

SerialRun(t, s, f) ==
    \E up, back \in BOOLEAN :
      LET sends == can_test_case_select = t /\ s \notin switch /\ f \in timer /\ up
          done  == FrameBack(t, back)
          runs  == IF s \in switch THEN timer \cup {f} ELSE timer
      IN  /\ switch' = switch \ {s}
          /\ is_232_or_485_mode' = IF s \in switch THEN ModeOf(t) ELSE is_232_or_485_mode
          /\ timer' = IF done THEN runs \ {f} ELSE runs
          /\ frame' = IF sends THEN t ELSE "none"
          /\ can_test_case_select' = SelectedAfter(done)
          /\ reply' = IF done THEN Verdict(t) ELSE NoReply
          /\ judged' = (judged \/ done)
          /\ UNCHANGED <<can_dispatch_switch, can_dispatch_times_counter, Findings, pin, di,
                         requested, begun, heard>>

uart485Run == Turn("uart485Run") /\ SerialRun("rs485", "rs485_test", "transfer_frq_485")
uart232Run == Turn("uart232Run") /\ SerialRun("rs232", "rs232_test", "transfer_frq_232")

\* External: the board under test, or an operator, changes an input
InputsChange ==
    /\ di' \in SUBSET Inputs
    /\ UNCHANGED <<at, Selection, switch, Findings, Outputs, reply, frame, history>>
-------------------------------------------------------------------------------
Procedure ==
    \/ udpRecieveRun \/ CanDispatchRun \/ openPCRun \/ closePCRun
    \/ chargeAndEmergencyRun \/ brakeOrDIRun \/ detectPDORun \/ detectPCLight
    \/ detectEmergency \/ detectBrake \/ canTest2000 \/ uart485Run \/ uart232Run
    \/ uartChangeRun \/ detectDelay \/ detectWarningLight
Next == Procedure \/ InputsChange

\* The loop goes on, and a timer that runs, or is waited for, is up at some pass
Fairness ==
    /\ WF_vars(Procedure)
    /\ SF_vars(openPCEnds) /\ SF_vars(closePCEnds)
    /\ SF_vars(TestDispatched)
Spec == Init /\ [][Next]_vars
FairSpec == Spec /\ Fairness
-------------------------------------------------------------------------------
\* Every part of the task's state keeps its type.
SurveyorTypeOK ==
    /\ at \in Procedures
    /\ can_test_case_select \in Requests \cup {"none"}
    /\ can_dispatch_switch \in BOOLEAN
    /\ can_dispatch_times_counter \in 0 .. AnswerLimit + 1
    /\ switch \subseteq Switches
    /\ ok \subseteq Results
    /\ is_232_or_485_mode \in BOOLEAN
    /\ hardware_version \in {"old", "new"}
    /\ timer \subseteq {"open_pc_time", "close_pc_time", "can_tx_freq",
                       "transfer_frq_485", "transfer_frq_232"}
    /\ pin \subseteq {"power", "charge", "brake", "uart"}
    /\ di \subseteq Inputs
    /\ reply \in [test : Tests \cup {"none"}, pass : BOOLEAN]
    /\ frame \in {"none", "rs485", "rs232"}
    /\ requested \in Requests \cup {"none"}
    /\ begun \in BOOLEAN /\ judged \in BOOLEAN
    /\ heard \subseteq Tests \X (Results \cup {"new", "answer"})

\* A verdict on the emergency stop or the brake is given while the output that
\* the test switches stands the way the test wants it: doRun drives the outputs
\* after it takes a request and before it reads the inputs.
JudgedAsWired ==
    /\ reply = Verdict("emcOn")    => "charge" \in pin
    /\ reply = Verdict("emcOff")   => "charge" \notin pin
    /\ reply = Verdict("brakeOn")  => "brake" \in pin
    /\ reply = Verdict("brakeOff") => "brake" \notin pin

\* A verdict that rests on inputs or serial frames, and a report of the boot
\* light, is about the test the PC asked for last, whatever was under way when
\* that request came (resetAllSwitch, the comparisons with can_test_case_select).
LocalVerdictIsForTheRequest ==
    reply.test \in Ending \cup {"light"} => requested = reply.test

\* A test that ends with its verdict sends one per request, however long its
\* inputs stay right.
OneVerdict ==
    [][at' # at /\ reply'.test \in Ending => ~judged]_vars

\* A verdict put together from several CAN frames rests on results reported
\* since the request: no result of an earlier test counts (resetAllResult).
NoOldResults ==
    /\ reply.test = "can"    => {"can"} \X {"can1", "can2"} \subseteq heard
    /\ reply.test = "charge" => {"charge"} \X {"manual", "auto"} \subseteq heard
    /\ reply.test = "diOff"  => <<"diOff", "di_off">> \in heard
    /\ reply.test = "diOn"   => <<"diOn", "di_on">> \in heard

\* A serial frame of a test that was dispatched leaves on a line switched to
\* that test's mode, although the line is switched behind the sending in doRun
\* and the timers of earlier serial tests may still run.
UartModeRight ==
    begun => /\ frame = "rs485" => "uart" \in pin
             /\ frame = "rs232" => "uart" \notin pin

NoMoreRequests == <>[][~\E t \in Requests : Request(t)]_vars

\* The power button of the board under test is never held for good, although
\* opening and closing share it: each press has a timer that releases it.
PowerReleased == NoMoreRequests => []<>("power" \notin pin)

\* A test judged from the inputs that was dispatched, and whose inputs are right
\* and stay so, gets its verdict.
JudgedInTheEnd ==
    /\ NoMoreRequests
    /\ <>[](begun /\ requested \in Judged /\ Passes(requested))
    => <>judged
===============================================================================
