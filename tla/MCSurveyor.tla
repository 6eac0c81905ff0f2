----------------------------- MODULE MCSurveyor -----------------------------
(***************************************************************************)
(* Surveyor for TLC.  Its tests fall into two groups that share little: the*)
(* ones judged from inputs, with the power button, and the ones judged from*)
(* frames.                                                                 *)
(***************************************************************************)
EXTENDS Surveyor

Says(t, results) == [test |-> t, says |-> results]

\* Judged from inputs, and the answer that tells a new board from an old one
LocalRequests == Judged \cup {"light", "open", "close", "version", "none"}
LocalAnswers == {Says("version", {}), Says("version", {"new"})}
LocalInputs == {"first", "second"}

\* Judged from frames
BusRequests == {"rs232", "rs485", "can", "charge", "diOff", "diOn", "gyro"}
BusAnswers == {Says("charge", {"manual"}), Says("charge", {"auto"}), Says("noCharge", {"manual"}),
               Says("diOff", {"di_off"}), Says("diOff", {}), Says("diOn", {"di_on"}),
               Says("uid", {})}
=============================================================================
