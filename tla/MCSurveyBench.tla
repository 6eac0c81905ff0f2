---------------------------- MODULE MCSurveyBench ----------------------------
(***************************************************************************)
(* Surveyor for one run over both groups of its tests: a bench asks for    *)
(* the tests of one group, all of them in any order, and the board on it   *)
(* sends and drives only what those tests look at.                         *)
(***************************************************************************)
EXTENDS MCSurveyor

VARIABLE bench    \* "inputs" or "frames"

BenchRequests == LocalRequests \cup (BusRequests \ {"gyro"})
BenchAnswers == LocalAnswers \cup {a \in BusAnswers : a.test # "uid"}

RequestsOn == [inputs |-> LocalRequests, frames |-> BusRequests]
InputsOn == [inputs |-> LocalInputs, frames |-> {}]
ReportsOn(h) == IF bench = "inputs" THEN h = {} \/ h = {<<"version", "answer">>}
                                    ELSE <<"version", "answer">> \notin h

BenchInit ==
    /\ bench \in DOMAIN RequestsOn
    /\ Init
    /\ di \subseteq InputsOn[bench]

OnBench ==
    /\ requested' \in RequestsOn[bench] \cup {"none"}
    /\ di' \subseteq InputsOn[bench]
    /\ ReportsOn(heard')
    /\ UNCHANGED bench

BenchSpec == BenchInit /\ [][Next /\ OnBench]_<<vars, bench>> /\ Fairness
=============================================================================
