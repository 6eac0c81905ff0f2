SPECIFICATION BenchSpec
CONSTANTS
    Requests <- BenchRequests
    Answers <- BenchAnswers
    Beats = {"can1", "can2"}
    Inputs <- LocalInputs
    AnswerLimit = 0
INVARIANTS
    SurveyorTypeOK
    JudgedAsWired
    LocalVerdictIsForTheRequest
    NoOldResults
    UartModeRight
PROPERTIES
    OneVerdict
    PowerReleased
    JudgedInTheEnd
