SPECIFICATION FairRouterSpec
CONSTANTS
  Command = {"dispatch"}
  Beat = "beat"
  QueSize = 3
  BoxNum = 2
  FifoLen = 3
  MailSlots = 2
  AnswerId = "0xD1"
  BeatId = "0x01"
  OtherId = {"other"}
  MaxGiven = 2
INVARIANTS
  RouterTypeOK
  ReadInOrder
  LostOnlyIfCrowded
PROPERTIES
  ImplementsChannel
  DispatchGoesOut
