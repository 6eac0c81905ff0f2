SPECIFICATION EthSpec
CONSTANTS
  Socket = {s1, s2}
  Peer = peer
  Payload = {m}
  Reply = reply
  Text = text
  Pbuf = {p1, p2, p3}
  RxNum = 2
  TxNum = 2
  ListSlots = 3
  PrintLen = 2
  MaxGiven = 3
SYMMETRY Interchangeable
INVARIANTS
  EthTypeOK
  ReadAsArrived
  NoLostWakeUp
  SentAsGiven
