SPECIFICATION Spec
CONSTANTS
  MaxPayload = 1
  FullBlock = 4
  MsgIds = {2}
  PayloadBytes = {0, 1}
  FirstSeq = {255}
  MaxBody = 4
  MaxSentence = 2
  MaxReply = 6
  Messages <- MCMessages
  Noise <- MCNoise
  MaxFrames <- MCFrames
  MaxRests <- MCRests
  MaxFaults <- MCFaults
  Reach = 1
INVARIANTS DeliveredWereSent UnhurtFramesArrive DropsAreCounted
CHECK_DEADLOCK FALSE
