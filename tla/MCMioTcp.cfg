\* connect, recv_into, ready and send on one Poll.
SPECIFICATION MioFairSpec
CONSTANTS
  MaxIn = 2
  MaxDst = 2
  Sizes = {0, 3}
  MaxSends = 2
  SndCap = 2
  MaxFaults = 1
  Rounds = 2
INVARIANTS StreamIntact AnswersTrue NoLostWakeup ConnectTruthful
PROPERTIES KeepsStream ReadyMeansProgress ConnectReturns SendReturns EveryByteLanded
\* A failed connect is the end, and ready() may sleep for good.
CHECK_DEADLOCK FALSE
