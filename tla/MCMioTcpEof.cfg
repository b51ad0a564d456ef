\* UnexpectedEof on an open connection.
SPECIFICATION MioSpec
CONSTANTS
  MaxIn = 1
  MaxDst = 1
  Sizes = {1}
  MaxSends = 1
  SndCap = 1
  MaxFaults = 0
  Rounds = 1
INVARIANT EofMeansClosed
CHECK_DEADLOCK FALSE
