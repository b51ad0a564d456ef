\* recv_into, readable and a send that may be dropped.
SPECIFICATION TokioFairSpec
CONSTANTS
  MaxIn = 2
  MaxDst = 2
  Sizes = {2}
  MaxSends = 2
  SndCap = 1
  MaxFaults = 1
INVARIANTS DataIsSignalled
PROPERTIES KeepsStream IdleTaskParks EveryByteLanded
\* A failed connect is the end, and readable() may sleep for good.
CHECK_DEADLOCK FALSE
