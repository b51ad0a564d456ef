\* readable() between arrivals, partial drains and errors, and a caller driven by it.
SPECIFICATION TokioFairSpec
CONSTANTS
  Slots = {s1, s2}
  SlabSize = 1
  BatchCap = 1
  QueueCap = 2
  Lens = {2}
  Peers = {p1}
  Unresolved = {}
  Unspecified = unspecified
  NoPeer = nopeer
  Gates = {TRUE, FALSE}
  MaxArrivals = 2
  MaxFaults = 1
  MaxReserved = 1
INVARIANTS DataIsSignalled
PROPERTIES ReadyMeansProgress IdleTaskParks EveryDatagramReaped
\* After the last arrival readable() may sleep for good: that is what it is for.
CHECK_DEADLOCK FALSE
