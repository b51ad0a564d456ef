\* ready() between arrivals, partial drains and errors, and a caller driven by it.
SPECIFICATION MioFairSpec
CONSTANTS
  Slots = {s1, s2}
  SlabSize = 1
  BatchCap = 2
  QueueCap = 2
  Lens = {2}
  Peers = {p1}
  Unresolved = {}
  Unspecified = unspecified
  NoPeer = nopeer
  Gates = {TRUE, FALSE}
  MaxArrivals = 3
  MaxFaults = 1
  MaxReserved = 1
INVARIANTS NoLostWakeup
PROPERTIES ReadyMeansProgress EveryDatagramReaped
\* After the last arrival ready() may sleep for good: that is what it is for.
CHECK_DEADLOCK FALSE
