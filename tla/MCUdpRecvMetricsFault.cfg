\* The same with one failing recv_from: the counters miss frames.
SPECIFICATION Spec
CONSTANTS
  Slots = {s1, s2}
  SlabSize = 1
  BatchCap = 2
  QueueCap = 2
  Lens = {1}
  Peers = {p1}
  Unresolved = {}
  Unspecified = unspecified
  NoPeer = nopeer
  Gates = {TRUE, FALSE}
  MaxArrivals = 2
  MaxFaults = 1
  MaxReserved = 0
INVARIANT MetricsCountReaped
