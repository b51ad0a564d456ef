\* Ok(0) with a datagram queued.
SPECIFICATION Spec
CONSTANTS
  Slots = {s1, s2}
  SlabSize = 1
  BatchCap = 2
  QueueCap = 2
  Lens = {1}
  Peers = {p1}
  Unresolved = {}
  Unspecified = unspecified
  NoPeer = nopeer
  Gates = {TRUE, FALSE}
  MaxArrivals = 2
  MaxFaults = 0
  MaxReserved = 0
PROPERTY OkZeroMeansIdle
