SPECIFICATION Spec
CONSTANTS
  Slots = {s1, s2, s3}
  SlabSize = 1
  BatchCap = 2
  QueueCap = 2
  Lens = {0, 2}
  Peers = {p1, p2}
  Unresolved = {p2}
  Unspecified = unspecified
  NoPeer = nopeer
  Gates = {TRUE, FALSE}
  MaxArrivals = 3
  MaxFaults = 1
  MaxReserved = 1
SYMMETRY Symmetry
INVARIANTS
  SlabsAccounted
  FramesIntact
  ReapedInOrder
  MetricsExact
PROPERTY ExhaustedReapsNothing
