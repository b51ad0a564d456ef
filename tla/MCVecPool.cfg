\* Two threads, two slots of two bytes, a handle for each slot (a slab needs a slot).
SPECIFICATION Spec
CONSTANTS
  Capacity = 2
  SlabSize = 2
  Threads = {t1, t2}
  Handles = {h1, h2}
  Bytes = {a, b}
  SetLens = {2, 3}
  Zero = zero
  Nobody = nobody
SYMMETRY Symmetry
INVARIANTS
  TypeOK
  SingleOwner
  Conservation
  OwnBytesOnly
  NoUseAfterFree
  InUseExact
PROPERTY KeepsContract
