\* Both backends construct, use and drop transports at one address.
SPECIFICATION TransportFairSpec
CONSTANTS
  Endpoints = {"m", "t"}
  Backend <- BackendOf
  Configs <- ConfigSet
  RmemMax = 2
  RmemDefault = 1
  MaxFaults = 1
  MaxArrivals = 2
  SndCap = 1
  MaxSends = 2
INVARIANTS BufferFromFirst EffectsMatchAnswers
PROPERTIES ConflictIsReal SendReturns
