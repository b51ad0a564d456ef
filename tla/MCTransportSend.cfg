\* The plain send of a transport from bind_udp.
SPECIFICATION TransportSpec
CONSTANTS
  Endpoints = {"m", "t"}
  Backend <- BackendOf
  Configs <- ConfigSet
  RmemMax = 2
  RmemDefault = 1
  MaxFaults = 1
  MaxArrivals = 1
  SndCap = 1
  MaxSends = 1
PROPERTIES SendWorks
