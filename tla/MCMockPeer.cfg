\* Scripted peers of both kinds against clients that split, lose and close.
SPECIFICATION FairSpec
CONSTANTS
  Peers <- PeerSet
  Plans <- PlanSet
  SockCap = 30000
INVARIANTS ReportTrue StreamParses VerdictTrue
PROPERTIES RunEnds
\* A run ends.
CHECK_DEADLOCK FALSE
