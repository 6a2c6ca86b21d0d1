SPECIFICATION FairSpec
CONSTANTS
  Stop = Stop
  None = None
  Hole = Hole
  Command <- Commands
  Externals <- InTerminals
  Lines <- Terminated
  Unreadable <- Lost
  MaxPieces = 2
  LineLimit = 1
  Discovered = {"start"}
  QueueLen = 1
INVARIANTS EvidenceKept OnlyBacklogIsLost HeaderOnFreshLine
PROPERTY EverybodyReturns
