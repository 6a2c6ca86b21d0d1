SPECIFICATION FairSpec
CONSTANTS
  a = a
  b = b
  c = c
  Task = {a, b, c}
  Graphs <- AllGraphs
  MaxWorkers = 2
  MaxRetries <- RetryA
  Returns = {"SUCCESS", "TIMEOUT", "CANCELLED", "object", "raise"}
  Writes <- WritesAlone
INVARIANTS CleanReturn IdleUnlessForced BlockedIsStuck
PROPERTIES ImplementsJobGraph Termination
