\* One process on a calm desktop and on one where everything fails, and two processes at once.
SPECIFICATION Spec
CONSTANTS
  main = main
  worker = worker
  Process = {main, worker}
  Launches = 2
  Settings <- OneOrTwo
  App = {a1}
  Spaces = 6
  Limit = 1
  Lists <- NoneOrTwo
INVARIANTS OneReservationEach LaunchFits FocusReturns
CHECK_DEADLOCK FALSE
