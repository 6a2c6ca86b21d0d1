\* Two workers on one list, and every end of ffuf.
SPECIFICATION HttpSpec
CONSTANTS
  Worker = {w1, w2}
  Words = 3
  Served <- SomeNames
  Paths <- SomePaths
SYMMETRY Alike
INVARIANTS WholeListTried PathsKept
CHECK_DEADLOCK FALSE
