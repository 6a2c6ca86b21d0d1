SPECIFICATION FairSpec
CONSTANTS
  c1 = c1
  c2 = c2
  c3 = c3
  c4 = c4
  k1 = k1
  k2 = k2
  None = None
  Call = {c1, c2, c3, c4}
  Key = {k1, k2}
  KeyOf <- Keys
  Inline = {c1, c4}
  WaitExpires = TRUE
INVARIANTS OneRunPerKey DuplicateAgrees
PROPERTY EveryCallReturns
