SPECIFICATION PtyFairSpec
CONSTANTS
  Kids = {kin, stray}
  Strays = {stray}
  MaxUnread = 2
  Interrupts = TRUE
  Breaks = TRUE
INVARIANTS NobodyForgotten OutputSaved FirstReasonStands
PROPERTY Ends
