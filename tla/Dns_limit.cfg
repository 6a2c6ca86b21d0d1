\* The limit bites anywhere in the follow-ups.
SPECIFICATION FairSpec
CONSTANTS
  lab = lab
  ns = ns
  www = www
  ip1 = ip1
  ip2 = ip2
  Host <- Hosts
  Address <- Addresses
  Label <- Labels
  Target <- Targets
  Zones <- Flaky
  Limit = 24
INVARIANT FollowUpsDone
PROPERTY Returns
CHECK_DEADLOCK FALSE
