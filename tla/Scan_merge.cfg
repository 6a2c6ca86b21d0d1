\* Every set of LDAP ports beside SMB, at most three of four services, and web services of all
\* sorts, two workers at a time.
SPECIFICATION Spec
CONSTANTS
  lab = lab corp = corp labcorp = labcorp dc = dc fs = fs
  Parts <- NameParts
  Outputs <- Scanned
  Reports <- Printed
  Finds <- Found
  MaxWorkers = 2
INVARIANTS RecordHonest DiscoveriesKept ServicesServed
CHECK_DEADLOCK FALSE
