SPECIFICATION FairEnumSpec
CONSTANTS
  r1 = r1
  r2 = r2
  r3 = r3
  r4 = r4
  r5 = r5
  r6 = r6
  NoRes = NoRes
  Res = {r1, r2, r3, r4, r5, r6}
  Roots = {r1, r6}
  Namespaces <- Linked
  Kind <- Kinds
  Blocked = {}
  Wanted = {r4}
  Services = {"smb", "ftp", "ldap"}
  MaxDepth = 2
  MaxTasks = 4
  MaxFiles = 1
  MaxDirectories = 2
  MaxWorkers = 2
INVARIANTS ProbedOnce Complete RecordTrue VerdictTrue
PROPERTY Termination
