\* Scans in any overlap, over every file of three names and two addresses.
SPECIFICATION Spec
CONSTANTS
  i1 = i1
  i2 = i2
  a = a
  b = b
  c = c
  s1 = s1
  s2 = s2
  s3 = s3
  Address <- Addresses
  Alias <- Aliases
  Scan = {s1, s2, s3}
  Ip <- ApartIp
  Names <- ApartNames
  Original <- Plain
PROPERTIES BackedUp NamesResolve NoNameLost
CHECK_DEADLOCK FALSE
