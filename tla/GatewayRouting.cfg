\* A /29 and two live sessions, one with two uplinks; the clock runs past
\* the TTL.  One packet each: every copy of it, late or repeated, is recorded.
\* In the other mode six sessions share the pool's five addresses.
SPECIFICATION MCSpec
CONSTANTS
  Workers = {"serve", "return"}
  SessionIds = {1, 2}
  LeaseIds = {1, 2, 3, 4, 5, 6}
  PathIds = {1, 2}
  MaxKeys = 2
  MaxNumber = 2
  Size = 8
  Endpoints = {"wifi1", "usb1", "wifi2"}
  Uplinks <- MCUplinks
  Packets <- MCPackets
  Strays <- MCStrays
  MaxReturns = 2
  MayStop = FALSE
  TTL = 2
  MaxTime = 3
INVARIANTS
  ReturnToOwner
  LeasesPartition
PROPERTIES
  FreshExact
  EgressOwnOnce
