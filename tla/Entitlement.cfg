\* Two subjects, one of which Issue refuses, and two purchases; a tolerance
\* and a TTL that the clock outruns.
SPECIFICATION ServiceSpec
CONSTANTS
  Subjects = {"acct", "a|b"}
  Separated = {"a|b"}
  Checkouts = {"cs1", "cs2"}
  Tolerance = 1
  HelloTolerance = 1
  TokenTTL = 1
  DurationMax = 20
  Int64Max = 127
  Epoch = 40
  Stamps <- MCStamps
  Drift = 1
  MaxTime = 5
  MaxPosts = 2
  MaxHellos = 1
INVARIANTS
  AdmittedPaid
  AccessEnds
CHECK_DEADLOCK FALSE
