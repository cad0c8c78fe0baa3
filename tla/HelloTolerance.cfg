\* A client whose clock is more than DurationMax ahead.
SPECIFICATION ServiceSpec
CONSTANTS
  Subjects = {"acct"}
  Separated = {}
  Checkouts = {"cs1"}
  Tolerance = 1
  HelloTolerance = 1
  TokenTTL = 1
  DurationMax = 20
  Int64Max = 127
  Epoch = 40
  Stamps = {2, 4, 30, 100}
  Drift = 1
  MaxTime = 5
  MaxPosts = 1
  MaxHellos = 1
INVARIANT AdmittedInTolerance
CHECK_DEADLOCK FALSE
