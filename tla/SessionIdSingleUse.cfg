\* The documented single use of a session identity, against Forget.
SPECIFICATION Spec
CONSTANTS
  Workers = {w1}
  SessionIds = {1}
  MaxKeys = 2
  MaxNumber = 1
INVARIANT SessionIdSingleUse
