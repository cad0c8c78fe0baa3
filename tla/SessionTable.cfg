\* Three goroutines on one session identity, two keys and two numbers:
\* every property is about one identity, and the mutex is the only thing
\* that two identities share.
SPECIFICATION Spec
CONSTANTS
  Workers = {w1, w2, w3}
  SessionIds = {1}
  MaxKeys = 2
  MaxNumber = 2
SYMMETRY WorkerSymmetry
INVARIANTS
  DeliveredOnce
  NonceNeverRepeats
  ForgetIsFinal
