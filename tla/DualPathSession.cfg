\* Three client packets against a window of two, so that a path can fall a
\* whole window behind; two handshakes and one restart.  No one need speak.
SPECIFICATION Spec
CONSTANTS
  PathNames = {"wifi", "usb"}
  Healthy = {"usb"}
  Width = 2
  MaxAttempts = 2
  MaxEphs = 2
  MaxPackets = 3
  MaxReplies = 1
  MaxRestarts = 1
INVARIANTS
  EndToEndOnce
  NonceUnique
  KeyAgreement
PROPERTY HealthyPathDelivers
CHECK_DEADLOCK FALSE
