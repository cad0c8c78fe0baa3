\* A /30, whose one address leaves the second session without a lease;
\* the gateway may be stopped at any moment.
SPECIFICATION GatewaySpec
CONSTANTS
  Workers = {"serve", "return"}
  SessionIds = {1, 2}
  LeaseIds = {1, 2}
  PathIds = {1, 2}
  MaxKeys = 3
  MaxNumber = 2
  Size = 4
  Endpoints = {"wifi1", "usb1", "wifi2"}
  Uplinks <- MCUplinks
  Packets <- MCPackets
  Strays <- MCStrays
  MaxReturns = 3
  MayStop = TRUE
  TTL = 2
  MaxTime = 1
INVARIANT AdmittedHasLease
PROPERTY GatewayStops
