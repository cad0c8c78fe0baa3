\* Three provider instances in one process, three inbound numbers, three
\* outbound packets per session, read one or two at a time;
\* empty, tiny and largest payloads.
SPECIFICATION Spec
CONSTANTS
  MaxStarts = 3
  MaxIn = 3
  MaxOut = 3
  Batch = 2
  Payloads = {0, 1, 1600}
INVARIANTS
  HandshakesConsumed
  HandleLive
  AcceptedIsWritten
  StaysConnected
PROPERTIES
  StartFinishes
  TearsDown
CHECK_DEADLOCK FALSE
