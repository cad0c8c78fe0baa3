\* Two clicks, a change of the tunnel from outside, one kill; the tunnel also
\* changes with two items in the main queue, so between an observer's read and
\* the assignment of what it read, and again after it.  The policy over
\* lists of up to two paths, the figures over sessions of up to four segments.
SPECIFICATION MCSpec
CONSTANTS
  PathNames = {"wifi", "cellular"}
  Durations = {1, 2}
  MaxSegments = 4
  Tokens = {"t1", "t2"}
  MaxClicks = 2
  MaxChanges = 1
  MaxQueue = 3
  MaxKills = 1
INVARIANTS
  PolicySound
  ImpactHonest
  OneAtATime
  TokenKept
PROPERTY StatusSettles
CHECK_DEADLOCK FALSE
