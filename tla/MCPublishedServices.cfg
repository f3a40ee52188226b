SPECIFICATION FairSpec
CONSTANTS
  Services = {s1}
  Caps = {c1}
  Calls = {p1, p2}
  MaxFaults = 1
INVARIANT RevokedMeansClosed
PROPERTY EndedIsFinal
PROPERTY RequestIsSettled
PROPERTY ExpiredIsEnded
CHECK_DEADLOCK FALSE
