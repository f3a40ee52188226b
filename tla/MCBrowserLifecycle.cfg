CONSTANTS
  s1 = s1
  c1 = c1
  NoSession = NoSession
  Sessions <- OneSession
  Calls <- OneCall
  Capacity = 1
  MaxFaults = 2
SPECIFICATION FairSpec
CHECK_DEADLOCK FALSE
 
PROPERTY RequestIsAnswered
PROPERTY OrphansAreClosed
PROPERTY LostWorkerEndsSessions
PROPERTY EndedReleasesLease
