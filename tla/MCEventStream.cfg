CONSTANTS
  c1 = c1
  p1 = p1
  p2 = p2
  NoProc = NoProc
  Clients <- MCClients
  Procs <- MCProcs
  MaxSeq = 3
  MaxReplay = 1
  MaxBuffer = 1
  BatchSize = 2
  MaxFaults = 1
  MaxDrops = 1
  MaxDeletes = 1
SPECIFICATION FairSpec
CHECK_DEADLOCK FALSE
INVARIANT TypeOK
INVARIANT NothingRepeated
INVARIANT LostOnlyInDispatch
INVARIANT ReplayIsComplete
PROPERTY EventuallyDelivered
