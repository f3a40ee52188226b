CONSTANTS
  c1 = c1
  p1 = p1
  p2 = p2
  NoProc = NoProc
  Clients <- MCClients
  Procs <- MCOneProc
  MaxSeq = 3
  MaxReplay = 1
  MaxBuffer = 1
  BatchSize = 2
  MaxFaults = 0
  MaxDrops = 0
  MaxDeletes = 0
SPECIFICATION Spec
CHECK_DEADLOCK FALSE
INVARIANT LosesNothing
