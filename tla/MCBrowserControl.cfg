CONSTANTS
  a1 = a1
  s1 = s1
  s2 = s2
  t1 = t1
  t2 = t2
  c1 = c1
  c2 = c2
  Agents <- MCAgents
  Systems <- MCSystems
  Nobody = Nobody
  Transfers <- MCTransfers
  Calls <- MCCalls
  MaxEpoch = 2
  MaxSeq = 0
SPECIFICATION Spec
CHECK_DEADLOCK FALSE
INVARIANT SequenceRunsOnce
INVARIANT OneControllerPerEpoch
PROPERTY FirstEpochIsSpent
PROPERTY RefinesLease
SYMMETRY MCSymmetry
