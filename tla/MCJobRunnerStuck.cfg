CONSTANTS
  j1 = j1
  j2 = j2
  r1 = r1
  r2 = r2
  k1 = k1
  Jobs <- MCJobs
  Keys <- MCKeys
  Runners <- MCOneRunner
  NoKey = NoKey
  NoJob = NoJob
  MaxAttempts = 2
  MaxCrashes = 1
  MaxStalls = 0
  MaxTimeouts = 0
SPECIFICATION FairSpec
CHECK_DEADLOCK FALSE
PROPERTY CrashCostsADelay
