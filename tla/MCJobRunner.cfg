CONSTANTS
  j1 = j1
  j2 = j2
  r1 = r1
  r2 = r2
  k1 = k1
  Jobs <- MCJobs
  Keys <- MCKeys
  Runners <- MCRunners
  NoKey = NoKey
  NoJob = NoJob
  MaxAttempts = 2
  MaxCrashes = 1
  MaxStalls = 1
  MaxTimeouts = 1
SPECIFICATION FairSpec
CHECK_DEADLOCK FALSE
INVARIANT OneRunnerPerJob
INVARIANT OneLiveJobPerKey
INVARIANT SuccessHasEffect
INVARIANT GivenUpOnlyWhenExhausted
INVARIANT FailedAttemptLeavesNoEffect
PROPERTY OutcomeIsFinal
PROPERTY OnlyAStrandedRowStopsTheQueue
