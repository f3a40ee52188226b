SPECIFICATION KeySpec
CONSTANTS
  Calls = {c1, c2, c3}
  Digests = {d1, d2}
  Wrapper = "tool"
SYMMETRY Symmetry
CHECK_DEADLOCK FALSE
INVARIANT OneCallRuns
