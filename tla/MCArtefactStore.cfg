SPECIFICATION Spec
CONSTANTS
  Calls = {c1, c2}
  Digests = {b1, b2}
  Wrapper = "intent"
  Artefacts = {a1, a2}
  Contents = {b1, b2}
  NoBytes = NoBytes
  Requests = {r1, r2}
SYMMETRY Symmetry
CHECK_DEADLOCK FALSE
INVARIANT AvailableHasItsBytes
INVARIANT OneArtefactPerKey
PROPERTY AvailableIsKept
