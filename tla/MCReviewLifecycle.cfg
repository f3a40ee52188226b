SPECIFICATION Spec
CONSTANTS
  Humans = {h1, h2}
  Agents = {a1}
  Findings = {f1}
  Claims = {c1, c2}
  NoClaim = NoClaim
SYMMETRY Symmetry
CHECK_DEADLOCK FALSE
INVARIANT OneCurrentClaim
INVARIANT HandoverHasClaim
PROPERTY DecidedAsShown
PROPERTY DecisionStands
