SPECIFICATION Spec
CONSTANTS
  r1 = r1
  Routes = {r1}
  Caps = {c1}
  RouteOf <- MCRouteOf
  AliasOf <- MCAliasOf
  Requests = {q1}
  Admins = {a1}
  Sweeper = sweeper
  MaxRouteTTL = 1
  CapabilityTTL = 1
  MaxRoutes = 1
  MaxStreams = 1
  MaxTime = 2
  MaxRegistrations = 2
  MaxFaults = 1
CHECK_DEADLOCK FALSE
INVARIANTS WithdrawalIsKept NoStreamOnWithdrawnRoute ActiveCountsStreams
