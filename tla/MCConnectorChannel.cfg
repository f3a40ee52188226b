SPECIFICATION ChannelFairSpec
CONSTANTS
  Sockets = {k1, k2}
  Routes = {r1}
  Credentials = {c1}
INVARIANT RevokedHoldsNothing
PROPERTIES ChannelIsKept ChannelIsReported SilenceIsReported
