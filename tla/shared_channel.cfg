\* Another client whose listings, gets and dropped calls share the channel with the
\* controller's route to one host, and frames to it.
CONSTANTS
  AddressBytes = 2
  ByteBits = 1
  MaxEntries = 2
  None = None
  c1 = c1
  c2 = c2
  cpu1 = cpu1
  NeighborIds = {}
  RoutePrefixes = {}
  ForwardingPrefixes <- HostOnly
  Neighbors = {}
  Routes = {}
  NextHops <- OneHop
  Clients = {c1, c2}
  Controller = c1
  Cpus = {cpu1}
  Destinations = {2}
  Capacity = 2
  MapFaults = TRUE
  NoCommand = NoCommand
  Pending = Pending
  Err = Err
  Nothing = Nothing
SPECIFICATION DataSpec
INVARIANT SettledInv
CHECK_DEADLOCK FALSE
