\* The first network route, and a frame to an address of the network.
CONSTANTS
  AddressBytes = 2
  ByteBits = 1
  MaxEntries = 2
  None = None
  c1 = c1
  c2 = c2
  cpu1 = cpu1
  NeighborIds = {}
  RoutePrefixes = {}
  ForwardingPrefixes <- NetworkAndHost
  Neighbors = {}
  Routes = {}
  NextHops <- OneHop
  Clients = {c1}
  Controller = c1
  Cpus = {cpu1}
  Destinations = {3}
  Capacity = 2
  MapFaults = TRUE
  NoCommand = NoCommand
  Pending = Pending
  Err = Err
  Nothing = Nothing
SPECIFICATION DataSpec
INVARIANT NoHopMeansNoNetwork
CHECK_DEADLOCK FALSE
