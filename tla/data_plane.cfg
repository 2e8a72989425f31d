\* A controller that writes a network route and a host route, with several of its
\* commands in the channel, and frames to an address that both are for.
\* With both in the kernel map it is full, and refuses to replace either.
CONSTANTS
  AddressBytes = 2
  ByteBits = 1
  MaxEntries = 2
  None = None
  c1 = c1
  cpu1 = cpu1
  NeighborIds = {}
  RoutePrefixes = {}
  ForwardingPrefixes <- NetworkAndHost
  Neighbors = {}
  Routes = {}
  NextHops <- SomeHops
  Clients = {c1}
  Controller = c1
  Cpus = {cpu1}
  Destinations = {2}
  Capacity = 2
  MapFaults = FALSE
  NoCommand = NoCommand
  Pending = Pending
  Err = Err
  Nothing = Nothing
SPECIFICATION RouteSpec
INVARIANT SettledRoutesForward
INVARIANT HostRouteWins
INVARIANT MapIsAsWritten
CHECK_DEADLOCK FALSE
