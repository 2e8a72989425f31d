\* One client on the forwarding table, with several of its commands in the
\* channel at once.
CONSTANTS
  AddressBytes = 2
  ByteBits = 1
  MaxEntries = 2
  None = None
  n1 = n1
  h1 = h1
  r1 = r1
  r2 = r2
  c1 = c1
  c2 = c2
  NeighborIds = {n1}
  RoutePrefixes = {}
  ForwardingPrefixes <- SomePrefixes
  Neighbors = {h1}
  Routes = {}
  NextHops = {r1, r2}
  Clients = {c1}
  Capacity = 2
  MapFaults = TRUE
  NoCommand = NoCommand
  Pending = Pending
  Err = Err
SPECIFICATION Spec
INVARIANT TypeOK
INVARIANT OneEntryPerNode
INVARIANT LongestMatchWins
INVARIANT AnswerIsOfTheTable
CHECK_DEADLOCK FALSE
