\* Two clients on the neighbour table, a channel of two commands, a kernel map
\* whose iteration may fail.
CONSTANTS
  AddressBytes = 2
  ByteBits = 1
  MaxEntries = 1
  None = None
  n1 = n1
  h1 = h1
  c1 = c1
  c2 = c2
  NeighborIds = {n1}
  RoutePrefixes = {}
  ForwardingPrefixes = {}
  Neighbors = {h1}
  Routes = {}
  NextHops = {}
  Clients = {c1, c2}
  Capacity = 2
  MapFaults = TRUE
  NoCommand = NoCommand
  Pending = Pending
  Err = Err
SPECIFICATION HFairSpec
INVARIANT HistoryInv
INVARIANT OneOneshotPerWaitingCall
PROPERTY Linearizable
PROPERTY EveryCallEnds
CHECK_DEADLOCK FALSE
