\* A node heard on two interfaces under two addresses; hellos, noise and listings in
\* every order, fairly scheduled.
CONSTANTS
  n1 = n1
  m1 = m1
  m2 = m2
  a1 = a1
  i1 = i1
  i2 = i2
  None = None
  NodeIds = {n1}
  Macs = {m1, m2}
  Addresses = {a1}
  Interfaces = {i1, i2}
  FrameCapacity = 1
  Capacity = 2
  MapFaults = TRUE
  NoCommand = NoCommand
  Pending = Pending
  Err = Err
  NoHello = NoHello
  Noise = Noise
SPECIFICATION FairSpec
INVARIANT TypeOK
INVARIANT DeathIsNotReported
INVARIANT TableIsOneHelloBehind
PROPERTY EveryHelloIsHeardOnce
PROPERTY HelloReachesTheTable
CHECK_DEADLOCK FALSE
