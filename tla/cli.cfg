\* A node with two interfaces that says hello while somebody types: a channel of two
\* commands to the State task, which hellos and listings compete for.
CONSTANTS
  n1 = n1
  m1 = m1
  m2 = m2
  a1 = a1
  i1 = i1
  None = None
  NodeIds = {n1}
  Macs = {m1, m2}
  Addresses = {a1}
  Interfaces = {i1}
  FrameCapacity = 1
  Capacity = 2
  PromptCapacity = 1
  MapFaults = TRUE
  NoCommand = NoCommand
  Pending = Pending
  Err = Err
  NoHello = NoHello
  Noise = Noise
  NoTable = NoTable
SPECIFICATION CliFairSpec
INVARIANT CliTypeOK
INVARIANT ListingIsCurrent
INVARIANT StateTakesPromptAlong
INVARIANT PromptWaitsForSomebody
PROPERTY EveryCommandEnds
CHECK_DEADLOCK FALSE
