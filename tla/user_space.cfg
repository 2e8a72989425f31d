\* Startup and two rounds of hellos while frames come in on two interfaces, fairly
\* scheduled.
CONSTANTS
  i1 = i1
  i2 = i2
  Interfaces = {i1, i2}
  Foreign = Foreign
  Hellos = Hellos
  Holders = {Hellos}
  Capacity = 1
  MaxArrivals = 2
  MaxSends = 2
  MaxRounds = 2
  NoFrame = NoFrame
SPECIFICATION UserFairSpec
INVARIANT UserTypeOK
INVARIANT NoHelloEverLeaves
INVARIANT InboundInOrder
PROPERTY EarlyFrameIsReceived
PROPERTY FramesGetThrough
CHECK_DEADLOCK FALSE
