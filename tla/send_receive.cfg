\* Two interfaces and channels of one frame; two frames come in and two are sent on each.
CONSTANTS
  i1 = i1
  i2 = i2
  h1 = h1
  Interfaces = {i1, i2}
  Foreign = Foreign
  Holders = {h1}
  Capacity = 1
  MaxArrivals = 2
  MaxSends = 2
  NoFrame = NoFrame
SPECIFICATION FairSpec
INVARIANT TypeOK
INVARIANT OutboundInOrder
PROPERTY EveryInterfaceIsALink
PROPERTY AcceptedIsSent
CHECK_DEADLOCK FALSE
