\* The first hello: Ok is returned and nothing is sent.
CONSTANTS
  i1 = i1
  i2 = i2
  Interfaces = {i1, i2}
  Foreign = Foreign
  Hellos = Hellos
  Holders = {Hellos}
  Capacity = 1
  MaxArrivals = 1
  MaxSends = 2
  MaxRounds = 2
  NoFrame = NoFrame
SPECIFICATION UserSpec
INVARIANT HelloSentOrReported
CHECK_DEADLOCK FALSE
