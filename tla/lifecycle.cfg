\* Two configured interfaces, whose links are created, removed and replaced at any time,
\* before, between and after the queries of main.
CONSTANTS
  n1 = n1
  n2 = n2
  Names = {n1, n2}
  Configured <- TwoNames
  MaxIndex = 5
SPECIFICATION FairSpec
INVARIANT TypeOK
INVARIANT ProbeIsOfOneLink
INVARIANT ReadersAreAttached
INVARIANT OnlyFailedStartIsNoticed
PROPERTY OnlyAReaderHoldsTheProcess
CHECK_DEADLOCK FALSE
