\* Up to three threads and seven ones: shares of zero, one, two and three, with
\* and without a remainder.
SPECIFICATION FairSpec
CONSTANTS
  MAX_THREADS = 3
  MAX_EXPECTED = 7
INVARIANTS
  IInv
  ShownBounds
  NobodyWaitsForEver
PROPERTIES
  MainEnds
\* The program ends.
CHECK_DEADLOCK FALSE
