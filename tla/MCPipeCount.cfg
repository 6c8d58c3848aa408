\* Up to five bytes through a pipe that holds two into a buffer of two: words cut
\* by a read, a full pipe, an heir that outlives the command, and any failure.
CONSTANTS
  BUF_SIZE = 2
  CAPACITY = 2
  MAX_OUTPUT = 5
SPECIFICATION FairSpec
INVARIANTS
  IInv
  NobodyWaitsForEver
PROPERTIES
  ImplementsWordReport
  ProgramEnds
\* The program ends.
CHECK_DEADLOCK FALSE
