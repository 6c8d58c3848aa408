\* Both programs; a buffer that takes three short writes, descriptors for two
\* copies and a half, files longer than the buffer.
SPECIFICATION FairSpec
CONSTANTS
  NAMES = 3
  BUFFER_SIZE = 3
  OPEN_MAX = 5
  MAX_SIZE = 4
INVARIANTS
  IInv
  CopiedIsExact
PROPERTY
  CopyEnds
\* The program ends, or waits for an answer.
CHECK_DEADLOCK FALSE
