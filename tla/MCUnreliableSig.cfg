\* Three files, bytes of three bits (all eight of them), up to three bytes; every
\* open, read and fork may fail.
CONSTANTS
  BITS = 3
  FILES = 3
  MAX_BYTES = 3
  ERRORS = TRUE
  Bytes <- MCBytes
SPECIFICATION FairSpec
INVARIANTS
  IInv
  StandstillExplained
PROPERTIES
  ImplementsByteStream
  EverythingIsWritten
\* The program ends, or comes to a standstill: StandstillExplained says where.
CHECK_DEADLOCK FALSE
