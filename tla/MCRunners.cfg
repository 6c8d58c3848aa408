\* Five runners; the queue holds three messages, fewer than they send; any fork
\* may fail.
CONSTANTS
  num_of_runnrs = 5
  QUEUE_LIMIT = 3
  FORK_MAY_FAIL = TRUE
SPECIFICATION FairSpec
INVARIANTS
  StandstillExplained
  IInv
PROPERTIES
  ImplementsRace
  RacersGoAway
  JudgeFinishes
\* The program ends, or comes to a standstill: StandstillExplained says where.
CHECK_DEADLOCK FALSE
