\* Four passengers, two trips, two seats, two places on the stair; any fork may
\* fail.
CONSTANTS
  NUM_OF_PASS = 4
  NUM_OF_TRIPS = 2
  CAP_OF_BOAT = 2
  CAP_OF_STAIR = 2
  FORK_MAY_FAIL = TRUE
SPECIFICATION FairSpec
INVARIANTS
  StandstillExplained
  IInv
PROPERTIES
  ImplementsExcursion
  TravellersLand
  PassengersGoHome
  OnceRound
\* The program may come to a standstill: StandstillExplained says where.
CHECK_DEADLOCK FALSE
