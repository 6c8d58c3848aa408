\* Three cars and three ships, the code's limit for waiting ships; any fork may
\* fail.
CONSTANTS
  NUM_OF_CARS = 3
  NUM_OF_SHIPS = 3
  MAX_NUM_OF_SHIPS = 2
  FORK_MAY_FAIL = TRUE
SPECIFICATION FairSpec
INVARIANTS
  StandstillOnlyForShips
  IInv
PROPERTIES
  ImplementsCrossing
  TurnFollowsQueues
  CarsAlwaysPass
  ShipsAheadOfACarPass
\* The program ends, or comes to a standstill.
CHECK_DEADLOCK FALSE
