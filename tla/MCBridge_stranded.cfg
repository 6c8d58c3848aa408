\* Two vehicles, one car and one ship, are enough.
CONSTANTS
  NUM_OF_CARS = 1
  NUM_OF_SHIPS = 1
  MAX_NUM_OF_SHIPS = 2
  FORK_MAY_FAIL = FALSE
SPECIFICATION FairSpec
PROPERTY ResourcesRemoved
\* The program ends, or comes to a standstill.
CHECK_DEADLOCK FALSE
