\* Three passengers, two trips, two seats; no fork fails.
CONSTANTS
  NUM_OF_PASS = 3
  NUM_OF_TRIPS = 2
  CAP_OF_BOAT = 2
  CAP_OF_STAIR = 1
  FORK_MAY_FAIL = FALSE
SPECIFICATION FairSpec
PROPERTY AllTripsMade
\* The program may come to a standstill.
CHECK_DEADLOCK FALSE
