\* Two clients with one file and two lines each; up to two processes are killed,
\* and the server is started again once.  No symmetry: two of the properties are
\* liveness properties of single clients.
CONSTANTS
  c1 = c1
  c2 = c2
  Clients = {c1, c2}
  FILES = 1
  MAX_LINES = 2
  Unended <- TwoUnended
  MAX_KILLS = 2
  MAX_RESTARTS = 1
SPECIFICATION FairSpec
INVARIANTS
  IInv
  LinesPrintedOnce
  StandstillExplained
PROPERTIES
  ImplementsLineChannel
  ClientsFinish
  LinesArrive
  StepsGetOn
\* The server waits for ever once the clients are done.
CHECK_DEADLOCK FALSE
