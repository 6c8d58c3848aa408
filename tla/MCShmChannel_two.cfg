\* Two clients with one line each; the server is killed and started again.
CONSTANTS
  c1 = c1
  c2 = c2
  Clients = {c1, c2}
  FILES = 1
  MAX_LINES = 1
  Unended <- OneUnended
  MAX_KILLS = 1
  MAX_RESTARTS = 1
SPECIFICATION Spec
INVARIANT OneInControl
CHECK_DEADLOCK FALSE
