\* Two runners are enough for the judge to take back a call.
CONSTANTS
  num_of_runnrs = 2
  QUEUE_LIMIT = 4
  FORK_MAY_FAIL = FALSE
SPECIFICATION Spec
INVARIANT JudgeHearsRunner
CHECK_DEADLOCK FALSE
