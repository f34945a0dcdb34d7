SPECIFICATION Spec
CONSTANTS
  MAX_TASKS = 3
  Registers = {0, 1}
  YieldFromMain = TRUE
  MinTasks = 2
INVARIANTS
  TaskCurrentTruthful
