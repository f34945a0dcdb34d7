SPECIFICATION Spec
CONSTANTS
  MAX_TASKS = 4
  Registers = {0, 1}
  YieldFromMain = FALSE
  MinTasks = 2
INVARIANTS
  TypeOK
  NoTaskLost
PROPERTIES
  RunsRoundRobin
  EveryTaskRuns
