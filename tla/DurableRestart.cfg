SPECIFICATION Spec
CONSTANTS
  Length = 3
  Steps = {1}
  Sleeps = {}
  Events = {3}
  Groups = {2}
  Captures = {}
  Decider = 0
  IfOk = {}
  IfErr = {}
  Lookalikes = {}
  Fanout = 1
  Fallible = {}
  Handled = {}
  MayDie <- FirstChildren
  Deadlines = {3}
  MaxRetries = 0
  CanRecover = TRUE
  HasTimeout = TRUE
  Client = {c1}
  MaxCancels = 0
  Preservable = {1, 2}
  MaxRun = 1
  Faults = {}
  MaxFaults = 0
SYMMETRY Symmetry
CHECK_DEADLOCK FALSE
INVARIANTS
  StepsMatchTasks
