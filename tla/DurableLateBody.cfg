SPECIFICATION Spec
CONSTANTS
  Length = 1
  Steps = {1}
  Sleeps = {}
  Events = {}
  Groups = {}
  Captures = {}
  Decider = 0
  IfOk = {}
  IfErr = {}
  Lookalikes = {}
  Fanout = 2
  Fallible = {}
  Handled = {}
  MayDie = {}
  Deadlines = {}
  MaxRetries = 0
  CanRecover = FALSE
  HasTimeout = FALSE
  Client = {c1}
  MaxCancels = 0
  Preservable = {}
  MaxRun = 1
  Faults = {}
  MaxFaults = 0
CHECK_DEADLOCK FALSE
INVARIANTS
  CompletedRunsRan
