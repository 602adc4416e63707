SPECIFICATION Spec
CONSTANTS
  Length = 3
  Steps = {1, 2, 3}
  Sleeps = {}
  Events = {}
  Groups = {}
  Captures = {}
  Decider = 1
  IfOk = {2}
  IfErr = {3}
  Lookalikes = {1}
  Fanout = 2
  Fallible = {1}
  Handled = {1}
  MayDie = {}
  Deadlines = {}
  MaxRetries = 0
  CanRecover = FALSE
  HasTimeout = FALSE
  Client = {c1}
  MaxCancels = 0
  Preservable = {}
  MaxRun = 0
  Faults = {}
  MaxFaults = 0
SYMMETRY Symmetry
CHECK_DEADLOCK FALSE
INVARIANTS
  OneBranchRuns
