SPECIFICATION Spec
CONSTANTS
  Length = 2
  Steps = {2}
  Sleeps = {}
  Events = {}
  Groups = {1}
  Captures = {}
  Decider = 0
  IfOk = {}
  IfErr = {}
  Lookalikes = {}
  Fanout = 2
  Fallible = {}
  Handled = {}
  MayDie = {}
  Deadlines = {}
  MaxRetries = 0
  CanRecover = FALSE
  HasTimeout = FALSE
  Client = {c1}
  MaxCancels = 0
  Preservable = {}
  MaxRun = 0
  Faults = {}
  MaxFaults = 0
SYMMETRY Symmetry
CHECK_DEADLOCK FALSE
INVARIANTS
  FailureHasCause
