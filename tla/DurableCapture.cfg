SPECIFICATION Spec
CONSTANTS
  Length = 3
  Steps = {2, 3}
  Sleeps = {}
  Events = {}
  Groups = {}
  Captures = {1}
  Decider = 1
  IfOk = {2}
  IfErr = {3}
  Lookalikes = {}
  Fanout = 2
  Fallible = {}
  Handled = {}
  MayDie = {}
  Deadlines = {}
  MaxRetries = 0
  CanRecover = FALSE
  HasTimeout = FALSE
  Client = {c1}
  MaxCancels = 0
  Preservable = {}
  MaxRun = 0
  Faults = {"lapse"}
  MaxFaults = 1
CHECK_DEADLOCK FALSE
INVARIANTS
  CaptureIsOneValue
