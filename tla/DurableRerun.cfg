SPECIFICATION FairSpec
CONSTANTS
  Length = 1
  Steps = {}
  Sleeps = {}
  Events = {}
  Groups = {1}
  Captures = {}
  Decider = 0
  IfOk = {}
  IfErr = {}
  Lookalikes = {}
  Fanout = 2
  Fallible = {}
  Handled = {}
  MayDie = {}
  Deadlines = {}
  MaxRetries = 0
  CanRecover = FALSE
  HasTimeout = FALSE
  Client = {c1}
  MaxCancels = 0
  Preservable = {1}
  MaxRun = 1
  Faults = {}
  MaxFaults = 0
CHECK_DEADLOCK FALSE
PROPERTIES
  CurrentRunEnds
