SPECIFICATION Spec
CONSTANTS
  Length = 4
  Steps = {2}
  Sleeps = {}
  Events = {4}
  Groups = {3}
  Captures = {1}
  Decider = 0
  IfOk = {}
  IfErr = {}
  Lookalikes = {}
  Fanout = 1
  Fallible = {2, 3}
  Handled = {2}
  MayDie <- FirstChildren
  Deadlines = {4}
  MaxRetries = 1
  CanRecover = FALSE
  HasTimeout = FALSE
  Client = {c1}
  MaxCancels = 1
  Preservable = {}
  MaxRun = 0
  Faults = {"crash", "lapse", "error"}
  MaxFaults = 1
SYMMETRY Symmetry
CHECK_DEADLOCK FALSE
INVARIANTS
  InOrder
PROPERTIES
  ResultsAreFinal
  ImplementsWorkflow
  CancelledUntilRetried
