SPECIFICATION FairSpec
CONSTANTS
  Length = 4
  Steps = {1}
  Sleeps = {3}
  Events = {}
  Groups = {4}
  Captures = {2}
  Decider = 1
  IfOk = {4}
  IfErr = {2, 3}
  Lookalikes = {}
  Fanout = 2
  Fallible = {1, 4}
  Handled = {1}
  MayDie <- FirstChildren
  Deadlines = {}
  MaxRetries = 1
  CanRecover = FALSE
  HasTimeout = FALSE
  Client = {c1}
  MaxCancels = 0
  Preservable = {}
  MaxRun = 0
  Faults = {"crash", "lapse"}
  MaxFaults = 1
CHECK_DEADLOCK FALSE
INVARIANTS
  TypeOK
  OneBranchRuns
  GroupCountsChildren
PROPERTIES
  RunEnds
  KeepsToLeasedJobs
