SPECIFICATION Spec
CONSTANTS
  Task = {t1, t2}
  Worker = {w1, w2}
  Token = {k1, k2, k3}
  NoToken = NoToken
  Recurring = {t1}
  Registered = {t1}
  Deletable = {}
  Stoppable = {}
  CanPanic = TRUE
  HeartbeatsOnTime = TRUE
  MaxTasksPerPoll = 2
  MaxConcurrentTasks = 3
  OrphanTimeout = 1
  RecoveryPeriod = 1
  Horizon = 1
  Period = 1
  MaxFaults = 1
SYMMETRY Symmetry
INVARIANT HandlersExclusive
