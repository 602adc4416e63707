SPECIFICATION Spec
CONSTANTS
  Task = {t1, t2}
  Worker = {w1, w2}
  Token = {k1, k2, k3}
  NoToken = NoToken
  Recurring = {t1}
  Registered = {t1, t2}
  Deletable = {t2}
  Stoppable = {}
  CanPanic = FALSE
  HeartbeatsOnTime = FALSE
  MaxTasksPerPoll = 2
  MaxConcurrentTasks = 1
  OrphanTimeout = 0
  RecoveryPeriod = 1
  Horizon = 1
  Period = 1
  MaxFaults = 1
SYMMETRY Symmetry
INVARIANTS
  TypeOK
  LockMatchesStatus
  HolderKnowsItsRow
  SelectedRowsWait
PROPERTIES
  SettledStaysSettled
  LeaseRespected
