SPECIFICATION FairSpec
CONSTANTS
  Task = {t1}
  Worker = {w1, w2}
  Token = {k1, k2}
  NoToken = NoToken
  Recurring = {t1}
  Registered = {t1}
  Deletable = {t1}
  Stoppable = {w2}
  CanPanic = FALSE
  HeartbeatsOnTime = FALSE
  MaxTasksPerPoll = 2
  MaxConcurrentTasks = 1
  OrphanTimeout = 0
  RecoveryPeriod = 2
  Horizon = 1
  Period = 1
  MaxFaults = 1
PROPERTIES
  DueTaskIsTaken
  LeaseEnds
  ImplementsLeasedJobs
