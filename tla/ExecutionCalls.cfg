SPECIFICATION FairSpec
CONSTANTS
  Client = {c1, c2}
  Ops = {"start", "start_in_tx", "start_and_wait", "wait", "cancel", "restart", "rerun", "retry_step", "status", "runs", "detail"}
  MaxRun = 2
  Step = {s1}
  Timeout = 1
  Interval = 1
  MaxNow = 2
  Operator = {o1, o2}
  Rule = {r1, r2}
  MaxFaults = 1
CHECK_DEADLOCK FALSE
INVARIANTS
  TypeOK
  LastRunIsCurrent
  RunsInsertedOnce
  CurrentRunHasWork
  CancelledByOne
  WaitSeesTheEnd
  RefusedStartsNothing
  ResumesAccountForRules
PROPERTIES
  CallsReturn
