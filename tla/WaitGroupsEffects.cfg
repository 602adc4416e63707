SPECIFICATION Spec
CONSTANTS
  Step = {s1}
  Dispatch = {d1}
  MaxAttempts = {2}
  InitialDelay = 1
  MaxDelay = 1
  Timeout = 2
  Lifetime = 2
  MaxFaults = 0
INVARIANT ErrIsRolledBack
