SPECIFICATION FairSpec
CONSTANTS
  Step = {s1, s2}
  Dispatch = {d1, d2}
  MaxAttempts = {2}
  InitialDelay = 1
  MaxDelay = 1
  Timeout = 2
  Lifetime = 2
  MaxFaults = 2
INVARIANTS
  TypeOK
  EffectsMatchResults
  AttemptsTellTheStory
  ResultsAreEarned
  DeadlineHolds
  GroupCounts
PROPERTIES
  StepsEnd
