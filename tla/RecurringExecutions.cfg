SPECIFICATION Spec
CONSTANTS
  Tick = {t1, t2}
  MaxOccurrence = 2
  MaxFaults = 2
  MaxStops = 1
CHECK_DEADLOCK FALSE
INVARIANTS
  TypeOK
  NoOverlap
  CounterOneBehind
  RunsAgainAfterFaults
