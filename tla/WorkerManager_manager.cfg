SPECIFICATION FairSpec
CONSTANTS
  Types = {submit, status}
  LateTypes = {events}
  MaxCount = 2
  Callers = {c1}
  MaxEdits = 2
  MaxStarts = 2
  MaxCounted = 2
  MaxErrors = 1
INVARIANTS
  EveryWorkerTracked
PROPERTIES
  CountsSettle
