SPECIFICATION FairSpec
CONSTANTS
  Polls = {q1, q2, q3}
  NoPoll = NoPoll
  MaxProcesses = 2
  MaxCrashes = 2
INVARIANTS
  ExclusiveAlone
PROPERTIES
  PolledAgain
