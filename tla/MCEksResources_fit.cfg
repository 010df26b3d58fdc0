SPECIFICATION Spec
CONSTANTS
  Cpus <- MCCpus
  Mems <- MCMems
  Gpus <- MCGpus
  Estimates <- MCEstimates
  MaxAttempts = 2
INVARIANTS
  JobsFit
PROPERTIES
  RetriesGetTheSame
CHECK_DEADLOCK FALSE
