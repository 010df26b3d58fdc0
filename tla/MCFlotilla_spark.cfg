SPECIFICATION EventSpec
CONSTANTS
  r1 = r1
  m1 = m1
  s1 = s1
  k1 = k1
  e1 = e1
  n1 = n1
  NoRun = NoRun
  NoMsg = NoMsg
  Runs = {r1}
  SparkRuns = {r1}
  Msgs = {m1}
  BadCluster = {r1}
  MaxLaunches = 1
  Faults = {"crash", "queue", "terminate"}
  MaxReports = 0
  ReportStatuses = {}
  Deletable = {}
  Submitters = {s1}
  Retriers = {}
  Terminators = {k1}
  Pollers = {}
  EventWorkers = {e1}
  EmrNews = {"RUNNING", "COMPLETED", "FAILED"}
  EksNews = {}
  PodNews = {n1}
  MaxPodEvents = 1
  Trackers = {}
INVARIANTS
  AckedEndsAreRecorded
  SparkSeenHasJob
  NoisyJobsAreCancelled
PROPERTIES
  EndedJobsStop
CHECK_DEADLOCK FALSE
