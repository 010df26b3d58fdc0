SPECIFICATION SubmitSpec
CONSTANTS
  r1 = r1
  m1 = m1
  s1 = s1
  s2 = s2
  k1 = k1
  NoRun = NoRun
  NoMsg = NoMsg
  Runs = {r1}
  SparkRuns = {}
  Msgs = {m1}
  BadCluster = {r1}
  MaxLaunches = 1
  Faults = {"cluster", "crash", "slow", "queue"}
  MaxReports = 0
  ReportStatuses = {}
  Deletable = {}
  Submitters = {s1, s2}
  Retriers = {}
  Terminators = {k1}
  Pollers = {}
  EventWorkers = {}
  EmrNews = {}
  EksNews = {}
  PodNews = {}
  MaxPodEvents = 1
  Trackers = {}
INVARIANTS
  QueuedIsOnItsWay
  AckedWhenHandled
PROPERTIES
  QueuedRunsStart
CHECK_DEADLOCK FALSE
