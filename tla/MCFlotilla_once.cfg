SPECIFICATION Spec
CONSTANTS
  r1 = r1
  m1 = m1
  s1 = s1
  s2 = s2
  c1 = c1
  p1 = p1
  p2 = p2
  NoRun = NoRun
  NoMsg = NoMsg
  Runs = {r1}
  SparkRuns = {}
  Msgs = {m1}
  BadCluster = {}
  MaxLaunches = 2
  Faults = {"cluster", "crash", "slow", "request"}
  MaxReports = 0
  ReportStatuses = {}
  Deletable = {}
  Submitters = {s1, s2}
  Retriers = {}
  Terminators = {}
  Pollers = {p1, p2}
  EventWorkers = {}
  EmrNews = {}
  EksNews = {}
  PodNews = {}
  MaxPodEvents = 1
  Trackers = {c1}
SYMMETRY Symmetry
INVARIANTS
  LaunchedOnce
  StoppedHasNoLiveJob
PROPERTIES
  CleanupSparesLiveJobs
CHECK_DEADLOCK FALSE
