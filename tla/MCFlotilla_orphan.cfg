SPECIFICATION Spec
CONSTANTS
  r1 = r1
  m1 = m1
  s1 = s1
  k1 = k1
  NoRun = NoRun
  NoMsg = NoMsg
  Runs = {r1}
  SparkRuns = {}
  Msgs = {m1}
  BadCluster = {}
  MaxLaunches = 2
  Faults = {}
  MaxReports = 0
  ReportStatuses = {}
  Deletable = {}
  Submitters = {s1}
  Retriers = {}
  Terminators = {k1}
  Pollers = {}
  EventWorkers = {}
  EmrNews = {}
  EksNews = {}
  PodNews = {}
  MaxPodEvents = 1
  Trackers = {}
SYMMETRY Symmetry
INVARIANTS
  StoppedHasNoLiveJob
CHECK_DEADLOCK FALSE
