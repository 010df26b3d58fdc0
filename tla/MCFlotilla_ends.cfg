SPECIFICATION WatchSpec
CONSTANTS
  r1 = r1
  m1 = m1
  m2 = m2
  s1 = s1
  t1 = t1
  p1 = p1
  NoRun = NoRun
  NoMsg = NoMsg
  Runs = {r1}
  SparkRuns = {}
  Msgs = {m1, m2}
  BadCluster = {}
  MaxLaunches = 2
  Faults = {"db", "late", "ttl", "retry"}
  MaxReports = 1
  ReportStatuses = {"NEEDS_RETRY"}
  Deletable = {}
  Submitters = {s1}
  Retriers = {t1}
  Terminators = {}
  Pollers = {p1}
  EventWorkers = {}
  EmrNews = {}
  EksNews = {}
  PodNews = {}
  MaxPodEvents = 1
  Trackers = {}
PROPERTIES
  WatchedRunsEnd
CHECK_DEADLOCK FALSE
