SPECIFICATION Spec
CONSTANTS
  r1 = r1
  m1 = m1
  s1 = s1
  e1 = e1
  p1 = p1
  NoRun = NoRun
  NoMsg = NoMsg
  Runs = {r1}
  SparkRuns = {}
  Msgs = {m1}
  BadCluster = {r1}
  MaxLaunches = 1
  Faults = {"db", "queue", "cluster", "terminate", "crash", "slow", "stuck", "ttl", "late"}
  MaxReports = 1
  ReportStatuses = {"NEEDS_RETRY"}
  Deletable = {r1}
  Submitters = {s1}
  Retriers = {}
  Terminators = {}
  Pollers = {p1}
  EventWorkers = {e1}
  EmrNews = {}
  EksNews = {"Completed"}
  PodNews = {}
  MaxPodEvents = 1
  Trackers = {}
SYMMETRY Symmetry
INVARIANTS
  TypeOK
  SavedBeforeQueued
  Watched
PROPERTIES
  ImplementsContract
CHECK_DEADLOCK FALSE
