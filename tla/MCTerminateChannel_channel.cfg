SPECIFICATION FairSpec
CONSTANTS
  root = root
  left = left
  right = right
  leaf = leaf
  NoRun = NoRun
  Runs = {root, left, right, leaf}
  Parent <- MCParent
  Capacity = 1
  Handlers = {h1}
  Workers = {w1, w2, w3}
  MaxRequests = 1
  MaxErrors = 1
INVARIANTS
  EachHasItsGoroutine
PROPERTIES
  TreeIsStopped
CHECK_DEADLOCK FALSE
