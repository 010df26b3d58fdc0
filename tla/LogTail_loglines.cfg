SPECIFICATION Spec
CONSTANTS
  Engine = "eks"
  MaxLogLines = 2
  Garbled = {}
  Rotates = FALSE
  MaxLines = 5
INVARIANT NothingSkipped
CHECK_DEADLOCK FALSE
