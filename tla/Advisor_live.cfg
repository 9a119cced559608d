SPECIFICATION Spec
CONSTANTS
  Viewer = {v1, v2}
  TooLong = {}
  TwoLines = {}
  MaxFaults = 0
INVARIANT ShownWithoutRefresh
CHECK_DEADLOCK FALSE
