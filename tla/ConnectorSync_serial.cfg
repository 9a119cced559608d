SPECIFICATION FairSpec
CONSTANTS
  Ext = {"x1", "x2"}
  Content = {"a", "b"}
  Run = {"r1"}
  MaxChanges = 2
  MaxFaults = 1
  Absent = Absent
  NoExt = NoExt
INVARIANTS RunsAreBooked
PROPERTIES CatchesUp
