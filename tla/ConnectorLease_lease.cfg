SPECIFICATION FairSpec
CONSTANTS
  Instance = {"p", "q"}
  OwnerId = {"P", "Q"}
  Run = {"p1", "p2", "q1"}
  InstanceOf <- MCInstanceOf
  OwnerOf <- MCOwnerOf
  Duration = 4
  MinBeat = 1
  MaxFaults = 4
  NoOwner = NoOwner
INVARIANTS OneUnlessExcused LapseNeedsFault
PROPERTIES WorkGoesOn
