SPECIFICATION Spec
CONSTANTS
  Source = {}
  NoSnapshot = NoSnapshot
  MaxTraps = 4
  NestingTraps = {0, 1}
  Raised = {"RESET"}
  SnapshotPoints = {"trapfn"}
  MaxSavedLines = 0
  Restores = {}
  Pullers = {}
INVARIANTS TrapsInOrder
