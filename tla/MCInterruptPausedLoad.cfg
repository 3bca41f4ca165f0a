SPECIFICATION Spec
CONSTANTS
  Source = {}
  NoSnapshot = NoSnapshot
  MaxTraps = 1
  NestingTraps = {}
  Raised = {}
  SnapshotPoints = {"run"}
  MaxSavedLines = 0
  Restores = {}
  Pullers = {}
INVARIANTS TrapNextCycle
