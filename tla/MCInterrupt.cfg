SPECIFICATION MCSpec
CONSTANTS
  Source = {s1, s2}
  NoSnapshot = NoSnapshot
  MaxTraps = 3
  NestingTraps = {0}
  Raised = {"RESET", "MONITOR"}
  SnapshotPoints = {"trapfn", "run"}
  MaxSavedLines = 1
  Restores = {s1, s2}
  Pullers = {}
INVARIANTS TypeOK CountsAgree IrqVisible FailedLoadResets NmiKept
           TrapsInOrder TrapFlagged
PROPERTY TrapsServed
