SPECIFICATION FairSpec
CONSTANTS
  Event = {key}
  Control <- ControlDef
  Delta = 2
  Failures = {"save", "load"}
  Breaks = TRUE
  MaxFrames = 3
  MaxEvents = 1
  MaxSuspend = 1
  MaxSessions = 2
INVARIANTS TypeOK Lockstep BoundedSkew
PROPERTY WaitEnds
\* The bounds stop the machines; a process that has failed stops.
CHECK_DEADLOCK FALSE
