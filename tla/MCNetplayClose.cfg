SPECIFICATION Spec
CONSTANTS
  Event = {key}
  Control <- ControlDef
  Delta = 2
  Failures = {}
  Breaks = FALSE
  MaxFrames = 2
  MaxEvents = 1
  MaxSuspend = 1
  MaxSessions = 1
INVARIANT NoDoubleClose
\* The bounds stop the machines; a process that has failed stops.
CHECK_DEADLOCK FALSE
