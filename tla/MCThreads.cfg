SPECIFICATION ThreadsSpec
CONSTANTS
  MaxDepth = 2
  Spurious = TRUE
  Quits = {"ui", "vice"}
  MaxCalls = 2
  MaxLoops = 2
  MaxTraps = 1
  Buffers = {b1, b2}
  NoBuffer = NoBuffer
  MaxFrame = 5
  MaxJobs = 3
INVARIANTS Exclusive NoLostWakeup ThreadsTypeOK PauseHolds CallbacksInOrder OneOwner FramesHaveJobs
PROPERTIES WaitingUiServed YieldingViceResumes ShutdownEnds CallbacksServed Resumes FramesInOrder
\* The program ends.
CHECK_DEADLOCK FALSE
