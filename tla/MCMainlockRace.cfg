SPECIFICATION Spec
CONSTANTS
  MaxDepth = 2
  Spurious = FALSE
  Quits = {"ui", "vice"}
INVARIANTS ExitNeverReturns
\* The program ends.
CHECK_DEADLOCK FALSE
