SPECIFICATION Spec
CONSTANTS
  Alarm = {a1, a2, a3, a4}
  NoAlarm = NoAlarm
  MaxPending = 3
  ClockMax = 3
  MaxCycles = 1
  ResetClk = 1
SYMMETRY Symmetry
INVARIANTS TypeOK IndexesAgree NextIsEarliest
PROPERTY ImplementsAgenda
