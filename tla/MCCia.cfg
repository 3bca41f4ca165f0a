SPECIFICATION Spec
CONSTANTS
  Width = 4
  LoSize = 2
  Gap = 1
  MaxIdle = 3
  Programs <- ExactPrograms
INVARIANTS TypeOK OncePerCycle TimersExact ReadsExact LineExact AlarmIsFirstUnderflow
