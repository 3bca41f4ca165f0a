SPECIFICATION Spec
CONSTANTS
  Width = 4
  LoSize = 2
  Gap = 4
  MaxIdle = 6
  Programs <- StopPrograms
INVARIANTS CountsWhatItShould
