SPECIFICATION MCSpec
CONSTANTS
  Modes <- OneArmEach
  Concurrency = 2
  MaxErrors = 1
  Retries = 1
  MaxBurst = 1
  MaxTurns = 3
  MaxFaults = 1
INVARIANT OneStepAfterStop
