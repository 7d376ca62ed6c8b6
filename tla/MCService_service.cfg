\* The snapshots, the events and the turns of one task.
SPECIFICATION ServiceSpec
CONSTANTS
  Records = {r1}
  Callers = {c1, c2}
  MaxVersion = 2
  MaxFaults = 1
  MaxWork = 3
  MaxItems = 1
  Window = 2
  Limit = 2
  MaxAttempts = 1
  MaxBreaks = 1
  MaxRestarts = 1
  MaxChanges = 2
  MaxRecoveries = 1
  MaxRepairs = 1
  MaxContinues = 1
\* Every part comes to an end.
CHECK_DEADLOCK FALSE
INVARIANTS PartsInv NothingPassedOver PageIsFaithful CompletionIsVerified
PROPERTIES RowsMoveForward KeepsPromise VerdictComes
