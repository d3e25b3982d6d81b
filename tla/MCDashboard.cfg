CONSTANTS
  Repos = {r1}
  Threads = {t1}
  MaxFaults = 1
  MaxRestarts = 1
  MaxLosses = 1
SPECIFICATION Spec
INVARIANTS
  RefusedLeavesNothing
  ForgottenIsGone
PROPERTIES
  KeepsPromise
  OldReadingGoes
