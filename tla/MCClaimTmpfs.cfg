\* No fault: a sweep removes the volume of a job that starts.
CONSTANTS
  Jobs = {j1}
  Targets = {}
  Cancels = {c1}
  Faults = {}
  SweepEnabled = TRUE
  MaxRestarts = 0
SPECIFICATION Spec

INVARIANTS SecretsOnTmpfs

