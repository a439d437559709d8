\* No sweep, no failing call: the handlers alone release the job (and then stop).
CONSTANTS
  Jobs = {j1}
  Targets = {t1, t2}
  Cancels = {c1, c2}
  Faults = {"api_restart", "request"}
  SweepEnabled = FALSE
  MaxRestarts = 1
SPECIFICATION Spec
INVARIANTS ReleasedWhenQuiet SecretsOnTmpfs
PROPERTIES FollowsLifecycle
CHECK_DEADLOCK FALSE
