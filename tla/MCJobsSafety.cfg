\* Every fault at once: the invariants that need no help, and the inductive one.
CONSTANTS
  Jobs = {j1}
  Targets = {t1}
  Cancels = {c1, c2}
  Faults = {"client_timeout", "connect", "docker", "inspect", "manager_restart", "api_restart", "request"}
  SweepEnabled = TRUE
  MaxRestarts = 1
SPECIFICATION Spec
SYMMETRY Symmetry
INVARIANTS TypeOK CancelStops EndedIsUnstaged

