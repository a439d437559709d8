\* Every fault, no mode A target: ended jobs are released in the end.
CONSTANTS
  Jobs = {j1}
  Targets = {}
  Cancels = {c1}
  Faults = {"client_timeout", "connect", "docker", "inspect", "manager_restart", "api_restart", "request"}
  SweepEnabled = TRUE
  MaxRestarts = 1
SPECIFICATION BusySpec

PROPERTIES EndedIsReleased RunningEnds

