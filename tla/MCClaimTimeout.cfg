\* The API gives up after 30 s; the manager goes on starting the runner.
CONSTANTS
  Jobs = {j1}
  Targets = {}
  Cancels = {c1}
  Faults = {"client_timeout"}
  SweepEnabled = TRUE
  MaxRestarts = 0
SPECIFICATION FairSpec

PROPERTIES RunnersExitWithTheJob

