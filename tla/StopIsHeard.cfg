\* The runner driven by hand, as backend/tests/test_job_runner.py drives it.
SPECIFICATION FairSpec
CONSTANTS
  Jobs = {j1, j2}
  Concurrency = 1
  Copies = 2
  Harness = TRUE
  MaxBoots = 2
  MaxFaults = 1
  Lifespan = Lifespan
  NoOne = NoOne
  STOP = STOP
PROPERTY StopReturns
CHECK_DEADLOCK FALSE
