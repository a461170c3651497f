\* One process after another, each under the application's lifespan or bare.
SPECIFICATION FairSpec
CONSTANTS
  Jobs = {j1, j2}
  Concurrency = 1
  Copies = 2
  Harness = FALSE
  MaxBoots = 3
  MaxFaults = 2
  Lifespan = Lifespan
  NoOne = NoOne
  STOP = STOP
INVARIANTS TypeOK BoundedConcurrency NoLostJob SingleCarrier OneAttemptPerBoot
PROPERTIES ImplementsLifecycle EveryJobEnds StopReturns
\* After the last boot (MaxBoots) all jobs may be done and nothing is left to do.
CHECK_DEADLOCK FALSE
