\* Two questions with at most one result each; a first pass and one retry.
SPECIFICATION FairSpec
CONSTANTS
  Questions = {q1, q2}
  MaxResults = 1
  ThinThreshold = 2
  MaxCycles = 2
  RecursionLimit = 100
  None = None
INVARIANTS TypeOK HonestReport WithinLimits WrittenFromLatestVerdicts
PROPERTIES ImplementsLoop EveryRunEnds
\* A run that has ended takes no further step.
CHECK_DEADLOCK FALSE
