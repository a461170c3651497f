SPECIFICATION Spec
CONSTANTS
  Questions = {q1}
  MaxResults = 1
  ThinThreshold = 1
  MaxCycles = 2
  RecursionLimit = 100
  None = None
INVARIANT ReverifiedClaimsPass
\* A run that has ended takes no further step.
CHECK_DEADLOCK FALSE
