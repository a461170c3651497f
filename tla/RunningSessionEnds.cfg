SPECIFICATION FairSpec
CONSTANTS
  Sessions = {s1}
  theKey = theKey
  Keys <- OneKey
  KeyOf <- SameKey
  theSession = s1
  Cancels = {c1}
  CancelOf <- AllForOne
  MaxCrashes = 0
  MaxFaults = 1
PROPERTY RunningSessionEnds
\* When every session has its outcome nothing is left to do.
CHECK_DEADLOCK FALSE
