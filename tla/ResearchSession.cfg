SPECIFICATION FairSpec
CONSTANTS
  Sessions = {s1}
  theKey = theKey
  Keys <- OneKey
  KeyOf <- SameKey
  theSession = s1
  Cancels = {c1, c2}
  CancelOf <- AllForOne
  MaxCrashes = 2
  MaxFaults = 2
INVARIANTS TypeOK SnapshotAgrees CompletedJobSettles CompletedIsAudited
PROPERTIES CancelledNeverStarts FinishedJobIsOver CreatedSessionEnds
\* When every session has its outcome nothing is left to do.
CHECK_DEADLOCK FALSE
