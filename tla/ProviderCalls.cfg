SPECIFICATION FairSpec
CONSTANTS
  Callers = {c1, c2, c3}
  Threshold = 4
  ResetTicks = 2
  MaxAttempts = 2
  MaxRounds = 2
INVARIANTS TypeOK StragglersBounded AnsweredIsNotRejected
PROPERTIES RejectionsCease EveryCallReturns
