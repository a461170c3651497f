SPECIFICATION Spec
CONSTANTS
  Sessions = {x1, x2}
  Ids = {i1, i2}
  Cancels <- MCCancels
  Minted = {{i1, i2}}
  MaxDisturbances = 2
  None = None
  Searchers = {s1, s2}
  Queries = {q1, q2}
  Ttl = 2
  Cap = 1
  MaxIngests = 1
  NoQuery = NoQuery
  Requests = {r1, r2}
  Capacity = 2
  Cost = 2
  ExpireTicks = 4
  MaxTime = 4
  NoBucket = NoBucket
  NotAsked = NotAsked
  Processes = {p1, p2}
  Documents = {d1}
  Terms = {"t1", "t2"}
  Texts <- MCTexts
  Registrants = {u1, u2, u3}
  Mailboxes = {m1, m2}
  Spellings = {Lower, Upper}
  Lower = Lower
  NoAddress = NoAddress
  Alternatives <- MCAlternatives
  Criteria <- MCCriteria
  Weights <- MCWeights
  Scores <- MCScores
  NoJudgment = NoJudgment
  NoDecision = NoDecision
  Chains = {c1, c2}
  Loads = {l1, l2}
  MaxMounts = 2
  MaxErrors = 2
  MaxMoves = 3
INVARIANTS
  OnlyCollisionsAbort
  RowsMatchSnapshot
  AdmissionsBounded
  DocFreqExact
  IndexedIsStored
  EveryAccountReachable
  DominatedNeverRecommended
  StableBetweenSwings
PROPERTIES
  EveryWriteEnds
  CacheReturnsToCap
  CacheCatchesUp
  RefusedOnlyBriefly
  PagesCatchUp
  PollingStopsAfterRun
CHECK_DEADLOCK FALSE
