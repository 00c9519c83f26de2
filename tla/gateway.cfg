\* Up to MaxInputs requests, payments, restarts and ticks of the clock; then the system
\* may rest: CHECK_DEADLOCK FALSE.
SPECIFICATION Spec
CONSTANTS
  o1 = o1
  o2 = o2
  id1 = id1
  id2 = id2
  q1 = q1
  q2 = q2
  q3 = q3
  v1 = v1
  v2 = v2
  None = None
  Orgs = {o1, o2}
  Principals = {o1, o2}
  Founders = {o1}
  Visits = {v1, v2}
  Requests = {q1, q2}
  Ids = {id1, id2}
  HomeId <- MCHomeId
  TierLimit <- MCTierLimit
  PerWindow = 1
  RuntimeLimit = 1
  Windows = {0, 1}
  Months = {0, 1}
  MaxTokens = 1
  MaxInputs = 12
  MaxOutbox = 3
SYMMETRY Interchangeable
INVARIANTS TypeOK UsageWithinQuota BookedOnItsOrg OnlyOwnRuns RatesHonoured TierAsPaid
CHECK_DEADLOCK FALSE
