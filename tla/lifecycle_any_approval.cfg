\* A graph run and an executor run whose clients may name any approval.
SPECIFICATION Spec
CONSTANTS
  g = g
  e = e
  h = h
  p = p
  Runs = {g, e}
  Mode <- MCMode
  MaxGated = 3
  GatedCalls <- ThreeGatedCalls
  Sweeper = FALSE
  TimeoutAction = "reject"
  AnyApprovalId = TRUE
  AnyReplaySource = TRUE
  MaxCrashes = 0
INVARIANT OneOpenApproval
PROPERTY DecisionIsFinal
\* Every run may end, and clients owe no further request.
CHECK_DEADLOCK FALSE
