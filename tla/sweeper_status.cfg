\* The sweeper's stale write leaves a terminal status.
SPECIFICATION Spec
CONSTANTS
  g = g
  e = e
  h = h
  p = p
  Runs = {g}
  Mode <- MCMode
  MaxGated = 1
  GatedCalls <- OneGatedCall
  Sweeper = TRUE
  TimeoutAction = "reject"
  AnyApprovalId = FALSE
  AnyReplaySource = FALSE
  MaxCrashes = 0
PROPERTY ImplementsRunStatus
\* Every run may end, and clients owe no further request.
CHECK_DEADLOCK FALSE
