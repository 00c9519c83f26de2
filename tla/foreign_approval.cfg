\* An approval of one run sets another run going.
SPECIFICATION Spec
CONSTANTS
  g = g
  e = e
  h = h
  p = p
  Runs = {g, h}
  Mode <- MCMode
  MaxGated = 1
  GatedCalls <- OneGatedCall
  Sweeper = FALSE
  TimeoutAction = "reject"
  AnyApprovalId = TRUE
  AnyReplaySource = FALSE
  MaxCrashes = 0
INVARIANT GatedToolApproved
\* Every run may end, and clients owe no further request.
CHECK_DEADLOCK FALSE
