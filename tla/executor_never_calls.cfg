\* A run that waited in its executor COMPLETES without the approved call.
SPECIFICATION Spec
CONSTANTS
  g = g
  e = e
  h = h
  p = p
  Runs = {g, e}
  Mode <- MCMode
  MaxGated = 1
  GatedCalls <- OneGatedCall
  Sweeper = FALSE
  TimeoutAction = "reject"
  AnyApprovalId = FALSE
  AnyReplaySource = FALSE
  MaxCrashes = 0
INVARIANT ApprovedCallIsMade
\* Every run may end, and clients owe no further request.
CHECK_DEADLOCK FALSE
