\* A timed-out executor approval leaves its run SUSPENDED for good.
SPECIFICATION Spec
CONSTANTS
  g = g
  e = e
  h = h
  p = p
  Runs = {g, e}
  Mode <- MCMode
  MaxGated = 1
  GatedCalls <- OneGatedCall
  Sweeper = FALSE
  TimeoutAction = "reject"
  AnyApprovalId = FALSE
  AnyReplaySource = FALSE
  MaxCrashes = 0
INVARIANT SuspendedIsAnswerable
\* Every run may end, and clients owe no further request.
CHECK_DEADLOCK FALSE
