\* An executor run and a plugin's run under HITL_TIMEOUT_ACTION=approve.
SPECIFICATION FairSpec
CONSTANTS
  g = g
  e = e
  h = h
  p = p
  Runs = {e, p}
  Mode <- MCMode
  MaxGated = 1
  GatedCalls <- OneGatedCall
  Sweeper = FALSE
  TimeoutAction = "approve"
  AnyApprovalId = FALSE
  AnyReplaySource = FALSE
  MaxCrashes = 0
INVARIANT SuspendedIsAnswerable
PROPERTIES SuspensionEnds TaskEnds
\* Every run may end, and clients owe no further request.
CHECK_DEADLOCK FALSE
