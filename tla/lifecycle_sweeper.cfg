\* A graph run with two gated calls and a plugin's run against the sweeper's thread.
SPECIFICATION FairSpec
CONSTANTS
  g = g
  e = e
  h = h
  p = p
  Runs = {g, p}
  Mode <- MCMode
  MaxGated = 2
  GatedCalls <- MCGatedCalls
  Sweeper = TRUE
  TimeoutAction = "reject"
  AnyApprovalId = FALSE
  AnyReplaySource = TRUE
  MaxCrashes = 0
INVARIANTS TypeOK ApprovedCallIsMade
PROPERTY SuspensionEnds
\* Every run may end, and clients owe no further request.
CHECK_DEADLOCK FALSE
