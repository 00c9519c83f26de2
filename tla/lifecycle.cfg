\* Both kinds of waiting side by side, honest clients, one crash, no sweeper.
SPECIFICATION Spec
CONSTANTS
  g = g
  e = e
  h = h
  p = p
  Runs = {g, e}
  Mode <- MCMode
  MaxGated = 2
  GatedCalls <- MCGatedCalls
  Sweeper = FALSE
  TimeoutAction = "reject"
  AnyApprovalId = FALSE
  AnyReplaySource = FALSE
  MaxCrashes = 1
INVARIANTS IInv GatedToolApproved AnnouncedMatchesRow RunningHasTask GraphRunMadeItsCalls
PROPERTIES DecisionIsFinal ToolsOnlyWhileRunning SuspendedFailsOnlyRejected ImplementsRunStatus
\* Every run may end, and clients owe no further request.
CHECK_DEADLOCK FALSE
