\* A run and its replay; failed commits and tools and edits share the bound MaxFaults.
\* Runs end, and nothing is left to do: CHECK_DEADLOCK FALSE.
SPECIFICATION Spec
CONSTANTS
  r1 = r1
  r2 = r2
  readme = readme
  doc = doc
  None = None
  LiveRuns = {r1}
  ReplayRuns = {r2}
  PreviewLength = 2
  MaxFaults = 1
  Configs <- MCConfigs
  MaxPieces = 2
  Attempts = 3
  MaxTries = 3
  Paths = {readme, doc}
  Readme = readme
  Words <- MCWords
  Texts <- MCTexts
  Content <- MCContent
  Requests <- MCRequests
  Replayings <- MCReplayings
  Hits <- MCHits
INVARIANTS TypeOK OutputRecorded ToolOutcomeRecorded UsagePerCall ReplayFaithful MissExplained
CHECK_DEADLOCK FALSE
