\* Two jobs and the edits, failures and restarts of MaxMishaps; two processes that
\* append three runs to a conversation.  Both end: CHECK_DEADLOCK FALSE.
SPECIFICATION Spec
CONSTANTS
  p1 = p1
  p2 = p2
  None = None
  Nobody = Nobody
  Jobs = {j1, j2}
  WithinCall = {j2}
  Workspaces = {w}
  Listing <- MCListing
  Directory = dir
  PathLists <- MCPathLists
  Texts <- MCTexts
  Contents <- MCContents
  Size = 3
  Overlap = 1
  BatchSize = 2
  MaxMishaps = 2
  Processes = {a, b}
  MaxSpeakers = 3
  Limit = 4
  Threshold = 3
  MaxFacts = 3
  Lengths <- MCLengths
  MaxBroken = 1
INVARIANTS TypeOK CompletedIsIndexed LastReaderWins TurnsKept
PROPERTIES JobsEnd
CHECK_DEADLOCK FALSE
