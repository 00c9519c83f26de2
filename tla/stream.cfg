\* Two subscribers of one run, or one that comes back.
SPECIFICATION Spec
CONSTANTS
  s1 = s1
  s2 = s2
  Subscribers = {s1, s2}
  MaxChunks = 3
  MaxStreams = 2
INVARIANTS TypeOK SoleStreamIsComplete PromptStreamIsExact EndingMatchesRow
PROPERTIES RowFollowsTransitions StreamsEnd
\* Every run may end, and clients owe no further request.
CHECK_DEADLOCK FALSE
