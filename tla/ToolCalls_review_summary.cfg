SPECIFICATION CallsSpec
CONSTANTS
  Retries = 1
  Changes = 2
  DeclaredActions = 3
INVARIANT SummaryHintIsTrue
\* The one call ends; nothing follows.
CHECK_DEADLOCK FALSE
