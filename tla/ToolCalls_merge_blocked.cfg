SPECIFICATION CallsSpec
CONSTANTS
  Retries = 1
  Changes = 2
  DeclaredActions = 3
INVARIANT BlockedNeedsAction
\* The one call ends; nothing follows.
CHECK_DEADLOCK FALSE
