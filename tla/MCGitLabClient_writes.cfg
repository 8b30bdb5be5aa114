SPECIFICATION Spec
CONSTANTS
  Calls <- WriterCalls
  Downloads = {}
  MaxRetries = 2
  MaxNetworkRetries = 1
  MaxRedirects = 1
  PoolSize = 1
CONSTANTS
  Method <- MCMethod
  Hosts = {gitlab, cdn}
  Origin = gitlab
  Headers <- MCHeaders
  BaseDelay = 1
  MaxDelay = 2
INVARIANTS TypeOK PostAtMostOnce EffortBounded PoolAccounting
PROPERTY KeepsContract
\* The calls of the instance end; nothing follows.
CHECK_DEADLOCK FALSE
