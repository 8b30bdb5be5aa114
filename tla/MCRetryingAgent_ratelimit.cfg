SPECIFICATION FairAgentSpec
CONSTANTS
  First = "first"
  Second = "second"
  Calls = {"first", "second", "download"}
  RetryOn = {"rate_limited"}
  Method <- MCMethod
  Downloads = {"download"}
  Hosts = {gitlab, cdn}
  Origin = gitlab
  Headers <- MCHeaders
  MaxRetries = 1
  MaxNetworkRetries = 1
  BaseDelay = 1
  MaxDelay = 2
  MaxRedirects = 2
  PoolSize = 1
INVARIANTS OneEffect TokenStaysHome
PROPERTY EveryCallEnds
\* The agent stops after its second call.
CHECK_DEADLOCK FALSE
