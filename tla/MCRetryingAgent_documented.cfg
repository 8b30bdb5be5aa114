SPECIFICATION AgentSpec
CONSTANTS
  First = "first"
  Second = "second"
  Calls = {"first", "second"}
  RetryOn = {"rate_limited", "server_error", "unavailable"}
  Method <- MCMethod
  Downloads = {}
  Hosts = {gitlab}
  Origin = gitlab
  Headers <- MCHeaders
  MaxRetries = 1
  MaxNetworkRetries = 1
  BaseDelay = 1
  MaxDelay = 2
  MaxRedirects = 1
  PoolSize = 2
INVARIANT OneEffect
\* The agent stops after its second call.
CHECK_DEADLOCK FALSE
