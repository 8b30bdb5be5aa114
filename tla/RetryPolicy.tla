---------------------------- MODULE RetryPolicy ----------------------------
(***************************************************************************)
(* The retry decisions of gitlab/retry.py: when a failed attempt of an     *)
(* outbound GitLab call is repeated, and how long the client sleeps first. *)
(* An operator that returns `float | None` in the code is here the SET of  *)
(* delays the jitter can produce; the empty set is None, "give up".  Time  *)
(* is counted in whole units of the model, not in seconds.                 *)
(***************************************************************************)
EXTENDS Integers

CONSTANTS
  MaxRetries,         \* GITLAB_MAX_RETRIES: budget for 429 and 5xx answers
  MaxNetworkRetries,  \* budget for transport errors
  BaseDelay,          \* first backoff ceiling
  MaxDelay            \* longest sleep the policy accepts

ASSUME RetryAssumption ==
  /\ MaxRetries \in Nat
  /\ MaxNetworkRetries \in Nat
  /\ BaseDelay \in Nat
  /\ MaxDelay \in Nat

IdempotentMethods == {"GET", "HEAD", "OPTIONS", "PUT", "DELETE"}

\* httpx errors that prove the request never left this process.
NeverSent == {"connect_error", "connect_timeout", "pool_timeout"}

\* An error raised once the request may be on the wire.
AfterSend == {"read_error"}

TransportErrors == NeverSent \cup AfterSend

NoHint == -1

\* What a 429 or 5xx answer says about the wait.  A header is absent, a
\* number (for Retry-After digits, so never negative; for RateLimit-Reset its
\* distance from now), an HTTP date (its distance from now) or unusable text.
HeaderValue == [kind : {"absent", "seconds", "date", "unusable"}, wait : Int]

NotNegative(n) == IF n < 0 THEN 0 ELSE n

\* retry_after_seconds: Retry-After first, in either of its forms, and
\* RateLimit-Reset only when Retry-After is missing or unusable.
RetryAfterSeconds(retryAfter, reset) ==
  CASE retryAfter.kind = "seconds" -> retryAfter.wait
    [] retryAfter.kind = "date" -> NotNegative(retryAfter.wait)
    [] reset.kind = "seconds" /\ retryAfter.kind \notin {"seconds", "date"}
         -> NotNegative(reset.wait)
    [] OTHER -> NoHint

\* Full jitter: anything from nothing up to the capped exponential ceiling.
Backoffs(retryNumber) ==
  {d \in 0..MaxDelay : d <= BaseDelay * 2^(retryNumber - 1)}

\* A wrong version: a 5xx is repeated whatever the method.
RetryableStatusAnyMethod(method, status) ==
  status \in {"rate_limited", "server_error"}

RetryableStatus(method, status) ==
  \/ status = "rate_limited"
  \/ status = "server_error" /\ method \in IdempotentMethods

\* Wrong versions: one retry too many; a hint slept through however long;
\* a broken connection retried although the request may have gone out.
StatusDelaysOneMore(method, status, hint, retriesSoFar) ==
  IF retriesSoFar > MaxRetries \/ ~RetryableStatus(method, status)
  THEN {} ELSE Backoffs(retriesSoFar + 1)

StatusDelaysObeyHint(method, status, hint, retriesSoFar) ==
  IF retriesSoFar >= MaxRetries \/ ~RetryableStatus(method, status)
  THEN {} ELSE IF hint = NoHint THEN Backoffs(retriesSoFar + 1) ELSE {hint}

TransportDelaysAnyMethod(method, error, retriesSoFar) ==
  IF retriesSoFar >= MaxNetworkRetries THEN {} ELSE Backoffs(retriesSoFar + 1)

\* delay_after_status.
StatusDelays(method, status, hint, retriesSoFar) ==
  IF retriesSoFar >= MaxRetries \/ ~RetryableStatus(method, status)
  THEN {}
  ELSE IF hint = NoHint THEN Backoffs(retriesSoFar + 1)
                        ELSE {hint} \cap 0..MaxDelay

\* delay_after_transport_error.
TransportDelays(method, error, retriesSoFar) ==
  IF \/ retriesSoFar >= MaxNetworkRetries
     \/ error \notin NeverSent /\ method \notin IdempotentMethods
  THEN {}
  ELSE Backoffs(retriesSoFar + 1)

=============================================================================
