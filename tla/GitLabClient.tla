---------------------------- MODULE GitLabClient ----------------------------
(***************************************************************************)
(* gitlab/client.py: concurrent calls of GitLabClient.request over one     *)
(* httpx connection pool, against a GitLab that answers, loses answers and *)
(* carries out requests the client has already given up on.                *)
(*                                                                         *)
(* A call runs through                                                     *)
(*   idle -> connect -> waiting -> reading -> sleeping -> connect ...      *)
(* and ends in "done" with an outcome.  "connect" and "waiting" are the    *)
(* await of `self._http.send`, "reading" is the body of `_send`'s try, and *)
(* "sleeping" is `self._sleep`.                                            *)
(***************************************************************************)
EXTENDS RetryPolicy, FiniteSets

CONSTANTS
  Calls,          \* calls of GitLabClient.request running in the process
  Method,         \* Method[c]: the HTTP method of call c
  Downloads,      \* calls made with follow_redirects (GitLabSession.get_bytes)
  Hosts,          \* hosts a redirect can point to
  Origin,         \* the host of gitlab_base_url
  MaxRedirects,   \* _MAX_REDIRECTS
  PoolSize,       \* connections httpx keeps open at most
  Headers         \* <<Retry-After, RateLimit-Reset>> pairs GitLab may send

Methods == {"GET", "POST", "PUT", "DELETE"}

ASSUME ClientAssumption ==
  /\ Method \in [Calls -> Methods]
  /\ Downloads \subseteq {c \in Calls : Method[c] = "GET"}
  /\ Origin \in Hosts
  /\ MaxRedirects \in Nat
  /\ PoolSize \in Nat \ {0}
  /\ IsFiniteSet(Calls)
  /\ Headers \subseteq HeaderValue \X HeaderValue
  /\ \A h \in Headers : h[1].kind = "seconds" => h[1].wait >= 0

VARIABLES
  pc,              \* where the call stands
  statusRetries,   \* status_retries of the call
  networkRetries,  \* network_retries of the call
  hop,             \* `hop` of _send
  host,            \* host the current request goes to
  bearer,          \* whether the current request carries the caller's token
  reply,           \* status and wait hint of the response in hand
  delay,           \* how long the current sleep lasts
  outcome,         \* how the call ended
  pool,            \* calls that hold a connection
  applied,         \* how often GitLab has carried the call out
  abandoned,       \* requests given up on that GitLab may still carry out
  attempts,        \* calls of _send so far (history)
  tokenSeenBy      \* hosts that have received a token (history)

control == <<pc, statusRetries, networkRetries, hop, host, bearer, reply,
             delay, outcome>>
vars == <<control, pool, applied, abandoned, attempts, tokenSeenBy>>

Statuses == {"success", "redirect", "bare_redirect", "client_error",
             "rate_limited", "server_error"}
Redirects == {"redirect", "bare_redirect"}   \* with and without a Location
Refusals == {"client_error", "rate_limited"} \cup Redirects

NoReply == [status |-> "none", hint |-> NoHint]

Outcomes == {"success", "malformed", "redirected", "client_error", "rate_limited",
             "server_error", "unavailable", "too_large", "cancelled"}

Writes == {c \in Calls : Method[c] # "GET"}
OnceOnly == {c \in Calls : Method[c] = "POST"}

Stages == {"idle", "connect", "waiting", "reading", "sleeping", "done"}
Active == {"connect", "waiting", "reading", "sleeping"}

Hints == {RetryAfterSeconds(h[1], h[2]) : h \in Headers}

\* How often carrying out the request once with this answer changes GitLab.
\* GitLab answers 429 before it does anything; a 5xx tells nothing.
EffectsOf(c, status) ==
  IF c \notin Writes \/ status \in Refusals THEN {0}
  ELSE IF status = "success" THEN {1}
  ELSE {0, 1}

Init ==
  /\ pc = [c \in Calls |-> "idle"]
  /\ statusRetries = [c \in Calls |-> 0]
  /\ networkRetries = [c \in Calls |-> 0]
  /\ hop = [c \in Calls |-> 0]
  /\ host = [c \in Calls |-> Origin]
  /\ bearer = [c \in Calls |-> TRUE]
  /\ reply = [c \in Calls |-> NoReply]
  /\ delay = [c \in Calls |-> 0]
  /\ outcome = [c \in Calls |-> "none"]
  /\ pool = {}
  /\ applied = [c \in Calls |-> 0]
  /\ abandoned = [c \in Calls |-> 0]
  /\ attempts = [c \in Calls |-> 0]
  /\ tokenSeenBy = {}

-----------------------------------------------------------------------------
(* Steps shared by several handlers.                                        *)

\* One pass of request()'s loop enters _send with the original request.
EnterSend(c) ==
  /\ pc' = [pc EXCEPT ![c] = "connect"]
  /\ hop' = [hop EXCEPT ![c] = 0]
  /\ host' = [host EXCEPT ![c] = Origin]
  /\ bearer' = [bearer EXCEPT ![c] = TRUE]
  /\ delay' = [delay EXCEPT ![c] = 0]
  /\ attempts' = [attempts EXCEPT ![c] = @ + 1]

Finish(c, o) ==
  /\ pc' = [pc EXCEPT ![c] = "done"]
  /\ outcome' = [outcome EXCEPT ![c] = o]
  /\ delay' = [delay EXCEPT ![c] = 0]

Sleep(c, d) ==
  /\ pc' = [pc EXCEPT ![c] = "sleeping"]
  /\ delay' = [delay EXCEPT ![c] = d]
  /\ UNCHANGED outcome

ForgetReply(c) == reply' = [reply EXCEPT ![c] = NoReply]

\* The client stops waiting for a request that GitLab may still carry out.
MayAbandon(c) ==
  \/ UNCHANGED abandoned
  \/ c \in Writes /\ abandoned' = [abandoned EXCEPT ![c] = @ + 1]

\* A wrong version: the response is left open.
ReleaseForgotten(c) == UNCHANGED pool

\* The finally of _send: response.aclose() gives the connection back.
Release(c) == pool' = pool \ {c}

\* The except branch of request(): GitLabUnavailableError, or one more try.
OnTransportError(c, error) ==
  LET delays == TransportDelays(Method[c], error, networkRetries[c])
  IN  /\ \/ /\ delays = {}
            /\ Finish(c, "unavailable")
            /\ UNCHANGED networkRetries
         \/ \E d \in delays :
              /\ networkRetries' = [networkRetries EXCEPT ![c] = @ + 1]
              /\ Sleep(c, d)
      /\ UNCHANGED <<statusRetries, hop, host, bearer>>

\* A wrong version: any answer counts as an accepted call.
ResultsUnchecked(c, status) == {"success"}

\* What the handler gets for a status that ends the call.  GitLabSession
\* parses every body but a download's, and refuses what is not JSON.
Results(c, status) ==
  IF status = "success" /\ c \notin Downloads THEN {"success", "malformed"}
  ELSE IF status \in Redirects THEN {"redirected"}
  ELSE {status}

\* request() on a response: a redirect and a final status end the call, a
\* status the policy accepts is retried.
OnResponse(c, r) ==
  LET delays == StatusDelays(Method[c], r.status, r.hint, statusRetries[c])
  IN  /\ \/ /\ delays = {}
            /\ \E o \in Results(c, r.status) : Finish(c, o)
            /\ UNCHANGED statusRetries
         \/ \E d \in delays :
              /\ statusRetries' = [statusRetries EXCEPT ![c] = @ + 1]
              /\ Sleep(c, d)
      /\ UNCHANGED <<networkRetries, hop, host, bearer>>

\* _send follows a redirect only for a download, and only so many times.
Follows(c) ==
  /\ c \in Downloads
  /\ reply[c].status = "redirect"
  /\ hop[c] < MaxRedirects

\* A wrong version: the redirect is answered like a first request.
CarriesTokenEverywhere(target) == TRUE

\* _redirected: the token goes to GitLab's own origin and nowhere else.
CarriesToken(target) == target = Origin

\* A wrong version: the hop is not counted.
AskUncounted(c, target) ==
  /\ host' = [host EXCEPT ![c] = target]
  /\ bearer' = [bearer EXCEPT ![c] = CarriesToken(target)]
  /\ UNCHANGED hop

Ask(c, target) ==
  /\ host' = [host EXCEPT ![c] = target]
  /\ bearer' = [bearer EXCEPT ![c] = CarriesToken(target)]
  /\ hop' = [hop EXCEPT ![c] = @ + 1]

-----------------------------------------------------------------------------
(* The client's steps.                                                      *)

\* A handler calls request().
Begin(c) ==
  /\ pc[c] = "idle"
  /\ EnterSend(c)
  /\ UNCHANGED <<statusRetries, networkRetries, reply, outcome, pool, applied,
                 abandoned, tokenSeenBy>>

\* A connection is free: the request goes out.
Send(c) ==
  /\ pc[c] = "connect"
  /\ Cardinality(pool) < PoolSize
  /\ pool' = pool \cup {c}
  /\ pc' = [pc EXCEPT ![c] = "waiting"]
  /\ tokenSeenBy' = IF bearer[c] THEN tokenSeenBy \cup {host[c]}
                                 ELSE tokenSeenBy
  /\ UNCHANGED <<statusRetries, networkRetries, hop, host, bearer, reply,
                 delay, outcome, applied, abandoned, attempts>>

\* No connection is made (or, on a full pool, none becomes free in time).
ConnectFails(c) ==
  /\ pc[c] = "connect"
  /\ \E error \in NeverSent :
       /\ error = "pool_timeout" => Cardinality(pool) = PoolSize
       /\ error # "pool_timeout" => Cardinality(pool) < PoolSize
       /\ OnTransportError(c, error)
  /\ UNCHANGED <<reply, pool, applied, abandoned, attempts, tokenSeenBy>>

\* The connection breaks or times out before the response headers.  GitLab
\* may never see the request, or carry it out at any later time.
AnswerLost(c) ==
  /\ pc[c] = "waiting"
  /\ \E error \in AfterSend : OnTransportError(c, error)
  /\ MayAbandon(c)
  /\ Release(c)
  /\ UNCHANGED <<reply, applied, attempts, tokenSeenBy>>

\* _send leaves the current response and asks the next host, having given
\* its connection back.
FollowRedirect(c) ==
  /\ pc[c] = "reading"
  /\ Follows(c)
  /\ \E target \in Hosts : Ask(c, target)
  /\ pc' = [pc EXCEPT ![c] = "connect"]
  /\ Release(c)
  /\ ForgetReply(c)
  /\ UNCHANGED <<statusRetries, networkRetries, delay, outcome, applied,
                 abandoned, attempts, tokenSeenBy>>

\* Content-Length, or the bytes read so far, exceed max_bytes.  The status
\* is not looked at and nothing is retried.
TooLarge(c) ==
  /\ pc[c] = "reading"
  /\ ~Follows(c)
  /\ Finish(c, "too_large")
  /\ Release(c)
  /\ ForgetReply(c)
  /\ UNCHANGED <<statusRetries, networkRetries, hop, host, bearer, applied,
                 abandoned, attempts, tokenSeenBy>>

\* The body breaks off.
BodyLost(c) ==
  /\ pc[c] = "reading"
  /\ ~Follows(c)
  /\ \E error \in AfterSend : OnTransportError(c, error)
  /\ Release(c)
  /\ ForgetReply(c)
  /\ UNCHANGED <<applied, abandoned, attempts, tokenSeenBy>>

\* The whole response is in.
BodyRead(c) ==
  /\ pc[c] = "reading"
  /\ ~Follows(c)
  /\ OnResponse(c, reply[c])
  /\ Release(c)
  /\ ForgetReply(c)
  /\ UNCHANGED <<applied, abandoned, attempts, tokenSeenBy>>

\* The sleep is over: `continue`, with the request as it was first built.
Retry(c) ==
  /\ pc[c] = "sleeping"
  /\ EnterSend(c)
  /\ UNCHANGED <<statusRetries, networkRetries, reply, outcome, pool, applied,
                 abandoned, tokenSeenBy>>

\* The MCP request is cancelled while the call awaits; _send's finally runs.
Cancel(c) ==
  /\ pc[c] \in Active
  /\ Finish(c, "cancelled")
  /\ Release(c)
  /\ ForgetReply(c)
  /\ IF pc[c] = "waiting" THEN MayAbandon(c) ELSE UNCHANGED abandoned
  /\ UNCHANGED <<statusRetries, networkRetries, hop, host, bearer, applied,
                 attempts, tokenSeenBy>>

-----------------------------------------------------------------------------
(* GitLab's steps.                                                          *)

\* GitLab processes the request and its response headers arrive.
Answer(c) ==
  /\ pc[c] = "waiting"
  /\ \E status \in Statuses, hint \in Hints \cup {NoHint} :
       /\ hint # NoHint => status \in {"rate_limited", "server_error"}
       /\ reply' = [reply EXCEPT ![c] = [status |-> status, hint |-> hint]]
       /\ \E n \in EffectsOf(c, status) :
            applied' = [applied EXCEPT ![c] = @ + n]
  /\ pc' = [pc EXCEPT ![c] = "reading"]
  /\ UNCHANGED <<statusRetries, networkRetries, hop, host, bearer, delay,
                 outcome, pool, abandoned, attempts, tokenSeenBy>>

\* A request nobody waits for any more is carried out after all, or dropped.
LateExecution(c) ==
  /\ c \in Writes /\ abandoned[c] > 0
  /\ abandoned' = [abandoned EXCEPT ![c] = @ - 1]
  /\ applied' \in {applied, [applied EXCEPT ![c] = @ + 1]}
  /\ UNCHANGED <<control, pool, attempts, tokenSeenBy>>

-----------------------------------------------------------------------------
\* A step the call, the network or GitLab owes an unfinished call.
Progress(c) ==
  \/ Send(c) \/ ConnectFails(c) \/ Answer(c) \/ AnswerLost(c)
  \/ FollowRedirect(c) \/ TooLarge(c) \/ BodyLost(c) \/ BodyRead(c) \/ Retry(c)

Next == \E c \in Calls :
          Begin(c) \/ Progress(c) \/ Cancel(c) \/ LateExecution(c)

Spec == Init /\ [][Next]_vars

\* httpx times out every connect, read and pool wait, and anyio.sleep ends.
FairSpec == Spec /\ \A c \in Calls : WF_vars(Progress(c))

-----------------------------------------------------------------------------
(* Properties.                                                              *)

\* The state is well formed, with every counter of request() within its budget.
TypeOK ==
  /\ pc \in [Calls -> Stages]
  /\ statusRetries \in [Calls -> 0..MaxRetries]
  /\ networkRetries \in [Calls -> 0..MaxNetworkRetries]
  /\ hop \in [Calls -> 0..MaxRedirects]
  /\ host \in [Calls -> Hosts]
  /\ bearer \in [Calls -> BOOLEAN]
  /\ reply \in [Calls -> [status : Statuses \cup {"none"}, hint : Int]]
  /\ delay \in [Calls -> Nat]
  /\ outcome \in [Calls -> Outcomes \cup {"none"}]
  /\ pool \subseteq Calls
  /\ applied \in [Calls -> Nat]
  /\ abandoned \in [Calls -> Nat]
  /\ attempts \in [Calls -> Nat]
  /\ tokenSeenBy \subseteq Hosts

\* A POST is carried out at most once, counting the attempts that were given
\* up and may still arrive, whatever mixture of lost connections, 429 and 5xx
\* the loop of request() went through (retry.py's module comment).
PostAtMostOnce ==
  \A c \in OnceOnly : applied[c] + abandoned[c] <= 1

\* A POST that ends with a 4xx, a 429 or a redirect has not taken effect and
\* never will: the caller may correct it, or repeat it, without a duplicate.
RefusalIsClean ==
  \A c \in OnceOnly :
    outcome[c] \in {"client_error", "rate_limited", "redirected"}
      => applied[c] = 0 /\ abandoned[c] = 0

\* A write the handler sees accepted has been carried out.
SuccessIsReal ==
  \A c \in Writes : outcome[c] \in {"success", "malformed"} => applied[c] > 0

\* The two budgets of request() never multiply: one first attempt, plus at
\* most one per status retry and one per network retry.
AttemptBound ==
  \A c \in Calls : attempts[c] <= 1 + MaxRetries + MaxNetworkRetries

\* However a chain of redirects winds through other hosts and back, and
\* whatever is retried in between, only GitLab's own origin sees a token.
TokenStaysHome == tokenSeenBy \subseteq {Origin}

\* A call holds a connection only while its request or its response is on it:
\* none while it sleeps, waits for the next hop, or has ended in any way.
PoolAccounting ==
  /\ pool = {c \in Calls : pc[c] \in {"waiting", "reading"}}
  /\ Cardinality(pool) <= PoolSize

\* No sleep is longer than the policy allows, whatever wait GitLab asks for.
SleepBounded == \A c \in Calls : delay[c] <= MaxDelay

\* What a call can cost: so many attempts, and no sleep beyond the policy's
\* maximum, however failures of both kinds and GitLab's hints are mixed.
EffortBounded == AttemptBound /\ SleepBounded

\* Every call that has begun ends: no chain of retries, redirects and waits
\* for a connection goes on for ever.
EveryCallEnds == \A c \in Calls : pc[c] \in Active ~> pc[c] = "done"

-----------------------------------------------------------------------------
(* The inductive invariant behind the properties above: what holds at each  *)
(* stage of the loop, not only at its end.                                  *)

\* A POST has had no effect, and cannot have one, while it is still to be
\* (re)sent; a response in hand tells what its own attempt did.
DeliveryInv ==
  \A c \in OnceOnly :
    /\ pc[c] \in {"idle", "connect", "waiting", "sleeping"}
         => applied[c] = 0 /\ abandoned[c] = 0
    /\ pc[c] = "reading"
         => abandoned[c] = 0 /\ applied[c] \in EffectsOf(c, reply[c].status)

\* A response that says a write was accepted is in hand only after it was.
AcceptedInv ==
  \A c \in Writes :
    pc[c] = "reading" /\ reply[c].status = "success" => applied[c] > 0

\* A call has an outcome exactly when it has ended, and a response exactly
\* while it reads one.
StageInv ==
  \A c \in Calls : /\ outcome[c] = "none" <=> pc[c] # "done"
                   /\ pc[c] = "reading" <=> reply[c].status # "none"

AttemptInv ==
  \A c \in Calls :
    attempts[c] <= statusRetries[c] + networkRetries[c]
                     + (IF pc[c] \in {"idle", "sleeping"} THEN 0 ELSE 1)

TokenInv ==
  /\ TokenStaysHome
  /\ \A c \in Calls : bearer[c] => host[c] = Origin

IInv ==
  /\ TypeOK
  /\ StageInv
  /\ DeliveryInv
  /\ AcceptedInv
  /\ PostAtMostOnce
  /\ RefusalIsClean
  /\ SuccessIsReal
  /\ AttemptInv
  /\ TokenInv
  /\ PoolAccounting
  /\ SleepBounded

-----------------------------------------------------------------------------
(* The client implements the contract its callers rely on.                  *)

VerdictOf(c) ==
  CASE outcome[c] = "none" -> "open"
    [] outcome[c] \in {"success", "malformed"} -> "done"
    [] outcome[c] \in {"client_error", "rate_limited", "redirected"} -> "refused"
    [] OTHER -> "unknown"

Contract == INSTANCE DeliveryContract
              WITH verdict <- [c \in Calls |-> VerdictOf(c)],
                   effects <- applied

\* Every behaviour of the retry loop is one of the delivery contract: a step
\* carries a call out, concludes it, or changes nothing its caller can see.
KeepsContract == Contract!Spec

=============================================================================
