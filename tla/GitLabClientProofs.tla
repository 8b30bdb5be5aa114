------------------------- MODULE GitLabClientProofs -------------------------
(***************************************************************************)
(* Proofs about GitLabClient, for any number of calls, any pool size and   *)
(* any retry budgets.                                                      *)
(***************************************************************************)
EXTENDS GitLabClient, HandlerAnswers, FiniteSetTheorems, TLAPS

USE RetryAssumption, ClientAssumption

-----------------------------------------------------------------------------
(* What the retry policy guarantees of every decision it takes.             *)

\* A delay the policy hands out is within MaxDelay, and it hands one out only
\* while the status budget lasts, for a 429 or an idempotent method.
LEMMA StatusDelaysSound ==
  ASSUME NEW m, NEW s, NEW hint, NEW k \in Nat,
         NEW d \in StatusDelays(m, s, hint, k)
  PROVE  /\ d \in 0..MaxDelay
         /\ k < MaxRetries
         /\ s = "rate_limited" \/ (s = "server_error" /\ m # "POST")
<1>1. k < MaxRetries
  BY DEF StatusDelays
<1>2. RetryableStatus(m, s)
  BY DEF StatusDelays
<1>3. d \in 0..MaxDelay
  BY DEF StatusDelays, Backoffs
<1>4. QED
  BY <1>1, <1>2, <1>3 DEF RetryableStatus, IdempotentMethods

\* The same for transport errors: a POST is retried only after an error that
\* proves it was never sent.
LEMMA TransportDelaysSound ==
  ASSUME NEW m, NEW error, NEW k \in Nat,
         NEW d \in TransportDelays(m, error, k)
  PROVE  /\ d \in 0..MaxDelay
         /\ k < MaxNetworkRetries
         /\ error \in NeverSent \/ m # "POST"
<1>1. k < MaxNetworkRetries
  BY DEF TransportDelays
<1>2. error \in NeverSent \/ m \in IdempotentMethods
  BY DEF TransportDelays
<1>3. d \in 0..MaxDelay
  BY DEF TransportDelays, Backoffs
<1>4. QED
  BY <1>1, <1>2, <1>3 DEF IdempotentMethods

-----------------------------------------------------------------------------
(* The steps several handlers share, as the cases a proof distinguishes.    *)

\* A transport error ends the call as "unavailable", or uses up one network
\* retry and sleeps; a POST sleeps only if its request was never sent.
LEMMA TransportErrorCases ==
  ASSUME TypeOK, NEW c \in Calls, NEW error, OnTransportError(c, error)
  PROVE  /\ UNCHANGED <<statusRetries, hop, host, bearer>>
         /\ \/ Finish(c, "unavailable") /\ UNCHANGED networkRetries
            \/ /\ networkRetries[c] < MaxNetworkRetries
               /\ error \in NeverSent \/ c \notin OnceOnly
               /\ networkRetries' = [networkRetries EXCEPT ![c] = @ + 1]
               /\ \E d \in 0..MaxDelay : Sleep(c, d)
<1> DEFINE delays == TransportDelays(Method[c], error, networkRetries[c])
<1>1. networkRetries[c] \in Nat
  BY DEF TypeOK
<1>2. ASSUME NEW d \in delays
      PROVE  /\ d \in 0..MaxDelay
             /\ networkRetries[c] < MaxNetworkRetries
             /\ error \in NeverSent \/ c \notin OnceOnly
  BY <1>1, TransportDelaysSound DEF OnceOnly
<1>3. QED
  BY <1>2 DEF OnTransportError

\* A response ends the call with one of its results, or uses up one status
\* retry and sleeps; a POST sleeps only after a 429.
LEMMA ResponseCases ==
  ASSUME TypeOK, NEW c \in Calls, NEW r, OnResponse(c, r)
  PROVE  /\ UNCHANGED <<networkRetries, hop, host, bearer>>
         /\ \/ /\ \E o \in Results(c, r.status) : Finish(c, o)
               /\ UNCHANGED statusRetries
            \/ /\ statusRetries[c] < MaxRetries
               /\ r.status = "rate_limited" \/ c \notin OnceOnly
               /\ statusRetries' = [statusRetries EXCEPT ![c] = @ + 1]
               /\ \E d \in 0..MaxDelay : Sleep(c, d)
<1> DEFINE delays == StatusDelays(Method[c], r.status, r.hint, statusRetries[c])
<1>1. statusRetries[c] \in Nat
  BY DEF TypeOK
<1>2. ASSUME NEW d \in delays
      PROVE  /\ d \in 0..MaxDelay
             /\ statusRetries[c] < MaxRetries
             /\ r.status = "rate_limited" \/ c \notin OnceOnly
  BY <1>1, StatusDelaysSound DEF OnceOnly
<1>3. QED
  BY <1>2 DEF OnResponse

-----------------------------------------------------------------------------
(* Type correctness.                                                        *)

LEMMA HintsType == Hints \cup {NoHint} \subseteq Int
BY DEF Hints, NoHint, RetryAfterSeconds, NotNegative, HeaderValue

LEMMA EnterSendType ==
  ASSUME TypeOK, NEW c \in Calls, EnterSend(c)
  PROVE  /\ pc' \in [Calls -> Stages]
         /\ hop' \in [Calls -> 0..MaxRedirects]
         /\ host' \in [Calls -> Hosts]
         /\ bearer' \in [Calls -> BOOLEAN]
         /\ delay' \in [Calls -> Nat]
         /\ attempts' \in [Calls -> Nat]
<1>1. hop' \in [Calls -> 0..MaxRedirects]
  BY DEF EnterSend, TypeOK
<1>2. bearer' \in [Calls -> BOOLEAN]
  BY DEF EnterSend, TypeOK
<1>3. QED
  BY <1>1, <1>2 DEF EnterSend, TypeOK, Stages

LEMMA FinishType ==
  ASSUME TypeOK, NEW c \in Calls, NEW o \in Outcomes, Finish(c, o)
  PROVE  /\ pc' \in [Calls -> Stages]
         /\ outcome' \in [Calls -> Outcomes \cup {"none"}]
         /\ delay' \in [Calls -> Nat]
BY DEF Finish, TypeOK, Stages

LEMMA SleepType ==
  ASSUME TypeOK, NEW c \in Calls, NEW d \in 0..MaxDelay, Sleep(c, d)
  PROVE  /\ pc' \in [Calls -> Stages]
         /\ outcome' \in [Calls -> Outcomes \cup {"none"}]
         /\ delay' \in [Calls -> Nat]
BY DEF Sleep, TypeOK, Stages

LEMMA TransportErrorType ==
  ASSUME TypeOK, NEW c \in Calls, NEW error, OnTransportError(c, error)
  PROVE  /\ pc' \in [Calls -> Stages]
         /\ outcome' \in [Calls -> Outcomes \cup {"none"}]
         /\ delay' \in [Calls -> Nat]
         /\ networkRetries' \in [Calls -> 0..MaxNetworkRetries]
         /\ UNCHANGED <<statusRetries, hop, host, bearer>>
<1>1. CASE Finish(c, "unavailable") /\ UNCHANGED networkRetries
  BY <1>1, TransportErrorCases, FinishType DEF TypeOK, Outcomes
<1>2. ASSUME networkRetries[c] < MaxNetworkRetries,
             networkRetries' = [networkRetries EXCEPT ![c] = @ + 1],
             NEW d \in 0..MaxDelay, Sleep(c, d)
      PROVE  networkRetries' \in [Calls -> 0..MaxNetworkRetries]
  BY <1>2 DEF TypeOK
<1>3. QED
  BY <1>1, <1>2, TransportErrorCases, SleepType

LEMMA ResponseType ==
  ASSUME TypeOK, NEW c \in Calls, OnResponse(c, reply[c])
  PROVE  /\ pc' \in [Calls -> Stages]
         /\ outcome' \in [Calls -> Outcomes \cup {"none"}]
         /\ delay' \in [Calls -> Nat]
         /\ statusRetries' \in [Calls -> 0..MaxRetries]
         /\ UNCHANGED <<networkRetries, hop, host, bearer>>
<1>1. ASSUME NEW o \in Results(c, reply[c].status), Finish(c, o)
      PROVE  /\ pc' \in [Calls -> Stages]
             /\ outcome' \in [Calls -> Outcomes \cup {"none"}]
             /\ delay' \in [Calls -> Nat]
  <2>1. o \in Outcomes \cup {"none"}
    BY DEF TypeOK, Results, Statuses, Redirects, Outcomes
  <2>2. QED
    BY <1>1, <2>1 DEF Finish, TypeOK, Stages
<1>2. ASSUME statusRetries[c] < MaxRetries,
             statusRetries' = [statusRetries EXCEPT ![c] = @ + 1],
             NEW d \in 0..MaxDelay, Sleep(c, d)
      PROVE  statusRetries' \in [Calls -> 0..MaxRetries]
  BY <1>2 DEF TypeOK
<1>3. /\ UNCHANGED <<networkRetries, hop, host, bearer>>
      /\ \/ /\ \E o \in Results(c, reply[c].status) : Finish(c, o)
            /\ UNCHANGED statusRetries
         \/ /\ statusRetries[c] < MaxRetries
            /\ statusRetries' = [statusRetries EXCEPT ![c] = @ + 1]
            /\ \E d \in 0..MaxDelay : Sleep(c, d)
  BY ResponseCases
<1>4. statusRetries \in [Calls -> 0..MaxRetries]
  BY DEF TypeOK
<1>5. QED
  BY <1>1, <1>2, <1>3, <1>4, SleepType

LEMMA ForgetReplyType ==
  ASSUME TypeOK, NEW c \in Calls, ForgetReply(c)
  PROVE  reply' \in [Calls -> [status : Statuses \cup {"none"}, hint : Int]]
BY DEF ForgetReply, NoReply, NoHint, TypeOK

LEMMA TypeOKInit == Init => TypeOK
BY DEF Init, TypeOK, Stages, Outcomes, NoReply, NoHint

LEMMA TypeOKStep == TypeOK /\ [Next]_vars => TypeOK'
<1> SUFFICES ASSUME TypeOK, [Next]_vars PROVE TypeOK'
  OBVIOUS
<1>0. CASE UNCHANGED vars
  BY <1>0 DEF vars, control, TypeOK
<1> SUFFICES ASSUME NEW c \in Calls,
                    \/ Begin(c) \/ Progress(c) \/ Cancel(c) \/ LateExecution(c)
             PROVE  TypeOK'
  BY <1>0 DEF Next
<1>1. CASE Begin(c) \/ Retry(c)
  BY <1>1, EnterSendType DEF Begin, Retry, TypeOK
<1>2. CASE Send(c)
  <2>1. pc' \in [Calls -> Stages]
    BY <1>2 DEF Send, TypeOK, Stages
  <2>2. tokenSeenBy' \subseteq Hosts
    BY <1>2 DEF Send, TypeOK
  <2>3. QED
    BY <1>2, <2>1, <2>2 DEF Send, TypeOK
<1>3. CASE ConnectFails(c)
  <2>1. PICK error \in NeverSent : OnTransportError(c, error)
    BY <1>3 DEF ConnectFails
  <2>2. QED
    BY <1>3, <2>1, TransportErrorType DEF ConnectFails, TypeOK
<1>4. CASE AnswerLost(c)
  <2>1. PICK error \in AfterSend : OnTransportError(c, error)
    BY <1>4 DEF AnswerLost
  <2>2. abandoned' \in [Calls -> Nat]
    BY <1>4 DEF AnswerLost, MayAbandon, TypeOK
  <2>3. QED
    BY <1>4, <2>1, <2>2, TransportErrorType DEF AnswerLost, Release, TypeOK
<1>5. CASE FollowRedirect(c)
  <2>1. PICK target \in Hosts : Ask(c, target)
    BY <1>5 DEF FollowRedirect
  <2>2. hop[c] \in 0..MaxRedirects /\ hop[c] < MaxRedirects
    BY <1>5 DEF FollowRedirect, Follows, TypeOK
  <2>3. hop' \in [Calls -> 0..MaxRedirects]
    BY <2>1, <2>2 DEF Ask, TypeOK
  <2>4. host' \in [Calls -> Hosts] /\ bearer' \in [Calls -> BOOLEAN]
    BY <2>1 DEF Ask, CarriesToken, TypeOK
  <2>5. pc' \in [Calls -> Stages]
    BY <1>5 DEF FollowRedirect, TypeOK, Stages
  <2>6. QED
    BY <1>5, <2>3, <2>4, <2>5, ForgetReplyType
       DEF FollowRedirect, Release, TypeOK
<1>6. CASE TooLarge(c)
  BY <1>6, FinishType, ForgetReplyType DEF TooLarge, Release, TypeOK, Outcomes
<1>7. CASE BodyLost(c)
  <2>1. PICK error \in AfterSend : OnTransportError(c, error)
    BY <1>7 DEF BodyLost
  <2>2. QED
    BY <1>7, <2>1, TransportErrorType, ForgetReplyType
       DEF BodyLost, Release, TypeOK
<1>8. CASE BodyRead(c)
  BY <1>8, ResponseType, ForgetReplyType DEF BodyRead, Release, TypeOK
<1>9. CASE Cancel(c)
  <2>1. abandoned' \in [Calls -> Nat]
    <3>1. MayAbandon(c) \/ UNCHANGED abandoned
      BY <1>9 DEF Cancel
    <3>2. QED
      BY <3>1 DEF MayAbandon, TypeOK
  <2>2. Finish(c, "cancelled") /\ "cancelled" \in Outcomes
    BY <1>9 DEF Cancel, Outcomes
  <2>3. QED
    BY <1>9, <2>1, <2>2, FinishType, ForgetReplyType DEF Cancel, Release, TypeOK
<1>10. CASE Answer(c)
  <2>1. PICK status \in Statuses, hint \in Hints \cup {NoHint} :
          /\ reply' = [reply EXCEPT ![c] = [status |-> status, hint |-> hint]]
          /\ \E n \in EffectsOf(c, status) :
               applied' = [applied EXCEPT ![c] = @ + n]
    BY <1>10 DEF Answer
  <2>2. reply' \in [Calls -> [status : Statuses \cup {"none"}, hint : Int]]
    BY <2>1, HintsType DEF TypeOK
  <2>3. applied' \in [Calls -> Nat]
    BY <2>1 DEF EffectsOf, TypeOK
  <2>4. QED
    BY <1>10, <2>2, <2>3 DEF Answer, TypeOK, Stages
<1>11. CASE LateExecution(c)
  BY <1>11 DEF LateExecution, control, TypeOK
<1>12. QED
  BY <1>1, <1>2, <1>3, <1>4, <1>5, <1>6, <1>7, <1>8, <1>9, <1>10, <1>11
     DEF Progress

\* Every variable keeps its type, and each counter of request() its budget.
THEOREM TypeCorrect == Spec => []TypeOK
BY TypeOKInit, TypeOKStep, PTL DEF Spec

-----------------------------------------------------------------------------
(* Delivery: what a call's stage says of its effects in GitLab.             *)

\* The delivery half of the inductive invariant, for one call.
CallInv(x) ==
  /\ outcome[x] = "none" <=> pc[x] # "done"
  /\ pc[x] = "reading" <=> reply[x].status # "none"
  /\ x \in OnceOnly =>
       /\ pc[x] \in {"idle", "connect", "waiting", "sleeping"}
            => applied[x] = 0 /\ abandoned[x] = 0
       /\ pc[x] = "reading"
            => abandoned[x] = 0 /\ applied[x] \in EffectsOf(x, reply[x].status)
       /\ applied[x] + abandoned[x] <= 1
       /\ outcome[x] \in {"client_error", "rate_limited", "redirected"}
            => applied[x] = 0 /\ abandoned[x] = 0
  /\ x \in Writes =>
       /\ pc[x] = "reading" /\ reply[x].status = "success" => applied[x] > 0
       /\ outcome[x] \in {"success", "malformed"} => applied[x] > 0

LEMMA CallInvIsInv ==
  (\A x \in Calls : CallInv(x))
    <=> /\ StageInv /\ DeliveryInv /\ AcceptedInv
        /\ PostAtMostOnce /\ RefusalIsClean /\ SuccessIsReal
<1>1. OnceOnly \subseteq Calls /\ Writes \subseteq Calls
  BY DEF OnceOnly, Writes
<1>2. QED
  BY <1>1 DEF CallInv, StageInv, DeliveryInv, AcceptedInv, PostAtMostOnce,
              RefusalIsClean, SuccessIsReal

\* What the invariant reads of a call.
SameCall(x) ==
  /\ pc'[x] = pc[x] /\ outcome'[x] = outcome[x] /\ reply'[x] = reply[x]
  /\ applied'[x] = applied[x] /\ abandoned'[x] = abandoned[x]

LEMMA SameCallInv ==
  ASSUME NEW x, CallInv(x), SameCall(x)
  PROVE  CallInv(x)'
BY DEF CallInv, SameCall, EffectsOf, OnceOnly, Writes

CallStep(c) == Begin(c) \/ Progress(c) \/ Cancel(c) \/ LateExecution(c)

\* A transport error, seen from the call it happens to.
LEMMA TransportErrorHere ==
  ASSUME TypeOK, NEW c \in Calls, NEW error, OnTransportError(c, error)
  PROVE  \/ pc'[c] = "done" /\ outcome'[c] = "unavailable"
         \/ /\ pc'[c] = "sleeping" /\ outcome'[c] = outcome[c]
            /\ error \in NeverSent \/ c \notin OnceOnly
BY TransportErrorCases DEF Finish, Sleep, TypeOK

\* A response, seen from the call that got it.
LEMMA ResponseHere ==
  ASSUME TypeOK, NEW c \in Calls, OnResponse(c, reply[c])
  PROVE  \/ pc'[c] = "done" /\ outcome'[c] \in Results(c, reply[c].status)
         \/ /\ pc'[c] = "sleeping" /\ outcome'[c] = outcome[c]
            /\ reply[c].status = "rate_limited" \/ c \notin OnceOnly
<1>1. \/ \E o \in Results(c, reply[c].status) : Finish(c, o)
      \/ /\ reply[c].status = "rate_limited" \/ c \notin OnceOnly
         /\ \E d \in 0..MaxDelay : Sleep(c, d)
  BY ResponseCases
<1>2. QED
  BY <1>1 DEF Finish, Sleep, TypeOK

\* A step of one call leaves every other call as it was.
LEMMA OthersUntouched ==
  ASSUME TypeOK, NEW c \in Calls, CallStep(c), NEW x \in Calls, x # c
  PROVE  SameCall(x)
<1> USE DEF TypeOK, SameCall
<1>1. CASE Begin(c) \/ Retry(c)
  BY <1>1 DEF Begin, Retry, EnterSend
<1>2. CASE Send(c)
  BY <1>2 DEF Send
<1>3. CASE ConnectFails(c)
  BY <1>3, TransportErrorCases DEF ConnectFails, Finish, Sleep
<1>4. CASE AnswerLost(c)
  BY <1>4, TransportErrorCases DEF AnswerLost, MayAbandon, Finish, Sleep
<1>5. CASE FollowRedirect(c)
  BY <1>5 DEF FollowRedirect, ForgetReply
<1>6. CASE TooLarge(c)
  BY <1>6 DEF TooLarge, Finish, ForgetReply
<1>7. CASE BodyLost(c)
  BY <1>7, TransportErrorCases DEF BodyLost, ForgetReply, Finish, Sleep
<1>8. CASE BodyRead(c)
  <2>1. (\E o : Finish(c, o)) \/ (\E d : Sleep(c, d))
    BY <1>8 DEF BodyRead, OnResponse
  <2>2. QED
    BY <1>8, <2>1 DEF BodyRead, ForgetReply, Finish, Sleep
<1>9. CASE Cancel(c)
  <2>1. MayAbandon(c) \/ UNCHANGED abandoned
    BY <1>9 DEF Cancel
  <2>2. QED
    BY <1>9, <2>1 DEF Cancel, MayAbandon, Finish, ForgetReply
<1>10. CASE Answer(c)
  BY <1>10 DEF Answer
<1>11. CASE LateExecution(c)
  BY <1>11 DEF LateExecution, control
<1>12. QED
  BY <1>1, <1>2, <1>3, <1>4, <1>5, <1>6, <1>7, <1>8, <1>9, <1>10, <1>11
     DEF CallStep, Progress

\* A step of a call keeps the call's own invariant.
LEMMA OwnStep ==
  ASSUME TypeOK, NEW c \in Calls, CallInv(c), CallStep(c)
  PROVE  CallInv(c)'
<1> USE DEF CallInv
<1>0. /\ applied[c] \in Nat /\ abandoned[c] \in Nat
      /\ pc[c] \in Stages
  BY DEF TypeOK
<1>1. CASE Begin(c) \/ Retry(c)
  <2>1. /\ pc[c] \in {"idle", "sleeping"} /\ pc'[c] = "connect"
        /\ UNCHANGED <<reply, outcome, applied, abandoned>>
    BY <1>1 DEF Begin, Retry, EnterSend, TypeOK
  <2>2. QED
    BY <2>1 DEF EffectsOf, OnceOnly, Writes
<1>2. CASE Send(c)
  <2>1. /\ pc[c] = "connect" /\ pc'[c] = "waiting"
        /\ UNCHANGED <<reply, outcome, applied, abandoned>>
    BY <1>2 DEF Send, TypeOK
  <2>2. QED
    BY <2>1 DEF EffectsOf, OnceOnly, Writes
<1>3. CASE ConnectFails(c)
  <2>1. /\ pc[c] = "connect"
        /\ UNCHANGED <<reply, applied, abandoned>>
        /\ \/ pc'[c] = "done" /\ outcome'[c] = "unavailable"
           \/ pc'[c] = "sleeping" /\ outcome'[c] = outcome[c]
    BY <1>3, TransportErrorHere DEF ConnectFails
  <2>2. QED
    BY <2>1 DEF EffectsOf, OnceOnly, Writes
<1>4. CASE AnswerLost(c)
  <2>1. PICK error \in AfterSend : OnTransportError(c, error)
    BY <1>4 DEF AnswerLost
  <2>2. error \notin NeverSent
    BY DEF AfterSend, NeverSent
  <2>3. \/ pc'[c] = "done" /\ outcome'[c] = "unavailable"
        \/ pc'[c] = "sleeping" /\ outcome'[c] = outcome[c] /\ c \notin OnceOnly
    BY <2>1, <2>2, TransportErrorHere
  <2>4. /\ pc[c] = "waiting" /\ UNCHANGED <<reply, applied>>
        /\ abandoned'[c] \in {abandoned[c], abandoned[c] + 1}
    BY <1>4 DEF AnswerLost, MayAbandon, TypeOK
  <2>5. QED
    BY <1>0, <2>3, <2>4 DEF EffectsOf, OnceOnly, Writes
<1>5. CASE FollowRedirect(c)
  <2>1. /\ c \notin OnceOnly /\ c \notin Writes
    BY <1>5 DEF FollowRedirect, Follows, OnceOnly, Writes
  <2>2. /\ pc[c] = "reading" /\ pc'[c] = "connect" /\ outcome'[c] = outcome[c]
        /\ reply'[c].status = "none"
    BY <1>5 DEF FollowRedirect, ForgetReply, NoReply, TypeOK
  <2>3. QED
    BY <2>1, <2>2 DEF OnceOnly, Writes
<1>6. CASE TooLarge(c)
  <2>1. /\ pc[c] = "reading" /\ pc'[c] = "done" /\ outcome'[c] = "too_large"
        /\ reply'[c].status = "none" /\ UNCHANGED <<applied, abandoned>>
    BY <1>6 DEF TooLarge, Finish, ForgetReply, NoReply, TypeOK
  <2>2. QED
    BY <1>0, <2>1 DEF EffectsOf, OnceOnly, Writes
<1>7. CASE BodyLost(c)
  <2>1. PICK error \in AfterSend : OnTransportError(c, error)
    BY <1>7 DEF BodyLost
  <2>2. error \notin NeverSent
    BY DEF AfterSend, NeverSent
  <2>3. \/ pc'[c] = "done" /\ outcome'[c] = "unavailable"
        \/ pc'[c] = "sleeping" /\ outcome'[c] = outcome[c] /\ c \notin OnceOnly
    BY <2>1, <2>2, TransportErrorHere
  <2>4. /\ pc[c] = "reading" /\ reply'[c].status = "none"
        /\ UNCHANGED <<applied, abandoned>>
    BY <1>7 DEF BodyLost, ForgetReply, NoReply, TypeOK
  <2>5. QED
    BY <1>0, <2>3, <2>4 DEF EffectsOf, OnceOnly, Writes
<1>8. CASE BodyRead(c)
  <2>1. /\ pc[c] = "reading" /\ reply'[c].status = "none"
        /\ UNCHANGED <<applied, abandoned>>
    BY <1>8 DEF BodyRead, ForgetReply, NoReply, TypeOK
  <2>2. reply[c].status \in Statuses
    BY <2>1 DEF TypeOK
  <2>3. CASE pc'[c] = "done" /\ outcome'[c] \in Results(c, reply[c].status)
    <3>1. outcome'[c] \in {"success", "malformed"} => reply[c].status = "success"
      BY <2>3, <2>2 DEF Results, Statuses, Redirects
    <3>2. outcome'[c] \in {"client_error", "rate_limited", "redirected"}
            => reply[c].status \in Refusals
      BY <2>3, <2>2 DEF Results, Statuses, Refusals, Redirects
    <3>3. outcome'[c] # "none"
      BY <2>3, <2>2 DEF Results, Statuses, Redirects
    <3>4. c \in OnceOnly => applied[c] <= 1
      BY <1>0
    <3>5. QED
      BY <1>0, <2>1, <2>3, <3>1, <3>2, <3>3, <3>4 DEF EffectsOf, OnceOnly, Writes
  <2>4. CASE /\ pc'[c] = "sleeping" /\ outcome'[c] = outcome[c]
             /\ reply[c].status = "rate_limited" \/ c \notin OnceOnly
    <3>1. c \in OnceOnly => applied[c] = 0
      BY <2>1, <2>4 DEF EffectsOf, Refusals
    <3>2. QED
      BY <1>0, <2>1, <2>4, <3>1 DEF EffectsOf, OnceOnly, Writes
  <2>5. QED
    BY <1>8, <2>3, <2>4, ResponseHere DEF BodyRead
<1>9. CASE Cancel(c)
  <2>1. /\ pc[c] \in Active /\ pc'[c] = "done" /\ outcome'[c] = "cancelled"
        /\ reply'[c].status = "none" /\ UNCHANGED applied
    BY <1>9 DEF Cancel, Finish, ForgetReply, NoReply, TypeOK
  <2>2. \/ pc[c] = "waiting" /\ abandoned'[c] \in {abandoned[c], abandoned[c] + 1}
        \/ UNCHANGED abandoned
    BY <1>9 DEF Cancel, MayAbandon, TypeOK
  <2>3. QED
    BY <1>0, <2>1, <2>2 DEF EffectsOf, OnceOnly, Writes, Active
<1>10. CASE Answer(c)
  <2>1. PICK status \in Statuses, hint \in Hints \cup {NoHint} :
          /\ reply' = [reply EXCEPT ![c] = [status |-> status, hint |-> hint]]
          /\ \E n \in EffectsOf(c, status) :
               applied' = [applied EXCEPT ![c] = @ + n]
    BY <1>10 DEF Answer
  <2>2. PICK n \in EffectsOf(c, status) : applied' = [applied EXCEPT ![c] = @ + n]
    BY <2>1
  <2>3. /\ pc[c] = "waiting" /\ pc'[c] = "reading"
        /\ reply'[c].status = status /\ status # "none"
        /\ applied'[c] = applied[c] + n
        /\ UNCHANGED <<outcome, abandoned>>
    BY <1>10, <2>1, <2>2 DEF Answer, Statuses, TypeOK
  <2>4. n \in 0..1
    BY DEF EffectsOf
  <2>5. c \in Writes /\ status = "success" => n = 1
    BY DEF EffectsOf, Refusals, Redirects
  <2>6. c \in OnceOnly => applied'[c] = n
    BY <2>3, <2>4
  <2>7. QED
    BY <1>0, <2>3, <2>4, <2>5, <2>6 DEF EffectsOf, OnceOnly, Writes
<1>11. CASE LateExecution(c)
  <2>1. /\ abandoned[c] > 0 /\ abandoned'[c] = abandoned[c] - 1
        /\ applied'[c] \in {applied[c], applied[c] + 1}
        /\ UNCHANGED <<pc, reply, outcome>>
    BY <1>11 DEF LateExecution, control, TypeOK
  <2>2. pc[c] # "reading" \/ c \notin OnceOnly
    BY <2>1
  <2>3. QED
    BY <1>0, <2>1, <2>2 DEF EffectsOf, OnceOnly, Writes, Stages
<1>12. QED
  BY <1>1, <1>2, <1>3, <1>4, <1>5, <1>6, <1>7, <1>8, <1>9, <1>10, <1>11
     DEF CallStep, Progress

DeliveryInvs == \A x \in Calls : CallInv(x)

LEMMA DeliveryInit == Init => DeliveryInvs
BY DEF Init, DeliveryInvs, CallInv, NoReply

LEMMA DeliveryStep == TypeOK /\ DeliveryInvs /\ [Next]_vars => DeliveryInvs'
<1> SUFFICES ASSUME TypeOK, DeliveryInvs, [Next]_vars, NEW x \in Calls
             PROVE  CallInv(x)'
  BY DEF DeliveryInvs
<1>1. CallInv(x)
  BY DEF DeliveryInvs
<1>2. CASE UNCHANGED vars
  BY <1>1, <1>2, SameCallInv DEF vars, control, SameCall
<1>3. ASSUME NEW c \in Calls, CallStep(c)
      PROVE  CallInv(x)'
  <2>1. CASE x = c
    BY <1>1, <1>3, <2>1, OwnStep
  <2>2. CASE x # c
    BY <1>1, <1>3, <2>2, OthersUntouched, SameCallInv
  <2>3. QED
    BY <2>1, <2>2
<1>4. QED
  BY <1>2, <1>3 DEF Next, CallStep

\* A POST is carried out at most once, however its call is retried, given up
\* or cancelled and however late an abandoned attempt arrives.
THEOREM PostIsSentOnce == Spec => []PostAtMostOnce
<1>1. DeliveryInvs => PostAtMostOnce
  BY CallInvIsInv DEF DeliveryInvs
<1>2. QED
  BY <1>1, DeliveryInit, DeliveryStep, TypeCorrect, PTL DEF Spec

\* A POST that ends with a 4xx, a 429 or a redirect has had no effect and
\* will have none.
THEOREM RefusedPostHasNoEffect == Spec => []RefusalIsClean
<1>1. DeliveryInvs => RefusalIsClean
  BY CallInvIsInv DEF DeliveryInvs
<1>2. QED
  BY <1>1, DeliveryInit, DeliveryStep, TypeCorrect, PTL DEF Spec

\* A write reported as accepted was carried out.
THEOREM AcceptedWriteIsDone == Spec => []SuccessIsReal
<1>1. DeliveryInvs => SuccessIsReal
  BY CallInvIsInv DEF DeliveryInvs
<1>2. QED
  BY <1>1, DeliveryInit, DeliveryStep, TypeCorrect, PTL DEF Spec

-----------------------------------------------------------------------------
(* The budget of attempts.                                                  *)

LEMMA AttemptInit == Init => AttemptInv
BY DEF Init, AttemptInv

LEMMA AttemptStep == TypeOK /\ AttemptInv /\ [Next]_vars => AttemptInv'
<1> SUFFICES ASSUME TypeOK, AttemptInv, [Next]_vars
             PROVE  AttemptInv'
  OBVIOUS
<1>0. CASE UNCHANGED vars
  BY <1>0 DEF vars, control, AttemptInv
<1> SUFFICES ASSUME NEW c \in Calls, CallStep(c)
             PROVE  AttemptInv'
  BY <1>0 DEF Next, CallStep
<1> USE DEF AttemptInv, TypeOK
<1>1. CASE Begin(c) \/ Retry(c)
  <2>1. /\ pc[c] \in {"idle", "sleeping"} /\ pc'[c] = "connect"
        /\ attempts'[c] = attempts[c] + 1
        /\ UNCHANGED <<statusRetries, networkRetries>>
    BY <1>1 DEF Begin, Retry, EnterSend
  <2>2. ASSUME NEW x \in Calls, x # c
        PROVE  pc'[x] = pc[x] /\ attempts'[x] = attempts[x]
    BY <1>1, <2>2 DEF Begin, Retry, EnterSend
  <2>3. QED
    BY <2>1, <2>2
<1>2. CASE Send(c)
  BY <1>2 DEF Send
<1>3. CASE ConnectFails(c) \/ AnswerLost(c) \/ BodyLost(c)
  <2>1. PICK error : OnTransportError(c, error)
    BY <1>3 DEF ConnectFails, AnswerLost, BodyLost
  <2>2. pc[c] \in {"connect", "waiting", "reading"} /\ UNCHANGED attempts
    BY <1>3 DEF ConnectFails, AnswerLost, BodyLost
  <2>3. QED
    BY <2>1, <2>2, TransportErrorCases, SMTT(30) DEF Finish, Sleep
<1>4. CASE BodyRead(c)
  <2>1. pc[c] = "reading" /\ UNCHANGED attempts /\ OnResponse(c, reply[c])
    BY <1>4 DEF BodyRead
  <2>2. /\ UNCHANGED networkRetries
        /\ \/ (\E o : Finish(c, o)) /\ UNCHANGED statusRetries
           \/ /\ \E d : Sleep(c, d)
              /\ statusRetries' = [statusRetries EXCEPT ![c] = @ + 1]
    BY <2>1, ResponseCases
  <2>3. QED
    BY <2>1, <2>2 DEF Finish, Sleep
<1>5. CASE FollowRedirect(c)
  BY <1>5 DEF FollowRedirect
<1>6. CASE TooLarge(c) \/ Cancel(c)
  BY <1>6 DEF TooLarge, Cancel, Finish, Active
<1>7. CASE Answer(c)
  BY <1>7 DEF Answer
<1>8. CASE LateExecution(c)
  BY <1>8 DEF LateExecution, control
<1>9. QED
  BY <1>1, <1>2, <1>3, <1>4, <1>5, <1>6, <1>7, <1>8 DEF CallStep, Progress

\* A call is attempted at most once plus its two budgets.
THEOREM AttemptsAreBounded == Spec => []AttemptBound
<1>1. TypeOK /\ AttemptInv => AttemptBound
  BY DEF TypeOK, AttemptInv, AttemptBound
<1>2. QED
  BY <1>1, AttemptInit, AttemptStep, TypeCorrect, PTL DEF Spec

-----------------------------------------------------------------------------
(* Where tokens go.                                                         *)

LEMMA TokenInit == Init => TokenInv
BY DEF Init, TokenInv, TokenStaysHome

LEMMA TokenStep == TypeOK /\ TokenInv /\ [Next]_vars => TokenInv'
<1> SUFFICES ASSUME TypeOK, TokenInv, [Next]_vars
             PROVE  TokenInv'
  OBVIOUS
<1> USE DEF TokenInv, TokenStaysHome
<1>0. CASE UNCHANGED vars
  BY <1>0 DEF vars, control
<1> SUFFICES ASSUME NEW c \in Calls, CallStep(c)
             PROVE  TokenInv'
  BY <1>0 DEF Next, CallStep
<1>1. CASE Begin(c) \/ Retry(c)
  <2>1. UNCHANGED tokenSeenBy /\ EnterSend(c)
    BY <1>1 DEF Begin, Retry
  <2>2. ASSUME NEW x \in Calls
        PROVE  host'[x] = Origin \/ (host'[x] = host[x] /\ bearer'[x] = bearer[x])
    BY <2>1 DEF EnterSend, TypeOK
  <2>3. QED
    BY <2>1, <2>2
<1>2. CASE Send(c)
  BY <1>2 DEF Send
<1>3. CASE FollowRedirect(c)
  <2>1. PICK target \in Hosts : Ask(c, target)
    BY <1>3 DEF FollowRedirect
  <2>2. ASSUME NEW x \in Calls
        PROVE  \/ bearer'[x] = (host'[x] = Origin)
               \/ host'[x] = host[x] /\ bearer'[x] = bearer[x]
    BY <2>1 DEF Ask, CarriesToken, TypeOK
  <2>3. QED
    BY <1>3, <2>2 DEF FollowRedirect
<1>4. ASSUME UNCHANGED <<host, bearer, tokenSeenBy>>
      PROVE  TokenInv'
  BY <1>4
<1>5. CASE ConnectFails(c) \/ AnswerLost(c) \/ BodyLost(c) \/ BodyRead(c)
  BY <1>4, <1>5 DEF ConnectFails, AnswerLost, BodyLost, BodyRead,
                    OnTransportError, OnResponse
<1>6. CASE TooLarge(c) \/ Cancel(c) \/ Answer(c) \/ LateExecution(c)
  BY <1>4, <1>6 DEF TooLarge, Cancel, Answer, LateExecution, control
<1>7. QED
  BY <1>1, <1>2, <1>3, <1>5, <1>6 DEF CallStep, Progress

\* No redirect chain, whatever hosts it visits, carries a token away.
THEOREM TokenNeverLeaves == Spec => []TokenStaysHome
<1>1. TokenInv => TokenStaysHome
  BY DEF TokenInv
<1>2. QED
  BY <1>1, TokenInit, TokenStep, TypeCorrect, PTL DEF Spec

-----------------------------------------------------------------------------
(* The connection pool.                                                     *)

HoldsConnection(x) == pc[x] \in {"waiting", "reading"}

LEMMA OneMoreOrLess ==
  ASSUME NEW S, IsFiniteSet(S), NEW x
  PROVE  /\ Cardinality(S \cup {x}) \in Nat
         /\ Cardinality(S \cup {x}) <= Cardinality(S) + 1
         /\ Cardinality(S \ {x}) \in Nat
         /\ Cardinality(S \ {x}) <= Cardinality(S)
<1>1. Cardinality(S) \in Nat
  BY FS_CardinalityType
<1>2. /\ IsFiniteSet(S \cup {x})
      /\ Cardinality(S \cup {x})
            = IF x \in S THEN Cardinality(S) ELSE Cardinality(S) + 1
  BY FS_AddElement
<1>3. /\ IsFiniteSet(S \ {x})
      /\ Cardinality(S \ {x})
            = IF x \in S THEN Cardinality(S) - 1 ELSE Cardinality(S)
  BY FS_RemoveElement
<1>4. Cardinality(S \ {x}) \in Nat
  BY <1>3, FS_CardinalityType
<1>5. QED
  BY <1>1, <1>2, <1>3, <1>4

LEMMA PoolInit == Init => PoolAccounting
<1>1. Cardinality({}) = 0
  BY FS_EmptySet
<1>2. QED
  BY <1>1 DEF Init, PoolAccounting

LEMMA PoolStep == TypeOK /\ PoolAccounting /\ [Next]_vars => PoolAccounting'
<1> SUFFICES ASSUME TypeOK, PoolAccounting, [Next]_vars
             PROVE  PoolAccounting'
  OBVIOUS
<1>0. CASE UNCHANGED vars
  BY <1>0 DEF vars, control, PoolAccounting
<1> SUFFICES ASSUME NEW c \in Calls, CallStep(c)
             PROVE  PoolAccounting'
  BY <1>0 DEF Next, CallStep
<1>f. /\ IsFiniteSet(pool) /\ Cardinality(pool) \in Nat
      /\ \A x \in Calls : x \in pool <=> HoldsConnection(x)
      /\ Cardinality(pool) <= PoolSize /\ pool \subseteq Calls
  BY FS_Subset, FS_CardinalityType DEF TypeOK, PoolAccounting, HoldsConnection
\* It is enough to follow the acting call into or out of the pool.
<1>p. ASSUME \A x \in Calls \ {c} : pc'[x] = pc[x],
             \/ /\ pool' = pool \cup {c} /\ HoldsConnection(c)'
                /\ Cardinality(pool) < PoolSize
             \/ pool' = pool \ {c} /\ ~HoldsConnection(c)'
             \/ pool' = pool /\ (HoldsConnection(c)' <=> HoldsConnection(c))
      PROVE  PoolAccounting'
  <2>1. pool' = {x \in Calls : HoldsConnection(x)'}
    BY <1>f, <1>p DEF HoldsConnection
  <2>2. Cardinality(pool') <= PoolSize
    <3>0. /\ Cardinality(pool \cup {c}) \in Nat
          /\ Cardinality(pool \cup {c}) <= Cardinality(pool) + 1
          /\ Cardinality(pool \ {c}) \in Nat
          /\ Cardinality(pool \ {c}) <= Cardinality(pool)
      BY <1>f, OneMoreOrLess
    <3>1. CASE pool' = pool \cup {c} /\ Cardinality(pool) < PoolSize
      BY <1>f, <3>0, <3>1
    <3>2. CASE pool' = pool \ {c}
      BY <1>f, <3>0, <3>2
    <3>3. QED
      BY <1>f, <1>p, <3>1, <3>2
  <2>3. QED
    BY <2>1, <2>2 DEF PoolAccounting, HoldsConnection
<1>o. \A x \in Calls \ {c} : pc'[x] = pc[x]
  BY OthersUntouched DEF SameCall
<1> USE DEF HoldsConnection
<1>1. CASE Begin(c) \/ Retry(c)
  BY <1>1, <1>o, <1>p DEF Begin, Retry, EnterSend, TypeOK
<1>2. CASE Send(c)
  BY <1>2, <1>o, <1>p DEF Send, TypeOK
<1>3. CASE ConnectFails(c)
  <2>1. pc'[c] \in {"done", "sleeping"} /\ pc[c] = "connect" /\ pool' = pool
    BY <1>3, TransportErrorHere DEF ConnectFails
  <2>2. QED
    BY <2>1, <1>o, <1>p
<1>4. CASE AnswerLost(c) \/ BodyLost(c)
  <2>1. pc'[c] \in {"done", "sleeping"} /\ Release(c)
    BY <1>4, TransportErrorHere DEF AnswerLost, BodyLost
  <2>2. QED
    BY <2>1, <1>o, <1>p DEF Release
<1>5. CASE BodyRead(c)
  <2>1. pc'[c] \in {"done", "sleeping"} /\ Release(c)
    BY <1>5, ResponseHere DEF BodyRead
  <2>2. QED
    BY <2>1, <1>o, <1>p DEF Release
<1>6. CASE FollowRedirect(c)
  BY <1>6, <1>o, <1>p DEF FollowRedirect, Release, TypeOK
<1>7. CASE TooLarge(c) \/ Cancel(c)
  <2>1. pc'[c] = "done" /\ Release(c)
    BY <1>7 DEF TooLarge, Cancel, Finish, TypeOK
  <2>2. QED
    BY <2>1, <1>o, <1>p DEF Release
<1>8. CASE Answer(c)
  BY <1>8, <1>o, <1>p DEF Answer, TypeOK
<1>9. CASE LateExecution(c)
  BY <1>9, <1>o, <1>p DEF LateExecution, control
<1>10. QED
  BY <1>1, <1>2, <1>3, <1>4, <1>5, <1>6, <1>7, <1>8, <1>9 DEF CallStep, Progress

\* Connections are held exactly by the calls that are using one, and there
\* are never more of them than the pool allows.
THEOREM NoConnectionLeaks == Spec => []PoolAccounting
BY PoolInit, PoolStep, TypeCorrect, PTL DEF Spec

-----------------------------------------------------------------------------
(* Sleeps.                                                                  *)

LEMMA SleepInit == Init => SleepBounded
BY DEF Init, SleepBounded

LEMMA SleepStep == TypeOK /\ SleepBounded /\ [Next]_vars => SleepBounded'
<1> SUFFICES ASSUME TypeOK, SleepBounded, [Next]_vars
             PROVE  SleepBounded'
  OBVIOUS
<1> USE DEF SleepBounded
<1>0. CASE UNCHANGED vars
  BY <1>0 DEF vars, control
<1> SUFFICES ASSUME NEW c \in Calls, CallStep(c)
             PROVE  SleepBounded'
  BY <1>0 DEF Next, CallStep
<1>1. ASSUME NEW d \in 0..MaxDelay, delay' = [delay EXCEPT ![c] = d]
      PROVE  SleepBounded'
  BY <1>1 DEF TypeOK
<1>2. CASE Begin(c) \/ Retry(c)
  BY <1>1, <1>2 DEF Begin, Retry, EnterSend
<1>3. CASE ConnectFails(c) \/ AnswerLost(c) \/ BodyLost(c)
  <2>1. PICK error : OnTransportError(c, error)
    BY <1>3 DEF ConnectFails, AnswerLost, BodyLost
  <2>2. QED
    BY <2>1, <1>1, TransportErrorCases DEF Finish, Sleep
<1>4. CASE BodyRead(c)
  <2>1. (\E o : Finish(c, o)) \/ (\E d \in 0..MaxDelay : Sleep(c, d))
    BY <1>4, ResponseCases DEF BodyRead
  <2>2. QED
    BY <2>1, <1>1 DEF Finish, Sleep
<1>5. CASE TooLarge(c) \/ Cancel(c)
  BY <1>1, <1>5 DEF TooLarge, Cancel, Finish
<1>6. CASE Send(c) \/ FollowRedirect(c) \/ Answer(c) \/ LateExecution(c)
  BY <1>6 DEF Send, FollowRedirect, Answer, LateExecution, control
<1>7. QED
  BY <1>2, <1>3, <1>4, <1>5, <1>6 DEF CallStep, Progress

\* No Retry-After, RateLimit-Reset or backoff makes a call sleep longer than
\* MaxDelay at a time.
THEOREM NoLongSleep == Spec => []SleepBounded
BY SleepInit, SleepStep, TypeCorrect, PTL DEF Spec

\* What a call costs is bounded, in attempts and in each sleep.
THEOREM EffortIsBounded == Spec => []EffortBounded
BY AttemptsAreBounded, NoLongSleep, PTL DEF EffortBounded

-----------------------------------------------------------------------------
(* The client implements DeliveryContract.                                  *)

verdictMap == [x \in Calls |-> VerdictOf(x)]

LEMMA ContractInit == Init => Contract!Init
BY DEF Init, Contract!Init, VerdictOf

\* A step that gives the call its outcome, and carries nothing out.
LEMMA ConcludeStep ==
  ASSUME TypeOK, DeliveryInvs, DeliveryInvs', NEW c \in Calls,
         outcome[c] = "none", outcome'[c] # "none", UNCHANGED applied,
         \A x \in Calls \ {c} : outcome'[x] = outcome[x]
  PROVE  Contract!Next
<1> DEFINE v == VerdictOf(c)'
<1>1. v \in Contract!Verdicts
  BY DEF VerdictOf, Contract!Verdicts
<1>2. verdictMap' = [verdictMap EXCEPT ![c] = v]
  BY DEF verdictMap, VerdictOf
<1>3. verdictMap[c] = "open"
  BY DEF verdictMap, VerdictOf
<1>4. v = "done" /\ c \in Writes => applied[c] > 0
  BY DEF VerdictOf, DeliveryInvs, CallInv, Writes
<1>5. v = "refused" /\ c \in OnceOnly => applied[c] = 0
  BY DEF VerdictOf, DeliveryInvs, CallInv, OnceOnly
<1>6. Contract!Conclude(c, v)
  BY <1>2, <1>3, <1>4, <1>5 DEF Contract!Conclude, verdictMap
<1>7. QED
  BY <1>1, <1>6 DEF Contract!Next

\* A step that carries the call out, and leaves every outcome.
LEMMA ExecuteStep ==
  ASSUME TypeOK, TypeOK', DeliveryInvs, DeliveryInvs', NEW c \in Writes,
         applied' = [applied EXCEPT ![c] = @ + 1], UNCHANGED outcome
  PROVE  Contract!Next
<1>1. /\ c \in Calls
      /\ applied[c] \in Nat /\ applied'[c] = applied[c] + 1
      /\ abandoned'[c] \in Nat
  BY DEF Writes, TypeOK
<1>2. CallInv(c) /\ CallInv(c)' /\ outcome'[c] = outcome[c]
  BY <1>1 DEF DeliveryInvs
<1>3. verdictMap' = verdictMap
  BY DEF verdictMap, VerdictOf
<1>4. c \in OnceOnly => applied[c] = 0
  BY <1>1, <1>2 DEF CallInv
<1>5. c \in OnceOnly => VerdictOf(c) \in {"open", "unknown"}
  <2>1. SUFFICES ASSUME c \in OnceOnly
                 PROVE  VerdictOf(c) \in {"open", "unknown"}
    OBVIOUS
  <2>2. outcome[c] \notin {"success", "malformed"}
    BY <1>2, <1>4, <2>1 DEF CallInv
  <2>3. outcome[c] \notin {"client_error", "rate_limited", "redirected"}
    BY <1>1, <1>2, <2>1 DEF CallInv
  <2>4. QED
    BY <2>2, <2>3 DEF VerdictOf
<1>6. verdictMap[c] = VerdictOf(c)
  BY <1>1 DEF verdictMap
<1>7. Contract!Execute(c)
  BY <1>3, <1>4, <1>5, <1>6 DEF Contract!Execute, verdictMap
<1>8. QED
  BY <1>1, <1>7 DEF Contract!Next

\* A step of the client is a step of the contract or changes nothing it sees.
LEMMA ContractStep ==
  ASSUME TypeOK, TypeOK', DeliveryInvs, DeliveryInvs', [Next]_vars
  PROVE  [Contract!Next]_(Contract!vars)
<1>1. ASSUME UNCHANGED <<outcome, applied>>
      PROVE  UNCHANGED Contract!vars
  BY <1>1 DEF Contract!vars, VerdictOf
<1>2. CASE UNCHANGED vars
  BY <1>1, <1>2 DEF vars, control
<1> SUFFICES ASSUME NEW c \in Calls, CallStep(c)
             PROVE  [Contract!Next]_(Contract!vars)
  BY <1>2 DEF Next, CallStep
<1>3. \A x \in Calls \ {c} : outcome'[x] = outcome[x]
  BY OthersUntouched DEF SameCall
<1>4. pc[c] # "done" => outcome[c] = "none"
  BY DEF DeliveryInvs, CallInv
\* A step that ends the call, or only moves it on, without an effect.
<1>5. ASSUME pc[c] # "done", UNCHANGED applied,
             outcome'[c] # "none" \/ outcome'[c] = outcome[c]
      PROVE  [Contract!Next]_(Contract!vars)
  <2>1. CASE outcome'[c] # "none"
    BY <1>3, <1>4, <1>5, <2>1, ConcludeStep
  <2>2. CASE outcome'[c] = outcome[c]
    <3>1. UNCHANGED Contract!vars
      BY <1>3, <1>5, <2>2 DEF Contract!vars, VerdictOf
    <3>2. QED
      BY <3>1
  <2>3. QED
    BY <1>5, <2>1, <2>2
<1>6. CASE Begin(c) \/ Retry(c)
  BY <1>1, <1>6 DEF Begin, Retry
<1>7. CASE Send(c)
  BY <1>1, <1>7 DEF Send
<1>8. CASE ConnectFails(c) \/ AnswerLost(c) \/ BodyLost(c)
  <2>1. pc[c] # "done" /\ UNCHANGED applied
    BY <1>8 DEF ConnectFails, AnswerLost, BodyLost
  <2>2. outcome'[c] = "unavailable" \/ outcome'[c] = outcome[c]
    BY <1>8, TransportErrorHere DEF ConnectFails, AnswerLost, BodyLost
  <2>3. QED
    BY <1>5, <2>1, <2>2
<1>9. CASE BodyRead(c)
  <2>1. pc[c] # "done" /\ UNCHANGED applied
    BY <1>9 DEF BodyRead
  <2>2. pc'[c] = "done" \/ outcome'[c] = outcome[c]
    BY <1>9, ResponseHere DEF BodyRead
  <2>3. pc'[c] = "done" => outcome'[c] # "none"
    BY DEF DeliveryInvs, CallInv
  <2>4. QED
    BY <1>5, <2>1, <2>2, <2>3
<1>10. CASE FollowRedirect(c)
  BY <1>1, <1>10 DEF FollowRedirect
<1>11. CASE TooLarge(c) \/ Cancel(c)
  <2>1. pc[c] # "done" /\ UNCHANGED applied /\ outcome'[c] # "none"
    BY <1>11 DEF TooLarge, Cancel, Finish, Active, TypeOK
  <2>2. QED
    BY <1>5, <2>1
<1>12. CASE Answer(c)
  <2>0. PICK status \in Statuses : \E n \in EffectsOf(c, status) :
          applied' = [applied EXCEPT ![c] = @ + n]
    BY <1>12 DEF Answer
  <2>1. PICK n \in EffectsOf(c, status) : applied' = [applied EXCEPT ![c] = @ + n]
    BY <2>0
  <2>2. UNCHANGED outcome
    BY <1>12 DEF Answer
  <2>3. CASE n = 0
    <3>1. UNCHANGED applied
      BY <2>1, <2>3 DEF TypeOK
    <3>2. QED
      BY <1>1, <2>2, <3>1
  <2>4. CASE n = 1
    <3>1. c \in Writes
      BY <2>4 DEF EffectsOf
    <3>2. QED
      BY <2>1, <2>2, <2>4, <3>1, ExecuteStep
  <2>5. QED
    BY <2>3, <2>4 DEF EffectsOf
<1>13. CASE LateExecution(c)
  <2>1. UNCHANGED outcome
    BY <1>13 DEF LateExecution, control
  <2>2. CASE UNCHANGED applied
    BY <1>1, <2>1, <2>2
  <2>3. CASE applied' = [applied EXCEPT ![c] = @ + 1] /\ c \in Writes
    BY <2>1, <2>3, ExecuteStep
  <2>4. QED
    BY <1>13, <2>2, <2>3 DEF LateExecution
<1>14. QED
  BY <1>6, <1>7, <1>8, <1>9, <1>10, <1>11, <1>12, <1>13 DEF CallStep, Progress

\* The retry loop implements the delivery contract its callers rely on.
THEOREM ImplementsContract == Spec => KeepsContract
<1>1. TypeOK /\ TypeOK' /\ DeliveryInvs /\ DeliveryInvs' /\ [Next]_vars
        => [Contract!Next]_(Contract!vars)
  BY ContractStep
<1>2. QED
  BY <1>1, ContractInit, DeliveryInit, DeliveryStep, TypeCorrect, PTL
     DEF Spec, KeepsContract, Contract!Spec

-----------------------------------------------------------------------------
(* What the handlers above the client rely on.                              *)

ReadsChangeNothing == \A c \in Calls : c \notin Writes => applied[c] = 0

\* However a call ends, its handler is given one of the answers ToolPolicy
\* counts on; it stays so when an abandoned attempt is carried out afterwards.
HandlersTold ==
  \A c \in Calls :
    outcome[c] # "none"
      => <<VerdictOf(c), IF applied[c] = 0 THEN 0 ELSE 1>> \in Answers(Method[c], TRUE)

LEMMA ReadsStep == TypeOK /\ ReadsChangeNothing /\ [Next]_vars => ReadsChangeNothing'
<1> SUFFICES ASSUME TypeOK, ReadsChangeNothing, [Next]_vars,
                    NEW x \in Calls, x \notin Writes
             PROVE  applied'[x] = 0
  BY DEF ReadsChangeNothing, Writes
<1>0. applied[x] = 0 /\ applied \in [Calls -> Nat]
  BY DEF ReadsChangeNothing, TypeOK
<1>1. CASE UNCHANGED vars
  BY <1>0, <1>1 DEF vars
<1>2. ASSUME NEW c \in Calls, Answer(c) PROVE applied'[x] = 0
  <2>1. PICK n \in {0, 1} : /\ applied' = [applied EXCEPT ![c] = @ + n]
                            /\ c \notin Writes => n = 0
    <3>1. PICK status \in Statuses : \E n \in EffectsOf(c, status) :
                 applied' = [applied EXCEPT ![c] = @ + n]
      BY <1>2 DEF Answer
    <3>2. QED
      BY <3>1 DEF EffectsOf
  <2>2. QED
    BY <1>0, <2>1
<1>3. ASSUME NEW c \in Calls, LateExecution(c) PROVE applied'[x] = 0
  BY <1>0, <1>3 DEF LateExecution
<1>4. ASSUME NEW c \in Calls, CallStep(c), ~Answer(c), ~LateExecution(c)
      PROVE  applied' = applied
  BY <1>4 DEF CallStep, Progress, Begin, Send, ConnectFails, AnswerLost, FollowRedirect,
              TooLarge, BodyLost, BodyRead, Retry, Cancel
<1>5. QED
  BY <1>0, <1>1, <1>2, <1>3, <1>4 DEF Next, CallStep

\* Whatever becomes of a call of any method, ToolPolicy's handlers are shown to
\* cope with it: done is done, a refused POST is without effect, a GET always is.
THEOREM HandlersAreToldTruly == Spec => []HandlersTold
<1>1. TypeOK /\ StageInv /\ SuccessIsReal /\ RefusalIsClean /\ ReadsChangeNothing
        => HandlersTold
  <2> SUFFICES ASSUME TypeOK, StageInv, SuccessIsReal, RefusalIsClean, ReadsChangeNothing,
                      NEW c \in Calls, outcome[c] # "none"
               PROVE  <<VerdictOf(c), IF applied[c] = 0 THEN 0 ELSE 1>>
                        \in Answers(Method[c], TRUE)
    BY DEF HandlersTold
  <2>1. outcome[c] \in Outcomes /\ applied[c] \in Nat /\ Method[c] \in Methods
    BY DEF TypeOK
  <2>2. /\ VerdictOf(c) \in {"done", "refused", "unknown"}
        /\ VerdictOf(c) = "done" => outcome[c] \in {"success", "malformed"}
        /\ VerdictOf(c) = "refused"
             => outcome[c] \in {"client_error", "rate_limited", "redirected"}
    BY DEF VerdictOf
  <2>3. /\ Method[c] = "GET" => applied[c] = 0
        /\ Method[c] # "GET" /\ VerdictOf(c) = "done" => applied[c] > 0
        /\ Method[c] = "POST" /\ VerdictOf(c) = "refused" => applied[c] = 0
    BY <2>1, <2>2 DEF ReadsChangeNothing, SuccessIsReal, RefusalIsClean, Writes, OnceOnly
  <2> DEFINE n == IF applied[c] = 0 THEN 0 ELSE 1
  <2>4. /\ n \in {0, 1}
        /\ Method[c] = "GET" => n = 0
        /\ Method[c] # "GET" /\ VerdictOf(c) = "done" => n = 1
        /\ Method[c] = "POST" /\ VerdictOf(c) = "refused" => n = 0
    BY <2>1, <2>3
  <2> HIDE DEF n
  <2>5. <<VerdictOf(c), n>> \in Answers(Method[c], TRUE)
    BY <2>1, <2>2, <2>4 DEF Answers, Methods
  <2>6. QED
    BY <2>5 DEF n
<1>2. Init => ReadsChangeNothing
  BY DEF Init, ReadsChangeNothing
<1>3. DeliveryInvs => StageInv /\ SuccessIsReal /\ RefusalIsClean
  BY CallInvIsInv DEF DeliveryInvs
<1>4. QED
  BY <1>1, <1>2, <1>3, ReadsStep, DeliveryInit, DeliveryStep, TypeCorrect, PTL DEF Spec

-----------------------------------------------------------------------------
(* The client's own steps come to an end.                                   *)

\* One round of the loop: three stages for each hop of a redirect, and a sleep.
Round == 3 * (MaxRedirects + 1) + 1

StagesLeft(c) ==
  CASE pc[c] \in {"idle", "sleeping"} -> Round
    [] pc[c] = "connect" -> 3 * (MaxRedirects - hop[c]) + 3
    [] pc[c] = "waiting" -> 3 * (MaxRedirects - hop[c]) + 2
    [] pc[c] = "reading" -> 3 * (MaxRedirects - hop[c]) + 1
    [] pc[c] = "done" -> 0

RetriesLeft(c) ==
  (MaxRetries - statusRetries[c]) + (MaxNetworkRetries - networkRetries[c])

\* No call has more steps before it.
StepsLeft(c) == RetriesLeft(c) * Round + StagesLeft(c)

\* How a call moves, in what StepsLeft reads of it.
LEMMA CallMoves ==
  ASSUME TypeOK, NEW c \in Calls, CallStep(c)
  PROVE  \/ /\ pc[c] \in {"idle", "sleeping"} /\ pc'[c] = "connect" /\ hop'[c] = 0
            /\ UNCHANGED <<statusRetries, networkRetries>>
         \/ /\ <<pc[c], pc'[c]>> \in {<<"connect", "waiting">>, <<"waiting", "reading">>}
            /\ UNCHANGED <<hop, statusRetries, networkRetries>>
         \/ /\ pc[c] = "reading" /\ pc'[c] = "connect"
            /\ hop[c] < MaxRedirects /\ hop'[c] = hop[c] + 1
            /\ UNCHANGED <<statusRetries, networkRetries>>
         \/ /\ pc[c] \in Active \ {"sleeping"} /\ pc'[c] = "sleeping" /\ UNCHANGED hop
            /\ \/ /\ statusRetries'[c] = statusRetries[c] + 1
                  /\ UNCHANGED networkRetries
               \/ /\ networkRetries'[c] = networkRetries[c] + 1
                  /\ UNCHANGED statusRetries
         \/ /\ pc[c] \in Active /\ pc'[c] = "done"
            /\ UNCHANGED <<hop, statusRetries, networkRetries>>
         \/ UNCHANGED <<pc, hop, statusRetries, networkRetries>>
<1> USE DEF TypeOK
<1>1. CASE Begin(c) \/ Retry(c)
  BY <1>1 DEF Begin, Retry, EnterSend
<1>2. CASE Send(c)
  BY <1>2 DEF Send
<1>3. CASE ConnectFails(c) \/ AnswerLost(c) \/ BodyLost(c)
  <2>1. PICK error : OnTransportError(c, error)
    BY <1>3 DEF ConnectFails, AnswerLost, BodyLost
  <2>2. pc[c] \in {"connect", "waiting", "reading"}
    BY <1>3 DEF ConnectFails, AnswerLost, BodyLost
  <2>3. QED
    BY <2>1, <2>2, TransportErrorCases DEF Finish, Sleep, Active
<1>4. CASE BodyRead(c)
  <2>1. pc[c] = "reading" /\ OnResponse(c, reply[c])
    BY <1>4 DEF BodyRead
  <2>2. /\ UNCHANGED <<networkRetries, hop>>
        /\ \/ (\E o : Finish(c, o)) /\ UNCHANGED statusRetries
           \/ /\ \E d : Sleep(c, d)
              /\ statusRetries' = [statusRetries EXCEPT ![c] = @ + 1]
    BY <2>1, ResponseCases
  <2>3. QED
    BY <2>1, <2>2 DEF Finish, Sleep, Active
<1>5. CASE FollowRedirect(c)
  BY <1>5 DEF FollowRedirect, Follows, Ask
<1>6. CASE TooLarge(c) \/ Cancel(c)
  BY <1>6 DEF TooLarge, Cancel, Finish, Active
<1>7. CASE Answer(c)
  BY <1>7 DEF Answer
<1>8. CASE LateExecution(c)
  BY <1>8 DEF LateExecution, control
<1>9. QED
  BY <1>1, <1>2, <1>3, <1>4, <1>5, <1>6, <1>7, <1>8 DEF CallStep, Progress

\* A step of one call leaves the others where they are.
LEMMA OthersStay ==
  ASSUME TypeOK, NEW c \in Calls, CallStep(c), NEW x \in Calls, x # c
  PROVE  /\ pc'[x] = pc[x] /\ hop'[x] = hop[x]
         /\ statusRetries'[x] = statusRetries[x] /\ networkRetries'[x] = networkRetries[x]
<1> USE DEF TypeOK
<1>1. CASE Begin(c) \/ Retry(c)
  BY <1>1 DEF Begin, Retry, EnterSend
<1>2. CASE Send(c) \/ Answer(c)
  BY <1>2 DEF Send, Answer
<1>3. CASE ConnectFails(c) \/ AnswerLost(c) \/ BodyLost(c)
  <2>1. PICK error : OnTransportError(c, error)
    BY <1>3 DEF ConnectFails, AnswerLost, BodyLost
  <2>2. QED
    BY <2>1, TransportErrorCases DEF Finish, Sleep
<1>4. CASE BodyRead(c)
  <2>1. OnResponse(c, reply[c])
    BY <1>4 DEF BodyRead
  <2>2. QED
    BY <2>1, ResponseCases DEF Finish, Sleep
<1>5. CASE FollowRedirect(c)
  BY <1>5 DEF FollowRedirect, Ask
<1>6. CASE TooLarge(c) \/ Cancel(c) \/ LateExecution(c)
  BY <1>6 DEF TooLarge, Cancel, Finish, LateExecution, control
<1>7. QED
  BY <1>1, <1>2, <1>3, <1>4, <1>5, <1>6 DEF CallStep, Progress

\* RetriesLeft is multiplied by Round, and a retry is worth a round.
LEMMA RoundPays ==
  ASSUME NEW r \in Nat, NEW k \in Nat
  PROVE  /\ r * k \in Nat
         /\ r > 0 => (r - 1) * k + k = r * k
OBVIOUS

LEMMA StepsLeftTyped ==
  ASSUME TypeOK, NEW c \in Calls
  PROVE  /\ Round \in Nat /\ RetriesLeft(c) \in Nat /\ StagesLeft(c) \in Nat
         /\ StepsLeft(c) \in Nat
         /\ pc[c] # "done" => StagesLeft(c) > 0
<1>1. /\ pc[c] \in Stages /\ hop[c] \in 0..MaxRedirects
      /\ statusRetries[c] \in 0..MaxRetries /\ networkRetries[c] \in 0..MaxNetworkRetries
  BY DEF TypeOK
<1>2. Round \in Nat /\ Round > 0 /\ RetriesLeft(c) \in Nat
  BY <1>1 DEF Round, RetriesLeft
<1>3. StagesLeft(c) \in Nat /\ (pc[c] # "done" => StagesLeft(c) > 0)
  BY <1>1, <1>2 DEF StagesLeft, Stages
<1>4. QED
  BY <1>2, <1>3, RoundPays DEF StepsLeft

LEMMA StepsLeftSink ==
  ASSUME TypeOK, TypeOK', NEW c \in Calls, CallStep(c), pc'[c] # pc[c]
  PROVE  StepsLeft(c)' < StepsLeft(c)
<1>1. /\ pc[c] \in Stages /\ hop[c] \in 0..MaxRedirects
      /\ statusRetries[c] \in 0..MaxRetries /\ networkRetries[c] \in 0..MaxNetworkRetries
      /\ statusRetries'[c] \in 0..MaxRetries /\ networkRetries'[c] \in 0..MaxNetworkRetries
  BY DEF TypeOK
<1>2. /\ Round \in Nat /\ RetriesLeft(c) \in Nat /\ StagesLeft(c) \in Nat
      /\ pc[c] # "done" => StagesLeft(c) > 0
  BY StepsLeftTyped
<1>3. StagesLeft(c)' \in Nat
  <2>1. pc'[c] \in Stages /\ hop'[c] \in 0..MaxRedirects
    BY DEF TypeOK
  <2>2. QED
    BY <1>2, <2>1 DEF StagesLeft, Stages
<1>4. CASE pc'[c] # "sleeping"
  <2>1. RetriesLeft(c)' = RetriesLeft(c)
    BY <1>4, CallMoves DEF RetriesLeft
  <2>2. StagesLeft(c)' < StagesLeft(c)
    BY <1>1, <1>4, CallMoves DEF StagesLeft, Round, Active
  <2>3. QED
    BY <1>2, <1>3, <2>1, <2>2, RoundPays DEF StepsLeft
<1>5. CASE pc'[c] = "sleeping"
  <2>1. RetriesLeft(c) > 0 /\ RetriesLeft(c)' = RetriesLeft(c) - 1
    BY <1>1, <1>5, CallMoves DEF RetriesLeft
  <2>2. StagesLeft(c)' = Round /\ StagesLeft(c) > 0
    BY <1>2, <1>5, CallMoves DEF StagesLeft, Active
  <2>3. QED
    BY <1>2, <1>3, <2>1, <2>2, RoundPays DEF StepsLeft
<1>6. QED
  BY <1>4, <1>5

LEMMA StepsLeftAtFirst ==
  Init => \A c \in Calls : StepsLeft(c) = (MaxRetries + MaxNetworkRetries + 1) * Round
<1> SUFFICES ASSUME Init, NEW c \in Calls
             PROVE  StepsLeft(c) = (MaxRetries + MaxNetworkRetries + 1) * Round
  OBVIOUS
<1>1. RetriesLeft(c) = MaxRetries + MaxNetworkRetries /\ StagesLeft(c) = Round
  BY DEF Init, RetriesLeft, StagesLeft
<1>2. Round \in Nat
  BY DEF Round
<1>3. QED
  BY <1>1, <1>2 DEF StepsLeft

\* Each step of a call, whichever failures, hints and redirects it meets, brings
\* it nearer to its end.
CallsRunOut ==
  [][\A c \in Calls : /\ StepsLeft(c) \in Nat
                      /\ pc'[c] # pc[c] => StepsLeft(c)' < StepsLeft(c)
                      /\ pc'[c] = pc[c] => StepsLeft(c)' = StepsLeft(c)]_vars

\* The part of EveryCallEnds that needs no fairness: a call takes at most as many
\* steps as its two budgets and the hops of a redirect allow.
THEOREM NoCallGoesOnForEver ==
  Spec => /\ \A c \in Calls : StepsLeft(c) = (MaxRetries + MaxNetworkRetries + 1) * Round
          /\ CallsRunOut
<1> DEFINE Sinks(c) == /\ StepsLeft(c) \in Nat
                       /\ pc'[c] # pc[c] => StepsLeft(c)' < StepsLeft(c)
                       /\ pc'[c] = pc[c] => StepsLeft(c)' = StepsLeft(c)
<1>1. TypeOK /\ TypeOK' /\ [Next]_vars => [\A c \in Calls : Sinks(c)]_vars
  <2> SUFFICES ASSUME TypeOK, TypeOK', NEW c \in Calls, CallStep(c), NEW x \in Calls
               PROVE  Sinks(x)
    BY DEF Next, CallStep
  <2>1. StepsLeft(x) \in Nat
    BY StepsLeftTyped
  <2>2. CASE x = c /\ pc'[c] # pc[c]
    BY <2>1, <2>2, StepsLeftSink
  <2>3. CASE pc'[x] = pc[x]
    <3>1. /\ hop'[x] = hop[x] /\ statusRetries'[x] = statusRetries[x]
          /\ networkRetries'[x] = networkRetries[x]
      BY <2>3, CallMoves, OthersStay, Zenon
    <3>2. StepsLeft(x)' = StepsLeft(x)
      BY <2>3, <3>1 DEF StepsLeft, RetriesLeft, StagesLeft
    <3>3. QED
      BY <2>1, <2>3, <3>2
  <2>4. QED
    BY <2>2, <2>3, OthersStay
<1>2. QED
  BY <1>1, StepsLeftAtFirst, TypeCorrect, PTL DEF Spec, CallsRunOut

=============================================================================
