------------------------ MODULE RetryingAgentProofs ------------------------
(***************************************************************************)
(* An agent that repeats its call only after a 429 has at most one effect, *)
(* whatever the retry budgets, the pool and the network are.               *)
(***************************************************************************)
EXTENDS RetryingAgent, GitLabClientProofs

LEMMA AgentStepIsClientStep == AgentNext => Next
BY AgentAssumption DEF AgentNext, AskAgain, Next

\* The repetition runs only after the first call was rate limited.
AgentInv ==
  pc[Second] # "idle" => outcome[First] = "rate_limited"

\* Once a call has its outcome, the outcome stays.
LEMMA OutcomeStays ==
  ASSUME TypeOK, DeliveryInvs, [Next]_vars, NEW x \in Calls, pc[x] = "done"
  PROVE  outcome'[x] = outcome[x]
<1>1. CASE UNCHANGED vars
  BY <1>1 DEF vars, control
<1>2. ASSUME NEW c \in Calls, CallStep(c), x # c
      PROVE  outcome'[x] = outcome[x]
  BY <1>2, OthersUntouched DEF SameCall
<1>3. CASE CallStep(x)
  BY <1>3 DEF CallStep, Progress, Begin, Send, ConnectFails, Answer, AnswerLost,
              FollowRedirect, TooLarge, BodyLost, BodyRead, Retry, Cancel, Active,
              LateExecution, control
<1>4. QED
  BY <1>1, <1>2, <1>3 DEF Next, CallStep

LEMMA AgentStep ==
  ASSUME RetryOn \subseteq {"rate_limited"},
         TypeOK, DeliveryInvs, AgentInv, [AgentNext]_vars
  PROVE  AgentInv'
<1>0. First \in Calls /\ Second \in Calls /\ First # Second
  BY AgentAssumption
<1>1. [Next]_vars
  BY AgentStepIsClientStep
<1>2. CASE outcome[First] = "rate_limited"
  <2>1. pc[First] = "done"
    BY <1>0, <1>2 DEF DeliveryInvs, CallInv
  <2>2. QED
    BY <1>0, <1>1, <1>2, <2>1, OutcomeStays DEF AgentInv
<1>3. CASE outcome[First] # "rate_limited"
  <2>1. pc[Second] = "idle" /\ ~AskAgain
    BY <1>3 DEF AgentInv, AskAgain
  <2>2. CASE UNCHANGED vars
    BY <2>1, <2>2 DEF vars, control, AgentInv
  <2>3. ASSUME NEW c \in Calls \ {Second}, Begin(c)
        PROVE  AgentInv'
    BY <1>0, <2>1, <2>3, OthersUntouched DEF CallStep, SameCall, AgentInv
  <2>4. ASSUME NEW c \in Calls, Progress(c) \/ Cancel(c) \/ LateExecution(c)
        PROVE  AgentInv'
    <3>1. CASE c # Second
      BY <1>0, <2>1, <2>4, <3>1, OthersUntouched DEF CallStep, SameCall, AgentInv
    <3>2. CASE c = Second
      <4>1. pc[c] = "idle"
        BY <2>1, <3>2
      <4>2. LateExecution(c)
        BY <2>4, <4>1 DEF Progress, Send, ConnectFails, Answer, AnswerLost,
                          FollowRedirect, TooLarge, BodyLost, BodyRead, Retry,
                          Cancel, Active
      <4>3. QED
        BY <2>1, <4>2 DEF LateExecution, control, AgentInv
    <3>3. QED
      BY <3>1, <3>2
  <2>5. QED
    BY <2>1, <2>2, <2>3, <2>4 DEF AgentNext
<1>4. QED
  BY <1>2, <1>3

\* Repeating a rate-limited POST never duplicates it.
THEOREM RateLimitRetryIsSafe ==
  ASSUME RetryOn \subseteq {"rate_limited"}, Method[First] = "POST", Method[Second] = "POST"
  PROVE  AgentSpec => []OneEffect
<1>1. Init => AgentInv
  BY AgentAssumption DEF Init, AgentInv
<1>2. TypeOK /\ DeliveryInvs /\ AgentInv /\ [AgentNext]_vars => AgentInv'
  BY AgentStep
<1>3. TypeOK /\ DeliveryInvs /\ [AgentNext]_vars => TypeOK' /\ DeliveryInvs'
  BY AgentStepIsClientStep, TypeOKStep, DeliveryStep
<1>4. TypeOK /\ DeliveryInvs /\ AgentInv => OneEffect
  <2> SUFFICES ASSUME TypeOK, DeliveryInvs, AgentInv
               PROVE  OneEffect
    OBVIOUS
  <2>2. First \in OnceOnly /\ Second \in OnceOnly /\ First \in Calls /\ Second \in Calls
    BY AgentAssumption DEF OnceOnly
  <2>3. /\ applied[First] \in Nat /\ abandoned[First] \in Nat
        /\ applied[Second] \in Nat /\ abandoned[Second] \in Nat
        /\ CallInv(First) /\ CallInv(Second)
    BY <2>2 DEF TypeOK, DeliveryInvs
  <2>4. CASE pc[Second] = "idle"
    BY <2>2, <2>3, <2>4 DEF CallInv, OneEffect
  <2>5. CASE pc[Second] # "idle"
    BY <2>2, <2>3, <2>5 DEF AgentInv, CallInv, OneEffect
  <2>6. QED
    BY <2>4, <2>5
<1>5. QED
  BY <1>1, <1>2, <1>3, <1>4, TypeOKInit, DeliveryInit, PTL DEF AgentSpec

\* An agent's repetitions are calls like any other: whatever errors it repeats
\* after, all that is proved of the client's calls holds of its calls too, for
\* instance that no redirect gives its token away.
THEOREM AgentsAreCallers == AgentSpec => Spec /\ []TokenStaysHome
<1>1. [AgentNext]_vars => [Next]_vars
  BY AgentStepIsClientStep
<1>2. AgentSpec => Spec
  BY <1>1, PTL DEF AgentSpec, Spec
<1>3. QED
  BY <1>2, TokenNeverLeaves, PTL

=============================================================================
