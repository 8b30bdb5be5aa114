--------------------------- MODULE RetryingAgent ---------------------------
(***************************************************************************)
(* An agent that wants one thing created in GitLab and answers a           *)
(* `retryable` tool error by making the same tool call once more, as       *)
(* ANSWERING-SKILL.md tells it to.  GitLabClient carries both calls, beside *)
(* whatever calls of others.                                               *)
(***************************************************************************)
EXTENDS GitLabClient

CONSTANTS
  First, Second,   \* the agent's tool call, and the repetition of it
  RetryOn          \* outcomes after which this agent repeats the call

\* core/errors.py: the error classes whose envelope says `retryable: true`.
RetryableOutcomes == {"rate_limited", "server_error", "unavailable"}

ASSUME AgentAssumption ==
  /\ {First, Second} \subseteq Calls
  /\ First # Second
  /\ RetryOn \subseteq RetryableOutcomes

\* The agent reads the error envelope and repeats the call.
AskAgain ==
  /\ outcome[First] \in RetryOn
  /\ Begin(Second)

AgentNext ==
  \/ \E c \in Calls \ {Second} : Begin(c)
  \/ AskAgain
  \/ \E c \in Calls : Progress(c) \/ Cancel(c) \/ LateExecution(c)

AgentSpec == Init /\ [][AgentNext]_vars

\* As for FairSpec of GitLabClient: every await of the client ends.
FairAgentSpec == AgentSpec /\ \A c \in Calls : WF_vars(Progress(c))

\* The agent asked for one thing and GitLab holds at most one: between them,
\* the call and its repetition are carried out at most once.
OneEffect ==
  applied[First] + applied[Second] + abandoned[First] + abandoned[Second] <= 1

=============================================================================
