-------------------------- MODULE DeliveryContract --------------------------
(***************************************************************************)
(* What GitLabClient.request promises to the tool handlers above it, with  *)
(* no attempt, connection or delay in sight.  A call ends with one verdict *)
(*   "done"     GitLab accepted it;                                        *)
(*   "refused"  GitLab or the client turned it down before it took effect; *)
(*   "unknown"  the caller cannot tell, and the effect may still come.     *)
(* A call that must not be repeated (POST) takes effect at most once, has  *)
(* taken effect when it is done, and never does when it is refused.        *)
(***************************************************************************)
EXTENDS Integers

CONSTANTS
  Calls,
  Writes,    \* the calls that change something in GitLab
  OnceOnly   \* the writes that must not be carried out twice

VARIABLES
  verdict,   \* verdict[c]: "open" until the call ends
  effects    \* effects[c]: how often GitLab has carried the call out

vars == <<verdict, effects>>

Verdicts == {"done", "refused", "unknown"}

Init == /\ verdict = [c \in Calls |-> "open"]
        /\ effects = [c \in Calls |-> 0]

\* GitLab carries the call out.
Execute(c) ==
  /\ c \in Writes
  /\ c \in OnceOnly => effects[c] = 0 /\ verdict[c] \in {"open", "unknown"}
  /\ effects' = [effects EXCEPT ![c] = @ + 1]
  /\ UNCHANGED verdict

\* The call returns to its handler.
Conclude(c, v) ==
  /\ verdict[c] = "open"
  /\ v = "done" /\ c \in Writes => effects[c] > 0
  /\ v = "refused" /\ c \in OnceOnly => effects[c] = 0
  /\ verdict' = [verdict EXCEPT ![c] = v]
  /\ UNCHANGED effects

Next == \E c \in Calls : Execute(c) \/ \E v \in Verdicts : Conclude(c, v)

Spec == Init /\ [][Next]_vars

=============================================================================
