--------------------------- MODULE PlannedHandler ---------------------------
(***************************************************************************)
(* What the catalogue promises of one call of one of its tools: the        *)
(* handler asks GitLab for the requests of one of its plans, in their      *)
(* order, and ends as Endings allows.  ToolPolicy lets its handlers do     *)
(* just this, and the handlers of ToolCalls, written out request by        *)
(* request, are shown to do no more.                                       *)
(***************************************************************************)
EXTENDS Catalog

VARIABLES
  handler,   \* tool and action called
  plan,      \* the branch of the handler that the arguments select
  at,        \* which of its requests is under way; 0: none
  asked,     \* the method GitLab is asked for
  heard,     \* what the client told it of its last request
  outcome    \* how the handler ended

vars == <<handler, plan, at, asked, heard, outcome>>

NoHandler == <<"none", "none">>

Init ==
  /\ handler = NoHandler
  /\ plan = <<>>
  /\ at = 0
  /\ asked = "none"
  /\ heard = "none"
  /\ outcome = "none"

Begin ==
  /\ handler = NoHandler
  /\ \E tool \in ToolNames : \E action \in ActionsOf(tool) :
       /\ handler' = <<tool, action>>
       /\ plan' \in Requests(tool, action)
  /\ at' = 1
  /\ asked' = plan'[1]
  /\ UNCHANGED <<heard, outcome>>

GoOn(verdict) ==
  /\ Continues(handler, plan, at, verdict)
  /\ at' = at + 1
  /\ asked' = plan[at + 1]
  /\ UNCHANGED outcome

End(outcomes) ==
  /\ outcome' \in outcomes
  /\ at' = 0
  /\ asked' = "none"

Answer ==
  /\ at # 0
  /\ heard' \in {"done", "refused", "unknown"}
  /\ GoOn(heard') \/ End(Endings(handler, plan, at, heard'))
  /\ UNCHANGED <<handler, plan>>

Disconnect ==
  /\ at # 0
  /\ End({"cancelled"})
  /\ UNCHANGED <<handler, plan, heard>>

Spec == Init /\ [][Begin \/ Answer \/ Disconnect]_vars

=============================================================================
