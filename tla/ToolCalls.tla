----------------------------- MODULE ToolCalls -----------------------------
(***************************************************************************)
(* The tool calls that take several GitLab requests, or that GitLab guards *)
(* against changes the caller has not seen, put together: any one of them, *)
(* any of its arguments, against any state of what it works on; and the    *)
(* listing of a tool.                                                      *)
(***************************************************************************)
EXTENDS CarriedEdits, FileCalls, MergeRequestCalls, ReviewCalls, WebhookCalls,
        ProjectCalls, InputSchemas

StartCall ==
  \/ StartCarrying
  \/ StartFile
  \/ StartTitle
  \/ StartMerge
  \/ StartReview
  \/ StartAnchoring
  \/ StartHook
  \/ StartProject
  \/ ListTool

CallStep ==
  \/ CarryingStep
  \/ FileStep
  \/ TitleStep
  \/ MergeStep
  \/ ReviewStep
  \/ AnchoringStep
  \/ HookStep
  \/ ProjectStep
  \/ Cancelled

\* The attempt the handler awaits ends: with an answer, or without one.
AwaitEnds == Running /\ CallStep /\ <<request, tries>>' # <<request, tries>>

CallsInit == CallInit
CallsNext == StartCall \/ CallStep
CallsSpec == CallsInit /\ [][CallsNext]_callVars

CallsTypeOK ==
  /\ tries \in 0..Retries
  /\ changes \in 0..Changes
  /\ "tool" \in DOMAIN call
  /\ "status" \in DOMAIN result
  /\ heard \in {"none", "done", "refused", "unknown"}
  /\ Running => call # NoCall /\ result = NoResult
  /\ past # {} => thing \in past /\ before \in past
  /\ \A r \in stray : r.method # "GET"

-----------------------------------------------------------------------------
(* The handlers keep to the catalogue.                                      *)

\* The tools and actions the handlers belong to.
HandlerOf ==
  [update_variable      |-> <<"gitlab_ci_variables", "update">>,
   update_wiki_page     |-> <<"gitlab_wikis", "update">>,
   update_draft_note    |-> <<"gitlab_mr_reviews", "update_draft_note">>,
   update_file          |-> <<"gitlab_files", "update">>,
   delete_file          |-> <<"gitlab_files", "delete">>,
   update_merge_request |-> <<"gitlab_merge_requests", "update">>,
   merge                |-> <<"gitlab_merge_requests", "merge">>,
   publish_review       |-> <<"gitlab_mr_reviews", "publish_review">>,
   create_discussion    |-> <<"gitlab_mr_reviews", "create_discussion">>,
   create_draft_note    |-> <<"gitlab_mr_reviews", "create_draft_note">>,
   update_hook          |-> <<"gitlab_webhooks", "update">>,
   delete_project       |-> <<"gitlab_projects", "delete">>]

Handled == call.tool \in DOMAIN HandlerOf

\* The requests the arguments of a call select, when none of them fails.
PlanOf(c) ==
  CASE c.tool \in CarryingTools \cup {"update_merge_request"} ->
         IF c.passes THEN <<"PUT">> ELSE <<"GET", "PUT">>
    [] c.tool = "update_file" -> <<"PUT">>
    [] c.tool = "delete_file" -> <<"DELETE">>
    [] c.tool = "merge" -> <<"PUT", "GET">>
    [] c.tool = "publish_review" -> IF c.summary THEN <<"POST", "POST">> ELSE <<"POST">>
    [] c.tool \in AnchoringTools -> <<"GET", "POST">>
    [] c.tool = "update_hook" -> IF InTwo(c) THEN <<"PUT", "PUT">> ELSE <<"PUT">>
    [] c.tool = "delete_project" -> <<"DELETE", "GET">>

FirstRequest(c) ==
  CASE c.tool \in CarryingTools -> FirstCarryingRequest(c)
    [] c.tool \in FileTools -> FileRequest(c)
    [] c.tool = "update_merge_request" -> FirstTitleRequest(c)
    [] c.tool = "merge" -> MergeRequest(c)
    [] c.tool = "publish_review" -> FirstReviewRequest(c)
    [] c.tool \in AnchoringTools -> Get
    [] c.tool = "update_hook" -> FirstHookRequest(c)
    [] c.tool = "delete_project" -> DeleteProject

\* What a result of these handlers is to ToolPolicy.
OutcomeOf(r) ==
  CASE r.status \in {"done", "deleted", "marked_for_deletion", "deletion_requested"} -> "ok"
    [] r.status \in {"merge_blocked", "merge_pending"} -> "refused"
    [] r.status = "diff_not_ready" -> "own_error"
    [] r.status = "error" ->
         IF r.code \in {"failed", "too_large"} THEN "unknown"
         ELSE IF r.code = "invalid_arguments" THEN "own_error" ELSE "refused"
    [] r.status = "cancelled" -> "cancelled"
    [] OTHER -> "none"

\* The call as one of the catalogue.
CatalogueHandler == IF Handled THEN HandlerOf[call.tool] ELSE <<"none", "none">>
CataloguePlan == IF Handled THEN PlanOf(call) ELSE <<>>
CatalogueAt == IF ~Running THEN 0 ELSE IF request = FirstRequest(call) THEN 1 ELSE 2
CatalogueAsked == IF Running THEN request.method ELSE "none"

Catalogued ==
  INSTANCE PlannedHandler WITH
    handler <- CatalogueHandler, plan <- CataloguePlan, at <- CatalogueAt,
    asked <- CatalogueAsked, outcome <- OutcomeOf(result), heard <- heard

\* Each of these handlers, whatever becomes of its requests, asks GitLab for
\* what the catalogue lets it ask and ends as the catalogue lets it end: what
\* ToolPolicy shows of the catalogue's handlers holds of them.
KeepsToCatalogue == Catalogued!Spec

=============================================================================
