------------------------------ MODULE Catalog ------------------------------
(***************************************************************************)
(* toolsets/: the tools the server offers.  Per tool,                      *)
(*   ...Actions   what its Action(...) entries declare: access level and   *)
(*                whether the action is destructive;                       *)
(*   ...Requests  what the handlers send to GitLab: pairs of an action and *)
(*                a sequence of methods a call of it goes through when no  *)
(*                request fails, one pair for each branch of its handler.  *)
(* How a handler goes on or ends with what becomes of a request is said     *)
(* once, in Continues and Endings, with the few handlers that do not just  *)
(* raise when one fails.                                                   *)
(***************************************************************************)
EXTENDS Naturals, Sequences

Table(read, write, destructive) ==
  [read |-> read, write |-> write, destructive |-> destructive]

Get == {<<"GET">>}
Post == {<<"POST">>}
Put == {<<"PUT">>}
Delete == {<<"DELETE">>}

\* A read comes first unless the caller's arguments make it needless.
MaybeGetThen(method) == {<<method>>, <<"GET", method>>}

-----------------------------------------------------------------------------
(* Actions that several tools share.                                        *)

\* thread_actions without resolve_discussion, and time_tracking_actions.
ThreadReads == {"list_discussions", "list_notes"}
ThreadWrites == {"create_discussion", "reply_discussion", "create_note",
                 "update_note", "delete_note"}
TimeWrites == {"set_time_estimate", "reset_time_estimate", "add_spent_time",
               "reset_spent_time"}

ThreadRequests ==
  (ThreadReads \X Get)
  \cup ({"create_discussion", "reply_discussion", "create_note"} \X Post)
  \cup ({"resolve_discussion", "update_note"} \X Put)
  \cup ({"delete_note"} \X Delete)

TimeRequests == (TimeWrites \X Post) \cup ({"get_time_stats"} \X Get)

-----------------------------------------------------------------------------
(* Toolset projects.                                                        *)

ProjectsActions ==
  Table({"list", "get", "get_languages", "list_forks", "list_transfer_locations"},
        {"create", "update", "delete", "fork", "archive", "unarchive", "star",
         "unstar", "transfer"},
        {"delete", "transfer"})

ProjectsRequests ==
  ({"list", "get", "get_languages", "list_forks",
    "list_transfer_locations"} \X Get)
  \cup ({"create"} \X MaybeGetThen("POST"))
  \cup ({"update", "transfer"} \X Put)
  \cup ({"delete"} \X {<<"DELETE", "GET">>})
  \cup ({"fork", "archive", "unarchive", "star", "unstar"} \X Post)

BranchesActions ==
  Table({"list", "get", "list_protected"},
        {"create", "delete", "delete_merged", "protect", "unprotect"},
        {"delete", "delete_merged"})

BranchesRequests ==
  ({"list", "get", "list_protected"} \X Get)
  \cup ({"create", "protect"} \X Post)
  \cup ({"delete", "delete_merged", "unprotect"} \X Delete)

TagsActions ==
  Table({"list", "get", "list_protected"},
        {"create", "delete", "protect", "unprotect"}, {})

TagsRequests ==
  ({"list", "get", "list_protected"} \X Get)
  \cup ({"create", "protect"} \X Post)
  \cup ({"delete", "unprotect"} \X Delete)

BadgesActions ==
  Table({"list", "get", "preview"}, {"create", "update", "delete"}, {})

\* preview renders on GitLab's side, with a GET.
BadgesRequests ==
  ({"list", "get", "preview"} \X Get)
  \cup ({"create"} \X Post)
  \cup ({"update"} \X Put)
  \cup ({"delete"} \X Delete)

-----------------------------------------------------------------------------
(* Toolset repository.                                                      *)

TreeActions == Table({"list"}, {}, {})

TreeRequests == {"list"} \X Get

FilesActions ==
  Table({"get", "get_raw", "get_blame"},
        {"create", "update", "delete", "create_directory"}, {})

FilesRequests ==
  ({"get", "get_raw", "get_blame"} \X Get)
  \cup ({"create", "create_directory"} \X Post)
  \cup ({"update"} \X Put)
  \cup ({"delete"} \X Delete)

CommitsActions ==
  Table({"list", "get", "get_diff", "compare", "list_statuses", "list_comments",
         "list_contributors"},
        {"batch_commit", "cherry_pick", "revert", "create_comment",
         "update_submodule"}, {})

\* A wrong version: batch_commit makes a commit of each file.
CommitsRequestsOneByOne ==
  ({"list", "get", "get_diff", "compare", "list_statuses", "list_comments",
    "list_contributors"} \X Get)
  \cup ({"cherry_pick", "revert", "create_comment"} \X Post)
  \cup ({"batch_commit"} \X {<<"POST", "POST">>})
  \cup ({"update_submodule"} \X Put)

CommitsRequests ==
  ({"list", "get", "get_diff", "compare", "list_statuses", "list_comments",
    "list_contributors"} \X Get)
  \cup ({"batch_commit", "cherry_pick", "revert", "create_comment"} \X Post)
  \cup ({"update_submodule"} \X Put)

-----------------------------------------------------------------------------
(* Toolset merge_requests.                                                  *)

MergeRequestsActions ==
  Table({"list", "get", "get_diff", "list_commits", "get_time_stats"},
        {"create", "update", "close", "reopen", "merge", "rebase"} \cup TimeWrites,
        {"merge"})

MergeRequestsRequests ==
  ({"list", "get", "get_diff", "list_commits"} \X Get)
  \cup ({"create"} \X Post)
  \cup ({"update"} \X MaybeGetThen("PUT"))
  \cup ({"close", "reopen", "rebase"} \X Put)
  \cup ({"merge"} \X {<<"PUT", "GET">>})
  \cup TimeRequests

ReviewsActions ==
  Table(ThreadReads \cup {"list_approvals", "list_approval_rules", "list_reviewers",
                          "list_draft_notes"},
        ThreadWrites \cup {"resolve_discussion", "approve", "unapprove",
                           "create_draft_note", "update_draft_note",
                           "delete_draft_note", "publish_draft_note",
                           "publish_review"}, {})

\* A comment on a diff line is anchored to the diff version read just before.
ReviewsRequests ==
  ({"list_approvals", "list_approval_rules", "list_reviewers",
    "list_draft_notes"} \X Get)
  \cup ({"create_discussion", "create_draft_note"} \X MaybeGetThen("POST"))
  \cup ({"approve", "unapprove"} \X Post)
  \cup ({"update_draft_note"} \X {<<"GET", "PUT">>})
  \cup ({"publish_draft_note"} \X Put)
  \cup ({"delete_draft_note"} \X Delete)
  \cup ({"publish_review"} \X {<<"POST">>, <<"POST", "POST">>})
  \cup (ThreadRequests \ ({"create_discussion"} \X Post))

-----------------------------------------------------------------------------
(* Toolset issues.                                                          *)

IssuesActions ==
  Table({"list", "get", "list_links", "get_time_stats"},
        {"create", "update", "close", "reopen", "delete", "move", "link",
         "unlink"} \cup TimeWrites,
        {"delete"})

IssuesRequests ==
  ({"list", "get", "list_links"} \X Get)
  \cup ({"create", "link"} \X Post)
  \cup ({"move"} \X MaybeGetThen("POST"))
  \cup ({"update", "close", "reopen"} \X Put)
  \cup ({"delete", "unlink"} \X Delete)
  \cup TimeRequests

IssueNotesActions == Table(ThreadReads, ThreadWrites, {})

LabelsActions ==
  Table({"list", "get"}, {"create", "update", "delete"}, {})

LabelsRequests ==
  ({"list", "get"} \X Get)
  \cup ({"create"} \X Post)
  \cup ({"update"} \X Put)
  \cup ({"delete"} \X Delete)

MilestonesActions ==
  Table({"list", "get", "list_issues", "list_merge_requests"},
        {"create", "update", "delete"}, {})

MilestonesRequests ==
  ({"list", "get", "list_issues", "list_merge_requests"} \X Get)
  \cup ({"create"} \X Post)
  \cup ({"update"} \X Put)
  \cup ({"delete"} \X Delete)

-----------------------------------------------------------------------------
(* Toolset pipelines.                                                       *)

PipelinesActions ==
  Table({"list", "get"}, {"create", "retry", "cancel", "delete"}, {"delete"})

PipelinesRequests ==
  ({"list", "get"} \X Get)
  \cup ({"create", "retry", "cancel"} \X Post)
  \cup ({"delete"} \X Delete)

JobsActions ==
  Table({"list", "get", "get_log", "list_artifacts", "get_artifact_file"},
        {"retry", "cancel", "play"}, {})

JobsRequests ==
  ({"list", "get", "get_log", "get_artifact_file"} \X Get)
  \cup ({"list_artifacts"} \X {<<"GET", "GET">>})
  \cup ({"retry", "cancel", "play"} \X Post)

CiVariablesActions ==
  Table({"list", "get"}, {"create", "update", "delete"}, {})

CiVariablesRequests ==
  ({"list", "get"} \X Get)
  \cup ({"create"} \X Post)
  \cup ({"update"} \X MaybeGetThen("PUT"))
  \cup ({"delete"} \X Delete)

SchedulesActions ==
  Table({"list", "get", "list_pipelines"},
        {"create", "update", "take_ownership", "play", "delete",
         "create_variable", "update_variable", "delete_variable"}, {})

SchedulesRequests ==
  ({"list", "get", "list_pipelines"} \X Get)
  \cup ({"create", "take_ownership", "play", "create_variable"} \X Post)
  \cup ({"update", "update_variable"} \X Put)
  \cup ({"delete", "delete_variable"} \X Delete)

RunnersActions ==
  Table({"list", "get", "list_jobs"}, {"update", "assign", "unassign", "delete"},
        {"delete"})

RunnersRequests ==
  ({"list", "get", "list_jobs"} \X Get)
  \cup ({"update"} \X Put)
  \cup ({"assign"} \X Post)
  \cup ({"unassign", "delete"} \X Delete)

-----------------------------------------------------------------------------
(* Toolsets releases and search.                                            *)

ReleasesActions ==
  Table({"list", "get"}, {"create", "update", "delete"}, {})

ReleasesRequests ==
  ({"list", "get"} \X Get)
  \cup ({"create"} \X Post)
  \cup ({"update"} \X Put)
  \cup ({"delete"} \X Delete)

ReleaseLinksActions ==
  Table({"list", "get"}, {"create", "update", "delete"}, {})

ReleaseLinksRequests ==
  ({"list", "get"} \X Get)
  \cup ({"create"} \X Post)
  \cup ({"update"} \X Put)
  \cup ({"delete"} \X Delete)

SearchActions == Table({"global", "group", "project"}, {}, {})

SearchRequests == {"global", "group", "project"} \X Get

-----------------------------------------------------------------------------
(* Toolset collaboration.                                                   *)

\* A wrong version: changing a member's role is not marked.
MembersActionsUnmarked ==
  Table({"list", "get", "list_group_members"}, {"add", "update", "remove"},
        {"remove"})

MembersActions ==
  Table({"list", "get", "list_group_members"}, {"add", "update", "remove"},
        {"update", "remove"})

MembersRequests ==
  ({"list", "get", "list_group_members"} \X Get)
  \cup ({"add"} \X Post)
  \cup ({"update"} \X Put)
  \cup ({"remove"} \X Delete)

UsersActions == Table({"get_current", "get", "search"}, {}, {})

\* get looks a username up first; get_current asks about the token as well.
UsersRequests ==
  ({"search"} \X Get)
  \cup ({"get"} \X MaybeGetThen("GET"))
  \cup ({"get_current"} \X {<<"GET", "GET">>})

WikisActions ==
  Table({"list", "get"}, {"create", "update", "delete"}, {})

WikisRequests ==
  ({"list", "get"} \X Get)
  \cup ({"create"} \X Post)
  \cup ({"update"} \X MaybeGetThen("PUT"))
  \cup ({"delete"} \X Delete)

WebhooksActions ==
  Table({"list", "get"},
        {"create", "update", "delete", "test", "set_custom_header",
         "delete_custom_header", "set_url_variable", "delete_url_variable"}, {})

\* Custom headers that come with a new URL follow in an update of their own.
WebhooksRequests ==
  ({"list", "get"} \X Get)
  \cup ({"create", "test"} \X Post)
  \cup ({"update"} \X {<<"PUT">>, <<"PUT", "PUT">>})
  \cup ({"set_custom_header", "set_url_variable"} \X Put)
  \cup ({"delete", "delete_custom_header", "delete_url_variable"} \X Delete)

SnippetsActions ==
  Table({"list", "get", "get_content"}, {"create", "update", "delete"}, {})

SnippetsRequests ==
  ({"list", "get", "get_content"} \X Get)
  \cup ({"create"} \X Post)
  \cup ({"update"} \X Put)
  \cup ({"delete"} \X Delete)

-----------------------------------------------------------------------------
(* The catalogue.                                                           *)

\* TOOLSETS: which tools each toolset brings.
ToolsOf ==
  [projects |-> {"gitlab_projects", "gitlab_branches", "gitlab_tags", "gitlab_badges"},
   repository |-> {"gitlab_repository_tree", "gitlab_files", "gitlab_commits"},
   merge_requests |-> {"gitlab_merge_requests", "gitlab_mr_reviews"},
   issues |-> {"gitlab_issues", "gitlab_issue_notes", "gitlab_labels",
               "gitlab_milestones"},
   pipelines |-> {"gitlab_pipelines", "gitlab_jobs", "gitlab_ci_variables",
                  "gitlab_pipeline_schedules", "gitlab_runners"},
   releases |-> {"gitlab_releases", "gitlab_release_links"},
   search |-> {"gitlab_search"},
   collaboration |-> {"gitlab_members", "gitlab_users", "gitlab_wikis",
                      "gitlab_webhooks", "gitlab_snippets"}]

ToolsetNames == DOMAIN ToolsOf
ToolNames == UNION {ToolsOf[t] : t \in ToolsetNames}

ToolActions ==
  [gitlab_projects |-> ProjectsActions, gitlab_branches |-> BranchesActions,
   gitlab_tags |-> TagsActions, gitlab_badges |-> BadgesActions,
   gitlab_repository_tree |-> TreeActions, gitlab_files |-> FilesActions,
   gitlab_commits |-> CommitsActions,
   gitlab_merge_requests |-> MergeRequestsActions,
   gitlab_mr_reviews |-> ReviewsActions, gitlab_issues |-> IssuesActions,
   gitlab_issue_notes |-> IssueNotesActions, gitlab_labels |-> LabelsActions,
   gitlab_milestones |-> MilestonesActions,
   gitlab_pipelines |-> PipelinesActions, gitlab_jobs |-> JobsActions,
   gitlab_ci_variables |-> CiVariablesActions,
   gitlab_pipeline_schedules |-> SchedulesActions,
   gitlab_runners |-> RunnersActions, gitlab_releases |-> ReleasesActions,
   gitlab_release_links |-> ReleaseLinksActions, gitlab_search |-> SearchActions,
   gitlab_members |-> MembersActions, gitlab_users |-> UsersActions,
   gitlab_wikis |-> WikisActions, gitlab_webhooks |-> WebhooksActions,
   gitlab_snippets |-> SnippetsActions]

ActionsOf(tool) == ToolActions[tool].read \cup ToolActions[tool].write

ToolRequests ==
  [gitlab_projects |-> ProjectsRequests,
   gitlab_branches |-> BranchesRequests, gitlab_tags |-> TagsRequests,
   gitlab_badges |-> BadgesRequests,
   gitlab_repository_tree |-> TreeRequests, gitlab_files |-> FilesRequests,
   gitlab_commits |-> CommitsRequests,
   gitlab_merge_requests |-> MergeRequestsRequests,
   gitlab_mr_reviews |-> ReviewsRequests, gitlab_issues |-> IssuesRequests,
   gitlab_issue_notes |-> ThreadRequests, gitlab_labels |-> LabelsRequests,
   gitlab_milestones |-> MilestonesRequests,
   gitlab_pipelines |-> PipelinesRequests, gitlab_jobs |-> JobsRequests,
   gitlab_ci_variables |-> CiVariablesRequests,
   gitlab_pipeline_schedules |-> SchedulesRequests,
   gitlab_runners |-> RunnersRequests, gitlab_releases |-> ReleasesRequests,
   gitlab_release_links |-> ReleaseLinksRequests,
   gitlab_search |-> SearchRequests, gitlab_members |-> MembersRequests,
   gitlab_users |-> UsersRequests, gitlab_wikis |-> WikisRequests,
   gitlab_webhooks |-> WebhooksRequests,
   gitlab_snippets |-> SnippetsRequests]

Requests(tool, action) ==
  {row[2] : row \in {r \in ToolRequests[tool] : r[1] = action}}

-----------------------------------------------------------------------------
(* How a handler goes on.  A verdict is what the outbound client tells it   *)
(* of a request: "done", "refused", or "unknown".                           *)

\* Handlers that answer all the same when their last request, a read, fails.
Lenient == {<<"gitlab_projects", "delete">>, <<"gitlab_users", "get_current">>}

\* Handlers whose last request, a read, is sent only after the one before it
\* was refused: the job's archives in place of the files in them, and the
\* state of the merge request that would not merge.
Fallback == {<<"gitlab_jobs", "list_artifacts">>, <<"gitlab_merge_requests", "merge">>}

\* The fallback that only explains the refusal, which is raised in any case.
Explained == {<<"gitlab_merge_requests", "merge">>}

\* Handlers that can raise an error of their own about what they have read: a
\* value that is hidden, a diff not computed yet, a name nobody has, a large file.
Particular ==
  {<<"gitlab_ci_variables", "update">>, <<"gitlab_mr_reviews", "create_discussion">>,
   <<"gitlab_mr_reviews", "create_draft_note">>, <<"gitlab_users", "get">>,
   <<"gitlab_files", "get">>}

\* A wrong version: one request too many.
ContinuesPast(handler, plan, at, verdict) == at <= Len(plan) /\ verdict = "done"

\* The handler goes on to its next request: the one before was done, or, for
\* a fallback, refused.
Continues(handler, plan, at, verdict) ==
  /\ at < Len(plan)
  /\ verdict = IF at = Len(plan) - 1 /\ handler \in Fallback THEN "refused" ELSE "done"

\* How the handler can end after its current request.  No handler catches a
\* PayloadTooLargeError to go on; it leaves open what became of the request.
Endings(handler, plan, at, verdict) ==
  LET last == at = Len(plan)
      usual == IF last /\ handler \in Explained THEN "refused"
               ELSE IF verdict = "done" \/ (last /\ handler \in Lenient) THEN "ok"
               ELSE verdict
  IN  {r \in {"ok", "refused", "unknown", "own_error"} :
         \/ r = usual /\ (~Continues(handler, plan, at, verdict) \/ verdict = "refused")
         \/ r = "unknown" /\ verdict = "unknown"
         \/ r = "own_error" /\ verdict = "done" /\ plan[at] = "GET" /\ handler \in Particular}

=============================================================================
