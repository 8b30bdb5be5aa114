----------------------------- MODULE ToolPolicy -----------------------------
(***************************************************************************)
(* A tool call from tools/list to its result: transport/mcp_server.py,     *)
(* tools/registry.py, tools/dispatcher.py and the handlers of the          *)
(* catalogue, each request of which is a call of the outbound client with  *)
(* the verdicts of DeliveryContract.  Agents may list the tools first and  *)
(* then keep to what they saw, or call anything; between two calls the     *)
(* operator may restart the server with other settings.                    *)
(*                                                                         *)
(* Tool calls share nothing in the server, so one agent is enough.         *)
(***************************************************************************)
EXTENDS Catalog, HandlerAnswers

CONSTANTS
  Absent,            \* None: a header or setting that was not given
  AllowlistValues,   \* what GITLAB_MCP_TOOLSETS may hold, split at its commas
  HeaderValues,      \* what X-MCP-Toolsets may hold, split at its commas
  TokenScopes        \* scopes a caller's token may have

ASSUME PolicyAssumption ==
  /\ \A v \in AllowlistValues \cup HeaderValues : v = Absent \/ v \subseteq STRING
  /\ \A scopes \in TokenScopes : scopes \subseteq STRING

VARIABLES
  server,    \* the settings the running server was started with
  view,      \* the tool an agent was shown last and kept, or Absent
  call,      \* the tool call under way or just answered, or Absent
  sent,      \* methods this call has sent to GitLab
  effects,   \* how many of its requests GitLab has carried out
  result     \* how the call was answered; "none" while its handler runs

vars == <<server, view, call, sent, effects, result>>

Settings == [up : BOOLEAN, allowlist : AllowlistValues, readOnly : BOOLEAN]

\* What a handler of a request can see of its caller: two headers and,
\* through GitLab, the scopes of the token.
Contexts == [toolsets : HeaderValues, readOnly : BOOLEAN, scopes : TokenScopes]

\* Names an agent may make up.
NoTool == "gitlab_nothing"
NoAction == "nothing"
MissingAction == ""

ToolsetOf(tool) == CHOOSE t \in ToolsetNames : tool \in ToolsOf[t]

-----------------------------------------------------------------------------
(* core/context.py, tools/registry.py.                                      *)

\* _parse_toolsets, toolset_allowlist: nothing but commas counts as absent.
Given(value) == IF value = {} THEN Absent ELSE value

\* _known
Known(names) == IF "all" \in names THEN ToolsetNames ELSE names \cap ToolsetNames

\* _known(strict=True) raises on a name that is no toolset.
Accepted(allowlist) ==
  Given(allowlist) = Absent \/ "all" \in allowlist \/ allowlist \subseteq ToolsetNames

\* Every Toolset leaves default_enabled at True.
DefaultToolsets == ToolsetNames

\* A wrong version: a header replaces the operator's list.
EnabledUncapped(s, context) ==
  IF Given(context.toolsets) # Absent THEN Known(context.toolsets)
  ELSE IF Given(s.allowlist) # Absent THEN Known(s.allowlist)
  ELSE DefaultToolsets

Available(s) ==
  IF Given(s.allowlist) # Absent THEN Known(s.allowlist) ELSE ToolsetNames

EnabledToolsets(s, context) ==
  LET requested ==
        IF Given(context.toolsets) # Absent THEN Known(context.toolsets)
        ELSE IF Given(s.allowlist) # Absent THEN Known(s.allowlist)
        ELSE DefaultToolsets
  IN  requested \cap Available(s)

\* build_request_context
ReadOnly(s, context) == s.readOnly \/ context.readOnly

Reads(tool, action) == action \in ToolActions[tool].read

\* Scopes of which a token needs one to be shown the action.
SufficientScopes(tool, action) ==
  IF tool = "gitlab_users" THEN {"api", "read_api", "read_user"}
  ELSE IF Reads(tool, action) THEN {"api", "read_api"}
  ELSE {"api"}

\* A wrong version: only the token's scopes hide an action.
ShownByScope(s, context, scopes, tool, action) ==
  scopes = Absent \/ SufficientScopes(tool, action) \cap scopes # {}

\* _shown
Shown(s, context, scopes, tool, action) ==
  /\ ReadOnly(s, context) => Reads(tool, action)
  /\ scopes = Absent \/ SufficientScopes(tool, action) \cap scopes # {}

ShownActions(s, context, scopes, tool) ==
  {action \in ActionsOf(tool) : Shown(s, context, scopes, tool, action)}

\* A wrong version: a tool that deletes nothing counts as one that only reads.
ReadsOnlyHarmless(tool, actions) == actions \cap ToolActions[tool].destructive = {}

\* read_only_hint of _mcp_tool
ReadsOnly(tool, actions) == actions \subseteq ToolActions[tool].read

\* resolve and the checks of Dispatcher.call, in their order.
Refusal(s, context, tool, action, confirm) ==
  IF tool \notin ToolNames THEN "unknown_tool"
  ELSE IF ToolsetOf(tool) \notin EnabledToolsets(s, context) THEN "toolset_disabled"
  ELSE IF action = MissingAction THEN "invalid_arguments"
  ELSE IF action \notin ActionsOf(tool) THEN "unknown_action"
  ELSE IF ReadOnly(s, context) /\ ~Reads(tool, action) THEN "read_only_mode"
  ELSE IF action \in ToolActions[tool].destructive /\ ~confirm
       THEN "confirmation_required"
  ELSE "none"

PolicyRefusals == {"unknown_tool", "toolset_disabled", "unknown_action",
                   "read_only_mode", "confirmation_required", "invalid_arguments"}

-----------------------------------------------------------------------------
(* GitLab.                                                                  *)

\* GitLab refuses what the token's scopes do not cover.
Covers(scopes, tool, method) ==
  \/ "api" \in scopes
  \/ method = "GET" /\ "read_api" \in scopes
  \/ method = "GET" /\ tool = "gitlab_users" /\ "read_user" \in scopes

-----------------------------------------------------------------------------

Init ==
  /\ server \in {s \in Settings : s.up = Accepted(s.allowlist)}
  /\ view = Absent
  /\ call = Absent
  /\ sent = {}
  /\ effects = 0
  /\ result = "none"

Idle == server.up /\ call = Absent
Running == call # Absent /\ result = "none"

\* The operator stops the server, whatever it is doing, and starts it with
\* other settings; an allow-list with a typo keeps it from starting.
Restart ==
  /\ server' \in {s \in Settings : s.up = Accepted(s.allowlist)}
  /\ server' # server
  /\ call' = Absent
  /\ sent' = {}
  /\ effects' = 0
  /\ result' = "none"
  /\ UNCHANGED view

\* list_tools: the scopes are looked up, or the look-up fails and nothing is
\* hidden.  The agent keeps the entry of one tool.
ListTools(context) ==
  /\ Idle
  /\ \E tool \in ToolNames, scopes \in {context.scopes, Absent} :
       LET actions == ShownActions(server, context, scopes, tool)
       IN  /\ ToolsetOf(tool) \in EnabledToolsets(server, context)
           /\ actions # {}
           /\ view' = [tool |-> tool, actions |-> actions, context |-> context,
                       server |-> server, readsOnly |-> ReadsOnly(tool, actions),
                       confirm |-> actions \cap ToolActions[tool].destructive]
  /\ UNCHANGED <<server, call, sent, effects, result>>

\* call_tool and Dispatcher.call up to `action.handler(...)`.
Dispatch(context, tool, action, confirm) ==
  /\ LET refusal == Refusal(server, context, tool, action, confirm)
         Called(plan) == [tool |-> tool, action |-> action, context |-> context,
                          confirm |-> confirm, plan |-> plan, at |-> 1]
     IN  \/ /\ refusal # "none"
            /\ result' = refusal
            /\ call' = Called(<<>>)
         \/ /\ refusal = "none"
            /\ result' = "invalid_arguments"
            /\ call' = Called(<<>>)
         \/ /\ refusal = "none"
            /\ result' = "none"
            /\ \E plan \in Requests(tool, action) : call' = Called(plan)
  /\ UNCHANGED <<server, view, sent, effects>>

\* An agent that has listed sends the same headers again and uses the tool it
\* was shown, with an action it was shown or one it knows from elsewhere.
CallShown ==
  /\ Idle
  /\ view # Absent
  /\ \E action \in ActionsOf(view.tool), confirm \in BOOLEAN :
       Dispatch(view.context, view.tool, action, confirm)

\* An agent that has not listed calls whatever it likes.
CallUnseen(context) ==
  /\ Idle
  /\ view = Absent
  /\ \/ \E tool \in ToolNames, confirm \in BOOLEAN :
          \E action \in ActionsOf(tool) \cup {NoAction, MissingAction} :
            Dispatch(context, tool, action, confirm)
     \/ Dispatch(context, NoTool, NoAction, FALSE)

\* The handler's current request ends.
Answer ==
  /\ Running
  /\ LET handler == <<call.tool, call.action>>
         method == call.plan[call.at]
     IN  \E answer \in Answers(method, Covers(call.context.scopes, call.tool, method)) :
           /\ sent' = sent \cup {method}
           /\ effects' = effects + answer[2]
           /\ \/ /\ Continues(handler, call.plan, call.at, answer[1])
                 /\ call' = [call EXCEPT !.at = @ + 1]
                 /\ UNCHANGED result
              \/ /\ result' \in Endings(handler, call.plan, call.at, answer[1])
                 /\ UNCHANGED call
  /\ UNCHANGED <<server, view>>

\* The agent goes away while a request is under way.
Disconnect ==
  /\ Running
  /\ LET method == call.plan[call.at]
     IN  \E answer \in Answers(method, Covers(call.context.scopes, call.tool, method)) :
           /\ sent' = sent \cup {method}
           /\ effects' = effects + answer[2]
  /\ result' = "cancelled"
  /\ UNCHANGED <<server, view, call>>

\* The agent has its result; nothing of the call stays in the server.
Return ==
  /\ result # "none"
  /\ call' = Absent
  /\ sent' = {}
  /\ effects' = 0
  /\ result' = "none"
  /\ UNCHANGED <<server, view>>

Next ==
  \/ Restart
  \/ \E context \in Contexts : ListTools(context) \/ CallUnseen(context)
  \/ CallShown
  \/ Answer
  \/ Disconnect
  \/ Return

Spec == Init /\ [][Next]_vars

-----------------------------------------------------------------------------
(* Properties.                                                              *)

Results == PolicyRefusals \cup {"none", "ok", "refused", "unknown", "own_error",
                               "cancelled"}
Methods == {"GET", "POST", "PUT", "DELETE"}

KnownActions == UNION {ActionsOf(tool) : tool \in ToolNames}

Views == [tool : ToolNames, actions : SUBSET KnownActions, context : Contexts,
          server : Settings, readsOnly : BOOLEAN, confirm : SUBSET KnownActions]

ToolCalls == [tool : ToolNames \cup {NoTool},
              action : KnownActions \cup {NoAction, MissingAction},
              context : Contexts, confirm : BOOLEAN,
              plan : Seq(Methods), at : Nat \ {0}]

ASSUME AbsentAssumption == Absent \notin ToolCalls

\* The variables have their types, and a handler that runs stands at a
\* request of its plan.
TypeOK ==
  /\ server \in Settings
  /\ view = Absent \/ view \in Views
  /\ call = Absent \/ call \in ToolCalls
  /\ sent \subseteq Methods
  /\ effects \in Nat
  /\ result \in Results
  /\ Running => call.at \in 1..Len(call.plan)

\* While the operator's setting or the caller's header asks for read-only
\* mode, a call sends GitLab nothing but GETs: the checks hold for a direct
\* call too, and no entry of the catalogue is declared a read and has a
\* handler that writes (registry.py:113, context.py:57).
ReadOnlyHolds ==
  call # Absent /\ (server.readOnly \/ call.context.readOnly) => sent \subseteq {"GET"}

\* No list of names, or one that holds "all", leaves every toolset in.
Admits(names, toolset) ==
  names \in {Absent, {}} \/ "all" \in names \/ toolset \in names

\* A call that reaches GitLab belongs to a toolset that the operator's
\* allow-list and the caller's header both admit: the header selects within
\* the list and cannot widen it (registry.py:60).
WithinBothLists ==
  sent # {} => /\ Admits(server.allowlist, ToolsetOf(call.tool))
               /\ Admits(call.context.toolsets, ToolsetOf(call.tool))

\* Neither the operator's limits nor those the caller chose are lifted on the
\* way from the header to the handler's requests.
LimitsHold == ReadOnlyHolds /\ WithinBothLists

\* LIMITATIONS.md:153.
DocumentedConfirm ==
  {<<"gitlab_projects", "delete">>, <<"gitlab_projects", "transfer">>,
   <<"gitlab_branches", "delete">>, <<"gitlab_branches", "delete_merged">>,
   <<"gitlab_merge_requests", "merge">>, <<"gitlab_issues", "delete">>,
   <<"gitlab_pipelines", "delete">>, <<"gitlab_runners", "delete">>,
   <<"gitlab_members", "update">>, <<"gitlab_members", "remove">>}

\* GitLab carries out none of the actions documented to need confirm=true
\* before the caller has sent it, and refuses no other for want of it
\* (dispatcher.py:51).
ConfirmedAsDocumented ==
  call # Absent =>
    LET documented == <<call.tool, call.action>> \in DocumentedConfirm
    IN  /\ documented /\ effects > 0 => call.confirm
        /\ result = "confirmation_required" => documented

\* A call from the list it was shown in, with the same headers and the same
\* running server: view and call are of one mind.
AsShown ==
  /\ view # Absent
  /\ call # Absent
  /\ view.server = server
  /\ view.tool = call.tool
  /\ view.context = call.context

\* What tools/list shows, tools/call accepts: an action an agent was shown is
\* refused by no policy, unless confirm is missing, which the schema asked for
\* (registry.py:75 against registry.py:89 and schema.py:68).
ShownIsCallable ==
  AsShown /\ call.action \in view.actions =>
    /\ result \notin PolicyRefusals \ {"confirmation_required", "invalid_arguments"}
    /\ result = "confirmation_required" => call.action \in view.confirm

\* A tool that was shown with read_only_hint changes nothing in GitLab, not
\* even by an action that was hidden: the reason it was hidden for still
\* stands between the call and GitLab (mcp_server.py:92).
HintIsTrue == AsShown /\ view.readsOnly => effects = 0

\* A call that says ok has done what it says: an action that writes has had a
\* request carried out, also where a later read of its handler failed
\* (projects.py:166, users.py:41).
OkIsDone ==
  result = "ok" /\ call.action \in ToolActions[call.tool].write => effects > 0

\* A call that created something and is answered with a refusal is the review
\* whose error says that the drafts are out: no other handler goes on to a
\* request that can be refused after a POST was done (reviews.py:233).
RefusalCreatesNothing ==
  result = "refused" /\ effects > 0 /\ sent \subseteq {"GET", "POST"} =>
    <<call.tool, call.action>> = <<"gitlab_mr_reviews", "publish_review">>

\* A handler of several requests answers ok only if it is done, and refused
\* only if nothing was created, unless its error says what was.
AnswersAreTrue == OkIsDone /\ RefusalCreatesNothing

=============================================================================
