# mcp-gitlab in TLA+

TLA+ models of [`mcp-gitlab`](../src/README.md), the MCP server that gives agents GitLab tools, with
the TLC configurations that check them on small instances and the TLAPS proofs that hold for every
instance. Paths below are relative to `src/src/mcp_gitlab/` unless they say otherwise. Modules, runs,
mapped lines, hazards and theorems are indexed in `PROJECT.json`.

    tlc -config MCGitLabClient_writes.cfg MCGitLabClient.tla     # one run
    tlapm GitLabClientProofs.tla                                 # one proof module

## 1. The system

An agent's MCP client sends HTTP requests to the server. Each carries its caller's GitLab token,
passes a few gates, becomes a tool call, and is answered by one or several calls of GitLab's REST
API. The server keeps no credentials and, in its default stateless mode, no state between requests.
State that outlives a step is therefore found in four places: a call of the outbound client while it
retries, GitLab itself, the pid file of the background service, and the two processes of the
standalone container. That is where the models are.

    agent ── HTTP ──> gates ──> MCP adapter ──> registry, dispatcher ──> tool handler
                                                                            │ 1..3 calls
                              service.py / standalone.py                    v
                              (run the server process)              GitLabClient ── HTTP ──> GitLab

| Component | State | Operations | Interacts with | What is hard | Correct when |
|---|---|---|---|---|---|
| `gitlab/retry.py` | none | `delay_after_status`, `delay_after_transport_error`, `backoff`, `retry_after_seconds` | called by the client | hints beyond the cap, past dates; which errors prove a request unsent | sleeps are bounded; a POST is repeated only if it had no effect |
| `gitlab/client.py` | per call: two retry counters, hop, response; shared: httpx pool | `request`, `_send`, `_redirected` | handlers above, GitLab below | lost answers, cancellation at any await, redirects, a full pool | POST at most once, honest outcomes, no leak, token stays home, calls end |
| `core/errors.py` | none | status to error class, `retryable` | client, agents | what an agent does with `retryable` | repeating is safe where it is advised |
| `service.py` | pid file, process table | `start`, `stop`, `restart` | other CLI processes, the server | TOCTOU on the file, servers that ignore SIGTERM, CLI processes killed half-way | the file names the server, one server at a time, commands end |
| `standalone.py` | stop list, `running`, two deadlines | `supervise` and its helpers | Docker, Caddy, the server | signals and exits between any two steps, partial start | nothing outlives it, honest exit status, one exit stops both |
| `transport/http.py`, `core/context.py` | body read so far, whether it was replayed | routes and four ASGI gates | peer, uvicorn, MCP SDK | chunked bodies, false lengths, disconnects, order of the gates | strangers are not read, a body is bounded and whole, every request ends |
| `transport/mcp_server.py`, `tools/registry.py`, `tools/dispatcher.py` | none | `list_tools`, `call_tool`, `resolve`, `visible` | settings, headers, token scopes | what was listed is stale when called | the operator's limits cannot be lifted; destructive actions are confirmed |
| `tools/schema.py` | none | `build_input_schema` | registry | merging fields of several actions, of which a caller sees any subset | a value that an action takes is accepted, and none that an action requiring the parameter refuses |
| `toolsets/**` (26 tools) | none; GitLab's | one request each, except about ten handlers | client | read, carry over, write; two writes in a row; reading back; a PUT repeated after it took effect; 204 declared access levels | entries fit handlers; nothing older returns, nothing unseen is overwritten or merged, no false report |
| `config.py`, `__main__.py` | none | `Settings`, `check_transport_policy`, `main` | environment | combinations | no plaintext beyond loopback unless asked |
| `core/logging.py`, `gitlab/pagination.py`, `gitlab/paths.py`, `gitlab/scopes.py` | none | conversions | all | | |
| `deploy/`, `Dockerfile` | | scripts, Caddy | service, standalone | | external |

## 2. The modules

| Module | Models | State and actions in the code |
|---|---|---|
| `RetryPolicy` | `gitlab/retry.py` | One operator per method. `float \| None` is the set of delays the jitter can give; `{}` is `None`. |
| `DeliveryContract` | (abstract) | What a tool handler may believe: a call is carried out some number of times and concludes as done, refused or unknown. |
| `GitLabClient` | `gitlab/client.py`, GitLab, the network | `statusRetries`, `networkRetries`, `hop` are the locals of `request` and `_send`; `pc` is the await the call stands at. `Send`, `Answer`, `AnswerLost`, `ConnectFails` are what `self._http.send` can do, `FollowRedirect`, `TooLarge`, `BodyLost`, `BodyRead` the branches of `_send`'s `try`, each with the `finally` that closes the response; `Retry` is the end of `self._sleep`. `applied`, `abandoned` and `LateExecution` are GitLab's side. |
| `RetryingAgent` | an agent above the client, `core/errors.py` | Repeats a tool call once when the error envelope says `retryable`. |
| `Service` | `service.py`, `_service` in `__main__.py` | `pidFile` and `proc` are the file and the process table; per operator `pc` is the next file operation, liveness test or signal. `write_text` is two steps (truncate, write); `linked` says whether the file an operator has open still is the pid file, since an unlinked one can be written to without effect. `orderly` remembers that no command overlapped another or was killed. |
| `Standalone` | `supervise` in `standalone.py` | `stop`, `child` and `code` are `stop`, `running` and the `poll()` results; `expired` is the deadline of the loop under way. `Raise` is `raise _Exit`, after which the `finally` clause (`Terminate`, `Reap`, `Kill`) runs. |
| `Catalog` | `toolsets/**` | Per tool, `...Actions` is what its `Action(...)` entries declare, `...Requests` the HTTP methods its handlers send; 26 tools, 204 actions. How a handler goes on with a request's verdict, and how it can end, are `Continues` and `Endings`; the few that do not just raise when a request fails are in `Lenient`, `Fallback`, `Explained`, those that can refuse what they have read in `Particular`. |
| `HandlerAnswers` | `GitLabClient.request`, as its callers see it | `Answers`: the verdicts a handler can be told of a request, with whether GitLab carried it out. |
| `PlannedHandler` | (abstract) | One call as `Catalog` promises it: the requests of one plan in their order, then an ending. |
| `ToolPolicy` | `registry.py`, `dispatcher.py`, `mcp_server.py`, the headers of `context.py` | `server` holds the settings, `view` what an agent kept of `tools/list`, `call` the tool call under way. `Dispatch` is `Dispatcher.call` up to the handler, with `Refusal` its checks in their order; `Answer` is one request of the handler ending, after which it goes on or the call ends; `Restart` is the operator's. |
| `HttpGate` | `transport/http.py`, uvicorn, the peer | `Refusal` is what the head alone settles: the routes' method check, `RequireCredentials`, the declared length, `RefuseStandaloneStream`. `ReadBody` is `await receive()` in `LimitRequestBody`'s loop, `body` the bytes of `chunks`; `ReplaysBody` is `replay`, `Normalized` is `NormalizeHost`. `SdkReceives` and `SdkAnswers` are the SDK as the gates see it. |
| `ToolCall` | a handler's awaits, the client reduced, GitLab, its other users | `Ask` is `await ctx.gitlab.<method>(...)`, `Return` and `Raise` how a handler ends. `Deliver` is all that can become of a request: answered, turned down, spoilt, lost (and repeated while `tries` lasts, unless it is a POST); `stray` holds given-up attempts that `CarriedOutLate`. `Cancelled` ends the handler at its await. `before`, `past` and `heard` are history. |
| `CarriedEdits` | `update_variable`, `update_wiki_page`, `update_draft_note` | Read a field the caller left out, send it back with the rest. |
| `FileCalls` | `update_file`, `delete_file` | The change goes out with `last_commit_id`; GitLab compares. |
| `MergeRequestCalls` | `update_merge_request` with `draft`, `merge`, `_merge_refusal` | `WithDraftMarker` is `_with_draft_marker`; `MergeContinue` follows the status codes to `MergePendingError`, `MergeBlockedError` or the error itself. |
| `ReviewCalls` | `publish_review`, `create_discussion` and `create_draft_note` on a diff line | Two POSTs, the second with a hint when it fails; `DiffReady` is `_diff_position`. |
| `WebhookCalls` | `update_hook`, `_written` | `InTwo` says when the custom headers wait for a second PUT; `HookNotes` is what `_written` adds. A hook's headers are a set: the former value of the one the update names, its new value, and one it does not name, since a PUT adds or replaces only the ones named. |
| `ProjectCalls` | `delete_project` | DELETE, then the read-back that `DeletionStatus` turns into a word. |
| `InputSchemas` | `tools/schema.py`, the merge in `registry.py` | `Merge` is one turn of `build_input_schema`'s loop, `Merges` what the loop has made of a parameter after each action; `ListTool` lists any selection of a tool's actions. |
| `ToolCalls`, `Serving` | the composition | `ToolCalls` is any one of the calls above, and their mapping to `PlannedHandler` (`HandlerOf`, `PlanOf`, `OutcomeOf`); `Serving` puts it behind `HttpGate`. |
| `MC*` | | Constants of the instances; the `.cfg` files are named after the module they instantiate, `MCService_*.cfg` after `Service` and `ToolCalls_*.cfg` after `ToolCalls`, whose constants need no definitions. |
| `*Proofs` | | Theorems and their proofs. |

Composition: `GitLabClient` extends `RetryPolicy` and instantiates `DeliveryContract` as its
abstract specification; `RetryingAgent` extends `GitLabClient`, puts an agent on top of its actions
and replaces its `Next`. `ToolPolicy` extends `Catalog`; below a handler's request it has, in place
of the client, `Answers`, which `GitLabClientProofs` shows to be all that the retry loop can tell a
handler. `ToolCall` adds what a handler can tell of the retries: how often a request may have been
carried out, and that it may still be. `ToolCalls` instantiates `PlannedHandler`: the twelve
handlers that are written out request by request are shown to do no more than `Catalog` says, which
is what `ToolPolicy` lets the whole catalogue do. The handler modules extend `ToolCall` and each say
what GitLab makes of their requests (`...Served`) and how the handler goes on (`...Continue`).
`Serving` extends `HttpGate` and `ToolCalls`: the SDK's serving of the message is a tool call, and
its answer waits for the call's end.

Operators named `...AnyMethod`, `...Forgotten` and so on, with "A wrong version" in their comment, are
not part of the models: `PROJECT.json` puts them in the place of an operator to show that a property
notices.

## 3. The runs

| Run | Instance | Shows |
|---|---|---|
| `client_writes` | a POST and a PUT, pool of 1, 2 status and 1 network retries, five header pairs (within the cap, beyond it, past date, unusable text) | `PostAtMostOnce`, `EffortBounded` (attempts and single sleeps), `PoolAccounting`, and that the loop implements `DeliveryContract` (`KeepsContract`): what a handler is told was done or refused was. |
| `agent_ratelimit` | a POST and its repetition by an agent that repeats after `gitlab_rate_limited` only, beside a download that is redirected to another host and back; pool of 1 | `OneEffect`: two calls, at most one thing created. `TokenStaysHome` over the redirects, and `EveryCallEnds`. |
| `agent_documented` (violated) | the same agent repeating after all three retryable errors | `ANSWERING-SKILL.md` says "back off and retry" for all three; a POST that GitLab carried out before its 5xx is then carried out again. |
| `service_commands` | two operators whose commands may overlap and be killed at any step, 2 process ids that are used again, servers that crash, ignore SIGTERM, lose the race for the port | `CommandsEnd` and `StopStops` in any case; `TrackedInOrder` and `OneServer` for commands given one after the other: the pid file names the server, and only one is started. |
| `service_concurrent` (violated) | two operators, 4 process ids | `Tracked` fails: a second command can read the file just truncated, unlink it as invalid, and leave a server no file names. |
| `service_handover` (violated) | one operator | `HandOver` fails: `restart` does not wait for the process it sent SIGKILL. |
| `standalone_supervised` | exit statuses -15, 0, 2 | `NoChildLeft`, `SuccessWasAsked`, `CaddyComesSecond`, and `SuperviseEnds`: one exit, or one signal, ends both children and supervise. |
| `standalone_documented` (violated) | the same | the docstring's "0 after SIGTERM or SIGINT" holds only for signals that a `_check` still sees. |
| `tool_policy` | the whole catalogue; 3 allow-lists, 4 headers, 3 kinds of token, both read-only switches; agents that listed keep to one tool, the others call anything; restarts in between | `LimitsHold` (read-only, both lists), `ConfirmedAsDocumented`: no check is lost on the way from header to handler, and the catalogue's entries fit its handlers. `ShownIsCallable`, `HintIsTrue`: a list that is still valid promises neither too much nor too little. `AnswersAreTrue`: handlers of several requests report what was done. |
| `serving` | one request of any kind against a limit of 2 units with bodies up to 4, declared truly, falsely or not; then any tool call of section 2, or a listing; 1 repetition, 2 changes by others | The gates: `GatesKeepOut`, `BodyIsSound`, `GitLabOnlyAfterGates`, `EveryRequestEnds`. The handlers: `NothingOlderReturns`, `SeenCommitsOnly`, `TitleAsAsked`, `MergesWhatWasReviewed`, `MergedIsNotPending`, `ReviewInOrder`, `AnchorsAreWhole`, `HookIsSound`, `DeletionToldTruly`, and `KeepsToCatalogue`: all twelve implement `PlannedHandler`. The listing: `SchemaFits`. |
| `merge_blocked` (violated) | `merge` and everybody else | `BlockedNeedsAction` fails: a check that ends between the refused PUT and the look at the merge request leaves "A project rule blocks merging (mergeable)". |
| `review_summary` (violated) | `publish_review` | `SummaryHintIsTrue` fails: "published, but not the summary" is also said when only the answer was lost. |

The six violated runs check a sentence of the documentation or of a message that the code does not
keep, and each has an entry under `findings`. They need a second operator, a server that ignores
SIGTERM for ten seconds, a signal within the last connection attempt, a 5xx or a lost answer that came
after the fact, or a pipeline that ends between two requests.

Met while modelling, without a run of their own:

- `docs/prd/PRD-05-pipelines.md`, line 56: "`update` without `value` keeps the current one". A value that another
  client writes between the read and the PUT is replaced by the one read (`variables.py:113`).
  `NothingOlderReturns` is the most that holds: nothing from before the call comes back.
- `LIMITATIONS.md`, lines 85 to 87, on a webhook's URL: "the tool warns when it may have happened",
  that is, when GitLab has dropped the token and custom headers. `update` with a new url and one
  custom header, on a hook that also has another, does not: the first PUT clears both headers, the
  second sets the one that was sent ("adds or replaces the ones named", `webhooks.py:104`), and
  `_written` has a note on headers only if none were sent (`webhooks.py:267`). Nor does an update of
  `url_variables` alone, which moves the hook too. `DropIsTold` is therefore about updates with a
  url, and about headers only when none were sent; in both cases it leaves out, the model has the loss.
- A CLI process killed between `_spawn` and `write_text` leaves a server that no file names, and `stop`
  signals a number that may by then be another server's. The model takes the first step (`Interrupt`)
  and excludes the second (`Fresh`); no property covers them, since the code does nothing about either.
- `_with_draft_marker` takes one marker off: a title with two stays a draft after `draft=false`.
- `NormalizeHost` lowers the request's Host, but `MCP_ALLOWED_HOSTS` is taken as written: a name
  configured in capitals is never matched (`AllowedNames` assumes lower case).
- `PayloadTooLargeError` is no `GitLabError`: `publish_review` gives no hint, and `_merge_refusal`
  loses the first error, when the second answer is too large.

### Bounds, and why they are enough

- Two calls: calls share nothing but the pool, and one other call is enough to fill a pool of one,
  time out on it and be cancelled while holding it. The proofs drop the bound.
- `MaxRetries` 2 and `MaxNetworkRetries` 1 leave room for a retry after a retry, and for each budget
  to run out while the other is not used up; the code's defaults are 3 and 1.
- Delays are whole units with `MaxDelay` 2 and `BaseDelay` 1, so that the exponential ceiling meets
  the cap and a hint lies inside, on and outside it.
- `MaxRedirects` 2 admits out and back; the code allows a few more of the same.
- Process ids 2 in `service_commands`, so that the id in a stale file comes back for a new server; an
  id a command holds at the moment is not handed out again (`Fresh`): the code cannot tell a reused id.
  The two violated runs have 4: one up, one ending or killed, one booting, one in a stale file.
- Two operators: each race of the service is between one command and one other.
- One agent, one tool call at a time in `ToolPolicy`: calls share nothing in the server but the client.
  The catalogue is not cut down. The allow-lists and headers are those with which each branch of
  `_parse_toolsets`, `_known` and `enabled_toolsets` is taken; the proofs hold for all others.
- A repeated call is repeated once; a third attempt meets what the second did. So it is with `Retries`
  1 in `serving`: one attempt that was lost or is still to come, and one that is answered.
- `Changes` 2: somebody can change the thing before the handler's write and again before a late one.
  The proofs about tool calls drop both bounds.
- `MaxRequestBytes` 2 with a `ServerBuffer` of 1: the limit is met, and crossed, in the middle of a
  body; `LongestBody` 4 is longer than the limit and what the server buffers. Lengths are in units of
  any size, and the proofs hold for all.
- `ForgetArrival` drops, when a tool call starts, what the gates have finished with (the body's size,
  the declared length, the spelling of the host); `ServingProofs` shows that the gates' invariant does
  not need it.
- One parameter and three actions (`DeclaredActions`) in `InputSchemas`: parameters are merged
  independently, and three declarations in a row bring out the order of the fold. The proof holds for
  any number of actions.

### Fairness

- `GitLabClient`: weak fairness of `Progress(c)`. httpx is given a timeout that covers connecting,
  reading and waiting for the pool, and `anyio.sleep` returns, so no await lasts for ever. A body sent
  in drops, each within the read timeout, ends at the size cap.
- `Service`: a command that is not killed runs on (weak fairness of `Progress(o)`), a server that was
  started binds or gives up, and SIGKILL works. `Popen` may fail (`SpawnFails`), which is also what a
  command meets when the model's few process ids are used up. No fairness for a server that was sent
  SIGTERM.
- `Standalone`: weak fairness of `supervise`, of the clock and of a child's end after SIGKILL. None
  for a child that should listen, or that was told to terminate.
- `Serving`: weak fairness of each await's end. A GitLab request ends by the client's own liveness
  (`EveryCallEnds`). A peer in the middle of its body sends on or leaves: this one is the peer's, for
  the code puts no time limit on a body, and without it a request can be held open. A peer that has
  sent its body need do nothing more. `EveryRequestEnds` is claimed of POSTs, since a GET of a
  stateful server is a stream that may stay open.

## 4. What is proved

All of it for any number of calls, operators and process ids, any budgets, pool, limits and host
names, any number of repetitions by the client and of changes by GitLab's other users, and any number
of actions that declare a parameter. Every invariant and action property of a passing run is a
theorem.

**The client** (`GitLabClientProofs`). `PostAtMostOnce` is not inductive: it says nothing of how far a
call is, so that a POST that was already carried out could be sitting in `sleeping`, about to be sent
again. `IInv` says what holds at each stage. `DeliveryInv`: while a POST is idle, connecting, waiting
or sleeping it has had no effect and nothing is abandoned; while its response is read, nothing is
abandoned and the effect is one this status allows. The step that matters is the way into `sleeping`:
the lemmas `StatusDelaysSound` and `TransportDelaysSound` show that the policy hands out a delay for
a POST only after a 429, whose effects are `{0}`, or after an error that proves the request never
sent. `AcceptedInv` ties a success in hand to an effect, `AttemptInv` the attempts to the two
counters, and `TokenInv` the token to GitLab's host. From `IInv`: `TypeCorrect`,
`PostIsSentOnce`, `RefusedPostHasNoEffect` and `AcceptedWriteIsDone` (two consequences of the contract
that are stated for themselves), `EffortIsBounded`, `TokenNeverLeaves`, `NoConnectionLeaks`, and
`ImplementsContract`: under the mapping
that reads `effects` as `applied` and `verdict` from `outcome`, each step of the loop is a step of
`DeliveryContract` or a stutter. `HandlersAreToldTruly` is the bridge to the models above the client:
at the end of a call of any method, its verdict and its effect are among the `Answers` those models
give their handlers. That needs one more fact, that a GET changes nothing (`ReadsChangeNothing`).
`NoCallGoesOnForEver` bounds a call's steps by a measure, `StepsLeft`: the retries left, each worth a
`Round` of every hop a redirect allows, plus the stages left of the round under way. Every step of
the call lowers it, and no step of another call touches it. Assumed: `RetryAssumption` and `ClientAssumption`, which type the
constants, and that downloads are GETs.

**The agent** (`RetryingAgentProofs`). `RateLimitRetryIsSafe`: if `RetryOn` holds no more than
`rate_limited` and both calls are POSTs, then `OneEffect`, whatever other calls run beside them. The second call begins only when the first was refused, and a
refused call has no effect and nothing abandoned, by the client's invariant; its budget of one effect
is then the second's. `AgentsAreCallers`: whatever an agent repeats after, its behaviours are
behaviours of the client, whose theorems therefore hold below it.

**The service** (`ServiceProofs`). `TypeCorrect` and `StopEndsItsProcess` hold with any number of
concurrent and interrupted commands: after SIGKILL, or once the process was seen gone, nothing
revives its id while the command remembers it. `ServerIsTracked` and `AtMostOneServer` speak of
behaviours in which commands came one after the other and none was killed half-way, which the history
variable `orderly` records, and the violated run `service_concurrent` shows that the code needs it
too. Their invariant `Known` says for each step of a command which processes can be alive: before the
check, only the one the file names; after `discard`, none; from spawn to write, only the one just
spawned. `NoCommandGoesOnForEver`: a command takes at most twelve steps. Its measure needs an
invariant of its own, `StopSignals`: only `stop()` signals a process, so that a `restart` counts the
steps of `start()` once, as long as it is in `stop()`. Assumed: `ServiceAssumption`, and for these two that there is an operator at all.

**The supervisor** (`StandaloneProofs`). `TypeCorrect`, `NoOrphans`, `SuccessIsAsked`, `CaddyBehindServer`, from an
invariant that follows the `finally` clause: after `Terminate` no child is merely running, after the
first wait the server is gone, after the second both are; and a status of 0 implies a signal, since
the status made of a child's is never 0 (`ExitStatusFails`). `StoppingIsBounded`: once in the
`finally` clause, supervise has at most five steps to take, whatever the children do.

**The tool policy** (`ToolPolicyProofs`), for any allow-lists, headers and token scopes. The lemma
`CatalogSound` goes through the 26 tools and shows that an action declared `Access.READ` has only
GETs in its plans. `CallInv` says that a call which has sent a request, or is about to, passed every
check under the settings that hold now (`Granted`): a restart ends the calls of the server before
it, so nothing changes between check and use. Hence `LimitsBind` (from `ReadOnlySendsGets` and
`BothListsBind`) and, with the lemma that LIMITATIONS.md's list is the catalogue's, `ConfirmHolds`.
`ViewInv` says what a kept list was computed from, and gives `ShownCanBeCalled`; with `EffectInv`
(what changed something was no GET, with a token of scope `api`) it gives `HintHolds`. `AnswersHold`
(`AnswersAreTrue`) rests on a second lemma on the catalogue, `CatalogHandled`: each handler's
requests have one of a few shapes, and those in `Lenient`, `Fallback` and `Explained` have theirs to
themselves. An error of the handler's own (`own_error`) comes after reads only, so nothing was
changed before it. Its invariant `Progress` says that a handler at its second request has sent the
first, and changed something by it unless that was a GET or the second is a fallback. Assumed:
`PolicyAssumption`, which types the constants, and that `Absent` is no tool call.

**The gates** (`HttpGateProofs`, `ServingProofs`), for any limit, server buffer, body length and host
names, and any tool call behind them. The promises are not inductive: nothing in `BodyIsWhole` says
why a body that is handed over is whole. `GateInv` says what is known at each stage: every byte sent
is in uvicorn's buffer or the gate's (`Bytes`); a request is `reading` only with a token and below the
limit, `inside` with its body ended and the buffer empty (`Stages`); what the SDK was given stays true
of it (`Given`); a request without a token has sent nothing (`Unread`). One lemma per action.
`ForgetArrivalKeeps` and `StepsOfOne` carry it through the composition: `GatesHold`,
`BodiesAreSound`, and the action property `CallsAreServed`. Assumed: `HttpGateAssumption`, which types
the constants.

**The tool calls** (`ToolCallsProofs`, `ServingProofs`). What a handler was told is seldom enough: a
request that got no answer may be carried out at any later time, after the call's end too. So each
tool has an invariant that bounds what its request *and its stray attempts* can be, and what they can
still do to the thing:

- `CarryingInv`: whatever PUT is outstanding or given up carries a value no older than the one the
  call found (`NoOlder`). That value is there only because the read came first.
- `FileInv`: the tool can make one commit, `CommitOf(call)`, since GitLab compares `last_commit_id`
  and history does not return to a commit that was replaced.
- `TitleInv`: each PUT carries a title that is `Written`, its markers made from a title in the history.
- `MergeInv`: each PUT carries the call's `sha`; `MergeOnce`: merged by the call, it stays merged, and
  a call that looks why it was refused will see that.
- `ReviewInv`: the summary is asked for once, by then the drafts are published.
- `AnchoringInv`: nothing is posted before the position is an `Anchor`, the refs of one version that
  GitLab reported; and then it is one comment.
- `HookInv`: the hook's headers are `Placed`; when the second PUT is asked for, the first was carried
  out (`FirstDone`), and carried out again it finds the URL it sets and leaves the headers alone. While
  the call sends no headers the hook has all of its former ones or none, so that a note made when it
  has none (`Told`) names every loss.
- `ProjectInv`: the read-back follows a DELETE that was carried out, and a project that is `Doomed`
  stays so.

`StepsOfOne` says that a step is one of the tool called, so that each invariant is shown against its
own tool's steps, `Deliver` and `CarriedOutLate` once for each. `CallsInv` is their conjunction with
the types (`CallSound`); `ServingCalls` carries it behind the gates. From it the theorems on the
properties of `serving` that speak of tool calls. Assumed: `ToolCallAssumption`, which types
`Retries` and `Changes`.

**The handlers and the catalogue** (`ToolCallsProofs`, `ServingProofs`). `HandlersKeepToCatalogue`
and, behind the gates, `CatalogueIsKept` are a refinement: under the mapping of `ToolCalls`, each
step of a tool call is a `Begin`, `Answer` or `Disconnect` of `PlannedHandler`, or a stutter. A
repetition by the client, a late attempt and another user's change are stutters. The invariant
`PlanInv` says that the request a handler awaits is the one its plan has at that place, `ShownInv`
that only a CI variable's value can be hidden, which is what lets `update_variable` end with an
error of its own. The history variable `heard` is needed to say it at all: the requests sent and the
outcome alone do not tell a handler that goes on after a failure from one whose request was done.
Attempting this refinement showed what the catalogue's model had left out, the errors handlers raise
themselves about what they read (`Particular`).

`NoHandlerWaitsForEver`: a call waits for at most two requests of `1 + Retries` attempts
(`AttemptsLeft`), by the refinement, whose steps each lower the measure or are a repetition.
`NoRequestGoesOnForEver` adds the gates: `GateStepsLeft` counts what the gates can still read before
the limit and the stages after that. Each of the server's steps lowers it (a piece of a body has a
byte or is the last), and the peer's leave it alone.

**The listing** (`ToolCallsProofs`). `SchemasFit` is about a loop. No induction theorem with an
operator as parameter can be used here, so the induction is the absence of a least counterexample
(`NatLeast`, from the well-foundedness of `<` on the naturals), over `MergedFrom`: after `i` actions
the merged parameter is absent if none of them declared it, a conflict if two declared it with
different shapes, and otherwise one of their declarations, optional only if they all are. A tool that
registers has no conflict, so neither has a selection of its actions (`SelectionsMerge`). Assumed:
`SchemaAssumption`, that a tool has an action, which `Tool.__post_init__` checks.

Only model-checked: the four liveness properties (`EveryCallEnds`, `CommandsEnd`, `SuperviseEnds`,
`EveryRequestEnds`). They are temporal under fairness, and fairness is out of TLAPS's reach, since it
speaks of ENABLED. What of them needs no fairness is proved: `NoCallGoesOnForEver`,
`NoCommandGoesOnForEver`, `StoppingIsBounded` and `NoRequestGoesOnForEver` say that no retry, race or
late attempt keeps anything going; TLC adds that what can go on does. Before the `finally` clause
there is no such bound for `supervise`, which waits for as long as its children run. The six violated
properties do not hold.

## 5. What is not modelled, and what is left

Left out for good: the wording of messages, logging, TLS, JSON and URL encoding, the MCP SDK and
httpx (both modelled only by what the code sees of them), `deploy/`, Windows' own process API beyond
`_is_alive`'s answer, permission errors of `os.kill`, the building of command lines (`plan`) and the
health check of `standalone.py`.

Left out of `ToolPolicy`: which arguments `_validate` refuses (any call may be), and the refusal for
want of a token, which the HTTP gate has already answered. What a request with an unknown outcome
did is counted when its call ends, not later. `Toolset.default_enabled` is true of all eight toolsets.

Left out of `HttpGate` and `Serving`: the SDK's session mode (`MCP_STATELESS_HTTP=false`) beyond the
first answer of a request, its Origin check, several requests at a time (they share nothing but the
outbound client, whose sharing is `GitLabClient`'s subject), and the end of the server: `lifespan`
closes the GitLab client before the session manager ends, so a call that outlives uvicorn's graceful
shutdown finds its client closed, which is one more way for its await to fail.

Left out of the tool calls: the lookups that `create_project`, `transfer_project` and an issue's move
make before their one write (`Catalog` has their requests), `get_log`'s window of lines and its
paging, where a partial last line of a running job is read again or lost, the result shaping of
search, members and snippets, and a renamed wiki page whose repeated PUT meets a 404. GitLab is what
the comments and tests of the handlers say of it. `_merge` compares nested `$defs` for equality only,
and they are left out of `InputSchemas`.

`config.py` decides once, before anything runs: `Settings` and `check_transport_policy` read the
environment, keep no state and interact with nothing, and a table of their cases would only repeat
their conditions.

What would add most next: several requests at a time in `Serving`, with the closing of the client at
the server's end.
