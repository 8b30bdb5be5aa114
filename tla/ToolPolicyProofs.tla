--------------------------- MODULE ToolPolicyProofs ---------------------------
(***************************************************************************)
(* Proofs about ToolPolicy.                                                *)
(***************************************************************************)
EXTENDS ToolPolicy, TLAPS

\* How the handler under way goes on and ends.
GoesOn(verdict) == Continues(<<call.tool, call.action>>, call.plan, call.at, verdict)
EndsIn(verdict) == Endings(<<call.tool, call.action>>, call.plan, call.at, verdict)

Plans == {plan \in Seq(Methods) : Len(plan) \in Nat \ {0}}
ReadPlans == {plan \in Plans : \A i \in 1..Len(plan) : plan[i] = "GET"}

\* What the proofs use of a tool's table and its handlers' requests.
Sound(table, requests) ==
  \A row \in requests :
    /\ row[2] \in Plans
    /\ row[1] \in table.read => row[2] \in ReadPlans

\* The requests of a handler are among the shapes the catalogue is built from.
LEMMA Shapes ==
  /\ Get \subseteq Plans \cap ReadPlans
  /\ Post \subseteq Plans
  /\ Put \subseteq Plans
  /\ Delete \subseteq Plans
  /\ \A m \in Methods : MaybeGetThen(m) \subseteq Plans
  /\ MaybeGetThen("GET") \subseteq ReadPlans
  /\ <<"GET", "GET">> \in ReadPlans
  /\ \A m \in Methods : <<m>> \in Plans
  /\ \A m \in Methods, n \in Methods : <<m, n>> \in Plans
<1>1. \A m \in Methods : <<m>> \in Plans
  BY DEF Plans
<1>2. \A m \in Methods, n \in Methods : <<m, n>> \in Plans
  BY DEF Plans
<1>3. <<"GET">> \in ReadPlans
  BY <1>1 DEF ReadPlans, Methods
<1>4. <<"GET", "GET">> \in ReadPlans
  BY <1>2 DEF ReadPlans, Methods
<1> QED
  BY <1>1, <1>2, <1>3, <1>4 DEF Methods, Get, Post, Put, Delete, MaybeGetThen

\* Every handler sends one request or two, and one that is declared to read
\* sends only GETs: the entries of the catalogue checked against its handlers.
LEMMA CatalogSound ==
  \A tool \in ToolNames : Sound(ToolActions[tool], ToolRequests[tool])
<1> USE Shapes DEF Sound, Methods, Table
<1>1. Sound(ProjectsActions, ProjectsRequests)
  BY DEF ProjectsActions, ProjectsRequests
<1>2. Sound(BranchesActions, BranchesRequests)
  BY DEF BranchesActions, BranchesRequests
<1>3. Sound(TagsActions, TagsRequests)
  BY DEF TagsActions, TagsRequests
<1>4. Sound(BadgesActions, BadgesRequests)
  BY DEF BadgesActions, BadgesRequests
<1>5. Sound(TreeActions, TreeRequests)
  BY DEF TreeActions, TreeRequests
<1>6. Sound(FilesActions, FilesRequests)
  BY DEF FilesActions, FilesRequests
<1>7. Sound(CommitsActions, CommitsRequests)
  BY DEF CommitsActions, CommitsRequests
<1>8. Sound(MergeRequestsActions, MergeRequestsRequests)
  BY DEF MergeRequestsActions, MergeRequestsRequests, TimeWrites, TimeRequests
<1>9. Sound(ReviewsActions, ReviewsRequests)
  BY DEF ReviewsActions, ReviewsRequests, ThreadReads, ThreadWrites, ThreadRequests
<1>10. Sound(IssuesActions, IssuesRequests)
  BY DEF IssuesActions, IssuesRequests, TimeWrites, TimeRequests
<1>11. Sound(IssueNotesActions, ThreadRequests)
  BY DEF IssueNotesActions, ThreadRequests, ThreadReads, ThreadWrites
<1>12. Sound(LabelsActions, LabelsRequests)
  BY DEF LabelsActions, LabelsRequests
<1>13. Sound(MilestonesActions, MilestonesRequests)
  BY DEF MilestonesActions, MilestonesRequests
<1>14. Sound(PipelinesActions, PipelinesRequests)
  BY DEF PipelinesActions, PipelinesRequests
<1>15. Sound(JobsActions, JobsRequests)
  BY DEF JobsActions, JobsRequests
<1>16. Sound(CiVariablesActions, CiVariablesRequests)
  BY DEF CiVariablesActions, CiVariablesRequests
<1>17. Sound(SchedulesActions, SchedulesRequests)
  BY DEF SchedulesActions, SchedulesRequests
<1>18. Sound(RunnersActions, RunnersRequests)
  BY DEF RunnersActions, RunnersRequests
<1>19. Sound(ReleasesActions, ReleasesRequests)
  BY DEF ReleasesActions, ReleasesRequests
<1>20. Sound(ReleaseLinksActions, ReleaseLinksRequests)
  BY DEF ReleaseLinksActions, ReleaseLinksRequests
<1>21. Sound(SearchActions, SearchRequests)
  BY DEF SearchActions, SearchRequests
<1>22. Sound(MembersActions, MembersRequests)
  BY DEF MembersActions, MembersRequests
<1>23. Sound(UsersActions, UsersRequests)
  BY DEF UsersActions, UsersRequests
<1>24. Sound(WikisActions, WikisRequests)
  BY DEF WikisActions, WikisRequests
<1>25. Sound(WebhooksActions, WebhooksRequests)
  BY DEF WebhooksActions, WebhooksRequests
<1>26. Sound(SnippetsActions, SnippetsRequests)
  BY DEF SnippetsActions, SnippetsRequests
<1> HIDE DEF Sound
<1> QED
  BY <1>1, <1>2, <1>3, <1>4, <1>5, <1>6, <1>7, <1>8, <1>9, <1>10, <1>11, <1>12, <1>13, <1>14, <1>15, <1>16, <1>17, <1>18, <1>19, <1>20, <1>21, <1>22, <1>23, <1>24, <1>25, <1>26
  DEF ToolNames, ToolsetNames, ToolsOf, ToolActions, ToolRequests

LEMMA RequestsSound ==
  ASSUME NEW tool \in ToolNames, NEW action, NEW plan \in Requests(tool, action)
  PROVE  /\ plan \in Seq(Methods)
         /\ Len(plan) \in Nat \ {0}
         /\ Reads(tool, action) => \A i \in 1..Len(plan) : plan[i] = "GET"
<1>1. PICK row \in ToolRequests[tool] : row[1] = action /\ row[2] = plan
  BY DEF Requests
<1>2. Sound(ToolActions[tool], ToolRequests[tool])
  BY CatalogSound
<1>3. plan \in Plans
  BY <1>1, <1>2 DEF Sound
<1>4. Reads(tool, action) => plan \in ReadPlans
  BY <1>1, <1>2 DEF Sound, Reads
<1> QED
  BY <1>3, <1>4 DEF Plans, ReadPlans

-----------------------------------------------------------------------------
(* How a handler ends.                                                      *)

LEMMA EndingsAre ==
  ASSUME NEW verdict, NEW r \in EndsIn(verdict)
  PROVE  r \in {"ok", "refused", "unknown", "own_error"}
BY DEF EndsIn, Endings

\* It says ok only of a last request that was done or that may fail, and refused
\* only when it was told so.
LEMMA EndingsMean ==
  ASSUME NEW verdict \in {"done", "refused", "unknown"}, NEW r \in EndsIn(verdict)
  PROVE  /\ r = "ok" =>
              /\ \/ verdict = "done"
                 \/ call.at = Len(call.plan) /\ <<call.tool, call.action>> \in Lenient
              /\ ~(call.at = Len(call.plan) /\ <<call.tool, call.action>> \in Explained)
              /\ ~GoesOn(verdict) \/ verdict = "refused"
         /\ r = "refused" =>
              \/ verdict = "refused"
              \/ call.at = Len(call.plan) /\ <<call.tool, call.action>> \in Explained
BY DEF EndsIn, Endings, GoesOn

-----------------------------------------------------------------------------
(* Types.                                                                   *)

LEMMA ShownTyped ==
  ASSUME NEW tool \in ToolNames, NEW s, NEW context, NEW scopes
  PROVE  ShownActions(s, context, scopes, tool) \subseteq KnownActions
BY DEF ShownActions, KnownActions

LEMMA AnswersTyped ==
  ASSUME NEW method \in Methods, NEW covered \in BOOLEAN,
         NEW answer \in Answers(method, covered)
  PROVE  answer[1] \in {"done", "refused", "unknown"} /\ answer[2] \in {0, 1}
BY DEF Answers

\* A dispatched call has its type, and stands at the first request of its plan.
LEMMA DispatchTyped ==
  ASSUME TypeOK, NEW context \in Contexts, NEW tool \in ToolNames \cup {NoTool},
         NEW action \in KnownActions \cup {NoAction, MissingAction},
         NEW confirm \in BOOLEAN, Dispatch(context, tool, action, confirm)
  PROVE  /\ call' \in ToolCalls
         /\ result' \in Results
         /\ result' = "none" => call'.at \in 1..Len(call'.plan)
<1> DEFINE refusal == Refusal(server, context, tool, action, confirm)
           Called(plan) == [tool |-> tool, action |-> action, context |-> context,
                            confirm |-> confirm, plan |-> plan, at |-> 1]
<1>1. \A plan \in Seq(Methods) : Called(plan) \in ToolCalls
  BY DEF ToolCalls
<1>2. <<>> \in Seq(Methods)
  OBVIOUS
<1>3. refusal \in PolicyRefusals \cup {"none"}
  BY DEF Refusal, PolicyRefusals
<1>4. refusal = "none" => tool \in ToolNames
  BY DEF Refusal
<1>5. CASE refusal # "none" /\ result' = refusal /\ call' = Called(<<>>)
  BY <1>1, <1>2, <1>3, <1>5 DEF Results
<1>6. CASE result' = "invalid_arguments" /\ call' = Called(<<>>)
  BY <1>1, <1>2, <1>6 DEF Results, PolicyRefusals
<1>7. ASSUME refusal = "none", result' = "none", NEW plan \in Requests(tool, action),
             call' = Called(plan)
      PROVE  call' \in ToolCalls /\ result' \in Results /\ call'.at \in 1..Len(call'.plan)
  <2>1. plan \in Seq(Methods) /\ Len(plan) \in Nat \ {0}
    BY <1>4, <1>7, RequestsSound
  <2>2. call'.at = 1 /\ call'.plan = plan
    BY <1>7
  <2> QED
    BY <1>1, <1>7, <2>1, <2>2 DEF Results
<1> QED
  BY <1>5, <1>6, <1>7 DEF Dispatch

LEMMA RunningTyped ==
  ASSUME TypeOK, Running
  PROVE  /\ call \in ToolCalls
         /\ call.at \in 1..Len(call.plan)
         /\ call.plan[call.at] \in Methods
         /\ call.at \in Nat
BY DEF TypeOK, Running, ToolCalls

LEMMA CoversTyped ==
  ASSUME NEW scopes, NEW tool, NEW method
  PROVE  Covers(scopes, tool, method) \in BOOLEAN
BY DEF Covers

\* What a request that ends leaves behind has its type.
LEMMA AnswerTyped ==
  ASSUME TypeOK, Running,
         NEW answer \in Answers(call.plan[call.at],
                                Covers(call.context.scopes, call.tool, call.plan[call.at]))
  PROVE  /\ answer[1] \in {"done", "refused", "unknown"}
         /\ sent \cup {call.plan[call.at]} \subseteq Methods
         /\ effects + answer[2] \in Nat
<1>1. answer[1] \in {"done", "refused", "unknown"} /\ answer[2] \in {0, 1}
  BY RunningTyped, CoversTyped, AnswersTyped
<1> QED
  BY <1>1, RunningTyped DEF TypeOK

\* Types, and that a running handler stands at a request of its plan, for
\* every set of headers, allow-lists and token scopes.
THEOREM TypeCorrect == Spec => []TypeOK
<1>1. Init => TypeOK
  BY DEF Init, TypeOK, Results, PolicyRefusals, Running
<1>2. TypeOK /\ [Next]_vars => TypeOK'
  <2> SUFFICES ASSUME TypeOK, [Next]_vars PROVE TypeOK'
    OBVIOUS
  <2>1. CASE Restart
    BY <2>1 DEF Restart, TypeOK, Results, PolicyRefusals, Running
  <2>2. ASSUME NEW context \in Contexts, ListTools(context) PROVE TypeOK'
    <3>1. view' \in Views
      <4>1. PICK tool \in ToolNames, scopes \in {context.scopes, Absent} :
              view' = [tool |-> tool,
                       actions |-> ShownActions(server, context, scopes, tool),
                       context |-> context, server |-> server,
                       readsOnly |-> ReadsOnly(tool, ShownActions(server, context, scopes, tool)),
                       confirm |-> ShownActions(server, context, scopes, tool)
                                     \cap ToolActions[tool].destructive]
        BY <2>2 DEF ListTools
      <4>2. ShownActions(server, context, scopes, tool) \subseteq KnownActions
        BY ShownTyped
      <4>3. ReadsOnly(tool, ShownActions(server, context, scopes, tool)) \in BOOLEAN
        BY DEF ReadsOnly
      <4> QED
        BY <2>2, <4>1, <4>2, <4>3 DEF Views, TypeOK
    <3> QED
      BY <2>2, <3>1 DEF ListTools, TypeOK, Running
  <2>3. ASSUME NEW context \in Contexts, NEW tool \in ToolNames \cup {NoTool},
               NEW action \in KnownActions \cup {NoAction, MissingAction},
               NEW confirm \in BOOLEAN, Dispatch(context, tool, action, confirm)
        PROVE  TypeOK'
    <3>1. /\ call' \in ToolCalls
          /\ result' \in Results
          /\ result' = "none" => call'.at \in 1..Len(call'.plan)
      BY <2>3, DispatchTyped
    <3> QED
      BY <2>3, <3>1 DEF Dispatch, TypeOK, Running
  <2>4. ASSUME NEW context \in Contexts, CallUnseen(context) PROVE TypeOK'
    BY <2>3, <2>4 DEF CallUnseen, KnownActions
  <2>5. CASE CallShown
    <3>1. view \in Views
      BY <2>5 DEF CallShown, TypeOK
    <3> QED
      BY <2>3, <2>5, <3>1 DEF CallShown, KnownActions, Views
  <2>6. CASE Answer
    <3>1. PICK answer \in Answers(call.plan[call.at],
                                  Covers(call.context.scopes, call.tool, call.plan[call.at])) :
            /\ sent' = sent \cup {call.plan[call.at]}
            /\ effects' = effects + answer[2]
            /\ \/ /\ GoesOn(answer[1])
                  /\ call' = [call EXCEPT !.at = @ + 1]
                  /\ UNCHANGED result
               \/ /\ result' \in EndsIn(answer[1])
                  /\ UNCHANGED call
      BY <2>6 DEF Answer, GoesOn, EndsIn
    <3>2. Running
      BY <2>6 DEF Answer
    <3>3. /\ answer[1] \in {"done", "refused", "unknown"}
          /\ sent' \subseteq Methods
          /\ effects' \in Nat
      BY <3>1, <3>2, AnswerTyped
    <3>4. CASE GoesOn(answer[1]) /\ call' = [call EXCEPT !.at = @ + 1] /\ UNCHANGED result
      <4>1. call' \in ToolCalls /\ call'.at \in 1..Len(call'.plan)
        BY <3>2, <3>4, RunningTyped DEF GoesOn, Continues, ToolCalls
      <4> QED
        BY <2>6, <3>3, <3>4, <4>1 DEF Answer, TypeOK, Running
    <3>5. CASE result' \in EndsIn(answer[1]) /\ UNCHANGED call
      <4>1. result' \in Results /\ result' # "none"
        BY <3>5, EndingsAre DEF Results
      <4> QED
        BY <2>6, <3>3, <3>5, <4>1 DEF Answer, TypeOK, Running
    <3> QED
      BY <3>1, <3>4, <3>5
  <2>7. CASE Disconnect
    <3>1. sent' \subseteq Methods /\ effects' \in Nat
      BY <2>7, AnswerTyped DEF Disconnect
    <3> QED
      BY <2>7, <3>1 DEF Disconnect, TypeOK, Running, Results
  <2>8. CASE Return
    BY <2>8 DEF Return, TypeOK, Running, Results
  <2>9. CASE UNCHANGED vars
    BY <2>9 DEF vars, TypeOK, Running
  <2> QED
    BY <2>1, <2>2, <2>4, <2>5, <2>6, <2>7, <2>8, <2>9 DEF Next
<1> QED
  BY <1>1, <1>2, PTL DEF Spec

-----------------------------------------------------------------------------
(* What a call went through before it sent anything.                        *)

RefusalOf(c) == Refusal(server, c.context, c.tool, c.action, c.confirm)

\* The call under way passed every check, under the settings that still hold,
\* and has sent nothing but requests of its handler's plan.
Granted ==
  /\ RefusalOf(call) = "none"
  /\ call.plan \in Requests(call.tool, call.action)
  /\ \A method \in sent : \E i \in 1..Len(call.plan) : method = call.plan[i]

\* The inductive invariant.  That a request was sent tells of the checks only
\* because call and settings cannot change in between: a restart ends the call.
CallInv ==
  /\ call = Absent => sent = {} /\ effects = 0
  /\ Running \/ sent # {} => Granted
  /\ effects > 0 => sent # {}
  /\ call # Absent /\ result \in PolicyRefusals =>
       sent = {} /\ (result = "invalid_arguments" \/ result = RefusalOf(call))

\* A dispatched call is refused by the first check that fails, or passed all.
LEMMA DispatchGrants ==
  ASSUME TypeOK, CallInv, Idle,
         NEW context \in Contexts, NEW tool \in ToolNames \cup {NoTool},
         NEW action \in KnownActions \cup {NoAction, MissingAction},
         NEW confirm \in BOOLEAN, Dispatch(context, tool, action, confirm)
  PROVE  CallInv'
<1> DEFINE refusal == Refusal(server, context, tool, action, confirm)
           Called(plan) == [tool |-> tool, action |-> action, context |-> context,
                            confirm |-> confirm, plan |-> plan, at |-> 1]
<1>1. sent = {} /\ effects = 0 /\ sent' = {} /\ effects' = 0 /\ server' = server
  BY DEF CallInv, Idle, Dispatch
<1>2. call' \in ToolCalls /\ call' # Absent
  BY DispatchTyped, AbsentAssumption
<1>3. CASE refusal # "none" /\ result' = refusal /\ call' = Called(<<>>)
  <2>1. RefusalOf(call)' = refusal
    BY <1>1, <1>3 DEF RefusalOf
  <2>2. ~Running'
    BY <1>3 DEF Running
  <2> QED
    BY <1>1, <1>2, <1>3, <2>1, <2>2 DEF CallInv
<1>4. CASE result' = "invalid_arguments" /\ call' = Called(<<>>)
  <2>1. ~Running'
    BY <1>4 DEF Running
  <2> QED
    BY <1>1, <1>2, <1>4, <2>1 DEF CallInv
<1>5. ASSUME refusal = "none", result' = "none",
             NEW plan \in Requests(tool, action), call' = Called(plan)
      PROVE  CallInv'
  <2>1. RefusalOf(call)' = "none"
    BY <1>1, <1>5 DEF RefusalOf
  <2>2. Granted'
    BY <1>1, <1>5, <2>1 DEF Granted
  <2> QED
    BY <1>1, <1>2, <1>5, <2>2 DEF CallInv, PolicyRefusals
<1> QED
  BY <1>3, <1>4, <1>5 DEF Dispatch

\* A request that a granted call sends keeps it granted.
LEMMA SendingKeepsGranted ==
  ASSUME TypeOK, Granted, Running, UNCHANGED server, call' \in ToolCalls,
         call'.tool = call.tool, call'.action = call.action,
         call'.context = call.context, call'.confirm = call.confirm,
         call'.plan = call.plan, sent' = sent \cup {call.plan[call.at]}
  PROVE  Granted'
<1>1. RefusalOf(call)' = RefusalOf(call)
  BY DEF RefusalOf
<1>2. \A method \in sent' : \E i \in 1..Len(call'.plan) : method = call'.plan[i]
  BY RunningTyped DEF Granted
<1> QED
  BY <1>1, <1>2 DEF Granted

LEMMA CallInvariant == Spec => []CallInv
<1>1. Init => CallInv
  BY DEF Init, CallInv, Running
<1>2. TypeOK /\ CallInv /\ [Next]_vars => CallInv'
  <2> SUFFICES ASSUME TypeOK, CallInv, [Next]_vars PROVE CallInv'
    OBVIOUS
  <2>1. CASE Restart
    BY <2>1 DEF Restart, CallInv, Running
  <2>2. ASSUME NEW context \in Contexts, ListTools(context) PROVE CallInv'
    BY <2>2 DEF ListTools, CallInv, Running, Granted, RefusalOf
  <2>3. ASSUME NEW context \in Contexts, CallUnseen(context) PROVE CallInv'
    BY <2>3, DispatchGrants DEF CallUnseen, KnownActions
  <2>4. CASE CallShown
    <3>1. view \in Views
      BY <2>4 DEF CallShown, TypeOK
    <3> QED
      BY <2>4, <3>1, DispatchGrants DEF CallShown, KnownActions, Views
  <2>5. CASE Answer
    <3>1. Running /\ Granted /\ call # Absent
      BY <2>5 DEF Answer, CallInv, Running
    <3>2. PICK answer \in Answers(call.plan[call.at],
                                  Covers(call.context.scopes, call.tool, call.plan[call.at])) :
            /\ sent' = sent \cup {call.plan[call.at]}
            /\ effects' = effects + answer[2]
            /\ \/ call' = [call EXCEPT !.at = @ + 1] /\ UNCHANGED result
               \/ result' \in EndsIn(answer[1]) /\ UNCHANGED call
      BY <2>5 DEF Answer, GoesOn, EndsIn
    <3>3. call' \in ToolCalls
      BY <3>1, <3>2, RunningTyped DEF ToolCalls
    <3>4. Granted'
      BY <2>5, <3>1, <3>2, <3>3, RunningTyped, SendingKeepsGranted DEF Answer, ToolCalls
    <3>5. result' \notin PolicyRefusals
      BY <3>1, <3>2, EndingsAre DEF Running, PolicyRefusals
    <3> QED
      BY <3>2, <3>3, <3>4, <3>5, AbsentAssumption DEF CallInv
  <2>6. CASE Disconnect
    <3>1. Running /\ Granted /\ call \in ToolCalls
      BY <2>6, RunningTyped DEF Disconnect, CallInv
    <3>2. Granted'
      BY <2>6, <3>1, SendingKeepsGranted DEF Disconnect
    <3> QED
      BY <2>6, <3>1, <3>2, AbsentAssumption DEF Disconnect, CallInv, PolicyRefusals
  <2>7. CASE Return
    BY <2>7 DEF Return, CallInv, Running
  <2>8. CASE UNCHANGED vars
    BY <2>8 DEF vars, CallInv, Running, Granted, RefusalOf
  <2> QED
    BY <2>1, <2>2, <2>3, <2>4, <2>5, <2>6, <2>7, <2>8 DEF Next
<1> QED
  BY <1>1, <1>2, TypeCorrect, PTL DEF Spec

-----------------------------------------------------------------------------
(* The theorems.                                                            *)

LEMMA GrantedPermits ==
  ASSUME NEW s, NEW context, NEW tool, NEW action, NEW confirm,
         Refusal(s, context, tool, action, confirm) = "none"
  PROVE  /\ tool \in ToolNames
         /\ ToolsetOf(tool) \in EnabledToolsets(s, context)
         /\ ReadOnly(s, context) => Reads(tool, action)
         /\ action \in ToolActions[tool].destructive => confirm
BY DEF Refusal

\* In read-only mode a call sends nothing but GETs.
THEOREM ReadOnlySendsGets == Spec => []ReadOnlyHolds
<1>1. TypeOK /\ CallInv => ReadOnlyHolds
  <2> SUFFICES ASSUME TypeOK, CallInv, call # Absent,
                      server.readOnly \/ call.context.readOnly, NEW method \in sent
               PROVE  method = "GET"
    BY DEF ReadOnlyHolds
  <2>1. Granted
    BY DEF CallInv
  <2>2. call.tool \in ToolNames /\ Reads(call.tool, call.action)
    BY <2>1, GrantedPermits DEF Granted, RefusalOf, ReadOnly
  <2> QED
    BY <2>1, <2>2, RequestsSound DEF Granted
<1> QED
  BY <1>1, TypeCorrect, CallInvariant, PTL

\* A call that reaches GitLab is within the operator's list and the caller's.
THEOREM BothListsBind == Spec => []WithinBothLists
<1>1. CallInv => WithinBothLists
  <2> SUFFICES ASSUME CallInv, sent # {}
               PROVE  /\ Admits(server.allowlist, ToolsetOf(call.tool))
                      /\ Admits(call.context.toolsets, ToolsetOf(call.tool))
    BY DEF WithinBothLists
  <2> DEFINE toolset == ToolsetOf(call.tool)
  <2>1. toolset \in EnabledToolsets(server, call.context)
    BY GrantedPermits DEF CallInv, Granted, RefusalOf
  <2>2. \A names : Given(names) # Absent /\ toolset \in Known(names) => Admits(names, toolset)
    BY DEF Known, Admits
  <2>3. \A names : Given(names) = Absent => Admits(names, toolset)
    BY DEF Given, Admits
  <2>4. Admits(server.allowlist, toolset)
    BY <2>1, <2>2, <2>3 DEF EnabledToolsets, Available
  <2>5. Admits(call.context.toolsets, toolset)
    BY <2>1, <2>2, <2>3 DEF EnabledToolsets
  <2> QED
    BY <2>4, <2>5
<1> QED
  BY <1>1, CallInvariant, PTL

\* No limit of the operator's or the caller's is lifted.
THEOREM LimitsBind == Spec => []LimitsHold
BY ReadOnlySendsGets, BothListsBind, PTL DEF LimitsHold

\* LIMITATIONS.md's list against the catalogue.
LEMMA DocumentedIsDestructive ==
  ASSUME NEW tool \in ToolNames, NEW action
  PROVE  action \in ToolActions[tool].destructive <=> <<tool, action>> \in DocumentedConfirm
<1>1. /\ ProjectsActions.destructive = {"delete", "transfer"}
      /\ BranchesActions.destructive = {"delete", "delete_merged"}
      /\ MergeRequestsActions.destructive = {"merge"}
      /\ IssuesActions.destructive = {"delete"}
      /\ PipelinesActions.destructive = {"delete"}
      /\ RunnersActions.destructive = {"delete"}
      /\ MembersActions.destructive = {"update", "remove"}
  BY DEF Table, ProjectsActions, BranchesActions, MergeRequestsActions,
     IssuesActions, PipelinesActions, RunnersActions, MembersActions
<1>2. /\ TagsActions.destructive = {}
      /\ BadgesActions.destructive = {}
      /\ TreeActions.destructive = {}
      /\ FilesActions.destructive = {}
      /\ CommitsActions.destructive = {}
      /\ ReviewsActions.destructive = {}
      /\ IssueNotesActions.destructive = {}
      /\ LabelsActions.destructive = {}
      /\ MilestonesActions.destructive = {}
      /\ JobsActions.destructive = {}
      /\ CiVariablesActions.destructive = {}
      /\ SchedulesActions.destructive = {}
      /\ ReleasesActions.destructive = {}
      /\ ReleaseLinksActions.destructive = {}
      /\ SearchActions.destructive = {}
      /\ UsersActions.destructive = {}
      /\ WikisActions.destructive = {}
      /\ WebhooksActions.destructive = {}
      /\ SnippetsActions.destructive = {}
  BY DEF Table, TagsActions, BadgesActions, TreeActions, FilesActions,
     CommitsActions, ReviewsActions, IssueNotesActions, LabelsActions,
     MilestonesActions, JobsActions, CiVariablesActions, SchedulesActions,
     ReleasesActions, ReleaseLinksActions, SearchActions, UsersActions,
     WikisActions, WebhooksActions, SnippetsActions
<1> QED
  BY <1>1, <1>2
  DEF ToolNames, ToolsetNames, ToolsOf, ToolActions, DocumentedConfirm

\* No documented action is carried out without confirm, and confirm is asked
\* for by no other.
THEOREM ConfirmHolds == Spec => []ConfirmedAsDocumented
<1>1. TypeOK /\ CallInv => ConfirmedAsDocumented
  <2> SUFFICES ASSUME TypeOK, CallInv, call # Absent PROVE ConfirmedAsDocumented
    BY DEF ConfirmedAsDocumented
  <2>1. ASSUME <<call.tool, call.action>> \in DocumentedConfirm, effects > 0
        PROVE  call.confirm
    <3>1. Granted
      BY <2>1 DEF CallInv
    <3>2. call.tool \in ToolNames
          /\ (call.action \in ToolActions[call.tool].destructive => call.confirm)
      BY <3>1, GrantedPermits DEF Granted, RefusalOf
    <3> QED
      BY <2>1, <3>2, DocumentedIsDestructive
  <2>2. ASSUME result = "confirmation_required"
        PROVE  <<call.tool, call.action>> \in DocumentedConfirm
    <3>1. RefusalOf(call) = "confirmation_required"
      BY <2>2 DEF CallInv, PolicyRefusals
    <3>2. call.tool \in ToolNames /\ call.action \in ToolActions[call.tool].destructive
      BY <3>1 DEF RefusalOf, Refusal
    <3> QED
      BY <3>2, DocumentedIsDestructive
  <2> QED
    BY <2>1, <2>2 DEF ConfirmedAsDocumented
<1> QED
  BY <1>1, TypeCorrect, CallInvariant, PTL

-----------------------------------------------------------------------------
(* What a list that was kept says of the calls that follow it.              *)

ViewInv ==
  view # Absent =>
    /\ ToolsetOf(view.tool) \in EnabledToolsets(view.server, view.context)
    /\ view.confirm = view.actions \cap ToolActions[view.tool].destructive
    /\ view.readsOnly = ReadsOnly(view.tool, view.actions)
    /\ \E scopes \in {view.context.scopes, Absent} :
         view.actions = ShownActions(view.server, view.context, scopes, view.tool)

LEMMA ViewInvariant == Spec => []ViewInv
<1>1. Init => ViewInv
  BY DEF Init, ViewInv
<1>2. ViewInv /\ [Next]_vars => ViewInv'
  <2> SUFFICES ASSUME ViewInv, [Next]_vars PROVE ViewInv'
    OBVIOUS
  <2>1. ASSUME NEW context \in Contexts, ListTools(context) PROVE ViewInv'
    <3>1. PICK tool \in ToolNames, scopes \in {context.scopes, Absent} :
            /\ ToolsetOf(tool) \in EnabledToolsets(server, context)
            /\ view' = [tool |-> tool,
                        actions |-> ShownActions(server, context, scopes, tool),
                        context |-> context, server |-> server,
                        readsOnly |-> ReadsOnly(tool, ShownActions(server, context, scopes, tool)),
                        confirm |-> ShownActions(server, context, scopes, tool)
                                      \cap ToolActions[tool].destructive]
      BY <2>1 DEF ListTools
    <3> QED
      BY <3>1 DEF ViewInv
  <2>2. CASE UNCHANGED view
    BY <2>2 DEF ViewInv
  <2>3. ASSUME NEW context \in Contexts, CallUnseen(context) PROVE UNCHANGED view
    BY <2>3 DEF CallUnseen, Dispatch
  <2>4. CASE CallShown
    BY <2>2, <2>4 DEF CallShown, Dispatch
  <2>5. CASE Restart \/ Answer \/ Disconnect \/ Return \/ UNCHANGED vars
    BY <2>2, <2>5 DEF Restart, Answer, Disconnect, Return, vars
  <2> QED
    BY <2>1, <2>2, <2>3, <2>4, <2>5 DEF Next
<1> QED
  BY <1>1, <1>2, PTL DEF Spec

\* An action that was shown is refused by no policy.
THEOREM ShownCanBeCalled == Spec => []ShownIsCallable
<1>1. TypeOK /\ CallInv /\ ViewInv => ShownIsCallable
  <2> SUFFICES ASSUME TypeOK, CallInv, ViewInv, AsShown, call.action \in view.actions,
                      result \in PolicyRefusals, result # "invalid_arguments"
               PROVE  result = "confirmation_required" /\ call.action \in view.confirm
    BY DEF ShownIsCallable, PolicyRefusals
  <2>1. result = Refusal(server, call.context, call.tool, call.action, call.confirm)
    BY DEF CallInv, AsShown, RefusalOf
  <2>2. /\ call.tool \in ToolNames
        /\ ToolsetOf(call.tool) \in EnabledToolsets(server, call.context)
    BY DEF ViewInv, AsShown, TypeOK, Views
  <2>3. /\ call.action \in ActionsOf(call.tool)
        /\ ReadOnly(server, call.context) => Reads(call.tool, call.action)
    BY DEF ViewInv, AsShown, ShownActions, Shown
  <2>4. /\ result = "confirmation_required"
        /\ call.action \in ToolActions[call.tool].destructive
    BY <2>1, <2>2, <2>3 DEF Refusal, PolicyRefusals
  <2> QED
    BY <2>4 DEF ViewInv, AsShown
<1> QED
  BY <1>1, TypeCorrect, CallInvariant, ViewInvariant, PTL

\* What changed something in GitLab was more than a read, with a token for it.
EffectInv ==
  effects > 0 => /\ "api" \in call.context.scopes
                 /\ \E method \in sent : method # "GET"

LEMMA AnswerEffects ==
  ASSUME NEW scopes, NEW tool, NEW method \in Methods,
         NEW answer \in Answers(method, Covers(scopes, tool, method)), answer[2] > 0
  PROVE  "api" \in scopes /\ method # "GET"
BY DEF Answers, Covers, Methods

LEMMA EffectInvariant == Spec => []EffectInv
<1>1. Init => EffectInv
  BY DEF Init, EffectInv
<1>2. TypeOK /\ CallInv /\ EffectInv /\ [Next]_vars => EffectInv'
  <2> SUFFICES ASSUME TypeOK, CallInv, EffectInv, [Next]_vars PROVE EffectInv'
    OBVIOUS
  <2>1. CASE effects' = 0
    BY <2>1 DEF EffectInv
  <2>2. CASE UNCHANGED <<call, sent, effects>>
    BY <2>2 DEF EffectInv
  <2>3. ASSUME NEW answer \in Answers(call.plan[call.at],
                                      Covers(call.context.scopes, call.tool, call.plan[call.at])),
               Running, effects' = effects + answer[2],
               sent' = sent \cup {call.plan[call.at]},
               call' = [call EXCEPT !.at = @ + 1] \/ UNCHANGED call
        PROVE  EffectInv'
    <3>1. call'.context = call.context
      BY <2>3, RunningTyped DEF ToolCalls
    <3>2. answer[2] \in {0, 1} /\ effects \in Nat
      BY <2>3, RunningTyped, CoversTyped, AnswersTyped DEF TypeOK
    <3>3. CASE effects > 0
      BY <2>3, <3>1, <3>3 DEF EffectInv
    <3>4. CASE answer[2] > 0
      BY <2>3, <3>1, <3>4, RunningTyped, AnswerEffects DEF EffectInv
    <3>5. CASE effects = 0 /\ answer[2] = 0
      BY <2>3, <3>5 DEF EffectInv
    <3> QED
      BY <3>2, <3>3, <3>4, <3>5
  <2>4. CASE Answer
    BY <2>3, <2>4 DEF Answer
  <2>5. CASE Disconnect
    BY <2>3, <2>5 DEF Disconnect
  <2>6. CASE Idle /\ UNCHANGED effects
    BY <2>1, <2>6 DEF Idle, CallInv
  <2>7. CASE Restart \/ Return
    BY <2>1, <2>7 DEF Restart, Return
  <2>8. ASSUME NEW context \in Contexts, ListTools(context) PROVE EffectInv'
    BY <2>6, <2>8 DEF ListTools
  <2>9. ASSUME NEW context \in Contexts, CallUnseen(context) PROVE EffectInv'
    BY <2>6, <2>9 DEF CallUnseen, Dispatch
  <2>10. CASE CallShown
    BY <2>6, <2>10 DEF CallShown, Dispatch
  <2>11. CASE UNCHANGED vars
    BY <2>2, <2>11 DEF vars
  <2> QED
    BY <2>4, <2>5, <2>7, <2>8, <2>9, <2>10, <2>11 DEF Next
<1> QED
  BY <1>1, <1>2, TypeCorrect, CallInvariant, PTL DEF Spec

\* A tool shown as reading only changes nothing, whatever is called of it.
THEOREM HintHolds == Spec => []HintIsTrue
<1>1. TypeOK /\ CallInv /\ ViewInv /\ EffectInv => HintIsTrue
  <2> SUFFICES ASSUME TypeOK, CallInv, ViewInv, EffectInv, AsShown, view.readsOnly,
                      effects > 0
               PROVE  FALSE
    BY DEF HintIsTrue, TypeOK
  <2>1. Granted /\ "api" \in call.context.scopes
    BY DEF CallInv, EffectInv
  <2>2. PICK i \in 1..Len(call.plan) : call.plan[i] # "GET"
    BY <2>1 DEF EffectInv, Granted
  <2>3. /\ call.tool \in ToolNames
        /\ ReadOnly(server, call.context) => Reads(call.tool, call.action)
    BY <2>1, GrantedPermits DEF Granted, RefusalOf
  <2>4. ~Reads(call.tool, call.action)
    BY <2>1, <2>2, <2>3, RequestsSound DEF Granted
  <2>5. call.action \in ActionsOf(call.tool)
    BY <2>1 DEF Granted, RefusalOf, Refusal
  <2>6. call.action \notin view.actions
    BY <2>4 DEF ViewInv, AsShown, ReadsOnly, Reads
  <2>7. PICK scopes \in {call.context.scopes, Absent} :
          ~Shown(server, call.context, scopes, call.tool, call.action)
    BY <2>5, <2>6 DEF ViewInv, AsShown, ShownActions
  <2>8. scopes # Absent /\ SufficientScopes(call.tool, call.action) \cap scopes = {}
    BY <2>3, <2>4, <2>7 DEF Shown
  <2> QED
    BY <2>1, <2>8 DEF SufficientScopes
<1> QED
  BY <1>1, TypeCorrect, CallInvariant, ViewInvariant, EffectInvariant, PTL

-----------------------------------------------------------------------------
(* What an answer says of the requests before it.                           *)

Review == <<"gitlab_mr_reviews", "publish_review">>
Exceptions == Lenient \cup Fallback \cup Explained

ReadShapes == {<<"GET">>, <<"GET", "GET">>}

\* Requests of which a refused one leaves nothing created, by a handler that
\* raises whenever one of them fails.
PlainShapes == {<<"POST">>, <<"PUT">>, <<"DELETE">>,
                <<"GET", "POST">>, <<"GET", "PUT">>, <<"PUT", "PUT">>}

\* The handlers and their plans, by what their answers are worth.
Handles(handler, plan) ==
  \/ handler \notin Exceptions /\ plan \in PlainShapes
  \/ handler = Review /\ plan = <<"POST", "POST">>
  \/ plan \in ReadShapes
  \/ handler \notin Fallback \cup Explained /\ plan = <<"DELETE", "GET">>
  \/ handler \in Explained /\ plan = <<"PUT", "GET">>

Handled(tool, table, requests) ==
  \A row \in requests :
    /\ Handles(<<tool, row[1]>>, row[2])
    /\ row[1] \in table.write => row[2] \notin ReadShapes

\* No other handler creates something before a request that can be refused, and
\* every write of the catalogue has a handler that writes.
LEMMA CatalogHandled ==
  \A tool \in ToolNames : Handled(tool, ToolActions[tool], ToolRequests[tool])
<1> USE DEF Handled, Handles, Exceptions, Lenient, Fallback, Explained, Review,
            ReadShapes, PlainShapes, Table, Get, Post, Put, Delete, MaybeGetThen
<1>1. Handled("gitlab_projects", ProjectsActions, ProjectsRequests)
  BY DEF ProjectsActions, ProjectsRequests
<1>2. Handled("gitlab_branches", BranchesActions, BranchesRequests)
  BY DEF BranchesActions, BranchesRequests
<1>3. Handled("gitlab_tags", TagsActions, TagsRequests)
  BY DEF TagsActions, TagsRequests
<1>4. Handled("gitlab_badges", BadgesActions, BadgesRequests)
  BY DEF BadgesActions, BadgesRequests
<1>5. Handled("gitlab_repository_tree", TreeActions, TreeRequests)
  BY DEF TreeActions, TreeRequests
<1>6. Handled("gitlab_files", FilesActions, FilesRequests)
  BY DEF FilesActions, FilesRequests
<1>7. Handled("gitlab_commits", CommitsActions, CommitsRequests)
  BY DEF CommitsActions, CommitsRequests
<1>8. Handled("gitlab_merge_requests", MergeRequestsActions, MergeRequestsRequests)
  BY DEF MergeRequestsActions, MergeRequestsRequests, TimeWrites, TimeRequests
<1>9. Handled("gitlab_mr_reviews", ReviewsActions, ReviewsRequests)
  BY DEF ReviewsActions, ReviewsRequests, ThreadReads, ThreadWrites, ThreadRequests
<1>10. Handled("gitlab_issues", IssuesActions, IssuesRequests)
  BY DEF IssuesActions, IssuesRequests, TimeWrites, TimeRequests
<1>11. Handled("gitlab_issue_notes", IssueNotesActions, ThreadRequests)
  BY DEF IssueNotesActions, ThreadRequests, ThreadReads, ThreadWrites
<1>12. Handled("gitlab_labels", LabelsActions, LabelsRequests)
  BY DEF LabelsActions, LabelsRequests
<1>13. Handled("gitlab_milestones", MilestonesActions, MilestonesRequests)
  BY DEF MilestonesActions, MilestonesRequests
<1>14. Handled("gitlab_pipelines", PipelinesActions, PipelinesRequests)
  BY DEF PipelinesActions, PipelinesRequests
<1>15. Handled("gitlab_jobs", JobsActions, JobsRequests)
  BY DEF JobsActions, JobsRequests
<1>16. Handled("gitlab_ci_variables", CiVariablesActions, CiVariablesRequests)
  BY DEF CiVariablesActions, CiVariablesRequests
<1>17. Handled("gitlab_pipeline_schedules", SchedulesActions, SchedulesRequests)
  BY DEF SchedulesActions, SchedulesRequests
<1>18. Handled("gitlab_runners", RunnersActions, RunnersRequests)
  BY DEF RunnersActions, RunnersRequests
<1>19. Handled("gitlab_releases", ReleasesActions, ReleasesRequests)
  BY DEF ReleasesActions, ReleasesRequests
<1>20. Handled("gitlab_release_links", ReleaseLinksActions, ReleaseLinksRequests)
  BY DEF ReleaseLinksActions, ReleaseLinksRequests
<1>21. Handled("gitlab_search", SearchActions, SearchRequests)
  BY DEF SearchActions, SearchRequests
<1>22. Handled("gitlab_members", MembersActions, MembersRequests)
  BY DEF MembersActions, MembersRequests
<1>23. Handled("gitlab_users", UsersActions, UsersRequests)
  BY DEF UsersActions, UsersRequests
<1>24. Handled("gitlab_wikis", WikisActions, WikisRequests)
  BY DEF WikisActions, WikisRequests
<1>25. Handled("gitlab_webhooks", WebhooksActions, WebhooksRequests)
  BY DEF WebhooksActions, WebhooksRequests
<1>26. Handled("gitlab_snippets", SnippetsActions, SnippetsRequests)
  BY DEF SnippetsActions, SnippetsRequests
<1> HIDE DEF Handled
<1> QED
  BY <1>1, <1>2, <1>3, <1>4, <1>5, <1>6, <1>7, <1>8, <1>9, <1>10, <1>11, <1>12, <1>13, <1>14, <1>15, <1>16, <1>17, <1>18, <1>19, <1>20, <1>21, <1>22, <1>23, <1>24, <1>25, <1>26
  DEF ToolNames, ToolsetNames, ToolsOf, ToolActions, ToolRequests

LEMMA RequestsHandled ==
  ASSUME NEW tool \in ToolNames, NEW action, NEW plan \in Requests(tool, action)
  PROVE  /\ Handles(<<tool, action>>, plan)
         /\ action \in ToolActions[tool].write => plan \notin ReadShapes
<1>1. PICK row \in ToolRequests[tool] : row[1] = action /\ row[2] = plan
  BY DEF Requests
<1> QED
  BY <1>1, CatalogHandled DEF Handled

\* How far the handler is and what it has done: one request at most lies behind
\* it, and that one was done unless the next is a fallback.
Progress ==
  Running =>
    /\ call.at = 1 => sent = {} /\ effects = 0
    /\ call.at = 2 =>
         /\ sent = {call.plan[1]}
         /\ call.plan[1] = "GET" => effects = 0
         /\ call.plan[1] # "GET" /\ <<call.tool, call.action>> \notin Fallback
              => effects > 0

LEMMA AnswerMeans ==
  ASSUME NEW method \in Methods, NEW covered \in BOOLEAN,
         NEW answer \in Answers(method, covered)
  PROVE  /\ answer[2] \in {0, 1}
         /\ method = "GET" => answer[2] = 0
         /\ method # "GET" /\ answer[1] = "done" => answer[2] = 1
         /\ method = "POST" /\ answer[1] = "refused" => answer[2] = 0
BY DEF Answers

\* A handler that goes on has its progress, one that ends tells the truth.
LEMMA AnswerIsTrue ==
  ASSUME TypeOK, CallInv, Progress, Answer
  PROVE  Progress' /\ AnswersAreTrue'
<1> DEFINE handler == <<call.tool, call.action>>
           method == call.plan[call.at]
<1>1. Running /\ Granted /\ call \in ToolCalls /\ call.at \in 1..Len(call.plan)
  BY RunningTyped DEF Answer, CallInv
<1>2. call.tool \in ToolNames
  BY <1>1, GrantedPermits DEF Granted, RefusalOf
<1>3. /\ Handles(handler, call.plan)
      /\ call.action \in ToolActions[call.tool].write => call.plan \notin ReadShapes
  BY <1>1, <1>2, RequestsHandled DEF Granted
<1>4. PICK answer \in Answers(method, Covers(call.context.scopes, call.tool, method)) :
        /\ sent' = sent \cup {method}
        /\ effects' = effects + answer[2]
        /\ \/ /\ GoesOn(answer[1])
              /\ call' = [call EXCEPT !.at = @ + 1]
              /\ UNCHANGED result
           \/ /\ result' \in EndsIn(answer[1])
              /\ UNCHANGED call
  BY DEF Answer, GoesOn, EndsIn
<1>5. /\ answer[2] \in {0, 1}
      /\ method = "GET" => answer[2] = 0
      /\ method # "GET" /\ answer[1] = "done" => answer[2] = 1
      /\ method = "POST" /\ answer[1] = "refused" => answer[2] = 0
  BY <1>1, RunningTyped, CoversTyped, AnswerMeans
<1>6. effects \in Nat
  BY DEF TypeOK
<1>7. answer[1] \in {"done", "refused", "unknown"}
  BY <1>1, AnswerTyped
<1>8. Len(call.plan) \in {1, 2}
  BY <1>3 DEF Handles, PlainShapes, ReadShapes
<1>9. call.at = 1 \/ (call.at = 2 /\ Len(call.plan) = 2)
  BY <1>1, <1>8
<1>10. CASE GoesOn(answer[1]) /\ call' = [call EXCEPT !.at = @ + 1] /\ UNCHANGED result
  <2>1. call.at = 1 /\ Len(call.plan) = 2
    <3>1. call.at < Len(call.plan)
      BY <1>10 DEF GoesOn, Continues
    <3>2. \A at, length : length \in {1, 2} /\ (at = 1 \/ (at = 2 /\ length = 2)) /\ at < length
            => at = 1 /\ length = 2
      OBVIOUS
    <3> QED
      BY <1>8, <1>9, <3>1, <3>2
  <2>2. /\ call'.at = 2 /\ call'.plan = call.plan
        /\ call'.tool = call.tool /\ call'.action = call.action
    BY <1>1, <1>10, <2>1 DEF ToolCalls
  <2>3. sent = {} /\ effects = 0
    BY <1>1, <2>1 DEF Progress
  <2>4. sent' = {call.plan[1]} /\ effects' = answer[2] /\ method = call.plan[1]
    BY <1>4, <1>5, <2>1, <2>3
  <2>5. handler \notin Fallback => answer[1] = "done"
    BY <1>10 DEF GoesOn, Continues
  <2>6. Progress'
    BY <1>5, <2>2, <2>4, <2>5 DEF Progress
  <2>7. result' = "none"
    BY <1>1, <1>10 DEF Running
  <2> QED
    BY <2>6, <2>7 DEF AnswersAreTrue, OkIsDone, RefusalCreatesNothing
<1>11. CASE result' \in EndsIn(answer[1]) /\ UNCHANGED call
  <2>1. result' # "none"
    BY <1>11, EndingsAre
  <2>2. Progress'
    BY <2>1 DEF Progress, Running
  <2>3. ASSUME result' = "ok", call.action \in ToolActions[call.tool].write
        PROVE  effects' > 0
    <3>1. /\ answer[1] = "done" \/ (call.at = Len(call.plan) /\ handler \in Lenient)
          /\ ~GoesOn(answer[1]) \/ answer[1] = "refused"
      BY <1>7, <1>11, <2>3, EndingsMean
    <3>2. ~(call.at = Len(call.plan) /\ handler \in Explained)
      BY <1>7, <1>11, <2>3, EndingsMean
    <3>3. CASE call.at = 1
      <4>1. effects = 0 /\ method = call.plan[1]
        BY <1>1, <3>3 DEF Progress
      <4>2. CASE Len(call.plan) = 1
        <5>1. handler \notin Exceptions /\ method # "GET"
          BY <1>3, <2>3, <3>3, <4>2 DEF Handles, PlainShapes, ReadShapes
        <5> QED
          BY <1>4, <1>5, <3>1, <4>1, <5>1 DEF Exceptions
      <4>3. CASE Len(call.plan) = 2
        <5>1. answer[1] = "done"
          BY <3>1, <3>3, <4>3
        <5>2. handler \in Fallback
          BY <3>1, <3>3, <4>3, <5>1 DEF GoesOn, Continues
        <5>3. method # "GET"
          BY <1>3, <2>3, <3>3, <4>3, <5>2 DEF Handles, PlainShapes, ReadShapes, Exceptions, Review, Fallback
        <5> QED
          BY <1>4, <1>5, <4>1, <5>1, <5>3
      <4> QED
        BY <1>8, <4>2, <4>3
    <3>4. CASE call.at = 2 /\ Len(call.plan) = 2
      <4>1. CASE call.plan[2] # "GET"
        <5>1. handler \notin Lenient
          BY <1>3, <2>3, <3>4, <4>1 DEF Handles, PlainShapes, ReadShapes, Exceptions, Review, Lenient
        <5> QED
          BY <1>4, <1>5, <1>6, <3>1, <3>4, <4>1, <5>1
      <4>2. CASE call.plan[2] = "GET"
        <5>1. call.plan[1] # "GET" /\ handler \notin Fallback
          BY <1>3, <2>3, <3>2, <3>4, <4>2 DEF Handles, PlainShapes, ReadShapes
        <5>2. effects > 0
          BY <1>1, <3>4, <5>1 DEF Progress
        <5> QED
          BY <1>4, <1>5, <1>6, <5>2
      <4> QED
        BY <4>1, <4>2
    <3> QED
      BY <1>9, <3>3, <3>4
  <2>4. ASSUME result' = "refused", effects' > 0, sent' \subseteq {"GET", "POST"}
        PROVE  handler = Review
    <3>1. method \in {"GET", "POST"}
      BY <1>4, <2>4
    <3>2. CASE call.at = 1
      <4>1. effects = 0
        BY <1>1, <3>2 DEF Progress
      <4>2. method = "POST" /\ answer[1] # "refused"
        BY <1>4, <1>5, <2>4, <3>1, <4>1
      <4>3. call.plan[1] = "POST"
        BY <3>2, <4>2
      <4>4. handler \notin Explained \/ handler = Review
        BY <1>3, <4>3 DEF Handles, PlainShapes, ReadShapes, Exceptions
      <4> QED
        BY <1>7, <1>11, <2>4, <4>2, <4>4, EndingsMean
    <3>3. CASE call.at = 2 /\ Len(call.plan) = 2
      <4>1. sent = {call.plan[1]}
        BY <1>1, <3>3 DEF Progress
      <4>2. call.plan[1] \in {"GET", "POST"}
        BY <1>4, <2>4, <4>1
      <4>3. CASE call.plan[1] = "POST"
        BY <1>3, <3>3, <4>3 DEF Handles, PlainShapes, ReadShapes
      <4>4. CASE call.plan[1] = "GET"
        <5>1. effects = 0
          BY <1>1, <3>3, <4>4 DEF Progress
        <5>2. method = "POST" /\ answer[1] # "refused"
          BY <1>4, <1>5, <2>4, <3>1, <5>1
        <5>3. handler \notin Explained
          BY <1>3, <3>3, <4>4, <5>2 DEF Handles, PlainShapes, ReadShapes, Exceptions
        <5> QED
          BY <1>7, <1>11, <2>4, <5>2, <5>3, EndingsMean
      <4> QED
        BY <4>2, <4>3, <4>4
    <3> QED
      BY <1>9, <3>2, <3>3
  <2> QED
    BY <1>11, <2>2, <2>3, <2>4 DEF AnswersAreTrue, OkIsDone, RefusalCreatesNothing, Review
<1> QED
  BY <1>4, <1>10, <1>11

\* Whatever the arguments, headers and scopes, a handler of several requests says
\* ok of a write only if it was done, and that something was refused only if
\* nothing was created, the review aside.
THEOREM AnswersHold == Spec => []AnswersAreTrue
<1> USE DEF AnswersAreTrue, OkIsDone, RefusalCreatesNothing
<1>1. Init => Progress /\ AnswersAreTrue
  BY DEF Init, Progress, Running
<1>2. TypeOK /\ CallInv /\ Progress /\ AnswersAreTrue /\ [Next]_vars
        => Progress' /\ AnswersAreTrue'
  <2> SUFFICES ASSUME TypeOK, CallInv, Progress, AnswersAreTrue, [Next]_vars
               PROVE  Progress' /\ AnswersAreTrue'
    OBVIOUS
  <2>1. ASSUME result' = "none", call' = Absent PROVE Progress' /\ AnswersAreTrue'
    BY <2>1 DEF Progress, Running
  <2>2. ASSUME NEW context \in Contexts, ListTools(context)
        PROVE  Progress' /\ AnswersAreTrue'
    BY <2>2 DEF ListTools, Idle, Progress, Running
  <2>3. ASSUME Idle, NEW context, NEW tool, NEW action, NEW confirm,
               Dispatch(context, tool, action, confirm)
        PROVE  Progress' /\ AnswersAreTrue'
    <3>1. sent' = {} /\ effects' = 0
      BY <2>3 DEF Dispatch, Idle, CallInv
    <3>2. call'.at = 1
      BY <2>3 DEF Dispatch
    <3>3. result' \in PolicyRefusals \cup {"none"}
      BY <2>3 DEF Dispatch, Refusal, PolicyRefusals
    <3> QED
      BY <3>1, <3>2, <3>3 DEF Progress, PolicyRefusals
  <2>4. ASSUME NEW context \in Contexts, CallUnseen(context)
        PROVE  Progress' /\ AnswersAreTrue'
    BY <2>3, <2>4 DEF CallUnseen
  <2>5. CASE CallShown
    BY <2>3, <2>5 DEF CallShown
  <2>6. CASE Answer
    BY <2>6, AnswerIsTrue
  <2>7. CASE Disconnect
    BY <2>7 DEF Disconnect, Progress, Running
  <2>8. CASE UNCHANGED vars
    BY <2>8 DEF vars, Progress, Running
  <2> QED
    BY <2>1, <2>2, <2>4, <2>5, <2>6, <2>7, <2>8 DEF Next, Restart, Return
<1> QED
  BY <1>1, <1>2, TypeCorrect, CallInvariant, PTL DEF Spec

=============================================================================
