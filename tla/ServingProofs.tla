---------------------------- MODULE ServingProofs ----------------------------
(***************************************************************************)
(* Proofs about Serving: the gates hold with a tool call behind them, for  *)
(* any limit, buffer, body length and host names, any number of retries    *)
(* and of changes by other users.                                          *)
(***************************************************************************)
EXTENDS Serving, HttpGateProofs, ToolCallsProofs

USE HttpGateAssumption

-----------------------------------------------------------------------------
(* What is forgotten when the tool call starts is not what the gates rest   *)
(* on.                                                                      *)

LEMMA ServedHeadParts ==
  ASSUME head \in Heads
  PROVE  /\ ServedHead \in Heads
         /\ ServedHead.method = head.method
         /\ ServedHead.path = head.path
         /\ ServedHead.token = head.token
         /\ ServedHead.host.name = head.host.name
<1>1. head.host \in Hosts
  BY HeadParts
<1>2. Normalized(head.host) \in Hosts /\ Normalized(head.host).name = head.host.name
  BY <1>1 DEF Hosts, Normalized
<1>3. Undeclared \in Declared
  BY DEF Declared
<1>4. head \in [method : {"GET", "POST", "DELETE"}, path : {"/mcp", "/healthz"},
                token : BOOLEAN, declared : Declared, host : Hosts]
  BY DEF Heads
<1>5. ServedHead \in Heads
  BY <1>2, <1>3, <1>4 DEF Heads, ServedHead
<1>6. QED
  BY <1>2, <1>4, <1>5 DEF ServedHead

LEMMA ForgetArrivalKeeps ==
  ASSUME GateInv, stage = "serving", ForgetArrival
  PROVE  GateInv'
<1>1. /\ Entered /\ head.method = "POST" /\ got.bodies = 1 /\ delivered
      /\ ended /\ buffered = 0
  BY DEF GateInv, Stages, Given
<1>2. HostAllowed(Normalized(head.host)) /\ status # 421
  BY <1>1 DEF GateInv, Given
<1>3. /\ head' = ServedHead /\ sent' = 0 /\ body' = 0
      /\ got' = [got EXCEPT !.bytes = 0]
      /\ UNCHANGED <<stage, status, ended, left, buffered, delivered>>
  BY DEF ForgetArrival
<1>4. /\ Entered' /\ head'.method = "POST" /\ head' # NoHead
      /\ head'.host \in Hosts /\ head'.host.name = head.host.name
  BY <1>1, <1>3, ServedHeadParts, HeadIsNot, HeadParts DEF Entered
<1>5. HostAllowed(Normalized(head.host))'
  <2>1. head.host \in Hosts
    BY <1>1, HeadParts DEF Entered
  <2>2. head'.host.name \in AllowedNames
    BY <1>2, <1>4, <2>1, HostByName
  <2>3. HostAllowed(Normalized(head'.host))
    BY <1>4, <2>2, HostByName
  <2>4. QED
    BY <2>3 DEF HostAllowed, Normalized
<1>6. got'.bodies = 1 /\ got'.bytes = 0 /\ got' \in [bodies : 0..1, bytes : Nat, leaving : BOOLEAN]
  <2>1. got \in [bodies : 0..1, bytes : Nat, leaving : BOOLEAN]
    BY DEF GateInv, GateTypeOK
  <2>2. 1 \in 0..1 /\ got.leaving \in BOOLEAN
    BY <2>1
  <2>3. got' = [bodies |-> 1, bytes |-> 0, leaving |-> got.leaving]
    BY <1>1, <1>3, <2>1
  <2>4. QED
    BY <2>2, <2>3
<1>7. GateTypeOK'
  BY <1>3, <1>4, <1>6 DEF GateInv, GateTypeOK, Entered
<1>8. Bytes'
  BY <1>1, <1>3 DEF Bytes
<1>9. Stages'
  BY <1>1, <1>3, <1>4, <1>6 DEF Stages
<1>10. Given'
  BY <1>1, <1>2, <1>3, <1>4, <1>5, <1>6 DEF GateInv, Stages, Given
<1>11. Unread'
  BY <1>4 DEF Unread, Entered
<1>12. QED
  BY <1>7, <1>8, <1>9, <1>10, <1>11 DEF GateInv

LEMMA ServingKeeps == GateInv /\ [ServingNext]_servingVars => GateInv'
<1> SUFFICES ASSUME GateInv, [ServingNext]_servingVars PROVE GateInv'
  OBVIOUS
<1>1. CASE GateStep
  BY <1>1, GateStepKeeps
<1>2. CASE Dispatch
  BY <1>2, ForgetArrivalKeeps DEF Dispatch
<1>3. CASE UNCHANGED gateVars
  BY <1>3, GateStutterKeeps
<1>4. CASE AnswerCall
  BY <1>4, SdkAnswersKeeps DEF AnswerCall
<1>5. QED
  BY <1>1, <1>2, <1>3, <1>4 DEF ServingNext, servingVars

LEMMA ServingInvariant == ServingSpec => []GateInv
<1>1. ServingInit => GateInv
  BY GateInvInit DEF ServingInit
<1>2. QED
  BY <1>1, ServingKeeps, PTL DEF ServingSpec

\* A request without a token is answered 401 with nothing of its body read, and
\* no spelling of the host's name gets past the allowlist or is kept out by it.
THEOREM GatesHold == ServingSpec => []GatesKeepOut
  BY ServingInvariant, KeptOut, PTL

\* However a body is declared, cut up and broken off, the gate keeps no more of
\* it than the limit and one message, and the SDK is given all of it, once.
THEOREM BodiesAreSound == ServingSpec => []BodyIsSound
  BY ServingInvariant, Sound, PTL

-----------------------------------------------------------------------------
(* What a tool call does, it does for a request that passed the gates.      *)

LEMMA CallStartsServed ==
  ASSUME GateInv, ServingNext, call' # call
  PROVE  /\ head.token /\ head.host.name \in AllowedNames
         /\ ended /\ body = sent /\ sent <= MaxRequestBytes
<1>1. stage = "serving"
  BY StepsOfOne DEF ServingNext, Dispatch, AnswerCall, callVars
<1>2. Entered /\ got.bodies = 1
  BY <1>1 DEF GateInv, Stages
<1>3. /\ HostAllowed(Normalized(head.host)) /\ ended /\ buffered = 0
      /\ body <= MaxRequestBytes
  BY <1>2 DEF GateInv, Given
<1>4. head.host.name \in AllowedNames
  BY <1>2, <1>3, HeadParts, HostByName DEF Entered
<1>5. body = sent
  BY <1>3 DEF GateInv, GateTypeOK, Bytes
<1>6. QED
  BY <1>2, <1>3, <1>4, <1>5 DEF Entered

\* GitLab is asked for nothing on behalf of a request that has not passed every
\* gate: a token, an allowed host, and a whole body within the limit.
THEOREM CallsAreServed == ServingSpec => GitLabOnlyAfterGates
<1> DEFINE Step == [call = NoCall /\ call' # NoCall
       => /\ head.token /\ head.host.name \in AllowedNames
          /\ ended /\ body = sent /\ sent <= MaxRequestBytes]_servingVars
<1>1. GateInv /\ [ServingNext]_servingVars => Step
  BY CallStartsServed
<1>2. QED
  BY <1>1, ServingInvariant, PTL DEF ServingSpec, GitLabOnlyAfterGates

-----------------------------------------------------------------------------
(* Behind the gates the tool calls are those of ToolCalls.                  *)

LEMMA ServingCalls == [ServingNext]_servingVars => [CallsNext]_callVars
<1>1. Dispatch => CallsNext
  BY DEF Dispatch, CallsNext
<1>2. AnswerCall => UNCHANGED callVars
  BY DEF AnswerCall
<1>3. ServingNext => [CallsNext]_callVars
  BY <1>1, <1>2 DEF ServingNext, CallsNext
<1>4. UNCHANGED servingVars => UNCHANGED callVars
  BY DEF servingVars
<1>5. QED
  BY <1>3, <1>4

LEMMA ServingCallsInvariant == ServingSpec => []CallsInv
<1>1. ServingInit => CallsInv
  BY CallsInvInit DEF ServingInit
<1>2. CallsInv /\ [ServingNext]_servingVars => CallsInv'
  BY ServingCalls, CallsKeep
<1>3. QED
  BY <1>1, <1>2, PTL DEF ServingSpec

\* The request and the tool call it carries stay well-formed: no more tries than
\* the client has, no GET that arrives late, a history that holds the present.
THEOREM TypesHold == ServingSpec => []ServingTypeOK
<1>1. GateInv /\ CallsInv => ServingTypeOK
  BY DEF GateInv, CallsInv, CallSound, ServingTypeOK
<1>2. QED
  BY <1>1, ServingInvariant, ServingCallsInvariant, PTL

\* update_variable, update_wiki_page, update_draft_note: a field the caller left
\* out is neither reset nor taken back behind what the call found.
THEOREM CarriedFieldsSurvive == ServingSpec => []NothingOlderReturns
<1>1. CallsInv => NothingOlderReturns
  BY CarriedForward DEF CallsInv
<1>2. QED
  BY <1>1, ServingCallsInvariant, PTL

\* update_file, delete_file: one commit, on top of the one the caller has seen.
THEOREM FilesAreGuarded == ServingSpec => []SeenCommitsOnly
<1>1. CallsInv => SeenCommitsOnly
  BY SeenOnly DEF CallsInv
<1>2. QED
  BY <1>1, ServingCallsInvariant, PTL

\* update_merge_request: a draft, or ready, as asked, under no older title.
THEOREM TitlesAreAsAsked == ServingSpec => []TitleAsAsked
<1>1. CallsInv => TitleAsAsked
  BY TitledAsAsked DEF CallsInv
<1>2. QED
  BY <1>1, ServingCallsInvariant, PTL

\* merge: with a sha, no other commit is merged.
THEOREM MergesAreReviewed == ServingSpec => []MergesWhatWasReviewed
<1>1. CallsInv => MergesWhatWasReviewed
  BY MergedAsReviewed DEF CallsInv
<1>2. QED
  BY <1>1, ServingCallsInvariant, PTL

\* merge: "merge_pending" is not the answer after a merge that took effect.
THEOREM MergesAreTold == ServingSpec => []MergedIsNotPending
<1>1. CallsInv => MergedIsNotPending
  BY MergedIsTold DEF CallsInv
<1>2. QED
  BY <1>1, ServingCallsInvariant, PTL

\* publish_review: the summary comes once and last, and an error tells where to
\* go on.
THEOREM ReviewsAreInOrder == ServingSpec => []ReviewInOrder
<1>1. CallsInv => ReviewInOrder
  BY ReviewOrdered DEF CallsInv
<1>2. QED
  BY <1>1, ServingCallsInvariant, PTL

\* create_discussion, create_draft_note: a comment is anchored to one computed
\* diff version, and diff_not_ready leaves none behind.
THEOREM CommentsAreAnchored == ServingSpec => []AnchorsAreWhole
<1>1. CallsInv => AnchorsAreWhole
  BY AnchoredWhole DEF CallsInv
<1>2. QED
  BY <1>1, ServingCallsInvariant, PTL

\* update_hook: custom headers are sent to no destination but their own.  After a
\* success the hook has the URL and the headers that were sent; if a url was, the
\* notes name a token that is gone and, if no headers were, headers that are.
\* Losses to url_variables alone, or beside headers that were sent, go unnamed.
THEOREM HooksAreSound == ServingSpec => []HookIsSound
<1>1. CallsInv => HookIsSound
  BY HookTold, HeadersPlaced DEF CallsInv, HookIsSound
<1>2. QED
  BY <1>1, ServingCallsInvariant, PTL

\* delete_project: the status it reports is so.
THEOREM DeletionsAreTold == ServingSpec => []DeletionToldTruly
<1>1. CallsInv => DeletionToldTruly
  BY DeletionTold DEF CallsInv
<1>2. QED
  BY <1>1, ServingCallsInvariant, PTL

\* tools/list: however many actions declare a parameter, its merged declaration
\* takes what each action's own does.
THEOREM SchemasFit == ServingSpec => []SchemaFits
<1>1. CallsInv => SchemaFits
  BY SchemaStandsForAll DEF CallsInv
<1>2. QED
  BY <1>1, ServingCallsInvariant, PTL

\* Behind the gates, too, the handlers ask GitLab for what their plans in the
\* catalogue say, in order, and end as the catalogue lets them.
THEOREM CatalogueIsKept == ServingSpec => KeepsToCatalogue
<1>1. CallsInv /\ PlanInv /\ ShownInv /\ [ServingNext]_servingVars => PlanInv' /\ ShownInv'
  BY ServingCalls, PlanKeeps
<1>2. CallsInv /\ PlanInv /\ ShownInv /\ [ServingNext]_servingVars
        => [Catalogued!Begin \/ Catalogued!Answer \/ Catalogued!Disconnect]_(Catalogued!vars)
  BY ServingCalls, PlanKeeps
<1>3. ServingInit => PlanInv /\ ShownInv /\ Catalogued!Init
  BY PlanInvInit DEF ServingInit
<1>4. QED
  BY <1>1, <1>2, <1>3, ServingCallsInvariant, PTL
     DEF ServingSpec, KeepsToCatalogue, Catalogued!Spec

-----------------------------------------------------------------------------
(* A request runs out of steps.                                             *)

\* What the server does for a request, and what its handler waits for, is used up
\* step by step; neither the peer, nor late attempts, nor other users add to it.
RequestsRunOut ==
  [][/\ ServerSteps /\ gateVars' # gateVars => GateStepsLeft' < GateStepsLeft
     /\ AwaitEnds => AttemptsLeft' < AttemptsLeft
     /\ GateStepsLeft' <= GateStepsLeft
     /\ call # NoCall => AttemptsLeft' <= AttemptsLeft]_servingVars

LEMMA GateStepsOnlySink ==
  ASSUME GateInv, GateInv', [ServingNext]_servingVars
  PROVE  GateStepsLeft' <= GateStepsLeft
<1>1. GateStepsLeft \in Int
  <2>1. GateStepsLeft \in 0..(MaxRequestBytes + 5)
    BY GateStepsTyped
  <2>2. QED
    BY <2>1
<1>2. CASE UNCHANGED gateVars
  <2>1. UNCHANGED <<stage, body, got>>
    BY <1>2 DEF gateVars
  <2>2. GateStepsLeft' = GateStepsLeft
    BY <2>1 DEF GateStepsLeft
  <2>3. QED
    BY <1>1, <2>2
<1>3. CASE PeerSends \/ PeerLeaves
  BY <1>1, <1>3, PeerAddsNothing
<1>4. CASE ServerSteps /\ ~(UNCHANGED gateVars)
  <2>1. GateStepsLeft' < GateStepsLeft
    BY <1>4, ServerStepsSink
  <2>2. GateStepsLeft' \in Int
    BY GateStepsLater
  <2>3. QED
    BY <1>1, <2>1, <2>2
<1>5. CASE Dispatch
  <2>1. stage = "serving" /\ stage' = "serving" /\ got'.leaving = got.leaving
    BY <1>5 DEF Dispatch, ForgetArrival, GateInv, GateTypeOK
  <2>2. QED
    BY <1>1, <2>1 DEF GateStepsLeft
<1>6. QED
  BY <1>2, <1>3, <1>4, <1>5 DEF ServingNext, GateStep, AnswerCall, ServerSteps, servingVars

\* The part of EveryRequestEnds that needs no fairness: the server takes a bounded
\* number of steps for a request, however its body is cut up, and waits for a
\* bounded number of attempts, whatever the network and other users do.
THEOREM NoRequestGoesOnForEver ==
  ServingSpec => /\ RequestsRunOut
                 /\ [](GateStepsLeft \in 0..(MaxRequestBytes + 5))
                 /\ [](AttemptsLeft \in 0..(2 * (Retries + 1)))
<1> DEFINE Sinks ==
      /\ ServerSteps /\ gateVars' # gateVars => GateStepsLeft' < GateStepsLeft
      /\ AwaitEnds => AttemptsLeft' < AttemptsLeft
      /\ GateStepsLeft' <= GateStepsLeft
      /\ call # NoCall => AttemptsLeft' <= AttemptsLeft
<1>1. ASSUME GateInv, GateInv', CallsInv, CallsInv', PlanInv, ShownInv,
             [ServingNext]_servingVars
      PROVE  [Sinks]_servingVars
  <2>1. [CallsNext]_callVars
    BY <1>1, ServingCalls
  <2>2. [/\ AwaitEnds => AttemptsLeft' < AttemptsLeft
         /\ call # NoCall => AttemptsLeft' <= AttemptsLeft]_callVars
    BY <1>1, <2>1, CallsUseAttempts
  <2>3. UNCHANGED callVars => AttemptsLeft' <= AttemptsLeft /\ ~AwaitEnds
    BY <1>1, AttemptsStill
  <2>4. GateStepsLeft' <= GateStepsLeft
    BY <1>1, GateStepsOnlySink
  <2>5. ServerSteps /\ gateVars' # gateVars => GateStepsLeft' < GateStepsLeft
    BY <1>1, ServerStepsSink
  <2>6. QED
    BY <2>2, <2>3, <2>4, <2>5
<1>2. CallsInv /\ PlanInv /\ ShownInv /\ [ServingNext]_servingVars => PlanInv' /\ ShownInv'
  BY ServingCalls, PlanKeeps
<1>3. ServingInit => PlanInv /\ ShownInv
  BY PlanInvInit DEF ServingInit
<1>4. GateInv => GateStepsLeft \in 0..(MaxRequestBytes + 5)
  BY GateStepsTyped
<1>5. CallsInv => AttemptsLeft \in 0..(2 * (Retries + 1))
  BY AttemptsBounded
<1>6. QED
  BY <1>1, <1>2, <1>3, <1>4, <1>5, ServingInvariant, ServingCallsInvariant, PTL
     DEF ServingSpec, RequestsRunOut

=============================================================================
