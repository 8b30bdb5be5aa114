------------------------------ MODULE Serving ------------------------------
(***************************************************************************)
(* A tool call from the HTTP request that carries it to the answer: the    *)
(* gates hand the request to the SDK, the SDK serves it (the dispatcher    *)
(* calls the tool's handler, unless the message is no tool call), and the  *)
(* request is answered with what the handler returned.                     *)
(***************************************************************************)
EXTENDS HttpGate, ToolCalls

servingVars == <<gateVars, callVars>>

ServingInit == GateInit /\ CallsInit

\* The gates' work is done.  What they checked is forgotten here, so that a
\* tool call is explored once and not for every way its request can arrive.
ServedHead ==
  [head EXCEPT !.declared = Undeclared, !.host = Normalized(head.host)]
ForgetArrival ==
  /\ head' = ServedHead
  /\ sent' = 0 /\ body' = 0
  /\ got' = [got EXCEPT !.bytes = 0]
  /\ UNCHANGED <<stage, status, ended, left, buffered, delivered>>

Dispatch ==
  /\ stage = "serving"
  /\ StartCall
  /\ ForgetArrival

AnswerCall ==
  /\ ~Running
  /\ SdkAnswers
  /\ UNCHANGED callVars

ServingNext ==
  \/ GateStep /\ UNCHANGED callVars
  \/ Dispatch
  \/ CallStep /\ UNCHANGED gateVars
  \/ AnswerCall

\* Every await of a request under way ends: a peer in the middle of its body
\* goes on or leaves (one that has sent it may wait as long as it likes),
\* GitLab answers or the client's timeout does, and the event loop runs the rest.
ServingFairness ==
  /\ WF_servingVars(~ended /\ (PeerSends \/ PeerLeaves) /\ UNCHANGED callVars)
  /\ WF_servingVars((ReadBody \/ MisdirectedRequest \/ SdkReceives) /\ UNCHANGED callVars)
  /\ WF_servingVars(AnswerCall)
  /\ WF_servingVars(AwaitEnds /\ UNCHANGED gateVars)

ServingSpec == ServingInit /\ [][ServingNext]_servingVars /\ ServingFairness

\* Types, of the request and of the tool call it carries.
ServingTypeOK == GateTypeOK /\ CallsTypeOK

\* GitLab is asked for nothing on behalf of a request that has not passed every
\* gate: with a token, for an allowed host, its whole body read and within the
\* limit.
GitLabOnlyAfterGates ==
  [][call = NoCall /\ call' # NoCall
       => /\ head.token /\ head.host.name \in AllowedNames
          /\ ended /\ body = sent /\ sent <= MaxRequestBytes]_servingVars

\* Every POST comes to an end: it is answered, with a refusal or with what its
\* tool call returned, or dropped because the peer left while sending.
EveryRequestEnds ==
  head # NoHead /\ head.method = "POST" ~> stage \in {"answered", "dropped"}

=============================================================================
