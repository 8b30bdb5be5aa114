--------------------------- MODULE HttpGateProofs ---------------------------
(* Proofs about HttpGate: for any limit, buffer, body length and host names. *)
EXTENDS HttpGate, Integers, TLAPS

USE HttpGateAssumption

-----------------------------------------------------------------------------
LEMMA GateInvInit == GateInit => GateInv
<1> SUFFICES ASSUME GateInit PROVE GateInv
  OBVIOUS
<1> USE DEF GateInit
<1>1. GateTypeOK
  <2>1. NothingGot \in [bodies : 0..1, bytes : Nat, leaving : BOOLEAN]
    BY DEF NothingGot
  <2>2. QED
    BY <2>1 DEF GateTypeOK
<1>2. Bytes
  BY DEF Bytes
<1>3. Stages
  BY DEF Stages
<1>4. Given
  BY DEF Given, NothingGot
<1>5. Unread
  BY DEF Unread
<1>6. QED
  BY <1>1, <1>2, <1>3, <1>4, <1>5 DEF GateInv

\* No head stands for no request.
LEMMA HeadIsNot == \A h \in Heads : h # NoHead
  BY DEF Heads, NoHead

\* What a head is made of.
LEMMA HeadParts ==
  ASSUME NEW h \in Heads
  PROVE  /\ h.method \in {"GET", "POST", "DELETE"}
         /\ h.path \in {"/mcp", "/healthz"}
         /\ h.token \in BOOLEAN
         /\ h.host \in Hosts
  BY DEF Heads

\* The SDK accepts the names on the list, however they were written.
LEMMA HostByName ==
  ASSUME NEW host \in Hosts
  PROVE  HostAllowed(Normalized(host)) <=> host.name \in AllowedNames
  BY DEF Hosts, HostAllowed, Normalized

\* What a request that has not been read yet has given the SDK.
LEMMA IdleHasNothing ==
  ASSUME GateInv, stage = "idle"
  PROVE  /\ head = NoHead /\ status = 0 /\ sent = 0 /\ body = 0 /\ buffered = 0
         /\ ~ended /\ ~delivered /\ got = NothingGot
<1>1. got.bodies = 0
  BY DEF GateInv, GateTypeOK, Given
<1>2. QED
  BY <1>1 DEF GateInv, GateTypeOK, Bytes, Stages, Given

\* What is known of a request that was refused: it is still unread.
LEMMA RefusalIsKnown ==
  ASSUME NEW h \in Heads
  PROVE  /\ Refusal(h) \subseteq {401, 405, 413}
         /\ h.path = "/mcp" /\ ~h.token => Refusal(h) = {401}
         /\ Refusal(h) = {} /\ h.path = "/mcp" => h.token
  BY HeadParts DEF Refusal

LEMMA ArriveKeeps ==
  ASSUME GateInv, NEW h \in Heads, Arrive(h)
  PROVE  GateInv'
<1>1. /\ stage = "idle" /\ head' = h
      /\ UNCHANGED <<sent, ended, left, buffered, body, delivered, got>>
  BY DEF Arrive
<1>2. /\ head = NoHead /\ status = 0 /\ sent = 0 /\ body = 0 /\ buffered = 0
      /\ ~ended /\ ~delivered /\ got = NothingGot
  BY <1>1, IdleHasNothing
<1>3. h # NoHead
  BY HeadIsNot
<1>4. \/ stage' = "answered" /\ status' \in {200, 401, 405, 413}
      \/ /\ Entered' /\ status' = 0
         /\ \/ stage' = "reading" /\ head'.method = "POST"
            \/ stage' = "inside" /\ head'.method # "POST"
  BY <1>1, <1>2, RefusalIsKnown DEF Arrive, Respond, Entered
<1>5. GateTypeOK'
  BY <1>1, <1>4 DEF GateInv, GateTypeOK
<1>6. Bytes'
  BY <1>1 DEF GateInv, Bytes
<1>7. Stages'
  BY <1>1, <1>2, <1>3, <1>4 DEF Stages, GateInv, GateTypeOK
<1>8. Given'
  BY <1>1, <1>2, <1>4 DEF Given, NothingGot
<1>9. Unread'
  <2> SUFFICES ASSUME h.path = "/mcp", ~h.token
               PROVE  status' = 401
    BY <1>1, <1>2 DEF Unread
  <2>1. QED
    BY RefusalIsKnown DEF Arrive, Respond
<1>10. QED
  BY <1>5, <1>6, <1>7, <1>8, <1>9 DEF GateInv

LEMMA PeerSendsKeeps == GateInv /\ PeerSends => GateInv'
<1> SUFFICES ASSUME GateInv, PeerSends PROVE GateInv'
  OBVIOUS
<1>1. PICK n \in Lengths, last \in BOOLEAN :
        /\ buffered + n <= ServerBuffer
        /\ sent' = sent + n /\ buffered' = buffered + n /\ ended' = last
  BY DEF PeerSends
<1>2. /\ stage = "reading"
      /\ UNCHANGED <<head, stage, status, left, body, delivered, got>>
  BY DEF PeerSends
<1>3. n \in Nat
  BY <1>1 DEF Lengths
<1>4. GateTypeOK'
  BY <1>1, <1>2, <1>3 DEF GateInv, GateTypeOK
<1>5. Bytes'
  BY <1>1, <1>2, <1>3 DEF GateInv, Bytes, GateTypeOK
<1>6. Stages'
  BY <1>2 DEF GateInv, Stages, Entered
<1>7. Given'
  BY <1>2 DEF GateInv, Stages, Given, Entered, NothingGot
<1>8. Unread'
  BY <1>2 DEF GateInv, Stages, Unread, Entered
<1>9. QED
  BY <1>4, <1>5, <1>6, <1>7, <1>8 DEF GateInv

LEMMA PeerLeavesKeeps == GateInv /\ PeerLeaves => GateInv'
<1> SUFFICES ASSUME GateInv, PeerLeaves PROVE GateInv'
  OBVIOUS
<1>1. /\ left' = TRUE
      /\ UNCHANGED <<head, stage, status, sent, ended, buffered, body, delivered, got>>
  BY DEF PeerLeaves
<1>2. QED
  BY <1>1 DEF GateInv, GateTypeOK, Bytes, Stages, Given, Unread, Entered

LEMMA ReadBodyKeeps == GateInv /\ ReadBody => GateInv'
<1> SUFFICES ASSUME GateInv, ReadBody PROVE GateInv'
  OBVIOUS
<1>1. /\ stage = "reading" /\ UNCHANGED <<head, sent, ended, left, delivered, got>>
  BY DEF ReadBody
<1>2. /\ Entered /\ head.method = "POST" /\ status = 0 /\ head # NoHead
      /\ body <= MaxRequestBytes /\ ~delivered /\ got = NothingGot
  BY <1>1 DEF GateInv, Stages
<1>3. /\ body \in Nat /\ buffered \in Nat /\ buffered <= ServerBuffer
      /\ body + buffered = sent
  BY DEF GateInv, GateTypeOK, Bytes
<1>4. \/ stage' = "dropped" /\ UNCHANGED <<status, body, buffered>>
      \/ /\ body' = body + buffered /\ buffered' = 0
         /\ \/ stage' = "answered" /\ status' = 413
            \/ /\ stage' \in {"inside", "reading"} /\ UNCHANGED status
               /\ body' <= MaxRequestBytes
               /\ stage' = "inside" => ended
  <2>1. CASE left
    BY <2>1 DEF ReadBody
  <2>2. CASE ~left
    <3>1. body' = body + buffered /\ buffered' = 0 /\ body' \in Nat
      BY <2>2, <1>3 DEF ReadBody
    <3>2. ~OverLimit(body') => body' <= MaxRequestBytes
      BY <3>1 DEF OverLimit
    <3>3. QED
      BY <2>2, <3>1, <3>2, <1>1 DEF ReadBody, Respond, BodyIsRead
  <2>3. QED
    BY <2>1, <2>2
<1>5. GateTypeOK'
  BY <1>1, <1>3, <1>4 DEF GateInv, GateTypeOK
<1>6. Bytes'
  BY <1>1, <1>2, <1>3, <1>4 DEF Bytes
<1>7. Stages'
  BY <1>1, <1>2, <1>4 DEF Stages, Entered
<1>8. Given'
  BY <1>1, <1>2, <1>4 DEF Given, NothingGot
<1>9. Unread'
  BY <1>1, <1>2 DEF Unread, Entered
<1>10. QED
  BY <1>5, <1>6, <1>7, <1>8, <1>9 DEF GateInv

LEMMA MisdirectedKeeps == GateInv /\ MisdirectedRequest => GateInv'
<1> SUFFICES ASSUME GateInv, MisdirectedRequest PROVE GateInv'
  OBVIOUS
<1>1. /\ stage = "inside" /\ stage' = "answered" /\ status' = 421
      /\ ~HostAllowed(Normalized(head.host))
      /\ UNCHANGED <<head, sent, ended, left, buffered, body, delivered, got>>
  BY DEF MisdirectedRequest, Respond
<1>2. Entered /\ head # NoHead /\ got = NothingGot
  BY <1>1 DEF GateInv, Stages
<1>3. GateTypeOK' /\ Bytes'
  BY <1>1 DEF GateInv, GateTypeOK, Bytes
<1>4. Stages'
  BY <1>1, <1>2 DEF Stages
<1>5. Given'
  BY <1>1, <1>2 DEF Given, NothingGot
<1>6. Unread'
  BY <1>1, <1>2 DEF Unread, Entered
<1>7. QED
  BY <1>3, <1>4, <1>5, <1>6 DEF GateInv

LEMMA SdkReceivesKeeps == GateInv /\ SdkReceives => GateInv'
<1> SUFFICES ASSUME GateInv, SdkReceives PROVE GateInv'
  OBVIOUS
<1>1. /\ stage \in {"inside", "serving"} /\ head.method = "POST"
      /\ HostAllowed(Normalized(head.host))
      /\ UNCHANGED <<head, status, sent, ended, left, buffered, body>>
  BY DEF SdkReceives
<1>2. /\ Entered /\ head # NoHead /\ ended /\ buffered = 0 /\ body <= MaxRequestBytes
  BY <1>1 DEF GateInv, Stages
<1>3. /\ body \in Nat /\ got \in [bodies : 0..1, bytes : Nat, leaving : BOOLEAN]
      /\ delivered \in BOOLEAN
  BY DEF GateInv, GateTypeOK
<1>4. /\ stage' = "serving" /\ delivered' = TRUE /\ got'.bodies = 1 /\ got'.bytes = body
      /\ got' \in [bodies : 0..1, bytes : Nat, leaving : BOOLEAN]
      /\ delivered' \in BOOLEAN
  <2>1. CASE ~delivered
    <3>1. delivered' = TRUE /\ stage' = "serving"
      BY <2>1 DEF SdkReceives, ReplaysBody
    <3>2. got' = [got EXCEPT !.bodies = 1, !.bytes = body]
      BY <2>1 DEF SdkReceives, ReplaysBody
    <3>3. got'.bodies = 1 /\ got'.bytes = body
      BY <3>2, <1>3
    <3>4. got' \in [bodies : 0..1, bytes : Nat, leaving : BOOLEAN]
      <4>1. 1 \in 0..1 /\ got.leaving \in BOOLEAN
        BY <1>3
      <4>2. got' = [bodies |-> 1, bytes |-> body, leaving |-> got.leaving]
        BY <3>2, <1>3
      <4>3. QED
        BY <4>1, <4>2, <1>3
    <3>5. QED
      BY <3>1, <3>3, <3>4
  <2>2. CASE delivered
    <3>1. stage = "serving"
      BY <2>2, <1>1 DEF GateInv, Stages
    <3>2. /\ got' = [got EXCEPT !.leaving = TRUE]
          /\ UNCHANGED <<stage, delivered>>
      BY <2>2 DEF SdkReceives, ReplaysBody
    <3>3. got.bodies = 1 /\ got.bytes = body
      BY <3>1 DEF GateInv, Stages, Given
    <3>4. /\ got'.bodies = 1 /\ got'.bytes = body
          /\ got' \in [bodies : 0..1, bytes : Nat, leaving : BOOLEAN]
      BY <3>2, <3>3, <1>3
    <3>5. QED
      BY <2>2, <3>1, <3>2, <3>4, <1>3
  <2>3. QED
    BY <2>1, <2>2
<1>5. GateTypeOK' /\ Bytes'
  BY <1>1, <1>4 DEF GateInv, GateTypeOK, Bytes
<1>6. Stages'
  BY <1>1, <1>2, <1>4 DEF Stages, Entered
<1>7. Given'
  BY <1>1, <1>2, <1>4 DEF GateInv, Given, Entered
<1>8. Unread'
  BY <1>1, <1>2 DEF Unread, Entered
<1>9. QED
  BY <1>5, <1>6, <1>7, <1>8 DEF GateInv

LEMMA SdkAnswersKeeps == GateInv /\ SdkAnswers => GateInv'
<1> SUFFICES ASSUME GateInv, SdkAnswers PROVE GateInv'
  OBVIOUS
<1>1. /\ stage \in {"inside", "serving"} /\ stage' = "answered" /\ status' = 200
      /\ UNCHANGED <<head, sent, ended, left, buffered, body, delivered, got>>
  BY DEF SdkAnswers, Respond
<1>2. Entered /\ head # NoHead
  BY <1>1 DEF GateInv, Stages
<1>3. GateTypeOK' /\ Bytes'
  BY <1>1 DEF GateInv, GateTypeOK, Bytes
<1>4. Stages'
  BY <1>1, <1>2 DEF Stages
<1>5. Given'
  BY <1>1 DEF GateInv, Given, Entered
<1>6. Unread'
  BY <1>1, <1>2 DEF Unread, Entered
<1>7. QED
  BY <1>3, <1>4, <1>5, <1>6 DEF GateInv

-----------------------------------------------------------------------------
LEMMA GateStepKeeps == GateInv /\ GateStep => GateInv'
  BY ArriveKeeps, PeerSendsKeeps, PeerLeavesKeeps, ReadBodyKeeps, MisdirectedKeeps,
     SdkReceivesKeeps DEF GateStep

LEMMA GateStutterKeeps == GateInv /\ UNCHANGED gateVars => GateInv'
  BY DEF GateInv, GateTypeOK, Bytes, Stages, Given, Unread, Entered, gateVars

\* The gates' inductive invariant: what is known of a request at each stage.
THEOREM GateInvariant == GateSpec => []GateInv
<1>1. GateInv /\ [GateNext]_gateVars => GateInv'
  BY GateStepKeeps, SdkAnswersKeeps, GateStutterKeeps DEF GateNext
<1>2. QED
  BY GateInvInit, <1>1, PTL DEF GateSpec

-----------------------------------------------------------------------------
(* What follows from it.                                                    *)

LEMMA KeptOut == GateInv => GatesKeepOut
<1> SUFFICES ASSUME GateInv PROVE GatesKeepOut
  OBVIOUS
<1>1. StrangersUnread
  BY DEF GateInv, GateTypeOK, Bytes, Unread, StrangersUnread
<1>2. ASSUME head \in Heads
      PROVE  HostAllowed(Normalized(head.host)) <=> head.host.name \in AllowedNames
  BY <1>2, HeadParts, HostByName
<1>3. got.bodies > 0 => head.host.name \in AllowedNames
  BY <1>2 DEF GateInv, Given, Entered
<1>4. status = 421 => head.host.name \notin AllowedNames
  <2>1. status = 421 => head \in Heads
    BY DEF GateInv, GateTypeOK, Stages
  <2>2. QED
    BY <1>2, <2>1 DEF GateInv, Given
<1>5. QED
  BY <1>1, <1>3, <1>4 DEF GatesKeepOut, HostCaseIgnored

LEMMA Sound == GateInv => BodyIsSound
<1> SUFFICES ASSUME GateInv PROVE BodyIsSound
  OBVIOUS
<1>1. BodyIsBounded
  BY DEF GateInv, Bytes, Given, BodyIsBounded
<1>2. BodyIsWhole
  <2> SUFFICES ASSUME got.bodies > 0
               PROVE  got.bodies = 1 /\ ended /\ got.bytes = sent /\ head.token /\ head.method = "POST"
    BY DEF BodyIsWhole
  <2>1. Entered /\ head.method = "POST" /\ ended /\ buffered = 0 /\ got.bytes = body
    BY DEF GateInv, Given
  <2>2. got.bodies = 1
    BY DEF GateInv, GateTypeOK
  <2>3. got.bytes = sent
    BY <2>1 DEF GateInv, GateTypeOK, Bytes
  <2>4. QED
    BY <2>1, <2>2, <2>3 DEF Entered
<1>3. QED
  BY <1>1, <1>2 DEF BodyIsSound

-----------------------------------------------------------------------------
(* A request runs out of steps at the gates.                                *)

\* The server's own steps, as against the peer's.
ServerSteps ==
  (\E h \in Heads : Arrive(h)) \/ ReadBody \/ MisdirectedRequest \/ SdkReceives \/ SdkAnswers

\* How many of them a request has before it, at most: every piece of a body is
\* of a byte or more, or its last.
GateStepsLeft ==
  CASE stage = "idle" -> MaxRequestBytes + 5
    [] stage = "reading" -> (MaxRequestBytes - body) + 4
    [] stage = "inside" -> 3
    [] stage = "serving" -> IF got.leaving THEN 1 ELSE 2
    [] stage \in {"answered", "dropped"} -> 0

LEMMA GateStepsTyped ==
  ASSUME GateInv
  PROVE  GateStepsLeft \in 0..(MaxRequestBytes + 5)
<1>1. stage \in {"idle", "reading", "inside", "serving", "answered", "dropped"}
  BY DEF GateInv, GateTypeOK
<1>2. stage = "reading" => body \in 0..MaxRequestBytes
  BY DEF GateInv, GateTypeOK, Stages
<1>3. QED
  BY <1>1, <1>2 DEF GateStepsLeft

LEMMA GateStepsLater ==
  ASSUME GateInv'
  PROVE  GateStepsLeft' \in Int
<1>1. stage' \in {"idle", "reading", "inside", "serving", "answered", "dropped"}
  BY DEF GateInv, GateTypeOK
<1>2. stage' = "reading" => body' \in Int
  BY DEF GateInv, GateTypeOK
<1>3. QED
  BY <1>1, <1>2 DEF GateStepsLeft

LEMMA ServerStepsSink ==
  ASSUME GateInv, GateInv', ServerSteps, gateVars' # gateVars
  PROVE  GateStepsLeft' < GateStepsLeft
<1>1. ASSUME NEW h \in Heads, Arrive(h)
      PROVE  GateStepsLeft' < GateStepsLeft
  <2>1. stage = "idle" /\ stage' \in {"reading", "inside", "answered"} /\ body' = body
    BY <1>1 DEF Arrive, Respond
  <2>2. body = 0
    BY <2>1, IdleHasNothing
  <2>3. QED
    BY <2>1, <2>2 DEF GateStepsLeft
<1>2. CASE ReadBody
  <2>1. /\ stage = "reading" /\ buffered \in Nat /\ body \in 0..MaxRequestBytes
        /\ stage' = "reading" => body' \in 0..MaxRequestBytes
    BY <1>2 DEF ReadBody, GateInv, GateTypeOK, Stages
  <2>2. \/ stage' \in {"dropped", "answered", "inside"}
        \/ stage' = "reading" /\ body' = body + buffered /\ buffered > 0
    BY <1>2 DEF ReadBody, Respond, BodyIsRead
  <2>3. QED
    BY <2>1, <2>2 DEF GateStepsLeft
<1>3. CASE MisdirectedRequest
  BY <1>3 DEF MisdirectedRequest, Respond, GateStepsLeft
<1>4. CASE SdkReceives
  <2>1. got \in [bodies : 0..1, bytes : Nat, leaving : BOOLEAN]
    BY DEF GateInv, GateTypeOK
  <2>2. \/ stage = "inside" /\ stage' = "serving"
        \/ /\ stage = "serving" /\ stage' = "serving"
           /\ got' = [got EXCEPT !.leaving = TRUE] /\ got' # got
    BY <1>4 DEF SdkReceives, ReplaysBody, GateInv, Stages, gateVars
  <2>3. CASE stage = "inside" /\ stage' = "serving"
    BY <2>3 DEF GateStepsLeft
  <2>4. CASE /\ stage = "serving" /\ stage' = "serving"
             /\ got' = [got EXCEPT !.leaving = TRUE] /\ got' # got
    <3>1. got.leaving = FALSE /\ got'.leaving = TRUE
      BY <2>1, <2>4
    <3>2. QED
      BY <2>4, <3>1 DEF GateStepsLeft
  <2>5. QED
    BY <2>2, <2>3, <2>4
<1>5. CASE SdkAnswers
  BY <1>5 DEF SdkAnswers, Respond, GateStepsLeft
<1>6. QED
  BY <1>1, <1>2, <1>3, <1>4, <1>5 DEF ServerSteps

LEMMA PeerAddsNothing ==
  ASSUME PeerSends \/ PeerLeaves
  PROVE  GateStepsLeft' = GateStepsLeft
<1>1. UNCHANGED <<stage, body, got>>
  BY DEF PeerSends, PeerLeaves
<1>2. QED
  BY <1>1 DEF GateStepsLeft

=============================================================================
