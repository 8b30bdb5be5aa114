------------------------------ MODULE HttpGate ------------------------------
(***************************************************************************)
(* One HTTP request on its way to the MCP SDK (transport/http.py): the     *)
(* routes, RequireCredentials, LimitRequestBody, RefuseStandaloneStream    *)
(* and NormalizeHost, in the order build_http_app puts them in, while the  *)
(* peer sends the body in pieces and may leave at any moment.              *)
(*                                                                         *)
(* Sizes are in units of any length.  uvicorn and the SDK are external:    *)
(* uvicorn keeps the body bytes nobody has asked for and hands them over   *)
(* in one message, and once the peer has left says only that; the SDK      *)
(* checks the Host header, reads the body, then listens for the peer to    *)
(* leave.                                                                  *)
(***************************************************************************)
EXTENDS Naturals

CONSTANTS
  MaxRequestBytes,  \* MCP_MAX_REQUEST_BYTES
  ServerBuffer,     \* body bytes uvicorn takes in before it stops reading
  LongestBody,      \* bound: the longest body a peer sends
  Stateless,        \* MCP_STATELESS_HTTP
  HostNames,        \* host names without regard to case
  AllowedNames      \* those MCP_ALLOWED_HOSTS names, in lower case

ASSUME HttpGateAssumption ==
  /\ MaxRequestBytes \in Nat
  /\ ServerBuffer \in Nat \ {0}
  /\ LongestBody \in Nat
  /\ Stateless \in BOOLEAN
  /\ AllowedNames \subseteq HostNames

VARIABLES
  head,      \* the request line and headers that matter
  stage,     \* "idle", "reading" the body, "inside" the SDK, "serving" the
             \* MCP message, "answered", or "dropped" without an answer
  status,    \* the HTTP status of the answer; 0 before
  sent,      \* body bytes the peer has sent
  ended,     \* the peer has sent its whole body
  left,      \* the peer has left
  buffered,  \* body bytes uvicorn holds
  body,      \* body bytes LimitRequestBody has read
  delivered, \* replay has handed the body to the SDK
  got        \* what the SDK received: bodies, bytes, and that the peer left

gateVars == <<head, stage, status, sent, ended, left, buffered, body,
              delivered, got>>

Lengths == 0..LongestBody

\* The declared length need not be true, and there may be none.
Undeclared == [given |-> FALSE, length |-> 0]
Declared == [given : {TRUE}, length : Lengths] \cup {Undeclared}
Hosts == [name : HostNames, lower : BOOLEAN]
Heads == [method : {"GET", "POST", "DELETE"}, path : {"/mcp", "/healthz"},
          token : BOOLEAN, declared : Declared, host : Hosts]

NoHead == [method |-> "none"]
NothingGot == [bodies |-> 0, bytes |-> 0, leaving |-> FALSE]

GateInit ==
  /\ head = NoHead
  /\ stage = "idle"
  /\ status = 0
  /\ sent = 0
  /\ ended = FALSE
  /\ left = FALSE
  /\ buffered = 0
  /\ body = 0
  /\ delivered = FALSE
  /\ got = NothingGot

-----------------------------------------------------------------------------
(* The peer.                                                                *)

PeerSends ==
  /\ stage = "reading" /\ ~ended /\ ~left
  /\ buffered < ServerBuffer
  /\ \E n \in Lengths, last \in BOOLEAN :
       /\ n > 0 \/ last
       /\ buffered + n <= ServerBuffer
       /\ sent + n <= LongestBody
       /\ sent' = sent + n
       /\ buffered' = buffered + n
       /\ ended' = last
  /\ UNCHANGED <<head, stage, status, left, body, delivered, got>>

PeerLeaves ==
  /\ stage \in {"reading", "inside", "serving"} /\ ~left
  /\ left' = TRUE
  /\ UNCHANGED <<head, stage, status, sent, ended, buffered, body, delivered, got>>

-----------------------------------------------------------------------------
(* The gates.                                                               *)

\* A wrong version: the body is read before the token is looked for.
RefusalBodyFirst(h) ==
  {n \in {401, 405, 413} :
     \/ n = 405 /\ h.path = "/healthz" /\ h.method # "GET"
     \/ n = 401 /\ h.path = "/mcp" /\ ~h.token /\ h.method # "POST"
     \/ n = 413 /\ h.path = "/mcp" /\ h.method = "POST"
                /\ h.declared.given /\ h.declared.length > MaxRequestBytes
     \/ n = 405 /\ h.path = "/mcp" /\ h.token /\ h.method = "GET" /\ Stateless}

\* What the head alone settles: the route's own method check, RequireCredentials,
\* LimitRequestBody's look at a declared length, RefuseStandaloneStream.
Refusal(h) ==
  {n \in {401, 405, 413} :
     \/ n = 405 /\ h.path = "/healthz" /\ h.method # "GET"
     \/ n = 401 /\ h.path = "/mcp" /\ ~h.token
     \/ n = 413 /\ h.path = "/mcp" /\ h.token /\ h.method = "POST"
                /\ h.declared.given /\ h.declared.length > MaxRequestBytes
     \/ n = 405 /\ h.path = "/mcp" /\ h.token /\ h.method = "GET" /\ Stateless}

Respond(n) == status' = n /\ stage' = "answered"

\* A request arrives and runs as far as its first await.  The body of
\* anything but a POST is left to the SDK.
Arrive(h) ==
  /\ stage = "idle"
  /\ head' = h
  /\ \/ \E n \in Refusal(h) : Respond(n)
     \/ Refusal(h) = {} /\ h.path = "/healthz" /\ Respond(200)
     \/ /\ Refusal(h) = {} /\ h.path = "/mcp"
        /\ stage' = IF h.method = "POST" THEN "reading" ELSE "inside"
        /\ UNCHANGED status
  /\ UNCHANGED <<sent, ended, left, buffered, body, delivered, got>>

\* Two wrong versions: the first message is taken for the whole body; an
\* empty message is not taken for its end.
BodyIsReadAtOnce == TRUE
BodyIsReadWithBytes == ended /\ buffered > 0

\* `more_body` is false once uvicorn holds the end of the body.
BodyIsRead == ended

\* A wrong version: the limit is looked at when the body has ended.
OverLimitAtEnd(n) == ended /\ n > MaxRequestBytes

OverLimit(n) == n > MaxRequestBytes

\* `message = await receive()` in LimitRequestBody's loop: uvicorn has some of
\* the body, its end, or the news that the peer has left.
ReadBody ==
  /\ stage = "reading"
  /\ left \/ ended \/ buffered > 0
  /\ \/ /\ left
        /\ stage' = "dropped"
        /\ UNCHANGED <<status, body, buffered>>
     \/ /\ ~left
        /\ body' = body + buffered
        /\ buffered' = 0
        /\ \/ OverLimit(body') /\ Respond(413)
           \/ ~OverLimit(body') /\ BodyIsRead /\ stage' = "inside" /\ UNCHANGED status
           \/ ~OverLimit(body') /\ ~BodyIsRead /\ UNCHANGED <<stage, status>>
  /\ UNCHANGED <<head, sent, ended, left, delivered, got>>

-----------------------------------------------------------------------------
(* Inside: NormalizeHost, then the SDK.                                     *)

\* NormalizeHost.
Normalized(host) == [host EXCEPT !.lower = TRUE]

\* The SDK compares host names exactly.
HostAllowed(host) == host.lower /\ host.name \in AllowedNames

MisdirectedRequest ==
  /\ stage = "inside" /\ got = NothingGot
  /\ ~HostAllowed(Normalized(head.host))
  /\ Respond(421)
  /\ UNCHANGED <<head, sent, ended, left, buffered, body, delivered, got>>

\* A wrong version: replay hands the body over every time it is asked.
ReplaysBodyAgain == TRUE

\* replay: the body the first time, and uvicorn's receive after that.
ReplaysBody == ~delivered

\* The SDK awaits `receive()` on a POST: first the body, with which it serves
\* the MCP message, then the news that the peer has left.
SdkReceives ==
  /\ stage \in {"inside", "serving"} /\ head.method = "POST"
  /\ HostAllowed(Normalized(head.host))
  /\ \/ /\ ReplaysBody
        /\ delivered' = TRUE
        /\ got' = [got EXCEPT !.bodies = IF delivered THEN 2 ELSE 1, !.bytes = body]
        /\ stage' = "serving"
     \/ /\ ~ReplaysBody /\ left
        /\ got' = [got EXCEPT !.leaving = TRUE]
        /\ UNCHANGED <<stage, delivered>>
  /\ UNCHANGED <<head, status, sent, ended, left, buffered, body>>

\* The SDK answers: an MCP message, or a GET or DELETE of a session.
SdkAnswers ==
  /\ \/ stage = "serving"
     \/ /\ stage = "inside" /\ head.method # "POST"
        /\ HostAllowed(Normalized(head.host))
  /\ Respond(200)
  /\ UNCHANGED <<head, sent, ended, left, buffered, body, delivered, got>>

GateStep ==
  \/ \E h \in Heads : Arrive(h)
  \/ PeerSends
  \/ PeerLeaves
  \/ ReadBody
  \/ MisdirectedRequest
  \/ SdkReceives

GateNext == GateStep \/ SdkAnswers
GateSpec == GateInit /\ [][GateNext]_gateVars

-----------------------------------------------------------------------------
(* What the gates promise.                                                  *)

GateTypeOK ==
  /\ head \in Heads \cup {NoHead}
  /\ stage \in {"idle", "reading", "inside", "serving", "answered", "dropped"}
  /\ status \in {0, 200, 401, 405, 413, 421}
  /\ sent \in Nat /\ buffered \in Nat /\ body \in Nat
  /\ ended \in BOOLEAN /\ left \in BOOLEAN /\ delivered \in BOOLEAN
  /\ got \in [bodies : 0..1, bytes : Nat, leaving : BOOLEAN]

\* A request without a token is answered 401 and not a byte of its body is
\* read, however it declares the body (RequireCredentials goes first).
StrangersUnread ==
  head # NoHead /\ head.path = "/mcp" /\ ~head.token
    => status = 401 /\ body = 0 /\ got = NothingGot

\* A body that is over the limit costs the server no more memory than the
\* limit and the one message that crossed it, whether its length was declared
\* truly, falsely or not at all, and none of it reaches the SDK.
BodyIsBounded ==
  /\ body <= MaxRequestBytes + ServerBuffer
  /\ got.bodies > 0 => got.bytes <= MaxRequestBytes

\* The SDK is given the body once, and as the peer sent it: nothing of a peer
\* that left before the end, nothing twice and nothing short, however the body
\* was cut into messages (LimitRequestBody and its replay).
BodyIsWhole ==
  got.bodies > 0
    => got.bodies = 1 /\ ended /\ got.bytes = sent /\ head.token /\ head.method = "POST"

\* Whether a Host is accepted does not depend on how it is capitalised.
HostCaseIgnored ==
  /\ status = 421 => head.host.name \notin AllowedNames
  /\ got.bodies > 0 => head.host.name \in AllowedNames

\* A stranger is kept out before its body is read, and no caller because of
\* how it writes the host's name.
GatesKeepOut == StrangersUnread /\ HostCaseIgnored

\* However a body is cut up, declared and broken off, what of it is kept is
\* bounded and what of it is served is all of it.
BodyIsSound == BodyIsBounded /\ BodyIsWhole

-----------------------------------------------------------------------------
(* Why they hold: what is known of a request at each stage.                 *)

Entered == head \in Heads /\ head.path = "/mcp" /\ head.token

\* Every byte the peer sent is in uvicorn's buffer or in the gate's.
Bytes ==
  /\ body + buffered = sent
  /\ buffered <= ServerBuffer
  /\ body <= MaxRequestBytes + ServerBuffer

Stages ==
  /\ stage = "idle" => head = NoHead /\ status = 0 /\ sent = 0 /\ ~ended /\ ~delivered
  /\ stage = "reading"
       => Entered /\ head.method = "POST" /\ status = 0
          /\ body <= MaxRequestBytes /\ ~delivered /\ got = NothingGot
  /\ stage = "inside" => Entered /\ status = 0 /\ ~delivered /\ got = NothingGot
  /\ stage \in {"inside", "serving"} /\ head.method = "POST"
       => ended /\ buffered = 0 /\ body <= MaxRequestBytes
  /\ stage = "serving" => Entered /\ head.method = "POST" /\ delivered /\ got.bodies = 1
  /\ head = NoHead => stage = "idle"

\* What the SDK was given stays true of the request, whatever follows.
Given ==
  /\ got.bodies = 0 => got = NothingGot
  /\ got.bodies > 0
       => /\ Entered /\ head.method = "POST" /\ HostAllowed(Normalized(head.host))
          /\ ended /\ buffered = 0 /\ got.bytes = body /\ body <= MaxRequestBytes
          /\ stage \in {"serving", "answered"}
  /\ status = 421 => ~HostAllowed(Normalized(head.host))

Unread ==
  head # NoHead /\ head.path = "/mcp" /\ ~head.token
    => status = 401 /\ sent = 0 /\ got = NothingGot

GateInv == GateTypeOK /\ Bytes /\ Stages /\ Given /\ Unread

=============================================================================
