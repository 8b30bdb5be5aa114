------------------------------ MODULE ToolCall ------------------------------
(***************************************************************************)
(* One tool call whose handler makes several GitLab requests, one after    *)
(* the other, while other users of the same GitLab change what it works    *)
(* on.  GitLabClient is reduced here to what a handler can observe of it:  *)
(* an attempt is carried out or not, its answer comes back or is lost, a   *)
(* lost answer to anything but a POST is asked for again a bounded number  *)
(* of times, and an attempt that was given up on may be carried out later. *)
(*                                                                         *)
(* A handler is a module that extends this one and says what GitLab makes  *)
(* of each of its requests (a set of [thing, answer] records, "...Served") *)
(* and how it continues with each answer ("...Continue").                  *)
(***************************************************************************)
EXTENDS Naturals, FiniteSets

CONSTANTS
  Retries,   \* how often GitLabClient repeats a request whose answer is lost
  Changes    \* bound: changes other users make while the call runs

ASSUME ToolCallAssumption == Retries \in Nat /\ Changes \in Nat

VARIABLES
  call,      \* the tool call: its tool, and the arguments that matter
  request,   \* the GitLab request the handler awaits
  tries,     \* repetitions the client has left for that request
  kept,      \* what the handler keeps of earlier answers
  thing,     \* the GitLab object the call is about
  stray,     \* given-up attempts that GitLab may still carry out
  result,    \* what the tool call returned
  changes,   \* changes made by other users so far
  before,    \* the thing when the call began (history)
  past,      \* every state of the thing since then (history)
  heard      \* what the last answer said of its request (history)

callVars == <<call, request, tries, kept, thing, stray, result, changes,
              before, past, heard>>

NoCall == [tool |-> "none"]
NoRequest == [name |-> "none"]
NoResult == [status |-> "none"]
Nothing == [kept |-> "nothing"]

Get == [name |-> "get", method |-> "GET"]

\* Answers that carry no data.  "refused": a GitLabError for a request that
\* GitLab turned down; "failed": a GitLabError that leaves open whether it was
\* carried out; "too_large": a PayloadTooLargeError, which is no GitLabError.
Answer(status) == [status |-> status]

\* What an answer says of its request.
Verdict(answer) ==
  IF answer.status \in {"ok", "auto_merge_set"} THEN "done"
  ELSE IF answer.status \in {"failed", "too_large"} THEN "unknown"
  ELSE "refused"

CallInit ==
  /\ call = NoCall
  /\ request = NoRequest
  /\ tries = 0
  /\ kept = Nothing
  /\ thing = Nothing
  /\ stray = {}
  /\ result = NoResult
  /\ changes = 0
  /\ before = Nothing
  /\ past = {}
  /\ heard = "none"

Running == request # NoRequest

-----------------------------------------------------------------------------
(* What a handler does.                                                     *)

\* `await ctx.gitlab.get/put/post/delete(...)`.
Ask(r) ==
  /\ request' = r
  /\ tries' = IF r.method = "POST" THEN 0 ELSE Retries
  /\ UNCHANGED result

\* The handler returns, or raises.
Return(r) ==
  /\ request' = NoRequest
  /\ tries' = 0
  /\ result' = r

Done == Return([status |-> "done"])
Raise(answer) == Return([status |-> "error", code |-> answer.status])

\* The dispatcher calls the handler, and its first request goes out.
Start(c, t, first) ==
  /\ call = NoCall
  /\ call' = c
  /\ thing' = t
  /\ before' = t
  /\ past' = {t}
  /\ Ask(first)
  /\ UNCHANGED <<kept, stray, changes, heard>>

-----------------------------------------------------------------------------
(* What becomes of a request.                                               *)

Remember == past' = past \cup {thing'} /\ UNCHANGED <<call, changes, before>>

\* What becomes of the attempt under way: of the thing, of attempts that may
\* come late, and the answer the handler gets, if it is to get one yet.
Outcome(t, late, answer) == [thing |-> t, stray |-> late, answer |-> answer]
NoAnswer == Answer("none")

\* GitLab deals with the request and the handler gets its answer ...
Answered(served) == {Outcome(s.thing, stray, s.answer) : s \in served}

\* ... or turns it down (401, 403, 429, ...) ...
TurnedDown == {Outcome(thing, stray, Answer("refused"))}

\* ... or answers with a body the client cannot use: one that is no JSON, or one
\* too large, whatever its status.
Spoilt(served) ==
  {Outcome(s.thing, stray, Answer(status)) : s \in served, status \in {"failed", "too_large"}}
    \cup {Outcome(thing, stray, Answer("too_large"))}

\* The client repeats a lost attempt only while it has tries left.
TriesLeft == tries > 0

\* It may also give up earlier: its tries are two budgets, and GitLab may ask
\* for too long a wait.
AfterLoss == {Answer("failed")} \cup {a \in {NoAnswer} : TriesLeft}

\* No answer, or a 5xx: GitLab has carried the attempt out, never will, or may
\* do so later.
Lost(served) ==
  UNION {{Outcome(s.thing, stray, answer) : s \in served}
         \cup {Outcome(thing, stray, answer)}
         \cup {Outcome(thing, stray \cup {r}, answer) : r \in {request} \ {Get}}
           : answer \in AfterLoss}

Outcomes(served) == Answered(served) \cup TurnedDown \cup Spoilt(served) \cup Lost(served)

\* The outcome o comes about; without an answer the request is sent again.
Deliver(o) ==
  /\ thing' = o.thing
  /\ stray' = o.stray
  /\ heard' = IF o.answer = NoAnswer THEN heard ELSE Verdict(o.answer)
  /\ Remember

AskAgain ==
  /\ tries' = tries - 1
  /\ UNCHANGED <<request, kept, result>>

\* An attempt nobody waits for any more is carried out after all.  Only a POST
\* is sent once; of any other request there may be more such attempts.
CarriedOutLate(r, served) ==
  /\ r \in stray
  /\ stray' \in {stray \ {r}} \cup {s \in {stray} : r.method # "POST"}
  /\ thing' \in {s.thing : s \in served}
  /\ Remember
  /\ UNCHANGED <<request, tries, kept, result, heard>>

\* The MCP request is cancelled while its handler awaits GitLab.
Cancelled ==
  /\ Running
  /\ Return([status |-> "cancelled"])
  /\ stray' = stray \cup ({request} \ {Get})
  /\ UNCHANGED <<call, kept, thing, changes, before, past, heard>>

\* Another user changes the thing.
SomebodyChanges(t) ==
  /\ Running \/ stray # {}
  /\ changes < Changes
  /\ thing' = t
  /\ changes' = changes + 1
  /\ past' = past \cup {t}
  /\ UNCHANGED <<call, request, tries, kept, stray, result, before, heard>>

=============================================================================
