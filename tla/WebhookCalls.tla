---------------------------- MODULE WebhookCalls ----------------------------
(***************************************************************************)
(* gitlab_webhooks update (toolsets/collaboration/webhooks.py).  GitLab    *)
(* drops a hook's secret token and custom headers when the URL it sends to *)
(* changes, even within the request that sets the headers, so update_hook  *)
(* sends the headers in a second PUT.                                      *)
(***************************************************************************)
EXTENDS ToolCall

\* What the caller sends: a url (the current one again, or another), other
\* url_variables, custom_headers and a token.
HookCalls ==
  {c \in [tool : {"update_hook"}, url : {"none", "old", "new"}, variables : BOOLEAN,
          headers : BOOLEAN, token : BOOLEAN] :
     c.url # "none" \/ c.variables \/ c.headers \/ c.token}

\* The hook: where it sends to (its URL, and whether the variables in it are
\* the new ones), its headers and its token.  Of the headers, "old" is what the
\* one that custom_headers name held before the call, "new" what they give it,
\* and "other" is one that they do not name.
HooksAtStart ==
  [url : {"old"}, variables : {FALSE}, headers : SUBSET {"old", "other"},
   token : {"none", "old"}]

PutHook(url, variables, headers, token) ==
  [name |-> "put_hook", method |-> "PUT", url |-> url, variables |-> variables,
   headers |-> headers, token |-> token]

\* "update adds or replaces the ones named".
WithNamedHeader(headers) == (headers \ {"old"}) \cup {"new"}

\* GitLab keeps what the body leaves out, except that a new destination costs
\* the hook all its headers, those of the same body too, and, unless a token is
\* sent, its token.
HookServed(r, t) ==
  LET url == IF r.url = "none" THEN t.url ELSE r.url
      variables == t.variables \/ r.variables
      moved == url # t.url \/ variables # t.variables
      hook == [url |-> url, variables |-> variables,
               headers |-> IF moved THEN {}
                           ELSE IF r.headers THEN WithNamedHeader(t.headers) ELSE t.headers,
               token |-> IF r.token THEN "new" ELSE IF moved THEN "none" ELSE t.token]
  IN  {[thing |-> hook, answer |-> [status |-> "ok", hook |-> hook]]}

\* update_hook: the headers wait for the second PUT.
InTwo(c) == c.headers /\ (c.url # "none" \/ c.variables)

\* A wrong version: the headers go first, and the URL after them.
FirstHookRequestHeaders(c) ==
  IF InTwo(c) THEN PutHook("none", FALSE, TRUE, FALSE)
  ELSE PutHook(c.url, c.variables, c.headers, c.token)

FirstHookRequest(c) ==
  PutHook(c.url, c.variables, c.headers /\ ~InTwo(c), c.token)

SecondHookRequest == PutHook("none", FALSE, TRUE, FALSE)

\* _written: what the caller has to send again.
HookNotes(c, hook) ==
  {n \in {"token", "headers"} :
     /\ c.url # "none"
     /\ n = "token" => ~c.token /\ hook.token = "none"
     /\ n = "headers" => ~c.headers /\ hook.headers = {}}

HookContinue(a) ==
  IF a.status # "ok" THEN UNCHANGED kept /\ Raise(a)
  ELSE IF InTwo(call) /\ kept = Nothing
  THEN kept' = [kept |-> "first_put"] /\ Ask(SecondHookRequest)
  ELSE UNCHANGED kept /\ Return([status |-> "done", notes |-> HookNotes(call, a.hook)])

StartHook ==
  \E c \in HookCalls : \E t \in HooksAtStart : Start(c, t, FirstHookRequest(c))

HookStep ==
  \/ /\ call.tool = "update_hook" /\ Running
     /\ \E o \in Outcomes(HookServed(request, thing)) :
          /\ Deliver(o)
          /\ IF o.answer = NoAnswer THEN AskAgain ELSE HookContinue(o.answer)
  \/ /\ call.tool = "update_hook"
     /\ \E r \in stray : CarriedOutLate(r, HookServed(r, thing))

\* An update that succeeds leaves the hook with the URL and the custom headers
\* it was given: neither GitLab's clearing of them, nor a repeated or late PUT
\* of the first request, takes them away again.
HookAsAsked ==
  call.tool = "update_hook" /\ result.status = "done"
    => /\ call.headers => "new" \in thing.headers
       /\ call.url # "none" => thing.url = call.url

\* Custom headers can be a credential for one receiver.  At no moment, also
\* not between the two requests and when one of them fails, does the hook send
\* headers meant for the new destination to the old one, or former ones to the
\* new.
HeadersFollowUrl ==
  call.tool = "update_hook"
    => \A t \in past :
         LET moved == call.url = "new" \/ call.variables
             there == (call.url = "new" => t.url = "new")
                        /\ (call.variables => t.variables)
         IN  moved => \A h \in t.headers : h = "new" <=> there

\* What the notes of _written do cover, also when the attempt that did the
\* damage had its answer lost: an update with a url names the token if that is
\* gone, and one with a url and no custom_headers names the headers if any of
\* them is gone.  LIMITATIONS.md:85-87 ("the tool warns when it may have
\* happened") says more than that: an update that sends some headers says
\* nothing of the others, which it costs the hook, nor does one of url_variables
\* alone say anything.
DropIsTold ==
  call.tool = "update_hook" /\ result.status = "done" /\ call.url # "none"
    => /\ before.token = "old" /\ thing.token = "none" => "token" \in result.notes
       /\ ~call.headers /\ ~(before.headers \subseteq thing.headers)
            => "headers" \in result.notes

\* After an update that succeeds the hook has the URL and the headers given with
\* it, and its notes name the losses that _written looks for (DropIsTold).
HookToldTruly == HookAsAsked /\ DropIsTold

\* However often the two PUTs of a hook are lost, repeated or late: its headers
\* go where they belong, and of a success that sent a url the caller learns that
\* the token is gone, or, having sent no headers, that headers are.
HookIsSound == HeadersFollowUrl /\ HookToldTruly

=============================================================================
