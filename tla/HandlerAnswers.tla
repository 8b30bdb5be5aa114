--------------------------- MODULE HandlerAnswers ---------------------------
(***************************************************************************)
(* How a call of GitLabClient.request can end for the handler that made    *)
(* it: a verdict of DeliveryContract, and whether GitLab has carried the   *)
(* call out.  ToolPolicy gives its handlers these answers, and             *)
(* GitLabClientProofs shows that the retry loop gives no others.           *)
(***************************************************************************)
EXTENDS Integers

\* A request the token's scopes do not cover is never carried out.  The client
\* repeats a PUT or DELETE whose answer was lost: what it then reports refused
\* may have been done before.  A POST that is refused was not.
Answers(method, covered) ==
  IF ~covered THEN {<<"refused", 0>>, <<"unknown", 0>>}
  ELSE IF method = "GET" THEN {<<"done", 0>>, <<"refused", 0>>, <<"unknown", 0>>}
  ELSE {<<"done", 1>>, <<"refused", 0>>, <<"unknown", 0>>, <<"unknown", 1>>}
       \cup (IF method = "POST" THEN {} ELSE {<<"refused", 1>>})

=============================================================================
