-------------------------- MODULE MCRetryingAgent --------------------------
(* One agent, one POST and its repetition, and a download that is           *)
(* redirected beside them.                                                  *)
EXTENDS RetryingAgent

MCMethod == [c \in Calls |-> IF c \in {First, Second} THEN "POST" ELSE "GET"]

Absent == [kind |-> "absent", wait |-> 0]
MCHeaders == {<<[kind |-> "seconds", wait |-> n], Absent>> : n \in {1, 3}}
=============================================================================
