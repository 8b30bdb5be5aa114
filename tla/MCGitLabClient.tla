--------------------------- MODULE MCGitLabClient ---------------------------
(* A small instance of GitLabClient: two writes that compete for one         *)
(* connection.                                                               *)
EXTENDS GitLabClient

WriterCalls == {"post", "put"}
MCMethod == [c \in Calls |-> IF c = "post" THEN "POST" ELSE "PUT"]

Absent == [kind |-> "absent", wait |-> 0]
Wait(kind, n) == [kind |-> kind, wait |-> n]

\* A wait within the limit, one beyond it, a date in the past, and an
\* unusable Retry-After beside a usable RateLimit-Reset.
MCHeaders == {<<Absent, Absent>>,
              <<Wait("seconds", 1), Absent>>,
              <<Wait("seconds", 3), Absent>>,
              <<Wait("date", -1), Wait("seconds", 3)>>,
              <<Wait("unusable", 0), Wait("seconds", 1)>>}
=============================================================================
