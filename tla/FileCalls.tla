------------------------------ MODULE FileCalls ------------------------------
(***************************************************************************)
(* gitlab_files update and delete (toolsets/repository/files.py): the      *)
(* caller names the last commit of the file it has seen, and GitLab        *)
(* refuses the change when the file has another one by now.  The thing is  *)
(* that last commit: its number, the commit it replaced and its author.    *)
(***************************************************************************)
EXTENDS ToolCall

FileTools == {"update_file", "delete_file"}

Commit(n, parent, by, exists) ==
  [commit |-> n, parent |-> parent, by |-> by, exists |-> exists]

\* The file may have changed between the caller's `get` and this call.
FileCallsOffered == [tool : FileTools, seen : {1, 2}]
FileAtStart == Commit(2, 1, "other", TRUE)

\* A wrong version: the guard is not sent.
FileRequestUnguarded(c) ==
  [name |-> c.tool, method |-> IF c.tool = "update_file" THEN "PUT" ELSE "DELETE",
   last |-> 0]

\* update_file, delete_file: last_commit_id goes with the change.
FileRequest(c) ==
  [name |-> c.tool, method |-> IF c.tool = "update_file" THEN "PUT" ELSE "DELETE",
   last |-> c.seen]

\* GitLab commits the change on top of the commit it was made for, if a
\* commit was named (0: none was), and answers 400 otherwise.
FileServed(r, t) ==
  IF t.exists /\ r.last \in {0, t.commit}
  THEN {[thing |-> Commit(t.commit + 1, t.commit, "call", r.name = "update_file"),
         answer |-> Answer("ok")]}
  ELSE {[thing |-> t, answer |-> Answer("bad_request")]}

FileContinue(a) ==
  /\ UNCHANGED kept
  /\ IF a.status = "ok" THEN Done ELSE Raise(a)

StartFile ==
  \E c \in FileCallsOffered : Start(c, FileAtStart, FileRequest(c))

FileStep ==
  \/ /\ call.tool \in FileTools /\ Running
     /\ \E o \in Outcomes(FileServed(request, thing)) :
          /\ Deliver(o)
          /\ IF o.answer = NoAnswer THEN AskAgain ELSE FileContinue(o.answer)
  \/ /\ call.tool \in FileTools
     /\ \E r \in stray : CarriedOutLate(r, FileServed(r, thing))
  \/ /\ call.tool \in FileTools
     /\ SomebodyChanges(Commit(thing.commit + 1, thing.commit, "other", TRUE))

ByCall == {t \in past : t.by = "call"}

\* A file is changed only on top of the commit the caller has seen, so no
\* commit of anybody else is overwritten unread, and the change is made once
\* although GitLabClient repeats PUT and DELETE and a lost attempt may come
\* late: the repetition meets the call's own commit and is refused.
SeenCommitsOnly ==
  call.tool \in FileTools
    => /\ \A t \in ByCall : t.parent = call.seen
       /\ Cardinality(ByCall) <= 1

=============================================================================
