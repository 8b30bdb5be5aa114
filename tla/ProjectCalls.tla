---------------------------- MODULE ProjectCalls ----------------------------
(***************************************************************************)
(* gitlab_projects delete (toolsets/projects/projects.py): GitLab deletes  *)
(* in the background, at once or after a retention period, so the handler  *)
(* reads the project back to tell which.  The thing is the project.        *)
(***************************************************************************)
EXTENDS ToolCall

\* Whether the instance keeps deleted projects for a while, and how far this
\* one's deletion has come: "there", "marked" (it is deleted when the retention
\* period ends), "deleting" (in the background) or "gone"; and who began it.
ProjectsAtStart ==
  [retained : BOOLEAN, state : {"there", "marked", "deleting"}, by : {"other"}]

DeleteProject == [name |-> "delete_project", method |-> "DELETE"]

\* While GitLab deletes a project it may still return it.
ProjectServed(r, t) ==
  LET Served(u, a) == [thing |-> u, answer |-> Answer(a)]
      begun == [t EXCEPT !.by = "call", !.state = IF t.retained THEN "marked" ELSE "deleting"]
  IN  {s \in {Served(begun, "ok"), Served(t, "bad_request"), Served(t, "not_found"),
              [thing |-> t, answer |-> [status |-> "ok", project |-> t]]} :
         \/ s.answer.status = "not_found" /\ t.state \in {"deleting", "gone"}
         \/ s = Served(begun, "ok") /\ r = DeleteProject /\ t.state = "there"
         \/ s.answer.status = "bad_request" /\ r = DeleteProject /\ t.state = "marked"
         \/ "project" \in DOMAIN s.answer /\ r = Get /\ t.state # "gone"}

\* A wrong version: every GitLabError of the read-back is taken for a 404.
DeletionStatusAnyError(a) ==
  IF a.status \in {"not_found", "refused", "failed"} THEN "deleted"
  ELSE IF a.project.state = "marked" THEN "marked_for_deletion"
  ELSE "deletion_requested"

\* The status delete_project reports after its read-back.
DeletionStatus(a) ==
  IF a.status = "not_found" THEN "deleted"
  ELSE IF a.status = "ok" /\ a.project.state = "marked" THEN "marked_for_deletion"
  ELSE "deletion_requested"

ProjectContinue(a) ==
  /\ UNCHANGED kept
  /\ IF request = DeleteProject
     THEN IF a.status = "ok" THEN Ask(Get) ELSE Raise(a)
     ELSE IF a.status = "too_large" THEN Raise(a)
     ELSE Return([status |-> DeletionStatus(a)])

StartProject ==
  \E t \in ProjectsAtStart : Start([tool |-> "delete_project"], t, DeleteProject)

\* Others delete it or, while it is kept, restore it; a retention period ends,
\* and GitLab gets on with a deletion.
ProjectChanges ==
  {[thing EXCEPT !.state = s, !.by = "other"] :
     s \in CASE thing.state = "there" -> {IF thing.retained THEN "marked" ELSE "deleting"}
             [] thing.state = "marked" -> {"there", "deleting"}
             [] OTHER -> {"gone"}}

ProjectStep ==
  \/ /\ call.tool = "delete_project" /\ Running
     /\ \E o \in Outcomes(ProjectServed(request, thing)) :
          /\ Deliver(o)
          /\ IF o.answer = NoAnswer THEN AskAgain ELSE ProjectContinue(o.answer)
  \/ /\ call.tool = "delete_project"
     /\ \E r \in stray : CarriedOutLate(r, ProjectServed(r, thing))
  \/ /\ call.tool = "delete_project"
     /\ \E t \in ProjectChanges \ {thing} : SomebodyChanges(t)

\* What the call reports is so, whatever GitLab and the others do between the
\* DELETE and the read-back: "deleted", and a 404 of the DELETE (which may
\* answer the repetition of one that worked), only when nothing can bring the
\* project back; "marked_for_deletion" only when it was kept for a while; and
\* no status at all for a project this call did not delete.
DeletionToldTruly ==
  call.tool = "delete_project"
    => /\ result.status = "deleted" => thing.state \in {"deleting", "gone"}
       /\ result = [status |-> "error", code |-> "not_found"]
            => thing.state \in {"deleting", "gone"}
       /\ result.status = "marked_for_deletion" => \E t \in past : t.state = "marked"
       /\ result.status \in {"deleted", "marked_for_deletion", "deletion_requested"}
            => \E t \in past : t.by = "call"

=============================================================================
