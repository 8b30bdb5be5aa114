-------------------------- MODULE MergeRequestCalls --------------------------
(***************************************************************************)
(* gitlab_merge_requests update (its draft marker) and merge, of           *)
(* toolsets/merge_requests/merge_requests.py, on one merge request that    *)
(* other users retitle, push to, close and merge meanwhile.                *)
(***************************************************************************)
EXTENDS ToolCall

-----------------------------------------------------------------------------
(* update with `draft`: GitLab keeps the marker in the title.  The thing is *)
(* the title: how many markers it starts with, and the version of the rest. *)

Title(markers, text, by) == [markers |-> markers, text |-> text, by |-> by]

TitleCalls == [tool : {"update_merge_request"}, draft : BOOLEAN, passes : BOOLEAN]
TitlesAtStart == {Title(n, 1, "other") : n \in 0..2}

\* The caller's own title, which is newer than everybody's.
PassedTitle == Title(0, Changes + 2, "call")

\* A wrong version: the marker is added but never taken away.
WithDraftMarkerKept(t, draft) ==
  Title(IF draft THEN 1 ELSE t.markers, t.text, "call")

\* _with_draft_marker: one marker is taken off, and one put on for a draft.
WithDraftMarker(t, draft) ==
  Title((IF t.markers > 0 THEN t.markers - 1 ELSE 0) + (IF draft THEN 1 ELSE 0),
        t.text, "call")

PutTitle(t) == [name |-> "put_title", method |-> "PUT", title |-> t]

FirstTitleRequest(c) ==
  IF c.passes THEN PutTitle(WithDraftMarker(PassedTitle, c.draft)) ELSE Get

TitleServed(r, t) ==
  IF r = Get
  THEN {[thing |-> t, answer |-> [status |-> "ok", title |-> t]]}
  ELSE {[thing |-> r.title, answer |-> Answer("ok")]}

\* update_merge_request.
TitleContinue(a) ==
  /\ UNCHANGED kept
  /\ IF a.status # "ok" THEN Raise(a)
     ELSE IF request = Get THEN Ask(PutTitle(WithDraftMarker(a.title, call.draft)))
     ELSE Done

StartTitle ==
  \E c \in TitleCalls : \E t \in TitlesAtStart : Start(c, t, FirstTitleRequest(c))

TitleStep ==
  \/ /\ call.tool = "update_merge_request" /\ Running
     /\ \E o \in Outcomes(TitleServed(request, thing)) :
          /\ Deliver(o)
          /\ IF o.answer = NoAnswer THEN AskAgain ELSE TitleContinue(o.answer)
  \/ /\ call.tool = "update_merge_request"
     /\ \E r \in stray : CarriedOutLate(r, TitleServed(r, thing))
  \/ /\ call.tool = "update_merge_request"
     /\ \E n \in 0..1 : SomebodyChanges(Title(n, changes + 2, "other"))

\* An update that succeeds has made the merge request a draft, or ready, as
\* asked (unless the title carried two markers: one is taken off, and the
\* other keeps it a draft), under a title no older than the one it had when
\* the call began and, when the caller passed one, under that.
TitleAsAsked ==
  call.tool = "update_merge_request"
    => /\ \A t \in past : t.text >= before.text
       /\ result.status = "done" /\ (\A t \in past : t.by = "call" \/ t.markers <= 1)
            => \E t \in past : /\ t.by = "call"
                               /\ (t.markers > 0) = call.draft
                               /\ call.passes => t.text = PassedTitle.text

-----------------------------------------------------------------------------
(* merge.                                                                   *)

\* detailed_merge_status of an open merge request: one that can merge, two
\* that waiting alone resolves, and one that somebody has to act on.
MergeStatuses == {"mergeable", "ci_still_running", "checking", "draft_status"}

\* A wrong version: a closed or merged merge request is waited for.
WaitingHelpsWhenMerged ==
  {"ci_still_running", "merge_time", "checking", "unchecked", "preparing",
   "approvals_syncing", "not_open"}

\* _NEXT_STEPS: the statuses that waiting alone can fix.
WaitingHelps ==
  {"ci_still_running", "merge_time", "checking", "unchecked", "preparing",
   "approvals_syncing"}

\* The caller names the head commit it has reviewed (0: none), which may not
\* be the head any more, and may ask for auto-merge.
MergeCalls == [tool : {"merge"}, sha : 0..2, auto : BOOLEAN]

\* The thing: whether it is open, its head commit, what keeps it from
\* merging, the commit merged (0: none), who merged it, whether auto-merge is
\* set, and whether the instance insists on a sha.
Unmerged(status, insists) ==
  [open |-> TRUE, head |-> 2, status |-> status, merged |-> 0, by |-> "nobody",
   auto |-> FALSE, insists |-> insists]
MergeRequestsAtStart ==
  {Unmerged(s, insists) : s \in MergeStatuses, insists \in BOOLEAN}

Merged(t, by) == [t EXCEPT !.open = FALSE, !.merged = t.head, !.by = by]

DetailedStatus(t) == IF t.open THEN t.status ELSE "not_open"

\* A wrong version: the sha the caller reviewed is not sent.
MergeRequestWithoutSha(c) ==
  [name |-> "put_merge", method |-> "PUT", sha |-> 0, auto |-> c.auto]

\* merge: sha and auto_merge go with the PUT.
MergeRequest(c) ==
  [name |-> "put_merge", method |-> "PUT", sha |-> c.sha, auto |-> c.auto]

\* GitLab answers with one of the statuses that apply.
MergeServed(r, t) ==
  IF r = Get
  THEN {[thing |-> t, answer |-> [status |-> "ok", mr |-> t]]}
  ELSE LET stale  == r.sha \notin {0, t.head}
           bare   == t.insists /\ r.sha = 0
           now    == t.open /\ t.status = "mergeable"
           later  == t.open /\ t.status = "ci_still_running" /\ r.auto
           Served(u, a) == [thing |-> u, answer |-> Answer(a)]
       IN  {s \in {Served(t, "conflict"), Served(t, "sha_required"),
                   Served(t, "not_mergeable"), Served(Merged(t, "call"), "ok"),
                   Served([t EXCEPT !.auto = TRUE], "auto_merge_set")} :
              \/ s.answer.status = "conflict" /\ stale
              \/ s.answer.status = "sha_required" /\ bare
              \/ s.answer.status = "not_mergeable" /\ ~now /\ ~later
              \/ s.answer.status = "ok" /\ now /\ ~stale /\ ~bare
              \/ s.answer.status = "auto_merge_set" /\ later /\ ~stale /\ ~bare}

Blocked(reason) == [status |-> "merge_blocked", reason |-> reason]
Pending(reason) == [status |-> "merge_pending", reason |-> reason]

\* _merge_refusal.  409 and a 400 about the sha speak for themselves; 405,
\* 406 and 422 ("not_mergeable") are looked into; for anything else, and when
\* the look fails with a GitLabError, the first error stands.
MergeContinue(a) ==
  IF request = Get
  THEN /\ UNCHANGED kept
       /\ IF a.status = "ok"
          THEN LET reason == DetailedStatus(a.mr)
               IN  Return(IF reason \in WaitingHelps THEN Pending(reason)
                                                     ELSE Blocked(reason))
          ELSE IF a.status = "too_large" THEN Raise(a)
          ELSE Raise(Answer("not_mergeable"))
  ELSE IF a.status = "not_mergeable"
  THEN /\ kept' = [kept |-> "refusal", byCall |-> \E t \in past : t.by = "call"]
       /\ Ask(Get)
  ELSE /\ UNCHANGED kept
       /\ IF a.status \in {"ok", "auto_merge_set"} THEN Done
          ELSE IF a.status = "conflict" THEN Return(Blocked("newer_commits"))
          ELSE IF a.status = "sha_required" THEN Return(Blocked("sha_required"))
          ELSE Raise(a)

StartMerge ==
  \E c \in MergeCalls : \E t \in MergeRequestsAtStart : Start(c, t, MergeRequest(c))

\* Others push, close or merge it, and GitLab's own checks come to an end.
MergeRequestChanges ==
  {t \in {[thing EXCEPT !.head = thing.head + 1, !.status = "checking"],
          [thing EXCEPT !.open = FALSE],
          Merged(thing, "other")} : thing.open}
  \cup {[thing EXCEPT !.status = s] : s \in MergeStatuses}

MergeStep ==
  \/ /\ call.tool = "merge" /\ Running
     /\ \E o \in Outcomes(MergeServed(request, thing)) :
          /\ Deliver(o)
          /\ IF o.answer = NoAnswer THEN AskAgain ELSE MergeContinue(o.answer)
  \/ /\ call.tool = "merge"
     /\ \E r \in stray : CarriedOutLate(r, MergeServed(r, thing))
  \/ /\ call.tool = "merge"
     /\ \E t \in MergeRequestChanges \ {thing} : SomebodyChanges(t)

\* With a sha, nothing but the commit the caller reviewed is merged, whoever
\* pushes between the attempts of the PUT and however late one is carried out.
MergesWhatWasReviewed ==
  call.tool = "merge"
    => \A t \in past : t.by = "call" /\ call.sha # 0 => t.merged = call.sha

\* When the PUT took effect, its answer was lost and the repetition was
\* refused, the caller is not told to wait and merge again.
MergedIsNotPending ==
  call.tool = "merge" /\ result.status = "merge_pending" => ~kept.byCall

\* MergeBlockedError: "a reason the caller has to act on".
BlockedNeedsAction ==
  call.tool = "merge" /\ result.status = "merge_blocked"
    => result.reason # "mergeable"

=============================================================================
