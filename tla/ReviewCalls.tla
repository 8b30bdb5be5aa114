----------------------------- MODULE ReviewCalls -----------------------------
(***************************************************************************)
(* gitlab_mr_reviews (toolsets/merge_requests/reviews.py): publish_review, *)
(* which publishes the caller's drafts and then posts a summary, and       *)
(* create_discussion and create_draft_note on a diff line, which anchor    *)
(* the comment to the merge request's current diff version.                *)
(***************************************************************************)
EXTENDS ToolCall

-----------------------------------------------------------------------------
(* publish_review.  The thing: drafts published or not, summaries posted.   *)

ReviewCallsOffered == [tool : {"publish_review"}, summary : BOOLEAN]
ReviewAtStart == [published |-> FALSE, summaries |-> 0]

PostBulkPublish == [name |-> "post_bulk_publish", method |-> "POST"]
PostSummary == [name |-> "post_summary", method |-> "POST"]

ReviewServed(r, t) ==
  IF r = PostBulkPublish
  THEN {[thing |-> [t EXCEPT !.published = TRUE], answer |-> Answer("ok")]}
  ELSE {[thing |-> [t EXCEPT !.summaries = @ + 1], answer |-> Answer("ok")]}

FirstReviewRequest(c) == PostBulkPublish

\* with_hint: "The drafts were published, but not the summary".
Hinted(a) == [status |-> "error", code |-> a.status, hint |-> TRUE]

\* A wrong version: the hint is given whichever request failed.
ReviewErrorAlwaysHinted(a) == IF a.status # "too_large" THEN Return(Hinted(a)) ELSE Raise(a)

\* Only a GitLabError of the second request is given the hint.
ReviewError(a) ==
  IF request = PostSummary /\ a.status # "too_large" THEN Return(Hinted(a))
                                                      ELSE Raise(a)

\* A wrong version: the summary is posted whatever became of the drafts.
ReviewContinueAnyway(a) ==
  /\ UNCHANGED kept
  /\ IF request = PostBulkPublish /\ call.summary THEN Ask(PostSummary)
     ELSE IF a.status # "ok" THEN ReviewError(a)
     ELSE Done

ReviewContinue(a) ==
  /\ UNCHANGED kept
  /\ IF a.status # "ok" THEN ReviewError(a)
     ELSE IF request = PostBulkPublish /\ call.summary THEN Ask(PostSummary)
     ELSE Done

StartReview ==
  \E c \in ReviewCallsOffered : Start(c, ReviewAtStart, FirstReviewRequest(c))

ReviewStep ==
  \/ /\ call.tool = "publish_review" /\ Running
     /\ \E o \in Outcomes(ReviewServed(request, thing)) :
          /\ Deliver(o)
          /\ IF o.answer = NoAnswer THEN AskAgain ELSE ReviewContinue(o.answer)
  \/ /\ call.tool = "publish_review"
     /\ \E r \in stray : CarriedOutLate(r, ReviewServed(r, thing))

\* Readers never see the summary of a review whose drafts are not published,
\* and one call posts it once, however a POST is lost or comes late.
SummaryComesLast ==
  call.tool = "publish_review"
    => /\ \A t \in past : t.summaries > 0 => t.published
       /\ \A t \in past : t.summaries <= 1

\* The error tells the caller where to go on: with the hint the drafts are
\* published and only the summary can be missing, and a GitLabError without
\* it means that no summary was posted or ever will be.
ReviewErrorTellsWhere ==
  call.tool = "publish_review" /\ result.status = "error"
    => IF "hint" \in DOMAIN result THEN thing.published
       ELSE result.code # "too_large" => thing.summaries = 0 /\ PostSummary \notin stray

\* However the two requests of a review fail, nobody sees it in the wrong
\* order and the caller knows where to go on.
ReviewInOrder == SummaryComesLast /\ ReviewErrorTellsWhere

\* reviews.py: "The drafts were published, but not the summary".
SummaryHintIsTrue ==
  call.tool = "publish_review" /\ "hint" \in DOMAIN result => thing.summaries = 0

-----------------------------------------------------------------------------
(* create_discussion and create_draft_note on a diff line.  The thing: the  *)
(* diff_refs GitLab reports (0: not computed yet), the latest version       *)
(* pushed, and the positions of the comments posted.                        *)

AnchoringTools == {"create_discussion", "create_draft_note"}
DiffRefs(base, head, start) == [base |-> base, head |-> head, start |-> start]
DiffOf(v) == DiffRefs(v, v, v)
NotComputed(v) == {DiffRefs(0, 0, 0), DiffRefs(v, 0, v)}

AnchoringCalls == [tool : AnchoringTools]
DiffsAtStart ==
  {[refs |-> refs, pushed |-> 1, anchors |-> {}] : refs \in {DiffOf(1)} \cup NotComputed(1)}

PostComment(position) == [name |-> "post_comment", method |-> "POST", position |-> position]

\* A wrong version: one sha is enough.
DiffReadyInPart(refs) == refs.base # 0 \/ refs.head # 0 \/ refs.start # 0

\* _diff_position: all three shas, or DiffNotReadyError.
DiffReady(refs) == refs.base # 0 /\ refs.head # 0 /\ refs.start # 0

AnchoringServed(r, t) ==
  IF r = Get
  THEN {[thing |-> t, answer |-> [status |-> "ok", refs |-> t.refs]]}
  ELSE {[thing |-> [t EXCEPT !.anchors = @ \cup {r.position}],
         answer |-> Answer("ok")]}

AnchoringContinue(a) ==
  /\ UNCHANGED kept
  /\ IF a.status # "ok" THEN Raise(a)
     ELSE IF request # Get THEN Done
     ELSE IF DiffReady(a.refs) THEN Ask(PostComment(a.refs))
     ELSE Return([status |-> "diff_not_ready"])

StartAnchoring ==
  \E c \in AnchoringCalls : \E t \in DiffsAtStart : Start(c, t, Get)

\* Somebody pushes, or GitLab finishes computing the diff.
DiffChanges ==
  {[thing EXCEPT !.pushed = @ + 1, !.refs = refs] : refs \in NotComputed(thing.pushed + 1)}
  \cup {[thing EXCEPT !.refs = DiffOf(thing.pushed)]}

AnchoringStep ==
  \/ /\ call.tool \in AnchoringTools /\ Running
     /\ \E o \in Outcomes(AnchoringServed(request, thing)) :
          /\ Deliver(o)
          /\ IF o.answer = NoAnswer THEN AskAgain ELSE AnchoringContinue(o.answer)
  \/ /\ call.tool \in AnchoringTools
     /\ \E r \in stray : CarriedOutLate(r, AnchoringServed(r, thing))
  \/ /\ call.tool \in AnchoringTools
     /\ \E t \in DiffChanges \ {thing} : SomebodyChanges(t)

\* A comment is anchored to the three shas of one diff version that GitLab
\* had computed, although versions come and go while the handler works, and a
\* call that answers diff_not_ready leaves no comment behind, so it can be
\* repeated.
AnchorsAreWhole ==
  call.tool \in AnchoringTools
    => /\ \A p \in thing.anchors : \E t \in past : p = t.refs /\ p = DiffOf(p.head) /\ p.head # 0
       /\ result.status = "diff_not_ready" => thing.anchors = {} /\ stray = {}

=============================================================================
