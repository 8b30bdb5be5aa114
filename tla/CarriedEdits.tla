---------------------------- MODULE CarriedEdits ----------------------------
(***************************************************************************)
(* The updates for which GitLab wants a field back that the caller left    *)
(* out, so the handler reads it first and sends it along:                  *)
(*   update_variable    the value (toolsets/pipelines/variables.py);       *)
(*   update_wiki_page   the format (toolsets/collaboration/wikis.py);      *)
(*   update_draft_note  the diff position (toolsets/merge_requests/        *)
(*                      reviews.py).                                       *)
(* The thing is that one field: its version, and whether GitLab shows it.  *)
(***************************************************************************)
EXTENDS ToolCall

CarryingTools == {"update_variable", "update_wiki_page", "update_draft_note"}

\* A field that was reset because an update did not name it.  (A draft that
\* is not on a diff line has no position to begin with.)
Blank == 0

\* The version other users give the field is counted up from 1, so a value
\* the caller passes is newer than all of them.
Passed == Changes + 2

\* The caller passes the field itself, or leaves it out.  A draft's position
\* cannot be passed.
CarryingCalls ==
  {c \in [tool : CarryingTools, passes : BOOLEAN] :
     c.passes => c.tool # "update_draft_note"}

CarriedFields(c) ==
  {t \in [version : {Blank, 1}, shown : BOOLEAN] :
     /\ t.version = Blank => c.tool = "update_draft_note"
     /\ ~t.shown => c.tool = "update_variable"}

\* The PUT's body names the field, or does not.
NotNamed == [named |-> FALSE, version |-> Blank]
Named(v) == [named |-> TRUE, version |-> v]
PutField(body) == [name |-> "put_field", method |-> "PUT", body |-> body]

\* A wrong version: only the value of a variable is carried over.
CarriedBodyForgets(c, v) ==
  IF c.tool # "update_variable" THEN NotNamed ELSE Named(v)

\* A draft without a position is sent back without one.
CarriedBody(c, v) ==
  IF v = Blank THEN NotNamed ELSE Named(v)

FirstCarryingRequest(c) ==
  IF c.passes THEN PutField(Named(Passed)) ELSE Get

\* GitLab: a field the update does not name is reset.
CarryingServed(r, t) ==
  IF r = Get
  THEN {[thing |-> t, answer |-> [status |-> "ok", field |-> t]]}
  ELSE {[thing |-> [t EXCEPT !.version = r.body.version],
         answer |-> Answer("ok")]}

\* update_variable: InvalidArgumentsError for a value GitLab hides.
CarryingContinue(a) ==
  /\ UNCHANGED kept
  /\ IF a.status # "ok" THEN Raise(a)
     ELSE IF request.name # "get" THEN Done
     ELSE IF ~a.field.shown THEN Raise(Answer("invalid_arguments"))
     ELSE Ask(PutField(CarriedBody(call, a.field.version)))

StartCarrying ==
  \E c \in CarryingCalls : \E t \in CarriedFields(c) :
    Start(c, t, FirstCarryingRequest(c))

CarryingStep ==
  \/ /\ call.tool \in CarryingTools /\ Running
     /\ \E o \in Outcomes(CarryingServed(request, thing)) :
          /\ Deliver(o)
          /\ IF o.answer = NoAnswer THEN AskAgain ELSE CarryingContinue(o.answer)
  \/ /\ call.tool \in CarryingTools
     /\ \E r \in stray : CarriedOutLate(r, CarryingServed(r, thing))
  \/ /\ call.tool \in CarryingTools
     /\ thing.version # Blank
     /\ SomebodyChanges([thing EXCEPT !.version = changes + 2])

\* Leaving a field out never resets it, and never brings back a value that
\* was replaced before the call began: what an update without `value`,
\* `format` or position writes is no older than what the call found, however
\* often the PUT is repeated and however late an attempt arrives.
NothingOlderReturns ==
  call.tool \in CarryingTools
    => \A t \in past : t.version >= before.version

=============================================================================
