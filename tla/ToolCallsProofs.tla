--------------------------- MODULE ToolCallsProofs ---------------------------
(***************************************************************************)
(* Proofs about the tool calls of ToolCalls, for any number of repetitions *)
(* by the client and of changes by other users.                            *)
(***************************************************************************)
EXTENDS ToolCalls, Integers, FiniteSetTheorems, WellFoundedInduction, TLAPS

USE ToolCallAssumption

-----------------------------------------------------------------------------
(* What becomes of a request, whatever GitLab makes of it.                  *)

LEMMA DeliverDoes ==
  ASSUME NEW served, NEW o \in Outcomes(served), Deliver(o)
  PROVE  /\ thing' = thing \/ \E s \in served : thing' = s.thing
         /\ stray' = stray \/ (request # Get /\ stray' = stray \cup {request})
         /\ past' = past \cup {thing'}
         /\ UNCHANGED <<call, changes, before>>
<1>1. /\ thing' = o.thing /\ stray' = o.stray /\ past' = past \cup {thing'}
      /\ UNCHANGED <<call, changes, before>>
  BY DEF Deliver, Remember
<1>2. CASE o \in Answered(served)
  BY <1>1, <1>2 DEF Answered, Outcome
<1>3. CASE o \in TurnedDown
  BY <1>1, <1>3 DEF TurnedDown, Outcome
<1>4. CASE o \in Spoilt(served)
  BY <1>1, <1>4 DEF Spoilt, Outcome
<1>5. CASE o \in Lost(served)
  BY <1>1, <1>5 DEF Lost, Outcome
<1>6. QED
  BY <1>2, <1>3, <1>4, <1>5 DEF Outcomes

LEMMA CancelledDoes ==
  ASSUME Cancelled
  PROVE  /\ request' = NoRequest
         /\ result' = [status |-> "cancelled"]
         /\ stray' = stray \/ (request # Get /\ stray' = stray \cup {request})
         /\ UNCHANGED <<call, kept, thing, changes, before, past, heard>>
<1>1. CASE request = Get
  BY <1>1 DEF Cancelled, Return
<1>2. CASE request # Get
  BY <1>2 DEF Cancelled, Return
<1>3. QED
  BY <1>1, <1>2

\* An answer with data is GitLab's answer.
LEMMA AnswerIsServed ==
  ASSUME NEW served, NEW o \in Outcomes(served),
         o.answer.status \notin {"none", "refused", "failed", "too_large"}
  PROVE  \E s \in served : o = Outcome(s.thing, stray, s.answer)
<1>1. o \notin TurnedDown
  BY DEF TurnedDown, Outcome, Answer
<1>2. o \notin Spoilt(served)
  BY DEF Spoilt, Outcome, Answer
<1>3. o \notin Lost(served)
  BY DEF Lost, AfterLoss, Outcome, Answer, NoAnswer
<1>4. QED
  BY <1>1, <1>2, <1>3 DEF Outcomes, Answered

\* Before the call.
NoCallYet ==
  /\ request = NoRequest /\ stray = {} /\ past = {} /\ changes = 0
  /\ result = NoResult /\ kept = Nothing

-----------------------------------------------------------------------------
(* merge.                                                                   *)

MergeThings ==
  [open : BOOLEAN, head : Nat, status : MergeStatuses, merged : Nat,
   by : {"nobody", "call", "other"}, auto : BOOLEAN, insists : BOOLEAN]

Reviewed(c, t) == t.by = "call" /\ c.sha # 0 => t.merged = c.sha

\* The requests of the call and the attempts that may come late carry its sha.
MergeInv ==
  call.tool = "merge" =>
    /\ request \in {NoRequest, Get, MergeRequest(call)}
    /\ stray \subseteq {MergeRequest(call)}
    /\ thing \in MergeThings
    /\ Reviewed(call, thing)
    /\ \A t \in past : Reviewed(call, t)

LEMMA MergeServedSound ==
  ASSUME NEW c, NEW t \in MergeThings, NEW s \in MergeServed(MergeRequest(c), t)
  PROVE  \/ s.thing = t
         \/ s.thing = [t EXCEPT !.auto = TRUE]
         \/ s.thing = Merged(t, "call") /\ c.sha \in {0, t.head}
<1> DEFINE Served(u, a) == [thing |-> u, answer |-> Answer(a)]
<1>1. MergeRequest(c) # Get /\ MergeRequest(c).sha = c.sha
  BY DEF MergeRequest, Get
<1>2. /\ s \in {Served(t, "conflict"), Served(t, "sha_required"),
                Served(t, "not_mergeable"), Served(Merged(t, "call"), "ok"),
                Served([t EXCEPT !.auto = TRUE], "auto_merge_set")}
      /\ s.answer.status = "ok" => c.sha \in {0, t.head}
  BY <1>1 DEF MergeServed, Answer
<1>3. CASE s = Served(Merged(t, "call"), "ok")
  BY <1>2, <1>3 DEF Answer
<1>4. CASE s = Served([t EXCEPT !.auto = TRUE], "auto_merge_set")
  BY <1>4
<1>5. CASE s \in {Served(t, "conflict"), Served(t, "sha_required"), Served(t, "not_mergeable")}
  BY <1>5
<1>6. QED
  BY <1>2, <1>3, <1>4, <1>5

LEMMA MergeThingKeeps ==
  ASSUME NEW c, NEW t \in MergeThings, Reviewed(c, t), NEW s \in MergeServed(MergeRequest(c), t)
  PROVE  s.thing \in MergeThings /\ Reviewed(c, s.thing)
<1>1. CASE s.thing = t
  BY <1>1
<1>2. CASE s.thing = [t EXCEPT !.auto = TRUE]
  BY <1>2 DEF MergeThings, Reviewed
<1>3. CASE s.thing = Merged(t, "call") /\ c.sha \in {0, t.head}
  BY <1>3 DEF MergeThings, Reviewed, Merged
<1>4. QED
  BY <1>1, <1>2, <1>3, MergeServedSound

LEMMA MergeContinues ==
  ASSUME NEW a, MergeContinue(a)
  PROVE  request' \in {NoRequest, Get}
  BY DEF MergeContinue, Return, Raise, Ask, Done

LEMMA MergeChangesKeep ==
  ASSUME NEW t \in MergeRequestChanges, NEW c, thing \in MergeThings, Reviewed(c, thing)
  PROVE  t \in MergeThings /\ Reviewed(c, t)
<1>1. CASE \E s \in MergeStatuses : t = [thing EXCEPT !.status = s]
  BY <1>1 DEF MergeThings, Reviewed
<1>2. CASE t = [thing EXCEPT !.head = thing.head + 1, !.status = "checking"]
  <2>1. thing.head + 1 \in Nat /\ "checking" \in MergeStatuses
    BY DEF MergeThings, MergeStatuses
  <2>2. QED
    BY <1>2, <2>1 DEF MergeThings, Reviewed
<1>3. CASE t = [thing EXCEPT !.open = FALSE]
  BY <1>3 DEF MergeThings, Reviewed
<1>4. CASE t = Merged(thing, "other")
  BY <1>4 DEF MergeThings, Reviewed, Merged
<1>5. QED
  BY <1>1, <1>2, <1>3, <1>4 DEF MergeRequestChanges

LEMMA MergeStarts ==
  ASSUME NoCallYet, StartMerge
  PROVE  MergeInv'
<1>1. PICK c \in MergeCalls, t \in MergeRequestsAtStart : Start(c, t, MergeRequest(c))
  BY DEF StartMerge
<1>2. /\ call' = c /\ thing' = t /\ past' = {t} /\ request' = MergeRequest(c)
      /\ stray' = {}
  BY <1>1 DEF Start, Ask, NoCallYet
<1>3. t \in MergeThings /\ t.by = "nobody"
  <2>1. PICK s \in MergeStatuses, insists \in BOOLEAN : t = Unmerged(s, insists)
    BY DEF MergeRequestsAtStart
  <2>2. QED
    BY <2>1 DEF Unmerged, MergeThings
<1>4. QED
  BY <1>2, <1>3 DEF MergeInv, Reviewed

LEMMA MergeStepKeeps ==
  ASSUME MergeInv, MergeStep
  PROVE  MergeInv'
<1>1. call.tool = "merge"
  BY DEF MergeStep
<1>2. /\ request \in {NoRequest, Get, MergeRequest(call)}
      /\ stray \subseteq {MergeRequest(call)}
      /\ thing \in MergeThings
      /\ Reviewed(call, thing)
      /\ \A t \in past : Reviewed(call, t)
  BY <1>1 DEF MergeInv
<1>3. ASSUME NEW o \in Outcomes(MergeServed(request, thing)), Running, Deliver(o),
             IF o.answer = NoAnswer THEN AskAgain ELSE MergeContinue(o.answer)
      PROVE  MergeInv'
  <2>1. request \in {Get, MergeRequest(call)}
    BY <1>2, <1>3 DEF Running
  <2>2. request' \in {request, NoRequest, Get}
    BY <1>3, MergeContinues DEF AskAgain
  <2>3. /\ thing' = thing \/ \E s \in MergeServed(request, thing) : thing' = s.thing
        /\ stray' = stray \/ (request # Get /\ stray' = stray \cup {request})
        /\ past' = past \cup {thing'} /\ call' = call
    BY <1>3, DeliverDoes
  <2>4. thing' \in MergeThings /\ Reviewed(call, thing')
    BY <1>2, <2>1, <2>3, MergeThingKeeps DEF MergeServed
  <2>5. QED
    BY <1>2, <2>1, <2>2, <2>3, <2>4 DEF MergeInv
<1>4. ASSUME NEW r \in stray, CarriedOutLate(r, MergeServed(r, thing))
      PROVE  MergeInv'
  <2>1. /\ r = MergeRequest(call) /\ stray' \subseteq stray
        /\ \E s \in MergeServed(r, thing) : thing' = s.thing
        /\ past' = past \cup {thing'} /\ UNCHANGED <<call, request>>
    BY <1>2, <1>4 DEF CarriedOutLate, Remember
  <2>2. thing' \in MergeThings /\ Reviewed(call, thing')
    BY <1>2, <2>1, MergeThingKeeps
  <2>3. QED
    BY <1>2, <2>1, <2>2 DEF MergeInv
<1>5. ASSUME NEW t \in MergeRequestChanges, SomebodyChanges(t)
      PROVE  MergeInv'
  BY <1>2, <1>5, MergeChangesKeep DEF SomebodyChanges, MergeInv
<1>6. QED
  BY <1>3, <1>4, <1>5 DEF MergeStep

LEMMA MergeCancelled ==
  ASSUME MergeInv, Cancelled
  PROVE  MergeInv'
  BY CancelledDoes DEF MergeInv, Cancelled, Running

\* Merged by this call, it stays merged; a refusal that follows is looked into
\* with that in mind.
MergeOnce ==
  call.tool = "merge" =>
    /\ \A t \in past : t.by = "call" => thing.by = "call"
    /\ thing.by = "call" => ~thing.open
    /\ Running => result = NoResult
    /\ request = Get /\ kept.byCall => ~thing.open
    /\ result.status = "merge_pending" => ~kept.byCall

\* Once closed it stays so, and merged by the call it stays that.
StaysMerged(t, u) ==
  /\ t.by = "call" => u.by = "call"
  /\ (t.by = "call" => ~t.open) => (u.by = "call" => ~u.open)
  /\ ~t.open => ~u.open

LEMMA ServedStaysMerged ==
  ASSUME NEW c, NEW t \in MergeThings, NEW r \in {Get, MergeRequest(c)}, NEW s \in MergeServed(r, t)
  PROVE  StaysMerged(t, s.thing)
<1>1. CASE r = Get
  BY <1>1 DEF MergeServed, StaysMerged
<1>2. CASE r = MergeRequest(c)
  <2>1. CASE s.thing = t
    BY <2>1 DEF StaysMerged
  <2>2. CASE s.thing = [t EXCEPT !.auto = TRUE]
    BY <2>2 DEF StaysMerged, MergeThings
  <2>3. CASE s.thing = Merged(t, "call") /\ t.by # "call"
    BY <2>3 DEF StaysMerged, MergeThings, Merged
  <2>4. CASE s.thing = Merged(t, "call") /\ t.by = "call"
    BY <2>4 DEF StaysMerged, MergeThings, Merged
  <2>5. QED
    BY <1>2, <2>1, <2>2, <2>3, <2>4, MergeServedSound
<1>3. QED
  BY <1>1, <1>2

LEMMA ChangesStayMerged ==
  ASSUME thing \in MergeThings, NEW t \in MergeRequestChanges, thing.by = "call" => ~thing.open
  PROVE  StaysMerged(thing, t)
<1>1. CASE \E s \in MergeStatuses : t = [thing EXCEPT !.status = s]
  BY <1>1 DEF MergeThings, StaysMerged
<1>2. CASE thing.open /\ t = [thing EXCEPT !.head = thing.head + 1, !.status = "checking"]
  BY <1>2 DEF MergeThings, StaysMerged
<1>3. CASE thing.open /\ t = [thing EXCEPT !.open = FALSE]
  BY <1>3 DEF MergeThings, StaysMerged
<1>4. CASE thing.open /\ t = Merged(thing, "other")
  BY <1>4 DEF MergeThings, StaysMerged, Merged
<1>5. QED
  BY <1>1, <1>2, <1>3, <1>4 DEF MergeRequestChanges

LEMMA MergeOnceStarts ==
  ASSUME NoCallYet, StartMerge
  PROVE  MergeOnce'
<1>1. PICK c \in MergeCalls, t \in MergeRequestsAtStart : Start(c, t, MergeRequest(c))
  BY DEF StartMerge
<1>2. /\ call' = c /\ thing' = t /\ past' = {t} /\ request' = MergeRequest(c)
      /\ result' = NoResult
  BY <1>1 DEF Start, Ask, NoCallYet
<1>3. t.by = "nobody"
  BY DEF MergeRequestsAtStart, Unmerged
<1>4. MergeRequest(c) # Get /\ NoResult.status # "merge_pending"
  BY DEF MergeRequest, Get, NoResult
<1>5. QED
  BY <1>2, <1>3, <1>4 DEF MergeOnce

\* How the handler goes on: it looks once, and then it is over.
LEMMA MergeGoesOn ==
  ASSUME NEW a, MergeContinue(a)
  PROVE  \/ /\ request # Get /\ request' = Get /\ result' = result
            /\ kept'.byCall => \E t \in past : t.by = "call"
         \/ /\ request' = NoRequest
            /\ result'.status = "merge_pending"
                 => request = Get /\ a.status = "ok" /\ DetailedStatus(a.mr) \in WaitingHelps
                    /\ kept' = kept
<1>1. CASE request = Get
  <2>1. CASE a.status = "ok"
    BY <1>1, <2>1 DEF MergeContinue, Return, Pending, Blocked
  <2>2. CASE a.status # "ok"
    BY <1>1, <2>2 DEF MergeContinue, Return, Raise, Answer
  <2>3. QED
    BY <2>1, <2>2
<1>2. CASE request # Get /\ a.status = "not_mergeable"
  <2>1. /\ kept' = [kept |-> "refusal", byCall |-> \E t \in past : t.by = "call"]
        /\ request' = Get /\ result' = result
    BY <1>2 DEF MergeContinue, Ask
  <2>2. kept'.byCall = (\E t \in past : t.by = "call")
    BY <2>1
  <2>3. QED
    BY <1>2, <2>1, <2>2
<1>3. CASE request # Get /\ a.status # "not_mergeable"
  BY <1>3 DEF MergeContinue, Return, Raise, Done, Blocked
<1>4. QED
  BY <1>1, <1>2, <1>3

LEMMA MergeOnceStepKeeps ==
  ASSUME MergeInv, MergeOnce, MergeStep
  PROVE  MergeOnce'
<1>1. call.tool = "merge"
  BY DEF MergeStep
<1>2. /\ request \in {NoRequest, Get, MergeRequest(call)}
      /\ stray \subseteq {MergeRequest(call)}
      /\ thing \in MergeThings
  BY <1>1 DEF MergeInv
<1>3. /\ \A t \in past : t.by = "call" => thing.by = "call"
      /\ thing.by = "call" => ~thing.open
      /\ Running => result = NoResult
      /\ request = Get /\ kept.byCall => ~thing.open
      /\ result.status = "merge_pending" => ~kept.byCall
  BY <1>1 DEF MergeOnce
<1>4. StaysMerged(thing, thing)
  BY DEF StaysMerged
<1>5. ASSUME StaysMerged(thing, thing'), past' = past \cup {thing'}
      PROVE  /\ \A t \in past' : t.by = "call" => thing'.by = "call"
             /\ thing'.by = "call" => ~thing'.open
             /\ ~thing.open => ~thing'.open
  BY <1>3, <1>5 DEF StaysMerged
<1>6. ASSUME NEW o \in Outcomes(MergeServed(request, thing)), Running, Deliver(o),
             IF o.answer = NoAnswer THEN AskAgain ELSE MergeContinue(o.answer)
      PROVE  MergeOnce'
  <2>1. request \in {Get, MergeRequest(call)} /\ result = NoResult
    BY <1>2, <1>3, <1>6 DEF Running
  <2>2. /\ thing' = thing \/ \E s \in MergeServed(request, thing) : thing' = s.thing
        /\ past' = past \cup {thing'} /\ call' = call
    BY <1>6, DeliverDoes
  <2>3. StaysMerged(thing, thing')
    BY <1>2, <1>4, <2>1, <2>2, ServedStaysMerged
  <2>4. /\ \A t \in past' : t.by = "call" => thing'.by = "call"
        /\ thing'.by = "call" => ~thing'.open
        /\ ~thing.open => ~thing'.open
    BY <1>5, <2>2, <2>3
  <2>5. NoResult.status # "merge_pending"
    BY DEF NoResult
  <2>6. CASE o.answer = NoAnswer
    <3>1. UNCHANGED <<request, kept, result>>
      BY <1>6, <2>6 DEF AskAgain
    <3>2. QED
      BY <1>3, <2>1, <2>2, <2>4, <2>5, <3>1 DEF MergeOnce
  <2>7. CASE o.answer # NoAnswer
    <3>1. MergeContinue(o.answer)
      BY <1>6, <2>7
    <3>2. CASE /\ request # Get /\ request' = Get /\ result' = result
               /\ kept'.byCall => \E t \in past : t.by = "call"
      BY <1>3, <2>1, <2>2, <2>4, <2>5, <3>2 DEF MergeOnce
    <3>3. CASE /\ request' = NoRequest
               /\ result'.status = "merge_pending"
                    => request = Get /\ o.answer.status = "ok"
                       /\ DetailedStatus(o.answer.mr) \in WaitingHelps /\ kept' = kept
      <4>1. NoRequest # Get
        BY DEF NoRequest, Get
      <4>2. ASSUME result'.status = "merge_pending" PROVE ~kept'.byCall
        <5>1. PICK s \in MergeServed(Get, thing) : o = Outcome(s.thing, stray, s.answer)
          BY <3>3, <4>2, AnswerIsServed
        <5>2. o.answer = [status |-> "ok", mr |-> thing]
          BY <5>1 DEF Outcome, MergeServed
        <5>3. DetailedStatus(thing) \in WaitingHelps
          BY <3>3, <4>2, <5>2
        <5>4. thing.open
          BY <5>3 DEF DetailedStatus, WaitingHelps
        <5>5. QED
          BY <1>3, <3>3, <4>2, <5>4
      <4>3. QED
        BY <2>2, <2>4, <3>3, <4>1, <4>2 DEF MergeOnce, Running
    <3>4. QED
      BY <3>1, <3>2, <3>3, MergeGoesOn
  <2>8. QED
    BY <2>6, <2>7
<1>7. ASSUME NEW r \in stray, CarriedOutLate(r, MergeServed(r, thing))
      PROVE  MergeOnce'
  <2>1. /\ r = MergeRequest(call)
        /\ \E s \in MergeServed(r, thing) : thing' = s.thing
        /\ past' = past \cup {thing'} /\ UNCHANGED <<call, request, kept, result>>
    BY <1>2, <1>7 DEF CarriedOutLate, Remember
  <2>2. StaysMerged(thing, thing')
    BY <1>2, <2>1, ServedStaysMerged
  <2>3. QED
    BY <1>3, <1>5, <2>1, <2>2 DEF MergeOnce, Running
<1>8. ASSUME NEW t \in MergeRequestChanges, SomebodyChanges(t)
      PROVE  MergeOnce'
  <2>1. thing' = t /\ past' = past \cup {thing'} /\ UNCHANGED <<call, request, kept, result>>
    BY <1>8 DEF SomebodyChanges
  <2>2. StaysMerged(thing, thing')
    BY <1>2, <1>3, <2>1, ChangesStayMerged
  <2>3. QED
    BY <1>3, <1>5, <2>1, <2>2 DEF MergeOnce, Running
<1>9. QED
  BY <1>6, <1>7, <1>8 DEF MergeStep

LEMMA MergeOnceCancelled ==
  ASSUME MergeOnce, Cancelled
  PROVE  MergeOnce'
<1>1. /\ request' = NoRequest /\ result'.status = "cancelled"
      /\ UNCHANGED <<call, kept, thing, past>>
  BY CancelledDoes
<1>2. NoRequest # Get
  BY DEF NoRequest, Get
<1>3. QED
  BY <1>1, <1>2 DEF MergeOnce, Running

-----------------------------------------------------------------------------
(* update_file and delete_file.                                             *)

FileThings == [commit : Nat, parent : Nat, by : {"call", "other"}, exists : BOOLEAN]

\* The one commit this call can make.
CommitOf(c) == Commit(c.seen + 1, c.seen, "call", c.tool = "update_file")

FileInv ==
  call.tool \in FileTools =>
    /\ call.seen \in {1, 2}
    /\ request \in {NoRequest, FileRequest(call)}
    /\ stray \subseteq {FileRequest(call)}
    /\ thing \in FileThings
    /\ \A t \in past \cup {thing} : t.by = "call" => t = CommitOf(call)

LEMMA FileServedSound ==
  ASSUME NEW c, c.seen \in {1, 2}, c.tool \in FileTools, NEW t \in FileThings,
         NEW s \in FileServed(FileRequest(c), t)
  PROVE  s.thing = t \/ s.thing = CommitOf(c)
  BY DEF FileServed, FileRequest, CommitOf, FileThings

LEMMA CommitTyped ==
  ASSUME NEW n \in Nat, NEW m \in Nat, NEW by \in {"call", "other"}, NEW e \in BOOLEAN
  PROVE  Commit(n, m, by, e) \in FileThings /\ Commit(n, m, by, e).by = by
  BY DEF Commit, FileThings

LEMMA FileContinues ==
  ASSUME NEW a, FileContinue(a)
  PROVE  request' = NoRequest
  BY DEF FileContinue, Return, Raise, Done

LEMMA FileStarts ==
  ASSUME NoCallYet, StartFile
  PROVE  FileInv'
<1>1. PICK c \in FileCallsOffered : Start(c, FileAtStart, FileRequest(c))
  BY DEF StartFile
<1>2. /\ call' = c /\ thing' = FileAtStart /\ past' = {FileAtStart}
      /\ request' = FileRequest(c) /\ stray' = {}
  BY <1>1 DEF Start, Ask, NoCallYet
<1>3. FileAtStart \in FileThings /\ FileAtStart.by = "other"
  BY CommitTyped DEF FileAtStart
<1>4. QED
  BY <1>2, <1>3 DEF FileInv, FileCallsOffered

LEMMA FileStepKeeps ==
  ASSUME FileInv, FileStep
  PROVE  FileInv'
<1>1. call.tool \in FileTools
  BY DEF FileStep
<1>2. /\ call.seen \in {1, 2}
      /\ request \in {NoRequest, FileRequest(call)}
      /\ stray \subseteq {FileRequest(call)}
      /\ thing \in FileThings
      /\ \A t \in past \cup {thing} : t.by = "call" => t = CommitOf(call)
  BY <1>1 DEF FileInv
<1>3. CommitOf(call) \in FileThings
  <2>1. call.seen \in Nat /\ call.seen + 1 \in Nat
    BY <1>2
  <2>2. (call.tool = "update_file") \in BOOLEAN
    OBVIOUS
  <2>3. QED
    BY <2>1, <2>2, CommitTyped DEF CommitOf
<1>4. ASSUME NEW o \in Outcomes(FileServed(request, thing)), Running, Deliver(o),
             IF o.answer = NoAnswer THEN AskAgain ELSE FileContinue(o.answer)
      PROVE  FileInv'
  <2>1. request = FileRequest(call)
    BY <1>2, <1>4 DEF Running
  <2>2. request' \in {request, NoRequest}
    BY <1>4, FileContinues DEF AskAgain
  <2>3. /\ thing' = thing \/ \E s \in FileServed(request, thing) : thing' = s.thing
        /\ stray' = stray \/ stray' = stray \cup {request}
        /\ past' = past \cup {thing'} /\ call' = call
    BY <1>4, DeliverDoes
  <2>4. thing' \in {thing, CommitOf(call)}
    BY <1>1, <1>2, <2>1, <2>3, FileServedSound
  <2>5. QED
    BY <1>2, <1>3, <2>1, <2>2, <2>3, <2>4 DEF FileInv
<1>5. ASSUME NEW r \in stray, CarriedOutLate(r, FileServed(r, thing))
      PROVE  FileInv'
  <2>1. /\ r = FileRequest(call) /\ stray' \subseteq stray
        /\ \E s \in FileServed(r, thing) : thing' = s.thing
        /\ past' = past \cup {thing'} /\ UNCHANGED <<call, request>>
    BY <1>2, <1>5 DEF CarriedOutLate, Remember
  <2>2. thing' \in {thing, CommitOf(call)}
    BY <1>1, <1>2, <2>1, FileServedSound
  <2>3. QED
    BY <1>2, <1>3, <2>1, <2>2 DEF FileInv
<1>6. ASSUME SomebodyChanges(Commit(thing.commit + 1, thing.commit, "other", TRUE))
      PROVE  FileInv'
  <2>1. thing.commit \in Nat /\ thing.commit + 1 \in Nat
    BY <1>2 DEF FileThings
  <2>2. thing' \in FileThings /\ thing'.by = "other"
    BY <1>6, <2>1, CommitTyped DEF SomebodyChanges
  <2>3. QED
    BY <1>2, <1>6, <2>2 DEF SomebodyChanges, FileInv
<1>7. QED
  BY <1>4, <1>5, <1>6 DEF FileStep

LEMMA FileCancelled ==
  ASSUME FileInv, Cancelled
  PROVE  FileInv'
  BY CancelledDoes DEF FileInv, Cancelled, Running

LEMMA SeenOnly == FileInv => SeenCommitsOnly
<1> SUFFICES ASSUME FileInv, call.tool \in FileTools PROVE SeenCommitsOnly
  BY DEF SeenCommitsOnly
<1>1. \A t \in ByCall : t = CommitOf(call)
  BY DEF FileInv, ByCall
<1>2. \A t \in ByCall : t.parent = call.seen
  BY <1>1 DEF CommitOf, Commit
<1>3. Cardinality(ByCall) <= 1
  <2>1. ByCall \subseteq {CommitOf(call)}
    BY <1>1
  <2>2. IsFiniteSet({CommitOf(call)}) /\ Cardinality({CommitOf(call)}) = 1
    BY FS_Singleton
  <2>3. QED
    BY <2>1, <2>2, FS_Subset, FS_CardinalityType
<1>4. QED
  BY <1>2, <1>3 DEF SeenCommitsOnly

-----------------------------------------------------------------------------
(* update_variable, update_wiki_page and update_draft_note.                 *)

Fields == [version : Nat, shown : BOOLEAN]

\* A PUT that brings back nothing older than what the call found.
NoOlder(r) ==
  /\ r # Get /\ r.name # "get"
  /\ r.body.version \in Nat /\ r.body.version >= before.version

CarryingInv ==
  call.tool \in CarryingTools =>
    /\ before.version \in {Blank, 1}
    /\ changes \in Nat
    /\ request \in {NoRequest, Get} \/ NoOlder(request)
    /\ \A r \in stray : NoOlder(r)
    /\ thing \in Fields /\ thing.version >= before.version
    /\ \A t \in past : t.version >= before.version

LEMMA PutFieldParts ==
  ASSUME NEW body
  PROVE  PutField(body) # Get /\ PutField(body).name # "get" /\ PutField(body).body = body
  BY DEF PutField, Get

LEMMA CarriedIsNoOlder ==
  ASSUME NEW c, NEW v \in Nat
  PROVE  CarriedBody(c, v).version = v
  BY DEF CarriedBody, NotNamed, Named, Blank

LEMMA CarryingStarts ==
  ASSUME NoCallYet, StartCarrying
  PROVE  CarryingInv'
<1> PICK c \in CarryingCalls : \E t \in CarriedFields(c) : Start(c, t, FirstCarryingRequest(c))
  BY DEF StartCarrying
<1>1. PICK t \in CarriedFields(c) : Start(c, t, FirstCarryingRequest(c))
  OBVIOUS
<1>2. /\ call' = c /\ thing' = t /\ past' = {t} /\ before' = t
      /\ request' = FirstCarryingRequest(c) /\ stray' = {} /\ changes' = 0
  BY <1>1 DEF Start, Ask, NoCallYet
<1>3. t \in Fields /\ t.version \in {Blank, 1}
  BY DEF CarriedFields, Fields, Blank
<1>4. request' = Get \/ NoOlder(request)'
  <2>1. CASE request' = PutField(Named(Passed))
    <3>1. Passed \in Nat /\ Passed >= 1
      BY DEF Passed
    <3>2. request'.body.version = Passed
      BY <2>1, PutFieldParts DEF Named
    <3>3. QED
      BY <1>2, <1>3, <2>1, <3>1, <3>2, PutFieldParts DEF NoOlder, Blank
  <2>2. QED
    BY <1>2, <2>1 DEF FirstCarryingRequest
<1>5. QED
  BY <1>2, <1>3, <1>4 DEF CarryingInv, Fields, Blank

LEMMA CarryingServedSound ==
  ASSUME NEW t \in Fields, NEW v \in Nat, NEW r, r.name # "get", r # Get, r.body.version = v,
         NEW s \in CarryingServed(r, t)
  PROVE  s.thing \in Fields /\ s.thing.version = v
  BY DEF CarryingServed, Fields

LEMMA CarryingStepKeeps ==
  ASSUME CarryingInv, CarryingStep
  PROVE  CarryingInv'
<1>1. call.tool \in CarryingTools
  BY DEF CarryingStep
<1>2. /\ before.version \in {Blank, 1}
      /\ changes \in Nat
      /\ request \in {NoRequest, Get} \/ NoOlder(request)
      /\ \A r \in stray : NoOlder(r)
      /\ thing \in Fields /\ thing.version >= before.version
      /\ \A t \in past : t.version >= before.version
  BY <1>1 DEF CarryingInv
<1>3. ASSUME NEW o \in Outcomes(CarryingServed(request, thing)), Running, Deliver(o),
             IF o.answer = NoAnswer THEN AskAgain ELSE CarryingContinue(o.answer)
      PROVE  CarryingInv'
  <2>1. /\ thing' = thing \/ \E s \in CarryingServed(request, thing) : thing' = s.thing
        /\ stray' = stray \/ (request # Get /\ stray' = stray \cup {request})
        /\ past' = past \cup {thing'} /\ UNCHANGED <<call, changes, before>>
    BY <1>3, DeliverDoes
  <2>2. thing' \in Fields /\ thing'.version >= before.version
    <3>1. CASE request = Get
      BY <1>2, <2>1, <3>1 DEF CarryingServed
    <3>2. CASE request # Get
      BY <1>2, <1>3, <2>1, <3>2, CarryingServedSound DEF NoOlder, Running
    <3>3. QED
      BY <3>1, <3>2
  <2>3. request' \in {NoRequest, request} \/ NoOlder(request')
    <3>1. CASE o.answer = NoAnswer
      BY <1>3, <3>1 DEF AskAgain
    <3>2. CASE o.answer # NoAnswer
      <4>1. CarryingContinue(o.answer)
        BY <1>3, <3>2
      <4>2. CASE request' = NoRequest
        BY <4>2
      <4>3. CASE request' # NoRequest
        <5>1. /\ o.answer.status = "ok" /\ request.name = "get"
              /\ request' = PutField(CarriedBody(call, o.answer.field.version))
          BY <4>1, <4>3 DEF CarryingContinue, Raise, Done, Return, Ask
        <5>2. request = Get
          BY <1>2, <1>3, <5>1 DEF NoOlder, Running
        <5>3. o.answer.field = thing
          <6>1. PICK s \in CarryingServed(request, thing) : o = Outcome(s.thing, stray, s.answer)
            BY <5>1, AnswerIsServed
          <6>2. o.answer = s.answer
            BY <6>1 DEF Outcome
          <6>3. QED
            BY <5>2, <6>1, <6>2 DEF CarryingServed
        <5>4. thing.version \in Nat
          BY <1>2 DEF Fields
        <5>5. QED
          BY <1>2, <5>1, <5>3, <5>4, PutFieldParts, CarriedIsNoOlder DEF NoOlder
      <4>4. QED
        BY <4>2, <4>3
    <3>3. QED
      BY <3>1, <3>2
  <2>4. QED
    BY <1>2, <1>3, <2>1, <2>2, <2>3 DEF CarryingInv, NoOlder, Running
<1>4. ASSUME NEW r \in stray, CarriedOutLate(r, CarryingServed(r, thing))
      PROVE  CarryingInv'
  <2>1. /\ stray' \subseteq stray
        /\ \E s \in CarryingServed(r, thing) : thing' = s.thing
        /\ past' = past \cup {thing'} /\ UNCHANGED <<call, request, changes, before>>
    BY <1>4 DEF CarriedOutLate, Remember
  <2>2. thing' \in Fields /\ thing'.version >= before.version
    BY <1>2, <1>4, <2>1, CarryingServedSound DEF NoOlder
  <2>3. QED
    BY <1>2, <2>1, <2>2 DEF CarryingInv, NoOlder
<1>5. ASSUME SomebodyChanges([thing EXCEPT !.version = changes + 2])
      PROVE  CarryingInv'
  <2>1. /\ thing' = [thing EXCEPT !.version = changes + 2] /\ changes' = changes + 1
        /\ past' = past \cup {thing'} /\ UNCHANGED <<call, request, stray, before>>
    BY <1>5 DEF SomebodyChanges
  <2>2. thing' \in Fields /\ thing'.version >= before.version /\ changes' \in Nat
    BY <1>2, <2>1 DEF Fields, Blank
  <2>3. \A r : NoOlder(r) => NoOlder(r)'
    BY <2>1 DEF NoOlder
  <2>4. QED
    BY <1>2, <2>1, <2>2, <2>3 DEF CarryingInv
<1>6. QED
  BY <1>3, <1>4, <1>5 DEF CarryingStep

LEMMA CarryingCancelled ==
  ASSUME CarryingInv, Cancelled
  PROVE  CarryingInv'
  BY CancelledDoes DEF CarryingInv, NoOlder, Cancelled, Running

-----------------------------------------------------------------------------
(* publish_review.                                                          *)

Reviews == [published : BOOLEAN, summaries : 0..1]

\* The summary is asked for once, after the drafts were published; while it is
\* outstanding nobody has posted it.
ReviewInv ==
  call.tool = "publish_review" =>
    /\ request \in {NoRequest, PostBulkPublish, PostSummary}
    /\ Running => tries = 0 /\ stray = {} /\ thing.summaries = 0 /\ result = NoResult
    /\ request = PostSummary => thing.published
    /\ stray \subseteq {PostBulkPublish, PostSummary}
    /\ PostSummary \in stray => thing.published /\ thing.summaries = 0
    /\ thing \in Reviews
    /\ \A t \in past \cup {thing} : t \in Reviews /\ (t.summaries > 0 => t.published)
    /\ result.status = "error" =>
         IF "hint" \in DOMAIN result THEN thing.published
         ELSE result.code # "too_large" => thing.summaries = 0 /\ PostSummary \notin stray

LEMMA PostsDiffer ==
  /\ PostSummary # PostBulkPublish /\ PostSummary # Get /\ PostBulkPublish # Get
  /\ PostSummary # NoRequest /\ PostBulkPublish # NoRequest
  /\ PostSummary.method = "POST" /\ PostBulkPublish.method = "POST"
  BY DEF PostSummary, PostBulkPublish, Get, NoRequest

LEMMA ReviewServedSound ==
  ASSUME NEW t \in Reviews
  PROVE  /\ \A s \in ReviewServed(PostBulkPublish, t) :
              /\ s.thing = [t EXCEPT !.published = TRUE] /\ s.answer = Answer("ok")
              /\ s.thing \in Reviews /\ s.thing.published /\ s.thing.summaries = t.summaries
         /\ t.summaries = 0 => \A s \in ReviewServed(PostSummary, t) :
              /\ s.answer = Answer("ok")
              /\ s.thing \in Reviews /\ s.thing.published = t.published
<1>1. ASSUME NEW s \in ReviewServed(PostBulkPublish, t)
      PROVE  /\ s.thing = [t EXCEPT !.published = TRUE] /\ s.answer = Answer("ok")
             /\ s.thing \in Reviews /\ s.thing.published /\ s.thing.summaries = t.summaries
  <2>1. s.thing = [t EXCEPT !.published = TRUE] /\ s.answer = Answer("ok")
    BY <1>1 DEF ReviewServed
  <2>2. s.thing \in Reviews /\ s.thing.published = TRUE /\ s.thing.summaries = t.summaries
    BY <2>1 DEF Reviews
  <2>3. QED
    BY <2>1, <2>2
<1>2. ASSUME t.summaries = 0, NEW s \in ReviewServed(PostSummary, t)
      PROVE  s.answer = Answer("ok") /\ s.thing \in Reviews /\ s.thing.published = t.published
  <2>1. s.thing = [t EXCEPT !.summaries = @ + 1] /\ s.answer = Answer("ok")
    BY <1>2, PostsDiffer DEF ReviewServed
  <2>2. t.summaries + 1 = 1 /\ 1 \in 0..1
    BY <1>2
  <2>3. s.thing \in Reviews /\ s.thing.published = t.published
    BY <2>1, <2>2 DEF Reviews
  <2>4. QED
    BY <2>1, <2>3
<1>3. QED
  BY <1>1, <1>2

\* What a POST's end leaves behind: it was carried out, or it may yet be, or
\* neither; an accepted one was carried out.
LEMMA PostEnds ==
  ASSUME NEW served, NEW o \in Outcomes(served), Deliver(o), request # Get, tries = 0,
         \A s \in served : s.answer = Answer("ok")
  PROVE  /\ o.answer \in {Answer("ok"), Answer("refused"), Answer("failed"), Answer("too_large")}
         /\ \/ /\ \E s \in served : thing' = s.thing
               /\ stray' = stray /\ o.answer # Answer("refused")
            \/ /\ thing' = thing /\ stray' \in {stray, stray \cup {request}}
               /\ o.answer \in {Answer("refused"), Answer("failed"), Answer("too_large")}
<1>1. thing' = o.thing /\ stray' = o.stray
  BY DEF Deliver
<1>2. CASE o \in Answered(served)
  BY <1>1, <1>2 DEF Answered, Outcome, Answer
<1>3. CASE o \in TurnedDown
  BY <1>1, <1>3 DEF TurnedDown, Outcome, Answer
<1>4. CASE o \in Spoilt(served)
  BY <1>1, <1>4 DEF Spoilt, Outcome, Answer
<1>5. CASE o \in Lost(served)
  <2>1. AfterLoss = {Answer("failed")}
    BY DEF AfterLoss, TriesLeft
  <2>2. QED
    BY <1>1, <1>5, <2>1 DEF Lost, Outcome, Answer
<1>6. QED
  BY <1>2, <1>3, <1>4, <1>5 DEF Outcomes

LEMMA ReviewStarts ==
  ASSUME NoCallYet, StartReview
  PROVE  ReviewInv'
<1>1. PICK c \in ReviewCallsOffered : Start(c, ReviewAtStart, FirstReviewRequest(c))
  BY DEF StartReview
<1>2. /\ call' = c /\ thing' = ReviewAtStart /\ past' = {ReviewAtStart}
      /\ request' = PostBulkPublish /\ stray' = {} /\ result' = NoResult /\ tries' = 0
  <2>1. /\ call' = c /\ thing' = ReviewAtStart /\ past' = {ReviewAtStart}
        /\ stray' = stray /\ Ask(PostBulkPublish)
    BY <1>1 DEF Start, FirstReviewRequest
  <2>2. request' = PostBulkPublish /\ tries' = 0 /\ result' = result
    BY <2>1, PostsDiffer DEF Ask
  <2>3. QED
    BY <2>1, <2>2 DEF NoCallYet
<1>3. ReviewAtStart \in Reviews /\ ReviewAtStart.summaries = 0
  BY DEF ReviewAtStart, Reviews
<1>4. NoResult.status # "error"
  BY DEF NoResult
<1>5. QED
  BY <1>2, <1>3, <1>4, PostsDiffer DEF ReviewInv

\* How the handler goes on with each answer.
LEMMA ReviewContinues ==
  ASSUME NEW a, a \in {Answer("ok"), Answer("refused"), Answer("failed"), Answer("too_large")},
         ReviewContinue(a)
  PROVE  \/ /\ request = PostBulkPublish /\ a = Answer("ok")
            /\ request' = PostSummary /\ tries' = 0 /\ result' = result
         \/ request' = NoRequest /\ a = Answer("ok") /\ result'.status = "done"
         \/ /\ request' = NoRequest /\ a # Answer("ok")
            /\ result'.status = "error"
            /\ IF "hint" \in DOMAIN result' THEN request = PostSummary
               ELSE result'.code # "too_large" => request # PostSummary
<1>1. CASE a = Answer("ok")
  BY <1>1, PostsDiffer DEF ReviewContinue, Ask, Done, Return, Answer
<1>2. CASE a # Answer("ok")
  <2>1. a.status # "ok" /\ ReviewError(a)
    BY <1>2 DEF ReviewContinue, Answer
  <2>2. CASE request = PostSummary /\ a.status # "too_large"
    BY <1>2, <2>1, <2>2 DEF ReviewError, Hinted, Return
  <2>3. CASE ~(request = PostSummary /\ a.status # "too_large")
    <3>1. request' = NoRequest /\ result' = [status |-> "error", code |-> a.status]
      BY <2>1, <2>3 DEF ReviewError, Raise, Return
    <3>2. "hint" \notin DOMAIN result' /\ result'.code = a.status /\ result'.status = "error"
      BY <3>1
    <3>3. QED
      BY <1>2, <2>3, <3>1, <3>2
  <2>4. QED
    BY <2>2, <2>3
<1>3. QED
  BY <1>1, <1>2

LEMMA ReviewStepKeeps ==
  ASSUME ReviewInv, ReviewStep
  PROVE  ReviewInv'
<1>1. call.tool = "publish_review"
  BY DEF ReviewStep
<1>2. /\ request \in {NoRequest, PostBulkPublish, PostSummary}
      /\ Running => tries = 0 /\ stray = {} /\ thing.summaries = 0 /\ result = NoResult
      /\ request = PostSummary => thing.published
      /\ stray \subseteq {PostBulkPublish, PostSummary}
      /\ PostSummary \in stray => thing.published /\ thing.summaries = 0
      /\ thing \in Reviews
      /\ \A t \in past \cup {thing} : t \in Reviews /\ (t.summaries > 0 => t.published)
      /\ result.status = "error" =>
           IF "hint" \in DOMAIN result THEN thing.published
           ELSE result.code # "too_large" => thing.summaries = 0 /\ PostSummary \notin stray
  BY <1>1 DEF ReviewInv
<1>3. ASSUME NEW o \in Outcomes(ReviewServed(request, thing)), Running, Deliver(o),
             IF o.answer = NoAnswer THEN AskAgain ELSE ReviewContinue(o.answer)
      PROVE  ReviewInv'
  <2>1. /\ request \in {PostBulkPublish, PostSummary} /\ request # Get
        /\ tries = 0 /\ stray = {} /\ thing.summaries = 0 /\ result = NoResult
    BY <1>2, <1>3, PostsDiffer DEF Running
  <2>2. \A s \in ReviewServed(request, thing) :
          /\ s.answer = Answer("ok") /\ s.thing \in Reviews
          /\ request = PostBulkPublish => s.thing.published /\ s.thing.summaries = 0
          /\ request = PostSummary => s.thing.published
    BY <1>2, <2>1, ReviewServedSound, PostsDiffer
  <2>3. /\ o.answer \in {Answer("ok"), Answer("refused"), Answer("failed"), Answer("too_large")}
        /\ \/ /\ \E s \in ReviewServed(request, thing) : thing' = s.thing
              /\ stray' = stray /\ o.answer # Answer("refused")
           \/ /\ thing' = thing /\ stray' \in {stray, stray \cup {request}}
              /\ o.answer \in {Answer("refused"), Answer("failed"), Answer("too_large")}
    BY <1>3, <2>1, <2>2, PostEnds
  <2>4. ReviewContinue(o.answer)
    BY <1>3, <2>3 DEF NoAnswer, Answer
  <2>5. past' = past \cup {thing'} /\ call' = call
    BY <1>3 DEF Deliver, Remember
  <2>6. /\ thing' \in Reviews /\ (thing'.summaries > 0 => thing'.published)
        /\ request = PostBulkPublish => thing'.summaries = 0
        /\ request = PostSummary => thing'.published
        /\ request = PostBulkPublish /\ o.answer = Answer("ok") => thing'.published
    BY <1>2, <2>1, <2>2, <2>3, PostsDiffer DEF Answer
  <2>7. /\ stray' \subseteq {request}
        /\ stray' # {} => thing' = thing /\ o.answer # Answer("ok")
    BY <2>1, <2>3 DEF Answer
  <2>8. \/ /\ request = PostBulkPublish /\ o.answer = Answer("ok")
           /\ request' = PostSummary /\ tries' = 0 /\ result' = result
        \/ request' = NoRequest /\ o.answer = Answer("ok") /\ result'.status = "done"
        \/ /\ request' = NoRequest /\ o.answer # Answer("ok")
           /\ result'.status = "error"
           /\ IF "hint" \in DOMAIN result' THEN request = PostSummary
              ELSE result'.code # "too_large" => request # PostSummary
    BY <2>3, <2>4, ReviewContinues
  <2>9. CASE request' = PostSummary /\ request = PostBulkPublish /\ o.answer = Answer("ok")
             /\ tries' = 0 /\ result' = result
    BY <1>2, <2>1, <2>5, <2>6, <2>7, <2>9, PostsDiffer DEF ReviewInv, Running, NoResult
  <2>10. CASE request' = NoRequest /\ o.answer = Answer("ok") /\ result'.status = "done"
    BY <1>2, <2>1, <2>5, <2>6, <2>7, <2>10, PostsDiffer DEF ReviewInv, Running
  <2>11. CASE /\ request' = NoRequest /\ o.answer # Answer("ok")
              /\ result'.status = "error"
              /\ IF "hint" \in DOMAIN result' THEN request = PostSummary
                 ELSE result'.code # "too_large" => request # PostSummary
    <3>1. IF "hint" \in DOMAIN result' THEN thing'.published
          ELSE result'.code # "too_large" => thing'.summaries = 0 /\ PostSummary \notin stray'
      BY <2>1, <2>6, <2>7, <2>11, PostsDiffer
    <3>2. PostSummary \in stray' => thing'.published /\ thing'.summaries = 0
      BY <2>1, <2>6, <2>7, PostsDiffer
    <3>3. QED
      BY <1>2, <2>1, <2>5, <2>6, <2>7, <2>11, <3>1, <3>2, PostsDiffer DEF ReviewInv, Running
  <2>12. QED
    BY <2>8, <2>9, <2>10, <2>11
<1>4. ASSUME NEW r \in stray, CarriedOutLate(r, ReviewServed(r, thing))
      PROVE  ReviewInv'
  <2>1. /\ stray' = stray \ {r} /\ past' = past \cup {thing'}
        /\ \E s \in ReviewServed(r, thing) : thing' = s.thing
        /\ UNCHANGED <<call, request, tries, result>>
    <3>1. r.method = "POST"
      BY <1>2, <1>4 DEF PostBulkPublish, PostSummary
    <3>2. QED
      BY <1>4, <3>1 DEF CarriedOutLate, Remember
  <2>2. ~Running
    BY <1>2, <1>4
  <2>3. CASE r = PostBulkPublish
    <3>1. thing' \in Reviews /\ thing'.published /\ thing'.summaries = thing.summaries
      <4>1. \A s \in ReviewServed(PostBulkPublish, thing) :
              s.thing \in Reviews /\ s.thing.published /\ s.thing.summaries = thing.summaries
        BY <1>2, ReviewServedSound
      <4>2. QED
        BY <2>1, <2>3, <4>1
    <3>2. QED
      BY <1>2, <2>1, <2>2, <2>3, <3>1, PostsDiffer DEF ReviewInv, Running
  <2>4. CASE r = PostSummary
    <3>1. thing' \in Reviews /\ thing'.published /\ PostSummary \notin stray'
      <4>1. thing.published /\ thing.summaries = 0
        BY <1>2, <1>4, <2>4
      <4>2. \A s \in ReviewServed(PostSummary, thing) : s.thing \in Reviews /\ s.thing.published
        BY <1>2, <4>1, ReviewServedSound
      <4>3. QED
        BY <2>1, <2>4, <4>2
    <3>2. result.status = "error" /\ "hint" \notin DOMAIN result => result.code = "too_large"
      BY <1>2, <1>4, <2>4
    <3>3. QED
      BY <1>2, <2>1, <2>2, <2>4, <3>1, <3>2, PostsDiffer DEF ReviewInv, Running
  <2>5. QED
    BY <1>2, <1>4, <2>3, <2>4
<1>5. QED
  BY <1>3, <1>4 DEF ReviewStep

LEMMA ReviewCancelled ==
  ASSUME ReviewInv, Cancelled
  PROVE  ReviewInv'
<1> SUFFICES ASSUME call.tool = "publish_review" PROVE ReviewInv'
  BY CancelledDoes DEF ReviewInv
<1>1. Running /\ result'.status # "error"
  BY CancelledDoes DEF Cancelled
<1>2. QED
  BY <1>1, CancelledDoes, PostsDiffer DEF ReviewInv, Running

LEMMA ReviewOrdered == ReviewInv => ReviewInOrder
<1> SUFFICES ASSUME ReviewInv, call.tool = "publish_review" PROVE ReviewInOrder
  BY DEF ReviewInOrder, SummaryComesLast, ReviewErrorTellsWhere
<1>1. \A t \in past : t \in Reviews /\ (t.summaries > 0 => t.published)
  BY DEF ReviewInv
<1>2. SummaryComesLast
  BY <1>1 DEF SummaryComesLast, Reviews
<1>3. ReviewErrorTellsWhere
  BY DEF ReviewInv, ReviewErrorTellsWhere
<1>4. QED
  BY <1>2, <1>3 DEF ReviewInOrder

-----------------------------------------------------------------------------
(* Comments on a diff line.                                                 *)

\* diff_refs are those of a version, or not all there.
Diffs == {t \in [refs : [base : Nat, head : Nat, start : Nat], pushed : Nat \ {0},
                 anchors : SUBSET [base : Nat, head : Nat, start : Nat]] :
            DiffReady(t.refs) => t.refs = DiffOf(t.refs.head)}

\* A position that GitLab reported, whole, at some moment of the call.
Anchor(p) ==
  /\ p \in [base : Nat, head : Nat, start : Nat]
  /\ \E t \in past : p = t.refs
  /\ p = DiffOf(p.head) /\ p.head # 0

\* Nothing is posted before the refs are known, and then it is one comment.
AnchoringInv ==
  call.tool \in AnchoringTools =>
    /\ \/ request = NoRequest
       \/ request = Get /\ thing.anchors = {} /\ stray = {} /\ result = NoResult
       \/ /\ request # Get /\ request # NoRequest /\ Anchor(request.position)
          /\ result = NoResult
    /\ \A r \in stray : r # Get /\ Anchor(r.position)
    /\ thing \in Diffs /\ thing \in past
    /\ \A p \in thing.anchors : Anchor(p)
    /\ result.status = "diff_not_ready"
         => request = NoRequest /\ thing.anchors = {} /\ stray = {}

LEMMA RefsServed ==
  ASSUME NEW t, NEW s \in AnchoringServed(Get, t)
  PROVE  s.thing = t /\ s.answer = [status |-> "ok", refs |-> t.refs]
  BY DEF AnchoringServed

\* The diff with one more comment.
Commented(t, p) == [t EXCEPT !.anchors = t.anchors \cup {p}]

LEMMA CommentServed ==
  ASSUME NEW t, NEW r, r # Get, NEW s \in AnchoringServed(r, t)
  PROVE  s.thing = Commented(t, r.position)
  BY DEF AnchoringServed, Commented

LEMMA DiffRefsTyped ==
  ASSUME NEW b \in Nat, NEW h \in Nat, NEW s \in Nat
  PROVE  /\ DiffRefs(b, h, s) \in [base : Nat, head : Nat, start : Nat]
         /\ DiffRefs(b, h, s).base = b /\ DiffRefs(b, h, s).head = h
         /\ DiffRefs(b, h, s).start = s
  BY DEF DiffRefs

\* The refs GitLab reports after a push, and once it has computed them.
LEMMA RefsSound ==
  ASSUME NEW v \in Nat \ {0}, NEW refs \in {DiffOf(v)} \cup NotComputed(v)
  PROVE  /\ refs \in [base : Nat, head : Nat, start : Nat]
         /\ DiffReady(refs) => refs = DiffOf(refs.head)
<1>1. CASE refs = DiffOf(v)
  BY <1>1, DiffRefsTyped DEF DiffOf
<1>2. CASE refs = DiffRefs(0, 0, 0)
  BY <1>2, DiffRefsTyped DEF DiffReady
<1>3. CASE refs = DiffRefs(v, 0, v)
  BY <1>3, DiffRefsTyped DEF DiffReady
<1>4. QED
  BY <1>1, <1>2, <1>3 DEF NotComputed

LEMMA AnchoringStarts ==
  ASSUME NoCallYet, StartAnchoring
  PROVE  AnchoringInv'
<1>1. PICK c \in AnchoringCalls, t \in DiffsAtStart : Start(c, t, Get)
  BY DEF StartAnchoring
<1>2. /\ call' = c /\ thing' = t /\ past' = {t}
      /\ request' = Get /\ stray' = {} /\ result' = NoResult
  BY <1>1 DEF Start, Ask, NoCallYet
<1>3. PICK refs \in {DiffOf(1)} \cup NotComputed(1) : t = [refs |-> refs, pushed |-> 1, anchors |-> {}]
  BY DEF DiffsAtStart
<1>4. t \in Diffs /\ t.anchors = {}
  BY <1>3, RefsSound DEF Diffs
<1>5. NoResult.status # "diff_not_ready"
  BY DEF NoResult
<1>6. QED
  BY <1>2, <1>4, <1>5 DEF AnchoringInv

LEMMA DiffChangesSound ==
  ASSUME thing \in Diffs, NEW t \in DiffChanges
  PROVE  t \in Diffs /\ t.anchors = thing.anchors
<1>1. /\ thing.pushed \in Nat \ {0} /\ thing.pushed + 1 \in Nat \ {0}
      /\ thing \in [refs : [base : Nat, head : Nat, start : Nat], pushed : Nat \ {0},
                    anchors : SUBSET [base : Nat, head : Nat, start : Nat]]
  BY DEF Diffs
<1>2. ASSUME NEW refs \in NotComputed(thing.pushed + 1),
             t = [thing EXCEPT !.pushed = @ + 1, !.refs = refs]
      PROVE  t \in Diffs /\ t.anchors = thing.anchors
  <2>1. /\ refs \in [base : Nat, head : Nat, start : Nat]
        /\ DiffReady(refs) => refs = DiffOf(refs.head)
    BY <1>1, <1>2, RefsSound
  <2>2. t.refs = refs /\ t.anchors = thing.anchors
    BY <1>1, <1>2
  <2>3. t \in [refs : [base : Nat, head : Nat, start : Nat], pushed : Nat \ {0},
               anchors : SUBSET [base : Nat, head : Nat, start : Nat]]
    BY <1>1, <1>2, <2>1
  <2>4. QED
    BY <2>1, <2>2, <2>3 DEF Diffs
<1>3. ASSUME t = [thing EXCEPT !.refs = DiffOf(thing.pushed)]
      PROVE  t \in Diffs /\ t.anchors = thing.anchors
  <2>1. /\ DiffOf(thing.pushed) \in [base : Nat, head : Nat, start : Nat]
        /\ DiffOf(thing.pushed) = DiffOf(DiffOf(thing.pushed).head)
    BY <1>1, DiffRefsTyped DEF DiffOf
  <2>2. t.refs = DiffOf(thing.pushed) /\ t.anchors = thing.anchors
    BY <1>1, <1>3
  <2>3. t \in [refs : [base : Nat, head : Nat, start : Nat], pushed : Nat \ {0},
               anchors : SUBSET [base : Nat, head : Nat, start : Nat]]
    BY <1>1, <1>3, <2>1
  <2>4. QED
    BY <2>1, <2>2, <2>3 DEF Diffs
<1>4. QED
  BY <1>2, <1>3 DEF DiffChanges

\* A comment posted at a good position leaves the diff as it is.
LEMMA CommentSound ==
  ASSUME thing \in Diffs, NEW p, Anchor(p), \A q \in thing.anchors : Anchor(q),
         NEW t, t = Commented(thing, p)
  PROVE  t \in Diffs /\ \A q \in t.anchors : Anchor(q)
<1>1. /\ thing \in [refs : [base : Nat, head : Nat, start : Nat], pushed : Nat \ {0},
                    anchors : SUBSET [base : Nat, head : Nat, start : Nat]]
      /\ DiffReady(thing.refs) => thing.refs = DiffOf(thing.refs.head)
  BY DEF Diffs
<1>2. thing.anchors \cup {p} \in SUBSET [base : Nat, head : Nat, start : Nat]
  BY <1>1 DEF Anchor
<1>3. t.refs = thing.refs /\ t.anchors = thing.anchors \cup {p}
  BY <1>1 DEF Commented
<1>4. t \in [refs : [base : Nat, head : Nat, start : Nat], pushed : Nat \ {0},
             anchors : SUBSET [base : Nat, head : Nat, start : Nat]]
  BY <1>1, <1>2 DEF Commented
<1>5. QED
  BY <1>1, <1>3, <1>4 DEF Diffs

\* How the handlers go on.
LEMMA AnchoringContinues ==
  ASSUME NEW a, AnchoringContinue(a)
  PROVE  \/ request' = NoRequest /\ result'.status \in {"error", "done"}
         \/ /\ request = Get /\ a.status = "ok" /\ DiffReady(a.refs)
            /\ request' = PostComment(a.refs) /\ result' = result
         \/ request = Get /\ request' = NoRequest /\ result'.status = "diff_not_ready"
<1>1. CASE a.status # "ok"
  BY <1>1 DEF AnchoringContinue, Raise, Return
<1>2. CASE a.status = "ok" /\ request # Get
  BY <1>2 DEF AnchoringContinue, Done, Return
<1>3. CASE a.status = "ok" /\ request = Get
  BY <1>3 DEF AnchoringContinue, Return, Ask
<1>4. QED
  BY <1>1, <1>2, <1>3

LEMMA AnchoringStepKeeps ==
  ASSUME AnchoringInv, AnchoringStep
  PROVE  AnchoringInv'
<1>1. call.tool \in AnchoringTools
  BY DEF AnchoringStep
<1>2. /\ \/ request = NoRequest
         \/ request = Get /\ thing.anchors = {} /\ stray = {} /\ result = NoResult
         \/ /\ request # Get /\ request # NoRequest /\ Anchor(request.position)
            /\ result = NoResult
      /\ \A r \in stray : r # Get /\ Anchor(r.position)
      /\ thing \in Diffs /\ thing \in past
      /\ \A p \in thing.anchors : Anchor(p)
      /\ result.status = "diff_not_ready"
           => request = NoRequest /\ thing.anchors = {} /\ stray = {}
  BY <1>1 DEF AnchoringInv
<1>3. NoResult.status # "diff_not_ready"
  BY DEF NoResult
<1>4. ASSUME NEW o \in Outcomes(AnchoringServed(request, thing)), Running, Deliver(o),
             IF o.answer = NoAnswer THEN AskAgain ELSE AnchoringContinue(o.answer)
      PROVE  AnchoringInv'
  <2>1. /\ thing' = thing \/ \E s \in AnchoringServed(request, thing) : thing' = s.thing
        /\ stray' = stray \/ (request # Get /\ stray' = stray \cup {request})
        /\ past' = past \cup {thing'} /\ UNCHANGED call
    BY <1>4, DeliverDoes
  <2>2. \A p : Anchor(p) => Anchor(p)'
    BY <2>1 DEF Anchor
  <2>3. CASE request = Get
    <3>1. thing' = thing /\ stray' = {} /\ thing.anchors = {} /\ result = NoResult
      BY <1>2, <2>1, <2>3, RefsServed DEF Get, NoRequest
    <3>2. CASE o.answer = NoAnswer
      BY <1>2, <1>3, <1>4, <2>1, <2>3, <3>1, <3>2 DEF AskAgain, AnchoringInv
    <3>3. CASE o.answer # NoAnswer
      <4>1. \/ request' = NoRequest /\ result'.status \in {"error", "done"}
            \/ /\ o.answer.status = "ok" /\ DiffReady(o.answer.refs)
               /\ request' = PostComment(o.answer.refs) /\ result' = result
            \/ request' = NoRequest /\ result'.status = "diff_not_ready"
        BY <1>4, <3>3, AnchoringContinues
      <4>2. CASE request' = NoRequest
        BY <1>2, <2>1, <3>1, <4>2 DEF AnchoringInv
      <4>3. CASE /\ o.answer.status = "ok" /\ DiffReady(o.answer.refs)
                 /\ request' = PostComment(o.answer.refs) /\ result' = result
        <5>1. PICK s \in AnchoringServed(request, thing) : o = Outcome(s.thing, stray, s.answer)
          BY <4>3, AnswerIsServed
        <5>2. o.answer.refs = thing.refs
          <6>1. o.answer = s.answer
            BY <5>1 DEF Outcome
          <6>2. s.answer = [status |-> "ok", refs |-> thing.refs]
            BY <1>2, <2>3, RefsServed
          <6>3. QED
            BY <6>1, <6>2
        <5>3. /\ thing.refs \in [base : Nat, head : Nat, start : Nat]
              /\ thing.refs = DiffOf(thing.refs.head) /\ thing.refs.head # 0
          BY <1>2, <4>3, <5>2 DEF Diffs, DiffReady
        <5>4. Anchor(thing.refs)
          BY <1>2, <5>3 DEF Anchor
        <5>5. request' # Get /\ request' # NoRequest /\ request'.position = thing.refs
          <6>1. request' = [name |-> "post_comment", method |-> "POST", position |-> thing.refs]
            BY <4>3, <5>2 DEF PostComment
          <6>2. request'.name = "post_comment"
            BY <6>1
          <6>3. QED
            BY <6>1, <6>2 DEF Get, NoRequest
        <5>6. Anchor(request.position)'
          <6>1. \E t \in past' : request'.position = t.refs
            BY <2>1, <5>4, <5>5 DEF Anchor
          <6>2. QED
            BY <5>4, <5>5, <6>1 DEF Anchor
        <5>7. QED
          BY <1>2, <1>3, <2>1, <3>1, <4>3, <5>5, <5>6 DEF AnchoringInv
      <4>4. QED
        BY <4>1, <4>2, <4>3
    <3>4. QED
      BY <3>2, <3>3
  <2>4. CASE request # Get
    <3>1. Anchor(request.position) /\ request # NoRequest /\ result = NoResult
      BY <1>2, <1>4, <2>4 DEF Running
    <3>2. thing' = thing \/ thing' = Commented(thing, request.position)
      BY <2>1, <2>4, CommentServed
    <3>3. thing' \in Diffs /\ \A p \in thing'.anchors : Anchor(p)
      BY <1>2, <3>1, <3>2, CommentSound
    <3>4. \/ request' = NoRequest /\ result'.status \in {"error", "done"}
          \/ request' = request /\ result' = result
      <4>1. CASE o.answer = NoAnswer
        BY <1>4, <4>1 DEF AskAgain
      <4>2. CASE o.answer # NoAnswer
        BY <1>4, <2>4, <4>2, AnchoringContinues
      <4>3. QED
        BY <4>1, <4>2
    <3>5. \A r \in stray' : r # Get /\ Anchor(r.position)
      BY <1>2, <2>1, <2>4, <3>1
    <3>6. QED
      BY <1>3, <2>1, <2>2, <2>4, <3>1, <3>3, <3>4, <3>5 DEF AnchoringInv
  <2>5. QED
    BY <2>3, <2>4
<1>5. ASSUME NEW r \in stray, CarriedOutLate(r, AnchoringServed(r, thing))
      PROVE  AnchoringInv'
  <2>1. /\ stray' \subseteq stray /\ past' = past \cup {thing'}
        /\ \E s \in AnchoringServed(r, thing) : thing' = s.thing
        /\ UNCHANGED <<call, request, result>>
    BY <1>5 DEF CarriedOutLate, Remember
  <2>2. \A p : Anchor(p) => Anchor(p)'
    BY <2>1 DEF Anchor
  <2>3. r # Get /\ Anchor(r.position) /\ stray # {}
    BY <1>2, <1>5
  <2>4. thing' = Commented(thing, r.position)
    BY <2>1, <2>3, CommentServed
  <2>5. thing' \in Diffs /\ \A p \in thing'.anchors : Anchor(p)
    BY <1>2, <2>3, <2>4, CommentSound
  <2>6. request # Get /\ result.status # "diff_not_ready"
    BY <1>2, <2>3 DEF Get, NoRequest
  <2>7. QED
    BY <1>2, <2>1, <2>2, <2>5, <2>6 DEF AnchoringInv
<1>6. ASSUME NEW t \in DiffChanges, SomebodyChanges(t)
      PROVE  AnchoringInv'
  <2>1. /\ thing' = t /\ past' = past \cup {t}
        /\ UNCHANGED <<call, request, stray, result>>
    BY <1>6 DEF SomebodyChanges
  <2>2. \A p : Anchor(p) => Anchor(p)'
    BY <2>1 DEF Anchor
  <2>3. t \in Diffs /\ t.anchors = thing.anchors
    BY <1>2, DiffChangesSound
  <2>4. QED
    BY <1>2, <2>1, <2>2, <2>3 DEF AnchoringInv
<1>7. QED
  BY <1>4, <1>5, <1>6 DEF AnchoringStep

LEMMA AnchoringCancelled ==
  ASSUME AnchoringInv, Cancelled
  PROVE  AnchoringInv'
<1> SUFFICES ASSUME call.tool \in AnchoringTools PROVE AnchoringInv'
  BY CancelledDoes DEF AnchoringInv
<1>1. /\ request' = NoRequest /\ result'.status = "cancelled"
      /\ stray' = stray \/ (request # Get /\ stray' = stray \cup {request})
      /\ UNCHANGED <<call, thing, past>> /\ request # NoRequest
  BY CancelledDoes DEF Cancelled, Running
<1>2. \A p : Anchor(p) => Anchor(p)'
  BY <1>1 DEF Anchor
<1>3. QED
  BY <1>1, <1>2 DEF AnchoringInv

LEMMA AnchoredWhole == AnchoringInv => AnchorsAreWhole
  BY DEF AnchoringInv, AnchorsAreWhole, Anchor

-----------------------------------------------------------------------------
(* update_merge_request, its draft marker.                                  *)

Titles == [markers : Nat, text : Nat, by : {"other", "call"}]

\* Draft, or ready, as the call asks.
Marked(t) == (t.markers > 0) = call.draft

SingleMarkers == \A t \in past : t.by = "call" \/ t.markers <= 1

\* A title the call writes.
Written(t) ==
  /\ t \in Titles /\ t.by = "call" /\ t.text >= 1
  /\ call.passes => t.text = PassedTitle.text
  /\ SingleMarkers => Marked(t)

TitleInv ==
  call.tool = "update_merge_request" =>
    /\ call.draft \in BOOLEAN
    /\ before.text = 1 /\ changes \in Nat
    /\ \/ request = NoRequest
       \/ /\ request = Get /\ ~call.passes /\ stray = {}
          /\ \A t \in past : t.by = "other"
       \/ request # Get /\ Written(request.title)
    /\ \A r \in stray : r # Get /\ Written(r.title)
    /\ Running => result = NoResult
    /\ thing \in Titles /\ thing.text >= 1 /\ thing \in past
    /\ \A t \in past : t.text >= 1
    /\ result.status = "done" => \E t \in past : Written(t)

LEMMA TitleParts ==
  ASSUME NEW n \in Nat, NEW x \in Nat, NEW by \in {"other", "call"}
  PROVE  /\ Title(n, x, by) \in Titles
         /\ Title(n, x, by).markers = n /\ Title(n, x, by).text = x /\ Title(n, x, by).by = by
  BY DEF Title, Titles

LEMMA PutTitleParts ==
  ASSUME NEW t
  PROVE  /\ PutTitle(t) # Get /\ PutTitle(t) # NoRequest
         /\ PutTitle(t).title = t /\ PutTitle(t).method = "PUT"
  BY DEF PutTitle, Get, NoRequest

\* _with_draft_marker leaves a title with at most one marker as the call asks.
LEMMA MarkerSound ==
  ASSUME NEW t \in Titles, NEW draft \in BOOLEAN
  PROVE  /\ WithDraftMarker(t, draft) \in Titles
         /\ WithDraftMarker(t, draft).by = "call"
         /\ WithDraftMarker(t, draft).text = t.text
         /\ t.markers <= 1 => (WithDraftMarker(t, draft).markers > 0) = draft
<1> DEFINE n == (IF t.markers > 0 THEN t.markers - 1 ELSE 0) + (IF draft THEN 1 ELSE 0)
<1>1. t.markers \in Nat /\ t.text \in Nat
  BY DEF Titles
<1>2. n \in Nat /\ (draft => n > 0) /\ (t.markers <= 1 /\ ~draft => ~(n > 0))
  BY <1>1
<1>3. WithDraftMarker(t, draft) = Title(n, t.text, "call")
  BY DEF WithDraftMarker
<1> HIDE DEF n
<1>4. /\ WithDraftMarker(t, draft) \in Titles
      /\ WithDraftMarker(t, draft).by = "call"
      /\ WithDraftMarker(t, draft).text = t.text
      /\ WithDraftMarker(t, draft).markers = n
  BY <1>1, <1>2, <1>3, TitleParts
<1>5. t.markers <= 1 => (n > 0) = draft
  BY <1>2
<1>6. QED
  BY <1>4, <1>5

\* More titles seen, and what the call writes is as it should be.
LEMMA WrittenStays ==
  ASSUME call' = call, past \subseteq past', NEW t, Written(t)
  PROVE  /\ t \in Titles /\ t.by = "call" /\ t.text >= 1
         /\ call'.passes => t.text = PassedTitle.text
         /\ SingleMarkers' => (t.markers > 0) = call'.draft
<1>1. SingleMarkers' => SingleMarkers
  BY DEF SingleMarkers
<1>2. QED
  BY <1>1 DEF Written, Marked

LEMMA TitleStarts ==
  ASSUME NoCallYet, StartTitle
  PROVE  TitleInv'
<1> PICK c \in TitleCalls : \E t \in TitlesAtStart : Start(c, t, FirstTitleRequest(c))
  BY DEF StartTitle
<1>1. PICK t \in TitlesAtStart : Start(c, t, FirstTitleRequest(c))
  OBVIOUS
<1>2. /\ call' = c /\ thing' = t /\ past' = {t} /\ before' = t /\ result' = NoResult
      /\ request' = FirstTitleRequest(c) /\ stray' = {} /\ changes' = 0
  BY <1>1 DEF Start, Ask, NoCallYet
<1>3. t \in Titles /\ t.text = 1 /\ t.by = "other"
  <2>1. PICK n \in 0..2 : t = Title(n, 1, "other")
    BY DEF TitlesAtStart
  <2>2. n \in Nat /\ 1 \in Nat
    OBVIOUS
  <2>3. QED
    BY <2>1, <2>2, TitleParts
<1>4. c.draft \in BOOLEAN /\ c.passes \in BOOLEAN
  BY DEF TitleCalls
<1>5. NoResult.status # "done"
  BY DEF NoResult
<1>6. CASE ~c.passes
  <2>1. request' = Get
    BY <1>2, <1>6 DEF FirstTitleRequest
  <2>2. QED
    BY <1>2, <1>3, <1>4, <1>5, <1>6, <2>1 DEF TitleInv, Running
<1>7. CASE c.passes
  <2> DEFINE w == WithDraftMarker(PassedTitle, c.draft)
  <2>1. PassedTitle \in Titles /\ PassedTitle.markers = 0 /\ PassedTitle.text >= 1
    <3>1. Changes + 2 \in Nat /\ Changes + 2 >= 1
      OBVIOUS
    <3>2. QED
      BY <3>1, TitleParts DEF PassedTitle
  <2>2. /\ w \in Titles /\ w.by = "call" /\ w.text = PassedTitle.text
        /\ (w.markers > 0) = c.draft
    BY <1>4, <2>1, MarkerSound
  <2>3. request' = PutTitle(w)
    BY <1>2, <1>7 DEF FirstTitleRequest
  <2>4. request' # Get /\ request'.title = w
    BY <2>3, PutTitleParts
  <2>5. Written(request.title)'
    BY <1>2, <2>1, <2>2, <2>4 DEF Written, Marked
  <2>6. QED
    BY <1>2, <1>3, <1>4, <1>5, <2>4, <2>5 DEF TitleInv
<1>8. QED
  BY <1>6, <1>7

LEMMA TitleServedSound ==
  ASSUME NEW t, NEW r, NEW s \in TitleServed(r, t)
  PROVE  /\ r = Get => s.thing = t /\ s.answer = [status |-> "ok", title |-> t]
         /\ r # Get => s.thing = r.title
  BY DEF TitleServed

LEMMA TitlePutServed ==
  ASSUME NEW t, NEW r, r # Get, NEW s \in TitleServed(r, t)
  PROVE  s.thing = r.title
<1>1. TitleServed(r, t) = {[thing |-> r.title, answer |-> Answer("ok")]}
  BY Zenon DEF TitleServed
<1>2. QED
  BY <1>1

LEMMA TitleGoesOn ==
  ASSUME NEW a, TitleContinue(a)
  PROVE  \/ request' = NoRequest /\ a.status # "ok" /\ result'.status = "error"
         \/ request' = NoRequest /\ a.status = "ok" /\ request # Get
         \/ /\ request = Get /\ a.status = "ok" /\ result' = result
            /\ request' = PutTitle(WithDraftMarker(a.title, call.draft))
<1>1. CASE a.status # "ok"
  BY <1>1 DEF TitleContinue, Raise, Return
<1>2. CASE a.status = "ok" /\ request # Get
  BY <1>2 DEF TitleContinue, Done, Return
<1>3. CASE a.status = "ok" /\ request = Get
  BY <1>3 DEF TitleContinue, Ask
<1>4. QED
  BY <1>1, <1>2, <1>3

LEMMA TitleStepKeeps ==
  ASSUME TitleInv, TitleStep
  PROVE  TitleInv'
<1>1. call.tool = "update_merge_request"
  BY DEF TitleStep
<1>2. /\ call.draft \in BOOLEAN
      /\ before.text = 1 /\ changes \in Nat
      /\ \/ request = NoRequest
         \/ /\ request = Get /\ ~call.passes /\ stray = {}
            /\ \A t \in past : t.by = "other"
         \/ request # Get /\ Written(request.title)
      /\ \A r \in stray : r # Get /\ Written(r.title)
      /\ Running => result = NoResult
      /\ thing \in Titles /\ thing.text >= 1 /\ thing \in past
      /\ \A t \in past : t.text >= 1
      /\ result.status = "done" => \E t \in past : Written(t)
  BY <1>1 DEF TitleInv
<1>3. NoResult.status # "done" /\ NoRequest # Get
  BY DEF NoResult, NoRequest, Get
<1>4. ASSUME call' = call, past' = past \cup {thing'} PROVE \A t : Written(t) => Written(t)'
  <2>1. SUFFICES ASSUME NEW t, Written(t) PROVE Written(t)'
    OBVIOUS
  <2>2. past \subseteq past'
    BY <1>4
  <2>3. QED
    BY <1>4, <2>1, <2>2, WrittenStays DEF Written, Marked
<1>5. ASSUME NEW o \in Outcomes(TitleServed(request, thing)), Running, Deliver(o),
             IF o.answer = NoAnswer THEN AskAgain ELSE TitleContinue(o.answer)
      PROVE  TitleInv'
  <2>1. /\ thing' = thing \/ \E s \in TitleServed(request, thing) : thing' = s.thing
        /\ stray' = stray \/ (request # Get /\ stray' = stray \cup {request})
        /\ past' = past \cup {thing'} /\ UNCHANGED <<call, changes, before>>
    BY <1>5, DeliverDoes
  <2>2. \A t : Written(t) => Written(t)'
    BY <1>4, <2>1
  <2>3. result = NoResult /\ request # NoRequest
    BY <1>2, <1>5 DEF Running
  <2>4. CASE request = Get
    <3>1. thing' = thing /\ stray' = {} /\ past' = past
      <4>1. stray = {}
        BY <1>2, <1>3, <2>4
      <4>2. \A s \in TitleServed(request, thing) : s.thing = thing
        BY <2>4, TitleServedSound
      <4>3. QED
        BY <1>2, <2>1, <2>4, <4>1, <4>2
    <3>2. /\ ~call.passes /\ \A t \in past : t.by = "other"
      BY <1>2, <1>3, <2>4
    <3>3. CASE o.answer = NoAnswer
      <4>1. request' = request /\ result' = result
        BY <1>5, <3>3 DEF AskAgain
      <4>2. QED
        BY <1>2, <1>3, <2>1, <2>3, <2>4, <3>1, <3>2, <4>1 DEF TitleInv, Running
    <3>4. CASE o.answer # NoAnswer
      <4>1. CASE request' = NoRequest /\ result'.status = "error"
        BY <1>2, <2>1, <3>1, <4>1 DEF TitleInv, Running
      <4>2. CASE /\ o.answer.status = "ok" /\ result' = result
                 /\ request' = PutTitle(WithDraftMarker(o.answer.title, call.draft))
        <5>1. PICK s \in TitleServed(request, thing) : o = Outcome(s.thing, stray, s.answer)
          BY <4>2, AnswerIsServed
        <5>2. o.answer = [status |-> "ok", title |-> thing]
          <6>1. o.answer = s.answer
            BY <5>1 DEF Outcome
          <6>2. QED
            BY <2>4, <6>1, TitleServedSound
        <5>3. request' = PutTitle(WithDraftMarker(thing, call.draft))
          BY <4>2, <5>2
        <5>4. request' # Get /\ request'.title = WithDraftMarker(thing, call.draft)
          BY <5>3, PutTitleParts
        <5>5. SingleMarkers => thing.markers <= 1
          BY <1>2, <3>2 DEF SingleMarkers
        <5>6. Written(WithDraftMarker(thing, call.draft))
          BY <1>2, <3>2, <5>5, MarkerSound DEF Written, Marked
        <5>7. Written(request.title)'
          BY <2>1, <3>1, <5>4, <5>6 DEF Written, Marked, SingleMarkers
        <5>8. QED
          BY <1>2, <1>3, <2>1, <2>3, <3>1, <4>2, <5>4, <5>7 DEF TitleInv
      <4>3. QED
        BY <1>5, <2>4, <3>4, <4>1, <4>2, TitleGoesOn
    <3>5. QED
      BY <3>3, <3>4
  <2>5. CASE request # Get
    <3>1. Written(request.title)
      BY <1>2, <2>3, <2>5
    <3>2. thing' = thing \/ thing' = request.title
      BY <2>1, <2>5, TitleServedSound
    <3>3. /\ thing' \in Titles /\ thing'.text >= 1 /\ thing' \in past'
          /\ \A t \in past' : t.text >= 1
      BY <1>2, <2>1, <3>1, <3>2 DEF Written
    <3>4. \A r \in stray' : r # Get /\ Written(r.title)'
      BY <1>2, <2>1, <2>2, <2>5, <3>1
    <3>5. CASE o.answer = NoAnswer
      <4>1. request' = request /\ result' = result
        BY <1>5, <3>5 DEF AskAgain
      <4>2. Written(request.title)'
        BY <2>2, <3>1, <4>1 DEF Written, Marked
      <4>3. QED
        BY <1>2, <1>3, <2>1, <2>3, <2>5, <3>3, <3>4, <4>1, <4>2 DEF TitleInv
    <3>6. CASE o.answer # NoAnswer
      <4>1. CASE request' = NoRequest /\ result'.status = "error"
        BY <1>2, <2>1, <3>3, <3>4, <4>1 DEF TitleInv, Running
      <4>2. CASE request' = NoRequest /\ o.answer.status = "ok"
        <5>1. PICK s \in TitleServed(request, thing) : o = Outcome(s.thing, stray, s.answer)
          BY <4>2, AnswerIsServed
        <5>2. thing' = request.title
          <6>1. thing' = o.thing /\ o.thing = s.thing
            <7>1. thing' = o.thing
              BY <1>5 DEF Deliver
            <7>2. o.thing = s.thing
              BY <5>1 DEF Outcome
            <7>3. QED
              BY <7>1, <7>2
          <6>2. s.thing = request.title
            BY <2>5, TitlePutServed
          <6>3. QED
            BY <6>1, <6>2
        <5>3. \E t \in past' : Written(t)'
          BY <2>1, <2>2, <3>1, <5>2
        <5>4. QED
          BY <1>2, <2>1, <3>3, <3>4, <4>2, <5>3 DEF TitleInv, Running
      <4>3. QED
        BY <1>5, <2>5, <3>6, <4>1, <4>2, TitleGoesOn
    <3>7. QED
      BY <3>5, <3>6
  <2>6. QED
    BY <2>4, <2>5
<1>6. ASSUME NEW r \in stray, CarriedOutLate(r, TitleServed(r, thing))
      PROVE  TitleInv'
  <2>1. /\ stray' \subseteq stray /\ past' = past \cup {thing'}
        /\ \E s \in TitleServed(r, thing) : thing' = s.thing
        /\ UNCHANGED <<call, request, result, changes, before>>
    BY <1>6 DEF CarriedOutLate, Remember
  <2>2. \A t : Written(t) => Written(t)'
    BY <1>4, <2>1
  <2>3. thing' = r.title /\ Written(r.title)
    <3>1. r # Get /\ Written(r.title)
      BY <1>2, <1>6
    <3>2. \A s \in TitleServed(r, thing) : s.thing = r.title
      BY <3>1, TitlePutServed
    <3>3. QED
      BY <2>1, <3>1, <3>2
  <2>4. /\ thing' \in Titles /\ thing'.text >= 1 /\ thing' \in past'
        /\ \A t \in past' : t.text >= 1
    BY <1>2, <2>1, <2>3 DEF Written
  <2>5. \/ request' = NoRequest
        \/ request' # Get /\ Written(request.title)'
    <3>1. request # Get
      BY <1>2, <1>3
    <3>2. request = NoRequest \/ Written(request.title)
      BY <1>2, <3>1
    <3>3. Written(request.title) => Written(request.title)'
      BY <2>1, <2>2 DEF Written, Marked
    <3>4. QED
      BY <2>1, <3>1, <3>2, <3>3
  <2>6. QED
    BY <1>2, <2>1, <2>2, <2>4, <2>5 DEF TitleInv, Running
<1>7. ASSUME NEW n \in 0..1, SomebodyChanges(Title(n, changes + 2, "other"))
      PROVE  TitleInv'
  <2>1. /\ thing' = Title(n, changes + 2, "other") /\ past' = past \cup {thing'}
        /\ changes' = changes + 1
        /\ UNCHANGED <<call, request, stray, result, before>>
    BY <1>7 DEF SomebodyChanges
  <2>2. \A t : Written(t) => Written(t)'
    BY <1>4, <2>1
  <2>3. thing' \in Titles /\ thing'.text >= 1 /\ thing'.by = "other"
    <3>1. n \in Nat /\ changes + 2 \in Nat /\ changes + 2 >= 1
      BY <1>2
    <3>2. QED
      BY <2>1, <3>1, TitleParts
  <2>4. thing' \in past' /\ \A t \in past' : t.text >= 1
    BY <1>2, <2>1, <2>3
  <2>5. request # Get /\ Written(request.title) => Written(request.title)'
    BY <2>1, <2>2 DEF Written, Marked
  <2>6. \/ request' = NoRequest
        \/ /\ request' = Get /\ ~call'.passes /\ stray' = {}
           /\ \A t \in past' : t.by = "other"
        \/ request' # Get /\ Written(request.title)'
    BY <1>2, <2>1, <2>3, <2>5
  <2>7. changes' \in Nat
    BY <1>2, <2>1
  <2>8. QED
    BY <1>2, <2>1, <2>2, <2>3, <2>4, <2>6, <2>7 DEF TitleInv, Running
<1>8. QED
  BY <1>5, <1>6, <1>7 DEF TitleStep

LEMMA TitleCancelled ==
  ASSUME TitleInv, Cancelled
  PROVE  TitleInv'
<1> SUFFICES ASSUME call.tool = "update_merge_request" PROVE TitleInv'
  BY CancelledDoes DEF TitleInv
<1>1. /\ request' = NoRequest /\ result'.status = "cancelled"
      /\ stray' = stray \/ (request # Get /\ stray' = stray \cup {request})
      /\ UNCHANGED <<call, thing, past, changes, before>> /\ request # NoRequest
  BY CancelledDoes DEF Cancelled, Running
<1>2. \A t : Written(t) => Written(t)'
  BY <1>1 DEF Written, Marked, SingleMarkers
<1>3. QED
  BY <1>1, <1>2 DEF TitleInv, Running

LEMMA TitledAsAsked == TitleInv => TitleAsAsked
<1> SUFFICES ASSUME TitleInv, call.tool = "update_merge_request" PROVE TitleAsAsked
  BY DEF TitleAsAsked
<1>1. \A t \in past : t.text >= before.text
  BY DEF TitleInv
<1>2. ASSUME result.status = "done", \A t \in past : t.by = "call" \/ t.markers <= 1
      PROVE  \E t \in past : /\ t.by = "call"
                             /\ (t.markers > 0) = call.draft
                             /\ call.passes => t.text = PassedTitle.text
  <2>1. PICK t \in past : Written(t)
    BY <1>2 DEF TitleInv
  <2>2. SingleMarkers
    BY <1>2 DEF SingleMarkers
  <2>3. QED
    BY <2>1, <2>2 DEF Written, Marked
<1>3. QED
  BY <1>1, <1>2 DEF TitleAsAsked

-----------------------------------------------------------------------------
(* update_hook.                                                             *)

HookThings ==
  [url : {"old", "new"}, variables : BOOLEAN, headers : SUBSET {"old", "other", "new"},
   token : {"none", "old", "new"}]

\* The hook sends where the call wants it to.
Arrived(c, t) ==
  /\ t.url = (IF c.url = "new" THEN "new" ELSE "old")
  /\ t.variables <=> c.variables

\* New headers at the new destination only, and former ones at the old.
Placed(c, t) ==
  /\ t \in HookThings
  /\ Arrived(c, t) => (c.url = "new" \/ c.variables => t.headers \subseteq {"new"})
  /\ ~Arrived(c, t) => t.url = "old" /\ ~t.variables /\ "new" \notin t.headers

\* The first request has been carried out.
FirstDone(c, t) ==
  /\ Arrived(c, t)
  /\ c.token => t.token = "new"
  /\ c.headers /\ ~InTwo(c) => "new" \in t.headers

\* The result of an update that succeeded tells of the token and, when it sent no
\* headers, of the headers.
Told(c, t, r) ==
  /\ FirstDone(c, t)
  /\ c.headers => "new" \in t.headers
  /\ c.url # "none" /\ ~c.token /\ t.token = "none" => "token" \in r.notes
  /\ c.url # "none" /\ ~c.headers /\ t.headers = {} => "headers" \in r.notes

HookInv ==
  call.tool = "update_hook" =>
    /\ call \in HookCalls
    /\ \/ request = NoRequest
       \/ kept = Nothing /\ request = FirstHookRequest(call)
       \/ /\ kept # Nothing /\ request = SecondHookRequest
          /\ InTwo(call) /\ FirstDone(call, thing)
    /\ \A r \in stray :
         \/ r = FirstHookRequest(call)
         \/ r = SecondHookRequest /\ InTwo(call) /\ FirstDone(call, thing)
    /\ Running => result = NoResult
    /\ \A t \in past \cup {thing} : Placed(call, t)
    /\ ~call.headers => thing.headers \in {{}, before.headers}
    /\ result.status = "done" => Told(call, thing, result)

LEMMA HookCallParts ==
  ASSUME NEW c \in HookCalls
  PROVE  /\ c.tool = "update_hook" /\ c.url \in {"none", "old", "new"}
         /\ c.variables \in BOOLEAN /\ c.headers \in BOOLEAN /\ c.token \in BOOLEAN
  BY DEF HookCalls

LEMMA PutHookParts ==
  ASSUME NEW u, NEW v, NEW h, NEW k
  PROVE  /\ PutHook(u, v, h, k) # Get /\ PutHook(u, v, h, k) # NoRequest
         /\ PutHook(u, v, h, k).url = u /\ PutHook(u, v, h, k).variables = v
         /\ PutHook(u, v, h, k).headers = h /\ PutHook(u, v, h, k).token = k
  BY DEF PutHook, Get, NoRequest

\* GitLab's side of a PUT.
LEMMA HookServedDoes ==
  ASSUME NEW t \in HookThings, NEW u \in {"none", "old", "new"}, NEW v \in BOOLEAN,
         NEW h \in BOOLEAN, NEW k \in BOOLEAN, NEW s \in HookServed(PutHook(u, v, h, k), t)
  PROVE  /\ s.thing \in HookThings
         /\ s.answer.status = "ok" /\ s.answer.hook = s.thing
         /\ s.thing.url = IF u = "none" THEN t.url ELSE u
         /\ s.thing.variables <=> t.variables \/ v
         /\ (s.thing.url = t.url /\ (v => t.variables))
              => /\ s.thing.headers = (IF h THEN WithNamedHeader(t.headers) ELSE t.headers)
                 /\ s.thing.token = (IF k THEN "new" ELSE t.token)
         /\ ~(s.thing.url = t.url /\ (v => t.variables))
              => s.thing.headers = {} /\ (k => s.thing.token = "new")
<1> DEFINE url == IF u = "none" THEN t.url ELSE u
           variables == t.variables \/ v
           moved == url # t.url \/ variables # t.variables
           headers == IF moved THEN {} ELSE IF h THEN WithNamedHeader(t.headers) ELSE t.headers
           token == IF k THEN "new" ELSE IF moved THEN "none" ELSE t.token
           hook == [url |-> url, variables |-> variables, headers |-> headers, token |-> token]
<1>1. s = [thing |-> hook, answer |-> [status |-> "ok", hook |-> hook]]
  BY PutHookParts DEF HookServed
<1>2. /\ t.url \in {"old", "new"} /\ t.variables \in BOOLEAN
      /\ t.headers \subseteq {"old", "other", "new"} /\ t.token \in {"none", "old", "new"}
  BY DEF HookThings
<1>3. url \in {"old", "new"} /\ variables \in BOOLEAN
  BY <1>2
<1>4. moved <=> ~(url = t.url /\ (v => t.variables))
  <2>1. variables # t.variables <=> ~(v => t.variables)
    BY <1>2
  <2>2. QED
    BY <2>1
<1> HIDE DEF url, variables, moved
<1>5. headers \subseteq {"old", "other", "new"} /\ token \in {"none", "old", "new"}
  BY <1>2 DEF WithNamedHeader
<1>6. /\ s.thing.url = url /\ s.thing.variables = variables
      /\ s.thing.headers = headers /\ s.thing.token = token
      /\ s.answer.status = "ok" /\ s.answer.hook = s.thing
  BY <1>1
<1>7. s.thing \in HookThings
  BY <1>1, <1>3, <1>5 DEF HookThings
<1>8. s.thing.variables <=> t.variables \/ v
  BY <1>6 DEF variables
<1>9. s.thing.url = IF u = "none" THEN t.url ELSE u
  BY <1>6 DEF url
<1>10. QED
  BY <1>4, <1>6, <1>7, <1>8, <1>9

\* The first request: it moves the hook once, and is idempotent after that.
LEMMA FirstServed ==
  ASSUME NEW c \in HookCalls, NEW t, Placed(c, t), NEW s \in HookServed(FirstHookRequest(c), t)
  PROVE  /\ s.answer.status = "ok" /\ s.answer.hook = s.thing
         /\ Placed(c, s.thing) /\ FirstDone(c, s.thing)
         /\ FirstDone(c, t) => /\ s.thing.headers = t.headers \/ "new" \in s.thing.headers
                               /\ s.thing.token = t.token
         /\ ~c.headers => s.thing.headers \in {{}, t.headers}
<1> DEFINE h == c.headers /\ ~InTwo(c)
<1>1. /\ c.url \in {"none", "old", "new"} /\ c.variables \in BOOLEAN
      /\ c.token \in BOOLEAN /\ h \in BOOLEAN /\ t \in HookThings
  BY HookCallParts DEF Placed, InTwo
<1>2. h => c.url = "none" /\ ~c.variables
  BY <1>1 DEF InTwo
<1>3. s \in HookServed(PutHook(c.url, c.variables, h, c.token), t)
  BY DEF FirstHookRequest
<1> HIDE DEF h
<1>4. /\ s.thing \in HookThings
      /\ s.answer.status = "ok" /\ s.answer.hook = s.thing
      /\ s.thing.url = IF c.url = "none" THEN t.url ELSE c.url
      /\ s.thing.variables <=> t.variables \/ c.variables
      /\ (s.thing.url = t.url /\ (c.variables => t.variables))
           => /\ s.thing.headers = (IF h THEN WithNamedHeader(t.headers) ELSE t.headers)
              /\ s.thing.token = (IF c.token THEN "new" ELSE t.token)
      /\ ~(s.thing.url = t.url /\ (c.variables => t.variables))
           => s.thing.headers = {} /\ (c.token => s.thing.token = "new")
  BY <1>1, <1>3, HookServedDoes
<1>5. /\ Arrived(c, t) => (c.url = "new" \/ c.variables => t.headers \subseteq {"new"})
      /\ ~Arrived(c, t) => t.url = "old" /\ ~t.variables /\ "new" \notin t.headers
  BY DEF Placed
<1>6. Arrived(c, s.thing)
  BY <1>1, <1>4, <1>5 DEF Arrived
<1>7. Arrived(c, t) <=> s.thing.url = t.url /\ (c.variables => t.variables)
  BY <1>1, <1>4, <1>5, <1>6 DEF Arrived
<1>8. /\ Arrived(c, t) => /\ s.thing.headers = (IF h THEN WithNamedHeader(t.headers) ELSE t.headers)
                          /\ s.thing.token = (IF c.token THEN "new" ELSE t.token)
      /\ ~Arrived(c, t) => s.thing.headers = {} /\ (c.token => s.thing.token = "new")
  BY <1>4, <1>7
<1>9. ~Arrived(c, t) => c.url = "new" \/ c.variables
  BY <1>1, <1>5 DEF Arrived
<1>10. Placed(c, s.thing)
  BY <1>2, <1>4, <1>5, <1>6, <1>8 DEF Placed, WithNamedHeader
<1>11. h => "new" \in s.thing.headers
  BY <1>2, <1>8, <1>9 DEF WithNamedHeader
<1>12. c.token => s.thing.token = "new"
  BY <1>8
<1>13. FirstDone(c, s.thing)
  BY <1>6, <1>11, <1>12 DEF FirstDone, h
<1>14. FirstDone(c, t) => /\ s.thing.headers = t.headers \/ "new" \in s.thing.headers
                          /\ s.thing.token = t.token
  BY <1>8, <1>11 DEF FirstDone
<1>15. ~c.headers => s.thing.headers \in {{}, t.headers}
  BY <1>8 DEF h
<1>16. QED
  BY <1>4, <1>10, <1>13, <1>14, <1>15

\* The second request sets the headers and nothing else.
LEMMA SecondServed ==
  ASSUME NEW c \in HookCalls, NEW t, Placed(c, t), FirstDone(c, t), InTwo(c),
         NEW s \in HookServed(SecondHookRequest, t)
  PROVE  /\ s.answer.status = "ok" /\ s.answer.hook = s.thing
         /\ Placed(c, s.thing) /\ FirstDone(c, s.thing)
         /\ "new" \in s.thing.headers /\ s.thing.token = t.token
         /\ c.headers
<1>0. PICK u, v, h, k : /\ s \in HookServed(PutHook(u, v, h, k), t)
                        /\ u = "none" /\ v = FALSE /\ h = TRUE /\ k = FALSE
  BY DEF SecondHookRequest
<1>1. /\ s \in HookServed(PutHook(u, v, h, k), t)
      /\ t \in HookThings
      /\ u \in {"none", "old", "new"} /\ v \in BOOLEAN /\ h \in BOOLEAN /\ k \in BOOLEAN
  BY <1>0 DEF Placed
<1>2. /\ s.thing \in HookThings
      /\ s.answer.status = "ok" /\ s.answer.hook = s.thing
      /\ s.thing.url = t.url
      /\ s.thing.variables <=> t.variables
      /\ s.thing.headers = WithNamedHeader(t.headers) /\ s.thing.token = t.token
  <2>1. /\ s.thing \in HookThings
        /\ s.answer.status = "ok" /\ s.answer.hook = s.thing
        /\ s.thing.url = IF u = "none" THEN t.url ELSE u
        /\ s.thing.variables <=> t.variables \/ v
        /\ (s.thing.url = t.url /\ (v => t.variables))
             => /\ s.thing.headers = (IF h THEN WithNamedHeader(t.headers) ELSE t.headers)
                /\ s.thing.token = (IF k THEN "new" ELSE t.token)
    BY <1>1, HookServedDoes
  <2>2. ~v /\ h /\ ~k /\ s.thing.url = t.url
    BY <1>0, <2>1
  <2>3. QED
    BY <2>1, <2>2
<1>3. Arrived(c, s.thing)
  BY <1>2 DEF FirstDone, Arrived
<1>4. c.url = "new" \/ c.variables => s.thing.headers \subseteq {"new"}
  BY <1>2 DEF Placed, FirstDone, WithNamedHeader
<1>5. Placed(c, s.thing)
  BY <1>2, <1>3, <1>4 DEF Placed
<1>6. "new" \in s.thing.headers
  BY <1>2 DEF WithNamedHeader
<1>7. FirstDone(c, s.thing)
  BY <1>2, <1>3, <1>6 DEF FirstDone
<1>8. QED
  BY <1>2, <1>5, <1>6, <1>7 DEF InTwo

\* What the result told stays true.
LEMMA ToldStays ==
  ASSUME NEW c, NEW t, NEW u, NEW r, Told(c, t, r), FirstDone(c, u), u.token = t.token,
         u.headers = t.headers \/ "new" \in u.headers
  PROVE  Told(c, u, r)
<1>1. CASE u.headers = t.headers
  BY <1>1 DEF Told
<1>2. CASE "new" \in u.headers
  BY <1>2 DEF Told
<1>3. QED
  BY <1>1, <1>2

\* The note is made from the hook GitLab answered with.
LEMMA NotesTell ==
  ASSUME NEW c, NEW hook, FirstDone(c, hook), c.headers => "new" \in hook.headers
  PROVE  Told(c, hook, [status |-> "done", notes |-> HookNotes(c, hook)])
  BY DEF Told, HookNotes

LEMMA HookStarts ==
  ASSUME NoCallYet, StartHook
  PROVE  HookInv'
<1>1. PICK c \in HookCalls, t \in HooksAtStart : Start(c, t, FirstHookRequest(c))
  BY DEF StartHook
<1>2. /\ call' = c /\ thing' = t /\ before' = t /\ past' = {t}
      /\ request' = FirstHookRequest(c)
      /\ stray' = {} /\ result' = NoResult /\ kept' = Nothing
  BY <1>1 DEF Start, Ask, NoCallYet
<1>3. t \in HookThings /\ t.url = "old" /\ ~t.variables /\ "new" \notin t.headers
  BY DEF HooksAtStart, HookThings
<1>4. Placed(c, t)
  BY <1>3, HookCallParts DEF Placed, Arrived
<1>5. NoResult.status # "done"
  BY DEF NoResult
<1>6. QED
  BY <1>2, <1>4, <1>5 DEF HookInv

LEMMA HookGoesOn ==
  ASSUME NEW a, HookContinue(a)
  PROVE  \/ request' = NoRequest /\ result'.status = "error" /\ kept' = kept
         \/ /\ a.status = "ok" /\ InTwo(call) /\ kept = Nothing /\ kept' # Nothing
            /\ request' = SecondHookRequest /\ result' = result
         \/ /\ a.status = "ok" /\ ~(InTwo(call) /\ kept = Nothing)
            /\ request' = NoRequest
            /\ result' = [status |-> "done", notes |-> HookNotes(call, a.hook)]
<1>1. [kept |-> "first_put"] # Nothing
  BY DEF Nothing
<1>2. CASE a.status # "ok"
  BY <1>2 DEF HookContinue, Raise, Return
<1>3. CASE a.status = "ok" /\ InTwo(call) /\ kept = Nothing
  BY <1>1, <1>3 DEF HookContinue, Ask
<1>4. CASE a.status = "ok" /\ ~(InTwo(call) /\ kept = Nothing)
  BY <1>4 DEF HookContinue, Return
<1>5. QED
  BY <1>2, <1>3, <1>4

LEMMA HookStepKeeps ==
  ASSUME HookInv, HookStep
  PROVE  HookInv'
<1>1. call.tool = "update_hook"
  BY DEF HookStep
<1>2. /\ call \in HookCalls
      /\ \/ request = NoRequest
         \/ kept = Nothing /\ request = FirstHookRequest(call)
         \/ /\ kept # Nothing /\ request = SecondHookRequest
            /\ InTwo(call) /\ FirstDone(call, thing)
      /\ \A r \in stray :
           \/ r = FirstHookRequest(call)
           \/ r = SecondHookRequest /\ InTwo(call) /\ FirstDone(call, thing)
      /\ Running => result = NoResult
      /\ \A t \in past \cup {thing} : Placed(call, t)
      /\ ~call.headers => thing.headers \in {{}, before.headers}
      /\ result.status = "done" => Told(call, thing, result)
  BY <1>1 DEF HookInv
<1>3. NoResult.status # "done"
  BY DEF NoResult
\* What either request makes of the hook.
<1>4. ASSUME NEW r, NEW s \in HookServed(r, thing),
             \/ r = FirstHookRequest(call)
             \/ r = SecondHookRequest /\ InTwo(call) /\ FirstDone(call, thing)
      PROVE  /\ s.answer.status = "ok" /\ s.answer.hook = s.thing
             /\ Placed(call, s.thing) /\ FirstDone(call, s.thing)
             /\ FirstDone(call, thing) => /\ s.thing.token = thing.token
                                          /\ \/ s.thing.headers = thing.headers
                                             \/ "new" \in s.thing.headers
             /\ ~call.headers => s.thing.headers \in {{}, thing.headers}
             /\ r = SecondHookRequest /\ InTwo(call) /\ FirstDone(call, thing)
                  => "new" \in s.thing.headers
  <2>1. Placed(call, thing)
    BY <1>2
  <2>2. CASE r = FirstHookRequest(call) /\ ~(r = SecondHookRequest /\ InTwo(call) /\ FirstDone(call, thing))
    BY <1>2, <1>4, <2>1, <2>2, FirstServed
  <2>3. CASE r = SecondHookRequest /\ InTwo(call) /\ FirstDone(call, thing)
    BY <1>2, <1>4, <2>1, <2>3, SecondServed
  <2>4. QED
    BY <1>4, <2>2, <2>3
<1>5. ASSUME NEW o \in Outcomes(HookServed(request, thing)), Running, Deliver(o),
             IF o.answer = NoAnswer THEN AskAgain ELSE HookContinue(o.answer)
      PROVE  HookInv'
  <2>1. /\ thing' = thing \/ \E s \in HookServed(request, thing) : thing' = s.thing
        /\ stray' = stray \/ stray' = stray \cup {request}
        /\ past' = past \cup {thing'} /\ call' = call /\ before' = before
    BY <1>5, DeliverDoes
  <2>2. /\ result = NoResult
        /\ \/ kept = Nothing /\ request = FirstHookRequest(call)
           \/ /\ kept # Nothing /\ request = SecondHookRequest
              /\ InTwo(call) /\ FirstDone(call, thing)
    BY <1>2, <1>5 DEF Running
  <2>3. Placed(call, thing') /\ (FirstDone(call, thing) => FirstDone(call, thing'))
    BY <1>2, <1>4, <2>1, <2>2
  <2>4. /\ \A t \in past' \cup {thing'} : Placed(call, t)
        /\ ~call.headers => thing'.headers \in {{}, before'.headers}
    <3>1. ~call.headers => thing'.headers \in {{}, thing.headers}
      BY <1>4, <2>1, <2>2
    <3>2. QED
      BY <1>2, <2>1, <2>3, <3>1
  <2>5. \A r \in stray' :
           \/ r = FirstHookRequest(call)
           \/ r = SecondHookRequest /\ InTwo(call) /\ FirstDone(call, thing')
    BY <1>2, <2>1, <2>2, <2>3
  <2>6. CASE o.answer = NoAnswer
    <3>1. UNCHANGED <<request, kept, result>>
      BY <1>5, <2>6 DEF AskAgain
    <3>2. QED
      BY <1>2, <1>3, <2>1, <2>2, <2>3, <2>4, <2>5, <3>1 DEF HookInv
  <2>7. CASE request' = NoRequest /\ result'.status = "error"
    BY <1>2, <2>1, <2>4, <2>5, <2>7 DEF HookInv, Running
  <2>8. CASE o.answer.status = "ok" /\ o.answer # NoAnswer
    <3>1. PICK s \in HookServed(request, thing) : o = Outcome(s.thing, stray, s.answer)
      BY <2>8, AnswerIsServed
    <3>2. thing' = s.thing /\ o.answer = s.answer
      BY <1>5, <3>1 DEF Deliver, Outcome
    <3>3. FirstDone(call, thing') /\ o.answer.hook = thing'
      BY <1>4, <2>2, <3>2
    <3>4. CASE /\ InTwo(call) /\ kept = Nothing /\ kept' # Nothing
               /\ request' = SecondHookRequest /\ result' = result
      BY <1>2, <1>3, <2>1, <2>2, <2>4, <2>5, <3>3, <3>4 DEF HookInv
    <3>5. CASE /\ ~(InTwo(call) /\ kept = Nothing)
               /\ request' = NoRequest
               /\ result' = [status |-> "done", notes |-> HookNotes(call, o.answer.hook)]
      <4>1. call.headers => "new" \in thing'.headers
        <5>1. CASE InTwo(call)
          BY <1>4, <2>2, <3>2, <3>5, <5>1
        <5>2. CASE ~InTwo(call)
          BY <3>3, <5>2 DEF FirstDone
        <5>3. QED
          BY <5>1, <5>2
      <4>2. Told(call, thing', result')
        BY <3>3, <3>5, <4>1, NotesTell
      <4>3. QED
        BY <1>2, <2>1, <2>4, <2>5, <3>5, <4>2 DEF HookInv, Running
    <3>6. CASE request' = NoRequest /\ result'.status = "error"
      BY <2>7, <3>6
    <3>7. QED
      BY <1>5, <2>8, <3>4, <3>5, <3>6, HookGoesOn
  <2>9. QED
    BY <1>5, <2>6, <2>7, <2>8, HookGoesOn
<1>6. ASSUME NEW r \in stray, CarriedOutLate(r, HookServed(r, thing))
      PROVE  HookInv'
  <2>1. /\ stray' \subseteq stray /\ past' = past \cup {thing'}
        /\ \E s \in HookServed(r, thing) : thing' = s.thing
        /\ UNCHANGED <<call, request, kept, result, before>>
    BY <1>6 DEF CarriedOutLate, Remember
  <2>2. \/ r = FirstHookRequest(call)
        \/ r = SecondHookRequest /\ InTwo(call) /\ FirstDone(call, thing)
    BY <1>2, <1>6
  <2>3. /\ Placed(call, thing') /\ FirstDone(call, thing')
        /\ FirstDone(call, thing) => /\ thing'.token = thing.token
                                     /\ \/ thing'.headers = thing.headers
                                        \/ "new" \in thing'.headers
        /\ ~call.headers => thing'.headers \in {{}, thing.headers}
    BY <1>4, <2>1, <2>2
  <2>4. result.status = "done" => Told(call, thing', result)
    <3>1. Told(call, thing, result) => FirstDone(call, thing)
      BY DEF Told
    <3>2. QED
      BY <1>2, <2>3, <3>1, ToldStays
  <2>5. QED
    BY <1>2, <2>1, <2>3, <2>4 DEF HookInv, Running
<1>7. QED
  BY <1>5, <1>6 DEF HookStep

LEMMA HookCancelled ==
  ASSUME HookInv, Cancelled
  PROVE  HookInv'
<1>1. /\ request' = NoRequest /\ result'.status = "cancelled" /\ request # NoRequest
      /\ stray' = stray \/ (request # Get /\ stray' = stray \cup {request})
      /\ UNCHANGED <<call, kept, thing, before, past>>
  BY CancelledDoes DEF Cancelled, Running
<1>2. QED
  BY <1>1 DEF HookInv, Running

LEMMA HeadersPlaced == HookInv => HeadersFollowUrl
<1> SUFFICES ASSUME HookInv, call.tool = "update_hook", NEW t \in past
             PROVE  LET moved == call.url = "new" \/ call.variables
                        there == (call.url = "new" => t.url = "new")
                                   /\ (call.variables => t.variables)
                    IN  moved => \A h \in t.headers : h = "new" <=> there
  BY DEF HeadersFollowUrl
<1>1. Placed(call, t) /\ call \in HookCalls
  BY DEF HookInv
<1>2. CASE Arrived(call, t)
  BY <1>1, <1>2 DEF Placed, Arrived
<1>3. CASE ~Arrived(call, t)
  BY <1>1, <1>3, HookCallParts DEF Placed, Arrived
<1>4. QED
  BY <1>2, <1>3

LEMMA HookTold == HookInv => HookToldTruly
<1> SUFFICES ASSUME HookInv, call.tool = "update_hook", result.status = "done"
             PROVE  HookToldTruly
  BY DEF HookToldTruly, HookAsAsked, DropIsTold
<1>1. /\ Told(call, thing, result) /\ call \in HookCalls
      /\ ~call.headers => thing.headers \in {{}, before.headers}
  BY DEF HookInv
<1>2. HookAsAsked
  BY <1>1, HookCallParts DEF Told, FirstDone, Arrived, HookAsAsked
<1>3. DropIsTold
  <2>1. thing.token = "none" => ~call.token
    BY <1>1 DEF Told, FirstDone
  <2>2. ~call.headers /\ ~(before.headers \subseteq thing.headers) => thing.headers = {}
    BY <1>1
  <2>3. QED
    BY <1>1, <2>1, <2>2 DEF Told, DropIsTold
<1>4. QED
  BY <1>2, <1>3 DEF HookToldTruly

-----------------------------------------------------------------------------
(* delete_project.                                                          *)

Projects ==
  [retained : BOOLEAN, state : {"there", "marked", "deleting", "gone"}, by : {"other", "call"}]

\* Nothing can bring it back.
Doomed(t) == t.state \in {"deleting", "gone"}

DeletedByCall == \E t \in past : t.by = "call"

NotFound == [status |-> "error", code |-> "not_found"]

\* It is read back after a DELETE that was carried out.
ProjectInv ==
  call.tool = "delete_project" =>
    /\ request \in {NoRequest, DeleteProject, Get}
    /\ stray \subseteq {DeleteProject}
    /\ thing \in Projects /\ thing \in past
    /\ Running => result = NoResult
    /\ request = Get => DeletedByCall
    /\ result.status = "deleted" \/ result = NotFound => Doomed(thing)
    /\ result.status = "marked_for_deletion" => \E t \in past : t.state = "marked"
    /\ result.status \in {"deleted", "marked_for_deletion", "deletion_requested"}
         => DeletedByCall

LEMMA DeleteIs == DeleteProject # Get /\ DeleteProject # NoRequest /\ Get # NoRequest
  BY DEF DeleteProject, Get, NoRequest

LEMMA ProjectServedSound ==
  ASSUME NEW t \in Projects, NEW r \in {DeleteProject, Get}, NEW s \in ProjectServed(r, t)
  PROVE  /\ s.thing \in Projects
         /\ Doomed(t) => Doomed(s.thing)
         /\ s.answer.status = "not_found" => Doomed(t)
         /\ r = DeleteProject /\ s.answer.status = "ok" => s.thing.by = "call"
         /\ r = Get => s.thing = t
         /\ r = Get /\ s.answer.status = "ok" => s.answer.project = t
<1> DEFINE Served(u, a) == [thing |-> u, answer |-> Answer(a)]
           begun == [t EXCEPT !.by = "call", !.state = IF t.retained THEN "marked" ELSE "deleting"]
           read == [thing |-> t, answer |-> [status |-> "ok", project |-> t]]
<1>1. /\ s \in {Served(begun, "ok"), Served(t, "bad_request"), Served(t, "not_found"), read}
      /\ \/ s.answer.status = "not_found" /\ t.state \in {"deleting", "gone"}
         \/ s = Served(begun, "ok") /\ r = DeleteProject /\ t.state = "there"
         \/ s.answer.status = "bad_request" /\ r = DeleteProject /\ t.state = "marked"
         \/ "project" \in DOMAIN s.answer /\ r = Get /\ t.state # "gone"
  BY DEF ProjectServed
<1>2. begun \in Projects /\ begun.by = "call"
  BY DEF Projects
<1> HIDE DEF begun
<1>3. CASE s = Served(begun, "ok")
  <2>1. s.answer = [status |-> "ok"] /\ s.thing = begun
    BY <1>3 DEF Answer
  <2>2. r = DeleteProject /\ t.state = "there"
    BY <1>1, <2>1
  <2>3. QED
    BY <1>2, <2>1, <2>2, DeleteIs DEF Doomed
<1>4. CASE s = Served(t, "bad_request")
  <2>1. s.answer = [status |-> "bad_request"] /\ s.thing = t
    BY <1>4 DEF Answer
  <2>2. QED
    BY <2>1
<1>5. CASE s = Served(t, "not_found")
  <2>1. s.answer = [status |-> "not_found"] /\ s.thing = t
    BY <1>5 DEF Answer
  <2>2. t.state \in {"deleting", "gone"}
    <3>1. s # Served(begun, "ok")
      <4>1. Served(begun, "ok").answer.status = "ok"
        BY DEF Answer
      <4>2. QED
        BY <2>1, <4>1
    <3>2. s.answer.status = "not_found" /\ "project" \notin DOMAIN s.answer
      BY <2>1
    <3>3. QED
      BY <1>1, <3>1, <3>2
  <2>3. QED
    BY <2>1, <2>2 DEF Doomed
<1>6. CASE s = read
  <2>1. s.answer = [status |-> "ok", project |-> t] /\ s.thing = t
    BY <1>6
  <2>2. s # Served(begun, "ok")
    <3>1. "project" \in DOMAIN s.answer
      BY <2>1
    <3>2. "project" \notin DOMAIN Served(begun, "ok").answer
      BY DEF Answer
    <3>3. QED
      BY <3>1, <3>2
  <2>3. r = Get
    BY <1>1, <2>1, <2>2
  <2>4. QED
    BY <2>1, <2>3, DeleteIs
<1>7. QED
  BY <1>1, <1>3, <1>4, <1>5, <1>6

LEMMA ProjectChangesSound ==
  ASSUME thing \in Projects, NEW t \in ProjectChanges
  PROVE  t \in Projects /\ (Doomed(thing) => Doomed(t))
<1>1. PICK s : /\ t = [thing EXCEPT !.state = s, !.by = "other"]
               /\ s \in {"there", "marked", "deleting", "gone"}
               /\ Doomed(thing) => s = "gone"
  BY DEF ProjectChanges, Doomed, Projects
<1>2. QED
  BY <1>1 DEF Projects, Doomed

LEMMA ProjectStarts ==
  ASSUME NoCallYet, StartProject
  PROVE  ProjectInv'
<1>1. PICK t \in ProjectsAtStart : Start([tool |-> "delete_project"], t, DeleteProject)
  BY DEF StartProject
<1>2. /\ thing' = t /\ past' = {t} /\ request' = DeleteProject
      /\ stray' = {} /\ result' = NoResult
  BY <1>1 DEF Start, Ask, NoCallYet
<1>3. t \in Projects
  BY DEF ProjectsAtStart, Projects
<1>4. /\ NoResult # NotFound
      /\ NoResult.status \notin {"deleted", "marked_for_deletion", "deletion_requested"}
  BY DEF NoResult, NotFound
<1>5. QED
  BY <1>2, <1>3, <1>4, DeleteIs DEF ProjectInv

\* How the handler goes on.
LEMMA ProjectGoesOn ==
  ASSUME NEW a, ProjectContinue(a)
  PROVE  \/ /\ request = DeleteProject /\ a.status = "ok"
            /\ request' = Get /\ result' = result
         \/ /\ request' = NoRequest /\ result' = [status |-> "error", code |-> a.status]
            /\ request = DeleteProject \/ a.status = "too_large"
         \/ /\ request # DeleteProject /\ request' = NoRequest
            /\ result' = [status |-> DeletionStatus(a)]
<1>1. CASE request = DeleteProject
  BY <1>1 DEF ProjectContinue, Ask, Raise, Return
<1>2. CASE request # DeleteProject
  BY <1>2 DEF ProjectContinue, Raise, Return
<1>3. QED
  BY <1>1, <1>2

LEMMA StatusSays ==
  ASSUME NEW a
  PROVE  /\ DeletionStatus(a) \in {"deleted", "marked_for_deletion", "deletion_requested"}
         /\ DeletionStatus(a) = "deleted" => a.status = "not_found"
         /\ DeletionStatus(a) = "marked_for_deletion"
              => a.status = "ok" /\ a.project.state = "marked"
  BY DEF DeletionStatus

LEMMA ProjectStepKeeps ==
  ASSUME ProjectInv, ProjectStep
  PROVE  ProjectInv'
<1>1. call.tool = "delete_project"
  BY DEF ProjectStep
<1>2. /\ request \in {NoRequest, DeleteProject, Get}
      /\ stray \subseteq {DeleteProject}
      /\ thing \in Projects /\ thing \in past
      /\ Running => result = NoResult
      /\ request = Get => DeletedByCall
      /\ result.status = "deleted" \/ result = NotFound => Doomed(thing)
      /\ result.status = "marked_for_deletion" => \E t \in past : t.state = "marked"
      /\ result.status \in {"deleted", "marked_for_deletion", "deletion_requested"}
           => DeletedByCall
  BY <1>1 DEF ProjectInv
<1>3. /\ NoResult # NotFound
      /\ NoResult.status \notin {"deleted", "marked_for_deletion", "deletion_requested"}
  BY DEF NoResult, NotFound
<1>4. ASSUME past' = past \cup {thing'} PROVE DeletedByCall => DeletedByCall'
  BY <1>4 DEF DeletedByCall
<1>5. ASSUME NEW o \in Outcomes(ProjectServed(request, thing)), Running, Deliver(o),
             IF o.answer = NoAnswer THEN AskAgain ELSE ProjectContinue(o.answer)
      PROVE  ProjectInv'
  <2>1. /\ thing' = thing \/ \E s \in ProjectServed(request, thing) : thing' = s.thing
        /\ stray' = stray \/ (request # Get /\ stray' = stray \cup {request})
        /\ past' = past \cup {thing'} /\ call' = call
    BY <1>5, DeliverDoes
  <2>2. request \in {DeleteProject, Get} /\ result = NoResult
    BY <1>2, <1>5 DEF Running
  <2>3. \A s \in ProjectServed(request, thing) : s.thing \in Projects
    BY <1>2, <2>2, ProjectServedSound
  <2>4. thing' \in Projects /\ thing' \in past'
    BY <1>2, <2>1, <2>3
  <2>5. stray' \subseteq {DeleteProject}
    BY <1>2, <2>1, <2>2
  <2>6. DeletedByCall => DeletedByCall'
    BY <1>4, <2>1
  <2>7. CASE o.answer = NoAnswer
    <3>1. request' = request /\ result' = result
      BY <1>5, <2>7 DEF AskAgain
    <3>2. QED
      BY <1>2, <1>3, <2>1, <2>2, <2>4, <2>5, <2>6, <3>1 DEF ProjectInv
  <2>8. CASE o.answer # NoAnswer
    \* An answer with data is GitLab's.
    <3>1. ASSUME o.answer.status \in {"ok", "not_found"}
          PROVE  \E s \in ProjectServed(request, thing) : thing' = s.thing /\ o.answer = s.answer
      <4>1. PICK s \in ProjectServed(request, thing) : o = Outcome(s.thing, stray, s.answer)
        BY <3>1, AnswerIsServed
      <4>2. thing' = s.thing /\ o.answer = s.answer
        BY <1>5, <4>1 DEF Deliver, Outcome
      <4>3. QED
        BY <4>2
    <3>2. o.answer.status = "not_found" => Doomed(thing')
      BY <1>2, <2>2, <3>1, ProjectServedSound
    <3>3. CASE /\ request = DeleteProject /\ o.answer.status = "ok"
               /\ request' = Get /\ result' = result
      <4>1. thing'.by = "call"
        BY <1>2, <3>1, <3>3, ProjectServedSound
      <4>2. DeletedByCall'
        BY <2>4, <4>1 DEF DeletedByCall
      <4>3. QED
        BY <1>3, <2>1, <2>2, <2>4, <2>5, <3>3, <4>2 DEF ProjectInv
    <3>4. CASE request' = NoRequest /\ result' = [status |-> "error", code |-> o.answer.status]
      <4>1. result'.status = "error" /\ result'.code = o.answer.status
        BY <3>4
      <4>2. result' = NotFound => Doomed(thing')
        <5>1. NotFound.code = "not_found"
          BY DEF NotFound
        <5>2. QED
          BY <3>2, <4>1, <5>1
      <4>3. QED
        BY <2>1, <2>4, <2>5, <3>4, <4>1, <4>2, DeleteIs DEF ProjectInv, Running
    <3>5. CASE /\ request # DeleteProject /\ request' = NoRequest
               /\ result' = [status |-> DeletionStatus(o.answer)]
      <4>1. result'.status = DeletionStatus(o.answer)
        BY <3>5
      <4>2. result' # NotFound
        <5>1. NotFound.status = "error"
          BY DEF NotFound
        <5>2. QED
          BY <4>1, <5>1, StatusSays
      <4>3. DeletedByCall'
        BY <1>2, <2>2, <2>6, <3>5
      <4>4. result'.status = "marked_for_deletion" => \E t \in past' : t.state = "marked"
        <5>1. SUFFICES ASSUME DeletionStatus(o.answer) = "marked_for_deletion"
                       PROVE  \E t \in past' : t.state = "marked"
          BY <4>1
        <5>2. o.answer.status = "ok" /\ o.answer.project.state = "marked"
          BY <5>1, StatusSays
        <5>3. o.answer.project = thing
          BY <1>2, <2>2, <3>1, <3>5, <5>2, ProjectServedSound
        <5>4. QED
          BY <1>2, <2>1, <5>2, <5>3
      <4>5. result'.status = "deleted" => Doomed(thing')
        BY <3>2, <4>1, StatusSays
      <4>6. QED
        BY <2>1, <2>4, <2>5, <3>5, <4>2, <4>3, <4>4, <4>5, DeleteIs DEF ProjectInv, Running
    <3>6. QED
      BY <1>5, <2>8, <3>3, <3>4, <3>5, ProjectGoesOn
  <2>9. QED
    BY <2>7, <2>8
<1>6. ASSUME NEW r \in stray, CarriedOutLate(r, ProjectServed(r, thing))
      PROVE  ProjectInv'
  <2>1. /\ r = DeleteProject /\ stray' \subseteq stray /\ past' = past \cup {thing'}
        /\ \E s \in ProjectServed(r, thing) : thing' = s.thing
        /\ UNCHANGED <<call, request, result>>
    BY <1>2, <1>6 DEF CarriedOutLate, Remember
  <2>2. /\ thing' \in Projects /\ (Doomed(thing) => Doomed(thing'))
        /\ thing' \in past'
    BY <1>2, <2>1, ProjectServedSound
  <2>3. DeletedByCall => DeletedByCall'
    BY <1>4, <2>1
  <2>4. QED
    BY <1>2, <2>1, <2>2, <2>3 DEF ProjectInv, Running
<1>7. ASSUME NEW t \in ProjectChanges, SomebodyChanges(t)
      PROVE  ProjectInv'
  <2>1. /\ thing' = t /\ past' = past \cup {thing'}
        /\ UNCHANGED <<call, request, stray, result>>
    BY <1>7 DEF SomebodyChanges
  <2>2. thing' \in Projects /\ (Doomed(thing) => Doomed(thing'))
    BY <1>2, <2>1, ProjectChangesSound
  <2>3. DeletedByCall => DeletedByCall'
    BY <1>4, <2>1
  <2>4. QED
    BY <1>2, <2>1, <2>2, <2>3 DEF ProjectInv, Running
<1>8. QED
  BY <1>5, <1>6, <1>7 DEF ProjectStep

LEMMA ProjectCancelled ==
  ASSUME ProjectInv, Cancelled
  PROVE  ProjectInv'
<1>1. /\ request' = NoRequest /\ result' = [status |-> "cancelled"] /\ request # NoRequest
      /\ stray' = stray \/ (request # Get /\ stray' = stray \cup {request})
      /\ UNCHANGED <<call, kept, thing, past>>
  BY CancelledDoes DEF Cancelled, Running
<1>2. result'.status = "cancelled" /\ result' # NotFound
  BY <1>1 DEF NotFound
<1>3. QED
  BY <1>1, <1>2, DeleteIs DEF ProjectInv, Running

LEMMA DeletionTold == ProjectInv => DeletionToldTruly
  BY DEF ProjectInv, DeletionToldTruly, Doomed, DeletedByCall, NotFound

-----------------------------------------------------------------------------
(* Listing a tool: the schema merged from any number of actions.            *)

\* Induction over the places of a sequence, as the existence of a least
\* counterexample.
LEMMA NatLeast ==
  ASSUME NEW S \in SUBSET Nat, S # {}
  PROVE  \E n \in S : \A m \in S : n <= m
<1> DEFINE R == OpToRel(<, Nat)
<1>1. \A m, n \in Nat : m < n => <<m, n>> \in R
  BY DEF OpToRel
<1>2. IsWellFoundedOn(R, Nat)
  BY NatLessThanWellFounded
<1> HIDE DEF R
<1>3. PICK n \in S : \A m \in S : ~ (<<m, n>> \in R)
  BY <1>2, WFMin
<1>4. \A m \in S : ~ (m < n)
  BY <1>1, <1>3
<1>5. QED
  BY <1>4

\* Merges is the function its recursive definition describes.
LEMMA MergesExist ==
  ASSUME NEW s, Len(s) \in Nat
  PROVE  \A n \in 0..Len(s) : \E f :
           f = [i \in 0..n |-> IF i = 0 THEN NotDeclared ELSE Merge(f[i - 1], s[i])]
<1> DEFINE Describes(f, n) ==
      f = [i \in 0..n |-> IF i = 0 THEN NotDeclared ELSE Merge(f[i - 1], s[i])]
<1> DEFINE Without == {n \in 0..Len(s) : ~ \E f : Describes(f, n)}
<1> SUFFICES ASSUME Without # {} PROVE FALSE
  OBVIOUS
<1>1. PICK n \in Without : \A m \in Without : n <= m
  BY NatLeast, Without \in SUBSET Nat
<1>2. CASE n = 0
  <2>1. Describes([i \in 0..0 |-> NotDeclared], 0)
    OBVIOUS
  <2>2. QED
    BY <1>2, <2>1
<1>3. CASE n # 0
  <2>1. n - 1 \in 0..Len(s) /\ n \in 1..Len(s) /\ ~(n <= n - 1)
    BY <1>3
  <2>2. PICK f : Describes(f, n - 1)
    <3>1. n - 1 \notin Without
      <4> HIDE DEF Without
      <4>1. QED
        BY <1>1, <2>1
    <3>2. QED
      BY <2>1, <3>1
  <2> DEFINE g == [i \in 0..n |-> IF i = n THEN Merge(f[n - 1], s[n]) ELSE f[i]]
  <2>3. ASSUME NEW i \in 0..n
        PROVE  g[i] = IF i = 0 THEN NotDeclared ELSE Merge(g[i - 1], s[i])
    <3>1. CASE i = n
      BY <2>1, <3>1
    <3>2. CASE i # n
      <4>1. i \in 0..(n - 1) /\ (i # 0 => i - 1 \in 0..(n - 1) /\ i - 1 # n)
        BY <3>2
      <4>2. f[i] = IF i = 0 THEN NotDeclared ELSE Merge(f[i - 1], s[i])
        BY <2>2, <4>1
      <4>3. QED
        BY <3>2, <4>1, <4>2
    <3>3. QED
      BY <3>1, <3>2
  <2>4. Describes(g, n)
    <3> HIDE DEF Merge
    <3>1. QED
      BY <2>3
  <2>5. QED
    BY <1>1, <2>4
<1>4. QED
  BY <1>2, <1>3

LEMMA MergesAre ==
  ASSUME NEW s, Len(s) \in Nat
  PROVE  /\ Merges(s)[0] = NotDeclared
         /\ \A i \in 1..Len(s) : Merges(s)[i] = Merge(Merges(s)[i - 1], s[i])
<1> DEFINE Describes(f) ==
      f = [i \in 0..Len(s) |-> IF i = 0 THEN NotDeclared ELSE Merge(f[i - 1], s[i])]
<1>1. \E f : Describes(f)
  BY MergesExist
<1>2. Describes(Merges(s))
  <2> HIDE DEF Merge
  <2>1. QED
    BY <1>1, Zenon DEF Merges
<1>3. QED
  BY <1>2

LEMMA DeclarationsDiffer ==
  /\ NotDeclared.form = "none" /\ NotDeclared # Conflict
  /\ \A d \in Declarations : /\ d # NotDeclared /\ d # Conflict
                             /\ Shape(d) \in Declarations
<1>1. NotDeclared.form = "none" /\ NotDeclared # Conflict
  BY DEF NotDeclared, Conflict
<1>2. ASSUME NEW d \in Declarations
      PROVE  d # NotDeclared /\ d # Conflict /\ Shape(d) \in Declarations
  BY <1>2 DEF Declarations, NotDeclared, Conflict, Shape
<1>3. QED
  BY <1>1, <1>2

\* What the loop has made of the parameter after i actions: nothing, if none
\* declared it; a conflict, if two declared it differently; and otherwise one of
\* the declarations, "optional" only if they all are.
MergedFrom(s, i, m) ==
  \/ /\ m = NotDeclared
     /\ \A j \in 1..i : s[j] = NotDeclared
  \/ /\ m = Conflict
     /\ \E j, k \in 1..i : /\ s[j] # NotDeclared /\ s[k] # NotDeclared
                           /\ Shape(s[j]) # Shape(s[k])
  \/ /\ m \in Declarations
     /\ \E j \in 1..i : s[j] = m
     /\ \A j \in 1..i : s[j] # NotDeclared =>
          /\ Shape(s[j]) = Shape(m)
          /\ m.form = "optional" => s[j].form = "optional"

LEMMA MergesOnce ==
  ASSUME NEW n \in Nat, NEW s \in [1..n -> Declarations \cup {NotDeclared}],
         NEW i \in 1..n, NEW m, MergedFrom(s, i - 1, m)
  PROVE  MergedFrom(s, i, Merge(m, s[i]))
<1>1. /\ \A j \in 1..(i - 1) : j \in 1..i
      /\ \A j \in 1..i : j \in 1..(i - 1) \/ j = i
      /\ i \in 1..i
  OBVIOUS
<1>2. /\ NotDeclared # Conflict
      /\ \A j \in 1..i : s[j] \in Declarations \/ s[j] = NotDeclared
      /\ \A d \in Declarations : d # NotDeclared /\ d # Conflict
  BY DeclarationsDiffer
<1>3. CASE s[i] = NotDeclared
  <2>1. Merge(m, s[i]) = m
    BY <1>3 DEF Merge
  <2>2. QED
    BY <1>1, <1>3, <2>1 DEF MergedFrom
<1>4. CASE s[i] # NotDeclared /\ m = NotDeclared
  <2>1. Merge(m, s[i]) = s[i]
    BY <1>4 DEF Merge
  <2>2. \A j \in 1..(i - 1) : s[j] = NotDeclared
    BY <1>2, <1>4 DEF MergedFrom
  <2>3. QED
    BY <1>1, <1>2, <1>4, <2>1, <2>2 DEF MergedFrom
<1>5. CASE s[i] # NotDeclared /\ m = Conflict
  <2>1. Merge(m, s[i]) = Conflict
    BY <1>2, <1>5 DEF Merge
  <2>2. \E j, k \in 1..(i - 1) : /\ s[j] # NotDeclared /\ s[k] # NotDeclared
                                 /\ Shape(s[j]) # Shape(s[k])
    BY <1>2, <1>5 DEF MergedFrom
  <2>3. QED
    BY <1>1, <2>1, <2>2 DEF MergedFrom
<1>6. CASE s[i] # NotDeclared /\ m # NotDeclared /\ m # Conflict
  <2>1. /\ m \in Declarations
        /\ \A j \in 1..(i - 1) : s[j] # NotDeclared =>
             /\ Shape(s[j]) = Shape(m)
             /\ m.form = "optional" => s[j].form = "optional"
    BY <1>6 DEF MergedFrom
  <2>2. PICK j \in 1..(i - 1) : s[j] = m
    BY <1>6 DEF MergedFrom
  <2>3. CASE Shape(m) # Shape(s[i])
    <3>1. Merge(m, s[i]) = Conflict
      BY <1>6, <2>3 DEF Merge
    <3>2. QED
      BY <1>1, <1>6, <2>2, <2>3, <3>1 DEF MergedFrom
  <2>4. CASE Shape(m) = Shape(s[i]) /\ m.form = "optional" /\ s[i].form # "optional"
    <3>1. Merge(m, s[i]) = s[i]
      BY <1>6, <2>4 DEF Merge
    <3>2. QED
      BY <1>1, <1>2, <1>6, <2>1, <2>4, <3>1 DEF MergedFrom
  <2>5. CASE Shape(m) = Shape(s[i]) /\ ~(m.form = "optional" /\ s[i].form # "optional")
    <3>1. Merge(m, s[i]) = m
      BY <1>6, <2>5 DEF Merge
    <3>2. QED
      BY <1>1, <2>1, <2>2, <2>5, <3>1 DEF MergedFrom
  <2>6. QED
    BY <2>3, <2>4, <2>5
<1>7. QED
  BY <1>3, <1>4, <1>5, <1>6

LEMMA MergesSound ==
  ASSUME NEW n \in Nat, NEW s \in [1..n -> Declarations \cup {NotDeclared}]
  PROVE  Len(s) = n /\ MergedFrom(s, n, Merges(s)[n])
<1>1. Len(s) = n
  OBVIOUS
<1> DEFINE Unsound == {i \in 0..n : ~MergedFrom(s, i, Merges(s)[i])}
<1>2. SUFFICES ASSUME Unsound # {} PROVE FALSE
  <2> HIDE DEF MergedFrom
  <2>1. QED
    BY <1>1
<1>3. PICK i \in Unsound : \A j \in Unsound : i <= j
  BY <1>2, NatLeast, Unsound \in SUBSET Nat
<1>4. CASE i = 0
  BY <1>1, <1>3, <1>4, MergesAre DEF MergedFrom
<1>5. CASE i # 0
  <2>1. i \in 1..n /\ i - 1 \in 0..n /\ ~(i <= i - 1)
    BY <1>5
  <2>2. i - 1 \notin Unsound
    <3> HIDE DEF Unsound
    <3>1. QED
      BY <1>3, <2>1
  <2>3. MergedFrom(s, i - 1, Merges(s)[i - 1])
    BY <2>1, <2>2
  <2>4. MergedFrom(s, i, Merge(Merges(s)[i - 1], s[i]))
    BY <2>1, <2>3, MergesOnce
  <2>5. QED
    BY <1>1, <1>3, <2>1, <2>4, MergesAre
<1>6. QED
  BY <1>4, <1>5

\* _shape keeps the type, and of the forms only "optional" is not its own shape.
LEMMA ShapeParts ==
  ASSUME NEW d \in Declarations
  PROVE  /\ Shape(d).type = d.type
         /\ Shape(d).form = IF d.form = "optional" THEN "plain" ELSE d.form
  BY DEF Declarations, Shape

\* Two declarations of a tool that registers agree in shape, and so any
\* selection of its actions can be merged too.
LEMMA SelectionsMerge ==
  ASSUME NEW tool \in Tools, NEW chosen \in Choices, Registers(tool)
  PROVE  \E n \in Nat \ {0} :
           /\ Selection(tool, chosen) \in [1..n -> Declarations \cup {NotDeclared}]
           /\ InputSchema(Selection(tool, chosen)).property # Conflict
<1> USE SchemaAssumption
<1> DEFINE N == DeclaredActions
           s == Selection(tool, chosen)
<1>1. tool \in [1..N -> Declarations \cup {NotDeclared}] /\ N \in Nat
  BY DEF Tools
<1>2. MergedFrom(tool, N, Merges(tool)[N]) /\ Merges(tool)[N] # Conflict
  BY <1>1, MergesSound DEF Registers, InputSchema
<1>3. \A j, k \in 1..N : tool[j] # NotDeclared /\ tool[k] # NotDeclared
                            => Shape(tool[j]) = Shape(tool[k])
  BY <1>2 DEF MergedFrom
<1>4. PICK n \in 1..N : chosen \in [1..n -> 1..N]
  BY DEF Choices
<1>5. /\ s \in [1..n -> Declarations \cup {NotDeclared}] /\ n \in Nat \ {0}
      /\ \A j \in 1..n : chosen[j] \in 1..N /\ s[j] = tool[chosen[j]]
  BY <1>1, <1>4 DEF Selection
<1> HIDE DEF s
<1>6. MergedFrom(s, n, Merges(s)[n]) /\ Len(s) = n
  BY <1>5, MergesSound
<1>7. ~ \E j, k \in 1..n : /\ s[j] # NotDeclared /\ s[k] # NotDeclared
                            /\ Shape(s[j]) # Shape(s[k])
  BY <1>3, <1>5
<1>8. Merges(s)[n] # Conflict
  BY <1>6, <1>7, DeclarationsDiffer DEF MergedFrom
<1>9. InputSchema(s).property # Conflict
  BY <1>6, <1>8 DEF InputSchema
<1>10. QED
  BY <1>5, <1>9 DEF s

\* What was listed is a selection of actions that could be merged.
ListingInv ==
  call.tool = "tools/list" =>
    /\ request = NoRequest
    /\ \E n \in Nat \ {0} : call.actions \in [1..n -> Declarations \cup {NotDeclared}]
    /\ result.schema = InputSchema(call.actions)
    /\ InputSchema(call.actions).property # Conflict

LEMMA ListingStarts ==
  ASSUME NoCallYet, ListTool
  PROVE  ListingInv'
<1>1. PICK tool \in Tools, chosen \in Choices :
             /\ Registers(tool)
             /\ call' = [tool |-> "tools/list", actions |-> Selection(tool, chosen)]
             /\ result' = [status |-> "listed", schema |-> InputSchema(Selection(tool, chosen))]
             /\ request' = request
  BY DEF ListTool
<1>2. /\ call'.actions = Selection(tool, chosen)
      /\ result'.schema = InputSchema(Selection(tool, chosen))
  BY <1>1
<1>3. \E n \in Nat \ {0} :
        /\ Selection(tool, chosen) \in [1..n -> Declarations \cup {NotDeclared}]
        /\ InputSchema(Selection(tool, chosen)).property # Conflict
  BY <1>1, SelectionsMerge
<1>4. QED
  BY <1>1, <1>2, <1>3 DEF ListingInv, NoCallYet

LEMMA ListingCancelled ==
  ASSUME ListingInv, Cancelled
  PROVE  ListingInv'
  BY CancelledDoes DEF Cancelled, Running, ListingInv

\* A parameter's merged declaration takes what each action's own takes, and what
\* it takes suits each action that requires the parameter.
LEMMA SchemaStandsForAll == ListingInv => SchemaFits
<1> SUFFICES ASSUME ListingInv, call.tool = "tools/list" PROVE SchemaFits
  BY DEF SchemaFits, SchemaAdmitsCalls, SchemaSuitsAll
<1> DEFINE s == call.actions
           m == result.schema.property
<1>1. PICK n \in Nat \ {0} : s \in [1..n -> Declarations \cup {NotDeclared}]
  BY DEF ListingInv
<1>2. /\ m # Conflict /\ MergedFrom(s, n, m) /\ DOMAIN s = 1..n
      /\ result.schema.required = Everywhere(s)
  <2>1. result.schema = [property |-> Merges(s)[Len(s)], required |-> Everywhere(s)]
    BY DEF ListingInv, InputSchema
  <2>2. InputSchema(s).property # Conflict
    BY DEF ListingInv
  <2>3. QED
    BY <1>1, <2>1, <2>2, MergesSound DEF InputSchema
<1> HIDE DEF s, m
<1>3. ASSUME NEW i \in 1..n, s[i] # NotDeclared
      PROVE  /\ s[i] \in Declarations /\ m \in Declarations
             /\ m.type = s[i].type
             /\ s[i].form = "nullable" <=> m.form = "nullable"
             /\ m.form = "optional" => s[i].form = "optional"
  <2>1. /\ s[i] \in Declarations /\ m \in Declarations /\ Shape(s[i]) = Shape(m)
        /\ m.form = "optional" => s[i].form = "optional"
    BY <1>1, <1>2, <1>3 DEF MergedFrom
  <2>2. /\ m.type = s[i].type
        /\ (IF m.form = "optional" THEN "plain" ELSE m.form)
             = (IF s[i].form = "optional" THEN "plain" ELSE s[i].form)
    BY <2>1, ShapeParts
  <2>3. QED
    BY <2>1, <2>2
<1>4. ASSUME NEW i \in 1..n, NEW a \in Arguments,
             DeclarationAccepts(s[i], a), a = "null" => s[i].form = "nullable"
      PROVE  SchemaAccepts(result.schema, a)
  <2>1. CASE a = Omitted
    BY <1>2, <1>4, <2>1 DEF DeclarationAccepts, SchemaAccepts, Everywhere
  <2>2. CASE a = "null"
    <3>1. s[i] # NotDeclared
      BY <1>4, <2>2, DeclarationsDiffer
    <3>2. m.form = "nullable"
      BY <1>3, <1>4, <2>2, <3>1
    <3>3. QED
      BY <2>2, <3>2 DEF DeclarationAccepts, SchemaAccepts, Omitted, m
  <2>3. CASE a # Omitted /\ a # "null"
    <3>1. s[i] # NotDeclared /\ a = s[i].type
      BY <1>4, <2>3 DEF DeclarationAccepts
    <3>2. m # NotDeclared /\ a = m.type
      BY <1>3, <3>1, DeclarationsDiffer
    <3>3. QED
      BY <2>3, <3>2 DEF DeclarationAccepts, SchemaAccepts, m
  <2>4. QED
    BY <2>1, <2>2, <2>3
<1>5. ASSUME NEW i \in 1..n, NEW a \in Arguments \ {Omitted},
             RequiredBy(s[i]), SchemaAccepts(result.schema, a)
      PROVE  DeclarationAccepts(s[i], a)
  <2>1. s[i] # NotDeclared /\ s[i].form # "optional"
    BY <1>5, DeclarationsDiffer DEF RequiredBy
  <2>2. DeclarationAccepts(m, a)
    BY <1>5 DEF SchemaAccepts, m
  <2>3. /\ m.type = s[i].type /\ m.form # "optional"
        /\ s[i].form = "nullable" <=> m.form = "nullable"
    BY <1>3, <2>1
  <2>4. QED
    BY <2>1, <2>2, <2>3 DEF DeclarationAccepts
<1>6. QED
  BY <1>2, <1>4, <1>5 DEF SchemaFits, SchemaAdmitsCalls, SchemaSuitsAll, s, m

-----------------------------------------------------------------------------
(* Types: the tries, the history and the late attempts, whatever the tool.  *)

CallSound ==
  /\ CallsTypeOK
  /\ request \in {NoRequest, Get} \/ request.method # "GET"
  /\ past = {} => request = NoRequest /\ stray = {}

\* A handler returns, or asks for something else.
GoesOn ==
  \/ request' = NoRequest /\ tries' = 0 /\ "status" \in DOMAIN result'
  \/ /\ request' # NoRequest /\ result' = result /\ tries' \in 0..Retries
     /\ request' = Get \/ request'.method # "GET"

LEMMA ReturnGoesOn ==
  ASSUME NEW r, Return(r), "status" \in DOMAIN r
  PROVE  GoesOn
  BY DEF Return, GoesOn

LEMMA RaiseGoesOn ==
  ASSUME NEW a, Raise(a)
  PROVE  GoesOn
<1>1. "status" \in DOMAIN [status |-> "error", code |-> a.status]
  OBVIOUS
<1>2. QED
  BY <1>1, ReturnGoesOn DEF Raise

LEMMA DoneGoesOn == Done => GoesOn
<1>1. "status" \in DOMAIN [status |-> "done"]
  OBVIOUS
<1>2. QED
  BY <1>1, ReturnGoesOn DEF Done

LEMMA AskGoesOn ==
  ASSUME NEW r, Ask(r), r = Get \/ r.method # "GET", r # NoRequest
  PROVE  GoesOn
  BY DEF Ask, GoesOn

LEMMA AwaitKeeps ==
  ASSUME CallSound, NEW served, \A s \in served : s.answer.status # "none",
         NEW o \in Outcomes(served), Running, Deliver(o),
         IF o.answer = NoAnswer THEN AskAgain ELSE GoesOn
  PROVE  CallSound'
<1>1. /\ tries \in 0..Retries /\ changes \in 0..Changes
      /\ "tool" \in DOMAIN call /\ "status" \in DOMAIN result
      /\ Running => call # NoCall /\ result = NoResult
      /\ past # {} => thing \in past /\ before \in past
      /\ \A r \in stray : r.method # "GET"
      /\ request \in {NoRequest, Get} \/ request.method # "GET"
      /\ past = {} => request = NoRequest /\ stray = {}
      /\ heard' \in {"none", "done", "refused", "unknown"}
  BY DEF CallSound, CallsTypeOK, Deliver, Verdict
<1>2. /\ stray' = stray \/ (request # Get /\ stray' = stray \cup {request})
      /\ past' = past \cup {thing'}
      /\ UNCHANGED <<call, changes, before>>
  BY DeliverDoes
<1>3. \A r \in stray' : r.method # "GET"
  BY <1>1, <1>2 DEF Running
<1>4. past' # {} /\ thing' \in past' /\ before' \in past'
  BY <1>1, <1>2 DEF Running
<1>5. CASE o.answer = NoAnswer
  <2>1. tries > 0
    <3>1. o.answer.status = "none"
      BY <1>5 DEF NoAnswer, Answer
    <3>2. o \notin Answered(served) /\ o \notin TurnedDown /\ o \notin Spoilt(served)
      BY <3>1 DEF Answered, TurnedDown, Spoilt, Outcome, Answer
    <3>3. o \in Lost(served)
      BY <3>2 DEF Outcomes
    <3>4. ASSUME ~TriesLeft PROVE FALSE
      <4>1. o.answer = Answer("failed")
        BY <3>3, <3>4 DEF Lost, AfterLoss, Outcome
      <4>2. QED
        BY <3>1, <4>1 DEF Answer
    <3>5. QED
      BY <3>4 DEF TriesLeft
  <2>2. tries' \in 0..Retries /\ UNCHANGED <<request, result>>
    BY <1>1, <1>5, <2>1 DEF AskAgain
  <2>3. QED
    BY <1>1, <1>2, <1>3, <1>4, <2>2 DEF CallSound, CallsTypeOK, Running
<1>6. CASE o.answer # NoAnswer
  <2>1. tries' \in 0..Retries /\ "status" \in DOMAIN result'
    BY <1>1, <1>6 DEF GoesOn
  <2>2. /\ Running' => result' = NoResult
        /\ request' \in {NoRequest, Get} \/ request'.method # "GET"
    BY <1>1, <1>6 DEF GoesOn, Running
  <2>3. QED
    BY <1>1, <1>2, <1>3, <1>4, <2>1, <2>2 DEF CallSound, CallsTypeOK, Running
<1>7. QED
  BY <1>5, <1>6

LEMMA LateKeeps ==
  ASSUME CallSound, NEW r, NEW served, CarriedOutLate(r, served)
  PROVE  CallSound'
  BY DEF CallSound, CallsTypeOK, CarriedOutLate, Remember, Running

LEMMA OthersKeep ==
  ASSUME CallSound, NEW t, SomebodyChanges(t)
  PROVE  CallSound'
  BY DEF CallSound, CallsTypeOK, SomebodyChanges, Running

LEMMA CancelledKeeps ==
  ASSUME CallSound, Cancelled
  PROVE  CallSound'
<1>1. /\ request' = NoRequest /\ tries' = 0 /\ result' = [status |-> "cancelled"]
      /\ UNCHANGED <<call, thing, changes, before, past, heard>>
      /\ stray' = stray \/ (request # Get /\ stray' = stray \cup {request})
      /\ request # NoRequest
  BY CancelledDoes DEF Cancelled, Return, Running
<1>2. "status" \in DOMAIN result'
  BY <1>1
<1>3. QED
  BY <1>1, <1>2 DEF CallSound, CallsTypeOK, Running

LEMMA StartsSound ==
  ASSUME CallSound, NoCallYet, NEW c, NEW t, NEW first, Start(c, t, first),
         "tool" \in DOMAIN c, c.tool # "none", first = Get \/ first.method # "GET"
  PROVE  CallSound'
<1>1. /\ call' = c /\ call' # NoCall
      /\ thing' = t /\ before' = t /\ past' = {t} /\ request' = first
      /\ tries' \in 0..Retries
      /\ UNCHANGED <<stray, changes, result, heard>>
  BY DEF Start, Ask, NoCall
<1>2. QED
  BY <1>1 DEF CallSound, CallsTypeOK, NoCallYet, NoResult

\* No answer of GitLab is no answer.
LEMMA ServedAnswers ==
  ASSUME NEW r, NEW t
  PROVE  /\ \A s \in CarryingServed(r, t) : s.answer.status # "none"
         /\ \A s \in FileServed(r, t) : s.answer.status # "none"
         /\ \A s \in TitleServed(r, t) : s.answer.status # "none"
         /\ \A s \in MergeServed(r, t) : s.answer.status # "none"
         /\ \A s \in ReviewServed(r, t) : s.answer.status # "none"
         /\ \A s \in AnchoringServed(r, t) : s.answer.status # "none"
         /\ \A s \in HookServed(r, t) : s.answer.status # "none"
         /\ \A s \in ProjectServed(r, t) : s.answer.status # "none"
<1>1. \A s \in CarryingServed(r, t) : s.answer.status # "none"
  BY DEF CarryingServed, Answer
<1>2. \A s \in FileServed(r, t) : s.answer.status # "none"
  BY DEF FileServed, Answer
<1>3. \A s \in TitleServed(r, t) : s.answer.status # "none"
  BY DEF TitleServed, Answer
<1>4. \A s \in MergeServed(r, t) : s.answer.status # "none"
  BY DEF MergeServed, Answer
<1>5. \A s \in ReviewServed(r, t) : s.answer.status # "none"
  BY DEF ReviewServed, Answer
<1>6. \A s \in AnchoringServed(r, t) : s.answer.status # "none"
  BY DEF AnchoringServed, Answer
<1>7. \A s \in HookServed(r, t) : s.answer.status # "none"
  BY DEF HookServed
<1>8. \A s \in ProjectServed(r, t) : s.answer.status # "none"
  BY DEF ProjectServed, Answer
<1>9. QED
  BY <1>1, <1>2, <1>3, <1>4, <1>5, <1>6, <1>7, <1>8

LEMMA RequestParts ==
  /\ Get # NoRequest
  /\ \A b : PutField(b) # NoRequest /\ PutField(b).method # "GET"
  /\ \A c : FileRequest(c).method # "GET"
  /\ \A t : PutTitle(t) # NoRequest /\ PutTitle(t).method # "GET"
  /\ \A c : MergeRequest(c).method # "GET"
  /\ PostSummary # NoRequest /\ PostSummary.method # "GET" /\ PostBulkPublish.method # "GET"
  /\ \A q : PostComment(q) # NoRequest /\ PostComment(q).method # "GET"
  /\ \A u, v, h, k : PutHook(u, v, h, k) # NoRequest /\ PutHook(u, v, h, k).method # "GET"
  /\ DeleteProject.method # "GET"
<1>1. \A b : PutField(b) # NoRequest /\ PutField(b).method # "GET"
  BY DEF PutField, NoRequest
<1>2. \A c : FileRequest(c).method # "GET"
  BY DEF FileRequest
<1>3. \A t : PutTitle(t) # NoRequest /\ PutTitle(t).method # "GET"
  BY DEF PutTitle, NoRequest
<1>4. \A c : MergeRequest(c).method # "GET"
  BY DEF MergeRequest
<1>5. /\ PostSummary # NoRequest /\ PostSummary.method # "GET" /\ PostBulkPublish.method # "GET"
      /\ Get # NoRequest /\ DeleteProject.method # "GET"
  BY DEF PostSummary, PostBulkPublish, Get, DeleteProject, NoRequest
<1>6. \A q : PostComment(q) # NoRequest /\ PostComment(q).method # "GET"
  BY DEF PostComment, NoRequest
<1>7. \A u, v, h, k : PutHook(u, v, h, k) # NoRequest /\ PutHook(u, v, h, k).method # "GET"
  BY DEF PutHook, NoRequest
<1>8. QED
  BY <1>1, <1>2, <1>3, <1>4, <1>5, <1>6, <1>7

\* Every handler returns or asks for something else.
LEMMA ContinuesGoOn ==
  ASSUME NEW a,
         \/ CarryingContinue(a) \/ FileContinue(a) \/ TitleContinue(a) \/ MergeContinue(a)
         \/ ReviewContinue(a) \/ AnchoringContinue(a) \/ HookContinue(a) \/ ProjectContinue(a)
  PROVE  GoesOn
<1> USE RaiseGoesOn, DoneGoesOn, ReturnGoesOn, AskGoesOn, RequestParts
<1>1. CASE CarryingContinue(a)
  BY <1>1 DEF CarryingContinue
<1>2. CASE FileContinue(a)
  BY <1>2 DEF FileContinue
<1>3. CASE TitleContinue(a)
  BY <1>3 DEF TitleContinue
<1>4. CASE MergeContinue(a)
  <2>1. \A x : "status" \in DOMAIN Pending(x) /\ "status" \in DOMAIN Blocked(x)
    BY DEF Pending, Blocked
  <2>2. CASE request = Get
    <3>1. CASE a.status = "ok"
      BY <1>4, <2>1, <2>2, <3>1 DEF MergeContinue
    <3>2. CASE a.status # "ok"
      BY <1>4, <2>2, <3>2 DEF MergeContinue
    <3>3. QED
      BY <3>1, <3>2
  <2>3. CASE request # Get /\ a.status = "not_mergeable"
    <3>1. Ask(Get)
      BY <1>4, <2>3 DEF MergeContinue
    <3>2. QED
      BY <3>1
  <2>4. CASE request # Get /\ a.status # "not_mergeable"
    BY <1>4, <2>1, <2>4 DEF MergeContinue
  <2>5. QED
    BY <2>2, <2>3, <2>4
<1>5. CASE ReviewContinue(a)
  <2>1. "status" \in DOMAIN Hinted(a)
    BY DEF Hinted
  <2>2. QED
    BY <1>5, <2>1 DEF ReviewContinue, ReviewError
<1>6. CASE AnchoringContinue(a)
  <2>1. "status" \in DOMAIN [status |-> "diff_not_ready"]
    OBVIOUS
  <2>2. QED
    BY <1>6, <2>1 DEF AnchoringContinue
<1>7. CASE HookContinue(a)
  <2>1. "status" \in DOMAIN [status |-> "done", notes |-> HookNotes(call, a.hook)]
    OBVIOUS
  <2>2. QED
    BY <1>7, <2>1 DEF HookContinue, SecondHookRequest
<1>8. CASE ProjectContinue(a)
  <2>1. "status" \in DOMAIN [status |-> DeletionStatus(a)]
    OBVIOUS
  <2>2. QED
    BY <1>8, <2>1 DEF ProjectContinue
<1>9. QED
  BY <1>1, <1>2, <1>3, <1>4, <1>5, <1>6, <1>7, <1>8

LEMMA CarryingSound == CallSound /\ CarryingStep => CallSound'
<1> SUFFICES ASSUME CallSound, CarryingStep PROVE CallSound'
  OBVIOUS
<1>1. ASSUME NEW o \in Outcomes(CarryingServed(request, thing)), Running, Deliver(o),
             IF o.answer = NoAnswer THEN AskAgain ELSE CarryingContinue(o.answer)
      PROVE  CallSound'
  <2>1. \A s \in CarryingServed(request, thing) : s.answer.status # "none"
    BY ServedAnswers
  <2>2. IF o.answer = NoAnswer THEN AskAgain ELSE GoesOn
    BY <1>1, ContinuesGoOn
  <2>3. QED
    BY <1>1, <2>1, <2>2, AwaitKeeps
<1>2. QED
  BY <1>1, LateKeeps, OthersKeep DEF CarryingStep

LEMMA FileSound == CallSound /\ FileStep => CallSound'
<1> SUFFICES ASSUME CallSound, FileStep PROVE CallSound'
  OBVIOUS
<1>1. ASSUME NEW o \in Outcomes(FileServed(request, thing)), Running, Deliver(o),
             IF o.answer = NoAnswer THEN AskAgain ELSE FileContinue(o.answer)
      PROVE  CallSound'
  <2>1. \A s \in FileServed(request, thing) : s.answer.status # "none"
    BY ServedAnswers
  <2>2. IF o.answer = NoAnswer THEN AskAgain ELSE GoesOn
    BY <1>1, ContinuesGoOn
  <2>3. QED
    BY <1>1, <2>1, <2>2, AwaitKeeps
<1>2. QED
  BY <1>1, LateKeeps, OthersKeep DEF FileStep

LEMMA TitleSound == CallSound /\ TitleStep => CallSound'
<1> SUFFICES ASSUME CallSound, TitleStep PROVE CallSound'
  OBVIOUS
<1>1. ASSUME NEW o \in Outcomes(TitleServed(request, thing)), Running, Deliver(o),
             IF o.answer = NoAnswer THEN AskAgain ELSE TitleContinue(o.answer)
      PROVE  CallSound'
  <2>1. \A s \in TitleServed(request, thing) : s.answer.status # "none"
    BY ServedAnswers
  <2>2. IF o.answer = NoAnswer THEN AskAgain ELSE GoesOn
    BY <1>1, ContinuesGoOn
  <2>3. QED
    BY <1>1, <2>1, <2>2, AwaitKeeps
<1>2. QED
  BY <1>1, LateKeeps, OthersKeep DEF TitleStep

LEMMA MergeSound == CallSound /\ MergeStep => CallSound'
<1> SUFFICES ASSUME CallSound, MergeStep PROVE CallSound'
  OBVIOUS
<1>1. ASSUME NEW o \in Outcomes(MergeServed(request, thing)), Running, Deliver(o),
             IF o.answer = NoAnswer THEN AskAgain ELSE MergeContinue(o.answer)
      PROVE  CallSound'
  <2>1. \A s \in MergeServed(request, thing) : s.answer.status # "none"
    BY ServedAnswers
  <2>2. IF o.answer = NoAnswer THEN AskAgain ELSE GoesOn
    BY <1>1, ContinuesGoOn
  <2>3. QED
    BY <1>1, <2>1, <2>2, AwaitKeeps
<1>2. QED
  BY <1>1, LateKeeps, OthersKeep DEF MergeStep

LEMMA ReviewSound == CallSound /\ ReviewStep => CallSound'
<1> SUFFICES ASSUME CallSound, ReviewStep PROVE CallSound'
  OBVIOUS
<1>1. ASSUME NEW o \in Outcomes(ReviewServed(request, thing)), Running, Deliver(o),
             IF o.answer = NoAnswer THEN AskAgain ELSE ReviewContinue(o.answer)
      PROVE  CallSound'
  <2>1. \A s \in ReviewServed(request, thing) : s.answer.status # "none"
    BY ServedAnswers
  <2>2. IF o.answer = NoAnswer THEN AskAgain ELSE GoesOn
    BY <1>1, ContinuesGoOn
  <2>3. QED
    BY <1>1, <2>1, <2>2, AwaitKeeps
<1>2. QED
  BY <1>1, LateKeeps DEF ReviewStep

LEMMA AnchoringSound == CallSound /\ AnchoringStep => CallSound'
<1> SUFFICES ASSUME CallSound, AnchoringStep PROVE CallSound'
  OBVIOUS
<1>1. ASSUME NEW o \in Outcomes(AnchoringServed(request, thing)), Running, Deliver(o),
             IF o.answer = NoAnswer THEN AskAgain ELSE AnchoringContinue(o.answer)
      PROVE  CallSound'
  <2>1. \A s \in AnchoringServed(request, thing) : s.answer.status # "none"
    BY ServedAnswers
  <2>2. IF o.answer = NoAnswer THEN AskAgain ELSE GoesOn
    BY <1>1, ContinuesGoOn
  <2>3. QED
    BY <1>1, <2>1, <2>2, AwaitKeeps
<1>2. QED
  BY <1>1, LateKeeps, OthersKeep DEF AnchoringStep

LEMMA HookSound == CallSound /\ HookStep => CallSound'
<1> SUFFICES ASSUME CallSound, HookStep PROVE CallSound'
  OBVIOUS
<1>1. ASSUME NEW o \in Outcomes(HookServed(request, thing)), Running, Deliver(o),
             IF o.answer = NoAnswer THEN AskAgain ELSE HookContinue(o.answer)
      PROVE  CallSound'
  <2>1. \A s \in HookServed(request, thing) : s.answer.status # "none"
    BY ServedAnswers
  <2>2. IF o.answer = NoAnswer THEN AskAgain ELSE GoesOn
    BY <1>1, ContinuesGoOn
  <2>3. QED
    BY <1>1, <2>1, <2>2, AwaitKeeps
<1>2. QED
  BY <1>1, LateKeeps DEF HookStep

LEMMA ProjectSound == CallSound /\ ProjectStep => CallSound'
<1> SUFFICES ASSUME CallSound, ProjectStep PROVE CallSound'
  OBVIOUS
<1>1. ASSUME NEW o \in Outcomes(ProjectServed(request, thing)), Running, Deliver(o),
             IF o.answer = NoAnswer THEN AskAgain ELSE ProjectContinue(o.answer)
      PROVE  CallSound'
  <2>1. \A s \in ProjectServed(request, thing) : s.answer.status # "none"
    BY ServedAnswers
  <2>2. IF o.answer = NoAnswer THEN AskAgain ELSE GoesOn
    BY <1>1, ContinuesGoOn
  <2>3. QED
    BY <1>1, <2>1, <2>2, AwaitKeeps
<1>2. QED
  BY <1>1, LateKeeps, OthersKeep DEF ProjectStep

-----------------------------------------------------------------------------
(* All the tools together: a step is one of the tool that was called.       *)

LEMMA StartsOne ==
  ASSUME StartCall
  PROVE  /\ call = NoCall
         /\ \/ StartCarrying /\ call'.tool \in CarryingTools
            \/ StartFile /\ call'.tool \in FileTools
            \/ StartMerge /\ call'.tool = "merge"
            \/ StartReview /\ call'.tool = "publish_review"
            \/ StartAnchoring /\ call'.tool \in AnchoringTools
            \/ StartTitle /\ call'.tool = "update_merge_request"
            \/ StartHook /\ call'.tool = "update_hook"
            \/ StartProject /\ call'.tool = "delete_project"
            \/ ListTool /\ call'.tool = "tools/list"
<1>1. ASSUME StartCarrying PROVE call = NoCall /\ call'.tool \in CarryingTools
  <2> PICK c \in CarryingCalls : \E t \in CarriedFields(c) : Start(c, t, FirstCarryingRequest(c))
    BY <1>1 DEF StartCarrying
  <2> QED
    BY DEF Start, CarryingCalls
<1>2. ASSUME StartFile PROVE call = NoCall /\ call'.tool \in FileTools
  BY <1>2 DEF StartFile, Start, FileCallsOffered
<1>3. ASSUME StartMerge PROVE call = NoCall /\ call'.tool = "merge"
  BY <1>3 DEF StartMerge, Start, MergeCalls
<1>4. ASSUME StartReview PROVE call = NoCall /\ call'.tool = "publish_review"
  BY <1>4 DEF StartReview, Start, ReviewCallsOffered
<1>5. ASSUME StartAnchoring PROVE call = NoCall /\ call'.tool \in AnchoringTools
  BY <1>5 DEF StartAnchoring, Start, AnchoringCalls
<1>6. ASSUME StartTitle PROVE call = NoCall /\ call'.tool = "update_merge_request"
  BY <1>6 DEF StartTitle, Start, TitleCalls
<1>7. ASSUME StartHook PROVE call = NoCall /\ call'.tool = "update_hook"
  BY <1>7 DEF StartHook, Start, HookCalls
<1>8. ASSUME StartProject PROVE call = NoCall /\ call'.tool = "delete_project"
  BY <1>8 DEF StartProject, Start
<1>9. ASSUME ListTool PROVE call = NoCall /\ call'.tool = "tools/list"
  BY <1>9 DEF ListTool
<1>10. QED
  BY <1>1, <1>2, <1>3, <1>4, <1>5, <1>6, <1>7, <1>8, <1>9 DEF StartCall

LEMMA StepsOfOne ==
  ASSUME CallStep
  PROVE  /\ call' = call
         /\ \/ CarryingStep /\ call.tool \in CarryingTools
            \/ FileStep /\ call.tool \in FileTools
            \/ MergeStep /\ call.tool = "merge"
            \/ ReviewStep /\ call.tool = "publish_review"
            \/ AnchoringStep /\ call.tool \in AnchoringTools
            \/ TitleStep /\ call.tool = "update_merge_request"
            \/ HookStep /\ call.tool = "update_hook"
            \/ ProjectStep /\ call.tool = "delete_project"
            \/ Cancelled
<1>1. ASSUME NEW o, Deliver(o) PROVE call' = call
  BY <1>1 DEF Deliver, Remember
<1>2. ASSUME NEW r, NEW served, CarriedOutLate(r, served) PROVE call' = call
  BY <1>2 DEF CarriedOutLate, Remember
<1>3. ASSUME NEW t, SomebodyChanges(t) PROVE call' = call
  BY <1>3 DEF SomebodyChanges
<1>4. ASSUME CarryingStep PROVE call' = call /\ call.tool \in CarryingTools
  BY <1>1, <1>2, <1>3, <1>4 DEF CarryingStep
<1>5. ASSUME FileStep PROVE call' = call /\ call.tool \in FileTools
  BY <1>1, <1>2, <1>3, <1>5 DEF FileStep
<1>6. ASSUME MergeStep PROVE call' = call /\ call.tool = "merge"
  BY <1>1, <1>2, <1>3, <1>6 DEF MergeStep
<1>7. ASSUME ReviewStep PROVE call' = call /\ call.tool = "publish_review"
  BY <1>1, <1>2, <1>3, <1>7 DEF ReviewStep
<1>8. ASSUME AnchoringStep PROVE call' = call /\ call.tool \in AnchoringTools
  BY <1>1, <1>2, <1>3, <1>8 DEF AnchoringStep
<1>9. ASSUME TitleStep PROVE call' = call /\ call.tool = "update_merge_request"
  BY <1>1, <1>2, <1>3, <1>9 DEF TitleStep
<1>10. ASSUME HookStep PROVE call' = call /\ call.tool = "update_hook"
  BY <1>1, <1>2, <1>3, <1>10 DEF HookStep
<1>11. ASSUME ProjectStep PROVE call' = call /\ call.tool = "delete_project"
  BY <1>1, <1>2, <1>3, <1>11 DEF ProjectStep
<1>12. ASSUME Cancelled PROVE call' = call
  BY <1>12 DEF Cancelled
<1>13. QED
  BY <1>4, <1>5, <1>6, <1>7, <1>8, <1>9, <1>10, <1>11, <1>12 DEF CallStep

\* Nothing is under way before the call.
Idle == call = NoCall => NoCallYet

CallsInv ==
  /\ Idle /\ CallSound
  /\ CarryingInv /\ FileInv /\ TitleInv /\ MergeInv /\ MergeOnce
  /\ ReviewInv /\ AnchoringInv /\ HookInv /\ ProjectInv /\ ListingInv

LEMMA ToolsDiffer ==
  /\ CarryingTools \cap FileTools = {}
  /\ CarryingTools \cap AnchoringTools = {}
  /\ FileTools \cap AnchoringTools = {}
  /\ (CarryingTools \cup FileTools \cup AnchoringTools) \cap
       {"none", "merge", "publish_review", "update_merge_request", "update_hook",
        "delete_project", "tools/list"} = {}
  BY DEF CarryingTools, FileTools, AnchoringTools

LEMMA StartCallSound ==
  ASSUME CallSound, NoCallYet, StartCall
  PROVE  CallSound'
<1> USE RequestParts, StartsSound
<1>1. ASSUME StartCarrying PROVE CallSound'
  <2>1. PICK c \in CarryingCalls : \E t \in CarriedFields(c) : Start(c, t, FirstCarryingRequest(c))
    BY <1>1 DEF StartCarrying
  <2>2. "tool" \in DOMAIN c /\ c.tool # "none"
    BY ToolsDiffer DEF CarryingCalls
  <2>3. FirstCarryingRequest(c) = Get \/ FirstCarryingRequest(c).method # "GET"
    BY DEF FirstCarryingRequest
  <2>4. QED
    BY <2>1, <2>2, <2>3
<1>2. ASSUME StartFile PROVE CallSound'
  <2>1. PICK c \in FileCallsOffered : Start(c, FileAtStart, FileRequest(c))
    BY <1>2 DEF StartFile
  <2>2. "tool" \in DOMAIN c /\ c.tool # "none"
    BY ToolsDiffer DEF FileCallsOffered
  <2>3. QED
    BY <2>1, <2>2
<1>3. ASSUME StartTitle PROVE CallSound'
  <2>1. PICK c \in TitleCalls : \E t \in TitlesAtStart : Start(c, t, FirstTitleRequest(c))
    BY <1>3 DEF StartTitle
  <2>2. "tool" \in DOMAIN c /\ c.tool # "none"
    BY DEF TitleCalls
  <2>3. FirstTitleRequest(c) = Get \/ FirstTitleRequest(c).method # "GET"
    BY DEF FirstTitleRequest
  <2>4. QED
    BY <2>1, <2>2, <2>3
<1>4. ASSUME StartMerge PROVE CallSound'
  <2>1. PICK c \in MergeCalls : \E t \in MergeRequestsAtStart : Start(c, t, MergeRequest(c))
    BY <1>4 DEF StartMerge
  <2>2. "tool" \in DOMAIN c /\ c.tool # "none"
    BY DEF MergeCalls
  <2>3. QED
    BY <2>1, <2>2
<1>5. ASSUME StartReview PROVE CallSound'
  <2>1. PICK c \in ReviewCallsOffered : Start(c, ReviewAtStart, PostBulkPublish)
    BY <1>5 DEF StartReview, FirstReviewRequest
  <2>2. "tool" \in DOMAIN c /\ c.tool # "none"
    BY DEF ReviewCallsOffered
  <2>3. QED
    BY <2>1, <2>2
<1>6. ASSUME StartAnchoring PROVE CallSound'
  <2>1. PICK c \in AnchoringCalls : \E t \in DiffsAtStart : Start(c, t, Get)
    BY <1>6 DEF StartAnchoring
  <2>2. "tool" \in DOMAIN c /\ c.tool # "none"
    BY ToolsDiffer DEF AnchoringCalls
  <2>3. QED
    BY <2>1, <2>2
<1>7. ASSUME StartHook PROVE CallSound'
  <2>1. PICK c \in HookCalls : \E t \in HooksAtStart : Start(c, t, FirstHookRequest(c))
    BY <1>7 DEF StartHook
  <2>2. "tool" \in DOMAIN c /\ c.tool # "none"
    BY DEF HookCalls
  <2>3. FirstHookRequest(c).method # "GET"
    BY DEF FirstHookRequest
  <2>4. QED
    BY <2>1, <2>2, <2>3
<1>8. ASSUME StartProject PROVE CallSound'
  <2>1. PICK t \in ProjectsAtStart : Start([tool |-> "delete_project"], t, DeleteProject)
    BY <1>8 DEF StartProject
  <2>2. "tool" \in DOMAIN [tool |-> "delete_project"] /\ [tool |-> "delete_project"].tool # "none"
    OBVIOUS
  <2>3. QED
    BY <2>1, <2>2
<1>9. ASSUME ListTool PROVE CallSound'
  <2>1. PICK actions, schema :
             /\ call' = [tool |-> "tools/list", actions |-> actions]
             /\ result' = [status |-> "listed", schema |-> schema]
             /\ UNCHANGED <<request, tries, kept, thing, stray, changes, before, past, heard>>
    BY <1>9 DEF ListTool
  <2>2. "tool" \in DOMAIN call' /\ "status" \in DOMAIN result'
    BY <2>1
  <2>3. QED
    BY <2>1, <2>2 DEF CallSound, CallsTypeOK, NoCallYet, Running
<1>10. QED
  BY <1>1, <1>2, <1>3, <1>4, <1>5, <1>6, <1>7, <1>8, <1>9 DEF StartCall

LEMMA CallStepSound == CallSound /\ CallStep => CallSound'
  BY CarryingSound, FileSound, TitleSound, MergeSound, ReviewSound, AnchoringSound,
     HookSound, ProjectSound, CancelledKeeps DEF CallStep

LEMMA CallsInvInit == CallsInit => CallsInv
<1> SUFFICES ASSUME CallsInit PROVE CallsInv
  OBVIOUS
<1>1. NoCallYet
  BY DEF CallsInit, CallInit, NoCallYet
<1>2. call.tool = "none"
  BY DEF CallsInit, CallInit, NoCall
<1>3. CallSound
  BY DEF CallsInit, CallInit, CallSound, CallsTypeOK, NoCall, NoResult, Running
<1>4. QED
  BY <1>1, <1>2, <1>3, ToolsDiffer DEF CallsInv, Idle, CarryingInv, FileInv, TitleInv, MergeInv, MergeOnce,
      ReviewInv, AnchoringInv, HookInv, ProjectInv, ListingInv

LEMMA StartKeeps == CallsInv /\ StartCall => CallsInv'
<1> SUFFICES ASSUME CallsInv, StartCall PROVE CallsInv'
  OBVIOUS
<1>1. NoCallYet
  BY StartsOne DEF CallsInv, Idle
<1>2. CarryingInv'
  BY <1>1, StartsOne, CarryingStarts, ToolsDiffer DEF CarryingInv
<1>3. FileInv'
  BY <1>1, StartsOne, FileStarts, ToolsDiffer DEF FileInv
<1>4. MergeInv'
  BY <1>1, StartsOne, MergeStarts, ToolsDiffer DEF MergeInv
<1>5. ReviewInv'
  BY <1>1, StartsOne, ReviewStarts, ToolsDiffer DEF ReviewInv
<1>6. AnchoringInv'
  BY <1>1, StartsOne, AnchoringStarts, ToolsDiffer DEF AnchoringInv
<1>7. MergeOnce'
  BY <1>1, StartsOne, MergeOnceStarts, ToolsDiffer DEF MergeOnce
<1>8. TitleInv'
  BY <1>1, StartsOne, TitleStarts, ToolsDiffer DEF TitleInv
<1>9. HookInv'
  BY <1>1, StartsOne, HookStarts, ToolsDiffer DEF HookInv
<1>10. ProjectInv'
  BY <1>1, StartsOne, ProjectStarts, ToolsDiffer DEF ProjectInv
<1>11. Idle'
  <2>1. call'.tool # "none"
    BY StartsOne, ToolsDiffer
  <2>2. QED
    BY <2>1 DEF Idle, NoCall
<1>12. CallSound'
  BY <1>1, StartCallSound DEF CallsInv
<1>13. ListingInv'
  BY <1>1, StartsOne, ListingStarts, ToolsDiffer DEF ListingInv
<1>14. QED
  BY <1>2, <1>3, <1>4, <1>5, <1>6, <1>7, <1>8, <1>9, <1>10, <1>11, <1>12, <1>13 DEF CallsInv

LEMMA StepKeeps == CallsInv /\ CallStep => CallsInv'
<1> SUFFICES ASSUME CallsInv, CallStep PROVE CallsInv'
  OBVIOUS
<1>1. CarryingInv'
  BY StepsOfOne, CarryingStepKeeps, CarryingCancelled, ToolsDiffer DEF CallsInv, CarryingInv
<1>2. FileInv'
  BY StepsOfOne, FileStepKeeps, FileCancelled, ToolsDiffer DEF CallsInv, FileInv
<1>3. MergeInv'
  BY StepsOfOne, MergeStepKeeps, MergeCancelled, ToolsDiffer DEF CallsInv, MergeInv
<1>4. ReviewInv'
  BY StepsOfOne, ReviewStepKeeps, ReviewCancelled, ToolsDiffer DEF CallsInv, ReviewInv
<1>5. AnchoringInv'
  BY StepsOfOne, AnchoringStepKeeps, AnchoringCancelled, ToolsDiffer DEF CallsInv, AnchoringInv
<1>6. MergeOnce'
  BY StepsOfOne, MergeOnceStepKeeps, MergeOnceCancelled, ToolsDiffer DEF CallsInv, MergeOnce
<1>7. TitleInv'
  BY StepsOfOne, TitleStepKeeps, TitleCancelled, ToolsDiffer DEF CallsInv, TitleInv
<1>8. HookInv'
  BY StepsOfOne, HookStepKeeps, HookCancelled, ToolsDiffer DEF CallsInv, HookInv
<1>9. ProjectInv'
  BY StepsOfOne, ProjectStepKeeps, ProjectCancelled, ToolsDiffer DEF CallsInv, ProjectInv
<1>10. Idle'
  <2>1. call # NoCall
    <3>1. CASE Cancelled
      BY <3>1 DEF CallsInv, Idle, NoCallYet, Cancelled, Running
    <3>2. CASE call.tool # "none"
      BY <3>2 DEF NoCall
    <3>3. QED
      BY <3>1, <3>2, StepsOfOne, ToolsDiffer
  <2>2. QED
    BY <2>1, StepsOfOne DEF Idle
<1>11. CallSound'
  BY CallStepSound DEF CallsInv
<1>12. ListingInv'
  BY StepsOfOne, ListingCancelled, ToolsDiffer DEF CallsInv, ListingInv
<1>13. QED
  BY <1>1, <1>2, <1>3, <1>4, <1>5, <1>6, <1>7, <1>8, <1>9, <1>10, <1>11, <1>12 DEF CallsInv

LEMMA CallsStutterKeeps == CallsInv /\ UNCHANGED callVars => CallsInv'
<1> SUFFICES ASSUME CallsInv, UNCHANGED callVars PROVE CallsInv'
  OBVIOUS
<1> USE DEF callVars, Running
<1>1. Idle'
  BY DEF CallsInv, Idle, NoCallYet
<1>2. CarryingInv' /\ FileInv'
  BY DEF CallsInv, CarryingInv, NoOlder, FileInv
<1>3. TitleInv'
  BY DEF CallsInv, TitleInv, Written, Marked, SingleMarkers
<1>4. MergeInv' /\ MergeOnce'
  BY DEF CallsInv, MergeInv, MergeOnce
<1>5. ReviewInv'
  BY DEF CallsInv, ReviewInv
<1>6. AnchoringInv'
  BY DEF CallsInv, AnchoringInv, Anchor
<1>7. HookInv'
  BY DEF CallsInv, HookInv
<1>8. ProjectInv'
  BY DEF CallsInv, ProjectInv, DeletedByCall
<1>9. CallSound'
  BY DEF CallsInv, CallSound, CallsTypeOK
<1>10. ListingInv'
  BY DEF CallsInv, ListingInv
<1>11. QED
  BY <1>1, <1>2, <1>3, <1>4, <1>5, <1>6, <1>7, <1>8, <1>9, <1>10 DEF CallsInv

LEMMA CallsKeep == CallsInv /\ [CallsNext]_callVars => CallsInv'
  BY StartKeeps, StepKeeps, CallsStutterKeeps DEF CallsNext

\* Whatever tool is called: what its request, its late attempts and the thing
\* can be.
THEOREM CallsInvariant == CallsSpec => []CallsInv
<1>1. CallsInit => CallsInv
  BY CallsInvInit
<1>2. CallsInv /\ [CallsNext]_callVars => CallsInv'
  BY CallsKeep
<1>3. QED
  BY <1>1, <1>2, PTL DEF CallsSpec

\* What the callers rely on follows.
LEMMA CarriedForward == CarryingInv => NothingOlderReturns
  BY DEF CarryingInv, NothingOlderReturns

LEMMA MergedIsTold == MergeOnce => MergedIsNotPending
  BY DEF MergeOnce, MergedIsNotPending

LEMMA MergedAsReviewed == MergeInv => MergesWhatWasReviewed
  BY DEF MergeInv, Reviewed, MergesWhatWasReviewed

-----------------------------------------------------------------------------
(* The handlers keep to the catalogue.                                      *)

LEMMA PlanOffered ==
  ASSUME NEW tool, NEW action, NEW plan, <<action, plan>> \in Catalogued!ToolRequests[tool]
  PROVE  plan \in Catalogued!Requests(tool, action)
  BY DEF Catalogued!Requests

LEMMA ToolsNamed ==
  {"gitlab_ci_variables", "gitlab_wikis", "gitlab_mr_reviews", "gitlab_files",
   "gitlab_merge_requests", "gitlab_webhooks", "gitlab_projects"} \subseteq Catalogued!ToolNames
<1>1. /\ {"projects", "repository", "merge_requests", "pipelines", "collaboration"}
            \subseteq DOMAIN Catalogued!ToolsOf
      /\ "gitlab_projects" \in Catalogued!ToolsOf["projects"]
      /\ "gitlab_files" \in Catalogued!ToolsOf["repository"]
      /\ {"gitlab_merge_requests", "gitlab_mr_reviews"} \subseteq Catalogued!ToolsOf["merge_requests"]
      /\ "gitlab_ci_variables" \in Catalogued!ToolsOf["pipelines"]
      /\ {"gitlab_wikis", "gitlab_webhooks"} \subseteq Catalogued!ToolsOf["collaboration"]
  BY DEF Catalogued!ToolsOf
<1>2. QED
  BY <1>1 DEF Catalogued!ToolNames, Catalogued!ToolsetNames

LEMMA RequestsOfTools ==
  /\ Catalogued!ToolRequests["gitlab_ci_variables"] = Catalogued!CiVariablesRequests
  /\ Catalogued!ToolRequests["gitlab_wikis"] = Catalogued!WikisRequests
  /\ Catalogued!ToolRequests["gitlab_mr_reviews"] = Catalogued!ReviewsRequests
  /\ Catalogued!ToolRequests["gitlab_files"] = Catalogued!FilesRequests
  /\ Catalogued!ToolRequests["gitlab_merge_requests"] = Catalogued!MergeRequestsRequests
  /\ Catalogued!ToolRequests["gitlab_webhooks"] = Catalogued!WebhooksRequests
  /\ Catalogued!ToolRequests["gitlab_projects"] = Catalogued!ProjectsRequests
  BY DEF Catalogued!ToolRequests

LEMMA ActionsOfTools ==
  /\ "update" \in Catalogued!ActionsOf("gitlab_ci_variables")
  /\ "update" \in Catalogued!ActionsOf("gitlab_wikis")
  /\ {"update_draft_note", "publish_review", "create_discussion", "create_draft_note"}
       \subseteq Catalogued!ActionsOf("gitlab_mr_reviews")
  /\ {"update", "delete"} \subseteq Catalogued!ActionsOf("gitlab_files")
  /\ {"update", "merge"} \subseteq Catalogued!ActionsOf("gitlab_merge_requests")
  /\ "update" \in Catalogued!ActionsOf("gitlab_webhooks")
  /\ "delete" \in Catalogued!ActionsOf("gitlab_projects")
<1>1. /\ Catalogued!ToolActions["gitlab_ci_variables"] = Catalogued!CiVariablesActions
      /\ Catalogued!ToolActions["gitlab_wikis"] = Catalogued!WikisActions
      /\ Catalogued!ToolActions["gitlab_mr_reviews"] = Catalogued!ReviewsActions
      /\ Catalogued!ToolActions["gitlab_files"] = Catalogued!FilesActions
      /\ Catalogued!ToolActions["gitlab_merge_requests"] = Catalogued!MergeRequestsActions
      /\ Catalogued!ToolActions["gitlab_webhooks"] = Catalogued!WebhooksActions
      /\ Catalogued!ToolActions["gitlab_projects"] = Catalogued!ProjectsActions
  BY DEF Catalogued!ToolActions
<1>2. \A r, w, d : Catalogued!Table(r, w, d).read = r /\ Catalogued!Table(r, w, d).write = w
  BY DEF Catalogued!Table
<1>3. /\ "update" \in Catalogued!CiVariablesActions.write
      /\ "update" \in Catalogued!WikisActions.write
      /\ {"update_draft_note", "publish_review", "create_discussion", "create_draft_note"}
           \subseteq Catalogued!ReviewsActions.write
      /\ {"update", "delete"} \subseteq Catalogued!FilesActions.write
      /\ {"update", "merge"} \subseteq Catalogued!MergeRequestsActions.write
      /\ "update" \in Catalogued!WebhooksActions.write
      /\ "delete" \in Catalogued!ProjectsActions.write
  BY <1>2 DEF Catalogued!CiVariablesActions, Catalogued!WikisActions, Catalogued!ReviewsActions,
     Catalogued!FilesActions, Catalogued!MergeRequestsActions, Catalogued!WebhooksActions,
     Catalogued!ProjectsActions, Catalogued!ThreadWrites
<1>4. QED
  BY <1>1, <1>3 DEF Catalogued!ActionsOf

LEMMA PlansAre ==
  ASSUME NEW c
  PROVE  /\ c.tool \in CarryingTools \cup {"update_merge_request"} =>
              PlanOf(c) = IF c.passes THEN <<"PUT">> ELSE <<"GET", "PUT">>
         /\ c.tool = "update_file" => PlanOf(c) = <<"PUT">>
         /\ c.tool = "delete_file" => PlanOf(c) = <<"DELETE">>
         /\ c.tool = "merge" => PlanOf(c) = <<"PUT", "GET">>
         /\ c.tool = "publish_review" =>
              PlanOf(c) = IF c.summary THEN <<"POST", "POST">> ELSE <<"POST">>
         /\ c.tool \in AnchoringTools => PlanOf(c) = <<"GET", "POST">>
         /\ c.tool = "update_hook" =>
              PlanOf(c) = IF InTwo(c) THEN <<"PUT", "PUT">> ELSE <<"PUT">>
         /\ c.tool = "delete_project" => PlanOf(c) = <<"DELETE", "GET">>
  BY DEF PlanOf, CarryingTools, AnchoringTools

LEMMA FirstRequestsAre ==
  ASSUME NEW c
  PROVE  /\ c.tool \in CarryingTools => FirstRequest(c) = FirstCarryingRequest(c)
         /\ c.tool \in FileTools => FirstRequest(c) = FileRequest(c)
         /\ c.tool = "update_merge_request" => FirstRequest(c) = FirstTitleRequest(c)
         /\ c.tool = "merge" => FirstRequest(c) = MergeRequest(c)
         /\ c.tool = "publish_review" => FirstRequest(c) = PostBulkPublish
         /\ c.tool \in AnchoringTools => FirstRequest(c) = Get
         /\ c.tool = "update_hook" => FirstRequest(c) = FirstHookRequest(c)
         /\ c.tool = "delete_project" => FirstRequest(c) = DeleteProject
  BY DEF FirstRequest, CarryingTools, FileTools, AnchoringTools, FirstReviewRequest

LEMMA HandlersAre ==
  /\ HandlerOf["update_variable"] = <<"gitlab_ci_variables", "update">>
  /\ HandlerOf["update_wiki_page"] = <<"gitlab_wikis", "update">>
  /\ HandlerOf["update_draft_note"] = <<"gitlab_mr_reviews", "update_draft_note">>
  /\ HandlerOf["update_file"] = <<"gitlab_files", "update">>
  /\ HandlerOf["delete_file"] = <<"gitlab_files", "delete">>
  /\ HandlerOf["update_merge_request"] = <<"gitlab_merge_requests", "update">>
  /\ HandlerOf["merge"] = <<"gitlab_merge_requests", "merge">>
  /\ HandlerOf["publish_review"] = <<"gitlab_mr_reviews", "publish_review">>
  /\ HandlerOf["create_discussion"] = <<"gitlab_mr_reviews", "create_discussion">>
  /\ HandlerOf["create_draft_note"] = <<"gitlab_mr_reviews", "create_draft_note">>
  /\ HandlerOf["update_hook"] = <<"gitlab_webhooks", "update">>
  /\ HandlerOf["delete_project"] = <<"gitlab_projects", "delete">>
  /\ DOMAIN HandlerOf = CarryingTools \cup FileTools \cup AnchoringTools \cup
       {"update_merge_request", "merge", "publish_review", "update_hook", "delete_project"}
  BY DEF HandlerOf, CarryingTools, FileTools, AnchoringTools

\* The methods of the requests.
LEMMA MethodsAre ==
  /\ Get.method = "GET" /\ DeleteProject.method = "DELETE"
  /\ PostBulkPublish.method = "POST" /\ PostSummary.method = "POST"
  /\ \A b : PutField(b).method = "PUT"
  /\ \A c : FileRequest(c).method = IF c.tool = "update_file" THEN "PUT" ELSE "DELETE"
  /\ \A t : PutTitle(t).method = "PUT"
  /\ \A c : MergeRequest(c).method = "PUT"
  /\ \A q : PostComment(q).method = "POST"
  /\ \A u, v, h, k : PutHook(u, v, h, k).method = "PUT"
<1>1. \A b : PutField(b).method = "PUT"
  BY DEF PutField
<1>2. \A c : FileRequest(c).method = IF c.tool = "update_file" THEN "PUT" ELSE "DELETE"
  BY DEF FileRequest
<1>3. \A t : PutTitle(t).method = "PUT"
  BY DEF PutTitle
<1>4. \A c : MergeRequest(c).method = "PUT"
  BY DEF MergeRequest
<1>5. \A q : PostComment(q).method = "POST"
  BY DEF PostComment
<1>6. \A u, v, h, k : PutHook(u, v, h, k).method = "PUT"
  BY DEF PutHook
<1>7. /\ Get.method = "GET" /\ DeleteProject.method = "DELETE"
      /\ PostBulkPublish.method = "POST" /\ PostSummary.method = "POST"
  BY DEF Get, DeleteProject, PostBulkPublish, PostSummary
<1>8. QED
  BY <1>1, <1>2, <1>3, <1>4, <1>5, <1>6, <1>7

\* The catalogue offers the plan of the call, and it begins with its request.
Planned(c) ==
  /\ c.tool \in DOMAIN HandlerOf
  /\ \E tool \in Catalogued!ToolNames : \E action \in Catalogued!ActionsOf(tool) :
       /\ HandlerOf[c.tool] = <<tool, action>>
       /\ PlanOf(c) \in Catalogued!Requests(tool, action)
  /\ PlanOf(c)[1] = FirstRequest(c).method

LEMMA PlannedSo ==
  ASSUME NEW c, c.tool \in DOMAIN HandlerOf, PlanOf(c)[1] = FirstRequest(c).method,
         NEW tool \in Catalogued!ToolNames, NEW action \in Catalogued!ActionsOf(tool),
         HandlerOf[c.tool] = <<tool, action>>,
         <<action, PlanOf(c)>> \in Catalogued!ToolRequests[tool]
  PROVE  Planned(c)
  BY PlanOffered DEF Planned

LEMMA CarryingPlanned ==
  ASSUME NEW c \in CarryingCalls
  PROVE  Planned(c)
<1> USE HandlersAre, ToolsNamed, RequestsOfTools, ActionsOfTools, PlannedSo
<1>1. c.tool \in CarryingTools /\ (c.passes => c.tool # "update_draft_note")
  BY DEF CarryingCalls
<1>2. PlanOf(c) = IF c.passes THEN <<"PUT">> ELSE <<"GET", "PUT">>
  BY <1>1, PlansAre
<1>3. PlanOf(c)[1] = FirstRequest(c).method
  BY <1>1, <1>2, FirstRequestsAre, MethodsAre DEF FirstCarryingRequest
<1>4. CASE c.tool = "update_variable"
  <2>1. <<"update", PlanOf(c)>> \in Catalogued!CiVariablesRequests
    BY <1>2 DEF Catalogued!CiVariablesRequests, Catalogued!MaybeGetThen
  <2>2. QED
    BY <1>1, <1>3, <1>4, <2>1
<1>5. CASE c.tool = "update_wiki_page"
  <2>1. <<"update", PlanOf(c)>> \in Catalogued!WikisRequests
    BY <1>2 DEF Catalogued!WikisRequests, Catalogued!MaybeGetThen
  <2>2. QED
    BY <1>1, <1>3, <1>5, <2>1
<1>6. CASE c.tool = "update_draft_note"
  <2>1. <<"update_draft_note", PlanOf(c)>> \in Catalogued!ReviewsRequests
    BY <1>1, <1>2, <1>6 DEF Catalogued!ReviewsRequests
  <2>2. QED
    BY <1>1, <1>3, <1>6, <2>1
<1>7. QED
  BY <1>1, <1>4, <1>5, <1>6 DEF CarryingTools

LEMMA FilePlanned ==
  ASSUME NEW c \in FileCallsOffered
  PROVE  Planned(c)
<1> USE HandlersAre, ToolsNamed, RequestsOfTools, ActionsOfTools, PlannedSo
<1>1. c.tool \in FileTools
  BY DEF FileCallsOffered
<1>2. CASE c.tool = "update_file"
  <2>1. <<"update", PlanOf(c)>> \in Catalogued!FilesRequests
    BY <1>2, PlansAre DEF Catalogued!FilesRequests, Catalogued!Put
  <2>2. PlanOf(c)[1] = FirstRequest(c).method
    BY <1>1, <1>2, PlansAre, FirstRequestsAre, MethodsAre
  <2>3. QED
    BY <1>1, <1>2, <2>1, <2>2
<1>3. CASE c.tool = "delete_file"
  <2>1. <<"delete", PlanOf(c)>> \in Catalogued!FilesRequests
    BY <1>3, PlansAre DEF Catalogued!FilesRequests, Catalogued!Delete
  <2>2. PlanOf(c)[1] = FirstRequest(c).method
    BY <1>1, <1>3, PlansAre, FirstRequestsAre, MethodsAre
  <2>3. QED
    BY <1>1, <1>3, <2>1, <2>2
<1>4. QED
  BY <1>1, <1>2, <1>3 DEF FileTools

LEMMA MergeRequestPlanned ==
  ASSUME NEW c, c \in TitleCalls \/ c \in MergeCalls
  PROVE  Planned(c)
<1> USE HandlersAre, ToolsNamed, RequestsOfTools, ActionsOfTools, PlannedSo
<1>1. CASE c \in TitleCalls
  <2>1. c.tool = "update_merge_request"
    BY <1>1 DEF TitleCalls
  <2>2. PlanOf(c) = IF c.passes THEN <<"PUT">> ELSE <<"GET", "PUT">>
    BY <2>1, PlansAre
  <2>3. <<"update", PlanOf(c)>> \in Catalogued!MergeRequestsRequests
    BY <2>2 DEF Catalogued!MergeRequestsRequests, Catalogued!MaybeGetThen
  <2>4. PlanOf(c)[1] = FirstRequest(c).method
    BY <2>1, <2>2, FirstRequestsAre, MethodsAre DEF FirstTitleRequest
  <2>5. QED
    BY <2>1, <2>3, <2>4
<1>2. CASE c \in MergeCalls
  <2>1. c.tool = "merge"
    BY <1>2 DEF MergeCalls
  <2>2. PlanOf(c) = <<"PUT", "GET">>
    BY <2>1, PlansAre
  <2>3. <<"merge", PlanOf(c)>> \in Catalogued!MergeRequestsRequests
    BY <2>2 DEF Catalogued!MergeRequestsRequests
  <2>4. PlanOf(c)[1] = FirstRequest(c).method
    BY <2>1, <2>2, FirstRequestsAre, MethodsAre
  <2>5. QED
    BY <2>1, <2>3, <2>4
<1>3. QED
  BY <1>1, <1>2

LEMMA ReviewPlanned ==
  ASSUME NEW c, c \in ReviewCallsOffered \/ c \in AnchoringCalls
  PROVE  Planned(c)
<1> USE HandlersAre, ToolsNamed, RequestsOfTools, ActionsOfTools, PlannedSo
<1>1. CASE c \in ReviewCallsOffered
  <2>1. c.tool = "publish_review"
    BY <1>1 DEF ReviewCallsOffered
  <2>2. PlanOf(c) = IF c.summary THEN <<"POST", "POST">> ELSE <<"POST">>
    BY <2>1, PlansAre
  <2>3. <<"publish_review", PlanOf(c)>> \in Catalogued!ReviewsRequests
    BY <2>2 DEF Catalogued!ReviewsRequests
  <2>4. PlanOf(c)[1] = FirstRequest(c).method
    BY <2>1, <2>2, FirstRequestsAre, MethodsAre
  <2>5. QED
    BY <2>1, <2>3, <2>4
<1>2. CASE c \in AnchoringCalls
  <2>1. c.tool \in AnchoringTools
    BY <1>2 DEF AnchoringCalls
  <2>2. PlanOf(c) = <<"GET", "POST">>
    BY <2>1, PlansAre
  <2>3. \A action \in {"create_discussion", "create_draft_note"} :
          <<action, PlanOf(c)>> \in Catalogued!ReviewsRequests
    BY <2>2 DEF Catalogued!ReviewsRequests, Catalogued!MaybeGetThen
  <2>4. PlanOf(c)[1] = FirstRequest(c).method
    BY <2>1, <2>2, FirstRequestsAre, MethodsAre
  <2>5. QED
    BY <2>1, <2>3, <2>4 DEF AnchoringTools
<1>3. QED
  BY <1>1, <1>2

LEMMA HookPlanned ==
  ASSUME NEW c \in HookCalls
  PROVE  Planned(c)
<1> USE HandlersAre, ToolsNamed, RequestsOfTools, ActionsOfTools, PlannedSo
<1>1. c.tool = "update_hook"
  BY DEF HookCalls
<1>2. PlanOf(c) = IF InTwo(c) THEN <<"PUT", "PUT">> ELSE <<"PUT">>
  BY <1>1, PlansAre
<1>3. <<"update", PlanOf(c)>> \in Catalogued!WebhooksRequests
  BY <1>2 DEF Catalogued!WebhooksRequests
<1>4. PlanOf(c)[1] = FirstRequest(c).method
  BY <1>1, <1>2, FirstRequestsAre, MethodsAre DEF FirstHookRequest
<1>5. QED
  BY <1>1, <1>3, <1>4

LEMMA ProjectPlanned ==
  ASSUME NEW c, c.tool = "delete_project"
  PROVE  Planned(c)
<1> USE HandlersAre, ToolsNamed, RequestsOfTools, ActionsOfTools, PlannedSo
<1>1. PlanOf(c) = <<"DELETE", "GET">>
  BY PlansAre
<1>2. <<"delete", PlanOf(c)>> \in Catalogued!ProjectsRequests
  BY <1>1 DEF Catalogued!ProjectsRequests
<1>3. PlanOf(c)[1] = FirstRequest(c).method
  BY <1>1, FirstRequestsAre, MethodsAre
<1>4. QED
  BY <1>2, <1>3

\* The request under way is one of the plan, and none but the calls of the
\* catalogue ask for one.
PlanInv ==
  /\ Handled => Planned(call)
  /\ Running => Handled
  /\ Running /\ request # FirstRequest(call) =>
       Len(PlanOf(call)) = 2 /\ PlanOf(call)[2] = request.method

LEMMA BeginsCatalogued ==
  ASSUME PlanInv, NoCallYet, call = NoCall, NEW c, NEW t, NEW first, Start(c, t, first),
         Planned(c), first = FirstRequest(c), first # NoRequest
  PROVE  Catalogued!Begin /\ PlanInv'
<1>1. call' = c /\ request' = first /\ result' = result /\ heard' = heard
  BY DEF Start, Ask
<1>2. ~Handled /\ ~Running
  BY HandlersAre, ToolsDiffer DEF Handled, NoCall, NoCallYet, Running
<1>3. Handled' /\ Running' /\ request' = FirstRequest(call')
  BY <1>1 DEF Handled, Running, Planned
<1>4. CatalogueHandler = <<"none", "none">>
  BY <1>2 DEF CatalogueHandler
<1>5. /\ CatalogueHandler' = HandlerOf[c.tool] /\ CataloguePlan' = PlanOf(c)
      /\ CatalogueAt' = 1 /\ CatalogueAsked' = PlanOf(c)[1]
  BY <1>1, <1>3 DEF CatalogueHandler, CataloguePlan, CatalogueAt, CatalogueAsked, Planned
<1>6. OutcomeOf(result)' = OutcomeOf(result)
  BY <1>1
<1>7. Catalogued!Begin
  BY <1>1, <1>4, <1>5, <1>6 DEF Catalogued!Begin, Catalogued!NoHandler, Planned
<1>8. PlanInv'
  BY <1>1, <1>3 DEF PlanInv
<1>9. QED
  BY <1>7, <1>8

LEMMA FirstRequestsAsk ==
  /\ \A c : FirstCarryingRequest(c) # NoRequest
  /\ \A c : FileRequest(c) # NoRequest
  /\ \A c : FirstTitleRequest(c) # NoRequest
  /\ \A c : MergeRequest(c) # NoRequest
  /\ \A c : FirstHookRequest(c) # NoRequest
  /\ PostBulkPublish # NoRequest
<1>1. \A c : FirstCarryingRequest(c) # NoRequest
  BY RequestParts DEF FirstCarryingRequest
<1>2. \A c : FileRequest(c) # NoRequest
  BY DEF FileRequest, NoRequest
<1>3. \A c : FirstTitleRequest(c) # NoRequest
  BY RequestParts DEF FirstTitleRequest
<1>4. \A c : MergeRequest(c) # NoRequest
  BY DEF MergeRequest, NoRequest
<1>5. \A c : FirstHookRequest(c) # NoRequest
  BY RequestParts DEF FirstHookRequest
<1>6. PostBulkPublish # NoRequest
  BY DEF PostBulkPublish, NoRequest
<1>7. QED
  BY <1>1, <1>2, <1>3, <1>4, <1>5, <1>6

LEMMA OutcomesAre ==
  /\ OutcomeOf(NoResult) = "none"
  /\ OutcomeOf([status |-> "cancelled"]) = "cancelled"
  /\ OutcomeOf([status |-> "diff_not_ready"]) = "own_error"
  /\ \A schema : OutcomeOf([status |-> "listed", schema |-> schema]) = "none"
  /\ \A r : r.status \in {"done", "deleted", "marked_for_deletion", "deletion_requested"}
            => OutcomeOf(r) = "ok"
  /\ \A why : OutcomeOf(Blocked(why)) = "refused" /\ OutcomeOf(Pending(why)) = "refused"
  /\ \A r : r.status = "error" =>
       OutcomeOf(r) = IF r.code \in {"failed", "too_large"} THEN "unknown"
                      ELSE IF r.code = "invalid_arguments" THEN "own_error" ELSE "refused"
<1>1. OutcomeOf(NoResult) = "none"
  BY DEF OutcomeOf, NoResult
<1>2. OutcomeOf([status |-> "cancelled"]) = "cancelled"
  BY DEF OutcomeOf
<1>3. OutcomeOf([status |-> "diff_not_ready"]) = "own_error"
  BY DEF OutcomeOf
<1>4. \A schema : OutcomeOf([status |-> "listed", schema |-> schema]) = "none"
  BY DEF OutcomeOf
<1>5. \A r : r.status \in {"done", "deleted", "marked_for_deletion", "deletion_requested"}
            => OutcomeOf(r) = "ok"
  BY DEF OutcomeOf
<1>6. \A why : OutcomeOf(Blocked(why)) = "refused" /\ OutcomeOf(Pending(why)) = "refused"
  BY DEF OutcomeOf, Blocked, Pending
<1>7. \A r : r.status = "error" =>
        OutcomeOf(r) = IF r.code \in {"failed", "too_large"} THEN "unknown"
                       ELSE IF r.code = "invalid_arguments" THEN "own_error" ELSE "refused"
  BY DEF OutcomeOf
<1>8. QED
  BY <1>1, <1>2, <1>3, <1>4, <1>5, <1>6, <1>7

LEMMA StartsCatalogued ==
  ASSUME PlanInv, Idle, StartCall
  PROVE  (Catalogued!Begin \/ UNCHANGED Catalogued!vars) /\ PlanInv'
<1> USE FirstRequestsAre, FirstRequestsAsk
<1>1. call = NoCall /\ NoCallYet
  BY StartsOne DEF Idle
<1>2. CASE StartCarrying
  <2>1. PICK c \in CarryingCalls : \E t \in CarriedFields(c) : Start(c, t, FirstCarryingRequest(c))
    BY <1>2 DEF StartCarrying
  <2>2. Planned(c) /\ FirstCarryingRequest(c) = FirstRequest(c)
    BY CarryingPlanned DEF CarryingCalls
  <2>3. QED
    BY <1>1, <2>1, <2>2, BeginsCatalogued
<1>3. CASE StartFile
  <2>1. PICK c \in FileCallsOffered : Start(c, FileAtStart, FileRequest(c))
    BY <1>3 DEF StartFile
  <2>2. Planned(c) /\ FileRequest(c) = FirstRequest(c)
    BY FilePlanned DEF FileCallsOffered
  <2>3. QED
    BY <1>1, <2>1, <2>2, BeginsCatalogued
<1>4. CASE StartTitle
  <2>1. PICK c \in TitleCalls : \E t \in TitlesAtStart : Start(c, t, FirstTitleRequest(c))
    BY <1>4 DEF StartTitle
  <2>2. Planned(c) /\ FirstTitleRequest(c) = FirstRequest(c)
    BY MergeRequestPlanned DEF TitleCalls
  <2>3. QED
    BY <1>1, <2>1, <2>2, BeginsCatalogued
<1>5. CASE StartMerge
  <2>1. PICK c \in MergeCalls : \E t \in MergeRequestsAtStart : Start(c, t, MergeRequest(c))
    BY <1>5 DEF StartMerge
  <2>2. Planned(c) /\ MergeRequest(c) = FirstRequest(c)
    BY MergeRequestPlanned DEF MergeCalls
  <2>3. QED
    BY <1>1, <2>1, <2>2, BeginsCatalogued
<1>6. CASE StartReview
  <2>1. PICK c \in ReviewCallsOffered : Start(c, ReviewAtStart, PostBulkPublish)
    BY <1>6 DEF StartReview, FirstReviewRequest
  <2>2. Planned(c) /\ PostBulkPublish = FirstRequest(c)
    BY ReviewPlanned DEF ReviewCallsOffered
  <2>3. QED
    BY <1>1, <2>1, <2>2, BeginsCatalogued
<1>7. CASE StartAnchoring
  <2>1. PICK c \in AnchoringCalls : \E t \in DiffsAtStart : Start(c, t, Get)
    BY <1>7 DEF StartAnchoring
  <2>2. Planned(c) /\ Get = FirstRequest(c)
    BY ReviewPlanned DEF AnchoringCalls
  <2>3. QED
    BY <1>1, <2>1, <2>2, BeginsCatalogued, DeleteIs
<1>8. CASE StartHook
  <2>1. PICK c \in HookCalls : \E t \in HooksAtStart : Start(c, t, FirstHookRequest(c))
    BY <1>8 DEF StartHook
  <2>2. Planned(c) /\ FirstHookRequest(c) = FirstRequest(c)
    BY HookPlanned DEF HookCalls
  <2>3. QED
    BY <1>1, <2>1, <2>2, BeginsCatalogued
<1>9. CASE StartProject
  <2>1. PICK t \in ProjectsAtStart : Start([tool |-> "delete_project"], t, DeleteProject)
    BY <1>9 DEF StartProject
  <2>2. [tool |-> "delete_project"].tool = "delete_project"
    OBVIOUS
  <2>3. /\ Planned([tool |-> "delete_project"])
        /\ DeleteProject = FirstRequest([tool |-> "delete_project"])
    BY <2>2, ProjectPlanned
  <2>4. QED
    BY <1>1, <2>1, <2>3, BeginsCatalogued, DeleteIs
<1>10. CASE ListTool
  <2>1. PICK actions, schema :
             /\ call' = [tool |-> "tools/list", actions |-> actions]
             /\ result' = [status |-> "listed", schema |-> schema]
             /\ request' = request /\ heard' = heard
    BY <1>10 DEF ListTool
  <2>2. ~Handled /\ ~Running /\ ~Handled' /\ ~Running'
    BY <1>1, <2>1, HandlersAre, ToolsDiffer DEF Handled, NoCall, NoCallYet, Running
  <2>3. UNCHANGED <<CatalogueHandler, CataloguePlan, CatalogueAt, CatalogueAsked>>
    BY <2>2 DEF CatalogueHandler, CataloguePlan, CatalogueAt, CatalogueAsked
  <2>4. OutcomeOf(result)' = OutcomeOf(result)
    BY <1>1, <2>1, OutcomesAre DEF NoCallYet
  <2>5. PlanInv'
    BY <2>2 DEF PlanInv
  <2>6. QED
    BY <2>1, <2>3, <2>4, <2>5 DEF Catalogued!vars
<1>11. QED
  BY <1>2, <1>3, <1>4, <1>5, <1>6, <1>7, <1>8, <1>9, <1>10 DEF StartCall

-----------------------------------------------------------------------------
(* Answers.                                                                 *)

LEMMA AskedSecond ==
  ASSUME PlanInv, Running, Handled, UNCHANGED call, NEW r, Ask(r), r # NoRequest,
         request = FirstRequest(call), r # FirstRequest(call),
         Len(PlanOf(call)) = 2, PlanOf(call)[2] = r.method,
         heard' = IF CatalogueHandler \in Catalogued!Fallback THEN "refused" ELSE "done"
  PROVE  Catalogued!Answer /\ PlanInv'
<1>1. request' = r /\ result' = result /\ call' = call
  BY DEF Ask
<1>2. Handled' /\ Running'
  BY <1>1 DEF Handled, Running
<1>3. /\ CatalogueHandler' = CatalogueHandler /\ CataloguePlan' = CataloguePlan
      /\ CataloguePlan = PlanOf(call)
      /\ CatalogueAt = 1 /\ CatalogueAt' = 2 /\ CatalogueAsked' = PlanOf(call)[2]
  BY <1>1, <1>2 DEF CatalogueHandler, CataloguePlan, CatalogueAt, CatalogueAsked
<1>4. OutcomeOf(result)' = OutcomeOf(result)
  BY <1>1
<1>5. Catalogued!Continues(CatalogueHandler, CataloguePlan, CatalogueAt, heard')
  BY <1>3 DEF Catalogued!Continues
<1>6. Catalogued!GoOn(heard')
  BY <1>3, <1>4, <1>5 DEF Catalogued!GoOn
<1>7. Catalogued!Answer
  BY <1>3, <1>6 DEF Catalogued!Answer
<1>8. PlanInv'
  BY <1>1, <1>2 DEF PlanInv, Handled
<1>9. QED
  BY <1>7, <1>8

LEMMA Ended ==
  ASSUME PlanInv, Running, Handled, UNCHANGED call, request' = NoRequest
  PROVE  /\ PlanInv'
         /\ \A outcomes : OutcomeOf(result') \in outcomes => Catalogued!End(outcomes)
         /\ UNCHANGED <<CatalogueHandler, CataloguePlan>>
         /\ CatalogueAt # 0
<1>1. ~Running' /\ Handled' = Handled
  BY DEF Running, Handled
<1>2. PlanInv'
  BY <1>1 DEF PlanInv, Handled
<1>3. UNCHANGED <<CatalogueHandler, CataloguePlan>>
  BY <1>1 DEF CatalogueHandler, CataloguePlan
<1>4. CatalogueAt' = 0 /\ CatalogueAsked' = "none" /\ CatalogueAt # 0
  BY <1>1 DEF CatalogueAt, CatalogueAsked
<1>5. ASSUME NEW outcomes, OutcomeOf(result') \in outcomes PROVE Catalogued!End(outcomes)
  BY <1>4, <1>5 DEF Catalogued!End
<1>6. QED
  BY <1>2, <1>3, <1>4, <1>5

\* How the handler ends is one of the catalogue's endings.
LEMMA EndsCatalogued ==
  ASSUME PlanInv, Running, Handled, UNCHANGED call, request' = NoRequest,
         heard' \in {"done", "refused", "unknown"},
         OutcomeOf(result') \in
           Catalogued!Endings(CatalogueHandler, CataloguePlan, CatalogueAt, heard')
  PROVE  Catalogued!Answer /\ PlanInv'
  BY Ended DEF Catalogued!Answer

LEMMA CancelsCatalogued ==
  ASSUME PlanInv, Cancelled
  PROVE  Catalogued!Disconnect /\ PlanInv'
<1>1. /\ Running /\ Handled /\ UNCHANGED <<call, heard>> /\ request' = NoRequest
      /\ result' = [status |-> "cancelled"]
  BY CancelledDoes DEF PlanInv, Cancelled
<1>2. OutcomeOf(result') \in {"cancelled"}
  BY <1>1, OutcomesAre
<1>3. QED
  BY <1>1, <1>2, Ended DEF Catalogued!Disconnect

LEMMA EndingsCover ==
  ASSUME NEW h, NEW p, Len(p) \in Nat, NEW at
  PROVE  /\ "unknown" \in Catalogued!Endings(h, p, at, "unknown")
         /\ ~(at = Len(p) /\ h \in Catalogued!Lenient)
              => "refused" \in Catalogued!Endings(h, p, at, "refused")
         /\ at = Len(p) /\ h \in Catalogued!Explained
              => \A verdict : "refused" \in Catalogued!Endings(h, p, at, verdict)
         /\ at = Len(p) /\ h \in Catalogued!Lenient /\ h \notin Catalogued!Explained
              => \A verdict : "ok" \in Catalogued!Endings(h, p, at, verdict)
         /\ at = Len(p) /\ h \notin Catalogued!Explained
              => "ok" \in Catalogued!Endings(h, p, at, "done")
         /\ at = Len(p) - 1 /\ h \in Catalogued!Fallback
              => "ok" \in Catalogued!Endings(h, p, at, "done")
         /\ p[at] = "GET" /\ h \in Catalogued!Particular
              => "own_error" \in Catalogued!Endings(h, p, at, "done")
  BY DEF Catalogued!Endings, Catalogued!Continues

LEMMA CatalogueIs ==
  ASSUME Running, Handled
  PROVE  /\ CatalogueHandler = HandlerOf[call.tool]
         /\ CataloguePlan = PlanOf(call)
         /\ CatalogueAt = IF request = FirstRequest(call) THEN 1 ELSE 2
  BY DEF CatalogueHandler, CataloguePlan, CatalogueAt

\* Handlers that raise what the client raised, or end well after their last
\* request, need no more than this.
LEMMA RaisesCatalogued ==
  ASSUME PlanInv, Running, Handled, UNCHANGED call, Len(CataloguePlan) \in Nat,
         NEW r, Return(r), r.status = "error", r.code # "invalid_arguments",
         heard' = (IF r.code \in {"failed", "too_large"} THEN "unknown" ELSE "refused"),
         \/ r.code \in {"failed", "too_large"}
         \/ ~(CatalogueAt = Len(CataloguePlan) /\ CatalogueHandler \in Catalogued!Lenient)
  PROVE  Catalogued!Answer /\ PlanInv'
<1>1. request' = NoRequest /\ result' = r
  BY DEF Return
<1>2. CASE r.code \in {"failed", "too_large"}
  <2>1. OutcomeOf(result') = "unknown"
    BY <1>1, <1>2, OutcomesAre
  <2>2. QED
    BY <1>1, <1>2, <2>1, EndingsCover, EndsCatalogued
<1>3. CASE r.code \notin {"failed", "too_large"}
  <2>1. OutcomeOf(result') = "refused"
    BY <1>1, <1>3, OutcomesAre
  <2>2. QED
    BY <1>1, <1>3, <2>1, EndingsCover, EndsCatalogued
<1>4. QED
  BY <1>2, <1>3

LEMMA DoneCatalogued ==
  ASSUME PlanInv, Running, Handled, UNCHANGED call, Len(CataloguePlan) \in Nat,
         NEW r, Return(r), r.status = "done", heard' = "done",
         CatalogueAt = Len(CataloguePlan),
         CatalogueHandler \notin Catalogued!Explained
  PROVE  Catalogued!Answer /\ PlanInv'
<1>1. request' = NoRequest /\ OutcomeOf(result') = "ok"
  BY OutcomesAre DEF Return
<1>2. QED
  BY <1>1, EndingsCover, EndsCatalogued

LEMMA Unusual ==
  ASSUME NEW t \in DOMAIN HandlerOf
  PROVE  /\ HandlerOf[t] \in Catalogued!Explained => t = "merge"
         /\ HandlerOf[t] \in Catalogued!Fallback => t = "merge"
         /\ HandlerOf[t] \in Catalogued!Lenient => t = "delete_project"
         /\ HandlerOf["merge"] \in Catalogued!Explained \cap Catalogued!Fallback
         /\ HandlerOf["delete_project"] \in Catalogued!Lenient
         /\ t \in {"update_variable"} \cup AnchoringTools
              => HandlerOf[t] \in Catalogued!Particular
<1>1. HandlerOf[t] = <<"gitlab_merge_requests", "merge">> => t = "merge"
  BY HandlersAre DEF CarryingTools, FileTools, AnchoringTools
<1>2. HandlerOf[t] = <<"gitlab_projects", "delete">> => t = "delete_project"
  BY HandlersAre DEF CarryingTools, FileTools, AnchoringTools
<1>3. /\ HandlerOf[t] # <<"gitlab_users", "get_current">>
      /\ HandlerOf[t] # <<"gitlab_jobs", "list_artifacts">>
  BY HandlersAre DEF CarryingTools, FileTools, AnchoringTools
<1>4. t \in {"update_variable"} \cup AnchoringTools => HandlerOf[t] \in Catalogued!Particular
  BY HandlersAre DEF AnchoringTools, Catalogued!Particular
<1>5. QED
  BY <1>1, <1>2, <1>3, <1>4, HandlersAre
     DEF Catalogued!Lenient, Catalogued!Explained, Catalogued!Fallback

LEMMA RaiseIs ==
  ASSUME NEW a
  PROVE  /\ Raise(a) => \E r : Return(r) /\ r.status = "error" /\ r.code = a.status
         /\ Return(Hinted(a)) => \E r : Return(r) /\ r.status = "error" /\ r.code = a.status
         /\ Done => \E r : Return(r) /\ r.status = "done"
<1>1. /\ [status |-> "error", code |-> a.status].status = "error"
      /\ [status |-> "error", code |-> a.status].code = a.status
      /\ Hinted(a).status = "error" /\ Hinted(a).code = a.status
      /\ [status |-> "done"].status = "done"
  BY DEF Hinted
<1>2. QED
  BY <1>1 DEF Raise, Done

LEMMA Usual ==
  ASSUME Running, Handled, call.tool \notin {"merge", "delete_project"}
  PROVE  CatalogueHandler \notin
           Catalogued!Explained \cup Catalogued!Lenient \cup Catalogued!Fallback
  BY CatalogueIs, Unusual DEF Handled

\* Statuses that GitLab never gives, or only to a merge.
OwnStatuses == {"invalid_arguments", "auto_merge_set"}

\* A GitLabError or a PayloadTooLargeError that the handler passes on.
LEMMA Raises ==
  ASSUME PlanInv, Running, Handled, UNCHANGED call, Len(CataloguePlan) \in Nat,
         NEW a, a.status \notin OwnStatuses, a.status # "ok", heard' = Verdict(a),
         Raise(a) \/ Return(Hinted(a)),
         \/ a.status = "too_large"
         \/ ~(CatalogueAt = Len(CataloguePlan) /\ CatalogueHandler \in Catalogued!Lenient)
  PROVE  Catalogued!Answer /\ PlanInv'
<1>1. heard' = (IF a.status \in {"failed", "too_large"} THEN "unknown" ELSE "refused")
  BY DEF Verdict, OwnStatuses
<1>2. PICK r : Return(r) /\ r.status = "error" /\ r.code = a.status
  BY RaiseIs
<1>3. QED
  BY <1>1, <1>2, RaisesCatalogued DEF OwnStatuses

\* The last request was done.
LEMMA Finishes ==
  ASSUME PlanInv, Running, Handled, UNCHANGED call, Len(CataloguePlan) \in Nat,
         NEW a, a.status = "ok", heard' = Verdict(a),
         CatalogueAt = Len(CataloguePlan), CatalogueHandler \notin Catalogued!Explained,
         NEW r, Return(r), r.status = "done"
  PROVE  Catalogued!Answer /\ PlanInv'
<1>1. heard' = "done"
  BY DEF Verdict
<1>2. QED
  BY <1>1, DoneCatalogued

LEMMA FileCatalogued ==
  ASSUME PlanInv, FileInv, Running, UNCHANGED call, call.tool \in FileTools,
         NEW a, heard' = Verdict(a), a.status \notin OwnStatuses,
         FileContinue(a)
  PROVE  Catalogued!Answer /\ PlanInv'
<1>1. Handled
  BY HandlersAre DEF Handled
<1>2. Len(PlanOf(call)) = 1
  BY PlansAre DEF FileTools
<1>3. request = FirstRequest(call)
  BY FirstRequestsAre DEF FileInv, Running
<1>4. CatalogueAt = Len(CataloguePlan) /\ Len(CataloguePlan) \in Nat
  BY <1>1, <1>2, <1>3, CatalogueIs
<1>5. CASE a.status = "ok"
  BY <1>1, <1>4, <1>5, Usual, ToolsDiffer, RaiseIs, Finishes DEF FileContinue
<1>6. CASE a.status # "ok"
  BY <1>1, <1>4, <1>6, Usual, ToolsDiffer, Raises DEF FileContinue
<1>7. QED
  BY <1>5, <1>6

LEMMA CarryingCatalogued ==
  ASSUME PlanInv, CarryingInv, Running, UNCHANGED call, call.tool \in CarryingTools,
         NEW a, heard' = Verdict(a), a.status \notin OwnStatuses,
         CarryingContinue(a),
         request = Get /\ a.status = "ok" /\ ~a.field.shown => call.tool = "update_variable"
  PROVE  Catalogued!Answer /\ PlanInv'
<1>1. Handled
  BY HandlersAre DEF Handled
<1>2. PlanOf(call) = IF call.passes THEN <<"PUT">> ELSE <<"GET", "PUT">>
  BY PlansAre
<1>3. FirstRequest(call) = FirstCarryingRequest(call)
  BY FirstRequestsAre
<1>4. Len(CataloguePlan) \in Nat
  BY <1>1, <1>2, CatalogueIs
<1>5. CASE a.status # "ok"
  BY <1>1, <1>4, <1>5, Usual, ToolsDiffer, Raises DEF CarryingContinue
<1>6. CASE a.status = "ok" /\ request = Get
  <2>1. ~call.passes /\ request = FirstRequest(call)
    BY <1>1, <1>2, <1>3, <1>6, PutFieldParts, MethodsAre DEF PlanInv, FirstCarryingRequest
  <2>2. CatalogueAt = 1 /\ CataloguePlan = <<"GET", "PUT">>
    BY <1>1, <1>2, <2>1, CatalogueIs
  <2>3. request.name = "get"
    BY <1>6 DEF Get
  <2>4. CASE ~a.field.shown
    <3>1. CatalogueHandler \in Catalogued!Particular
      BY <1>1, <1>6, <2>4, CatalogueIs, Unusual DEF Handled
    <3>2. Raise(Answer("invalid_arguments"))
      BY <1>6, <2>3, <2>4 DEF CarryingContinue
    <3>3. request' = NoRequest /\ OutcomeOf(result') = "own_error"
      <4>1. Answer("invalid_arguments").status = "invalid_arguments"
        BY DEF Answer
      <4>2. PICK r : Return(r) /\ r.status = "error" /\ r.code = "invalid_arguments"
        BY <3>2, <4>1, RaiseIs
      <4>3. QED
        BY <4>2, OutcomesAre DEF Return
    <3>4. heard' = "done"
      BY <1>6 DEF Verdict
    <3>5. QED
      BY <1>1, <1>4, <2>2, <3>1, <3>3, <3>4, EndingsCover, EndsCatalogued
  <2>5. CASE a.field.shown
    <3>1. PICK body : Ask(PutField(body))
      BY <1>6, <2>3, <2>5 DEF CarryingContinue
    <3>2. PutField(body) # NoRequest /\ PutField(body) # FirstRequest(call)
      BY <1>6, <2>1, PutFieldParts, RequestParts
    <3>3. QED
      BY <1>1, <1>2, <1>6, <2>1, <3>1, <3>2, MethodsAre, Usual, ToolsDiffer, AskedSecond DEF Verdict
  <2>6. QED
    BY <2>4, <2>5
<1>7. CASE a.status = "ok" /\ request # Get
  <2>1. request.name # "get"
    BY <1>7, PutFieldParts DEF CarryingInv, NoOlder, Running
  <2>2. CatalogueAt = Len(CataloguePlan)
    <3>1. CASE request = FirstRequest(call)
      BY <1>1, <1>2, <1>3, <1>7, <3>1, CatalogueIs DEF FirstCarryingRequest
    <3>2. CASE request # FirstRequest(call)
      BY <1>1, <3>2, CatalogueIs DEF PlanInv
    <3>3. QED
      BY <3>1, <3>2
  <2>3. Done
    BY <1>7, <2>1 DEF CarryingContinue
  <2>4. QED
    BY <1>1, <1>4, <1>7, <2>2, <2>3, Usual, ToolsDiffer, RaiseIs, Finishes
<1>8. QED
  BY <1>5, <1>6, <1>7

LEMMA TitleCatalogued ==
  ASSUME PlanInv, Running, UNCHANGED call, call.tool = "update_merge_request",
         NEW a, heard' = Verdict(a), a.status \notin OwnStatuses,
         TitleContinue(a)
  PROVE  Catalogued!Answer /\ PlanInv'
<1>1. Handled
  BY HandlersAre DEF Handled
<1>2. PlanOf(call) = IF call.passes THEN <<"PUT">> ELSE <<"GET", "PUT">>
  BY PlansAre
<1>3. FirstRequest(call) = FirstTitleRequest(call)
  BY FirstRequestsAre
<1>4. Len(CataloguePlan) \in Nat
  BY <1>1, <1>2, CatalogueIs
<1>5. CASE a.status # "ok"
  BY <1>1, <1>4, <1>5, Usual, Raises DEF TitleContinue
<1>6. CASE a.status = "ok" /\ request = Get
  <2>1. ~call.passes /\ request = FirstRequest(call)
    BY <1>1, <1>2, <1>3, <1>6, PutTitleParts, MethodsAre DEF PlanInv, FirstTitleRequest
  <2>2. PICK t : Ask(PutTitle(t))
    BY <1>6 DEF TitleContinue
  <2>3. PutTitle(t) # NoRequest /\ PutTitle(t) # FirstRequest(call)
    BY <1>6, <2>1, PutTitleParts, RequestParts
  <2>4. QED
    BY <1>1, <1>2, <1>6, <2>1, <2>2, <2>3, MethodsAre, Usual, ToolsDiffer, AskedSecond DEF Verdict
<1>7. CASE a.status = "ok" /\ request # Get
  <2>1. CatalogueAt = Len(CataloguePlan)
    <3>1. CASE request = FirstRequest(call)
      BY <1>1, <1>2, <1>3, <1>7, <3>1, CatalogueIs DEF FirstTitleRequest
    <3>2. CASE request # FirstRequest(call)
      BY <1>1, <3>2, CatalogueIs DEF PlanInv
    <3>3. QED
      BY <3>1, <3>2
  <2>2. Done
    BY <1>7 DEF TitleContinue
  <2>3. QED
    BY <1>1, <1>4, <1>7, <2>1, <2>2, Usual, RaiseIs, Finishes
<1>8. QED
  BY <1>5, <1>6, <1>7

LEMMA MergeCatalogued ==
  ASSUME PlanInv, MergeInv, Running, UNCHANGED call, call.tool = "merge",
         NEW a, heard' = Verdict(a), a.status # "invalid_arguments",
         MergeContinue(a)
  PROVE  Catalogued!Answer /\ PlanInv'
<1>1. Handled
  BY HandlersAre DEF Handled
<1>2. PlanOf(call) = <<"PUT", "GET">> /\ FirstRequest(call) = MergeRequest(call)
  BY PlansAre, FirstRequestsAre
<1>3. MergeRequest(call) # Get
  BY DEF MergeRequest, Get
<1>4. /\ CatalogueHandler \in Catalogued!Explained \cap Catalogued!Fallback
      /\ CatalogueHandler \notin Catalogued!Lenient
      /\ CataloguePlan = <<"PUT", "GET">> /\ Len(CataloguePlan) = 2
  BY <1>1, <1>2, CatalogueIs, Unusual DEF Handled
<1>5. \A r : Return(r) => request' = NoRequest /\ result' = r
  BY DEF Return
<1>6. CASE request = Get
  <2>1. CatalogueAt = 2
    BY <1>1, <1>2, <1>3, <1>6, CatalogueIs
  <2>2. CASE a.status = "too_large"
    BY <1>1, <1>4, <1>6, <2>2, Raises DEF MergeContinue, OwnStatuses
  <2>3. CASE a.status # "too_large"
    <3>1. request' = NoRequest /\ OutcomeOf(result') = "refused"
      <4>1. CASE a.status = "ok"
        BY <1>5, <1>6, <4>1, OutcomesAre DEF MergeContinue
      <4>2. CASE a.status # "ok"
        <5>1. Raise(Answer("not_mergeable")) /\ Answer("not_mergeable").status = "not_mergeable"
          BY <1>6, <2>3, <4>2 DEF MergeContinue, Answer
        <5>2. QED
          BY <1>5, <5>1, RaiseIs, OutcomesAre
      <4>3. QED
        BY <4>1, <4>2
    <3>2. heard' \in {"done", "refused", "unknown"}
      BY DEF Verdict
    <3>3. QED
      BY <1>1, <1>4, <2>1, <3>1, <3>2, EndingsCover, EndsCatalogued
  <2>4. QED
    BY <2>2, <2>3
<1>7. CASE request # Get
  <2>1. request = FirstRequest(call) /\ CatalogueAt = 1
    BY <1>1, <1>2, <1>7, CatalogueIs DEF MergeInv, Running
  <2>2. CASE a.status = "not_mergeable"
    <3>1. Ask(Get)
      BY <1>7, <2>2 DEF MergeContinue
    <3>2. QED
      BY <1>1, <1>2, <1>3, <1>4, <2>1, <2>2, <3>1, DeleteIs, MethodsAre, AskedSecond DEF Verdict
  <2>3. CASE a.status \in {"ok", "auto_merge_set"}
    <3>1. request' = NoRequest /\ OutcomeOf(result') = "ok"
      BY <1>5, <1>7, <2>3, RaiseIs, OutcomesAre DEF MergeContinue
    <3>2. CatalogueAt = Len(CataloguePlan) - 1 /\ Len(CataloguePlan) \in Nat
      BY <1>4, <2>1
    <3>3. "ok" \in
            Catalogued!Endings(CatalogueHandler, CataloguePlan, CatalogueAt, "done")
      BY <1>4, <3>2, EndingsCover
    <3>4. heard' = "done"
      BY <2>3 DEF Verdict
    <3>5. QED
      BY <1>1, <3>1, <3>3, <3>4, EndsCatalogued
  <2>4. CASE a.status \in {"conflict", "sha_required"}
    <3>1. request' = NoRequest /\ OutcomeOf(result') = "refused"
      BY <1>5, <1>7, <2>4, OutcomesAre DEF MergeContinue
    <3>2. "refused" \in
            Catalogued!Endings(CatalogueHandler, CataloguePlan, CatalogueAt, "refused")
      BY <1>4, EndingsCover
    <3>3. heard' = "refused"
      BY <2>4 DEF Verdict
    <3>4. QED
      BY <1>1, <3>1, <3>2, <3>3, EndsCatalogued
  <2>5. CASE a.status \notin {"not_mergeable", "ok", "auto_merge_set", "conflict", "sha_required"}
    BY <1>1, <1>4, <1>7, <2>5, Raises DEF MergeContinue, OwnStatuses
  <2>6. QED
    BY <2>2, <2>3, <2>4, <2>5
<1>8. QED
  BY <1>6, <1>7

LEMMA ReviewCatalogued ==
  ASSUME PlanInv, ReviewInv, Running, UNCHANGED call, call.tool = "publish_review",
         NEW a, heard' = Verdict(a), a.status \notin OwnStatuses,
         ReviewContinue(a)
  PROVE  Catalogued!Answer /\ PlanInv'
<1>1. Handled
  BY HandlersAre DEF Handled
<1>2. /\ PlanOf(call) = IF call.summary THEN <<"POST", "POST">> ELSE <<"POST">>
      /\ FirstRequest(call) = PostBulkPublish
  BY PlansAre, FirstRequestsAre
<1>3. Len(CataloguePlan) \in Nat
  BY <1>1, <1>2, CatalogueIs
<1>4. CASE a.status # "ok"
  <2>1. Return(Hinted(a)) \/ Raise(a)
    BY <1>4 DEF ReviewContinue, ReviewError
  <2>2. QED
    BY <1>1, <1>3, <1>4, <2>1, Usual, Raises
<1>5. CASE a.status = "ok" /\ request = PostBulkPublish /\ call.summary
  <2>1. Ask(PostSummary)
    BY <1>5 DEF ReviewContinue
  <2>2. QED
    BY <1>1, <1>2, <1>5, <2>1, PostsDiffer, RequestParts, MethodsAre, Usual, ToolsDiffer, AskedSecond DEF Verdict
<1>6. CASE a.status = "ok" /\ ~(request = PostBulkPublish /\ call.summary)
  <2>1. Done
    BY <1>6 DEF ReviewContinue
  <2>2. CatalogueAt = Len(CataloguePlan)
    <3>1. CASE request = PostBulkPublish
      BY <1>1, <1>2, <1>6, <3>1, CatalogueIs
    <3>2. CASE request # PostBulkPublish
      BY <1>1, <1>2, <3>2, CatalogueIs DEF PlanInv
    <3>3. QED
      BY <3>1, <3>2
  <2>3. QED
    BY <1>1, <1>3, <1>6, <2>1, <2>2, Usual, RaiseIs, Finishes
<1>7. QED
  BY <1>4, <1>5, <1>6

LEMMA AnchoringCatalogued ==
  ASSUME PlanInv, Running, UNCHANGED call, call.tool \in AnchoringTools,
         NEW a, heard' = Verdict(a), a.status \notin OwnStatuses,
         AnchoringContinue(a)
  PROVE  Catalogued!Answer /\ PlanInv'
<1>1. Handled
  BY HandlersAre DEF Handled
<1>2. PlanOf(call) = <<"GET", "POST">> /\ FirstRequest(call) = Get
  BY PlansAre, FirstRequestsAre
<1>3. CataloguePlan = <<"GET", "POST">> /\ Len(CataloguePlan) = 2
  BY <1>1, <1>2, CatalogueIs
<1>4. CASE a.status # "ok"
  BY <1>1, <1>3, <1>4, Usual, ToolsDiffer, Raises DEF AnchoringContinue
<1>5. CASE a.status = "ok" /\ request # Get
  <2>1. CatalogueAt = 2 /\ Done
    BY <1>1, <1>2, <1>5, CatalogueIs DEF AnchoringContinue
  <2>2. QED
    BY <1>1, <1>3, <1>5, <2>1, Usual, ToolsDiffer, RaiseIs, Finishes
<1>6. CASE a.status = "ok" /\ request = Get
  <2>1. CASE DiffReady(a.refs)
    <3>1. Ask(PostComment(a.refs))
      BY <1>6, <2>1 DEF AnchoringContinue
    <3>2. PostComment(a.refs) # NoRequest /\ PostComment(a.refs) # Get
      BY RequestParts, MethodsAre
    <3>3. QED
      BY <1>1, <1>2, <1>6, <3>1, <3>2, MethodsAre, Usual, ToolsDiffer, AskedSecond DEF Verdict
  <2>2. CASE ~DiffReady(a.refs)
    <3>1. request' = NoRequest /\ OutcomeOf(result') = "own_error"
      BY <1>6, <2>2, OutcomesAre DEF AnchoringContinue, Return
    <3>2. CatalogueAt = 1 /\ CatalogueHandler \in Catalogued!Particular
      BY <1>1, <1>2, <1>6, CatalogueIs, Unusual DEF Handled
    <3>3. heard' = "done"
      BY <1>6 DEF Verdict
    <3>4. QED
      BY <1>1, <1>3, <3>1, <3>2, <3>3, EndingsCover, EndsCatalogued
  <2>3. QED
    BY <2>1, <2>2
<1>7. QED
  BY <1>4, <1>5, <1>6

LEMMA HookCatalogued ==
  ASSUME PlanInv, HookInv, Running, UNCHANGED call, call.tool = "update_hook",
         NEW a, heard' = Verdict(a), a.status \notin OwnStatuses,
         HookContinue(a)
  PROVE  Catalogued!Answer /\ PlanInv'
<1>1. Handled
  BY HandlersAre DEF Handled
<1>2. /\ PlanOf(call) = IF InTwo(call) THEN <<"PUT", "PUT">> ELSE <<"PUT">>
      /\ FirstRequest(call) = FirstHookRequest(call)
  BY PlansAre, FirstRequestsAre
<1>3. Len(CataloguePlan) \in Nat
  BY <1>1, <1>2, CatalogueIs
<1>4. InTwo(call) => SecondHookRequest # FirstHookRequest(call)
  <2>1. PICK h : h = (call.headers /\ ~InTwo(call))
    OBVIOUS
  <2>2. FirstHookRequest(call).headers = h
    BY <2>1, PutHookParts DEF FirstHookRequest
  <2>3. SecondHookRequest.headers = TRUE
    BY DEF SecondHookRequest, PutHook
  <2>4. QED
    BY <2>1, <2>2, <2>3
<1>5. CASE a.status # "ok"
  BY <1>1, <1>3, <1>5, Usual, Raises DEF HookContinue
<1>6. CASE a.status = "ok" /\ InTwo(call) /\ kept = Nothing
  <2>1. Ask(SecondHookRequest)
    BY <1>6 DEF HookContinue
  <2>2. request = FirstRequest(call)
    BY <1>2, <1>6 DEF HookInv, Running
  <2>3. SecondHookRequest # NoRequest /\ SecondHookRequest.method = "PUT"
    BY RequestParts, MethodsAre DEF SecondHookRequest
  <2>4. QED
    BY <1>1, <1>2, <1>4, <1>6, <2>1, <2>2, <2>3, Usual, AskedSecond DEF Verdict
<1>7. CASE a.status = "ok" /\ ~(InTwo(call) /\ kept = Nothing)
  <2>1. PICK r : Return(r) /\ r.status = "done"
    BY <1>7 DEF HookContinue
  <2>2. CatalogueAt = Len(CataloguePlan)
    <3>1. CASE kept = Nothing
      <4>1. ~InTwo(call) /\ request = FirstRequest(call)
        BY <1>2, <1>7, <3>1 DEF HookInv, Running
      <4>2. QED
        BY <1>1, <1>2, <4>1, CatalogueIs
    <3>2. CASE kept # Nothing
      <4>1. InTwo(call) /\ request = SecondHookRequest
        BY <3>2 DEF HookInv, Running
      <4>2. QED
        BY <1>1, <1>2, <1>4, <4>1, CatalogueIs
    <3>3. QED
      BY <3>1, <3>2
  <2>3. QED
    BY <1>1, <1>3, <1>7, <2>1, <2>2, Usual, Finishes
<1>8. QED
  BY <1>5, <1>6, <1>7

LEMMA ProjectCatalogued ==
  ASSUME PlanInv, ProjectInv, Running, UNCHANGED call, call.tool = "delete_project",
         NEW a, heard' = Verdict(a), a.status \notin OwnStatuses,
         ProjectContinue(a)
  PROVE  Catalogued!Answer /\ PlanInv'
<1>1. Handled
  BY HandlersAre DEF Handled
<1>2. PlanOf(call) = <<"DELETE", "GET">> /\ FirstRequest(call) = DeleteProject
  BY PlansAre, FirstRequestsAre
<1>3. /\ CataloguePlan = <<"DELETE", "GET">> /\ Len(CataloguePlan) = 2
      /\ CatalogueHandler \in Catalogued!Lenient
      /\ CatalogueHandler \notin Catalogued!Explained \cup Catalogued!Fallback
  BY <1>1, <1>2, CatalogueIs, Unusual DEF Handled
<1>4. CASE request = DeleteProject
  <2>1. CatalogueAt = 1
    BY <1>1, <1>2, <1>4, CatalogueIs
  <2>2. CASE a.status = "ok"
    <3>1. Ask(Get)
      BY <1>4, <2>2 DEF ProjectContinue
    <3>2. QED
      BY <1>1, <1>2, <1>3, <1>4, <2>2, <3>1, DeleteIs, MethodsAre, AskedSecond DEF Verdict
  <2>3. CASE a.status # "ok"
    BY <1>1, <1>3, <1>4, <2>1, <2>3, Raises DEF ProjectContinue
  <2>4. QED
    BY <2>2, <2>3
<1>5. CASE request # DeleteProject
  <2>1. CatalogueAt = 2
    BY <1>1, <1>2, <1>5, CatalogueIs
  <2>2. CASE a.status = "too_large"
    BY <1>1, <1>3, <1>5, <2>2, Raises DEF ProjectContinue
  <2>3. CASE a.status # "too_large"
    <3>1. Return([status |-> DeletionStatus(a)])
      BY <1>5, <2>3 DEF ProjectContinue
    <3>2. /\ [status |-> DeletionStatus(a)].status = DeletionStatus(a)
          /\ DeletionStatus(a) \in {"deleted", "marked_for_deletion", "deletion_requested"}
      BY DEF DeletionStatus
    <3>3. request' = NoRequest /\ OutcomeOf(result') = "ok"
      BY <3>1, <3>2, OutcomesAre DEF Return
    <3>4. heard' \in {"done", "refused", "unknown"}
      BY DEF Verdict
    <3>5. "ok" \in Catalogued!Endings(CatalogueHandler, CataloguePlan, CatalogueAt, heard')
      BY <1>3, <2>1, EndingsCover
    <3>6. QED
      BY <1>1, <3>3, <3>4, <3>5, EndsCatalogued
  <2>4. QED
    BY <2>2, <2>3
<1>6. QED
  BY <1>4, <1>5

-----------------------------------------------------------------------------
(* Every step.                                                              *)

LEMMA ServedIsNotOwn ==
  ASSUME NEW r, NEW t
  PROVE  /\ \A s \in CarryingServed(r, t) : s.answer.status \notin OwnStatuses
         /\ \A s \in FileServed(r, t) : s.answer.status \notin OwnStatuses
         /\ \A s \in TitleServed(r, t) : s.answer.status \notin OwnStatuses
         /\ \A s \in MergeServed(r, t) : s.answer.status \notin {"invalid_arguments"}
         /\ \A s \in ReviewServed(r, t) : s.answer.status \notin OwnStatuses
         /\ \A s \in AnchoringServed(r, t) : s.answer.status \notin OwnStatuses
         /\ \A s \in HookServed(r, t) : s.answer.status \notin OwnStatuses
         /\ \A s \in ProjectServed(r, t) : s.answer.status \notin OwnStatuses
<1> USE DEF OwnStatuses
<1>1. \A s \in CarryingServed(r, t) : s.answer.status \notin OwnStatuses
  BY DEF CarryingServed, Answer
<1>2. \A s \in FileServed(r, t) : s.answer.status \notin OwnStatuses
  BY DEF FileServed, Answer
<1>3. \A s \in TitleServed(r, t) : s.answer.status \notin OwnStatuses
  BY DEF TitleServed, Answer
<1>4. \A s \in MergeServed(r, t) : s.answer.status \notin {"invalid_arguments"}
  BY DEF MergeServed, Answer
<1>5. \A s \in ReviewServed(r, t) : s.answer.status \notin OwnStatuses
  BY DEF ReviewServed, Answer
<1>6. \A s \in AnchoringServed(r, t) : s.answer.status \notin OwnStatuses
  BY DEF AnchoringServed, Answer
<1>7. \A s \in HookServed(r, t) : s.answer.status \notin OwnStatuses
  BY DEF HookServed
<1>8. \A s \in ProjectServed(r, t) : s.answer.status \notin OwnStatuses
  BY DEF ProjectServed, Answer
<1>9. QED
  BY <1>1, <1>2, <1>3, <1>4, <1>5, <1>6, <1>7, <1>8

LEMMA AnswerIsNotOwn ==
  ASSUME NEW own, own \cap {"none", "refused", "failed", "too_large"} = {},
         NEW served, \A s \in served : s.answer.status \notin own,
         NEW o \in Outcomes(served)
  PROVE  o.answer.status \notin own
<1>1. CASE o.answer.status \in {"none", "refused", "failed", "too_large"}
  BY <1>1
<1>2. CASE o.answer.status \notin {"none", "refused", "failed", "too_large"}
  <2>1. PICK s \in served : o = Outcome(s.thing, stray, s.answer)
    BY <1>2, AnswerIsServed
  <2>2. o.answer = s.answer
    BY <2>1 DEF Outcome
  <2>3. QED
    BY <2>2
<1>3. QED
  BY <1>1, <1>2

\* Only a variable's value can be hidden.
ShownInv ==
  call.tool \in CarryingTools => thing.shown \/ call.tool = "update_variable"

LEMMA HiddenIsAValue ==
  ASSUME ShownInv, call.tool \in CarryingTools,
         NEW o \in Outcomes(CarryingServed(request, thing)),
         request = Get, o.answer.status = "ok", ~o.answer.field.shown
  PROVE  call.tool = "update_variable"
<1>1. PICK s \in CarryingServed(request, thing) : o = Outcome(s.thing, stray, s.answer)
  BY AnswerIsServed
<1>2. o.answer = s.answer
  BY <1>1 DEF Outcome
<1>3. s.answer.field = thing
  BY DEF CarryingServed
<1>4. QED
  BY <1>2, <1>3 DEF ShownInv

LEMMA Stutters ==
  ASSUME PlanInv, UNCHANGED <<call, request, result, heard>>
  PROVE  UNCHANGED Catalogued!vars /\ PlanInv'
<1>1. Handled' = Handled /\ Running' = Running
  BY DEF Handled, Running
<1>2. UNCHANGED <<CatalogueHandler, CataloguePlan, CatalogueAt, CatalogueAsked>>
  BY <1>1 DEF CatalogueHandler, CataloguePlan, CatalogueAt, CatalogueAsked
<1>3. OutcomeOf(result)' = OutcomeOf(result)
  OBVIOUS
<1>4. PlanInv'
  BY <1>1 DEF PlanInv
<1>5. QED
  BY <1>2, <1>3, <1>4 DEF Catalogued!vars

\* What a step is to the catalogue: nothing, if the client only asks again.
Kept ==
  /\ \/ Catalogued!Answer \/ Catalogued!Disconnect
     \/ /\ UNCHANGED Catalogued!vars
        /\ request' = request /\ tries' \in {tries, tries - 1}
  /\ PlanInv'

LEMMA AsksAgain ==
  ASSUME PlanInv, NEW o, Deliver(o), o.answer = NoAnswer, AskAgain
  PROVE  Kept
<1>1. UNCHANGED <<call, request, result, heard>> /\ tries' = tries - 1
  BY DEF Deliver, Remember, AskAgain
<1>2. QED
  BY <1>1, Stutters DEF Kept

LEMMA OthersCatalogued ==
  ASSUME PlanInv,
         \/ \E r, served : CarriedOutLate(r, served)
         \/ \E t : SomebodyChanges(t)
  PROVE  Kept
<1>1. UNCHANGED <<call, request, tries, result, heard>>
  BY DEF CarriedOutLate, Remember, SomebodyChanges
<1>2. QED
  BY <1>1, Stutters DEF Kept

LEMMA StepsCatalogued ==
  ASSUME PlanInv, ShownInv, CallsInv, CallStep
  PROVE  Kept
<1> USE AsksAgain, OthersCatalogued
<1>1. \A o : Deliver(o) /\ o.answer # NoAnswer => UNCHANGED call /\ heard' = Verdict(o.answer)
  BY DEF Deliver, Remember
<1>2. CASE CarryingStep
  <2>1. ASSUME Running, call.tool \in CarryingTools,
               NEW o \in Outcomes(CarryingServed(request, thing)), Deliver(o),
               IF o.answer = NoAnswer THEN AskAgain ELSE CarryingContinue(o.answer)
        PROVE  Kept
    <3>1. \A s \in CarryingServed(request, thing) : s.answer.status \notin OwnStatuses
      BY ServedIsNotOwn
    <3>2. o.answer.status \notin OwnStatuses
      BY <3>1, AnswerIsNotOwn DEF OwnStatuses
    <3>3. request = Get /\ o.answer.status = "ok" /\ ~o.answer.field.shown
            => call.tool = "update_variable"
      BY <2>1, HiddenIsAValue
    <3>4. QED
      BY <1>1, <2>1, <3>2, <3>3, CarryingCatalogued DEF CallsInv, Kept
  <2>2. QED
    BY <1>2, <2>1 DEF CarryingStep
<1>3. CASE FileStep
  <2>1. ASSUME Running, call.tool \in FileTools,
               NEW o \in Outcomes(FileServed(request, thing)), Deliver(o),
               IF o.answer = NoAnswer THEN AskAgain ELSE FileContinue(o.answer)
        PROVE  Kept
    <3>1. \A s \in FileServed(request, thing) : s.answer.status \notin OwnStatuses
      BY ServedIsNotOwn
    <3>2. o.answer.status \notin OwnStatuses
      BY <3>1, AnswerIsNotOwn DEF OwnStatuses
    <3>3. QED
      BY <1>1, <2>1, <3>2, FileCatalogued DEF CallsInv, Kept
  <2>2. QED
    BY <1>3, <2>1 DEF FileStep
<1>4. CASE TitleStep
  <2>1. ASSUME Running, call.tool = "update_merge_request",
               NEW o \in Outcomes(TitleServed(request, thing)), Deliver(o),
               IF o.answer = NoAnswer THEN AskAgain ELSE TitleContinue(o.answer)
        PROVE  Kept
    <3>1. \A s \in TitleServed(request, thing) : s.answer.status \notin OwnStatuses
      BY ServedIsNotOwn
    <3>2. o.answer.status \notin OwnStatuses
      BY <3>1, AnswerIsNotOwn DEF OwnStatuses
    <3>3. QED
      BY <1>1, <2>1, <3>2, TitleCatalogued DEF Kept
  <2>2. QED
    BY <1>4, <2>1 DEF TitleStep
<1>5. CASE MergeStep
  <2>1. ASSUME Running, call.tool = "merge",
               NEW o \in Outcomes(MergeServed(request, thing)), Deliver(o),
               IF o.answer = NoAnswer THEN AskAgain ELSE MergeContinue(o.answer)
        PROVE  Kept
    <3>1. \A s \in MergeServed(request, thing) : s.answer.status \notin {"invalid_arguments"}
      BY ServedIsNotOwn
    <3>2. o.answer.status \notin {"invalid_arguments"}
      BY <3>1, AnswerIsNotOwn
    <3>3. QED
      BY <1>1, <2>1, <3>2, MergeCatalogued DEF CallsInv, Kept
  <2>2. QED
    BY <1>5, <2>1 DEF MergeStep
<1>6. CASE ReviewStep
  <2>1. ASSUME Running, call.tool = "publish_review",
               NEW o \in Outcomes(ReviewServed(request, thing)), Deliver(o),
               IF o.answer = NoAnswer THEN AskAgain ELSE ReviewContinue(o.answer)
        PROVE  Kept
    <3>1. \A s \in ReviewServed(request, thing) : s.answer.status \notin OwnStatuses
      BY ServedIsNotOwn
    <3>2. o.answer.status \notin OwnStatuses
      BY <3>1, AnswerIsNotOwn DEF OwnStatuses
    <3>3. QED
      BY <1>1, <2>1, <3>2, ReviewCatalogued DEF CallsInv, Kept
  <2>2. QED
    BY <1>6, <2>1 DEF ReviewStep
<1>7. CASE AnchoringStep
  <2>1. ASSUME Running, call.tool \in AnchoringTools,
               NEW o \in Outcomes(AnchoringServed(request, thing)), Deliver(o),
               IF o.answer = NoAnswer THEN AskAgain ELSE AnchoringContinue(o.answer)
        PROVE  Kept
    <3>1. \A s \in AnchoringServed(request, thing) : s.answer.status \notin OwnStatuses
      BY ServedIsNotOwn
    <3>2. o.answer.status \notin OwnStatuses
      BY <3>1, AnswerIsNotOwn DEF OwnStatuses
    <3>3. QED
      BY <1>1, <2>1, <3>2, AnchoringCatalogued DEF Kept
  <2>2. QED
    BY <1>7, <2>1 DEF AnchoringStep
<1>8. CASE HookStep
  <2>1. ASSUME Running, call.tool = "update_hook",
               NEW o \in Outcomes(HookServed(request, thing)), Deliver(o),
               IF o.answer = NoAnswer THEN AskAgain ELSE HookContinue(o.answer)
        PROVE  Kept
    <3>1. \A s \in HookServed(request, thing) : s.answer.status \notin OwnStatuses
      BY ServedIsNotOwn
    <3>2. o.answer.status \notin OwnStatuses
      BY <3>1, AnswerIsNotOwn DEF OwnStatuses
    <3>3. QED
      BY <1>1, <2>1, <3>2, HookCatalogued DEF CallsInv, Kept
  <2>2. QED
    BY <1>8, <2>1 DEF HookStep
<1>9. CASE ProjectStep
  <2>1. ASSUME Running, call.tool = "delete_project",
               NEW o \in Outcomes(ProjectServed(request, thing)), Deliver(o),
               IF o.answer = NoAnswer THEN AskAgain ELSE ProjectContinue(o.answer)
        PROVE  Kept
    <3>1. \A s \in ProjectServed(request, thing) : s.answer.status \notin OwnStatuses
      BY ServedIsNotOwn
    <3>2. o.answer.status \notin OwnStatuses
      BY <3>1, AnswerIsNotOwn DEF OwnStatuses
    <3>3. QED
      BY <1>1, <2>1, <3>2, ProjectCatalogued DEF CallsInv, Kept
  <2>2. QED
    BY <1>9, <2>1 DEF ProjectStep
<1>10. CASE Cancelled
  BY <1>10, CancelsCatalogued DEF Kept
<1>11. QED
  BY <1>2, <1>3, <1>4, <1>5, <1>6, <1>7, <1>8, <1>9, <1>10 DEF CallStep

LEMMA CarryingServedShown ==
  ASSUME NEW r, NEW t \in Fields, NEW s \in CarryingServed(r, t)
  PROVE  s.thing.shown = t.shown
  BY DEF CarryingServed, Fields

LEMMA ShownKeeps == CarryingInv /\ ShownInv /\ [CallsNext]_callVars => ShownInv'
<1> SUFFICES ASSUME CarryingInv, ShownInv, [CallsNext]_callVars PROVE ShownInv'
  OBVIOUS
<1>1. CASE StartCall
  <2>1. CASE StartCarrying
    <3>1. PICK c \in CarryingCalls : \E t \in CarriedFields(c) : Start(c, t, FirstCarryingRequest(c))
      BY <2>1 DEF StartCarrying
    <3>2. PICK t \in CarriedFields(c) : Start(c, t, FirstCarryingRequest(c))
      BY <3>1
    <3>3. call' = c /\ thing' = t
      BY <3>2 DEF Start
    <3>4. QED
      BY <3>3 DEF CarriedFields, ShownInv
  <2>2. CASE ~StartCarrying
    BY <1>1, <2>2, StartsOne, ToolsDiffer DEF ShownInv
  <2>3. QED
    BY <2>1, <2>2
<1>2. CASE CallStep
  <2>1. CASE call.tool \notin CarryingTools
    BY <1>2, <2>1, StepsOfOne DEF ShownInv
  <2>2. CASE call.tool \in CarryingTools
    <3>1. CarryingStep \/ Cancelled
      BY <1>2, <2>2, StepsOfOne, ToolsDiffer
    <3>2. call' = call /\ thing \in Fields
      BY <1>2, <2>2, StepsOfOne DEF CarryingInv
    <3>3. ASSUME NEW r, NEW s \in CarryingServed(r, thing), thing' = s.thing
          PROVE  thing'.shown = thing.shown
      BY <3>2, <3>3, CarryingServedShown
    <3>4. ASSUME NEW o \in Outcomes(CarryingServed(request, thing)), Deliver(o)
          PROVE  thing'.shown = thing.shown
      <4>1. thing' = thing \/ \E s \in CarryingServed(request, thing) : thing' = s.thing
        BY <3>4, DeliverDoes
      <4>2. QED
        BY <4>1, <3>3
    <3>5. ASSUME NEW r \in stray, CarriedOutLate(r, CarryingServed(r, thing))
          PROVE  thing'.shown = thing.shown
      <4>1. PICK s \in CarryingServed(r, thing) : thing' = s.thing
        BY <3>5 DEF CarriedOutLate
      <4>2. QED
        BY <4>1, <3>3
    <3>6. ASSUME SomebodyChanges([thing EXCEPT !.version = changes + 2])
          PROVE  thing'.shown = thing.shown
      BY <3>2, <3>6 DEF SomebodyChanges, Fields
    <3>7. CASE CarryingStep
      BY <3>2, <3>4, <3>5, <3>6, <3>7 DEF CarryingStep, ShownInv
    <3>8. CASE Cancelled
      BY <3>2, <3>8, CancelledDoes DEF ShownInv
    <3>9. QED
      BY <3>1, <3>7, <3>8
  <2>3. QED
    BY <2>1, <2>2
<1>3. CASE UNCHANGED callVars
  BY <1>3 DEF callVars, ShownInv
<1>4. QED
  BY <1>1, <1>2, <1>3 DEF CallsNext

LEMMA PlanKeeps ==
  ASSUME CallsInv, PlanInv, ShownInv, [CallsNext]_callVars
  PROVE  /\ PlanInv' /\ ShownInv'
         /\ [Catalogued!Begin \/ Catalogued!Answer \/ Catalogued!Disconnect]_(Catalogued!vars)
<1>1. ShownInv'
  BY ShownKeeps DEF CallsInv
<1>2. CASE StartCall
  BY <1>1, <1>2, StartsCatalogued DEF CallsInv
<1>3. CASE CallStep
  BY <1>1, <1>3, StepsCatalogued DEF Kept
<1>4. CASE UNCHANGED callVars
  BY <1>1, <1>4, Stutters DEF callVars
<1>5. QED
  BY <1>2, <1>3, <1>4 DEF CallsNext

LEMMA PlanInvInit == CallsInit => PlanInv /\ ShownInv /\ Catalogued!Init
<1> SUFFICES ASSUME CallsInit PROVE PlanInv /\ ShownInv /\ Catalogued!Init
  OBVIOUS
<1>1. call.tool = "none" /\ request = NoRequest /\ result = NoResult /\ heard = "none"
  BY DEF CallsInit, CallInit, NoCall
<1>2. ~Handled /\ ~Running
  BY <1>1, HandlersAre, ToolsDiffer DEF Handled, Running
<1>3. PlanInv /\ ShownInv
  BY <1>1, <1>2, ToolsDiffer DEF PlanInv, ShownInv
<1>4. Catalogued!Init
  BY <1>1, <1>2, OutcomesAre
     DEF Catalogued!Init, Catalogued!NoHandler, CatalogueHandler, CataloguePlan, CatalogueAt,
         CatalogueAsked
<1>5. QED
  BY <1>3, <1>4

\* The handlers that are written out keep to the catalogue, whatever GitLab,
\* other users and the network do: the requests each sends are those of one of
\* its plans, in order, and it ends as Endings allows.
THEOREM HandlersKeepToCatalogue == CallsSpec => KeepsToCatalogue
<1>1. CallsInv /\ PlanInv /\ ShownInv /\ [CallsNext]_callVars => PlanInv' /\ ShownInv'
  BY PlanKeeps
<1>2. CallsInv /\ PlanInv /\ ShownInv /\ [CallsNext]_callVars
        => [Catalogued!Begin \/ Catalogued!Answer \/ Catalogued!Disconnect]_(Catalogued!vars)
  BY PlanKeeps
<1>3. CallsInit => PlanInv /\ ShownInv /\ Catalogued!Init
  BY PlanInvInit
<1>4. QED
  BY <1>1, <1>2, <1>3, CallsInvariant, PTL DEF CallsSpec, KeepsToCatalogue, Catalogued!Spec

-----------------------------------------------------------------------------
(* A tool call runs out of attempts.                                        *)

\* Attempts the handler can still wait for, at most.
AttemptsLeft ==
  IF ~Running THEN 0
  ELSE (IF CatalogueAt = 1 THEN Retries + 1 ELSE 0) + tries + 1

\* Every attempt that ends leaves the handler fewer to wait for, and nothing
\* else that happens, late attempts and other users included, gives it more.
AttemptsRunOut ==
  [][/\ AwaitEnds => AttemptsLeft' < AttemptsLeft
     /\ call # NoCall => AttemptsLeft' <= AttemptsLeft]_callVars

LEMMA AttemptsBounded ==
  ASSUME CallsInv
  PROVE  AttemptsLeft \in 0..(2 * (Retries + 1))
  BY DEF CallsInv, CallSound, CallsTypeOK, AttemptsLeft

LEMMA SecondRequestIsFewer ==
  ASSUME NEW budget \in Nat, NEW t \in 0..budget, NEW u \in 0..budget
  PROVE  u + 1 < budget + 1 + t + 1 /\ u + 1 <= budget + 1 + t + 1
<1>1. u <= budget /\ 0 <= t /\ u \in Int /\ t \in Int /\ budget \in Int
  OBVIOUS
<1>2. QED
  BY <1>1

LEMMA StepsUseAttempts ==
  ASSUME CallsInv, CallsInv', PlanInv, ShownInv, CallStep
  PROVE  /\ AttemptsLeft' <= AttemptsLeft
         /\ AwaitEnds => AttemptsLeft' < AttemptsLeft
<1>1. Retries \in Nat /\ tries \in 0..Retries /\ tries' \in 0..Retries
  BY DEF CallsInv, CallSound, CallsTypeOK
<1>2. /\ CatalogueAt \in {0, 1, 2}
      /\ CatalogueAt = 0 => AttemptsLeft = 0
      /\ CatalogueAt = 1 => AttemptsLeft = Retries + 1 + tries + 1
      /\ CatalogueAt = 2 => AttemptsLeft = tries + 1
  BY <1>1 DEF CatalogueAt, AttemptsLeft
<1>3. /\ CatalogueAt' \in {0, 1, 2}
      /\ CatalogueAt' = 0 => AttemptsLeft' = 0
      /\ CatalogueAt' = 1 => AttemptsLeft' = Retries + 1 + tries' + 1
      /\ CatalogueAt' = 2 => AttemptsLeft' = tries' + 1
  <2>1. CatalogueAt' \in {0, 1, 2} /\ (~Running <=> CatalogueAt = 0)'
    BY DEF CatalogueAt
  <2>2. CatalogueAt' = 0 => AttemptsLeft' = 0
    BY <2>1 DEF AttemptsLeft
  <2>3. CatalogueAt' = 1 => AttemptsLeft' = Retries + 1 + tries' + 1
    BY <2>1 DEF AttemptsLeft
  <2>4. CatalogueAt' = 2 => AttemptsLeft' = tries' + 1
    BY <1>1, <2>1 DEF AttemptsLeft
  <2>5. QED
    BY <2>1, <2>2, <2>3, <2>4
<1>4. AwaitEnds => CatalogueAt # 0
  BY DEF AwaitEnds, CatalogueAt
<1>5. CASE CatalogueAt # 0 /\ CatalogueAt' = 0
  BY <1>1, <1>2, <1>3, <1>5
<1>6. CASE CatalogueAt = 1 /\ CatalogueAt' = 2
  <2>1. AttemptsLeft = Retries + 1 + tries + 1 /\ AttemptsLeft' = tries' + 1
    BY <1>2, <1>3, <1>6
  <2>2. QED
    BY <1>1, <2>1, SecondRequestIsFewer
<1>7. CASE CatalogueAt' = CatalogueAt /\ request' = request /\ tries' \in {tries, tries - 1}
  <2>1. AttemptsLeft' <= AttemptsLeft
    BY <1>1, <1>2, <1>3, <1>7
  <2>2. AwaitEnds => tries' = tries - 1
    BY <1>7 DEF AwaitEnds
  <2>3. QED
    BY <1>1, <1>2, <1>3, <1>4, <1>7, <2>1, <2>2
<1>8. Kept
  BY StepsCatalogued
<1>9. CASE Catalogued!Answer
  <2>1. CatalogueAt # 0 /\ (CatalogueAt' = CatalogueAt + 1 \/ CatalogueAt' = 0)
    BY <1>9 DEF Catalogued!Answer, Catalogued!GoOn, Catalogued!End
  <2>2. QED
    BY <1>2, <1>3, <1>5, <1>6, <2>1
<1>10. CASE Catalogued!Disconnect
  BY <1>5, <1>10 DEF Catalogued!Disconnect, Catalogued!End
<1>11. QED
  BY <1>7, <1>8, <1>9, <1>10 DEF Kept, Catalogued!vars

LEMMA AttemptsStill ==
  ASSUME CallsInv, UNCHANGED callVars
  PROVE  AttemptsLeft' <= AttemptsLeft /\ ~AwaitEnds
<1>1. UNCHANGED <<call, request, tries>>
  BY DEF callVars
<1>2. ~AwaitEnds
  BY <1>1 DEF AwaitEnds
<1>3. CatalogueAt' = CatalogueAt /\ (Running <=> Running')
  BY <1>1 DEF CatalogueAt, Running
<1>4. AttemptsLeft' = AttemptsLeft
  BY <1>1, <1>3 DEF AttemptsLeft
<1>5. AttemptsLeft \in Int
  <2>1. AttemptsLeft \in 0..(2 * (Retries + 1))
    BY AttemptsBounded
  <2>2. QED
    BY <2>1 DEF CallsInv, CallSound, CallsTypeOK
<1>6. QED
  BY <1>2, <1>4, <1>5

LEMMA CallsUseAttempts ==
  ASSUME CallsInv, CallsInv', PlanInv, ShownInv, [CallsNext]_callVars
  PROVE  [/\ AwaitEnds => AttemptsLeft' < AttemptsLeft
          /\ call # NoCall => AttemptsLeft' <= AttemptsLeft]_callVars
<1>1. CASE CallStep
  BY <1>1, StepsUseAttempts
<1>2. CASE StartCall
  <2>1. call = NoCall /\ ~Running
    BY <1>2, StartsOne DEF CallsInv, Idle, NoCallYet, Running
  <2>2. QED
    BY <2>1 DEF AwaitEnds
<1>3. QED
  BY <1>1, <1>2 DEF CallsNext

\* No handler waits for GitLab for ever: a call waits for at most two requests
\* of 1 + Retries attempts each, however others interfere.
THEOREM NoHandlerWaitsForEver ==
  CallsSpec => AttemptsRunOut /\ [](AttemptsLeft \in 0..(2 * (Retries + 1)))
<1>1. CallsInv => AttemptsLeft \in 0..(2 * (Retries + 1))
  BY AttemptsBounded
<1>2. CallsInv /\ PlanInv /\ ShownInv /\ [CallsNext]_callVars => PlanInv' /\ ShownInv'
  BY PlanKeeps
<1>3. CallsInit => PlanInv /\ ShownInv
  BY PlanInvInit
<1>4. CallsInv /\ CallsInv' /\ PlanInv /\ ShownInv /\ [CallsNext]_callVars
        => [/\ AwaitEnds => AttemptsLeft' < AttemptsLeft
            /\ call # NoCall => AttemptsLeft' <= AttemptsLeft]_callVars
  BY CallsUseAttempts
<1>5. QED
  BY <1>1, <1>2, <1>3, <1>4, CallsInvariant, PTL DEF CallsSpec, AttemptsRunOut

=============================================================================
