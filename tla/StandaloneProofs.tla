-------------------------- MODULE StandaloneProofs --------------------------
(* Proofs about Standalone, for any exit statuses of the children.           *)
EXTENDS Standalone, TLAPS

USE StandaloneAssumption

-----------------------------------------------------------------------------
\* A status made of a child's is a failure, and one a process can return.
LEMMA ExitStatusFails ==
  ASSUME NEW n \in Codes \cup {0}
  PROVE  ExitStatus(n) \in 1..255
  BY DEF ExitStatus

LEMMA IInvInit == Init => IInv
<1> SUFFICES ASSUME Init PROVE IInv
  OBVIOUS
<1>1. code \in [Children -> Codes \cup {0}] /\ child \in [Children -> States]
  BY DEF Init, States
<1>2. watching \in BOOLEAN /\ stop \in BOOLEAN /\ expired \in BOOLEAN /\ ~watching
  BY Zenon DEF Init
<1>3. pc \in Supervising /\ status \in 0..255
  BY DEF Init, Supervising
<1>4. TypeOK
  BY <1>1, <1>2, <1>3 DEF TypeOK
<1>5. child["server"] = "absent"
  BY DEF Init, Children
<1>6. QED
  BY <1>4, <1>5 DEF Init, IInv, Supervising

LEMMA IInvStep == IInv /\ [Next]_vars => IInv'
<1> SUFFICES ASSUME IInv, [Next]_vars PROVE IInv'
  OBVIOUS
<1> USE DEF IInv, TypeOK, Supervising, Stopping, Children, States, Alive
<1>1. CASE Start
  BY <1>1 DEF Start
<1>2. CASE StartFails
  BY <1>2 DEF StartFails, Raise
<1>3. CASE StopRequested
  BY <1>3 DEF StopRequested, Raise
<1>4. CASE NotStopped \/ AllRunning \/ Connected \/ NotConnected \/ TryAgain
  <2>1. CASE NotStopped \/ NotConnected \/ TryAgain
    BY <2>1 DEF NotStopped, NotConnected, TryAgain, Goto
  <2>2. CASE AllRunning
    BY <2>2 DEF AllRunning, Goto
  <2>3. CASE Connected
    BY <2>3 DEF Connected, Goto
  <2>4. QED
    BY <1>4, <2>1, <2>2, <2>3
<1>5. CASE ReportExit
  <2>1. PICK c \in Children : Raise(ExitStatus(code[c])) /\ UNCHANGED expired
    BY <1>5 DEF ReportExit
  <2>2. ExitStatus(code[c]) \in 1..255
    BY ExitStatusFails
  <2>3. QED
    BY <2>1, <2>2 DEF Raise
<1>6. CASE NotReady
  <2>1. pc' = "terminate" /\ status' = 1 /\ expired' = FALSE
        /\ UNCHANGED <<watching, stop, child, code>>
    BY <1>6 DEF NotReady, Raise
  <2>2. expired' \in BOOLEAN
    BY <2>1, Zenon
  <2>3. status' \in 0..255 /\ status' # 0
    BY <2>1
  <2>4. QED
    BY <2>1, <2>2, <2>3
<1>7. CASE Terminate
  BY <1>7 DEF Terminate, Goto
<1>8. ASSUME NEW c \in Children, Reap(c) PROVE IInv'
  BY <1>8 DEF Reap, Waiting, Goto
<1>9. ASSUME NEW c \in Children, Kill(c) PROVE IInv'
  BY <1>9 DEF Kill, Waiting
<1>10. CASE Signal
  BY <1>10 DEF Signal
<1>11. ASSUME NEW c \in Children, Listen(c) PROVE IInv'
  BY <1>11 DEF Listen
<1>12. ASSUME NEW c \in Children, Exit(c) PROVE IInv'
  BY <1>12 DEF Exit
<1>13. CASE Expire
  BY <1>13 DEF Expire
<1>14. CASE UNCHANGED vars
  BY <1>14 DEF vars
<1>15. QED
  BY <1>1, <1>2, <1>3, <1>4, <1>5, <1>6, <1>7, <1>8, <1>9, <1>10, <1>11,
     <1>12, <1>13, <1>14 DEF Next, Supervise

LEMMA IInvHolds == Spec => []IInv
<1>1. QED
  BY IInvInit, IInvStep, PTL DEF Spec

\* Types, with exit statuses that fit a process's, and that Caddy is never started
\* without the server.
THEOREM TypeCorrect == Spec => []TypeOK
<1>1. IInv => TypeOK
  BY DEF IInv
<1>2. QED
  BY <1>1, IInvHolds, PTL

-----------------------------------------------------------------------------
\* However supervise came to stop, it returns only when every process it
\* started has exited.
THEOREM NoOrphans == Spec => []NoChildLeft
<1>1. IInv => NoChildLeft
  BY DEF IInv, NoChildLeft, Children
<1>2. QED
  BY <1>1, IInvHolds, PTL

\* supervise returns 0 only after a stop signal.
THEOREM SuccessIsAsked == Spec => []SuccessWasAsked
<1>1. IInv => SuccessWasAsked
  BY DEF IInv, SuccessWasAsked, Supervising
<1>2. QED
  BY <1>1, IInvHolds, PTL

\* Caddy starts only behind a server that has listened.
THEOREM CaddyBehindServer == Spec => CaddyComesSecond
<1>1. IInv /\ [Next]_vars =>
        [child["caddy"] = "absent" /\ child'["caddy"] # "absent"
           => child["server"] \in {"up", "exited"}]_vars
  <2> SUFFICES ASSUME IInv, Next, child["caddy"] = "absent",
                      child'["caddy"] # "absent"
               PROVE  child["server"] \in {"up", "exited"}
    BY DEF vars
  <2> USE DEF IInv, TypeOK, Children
  <2>1. CASE Start
    BY <2>1 DEF Start
  <2>2. CASE Terminate
    BY <2>2 DEF Terminate
  <2>3. UNCHANGED child \/ Start \/ Terminate
        \/ \E c \in Children : Kill(c) \/ Listen(c) \/ Exit(c)
    BY DEF Next, Supervise, StartFails, StopRequested, NotStopped, ReportExit,
           AllRunning, Connected, NotConnected, NotReady, TryAgain, Raise, Goto,
           Reap, Signal, Expire
  <2>4. ASSUME NEW c \in Children, Kill(c) \/ Listen(c) \/ Exit(c)
        PROVE  FALSE
    BY <2>4 DEF Kill, Listen, Exit, Alive
  <2>5. QED
    BY <2>1, <2>2, <2>3, <2>4
<1>2. QED
  BY <1>1, IInvHolds, PTL DEF Spec, CaddyComesSecond

-----------------------------------------------------------------------------
(* Stopping both children runs out of steps.                                *)

Stage == CASE pc = "terminate" -> 3 [] pc = "wait_server" -> 2
           [] pc = "wait_caddy" -> 1 [] OTHER -> 0

\* A child that kill() may still be needed for.
MayNeedKill(c) == IF child[c] \in {"booting", "up", "told"} THEN 1 ELSE 0

StopStepsLeft == Stage + MayNeedKill("server") + MayNeedKill("caddy")

\* From the moment it stops, supervise takes a step of its own at most five times:
\* terminate(), and for each child wait() and perhaps kill().  It never goes back
\* to supervising, and no signal, child or clock gives it more to do.
StoppingRunsOut ==
  [][(pc \in Stopping) =>
       /\ StopStepsLeft \in 1..5
       /\ pc' \in Stopping \cup {"done"}
       /\ Supervise => StopStepsLeft' < StopStepsLeft
       /\ StopStepsLeft' <= StopStepsLeft]_vars

LEMMA StopStepsTyped == TypeOK => Stage \in 0..3 /\ StopStepsLeft \in 0..5
  BY DEF Stage, StopStepsLeft, MayNeedKill

\* What _stop_all does, and what happens around it, leaves less to be done.
LEMMA StopStepsSink ==
  ASSUME IInv, IInv', pc \in Stopping, Next
  PROVE  /\ pc' \in Stopping \cup {"done"}
         /\ Supervise => StopStepsLeft' < StopStepsLeft
         /\ StopStepsLeft' <= StopStepsLeft
<1> USE DEF IInv, TypeOK, Stopping, StopStepsLeft, Stage, MayNeedKill, Children
<1>1. CASE Terminate
  BY <1>1 DEF Terminate, Goto
<1>2. ASSUME NEW c \in Children, Reap(c)
      PROVE  pc' \in Stopping \cup {"done"} /\ StopStepsLeft' < StopStepsLeft
  BY <1>2 DEF Reap, Waiting, Goto
<1>3. ASSUME NEW c \in Children, Kill(c)
      PROVE  pc' = pc /\ StopStepsLeft' < StopStepsLeft
  BY <1>3 DEF Kill, Waiting
<1>4. Supervise => Terminate \/ \E c \in Children : Reap(c) \/ Kill(c)
  BY DEF Supervise, Start, StartFails, StopRequested, NotStopped, ReportExit,
         AllRunning, Connected, NotConnected, NotReady, TryAgain
<1>5. CASE Signal \/ Expire
  <2>1. UNCHANGED <<pc, child>> /\ ~Supervise
    BY <1>4, <1>5 DEF Signal, Expire, Terminate, Reap, Kill, Goto
  <2>2. QED
    BY <2>1
<1>6. ASSUME NEW c \in Children, Listen(c) \/ Exit(c)
      PROVE  pc' = pc /\ StopStepsLeft' <= StopStepsLeft
  BY <1>6 DEF Listen, Exit, Alive
<1>7. QED
  BY <1>1, <1>2, <1>3, <1>4, <1>5, <1>6, StopStepsTyped DEF Next

\* The part of SuperviseEnds that needs no fairness: however the children behave
\* while _stop_all waits for them, it has at most five steps to take.
THEOREM StoppingIsBounded == Spec => StoppingRunsOut
<1>1. IInv /\ IInv' /\ [Next]_vars =>
        [(pc \in Stopping) =>
           /\ StopStepsLeft \in 1..5
           /\ pc' \in Stopping \cup {"done"}
           /\ Supervise => StopStepsLeft' < StopStepsLeft
           /\ StopStepsLeft' <= StopStepsLeft]_vars
  <2>1. IInv /\ pc \in Stopping => StopStepsLeft \in 1..5
    BY DEF IInv, TypeOK, Stopping, StopStepsLeft, Stage, MayNeedKill
  <2>2. QED
    BY <2>1, StopStepsSink
<1>2. QED
  BY <1>1, IInvHolds, PTL DEF Spec, StoppingRunsOut

=============================================================================
