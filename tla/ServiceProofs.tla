--------------------------- MODULE ServiceProofs ---------------------------
(***************************************************************************)
(* Proofs about Service, for any number of operators and process ids: what *)
(* holds however commands overlap and are killed half-way, and what holds  *)
(* as long as they are given one after the other.                          *)
(***************************************************************************)
EXTENDS Service, Integers, TLAPS

USE ServiceAssumption

-----------------------------------------------------------------------------
(* Type correctness.                                                        *)

LEMMA TypeInit == Init => TypeOK
  BY DEF Init, TypeOK, Commands, Steps, ProcStates, Live, Targeting

\* The ways a function of the CLI goes on keep the command's own state typed.
LEMMA EndStopTyped ==
  ASSUME TypeOK, NEW o \in Operators, EndStop(o)
  PROVE  /\ pc' \in [Operators -> Steps]
         /\ phase' \in [Operators -> {"start", "stop"}]
         /\ content' \in [Operators -> Pids \cup {Absent, Empty}]
         /\ target' \in [Operators -> Pids \cup {Absent}]
         /\ \A a \in Operators : pc'[a] \in Targeting => target'[a] \in Pids
<1>1. CASE Return(o)
  BY <1>1 DEF TypeOK, Return, Goto, Steps, Targeting
<1>2. CASE ContinueWithStart(o)
  BY <1>2 DEF TypeOK, ContinueWithStart, Goto, Steps, Targeting
<1>3. QED
  BY <1>1, <1>2 DEF EndStop

LEMMA NotRunningTyped ==
  ASSUME TypeOK, NEW o \in Operators, NotRunning(o)
  PROVE  /\ pc' \in [Operators -> Steps]
         /\ phase' \in [Operators -> {"start", "stop"}]
         /\ content' \in [Operators -> Pids \cup {Absent, Empty}]
         /\ target' \in [Operators -> Pids \cup {Absent}]
         /\ \A a \in Operators : pc'[a] \in Targeting => target'[a] \in Pids
<1>1. CASE EndStop(o)
  BY <1>1, EndStopTyped
<1>2. CASE /\ Goto(o, "spawn")
           /\ content' = [content EXCEPT ![o] = Absent]
           /\ UNCHANGED <<phase, target>>
  BY <1>2 DEF TypeOK, Goto, Steps, Targeting
<1>3. QED
  BY <1>1, <1>2 DEF NotRunning

LEMMA RunningTyped ==
  ASSUME TypeOK, NEW o \in Operators, NEW p \in Pids, Running(o, p)
  PROVE  /\ pc' \in [Operators -> Steps]
         /\ phase' \in [Operators -> {"start", "stop"}]
         /\ content' \in [Operators -> Pids \cup {Absent, Empty}]
         /\ target' \in [Operators -> Pids \cup {Absent}]
         /\ \A a \in Operators : pc'[a] \in Targeting => target'[a] \in Pids
<1>1. CASE Return(o)
  BY <1>1 DEF TypeOK, Return, Goto, Steps, Targeting
<1>2. CASE /\ Goto(o, "term")
           /\ target' = [target EXCEPT ![o] = p]
           /\ UNCHANGED <<phase, content>>
  BY <1>2 DEF TypeOK, Goto, Steps, Targeting
<1>3. QED
  BY <1>1, <1>2 DEF Running

LEMMA TypeStep == TypeOK /\ [Next]_vars => TypeOK'
<1> SUFFICES ASSUME TypeOK, [Next]_vars PROVE TypeOK'
  OBVIOUS
<1> USE DEF file
<1>1. ASSUME NEW o \in Operators, Begin(o) PROVE TypeOK'
  BY <1>1 DEF TypeOK, Begin, Goto, Commands, Steps, Targeting
<1>2. ASSUME NEW o \in Operators, Read(o) PROVE TypeOK'
  <2>1. CASE NotRunning(o)
    BY <1>2, <2>1, NotRunningTyped DEF TypeOK, Read
  <2>2. CASE /\ content' = [content EXCEPT ![o] = pidFile]
             /\ Goto(o, "check")
             /\ UNCHANGED <<phase, target>>
    BY <1>2, <2>2 DEF TypeOK, Read, Goto, Steps, Targeting
  <2>3. QED
    BY <1>2, <2>1, <2>2 DEF Read
<1>3. ASSUME NEW o \in Operators, Check(o) PROVE TypeOK'
  <2>1. CASE content[o] \in Pids /\ IsAlive(content[o])
    BY <1>3, <2>1, RunningTyped DEF TypeOK, Check
  <2>2. CASE ~(content[o] \in Pids /\ IsAlive(content[o]))
    BY <1>3, <2>2 DEF TypeOK, Check, Goto, Steps, Targeting
  <2>3. QED
    BY <2>1, <2>2
<1>4. ASSUME NEW o \in Operators, Discard(o) PROVE TypeOK'
  BY <1>4, NotRunningTyped DEF TypeOK, Discard, RemoveFile
<1>5. ASSUME NEW o \in Operators, Spawn(o) PROVE TypeOK'
  <2>1. PICK p \in Pids : /\ proc' = [proc EXCEPT ![p] = "booting"]
                          /\ target' = [target EXCEPT ![o] = p]
    BY <1>5 DEF Spawn, Fresh
  <2>2. QED
    BY <1>5, <2>1 DEF TypeOK, Spawn, Goto, Steps, Targeting, ProcStates, Live
<1>16. ASSUME NEW o \in Operators, SpawnFails(o) PROVE TypeOK'
  BY <1>16 DEF TypeOK, SpawnFails, Return, Goto, Steps, Targeting
<1>6. ASSUME NEW o \in Operators, Open(o) PROVE TypeOK'
  BY <1>6 DEF TypeOK, Open, Goto, Steps, Targeting
<1>7. ASSUME NEW o \in Operators, Write(o) PROVE TypeOK'
  BY <1>7 DEF TypeOK, Write, Return, Goto, Steps, Targeting
<1>8. ASSUME NEW o \in Operators, Term(o) PROVE TypeOK'
  BY <1>8 DEF TypeOK, Term, Goto, Steps, Targeting, ProcStates, Live
<1>9. ASSUME NEW o \in Operators, Gone(o) \/ Deadline(o) PROVE TypeOK'
  BY <1>9 DEF TypeOK, Gone, Deadline, Goto, Steps, Targeting
<1>10. ASSUME NEW o \in Operators, Kill(o) PROVE TypeOK'
  BY <1>10 DEF TypeOK, Kill, Goto, Steps, Targeting, ProcStates, Live
<1>11. ASSUME NEW o \in Operators, Unlink(o) PROVE TypeOK'
  BY <1>11, EndStopTyped DEF TypeOK, Unlink, RemoveFile
<1>12. ASSUME NEW o \in Operators, Interrupt(o) PROVE TypeOK'
  BY <1>12 DEF TypeOK, Interrupt, Return, Goto, Steps, Targeting
<1>13. ASSUME NEW p \in Pids, Bind(p) \/ Exit(p) PROVE TypeOK'
  BY <1>13 DEF TypeOK, Bind, Exit, ProcStates, Live
<1>14. CASE UNCHANGED vars
  BY <1>14 DEF TypeOK, vars
<1>15. QED
  BY <1>1, <1>2, <1>3, <1>4, <1>5, <1>6, <1>7, <1>8, <1>9, <1>10, <1>11,
     <1>12, <1>13, <1>14, <1>16 DEF Next, Progress

\* Types, however many commands run at a time and wherever they are killed.
THEOREM TypeCorrect == Spec => []TypeOK
<1>1. QED
  BY TypeInit, TypeStep, PTL DEF Spec

-----------------------------------------------------------------------------
(* stop ends its process, whatever other commands do meanwhile.             *)

\* From the moment stop has forced its process, that process stays ended: its
\* id is not handed out again while the command remembers it.
Forced ==
  \A o \in Operators :
    pc[o] = "unlink" => proc[target[o]] \in {"gone", "doomed"}

LEMMA ForcedStep == TypeOK /\ Forced /\ [Next]_vars => Forced'
<1> SUFFICES ASSUME TypeOK, Forced, [Next]_vars,
                    NEW a \in Operators, pc'[a] = "unlink"
             PROVE  proc'[target'[a]] \in {"gone", "doomed"}
  BY DEF Forced
<1> USE DEF TypeOK, Forced, Goto
<1>1. ASSUME NEW o \in Operators,
             Begin(o) \/ Read(o) \/ Check(o) \/ Discard(o) \/ Open(o) \/ Write(o)
             \/ Gone(o) \/ Deadline(o) \/ Unlink(o) \/ Interrupt(o) \/ SpawnFails(o)
      PROVE  proc'[target'[a]] \in {"gone", "doomed"}
  <2>1. proc' = proc /\ \A b \in Operators \ {o} : pc'[b] = pc[b] /\ target'[b] = target[b]
    BY <1>1 DEF Begin, Read, Check, Discard, Open, Write, Gone, Deadline, Unlink,
                Interrupt, SpawnFails, Running, NotRunning, EndStop, Return, ContinueWithStart
  <2>2. pc'[o] # "unlink"
    BY <1>1 DEF Begin, Read, Check, Discard, Open, Write, Gone, Deadline, Unlink,
                Interrupt, SpawnFails, Running, NotRunning, EndStop, Return, ContinueWithStart
  <2>3. QED
    BY <2>1, <2>2
<1>2. ASSUME NEW o \in Operators, Spawn(o)
      PROVE  proc'[target'[a]] \in {"gone", "doomed"}
  <2>1. PICK p \in Fresh : /\ proc' = [proc EXCEPT ![p] = "booting"]
                           /\ target' = [target EXCEPT ![o] = p]
    BY <1>2 DEF Spawn
  <2>2. a # o /\ pc[a] = "unlink"
    BY <1>2 DEF Spawn
  <2>3. target'[a] = target[a] /\ target[a] # p
    BY <2>1, <2>2 DEF Fresh
  <2>4. QED
    BY <2>1, <2>2, <2>3 DEF Targeting
<1>3. ASSUME NEW o \in Operators, Term(o)
      PROVE  proc'[target'[a]] \in {"gone", "doomed"}
  BY <1>3 DEF Term, Targeting
<1>4. ASSUME NEW o \in Operators, Kill(o)
      PROVE  proc'[target'[a]] \in {"gone", "doomed"}
  BY <1>4 DEF Kill, Targeting, ProcStates, Live
<1>5. ASSUME NEW p \in Pids, Bind(p) \/ Exit(p)
      PROVE  proc'[target'[a]] \in {"gone", "doomed"}
  BY <1>5 DEF Bind, Exit, Targeting
<1>6. CASE UNCHANGED vars
  BY <1>6 DEF vars
<1>7. QED
  BY <1>1, <1>2, <1>3, <1>4, <1>5, <1>6 DEF Next, Progress

LEMMA ForcedHolds == Spec => [](TypeOK /\ Forced)
<1>1. Init => Forced
  BY DEF Init, Forced
<1>2. QED
  BY <1>1, TypeInit, TypeStep, ForcedStep, PTL DEF Spec

\* When stop gives up the pid file its process is gone or has its SIGKILL, for
\* any number of concurrent commands and with commands killed half-way.
THEOREM StopEndsItsProcess == Spec => StopStops
<1>1. Forced /\ TypeOK => \A o \in Operators :
        pc[o] = "unlink" /\ pc'[o] # "unlink" /\ target[o] \in Pids
          => proc[target[o]] \in {"gone", "doomed"}
  BY DEF Forced
<1>2. QED
  BY <1>1, ForcedHolds, PTL DEF StopStops

-----------------------------------------------------------------------------
(* Commands in order: the pid file names the server.                        *)

\* What the end of stop, or of a start that found the server running, leaves.
LEMMA EndStopKeepsKnown ==
  ASSUME TypeOK, NEW o \in Operators, EndStop(o), UNCHANGED proc,
         linked' = {}, \A p \in Pids : proc[p] \in Live => pidFile' = p
  PROVE  Known(o)'
<1>1. pc'[o] \in {"idle", "read"}
  BY DEF EndStop, Return, ContinueWithStart, Goto, TypeOK
<1>2. QED
  BY <1>1 DEF Known

LEMMA NotRunningKeepsKnown ==
  ASSUME TypeOK, NEW o \in Operators, NotRunning(o), UNCHANGED proc,
         linked' = {}, \A p \in Pids : proc[p] \notin Live
  PROVE  Known(o)'
<1>1. CASE EndStop(o)
  BY <1>1, EndStopKeepsKnown
<1>2. CASE Goto(o, "spawn")
  <2>1. pc'[o] = "spawn"
    BY <1>2 DEF Goto, TypeOK
  <2>2. QED
    BY <2>1 DEF Known
<1>3. QED
  BY <1>1, <1>2 DEF NotRunning

LEMMA KnownStep ==
  ASSUME TypeOK, NEW o \in Operators, Known(o),
         \/ Begin(o) \/ Progress(o)
         \/ \E p \in Pids : Bind(p) \/ Exit(p)
         \/ UNCHANGED vars
  PROVE  Known(o)'
<1> USE DEF TypeOK, Goto, file
<1>1. CASE Begin(o)
  BY <1>1 DEF Known, Begin
<1>2. CASE Read(o)
  <2>1. CASE pidFile = Absent /\ NotRunning(o)
    <3>1. linked' = {} /\ \A p \in Pids : proc[p] \notin Live
      BY <1>2, <2>1 DEF Known, Read
    <3>2. QED
      BY <1>2, <2>1, <3>1, NotRunningKeepsKnown DEF Read
  <2>2. CASE /\ content' = [content EXCEPT ![o] = pidFile]
             /\ Goto(o, "check")
    BY <1>2, <2>2 DEF Known, Read
  <2>3. QED
    BY <1>2, <2>1, <2>2 DEF Read
<1>3. CASE Check(o)
  <2>1. pidFile = content[o] /\ linked = {}
        /\ \A p \in Pids : proc[p] \in Live => pidFile = p
    BY <1>3 DEF Known, Check
  <2>2. CASE content[o] \in Pids /\ IsAlive(content[o])
    <3>1. Running(o, content[o]) /\ UNCHANGED <<pidFile, linked, proc>>
      BY <1>3, <2>2 DEF Check
    <3>2. pc'[o] = "idle" \/ (pc'[o] = "term" /\ target'[o] = content[o])
      BY <3>1 DEF Running, Return
    <3>3. QED
      BY <2>1, <3>1, <3>2 DEF Known
  <2>3. CASE ~(content[o] \in Pids /\ IsAlive(content[o]))
    <3>1. pc'[o] = "discard" /\ UNCHANGED <<pidFile, linked, proc, content>>
      BY <1>3, <2>3 DEF Check
    <3>2. \A p \in Pids : proc[p] \notin Live
      BY <2>1, <2>3 DEF IsAlive, Live
    <3>3. QED
      BY <2>1, <3>1, <3>2 DEF Known
  <2>4. QED
    BY <2>2, <2>3
<1>4. CASE Discard(o)
  <2>1. \A p \in Pids : proc[p] \notin Live
    BY <1>4 DEF Known, Discard
  <2>2. QED
    BY <1>4, <2>1, NotRunningKeepsKnown DEF Discard, RemoveFile
<1>5. CASE Spawn(o)
  <2>1. PICK q \in Pids : /\ proc' = [proc EXCEPT ![q] = "booting"]
                          /\ target' = [target EXCEPT ![o] = q]
    BY <1>5 DEF Spawn, Fresh
  <2>2. linked' = {} /\ pc'[o] = "open" /\ target'[o] = q
    BY <1>5, <2>1 DEF Known, Spawn
  <2>3. \A p \in Pids : proc'[p] \in Live => p = q
    BY <1>5, <2>1 DEF Known, Spawn
  <2>4. QED
    BY <2>2, <2>3 DEF Known
<1>6. CASE Open(o)
  BY <1>6 DEF Known, Open
<1>7. CASE Write(o)
  BY <1>7 DEF Known, Write, Return
<1>8. CASE Term(o)
  <2>1. UNCHANGED <<pidFile, linked, target>> /\ linked = {} /\ pc'[o] = "await"
    BY <1>8 DEF Known, Term
  <2>2. \A p \in Pids : proc'[p] \in Live => pidFile = p /\ target[o] = p
    BY <1>8 DEF Known, Term, Live
  <2>3. QED
    BY <2>1, <2>2 DEF Known
<1>9. CASE Gone(o) \/ Deadline(o)
  BY <1>9 DEF Known, Gone, Deadline
<1>10. CASE Kill(o)
  <2>1. linked' = {} /\ pc'[o] = "unlink"
    BY <1>10 DEF Known, Kill
  <2>2. \A p \in Pids : proc'[p] \notin Live
    BY <1>10 DEF Known, Kill, Live, ProcStates
  <2>3. QED
    BY <2>1, <2>2 DEF Known
<1>11. CASE Unlink(o)
  <2>1. \A p \in Pids : proc[p] \notin Live
    BY <1>11 DEF Known, Unlink
  <2>2. QED
    BY <1>11, <2>1, EndStopKeepsKnown DEF Unlink, RemoveFile
<1>12. ASSUME NEW p \in Pids, Bind(p) \/ Exit(p) PROVE Known(o)'
  <2>1. UNCHANGED <<pidFile, linked, pc, content, target>>
    BY <1>12 DEF Bind, Exit
  <2>2. \A q \in Pids : proc'[q] \in Live => proc[q] \in Live
    BY <1>12 DEF Bind, Exit, Live
  <2>3. QED
    BY <2>1, <2>2 DEF Known
<1>13. CASE UNCHANGED vars
  BY <1>13 DEF Known, vars
<1>14. CASE SpawnFails(o)
  BY <1>14 DEF Known, SpawnFails, Return
<1>15. QED
  BY <1>1, <1>2, <1>3, <1>4, <1>5, <1>6, <1>7, <1>8, <1>9, <1>10, <1>11,
     <1>12, <1>13, <1>14 DEF Progress

\* A command that has not begun takes no step of its own.
LEMMA IdleRests ==
  ASSUME NEW o \in Operators, pc[o] = "idle"
  PROVE  ~Progress(o)
BY DEF Progress, Read, Check, Discard, Spawn, SpawnFails, Open, Write, Term, Gone,
       Deadline, Kill, Unlink

\* A step of one command leaves the stage of the others alone.
LEMMA OthersStay ==
  ASSUME TypeOK, NEW o \in Operators, Begin(o) \/ Progress(o),
         NEW a \in Operators \ {o}
  PROVE  pc'[a] = pc[a]
BY DEF TypeOK, Progress, Begin, Read, Check, Discard, Spawn, SpawnFails, Open, Write,
       Term, Gone, Deadline, Kill, Unlink, Running, NotRunning, EndStop, Return,
       ContinueWithStart, Goto

LEMMA OrderlyStep ==
  ASSUME IInv, [Next]_vars, orderly'
  PROVE  Orderly'
<1>1. orderly
  BY DEF Next, Progress, Begin, Read, Check, Discard, Spawn, SpawnFails, Open, Write,
         Term, Gone, Deadline, Kill, Unlink, Interrupt, Bind, Exit, vars
<1>2. PICK o \in Operators : Known(o) /\ \A a \in Operators \ {o} : pc[a] = "idle"
  BY <1>1 DEF IInv, Orderly
<1>3. TypeOK
  BY DEF IInv
<1>4. CASE Begin(o) \/ Progress(o)
  <2>1. Known(o)'
    BY <1>2, <1>3, <1>4, KnownStep
  <2>2. \A a \in Operators \ {o} : pc'[a] = "idle"
    BY <1>2, <1>3, <1>4, OthersStay
  <2>3. QED
    BY <2>1, <2>2 DEF Orderly
<1>5. ASSUME NEW b \in Operators \ {o}, Begin(b)
      PROVE  Orderly'
  <2>1. \A a \in Operators : pc[a] = "idle"
    BY <1>5 DEF Begin
  <2>2. Known(b)
    BY <1>2, <2>1 DEF Known
  <2>3. Known(b)'
    BY <1>3, <1>5, <2>2, KnownStep
  <2>4. \A a \in Operators \ {b} : pc'[a] = "idle"
    BY <1>3, <1>5, <2>1, OthersStay
  <2>5. QED
    BY <2>3, <2>4 DEF Orderly
<1>6. CASE (\E p \in Pids : Bind(p) \/ Exit(p)) \/ UNCHANGED vars
  <2>1. Known(o)'
    BY <1>2, <1>3, <1>6, KnownStep
  <2>2. pc' = pc
    BY <1>6 DEF Bind, Exit, vars
  <2>3. QED
    BY <1>2, <2>1, <2>2 DEF Orderly
<1>7. \A b \in Operators \ {o} : ~Progress(b)
  BY <1>2, IdleRests
<1>8. \A b \in Operators : ~Interrupt(b)
  BY DEF Interrupt
<1>9. QED
  BY <1>4, <1>5, <1>6, <1>7, <1>8 DEF Next

LEMMA IInvHolds == ASSUME Operators # {} PROVE Spec => []IInv
<1>1. Init => IInv
  <2> SUFFICES ASSUME Init PROVE IInv
    OBVIOUS
  <2>1. PICK o \in Operators : TRUE
    OBVIOUS
  <2>2. Known(o) /\ \A a \in Operators : pc[a] = "idle"
    BY DEF Init, Known, Live
  <2>3. QED
    BY <2>2, TypeInit DEF IInv, Orderly
<1>2. IInv /\ [Next]_vars => IInv'
  BY TypeStep, OrderlyStep DEF IInv
<1>3. QED
  BY <1>1, <1>2, PTL DEF Spec

\* As long as commands are given one after the other, the pid file names every
\* server that is not already killed, so that the next stop reaches it.
THEOREM ServerIsTracked ==
  ASSUME Operators # {}
  PROVE  Spec => []TrackedInOrder
<1>1. IInv => TrackedInOrder
  BY DEF IInv, Orderly, Known, TrackedInOrder, Tracked
<1>2. QED
  BY <1>1, IInvHolds, PTL

\* No command starts a second server beside one that is not yet killed.
THEOREM AtMostOneServer ==
  ASSUME Operators # {}
  PROVE  Spec => []OneServer
<1>1. IInv => OneServer
  <2> SUFFICES ASSUME IInv, orderly PROVE OneServer
    BY DEF OneServer
  <2>1. PICK o \in Operators : Known(o) /\ pc[o] \in Steps
    BY DEF IInv, Orderly, TypeOK
  <2>2. QED
    BY <2>1 DEF Known, OneServer, Steps
<1>2. QED
  BY <1>1, IInvHolds, PTL

-----------------------------------------------------------------------------
(* Every command runs out of steps.                                         *)

\* How far a function of the CLI is from returning, on its longest way.
FunctionLeft(step) ==
  CASE step = "read" -> 6
    [] step = "check" -> 5
    [] step \in {"discard", "term"} -> 4
    [] step \in {"spawn", "await"} -> 3
    [] step \in {"open", "kill"} -> 2
    [] step \in {"write", "unlink"} -> 1
    [] step = "idle" -> 0

\* A restart that is still in stop() has all of start() ahead of it.
StepsLeft(o) ==
  FunctionLeft(pc[o])
    + IF pc[o] # "idle" /\ cmd[o] = "restart" /\ phase[o] = "stop" THEN 6 ELSE 0

\* A command takes its steps once each, and those of no other command, of no
\* server and of no crash give it more of them.
CommandsRunOut ==
  [][\A o \in Operators :
       /\ StepsLeft(o) \in 0..12
       /\ Progress(o) \/ Interrupt(o) => StepsLeft(o)' < StepsLeft(o)
       /\ Begin(o) \/ Progress(o) \/ Interrupt(o) \/ StepsLeft(o)' = StepsLeft(o)]_vars

\* Only stop() signals a process and gives up the file at the end.
StopSignals ==
  \A o \in Operators :
    pc[o] \in {"term", "await", "kill", "unlink"} => phase[o] = "stop"

LEMMA StopSignalsStep == TypeOK /\ StopSignals /\ [Next]_vars => StopSignals'
<1> SUFFICES ASSUME TypeOK, StopSignals, [Next]_vars PROVE StopSignals'
  OBVIOUS
<1> USE DEF TypeOK, StopSignals, Goto
<1>1. ASSUME NEW o \in Operators, Begin(o)
      PROVE  StopSignals'
  BY <1>1 DEF Begin
<1>2. ASSUME NEW o \in Operators, Read(o) \/ Check(o) \/ Discard(o) \/ Unlink(o)
      PROVE  StopSignals'
  BY <1>2 DEF Read, Check, Discard, Unlink, Running, NotRunning, EndStop, Return,
              ContinueWithStart
<1>3. ASSUME NEW o \in Operators,
             Spawn(o) \/ SpawnFails(o) \/ Open(o) \/ Write(o) \/ Interrupt(o)
      PROVE  StopSignals'
  BY <1>3 DEF Spawn, SpawnFails, Open, Write, Interrupt, Return
<1>4. ASSUME NEW o \in Operators, Term(o) \/ Gone(o) \/ Deadline(o) \/ Kill(o)
      PROVE  StopSignals'
  BY <1>4 DEF Term, Gone, Deadline, Kill
<1>5. ASSUME NEW p \in Pids, Bind(p) \/ Exit(p)
      PROVE  StopSignals'
  BY <1>5 DEF Bind, Exit
<1>6. CASE UNCHANGED vars
  BY <1>6 DEF vars
<1>7. QED
  BY <1>1, <1>2, <1>3, <1>4, <1>5, <1>6 DEF Next, Progress

LEMMA StepsLeftTyped == TypeOK => \A o \in Operators : StepsLeft(o) \in 0..12
<1> SUFFICES ASSUME TypeOK, NEW o \in Operators
             PROVE  StepsLeft(o) \in 0..12
  OBVIOUS
<1>1. pc[o] \in Steps
  BY DEF TypeOK
<1>2. FunctionLeft(pc[o]) \in 0..6
  BY <1>1 DEF FunctionLeft, Steps
<1>3. QED
  BY <1>2 DEF StepsLeft

\* Where a function of the CLI leaves a command: finished, or at the first step
\* of start(), which stop() had still ahead of it.
LEMMA EndStopPays ==
  ASSUME TypeOK, NEW o \in Operators, EndStop(o), cmd' = cmd,
         pc[o] # "idle", phase[o] = "stop"
  PROVE  StepsLeft(o)' < StepsLeft(o)
<1>1. pc[o] \in Steps /\ FunctionLeft(pc[o]) > 0
  BY DEF TypeOK, FunctionLeft, Steps
<1>2. FunctionLeft(pc[o]) \in Nat
  BY <1>1 DEF FunctionLeft, Steps
<1>3. CASE cmd[o] = "restart"
  <2>1. pc'[o] = "read" /\ phase'[o] = "start"
    BY <1>3 DEF TypeOK, EndStop, ContinueWithStart, Goto
  <2>2. StepsLeft(o)' = 6
    BY <2>1 DEF StepsLeft, FunctionLeft
  <2>3. StepsLeft(o) = FunctionLeft(pc[o]) + 6
    BY <1>3 DEF StepsLeft
  <2>4. QED
    BY <1>1, <1>2, <2>2, <2>3
<1>4. CASE cmd[o] # "restart"
  <2>1. pc'[o] = "idle"
    BY <1>4 DEF TypeOK, EndStop, Return, Goto
  <2>2. StepsLeft(o)' = 0
    BY <2>1 DEF StepsLeft, FunctionLeft
  <2>3. StepsLeft(o) = FunctionLeft(pc[o])
    BY <1>2, <1>4 DEF StepsLeft
  <2>4. QED
    BY <1>1, <1>2, <2>2, <2>3
<1>5. QED
  BY <1>3, <1>4

\* The command goes on in the same function, nearer to its end.
LEMMA NextStepPays ==
  ASSUME TypeOK, NEW o \in Operators, NEW s \in Steps, pc'[o] = s, cmd' = cmd,
         phase'[o] = phase[o], s = "idle" \/ pc[o] # "idle",
         FunctionLeft(s) < FunctionLeft(pc[o])
  PROVE  StepsLeft(o)' < StepsLeft(o)
<1>1. FunctionLeft(s) \in Nat /\ FunctionLeft(pc[o]) \in Nat
  BY DEF FunctionLeft, Steps, TypeOK
<1>2. StepsLeft(o)' =
        FunctionLeft(s)
          + IF s # "idle" /\ cmd[o] = "restart" /\ phase[o] = "stop" THEN 6 ELSE 0
  BY DEF StepsLeft
<1>3. QED
  BY <1>1, <1>2 DEF StepsLeft

LEMMA ReturnPays ==
  ASSUME TypeOK, NEW o \in Operators, Return(o), cmd' = cmd, pc[o] # "idle"
  PROVE  StepsLeft(o)' < StepsLeft(o)
<1>1. pc'[o] = "idle" /\ phase'[o] = phase[o]
  BY DEF TypeOK, Return, Goto
<1>2. FunctionLeft("idle") < FunctionLeft(pc[o])
  BY DEF TypeOK, FunctionLeft, Steps
<1>3. QED
  BY <1>1, <1>2, NextStepPays DEF Steps

LEMMA GotoPays ==
  ASSUME TypeOK, NEW o \in Operators, NEW s \in Steps, Goto(o, s), cmd' = cmd,
         phase'[o] = phase[o], pc[o] # "idle",
         FunctionLeft(s) < FunctionLeft(pc[o])
  PROVE  StepsLeft(o)' < StepsLeft(o)
<1>1. pc'[o] = s
  BY DEF TypeOK, Goto
<1>2. QED
  BY <1>1, NextStepPays

LEMMA NotRunningPays ==
  ASSUME TypeOK, NEW o \in Operators, NotRunning(o), cmd' = cmd,
         pc[o] \in {"read", "discard"}
  PROVE  StepsLeft(o)' < StepsLeft(o)
<1>1. CASE phase[o] = "start" /\ Goto(o, "spawn") /\ UNCHANGED <<phase, target>>
  <2>1. FunctionLeft("spawn") < FunctionLeft(pc[o])
    BY DEF FunctionLeft
  <2>2. QED
    BY <1>1, <2>1, GotoPays DEF Steps
<1>2. CASE phase[o] = "stop" /\ EndStop(o)
  BY <1>2, EndStopPays
<1>3. QED
  BY <1>1, <1>2 DEF NotRunning

LEMMA RunningPays ==
  ASSUME TypeOK, NEW o \in Operators, NEW p \in Pids, Running(o, p), cmd' = cmd,
         pc[o] = "check"
  PROVE  StepsLeft(o)' < StepsLeft(o)
<1>1. CASE Return(o)
  BY <1>1, ReturnPays
<1>2. CASE Goto(o, "term") /\ UNCHANGED <<phase, content>>
  <2>1. FunctionLeft("term") < FunctionLeft(pc[o])
    BY DEF FunctionLeft
  <2>2. QED
    BY <1>2, <2>1, GotoPays DEF Steps
<1>3. QED
  BY <1>1, <1>2 DEF Running

LEMMA ProgressPays ==
  ASSUME TypeOK, StopSignals, NEW o \in Operators, Progress(o) \/ Interrupt(o)
  PROVE  StepsLeft(o)' < StepsLeft(o)
<1>1. CASE Read(o)
  <2>1. CASE NotRunning(o)
    BY <1>1, <2>1, NotRunningPays DEF Read
  <2>2. CASE Goto(o, "check") /\ UNCHANGED phase
    <3>1. FunctionLeft("check") < FunctionLeft(pc[o])
      BY <1>1 DEF FunctionLeft, Read
    <3>2. QED
      BY <1>1, <2>2, <3>1, GotoPays DEF Read, Steps
  <2>3. QED
    BY <1>1, <2>1, <2>2 DEF Read
<1>2. CASE Check(o)
  <2>1. CASE content[o] \in Pids /\ Running(o, content[o])
    BY <1>2, <2>1, RunningPays DEF Check
  <2>2. CASE Goto(o, "discard") /\ UNCHANGED phase
    <3>1. FunctionLeft("discard") < FunctionLeft(pc[o])
      BY <1>2 DEF FunctionLeft, Check
    <3>2. QED
      BY <1>2, <2>2, <3>1, GotoPays DEF Check, Steps
  <2>3. QED
    BY <1>2, <2>1, <2>2 DEF Check
<1>3. CASE Discard(o)
  BY <1>3, NotRunningPays DEF Discard
<1>4. CASE SpawnFails(o) \/ Write(o) \/ Interrupt(o)
  BY <1>4, ReturnPays DEF SpawnFails, Write, Interrupt
<1>5. CASE Spawn(o)
  <2>1. FunctionLeft("open") < FunctionLeft(pc[o])
    BY <1>5 DEF FunctionLeft, Spawn
  <2>2. QED
    BY <1>5, <2>1, GotoPays DEF Spawn, Steps
<1>6. CASE Open(o)
  <2>1. FunctionLeft("write") < FunctionLeft(pc[o])
    BY <1>6 DEF FunctionLeft, Open
  <2>2. QED
    BY <1>6, <2>1, GotoPays DEF Open, Steps
<1>7. CASE Term(o)
  <2>1. FunctionLeft("await") < FunctionLeft(pc[o])
    BY <1>7 DEF FunctionLeft, Term
  <2>2. QED
    BY <1>7, <2>1, GotoPays DEF Term, Steps
<1>8. CASE Gone(o) \/ Deadline(o)
  <2>1. pc[o] = "await" /\ Goto(o, "kill") /\ UNCHANGED <<cmd, phase>>
    BY <1>8 DEF Gone, Deadline
  <2>2. FunctionLeft("kill") < FunctionLeft(pc[o])
    BY <2>1 DEF FunctionLeft
  <2>3. QED
    BY <2>1, <2>2, GotoPays DEF Steps
<1>9. CASE Kill(o)
  <2>1. FunctionLeft("unlink") < FunctionLeft(pc[o])
    BY <1>9 DEF FunctionLeft, Kill
  <2>2. QED
    BY <1>9, <2>1, GotoPays DEF Kill, Steps
<1>10. CASE Unlink(o)
  BY <1>10, EndStopPays DEF Unlink, StopSignals
<1>11. QED
  BY <1>1, <1>2, <1>3, <1>4, <1>5, <1>6, <1>7, <1>8, <1>9, <1>10 DEF Progress

\* A step that is none of a command's own leaves it where it is.
LEMMA OthersLeaveIt ==
  ASSUME TypeOK, NEW o \in Operators, [Next]_vars
  PROVE  Begin(o) \/ Progress(o) \/ Interrupt(o) \/ StepsLeft(o)' = StepsLeft(o)
<1>1. CASE \E a \in Operators \ {o} : Begin(a) \/ Progress(a) \/ Interrupt(a)
  <2>1. PICK a \in Operators \ {o} : Begin(a) \/ Progress(a) \/ Interrupt(a)
    BY <1>1
  <2>2. pc'[o] = pc[o] /\ cmd'[o] = cmd[o] /\ phase'[o] = phase[o]
    <3> USE DEF TypeOK, Goto
    <3>1. CASE Begin(a)
      BY <3>1 DEF Begin
    <3>2. CASE Read(a) \/ Check(a) \/ Discard(a) \/ Unlink(a)
      BY <3>2 DEF Read, Check, Discard, Unlink, Running, NotRunning, EndStop, Return,
                  ContinueWithStart
    <3>3. CASE Spawn(a) \/ SpawnFails(a) \/ Open(a) \/ Write(a) \/ Interrupt(a)
      BY <3>3 DEF Spawn, SpawnFails, Open, Write, Interrupt, Return
    <3>4. CASE Term(a) \/ Gone(a) \/ Deadline(a) \/ Kill(a)
      BY <3>4 DEF Term, Gone, Deadline, Kill
    <3>5. QED
      BY <2>1, <3>1, <3>2, <3>3, <3>4 DEF Progress
  <2>3. QED
    BY <2>2 DEF StepsLeft
<1>2. CASE UNCHANGED vars \/ \E p \in Pids : Bind(p) \/ Exit(p)
  <2>1. UNCHANGED <<pc, cmd, phase>>
    BY <1>2 DEF vars, Bind, Exit
  <2>2. QED
    BY <2>1 DEF StepsLeft
<1>3. QED
  BY <1>1, <1>2 DEF Next

\* The part of CommandsEnd that needs no fairness: no command of service.py
\* takes more than twelve steps, however the commands overlap, the servers crash
\* and ignore SIGTERM, and the pid file changes under it.
THEOREM NoCommandGoesOnForEver == Spec => CommandsRunOut
<1>1. Init => StopSignals
  BY DEF Init, StopSignals
<1>2. Spec => [](TypeOK /\ StopSignals)
  BY <1>1, TypeInit, TypeStep, StopSignalsStep, PTL DEF Spec
<1>3. TypeOK /\ StopSignals /\ [Next]_vars =>
        [\A o \in Operators :
           /\ StepsLeft(o) \in 0..12
           /\ Progress(o) \/ Interrupt(o) => StepsLeft(o)' < StepsLeft(o)
           /\ Begin(o) \/ Progress(o) \/ Interrupt(o) \/ StepsLeft(o)' = StepsLeft(o)]_vars
  BY StepsLeftTyped, ProgressPays, OthersLeaveIt
<1>4. QED
  BY <1>2, <1>3, PTL DEF Spec, CommandsRunOut

=============================================================================
