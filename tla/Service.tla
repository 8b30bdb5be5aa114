------------------------------ MODULE Service ------------------------------
(***************************************************************************)
(* service.py: `mcp-gitlab service start|stop|restart`, run by operators   *)
(* as short-lived CLI processes that share nothing but a pid file and the  *)
(* process table.  Every file operation, liveness test and signal is a     *)
(* step of its own, since other commands and the servers run in between.   *)
(***************************************************************************)
EXTENDS FiniteSets

CONSTANTS
  Operators,    \* CLI invocations that can be under way at the same time
  Pids,         \* process ids a spawned server can get
  Absent,       \* the pid file does not exist
  Empty,        \* the pid file exists and holds no number (just truncated)
  Interrupts    \* whether a CLI process may be killed half-way

ASSUME ServiceAssumption ==
  /\ IsFiniteSet(Pids)
  /\ Absent # Empty
  /\ Absent \notin Pids /\ Empty \notin Pids
  /\ Interrupts \in BOOLEAN

VARIABLES
  pidFile,   \* contents of the pid file
  linked,    \* operators whose open file is the one pid_file names now
  proc,      \* proc[p]: state of the server process p
  pc,        \* pc[o]: next step of the operator's command
  cmd,       \* cmd[o]: the command
  phase,     \* phase[o]: "stop" or "start", whichever function is running
  content,   \* content[o]: what running_pid read
  target,    \* target[o]: pid the command signals or has spawned
  orderly    \* no command overlapped another or was killed half-way (history)

file == <<pidFile, linked>>
vars == <<file, proc, pc, cmd, phase, content, target, orderly>>

Commands == {"start", "stop", "restart"}
Steps == {"idle", "read", "check", "discard", "spawn", "open", "write",
          "term", "await", "kill", "unlink"}

\* "ending" has its SIGTERM and "doomed" its SIGKILL; both still exist.
Live == {"booting", "up", "ending"}
ProcStates == Live \cup {"gone", "doomed"}

\* _is_alive: signal 0 finds the process.
IsAlive(p) == proc[p] # "gone"

\* Pids the system can hand out: not in use, and not just now remembered by a
\* command.  A number that only a stale pid file holds may come back.
Fresh == {p \in Pids : /\ proc[p] = "gone"
                       /\ \A o \in Operators : target[o] # p /\ content[o] # p}

Init ==
  /\ pidFile = Absent
  /\ linked = {}
  /\ proc = [p \in Pids |-> "gone"]
  /\ pc = [o \in Operators |-> "idle"]
  /\ cmd = [o \in Operators |-> "start"]
  /\ phase = [o \in Operators |-> "start"]
  /\ content = [o \in Operators |-> Absent]
  /\ target = [o \in Operators |-> Absent]
  /\ orderly = TRUE

-----------------------------------------------------------------------------
(* How a command moves on.                                                  *)

Goto(o, step) == pc' = [pc EXCEPT ![o] = step]

\* The command returns, or raises ServiceError; what it knew is forgotten.
Return(o) ==
  /\ Goto(o, "idle")
  /\ content' = [content EXCEPT ![o] = Absent]
  /\ target' = [target EXCEPT ![o] = Absent]
  /\ UNCHANGED phase

\* restart: start() follows stop(), whether that succeeded or not.
ContinueWithStart(o) ==
  /\ Goto(o, "read")
  /\ phase' = [phase EXCEPT ![o] = "start"]
  /\ content' = [content EXCEPT ![o] = Absent]
  /\ target' = [target EXCEPT ![o] = Absent]

EndStop(o) == IF cmd[o] = "restart" THEN ContinueWithStart(o) ELSE Return(o)

\* running_pid returned None: start goes on, stop raises ServiceError.
NotRunning(o) ==
  \/ /\ phase[o] = "start"
     /\ Goto(o, "spawn")
     /\ content' = [content EXCEPT ![o] = Absent]
     /\ UNCHANGED <<phase, target>>
  \/ /\ phase[o] = "stop"
     /\ EndStop(o)

\* A wrong version: the pid is not carried over to the signals.
RunningForgets(o, p) ==
  \/ /\ phase[o] = "start"
     /\ Return(o)
  \/ /\ phase[o] = "stop"
     /\ Goto(o, "term")
     /\ UNCHANGED <<phase, content, target>>

\* running_pid returned p: start raises ServiceError, stop signals it.
Running(o, p) ==
  \/ /\ phase[o] = "start"
     /\ Return(o)
  \/ /\ phase[o] = "stop"
     /\ Goto(o, "term")
     /\ target' = [target EXCEPT ![o] = p]
     /\ UNCHANGED <<phase, content>>

\* pid_file.unlink(); a file somebody still has open is no longer the pid file.
RemoveFile == pidFile' = Absent /\ linked' = {}

-----------------------------------------------------------------------------
(* The commands.                                                            *)

Begin(o) ==
  /\ pc[o] = "idle"
  /\ \E c \in Commands :
       /\ cmd' = [cmd EXCEPT ![o] = c]
       /\ phase' = [phase EXCEPT ![o] = IF c = "start" THEN "start" ELSE "stop"]
  /\ Goto(o, "read")
  /\ orderly' = (orderly /\ \A a \in Operators : pc[a] = "idle")
  /\ UNCHANGED <<file, proc, content, target>>

\* running_pid: read_text.
Read(o) ==
  /\ pc[o] = "read"
  /\ \/ /\ pidFile = Absent
        /\ NotRunning(o)
     \/ /\ pidFile # Absent
        /\ content' = [content EXCEPT ![o] = pidFile]
        /\ Goto(o, "check")
        /\ UNCHANGED <<phase, target>>
  /\ UNCHANGED <<file, proc, cmd, orderly>>

\* A wrong version: start takes any pid file for a stale one.
CheckTakesForStale(o) ==
  /\ pc[o] = "check"
  /\ IF phase[o] = "stop" /\ content[o] \in Pids /\ IsAlive(content[o])
     THEN Running(o, content[o])
     ELSE Goto(o, "discard") /\ UNCHANGED <<phase, content, target>>
  /\ UNCHANGED <<file, proc, cmd, orderly>>

\* running_pid: int(content) and is_alive(pid).
Check(o) ==
  /\ pc[o] = "check"
  /\ IF content[o] \in Pids /\ IsAlive(content[o])
     THEN Running(o, content[o])
     ELSE Goto(o, "discard") /\ UNCHANGED <<phase, content, target>>
  /\ UNCHANGED <<file, proc, cmd, orderly>>

\* running_pid: the stale or unreadable file is unlinked.
Discard(o) ==
  /\ pc[o] = "discard"
  /\ RemoveFile
  /\ NotRunning(o)
  /\ UNCHANGED <<proc, cmd, orderly>>

\* start: spawn(argv, log_file).
Spawn(o) ==
  /\ pc[o] = "spawn"
  /\ \E p \in Fresh :
       /\ proc' = [proc EXCEPT ![p] = "booting"]
       /\ target' = [target EXCEPT ![o] = p]
  /\ Goto(o, "open")
  /\ UNCHANGED <<file, cmd, orderly, phase, content>>

\* start: the log file cannot be opened or no process be made (OSError).
SpawnFails(o) ==
  /\ pc[o] = "spawn"
  /\ Return(o)
  /\ UNCHANGED <<file, proc, cmd, orderly>>

\* start: write_text opens the file and truncates it ...
Open(o) ==
  /\ pc[o] = "open"
  /\ pidFile' = Empty
  /\ linked' = linked \cup {o}
  /\ Goto(o, "write")
  /\ UNCHANGED <<proc, cmd, orderly, phase, content, target>>

\* ... and writes the pid to it.
Write(o) ==
  /\ pc[o] = "write"
  /\ pidFile' = IF o \in linked THEN target[o] ELSE pidFile
  /\ linked' = linked \ {o}
  /\ Return(o)
  /\ UNCHANGED <<proc, cmd, orderly>>

\* stop: SIGTERM (a process that is gone by now is not an error).
Term(o) ==
  /\ pc[o] = "term"
  /\ proc' = [proc EXCEPT ![target[o]] =
                IF @ \in {"booting", "up"} THEN "ending" ELSE @]
  /\ Goto(o, "await")
  /\ UNCHANGED <<file, cmd, orderly, phase, content, target>>

\* stop: the polling loop ends when the process is gone.
Gone(o) ==
  /\ pc[o] = "await"
  /\ ~IsAlive(target[o])
  /\ Goto(o, "kill")
  /\ UNCHANGED <<file, proc, cmd, orderly, phase, content, target>>

\* A wrong version: a polling loop without a deadline.
DeadlineNever(o) ==
  /\ pc[o] = "await"
  /\ IsAlive(target[o])
  /\ UNCHANGED vars

\* A wrong version: a process that outlives the grace period is left alone.
DeadlineGivesUp(o) ==
  /\ pc[o] = "await"
  /\ IsAlive(target[o])
  /\ Goto(o, "unlink")
  /\ UNCHANGED <<file, proc, cmd, orderly, phase, content, target>>

\* stop: or when the grace period is over.
Deadline(o) ==
  /\ pc[o] = "await"
  /\ IsAlive(target[o])
  /\ Goto(o, "kill")
  /\ UNCHANGED <<file, proc, cmd, orderly, phase, content, target>>

\* A wrong version: no SIGKILL.
KillNothing(o) ==
  /\ pc[o] = "kill"
  /\ Goto(o, "unlink")
  /\ UNCHANGED <<file, proc, cmd, orderly, phase, content, target>>

\* stop: a process that is still alive gets SIGKILL; nobody waits for it.
Kill(o) ==
  /\ pc[o] = "kill"
  /\ proc' = [proc EXCEPT ![target[o]] = IF @ = "gone" THEN @ ELSE "doomed"]
  /\ Goto(o, "unlink")
  /\ UNCHANGED <<file, cmd, orderly, phase, content, target>>

\* stop: whatever the pid file names by now, it is removed.
Unlink(o) ==
  /\ pc[o] = "unlink"
  /\ RemoveFile
  /\ EndStop(o)
  /\ UNCHANGED <<proc, cmd, orderly>>

\* The CLI process dies between two steps (Ctrl-C, a closed session).
Interrupt(o) ==
  /\ Interrupts
  /\ pc[o] # "idle"
  /\ Return(o)
  /\ linked' = linked \ {o}
  /\ orderly' = FALSE
  /\ UNCHANGED <<pidFile, proc, cmd>>

-----------------------------------------------------------------------------
(* The servers.                                                             *)

\* The new server binds its port, or finds it taken and exits.
Bind(p) ==
  /\ proc[p] = "booting"
  /\ \/ /\ \A q \in Pids : proc[q] # "up"
        /\ proc' = [proc EXCEPT ![p] = "up"]
     \/ /\ \E q \in Pids \ {p} : proc[q] \in {"up", "ending", "doomed"}
        /\ proc' = [proc EXCEPT ![p] = "gone"]
  /\ UNCHANGED <<file, pc, cmd, orderly, phase, content, target>>

\* A server that was told to ends; any other may crash.
Exit(p) ==
  /\ proc[p] # "gone"
  /\ proc' = [proc EXCEPT ![p] = "gone"]
  /\ UNCHANGED <<file, pc, cmd, orderly, phase, content, target>>

-----------------------------------------------------------------------------
\* A step the command under way takes by itself.
Progress(o) ==
  \/ Read(o) \/ Check(o) \/ Discard(o) \/ Spawn(o) \/ SpawnFails(o)
  \/ Open(o) \/ Write(o) \/ Term(o) \/ Gone(o) \/ Deadline(o) \/ Kill(o) \/ Unlink(o)

Next == \/ \E o \in Operators : Begin(o) \/ Progress(o) \/ Interrupt(o)
        \/ \E p \in Pids : Bind(p) \/ Exit(p)

Spec == Init /\ [][Next]_vars

\* A CLI process that is not killed keeps running, a server that was started
\* binds its port or gives up, and SIGKILL works.  Nothing obliges a server to
\* heed SIGTERM.
FairSpec ==
  /\ Spec
  /\ \A o \in Operators : WF_vars(Progress(o))
  /\ \A p \in Pids : WF_vars(Bind(p)) /\ WF_vars(proc[p] = "doomed" /\ Exit(p))

-----------------------------------------------------------------------------
\* Steps at which the command knows the pid it acts on.
Targeting == {"open", "write", "term", "await", "kill", "unlink"}

\* Types; a command that signals or records a process knows its pid.
TypeOK ==
  /\ pidFile \in Pids \cup {Absent, Empty}
  /\ linked \subseteq Operators
  /\ proc \in [Pids -> ProcStates]
  /\ pc \in [Operators -> Steps]
  /\ cmd \in [Operators -> Commands]
  /\ phase \in [Operators -> {"start", "stop"}]
  /\ content \in [Operators -> Pids \cup {Absent, Empty}]
  /\ target \in [Operators -> Pids \cup {Absent}]
  /\ orderly \in BOOLEAN
  /\ \A o \in Operators : pc[o] \in Targeting => target[o] \in Pids

\* Whenever no command is under way, the pid file names every server that is
\* not already killed: `stop` can reach it and `start` will not double it.
Tracked ==
  (\A o \in Operators : pc[o] = "idle")
    => \A p \in Pids : proc[p] \in Live => pidFile = p

\* So it is for commands given one after the other, however servers crash,
\* hang, boot slowly and ignore SIGTERM.
TrackedInOrder == orderly => Tracked

\* Commands given one after the other never start a server while another one,
\* not yet killed, exists: the new one would lose the race for the port and
\* leave nobody serving.
OneServer ==
  orderly => \A p, q \in Pids : proc[p] \in Live /\ proc[q] \in Live => p = q

\* restart stops the running process, then starts a new one: no two server
\* processes exist at the same time.
HandOver == \A p, q \in Pids : IsAlive(p) /\ IsAlive(q) => p = q

\* When stop gives up the pid file, its process is gone or has its SIGKILL,
\* whoever else ran commands meanwhile.
StopStops ==
  [][\A o \in Operators :
       pc[o] = "unlink" /\ pc'[o] # "unlink" /\ target[o] \in Pids
         => proc[target[o]] \in {"gone", "doomed"}]_vars

\* Every command ends, even when the server ignores SIGTERM.
CommandsEnd == \A o \in Operators : pc[o] # "idle" ~> pc[o] = "idle"

-----------------------------------------------------------------------------
(* Why TrackedInOrder and OneServer hold.                                   *)

\* What the steps of the one command know about the servers still alive: that
\* only the process they read, signal or have just spawned can be one.
Known(o) ==
  /\ linked = IF pc[o] = "write" THEN {o} ELSE {}
  /\ pc[o] \in {"idle", "read", "check", "term", "await", "kill"}
       => \A p \in Pids : proc[p] \in Live => pidFile = p
  /\ pc[o] \in {"check", "discard"} => pidFile = content[o]
  /\ pc[o] \in {"discard", "spawn", "unlink"}
       => \A p \in Pids : proc[p] \notin Live
  /\ pc[o] \in {"open", "write", "term", "await", "kill"}
       => \A p \in Pids : proc[p] \in Live => target[o] = p

\* The one operator who runs a command now, or ran the last one, knows.
Orderly ==
  \E o \in Operators : Known(o) /\ \A a \in Operators \ {o} : pc[a] = "idle"

IInv == TypeOK /\ (orderly => Orderly)

=============================================================================
