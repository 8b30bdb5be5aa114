----------------------------- MODULE Standalone -----------------------------
(***************************************************************************)
(* standalone.py, supervise(): the first process of the container starts   *)
(* the MCP server, starts Caddy once the server listens, and stops both    *)
(* when either one exits or a stop signal arrives.  Signals, the children  *)
(* and the clock run between any two of its steps.                         *)
(***************************************************************************)
EXTENDS Integers

CONSTANT Codes    \* exit statuses of a child, as Popen reports them

ASSUME StandaloneAssumption == \A n \in Codes : n \in Int /\ -64 <= n /\ n <= 255

VARIABLES
  pc,        \* next step of supervise
  watching,  \* supervise is in _watch; before that, in _await_listener
  stop,      \* the stop list is not empty: SIGTERM or SIGINT has arrived
  child,     \* child[c]: state of the process
  code,      \* code[c]: how it exited, once it has
  expired,   \* the deadline of the loop under way (readiness, grace) has passed
  status     \* what supervise returns

vars == <<pc, watching, stop, child, code, expired, status>>

Children == {"server", "caddy"}
Supervising == {"start", "check", "poll", "connect", "retry"}
Stopping == {"terminate", "wait_server", "wait_caddy"}

\* "absent" was not started (it is not in `running`), "up" listens, and "told"
\* and "killed" have had terminate() and kill().
Alive == {"booting", "up", "told", "killed"}
States == Alive \cup {"absent", "exited"}

\* A wrong version: 0 is passed on.
ExitStatusOfChild(n) == IF n < 0 THEN 128 - n ELSE n

\* The status supervise makes of a child's: a signal n is -n, and 0 is no
\* success, since neither child should stop on its own.
ExitStatus(n) == IF n < 0 THEN 128 - n ELSE IF n = 0 THEN 1 ELSE n

Init ==
  /\ pc = "start"
  /\ watching = FALSE
  /\ stop = FALSE
  /\ child = [c \in Children |-> "absent"]
  /\ code = [c \in Children |-> 0]
  /\ expired = FALSE
  /\ status = 0

-----------------------------------------------------------------------------
(* supervise's own steps.                                                   *)

Goto(step) == pc' = step /\ UNCHANGED <<watching, stop, code, status>>

\* raise _Exit(n): the finally clause runs next, with a deadline of its own.
Raise(n) ==
  /\ status' = n
  /\ pc' = "terminate"
  /\ UNCHANGED <<watching, stop, child, code>>

\* _start(child, running), on the server first and on Caddy later; Popen may
\* fail.
Start ==
  /\ pc = "start"
  /\ LET c == IF child["server"] = "absent" THEN "server" ELSE "caddy"
     IN  /\ child' = [child EXCEPT ![c] = "booting"]
         /\ watching' = (c = "caddy")
  /\ pc' = "check"
  /\ UNCHANGED <<stop, code, expired, status>>

StartFails == pc = "start" /\ Raise(127) /\ UNCHANGED expired

\* _check: a stop signal that has arrived ...
StopRequested == pc = "check" /\ stop /\ Raise(0) /\ UNCHANGED expired

NotStopped == pc = "check" /\ ~stop /\ Goto("poll") /\ UNCHANGED <<child, expired>>

\* A wrong version: a child's status is passed on as it is.
ReportExitAsIs ==
  /\ pc = "poll"
  /\ LET dead == {c \in Children : child[c] = "exited"}
     IN  /\ dead # {}
         /\ Raise(code[IF "server" \in dead THEN "server" ELSE "caddy"])
  /\ UNCHANGED expired

\* ... or the first child, in the order they were started, that has exited.
ReportExit ==
  /\ pc = "poll"
  /\ LET dead == {c \in Children : child[c] = "exited"}
     IN  /\ dead # {}
         /\ Raise(ExitStatus(code[IF "server" \in dead THEN "server" ELSE "caddy"]))
  /\ UNCHANGED expired

AllRunning ==
  /\ pc = "poll"
  /\ \A c \in Children : child[c] # "exited"
  /\ Goto(IF watching THEN "check" ELSE "connect")   \* after sleep(POLL_SECONDS)
  /\ UNCHANGED <<child, expired>>

\* A wrong version: the listener is not waited for.
ConnectedAnyway ==
  /\ pc = "connect"
  /\ Goto("start")
  /\ UNCHANGED <<child, expired>>

\* _await_listener: create_connection, which can fail or time out even on a
\* server that listens, succeeds on no other.
Connected ==
  /\ pc = "connect"
  /\ child["server"] = "up"
  /\ Goto("start")
  /\ UNCHANGED <<child, expired>>

NotConnected == pc = "connect" /\ Goto("retry") /\ UNCHANGED <<child, expired>>

NotReady == pc = "retry" /\ expired /\ Raise(1) /\ expired' = FALSE

TryAgain == pc = "retry" /\ ~expired /\ Goto("check") /\ UNCHANGED <<child, expired>>

\* _stop_all: every child still running is told to end.
Terminate ==
  /\ pc = "terminate"
  /\ child' = [c \in Children |->
                 IF child[c] \in {"booting", "up"} THEN "told" ELSE child[c]]
  /\ expired' = FALSE
  /\ Goto("wait_server")

\* The children are waited for one after the other.
Waiting(c) == pc = IF c = "server" THEN "wait_server" ELSE "wait_caddy"

\* wait() returns, at once for a child that was never started.
Reap(c) ==
  /\ Waiting(c)
  /\ child[c] \in {"absent", "exited"}
  /\ Goto(IF c = "server" THEN "wait_caddy" ELSE "done")
  /\ UNCHANGED <<child, expired>>

\* A wrong version: a child that outlives the grace period is left behind.
LeaveBehind(c) ==
  /\ Waiting(c)
  /\ expired
  /\ child[c] = "told"
  /\ Goto(IF c = "server" THEN "wait_caddy" ELSE "done")
  /\ UNCHANGED <<child, expired>>

\* A wrong version: wait() has no timeout.
WaitOn(c) == Waiting(c) /\ child[c] = "told" /\ UNCHANGED vars

\* TimeoutExpired: kill(), and wait() once more, without a timeout.
Kill(c) ==
  /\ Waiting(c)
  /\ expired
  /\ child[c] = "told"
  /\ child' = [child EXCEPT ![c] = "killed"]
  /\ UNCHANGED <<pc, watching, stop, code, expired, status>>

Supervise ==
  \/ Start \/ StartFails
  \/ StopRequested \/ NotStopped \/ ReportExit \/ AllRunning
  \/ Connected \/ NotConnected \/ NotReady \/ TryAgain
  \/ Terminate \/ \E c \in Children : Reap(c) \/ Kill(c)

-----------------------------------------------------------------------------
(* What happens around it.                                                  *)

\* request_stop: the handler is installed until supervise returns.
Signal ==
  /\ pc # "done"
  /\ ~stop
  /\ stop' = TRUE
  /\ UNCHANGED <<pc, watching, child, code, expired, status>>

Listen(c) ==
  /\ child[c] = "booting"
  /\ child' = [child EXCEPT ![c] = "up"]
  /\ UNCHANGED <<pc, watching, stop, code, expired, status>>

\* A child exits: by itself, as it was told, or killed.
Exit(c) ==
  /\ child[c] \in Alive
  /\ child' = [child EXCEPT ![c] = "exited"]
  /\ \E n \in Codes : code' = [code EXCEPT ![c] = n]
  /\ UNCHANGED <<pc, watching, stop, expired, status>>

\* The clock passes ready_timeout, or grace.
Expire ==
  /\ ~expired
  /\ \/ pc \in {"check", "poll", "connect", "retry"} /\ ~watching
     \/ pc \in {"wait_server", "wait_caddy"}
  /\ expired' = TRUE
  /\ UNCHANGED <<pc, watching, stop, child, code, status>>

Next ==
  \/ Supervise
  \/ Signal
  \/ \E c \in Children : Listen(c) \/ Exit(c)
  \/ Expire

Spec == Init /\ [][Next]_vars

\* supervise runs, the clock goes on, and SIGKILL works; nothing obliges a
\* child to listen, to exit, or to heed terminate().
FairSpec ==
  /\ Spec
  /\ WF_vars(Supervise)
  /\ WF_vars(Expire)
  /\ \A c \in Children : WF_vars(child[c] = "killed" /\ Exit(c))

-----------------------------------------------------------------------------
\* Types; Caddy is never started without the server.
TypeOK ==
  /\ pc \in Supervising \cup Stopping \cup {"done"}
  /\ watching \in BOOLEAN
  /\ stop \in BOOLEAN
  /\ child \in [Children -> States]
  /\ code \in [Children -> Codes \cup {0}]
  /\ expired \in BOOLEAN
  /\ status \in 0..255
  /\ watching => child["server"] # "absent"

\* Whatever made supervise stop, and whichever step of starting it had
\* reached, no process outlives it.
NoChildLeft == pc = "done" => \A c \in Children : child[c] \in {"absent", "exited"}

\* The container reports success only if it was asked to stop: a child that
\* went down by itself, even with status 0, is a failure a restart policy sees.
SuccessWasAsked == pc = "done" /\ status = 0 => stop

\* Clients can reach Caddy only in front of a server that has listened.
CaddyComesSecond ==
  [][child["caddy"] = "absent" /\ child'["caddy"] # "absent"
       => child["server"] \in {"up", "exited"}]_vars

\* "stops both when either one exits".
OneExitEndsBoth ==
  \A c \in Children : child[c] = "exited" ~> pc = "done"

\* A stop signal ends the container, whenever it arrives and even if no child
\* heeds terminate().
SignalEndsAll == stop ~> pc = "done"

\* Whichever comes first, a child's exit or a signal, supervise returns.
SuperviseEnds == OneExitEndsBoth /\ SignalEndsAll

\* Why no child is left, success was asked for and Caddy comes second.
IInv ==
  /\ TypeOK
  /\ pc = "start" => child["server"] \in {"absent", "up", "exited"}
  /\ pc \in {"wait_server", "wait_caddy"}
       => \A c \in Children : child[c] \notin {"booting", "up"}
  /\ pc \in {"wait_caddy", "done"} => child["server"] \in {"absent", "exited"}
  /\ pc = "done" => child["caddy"] \in {"absent", "exited"}
  /\ pc \notin Supervising /\ status = 0 => stop

\* supervise's docstring: "0 after SIGTERM or SIGINT; otherwise that of the
\* process that stopped ..., 1 if the server never listened, or 127".
ZeroAfterSignal ==
  [][stop /\ pc \in Supervising /\ pc' = "terminate" => status' = 0]_vars

=============================================================================
