--------------------------- MODULE HarnessProcess ---------------------------
(***************************************************************************)
(* The life of one harness process, internal/harness/harness.go.           *)
(*                                                                         *)
(* Start spawns the harness in a process group of its own and waits for    *)
(* READY, a timeout or the caller's context; Stop ends the whole group.    *)
(* Three goroutines take part: the caller of Start and Stop, the waiter    *)
(* (cmd.Wait), and the reader of the harness's stdout.  The harness may    *)
(* fork, leave children behind, ignore SIGTERM, close its output, or leave *)
(* its process group; what it may do is modelled from what the code does   *)
(* with a process, since it is another program.                            *)
(***************************************************************************)
EXTENDS Readiness, FiniteSets

CONSTANTS
  Procs,      \* the processes the harness may consist of
  Leader,     \* the one exec.Cmd starts
  MayEscape,  \* whether a process may leave the process group
  Scripts,    \* what the harness may print, line by line
  PipeSize    \* how many lines the stdout pipe holds

ASSUME HarnessAssumption ==
  /\ Leader \in Procs
  /\ MayEscape \in BOOLEAN
  /\ Scripts \subseteq Seq(Lines)
  /\ PipeSize \in Nat \ {0}

VARIABLES
  \* the operating system
  alive,      \* the processes that run
  born,       \* the processes that have been started
  group,      \* the members of the harness's process group
  stdout,     \* the processes that hold the write end of the stdout pipe
  stderr,     \* the same for stderr
  termed,     \* processes with a SIGTERM pending
  killed,     \* processes with a SIGKILL pending
  script,     \* what the harness prints
  stubborn,   \* the processes that do not exit on SIGTERM
  printed,    \* how many lines of it have been written to the stdout pipe
  \* the suite
  main,       \* where the caller of Start and Stop is
  graceOver,  \* the timer of Stop has fired
  waiter,     \* where cmd.Wait is
  reader,     \* where the reader of stdout is
  read, r,    \* the lines it has read and the Readiness it has filled in
  ch,         \* what it has sent to Start
  outcome     \* what Start returned

harness == <<alive, born, group, stdout, stderr, termed, killed, script, stubborn, printed>>
suite   == <<main, graceOver, waiter, reader, read, r, ch, outcome>>
vars    == <<harness, suite>>

Init ==
  /\ alive = {} /\ born = {} /\ group = {} /\ stdout = {} /\ stderr = {}
  /\ termed = {} /\ killed = {}
  /\ script \in Scripts /\ stubborn \in SUBSET Procs
  /\ printed = 0
  /\ main = "start" /\ graceOver = FALSE /\ waiter = "none" /\ reader = "none"
  /\ read = 0 /\ r = Nothing /\ ch = "empty" /\ outcome = "none"
-----------------------------------------------------------------------------
(* The harness.                                                            *)

(* A write fails once the suite has closed the read end, and blocks while  *)
(* the pipe is full.                                                       *)
PipeFull == printed - read = PipeSize

WriteLine(p) ==
  /\ p \in alive \cap stdout
  /\ ~PipeFull
  /\ waiter \notin {"closed", "done"}
  /\ printed < Len(script)
  /\ printed' = printed + 1
  /\ UNCHANGED <<alive, born, group, stdout, stderr, termed, killed, script, stubborn, suite>>

(* A child is in its parent's group and inherits its output; a process     *)
(* with a SIGKILL pending does not fork.                                   *)
Fork(p, q) ==
  /\ p \in alive \ killed
  /\ q \notin born
  /\ alive' = alive \cup {q}
  /\ born' = born \cup {q}
  /\ group' = IF p \in group THEN group \cup {q} ELSE group
  /\ stdout' = IF p \in stdout THEN stdout \cup {q} ELSE stdout
  /\ stderr' = IF p \in stderr THEN stderr \cup {q} ELSE stderr
  /\ UNCHANGED <<termed, killed, script, stubborn, printed, suite>>

CloseOutput(p) ==
  /\ p \in alive
  /\ \/ p \in stdout /\ stdout' = stdout \ {p} /\ UNCHANGED stderr
     \/ p \in stderr /\ stderr' = stderr \ {p} /\ UNCHANGED stdout
  /\ UNCHANGED <<alive, born, group, termed, killed, script, stubborn, printed, suite>>

(* setsid, setpgid: the leader of a group cannot leave it.                 *)
Escape(p) ==
  /\ MayEscape
  /\ p \in (alive \cap group) \ (killed \cup {Leader})
  /\ group' = group \ {p}
  /\ UNCHANGED <<alive, born, stdout, stderr, termed, killed, script, stubborn, printed, suite>>

Die(p) ==
  /\ alive' = alive \ {p}
  /\ stdout' = stdout \ {p}
  /\ stderr' = stderr \ {p}
  /\ UNCHANGED <<born, group, termed, killed, script, stubborn, printed, suite>>

Exit(p)      == p \in alive /\ Die(p)
Terminate(p) == p \in (alive \cap termed) \ stubborn /\ Die(p)
Kill(p)      == p \in alive \cap killed /\ Die(p)
-----------------------------------------------------------------------------
(* Start.                                                                  *)

StartFails ==
  /\ main = "start"
  /\ main' = "returned"
  /\ outcome' = "not started"
  /\ UNCHANGED <<harness, graceOver, waiter, reader, read, r, ch>>

StartProcess ==
  /\ main = "start"
  /\ alive' = {Leader} /\ born' = {Leader} /\ group' = {Leader}
  /\ stdout' = {Leader} /\ stderr' = {Leader}
  /\ main' = "select"
  /\ waiter' = "process"
  /\ reader' = "parsing"
  /\ UNCHANGED <<termed, killed, script, stubborn, printed, graceOver, read, r, ch, outcome>>

Await(result, next) ==
  /\ main = "select"
  /\ outcome' = result
  /\ main' = next
  /\ UNCHANGED <<harness, graceOver, waiter, reader, read, r, ch>>

ReceiveReady == ch = "ready" /\ Await("ready", "running")
ReceiveError == ch = "failed" /\ Await("not ready", "term")
NoTimeOut    == FALSE                  \* mutant
TimeOut      == Await("timed out", "term")
ContextDone  == Await("cancelled", "term")

(* Stop, called when Start fails or, once it has succeeded, by the cleanup *)
(* of the test environment.                                                *)
EndTest ==
  /\ main = "running"
  /\ main' = "term"
  /\ UNCHANGED <<harness, graceOver, waiter, reader, read, r, ch, outcome>>

(* Mutant: kill(pid).                                                      *)
SignalLeader(pending) == pending \cup (alive \cap {Leader})

(* kill(-pgid): every live member of the group.                            *)
Signal(pending) == pending \cup (alive \cap group)

SendTerm ==
  /\ main = "term"
  /\ termed' = Signal(termed)
  /\ main' = "grace"
  /\ UNCHANGED <<alive, born, group, stdout, stderr, killed, script, stubborn, printed,
                 graceOver, waiter, reader, read, r, ch, outcome>>

GraceTimer ==
  /\ main = "grace"
  /\ ~graceOver
  /\ graceOver' = TRUE
  /\ UNCHANGED <<harness, main, waiter, reader, read, r, ch, outcome>>

(* Mutant: nothing is killed once the harness itself has been waited for.  *)
AfterGraceDone == IF waiter = "done" THEN "stopped" ELSE "kill"
AfterGrace     == "kill"

GraceEnds ==
  /\ main = "grace"
  /\ waiter = "done" \/ graceOver
  /\ main' = AfterGrace
  /\ UNCHANGED <<harness, graceOver, waiter, reader, read, r, ch, outcome>>

SendKill ==
  /\ main = "kill"
  /\ killed' = Signal(killed)
  /\ main' = "wait"
  /\ UNCHANGED <<alive, born, group, stdout, stderr, termed, script, stubborn, printed,
                 graceOver, waiter, reader, read, r, ch, outcome>>

StopReturns ==
  /\ main = "wait"
  /\ waiter = "done"
  /\ main' = "stopped"
  /\ UNCHANGED <<harness, graceOver, waiter, reader, read, r, ch, outcome>>
-----------------------------------------------------------------------------
(* cmd.Wait: the process, then the goroutine that copies stderr until no   *)
(* process can write to it any more, then the read end of stdout.          *)

Reap ==
  /\ waiter = "process"
  /\ Leader \notin alive
  /\ waiter' = "copying"
  /\ UNCHANGED <<harness, main, graceOver, reader, read, r, ch, outcome>>

CloseStdout ==
  /\ waiter = "copying"
  /\ stderr = {}
  /\ waiter' = "closed"
  /\ UNCHANGED <<harness, main, graceOver, reader, read, r, ch, outcome>>

CloseDone ==
  /\ waiter = "closed"
  /\ waiter' = "done"
  /\ UNCHANGED <<harness, main, graceOver, reader, read, r, ch, outcome>>

(* The reader: parseStdout, one answer to Start, then drain the pipe.      *)
(* Mutants: a pipe that is empty for now is taken for the end; the reader  *)
(* ends at end-of-file only.                                               *)
NothingToRead == read = printed
EndOfFile     == stdout = {} /\ read = printed
StdoutOver    == waiter \in {"closed", "done"} \/ (stdout = {} /\ read = printed)

NextTwo  == read' = read + 2    \* mutant
NextLine == read' = read + 1

(* Once the read end is closed the scanner still has the lines it had      *)
(* buffered, however many these were.                                      *)
ReadLine ==
  /\ reader = "parsing"
  /\ read < printed
  /\ NextLine
  /\ LET l == script[read + 1]
         v == Verdict(r, l)
     IN  /\ r' = Announce(r, l)
         /\ IF v = "reading" THEN UNCHANGED <<ch, reader>>
                             ELSE ch' = v /\ reader' = "draining"
  /\ UNCHANGED <<harness, main, graceOver, waiter, outcome>>

ReadEnd ==
  /\ reader = "parsing"
  /\ StdoutOver
  /\ ch' = "failed"
  /\ reader' = "draining"
  /\ UNCHANGED <<harness, main, graceOver, waiter, read, r, outcome>>

(* Mutant: the reader stops at READY.                                      *)
NothingLeft == FALSE
LinesLeft   == read < printed

Drain ==
  /\ reader = "draining"
  /\ LinesLeft
  /\ waiter \notin {"closed", "done"}
  /\ read' = printed
  /\ UNCHANGED <<harness, main, graceOver, waiter, reader, r, ch, outcome>>

DrainEnd ==
  /\ reader = "draining"
  /\ StdoutOver
  /\ reader' = "done"
  /\ UNCHANGED <<harness, main, graceOver, waiter, read, r, ch, outcome>>
-----------------------------------------------------------------------------
HarnessStep ==
  \E p \in Procs : WriteLine(p) \/ CloseOutput(p) \/ Escape(p) \/ Exit(p) \/ \E q \in Procs : Fork(p, q)

Kernel == \E p \in Procs : Terminate(p) \/ Kill(p)

Main ==
  \/ StartFails \/ StartProcess \/ ReceiveReady \/ ReceiveError \/ TimeOut \/ ContextDone
  \/ EndTest \/ SendTerm \/ GraceTimer \/ GraceEnds \/ SendKill \/ StopReturns

Waiter == Reap \/ CloseStdout \/ CloseDone
Reader == ReadLine \/ ReadEnd \/ Drain \/ DrainEnd

Next == HarnessStep \/ Kernel \/ Main \/ Waiter \/ Reader

Spec == Init /\ [][Next]_vars

(* Timers fire, signals are delivered, goroutines run; the test itself may *)
(* go on for ever, and nothing is assumed of the harness.                  *)
Fairness ==
  /\ WF_vars(ReceiveReady \/ ReceiveError \/ TimeOut)
  /\ WF_vars(SendTerm \/ GraceEnds \/ SendKill \/ StopReturns)
  /\ WF_vars(GraceTimer)
  /\ \A p \in Procs : WF_vars(Terminate(p)) /\ WF_vars(Kill(p))
  /\ WF_vars(Waiter)
  /\ WF_vars(Reader)

FairSpec == Spec /\ Fairness
-----------------------------------------------------------------------------
(* Every variable holds what the code can put in it; a process holds a     *)
(* pipe only while it runs, and the reader is not ahead of the harness.    *)
TypeOK ==
  /\ alive \subseteq born /\ born \subseteq Procs /\ group \subseteq born
  /\ stdout \subseteq alive /\ stderr \subseteq alive
  /\ termed \subseteq Procs /\ killed \subseteq Procs
  /\ graceOver \in BOOLEAN
  /\ script \in Scripts /\ stubborn \subseteq Procs
  /\ printed \in 0..Len(script) /\ read \in 0..printed
  /\ r \in [Fields -> Int]
  /\ main \in {"start", "select", "running", "term", "grace", "kill", "wait",
               "stopped", "returned"}
  /\ waiter \in {"none", "process", "copying", "closed", "done"}
  /\ reader \in {"none", "parsing", "draining", "done"}
  /\ ch \in {"empty", "ready", "failed"}
  /\ outcome \in {"none", "not started", "ready", "not ready", "timed out", "cancelled"}

(* Once Stop has returned, nothing of the harness's group runs: every      *)
(* member is dead, or dying from a SIGKILL and cut off from the suite.     *)
NoSurvivors ==
  main = "stopped" => \A p \in alive \cap group : p \in killed \ stderr

(* Start returns a process only for a complete announcement that the       *)
(* harness has really printed, and reports "not ready" only of a harness   *)
(* that printed something wrong, printed a line of 64 KiB, or can print no *)
(* more: it has exited or closed its output.                               *)
OutcomeJustified ==
  /\ outcome = "ready" => Announced(SubSeq(script, 1, printed))
  /\ outcome = "not ready" =>
       ~Announced(script) \/ Overlong(script, printed) \/ Leader \notin alive \/ stdout = {}

(* Start returns, whatever the harness prints or does not: with a process  *)
(* that runs, or with an error once Stop, which each of its error paths    *)
(* calls, has returned.  Only a process that has left the group and keeps  *)
(* the harness's stderr open may prevent it.                               *)
StartEnds == main = "select" ~> (main \in {"running", "stopped"} \/ stderr \ group # {})

(* A harness that writes more than the pipe holds is not blocked for ever, *)
(* before READY or after it: the pipe is emptied, or its read end closed   *)
(* (the reader goroutine of Start).                                        *)
WritersNotBlocked == PipeFull ~> (~PipeFull \/ waiter \in {"closed", "done"})

(* Stop returns, and with it a Start that fails, unless a process that has *)
(* left the group keeps the harness's stderr open.                         *)
StopEndsUnlessEscaped ==
  main = "term" ~> (main = "stopped" \/ stderr \ group # {})

(* No goroutine of a harness outlives Stop.                                *)
GoroutinesEnd == main = "stopped" ~> waiter = "done" /\ reader = "done"
=============================================================================
