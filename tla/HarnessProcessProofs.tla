------------------------ MODULE HarnessProcessProofs ------------------------
(***************************************************************************)
(* Proofs about HarnessProcess, for every set of processes and of outputs: *)
(* nothing of the harness's group survives Stop, and Start's outcome is    *)
(* justified by what the harness printed.                                  *)
(***************************************************************************)
EXTENDS HarnessProcess, ReadinessProofs

(* The processes: pipes are held by the living, who have been born.        *)
ProcessTypes ==
  /\ alive \subseteq born /\ born \subseteq Procs /\ group \subseteq born
  /\ stdout \subseteq alive /\ stderr \subseteq alive
  /\ termed \subseteq Procs /\ killed \subseteq Procs /\ stubborn \subseteq Procs

OutputTypes == script \in Scripts /\ printed \in 0..Len(script) /\ read \in 0..printed

SuiteTypes ==
  /\ graceOver \in BOOLEAN
  /\ r \in [Fields -> Int]
  /\ main \in {"start", "select", "running", "term", "grace", "kill", "wait", "stopped", "returned"}
  /\ waiter \in {"none", "process", "copying", "closed", "done"}
  /\ reader \in {"none", "parsing", "draining", "done"}
  /\ ch \in {"empty", "ready", "failed"}
  /\ outcome \in {"none", "not started", "ready", "not ready", "timed out", "cancelled"}

(* Before the harness is started nothing runs.                             *)
NotStarted == main = "start" => born = {} /\ waiter = "none"

(* Nobody who has not been killed is left in the group after SIGKILL: the  *)
(* group grows only by children of members, and those have none any more.  *)
Doomed == main \in {"wait", "stopped"} => alive \cap group \subseteq killed

(* The waiter goes past the copying only when nobody holds stderr, which   *)
(* nobody can then inherit.                                                *)
CutOff ==
  /\ waiter \in {"closed", "done"} => stderr = {}
  /\ main = "stopped" => waiter = "done"

ProcessInv == ProcessTypes /\ OutputTypes /\ SuiteTypes /\ NotStarted /\ Doomed /\ CutOff
-----------------------------------------------------------------------------
(* What the module's declarations promise of a script and its lines.       *)
LEMMA ScriptLines ==
  ASSUME NEW s \in Scripts, NEW i \in 1..Len(s)
  PROVE  Len(s) \in Nat /\ s[i] \in Lines
  BY HarnessAssumption DEF HarnessAssumption

-----------------------------------------------------------------------------
LEMMA InitKeeps == Init => ProcessInv
<1> SUFFICES ASSUME Init PROVE ProcessInv
  OBVIOUS
<1>1. ProcessTypes
  BY DEF Init, ProcessTypes
<1>2. OutputTypes
  <2>1. Len(script) \in Nat
    BY HarnessAssumption DEF HarnessAssumption, Init
  <2> QED BY <2>1 DEF Init, OutputTypes
<1>3. SuiteTypes
  <2>1. Nothing \in [Fields -> Int]
    BY DEF Nothing
  <2> QED BY <2>1 DEF Init, SuiteTypes
<1>4. NotStarted /\ Doomed /\ CutOff
  BY DEF Init, NotStarted, Doomed, CutOff
<1> QED BY <1>1, <1>2, <1>3, <1>4 DEF ProcessInv

(* What the processes do, of their own accord or for a signal.             *)
LEMMA HarnessKeeps ==
  ASSUME ProcessInv, HarnessStep \/ Kernel
  PROVE  ProcessInv'
<1>1. CASE \E p \in Procs : WriteLine(p)
  <2>1. printed' = printed + 1 /\ printed < Len(script) /\ UNCHANGED <<script, read>>
    BY <1>1 DEF WriteLine, suite
  <2>2. OutputTypes'
    BY <2>1, HarnessAssumption DEF HarnessAssumption, ProcessInv, OutputTypes
  <2>3. ProcessTypes' /\ SuiteTypes' /\ NotStarted' /\ Doomed' /\ CutOff'
    BY ZenonT(30), <1>1 DEF ProcessInv, ProcessTypes, SuiteTypes, NotStarted, Doomed, CutOff, WriteLine, suite
  <2> QED BY <2>2, <2>3 DEF ProcessInv
<1>2. ASSUME NEW p \in Procs, NEW q \in Procs, Fork(p, q)
      PROVE  ProcessInv'
  <2>1. p \in alive \ killed /\ q \notin born /\ UNCHANGED <<termed, killed, script, stubborn, printed, suite>>
    BY <1>2 DEF Fork
  <2>2. alive' = alive \cup {q} /\ born' = born \cup {q}
    BY <1>2 DEF Fork
  <2>3. group' = (IF p \in group THEN group \cup {q} ELSE group)
    BY <1>2 DEF Fork
  <2>4. /\ stdout' = (IF p \in stdout THEN stdout \cup {q} ELSE stdout)
        /\ stderr' = (IF p \in stderr THEN stderr \cup {q} ELSE stderr)
    BY <1>2 DEF Fork
  <2>5. ProcessTypes'
    BY <2>1, <2>2, <2>3, <2>4 DEF ProcessInv, ProcessTypes
  <2>6. OutputTypes' /\ SuiteTypes'
    BY ZenonT(30), <2>1 DEF ProcessInv, OutputTypes, SuiteTypes, suite
  <2>7. NotStarted'
    BY <2>1 DEF ProcessInv, ProcessTypes, NotStarted, suite
  <2>8. Doomed'
    BY <2>1, <2>2, <2>3 DEF ProcessInv, ProcessTypes, Doomed, suite
  <2>9. CutOff'
    BY <2>1, <2>4 DEF ProcessInv, CutOff, suite
  <2> QED BY <2>5, <2>6, <2>7, <2>8, <2>9 DEF ProcessInv
<1>3. ASSUME NEW p \in Procs, CloseOutput(p) \/ Escape(p)
      PROVE  ProcessInv'
  <2>1. /\ UNCHANGED <<alive, born, termed, killed, script, stubborn, printed, suite>>
        /\ group' \subseteq group /\ stdout' \subseteq stdout /\ stderr' \subseteq stderr
    BY <1>3 DEF CloseOutput, Escape
  <2>2. ProcessTypes'
    BY <2>1 DEF ProcessInv, ProcessTypes
  <2>3. OutputTypes' /\ SuiteTypes'
    BY ZenonT(30), <2>1 DEF ProcessInv, OutputTypes, SuiteTypes, suite
  <2>4. NotStarted' /\ Doomed' /\ CutOff'
    BY <2>1 DEF ProcessInv, NotStarted, Doomed, CutOff, suite
  <2> QED BY <2>2, <2>3, <2>4 DEF ProcessInv
<1>4. ASSUME NEW p \in Procs, Exit(p) \/ Terminate(p) \/ Kill(p)
      PROVE  ProcessInv'
  <2>1. /\ UNCHANGED <<born, group, termed, killed, script, stubborn, printed, suite>>
        /\ alive' = alive \ {p} /\ stdout' = stdout \ {p} /\ stderr' = stderr \ {p}
    BY <1>4 DEF Exit, Terminate, Kill, Die
  <2>2. ProcessTypes'
    BY <2>1 DEF ProcessInv, ProcessTypes
  <2>3. OutputTypes' /\ SuiteTypes'
    BY ZenonT(30), <2>1 DEF ProcessInv, OutputTypes, SuiteTypes, suite
  <2>4. NotStarted' /\ Doomed' /\ CutOff'
    BY <2>1 DEF ProcessInv, NotStarted, Doomed, CutOff, suite
  <2> QED BY <2>2, <2>3, <2>4 DEF ProcessInv
<1> QED BY <1>1, <1>2, <1>3, <1>4 DEF HarnessStep, Kernel

(* Start and Stop.                                                         *)
LEMMA MainKeeps ==
  ASSUME ProcessInv, Main
  PROVE  ProcessInv'
<1>1. CASE StartProcess
  <2>1. ProcessTypes'
    BY <1>1, HarnessAssumption DEF HarnessAssumption, ProcessInv, ProcessTypes, StartProcess
  <2>2. OutputTypes' /\ SuiteTypes'
    BY <1>1 DEF ProcessInv, OutputTypes, SuiteTypes, StartProcess
  <2>3. NotStarted' /\ Doomed' /\ CutOff'
    BY <1>1 DEF NotStarted, Doomed, CutOff, StartProcess
  <2> QED BY <2>1, <2>2, <2>3 DEF ProcessInv
<1>2. CASE SendTerm \/ SendKill
  <2>1. ProcessTypes'
    BY <1>2 DEF ProcessInv, ProcessTypes, SendTerm, SendKill, Signal
  <2>2. OutputTypes' /\ SuiteTypes'
    BY <1>2 DEF ProcessInv, OutputTypes, SuiteTypes, SendTerm, SendKill
  <2>3. NotStarted' /\ Doomed' /\ CutOff'
    BY <1>2 DEF ProcessInv, NotStarted, Doomed, CutOff, SendTerm, SendKill, Signal
  <2> QED BY <2>1, <2>2, <2>3 DEF ProcessInv
<1>3. CASE StartFails \/ ReceiveReady \/ ReceiveError \/ TimeOut \/ ContextDone
  <2>1. ProcessTypes' /\ OutputTypes' /\ SuiteTypes'
    BY <1>3 DEF ProcessInv, ProcessTypes, OutputTypes, SuiteTypes, StartFails, ReceiveReady,
       ReceiveError, TimeOut, ContextDone, Await, harness
  <2>2. NotStarted' /\ Doomed' /\ CutOff'
    BY <1>3 DEF ProcessInv, NotStarted, Doomed, CutOff, StartFails, ReceiveReady,
       ReceiveError, TimeOut, ContextDone, Await, harness
  <2> QED BY <2>1, <2>2 DEF ProcessInv
<1>4. CASE EndTest \/ GraceTimer \/ GraceEnds \/ StopReturns
  <2>1. ProcessTypes' /\ OutputTypes' /\ SuiteTypes'
    BY ZenonT(30), <1>4 DEF ProcessInv, ProcessTypes, OutputTypes, SuiteTypes, EndTest, GraceTimer, GraceEnds,
       AfterGrace, StopReturns, harness
  <2>2. NotStarted' /\ Doomed' /\ CutOff'
    BY <1>4 DEF ProcessInv, NotStarted, Doomed, CutOff, EndTest, GraceTimer, GraceEnds,
       AfterGrace, StopReturns, harness
  <2> QED BY <2>1, <2>2 DEF ProcessInv
<1> QED BY <1>1, <1>2, <1>3, <1>4 DEF Main

(* The two goroutines.                                                     *)
LEMMA GoroutinesKeep ==
  ASSUME ProcessInv, Waiter \/ Reader
  PROVE  ProcessInv'
<1>1. CASE Waiter
  <2>1. ProcessTypes' /\ OutputTypes' /\ SuiteTypes'
    BY <1>1 DEF ProcessInv, ProcessTypes, OutputTypes, SuiteTypes, Waiter, Reap, CloseStdout,
       CloseDone, harness
  <2>2. NotStarted' /\ Doomed' /\ CutOff'
    BY <1>1 DEF ProcessInv, NotStarted, Doomed, CutOff, Waiter, Reap, CloseStdout, CloseDone, harness
  <2> QED BY <2>1, <2>2 DEF ProcessInv
<1>2. CASE ReadLine
  <2>1. UNCHANGED <<harness, main, graceOver, waiter, outcome>> /\ read < printed /\ read' = read + 1
    BY <1>2 DEF ReadLine, NextLine
  <2>2. OutputTypes'
    BY <2>1, HarnessAssumption DEF HarnessAssumption, ProcessInv, OutputTypes, harness
  <2>3. script[read + 1] \in Lines
    <3>1. read + 1 \in 1..Len(script)
      BY <2>1, HarnessAssumption DEF HarnessAssumption, ProcessInv, OutputTypes
    <3> QED BY <3>1, ScriptLines DEF ProcessInv, OutputTypes
  <2>4. r' \in [Fields -> Int]
    BY <1>2, <2>3, AnnounceTypes DEF ReadLine, ProcessInv, SuiteTypes
  <2>5. ch' \in {"empty", "ready", "failed"} /\ reader' \in {"none", "parsing", "draining", "done"}
    BY <1>2, VerdictTypes DEF ReadLine, ProcessInv, SuiteTypes
  <2>6. ProcessTypes' /\ SuiteTypes' /\ NotStarted' /\ Doomed' /\ CutOff'
    BY <2>1, <2>4, <2>5 DEF ProcessInv, ProcessTypes, SuiteTypes, NotStarted, Doomed, CutOff, harness
  <2> QED BY <2>2, <2>6 DEF ProcessInv
<1>3. CASE ReadEnd \/ Drain \/ DrainEnd
  <2>1. read' \in {read, printed} /\ UNCHANGED <<harness, main, graceOver, waiter, r, outcome>>
    BY <1>3 DEF ReadEnd, Drain, DrainEnd
  <2>2. ch' \in {ch, "failed"} /\ reader' \in {reader, "draining", "done"}
    BY <1>3 DEF ReadEnd, Drain, DrainEnd
  <2>3. OutputTypes'
    BY <2>1, HarnessAssumption DEF HarnessAssumption, ProcessInv, OutputTypes, harness
  <2>4. ProcessTypes'
    BY <2>1 DEF ProcessInv, ProcessTypes, harness
  <2>5. SuiteTypes'
    BY ZenonT(30), <2>1, <2>2 DEF ProcessInv, SuiteTypes
  <2>6. NotStarted' /\ Doomed' /\ CutOff'
    BY <2>1 DEF ProcessInv, NotStarted, Doomed, CutOff, harness
  <2> QED BY <2>3, <2>4, <2>5, <2>6 DEF ProcessInv
<1> QED BY <1>1, <1>2, <1>3 DEF Reader
-----------------------------------------------------------------------------
(* The inductive invariant of Start and Stop holds throughout: the group   *)
(* is doomed from SIGKILL on, and Stop returns only once nobody holds the  *)
(* harness's stderr (harness.go).                                          *)
THEOREM ProcessInvariant == Spec => []ProcessInv
<1>1. Init => ProcessInv
  BY InitKeeps
<1>2. ProcessInv /\ [Next]_vars => ProcessInv'
  <2> SUFFICES ASSUME ProcessInv, [Next]_vars PROVE ProcessInv'
    OBVIOUS
  <2>1. CASE Next
    BY <2>1, HarnessKeeps, MainKeeps, GoroutinesKeep DEF Next
  <2>2. CASE UNCHANGED vars
    <3>1. ProcessTypes' /\ OutputTypes'
      BY <2>2 DEF vars, harness, suite, ProcessInv, ProcessTypes, OutputTypes
    <3>2. SuiteTypes'
      BY ZenonT(30), <2>2 DEF vars, suite, ProcessInv, SuiteTypes
    <3>3. NotStarted' /\ Doomed' /\ CutOff'
      BY <2>2 DEF vars, harness, suite, ProcessInv, NotStarted, Doomed, CutOff
    <3> QED BY <3>1, <3>2, <3>3 DEF ProcessInv
  <2> QED BY <2>1, <2>2
<1> QED BY <1>1, <1>2, PTL DEF Spec

(* Every variable of the model of Start and Stop keeps its type.           *)
THEOREM TypeCorrect == Spec => []TypeOK
<1>1. ProcessInv => TypeOK
  BY DEF ProcessInv, ProcessTypes, OutputTypes, SuiteTypes, TypeOK
<1> QED BY <1>1, ProcessInvariant, PTL

(* Once Stop has returned, every member of the harness's process group is  *)
(* dead, or dying and cut off from the suite (Stop).                       *)
THEOREM StopLeavesNobody == Spec => []NoSurvivors
<1>1. ProcessInv => NoSurvivors
  BY DEF ProcessInv, Doomed, CutOff, NoSurvivors
<1> QED BY <1>1, ProcessInvariant, PTL
-----------------------------------------------------------------------------
(* Start's outcome.                                                        *)

(* The harness has said all it will say, or something wrong or too long.   *)
Finished == Leader \notin alive \/ stdout = {}
Hopeless == ~Announced(script) \/ Overlong(script, printed) \/ Finished

(* The harness is born when Start leaves its first step, nothing answers   *)
(* Start before, and only the dead are waited for.                         *)
Begun ==
  /\ main \in {"start", "returned"} =>
       reader = "none" /\ waiter = "none" /\ outcome \in {"none", "not started"}
  /\ main \notin {"start", "returned"} => Leader \in born
  /\ waiter \in {"copying", "closed", "done"} => Leader \in born \ alive

(* While the reader parses, no line so far ends the announcement and r     *)
(* holds the latest value of every field, as in ReadinessParser.           *)
Parsing ==
  /\ reader = "none" => read = 0 /\ r = Nothing /\ ch = "empty"
  /\ reader = "parsing" =>
       /\ CleanUpTo(script, read)
       /\ r \in [Fields -> Values(script, read)]
       /\ \A k \in Fields : Latest(script, k, read + 1, r[k])
       /\ ch = "empty"

(* What the reader has sent to Start, and what Start has made of it.       *)
Sent ==
  /\ ch = "ready" \/ outcome = "ready" => Announced(SubSeq(script, 1, printed))
  /\ ch = "failed" \/ outcome = "not ready" => Hopeless

OutcomeInv == Begun /\ Parsing /\ Sent

(* Nobody comes back to life, and nobody gets hold of stdout again.        *)
LEMMA FinishedLasts ==
  ASSUME ProcessInv, Next, Finished, main # "start", Leader \in born
  PROVE  Finished'
<1>1. CASE HarnessStep \/ Kernel
  <2>1. ASSUME NEW p \in Procs, NEW q \in Procs, Fork(p, q)
        PROVE  Finished'
    <3>1. stdout \subseteq alive /\ p \in alive /\ Leader # q
      BY <2>1 DEF Fork, ProcessInv, ProcessTypes
    <3>2. Leader \notin alive => Leader \notin alive'
      BY <2>1, <3>1 DEF Fork
    <3>3. stdout = {} => stdout' = {}
      BY <2>1 DEF Fork
    <3> QED BY <3>2, <3>3 DEF Finished
  <2>2. ASSUME NEW p \in Procs, WriteLine(p) \/ CloseOutput(p) \/ Escape(p) \/ Exit(p) \/ Terminate(p) \/ Kill(p)
        PROVE  Finished'
    <3>1. alive' \subseteq alive /\ stdout' \subseteq stdout
      BY <2>2 DEF WriteLine, CloseOutput, Escape, Exit, Terminate, Kill, Die
    <3> QED BY <3>1 DEF Finished
  <2> QED BY <1>1, <2>1, <2>2 DEF HarnessStep, Kernel
<1>2. CASE Main \/ Waiter \/ Reader
  <2>1. UNCHANGED <<alive, stdout>>
    BY <1>2 DEF Main, StartFails, StartProcess, ReceiveReady, ReceiveError, TimeOut, ContextDone,
       Await, EndTest, SendTerm, GraceTimer, GraceEnds, SendKill, StopReturns, Waiter, Reap,
       CloseStdout, CloseDone, Reader, ReadLine, ReadEnd, Drain, DrainEnd, harness
  <2> QED BY <2>1 DEF Finished
<1> QED BY <1>1, <1>2 DEF Next

(* What the harness and the kernel do leaves the suite as it is, and what  *)
(* has been printed stays.                                                 *)
LEMMA HarnessPrints ==
  ASSUME ProcessInv, OutcomeInv, HarnessStep \/ Kernel
  PROVE  OutcomeInv'
<1>1. UNCHANGED <<script, suite>>
  BY DEF HarnessStep, Kernel, WriteLine, Fork, CloseOutput, Escape, Exit, Terminate, Kill, Die
<1>2. Begun'
  <2>1. ASSUME NEW p \in Procs, NEW q \in Procs, Fork(p, q)
        PROVE  Begun'
    BY <2>1, <1>1 DEF Fork, Begun, OutcomeInv, suite
  <2>2. ASSUME NEW p \in Procs, WriteLine(p) \/ CloseOutput(p) \/ Escape(p) \/ Exit(p) \/ Terminate(p) \/ Kill(p)
        PROVE  Begun'
    <3>1. alive' \subseteq alive /\ born' = born
      BY <2>2 DEF WriteLine, CloseOutput, Escape, Exit, Terminate, Kill, Die
    <3> QED BY <1>1, <3>1 DEF Begun, OutcomeInv, suite
  <2> QED BY <2>1, <2>2 DEF HarnessStep, Kernel
<1>3. Parsing'
  BY <1>1 DEF OutcomeInv, Parsing, suite
<1>4. Sent'
  <2>1. printed' \in {printed, printed + 1} /\ printed' \in 0..Len(script)
    <3>1. printed' \in {printed, printed + 1}
      BY DEF HarnessStep, Kernel, WriteLine, Fork, CloseOutput, Escape, Exit, Terminate, Kill, Die
    <3> QED BY <1>1, <3>1, HarnessKeeps DEF ProcessInv, OutputTypes
  <2>2. Announced(SubSeq(script, 1, printed)) => Announced(SubSeq(script, 1, printed'))
    <3>1. script \in Seq(Lines) /\ printed \in 0..Len(script) /\ printed <= printed'
      BY <2>1, HarnessAssumption DEF HarnessAssumption, ProcessInv, OutputTypes
    <3>2. 1..printed \subseteq 1..printed'
      BY <2>1, <3>1
    <3> QED BY <2>1, <3>1, <3>2, AnnouncedPrefix
  <2>3. Hopeless /\ main # "start" /\ Leader \in born => Hopeless'
    <3>1. Finished /\ main # "start" /\ Leader \in born => Finished'
      BY FinishedLasts DEF Next
    <3>2. Overlong(script, printed) => Overlong(script, printed')
      <4>1. printed \in Int /\ printed <= printed'
        BY <2>1 DEF ProcessInv, OutputTypes
      <4>2. 1..printed \subseteq 1..printed'
        BY <2>1, <4>1
      <4> QED BY <4>2 DEF Overlong
    <3> QED BY <1>1, <3>1, <3>2 DEF Hopeless
  <2>4. ch = "failed" \/ outcome = "not ready" => main # "start" /\ Leader \in born
    BY DEF OutcomeInv, Begun, Parsing
  <2> QED BY <1>1, <2>2, <2>3, <2>4 DEF OutcomeInv, Sent, suite
<1> QED BY <1>2, <1>3, <1>4 DEF OutcomeInv

(* Start and Stop read what the reader has sent.                           *)
LEMMA MainOutcome ==
  ASSUME ProcessInv, OutcomeInv, Main
  PROVE  OutcomeInv'
<1>1. CASE StartProcess
  <2>1. Begun'
    BY <1>1 DEF StartProcess, Begun, OutcomeInv, ProcessInv, NotStarted
  <2>2. Parsing'
    <3>1. read = 0 /\ r = Nothing /\ ch = "empty"
      BY <1>1 DEF StartProcess, OutcomeInv, Begun, Parsing
    <3>2. CleanUpTo(script, 0) /\ Nothing \in [Fields -> Values(script, 0)]
      BY DEF CleanUpTo, Values, Nothing
    <3>3. \A k \in Fields : Said(script, k, 0 + 1) = {}
      BY DEF Said
    <3>4. \A k \in Fields : Latest(script, k, 0 + 1, Nothing[k])
      BY <3>3 DEF Latest, Nothing
    <3> QED BY <1>1, <3>1, <3>2, <3>4 DEF StartProcess, Parsing
  <2>3. Sent'
    BY <1>1 DEF StartProcess, OutcomeInv, Begun, Parsing, Sent
  <2> QED BY <2>1, <2>2, <2>3 DEF OutcomeInv
<1>2. CASE ReceiveReady \/ ReceiveError \/ TimeOut \/ ContextDone
  <2>1. /\ main = "select" /\ main' \in {"running", "term"}
        /\ UNCHANGED <<harness, graceOver, waiter, reader, read, r, ch>>
    BY <1>2 DEF ReceiveReady, ReceiveError, TimeOut, ContextDone, Await
  <2>2. /\ outcome' = "ready" => ch = "ready"
        /\ outcome' = "not ready" => ch = "failed"
    BY <1>2 DEF ReceiveReady, ReceiveError, TimeOut, ContextDone, Await
  <2>3. Begun' /\ Parsing'
    BY <2>1 DEF OutcomeInv, Begun, Parsing, harness
  <2>4. Sent'
    BY <2>1, <2>2 DEF OutcomeInv, Sent, Hopeless, Finished, harness
  <2> QED BY <2>3, <2>4 DEF OutcomeInv
<1>3. CASE StartFails
  <2>1. Begun' /\ Parsing' /\ Sent'
    BY <1>3 DEF StartFails, OutcomeInv, Begun, Parsing, Sent, Hopeless, Finished, harness
  <2> QED BY <2>1 DEF OutcomeInv
<1>4. CASE EndTest \/ SendTerm \/ GraceTimer \/ GraceEnds \/ SendKill \/ StopReturns
  <2>1. /\ UNCHANGED <<alive, born, stdout, script, printed, waiter, reader, read, r, ch, outcome>>
        /\ main \notin {"start", "returned"} /\ main' \notin {"start", "returned"}
    BY <1>4 DEF EndTest, SendTerm, GraceTimer, GraceEnds, AfterGrace, SendKill, StopReturns, harness
  <2>2. Begun' /\ Parsing'
    BY <2>1 DEF OutcomeInv, Begun, Parsing
  <2>3. Sent'
    BY <2>1 DEF OutcomeInv, Sent, Hopeless, Finished
  <2> QED BY <2>2, <2>3 DEF OutcomeInv
<1> QED BY <1>1, <1>2, <1>3, <1>4 DEF Main

LEMMA WaiterOutcome ==
  ASSUME ProcessInv, OutcomeInv, Waiter
  PROVE  OutcomeInv'
<1>1. UNCHANGED <<harness, main, reader, read, r, ch, outcome>>
  BY DEF Waiter, Reap, CloseStdout, CloseDone
<1>2. Begun'
  BY <1>1 DEF Waiter, Reap, CloseStdout, CloseDone, ProcessInv, NotStarted, OutcomeInv, Begun, harness
<1>3. Parsing' /\ Sent'
  BY <1>1 DEF OutcomeInv, Parsing, Sent, Hopeless, Finished, harness
<1> QED BY <1>2, <1>3 DEF OutcomeInv

(* The reader sends "ready" at the first READY of a complete announcement, *)
(* "failed" at a line that rules one out or at the end of the output.      *)
LEMMA ReaderOutcome ==
  ASSUME ProcessInv, OutcomeInv, Reader
  PROVE  OutcomeInv'
<1>1. UNCHANGED <<harness, main, waiter, outcome>> /\ reader \notin {"none", "done"} /\ reader' # "none"
  BY DEF Reader, ReadLine, ReadEnd, Drain, DrainEnd
<1>2. Begun'
  BY <1>1 DEF OutcomeInv, Begun, harness
<1>3. CASE ReadLine
  <2>1. /\ read < printed /\ read' = read + 1 /\ reader = "parsing"
        /\ r' = Announce(r, script[read + 1])
        /\ IF Verdict(r, script[read + 1]) = "reading" THEN UNCHANGED <<ch, reader>>
           ELSE ch' = Verdict(r, script[read + 1]) /\ reader' = "draining"
    BY <1>3 DEF ReadLine, NextLine
  <2>2. /\ script \in Seq(Lines) /\ read + 1 \in 1..Len(script) /\ read + 1 \in Nat \ {0}
        /\ read + 1 \in 1..printed /\ printed \in 0..Len(script) /\ (read + 1) - 1 = read
    BY <2>1, HarnessAssumption DEF HarnessAssumption, ProcessInv, OutputTypes
  <2>3. /\ CleanUpTo(script, (read + 1) - 1) /\ r \in [Fields -> Values(script, (read + 1) - 1)]
        /\ \A k \in Fields : Latest(script, k, read + 1, r[k])
        /\ ch = "empty"
    BY <2>1, <2>2 DEF OutcomeInv, Parsing
  <2>4. CASE Verdict(r, script[read + 1]) = "reading"
    <3>1. /\ CleanUpTo(script, read + 1)
          /\ \A k \in Fields : Latest(script, k, (read + 1) + 1, Announce(r, script[read + 1])[k])
      BY <2>2, <2>3, <2>4, ReadsOn
    <3>2. Announce(r, script[read + 1]) \in [Fields -> Values(script, read + 1)]
      BY <2>2, <2>3, AnnounceValues
    <3>3. Parsing'
      BY <1>1, <2>1, <2>3, <2>4, <3>1, <3>2 DEF Parsing, harness
    <3>4. Sent'
      BY <1>1, <2>1, <2>4 DEF OutcomeInv, Sent, Hopeless, Finished, harness
    <3> QED BY <1>2, <3>3, <3>4 DEF OutcomeInv
  <2>5. CASE Verdict(r, script[read + 1]) = "ready"
    <3>1. AnnouncedAt(script, read + 1)
      BY <2>2, <2>3, <2>5, AcceptsAnnounced
    <3>2. Announced(SubSeq(script, 1, printed))
      BY <2>2, <3>1, AnnouncedPrefix
    <3>3. Parsing' /\ Sent'
      BY <1>1, <2>1, <2>5, <3>2 DEF OutcomeInv, Parsing, Sent, Hopeless, Finished, harness
    <3> QED BY <1>2, <3>3 DEF OutcomeInv
  <2>6. CASE Verdict(r, script[read + 1]) = "failed"
    <3>1. r \in [Fields -> Int]
      BY DEF ProcessInv, SuiteTypes
    <3>2. ~Announced(script) \/ Overlong(script, printed)
      BY <2>2, <2>3, <2>6, <3>1, NotAnnounced DEF Overlong
    <3>3. Parsing' /\ Sent'
      BY <1>1, <2>1, <2>6, <3>2 DEF OutcomeInv, Parsing, Sent, Hopeless, Finished, harness
    <3> QED BY <1>2, <3>3 DEF OutcomeInv
  <2> QED BY <2>4, <2>5, <2>6, VerdictTypes
<1>4. CASE ReadEnd
  <2>1. ch' = "failed" /\ reader' = "draining" /\ StdoutOver
    BY <1>4 DEF ReadEnd
  <2>2. Finished
    BY <2>1 DEF StdoutOver, OutcomeInv, Begun, Finished
  <2>3. Parsing' /\ Sent'
    BY <1>1, <2>1, <2>2 DEF OutcomeInv, Parsing, Sent, Hopeless, Finished, harness
  <2> QED BY <1>2, <2>3 DEF OutcomeInv
<1>5. CASE Drain \/ DrainEnd
  <2>1. ch' = ch /\ reader' \in {"draining", "done"}
    BY <1>5 DEF Drain, DrainEnd
  <2>2. Parsing' /\ Sent'
    BY <1>1, <2>1 DEF OutcomeInv, Parsing, Sent, Hopeless, Finished, harness
  <2> QED BY <1>2, <2>2 DEF OutcomeInv
<1> QED BY <1>3, <1>4, <1>5 DEF Reader

(* What Start and its reader know of the harness holds throughout: "ready" *)
(* follows a complete announcement, "failed" a wrong one or the end of the *)
(* output (Start, parseStdout).                                            *)
THEOREM OutcomeInvariant == Spec => [](ProcessInv /\ OutcomeInv)
<1>1. Init => OutcomeInv
  BY DEF Init, OutcomeInv, Begun, Parsing, Sent
<1>2. ProcessInv /\ OutcomeInv /\ [Next]_vars => OutcomeInv'
  <2> SUFFICES ASSUME ProcessInv, OutcomeInv, [Next]_vars PROVE OutcomeInv'
    OBVIOUS
  <2>1. CASE Next
    BY <2>1, HarnessPrints, MainOutcome, WaiterOutcome, ReaderOutcome DEF Next
  <2>2. CASE UNCHANGED vars
    <3>1. Begun' /\ Parsing'
      BY <2>2 DEF vars, harness, suite, OutcomeInv, Begun, Parsing
    <3>2. Sent'
      BY <2>2 DEF vars, harness, suite, OutcomeInv, Sent, Hopeless, Finished
    <3> QED BY <3>1, <3>2 DEF OutcomeInv
  <2> QED BY <2>1, <2>2
<1> QED BY <1>1, <1>2, ProcessInvariant, PTL DEF Spec

(* Start returns a process only for a complete announcement that has been  *)
(* printed, and "not ready" only of a harness that printed something wrong *)
(* or can print no more (Start).                                           *)
THEOREM StartIsJustified == Spec => []OutcomeJustified
<1>1. OutcomeInv => OutcomeJustified
  BY DEF OutcomeInv, Sent, Hopeless, Finished, OutcomeJustified
<1> QED BY <1>1, OutcomeInvariant, PTL
=============================================================================
