------------------------------ MODULE SuiteRun ------------------------------
(***************************************************************************)
(* One `suite run`: the selection of test cases and the exit status        *)
(* (cli/run.go, cmd/suite/main.go), the environment that is built up and   *)
(* torn down around every test case (newTestEnv in suite/env.go), the      *)
(* mapping of a test's end to a result (runOne and runCase in              *)
(* suite/suite.go), the report (internal/result), and the GitHub action    *)
(* that wraps the run (action.yml).                                        *)
(*                                                                         *)
(* What a test case does is left open: it ends in any of the ways a        *)
(* TestFunc can end, and the SDK may meanwhile call ValidateJWTSVID.       *)
(***************************************************************************)
EXTENDS Integers, Sequences, FiniteSets

CONSTANTS
  Registry,     \* the registered test cases, in order of registration
  Requests,     \* the values of --tests to try, as sets of names
  MayInterrupt  \* whether the suite may be killed by a signal

Names == {Registry[i] : i \in 1..Len(Registry)}

ASSUME RunAssumption ==
  /\ Registry \in Seq(Names)
  /\ \A i, j \in 1..Len(Registry) : Registry[i] = Registry[j] => i = j
  /\ MayInterrupt \in BOOLEAN

(* What newTestEnv does, in order, and what each step leaves behind.       *)
Setup == <<"dir", "ca", "listen", "x509", "jwt", "jwks", "probe", "harness">>

Acquired(s) ==
  CASE s = "dir" -> {"dir"} [] s = "listen" -> {"server"} [] s = "harness" -> {"harness"}
    [] OTHER -> {}

(* What newTestEnv gives back when the step fails.  Mutant: server.Stop is *)
(* forgotten after a failure of the fixtures.                              *)
ReleasedForgetful(s) == IF s = "dir" THEN {} ELSE {"dir"}

Released(s) ==
  CASE s = "dir"              -> {}
    [] s \in {"ca", "listen"} -> {"dir"}
    [] OTHER                  -> {"server", "dir"}

(* How a TestFunc can end.                                                 *)
Ends == {"nil", "error", "ExecutionError", "SkipError", "panic"}
Statuses == {"PASS", "FAIL", "SKIP", "ERROR"}

(* runCase.  Mutant: an ExecutionError is not told from other errors.      *)
StatusUndistinguished(end) ==
  CASE end = "nil"             -> "PASS"
    [] end = "SkipError"       -> "SKIP"
    [] end = "panic"           -> "ERROR"
    [] OTHER                   -> "FAIL"

StatusOf(end) ==
  CASE end = "nil"             -> "PASS"
    [] end = "error"           -> "FAIL"
    [] end = "SkipError"       -> "SKIP"
    [] end \in {"ExecutionError", "panic"} -> "ERROR"

(* selectCases: the requested test cases, in order of registration; each   *)
(* comes after those that are requested too and registered before it.      *)
Wanted(request) == {i \in 1..Len(Registry) : request = {} \/ Registry[i] \in request}

Before(request, i) == Cardinality({j \in Wanted(request) : j < i})

Selected(request) ==
  [k \in 1..Cardinality(Wanted(request)) |->
     Registry[CHOOSE i \in Wanted(request) : Before(request, i) + 1 = k]]

VARIABLES
  request,    \* --tests
  phase,      \* where the run is
  at,         \* how many test cases are done, in the order of Selected
  built,      \* how many steps of newTestEnv are done
  held,       \* what exists of the temporary directory, server and harness
  result,     \* the result of the current test case
  validated,  \* the server has recorded a call of ValidateJWTSVID
  report,     \* the Report
  file,       \* the file named by --results-file has been written
  exit,       \* exit status of the suite, -1 while it runs
  outputs,    \* the action has set its outputs
  \* history
  executed,   \* the test cases whose end says something about the SDK
  delegating  \* the test cases during which ValidateJWTSVID was called

vars == <<request, phase, at, built, held, result, validated, report, file, exit,
          outputs, executed, delegating>>

NoResult    == [name |-> "none", status |-> "none", delegated |-> FALSE]
EmptyReport == [results |-> <<>>, count |-> [s \in Statuses |-> 0]]
Current     == Selected(request)[at + 1]

Init ==
  /\ request \in Requests
  /\ phase = "select"
  /\ at = 0 /\ built = 0 /\ held = {} /\ result = NoResult /\ validated = FALSE
  /\ report = EmptyReport /\ file = FALSE /\ exit = -1 /\ outputs = FALSE
  /\ executed = {} /\ delegating = {}
-----------------------------------------------------------------------------
Exit(status) ==
  /\ phase' = "exited"
  /\ exit' = status

(* An unknown name ends the run before anything has been tested.           *)
Select ==
  /\ phase = "select"
  /\ IF request \subseteq Names THEN phase' = "next" /\ UNCHANGED exit ELSE Exit(1)
  /\ UNCHANGED <<request, at, built, held, result, validated, report, file, outputs,
                 executed, delegating>>

(* Every test case has a server of its own.  Mutant: they share one.       *)
SharedRecord == validated' = validated
FreshRecord  == validated' = FALSE

NextCase ==
  /\ phase = "next"
  /\ at < Len(Selected(request))
  /\ phase' = "setup"
  /\ built' = 0
  /\ result' = NoResult
  /\ FreshRecord
  /\ UNCHANGED <<request, at, held, report, file, exit, outputs, executed, delegating>>

Result(status, delegated) == [name |-> Current, status |-> status, delegated |-> delegated]

SetupStep ==
  /\ phase = "setup"
  /\ LET step == Setup[built + 1]
     IN \/ /\ held' = held \cup Acquired(step)
           /\ built' = built + 1
           /\ phase' = IF built + 1 = Len(Setup) THEN "test" ELSE "setup"
           /\ UNCHANGED result
        \/ /\ held' = held \ Released(step)
           /\ result' = Result("ERROR", FALSE)
           /\ phase' = "add"
           /\ UNCHANGED built
  /\ UNCHANGED <<request, at, validated, report, file, exit, outputs, executed, delegating>>

(* The harness is started by the last step, and may use the server before  *)
(* it has announced itself and until it has been stopped.                  *)
Validate ==
  /\ phase \in {"test", "stopHarness"} \/ (phase = "setup" /\ built + 1 = Len(Setup))
  /\ validated' = TRUE
  /\ delegating' = delegating \cup {Current}
  /\ UNCHANGED <<request, phase, at, built, held, result, report, file, exit, outputs, executed>>

(* tc.Run; a panic is recovered from, and leaves no environment.           *)
TestEnds ==
  /\ phase = "test"
  /\ \E end \in Ends :
       /\ result' = Result(StatusOf(end), FALSE)
       /\ phase' = "stopHarness"
       /\ built' = IF end = "panic" THEN 0 ELSE built
       /\ executed' = IF end \in {"ExecutionError", "panic"} THEN executed
                                                            ELSE executed \cup {Current}
  /\ UNCHANGED <<request, at, held, validated, report, file, exit, outputs, delegating>>

(* fullCleanup: the harness, then the server, then the directory with its  *)
(* socket.  Mutant: the server goes first.                                 *)
ServerFirst == <<"server", "harness", "dir">>
Teardown    == <<"harness", "server", "dir">>

Phases == <<"stopHarness", "stopServer", "removeDir">>

Cleanup ==
  /\ \E i \in 1..3 :
       /\ phase = Phases[i]
       /\ held' = held \ {Teardown[i]}
       /\ phase' = IF i = 3 THEN "flag" ELSE Phases[i + 1]
  /\ UNCHANGED <<request, at, built, result, validated, report, file, exit, outputs,
                 executed, delegating>>

(* runOne looks through the calls of the environment it has got back.      *)
Flag ==
  /\ phase = "flag"
  /\ result' = [result EXCEPT !.delegated = built # 0 /\ validated]
  /\ phase' = "add"
  /\ UNCHANGED <<request, at, built, held, validated, report, file, exit, outputs,
                 executed, delegating>>

(* Report.Add.  Mutant: ERROR is counted as FAIL.                          *)
CountedAsFail(s) == IF s = "ERROR" THEN "FAIL" ELSE s
Counted(s)       == s

Add ==
  /\ phase = "add"
  /\ report' = [results |-> Append(report.results, result),
                count |-> [report.count EXCEPT ![Counted(result.status)] = @ + 1]]
  /\ at' = at + 1
  /\ phase' = "next"
  /\ UNCHANGED <<request, built, held, result, validated, file, exit, outputs,
                 executed, delegating>>

ExitStatus == IF report.count["ERROR"] > 0 THEN 2 ELSE 0

(* The report is printed; the results file may turn out to be unwritable.  *)
Finish ==
  /\ phase = "next"
  /\ at = Len(Selected(request))
  /\ \/ /\ file' = TRUE
        /\ Exit(ExitStatus)
     \/ /\ Exit(1)
        /\ UNCHANGED file
  /\ UNCHANGED <<request, at, built, held, result, validated, report, outputs,
                 executed, delegating>>

(* The suite installs no signal handler: it dies, and its server with it.  *)
(* The harness is in a process group of its own.                           *)
Interrupt ==
  /\ MayInterrupt
  /\ exit = -1
  /\ held' = held \ {"server"}
  /\ Exit(130)
  /\ UNCHANGED <<request, at, built, result, validated, report, file, outputs,
                 executed, delegating>>

(* The rest of the action's script: GitHub runs it with bash -e, so it is  *)
(* reached only after an exit status of 0.                                 *)
ActionOutputs ==
  /\ phase = "exited"
  /\ exit = 0
  /\ file
  /\ ~outputs
  /\ outputs' = TRUE
  /\ UNCHANGED <<request, phase, at, built, held, result, validated, report, file, exit,
                 executed, delegating>>

Next ==
  \/ Select \/ NextCase \/ SetupStep \/ Validate \/ TestEnds \/ Cleanup \/ Flag \/ Add
  \/ Finish \/ Interrupt \/ ActionOutputs

Spec == Init /\ [][Next]_vars

(* Every step of the run ends, the harness's start and stop included.      *)
FairSpec == Spec /\ WF_vars(Select \/ NextCase \/ SetupStep \/ TestEnds \/ Cleanup \/ Flag \/ Add \/ Finish)
                 /\ WF_vars(ActionOutputs)
-----------------------------------------------------------------------------
TypeOK ==
  /\ request \in Requests
  /\ phase \in {"select", "next", "setup", "test", "flag", "add", "exited"}
               \cup {Phases[i] : i \in 1..3}
  /\ at \in 0..Len(Selected(request)) /\ built \in 0..Len(Setup)
  /\ held \subseteq {"dir", "server", "harness"}
  /\ result.status \in Statuses \cup {"none"}
  /\ report.count \in [Statuses -> Nat]
  /\ {validated, file, outputs} \subseteq BOOLEAN
  /\ exit \in {-1, 0, 1, 2, 130}
  /\ executed \subseteq Names /\ delegating \subseteq Names

(* No test case leaves a directory, a server or a harness behind for the   *)
(* next one, whichever step of newTestEnv fails and however the test ends. *)
NothingLeftBehind ==
  phase \in {"next", "add"} \/ exit \in {0, 1, 2} => held = {}

(* A harness never runs without its server and its socket: neither is      *)
(* taken away from it before it has been stopped.                          *)
HarnessHasServer ==
  "harness" \in held /\ exit = -1 => {"server", "dir"} \subseteq held

(* A run that ends by itself has exactly one result for every selected     *)
(* test case, in order of registration, and its counters are the number of *)
(* results of each status.                                                 *)
ReportComplete ==
  exit \in {0, 2} =>
    /\ [i \in 1..Len(report.results) |-> report.results[i].name] = Selected(request)
    /\ \A s \in Statuses :
         report.count[s] = Cardinality({i \in 1..Len(report.results) :
                                          report.results[i].status = s})

(* A verdict about the SDK is flagged as delegated exactly if the SDK      *)
(* called ValidateJWTSVID in that very test, from the start of its harness *)
(* to the end of it; only an ERROR may have lost the flag.                 *)
DelegationFlagged ==
  \A i \in 1..Len(report.results) :
    report.results[i].status # "ERROR" =>
      (report.results[i].delegated <=> report.results[i].name \in delegating)

(* The exit status tells whether the run could be carried out: 0 only if   *)
(* every selected test case was executed, 2 only if one was not.           *)
ExitTellsExecution ==
  /\ exit = 0 => \A i \in 1..Len(Selected(request)) : Selected(request)[i] \in executed
  /\ exit = 2 => \E i \in 1..Len(Selected(request)) : Selected(request)[i] \notin executed
-----------------------------------------------------------------------------
(* A statement of a comment that the code does not keep.                   *)

(* "Test results are reported through the outputs below" (action.yml): the *)
(* outputs of the action are set once the run has written its results.     *)
OutputsReported == (exit \in {0, 2} /\ file) ~> outputs
=============================================================================
