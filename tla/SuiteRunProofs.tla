--------------------------- MODULE SuiteRunProofs ---------------------------
(***************************************************************************)
(* Proofs about SuiteRun, for every registry and every request: what the   *)
(* selection contains, that every environment is taken down again, and     *)
(* that the report and the exit status tell what was executed.             *)
(***************************************************************************)
EXTENDS SuiteRun, FiniteSetTheorems, TLAPS

(* The phases of a test case, and those that follow its end.               *)
Ended  == {"stopHarness", "stopServer", "removeDir", "flag", "add"}
During == {"setup", "test"} \cup Ended

Results == [name : Names, status : Statuses, delegated : BOOLEAN]

ReportTypes ==
  /\ request \in Requests
  /\ report \in [results : Seq(Results), count : [Statuses -> Nat]]
  /\ executed \subseteq Names /\ delegating \subseteq Names
  /\ validated \in BOOLEAN /\ file \in BOOLEAN /\ outputs \in BOOLEAN

PhaseTypes ==
  /\ phase \in {"select", "next", "exited"} \cup During
  /\ exit \in {-1, 0, 1, 2, 130}
  /\ exit = -1 <=> phase # "exited"
  /\ built \in 0..8
  /\ result.status \in Statuses \cup {"none"}

(* What newTestEnv has left behind after n steps.                          *)
BuiltBy(n) ==
  (IF n >= 1 THEN {"dir"} ELSE {}) \cup (IF n >= 3 THEN {"server"} ELSE {})

(* What exists is given by the phase; only a signal leaves something.      *)
Holding ==
  /\ held \subseteq {"dir", "server", "harness"}
  /\ phase \in {"select", "next", "flag", "add"} => held = {}
  /\ phase = "setup" => built < 8 /\ held = BuiltBy(built)
  /\ phase = "test" => built = 8
  /\ phase \in {"test", "stopHarness"} => held = {"dir", "server", "harness"}
  /\ phase = "stopServer" => held = {"dir", "server"}
  /\ phase = "removeDir" => held = {"dir"}
  /\ exit \in {0, 1, 2} => held = {}

(* The report holds one result for each test case that is done.            *)
Reported ==
  /\ at \in 0..Len(Selected(request))
  /\ Len(report.results) = at
  /\ \A i \in 1..at : report.results[i].name = Selected(request)[i]
  /\ phase \in During => at < Len(Selected(request))
  /\ phase \in Ended => result \in Results /\ result.name = Current
  /\ exit \in {0, 2} => at = Len(Selected(request)) /\ exit = ExitStatus

With(s) == {i \in 1..Len(report.results) : report.results[i].status = s}

Counting == \A s \in Statuses : report.count[s] = Cardinality(With(s))

(* A result other than ERROR says that the test case was executed, and its *)
(* flag that ValidateJWTSVID was called.                                   *)
Telling ==
  \A i \in 1..at :
    /\ report.results[i].status # "ERROR" <=> Selected(request)[i] \in executed
    /\ report.results[i].status # "ERROR" =>
         (report.results[i].delegated <=> Selected(request)[i] \in delegating)

(* The same of the current test case, as far as it has come.               *)
CurrentTelling ==
  /\ phase \in {"setup", "test"} => Current \notin executed
  /\ phase \in Ended => (result.status # "ERROR" <=> Current \in executed)
  /\ phase \in During \ {"add"} => (validated <=> Current \in delegating)
  /\ phase \in Ended \ {"add"} /\ result.status # "ERROR" => built # 0
  /\ phase = "add" /\ result.status # "ERROR" =>
       (result.delegated <=> Current \in delegating)

(* Nothing is known of the test cases that have not begun.                 *)
Untouched ==
  \A j \in 1..Len(Selected(request)) :
    j > at + 1 \/ (j = at + 1 /\ phase \in {"select", "next"}) =>
      Selected(request)[j] \notin executed \cup delegating

SuiteInv ==
  /\ ReportTypes /\ PhaseTypes /\ Holding /\ Reported /\ Counting
  /\ Telling /\ CurrentTelling /\ Untouched
-----------------------------------------------------------------------------
(* The selection.  Ranks grow with the position in the registry, so the    *)
(* wanted positions and 1..n, which are as many, are in bijection.         *)
LEMMA WantedFinite ==
  ASSUME NEW q
  PROVE  /\ IsFiniteSet(Wanted(q)) /\ Cardinality(Wanted(q)) \in Nat
         /\ Wanted(q) \subseteq 1..Len(Registry) /\ Len(Registry) \in Nat
<1>1. Len(Registry) \in Nat
  BY RunAssumption
<1>2. IsFiniteSet(1..Len(Registry)) /\ Wanted(q) \in SUBSET (1..Len(Registry))
  BY <1>1, FS_Interval DEF Wanted
<1>3. IsFiniteSet(Wanted(q))
  BY <1>2, FS_Subset
<1> QED BY <1>1, <1>2, <1>3, FS_CardinalityType

LEMMA BeforeGrows ==
  ASSUME NEW q, NEW i \in Wanted(q), NEW j \in Wanted(q), i < j
  PROVE  Before(q, i) < Before(q, j)
<1> DEFINE A == {h \in Wanted(q) : h < i}
           B == {h \in Wanted(q) : h < j}
<1>1. i \in Int /\ j \in Int /\ \A h \in Wanted(q) : h \in Int
  BY WantedFinite
<1>2. A \subseteq B /\ i \in B /\ i \notin A
  <2>1. \A h \in A : h \in Wanted(q) /\ h < j
    BY <1>1
  <2>2. i \in B
    OBVIOUS
  <2>3. i \notin A
    BY <1>1
  <2> QED BY <2>1, <2>2, <2>3
<1>3. B \in SUBSET Wanted(q)
  OBVIOUS
<1>4. IsFiniteSet(B) /\ A \in SUBSET B
  BY <1>2, <1>3, WantedFinite, FS_Subset
<1>5. IsFiniteSet(A) /\ Cardinality(A) <= Cardinality(B) /\ Cardinality(A) # Cardinality(B)
  BY <1>2, <1>4, FS_Subset
<1>6. Cardinality(A) \in Nat /\ Cardinality(B) \in Nat
  BY <1>4, <1>5, FS_CardinalityType
<1>7. Cardinality(A) < Cardinality(B)
  BY <1>5, <1>6
<1> QED BY <1>7 DEF Before

LEMMA BeforeBounds ==
  ASSUME NEW q, NEW i \in Wanted(q)
  PROVE  Before(q, i) \in Nat /\ Before(q, i) + 1 \in 1..Cardinality(Wanted(q))
<1> DEFINE A == {h \in Wanted(q) : h < i}
<1>1. i \in Int /\ i \notin A /\ A \in SUBSET Wanted(q)
  BY WantedFinite
<1>2. IsFiniteSet(A) /\ Cardinality(A) <= Cardinality(Wanted(q))
      /\ Cardinality(A) # Cardinality(Wanted(q))
  BY <1>1, WantedFinite, FS_Subset
<1>3. Cardinality(A) \in Nat
  BY <1>2, FS_CardinalityType
<1>4. Cardinality(A) + 1 \in 1..Cardinality(Wanted(q))
  BY <1>2, <1>3, WantedFinite
<1> QED BY <1>3, <1>4 DEF Before

LEMMA RankExists ==
  ASSUME NEW q, NEW k \in 1..Cardinality(Wanted(q))
  PROVE  \E i \in Wanted(q) : Before(q, i) + 1 = k
<1> DEFINE n == Cardinality(Wanted(q))
           rank == [i \in Wanted(q) |-> Before(q, i) + 1]
<1>1. rank \in [Wanted(q) -> 1..n]
  BY BeforeBounds
<1>2. \A i, j \in Wanted(q) : i # j => rank[i] # rank[j]
  <2> SUFFICES ASSUME NEW i \in Wanted(q), NEW j \in Wanted(q), i # j
               PROVE  rank[i] # rank[j]
    OBVIOUS
  <2>1. i \in Int /\ j \in Int
    BY WantedFinite
  <2>2. Before(q, i) < Before(q, j) \/ Before(q, j) < Before(q, i)
    BY <2>1, BeforeGrows
  <2>3. Before(q, i) \in Nat /\ Before(q, j) \in Nat
    BY BeforeBounds
  <2> QED BY <2>2, <2>3
<1>3. rank \in Injection(Wanted(q), 1..n)
  BY <1>1, <1>2 DEF Injection, IsInjective
<1>4. IsFiniteSet(1..n) /\ Cardinality(1..n) = n
  BY WantedFinite, FS_Interval
<1>5. rank \in Surjection(Wanted(q), 1..n)
  BY <1>3, <1>4, FS_Injection
<1> QED BY <1>5 DEF Surjection

(* The position of the k-th selected test case.                            *)
Position(q, k) == CHOOSE i \in Wanted(q) : Before(q, i) + 1 = k

LEMMA PositionRight ==
  ASSUME NEW q, NEW k \in 1..Cardinality(Wanted(q))
  PROVE  /\ Position(q, k) \in Wanted(q) /\ Before(q, Position(q, k)) + 1 = k
         /\ Selected(q)[k] = Registry[Position(q, k)]
  BY RankExists DEF Position, Selected

(* The selection contains no test case twice and has them in the order of  *)
(* the registry: position grows with rank.                                 *)
LEMMA PositionGrows ==
  ASSUME NEW q, NEW k \in 1..Cardinality(Wanted(q)), NEW l \in 1..Cardinality(Wanted(q)), k < l
  PROVE  Position(q, k) < Position(q, l)
<1> DEFINE i == Position(q, k)
           j == Position(q, l)
<1>1. i \in Wanted(q) /\ j \in Wanted(q) /\ Before(q, i) + 1 = k /\ Before(q, j) + 1 = l
  BY PositionRight
<1>2. i \in Int /\ j \in Int
  BY <1>1, WantedFinite
<1>3. Before(q, i) \in Nat /\ Before(q, j) \in Nat
  BY <1>1, BeforeBounds
<1>4. i # j
  BY <1>1
<1>5. ~(j < i)
  <2> SUFFICES ASSUME j < i PROVE FALSE
    OBVIOUS
  <2>1. Before(q, j) < Before(q, i)
    BY <1>1, BeforeGrows
  <2> QED BY <1>1, <1>3, <2>1
<1> HIDE DEF i, j
<1>6. i < j
  BY <1>2, <1>4, <1>5
<1> QED BY <1>6 DEF i, j

LEMMA SelectedSeq ==
  ASSUME NEW q
  PROVE  /\ Selected(q) \in Seq(Names)
         /\ Len(Selected(q)) = Cardinality(Wanted(q)) /\ Len(Selected(q)) \in Nat
         /\ \A k \in 1..Len(Selected(q)) : Selected(q)[k] \in Names
<1> DEFINE n == Cardinality(Wanted(q))
<1>1. n \in Nat
  BY WantedFinite
<1>2. \A k \in 1..n : Selected(q)[k] \in Names
  BY PositionRight, WantedFinite DEF Names
<1>3. Selected(q) = [k \in 1..n |-> Selected(q)[k]]
  BY DEF Selected
<1> HIDE DEF n
<1>4. Selected(q) \in Seq(Names) /\ Len(Selected(q)) = n
  BY <1>1, <1>2, <1>3
<1> QED BY <1>1, <1>2, <1>4 DEF n

(* No test case is run twice (selectCases deletes it from what it wants).  *)
LEMMA SelectedDistinct ==
  ASSUME NEW q, NEW k \in 1..Len(Selected(q)), NEW l \in 1..Len(Selected(q)), k # l
  PROVE  Selected(q)[k] # Selected(q)[l]
<1>1. k \in 1..Cardinality(Wanted(q)) /\ l \in 1..Cardinality(Wanted(q)) /\ k \in Int /\ l \in Int
  BY SelectedSeq
<1>2. Position(q, k) \in Wanted(q) /\ Position(q, l) \in Wanted(q)
      /\ Selected(q)[k] = Registry[Position(q, k)] /\ Selected(q)[l] = Registry[Position(q, l)]
  BY <1>1, PositionRight
<1>3. Position(q, k) \in 1..Len(Registry) /\ Position(q, l) \in 1..Len(Registry)
  BY <1>2, WantedFinite
<1>4. Position(q, k) # Position(q, l)
  <2>1. CASE k < l
    BY <1>1, <1>3, <2>1, PositionGrows
  <2>2. CASE l < k
    BY <1>1, <1>3, <2>2, PositionGrows
  <2> QED BY <1>1, <2>1, <2>2
<1> QED BY <1>2, <1>3, <1>4, RunAssumption

(* The selection (selectCases): exactly the requested test cases, or all   *)
(* of them, in the order of the registry, which is the order of the run    *)
(* and of the report.                                                      *)
THEOREM SelectionRight ==
  ASSUME NEW q \in SUBSET Names
  PROVE  /\ {Selected(q)[k] : k \in 1..Len(Selected(q))} = IF q = {} THEN Names ELSE q
         /\ \A k, l \in 1..Len(Selected(q)) : \A i, j \in 1..Len(Registry) :
              k < l /\ Registry[i] = Selected(q)[k] /\ Registry[j] = Selected(q)[l] => i < j
<1>1. Len(Selected(q)) = Cardinality(Wanted(q))
  BY SelectedSeq
<1>2. ASSUME NEW k \in 1..Len(Selected(q))
      PROVE  Selected(q)[k] \in IF q = {} THEN Names ELSE q
  <2>1. Position(q, k) \in Wanted(q) /\ Selected(q)[k] = Registry[Position(q, k)]
    BY <1>1, PositionRight
  <2> QED BY <2>1, SelectedSeq DEF Wanted
<1>3. ASSUME NEW name \in IF q = {} THEN Names ELSE q
      PROVE  \E k \in 1..Len(Selected(q)) : Selected(q)[k] = name
  <2>1. name \in Names
    OBVIOUS
  <2>2. PICK i \in 1..Len(Registry) : Registry[i] = name
    BY <2>1 DEF Names
  <2>3. i \in Wanted(q)
    BY <2>2 DEF Wanted
  <2> DEFINE k == Before(q, i) + 1
  <2>4. k \in 1..Cardinality(Wanted(q))
    BY <2>3, BeforeBounds
  <2>5. Position(q, k) \in Wanted(q) /\ Before(q, Position(q, k)) = Before(q, i)
    <3>1. Position(q, k) \in Wanted(q) /\ Before(q, Position(q, k)) + 1 = k
      BY <2>4, PositionRight
    <3>2. Before(q, Position(q, k)) \in Nat /\ Before(q, i) \in Nat
      BY <2>3, <3>1, BeforeBounds
    <3> QED BY <3>1, <3>2
  <2>6. Position(q, k) = i
    <3>1. Position(q, k) \in Int /\ i \in Int /\ Before(q, i) \in Nat
      BY <2>3, <2>5, WantedFinite, BeforeBounds
    <3>2. ~(Position(q, k) < i) /\ ~(i < Position(q, k))
      BY <2>3, <2>5, <3>1, BeforeGrows
    <3> QED BY <3>1, <3>2
  <2>7. Selected(q)[k] = name
    BY <2>2, <2>4, <2>6, PositionRight
  <2> QED BY <1>1, <2>4, <2>7
<1>4. ASSUME NEW k \in 1..Len(Selected(q)), NEW l \in 1..Len(Selected(q)),
             NEW i \in 1..Len(Registry), NEW j \in 1..Len(Registry),
             k < l, Registry[i] = Selected(q)[k], Registry[j] = Selected(q)[l]
      PROVE  i < j
  <2>1. /\ Position(q, k) \in Wanted(q) /\ Position(q, l) \in Wanted(q)
        /\ Registry[i] = Registry[Position(q, k)] /\ Registry[j] = Registry[Position(q, l)]
    BY <1>1, <1>4, PositionRight
  <2>2. i = Position(q, k) /\ j = Position(q, l)
    BY <2>1, WantedFinite, RunAssumption
  <2> QED BY <1>1, <1>4, <2>2, PositionGrows
<1> QED BY <1>2, <1>3, <1>4
-----------------------------------------------------------------------------
(* The names of Setup, step by step, and what a step leaves behind.        *)
LEMMA SetupSteps ==
  /\ Len(Setup) = 8
  /\ Setup[1] = "dir" /\ Setup[2] = "ca" /\ Setup[3] = "listen" /\ Setup[4] = "x509"
  /\ Setup[5] = "jwt" /\ Setup[6] = "jwks" /\ Setup[7] = "probe" /\ Setup[8] = "harness"
  BY DEF Setup

LEMMA StepBuilds ==
  ASSUME NEW n \in 0..7
  PROVE  /\ n < 7 => BuiltBy(n) \cup Acquired(Setup[n + 1]) = BuiltBy(n + 1)
         /\ n = 7 => BuiltBy(n) \cup Acquired(Setup[n + 1]) = {"dir", "server", "harness"}
         /\ BuiltBy(n) \ Released(Setup[n + 1]) = {}
<1>1. CASE n = 0
  BY <1>1, SetupSteps DEF BuiltBy, Acquired, Released
<1>2. CASE n = 1
  BY <1>2, SetupSteps DEF BuiltBy, Acquired, Released
<1>3. CASE n = 2
  BY <1>3, SetupSteps DEF BuiltBy, Acquired, Released
<1>4. CASE n = 3
  BY <1>4, SetupSteps DEF BuiltBy, Acquired, Released
<1>5. CASE n = 4
  BY <1>5, SetupSteps DEF BuiltBy, Acquired, Released
<1>6. CASE n = 5
  BY <1>6, SetupSteps DEF BuiltBy, Acquired, Released
<1>7. CASE n = 6
  BY <1>7, SetupSteps DEF BuiltBy, Acquired, Released
<1>8. CASE n = 7
  BY <1>8, SetupSteps DEF BuiltBy, Acquired, Released
<1> QED BY <1>1, <1>2, <1>3, <1>4, <1>5, <1>6, <1>7, <1>8

LEMMA StatusTypes ==
  ASSUME NEW end \in Ends
  PROVE  /\ StatusOf(end) \in Statuses
         /\ StatusOf(end) # "ERROR" <=> end \notin {"ExecutionError", "panic"}
  BY DEF Ends, StatusOf, Statuses

(* The current test case is one of the names, and none of the earlier or   *)
(* later ones.                                                             *)
LEMMA CurrentOne ==
  ASSUME SuiteInv, phase \in During
  PROVE  /\ at \in Nat /\ at + 1 \in 1..Len(Selected(request)) /\ Current \in Names
         /\ Len(Selected(request)) \in Nat
         /\ \A j \in 1..Len(Selected(request)) : j # at + 1 => Selected(request)[j] # Current
<1>1. Len(Selected(request)) \in Nat /\ at \in 0..Len(Selected(request))
      /\ at < Len(Selected(request))
  BY SelectedSeq DEF SuiteInv, Reported
<1>2. at + 1 \in 1..Len(Selected(request))
  BY <1>1
<1> QED BY <1>1, <1>2, SelectedSeq, SelectedDistinct DEF Current

-----------------------------------------------------------------------------
LEMMA InitKeeps == Init => SuiteInv
<1> SUFFICES ASSUME Init PROVE SuiteInv
  OBVIOUS
<1>1. Len(Selected(request)) \in Nat
  BY SelectedSeq
<1>2. report.results = <<>> /\ report.count = [s \in Statuses |-> 0] /\ Len(report.results) = 0
      /\ at = 0 /\ phase = "select" /\ exit = -1 /\ executed = {} /\ delegating = {}
  BY DEF Init, EmptyReport
<1>3. ReportTypes
  <2>1. <<>> \in Seq(Results) /\ [s \in Statuses |-> 0] \in [Statuses -> Nat]
    OBVIOUS
  <2>2. report = [results |-> <<>>, count |-> [s \in Statuses |-> 0]]
    BY DEF Init, EmptyReport
  <2> HIDE DEF Results, Statuses
  <2>3. report \in [results : Seq(Results), count : [Statuses -> Nat]]
    BY <2>1, <2>2
  <2> QED BY <2>3 DEF Init, ReportTypes
<1>4. PhaseTypes /\ Holding
  BY DEF Init, PhaseTypes, Holding, NoResult
<1>5. Reported
  BY <1>1, <1>2 DEF Reported, During, Ended
<1>6. Counting
  <2>1. \A s : With(s) = {}
    BY <1>2 DEF With
  <2> QED BY <1>2, <2>1, FS_EmptySet DEF Counting
<1>7. Telling /\ CurrentTelling /\ Untouched
  BY <1>2 DEF Telling, CurrentTelling, Untouched, During, Ended
<1> QED BY <1>3, <1>4, <1>5, <1>6, <1>7 DEF SuiteInv

LEMMA SelectKeeps ==
  ASSUME SuiteInv, Select
  PROVE  SuiteInv'
<1>1. /\ UNCHANGED <<request, at, built, held, result, validated, report, file, outputs,
                     executed, delegating>>
      /\ phase = "select"
      /\ (phase' = "next" /\ exit' = exit) \/ (phase' = "exited" /\ exit' = 1)
  BY DEF Select, Exit
<1>2. ReportTypes' /\ Counting'
  BY <1>1 DEF SuiteInv, ReportTypes, Counting, With
<1>3. PhaseTypes' /\ Holding'
  BY <1>1 DEF SuiteInv, PhaseTypes, Holding
<1>4. phase' \notin During /\ exit' \notin {0, 2}
  BY <1>1 DEF SuiteInv, PhaseTypes, During, Ended
<1>5. Reported' /\ Telling' /\ CurrentTelling' /\ Untouched'
  BY <1>1, <1>4 DEF SuiteInv, Reported, Telling, CurrentTelling, Untouched, During
<1> QED BY <1>2, <1>3, <1>5 DEF SuiteInv

LEMMA NextCaseKeeps ==
  ASSUME SuiteInv, NextCase
  PROVE  SuiteInv'
<1>1. /\ UNCHANGED <<request, at, held, report, file, exit, outputs, executed, delegating>>
      /\ phase = "next" /\ phase' = "setup" /\ built' = 0 /\ result' = NoResult
      /\ validated' = FALSE /\ at < Len(Selected(request))
  BY DEF NextCase, FreshRecord
<1>2. ReportTypes' /\ Counting'
  BY <1>1 DEF SuiteInv, ReportTypes, Counting, With
<1>3. PhaseTypes' /\ Holding'
  BY <1>1 DEF SuiteInv, PhaseTypes, Holding, During, NoResult, BuiltBy
<1>4. Reported' /\ Telling'
  BY <1>1 DEF SuiteInv, Reported, Telling, During, Ended, Current
<1>5. at + 1 \in 1..Len(Selected(request)) /\ Current' = Selected(request)[at + 1]
  BY <1>1, SelectedSeq DEF SuiteInv, Reported, Current
<1>6. Current' \notin executed \cup delegating
  BY <1>1, <1>5 DEF SuiteInv, Untouched
<1>7. CurrentTelling'
  BY <1>1, <1>6 DEF CurrentTelling, During, Ended
<1>8. Untouched'
  BY <1>1 DEF SuiteInv, Untouched
<1> QED BY <1>2, <1>3, <1>4, <1>7, <1>8 DEF SuiteInv

(* A step of newTestEnv that succeeds.                                     *)
LEMMA StepTakenKeeps ==
  ASSUME SuiteInv, SetupStep, result' = result, built' = built + 1,
         held' = held \cup Acquired(Setup[built + 1]),
         phase' = IF built + 1 = Len(Setup) THEN "test" ELSE "setup"
  PROVE  SuiteInv'
<1>1. /\ UNCHANGED <<request, at, validated, report, file, exit, outputs, executed, delegating>>
      /\ phase = "setup"
  BY DEF SetupStep
<1>2. built \in 0..7 /\ held = BuiltBy(built) /\ exit = -1
  BY <1>1 DEF SuiteInv, PhaseTypes, Holding
<1>3. ReportTypes' /\ Counting'
  BY <1>1 DEF SuiteInv, ReportTypes, Counting, With
<1>4. PhaseTypes'
  BY <1>1, <1>2, SetupSteps DEF SuiteInv, PhaseTypes, During
<1>5. CASE built = 7
  <2>1. phase' = "test" /\ built' = 8 /\ held' = {"dir", "server", "harness"}
    BY <1>2, <1>5, SetupSteps, StepBuilds
  <2> QED BY <1>1, <1>2, <1>3, <1>4, <2>1
          DEF SuiteInv, Holding, Reported, Telling, CurrentTelling, Untouched, During, Ended, Current
<1>6. CASE built < 7
  <2>1. /\ phase' = "setup" /\ built' < 8 /\ held' = BuiltBy(built')
        /\ held' \subseteq {"dir", "server", "harness"}
    BY <1>2, <1>6, SetupSteps, StepBuilds DEF BuiltBy
  <2> QED BY <1>1, <1>2, <1>3, <1>4, <2>1
          DEF SuiteInv, Holding, Reported, Telling, CurrentTelling, Untouched, During, Ended, Current
<1> QED BY <1>2, <1>5, <1>6

(* A step that fails: everything is given back.                            *)
LEMMA StepFailedKeeps ==
  ASSUME SuiteInv, SetupStep, result' = Result("ERROR", FALSE), phase' = "add", built' = built,
         held' = held \ Released(Setup[built + 1])
  PROVE  SuiteInv'
<1>1. /\ UNCHANGED <<request, at, validated, report, file, exit, outputs, executed, delegating>>
      /\ phase = "setup" /\ phase \in During
  BY DEF SetupStep, During
<1>2. built \in 0..7 /\ held = BuiltBy(built) /\ exit = -1
  BY <1>1 DEF SuiteInv, PhaseTypes, Holding
<1>3. held' = {}
  BY <1>2, StepBuilds
<1>4. result'.status = "ERROR" /\ result'.name = Current /\ result' \in Results
      /\ Current' = Current /\ result'.status \in Statuses
  BY <1>1, CurrentOne DEF Result, Results, Statuses, Current
<1>5. ReportTypes' /\ Counting'
  BY <1>1 DEF SuiteInv, ReportTypes, Counting, With
<1>6. PhaseTypes' /\ Holding'
  BY <1>1, <1>2, <1>3, <1>4 DEF SuiteInv, PhaseTypes, Holding, During, Ended
<1>7. Reported'
  <2>1. exit' \notin {0, 2}
    BY <1>1, <1>2
  <2>2. result' \in Results /\ result'.name = Current'
    BY <1>4
  <2>3. /\ at' \in 0..Len(Selected(request')) /\ at' < Len(Selected(request'))
        /\ Len(report'.results) = at'
        /\ \A i \in 1..at' : report'.results[i].name = Selected(request')[i]
    BY <1>1 DEF SuiteInv, Reported
  <2> QED BY <2>1, <2>2, <2>3 DEF Reported
<1>8. Telling' /\ CurrentTelling' /\ Untouched'
  BY <1>1, <1>4 DEF SuiteInv, Telling, CurrentTelling, Untouched, During, Ended
<1> QED BY <1>5, <1>6, <1>7, <1>8 DEF SuiteInv

LEMMA SetupStepKeeps ==
  ASSUME SuiteInv, SetupStep
  PROVE  SuiteInv'
<1>1. \/ /\ held' = held \cup Acquired(Setup[built + 1]) /\ built' = built + 1
         /\ phase' = IF built + 1 = Len(Setup) THEN "test" ELSE "setup"
         /\ result' = result
      \/ /\ held' = held \ Released(Setup[built + 1])
         /\ result' = Result("ERROR", FALSE) /\ phase' = "add" /\ built' = built
  BY DEF SetupStep
<1> QED BY <1>1, StepTakenKeeps, StepFailedKeeps

LEMMA ValidateKeeps ==
  ASSUME SuiteInv, Validate
  PROVE  SuiteInv'
<1>1. /\ UNCHANGED <<request, phase, at, built, held, result, report, file, exit, outputs, executed>>
      /\ phase \in {"setup", "test", "stopHarness"} /\ phase \in During
      /\ validated' = TRUE /\ delegating' = delegating \cup {Current}
  BY DEF Validate, During, Ended
<1>2. Current' = Current
  BY <1>1 DEF Current
<1>3. ReportTypes' /\ Counting'
  BY <1>1, CurrentOne DEF SuiteInv, ReportTypes, Counting, With
<1>4. PhaseTypes' /\ Holding' /\ Reported'
  BY <1>1, <1>2 DEF SuiteInv, PhaseTypes, Holding, Reported, ExitStatus
<1>5. Telling'
  <2>1. \A i \in 1..at : i \in 1..Len(Selected(request)) /\ i # at + 1
    BY <1>1, CurrentOne
  <2>2. \A i \in 1..at : Selected(request)[i] # Current
    BY <1>1, <2>1, CurrentOne
  <2> QED BY <1>1, <2>2 DEF SuiteInv, Telling
<1>6. CurrentTelling'
  BY <1>1, <1>2 DEF SuiteInv, CurrentTelling, During, Ended
<1>7. Untouched'
  <2>1. \A j \in 1..Len(Selected(request)) : j > at + 1 => Selected(request)[j] # Current
    BY <1>1, CurrentOne
  <2> QED BY <1>1, <2>1 DEF SuiteInv, Untouched
<1> QED BY <1>3, <1>4, <1>5, <1>6, <1>7 DEF SuiteInv

LEMMA TestEndsKeeps ==
  ASSUME SuiteInv, TestEnds
  PROVE  SuiteInv'
<1>1. /\ UNCHANGED <<request, at, held, validated, report, file, exit, outputs, delegating>>
      /\ phase = "test" /\ phase \in During /\ phase' = "stopHarness"
  BY DEF TestEnds, During
<1>2. PICK end \in Ends :
        /\ result' = Result(StatusOf(end), FALSE)
        /\ built' = IF end = "panic" THEN 0 ELSE built
        /\ executed' = IF end \in {"ExecutionError", "panic"} THEN executed ELSE executed \cup {Current}
  BY DEF TestEnds
<1>3. Current' = Current /\ Current \in Names
  BY <1>1, CurrentOne DEF Current
<1>4. /\ result' \in Results /\ result'.name = Current /\ result'.status \in Statuses
      /\ result'.status # "ERROR" <=> end \notin {"ExecutionError", "panic"}
  <2>1. result' = [name |-> Current, status |-> StatusOf(end), delegated |-> FALSE]
    BY <1>2 DEF Result
  <2>2. StatusOf(end) \in Statuses
    BY StatusTypes
  <2> HIDE DEF Statuses
  <2>3. result' \in Results
    BY <1>3, <2>1, <2>2 DEF Results
  <2> QED BY <2>1, <2>2, <2>3, StatusTypes
<1>5. built = 8 /\ exit = -1 /\ held = {"dir", "server", "harness"} /\ Current \notin executed
  BY <1>1 DEF SuiteInv, PhaseTypes, Holding, CurrentTelling
<1>6. ReportTypes' /\ Counting'
  <2>1. executed' \subseteq Names
    BY <1>2, <1>3 DEF SuiteInv, ReportTypes
  <2> QED BY <1>1, <2>1 DEF SuiteInv, ReportTypes, Counting, With
<1>7. PhaseTypes' /\ Holding'
  <2>1. built' \in {0, 8}
    BY <1>2, <1>5
  <2> QED BY <1>1, <1>4, <1>5, <2>1 DEF SuiteInv, PhaseTypes, Holding, During, Ended
<1>8. Reported'
  <2>1. exit' \notin {0, 2} /\ result' \in Results /\ result'.name = Current'
    BY <1>1, <1>3, <1>4, <1>5
  <2>2. /\ at' \in 0..Len(Selected(request')) /\ at' < Len(Selected(request'))
        /\ Len(report'.results) = at'
        /\ \A i \in 1..at' : report'.results[i].name = Selected(request')[i]
    BY <1>1 DEF SuiteInv, Reported
  <2> QED BY <2>1, <2>2 DEF Reported
<1>9. executed' \ {Current} = executed /\ executed \subseteq executed'
  BY <1>2, <1>5
<1>10. Telling'
  <2>1. \A i \in 1..at : i \in 1..Len(Selected(request)) /\ i # at + 1
    BY <1>1, CurrentOne
  <2>2. \A i \in 1..at : Selected(request)[i] \in executed' <=> Selected(request)[i] \in executed
    BY <1>1, <1>9, <2>1, CurrentOne
  <2> QED BY <1>1, <2>2 DEF SuiteInv, Telling
<1>11. CurrentTelling'
  <2>1. Current \in executed' <=> end \notin {"ExecutionError", "panic"}
    BY <1>2, <1>5
  <2>2. result'.status # "ERROR" => built' # 0
    <3> SUFFICES ASSUME result'.status # "ERROR" PROVE built' # 0
      OBVIOUS
    <3>1. end # "panic"
      BY <1>4
    <3>2. built' = built
      BY <1>2, <3>1
    <3> QED BY <1>5, <3>2
  <2>3. validated <=> Current \in delegating
    BY <1>1 DEF SuiteInv, CurrentTelling, During
  <2> QED BY <1>1, <1>3, <1>4, <2>1, <2>2, <2>3 DEF CurrentTelling, During, Ended
<1>12. Untouched'
  <2>1. \A j \in 1..Len(Selected(request)) : j > at + 1 => Selected(request)[j] # Current
    BY <1>1, CurrentOne
  <2> QED BY <1>1, <1>9, <2>1 DEF SuiteInv, Untouched
<1> QED BY <1>6, <1>7, <1>8, <1>10, <1>11, <1>12 DEF SuiteInv

(* A step that leaves the report, the end of the case and what is known of *)
(* the SDK as they are only moves the case towards its end.                *)
LEMMA EndingKeeps ==
  ASSUME SuiteInv, phase \in Ended \ {"add"}, phase' \in Ended \ {"add"},
         UNCHANGED <<request, at, built, result, validated, report, file, exit, outputs,
                     executed, delegating>>
  PROVE  /\ ReportTypes' /\ PhaseTypes' /\ Reported' /\ Counting'
         /\ Telling' /\ CurrentTelling' /\ Untouched'
<1>1. phase \in During /\ phase' \in During /\ Current' = Current
  BY DEF During, Current
<1>2. exit = -1 /\ exit' = exit
  BY <1>1 DEF SuiteInv, PhaseTypes, During, Ended
<1>3. ReportTypes' /\ PhaseTypes' /\ Counting' /\ Telling'
  BY <1>1, <1>2 DEF SuiteInv, ReportTypes, PhaseTypes, Counting, With, Telling, During, Ended
<1>4. Reported'
  BY <1>1, <1>2 DEF SuiteInv, Reported
<1>5. CurrentTelling' /\ Untouched'
  BY <1>1 DEF SuiteInv, CurrentTelling, Untouched, During, Ended
<1> QED BY <1>3, <1>4, <1>5

(* fullCleanup: the harness, then its server, then the directory.          *)
LEMMA CleanupKeeps ==
  ASSUME SuiteInv, Cleanup
  PROVE  SuiteInv'
<1>1. /\ UNCHANGED <<request, at, built, result, validated, report, file, exit, outputs,
                     executed, delegating>>
      /\ \/ phase = "stopHarness" /\ held' = held \ {"harness"} /\ phase' = "stopServer"
         \/ phase = "stopServer" /\ held' = held \ {"server"} /\ phase' = "removeDir"
         \/ phase = "removeDir" /\ held' = held \ {"dir"} /\ phase' = "flag"
  BY DEF Cleanup, Phases, Teardown
<1>2. phase \in Ended \ {"add"} /\ phase' \in Ended \ {"add"}
  BY <1>1 DEF Ended
<1>3. exit = -1 /\ exit' = exit
  BY <1>1, <1>2 DEF SuiteInv, PhaseTypes, Ended
<1>4. Holding'
  BY <1>1, <1>3 DEF SuiteInv, Holding
<1> QED BY <1>1, <1>2, <1>4, EndingKeeps DEF SuiteInv

LEMMA FlagKeeps ==
  ASSUME SuiteInv, Flag
  PROVE  SuiteInv'
<1>1. /\ UNCHANGED <<request, at, built, held, validated, report, file, exit, outputs,
                     executed, delegating>>
      /\ phase = "flag" /\ phase' = "add" /\ phase \in Ended /\ phase \in During
      /\ result' = [result EXCEPT !.delegated = built # 0 /\ validated]
  BY DEF Flag, Ended, During
<1>2. result \in Results /\ result.name = Current /\ Current' = Current /\ exit = -1
  BY <1>1 DEF SuiteInv, PhaseTypes, Reported, Current
<1>3. /\ result' \in Results /\ result'.name = Current /\ result'.status = result.status
      /\ result'.delegated <=> built # 0 /\ validated
  <2>1. validated \in BOOLEAN
    BY DEF SuiteInv, ReportTypes
  <2> HIDE DEF Statuses
  <2>2. /\ result \in [name : Names, status : Statuses, delegated : BOOLEAN]
        /\ result' = [result EXCEPT !.delegated = built # 0 /\ validated]
        /\ (built # 0 /\ validated) \in BOOLEAN
    BY <1>1, <1>2, <2>1 DEF Results
  <2>3. result' \in Results
    BY <2>2 DEF Results
  <2> QED BY <1>2, <2>2, <2>3
<1>4. ReportTypes' /\ Counting' /\ Telling' /\ Untouched'
  BY <1>1 DEF SuiteInv, ReportTypes, Counting, With, Telling, Untouched
<1>5. PhaseTypes' /\ Holding'
  BY <1>1, <1>2, <1>3 DEF SuiteInv, PhaseTypes, Holding, During, Ended, Results
<1>6. Reported'
  <2>1. exit' \notin {0, 2} /\ result' \in Results /\ result'.name = Current'
    BY <1>1, <1>2, <1>3
  <2>2. /\ at' \in 0..Len(Selected(request')) /\ at' < Len(Selected(request'))
        /\ Len(report'.results) = at'
        /\ \A i \in 1..at' : report'.results[i].name = Selected(request')[i]
    BY <1>1 DEF SuiteInv, Reported
  <2> QED BY <2>1, <2>2 DEF Reported
<1>7. CurrentTelling'
  <2>1. /\ result.status # "ERROR" <=> Current \in executed
        /\ validated <=> Current \in delegating
        /\ result.status # "ERROR" => built # 0
    BY <1>1 DEF SuiteInv, CurrentTelling, During, Ended
  <2> QED BY <1>1, <1>2, <1>3, <2>1 DEF CurrentTelling, During, Ended
<1> QED BY <1>4, <1>5, <1>6, <1>7 DEF SuiteInv

(* Report.Add: one more result, and the counter of its status goes up.     *)
LEMMA AddKeeps ==
  ASSUME SuiteInv, Add
  PROVE  SuiteInv'
<1>1. /\ UNCHANGED <<request, built, held, result, validated, file, exit, outputs,
                     executed, delegating>>
      /\ phase = "add" /\ phase' = "next" /\ phase \in Ended /\ phase \in During /\ at' = at + 1
      /\ report' = [results |-> Append(report.results, result),
                    count |-> [report.count EXCEPT ![result.status] = @ + 1]]
  BY DEF Add, Counted, Ended, During
<1>2. /\ result \in Results /\ result.name = Current /\ result.status \in Statuses
      /\ exit = -1 /\ held = {}
  BY <1>1 DEF SuiteInv, PhaseTypes, Holding, Reported, Results
<1>3. /\ report.results \in Seq(Results) /\ Len(report.results) = at /\ at \in Nat
      /\ report.count \in [Statuses -> Nat]
  BY SelectedSeq DEF SuiteInv, ReportTypes, Reported
<1>4. /\ report'.results \in Seq(Results) /\ Len(report'.results) = at + 1
      /\ report'.results[at + 1] = result
      /\ \A i \in 1..at : report'.results[i] = report.results[i]
  BY <1>1, <1>2, <1>3
<1>5. ReportTypes'
  <2> HIDE DEF Statuses, Results
  <2>1. [report.count EXCEPT ![result.status] = @ + 1] \in [Statuses -> Nat]
    BY <1>2, <1>3
  <2>2. report' \in [results : Seq(Results), count : [Statuses -> Nat]]
    BY <1>1, <1>2, <1>3, <2>1
  <2> QED BY <1>1, <2>2 DEF SuiteInv, ReportTypes
<1>6. PhaseTypes' /\ Holding'
  BY <1>1, <1>2 DEF SuiteInv, PhaseTypes, Holding
<1>7. at + 1 \in 1..Len(Selected(request)) /\ Selected(request)[at + 1] = Current
  BY <1>1, CurrentOne DEF Current
<1>8. Reported'
  <2>1. at' \in 0..Len(Selected(request'))
    BY <1>1, <1>3, <1>7, SelectedSeq
  <2>2. \A i \in 1..at' : report'.results[i].name = Selected(request')[i]
    <3>1. \A i \in 1..at : report.results[i].name = Selected(request)[i]
      BY DEF SuiteInv, Reported
    <3>2. \A i \in 1..(at + 1) : i \in 1..at \/ i = at + 1
      BY <1>3
    <3> QED BY <1>1, <1>2, <1>4, <1>7, <3>1, <3>2
  <2>3. phase' \notin During /\ exit' \notin {0, 2}
    BY <1>1, <1>2 DEF During, Ended
  <2> QED BY <1>1, <1>4, <2>1, <2>2, <2>3 DEF Reported, During
<1>9. Counting'
  <2> SUFFICES ASSUME NEW s \in Statuses PROVE report'.count[s] = Cardinality(With(s)')
    BY DEF Counting
  <2>1. IsFiniteSet(With(s)) /\ at + 1 \notin With(s)
    <3>1. With(s) \in SUBSET (1..at) /\ IsFiniteSet(1..at)
      BY <1>3, FS_Interval DEF With
    <3> QED BY <1>3, <3>1, FS_Subset
  <2>2. With(s)' = IF result.status = s THEN With(s) \cup {at + 1} ELSE With(s)
    BY <1>3, <1>4 DEF With
  <2>3. report.count[s] = Cardinality(With(s)) /\ report.count[s] \in Nat
    BY <1>3 DEF SuiteInv, Counting
  <2>4. CASE result.status = s
    <3>1. Cardinality(With(s) \cup {at + 1}) = Cardinality(With(s)) + 1
      BY <2>1, FS_AddElement
    <3>2. report'.count[s] = report.count[s] + 1
      BY <1>1, <1>3, <2>4
    <3> QED BY <2>2, <2>3, <2>4, <3>1, <3>2
  <2>5. CASE result.status # s
    BY <1>1, <1>3, <2>2, <2>3, <2>5
  <2> QED BY <2>4, <2>5
<1>10. Telling'
  <2>1. /\ result.status # "ERROR" <=> Current \in executed
        /\ result.status # "ERROR" => (result.delegated <=> Current \in delegating)
    BY <1>1 DEF SuiteInv, CurrentTelling
  <2>2. \A i \in 1..(at + 1) : i \in 1..at \/ i = at + 1
    BY <1>3
  <2> QED BY <1>1, <1>4, <1>7, <2>1, <2>2 DEF SuiteInv, Telling
<1>11. CurrentTelling' /\ Untouched'
  <2>1. phase' \notin During
    BY <1>1 DEF During, Ended
  <2> QED BY <1>1, <1>3, <2>1, SelectedSeq DEF SuiteInv, CurrentTelling, Untouched, During
<1> QED BY <1>5, <1>6, <1>8, <1>9, <1>10, <1>11 DEF SuiteInv

(* The end of the run, by itself or by a signal: only the exit status, the *)
(* results file and what a signal kills change.                            *)
LEMMA ExitingKeeps ==
  ASSUME SuiteInv, phase' = "exited", exit' \in {0, 1, 2, 130}, file' \in BOOLEAN,
         UNCHANGED <<request, at, built, result, validated, report, outputs,
                     executed, delegating>>
  PROVE  /\ ReportTypes' /\ PhaseTypes' /\ Counting' /\ Telling'
         /\ CurrentTelling' /\ Untouched'
<1>1. phase' \notin During
  BY DEF During, Ended
<1>2. ReportTypes' /\ Counting' /\ Telling'
  BY DEF SuiteInv, ReportTypes, Counting, With, Telling
<1>3. PhaseTypes'
  BY DEF SuiteInv, PhaseTypes
<1>4. CurrentTelling' /\ Untouched'
  BY <1>1 DEF SuiteInv, CurrentTelling, Untouched, During
<1> QED BY <1>2, <1>3, <1>4

LEMMA FinishKeeps ==
  ASSUME SuiteInv, Finish
  PROVE  SuiteInv'
<1>1. /\ UNCHANGED <<request, at, built, held, result, validated, report, outputs,
                     executed, delegating>>
      /\ phase = "next" /\ phase' = "exited" /\ at = Len(Selected(request))
      /\ (file' = TRUE /\ exit' = ExitStatus) \/ (file' = file /\ exit' = 1)
  BY DEF Finish, Exit
<1>2. ExitStatus \in {0, 2} /\ ExitStatus' = ExitStatus
  BY <1>1 DEF ExitStatus
<1>3. exit' \in {0, 1, 2, 130} /\ file' \in BOOLEAN
  BY <1>1, <1>2 DEF SuiteInv, ReportTypes
<1>4. Holding'
  BY <1>1 DEF SuiteInv, Holding
<1>5. Reported'
  <2>1. phase' \notin During
    BY <1>1 DEF During, Ended
  <2>2. exit' \in {0, 2} => exit' = ExitStatus'
    BY <1>1, <1>2
  <2> QED BY <1>1, <2>1, <2>2 DEF SuiteInv, Reported, During
<1> QED BY <1>1, <1>3, <1>4, <1>5, ExitingKeeps DEF SuiteInv

LEMMA InterruptKeeps ==
  ASSUME SuiteInv, Interrupt
  PROVE  SuiteInv'
<1>1. /\ UNCHANGED <<request, at, built, result, validated, report, file, outputs,
                     executed, delegating>>
      /\ held' = held \ {"server"} /\ phase' = "exited" /\ exit' = 130
  BY DEF Interrupt, Exit
<1>2. Holding'
  BY <1>1 DEF SuiteInv, Holding
<1>3. Reported'
  <2>1. phase' \notin During
    BY <1>1 DEF During, Ended
  <2> QED BY <1>1, <2>1 DEF SuiteInv, Reported, During
<1>4. file' \in BOOLEAN
  BY <1>1 DEF SuiteInv, ReportTypes
<1> QED BY <1>1, <1>2, <1>3, <1>4, ExitingKeeps DEF SuiteInv

LEMMA OthersKeep ==
  ASSUME SuiteInv, ActionOutputs \/ UNCHANGED vars
  PROVE  SuiteInv'
<1>1. /\ UNCHANGED <<request, phase, at, built, held, result, validated, report, file, exit,
                     executed, delegating>>
      /\ outputs' = TRUE \/ outputs' = outputs
  BY DEF ActionOutputs, vars
<1>2. Current' = Current /\ ExitStatus' = ExitStatus
  BY <1>1 DEF Current, ExitStatus
<1>3. ReportTypes' /\ PhaseTypes' /\ Counting' /\ Telling'
  <2>1. outputs' \in BOOLEAN
    BY <1>1 DEF SuiteInv, ReportTypes
  <2>2. ReportTypes'
    BY <1>1, <2>1 DEF SuiteInv, ReportTypes
  <2>3. PhaseTypes' /\ Counting' /\ Telling'
    BY <1>1 DEF SuiteInv, PhaseTypes, Counting, With, Telling
  <2> QED BY <2>2, <2>3
<1>4. Holding' /\ Reported'
  BY <1>1, <1>2 DEF SuiteInv, Holding, Reported
<1>5. CurrentTelling' /\ Untouched'
  BY <1>1, <1>2 DEF SuiteInv, CurrentTelling, Untouched
<1> QED BY <1>3, <1>4, <1>5 DEF SuiteInv
-----------------------------------------------------------------------------
(* The inductive invariant of a run: the phase says what exists, and the   *)
(* report tells of each test case that is done whether it was executed and *)
(* whether ValidateJWTSVID was called (runSuite, runCase, newTestEnv).     *)
THEOREM SuiteInvariant == Spec => []SuiteInv
<1>1. SuiteInv /\ [Next]_vars => SuiteInv'
  <2> SUFFICES ASSUME SuiteInv, [Next]_vars PROVE SuiteInv'
    OBVIOUS
  <2>1. CASE Select
    BY <2>1, SelectKeeps
  <2>2. CASE NextCase
    BY <2>2, NextCaseKeeps
  <2>3. CASE SetupStep
    BY <2>3, SetupStepKeeps
  <2>4. CASE Validate
    BY <2>4, ValidateKeeps
  <2>5. CASE TestEnds
    BY <2>5, TestEndsKeeps
  <2>6. CASE Cleanup
    BY <2>6, CleanupKeeps
  <2>7. CASE Flag
    BY <2>7, FlagKeeps
  <2>8. CASE Add
    BY <2>8, AddKeeps
  <2>9. CASE Finish
    BY <2>9, FinishKeeps
  <2>10. CASE Interrupt
    BY <2>10, InterruptKeeps
  <2>11. CASE ActionOutputs \/ UNCHANGED vars
    BY <2>11, OthersKeep
  <2> QED BY <2>1, <2>2, <2>3, <2>4, <2>5, <2>6, <2>7, <2>8, <2>9, <2>10, <2>11 DEF Next
<1> QED BY <1>1, InitKeeps, PTL DEF Spec

(* The types of the run's state (the structures of runSuite and Report).   *)
THEOREM SuiteTypes == Spec => []TypeOK
<1>1. SuiteInv => TypeOK
  <2> SUFFICES ASSUME SuiteInv PROVE TypeOK
    OBVIOUS
  <2>1. {Phases[i] : i \in 1..3} = {"stopHarness", "stopServer", "removeDir"}
    BY DEF Phases
  <2>2. phase \in {"select", "next", "setup", "test", "flag", "add", "exited"}
                  \cup {Phases[i] : i \in 1..3}
    BY <2>1 DEF SuiteInv, PhaseTypes, During, Ended
  <2>3. at \in 0..Len(Selected(request)) /\ built \in 0..Len(Setup)
        /\ held \subseteq {"dir", "server", "harness"}
    BY SetupSteps DEF SuiteInv, PhaseTypes, Holding, Reported
  <2>4. report.count \in [Statuses -> Nat]
    BY DEF SuiteInv, ReportTypes
  <2> QED BY <2>2, <2>3, <2>4 DEF SuiteInv, TypeOK, ReportTypes, PhaseTypes
<1> QED BY <1>1, SuiteInvariant, PTL

(* No test case leaves a directory, a server or a harness behind, whatever *)
(* step of newTestEnv fails and however the test ends.                     *)
THEOREM EnvironmentTakenDown == Spec => []NothingLeftBehind
<1>1. SuiteInv => NothingLeftBehind
  BY DEF SuiteInv, Holding, NothingLeftBehind
<1> QED BY <1>1, SuiteInvariant, PTL

(* While the suite runs, a harness has its server and its socket: it is    *)
(* started after them and stopped before them (newTestEnv, fullCleanup).   *)
THEOREM HarnessNeverAlone == Spec => []HarnessHasServer
<1>1. SuiteInv => HarnessHasServer
  <2> SUFFICES ASSUME SuiteInv, "harness" \in held, exit = -1
               PROVE  {"server", "dir"} \subseteq held
    BY DEF HarnessHasServer
  <2>1. phase \in {"select", "next", "setup", "test"} \cup Ended
    BY DEF SuiteInv, PhaseTypes, During
  <2>2. "harness" \notin BuiltBy(built)
    BY DEF BuiltBy
  <2> QED BY <2>1, <2>2 DEF SuiteInv, Holding, Ended
<1> QED BY <1>1, SuiteInvariant, PTL

(* A run that ends by itself reports each selected test case once, in      *)
(* order, and its counters are those of its results (runSuite, Add).       *)
THEOREM ReportAlwaysComplete == Spec => []ReportComplete
<1>1. SuiteInv => ReportComplete
  <2> SUFFICES ASSUME SuiteInv, exit \in {0, 2} PROVE ReportComplete
    BY DEF ReportComplete
  <2>1. /\ Len(report.results) = Len(Selected(request))
        /\ \A i \in 1..Len(Selected(request)) : report.results[i].name = Selected(request)[i]
    BY DEF SuiteInv, Reported
  <2>2. Selected(request) = [i \in 1..Len(Selected(request)) |-> Selected(request)[i]]
    BY SelectedSeq
  <2>3. [i \in 1..Len(report.results) |-> report.results[i].name] = Selected(request)
    BY <2>1, <2>2
  <2>4. \A s \in Statuses :
          report.count[s] = Cardinality({i \in 1..Len(report.results) :
                                           report.results[i].status = s})
    BY DEF SuiteInv, Counting, With
  <2> QED BY <2>3, <2>4 DEF ReportComplete
<1> QED BY <1>1, SuiteInvariant, PTL

(* A result other than ERROR is flagged exactly if ValidateJWTSVID was     *)
(* called in that test case (runOne, and the server's record of calls).    *)
THEOREM DelegationAlwaysFlagged == Spec => []DelegationFlagged
<1>1. SuiteInv => DelegationFlagged
  BY DEF SuiteInv, Reported, Telling, DelegationFlagged
<1> QED BY <1>1, SuiteInvariant, PTL

(* The exit status is 0 only if all was executed, and 2 only if something  *)
(* was not (ExitCodeNotExecuted).                                          *)
THEOREM ExitAlwaysTells == Spec => []ExitTellsExecution
<1>1. SuiteInv => ExitTellsExecution
  <2> SUFFICES ASSUME SuiteInv, exit \in {0, 2} PROVE ExitTellsExecution
    BY DEF ExitTellsExecution
  <2>1. /\ at = Len(Selected(request)) /\ Len(report.results) = at /\ at \in Nat
        /\ exit = IF report.count["ERROR"] > 0 THEN 2 ELSE 0
    BY SelectedSeq DEF SuiteInv, Reported, ExitStatus
  <2>2. \A i \in 1..at : report.results[i].status # "ERROR" <=> Selected(request)[i] \in executed
    BY DEF SuiteInv, Telling
  <2>3. IsFiniteSet(With("ERROR"))
    <3>1. With("ERROR") \in SUBSET (1..at) /\ IsFiniteSet(1..at)
      BY <2>1, FS_Interval DEF With
    <3> QED BY <3>1, FS_Subset
  <2>4. /\ report.count["ERROR"] = Cardinality(With("ERROR"))
        /\ Cardinality(With("ERROR")) \in Nat
    BY <2>3, FS_CardinalityType DEF SuiteInv, Counting, Statuses
  <2>5. exit = 0 <=> With("ERROR") = {}
    BY <2>1, <2>3, <2>4, FS_EmptySet
  <2>6. With("ERROR") = {} <=> \A i \in 1..at : Selected(request)[i] \in executed
    BY <2>1, <2>2 DEF With
  <2> QED BY <2>1, <2>5, <2>6 DEF ExitTellsExecution
<1> QED BY <1>1, SuiteInvariant, PTL
=============================================================================
