------------------------ MODULE ReferenceHarnessProofs ------------------------
(***************************************************************************)
(* Proofs about ReferenceHarness, for any number of requests.              *)
(***************************************************************************)
EXTENDS ReferenceHarness, TLAPS

(* The inductive invariant.                                                *)

(* The token, the goroutine it starts and what that goroutine leaves.      *)
LazyInv ==
  /\ start <=> creator = "none"
  /\ created = IF start THEN 0 ELSE 1
  /\ ready <=> creator = "done"
  /\ creator \in {"none", "creating"} => source = "none"
  /\ creator \in {"assigned", "done"} => err \/ source \in {"open", "closed"}

(* Only a request for which the source was ready uses it.                  *)
UseInv ==
  \A r \in Requests : pc[r] = "use" /\ kind[r] = "validate" => ready /\ ~err

(* The sources are closed after every connection of the control port, and  *)
(* nothing has been heard of a request that has not been made.             *)
OrderInv ==
  /\ main \in {"starting", "serving"} => closed = 0
  /\ source = "closed" \/ x509 = "closed" => closed > 0
  /\ closed > 0 => \A r \in Requests : conn[r] = "open" => kind[r] = "probe"
  /\ \A r \in Requests : pc[r] = "idle" => heard[r].by = "nobody"
  /\ \A r \in Requests : answer[r].by = "shutdown" => closed > 0

HarnessInv == TypeOK /\ LazyInv /\ UseInv /\ OrderInv /\ ControlShutdownUnheard

LEMMA FiveSteps == Len(Shutdown) = 5
  BY DEF Shutdown

LEMMA ControlFirst == Shutdown[1] = "control"
  BY DEF Shutdown

LEMMA InitKeeps == Init => HarnessInv
<1> SUFFICES ASSUME Init PROVE HarnessInv
  OBVIOUS
<1>1. TypeOK
  <2>1. Nothing \in Answers
    BY DEF Nothing, Answers
  <2>2. "fetch" \in Kinds
    BY DEF Kinds, ControlKinds
  <2>3. 0 \in 0..Len(Shutdown)
    BY FiveSteps
  <2> QED BY <2>1, <2>2, <2>3 DEF Init, TypeOK
<1>2. LazyInv /\ UseInv /\ OrderInv /\ ControlShutdownUnheard
  BY DEF Init, LazyInv, UseInv, OrderInv, ControlShutdownUnheard, Nothing
<1> QED BY <1>1, <1>2 DEF HarnessInv
-----------------------------------------------------------------------------
(* main's steps but the closing, and those of the goroutine of Get.        *)
LEMMA MainKeeps ==
  ASSUME HarnessInv,
         Terminate \/ FirstSVID \/ StartFails \/ AfterTerm \/ Exit \/ CreateSource \/ CloseReady
  PROVE  HarnessInv'
<1>1. TypeOK'
  <2>1. CASE Terminate \/ FirstSVID \/ StartFails \/ AfterTerm \/ Exit
    BY ZenonT(30), <2>1 DEF HarnessInv, TypeOK, Terminate, FirstSVID, StartFails, AfterTerm, Exit, handlers, lazy
  <2>2. CASE CreateSource \/ CloseReady
    BY ZenonT(30), <2>2 DEF HarnessInv, TypeOK, CreateSource, CloseReady, handlers
  <2> QED BY <2>1, <2>2
<1>2. LazyInv'
  BY DEF HarnessInv, LazyInv, Terminate, FirstSVID, StartFails, AfterTerm, Exit, CreateSource,
     CloseReady, Assigned, handlers, lazy
<1>3. UseInv'
  BY DEF HarnessInv, LazyInv, UseInv, Terminate, FirstSVID, StartFails, AfterTerm, Exit,
     CreateSource, CloseReady, Assigned, handlers, lazy
<1>4. OrderInv' /\ ControlShutdownUnheard'
  BY DEF HarnessInv, LazyInv, OrderInv, ControlShutdownUnheard, Terminate, FirstSVID, StartFails,
     AfterTerm, Exit, CreateSource, CloseReady, Assigned, handlers, lazy
<1> QED BY <1>1, <1>2, <1>3, <1>4 DEF HarnessInv

(* The first step of the shutdown closes the connections.                  *)
LEMMA CloseKeeps ==
  ASSUME HarnessInv, CloseNext
  PROVE  HarnessInv'
<1>1. closed \in 0..5 /\ closed' = closed + 1 /\ closed < 5
  BY FiveSteps DEF HarnessInv, TypeOK, CloseNext
<1>2. \A r \in Requests :
        /\ conn'[r] \in {"none", "open", "closed"}
        /\ conn'[r] = "open" => kind[r] = "probe"
  <2>1. closed = 0 => Shutdown[closed + 1] = "control"
    <3> SUFFICES ASSUME closed = 0 PROVE Shutdown[closed + 1] = "control"
      OBVIOUS
    <3>1. closed + 1 = 1
      OBVIOUS
    <3> QED BY <3>1, ControlFirst
  <2>2. \A r \in Requests :
          /\ conn[r] \in {"none", "open", "closed"}
          /\ closed > 0 /\ conn[r] = "open" => kind[r] = "probe"
    BY DEF HarnessInv, TypeOK, OrderInv
  <2> QED BY <1>1, <2>1, <2>2 DEF CloseNext
<1>3. conn' \in [Requests -> {"none", "open", "closed"}]
  <2>1. \A r \in Requests : conn'[r] \in {"none", "open", "closed"}
    BY <1>2, Zenon
  <2> QED BY <2>1 DEF CloseNext
<1>4. source' \in {source, "closed"} /\ (source' # source => source = "open")
  BY DEF CloseNext
<1>5. TypeOK'
  <2>1. closed' \in 0..Len(Shutdown)
    BY <1>1, FiveSteps
  <2>2. source' \in {"none", "open", "closed"} /\ x509' \in {"none", "open", "closed"}
    BY <1>4 DEF HarnessInv, TypeOK, CloseNext
  <2> QED BY <1>3, <2>1, <2>2 DEF HarnessInv, TypeOK, CloseNext
<1>6. LazyInv' /\ UseInv'
  BY <1>4 DEF HarnessInv, LazyInv, UseInv, CloseNext
<1>7. OrderInv' /\ ControlShutdownUnheard'
  BY <1>1, <1>2 DEF HarnessInv, OrderInv, ControlShutdownUnheard, CloseNext
<1> QED BY <1>5, <1>6, <1>7 DEF HarnessInv
-----------------------------------------------------------------------------
(* The suite's side of a request.                                          *)
LEMMA SuiteKeeps ==
  ASSUME HarnessInv, NEW r \in Requests, (\E k \in Kinds : Ask(r, k)) \/ GiveUp(r) \/ Notice(r)
  PROVE  HarnessInv'
<1>1. TypeOK'
  <2>1. CASE \E k \in Kinds : Ask(r, k)
    BY <2>1 DEF HarnessInv, TypeOK, Ask, shared
  <2>2. CASE GiveUp(r) \/ Notice(r)
    <3>1. conn' \in [Requests -> {"none", "open", "closed"}]
      BY <2>2 DEF HarnessInv, TypeOK, GiveUp, Notice
    <3>2. cancelled' \in [Requests -> BOOLEAN]
      BY <2>2 DEF HarnessInv, TypeOK, GiveUp, Notice
    <3>3. UNCHANGED <<shared, pc, kind, answer, heard>>
      BY <2>2 DEF GiveUp, Notice
    <3> QED BY <3>1, <3>2, <3>3 DEF HarnessInv, TypeOK, shared
  <2> QED BY <2>1, <2>2
<1>2. LazyInv' /\ ControlShutdownUnheard'
  BY DEF HarnessInv, TypeOK, LazyInv, OrderInv, ControlShutdownUnheard, Ask, GiveUp, Notice, shared
<1>3. UseInv'
  BY DEF HarnessInv, TypeOK, UseInv, Ask, GiveUp, Notice, shared
<1>4. OrderInv'
  <2>1. CASE \E k \in Kinds : Ask(r, k)
    <3>1. PICK k \in Kinds : Ask(r, k)
      BY <2>1
    <3>2. closed = 0 \/ k = "probe"
      <4>1. 1 \in 1..closed \/ closed = 0
        <5>1. closed \in 0..5
          BY FiveSteps DEF HarnessInv, TypeOK
        <5> QED BY <5>1
      <4> QED BY <3>1, <4>1, ControlFirst DEF Ask, Port, Closed
    <3>3. closed \in 0..5
      BY FiveSteps DEF HarnessInv, TypeOK
    <3> QED BY <3>1, <3>2, <3>3 DEF HarnessInv, TypeOK, OrderInv, Ask, shared
  <2>2. CASE GiveUp(r) \/ Notice(r)
    BY <2>2 DEF HarnessInv, TypeOK, OrderInv, GiveUp, Notice, shared
  <2> QED BY <2>1, <2>2
<1> QED BY <1>1, <1>2, <1>3, <1>4 DEF HarnessInv

(* The handlers' steps.                                                    *)
LEMMA GetKeeps ==
  ASSUME HarnessInv, NEW r \in Requests, GetStart(r) \/ GetWait(r)
  PROVE  HarnessInv'
<1>1. TypeOK'
  <2>1. CASE GetStart(r)
    <3>1. pc' \in [Requests -> {"idle", "get", "wait", "use", "reply", "done"}]
      BY <2>1 DEF HarnessInv, TypeOK, GetStart
    <3>2. start' \in BOOLEAN
      BY <2>1, Zenon DEF HarnessInv, TypeOK, GetStart, TakeToken
    <3>3. creator' \in {"none", "creating", "assigned", "done"} /\ created' \in Nat
      BY <2>1 DEF HarnessInv, TypeOK, GetStart
    <3> QED BY <2>1, <3>1, <3>2, <3>3 DEF HarnessInv, TypeOK, GetStart
  <2>2. CASE GetWait(r)
    <3>1. [status |-> "error", by |-> "harness"] \in Answers
      BY DEF Answers
    <3> QED BY <2>2, <3>1 DEF HarnessInv, TypeOK, GetWait, Decide, shared
  <2> QED BY <2>1, <2>2
<1>2. LazyInv'
  BY DEF HarnessInv, TypeOK, LazyInv, GetStart, GetWait, TakeToken, shared
<1>3. UseInv'
  BY DEF HarnessInv, TypeOK, UseInv, GetStart, GetWait, Decide, shared
<1>4. OrderInv' /\ ControlShutdownUnheard'
  BY DEF HarnessInv, TypeOK, OrderInv, ControlShutdownUnheard, GetStart, GetWait, Decide, shared
<1> QED BY <1>1, <1>2, <1>3, <1>4 DEF HarnessInv

LEMMA UseKeeps ==
  ASSUME HarnessInv, NEW r \in Requests, Use(r) \/ Reply(r)
  PROVE  HarnessInv'
<1>1. CASE Use(r)
  <2>1. PICK s \in {"ok", "rejected", "error"}, who \in {"SDK", "network", "harness", "shutdown"} :
          Decide(r, s, who) /\ (who = "shutdown" => source = "closed" \/ x509 = "closed")
    BY <1>1 DEF Use, Validate, Fetch, Dial, Handshake
  <2>2. pc' = [pc EXCEPT ![r] = "reply"] /\ answer' = [answer EXCEPT ![r] = [status |-> s, by |-> who]]
        /\ UNCHANGED <<shared, kind, conn, cancelled, heard>>
    BY <1>1, <2>1 DEF Use, Decide
  <2>3. TypeOK'
    BY <2>2 DEF HarnessInv, TypeOK, Answers, shared
  <2>4. LazyInv' /\ UseInv' /\ ControlShutdownUnheard'
    BY <2>2 DEF HarnessInv, TypeOK, LazyInv, UseInv, ControlShutdownUnheard, shared
  <2>5. OrderInv'
    BY <2>1, <2>2 DEF HarnessInv, TypeOK, OrderInv, shared
  <2> QED BY <2>3, <2>4, <2>5 DEF HarnessInv
<1>2. CASE Reply(r)
  <2>1. TypeOK'
    BY <1>2 DEF HarnessInv, TypeOK, Reply, shared
  <2>2. LazyInv' /\ UseInv' /\ OrderInv'
    BY <1>2 DEF HarnessInv, TypeOK, LazyInv, UseInv, OrderInv, Reply, shared
  <2>3. conn[r] = "open" /\ answer[r].by = "shutdown" => kind[r] = "probe"
    BY DEF HarnessInv, OrderInv
  <2>4. ControlShutdownUnheard'
    BY <1>2, <2>3 DEF HarnessInv, TypeOK, ControlShutdownUnheard, Reply
  <2> QED BY <2>1, <2>2, <2>4 DEF HarnessInv
<1> QED BY <1>1, <1>2
-----------------------------------------------------------------------------
(* The harness keeps the inductive invariant: one token starts one         *)
(* goroutine, whose result is there before anything uses it, and the       *)
(* sources outlive the connections of the control port                     *)
(* (sdks/go-spiffe/main.go).                                               *)
THEOREM HarnessInvariant == Spec => []HarnessInv
<1>1. Init => HarnessInv
  BY InitKeeps
<1>2. HarnessInv /\ [Next]_vars => HarnessInv'
  <2> SUFFICES ASSUME HarnessInv, [Next]_vars PROVE HarnessInv'
    OBVIOUS
  <2>1. CASE Next
    BY <2>1, MainKeeps, CloseKeeps, SuiteKeeps, GetKeeps, UseKeeps DEF Next, HandlerStep
  <2>2. CASE UNCHANGED vars
    BY <2>2 DEF vars, shared, handlers, HarnessInv, TypeOK, LazyInv, UseInv, OrderInv, ControlShutdownUnheard
  <2> QED BY <2>1, <2>2
<1> QED BY <1>1, <1>2, PTL DEF Spec

(* Every variable of the harness keeps its type (sdks/go-spiffe/main.go).  *)
THEOREM TypeCorrect == Spec => []TypeOK
<1>1. HarnessInv => TypeOK
  BY DEF HarnessInv
<1> QED BY <1>1, HarnessInvariant, PTL

(* At most one JWTSource is created, and none is used before it is there   *)
(* (lazyJWTSource.Get).                                                    *)
THEOREM CreatedOnce == Spec => []OneSource
<1>1. HarnessInv => OneSource
  BY DEF HarnessInv, TypeOK, LazyInv, UseInv, OneSource
<1> QED BY <1>1, HarnessInvariant, PTL

(* No answer of the control port that comes of the shutdown reaches the    *)
(* suite (main).                                                           *)
THEOREM ShutdownIsSilent == Spec => []ControlShutdownUnheard
<1>1. HarnessInv => ControlShutdownUnheard
  BY DEF HarnessInv
<1> QED BY <1>1, HarnessInvariant, PTL
=============================================================================
