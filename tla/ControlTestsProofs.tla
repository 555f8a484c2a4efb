------------------------- MODULE ControlTestsProofs -------------------------
(***************************************************************************)
(* Proofs about ControlTests, for every set of tests and of harnesses:     *)
(* what a verdict on a v1 harness rests on, type correctness, and that a   *)
(* calm run has the verdict that the catalogue demands.                    *)
(***************************************************************************)
EXTENDS ControlTests, TLAPS

Kinds == {"serve", "accept", "reject", "poll", "fetch", "dial"}

(* The scripts have steps of the known kinds, and only JF-1 and XV-1/client*)
(* fetch or dial.                                                          *)
LEMMA ScriptSteps ==
  ASSUME NEW t \in AllTests
  PROVE  /\ Len(Script(t)) \in Nat /\ 0 < Len(Script(t))
         /\ \A i \in 1..Len(Script(t)) :
              /\ Script(t)[i].do \in Kinds
              /\ t \notin {"JF-1", "XV-1/client"} => Script(t)[i].do \notin {"fetch", "dial"}
<1>0. /\ ServeBundle.do = "serve" /\ AcceptControl.do = "accept" /\ RejectInvalid.do = "reject"
      /\ ServeRotated.do = "serve" /\ PollNewKey.do = "poll" /\ RejectOldKey.do = "reject"
  BY DEF ServeBundle, AcceptControl, RejectInvalid, ServeRotated, PollNewKey, RejectOldKey, Step
<1>1. CASE t = "J1"
  <2>1. Script(t) = <<ServeBundle, AcceptControl>>
    BY <1>1 DEF Script, NegativeTests
  <2>2. Len(Script(t)) \in Nat /\ 0 < Len(Script(t))
    BY <2>1
  <2>3. \A i \in 1..Len(Script(t)) : Script(t)[i].do \in {"serve", "accept", "reject", "poll"}
    BY <1>0, <2>1
  <2> QED BY <2>2, <2>3 DEF Kinds
<1>2. CASE t \in NegativeTests
  <2>1. Script(t) = <<ServeBundle, AcceptControl, RejectInvalid>>
    BY <1>2 DEF Script, NegativeTests
  <2>2. Len(Script(t)) \in Nat /\ 0 < Len(Script(t))
    BY <2>1
  <2>3. \A i \in 1..Len(Script(t)) : Script(t)[i].do \in {"serve", "accept", "reject", "poll"}
    BY <1>0, <2>1
  <2> QED BY <2>2, <2>3 DEF Kinds
<1>3. CASE t = "J9"
  <2>1. Script(t) = <<ServeBundle, AcceptControl, RejectInvalid, RejectInvalid>>
    BY <1>3 DEF Script, NegativeTests
  <2>2. Len(Script(t)) \in Nat /\ 0 < Len(Script(t))
    BY <2>1
  <2>3. \A i \in 1..Len(Script(t)) : Script(t)[i].do \in {"serve", "accept", "reject", "poll"}
    BY <1>0, <2>1
  <2> QED BY <2>2, <2>3 DEF Kinds
<1>4. CASE t = "J13"
  <2>1. Script(t) = <<ServeBundle, AcceptControl, ServeRotated, PollNewKey, RejectOldKey>>
    BY <1>4 DEF Script, NegativeTests
  <2>2. Len(Script(t)) \in Nat /\ 0 < Len(Script(t))
    BY <2>1
  <2>3. \A i \in 1..Len(Script(t)) : Script(t)[i].do \in {"serve", "accept", "reject", "poll"}
    BY <1>0, <2>1
  <2> QED BY <2>2, <2>3 DEF Kinds
<1>5. CASE t = "JF-1"
  BY <1>0, <1>5 DEF Script, NegativeTests, Step, Kinds
<1>6. CASE t = "XV-1/client"
  BY <1>6 DEF Script, NegativeTests, Step, Kinds
<1> QED BY <1>1, <1>2, <1>3, <1>4, <1>5, <1>6 DEF AllTests
-----------------------------------------------------------------------------
(* The inductive invariant.                                                *)

Position == test \in AllTests /\ at \in Nat /\ at < Len(Script(test))

(* A call is under way only while the test waits for it.                   *)
InFlight == call.phase # "none" => pc \in {"calling", "waiting"} /\ Now.do # "serve"

(* What an answer of a v1 port is worth: it says ok or rejected only if    *)
(* the SDK has decided so, and shows another ID only if the SDK did.       *)
AnswerIsTheSDKs ==
  harness.version = 1 /\ call.phase = "answered" =>
    LET o == PostOutcome(call.answer)
    IN  /\ o \in {"ok", "rejected", "error", "unsupported", "failure"}
        /\ o \in {"ok", "rejected"} /\ Now.do # "fetch" =>
             /\ <<at + 1, o>> \in decided
             /\ call.answer.id # "right" => harness.judges = "wrongId"

(* J13 waits before the next call only after a rejection.                  *)
PauseAfterRejection ==
  harness.version = 1 /\ pc = "pause" => Now.do = "poll" /\ <<at + 1, "rejected">> \in decided

StepsEarned == harness.version = 1 => \A i \in 1..at : Earned(i)

VerdictInv ==
  /\ Position
  /\ InFlight
  /\ AnswerIsTheSDKs
  /\ PauseAfterRejection
  /\ StepsEarned
  /\ PassEarned
  /\ FailIsTheSDKs

-----------------------------------------------------------------------------
(* The test stands at a step of its script.                                *)
LEMMA ThisStep ==
  ASSUME Position
  PROVE  Len(Script(test)) \in Nat /\ at + 1 \in 1..Len(Script(test)) /\ Now.do \in Kinds
<1>1. Len(Script(test)) \in Nat
  BY ScriptSteps DEF Position
<1>2. at + 1 \in 1..Len(Script(test))
  BY <1>1 DEF Position
<1>3. Now.do \in Kinds
  BY <1>2, ScriptSteps DEF Position, Now
<1> QED BY <1>1, <1>2, <1>3

(* The SDK's decisions stay on record, and with them what they earn.       *)
LEMMA RecordGrows ==
  ASSUME decided \subseteq decided', UNCHANGED given
  PROVE  \A i : (Earned(i) => Earned(i)') /\ (Wrong(i) => Wrong(i)')
  BY DEF Earned, Wrong, given

(* A step that leaves the test where it is and its verdict as it was, or   *)
(* gives a verdict for which nothing is claimed, keeps what is proved      *)
(* about steps and verdicts.                                               *)
LEMMA VerdictKept ==
  ASSUME Position, StepsEarned, PassEarned, FailIsTheSDKs,
         decided \subseteq decided', UNCHANGED <<given, at>>,
         verdict' = verdict \/ verdict' \in {"SKIP", "ERROR"}
  PROVE  Position' /\ StepsEarned' /\ PassEarned' /\ FailIsTheSDKs'
<1>1. \A i : (Earned(i) => Earned(i)') /\ (Wrong(i) => Wrong(i)')
  BY RecordGrows
<1>2. Position'
  BY DEF Position, given
<1>3. StepsEarned'
  BY <1>1 DEF StepsEarned, given
<1>4. PassEarned'
  BY <1>1 DEF PassEarned, given
<1>5. FailIsTheSDKs'
  BY <1>1 DEF FailIsTheSDKs, given
<1> QED BY <1>2, <1>3, <1>4, <1>5

(* Going on to the next step, or passing, when the current step is earned. *)
LEMMA ProceedKeeps ==
  ASSUME Position, StepsEarned, PassEarned, FailIsTheSDKs,
         UNCHANGED <<given, decided>>, Proceed,
         harness.version = 1 => Earned(at + 1)
  PROVE  /\ Position' /\ StepsEarned' /\ PassEarned' /\ FailIsTheSDKs'
         /\ pc' \in {"step", "done"}
<1>1. \A i : (Earned(i) => Earned(i)') /\ (Wrong(i) => Wrong(i)')
  BY RecordGrows
<1>2. Len(Script(test)) \in Nat
  BY ScriptSteps DEF Position
<1>3. CASE at + 1 = Len(Script(test))
  <2>1. verdict' = "PASS" /\ pc' = "done" /\ at' = at
    BY <1>3 DEF Proceed, Conclude
  <2>2. Position' /\ StepsEarned' /\ FailIsTheSDKs'
    BY <1>1, <2>1 DEF Position, StepsEarned, FailIsTheSDKs, given
  <2>3. harness.version = 1 => \A i \in 1..Len(Script(test)) : Earned(i)
    BY <1>2, <1>3 DEF StepsEarned, Position
  <2>4. PassEarned'
    BY <1>1, <2>3 DEF PassEarned, given
  <2> QED BY <2>1, <2>2, <2>4
<1>4. CASE at + 1 # Len(Script(test))
  <2>1. at' = at + 1 /\ pc' = "step" /\ verdict' = verdict
    BY <1>4 DEF Proceed
  <2>2. Position'
    BY <1>2, <1>4, <2>1 DEF Position, given
  <2>3. StepsEarned'
    BY <1>1, <2>1 DEF StepsEarned, Position, given
  <2>4. PassEarned' /\ FailIsTheSDKs'
    BY <1>1, <2>1 DEF PassEarned, FailIsTheSDKs, given
  <2> QED BY <2>1, <2>2, <2>3, <2>4
<1> QED BY <1>3, <1>4

(* A test fails after a wrong decision, or a wrong ID.                     *)
LEMMA FailKeeps ==
  ASSUME Position, StepsEarned, PassEarned,
         UNCHANGED <<given, decided>>, Conclude("FAIL"),
         harness.version = 1 /\ test \notin {"JF-1", "XV-1/client"} =>
           harness.judges = "wrongId" \/ Wrong(at + 1)
  PROVE  Position' /\ StepsEarned' /\ PassEarned' /\ FailIsTheSDKs'
<1>1. \A i : (Earned(i) => Earned(i)') /\ (Wrong(i) => Wrong(i)')
  BY RecordGrows
<1>2. verdict' = "FAIL" /\ at' = at
  BY DEF Conclude
<1>3. Position' /\ StepsEarned' /\ PassEarned'
  BY <1>1, <1>2 DEF Position, StepsEarned, PassEarned, given
<1>4. FailIsTheSDKs'
  BY <1>1, ThisStep DEF FailIsTheSDKs, given
<1> QED BY <1>3, <1>4
-----------------------------------------------------------------------------
(* Steps that do not touch the call, the decisions or the test.            *)
LEMMA QuietKeeps ==
  ASSUME VerdictInv, UNCHANGED <<given, call, at, pc, verdict, decided>>
  PROVE  VerdictInv'
<1>1. Position' /\ StepsEarned' /\ PassEarned' /\ FailIsTheSDKs'
  BY VerdictKept DEF VerdictInv
<1>2. Now' = Now
  BY DEF Now, given
<1>3. InFlight' /\ PauseAfterRejection'
  BY <1>2 DEF VerdictInv, InFlight, PauseAfterRejection, given
<1>4. PostOutcome(call.answer)' = PostOutcome(call.answer)
  BY DEF PostOutcome, StatusFor
<1>5. AnswerIsTheSDKs'
  BY <1>2, <1>4 DEF VerdictInv, AnswerIsTheSDKs, given
<1> QED BY <1>1, <1>3, <1>5 DEF VerdictInv

(* What a v1 port that works makes of a decision.                          *)
LEMMA AnswerOutcome ==
  ASSUME harness.version = 1, NEW d \in {"ok", "rejected"}
  PROVE  /\ PostOutcome(Answer(d)) \in {d, "failure"}
         /\ Answer(d).id # "right" => harness.judges = "wrongId"
<1>1. Answer(d).json /\ Answer(d).status = d
  BY DEF Answer
<1>2. Answer(d).id # "right" => harness.judges = "wrongId"
  BY DEF Answer
<1> QED BY <1>1, <1>2 DEF PostOutcome

(* An SDK decides ok or rejected on a token.                               *)
LEMMA JudgementType ==
  ASSUME Asked({"accept", "reject", "poll"}), \E h \in Harnesses : harness = h
  PROVE  Judgement \in {"ok", "rejected"}
  BY TestsAssumption DEF TestsAssumption, HarnessOK, Judgement

(* The harness answers a call: it is the SDK's decision, or none.          *)
LEMMA DecideKeeps ==
  ASSUME VerdictInv, NEW d \in {"ok", "rejected"}, Decide(d), call.phase = "sent",
         UNCHANGED <<given, at, pc, verdict>>
  PROVE  VerdictInv'
<1>1. decided \subseteq decided' /\ <<at + 1, d>> \in decided'
  BY DEF Decide
<1>2. Position' /\ StepsEarned' /\ PassEarned' /\ FailIsTheSDKs'
  BY <1>1, VerdictKept DEF VerdictInv
<1>3. call' = [phase |-> "answered", answer |-> Answer(d)] /\ Now' = Now
  BY DEF Decide, Reply, Now, given
<1>4. InFlight' /\ PauseAfterRejection'
  BY <1>1, <1>3 DEF VerdictInv, InFlight, PauseAfterRejection, given
<1>5. AnswerIsTheSDKs'
  <2> SUFFICES ASSUME harness.version = 1
               PROVE  AnswerIsTheSDKs'
    BY DEF AnswerIsTheSDKs, given
  <2>1. call'.answer = Answer(d)
    BY <1>3
  <2>2. PostOutcome(call.answer)' = PostOutcome(Answer(d))
    BY <2>1 DEF PostOutcome, StatusFor
  <2>3. /\ PostOutcome(call.answer)' \in {d, "failure"}
        /\ call'.answer.id # "right" => harness'.judges = "wrongId"
    BY <2>1, <2>2, AnswerOutcome DEF given
  <2> QED BY <1>1, <1>3, <2>3 DEF AnswerIsTheSDKs, given
<1> QED BY <1>2, <1>4, <1>5 DEF VerdictInv

LEMMA AnswerKeeps ==
  ASSUME VerdictInv, harness \in Harnesses, Validate \/ Fetch \/ DialAnswer \/ Decline
  PROVE  VerdictInv'
<1>1. CASE Validate
  BY <1>1, DecideKeeps, JudgementType DEF Validate, Asked, suite
<1>2. CASE DialAnswer
  <2>1. PICK d \in {"ok", "rejected"} : Decide(d)
    BY <1>2 DEF DialAnswer, Dialed
  <2> QED BY <1>2, <2>1, DecideKeeps DEF DialAnswer, Asked, suite
<1>3. CASE Fetch \/ Decline
  <2>1. UNCHANGED <<given, at, pc, verdict, decided>> /\ call.phase = "sent"
    BY <1>3 DEF Fetch, Decline, Asked, suite
  <2>2. Position' /\ StepsEarned' /\ PassEarned' /\ FailIsTheSDKs' /\ Now' = Now
    BY <2>1, VerdictKept DEF VerdictInv, Now, given
  <2>3. InFlight' /\ PauseAfterRejection'
    BY <1>3, <2>1, <2>2 DEF VerdictInv, InFlight, PauseAfterRejection, given
  <2>4. AnswerIsTheSDKs'
    <3>1. CASE Fetch
      <4>1. Now'.do = "fetch"
        BY <2>2, <3>1 DEF Fetch, Asked
      <4>2. harness.version = 1 => call'.answer.json /\ call'.answer.status = "ok"
        <5> DEFINE a == Answer("ok")
        <5>1. harness.version = 1 => a.json /\ a.status = "ok"
          BY DEF Answer
        <5>2. DOMAIN a = {"http", "json", "status", "id"}
          BY DEF Answer
        <5>3. PICK i : call'.answer = [a EXCEPT !.id = i]
          BY <3>1 DEF Fetch, Reply
        <5> HIDE DEF a
        <5> QED BY <5>1, <5>2, <5>3
      <4>3. harness.version = 1 => PostOutcome(call.answer)' \in {"ok", "failure"}
        BY <4>2 DEF PostOutcome
      <4> QED BY <2>1, <4>1, <4>3 DEF AnswerIsTheSDKs, given
    <3>2. CASE Decline
      <4>1. harness.port \in {"noJson", "noRoute", "unsupported", "flaky"}
        BY <3>2, TestsAssumption DEF TestsAssumption, HarnessOK, Decline
      <4>2. call'.answer.json => call'.answer.status \in {"unsupported", "error"}
        BY <3>2, <4>1 DEF Decline, Reply, NoAnswer
      <4>3. PostOutcome(call.answer)' \in {"unsupported", "error", "failure"}
        BY <4>2 DEF PostOutcome
      <4> QED BY <4>3 DEF AnswerIsTheSDKs
    <3> QED BY <1>3, <3>1, <3>2
  <2> QED BY <2>2, <2>3, <2>4 DEF VerdictInv
<1> QED BY <1>1, <1>2, <1>3
-----------------------------------------------------------------------------
(* The test's own steps.                                                   *)

(* What follows from an answer of a v1 port: a step that passes is earned, *)
(* one that fails in a JWT test has met a wrong decision or a wrong ID.    *)
LEMMA AnswerJudged ==
  ASSUME VerdictInv, harness.version = 1, call.phase = "answered",
         NEW o, o = PostOutcome(call.answer)
  PROVE  /\ Passes(o, call.answer) => Earned(at + 1)
         /\ o # "unsupported" /\ ~Fails(o) /\ ~Passes(o, call.answer)
              /\ test \notin {"JF-1", "XV-1/client"} =>
                harness.judges = "wrongId" \/ Wrong(at + 1)
         /\ o # "unsupported" /\ ~Fails(o) /\ ~Passes(o, call.answer) /\ Now.do = "poll" =>
                <<at + 1, "rejected">> \in decided
<1>1. Now = Script(test)[at + 1] /\ Now.do \in Kinds \ {"serve"} /\ at + 1 \in 1..Len(Script(test))
  BY ThisStep DEF VerdictInv, InFlight, Now
<1>2. test \notin {"JF-1", "XV-1/client"} => Now.do \notin {"fetch", "dial"}
  BY <1>1, ScriptSteps DEF VerdictInv, Position
<1>3. o \in {"ok", "rejected", "error", "unsupported", "failure"}
  BY DEF VerdictInv, AnswerIsTheSDKs
<1>4. o \in {"ok", "rejected"} /\ Now.do # "fetch" =>
        <<at + 1, o>> \in decided /\ (call.answer.id # "right" => harness.judges = "wrongId")
  BY DEF VerdictInv, AnswerIsTheSDKs
<1>5. CASE Now.do = "accept"
  BY <1>1, <1>3, <1>4, <1>5 DEF Passes, Fails, Earned, Wrong
<1>6. CASE Now.do = "reject"
  BY <1>1, <1>3, <1>4, <1>6 DEF Passes, Fails, Earned, Wrong
<1>7. CASE Now.do = "poll"
  BY <1>1, <1>3, <1>4, <1>7 DEF Passes, Fails, Earned, Wrong
<1>8. CASE Now.do = "fetch"
  BY <1>1, <1>2, <1>8 DEF Earned
<1>9. CASE Now.do = "dial"
  BY <1>1, <1>2, <1>3, <1>4, <1>9 DEF Passes, Earned
<1> QED BY <1>1, <1>5, <1>6, <1>7, <1>8, <1>9 DEF Kinds

LEMMA AnsweredKeeps == ASSUME VerdictInv, Answered PROVE VerdictInv'
<1> DEFINE o == Outcome(call.answer)
<1>1. Judge(o, call.answer) /\ call' = NoCall /\ call.phase = "answered" /\ UNCHANGED <<given, decided>>
  BY DEF Answered
<1>2. harness.version = 1 => o = PostOutcome(call.answer)
  BY DEF Outcome
<1>3. InFlight' /\ AnswerIsTheSDKs'
  BY <1>1 DEF InFlight, AnswerIsTheSDKs, NoCall
<1> HIDE DEF o
<1>4. CASE o = "unsupported" \/ Fails(o)
  <2>1. verdict' \in {"SKIP", "ERROR"} /\ pc' = "done" /\ at' = at
    BY <1>1, <1>4 DEF Judge, Conclude
  <2>2. Position' /\ StepsEarned' /\ PassEarned' /\ FailIsTheSDKs'
    BY <1>1, <2>1, VerdictKept DEF VerdictInv
  <2> QED BY <1>3, <2>1, <2>2 DEF VerdictInv, PauseAfterRejection
<1>5. CASE o # "unsupported" /\ ~Fails(o) /\ Passes(o, call.answer)
  <2>1. Proceed
    BY <1>1, <1>5 DEF Judge
  <2>2. harness.version = 1 => Earned(at + 1)
    BY <1>1, <1>2, <1>5, AnswerJudged
  <2>3. Position' /\ StepsEarned' /\ PassEarned' /\ FailIsTheSDKs' /\ pc' \in {"step", "done"}
    BY <1>1, <2>1, <2>2, ProceedKeeps DEF VerdictInv
  <2> QED BY <1>3, <2>3 DEF VerdictInv, PauseAfterRejection
<1>6. CASE o # "unsupported" /\ ~Fails(o) /\ ~Passes(o, call.answer)
  <2>1. CASE Now.do = "poll" /\ ~late
    <3>1. pc' = "pause" /\ UNCHANGED <<at, verdict>> /\ Now' = Now
      BY <1>1, <1>6, <2>1 DEF Judge, Now, given
    <3>2. harness.version = 1 => <<at + 1, "rejected">> \in decided
      BY <1>1, <1>2, <1>6, <2>1, AnswerJudged
    <3>3. PauseAfterRejection'
      BY <1>1, <2>1, <3>1, <3>2 DEF PauseAfterRejection, given
    <3>4. Position' /\ StepsEarned' /\ PassEarned' /\ FailIsTheSDKs'
      BY <1>1, <3>1, VerdictKept DEF VerdictInv
    <3> QED BY <1>3, <3>3, <3>4 DEF VerdictInv
  <2>2. CASE ~(Now.do = "poll" /\ ~late)
    <3>1. Conclude("FAIL")
      BY <1>1, <1>6, <2>2 DEF Judge
    <3>2. harness.version = 1 /\ test \notin {"JF-1", "XV-1/client"} =>
            harness.judges = "wrongId" \/ Wrong(at + 1)
      BY <1>1, <1>2, <1>6, AnswerJudged
    <3>3. Position' /\ StepsEarned' /\ PassEarned' /\ FailIsTheSDKs'
      BY <1>1, <3>1, <3>2, FailKeeps DEF VerdictInv
    <3> QED BY <1>3, <3>1, <3>3 DEF VerdictInv, PauseAfterRejection, Conclude
  <2> QED BY <2>1, <2>2
<1> QED BY <1>4, <1>5, <1>6

LEMMA SuiteKeeps == ASSUME VerdictInv, Suite PROVE VerdictInv'
<1>1. CASE Serve
  <2>1. Proceed /\ UNCHANGED <<given, call, decided>> /\ pc = "step" /\ Now.do = "serve"
    BY <1>1 DEF Serve
  <2>2. Earned(at + 1)
    BY <2>1 DEF Earned, Now
  <2>3. Position' /\ StepsEarned' /\ PassEarned' /\ FailIsTheSDKs' /\ pc' \in {"step", "done"}
    BY <2>1, <2>2, ProceedKeeps DEF VerdictInv
  <2>4. call'.phase = "none"
    BY <2>1 DEF VerdictInv, InFlight
  <2> QED BY <2>3, <2>4 DEF VerdictInv, InFlight, AnswerIsTheSDKs, PauseAfterRejection
<1>2. CASE NeedsControl
  <2>1. /\ verdict' = "SKIP" /\ pc' = "done" /\ pc = "step"
        /\ UNCHANGED <<given, at, call, decided>>
    BY <1>2 DEF NeedsControl, Conclude
  <2>2. Position' /\ StepsEarned' /\ PassEarned' /\ FailIsTheSDKs'
    BY <2>1, VerdictKept DEF VerdictInv
  <2>3. call'.phase = "none"
    BY <2>1 DEF VerdictInv, InFlight
  <2> QED BY <2>1, <2>2, <2>3 DEF VerdictInv, InFlight, AnswerIsTheSDKs, PauseAfterRejection
<1>3. CASE StartCall
  <2>1. /\ call'.phase = "sent" /\ pc' = "calling" /\ Now.do # "serve"
        /\ UNCHANGED <<given, at, verdict, decided>>
    BY <1>3 DEF StartCall, NoCall, sdk
  <2>2. Position' /\ StepsEarned' /\ PassEarned' /\ FailIsTheSDKs'
    BY <2>1, VerdictKept DEF VerdictInv
  <2>3. Now' = Now
    BY <2>1 DEF Now, given
  <2> QED BY <2>1, <2>2, <2>3 DEF VerdictInv, InFlight, AnswerIsTheSDKs, PauseAfterRejection
<1>4. CASE CallFails
  <2>1. /\ verdict' = "ERROR" /\ pc' = "done" /\ call'.phase = "none"
        /\ UNCHANGED <<given, at, decided>>
    BY <1>4 DEF CallFails, CallError, Conclude, NoCall
  <2>2. Position' /\ StepsEarned' /\ PassEarned' /\ FailIsTheSDKs'
    BY <2>1, VerdictKept DEF VerdictInv
  <2> QED BY <2>1, <2>2 DEF VerdictInv, InFlight, AnswerIsTheSDKs, PauseAfterRejection
<1>5. CASE Answered
  BY <1>5, AnsweredKeeps
<1>6. CASE AwaitServer
  <2>1. /\ pc' = "waiting" /\ Now.do = "dial" /\ UNCHANGED <<given, call, at, verdict, decided>>
    BY <1>6 DEF AwaitServer
  <2>2. Position' /\ StepsEarned' /\ PassEarned' /\ FailIsTheSDKs'
    BY <2>1, VerdictKept DEF VerdictInv
  <2>3. Now' = Now
    BY <2>1 DEF Now, given
  <2>4. PostOutcome(call.answer)' = PostOutcome(call.answer)
    BY <2>1 DEF PostOutcome, StatusFor
  <2>5. AnswerIsTheSDKs'
    BY <2>1, <2>3, <2>4 DEF VerdictInv, AnswerIsTheSDKs, given
  <2> QED BY <2>1, <2>2, <2>3, <2>5 DEF VerdictInv, InFlight, PauseAfterRejection
<1>7. CASE Cancel
  <2>1. /\ Conclude("FAIL") /\ pc = "pause" /\ UNCHANGED <<given, call, decided>>
    BY <1>7 DEF Cancel
  <2>2. harness.version = 1 => Wrong(at + 1)
    BY <2>1 DEF VerdictInv, PauseAfterRejection, Wrong, Now
  <2>3. Position' /\ StepsEarned' /\ PassEarned' /\ FailIsTheSDKs'
    BY <2>1, <2>2, FailKeeps DEF VerdictInv
  <2>4. call'.phase = "none" /\ pc' = "done"
    BY <2>1 DEF VerdictInv, InFlight, Conclude
  <2> QED BY <2>3, <2>4 DEF VerdictInv, InFlight, AnswerIsTheSDKs, PauseAfterRejection
<1> QED BY <1>1, <1>2, <1>3, <1>4, <1>5, <1>6, <1>7 DEF Suite
-----------------------------------------------------------------------------
(* VerdictInv holds throughout every run of a test: up to the current step *)
(* each demanded decision is on record, and an answer on its way back from *)
(* the control port says no more than the SDK has decided.                 *)
THEOREM VerdictInvariant == Spec => [](VerdictInv /\ harness \in Harnesses)
<1>1. Init => VerdictInv /\ harness \in Harnesses
  <2> SUFFICES ASSUME Init PROVE VerdictInv /\ harness \in Harnesses
    OBVIOUS
  <2>1. test \in AllTests /\ harness \in Harnesses
    BY TestsAssumption DEF TestsAssumption, Init
  <2>2. Position
    BY <2>1, ScriptSteps DEF Position, Init
  <2>3. InFlight /\ AnswerIsTheSDKs /\ PauseAfterRejection
    BY DEF Init, InFlight, AnswerIsTheSDKs, PauseAfterRejection, NoCall
  <2>4. at = 0 /\ verdict = "none"
    BY DEF Init
  <2>5. StepsEarned
    BY <2>4 DEF StepsEarned
  <2>6. PassEarned /\ FailIsTheSDKs
    BY <2>4 DEF PassEarned, FailIsTheSDKs
  <2> QED BY <2>1, <2>2, <2>3, <2>5, <2>6 DEF VerdictInv
<1>2. VerdictInv /\ harness \in Harnesses /\ [Next]_vars => (VerdictInv /\ harness \in Harnesses)'
  <2> SUFFICES ASSUME VerdictInv, harness \in Harnesses, [Next]_vars
               PROVE  VerdictInv' /\ harness' \in Harnesses
    OBVIOUS
  <2>1. CASE Receive \/ Refresh \/ Crash \/ Connect \/ Negotiate \/ Server \/ Deadline
    <3>1. UNCHANGED <<given, call, at, pc, verdict, decided>>
      BY <2>1 DEF Receive, Refresh, Crash, Connect, Negotiate, Server, Deadline, suite
    <3> QED BY <3>1, QuietKeeps DEF given
  <2>2. CASE Validate \/ Fetch \/ DialAnswer \/ Decline
    <3>1. UNCHANGED given
      BY <2>2 DEF Validate, Fetch, DialAnswer, Decline
    <3> QED BY <2>2, <3>1, AnswerKeeps DEF given
  <2>3. CASE Suite
    <3>1. UNCHANGED given
      BY <2>3
      DEF Suite, Serve, NeedsControl, StartCall, CallFails, Answered, AwaitServer, Cancel
    <3> QED BY <2>3, <3>1, SuiteKeeps DEF given
  <2>4. CASE UNCHANGED vars
    <3>1. UNCHANGED <<given, call, at, pc, verdict, decided>>
      BY <2>4 DEF vars, suite
    <3> QED BY <3>1, QuietKeeps DEF given
  <2> QED BY <2>1, <2>2, <2>3, <2>4 DEF Next, Respond
<1> QED BY <1>1, <1>2, PTL DEF Spec

(* On a v1 harness a test passes only if the SDK has taken, in this run,   *)
(* the decision each call of the script asks for (Control.post,            *)
(* ValidateJWT, DialFromSDK).                                              *)
THEOREM PassesAreEarned == Spec => []PassEarned
  BY VerdictInvariant, PTL DEF VerdictInv

(* On a v1 harness a JWT test fails only on a wrong decision of the SDK or *)
(* a wrong ID, never on a crash, a timeout or a breach of the contract.    *)
THEOREM FailuresAreTheSDKs == Spec => []FailIsTheSDKs
  BY VerdictInvariant, PTL DEF VerdictInv
-----------------------------------------------------------------------------
(* Types.  That current stays within the states of a test needs the order  *)
(* of the script: the states still to be served are later ones.            *)
Statuses == {0, 200, 401, 404, 422, 500, 501}
Answers  == [http : Statuses, json : BOOLEAN, status : Status, id : {"", "right", "other"}]
CallRecords == [phase : {"none", "sent", "answered"}, answer : Answers]
Listeners ==
  [open : BOOLEAN, server : {"none", "accepting", "handshaking", "gone"},
   conn : {"none", "open", "finished", "dropped"}, id : {"", "default", "other"}]

(* A client that stalls never finishes a handshake.                        *)
LnTypes == ln \in Listeners /\ (ln.conn = "finished" => harness.client # "stalls")

SDKTypes ==
  /\ current \in 1..3 /\ delivered \in 0..current
  /\ trusted \subseteq {"oldKey", "newKey"} /\ (trusted = {} <=> delivered = 0)
  /\ up \in BOOLEAN /\ asked \in {"none", "requested", "another"}
TestTypes ==
  /\ pc \in {"step", "calling", "waiting", "pause", "done"}
  /\ verdict \in {"none", "PASS", "FAIL", "SKIP", "ERROR"}
ClockTypes   == late \in BOOLEAN /\ fresh \in BOOLEAN
DecidedTypes == decided \subseteq (1..Len(Script(test))) \X {"ok", "rejected"}

ServesAhead ==
  pc # "done" =>
    \A i \in (at + 1)..Len(Script(test)) :
      Script(test)[i].do = "serve" => Script(test)[i].what \in 1..3 /\ current < Script(test)[i].what

Types ==
  /\ test \in Tests /\ calm \in BOOLEAN
  /\ SDKTypes /\ call \in CallRecords /\ LnTypes
  /\ TestTypes /\ ClockTypes /\ DecidedTypes
  /\ ServesAhead

LEMMA HarnessKnown ==
  ASSUME harness \in Harnesses PROVE HarnessOK(harness)
  BY TestsAssumption DEF TestsAssumption

(* A script serves state 2 first, and J13 state 3 after it.                *)
LEMMA ServesAscend ==
  ASSUME NEW t \in AllTests,
         NEW i \in 1..Len(Script(t)), Script(t)[i].do = "serve"
  PROVE  /\ Script(t)[i].what \in 2..3
         /\ \A j \in (i + 1)..Len(Script(t)) : Script(t)[j].do = "serve" =>
              Script(t)[j].what \in 1..3 /\ Script(t)[i].what < Script(t)[j].what
<1>0. /\ ServeBundle.do = "serve" /\ ServeBundle.what = 2 /\ AcceptControl.do # "serve"
      /\ RejectInvalid.do # "serve" /\ ServeRotated.what = 3
      /\ PollNewKey.do # "serve" /\ RejectOldKey.do # "serve"
  BY DEF ServeBundle, AcceptControl, RejectInvalid, ServeRotated, PollNewKey, RejectOldKey, Step
<1>1. CASE t = "J1"
  <2>1. Script(t) = <<ServeBundle, AcceptControl>>
    BY <1>1 DEF Script, NegativeTests
  <2> QED BY <1>0, <2>1
<1>2. CASE t \in NegativeTests
  <2>1. Script(t) = <<ServeBundle, AcceptControl, RejectInvalid>>
    BY <1>2 DEF Script, NegativeTests
  <2> QED BY <1>0, <2>1
<1>3. CASE t = "J9"
  <2>1. Script(t) = <<ServeBundle, AcceptControl, RejectInvalid, RejectInvalid>>
    BY <1>3 DEF Script, NegativeTests
  <2> QED BY <1>0, <2>1
<1>4. CASE t = "J13"
  <2>1. Script(t) = <<ServeBundle, AcceptControl, ServeRotated, PollNewKey, RejectOldKey>>
    BY <1>4 DEF Script, NegativeTests
  <2> QED BY <1>0, <2>1
<1>5. CASE t = "JF-1"
  <2>1. Script(t) = <<ServeBundle, Step("fetch", "requested")>> /\ Step("fetch", "requested").do # "serve"
    BY <1>5 DEF Script, NegativeTests, Step
  <2> QED BY <1>0, <2>1
<1>6. CASE t = "XV-1/client"
  <2>1. Script(t) = <<Step("dial", "default")>> /\ Step("dial", "default").do # "serve"
    BY <1>6 DEF Script, NegativeTests, Step
  <2> QED BY <2>1
<1> QED BY <1>1, <1>2, <1>3, <1>4, <1>5, <1>6 DEF AllTests

LEMMA StatesCounted ==
  ASSUME Types PROVE current \in 1..3 /\ delivered \in 0..current /\ delivered \in Nat
<1>1. current \in 1..3 /\ delivered \in 0..current
  BY Zenon DEF Types, SDKTypes
<1> QED BY <1>1

(* The harness's side: what arrives at the SDK, and what it answers.       *)
LEMMA SDKStepTypes ==
  ASSUME Types, harness \in Harnesses, Receive \/ Refresh \/ Crash
  PROVE  SDKTypes' /\ LnTypes'
<1>1. CASE Receive
  <2>1. PICK v \in (delivered + 1)..current :
          /\ delivered' = v
          /\ trusted' = CASE harness.bundle = "merges" -> trusted \cup {KeyOf(v)}
                          [] harness.bundle = "ignores" /\ trusted # {} -> trusted
                          [] harness.bundle = "ignores" /\ trusted = {} -> {KeyOf(v)}
                          [] harness.bundle \in {"follows", "delegates"} -> {KeyOf(v)}
    BY <1>1 DEF Receive
  <2>2. KeyOf(v) \in {"oldKey", "newKey"}
    BY DEF KeyOf
  <2>3. trusted' \subseteq {"oldKey", "newKey"} /\ trusted' # {}
    BY <2>1, <2>2, HarnessKnown DEF HarnessOK, Types, SDKTypes
  <2>4. v \in 0..current /\ v # 0
    <3>1. delivered \in Nat /\ current \in Nat
      BY StatesCounted
    <3> QED BY <2>1, <3>1
  <2>5. UNCHANGED <<current, up, asked, ln, harness>>
    BY <1>1 DEF Receive, given
  <2>6. delivered' \in 0..current' /\ delivered' # 0
    BY <2>1, <2>4, <2>5
  <2> QED BY <2>3, <2>5, <2>6 DEF Types, SDKTypes, LnTypes
<1>2. CASE Refresh \/ Crash
  BY <1>2 DEF Refresh, Crash, given, Types, SDKTypes, LnTypes, Listeners
<1> QED BY <1>1, <1>2

LEMMA AnswerTypes ==
  ASSUME harness \in Harnesses, NEW d \in {"ok", "rejected"}
  PROVE  Answer(d) \in Answers
<1>1. harness.version \in {0, 1}
  BY HarnessKnown DEF HarnessOK
<1>2. StatusFor[d] \in Statuses
  BY DEF StatusFor, Statuses
<1>3. HttpOf(d) \in Statuses
  <2>0. 0 # 1 /\ {200, 401} \subseteq Statuses
    BY DEF Statuses
  <2>1. CASE harness.port = "always200"
    <3>1. HttpOf(d) = 200
      BY Zenon, <2>1 DEF HttpOf
    <3> QED BY <2>0, <3>1
  <2>2. CASE harness.port # "always200" /\ harness.version = 0
    <3>1. HttpOf(d) = IF d = "ok" THEN 200 ELSE 401
      BY Zenon, <2>0, <2>2 DEF HttpOf
    <3> QED BY <2>0, <3>1
  <2>3. CASE harness.port # "always200" /\ harness.version = 1
    <3>1. HttpOf(d) = StatusFor[d]
      BY Zenon, <2>0, <2>3 DEF HttpOf
    <3> QED BY <1>2, <3>1
  <2> QED BY Zenon, <1>1, <2>1, <2>2, <2>3
<1> QED BY <1>3 DEF Answer, Answers, Status

LEMMA Replied == ASSUME NEW a \in Answers, Reply(a) PROVE call' \in CallRecords
  BY DEF Reply, CallRecords

(* What a port answers on which the SDK gets no say.                       *)
LEMMA NoDecision ==
  ASSUME NEW n \in {404, 500, 501}, NEW w \in {"unsupported", "error"}
  PROVE  /\ [NoAnswer EXCEPT !.http = n] \in Answers
         /\ [NoAnswer EXCEPT !.http = n, !.json = TRUE, !.status = w] \in Answers
<1>1. 0 \in Statuses /\ n \in Statuses
  BY DEF Statuses
<1>2. "" \in Status /\ w \in Status
  BY DEF Status
<1>3. NoAnswer \in Answers
  BY <1>1, <1>2 DEF NoAnswer, Answers
<1> QED BY <1>1, <1>2, <1>3 DEF Answers

LEMMA AnswerStepTypes ==
  ASSUME Types, Position, harness \in Harnesses, Validate \/ Fetch \/ DialAnswer \/ Decline
  PROVE  call' \in CallRecords /\ SDKTypes' /\ DecidedTypes'
<1>0. at + 1 \in 1..Len(Script(test)) /\ test' = test
  <2>1. at + 1 \in 1..Len(Script(test))
    BY ScriptSteps DEF Position
  <2>2. test' = test
    BY DEF Validate, Fetch, DialAnswer, Decline, given
  <2> QED BY <2>1, <2>2
<1>1. ASSUME NEW d \in {"ok", "rejected"}, Decide(d)
      PROVE  call' \in CallRecords /\ DecidedTypes'
  BY <1>0, <1>1, AnswerTypes DEF Decide, Reply, CallRecords, Types, DecidedTypes
<1>2. CASE Validate
  BY <1>1, <1>2, JudgementType DEF Validate, Asked, sdk, Types, SDKTypes
<1>3. CASE DialAnswer
  <2>1. PICK d \in {"ok", "rejected"} : Decide(d)
    BY <1>3 DEF DialAnswer, Dialed
  <2> QED BY <1>1, <1>3, <2>1 DEF DialAnswer, sdk, Types, SDKTypes
<1>4. CASE Fetch
  <2>1. Answer("ok") \in Answers
    BY AnswerTypes
  <2>2. PICK i \in {"right", "other"} : Reply([Answer("ok") EXCEPT !.id = i])
    BY <1>4 DEF Fetch
  <2>3. call' \in CallRecords
    BY <2>1, <2>2 DEF Reply, CallRecords, Answers
  <2>4. SDKTypes'
    BY <1>4, HarnessKnown DEF Fetch, HarnessOK, Types, SDKTypes
  <2>5. DecidedTypes'
    BY <1>0, <1>4 DEF Fetch, Types, DecidedTypes
  <2> QED BY <2>3, <2>4, <2>5
<1>5. CASE Decline
  <2>1. harness.port \in {"noJson", "noRoute", "unsupported", "flaky"}
    BY <1>5, HarnessKnown DEF HarnessOK, Decline
  <2>2. call' \in CallRecords
    <3>1. CASE harness.port = "noJson"
      <4>1. Reply([NoAnswer EXCEPT !.http = 500])
        BY <1>5, <3>1 DEF Decline
      <4> QED BY <4>1, Replied, NoDecision
    <3>2. CASE harness.port = "noRoute"
      <4>1. Reply([NoAnswer EXCEPT !.http = 404])
        BY <1>5, <3>2 DEF Decline
      <4> QED BY <4>1, Replied, NoDecision
    <3>3. CASE harness.port = "unsupported"
      <4>1. Reply([NoAnswer EXCEPT !.http = 501, !.json = TRUE, !.status = "unsupported"])
        BY <1>5, <3>3 DEF Decline
      <4> QED BY <4>1, Replied, NoDecision
    <3>4. CASE harness.port = "flaky"
      <4>1. Reply([NoAnswer EXCEPT !.http = 500, !.json = TRUE, !.status = "error"])
        BY <1>5, <3>4 DEF Decline
      <4> QED BY <4>1, Replied, NoDecision
    <3> QED BY <2>1, <3>1, <3>2, <3>3, <3>4
  <2> QED BY <1>0, <1>5, <2>2 DEF Decline, sdk, Types, SDKTypes, DecidedTypes
<1> QED BY <1>2, <1>3, <1>4, <1>5

LEMMA ListenerTypes ==
  ASSUME Types, harness \in Harnesses, Connect \/ Negotiate \/ Server
  PROVE  LnTypes'
<1>1. ln \in Listeners /\ (ln.conn = "finished" => harness.client # "stalls") /\ harness' = harness
  BY DEF Types, LnTypes, Connect, Negotiate, Server, given
<1>2. CASE Connect \/ Negotiate
  BY <1>1, <1>2 DEF Connect, Negotiate, LnTypes, Listeners
<1>3. CASE Accept \/ AcceptFails \/ HandshakeFails
  BY <1>1, <1>3 DEF Accept, AcceptFails, HandshakeFails, LnTypes, Listeners
<1>4. CASE Verify
  <2>1. PeerCert \in {"", "default", "other"}
    BY <1>1, <1>4, HarnessKnown DEF Verify, PeerCert, HarnessOK
  <2> QED BY <1>1, <1>4, <2>1 DEF Verify, LnTypes, Listeners
<1> QED BY <1>2, <1>3, <1>4 DEF Server

(* The test's own steps.                                                   *)
LEMMA SuiteStepTypes ==
  ASSUME Types, Suite
  PROVE  call' \in CallRecords /\ LnTypes' /\ ClockTypes' /\ TestTypes'
<1>1. NoAnswer \in Answers
  BY DEF NoAnswer, Answers, Statuses, Status
<1>2. NoCall \in CallRecords /\ [NoCall EXCEPT !.phase = "sent"] \in CallRecords
  BY <1>1 DEF NoCall, CallRecords
<1>3. \A l \in {ln, CloseLn, [ln EXCEPT !.open = FALSE], Listening} :
        l \in Listeners /\ (l.conn = "finished" => harness.client # "stalls")
  <2>1. ln \in Listeners /\ (ln.conn = "finished" => harness.client # "stalls")
    BY DEF Types, LnTypes
  <2>2. CloseLn \in Listeners /\ CloseLn.conn = ln.conn
    BY <2>1 DEF CloseLn, Listeners
  <2>3. Listening \in Listeners /\ Listening.conn # "finished"
    BY DEF Listening, Listeners
  <2> QED BY <2>1, <2>2, <2>3 DEF CloseLn
<1>4. call' \in CallRecords /\ LnTypes'
  <2>1. call' \in CallRecords
    BY <1>2 DEF Suite, Serve, NeedsControl, StartCall, CallFails, Answered, AwaitServer, Cancel, Types
  <2>2. ln' \in {ln, CloseLn, [ln EXCEPT !.open = FALSE], Listening} /\ harness' = harness
    BY DEF Suite, Serve, NeedsControl, StartCall, CallFails, Answered, AwaitServer, Cancel, given
  <2> QED BY <1>3, <2>1, <2>2 DEF LnTypes
<1>5. ClockTypes'
  BY DEF Suite, Serve, NeedsControl, StartCall, CallFails, Answered, AwaitServer, Cancel,
         Types, ClockTypes
<1>6. ASSUME Proceed PROVE TestTypes'
  BY <1>6 DEF Proceed, Conclude, Types, TestTypes
<1>7. ASSUME NEW v \in {"PASS", "FAIL", "SKIP", "ERROR"}, Conclude(v) PROVE TestTypes'
  BY <1>7 DEF Conclude, TestTypes
<1>8. TestTypes'
  <2>1. CASE Answered
    <3>1. Judge(Outcome(call.answer), call.answer)
      BY <2>1 DEF Answered
    <3> QED BY <1>6, <1>7, <3>1 DEF Judge, Types, TestTypes
  <2>2. CASE StartCall \/ AwaitServer
    BY <2>2 DEF StartCall, AwaitServer, Types, TestTypes
  <2>3. CASE Serve \/ NeedsControl \/ CallFails \/ Cancel
    BY <1>6, <1>7, <2>3 DEF Serve, NeedsControl, CallFails, CallError, Cancel
  <2> QED BY <2>1, <2>2, <2>3 DEF Suite
<1> QED BY <1>4, <1>5, <1>8

(* A step of the script at most moves on, and serves a later state.        *)
LEMMA ServeTypes ==
  ASSUME Types, Position, Position', Serve
  PROVE  SDKTypes' /\ ServesAhead'
<1> DEFINE s == Script(test)
<1>1. /\ pc = "step" /\ Now = s[at + 1] /\ Now.do = "serve" /\ current' = Now.what /\ Proceed
      /\ UNCHANGED <<test, delivered, trusted, up, asked>>
  BY DEF Serve, Now, given
<1>2. at + 1 \in 1..Len(s) /\ at \in Nat /\ Len(s) \in Nat /\ test \in AllTests
  BY ScriptSteps DEF Position
<1>3. current < s[at + 1].what /\ s[at + 1].what \in 1..3
  BY <1>1, <1>2 DEF Types, ServesAhead
<1>4. SDKTypes'
  <2>1. current' \in 1..3 /\ current < current'
    BY <1>1, <1>3
  <2>2. delivered' \in 0..current'
    <3>1. current \in Int /\ delivered \in 0..current
      BY StatesCounted
    <3> QED BY <1>1, <2>1, <3>1
  <2> HIDE DEF s
  <2> QED BY <1>1, <2>1, <2>2 DEF Types, SDKTypes
<1>5. pc' # "done" => at' = at + 1
  BY <1>1 DEF Proceed, Conclude
<1>6. \A j \in ((at + 1) + 1)..Len(s) : s[j].do = "serve" => s[j].what \in 1..3 /\ s[at + 1].what < s[j].what
  BY <1>1, <1>2, ServesAscend
<1>7. ServesAhead'
  <2> SUFFICES ASSUME pc' # "done"
               PROVE  \A j \in (at' + 1)..Len(s) : s[j].do = "serve" => s[j].what \in 1..3 /\ current' < s[j].what
    BY <1>1 DEF ServesAhead
  <2> HIDE DEF s
  <2> QED BY <1>1, <1>5, <1>6
<1> QED BY <1>4, <1>7

(* Otherwise the states to come stay to come.                              *)
LEMMA StillAhead ==
  ASSUME Types, Position, UNCHANGED <<test, current>>, at' = at \/ at' = at + 1,
         pc' = "done" \/ pc # "done"
  PROVE  ServesAhead'
<1>1. at \in Nat /\ Len(Script(test)) \in Nat
  BY ScriptSteps DEF Position
<1>2. (at' + 1)..Len(Script(test)) \subseteq (at + 1)..Len(Script(test))
  BY <1>1
<1> QED BY <1>2 DEF Types, ServesAhead

(* A test's variables hold what the code can put in them, on every set of  *)
(* harnesses: in particular a test serves its states in order, and the SDK *)
(* never has a bundle that has not been served.                            *)
THEOREM TypeCorrect == Spec => []TypeOK
<1> DEFINE Base == VerdictInv /\ harness \in Harnesses
<1>1. Init => Types
  <2> SUFFICES ASSUME Init PROVE Types
    OBVIOUS
  <2>1. test \in Tests /\ test \in AllTests /\ calm \in BOOLEAN
    BY TestsAssumption DEF Init, TestsAssumption
  <2>2. SDKTypes /\ TestTypes /\ ClockTypes /\ DecidedTypes
    <3>1. current = 1 /\ up = TRUE /\ asked = "none" /\ delivered \in {0, 1}
      BY DEF Init
    <3>2. trusted = IF delivered = 0 THEN {} ELSE {"oldKey"}
      BY DEF Init
    <3>3. current \in 1..3 /\ delivered \in 0..current
      BY <3>1
    <3>4. trusted \subseteq {"oldKey", "newKey"} /\ (trusted = {} <=> delivered = 0)
      BY Zenon, <3>2
    <3>5. SDKTypes
      BY Zenon, <3>1, <3>3, <3>4 DEF SDKTypes
    <3> QED BY <3>5 DEF Init, TestTypes, ClockTypes, DecidedTypes
  <2>3. call \in CallRecords /\ LnTypes
    BY DEF Init, NoCall, NoAnswer, NoListener, CallRecords, Answers, Statuses, Status, Listeners,
           LnTypes
  <2>4. ServesAhead
    <3>1. at = 0 /\ current = 1
      BY DEF Init
    <3>2. \A i \in 1..Len(Script(test)) : Script(test)[i].do = "serve" => Script(test)[i].what \in 2..3
      BY <2>1, ServesAscend
    <3> QED BY <3>1, <3>2 DEF ServesAhead
  <2> QED BY <2>1, <2>2, <2>3, <2>4 DEF Types
<1>2. Base /\ Base' /\ Types /\ [Next]_vars => Types'
  <2> SUFFICES ASSUME Base, Base', Types, [Next]_vars PROVE Types'
    OBVIOUS
  <2>0. Position /\ Position' /\ harness \in Harnesses
    BY DEF VerdictInv
  <2>1. CASE Receive \/ Refresh \/ Crash
    <3>1. SDKTypes' /\ LnTypes'
      BY <2>0, <2>1, SDKStepTypes
    <3>2. UNCHANGED <<given, current, call, suite, decided>>
      BY <2>1 DEF Receive, Refresh, Crash
    <3>3. ServesAhead'
      BY <2>0, <3>2, StillAhead DEF given, suite, Types, ServesAhead
    <3> QED BY <3>1, <3>2, <3>3
        DEF Types, TestTypes, ClockTypes, DecidedTypes, given, suite
  <2>2. CASE Validate \/ Fetch \/ DialAnswer \/ Decline
    <3>1. call' \in CallRecords /\ SDKTypes' /\ DecidedTypes'
      BY <2>0, <2>2, AnswerStepTypes
    <3>2. UNCHANGED <<given, current, ln, suite>>
      BY <2>2 DEF Validate, Fetch, DialAnswer, Decline, sdk
    <3>3. ServesAhead'
      BY <2>0, <3>2, StillAhead DEF given, suite, Types, ServesAhead
    <3> QED BY <3>1, <3>2, <3>3 DEF Types, LnTypes, TestTypes, ClockTypes, given, suite
  <2>3. CASE Connect \/ Negotiate \/ Server
    <3>1. LnTypes'
      BY <2>0, <2>3, ListenerTypes
    <3>2. UNCHANGED <<given, sdk, call, suite, decided>>
      BY <2>3 DEF Connect, Negotiate, Server
    <3>3. ServesAhead'
      BY <2>0, <3>2, StillAhead DEF given, sdk, suite, Types, ServesAhead
    <3> QED BY <3>1, <3>2, <3>3
        DEF Types, SDKTypes, TestTypes, ClockTypes, DecidedTypes, given, sdk, suite
  <2>4. CASE Suite
    <3>1. call' \in CallRecords /\ LnTypes' /\ ClockTypes' /\ TestTypes'
      BY <2>4, SuiteStepTypes
    <3>2. UNCHANGED <<given, decided>>
      BY <2>4 DEF Suite, Serve, NeedsControl, StartCall, CallFails, Answered, AwaitServer, Cancel
    <3>3. SDKTypes' /\ ServesAhead'
      <4>1. CASE Serve
        BY <2>0, <4>1, ServeTypes
      <4>2. CASE NeedsControl \/ StartCall \/ CallFails \/ Answered \/ AwaitServer \/ Cancel
        <5>1. UNCHANGED sdk
          BY <4>2 DEF NeedsControl, StartCall, CallFails, Answered, AwaitServer, Cancel
        <5>2. pc # "done"
          BY <4>2 DEF NeedsControl, StartCall, CallFails, Answered, AwaitServer, Cancel
        <5>3. at' = at \/ at' = at + 1
          BY <4>2 DEF NeedsControl, StartCall, CallFails, CallError, Answered, AwaitServer, Cancel,
                      Judge, Conclude, Proceed
        <5>4. ServesAhead'
          BY <2>0, <3>2, <5>1, <5>2, <5>3, StillAhead DEF given, sdk
        <5> QED BY <5>1, <5>4 DEF Types, SDKTypes, sdk
      <4> QED BY <2>4, <4>1, <4>2 DEF Suite
    <3> QED BY <3>1, <3>2, <3>3 DEF Types, DecidedTypes, given
  <2>5. CASE Deadline \/ UNCHANGED vars
    <3>1. UNCHANGED <<given, sdk, call, ln, at, pc, fresh, verdict, decided>> /\ late' \in BOOLEAN
      BY <2>5 DEF Deadline, vars, suite, Types, ClockTypes
    <3>2. ServesAhead'
      BY <2>0, <3>1, StillAhead DEF given, sdk, Types, ServesAhead
    <3> QED BY <3>1, <3>2
        DEF Types, SDKTypes, LnTypes, TestTypes, ClockTypes, DecidedTypes, given, sdk
  <2> QED BY <2>1, <2>2, <2>3, <2>4, <2>5 DEF Next, Respond
<1>3. Base /\ Types => TypeOK
  <2> SUFFICES ASSUME Base, Types PROVE TypeOK
    OBVIOUS
  <2>1. at \in 0..(Len(Script(test)) - 1)
    BY ScriptSteps DEF VerdictInv, Position
  <2> QED BY ZenonT(30), <2>1
      DEF Types, SDKTypes, LnTypes, TestTypes, ClockTypes, DecidedTypes, CallRecords,
          Answers, Statuses, Listeners, TypeOK
<1> HIDE DEF Base
<1>4. Spec => []Base
  BY VerdictInvariant DEF Base
<1> QED BY <1>1, <1>2, <1>3, <1>4, PTL DEF Spec
-----------------------------------------------------------------------------
(* The verdict of a calm run on a harness that keeps the contract.         *)

(* The state that is set when the test stands at its a-th step.            *)
StateAt(t, a) ==
  IF t = "XV-1/client" \/ a = 0 THEN 1 ELSE IF t = "J13" /\ a >= 3 THEN 3 ELSE 2

(* The keys that the SDK trusts follow from the last bundle it received,   *)
(* because nobody has received the bundle of the new key first.            *)
SDKCalm ==
  /\ up
  /\ current = StateAt(test, at)
  /\ "oldKey" \in trusted <=>
       delivered # 0 /\ (delivered = 3 => harness.bundle \in {"merges", "ignores"})
  /\ "newKey" \in trusted <=> delivered = 3 /\ harness.bundle # "ignores"

HasKeys == harness.bundle = "delegates" \/ delivered # 0

(* What the steps that have succeeded say of the harness.                  *)
StepsCalm ==
  /\ at >= 2 => harness.port = "contract" /\ harness.judges \in {"right", "acceptsAll"} /\ HasKeys
  /\ at >= 3 /\ test = "J9" => harness.judges = "right"
  /\ at = 4 /\ harness.judges = "right" => "newKey" \in Keys

(* An answer about a token is the SDK's, with the keys it still has: only  *)
(* in a poll that began before the last bundle had arrived may it be out   *)
(* of date.                                                                *)
TokenAnswered(o) ==
  /\ o \in {"ok", "rejected"} /\ HasKeys
  /\ harness.judges = "acceptsAll" => o = "ok"
  /\ harness.judges = "rejectsAll" => o = "rejected"
  /\ harness.judges \in {"right", "wrongId"} =>
       /\ o = "ok" => Now.what \in Keys
       /\ o = "rejected" => Now.what \notin Keys \/ (Now.do = "poll" /\ ~fresh)
  /\ call.answer.id = "right" <=> harness.judges # "wrongId"

FetchAnswered(o) ==
  /\ o = "ok"
  /\ call.answer.id = "right" <=> harness.fetch # "cached"
  /\ harness.fetch = "asks" => asked = "requested"
  /\ harness.fetch = "asksAnother" => asked = "another"

(* What has become of the connection tells what the client is.             *)
ListenerCalm ==
  /\ harness.port # "contract" => ln.conn = "none"
  /\ ln.conn = "finished" =>
       /\ harness.judges # "rejectsAll" /\ harness.client # "stalls"
       /\ ln.server \in {"handshaking", "gone"}
       /\ ln.server = "gone" => ln.id = PeerCert
  /\ ln.conn = "dropped" => harness.judges = "rejectsAll" \/ harness.client = "stalls"

DialAnswered(o) ==
  /\ o \in {"ok", "rejected"}
  /\ o = "ok" => ln.conn = "finished"
  /\ o = "rejected" => harness.judges = "rejectsAll" \/ harness.client \in {"none", "stalls"}
  /\ ln.conn = "open" => harness.client = "stalls"
  /\ call.answer.id = "right" <=> harness.judges # "wrongId"

TokenStep == Now.do \in {"accept", "reject", "poll"}

CallCalm ==
  call.phase # "none" =>
    /\ Now.do \in {"fetch", "dial"} => harness.version = 1
    /\ Now.do = "dial" => ListenerCalm
    /\ call.phase = "answered" =>
         /\ harness.port # "contract" => Outcome(call.answer) = "unsupported"
         /\ harness.port = "contract" =>
              /\ TokenStep       => TokenAnswered(Outcome(call.answer))
              /\ Now.do = "fetch" => FetchAnswered(Outcome(call.answer))
              /\ Now.do = "dial"  => DialAnswered(Outcome(call.answer))

(* An SDK that takes the new key is up to date before J13 runs late.       *)
Able == harness.judges = "right" /\ harness.bundle \in {"follows", "delegates"}

PollCalm ==
  /\ pc = "pause" => Now.do = "poll"
  /\ pc \in {"calling", "waiting", "pause"} /\ fresh => delivered = current
  /\ Able => ~late /\ ~(pc = "pause" /\ fresh)

CalmInv == calm /\ KeepsContract => SDKCalm /\ StepsCalm /\ CallCalm /\ PollCalm
-----------------------------------------------------------------------------
(* The step the test stands at, by test.                                   *)
LEMMA StepFields ==
  /\ ServeBundle.do = "serve" /\ ServeBundle.what = 2
  /\ AcceptControl.do = "accept" /\ AcceptControl.what = "oldKey"
  /\ RejectInvalid.do = "reject" /\ RejectInvalid.what = "noKey"
  /\ ServeRotated.do = "serve" /\ ServeRotated.what = 3
  /\ PollNewKey.do = "poll" /\ PollNewKey.what = "newKey"
  /\ RejectOldKey.do = "reject" /\ RejectOldKey.what = "oldKey"
  /\ Step("fetch", "requested").do = "fetch" /\ Step("fetch", "requested").what = "requested"
  /\ Step("dial", "default").do = "dial" /\ Step("dial", "default").what = "default"
  BY DEF ServeBundle, AcceptControl, RejectInvalid, ServeRotated, PollNewKey, RejectOldKey, Step

TokenTests == {"J1", "J9", "J13"} \cup NegativeTests

LEMMA StepsByTest ==
  ASSUME Position
  PROVE  \/ /\ test = "XV-1/client" /\ Len(Script(test)) = 1
            /\ at = 0 /\ Now = Step("dial", "default")
         \/ /\ test = "JF-1" /\ Len(Script(test)) = 2
            /\ (at = 0 /\ Now = ServeBundle) \/ (at = 1 /\ Now = Step("fetch", "requested"))
         \/ /\ test = "J1" /\ Len(Script(test)) = 2
            /\ (at = 0 /\ Now = ServeBundle) \/ (at = 1 /\ Now = AcceptControl)
         \/ /\ test \in NegativeTests /\ Len(Script(test)) = 3
            /\ test \notin {"XV-1/client", "JF-1", "J1", "J9", "J13"}
            /\ \/ (at = 0 /\ Now = ServeBundle) \/ (at = 1 /\ Now = AcceptControl)
               \/ (at = 2 /\ Now = RejectInvalid)
         \/ /\ test = "J9" /\ Len(Script(test)) = 4
            /\ \/ (at = 0 /\ Now = ServeBundle) \/ (at = 1 /\ Now = AcceptControl)
               \/ (at \in {2, 3} /\ Now = RejectInvalid)
         \/ /\ test = "J13" /\ Len(Script(test)) = 5
            /\ \/ (at = 0 /\ Now = ServeBundle) \/ (at = 1 /\ Now = AcceptControl)
               \/ (at = 2 /\ Now = ServeRotated) \/ (at = 3 /\ Now = PollNewKey)
               \/ (at = 4 /\ Now = RejectOldKey)
<1>1. CASE test = "XV-1/client"
  <2>1. Script(test) = <<Step("dial", "default")>>
    BY <1>1 DEF Script, NegativeTests
  <2>2. at = 0 /\ Len(Script(test)) = 1
    BY <2>1 DEF Position
  <2> QED BY <1>1, <2>1, <2>2 DEF Now
<1>2. CASE test = "JF-1"
  <2>1. Script(test) = <<ServeBundle, Step("fetch", "requested")>>
    BY <1>2 DEF Script, NegativeTests
  <2>2. at \in 0..1 /\ Len(Script(test)) = 2
    BY <2>1 DEF Position
  <2> QED BY <1>2, <2>1, <2>2 DEF Now
<1>3. CASE test = "J1"
  <2>1. Script(test) = <<ServeBundle, AcceptControl>>
    BY <1>3 DEF Script, NegativeTests
  <2>2. at \in 0..1 /\ Len(Script(test)) = 2
    BY <2>1 DEF Position
  <2> QED BY <1>3, <2>1, <2>2 DEF Now
<1>4. CASE test \in NegativeTests
  <2>1. /\ Script(test) = <<ServeBundle, AcceptControl, RejectInvalid>>
        /\ test \notin {"XV-1/client", "JF-1", "J1", "J9", "J13"}
    BY <1>4 DEF Script, NegativeTests
  <2>2. at \in 0..2 /\ Len(Script(test)) = 3
    BY <2>1 DEF Position
  <2> QED BY <1>4, <2>1, <2>2 DEF Now
<1>5. CASE test = "J9"
  <2>1. Script(test) = <<ServeBundle, AcceptControl, RejectInvalid, RejectInvalid>>
    BY <1>5 DEF Script, NegativeTests
  <2>2. at \in 0..3 /\ Len(Script(test)) = 4
    BY <2>1 DEF Position
  <2> QED BY <1>5, <2>1, <2>2 DEF Now
<1>6. CASE test = "J13"
  <2>1. Script(test) = <<ServeBundle, AcceptControl, ServeRotated, PollNewKey, RejectOldKey>>
    BY <1>6 DEF Script, NegativeTests
  <2>2. at \in 0..4 /\ Len(Script(test)) = 5
    BY <2>1 DEF Position
  <2> QED BY <1>6, <2>1, <2>2 DEF Now
<1> QED BY <1>1, <1>2, <1>3, <1>4, <1>5, <1>6 DEF Position, AllTests

(* What a kind of step says of the test and of its place in it.            *)
LEMMA ServeSteps ==
  ASSUME Position, Now.do = "serve"
  PROVE  /\ at + 1 # Len(Script(test)) /\ Now.what = StateAt(test, at + 1)
         /\ test # "XV-1/client" /\ (at = 0 \/ (at = 2 /\ test = "J13"))
<1>1. /\ at + 1 # Len(Script(test)) /\ test # "XV-1/client"
      /\ (at = 0 /\ Now.what = 2) \/ (at = 2 /\ test = "J13" /\ Now.what = 3)
  <2>1. CASE at = 0
    BY <2>1, StepsByTest, StepFields
  <2>2. CASE at = 1
    BY <2>2, StepsByTest, StepFields
  <2>3. CASE at = 2
    BY <2>3, StepsByTest, StepFields
  <2>4. CASE at = 3
    BY <2>4, StepsByTest, StepFields
  <2>5. CASE at = 4
    BY <2>5, StepsByTest, StepFields
  <2> QED BY <2>1, <2>2, <2>3, <2>4, <2>5, StepsByTest
<1> QED BY <1>1 DEF StateAt

LEMMA AcceptSteps ==
  ASSUME Position, Now.do = "accept"
  PROVE  /\ at = 1 /\ Now.what = "oldKey" /\ test \in TokenTests
         /\ at + 1 = Len(Script(test)) <=> test = "J1"
<1>1. at = 1
  BY StepsByTest, StepFields
<1> QED BY <1>1, StepsByTest, StepFields DEF TokenTests

LEMMA RejectSteps ==
  ASSUME Position, Now.do = "reject"
  PROVE  \/ /\ at \in {2, 3} /\ Now.what = "noKey" /\ test \in NegativeTests \cup {"J9"}
            /\ test \notin {"J1", "J13"}
            /\ at = 3 => test = "J9" /\ at + 1 = Len(Script(test))
            /\ at = 2 => (at + 1 = Len(Script(test)) <=> test # "J9")
         \/ /\ at = 4 /\ Now.what = "oldKey" /\ test = "J13" /\ at + 1 = Len(Script(test))
<1>1. CASE at = 0
  BY <1>1, StepsByTest, StepFields
<1>2. CASE at = 1
  BY <1>2, StepsByTest, StepFields
<1>3. CASE at = 2
  BY <1>3, StepsByTest, StepFields
<1>4. CASE at = 3
  BY <1>4, StepsByTest, StepFields
<1>5. CASE at = 4
  BY <1>5, StepsByTest, StepFields
<1> QED BY <1>1, <1>2, <1>3, <1>4, <1>5, StepsByTest

LEMMA OtherSteps ==
  ASSUME Position
  PROVE  /\ Now.do = "poll" => at = 3 /\ test = "J13" /\ Now.what = "newKey" /\ Len(Script(test)) = 5
         /\ Now.do = "fetch" => at = 1 /\ test = "JF-1" /\ Now.what = "requested" /\ Len(Script(test)) = 2
         /\ Now.do = "dial" => at = 0 /\ test = "XV-1/client" /\ Now.what = "default"
                               /\ Len(Script(test)) = 1
         /\ at <= 4 /\ (at = 4 => test = "J13")
<1>1. CASE at = 0
  BY <1>1, StepsByTest, StepFields
<1>2. CASE at = 1
  BY <1>2, StepsByTest, StepFields
<1>3. CASE at = 2
  BY <1>3, StepsByTest, StepFields
<1>4. CASE at = 3
  BY <1>4, StepsByTest, StepFields
<1>5. CASE at = 4
  BY <1>5, StepsByTest, StepFields
<1> QED BY <1>1, <1>2, <1>3, <1>4, <1>5, StepsByTest
-----------------------------------------------------------------------------
(* What is known between two steps of a calm run.                          *)
CalmState ==
  /\ calm /\ KeepsContract /\ TypeOK /\ Position /\ InFlight
  /\ SDKCalm /\ StepsCalm /\ CallCalm /\ PollCalm

LEMMA HarnessKinds ==
  ASSUME CalmState
  PROVE  /\ harness.version \in {0, 1} /\ harness.tls \in {"1.2", "1.3"}
         /\ \/ harness.port = "contract"
            \/ harness.version = 1 /\ harness.port \in {"noRoute", "unsupported"}
         /\ harness.judges \in {"right", "acceptsAll", "rejectsAll", "wrongId"}
         /\ harness.bundle \in {"follows", "merges", "ignores", "delegates"}
         /\ harness.first = "waits" /\ harness.fetch \in {"asks", "asksAnother", "cached"}
         /\ harness.client \in {"default", "other", "none", "stalls"}
<1>1. HarnessOK(harness)
  BY HarnessKnown DEF CalmState, TypeOK
<1> QED BY <1>1 DEF HarnessOK, CalmState, KeepsContract

LEMMA Typed ==
  ASSUME CalmState
  PROVE  /\ current \in 1..3 /\ delivered \in 0..3 /\ delivered <= current
         /\ trusted \subseteq {"oldKey", "newKey"}
         /\ up \in BOOLEAN /\ late \in BOOLEAN /\ fresh \in BOOLEAN
         /\ DOMAIN call = {"phase", "answer"} /\ call.phase \in {"none", "sent", "answered"}
         /\ ln \in Listeners /\ at \in Nat
<1>1. current \in 1..3 /\ delivered \in 0..current
  BY Zenon DEF CalmState, TypeOK
<1>2. /\ trusted \subseteq {"oldKey", "newKey"}
      /\ up \in BOOLEAN /\ late \in BOOLEAN /\ fresh \in BOOLEAN
      /\ DOMAIN call = {"phase", "answer"} /\ call.phase \in {"none", "sent", "answered"}
  BY DEF CalmState, TypeOK
<1>3. ln \in Listeners
  BY Zenon DEF CalmState, TypeOK, Listeners
<1>4. at \in Nat
  BY DEF CalmState, Position
<1> QED BY <1>1, <1>2, <1>3, <1>4

(* The keys are those of the states received, or of the current one.       *)
LEMMA KeysAre ==
  ASSUME CalmState
  PROVE  /\ harness.bundle = "delegates" =>
              ("oldKey" \in Keys <=> current # 3) /\ ("newKey" \in Keys <=> current = 3)
         /\ harness.bundle # "delegates" => Keys = trusted
         /\ "noKey" \notin Keys
  BY Typed DEF Keys, KeyOf

(* Under the contract an answer tells the decision.                        *)
LEMMA ContractAnswer ==
  ASSUME harness.version \in {0, 1}, harness.port = "contract", NEW d \in {"ok", "rejected"}
  PROVE  /\ Outcome(Answer(d)) = d
         /\ Answer(d).id = "right" <=> harness.judges # "wrongId"
<1>1. Answer(d).id = "right" <=> harness.judges # "wrongId"
  BY DEF Answer
<1>2. CASE harness.version = 0
  <2>1. HttpOf(d) = IF d = "ok" THEN 200 ELSE 401
    BY <1>2 DEF HttpOf
  <2>2. /\ Answer(d).json /\ Answer(d).status = IF d = "ok" THEN "valid" ELSE d
        /\ Answer(d).http = HttpOf(d)
    BY <1>2 DEF Answer
  <2>3. ProbeOutcome(Answer(d)) = d
    BY <2>1, <2>2 DEF ProbeOutcome
  <2> QED BY <1>1, <1>2, <2>3 DEF Outcome
<1>3. CASE harness.version = 1
  <2>1. HttpOf(d) = StatusFor[d]
    BY <1>3 DEF HttpOf
  <2>2. Answer(d).json /\ Answer(d).status = d /\ Answer(d).http = HttpOf(d)
    BY <1>3 DEF Answer
  <2>3. d \in DOMAIN StatusFor
    BY DEF StatusFor
  <2>4. PostOutcome(Answer(d)) = d
    BY <2>1, <2>2, <2>3 DEF PostOutcome
  <2> QED BY <1>1, <1>3, <2>4 DEF Outcome
<1> QED BY <1>2, <1>3

(* An answer is judged the same as long as the harness is the same.        *)
LEMMA OutcomeSame ==
  ASSUME NEW a, harness' = harness, call'.answer = a
  PROVE  Outcome(call.answer)' = Outcome(a)
<1>1. ProbeOutcome(call.answer)' = ProbeOutcome(a)
  BY DEF ProbeOutcome
<1>2. PostOutcome(call.answer)' = PostOutcome(a)
  BY DEF PostOutcome, StatusFor
<1> QED BY <1>1, <1>2 DEF Outcome

(* A verdict stays right when it stays.                                    *)
LEMMA VerdictStays ==
  ASSUME VerdictRight, UNCHANGED <<given, verdict>>
  PROVE  VerdictRight'
  BY DEF VerdictRight, KeepsContract, Expected, Skipped, Conforms, given
-----------------------------------------------------------------------------
(* The harness.                                                            *)

(* The keys that matter to the answer on its way do not change.            *)
LEMMA KeysStay ==
  ASSUME CalmState, Receive, TokenStep, HasKeys, call.phase # "none",
         harness.port = "contract", harness.judges \in {"right", "wrongId"}
  PROVE  /\ Now.what \in Keys => Now.what \in Keys'
         /\ Now.what \notin Keys => Now.what \notin Keys' \/ (Now.do = "poll" /\ ~fresh)
<1>1. /\ UNCHANGED <<given, current, at, fresh>>
      /\ delivered' \in 0..3 /\ delivered < delivered' /\ delivered' <= current
      /\ trusted' = CASE harness.bundle = "merges" -> trusted \cup {KeyOf(delivered')}
                      [] harness.bundle = "ignores" /\ trusted # {} -> trusted
                      [] harness.bundle = "ignores" /\ trusted = {} -> {KeyOf(delivered')}
                      [] harness.bundle \in {"follows", "delegates"} -> {KeyOf(delivered')}
  BY Typed DEF Receive, suite
<1>2. CASE harness.bundle = "delegates"
  BY <1>1, <1>2 DEF Keys, given
<1>3. CASE harness.bundle # "delegates"
  <2>1. delivered \in 1..2 /\ Keys = trusted /\ Keys' = trusted' /\ current \in 1..3
    <3>1. delivered \in 1..2
      <4>1. delivered # 0
        BY <1>3 DEF HasKeys
      <4> QED BY <1>1, <4>1, Typed
    <3>2. Keys = trusted
      BY <1>3 DEF Keys
    <3>3. Keys' = trusted'
      BY <1>1, <1>3 DEF Keys, given
    <3> QED BY <3>1, <3>2, <3>3, Typed
  <2>2. trusted' \subseteq {"oldKey", "newKey"}
    BY <1>1, <1>3, Typed, HarnessKinds DEF KeyOf
  <2>3. CASE Now.do = "accept"
    <3>1. Now.what = "oldKey" /\ current = 2
      BY <2>3, AcceptSteps DEF CalmState, SDKCalm, StateAt, TokenTests, NegativeTests
    <3>2. "oldKey" \in trusted /\ "oldKey" \in trusted'
      BY <1>1, <1>3, <2>1, <3>1, HarnessKinds DEF CalmState, SDKCalm, KeyOf
    <3> QED BY <2>1, <3>1, <3>2
  <2>4. CASE Now.do = "reject"
    <3>1. CASE Now.what = "noKey"
      BY <2>1, <2>2, <3>1, KeysAre
    <3>2. CASE Now.what # "noKey"
      <4>1. at = 4 /\ harness.judges = "right"
        BY <2>4, <3>2, RejectSteps DEF CalmState, StepsCalm
      <4>2. "newKey" \in trusted
        BY <1>3, <4>1 DEF CalmState, StepsCalm, Keys
      <4>3. delivered = 3
        BY <4>2 DEF CalmState, SDKCalm
      <4> QED BY <2>1, <4>3
    <3> QED BY <3>1, <3>2
  <2>5. CASE Now.do = "poll"
    <3>1. Now.what = "newKey"
      BY <2>5, OtherSteps DEF CalmState
    <3>2. "newKey" \notin trusted
      BY <2>1 DEF CalmState, SDKCalm
    <3>3. ~fresh
      BY <1>1, Typed DEF CalmState, PollCalm, InFlight
    <3> QED BY <2>1, <2>5, <3>1, <3>2, <3>3
  <2> QED BY <2>3, <2>4, <2>5 DEF TokenStep
<1> QED BY <1>2, <1>3

(* What is known of a call does not depend on the rest of the state, but   *)
(* for the keys.                                                           *)
LEMMA CallKept ==
  ASSUME CalmState, UNCHANGED <<given, call, ln, asked, at, fresh>>,
         \A o : call.phase = "answered" /\ harness.port = "contract" /\ TokenStep
                  => (TokenAnswered(o) => TokenAnswered(o)')
  PROVE  CallCalm'
<1>1. Now' = Now /\ TokenStep' = TokenStep
  BY DEF Now, TokenStep, given
<1>2. Outcome(call.answer)' = Outcome(call.answer)
  BY OutcomeSame DEF given
<1>3. ListenerCalm' = ListenerCalm
  BY DEF ListenerCalm, PeerCert, given
<1>4. \A o : FetchAnswered(o)' = FetchAnswered(o) /\ DialAnswered(o)' = DialAnswered(o)
  BY DEF FetchAnswered, DialAnswered, given
<1> QED BY <1>1, <1>2, <1>3, <1>4 DEF CalmState, CallCalm, given

LEMMA ReceiveCalm ==
  ASSUME CalmState, Receive
  PROVE  SDKCalm' /\ StepsCalm' /\ CallCalm' /\ PollCalm'
<1>1. /\ UNCHANGED <<given, current, up, asked, call, ln, at, pc, late, fresh>>
      /\ delivered' \in 0..3 /\ delivered < delivered' /\ delivered' <= current
      /\ trusted' = CASE harness.bundle = "merges" -> trusted \cup {KeyOf(delivered')}
                      [] harness.bundle = "ignores" /\ trusted # {} -> trusted
                      [] harness.bundle = "ignores" /\ trusted = {} -> {KeyOf(delivered')}
                      [] harness.bundle \in {"follows", "delegates"} -> {KeyOf(delivered')}
  BY Typed DEF Receive, suite
<1>2. delivered # 3 /\ delivered # delivered' /\ delivered' # 0 /\ delivered # current
  BY <1>1, Typed
<1>3. delivered' = 3 => at >= 3 /\ HasKeys
  <2> SUFFICES ASSUME delivered' = 3 PROVE at >= 3 /\ HasKeys
    OBVIOUS
  <2>1. StateAt(test, at) = 3
    BY <1>1, Typed DEF CalmState, SDKCalm
  <2>2. at >= 3
    BY <2>1 DEF StateAt
  <2> QED BY <2>2, Typed DEF CalmState, StepsCalm
<1>4. SDKCalm'
  <2>1. trusted = {} <=> delivered = 0
    BY DEF CalmState, TypeOK
  <2>2. KeyOf(delivered') = IF delivered' = 3 THEN "newKey" ELSE "oldKey"
    BY DEF KeyOf
  <2>3. /\ "oldKey" \in trusted <=> delivered # 0
        /\ "newKey" \notin trusted
    BY <1>2 DEF CalmState, SDKCalm
  <2>4. /\ "oldKey" \in trusted' <=>
             delivered' # 0 /\ (delivered' = 3 => harness.bundle \in {"merges", "ignores"})
        /\ "newKey" \in trusted' <=> delivered' = 3 /\ harness.bundle # "ignores"
    <3>1. CASE harness.bundle = "merges"
      BY <1>1, <1>2, <1>3, <2>2, <2>3, <3>1 DEF HasKeys
    <3>2. CASE harness.bundle = "ignores"
      BY <1>1, <1>2, <1>3, <2>1, <2>2, <2>3, <3>2 DEF HasKeys
    <3>3. CASE harness.bundle \in {"follows", "delegates"}
      BY <1>1, <1>2, <2>2, <3>3
    <3> QED BY <3>1, <3>2, <3>3, HarnessKinds
  <2> QED BY <1>1, <2>4 DEF CalmState, SDKCalm, given
<1>5. HasKeys => HasKeys'
  BY <1>1, <1>2 DEF HasKeys, given
<1>6. StepsCalm'
  <2>1. at = 4 /\ harness.judges = "right" /\ "newKey" \in Keys => "newKey" \in Keys'
    <3>1. CASE harness.bundle = "delegates"
      BY <1>1, <3>1 DEF Keys, given
    <3>2. CASE harness.bundle # "delegates"
      BY <1>2, <3>2 DEF Keys, CalmState, SDKCalm
    <3> QED BY <3>1, <3>2
  <2> QED BY <1>1, <1>5, <2>1 DEF CalmState, StepsCalm, given
<1>7. CallCalm'
  <2>1. ASSUME NEW o, call.phase = "answered", harness.port = "contract", TokenStep, TokenAnswered(o)
        PROVE  TokenAnswered(o)'
    <3>1. HasKeys' /\ Now' = Now
      BY <1>1, <1>5, <2>1 DEF TokenAnswered, Now, given
    <3>2. harness.judges \in {"right", "wrongId"} =>
            /\ Now.what \in Keys => Now.what \in Keys'
            /\ Now.what \notin Keys => Now.what \notin Keys' \/ (Now.do = "poll" /\ ~fresh)
      BY <2>1, KeysStay DEF TokenAnswered
    <3> QED BY <1>1, <2>1, <3>1, <3>2 DEF TokenAnswered, given
  <2>2. \A o : call.phase = "answered" /\ harness.port = "contract" /\ TokenStep
                 => (TokenAnswered(o) => TokenAnswered(o)')
    BY <2>1
  <2>3. UNCHANGED <<given, call, ln, asked, at, fresh>>
    BY <1>1
  <2> QED BY <2>2, <2>3, CallKept
<1>8. PollCalm'
  <2>1. ~(pc \in {"calling", "waiting", "pause"} /\ fresh)
    BY <1>2 DEF CalmState, PollCalm
  <2>2. Now' = Now
    BY <1>1 DEF Now, given
  <2> QED BY <1>1, <2>1, <2>2 DEF CalmState, PollCalm, Able, given
<1> QED BY <1>4, <1>6, <1>7, <1>8

(* A step that leaves the bundles and the test alone.                      *)
LEMMA OnlyTheCall ==
  ASSUME CalmState, UNCHANGED <<given, current, delivered, trusted, up, suite>>
  PROVE  /\ SDKCalm' /\ StepsCalm' /\ PollCalm'
         /\ Now' = Now /\ Keys' = Keys /\ HasKeys' = HasKeys /\ TokenStep' = TokenStep
<1>1. Now' = Now /\ Keys' = Keys /\ HasKeys' = HasKeys /\ TokenStep' = TokenStep
  BY DEF Now, Keys, HasKeys, TokenStep, given, suite
<1>2. SDKCalm'
  BY DEF CalmState, SDKCalm, given, suite
<1>3. StepsCalm'
  BY <1>1 DEF CalmState, StepsCalm, given, suite
<1>4. PollCalm'
  BY <1>1 DEF CalmState, PollCalm, Able, given, suite
<1> QED BY <1>1, <1>2, <1>3, <1>4

LEMMA ValidateCalm ==
  ASSUME CalmState, Validate
  PROVE  SDKCalm' /\ StepsCalm' /\ CallCalm' /\ PollCalm'
<1>1. /\ UNCHANGED <<given, sdk, ln, suite>>
      /\ Now.do \in {"accept", "reject", "poll"} /\ harness.port = "contract"
      /\ Keys # {} /\ Decide(Judgement)
  BY HarnessKinds DEF Validate, Asked, Working
<1>2. SDKCalm' /\ StepsCalm' /\ PollCalm' /\ Now' = Now /\ Keys' = Keys /\ HasKeys' = HasKeys
  BY <1>1, OnlyTheCall DEF sdk
<1>3. Judgement \in {"ok", "rejected"}
  BY <1>1, HarnessKinds DEF Judgement
<1>4. call' = [phase |-> "answered", answer |-> Answer(Judgement)]
  BY <1>1 DEF Decide, Reply
<1>5. /\ Outcome(call.answer)' = Judgement
      /\ call'.answer.id = "right" <=> harness.judges # "wrongId"
  <2>1. call'.answer = Answer(Judgement)
    BY <1>4
  <2>2. Outcome(call.answer)' = Outcome(Answer(Judgement))
    BY <1>1, <2>1, OutcomeSame DEF given
  <2> QED BY <1>1, <1>3, <2>1, <2>2, ContractAnswer, HarnessKinds
<1>6. HasKeys
  <2>1. harness.bundle # "delegates" => trusted # {}
    BY <1>1, KeysAre
  <2> QED BY <2>1 DEF HasKeys, CalmState, TypeOK
<1>7. TokenAnswered(Judgement)'
  <2>1. /\ harness.judges = "acceptsAll" => Judgement = "ok"
        /\ harness.judges = "rejectsAll" => Judgement = "rejected"
        /\ harness.judges \in {"right", "wrongId"} =>
             Judgement = IF Now.what \in Keys THEN "ok" ELSE "rejected"
    BY <1>1 DEF Judgement
  <2>2. Judgement' = Judgement
    BY <1>1, <1>2 DEF Judgement, given
  <2> QED BY <1>1, <1>2, <1>3, <1>5, <1>6, <2>1, <2>2 DEF TokenAnswered, given
<1>8. CallCalm'
  <2>1. Judgement' = Judgement /\ harness' = harness
    BY <1>1, <1>2 DEF Judgement, given
  <2>2. TokenAnswered(Outcome(call.answer))'
    BY <1>5, <1>7, <2>1 DEF TokenAnswered
  <2> QED BY <1>1, <1>2, <2>1, <2>2 DEF CallCalm
<1> QED BY <1>2, <1>8

LEMMA FetchCalm ==
  ASSUME CalmState, Fetch
  PROVE  SDKCalm' /\ StepsCalm' /\ CallCalm' /\ PollCalm'
<1>1. /\ UNCHANGED <<given, current, delivered, trusted, up, ln, suite>>
      /\ Now.do = "fetch" /\ harness.port = "contract" /\ harness.version = 1
  BY HarnessKinds DEF Fetch, Asked, Working, CalmState, CallCalm
<1>2. SDKCalm' /\ StepsCalm' /\ PollCalm' /\ Now' = Now
  BY <1>1, OnlyTheCall
<1>3. /\ harness.fetch = "asks" => asked' = "requested"
      /\ harness.fetch = "asksAnother" => asked' = "another"
  BY DEF Fetch
<1>4. /\ call'.phase = "answered"
      /\ call'.answer = [Answer("ok") EXCEPT !.id = IF harness.fetch = "cached" THEN "other" ELSE "right"]
  BY DEF Fetch, Reply
<1>5. /\ call'.answer.id = "right" <=> harness.fetch # "cached"
      /\ call'.answer.json = Answer("ok").json /\ call'.answer.status = Answer("ok").status
      /\ call'.answer.http = Answer("ok").http
  <2>1. DOMAIN Answer("ok") = {"http", "json", "status", "id"}
    BY DEF Answer
  <2> QED BY <1>4, <2>1
<1>6. Outcome(call.answer)' = "ok"
  <2>1. Outcome(Answer("ok")) = "ok"
    BY <1>1, ContractAnswer
  <2>2. PostOutcome(Answer("ok")) = "ok"
    BY <1>1, <2>1 DEF Outcome
  <2>3. PostOutcome(call.answer)' = PostOutcome(Answer("ok"))
    BY <1>5 DEF PostOutcome, StatusFor
  <2> QED BY <1>1, <2>2, <2>3 DEF Outcome, given
<1>7. FetchAnswered("ok")'
  BY <1>1, <1>3, <1>5 DEF FetchAnswered, given
<1>8. CallCalm'
  <2>1. FetchAnswered(Outcome(call.answer))'
    BY <1>6, <1>7 DEF FetchAnswered
  <2> QED BY <1>1, <1>2, <2>1 DEF CallCalm, TokenStep, given
<1> QED BY <1>2, <1>8

(* A port on which the SDK gets no say answers that it does not support    *)
(* what was asked.                                                         *)
LEMMA DeclineCalm ==
  ASSUME CalmState, Decline
  PROVE  SDKCalm' /\ StepsCalm' /\ CallCalm' /\ PollCalm'
<1>1. /\ UNCHANGED <<given, sdk, ln, suite>> /\ call.phase = "sent"
      /\ harness.version = 1 /\ harness.port \in {"noRoute", "unsupported"}
  BY HarnessKinds DEF Decline, Asked
<1>2. SDKCalm' /\ StepsCalm' /\ PollCalm' /\ Now' = Now
  BY <1>1, OnlyTheCall DEF sdk
<1>3. PostOutcome(call.answer)' = "unsupported"
  <2>0. DOMAIN NoAnswer = {"http", "json", "status", "id"} /\ NoAnswer.json = FALSE
    BY DEF NoAnswer
  <2>1. CASE harness.port = "noRoute"
    <3>1. call'.answer = [NoAnswer EXCEPT !.http = 404]
      BY <2>1 DEF Decline, Reply
    <3>2. call'.answer.json = FALSE /\ call'.answer.http = 404
      BY <2>0, <3>1
    <3> QED BY <3>2 DEF PostOutcome
  <2>2. CASE harness.port = "unsupported"
    <3>1. call'.answer = [NoAnswer EXCEPT !.http = 501, !.json = TRUE, !.status = "unsupported"]
      BY <2>2 DEF Decline, Reply
    <3>2. call'.answer.json = TRUE /\ call'.answer.http = 501 /\ call'.answer.status = "unsupported"
      BY <2>0, <3>1
    <3> QED BY <3>2 DEF PostOutcome, StatusFor
  <2> QED BY <1>1, <2>1, <2>2
<1>4. Outcome(call.answer)' = "unsupported"
  BY <1>1, <1>3 DEF Outcome, given
<1>5. ListenerCalm => ListenerCalm'
  BY <1>1 DEF ListenerCalm, PeerCert, given
<1>6. CallCalm'
  BY <1>1, <1>2, <1>4, <1>5 DEF CallCalm, CalmState, given
<1> QED BY <1>2, <1>6

(* What is known of the connection of a dial, when only that changes.      *)
LEMMA ListenerOnly ==
  ASSUME CalmState, UNCHANGED <<given, sdk, call, suite>>,
         Now.do = "dial" /\ call.phase # "none" =>
           /\ ListenerCalm'
           /\ ln.conn = "finished" /\ call.phase = "answered" => ln'.conn = "finished"
           /\ ln'.conn = "open" /\ call.phase = "answered" => ln.conn = "open" \/ harness.client = "stalls"
  PROVE  SDKCalm' /\ StepsCalm' /\ CallCalm' /\ PollCalm'
<1>1. SDKCalm' /\ StepsCalm' /\ PollCalm' /\ Now' = Now /\ Keys' = Keys /\ HasKeys' = HasKeys
      /\ TokenStep' = TokenStep
  BY OnlyTheCall DEF sdk
<1>2. Outcome(call.answer)' = Outcome(call.answer)
  BY OutcomeSame DEF given
<1>3. \A o : TokenAnswered(o)' = TokenAnswered(o) /\ FetchAnswered(o)' = FetchAnswered(o)
  BY <1>1 DEF TokenAnswered, FetchAnswered, given, sdk, suite
<1>4. \A o : call.phase = "answered" /\ Now.do = "dial" /\ harness.port = "contract" /\ DialAnswered(o)
             => DialAnswered(o)'
  BY DEF DialAnswered, given
<1>5. CallCalm'
  BY <1>1, <1>2, <1>3, <1>4 DEF CalmState, CallCalm, given
<1> QED BY <1>1, <1>5

LEMMA ConnectCalm ==
  ASSUME CalmState, Connect \/ Negotiate
  PROVE  SDKCalm' /\ StepsCalm' /\ CallCalm' /\ PollCalm'
<1>1. UNCHANGED <<given, sdk, call, suite>> /\ call.phase = "sent" /\ ln \in Listeners
  BY Typed DEF Connect, Negotiate, Asked
<1>2. harness.port = "contract"
  BY HarnessKinds DEF Connect, Negotiate, Asked, Working, CalmState, CallCalm, ListenerCalm
<1>3. ASSUME Now.do = "dial" PROVE ListenerCalm'
  <2>1. CASE Connect
    <3>1. ln'.conn = "open"
      BY <1>1, <2>1 DEF Connect, Listeners
    <3> QED BY <1>1, <1>2, <3>1 DEF ListenerCalm, given
  <2>2. CASE Negotiate
    <3>1. /\ ln'.conn = IF harness.judges = "rejectsAll" THEN "dropped" ELSE "finished"
          /\ ln'.server = "handshaking" /\ harness.client # "stalls"
      BY <1>1, <2>2 DEF Negotiate, Listeners
    <3> QED BY <1>1, <1>2, <3>1 DEF ListenerCalm, given
  <2> QED BY <2>1, <2>2
<1> QED BY <1>1, <1>3, ListenerOnly

LEMMA DialAnswerCalm ==
  ASSUME CalmState, DialAnswer
  PROVE  SDKCalm' /\ StepsCalm' /\ CallCalm' /\ PollCalm'
<1>1. UNCHANGED <<given, sdk, ln, suite>> /\ Now.do = "dial" /\ call.phase = "sent" /\ Dialed
  BY DEF DialAnswer, Asked
<1>2. SDKCalm' /\ StepsCalm' /\ PollCalm' /\ Now' = Now
  BY <1>1, OnlyTheCall DEF sdk
<1>3. CASE harness.port = "contract"
  <2>1. ListenerCalm
    BY <1>1, <1>3 DEF CalmState, CallCalm
  <2>2. PICK d \in {"ok", "rejected"} :
          /\ Decide(d)
          /\ d = "ok" => ln.conn = "finished"
          /\ d = "rejected" => harness.judges = "rejectsAll" \/ harness.client \in {"none", "stalls"}
          /\ ln.conn = "open" => harness.client = "stalls"
    <3>1. CASE ln.conn = "finished" /\ (harness.tls = "1.2" => ln.server = "gone")
      <4>1. Decide(IF harness.tls = "1.2" /\ ln.id = "" THEN "rejected" ELSE "ok")
        BY <1>1, <3>1 DEF Dialed
      <4>2. CASE harness.tls = "1.2" /\ ln.id = ""
        <5>1. PeerCert = ""
          BY <2>1, <3>1, <4>2 DEF ListenerCalm
        <5>2. harness.client = "none"
          BY <5>1, HarnessKinds DEF PeerCert
        <5> QED BY <3>1, <4>1, <4>2, <5>2
      <4>3. CASE ~(harness.tls = "1.2" /\ ln.id = "")
        BY <3>1, <4>1, <4>3
      <4> QED BY <4>2, <4>3
    <3>2. CASE /\ ln.conn = "dropped" \/ (ln.conn = "open" /\ harness.client = "stalls")
               /\ Decide("rejected")
      BY <2>1, <3>2 DEF ListenerCalm
    <3> QED BY <1>1, <3>1, <3>2 DEF Dialed
  <2>3. call'.phase = "answered" /\ call'.answer = Answer(d)
    BY <2>2 DEF Decide, Reply
  <2>4. /\ Outcome(call.answer)' = d
        /\ call'.answer.id = "right" <=> harness.judges # "wrongId"
    <3>1. Outcome(call.answer)' = Outcome(Answer(d))
      BY <1>1, <2>3, OutcomeSame DEF given
    <3> QED BY <1>3, <2>3, <3>1, ContractAnswer, HarnessKinds
  <2>5. DialAnswered(Outcome(call.answer))'
    BY <1>1, <2>2, <2>4 DEF DialAnswered, given
  <2>6. ListenerCalm'
    BY <1>1, <2>1 DEF ListenerCalm, PeerCert, given
  <2>7. harness.version = 1
    BY <1>1 DEF CalmState, CallCalm
  <2>8. CallCalm'
    BY <1>1, <1>2, <1>3, <2>5, <2>6, <2>7 DEF CallCalm, TokenStep, given
  <2> QED BY <1>2, <2>8
<1>4. CASE harness.port # "contract"
  <2>1. ln.conn = "none"
    BY <1>1, <1>4 DEF CalmState, CallCalm, ListenerCalm
  <2> QED BY <1>1, <2>1 DEF Dialed
<1> QED BY <1>3, <1>4

(* The goroutine of DialFromSDK.                                           *)
LEMMA ServerCalm ==
  ASSUME CalmState, Server
  PROVE  SDKCalm' /\ StepsCalm' /\ CallCalm' /\ PollCalm'
<1>1. UNCHANGED <<given, sdk, call, suite>> /\ ln \in Listeners
  BY Typed DEF Server
<1>2. /\ ln'.conn = "finished" <=> ln.conn = "finished"
      /\ ln'.conn = "open" => ln.conn = "open"
      /\ ln.conn = "finished" =>
           /\ ln.server = "handshaking" => ln'.server = "gone" /\ ln'.id = PeerCert
           /\ ln.server = "gone" => FALSE
      /\ ln.conn = "none" => ln'.conn = "none"
      /\ ln'.conn = "dropped" =>
           ln.conn = "dropped" \/ harness.client = "stalls" \/ call.phase # "sent"
      /\ ln'.conn = "dropped" => ln.conn \in {"dropped", "open"}
  <2>1. CASE Accept
    BY <1>1, <2>1 DEF Accept, Listeners
  <2>2. CASE AcceptFails
    BY <1>1, <2>2 DEF AcceptFails, Listeners
  <2>3. CASE Verify
    BY <1>1, <2>3 DEF Verify, Listeners
  <2>4. CASE HandshakeFails
    BY <1>1, <2>4 DEF HandshakeFails, Listeners, CalmState
  <2> QED BY <2>1, <2>2, <2>3, <2>4 DEF Server
<1>3. ASSUME Now.do = "dial", call.phase # "none" PROVE ListenerCalm'
  <2>1. ListenerCalm
    BY <1>3 DEF CalmState, CallCalm
  <2>2. PeerCert' = PeerCert
    BY <1>1 DEF PeerCert, given
  <2>3. ln.conn = "open" /\ call.phase # "sent" => harness.client = "stalls"
    <3>1. ln.conn = "open" => harness.port = "contract"
      BY <2>1 DEF ListenerCalm
    <3>2. call.phase # "sent" => call.phase = "answered"
      BY <1>3, Typed
    <3> QED BY <1>3, <3>1, <3>2 DEF CalmState, CallCalm, DialAnswered
  <2>4. ln'.conn = "finished" => ln'.server = "gone" /\ ln'.id = PeerCert
    BY <1>2, <2>1 DEF ListenerCalm
  <2> QED BY <1>1, <1>2, <2>1, <2>2, <2>3, <2>4 DEF ListenerCalm, given
<1> QED BY <1>1, <1>2, <1>3, ListenerOnly

-----------------------------------------------------------------------------
(* The test.                                                               *)

(* No call is under way.                                                   *)
LEMMA NoCallCalm ==
  ASSUME call'.phase = "none" PROVE CallCalm'
  BY DEF CallCalm

LEMMA ServeCalm ==
  ASSUME CalmState, VerdictRight, Serve
  PROVE  SDKCalm' /\ StepsCalm' /\ CallCalm' /\ PollCalm' /\ VerdictRight'
<1>1. /\ UNCHANGED <<given, delivered, trusted, up, asked, call, ln, late, fresh>>
      /\ pc = "step" /\ Now.do = "serve" /\ current' = Now.what /\ Proceed
  BY DEF Serve
<1>2. /\ Now.what = StateAt(test, at + 1) /\ at + 1 # Len(Script(test))
      /\ at = 0 \/ (at = 2 /\ test = "J13")
  BY <1>1, ServeSteps DEF CalmState
<1>3. at' = at + 1 /\ pc' = "step" /\ verdict' = verdict
  BY <1>1, <1>2 DEF Proceed
<1>4. SDKCalm'
  BY <1>1, <1>2, <1>3 DEF CalmState, SDKCalm, given
<1>5. StepsCalm'
  BY <1>1, <1>2, <1>3 DEF CalmState, StepsCalm, HasKeys, given
<1>6. CallCalm'
  BY <1>1, NoCallCalm DEF CalmState, InFlight
<1>7. PollCalm'
  BY <1>1, <1>3 DEF CalmState, PollCalm, Able, given
<1>8. VerdictRight'
  BY <1>1, <1>3, VerdictStays
<1> QED BY <1>4, <1>5, <1>6, <1>7, <1>8

(* A test that ends with the verdict expected of it.                       *)
LEMMA ConcludeCalm ==
  ASSUME CalmState, Conclude(Expected), UNCHANGED <<given, sdk, late, fresh>>, call'.phase = "none"
  PROVE  SDKCalm' /\ StepsCalm' /\ CallCalm' /\ PollCalm' /\ VerdictRight'
<1>1. verdict' = Expected /\ pc' = "done" /\ at' = at
  BY DEF Conclude
<1>2. SDKCalm'
  BY <1>1 DEF CalmState, SDKCalm, given, sdk
<1>3. StepsCalm'
  BY <1>1 DEF CalmState, StepsCalm, HasKeys, Keys, given, sdk
<1>4. CallCalm'
  BY NoCallCalm
<1>5. PollCalm'
  BY <1>1 DEF CalmState, PollCalm, Able, given
<1>6. VerdictRight'
  <2>1. Expected' = Expected
    BY DEF Expected, Skipped, Conforms, given
  <2> QED BY <1>1, <2>1 DEF VerdictRight
<1> QED BY <1>2, <1>3, <1>4, <1>5, <1>6

LEMMA NeedsControlCalm ==
  ASSUME CalmState, NeedsControl
  PROVE  SDKCalm' /\ StepsCalm' /\ CallCalm' /\ PollCalm' /\ VerdictRight'
<1>1. /\ UNCHANGED <<given, sdk, call, late, fresh>> /\ pc = "step" /\ Conclude("SKIP")
      /\ Now.do \in {"fetch", "dial"} /\ harness.version = 0
  BY DEF NeedsControl
<1>2. test \in {"JF-1", "XV-1/client"}
  BY <1>1, OtherSteps DEF CalmState
<1>3. Expected = "SKIP"
  BY <1>1, <1>2 DEF Expected, Skipped
<1>4. call'.phase = "none"
  BY <1>1 DEF CalmState, InFlight
<1> QED BY <1>1, <1>3, <1>4, ConcludeCalm

LEMMA StartCallCalm ==
  ASSUME CalmState, VerdictRight, StartCall
  PROVE  SDKCalm' /\ StepsCalm' /\ CallCalm' /\ PollCalm' /\ VerdictRight'
<1>1. /\ UNCHANGED <<given, sdk, at, verdict>> /\ pc' = "calling"
      /\ Now.do \in {"fetch", "dial"} => harness.version = 1
      /\ call' = [NoCall EXCEPT !.phase = "sent"]
      /\ ln' = IF Now.do = "dial" THEN Listening ELSE ln
      /\ (late' <=> late /\ pc = "pause") /\ (fresh' <=> delivered = current)
  BY Typed DEF StartCall
<1>2. call'.phase = "sent" /\ Now' = Now
  BY <1>1 DEF NoCall, Now, given
<1>3. SDKCalm'
  BY <1>1 DEF CalmState, SDKCalm, given, sdk
<1>4. StepsCalm'
  BY <1>1 DEF CalmState, StepsCalm, HasKeys, Keys, given, sdk
<1>5. CallCalm'
  <2>1. Now.do = "dial" => ListenerCalm'
    BY <1>1 DEF ListenerCalm, Listening
  <2> QED BY <1>1, <1>2, <2>1 DEF CallCalm, given
<1>6. PollCalm'
  BY <1>1 DEF CalmState, PollCalm, Able, given, sdk
<1>7. VerdictRight'
  BY <1>1, VerdictStays
<1> QED BY <1>3, <1>4, <1>5, <1>6, <1>7

LEMMA AwaitServerCalm ==
  ASSUME CalmState, VerdictRight, AwaitServer
  PROVE  SDKCalm' /\ StepsCalm' /\ CallCalm' /\ PollCalm' /\ VerdictRight'
<1>1. /\ UNCHANGED <<given, sdk, call, at, late, fresh, verdict>>
      /\ pc = "calling" /\ pc' = "waiting" /\ ln' = [ln EXCEPT !.open = FALSE]
  BY DEF AwaitServer
<1>2. ln'.conn = ln.conn /\ ln'.server = ln.server /\ ln'.id = ln.id
  BY <1>1, Typed DEF Listeners
<1>3. Now' = Now /\ TokenStep' = TokenStep /\ Keys' = Keys /\ HasKeys' = HasKeys
  BY <1>1 DEF Now, TokenStep, Keys, HasKeys, given, sdk
<1>4. SDKCalm' /\ StepsCalm'
  BY <1>1, <1>3 DEF CalmState, SDKCalm, StepsCalm, given, sdk
<1>5. CallCalm'
  <2>1. Outcome(call.answer)' = Outcome(call.answer)
    BY <1>1, OutcomeSame DEF given
  <2>2. ListenerCalm' = ListenerCalm
    BY <1>1, <1>2 DEF ListenerCalm, PeerCert, given
  <2>3. \A o : /\ TokenAnswered(o)' = TokenAnswered(o) /\ FetchAnswered(o)' = FetchAnswered(o)
               /\ DialAnswered(o)' = DialAnswered(o)
    BY <1>1, <1>2, <1>3 DEF TokenAnswered, FetchAnswered, DialAnswered, given, sdk
  <2> QED BY <1>1, <1>3, <2>1, <2>2, <2>3 DEF CalmState, CallCalm, given
<1>6. PollCalm'
  BY <1>1, <1>3 DEF CalmState, PollCalm, Able, given, sdk
<1>7. VerdictRight'
  BY <1>1, VerdictStays
<1> QED BY <1>4, <1>5, <1>6, <1>7

LEMMA DeadlineCalm ==
  ASSUME CalmState, VerdictRight, Deadline
  PROVE  SDKCalm' /\ StepsCalm' /\ CallCalm' /\ PollCalm' /\ VerdictRight'
<1>1. /\ UNCHANGED <<given, sdk, call, ln, at, pc, fresh, verdict>>
      /\ pc = "pause" /\ fresh /\ Now.do = "poll" /\ call.phase = "none"
  BY DEF Deadline, CalmState, InFlight
<1>2. ~Able
  BY <1>1 DEF CalmState, PollCalm
<1>3. Now' = Now /\ Keys' = Keys /\ HasKeys' = HasKeys /\ Able' = Able
  BY <1>1 DEF Now, Keys, HasKeys, Able, given, sdk
<1>4. SDKCalm' /\ StepsCalm'
  BY <1>1, <1>3 DEF CalmState, SDKCalm, StepsCalm, given, sdk
<1>5. CallCalm'
  BY <1>1, NoCallCalm
<1>6. PollCalm'
  BY <1>1, <1>2, <1>3 DEF CalmState, PollCalm, sdk
<1>7. VerdictRight'
  BY <1>1, VerdictStays
<1> QED BY <1>4, <1>5, <1>6, <1>7

-----------------------------------------------------------------------------
(* What the catalogue expects, without its order of cases.                 *)
LEMMA Expectations ==
  ASSUME CalmState, harness.port = "contract"
  PROVE  /\ test = "J1" =>
              Expected = IF harness.judges \in {"right", "acceptsAll"} THEN "PASS" ELSE "FAIL"
         /\ test \in NegativeTests \cup {"J9"} =>
              Expected = IF harness.judges = "right" THEN "PASS" ELSE "FAIL"
         /\ test = "J13" => Expected = IF Able THEN "PASS" ELSE "FAIL"
         /\ test = "JF-1" /\ harness.version = 1 =>
              Expected = IF harness.fetch = "asks" THEN "PASS" ELSE "FAIL"
         /\ test = "XV-1/client" /\ harness.version = 1 =>
              Expected = IF harness.client = "default" /\ harness.judges \in {"right", "acceptsAll"}
                         THEN "PASS" ELSE "FAIL"
<1>1. test \in NegativeTests => test \notin {"J1", "J9", "J13", "JF-1", "XV-1/client"}
  BY DEF NegativeTests
<1>2. test \notin {"JF-1", "XV-1/client"} \/ harness.version = 1 => ~Skipped
  BY HarnessKinds DEF Skipped
<1>3. CASE test = "J1"
  <2>1. Conforms <=> harness.judges \in {"right", "acceptsAll"}
    BY <1>1, <1>3 DEF Conforms
  <2> QED BY <1>1, <1>2, <1>3, <2>1 DEF Expected
<1>4. CASE test \in NegativeTests \cup {"J9"}
  <2>1. Conforms <=> harness.judges = "right"
    BY <1>1, <1>4 DEF Conforms
  <2> QED BY <1>1, <1>2, <1>4, <2>1 DEF Expected
<1>5. CASE test = "J13"
  <2>1. Conforms <=> Able
    BY <1>1, <1>5 DEF Conforms, Able
  <2> QED BY <1>1, <1>2, <1>5, <2>1 DEF Expected
<1>6. CASE test = "JF-1"
  <2>1. Conforms <=> harness.fetch = "asks"
    BY <1>1, <1>6 DEF Conforms
  <2> QED BY <1>1, <1>2, <1>6, <2>1 DEF Expected
<1>7. CASE test = "XV-1/client"
  <2>1. Conforms <=> harness.client = "default" /\ harness.judges \in {"right", "acceptsAll"}
    BY <1>1, <1>7 DEF Conforms
  <2> QED BY <1>1, <1>2, <1>7, <2>1 DEF Expected
<1> QED BY <1>1, <1>3, <1>4, <1>5, <1>6, <1>7

(* A call of the script has succeeded, which tells what StepsCalm says.    *)
LEMMA GoOnCalm ==
  ASSUME CalmState, VerdictRight, UNCHANGED <<given, sdk, late, fresh>>, call'.phase = "none",
         at + 1 # Len(Script(test)), Proceed, StateAt(test, at + 1) = current,
         harness.port = "contract", harness.judges \in {"right", "acceptsAll"}, HasKeys,
         at + 1 >= 3 /\ test = "J9" => harness.judges = "right",
         at + 1 = 4 /\ harness.judges = "right" => "newKey" \in Keys
  PROVE  SDKCalm' /\ StepsCalm' /\ CallCalm' /\ PollCalm' /\ VerdictRight'
<1>1. at' = at + 1 /\ pc' = "step" /\ verdict' = verdict
  BY DEF Proceed
<1>2. SDKCalm'
  BY <1>1 DEF CalmState, SDKCalm, given, sdk
<1>3. HasKeys' /\ Keys' = Keys
  BY DEF HasKeys, Keys, given, sdk
<1>4. StepsCalm'
  BY <1>1, <1>3 DEF StepsCalm, given
<1>5. PollCalm'
  BY <1>1 DEF CalmState, PollCalm, Able, given
<1> QED BY <1>1, <1>2, <1>4, <1>5, NoCallCalm, VerdictStays

(* An answer under the contract passes the step or fails it.               *)
LEMMA Judged ==
  ASSUME CalmState, Answered, harness.port = "contract"
  PROVE  LET o == Outcome(call.answer)
         IN  /\ UNCHANGED <<given, sdk, late, fresh>> /\ call'.phase = "none"
             /\ call.phase = "answered" /\ o \in {"ok", "rejected"}
             /\ Passes(o, call.answer) => Proceed
             /\ ~Passes(o, call.answer) /\ Now.do = "poll" /\ ~late =>
                  pc' = "pause" /\ UNCHANGED <<at, verdict>>
             /\ ~Passes(o, call.answer) /\ ~(Now.do = "poll" /\ ~late) => Conclude("FAIL")
             /\ Now.do = "dial" => ln.server = "gone"
<1> DEFINE o == Outcome(call.answer)
<1>1. /\ UNCHANGED <<given, sdk, late, fresh>> /\ call'.phase = "none"
      /\ call.phase = "answered" /\ Judge(o, call.answer)
      /\ Now.do = "dial" => o = "failure" \/ ln.server = "gone"
  BY DEF Answered, NoCall, Waited
<1>2. Now.do \in {"accept", "reject", "poll", "fetch", "dial"}
  BY <1>1, ThisStep DEF CalmState, InFlight, Kinds
<1>3. o \in {"ok", "rejected"}
  BY <1>1, <1>2 DEF CalmState, CallCalm, TokenStep, TokenAnswered, FetchAnswered, DialAnswered
<1> HIDE DEF o
<1>4. ~Fails(o) /\ o # "unsupported"
  BY <1>3 DEF Fails
<1>5. /\ Passes(o, call.answer) => Proceed
      /\ ~Passes(o, call.answer) /\ Now.do = "poll" /\ ~late => pc' = "pause" /\ UNCHANGED <<at, verdict>>
      /\ ~Passes(o, call.answer) /\ ~(Now.do = "poll" /\ ~late) => Conclude("FAIL")
  BY <1>1, <1>4 DEF Judge
<1> USE DEF o
<1> QED BY <1>1, <1>3, <1>5

LEMMA AcceptCalmly ==
  ASSUME CalmState, VerdictRight, Answered, harness.port = "contract", Now.do = "accept"
  PROVE  SDKCalm' /\ StepsCalm' /\ CallCalm' /\ PollCalm' /\ VerdictRight'
<1> DEFINE o == Outcome(call.answer)
<1>1. /\ UNCHANGED <<given, sdk, late, fresh>> /\ call'.phase = "none"
      /\ o \in {"ok", "rejected"} /\ call.phase = "answered"
      /\ Passes(o, call.answer) => Proceed
      /\ ~Passes(o, call.answer) /\ ~(Now.do = "poll" /\ ~late) => Conclude("FAIL")
      /\ ~Passes(o, call.answer) /\ Now.do = "poll" /\ ~late => pc' = "pause" /\ UNCHANGED <<at, verdict>>
      /\ Now.do = "dial" => ln.server = "gone"
  BY Judged
<1>2. TokenAnswered(o)
  BY <1>1 DEF CalmState, CallCalm, TokenStep
<1> HIDE DEF o
<1>3. /\ at = 1 /\ Now.what = "oldKey" /\ test \in TokenTests /\ current = 2
      /\ at + 1 = Len(Script(test)) <=> test = "J1"
      /\ StateAt(test, at + 1) = 2
  <2>1. /\ at = 1 /\ Now.what = "oldKey" /\ test \in TokenTests
        /\ at + 1 = Len(Script(test)) <=> test = "J1"
    BY AcceptSteps DEF CalmState
  <2>2. StateAt(test, 1) = 2 /\ StateAt(test, 2) = 2
    BY <2>1 DEF StateAt, TokenTests, NegativeTests
  <2> QED BY <2>1, <2>2 DEF CalmState, SDKCalm
<1>4. "oldKey" \in Keys
  <2>1. CASE harness.bundle = "delegates"
    BY <1>3, <2>1, KeysAre
  <2>2. CASE harness.bundle # "delegates"
    <3>1. delivered # 0 /\ delivered # 3
      BY <1>2, <1>3, <2>2, Typed DEF TokenAnswered, HasKeys
    <3> QED BY <2>2, <3>1, KeysAre DEF CalmState, SDKCalm
  <2> QED BY <2>1, <2>2
<1>5. Passes(o, call.answer) <=> harness.judges \in {"right", "acceptsAll"}
  <2>1. Passes(o, call.answer) <=> o = "ok" /\ call.answer.id = "right"
    BY DEF Passes
  <2>2. harness.judges \in {"right", "wrongId"} => o = "ok"
    BY <1>1, <1>2, <1>3, <1>4 DEF TokenAnswered
  <2> QED BY <1>2, <2>1, <2>2, HarnessKinds DEF TokenAnswered
<1>6. CASE Passes(o, call.answer) /\ test = "J1"
  <2>1. Conclude("PASS")
    BY <1>1, <1>3, <1>6 DEF Proceed
  <2>2. Expected = "PASS"
    BY <1>5, <1>6, Expectations
  <2> QED BY <1>1, <2>1, <2>2, ConcludeCalm
<1>7. CASE Passes(o, call.answer) /\ test # "J1"
  BY <1>1, <1>2, <1>3, <1>5, <1>7, GoOnCalm DEF TokenAnswered
<1>8. CASE ~Passes(o, call.answer)
  <2>1. Expected = "FAIL"
    BY <1>3, <1>5, <1>8, Expectations DEF TokenTests, Able
  <2> QED BY <1>1, <1>8, <2>1, ConcludeCalm
<1> QED BY <1>6, <1>7, <1>8

LEMMA RejectCalmly ==
  ASSUME CalmState, VerdictRight, Answered, harness.port = "contract", Now.do = "reject"
  PROVE  SDKCalm' /\ StepsCalm' /\ CallCalm' /\ PollCalm' /\ VerdictRight'
<1> DEFINE o == Outcome(call.answer)
<1>1. /\ UNCHANGED <<given, sdk, late, fresh>> /\ call'.phase = "none"
      /\ o \in {"ok", "rejected"} /\ call.phase = "answered"
      /\ Passes(o, call.answer) => Proceed
      /\ ~Passes(o, call.answer) /\ ~(Now.do = "poll" /\ ~late) => Conclude("FAIL")
      /\ ~Passes(o, call.answer) /\ Now.do = "poll" /\ ~late => pc' = "pause" /\ UNCHANGED <<at, verdict>>
      /\ Now.do = "dial" => ln.server = "gone"
  BY Judged
<1>2. TokenAnswered(o)
  BY <1>1 DEF CalmState, CallCalm, TokenStep
<1> HIDE DEF o
<1>3. Passes(o, call.answer) <=> o = "rejected"
  BY DEF Passes
<1>4. at >= 2 /\ harness.judges \in {"right", "acceptsAll"}
  BY RejectSteps DEF CalmState, StepsCalm
<1>5. harness.judges = "right" => (o = "ok" <=> Now.what \in Keys)
  BY <1>1, <1>2 DEF TokenAnswered
<1>6. harness.judges = "acceptsAll" => o = "ok"
  BY <1>2 DEF TokenAnswered
<1>7. CASE Now.what = "noKey"
  <2>1. /\ at \in {2, 3} /\ test \in NegativeTests \cup {"J9"} /\ test \notin {"J1", "J13"}
        /\ at = 3 => test = "J9" /\ at + 1 = Len(Script(test))
        /\ at = 2 => (at + 1 = Len(Script(test)) <=> test # "J9")
    BY <1>7, RejectSteps DEF CalmState
  <2>2. Passes(o, call.answer) <=> harness.judges = "right"
    BY <1>1, <1>3, <1>4, <1>5, <1>6, <1>7, KeysAre
  <2>3. CASE Passes(o, call.answer) /\ at + 1 = Len(Script(test))
    <3>1. Conclude("PASS") /\ Expected = "PASS"
      BY <1>1, <2>1, <2>2, <2>3, Expectations DEF Proceed
    <3> QED BY <1>1, <3>1, ConcludeCalm
  <2>4. CASE Passes(o, call.answer) /\ at + 1 # Len(Script(test))
    <3>1. at = 2 /\ test = "J9" /\ StateAt(test, at + 1) = current
      BY <2>1, <2>4 DEF StateAt, CalmState, SDKCalm
    <3> QED BY <1>1, <1>2, <2>2, <2>4, <3>1, GoOnCalm DEF TokenAnswered
  <2>5. CASE ~Passes(o, call.answer)
    <3>1. Expected = "FAIL"
      BY <2>1, <2>2, <2>5, Expectations
    <3> QED BY <1>1, <2>5, <3>1, ConcludeCalm
  <2> QED BY <2>3, <2>4, <2>5
<1>8. CASE Now.what # "noKey"
  <2>1. at = 4 /\ Now.what = "oldKey" /\ test = "J13" /\ at + 1 = Len(Script(test)) /\ current = 3
    BY <1>8, RejectSteps DEF CalmState, SDKCalm, StateAt
  <2>2. Passes(o, call.answer) <=> Able
    <3>1. CASE harness.judges = "acceptsAll"
      BY <1>3, <1>6, <3>1 DEF Able
    <3>2. CASE harness.judges = "right" /\ harness.bundle = "delegates"
      BY <1>1, <1>3, <1>5, <2>1, <3>2, KeysAre DEF Able
    <3>3. CASE harness.judges = "right" /\ harness.bundle # "delegates"
      <4>1. "newKey" \in trusted /\ Keys = trusted
        BY <2>1, <3>3, KeysAre DEF CalmState, StepsCalm
      <4>2. delivered = 3 /\ harness.bundle # "ignores"
        BY <4>1 DEF CalmState, SDKCalm
      <4>3. "oldKey" \in Keys <=> harness.bundle = "merges"
        BY <4>1, <4>2 DEF CalmState, SDKCalm
      <4> QED BY <1>1, <1>3, <1>5, <2>1, <3>3, <4>2, <4>3, HarnessKinds DEF Able
    <3> QED BY <1>4, <3>1, <3>2, <3>3
  <2>3. CASE Passes(o, call.answer)
    <3>1. Conclude("PASS") /\ Expected = "PASS"
      BY <1>1, <2>1, <2>2, <2>3, Expectations DEF Proceed
    <3> QED BY <1>1, <3>1, ConcludeCalm
  <2>4. CASE ~Passes(o, call.answer)
    <3>1. Expected = "FAIL"
      BY <2>1, <2>2, <2>4, Expectations
    <3> QED BY <1>1, <2>4, <3>1, ConcludeCalm
  <2> QED BY <2>3, <2>4
<1> QED BY <1>7, <1>8

LEMMA PollCalmly ==
  ASSUME CalmState, VerdictRight, Answered, harness.port = "contract", Now.do = "poll"
  PROVE  SDKCalm' /\ StepsCalm' /\ CallCalm' /\ PollCalm' /\ VerdictRight'
<1> DEFINE o == Outcome(call.answer)
<1>1. /\ UNCHANGED <<given, sdk, late, fresh>> /\ call'.phase = "none"
      /\ o \in {"ok", "rejected"} /\ call.phase = "answered"
      /\ Passes(o, call.answer) => Proceed
      /\ ~Passes(o, call.answer) /\ ~(Now.do = "poll" /\ ~late) => Conclude("FAIL")
      /\ ~Passes(o, call.answer) /\ Now.do = "poll" /\ ~late => pc' = "pause" /\ UNCHANGED <<at, verdict>>
      /\ Now.do = "dial" => ln.server = "gone"
  BY Judged
<1>2. TokenAnswered(o)
  BY <1>1 DEF CalmState, CallCalm, TokenStep
<1> HIDE DEF o
<1>3. /\ at = 3 /\ test = "J13" /\ Now.what = "newKey" /\ Len(Script(test)) = 5 /\ current = 3
      /\ StateAt(test, 4) = 3
  BY OtherSteps DEF CalmState, SDKCalm, StateAt
<1>4. Passes(o, call.answer) <=> o = "ok"
  BY DEF Passes
<1>5. harness.judges \in {"right", "acceptsAll"} /\ HasKeys
  BY <1>3 DEF CalmState, StepsCalm
<1>6. CASE o = "ok"
  <2>1. harness.judges = "right" => "newKey" \in Keys
    BY <1>2, <1>3, <1>6 DEF TokenAnswered
  <2> QED BY <1>1, <1>3, <1>4, <1>5, <1>6, <2>1, GoOnCalm
<1>7. CASE o = "rejected" /\ late
  <2>1. ~Able
    BY <1>7 DEF CalmState, PollCalm
  <2>2. Expected = "FAIL"
    BY <1>3, <2>1, Expectations
  <2> QED BY <1>1, <1>4, <1>7, <2>2, ConcludeCalm
<1>8. CASE o = "rejected" /\ ~late
  <2>1. pc' = "pause" /\ at' = at /\ verdict' = verdict
    BY <1>1, <1>4, <1>8
  <2>2. fresh => delivered = current
    BY <1>1 DEF CalmState, PollCalm, InFlight
  <2>3. Able => ~fresh
    <3> SUFFICES ASSUME Able, fresh PROVE FALSE
      OBVIOUS
    <3>1. "newKey" \notin Keys
      BY <1>2, <1>3, <1>8 DEF TokenAnswered, Able
    <3>2. "newKey" \in Keys
      BY <1>3, <2>2, KeysAre DEF Able, CalmState, SDKCalm
    <3> QED BY <3>1, <3>2
  <2>4. /\ Now' = Now /\ Keys' = Keys /\ HasKeys' = HasKeys /\ (Able' <=> Able)
    BY <1>1, <2>1 DEF Now, Keys, HasKeys, Able, given, sdk
  <2>5. SDKCalm' /\ StepsCalm'
    BY <1>1, <2>1, <2>4 DEF CalmState, SDKCalm, StepsCalm, given, sdk
  <2>6. PollCalm'
    BY <1>1, <1>8, <2>1, <2>2, <2>3, <2>4 DEF PollCalm, sdk
  <2> QED BY <1>1, <2>1, <2>5, <2>6, NoCallCalm, VerdictStays
<1> QED BY <1>1, <1>6, <1>7, <1>8

LEMMA FetchCalmly ==
  ASSUME CalmState, VerdictRight, Answered, harness.port = "contract", Now.do = "fetch"
  PROVE  SDKCalm' /\ StepsCalm' /\ CallCalm' /\ PollCalm' /\ VerdictRight'
<1> DEFINE o == Outcome(call.answer)
<1>1. /\ UNCHANGED <<given, sdk, late, fresh>> /\ call'.phase = "none"
      /\ o \in {"ok", "rejected"} /\ call.phase = "answered"
      /\ Passes(o, call.answer) => Proceed
      /\ ~Passes(o, call.answer) /\ ~(Now.do = "poll" /\ ~late) => Conclude("FAIL")
      /\ ~Passes(o, call.answer) /\ Now.do = "poll" /\ ~late => pc' = "pause" /\ UNCHANGED <<at, verdict>>
      /\ Now.do = "dial" => ln.server = "gone"
  BY Judged
<1>2. FetchAnswered(o) /\ harness.version = 1
  BY <1>1 DEF CalmState, CallCalm
<1> HIDE DEF o
<1>3. test = "JF-1" /\ Now.what = "requested" /\ at + 1 = Len(Script(test))
  BY OtherSteps DEF CalmState
<1>4. Passes(o, call.answer) <=> harness.fetch = "asks"
  <2>1. Passes(o, call.answer) <=> o = "ok" /\ call.answer.id = "right" /\ asked = "requested"
    BY <1>3 DEF Passes
  <2> QED BY <1>2, <2>1, HarnessKinds DEF FetchAnswered
<1>5. Expected = IF harness.fetch = "asks" THEN "PASS" ELSE "FAIL"
  BY <1>2, <1>3, Expectations
<1>6. CASE Passes(o, call.answer)
  <2>1. Conclude("PASS")
    BY <1>1, <1>3, <1>6 DEF Proceed
  <2> QED BY <1>1, <1>4, <1>5, <1>6, <2>1, ConcludeCalm
<1>7. CASE ~Passes(o, call.answer)
  BY <1>1, <1>4, <1>5, <1>7, ConcludeCalm
<1> QED BY <1>6, <1>7

LEMMA DialCalmly ==
  ASSUME CalmState, VerdictRight, Answered, harness.port = "contract", Now.do = "dial"
  PROVE  SDKCalm' /\ StepsCalm' /\ CallCalm' /\ PollCalm' /\ VerdictRight'
<1> DEFINE o == Outcome(call.answer)
<1>1. /\ UNCHANGED <<given, sdk, late, fresh>> /\ call'.phase = "none"
      /\ o \in {"ok", "rejected"} /\ call.phase = "answered"
      /\ Passes(o, call.answer) => Proceed
      /\ ~Passes(o, call.answer) /\ ~(Now.do = "poll" /\ ~late) => Conclude("FAIL")
      /\ ~Passes(o, call.answer) /\ Now.do = "poll" /\ ~late => pc' = "pause" /\ UNCHANGED <<at, verdict>>
      /\ Now.do = "dial" => ln.server = "gone"
  BY Judged
<1>2. DialAnswered(o) /\ ListenerCalm /\ harness.version = 1
  BY <1>1 DEF CalmState, CallCalm
<1> HIDE DEF o
<1>3. test = "XV-1/client" /\ Now.what = "default" /\ at + 1 = Len(Script(test))
  BY OtherSteps DEF CalmState
<1>4. Passes(o, call.answer) <=>
        harness.client = "default" /\ harness.judges \in {"right", "acceptsAll"}
  <2>1. Passes(o, call.answer) <=> o = "ok" /\ call.answer.id = "right" /\ ln.id = "default"
    BY <1>3 DEF Passes
  <2>2. CASE o = "ok"
    <3>1. ln.id = PeerCert /\ harness.judges # "rejectsAll" /\ harness.client # "stalls"
      BY <1>1, <1>2, <2>2 DEF DialAnswered, ListenerCalm
    <3>2. ln.id = "default" <=> harness.client = "default"
      BY <3>1, HarnessKinds DEF PeerCert
    <3> QED BY <1>2, <2>1, <2>2, <3>1, <3>2, HarnessKinds DEF DialAnswered
  <2>3. CASE o = "rejected"
    <3>1. harness.judges = "rejectsAll" \/ harness.client \in {"none", "stalls"}
      BY <1>2, <2>3 DEF DialAnswered
    <3> QED BY <2>1, <2>3, <3>1
  <2> QED BY <1>1, <2>2, <2>3
<1>5. Expected = IF harness.client = "default" /\ harness.judges \in {"right", "acceptsAll"}
                 THEN "PASS" ELSE "FAIL"
  BY <1>2, <1>3, Expectations
<1>6. CASE Passes(o, call.answer)
  <2>1. Conclude("PASS")
    BY <1>1, <1>3, <1>6 DEF Proceed
  <2> QED BY <1>1, <1>4, <1>5, <1>6, <2>1, ConcludeCalm
<1>7. CASE ~Passes(o, call.answer)
  BY <1>1, <1>4, <1>5, <1>7, ConcludeCalm
<1> QED BY <1>6, <1>7

LEMMA AnsweredCalm ==
  ASSUME CalmState, VerdictRight, Answered
  PROVE  SDKCalm' /\ StepsCalm' /\ CallCalm' /\ PollCalm' /\ VerdictRight'
<1>1. CASE harness.port # "contract"
  <2>1. /\ UNCHANGED <<given, sdk, late, fresh>> /\ call'.phase = "none" /\ call.phase = "answered"
        /\ Judge(Outcome(call.answer), call.answer)
    BY DEF Answered, NoCall
  <2>2. Outcome(call.answer) = "unsupported"
    BY <1>1, <2>1 DEF CalmState, CallCalm
  <2>3. Conclude("SKIP")
    BY <2>1, <2>2 DEF Judge
  <2>4. Expected = "SKIP"
    BY <1>1, HarnessKinds DEF Expected, Skipped
  <2> QED BY <2>1, <2>3, <2>4, ConcludeCalm
<1>2. CASE harness.port = "contract"
  <2>1. Now.do \in {"accept", "reject", "poll", "fetch", "dial"}
    BY <1>2, ThisStep, Judged DEF CalmState, InFlight, Kinds
  <2> QED BY <1>2, <2>1, AcceptCalmly, RejectCalmly, PollCalmly, FetchCalmly, DialCalmly
<1> QED BY <1>1, <1>2

-----------------------------------------------------------------------------
LEMMA RespondCalm ==
  ASSUME CalmState, VerdictRight, Respond \/ Server
  PROVE  SDKCalm' /\ StepsCalm' /\ CallCalm' /\ PollCalm' /\ VerdictRight'
<1>1. UNCHANGED <<given, verdict>>
  BY DEF Respond, Server, Validate, Fetch, Connect, Negotiate, DialAnswer, Decline, suite
<1>2. VerdictRight'
  BY <1>1, VerdictStays
<1> QED BY <1>2, ValidateCalm, FetchCalm, ConnectCalm, DialAnswerCalm, DeclineCalm, ServerCalm DEF Respond

(* CalmInv holds throughout every run of a test: in a calm one on a        *)
(* harness that keeps the contract the keys the SDK trusts follow from the *)
(* bundles it has received, an answer on its way tells the SDK's decision  *)
(* with those keys, a connection tells what the client is, and an SDK that *)
(* takes the new key never makes J13 late.                                 *)
THEOREM CalmInvariant == Spec => [](CalmInv /\ VerdictRight)
<1>1. Init => CalmInv /\ VerdictRight
  <2> SUFFICES ASSUME Init PROVE CalmInv /\ VerdictRight
    OBVIOUS
  <2>1. /\ current = 1 /\ up = TRUE /\ at = 0 /\ pc = "step" /\ late = FALSE /\ verdict = "none"
        /\ call.phase = "none" /\ delivered \in {0, 1}
        /\ trusted = IF delivered = 0 THEN {} ELSE {"oldKey"}
    BY DEF Init, NoCall
  <2>2. SDKCalm
    BY <2>1 DEF SDKCalm, StateAt
  <2>3. StepsCalm /\ CallCalm /\ PollCalm /\ VerdictRight
    BY <2>1 DEF StepsCalm, CallCalm, PollCalm, VerdictRight
  <2> QED BY <2>2, <2>3 DEF CalmInv
<1>2. TypeOK /\ VerdictInv /\ CalmInv /\ VerdictRight /\ [Next]_vars => (CalmInv /\ VerdictRight)'
  <2> SUFFICES ASSUME TypeOK, VerdictInv, CalmInv, VerdictRight, [Next]_vars
               PROVE  CalmInv' /\ VerdictRight'
    OBVIOUS
  <2>1. UNCHANGED given
    BY DEF Next, vars, Receive, Refresh, Crash, Respond, Validate, Fetch, Connect, Negotiate, DialAnswer,
           Decline, Server, Suite, Serve, NeedsControl, StartCall, CallFails, Answered, AwaitServer, Cancel,
           Deadline
  <2>2. CASE ~(calm /\ KeepsContract)
    <3>1. ~(calm' /\ KeepsContract')
      BY <2>1, <2>2 DEF KeepsContract, given
    <3> QED BY <3>1 DEF CalmInv, VerdictRight
  <2>3. CASE calm /\ KeepsContract
    <3>1. CalmState
      BY <2>3 DEF CalmState, CalmInv, VerdictInv
    <3>2. CASE UNCHANGED vars
      <4>1. UNCHANGED <<given, sdk, call, ln, suite, verdict>>
        BY <3>2 DEF vars, suite
      <4>2. /\ SDKCalm' /\ StepsCalm' /\ PollCalm'
            /\ Now' = Now /\ Keys' = Keys /\ HasKeys' = HasKeys
        BY <3>1, <4>1, OnlyTheCall DEF sdk
      <4>3. \A o : TokenAnswered(o) => TokenAnswered(o)'
        BY <4>1, <4>2 DEF TokenAnswered, given, suite
      <4>4. CallCalm'
        BY <3>1, <4>1, <4>3, CallKept DEF sdk, suite
      <4> QED BY <4>1, <4>2, <4>4, VerdictStays DEF CalmInv
    <3>3. CASE Next
      <4>1. ~Refresh /\ ~Crash /\ ~CallFails /\ ~Cancel
        BY <2>3, <3>1 DEF Refresh, Crash, CallFails, Unanswered, Cancel, KeepsContract, CalmState, SDKCalm
      <4>2. CASE Receive
        <5>1. UNCHANGED <<given, verdict>>
          BY <4>2 DEF Receive, suite
        <5> QED BY <3>1, <4>2, <5>1, ReceiveCalm, VerdictStays DEF CalmInv
      <4>3. CASE Respond \/ Server
        BY <3>1, <4>3, RespondCalm DEF CalmInv
      <4>4. CASE Suite \/ Deadline
        BY <3>1, <4>1, <4>4, ServeCalm, NeedsControlCalm, StartCallCalm, AnsweredCalm, AwaitServerCalm,
           DeadlineCalm DEF CalmInv, Suite
      <4> QED BY <3>3, <4>1, <4>2, <4>3, <4>4 DEF Next
    <3> QED BY <3>2, <3>3
  <2> QED BY <2>2, <2>3
<1> QED BY <1>1, <1>2, TypeCorrect, VerdictInvariant, PTL DEF Spec

(* In a calm run on a harness that keeps the contract each JWT test and    *)
(* XV-1/client has the verdict the catalogue demands, in any order of      *)
(* bundles, answers, handshakes and steps of the listener's goroutine      *)
(* (ValidateJWT, FetchJWTFromSDK, DialFromSDK, the run functions).         *)
THEOREM VerdictsAreRight == Spec => []VerdictRight
  BY CalmInvariant, PTL
=============================================================================
