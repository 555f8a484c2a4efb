--------------------------- MODULE X509TestsProofs ---------------------------
(***************************************************************************)
(* Proofs about X509Tests, for every set of tests and of harnesses: a v1   *)
(* test that passes has had its positive control, and a test of a calm run *)
(* has the verdict that the catalogue demands.                             *)
(***************************************************************************)
EXTENDS X509Tests, TLAPS

Kinds == {"push", "poll", "sleep", "check", "peer"}

(* The scripts have steps of the known kinds, each about some SVID.        *)
LEMMA ScriptSteps ==
  ASSUME NEW t \in AllTests
  PROVE  /\ Len(Script(t)) \in Nat /\ 0 < Len(Script(t))
         /\ \A i \in 1..Len(Script(t)) : Script(t)[i].do \in Kinds /\ Script(t)[i].svid \in 1..3
<1>0. /\ ServeValid.do = "push" /\ PollValid.do = "poll" /\ PushUpdate.do = "push"
      /\ PollUpdate.do = "poll" /\ Wait.do = "sleep" /\ StillValid.do = "check"
      /\ PollDefault.do = "poll" /\ BadClient.do = "peer"
  BY DEF ServeValid, PollValid, PushUpdate, PollUpdate, Wait, StillValid, PollDefault, BadClient, Step
<1>1. \A s \in {ServeValid, PollValid, PushUpdate, PollUpdate, Wait, StillValid, PollDefault, BadClient} :
        s.svid \in 1..3
  BY DEF ServeValid, PollValid, PushUpdate, PollUpdate, Wait, StillValid, PollDefault, BadClient, Step
<1>2. CASE t = "X1"
  <2>1. Script(t) = <<ServeValid, PollValid>>
    BY <1>2 DEF Script, BadSVIDTests, BadPeerTests
  <2> QED BY <1>0, <1>1, <2>1 DEF Kinds
<1>3. CASE t = "X2"
  <2>1. Script(t) = <<ServeValid, PollValid, PushUpdate, PollUpdate>>
    BY <1>3 DEF Script, BadSVIDTests, BadPeerTests
  <2> QED BY <1>0, <1>1, <2>1 DEF Kinds
<1>4. CASE t \in BadSVIDTests
  <2>1. Script(t) = <<ServeValid, PollValid, PushUpdate, Wait, StillValid>>
    BY <1>4 DEF Script, BadSVIDTests, BadPeerTests
  <2> QED BY <1>0, <1>1, <2>1 DEF Kinds
<1>5. CASE t \in BadPeerTests
  <2>1. Script(t) = <<PollDefault, BadClient>>
    BY <1>5 DEF Script, BadSVIDTests, BadPeerTests
  <2> QED BY <1>0, <1>1, <2>1 DEF Kinds
<1> QED BY <1>2, <1>3, <1>4, <1>5 DEF AllTests
-----------------------------------------------------------------------------
(* The inductive invariant.                                                *)

Position == test \in AllTests /\ at \in Nat /\ at < Len(Script(test))

(* There is a connection only while the test waits for a probe, which only *)
(* some steps make.                                                        *)
InFlight ==
  /\ conn.phase # "none" => pc \in {"dialing", "reading"}
  /\ pc \in {"dialing", "reading"} => Probing

(* A connection accepted, or on which a peer line was read, was one the    *)
(* harness has authenticated.                                              *)
LineMeansAdmitted ==
  /\ DOMAIN conn = {"phase", "cert", "heard"}
  /\ conn.heard \in {"nothing", "line", "dash", "closed"}
  /\ conn.heard # "nothing" => conn.phase = "over"
  /\ conn.phase = "accepted" \/ conn.heard \in {"line", "dash"} =>
       Now.do = "peer" \/ conn.cert \in admitted

Controlled(i) == Script(test)[i].do \in {"poll", "check"} => Script(test)[i].svid \in admitted

StepsControlled == harness.version = 1 => \A i \in 1..at : Controlled(i)

ControlInv ==
  /\ Position
  /\ InFlight
  /\ LineMeansAdmitted
  /\ StepsControlled
  /\ PassHasPositiveControl
-----------------------------------------------------------------------------
(* The test stands at a step of its script.                                *)
LEMMA ThisStep ==
  ASSUME Position
  PROVE  /\ Len(Script(test)) \in Nat /\ at + 1 \in 1..Len(Script(test))
         /\ Now.do \in Kinds /\ Now.svid \in 1..3
<1>1. Len(Script(test)) \in Nat
  BY ScriptSteps DEF Position
<1>2. at + 1 \in 1..Len(Script(test))
  BY <1>1 DEF Position
<1>3. Now.do \in Kinds /\ Now.svid \in 1..3
  BY <1>2, ScriptSteps DEF Position, Now
<1> QED BY <1>1, <1>2, <1>3

(* A step that leaves the test where it is, and at most ends it without a  *)
(* pass, keeps what is proved about steps and verdicts.                    *)
LEMMA VerdictKept ==
  ASSUME Position, StepsControlled, PassHasPositiveControl,
         admitted \subseteq admitted', UNCHANGED <<given, at>>,
         verdict' = verdict \/ verdict' # "PASS"
  PROVE  Position' /\ StepsControlled' /\ PassHasPositiveControl'
<1>1. Position'
  BY DEF Position, given
<1>2. \A i : Controlled(i) => Controlled(i)'
  BY DEF Controlled, given
<1>3. StepsControlled'
  BY <1>2 DEF StepsControlled, given
<1>4. PassHasPositiveControl'
  BY DEF PassHasPositiveControl, given
<1> QED BY <1>1, <1>3, <1>4

(* Going on to the next step, or passing, after a controlled one.          *)
LEMMA ProceedKeeps ==
  ASSUME Position, StepsControlled, PassHasPositiveControl,
         UNCHANGED <<given, admitted>>, Proceed,
         harness.version = 1 => Controlled(at + 1)
  PROVE  Position' /\ StepsControlled' /\ PassHasPositiveControl'
<1>1. Len(Script(test)) \in Nat
  BY ScriptSteps DEF Position
<1>2. \A i : Controlled(i) => Controlled(i)'
  BY DEF Controlled, given
<1>3. CASE at + 1 = Len(Script(test))
  <2>1. verdict' = "PASS" /\ at' = at
    BY <1>3 DEF Proceed, Conclude
  <2>2. Position' /\ StepsControlled'
    BY <1>2, <2>1 DEF Position, StepsControlled, given
  <2>3. harness.version = 1 => \A i \in 1..Len(Script(test)) : Controlled(i)
    BY <1>1, <1>3 DEF StepsControlled, Position
  <2>4. PassHasPositiveControl'
    BY <2>3 DEF PassHasPositiveControl, Controlled, given
  <2> QED BY <2>2, <2>4
<1>4. CASE at + 1 # Len(Script(test))
  <2>1. at' = at + 1 /\ verdict' = verdict
    BY <1>4 DEF Proceed
  <2>2. Position'
    BY <1>1, <1>4, <2>1 DEF Position, given
  <2>3. StepsControlled'
    BY <1>2, <2>1 DEF StepsControlled, Position, given
  <2>4. PassHasPositiveControl'
    BY <2>1 DEF PassHasPositiveControl, given
  <2> QED BY <2>2, <2>3, <2>4
<1> QED BY <1>3, <1>4
-----------------------------------------------------------------------------
(* Between two probes nothing has been heard.                              *)
LEMMA NoConnection ==
  ASSUME ControlInv, pc \notin {"dialing", "reading"}
  PROVE  conn.phase = "none" /\ conn.heard = "nothing"
  BY DEF ControlInv, InFlight, LineMeansAdmitted, Probing

(* The harness's steps.                                                    *)
LEMMA HarnessKeeps ==
  ASSUME ControlInv, harness \in Harnesses, HarnessStep \/ Crash
  PROVE  ControlInv'
<1>1. UNCHANGED <<given, at, pc, verdict>> /\ admitted \subseteq admitted' /\ Now' = Now
  BY DEF HarnessStep, Receive, ReceiveBundles, Present, Authenticate, Answer, Crash, suite, given, Now
<1>2. Position' /\ StepsControlled' /\ PassHasPositiveControl'
  BY <1>1, VerdictKept DEF ControlInv
<1>3. CASE Receive \/ ReceiveBundles
  BY <1>1, <1>2, <1>3 DEF Receive, ReceiveBundles, ControlInv, InFlight, LineMeansAdmitted, Probing
<1>4. CASE Crash
  <2>1. conn' = conn \/ (conn.phase # "none" /\ conn' = [conn EXCEPT !.phase = "over", !.heard = "closed"])
    BY <1>4 DEF Crash
  <2> QED BY <1>1, <1>2, <2>1 DEF ControlInv, InFlight, LineMeansAdmitted, Probing
<1>5. CASE Present
  <2>1. \/ conn' = [conn EXCEPT !.phase = "over", !.heard = "closed"]
        \/ conn' = [conn EXCEPT !.phase = "presented", !.cert = presents]
    BY <1>5 DEF Present
  <2>2. conn.phase = "hello"
    BY <1>5 DEF Present
  <2> QED BY <1>1, <1>2, <2>1, <2>2 DEF ControlInv, InFlight, LineMeansAdmitted, Probing
<1>6. CASE Authenticate
  <2>1. /\ conn.phase = "presented"
        /\ \/ conn' = [conn EXCEPT !.phase = "accepted"] /\ (Now.do = "peer" \/ conn.cert \in admitted')
           \/ conn' = [conn EXCEPT !.phase = "refused"]
    BY <1>6 DEF Authenticate
  <2> QED BY <1>1, <1>2, <2>1 DEF ControlInv, InFlight, LineMeansAdmitted, Probing
<1>7. CASE Answer
  <2>1. harness.version \in {0, 1}
    BY TestsAssumption DEF TestsAssumption, HarnessOK
  <2>2. CASE conn.phase = "refused"
    <3>1. conn' = [conn EXCEPT !.phase = "over", !.heard = "closed"]
      BY <1>7, <2>2 DEF Answer
    <3> QED BY <1>1, <1>2, <2>2, <3>1 DEF ControlInv, InFlight, LineMeansAdmitted, Probing
  <2>3. CASE conn.phase = "accepted"
    <3>1. harness.version = 0 => conn' = [conn EXCEPT !.phase = "over", !.heard = "nothing"]
      BY <1>7, <2>3 DEF Answer
    <3>2. harness.version = 1 =>
            conn' = [conn EXCEPT !.phase = "over",
                                 !.heard = IF harness.peers = "cannot" THEN "dash" ELSE "line"]
      BY <1>7, <2>3 DEF Answer
    <3>3. \E h \in {"nothing", "dash", "line"} : conn' = [conn EXCEPT !.phase = "over", !.heard = h]
      BY <2>1, <3>1, <3>2
    <3> QED BY <1>1, <1>2, <2>3, <3>3 DEF ControlInv, InFlight, LineMeansAdmitted, Probing
  <2> QED BY <1>7, <2>2, <2>3 DEF Answer
<1> QED BY <1>3, <1>4, <1>5, <1>6, <1>7 DEF HarnessStep

(* The test concludes from an SVID it has seen, which a v1 harness has     *)
(* shown to a client it authenticated, or from none.                       *)
LEMMA FoundKeeps ==
  ASSUME ControlInv, NEW s, ProbeEnds(s), Probing,
         harness.version = 1 /\ s # 0 => Now.do = "peer" \/ s \in admitted
  PROVE  ControlInv'
<1>1. Found(s) /\ conn' = NoConn /\ UNCHANGED <<given, admitted>>
  BY DEF ProbeEnds
<1>2. conn'.phase = "none" /\ LineMeansAdmitted'
  BY <1>1 DEF LineMeansAdmitted, NoConn
<1>5. InFlight'
  BY <1>1, <1>2 DEF InFlight, Found, Proceed, Conclude, Probing
<1>3. CASE Proceed /\ (Now.do = "peer" \/ s = Now.svid)
  <2>1. harness.version = 1 => Controlled(at + 1)
    BY <1>3, ThisStep DEF ControlInv, Controlled, Now
  <2>2. Position' /\ StepsControlled' /\ PassHasPositiveControl'
    BY <1>1, <1>3, <2>1, ProceedKeeps DEF ControlInv
  <2> QED BY <1>2, <1>5, <2>2 DEF ControlInv
<1>4. CASE UNCHANGED at /\ (verdict' = verdict \/ verdict' # "PASS")
  <2>1. Position' /\ StepsControlled' /\ PassHasPositiveControl'
    BY <1>1, <1>4, VerdictKept DEF ControlInv
  <2> QED BY <1>2, <1>5, <2>1 DEF ControlInv
<1> QED BY <1>1, <1>3, <1>4 DEF Found, Conclude, Probing

LEMMA SuiteKeeps ==
  ASSUME ControlInv, Suite \/ Deadline
  PROVE  ControlInv'
<1>1. CASE Push \/ Sleep
  <2>1. /\ pc = "step" /\ Now.do \in {"push", "sleep"} /\ Proceed
        /\ pc' \in {"step", "done"} /\ UNCHANGED <<given, conn, admitted>>
    BY <1>1 DEF Push, Sleep, Proceed, Conclude
  <2>2. Controlled(at + 1)
    BY <2>1 DEF Controlled, Now
  <2>3. Position' /\ StepsControlled' /\ PassHasPositiveControl'
    BY <2>1, <2>2, ProceedKeeps DEF ControlInv
  <2>4. conn.phase = "none" /\ conn.heard = "nothing"
    BY <2>1, NoConnection
  <2> QED BY <2>1, <2>3, <2>4 DEF ControlInv, InFlight, LineMeansAdmitted, Probing
<1>2. CASE StartProbe
  <2>1. /\ conn' = [phase |-> "hello", cert |-> 0, heard |-> "nothing"] /\ pc' = "dialing"
        /\ UNCHANGED <<given, at, verdict, admitted>> /\ Probing /\ Now' = Now
    BY <1>2 DEF StartProbe, NoConn, Now, given
  <2>2. Position' /\ StepsControlled' /\ PassHasPositiveControl'
    BY <2>1, VerdictKept DEF ControlInv
  <2> QED BY <2>1, <2>2 DEF ControlInv, InFlight, LineMeansAdmitted, Probing
<1>3. CASE DialFails
  BY <1>3, FoundKeeps DEF DialFails, ControlInv, InFlight
<1>4. CASE Read
  BY <1>4, FoundKeeps DEF Read, Accepted, ControlInv, InFlight, LineMeansAdmitted
<1>5. CASE ReadTimeout
  BY <1>5, FoundKeeps DEF ReadTimeout, SilenceMeans, ControlInv, InFlight
<1>6. CASE Handshake \/ Deadline
  <2>1. /\ UNCHANGED <<given, conn, at, verdict, admitted>> /\ Now' = Now
        /\ pc' = pc \/ (pc = "dialing" /\ pc' = "reading")
    BY <1>6 DEF Handshake, Deadline, Now, given
  <2>2. Position' /\ StepsControlled' /\ PassHasPositiveControl'
    BY <2>1, VerdictKept DEF ControlInv
  <2> QED BY <2>1, <2>2 DEF ControlInv, InFlight, LineMeansAdmitted, Probing
<1>7. CASE Cancel
  <2>1. /\ pc = "pause" /\ pc' = "done" /\ verdict' = "FAIL" /\ UNCHANGED <<given, conn, at, admitted>> /\ Now' = Now
    BY <1>7 DEF Cancel, Conclude, Now, given
  <2>2. Position' /\ StepsControlled' /\ PassHasPositiveControl'
    BY <2>1, VerdictKept DEF ControlInv
  <2>3. conn.phase = "none"
    BY <2>1, NoConnection
  <2> QED BY <2>1, <2>2, <2>3 DEF ControlInv, InFlight, LineMeansAdmitted, Probing
<1> QED BY <1>1, <1>2, <1>3, <1>4, <1>5, <1>6, <1>7 DEF Suite
-----------------------------------------------------------------------------
(* ControlInv holds throughout every run of a test: whatever the prober    *)
(* reads on a connection was written for a client the harness has          *)
(* authenticated, and up to the current step each poll and check has seen  *)
(* its SVID on such a connection.                                          *)
THEOREM ControlInvariant == Spec => [](ControlInv /\ harness \in Harnesses)
<1>1. Init => ControlInv /\ harness \in Harnesses
  <2> SUFFICES ASSUME Init PROVE ControlInv /\ harness \in Harnesses
    OBVIOUS
  <2>1. test \in AllTests /\ harness \in Harnesses
    BY TestsAssumption DEF TestsAssumption, Init
  <2>2. at = 0 /\ verdict = "none" /\ pc = "step"
    BY DEF Init
  <2>3. Position
    BY <2>1, <2>2, ScriptSteps DEF Position
  <2>4. InFlight /\ LineMeansAdmitted
    BY <2>2 DEF Init, InFlight, LineMeansAdmitted, NoConn
  <2>5. StepsControlled
    BY <2>2 DEF StepsControlled
  <2>6. PassHasPositiveControl
    BY <2>2 DEF PassHasPositiveControl
  <2> QED BY <2>1, <2>3, <2>4, <2>5, <2>6 DEF ControlInv
<1>2. ControlInv /\ harness \in Harnesses /\ [Next]_vars => (ControlInv /\ harness \in Harnesses)'
  <2> SUFFICES ASSUME ControlInv, harness \in Harnesses, [Next]_vars
               PROVE  ControlInv' /\ harness' \in Harnesses
    OBVIOUS
  <2>1. UNCHANGED given
    BY DEF Next, vars, HarnessStep, Receive, ReceiveBundles, Present, Authenticate, Answer, Crash, Suite, Deadline,
           Push, Sleep, StartProbe, DialFails, Handshake, Read, ReadTimeout, Cancel, ProbeEnds
  <2>2. CASE HarnessStep \/ Crash
    BY <2>1, <2>2, HarnessKeeps DEF given
  <2>3. CASE Suite \/ Deadline
    BY <2>1, <2>3, SuiteKeeps DEF given
  <2>4. CASE UNCHANGED vars
    <3>1. UNCHANGED <<given, conn, at, pc, verdict, admitted>> /\ Now' = Now
      BY <2>4 DEF vars, suite, given, Now
    <3>2. Position' /\ StepsControlled' /\ PassHasPositiveControl'
      BY <3>1, VerdictKept DEF ControlInv
    <3> QED BY <2>1, <3>1, <3>2 DEF ControlInv, InFlight, LineMeansAdmitted, Probing, given
  <2> QED BY <2>2, <2>3, <2>4 DEF Next
<1> QED BY <1>1, <1>2, PTL DEF Spec

(* A v1 test passes only on a harness that has presented each valid SVID   *)
(* of the test to a client it authenticated, in that run (ProbeX509,       *)
(* probeUntilSPIFFEID).                                                    *)
THEOREM PassesAreControlled == Spec => []PassHasPositiveControl
  BY ControlInvariant, PTL DEF ControlInv
-----------------------------------------------------------------------------
(* Types.                                                                  *)
GivenTypes == test \in Tests /\ harness \in Harnesses /\ calm \in BOOLEAN
SDKTypes ==
  /\ current \in 1..3 /\ delivered \in 1..3 /\ presents \in 0..3 /\ bundled \in 1..3
  /\ up \in BOOLEAN /\ refused \in BOOLEAN /\ admitted \subseteq 0..3
ConnTypes ==
  conn \in [phase : {"none", "hello", "presented", "accepted", "refused", "over"},
            cert : 0..3, heard : {"nothing", "line", "dash", "closed"}]
SuiteTypes ==
  /\ late \in BOOLEAN /\ fresh \in BOOLEAN
  /\ at \in 0..(Len(Script(test)) - 1)
  /\ pc \in {"step", "dialing", "reading", "pause", "done"}
  /\ verdict \in {"none", "PASS", "FAIL", "SKIP"}

LEMMA TypesTogether == TypeOK <=> GivenTypes /\ SDKTypes /\ ConnTypes /\ SuiteTypes
  BY DEF TypeOK, GivenTypes, SDKTypes, ConnTypes, SuiteTypes

(* The harness.                                                            *)
LEMMA HarnessTypes ==
  ASSUME GivenTypes, SDKTypes, ConnTypes, SuiteTypes, HarnessStep \/ Crash
  PROVE  GivenTypes' /\ SDKTypes' /\ ConnTypes' /\ SuiteTypes'
<1>1. GivenTypes'
  BY DEF GivenTypes, HarnessStep, Receive, ReceiveBundles, Present, Authenticate, Answer, Crash, given
<1>2. SuiteTypes'
  BY DEF SuiteTypes, HarnessStep, Receive, ReceiveBundles, Present, Authenticate, Answer, Crash,
     given, suite
<1>3. CASE Receive
  <2>1. delivered' \in 1..3 /\ UNCHANGED <<current, bundled, up, conn, admitted, refused>>
    BY <1>3 DEF Receive, SDKTypes
  <2>2. harness.onBad \in {"keep", "adopt", "stop"}
    BY TestsAssumption DEF TestsAssumption, HarnessOK, GivenTypes
  <2>3. presents' \in {presents, delivered', 0}
    BY <1>3, <2>2 DEF Receive
  <2>4. ConnTypes'
    BY <2>1 DEF ConnTypes
  <2>5. SDKTypes'
    BY <2>1, <2>3 DEF SDKTypes
  <2> QED BY <1>1, <1>2, <2>4, <2>5
<1>4. CASE ReceiveBundles
  <2>1. bundled' \in 1..3 /\ UNCHANGED <<current, delivered, presents, up, conn, admitted, refused>>
    <3>1. PICK v \in (bundled + 1)..current : bundled' = v
      BY <1>4 DEF ReceiveBundles
    <3>2. UNCHANGED <<current, delivered, presents, up, conn, admitted, refused>>
      BY <1>4 DEF ReceiveBundles
    <3> QED BY <3>1, <3>2 DEF SDKTypes
  <2> QED BY <1>1, <1>2, <2>1 DEF SDKTypes, ConnTypes
<1>5. CASE Crash
  BY <1>1, <1>2, <1>5 DEF Crash, SDKTypes, ConnTypes
<1>6. CASE Present
  BY <1>1, <1>2, <1>6 DEF Present, SDKTypes, ConnTypes, sdk
<1>7. CASE Authenticate
  <2>1. ConnTypes' /\ UNCHANGED sdk
    BY <1>7 DEF Authenticate, ConnTypes
  <2>2. admitted' \subseteq 0..3
    BY <1>7 DEF Authenticate, ConnTypes, SDKTypes
  <2>3. refused' \in BOOLEAN
    BY <1>7, Zenon DEF Authenticate, SDKTypes
  <2> QED BY <1>1, <1>2, <2>1, <2>2, <2>3 DEF SDKTypes, sdk
<1>8. CASE Answer
  <2>1. conn.phase \in {"accepted", "refused"} /\ UNCHANGED <<sdk, admitted, refused>>
    BY <1>8 DEF Answer
  <2>2. harness.version \in {0, 1}
    BY TestsAssumption DEF TestsAssumption, HarnessOK, GivenTypes
  <2>3. \E h \in {"closed", "nothing", "dash", "line"} :
          conn' = [conn EXCEPT !.phase = "over", !.heard = h]
    <3>1. CASE conn.phase = "refused"
      BY <1>8, <3>1 DEF Answer
    <3>2. CASE conn.phase = "accepted" /\ harness.version = 0
      BY <1>8, <3>2 DEF Answer
    <3>3. CASE conn.phase = "accepted" /\ harness.version = 1
      <4>1. conn' = [conn EXCEPT !.phase = "over",
                                 !.heard = IF harness.peers = "cannot" THEN "dash" ELSE "line"]
        BY <1>8, <3>3 DEF Answer
      <4> QED BY <4>1
    <3> QED BY <2>1, <2>2, <3>1, <3>2, <3>3
  <2>4. ConnTypes'
    BY <2>3 DEF ConnTypes
  <2> QED BY <1>1, <1>2, <2>1, <2>4 DEF SDKTypes, sdk
<1> QED BY <1>3, <1>4, <1>5, <1>6, <1>7, <1>8 DEF HarnessStep
(* The test.                                                               *)
LEMMA SuiteTypesKept ==
  ASSUME GivenTypes, SDKTypes, ConnTypes, SuiteTypes, ControlInv, Suite \/ Deadline
  PROVE  GivenTypes' /\ SDKTypes' /\ ConnTypes' /\ SuiteTypes'
<1>0. Position
  BY DEF ControlInv
<1>1. UNCHANGED given
  BY DEF Suite, Deadline, Push, Sleep, StartProbe, DialFails, Handshake, Read,
     ReadTimeout, Cancel, ProbeEnds
<1>2. ConnTypes'
  BY DEF ConnTypes, NoConn, Suite, Deadline, Push, Sleep, StartProbe, DialFails, Handshake, Read,
     ReadTimeout, Cancel, ProbeEnds
<1>3. SDKTypes'
  <2>1. CASE Push
    <3>1. current' \in 1..3 /\ UNCHANGED <<delivered, presents, bundled, up, admitted, refused>>
      BY <1>0, <2>1, ThisStep DEF Push
    <3> QED BY <3>1 DEF SDKTypes
  <2>2. CASE ~Push
    <3>1. UNCHANGED <<sdk, admitted, refused>>
      BY <2>2 DEF Suite, Deadline, Sleep, StartProbe, DialFails, Handshake, Read, ReadTimeout,
         Cancel, ProbeEnds
    <3> QED BY <3>1 DEF SDKTypes, sdk
  <2> QED BY <2>1, <2>2
<1>4. late' \in BOOLEAN /\ fresh' \in BOOLEAN
  <2>1. CASE StartProbe
    BY <2>1, Zenon DEF StartProbe, SuiteTypes, UpToDate
  <2>2. CASE ~StartProbe
    BY <2>2 DEF SuiteTypes, Suite, Deadline, Push, Sleep, DialFails, Handshake, Read, ReadTimeout,
       Cancel, ProbeEnds
  <2> QED BY <2>1, <2>2
<1>5. at' \in 0..(Len(Script(test)) - 1) /\ pc' \in {"step", "dialing", "reading", "pause", "done"}
      /\ verdict' \in {"none", "PASS", "FAIL", "SKIP"}
  <2>1. ASSUME Proceed
        PROVE  at' \in 0..(Len(Script(test)) - 1) /\ pc' \in {"step", "done"}
               /\ verdict' \in {verdict, "PASS"}
    BY <1>0, <2>1, ThisStep DEF Proceed, Conclude, SuiteTypes, Position
  <2>2. ASSUME NEW v, Conclude(v)
        PROVE  UNCHANGED at /\ pc' = "done" /\ verdict' = v
    BY <2>2 DEF Conclude
  <2>3. CASE Push \/ Sleep
    BY <2>1, <2>3 DEF Push, Sleep, SuiteTypes
  <2>4. CASE StartProbe \/ Handshake \/ Cancel \/ Deadline
    BY <2>2, <2>4 DEF StartProbe, Handshake, Cancel, Deadline, SuiteTypes
  <2>5. CASE DialFails \/ Read \/ ReadTimeout
    <3>1. PICK s : Found(s)
      BY <2>5 DEF DialFails, Read, ReadTimeout, ProbeEnds
    <3>2. Proceed \/ Conclude("FAIL") \/ Conclude("SKIP") \/ (pc' = "pause" /\ UNCHANGED <<at, verdict>>)
      <4>1. Now.do \in {"poll", "check", "peer"}
        BY <2>5 DEF DialFails, Read, ReadTimeout, ControlInv, InFlight, Probing
      <4> QED BY <3>1, <4>1 DEF Found
    <3> QED BY <2>1, <2>2, <3>2 DEF SuiteTypes
  <2> QED BY <2>3, <2>4, <2>5 DEF Suite
<1> QED BY <1>1, <1>2, <1>3, <1>4, <1>5 DEF SuiteTypes, GivenTypes, given

(* Every variable of an X.509 test keeps its type (tests/x509, ProbeX509). *)
THEOREM TypeCorrect == Spec => []TypeOK
<1>1. Init => TypeOK
  <2> SUFFICES ASSUME Init PROVE TypeOK
    OBVIOUS
  <2>1. test \in AllTests
    BY TestsAssumption DEF TestsAssumption, Init
  <2>2. at \in 0..(Len(Script(test)) - 1)
    BY <2>1, ScriptSteps DEF Init
  <2>3. ConnTypes
    BY DEF Init, ConnTypes, NoConn
  <2>4. GivenTypes /\ SDKTypes
    <3>1. GivenTypes
      BY DEF Init, GivenTypes
    <3>2. up \in BOOLEAN /\ refused \in BOOLEAN /\ admitted \subseteq 0..3
      BY DEF Init
    <3>3. current \in 1..3 /\ delivered \in 1..3 /\ presents \in 0..3 /\ bundled \in 1..3
      BY DEF Init
    <3> QED BY <3>1, <3>2, <3>3 DEF SDKTypes
  <2>5. SuiteTypes
    BY <2>2 DEF Init, SuiteTypes
  <2> QED BY <2>3, <2>4, <2>5, TypesTogether
<1>2. TypeOK /\ ControlInv /\ [Next]_vars => TypeOK'
  <2> SUFFICES ASSUME TypeOK, ControlInv, [Next]_vars PROVE TypeOK'
    OBVIOUS
  <2>1. GivenTypes /\ SDKTypes /\ ConnTypes /\ SuiteTypes
    BY TypesTogether
  <2>2. GivenTypes' /\ SDKTypes' /\ ConnTypes' /\ SuiteTypes'
    <3>1. CASE UNCHANGED vars
      BY <2>1, <3>1 DEF vars, given, sdk, suite, GivenTypes, SDKTypes, ConnTypes, SuiteTypes
    <3> QED BY <2>1, <3>1, HarnessTypes, SuiteTypesKept DEF Next
  <2> QED BY <2>2 DEF TypeOK, GivenTypes, SDKTypes, ConnTypes, SuiteTypes
<1> QED BY <1>1, <1>2, ControlInvariant, PTL DEF Spec
-----------------------------------------------------------------------------
(* The verdict of a calm run.                                              *)

(* What has been served when the test stands at its a-th step.             *)
StateAt(t, a) ==
  IF t \in BadPeerTests \/ a = 0 THEN 1 ELSE IF a \in {1, 2} THEN 2 ELSE 3

(* What the SDK presents is determined by what it has received, once it    *)
(* has received the valid SVID that comes before an invalid one.           *)
SDKCalm ==
  /\ up
  /\ current = StateAt(test, at) /\ delivered <= current /\ bundled <= current
  /\ ~Bad(test, delivered) => presents = IF harness.rotates THEN delivered ELSE 1
  /\ Bad(test, delivered) =>
       /\ harness.onBad = "keep" => presents = 2
       /\ harness.onBad = "adopt" => presents = 3
       /\ harness.onBad = "stop" => presents = 0

(* What the steps that have succeeded say of the harness.                  *)
StepsCalm ==
  /\ at >= 2 => harness.rotates /\ delivered >= 2 /\ harness.peers # "rejectAll"
  /\ test \in BadPeerTests /\ at >= 1 => harness.peers # "rejectAll"
  /\ at = 4 => UpToDate

(* The harness refuses valid clients, or the invalid one as it should, or  *)
(* has no bundle of the client's trust domain, or has no SVID to present.  *)
Unwelcome ==
  \/ harness.peers = "rejectAll"
  \/ harness.peers = "check" /\ Now.do = "peer"
  \/ harness.peers = "check" /\ Now.do = "check" /\ test = "X4" /\ harness.bundles = "ownStream"
  \/ presents = 0

Welcome == harness.peers # "rejectAll" /\ (Now.do = "peer" => harness.peers # "check")

Answered == conn.phase = "over" /\ conn.heard # "closed"

ConnCalm ==
  /\ pc \in {"dialing", "reading"} => conn.phase # "none"
  /\ conn.phase \in {"none", "hello"} => conn.cert = 0 /\ conn.heard = "nothing"
  /\ conn.phase \in {"presented", "accepted", "refused"} \/ Answered => conn.cert # 0
  /\ conn.cert # 0 /\ Now.do = "poll" => conn.cert <= presents
  /\ conn.cert # 0 /\ (fresh \/ Now.do # "poll") => conn.cert = presents
  /\ conn.phase = "accepted" \/ Answered => Welcome
  /\ conn.phase = "refused" \/ conn.heard = "closed" => Unwelcome
  /\ Answered =>
       /\ conn.heard = "nothing" => harness.version = 0
       /\ conn.heard # "nothing" =>
            harness.version = 1 /\ (conn.heard = "dash" <=> harness.peers = "cannot")

(* A harness that presents what it is served and lets valid clients in     *)
(* answers a poll correctly once it is up to date, so no poll runs late.   *)
Able == harness.peers # "rejectAll" /\ (harness.rotates \/ test \in BadPeerTests)

PollCalm ==
  /\ pc = "pause" => Now.do = "poll"
  /\ pc \in {"dialing", "reading", "pause"} /\ fresh => UpToDate
  /\ Able => ~late /\ ~(pc = "pause" /\ fresh)

CalmInv == calm => SDKCalm /\ StepsCalm /\ ConnCalm /\ PollCalm
-----------------------------------------------------------------------------
(* The step the test stands at, by test.                                   *)
LEMMA StepsByTest ==
  ASSUME Position
  PROVE  \/ /\ test \in BadPeerTests /\ test \notin BadSVIDTests \cup {"X1", "X2"}
            /\ Len(Script(test)) = 2
            /\ (at = 0 /\ Now = PollDefault) \/ (at = 1 /\ Now = BadClient)
         \/ /\ test = "X1" /\ test \notin BadPeerTests \cup BadSVIDTests /\ Len(Script(test)) = 2
            /\ (at = 0 /\ Now = ServeValid) \/ (at = 1 /\ Now = PollValid)
         \/ /\ test = "X2" /\ test \notin BadPeerTests \cup BadSVIDTests /\ Len(Script(test)) = 4
            /\ \/ (at = 0 /\ Now = ServeValid) \/ (at = 1 /\ Now = PollValid)
               \/ (at = 2 /\ Now = PushUpdate) \/ (at = 3 /\ Now = PollUpdate)
         \/ /\ test \in BadSVIDTests /\ test \notin BadPeerTests \cup {"X1", "X2"}
            /\ Len(Script(test)) = 5
            /\ \/ (at = 0 /\ Now = ServeValid) \/ (at = 1 /\ Now = PollValid)
               \/ (at = 2 /\ Now = PushUpdate) \/ (at = 3 /\ Now = Wait)
               \/ (at = 4 /\ Now = StillValid)
<1>1. CASE test = "X1"
  <2>1. /\ Script(test) = <<ServeValid, PollValid>>
        /\ test \notin BadPeerTests \cup BadSVIDTests
    BY <1>1 DEF Script, BadSVIDTests, BadPeerTests
  <2>2. at \in 0..1 /\ Len(Script(test)) = 2
    BY <2>1 DEF Position
  <2> QED BY <1>1, <2>1, <2>2 DEF Now
<1>2. CASE test = "X2"
  <2>1. /\ Script(test) = <<ServeValid, PollValid, PushUpdate, PollUpdate>>
        /\ test \notin BadPeerTests \cup BadSVIDTests
    BY <1>2 DEF Script, BadSVIDTests, BadPeerTests
  <2>2. at \in 0..3 /\ Len(Script(test)) = 4
    BY <2>1 DEF Position
  <2> QED BY <1>2, <2>1, <2>2 DEF Now
<1>3. CASE test \in BadSVIDTests
  <2>1. /\ Script(test) = <<ServeValid, PollValid, PushUpdate, Wait, StillValid>>
        /\ test \notin BadPeerTests \cup {"X1", "X2"}
    BY <1>3 DEF Script, BadSVIDTests, BadPeerTests
  <2>2. at \in 0..4 /\ Len(Script(test)) = 5
    BY <2>1 DEF Position
  <2> QED BY <1>3, <2>1, <2>2 DEF Now
<1>4. CASE test \in BadPeerTests
  <2>1. /\ Script(test) = <<PollDefault, BadClient>>
        /\ test \notin BadSVIDTests \cup {"X1", "X2"}
    BY <1>4 DEF Script, BadSVIDTests, BadPeerTests
  <2> QED BY <1>4, <2>1 DEF Position, Now
<1> QED BY <1>1, <1>2, <1>3, <1>4 DEF Position, AllTests

LEMMA StepFields ==
  /\ ServeValid.do = "push" /\ ServeValid.svid = 2 /\ PollValid.do = "poll" /\ PollValid.svid = 2
  /\ PushUpdate.do = "push" /\ PushUpdate.svid = 3 /\ PollUpdate.do = "poll" /\ PollUpdate.svid = 3
  /\ Wait.do = "sleep" /\ StillValid.do = "check" /\ StillValid.svid = 2
  /\ PollDefault.do = "poll" /\ PollDefault.svid = 1 /\ BadClient.do = "peer"
  BY DEF ServeValid, PollValid, PushUpdate, PollUpdate, Wait, StillValid, PollDefault, BadClient, Step

(* What a kind of step says of the test and of its place in it.            *)
LEMMA PushSteps ==
  ASSUME Position, Now.do = "push"
  PROVE  /\ at + 1 # Len(Script(test)) /\ Now.svid = StateAt(test, at + 1)
         /\ test \notin BadPeerTests /\ at \in {0, 2} /\ StateAt(test, at) < StateAt(test, at + 1)
<1>1. test \notin BadPeerTests /\ at \in {0, 2} /\ at + 1 # Len(Script(test))
      /\ Now.svid = IF at = 0 THEN 2 ELSE 3
  <2>1. CASE at = 0
    BY <2>1, StepsByTest, StepFields
  <2>2. CASE at = 1
    BY <2>2, StepsByTest, StepFields
  <2>3. CASE at = 2
    BY <2>3, StepsByTest, StepFields
  <2>4. CASE at = 3
    BY <2>4, StepsByTest, StepFields
  <2>5. CASE at = 4
    BY <2>5, StepsByTest, StepFields
  <2> QED BY <2>1, <2>2, <2>3, <2>4, <2>5, StepsByTest
<1> QED BY <1>1 DEF StateAt

LEMMA PollSteps ==
  ASSUME Position, Now.do = "poll"
  PROVE  /\ Now.svid = StateAt(test, at) /\ StateAt(test, at + 1) = StateAt(test, at)
         /\ at \in {0, 1, 3} /\ (at = 0 <=> test \in BadPeerTests)
         /\ at = 3 => test = "X2" /\ at + 1 = Len(Script(test))
         /\ at + 1 = Len(Script(test)) => test \in {"X1", "X2"}
         /\ test \in BadSVIDTests => StateAt(test, at) = 2
<1>1. /\ at \in {0, 1, 3} /\ (at = 0 <=> test \in BadPeerTests)
      /\ at = 3 => test = "X2" /\ at + 1 = Len(Script(test))
      /\ at + 1 = Len(Script(test)) => test \in {"X1", "X2"}
      /\ Now.svid = IF at = 0 THEN 1 ELSE IF at = 1 THEN 2 ELSE 3
  <2>1. CASE at = 0
    BY <2>1, StepsByTest, StepFields
  <2>2. CASE at = 1
    BY <2>2, StepsByTest, StepFields
  <2>3. CASE at = 2
    BY <2>3, StepsByTest, StepFields
  <2>4. CASE at = 3
    BY <2>4, StepsByTest, StepFields
  <2>5. CASE at = 4
    BY <2>5, StepsByTest, StepFields
  <2> QED BY <2>1, <2>2, <2>3, <2>4, <2>5, StepsByTest
<1> QED BY <1>1 DEF StateAt, BadSVIDTests, BadPeerTests

LEMMA OtherSteps ==
  ASSUME Position
  PROVE  /\ Now.do = "sleep" => at = 3 /\ test \in BadSVIDTests /\ test \notin BadPeerTests
                                /\ Len(Script(test)) = 5
         /\ Now.do = "check" => at = 4 /\ test \in BadSVIDTests /\ test \notin BadPeerTests
                                /\ Len(Script(test)) = 5 /\ Now.svid = 2
         /\ Now.do = "peer" => at = 1 /\ test \in BadPeerTests /\ test \notin BadSVIDTests
                               /\ Len(Script(test)) = 2
  BY StepsByTest, StepFields

-----------------------------------------------------------------------------
(* The types, the positive control and what a calm run adds.               *)
CalmState ==
  /\ calm /\ TypeOK /\ Position /\ InFlight /\ LineMeansAdmitted
  /\ SDKCalm /\ StepsCalm /\ ConnCalm /\ PollCalm

LEMMA HarnessKinds ==
  ASSUME TypeOK
  PROVE  /\ harness.version \in {0, 1} /\ harness.tls \in {"1.2", "1.3"} /\ harness.rotates \in BOOLEAN
         /\ harness.onBad \in {"keep", "adopt", "stop"}
         /\ harness.peers \in {"check", "acceptAll", "rejectAll", "cannot"}
         /\ harness.bundles \in {"svidStream", "ownStream"}
  BY TestsAssumption DEF TypeOK, TestsAssumption, HarnessOK

(* Only the state of X4 comes without the bundle of the test trust domain. *)
LEMMA BundleMissing ==
  ASSUME CalmState, ~HasBundle
  PROVE  test = "X4" /\ harness.bundles = "ownStream" /\ at >= 3
<1>1. harness.bundles = "ownStream" /\ "test" \notin Bundles(test, bundled)
  BY DEF HasBundle
<1>2. test = "X4" /\ bundled = 3
  BY <1>1 DEF Bundles, TrustDomainOf, Served
<1>3. StateAt(test, at) >= 3
  BY <1>2 DEF CalmState, SDKCalm, TypeOK
<1>4. at >= 3
  BY <1>3 DEF StateAt, CalmState, Position
<1> QED BY <1>1, <1>2, <1>4

(* An invalid SVID arrives only after the valid one, on a harness that     *)
(* follows updates; without one the SDK always presents something.         *)
LEMMA Presenting ==
  ASSUME CalmState
  PROVE  /\ \A v \in 1..3 : v <= current /\ Bad(test, v) =>
              v = 3 /\ at >= 3 /\ harness.rotates /\ delivered >= 2 /\ Now.do # "poll"
         /\ ~Bad(test, delivered) => presents \in 1..3
         /\ ~Bad(test, delivered) => presents = IF harness.rotates THEN delivered ELSE 1
         /\ Bad(test, delivered) => presents = CASE harness.onBad = "keep" -> 2
                                                 [] harness.onBad = "adopt" -> 3
                                                 [] harness.onBad = "stop" -> 0
<1>1. ASSUME NEW v \in 1..3, v <= current, Bad(test, v)
      PROVE  v = 3 /\ at >= 3 /\ harness.rotates /\ delivered >= 2 /\ Now.do # "poll"
  <2>1. v = 3 /\ test \in BadSVIDTests
    BY <1>1 DEF Bad
  <2>2. StateAt(test, at) >= 3
    BY <1>1, <2>1 DEF CalmState, SDKCalm, TypeOK
  <2>3. at >= 3
    BY <2>2 DEF StateAt, CalmState, Position
  <2>4. Now.do # "poll"
    BY <2>1, <2>2, PollSteps DEF CalmState
  <2> QED BY <2>1, <2>3, <2>4 DEF CalmState, StepsCalm, Position
<1>2. ~Bad(test, delivered) => presents = IF harness.rotates THEN delivered ELSE 1
  BY DEF CalmState, SDKCalm
<1>3. ~Bad(test, delivered) => presents \in 1..3
  BY <1>2 DEF CalmState, TypeOK
<1>4. Bad(test, delivered) => presents = CASE harness.onBad = "keep" -> 2
                                           [] harness.onBad = "adopt" -> 3
                                           [] harness.onBad = "stop" -> 0
  BY HarnessKinds DEF CalmState, SDKCalm
<1> QED BY <1>1, <1>2, <1>3, <1>4

(* Nothing is on its way to the SDK during a fresh probe, the check of the *)
(* old SVID or the probe with an invalid client.                           *)
LEMMA NothingOnItsWay ==
  ASSUME CalmState, conn.phase # "none", fresh \/ Now.do # "poll"
  PROVE  UpToDate
<1>1. pc \in {"dialing", "reading"} /\ Now.do \in {"poll", "check", "peer"}
  BY DEF CalmState, InFlight, Probing
<1>2. CASE fresh
  BY <1>1, <1>2 DEF CalmState, PollCalm
<1>3. CASE Now.do = "check"
  BY <1>3, OtherSteps DEF CalmState, StepsCalm
<1>4. CASE Now.do = "peer"
  <2>1. current = 1
    BY <1>4, OtherSteps DEF CalmState, SDKCalm, StateAt
  <2> QED BY <2>1 DEF CalmState, SDKCalm, TypeOK, UpToDate
<1> QED BY <1>1, <1>2, <1>3, <1>4

-----------------------------------------------------------------------------
LEMMA ReceiveCalm ==
  ASSUME CalmState, Receive
  PROVE  SDKCalm' /\ StepsCalm' /\ ConnCalm' /\ PollCalm'
<1>1. /\ UNCHANGED <<test, harness, current, bundled, up, conn, at, pc, late, fresh>>
      /\ delivered \in 1..3 /\ delivered' \in 1..3 /\ delivered < delivered' /\ delivered' <= current
      /\ presents' = IF Bad(test, delivered')
                     THEN CASE harness.onBad = "keep"  -> presents
                            [] harness.onBad = "adopt" -> delivered'
                            [] harness.onBad = "stop"  -> 0
                     ELSE IF harness.rotates THEN delivered' ELSE presents
  BY DEF Receive, given, suite, CalmState, TypeOK
<1>2. Now' = Now
  BY <1>1 DEF Now
<1>3. ~UpToDate
  BY <1>1 DEF UpToDate
<1>4. ~Bad(test, delivered) /\ presents = IF harness.rotates THEN delivered ELSE 1
  <2>1. delivered # 3
    BY <1>1
  <2> QED BY <2>1, Presenting DEF Bad
<1>5. Bad(test, delivered') => delivered' = 3 /\ harness.rotates /\ delivered = 2 /\ Now.do # "poll"
  BY <1>1, Presenting
<1>6. SDKCalm'
  <2>1. Bad(test, delivered') =>
          /\ harness.onBad = "keep" => presents' = 2
          /\ harness.onBad = "adopt" => presents' = 3
          /\ harness.onBad = "stop" => presents' = 0
    BY <1>1, <1>4, <1>5
  <2>2. ~Bad(test, delivered') => presents' = IF harness.rotates THEN delivered' ELSE 1
    BY <1>1, <1>4
  <2> QED BY <1>1, <2>1, <2>2 DEF CalmState, SDKCalm
<1>7. StepsCalm'
  BY <1>1, <1>3 DEF CalmState, StepsCalm, TypeOK
<1>8. conn.cert # 0 => Now.do = "poll" /\ ~fresh /\ presents <= presents'
  <2> SUFFICES ASSUME conn.cert # 0 PROVE Now.do = "poll" /\ ~fresh /\ presents <= presents'
    OBVIOUS
  <2>1. Now.do = "poll" /\ ~fresh
    BY <1>3, NothingOnItsWay DEF CalmState, ConnCalm
  <2>2. presents' = IF harness.rotates THEN delivered' ELSE 1
    BY <1>1, <1>4, <1>5, <2>1
  <2>3. CASE harness.rotates
    <3>1. presents = delivered /\ presents' = delivered'
      BY <1>4, <2>2, <2>3
    <3>2. delivered \in Int /\ delivered' \in Int /\ delivered < delivered'
      BY <1>1
    <3>3. delivered <= delivered'
      BY <3>2
    <3> QED BY <2>1, <3>1, <3>3
  <2>4. CASE ~harness.rotates
    <3>1. presents = 1 /\ presents' = 1
      BY <1>4, <2>2, <2>4
    <3> QED BY <2>1, <3>1
  <2> QED BY <2>3, <2>4
<1>9. presents # 0
  BY <1>1, <1>4
<1>10. ConnCalm'
  <2>1. conn.cert # 0 /\ Now.do = "poll" => conn.cert <= presents'
    <3>1. conn.cert # 0 /\ Now.do = "poll" => conn.cert <= presents
      BY DEF CalmState, ConnCalm
    <3>2. conn.cert \in Int /\ presents \in Int
      BY DEF CalmState, TypeOK
    <3>3. presents' \in Int
      BY <1>1, <1>4, HarnessKinds DEF CalmState
    <3> QED BY <1>8, <3>1, <3>2, <3>3
  <2>2. Welcome' = Welcome /\ Answered' = Answered /\ (Unwelcome => Unwelcome')
    BY <1>1, <1>2, <1>9 DEF Welcome, Answered, Unwelcome
  <2> QED BY <1>1, <1>2, <1>8, <2>1, <2>2 DEF CalmState, ConnCalm
<1>11. PollCalm'
  <2>1. ~(pc \in {"dialing", "reading", "pause"} /\ fresh)
    BY <1>3 DEF CalmState, PollCalm
  <2> QED BY <1>1, <1>2, <2>1 DEF CalmState, PollCalm, Able
<1> QED BY <1>6, <1>7, <1>10, <1>11

LEMMA ReceiveBundlesCalm ==
  ASSUME CalmState, ReceiveBundles
  PROVE  SDKCalm' /\ StepsCalm' /\ ConnCalm' /\ PollCalm'
<1>1. /\ UNCHANGED <<test, harness, current, delivered, presents, up, conn, at, pc, late, fresh>>
      /\ bundled \in 1..3 /\ bundled' \in 1..3 /\ bundled < bundled' /\ bundled' <= current
      /\ harness.bundles = "ownStream"
  BY DEF ReceiveBundles, given, suite, CalmState, TypeOK
<1>2. Now' = Now /\ ~UpToDate
  BY <1>1 DEF Now, UpToDate
<1>3. SDKCalm' /\ StepsCalm'
  BY <1>1, <1>2 DEF CalmState, SDKCalm, StepsCalm
<1>4. ConnCalm'
  BY <1>1, <1>2 DEF CalmState, ConnCalm, Welcome, Answered, Unwelcome
<1>5. PollCalm'
  BY <1>1, <1>2 DEF CalmState, PollCalm, Able
<1> QED BY <1>3, <1>4, <1>5

(* A step that changes only the connection.                                *)
LEMMA ConnectionOnly ==
  ASSUME CalmState, UNCHANGED <<given, sdk, suite>>
  PROVE  /\ SDKCalm' /\ StepsCalm' /\ PollCalm' /\ Now' = Now
         /\ Unwelcome' = Unwelcome /\ Welcome' = Welcome
<1>1. Now' = Now /\ UpToDate' = UpToDate
  BY DEF Now, UpToDate, given, sdk, suite
<1> QED BY <1>1 DEF CalmState, SDKCalm, StepsCalm, PollCalm, Able, Unwelcome, Welcome, given, sdk, suite

LEMMA PresentCalm ==
  ASSUME CalmState, Present
  PROVE  SDKCalm' /\ StepsCalm' /\ ConnCalm' /\ PollCalm'
<1>1. /\ UNCHANGED <<given, sdk, suite>> /\ conn.phase = "hello"
      /\ conn' = IF presents = 0 THEN [conn EXCEPT !.phase = "over", !.heard = "closed"]
                 ELSE [conn EXCEPT !.phase = "presented", !.cert = presents]
  BY DEF Present
<1>2. /\ conn.cert = 0 /\ conn.heard = "nothing" /\ presents \in 0..3
      /\ DOMAIN conn = {"phase", "cert", "heard"}
  BY <1>1 DEF CalmState, ConnCalm, TypeOK
<1>3. CASE presents = 0
  <2>1. conn'.phase = "over" /\ conn'.cert = 0 /\ conn'.heard = "closed"
    BY <1>1, <1>2, <1>3
  <2>2. Unwelcome
    BY <1>3 DEF Unwelcome
  <2> QED BY <1>1, <2>1, <2>2, ConnectionOnly DEF ConnCalm, Answered
<1>4. CASE presents # 0
  <2>1. conn'.phase = "presented" /\ conn'.cert = presents /\ conn'.heard = "nothing"
    BY <1>1, <1>2, <1>4
  <2>2. presents' = presents
    BY <1>1 DEF sdk
  <2> QED BY <1>1, <1>2, <1>4, <2>1, <2>2, ConnectionOnly DEF ConnCalm, Answered
<1> QED BY <1>1, <1>3, <1>4, ConnectionOnly

LEMMA AuthenticateCalm ==
  ASSUME CalmState, Authenticate
  PROVE  SDKCalm' /\ StepsCalm' /\ ConnCalm' /\ PollCalm'
<1>1. /\ UNCHANGED <<given, sdk, suite>> /\ conn.phase = "presented"
      /\ conn' = [conn EXCEPT !.phase = IF Authenticates THEN "accepted" ELSE "refused"]
  BY DEF Authenticate
<1>2. /\ conn'.phase = IF Authenticates THEN "accepted" ELSE "refused"
      /\ conn'.cert = conn.cert /\ conn'.heard = "nothing" /\ conn.cert # 0
  BY <1>1 DEF CalmState, ConnCalm, LineMeansAdmitted
<1>3. Now.do \in {"poll", "check", "peer"}
  BY <1>1 DEF CalmState, InFlight, Probing
<1>4. Authenticates => Welcome
  BY HarnessKinds DEF Authenticates, Welcome, CalmState
<1>5. ~Authenticates => Unwelcome
  <2> SUFFICES ASSUME ~Authenticates PROVE Unwelcome
    OBVIOUS
  <2>1. harness.peers = "rejectAll" \/ (harness.peers = "check" /\ (Now.do = "peer" \/ ~HasBundle))
    BY HarnessKinds DEF Authenticates, CalmState
  <2>2. ~HasBundle => test = "X4" /\ harness.bundles = "ownStream" /\ Now.do = "check"
    <3> SUFFICES ASSUME ~HasBundle
                 PROVE  test = "X4" /\ harness.bundles = "ownStream" /\ Now.do = "check"
      OBVIOUS
    <3>1. test = "X4" /\ harness.bundles = "ownStream" /\ at >= 3
      BY BundleMissing
    <3>2. test \notin BadPeerTests /\ test # "X2"
      BY <3>1 DEF BadPeerTests
    <3>3. Now.do # "poll" /\ Now.do # "peer"
      BY <3>1, <3>2, PollSteps, OtherSteps DEF CalmState
    <3> QED BY <1>3, <3>1, <3>3
  <2> QED BY <2>1, <2>2 DEF Unwelcome
<1>6. ConnCalm'
  <2>1. presents' = presents /\ fresh' = fresh /\ pc' = pc
    BY <1>1 DEF sdk, suite
  <2>2. conn'.phase \in {"accepted", "refused"} /\ ~Answered'
    BY <1>2 DEF Answered
  <2>3. conn'.phase = "accepted" => Welcome'
    BY <1>1, <1>2, <1>4, ConnectionOnly
  <2>4. conn'.phase = "refused" => Unwelcome'
    BY <1>1, <1>2, <1>5, ConnectionOnly
  <2> QED BY <1>1, <1>2, <2>1, <2>2, <2>3, <2>4, ConnectionOnly DEF CalmState, ConnCalm
<1> QED BY <1>1, <1>6, ConnectionOnly

LEMMA AnswerCalm ==
  ASSUME CalmState, Answer
  PROVE  SDKCalm' /\ StepsCalm' /\ ConnCalm' /\ PollCalm'
<1>1. /\ UNCHANGED <<given, sdk, suite>> /\ conn.phase \in {"accepted", "refused"}
      /\ conn' = [conn EXCEPT
           !.phase = "over",
           !.heard = CASE conn.phase = "refused"      -> "closed"
                       [] conn.phase = "accepted" /\ harness.version = 0 -> "nothing"
                       [] conn.phase = "accepted" /\ harness.version = 1 ->
                            IF harness.peers = "cannot" THEN "dash" ELSE "line"]
  BY DEF Answer
<1>2. conn'.phase = "over" /\ conn'.cert = conn.cert /\ conn.cert # 0
  BY <1>1 DEF CalmState, ConnCalm, LineMeansAdmitted
<1>3. /\ conn.phase = "refused" => conn'.heard = "closed" /\ Unwelcome
      /\ conn.phase = "accepted" =>
           /\ Welcome /\ conn'.heard # "closed"
           /\ conn'.heard = "nothing" => harness.version = 0
           /\ conn'.heard # "nothing" =>
                harness.version = 1 /\ (conn'.heard = "dash" <=> harness.peers = "cannot")
  <2>1. harness.version \in {0, 1} /\ DOMAIN conn = {"phase", "cert", "heard"}
    BY HarnessKinds DEF CalmState, LineMeansAdmitted
  <2>2. CASE conn.phase = "refused"
    BY <1>1, <2>1, <2>2 DEF CalmState, ConnCalm
  <2>3. CASE conn.phase = "accepted" /\ harness.version = 0
    <3>1. conn'.heard = "nothing"
      BY <1>1, <2>1, <2>3
    <3> QED BY <2>3, <3>1 DEF CalmState, ConnCalm
  <2>4. CASE conn.phase = "accepted" /\ harness.version = 1
    <3>1. conn'.heard = IF harness.peers = "cannot" THEN "dash" ELSE "line"
      BY <1>1, <2>1, <2>4
    <3> QED BY <2>4, <3>1 DEF CalmState, ConnCalm
  <2> QED BY <1>1, <2>1, <2>2, <2>3, <2>4
<1>4. ConnCalm'
  <2>1. presents' = presents /\ fresh' = fresh /\ pc' = pc /\ harness' = harness
    BY <1>1 DEF sdk, suite, given
  <2>2. Answered' => Welcome'
    BY <1>1, <1>3, ConnectionOnly DEF Answered
  <2>3. conn'.heard = "closed" => Unwelcome'
    BY <1>1, <1>3, ConnectionOnly
  <2>4. Answered' => /\ conn'.heard = "nothing" => harness.version = 0
                     /\ conn'.heard # "nothing" =>
                          harness.version = 1 /\ (conn'.heard = "dash" <=> harness.peers = "cannot")
    BY <1>1, <1>3 DEF Answered
  <2> QED BY <1>1, <1>2, <2>1, <2>2, <2>3, <2>4, ConnectionOnly DEF CalmState, ConnCalm
<1> QED BY <1>1, <1>4, ConnectionOnly

-----------------------------------------------------------------------------
(* Between probes there is no connection.                                  *)
LEMMA Idle ==
  ASSUME CalmState, pc \notin {"dialing", "reading"}
  PROVE  conn.phase = "none" /\ conn.cert = 0 /\ conn.heard = "nothing"
  BY DEF CalmState, InFlight, ConnCalm

LEMMA NoConnCalm ==
  ASSUME conn'.phase \in {"none", "hello"}, conn'.cert = 0, conn'.heard = "nothing",
         pc' \in {"dialing", "reading"} => conn'.phase # "none"
  PROVE  ConnCalm'
  BY DEF ConnCalm, Answered

LEMMA PushCalm ==
  ASSUME CalmState, VerdictRight, Push
  PROVE  SDKCalm' /\ StepsCalm' /\ ConnCalm' /\ PollCalm' /\ VerdictRight'
<1>1. /\ UNCHANGED <<given, delivered, presents, bundled, up, conn, late, fresh>>
      /\ pc = "step" /\ Now.do = "push" /\ current' = Now.svid /\ Proceed
  BY DEF Push
<1>2. /\ Now.svid = StateAt(test, at + 1) /\ test \notin BadPeerTests /\ at \in {0, 2}
      /\ StateAt(test, at) < StateAt(test, at + 1) /\ at + 1 # Len(Script(test))
  BY <1>1, PushSteps DEF CalmState
<1>3. at' = at + 1 /\ pc' = "step" /\ verdict' = verdict
  BY <1>1, <1>2 DEF Proceed
<1>4. SDKCalm'
  <2>1. delivered <= current' /\ bundled <= current'
    <3>1. current = StateAt(test, at) /\ delivered <= current /\ bundled <= current
      BY DEF CalmState, SDKCalm
    <3>2. current \in Int /\ delivered \in Int /\ bundled \in Int
      BY DEF CalmState, TypeOK
    <3>3. current' \in Int /\ current < current'
      BY <1>1, <1>2, <3>1 DEF StateAt
    <3> QED BY <3>1, <3>2, <3>3
  <2> QED BY <1>1, <1>2, <1>3, <2>1 DEF CalmState, SDKCalm, given
<1>5. StepsCalm'
  <2>1. at' >= 2 => at >= 2
    BY <1>2, <1>3
  <2>2. at' # 4
    BY <1>2, <1>3
  <2> QED BY <1>1, <1>2, <1>3, <2>1, <2>2 DEF CalmState, StepsCalm, given
<1>6. ConnCalm'
  BY <1>1, <1>3, Idle, NoConnCalm
<1>7. PollCalm' /\ VerdictRight'
  BY <1>1, <1>3 DEF CalmState, PollCalm, Able, VerdictRight, Expected, given
<1> QED BY <1>4, <1>5, <1>6, <1>7

LEMMA SleepCalm ==
  ASSUME CalmState, VerdictRight, Sleep
  PROVE  SDKCalm' /\ StepsCalm' /\ ConnCalm' /\ PollCalm' /\ VerdictRight'
<1>1. /\ UNCHANGED <<given, sdk, conn, late, fresh>>
      /\ pc = "step" /\ Now.do = "sleep" /\ TimeUp /\ Proceed
  BY DEF Sleep
<1>2. /\ at = 3 /\ test \in BadSVIDTests /\ test \notin BadPeerTests
      /\ at + 1 # Len(Script(test)) /\ UpToDate
  BY <1>1, OtherSteps DEF CalmState, TimeUp, Settled
<1>3. at' = 4 /\ pc' = "step" /\ verdict' = verdict
  BY <1>1, <1>2 DEF Proceed
<1>4. SDKCalm'
  <2>1. StateAt(test, 4) = StateAt(test, 3)
    BY DEF StateAt
  <2> QED BY <1>1, <1>2, <1>3, <2>1 DEF CalmState, SDKCalm, given, sdk
<1>5. StepsCalm'
  BY <1>1, <1>2, <1>3 DEF CalmState, StepsCalm, UpToDate, given, sdk
<1>6. ConnCalm'
  BY <1>1, <1>3, Idle, NoConnCalm
<1>7. PollCalm' /\ VerdictRight'
  BY <1>1, <1>3 DEF CalmState, PollCalm, Able, VerdictRight, Expected, given
<1> QED BY <1>4, <1>5, <1>6, <1>7

LEMMA StartProbeCalm ==
  ASSUME CalmState, VerdictRight, StartProbe
  PROVE  SDKCalm' /\ StepsCalm' /\ ConnCalm' /\ PollCalm' /\ VerdictRight'
<1>1. /\ UNCHANGED <<given, sdk, at, verdict>> /\ conn' = [NoConn EXCEPT !.phase = "hello"]
      /\ pc' = "dialing" /\ (late' <=> late /\ pc = "pause") /\ (fresh' <=> UpToDate)
  BY DEF StartProbe, CalmState, TypeOK
<1>2. conn'.phase = "hello" /\ conn'.cert = 0 /\ conn'.heard = "nothing"
  BY <1>1 DEF NoConn
<1>3. SDKCalm' /\ StepsCalm' /\ UpToDate' = UpToDate
  BY <1>1 DEF CalmState, SDKCalm, StepsCalm, UpToDate, given, sdk
<1>4. PollCalm'
  BY <1>1, <1>3 DEF CalmState, PollCalm, Able, given
<1>5. VerdictRight'
  BY <1>1 DEF VerdictRight, Expected, given
<1> QED BY <1>1, <1>2, <1>3, <1>4, <1>5, NoConnCalm

LEMMA WaitingCalm ==
  ASSUME CalmState, VerdictRight, Handshake \/ Deadline
  PROVE  SDKCalm' /\ StepsCalm' /\ ConnCalm' /\ PollCalm' /\ VerdictRight'
<1>1. /\ UNCHANGED <<given, sdk, conn, at, fresh, verdict>>
      /\ \/ pc = "dialing" /\ pc' = "reading" /\ late' = late
         \/ pc = "pause" /\ pc' = "pause" /\ fresh
  BY DEF Handshake, Deadline, CalmState
<1>2. SDKCalm' /\ StepsCalm' /\ UpToDate' = UpToDate /\ Now' = Now
  BY <1>1 DEF CalmState, SDKCalm, StepsCalm, UpToDate, Now, given, sdk
<1>3. ConnCalm'
  <2>1. Welcome' = Welcome /\ Answered' = Answered /\ Unwelcome' = Unwelcome
    BY <1>1, <1>2 DEF Welcome, Answered, Unwelcome, given, sdk
  <2> QED BY <1>1, <1>2, <2>1 DEF CalmState, ConnCalm, given, sdk
<1>4. PollCalm'
  <2>1. Able' = Able
    BY <1>1 DEF Able, given
  <2> QED BY <1>1, <1>2, <2>1 DEF CalmState, PollCalm, TypeOK
<1>5. VerdictRight'
  BY <1>1 DEF VerdictRight, Expected, given
<1> QED BY <1>2, <1>3, <1>4, <1>5

-----------------------------------------------------------------------------
(* What comes of a probe in a calm run: an error that the harness is the   *)
(* cause of, or the SVID of a connection it has answered.                  *)
Refusal == Unwelcome \/ (conn.cert # 0 /\ ~Verifies(test, conn.cert))

(* What a probe may conclude: nothing seen because of a refusal, or the    *)
(* SVID of a connection that was answered.                                 *)
Outcome(s) == (s = 0 /\ Refusal) \/ (s # 0 /\ s = conn.cert /\ Answered)

LEMMA ProbeOutcome ==
  ASSUME CalmState, DialFails \/ Read \/ ReadTimeout
  PROVE  /\ UNCHANGED <<given, sdk, late, fresh>> /\ conn' = NoConn
         /\ pc \in {"dialing", "reading"}
         /\ \E s \in 0..3 : Found(s) /\ Outcome(s)
<1>1. calm /\ up /\ conn.cert \in 0..3
  BY DEF CalmState, SDKCalm, TypeOK
<1>2. CASE DialFails
  <2>1. /\ ProbeEnds(0) /\ pc = "dialing"
        /\ conn.heard = "closed" \/ (conn.phase = "presented" /\ ~Verifies(test, conn.cert))
    BY <1>1, <1>2 DEF DialFails
  <2>2. Refusal
    BY <2>1 DEF Refusal, CalmState, ConnCalm
  <2> QED BY <2>1, <2>2 DEF ProbeEnds, Outcome
<1>3. CASE Read
  <2>1. ProbeEnds(Accepted) /\ pc = "reading" /\ conn.heard # "nothing" /\ conn.phase = "over"
    BY <1>3 DEF Read, CalmState, LineMeansAdmitted
  <2>2. CASE conn.heard = "closed"
    <3>1. Accepted = 0 /\ Refusal
      BY <2>2 DEF Accepted, Refusal, CalmState, ConnCalm
    <3> QED BY <2>1, <3>1 DEF ProbeEnds, Outcome
  <2>3. CASE conn.heard # "closed"
    <3>1. Accepted = conn.cert /\ Answered /\ conn.cert # 0
      BY <2>1, <2>3 DEF Accepted, Answered, CalmState, ConnCalm
    <3> QED BY <1>1, <2>1, <3>1 DEF ProbeEnds, Outcome
  <2> QED BY <2>2, <2>3
<1>4. CASE ReadTimeout
  <2>1. /\ ProbeEnds(IF SilenceMeans THEN conn.cert ELSE 0) /\ pc = "reading"
        /\ conn.heard = "nothing" /\ Settled
    BY <1>1, <1>4 DEF ReadTimeout, ReadDeadline, TimeUp
  <2>2. Answered
    BY <2>1 DEF Settled, Answered, CalmState, ConnCalm
  <2>3. SilenceMeans /\ conn.cert # 0
    BY <2>1, <2>2 DEF SilenceMeans, CalmState, ConnCalm
  <2> QED BY <1>1, <2>1, <2>2, <2>3 DEF ProbeEnds, Outcome
<1> QED BY <1>2, <1>3, <1>4

(* An able harness that is up to date answers a poll with what it asks for.*)
LEMMA AbleAnswers ==
  ASSUME CalmState, conn.phase # "none", Now.do = "poll", Able, fresh, NEW s \in 0..3,
         Outcome(s)
  PROVE  s = Now.svid
<1>1. UpToDate /\ delivered \in 1..3
  BY NothingOnItsWay DEF CalmState, TypeOK
<1>2. ~Bad(test, delivered) /\ delivered = current /\ Now.svid = current
  BY <1>1, Presenting, PollSteps DEF UpToDate, CalmState, SDKCalm
<1>3. presents = Now.svid /\ presents # 0
  <2>1. presents = IF harness.rotates THEN delivered ELSE 1
    BY <1>2, Presenting
  <2>2. harness.rotates \/ delivered = 1
    <3>1. test \in BadPeerTests => current = 1
      BY DEF CalmState, SDKCalm, StateAt
    <3> QED BY <1>2, <3>1 DEF Able
  <2>3. presents = delivered
    BY <2>1, <2>2
  <2> QED BY <1>1, <1>2, <2>3
<1>4. conn.cert # 0 => conn.cert = Now.svid
  BY <1>3 DEF CalmState, ConnCalm
<1>5. ~Refusal
  <2>1. ~Unwelcome
    BY <1>3 DEF Unwelcome, Able
  <2>2. Verifies(test, Now.svid)
    <3>1. Now.svid = 3 => test = "X2"
      <4>1. Now.svid = StateAt(test, at) /\ (at = 3 => test = "X2") /\ at \in {0, 1, 3}
        BY PollSteps DEF CalmState
      <4> QED BY <4>1 DEF StateAt
    <3> QED BY <3>1 DEF Verifies
  <2> QED BY <1>4, <2>1, <2>2 DEF Refusal
<1> QED BY <1>4, <1>5 DEF Outcome

(* What the catalogue expects, without its order of cases.                 *)
LEMMA Expectations ==
  ASSUME CalmState
  PROVE  /\ ~Able => Expected = "FAIL"
         /\ Able /\ test \in {"X1", "X2"} => Expected = "PASS"
         /\ Able /\ test \in BadSVIDTests =>
              Expected = IF harness.onBad = "keep" THEN "PASS" ELSE "FAIL"
         /\ Able /\ test \in BadPeerTests =>
              Expected = IF harness.peers = "check" THEN "PASS"
                         ELSE IF harness.peers = "cannot" /\ harness.version = 1
                         THEN "SKIP" ELSE "FAIL"
<1>1. test \in AllTests
  BY DEF CalmState, Position
<1>2. test \in BadSVIDTests => test \notin BadPeerTests /\ test \notin {"X1", "X2"}
  BY DEF BadSVIDTests, BadPeerTests
<1>3. test \in BadPeerTests => test \notin {"X1", "X2"}
  BY DEF BadPeerTests
<1>4. CASE harness.peers = "rejectAll"
  BY <1>4 DEF Expected, Able
<1>5. CASE harness.peers # "rejectAll" /\ test \in {"X1", "X2"}
  <2>1. Expected = IF harness.rotates THEN "PASS" ELSE "FAIL"
    BY <1>2, <1>3, <1>5 DEF Expected
  <2> QED BY <1>2, <1>3, <1>5, <2>1 DEF Able
<1>6. CASE harness.peers # "rejectAll" /\ test \in BadSVIDTests
  <2>1. Expected = IF harness.rotates /\ harness.onBad = "keep" THEN "PASS" ELSE "FAIL"
    BY <1>2, <1>6 DEF Expected
  <2> QED BY <1>2, <1>6, <2>1 DEF Able
<1>7. CASE harness.peers # "rejectAll" /\ test \in BadPeerTests
  <2>1. Expected = IF harness.peers = "check" THEN "PASS"
                   ELSE IF harness.peers = "cannot" /\ harness.version = 1 THEN "SKIP" ELSE "FAIL"
    BY <1>2, <1>3, <1>7 DEF Expected
  <2> QED BY <1>2, <1>3, <1>7, <2>1 DEF Able
<1> QED BY <1>1, <1>4, <1>5, <1>6, <1>7 DEF AllTests

(* A test that ends with the verdict expected of it.                       *)
LEMMA ConcludeCalm ==
  ASSUME CalmState, VerdictRight, NEW v, Conclude(v), UNCHANGED <<given, sdk, late, fresh>>,
         conn' = NoConn,
         v = Expected \/ (test = "X4" /\ harness.bundles = "ownStream" /\ harness.peers = "check")
  PROVE  SDKCalm' /\ StepsCalm' /\ ConnCalm' /\ PollCalm' /\ VerdictRight'
<1>1. verdict' = v /\ pc' = "done" /\ at' = at
  BY DEF Conclude
<1>2. SDKCalm' /\ StepsCalm'
  BY <1>1 DEF CalmState, SDKCalm, StepsCalm, UpToDate, given, sdk
<1>3. ConnCalm'
  BY <1>1, NoConnCalm DEF NoConn
<1>4. PollCalm'
  BY <1>1 DEF CalmState, PollCalm, Able, given
<1>5. VerdictRight'
  <2>1. Expected' = Expected
    BY DEF Expected, given
  <2> QED BY <1>1, <2>1 DEF VerdictRight, given
<1> QED BY <1>2, <1>3, <1>4, <1>5

LEMMA PollCalmly ==
  ASSUME CalmState, VerdictRight, UNCHANGED <<given, sdk, late, fresh>>, conn' = NoConn,
         conn.phase # "none", Now.do = "poll", NEW s \in 0..3, Found(s),
         Outcome(s)
  PROVE  SDKCalm' /\ StepsCalm' /\ ConnCalm' /\ PollCalm' /\ VerdictRight'
<1>1. /\ s = Now.svid => Proceed
      /\ s # Now.svid /\ late => Conclude("FAIL")
      /\ s # Now.svid /\ ~late => pc' = "pause" /\ UNCHANGED <<at, verdict>>
  BY DEF Found
<1>2. CASE s = Now.svid
  <2>1. /\ Now.svid = StateAt(test, at) /\ StateAt(test, at + 1) = StateAt(test, at)
        /\ at \in {0, 1, 3} /\ (at = 0 <=> test \in BadPeerTests)
        /\ at = 3 => at + 1 = Len(Script(test))
        /\ at + 1 = Len(Script(test)) => test \in {"X1", "X2"}
    BY PollSteps DEF CalmState
  <2>2. s = conn.cert /\ Answered /\ s # 0
    BY <1>2, ThisStep DEF CalmState, Outcome
  <2>3. harness.peers # "rejectAll" /\ conn.cert <= presents
    BY <2>2 DEF CalmState, ConnCalm, Welcome
  <2>4. current = Now.svid /\ delivered <= current
    BY <2>1 DEF CalmState, SDKCalm
  <2>5. presents = IF harness.rotates THEN delivered ELSE 1
    <3>1. delivered \in 1..3 /\ delivered <= current
      BY DEF CalmState, TypeOK, SDKCalm
    <3>2. ~Bad(test, delivered)
      BY <3>1, Presenting
    <3> QED BY <3>2, Presenting
  <2>6. test \notin BadPeerTests => harness.rotates /\ delivered >= 2
    <3> SUFFICES ASSUME test \notin BadPeerTests PROVE harness.rotates /\ delivered >= 2
      OBVIOUS
    <3>1. current >= 2
      BY <2>1, <2>4 DEF StateAt
    <3>2. current <= presents
      BY <1>2, <2>2, <2>3, <2>4
    <3>3. current \in Int /\ presents \in Int /\ delivered \in Int
      BY DEF CalmState, TypeOK
    <3>4. harness.rotates
      <4> SUFFICES ASSUME ~harness.rotates PROVE FALSE
        OBVIOUS
      <4>1. presents = 1
        BY <2>5
      <4> QED BY <3>1, <3>2, <3>3, <4>1
    <3>5. presents = delivered
      BY <2>5, <3>4
    <3> QED BY <3>1, <3>2, <3>3, <3>4, <3>5
  <2>7. CASE at + 1 = Len(Script(test))
    <3>1. Conclude("PASS")
      BY <1>1, <1>2, <2>7 DEF Proceed
    <3>2. Able /\ test \in {"X1", "X2"}
      <4>1. test \in {"X1", "X2"} /\ test \notin BadPeerTests
        BY <2>1, <2>7 DEF BadPeerTests
      <4> QED BY <2>3, <2>6, <4>1 DEF Able
    <3>3. Expected = "PASS"
      BY <3>2, Expectations
    <3> QED BY <3>1, <3>3, ConcludeCalm
  <2>8. CASE at + 1 # Len(Script(test))
    <3>1. at' = at + 1 /\ pc' = "step" /\ verdict' = verdict
      BY <1>1, <1>2, <2>8 DEF Proceed
    <3>2. SDKCalm'
      BY <2>1, <3>1 DEF CalmState, SDKCalm, given, sdk
    <3>3. StepsCalm'
      <4>1. at \in {0, 1}
        BY <2>1, <2>8
      <4>2. at' # 4 /\ (at' >= 2 => test \notin BadPeerTests)
        BY <2>1, <3>1, <4>1
      <4> QED BY <2>3, <2>6, <4>2 DEF StepsCalm, given, sdk
    <3>4. ConnCalm'
      BY <3>1, NoConnCalm DEF NoConn
    <3>5. PollCalm'
      BY <3>1 DEF CalmState, PollCalm, Able, given
    <3>6. VerdictRight'
      BY <3>1 DEF VerdictRight, Expected, given
    <3> QED BY <3>2, <3>3, <3>4, <3>5, <3>6
  <2> QED BY <2>7, <2>8
<1>3. CASE s # Now.svid /\ late
  <2>1. ~Able
    BY <1>3 DEF CalmState, PollCalm
  <2> QED BY <1>1, <1>3, <2>1, Expectations, ConcludeCalm
<1>4. CASE s # Now.svid /\ ~late
  <2>1. pc' = "pause" /\ at' = at /\ verdict' = verdict
    BY <1>1, <1>4
  <2>2. SDKCalm' /\ StepsCalm' /\ UpToDate' = UpToDate /\ Now' = Now
    BY <2>1 DEF CalmState, SDKCalm, StepsCalm, UpToDate, Now, given, sdk
  <2>3. ConnCalm'
    BY <2>1, NoConnCalm DEF NoConn
  <2>4. fresh => UpToDate /\ ~Able
    BY <1>4, NothingOnItsWay, AbleAnswers
  <2>5. PollCalm'
    <3>1. Able' = Able
      BY DEF Able, given
    <3> QED BY <1>4, <2>1, <2>2, <2>4, <3>1 DEF PollCalm
  <2>6. VerdictRight'
    BY <2>1 DEF VerdictRight, Expected, given
  <2> QED BY <2>2, <2>3, <2>5, <2>6
<1> QED BY <1>2, <1>3, <1>4

(* The probe after an invalid SVID has been served and the pause is over.  *)
LEMMA CheckCalmly ==
  ASSUME CalmState, VerdictRight, UNCHANGED <<given, sdk, late, fresh>>, conn' = NoConn,
         conn.phase # "none", Now.do = "check", NEW s \in 0..3, Found(s),
         Outcome(s)
  PROVE  SDKCalm' /\ StepsCalm' /\ ConnCalm' /\ PollCalm' /\ VerdictRight'
<1>1. /\ at = 4 /\ test \in BadSVIDTests /\ test \notin BadPeerTests
      /\ at + 1 = Len(Script(test)) /\ Now.svid = 2
  BY OtherSteps DEF CalmState
<1>2. /\ s = 2 => Conclude("PASS")
      /\ s # 2 => Conclude("FAIL")
  BY <1>1 DEF Found, Proceed
<1>3. harness.peers # "rejectAll" /\ Able
  BY <1>1 DEF CalmState, StepsCalm, Able
<1>4. delivered = 3 /\ Bad(test, delivered)
  <2>1. delivered = current /\ current = 3
    BY <1>1, NothingOnItsWay DEF UpToDate, CalmState, SDKCalm, StateAt
  <2> QED BY <1>1, <2>1 DEF Bad
<1>5. conn.cert # 0 => conn.cert = presents
  BY <1>1 DEF CalmState, ConnCalm
<1>6. harness.onBad = "keep" <=> presents = 2
  BY <1>4, HarnessKinds DEF CalmState, SDKCalm
<1>7. Expected = IF harness.onBad = "keep" THEN "PASS" ELSE "FAIL"
  BY <1>1, <1>3, Expectations
<1>8. CASE s = 2
  <2>1. harness.onBad = "keep"
    BY <1>5, <1>6, <1>8 DEF Outcome
  <2> QED BY <1>2, <1>7, <1>8, <2>1, ConcludeCalm
<1>9. CASE s # 2 /\ harness.onBad # "keep"
  BY <1>2, <1>7, <1>9, ConcludeCalm
<1>10. CASE s # 2 /\ harness.onBad = "keep"
  <2>1. s = 0 /\ Refusal
    BY <1>5, <1>6, <1>10 DEF Outcome
  <2>2. Unwelcome
    BY <1>5, <1>6, <1>10, <2>1 DEF Refusal, Verifies
  <2>3. test = "X4" /\ harness.bundles = "ownStream" /\ harness.peers = "check"
    BY <1>1, <1>3, <1>6, <1>10, <2>2 DEF Unwelcome
  <2> QED BY <1>2, <1>10, <2>3, ConcludeCalm
<1> QED BY <1>8, <1>9, <1>10

(* The probe with an invalid client certificate.                           *)
LEMMA PeerCalmly ==
  ASSUME CalmState, VerdictRight, UNCHANGED <<given, sdk, late, fresh>>, conn' = NoConn,
         conn.phase # "none", Now.do = "peer", NEW s \in 0..3, Found(s),
         Outcome(s)
  PROVE  SDKCalm' /\ StepsCalm' /\ ConnCalm' /\ PollCalm' /\ VerdictRight'
<1>1. /\ at = 1 /\ test \in BadPeerTests /\ test \notin BadSVIDTests
      /\ at + 1 = Len(Script(test))
  BY OtherSteps DEF CalmState
<1>2. /\ s = 0 => Conclude("PASS")
      /\ s # 0 /\ conn.heard = "dash" => Conclude("SKIP")
      /\ s # 0 /\ conn.heard # "dash" => Conclude("FAIL")
  BY <1>1 DEF Found, Proceed
<1>3. harness.peers # "rejectAll" /\ Able
  BY <1>1 DEF CalmState, StepsCalm, Able
<1>4. Expected = IF harness.peers = "check" THEN "PASS"
                 ELSE IF harness.peers = "cannot" /\ harness.version = 1
                 THEN "SKIP" ELSE "FAIL"
  BY <1>1, <1>3, Expectations
<1>5. CASE s = 0
  <2>1. presents # 0
    BY <1>1, Presenting DEF Bad
  <2>2. conn.cert # 0 => Verifies(test, conn.cert)
    BY <1>1 DEF Verifies, BadPeerTests
  <2>3. harness.peers = "check"
    BY <1>3, <1>5, <2>1, <2>2 DEF Refusal, Unwelcome, Outcome
  <2> QED BY <1>2, <1>4, <1>5, <2>3, ConcludeCalm
<1>6. CASE s # 0
  <2>1. Answered /\ harness.peers # "check"
    BY <1>6 DEF CalmState, ConnCalm, Welcome, Outcome
  <2>2. conn.heard = "dash" <=> harness.peers = "cannot" /\ harness.version = 1
    BY <2>1, HarnessKinds DEF CalmState, ConnCalm
  <2>3. CASE conn.heard = "dash"
    BY <1>2, <1>4, <1>6, <2>1, <2>2, <2>3, ConcludeCalm
  <2>4. CASE conn.heard # "dash"
    BY <1>2, <1>4, <1>6, <2>1, <2>2, <2>4, ConcludeCalm
  <2> QED BY <2>3, <2>4
<1> QED BY <1>5, <1>6

LEMMA ProbeCalm ==
  ASSUME CalmState, VerdictRight, DialFails \/ Read \/ ReadTimeout
  PROVE  SDKCalm' /\ StepsCalm' /\ ConnCalm' /\ PollCalm' /\ VerdictRight'
<1>1. /\ UNCHANGED <<given, sdk, late, fresh>> /\ conn' = NoConn
      /\ pc \in {"dialing", "reading"}
  BY ProbeOutcome
<1>2. PICK s \in 0..3 : Found(s) /\ Outcome(s)
  BY ProbeOutcome
<1>3. conn.phase # "none" /\ Now.do \in {"poll", "check", "peer"}
  BY <1>1 DEF CalmState, ConnCalm, InFlight, Probing
<1>4. CASE Now.do = "poll"
  BY <1>1, <1>2, <1>3, <1>4, PollCalmly
<1>5. CASE Now.do = "check"
  BY <1>1, <1>2, <1>3, <1>5, CheckCalmly
<1>6. CASE Now.do = "peer"
  BY <1>1, <1>2, <1>3, <1>6, PeerCalmly
<1> QED BY <1>3, <1>4, <1>5, <1>6
-----------------------------------------------------------------------------
(* No step of the harness touches the verdict.                             *)
LEMMA HarnessCalm ==
  ASSUME CalmState, VerdictRight, HarnessStep
  PROVE  SDKCalm' /\ StepsCalm' /\ ConnCalm' /\ PollCalm' /\ VerdictRight'
<1>1. UNCHANGED <<given, verdict>>
  BY DEF HarnessStep, Receive, ReceiveBundles, Present, Authenticate, Answer, suite
<1>2. VerdictRight'
  BY <1>1 DEF VerdictRight, Expected, given
<1> QED BY <1>2, ReceiveCalm, ReceiveBundlesCalm, PresentCalm, AuthenticateCalm, AnswerCalm
        DEF HarnessStep

(* CalmInv holds throughout every run of a test: in a calm one, what the   *)
(* SDK presents follows from what it has received, a connection shows what *)
(* it presented when the connection began, the harness refuses or answers  *)
(* it only for a reason, and a harness able to pass never makes a poll     *)
(* late.                                                                   *)
THEOREM CalmInvariant == Spec => [](CalmInv /\ VerdictRight)
<1>1. Init => CalmInv /\ VerdictRight
  <2> SUFFICES ASSUME Init PROVE CalmInv /\ VerdictRight
    OBVIOUS
  <2>1. SDKCalm
    BY DEF Init, SDKCalm, StateAt, Bad
  <2>2. StepsCalm
    BY DEF Init, StepsCalm
  <2>3. ConnCalm
    BY DEF Init, ConnCalm, NoConn, Answered
  <2>4. PollCalm
    BY DEF Init, PollCalm
  <2>5. VerdictRight
    BY DEF Init, VerdictRight
  <2> QED BY <2>1, <2>2, <2>3, <2>4, <2>5 DEF CalmInv
<1>2. TypeOK /\ ControlInv /\ CalmInv /\ VerdictRight /\ [Next]_vars => (CalmInv /\ VerdictRight)'
  <2> SUFFICES ASSUME TypeOK, ControlInv, CalmInv, VerdictRight, [Next]_vars
               PROVE  CalmInv' /\ VerdictRight'
    OBVIOUS
  <2>1. UNCHANGED given
    BY DEF Next, vars, HarnessStep, Receive, ReceiveBundles, Present, Authenticate, Answer, Crash, Suite, Deadline,
           Push, Sleep, StartProbe, DialFails, Handshake, Read, ReadTimeout, Cancel, ProbeEnds
  <2>2. CASE ~calm
    BY <2>1, <2>2 DEF given, CalmInv, VerdictRight
  <2>3. CASE calm
    <3>1. CalmState
      BY <2>3 DEF CalmState, CalmInv, ControlInv
    <3>2. CASE UNCHANGED vars
      <4>1. UNCHANGED <<given, sdk, suite, conn, verdict>>
        BY <3>2 DEF vars, suite
      <4>2. SDKCalm' /\ StepsCalm' /\ PollCalm'
        BY <3>1, <4>1, ConnectionOnly
      <4>3. ConnCalm'
        BY <3>1, <4>1, ConnectionOnly DEF CalmState, ConnCalm, Answered, given, sdk, suite
      <4>4. VerdictRight'
        BY <4>1 DEF VerdictRight, Expected, given
      <4> QED BY <4>2, <4>3, <4>4 DEF CalmInv
    <3>3. CASE Next
      <4>1. \/ HarnessStep \/ Push \/ Sleep \/ StartProbe \/ Handshake \/ Deadline
            \/ DialFails \/ Read \/ ReadTimeout
        BY <2>3, <3>3 DEF Next, Suite, Crash, Cancel
      <4>2. SDKCalm' /\ StepsCalm' /\ ConnCalm' /\ PollCalm' /\ VerdictRight'
        BY <3>1, <4>1, HarnessCalm, PushCalm, SleepCalm, StartProbeCalm, WaitingCalm, ProbeCalm
      <4> QED BY <4>2 DEF CalmInv
    <3> QED BY <3>2, <3>3
  <2> QED BY <2>2, <2>3
<1> QED BY <1>1, <1>2, TypeCorrect, ControlInvariant, PTL DEF Spec

(* In a calm run every X.509 test has the verdict the catalogue demands of *)
(* it, on any harness and in any order of updates, handshakes, peer lines  *)
(* and timers (ProbeX509, ClientCertVerdict, the run functions of          *)
(* tests/x509), but for X4 on an SDK with a bundle stream of its own.      *)
THEOREM VerdictsAreRight == Spec => []VerdictRight
  BY CalmInvariant, PTL
=============================================================================
