------------------------------ MODULE X509Tests ------------------------------
(***************************************************************************)
(* One X.509 test case at work: the script of the test (tests/x509), the   *)
(* prober it looks through (internal/prober/x509.go) and the harness under *)
(* test, whose SDK follows the mock server's X.509 stream while it answers *)
(* connections.  Of the server's streams the module uses no more than      *)
(* StateFeed promises, which WorkloadServer implements.                    *)
(*                                                                         *)
(* SVIDs are numbered in the order in which they are served: 1 is the      *)
(* default SVID of the environment, 2 the valid SVID of the test, 3 the    *)
(* SVID it pushes next, which some tests make invalid.                     *)
(***************************************************************************)
EXTENDS Integers, Sequences, FiniteSets

CONSTANTS
  Tests,      \* the test cases to run
  Harnesses   \* the harnesses to run them on

(* version and tls: what the harness speaks.  rotates: the SDK follows     *)
(* updates.  onBad: what it does with an invalid one.  peers: what it does *)
(* with client certificates ("cannot": the contract's peer line "-").      *)
(* bundles: it takes them from FetchX509SVID or from FetchX509Bundles.     *)
HarnessOK(h) ==
  /\ DOMAIN h = {"version", "tls", "rotates", "onBad", "peers", "bundles"}
  /\ h.version \in {0, 1}
  /\ h.tls \in {"1.2", "1.3"}
  /\ h.rotates \in BOOLEAN
  /\ h.onBad \in {"keep", "adopt", "stop"}
  /\ h.peers \in {"check", "acceptAll", "rejectAll", "cannot"}
  /\ h.bundles \in {"svidStream", "ownStream"}

-----------------------------------------------------------------------------
(* The scripts.  push: replace the server's state; poll: probeUntilSPIFFEID*)
(* for this SVID; sleep: 300 ms; check: one probe that must show this      *)
(* SVID; peer: ClientCertVerdict on an invalid client certificate.         *)
Step(do, svid) == [do |-> do, svid |-> svid]

ServeValid  == Step("push", 2)
PollValid   == Step("poll", 2)
PushUpdate  == Step("push", 3)
PollUpdate  == Step("poll", 3)
Wait        == Step("sleep", 3)
StillValid  == Step("check", 2)
PollDefault == Step("poll", 1)
BadClient   == Step("peer", 1)

BadSVIDTests == {"X3", "X4", "X5", "X6", "X7", "X8", "X9"}
BadPeerTests == {"X10", "X11", "X12", "X13"}
AllTests     == {"X1", "X2"} \cup BadSVIDTests \cup BadPeerTests

Script(t) ==
  CASE t = "X1"            -> <<ServeValid, PollValid>>
    [] t = "X2"            -> <<ServeValid, PollValid, PushUpdate, PollUpdate>>
    [] t \in BadSVIDTests  -> <<ServeValid, PollValid, PushUpdate, Wait, StillValid>>
    [] t \in BadPeerTests  -> <<PollDefault, BadClient>>

(* The invalid SVIDs that the prober itself refuses, because their chain   *)
(* does not verify against the test CA: wrong signature, foreign CA,       *)
(* expired.                                                                *)
Verifies(t, svid) == ~(svid = 3 /\ t \in {"X3", "X4", "X5"})

Bad(t, svid) == svid = 3 /\ t \in BadSVIDTests

(* What FetchX509Bundles sends with the state that serves an SVID: a       *)
(* bundle for the trust domain of the state, which ServeX509 gives and X4  *)
(* and X9 leave empty, or else for that of its SVID.                       *)
Served(t, svid) ==
  [trustDomain |-> IF svid = 3 /\ t \in {"X4", "X9"} THEN "" ELSE "test",
   of          |-> IF svid = 3 /\ t = "X4" THEN "foreign" ELSE "test"]

TrustDomainOf(state) == IF state.trustDomain # "" THEN state.trustDomain ELSE state.of

Bundles(t, svid) == {TrustDomainOf(Served(t, svid))}

ASSUME TestsAssumption ==
  /\ Tests \subseteq AllTests
  /\ \A h \in Harnesses : HarnessOK(h)

VARIABLES
  test, harness,  \* what is run on what
  calm,       \* the harness acts within the suite's time limits and does not
              \* exit, and nobody cancels the test's context
  \* the server and the SDK
  current,    \* the SVID served last
  delivered,  \* the one the SDK received last
  presents,   \* the one the SDK presents, 0 if none
  bundled,    \* the one whose state the SDK has the bundles of, if they have
              \* a stream of their own
  up,         \* the harness runs
  conn,       \* the connection between prober and harness
  \* the test
  at,         \* how many steps of the script are done
  pc,         \* what the current step is doing
  late,       \* the deadline of the current poll has passed
  fresh,      \* the last probe began with the SDK up to date
  verdict,
  \* history
  admitted,   \* the SVIDs presented to a valid client that was authenticated
  refused     \* the SDK has refused the invalid client certificate

sdk  == <<current, delivered, presents, bundled, up>>
suite == <<at, pc, late, fresh, verdict>>
given == <<test, harness, calm>>
vars == <<given, sdk, conn, suite, admitted, refused>>

NoConn == [phase |-> "none", cert |-> 0, heard |-> "nothing"]

Init ==
  /\ test \in Tests
  /\ harness \in Harnesses
  /\ calm \in BOOLEAN
  /\ current = 1 /\ delivered = 1 /\ presents = 1 /\ bundled = 1 /\ up = TRUE
  /\ conn = NoConn
  /\ at = 0 /\ pc = "step" /\ late = FALSE /\ fresh = FALSE /\ verdict = "none"
  /\ admitted = {} /\ refused = FALSE

Now == Script(test)[at + 1]
Probing == Now.do \in {"poll", "check", "peer"}
-----------------------------------------------------------------------------
(* The harness.  Its SDK may take any time over any step.                  *)

(* A state arrives on the stream and the SDK makes up its mind about it.   *)
Receive ==
  /\ up
  /\ \E v \in (delivered + 1)..current : delivered' = v
  /\ presents' =
       IF Bad(test, delivered')
       THEN CASE harness.onBad = "keep"  -> presents
              [] harness.onBad = "adopt" -> delivered'
              [] harness.onBad = "stop"  -> 0
       ELSE IF harness.rotates THEN delivered' ELSE presents
  /\ UNCHANGED <<given, current, bundled, up, conn, suite, admitted, refused>>

(* It takes the bundles of a state as they come.                           *)
ReceiveBundles ==
  /\ up /\ harness.bundles = "ownStream"
  /\ \E v \in (bundled + 1)..current : bundled' = v
  /\ UNCHANGED <<given, current, delivered, presents, up, conn, suite, admitted, refused>>

Crash ==
  /\ ~calm
  /\ up
  /\ pc # "done"
  /\ up' = FALSE
  /\ conn' = IF conn.phase # "none" /\ conn.heard = "nothing"
             THEN [conn EXCEPT !.phase = "over", !.heard = "closed"]
             ELSE conn
  /\ UNCHANGED <<given, current, delivered, presents, bundled, suite, admitted, refused>>

(* ServerHello with the SVID of the moment; no SVID, no handshake.         *)
Present ==
  /\ up
  /\ conn.phase = "hello"
  /\ conn' = IF presents = 0 THEN [conn EXCEPT !.phase = "over", !.heard = "closed"]
             ELSE [conn EXCEPT !.phase = "presented", !.cert = presents]
  /\ UNCHANGED <<given, sdk, suite, admitted, refused>>

(* The certificate of a client of the test trust domain is verified with   *)
(* the bundle of that domain.                                              *)
HasBundle == harness.bundles = "ownStream" => "test" \in Bundles(test, bundled)

Authenticates ==
  CASE harness.peers = "check"      -> Now.do # "peer" /\ HasBundle
    [] harness.peers = "rejectAll" -> FALSE
    [] OTHER                        -> TRUE

(* The client certificate is looked at, after the client has completed its *)
(* handshake under TLS 1.3 and before under TLS 1.2.                       *)
Authenticate ==
  /\ up
  /\ conn.phase = "presented"
  /\ Verifies(test, conn.cert)
  /\ harness.tls = "1.3" => pc = "reading"
  /\ conn' = [conn EXCEPT !.phase = IF Authenticates THEN "accepted" ELSE "refused"]
  /\ admitted' = IF Authenticates /\ Now.do # "peer" THEN admitted \cup {conn.cert} ELSE admitted
  /\ refused' = (refused \/ (Now.do = "peer" /\ ~Authenticates))
  /\ UNCHANGED <<given, sdk, suite>>

(* A v1 harness writes the peer line and closes; a v0 harness holds the    *)
(* connection open.  Both abort a connection they refuse.                  *)
Answer ==
  /\ up
  /\ conn.phase \in {"accepted", "refused"}
  /\ conn' = [conn EXCEPT
       !.phase = "over",
       !.heard = CASE conn.phase = "refused"      -> "closed"
                   [] conn.phase = "accepted" /\ harness.version = 0 -> "nothing"
                   [] conn.phase = "accepted" /\ harness.version = 1 ->
                        IF harness.peers = "cannot" THEN "dash" ELSE "line"]
  /\ UNCHANGED <<given, sdk, suite, admitted, refused>>

HarnessStep == Receive \/ ReceiveBundles \/ Present \/ Authenticate \/ Answer

(* What the timers of the suite wait for in a calm run: the harness has    *)
(* done all it is going to do.                                             *)
UpToDate == delivered = current /\ (harness.bundles = "ownStream" => bundled = current)
Settled  == UpToDate /\ conn.phase \in {"none", "over"}
TimeUp   == calm => Settled
-----------------------------------------------------------------------------
(* The test.                                                               *)

Conclude(v) ==
  /\ verdict' = v
  /\ pc' = "done"
  /\ UNCHANGED at

(* The step has succeeded; the script's last one makes the test pass.      *)
Proceed ==
  IF at + 1 = Len(Script(test)) THEN Conclude("PASS")
  ELSE at' = at + 1 /\ pc' = "step" /\ UNCHANGED verdict

Push ==
  /\ pc = "step"
  /\ Now.do = "push"
  /\ current' = Now.svid
  /\ Proceed
  /\ UNCHANGED <<given, delivered, presents, bundled, up, conn, late, fresh, admitted, refused>>

Sleep ==
  /\ pc = "step"
  /\ Now.do = "sleep"
  /\ TimeUp
  /\ Proceed
  /\ UNCHANGED <<given, sdk, conn, late, fresh, admitted, refused>>

StartProbe ==
  /\ pc \in {"step", "pause"}
  /\ Probing
  /\ conn' = [NoConn EXCEPT !.phase = "hello"]
  /\ pc' = "dialing"
  /\ late' = (late /\ pc = "pause")
  /\ fresh' = UpToDate
  /\ UNCHANGED <<given, sdk, at, verdict, admitted, refused>>

(* What comes of a probe: the SVID seen and the peer line read, or an      *)
(* error (svid 0), to the step that made it.                               *)
Found(svid) ==
  CASE Now.do = "poll" ->
         IF svid = Now.svid THEN Proceed
         ELSE IF late THEN Conclude("FAIL")
         ELSE pc' = "pause" /\ UNCHANGED <<at, verdict>>
    [] Now.do = "check" -> IF svid = Now.svid THEN Proceed ELSE Conclude("FAIL")
    [] Now.do = "peer" ->
         IF svid = 0 THEN Proceed
         ELSE IF conn.heard = "dash" THEN Conclude("SKIP")
         ELSE Conclude("FAIL")

ProbeEnds(svid) ==
  /\ Found(svid)
  /\ conn' = NoConn
  /\ UNCHANGED <<given, sdk, late, fresh, admitted, refused>>

(* tls.DialWithDialer: no harness, an aborted handshake, a chain that does *)
(* not verify, or the dialer's 5 s.                                        *)
DialFails ==
  /\ pc = "dialing"
  /\ \/ ~up
     \/ conn.heard = "closed"
     \/ conn.phase = "presented" /\ ~Verifies(test, conn.cert)
     \/ ~calm
  /\ ProbeEnds(0)

HandshakeDone ==
  /\ conn.phase # "hello"
  /\ harness.tls = "1.2" => conn.phase # "presented"
  /\ conn.heard # "closed" /\ conn.phase # "refused"

Handshake ==
  /\ pc = "dialing"
  /\ conn.cert # 0 /\ Verifies(test, conn.cert)
  /\ HandshakeDone
  /\ pc' = "reading"
  /\ UNCHANGED <<given, sdk, conn, at, late, fresh, verdict, admitted, refused>>

(* Mutant: a completed handshake is taken for acceptance.                  *)
DialAccepts == conn.cert
Accepted    == IF conn.heard = "closed" THEN 0 ELSE conn.cert

Read ==
  /\ pc = "reading"
  /\ conn.heard # "nothing"
  /\ ProbeEnds(Accepted)

(* The read deadline: 250 ms for a v0 harness, 5 s for the peer line of v1.*)
(* Mutants: silence is acceptance whatever the version; no read deadline.  *)
SilenceAccepts == TRUE
SilenceMeans   == harness.version = 0

NoDeadline    == FALSE
ReadDeadline  == TimeUp

ReadTimeout ==
  /\ pc = "reading"
  /\ conn.heard = "nothing"
  /\ ReadDeadline
  /\ ProbeEnds(IF SilenceMeans THEN conn.cert ELSE 0)

(* The deadline of probeUntilSPIFFEID, looked at after a probe has failed. *)
Deadline ==
  /\ pc \in {"dialing", "reading", "pause"}
  /\ Now.do = "poll"
  /\ ~late
  /\ calm => Settled /\ fresh /\ pc = "pause"
  /\ late' = TRUE
  /\ UNCHANGED <<given, sdk, conn, at, pc, fresh, verdict, admitted, refused>>

Cancel ==
  /\ ~calm
  /\ pc = "pause"
  /\ Conclude("FAIL")
  /\ UNCHANGED <<given, sdk, conn, late, fresh, admitted, refused>>

Suite ==
  \/ Push \/ Sleep \/ StartProbe \/ DialFails \/ Handshake \/ Read \/ ReadTimeout \/ Cancel

Next == HarnessStep \/ Crash \/ Suite \/ Deadline

Spec == Init /\ [][Next]_vars

(* The suite's own steps and timers happen; of the harness nothing is      *)
(* assumed but that it acts at all in a calm run.  A poll that goes on for *)
(* ever passes its deadline, although there it is not reached at any       *)
(* moment: hence the strong fairness.                                      *)
FairSpec ==
  /\ Spec
  /\ WF_vars(Suite) /\ SF_vars(Deadline)
  /\ WF_vars(calm /\ Receive) /\ WF_vars(calm /\ ReceiveBundles)
  /\ WF_vars(calm /\ (Present \/ Authenticate \/ Answer))
-----------------------------------------------------------------------------
(* Every variable holds what the code can put in it.                       *)
TypeOK ==
  /\ test \in Tests /\ harness \in Harnesses /\ calm \in BOOLEAN
  /\ current \in 1..3 /\ delivered \in 1..3 /\ presents \in 0..3 /\ bundled \in 1..3
  /\ up \in BOOLEAN /\ late \in BOOLEAN /\ fresh \in BOOLEAN /\ refused \in BOOLEAN
  /\ conn \in [phase : {"none", "hello", "presented", "accepted", "refused", "over"},
               cert : 0..3, heard : {"nothing", "line", "dash", "closed"}]
  /\ at \in 0..(Len(Script(test)) - 1)
  /\ pc \in {"step", "dialing", "reading", "pause", "done"}
  /\ verdict \in {"none", "PASS", "FAIL", "SKIP"}
  /\ admitted \subseteq 0..3

(* What the catalogue demands of the SDK in each test.                     *)
Expected ==
  CASE harness.peers = "rejectAll" -> "FAIL"
    [] harness.peers # "rejectAll" /\ test \in {"X1", "X2"} ->
         IF harness.rotates THEN "PASS" ELSE "FAIL"
    [] harness.peers # "rejectAll" /\ test \in BadSVIDTests ->
         IF harness.rotates /\ harness.onBad = "keep" THEN "PASS" ELSE "FAIL"
    [] harness.peers # "rejectAll" /\ test \in BadPeerTests ->
         IF harness.peers = "check" THEN "PASS"
         ELSE IF harness.peers = "cannot" /\ harness.version = 1 THEN "SKIP" ELSE "FAIL"

(* In a calm run every test has the verdict the catalogue demands, on any  *)
(* harness, whatever the order in which updates, handshakes, peer lines    *)
(* and timers happen and whichever TLS version the harness speaks          *)
(* (ProbeX509, ClientCertVerdict, the run functions).  X4 is the exception *)
(* for an SDK that takes its bundles from FetchX509Bundles.                *)
VerdictRight ==
  calm /\ verdict # "none" =>
    \/ verdict = Expected
    \/ test = "X4" /\ harness.bundles = "ownStream" /\ harness.peers = "check"

(* Rule 1 of the catalogue, for the v1 tests: a test passes only on a      *)
(* harness that, in that very run, presented the valid SVIDs of the test   *)
(* to a client it authenticated; one that rejects everything never passes, *)
(* however slow it is and whenever it crashes.                             *)
PassHasPositiveControl ==
  verdict = "PASS" /\ harness.version = 1 =>
    \A i \in 1..Len(Script(test)) :
      Script(test)[i].do \in {"poll", "check"} => Script(test)[i].svid \in admitted

(* Every test ends, whatever the harness does: each wait of the prober and *)
(* of probeUntilSPIFFEID has a limit.                                      *)
TestEnds == <>(pc = "done")
-----------------------------------------------------------------------------
(* Statements of the documentation that the code does not keep.            *)

(* "The mock server serves FetchX509Bundles correctly, so SDKs that use it *)
(* are not penalised" (TEST_CATALOGUE.md): one that does what the          *)
(* catalogue demands passes.                                               *)
BundleUsersNotPenalised ==
  calm /\ verdict # "none" /\ harness.bundles = "ownStream" /\ Expected = "PASS" => verdict = "PASS"

(* "Negative test cases pass only on rejected ... so a broken harness      *)
(* can't pass negative tests" (HARNESS_CONTRACT.md): a test that passes on *)
(* a harness that has exited has seen its SDK refuse the certificate.      *)
BrokenHarnessCannotPass ==
  verdict = "PASS" /\ test \in BadPeerTests /\ ~up => refused
=============================================================================
