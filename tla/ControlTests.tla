---------------------------- MODULE ControlTests ----------------------------
(***************************************************************************)
(* One test case that asks the harness to act: the JWT tests (tests/jwt)   *)
(* and XV-1/client (tests/x509/dial.go), through ValidateJWT,              *)
(* FetchJWTFromSDK and DialFromSDK (suite/env.go) and the probers of the   *)
(* control port and of the v0 JWT port (internal/prober).  On the other    *)
(* side are the harness and its SDK, which follows the mock server's       *)
(* stream of JWT bundles while it answers calls.                           *)
(*                                                                         *)
(* JWT states are numbered in the order in which they are served: 1 is the *)
(* default state of the environment, 2 the state of the test, which holds  *)
(* the same signing key, 3 the state of J13, which holds a new key only.   *)
(***************************************************************************)
EXTENDS Integers, Sequences, FiniteSets

CONSTANTS
  Tests,      \* the test cases to run
  Harnesses   \* the harnesses to run them on

(* version: of the contract.  port: how the control port (v0: the JWT      *)
(* port) answers; a flaky one may fail at any call.  judges: what the SDK  *)
(* makes of a token or a server certificate.  bundle: what it does with    *)
(* updates of the bundle, or that it asks the server instead.  first: what *)
(* it does before the first bundle.  fetch: how it fetches tokens.  tls,   *)
(* client: what it speaks as a client and the certificate it presents.     *)
HarnessOK(h) ==
  /\ DOMAIN h = {"version", "port", "judges", "bundle", "first", "fetch", "tls", "client"}
  /\ h.version \in {0, 1}
  /\ h.port \in {"contract", "always200", "noJson", "noRoute", "unsupported", "flaky"}
  /\ h.judges \in {"right", "acceptsAll", "rejectsAll", "wrongId"}
  /\ h.bundle \in {"follows", "merges", "ignores", "delegates"}
  /\ h.first \in {"waits", "rejects"}
  /\ h.fetch \in {"asks", "asksAnother", "cached", "chatty"}
  /\ h.tls \in {"1.2", "1.3"}
  /\ h.client \in {"default", "other", "none", "stalls"}

-----------------------------------------------------------------------------
(* The scripts.  serve: set the JWT state; accept, reject: one call of     *)
(* ValidateJWT that must accept or reject the token; poll: the loop of J13;*)
(* fetch: FetchJWTFromSDK and the look at the server's record after it;    *)
(* dial: DialFromSDK.                                                      *)
Step(do, what) == [do |-> do, what |-> what]

NegativeTests == {"J2", "J3", "J4", "J5", "J6", "J7", "J8", "J10", "J11", "J12"}
AllTests      == {"J1", "J9", "J13", "JF-1", "XV-1/client"} \cup NegativeTests

ServeBundle   == Step("serve", 2)
AcceptControl == Step("accept", "oldKey")
RejectInvalid == Step("reject", "noKey")

ServeRotated == Step("serve", 3)
PollNewKey   == Step("poll", "newKey")
RejectOldKey == Step("reject", "oldKey")

Script(t) ==
  CASE t = "J1"            -> <<ServeBundle, AcceptControl>>
    [] t \in NegativeTests -> <<ServeBundle, AcceptControl, RejectInvalid>>
    [] t = "J9"            -> <<ServeBundle, AcceptControl, RejectInvalid, RejectInvalid>>
    [] t = "J13"           -> <<ServeBundle, AcceptControl, ServeRotated, PollNewKey, RejectOldKey>>
    [] t = "JF-1"          -> <<ServeBundle, Step("fetch", "requested")>>
    [] t = "XV-1/client"   -> <<Step("dial", "default")>>

KeyOf(state) == IF state = 3 THEN "newKey" ELSE "oldKey"

ASSUME TestsAssumption ==
  /\ Tests \subseteq AllTests
  /\ \A h \in Harnesses : HarnessOK(h)

VARIABLES
  test, harness,  \* what is run on what
  calm,       \* the harness acts within the suite's time limits and does not
              \* exit, and nobody cancels the test's context
  \* the server and the SDK
  current,    \* the JWT state set last
  delivered,  \* the one whose bundle the SDK received last, 0 for none yet
  trusted,    \* the keys the SDK trusts
  up,         \* the harness runs
  asked,      \* the audience of the last FetchJWTSVID the server has recorded
  \* the test
  call,       \* the call in flight, and the answer to it
  ln,         \* the listener of DialFromSDK, its goroutine and its connection
  at,         \* how many steps of the script are done
  pc,         \* what the current step is doing
  late,       \* the deadline of J13 has passed
  fresh,      \* the last call began with the SDK up to date
  verdict,
  \* history
  decided     \* the decisions the SDK has taken: <<step of the script, decision>>

given == <<test, harness, calm>>
sdk   == <<current, delivered, trusted, up, asked>>
suite == <<at, pc, late, fresh, verdict>>
vars  == <<given, sdk, call, ln, suite, decided>>

Now == Script(test)[at + 1]

NoAnswer   == [http |-> 0, json |-> FALSE, status |-> "", id |-> ""]
NoCall     == [phase |-> "none", answer |-> NoAnswer]
NoListener == [open |-> FALSE, server |-> "none", conn |-> "none", id |-> ""]
Listening  == [open |-> TRUE, server |-> "accepting", conn |-> "none", id |-> ""]

(* READY tells of an X.509-SVID only: the first bundle may still be on its *)
(* way.                                                                    *)
Init ==
  /\ test \in Tests
  /\ harness \in Harnesses
  /\ calm \in BOOLEAN
  /\ current = 1 /\ up = TRUE /\ asked = "none"
  /\ delivered \in {0, 1}
  /\ trusted = IF delivered = 0 THEN {} ELSE {"oldKey"}
  /\ call = NoCall /\ ln = NoListener
  /\ at = 0 /\ pc = "step" /\ late = FALSE /\ fresh = FALSE /\ verdict = "none"
  /\ decided = {}
-----------------------------------------------------------------------------
(* The harness.                                                            *)

(* A bundle arrives, possibly not the next one (StateFeed).                *)
Receive ==
  /\ up
  /\ \E v \in (delivered + 1)..current :
       /\ delivered' = v
       /\ trusted' = CASE harness.bundle = "merges" -> trusted \cup {KeyOf(v)}
                       [] harness.bundle = "ignores" /\ trusted # {} -> trusted
                       [] harness.bundle = "ignores" /\ trusted = {} -> {KeyOf(v)}
                       [] harness.bundle \in {"follows", "delegates"} -> {KeyOf(v)}
  /\ UNCHANGED <<given, current, up, asked, call, ln, suite, decided>>

(* An SDK that refreshes its tokens in the background.                     *)
Refresh ==
  /\ up
  /\ harness.fetch = "chatty"
  /\ pc # "done"
  /\ asked' = "another"
  /\ UNCHANGED <<given, current, delivered, trusted, up, call, ln, suite, decided>>

Crash ==
  /\ ~calm
  /\ up
  /\ pc # "done"
  /\ up' = FALSE
  /\ ln' = IF ln.conn = "open" THEN [ln EXCEPT !.conn = "dropped"] ELSE ln
  /\ UNCHANGED <<given, current, delivered, trusted, asked, call, suite, decided>>

(* ValidateJWTSVID looks at the server's current state.                    *)
Keys == IF harness.bundle = "delegates" THEN {KeyOf(current)} ELSE trusted

Judgement ==
  CASE harness.judges = "acceptsAll" -> "ok"
    [] harness.judges = "rejectsAll" -> "rejected"
    [] harness.judges \in {"right", "wrongId"} ->
         IF Now.what \in Keys THEN "ok" ELSE "rejected"

StatusFor == [ok |-> 200, rejected |-> 422, error |-> 500, unsupported |-> 501]

HttpOf(decision) ==
  CASE harness.port = "always200" -> 200
    [] harness.port # "always200" /\ harness.version = 0 -> IF decision = "ok" THEN 200 ELSE 401
    [] harness.port # "always200" /\ harness.version = 1 -> StatusFor[decision]

Answer(decision) ==
  [http |-> HttpOf(decision), json |-> TRUE,
   status |-> IF harness.version = 0 /\ decision = "ok" THEN "valid" ELSE decision,
   id |-> IF harness.judges = "wrongId" THEN "other" ELSE "right"]

Reply(answer) == call' = [phase |-> "answered", answer |-> answer]
Decide(decision) ==
  /\ Reply(Answer(decision))
  /\ decided' = decided \cup {<<at + 1, decision>>}

Asked(do) == up /\ call.phase = "sent" /\ Now.do \in do
Working   == harness.port \in {"contract", "always200", "flaky"}

Validate ==
  /\ Asked({"accept", "reject", "poll"})
  /\ Working
  /\ Keys = {} => harness.first = "rejects"
  /\ Decide(Judgement)
  /\ UNCHANGED <<given, sdk, ln, suite>>

(* The SDK calls FetchJWTSVID, or has a token already.                     *)
Fetch ==
  /\ Asked({"fetch"})
  /\ Working
  /\ Reply([Answer("ok") EXCEPT !.id = IF harness.fetch = "cached" THEN "other" ELSE "right"])
  /\ asked' = CASE harness.fetch \in {"asks", "chatty"} -> "requested"
                [] harness.fetch = "asksAnother"       -> "another"
                [] harness.fetch = "cached"             -> asked
  /\ UNCHANGED <<given, current, delivered, trusted, up, ln, suite, decided>>

(* The three steps of a dial: the TCP connection; the client's part of the *)
(* handshake, once the server has shown its certificate; the answer.       *)
Connect ==
  /\ Asked({"dial"})
  /\ Working
  /\ ln.conn = "none"
  /\ ln' = [ln EXCEPT !.conn = "open"]
  /\ UNCHANGED <<given, sdk, call, suite, decided>>

Negotiate ==
  /\ Asked({"dial"})
  /\ ln.conn = "open" /\ ln.server = "handshaking"
  /\ harness.client # "stalls"
  /\ ln' = [ln EXCEPT !.conn = IF harness.judges = "rejectsAll" THEN "dropped" ELSE "finished"]
  /\ UNCHANGED <<given, sdk, call, suite, decided>>

(* Under TLS 1.3 the client has finished before the server has looked at   *)
(* its certificate; under TLS 1.2 it waits for the server's answer.        *)
Dialed ==
  \/ ln.conn = "finished" /\ (harness.tls = "1.2" => ln.server = "gone") /\
       Decide(IF harness.tls = "1.2" /\ ln.id = "" THEN "rejected" ELSE "ok")
  \/ (ln.conn = "dropped" \/ (ln.conn = "open" /\ harness.client = "stalls")) /\ Decide("rejected")

DialAnswer ==
  /\ Asked({"dial"})
  /\ Dialed
  /\ UNCHANGED <<given, sdk, ln, suite>>

(* A port on which the SDK gets no say.                                    *)
Decline ==
  /\ Asked({"accept", "reject", "poll", "fetch", "dial"})
  /\ harness.port \notin {"contract", "always200"}
  /\ Reply(CASE harness.port = "noJson"     -> [NoAnswer EXCEPT !.http = 500]
             [] harness.port = "noRoute"    -> [NoAnswer EXCEPT !.http = 404]
             [] harness.port = "unsupported" ->
                  [NoAnswer EXCEPT !.http = 501, !.json = TRUE, !.status = "unsupported"]
             [] harness.port = "flaky"       ->
                  [NoAnswer EXCEPT !.http = 500, !.json = TRUE, !.status = "error"])
  /\ UNCHANGED <<given, sdk, ln, suite, decided>>

Respond == Validate \/ Fetch \/ Connect \/ Negotiate \/ DialAnswer \/ Decline
-----------------------------------------------------------------------------
(* The goroutine of DialFromSDK: one connection, one handshake, the        *)
(* client's ID if it has shown a certificate.                              *)

Accept ==
  /\ ln.server = "accepting"
  /\ ln.conn # "none"
  /\ ln' = [ln EXCEPT !.server = "handshaking"]

AcceptFails ==
  /\ ln.server = "accepting"
  /\ ~ln.open
  /\ ln' = [ln EXCEPT !.server = "gone"]

(* Mutant: the peer's first certificate is taken without a look at how     *)
(* many there are.                                                         *)
FirstCert == harness.client
PeerCert  == IF harness.client = "none" THEN "" ELSE harness.client

Verify ==
  /\ ln.server = "handshaking"
  /\ ln.conn = "finished"
  /\ ln' = [ln EXCEPT !.server = "gone", !.id = PeerCert]

(* The client has gone, or the 10 s of the handshake are over.             *)
HandshakeFails ==
  /\ ln.server = "handshaking"
  /\ \/ ln.conn = "dropped" \/ ~calm
     \/ ln.conn = "open" /\ (harness.client = "stalls" \/ call.phase # "sent")
  /\ ln' = [ln EXCEPT !.server = "gone", !.conn = IF ln.conn = "open" THEN "dropped" ELSE @]

Server ==
  /\ Accept \/ AcceptFails \/ Verify \/ HandshakeFails
  /\ UNCHANGED <<given, sdk, call, suite, decided>>
-----------------------------------------------------------------------------
(* The test.                                                               *)

Conclude(v) ==
  /\ verdict' = v
  /\ pc' = "done"
  /\ UNCHANGED at

(* The step has succeeded; the script's last one makes the test pass.      *)
Proceed ==
  IF at + 1 = Len(Script(test)) THEN Conclude("PASS")
  ELSE at' = at + 1 /\ pc' = "step" /\ UNCHANGED verdict

Serve ==
  /\ pc = "step"
  /\ Now.do = "serve"
  /\ current' = Now.what
  /\ Proceed
  /\ UNCHANGED <<given, delivered, trusted, up, asked, call, ln, late, fresh, decided>>

(* A v0 harness has no control port.                                       *)
NeedsControl ==
  /\ pc = "step"
  /\ Now.do \in {"fetch", "dial"} /\ harness.version = 0
  /\ Conclude("SKIP")
  /\ UNCHANGED <<given, sdk, call, ln, late, fresh, decided>>

StartCall ==
  /\ pc \in {"step", "pause"}
  /\ Now.do # "serve"
  /\ Now.do \in {"fetch", "dial"} => harness.version = 1
  /\ call' = [NoCall EXCEPT !.phase = "sent"]
  /\ ln' = IF Now.do = "dial" THEN Listening ELSE ln
  /\ pc' = "calling"
  /\ late' = (late /\ pc = "pause")
  /\ fresh' = (delivered = current)
  /\ UNCHANGED <<given, sdk, at, verdict, decided>>

(* Mutant: the listener is closed on the way out of a call that succeeds.  *)
LeaveOpen == ln
CloseLn   == [ln EXCEPT !.open = FALSE]

(* The harness is gone, or its time is up: 10 s on the control port, 5 s   *)
(* on the JWT port.  Mutants: no timeout; a failed call is a rejection, as *)
(* it is for ClientCertVerdict.                                            *)
NoTimeout  == ~up
Unanswered == ~up \/ ~calm

CallRejected == Conclude(IF Now.do = "reject" THEN "PASS" ELSE "FAIL")
CallError    == Conclude("ERROR")

CallFails ==
  /\ pc = "calling"
  /\ Unanswered
  /\ CallError
  /\ call' = NoCall /\ ln' = CloseLn
  /\ UNCHANGED <<given, sdk, late, fresh, decided>>

(* What the probers make of an answer: Control.post, and ProbeJWT with the *)
(* conversion of ValidateJWT.                                              *)
PostOutcome(a) ==
  IF a.json
  THEN IF a.status \in DOMAIN StatusFor /\ StatusFor[a.status] = a.http THEN a.status ELSE "failure"
  ELSE IF a.http \in {404, 501} THEN "unsupported" ELSE "failure"

ProbeOutcome(a) ==
  IF ~a.json THEN "failure" ELSE IF a.http = 200 /\ a.status = "valid" THEN "ok" ELSE "rejected"

(* Mutant: an SDK that could not decide has rejected.                      *)
ErrorRejects(a) ==
  IF harness.version = 0 THEN ProbeOutcome(a)
  ELSE IF a.status = "error" THEN "rejected" ELSE PostOutcome(a)
Outcome(a) == IF harness.version = 0 THEN ProbeOutcome(a) ELSE PostOutcome(a)

Passes(outcome, a) ==
  CASE Now.do = "reject" -> outcome = "rejected"
    [] Now.do = "poll"   -> outcome = "ok"
    [] Now.do = "accept" -> outcome = "ok" /\ a.id = "right"
    [] Now.do = "fetch"  -> outcome = "ok" /\ a.id = "right" /\ asked = Now.what
    [] Now.do = "dial"   -> outcome = "ok" /\ a.id = "right" /\ ln.id = Now.what

Fails(outcome) ==
  outcome = "failure" \/ (outcome = "error" /\ Now.do # "fetch")

Judge(outcome, a) ==
  IF outcome = "unsupported" THEN Conclude("SKIP")
  ELSE IF Fails(outcome) THEN Conclude("ERROR")
  ELSE IF Passes(outcome, a) THEN Proceed
  ELSE IF Now.do = "poll" /\ ~late THEN pc' = "pause" /\ UNCHANGED <<at, verdict>>
  ELSE Conclude("FAIL")

(* DialFromSDK closes its listener and waits for its goroutine before it   *)
(* looks at an answer of the control port.  Mutant: it does not wait.      *)
NotWaiting == TRUE
Waited     == ln.server = "gone"

Answered ==
  /\ pc \in {"calling", "waiting"}
  /\ call.phase = "answered"
  /\ \/ Now.do # "dial"
     \/ Outcome(call.answer) = "failure"
     \/ pc = "waiting" /\ Waited
  /\ Judge(Outcome(call.answer), call.answer)
  /\ call' = NoCall /\ ln' = CloseLn
  /\ UNCHANGED <<given, sdk, late, fresh, decided>>

AwaitServer ==
  /\ pc = "calling"
  /\ Now.do = "dial"
  /\ call.phase = "answered" /\ Outcome(call.answer) # "failure"
  /\ ln' = [ln EXCEPT !.open = FALSE]
  /\ pc' = "waiting"
  /\ UNCHANGED <<given, sdk, call, at, late, fresh, verdict, decided>>

(* The deadline of J13, looked at after a call that has not accepted.      *)
Deadline ==
  /\ pc \in {"calling", "pause"}
  /\ Now.do = "poll"
  /\ ~late
  /\ calm => delivered = current /\ fresh /\ pc = "pause"
  /\ late' = TRUE
  /\ UNCHANGED <<given, sdk, call, ln, at, pc, fresh, verdict, decided>>

Cancel ==
  /\ ~calm
  /\ pc = "pause"
  /\ Conclude("FAIL")
  /\ UNCHANGED <<given, sdk, call, ln, late, fresh, decided>>

Suite == Serve \/ NeedsControl \/ StartCall \/ CallFails \/ Answered \/ AwaitServer \/ Cancel

Next == Receive \/ Refresh \/ Crash \/ Respond \/ Server \/ Suite \/ Deadline

Spec == Init /\ [][Next]_vars

(* As in X509Tests: the suite and its timers act, the harness does so in a *)
(* calm run.                                                               *)
FairSpec ==
  /\ Spec
  /\ WF_vars(Suite) /\ SF_vars(Deadline) /\ WF_vars(Server)
  /\ WF_vars(calm /\ Receive) /\ WF_vars(calm /\ Respond)
-----------------------------------------------------------------------------
Status == {"", "ok", "valid", "rejected", "error", "unsupported"}

TypeOK ==
  /\ test \in Tests /\ harness \in Harnesses /\ calm \in BOOLEAN
  /\ current \in 1..3 /\ delivered \in 0..current
  /\ trusted \subseteq {"oldKey", "newKey"} /\ (trusted = {} <=> delivered = 0)
  /\ up \in BOOLEAN /\ late \in BOOLEAN /\ fresh \in BOOLEAN
  /\ asked \in {"none", "requested", "another"}
  /\ call \in [phase : {"none", "sent", "answered"},
               answer : [http : {0, 200, 401, 404, 422, 500, 501}, json : BOOLEAN,
                         status : Status, id : {"", "right", "other"}]]
  /\ ln \in [open : BOOLEAN, server : {"none", "accepting", "handshaking", "gone"},
             conn : {"none", "open", "finished", "dropped"}, id : {"", "default", "other"}]
  /\ at \in 0..(Len(Script(test)) - 1)
  /\ pc \in {"step", "calling", "waiting", "pause", "done"}
  /\ verdict \in {"none", "PASS", "FAIL", "SKIP", "ERROR"}
  /\ decided \subseteq (1..Len(Script(test))) \X {"ok", "rejected"}

(* A harness whose answers keep the contract, and whose SDK neither        *)
(* rejects for want of a bundle nor fetches tokens unasked.                *)
KeepsContract ==
  /\ harness.port = "contract" \/ (harness.version = 1 /\ harness.port \in {"noRoute", "unsupported"})
  /\ harness.first = "waits"
  /\ harness.fetch # "chatty"

(* What the SDK does right in the tests of each kind.                      *)
Conforms ==
  CASE test = "JF-1" -> harness.fetch = "asks"
    [] test = "XV-1/client" ->
         harness.client = "default" /\ harness.judges \in {"right", "acceptsAll"}
    [] test = "J1"  -> harness.judges \in {"right", "acceptsAll"}
    [] test = "J13" -> harness.judges = "right" /\ harness.bundle \in {"follows", "delegates"}
    [] test \in NegativeTests \cup {"J9"} -> harness.judges = "right"

Skipped ==
  \/ harness.version = 0 /\ test \in {"JF-1", "XV-1/client"}
  \/ harness.port \in {"noRoute", "unsupported"}

Expected == IF Skipped THEN "SKIP" ELSE IF Conforms THEN "PASS" ELSE "FAIL"

(* In a calm run on a harness that keeps the contract each test has the    *)
(* verdict the catalogue demands, whenever bundles arrive, whichever end   *)
(* of a TLS handshake completes first and whenever the goroutine of        *)
(* DialFromSDK gets to run (ValidateJWT, FetchJWTFromSDK, DialFromSDK, the *)
(* run functions).                                                         *)
VerdictRight == calm /\ KeepsContract /\ verdict # "none" => verdict = Expected

(* "Negative test cases pass only on rejected" (HARNESS_CONTRACT.md), and  *)
(* rule 1 of the catalogue: a test passes on a v1 harness only if the SDK  *)
(* has taken, in this run, the decision each call asks for, however the    *)
(* port fails or breaks the contract in between (Control.post, statusFor). *)
Earned(i) ==
  /\ Script(test)[i].do \in {"accept", "poll", "dial"} => <<i, "ok">> \in decided
  /\ Script(test)[i].do = "reject"                     => <<i, "rejected">> \in decided

PassEarned ==
  verdict = "PASS" /\ harness.version = 1 => \A i \in 1..Len(Script(test)) : Earned(i)

(* A JWT test on a v1 harness fails only on a decision of the SDK that was *)
(* wrong, or on a wrong ID: crashes, timeouts, contract violations and     *)
(* errors of the harness are never held against the SDK (ExecutionError).  *)
(* J13 fails, too, when its context ends during the poll, which counts as  *)
(* the SDK's if the SDK has rejected by then; nothing in the command line  *)
(* ends that context (Cancel).                                             *)
Wrong(i) ==
  \/ Script(test)[i].do \in {"accept", "poll"} /\ <<i, "rejected">> \in decided
  \/ Script(test)[i].do = "reject" /\ <<i, "ok">> \in decided

FailIsTheSDKs ==
  verdict = "FAIL" /\ harness.version = 1 /\ test \notin {"JF-1", "XV-1/client"} =>
    harness.judges = "wrongId" \/ \E i \in 1..Len(Script(test)) : Wrong(i)

(* Every test ends, whatever the harness does: each call has a timeout and *)
(* the loop of J13 a deadline.                                             *)
TestEnds == <>(pc = "done")

(* The goroutine of DialFromSDK ends too, when the call fails as well as   *)
(* when the SDK never connects or never speaks.                            *)
ListenerEnds == (ln.server = "accepting") ~> (ln.server = "gone")
=============================================================================
