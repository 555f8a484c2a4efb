# Verification of the SPIFFE conformance test suite

The repository is a Go program that tests SPIFFE SDKs. For every test case it
starts a mock Workload API server and an *SDK harness* (a program around the SDK
under test), drives the server, probes the harness from outside, and reports
PASS, FAIL, SKIP or ERROR. This directory holds TLA+ models of that program, the
TLC configurations that check them and TLAPS proofs. Each definition of a module
is translated from the source; `PROJECT.json` gives the lines.

What makes the program correct is a statement about *verdicts*: whatever the
order in which updates, handshakes, timers and deaths of processes happen, the
suite must not pass an SDK it has not tested, must not fail one that keeps to the
catalogue, must always end, and must leave nothing behind.

## 1. The system

| Component | Source | State | Operations | Hard behaviour |
|---|---|---|---|---|
| Mock Workload API server | `internal/workloadapi` | current X.509 and JWT state, one notify channel each, kill channel and code, faults, record of calls; per RPC a handler goroutine | `SetX509State`, `SetJWTState`, `InjectError`, `ClearErrors`, `CloseStreams`, `Stop`, the five RPCs | handlers read state, sleep on channels and send outside the lock, while the test changes state and closes streams |
| Harness process | `internal/harness/harness.go` | child process and its group, two pipes, waiter and reader goroutines, result channel | `Start`, `Stop` | processes that fork, ignore SIGTERM, keep pipes open or leave the group; four-way race for the outcome of `Start` |
| Readiness parser | `internal/harness/readiness.go` | the `Readiness` read so far | `parseStdout`, `parseLine`, `validate` | order, repetition and malformed announcements |
| X.509 prober | `internal/prober/x509.go` | one TLS connection and its deadlines | `ProbeX509` | under TLS 1.3 the client cannot see whether its certificate was accepted |
| Control-port and JWT probers | `internal/prober/control.go`, `jwt.go` | one HTTP call or socket | `post`, `statusFor`, `ProbeJWT` | mapping of failures to rejected or error |
| X.509 tests | `tests/x509` | the script position, the poll's deadline | X1 to X13, XV-1 | polling against a deadline while the SDK catches up |
| JWT tests | `tests/jwt` | the same | J1 to J13, JF-1 | rotation of keys while bundles are on their way |
| Environment and runner | `suite` | what `newTestEnv` has acquired; the current result | `newTestEnv`, `runCase`, `runOne`, helpers of `TestEnv` | partial failure, panics |
| Command line and report | `cli`, `cmd/suite`, `internal/result` | counters, results file, exit status | `runSuite`, `Report.Add` | which status for which failure |
| GitHub action | `action.yml` | step outputs | the `run` step | `bash -e` |
| Certificate authority | `internal/ca` | certificate, chain and a slice of JWT keys per CA | `New`, `NewIntermediate`, `AddJWTKey`, `IssueX509SVID`, `IssueJWT` and their options, `JWKSBytes` | slices shared between CAs; options whose order matters; an input meant to break one rule that breaks two |
| Reference harness | `sdks/go-spiffe/main.go` | the X.509 source, `lazyJWTSource`, a goroutine per request | `main`, `handleValidate`, `handleFetch`, `handleDial`, `Get`, `Close` | concurrent creation of the JWT source, clients that give up, shutdown under way |
| Other harnesses | `sdks` | the SDK's sources | harness contract v0 and v1 | third-party SDKs |

They interact as follows. `runOne` calls `newTestEnv`, which starts the server,
fills it and starts the harness; the SDK inside the harness opens streaming RPCs
to the server over a unix socket. The test function pushes states
(`ServeX509`), which wake the handlers, which send to the SDK; it then probes the
harness's ports and turns what it sees into an error, or none. `runCase` turns
that into a status and runs the cleanup.

### What makes each component correct

- *Server*: no update is lost and none overtakes another; `CloseStreams` does not
  touch later streams; injected failures hit exactly the calls they should; the
  record is complete; every handler ends after `Stop`.
- *Harness process*: `Start` returns, the `Stop` of its error paths included; a
  `ready` harness has announced itself completely and a `not ready` one has not; a
  harness that prints much is not blocked; after `Stop` nothing of the group runs and
  no goroutine stays.
- *Readiness parser*: agreement with the contract's declarative reading, but for a
  line of 64 KiB (section 5).
- *X.509 prober and tests*: the verdict is the catalogue's for every harness that
  keeps to the time limits; for every other harness too a pass has its positive
  control; every test ends.
- *Control-port tests* (JWT and XV-1/client): the verdict is the catalogue's for
  every harness that keeps the contract; on any other a v1 test passes only on
  decisions the SDK has taken and fails only on wrong ones; every call and every
  goroutine of the suite ends.
- *Certificate authority*: chains verify in order; a token verifies with the bundle
  of every CA of its hierarchy; no key is lost where the tests can notice; and, for
  the tests to mean anything, every negative input breaks its rule and no other (J9's
  break more, section 5).
- *Reference harness*: one JWT source however many requests race for it; a rejection
  heard through the control port is not the shutdown's; requests and the process end.
- *Environment, runner, report, command line*: nothing is left behind, the
  harness never outlives its server within a test, the report is complete and the
  exit status says whether the run could be carried out.

## 2. Modules

| Module | Models | Extends / instantiates |
|---|---|---|
| `StateFeed` | abstract: what a stream of states promises its subscribers | |
| `WorkloadServer` | `server.go`, `state.go` | instantiates `StateFeed` once per feed as its refinement |
| `WorkloadServerProofs` | theorems about `WorkloadServer` | extends it, FiniteSetTheorems, TLAPS |
| `Readiness` | `readiness.go` as operators, and the contract's reading | |
| `ReadinessParser` | `parseStdout` as a state machine | extends `Readiness` |
| `ReadinessProofs` | lemmas about `Readiness`, theorems about `ReadinessParser` | extends both, TLAPS |
| `HarnessProcess` | `Start`, `Stop` and their goroutines, with the kernel's processes and pipes | extends `Readiness` |
| `HarnessProcessProofs` | theorems about `HarnessProcess` | extends it and `ReadinessProofs` |
| `X509Tests` | `tests/x509`, `ProbeX509`, `ClientCertVerdict`, with harness and SDK | |
| `X509TestsProofs` | theorems about `X509Tests` | extends it, TLAPS |
| `ControlTests` | `tests/jwt`, XV-1/client, `control.go`, `jwt.go`, `ValidateJWT`, `FetchJWTFromSDK`, `DialFromSDK`, with harness and SDK | |
| `ControlTestsProofs` | theorems about `ControlTests` | extends it, TLAPS |
| `SVIDs` | what an SVID contains, what the tests ask for, and the rules an SDK checks | |
| `CertificateAuthority` | `ca.go`: hierarchies, keys, issuing, bundles | extends `SVIDs` |
| `CertificateAuthorityProofs` | theorems about `CertificateAuthority` and `SVIDs` | extends them, SequenceTheorems, TLAPS |
| `ReferenceHarness` | `sdks/go-spiffe/main.go` | |
| `ReferenceHarnessProofs` | theorems about `ReferenceHarness` | extends it, TLAPS |
| `SuiteRun` | `newTestEnv` and its cleanup, `runCase`, `runOne`, `Report`, `runSuite`, the action | |
| `SuiteRunProofs` | theorems about `SuiteRun` | extends it, FiniteSetTheorems, TLAPS |
| `MC*` | the constants TLC is given | extend the module they name |

**StateFeed / WorkloadServer.** A Go channel that is closed and replaced is an
epoch number: a handler holds a closed channel when the epoch it captured is
below the current one. X.509 states and JWT states are numbered in the order of
`Set…State`, 0 is nil; content is kept only of JWT states, where
`FetchJWTSVID` and `ValidateJWTSVID` branch on it. One action is one critical
section of `Server.mu` or one step outside it, so `Capture`, `Snapshot`, `Send`,
`Select` and `ReturnKillCode` interleave freely with the test's calls. `Select`
takes any ready case, as Go does. `StateFeed` knows only the current number, the
open subscribers and what each was last given: it may skip states, it may not go
back, and a subscriber that stays is brought up to date.

**HarnessProcess.** The kernel part (processes, group, who holds which pipe) is
modelled from how `harness.go` uses it: `cmd.Wait` waits for the leader, then for
the goroutine that copies stderr (until nobody holds its write end), then closes
the read end of stdout; only then `rp.done` is closed. The reader may still be
parsing at that moment: it keeps what it had buffered. What the harness prints is
one of `Scripts`, at any pace; any process may fork, exit, close its output or
(with `MayEscape`) leave the group at any moment, and which of them ignore
SIGTERM is chosen in `Init`. The stdout pipe holds `PipeSize` lines, and a write to a
full one waits. In `Readiness` a line that `bufio.Scanner` finds too long is `TooLong`,
whatever it holds: `Verdict` fails on it, as the code does, while the contract's reading
(`Announced`) ignores it like any other line that announces nothing.

**X509Tests.** A test is a script of steps `push`, `poll`, `sleep`, `check` and
`peer`, and the module interprets it with the code's probes. The harness is chosen among
all combinations of: version 0 or 1, TLS 1.2 or 1.3, rotating or not, what it
does on an invalid update (keep, adopt, stop presenting), how it treats
client certificates, and whether it takes its bundles from `FetchX509SVID` or
follows `FetchX509Bundles` as well (`ReceiveBundles`). X3 to X9 differ in what is
wrong with the SVID; what matters here is whether the prober's own verification
would refuse it (`Verifies`) and whether the state that serves it names its trust
domain (`Served`, `TrustDomainOf`); `SVIDs` has the rest. Of the server's streams
the module uses what `StateFeed` promises: a later state, possibly not the next.
`calm`, chosen in `Init`, tells a run in which the harness keeps to the suite's
time limits from one in which it acts at any speed and may crash, timers fire at
any moment and the context may be cancelled.

**ControlTests.** Scripts again, of steps `serve`, `accept`, `reject`, `poll`,
`fetch` and `dial`; all but the first are one HTTP call, and `Outcome` translates
what `Control.post` or `ProbeJWT` make of the answer. A harness is chosen by its
version, how its port answers (by the contract, always 200, without JSON, without
the route, unsupported, or failing at some calls), what its SDK decides, what it
does with bundles (follow, merge, ignore, ask the server), whether it waits for
the first, how it fetches tokens, and what it speaks and shows as a TLS client.
What is wrong with an invalid token is left out: the tests of one kind differ in
nothing else. `ln` is the listener of `DialFromSDK`, its goroutine and the one
connection it accepts.

**SuiteRun.** What a test does inside is left open: it ends in any of the five
ways a `TestFunc` can end. `held` is the ledger of directory, server and harness.
`Selected` says what `selectCases` returns without its loop: a requested test case
stands behind those that are requested too and registered before it. That the loop
collects the same is an `ASSUME` of `MCSuiteRun`.

**SVIDs / CertificateAuthority.** An SVID is reduced to what a rule can tell: the
URIs, the usage, the validity of a leaf; the claims and the header of a token, whose
`kid` is a key's number. A verifier takes the key that `kid` names or, without one, any
key of the bundle (`Candidates`).
`Apply` is what an option function does to its configuration (`Written` is a loop
of assignments to a map; the library's `@@`, the same function, has no definition
the provers can expand), and `LeafOptions`,
`JWTOptions` and `TokenOptions` list what each test passes, in the order it is
passed in. `CertificateAuthority` keeps a CA's slice of keys as Go does: a length
and the number of an array, which `NewIntermediate` copies and `AddJWTKey` appends
to, in place if the array has room and else in a copy of twice the capacity. A
number stands for a key and for a certificate; `signer` is who signed it. Which CA
may issue the material of a test is a guard of the two issuing actions.

**ReferenceHarness.** Every request is a goroutine of `net/http` with its
connection and its context, and a connection of the X.509 port (`probe`), which has no
context and which no `Close` ends, is one of `serveX509`; `lazyJWTSource` is a token (`start`), a goroutine
(`creator`), the two fields it assigns and the channel it closes (`ready`).
`Shutdown` lists what `main` closes, in order: the two calls after `<-ctx.Done()`
and then the deferred ones in reverse. Creating the source may never end, which is
why no fairness is assumed of `CreateSource`.

### Order

The modules were written in the order server and feed, harness process and
readiness, X.509 tests, runner, control-port tests, certificate authority,
reference harness, each checked before it was proved about. Every component with a
model has theorems.

## 3. Runs

Every run below ends within three minutes with two workers.

| Run | Question | Bounds |
|---|---|---|
| `server` | Do the streams implement `StateFeed`? Are updates lost, reordered, or later streams hit by `CloseStreams`? Is each call on record once, and do injections fail the calls they should? | two streams with two X.509 states or one state of each feed, one `CloseStreams` and `Stop`, or three unary calls of every kind with two injections or clearings, counts from -1 to 2, one JWT state, well-formed or not; handlers symmetric |
| `stream_liveness` | Do updates arrive, and do `CloseStreams` and `Stop` end handlers? | two streams, one state per feed, one `CloseStreams` |
| `readiness` | Does `parseStdout` agree with the contract, but for lines of 64 KiB? | every output of up to four of ten lines, and of up to six that begin like a v1 harness |
| `harness` | Safety and liveness of `Start`, `Stop` and the goroutines | two processes; a complete announcement, an incomplete one and one with a line of 64 KiB; a pipe of two lines |
| `x509` | Is the verdict the catalogue's in calm runs? Can a test pass without its positive control, or hang, in any? | one test of each kind (X4 for those whose state names no trust domain) on 192 kinds of harness, calm or not |
| `control` | The same for the control port: are verdicts right, passes earned, failures the SDK's, does everything end? | one test of each kind on every kind of validator, of fetcher and of TLS client, six kinds of port, calm or not |
| `suite_run` | Is anything left behind, the report complete, the exit status right? | three registered tests, four selections, each step failing or not, an interrupt at any moment |
| `ca` | Do chains and tokens verify, which keys are lost, which rules do negative inputs break? | three CAs of two trust domains in any hierarchy, five keys, an SVID and a bundle at a time, the inputs of all tests |
| `reference_harness` | One JWT source, a silent shutdown; do abandoned requests and the process end? | two requests of any kind or connections of the X.509 port, SIGTERM and giving up at any moment |
| `x509_broken_harness`, `x509_bundles`, `suite_action` | see section 5 | |

Why the bounds are enough. In the server, handlers do not look at each other:
what one of them meets is the test's calls, and losing an update takes one
handler, two states (one read, one set meanwhile) and one closing; so does sending an
older state after a newer one. A second
handler is there to let feeds differ; the theorems
hold for any number. The constraint of `server` keeps streams and unary calls
apart: they share nothing but the record of calls and the faults, which `begin`
handles in the same way for both, and a mixture of the two is too large. In `InjectError` a count of 2 with three calls covers below,
at and beyond the count, and two injections cover replacing and clearing. For the
readiness parser four lines suffice for a complete announcement, six for one with
repetitions and noise on top. A pipe of two lines is full before an announcement of four
or five is, and again after READY. One leader and one descendant make every case of
`Stop`: the descendant is in or out of the group, holds stderr or not, ignores
SIGTERM or not. Three CAs make a parent with two children as well as a chain of
three; five keys fill an array of capacity 4 and outgrow it. Two requests make
every race for the JWT source: one takes the token, one finds it gone.
Scripts of X.509 and JWT tests use at most three states. `DialFromSDK` accepts one
connection, and more than one call is never in flight.

`CHECK_DEADLOCK FALSE` is set throughout since every model really stops: the
number of calls is bounded, tests and runs end.

### Properties and the code they are about

- `NoLostUpdate`: `stream` captures the channels before it reads the state and
  `SetX509State` replaces both in one critical section; otherwise a handler could
  sleep on a state never sent. `UpdatesArrive` is the liveness counterpart.
- `DeliveredInOrder`: snapshot and send are separate steps outside the lock.
  `FeedsImplemented` is the refinement of `StateFeed`, checked where two states can
  follow each other.
- `LaterStreamsUnaffected`, `CloseEndsQuietStreams`: the two halves of
  `CloseStreams`; the second is as strong as the code allows (section 5).
- `AnsweredCallsRecorded`, `InjectedFailures`: `begin`.
- `NoSurvivors`, `OutcomeJustified`, `StartEnds`, `StopEndsUnlessEscaped`,
  `GoroutinesEnd`: `Start` and `Stop`. `OutcomeJustified` speaks of lines really
  printed, not of what the reader has read of them. `StartEnds` includes the `Stop`
  that a failing `Start` calls before it returns, so it has the exception of
  `StopEndsUnlessEscaped`. `WritersNotBlocked`: the reader goes on after READY.
- `VerdictRight` (ReadinessParser): READY is accepted only if the contract accepts it,
  and a harness that the contract accepts is refused only at a line of 64 KiB.
- `VerdictRight` (X509Tests): every run function, `ProbeX509` and
  `ClientCertVerdict` against the catalogue's demands, given as `Expected`.
  X4 on an SDK that follows `FetchX509Bundles` is left out (section 5).
- `PassHasPositiveControl`: the catalogue's rule that a test of a rejection first
  shows that the SDK accepts. For v0 harnesses it cannot hold: silence after the
  handshake counts as acceptance there, by the contract.
- `VerdictRight` (ControlTests): the run functions of `tests/jwt` and
  `runXV1Client` with their helpers. It demands nothing of three kinds of harness
  for which both verdicts occur: a port that breaks the contract; an SDK that
  rejects tokens until its first bundle has come, since READY speaks of the
  X.509-SVID only and the positive control asks once; and an SDK that fetches
  tokens unasked, since JF-1 looks at the last fetch on record.
- `PassEarned`, `FailIsTheSDKs`: `post`, `statusFor` and the `switch` of
  `ValidateJWT`. Both are about v1 harnesses, since on the v0 port an error looks
  like a rejection (`env.go:235`). JF-1 and XV-1/client are left out of the
  second: they fail on an `error` outcome and on a handshake that times out.
- `ListenerEnds`: the deferred `Close` and the handshake deadline of
  `DialFromSDK`.
- `ChainVerifies`: `NewIntermediate` and `CertChainDER`; `DefaultTokensVerify`: the
  promise of `NewIntermediate`'s comment, for the key `IssueJWT` takes by default;
  `LostOnlyToRelatives`: exactly which keys `AddJWTKey` overwrites.
- `InputsBreakTheirRule`: the inputs of all negative tests, as issued, against the
  rules of X509-SVID and JWT-SVID, and the positive controls against all of them. Each
  breaks the rule of its test and no other, but for J9's, whose further rules the
  property names (`Besides`, section 5).
- `OneSource`, `AbandonedRequestsEnd`, `ExitsOnTerm`: `lazyJWTSource`, whose `Get`
  must not lose the token and whose `Close` must not wait. `ControlShutdownUnheard`:
  the order in which `main` closes things, which protects the control port only
  (section 5).
- `NothingLeftBehind`, `HarnessHasServer`: eight steps of `newTestEnv` and
  `fullCleanup`. `DelegationFlagged`: `runOne` reads the record of the server of
  that very test, and the SDK may call `ValidateJWTSVID` until its harness has been
  stopped. `ReportComplete`, `ExitTellsExecution`: `Add` and `runSuite`.

## 4. Fairness

- *Server*: weak fairness for each handler's step. The Go scheduler runs
  goroutines that can run; `mu` is held for a few assignments; `Send` returns
  because the SDK reads or because its context ends. Nothing is assumed of the SDK
  (it need not call) or of the test.
- *Harness process*: timers fire, signals act on processes that do not ignore
  them, SIGKILL on all, goroutines run. A process need not exit, print or close
  anything, and the test itself may run for ever.
- *X.509 and control-port tests*: the suite's own steps and timers happen, and in
  a calm run the harness acts; in others nothing is assumed of it. The deadline of
  a poll gets strong fairness, since the code looks at it once in every round: a
  poll that goes on for ever meets it again and again. In calm runs the suite's
  limits (250 ms, 300 ms, 5 s, 10 s, the poll's deadline) fire only after the
  harness has done what it had to do: without that no verdict could be right.
- *Reference harness*: goroutines that can run do, and `net/http` notices a closed
  connection at some time. Nothing is assumed of the SDK's creation of a source, of
  the suite or of the first SVID.
- *Certificate authority*: sequential, safety only.
- *Suite run* (`suite_action` only): every step of the run ends.

## 5. Where the code differs from what it says

Three runs find a counterexample to a sentence of the repository; `PROJECT.json`
quotes the sentence.

- `x509_broken_harness`: `ClientCertVerdict` takes every error for a rejection, a
  refused connection included, so X10 to X13 pass on a harness that has crashed
  after the positive control.
- `x509_bundles`: X4 pushes a state that names no trust domain (`svid.go:135`), so
  the server derives it from the foreign SVID (`server.go:412`) and
  `FetchX509Bundles` no longer has a bundle for the test's own domain. An SDK that
  refuses the foreign SVID but follows that stream cannot authenticate the probe,
  and fails a test it has done right.
- `suite_action`: GitHub runs the step with `bash -e`; exit status 2 ends the
  script before outputs and summary are written.

Three more are written into the property they would break, at the one place where they
do:

- `VerdictRight` of the parser and `OutcomeJustified`: a harness that prints a line of
  64 KiB is refused (`readiness.go:24`), although "any other stdout lines are ignored"
  (`HARNESS_CONTRACT.md:70`).
- `InputsBreakTheirRule`: J9's tokens have no `kid`, although tokens have one "unless
  stated otherwise" (`TEST_CATALOGUE.md:165`), and its HS256 token is signed with random
  bytes (`bundle.go:240`), although JV-4 asks for the "HMAC keyed with the public key
  bytes" (`:176`). An SDK that forgot the rule about `alg` finds the signature wrong
  whatever key of the bundle it tries, and passes J9; one that demands a `kid` rejects
  both tokens for want of it.
- `ControlShutdownUnheard`: a connection of the X.509 port that was accepted before
  `x509Ln.Close` (`main.go:78`) goes on while the deferred calls close the source it
  verifies with (`main.go:45`); what the prober then takes for the SDK's rejection is
  the shutdown's. It takes a SIGTERM during a probe; the suite stops the harness only
  after the test.

Read in the code or met while modelling, but without a run of its own: a handler
woken by a state change and by `CloseStreams` at once may take the former, capture
the *new* kill channel and stay open (`server.go:216`), although the comment speaks
of every open stream; a child that has left the process group survives both
signals, and if it holds stderr, `cmd.Wait` and with it `Stop` and a failing
`Start` never return (`harness.go:134`, the exception in `StopEndsUnlessEscaped`);
a key added to a CA that has an intermediate, or to the intermediate, may be
overwritten by the other's (`ca.go:291`; no test case does so); the go-spiffe
harness reports a TLS handshake that ran into its own five seconds as a rejection
(`main.go:181`), keeps an error of `NewJWTSource` for ever, and leaves open a source
that is created after `Close`, until it exits; after a second
`CloseStreams` a handler returns the second code (`server.go:221`); a state that
is replaced before a handler reads it is never sent, so a barrier update does not
prove that the update before it was seen (`TEST_CATALOGUE.md:87`); `begin` records
OK for a unary call that its handler then refuses (`server.go:197`); X3 to X9 sleep 300 ms and
pass on an SDK that adopts bad SVIDs later than that; a test that panics loses its
delegation flag; JF-1 fails where the contract speaks of ERROR when the harness
answers `error` (`fetch.go:38`, `HARNESS_CONTRACT.md:126`); J13 fails when its context
ends during the poll (`bundle.go:306`), which nothing in the command line brings about; an interrupt leaves the harness running in its own group; `Stop`
names the group by the number of a process that may have been reaped.

## 6. Proofs

`WorkloadServerProofs` proves, for any set of handlers and requests and any
bounds:

| Theorem | Statement |
|---|---|
| `TypeCorrect` | `Spec => []TypeOK` |
| `StreamInvariant` | the inductive invariant `StreamInv` |
| `NothingLost` | `Spec => []NoLostUpdate` |
| `NeverGoesBack` | `Spec => []DeliveredInOrder` |
| `KillsOnlyEarlierStreams` | `Spec => []LaterStreamsUnaffected` |
| `AnswersRecorded` | `Spec => []AnsweredCallsRecorded` |
| `InjectionsExact` | `Spec => []InjectedFailures` |
| `Refinement` | `Spec => FeedsImplemented` |

The only assumption is `ServerAssumption` (requests and states are well-formed,
bounds are naturals), which TLC evaluates on the instances. `NoLostUpdate` is not inductive: that a
handler in its select has sent the current state follows only if, back in
`snapshot` and `send`, what it holds is at least as new as the channel it
captured. `StreamInv` therefore says, besides types: before the loop nothing is
captured or sent; what a handler has captured, read and sent is never ahead of the
server; if the notify channel it captured is still the current one, what it read
(in `send`) or has sent (in `select`) is the current state; what it has sent is in
order; and the kill epoch it captured is not below the one at which it was
accepted. It is inductive because the server only moves forward: a step changes a
feed's state only together with its notify epoch. The refinement maps `open` to the
handlers in the loop and `delivered` to the last state sent; `Send` is
`StateFeed`'s delivery, `Begin` and the returns its subscribing and
unsubscribing, every other action stutters.

`AnswersRecorded` rests on `RecordInv`: a call that has not begun is not on record;
one that has is there once, has returned what the record says if that is an error,
and carries the header if it is not. `InjectionsExact` rests on `FaultInv`, which
relates what is left of an injection to the record: as long as something is left no
call for it has been spared, and what is left is the count less the calls that have
failed. Its counts are of finite sets (`FiniteSetTheorems`).

`ControlTestsProofs` and `X509TestsProofs` prove, for any set of tests and of
harnesses:

| Theorem | Statement |
|---|---|
| `VerdictInvariant` | the inductive invariant `VerdictInv` of `ControlTests` |
| `PassesAreEarned` | `Spec => []PassEarned` |
| `FailuresAreTheSDKs` | `Spec => []FailIsTheSDKs` |
| `ControlInvariant` | the inductive invariant `ControlInv` of `X509Tests` |
| `PassesAreControlled` | `Spec => []PassHasPositiveControl` |

The assumption of either is its `TestsAssumption`: tests of the suite, harnesses
of the kinds `HarnessOK` names. Verdicts alone are not inductive. `VerdictInv` adds
where the test stands in its script; that a call is in flight only while the test
waits for it; that a v1 answer which `post` translates to `ok` or `rejected` is
one the SDK has decided in this step, whatever the port does around it (the
comparison of `status` with the HTTP status in `statusFor` can only make a failure
of it); that J13 pauses only after a rejection; and that every step behind the
test is earned, which is what a pass needs at the last one. `ControlInv` says the
same of connections: one exists only while a probe waits; it is accepted, and
carries a peer line, only if the harness has authenticated the client, and then
its SVID is in `admitted`; and every poll and check behind the test has seen its
SVID so. These two invariants say nothing about time, so the theorems hold at any speed,
with crashes, in calm runs and others.

What a *calm* run decides is a second invariant of each module, on top of types and
of the first:

| Theorem | Statement |
|---|---|
| `CalmInvariant` (both) | the inductive invariants `CalmInv` |
| `VerdictsAreRight` (`X509Tests`) | `Spec => []VerdictRight` |
| `VerdictsAreRight` (`ControlTests`) | `Spec => []VerdictRight` |

`CalmInv` has four parts. The first says what the SDK holds and presents, or the
newest bundle it has, as a function of the states served so far. The second is what
each step behind the test has found: a test that has got that far has met an SDK
that decides as the step demands, so that the last one makes the verdict. The third
follows one connection, or one call, from its beginning to its answer: a certificate
shown to a probe is the one presented when it dialled or, in a poll, one no newer
than the one presented now; a token is judged by the bundles of that moment. The
fourth is about polls, which is where time matters: a round that began when the SDK
was up to date (`fresh`) sees that it is, so on an SDK that can meet the poll
(`Able`) the deadline never decides. Both need that timers fire in a calm run only when
nothing else can happen (section 4), and this is all they need: what the harness does
between two steps of the suite is left open. In `ControlTests` there is a fifth part
inside the third, about the listener of `DialFromSDK` (`ListenerCalm`): whichever
end of the handshake completes first, an answer of the SDK and the ID the listener
reports are of one connection. The `CalmInv` of `ControlTests` also assumes
`KeepsContract`, as its `VerdictRight` does: a port that answers out of contract, or a
client that rejects before it has a bundle or fetches unasked, changes the verdict on a
harness that judges rightly.

Both modules have `TypeCorrect` too. In `ControlTests` it needs two facts of its
own: the states a script has still to serve are later than the current one
(`ServesAhead`), and a client that stalls never finishes a handshake (`LnTypes`).

`HarnessProcessProofs` proves, for any set of processes and of outputs:

| Theorem | Statement |
|---|---|
| `ProcessInvariant` | the inductive invariant `ProcessInv` |
| `TypeCorrect` | `Spec => []TypeOK` |
| `StopLeavesNobody` | `Spec => []NoSurvivors` |
| `OutcomeInvariant` | the inductive invariant `OutcomeInv`, on top of `ProcessInv` |
| `StartIsJustified` | `Spec => []OutcomeJustified` |

`NoSurvivors` needs to know that from SIGKILL on nobody in the group is unkilled: a
process may still fork after the signal was sent, but only if it is not in the
group, and then its child is not either (`Doomed`). `OutcomeInv` carries the
parser's invariant through the interleavings of harness, waiter and reader: what
was announced stays announced as more is printed, and a harness that can print no
more stays so (`FinishedLasts`).

`ReadinessProofs` proves `ParserInvariant` and `ParserRight`
(`Spec => []VerdictRight`) for every output. The contract's reading is stated
without order, as the last value given before the first READY; the invariant says
that the fields filled in so far are those last values for the lines read so far.
Its lemmas about `Readiness` say how one more line changes the last value, that
there is one, and that nothing after READY matters.

`CertificateAuthorityProofs` proves, for any number of CAs and keys:

| Theorem | Statement |
|---|---|
| `CAInvariant` | the inductive invariant `CAInv` |
| `TypeCorrect` | `Spec => []TypeOK` |
| `ChainsVerify` | `Spec => []ChainVerifies` |
| `TokensVerify` | `Spec => []DefaultTokensVerify` |
| `KeysLostToRelatives` | `Spec => []LostOnlyToRelatives` |
| `InputsAreExact` | `Spec => []InputsBreakTheirRule` |

The invariant is about arrays: a slice lies within its array, is filled, and holds
at place *i* no key older than the *i*-th; two CAs that share an array share a root;
all CAs of a hierarchy have the same first key, since an append never writes to
place 1 of an array that is in use; and the keys of a CA are those of its hierarchy.

`InputsAreExact` joins two things. What an SVID contains is a function of the options
of its test: `LeafBreaksOne`, `TokenBreaksOne` and `ForgedBreaksAlg` compute it and say
which rules the result breaks. `Configure` folds over the options, and the provers
cannot reason about a fold of any length; but no test gives more than two, and for
those `ConfigureNone`, `ConfigureOne` and `ConfigureTwo` exhibit the function the fold
is defined by. Which CA issued it is the invariant's part: X4's certificate is of a
hierarchy other than the environment's, and J2's key is none the environment's CA ever
has, however many keys and intermediates have been added since (`ForeignKey`). J9's
tokens are signed with no key of any CA, and the environment's CA always has one to try
(`KeysAreKeys`).

`ReferenceHarnessProofs` proves, for any number of requests:

| Theorem | Statement |
|---|---|
| `HarnessInvariant` | the inductive invariant `HarnessInv` |
| `TypeCorrect` | `Spec => []TypeOK` |
| `CreatedOnce` | `Spec => []OneSource` |
| `ShutdownIsSilent` | `Spec => []ControlShutdownUnheard` |

Its second half is an order: a source is closed only after the control server, after
which no connection of the control port is open, and a rejection for want of a source is decided only
once one is closed.

`SuiteRunProofs` proves, for any registry of distinct names and any request:

| Theorem | Statement |
|---|---|
| `SelectionRight` | `Selected` has the requested test cases and no other, in the order of the registry |
| `SuiteInvariant` | the inductive invariant `SuiteInv` |
| `SuiteTypes` | `Spec => []TypeOK` |
| `EnvironmentTakenDown` | `Spec => []NothingLeftBehind` |
| `HarnessNeverAlone` | `Spec => []HarnessHasServer` |
| `ReportAlwaysComplete` | `Spec => []ReportComplete` |
| `DelegationAlwaysFlagged` | `Spec => []DelegationFlagged` |
| `ExitAlwaysTells` | `Spec => []ExitTellsExecution` |

The invariant gives `held` as a function of the phase and of how many steps of
`newTestEnv` are done (`Holding`, `BuiltBy`), the results so far as those of a prefix
of the selection (`Reported`), each counter as the number of results of its status
(`Counting`), and relates a result that is no ERROR to the two history variables
(`Telling`, and `CurrentTelling` for the test case under way); names not yet come to
are in neither (`Untouched`), which needs that the selection has no name twice. That,
and `SelectionRight`, are about a rank: the number of requested test cases registered
before a given one grows with its position, so the ranks of the requested ones are
exactly the places of the selection (`FiniteSetTheorems`).

Every invariant that a run checks is stated by a theorem. Only model-checked are the
properties under fairness, since liveness and `ENABLED` are out of the provers' reach:
`UpdatesArrive`, `CloseEndsQuietStreams`, `StopEndsHandlers`, `StartEnds`,
`WritersNotBlocked`, `StopEndsUnlessEscaped`, `GoroutinesEnd`, `TestEnds` of both modules, `ListenerEnds`,
`AbandonedRequestsEnd` and `ExitsOnTerm`. So is the reading of `selectCases` as
`Selected` (`SelectedIsCollected`), since `SelectSeq` is defined by recursion.

## 7. Not modelled, and why

- Bytes: certificates, PEM, protobuf encoding, JSON, the layout of the report.
  `x509StateToProto` can fail only on a key that cannot be encoded, which the CA
  does not make; `SetX509State(nil)` is never called by a test.
- `tailBuffer` and `buildEnv`: data no behaviour depends on. A second call of
  `Stop` returns through `sync.Once`.
- The capacity of stderr's pipe, which `exec` empties into a buffer of the suite's; that
  of stdout's is counted in lines, of which any number may be long.
- Cryptography: a signature is who signed, a key is a number, and generating either
  does not fail; serials and key IDs are taken to be distinct. `WithJWTKey`, DNS
  names and a JWK `use` other than the default, which no test case uses, are left
  out, and so is `WithX509URIOverride` without arguments, which overrides nothing.
- In the reference harness: `handleInfo`, the decoding of requests, and connections
  that `http.Server.Close` might miss.
- Registration of test cases (done in `init` functions) and the bridge to `go test`.
- The other harnesses under `sdks/`: shims whose behaviour is that of third-party
  SDKs; `X509Tests`, `ControlTests` and `HarnessProcess` allow any of it.
