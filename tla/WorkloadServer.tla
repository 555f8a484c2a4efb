--------------------------- MODULE WorkloadServer ---------------------------
(***************************************************************************)
(* The controllable mock SPIFFE Workload API server,                       *)
(* internal/workloadapi/server.go.                                         *)
(*                                                                         *)
(* Each RPC is served by a goroutine of its own (a handler); the test case *)
(* drives the server through SetX509State, SetJWTState, InjectError,       *)
(* ClearErrors, CloseStreams and Stop while handlers run.  One action is   *)
(* one critical section of Server.mu, or one step a handler takes outside  *)
(* it: every interleaving the mutex allows is a behaviour.                 *)
(*                                                                         *)
(* A Go channel that is closed and replaced is an epoch number: a handler  *)
(* that captured epoch e holds a closed channel iff e is below the current *)
(* epoch.  The X.509 state and the JWT state are numbered by the order in  *)
(* which they were set, 0 standing for nil; of the JWT state the module    *)
(* also keeps what the two unary RPCs look at.                             *)
(***************************************************************************)
EXTENDS Integers, Sequences, FiniteSets

CONSTANTS
  Handlers,     \* handler goroutines, one per RPC the SDK makes
  Requests,     \* the requests the SDK may make
  JWTStates,    \* the JWT states a test may set
  FaultCodes,   \* status codes a test injects or closes streams with
  MaxSets,      \* bound on SetX509State and on SetJWTState calls, by feed
  MaxCloses,    \* bound on CloseStreams calls
  FaultMethods, \* the RPCs a test injects faults into
  MaxInjects,   \* bound on InjectError and ClearErrors calls
  MaxCount      \* bound on the count given to InjectError

Streaming == {"FetchX509SVID", "FetchX509Bundles", "FetchJWTBundles"}
Unary     == {"FetchJWTSVID", "ValidateJWTSVID"}
Methods   == Streaming \cup Unary
Feeds     == {"x509", "jwt"}

(* Which state a streaming RPC follows (the notifyOf argument of stream).  *)
FeedOf(m) == IF m = "FetchJWTBundles" THEN "jwt" ELSE "x509"

AnyID  == "any"      \* JWTSVIDRequest.SpiffeId = ""
NoCode == "none"     \* no status yet
Codes  == FaultCodes \cup
            {"OK", "InvalidArgument", "PermissionDenied", "Internal", "Canceled"}

(* header: the request carries workload.spiffe.io: true; args: its         *)
(* mandatory arguments are set; want: the SPIFFE ID asked of FetchJWTSVID, *)
(* or the key that signed the token given to ValidateJWTSVID.              *)
RequestOK(r) ==
  /\ DOMAIN r = {"method", "header", "args", "want"}
  /\ r.method \in Methods
  /\ r.header \in BOOLEAN
  /\ r.args \in BOOLEAN

(* ids: SPIFFE IDs of the JWT-SVID materials; keys: signing keys in the    *)
(* bundles; parses: every trust domain and JWKS document is well-formed.   *)
JWTStateOK(s) == DOMAIN s = {"ids", "keys", "parses"} /\ s.parses \in BOOLEAN

ASSUME ServerAssumption ==
  /\ \A r \in Requests : RequestOK(r)
  /\ \A s \in JWTStates : JWTStateOK(s)
  /\ FaultCodes \cap {"OK", NoCode} = {}
  /\ FaultMethods \subseteq Methods
  /\ MaxSets \in [Feeds -> Nat] /\ MaxCloses \in Nat /\ MaxInjects \in Nat /\ MaxCount \in Nat

NilJWT == [ids |-> {}, keys |-> {}, parses |-> TRUE]   \* no state: nothing to serve
NoFault == [code |-> "OK", remaining |-> 0]            \* no entry, or an exhausted one
NoRequest == [method |-> "none", header |-> FALSE, args |-> FALSE, want |-> AnyID]

VARIABLES
  \* Server, guarded by Server.mu
  state,      \* number of the current state of each feed
  jwt,        \* content of the current JWT state
  notify,     \* epoch of x509Notify and of jwtNotify
  kill,       \* epoch of the kill channel
  killCode,   \* code of the last CloseStreams
  faults,     \* injected fault of each method
  calls,      \* the calls recorded so far
  stopped,    \* Stop has been called
  \* handler goroutines
  pc, req,    \* where each handler is and what it serves
  cancelled,  \* its context is done
  gotNotify, gotKill,  \* the channels it captured, by epoch
  snap,       \* the state it is about to send
  sent,       \* the states it has sent, in order
  ret,        \* the status it returned
  \* history, for the properties only
  opened,     \* kill epoch when the handler was accepted
  doom,       \* the first CloseStreams that found the handler's stream open
  injected,   \* the last InjectError or ClearErrors of each method
  injects     \* how many InjectError and ClearErrors there were

server  == <<state, jwt, notify, kill, killCode, faults, calls, stopped>>
handler == <<pc, req, cancelled, gotNotify, gotKill, snap, sent, ret>>
history == <<opened, doom, injected, injects>>
vars    == <<server, handler, history>>

LastSent(h) == IF sent[h] = <<>> THEN 0 ELSE sent[h][Len(sent[h])]
Feed(h)     == FeedOf(req[h].method)
InLoop(h)   == pc[h] \in {"capture", "snapshot", "send", "select", "killed"}
Serving(h)  == InLoop(h) /\ sent[h] # <<>>
NoDoom      == [served |-> FALSE, epoch |-> 0, quiet |-> FALSE]

Init ==
  /\ state = [f \in Feeds |-> 0]
  /\ jwt = NilJWT
  /\ notify = [f \in Feeds |-> 0]
  /\ kill = 0
  /\ killCode = "OK"
  /\ faults = [m \in Methods |-> NoFault]
  /\ calls = <<>>
  /\ stopped = FALSE
  /\ pc = [h \in Handlers |-> "idle"]
  /\ req = [h \in Handlers |-> NoRequest]
  /\ cancelled = [h \in Handlers |-> FALSE]
  /\ gotNotify = [h \in Handlers |-> 0]
  /\ gotKill = [h \in Handlers |-> 0]
  /\ snap = [h \in Handlers |-> 0]
  /\ sent = [h \in Handlers |-> <<>>]
  /\ ret = [h \in Handlers |-> NoCode]
  /\ opened = [h \in Handlers |-> 0]
  /\ doom = [h \in Handlers |-> NoDoom]
  /\ injected = [m \in Methods |-> [count |-> 0, since |-> 0]]
  /\ injects = 0
-----------------------------------------------------------------------------
(* The test case's side of the server.                                     *)

(* A state is replaced and its notify channel closed and replaced in one   *)
(* critical section.                                                       *)
StoreState(f)  == state' = [state EXCEPT ![f] = @ + 1]
NoNotify(f)    == notify' = notify   \* mutant: the channel is not closed
CloseNotify(f) == notify' = [notify EXCEPT ![f] = @ + 1]

SetX509State ==
  /\ state["x509"] < MaxSets["x509"]
  /\ StoreState("x509")
  /\ CloseNotify("x509")
  /\ UNCHANGED <<jwt, kill, killCode, faults, calls, stopped, handler, history>>

SetJWTState(s) ==
  /\ state["jwt"] < MaxSets["jwt"]
  /\ StoreState("jwt")
  /\ jwt' = s
  /\ CloseNotify("jwt")
  /\ UNCHANGED <<kill, killCode, faults, calls, stopped, handler, history>>

InjectError(m, code, count) ==
  /\ injects < MaxInjects
  /\ faults' = [faults EXCEPT ![m] = [code |-> code, remaining |-> count]]
  /\ injected' = [injected EXCEPT ![m] = [count |-> count, since |-> Len(calls)]]
  /\ injects' = injects + 1
  /\ UNCHANGED <<state, jwt, notify, kill, killCode, calls, stopped, handler, opened, doom>>

ClearErrors ==
  /\ injects < MaxInjects
  /\ faults' = [m \in Methods |-> NoFault]
  /\ injected' = [m \in Methods |-> [count |-> 0, since |-> Len(calls)]]
  /\ injects' = injects + 1
  /\ UNCHANGED <<state, jwt, notify, kill, killCode, calls, stopped, handler, opened, doom>>

NoKill    == kill' = kill              \* mutant: the channel is not closed
CloseKill == kill' = kill + 1

CloseStreams(code) ==
  /\ kill < MaxCloses
  /\ killCode' = code
  /\ CloseKill
  /\ doom' = [h \in Handlers |->
                IF Serving(h) /\ doom[h] = NoDoom
                THEN [served |-> TRUE, epoch |-> notify[Feed(h)],
                      quiet |-> pc[h] = "select" /\ gotNotify[h] = notify[Feed(h)]]
                ELSE doom[h]]
  /\ UNCHANGED <<state, jwt, notify, faults, calls, stopped, handler, opened, injected, injects>>

(* grpc.Server.Stop closes the listener and the connections, which cancels *)
(* every handler's context; it does not wait for the handlers to return.   *)
Stop ==
  /\ ~stopped
  /\ stopped' = TRUE
  /\ cancelled' = [h \in Handlers |-> cancelled[h] \/ pc[h] \notin {"idle", "done"}]
  /\ UNCHANGED <<state, jwt, notify, kill, killCode, faults, calls, pc, req,
                 gotNotify, gotKill, snap, sent, ret, history>>
-----------------------------------------------------------------------------
(* The SDK's side: it makes an RPC, or goes away.                          *)

Call(h, r) ==
  /\ pc[h] = "idle"
  /\ ~stopped
  /\ req' = [req EXCEPT ![h] = r]
  /\ pc' = [pc EXCEPT ![h] = "begin"]
  /\ UNCHANGED <<server, cancelled, gotNotify, gotKill, snap, sent, ret, history>>

ClientCancel(h) ==
  /\ pc[h] \notin {"idle", "done"}
  /\ ~cancelled[h]
  /\ cancelled' = [cancelled EXCEPT ![h] = TRUE]
  /\ UNCHANGED <<server, pc, req, gotNotify, gotKill, snap, sent, ret, history>>
-----------------------------------------------------------------------------
(* A handler goroutine.                                                    *)

GoTo(h, label) == pc' = [pc EXCEPT ![h] = label]

Return(h, code) ==
  /\ GoTo(h, "done")
  /\ ret' = [ret EXCEPT ![h] = code]

(* begin: what the call is answered with before it is served.              *)
BeginCode(r) ==
  IF ~r.header THEN "InvalidArgument"
  ELSE IF faults[r.method].remaining # 0 THEN faults[r.method].code
  ELSE "OK"

(* Mutant: the fault is used up before the header is looked at.            *)
UseFaultFirst(r) ==
  faults' = IF faults[r.method].remaining > 0
            THEN [faults EXCEPT ![r.method].remaining = @ - 1]
            ELSE faults

(* An injected fault is used up only by a call that is refused for it.     *)
UseFault(r) ==
  faults' = IF r.header /\ faults[r.method].remaining > 0
            THEN [faults EXCEPT ![r.method].remaining = @ - 1]
            ELSE faults

(* Mutant: only the calls that are accepted are recorded.                  *)
RecordAccepted(h, code) ==
  calls' = IF code # "OK" THEN calls
           ELSE Append(calls, [rpc |-> h, method |-> req[h].method,
                               header |-> req[h].header, code |-> code])

Record(h, code) ==
  calls' = Append(calls, [rpc |-> h, method |-> req[h].method,
                          header |-> req[h].header, code |-> code])

Begin(h) ==
  LET code == BeginCode(req[h])
  IN
  /\ pc[h] = "begin"
  /\ UseFault(req[h])
  /\ Record(h, code)
  /\ opened' = [opened EXCEPT ![h] = kill]
  /\ \/ /\ code # "OK"
        /\ Return(h, code)
     \/ /\ code = "OK"
        /\ GoTo(h, IF req[h].method \in Streaming THEN "capture" ELSE "serve")
        /\ UNCHANGED ret
  /\ UNCHANGED <<state, jwt, notify, kill, killCode, stopped, req, cancelled,
                 gotNotify, gotKill, snap, sent, doom, injected, injects>>

(* Mutants: the kill channel is never replaced; the wrong notify channel   *)
(* is waited on; an epoch is off by one.                                   *)
CaptureFirstKill(h) ==
  /\ gotNotify' = [gotNotify EXCEPT ![h] = notify[Feed(h)]]
  /\ gotKill' = [gotKill EXCEPT ![h] = 0]

CaptureX509(h) ==
  /\ gotNotify' = [gotNotify EXCEPT ![h] = notify["x509"]]
  /\ gotKill' = [gotKill EXCEPT ![h] = kill]

CaptureBefore(h) ==
  /\ gotNotify' = [gotNotify EXCEPT ![h] = notify[Feed(h)] - 1]
  /\ gotKill' = [gotKill EXCEPT ![h] = kill]

(* The critical section at the top of the loop of stream.                  *)
CaptureChannels(h) ==
  /\ gotNotify' = [gotNotify EXCEPT ![h] = notify[Feed(h)]]
  /\ gotKill' = [gotKill EXCEPT ![h] = kill]

Capture(h) ==
  /\ pc[h] = "capture"
  /\ CaptureChannels(h)
  /\ GoTo(h, "snapshot")
  /\ UNCHANGED <<server, req, cancelled, snap, sent, ret, history>>

CurrentX509(h) == state["x509"]   \* mutant: FetchJWTBundles streams x509Snapshot
Current(h)     == state[Feed(h)]

(* x509Snapshot / jwtSnapshot; a nil state means there is nothing to send. *)
Snapshot(h) ==
  /\ pc[h] = "snapshot"
  /\ snap' = [snap EXCEPT ![h] = Current(h)]
  /\ GoTo(h, IF Current(h) = 0 THEN "select" ELSE "send")
  /\ UNCHANGED <<server, req, cancelled, gotNotify, gotKill, sent, ret, history>>

(* Mutant: messages sent concurrently overtake each other.                 *)
Overtake(h) == sent' = [sent EXCEPT ![h] = <<snap[h]>> \o @]
Deliver(h) == sent' = [sent EXCEPT ![h] = Append(@, snap[h])]

(* stream.Send; on a cancelled context it may still succeed or fail.       *)
Send(h) ==
  /\ pc[h] = "send"
  /\ \/ /\ Deliver(h)
        /\ GoTo(h, "select")
        /\ UNCHANGED ret
     \/ /\ cancelled[h]
        /\ Return(h, "Canceled")
        /\ UNCHANGED sent
  /\ UNCHANGED <<server, req, cancelled, gotNotify, gotKill, snap, history>>

NoContext(h) == FALSE   \* mutant: the context is not waited on
ContextDone(h) == cancelled[h]

(* The select statement: Go picks any one of the ready cases.              *)
Select(h) ==
  /\ pc[h] = "select"
  /\ \/ /\ ContextDone(h)
        /\ Return(h, "OK")
     \/ /\ gotNotify[h] < notify[Feed(h)]
        /\ GoTo(h, "capture")
        /\ UNCHANGED ret
     \/ /\ gotKill[h] < kill
        /\ GoTo(h, "killed")
        /\ UNCHANGED ret
  /\ UNCHANGED <<server, req, cancelled, gotNotify, gotKill, snap, sent, history>>

(* Woken by kill: the code is read in a later critical section.            *)
ReturnKillCode(h) ==
  /\ pc[h] = "killed"
  /\ Return(h, killCode)
  /\ UNCHANGED <<server, req, cancelled, gotNotify, gotKill, snap, sent, history>>

(* FetchJWTSVID: the materials that match the requested SPIFFE ID.         *)
FetchJWTSVIDCode(r) ==
  IF ~r.args THEN "InvalidArgument"
  ELSE IF {i \in jwt.ids : r.want \in {AnyID, i}} = {} THEN "PermissionDenied"
  ELSE "OK"

(* ValidateJWTSVID: every bundle is parsed before the token is looked at.  *)
ValidateJWTSVIDCode(r) ==
  IF ~r.args THEN "InvalidArgument"
  ELSE IF ~jwt.parses THEN "Internal"
  ELSE IF r.want \notin jwt.keys THEN "InvalidArgument"
  ELSE "OK"

Serve(h) ==
  /\ pc[h] = "serve"
  /\ Return(h, IF req[h].method = "FetchJWTSVID"
               THEN FetchJWTSVIDCode(req[h]) ELSE ValidateJWTSVIDCode(req[h]))
  /\ UNCHANGED <<server, req, cancelled, gotNotify, gotKill, snap, sent, history>>

HandlerStep(h) ==
  \/ Begin(h) \/ Capture(h) \/ Snapshot(h) \/ Send(h)
  \/ Select(h) \/ ReturnKillCode(h) \/ Serve(h)

Next ==
  \/ SetX509State
  \/ \E s \in JWTStates : SetJWTState(s)
  \/ \E m \in FaultMethods, c \in FaultCodes, n \in -1..MaxCount : InjectError(m, c, n)
  \/ ClearErrors
  \/ \E c \in FaultCodes : CloseStreams(c)
  \/ Stop
  \/ \E h \in Handlers, r \in Requests : Call(h, r)
  \/ \E h \in Handlers : ClientCancel(h)
  \/ \E h \in Handlers : HandlerStep(h)

Spec == Init /\ [][Next]_vars

(* The Go scheduler runs every goroutine that can run, and mu is held for  *)
(* a few assignments only.  Send returns because the SDK reads its streams *)
(* or its context ends; nothing else is assumed of the SDK or of the test. *)
Fairness == \A h \in Handlers : WF_vars(HandlerStep(h))

FairSpec == Spec /\ Fairness
-----------------------------------------------------------------------------
ServerTypes ==
  /\ state \in [Feeds -> Nat]
  /\ jwt \in JWTStates \cup {NilJWT}
  /\ notify \in [Feeds -> Nat]
  /\ kill \in Nat
  /\ killCode \in Codes
  /\ faults \in [Methods -> [code : Codes, remaining : Int]]
  /\ calls \in Seq([rpc : Handlers, method : Methods, header : BOOLEAN, code : Codes])
  /\ stopped \in BOOLEAN

Labels == {"idle", "begin", "capture", "snapshot", "send", "select",
           "killed", "serve", "done"}

HandlerTypes ==
  /\ pc \in [Handlers -> Labels]
  /\ req \in [Handlers -> Requests \cup {NoRequest}]
  /\ \A h \in Handlers : pc[h] # "idle" => req[h] \in Requests
  /\ cancelled \in [Handlers -> BOOLEAN]
  /\ gotNotify \in [Handlers -> Nat]
  /\ gotKill \in [Handlers -> Nat]
  /\ snap \in [Handlers -> Nat]
  /\ sent \in [Handlers -> Seq(Nat)]
  /\ ret \in [Handlers -> Codes \cup {NoCode}]

HistoryTypes ==
  /\ opened \in [Handlers -> Nat]
  /\ doom \in [Handlers -> [served : BOOLEAN, epoch : Nat, quiet : BOOLEAN]]
  /\ injected \in [Methods -> [count : Int, since : Nat]]
  /\ injects \in Nat

(* Every variable holds what the code can put in it; in particular no      *)
(* channel epoch is taken back.                                            *)
TypeOK == ServerTypes /\ HandlerTypes /\ HistoryTypes

(* stream must not lose an update: a handler that waits in its select with *)
(* no state change signalled to it has already sent the current state (or  *)
(* there is none).  It depends on the notify channel being captured before *)
(* the state is read, and on both being replaced in one critical section.  *)
NoLostUpdate ==
  \A h \in Handlers :
    pc[h] = "select" /\ gotNotify[h] = notify[Feed(h)] => LastSent(h) = state[Feed(h)]

(* A subscriber never sees an older state after a newer one, although the  *)
(* state is read and sent in separate steps outside the lock.              *)
DeliveredInOrder ==
  \A h \in Handlers : \A i, j \in 1..Len(sent[h]) : i <= j => sent[h][i] <= sent[h][j]

(* "Streams opened afterwards are unaffected": a handler woken by the kill *)
(* channel was accepted before the CloseStreams call that closed it.       *)
LaterStreamsUnaffected ==
  \A h \in Handlers : pc[h] = "killed" => opened[h] < kill

(* InjectError(m, code, n) makes exactly the next n calls to m that carry  *)
(* the security header fail, all of them if n < 0, and none after          *)
(* ClearErrors, however calls and injections interleave.                   *)
InjectedFailures ==
  \A m \in Methods :
    LET mine == {i \in (injected[m].since + 1)..Len(calls) :
                   calls[i].method = m /\ calls[i].header}
        failed == {i \in mine : calls[i].code # "OK"}
        n == injected[m].count
    IN  /\ n < 0 => failed = mine
        /\ n >= 0 => Cardinality(failed) = IF Cardinality(mine) < n THEN Cardinality(mine) ELSE n
        /\ \A i \in mine, j \in failed : i < j => i \in failed

(* Calls() is the record the test cases assert on: every RPC that has been *)
(* answered is in it exactly once, and an RPC that begin refused is there  *)
(* with the status the SDK saw.                                            *)
AnsweredCallsRecorded ==
  \A h \in Handlers :
    pc[h] \notin {"idle", "begin"} =>
      \E i \in 1..Len(calls) :
        /\ calls[i].rpc = h
        /\ \A j \in 1..Len(calls) : calls[j].rpc = h => i = j
        /\ calls[i].code # "OK" => ret[h] = calls[i].code
        /\ sent[h] # <<>> => calls[i].header /\ calls[i].code = "OK"

(* CloseStreams ends every stream that was waiting with nothing to send,   *)
(* unless a state change reaches the stream first.                         *)
CloseEndsQuietStreams ==
  \A h \in Handlers :
    doom[h].quiet ~> (pc[h] = "done" \/ notify[Feed(h)] > doom[h].epoch)

(* Stop ends every RPC: no handler goroutine outlives the test forever.    *)
StopEndsHandlers ==
  stopped ~> \A h \in Handlers : pc[h] \in {"idle", "done"}
-----------------------------------------------------------------------------
(* The streams of one feed implement StateFeed.                            *)
Streams(f)   == {h \in Handlers : req[h].method \in Streaming /\ Feed(h) = f}
OpenOn(f)    == {h \in Streams(f) : InLoop(h)}
LastOn(f)    == [h \in Handlers |-> IF h \in Streams(f) THEN LastSent(h) ELSE 0]

X509Feed == INSTANCE StateFeed WITH
  Subs <- Handlers, MaxVersion <- MaxSets["x509"],
  current <- state["x509"], open <- OpenOn("x509"), delivered <- LastOn("x509")

JWTFeed == INSTANCE StateFeed WITH
  Subs <- Handlers, MaxVersion <- MaxSets["jwt"],
  current <- state["jwt"], open <- OpenOn("jwt"), delivered <- LastOn("jwt")

(* FetchX509SVID and FetchX509Bundles are a StateFeed of the X.509 state,  *)
(* FetchJWTBundles is one of the JWT state (stream, SetX509State,          *)
(* SetJWTState).                                                           *)
FeedsImplemented == X509Feed!Spec /\ JWTFeed!Spec

(* Every state set by the test eventually reaches every stream that stays  *)
(* open, or a later state does.                                            *)
UpdatesArrive == X509Feed!EventuallyCurrent /\ JWTFeed!EventuallyCurrent
=============================================================================
