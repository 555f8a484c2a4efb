-------------------------- MODULE ReferenceHarness --------------------------
(***************************************************************************)
(* The harness for go-spiffe, sdks/go-spiffe/main.go: main from the first  *)
(* SVID to the end after SIGTERM, the handlers of the control port, each a *)
(* goroutine of net/http, lazyJWTSource, which they share, and serveX509,  *)
(* with a goroutine per connection of the X.509 port.  Such a connection   *)
(* is a request too, a "probe".                                            *)
(*                                                                         *)
(* What the SDK decides is open.  The suite may close the connection of a  *)
(* request at any time, as it does when its timeout is over; the context   *)
(* of a handler is cancelled some time later.                              *)
(***************************************************************************)
EXTENDS Naturals, Sequences

CONSTANT Requests   \* the requests of the control port and the connections of the other

ControlKinds == {"validate", "fetch", "dial"}
Kinds == ControlKinds \cup {"probe"}

VARIABLES
  main,       \* starting, serving, stopping, exited
  closed,     \* how many steps of the shutdown are done
  term,       \* SIGTERM has arrived
  x509,       \* the X509Source: none, open, closed
  \* lazyJWTSource
  start,      \* its channel start holds the token
  creator,    \* the goroutine of Get: none, creating, assigned, done
  source,     \* none, open, closed
  err,        \* creating it failed
  ready,      \* its channel ready is closed
  \* the requests
  pc,         \* idle, get, wait, use, reply, done
  kind,
  conn,       \* none, open, closed
  cancelled,  \* the handler's context is done
  answer,     \* status to be written, and who decided on it
  \* history
  created,    \* how often NewJWTSource was called
  heard       \* the answers that reached the suite

shared == <<main, closed, term, x509, start, creator, source, err, ready, created>>
handlers == <<pc, kind, conn, cancelled, answer, heard>>
lazy == <<start, creator, source, err, ready, created>>
vars == <<shared, handlers>>

Nothing == [status |-> "none", by |-> "nobody"]

Init ==
  /\ main = "starting" /\ closed = 0 /\ term = FALSE /\ x509 = "none"
  /\ start = TRUE /\ creator = "none" /\ source = "none" /\ err = FALSE /\ ready = FALSE
  /\ pc = [r \in Requests |-> "idle"] /\ kind = [r \in Requests |-> "fetch"]
  /\ conn = [r \in Requests |-> "none"] /\ cancelled = [r \in Requests |-> FALSE]
  /\ answer = [r \in Requests |-> Nothing]
  /\ created = 0 /\ heard = [r \in Requests |-> Nothing]

Alive == main # "exited"
-----------------------------------------------------------------------------
(* main.                                                                   *)

Terminate ==
  /\ Alive /\ ~term
  /\ term' = TRUE
  /\ UNCHANGED <<main, closed, x509, lazy, handlers>>

(* NewX509Source waits for the first SVID or the end of its context.       *)
FirstSVID ==
  /\ main = "starting"
  /\ x509' = "open" /\ main' = "serving"
  /\ UNCHANGED <<closed, term, lazy, handlers>>

(* log.Fatalf.                                                             *)
StartFails ==
  /\ main = "starting"
  /\ main' = "exited"
  /\ UNCHANGED <<closed, term, x509, lazy, handlers>>

AfterTerm ==
  /\ main = "serving" /\ term
  /\ main' = "stopping"
  /\ UNCHANGED <<closed, term, x509, lazy, handlers>>

(* The control server and the X.509 port first, then the deferred calls in *)
(* reverse.  Mutant: the other way round.                                  *)
SourcesFirst == <<"client", "jwt", "x509", "x509 port", "control">>
Shutdown     == <<"control", "x509 port", "jwt", "x509", "client">>

Closed == {Shutdown[i] : i \in 1..closed}

(* The select of lazyJWTSource.Close has a default case.  Mutant: none.    *)
WaitsForReady == ready
DoesNotWait   == TRUE

(* http.Server.Close closes every connection and waits for no handler; the *)
(* Close of the X.509 listener leaves the connections it has accepted.     *)
CloseNext ==
  LET what == Shutdown[closed + 1]
  IN /\ main = "stopping" /\ closed < Len(Shutdown)
     /\ what = "jwt" => DoesNotWait
     /\ closed' = closed + 1
     /\ conn' = [r \in Requests |-> IF what = "control" /\ kind[r] # "probe" /\ conn[r] = "open" THEN "closed" ELSE conn[r]]
     /\ source' = IF what = "jwt" /\ ready /\ source = "open" THEN "closed" ELSE source
     /\ x509' = IF what = "x509" THEN "closed" ELSE x509
     /\ UNCHANGED <<main, term, start, creator, err, ready, created,
                    pc, kind, cancelled, answer, heard>>

Exit ==
  /\ main = "stopping" /\ closed = Len(Shutdown)
  /\ main' = "exited"
  /\ UNCHANGED <<closed, term, x509, lazy, handlers>>
-----------------------------------------------------------------------------
(* The goroutine that Get starts: both fields are assigned, then ready is  *)
(* closed.  Mutant: the other way round.                                   *)

CreateSource ==
  /\ Alive /\ creator = "creating"
  /\ \/ source' = "open" /\ UNCHANGED err
     \/ err' = TRUE /\ UNCHANGED source
  /\ creator' = "assigned"
  /\ UNCHANGED <<main, closed, term, x509, start, ready, created, handlers>>

ReadyEarly == creator = "creating"
Assigned   == creator = "assigned"

CloseReady ==
  /\ Alive /\ Assigned /\ ~ready
  /\ ready' = TRUE
  /\ creator' = IF creator = "assigned" THEN "done" ELSE creator
  /\ UNCHANGED <<main, closed, term, x509, start, source, err, created, handlers>>
-----------------------------------------------------------------------------
(* The suite and net/http.                                                 *)

(* Accepted by net/http, or by the loop of serveX509.                      *)
Port(k) == IF k = "probe" THEN "x509 port" ELSE "control"

Ask(r, k) ==
  /\ main \in {"serving", "stopping"} /\ Port(k) \notin Closed /\ pc[r] = "idle"
  /\ kind' = [kind EXCEPT ![r] = k]
  /\ conn' = [conn EXCEPT ![r] = "open"]
  /\ pc' = [pc EXCEPT ![r] = IF k = "validate" THEN "get" ELSE "use"]
  /\ UNCHANGED <<shared, cancelled, answer, heard>>

GiveUp(r) ==
  /\ conn[r] = "open"
  /\ conn' = [conn EXCEPT ![r] = "closed"]
  /\ UNCHANGED <<shared, pc, kind, cancelled, answer, heard>>

Notice(r) ==
  /\ Alive /\ kind[r] # "probe" /\ conn[r] = "closed" /\ ~cancelled[r]
  /\ cancelled' = [cancelled EXCEPT ![r] = TRUE]
  /\ UNCHANGED <<shared, pc, kind, conn, answer, heard>>
-----------------------------------------------------------------------------
(* The handlers.                                                           *)

Decide(r, status, who) ==
  /\ pc' = [pc EXCEPT ![r] = "reply"]
  /\ answer' = [answer EXCEPT ![r] = [status |-> status, by |-> who]]

(* The first select of Get.  Mutant: the token stays in the channel.       *)
KeepToken == start' = start
TakeToken == start' = FALSE

GetStart(r) ==
  /\ Alive /\ pc[r] = "get"
  /\ pc' = [pc EXCEPT ![r] = "wait"]
  /\ \/ start /\ TakeToken /\ creator' = "creating" /\ created' = created + 1
     \/ ~start /\ UNCHANGED <<start, creator, created>>
  /\ UNCHANGED <<main, closed, term, x509, source, err, ready,
                 kind, conn, cancelled, answer, heard>>

(* The second.  Mutant: the context is not waited for.                     *)
NotDone(r) == FALSE
CtxDone(r) == cancelled[r]

GetWait(r) ==
  /\ Alive /\ pc[r] = "wait"
  /\ \/ ready /\ err /\ Decide(r, "error", "harness")
     \/ ready /\ ~err /\ pc' = [pc EXCEPT ![r] = "use"] /\ UNCHANGED answer
     \/ CtxDone(r) /\ Decide(r, "error", "harness")
  /\ UNCHANGED <<shared, kind, conn, cancelled, heard>>

(* ParseAndValidate: a source that has been closed knows no bundle, which  *)
(* is one more reason to reject.                                           *)
Validate(r) ==
  /\ kind[r] = "validate"
  /\ \/ source = "open" /\ \E s \in {"ok", "rejected"} : Decide(r, s, "SDK")
     \/ source = "closed" /\ Decide(r, "rejected", "shutdown")

Fetch(r) ==
  /\ kind[r] = "fetch"
  /\ Decide(r, "ok", "SDK") \/ Decide(r, "error", "harness")

(* The connection fails, the handshake fails or takes five seconds for no  *)
(* reason of the SDK's, or the SDK decides.                                *)
Dial(r) ==
  /\ kind[r] = "dial"
  /\ \/ Decide(r, "error", "harness")
     \/ Decide(r, "rejected", "network")
     \/ x509 = "open" /\ \E s \in {"ok", "rejected"} : Decide(r, s, "SDK")
     \/ x509 = "closed" /\ Decide(r, "rejected", "shutdown")

(* The other end of the same: the client's ID is written, or nothing is.   *)
Handshake(r) ==
  /\ kind[r] = "probe"
  /\ \/ Decide(r, "rejected", "network")
     \/ x509 = "open" /\ \E s \in {"ok", "rejected"} : Decide(r, s, "SDK")
     \/ x509 = "closed" /\ Decide(r, "rejected", "shutdown")

Use(r) ==
  /\ Alive /\ pc[r] = "use"
  /\ Validate(r) \/ Fetch(r) \/ Dial(r) \/ Handshake(r)
  /\ UNCHANGED <<shared, kind, conn, cancelled, heard>>

Reply(r) ==
  /\ Alive /\ pc[r] = "reply"
  /\ pc' = [pc EXCEPT ![r] = "done"]
  /\ heard' = IF conn[r] = "open" THEN [heard EXCEPT ![r] = answer[r]] ELSE heard
  /\ UNCHANGED <<shared, kind, conn, cancelled, answer>>

HandlerStep(r) == Notice(r) \/ GetStart(r) \/ GetWait(r) \/ Use(r) \/ Reply(r)
MainStep == AfterTerm \/ CloseNext \/ Exit \/ (term /\ StartFails)

Next ==
  \/ Terminate \/ FirstSVID \/ StartFails \/ AfterTerm \/ CloseNext \/ Exit
  \/ CreateSource \/ CloseReady
  \/ \E r \in Requests : (\E k \in Kinds : Ask(r, k)) \/ GiveUp(r) \/ HandlerStep(r)

Spec == Init /\ [][Next]_vars

(* Goroutines that can run do.  Nothing is assumed of the Workload API (a  *)
(* JWT bundle may never come) or of the suite.                             *)
Fairness == WF_vars(MainStep) /\ WF_vars(CloseReady) /\ \A r \in Requests : WF_vars(HandlerStep(r))

FairSpec == Spec /\ Fairness
-----------------------------------------------------------------------------
Answers == [status : {"none", "ok", "rejected", "error"},
            by : {"nobody", "SDK", "network", "harness", "shutdown"}]

(* Every variable holds what the code can put in it.                       *)
TypeOK ==
  /\ main \in {"starting", "serving", "stopping", "exited"} /\ closed \in 0..Len(Shutdown)
  /\ term \in BOOLEAN /\ x509 \in {"none", "open", "closed"}
  /\ start \in BOOLEAN /\ err \in BOOLEAN /\ ready \in BOOLEAN /\ created \in Nat
  /\ creator \in {"none", "creating", "assigned", "done"}
  /\ source \in {"none", "open", "closed"}
  /\ pc \in [Requests -> {"idle", "get", "wait", "use", "reply", "done"}]
  /\ kind \in [Requests -> Kinds]
  /\ conn \in [Requests -> {"none", "open", "closed"}]
  /\ cancelled \in [Requests -> BOOLEAN]
  /\ answer \in [Requests -> Answers] /\ heard \in [Requests -> Answers]

(* However many requests come at once, one JWTSource is created, and no    *)
(* handler uses it before it has been (lazyJWTSource.Get).                 *)
OneSource ==
  /\ created <= 1
  /\ \A r \in Requests :
       pc[r] = "use" /\ kind[r] = "validate" => ready /\ source \in {"open", "closed"}

(* A rejection that comes from closing the sources never reaches the suite *)
(* through the control port, where it would be taken for the SDK's (the    *)
(* order of main's calls at its end).  The X.509 port has no such order: a *)
(* connection accepted before the listener was closed may be refused for   *)
(* want of a source, and the prober hears that.                            *)
ControlShutdownUnheard ==
  \A r \in Requests : heard[r].by = "shutdown" => kind[r] = "probe"

(* A handler whose client has gone ends, even if no JWT bundle ever comes. *)
AbandonedRequestsEnd ==
  \A r \in Requests : conn[r] = "closed" ~> (pc[r] = "done" \/ main = "exited")

(* "The harness SHOULD exit promptly on SIGTERM" (HARNESS_CONTRACT.md):    *)
(* whatever it waits for, also when a JWTSource is still being created.    *)
ExitsOnTerm == term ~> main = "exited"
=============================================================================
