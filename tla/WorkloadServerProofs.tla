------------------------ MODULE WorkloadServerProofs ------------------------
(***************************************************************************)
(* Proofs about WorkloadServer, for every set of handlers, requests and    *)
(* states and every bound.                                                 *)
(***************************************************************************)
EXTENDS WorkloadServer, FiniteSetTheorems, TLAPS

(* A request that reaches begin names one of the five RPCs.                *)
LEMMA RequestMethod ==
  ASSUME NEW r \in Requests PROVE r.method \in Methods /\ r.header \in BOOLEAN
  BY ServerAssumption DEF ServerAssumption, RequestOK

(* The codes the code itself uses, and those a test may choose.            *)
LEMMA CodeTypes ==
  /\ FaultCodes \subseteq Codes
  /\ {"OK", "InvalidArgument", "PermissionDenied", "Internal", "Canceled"} \subseteq Codes
  BY DEF Codes

(* Every handler follows one of the two feeds.                             *)
LEMMA FeedType == ASSUME NEW h \in Handlers PROVE Feed(h) \in Feeds
  BY DEF Feed, FeedOf, Feeds
-----------------------------------------------------------------------------
(* A step of the test case, or of the SDK, preserves the types.            *)
LEMMA TestStepTypes ==
  ASSUME TypeOK,
         \/ SetX509State
         \/ \E s \in JWTStates : SetJWTState(s)
         \/ \E m \in FaultMethods, c \in FaultCodes, n \in -1..MaxCount : InjectError(m, c, n)
         \/ ClearErrors
         \/ \E c \in FaultCodes : CloseStreams(c)
         \/ Stop
         \/ \E h \in Handlers, r \in Requests : Call(h, r)
         \/ \E h \in Handlers : ClientCancel(h)
  PROVE  TypeOK'
<1> USE DEF TypeOK
<1>1. CASE SetX509State
  <2>1. state' \in [Feeds -> Nat] /\ notify' \in [Feeds -> Nat]
    BY <1>1 DEF SetX509State, StoreState, CloseNotify, ServerTypes, Feeds
  <2>2. ServerTypes'
    BY <1>1, <2>1 DEF SetX509State, ServerTypes
  <2>3. UNCHANGED <<handler, history>>
    BY <1>1 DEF SetX509State
  <2> QED BY <2>2, <2>3 DEF HandlerTypes, HistoryTypes, handler, history
<1>2. CASE \E s \in JWTStates : SetJWTState(s)
  <2>0. PICK s \in JWTStates : SetJWTState(s)
    BY <1>2
  <2>1. state' \in [Feeds -> Nat] /\ notify' \in [Feeds -> Nat]
    BY <2>0 DEF SetJWTState, StoreState, CloseNotify, ServerTypes, Feeds
  <2>2. ServerTypes'
    BY <2>0, <2>1 DEF SetJWTState, ServerTypes
  <2>3. UNCHANGED <<handler, history>>
    BY <2>0 DEF SetJWTState
  <2> QED BY <2>2, <2>3 DEF HandlerTypes, HistoryTypes, handler, history
<1>3. CASE \E m \in FaultMethods, c \in FaultCodes, n \in -1..MaxCount : InjectError(m, c, n)
  <2>0. PICK m \in FaultMethods, c \in FaultCodes, n \in -1..MaxCount : InjectError(m, c, n)
    BY <1>3
  <2>1. m \in Methods /\ c \in Codes /\ n \in Int
    BY CodeTypes, ServerAssumption DEF ServerAssumption
  <2>2. faults' \in [Methods -> [code : Codes, remaining : Int]]
    BY <2>0, <2>1 DEF InjectError, ServerTypes
  <2>3. ServerTypes'
    BY <2>0, <2>2 DEF InjectError, ServerTypes
  <2>4. HistoryTypes'
    BY <2>0, <2>1 DEF InjectError, HistoryTypes, ServerTypes
  <2>5. UNCHANGED handler
    BY <2>0 DEF InjectError
  <2> QED BY <2>3, <2>4, <2>5 DEF HandlerTypes, handler
<1>4. CASE ClearErrors
  <2>1. ServerTypes'
    BY <1>4, CodeTypes DEF ClearErrors, ServerTypes, NoFault
  <2>2. HistoryTypes'
    BY <1>4 DEF ClearErrors, HistoryTypes, ServerTypes
  <2>3. UNCHANGED handler
    BY <1>4 DEF ClearErrors
  <2> QED BY <2>1, <2>2, <2>3 DEF HandlerTypes, handler
<1>5. CASE \E c \in FaultCodes : CloseStreams(c)
  <2>0. PICK c \in FaultCodes : CloseStreams(c)
    BY <1>5
  <2>1. c \in Codes
    BY CodeTypes
  <2>2. ServerTypes'
    BY <2>0, <2>1 DEF CloseStreams, CloseKill, ServerTypes
  <2>3. doom' \in [Handlers -> [served : BOOLEAN, epoch : Nat, quiet : BOOLEAN]]
    BY <2>0, <2>1, FeedType DEF CloseStreams, HistoryTypes, ServerTypes
  <2>4. HistoryTypes'
    BY <2>0, <2>3 DEF CloseStreams, HistoryTypes
  <2>5. UNCHANGED handler
    BY <2>0 DEF CloseStreams
  <2> QED BY <2>2, <2>4, <2>5 DEF HandlerTypes, handler
<1>6. CASE Stop
  <2>1. ServerTypes'
    BY <1>6 DEF Stop, ServerTypes
  <2>2. HandlerTypes'
    BY <1>6 DEF Stop, HandlerTypes
  <2> QED BY <1>6, <2>1, <2>2 DEF Stop, HistoryTypes, history
<1>7. CASE \E h \in Handlers, r \in Requests : Call(h, r)
  <2>0. PICK h \in Handlers, r \in Requests : Call(h, r)
    BY <1>7
  <2>1. HandlerTypes'
    BY <2>0 DEF Call, HandlerTypes, Labels
  <2>2. UNCHANGED <<server, history>>
    BY <2>0 DEF Call
  <2> QED BY <2>1, <2>2 DEF ServerTypes, HistoryTypes, server, history
<1>8. CASE \E h \in Handlers : ClientCancel(h)
  <2>1. HandlerTypes'
    BY <1>8 DEF ClientCancel, HandlerTypes
  <2>2. UNCHANGED <<server, history>>
    BY <1>8 DEF ClientCancel
  <2> QED BY <2>1, <2>2 DEF ServerTypes, HistoryTypes, server, history
<1> QED BY <1>1, <1>2, <1>3, <1>4, <1>5, <1>6, <1>7, <1>8

(* A step of a handler goroutine preserves the types.                      *)
LEMMA HandlerStepTypes ==
  ASSUME TypeOK, NEW h \in Handlers, HandlerStep(h)
  PROVE  TypeOK'
<1> USE DEF TypeOK
<1>0. Feed(h) \in Feeds
  BY FeedType
<1>1. CASE Begin(h)
  <2>1. req[h] \in Requests
    BY <1>1 DEF Begin, HandlerTypes
  <2>2. req[h].method \in Methods /\ req[h].header \in BOOLEAN
    BY <2>1, RequestMethod
  <2>3. BeginCode(req[h]) \in Codes
    BY <2>2, CodeTypes DEF BeginCode, ServerTypes
  <2>4. faults' \in [Methods -> [code : Codes, remaining : Int]]
    <3>1. CASE req[h].header /\ faults[req[h].method].remaining > 0
      <4> DEFINE m == req[h].method
                 f == [faults[m] EXCEPT !.remaining = @ - 1]
      <4>1. faults[m] \in [code : Codes, remaining : Int]
        BY <2>2 DEF ServerTypes
      <4>2. f \in [code : Codes, remaining : Int]
        BY <4>1
      <4>3. faults' = [faults EXCEPT ![m] = f]
        BY <1>1, <3>1 DEF Begin, UseFault
      <4> QED BY <4>2, <4>3 DEF ServerTypes
    <3>2. CASE ~(req[h].header /\ faults[req[h].method].remaining > 0)
      BY <1>1, <3>2 DEF Begin, UseFault, ServerTypes
    <3> QED BY <3>1, <3>2
  <2>5. calls' \in Seq([rpc : Handlers, method : Methods, header : BOOLEAN, code : Codes])
    BY <1>1, <2>2, <2>3 DEF Begin, Record, ServerTypes
  <2>6. ServerTypes'
    BY <1>1, <2>4, <2>5 DEF Begin, ServerTypes
  <2>7. pc' \in [Handlers -> Labels] /\ \A g \in Handlers : pc'[g] # "idle" => req'[g] \in Requests
    BY <1>1, <2>1 DEF Begin, Return, GoTo, HandlerTypes, Labels
  <2>8. ret' \in [Handlers -> Codes \cup {NoCode}]
    BY <1>1, <2>3 DEF Begin, Return, HandlerTypes
  <2>9. HandlerTypes'
    BY <1>1, <2>7, <2>8 DEF Begin, HandlerTypes
  <2>10. HistoryTypes'
    BY <1>1 DEF Begin, HistoryTypes, ServerTypes
  <2> QED BY <2>6, <2>9, <2>10
<1>2. ASSUME HandlerTypes', UNCHANGED <<server, history>> PROVE TypeOK'
  BY <1>2 DEF ServerTypes, HistoryTypes, server, history
<1>3. CASE Capture(h)
  BY <1>0, <1>2, <1>3 DEF Capture, CaptureChannels, GoTo, HandlerTypes, ServerTypes, Labels
<1>4. CASE Snapshot(h)
  BY <1>0, <1>2, <1>4 DEF Snapshot, Current, GoTo, HandlerTypes, ServerTypes, Labels
<1>5. CASE Send(h)
  <2>1. sent[h] \in Seq(Nat) /\ snap[h] \in Nat
    BY DEF HandlerTypes
  <2>2. Append(sent[h], snap[h]) \in Seq(Nat)
    BY <2>1
  <2>3. sent' \in [Handlers -> Seq(Nat)]
    BY <1>5, <2>2 DEF Send, Deliver, HandlerTypes
  <2>4. ret' \in [Handlers -> Codes \cup {NoCode}]
    BY <1>5, CodeTypes DEF Send, Return, HandlerTypes
  <2>5. HandlerTypes'
    BY <1>5, <2>3, <2>4 DEF Send, Return, GoTo, HandlerTypes, Labels
  <2> QED BY <1>2, <1>5, <2>5 DEF Send
<1>6. CASE Select(h)
  <2>1. ret' \in [Handlers -> Codes \cup {NoCode}]
    BY <1>6, CodeTypes DEF Select, Return, HandlerTypes
  <2>2. HandlerTypes'
    BY <1>6, <2>1 DEF Select, Return, GoTo, HandlerTypes, Labels
  <2> QED BY <1>2, <1>6, <2>2 DEF Select
<1>7. CASE ReturnKillCode(h)
  BY <1>2, <1>7 DEF ReturnKillCode, Return, GoTo, HandlerTypes, ServerTypes, Labels
<1>8. CASE Serve(h)
  <2>1. FetchJWTSVIDCode(req[h]) \in Codes /\ ValidateJWTSVIDCode(req[h]) \in Codes
    BY CodeTypes DEF FetchJWTSVIDCode, ValidateJWTSVIDCode
  <2>2. HandlerTypes'
    BY <1>8, <2>1 DEF Serve, Return, GoTo, HandlerTypes, Labels
  <2> QED BY <1>2, <1>8, <2>2 DEF Serve
<1> QED BY <1>1, <1>3, <1>4, <1>5, <1>6, <1>7, <1>8 DEF HandlerStep

(* Initially nothing is set and no handler runs.                           *)
LEMMA InitTypes == Init => TypeOK
<1> SUFFICES ASSUME Init PROVE TypeOK
  OBVIOUS
<1>1. ServerTypes
  <2>1. faults \in [Methods -> [code : Codes, remaining : Int]]
    BY CodeTypes DEF Init, NoFault
  <2>2. calls \in Seq([rpc : Handlers, method : Methods, header : BOOLEAN, code : Codes])
    BY DEF Init
  <2>3. state \in [Feeds -> Nat] /\ notify \in [Feeds -> Nat] /\ kill \in Nat
    BY DEF Init
  <2> QED BY <2>1, <2>2, <2>3, CodeTypes DEF Init, ServerTypes
<1>2. HandlerTypes
  BY DEF Init, HandlerTypes, Labels
<1>3. HistoryTypes
  BY DEF Init, HistoryTypes, NoDoom
<1> QED BY <1>1, <1>2, <1>3 DEF TypeOK

(* Every variable of the server and of its handlers keeps its type.        *)
THEOREM TypeCorrect == Spec => []TypeOK
<1>1. TypeOK /\ [Next]_vars => TypeOK'
  <2> SUFFICES ASSUME TypeOK, [Next]_vars PROVE TypeOK'
    OBVIOUS
  <2>1. CASE Next
    BY <2>1, TestStepTypes, HandlerStepTypes DEF Next
  <2>2. CASE UNCHANGED vars
    BY <2>2 DEF vars, TypeOK, ServerTypes, HandlerTypes, HistoryTypes, server, handler, history
  <2> QED BY <2>1, <2>2
<1> QED BY InitTypes, <1>1, PTL DEF Spec
-----------------------------------------------------------------------------
(* What holds of the channels and states a handler holds, at every point   *)
(* of its loop.                                                            *)

(* Nothing is captured or sent before the loop.                            *)
Fresh(h) ==
  pc[h] \in {"idle", "begin", "serve"} =>
    gotNotify[h] = 0 /\ snap[h] = 0 /\ sent[h] = <<>>

(* The handler lags behind the server, never the other way round.          *)
Behind(h) ==
  /\ gotNotify[h] <= notify[Feed(h)]
  /\ snap[h] <= state[Feed(h)]
  /\ LastSent(h) <= state[Feed(h)]
  /\ pc[h] = "send" => LastSent(h) <= snap[h]

(* If the channel it captured is still open, what it read is still current.*)
UpToDate(h) ==
  gotNotify[h] = notify[Feed(h)] =>
    /\ pc[h] = "send" => snap[h] = state[Feed(h)]
    /\ pc[h] = "select" => LastSent(h) = state[Feed(h)]

InOrder(h) == \A i, j \in 1..Len(sent[h]) : i <= j => sent[h][i] <= sent[h][j]

(* It captured the kill channel after it was accepted.                     *)
KillAfterOpen(h) ==
  /\ gotKill[h] <= kill
  /\ opened[h] <= kill
  /\ pc[h] \in {"snapshot", "send", "select"} => opened[h] <= gotKill[h]
  /\ pc[h] = "killed" => opened[h] < kill

HandlerInv(h) == Fresh(h) /\ Behind(h) /\ UpToDate(h) /\ InOrder(h) /\ KillAfterOpen(h)

StreamInv == TypeOK /\ \A h \in Handlers : HandlerInv(h)

(* What the other goroutines do leaves the entries of a handler alone, and *)
(* the server only moves forward: a state change closes its notify channel.*)
Untouched(g) ==
  /\ pc'[g] = pc[g]
  /\ req'[g] = req[g]
  /\ gotNotify'[g] = gotNotify[g]
  /\ gotKill'[g] = gotKill[g]
  /\ snap'[g] = snap[g]
  /\ sent'[g] = sent[g]
  /\ opened'[g] = opened[g]

Forward ==
  /\ kill <= kill'
  /\ \A f \in Feeds :
       \/ state'[f] = state[f] /\ notify'[f] = notify[f]
       \/ state'[f] >= state[f] /\ notify'[f] > notify[f]

(* The last state a handler has sent is a number, 0 if there is none.      *)
LEMMA LastSentType == ASSUME TypeOK, NEW g \in Handlers PROVE LastSent(g) \in Nat
<1>1. sent[g] \in Seq(Nat)
  BY DEF TypeOK, HandlerTypes
<1> QED BY <1>1 DEF LastSent

(* A step of somebody else keeps what holds of a handler.                  *)
LEMMA OthersStep ==
  ASSUME TypeOK, TypeOK', NEW g \in Handlers, HandlerInv(g), Untouched(g), Forward
  PROVE  HandlerInv(g)'
<1>1. Feed(g)' = Feed(g) /\ Feed(g) \in Feeds
  BY FeedType DEF Feed, Untouched
<1>2. LastSent(g)' = LastSent(g) /\ LastSent(g) \in Nat
  BY LastSentType DEF LastSent, Untouched
<1>3. /\ gotNotify[g] \in Nat /\ gotKill[g] \in Nat /\ snap[g] \in Nat /\ opened[g] \in Nat
      /\ kill \in Nat /\ kill' \in Nat
      /\ state[Feed(g)] \in Nat /\ state'[Feed(g)] \in Nat
      /\ notify[Feed(g)] \in Nat /\ notify'[Feed(g)] \in Nat
  BY <1>1 DEF TypeOK, ServerTypes, HandlerTypes, HistoryTypes
<1>4. \/ state'[Feed(g)] = state[Feed(g)] /\ notify'[Feed(g)] = notify[Feed(g)]
      \/ state'[Feed(g)] >= state[Feed(g)] /\ notify'[Feed(g)] > notify[Feed(g)]
  BY <1>1 DEF Forward
<1>5. Fresh(g)'
  BY DEF HandlerInv, Fresh, Untouched
<1>6. Behind(g)'
  BY <1>1, <1>2, <1>3, <1>4 DEF HandlerInv, Behind, Untouched
<1>7. UpToDate(g)'
  BY <1>1, <1>2, <1>3, <1>4 DEF HandlerInv, Behind, UpToDate, Untouched
<1>8. InOrder(g)'
  BY DEF HandlerInv, InOrder, Untouched
<1>9. KillAfterOpen(g)'
  BY <1>3 DEF HandlerInv, KillAfterOpen, Untouched, Forward
<1> QED BY <1>5, <1>6, <1>7, <1>8, <1>9 DEF HandlerInv

(* The test case moves the server forward and leaves the handlers alone;   *)
(* the SDK starts a handler, or cancels one.                               *)
LEMMA TestStepInv ==
  ASSUME StreamInv, TypeOK',
         \/ SetX509State
         \/ \E s \in JWTStates : SetJWTState(s)
         \/ \E m \in FaultMethods, c \in FaultCodes, n \in -1..MaxCount : InjectError(m, c, n)
         \/ ClearErrors
         \/ \E c \in FaultCodes : CloseStreams(c)
         \/ Stop
         \/ \E h \in Handlers, r \in Requests : Call(h, r)
         \/ \E h \in Handlers : ClientCancel(h)
  PROVE  StreamInv'
<1>1. ASSUME \A g \in Handlers : Untouched(g), Forward
      PROVE  StreamInv'
  BY <1>1, OthersStep DEF StreamInv
<1>2. ServerTypes
  BY DEF StreamInv, TypeOK
<1>3. ASSUME UNCHANGED <<state, notify, kill>> PROVE Forward
  BY <1>2, <1>3 DEF Forward, ServerTypes
<1>4. ASSUME UNCHANGED handler, UNCHANGED opened PROVE \A g \in Handlers : Untouched(g)
  BY <1>4 DEF Untouched, handler
<1>5. CASE SetX509State
  <2>1. Forward
    BY <1>2, <1>5 DEF SetX509State, StoreState, CloseNotify, Forward, ServerTypes, Feeds
  <2>2. UNCHANGED handler /\ UNCHANGED opened
    BY <1>5 DEF SetX509State, history
  <2> QED BY <1>1, <1>4, <2>1, <2>2
<1>6. CASE \E s \in JWTStates : SetJWTState(s)
  <2>1. Forward
    BY <1>2, <1>6 DEF SetJWTState, StoreState, CloseNotify, Forward, ServerTypes, Feeds
  <2>2. UNCHANGED handler /\ UNCHANGED opened
    BY <1>6 DEF SetJWTState, history
  <2> QED BY <1>1, <1>4, <2>1, <2>2
<1>7. CASE \E m \in FaultMethods, c \in FaultCodes, n \in -1..MaxCount : InjectError(m, c, n)
  BY <1>1, <1>3, <1>4, <1>7 DEF InjectError
<1>8. CASE ClearErrors
  BY <1>1, <1>3, <1>4, <1>8 DEF ClearErrors
<1>9. CASE \E c \in FaultCodes : CloseStreams(c)
  <2>1. Forward
    BY <1>2, <1>9 DEF CloseStreams, CloseKill, Forward, ServerTypes
  <2>2. UNCHANGED handler /\ UNCHANGED opened
    BY <1>9 DEF CloseStreams
  <2> QED BY <1>1, <1>4, <2>1, <2>2
<1>10. CASE Stop
  <2>1. \A g \in Handlers : Untouched(g)
    BY <1>10 DEF Stop, Untouched, history
  <2> QED BY <1>1, <1>3, <1>10, <2>1 DEF Stop
<1>11. CASE \E h \in Handlers, r \in Requests : Call(h, r)
  <2>0. PICK h \in Handlers, r \in Requests : Call(h, r)
    BY <1>11
  <2>1. UNCHANGED <<server, gotNotify, gotKill, snap, sent, opened>>
    BY <2>0 DEF Call, history
  <2>2. Forward
    BY <1>3, <2>1 DEF server
  <2>3. HandlerInv(h)'
    <3>1. pc[h] = "idle" /\ pc'[h] = "begin"
      BY <2>0 DEF Call, StreamInv, TypeOK, HandlerTypes
    <3>2. gotNotify'[h] = 0 /\ snap'[h] = 0 /\ sent'[h] = <<>>
      BY <2>1, <3>1 DEF StreamInv, HandlerInv, Fresh
    <3>3. Feed(h)' \in Feeds
      BY DEF Feed, FeedOf, Feeds
    <3>4. Fresh(h)' /\ InOrder(h)'
      BY <3>2 DEF Fresh, InOrder
    <3>5. notify'[Feed(h)'] \in Nat /\ state'[Feed(h)'] \in Nat
      BY <3>3 DEF TypeOK, ServerTypes
    <3>6. Behind(h)' /\ UpToDate(h)'
      BY <3>1, <3>2, <3>5 DEF Behind, UpToDate, LastSent
    <3>7. KillAfterOpen(h)'
      BY <2>1, <3>1 DEF StreamInv, HandlerInv, KillAfterOpen, server
    <3> QED BY <3>4, <3>6, <3>7 DEF HandlerInv
  <2>4. ASSUME NEW g \in Handlers, g # h PROVE HandlerInv(g)'
    <3>1. Untouched(g)
      BY <2>0, <2>1, <2>4 DEF Call, Untouched, StreamInv, TypeOK, HandlerTypes
    <3> QED BY <2>2, <3>1, OthersStep DEF StreamInv
  <2> QED BY <2>3, <2>4 DEF StreamInv
<1>12. CASE \E h \in Handlers : ClientCancel(h)
  <2>1. \A g \in Handlers : Untouched(g)
    BY <1>12 DEF ClientCancel, Untouched, history
  <2> QED BY <1>1, <1>3, <1>12, <2>1 DEF ClientCancel, server
<1> QED BY <1>5, <1>6, <1>7, <1>8, <1>9, <1>10, <1>11, <1>12

(* A handler keeps its own part of the invariant.                          *)
LEMMA OwnStep ==
  ASSUME StreamInv, TypeOK', NEW h \in Handlers, HandlerStep(h)
  PROVE  HandlerInv(h)'
<1> DEFINE f == Feed(h)
<1>0. /\ pc[h] \in Labels /\ gotNotify[h] \in Nat /\ gotKill[h] \in Nat /\ snap[h] \in Nat
      /\ opened[h] \in Nat /\ kill \in Nat /\ sent[h] \in Seq(Nat) /\ LastSent(h) \in Nat
      /\ state[f] \in Nat /\ notify[f] \in Nat /\ f \in Feeds
  BY FeedType, LastSentType DEF StreamInv, TypeOK, ServerTypes, HandlerTypes, HistoryTypes
<1>1. UNCHANGED <<state, notify, kill, req>>
  BY DEF HandlerStep, Begin, Capture, Snapshot, Send, Select, ReturnKillCode, Serve, server
<1>2. Feed(h)' = f /\ state'[f] = state[f] /\ notify'[f] = notify[f] /\ kill' = kill
  BY <1>1 DEF Feed
<1>3. HandlerInv(h)
  BY DEF StreamInv
<1>4. ASSUME sent'[h] = sent[h] PROVE LastSent(h)' = LastSent(h) /\ InOrder(h)'
  BY <1>3, <1>4 DEF LastSent, HandlerInv, InOrder
<1> HIDE DEF f
<1>5. CASE Begin(h)
  <2>1. /\ pc[h] = "begin" /\ pc'[h] \in {"done", "capture", "serve"} /\ opened'[h] = kill
        /\ UNCHANGED <<gotNotify, gotKill, snap, sent>>
    BY <1>5 DEF Begin, Return, GoTo, StreamInv, TypeOK, HandlerTypes, HistoryTypes
  <2>2. gotNotify[h] = 0 /\ snap[h] = 0 /\ sent[h] = <<>>
    BY <1>3, <2>1 DEF HandlerInv, Fresh
  <2>3. Fresh(h)'
    BY <2>1, <2>2 DEF Fresh
  <2>4. Behind(h)' /\ UpToDate(h)'
    BY <1>0, <1>2, <1>4, <2>1, <1>3 DEF HandlerInv, Behind, UpToDate, f
  <2>5. KillAfterOpen(h)'
    BY <1>0, <1>2, <1>3, <2>1 DEF HandlerInv, KillAfterOpen
  <2> QED BY <1>4, <2>1, <2>3, <2>4, <2>5 DEF HandlerInv
<1>6. CASE Capture(h)
  <2>1. /\ pc'[h] = "snapshot" /\ gotNotify'[h] = notify[f] /\ gotKill'[h] = kill
        /\ UNCHANGED <<snap, sent, opened>>
    BY <1>6 DEF Capture, CaptureChannels, GoTo, StreamInv, TypeOK, HandlerTypes, history, f
  <2>2. Fresh(h)'
    BY <2>1 DEF Fresh
  <2>3. Behind(h)' /\ UpToDate(h)'
    BY <1>0, <1>2, <1>3, <1>4, <2>1 DEF HandlerInv, Behind, UpToDate, f
  <2>4. KillAfterOpen(h)'
    BY <1>0, <1>2, <1>3, <2>1 DEF HandlerInv, KillAfterOpen
  <2> QED BY <1>4, <2>1, <2>2, <2>3, <2>4 DEF HandlerInv
<1>7. CASE Snapshot(h)
  <2>1. /\ pc[h] = "snapshot" /\ snap'[h] = state[f]
        /\ pc'[h] = IF state[f] = 0 THEN "select" ELSE "send"
        /\ UNCHANGED <<gotNotify, gotKill, sent, opened>>
    BY <1>7 DEF Snapshot, Current, GoTo, StreamInv, TypeOK, HandlerTypes, history, f
  <2>2. Fresh(h)'
    BY <2>1 DEF Fresh
  <2>3. Behind(h)' /\ UpToDate(h)'
    BY <1>0, <1>2, <1>3, <1>4, <2>1 DEF HandlerInv, Behind, UpToDate, f
  <2>4. KillAfterOpen(h)'
    BY <1>0, <1>2, <1>3, <2>1 DEF HandlerInv, KillAfterOpen
  <2> QED BY <1>4, <2>1, <2>2, <2>3, <2>4 DEF HandlerInv
<1>8. CASE Send(h)
  <2>1. /\ pc[h] = "send" /\ UNCHANGED <<gotNotify, gotKill, snap, opened>>
        /\ \/ sent'[h] = Append(sent[h], snap[h]) /\ pc'[h] = "select"
           \/ sent'[h] = sent[h] /\ pc'[h] = "done"
    BY <1>8 DEF Send, Deliver, Return, GoTo, StreamInv, TypeOK, HandlerTypes, history
  <2>2. Fresh(h)'
    BY <2>1 DEF Fresh
  <2>3. KillAfterOpen(h)'
    BY <1>0, <1>2, <1>3, <2>1 DEF HandlerInv, KillAfterOpen
  <2>4. CASE sent'[h] = Append(sent[h], snap[h]) /\ pc'[h] = "select"
    <3>1. LastSent(h)' = snap[h]
      BY <1>0, <2>4 DEF LastSent
    <3>2. Behind(h)' /\ UpToDate(h)'
      BY <1>0, <1>2, <1>3, <2>1, <2>4, <3>1 DEF HandlerInv, Behind, UpToDate, f
    <3>3. \A i \in 1..Len(sent[h]) : sent[h][i] <= LastSent(h)
      <4> SUFFICES ASSUME NEW i \in 1..Len(sent[h]) PROVE sent[h][i] <= LastSent(h)
        OBVIOUS
      <4>1. Len(sent[h]) \in 1..Len(sent[h]) /\ i <= Len(sent[h]) /\ sent[h] # <<>>
        BY <1>0
      <4> QED BY <1>3, <4>1 DEF HandlerInv, InOrder, LastSent
    <3>4. LastSent(h) <= snap[h]
      BY <1>3, <2>1 DEF HandlerInv, Behind
    <3>5. \A i \in 1..Len(sent[h]) : sent[h][i] \in Nat /\ sent[h][i] <= snap[h]
      BY SMTT(30), <1>0, <3>3, <3>4
    <3>6. InOrder(h)'
      BY SMTT(30), <1>0, <1>3, <2>4, <3>5 DEF HandlerInv, InOrder
    <3> QED BY <2>2, <2>3, <3>2, <3>6 DEF HandlerInv
  <2>5. CASE sent'[h] = sent[h] /\ pc'[h] = "done"
    <3>1. Behind(h)' /\ UpToDate(h)'
      BY <1>0, <1>2, <1>3, <1>4, <2>1, <2>5 DEF HandlerInv, Behind, UpToDate, f
    <3> QED BY <1>4, <2>2, <2>3, <2>5, <3>1 DEF HandlerInv
  <2> QED BY <2>1, <2>4, <2>5
<1>9. CASE Select(h) \/ ReturnKillCode(h) \/ Serve(h)
  <2>1. /\ UNCHANGED <<gotNotify, gotKill, snap, sent, opened>>
        /\ \/ pc'[h] \in {"done", "capture"}
           \/ pc[h] = "select" /\ pc'[h] = "killed" /\ gotKill[h] < kill
    BY <1>9 DEF Select, ReturnKillCode, Serve, Return, GoTo, StreamInv, TypeOK,
                HandlerTypes, history
  <2>2. Fresh(h)'
    BY <2>1 DEF Fresh
  <2>3. Behind(h)' /\ UpToDate(h)'
    BY <1>0, <1>2, <1>3, <1>4, <2>1 DEF HandlerInv, Behind, UpToDate, f
  <2>4. KillAfterOpen(h)'
    BY <1>0, <1>2, <1>3, <2>1 DEF HandlerInv, KillAfterOpen
  <2> QED BY <1>4, <2>1, <2>2, <2>3, <2>4 DEF HandlerInv
<1> QED BY <1>5, <1>6, <1>7, <1>8, <1>9 DEF HandlerStep

(* StreamInv is inductive.                                                 *)
LEMMA StreamInvStep == StreamInv /\ [Next]_vars => StreamInv'
<1> SUFFICES ASSUME StreamInv, [Next]_vars PROVE StreamInv'
  OBVIOUS
<1>1. CASE Next
  <2>1. TypeOK'
    BY <1>1, TestStepTypes, HandlerStepTypes DEF Next, StreamInv
  <2>2. ASSUME NEW h \in Handlers, HandlerStep(h) PROVE StreamInv'
    <3>1. ASSUME NEW g \in Handlers, g # h PROVE Untouched(g) /\ Forward
      <4>1. Untouched(g)
        BY <2>2, <3>1 DEF HandlerStep, Begin, Capture, CaptureChannels, Snapshot, Current,
             Send, Deliver, Select, ReturnKillCode, Serve, Return, GoTo, Untouched,
             history, StreamInv, TypeOK, HandlerTypes, HistoryTypes
      <4>2. UNCHANGED <<state, notify, kill>>
        BY <2>2 DEF HandlerStep, Begin, Capture, Snapshot, Send, Select, ReturnKillCode,
             Serve, server
      <4> QED BY <4>1, <4>2 DEF Forward, StreamInv, TypeOK, ServerTypes
    <3>2. ASSUME NEW g \in Handlers PROVE HandlerInv(g)'
      BY <2>1, <2>2, <3>1, OthersStep, OwnStep DEF StreamInv
    <3> QED BY <2>1, <3>2 DEF StreamInv
  <2> QED BY <1>1, <2>1, <2>2, TestStepInv DEF Next
<1>2. CASE UNCHANGED vars
  BY <1>2 DEF vars, server, handler, history, StreamInv, TypeOK, ServerTypes, HandlerTypes,
       HistoryTypes, HandlerInv, Fresh, Behind, UpToDate, InOrder, KillAfterOpen, LastSent, Feed
<1> QED BY <1>1, <1>2

(* The invariant of stream: what a handler has captured, read and sent is  *)
(* never ahead of the server, and is current while its channel is open.    *)
THEOREM StreamInvariant == Spec => []StreamInv
<1>1. Init => StreamInv
  <2> SUFFICES ASSUME Init PROVE StreamInv
    OBVIOUS
  <2>1. TypeOK
    BY InitTypes
  <2>2. ASSUME NEW h \in Handlers PROVE HandlerInv(h)
    <3>1. Feed(h) \in Feeds
      BY FeedType
    <3>2. /\ pc[h] = "idle" /\ gotNotify[h] = 0 /\ gotKill[h] = 0 /\ snap[h] = 0
          /\ sent[h] = <<>> /\ opened[h] = 0 /\ kill = 0
          /\ notify[Feed(h)] = 0 /\ state[Feed(h)] = 0
      BY <3>1 DEF Init
    <3> QED BY <3>2 DEF HandlerInv, Fresh, Behind, UpToDate, InOrder, KillAfterOpen, LastSent
  <2> QED BY <2>1, <2>2 DEF StreamInv
<1> QED BY <1>1, StreamInvStep, PTL DEF Spec

(* No update is lost, whatever the number of streams and state changes: a  *)
(* handler that waits with an open notify channel has sent what is current.*)
THEOREM NothingLost == Spec => []NoLostUpdate
<1>1. StreamInv => NoLostUpdate
  BY DEF StreamInv, HandlerInv, UpToDate, NoLostUpdate
<1> QED BY <1>1, StreamInvariant, PTL

(* A stream never goes back to an older state.                             *)
THEOREM NeverGoesBack == Spec => []DeliveredInOrder
<1>1. StreamInv => DeliveredInOrder
  BY DEF StreamInv, HandlerInv, InOrder, DeliveredInOrder
<1> QED BY <1>1, StreamInvariant, PTL

(* CloseStreams never ends a stream that was opened after it.              *)
THEOREM KillsOnlyEarlierStreams == Spec => []LaterStreamsUnaffected
<1>1. StreamInv => LaterStreamsUnaffected
  BY DEF StreamInv, HandlerInv, KillAfterOpen, LaterStreamsUnaffected
<1> QED BY <1>1, StreamInvariant, PTL
-----------------------------------------------------------------------------
(* The record of calls.  A call is on record from begin on, once; it is    *)
(* served only if the record says OK, which it says only of calls with the *)
(* header.                                                                 *)
Unrecorded(h) == sent[h] = <<>> /\ \A i \in 1..Len(calls) : calls[i].rpc # h

RecordedAt(h, i) ==
  /\ calls[i].rpc = h
  /\ \A j \in 1..Len(calls) : calls[j].rpc = h => i = j
  /\ calls[i].code # "OK" => pc[h] = "done" /\ ret[h] = calls[i].code /\ sent[h] = <<>>
  /\ calls[i].code = "OK" => calls[i].header

RecordOf(h) ==
  IF pc[h] \in {"idle", "begin"} THEN Unrecorded(h)
  ELSE \E i \in 1..Len(calls) : RecordedAt(h, i)

RecordInv == \A h \in Handlers : RecordOf(h)

(* A step of another handler, or of the test case, leaves the record of a  *)
(* call as it is.                                                          *)
LEMMA RecordOfOthers ==
  ASSUME TypeOK, NEW g \in Handlers, RecordOf(g),
         pc'[g] = pc[g], sent'[g] = sent[g], ret'[g] = ret[g],
         \/ calls' = calls
         \/ \E x : x.rpc # g /\ calls' = Append(calls, x)
  PROVE  RecordOf(g)'
<1>0. calls \in Seq([rpc : Handlers, method : Methods, header : BOOLEAN, code : Codes])
  BY DEF TypeOK, ServerTypes
<1>1. /\ Len(calls) \in Nat /\ Len(calls') \in Nat /\ Len(calls) <= Len(calls')
      /\ \A i \in 1..Len(calls) : calls'[i] = calls[i]
      /\ \A i \in 1..Len(calls') : i \notin 1..Len(calls) => calls'[i].rpc # g
  <2>1. CASE calls' = calls
    BY <1>0, <2>1
  <2>2. CASE \E x : x.rpc # g /\ calls' = Append(calls, x)
    <3>1. PICK x : x.rpc # g /\ calls' = Append(calls, x)
      BY <2>2
    <3> QED BY <1>0, <3>1
  <2> QED BY <2>1, <2>2
<1>2. CASE pc[g] \in {"idle", "begin"}
  BY <1>1, <1>2 DEF RecordOf, Unrecorded
<1>3. CASE pc[g] \notin {"idle", "begin"}
  <2>1. PICK i \in 1..Len(calls) : RecordedAt(g, i)
    BY <1>3 DEF RecordOf
  <2>2. i \in 1..Len(calls') /\ calls'[i] = calls[i]
    BY <1>1
  <2>3. \A j \in 1..Len(calls') : calls'[j].rpc = g => i = j
    BY <1>1, <2>1 DEF RecordedAt
  <2>4. RecordedAt(g, i)'
    BY <2>1, <2>2, <2>3 DEF RecordedAt
  <2> QED BY <1>3, <2>2, <2>4 DEF RecordOf
<1> QED BY <1>2, <1>3

(* begin puts the call on record.                                          *)
LEMMA BeginRecords ==
  ASSUME TypeOK, NEW h \in Handlers, RecordOf(h), Begin(h), NEW n, n = Len(calls) + 1
  PROVE  RecordOf(h)'
<1> DEFINE code == BeginCode(req[h])
           x == [rpc |-> h, method |-> req[h].method, header |-> req[h].header, code |-> code]
<1>0. calls \in Seq([rpc : Handlers, method : Methods, header : BOOLEAN, code : Codes])
  BY DEF TypeOK, ServerTypes
<1>1. pc[h] = "begin" /\ calls' = Append(calls, x) /\ sent' = sent
  BY DEF Begin, Record
<1>2. Unrecorded(h)
  BY <1>1 DEF RecordOf
<1>3. /\ Len(calls) \in Nat /\ Len(calls') = n /\ calls'[n] = x
      /\ \A i \in 1..Len(calls) : calls'[i] = calls[i]
  BY <1>0, <1>1
<1>4. \A j \in 1..Len(calls') : calls'[j].rpc = h => n = j
  BY <1>2, <1>3 DEF Unrecorded
<1>5. x.rpc = h /\ x.code = code /\ x.header = req[h].header
  OBVIOUS
<1>6. code = "OK" => req[h].header
  BY DEF BeginCode
<1>7. code # "OK" => pc'[h] = "done" /\ ret'[h] = code
  BY DEF Begin, Return, GoTo, TypeOK, HandlerTypes
<1>8. pc'[h] \notin {"idle", "begin"}
  BY DEF Begin, Return, GoTo, TypeOK, HandlerTypes
<1>9. sent'[h] = <<>>
  BY <1>1, <1>2 DEF Unrecorded
<1> HIDE DEF code, x
<1>10. RecordedAt(h, n)'
  BY <1>3, <1>4, <1>5, <1>6, <1>7, <1>9 DEF RecordedAt
<1> QED BY <1>3, <1>8, <1>10 DEF RecordOf

(* A handler past begin that has not returned was accepted.                *)
LEMMA ServedWasAccepted ==
  ASSUME TypeOK, NEW h \in Handlers, RecordOf(h), HandlerStep(h), pc[h] # "begin"
  PROVE  RecordOf(h)'
<1>1. /\ pc[h] \notin {"idle", "begin", "done"} /\ calls' = calls
      /\ pc'[h] \notin {"idle", "begin"}
  BY DEF HandlerStep, Begin, Capture, Snapshot, Send, Select, ReturnKillCode, Serve,
         Return, GoTo, TypeOK, HandlerTypes, server
<1>2. PICK i \in 1..Len(calls) : RecordedAt(h, i)
  BY <1>1 DEF RecordOf
<1>3. calls[i].code = "OK"
  BY <1>1, <1>2 DEF RecordedAt
<1>4. RecordedAt(h, i)'
  BY <1>1, <1>2, <1>3 DEF RecordedAt
<1> QED BY <1>1, <1>2, <1>4 DEF RecordOf

LEMMA RecordStep == TypeOK /\ RecordInv /\ [Next]_vars => RecordInv'
<1> SUFFICES ASSUME TypeOK, RecordInv, [Next]_vars, NEW g \in Handlers
             PROVE  RecordOf(g)'
  BY DEF RecordInv
<1>0. RecordOf(g)
  BY DEF RecordInv
<1>1. CASE \E h \in Handlers, r \in Requests : Call(h, r)
  <2>1. PICK h \in Handlers, r \in Requests : Call(h, r)
    BY <1>1
  <2>2. CASE g = h
    <3>1. pc[g] = "idle" /\ pc'[g] = "begin" /\ UNCHANGED <<sent, calls>>
      BY <2>1, <2>2 DEF Call, TypeOK, HandlerTypes, server
    <3> QED BY <1>0, <3>1 DEF RecordOf, Unrecorded
  <2>3. CASE g # h
    <3>1. pc'[g] = pc[g] /\ UNCHANGED <<sent, ret, calls>>
      BY <2>1, <2>3 DEF Call, TypeOK, HandlerTypes, server
    <3> QED BY <1>0, <3>1, RecordOfOthers
  <2> QED BY <2>2, <2>3
<1>2. CASE \E h \in Handlers : HandlerStep(h)
  <2>1. PICK h \in Handlers : HandlerStep(h)
    BY <1>2
  <2>2. CASE g = h
    <3>1. CASE pc[h] = "begin"
      <4>1. Begin(h)
        BY <2>1, <3>1 DEF HandlerStep, Capture, Snapshot, Send, Select, ReturnKillCode, Serve
      <4> QED BY <1>0, <2>2, <4>1, BeginRecords
    <3> QED BY <1>0, <2>1, <2>2, <3>1, ServedWasAccepted
  <2>3. CASE g # h
    <3>1. pc'[g] = pc[g] /\ sent'[g] = sent[g] /\ ret'[g] = ret[g]
      BY <2>1, <2>3 DEF HandlerStep, Begin, Capture, Snapshot, Send, Deliver, Select,
                        ReturnKillCode, Serve, Return, GoTo, TypeOK, HandlerTypes
    <3>2. calls' = calls \/ \E x : x.rpc # g /\ calls' = Append(calls, x)
      <4>1. CASE Begin(h)
        <5> DEFINE x == [rpc |-> h, method |-> req[h].method, header |-> req[h].header,
                         code |-> BeginCode(req[h])]
        <5>1. x.rpc # g /\ calls' = Append(calls, x)
          BY <2>3, <4>1 DEF Begin, Record
        <5> QED BY <5>1
      <4>2. CASE ~Begin(h)
        BY <2>1, <4>2 DEF HandlerStep, Capture, Snapshot, Send, Select, ReturnKillCode, Serve, server
      <4> QED BY <4>1, <4>2
    <3> QED BY <1>0, <3>1, <3>2, RecordOfOthers
  <2> QED BY <2>2, <2>3
<1>3. CASE \/ SetX509State
           \/ \E s \in JWTStates : SetJWTState(s)
           \/ \E m \in FaultMethods, c \in FaultCodes, n \in -1..MaxCount : InjectError(m, c, n)
           \/ ClearErrors
           \/ \E c \in FaultCodes : CloseStreams(c)
           \/ Stop
           \/ \E h \in Handlers : ClientCancel(h)
           \/ UNCHANGED vars
  <2>1. UNCHANGED <<pc, sent, ret, calls>>
    BY <1>3 DEF SetX509State, SetJWTState, InjectError, ClearErrors, CloseStreams, Stop,
                ClientCancel, vars, server, handler
  <2> QED BY <1>0, <2>1, RecordOfOthers
<1> QED BY <1>1, <1>2, <1>3 DEF Next

(* Every call that begin has dealt with is on record once, with the status *)
(* the SDK saw if begin refused it, and a stream is served only to calls   *)
(* recorded as accepted, whatever the number of concurrent RPCs.           *)
THEOREM AnswersRecorded == Spec => []AnsweredCallsRecorded
<1>1. Init => RecordInv
  BY DEF Init, RecordInv, RecordOf, Unrecorded
<1>2. TypeOK /\ RecordInv => AnsweredCallsRecorded
  BY DEF RecordInv, RecordOf, RecordedAt, AnsweredCallsRecorded
<1> QED BY <1>1, <1>2, RecordStep, TypeCorrect, PTL DEF Spec
-----------------------------------------------------------------------------
(* Injected faults.  Mine: the calls an injection is for; Failed: those of *)
(* them that failed.  What is left of the injected count, and that a fault *)
(* which is left has spared no call, is what the code keeps implicitly.    *)
Mine(m) ==
  {i \in (injected[m].since + 1)..Len(calls) : calls[i].method = m /\ calls[i].header}
Failed(m) == {i \in Mine(m) : calls[i].code # "OK"}
Left(m)   == faults[m].remaining

FaultOf(m) ==
  /\ injected[m].since <= Len(calls)
  /\ Left(m) # 0 => faults[m].code # "OK" /\ Failed(m) = Mine(m)
  /\ injected[m].count < 0 => Left(m) = injected[m].count
  /\ injected[m].count >= 0 => Left(m) >= 0 /\ Cardinality(Failed(m)) = injected[m].count - Left(m)
  /\ \A i \in Mine(m), j \in Failed(m) : i < j => i \in Failed(m)

FaultInv == \A m \in Methods : FaultOf(m)

LEMMA CallsFinite ==
  ASSUME TypeOK, NEW m \in Methods
  PROVE  /\ injected[m].count \in Int /\ injected[m].since \in Nat /\ Len(calls) \in Nat
         /\ Left(m) \in Int
         /\ IsFiniteSet(Mine(m)) /\ Cardinality(Mine(m)) \in Nat
         /\ IsFiniteSet(Failed(m)) /\ Cardinality(Failed(m)) \in Nat
         /\ Cardinality(Failed(m)) <= Cardinality(Mine(m))
<1>1. injected[m].count \in Int /\ injected[m].since \in Nat /\ Len(calls) \in Nat /\ Left(m) \in Int
  BY DEF TypeOK, HistoryTypes, ServerTypes, Left
<1>2. IsFiniteSet((injected[m].since + 1)..Len(calls))
  BY <1>1, FS_Interval
<1>3. Mine(m) \subseteq (injected[m].since + 1)..Len(calls) /\ Failed(m) \subseteq Mine(m)
  BY DEF Mine, Failed
<1>4. IsFiniteSet(Mine(m))
  BY <1>2, <1>3, FS_Subset
<1>5. IsFiniteSet(Failed(m)) /\ Cardinality(Failed(m)) <= Cardinality(Mine(m))
  BY <1>3, <1>4, FS_Subset
<1> QED BY <1>1, <1>4, <1>5, FS_CardinalityType

(* What is left of an injection accounts for the calls that have failed.   *)
LEMMA FaultsCounted == TypeOK /\ FaultInv => InjectedFailures
<1> SUFFICES ASSUME TypeOK, FaultInv, NEW m \in Methods
             PROVE  LET n == injected[m].count
                    IN  /\ n < 0 => Failed(m) = Mine(m)
                        /\ n >= 0 => Cardinality(Failed(m)) =
                                       IF Cardinality(Mine(m)) < n THEN Cardinality(Mine(m)) ELSE n
                        /\ \A i \in Mine(m), j \in Failed(m) : i < j => i \in Failed(m)
  BY DEF InjectedFailures, Mine, Failed
<1>1. FaultOf(m)
  BY DEF FaultInv
<1> QED BY <1>1, CallsFinite DEF FaultOf

(* A fresh injection, or none: no call is counted yet.                     *)
LEMMA FaultsReset ==
  ASSUME TypeOK, NEW m \in Methods, calls' = calls,
         injected'[m].since = Len(calls), Left(m)' = injected'[m].count,
         Left(m)' \in Int, Left(m)' # 0 => faults'[m].code # "OK"
  PROVE  FaultOf(m)'
<1>1. Len(calls) \in Nat
  BY CallsFinite
<1>2. Mine(m)' = {} /\ Failed(m)' = {}
  BY <1>1 DEF Mine, Failed
<1>3. Cardinality(Failed(m)') = 0
  BY <1>2, FS_EmptySet
<1> QED BY <1>1, <1>2, <1>3 DEF FaultOf

LEMMA FaultsKept ==
  ASSUME NEW m \in Methods, FaultOf(m), calls' = calls,
         injected'[m] = injected[m], faults'[m] = faults[m]
  PROVE  FaultOf(m)'
<1>1. Mine(m)' = Mine(m) /\ Failed(m)' = Failed(m) /\ Left(m)' = Left(m)
  BY DEF Mine, Failed, Left
<1> QED BY <1>1 DEF FaultOf

(* begin fails the call for the fault that is left, and uses it up.        *)
LEMMA BeginCounts ==
  ASSUME TypeOK, NEW h \in Handlers, Begin(h), NEW m \in Methods, FaultOf(m)
  PROVE  FaultOf(m)'
<1> DEFINE r == req[h]
           code == BeginCode(r)
           x == [rpc |-> h, method |-> r.method, header |-> r.header, code |-> code]
<1>0. PICK n : n = Len(calls) + 1
  OBVIOUS
<1>1. /\ calls' = Append(calls, x) /\ injected' = injected /\ pc[h] = "begin"
      /\ faults' = IF r.header /\ faults[r.method].remaining > 0
                   THEN [faults EXCEPT ![r.method].remaining = @ - 1] ELSE faults
  BY DEF Begin, Record, UseFault
<1>2. r.method \in Methods /\ r.header \in BOOLEAN
  BY <1>1, RequestMethod DEF TypeOK, HandlerTypes
<1>3. /\ Len(calls) \in Nat /\ Len(calls') = n /\ calls'[n] = x
      /\ \A i \in 1..Len(calls) : calls'[i] = calls[i]
  BY <1>0, <1>1 DEF TypeOK, ServerTypes
<1>4. x.method = r.method /\ x.header = r.header /\ x.code = code
  OBVIOUS
<1>5. /\ injected[m].since \in Nat /\ injected[m].count \in Int /\ Left(m) \in Int
      /\ IsFiniteSet(Failed(m)) /\ Cardinality(Failed(m)) \in Nat
      /\ injected[m].since <= Len(calls)
  BY CallsFinite DEF FaultOf
<1> HIDE DEF x, code, r
<1>6. \A i : i \in Mine(m) <=> /\ i \in 1..Len(calls) /\ injected[m].since < i
                               /\ calls[i].method = m /\ calls[i].header
  BY <1>5 DEF Mine
<1>7. \A i : i \in Mine(m)' <=> /\ i \in 1..n /\ injected[m].since < i
                                /\ calls'[i].method = m /\ calls'[i].header
  BY <1>1, <1>3, <1>5 DEF Mine
<1>8. n \in Nat /\ \A i : i \in 1..n <=> (i \in 1..Len(calls) \/ i = n) /\ i \in Int
  BY <1>0, <1>3
<1>9. injected[m].since < n /\ n \notin 1..Len(calls) /\ \A i \in 1..Len(calls) : i < n
  BY <1>0, <1>3, <1>5
<1>10. \A i : i \in Mine(m)' <=> i \in Mine(m) \/ (i = n /\ r.method = m /\ r.header)
  BY <1>3, <1>4, <1>6, <1>7, <1>8, <1>9
<1>11. \A i : i \in Failed(m)' <=>
          i \in Failed(m) \/ (i = n /\ r.method = m /\ r.header /\ code # "OK")
  BY <1>3, <1>4, <1>6, <1>9, <1>10 DEF Failed
<1>12. n \notin Mine(m) /\ n \notin Failed(m) /\ \A i \in Mine(m) \cup Failed(m) : i < n /\ i \in Int
  BY <1>6, <1>9 DEF Failed
<1>13. injected'[m] = injected[m] /\ injected[m].since <= Len(calls')
  BY <1>0, <1>1, <1>3, <1>5
<1>14. CASE r.method = m /\ r.header
  <2>1. CASE Left(m) # 0
    <3>1. code # "OK"
      BY <1>14, <2>1 DEF BeginCode, FaultOf, Left, code
    <3>2. Failed(m)' = Failed(m) \cup {n} /\ Failed(m)' = Mine(m)'
      BY <1>10, <1>11, <1>14, <2>1, <3>1 DEF FaultOf
    <3>3. Cardinality(Failed(m)') = Cardinality(Failed(m)) + 1
      BY <1>5, <1>12, <3>2, FS_AddElement
    <3>4. faults'[m].code = faults[m].code /\ Left(m)' = IF Left(m) > 0 THEN Left(m) - 1 ELSE Left(m)
      BY <1>1, <1>14 DEF Left, TypeOK, ServerTypes
    <3> QED BY <1>5, <1>13, <2>1, <3>2, <3>3, <3>4 DEF FaultOf
  <2>2. CASE Left(m) = 0
    <3>1. code = "OK" /\ faults' = faults
      BY <1>1, <1>14, <2>2 DEF BeginCode, Left, code
    <3>2. Failed(m)' = Failed(m) /\ Left(m)' = 0
      BY <1>11, <2>2, <3>1 DEF Left
    <3>3. \A i \in Mine(m)', j \in Failed(m)' : i < j => i \in Failed(m)'
      BY <1>8, <1>10, <1>12, <3>2 DEF FaultOf
    <3> QED BY <1>5, <1>13, <2>2, <3>2, <3>3 DEF FaultOf
  <2> QED BY <2>1, <2>2
<1>15. CASE ~(r.method = m /\ r.header)
  <2>1. Mine(m)' = Mine(m) /\ Failed(m)' = Failed(m)
    BY <1>10, <1>11, <1>15
  <2>2. faults'[m] = faults[m] /\ Left(m)' = Left(m)
    BY <1>1, <1>2, <1>15 DEF TypeOK, ServerTypes, Left
  <2> QED BY <1>13, <2>1, <2>2 DEF FaultOf
<1> QED BY <1>14, <1>15

LEMMA FaultStep == TypeOK /\ FaultInv /\ [Next]_vars => FaultInv'
<1> SUFFICES ASSUME TypeOK, FaultInv, [Next]_vars, NEW m \in Methods
             PROVE  FaultOf(m)'
  BY DEF FaultInv
<1>0. FaultOf(m)
  BY DEF FaultInv
<1>1. CASE \E q \in FaultMethods, c \in FaultCodes, k \in -1..MaxCount : InjectError(q, c, k)
  <2>1. PICK q \in FaultMethods, c \in FaultCodes, k \in -1..MaxCount : InjectError(q, c, k)
    BY <1>1
  <2>2. c # "OK" /\ k \in Int /\ q \in Methods
    BY <2>1, ServerAssumption DEF ServerAssumption
  <2>3. CASE m = q
    <3>1. /\ calls' = calls /\ injected'[m].since = Len(calls) /\ injected'[m].count = k
          /\ Left(m)' = k /\ faults'[m].code = c
      BY <2>1, <2>2, <2>3 DEF InjectError, Left, TypeOK, ServerTypes, HistoryTypes
    <3> QED BY <2>2, <3>1, FaultsReset
  <2>4. CASE m # q
    <3>1. calls' = calls /\ injected'[m] = injected[m] /\ faults'[m] = faults[m]
      BY <2>1, <2>4 DEF InjectError, TypeOK, ServerTypes, HistoryTypes
    <3> QED BY <1>0, <3>1, FaultsKept
  <2> QED BY <2>3, <2>4
<1>2. CASE ClearErrors
  <2>1. /\ calls' = calls /\ injected'[m].since = Len(calls) /\ injected'[m].count = 0
        /\ Left(m)' = 0
    BY <1>2 DEF ClearErrors, NoFault, Left
  <2> QED BY <2>1, FaultsReset
<1>3. CASE \E h \in Handlers : Begin(h)
  BY <1>0, <1>3, BeginCounts
<1>4. CASE \/ SetX509State
           \/ \E s \in JWTStates : SetJWTState(s)
           \/ \E c \in FaultCodes : CloseStreams(c)
           \/ Stop
           \/ \E h \in Handlers, r \in Requests : Call(h, r)
           \/ \E h \in Handlers : ClientCancel(h)
           \/ \E h \in Handlers : HandlerStep(h) /\ ~Begin(h)
           \/ UNCHANGED vars
  <2>1. UNCHANGED <<calls, injected, faults>>
    BY <1>4 DEF SetX509State, SetJWTState, CloseStreams, Stop, Call, ClientCancel, HandlerStep,
                Capture, Snapshot, Send, Select, ReturnKillCode, Serve, vars, server, handler, history
  <2> QED BY <1>0, <2>1, FaultsKept
<1> QED BY <1>1, <1>2, <1>3, <1>4 DEF Next

(* InjectError(m, code, n) makes exactly the next n calls to m that carry  *)
(* the header fail, all of them if n < 0 and none after ClearErrors, for   *)
(* any number of injections and of concurrent calls.                       *)
THEOREM InjectionsExact == Spec => []InjectedFailures
<1>1. Init => FaultInv
  <2> SUFFICES ASSUME Init, NEW m \in Methods PROVE FaultOf(m)
    BY DEF FaultInv
  <2>1. Mine(m) = {} /\ Failed(m) = {} /\ Left(m) = 0 /\ injected[m].count = 0
    BY DEF Init, Mine, Failed, Left, NoFault
  <2>2. Cardinality(Failed(m)) = 0
    BY <2>1, FS_EmptySet
  <2>3. injected[m].since = 0 /\ Len(calls) = 0
    BY DEF Init
  <2> QED BY <2>1, <2>2, <2>3 DEF FaultOf
<1> QED BY <1>1, FaultsCounted, FaultStep, TypeCorrect, PTL DEF Spec
-----------------------------------------------------------------------------
(* The refinement of StateFeed, feed by feed.                              *)

SameOpen(f) == OpenOn(f)' = OpenOn(f)
SameLast(f) == LastOn(f)' = LastOn(f)

(* StateFeed!Next and its stuttering, on the variables of the mapping.     *)
FeedStep(f) ==
  \/ /\ state'[f] = state[f] + 1
     /\ SameOpen(f) /\ SameLast(f)
  \/ /\ state'[f] = state[f]
     /\ \/ SameOpen(f) /\ SameLast(f)
        \/ \E h \in Handlers :
             \/ /\ h \notin OpenOn(f) /\ LastOn(f)[h] = 0
                /\ OpenOn(f)' = OpenOn(f) \cup {h} /\ SameLast(f)
             \/ /\ h \in OpenOn(f)
                /\ OpenOn(f)' = OpenOn(f) \ {h} /\ SameLast(f)
             \/ /\ h \in OpenOn(f) /\ SameOpen(f)
                /\ \E v \in LastOn(f)[h]..state[f] :
                     LastOn(f)' = [LastOn(f) EXCEPT ![h] = v]

(* What a step leaves alone.                                               *)
LEMMA SameStreams ==
  ASSUME NEW f \in Feeds, UNCHANGED req PROVE Streams(f)' = Streams(f)
  BY DEF Streams, Feed

(* A handler that sends nothing has the same last state sent.              *)
LEMMA SameSent ==
  ASSUME NEW f \in Feeds, UNCHANGED <<req, sent>> PROVE SameLast(f)
  BY SameStreams DEF SameLast, LastOn, LastSent

(* A step that moves no handler into or out of the loop leaves the         *)
(* subscriptions as they are.                                              *)
LEMMA SameLoops ==
  ASSUME NEW f \in Feeds, UNCHANGED req, \A h \in Handlers : InLoop(h)' = InLoop(h)
  PROVE  SameOpen(f)
<1>1. Streams(f)' = Streams(f)
  BY SameStreams
<1>2. Streams(f) \subseteq Handlers
  BY DEF Streams
<1> QED BY <1>1, <1>2 DEF SameOpen, OpenOn

(* What the test case and the SDK do is, for a feed, a publication or      *)
(* nothing.                                                                *)
LEMMA TestStepFeed ==
  ASSUME StreamInv, NEW f \in Feeds,
         \/ SetX509State
         \/ \E s \in JWTStates : SetJWTState(s)
         \/ \E m \in FaultMethods, c \in FaultCodes, n \in -1..MaxCount : InjectError(m, c, n)
         \/ ClearErrors
         \/ \E c \in FaultCodes : CloseStreams(c)
         \/ Stop
         \/ \E h \in Handlers, r \in Requests : Call(h, r)
         \/ \E h \in Handlers : ClientCancel(h)
  PROVE  FeedStep(f)
<1>1. ASSUME UNCHANGED <<req, sent, pc>>
      PROVE  SameOpen(f) /\ SameLast(f)
  BY <1>1, SameSent, SameLoops DEF InLoop
<1>2. state \in [Feeds -> Nat]
  BY DEF StreamInv, TypeOK, ServerTypes
<1>3. CASE SetX509State \/ \E s \in JWTStates : SetJWTState(s)
  <2>1. state'[f] = state[f] + 1 \/ state'[f] = state[f]
    BY <1>2, <1>3 DEF SetX509State, SetJWTState, StoreState
  <2>2. UNCHANGED <<req, sent, pc>>
    BY <1>3 DEF SetX509State, SetJWTState, handler
  <2> QED BY <1>1, <2>1, <2>2 DEF FeedStep
<1>4. CASE \/ \E m \in FaultMethods, c \in FaultCodes, n \in -1..MaxCount : InjectError(m, c, n)
           \/ ClearErrors
           \/ \E c \in FaultCodes : CloseStreams(c)
           \/ Stop
           \/ \E h \in Handlers : ClientCancel(h)
  <2>1. UNCHANGED <<state, req, sent, pc>>
    BY <1>4 DEF InjectError, ClearErrors, CloseStreams, Stop, ClientCancel, handler, server
  <2> QED BY <1>1, <2>1 DEF FeedStep
<1>5. CASE \E h \in Handlers, r \in Requests : Call(h, r)
  <2>0. PICK h \in Handlers, r \in Requests : Call(h, r)
    BY <1>5
  <2>1. pc[h] = "idle" /\ sent[h] = <<>> /\ sent' = sent /\ state' = state
    BY <2>0 DEF Call, StreamInv, HandlerInv, Fresh, server
  <2>2. \A g \in Handlers : g # h => req'[g] = req[g]
    BY <2>0 DEF Call, StreamInv, TypeOK, HandlerTypes
  <2>3. \A g \in Handlers : InLoop(g)' = InLoop(g)
    BY <2>0, <2>1 DEF Call, InLoop, StreamInv, TypeOK, HandlerTypes
  <2>4. \A g \in Handlers : g # h => (g \in Streams(f)' <=> g \in Streams(f))
    BY <2>2 DEF Streams, Feed
  <2>5. SameLast(f)
    BY <2>1, <2>4 DEF SameLast, LastOn, LastSent
  <2>6. SameOpen(f)
    <3>1. ~InLoop(h)
      BY <2>1 DEF InLoop
    <3>2. OpenOn(f) \subseteq Handlers /\ OpenOn(f)' \subseteq Handlers
      BY DEF OpenOn, Streams
    <3>3. \A g \in Handlers : g \in OpenOn(f)' <=> g \in OpenOn(f)
      BY <2>3, <2>4, <3>1 DEF OpenOn
    <3> QED BY <3>2, <3>3 DEF SameOpen
  <2> QED BY <2>1, <2>5, <2>6 DEF FeedStep
<1> QED BY <1>3, <1>4, <1>5

(* A handler that enters or leaves its loop opens or closes a subscription *)
(* of its feed, and changes nothing for the other feed.                    *)
LEMMA LoopStep ==
  ASSUME NEW f \in Feeds, NEW h \in Handlers, UNCHANGED <<state, req, sent>>,
         \A g \in Handlers : g # h => InLoop(g)' = InLoop(g),
         ~InLoop(h) => LastOn(f)[h] = 0
  PROVE  FeedStep(f)
<1>1. SameLast(f) /\ Streams(f)' = Streams(f) /\ state'[f] = state[f]
  BY SameSent, SameStreams
<1>2. OpenOn(f) \subseteq Handlers /\ OpenOn(f)' \subseteq Handlers
  BY DEF OpenOn, Streams
<1>3. \A g \in Handlers : g # h => (g \in OpenOn(f)' <=> g \in OpenOn(f))
  BY <1>1 DEF OpenOn
<1>4. CASE h \in OpenOn(f) <=> h \in OpenOn(f)'
  <2>1. SameOpen(f)
    BY <1>2, <1>3, <1>4 DEF SameOpen
  <2> QED BY <1>1, <2>1 DEF FeedStep
<1>5. CASE h \in OpenOn(f) /\ h \notin OpenOn(f)'
  <2>1. OpenOn(f)' = OpenOn(f) \ {h}
    BY <1>2, <1>3, <1>5
  <2> QED BY <1>1, <1>5, <2>1 DEF FeedStep
<1>6. CASE h \notin OpenOn(f) /\ h \in OpenOn(f)'
  <2>1. OpenOn(f)' = OpenOn(f) \cup {h}
    BY <1>2, <1>3, <1>6
  <2>2. ~InLoop(h)
    BY <1>1, <1>6 DEF OpenOn
  <2> QED BY <1>1, <1>6, <2>1, <2>2 DEF FeedStep
<1> QED BY <1>4, <1>5, <1>6

(* A step of a handler is a step of either feed, or changes nothing in it. *)
LEMMA HandlerStepFeed ==
  ASSUME StreamInv, NEW f \in Feeds, NEW h \in Handlers, HandlerStep(h)
  PROVE  FeedStep(f)
<1>0. UNCHANGED <<state, req>>
  BY DEF HandlerStep, Begin, Capture, Snapshot, Send, Select, ReturnKillCode, Serve, server
<1>1. \A g \in Handlers : g # h => pc'[g] = pc[g]
  BY DEF HandlerStep, Begin, Capture, Snapshot, Send, Select, ReturnKillCode, Serve,
         Return, GoTo, StreamInv, TypeOK, HandlerTypes
<1>2. \A g \in Handlers : g # h => InLoop(g)' = InLoop(g)
  BY <1>1 DEF InLoop
<1>3. pc[h] \in Labels /\ snap[h] \in Nat /\ sent[h] \in Seq(Nat) /\ LastSent(h) \in Nat
      /\ HandlerInv(h) /\ state[f] \in Nat /\ sent \in [Handlers -> Seq(Nat)]
  BY LastSentType DEF StreamInv, TypeOK, HandlerTypes, ServerTypes
<1>4. CASE Begin(h) \/ Serve(h)
  <2>1. UNCHANGED sent /\ pc[h] \in {"begin", "serve"}
    BY <1>4 DEF Begin, Serve
  <2>2. LastOn(f)[h] = 0
    BY <1>3, <2>1 DEF HandlerInv, Fresh, LastOn, LastSent
  <2> QED BY <1>0, <1>2, <2>1, <2>2, LoopStep
<1>5. CASE Capture(h) \/ Snapshot(h) \/ Select(h) \/ ReturnKillCode(h)
  <2>1. UNCHANGED sent /\ InLoop(h)
    BY <1>5 DEF Capture, Snapshot, Select, ReturnKillCode, InLoop
  <2> QED BY <1>0, <1>2, <2>1, LoopStep
<1>6. CASE Send(h)
  <2>1. InLoop(h)
    BY <1>6 DEF Send, InLoop
  <2>2. CASE UNCHANGED sent
    BY <1>0, <1>2, <2>1, <2>2, LoopStep
  <2>3. CASE Deliver(h) /\ GoTo(h, "select")
    <3>1. sent'[h] = Append(sent[h], snap[h]) /\ \A g \in Handlers : g # h => sent'[g] = sent[g]
      BY <1>3, <2>3 DEF Deliver
    <3>2. InLoop(h)'
      BY <1>3, <2>3 DEF GoTo, InLoop, StreamInv, TypeOK, HandlerTypes
    <3>3. SameOpen(f) /\ Streams(f)' = Streams(f)
      <4>1. \A g \in Handlers : InLoop(g)' = InLoop(g)
        BY <1>2, <2>1, <3>2 DEF InLoop
      <4> QED BY <1>0, <4>1, SameLoops, SameStreams
    <3>4. LastSent(h)' = snap[h] /\ \A g \in Handlers : g # h => LastSent(g)' = LastSent(g)
      BY <1>3, <3>1 DEF LastSent
    <3>5. CASE h \notin Streams(f)
      <4>1. SameLast(f)
        BY <3>3, <3>4, <3>5 DEF SameLast, LastOn
      <4> QED BY <1>0, <3>3, <4>1 DEF FeedStep
    <3>6. CASE h \in Streams(f)
      <4>1. h \in OpenOn(f) /\ Feed(h) = f
        BY <2>1, <3>6 DEF OpenOn, Streams
      <4>2. LastOn(f)[h] = LastSent(h)
        BY <3>6 DEF LastOn
      <4>3. pc[h] = "send"
        BY <1>6 DEF Send
      <4>4. snap[h] \in LastOn(f)[h]..state[f]
        BY <1>3, <4>1, <4>2, <4>3 DEF HandlerInv, Behind
      <4>5. LastOn(f)' = [LastOn(f) EXCEPT ![h] = snap[h]]
        BY <3>3, <3>4, <3>6 DEF LastOn
      <4> QED BY <1>0, <3>3, <4>1, <4>4, <4>5 DEF FeedStep
    <3> QED BY <3>5, <3>6
  <2> QED BY <1>6, <2>2, <2>3 DEF Send
<1> QED BY <1>4, <1>5, <1>6 DEF HandlerStep

(* Every step of the server is a step of either feed, or changes nothing   *)
(* in it.                                                                  *)
LEMMA StepFeed ==
  ASSUME StreamInv, [Next]_vars, NEW f \in Feeds PROVE FeedStep(f)
<1>1. CASE Next
  BY <1>1, TestStepFeed, HandlerStepFeed DEF Next
<1>2. CASE UNCHANGED vars
  <2>1. UNCHANGED <<state, req, sent, pc>>
    BY <1>2 DEF vars, server, handler
  <2>2. SameOpen(f) /\ SameLast(f)
    BY <2>1, SameSent, SameLoops DEF InLoop
  <2> QED BY <2>1, <2>2 DEF FeedStep
<1> QED BY <1>1, <1>2

(* The streaming RPCs implement StateFeed, one instance for each feed.     *)
THEOREM Refinement == Spec => FeedsImplemented
<1>1. Init => X509Feed!Init /\ JWTFeed!Init
  BY DEF Init, X509Feed!Init, JWTFeed!Init, OpenOn, LastOn, Streams, InLoop, LastSent, Feeds
<1>2. StreamInv /\ [Next]_vars => [X509Feed!Next]_X509Feed!vars
  <2> SUFFICES ASSUME FeedStep("x509") PROVE [X509Feed!Next]_X509Feed!vars
    BY StepFeed DEF Feeds
  <2> QED BY DEF FeedStep, SameOpen, SameLast, X509Feed!Next, X509Feed!vars,
       X509Feed!Publish, X509Feed!Subscribe, X509Feed!Unsubscribe, X509Feed!Deliver
<1>3. StreamInv /\ [Next]_vars => [JWTFeed!Next]_JWTFeed!vars
  <2> SUFFICES ASSUME FeedStep("jwt") PROVE [JWTFeed!Next]_JWTFeed!vars
    BY StepFeed DEF Feeds
  <2> QED BY DEF FeedStep, SameOpen, SameLast, JWTFeed!Next, JWTFeed!vars,
       JWTFeed!Publish, JWTFeed!Subscribe, JWTFeed!Unsubscribe, JWTFeed!Deliver
<1> QED BY <1>1, <1>2, <1>3, StreamInvariant, PTL
     DEF Spec, FeedsImplemented, X509Feed!Spec, JWTFeed!Spec
=============================================================================
