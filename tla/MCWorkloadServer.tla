-------------------------- MODULE MCWorkloadServer --------------------------
(***************************************************************************)
(* Instances of WorkloadServer for TLC.                                    *)
(***************************************************************************)
EXTENDS WorkloadServer, TLC

CONSTANTS h1, h2, h3,   \* handlers
          Unavailable   \* the status code a test uses

MCCodes == {Unavailable}

Ask(method, header, args, want) ==
  [method |-> method, header |-> header, args |-> args, want |-> want]
Plain(method) == Ask(method, TRUE, TRUE, AnyID)

MCStreamRequests == {Plain("FetchX509SVID"), Plain("FetchJWTBundles")}

(* Every answer of the unary RPCs: no header, no arguments, an identity or *)
(* a signing key that the state has and one that it has not.               *)
MCUnaryRequests ==
  { Ask("FetchJWTSVID", FALSE, TRUE, AnyID),
    Ask("FetchJWTSVID", TRUE, FALSE, AnyID),
    Ask("FetchJWTSVID", TRUE, TRUE, "alice"),
    Ask("ValidateJWTSVID", TRUE, FALSE, "k1"),
    Ask("ValidateJWTSVID", TRUE, TRUE, "k1") }

MCJWTStates == { [ids |-> {"alice"}, keys |-> {"k1"}, parses |-> TRUE],
                 [ids |-> {"bob"}, keys |-> {"k1"}, parses |-> FALSE] }
MCOneJWTState == { [ids |-> {"alice"}, keys |-> {"k1"}, parses |-> TRUE] }

MCAllRequests == MCStreamRequests \cup MCUnaryRequests

Sets(x, j) == [f \in Feeds |-> IF f = "x509" THEN x ELSE j]
MCTwoOne == Sets(2, 1)
MCOneOne == Sets(1, 1)

(* The server keeps streams and unary calls apart but for their record, so *)
(* runs of two streams and runs of three unary calls are explored, but not *)
(* their mixtures.  Two state changes in all, of one feed or one of each,  *)
(* are enough for one to overtake the other.  No unary handler looks at    *)
(* its context.                                                            *)
TwoStreams ==
  /\ injects = 0 /\ jwt.parses
  /\ state["x509"] + state["jwt"] <= 2
  /\ \A h \in Handlers : req[h].method \notin Unary
  /\ Cardinality({h \in Handlers : pc[h] # "idle"}) <= 2
UnaryCalls ==
  /\ state["x509"] = 0 /\ kill = 0
  /\ \A h \in Handlers : req[h].method \notin Streaming /\ ~cancelled[h]
StreamsOrCalls == TwoStreams \/ UnaryCalls

MCSymmetry == Permutations(Handlers)
=============================================================================
