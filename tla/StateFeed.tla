----------------------------- MODULE StateFeed -----------------------------
(***************************************************************************)
(* What a subscriber of the mock Workload API is promised, independently   *)
(* of mutexes and channels: a test publishes successive states, and every  *)
(* open subscription is handed states in publication order, possibly       *)
(* skipping some and possibly repeating one, but never going back, never   *)
(* ahead of what was published, and never stuck on an old one.             *)
(* Implemented by the streaming RPCs of internal/workloadapi/server.go;    *)
(* WorkloadServer.tla gives the refinement mapping.                        *)
(***************************************************************************)
EXTENDS Naturals

CONSTANTS Subs,        \* the subscriptions, one per streaming RPC
          MaxVersion   \* bound on publications, for TLC

VARIABLES current,     \* number of the state last published, 0 if none yet
          open,        \* the subscriptions that are being served
          delivered    \* number of the state last handed to each subscriber

vars == <<current, open, delivered>>

TypeOK ==
  /\ current \in Nat
  /\ open \subseteq Subs
  /\ delivered \in [Subs -> Nat]

Init ==
  /\ current = 0
  /\ open = {}
  /\ delivered = [s \in Subs |-> 0]

Publish ==
  /\ current' = current + 1
  /\ UNCHANGED <<open, delivered>>

Subscribe(s) ==
  /\ s \notin open
  /\ delivered[s] = 0
  /\ open' = open \cup {s}
  /\ UNCHANGED <<current, delivered>>

Unsubscribe(s) ==
  /\ s \in open
  /\ open' = open \ {s}
  /\ UNCHANGED <<current, delivered>>

(* The state handed over may be out of date by the time it is sent.        *)
Deliver(s) ==
  /\ s \in open
  /\ \E v \in delivered[s]..current : delivered' = [delivered EXCEPT ![s] = v]
  /\ UNCHANGED <<current, open>>

Next ==
  \/ Publish
  \/ \E s \in Subs : Subscribe(s) \/ Unsubscribe(s) \/ Deliver(s)

Spec == Init /\ [][Next]_vars

(* Whatever has been published is eventually handed, in this version or a  *)
(* later one, to every subscription that stays open.                       *)
EventuallyCurrent ==
  \A s \in Subs, v \in 1..MaxVersion :
    (s \in open /\ current >= v) ~> (s \notin open \/ delivered[s] >= v)
=============================================================================
