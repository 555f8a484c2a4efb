----------------------------- MODULE MCX509Tests -----------------------------
(* Instances of X509Tests for TLC.                                         *)
EXTENDS X509Tests

(* One test of each kind: X3 stands for the invalid SVIDs the prober       *)
(* refuses itself, X4 for those whose state names no trust domain, X6 for  *)
(* the others, X10 for the invalid clients.                                *)
MCTests == {"X1", "X2", "X3", "X4", "X6", "X10"}

Kinds(versions, tls, rotates, onBad, peers, bundles) ==
  [version : versions, tls : tls, rotates : rotates, onBad : onBad, peers : peers, bundles : bundles]

Policies == {"keep", "adopt", "stop"}
Sources  == {"svidStream", "ownStream"}
Peers    == {"check", "acceptAll", "rejectAll", "cannot"}

AllKinds  == Kinds({0, 1}, {"1.2", "1.3"}, BOOLEAN, Policies, Peers, Sources)
Careless  == Kinds({1}, {"1.3"}, {TRUE}, {"adopt"}, {"acceptAll"}, {"svidStream"})
Careful   == Kinds({0, 1}, {"1.2", "1.3"}, {TRUE}, {"keep"}, {"check"}, {"ownStream"})
=============================================================================
