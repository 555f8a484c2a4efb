--------------------------- MODULE MCControlTests ---------------------------
(* Instances of ControlTests for TLC.                                      *)
EXTENDS ControlTests

(* J2 stands for the tests of one invalid token.                           *)
MCTests == {"J1", "J2", "J9", "J13", "JF-1", "XV-1/client"}

Ports     == {"contract", "always200", "noJson", "noRoute", "unsupported", "flaky"}
Judges    == {"right", "acceptsAll", "rejectsAll", "wrongId"}
Bundles   == {"follows", "merges", "ignores", "delegates"}
Firsts    == {"waits", "rejects"}
Fetches   == {"asks", "asksAnother", "cached", "chatty"}
Clients   == {"default", "other", "none", "stalls"}

Kinds(judges, bundle, first, fetch, tls, client) ==
  [version : {0, 1}, port : Ports, judges : judges, bundle : bundle, first : first,
   fetch : fetch, tls : tls, client : client]

(* Every kind of validator, of fetcher and of TLS client.                  *)
AllKinds ==
  Kinds(Judges, Bundles, Firsts, {"asks"}, {"1.3"}, {"default"})
    \cup Kinds({"right"}, {"follows"}, {"waits"}, Fetches, {"1.3"}, {"default"})
    \cup Kinds(Judges, {"follows"}, {"waits"}, {"asks"}, {"1.2", "1.3"}, Clients)
=============================================================================
