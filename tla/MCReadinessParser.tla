-------------------------- MODULE MCReadinessParser --------------------------
(* Outputs of at most four lines, and of up to six that begin like those   *)
(* of a v1 harness: every field can be announced, twice, and READY can     *)
(* come before, between or after the announcements.                        *)
EXTENDS ReadinessParser, TLC

Line(k, v) == [key |-> k, value |-> v, ok |-> TRUE]
Bare(k) == Line(k, 0)
MCLines ==
  { Line("Version", 1), Line("Version", 7), Line("X509Port", 2), Line("X509Port", 0),
    [key |-> "X509Port", value |-> 0, ok |-> FALSE], Line("JWTPort", 3), Line("ControlPort", 4),
    Bare("READY"), Bare("log"), Bare("TooLong") }
MCV1Start == <<Line("Version", 1), Line("X509Port", 2), Line("ControlPort", 4)>>
MCOutputs ==
  UNION {[1..n -> MCLines] : n \in 0..4} \cup
  {MCV1Start \o t : t \in UNION {[1..n -> MCLines] : n \in 2..3}}
=============================================================================
