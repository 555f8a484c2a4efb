-------------------------- MODULE MCHarnessProcess --------------------------
(* A harness of two processes that announces itself as v0 and goes on      *)
(* writing, more than the pipe holds, or forgets a port, or prints a line  *)
(* of 64 KiB.                                                              *)
EXTENDS HarnessProcess

CONSTANTS p1, p2

Line(k, v) == [key |-> k, value |-> v, ok |-> TRUE]
MCGood == <<Line("X509Port", 2), Line("JWTPort", 3), Line("READY", 0), Line("log", 0), Line("log", 0)>>
MCBad  == <<Line("X509Port", 2), Line("READY", 0)>>
MCLong == <<Line("TooLong", 0), Line("X509Port", 2), Line("JWTPort", 3), Line("READY", 0)>>
MCScripts == {MCGood, MCBad, MCLong}
=============================================================================
