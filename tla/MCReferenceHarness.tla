------------------------- MODULE MCReferenceHarness -------------------------
(* Instances of ReferenceHarness for TLC.                                  *)
EXTENDS ReferenceHarness

CONSTANTS r1, r2   \* requests
=============================================================================
