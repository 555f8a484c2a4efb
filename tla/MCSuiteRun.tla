----------------------------- MODULE MCSuiteRun -----------------------------
(* Instances of SuiteRun for TLC.                                          *)
EXTENDS SuiteRun

(* Three test cases; all of them, one, two out of order, or an unknown one *)
(* are asked for.                                                          *)
MCRegistry == <<"X1", "X2", "J1">>
MCRequests == {{}, {"X2"}, {"J1", "X1"}, {"X1", "Y1"}}

(* Selected is what the loop of selectCases collects.                      *)
ASSUME SelectedIsCollected ==
  \A q \in Requests :
    Selected(q) = IF q = {} THEN Registry
                  ELSE SelectSeq(Registry, LAMBDA name : name \in q)
=============================================================================
