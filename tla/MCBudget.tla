------------------------------ MODULE MCBudget ------------------------------
(* Budget on a pilot that is started twice and a regression test, in units  *)
(* of 15 seconds: the reserves and the pilot's least time are the code's.    *)
EXTENDS Budget

CONSTANTS pilot, retry, test

MCProc == {pilot, retry, test}
MCPhase == {"functional", "regression"}
MCNameOf == [p \in MCProc |-> IF p = test THEN "regression" ELSE "functional"]
=============================================================================
