--------------------------- MODULE MCMeteredCalls ---------------------------
(* Small instances of MeteredCalls for TLC.                                *)
EXTENDS MeteredCalls

\* The build stage is capped, the intake has no cap of its own, and a cap of
\* nothing refuses every QA call.
BuildCap == [s \in {"build", "qa"} |-> IF s = "build" THEN 3 ELSE 0]
=============================================================================
