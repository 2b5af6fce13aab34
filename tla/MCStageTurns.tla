---------------------------- MODULE MCStageTurns ----------------------------
(* Model checking of StageTurns: the bound on the tool calls of each stage. *)
EXTENDS StageTurns

\* Enough to open the search circuit and try again, and for structured
\* extraction to write, run and save, and to do part of it again in a repair.
CallBound == [s \in Stage |-> IF s = "evidence" THEN 3 ELSE 5]
=============================================================================
