------------------------------ MODULE Pipeline ------------------------------
(***************************************************************************)
(* The fixed stage pipeline of a Builder Session (workflow/stages.py), the *)
(* restart rule of a change to a completed Workspace                       *)
(* (workflow/transitions.py) and the normalisation of the impacts a host   *)
(* submits with such a change (FollowUpPlan.create in service/follow_up).  *)
(* Pure operators: no state.                                               *)
(***************************************************************************)
EXTENDS Naturals, FiniteSets

\* Stage identifiers, in the order of PIPELINE.
Pos == [problem            |-> 1,
        evidence           |-> 2,
        schema_build       |-> 3,
        schema_judge       |-> 4,
        extract            |-> 5,
        structured_extract |-> 6,
        document           |-> 7,
        finalize           |-> 8,
        ready              |-> 9]

Stage == DOMAIN Pos

\* The stages a Subagent runs (the keys of AGENT_FOR_STAGE).
AgentStage == Stage \ {"finalize", "ready"}

\* PIPELINE.index(s) < PIPELINE.index(t)
Precedes(s, t) == Pos[s] < Pos[t]

\* follows(current, candidate)
Follows(current, candidate) == Pos[candidate] = Pos[current] + 1

\* The stage a successful result of stage s hands over to.
NextStage(s) == CHOOSE t \in Stage : Follows(s, t)

-----------------------------------------------------------------------------
(* Changes to a completed Workspace *)

ChangeImpact == {"answer_only", "instances", "schema", "evidence", "problem"}

\* RESTART_STAGE without its entry for answer_only, which restarts nothing.
RestartStage == [instances |-> "extract",
                 schema    |-> "schema_build",
                 evidence  |-> "evidence",
                 problem   |-> "problem"]

RestartPoint == {RestartStage[i] : i \in DOMAIN RestartStage}

\* Uploaded files are new evidence (CommandService.follow_up).
Submitted(impacts, uploads) ==
    IF uploads THEN impacts \cup {"evidence", "instances"} ELSE impacts

\* Step indexes survive only while the research scope is unchanged.
PlanSteps(impacts, steps) == IF "problem" \in impacts THEN {} ELSE steps

\* Mutant: step indexes imply nothing.
ImpactsIgnoringSteps(impacts, steps) ==
    LET scoped  == IF "problem" \in impacts
                   THEN impacts \cup {"evidence", "instances"} ELSE impacts
        layered == IF {"evidence", "schema"} \cap scoped # {}
                   THEN scoped \cup {"instances"} ELSE scoped
    IN  IF Cardinality(layered) > 1 THEN layered \ {"answer_only"} ELSE layered

\* The impacts a submission implies. Each rule of FollowUpPlan.create adds to
\* the set the rule before it left, and answer_only yields to any change.
PlanImpacts(impacts, steps) ==
    LET scoped   == IF "problem" \in impacts
                    THEN impacts \cup {"evidence", "instances"} ELSE impacts
        stepped  == IF PlanSteps(impacts, steps) # {}
                    THEN scoped \cup {"evidence", "instances"} ELSE scoped
        layered  == IF {"evidence", "schema"} \cap stepped # {}
                    THEN stepped \cup {"instances"} ELSE stepped
    IN  IF Cardinality(layered) > 1 THEN layered \ {"answer_only"} ELSE layered

\* The steps to collect evidence for, out of all confirmed ones: those named,
\* or every step when evidence as such has changed within the same scope.
ResolvedSteps(impacts, steps, all) ==
    IF PlanSteps(impacts, steps) # {} THEN PlanSteps(impacts, steps)
    ELSE IF "evidence" \in PlanImpacts(impacts, steps) /\ "problem" \notin impacts THEN all
    ELSE {}

\* A submission that names no affected layer is refused.
PlanAccepted(impacts, steps) == PlanImpacts(impacts, steps) # {}

\* Where the plan restarts the build: the earliest stage among its impacts.
PlanRestarts(impacts, steps) ==
    LET stages == {RestartStage[i] : i \in PlanImpacts(impacts, steps) \ {"answer_only"}}
    IN  {s \in stages : \A t \in stages : Pos[s] <= Pos[t]}
=============================================================================
