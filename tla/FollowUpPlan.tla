---------------------------- MODULE FollowUpPlan ----------------------------
(***************************************************************************)
(* A host submits a change to a completed Workspace as a set of impacts,   *)
(* one-based indexes of the research steps to collect evidence for again,  *)
(* and perhaps uploads. Every submission is a state; a host that answers   *)
(* with the normalised plan it was given submits that plan in turn.        *)
(***************************************************************************)
EXTENDS Pipeline

CONSTANT MaxStep      \* bound: research steps of the confirmed problem

ASSUME MaxStepAssumption == MaxStep \in Nat \ {0}

VARIABLES impacts,    \* layers the host says have changed
          steps,      \* evidence_step_indexes
          uploads     \* whether files come with the request

planVars == <<impacts, steps, uploads>>

ResearchStep == 1..MaxStep

PlanInit ==
    /\ impacts \in SUBSET ChangeImpact
    /\ steps \in SUBSET ResearchStep
    /\ uploads \in BOOLEAN
    /\ PlanAccepted(Submitted(impacts, uploads), steps)

\* The plan of the current submission.
Normalised == PlanImpacts(Submitted(impacts, uploads), steps)
Restart    == PlanRestarts(Submitted(impacts, uploads), steps)
Resolved   == ResolvedSteps(Submitted(impacts, uploads), steps, ResearchStep)

\* The host sends back the impacts and the steps that the accepted plan reports.
Resubmit ==
    /\ impacts' = Normalised
    /\ steps' = Resolved
    /\ uploads' = FALSE

PlanSpec == PlanInit /\ [][Resubmit]_planVars

-----------------------------------------------------------------------------
(* Properties *)

\* What has changed, told apart by what the host names or sends along.
Changed == (impacts \ {"answer_only"}) \cup (IF uploads \/ steps # {} THEN {"evidence"} ELSE {})

\* The build restarts (one place only) exactly when something has changed: a
\* request that only asks a question never discards accepted results, and no
\* change is lost because answer_only was named with it. No layer that has
\* changed, nor the extraction that depends on it, keeps a result accepted before.
\* The plan is closed: sent back, it yields the same plan and the same place.
RestartsForChanges ==
    /\ Changed = {} <=> Restart = {}
    /\ Cardinality(Restart) <= 1
    /\ \A r \in Restart :
         /\ \A i \in Changed : Pos[r] <= Pos[RestartStage[i]]
         /\ "instances" \in Normalised
    /\ PlanImpacts(Normalised, Resolved) = Normalised
    /\ PlanRestarts(Normalised, Resolved) = Restart
=============================================================================
