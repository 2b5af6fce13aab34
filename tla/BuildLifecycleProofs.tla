------------------------ MODULE BuildLifecycleProofs ------------------------
(***************************************************************************)
(* Proofs about BuildLifecycle, for every number of processes and every    *)
(* value of the limits and bounds.                                         *)
(***************************************************************************)
EXTENDS BuildLifecycle, TLAPS

USE LimitsAssumption, BoundsAssumption

\* The pipeline, element by element.
LEMMA StageFacts ==
    /\ Stage = {"problem", "evidence", "schema_build", "schema_judge", "extract",
                "structured_extract", "document", "finalize", "ready"}
    /\ Pos["problem"] = 1 /\ Pos["evidence"] = 2 /\ Pos["schema_build"] = 3
    /\ Pos["schema_judge"] = 4 /\ Pos["extract"] = 5 /\ Pos["structured_extract"] = 6
    /\ Pos["document"] = 7 /\ Pos["finalize"] = 8 /\ Pos["ready"] = 9
BY DEF Stage, Pos

\* Positions are numbers and tell the stages apart.
LEMMA Positions ==
    /\ \A s \in Stage : Pos[s] \in Nat
    /\ \A s, t \in Stage : Pos[s] = Pos[t] => s = t
BY StageFacts

\* The stages a Subagent runs are stages, seven of them.
LEMMA AgentStageFacts ==
    AgentStage = {"problem", "evidence", "schema_build", "schema_judge", "extract",
                  "structured_extract", "document"}
BY StageFacts DEF AgentStage

\* Where a stage that neither waits for the user nor decides anything leads.
LEMMA NextStageFacts ==
    /\ NextStage("evidence") = "schema_build"
    /\ NextStage("extract") = "structured_extract"
    /\ NextStage("structured_extract") = "document"
    /\ NextStage("document") = "finalize"
<1>1. \A s, t \in Stage : Pos[s] = Pos[t] => s = t
  BY StageFacts
<1> QED BY <1>1, StageFacts DEF NextStage, Follows

\* The four stages at which a change to a completed Workspace restarts.
LEMMA RestartFacts == RestartPoint = {"problem", "evidence", "schema_build", "extract"}
BY DEF RestartPoint, RestartStage

\* Uploads imply impacts like any others.
LEMMA SubmittedType ==
    ASSUME NEW impacts \in SUBSET ChangeImpact, NEW uploads \in BOOLEAN
    PROVE  Submitted(impacts, uploads) \in SUBSET ChangeImpact
BY DEF Submitted, ChangeImpact

\* A follow-up restarts the build where one of its impacts says.
LEMMA PlanRestartsFacts ==
    ASSUME NEW impacts \in SUBSET ChangeImpact, NEW steps
    PROVE  PlanRestarts(impacts, steps) \subseteq RestartPoint
<1> DEFINE all == PlanImpacts(impacts, steps)
<1>1. all \subseteq ChangeImpact
  BY DEF PlanImpacts, ChangeImpact
<1>2. ChangeImpact \ {"answer_only"} = DOMAIN RestartStage
  BY DEF ChangeImpact, RestartStage
<1> HIDE DEF all
<1>3. {RestartStage[i] : i \in all \ {"answer_only"}} \subseteq RestartPoint
  BY <1>1, <1>2 DEF RestartPoint
<1> QED BY <1>3 DEF PlanRestarts, all

-----------------------------------------------------------------------------
(* What each replacement of builder.json changes *)

\* The state prepare_start writes is a Builder state.
LEMMA NewBuildType == NewBuild \in BuildState
BY StageFacts, AgentStageFacts
   DEF NewBuild, BuildState, Status, AttemptId, None, SchemaState, Failure

\* The sets in which the fields of a Builder state live.
LEMMA FieldTypes ==
    ASSUME NEW b \in BuildState
    PROVE  /\ b.version \in Nat /\ b.status \in Status /\ b.stage \in Stage
           /\ b.active \in AttemptId /\ b.accepted \in [AgentStage -> AttemptId]
           /\ b.problemConfirmed \in BOOLEAN /\ b.schemaConfirmed \in BOOLEAN
           /\ b.rounds \in Nat
BY DEF BuildState

\* A swap keeps everything it was given except the version, which grows.
LEMMA SwapEffect ==
    ASSUME builder \in BuildState, NEW b \in BuildState, Swap(b)
    PROVE  /\ builder' \in BuildState
           /\ builder'.version = builder.version + 1
           /\ builder'.status = b.status /\ builder'.stage = b.stage
           /\ builder'.active = b.active /\ builder'.accepted = b.accepted
           /\ builder'.problemConfirmed = b.problemConfirmed
           /\ builder'.schemaConfirmed = b.schemaConfirmed
           /\ builder'.rounds = b.rounds
<1> DEFINE v == builder.version + 1
<1>1. v \in Nat
  BY FieldTypes
<1>2. builder' = [b EXCEPT !.version = v]
  BY DEF Swap
<1> HIDE DEF v
<1>3. /\ builder' \in BuildState
      /\ builder'.version = v
      /\ builder'.status = b.status /\ builder'.stage = b.stage
      /\ builder'.active = b.active /\ builder'.accepted = b.accepted
      /\ builder'.problemConfirmed = b.problemConfirmed
      /\ builder'.schemaConfirmed = b.schemaConfirmed
      /\ builder'.rounds = b.rounds
  BY <1>1, <1>2 DEF BuildState
<1> QED BY <1>3 DEF v

\* An attempt, or none, is where a stage file can come from.
LEMMA Origins == AttemptId \subseteq Origin \cup {None} /\ AttemptId \ {None} \subseteq Origin
BY DEF AttemptId, Origin, Attempt, None

\* The values the replacements write belong to the fields they are written to.
LEMMA Values ==
    /\ None \in AttemptId
    /\ {"running", "needs_problem_confirmation", "needs_schema_confirmation",
        "workspace_ready", "failed", "cancelled"} = Status
    /\ {"none", "transient", "permanent"} = Failure
    /\ {"none", "unjudged", "judged"} = SchemaState
    /\ AgentStage \subseteq Stage /\ RestartPoint \subseteq AgentStage
    /\ \A n \in Nat : n + 1 \in Nat
BY StageFacts, AgentStageFacts, RestartFacts
   DEF None, AttemptId, Status, Failure, SchemaState

\* Closing a build as failed keeps its place, its acceptances and its gates.
LEMMA SetFailureEffect ==
    ASSUME NEW b \in BuildState
    PROVE  /\ SetFailure(b) \in BuildState
           /\ SetFailure(b).status = "failed" /\ SetFailure(b).active = None
           /\ SetFailure(b).stage = b.stage /\ SetFailure(b).accepted = b.accepted
           /\ SetFailure(b).problemConfirmed = b.problemConfirmed
           /\ SetFailure(b).schemaConfirmed = b.schemaConfirmed
           /\ SetFailure(b).rounds = b.rounds
BY Values DEF SetFailure, BuildState

\* _mark_running only names the attempt, which makes it active.
LEMMA RunningEffect ==
    ASSUME NEW b \in BuildState, NEW a \in AttemptId
    PROVE  /\ Running(b, a) \in BuildState
           /\ Running(b, a).active = a
           /\ Running(b, a).status = "running"
           /\ Running(b, a).stage = b.stage
           /\ Running(b, a).accepted = b.accepted
           /\ Running(b, a).problemConfirmed = b.problemConfirmed
           /\ Running(b, a).schemaConfirmed = b.schemaConfirmed
           /\ Running(b, a).rounds = b.rounds
BY Values DEF Running, BuildState

\* A retry, by hand or after a backoff, keeps the place and the acceptances.
LEMMA RestoredEffect ==
    ASSUME NEW b \in BuildState
    PROVE  /\ Restored(b) \in BuildState
           /\ Restored(b).active = None
           /\ Restored(b).status = "running"
           /\ Restored(b).stage = b.stage
           /\ Restored(b).accepted = b.accepted
           /\ Restored(b).problemConfirmed = b.problemConfirmed
           /\ Restored(b).schemaConfirmed = b.schemaConfirmed
           /\ Restored(b).rounds = b.rounds
BY Values DEF Restored, BuildState

\* Cancellation keeps the place, the acceptances and the gates.
LEMMA CancelledEffect ==
    ASSUME NEW b \in BuildState
    PROVE  /\ CancelledBuild(b) \in BuildState
           /\ CancelledBuild(b).active = None
           /\ CancelledBuild(b).status = "cancelled"
           /\ CancelledBuild(b).stage = b.stage
           /\ CancelledBuild(b).accepted = b.accepted
           /\ CancelledBuild(b).problemConfirmed = b.problemConfirmed
           /\ CancelledBuild(b).schemaConfirmed = b.schemaConfirmed
           /\ CancelledBuild(b).rounds = b.rounds
BY Values DEF CancelledBuild, BuildState

\* _set_ready moves to the last stage and completes the build.
LEMMA ReadyEffect ==
    ASSUME NEW b \in BuildState
    PROVE  /\ Ready(b) \in BuildState
           /\ Ready(b).stage = "ready"
           /\ Ready(b).status = "workspace_ready"
           /\ Ready(b).active = b.active
           /\ Ready(b).accepted = b.accepted
           /\ Ready(b).problemConfirmed = b.problemConfirmed
           /\ Ready(b).schemaConfirmed = b.schemaConfirmed
           /\ Ready(b).rounds = b.rounds
BY Values, StageFacts DEF Ready, BuildState

\* _mark_failed ends the attempt and nothing that was accepted.
LEMMA FailedEffect ==
    ASSUME NEW b \in BuildState, NEW o \in Exceptions
    PROVE  /\ Failed(b, o) \in BuildState
           /\ Failed(b, o).active = None
           /\ Failed(b, o).status = (IF o = "cancelled" THEN "cancelled" ELSE "failed")
           /\ Failed(b, o).stage = b.stage
           /\ Failed(b, o).accepted = b.accepted
           /\ Failed(b, o).problemConfirmed = b.problemConfirmed
           /\ Failed(b, o).schemaConfirmed = b.schemaConfirmed
           /\ Failed(b, o).rounds = b.rounds
<1> DEFINE status == IF o = "cancelled" THEN "cancelled" ELSE "failed"
           failure == IF o = "transient" THEN "transient" ELSE "permanent"
<1>1. status \in Status /\ failure \in Failure
  BY Values
<1>2. Failed(b, o) = [b EXCEPT !.active = None, !.status = status, !.failure = failure]
  BY DEF Failed
<1>3. [b EXCEPT !.active = None, !.status = status, !.failure = failure].status = status
  BY <1>1, Values DEF BuildState
<1> HIDE DEF status, failure
<1>4. LET c == [b EXCEPT !.active = None, !.status = status, !.failure = failure]
      IN  /\ c \in BuildState
          /\ c.active = None /\ c.stage = b.stage /\ c.accepted = b.accepted
          /\ c.problemConfirmed = b.problemConfirmed
          /\ c.schemaConfirmed = b.schemaConfirmed /\ c.rounds = b.rounds
  BY <1>1, Values DEF BuildState
<1> QED BY <1>2, <1>3, <1>4 DEF status

\* Acceptance of a result replaces the acceptance of one stage.
LEMMA DeliveredEffect ==
    ASSUME NEW b \in BuildState, NEW a \in AttemptId, b.stage \in AgentStage
    PROVE  /\ Delivered(b, a) \in BuildState
           /\ Delivered(b, a).active = None
           /\ Delivered(b, a).accepted = [b.accepted EXCEPT ![b.stage] = a]
           /\ Delivered(b, a).stage = b.stage
           /\ Delivered(b, a).status = b.status
           /\ Delivered(b, a).problemConfirmed = b.problemConfirmed
           /\ Delivered(b, a).schemaConfirmed = b.schemaConfirmed
           /\ Delivered(b, a).rounds = b.rounds
BY Values DEF Delivered, BuildState

\* A built schema goes to the judge.
LEMMA ToJudgeEffect ==
    ASSUME NEW b \in BuildState
    PROVE  /\ ToJudge(b) \in BuildState
           /\ ToJudge(b).stage = "schema_judge"
           /\ ToJudge(b).status = b.status
           /\ ToJudge(b).active = b.active
           /\ ToJudge(b).accepted = b.accepted
           /\ ToJudge(b).problemConfirmed = b.problemConfirmed
           /\ ToJudge(b).schemaConfirmed = b.schemaConfirmed
           /\ ToJudge(b).rounds = b.rounds
BY Values, StageFacts DEF ToJudge, BuildState

\* A schema the judge wants revised goes back to the builder.
LEMMA RebuildEffect ==
    ASSUME NEW b \in BuildState
    PROVE  /\ Rebuild(b) \in BuildState
           /\ Rebuild(b).stage = "schema_build"
           /\ Rebuild(b).rounds = b.rounds + 1
           /\ Rebuild(b).status = b.status
           /\ Rebuild(b).active = b.active
           /\ Rebuild(b).accepted = b.accepted
           /\ Rebuild(b).problemConfirmed = b.problemConfirmed
           /\ Rebuild(b).schemaConfirmed = b.schemaConfirmed
BY Values, StageFacts DEF Rebuild, BuildState

\* A schema that passed the judge waits for the user, unconfirmed.
LEMMA AskSchemaEffect ==
    ASSUME NEW b \in BuildState
    PROVE  /\ AskSchema(b) \in BuildState
           /\ AskSchema(b).status = "needs_schema_confirmation"
           /\ AskSchema(b).schemaConfirmed = FALSE
           /\ AskSchema(b).rounds = 0
           /\ AskSchema(b).stage = b.stage
           /\ AskSchema(b).active = b.active
           /\ AskSchema(b).accepted = b.accepted
           /\ AskSchema(b).problemConfirmed = b.problemConfirmed
BY Values DEF AskSchema, BuildState

\* Any other stage hands over to the next one.
LEMMA AdvancedEffect ==
    ASSUME NEW b \in BuildState, NextStage(b.stage) \in Stage
    PROVE  /\ Advanced(b) \in BuildState
           /\ Advanced(b).stage = NextStage(b.stage)
           /\ Advanced(b).status = b.status
           /\ Advanced(b).active = b.active
           /\ Advanced(b).accepted = b.accepted
           /\ Advanced(b).problemConfirmed = b.problemConfirmed
           /\ Advanced(b).schemaConfirmed = b.schemaConfirmed
           /\ Advanced(b).rounds = b.rounds
BY DEF Advanced, BuildState

\* An answer at the problem gate sets the stage and the gate.
LEMMA ProblemAnsweredEffect ==
    ASSUME NEW b \in BuildState, NEW next \in Stage, NEW c \in BOOLEAN
    PROVE  /\ ProblemAnswered(b, next, c) \in BuildState
           /\ ProblemAnswered(b, next, c).status = "running"
           /\ ProblemAnswered(b, next, c).stage = next
           /\ ProblemAnswered(b, next, c).problemConfirmed = c
           /\ ProblemAnswered(b, next, c).active = b.active
           /\ ProblemAnswered(b, next, c).accepted = b.accepted
           /\ ProblemAnswered(b, next, c).schemaConfirmed = b.schemaConfirmed
           /\ ProblemAnswered(b, next, c).rounds = b.rounds
BY Values DEF ProblemAnswered, BuildState

\* An answer at the schema gate sets the stage and the gate.
LEMMA SchemaAnsweredEffect ==
    ASSUME NEW b \in BuildState, NEW next \in Stage, NEW c \in BOOLEAN
    PROVE  /\ SchemaAnswered(b, next, c) \in BuildState
           /\ SchemaAnswered(b, next, c).status = "running"
           /\ SchemaAnswered(b, next, c).stage = next
           /\ SchemaAnswered(b, next, c).schemaConfirmed = c
           /\ SchemaAnswered(b, next, c).active = b.active
           /\ SchemaAnswered(b, next, c).accepted = b.accepted
           /\ SchemaAnswered(b, next, c).problemConfirmed = b.problemConfirmed
           /\ SchemaAnswered(b, next, c).rounds = b.rounds
BY Values DEF SchemaAnswered, BuildState

\* A problem result waits for the user, with the problem unconfirmed.
LEMMA AskProblemEffect ==
    ASSUME NEW b \in BuildState, NEW extends \in BOOLEAN
    PROVE  /\ AskProblem(b, extends) \in BuildState
           /\ AskProblem(b, extends).status = "needs_problem_confirmation"
           /\ AskProblem(b, extends).problemConfirmed = FALSE
           /\ AskProblem(b, extends).stage = b.stage
           /\ AskProblem(b, extends).active = b.active
           /\ AskProblem(b, extends).accepted = b.accepted
           /\ AskProblem(b, extends).schemaConfirmed \in {TRUE, b.schemaConfirmed}
           /\ AskProblem(b, extends).rounds = b.rounds
<1> DEFINE mode == IF extends THEN "extend" ELSE "new"
           asked == [b EXCEPT !.status = "needs_problem_confirmation",
                              !.problemConfirmed = FALSE, !.mode = mode]
           taken == [asked EXCEPT !.schema = "judged", !.revalidate = FALSE,
                                  !.schemaConfirmed = TRUE]
<1>1. mode \in {"new", "extend"}
  OBVIOUS
<1>2. AskProblem(b, extends) = taken \/ AskProblem(b, extends) = asked
  BY DEF AskProblem
<1> HIDE DEF mode
<1>3. /\ asked \in BuildState
      /\ asked.status = "needs_problem_confirmation" /\ asked.problemConfirmed = FALSE
      /\ asked.stage = b.stage /\ asked.active = b.active /\ asked.accepted = b.accepted
      /\ asked.schemaConfirmed = b.schemaConfirmed /\ asked.rounds = b.rounds
  BY <1>1, Values DEF BuildState
<1> HIDE DEF asked
<1>4. /\ taken \in BuildState
      /\ taken.status = asked.status /\ taken.problemConfirmed = asked.problemConfirmed
      /\ taken.stage = asked.stage /\ taken.active = asked.active
      /\ taken.accepted = asked.accepted
      /\ taken.schemaConfirmed = TRUE /\ taken.rounds = asked.rounds
  BY <1>3, Values DEF BuildState
<1> HIDE DEF taken
<1> QED BY <1>2, <1>3, <1>4

\* Saving the schema page keeps the build where it waits.
LEMMA SchemaSavedEffect ==
    ASSUME NEW b \in BuildState, NEW changed \in BOOLEAN
    PROVE  /\ SchemaSaved(b, changed) \in BuildState
           /\ SchemaSaved(b, changed).schemaConfirmed = FALSE
           /\ SchemaSaved(b, changed).problemConfirmed = b.problemConfirmed
           /\ SchemaSaved(b, changed).status = b.status /\ SchemaSaved(b, changed).stage = b.stage
           /\ SchemaSaved(b, changed).active = b.active /\ SchemaSaved(b, changed).accepted = b.accepted
           /\ SchemaSaved(b, changed).rounds = b.rounds
<1> DEFINE schema == IF changed THEN "unjudged" ELSE b.schema
           c == [b EXCEPT !.schema = schema, !.revalidate = changed, !.schemaConfirmed = FALSE]
<1>1. schema \in SchemaState
  BY Values DEF BuildState
<1>2. SchemaSaved(b, changed) = c
  BY DEF SchemaSaved
<1> HIDE DEF schema
<1>3. /\ c \in BuildState
      /\ c.status = b.status /\ c.stage = b.stage /\ c.active = b.active
      /\ c.accepted = b.accepted /\ c.problemConfirmed = b.problemConfirmed
      /\ c.schemaConfirmed = FALSE /\ c.rounds = b.rounds
  BY <1>1 DEF BuildState
<1> HIDE DEF c
<1> QED BY <1>2, <1>3

\* Saving the problem page keeps the build where it waits.
LEMMA ProblemSavedEffect ==
    ASSUME NEW b \in BuildState
    PROVE  /\ ProblemSaved(b) \in BuildState
           /\ ProblemSaved(b).problemConfirmed = FALSE
           /\ ProblemSaved(b).schemaConfirmed = b.schemaConfirmed
           /\ ProblemSaved(b).status = b.status /\ ProblemSaved(b).stage = b.stage
           /\ ProblemSaved(b).active = b.active /\ ProblemSaved(b).accepted = b.accepted
           /\ ProblemSaved(b).rounds = b.rounds
BY DEF ProblemSaved, BuildState

\* A follow-up keeps exactly the acceptances that precede its restart point.
LEMMA RestartedEffect ==
    ASSUME NEW b \in BuildState, NEW restart \in RestartPoint
    PROVE  /\ Restarted(b, restart) \in BuildState
           /\ Restarted(b, restart).status = "running"
           /\ Restarted(b, restart).stage = restart
           /\ Restarted(b, restart).active = None
           /\ Restarted(b, restart).accepted =
                [s \in AgentStage |-> IF Precedes(s, restart) THEN b.accepted[s] ELSE None]
           /\ Restarted(b, restart).problemConfirmed = (b.problemConfirmed /\ restart # "problem")
           /\ Restarted(b, restart).schemaConfirmed =
                (b.schemaConfirmed /\ Precedes("schema_build", restart))
           /\ Restarted(b, restart).rounds = b.rounds
<1> DEFINE kept    == [s \in AgentStage |-> IF Precedes(s, restart) THEN b.accepted[s] ELSE None]
           replace == restart \in {"schema_build", "extract"}
           schema  == b.schemaConfirmed /\ Precedes("schema_build", restart)
           problem == b.problemConfirmed /\ restart # "problem"
<1>1. kept \in [AgentStage -> AttemptId]
  BY FieldTypes, Values
<1>2. replace \in BOOLEAN /\ schema \in BOOLEAN /\ problem \in BOOLEAN
  BY FieldTypes
<1>3. restart \in Stage /\ restart \in RestartPoint \cup {""}
  BY Values
<1>4. Restarted(b, restart) =
        [b EXCEPT !.accepted = kept, !.stage = restart, !.status = "running", !.active = None,
                  !.invalidated = restart, !.failure = "none", !.replace = replace,
                  !.schemaConfirmed = schema, !.problemConfirmed = problem]
  BY DEF Restarted, Kept, SchemaSurvives
<1> HIDE DEF kept, replace, schema, problem
<1>5. LET c == [b EXCEPT !.accepted = kept, !.stage = restart, !.status = "running",
                         !.active = None, !.invalidated = restart, !.failure = "none",
                         !.replace = replace, !.schemaConfirmed = schema,
                         !.problemConfirmed = problem]
      IN  /\ c \in BuildState
          /\ c.status = "running" /\ c.stage = restart /\ c.active = None
          /\ c.accepted = kept /\ c.problemConfirmed = problem
          /\ c.schemaConfirmed = schema /\ c.rounds = b.rounds
  BY <1>1, <1>2, <1>3, Values, ZenonT(60) DEF BuildState
<1> QED BY <1>4, <1>5 DEF kept, schema, problem

\* What accepting a result of attempt a can make of the Builder state b.
AcceptedOutcome(b, a, c) ==
    /\ c \in BuildState
    /\ c.active = None
    /\ c.accepted = [b.accepted EXCEPT ![b.stage] = a]
    /\ \/ /\ c.status = "failed" /\ c.stage = b.stage /\ c.rounds = b.rounds
          /\ c.problemConfirmed = b.problemConfirmed
          /\ c.schemaConfirmed = b.schemaConfirmed
       \/ /\ b.stage = "problem" /\ c.stage = "problem"
          /\ c.status = "needs_problem_confirmation" /\ c.rounds = b.rounds
          /\ c.problemConfirmed = FALSE
          /\ c.schemaConfirmed \in {TRUE, b.schemaConfirmed}
       \/ /\ b.stage = "schema_judge" /\ c.stage = "schema_judge"
          /\ c.status = "needs_schema_confirmation" /\ c.rounds = 0
          /\ c.problemConfirmed = b.problemConfirmed
          /\ c.schemaConfirmed = FALSE
       \/ /\ b.stage = "schema_judge" /\ c.stage = "schema_build"
          /\ c.status = b.status /\ c.rounds = b.rounds + 1
          /\ c.problemConfirmed = b.problemConfirmed
          /\ c.schemaConfirmed = b.schemaConfirmed
       \/ /\ b.stage \notin {"problem", "schema_judge"}
          /\ c.stage \in Stage \ {"ready"} /\ Follows(b.stage, c.stage)
          /\ c.status = b.status /\ c.rounds = b.rounds
          /\ c.problemConfirmed = b.problemConfirmed
          /\ c.schemaConfirmed = b.schemaConfirmed

\* The four ways in which an acceptance can end, by stage and outcome.
LEMMA AcceptedEffect ==
    ASSUME NEW b \in BuildState, NEW a \in AttemptId, b.stage \in AgentStage,
           NEW o \in PossibleResults(b.stage) \cup {"not_ok"}
    PROVE  AcceptedOutcome(b, a, Accepted(b, a, o))
<1> DEFINE d == Delivered(b, a)
           c == Accepted(b, a, o)
<1>1. /\ d \in BuildState
      /\ d.active = None /\ d.accepted = [b.accepted EXCEPT ![b.stage] = a]
      /\ d.stage = b.stage /\ d.status = b.status /\ d.rounds = b.rounds
      /\ d.problemConfirmed = b.problemConfirmed /\ d.schemaConfirmed = b.schemaConfirmed
  BY DeliveredEffect
<1>2. /\ o = "not_ok" => c = SetFailure(d)
      /\ o # "not_ok" /\ b.stage = "problem" => c = AskProblem(d, o = "extend")
      /\ o # "not_ok" /\ b.stage = "schema_build" => c = ToJudge(d)
      /\ b.stage = "schema_judge" /\ o = "revise" => c = Rebuild(d)
      /\ b.stage = "schema_judge" /\ o \notin {"not_ok", "revise"} => c = AskSchema(d)
      /\ o # "not_ok" /\ b.stage \notin {"problem", "schema_build", "schema_judge"}
           => c = Advanced(d)
  BY DEF Accepted
<1>3. o = "revise" => b.stage = "schema_judge"
  BY DEF PossibleResults
<1> HIDE DEF d, c
<1>4. CASE o = "not_ok"
  BY <1>1, <1>2, <1>4, SetFailureEffect DEF c, AcceptedOutcome
<1>5. CASE o # "not_ok" /\ b.stage = "problem"
  <2> DEFINE extends == o = "extend"
  <2>1. extends \in BOOLEAN /\ c = AskProblem(d, extends)
    BY <1>2, <1>5
  <2> HIDE DEF extends
  <2>2. /\ c \in BuildState /\ c.status = "needs_problem_confirmation"
        /\ c.problemConfirmed = FALSE /\ c.schemaConfirmed \in {TRUE, d.schemaConfirmed}
        /\ c.stage = d.stage /\ c.active = d.active /\ c.accepted = d.accepted
        /\ c.rounds = d.rounds
    BY <1>1, <2>1, AskProblemEffect
  <2> QED BY <1>1, <1>5, <2>2 DEF c, AcceptedOutcome
<1>6. CASE o # "not_ok" /\ b.stage = "schema_build"
  <2>1. Follows("schema_build", "schema_judge") /\ "schema_judge" \in Stage \ {"ready"}
    BY StageFacts DEF Follows
  <2> QED BY <1>1, <1>2, <1>6, <2>1, ToJudgeEffect DEF c, AcceptedOutcome
<1>7. CASE o = "revise"
  BY <1>1, <1>2, <1>3, <1>7, RebuildEffect DEF c, AcceptedOutcome
<1>8. CASE o \notin {"not_ok", "revise"} /\ b.stage = "schema_judge"
  BY <1>1, <1>2, <1>8, AskSchemaEffect DEF c, AcceptedOutcome
<1>9. CASE o # "not_ok" /\ b.stage \notin {"problem", "schema_build", "schema_judge"}
  <2>1. NextStage(b.stage) \in Stage \ {"ready"} /\ Follows(b.stage, NextStage(b.stage))
    BY <1>9, AgentStageFacts, StageFacts, NextStageFacts DEF Follows
  <2> QED BY <1>1, <1>2, <1>9, <2>1, AdvancedEffect DEF c, AcceptedOutcome
<1> QED BY <1>3, <1>4, <1>5, <1>6, <1>7, <1>8, <1>9 DEF c

-----------------------------------------------------------------------------
(* Types *)

Records == [Attempt -> [stage : AgentStage, status : AttemptStatus]]

\* Closing an attempt file changes its status only, and never to "absent".
LEMMA FinishedEffect ==
    ASSUME record \in Records, NEW a \in AttemptId, NEW status \in AttemptStatus \ {"absent"}
    PROVE  /\ Finished(a, status) \in Records
           /\ \A c \in Attempt :
                /\ Finished(a, status)[c].stage = record[c].stage
                /\ record[c].status # "absent" => Finished(a, status)[c].status # "absent"
<1> DEFINE closed == [record EXCEPT ![a].status = status]
<1>1. CASE ~IsActive(a)
  BY <1>1 DEF Finished
<1>2. CASE IsActive(a)
  <2>1. a \in Attempt
    BY <1>2 DEF IsActive, AttemptId, Attempt, None
  <2>2. /\ [record[a] EXCEPT !.status = status] \in [stage : AgentStage, status : AttemptStatus]
        /\ [record[a] EXCEPT !.status = status].stage = record[a].stage
        /\ [record[a] EXCEPT !.status = status].status = status
    BY <2>1 DEF Records
  <2>3. closed = [record EXCEPT ![a] = [record[a] EXCEPT !.status = status]]
    OBVIOUS
  <2>4. closed \in Records /\ \A c \in Attempt : c # a => closed[c] = record[c]
    BY <2>1, <2>2, <2>3 DEF Records
  <2>5. closed[a] = [record[a] EXCEPT !.status = status]
    BY <2>1, <2>3 DEF Records
  <2>6. Finished(a, status) = closed
    BY <1>2 DEF Finished
  <2> HIDE DEF closed
  <2> QED BY <2>2, <2>4, <2>5, <2>6
<1> QED BY <1>1, <1>2

\* A new attempt file.
LEMMA RecordedEffect ==
    ASSUME record \in Records, NEW a \in Attempt, NEW stage \in AgentStage
    PROVE  LET new == [record EXCEPT ![a] = [stage |-> stage, status |-> "running"]]
           IN  /\ new \in Records
               /\ new[a].stage = stage /\ new[a].status = "running"
               /\ \A c \in Attempt : c # a => new[c] = record[c]
<1> DEFINE entry == [stage |-> stage, status |-> "running"]
<1>1. /\ entry \in [stage : AgentStage, status : AttemptStatus]
      /\ entry.stage = stage /\ entry.status = "running"
  BY DEF AttemptStatus
<1> HIDE DEF entry
<1>2. LET new == [record EXCEPT ![a] = entry]
      IN  /\ new \in Records /\ new[a] = entry
          /\ \A c \in Attempt : c # a => new[c] = record[c]
  BY <1>1 DEF Records
<1> QED BY <1>1, <1>2 DEF entry

LocalType ==
    /\ pc \in [Proc -> {"idle"} \cup DriverPC \cup CommandPC]
    /\ snap \in [Proc -> BuildState]
    /\ mine \in [Proc -> AttemptId]
    /\ outcome \in [Proc -> Outcome]
    /\ tries \in [Proc -> [AgentStage -> 0..RetryLimit]]

\* Leaving forgets everything local, which is well typed.
LEMMA LeaveType ==
    ASSUME LocalType, NEW p \in Proc, Leave(p)
    PROVE  LocalType'
<1>1. NewBuild \in BuildState /\ None \in AttemptId /\ "ok" \in Outcome
  BY NewBuildType, Values DEF Outcome, Results
<1>2. [s \in AgentStage |-> 0] \in [AgentStage -> 0..RetryLimit]
  OBVIOUS
<1> QED BY <1>1, <1>2 DEF LocalType, Leave

\* What TypeOK says of the processes and of the attempt files.
LEMMA LocalTypeOK == TypeOK => LocalType /\ builder \in BuildState /\ record \in Records
BY DEF TypeOK, LocalType, Records

\* A Builder state replaced by SetFailure, or not replaced at all.
LEMMA ClosedType ==
    ASSUME builder \in BuildState, NEW P \in BOOLEAN,
           IF P THEN Swap(SetFailure(builder)) ELSE UNCHANGED builder
    PROVE  builder' \in BuildState
<1>1. CASE P
  BY <1>1, SetFailureEffect, SwapEffect
<1>2. CASE ~P
  BY <1>2
<1> QED BY <1>1, <1>2

\* Every step of a driving process keeps the types.
LEMMA DriveType ==
    ASSUME Inv, NEW p \in Proc, Drive(p)
    PROVE  TypeOK'
<1> USE DEF session, files, local
<1>1. TypeOK /\ LocalType /\ builder \in BuildState /\ record \in Records
  BY LocalTypeOK DEF Inv
<1>2. pc[p] \in {"idle"} \cup DriverPC \cup CommandPC /\ snap[p] \in BuildState
      /\ mine[p] \in AttemptId /\ outcome[p] \in Outcome /\ snap[p].stage \in Stage
  BY <1>1, FieldTypes DEF LocalType
<1>3. CASE LeaveLoop(p)
  BY <1>1, <1>3, LeaveType DEF LeaveLoop, TypeOK, LocalType
<1>4. CASE FailRevisionLimit(p)
  <2>1. builder' \in BuildState
    BY <1>1, <1>4, ClosedType DEF FailRevisionLimit, Current
  <2> QED BY <1>1, <1>4, <2>1, LeaveType DEF FailRevisionLimit, TypeOK, LocalType
<1>5. CASE FailPreflight(p)
  <2>1. builder' \in BuildState
    BY <1>1, <1>5, ClosedType DEF FailPreflight
  <2> QED BY <1>1, <1>5, <2>1, LeaveType DEF FailPreflight, TypeOK, LocalType
<1>6. CASE StartAttempt(p)
  <2>1. started + 1 \in Attempt /\ started + 1 \in AttemptId
    BY <1>1, <1>6 DEF StartAttempt, InputsLeft, TypeOK, Attempt, AttemptId
  <2>2. snap[p].stage \in AgentStage
    BY <1>6 DEF StartAttempt
  <2>3. record' \in Records
    BY <1>1, <1>6, <2>1, <2>2, RecordedEffect DEF StartAttempt
  <2> QED BY <1>1, <1>6, <2>1, <2>3 DEF StartAttempt, TypeOK, Records, Goto, DriverPC
<1>7. CASE MarkRunning(p)
  <2>1. CASE Current(p)
    <3>1. Running(builder, mine[p]) \in BuildState
      BY <1>1, <1>2, RunningEffect
    <3>2. builder' \in BuildState /\ Swap(Running(builder, mine[p])) /\ record' = record
          /\ Hold(p, builder') /\ Goto(p, "agent") /\ UNCHANGED <<mine, outcome, tries>>
      BY <1>1, <1>7, <2>1, <3>1, SwapEffect DEF MarkRunning
    <3> QED BY <1>1, <1>7, <3>2 DEF MarkRunning, TypeOK, Hold, Goto, DriverPC
  <2>2. CASE ~Current(p)
    <3>1. record' \in Records
      BY <1>1, <1>2, <1>7, <2>2, FinishedEffect DEF MarkRunning, AttemptStatus
    <3>2. LocalType' /\ builder' = builder
      BY <1>1, <1>7, <2>2, LeaveType DEF MarkRunning
    <3> QED BY <1>1, <1>7, <3>1, <3>2 DEF MarkRunning, TypeOK, LocalType, Records
  <2> QED BY <2>1, <2>2
<1>8. CASE AgentReturns(p)
  <2>1. outcome' \in [Proc -> Outcome]
    BY <1>1, <1>8 DEF AgentReturns, TypeOK, Outcome, Results, Exceptions, PossibleResults
  <2>2. pc' \in [Proc -> {"idle"} \cup DriverPC \cup CommandPC]
    BY <1>1, <1>8 DEF AgentReturns, TypeOK, Goto, DriverPC
  <2> QED BY <1>1, <1>8, <2>1, <2>2 DEF AgentReturns, TypeOK
<1>9. CASE InstallBaseline(p)
  <2>1. outcome' \in [Proc -> Outcome] /\ pc' \in [Proc -> {"idle"} \cup DriverPC \cup CommandPC]
    BY <1>1, <1>9 DEF InstallBaseline, TypeOK, Outcome, Exceptions, Goto, DriverPC
  <2>2. /\ canonical' \in [AgentStage -> Origin \cup {None}]
        /\ baseline' \in SUBSET Origin
        /\ workspace' \in [facts : SUBSET Origin, readme : Origin \cup {None}]
    BY <1>1, <1>9 DEF InstallBaseline, TypeOK, Origin
  <2> QED BY <1>1, <1>9, <2>1, <2>2 DEF InstallBaseline, TypeOK
<1>10. CASE PublishResult(p)
  <2>1. outcome' \in [Proc -> Outcome] /\ pc' \in [Proc -> {"idle"} \cup DriverPC \cup CommandPC]
    BY <1>1, <1>10 DEF PublishResult, TypeOK, Outcome, Exceptions, Goto, DriverPC
  <2>2. canonical' \in [AgentStage -> Origin \cup {None}]
    BY <1>1, <1>2, <1>10, Origins DEF PublishResult, TypeOK
  <2> QED BY <1>1, <1>10, <2>1, <2>2 DEF PublishResult, TypeOK
<1>11. CASE Accept(p)
  <2>1. CASE Current(p)
    <3>1. builder.stage \in AgentStage /\ outcome[p] \in PossibleResults(builder.stage) \cup {"not_ok"}
      BY <1>11, <2>1 DEF Accept, Current, Inv, SnapshotsAreVersioned, KnowsItsAttempt, VersionedCopy, Holders, DriverPC
    <3>2. Accepted(builder, mine[p], outcome[p]) \in BuildState
      BY <1>1, <1>2, <3>1, AcceptedEffect DEF AcceptedOutcome
    <3>3. builder' \in BuildState /\ Hold(p, builder') /\ Goto(p, "finish") /\ UNCHANGED outcome
      BY <1>1, <1>11, <2>1, <3>2, SwapEffect DEF Accept
    <3> QED BY <1>1, <1>11, <3>3 DEF Accept, TypeOK, Hold, Goto, DriverPC
  <2>2. CASE ~Current(p)
    BY <1>1, <1>11, <2>2 DEF Accept, TypeOK, Goto, DriverPC, Outcome, Exceptions
  <2> QED BY <2>1, <2>2
<1>12. CASE FinishAttempt(p)
  <2>1. record' \in Records
    BY <1>1, <1>2, <1>12, FinishedEffect DEF FinishAttempt, AttemptStatus
  <2>2. /\ pc' \in [Proc -> {"idle"} \cup DriverPC \cup CommandPC]
        /\ mine' \in [Proc -> AttemptId] /\ outcome' \in [Proc -> Outcome]
    BY <1>1, <1>12, Values DEF FinishAttempt, TypeOK, Goto, DriverPC, Outcome, Results, Exceptions
  <2> QED BY <1>1, <1>12, <2>1, <2>2 DEF FinishAttempt, TypeOK, Records
<1>13. CASE FailAttempt(p)
  <2>1. record' \in Records
    BY <1>1, <1>2, <1>13, FinishedEffect DEF FailAttempt, AttemptStatus
  <2>2. outcome' \in [Proc -> Outcome] /\ pc' \in [Proc -> {"idle"} \cup DriverPC \cup CommandPC]
    BY <1>1, <1>13 DEF FailAttempt, TypeOK, Goto, DriverPC, Outcome, Exceptions
  <2> QED BY <1>1, <1>13, <2>1, <2>2 DEF FailAttempt, TypeOK, Records
<1>14. CASE MarkFailed(p)
  <2>1. outcome[p] \in Exceptions
    BY <1>14 DEF MarkFailed, Inv, KnowsItsAttempt
  <2>2. builder' \in BuildState
    <3>1. Failed(builder, outcome[p]) \in BuildState
      BY <1>1, <2>1, FailedEffect
    <3>2. CASE Current(p) /\ builder.active = mine[p]
      BY <1>1, <1>14, <3>1, <3>2, SwapEffect DEF MarkFailed
    <3>3. CASE ~(Current(p) /\ builder.active = mine[p])
      BY <1>1, <1>14, <3>3 DEF MarkFailed
    <3> QED BY <3>2, <3>3
  <2>3. tries' \in [Proc -> [AgentStage -> 0..RetryLimit]]
    <3> DEFINE stage == record[mine[p]].stage
               more  == [tries[p] EXCEPT ![stage] = @ + 1]
    <3>1. tries[p] \in [AgentStage -> 0..RetryLimit]
      BY <1>1 DEF TypeOK
    <3>2. ASSUME tries[p][stage] < RetryLimit
          PROVE  more \in [AgentStage -> 0..RetryLimit]
      <4> HIDE DEF stage
      <4>1. \A s \in AgentStage : tries[p][s] \in 0..RetryLimit
        BY <3>1
      <4>2. more = [s \in AgentStage |-> IF s = stage THEN tries[p][stage] + 1 ELSE tries[p][s]]
        BY <3>1
      <4>3. stage \in AgentStage => tries[p][stage] + 1 \in 0..RetryLimit
        BY <3>2, <4>1
      <4> HIDE DEF more
      <4> QED BY <4>1, <4>2, <4>3
    <3>3. \/ tries' = tries
          \/ tries[p][stage] < RetryLimit /\ tries' = [tries EXCEPT ![p] = more]
      BY <1>14 DEF MarkFailed, RetriesLeft
    <3> HIDE DEF more, stage
    <3> QED BY <1>1, <3>2, <3>3 DEF TypeOK
  <2>4. /\ pc' \in [Proc -> {"idle"} \cup DriverPC \cup CommandPC]
        /\ mine' \in [Proc -> AttemptId] /\ outcome' \in [Proc -> Outcome]
        /\ snap' \in [Proc -> BuildState]
    BY <1>1, <1>14, <2>2, Values DEF MarkFailed, TypeOK, Goto, Hold, DriverPC, Outcome, Results
  <2> QED BY <1>1, <1>14, <2>2, <2>3, <2>4 DEF MarkFailed, TypeOK
<1>15. CASE RetryTransient(p)
  <2>1. CASE Current(p) /\ builder.status = "failed" /\ builder.stage = record[mine[p]].stage
    <3>1. builder' \in BuildState /\ Hold(p, builder') /\ Goto(p, "loop")
          /\ mine' = [mine EXCEPT ![p] = None] /\ UNCHANGED <<outcome, tries>>
      BY <1>1, <1>15, <2>1, RestoredEffect, SwapEffect DEF RetryTransient
    <3> QED BY <1>1, <1>15, <3>1, Values DEF RetryTransient, TypeOK, Hold, Goto, DriverPC
  <2>2. CASE ~(Current(p) /\ builder.status = "failed" /\ builder.stage = record[mine[p]].stage)
    <3>1. LocalType' /\ builder' = builder
      BY <1>1, <1>15, <2>2, LeaveType DEF RetryTransient
    <3> QED BY <1>1, <1>15, <3>1 DEF RetryTransient, TypeOK, LocalType
  <2> QED BY <2>1, <2>2
<1>16. CASE PublishWorkspace(p)
  <2>1. CASE workspace' = Publication(snap[p]) /\ Goto(p, "set_ready")
             /\ UNCHANGED <<builder, snap, mine, outcome, tries>>
    <3>1. snap[p].accepted["extract"] \in AttemptId
          /\ snap[p].accepted["structured_extract"] \in AttemptId
      BY <1>2, FieldTypes, AgentStageFacts
    <3>2. baseline \in SUBSET Origin /\ canonical["document"] \in Origin \cup {None}
      BY <1>1, AgentStageFacts DEF TypeOK
    <3>3. {snap[p].accepted["extract"], snap[p].accepted["structured_extract"]} \ {None}
             \in SUBSET Origin
      BY <3>1, Origins
    <3>4. Publication(snap[p]) \in [facts : SUBSET Origin, readme : Origin \cup {None}]
      BY <3>2, <3>3 DEF Publication
    <3> QED BY <1>1, <1>16, <2>1, <3>4 DEF PublishWorkspace, TypeOK, Goto, DriverPC
  <2>2. CASE (IF Current(p) THEN Swap(SetFailure(builder)) ELSE UNCHANGED builder)
             /\ Leave(p) /\ UNCHANGED workspace
    <3>1. builder' \in BuildState /\ LocalType'
      BY <1>1, <2>2, ClosedType, LeaveType DEF Current
    <3> QED BY <1>1, <1>16, <2>2, <3>1 DEF PublishWorkspace, TypeOK, LocalType
  <2> QED BY <1>16, <2>1, <2>2 DEF PublishWorkspace
<1>17. CASE SetReady(p)
  <2>1. builder' \in BuildState
    BY <1>1, <1>17, ReadyEffect, SwapEffect DEF SetReady
  <2> QED BY <1>1, <1>17, <2>1, LeaveType DEF SetReady, TypeOK, LocalType
<1> QED
  BY <1>3, <1>4, <1>5, <1>6, <1>7, <1>8, <1>9, <1>10, <1>11, <1>12, <1>13, <1>14, <1>15,
     <1>16, <1>17 DEF Drive

\* What the commands that start a build again write.
LEMMA CommandEffect ==
    ASSUME builder \in BuildState, Command
    PROVE  \E b \in BuildState : Swap(b)
<1> USE Values, StageFacts
<1>1. CASE ConfirmProblem
  BY <1>1, ProblemAnsweredEffect DEF ConfirmProblem
<1>2. CASE ReviseProblem
  BY <1>2, ProblemAnsweredEffect DEF ReviseProblem
<1>3. CASE ConfirmSchema
  BY <1>3, SchemaAnsweredEffect DEF ConfirmSchema
<1>4. CASE ReviseSchema
  BY <1>4, SchemaAnsweredEffect DEF ReviseSchema
<1>5. CASE SaveProblemReview
  BY <1>5, ProblemSavedEffect DEF SaveProblemReview
<1>6. CASE SaveSchemaReview
  BY <1>6, SchemaSavedEffect DEF SaveSchemaReview
<1>7. CASE Retry
  BY <1>7, RestoredEffect DEF Retry
<1>8. CASE FollowUp
  <2>1. PICK restart \in RestartPoint : Swap(Restarted(builder, restart))
    BY <1>8, SubmittedType, PlanRestartsFacts DEF FollowUp
  <2> QED BY <2>1, RestartedEffect
<1> QED BY <1>1, <1>2, <1>3, <1>4, <1>5, <1>6, <1>7, <1>8 DEF Command

\* Commands touch nothing else but the baseline of a follow-up.
LEMMA CommandFrame ==
    ASSUME Command
    PROVE  /\ UNCHANGED <<record, started, canonical, workspace, local>>
           /\ baseline' \in {baseline, workspace.facts}
           /\ spent' = spent \/ \E kind \in DOMAIN Budget : Spend(kind)
<1> USE DEF files
<1>1. "commands" \in DOMAIN Budget
  BY DEF Budget
<1> QED
  BY <1>1 DEF Command, ConfirmProblem, ReviseProblem, ConfirmSchema, ReviseSchema,
     SaveProblemReview, SaveSchemaReview, Retry, FollowUp

\* Using up a bound keeps the counters well typed.
LEMMA SpendType ==
    ASSUME spent \in [DOMAIN Budget -> Nat], NEW kind \in DOMAIN Budget, Spend(kind)
    PROVE  spent' \in [DOMAIN Budget -> Nat]
BY DEF Spend

\* Every command keeps the types.
LEMMA CommandType ==
    ASSUME Inv, Command
    PROVE  TypeOK'
<1>1. TypeOK /\ builder \in BuildState
  BY LocalTypeOK DEF Inv
<1>2. builder' \in BuildState
  BY <1>1, CommandEffect, SwapEffect
<1>3. spent' \in [DOMAIN Budget -> Nat]
  BY <1>1, CommandFrame, SpendType DEF TypeOK
<1>4. baseline' \in SUBSET Origin
  BY <1>1, CommandFrame DEF TypeOK
<1> QED BY <1>1, <1>2, <1>3, <1>4, CommandFrame DEF TypeOK, local

\* Cancellation, background failure and recovery keep the types.
LEMMA InterruptType ==
    ASSUME Inv, NEW p \in Proc, Interrupt(p)
    PROVE  TypeOK'
<1> USE DEF session, files, local
<1>1. TypeOK /\ LocalType /\ builder \in BuildState /\ record \in Records
  BY LocalTypeOK DEF Inv
<1>2. mine[p] \in AttemptId /\ builder.active \in AttemptId
  BY <1>1, FieldTypes DEF LocalType
<1>3. CASE Cancel(p)
  <2>1. builder' \in BuildState
    BY <1>1, <1>3, CancelledEffect, SwapEffect DEF Cancel
  <2>2. pc' \in [Proc -> {"idle"} \cup DriverPC \cup CommandPC] /\ mine' \in [Proc -> AttemptId]
    BY <1>1, <1>2, <1>3 DEF Cancel, LocalType, Goto, CommandPC
  <2> QED BY <1>1, <1>3, <2>1, <2>2 DEF Cancel, TypeOK
<1>4. CASE FailBackgroundJob(p)
  <2>1. builder' \in BuildState
    BY <1>1, <1>4, SetFailureEffect, SwapEffect DEF FailBackgroundJob
  <2>2. pc' \in [Proc -> {"idle"} \cup DriverPC \cup CommandPC] /\ mine' \in [Proc -> AttemptId]
    BY <1>1, <1>2, <1>4 DEF FailBackgroundJob, LocalType, Goto, CommandPC
  <2> QED BY <1>1, <1>4, <2>1, <2>2 DEF FailBackgroundJob, TypeOK
<1>5. CASE CancelFinish(p)
  <2>1. record' \in Records /\ LocalType'
    BY <1>1, <1>2, <1>5, FinishedEffect, LeaveType DEF CancelFinish, AttemptStatus
  <2> QED BY <1>1, <1>5, <2>1 DEF CancelFinish, TypeOK, LocalType, Records
<1>6. CASE FailFinish(p)
  <2>1. record' \in Records /\ LocalType'
    BY <1>1, <1>2, <1>6, FinishedEffect, LeaveType DEF FailFinish, AttemptStatus
  <2> QED BY <1>1, <1>6, <2>1 DEF FailFinish, TypeOK, LocalType, Records
<1>7. CASE RecoverInterrupted(p)
  <2>1. spent' \in [DOMAIN Budget -> Nat]
    BY <1>1, <1>7, SpendType DEF RecoverInterrupted, TypeOK, Budget
  <2> QED BY <1>1, <1>2, <1>7, <2>1 DEF RecoverInterrupted, TypeOK, Hold, Goto, CommandPC
<1>8. CASE RecoverFinish(p)
  <2>1. record' \in Records
    BY <1>1, <1>2, <1>8, FinishedEffect DEF RecoverFinish, AttemptStatus
  <2> QED BY <1>1, <1>8, <2>1 DEF RecoverFinish, TypeOK, Records, Goto, CommandPC
<1>9. CASE RecoverSwap(p)
  <2>1. builder' \in BuildState /\ LocalType'
    BY <1>1, <1>9, ClosedType, LeaveType DEF RecoverSwap, Current
  <2> QED BY <1>1, <1>9, <2>1 DEF RecoverSwap, TypeOK, LocalType
<1> QED BY <1>3, <1>4, <1>5, <1>6, <1>7, <1>8, <1>9 DEF Interrupt

\* Types survive every step, given the inductive invariant.
LEMMA TypeStep ==
    ASSUME Inv, [Next]_vars
    PROVE  TypeOK'
<1> USE DEF session, files, local
<1>1. TypeOK /\ LocalType
  BY LocalTypeOK DEF Inv
<1>2. CASE Command
  BY <1>2, CommandType
<1>3. ASSUME NEW p \in Proc, Resume(p) PROVE TypeOK'
  BY <1>1, <1>3 DEF Resume, TypeOK, Goto, Hold, DriverPC
<1>4. ASSUME NEW p \in Proc, Drive(p) PROVE TypeOK'
  BY <1>4, DriveType
<1>5. ASSUME NEW p \in Proc, Interrupt(p) PROVE TypeOK'
  BY <1>5, InterruptType
<1>6. ASSUME NEW p \in Proc, Crash(p) PROVE TypeOK'
  <2>1. spent' \in [DOMAIN Budget -> Nat]
    BY <1>1, <1>6, SpendType DEF Crash, TypeOK, Budget
  <2>2. LocalType'
    BY <1>1, <1>6, LeaveType DEF Crash
  <2> QED BY <1>1, <1>6, <2>1, <2>2 DEF Crash, TypeOK, LocalType
<1>7. CASE UNCHANGED vars
  BY <1>1, <1>7 DEF vars, TypeOK
<1> QED BY <1>2, <1>3, <1>4, <1>5, <1>6, <1>7 DEF Next

-----------------------------------------------------------------------------
(* The part of the invariant about builder.json and the attempt files *)

BuilderInv ==
    /\ OwnedAttempt /\ GatesHold /\ StagesInOrder
    /\ StatusFitsStage /\ AsksAboutAccepted /\ AttemptsInOrder

\* Attempt files are never removed and never change their stage.
FilesKept ==
    /\ started <= started'
    /\ \A c \in Attempt : c <= started /\ record[c].status # "absent" =>
        /\ record'[c].stage = record[c].stage
        /\ record'[c].status # "absent"

\* The fields of a well-typed Builder state that the invariant mentions.
LEMMA BuilderTypes ==
    ASSUME TypeOK
    PROVE  /\ builder.stage \in Stage /\ builder.status \in Status
           /\ builder.active \in AttemptId /\ builder.accepted \in [AgentStage -> AttemptId]
           /\ builder.version \in Nat /\ started \in Nat /\ builder.active \in Nat
           /\ \A s \in AgentStage : builder.accepted[s] \in Nat
<1>1. \A n \in AttemptId : n \in Nat
  BY DEF AttemptId
<1> QED BY <1>1, FieldTypes DEF TypeOK

\* builder.json is left alone.
LEMMA BuilderKept ==
    ASSUME TypeOK, BuilderInv, builder' = builder, FilesKept, started' \in AttemptId
    PROVE  BuilderInv'
<1>1. started' \in Nat /\ started <= started'
  BY DEF AttemptId, FilesKept
<1>2. OwnedAttempt'
  BY BuilderTypes, <1>1 DEF BuilderInv, OwnedAttempt, AttemptsInOrder, FilesKept, Attempt, AttemptId, None
<1>3. AttemptsInOrder'
  BY BuilderTypes, <1>1 DEF BuilderInv, AttemptsInOrder
<1>4. GatesHold' /\ StagesInOrder' /\ StatusFitsStage' /\ AsksAboutAccepted'
  BY DEF BuilderInv, GatesHold, StagesInOrder, StatusFitsStage, AsksAboutAccepted, Past
<1> QED BY <1>2, <1>3, <1>4 DEF BuilderInv

\* The build stops, or goes on, at the stage it is at.
LEMMA BuilderStopped ==
    ASSUME TypeOK, BuilderInv, FilesKept, started' = started,
           builder.stage # "ready",
           builder'.active = None,
           builder'.status \in {"running", "failed", "cancelled"},
           builder'.stage = builder.stage, builder'.accepted = builder.accepted,
           builder'.problemConfirmed = builder.problemConfirmed,
           builder'.schemaConfirmed = builder.schemaConfirmed
    PROVE  BuilderInv'
<1>1. OwnedAttempt' /\ StatusFitsStage' /\ AsksAboutAccepted'
  BY DEF BuilderInv, OwnedAttempt, StatusFitsStage, AsksAboutAccepted
<1>2. AttemptsInOrder'
  BY BuilderTypes DEF BuilderInv, AttemptsInOrder, None
<1>3. GatesHold' /\ StagesInOrder'
  BY DEF BuilderInv, GatesHold, StagesInOrder, Past
<1> QED BY <1>1, <1>2, <1>3 DEF BuilderInv

\* _mark_running takes the Session for an attempt younger than all others.
LEMMA BuilderBegins ==
    ASSUME TypeOK, BuilderInv, FilesKept, UNCHANGED <<record, started>>,
           builder.stage \in AgentStage, builder.status = "running",
           NEW a \in Attempt, a <= started,
           record[a].stage = builder.stage, record[a].status # "absent",
           \A s \in AgentStage : builder.accepted[s] < a,
           builder'.active = a, builder'.status = "running",
           builder'.stage = builder.stage, builder'.accepted = builder.accepted,
           builder'.problemConfirmed = builder.problemConfirmed,
           builder'.schemaConfirmed = builder.schemaConfirmed
    PROVE  BuilderInv'
<1>1. OwnedAttempt' /\ StatusFitsStage' /\ AsksAboutAccepted'
  BY DEF BuilderInv, OwnedAttempt, StatusFitsStage, AsksAboutAccepted
<1>2. AttemptsInOrder'
  BY BuilderTypes DEF BuilderInv, AttemptsInOrder, Attempt
<1>3. GatesHold' /\ StagesInOrder'
  BY DEF BuilderInv, GatesHold, StagesInOrder, Past
<1> QED BY <1>1, <1>2, <1>3 DEF BuilderInv

\* _accept: the attempt under way, younger than every accepted one, is accepted.
LEMMA BuilderAccepts ==
    ASSUME TypeOK, BuilderInv, UNCHANGED <<record, started>>,
           builder.stage \in AgentStage, builder.active # None,
           NEW o \in PossibleResults(builder.stage) \cup {"not_ok"},
           Swap(Accepted(builder, builder.active, o))
    PROVE  BuilderInv'
<1> DEFINE a == builder.active
           c == Accepted(builder, a, o)
<1>1. AcceptedOutcome(builder, a, c)
  BY BuilderTypes, AcceptedEffect DEF TypeOK
<1> USE DEF AcceptedOutcome
<1>2. /\ builder'.active = c.active /\ builder'.accepted = c.accepted
      /\ builder'.stage = c.stage /\ builder'.status = c.status
      /\ builder'.problemConfirmed = c.problemConfirmed
      /\ builder'.schemaConfirmed = c.schemaConfirmed
  BY <1>1, SwapEffect DEF TypeOK
<1> HIDE DEF c
<1>3. builder.status = "running" /\ \A s \in AgentStage : builder.accepted[s] < a
  BY DEF BuilderInv, OwnedAttempt, AttemptsInOrder
<1>4. /\ builder'.accepted[builder.stage] = a
      /\ \A s \in AgentStage : s # builder.stage => builder'.accepted[s] = builder.accepted[s]
  BY <1>1, <1>2, BuilderTypes
<1>5. OwnedAttempt' /\ StatusFitsStage'
  BY <1>1, <1>2, <1>3, AgentStageFacts DEF OwnedAttempt, StatusFitsStage
<1>6. AsksAboutAccepted'
  <2>1. builder'.status \in {"needs_problem_confirmation", "needs_schema_confirmation"}
          => builder'.stage = builder.stage
    BY <1>1, <1>2, <1>3
  <2>2. a # None /\ \A s \in AgentStage : Precedes(s, builder.stage) => s # builder.stage
    BY Positions, BuilderTypes DEF Precedes
  <2> QED BY <1>3, <1>4, <2>1, <2>2 DEF AsksAboutAccepted
<1>7. AttemptsInOrder'
  BY <1>1, <1>2, <1>4, BuilderTypes DEF BuilderInv, AttemptsInOrder, None
<1>8. /\ builder'.stage \in Stage
      /\ \/ builder'.stage = builder.stage
         \/ builder.stage = "schema_judge" /\ builder'.stage = "schema_build"
         \/ Follows(builder.stage, builder'.stage) /\ builder.stage \notin {"problem", "schema_judge"}
  BY <1>1, <1>2, BuilderTypes, StageFacts
<1>9. \A s \in AgentStage : Past(s)' => Past(s) \/ s = builder.stage
  <2>1. CASE builder'.stage = builder.stage
    BY <2>1 DEF Past
  <2>2. CASE builder.stage = "schema_judge" /\ builder'.stage = "schema_build"
    BY <2>2, StageFacts, AgentStageFacts DEF Past, Precedes
  <2>3. CASE Follows(builder.stage, builder'.stage)
    BY <2>3, Positions, BuilderTypes, AgentStageFacts, StageFacts DEF Past, Precedes, Follows
  <2> QED BY <1>8, <2>1, <2>2, <2>3
<1>10. GatesHold'
  <2>1. /\ Past("problem")' => Past("problem")
        /\ Past("schema_judge")' => Past("schema_judge")
    <3>1. CASE builder'.stage = builder.stage
      BY <3>1 DEF Past
    <3>2. CASE builder.stage = "schema_judge" /\ builder'.stage = "schema_build"
      BY <3>2, StageFacts DEF Past, Precedes
    <3>3. CASE Follows(builder.stage, builder'.stage) /\ builder.stage \notin {"problem", "schema_judge"}
      BY <1>9, <3>3, AgentStageFacts
    <3> QED BY <1>8, <3>1, <3>2, <3>3
  <2>2. Past("problem") => builder.stage # "problem"
    BY StageFacts DEF Past, Precedes
  <2>3. Past("schema_judge") => builder.stage \notin {"problem", "schema_judge"}
    BY StageFacts DEF Past, Precedes
  <2> QED BY <1>1, <1>2, <2>1, <2>2, <2>3 DEF BuilderInv, GatesHold
<1>11. StagesInOrder'
  <2>1. ASSUME NEW t \in AgentStage, Past(t)'
        PROVE  builder'.accepted[t] # None
    BY <1>3, <1>4, <1>9, <2>1, BuilderTypes DEF BuilderInv, StagesInOrder, None
  <2>2. ASSUME NEW s \in AgentStage, NEW t \in AgentStage, Past(t)', Precedes(s, t)
        PROVE  builder'.accepted[s] < builder'.accepted[t]
    <3>1. CASE t = builder.stage
      BY <1>3, <1>4, <2>2, <3>1, StageFacts, AgentStageFacts DEF Precedes
    <3>2. CASE t # builder.stage
      <4>1. Past(t) /\ s # builder.stage
        BY <1>9, <2>2, <3>2, StageFacts, AgentStageFacts, BuilderTypes DEF Past, Precedes
      <4> QED BY <1>4, <2>2, <3>2, <4>1 DEF BuilderInv, StagesInOrder
    <3> QED BY <3>1, <3>2
  <2> QED BY <2>1, <2>2 DEF StagesInOrder
<1> QED BY <1>5, <1>6, <1>7, <1>10, <1>11 DEF BuilderInv

\* _set_ready.
LEMMA BuilderPublishes ==
    ASSUME TypeOK, BuilderInv, UNCHANGED <<record, started>>,
           builder.status = "running", builder.stage = "finalize", Swap(Ready(builder))
    PROVE  BuilderInv'
<1>1. /\ builder'.stage = "ready" /\ builder'.status = "workspace_ready"
      /\ builder'.active = builder.active /\ builder'.accepted = builder.accepted
      /\ builder'.problemConfirmed = builder.problemConfirmed
      /\ builder'.schemaConfirmed = builder.schemaConfirmed
  BY ReadyEffect, SwapEffect DEF TypeOK
<1>2. builder.active = None
  <2>1. builder.active # None => record[builder.active].stage = "finalize"
    BY DEF BuilderInv, OwnedAttempt
  <2>2. builder.active # None => builder.active \in Attempt
    BY BuilderTypes DEF Attempt, AttemptId, None
  <2>3. \A a \in Attempt : record[a].stage \in AgentStage
    BY DEF TypeOK
  <2> QED BY <2>1, <2>2, <2>3, AgentStageFacts
<1>3. \A s \in AgentStage : Past(s)' => Past(s)
  BY <1>1, StageFacts, AgentStageFacts DEF Past, Precedes
<1>4. OwnedAttempt' /\ StatusFitsStage' /\ AsksAboutAccepted'
  BY <1>1, <1>2 DEF OwnedAttempt, StatusFitsStage, AsksAboutAccepted
<1>5. AttemptsInOrder'
  BY <1>1, <1>2, BuilderTypes DEF BuilderInv, AttemptsInOrder
<1>6. GatesHold' /\ StagesInOrder'
  BY <1>1, <1>3, AgentStageFacts DEF BuilderInv, GatesHold, StagesInOrder
<1> QED BY <1>4, <1>5, <1>6 DEF BuilderInv

\* An answer or a saved review moves the build to a stage that the stages left
\* behind and the one asked about cover.
LEMMA BuilderAnswered ==
    ASSUME TypeOK, BuilderInv, UNCHANGED <<record, started>>,
           builder.status \in {"needs_problem_confirmation", "needs_schema_confirmation"},
           builder'.active = builder.active, builder'.accepted = builder.accepted,
           builder'.stage \in AgentStage,
           \/ builder'.status = "running"
           \/ builder'.status = builder.status /\ builder'.stage = builder.stage,
           \A s \in AgentStage : Past(s)' => Past(s) \/ s = builder.stage,
           GatesHold'
    PROVE  BuilderInv'
<1>1. builder.active = None
  BY DEF BuilderInv, OwnedAttempt
<1>2. OwnedAttempt' /\ StatusFitsStage' /\ AsksAboutAccepted'
  BY <1>1, AgentStageFacts DEF BuilderInv, OwnedAttempt, StatusFitsStage, AsksAboutAccepted
<1>3. AttemptsInOrder'
  BY <1>1, BuilderTypes DEF BuilderInv, AttemptsInOrder
<1>4. StagesInOrder'
  BY DEF BuilderInv, AsksAboutAccepted, StagesInOrder
<1> QED BY <1>2, <1>3, <1>4 DEF BuilderInv

\* apply_plan: what precedes the restart point is kept, the rest forgotten.
LEMMA BuilderRestarts ==
    ASSUME TypeOK, BuilderInv, UNCHANGED <<record, started>>, builder.stage = "ready",
           NEW restart \in RestartPoint, Swap(Restarted(builder, restart))
    PROVE  BuilderInv'
<1> DEFINE kept == [s \in AgentStage |->
                      IF Precedes(s, restart) THEN builder.accepted[s] ELSE None]
<1>1. /\ builder'.stage = restart /\ builder'.status = "running" /\ builder'.active = None
      /\ builder'.accepted = kept
      /\ builder'.problemConfirmed = (builder.problemConfirmed /\ restart # "problem")
      /\ builder'.schemaConfirmed =
            (builder.schemaConfirmed /\ Precedes("schema_build", restart))
  BY RestartedEffect, SwapEffect DEF TypeOK
<1>2. \A s \in AgentStage : Past(s)
  BY AgentStageFacts, StageFacts DEF Past, Precedes
<1>3. \A s \in AgentStage : Past(s)' <=> Precedes(s, restart)
  BY <1>1 DEF Past
<1>4. OwnedAttempt' /\ StatusFitsStage' /\ AsksAboutAccepted'
  BY <1>1, RestartFacts DEF OwnedAttempt, StatusFitsStage, AsksAboutAccepted
<1>5. AttemptsInOrder'
  BY <1>1, BuilderTypes DEF BuilderInv, AttemptsInOrder, None
<1>6. GatesHold'
  <2>1. builder.problemConfirmed /\ builder.schemaConfirmed
    BY <1>2, AgentStageFacts DEF BuilderInv, GatesHold
  <2>2. Past("problem")' => restart # "problem"
    BY <1>3, AgentStageFacts DEF Precedes, Pos
  <2>3. Past("schema_judge")' => Precedes("schema_build", restart)
    BY <1>3, AgentStageFacts, StageFacts, RestartFacts DEF Precedes
  <2> QED BY <1>1, <2>1, <2>2, <2>3 DEF GatesHold
<1>7. StagesInOrder'
  <2>1. \A s, t \in AgentStage : Precedes(s, t) /\ Precedes(t, restart) => Precedes(s, restart)
    BY Positions, Values DEF Precedes
  <2>2. \A s \in AgentStage : Past(s)' => builder'.accepted[s] = builder.accepted[s]
    BY <1>1, <1>3
  <2> QED BY <1>2, <1>3, <2>1, <2>2 DEF BuilderInv, StagesInOrder
<1> QED BY <1>4, <1>5, <1>6, <1>7 DEF BuilderInv

\* Every command keeps the invariant of builder.json.
LEMMA CommandInv ==
    ASSUME Inv, Command
    PROVE  BuilderInv'
<1>1. TypeOK /\ BuilderInv /\ builder \in BuildState
  BY DEF Inv, BuilderInv, TypeOK
<1>2. UNCHANGED <<record, started>>
  BY CommandFrame
<1>3. /\ builder.status = "needs_problem_confirmation" => builder.stage = "problem"
      /\ builder.status = "needs_schema_confirmation" => builder.stage = "schema_judge"
  BY <1>1 DEF BuilderInv, StatusFitsStage
<1>4. ASSUME NEW x \in BuildState, Swap(x), x.status = "running",
             builder.status = "needs_problem_confirmation",
             x.active = builder.active, x.accepted = builder.accepted,
             \/ x.stage = "problem"
             \/ x.stage = "evidence" /\ x.problemConfirmed
      PROVE  BuilderInv'
  <2>1. /\ builder'.status = "running" /\ builder'.stage = x.stage
        /\ builder'.active = builder.active /\ builder'.accepted = builder.accepted
        /\ builder'.problemConfirmed = x.problemConfirmed
    BY <1>1, <1>4, SwapEffect
  <2>2. \A s \in AgentStage : Past(s)' => s = builder.stage
    BY <1>3, <1>4, <2>1, StageFacts, AgentStageFacts DEF Past, Precedes
  <2>3. GatesHold'
    BY <1>3, <1>4, <2>1, <2>2, StageFacts, AgentStageFacts DEF GatesHold, Past, Precedes
  <2>4. builder'.stage \in AgentStage
    BY <1>4, <2>1, AgentStageFacts
  <2> QED BY <1>1, <1>2, <1>4, <2>1, <2>2, <2>3, <2>4, BuilderAnswered
<1>5. ASSUME NEW x \in BuildState, Swap(x), x.status = "running",
             builder.status = "needs_schema_confirmation",
             x.active = builder.active, x.accepted = builder.accepted,
             x.problemConfirmed = builder.problemConfirmed,
             \/ x.stage \in {"schema_build", "schema_judge"}
             \/ x.stage = "extract" /\ x.schemaConfirmed
      PROVE  BuilderInv'
  <2>1. /\ builder'.status = "running" /\ builder'.stage = x.stage
        /\ builder'.active = builder.active /\ builder'.accepted = builder.accepted
        /\ builder'.schemaConfirmed = x.schemaConfirmed
        /\ builder'.problemConfirmed = builder.problemConfirmed
    BY <1>1, <1>5, SwapEffect
  <2>2. \A s \in AgentStage : Past(s)' => Past(s) \/ s = builder.stage
    BY <1>3, <1>5, <2>1, StageFacts, AgentStageFacts DEF Past, Precedes
  <2>3. builder.problemConfirmed
    BY <1>1, <1>3, <1>5, StageFacts, AgentStageFacts DEF BuilderInv, GatesHold, Past, Precedes
  <2>4. GatesHold'
    BY <1>5, <2>1, <2>3, StageFacts, AgentStageFacts DEF GatesHold, Past, Precedes
  <2>5. builder'.stage \in AgentStage
    BY <1>5, <2>1, AgentStageFacts
  <2> QED BY <1>1, <1>2, <1>5, <2>1, <2>2, <2>4, <2>5, BuilderAnswered
<1>6. CASE ConfirmProblem
  <2> DEFINE next == "evidence"
             answer == TRUE
             x == ProblemAnswered(builder, next, answer)
  <2>1. next \in Stage /\ answer \in BOOLEAN
    BY StageFacts
  <2>2. Swap(x) /\ builder.status = "needs_problem_confirmation"
    BY <1>6 DEF ConfirmProblem
  <2> HIDE DEF next, answer
  <2>3. /\ x \in BuildState /\ x.status = "running" /\ x.stage = next
        /\ x.active = builder.active /\ x.accepted = builder.accepted
        /\ x.problemConfirmed = answer /\ x.schemaConfirmed = builder.schemaConfirmed
    BY <1>1, <2>1, ProblemAnsweredEffect
  <2> HIDE DEF x
  <2>4. x.stage = "evidence" /\ x.problemConfirmed
    BY <2>3 DEF next, answer
  <2> QED BY <1>4, <2>2, <2>3, <2>4
<1>7. CASE ReviseProblem
  <2> DEFINE next == "problem"
             answer == FALSE
             x == ProblemAnswered(builder, next, answer)
  <2>1. next \in Stage /\ answer \in BOOLEAN
    BY StageFacts
  <2>2. Swap(x) /\ builder.status = "needs_problem_confirmation"
    BY <1>7 DEF ReviseProblem
  <2> HIDE DEF next, answer
  <2>3. /\ x \in BuildState /\ x.status = "running" /\ x.stage = next
        /\ x.active = builder.active /\ x.accepted = builder.accepted
        /\ x.problemConfirmed = answer /\ x.schemaConfirmed = builder.schemaConfirmed
    BY <1>1, <2>1, ProblemAnsweredEffect
  <2> HIDE DEF x
  <2>4. x.stage = "problem"
    BY <2>3 DEF next, answer
  <2> QED BY <1>4, <2>2, <2>3, <2>4
<1>8. CASE ConfirmSchema
  <2>1. CASE builder.revalidate
    <3> DEFINE next == "schema_judge"
               answer == FALSE
               x == SchemaAnswered(builder, next, answer)
    <3>1. next \in Stage /\ answer \in BOOLEAN
      BY StageFacts
    <3>2. Swap(x) /\ builder.status = "needs_schema_confirmation"
      BY <1>8, <2>1 DEF ConfirmSchema
    <3> HIDE DEF next, answer
    <3>3. /\ x \in BuildState /\ x.status = "running" /\ x.stage = next
          /\ x.active = builder.active /\ x.accepted = builder.accepted
          /\ x.schemaConfirmed = answer /\ x.problemConfirmed = builder.problemConfirmed
      BY <1>1, <3>1, SchemaAnsweredEffect
    <3> HIDE DEF x
    <3>4. x.stage = "schema_judge"
      BY <3>3 DEF next, answer
    <3> QED BY <1>5, <3>2, <3>3, <3>4
  <2>2. CASE ~builder.revalidate
    <3> DEFINE next == "extract"
               answer == TRUE
               x == SchemaAnswered(builder, next, answer)
    <3>1. next \in Stage /\ answer \in BOOLEAN
      BY StageFacts
    <3>2. Swap(x) /\ builder.status = "needs_schema_confirmation"
      BY <1>8, <2>2 DEF ConfirmSchema
    <3> HIDE DEF next, answer
    <3>3. /\ x \in BuildState /\ x.status = "running" /\ x.stage = next
          /\ x.active = builder.active /\ x.accepted = builder.accepted
          /\ x.schemaConfirmed = answer /\ x.problemConfirmed = builder.problemConfirmed
      BY <1>1, <3>1, SchemaAnsweredEffect
    <3> HIDE DEF x
    <3>4. x.stage = "extract" /\ x.schemaConfirmed
      BY <3>3 DEF next, answer
    <3> QED BY <1>5, <3>2, <3>3, <3>4
  <2> QED BY <2>1, <2>2
<1>9. CASE ReviseSchema
  <2> DEFINE next == "schema_build"
             answer == FALSE
             x == SchemaAnswered(builder, next, answer)
  <2>1. next \in Stage /\ answer \in BOOLEAN
    BY StageFacts
  <2>2. Swap(x) /\ builder.status = "needs_schema_confirmation"
    BY <1>9 DEF ReviseSchema
  <2> HIDE DEF next, answer
  <2>3. /\ x \in BuildState /\ x.status = "running" /\ x.stage = next
        /\ x.active = builder.active /\ x.accepted = builder.accepted
        /\ x.schemaConfirmed = answer /\ x.problemConfirmed = builder.problemConfirmed
    BY <1>1, <2>1, SchemaAnsweredEffect
  <2> HIDE DEF x
  <2>4. x.stage = "schema_build"
    BY <2>3 DEF next, answer
  <2> QED BY <1>5, <2>2, <2>3, <2>4
<1>10. CASE SaveProblemReview
  <2>1. /\ builder'.status = builder.status /\ builder'.stage = builder.stage
        /\ builder'.active = builder.active /\ builder'.accepted = builder.accepted
        /\ builder'.schemaConfirmed = builder.schemaConfirmed
        /\ builder.status = "needs_problem_confirmation"
    <3> DEFINE x == ProblemSaved(builder)
    <3>1. /\ x \in BuildState /\ x.status = builder.status /\ x.stage = builder.stage
          /\ x.active = builder.active /\ x.accepted = builder.accepted
          /\ x.schemaConfirmed = builder.schemaConfirmed
      BY <1>1, ProblemSavedEffect
    <3>2. Swap(x) /\ builder.status = "needs_problem_confirmation"
      BY <1>10 DEF SaveProblemReview
    <3> HIDE DEF x
    <3> QED BY <1>1, <3>1, <3>2, SwapEffect
  <2>2. ~Past("problem")' /\ (Past("schema_judge")' => Past("schema_judge"))
    BY <1>3, <2>1, StageFacts, AgentStageFacts DEF Past, Precedes
  <2>3. GatesHold'
    BY <1>1, <2>1, <2>2 DEF BuilderInv, GatesHold
  <2>4. \A s \in AgentStage : Past(s)' => Past(s)
    BY <2>1 DEF Past
  <2>5. builder'.stage \in AgentStage
    BY <1>3, <2>1, AgentStageFacts
  <2> QED BY <1>1, <1>2, <2>1, <2>3, <2>4, <2>5, BuilderAnswered
<1>11. CASE SaveSchemaReview
  <2>1. /\ builder'.status = builder.status /\ builder'.stage = builder.stage
        /\ builder'.active = builder.active /\ builder'.accepted = builder.accepted
        /\ builder'.problemConfirmed = builder.problemConfirmed
        /\ builder.status = "needs_schema_confirmation"
    <3>1. PICK changed \in BOOLEAN : Swap(SchemaSaved(builder, changed))
      BY <1>11 DEF SaveSchemaReview
    <3> DEFINE x == SchemaSaved(builder, changed)
    <3>2. /\ x \in BuildState /\ x.status = builder.status /\ x.stage = builder.stage
          /\ x.active = builder.active /\ x.accepted = builder.accepted
          /\ x.problemConfirmed = builder.problemConfirmed
      BY <1>1, SchemaSavedEffect
    <3>3. Swap(x) /\ builder.status = "needs_schema_confirmation"
      BY <1>11, <3>1 DEF SaveSchemaReview
    <3> HIDE DEF x
    <3> QED BY <1>1, <3>2, <3>3, SwapEffect
  <2>2. ~Past("schema_judge")' /\ (Past("problem")' => Past("problem"))
    BY <1>3, <2>1, StageFacts, AgentStageFacts DEF Past, Precedes
  <2>3. GatesHold'
    BY <1>1, <2>1, <2>2 DEF BuilderInv, GatesHold
  <2>4. \A s \in AgentStage : Past(s)' => Past(s)
    BY <2>1 DEF Past
  <2>5. builder'.stage \in AgentStage
    BY <1>3, <2>1, AgentStageFacts
  <2> QED BY <1>1, <1>2, <2>1, <2>3, <2>4, <2>5, BuilderAnswered
<1>12. CASE Retry
  <2>1. builder.stage # "ready" /\ FilesKept /\ started' = started
    BY <1>1, <1>2, <1>12, BuilderTypes DEF Retry, BuilderInv, StatusFitsStage, FilesKept
  <2>2. /\ builder'.status = "running" /\ builder'.active = None
        /\ builder'.stage = builder.stage /\ builder'.accepted = builder.accepted
        /\ builder'.problemConfirmed = builder.problemConfirmed
        /\ builder'.schemaConfirmed = builder.schemaConfirmed
    BY <1>1, <1>12, RestoredEffect, SwapEffect DEF Retry
  <2> QED BY <1>1, <2>1, <2>2, BuilderStopped
<1>13. CASE FollowUp
  <2>1. PICK restart \in RestartPoint : Swap(Restarted(builder, restart))
    BY <1>13, SubmittedType, PlanRestartsFacts DEF FollowUp
  <2>2. builder.stage = "ready"
    BY <1>13 DEF FollowUp
  <2> QED BY <1>1, <1>2, <2>1, <2>2, BuilderRestarts
<1> QED BY <1>6, <1>7, <1>8, <1>9, <1>10, <1>11, <1>12, <1>13 DEF Command

-----------------------------------------------------------------------------
(* The part of the invariant about processes *)

\* The version never repeats.
Versioned == builder' = builder \/ builder'.version = builder.version + 1

LocalKept(q) ==
    /\ pc'[q] = pc[q] /\ snap'[q] = snap[q]
    /\ mine'[q] = mine[q] /\ outcome'[q] = outcome[q]

\* A step of somebody else does not change what a process knows.
LEMMA Untouched ==
    ASSUME Inv, FilesKept, Versioned, started' \in AttemptId, NEW q \in Proc, LocalKept(q)
    PROVE  /\ KnowsItsAttempt(q)'
           /\ pc'[q] \in Holders => VersionedCopy(snap[q])'
<1>1. TypeOK /\ KnowsItsAttempt(q)
  BY DEF Inv
<1>2. /\ mine[q] # None => mine[q] \in Attempt
      /\ mine[q] \in Nat /\ started \in Nat /\ started' \in Nat
  BY <1>1 DEF TypeOK, Attempt, AttemptId, None
<1>3. pc[q] = "recorded" =>
        /\ mine[q] # None /\ mine[q] <= started'
        /\ record'[mine[q]].stage = snap[q].stage
        /\ record'[mine[q]].status # "absent"
  BY <1>1, <1>2 DEF KnowsItsAttempt, FilesKept
<1>4. KnowsItsAttempt(q)'
  BY <1>1, <1>3 DEF KnowsItsAttempt, LocalKept
<1>5. pc[q] \in Holders => VersionedCopy(snap[q])
  BY DEF Inv, SnapshotsAreVersioned
<1>6. snap[q] \in BuildState /\ builder \in BuildState
  BY <1>1 DEF TypeOK
<1>7. /\ snap[q].version \in Nat /\ builder.version \in Nat
      /\ \A s \in AgentStage : snap[q].accepted[s] \in Nat
  BY <1>6, FieldTypes DEF AttemptId
<1>8. started <= started'
  BY DEF FilesKept
<1>9. pc'[q] \in Holders => VersionedCopy(snap[q])'
  BY <1>2, <1>5, <1>7, <1>8 DEF Versioned, LocalKept, VersionedCopy
<1> QED BY <1>4, <1>9

\* One process moves.
LEMMA ProcessStep ==
    ASSUME Inv, TypeOK', BuilderInv', FilesKept, Versioned, NEW p \in Proc,
           \A q \in Proc \ {p} : LocalKept(q),
           pc'[p] \in Holders => \/ snap'[p] = builder'
                                 \/ snap'[p] = snap[p] /\ pc[p] \in Holders,
           KnowsItsAttempt(p)'
    PROVE  Inv'
<1>1. started' \in AttemptId
  BY DEF TypeOK
<1>2. /\ builder \in BuildState /\ builder' \in BuildState /\ snap[p] \in BuildState
      /\ started \in Nat /\ started' \in Nat
  BY DEF Inv, TypeOK, AttemptId
<1>3. /\ builder.version \in Nat /\ builder'.version \in Nat /\ snap[p].version \in Nat
      /\ \A s \in AgentStage : snap[p].accepted[s] \in Nat
  BY <1>2, FieldTypes DEF AttemptId
<1>4. pc'[p] \in Holders => VersionedCopy(snap[p])'
  <2>1. CASE snap'[p] = builder'
    BY <1>3, <2>1 DEF BuilderInv, AttemptsInOrder, VersionedCopy
  <2>2. CASE snap'[p] = snap[p] /\ pc[p] \in Holders
    <3>1. VersionedCopy(snap[p]) /\ started <= started'
      BY <2>2 DEF Inv, SnapshotsAreVersioned, FilesKept
    <3> QED BY <1>2, <1>3, <2>2, <3>1 DEF Versioned, VersionedCopy
  <2> QED BY <2>1, <2>2
<1>7. \A q \in Proc \ {p} :
        KnowsItsAttempt(q)' /\ (pc'[q] \in Holders => VersionedCopy(snap[q])')
  BY <1>1, Untouched
<1>5. SnapshotsAreVersioned'
  BY <1>4, <1>7 DEF SnapshotsAreVersioned
<1>6. \A q \in Proc : KnowsItsAttempt(q)'
  BY <1>7
<1> QED BY <1>5, <1>6 DEF Inv, BuilderInv

\* A process that leaves knows nothing, and the others do not notice.
LEMMA LeaveStep ==
    ASSUME Inv, TypeOK', BuilderInv', FilesKept, Versioned, NEW p \in Proc, Leave(p)
    PROVE  Inv'
<1>1. pc'[p] = "idle" /\ \A q \in Proc \ {p} : LocalKept(q)
  BY DEF Inv, TypeOK, Leave, LocalKept
<1>2. KnowsItsAttempt(p)'
  BY <1>1 DEF KnowsItsAttempt, CommandPC
<1>3. pc'[p] \notin Holders
  BY <1>1 DEF Holders, DriverPC
<1> QED BY <1>1, <1>2, <1>3, ProcessStep

\* The Builder state is closed by SetFailure, or left as it is.
LEMMA ClosedInv ==
    ASSUME Inv, NEW P \in BOOLEAN, P => builder.stage # "ready",
           IF P THEN Swap(SetFailure(builder)) ELSE UNCHANGED builder,
           FilesKept, started' = started
    PROVE  BuilderInv' /\ Versioned
<1>1. TypeOK /\ BuilderInv /\ builder \in BuildState /\ started' \in AttemptId
  BY DEF Inv, BuilderInv, TypeOK
<1>2. CASE P
  <2>1. /\ builder'.status = "failed" /\ builder'.active = None
        /\ builder'.stage = builder.stage /\ builder'.accepted = builder.accepted
        /\ builder'.problemConfirmed = builder.problemConfirmed
        /\ builder'.schemaConfirmed = builder.schemaConfirmed
        /\ builder'.version = builder.version + 1
    BY <1>1, <1>2, SetFailureEffect, SwapEffect
  <2> QED BY <1>1, <1>2, <2>1, BuilderStopped DEF Versioned
<1>3. CASE ~P
  BY <1>1, <1>3, BuilderKept DEF Versioned
<1> QED BY <1>2, <1>3

\* What the invariant says of a process in a given place, before it moves.
LEMMA Holding ==
    ASSUME Inv, NEW p \in Proc
    PROVE  /\ TypeOK /\ BuilderInv /\ builder \in BuildState /\ snap[p] \in BuildState
           /\ record \in Records /\ mine[p] \in AttemptId /\ started \in AttemptId
           /\ pc[p] \in Holders => VersionedCopy(snap[p])
           /\ pc[p] \in Holders /\ Current(p) => snap[p] = builder
           /\ KnowsItsAttempt(p)
BY DEF Inv, BuilderInv, TypeOK, Records, SnapshotsAreVersioned, VersionedCopy, Current

\* Attempt files after Finished, or untouched.
LEMMA FilesKeptFacts ==
    ASSUME Inv, started' = started
    PROVE  /\ record' = record => FilesKept
           /\ \A a \in AttemptId, status \in AttemptStatus \ {"absent"} :
                record' = Finished(a, status) => FilesKept
<1>1. record \in Records /\ started <= started'
  BY DEF Inv, TypeOK, Records, AttemptId
<1> QED BY <1>1, FinishedEffect DEF FilesKept

\* Every step of a driving process keeps the inductive invariant.
LEMMA DriveInv ==
    ASSUME Inv, TypeOK', NEW p \in Proc, Drive(p)
    PROVE  Inv'
<1> USE DEF session, files, local
<1>1. /\ TypeOK /\ BuilderInv /\ builder \in BuildState /\ snap[p] \in BuildState
      /\ record \in Records /\ mine[p] \in AttemptId /\ started \in AttemptId
      /\ KnowsItsAttempt(p) /\ started' \in AttemptId
  BY Holding DEF TypeOK
<1>2. /\ builder.status = "running" => builder.stage # "ready"
      /\ pc \in [Proc -> {"idle"} \cup DriverPC \cup CommandPC]
  BY <1>1 DEF BuilderInv, StatusFitsStage, TypeOK
<1>3. CASE LeaveLoop(p)
  <2>1. FilesKept /\ Versioned /\ BuilderInv'
    BY <1>1, <1>3, FilesKeptFacts, BuilderKept DEF LeaveLoop, Versioned
  <2> QED BY <1>3, <2>1, LeaveStep DEF LeaveLoop
<1>4. CASE FailRevisionLimit(p)
  <2>1. Current(p) => builder.stage # "ready"
    BY <1>4, Holding DEF FailRevisionLimit, LimitReached, Holders, DriverPC
  <2>2. FilesKept /\ started' = started
    BY <1>4, FilesKeptFacts DEF FailRevisionLimit
  <2>3. BuilderInv' /\ Versioned
    BY <1>4, <2>1, <2>2, ClosedInv DEF FailRevisionLimit, Current
  <2> QED BY <1>4, <2>2, <2>3, LeaveStep DEF FailRevisionLimit
<1>5. CASE FailPreflight(p)
  <2>1. FilesKept /\ started' = started
    BY <1>5, FilesKeptFacts DEF FailPreflight
  <2>2. BuilderInv' /\ Versioned
    BY <1>2, <1>5, <2>1, ClosedInv DEF FailPreflight
  <2> QED BY <1>5, <2>1, <2>2, LeaveStep DEF FailPreflight
<1>6. CASE StartAttempt(p)
  <2>1. started + 1 \in Attempt /\ started \in Nat
    BY <1>1, <1>6 DEF StartAttempt, InputsLeft, Attempt, AttemptId
  <2>2. /\ snap[p].stage \in AgentStage /\ started' = started + 1
        /\ record' = [record EXCEPT ![started + 1] = [stage |-> snap[p].stage, status |-> "running"]]
    BY <1>6 DEF StartAttempt
  <2>3. /\ record'[started + 1].stage = snap[p].stage
        /\ record'[started + 1].status = "running"
        /\ \A c \in Attempt : c # started + 1 => record'[c] = record[c]
    BY <1>1, <2>1, <2>2, RecordedEffect
  <2>4. FilesKept
    BY <2>1, <2>2, <2>3 DEF FilesKept
  <2>5. BuilderInv' /\ Versioned
    BY <1>1, <1>6, <2>4, BuilderKept DEF StartAttempt, Versioned
  <2>6. VersionedCopy(snap[p])
    BY <1>6, Holding DEF StartAttempt, Holders, DriverPC
  <2>7. \A s \in AgentStage : snap[p].accepted[s] < started + 1
    <3>1. \A s \in AgentStage : snap[p].accepted[s] \in Nat
      BY <1>1, FieldTypes DEF AttemptId
    <3> QED BY <2>1, <2>6, <3>1 DEF VersionedCopy
  <2>8. pc'[p] = "recorded" /\ mine'[p] = started + 1 /\ snap' = snap /\ outcome' = outcome
        /\ \A q \in Proc \ {p} : LocalKept(q)
    BY <1>1, <1>6 DEF StartAttempt, TypeOK, Goto, LocalKept
  <2>9. KnowsItsAttempt(p)'
    BY <1>6, <2>1, <2>2, <2>3, <2>7, <2>8 DEF StartAttempt, KnowsItsAttempt, CommandPC, None, Attempt
  <2>10. pc[p] \in Holders
    BY <1>6 DEF StartAttempt, Holders, DriverPC
  <2> QED BY <2>4, <2>5, <2>8, <2>9, <2>10, ProcessStep
<1>7. CASE MarkRunning(p)
  <2>1. pc[p] = "recorded" /\ started' = started
    BY <1>7 DEF MarkRunning
  <2>2. CASE Current(p)
    <3>1. snap[p] = builder
      BY <2>1, <2>2, Holding DEF Holders, DriverPC
    <3>2. /\ mine[p] # None /\ mine[p] <= started
          /\ record[mine[p]].stage = builder.stage /\ record[mine[p]].status # "absent"
          /\ builder.status = "running" /\ builder.stage \in AgentStage
          /\ \A s \in AgentStage : builder.accepted[s] < mine[p]
      BY <1>1, <2>1, <3>1 DEF KnowsItsAttempt
    <3>3. mine[p] \in Attempt
      BY <1>1, <3>2 DEF Attempt, AttemptId, None
    <3>4. /\ Swap(Running(builder, mine[p])) /\ Hold(p, builder') /\ Goto(p, "agent")
          /\ UNCHANGED <<record, started, mine, outcome>>
      BY <1>7, <2>2 DEF MarkRunning
    <3>5. /\ builder'.active = mine[p] /\ builder'.status = "running"
          /\ builder'.stage = builder.stage /\ builder'.accepted = builder.accepted
          /\ builder'.problemConfirmed = builder.problemConfirmed
          /\ builder'.schemaConfirmed = builder.schemaConfirmed
          /\ Versioned
      BY <1>1, <3>4, RunningEffect, SwapEffect DEF Versioned
    <3>6. FilesKept
      BY <3>4, FilesKeptFacts
    <3>7. BuilderInv'
      BY <1>1, <3>2, <3>3, <3>4, <3>5, <3>6, BuilderBegins
    <3>8. /\ pc'[p] = "agent" /\ snap'[p] = builder' /\ mine'[p] = mine[p]
          /\ \A q \in Proc \ {p} : LocalKept(q)
      BY <1>1, <3>4 DEF TypeOK, Goto, Hold, LocalKept
    <3>9. KnowsItsAttempt(p)'
      BY <3>2, <3>5, <3>8 DEF KnowsItsAttempt, CommandPC
    <3> QED BY <3>5, <3>6, <3>7, <3>8, <3>9, ProcessStep
  <2>3. CASE ~Current(p)
    <3>1. record' = Finished(mine[p], "failed") /\ Leave(p) /\ builder' = builder
      BY <1>7, <2>3 DEF MarkRunning
    <3>2. FilesKept
      BY <1>1, <2>1, <3>1, FilesKeptFacts DEF AttemptStatus
    <3>3. BuilderInv' /\ Versioned
      BY <1>1, <3>1, <3>2, BuilderKept DEF Versioned
    <3> QED BY <3>1, <3>2, <3>3, LeaveStep
  <2> QED BY <2>2, <2>3
<1>8. CASE AgentReturns(p)
  <2>1. FilesKept /\ Versioned /\ BuilderInv'
    BY <1>1, <1>8, FilesKeptFacts, BuilderKept DEF AgentReturns, Versioned
  <2>2. pc[p] = "agent" /\ snap' = snap /\ mine' = mine /\ \A q \in Proc \ {p} : LocalKept(q)
    BY <1>1, <1>8 DEF AgentReturns, TypeOK, Goto, LocalKept
  <2>3. /\ pc'[p] \in {"failing", "install", "accept", "publish"}
        /\ pc'[p] = "failing" => outcome'[p] \in Exceptions
        /\ pc'[p] # "failing" => outcome'[p] \in PossibleResults(snap[p].stage) \cup {"not_ok"}
    BY <1>1, <1>8 DEF AgentReturns, TypeOK, Goto, Exceptions
  <2>4. KnowsItsAttempt(p)'
    BY <1>1, <2>2, <2>3 DEF KnowsItsAttempt, CommandPC
  <2>5. pc[p] \in Holders
    BY <2>2 DEF Holders, DriverPC
  <2> QED BY <2>1, <2>2, <2>4, <2>5, ProcessStep
<1>9. CASE InstallBaseline(p)
  <2>1. FilesKept /\ Versioned /\ BuilderInv'
    BY <1>1, <1>9, FilesKeptFacts, BuilderKept DEF InstallBaseline, Versioned
  <2>2. /\ pc[p] = "install" /\ snap' = snap /\ mine' = mine
        /\ \A q \in Proc \ {p} : LocalKept(q)
        /\ \/ pc'[p] = "publish" /\ outcome' = outcome
           \/ pc'[p] = "failing" /\ outcome'[p] = "permanent"
    BY <1>1, <1>9 DEF InstallBaseline, TypeOK, Goto, LocalKept
  <2>3. KnowsItsAttempt(p)'
    BY <1>1, <2>2 DEF KnowsItsAttempt, CommandPC, Exceptions
  <2>4. pc[p] \in Holders
    BY <2>2 DEF Holders, DriverPC
  <2> QED BY <2>1, <2>2, <2>3, <2>4, ProcessStep
<1>10. CASE PublishResult(p)
  <2>1. FilesKept /\ Versioned /\ BuilderInv'
    BY <1>1, <1>10, FilesKeptFacts, BuilderKept DEF PublishResult, Versioned
  <2>2. /\ pc[p] = "publish" /\ snap' = snap /\ mine' = mine
        /\ \A q \in Proc \ {p} : LocalKept(q)
        /\ \/ pc'[p] = "accept" /\ outcome' = outcome
           \/ pc'[p] = "failing" /\ outcome'[p] = "permanent"
    BY <1>1, <1>10 DEF PublishResult, TypeOK, Goto, LocalKept
  <2>3. KnowsItsAttempt(p)'
    BY <1>1, <2>2 DEF KnowsItsAttempt, CommandPC, Exceptions
  <2>4. pc[p] \in Holders
    BY <2>2 DEF Holders, DriverPC
  <2> QED BY <2>1, <2>2, <2>3, <2>4, ProcessStep
<1>11. CASE Accept(p)
  <2>1. pc[p] = "accept" /\ FilesKept /\ UNCHANGED <<record, started, mine>>
    BY <1>11, FilesKeptFacts DEF Accept
  <2>2. CASE Current(p)
    <3>1. snap[p] = builder
      BY <2>1, <2>2, Holding DEF Holders, DriverPC
    <3>2. /\ builder.active = mine[p] /\ mine[p] # None /\ builder.stage \in AgentStage
          /\ outcome[p] \in PossibleResults(builder.stage) \cup {"not_ok"}
      BY <1>1, <2>1, <3>1 DEF KnowsItsAttempt
    <3>3. /\ Swap(Accepted(builder, mine[p], outcome[p])) /\ Hold(p, builder')
          /\ Goto(p, "finish") /\ UNCHANGED outcome
      BY <1>11, <2>2 DEF Accept
    <3>4. BuilderInv'
      BY <1>1, <2>1, <3>2, <3>3, BuilderAccepts
    <3>5. Versioned
      BY <1>1, <3>2, <3>3, AcceptedEffect, SwapEffect DEF AcceptedOutcome, Versioned
    <3>6. /\ pc'[p] = "finish" /\ snap'[p] = builder' /\ mine'[p] = mine[p]
          /\ \A q \in Proc \ {p} : LocalKept(q)
      BY <1>1, <2>1, <3>3 DEF TypeOK, Goto, Hold, LocalKept
    <3>7. KnowsItsAttempt(p)'
      BY <3>2, <3>6 DEF KnowsItsAttempt, CommandPC
    <3> QED BY <2>1, <3>4, <3>5, <3>6, <3>7, ProcessStep
  <2>3. CASE ~Current(p)
    <3>1. builder' = builder /\ Versioned /\ BuilderInv'
      BY <1>1, <1>11, <2>1, <2>3, BuilderKept DEF Accept, Versioned
    <3>2. /\ pc'[p] = "failing" /\ outcome'[p] = "permanent" /\ snap' = snap /\ mine' = mine
          /\ \A q \in Proc \ {p} : LocalKept(q)
      BY <1>1, <1>11, <2>3 DEF Accept, TypeOK, Goto, LocalKept
    <3>3. KnowsItsAttempt(p)'
      BY <1>1, <2>1, <3>2 DEF KnowsItsAttempt, CommandPC, Exceptions
    <3>4. pc[p] \in Holders
      BY <2>1 DEF Holders, DriverPC
    <3> QED BY <2>1, <3>1, <3>2, <3>3, <3>4, ProcessStep
  <2> QED BY <2>2, <2>3

<1>12. CASE FinishAttempt(p)
  <2>1. pc[p] = "finish" /\ snap' = snap /\ builder' = builder /\ started' = started
    BY <1>12 DEF FinishAttempt
  <2>2. FilesKept
    BY <1>1, <1>12, <2>1, FilesKeptFacts DEF FinishAttempt, AttemptStatus
  <2>3. BuilderInv' /\ Versioned
    BY <1>1, <2>1, <2>2, BuilderKept DEF Versioned
  <2>4. /\ \A q \in Proc \ {p} : LocalKept(q)
        /\ \/ pc'[p] = "loop"
           \/ pc'[p] = "failing" /\ outcome'[p] = "permanent" /\ mine'[p] = mine[p]
    BY <1>1, <1>12 DEF FinishAttempt, TypeOK, Goto, LocalKept
  <2>5. KnowsItsAttempt(p)'
    BY <1>1, <2>1, <2>4 DEF KnowsItsAttempt, CommandPC, Exceptions
  <2>6. pc[p] \in Holders
    BY <2>1 DEF Holders, DriverPC
  <2> QED BY <2>1, <2>2, <2>3, <2>4, <2>5, <2>6, ProcessStep
<1>13. CASE FailAttempt(p)
  <2>1. /\ pc[p] = "failing" /\ snap' = snap /\ builder' = builder /\ started' = started
        /\ mine' = mine
    BY <1>13 DEF FailAttempt
  <2>2. FilesKept
    BY <1>1, <1>13, <2>1, FilesKeptFacts DEF FailAttempt, AttemptStatus
  <2>3. BuilderInv' /\ Versioned
    BY <1>1, <2>1, <2>2, BuilderKept DEF Versioned
  <2>4. /\ \A q \in Proc \ {p} : LocalKept(q)
        /\ pc'[p] = "mark_failed" /\ outcome'[p] \in {"cancelled", outcome[p]}
    BY <1>1, <1>13 DEF FailAttempt, TypeOK, Goto, LocalKept
  <2>5. KnowsItsAttempt(p)'
    BY <1>1, <2>1, <2>4 DEF KnowsItsAttempt, CommandPC, Exceptions
  <2>6. pc[p] \in Holders
    BY <2>1 DEF Holders, DriverPC
  <2> QED BY <2>1, <2>2, <2>3, <2>4, <2>5, <2>6, ProcessStep
<1>14. CASE MarkFailed(p)
  <2>1. /\ pc[p] = "mark_failed" /\ FilesKept /\ UNCHANGED <<record, started>>
        /\ Hold(p, builder')
    BY <1>14, FilesKeptFacts DEF MarkFailed
  <2>2. outcome[p] \in Exceptions /\ mine[p] # None
    BY <1>1, <2>1 DEF KnowsItsAttempt
  <2>3. BuilderInv' /\ Versioned
    <3>1. CASE Current(p) /\ builder.active = mine[p]
      <4>1. Swap(Failed(builder, outcome[p]))
        BY <1>14, <3>1 DEF MarkFailed
      <4>2. builder.stage # "ready"
        BY <1>1, <1>2, <2>2, <3>1 DEF BuilderInv, OwnedAttempt
      <4>3. /\ builder'.status \in {"failed", "cancelled"} /\ builder'.active = None
            /\ builder'.stage = builder.stage /\ builder'.accepted = builder.accepted
            /\ builder'.problemConfirmed = builder.problemConfirmed
            /\ builder'.schemaConfirmed = builder.schemaConfirmed
            /\ builder'.version = builder.version + 1
        BY <1>1, <2>2, <4>1, FailedEffect, SwapEffect
      <4> QED BY <1>1, <2>1, <4>2, <4>3, BuilderStopped DEF Versioned
    <3>2. CASE ~(Current(p) /\ builder.active = mine[p])
      BY <1>1, <1>14, <2>1, <3>2, BuilderKept DEF MarkFailed, Versioned
    <3> QED BY <3>1, <3>2
  <2>4. /\ snap'[p] = builder' /\ \A q \in Proc \ {p} : LocalKept(q)
        /\ \/ pc'[p] = "loop"
           \/ pc'[p] = "backoff" /\ mine'[p] = mine[p]
    BY <1>1, <1>14 DEF MarkFailed, TypeOK, Goto, Hold, LocalKept
  <2>5. KnowsItsAttempt(p)'
    BY <2>2, <2>4 DEF KnowsItsAttempt, CommandPC
  <2> QED BY <2>1, <2>3, <2>4, <2>5, ProcessStep
<1>15. CASE RetryTransient(p)
  <2>1. FilesKept /\ UNCHANGED <<record, started>>
    BY <1>15, FilesKeptFacts DEF RetryTransient
  <2>2. CASE Current(p) /\ builder.status = "failed" /\ builder.stage = record[mine[p]].stage
    <3>1. /\ Swap(Restored(builder)) /\ Hold(p, builder') /\ Goto(p, "loop")
          /\ mine' = [mine EXCEPT ![p] = None] /\ UNCHANGED outcome
      BY <1>15, <2>2 DEF RetryTransient
    <3>2. builder.stage # "ready"
      BY <1>1, <2>2 DEF BuilderInv, StatusFitsStage
    <3>3. /\ builder'.status = "running" /\ builder'.active = None
          /\ builder'.stage = builder.stage /\ builder'.accepted = builder.accepted
          /\ builder'.problemConfirmed = builder.problemConfirmed
          /\ builder'.schemaConfirmed = builder.schemaConfirmed
          /\ Versioned
      BY <1>1, <3>1, RestoredEffect, SwapEffect DEF Versioned
    <3>4. BuilderInv'
      BY <1>1, <2>1, <3>2, <3>3, BuilderStopped
    <3>5. pc'[p] = "loop" /\ snap'[p] = builder' /\ \A q \in Proc \ {p} : LocalKept(q)
      BY <1>1, <3>1 DEF TypeOK, Goto, Hold, LocalKept
    <3>6. KnowsItsAttempt(p)'
      BY <3>5 DEF KnowsItsAttempt, CommandPC
    <3> QED BY <2>1, <3>3, <3>4, <3>5, <3>6, ProcessStep
  <2>3. CASE ~(Current(p) /\ builder.status = "failed" /\ builder.stage = record[mine[p]].stage)
    <3>1. Leave(p) /\ builder' = builder
      BY <1>15, <2>3 DEF RetryTransient
    <3>2. BuilderInv' /\ Versioned
      BY <1>1, <2>1, <3>1, BuilderKept DEF Versioned
    <3> QED BY <2>1, <3>1, <3>2, LeaveStep
  <2> QED BY <2>2, <2>3
<1>16. CASE PublishWorkspace(p)
  <2>1. /\ pc[p] = "loop" /\ snap[p].status = "running" /\ snap[p].stage = "finalize"
        /\ snap[p].schemaConfirmed /\ FilesKept /\ UNCHANGED <<record, started>>
    BY <1>16, FilesKeptFacts DEF PublishWorkspace
  <2>2. pc[p] \in Holders
    BY <2>1 DEF Holders, DriverPC
  <2>3. CASE Goto(p, "set_ready") /\ UNCHANGED <<builder, snap, mine, outcome, tries>>
    <3>1. BuilderInv' /\ Versioned
      BY <1>1, <2>1, <2>3, BuilderKept DEF Versioned
    <3>2. pc'[p] = "set_ready" /\ snap' = snap /\ \A q \in Proc \ {p} : LocalKept(q)
      BY <1>1, <2>3 DEF TypeOK, Goto, LocalKept
    <3>3. KnowsItsAttempt(p)'
      BY <2>1, <3>2 DEF KnowsItsAttempt, CommandPC
    <3> QED BY <2>1, <2>2, <3>1, <3>2, <3>3, ProcessStep
  <2>4. CASE /\ IF Current(p) THEN Swap(SetFailure(builder)) ELSE UNCHANGED builder
             /\ Leave(p)
    <3>1. Current(p) => builder.stage # "ready"
      BY <2>1, <2>2, Holding
    <3>2. BuilderInv' /\ Versioned
      BY <2>1, <2>4, <3>1, ClosedInv DEF Current
    <3> QED BY <2>1, <2>4, <3>2, LeaveStep
  <2> QED BY <1>16, <2>3, <2>4 DEF PublishWorkspace
<1>17. CASE SetReady(p)
  <2>1. pc[p] = "set_ready" /\ FilesKept /\ UNCHANGED <<record, started>> /\ Leave(p)
    BY <1>17, FilesKeptFacts DEF SetReady
  <2>2. CASE Current(p)
    <3>1. snap[p] = builder
      BY <2>1, <2>2, Holding DEF Holders, DriverPC
    <3>2. builder.status = "running" /\ builder.stage = "finalize" /\ Swap(Ready(builder))
      BY <1>1, <1>17, <2>1, <2>2, <3>1 DEF SetReady, KnowsItsAttempt
    <3>3. BuilderInv'
      BY <1>1, <2>1, <3>2, BuilderPublishes
    <3>4. Versioned
      BY <1>1, <3>2, ReadyEffect, SwapEffect DEF Versioned
    <3> QED BY <2>1, <3>3, <3>4, LeaveStep
  <2>3. CASE ~Current(p)
    <3>1. BuilderInv' /\ Versioned
      BY <1>1, <1>17, <2>1, <2>3, BuilderKept DEF SetReady, Versioned
    <3> QED BY <2>1, <3>1, LeaveStep
  <2> QED BY <2>2, <2>3
<1> QED
  BY <1>3, <1>4, <1>5, <1>6, <1>7, <1>8, <1>9, <1>10, <1>11, <1>12, <1>13, <1>14, <1>15,
     <1>16, <1>17 DEF Drive

\* Cancellation, background failure and recovery keep the inductive invariant.
LEMMA InterruptInv ==
    ASSUME Inv, TypeOK', NEW p \in Proc, Interrupt(p)
    PROVE  Inv'
<1> USE DEF session, files, local
<1>1. /\ TypeOK /\ BuilderInv /\ builder \in BuildState /\ snap[p] \in BuildState
      /\ record \in Records /\ mine[p] \in AttemptId /\ started \in AttemptId
      /\ KnowsItsAttempt(p) /\ started' \in AttemptId
  BY Holding DEF TypeOK
<1>2. builder.status = "running" => builder.stage # "ready"
  BY <1>1 DEF BuilderInv, StatusFitsStage
<1>3. CASE Cancel(p)
  <2>1. /\ pc[p] = "idle" /\ FilesKept /\ UNCHANGED <<record, started, snap, outcome>>
        /\ Swap(CancelledBuild(builder)) /\ builder.status \notin Terminal
    BY <1>3, FilesKeptFacts DEF Cancel
  <2>2. /\ builder'.status = "cancelled" /\ builder'.active = None
        /\ builder'.stage = builder.stage /\ builder'.accepted = builder.accepted
        /\ builder'.problemConfirmed = builder.problemConfirmed
        /\ builder'.schemaConfirmed = builder.schemaConfirmed
        /\ Versioned
    BY <1>1, <2>1, CancelledEffect, SwapEffect DEF Versioned
  <2>3. builder.stage # "ready"
    BY <1>1, <2>1 DEF BuilderInv, StatusFitsStage, Terminal
  <2>4. BuilderInv'
    BY <1>1, <2>1, <2>2, <2>3, BuilderStopped
  <2>5. /\ \A q \in Proc \ {p} : LocalKept(q)
        /\ \/ pc'[p] = "idle"
           \/ pc'[p] = "cancel_finish" /\ mine'[p] = builder.active /\ builder.active # None
    BY <1>1, <1>3 DEF Cancel, TypeOK, Goto, LocalKept
  <2>6. KnowsItsAttempt(p)' /\ pc'[p] \notin Holders
    BY <2>5 DEF KnowsItsAttempt, CommandPC, Holders, DriverPC
  <2> QED BY <2>1, <2>2, <2>4, <2>5, <2>6, ProcessStep
<1>4. CASE FailBackgroundJob(p)
  <2>1. /\ pc[p] = "idle" /\ FilesKept /\ UNCHANGED <<record, started, snap, outcome>>
        /\ Swap(SetFailure(builder)) /\ builder.status = "running"
    BY <1>4, FilesKeptFacts DEF FailBackgroundJob
  <2>2. /\ builder'.status = "failed" /\ builder'.active = None
        /\ builder'.stage = builder.stage /\ builder'.accepted = builder.accepted
        /\ builder'.problemConfirmed = builder.problemConfirmed
        /\ builder'.schemaConfirmed = builder.schemaConfirmed
        /\ Versioned
    BY <1>1, <2>1, SetFailureEffect, SwapEffect DEF Versioned
  <2>3. BuilderInv'
    BY <1>1, <1>2, <2>1, <2>2, BuilderStopped
  <2>4. /\ \A q \in Proc \ {p} : LocalKept(q)
        /\ \/ pc'[p] = "idle"
           \/ pc'[p] = "fail_finish" /\ mine'[p] = builder.active /\ builder.active # None
    BY <1>1, <1>4 DEF FailBackgroundJob, TypeOK, Goto, LocalKept
  <2>5. KnowsItsAttempt(p)' /\ pc'[p] \notin Holders
    BY <2>4 DEF KnowsItsAttempt, CommandPC, Holders, DriverPC
  <2> QED BY <2>1, <2>2, <2>3, <2>4, <2>5, ProcessStep
<1>5. CASE CancelFinish(p)
  <2>1. FilesKept /\ Leave(p)
    BY <1>1, <1>5, FilesKeptFacts DEF CancelFinish, AttemptStatus
  <2>2. BuilderInv' /\ Versioned
    BY <1>1, <1>5, <2>1, BuilderKept DEF CancelFinish, Versioned
  <2> QED BY <2>1, <2>2, LeaveStep
<1>6. CASE FailFinish(p)
  <2>1. FilesKept /\ Leave(p)
    BY <1>1, <1>6, FilesKeptFacts DEF FailFinish, AttemptStatus
  <2>2. BuilderInv' /\ Versioned
    BY <1>1, <1>6, <2>1, BuilderKept DEF FailFinish, Versioned
  <2> QED BY <2>1, <2>2, LeaveStep
<1>7. CASE RecoverInterrupted(p)
  <2>1. FilesKept /\ builder' = builder
    BY <1>7, FilesKeptFacts DEF RecoverInterrupted
  <2>2. BuilderInv' /\ Versioned
    BY <1>1, <2>1, BuilderKept DEF Versioned
  <2>3. /\ pc'[p] = "recover_finish" /\ snap'[p] = builder /\ mine'[p] = builder.active
        /\ builder.active # None /\ builder.status = "running"
        /\ \A q \in Proc \ {p} : LocalKept(q)
    BY <1>1, <1>7 DEF RecoverInterrupted, TypeOK, Goto, Hold, LocalKept
  <2>4. KnowsItsAttempt(p)'
    BY <2>3 DEF KnowsItsAttempt, CommandPC
  <2> QED BY <2>1, <2>2, <2>3, <2>4, ProcessStep
<1>8. CASE RecoverFinish(p)
  <2>1. /\ pc[p] = "recover_finish" /\ snap' = snap /\ mine' = mine /\ builder' = builder
        /\ started' = started
    BY <1>8 DEF RecoverFinish
  <2>2. FilesKept
    BY <1>1, <1>8, FilesKeptFacts DEF RecoverFinish, AttemptStatus
  <2>3. BuilderInv' /\ Versioned
    BY <1>1, <2>1, <2>2, BuilderKept DEF Versioned
  <2>4. pc'[p] = "recover_swap" /\ \A q \in Proc \ {p} : LocalKept(q)
    BY <1>1, <1>8 DEF RecoverFinish, TypeOK, Goto, LocalKept
  <2>5. KnowsItsAttempt(p)'
    BY <1>1, <2>1, <2>4 DEF KnowsItsAttempt, CommandPC
  <2>6. pc[p] \in Holders
    BY <2>1 DEF Holders
  <2> QED BY <2>1, <2>2, <2>3, <2>4, <2>5, <2>6, ProcessStep
<1>9. CASE RecoverSwap(p)
  <2>1. /\ pc[p] = "recover_swap" /\ FilesKept /\ started' = started /\ Leave(p)
        /\ IF Current(p) THEN Swap(SetFailure(builder)) ELSE UNCHANGED builder
    BY <1>9, FilesKeptFacts DEF RecoverSwap
  <2>2. Current(p) => builder.stage # "ready"
    <3>1. pc[p] \in Holders
      BY <2>1 DEF Holders
    <3> QED BY <1>1, <1>2, <2>1, <3>1, Holding DEF KnowsItsAttempt
  <2>3. BuilderInv' /\ Versioned
    BY <2>1, <2>2, ClosedInv DEF Current
  <2> QED BY <2>1, <2>3, LeaveStep
<1> QED BY <1>3, <1>4, <1>5, <1>6, <1>7, <1>8, <1>9 DEF Interrupt

\* A command moves no process.
LEMMA CommandStep ==
    ASSUME Inv, TypeOK', Command
    PROVE  Inv'
<1>1. UNCHANGED <<record, started, local>> /\ FilesKept /\ started' \in AttemptId
  BY CommandFrame, FilesKeptFacts DEF TypeOK
<1>2. BuilderInv'
  BY CommandInv
<1>3. Versioned
  BY CommandEffect, SwapEffect DEF Inv, TypeOK, Versioned
<1>4. \A q \in Proc : LocalKept(q)
  BY <1>1 DEF local, LocalKept
<1>5. \A q \in Proc : KnowsItsAttempt(q)' /\ (pc'[q] \in Holders => VersionedCopy(snap[q])')
  BY <1>1, <1>3, <1>4, Untouched
<1> QED BY <1>2, <1>5 DEF Inv, BuilderInv, SnapshotsAreVersioned

-----------------------------------------------------------------------------
(* The invariant holds *)

\* A new Session satisfies the inductive invariant.
LEMMA InvInit == Init => Inv
<1> SUFFICES ASSUME Init PROVE Inv
  OBVIOUS
<1>1. TypeOK
  <2>1. builder \in BuildState /\ snap \in [Proc -> BuildState]
    BY NewBuildType DEF Init
  <2>2. record \in [Attempt -> [stage : AgentStage, status : AttemptStatus]]
    BY AgentStageFacts DEF Init, NoRecord, AttemptStatus
  <2>3. workspace \in [facts : SUBSET Origin, readme : Origin \cup {None}]
    BY DEF Init, NoWorkspace
  <2> QED BY <2>1, <2>2, <2>3, Values DEF Init, TypeOK, AttemptId, Outcome, Results
<1>2. /\ builder.status = "running" /\ builder.stage = "problem" /\ builder.active = None
      /\ \A s \in AgentStage : builder.accepted[s] = None
  BY DEF Init, NewBuild
<1>3. \A s \in AgentStage : ~Past(s)
  BY <1>2, StageFacts, AgentStageFacts DEF Past, Precedes
<1>4. OwnedAttempt /\ GatesHold /\ StagesInOrder /\ StatusFitsStage /\ AsksAboutAccepted
  BY <1>2, <1>3, AgentStageFacts
     DEF OwnedAttempt, GatesHold, StagesInOrder, StatusFitsStage, AsksAboutAccepted
<1>5. AttemptsInOrder
  BY <1>2 DEF Init, AttemptsInOrder, None
<1>6. \A p \in Proc : pc[p] = "idle"
  BY DEF Init
<1>7. SnapshotsAreVersioned /\ \A p \in Proc : KnowsItsAttempt(p)
  BY <1>6 DEF SnapshotsAreVersioned, Holders, DriverPC, KnowsItsAttempt, CommandPC
<1> QED BY <1>1, <1>4, <1>5, <1>7 DEF Inv

\* Every step keeps the inductive invariant.
LEMMA InvStep == Inv /\ [Next]_vars => Inv'
<1> SUFFICES ASSUME Inv, [Next]_vars PROVE Inv'
  OBVIOUS
<1> USE DEF session, files, local
<1>1. TypeOK'
  BY TypeStep
<1>2. CASE Command
  BY <1>1, <1>2, CommandStep
<1>3. ASSUME NEW p \in Proc, Resume(p) PROVE Inv'
  <2>1. FilesKept /\ builder' = builder
    BY <1>3, FilesKeptFacts DEF Resume
  <2>2. BuilderInv' /\ Versioned
    BY <1>1, <2>1, Holding, BuilderKept DEF Versioned, TypeOK
  <2>3. pc'[p] = "loop" /\ snap'[p] = builder /\ \A q \in Proc \ {p} : LocalKept(q)
    BY <1>3 DEF Inv, Resume, TypeOK, Goto, Hold, LocalKept
  <2>4. KnowsItsAttempt(p)'
    BY <2>3 DEF KnowsItsAttempt, CommandPC
  <2> QED BY <1>1, <2>1, <2>2, <2>3, <2>4, ProcessStep
<1>4. ASSUME NEW p \in Proc, Drive(p) PROVE Inv'
  BY <1>1, <1>4, DriveInv
<1>5. ASSUME NEW p \in Proc, Interrupt(p) PROVE Inv'
  BY <1>1, <1>5, InterruptInv
<1>6. ASSUME NEW p \in Proc, Crash(p) PROVE Inv'
  <2>1. FilesKept /\ builder' = builder /\ Leave(p)
    BY <1>6, FilesKeptFacts DEF Crash
  <2>2. BuilderInv' /\ Versioned
    BY <1>1, <1>6, <2>1, Holding, BuilderKept DEF Versioned, TypeOK
  <2> QED BY <1>1, <2>1, <2>2, LeaveStep
<1>7. CASE UNCHANGED vars
  BY <1>7 DEF vars, Inv, TypeOK, OwnedAttempt, GatesHold, StagesInOrder, Past, StatusFitsStage,
     AsksAboutAccepted, AttemptsInOrder, SnapshotsAreVersioned, VersionedCopy, KnowsItsAttempt
<1> QED BY <1>2, <1>3, <1>4, <1>5, <1>6, <1>7 DEF Next

\* The inductive invariant holds of every behaviour, for any number of
\* processes, attempts, commands, crashes and recoveries.
THEOREM Invariance == Spec => []Inv
BY InvInit, InvStep, PTL DEF Spec

\* Every variable keeps its type.
THEOREM TypeCorrect == Spec => []TypeOK
<1>1. Inv => TypeOK
  BY DEF Inv
<1> QED BY <1>1, Invariance, PTL

\* The attempt that builder.json names has a file of the stage the build is at,
\* and only a running build names one, whoever drives and whoever interrupts.
THEOREM OwnedAttemptHolds == Spec => []OwnedAttempt
<1>1. Inv => OwnedAttempt
  BY DEF Inv
<1> QED BY <1>1, Invariance, PTL

\* No build passes a gate that the user has not opened.
THEOREM GatesAlwaysHold == Spec => []GatesHold
<1>1. Inv => GatesHold
  BY DEF Inv
<1> QED BY <1>1, Invariance, PTL

\* No accepted result is older than one it builds on.
THEOREM StagesStayInOrder == Spec => []StagesInOrder
<1>1. Inv => StagesInOrder
  BY DEF Inv
<1> QED BY <1>1, Invariance, PTL
=============================================================================
