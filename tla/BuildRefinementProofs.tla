----------------------- MODULE BuildRefinementProofs ------------------------
(***************************************************************************)
(* BuildLifecycle implements SequentialBuild, and cancellation is final.   *)
(* Both follow from one lemma, BuilderStep: whatever a process does with   *)
(* whatever copy it holds, builder.json is left alone or replaced in one   *)
(* of nine ways, each from a state that allows it.                         *)
(***************************************************************************)
EXTENDS BuildLifecycleProofs

-----------------------------------------------------------------------------
(* The ways in which builder.json is replaced *)

Begins ==
    /\ builder.status = "running" /\ builder.stage \in AgentStage /\ builder.active = None
    /\ ~LimitReached(builder)
    /\ \E a \in AttemptId \ {None} : Swap(Running(builder, a))

Delivers ==
    /\ builder.status = "running" /\ builder.stage \in AgentStage /\ builder.active # None
    /\ \E o \in PossibleResults(builder.stage) \cup {"not_ok"} :
          Swap(Accepted(builder, builder.active, o))

Stops ==
    \/ builder.status = "running" /\ Swap(SetFailure(builder))
    \/ builder.status = "running" /\ \E o \in Exceptions : Swap(Failed(builder, o))
    \/ builder.status \notin Terminal /\ Swap(CancelledBuild(builder))

GoesOn ==
    /\ builder.status \in {"failed", "cancelled"}
    /\ builder.status = "cancelled" => UserCommand
    /\ Swap(Restored(builder))

AnswersProblem ==
    /\ builder.status = "needs_problem_confirmation"
    /\ \/ Swap(ProblemAnswered(builder, "evidence", TRUE))
       \/ Swap(ProblemAnswered(builder, "problem", FALSE))

AnswersSchema ==
    /\ builder.status = "needs_schema_confirmation"
    /\ \/ Swap(SchemaAnswered(builder, "extract", TRUE))
       \/ Swap(SchemaAnswered(builder, "schema_judge", FALSE))
       \/ Swap(SchemaAnswered(builder, "schema_build", FALSE))

Saves ==
    \/ /\ builder.status = "needs_problem_confirmation"
       /\ Swap(ProblemSaved(builder))
    \/ /\ builder.status = "needs_schema_confirmation"
       /\ \E changed \in BOOLEAN : Swap(SchemaSaved(builder, changed))

Publishes ==
    /\ builder.status = "running" /\ builder.stage = "finalize" /\ builder.schemaConfirmed
    /\ Swap(Ready(builder))

FollowsUp ==
    /\ builder.status = "workspace_ready"
    /\ \E restart \in RestartPoint : Swap(Restarted(builder, restart))

\* What is not done by the driver of the attempt, as far as the state tells.
Turns == Stops \/ GoesOn \/ AnswersProblem \/ AnswersSchema \/ Saves \/ FollowsUp

Replacement == Begins \/ Delivers \/ Publishes \/ Turns

-----------------------------------------------------------------------------
(* Every step is one of them *)

\* A command that is counted is a user command.
LEMMA CommandCounts ==
    ASSUME TypeOK, Spend("commands")
    PROVE  UserCommand
<1>1. "commands" \in DOMAIN Budget
  BY DEF Budget
<1>2. spent \in [DOMAIN Budget -> Nat]
  BY DEF TypeOK
<1>3. spent' = [spent EXCEPT !["commands"] = @ + 1]
  BY DEF Spend
<1> HIDE DEF Budget
<1> QED BY <1>1, <1>2, <1>3 DEF UserCommand

\* What the commands do to builder.json.
LEMMA CommandReplaces ==
    ASSUME Inv, Command
    PROVE  Turns
<1>1. TypeOK
  BY DEF Inv
<1>2. CASE ConfirmProblem
  BY <1>2 DEF ConfirmProblem, AnswersProblem, Turns
<1>3. CASE ReviseProblem
  BY <1>3 DEF ReviseProblem, AnswersProblem, Turns
<1>4. CASE ConfirmSchema
  BY <1>4 DEF ConfirmSchema, AnswersSchema, Turns
<1>5. CASE ReviseSchema
  BY <1>5 DEF ReviseSchema, AnswersSchema, Turns
<1>6. CASE SaveProblemReview
  BY <1>6 DEF SaveProblemReview, Saves, Turns
<1>7. CASE SaveSchemaReview
  BY <1>7 DEF SaveSchemaReview, Saves, Turns
<1>8. CASE Retry
  BY <1>1, <1>8, CommandCounts DEF Retry, GoesOn, Turns
<1>9. CASE FollowUp
  <2>1. PICK restart \in RestartPoint : Swap(Restarted(builder, restart))
    BY <1>9, SubmittedType, PlanRestartsFacts DEF FollowUp
  <2> QED BY <1>9, <2>1 DEF FollowUp, FollowsUp, Turns
<1> QED BY <1>2, <1>3, <1>4, <1>5, <1>6, <1>7, <1>8, <1>9 DEF Command

\* What a driving process does to builder.json.
LEMMA DriveReplaces ==
    ASSUME Inv, NEW p \in Proc, Drive(p)
    PROVE  Replacement \/ builder' = builder
<1> USE DEF session, files, local
<1>1. /\ builder \in BuildState /\ mine[p] \in AttemptId
      /\ pc[p] \in Holders /\ Current(p) => snap[p] = builder
      /\ KnowsItsAttempt(p) /\ OwnedAttempt
  BY Holding DEF BuilderInv
<1>2. CASE LeaveLoop(p)
  BY <1>2 DEF LeaveLoop
<1>3. CASE FailRevisionLimit(p)
  BY <1>1, <1>3 DEF FailRevisionLimit, Holders, DriverPC, Stops, Replacement, Turns
<1>4. CASE FailPreflight(p)
  BY <1>4 DEF FailPreflight, Stops, Replacement, Turns
<1>5. CASE StartAttempt(p)
  BY <1>5 DEF StartAttempt
<1>6. CASE MarkRunning(p)
  <2>1. pc[p] = "recorded" /\ pc[p] \in Holders
    BY <1>6 DEF MarkRunning, Holders, DriverPC
  <2>2. CASE Current(p)
    <3>1. /\ snap[p] = builder /\ mine[p] \in AttemptId \ {None}
          /\ snap[p].status = "running" /\ snap[p].stage \in AgentStage
          /\ snap[p].active = None /\ ~LimitReached(snap[p])
      BY <1>1, <2>1, <2>2 DEF KnowsItsAttempt
    <3>2. Swap(Running(builder, mine[p]))
      BY <1>6, <2>2 DEF MarkRunning
    <3> QED BY <3>1, <3>2 DEF Begins, Replacement, Turns
  <2>3. CASE ~Current(p)
    BY <1>6, <2>3 DEF MarkRunning
  <2> QED BY <2>2, <2>3
<1>7. CASE AgentReturns(p)
  BY <1>7 DEF AgentReturns
<1>8. CASE InstallBaseline(p)
  BY <1>8 DEF InstallBaseline
<1>9. CASE PublishResult(p)
  BY <1>9 DEF PublishResult
<1>10. CASE Accept(p)
  <2>1. pc[p] = "accept" /\ pc[p] \in Holders
    BY <1>10 DEF Accept, Holders, DriverPC
  <2>2. CASE Current(p)
    <3>1. /\ snap[p] = builder /\ mine[p] # None
          /\ snap[p].active = mine[p] /\ snap[p].stage \in AgentStage
          /\ outcome[p] \in PossibleResults(snap[p].stage) \cup {"not_ok"}
      BY <1>1, <2>1, <2>2 DEF KnowsItsAttempt
    <3>2. builder.status = "running"
      BY <1>1, <3>1 DEF OwnedAttempt
    <3>3. Swap(Accepted(builder, mine[p], outcome[p]))
      BY <1>10, <2>2 DEF Accept
    <3> QED BY <3>1, <3>2, <3>3 DEF Delivers, Replacement, Turns
  <2>3. CASE ~Current(p)
    BY <1>10, <2>3 DEF Accept
  <2> QED BY <2>2, <2>3
<1>11. CASE FinishAttempt(p)
  BY <1>11 DEF FinishAttempt
<1>12. CASE FailAttempt(p)
  BY <1>12 DEF FailAttempt
<1>13. CASE MarkFailed(p)
  <2>1. pc[p] = "mark_failed" /\ mine[p] # None /\ outcome[p] \in Exceptions
    BY <1>1, <1>13 DEF MarkFailed, KnowsItsAttempt
  <2>2. CASE Current(p) /\ builder.active = mine[p]
    <3>1. Swap(Failed(builder, outcome[p]))
      BY <1>13, <2>2 DEF MarkFailed
    <3>2. builder.status = "running"
      BY <1>1, <2>1, <2>2 DEF OwnedAttempt
    <3> QED BY <2>1, <3>1, <3>2 DEF Stops, Replacement, Turns
  <2>3. CASE ~(Current(p) /\ builder.active = mine[p])
    BY <1>13, <2>3 DEF MarkFailed
  <2> QED BY <2>2, <2>3
<1>14. CASE RetryTransient(p)
  <2>1. builder' = builder \/ (builder.status = "failed" /\ Swap(Restored(builder)))
    BY <1>14 DEF RetryTransient
  <2> QED BY <2>1 DEF GoesOn, Replacement, Turns
<1>15. CASE PublishWorkspace(p)
  <2>1. pc[p] \in Holders /\ snap[p].status = "running"
    BY <1>15 DEF PublishWorkspace, Holders, DriverPC
  <2>2. builder' = builder \/ (Current(p) /\ Swap(SetFailure(builder)))
    BY <1>15 DEF PublishWorkspace
  <2> QED BY <1>1, <2>1, <2>2 DEF Stops, Replacement, Turns
<1>16. CASE SetReady(p)
  <2>1. pc[p] = "set_ready" /\ pc[p] \in Holders
    BY <1>16 DEF SetReady, Holders, DriverPC
  <2>2. builder' = builder \/ (Current(p) /\ Swap(Ready(builder)))
    BY <1>16 DEF SetReady
  <2>3. Current(p) => /\ builder.status = "running" /\ builder.stage = "finalize"
                      /\ builder.schemaConfirmed
    BY <1>1, <2>1 DEF KnowsItsAttempt
  <2> QED BY <2>2, <2>3 DEF Publishes, Replacement, Turns
<1> QED BY <1>2, <1>3, <1>4, <1>5, <1>6, <1>7, <1>8, <1>9, <1>10, <1>11, <1>12, <1>13, <1>14,
           <1>15, <1>16 DEF Drive

\* What cancellation, background failure and recovery do to builder.json.
LEMMA InterruptReplaces ==
    ASSUME Inv, NEW p \in Proc, Interrupt(p)
    PROVE  Stops \/ builder' = builder
<1> USE DEF session, files, local
<1>1. CASE Cancel(p)
  BY <1>1 DEF Cancel, Stops
<1>2. CASE CancelFinish(p)
  BY <1>2 DEF CancelFinish
<1>3. CASE FailBackgroundJob(p)
  BY <1>3 DEF FailBackgroundJob, Stops
<1>4. CASE FailFinish(p)
  BY <1>4 DEF FailFinish
<1>5. CASE RecoverInterrupted(p)
  BY <1>5 DEF RecoverInterrupted
<1>6. CASE RecoverFinish(p)
  BY <1>6 DEF RecoverFinish
<1>7. CASE RecoverSwap(p)
  <2>1. pc[p] = "recover_swap" /\ pc[p] \in Holders
    BY <1>7 DEF RecoverSwap, Holders
  <2>2. builder' = builder \/ (Current(p) /\ Swap(SetFailure(builder)))
    BY <1>7 DEF RecoverSwap
  <2>3. Current(p) => builder.status = "running"
    BY <2>1, Holding DEF KnowsItsAttempt
  <2> QED BY <2>2, <2>3 DEF Stops, Replacement
<1> QED BY <1>1, <1>2, <1>3, <1>4, <1>5, <1>6, <1>7 DEF Interrupt

\* Whatever happens, builder.json is left alone or replaced in one of nine ways.
LEMMA BuilderStep ==
    ASSUME Inv, [Next]_vars
    PROVE  Replacement \/ builder' = builder
<1> USE DEF session, files, local
<1>1. CASE Command
  BY <1>1, CommandReplaces DEF Replacement
<1>2. ASSUME NEW p \in Proc, Resume(p) PROVE builder' = builder
  BY <1>2 DEF Resume
<1>3. ASSUME NEW p \in Proc, Crash(p) PROVE builder' = builder
  BY <1>3 DEF Crash
<1>4. CASE UNCHANGED vars
  BY <1>4 DEF vars
<1> QED BY <1>1, <1>2, <1>3, <1>4, DriveReplaces, InterruptReplaces DEF Next, Replacement, Turns

-----------------------------------------------------------------------------
(* Cancellation is final *)

\* A cancelled build goes on only at a command of the user, whatever drivers,
\* retries, recovery passes and crashes there are.
THEOREM CancellationIsFinal == Spec => CancelIsFinal
<1> DEFINE Revived == builder.status = "cancelled" /\ builder'.status # "cancelled"
<1>1. Inv /\ [Next]_vars => [Revived => UserCommand]_vars
  <2> SUFFICES ASSUME Inv, [Next]_vars, Revived
               PROVE  UserCommand
    OBVIOUS
  <2>1. Replacement
    BY BuilderStep
  <2>2. GoesOn
    BY <2>1 DEF Replacement, Turns, Begins, Delivers, Stops, AnswersProblem, AnswersSchema, Saves,
                Publishes, FollowsUp, Terminal
  <2> QED BY <2>2 DEF GoesOn
<1> QED BY <1>1, Invariance, PTL DEF Spec, CancelIsFinal

-----------------------------------------------------------------------------
(* Each replacement is a step of SequentialBuild, or invisible there *)

\* A build that waits at a gate has not passed it: every result, answer and save
\* that leads to a gate withdraws its confirmation.
UnconfirmedAtGate ==
    /\ builder.status = "needs_problem_confirmation" => ~builder.problemConfirmed
    /\ builder.status = "needs_schema_confirmation" => ~builder.schemaConfirmed

\* SequentialBuild has the pipeline of BuildLifecycle.
LEMMA SamePipeline ==
    /\ Sequential!AgentStage = AgentStage
    /\ Sequential!RestartPoint = RestartPoint
    /\ \A s, t : Sequential!Precedes(s, t) <=> Precedes(s, t)
    /\ \A s, t : Sequential!Follows(s, t) <=> Follows(s, t)
<1>1. Sequential!Pos = Pos /\ Sequential!RestartStage = RestartStage
  BY DEF Sequential!Pos, Pos, Sequential!RestartStage, RestartStage
<1>2. Sequential!Stage = Stage
  BY <1>1 DEF Sequential!Stage, Stage
<1> QED BY <1>1, <1>2 DEF Sequential!AgentStage, AgentStage, Sequential!RestartPoint, RestartPoint,
           Sequential!Precedes, Precedes, Sequential!Follows, Follows

\* An attempt is made active.
LEMMA BeginsImplements ==
    ASSUME builder \in BuildState, UnconfirmedAtGate, Begins
    PROVE  Sequential!Begin /\ UnconfirmedAtGate'
<1>1. PICK a \in AttemptId \ {None} : Swap(Running(builder, a))
  BY DEF Begins
<1>2. /\ builder'.status = "running" /\ builder'.stage = builder.stage /\ builder'.active = a
      /\ builder'.accepted = builder.accepted
      /\ builder'.problemConfirmed = builder.problemConfirmed
      /\ builder'.schemaConfirmed = builder.schemaConfirmed
      /\ builder'.rounds = builder.rounds
  BY <1>1, RunningEffect, SwapEffect
<1>3. builder.stage = "schema_build" => builder.rounds < RevisionLimit
  BY FieldTypes, LimitsAssumption DEF Begins, LimitReached
<1> QED BY <1>1, <1>2, <1>3, SamePipeline DEF Begins, Sequential!Begin, UnconfirmedAtGate

\* The attempt under way is accepted, or its result ends the build.
LEMMA DeliversImplements ==
    ASSUME builder \in BuildState, UnconfirmedAtGate, Delivers
    PROVE  (Sequential!Deliver \/ Sequential!Stop) /\ UnconfirmedAtGate'
<1>1. PICK o \in PossibleResults(builder.stage) \cup {"not_ok"} :
         Swap(Accepted(builder, builder.active, o))
  BY DEF Delivers
<1>2. /\ builder.status = "running" /\ builder.stage \in AgentStage
      /\ builder.active \in AttemptId /\ builder.active # None
  BY FieldTypes DEF Delivers
<1> DEFINE c == Accepted(builder, builder.active, o)
<1>3. AcceptedOutcome(builder, builder.active, c)
  BY <1>2, AcceptedEffect
<1>4. /\ builder'.status = c.status /\ builder'.stage = c.stage /\ builder'.active = c.active
      /\ builder'.accepted = c.accepted /\ builder'.rounds = c.rounds
      /\ builder'.problemConfirmed = c.problemConfirmed
      /\ builder'.schemaConfirmed = c.schemaConfirmed
  BY <1>1, <1>3, SwapEffect DEF AcceptedOutcome
<1> HIDE DEF c
<1>5. /\ builder'.active = None
      /\ builder'.accepted = [builder.accepted EXCEPT ![builder.stage] = builder.active]
  BY <1>3, <1>4 DEF AcceptedOutcome
<1>6. {s \in AgentStage : builder'.accepted[s] # None}
        = {s \in AgentStage : builder.accepted[s] # None} \cup {builder.stage}
  BY <1>2, <1>5, FieldTypes
<1>7. CASE builder'.status = "failed"
  BY <1>2, <1>3, <1>4, <1>5, <1>6, <1>7 DEF AcceptedOutcome, Sequential!Stop, UnconfirmedAtGate
<1>8. CASE builder'.status # "failed"
  BY <1>2, <1>3, <1>4, <1>5, <1>6, <1>8, SamePipeline
     DEF AcceptedOutcome, Sequential!Deliver, Sequential!Gates, UnconfirmedAtGate
<1> QED BY <1>7, <1>8

\* The build is closed as failed or cancelled.
LEMMA StopsImplements ==
    ASSUME builder \in BuildState, UnconfirmedAtGate, Stops
    PROVE  Sequential!Stop /\ UnconfirmedAtGate'
<1>1. /\ builder'.status \in {"failed", "cancelled"}
      /\ builder.status # "running" => builder'.status = "cancelled"
      /\ builder'.active = None /\ builder'.stage = builder.stage
      /\ builder'.accepted = builder.accepted /\ builder'.rounds = builder.rounds
      /\ builder'.problemConfirmed = builder.problemConfirmed
      /\ builder'.schemaConfirmed = builder.schemaConfirmed
  BY SetFailureEffect, FailedEffect, CancelledEffect, SwapEffect DEF Stops
<1>2. builder.status \notin {"workspace_ready", "failed", "cancelled"}
  BY DEF Stops, Terminal
<1> QED BY <1>1, <1>2 DEF Sequential!Stop, UnconfirmedAtGate

\* A stopped build is taken up again.
LEMMA GoesOnImplements ==
    ASSUME builder \in BuildState, OwnedAttempt, UnconfirmedAtGate, GoesOn
    PROVE  Sequential!GoOn /\ UnconfirmedAtGate'
<1>1. builder.status \in {"failed", "cancelled"} /\ builder.active = None
  BY DEF GoesOn, OwnedAttempt
<1>2. /\ builder'.status = "running" /\ builder'.active = None /\ builder'.stage = builder.stage
      /\ builder'.accepted = builder.accepted /\ builder'.rounds = builder.rounds
      /\ builder'.problemConfirmed = builder.problemConfirmed
      /\ builder'.schemaConfirmed = builder.schemaConfirmed
  BY RestoredEffect, SwapEffect DEF GoesOn
<1> QED BY <1>1, <1>2 DEF Sequential!GoOn, UnconfirmedAtGate

\* The user answers at the problem gate.
LEMMA AnswersProblemImplements ==
    ASSUME builder \in BuildState, UnconfirmedAtGate, AnswersProblem
    PROVE  Sequential!Answer /\ UnconfirmedAtGate'
<1>1. /\ builder'.status = "running" /\ builder'.active = builder.active
      /\ builder'.accepted = builder.accepted /\ builder'.rounds = builder.rounds
      /\ builder'.schemaConfirmed = builder.schemaConfirmed
      /\ \/ builder'.stage = "evidence" /\ builder'.problemConfirmed = TRUE
         \/ builder'.stage = "problem" /\ builder'.problemConfirmed = FALSE
  <2>1. ASSUME NEW next \in Stage, NEW c \in BOOLEAN, Swap(ProblemAnswered(builder, next, c))
        PROVE  /\ builder'.status = "running" /\ builder'.active = builder.active
               /\ builder'.accepted = builder.accepted /\ builder'.rounds = builder.rounds
               /\ builder'.schemaConfirmed = builder.schemaConfirmed
               /\ builder'.stage = next /\ builder'.problemConfirmed = c
    BY <2>1, ProblemAnsweredEffect, SwapEffect
  <2>2. "evidence" \in Stage /\ "problem" \in Stage /\ TRUE \in BOOLEAN /\ FALSE \in BOOLEAN
    BY StageFacts
  <2> QED BY <2>1, <2>2 DEF AnswersProblem
<1>2. builder.status = "needs_problem_confirmation"
  BY DEF AnswersProblem
<1> QED BY <1>1, <1>2 DEF Sequential!Answer, UnconfirmedAtGate

\* The user answers at the schema gate.
LEMMA AnswersSchemaImplements ==
    ASSUME builder \in BuildState, UnconfirmedAtGate, AnswersSchema
    PROVE  Sequential!Answer /\ UnconfirmedAtGate'
<1>1. /\ builder'.status = "running" /\ builder'.active = builder.active
      /\ builder'.accepted = builder.accepted /\ builder'.rounds = builder.rounds
      /\ builder'.problemConfirmed = builder.problemConfirmed
      /\ \/ builder'.stage = "extract" /\ builder'.schemaConfirmed = TRUE
         \/ builder'.stage \in {"schema_judge", "schema_build"} /\ builder'.schemaConfirmed = FALSE
  <2>1. ASSUME NEW next \in Stage, NEW c \in BOOLEAN, Swap(SchemaAnswered(builder, next, c))
        PROVE  /\ builder'.status = "running" /\ builder'.active = builder.active
               /\ builder'.accepted = builder.accepted /\ builder'.rounds = builder.rounds
               /\ builder'.problemConfirmed = builder.problemConfirmed
               /\ builder'.stage = next /\ builder'.schemaConfirmed = c
    BY <2>1, SchemaAnsweredEffect, SwapEffect
  <2>2. /\ "extract" \in Stage /\ "schema_judge" \in Stage /\ "schema_build" \in Stage
        /\ TRUE \in BOOLEAN /\ FALSE \in BOOLEAN
    BY StageFacts
  <2> QED BY <2>1, <2>2 DEF AnswersSchema
<1>2. builder.status = "needs_schema_confirmation"
  BY DEF AnswersSchema
<1> QED BY <1>1, <1>2 DEF Sequential!Answer, UnconfirmedAtGate

\* The user saves a review page, which leaves the build where it waits.
LEMMA SavesImplements ==
    ASSUME builder \in BuildState, UnconfirmedAtGate, Saves
    PROVE  UNCHANGED Sequential!vars /\ UnconfirmedAtGate'
<1> DEFINE Waits == /\ builder'.status = builder.status /\ builder'.active = builder.active
                    /\ builder'.stage = builder.stage /\ builder'.accepted = builder.accepted
                    /\ builder'.rounds = builder.rounds
                    /\ builder'.problemConfirmed = builder.problemConfirmed
                    /\ builder'.schemaConfirmed = builder.schemaConfirmed
<1>1. CASE builder.status = "needs_problem_confirmation" /\ Swap(ProblemSaved(builder))
  <2>1. builder.problemConfirmed = FALSE
    BY <1>1, FieldTypes DEF UnconfirmedAtGate
  <2>2. Waits
    BY <1>1, <2>1, ProblemSavedEffect, SwapEffect
  <2> QED BY <2>2 DEF Sequential!vars, UnconfirmedAtGate
<1>2. ASSUME NEW changed \in BOOLEAN, builder.status = "needs_schema_confirmation",
             Swap(SchemaSaved(builder, changed))
      PROVE  UNCHANGED Sequential!vars /\ UnconfirmedAtGate'
  <2>1. builder.schemaConfirmed = FALSE
    BY <1>2, FieldTypes DEF UnconfirmedAtGate
  <2> DEFINE b == SchemaSaved(builder, changed)
  <2>2. /\ Swap(b) /\ b \in BuildState /\ b.schemaConfirmed = FALSE
        /\ b.problemConfirmed = builder.problemConfirmed
        /\ b.status = builder.status /\ b.stage = builder.stage /\ b.active = builder.active
        /\ b.accepted = builder.accepted /\ b.rounds = builder.rounds
    BY <1>2, SchemaSavedEffect
  <2> HIDE DEF b
  <2>3. Waits
    BY <2>1, <2>2, SwapEffect
  <2> QED BY <2>3 DEF Sequential!vars, UnconfirmedAtGate
<1> HIDE DEF Waits
<1>3. CASE /\ builder.status = "needs_schema_confirmation"
           /\ \E changed \in BOOLEAN : Swap(SchemaSaved(builder, changed))
  <2>1. PICK changed \in BOOLEAN : Swap(SchemaSaved(builder, changed))
    BY <1>3
  <2> QED BY <1>2, <1>3, <2>1
<1> QED BY <1>1, <1>3 DEF Saves

\* The Workspace is published.
LEMMA PublishesImplements ==
    ASSUME builder \in BuildState, UnconfirmedAtGate, Publishes
    PROVE  Sequential!Publish /\ UnconfirmedAtGate'
<1>1. /\ builder'.status = "workspace_ready" /\ builder'.stage = "ready"
      /\ builder'.active = builder.active
      /\ builder'.accepted = builder.accepted /\ builder'.rounds = builder.rounds
      /\ builder'.problemConfirmed = builder.problemConfirmed
      /\ builder'.schemaConfirmed = builder.schemaConfirmed
  BY ReadyEffect, SwapEffect DEF Publishes
<1> QED BY <1>1 DEF Publishes, Sequential!Publish, UnconfirmedAtGate

\* A follow-up restarts a completed build.
LEMMA FollowsUpImplements ==
    ASSUME builder \in BuildState, OwnedAttempt, UnconfirmedAtGate, FollowsUp
    PROVE  Sequential!FollowUp /\ UnconfirmedAtGate'
<1>1. PICK restart \in RestartPoint : Swap(Restarted(builder, restart))
  BY DEF FollowsUp
<1>2. /\ builder'.status = "running" /\ builder'.stage = restart /\ builder'.active = None
      /\ builder'.accepted =
           [s \in AgentStage |-> IF Precedes(s, restart) THEN builder.accepted[s] ELSE None]
      /\ builder'.problemConfirmed = (builder.problemConfirmed /\ restart # "problem")
      /\ builder'.schemaConfirmed = (builder.schemaConfirmed /\ Precedes("schema_build", restart))
      /\ builder'.rounds = builder.rounds
  BY <1>1, RestartedEffect, SwapEffect
<1>3. builder.status = "workspace_ready" /\ builder.active = None
  BY DEF FollowsUp, OwnedAttempt
<1> DEFINE done == {s \in AgentStage : builder.accepted[s] # None}
           confirmed == (IF builder.problemConfirmed THEN {"problem"} ELSE {})
                        \cup (IF builder.schemaConfirmed THEN {"schema"} ELSE {})
<1>4. {s \in AgentStage : builder'.accepted[s] # None} = {s \in done : Precedes(s, restart)}
  BY <1>2
<1>5. (IF builder'.problemConfirmed THEN {"problem"} ELSE {})
         \cup (IF builder'.schemaConfirmed THEN {"schema"} ELSE {})
        = {g \in confirmed : IF g = "problem" THEN restart # "problem"
                                              ELSE Precedes("schema_build", restart)}
  BY <1>2
<1> QED BY <1>2, <1>3, <1>4, <1>5, SamePipeline DEF Sequential!FollowUp, UnconfirmedAtGate

-----------------------------------------------------------------------------
(* BuildLifecycle implements SequentialBuild *)

\* Every step is a step of SequentialBuild or leaves it where it is.
LEMMA StepImplements ==
    ASSUME Inv, UnconfirmedAtGate, [Next]_vars
    PROVE  [Sequential!Next]_(Sequential!vars) /\ UnconfirmedAtGate'
<1>1. builder \in BuildState /\ OwnedAttempt
  BY DEF Inv, TypeOK
<1>2. CASE builder' = builder
  BY <1>2 DEF Sequential!vars, UnconfirmedAtGate
<1>3. CASE Replacement
  BY <1>1, <1>3, BeginsImplements, DeliversImplements, StopsImplements, GoesOnImplements,
     AnswersProblemImplements, AnswersSchemaImplements, SavesImplements, PublishesImplements,
     FollowsUpImplements
     DEF Replacement, Turns, Sequential!Next
<1> QED BY <1>2, <1>3, BuilderStep

\* A new Session starts as a new sequential build.
LEMMA InitImplements == Init => Sequential!Init /\ UnconfirmedAtGate
<1> SUFFICES ASSUME Init PROVE Sequential!Init /\ UnconfirmedAtGate
  OBVIOUS
<1>1. /\ builder.stage = "problem" /\ builder.status = "running" /\ builder.active = None
      /\ \A s \in AgentStage : builder.accepted[s] = None
      /\ builder.problemConfirmed = FALSE /\ builder.schemaConfirmed = FALSE
      /\ builder.rounds = 0
  BY DEF Init, NewBuild
<1> QED BY <1>1, SamePipeline DEF Sequential!Init, UnconfirmedAtGate

\* A build that waits at a gate has not passed it.
THEOREM GatesUnconfirmed == Spec => []UnconfirmedAtGate
<1>1. Inv /\ UnconfirmedAtGate /\ [Next]_vars => UnconfirmedAtGate'
  BY StepImplements
<1> QED BY <1>1, InitImplements, Invariance, PTL DEF Spec

\* However many processes share a Session, whatever stale copies they hold and
\* wherever they are killed, builder.json behaves as one sequential build.
THEOREM Refinement == Spec => ImplementsSequential
<1>1. Inv /\ UnconfirmedAtGate /\ [Next]_vars => [Sequential!Next]_(Sequential!vars)
  BY StepImplements
<1> QED BY <1>1, InitImplements, Invariance, GatesUnconfirmed, PTL
           DEF Spec, ImplementsSequential, Sequential!Spec

\* StepsRefine: the same from any state that the invariant allows, so also where a
\* build is picked up in the middle of its stages by processes with old copies.
THEOREM StepsRefine == Inv /\ UnconfirmedAtGate /\ [][Next]_vars => StepsSequentially
<1>1. Inv /\ [Next]_vars => Inv'
  BY InvStep
<1>2. Inv /\ UnconfirmedAtGate /\ [Next]_vars => UnconfirmedAtGate' /\ [Sequential!Next]_(Sequential!vars)
  BY StepImplements
<1> QED BY <1>1, <1>2, PTL DEF StepsSequentially
=============================================================================
