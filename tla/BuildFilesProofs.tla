-------------------------- MODULE BuildFilesProofs ---------------------------
(***************************************************************************)
(* The files of a Session agree with builder.json: the stage files and the *)
(* attempt files of the stages the build relies on, and the Workspace of a *)
(* completed build. Proved for every number of processes, attempts,        *)
(* commands and crashes, from two assumptions without which the code does  *)
(* not keep them: drivers exclude each other (background workers wait for  *)
(* the previous phase), and no recovery pass takes a silent attempt for an *)
(* orphan.                                                                 *)
(***************************************************************************)
EXTENDS BuildRefinementProofs

Gates      == {"needs_problem_confirmation", "needs_schema_confirmation"}
Underway   == {"running", "failed", "cancelled"}
Unrevoked  == {"running", "completed"}

\* No stage becomes settled, and no settled stage changes its attempt.
SettledShrinks ==
    \A s \in AgentStage : Settled(s)' => Settled(s) /\ builder'.accepted[s] = builder.accepted[s]

-----------------------------------------------------------------------------
(* What the replacements of builder.json do to the settled stages *)

\* A stage is not left behind while the build is at it.
LEMMA NotPastItself == ASSUME TypeOK PROVE ~Past(builder.stage)
BY Positions, BuilderTypes DEF Past, Precedes

\* What the replacements that no driver makes for its attempt have in common.
TurnedOut ==
    /\ builder'.version = builder.version + 1
    /\ builder'.active \in {None, builder.active}
    /\ builder'.status # "workspace_ready"
    /\ builder.status \in Underway =>
        /\ builder'.status \in Underway
        /\ builder'.stage = builder.stage
        /\ builder'.accepted = builder.accepted
    /\ SettledShrinks

\* The build is stopped or taken up again where it is.
LEMMA StayingTurns ==
    ASSUME Inv, builder'.version = builder.version + 1, builder'.active = None,
           builder'.status \in Underway,
           builder'.stage = builder.stage, builder'.accepted = builder.accepted
    PROVE  TurnedOut
BY DEF TurnedOut, SettledShrinks, Settled, Past, Underway, Gates

\* An answer makes the stage asked about, at most, one that is left behind.
LEMMA AnsweringTurns ==
    ASSUME Inv, NEW b \in BuildState, Swap(b), b.status = "running",
           b.active = builder.active, b.accepted = builder.accepted,
           \/ builder.status = "needs_problem_confirmation" /\ b.stage \in {"problem", "evidence"}
           \/ /\ builder.status = "needs_schema_confirmation"
              /\ b.stage \in {"schema_build", "schema_judge", "extract"}
    PROVE  TurnedOut
<1>1. /\ builder'.status = "running" /\ builder'.stage = b.stage
      /\ builder'.active = builder.active /\ builder'.accepted = builder.accepted
      /\ builder'.version = builder.version + 1
  BY SwapEffect DEF Inv, TypeOK
<1>2. /\ builder.status = "needs_problem_confirmation" => builder.stage = "problem"
      /\ builder.status = "needs_schema_confirmation" => builder.stage = "schema_judge"
  BY DEF Inv, StatusFitsStage
<1>3. \A s \in AgentStage : Settled(s)' <=> Past(s)'
  BY <1>1 DEF Settled
<1>4. \A s \in AgentStage : Past(s)' => Past(s) \/ s = builder.stage
  BY <1>1, <1>2, StageFacts, AgentStageFacts DEF Past, Precedes
<1>5. SettledShrinks
  BY <1>1, <1>3, <1>4 DEF SettledShrinks, Settled
<1> QED BY <1>1, <1>5 DEF TurnedOut, Underway

\* A saved review leaves the build waiting.
LEMMA SavingTurns ==
    ASSUME Inv, NEW b \in BuildState, Swap(b), builder.status \in Gates,
           b.status = builder.status, b.stage = builder.stage,
           b.active = builder.active, b.accepted = builder.accepted
    PROVE  TurnedOut
<1>1. /\ builder'.status = builder.status /\ builder'.stage = builder.stage
      /\ builder'.active = builder.active /\ builder'.accepted = builder.accepted
      /\ builder'.version = builder.version + 1
  BY SwapEffect DEF Inv, TypeOK
<1>2. SettledShrinks
  BY <1>1 DEF SettledShrinks, Settled, Past
<1> QED BY <1>1, <1>2 DEF TurnedOut, Underway, Gates

\* A follow-up relies on what precedes its restart point, as before.
LEMMA FollowingTurns ==
    ASSUME Inv, FollowsUp
    PROVE  TurnedOut
<1>1. PICK restart \in RestartPoint : Swap(Restarted(builder, restart))
  BY DEF FollowsUp
<1>2. /\ builder'.status = "running" /\ builder'.stage = restart /\ builder'.active = None
      /\ builder'.version = builder.version + 1
      /\ builder'.accepted =
           [s \in AgentStage |-> IF Precedes(s, restart) THEN builder.accepted[s] ELSE None]
  BY <1>1, RestartedEffect, SwapEffect DEF Inv, TypeOK
<1>3. builder.stage = "ready" /\ builder.status = "workspace_ready"
  BY DEF FollowsUp, Inv, StatusFitsStage
<1>4. \A s \in AgentStage : Past(s)
  BY <1>3, StageFacts, AgentStageFacts DEF Past, Precedes
<1>5. \A s \in AgentStage : Settled(s)' => Precedes(s, restart)
  BY <1>2 DEF Settled, Past
<1>6. SettledShrinks
  BY <1>2, <1>4, <1>5 DEF SettledShrinks, Settled
<1> QED BY <1>2, <1>3, <1>6 DEF TurnedOut, Underway

\* All of them together.
LEMMA TurnsEffect ==
    ASSUME Inv, Turns
    PROVE  TurnedOut
<1>1. builder \in BuildState
  BY DEF Inv, TypeOK
<1>2. CASE Stops
  <2>1. /\ builder'.status \in Underway /\ builder'.active = None
        /\ builder'.version = builder.version + 1
        /\ builder'.stage = builder.stage /\ builder'.accepted = builder.accepted
    BY <1>1, <1>2, SetFailureEffect, FailedEffect, CancelledEffect, SwapEffect DEF Stops, Underway
  <2> QED BY <2>1, StayingTurns
<1>3. CASE GoesOn
  <2>1. /\ builder'.status \in Underway /\ builder'.active = None
        /\ builder'.version = builder.version + 1
        /\ builder'.stage = builder.stage /\ builder'.accepted = builder.accepted
    BY <1>1, <1>3, RestoredEffect, SwapEffect DEF GoesOn, Underway
  <2> QED BY <2>1, StayingTurns
<1>4. CASE AnswersProblem
  <2>1. PICK next \in {"problem", "evidence"}, c \in BOOLEAN :
           Swap(ProblemAnswered(builder, next, c))
    BY <1>4 DEF AnswersProblem
  <2>2. next \in Stage /\ builder.status = "needs_problem_confirmation"
    BY <1>4, StageFacts DEF AnswersProblem
  <2> QED BY <1>1, <2>1, <2>2, ProblemAnsweredEffect, AnsweringTurns
<1>5. CASE AnswersSchema
  <2>1. PICK next \in {"schema_build", "schema_judge", "extract"}, c \in BOOLEAN :
           Swap(SchemaAnswered(builder, next, c))
    BY <1>5 DEF AnswersSchema
  <2>2. next \in Stage /\ builder.status = "needs_schema_confirmation"
    BY <1>5, StageFacts DEF AnswersSchema
  <2> QED BY <1>1, <2>1, <2>2, SchemaAnsweredEffect, AnsweringTurns
<1>6. CASE Saves
  <2>1. CASE builder.status = "needs_problem_confirmation" /\ Swap(ProblemSaved(builder))
    BY <1>1, <2>1, ProblemSavedEffect, SavingTurns DEF Gates
  <2>2. CASE /\ builder.status = "needs_schema_confirmation"
             /\ \E changed \in BOOLEAN : Swap(SchemaSaved(builder, changed))
    BY <1>1, <2>2, SchemaSavedEffect, SavingTurns DEF Gates
  <2> QED BY <1>6, <2>1, <2>2 DEF Saves
<1>7. CASE FollowsUp
  BY <1>7, FollowingTurns
<1> QED BY <1>2, <1>3, <1>4, <1>5, <1>6, <1>7 DEF Turns

\* Taking the Session for an attempt settles nothing.
LEMMA BeginsEffect ==
    ASSUME Inv, Begins
    PROVE  SettledShrinks /\ builder'.status # "workspace_ready"
<1>1. PICK a \in AttemptId : Swap(Running(builder, a))
  BY DEF Begins
<1>2. /\ builder'.status = "running" /\ builder'.stage = builder.stage
      /\ builder'.accepted = builder.accepted
  <2> DEFINE b == Running(builder, a)
  <2>1. builder \in BuildState
    BY DEF Inv, TypeOK
  <2>2. /\ b \in BuildState /\ b.status = "running" /\ b.stage = builder.stage
        /\ b.accepted = builder.accepted
    BY <2>1, RunningEffect
  <2>3. Swap(b)
    BY <1>1
  <2> HIDE DEF b
  <2> QED BY <2>1, <2>2, <2>3, SwapEffect
<1> QED BY <1>2 DEF SettledShrinks, Settled, Past

\* Publication relies on what was settled.
LEMMA PublishesEffect ==
    ASSUME Inv, Publishes
    PROVE  /\ SettledShrinks
           /\ builder'.status = "workspace_ready" /\ builder'.accepted = builder.accepted
<1>1. /\ builder'.stage = "ready" /\ builder'.status = "workspace_ready"
      /\ builder'.accepted = builder.accepted /\ builder.stage = "finalize"
  BY ReadyEffect, SwapEffect DEF Publishes, Inv, TypeOK
<1>2. \A s \in AgentStage : Past(s)
  BY <1>1, StageFacts, AgentStageFacts DEF Past, Precedes
<1> QED BY <1>1, <1>2 DEF SettledShrinks, Settled

\* Accepting a result settles at most the stage it is of, and not a failed one.
LEMMA DeliversEffect ==
    ASSUME Inv, builder.status = "running", builder.stage \in AgentStage, builder.active # None,
           NEW o \in PossibleResults(builder.stage) \cup {"not_ok"},
           Swap(Accepted(builder, builder.active, o))
    PROVE  /\ builder'.status # "workspace_ready"
           /\ builder'.accepted = [builder.accepted EXCEPT ![builder.stage] = builder.active]
           /\ \A s \in AgentStage : Settled(s)' =>
                \/ Settled(s) /\ s # builder.stage
                \/ s = builder.stage /\ o # "not_ok"
<1> DEFINE a == builder.active
           c == Accepted(builder, a, o)
<1>1. builder \in BuildState /\ a \in AttemptId /\ builder.stage \in Stage
  BY BuilderTypes DEF Inv, TypeOK
<1>2. AcceptedOutcome(builder, a, c)
  BY <1>1, AcceptedEffect
<1>3. o = "not_ok" => c.status = "failed" /\ c.stage = builder.stage
  <2>1. CASE o = "not_ok"
    <3>1. c = SetFailure(Delivered(builder, a))
      BY <2>1 DEF Accepted
    <3>2. Delivered(builder, a) \in BuildState /\ Delivered(builder, a).stage = builder.stage
      BY <1>1, DeliveredEffect
    <3> QED BY <3>1, <3>2, SetFailureEffect
  <2> QED BY <2>1
<1>4. /\ builder'.status = c.status /\ builder'.stage = c.stage
      /\ builder'.accepted = c.accepted
  BY <1>1, <1>2, SwapEffect DEF AcceptedOutcome
<1> HIDE DEF c
<1>5. /\ builder'.accepted = [builder.accepted EXCEPT ![builder.stage] = a]
      /\ builder'.status # "workspace_ready"
  BY <1>2, <1>4 DEF AcceptedOutcome
<1>6. ASSUME NEW s \in AgentStage, Settled(s)'
      PROVE  \/ Settled(s) /\ s # builder.stage
             \/ s = builder.stage /\ o # "not_ok"
  <2>0. ~Past(builder.stage)
    BY NotPastItself DEF Inv
  <2>1. CASE o = "not_ok"
    <3>1. builder'.stage = builder.stage /\ builder'.status = "failed"
      BY <1>3, <1>4, <2>1
    <3> QED BY <1>6, <2>0, <3>1 DEF Settled, Past
  <2>2. CASE o # "not_ok"
    <3>1. \/ builder'.stage = builder.stage
          \/ builder.stage = "schema_judge" /\ builder'.stage = "schema_build"
          \/ builder'.stage \in Stage /\ Follows(builder.stage, builder'.stage)
      BY <1>2, <1>4 DEF AcceptedOutcome
    <3>2. CASE builder'.stage = builder.stage
      BY <1>6, <2>0, <2>2, <3>2 DEF Settled, Past
    <3>3. CASE builder.stage = "schema_judge" /\ builder'.stage = "schema_build"
      <4>1. builder'.status = "running"
        BY <1>2, <1>4, <3>3 DEF AcceptedOutcome
      <4>2. Past(s)'
        BY <1>6, <4>1 DEF Settled
      <4>3. Past(s)
        BY <3>3, <4>2, StageFacts, AgentStageFacts DEF Past, Precedes
      <4> QED BY <2>0, <4>3 DEF Settled
    <3>4. CASE builder'.stage \in Stage /\ Follows(builder.stage, builder'.stage)
      <4>1. Pos[builder'.stage] = Pos[builder.stage] + 1
        BY <3>4 DEF Follows
      <4>2. Past(s)' => Past(s) \/ s = builder.stage
        BY <1>1, <4>1, Positions, StageFacts, AgentStageFacts DEF Past, Precedes
      <4>3. builder'.status \in {"failed"} \cup Gates => builder'.stage = builder.stage
        BY <1>2, <1>4 DEF AcceptedOutcome, Gates
      <4>4. builder'.stage # builder.stage
        BY <1>1, <4>1, Positions
      <4>5. Past(s)'
        BY <1>6, <4>3, <4>4 DEF Settled, Gates
      <4> QED BY <2>0, <2>2, <4>2, <4>5 DEF Settled
    <3> QED BY <3>1, <3>2, <3>3, <3>4
  <2> QED BY <2>1, <2>2
<1> QED BY <1>5, <1>6

-----------------------------------------------------------------------------
(* The stage files and the attempt files of the settled stages *)

\* A settled stage has an accepted attempt.
LEMMA SettledAttempt ==
    ASSUME Inv, NEW s \in AgentStage, Settled(s)
    PROVE  builder.accepted[s] \in Attempt /\ ~Unsettled(builder.accepted[s])
<1>1. builder.accepted[s] # None
  BY DEF Inv, Settled, StagesInOrder, AsksAboutAccepted
<1> QED BY <1>1, BuilderTypes DEF Inv, AttemptId, Attempt, None, Unsettled

\* While a process holds a running build, the stage it is at is not settled.
LEMMA OpenStage ==
    ASSUME Inv, builder.status \in Underway
    PROVE  \A s \in AgentStage : Settled(s) => Past(s) /\ s # builder.stage
BY NotPastItself DEF Inv, Settled, Underway

\* Nothing is left behind at the first stage.
LEMMA NothingPastProblem ==
    ASSUME builder.stage = "problem"
    PROVE  \A s \in AgentStage : ~Past(s)
BY StageFacts, AgentStageFacts DEF Past, Precedes

\* Closing one attempt file leaves the others alone.
LEMMA FinishedOther ==
    ASSUME record \in Records, NEW a, NEW status
    PROVE  \A c \in Attempt : c # a => Finished(a, status)[c] = record[c]
BY DEF Finished, Records

\* The file of an attempt that runs is closed with the given status.
LEMMA FinishedRunning ==
    ASSUME record \in Records, NEW a \in Attempt, NEW status \in AttemptStatus
    PROVE  /\ record[a].status = "running" => Finished(a, status)[a].status = status
           /\ record[a].status # "running" => Finished(a, status)[a].status = record[a].status
<1>1. a # None
  BY DEF Attempt, None
<1> QED BY <1>1 DEF Finished, IsActive, Records

\* Settled stages keep their files when none is added and none of their files
\* is touched.
LEMMA SettledFilesKept ==
    ASSUME Inv, SettledFiles, SettledShrinks,
           \A s \in AgentStage : Settled(s) => canonical'[s] = canonical[s],
           \A c \in Attempt : ~Unsettled(c) /\ record[c].status \in Unrevoked
                                => record'[c].status \in Unrevoked
    PROVE  SettledFiles'
BY SettledAttempt DEF SettledFiles, SettledShrinks, Unrevoked

\* An attempt nothing relies on stays one.
LEMMA UnsettledKept ==
    ASSUME SettledShrinks, NEW a, Unsettled(a)
    PROVE  Unsettled(a)'
BY DEF SettledShrinks, Unsettled

\* builder.json left alone.
LEMMA NothingSettles ==
    ASSUME builder' = builder
    PROVE  SettledShrinks
BY DEF SettledShrinks, Settled, Past

\* The published Workspace is replaced only while the build is under way.
LEMMA WorkspaceKept ==
    ASSUME WorkspaceFromAccepted,
           workspace' = workspace \/ builder.status \in Underway,
           builder' = builder \/ builder'.status # "workspace_ready"
    PROVE  WorkspaceFromAccepted'
BY DEF WorkspaceFromAccepted, Underway

-----------------------------------------------------------------------------
(* One process moves and the others look on *)

\* Nobody is about to close the attempts that were safe, except the one that
\* the build has just let go of.
SafeKept ==
    \A a \in Attempt : Safe(a) => Safe(a)' \/ (a = builder.active /\ builder' # builder)

\* A process that drives nothing knows little.
LEMMA Onlooker ==
    ASSUME Inv, NEW q \in Proc, pc'[q] \notin DriverPC,
           mine'[q] <= started', pc'[q] \in Closing => Unsettled(mine[q])'
    PROVE  KnowsItsFiles(q)'
BY DEF KnowsItsFiles, DriverPC, Working, Closing

\* A driver goes on knowing its files while somebody else, no driver, moves.
LEMMA Bystander ==
    ASSUME Inv, FilesInv, Turns \/ builder' = builder,
           UNCHANGED <<started, canonical, workspace>>, SafeKept,
           NEW q \in Proc, LocalKept(q)
    PROVE  KnowsItsFiles(q)'
<1>1. /\ TypeOK /\ KnowsItsAttempt(q) /\ KnowsItsFiles(q)
      /\ pc[q] \in Holders => VersionedCopy(snap[q])
  BY Holding DEF FilesInv
<1>2. builder' = builder \/ TurnedOut
  BY TurnsEffect
<1>3. SettledShrinks
  BY <1>2, NothingSettles DEF TurnedOut
<1>4. PICK m \in AttemptId : m = mine[q]
  BY <1>1 DEF TypeOK
<1>5. /\ Unsettled(m) => Unsettled(m)'
      /\ m # None => m \in Attempt
  BY <1>3, UnsettledKept DEF AttemptId, Attempt, None
<1>6. /\ builder.version \in Nat /\ snap[q].version \in Nat
  BY <1>1, BuilderTypes, FieldTypes DEF TypeOK
<1>7. pc[q] \in Working => pc[q] \in Holders
  BY DEF Working, Holders, DriverPC
<1>8. pc[q] \in Working /\ builder'.version = snap[q].version => builder' = builder /\ Current(q)
  BY <1>1, <1>2, <1>6, <1>7 DEF Current, TurnedOut, VersionedCopy
<1>9. pc[q] \in {"recorded"} \cup Working => m \in Attempt
  BY <1>1, <1>4, <1>5 DEF KnowsItsAttempt, Working
<1>10. pc[q] \in Working /\ builder'.version = snap[q].version => Safe(m)'
  BY <1>1, <1>4, <1>8, <1>9 DEF KnowsItsFiles, SafeKept
<1>11. pc[q] = "recorded" => Safe(m)' /\ builder'.active # m
  BY <1>1, <1>2, <1>4, <1>9 DEF KnowsItsFiles, KnowsItsAttempt, SafeKept, TurnedOut
<1>12. pc[q] \in DriverPC \ {"failing", "mark_failed", "backoff"} /\ snap[q].status = "running"
         => /\ builder'.status \in Underway
            /\ builder'.stage = snap[q].stage
            /\ builder'.accepted = snap[q].accepted
  BY <1>1, <1>2 DEF KnowsItsFiles, TurnedOut, Underway
<1>13. /\ mine'[q] <= started'
       /\ pc'[q] \in DriverPC \ {"failing", "mark_failed", "backoff"} /\ snap'[q].status = "running" =>
            /\ builder'.status \in {"running", "failed", "cancelled"}
            /\ builder'.stage = snap'[q].stage
            /\ builder'.accepted = snap'[q].accepted
       /\ pc'[q] \in Working => snap'[q].status = "running"
       /\ pc'[q] \in {"recorded", "failing", "mark_failed"} \cup Working \cup Closing
            => Unsettled(m)'
       /\ pc'[q] = "finish" /\ outcome'[q] = "not_ok" => Unsettled(m)'
       /\ pc'[q] = "install" => outcome'[q] = "extend"
       /\ pc'[q] = "accept" /\ outcome'[q] # "not_ok" => canonical'[snap'[q].stage] = mine'[q]
       /\ pc'[q] = "set_ready" =>
            /\ workspace'.readme = snap'[q].accepted["document"]
            /\ {snap'[q].accepted["extract"], snap'[q].accepted["structured_extract"]}
                  \subseteq workspace'.facts
  BY <1>1, <1>4, <1>5, <1>12 DEF KnowsItsFiles, LocalKept, Underway
<1>14. mine'[q] = m /\ pc'[q] = pc[q] /\ snap'[q] = snap[q]
  BY <1>4 DEF LocalKept
<1> QED BY <1>10, <1>11, <1>13, <1>14 DEF KnowsItsFiles, Unsettled, Safe, Current

\* What is left to show when somebody other than a driver moves: p, whose place
\* afterwards is no driver's.
LEMMA OutsideStep ==
    ASSUME Inv, Inv', FilesInv, Turns \/ builder' = builder,
           UNCHANGED <<started, canonical, workspace>>, SafeKept,
           \A c \in Attempt : ~Unsettled(c) => record'[c] = record[c],
           NEW P \in SUBSET Proc,
           \A q \in Proc \ P : LocalKept(q),
           \A q \in P : /\ pc'[q] \in {"idle"} \cup Closing
                        /\ mine'[q] <= started'
                        /\ pc'[q] \in Closing => Unsettled(mine[q])'
    PROVE  FilesInv'
<1>1. builder' = builder \/ TurnedOut
  BY TurnsEffect
<1>2. SettledShrinks
  BY <1>1, NothingSettles DEF TurnedOut
<1>3. SettledFiles'
  BY <1>2, SettledFilesKept DEF FilesInv
<1>4. WorkspaceFromAccepted'
  BY <1>1, WorkspaceKept DEF FilesInv, TurnedOut
<1>5. DriversAlone'
  BY DEF FilesInv, DriversAlone, LocalKept, Closing, DriverPC
<1>6. ASSUME NEW q \in Proc PROVE KnowsItsFiles(q)'
  <2>1. CASE q \in P
    BY <2>1, Onlooker DEF Closing, DriverPC
  <2>2. CASE q \notin P
    BY <2>2, Bystander
  <2> QED BY <2>1, <2>2
<1> QED BY <1>3, <1>4, <1>5, <1>6 DEF FilesInv

-----------------------------------------------------------------------------
(* Commands, cancellation and background failures *)

\* Commands touch no attempt file and no process.
LEMMA CommandFiles ==
    ASSUME Inv, Inv', FilesInv, Command
    PROVE  FilesInv'
<1>1. UNCHANGED <<record, started, canonical, workspace, local>> /\ Turns
  BY CommandFrame, CommandReplaces
<1>2. SafeKept
  BY <1>1 DEF local, SafeKept, Safe
<1>3. \A q \in Proc : LocalKept(q)
  BY <1>1 DEF local, LocalKept
<1> DEFINE P == {}
<1>4. P \in SUBSET Proc /\ \A q \in Proc : q \notin P
  OBVIOUS
<1> HIDE DEF P
<1> QED BY <1>1, <1>2, <1>3, <1>4, OutsideStep

\* Cancellation and background failure first stop the build and then close the
\* attempt that it has let go of.
LEMMA StopFiles ==
    ASSUME Inv, Inv', FilesInv, NEW p \in Proc, pc[p] = "idle",
           Stops, builder' # builder,
           \/ /\ builder.active # None
              /\ pc' = [pc EXCEPT ![p] = "cancel_finish"] \/ pc' = [pc EXCEPT ![p] = "fail_finish"]
              /\ mine' = [mine EXCEPT ![p] = builder.active]
           \/ UNCHANGED <<pc, mine>>,
           UNCHANGED <<record, started, canonical, workspace, snap, outcome>>
    PROVE  FilesInv'
<1>1. TypeOK /\ AttemptsInOrder /\ mine[p] <= started
  BY DEF Inv, FilesInv, KnowsItsFiles
<1>2. Turns /\ TurnedOut
  BY TurnsEffect DEF Turns
<1>3. /\ \A q \in Proc \ {p} : LocalKept(q)
      /\ pc'[p] \in {"idle"} \cup Closing
      /\ pc'[p] \in Closing => mine'[p] = builder.active /\ builder.active # None
      /\ pc'[p] \notin Closing => mine'[p] = mine[p]
  BY <1>1 DEF TypeOK, LocalKept, Closing
<1>4. PICK a \in AttemptId : a = builder.active
  BY <1>1, BuilderTypes
<1>5. a # None => Unsettled(a)
  BY <1>1, <1>4, BuilderTypes DEF AttemptsInOrder, Unsettled
<1>6. a # None => Unsettled(a)'
  BY <1>2, <1>5, UnsettledKept DEF TurnedOut
<1>7. SafeKept
  BY <1>3, <1>4 DEF SafeKept, Safe, LocalKept
<1>8. /\ mine'[p] <= started'
      /\ pc'[p] \in Closing => Unsettled(mine[p])'
  BY <1>1, <1>3, <1>4, <1>6 DEF AttemptsInOrder, Unsettled
<1> DEFINE P == {p}
<1>9. P \in SUBSET Proc /\ \A q \in P : q = p
  OBVIOUS
<1>10. \A q \in Proc \ P : LocalKept(q)
  BY <1>3
<1> HIDE DEF P
<1>11. \A q \in P : /\ pc'[q] \in {"idle"} \cup Closing
                    /\ mine'[q] <= started'
                    /\ pc'[q] \in Closing => Unsettled(mine[q])'
  BY <1>3, <1>8, <1>9 DEF Unsettled
<1> QED BY <1>2, <1>7, <1>9, <1>10, <1>11, OutsideStep

\* The second step of both: nothing relies on the attempt that is closed.
LEMMA CloseFiles ==
    ASSUME Inv, Inv', FilesInv, NEW p \in Proc, pc[p] \in Closing,
           NEW status \in AttemptStatus, record' = Finished(mine[p], status), Leave(p),
           UNCHANGED <<builder, started, canonical, workspace>>
    PROVE  FilesInv'
<1>1. TypeOK /\ record \in Records /\ Unsettled(mine[p])
  BY DEF Inv, TypeOK, Records, FilesInv, KnowsItsFiles
<1>2. /\ \A q \in Proc \ {p} : LocalKept(q)
      /\ pc'[p] = "idle" /\ mine'[p] = None
  BY <1>1 DEF TypeOK, LocalKept, Leave
<1>3. \A c \in Attempt : c # mine[p] => record'[c] = record[c]
  BY <1>1, FinishedOther
<1>4. \A c \in Attempt : ~Unsettled(c) => record'[c] = record[c]
  BY <1>1, <1>3
<1>5. ASSUME NEW a \in Attempt, Safe(a) PROVE Safe(a)'
  <2>1. a # mine[p]
    BY <1>5 DEF Safe
  <2> QED BY <1>2, <1>3, <1>5, <2>1 DEF Safe, LocalKept, Closing
<1>6. SafeKept
  BY <1>5 DEF SafeKept
<1>7. mine'[p] <= started' /\ pc'[p] \notin Closing
  BY <1>1, <1>2 DEF TypeOK, AttemptId, None, Closing
<1> DEFINE P == {p}
<1>8. P \in SUBSET Proc /\ \A q \in P : q = p
  OBVIOUS
<1>9. \A q \in Proc \ P : LocalKept(q)
  BY <1>2
<1> HIDE DEF P
<1>10. \A q \in P : /\ pc'[q] \in {"idle"} \cup Closing
                    /\ mine'[q] <= started'
                    /\ pc'[q] \in Closing => Unsettled(mine[q])'
  BY <1>2, <1>7, <1>8
<1> QED BY <1>4, <1>6, <1>8, <1>9, <1>10, OutsideStep

\* Nothing else interrupts a build when no recovery pass runs.
LEMMA InterruptFiles ==
    ASSUME Inv, Inv', FilesInv, MaxRecoveries = 0, NEW p \in Proc, Interrupt(p)
    PROVE  FilesInv'
<1> USE DEF session, files, local
<1>1. /\ builder \in BuildState /\ builder.version \in Nat
      /\ pc[p] \notin {"recover_finish", "recover_swap"}
      /\ spent \in [DOMAIN Budget -> Nat]
  BY BuilderTypes DEF Inv, TypeOK, FilesInv, DriversAlone
<1>2. \A b \in BuildState : Swap(b) => builder' # builder
  BY <1>1, SwapEffect
<1>3. CASE Cancel(p)
  <2>1. Stops /\ builder' # builder
    BY <1>1, <1>2, <1>3, CancelledEffect DEF Cancel, Stops
  <2>2. UNCHANGED <<record, started, canonical, workspace, snap, outcome>> /\ pc[p] = "idle"
    BY <1>3 DEF Cancel
  <2>3. \/ /\ builder.active # None
           /\ pc' = [pc EXCEPT ![p] = "cancel_finish"]
           /\ mine' = [mine EXCEPT ![p] = builder.active]
        \/ UNCHANGED <<pc, mine>>
    BY <1>3 DEF Cancel, Goto
  <2> QED BY <2>1, <2>2, <2>3, StopFiles
<1>4. CASE CancelFinish(p)
  BY <1>4, CloseFiles DEF CancelFinish, Closing, AttemptStatus
<1>5. CASE FailBackgroundJob(p)
  <2>1. Stops /\ builder' # builder
    BY <1>1, <1>2, <1>5, SetFailureEffect DEF FailBackgroundJob, Stops
  <2>2. UNCHANGED <<record, started, canonical, workspace, snap, outcome>> /\ pc[p] = "idle"
    BY <1>5 DEF FailBackgroundJob
  <2>3. \/ /\ builder.active # None
           /\ pc' = [pc EXCEPT ![p] = "fail_finish"]
           /\ mine' = [mine EXCEPT ![p] = builder.active]
        \/ UNCHANGED <<pc, mine>>
    BY <1>5 DEF FailBackgroundJob, Goto
  <2> QED BY <2>1, <2>2, <2>3, StopFiles
<1>6. CASE FailFinish(p)
  BY <1>6, CloseFiles DEF FailFinish, Closing, AttemptStatus
<1>7. CASE RecoverInterrupted(p)
  <2>1. spent["recoveries"] \in Nat /\ Budget["recoveries"] = 0
    BY <1>1 DEF Budget
  <2>2. spent["recoveries"] < Budget["recoveries"]
    BY <1>7 DEF RecoverInterrupted, May
  <2> QED BY <2>1, <2>2
<1>8. ~RecoverFinish(p) /\ ~RecoverSwap(p)
  BY <1>1 DEF RecoverFinish, RecoverSwap
<1> QED BY <1>3, <1>4, <1>5, <1>6, <1>7, <1>8 DEF Interrupt

-----------------------------------------------------------------------------
(* The driver moves *)

\* The others, who drive nothing, only rely on their attempts being unsettled.
LEMMA DriverStep ==
    ASSUME Inv, Inv', FilesInv, NEW p \in Proc, \A q \in Proc \ {p} : LocalKept(q),
           pc[p] \in DriverPC \/ NobodyDrives, started <= started',
           pc'[p] \in DriverPC \cup {"idle"},
           \A q \in Proc \ {p}, a \in AttemptId :
              pc[q] \in Closing /\ mine[q] = a /\ Unsettled(a) => Unsettled(a)',
           SettledFiles', WorkspaceFromAccepted', KnowsItsFiles(p)'
    PROVE  FilesInv'
<1>1. \A q \in Proc \ {p} : pc[q] \notin DriverPC
  BY DEF FilesInv, DriversAlone, NobodyDrives
<1>2. DriversAlone'
  BY <1>1 DEF FilesInv, DriversAlone, LocalKept, DriverPC
<1>3. ASSUME NEW q \in Proc \ {p} PROVE KnowsItsFiles(q)'
  <2>1. /\ mine[q] <= started /\ mine[q] \in AttemptId
        /\ pc[q] \in Closing => Unsettled(mine[q])
        /\ started \in Nat /\ started' \in Nat
    BY DEF FilesInv, KnowsItsFiles, Inv, TypeOK, AttemptId
  <2>2. PICK a \in AttemptId : a = mine[q]
    BY <2>1
  <2>3. pc[q] \in Closing => Unsettled(a)'
    BY <2>1, <2>2
  <2>4. pc'[q] \in Closing => Unsettled(mine[q])'
    BY <2>2, <2>3 DEF LocalKept, Unsettled
  <2>5. mine'[q] <= started' /\ pc'[q] \notin DriverPC
    BY <1>1, <2>1, <2>2 DEF LocalKept, AttemptId
  <2> QED BY <2>4, <2>5, Onlooker
<1> QED BY <1>2, <1>3 DEF FilesInv

\* The common case: no stage becomes settled and the Workspace stays, or the
\* build is under way.
LEMMA DriverShrinks ==
    ASSUME Inv, Inv', FilesInv, NEW p \in Proc, \A q \in Proc \ {p} : LocalKept(q),
           pc[p] \in DriverPC \/ NobodyDrives, started <= started',
           pc'[p] \in DriverPC \cup {"idle"},
           SettledShrinks, builder' = builder \/ builder'.status # "workspace_ready",
           workspace' = workspace \/ builder.status \in Underway,
           \A s \in AgentStage : Settled(s) => canonical'[s] = canonical[s],
           \A c \in Attempt : ~Unsettled(c) /\ record[c].status \in Unrevoked
                                => record'[c].status \in Unrevoked,
           KnowsItsFiles(p)'
    PROVE  FilesInv'
<1>1. SettledFiles'
  BY SettledFilesKept DEF FilesInv
<1>2. WorkspaceFromAccepted'
  BY WorkspaceKept DEF FilesInv
<1>3. \A a \in AttemptId : Unsettled(a) => Unsettled(a)'
  BY UnsettledKept
<1> QED BY <1>1, <1>2, <1>3, DriverStep

\* A driver that leaves keeps nothing.
LEMMA LeaverKnows ==
    ASSUME Inv, Inv', NEW p \in Proc, Leave(p)
    PROVE  /\ KnowsItsFiles(p)' /\ pc'[p] = "idle"
           /\ \A q \in Proc \ {p} : LocalKept(q)
<1>1. pc'[p] = "idle" /\ mine'[p] = None /\ \A q \in Proc \ {p} : LocalKept(q)
  BY DEF Inv, TypeOK, Leave, LocalKept
<1>2. mine'[p] <= started'
  BY <1>1 DEF Inv, TypeOK, AttemptId, None
<1> QED BY <1>1, <1>2, Onlooker DEF DriverPC, Closing

\* The build is closed as failed.
LEMMA ClosedTurns ==
    ASSUME Inv, Swap(SetFailure(builder))
    PROVE  TurnedOut
<1>1. /\ builder'.status \in Underway /\ builder'.active = None
      /\ builder'.version = builder.version + 1
      /\ builder'.stage = builder.stage /\ builder'.accepted = builder.accepted
  BY SetFailureEffect, SwapEffect DEF Inv, TypeOK, Underway
<1> QED BY <1>1, StayingTurns

\* A driver leaves, and perhaps closes the build.
LEMMA LeaveFiles ==
    ASSUME Inv, Inv', FilesInv, NEW p \in Proc, pc[p] \in DriverPC, Leave(p),
           builder' = builder \/ Swap(SetFailure(builder)),
           UNCHANGED <<record, started, canonical, workspace>>
    PROVE  FilesInv'
<1>1. SettledShrinks /\ (builder' = builder \/ builder'.status # "workspace_ready")
  BY ClosedTurns, NothingSettles DEF TurnedOut
<1>2. started <= started'
  BY DEF Inv, TypeOK, AttemptId
<1> QED BY <1>1, <1>2, LeaverKnows, DriverShrinks

\* A driver at work goes on with its attempt, or gives up on it.
LEMMA WorkerKnows ==
    ASSUME Inv, Inv', FilesInv, NEW p \in Proc, \A q \in Proc \ {p} : LocalKept(q),
           pc[p] \in Working, pc'[p] \in Working \cup {"failing"},
           UNCHANGED <<builder, record, started>>,
           snap'[p] = snap[p], mine'[p] = mine[p],
           pc'[p] = "install" => outcome'[p] = "extend",
           pc'[p] = "accept" /\ outcome'[p] # "not_ok" => canonical'[snap[p].stage] = mine[p]
    PROVE  KnowsItsFiles(p)'
<1>1. KnowsItsFiles(p) /\ mine[p] \in AttemptId
  BY DEF FilesInv, Inv, TypeOK
<1>2. PICK m \in AttemptId : m = mine[p]
  BY <1>1
<1>3. Unsettled(m)'
  BY <1>1, <1>2 DEF KnowsItsFiles, Unsettled, Settled, Past
<1>4. Current(p) => Safe(m)'
  <2>1. \A q \in Proc : pc'[q] \in Closing => pc[q] \in Closing /\ mine'[q] = mine[q]
    BY DEF LocalKept, Closing, Working
  <2> QED BY <1>1, <1>2, <2>1 DEF KnowsItsFiles, Safe
<1>5. snap[p].status = "running" /\ pc[p] \in DriverPC \ {"failing", "mark_failed", "backoff"}
  BY <1>1 DEF KnowsItsFiles, Working, DriverPC
<1>6. /\ mine'[p] <= started' /\ mine'[p] = m
      /\ builder'.status \in {"running", "failed", "cancelled"}
      /\ builder'.stage = snap'[p].stage
      /\ builder'.accepted = snap'[p].accepted
      /\ snap'[p].status = "running"
      /\ pc'[p] \notin {"recorded", "finish", "set_ready"}
  BY <1>1, <1>2, <1>5 DEF KnowsItsFiles, Working
<1> QED BY <1>2, <1>3, <1>4, <1>6 DEF KnowsItsFiles, Unsettled, Safe, Current

\* What a driver that holds a running build knows, before it moves.
LEMMA HoldsRunning ==
    ASSUME Inv, FilesInv, NEW p \in Proc, snap[p].status = "running",
           pc[p] \in DriverPC \ {"failing", "mark_failed", "backoff"}
    PROVE  /\ builder.status \in Underway
           /\ builder.stage = snap[p].stage /\ builder.accepted = snap[p].accepted
           /\ \A s \in AgentStage : Settled(s) => Past(s) /\ s # snap[p].stage
BY OpenStage DEF FilesInv, KnowsItsFiles, Underway

\* The attempt file of a new attempt is that of no other.
LEMMA StartFiles ==
    ASSUME Inv, Inv', FilesInv, NEW p \in Proc, StartAttempt(p)
    PROVE  FilesInv'
<1> USE DEF files
<1>1. /\ TypeOK /\ record \in Records /\ started \in Nat
      /\ started + 1 \in Attempt /\ snap[p].stage \in AgentStage
  BY DEF Inv, TypeOK, Records, StartAttempt, InputsLeft, Attempt, AttemptId
<1>2. PICK a \in Attempt : a = started + 1
  BY <1>1
<1>3. /\ pc'[p] = "recorded" /\ mine'[p] = a /\ snap' = snap
      /\ \A q \in Proc \ {p} : LocalKept(q)
      /\ builder' = builder /\ canonical' = canonical /\ workspace' = workspace
      /\ started' = a
  BY <1>1, <1>2 DEF StartAttempt, TypeOK, Goto, LocalKept
<1>4. /\ record'[a].status = "running"
      /\ \A c \in Attempt : c # a => record'[c] = record[c]
  BY <1>1, <1>2, RecordedEffect DEF StartAttempt
<1>5. Unsettled(a)
  BY <1>1, <1>2, BuilderTypes DEF Inv, AttemptsInOrder, Unsettled
<1>6. SettledShrinks
  BY <1>3, NothingSettles
<1>7. Unsettled(a)'
  BY <1>5, <1>6, UnsettledKept
<1>8. \A q \in Proc : mine[q] # a
  BY <1>1, <1>2 DEF FilesInv, KnowsItsFiles, Inv, TypeOK, AttemptId
<1>9. Safe(a)'
  BY <1>3, <1>4, <1>8 DEF Safe, LocalKept, Closing
<1>10. builder'.active # a
  BY <1>1, <1>2, <1>3, BuilderTypes DEF Inv, AttemptsInOrder
<1>11. pc[p] = "loop" /\ snap[p].status = "running"
  BY DEF StartAttempt
<1>12. /\ builder.status \in Underway
       /\ builder.stage = snap[p].stage /\ builder.accepted = snap[p].accepted
  BY <1>11, HoldsRunning DEF DriverPC
<1>13. KnowsItsFiles(p)'
  BY <1>2, <1>3, <1>7, <1>9, <1>10, <1>12
     DEF KnowsItsFiles, Unsettled, Safe, Working, Closing, Underway, Attempt
<1>14. /\ pc[p] \in DriverPC /\ pc'[p] \in DriverPC \cup {"idle"} /\ started <= started'
  BY <1>1, <1>2, <1>3, <1>11 DEF DriverPC
<1>15. \A c \in Attempt : ~Unsettled(c) => record'[c] = record[c]
  BY <1>4, <1>5
<1> QED BY <1>3, <1>6, <1>13, <1>14, <1>15, DriverShrinks

\* The Session is taken for the attempt, which nobody is about to close; or the
\* copy is stale and the attempt, on which nothing relies, is closed.
LEMMA MarkFiles ==
    ASSUME Inv, Inv', FilesInv, NEW p \in Proc, MarkRunning(p)
    PROVE  FilesInv'
<1> USE DEF files
<1>1. /\ TypeOK /\ record \in Records /\ mine[p] \in AttemptId /\ pc[p] = "recorded"
      /\ builder \in BuildState /\ pc[p] \in DriverPC /\ started \in Nat
      /\ UNCHANGED <<started, canonical, workspace>>
  BY DEF Inv, TypeOK, Records, MarkRunning, DriverPC, AttemptId
<1>2. PICK m \in AttemptId : m = mine[p]
  BY <1>1
<1>3. /\ Safe(m) /\ Unsettled(m) /\ m <= started /\ KnowsItsAttempt(p)
  BY <1>1, <1>2 DEF FilesInv, KnowsItsFiles, Inv
<1>4. CASE Current(p)
  <2>1. /\ Swap(Running(builder, m)) /\ snap'[p] = builder' /\ pc'[p] = "agent"
        /\ record' = record /\ mine'[p] = m
        /\ \A q \in Proc \ {p} : LocalKept(q)
    BY <1>1, <1>2, <1>4 DEF MarkRunning, TypeOK, Hold, Goto, LocalKept
  <2>2. snap[p] = builder
    BY <1>1, <1>4, Holding DEF Holders
  <2>3. Begins
    BY <1>1, <1>2, <1>3, <2>1, <2>2 DEF Begins, KnowsItsAttempt
  <2>4. SettledShrinks /\ builder'.status # "workspace_ready"
    BY <2>3, BeginsEffect
  <2>5. Unsettled(m)'
    BY <1>3, <2>4, UnsettledKept
  <2>6. Safe(m)'
    BY <1>3, <2>1 DEF Safe, LocalKept, Closing
  <2>7. builder'.status = "running"
    <3> DEFINE b == Running(builder, m)
    <3>1. b \in BuildState /\ b.status = "running"
      BY <1>1, RunningEffect
    <3>2. Swap(b)
      BY <2>1
    <3> HIDE DEF b
    <3> QED BY <1>1, <3>1, <3>2, SwapEffect
  <2>8. KnowsItsFiles(p)'
    BY <1>1, <1>3, <2>1, <2>5, <2>6, <2>7 DEF KnowsItsFiles, Unsettled, Safe
  <2>9. pc'[p] \in DriverPC \cup {"idle"} /\ started <= started'
    BY <1>1, <2>1 DEF DriverPC
  <2> QED BY <1>1, <2>1, <2>4, <2>8, <2>9, DriverShrinks
<1>5. CASE ~Current(p)
  <2>1. record' = Finished(m, "failed") /\ Leave(p) /\ builder' = builder
    BY <1>1, <1>2, <1>5 DEF MarkRunning
  <2>2. SettledShrinks
    BY <2>1, NothingSettles
  <2>3. \A c \in Attempt : c # m => record'[c] = record[c]
    BY <1>1, <2>1, FinishedOther
  <2>4. \A c \in Attempt : ~Unsettled(c) => record'[c] = record[c]
    BY <1>3, <2>3
  <2>5. started <= started'
    BY <1>1
  <2> QED BY <1>1, <2>1, <2>2, <2>4, <2>5, LeaverKnows, DriverShrinks
<1> QED BY <1>4, <1>5

\* The Subagent's result leaves everything as it is.
LEMMA AgentFiles ==
    ASSUME Inv, Inv', FilesInv, NEW p \in Proc, AgentReturns(p)
    PROVE  FilesInv'
<1> USE DEF files, session
<1>1. /\ TypeOK /\ pc[p] = "agent" /\ pc[p] \in Working /\ pc[p] \in DriverPC
      /\ UNCHANGED <<builder, record, started, canonical, workspace, snap, mine>>
  BY DEF Inv, AgentReturns, Working, DriverPC
<1>2. /\ pc'[p] \in {"failing", "install", "accept", "publish"}
      /\ pc'[p] = "install" => outcome'[p] = "extend"
      /\ pc'[p] = "accept" => outcome'[p] = "not_ok"
      /\ \A q \in Proc \ {p} : LocalKept(q)
  <2>1. PICK o \in PossibleResults(snap[p].stage) \cup {"not_ok"} \cup Exceptions :
          LET lost == o \notin Exceptions /\ ~IsActive(mine[p])
          IN  /\ outcome' = [outcome EXCEPT ![p] = IF lost THEN "cancelled" ELSE o]
              /\ Goto(p, IF lost \/ o \in Exceptions THEN "failing"
                         ELSE CASE o = "extend" -> "install"
                                [] o = "not_ok" -> "accept"
                                [] OTHER        -> "publish")
    BY DEF AgentReturns
  <2>2. \A q \in Proc \ {p} : LocalKept(q)
    BY <1>1, <2>1 DEF TypeOK, LocalKept, Goto
  <2>3. CASE o \in Exceptions \/ ~IsActive(mine[p])
    BY <1>1, <2>1, <2>2, <2>3 DEF TypeOK, Goto
  <2>4. CASE o \notin Exceptions /\ IsActive(mine[p])
    BY <1>1, <2>1, <2>2, <2>4 DEF TypeOK, Goto
  <2> QED BY <2>3, <2>4
<1>3. KnowsItsFiles(p)'
  BY <1>1, <1>2, WorkerKnows DEF Working
<1>4. started <= started' /\ pc'[p] \in DriverPC
  BY <1>1, <1>2 DEF TypeOK, AttemptId, DriverPC
<1>5. SettledShrinks
  BY <1>1, NothingSettles
<1> QED BY <1>1, <1>2, <1>3, <1>4, <1>5, DriverShrinks

\* Another Session's Workspace is installed only before anything is settled.
LEMMA InstallFiles ==
    ASSUME Inv, Inv', FilesInv, NEW p \in Proc, InstallBaseline(p)
    PROVE  FilesInv'
<1> USE DEF files
<1>1. /\ TypeOK /\ pc[p] = "install" /\ pc[p] \in Working /\ pc[p] \in DriverPC
      /\ UNCHANGED <<builder, record, started, snap, mine>>
  BY DEF Inv, InstallBaseline, Working, DriverPC
<1>2. /\ pc'[p] \in {"failing", "publish"} /\ \A q \in Proc \ {p} : LocalKept(q)
  BY <1>1 DEF InstallBaseline, TypeOK, Goto, LocalKept
<1>3. KnowsItsFiles(p)'
  BY <1>1, <1>2, WorkerKnows DEF Working
<1>4. started <= started' /\ pc'[p] \in DriverPC
  BY <1>1, <1>2 DEF TypeOK, AttemptId, DriverPC
<1>5. SettledShrinks
  BY <1>1, NothingSettles
<1>6. snap[p].status = "running" /\ outcome[p] = "extend"
  BY <1>1 DEF FilesInv, KnowsItsFiles
<1>7. snap[p].stage = "problem"
  BY <1>1, <1>6 DEF Inv, KnowsItsAttempt, PossibleResults
<1>8. builder.status \in Underway /\ \A s \in AgentStage : ~Settled(s)
  BY <1>1, <1>6, <1>7, HoldsRunning, NothingPastProblem
<1> QED BY <1>1, <1>2, <1>3, <1>4, <1>5, <1>8, DriverShrinks

\* A result is published at a stage that is not settled.
LEMMA ResultFiles ==
    ASSUME Inv, Inv', FilesInv, NEW p \in Proc, PublishResult(p)
    PROVE  FilesInv'
<1>1. /\ TypeOK /\ pc[p] = "publish" /\ pc[p] \in Working /\ pc[p] \in DriverPC
      /\ UNCHANGED <<builder, record, started, snap, mine, workspace>>
  BY DEF Inv, PublishResult, Working, DriverPC
<1>2. snap[p].status = "running" /\ snap[p].stage \in AgentStage
  BY <1>1 DEF FilesInv, KnowsItsFiles, Inv, KnowsItsAttempt
<1>3. /\ pc'[p] \in {"failing", "accept"} /\ \A q \in Proc \ {p} : LocalKept(q)
      /\ pc'[p] = "accept" => canonical'[snap[p].stage] = mine[p]
      /\ \A s \in AgentStage : s # snap[p].stage => canonical'[s] = canonical[s]
  BY <1>1, <1>2 DEF PublishResult, TypeOK, Goto, LocalKept
<1>4. KnowsItsFiles(p)'
  BY <1>1, <1>3, WorkerKnows DEF Working
<1>5. started <= started' /\ pc'[p] \in DriverPC
  BY <1>1, <1>3 DEF TypeOK, AttemptId, DriverPC
<1>6. SettledShrinks
  BY <1>1, NothingSettles
<1>7. \A s \in AgentStage : Settled(s) => s # snap[p].stage
  BY <1>1, <1>2, HoldsRunning
<1> QED BY <1>1, <1>3, <1>4, <1>5, <1>6, <1>7, DriverShrinks

\* The accepted attempt is the one whose artifact is in the stage files, and its
\* file still runs; a result that counts as failed settles nothing.
LEMMA AcceptFiles ==
    ASSUME Inv, Inv', FilesInv, NEW p \in Proc, Accept(p)
    PROVE  FilesInv'
<1> USE DEF files
<1>1. /\ TypeOK /\ pc[p] = "accept" /\ pc[p] \in Working /\ pc[p] \in DriverPC
      /\ UNCHANGED <<record, started, canonical, workspace, mine>>
      /\ KnowsItsFiles(p) /\ KnowsItsAttempt(p) /\ mine[p] \in AttemptId
  BY DEF Inv, TypeOK, Accept, Working, DriverPC, FilesInv
<1>2. started <= started'
  BY <1>1 DEF TypeOK, AttemptId
<1>3. CASE ~Current(p)
  <2>1. /\ pc'[p] = "failing" /\ \A q \in Proc \ {p} : LocalKept(q)
        /\ UNCHANGED <<builder, snap>>
    BY <1>1, <1>3 DEF Accept, TypeOK, Goto, LocalKept
  <2>2. KnowsItsFiles(p)'
    BY <1>1, <2>1, WorkerKnows
  <2>3. SettledShrinks
    BY <2>1, NothingSettles
  <2>4. pc'[p] \in DriverPC
    BY <2>1 DEF DriverPC
  <2> QED BY <1>1, <1>2, <2>1, <2>2, <2>3, <2>4, DriverShrinks
<1>4. CASE Current(p)
  <2>1. PICK m \in AttemptId : m = mine[p]
    BY <1>1
  <2>2. PICK o \in PossibleResults(builder.stage) \cup {"not_ok"} : o = outcome[p]
    BY <1>1, <1>4, Holding DEF KnowsItsAttempt, Holders
  <2>3. /\ snap[p] = builder /\ builder.active = m /\ m # None /\ builder.stage \in AgentStage
        /\ builder.status = "running"
    BY <1>1, <1>4, <2>1, Holding DEF KnowsItsAttempt, Holders, BuilderInv, OwnedAttempt
  <2>4. Swap(Accepted(builder, builder.active, o))
    BY <1>4, <2>1, <2>2, <2>3 DEF Accept
  <2>5. /\ snap'[p] = builder' /\ pc'[p] = "finish" /\ mine'[p] = m /\ outcome'[p] = o
        /\ \A q \in Proc \ {p} : LocalKept(q)
    BY <1>1, <1>4, <2>1, <2>2 DEF Accept, TypeOK, Hold, Goto, LocalKept
  <2>6. /\ builder'.status # "workspace_ready"
        /\ builder'.accepted = [builder.accepted EXCEPT ![builder.stage] = m]
        /\ \A s \in AgentStage : Settled(s)' =>
              \/ Settled(s) /\ s # builder.stage
              \/ s = builder.stage /\ o # "not_ok"
    BY <2>3, <2>4, DeliversEffect
  <2>7. /\ builder'.accepted[builder.stage] = m
        /\ \A s \in AgentStage : s # builder.stage => builder'.accepted[s] = builder.accepted[s]
    BY <1>1, <2>3, <2>6, BuilderTypes
  <2>8. /\ Safe(m) /\ Unsettled(m) /\ m \in Attempt
        /\ o # "not_ok" => canonical[builder.stage] = m
    BY <1>1, <1>4, <2>1, <2>2, <2>3 DEF KnowsItsFiles, AttemptId, Attempt, None
  <2>9. SettledFiles'
    <3> SUFFICES ASSUME NEW s \in AgentStage, Settled(s)'
                 PROVE  /\ canonical'[s] = builder'.accepted[s]
                        /\ record'[builder'.accepted[s]].status \in {"running", "completed"}
      BY DEF SettledFiles
    <3>1. CASE Settled(s) /\ s # builder.stage
      BY <1>1, <2>7, <3>1 DEF FilesInv, SettledFiles
    <3>2. CASE s = builder.stage /\ o # "not_ok"
      BY <1>1, <2>7, <2>8, <3>2 DEF Safe
    <3> QED BY <2>6, <3>1, <3>2
  <2>10. WorkspaceFromAccepted'
    BY <2>6 DEF WorkspaceFromAccepted
  <2>11. \A q \in Proc \ {p}, a \in AttemptId :
            pc[q] \in Closing /\ mine[q] = a /\ Unsettled(a) => Unsettled(a)'
    <3> SUFFICES ASSUME NEW q \in Proc \ {p}, NEW a \in AttemptId, pc[q] \in Closing,
                        mine[q] = a, Unsettled(a), NEW s \in AgentStage, Settled(s)'
                 PROVE  builder'.accepted[s] # a
      BY DEF Unsettled
    <3>1. a # m
      BY <2>8 DEF Safe
    <3> QED BY <2>6, <2>7, <3>1 DEF Unsettled
  <2>12. o = "not_ok" => Unsettled(m)'
    BY <2>6, <2>7, <2>8 DEF Unsettled
  <2>13. KnowsItsFiles(p)'
    <3>1. mine'[p] <= started'
      BY <1>1, <2>1, <2>5 DEF KnowsItsFiles
    <3>2. builder'.status = "running" => builder'.status \in Underway
      BY DEF Underway
    <3> QED BY <2>5, <2>12, <3>1, <3>2
            DEF KnowsItsFiles, Unsettled, Working, Closing, Underway
  <2>14. pc'[p] \in DriverPC
    BY <2>5 DEF DriverPC
  <2> QED BY <1>1, <1>2, <2>5, <2>9, <2>10, <2>11, <2>13, <2>14, DriverStep
<1> QED BY <1>3, <1>4

\* The attempt file is completed, or failed when nothing relies on it. A file
\* that says something else belongs to an attempt that nothing relies on.
LEMMA FinishFiles ==
    ASSUME Inv, Inv', FilesInv, NEW p \in Proc, FinishAttempt(p)
    PROVE  FilesInv'
<1> USE DEF files
<1> DEFINE status == IF outcome[p] = "not_ok" THEN "failed" ELSE "completed"
<1>1. /\ TypeOK /\ record \in Records /\ pc[p] = "finish" /\ pc[p] \in DriverPC
      /\ UNCHANGED <<builder, started, canonical, workspace, snap>>
      /\ KnowsItsFiles(p) /\ mine[p] \in AttemptId /\ mine[p] # None
  BY DEF Inv, TypeOK, Records, FinishAttempt, DriverPC, FilesInv, KnowsItsAttempt
<1>2. PICK m \in Attempt : m = mine[p]
  BY <1>1 DEF AttemptId, Attempt, None
<1>3. /\ record' = Finished(m, status)
      /\ pc'[p] \in {"loop", "failing"}
      /\ pc'[p] = "failing" => record'[m].status # status /\ mine'[p] = m
      /\ pc'[p] = "loop" => mine'[p] = None
      /\ \A q \in Proc \ {p} : LocalKept(q)
  BY <1>1, <1>2 DEF FinishAttempt, TypeOK, Goto, LocalKept
<1>4. status \in AttemptStatus /\ (outcome[p] = "not_ok" => Unsettled(m))
      /\ (outcome[p] # "not_ok" => status = "completed")
  BY <1>1, <1>2 DEF KnowsItsFiles, AttemptStatus
<1> HIDE DEF status
<1>5. /\ record[m].status = "running" => record'[m].status = status
      /\ record[m].status # "running" => record'[m].status = record[m].status
      /\ \A c \in Attempt : c # m => record'[c] = record[c]
  BY <1>1, <1>3, <1>4, FinishedRunning, FinishedOther
<1>6. \A c \in Attempt : ~Unsettled(c) /\ record[c].status \in Unrevoked
                            => record'[c].status \in Unrevoked
  BY <1>4, <1>5 DEF Unrevoked
<1>7. SettledShrinks
  BY <1>1, NothingSettles
<1>8. pc'[p] = "failing" => Unsettled(m)
  <2>1. ~Unsettled(m) => record[m].status \in Unrevoked
    BY DEF FilesInv, SettledFiles, Unsettled, Unrevoked
  <2> QED BY <1>3, <1>4, <1>5, <2>1 DEF Unrevoked
<1>9. pc'[p] = "failing" => Unsettled(m)'
  BY <1>7, <1>8, UnsettledKept
<1>10. mine'[p] <= started'
  BY <1>1, <1>2, <1>3 DEF KnowsItsFiles, TypeOK, AttemptId, None
<1>11. snap[p].status = "running" =>
          /\ builder.status \in Underway
          /\ builder.stage = snap[p].stage /\ builder.accepted = snap[p].accepted
  BY <1>1, HoldsRunning
<1>12. KnowsItsFiles(p)'
  BY <1>1, <1>3, <1>9, <1>10, <1>11 DEF KnowsItsFiles, Unsettled, Working, Closing, Underway
<1>13. pc'[p] \in DriverPC /\ started <= started'
  BY <1>1, <1>3 DEF DriverPC, TypeOK, AttemptId
<1> QED BY <1>1, <1>3, <1>6, <1>7, <1>12, <1>13, DriverShrinks

\* A failing attempt is one that nothing relies on.
LEMMA FailFiles ==
    ASSUME Inv, Inv', FilesInv, NEW p \in Proc, FailAttempt(p)
    PROVE  FilesInv'
<1> USE DEF files
<1>1. /\ TypeOK /\ record \in Records /\ pc[p] = "failing" /\ pc[p] \in DriverPC
      /\ UNCHANGED <<builder, started, canonical, workspace, snap, mine>>
      /\ KnowsItsFiles(p) /\ mine[p] \in AttemptId
  BY DEF Inv, TypeOK, Records, FailAttempt, DriverPC, FilesInv
<1>2. PICK m \in AttemptId : m = mine[p]
  BY <1>1
<1>3. /\ \E status \in AttemptStatus : record' = Finished(m, status)
      /\ pc'[p] = "mark_failed" /\ mine'[p] = m
      /\ \A q \in Proc \ {p} : LocalKept(q)
  BY <1>1, <1>2 DEF FailAttempt, TypeOK, Goto, LocalKept, AttemptStatus
<1>4. Unsettled(m) /\ m <= started
  BY <1>1, <1>2 DEF KnowsItsFiles
<1>5. \A c \in Attempt : ~Unsettled(c) => record'[c] = record[c]
  BY <1>1, <1>3, <1>4, FinishedOther
<1>6. SettledShrinks
  BY <1>1, NothingSettles
<1>7. Unsettled(m)'
  BY <1>4, <1>6, UnsettledKept
<1>8. KnowsItsFiles(p)'
  BY <1>1, <1>3, <1>4, <1>7 DEF KnowsItsFiles, Unsettled, Working, Closing
<1>9. pc'[p] \in DriverPC /\ started <= started'
  BY <1>1, <1>3 DEF DriverPC, TypeOK, AttemptId
<1> QED BY <1>1, <1>3, <1>5, <1>6, <1>8, <1>9, DriverShrinks

\* A driver that takes a copy of what builder.json becomes knows it well.
LEMMA FreshKnows ==
    ASSUME Inv', NEW p \in Proc, snap'[p] = builder', mine'[p] <= started',
           pc'[p] \in {"loop", "backoff"}
    PROVE  KnowsItsFiles(p)'
BY DEF KnowsItsFiles, Working, Closing, Underway

\* The failure is recorded in builder.json, or the driver goes on with what is there.
LEMMA MarkFailedFiles ==
    ASSUME Inv, Inv', FilesInv, NEW p \in Proc, MarkFailed(p)
    PROVE  FilesInv'
<1> USE DEF files
<1>1. /\ TypeOK /\ pc[p] = "mark_failed" /\ pc[p] \in DriverPC
      /\ UNCHANGED <<record, started, canonical, workspace>>
      /\ KnowsItsFiles(p) /\ mine[p] \in AttemptId /\ KnowsItsAttempt(p)
  BY DEF Inv, TypeOK, MarkFailed, DriverPC, FilesInv
<1>2. /\ snap'[p] = builder' /\ pc'[p] \in {"loop", "backoff"}
      /\ mine'[p] \in {None, mine[p]} /\ \A q \in Proc \ {p} : LocalKept(q)
  BY <1>1 DEF MarkFailed, TypeOK, Hold, Goto, LocalKept
<1>3. builder' = builder \/ TurnedOut
  <2>1. CASE Current(p) /\ builder.active = mine[p]
    <3>1. Swap(Failed(builder, outcome[p]))
      BY <2>1 DEF MarkFailed
    <3>2. builder.status = "running"
      BY <1>1, <2>1 DEF KnowsItsAttempt, Inv, OwnedAttempt
    <3>3. Stops
      BY <1>1, <3>1, <3>2 DEF KnowsItsAttempt, Stops
    <3> QED BY <3>3, TurnsEffect DEF Turns
  <2>2. CASE ~(Current(p) /\ builder.active = mine[p])
    BY <2>2 DEF MarkFailed
  <2> QED BY <2>1, <2>2
<1>4. SettledShrinks /\ (builder' = builder \/ builder'.status # "workspace_ready")
  BY <1>3, NothingSettles DEF TurnedOut
<1>5. mine'[p] <= started' /\ started <= started'
  BY <1>1, <1>2 DEF KnowsItsFiles, TypeOK, AttemptId, None
<1>6. KnowsItsFiles(p)'
  BY <1>2, <1>5, FreshKnows
<1>7. pc'[p] \in DriverPC
  BY <1>2 DEF DriverPC
<1> QED BY <1>1, <1>2, <1>4, <1>5, <1>6, <1>7, DriverShrinks

\* A transient failure is retried at the stage it happened at.
LEMMA RetryFiles ==
    ASSUME Inv, Inv', FilesInv, NEW p \in Proc, RetryTransient(p)
    PROVE  FilesInv'
<1> USE DEF files
<1>1. /\ TypeOK /\ pc[p] = "backoff" /\ pc[p] \in DriverPC /\ started <= started'
      /\ UNCHANGED <<record, started, canonical, workspace>>
  BY DEF Inv, TypeOK, RetryTransient, DriverPC, AttemptId
<1> DEFINE owns == Current(p) /\ builder.status = "failed" /\ builder.stage = record[mine[p]].stage
<1>2. CASE owns
  <2>1. /\ Swap(Restored(builder)) /\ builder.status = "failed"
        /\ snap'[p] = builder' /\ pc'[p] = "loop" /\ mine'[p] = None
        /\ \A q \in Proc \ {p} : LocalKept(q)
    BY <1>1, <1>2 DEF RetryTransient, TypeOK, Hold, Goto, LocalKept
  <2>2. TurnedOut
    <3>1. Turns
      BY <2>1 DEF GoesOn, Turns
    <3> QED BY <3>1, TurnsEffect
  <2>3. KnowsItsFiles(p)'
    BY <1>1, <2>1, FreshKnows DEF TypeOK, AttemptId, None
  <2>4. pc'[p] \in DriverPC
    BY <2>1 DEF DriverPC
  <2> QED BY <1>1, <2>1, <2>2, <2>3, <2>4, DriverShrinks DEF TurnedOut
<1>3. CASE ~owns
  BY <1>1, <1>3, LeaveFiles DEF RetryTransient
<1> QED BY <1>2, <1>3

\* The Workspace is replaced from the settled stages.
LEMMA WorkspaceFiles ==
    ASSUME Inv, Inv', FilesInv, NEW p \in Proc, PublishWorkspace(p)
    PROVE  FilesInv'
<1>1. /\ TypeOK /\ pc[p] = "loop" /\ pc[p] \in DriverPC /\ started <= started'
      /\ UNCHANGED <<record, started, canonical>>
      /\ snap[p].status = "running" /\ snap[p].stage = "finalize"
  BY DEF Inv, TypeOK, PublishWorkspace, DriverPC, AttemptId
<1>2. CASE workspace' = Publication(snap[p]) /\ Goto(p, "set_ready")
           /\ UNCHANGED <<builder, snap, mine, outcome, tries>>
  <2>1. /\ pc'[p] = "set_ready" /\ snap'[p] = snap[p] /\ mine'[p] = mine[p]
        /\ \A q \in Proc \ {p} : LocalKept(q)
    BY <1>1, <1>2 DEF TypeOK, Goto, LocalKept
  <2>2. /\ builder.status \in Underway
        /\ builder.stage = "finalize" /\ builder.accepted = snap[p].accepted
    BY <1>1, HoldsRunning
  <2>3. \A s \in {"extract", "structured_extract", "document"} :
           s \in AgentStage /\ Past(s) /\ Settled(s) /\ builder.accepted[s] # None
    BY <2>2, StageFacts, AgentStageFacts DEF Past, Precedes, Settled, Inv, StagesInOrder
  <2>4. canonical["document"] = builder.accepted["document"]
    BY <2>3 DEF FilesInv, SettledFiles
  <2>5. /\ workspace'.readme = snap'[p].accepted["document"]
        /\ {snap'[p].accepted["extract"], snap'[p].accepted["structured_extract"]}
              \subseteq workspace'.facts
    BY <1>2, <2>1, <2>2, <2>3, <2>4 DEF Publication
  <2>6. SettledShrinks /\ mine'[p] <= started'
    BY <1>1, <1>2, <2>1, NothingSettles DEF FilesInv, KnowsItsFiles
  <2>7. KnowsItsFiles(p)'
    BY <1>1, <1>2, <2>1, <2>2, <2>5, <2>6 DEF KnowsItsFiles, Working, Closing, Underway
  <2>8. pc'[p] \in DriverPC
    BY <2>1 DEF DriverPC
  <2> QED BY <1>1, <1>2, <2>1, <2>2, <2>6, <2>7, <2>8, DriverShrinks
<1>3. CASE /\ IF Current(p) THEN Swap(SetFailure(builder)) ELSE UNCHANGED builder
           /\ Leave(p) /\ UNCHANGED workspace
  BY <1>1, <1>3, LeaveFiles
<1> QED BY <1>2, <1>3 DEF PublishWorkspace

\* The build is completed with the Workspace its driver published.
LEMMA ReadyFiles ==
    ASSUME Inv, Inv', FilesInv, NEW p \in Proc, SetReady(p)
    PROVE  FilesInv'
<1> USE DEF files
<1>1. /\ TypeOK /\ pc[p] = "set_ready" /\ pc[p] \in DriverPC /\ started <= started'
      /\ UNCHANGED <<record, started, canonical, workspace>> /\ Leave(p)
      /\ KnowsItsFiles(p) /\ KnowsItsAttempt(p)
  BY DEF Inv, TypeOK, SetReady, DriverPC, AttemptId, FilesInv
<1>2. CASE ~Current(p)
  BY <1>1, <1>2, LeaveFiles DEF SetReady
<1>3. CASE Current(p)
  <2>1. snap[p] = builder
    BY <1>1, <1>3, Holding DEF Holders
  <2>2. Publishes
    BY <1>1, <1>3, <2>1 DEF SetReady, Publishes, KnowsItsAttempt
  <2>3. SettledShrinks /\ builder'.accepted = builder.accepted
    BY <2>2, PublishesEffect
  <2>4. SettledFiles'
    BY <1>1, <2>3, SettledFilesKept DEF FilesInv
  <2>5. WorkspaceFromAccepted'
    BY <1>1, <2>1, <2>3 DEF KnowsItsFiles, WorkspaceFromAccepted
  <2>6. \A a \in AttemptId : Unsettled(a) => Unsettled(a)'
    BY <2>3, UnsettledKept
  <2> QED BY <1>1, <2>4, <2>5, <2>6, LeaverKnows, DriverStep
<1> QED BY <1>2, <1>3

-----------------------------------------------------------------------------
(* The invariant holds *)

\* Every step of a driving process.
LEMMA DriveFiles ==
    ASSUME Inv, Inv', FilesInv, NEW p \in Proc, Drive(p)
    PROVE  FilesInv'
<1> USE DEF session, files, local
<1>1. CASE LeaveLoop(p)
  BY <1>1, LeaveFiles DEF LeaveLoop, DriverPC
<1>2. CASE FailRevisionLimit(p)
  BY <1>2, LeaveFiles DEF FailRevisionLimit, DriverPC
<1>3. CASE FailPreflight(p)
  BY <1>3, LeaveFiles DEF FailPreflight, DriverPC
<1> QED BY <1>1, <1>2, <1>3, StartFiles, MarkFiles, AgentFiles, InstallFiles, ResultFiles,
           AcceptFiles, FinishFiles, FailFiles, MarkFailedFiles, RetryFiles, WorkspaceFiles,
           ReadyFiles DEF Drive

\* A driver begins when no other drives.
LEMMA ResumeFiles ==
    ASSUME Exclusive, Inv, Inv', FilesInv, NEW p \in Proc, Resume(p)
    PROVE  FilesInv'
<1> USE DEF session, files
<1>1. /\ TypeOK /\ NobodyDrives /\ builder' = builder /\ mine' = mine /\ started <= started'
      /\ UNCHANGED <<record, started, canonical, workspace>>
  BY DEF Inv, TypeOK, Resume, AttemptId
<1>2. /\ snap'[p] = builder' /\ pc'[p] = "loop"
      /\ \A q \in Proc \ {p} : LocalKept(q)
  BY <1>1 DEF Resume, TypeOK, Goto, Hold, LocalKept
<1>3. mine'[p] <= started'
  BY <1>1 DEF FilesInv, KnowsItsFiles
<1>4. KnowsItsFiles(p)'
  BY <1>2, <1>3, FreshKnows
<1>5. pc'[p] \in DriverPC
  BY <1>2 DEF DriverPC
<1> QED BY <1>1, <1>2, <1>4, <1>5, NothingSettles, DriverShrinks

\* A killed process leaves its files as they are.
LEMMA CrashFiles ==
    ASSUME Inv, Inv', FilesInv, NEW p \in Proc, Crash(p)
    PROVE  FilesInv'
<1> USE DEF session, files
<1>1. /\ TypeOK /\ builder' = builder /\ Leave(p) /\ started <= started'
      /\ UNCHANGED <<record, started, canonical, workspace>>
  BY DEF Inv, TypeOK, Crash, AttemptId
<1>2. /\ pc'[p] = "idle" /\ mine'[p] = None /\ \A q \in Proc \ {p} : LocalKept(q)
  BY <1>1 DEF TypeOK, Leave, LocalKept
<1>3. SafeKept
  BY <1>1, <1>2 DEF SafeKept, Safe, LocalKept, Closing
<1>4. mine'[p] <= started' /\ pc'[p] \notin Closing
  BY <1>1, <1>2 DEF TypeOK, AttemptId, None, Closing
<1> DEFINE P == {p}
<1>5. P \in SUBSET Proc /\ \A q \in P : q = p
  OBVIOUS
<1>6. \A q \in Proc \ P : LocalKept(q)
  BY <1>2
<1> HIDE DEF P
<1>7. \A q \in P : /\ pc'[q] \in {"idle"} \cup Closing
                   /\ mine'[q] <= started'
                   /\ pc'[q] \in Closing => Unsettled(mine[q])'
  BY <1>2, <1>4, <1>5
<1> QED BY <1>1, <1>3, <1>5, <1>6, <1>7, OutsideStep

\* A new Session has no files yet.
LEMMA FilesInit == Init => FilesInv
<1> SUFFICES ASSUME Init PROVE FilesInv
  OBVIOUS
<1>1. builder.status = "running" /\ builder.stage = "problem"
  BY DEF Init, NewBuild
<1>2. \A s \in AgentStage : ~Settled(s)
  BY <1>1, NothingPastProblem DEF Settled
<1>3. \A q \in Proc : pc[q] = "idle" /\ mine[q] <= started
  BY DEF Init, None
<1> QED BY <1>1, <1>2, <1>3 DEF FilesInv, DriversAlone, SettledFiles, WorkspaceFromAccepted,
           KnowsItsFiles, DriverPC, Working, Closing

\* Every step keeps the invariant of the files.
LEMMA FilesStep ==
    ASSUME Exclusive, MaxRecoveries = 0, Inv, Inv', FilesInv, [Next]_vars
    PROVE  FilesInv'
<1>1. CASE UNCHANGED vars
  BY <1>1 DEF vars, session, files, local, FilesInv, DriversAlone, SettledFiles, Settled, Past,
     WorkspaceFromAccepted, KnowsItsFiles, Unsettled, Safe, Current
<1> QED BY <1>1, CommandFiles, ResumeFiles, DriveFiles, InterruptFiles, CrashFiles DEF Next

\* While drivers exclude each other and no recovery pass runs, the files of a
\* Session agree with builder.json in every state, whatever is cancelled,
\* retried, revised, followed up or killed in between.
THEOREM FilesInvariance ==
    ASSUME Exclusive, MaxRecoveries = 0
    PROVE  Spec => []FilesInv
<1>1. Inv /\ Inv' /\ FilesInv /\ [Next]_vars => FilesInv'
  BY FilesStep
<1> QED BY <1>1, FilesInit, Invariance, PTL DEF Spec

\* A completed Workspace holds the facts and the README of accepted attempts.
THEOREM WorkspaceIsFromAccepted ==
    ASSUME Exclusive, MaxRecoveries = 0
    PROVE  Spec => []WorkspaceFromAccepted
<1>1. FilesInv => WorkspaceFromAccepted
  BY DEF FilesInv
<1> QED BY <1>1, FilesInvariance, PTL

\* The stage files of a complete build are those of its accepted attempts.
THEOREM StageFilesAreAccepted ==
    ASSUME Exclusive, MaxRecoveries = 0
    PROVE  Spec => []StageFilesAccepted
<1>1. Inv /\ FilesInv => StageFilesAccepted
  <2> SUFFICES ASSUME Inv, FilesInv, builder.status = "workspace_ready", NEW s \in AgentStage
               PROVE  canonical[s] = builder.accepted[s]
    BY DEF StageFilesAccepted
  <2>1. Past(s)
    BY StageFacts, AgentStageFacts DEF Inv, StatusFitsStage, Past, Precedes
  <2> QED BY <2>1 DEF FilesInv, SettledFiles, Settled
<1> QED BY <1>1, Invariance, FilesInvariance, PTL

\* What the build relies on is never an attempt whose file says it failed.
THEOREM AcceptedStaysUnrevoked ==
    ASSUME Exclusive, MaxRecoveries = 0
    PROVE  Spec => []AcceptedNotRevoked
<1>1. FilesInv => AcceptedNotRevoked
  BY DEF FilesInv, SettledFiles, Settled, AcceptedNotRevoked
<1> QED BY <1>1, FilesInvariance, PTL
=============================================================================
