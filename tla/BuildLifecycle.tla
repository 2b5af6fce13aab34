--------------------------- MODULE BuildLifecycle ---------------------------
(***************************************************************************)
(* One Builder Session: the versioned state file intermediate/builder.json,*)
(* the attempt files, the stage files, the published Workspace, and the    *)
(* processes that read and replace them without talking to each other.     *)
(*                                                                         *)
(* A process either drives the build (Coordinator.run_until_gate and       *)
(* StageRunner.run, a background worker or an embedding program) or        *)
(* issues one command of CommandService or ReviewService. Every change of  *)
(* builder.json is a compare-and-swap on its version, made under the       *)
(* Session lock (BuildStateStore.update); everything else a process does   *)
(* to the Session - attempt files, stage files, the Workspace directory -  *)
(* happens before or after such a swap, in steps of its own.               *)
(*                                                                         *)
(* A command that only loads the state, checks it and swaps it has no      *)
(* effect unless nothing changed in between, so it is one action here. The *)
(* commands that also touch an attempt file keep their separate steps.     *)
(***************************************************************************)
EXTENDS Pipeline

CONSTANTS Proc,            \* processes that may open the Session
          Exclusive,       \* whether a driver starts only when no other drives
          RevisionLimit,   \* schema_revision_limit of the Coordinator
          RetryLimit,      \* transient_retry_limit of the Coordinator
          MaxAttempts,     \* bound: attempts ever started
          MaxCommands,     \* bound: retries, revisions, follow-ups and review saves
          MaxCrashes,      \* bound: processes killed
          MaxRecoveries    \* bound: recovery passes (recover_interrupted)

ASSUME LimitsAssumption == /\ RevisionLimit \in Nat \ {0}
                           /\ RetryLimit \in Nat
\* Background workers are exclusive (launch_background_resume waits for the
\* previous phase); programs that embed the Builder need not be.
ASSUME ExclusiveAssumption == Exclusive \in BOOLEAN
ASSUME BoundsAssumption == /\ MaxAttempts \in Nat
                           /\ MaxCommands \in Nat
                           /\ MaxCrashes \in Nat
                           /\ MaxRecoveries \in Nat

VARIABLES
    builder,    \* builder.json
    record,     \* attempt files: stage and status of each attempt
    started,    \* how many attempt identifiers are taken
    canonical,  \* stages/<stage>/: the attempt whose artifact is there
    baseline,   \* stages/baseline/instances.json: whose facts it holds
    workspace,  \* workspace/: whose facts and whose README are published
    pc,         \* what each process does next
    snap,       \* the builder.json a driving process holds in memory
    mine,       \* the attempt a process works on
    outcome,    \* what became of that attempt
    tries,      \* transient_retries of a driving process, per stage
    spent       \* how much of each bound is used up

files   == <<canonical, baseline, workspace>>
session == <<builder, record, started, files>>
local   == <<pc, snap, mine, outcome, tries>>
vars    == <<session, local, spent>>

-----------------------------------------------------------------------------
(* Values *)

None      == 0                    \* no attempt: the empty identifier
Attempt   == 1..MaxAttempts       \* uuid4 identifiers, in order of creation
AttemptId == 0..MaxAttempts
Imported  == MaxAttempts + 1      \* content copied from another Session's Workspace
Origin    == Attempt \cup {Imported}

Status == {"running", "needs_problem_confirmation", "needs_schema_confirmation",
           "workspace_ready", "failed", "cancelled"}

\* Mutant: a failed build is not over for cancel.
TerminalWithoutFailed == {"workspace_ready", "cancelled"}

Terminal == {"workspace_ready", "failed", "cancelled"}

AttemptStatus == {"absent", "running", "completed", "failed", "cancelled"}

\* schema: whether schema_review.schema_source is the one the judge last passed.
SchemaState == {"none", "unjudged", "judged"}

\* failure: whether _is_transient_failure holds of it.
Failure == {"none", "transient", "permanent"}

BuildState ==
    [version : Nat, status : Status, stage : Stage, active : AttemptId,
     accepted : [AgentStage -> AttemptId],
     problemConfirmed : BOOLEAN, schemaConfirmed : BOOLEAN,
     schema : SchemaState, revalidate : BOOLEAN, rounds : Nat,
     mode : {"new", "extend"}, invalidated : RestartPoint \cup {""},
     replace : BOOLEAN, failure : Failure]

NewBuild ==
    [version |-> 1, status |-> "running", stage |-> "problem", active |-> None,
     accepted |-> [s \in AgentStage |-> None],
     problemConfirmed |-> FALSE, schemaConfirmed |-> FALSE,
     schema |-> "none", revalidate |-> FALSE, rounds |-> 0,
     mode |-> "new", invalidated |-> "", replace |-> FALSE,
     failure |-> "none"]

NoWorkspace == [facts |-> {}, readme |-> None]

NoRecord == [stage |-> "problem", status |-> "absent"]

\* What a Subagent invocation can end in. "revise" is a judge's verdict,
\* "extend" a problem result that builds on another Session's Workspace,
\* "not_ok" a valid result that reports failure; the rest are exceptions:
\* a timeout or a transient provider error, any other error, a killed Harness.
Results    == {"ok", "revise", "extend"}
Exceptions == {"transient", "permanent", "cancelled"}
Outcome    == Results \cup {"not_ok"} \cup Exceptions

PossibleResults(s) == {"ok"} \cup (IF s = "schema_judge" THEN {"revise"} ELSE {})
                             \cup (IF s = "problem" THEN {"extend"} ELSE {})

DriverPC  == {"loop", "recorded", "agent", "install", "publish", "accept", "finish",
              "failing", "mark_failed", "backoff", "set_ready"}
CommandPC == {"cancel_finish", "fail_finish", "recover_finish", "recover_swap"}

\* The bounds by what they limit.
Budget == [commands |-> MaxCommands, crashes |-> MaxCrashes, recoveries |-> MaxRecoveries]
May(kind)   == spent[kind] < Budget[kind]
Spend(kind) == spent' = [spent EXCEPT ![kind] = @ + 1]

-----------------------------------------------------------------------------
(* Initial state: prepare_start has created the Session *)

Init ==
    /\ builder   = NewBuild
    /\ record    = [a \in Attempt |-> NoRecord]
    /\ started   = 0
    /\ canonical = [s \in AgentStage |-> None]
    /\ baseline  = {}
    /\ workspace = NoWorkspace
    /\ pc        = [p \in Proc |-> "idle"]
    /\ snap      = [p \in Proc |-> NewBuild]
    /\ mine      = [p \in Proc |-> None]
    /\ outcome   = [p \in Proc |-> "ok"]
    /\ tries     = [p \in Proc |-> [s \in AgentStage |-> 0]]
    /\ spent     = [kind \in DOMAIN Budget |-> 0]

-----------------------------------------------------------------------------
(* Steps shared by the actions *)

\* Mutant: the version is not compared, the last writer wins.
LastWriterWins(p) == TRUE

\* BuildStateStore.update: the swap succeeds only at the version it was given.
Current(p) == builder.version = snap[p].version
Swap(new)  == builder' = [new EXCEPT !.version = builder.version + 1]

\* AttemptStore.finish: the first terminal status stays.
IsActive(a) == a # None /\ record[a].status = "running"
Finished(a, status) ==
    IF IsActive(a) THEN [record EXCEPT ![a].status = status] ELSE record

Goto(p, label) == pc' = [pc EXCEPT ![p] = label]
Hold(p, state) == snap' = [snap EXCEPT ![p] = state]

\* The call returns, raises, or its process dies: nothing local is left.
Leave(p) ==
    /\ pc'      = [pc EXCEPT ![p] = "idle"]
    /\ snap'    = [snap EXCEPT ![p] = NewBuild]
    /\ mine'    = [mine EXCEPT ![p] = None]
    /\ outcome' = [outcome EXCEPT ![p] = "ok"]
    /\ tries'   = [tries EXCEPT ![p] = [s \in AgentStage |-> 0]]

\* Mutant: the attempt stays active in a failed build.
FailureWithAttempt(b) == [b EXCEPT !.status = "failed", !.failure = "permanent"]

\* Coordinator._set_failure
SetFailure(b) == [b EXCEPT !.status = "failed", !.active = None, !.failure = "permanent"]

-----------------------------------------------------------------------------
(* Driving the build: Coordinator.run_until_gate *)

\* Mutant: a phase begins without waiting for the one before it.
DrivesAnyway == TRUE

NobodyDrives == \A q \in Proc : pc[q] \notin DriverPC

\* resume of a running build, or a background worker's first step.
Resume(p) ==
    /\ pc[p] = "idle"
    /\ Exclusive => NobodyDrives
    /\ builder.status = "running"
    /\ Goto(p, "loop")
    /\ Hold(p, builder)
    /\ UNCHANGED <<session, mine, outcome, tries, spent>>

\* Mutant: the limit is tested at the stage where the rounds are counted, which
\* the loop has left by the time it is reached.
LimitOfJudge(b) == b.stage = "schema_judge" /\ b.rounds > RevisionLimit

\* At the revision limit the loop fails the build without a new attempt.
LimitReached(b) == b.stage = "schema_build" /\ b.rounds >= RevisionLimit

\* The loop ends, or StageRunner.run refuses a state that has an active attempt.
LeaveLoop(p) ==
    /\ pc[p] = "loop"
    /\ \/ snap[p].status # "running"
       \/ snap[p].stage \in AgentStage /\ snap[p].active # None /\ ~LimitReached(snap[p])
       \/ snap[p].stage = "finalize" /\ ~snap[p].schemaConfirmed
    /\ Leave(p)
    /\ UNCHANGED <<session, spent>>

\* Coordinator._fail_revision_limit
FailRevisionLimit(p) ==
    /\ pc[p] = "loop"
    /\ snap[p].status = "running"
    /\ LimitReached(snap[p])
    /\ IF Current(p) THEN Swap(SetFailure(builder)) ELSE UNCHANGED builder
    /\ Leave(p)
    /\ UNCHANGED <<record, started, files, spent>>

\* The bound on attempts stops the build before the next stage input, whether it
\* would lead to an attempt or be refused.
InputsLeft == started < MaxAttempts

\* _stage_input refuses. The state is read again and closed only if no
\* attempt runs, which also ends the loop: a contract error is not transient.
FailPreflight(p) ==
    /\ pc[p] = "loop"
    /\ snap[p].status = "running"
    /\ snap[p].stage \in AgentStage
    /\ ~LimitReached(snap[p])
    /\ InputsLeft
    /\ IF builder.status = "running" /\ builder.active = None
       THEN Swap(SetFailure(builder)) ELSE UNCHANGED builder
    /\ Leave(p)
    /\ UNCHANGED <<record, started, files, spent>>

\* The stage input is built and the attempt file written, before any swap.
StartAttempt(p) ==
    /\ pc[p] = "loop"
    /\ snap[p].status = "running"
    /\ snap[p].stage \in AgentStage
    /\ ~LimitReached(snap[p])
    /\ snap[p].active = None
    /\ InputsLeft
    /\ started' = started + 1
    /\ record' = [record EXCEPT ![started + 1] = [stage |-> snap[p].stage, status |-> "running"]]
    /\ mine' = [mine EXCEPT ![p] = started + 1]
    /\ Goto(p, "recorded")
    /\ UNCHANGED <<builder, files, snap, outcome, tries, spent>>

\* StageRunner._mark_running
Running(b, a) == [b EXCEPT !.active = a, !.status = "running", !.failure = "none"]

MarkRunning(p) ==
    /\ pc[p] = "recorded"
    /\ \/ /\ Current(p)
          /\ Swap(Running(builder, mine[p]))
          /\ Hold(p, builder')
          /\ Goto(p, "agent")
          /\ UNCHANGED <<record, mine, outcome, tries>>
       \/ /\ ~Current(p)
          /\ record' = Finished(mine[p], "failed")
          /\ Leave(p)
          /\ UNCHANGED builder
    /\ UNCHANGED <<started, files, spent>>

\* The Subagent returns or raises; a result counts only if its attempt is
\* still active in the attempt file.
AgentReturns(p) ==
    /\ pc[p] = "agent"
    /\ \E o \in PossibleResults(snap[p].stage) \cup {"not_ok"} \cup Exceptions :
        LET lost == o \notin Exceptions /\ ~IsActive(mine[p])
        IN  /\ outcome' = [outcome EXCEPT ![p] = IF lost THEN "cancelled" ELSE o]
            /\ Goto(p, IF lost \/ o \in Exceptions THEN "failing"
                       ELSE CASE o = "extend" -> "install"
                              [] o = "not_ok" -> "accept"
                              [] OTHER        -> "publish")
    /\ UNCHANGED <<session, snap, mine, tries, spent>>

\* install_extension_baseline. An in-place extension snapshots the Session's own
\* Workspace; any other one replaces the Workspace and the stage files by
\* those of the base Session. It may also refuse the base.
InstallBaseline(p) ==
    /\ pc[p] = "install"
    /\ \/ /\ IF snap[p].invalidated = "problem"
             THEN /\ baseline' = workspace.facts
                  /\ UNCHANGED <<canonical, workspace>>
             ELSE /\ baseline' = {Imported}
                  /\ canonical' = [s \in AgentStage |-> Imported]
                  /\ workspace' = [facts |-> {Imported}, readme |-> Imported]
          /\ Goto(p, "publish")
          /\ UNCHANGED outcome
       \/ /\ outcome' = [outcome EXCEPT ![p] = "permanent"]
          /\ Goto(p, "failing")
          /\ UNCHANGED files
    /\ UNCHANGED <<builder, record, started, snap, mine, tries, spent>>

\* publish_stage_result: the stage artifact is replaced before acceptance.
PublishResult(p) ==
    /\ pc[p] = "publish"
    /\ \/ /\ canonical' = [canonical EXCEPT ![snap[p].stage] = mine[p]]
          /\ Goto(p, "accept")
          /\ UNCHANGED outcome
       \/ /\ outcome' = [outcome EXCEPT ![p] = "permanent"]
          /\ Goto(p, "failing")
          /\ UNCHANGED canonical
    /\ UNCHANGED <<builder, record, started, baseline, workspace, snap, mine, tries, spent>>

\* StageRunner._accept: the attempt's result is taken ...
Delivered(b, a) == [b EXCEPT !.active = None, !.accepted[b.stage] = a]

\* ... and the user is asked about a problem; building on another Session takes
\* over what that Session had accepted, its confirmed schema included.
AskProblem(b, extends) ==
    LET asked == [b EXCEPT !.status = "needs_problem_confirmation",
                           !.problemConfirmed = FALSE,
                           !.mode = IF extends THEN "extend" ELSE "new"]
    IN  IF extends /\ b.invalidated # "problem"
        THEN [asked EXCEPT !.schema = "judged", !.revalidate = FALSE, !.schemaConfirmed = TRUE]
        ELSE asked

AskSchema(b) == [b EXCEPT !.status = "needs_schema_confirmation", !.rounds = 0,
                          !.schema = "judged", !.revalidate = FALSE,
                          !.schemaConfirmed = FALSE]

ToJudge(b) == [b EXCEPT !.schema = "unjudged", !.revalidate = FALSE, !.stage = "schema_judge"]

Advanced(b) == [b EXCEPT !.stage = NextStage(@)]

Rebuild(b) == [b EXCEPT !.rounds = @ + 1, !.stage = "schema_build"]

\* A failed result counts as accepted and ends the build; the problem and a
\* passed schema wait for the user; every other stage goes on to its successor.
Accepted(b, a, o) ==
    LET done == Delivered(b, a)
    IN  IF o = "not_ok" THEN SetFailure(done)
        ELSE CASE b.stage = "problem"      -> AskProblem(done, o = "extend")
               [] b.stage = "schema_build" -> ToJudge(done)
               [] b.stage = "schema_judge" -> IF o = "revise" THEN Rebuild(done)
                                                              ELSE AskSchema(done)
               [] OTHER                    -> Advanced(done)

Accept(p) ==
    /\ pc[p] = "accept"
    /\ \/ /\ Current(p)
          /\ Swap(Accepted(builder, mine[p], outcome[p]))
          /\ Hold(p, builder')
          /\ Goto(p, "finish")
          /\ UNCHANGED outcome
       \/ /\ ~Current(p)
          /\ outcome' = [outcome EXCEPT ![p] = "permanent"]
          /\ Goto(p, "failing")
          /\ UNCHANGED <<builder, snap>>
    /\ UNCHANGED <<record, started, files, mine, tries, spent>>

\* The attempt file gets its terminal status after the swap. A different
\* terminal status already there is an error, which fails the attempt.
FinishAttempt(p) ==
    LET status == IF outcome[p] = "not_ok" THEN "failed" ELSE "completed"
    IN  /\ pc[p] = "finish"
        /\ record' = Finished(mine[p], status)
        /\ IF record'[mine[p]].status = status
           THEN /\ Goto(p, "loop")
                /\ mine' = [mine EXCEPT ![p] = None]
                /\ outcome' = [outcome EXCEPT ![p] = "ok"]
           ELSE /\ Goto(p, "failing")
                /\ outcome' = [outcome EXCEPT ![p] = "permanent"]
                /\ UNCHANGED mine
        /\ UNCHANGED <<builder, started, files, snap, tries, spent>>

\* StageRunner._fail_attempt, up to the attempt file.
FailAttempt(p) ==
    LET cancelled == outcome[p] = "cancelled" \/ builder.status = "cancelled"
    IN  /\ pc[p] = "failing"
        /\ record' = Finished(mine[p], IF cancelled THEN "cancelled" ELSE "failed")
        /\ outcome' = [outcome EXCEPT ![p] = IF cancelled THEN "cancelled" ELSE @]
        /\ Goto(p, "mark_failed")
        /\ UNCHANGED <<builder, started, files, snap, mine, tries, spent>>

\* StageRunner._mark_failed
Failed(b, o) ==
    [b EXCEPT !.active  = None,
              !.status  = IF o = "cancelled" THEN "cancelled" ELSE "failed",
              !.failure = IF o = "transient" THEN "transient" ELSE "permanent"]

\* Mutant: one retry too many.
OneMoreRetry(p, stage) == tries[p][stage] <= RetryLimit

\* transient_retries of this call of run_until_gate, per stage
RetriesLeft(p, stage) == tries[p][stage] < RetryLimit

\* ... and the swap; on a conflict the driver continues with whatever is there.
\* run_until_gate retries a transient failure while it has retries left.
MarkFailed(p) ==
    LET owns  == Current(p) /\ builder.active = mine[p]
        next  == IF owns THEN Failed(builder, outcome[p]) ELSE builder
        stage == record[mine[p]].stage
        again == /\ next.status = "failed"
                 /\ next.failure = "transient"
                 /\ RetriesLeft(p, stage)
    IN  /\ pc[p] = "mark_failed"
        /\ IF owns THEN Swap(next) ELSE UNCHANGED builder
        /\ Hold(p, builder')
        /\ Goto(p, IF again THEN "backoff" ELSE "loop")
        /\ tries' = IF again THEN [tries EXCEPT ![p][stage] = @ + 1] ELSE tries
        /\ mine' = IF again THEN mine ELSE [mine EXCEPT ![p] = None]
        /\ outcome' = [outcome EXCEPT ![p] = "ok"]
        /\ UNCHANGED <<record, started, files, spent>>

\* A failed or cancelled build taken up again at the stage it stopped at.
Restored(b) == [b EXCEPT !.status = "running", !.active = None, !.failure = "none"]

\* wait_before_retry, then Coordinator._retry_transient
RetryTransient(p) ==
    /\ pc[p] = "backoff"
    /\ IF Current(p) /\ builder.status = "failed" /\ builder.stage = record[mine[p]].stage
       THEN /\ Swap(Restored(builder))
            /\ Hold(p, builder')
            /\ Goto(p, "loop")
            /\ mine' = [mine EXCEPT ![p] = None]
            /\ UNCHANGED <<outcome, tries>>
       ELSE /\ Leave(p)
            /\ UNCHANGED builder
    /\ UNCHANGED <<record, started, files, spent>>

\* Mutant: the drafts of the structured sources are left out.
PublicationOfText(b) ==
    [facts  |-> (IF b.replace THEN {} ELSE baseline) \cup ({b.accepted["extract"]} \ {None}),
     readme |-> canonical["document"]]

\* Coordinator._finalize: the Workspace is replaced from the drafts of the state
\* in memory and the README in the stage files, whatever builder.json says now.
Publication(b) ==
    [facts  |-> (IF b.replace THEN {} ELSE baseline)
                \cup ({b.accepted["extract"], b.accepted["structured_extract"]} \ {None}),
     readme |-> canonical["document"]]

PublishWorkspace(p) ==
    /\ pc[p] = "loop"
    /\ snap[p].status = "running"
    /\ snap[p].stage = "finalize"
    /\ snap[p].schemaConfirmed
    /\ \/ /\ workspace' = Publication(snap[p])
          /\ Goto(p, "set_ready")
          /\ UNCHANGED <<builder, snap, mine, outcome, tries>>
       \/ /\ IF Current(p) THEN Swap(SetFailure(builder)) ELSE UNCHANGED builder
          /\ Leave(p)
          /\ UNCHANGED workspace
    /\ UNCHANGED <<record, started, canonical, baseline, spent>>

\* Coordinator._set_ready
Ready(b) == [b EXCEPT !.stage = "ready", !.status = "workspace_ready", !.failure = "none",
                      !.invalidated = "", !.replace = FALSE]

SetReady(p) ==
    /\ pc[p] = "set_ready"
    /\ IF Current(p)
       THEN Swap(Ready(builder))
       ELSE UNCHANGED builder
    /\ Leave(p)
    /\ UNCHANGED <<record, started, files, spent>>

\* The process is killed; its attempt file and the Builder state stay as they are.
Crash(p) ==
    /\ pc[p] # "idle"
    /\ May("crashes") /\ Spend("crashes")
    /\ Leave(p)
    /\ UNCHANGED session

-----------------------------------------------------------------------------
(* Commands *)

\* _handle_confirmation: the build goes on at the stage the answer leads to.
ProblemAnswered(b, next, confirmed) ==
    [b EXCEPT !.status = "running", !.stage = next, !.failure = "none",
              !.problemConfirmed = confirmed]

SchemaAnswered(b, next, confirmed) ==
    [b EXCEPT !.status = "running", !.stage = next, !.failure = "none",
              !.schemaConfirmed = confirmed]

ConfirmProblem ==
    /\ builder.status = "needs_problem_confirmation"
    /\ Swap(ProblemAnswered(builder, "evidence", TRUE))
    /\ UNCHANGED <<record, started, files, local, spent>>

\* A revision sends the same stage back to its Subagent.
ReviseProblem ==
    /\ builder.status = "needs_problem_confirmation"
    /\ May("commands") /\ Spend("commands")
    /\ Swap(ProblemAnswered(builder, "problem", FALSE))
    /\ UNCHANGED <<record, started, files, local>>

\* An edited schema goes back to the judge before it counts as confirmed.
ConfirmSchema ==
    /\ builder.status = "needs_schema_confirmation"
    /\ \/ /\ builder.revalidate
          /\ Swap(SchemaAnswered(builder, "schema_judge", FALSE))
       \/ /\ ~builder.revalidate
          /\ Swap(SchemaAnswered(builder, "extract", TRUE))
    /\ UNCHANGED <<record, started, files, local, spent>>

ReviseSchema ==
    /\ builder.status = "needs_schema_confirmation"
    /\ May("commands") /\ Spend("commands")
    /\ Swap(SchemaAnswered(builder, "schema_build", FALSE))
    /\ UNCHANGED <<record, started, files, local>>

\* ReviewService.save of the schema page: the form either changes the source in
\* place or is the source as it stands, also when that is an earlier edit.
SchemaSaved(b, changed) ==
    [b EXCEPT !.schema = IF changed THEN "unjudged" ELSE @, !.revalidate = changed,
              !.schemaConfirmed = FALSE]

SaveSchemaReview ==
    /\ builder.status = "needs_schema_confirmation"
    /\ May("commands") /\ Spend("commands")
    /\ \E changed \in BOOLEAN : Swap(SchemaSaved(builder, changed))
    /\ UNCHANGED <<record, started, files, local>>

\* ReviewService.save of the problem page
ProblemSaved(b) == [b EXCEPT !.problemConfirmed = FALSE]

SaveProblemReview ==
    /\ builder.status = "needs_problem_confirmation"
    /\ May("commands") /\ Spend("commands")
    /\ Swap(ProblemSaved(builder))
    /\ UNCHANGED <<record, started, files, local>>

Retry ==
    /\ builder.status \in {"failed", "cancelled"}
    /\ May("commands") /\ Spend("commands")
    /\ Swap(Restored(builder))
    /\ UNCHANGED <<record, started, files, local>>

\* Mutant: what the repeated stages had accepted is kept.
KeptAll(b, restart) == b.accepted

\* What is accepted before the restart point stays accepted.
Kept(b, restart) == [s \in AgentStage |-> IF Precedes(s, restart) THEN b.accepted[s] ELSE None]

\* Mutant: repeating the extraction withdraws the confirmation of the schema.
SchemaOutlives(restart) == Precedes("extract", restart)

\* A schema that is not built again stays confirmed.
SchemaSurvives(restart) == Precedes("schema_build", restart)

\* FollowUpPlan.apply. The baseline is snapshotted inside the same swap.
Restarted(b, restart) ==
    [b EXCEPT !.accepted = Kept(b, restart),
              !.stage = restart, !.status = "running", !.active = None,
              !.invalidated = restart, !.failure = "none",
              !.replace = restart \in {"schema_build", "extract"},
              !.schemaConfirmed = @ /\ SchemaSurvives(restart),
              !.problemConfirmed = @ /\ restart # "problem"]

FollowUp ==
    /\ builder.status = "workspace_ready"
    /\ builder.stage = "ready"
    /\ May("commands") /\ Spend("commands")
    /\ workspace # NoWorkspace
    /\ baseline' = workspace.facts
    /\ \E impacts \in SUBSET ChangeImpact, steps \in SUBSET {1}, uploads \in BOOLEAN :
        \E restart \in PlanRestarts(Submitted(impacts, uploads), steps) :
            Swap(Restarted(builder, restart))
    /\ UNCHANGED <<record, started, canonical, workspace, local>>

\* Mutant: cancellation forgets to release the attempt.
CancelledHolding(b) == [b EXCEPT !.status = "cancelled", !.failure = "permanent"]

\* cancel: first the state (_mark_cancelled), then the Subagent and its attempt file.
CancelledBuild(b) == [b EXCEPT !.status = "cancelled", !.active = None, !.failure = "permanent"]

Cancel(p) ==
    /\ pc[p] = "idle"
    /\ builder.status \notin Terminal
    /\ Swap(CancelledBuild(builder))
    /\ IF builder.active # None
       THEN /\ Goto(p, "cancel_finish")
            /\ mine' = [mine EXCEPT ![p] = builder.active]
       ELSE UNCHANGED <<pc, mine>>
    /\ UNCHANGED <<record, started, files, snap, outcome, tries, spent>>

CancelFinish(p) ==
    /\ pc[p] = "cancel_finish"
    /\ record' = Finished(mine[p], "cancelled")
    /\ Leave(p)
    /\ UNCHANGED <<builder, started, files, spent>>

\* fail_background_job, called by whoever concludes from the job record that the
\* worker failed or is gone. The record may be that of an earlier phase, so a
\* driver may be there all the same (BackgroundJobs).
FailBackgroundJob(p) ==
    /\ pc[p] = "idle"
    /\ builder.status = "running"
    /\ Swap(SetFailure(builder))
    /\ IF builder.active # None
       THEN /\ Goto(p, "fail_finish")
            /\ mine' = [mine EXCEPT ![p] = builder.active]
       ELSE UNCHANGED <<pc, mine>>
    /\ UNCHANGED <<record, started, files, snap, outcome, tries, spent>>

FailFinish(p) ==
    /\ pc[p] = "fail_finish"
    /\ record' = Finished(mine[p], "failed")
    /\ Leave(p)
    /\ UNCHANGED <<builder, started, files, spent>>

\* recover_interrupted, run by a starting service: it takes a running attempt
\* for orphaned when no attempt or event file changed for 90 seconds, which
\* also holds while a Subagent works in silence. The attempt file is closed
\* first, the state afterwards.
LooksIdle == \A q \in Proc : pc[q] \in {"idle", "agent"}

RecoverInterrupted(p) ==
    /\ pc[p] = "idle"
    /\ builder.status = "running" /\ builder.active # None
    /\ LooksIdle
    /\ May("recoveries") /\ Spend("recoveries")
    /\ Hold(p, builder)
    /\ mine' = [mine EXCEPT ![p] = builder.active]
    /\ Goto(p, "recover_finish")
    /\ UNCHANGED <<session, outcome, tries>>

RecoverFinish(p) ==
    /\ pc[p] = "recover_finish"
    /\ record' = Finished(mine[p], "failed")
    /\ Goto(p, "recover_swap")
    /\ UNCHANGED <<builder, started, files, snap, mine, outcome, tries, spent>>

RecoverSwap(p) ==
    /\ pc[p] = "recover_swap"
    /\ IF Current(p) THEN Swap(SetFailure(builder)) ELSE UNCHANGED builder
    /\ Leave(p)
    /\ UNCHANGED <<record, started, files, spent>>

-----------------------------------------------------------------------------
Drive(p) ==
    \/ LeaveLoop(p) \/ FailRevisionLimit(p) \/ FailPreflight(p) \/ StartAttempt(p)
    \/ MarkRunning(p) \/ AgentReturns(p) \/ InstallBaseline(p) \/ PublishResult(p)
    \/ Accept(p) \/ FinishAttempt(p) \/ FailAttempt(p) \/ MarkFailed(p)
    \/ RetryTransient(p) \/ PublishWorkspace(p) \/ SetReady(p)

Command ==
    \/ ConfirmProblem \/ ReviseProblem \/ ConfirmSchema \/ ReviseSchema
    \/ SaveProblemReview \/ SaveSchemaReview
    \/ Retry \/ FollowUp

Interrupt(p) ==
    \/ Cancel(p) \/ CancelFinish(p)
    \/ FailBackgroundJob(p) \/ FailFinish(p)
    \/ RecoverInterrupted(p) \/ RecoverFinish(p) \/ RecoverSwap(p)

Next == Command \/ \E p \in Proc : Resume(p) \/ Drive(p) \/ Interrupt(p) \/ Crash(p)

Spec == Init /\ [][Next]_vars

\* A live thread goes on, and a Subagent invocation ends: agents/runner.py
\* kills it after timeout_seconds. Users and hosts owe nothing.
FairSpec == Spec /\ \A p \in Proc : WF_vars(Drive(p))

-----------------------------------------------------------------------------
(* Properties *)

\* The shape of every variable of a Session and of the processes on it.
TypeOK ==
    /\ builder \in BuildState
    /\ record \in [Attempt -> [stage : AgentStage, status : AttemptStatus]]
    /\ started \in AttemptId
    /\ canonical \in [AgentStage -> Origin \cup {None}]
    /\ baseline \in SUBSET Origin
    /\ workspace \in [facts : SUBSET Origin, readme : Origin \cup {None}]
    /\ pc \in [Proc -> {"idle"} \cup DriverPC \cup CommandPC]
    /\ snap \in [Proc -> BuildState]
    /\ mine \in [Proc -> AttemptId]
    /\ outcome \in [Proc -> Outcome]
    /\ tries \in [Proc -> [AgentStage -> 0..RetryLimit]]
    /\ spent \in [DOMAIN Budget -> Nat]

\* Ownership (StageRunner.run writes the attempt file before it takes the
\* Session): the attempt named in builder.json has a file, of the stage the
\* build is at, and only a running build names one.
OwnedAttempt ==
    builder.active # None =>
        /\ builder.status = "running"
        /\ record[builder.active].stage = builder.stage
        /\ record[builder.active].status # "absent"

\* The pipeline stages the build has left behind.
Past(s) == Precedes(s, builder.stage)

\* The two gates: no step past the problem without the user's confirmation of
\* it, and no extraction, documentation or publication without that of the
\* schema, whichever retries, revisions, follow-ups and races led there.
GatesHold ==
    /\ Past("problem") => builder.problemConfirmed
    /\ Past("schema_judge") => builder.schemaConfirmed

\* Every stage left behind has an accepted attempt, and an accepted result of a
\* later stage always comes from an attempt created after the accepted attempt
\* of every earlier stage: no stale result survives a restart of the pipeline.
StagesInOrder ==
    \A s, t \in AgentStage :
        /\ Past(s) => builder.accepted[s] # None
        /\ Past(t) /\ Precedes(s, t) => builder.accepted[s] < builder.accepted[t]

\* The attempt files agree: what the build relies on is never an attempt that
\* its file calls failed or cancelled (the file is closed after the swap).
AcceptedNotRevoked ==
    \A s \in AgentStage :
        Past(s) => record[builder.accepted[s]].status \in {"running", "completed"}

\* The schema that instances are extracted for is the one the judge passed,
\* also when the user edits it on the review page (requires_revalidation).
JudgedBeforeExtract == Past("schema_judge") => builder.schema = "judged"

\* A completed Workspace holds the facts and the README of the attempts that
\* builder.json has accepted (the README is read from the stage files).
WorkspaceFromAccepted ==
    builder.status = "workspace_ready" =>
        /\ workspace.readme = builder.accepted["document"]
        /\ {builder.accepted["extract"], builder.accepted["structured_extract"]}
              \subseteq workspace.facts

\* When a build is complete the stage files are those of its accepted attempts.
StageFilesAccepted ==
    builder.status = "workspace_ready" =>
        \A s \in AgentStage : canonical[s] = builder.accepted[s]

\* A build that the problem stage declared new publishes nothing of another
\* Session's Workspace.
NewHasNoImports ==
    builder.status = "workspace_ready" /\ builder.mode = "new"
        => Imported \notin workspace.facts

-----------------------------------------------------------------------------
(* The inductive invariant *)

\* Which stages a status allows.
StatusFitsStage ==
    /\ builder.status = "needs_problem_confirmation" => builder.stage = "problem"
    /\ builder.status = "needs_schema_confirmation" => builder.stage = "schema_judge"
    /\ builder.status = "workspace_ready" <=> builder.stage = "ready"

\* What the user is asked about is the youngest accepted result so far.
AsksAboutAccepted ==
    builder.status \in {"needs_problem_confirmation", "needs_schema_confirmation"} =>
        /\ builder.accepted[builder.stage] # None
        /\ \A s \in AgentStage :
              Precedes(s, builder.stage) => builder.accepted[s] < builder.accepted[builder.stage]

\* Identifiers grow: the attempt under way is younger than all accepted ones.
AttemptsInOrder ==
    /\ builder.active <= started
    /\ \A s \in AgentStage : builder.accepted[s] <= started
    /\ builder.active # None => \A s \in AgentStage : builder.accepted[s] < builder.active

\* The version tells a stale copy from a current one: no two states of
\* builder.json have the same version.
VersionedCopy(b) ==
    /\ b.version <= builder.version
    /\ b.version = builder.version => b = builder
    /\ \A s \in AgentStage : b.accepted[s] <= started

Holders == DriverPC \cup {"recover_finish", "recover_swap"}

SnapshotsAreVersioned == \A p \in Proc : pc[p] \in Holders => VersionedCopy(snap[p])

\* What a process knows of its attempt and of the state it holds.
KnowsItsAttempt(p) ==
    /\ pc[p] = "recorded" =>
        /\ mine[p] # None /\ mine[p] <= started
        /\ record[mine[p]].stage = snap[p].stage
        /\ record[mine[p]].status # "absent"
        /\ snap[p].status = "running"
        /\ snap[p].stage \in AgentStage
        /\ snap[p].active = None
        /\ ~LimitReached(snap[p])
        /\ \A s \in AgentStage : snap[p].accepted[s] < mine[p]
    /\ pc[p] \in {"agent", "install", "publish", "accept"} =>
        /\ mine[p] # None
        /\ snap[p].active = mine[p]
        /\ snap[p].stage \in AgentStage
    /\ pc[p] \in {"install", "publish", "accept"} =>
        outcome[p] \in PossibleResults(snap[p].stage) \cup {"not_ok"}
    /\ pc[p] \in {"finish", "failing", "mark_failed", "backoff"} \cup CommandPC =>
        mine[p] # None
    /\ pc[p] \in {"failing", "mark_failed"} => outcome[p] \in Exceptions
    /\ pc[p] = "set_ready" =>
        /\ snap[p].status = "running"
        /\ snap[p].stage = "finalize"
        /\ snap[p].schemaConfirmed
    /\ pc[p] = "recover_swap" => snap[p].status = "running"
    /\ pc[p] = "recover_finish" => snap[p].status = "running"

Inv ==
    /\ TypeOK
    /\ OwnedAttempt
    /\ GatesHold
    /\ StagesInOrder
    /\ StatusFitsStage
    /\ AsksAboutAccepted
    /\ AttemptsInOrder
    /\ SnapshotsAreVersioned
    /\ \A p \in Proc : KnowsItsAttempt(p)

-----------------------------------------------------------------------------
(* The inductive invariant of the files, while drivers exclude each other  *)
(* and no recovery pass runs                                               *)

DriversAlone ==
    /\ \A p, q \in Proc : pc[p] \in DriverPC /\ pc[q] \in DriverPC => p = q
    /\ \A p \in Proc : pc[p] \notin {"recover_finish", "recover_swap"}

\* The stages whose accepted attempt the build relies on: those it has left
\* behind and the one the user is asked about.
Settled(s) ==
    \/ Past(s)
    \/ /\ s = builder.stage
       /\ builder.status \in {"needs_problem_confirmation", "needs_schema_confirmation"}

SettledFiles ==
    \A s \in AgentStage : Settled(s) =>
        /\ canonical[s] = builder.accepted[s]
        /\ record[builder.accepted[s]].status \in {"running", "completed"}

\* Nothing relies on the attempt a process works on.
Unsettled(a) == \A s \in AgentStage : Settled(s) => builder.accepted[s] # a

Working == {"agent", "install", "publish", "accept"}
Closing == {"cancel_finish", "fail_finish"}

\* An attempt nobody is about to close.
Safe(a) ==
    /\ record[a].status = "running"
    /\ \A q \in Proc : pc[q] \in Closing => mine[q] # a

\* What a process knows of the files. While a driver holds a running build, the
\* build may be stopped and taken up again, but it stays at its stage.
KnowsItsFiles(p) ==
    /\ mine[p] <= started
    /\ pc[p] \in DriverPC \ {"failing", "mark_failed", "backoff"} /\ snap[p].status = "running" =>
        /\ builder.status \in {"running", "failed", "cancelled"}
        /\ builder.stage = snap[p].stage
        /\ builder.accepted = snap[p].accepted
    /\ pc[p] \in Working => snap[p].status = "running"
    /\ pc[p] = "recorded" => Safe(mine[p]) /\ builder.active # mine[p]
    /\ pc[p] \in Working /\ Current(p) => Safe(mine[p])
    /\ pc[p] \in {"recorded", "failing", "mark_failed"} \cup Working \cup Closing => Unsettled(mine[p])
    /\ pc[p] = "finish" /\ outcome[p] = "not_ok" => Unsettled(mine[p])
    /\ pc[p] = "install" => outcome[p] = "extend"
    /\ pc[p] = "accept" /\ outcome[p] # "not_ok" => canonical[snap[p].stage] = mine[p]
    /\ pc[p] = "set_ready" =>
        /\ workspace.readme = snap[p].accepted["document"]
        /\ {snap[p].accepted["extract"], snap[p].accepted["structured_extract"]}
              \subseteq workspace.facts

FilesInv ==
    /\ DriversAlone
    /\ SettledFiles
    /\ WorkspaceFromAccepted
    /\ \A p \in Proc : KnowsItsFiles(p)

-----------------------------------------------------------------------------
(* Action and temporal properties *)

UserCommand == spent'["commands"] > spent["commands"]

\* A cancelled build goes on only when the user asks for it: no driver, however
\* late, and no transient retry revives it.
CancelIsFinal ==
    [][builder.status = "cancelled" /\ builder'.status # "cancelled" => UserCommand]_vars

\* A driver always comes back, at a gate, a failure or the end: the revision
\* and retry limits bound run_until_gate.
DriverReturns == \A p \in Proc : pc[p] \in DriverPC ~> pc[p] \notin DriverPC

\* builder.json, shared by any number of processes with stale copies of it,
\* behaves as the one sequential build of SequentialBuild.
Sequential == INSTANCE SequentialBuild WITH
    Limit     <- RevisionLimit,
    stage     <- builder.stage,
    status    <- builder.status,
    working   <- builder.active # None,
    done      <- {s \in AgentStage : builder.accepted[s] # None},
    confirmed <- (IF builder.problemConfirmed THEN {"problem"} ELSE {})
                 \cup (IF builder.schemaConfirmed THEN {"schema"} ELSE {}),
    rounds    <- builder.rounds

ImplementsSequential == Sequential!Spec

\* The same without its initial state, for behaviours that begin in the middle.
StepsSequentially == [][Sequential!Next]_(Sequential!vars)
=============================================================================
