-------------------------- MODULE SequentialBuild ---------------------------
(***************************************************************************)
(* What a Builder Session promises to whoever looks at builder.json: one   *)
(* build that passes through the pipeline in order, in which at most one   *)
(* attempt is under way, a stage is accepted in one step and only by the   *)
(* attempt under way, the user's two confirmations are waited for, and a   *)
(* stopped build stays stopped until it is asked to go on. There are no    *)
(* processes, files, versions or attempt identifiers here; BuildLifecycle  *)
(* is shown to implement this module.                                      *)
(***************************************************************************)
EXTENDS Pipeline

CONSTANT Limit        \* schema revision rounds before the build gives up

VARIABLES stage,      \* where the build is
          status,     \* what it does or waits for
          working,    \* whether an attempt of this stage is under way
          done,       \* stages whose result is accepted
          confirmed,  \* gates the user has confirmed
          rounds      \* revisions asked by the judge in a row

vars == <<stage, status, working, done, confirmed, rounds>>

Gates == {"problem", "schema"}

Init == /\ stage = "problem" /\ status = "running" /\ working = FALSE
        /\ done = {} /\ confirmed = {} /\ rounds = 0

Begin ==
    /\ status = "running" /\ stage \in AgentStage /\ ~working
    /\ stage = "schema_build" => rounds < Limit
    /\ working' = TRUE
    /\ UNCHANGED <<stage, status, done, confirmed, rounds>>

\* An accepted result. Confirmations may be withdrawn by it, or taken over
\* with the Workspace of another Session, but never count before their gate.
Deliver ==
    /\ status = "running" /\ working
    /\ working' = FALSE
    /\ done' = done \cup {stage}
    /\ confirmed' \in SUBSET Gates
    /\ \/ /\ stage = "problem"
          /\ status' = "needs_problem_confirmation"
          /\ "problem" \notin confirmed'
          /\ UNCHANGED <<stage, rounds>>
       \/ /\ stage = "schema_judge"
          /\ status' = "needs_schema_confirmation"
          /\ rounds' = 0
          /\ confirmed' = confirmed \ {"schema"}
          /\ UNCHANGED stage
       \/ /\ stage = "schema_judge"
          /\ stage' = "schema_build"
          /\ rounds' = rounds + 1
          /\ UNCHANGED <<status, confirmed>>
       \/ /\ stage \notin {"problem", "schema_judge"}
          /\ Follows(stage, stage')
          /\ UNCHANGED <<status, confirmed, rounds>>

\* The build stops: the attempt or the stage input failed, the host or a user
\* stopped it, or its process disappeared. A result that reports its own
\* failure counts as delivered.
Stop ==
    /\ status \notin {"workspace_ready", "failed", "cancelled"}
    /\ status' \in {"failed", "cancelled"}
    /\ status # "running" => status' = "cancelled"
    /\ working' = FALSE
    /\ done' \in {done, done \cup {stage}}
    /\ done' # done => working
    /\ UNCHANGED <<stage, confirmed, rounds>>

\* A failed or stopped build goes on at the stage it stopped at, with what was
\* accepted so far.
GoOn ==
    /\ status \in {"failed", "cancelled"}
    /\ status' = "running"
    /\ UNCHANGED <<stage, working, done, confirmed, rounds>>

Answer ==
    /\ UNCHANGED <<working, done, rounds>>
    /\ status' = "running"
    /\ \/ /\ status = "needs_problem_confirmation"
          /\ \/ stage' = "evidence" /\ confirmed' = confirmed \cup {"problem"}
             \/ stage' = "problem"  /\ confirmed' = confirmed \ {"problem"}
       \/ /\ status = "needs_schema_confirmation"
          /\ \/ stage' = "extract" /\ confirmed' = confirmed \cup {"schema"}
             \/ /\ stage' \in {"schema_judge", "schema_build"}
                /\ confirmed' = confirmed \ {"schema"}

Publish ==
    /\ status = "running" /\ stage = "finalize" /\ "schema" \in confirmed
    /\ stage' = "ready" /\ status' = "workspace_ready"
    /\ UNCHANGED <<working, done, confirmed, rounds>>

FollowUp ==
    /\ status = "workspace_ready"
    /\ status' = "running"
    /\ stage' \in RestartPoint
    /\ done' = {s \in done : Precedes(s, stage')}
    /\ confirmed' = {g \in confirmed :
                        IF g = "problem" THEN stage' # "problem"
                                         ELSE Precedes("schema_build", stage')}
    /\ UNCHANGED <<working, rounds>>

Next == Begin \/ Deliver \/ Stop \/ GoOn \/ Answer \/ Publish \/ FollowUp

Spec == Init /\ [][Next]_vars
=============================================================================
