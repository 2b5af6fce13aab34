-------------------------- MODULE MCBuildLifecycle --------------------------
(* Model checking of BuildLifecycle: symmetry, and a second initial state. *)
EXTENDS BuildLifecycle, TLC

Symmetry == Permutations(Proc)

\* The first half of a build has gone through without a retry: its four
\* attempts are accepted and the user is looking at the schema.
AtSchemaGate ==
    LET first == [problem |-> 1, evidence |-> 2, schema_build |-> 3, schema_judge |-> 4]
        upTo4 == [s \in AgentStage |-> IF s \in DOMAIN first THEN first[s] ELSE None]
    IN
    /\ builder   = [NewBuild EXCEPT !.version = 10, !.stage = "schema_judge",
                                    !.status = "needs_schema_confirmation",
                                    !.accepted = upTo4, !.problemConfirmed = TRUE,
                                    !.schema = "judged"]
    /\ record    = [a \in Attempt |->
                      IF a <= 4 THEN [stage  |-> CHOOSE s \in DOMAIN first : first[s] = a,
                                      status |-> "completed"]
                      ELSE NoRecord]
    /\ started   = 4
    /\ canonical = upTo4
    /\ baseline  = {}
    /\ workspace = NoWorkspace
    /\ pc        = [p \in Proc |-> "idle"]
    /\ snap      = [p \in Proc |-> NewBuild]
    /\ mine      = [p \in Proc |-> None]
    /\ outcome   = [p \in Proc |-> "ok"]
    /\ tries     = [p \in Proc |-> [s \in AgentStage |-> 0]]
    /\ spent     = [kind \in DOMAIN Budget |-> 0]

GateSpec == AtSchemaGate /\ [][Next]_vars
FairGateSpec == GateSpec /\ \A p \in Proc : WF_vars(Drive(p))
=============================================================================
