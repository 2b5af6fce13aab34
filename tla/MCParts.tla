------------------------------ MODULE MCParts ------------------------------
(***************************************************************************)
(* Model checking of the parts that share no state: the plan of a follow-  *)
(* up, the evidence of a Workspace, the parallel units of one tool call,   *)
(* the files of a Session, the schema, the tasks of a Workspace, the       *)
(* process of an attempt and the files of a publication. `part` names the  *)
(* one a behaviour is about; the others stay in an initial state.          *)
(***************************************************************************)
EXTENDS FollowUpPlan, EvidenceSources, ParallelUnits, SessionFiles, SchemaDesign,
        WorkspaceTasks, AttemptProcess, PublishedFiles, TLC

VARIABLE part

partVars == <<part, planVars, vars, unitVars, fileVars, schemaVars, taskVars, processVars, publicVars>>

\* The parts use the same model values for their own sets, so that few
\* permutations serve all of them.
Symmetry == Permutations(Page) \cup Permutations(Chunk) \cup Permutations(Saver)

PartsInit ==
    /\ part \in {"plan", "evidence", "units", "files", "schema", "tasks", "process",
                "public"}
    /\ PlanInit /\ Init /\ UnitsInit /\ FilesInit /\ SchemaInit /\ TasksInit /\ ProcessInit /\ PublicInit
    /\ part # "plan" => impacts = {"evidence"} /\ steps = {} /\ ~uploads
    /\ part # "units" => units = 1
    /\ part # "process" => ~handler
    /\ part # "public" => torn = {} /\ ~tornLinks /\ untitled = {} /\ uploaded = {} /\ ~unstated

PartsNext ==
    /\ UNCHANGED part
    /\ \/ part = "plan"     /\ Resubmit    /\ UNCHANGED <<vars, unitVars, fileVars, schemaVars, taskVars, processVars, publicVars>>
       \/ part = "evidence" /\ Next        /\ UNCHANGED <<planVars, unitVars, fileVars, schemaVars, taskVars, processVars, publicVars>>
       \/ part = "units"    /\ UnitsNext   /\ UNCHANGED <<planVars, vars, fileVars, schemaVars, taskVars, processVars, publicVars>>
       \/ part = "files"    /\ FilesNext   /\ UNCHANGED <<planVars, vars, unitVars, schemaVars, taskVars, processVars, publicVars>>
       \/ part = "schema"   /\ SchemaNext  /\ UNCHANGED <<planVars, vars, unitVars, fileVars, taskVars, processVars, publicVars>>
       \/ part = "tasks"    /\ TasksNext   /\ UNCHANGED <<planVars, vars, unitVars, fileVars, schemaVars, processVars, publicVars>>
       \/ part = "process"  /\ ProcessNext /\ UNCHANGED <<planVars, vars, unitVars, fileVars, schemaVars, taskVars, publicVars>>
       \/ part = "public"   /\ PublicNext  /\ UNCHANGED <<planVars, vars, unitVars, fileVars, schemaVars, taskVars, processVars>>

PartsSpec == PartsInit /\ [][PartsNext]_partVars

\* The evidence alone.
EvidenceSpec ==
    /\ PartsInit /\ part = "evidence"
    /\ [][PartsNext]_partVars
=============================================================================
