--------------------------- MODULE WorkspaceTasks ---------------------------
(***************************************************************************)
(* The tasks of one Workspace. A host starts follow-ups of a finished      *)
(* Workspace, one task each, and recovers or looks at any task by its      *)
(* token, also at the finished ones. Tool calls of several servers run at  *)
(* the same time, each in steps that other calls can come between: the     *)
(* task is created before the build changes, and follows it from then on.  *)
(* The build itself is reduced to its version and status; BackgroundJobs   *)
(* has the workers behind it.                                              *)
(***************************************************************************)
EXTENDS Naturals, FiniteSets

CONSTANTS Caller,       \* tool calls in progress
          Request,      \* request keys; a call delivered again has the key of the first
          MaxTasks,     \* bound: tasks of the Workspace
          MaxChanges,   \* bound: version of the build
          MaxCalls,     \* bound: tool calls
          MaxLosses     \* bound: servers killed

VARIABLES
    build,      \* builder.json: its version and status
    tasks,      \* the tasks: state.json, and from secret.json the token and request_sha256
    tool,       \* what each call does next, for which request and task, with which build,
                \* and whether it holds the wait lock of the task
    told,       \* tasks whose call has started them
    owner,      \* the task that started the last follow-up
    published,  \* tasks whose follow-up was published
    calls, losses

taskVars == <<build, tasks, tool, told, owner, published, calls, losses>>

Task == DOMAIN tasks
OpenTask(t) == tasks[t].status \in {"running", "waiting"}

\* BUILDER_STATUS_MAP
StatusOf == [running |-> "running", review |-> "waiting", ready |-> "completed",
             failed |-> "failed", cancelled |-> "stopped"]

NoTool == [pc |-> "idle", request |-> {}, task |-> 0, seen |-> [version |-> 0, status |-> "ready"],
           waits |-> FALSE]

\* A finished Workspace with the task that built it.
TasksInit ==
    /\ build = [version |-> 1, status |-> "ready"]
    /\ tasks = [t \in {1} |-> [status |-> "completed", version |-> 1, token |-> TRUE, request |-> {}]]
    /\ tool = [c \in Caller |-> NoTool]
    /\ told = {1} /\ owner = 1 /\ published = {1}
    /\ calls = 0 /\ losses = 0

Doing(c, pc) == tool[c].pc = pc
Proceeds(c, pc) == tool' = [tool EXCEPT ![c].pc = pc]
Ends(c) == tool' = [tool EXCEPT ![c] = NoTool]

\* The Session lock, which create holds between its two files.
SessionFree == \A c \in Caller : ~Doing(c, "secret")

-----------------------------------------------------------------------------
(* Finding a task *)

\* by_token and find_request read secret.json of the tasks in any order until
\* one matches; a task without the file ends the call.
Found(t) == tasks[t].token
Torn == {t \in Task : ~tasks[t].token}
NewRequest(q) == Torn = {} /\ \A t \in Task : q \notin tasks[t].request

\* acquire_nonblocking: one call at a time waits for a task.
WaitFree(t) == \A c \in Caller : tool[c].waits => tool[c].task # t

\* wait_for_task_update
BeginWait(c) ==
    /\ Doing(c, "idle") /\ calls < MaxCalls
    /\ \E t \in Task :
         /\ Found(t) /\ WaitFree(t)
         /\ tool' = [tool EXCEPT ![c] = [NoTool EXCEPT !.pc = "look", !.task = t, !.waits = TRUE]]
    /\ calls' = calls + 1
    /\ UNCHANGED <<build, tasks, told, owner, published, losses>>

BeginRecover(c) ==
    /\ Doing(c, "idle") /\ calls < MaxCalls
    /\ \E t \in Task, q \in Request :
         /\ Found(t) /\ NewRequest(q)
         /\ tool' = [tool EXCEPT ![c] = [NoTool EXCEPT !.pc = "check failed", !.request = {q},
                                                      !.task = t, !.seen = build]]
    /\ calls' = calls + 1
    /\ UNCHANGED <<build, tasks, told, owner, published, losses>>

\* start_workspace_task for a follow-up; a known request leads to its task.
BeginStart(c) ==
    /\ Doing(c, "idle") /\ calls < MaxCalls
    /\ \E q \in Request :
         LET known == {t \in Task : q \in tasks[t].request} IN
         \/ /\ NewRequest(q)
            /\ tool' = [tool EXCEPT ![c] = [NoTool EXCEPT !.pc = "check ready", !.request = {q}]]
         \/ \E t \in known :
              tool' = [tool EXCEPT ![c] = [NoTool EXCEPT !.pc = "look", !.task = t]]
    /\ calls' = calls + 1
    /\ UNCHANGED <<build, tasks, told, owner, published, losses>>

-----------------------------------------------------------------------------
(* Starting a follow-up *)

\* A follow-up needs a finished Workspace.
CheckReady(c) ==
    /\ Doing(c, "check ready")
    /\ IF build.status = "ready"
       THEN tool' = [tool EXCEPT ![c].pc = "create", ![c].seen = build]
       ELSE Ends(c)
    /\ UNCHANGED <<build, tasks, told, owner, published, calls, losses>>

\* TaskStore.create: state.json, unless a task of the Workspace is open ...
CreateTask(c) ==
    /\ Doing(c, "create") /\ SessionFree
    /\ IF \E t \in Task : OpenTask(t)
       THEN Ends(c) /\ UNCHANGED tasks
       ELSE LET t == Cardinality(Task) + 1 IN
            /\ t <= MaxTasks
            /\ tasks' = [u \in Task \cup {t} |->
                  IF u = t THEN [status |-> "running", version |-> tool[c].seen.version,
                                 token |-> FALSE, request |-> {}]
                  ELSE tasks[u]]
            /\ tool' = [tool EXCEPT ![c].pc = "secret", ![c].task = t]
    /\ UNCHANGED <<build, told, owner, published, calls, losses>>

\* ... and then secret.json.
WriteToken(c) ==
    /\ Doing(c, "secret")
    /\ tasks' = [tasks EXCEPT ![tool[c].task].token = TRUE]
    /\ Proceeds(c, "bind")
    /\ UNCHANGED <<build, told, owner, published, calls, losses>>

BindRequest(c) ==
    /\ Doing(c, "bind")
    /\ tasks' = [tasks EXCEPT ![tool[c].task].request = tool[c].request]
    /\ Proceeds(c, "resume")
    /\ UNCHANGED <<build, told, owner, published, calls, losses>>

\* Mutant: the status that was read is compared, not the version of builder.json.
ReadyWhenRead(c) == tool[c].seen.status = "ready"

\* BuildCommands.resume and BuildStateStore.update compare the version.
StillReady(c) == build = tool[c].seen

Changes(status) == build' = [version |-> build.version + 1, status |-> status]

\* The follow-up may also be refused for what it asks; the task stays.
ResumeBuild(c) ==
    /\ Doing(c, "resume") /\ SessionFree
    /\ \/ /\ StillReady(c)
          /\ Changes("running")
          /\ owner' = tool[c].task
          /\ tool' = [tool EXCEPT ![c].pc = "started", ![c].seen = build']
       \/ Ends(c) /\ UNCHANGED <<build, owner>>
    /\ UNCHANGED <<tasks, told, published, calls, losses>>

\* Recovery asks for a failed build.
RetryBuild(c) ==
    /\ Doing(c, "check failed") /\ SessionFree
    /\ \/ /\ tool[c].seen.status = "failed" /\ build = tool[c].seen
          /\ Changes("running")
          /\ tool' = [tool EXCEPT ![c].pc = "recovered", ![c].seen = build']
       \/ /\ build # tool[c].seen \/ build.status # "failed"
          /\ Ends(c) /\ UNCHANGED build
    /\ UNCHANGED <<tasks, told, owner, published, calls, losses>>

\* Mutant: the version of the task is not compared.
NeverOlder(t, b) == FALSE

\* TaskStore.sync refuses to go back.
OlderThanTask(t, b) == tasks[t].version > b.version

SyncedTask(t, b) ==
    tasks' = [tasks EXCEPT ![t].status = StatusOf[b.status], ![t].version = b.version]

\* The task follows the build; an error ends the call and leaves the build to
\* itself. The launch of the worker follows, see BackgroundJobs.
SyncStarted(c) ==
    /\ Doing(c, "started")
    /\ IF OlderThanTask(tool[c].task, tool[c].seen)
       THEN UNCHANGED <<tasks, told>>
       ELSE /\ SyncedTask(tool[c].task, tool[c].seen)
            /\ told' = told \cup {tool[c].task}
    /\ Ends(c)
    /\ UNCHANGED <<build, owner, published, calls, losses>>

SyncRecovered(c) ==
    /\ Doing(c, "recovered")
    /\ IF OlderThanTask(tool[c].task, tool[c].seen)
       THEN Ends(c) /\ UNCHANGED tasks
       ELSE SyncedTask(tool[c].task, tool[c].seen) /\ Proceeds(c, "bind recovered")
    /\ UNCHANGED <<build, told, owner, published, calls, losses>>

BindRecovered(c) ==
    /\ Doing(c, "bind recovered")
    /\ tasks' = [tasks EXCEPT ![tool[c].task].request = tool[c].request]
    /\ Ends(c)
    /\ UNCHANGED <<build, told, owner, published, calls, losses>>

-----------------------------------------------------------------------------
(* Looking at a task *)

\* _builder_status, which fails a running build that has no worker any more
LookAtBuild(c) ==
    /\ Doing(c, "look")
    /\ tool' = [tool EXCEPT ![c].pc = "sync", ![c].seen = build]
    /\ UNCHANGED <<build, tasks, told, owner, published, calls, losses>>

\* The call returns, or waits and looks again.
SyncLooked(c) ==
    /\ Doing(c, "sync")
    /\ IF OlderThanTask(tool[c].task, tool[c].seen)
       THEN Ends(c) /\ UNCHANGED tasks
       ELSE /\ SyncedTask(tool[c].task, tool[c].seen)
            /\ Ends(c) \/ (/\ tool[c].waits /\ tool[c].seen.status = "running"
                           /\ Proceeds(c, "look"))
    /\ UNCHANGED <<build, told, owner, published, calls, losses>>

-----------------------------------------------------------------------------
(* The build, its user, and the loss of servers *)

\* The worker goes on, waits for the user, fails or publishes; the user decides
\* or stops; a build without a worker is failed.
BuildMoves ==
    /\ SessionFree /\ build.version < MaxChanges
    /\ \/ /\ build.status = "running"
          /\ \E status \in {"running", "review", "ready", "failed", "cancelled"} :
               /\ Changes(status)
               /\ published' = IF status = "ready" THEN published \cup {owner} ELSE published
       \/ build.status = "review" /\ Changes("running") /\ UNCHANGED published
    /\ UNCHANGED <<tasks, tool, told, owner, calls, losses>>

\* A server is killed; a lock of its calls is released.
KillServer(c) ==
    /\ ~Doing(c, "idle") /\ losses < MaxLosses
    /\ Ends(c)
    /\ losses' = losses + 1
    /\ UNCHANGED <<build, tasks, told, owner, published, calls>>

\* A lookup meets a task without a token and raises.
LookupRaises(c) ==
    /\ Doing(c, "idle") /\ calls < MaxCalls /\ Torn # {}
    /\ calls' = calls + 1
    /\ UNCHANGED <<build, tasks, tool, told, owner, published, losses>>

TasksNext ==
    \/ \E c \in Caller :
         \/ BeginWait(c) \/ BeginRecover(c) \/ BeginStart(c) \/ LookupRaises(c)
         \/ CheckReady(c) \/ CreateTask(c) \/ WriteToken(c) \/ BindRequest(c) \/ ResumeBuild(c)
         \/ RetryBuild(c) \/ SyncStarted(c) \/ SyncRecovered(c) \/ BindRecovered(c)
         \/ LookAtBuild(c) \/ SyncLooked(c) \/ KillServer(c)
    \/ BuildMoves

TasksSpec == TasksInit /\ [][TasksNext]_taskVars

-----------------------------------------------------------------------------
(* Properties *)

\* A host that was told its follow-up has started may rely on it. The task is
\* reported as completed only when this follow-up was published, whoever else
\* looks at the task, and however long a call sleeps between reading the build
\* and writing the task.
CompletedMeansPublished ==
    \A t \in told : tasks[t].status = "completed" => t \in published

\* Two follow-ups never run in one another: of the starts that were confirmed,
\* at most one is still to be published, although the check of create for an
\* open task can be passed by two calls, because looking at a task that has not
\* started yet reports it completed.
OneFollowUpAtATime == Cardinality(told \ published) <= 1
=============================================================================
