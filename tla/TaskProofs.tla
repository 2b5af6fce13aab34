----------------------------- MODULE TaskProofs -----------------------------
(***************************************************************************)
(* Theorems about the follow-ups that a host starts through the MCP tools, *)
(* and about the attempts that run for them: what is reported as done was  *)
(* done, and what was stopped stops.                                       *)
(***************************************************************************)
EXTENDS WorkspaceTasks, AttemptProcess, FiniteSetTheorems, TLAPS

(***************************************************************************)
(* A task that is reported as completed was published, and follow-ups do   *)
(* not run in one another, for any number of calls, servers and tasks. The *)
(* argument follows each follow-up from the swap that starts it: no copy   *)
(* of builder.json that is as new as that swap says ready unless the       *)
(* follow-up was published.                                                *)
(***************************************************************************)

BuildType == [version : Nat, status : {"running", "review", "ready", "failed", "cancelled"}]

\* Calls that act on a task, and those that start one on a Workspace they saw ready.
ActsOnTask == {"secret", "bind", "resume", "started", "recovered", "bind recovered", "check failed",
               "look", "sync"}
StartsTask == {"create", "secret", "bind", "resume"}

ToolType == [pc : ActsOnTask \cup {"idle", "check ready", "create"},
             request : SUBSET Request, task : Nat, seen : BuildType, waits : BOOLEAN]

TaskRecord == [status : {"running", "waiting", "completed", "failed", "stopped"},
               version : Nat, token : BOOLEAN, request : SUBSET Request]

NumberedTasks == \E n \in Nat : tasks \in [1..n -> TaskRecord]

\* The values of each variable of WorkspaceTasks that the argument uses.
TasksTypes ==
    /\ build \in BuildType /\ build.version >= 1
    /\ NumberedTasks
    /\ tool \in [Caller -> ToolType]
    /\ told \subseteq Task
    /\ \A c \in Caller : tool[c].pc \in ActsOnTask => tool[c].task \in Task

\* What the calls have seen is not newer than builder.json.
SeenBefore ==
    \A c \in Caller :
        /\ tool[c].seen.version <= build.version
        /\ tool[c].pc \in StartsTask => tool[c].seen.status = "ready"
        /\ tool[c].pc \in {"started", "recovered"} => tool[c].seen.status = "running"

\* A follow-up that was started at version v, or before.
Begun(t, v) ==
    /\ v >= 1
    /\ t \in published \/ t = owner
    /\ build.status = "ready" => t \in published
    /\ \A c \in Caller : tool[c].seen.status = "ready" /\ tool[c].seen.version >= v => t \in published

FollowUpsBegun ==
    /\ \A t \in told : Begun(t, tasks[t].version)
    /\ \A c \in Caller : Doing(c, "started") => Begun(tool[c].task, tool[c].seen.version)

TasksInv == TasksTypes /\ SeenBefore /\ FollowUpsBegun /\ CompletedMeansPublished

-----------------------------------------------------------------------------

\* The first state: one task, which was published.
LEMMA TasksStart == TasksInit => TasksInv
<1> SUFFICES ASSUME TasksInit PROVE TasksInv
  OBVIOUS
<1>1. TasksTypes
  <2>1. tasks \in [1..1 -> TaskRecord]
    BY DEF TasksInit, TaskRecord
  <2>2. told \subseteq Task
    BY DEF TasksInit, Task
  <2>3. build \in BuildType /\ build.version >= 1
    BY DEF TasksInit, BuildType
  <2>4. /\ tool \in [Caller -> ToolType]
        /\ \A c \in Caller : tool[c].pc \notin ActsOnTask
    BY DEF TasksInit, NoTool, BuildType, ActsOnTask, ToolType
  <2>5. NumberedTasks
    BY <2>1 DEF NumberedTasks
  <2> QED BY <2>2, <2>3, <2>4, <2>5 DEF TasksTypes
<1>2. SeenBefore
  BY DEF TasksInit, SeenBefore, NoTool, StartsTask
<1>3. FollowUpsBegun
  BY DEF TasksInit, FollowUpsBegun, Begun, NoTool, Doing
<1>4. CompletedMeansPublished
  BY DEF TasksInit, CompletedMeansPublished
<1> QED BY <1>1, <1>2, <1>3, <1>4 DEF TasksInv

\* Tasks are numbered, and have versions.
LEMMA TasksNumbered ==
    ASSUME TasksTypes
    PROVE  /\ Task \subseteq Nat /\ told \subseteq Task
           /\ \E n \in Nat : Task = 1..n
           /\ \A t \in Task : tasks[t].version \in Nat
<1>1. PICK n \in Nat :
        tasks \in [1..n -> TaskRecord]
  BY DEF TasksTypes, NumberedTasks
<1>2. Task = 1..n
  BY <1>1 DEF Task
<1>3. \A t \in Task : tasks[t].version \in Nat
  BY <1>1, <1>2 DEF TaskRecord
<1>4. Task \subseteq Nat /\ \E m \in Nat : Task = 1..m
  BY <1>2
<1>5. told \subseteq Task
  BY DEF TasksTypes
<1> QED BY <1>3, <1>4, <1>5

\* The types of what the leaves below speak of.
LEMMA Typed ==
    ASSUME TasksTypes
    PROVE  /\ build \in BuildType /\ build.version \in Nat /\ build.version >= 1
           /\ tool \in [Caller -> ToolType]
           /\ \A c \in Caller : tool[c].seen \in BuildType /\ tool[c].seen.version \in Nat
           /\ NoTool \in ToolType
           /\ tasks \in [DOMAIN tasks -> TaskRecord]
<1>1. /\ build \in BuildType /\ build.version >= 1
      /\ tool \in [Caller -> ToolType]
  BY DEF TasksTypes
<1>2. build.version \in Nat
  BY <1>1 DEF BuildType
<1>3. \A c \in Caller : tool[c].seen \in BuildType
  BY <1>1 DEF ToolType
<1>4. \A c \in Caller : tool[c].seen.version \in Nat
  BY <1>3 DEF BuildType
<1>5. NoTool \in ToolType
  BY DEF NoTool, ToolType, BuildType
<1>6. tasks \in [DOMAIN tasks -> TaskRecord]
  BY DEF TasksTypes, NumberedTasks
<1> QED BY <1>1, <1>2, <1>3, <1>4, <1>5, <1>6

\* A call goes on, or begins, with what it saw before or with builder.json as it is.
GoesOn(c) ==
    /\ \A d \in Caller \ {c} : tool'[d] = tool[d]
    /\ tool'[c].seen \in {NoTool.seen, tool[c].seen, build}
    /\ tool'[c].pc # "started"

\* Such a step makes no follow-up less begun.
LEMMA BegunStays ==
    ASSUME TasksInv, NEW c \in Caller, GoesOn(c), UNCHANGED <<build, owner, published>>,
           NEW t, NEW v \in Nat, NEW w \in Nat, Begun(t, v), w >= v
    PROVE  /\ w >= 1 /\ (t \in published' \/ t = owner')
           /\ build'.status = "ready" => t \in published'
           /\ \A d \in Caller : tool'[d].seen.status = "ready" /\ tool'[d].seen.version >= w
                  => t \in published'
<1> USE DEF TasksInv
<1>0. NoTool.seen.version = 0
  BY DEF NoTool
<1>1. SUFFICES ASSUME NEW d \in Caller, tool'[d].seen.status = "ready", tool'[d].seen.version >= w
               PROVE  t \in published
  BY DEF Begun
<1>2. CASE tool'[d].seen = tool[d].seen
  <2>1. tool[d].seen.version \in Nat
    BY Typed
  <2>2. tool[d].seen.version >= v
    BY <1>1, <1>2, <2>1
  <2> QED BY <1>1, <1>2, <2>2 DEF Begun
<1>3. CASE tool'[d].seen = build
  BY <1>1, <1>3 DEF Begun
<1>4. CASE tool'[d].seen = NoTool.seen
  BY <1>0, <1>1, <1>4 DEF Begun
<1> QED BY <1>2, <1>3, <1>4 DEF GoesOn

\* So it is where tasks only go forward.
LEMMA CallGoesOn ==
    ASSUME TasksInv, NEW c \in Caller, GoesOn(c),
           UNCHANGED <<build, owner, published>>,
           \A t \in told' :
              \/ t \in told /\ tasks'[t].version \in Nat /\ tasks'[t].version >= tasks[t].version
              \/ /\ Begun(t, tool[c].seen.version)
                 /\ tasks'[t].version = tool[c].seen.version
    PROVE  FollowUpsBegun'
<1> USE DEF TasksInv
<1>1. ASSUME NEW t \in told' PROVE Begun(t, tasks[t].version)'
  <2>1. CASE /\ t \in told /\ tasks'[t].version \in Nat /\ tasks'[t].version >= tasks[t].version
    <3>1. Begun(t, tasks[t].version) /\ tasks[t].version \in Nat
      BY <2>1, TasksNumbered DEF FollowUpsBegun
    <3> QED BY <2>1, <3>1, BegunStays DEF Begun
  <2>2. CASE Begun(t, tool[c].seen.version) /\ tasks'[t].version = tool[c].seen.version
    <3>1. tool[c].seen.version \in Nat
      BY Typed
    <3> QED BY <2>2, <3>1, BegunStays DEF Begun
  <2> QED BY <1>1, <2>1, <2>2
<1>2. ASSUME NEW d \in Caller, Doing(d, "started")' PROVE Begun(tool[d].task, tool[d].seen.version)'
  <2>1. tool'[d] = tool[d] /\ Doing(d, "started") /\ tool[d].seen.version \in Nat
    BY <1>2, Typed DEF GoesOn, Doing
  <2>2. Begun(tool[d].task, tool[d].seen.version)
    BY <2>1 DEF FollowUpsBegun
  <2> QED BY <2>1, <2>2, BegunStays DEF Begun
<1> QED BY <1>1, <1>2 DEF FollowUpsBegun

\* A call that goes on with a task of the Workspace, or without one.
LEMMA ToolTyped ==
    ASSUME TasksInv, NEW c \in Caller, tool' \in [Caller -> ToolType],
           \A d \in Caller \ {c} : tool'[d] = tool[d],
           tool'[c].pc \in ActsOnTask => tool'[c].task \in Task',
           Task \subseteq Task',
           UNCHANGED build, told' \subseteq Task',
           NumberedTasks'
    PROVE  TasksTypes'
<1>1. build \in BuildType /\ build.version >= 1
  BY DEF TasksInv, TasksTypes
<1>2. \A d \in Caller : tool'[d].pc \in ActsOnTask => tool'[d].task \in Task'
  BY DEF TasksInv, TasksTypes
<1> QED BY <1>1, <1>2 DEF TasksTypes

\* A created task is a new one.
LEMMA CreationAdds ==
    ASSUME TasksInv
    PROVE  /\ Cardinality(Task) + 1 \in Nat \ {0} /\ Cardinality(Task) + 1 \notin Task
           /\ Task \cup {Cardinality(Task) + 1} = 1..(Cardinality(Task) + 1)
<1>1. PICK n \in Nat : Task = 1..n
  BY TasksNumbered DEF TasksInv
<1>2. Cardinality(Task) = n
  BY <1>1, FS_Interval
<1> QED BY <1>1, <1>2

\* A call that begins, looks, ends or is killed changes nothing but itself.
LEMMA QuietStep ==
    ASSUME TasksInv, NEW c \in Caller,
           \/ BeginWait(c) \/ BeginRecover(c) \/ BeginStart(c) \/ LookupRaises(c)
           \/ CheckReady(c) \/ LookAtBuild(c) \/ KillServer(c)
           \/ CreateTask(c) /\ UNCHANGED tasks
    PROVE  TasksInv'
<1> USE DEF TasksInv
<1>0. UNCHANGED <<build, tasks, told, owner, published>>
  BY DEF BeginWait, BeginRecover, BeginStart, LookupRaises, CheckReady, LookAtBuild, KillServer,
         CreateTask
<1>1. /\ NoTool \in ToolType /\ NoTool.pc = "idle" /\ NoTool.seen.version = 0
      /\ tool \in [Caller -> ToolType] /\ build \in BuildType
  BY Typed DEF NoTool
<1>2. ASSUME NEW r \in ToolType, tool' = [tool EXCEPT ![c] = r],
             r.seen \in {NoTool.seen, tool[c].seen, build},
             r.pc \in ActsOnTask => r.task \in Task,
             r.pc \notin {"started", "recovered"},
             r.pc \in StartsTask => r.seen.status = "ready"
      PROVE  TasksInv'
  <2>1. /\ tool'[c] = r /\ \A d \in Caller \ {c} : tool'[d] = tool[d]
        /\ tool' \in [Caller -> ToolType]
    BY <1>1, <1>2
  <2>2. TasksTypes'
    <3>1. Task' = Task
      BY <1>0 DEF Task
    <3>2. told' \subseteq Task' /\ NumberedTasks'
      BY <1>0, <3>1 DEF TasksTypes, NumberedTasks
    <3> QED BY <1>0, <1>2, <2>1, <3>1, <3>2, ToolTyped
  <2>3. SeenBefore'
    <3>1. r.seen.version <= build.version
      BY <1>1, <1>2 DEF SeenBefore, BuildType
    <3> QED BY <1>0, <1>2, <2>1, <3>1 DEF SeenBefore
  <2>4. FollowUpsBegun'
    <3>1. GoesOn(c)
      BY <1>2, <2>1 DEF GoesOn
    <3>2. \A t \in told : tasks'[t].version \in Nat /\ tasks'[t].version >= tasks[t].version
      BY <1>0, TasksNumbered
    <3> QED BY <1>0, <3>1, <3>2, CallGoesOn
  <2> QED BY <1>0, <2>2, <2>3, <2>4 DEF CompletedMeansPublished
<1>3. CASE BeginWait(c)
  <2>1. PICK t \in Task : tool' = [tool EXCEPT ![c] = [NoTool EXCEPT !.pc = "look", !.task = t,
                                                                     !.waits = TRUE]]
    BY <1>3 DEF BeginWait
  <2>2. t \in Nat
    BY TasksNumbered
  <2> QED BY <1>2, <2>1, <2>2 DEF NoTool, ToolType, BuildType, ActsOnTask, StartsTask
<1>4. CASE BeginRecover(c)
  <2>1. PICK t \in Task, q \in Request :
          tool' = [tool EXCEPT ![c] = [NoTool EXCEPT !.pc = "check failed", !.request = {q},
                                                     !.task = t, !.seen = build]]
    BY <1>4 DEF BeginRecover
  <2>2. t \in Nat
    BY TasksNumbered
  <2> QED BY <1>1, <1>2, <2>1, <2>2 DEF NoTool, ToolType, BuildType, ActsOnTask, StartsTask
<1>5. CASE BeginStart(c)
  <2>1. PICK q \in Request :
          \/ tool' = [tool EXCEPT ![c] = [NoTool EXCEPT !.pc = "check ready", !.request = {q}]]
          \/ \E t \in Task : tool' = [tool EXCEPT ![c] = [NoTool EXCEPT !.pc = "look", !.task = t]]
    BY <1>5 DEF BeginStart
  <2>2. Task \subseteq Nat
    BY TasksNumbered
  <2> QED BY <1>2, <2>1, <2>2 DEF NoTool, ToolType, BuildType, ActsOnTask, StartsTask
<1>6. CASE CheckReady(c)
  <2>1. \/ build.status = "ready" /\ tool' = [tool EXCEPT ![c] = [tool[c] EXCEPT !.pc = "create",
                                                                                 !.seen = build]]
        \/ tool' = [tool EXCEPT ![c] = NoTool]
    BY <1>1, <1>6 DEF CheckReady, Ends, ToolType
  <2> QED BY <1>1, <1>2, <2>1 DEF ToolType, ActsOnTask, StartsTask
<1>7. CASE LookAtBuild(c)
  <2>1. tool' = [tool EXCEPT ![c] = [tool[c] EXCEPT !.pc = "sync", !.seen = build]]
    BY <1>1, <1>7 DEF LookAtBuild, ToolType
  <2>2. tool[c].task \in Task
    BY <1>7 DEF LookAtBuild, Doing, TasksTypes, ActsOnTask
  <2> QED BY <1>1, <1>2, <2>1, <2>2 DEF ToolType, ActsOnTask, StartsTask
<1>8. CASE KillServer(c) \/ (CreateTask(c) /\ UNCHANGED tasks)
  <2>1. tool' = [tool EXCEPT ![c] = NoTool]
    <3>1. CASE KillServer(c)
      BY <3>1 DEF KillServer, Ends
    <3>2. CASE CreateTask(c) /\ UNCHANGED tasks
      <4>1. Task' = Task
        BY <3>2 DEF Task
      <4>2. CASE \E t \in Task : OpenTask(t)
        BY <3>2, <4>2 DEF CreateTask, Ends
      <4>3. CASE ~\E t \in Task : OpenTask(t)
        <5>1. Task' = Task \cup {Cardinality(Task) + 1}
          BY <3>2, <4>3 DEF CreateTask, Task
        <5> QED BY <4>1, <5>1, CreationAdds
      <4> QED BY <4>2, <4>3
    <3> QED BY <1>8, <3>1, <3>2
  <2> QED BY <1>1, <1>2, <2>1 DEF ActsOnTask, StartsTask
<1>9. CASE LookupRaises(c)
  BY <1>0, <1>9 DEF LookupRaises, TasksTypes, NumberedTasks, SeenBefore, FollowUpsBegun, Begun,
                    Doing, Task, CompletedMeansPublished
<1> QED BY <1>3, <1>4, <1>5, <1>6, <1>7, <1>8, <1>9

\* A created task is nobody's follow-up yet.
LEMMA CreateStep ==
    ASSUME TasksInv, NEW c \in Caller, CreateTask(c), tasks' # tasks
    PROVE  TasksInv'
<1> DEFINE t == Cardinality(Task) + 1
<1> USE DEF TasksInv
<1>0. /\ UNCHANGED <<build, told, owner, published>>
      /\ Doing(c, "create")
      /\ tasks' = [u \in Task \cup {t} |->
            IF u = t THEN [status |-> "running", version |-> tool[c].seen.version,
                           token |-> FALSE, request |-> {}]
            ELSE tasks[u]]
      /\ tool' = [tool EXCEPT ![c] = [tool[c] EXCEPT !.pc = "secret", !.task = t]]
  BY Typed DEF CreateTask, ToolType
<1>1. t \in Nat \ {0} /\ t \notin Task /\ Task \cup {t} = 1..t
  BY CreationAdds
<1> HIDE DEF t
<1>2. /\ tool[c] \in ToolType /\ tool[c].seen.status = "ready"
      /\ tool \in [Caller -> ToolType]
  BY <1>0, Typed DEF SeenBefore, Doing, StartsTask
<1>3. /\ Task' = Task \cup {t}
      /\ \A u \in Task : tasks'[u] = tasks[u]
  BY <1>0, <1>1 DEF Task
<1>4. /\ tool'[c].pc = "secret" /\ tool'[c].task = t /\ tool'[c].seen = tool[c].seen
      /\ \A d \in Caller \ {c} : tool'[d] = tool[d]
      /\ tool' \in [Caller -> ToolType]
  BY <1>0, <1>1, <1>2 DEF ToolType, ActsOnTask
<1>5. NumberedTasks'
  <2>1. tool[c].seen.version \in Nat
    BY Typed
  <2>2. [status |-> "running", version |-> tool[c].seen.version, token |-> FALSE, request |-> {}]
           \in TaskRecord
    BY <2>1 DEF TaskRecord
  <2>3. \A u \in Task : tasks[u] \in TaskRecord
    BY Typed DEF Task
  <2>4. tasks' \in [1..t -> TaskRecord]
    BY <1>0, <1>1, <2>2, <2>3
  <2> QED BY <1>1, <2>4 DEF NumberedTasks
<1>6. TasksTypes'
  <2>1. told' \subseteq Task'
    BY <1>0, <1>3, TasksNumbered
  <2> QED BY <1>0, <1>3, <1>4, <1>5, <2>1, ToolTyped
<1>7. SeenBefore'
  BY <1>0, <1>2, <1>4 DEF SeenBefore
<1>8. FollowUpsBegun'
  <2>1. GoesOn(c)
    BY <1>4 DEF GoesOn
  <2>2. \A u \in told : tasks'[u].version \in Nat /\ tasks'[u].version >= tasks[u].version
    BY <1>3, TasksNumbered
  <2> QED BY <1>0, <2>1, <2>2, CallGoesOn
<1>9. CompletedMeansPublished'
  BY <1>0, <1>3, TasksNumbered DEF CompletedMeansPublished
<1> QED BY <1>6, <1>7, <1>8, <1>9

\* A call that goes on with its task and with what it saw, or ends.
Continues(c) ==
    /\ GoesOn(c)
    /\ tool' \in [Caller -> ToolType]
    /\ tool'[c].seen \in {tool[c].seen, NoTool.seen}
    /\ tool'[c].pc \in ActsOnTask => tool'[c].task = tool[c].task /\ tool[c].pc \in ActsOnTask
    /\ tool'[c].pc \in StartsTask => tool[c].pc \in StartsTask
    /\ tool'[c].pc # "recovered"

\* The other writes of a task: token, request, and the state of a build that
\* the call has seen, when it is not older.
TaskWritten(c) ==
    /\ UNCHANGED <<build, told, owner, published>>
    /\ tasks' \in [DOMAIN tasks -> TaskRecord]
    /\ \A t \in Task :
          \/ tasks'[t].status = tasks[t].status /\ tasks'[t].version = tasks[t].version
          \/ /\ tasks'[t].version = tool[c].seen.version
             /\ tasks[t].version <= tool[c].seen.version
             /\ tasks'[t].status = "completed" <=> tool[c].seen.status = "ready"
    /\ Continues(c)

\* Such a write keeps what is said of the follow-ups.
LEMMA WriteStep ==
    ASSUME TasksInv, NEW c \in Caller, TaskWritten(c)
    PROVE  TasksInv'
<1> USE DEF TasksInv
<1>0. NoTool.seen.version = 0 /\ NoTool.seen.status = "ready"
  BY DEF NoTool
<1>1. Task' = Task
  BY DEF TaskWritten, Continues, Task
<1>2. TasksTypes'
  <2>1. PICK n \in Nat : DOMAIN tasks = 1..n
    BY TasksNumbered DEF Task
  <2>2. tool'[c].pc \in ActsOnTask => tool'[c].task \in Task'
    BY <1>1 DEF TaskWritten, Continues, TasksTypes
  <2>3. NumberedTasks'
    BY <2>1 DEF TaskWritten, NumberedTasks
  <2>5. told' \subseteq Task'
    BY <1>1, TasksNumbered DEF TaskWritten
  <2>4. \A d \in Caller \ {c} : tool'[d] = tool[d]
    BY DEF TaskWritten, Continues, GoesOn
  <2>6. UNCHANGED build /\ tool' \in [Caller -> ToolType]
    BY DEF TaskWritten, Continues
  <2> QED BY <1>1, <2>2, <2>3, <2>4, <2>5, <2>6, ToolTyped
<1>3. SeenBefore'
  <2>1. tool'[c].seen.version <= build.version
    <3>1. tool[c].seen.version <= build.version /\ build.version \in Nat
      BY Typed DEF SeenBefore
    <3> QED BY <1>0, <3>1 DEF TaskWritten, Continues
  <2>2. tool'[c].pc \in StartsTask => tool'[c].seen.status = "ready"
    BY <1>0 DEF TaskWritten, Continues, SeenBefore
  <2> QED BY <2>1, <2>2 DEF TaskWritten, Continues, GoesOn, SeenBefore
<1>4. \A t \in told : tasks'[t].version \in Nat /\ tasks'[t].version >= tasks[t].version
  <2>1. told \subseteq Task /\ \A t \in Task : tasks[t].version \in Nat
    BY TasksNumbered
  <2>2. \A t \in Task : tasks'[t].version \in Nat
    BY DEF TaskWritten, Task, TaskRecord
  <2> QED BY <2>1, <2>2 DEF TaskWritten
<1>5. FollowUpsBegun'
  BY <1>4, CallGoesOn DEF TaskWritten, Continues
<1>6. CompletedMeansPublished'
  <2> SUFFICES ASSUME NEW t \in told, tasks'[t].status = "completed" PROVE t \in published
    BY DEF CompletedMeansPublished, TaskWritten
  <2>1. t \in Task /\ Begun(t, tasks[t].version)
    BY TasksNumbered DEF FollowUpsBegun
  <2>2. CASE tasks'[t].status = tasks[t].status
    BY <2>2 DEF CompletedMeansPublished
  <2>3. CASE tasks[t].version <= tool[c].seen.version /\ tool[c].seen.status = "ready"
    <3>1. tasks[t].version \in Nat /\ tool[c].seen.version \in Nat
      BY <2>1, Typed, TasksNumbered
    <3> QED BY <2>1, <2>3, <3>1 DEF Begun
  <2> QED BY <2>1, <2>2, <2>3 DEF TaskWritten, Continues
<1> QED BY <1>2, <1>3, <1>5, <1>6

\* What a synchronised task says.
LEMMA SyncWrites ==
    ASSUME TasksInv, NEW c \in Caller, tool[c].pc \in ActsOnTask,
           ~OlderThanTask(tool[c].task, tool[c].seen), SyncedTask(tool[c].task, tool[c].seen)
    PROVE  /\ tasks' \in [DOMAIN tasks -> TaskRecord]
           /\ \A t \in Task :
                 \/ t # tool[c].task /\ tasks'[t] = tasks[t]
                 \/ /\ t = tool[c].task
                    /\ tasks'[t].version = tool[c].seen.version
                    /\ tasks[t].version <= tool[c].seen.version
                    /\ tasks'[t].status = "completed" <=> tool[c].seen.status = "ready"
<1> DEFINE t == tool[c].task
           b == tool[c].seen
<1> USE DEF TasksInv
<1>1. t \in Task /\ b \in BuildType
  BY Typed DEF TasksTypes
<1>2. tasks \in [DOMAIN tasks -> TaskRecord]
  BY Typed
<1>3. /\ StatusOf[b.status] \in {"running", "waiting", "completed", "failed", "stopped"}
      /\ StatusOf[b.status] = "completed" <=> b.status = "ready"
  BY <1>1 DEF StatusOf, BuildType
<1>4. b.version \in Nat /\ tasks[t].version \in Nat /\ tasks[t].version <= b.version
  BY <1>1, TasksNumbered DEF OlderThanTask, BuildType
<1>5. tasks' = [tasks EXCEPT ![t].status = StatusOf[b.status], ![t].version = b.version]
  BY DEF SyncedTask
<1> HIDE DEF t, b
<1>6. tasks' \in [DOMAIN tasks -> TaskRecord]
  BY <1>2, <1>3, <1>4, <1>5 DEF TaskRecord
<1>7. \A u \in Task : u # t => tasks'[u] = tasks[u]
  BY <1>5 DEF Task
<1>8. tasks'[t].version = b.version /\ tasks'[t].status = StatusOf[b.status]
  BY <1>1, <1>2, <1>5 DEF Task, TaskRecord
<1> QED BY <1>3, <1>4, <1>6, <1>7, <1>8 DEF t, b

\* Writing the token or the request, and synchronising the task of a recovery
\* or of a look, are such writes.
LEMMA TaskWrites ==
    ASSUME TasksInv, NEW c \in Caller,
           \/ WriteToken(c) \/ BindRequest(c) \/ BindRecovered(c)
           \/ SyncRecovered(c) \/ SyncLooked(c)
    PROVE  TasksInv'
<1> USE DEF TasksInv
<1>0. UNCHANGED <<build, told, owner, published>> /\ tool[c].pc \in ActsOnTask
  BY DEF WriteToken, BindRequest, BindRecovered, SyncRecovered, SyncLooked, Doing, ActsOnTask
<1>1. /\ tool \in [Caller -> ToolType] /\ NoTool \in ToolType
      /\ tasks \in [DOMAIN tasks -> TaskRecord]
  BY Typed
<1>2. \/ tool' = [tool EXCEPT ![c] = NoTool]
      \/ \E pc \in {"bind", "resume", "bind recovered", "look"} :
           /\ tool' = [tool EXCEPT ![c].pc = pc]
           /\ pc \in StartsTask => tool[c].pc \in StartsTask
  BY DEF WriteToken, BindRequest, BindRecovered, SyncRecovered, SyncLooked, Proceeds, Ends, Doing,
         StartsTask
<1>3. Continues(c)
  <2>1. CASE tool' = [tool EXCEPT ![c] = NoTool]
    BY <1>1, <2>1 DEF Continues, GoesOn, NoTool, ActsOnTask, StartsTask
  <2>2. ASSUME NEW pc \in {"bind", "resume", "bind recovered", "look"},
               tool' = [tool EXCEPT ![c].pc = pc],
               pc \in StartsTask => tool[c].pc \in StartsTask
        PROVE  Continues(c)
    BY <1>0, <1>1, <2>2 DEF Continues, GoesOn, ToolType, ActsOnTask
  <2> QED BY <1>2, <2>1, <2>2
<1>4. /\ tasks' \in [DOMAIN tasks -> TaskRecord]
      /\ \A t \in Task :
          \/ tasks'[t].status = tasks[t].status /\ tasks'[t].version = tasks[t].version
          \/ /\ tasks'[t].version = tool[c].seen.version
             /\ tasks[t].version <= tool[c].seen.version
             /\ tasks'[t].status = "completed" <=> tool[c].seen.status = "ready"
  <2>1. CASE UNCHANGED tasks
    BY <1>1, <2>1
  <2>2. CASE tasks' = [tasks EXCEPT ![tool[c].task].token = TRUE]
    BY <1>1, <2>2 DEF Task, TaskRecord
  <2>3. CASE tasks' = [tasks EXCEPT ![tool[c].task].request = tool[c].request]
    BY <1>1, <2>3 DEF Task, ToolType, TaskRecord
  <2>4. CASE ~OlderThanTask(tool[c].task, tool[c].seen) /\ SyncedTask(tool[c].task, tool[c].seen)
    BY <1>0, <2>4, SyncWrites
  <2> QED BY <2>1, <2>2, <2>3, <2>4
          DEF WriteToken, BindRequest, BindRecovered, SyncRecovered, SyncLooked
<1> QED BY <1>0, <1>3, <1>4, WriteStep DEF TaskWritten

\* A call that ends changes nothing else.
LEMMA CallEnds ==
    ASSUME TasksInv, NEW c \in Caller, Ends(c), UNCHANGED <<build, tasks, told, owner, published>>
    PROVE  TasksInv'
<1> USE DEF TasksInv
<1>1. /\ tool \in [Caller -> ToolType] /\ NoTool \in ToolType
      /\ tasks \in [DOMAIN tasks -> TaskRecord]
  BY Typed
<1>2. Continues(c)
  BY <1>1 DEF Ends, Continues, GoesOn, NoTool, ActsOnTask, StartsTask
<1> QED BY <1>1, <1>2, WriteStep DEF TaskWritten

\* A follow-up begins with a version that nobody has seen, on a finished build.
LEMMA ResumeStep ==
    ASSUME TasksInv, NEW c \in Caller, ResumeBuild(c)
    PROVE  TasksInv'
<1> USE DEF TasksInv
<1>1. CASE Ends(c) /\ UNCHANGED <<build, owner>>
  BY <1>1, CallEnds DEF ResumeBuild
<1>2. CASE StillReady(c) /\ Changes("running") /\ owner' = tool[c].task
           /\ tool' = [tool EXCEPT ![c].pc = "started", ![c].seen = build']
  <2>0. UNCHANGED <<tasks, told, published>> /\ tool[c].pc = "resume"
    BY DEF ResumeBuild, Doing
  <2>1. /\ build \in BuildType /\ build.version \in Nat /\ build.status = "ready"
        /\ build' = [version |-> build.version + 1, status |-> "running"]
        /\ build' \in BuildType
    <3>1. tool[c].seen.status = "ready"
      BY <2>0 DEF SeenBefore, StartsTask
    <3>2. build \in BuildType /\ build.version \in Nat
      BY Typed
    <3>3. build' = [version |-> build.version + 1, status |-> "running"]
      BY <1>2 DEF Changes
    <3>4. build' \in BuildType
      BY <3>2, <3>3 DEF BuildType
    <3> QED BY <1>2, <3>1, <3>2, <3>3, <3>4 DEF StillReady
  <2>2. /\ tool \in [Caller -> ToolType]
        /\ tool'[c].pc = "started" /\ tool'[c].seen = build' /\ tool'[c].task = tool[c].task
        /\ \A d \in Caller \ {c} : tool'[d] = tool[d]
    BY <1>2, Typed DEF ToolType
  <2>3. tool' \in [Caller -> ToolType]
    <3>1. [tool[c] EXCEPT !.pc = "started", !.seen = build'] \in ToolType
      BY <2>1, <2>2 DEF ToolType, ActsOnTask
    <3>2. tool' = [tool EXCEPT ![c] = [tool[c] EXCEPT !.pc = "started", !.seen = build']]
      BY <1>2, <2>2 DEF ToolType
    <3> QED BY <2>2, <3>1, <3>2
  <2>4. TasksTypes'
    <3>1. Task' = Task /\ tool[c].task \in Task
      BY <2>0 DEF Task, TasksTypes, ActsOnTask
    <3>2. \A d \in Caller : tool'[d].pc \in ActsOnTask => tool'[d].task \in Task
      BY <2>2, <3>1 DEF TasksTypes
    <3>3. build'.version >= 1
      BY <2>1
    <3>4. NumberedTasks' /\ told' \subseteq Task'
      BY <2>0, <3>1, TasksNumbered DEF TasksTypes, NumberedTasks
    <3> QED BY <2>1, <2>3, <3>1, <3>2, <3>3, <3>4 DEF TasksTypes
  <2>5. SeenBefore'
    <3>1. \A d \in Caller : tool[d].seen.version \in Nat /\ tool[d].seen.version <= build.version
      BY Typed DEF SeenBefore
    <3>2. \A d \in Caller : tool'[d].seen.version <= build'.version
      BY <2>1, <2>2, <3>1
    <3>3. \A d \in Caller \ {c} : tool'[d].pc = tool[d].pc /\ tool'[d].seen = tool[d].seen
      BY <2>2
    <3> QED BY <2>1, <2>2, <3>2, <3>3 DEF SeenBefore, StartsTask
  <2>6. \A d \in Caller : tool'[d].seen.status = "ready" => tool'[d].seen.version < build.version + 1
    <3>1. \A d \in Caller : tool[d].seen.version \in Nat /\ tool[d].seen.version <= build.version
      BY Typed DEF SeenBefore
    <3> QED BY <2>1, <2>2, <3>1
  <2>7. \A t \in told' : Begun(t, tasks[t].version)'
    BY <2>0, <2>1 DEF FollowUpsBegun, Begun
  <2>8. \A d \in Caller \ {c} : Doing(d, "started")' => Begun(tool[d].task, tool[d].seen.version)'
    BY <2>0, <2>1, <2>2 DEF FollowUpsBegun, Begun, Doing
  <2>9. Begun(tool[c].task, tool[c].seen.version)'
    <3>1. \A d \in Caller : tool'[d].seen.version \in Nat
      <4>1. \A d \in Caller : tool'[d].seen \in BuildType
        BY <2>3 DEF ToolType
      <4> QED BY <4>1 DEF BuildType
    <3> QED BY <1>2, <2>1, <2>2, <2>6, <3>1 DEF Begun
  <2>10. CompletedMeansPublished'
    BY <2>0 DEF CompletedMeansPublished
  <2> QED BY <2>4, <2>5, <2>7, <2>8, <2>9, <2>10 DEF FollowUpsBegun
<1> QED BY <1>1, <1>2 DEF ResumeBuild

\* A recovery takes the follow-up on where it failed.
LEMMA RetryStep ==
    ASSUME TasksInv, NEW c \in Caller, RetryBuild(c)
    PROVE  TasksInv'
<1> USE DEF TasksInv
<1>1. CASE Ends(c) /\ UNCHANGED build
  BY <1>1, CallEnds DEF RetryBuild
<1>2. CASE Changes("running") /\ tool' = [tool EXCEPT ![c].pc = "recovered", ![c].seen = build']
  <2>0. UNCHANGED <<tasks, told, owner, published>> /\ tool[c].pc = "check failed"
    BY DEF RetryBuild, Doing
  <2>1. /\ build \in BuildType /\ build.version \in Nat
        /\ build' = [version |-> build.version + 1, status |-> "running"]
        /\ build' \in BuildType
    <3>1. build \in BuildType /\ build.version \in Nat
      BY Typed
    <3>2. build' = [version |-> build.version + 1, status |-> "running"]
      BY <1>2 DEF Changes
    <3>3. build' \in BuildType
      BY <3>1, <3>2 DEF BuildType
    <3> QED BY <3>1, <3>2, <3>3
  <2>2. /\ tool \in [Caller -> ToolType]
        /\ tool'[c].pc = "recovered" /\ tool'[c].seen = build' /\ tool'[c].task = tool[c].task
        /\ \A d \in Caller \ {c} : tool'[d] = tool[d]
    BY <1>2, Typed DEF ToolType
  <2>3. tool' \in [Caller -> ToolType]
    <3>1. [tool[c] EXCEPT !.pc = "recovered", !.seen = build'] \in ToolType
      BY <2>1, <2>2 DEF ToolType, ActsOnTask
    <3>2. tool' = [tool EXCEPT ![c] = [tool[c] EXCEPT !.pc = "recovered", !.seen = build']]
      BY <1>2, <2>2 DEF ToolType
    <3> QED BY <2>2, <3>1, <3>2
  <2>4. TasksTypes'
    <3>1. Task' = Task /\ tool[c].task \in Task
      BY <2>0 DEF Task, TasksTypes, ActsOnTask
    <3>2. \A d \in Caller : tool'[d].pc \in ActsOnTask => tool'[d].task \in Task
      BY <2>2, <3>1 DEF TasksTypes
    <3>3. build'.version >= 1
      BY <2>1
    <3>4. NumberedTasks' /\ told' \subseteq Task'
      BY <2>0, <3>1, TasksNumbered DEF TasksTypes, NumberedTasks
    <3> QED BY <2>1, <2>3, <3>1, <3>2, <3>3, <3>4 DEF TasksTypes
  <2>5. SeenBefore'
    <3>1. \A d \in Caller : tool[d].seen.version \in Nat /\ tool[d].seen.version <= build.version
      BY Typed DEF SeenBefore
    <3>2. \A d \in Caller : tool'[d].seen.version <= build'.version
      BY <2>1, <2>2, <3>1
    <3>3. \A d \in Caller \ {c} : tool'[d].pc = tool[d].pc /\ tool'[d].seen = tool[d].seen
      BY <2>2
    <3> QED BY <2>1, <2>2, <3>2, <3>3 DEF SeenBefore, StartsTask
  <2>6. \A d \in Caller : tool'[d].seen.status = "ready" => tool'[d] = tool[d]
    BY <2>1, <2>2
  <2>7. FollowUpsBegun'
    <3>1. ASSUME NEW t, NEW v, Begun(t, v)
          PROVE  /\ v >= 1
                 /\ t \in published' \/ t = owner'
                 /\ build'.status = "ready" => t \in published'
                 /\ \A d \in Caller : tool'[d].seen.status = "ready" /\ tool'[d].seen.version >= v
                        => t \in published'
      <4>1. build'.status # "ready"
        BY <2>1
      <4>2. ASSUME NEW d \in Caller, tool'[d].seen.status = "ready", tool'[d].seen.version >= v
            PROVE  t \in published
        <5>1. tool'[d] = tool[d]
          BY <2>6, <4>2
        <5> QED BY <3>1, <4>2, <5>1 DEF Begun
      <4>3. v >= 1 /\ (t \in published \/ t = owner)
        BY <3>1 DEF Begun
      <4> QED BY <2>0, <4>1, <4>2, <4>3
    <3>2. \A t \in told' : Begun(t, tasks[t].version)'
      BY <2>0, <3>1 DEF FollowUpsBegun, Begun
    <3>3. \A d \in Caller : Doing(d, "started")' =>
             d # c /\ Doing(d, "started") /\ tool'[d] = tool[d]
      BY <2>2 DEF Doing
    <3>4. ASSUME NEW d \in Caller, Doing(d, "started")'
          PROVE  Begun(tool[d].task, tool[d].seen.version)'
      <4>1. tool'[d] = tool[d] /\ Begun(tool[d].task, tool[d].seen.version)
        BY <3>3, <3>4 DEF FollowUpsBegun
      <4> QED BY <3>1, <4>1 DEF Begun
    <3> QED BY <3>2, <3>4 DEF FollowUpsBegun
  <2>8. CompletedMeansPublished'
    BY <2>0 DEF CompletedMeansPublished
  <2> QED BY <2>4, <2>5, <2>7, <2>8
<1> QED BY <1>1, <1>2 DEF RetryBuild

\* The host is told of a follow-up that has begun at the version of its task.
LEMMA StartedStep ==
    ASSUME TasksInv, NEW c \in Caller, SyncStarted(c)
    PROVE  TasksInv'
<1> USE DEF TasksInv
<1>0. UNCHANGED <<build, owner, published>> /\ Ends(c) /\ tool[c].pc = "started"
  BY DEF SyncStarted, Doing
<1>1. CASE UNCHANGED <<tasks, told>>
  BY <1>0, <1>1, CallEnds
<1>2. CASE ~OlderThanTask(tool[c].task, tool[c].seen) /\ SyncedTask(tool[c].task, tool[c].seen)
           /\ told' = told \cup {tool[c].task}
  <2>1. /\ tool[c].pc \in ActsOnTask /\ tool[c].task \in Task /\ tool[c].seen.status = "running"
        /\ tool[c].seen.version \in Nat
        /\ Begun(tool[c].task, tool[c].seen.version)
    BY <1>0, Typed DEF ActsOnTask, TasksTypes, SeenBefore, FollowUpsBegun, Doing
  <2>2. /\ tasks' \in [DOMAIN tasks -> TaskRecord]
        /\ \A t \in Task :
              \/ t # tool[c].task /\ tasks'[t] = tasks[t]
              \/ /\ t = tool[c].task
                 /\ tasks'[t].version = tool[c].seen.version
                 /\ tasks'[t].status # "completed"
    BY <1>2, <2>1, SyncWrites
  <2>3. Task' = Task /\ told' \subseteq Task'
    BY <1>2, <2>1, <2>2, TasksNumbered DEF Task
  <2>4. /\ GoesOn(c) /\ tool' \in [Caller -> ToolType] /\ tool'[c] = NoTool
        /\ NoTool.pc = "idle" /\ NoTool.seen.version = 0
    BY <1>0, Typed DEF Ends, GoesOn, NoTool
  <2>5. TasksTypes'
    <3>1. PICK n \in Nat : DOMAIN tasks = 1..n
      BY TasksNumbered DEF Task
    <3>2. tool'[c].pc \notin ActsOnTask
      BY <2>4 DEF ActsOnTask
    <3>3. \A d \in Caller \ {c} : tool'[d] = tool[d]
      BY <2>4 DEF GoesOn
    <3>4. NumberedTasks'
      BY <2>2, <3>1 DEF NumberedTasks
    <3> QED BY <1>0, <2>3, <2>4, <3>2, <3>3, <3>4, ToolTyped
  <2>6. SeenBefore'
    <3>1. build.version \in Nat
      BY Typed
    <3> QED BY <1>0, <2>4, <3>1 DEF SeenBefore, StartsTask, GoesOn
  <2>7. FollowUpsBegun'
    <3>1. \A t \in told' :
              \/ t \in told /\ tasks'[t].version \in Nat /\ tasks'[t].version >= tasks[t].version
              \/ /\ Begun(t, tool[c].seen.version)
                 /\ tasks'[t].version = tool[c].seen.version
      BY <1>2, <2>1, <2>2, TasksNumbered
    <3> QED BY <1>0, <2>4, <3>1, CallGoesOn
  <2>8. CompletedMeansPublished'
    BY <1>0, <1>2, <2>1, <2>2, TasksNumbered DEF CompletedMeansPublished
  <2> QED BY <2>5, <2>6, <2>7, <2>8
<1> QED BY <1>1, <1>2 DEF SyncStarted

\* A build that gets ready publishes the follow-up that began last.
LEMMA BuildStep ==
    ASSUME TasksInv, BuildMoves
    PROVE  TasksInv'
<1> USE DEF TasksInv
<1>0. UNCHANGED <<tasks, tool, told, owner>>
  BY DEF BuildMoves
<1>1. PICK status \in {"running", "review", "ready", "failed", "cancelled"} :
        /\ build' = [version |-> build.version + 1, status |-> status]
        /\ published \subseteq published'
        /\ status = "ready" => owner \in published'
  BY DEF BuildMoves, Changes
<1>2. /\ build.version \in Nat /\ build'.version = build.version + 1 /\ build'.status = status
      /\ build' \in BuildType /\ build'.version >= 1
  BY <1>1, Typed DEF BuildType
<1>3. TasksTypes'
  <2>1. /\ Task' = Task /\ NumberedTasks' /\ tool' \in [Caller -> ToolType]
        /\ told' \subseteq Task'
        /\ \A c \in Caller : tool'[c].pc \in ActsOnTask => tool'[c].task \in Task'
    BY <1>0 DEF TasksTypes, NumberedTasks, Task
  <2> QED BY <1>2, <2>1 DEF TasksTypes
<1>4. SeenBefore'
  <2>1. \A c \in Caller : tool[c].seen.version \in Nat
    BY Typed
  <2> QED BY <1>0, <1>2, <2>1 DEF SeenBefore
<1>5. ASSUME NEW t, NEW v, Begun(t, v), UNCHANGED <<tool, owner>>
      PROVE  /\ v >= 1
             /\ t \in published' \/ t = owner'
             /\ build'.status = "ready" => t \in published'
             /\ \A c \in Caller : tool'[c].seen.status = "ready" /\ tool'[c].seen.version >= v
                    => t \in published'
  BY <1>1, <1>2, <1>5 DEF Begun
<1>6. FollowUpsBegun'
  BY <1>0, <1>5 DEF FollowUpsBegun, Begun, Doing
<1>7. CompletedMeansPublished'
  BY <1>0, <1>1 DEF CompletedMeansPublished
<1> QED BY <1>3, <1>4, <1>6, <1>7

-----------------------------------------------------------------------------

\* The invariant holds for any calls of any servers.
THEOREM TasksInvariance == TasksSpec => []TasksInv
<1>1. TasksInv /\ [TasksNext]_taskVars => TasksInv'
  <2> SUFFICES ASSUME TasksInv, [TasksNext]_taskVars PROVE TasksInv'
    OBVIOUS
  <2>1. CASE BuildMoves
    BY <2>1, BuildStep
  <2>2. ASSUME NEW c \in Caller,
               \/ BeginWait(c) \/ BeginRecover(c) \/ BeginStart(c) \/ LookupRaises(c)
               \/ CheckReady(c) \/ LookAtBuild(c) \/ KillServer(c) \/ CreateTask(c)
        PROVE  TasksInv'
    BY <2>2, QuietStep, CreateStep
  <2>3. ASSUME NEW c \in Caller,
               \/ WriteToken(c) \/ BindRequest(c) \/ BindRecovered(c)
               \/ SyncRecovered(c) \/ SyncLooked(c)
        PROVE  TasksInv'
    BY <2>3, TaskWrites
  <2>4. ASSUME NEW c \in Caller, ResumeBuild(c) \/ RetryBuild(c) \/ SyncStarted(c)
        PROVE  TasksInv'
    BY <2>4, ResumeStep, RetryStep, StartedStep
  <2>5. CASE UNCHANGED taskVars
    BY <2>5 DEF taskVars, TasksInv, TasksTypes, NumberedTasks, SeenBefore, FollowUpsBegun, Begun, Doing, Task,
                CompletedMeansPublished
  <2> QED BY <2>1, <2>2, <2>3, <2>4, <2>5 DEF TasksNext
<1> QED BY TasksStart, <1>1, PTL DEF TasksSpec

\* A started task is reported as completed only when its follow-up was published.
THEOREM CompletedIsPublished == TasksSpec => []CompletedMeansPublished
<1>1. TasksInv => CompletedMeansPublished
  BY DEF TasksInv
<1> QED BY TasksInvariance, <1>1, PTL

\* Of the confirmed starts, at most one is still to be published.
THEOREM FollowUpsTakeTurns == TasksSpec => []OneFollowUpAtATime
<1>1. TasksInv => OneFollowUpAtATime
  <2> SUFFICES ASSUME TasksInv PROVE Cardinality(told \ published) <= 1
    BY DEF OneFollowUpAtATime
  <2>1. told \ published \in SUBSET {owner}
    BY DEF TasksInv, FollowUpsBegun, Begun
  <2>2. IsFiniteSet({owner}) /\ Cardinality({owner}) = 1
    BY FS_Singleton
  <2>3. Cardinality(told \ published) <= Cardinality({owner})
    BY <2>1, <2>2, FS_Subset
  <2> QED BY <2>2, <2>3
<1> QED BY TasksInvariance, <1>1, PTL

(***************************************************************************)
(* Nothing works on: wherever a cancellation, a signal handler or the end  *)
(* of the worker comes between two steps of HarnessAgentRunner.run.        *)
(***************************************************************************)

\* The values of each variable of AttemptProcess.
ProcessTypes ==
    /\ run \in {"spawn", "register", "locked", "refuse", "request", "wait", "close",
                "returned", "gone"}
    /\ worker \in {"none", "starting", "working", "ended"}
    /\ registered \in BOOLEAN /\ marked \in BOOLEAN
    /\ cancel \in {"idle", "mark", "signal", "returned", "raise"}

\* Only a run that waits, or one whose Builder was killed, leaves a worker at work.
WorksForWait == worker = "working" => run \in {"wait", "gone"}

\* run has a registered worker from the registration on.
RegisteredWorker == run \in {"refuse", "request", "wait"} => registered

\* Nobody cancels in a Builder that was killed.
GoneIsIdle == run = "gone" => cancel = "idle"

\* A cancel that has come past its mark is known to run, and one that has
\* returned has left no worker that has, or can still get, a request.
CancelKnown ==
    /\ cancel \in {"signal", "returned"} => marked
    /\ cancel = "returned" /\ run \in {"request", "wait"} => ~Living

ProcessInv == ProcessTypes /\ WorksForWait /\ RegisteredWorker /\ GoneIsIdle /\ CancelKnown

\* The first state: no worker, no cancellation.
LEMMA ProcessStarts == ProcessInit => ProcessInv
BY DEF ProcessInit, ProcessInv, ProcessTypes, WorksForWait, RegisteredWorker, GoneIsIdle,
       CancelKnown, Living

\* The steps of run keep what they rely on.
LEMMA RunStep ==
    ASSUME ProcessInv,
           \/ SpawnWorker \/ Lock \/ RegisterWorker \/ RefuseCancelled
           \/ WriteRequest \/ AwaitWorker \/ Unregister \/ Interrupted
    PROVE  ProcessInv'
<1> USE DEF ProcessInv, ProcessTypes, WorksForWait, RegisteredWorker, GoneIsIdle, CancelKnown,
            Living, Killed, Runs
<1>1. CASE SpawnWorker
  BY <1>1 DEF SpawnWorker
<1>2. CASE Lock
  BY <1>2 DEF Lock
<1>3. CASE RegisterWorker
  BY <1>3 DEF RegisterWorker, CancelledBefore
<1>4. CASE RefuseCancelled
  BY <1>4 DEF RefuseCancelled
<1>5. CASE WriteRequest
  BY <1>5 DEF WriteRequest
<1>6. CASE AwaitWorker
  BY <1>6 DEF AwaitWorker
<1>7. CASE Unregister
  BY <1>7 DEF Unregister
<1>8. CASE Interrupted
  BY <1>8 DEF Interrupted
<1> QED BY <1>1, <1>2, <1>3, <1>4, <1>5, <1>6, <1>7, <1>8

\* So do the steps of cancel, of the worker, and the end of the Builder.
LEMMA OtherStep ==
    ASSUME ProcessInv,
           \/ CancelCalled \/ MarkCancelled \/ SignalWorker \/ HandlerSkips
           \/ WorkerEnds \/ KillBuilder
    PROVE  ProcessInv'
<1> USE DEF ProcessInv, ProcessTypes, WorksForWait, RegisteredWorker, GoneIsIdle, CancelKnown,
            Living, Killed
<1>1. CASE CancelCalled
  BY <1>1 DEF CancelCalled
<1>2. CASE MarkCancelled
  BY <1>2 DEF MarkCancelled
<1>3. CASE SignalWorker
  BY <1>3 DEF SignalWorker
<1>4. CASE HandlerSkips
  BY <1>4 DEF HandlerSkips
<1>5. CASE WorkerEnds
  BY <1>5 DEF WorkerEnds
<1>6. CASE KillBuilder
  BY <1>6 DEF KillBuilder
<1> QED BY <1>1, <1>2, <1>3, <1>4, <1>5, <1>6

\* Once run or cancel has returned, no worker goes on with the request, unless
\* the Builder was killed: for every order of the steps of AttemptProcess.
THEOREM NothingWorksOnHolds == ProcessSpec => []NothingWorksOn
<1>1. ProcessInv /\ [ProcessNext]_processVars => ProcessInv'
  <2> SUFFICES ASSUME ProcessInv, [ProcessNext]_processVars PROVE ProcessInv'
    OBVIOUS
  <2>1. CASE ProcessNext
    BY <2>1, RunStep, OtherStep DEF ProcessNext
  <2>2. CASE UNCHANGED processVars
    BY <2>2 DEF processVars, ProcessInv, ProcessTypes, WorksForWait, RegisteredWorker,
                GoneIsIdle, CancelKnown, Living
  <2> QED BY <2>1, <2>2
<1>2. ProcessInv => NothingWorksOn
  BY DEF ProcessInv, ProcessTypes, WorksForWait, GoneIsIdle, CancelKnown, NothingWorksOn, Living
<1> QED BY ProcessStarts, <1>1, <1>2, PTL DEF ProcessSpec

=============================================================================
