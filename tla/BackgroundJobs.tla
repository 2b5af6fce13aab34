--------------------------- MODULE BackgroundJobs ---------------------------
(***************************************************************************)
(* The detached workers that drive a build for MCP hosts. A tool call of a *)
(* host returns at once: it changes builder.json, writes the job record    *)
(* mcp_background_job.json and spawns a process that resumes the build.    *)
(* Nothing connects the two afterwards but files: the worker writes its    *)
(* process ID, its heartbeats and its end into the job record, and every   *)
(* later tool call concludes from that record whether the build it finds   *)
(* running still has a worker. Each phase of a build, up to a gate, a      *)
(* failure or the end, has a worker of its own, so the end of one and the  *)
(* start of the next overlap.                                              *)
(*                                                                         *)
(* builder.json is reduced to its version and status; BuildLifecycle has   *)
(* the rest. The task record, which hosts see, follows it.                 *)
(***************************************************************************)
EXTENDS Naturals

CONSTANTS Host,        \* tool calls in progress, of one or several MCP servers
          MaxJobs,     \* bound: workers ever launched
          MaxVersion,  \* bound: version up to which a worker goes from stage to stage
          MaxCommands, \* bound: decisions, recoveries and stops of the user
          MaxKills     \* bound: workers and tool calls killed

ASSUME BoundsAssumption == /\ MaxJobs \in Nat /\ MaxVersion \in Nat
                           /\ MaxCommands \in Nat /\ MaxKills \in Nat

VARIABLES
    builder,   \* builder.json
    task,      \* tasks/<task_id>/state.json
    job,       \* mcp_background_job.json
    launched,  \* how many job identifiers are taken
    wpc,       \* what the main thread of each worker does next
    held,      \* the builder.json it holds
    pending,   \* the status it is about to write into the job record
    unwind,    \* where an exception of its signal handler leads
    beat,      \* whether its heartbeat thread runs
    guard,     \* its write_guard: which thread is inside write_job
    copy,      \* the record that thread has read and changed
    hpc,       \* what each tool call does next
    tool,      \* what it is called for
    seen,      \* the builder.json it has read or written
    commands,  \* decisions, recoveries and stops so far
    kills      \* processes killed so far

disk   == <<builder, task, job, launched>>
worker == <<wpc, held, pending, unwind, beat, guard, copy>>
host   == <<hpc, tool, seen>>
bounds == <<commands, kills>>
vars   == <<disk, worker, host, bounds>>

-----------------------------------------------------------------------------
(* Values *)

Job   == 1..MaxJobs
NoJob == 0

Active == {"starting", "running"}

\* BUILDER_STATUS_MAP; the two gates are one here.
TaskStatus == [running |-> "running", review |-> "waiting", ready |-> "completed",
               failed |-> "failed", cancelled |-> "stopped"]

Build == [version : Nat, status : DOMAIN TaskStatus]
NoBuild == [version |-> 0, status |-> "running"]

\* fresh: the heartbeat is not older than STALE_SECONDS. A version of 0 is absent.
JobRecord == [id : Job \cup {NoJob},
              status : Active \cup {"none", "completed", "cancelled", "failed"},
              pid : BOOLEAN, fresh : BOOLEAN, expected : Nat, result : Nat]

NoRecord == [id |-> NoJob, status |-> "none", pid |-> FALSE, fresh |-> FALSE,
             expected |-> 0, result |-> 0]

WorkerPC == {"none", "spawned", "starting", "leasing", "driving", "backoff", "reporting",
             "syncing", "failing", "closing", "rereading", "resyncing", "stopping",
             "signalled", "cancelling", "gone"}
HostPC   == {"idle", "looking", "dead", "looked", "changed", "launch", "waiting", "popen",
             "polling", "polled", "cancelling", "report"}
Tool     == {"start", "recover", "decide", "wait", "stop"}

\* The launcher keeps the Session lock while it waits and writes; every other
\* holder gives it back within the step that takes it.
LockFree == \A h \in Host : hpc[h] \notin {"waiting", "popen"}

-----------------------------------------------------------------------------
(* Initial state: start_workspace_task has prepared the Session and its task *)

FirstBuild == [version |-> 1, status |-> "running"]

Init ==
    /\ builder = FirstBuild
    /\ task = [version |-> 1, status |-> "running"]
    /\ job = NoRecord
    /\ launched = 0
    /\ wpc = [w \in Job |-> "none"]
    /\ held = [w \in Job |-> NoBuild]
    /\ pending = [w \in Job |-> "running"]
    /\ unwind = [w \in Job |-> "gone"]
    /\ beat = [w \in Job |-> FALSE]
    /\ guard = [w \in Job |-> "free"]
    /\ copy = [w \in Job |-> NoRecord]
    /\ \E starter \in Host :
        /\ hpc = [h \in Host |-> IF h = starter THEN "launch" ELSE "idle"]
        /\ seen = [h \in Host |-> IF h = starter THEN FirstBuild ELSE NoBuild]
    /\ tool = [h \in Host |-> "start"]
    /\ commands = 0
    /\ kills = 0

-----------------------------------------------------------------------------
(* Steps shared by the actions *)

\* Mutant: an older version is accepted as well.
CurrentOrOlder(b) == builder.version >= b.version

\* BuildStateStore.update, at the version of the state b
Current(b) == builder.version = b.version
Update(status) ==
    /\ LockFree
    /\ builder' = [version |-> builder.version + 1, status |-> status]

\* Mutant: the version of the task record is not compared.
NeverNewer(b) == FALSE

\* TaskStore.sync refuses to go back.
Newer(b) == task.version > b.version

\* Mutant: the status of the build is taken over as it is.
TaskUnmapped(b) == [version |-> b.version, status |-> b.status]

TaskOf(b) == [version |-> b.version, status |-> TaskStatus[b.status]]

\* os.kill(pid, 0), once the record names a process
Alive(w) == wpc[w] \notin {"none", "gone"}
ProcessAlive(record) == record.pid /\ record.id \in Job /\ Alive(record.id)

JobActive(record) == record.status \in Active /\ (record.fresh \/ ProcessAlive(record))

\* background_job_failure, for a running build of the given version
JobFailure(record, version) ==
    /\ record.status \in {"failed", "completed"} => record.result >= version
    /\ \/ record.status \in {"failed", "completed"}
       \/ record.status \in Active /\ ~record.fresh /\ ~ProcessAlive(record)

WorkerAt(w, label) == wpc' = [wpc EXCEPT ![w] = label]
HostAt(h, label)   == hpc' = [hpc EXCEPT ![h] = label]

\* The process ends, and its heartbeat thread, a daemon, with it.
Exit(w) ==
    /\ WorkerAt(w, "gone")
    /\ held' = [held EXCEPT ![w] = NoBuild]
    /\ pending' = [pending EXCEPT ![w] = "running"]
    /\ unwind' = [unwind EXCEPT ![w] = "gone"]
    /\ beat' = [beat EXCEPT ![w] = FALSE]
    /\ guard' = [guard EXCEPT ![w] = "free"]
    /\ copy' = [copy EXCEPT ![w] = NoRecord]

\* The tool call returns a result or an error.
Return(h) ==
    /\ HostAt(h, "idle")
    /\ tool' = [tool EXCEPT ![h] = "start"]
    /\ seen' = [seen EXCEPT ![h] = NoBuild]

-----------------------------------------------------------------------------
(* run_background_worker: the main thread *)

\* The record must be the one this process was launched for.
Identify(w) ==
    /\ wpc[w] = "spawned"
    /\ \/ /\ job.id = w /\ job.status = "starting"
          /\ WorkerAt(w, "starting")
          /\ held' = [held EXCEPT ![w] = [version |-> job.expected, status |-> "running"]]
          /\ UNCHANGED <<pending, unwind, beat, guard, copy>>
       \/ ~(job.id = w /\ job.status = "starting") /\ Exit(w)
    /\ UNCHANGED <<disk, host, bounds>>

\* What the main thread merges into the record.
Merged(w) ==
    CASE pending[w] = "running"   -> [job EXCEPT !.status = "running", !.pid = TRUE, !.fresh = TRUE]
      [] pending[w] = "cancelled" -> [job EXCEPT !.status = "cancelled", !.fresh = FALSE, !.expected = 0]
      [] OTHER -> [job EXCEPT !.status = pending[w], !.fresh = FALSE, !.expected = 0,
                                !.result = held[w].version]

\* write_job, up to the replacement. A record of another job is an error: it
\* ends a worker that has not begun, fails one that has just finished, and
\* escapes from the handlers of a failure or a cancellation.
MainRead(w) ==
    /\ wpc[w] \in {"starting", "closing"}
    /\ guard[w] = "free"
    /\ \/ /\ job.id = w
          /\ copy' = [copy EXCEPT ![w] = Merged(w)]
          /\ guard' = [guard EXCEPT ![w] = "main"]
          /\ UNCHANGED <<wpc, held, pending, unwind, beat>>
       \/ job.id # w /\ wpc[w] = "starting" /\ Exit(w)
       \/ /\ job.id # w /\ wpc[w] = "closing"
          /\ WorkerAt(w, IF pending[w] = "completed" THEN "failing" ELSE "stopping")
          /\ UNCHANGED <<held, pending, unwind, beat, guard, copy>>
    /\ UNCHANGED <<disk, host, bounds>>

MainWrite(w) ==
    /\ wpc[w] \in {"starting", "closing"}
    /\ guard[w] = "main"
    /\ job' = copy[w]
    /\ copy' = [copy EXCEPT ![w] = NoRecord]
    /\ guard' = [guard EXCEPT ![w] = "free"]
    /\ WorkerAt(w, CASE pending[w] = "running"   -> "leasing"
                     [] pending[w] = "completed" -> "stopping"
                     [] OTHER                    -> "rereading")
    /\ UNCHANGED <<builder, task, launched, held, pending, unwind, beat, host, bounds>>

\* The heartbeat thread starts, and the try block begins.
Lease(w) ==
    /\ wpc[w] = "leasing"
    /\ WorkerAt(w, "driving")
    /\ beat' = [beat EXCEPT ![w] = TRUE]
    /\ UNCHANGED <<disk, held, pending, unwind, guard, copy, host, bounds>>

\* resume_workspace_build: each swap takes the build to its next stage, to a
\* gate, to its end or to a failure; a transient failure is retried later.
Drive(w) ==
    /\ wpc[w] = "driving"
    /\ Current(held[w])
    /\ \E status \in {"running", "review", "ready", "failed"} :
        /\ status = "running" => builder.version < MaxVersion
        /\ Update(status)
        /\ held' = [held EXCEPT ![w] = builder']
        /\ \/ status = "running" /\ WorkerAt(w, "driving")
           \/ status # "running" /\ WorkerAt(w, "reporting")
           \/ status = "failed" /\ builder.version < MaxVersion /\ WorkerAt(w, "backoff")
    /\ UNCHANGED <<task, job, launched, pending, unwind, beat, guard, copy, host, bounds>>

\* The state changed underneath: the call raises, returns what it finds, or, at
\* the next stage of a running build, goes on with it.
Conflict(w) ==
    /\ wpc[w] = "driving"
    /\ ~Current(held[w])
    /\ \/ WorkerAt(w, "failing") /\ UNCHANGED held
       \/ /\ held' = [held EXCEPT ![w] = builder]
          /\ WorkerAt(w, IF builder.status = "running" THEN "driving" ELSE "reporting")
    /\ UNCHANGED <<disk, pending, unwind, beat, guard, copy, host, bounds>>

\* Any other exception leaves the build running.
Raise(w) ==
    /\ wpc[w] = "driving"
    /\ WorkerAt(w, "failing")
    /\ UNCHANGED <<disk, held, pending, unwind, beat, guard, copy, host, bounds>>

\* _retry_transient after its delay
Backoff(w) ==
    /\ wpc[w] = "backoff"
    /\ LockFree
    /\ \/ /\ Current(held[w])
          /\ Update("running")
          /\ held' = [held EXCEPT ![w] = builder']
          /\ WorkerAt(w, "driving")
       \/ ~Current(held[w]) /\ WorkerAt(w, "failing") /\ UNCHANGED <<builder, held>>
    /\ UNCHANGED <<task, job, launched, pending, unwind, beat, guard, copy, host, bounds>>

\* After the swap the phase still closes its attempt file and appends its
\* events, under the Session lock.
Report(w) ==
    /\ wpc[w] = "reporting"
    /\ LockFree
    /\ WorkerAt(w, "syncing")
    /\ UNCHANGED <<disk, held, pending, unwind, beat, guard, copy, host, bounds>>

\* The task record is synced and the phase ends, or a newer task record fails it.
Finish(w) ==
    /\ wpc[w] = "syncing"
    /\ \/ Newer(held[w]) /\ WorkerAt(w, "failing") /\ UNCHANGED <<task, pending>>
       \/ /\ ~Newer(held[w])
          /\ task' = TaskOf(held[w])
          /\ pending' = [pending EXCEPT ![w] = "completed"]
          /\ WorkerAt(w, "closing")
    /\ UNCHANGED <<builder, job, launched, held, unwind, beat, guard, copy, host, bounds>>

\* The handler of a failed phase reads the state as it is now.
FailPhase(w) ==
    /\ wpc[w] = "failing"
    /\ held' = [held EXCEPT ![w] = builder]
    /\ pending' = [pending EXCEPT ![w] = "failed"]
    /\ WorkerAt(w, "closing")
    /\ UNCHANGED <<disk, unwind, beat, guard, copy, host, bounds>>

\* After a failure or a cancellation the task follows, if it is not newer.
Reread(w) ==
    /\ wpc[w] = "rereading"
    /\ held' = [held EXCEPT ![w] = builder]
    /\ WorkerAt(w, "resyncing")
    /\ UNCHANGED <<disk, pending, unwind, beat, guard, copy, host, bounds>>

Resync(w) ==
    /\ wpc[w] = "resyncing"
    /\ task' = IF Newer(held[w]) THEN task ELSE TaskOf(held[w])
    /\ WorkerAt(w, "stopping")
    /\ UNCHANGED <<builder, job, launched, held, pending, unwind, beat, guard, copy, host, bounds>>

\* The heartbeat thread is joined and the process ends.
StopWorker(w) ==
    /\ wpc[w] = "stopping"
    /\ guard[w] # "beat"
    /\ Exit(w)
    /\ UNCHANGED <<disk, host, bounds>>

-----------------------------------------------------------------------------
(* run_background_worker: signals and the heartbeat thread *)

\* Where SystemExit, or an error, leads from each place of the main thread: to
\* a handler of the try block, from those handlers to finally, else out.
Escape(w) ==
    CASE \/ wpc[w] \in {"driving", "backoff", "reporting", "syncing"}
         \/ wpc[w] = "closing" /\ pending[w] = "completed"  -> "handler"
      [] \/ wpc[w] \in {"failing", "rereading", "resyncing"}
         \/ wpc[w] = "closing" /\ pending[w] # "completed"  -> "stopping"
      [] wpc[w] \in {"signalled", "cancelling"}             -> unwind[w]
      [] OTHER                                              -> "gone"

\* SIGTERM runs stop_worker in the main thread, between any two of its steps.
Signalled(w) ==
    /\ WorkerAt(w, "signalled")
    /\ unwind' = [unwind EXCEPT ![w] = Escape(w)]

\* The exception leaves the handler and whatever it interrupted, write_job included.
Unwind(w, status) ==
    \/ /\ unwind[w] # "gone"
       /\ WorkerAt(w, IF unwind[w] = "stopping" THEN "stopping"
                      ELSE IF status = "cancelled" THEN "closing" ELSE "failing")
       /\ pending' = [pending EXCEPT ![w] = status]
       /\ unwind' = [unwind EXCEPT ![w] = "gone"]
       /\ guard' = [guard EXCEPT ![w] = IF @ = "main" THEN "free" ELSE @]
       /\ copy' = [copy EXCEPT ![w] = IF guard[w] = "main" THEN NoRecord ELSE @]
       /\ UNCHANGED <<held, beat>>
    \/ unwind[w] = "gone" /\ Exit(w)

HandleSignal(w) ==
    /\ wpc[w] = "signalled"
    /\ \/ /\ builder.status = "running"
          /\ held' = [held EXCEPT ![w] = builder]
          /\ WorkerAt(w, "cancelling")
          /\ UNCHANGED <<pending, unwind, beat, guard, copy>>
       \/ builder.status # "running" /\ Unwind(w, "cancelled")
    /\ UNCHANGED <<disk, host, bounds>>

CancelBuild(w) ==
    /\ wpc[w] = "cancelling"
    /\ LockFree
    /\ \/ Current(held[w]) /\ Update("cancelled") /\ Unwind(w, "cancelled")
       \/ ~Current(held[w]) /\ UNCHANGED builder /\ Unwind(w, "failed")
    /\ UNCHANGED <<task, job, launched, host, bounds>>

\* write_job of the heartbeat thread; a record of another job ends the thread.
BeatRead(w) ==
    /\ beat[w] /\ guard[w] = "free" /\ wpc[w] # "stopping"
    /\ \/ /\ job.id = w
          /\ copy' = [copy EXCEPT ![w] = [job EXCEPT !.fresh = (job.status \in Active)]]
          /\ guard' = [guard EXCEPT ![w] = "beat"]
          /\ UNCHANGED beat
       \/ /\ job.id # w
          /\ beat' = [beat EXCEPT ![w] = FALSE]
          /\ UNCHANGED <<copy, guard>>
    /\ UNCHANGED <<disk, wpc, held, pending, unwind, host, bounds>>

\* Mutant: write_guard is acquired and not released.
BeatWriteHoldingGuard(w) ==
    /\ guard[w] = "beat"
    /\ job' = copy[w]
    /\ copy' = [copy EXCEPT ![w] = NoRecord]
    /\ UNCHANGED <<builder, task, launched, wpc, held, pending, unwind, beat, guard, host, bounds>>

BeatWrite(w) ==
    /\ guard[w] = "beat"
    /\ job' = copy[w]
    /\ copy' = [copy EXCEPT ![w] = NoRecord]
    /\ guard' = [guard EXCEPT ![w] = "free"]
    /\ UNCHANGED <<builder, task, launched, wpc, held, pending, unwind, beat, host, bounds>>

\* The worker is killed.
KillWorker(w) ==
    /\ Alive(w)
    /\ kills < MaxKills
    /\ kills' = kills + 1
    /\ Exit(w)
    /\ UNCHANGED <<disk, host, commands>>

\* STALE_SECONDS pass without a heartbeat, of a dead or of a slow process.
Lapse ==
    /\ job.fresh
    /\ job' = [job EXCEPT !.fresh = FALSE]
    /\ UNCHANGED <<builder, task, launched, worker, host, bounds>>

-----------------------------------------------------------------------------
(* Tool calls: each begins with _builder_status, which reads the state, then *)
(* the job record, and fails a running build whose worker is gone            *)

\* A decision without a gate and a recovery without a failure do what a wait
\* does before they are refused.
Look(h) ==
    /\ hpc[h] = "idle"
    /\ \E t \in Tool \ {"start"} :
        /\ t = "stop"    => task.status = "running"
        /\ t = "recover" => builder.status = "failed"
        /\ t = "decide"  => builder.status = "review"
        /\ t # "wait" => commands < MaxCommands
        /\ tool' = [tool EXCEPT ![h] = t]
        /\ commands' = IF t = "wait" THEN commands ELSE commands + 1
    /\ seen' = [seen EXCEPT ![h] = builder]
    /\ HostAt(h, IF builder.status = "running" THEN "looking" ELSE "looked")
    /\ UNCHANGED <<disk, worker, kills>>

Inspect(h) ==
    /\ hpc[h] \in {"looking", "polled"}
    /\ HostAt(h, IF JobFailure(job, seen[h].version) THEN "dead"
                 ELSE IF hpc[h] = "looking" THEN "looked" ELSE "cancelling")
    /\ UNCHANGED <<disk, worker, tool, seen, bounds>>

\* fail_background_job at the version that was read
FailBackgroundJob(h) ==
    /\ hpc[h] = "dead"
    /\ LockFree
    /\ \/ /\ Current(seen[h])
          /\ Update("failed")
          /\ seen' = [seen EXCEPT ![h] = builder']
          /\ HostAt(h, "looked")
          /\ UNCHANGED tool
       \/ ~Current(seen[h]) /\ UNCHANGED builder /\ Return(h)
    /\ UNCHANGED <<task, job, launched, worker, bounds>>

\* The call then returns the synced task, or an error if the task is newer.
SyncTask(h) ==
    /\ \/ hpc[h] = "report"
       \/ hpc[h] = "looked" /\ tool[h] = "wait"
    /\ task' = IF Newer(seen[h]) THEN task ELSE TaskOf(seen[h])
    /\ Return(h)
    /\ UNCHANGED <<builder, job, launched, worker, bounds>>

-----------------------------------------------------------------------------
(* submit_review_decision and the recovery of start_workspace_task *)

Advance(h) ==
    /\ hpc[h] = "looked" /\ tool[h] \in {"recover", "decide"}
    /\ LockFree
    /\ \/ /\ Current(seen[h])
          /\ Update("running")
          /\ seen' = [seen EXCEPT ![h] = builder']
          /\ HostAt(h, "changed")
          /\ UNCHANGED tool
       \/ ~Current(seen[h]) /\ UNCHANGED builder /\ Return(h)
    /\ UNCHANGED <<task, job, launched, worker, bounds>>

SyncAdvanced(h) ==
    /\ hpc[h] = "changed"
    /\ \/ /\ ~Newer(seen[h])
          /\ task' = TaskOf(seen[h])
          /\ HostAt(h, "launch")
          /\ UNCHANGED <<tool, seen>>
       \/ Newer(seen[h]) /\ UNCHANGED task /\ Return(h)
    /\ UNCHANGED <<builder, job, launched, worker, bounds>>

\* launch_background_resume takes the Session lock ...
TakeLock(h) ==
    /\ hpc[h] = "launch"
    /\ LockFree
    /\ HostAt(h, "waiting")
    /\ UNCHANGED <<disk, worker, tool, seen, bounds>>

\* Mutant: it waits for an older phase without a limit.
RefuseLaunchForSameVersion(h) ==
    /\ hpc[h] = "waiting"
    /\ job.status \in Active /\ job.expected >= seen[h].version
    /\ Return(h)
    /\ UNCHANGED <<disk, worker, bounds>>

\* ... and waits for the previous phase to end, HANDOFF_WAIT_SECONDS at most, or
\* not at all when that phase was launched for this version or a later one.
RefuseLaunch(h) ==
    /\ hpc[h] = "waiting"
    /\ job.status \in Active
    /\ Return(h)
    /\ UNCHANGED <<disk, worker, bounds>>

\* Mutant: it does not wait.
WriteJobAtOnce(h) ==
    /\ hpc[h] = "waiting"
    /\ launched < MaxJobs
    /\ launched' = launched + 1
    /\ job' = [id |-> launched + 1, status |-> "starting", pid |-> FALSE, fresh |-> TRUE,
               expected |-> seen[h].version, result |-> 0]
    /\ HostAt(h, "popen")
    /\ UNCHANGED <<builder, task, worker, tool, seen, bounds>>

\* Without an active phase the record of the next one replaces the last.
WriteJob(h) ==
    /\ hpc[h] = "waiting"
    /\ job.status \notin Active
    /\ launched < MaxJobs
    /\ launched' = launched + 1
    /\ job' = [id |-> launched + 1, status |-> "starting", pid |-> FALSE, fresh |-> TRUE,
               expected |-> seen[h].version, result |-> 0]
    /\ HostAt(h, "popen")
    /\ UNCHANGED <<builder, task, worker, tool, seen, bounds>>

\* subprocess.Popen, which may fail. Recovery syncs the task once more.
Spawn(h) ==
    /\ hpc[h] = "popen"
    /\ \/ /\ WorkerAt(launched, "spawned")
          /\ \/ tool[h] = "recover" /\ HostAt(h, "report") /\ UNCHANGED <<tool, seen>>
             \/ tool[h] # "recover" /\ Return(h)
       \/ UNCHANGED wpc /\ Return(h)
    /\ UNCHANGED <<disk, held, pending, unwind, beat, guard, copy, bounds>>

-----------------------------------------------------------------------------
(* stop_task *)

\* request_background_cancel: nothing to signal, an error, or a signal
RequestCancel(h) ==
    /\ hpc[h] = "looked" /\ tool[h] = "stop"
    /\ \/ /\ ~JobActive(job)
          /\ HostAt(h, IF seen[h].status = "running" THEN "cancelling" ELSE "report")
          /\ UNCHANGED <<wpc, unwind, tool, seen>>
       \/ JobActive(job) /\ ~ProcessAlive(job) /\ Return(h) /\ UNCHANGED <<wpc, unwind>>
       \/ /\ JobActive(job) /\ ProcessAlive(job)
          /\ Signalled(job.id)
          /\ HostAt(h, "polling")
          /\ tool' = [tool EXCEPT ![h] = "wait"]
          /\ UNCHANGED seen
    /\ UNCHANGED <<disk, held, pending, beat, guard, copy, bounds>>

\* It calls _builder_status until the build has stopped, five seconds at most;
\* the last call counts. A build that runs even then is cancelled from here.
PollStop(h) ==
    /\ hpc[h] = "polling"
    /\ seen' = [seen EXCEPT ![h] = builder]
    /\ HostAt(h, IF builder.status = "running" THEN "polled" ELSE "report")
    /\ UNCHANGED <<disk, worker, tool, bounds>>

CancelStopped(h) ==
    /\ hpc[h] = "cancelling"
    /\ LockFree
    /\ \/ /\ Current(seen[h])
          /\ Update("cancelled")
          /\ seen' = [seen EXCEPT ![h] = builder']
          /\ HostAt(h, "report")
          /\ UNCHANGED tool
       \/ ~Current(seen[h]) /\ UNCHANGED builder /\ Return(h)
    /\ UNCHANGED <<task, job, launched, worker, bounds>>

\* The MCP server of a tool call is killed; the kernel drops its locks.
KillHost(h) ==
    /\ hpc[h] # "idle"
    /\ kills < MaxKills
    /\ kills' = kills + 1
    /\ Return(h)
    /\ UNCHANGED <<disk, worker, commands>>

-----------------------------------------------------------------------------
Work(w) ==
    \/ Identify(w) \/ MainRead(w) \/ MainWrite(w) \/ Lease(w) \/ Drive(w) \/ Conflict(w)
    \/ Raise(w) \/ Backoff(w) \/ Report(w) \/ Finish(w) \/ FailPhase(w) \/ Reread(w)
    \/ Resync(w) \/ StopWorker(w) \/ HandleSignal(w) \/ CancelBuild(w)

Heartbeat(w) == BeatRead(w) \/ BeatWrite(w)

Call(h) ==
    \/ Look(h) \/ Inspect(h) \/ FailBackgroundJob(h) \/ SyncTask(h)
    \/ Advance(h) \/ SyncAdvanced(h)
    \/ TakeLock(h) \/ RefuseLaunch(h) \/ WriteJob(h) \/ Spawn(h)
    \/ RequestCancel(h) \/ PollStop(h) \/ CancelStopped(h)

Next ==
    \/ \E w \in Job : Work(w) \/ Heartbeat(w) \/ KillWorker(w)
    \/ \E h \in Host : Call(h) \/ KillHost(h)
    \/ Lapse

Spec == Init /\ [][Next]_vars

\* The scheduler runs every thread and every call, agents time out, and a thread
\* that waits for a lock gets it: the launcher gives the Session lock back after
\* HANDOFF_WAIT_SECONDS, and write_guard is free between two heartbeats.
Fairness ==
    /\ \A w \in Job : SF_vars(Work(w)) /\ WF_vars(BeatWrite(w))
    /\ \A h \in Host : WF_vars(hpc[h] # "idle" /\ Call(h))

FairSpec == Spec /\ Fairness

-----------------------------------------------------------------------------
(* Properties *)

\* TypeOK: every variable keeps its type.
TypeOK ==
    /\ builder \in Build
    /\ task \in [version : Nat, status : {TaskStatus[s] : s \in DOMAIN TaskStatus}]
    /\ job \in JobRecord
    /\ launched \in 0..MaxJobs
    /\ wpc \in [Job -> WorkerPC]
    /\ held \in [Job -> Build]
    /\ pending \in [Job -> {"running", "completed", "cancelled", "failed"}]
    /\ unwind \in [Job -> {"gone", "stopping", "handler"}]
    /\ beat \in [Job -> BOOLEAN]
    /\ guard \in [Job -> {"free", "main", "beat"}]
    /\ copy \in [Job -> JobRecord]
    /\ hpc \in [Host -> HostPC] /\ tool \in [Host -> Tool] /\ seen \in [Host -> Build]
    /\ commands \in 0..MaxCommands /\ kills \in 0..MaxKills

\* A worker that has not yet closed its phase
Engaged(w) == wpc[w] \in {"spawned", "starting", "leasing", "driving", "backoff",
                          "reporting", "syncing", "failing"}

\* HandedOver: launch_background_resume never replaces the record of a worker
\* that has not closed its phase.
HandedOver ==
    [][launched' # launched => \A w \in Job : job.id = w => ~Engaged(w)]_vars

\* GatesKept: no worker, stop or reconciliation that acts on what it read earlier
\* leaves a gate or an end: ready and cancelled are final here, and a gate is
\* left only by a decision made on that very version.
GatesKept ==
    [][builder' # builder =>
         /\ builder.status \notin {"ready", "cancelled"}
         /\ builder.status = "review" =>
              \E h \in Host : tool[h] = "decide" /\ seen[h] = builder /\ hpc'[h] = "changed"]_vars

\* TaskForward: whoever syncs the task record, with whatever state it read
\* before, the record only goes forward, one status per version, never ahead of
\* builder.json.
TaskForward ==
    [][task' # task => task.version < task'.version /\ task'.version <= builder.version]_vars

\* WorkersEnd: every worker that is spawned ends, whatever fails or is signalled.
WorkersEnd == \A w \in Job : Alive(w) ~> ~Alive(w)

\* CallsEnd: every tool call returns, although a launcher waits for the previous
\* worker with the Session lock that this worker may be waiting for.
CallsEnd == \A h \in Host : hpc[h] # "idle" ~> hpc[h] = "idle"

\* RefusedWhileAlive: a launch is refused for a phase that is still active.
RefusedWhileAlive ==
    [][\A h \in Host : hpc[h] = "waiting" /\ hpc'[h] = "idle" /\ kills' = kills
         => \E w \in Job : Alive(w)]_vars
=============================================================================
