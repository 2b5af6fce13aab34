# KnowCoder Workspace Builder: TLA+ models

The Workspace Builder (`src/knowcoder_workspace_builder`) turns a question into a
knowledge Workspace. A *Session* passes through a fixed pipeline of stages - problem,
evidence, schema_build, schema_judge, extract, structured_extract, document, finalize,
ready - each run by a Subagent in a process of its own, with two gates at which the user
confirms, and it can be cancelled, retried, extended and restarted from the middle. There
is no server that serialises this: drivers, command callers, background workers and a
starting service open the same Session directory and meet only in its files. These models
state what still holds, check it on small instances with TLC and prove all of the safety part for
every instance with TLAPS.

## Inventory

| Component | State it keeps | Operations | Hard part | What makes it correct |
|---|---|---|---|---|
| Coordinator (`service/coordinator.py`) | the state it holds in memory, transient retry counts | run_until_gate, _retry_transient, _finalize, _set_ready, failure closers | works for minutes on a copy of builder.json | returns; publishes only what was accepted; never revives a cancelled build |
| Stage runner (`service/stage_runner.py`) | one attempt | run, _accept, _fail_attempt | attempt file, stage file and builder.json change in separate steps | a result is accepted only for the attempt that owns the Session |
| Commands (`service/commands.py`) | none | prepare_start, resume, follow_up, confirmations, retry, cancel, delete, fail_background_job, recover_interrupted | issued while a driver runs | gates hold; accepted results stay in order |
| Review pages (`review/service.py`) | snapshots of forms | save for both gates | several saves before one answer | an edited schema is judged again |
| Follow-up plans (`service/follow_up.py`, `workflow/`) | none | create, validate, apply | implied impacts interact | restarts exactly what a change invalidates |
| Session store (`storage/sessions.py`, `attempts.py`) | builder.json, attempt files | create, load, update (compare-and-swap), start, finish, is_active | stale versions | no lost update |
| Stage files and Workspace (`storage/canonical.py`, `extensions.py`, `workspace.py`, `service/finalize.py`) | stages/, baseline, workspace/ | publish_stage_result, install_extension_baseline, snapshot, commit | replaced before or after the swap that makes them official | agree with builder.json when the build is complete |
| Background jobs (`mcp/background.py`) | mcp_background_job.json, worker process | launch, heartbeat, cancel by signal, failure detection | hand-over between phases, killed workers | one worker at a time; a dead one is noticed |
| Tasks and tools (`mcp/task_store.py`, `tools.py`) | task records, leases | start, wait, decide, stop, find | retried and duplicated tool calls | a task follows its Session |
| Event log, locks, tombstones (`storage/events.py`, `locks.py`, `tombstones.py`, `transaction.py`) | events.jsonl, sequence, lock files | append, read, acquire, mark_deleted | crash or exception between two writes, late writers | numbers in order, repeated only after such an end; no build state after deletion |
| Agent runner (`agents/runner.py`) | process table, cancelled attempts | run, cancel | cancel before the process is registered, signals in the middle of run | nothing works on after a cancellation |
| Harness worker and agent loop (`runtime/harness_worker.py`, `agent_tool_call_middleware.py`, `harness/`) | conversation, tool-call ledger | turns, parallel tool calls, corrections, validation rounds | concurrent calls judged by messages they do not see yet | answers; no call runs twice; no saved draft is lost |
| Evidence and sources (`tools/web_fetch.py`, `runtime/candidate_normalization.py`, `storage/sources.py`, `stage_writers/evidence.py`) | source files, manifests, coverage | fetch, save, extract, publish, follow up | files of rejected attempts stay; a page is met again | accepted facts and evidence are kept |
| Schema (`storage/schema.py`, `stage_writers/schema.py`, `tools/schema_candidate_builder.py`, review form) | candidates, blueprint, source | merge candidates, save, edit, revise | several saves at once, spellings, source read back | changes only what was named |
| Parallel units and drafts (`runtime/parallel_units.py`, `tools/unstructured_extractor.py`, `storage/stage_artifacts.py`) | pool, drafts | run, merge answers, merge drafts | order of completion, reused ids | no unit lost; facts keep their meaning |
| Validation, configuration, cli, static pages | none | parse, check, render | text | see "Not modelled" |

Components interact through files and calls: MCP tools call commands and launch a
background worker; the worker and every other driver call the coordinator, the coordinator
the stage runner, the stage runner the agent runner; all of them replace builder.json
through `BuildStateStore.update`, which compares the version it was given under the Session
lock and increments it.

## Modules

| Module | Models |
|---|---|
| `Pipeline` | stages and their order, the stage that follows, impacts and where they restart, the normalisation of a submitted change (`FollowUpPlan.create`); no state |
| `FollowUpPlan` | every submission a host can make and the resubmission of an accepted plan |
| `SequentialBuild` | the abstract promise: one build, one attempt at a time, two gates, no processes and no files |
| `BuildLifecycle` | the Session: builder.json, attempt files, stage files, baseline, Workspace, and any number of processes on it |
| `MCBuildLifecycle` | symmetry and the second initial state for TLC |
| `BackgroundJobs` | detached workers, the tool calls that launch, watch and stop them, job record and task record |
| `MCBackgroundJobs` | symmetry of the tool calls |
| `WorkspaceTasks` | the tasks of one Workspace: creation in two files, request keys, concurrent starts, recoveries and looks |
| `StageTurns` | one attempt inside the Harness worker: conversation, tool calls, middleware, ledger, validation rounds |
| `MCStageTurns` | the bound on the tool calls of each stage |
| `EvidenceSources` | the evidence of a Workspace from fetched pages to published facts, through attempts and follow-ups |
| `SchemaDesign` | the schema from candidates through saves, source and form |
| `ParallelUnits` | `run_parallel_units`, and the merge of its answers into drafts and published facts |
| `SessionFiles` | event log, Session lock, deletion, and the renames that publish a Workspace |
| `AttemptProcess` | the worker process of one attempt: run, cancel, signals |
| `PublishedFiles` | the files of a publication as functions of accepted facts and sources, and those who read them back |
| `MCParts` | the modules that share no state, one per behaviour |
| `BuildLifecycleProofs` | the inductive invariant of `BuildLifecycle` and its consequences |
| `BuildRefinementProofs` | `BuildLifecycle` implements `SequentialBuild`; cancellation is final |
| `BuildFilesProofs` | stage files, attempt files and Workspace agree with builder.json while drivers take turns |
| `JobsProofs` | `BackgroundJobs`: workers hand over, gates stay, the task goes forward |
| `TaskProofs` | `WorkspaceTasks` and `AttemptProcess`: completed means published, one follow-up at a time, nothing works on after a return |
| `StageTurnsProofs` | `StageTurns`: a call runs once, a save sees its research, no draft is lost, an open circuit stays open |
| `PublicationProofs` | `SessionFiles` and `PublishedFiles`: event numbers, deletion, the commit, and the files that others read back |
| `KnowledgeProofs` | `EvidenceSources`, `ParallelUnits`, `SchemaDesign` and `FollowUpPlan`: evidence and facts, units and drafts, candidates and schema, restarts |

### BuildLifecycle and the code

`builder` is builder.json reduced to the fields that decide something: version, status,
stage, active_attempt_id, accepted_attempts, the two confirmations,
requires_revalidation (`revalidate`), schema_revision_rounds, workspace_mode,
invalidated_from, replace_instances, and whether `failure` is a transient one; `schema` is
a ghost that tells whether the stored schema source is the one the judge last passed.
Attempts are numbered in the order of their creation where the code draws a uuid4.
`record` holds the attempt files, `canonical` which attempt each stage file comes from,
`baseline` and `workspace` whose facts they contain; `Imported` stands for content copied
from another Session.

A driving process is a thread inside `run_until_gate`. Its program counter names the next
step that touches a file: `loop`, `recorded` (attempt file written), `agent` (Subagent at
work), `install` (extension baseline), `publish` (stage file), `accept`, `finish`, the
failure path `failing`/`mark_failed`/`backoff`, and `set_ready` (Workspace committed). One
action is one such step. Between any two of them every other process may move, and `Crash`
may end this one. A StateConflictError sends a driver along the failure path or out of the
loop exactly where the code does.

A command that loads the state, checks it and swaps it has no effect unless nothing
changed between the load and the swap; such a command is one action
(`ConfirmProblem`, `Retry`, `FollowUp` and the like; a refused command is a stutter). `cancel`,
`fail_background_job` and `recover_interrupted` also close attempt files and keep their
separate steps, in the code's order: cancel swaps first, recovery closes the file first.

Every replacement of builder.json is an operator of its own (`Accepted`, `Failed`,
`Restarted`, `Ready`, ...), named after the function that makes it.

Abstractions: reports, events and live streams are left out; `is_active` followed by
`finish` on an attempt file is one step (only a process that has already lost the Session
can be in between, and it loses nothing else by it); a stage
input either can be built or is refused (`FailPreflight`); what a Subagent does is the
outcome it ends in: a result, a judge's request for a revision, a problem that extends
another Workspace, a result that reports failure, a transient or other error, or
cancellation; `WorkspaceRepository.commit` succeeds or leaves the old Workspace.

### BackgroundJobs and the code

`builder` is builder.json with its version and status only, the two gates being one;
`task` is the task record, `job` the job record. A job is numbered where the code draws a
uuid4; `fresh` says that the heartbeat is not older than STALE_SECONDS, and a version of 0
stands for an absent field.

A worker is a process of `run_background_worker` with two threads. `wpc` is the next step of
the main thread: `spawned` (reads its record), `starting` and `closing` (write_job), `leasing`,
`driving` and `backoff` (resume_workspace_build), `reporting` (the writes after the last swap),
`syncing` (tasks.sync), `failing`, `rereading`, `resyncing` (the handlers), `stopping` (finally),
`signalled` and `cancelling` (stop_worker). `write_job` is two steps, the reading and the
replacement, with `write_guard` held in between by the main or by the heartbeat thread
(`guard`, `copy`). A signal may arrive at any label; `unwind` remembers where an exception of
the signal handler leads: to the handlers of the try block, from those to finally, or out.

A host `h` is a tool call. `hpc` goes through `_builder_status` (`looking`, `looked`, `dead`) and
then through what `tool` names: return the synced task; change the build, sync the task, take
the Session lock, wait for the previous phase, write the record, spawn; or signal, poll and
cancel. The launcher is the only one that keeps the Session lock over several steps; the
steps of others that need it are enabled only while no launcher holds it (`LockFree`).

Abstractions: what a worker does to the build between two swaps is left to `BuildLifecycle`,
so `Drive` is one swap with any of its outcomes; process identifiers are not reused;
the task lock is held within one step; the lease file is written and never read.

### WorkspaceTasks and the code

`build` is builder.json as in `BackgroundJobs`; `tasks` holds each task's state.json and the two
fields of secret.json that decide something, `token` and `request` (request_sha256). `tool` is a call
of `start_workspace_task` or `wait_for_task_update`, and its program counter names the next file it
touches. `create` keeps the Session lock between its two files (`SessionFree`). `told`, `owner` and
`published` are ghosts: the tasks whose host was told they have started, and whose follow-up
is the current and the published one. Locks end with their holder (`KillServer`).

### StageTurns and the code

`pc` is where `harness_worker.main` is: the model's `turn`, the `tools` of its last message, the
correction after them, validation, repair, and the answer it prints. A tool call has a program counter
of its own, from the middleware's checks through the ledger's admission to its result, and the calls
of one message run concurrently, as ToolNode runs them; each step of a call is one look at a
shared file or one effect. `msgs` keeps of the conversation what the middleware reads from it: tool,
argument, result. `ledger` is tool_calls.json, which survives a repeated conversation and a repair
round, while `msgs` does not. `candidate` is the draft file by what the validator will say of it. The model chooses
freely among the tools it is granted.

### EvidenceSources and the code

A page is a source by address and content. `record` is its source manifest, `file` its chunks.jsonl;
both belong to the Session and outlive the attempt. Of the fields of a manifest only the number of chunks is
represented. A save that meets a manifest with another number is refused (`Conflicts`); over the fields that are left
out, as title and requested_url, `Register` may refuse any save of a known page. The same refusal
at the end of `Prepare`, before a file is written, changes nothing and is a stuttering step.
`saves` are calls of save_evidence_manifest, in steps: prepare, one source after the other (files, then record), the
manifest. `coverage` is accepted evidence, `draft`, `baseline` and `workspace` are facts by the chunk they
refer to. The schema stages and the gates are passed over; a follow-up starts at
the evidence (`FollowUpEvidence`) or extracts all instances again (`FollowUpInstances`).

### SchemaDesign and the code

A name is what casefold makes of it and a spelling. A blueprint is a set of definitions, an entity
with its fields or a relation with its ends. `Merged` is _merge_candidates, the operators that change a
blueprint are merge_schema_blueprint, and `Source`, `BlueprintOf`, `FormOf` are the conversions between blueprint, Python
source and form, by what they keep, add and refuse (`Compiles`). Descriptions, types and
cardinalities are abstracted, and `OnlyNamedChange` says nothing of them: a description goes through a docstring and back
(storage/schema.py:354) with every save, where a backslash can be read as an escape and triple double quotes become single ones, so
one that nobody named can change. An entity named `Entity` and a relation named `_id`, which compile but are not
read back, are outside the model. So are the aliases of keys (entity_type, head_entity_type and so on): validating a
candidate knows them, _merge_candidates reads name, head and tail alone, and the strict response_format
of the call asks for these.

### ParallelUnits and the code

`future` is each unit's Future with what became of it, `log` the progress events, `streak`
consecutive_failures. The pool holds `Workers` units, and the loop collects any that is done. `MergeAll` is
merge_draft applied to the answers in the order of their indexes, with new ids for those in use; `WithoutDangling` drops relations
without ends as the writer does, and merging two drafts is merge_final_drafts. `EntityLoop` and `DraftLoop` hold the
states of the two loops. An id computed by _disambiguated_entity_id stands as the name it is computed from;
IdsAssumption says that no model gives such an id.

### SessionFiles and the code

`write` is a thread in EventStore.append, AttemptStore.start or BuildStateStore.update, `commit` one in
WorkspaceRepository.commit, which does not take the lock; each step is one file. Any step may raise (`WriteRaises`,
`CommitRaises`, the deletion's own steps), and any process may be killed (`MaxKills`). An append can also raise between its
line and event_sequence.json, in fsync or on a full disk (`CountRaises`): the line stays, the lock is released and the
counter is behind. `raises` counts these, up to `MaxRaises`. `deletion` is BuildCommands.delete: tombstone first, then the
directory. A line is written as a whole or not at all; an os.write that stores half of one is left out.

The Session exists from the beginning. BuildStateStore.create (sessions.py:20) and the removal of the
Session by prepare_start (commands.py:67) are not among the operations, and `BuildGone` does not speak of them: when two starts
give the same explicit session_id, both can find no builder.json, one creates it, and the other, refused
under the lock, removes the root, so that a builder.json can go without any deletion.

### AttemptProcess and the code

`run` is a thread in HarnessAgentRunner.run, `cancel` one in cancel. With `handler`, cancel is
called by the SIGTERM handler of a background worker, in the middle of run and in the same thread; run
goes on only after it, and SystemExit then unwinds it (`Interrupted`). A worker without a request ends by
itself once its input is closed, so only one that is `working` can do harm.

### PublishedFiles and the code

A build passes through evidence, extraction, document and finalize (`turn`) with any facts
`validate_instance_records` accepts. `overview` is the README as `render_workspace_readme` makes it in the document
stage, `public` what `WorkspaceRepository.commit` writes, `kept` and `found` the baseline and the accepted extraction, which
finalize merges. `uploaded` sources need no chunk. `torn` (of an entity), `tornLinks` (of the relations), `untitled` and
`unstated` say which texts contain what their file cannot carry: a line separator that JSON leaves alone but splitlines
does not, and a backslash or private path in the README. Lines of the published chunks are never torn: their text
was split by splitlines when the Session's chunks.jsonl was read (tools/web_fetch.py:142). `forgotten` is a ghost: the sources that the evidence has lost
because an extended problem states their step in other words. The readers are validate_ready, the published
loader, read_artifact and the snapshot of the next follow-up. A relation joins all of `Thing`, a reference is the
source it names; the schema part of the files is in `SchemaDesign`.

### MCParts

`plan`, `evidence`, `units`, `files`, `schema`, `tasks`, `process` and `public` share no state, so a behaviour of their
product would only interleave them. `part` says which of them a behaviour is about; the others stay in
an initial state. The state space is the sum of those of the parts. They use the same model
values for their sets, so one symmetry set serves all (no part compares values of two of its sets).

The definitions that stand just before another one and carry a comment beginning with
"Mutant" are altered forms of it that no specification uses. Substituting one for the
original makes a named property fail, which shows that the property depends on that code.

## Runs

| Run | From | Processes | Bounds | Checks |
|---|---|---|---|---|
| `lifecycle_start` | new Session | 2, not coordinated | 3 attempts, 1 command, 1 crash, 1 recovery, 1 transient retry | types, ownership, CancelIsFinal, refinement of `SequentialBuild` |
| `lifecycle_shared` | schema gate | 2, not coordinated | 8 attempts (4 done), 2 commands, 1 recovery | the inductive invariant, gates, order of acceptance, every step is one of `SequentialBuild` |
| `lifecycle_worker` | schema gate | 2, drivers exclude each other | 12 attempts (4 done), 2 commands, 1 crash | Workspace, stage files and attempt files agree with builder.json |
| `lifecycle_returns` | new Session | 2, drivers exclude each other | 15 attempts, 1 transient retry, 1 revision | run_until_gate returns |
| `jobs` | prepared Session, first launch | 2 tool calls, 2 workers | 2 user commands | types, HandedOver, GatesKept, TaskForward |
| `jobs_end` | prepared Session, first launch | 1 tool call, 2 workers | 1 user command, 1 kill, 1 further stage | every worker ends, every call returns |
| `turns` | a new attempt of 5 kinds of stage | 2 calls at a time | 3 calls in evidence, 5 elsewhere; 3 answers of the model, 2 rounds | OneRunPerCall, SaveSeesResearch, DraftNotLost, CircuitStaysOpen, Answers |
| `parts` | the initial state of each part | see below | see below | 17 properties of the 8 parts |

The bounds of `parts`:

| Part | Bounds | Properties |
|---|---|---|
| plan | 2 research steps; every submission | RestartsForChanges |
| evidence | 2 pages of 2 chunks, 1 step, 2 saves at a time, 2 chunks a save, 1 lost attempt, 2 follow-ups | SourcesRegistered, FactsFromEvidence, EvidenceKept, FactsKept |
| units | 1 to 3 units, 2 threads, 2 failures in a row, 2 names and 2 ids; answers of up to 2 entities and 1 relation | UnitsAccounted, StopsInRow, DraftFaithful |
| files | 2 writers and a publisher and a delete, 4 writes, 2 publications, 2 kills, 1 event that raises after its line | EventsNumbered, BuildGone, WorkspaceIsCurrent |
| schema | 2 types in 2 spellings, 1 further relation, 1 field, 2 candidates, 2 saves at a time, 3 saves of 1 change, 2 edits or revisions | AdviceResolves, OnlyNamedChange |
| tasks | 2 calls at a time, 4 in all, 2 requests, 3 tasks, 4 changes of the build, 1 killed server | CompletedMeansPublished, OneFollowUpAtATime |
| process | none: the part is finite | NothingWorksOn |
| public | 2 sources, 2 entities, every choice of torn entities and relations, titles and uploads, 2 follow-ups | FilesAgree |

Two pages let one be met again while the other is new; two chunks let a second selection of a page differ from the
first; one lost attempt leaves files behind, and two follow-ups let one build on the other. Three units and a
limit of 2 (5 in the code) have a streak that is broken and one that is not; two names and two ids
have every confusion of ids between two answers. Three saves have two that overlap and one that
follows. The tasks are those of the build that made the Workspace and of two follow-ups, of which two can be started at once.
In `turns`, MaxSteps 3 stands for max_steps 1000 of harness.json; it lets the model ask, fail, and be corrected
before a save. MaxExternal 1 opens the circuit with the first failed search.

In `jobs` a decision and a stop, two stops, or a recovery and a stop meet the end of one
worker and the start of the next; two calls are enough for one that acts on what it read
and one that changed it. Kills, further stages and automatic retries are in `jobs_end`, which has one tool call
because liveness is checked without symmetry. There the launcher still meets a worker that
waits for its lock. The two workers of `jobs_end` are all that its one command can launch, so the bound
never stops a launcher; in `jobs` a third launch is cut off, which safety allows.

Commands of the lifecycle are counted when they send the build back (retry, revision, follow-up, review
save); confirmations and cancellations are bounded by the states themselves. Two
processes suffice for every race on builder.json: one that holds a stale copy and one that
changed it. From the schema gate, three attempts complete the build and up to seven more
complete a follow-up, so `lifecycle_worker` contains a complete build, a complete in-place
extension through all stages, and one failure. RevisionLimit 1 lets the judge
ask for one revision and then hits the limit; the code's default limits are larger and
differ only in the number of repetitions. `lifecycle_returns` needs 14 attempts at most,
so its bound of 15 never stops a driver. Symmetry over processes is used in the safety
runs only. Deadlock is not checked for the lifecycle because a build rightly rests at a
gate or at its end.

What the passing runs show:

- `ImplementsSequential`, `StepsSequentially`: however many processes hold stale copies,
  what builder.json goes through is a behaviour of one sequential build. The second is the
  same without the initial state, for behaviours that begin at the schema gate.
- `CancelIsFinal`: no late result, retry after a backoff or recovery revives a cancelled
  build. The same is *not* true of a failed build: a transient failure is stored as
  failed before the backoff, and the driver sets it running again by itself.
- `GatesHold`, `StagesInOrder`: no stage beyond a gate without its confirmation, and no
  accepted result older than one it builds on, through retries, revisions and follow-ups.
- `AcceptedNotRevoked`, `StageFilesAccepted`, `WorkspaceFromAccepted`: the files agree
  with builder.json - when drivers exclude each other and no recovery pass runs. Both
  conditions are needed: publish_stage_result replaces the stage file before acceptance,
  so with two drivers the file of a refused attempt can stay; and a recovery pass that
  read the state before a result was accepted marks the accepted attempt's file failed.
  Background workers take turns (`_wait_for_previous_phase`) and switch recovery
  off (`SCHEMA_WORKSPACE_RECOVER_INTERRUPTED`); programs that embed the Builder do neither.
  How far the workers' turns can be relied on is the subject of `BackgroundJobs`.
- `DriverReturns`: the limits bound the loop.
- `HandedOver`: a launch never replaces the record of a worker that has not closed its phase,
  whenever the user decides, signals arrive or heartbeats are written.
- `GatesKept`: stops, status calls and old workers act on what they read earlier and still
  never leave a gate, a finished or a cancelled build.
- `TaskForward`: the task record goes forward only, whoever syncs it with whatever it had
  read.
- `WorkersEnd`, `CallsEnd`: there is no deadlock between the launcher, which waits for the
  worker with the Session lock, and the worker, whose last writes need it: the
  limited wait is what ends it.

- `OneRunPerCall`: the ledger's admission is atomic, so parallel calls of one message, a repeated
  conversation and a repair round run a call once, although every check before it may be stale.
- `SaveSeesResearch`: an evidence save is deferred behind searches and fetches of its message.
- `DraftNotLost`, `CircuitStaysOpen`, `Answers`: the counters of corrections, retries, failures and
  rounds, each read from the conversation, bound one another without losing a saved draft.
- `SourcesRegistered`, `FactsFromEvidence`, `EvidenceKept`, `FactsKept`: with two saves at
  once, lost attempts and follow-ups, sources precede manifests and nothing accepted is lost.
- `UnitsAccounted`, `StopsInRow`, `DraftFaithful`: in any order of completion, and with any reuse of ids.
- `EventsNumbered`: a number comes twice at most once for each append that was killed or raised between its line and the
  counter. `BuildGone`: whatever append, start or update had begun before the deletion. `WorkspaceIsCurrent`: a commit that raises
  restores, one that is killed may not.
- `AdviceResolves`, `OnlyNamedChange`: votes over spellings leave no relation without an end, and the
  way from source to blueprint or form and back changes only what was named.
- `CompletedMeansPublished`, `OneFollowUpAtATime`: a task is reported completed only when its own
  follow-up was published, and two starts never run in one another. Both rest on versions; the check for an open task is not enough.
- `NothingWorksOn`: wherever a cancellation or a signal meets run.
- `RestartsForChanges`: a plan restarts exactly when something changed, early enough, and the same when the host
  sends it back as it was answered.
- `FilesAgree`: what the stages accept can be published; those who read the files back accept them exactly when
  no line is torn; and the README, made one stage before the rest, has the counts and the sources of the manifest.

What does *not* hold of the files, and is reachable in `PublishedFiles`: after an extension that words a step anew the
README leaves out published sources of the old step; a text with U+0085, U+2028 or U+2029 publishes a
Workspace that nobody can read or extend (`TakeBaseline` is then never enabled); a backslash in a title or a
step makes every document stage fail. Nor do `FactsFromEvidence` and `EvidenceKept` cover such an
extension: the follow-ups of `EvidenceSources` keep the steps.

What does *not* hold, and is reachable in `BackgroundJobs`: a heartbeat thread that has read
the closed record of its worker can write it back over the record of the next phase, after
which that phase has no record of its own and a recovery may start a second worker beside it;
a worker that takes longer than STALE_SECONDS to publish its process ID is
failed while it lives; a build set to running whose launch is then refused or cut off stays
running, with a record that `background_job_failure` does not report, until it is stopped.

### Disagreements found

| Run | Property | Disagreement |
|---|---|---|
| `schema_saved_twice` | JudgedBeforeExtract | `ReviewService.save` compares with the source of the previous save and resets requires_revalidation; after two saves the confirmation of an edited schema goes to extraction without the judge |
| `new_without_imports` | NewHasNoImports | an extend proposal installs the base Workspace before the user answers; a revision into `new` does not remove it and its facts are published |
| `jobs_relaunch` | RefusedWhileAlive | `_wait_for_previous_phase` looks at the status of the last record, not at its process: once a worker was killed, or never started, every recovery of the task is refused |
| `evidence_refs` | FactsResolve | a page that is selected again, by another step or a follow-up, has its chunks.jsonl overwritten with the new selection; facts that refer to the others can then not be published, on any retry |

`evidence_refs` has 2 steps, 1 save at a time and 1 follow-up, and runs the evidence part alone.
Each of these runs checks one property, and TLC prints the shortest behaviour that
violates it.

## Fairness

`FairSpec` assumes weak fairness of `Drive(p)`: a thread in run_until_gate is not stopped
for ever, and a Subagent invocation ends because `HarnessAgentRunner.run` kills it after
`timeout_seconds`. Users, hosts and starting processes owe nothing, and no crash is
assumed away (a crash ends the driver, which is a return too).

`BackgroundJobs!FairSpec` assumes that the main thread of a worker is run and gets the locks it
waits for (strong fairness of `Work`): agents have timeouts, the launcher gives the Session lock
back after HANDOFF_WAIT_SECONDS, and the heartbeat thread leaves write_guard for
HEARTBEAT_SECONDS at a time. A heartbeat that has begun to write is finished, and a tool call
that has begun is run (weak fairness). Nobody has to begin a call, send a signal or beat.

`StageTurns!FairSpec` assumes weak fairness of the worker's steps: requests to the model and the
tools' own requests have timeouts, and the worker's loop is one thread. What the model answers is left open, so
it may go on asking as long as the code lets it.

## Proofs

`BuildLifecycleProofs` proves, for every set of processes, exclusive or not, every limit and
every bound, from LimitsAssumption, ExclusiveAssumption and BoundsAssumption alone:

- `Invariance`: `Spec => []Inv`;
- `TypeCorrect`, `OwnedAttemptHolds`, `GatesAlwaysHold`, `StagesStayInOrder`: its
  consequences.

`BuildRefinementProofs` proves, from the same assumptions and from `Invariance`:

- `CancellationIsFinal`: `Spec => CancelIsFinal`;
- `GatesUnconfirmed`: a build that waits at a gate has not passed it (which makes saving a
  review page invisible in `SequentialBuild`);
- `Refinement`: `Spec => ImplementsSequential`, so any number of processes with stale copies,
  killed anywhere, change builder.json only in ways one sequential build could;
- `StepsRefine`: the same from every state that the invariant allows, which is what the run from
  the schema gate (`StepsSequentially`) shows of one such state.

The invariant. Neither the gates nor the order of acceptance is inductive: an acceptance is
correct only because the attempt is younger than everything accepted, which is so because
it was created by a process that held the current version when it took the Session. So
`Inv` adds: versions identify states (`SnapshotsAreVersioned`: a process whose copy has the
current version has the current state, which turns a successful swap into a sequential
step); the active attempt is younger than all accepted ones (`AttemptsInOrder`); what waits
for the user is the youngest accepted result (`AsksAboutAccepted`); statuses fit stages
(`StatusFitsStage`); and what each process knows at each program counter
(`KnowsItsAttempt`). TLC checked `Inv` first, in `lifecycle_shared`.

The argument. For each replacement of builder.json one lemma says which fields it changes
(`...Effect`); five lemmas say that a replacement of a given kind keeps the part of `Inv`
that speaks of builder.json (`BuilderKept`, `BuilderStopped`, `BuilderBegins`,
`BuilderAccepts`, `BuilderPublishes`, `BuilderAnswered`, `BuilderRestarts`); `ProcessStep`
and `LeaveStep` say that the knowledge of the other processes survives any swap because
versions only grow; `DriveInv`, `CommandInv` and `InterruptInv` then go through the actions
one by one. For the refinement, `BuilderStep` uses the invariant to say that every step leaves
builder.json alone or replaces it in one of nine ways (`Replacement`), each from a state that
allows it, and one lemma per way (`...Implements`) maps it to a step of `SequentialBuild`, or
to a stutter for a saved review page.

`BuildFilesProofs` proves `WorkspaceIsFromAccepted`, `StageFilesAreAccepted` and
`AcceptedStaysUnrevoked` for any processes, attempts, commands and crashes, under two hypotheses that
each theorem states: `Exclusive` (drivers take turns) and `MaxRecoveries = 0` (no recovery pass).
Without either the code does not keep them, as said above. None of the three is inductive, because a
stage file is replaced before its attempt is accepted, and attempt files are closed after the
swap that made them obsolete. `FilesInv` (in `BuildLifecycle`) adds that there is one driver (`DriversAlone`);
that the accepted attempts of the stages the build has left, or asks the user about, own their stage files
and are not closed (`SettledFiles`); and what each process knows of the files (`KnowsItsFiles`): while a
driver holds a running build, others may stop it and take it up again but not move it to another
stage; the attempt a driver works on is open and nobody is about to close it, if the driver's copy
is current (`Safe`); and nothing relies on an attempt that a process works on or is about to close (`Unsettled`). The
refinement does half of the work: from the nine ways in which builder.json is replaced it follows
which stages become settled and which no longer are.

The rest of `KnowledgeProofs`, `TaskProofs`, `StageTurnsProofs` and `PublicationProofs` has one invariant for
each component. All of them were checked by TLC on the instances of the runs first.

Evidence (`KnowledgeProofs`): from ChunksAssumption (finitely many chunks, so that a source with a chunk
has a number of chunks that is not zero), `FactsComeFromEvidence`, `SourcesAreRegistered`,
`EvidenceIsKept` and `FactsAreKept` for any pages, steps and parallel saves. None of the four is
inductive: a save prepares its manifest, registers the sources one by one and writes the manifest
last, and may be refused, overtaken or killed between. So
`EvidenceInv` adds: every page of a manifest in the hands of a save is registered or still on its
list (`SavesRegister`), with the waiting manifest registered altogether (`SourcesKnown`); a manifest
never has less than what is accepted (`ManifestsExtend`), which makes acceptance a growth; no save and
no manifest outlives the collection (`QuietOutside`); and while a follow-up runs its baseline is what
was published (`BaselineIsPublished`), so that publishing a draft that keeps the baseline drops
nothing. One lemma per action, one step per conjunct the action can disturb.

Tasks (`TaskProofs`): from no assumption, `CompletedIsPublished` and `FollowUpsTakeTurns` for any
number of servers, calls and tasks. The check of create for an open task cannot carry the argument,
since two calls can both pass it; the version of builder.json does. `Begun(t, v)` says of a
follow-up that was started by the swap to version v: no copy of builder.json, on disk or in the hands of
a call, that is as new as v says ready unless t was published, and t is published or the last
that was started (`owner`). It holds of each started call at the version it has seen and of each confirmed
task at the version of its record (`FollowUpsBegun`), which only grows, because TaskStore.sync refuses to go
back. A record says completed only after a sync with such a copy, hence the first theorem; a second
follow-up needs a ready copy that is still current, which the first forbids until it is published,
hence the second.

Files of a Session (`PublicationProofs`): from DeleterAssumption (the delete command is not one of the writers),
`EventsAreNumbered`, `BuildStaysGone` and `WorkspaceStaysCurrent` for any number of writers,
publications, kills and operations that raise. `FilesInv` adds who holds the Session lock where (`LockHeld`); that a line which
the counter does not know is the last one, and belongs to a writer that is about to count it or to one
that was killed or raised (`LogCounted`, which is why each doubled number costs a kill or a raise); that the files of a Session
go only after it was marked (`MarkedFirst`); and what a running commit has moved where
(`CommitKnown`: its backup is what current.json names, and its own number is newer).

The process of an attempt (`TaskProofs`): `NothingWorksOnHolds`, from no assumption, for every order of run, cancel,
signals and the end of the worker. `ProcessInv` adds what each side may rely on: a worker is at work
only for a run that waits or whose Builder is gone; a registered run past its refusal is known to cancel;
a cancel that has returned left no worker that can still get a request (`CancelKnown`).

`JobsProofs` proves, from BoundsAssumption, `JobsTyped`, `HandsOver`, `KeepsGates` and `MovesTaskForward` for any
number of workers, tool calls, commands and kills. Workers and calls act on copies of builder.json that may
be old. So `JobsInv` says that there is one history, a function from versions to statuses, with
which every copy in use, the task record and every record that waits for its worker agree (`OneHistory`);
the proof extends the history by one entry at each swap (`HistoryGoesOn`). A copy of the current version
is then the current build, and a sync with a copy of the task's version changes nothing, which leaves to
each place what its copy says (`AllKnow`): a worker swaps only a running or failed build, a call leaves a gate
only with a decision. For the hand-over, `MayEngage` says which workers may still work on their phase, the
signalled ones whose handler leads back into it included; `RecordsOpen` says that their record is active,
and so is what their main thread or their heartbeat is about to write over it. One lemma per action says that it
is a move (`Moves`, `Calls`), two lemmas that every move keeps the invariant.

Conversations (`StageTurnsProofs`): from BoundsAssumption, `CallsRunOnce`, `SavesSeeTheirResearch`,
`DraftsAreReported` and `SearchesStayTurnedAway` for any number of calls, arguments, rounds and steps. Each call
looks at the messages, the research and the ledger at moments of its own, so each theorem has an
invariant that says what an earlier look is still worth. `LedgerInv`: the open record of a signature belongs to
one running call. `SaveInv`: a save that has read an old revision of the research stands beside a call of
an earlier phase, for which it will be turned away. `DraftInv`: in the first conversation a draft is on disk only with its
success in the messages or among the results about to enter them. `CircuitInv`: once a search was
turned away the circuit is open and no search that runs can close it.

Publication (`PublicationProofs`): from ThingAssumption (there are finitely many entities, since files have lines), `PublishedFilesAgree` for any
sources, texts, wordings and follow-ups. `PublicInv` adds that accepted facts are sound, with no relation
without its entities; that they cite accepted sources, and those of the baseline sources that are accepted or were
lost with the words of their step (`Sourced`); that the README finalize publishes was rendered from the same facts
(`OverviewCurrent`); and that what is published is the image of sound facts (`PublicCurrent`). That the readers
accept it exactly when no line is torn then follows by counting lines.

Units (`KnowledgeProofs`): from UnitsAssumption (as `run_parallel_units` demands, there is a thread; the
limit is not zero), `AllAccounted` and `StopsAfterRow` for any number of units. `UnitsInv` adds that units
are submitted by index (`InOrder`, so that the next one exists and was waiting), that the log has one entry per
collected unit, and that the streak is the last row of failures of the log (`Row`).

Drafts (`KnowledgeProofs`): `DraftsAreFaithful`, for answers of any length in any number. The property compares a
draft with all the answers merged into it, so the argument is about two nested loops. They are written as functions
on the places of a list, of which `EntityLoopIs` and `DraftLoopIs` show that they exist; the induction over places goes
through the least place that fails (`LeastNatural`, `UpTo`), which needs no theorem with an operator as parameter.
The invariant of the inner loop is `Merging`: names and ids of the draft stay in one-to-one correspondence, references add
up, and an id that stands for one name among the entities so far leads to that name through the aliases. It
needs IdsAssumption, that an id computed from a name is none that a model gives: with `CanonicalIdFits` the id an
entity gets belongs to its name and to no other one. The invariant of the outer loop, `States`, says what a draft says
of a set of batches; dropping relations without ends keeps it (`StatesWithoutDangling`), and it composes
(`StatesOfBoth`), which is why a follow-up's draft merged into the accepted one is as faithful as one merge of all.

Schema (`KnowledgeProofs`): `OnlyNamedChanges` and `AdviceIsClosed` for any definitions, saves and candidates.
`SchemaInv` compares every copy that an attempt holds - blueprint, compiled draft, what a save is about to write -
with the schema of the build outside the names it has named (`AttemptAgrees`), across the conversions between source,
blueprint and form. For the merged candidates, a vote has a winner because there are finitely many places and a
first one of the most frequent values (`MostVotes`, `FirstPlace`), so what is preferred was seen somewhere (`PreferredIsSeen`); then
each type has one spelling, and both ends of a chosen relation are spelled as their types are.

Restarts (`KnowledgeProofs`): `ChangesRestart` for any impacts, research steps and uploads. Nothing moves here; the
lemmas say of the normalisation of a plan that it is closed (`PlanCloses`), so that a plan that is sent back is the
same plan, and that the stage of restart is no later than that of any change (`ChangesPlanned`, `PlansRestart`).

Only model-checked: `DriverReturns`, `WorkersEnd`, `CallsEnd` and `Answers`. They are liveness properties under
fairness, which is out of the prover's reach. Every invariant and every action property of a passing run has a
theorem.

## Not modelled

- Network, parsing of documents and HTML, ranking of text, prompts, model adapters, page rendering, the
  command line and configuration: they read and format, and what matters of them to others is a choice
  in the models (a fetch completes or fails, a result is valid or not).
- Message compaction, token streaming and live events: they do not change what is stored.
- Two `task` calls in one message of the primary agent; `register_child` and the append tool for
  unstructured drafts, which nothing in the code uses.
- The audit file and the re-entrance of the Session lock within one thread; the lease file, which nothing reads.
- Tools of the MCP server that only read.
- Timing: timeouts and backoffs are steps that may happen at any time.

Seen while modelling, without a property: the request to a worker that has already ended raises
BrokenPipeError instead of a cancellation or protocol error (`agents/runner.py`); a follow-up that was
stopped cannot be continued through the tools, although the Workspace before it was complete
(`mcp/tools.py`); a schema without relations passes save, judge, confirmation and extraction, and the input of
the document stage then parses it with require_relations at its default, so that every retry of that
stage fails (`service/coordinator.py:781`; `SchemaDesign` accepts such a schema, `BuildLifecycle` has the
outcome as `FailPreflight`); the hazards in PROJECT.json that carry a note name the others.

## Plan

Done: `BuildLifecycle` with `Pipeline`, `SequentialBuild` and `FollowUpPlan`, its invariant and the
refinement for all constants; `BackgroundJobs`; `StageTurns`; `EvidenceSources`, `ParallelUnits`,
`SessionFiles`, `SchemaDesign`, `WorkspaceTasks`, `AttemptProcess` and `PublishedFiles`; for every
one of them its invariants and action properties for all constants.

Left: `BackgroundJobs` composed with `WorkspaceTasks`, so that several tasks meet the hand-over of workers.
