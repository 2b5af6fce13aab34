---------------------------- MODULE SessionFiles ----------------------------
(***************************************************************************)
(* The files of one Session: threads of the service and of background      *)
(* workers write events, attempt records and the build state under the     *)
(* Session lock, a driver publishes the Workspace without it, and the user *)
(* deletes the Session. Any of them may raise or lose its process. The     *)
(* creation of the Session, and its removal when that fails, come before.  *)
(***************************************************************************)
EXTENDS Naturals, Sequences, FiniteSets

CONSTANTS Writer,           \* threads that write Session files
          MaxWrites,        \* bound: writes begun
          MaxPublications,  \* bound: Workspace commits begun
          MaxKills,         \* bound: killed processes
          MaxRaises         \* bound: events that raise after their line is written

VARIABLES
    deleted,     \* service/deleted/<session>.json exists
    entries,     \* "directories", "builder" and "attempt" in the Session directory
    events,      \* sequence numbers in events.jsonl
    counter,     \* event_sequence.json
    lock,        \* holder of the Session lock, {} when free
    write,       \* the operation of each writer
    deletion,    \* where the delete command is
    workspaceDir,   \* publication in workspace/, 0 when there is none
    versions,    \* publications in workspace_versions
    current,     \* current.json
    commit,      \* the running WorkspaceRepository.commit
    writes, publications, kills,
    raises       \* events that raised between their line and the counter

fileVars == <<deleted, entries, events, counter, lock, write, deletion,
              workspaceDir, versions, current, commit, writes, publications, kills, raises>>
directory == <<entries, events, counter, workspaceDir, versions, current>>
bounds    == <<writes, publications, kills, raises>>

NoWrite  == [pc |-> "idle", op |-> "none", sequence |-> 0]
NoCommit == [pc |-> "idle", new |-> 0, backup |-> 0]
Deleter  == "deleter"

\* The delete command is not one of the writers.
ASSUME DeleterAssumption == Deleter \notin Writer

FilesInit ==
    /\ deleted = FALSE /\ entries = {"directories", "builder"}
    /\ events = <<>> /\ counter = 0
    /\ lock = {} /\ write = [w \in Writer |-> NoWrite] /\ deletion = "idle"
    /\ workspaceDir = 0 /\ versions = {} /\ current = 0 /\ commit = NoCommit
    /\ writes = 0 /\ publications = 0 /\ kills = 0 /\ raises = 0

-----------------------------------------------------------------------------
(* Writers: EventStore.append, AttemptStore.start, BuildStateStore.update *)

At(w, pc) == write[w].pc = pc
Go(w, pc) == write' = [write EXCEPT ![w].pc = pc]

\* ProjectLayout.session refuses a deleted Session.
BeginWrite(w) ==
    /\ At(w, "idle") /\ ~deleted /\ writes < MaxWrites
    /\ \E op \in {"event", "attempt", "update"} :
         write' = [write EXCEPT ![w] = [pc |-> IF op = "update" THEN "lock" ELSE "make",
                                        op |-> op, sequence |-> 0]]
    /\ writes' = writes + 1
    /\ UNCHANGED <<deleted, directory, lock, deletion, commit, publications, kills, raises>>

\* create=True makes the directories, some time after that check.
MakeDirectories(w) ==
    /\ At(w, "make")
    /\ entries' = entries \cup {"directories"}
    /\ Go(w, "lock")
    /\ UNCHANGED <<deleted, events, counter, lock, deletion, workspaceDir, versions, current,
                   commit, bounds>>

\* Mutant: a writer does not wait for the lock of another one.
TakeOwnLock(w) ==
    /\ At(w, "lock")
    /\ lock' = {w}
    /\ Go(w, "locked")
    /\ UNCHANGED <<deleted, directory, deletion, commit, bounds>>

TakeLock(w) ==
    /\ At(w, "lock") /\ lock = {}
    /\ lock' = {w}
    /\ Go(w, "locked")
    /\ UNCHANGED <<deleted, directory, deletion, commit, bounds>>

Release(w) == lock' = {} /\ write' = [write EXCEPT ![w] = NoWrite]

\* The number comes from the counter. The line is appended and synchronised
\* first; opening the file needs its directory.
AppendEvent(w) ==
    /\ At(w, "locked") /\ write[w].op = "event"
    /\ IF "directories" \in entries
       THEN /\ events' = Append(events, counter + 1)
            /\ write' = [write EXCEPT ![w].pc = "count", ![w].sequence = counter + 1]
            /\ lock' = lock
       ELSE Release(w) /\ UNCHANGED events
    /\ UNCHANGED <<deleted, entries, counter, deletion, workspaceDir, versions, current, commit,
                   bounds>>

CountEvent(w) ==
    /\ At(w, "count")
    /\ counter' = write[w].sequence
    /\ Release(w)
    /\ UNCHANGED <<deleted, entries, events, deletion, workspaceDir, versions, current, commit,
                   bounds>>

\* The line cannot be synchronised, or the counter not written: it stays in the
\* log, and the number is free again.
CountRaises(w) ==
    /\ At(w, "count") /\ raises < MaxRaises
    /\ raises' = raises + 1
    /\ Release(w)
    /\ UNCHANGED <<deleted, directory, deletion, commit, writes, publications, kills>>

\* AtomicWriter makes the parent directories of what it writes.
WriteAttempt(w) ==
    /\ At(w, "locked") /\ write[w].op = "attempt"
    /\ entries' = entries \cup {"directories", "attempt"}
    /\ Release(w)
    /\ UNCHANGED <<deleted, events, counter, deletion, workspaceDir, versions, current, commit, bounds>>

\* Mutant: the state is written without looking for it under the lock.
WrittenAnyway(files) == files \cup {"builder"}

\* update raises when builder.json is missing.
StateWritten(files) == files

UpdateState(w) ==
    /\ At(w, "locked") /\ write[w].op = "update"
    /\ entries' = StateWritten(entries)
    /\ Release(w)
    /\ UNCHANGED <<deleted, events, counter, deletion, workspaceDir, versions, current, commit, bounds>>

\* An operation may raise before it has written anything but directories.
WriteRaises(w) ==
    /\ write[w].pc \in {"make", "lock", "locked"}
    /\ \/ entries' = entries
       \/ /\ At(w, "make") \/ (At(w, "locked") /\ write[w].op = "attempt")
          /\ entries' = entries \cup {"directories"}
    /\ lock' = lock \ {w}
    /\ write' = [write EXCEPT ![w] = NoWrite]
    /\ UNCHANGED <<deleted, events, counter, deletion, workspaceDir, versions, current, commit,
                   bounds>>

-----------------------------------------------------------------------------
(* WorkspaceRepository.commit takes no lock. *)

Publication(pc) == commit.pc = pc

\* The paths are resolved while the Session exists ...
BeginCommit ==
    /\ Publication("idle") /\ ~deleted /\ publications < MaxPublications
    /\ publications' = publications + 1
    /\ commit' = [pc |-> "begun", new |-> publications + 1, backup |-> 0]
    /\ UNCHANGED <<deleted, directory, lock, write, deletion, writes, kills, raises>>

\* ... and the Workspace is staged and copied to workspace_versions.
StageWorkspace ==
    /\ Publication("begun")
    /\ entries' = entries \cup {"directories"}
    /\ versions' = versions \cup {commit.new}
    /\ commit' = [commit EXCEPT !.pc = "staged"]
    /\ UNCHANGED <<deleted, events, counter, lock, write, deletion, workspaceDir, current, bounds>>

MoveOldAway ==
    /\ Publication("staged")
    /\ commit' = [commit EXCEPT !.pc = "moved", !.backup = workspaceDir]
    /\ workspaceDir' = 0
    /\ UNCHANGED <<deleted, entries, events, counter, lock, write, deletion, versions, current,
                   bounds>>

MoveNewIn ==
    /\ Publication("moved") /\ commit.new \in versions
    /\ workspaceDir' = commit.new
    /\ commit' = [commit EXCEPT !.pc = "published"]
    /\ UNCHANGED <<deleted, entries, events, counter, lock, write, deletion, versions, current,
                   bounds>>

\* current.json, then the backup goes.
RecordCurrent ==
    /\ Publication("published")
    /\ entries' = entries \cup {"directories"}
    /\ current' = commit.new
    /\ commit' = NoCommit
    /\ UNCHANGED <<deleted, events, counter, lock, write, deletion, workspaceDir,
                   versions, bounds>>

\* Mutant: the backup is put back only before the new Workspace is in place.
RestoredBeforePublished(c) == IF c.pc = "moved" THEN c.backup ELSE workspaceDir

\* What the handler of an exception leaves as the Workspace.
Restored(c) == IF c.pc \in {"moved", "published"} THEN c.backup ELSE workspaceDir

\* Any step may raise: a full disk, a file that is gone.
CommitRaises ==
    /\ ~Publication("idle")
    /\ workspaceDir' = Restored(commit)
    /\ versions' = versions \ {commit.new}
    /\ commit' = NoCommit
    /\ UNCHANGED <<deleted, entries, events, counter, lock, write, deletion, current, bounds>>

-----------------------------------------------------------------------------
(* BuilderCommands.delete *)

BeginDelete ==
    /\ deletion = "idle" /\ ~deleted /\ "builder" \in entries
    /\ deletion' = "lock"
    /\ UNCHANGED <<deleted, directory, lock, write, commit, bounds>>

MarkDeleted ==
    /\ deletion = "lock" /\ lock = {}
    /\ lock' = {Deleter}
    /\ deleted' = TRUE
    /\ deletion' = "remove"
    /\ UNCHANGED <<directory, write, commit, bounds>>

\* rmtree takes everything away, also what a running commit has staged or put
\* aside, or raises over a file and leaves some of it.
RemoveFiles ==
    /\ deletion = "remove"
    /\ events' = <<>> /\ counter' = 0
    /\ workspaceDir' = 0 /\ versions' = {} /\ current' = 0
    /\ commit' = [commit EXCEPT !.backup = 0]
    /\ \/ entries' = {} /\ deletion' = "rmdir" /\ lock' = lock
       \/ entries' \in SUBSET entries /\ deletion' = "raised" /\ lock' = {}
    /\ UNCHANGED <<deleted, write, bounds>>

\* The directory itself cannot go once somebody has added to it.
RemoveRoot ==
    /\ deletion = "rmdir"
    /\ deletion' = IF entries = {} THEN "done" ELSE "raised"
    /\ lock' = {}
    /\ UNCHANGED <<deleted, directory, write, commit, bounds>>

-----------------------------------------------------------------------------
\* A killed process gives up its lock and leaves everything else as it is.
KillWriter(w) ==
    /\ ~At(w, "idle") /\ kills < MaxKills
    /\ kills' = kills + 1
    /\ lock' = lock \ {w}
    /\ write' = [write EXCEPT ![w] = NoWrite]
    /\ UNCHANGED <<deleted, directory, deletion, commit, writes, publications, raises>>

KillCommit ==
    /\ commit.pc # "idle" /\ kills < MaxKills
    /\ kills' = kills + 1
    /\ commit' = NoCommit
    /\ UNCHANGED <<deleted, directory, lock, write, deletion, writes, publications, raises>>

FilesNext ==
    \/ \E w \in Writer : \/ BeginWrite(w) \/ MakeDirectories(w) \/ TakeLock(w) \/ AppendEvent(w)
                         \/ CountEvent(w) \/ CountRaises(w) \/ WriteAttempt(w) \/ UpdateState(w)
                         \/ WriteRaises(w) \/ KillWriter(w)
    \/ BeginCommit \/ StageWorkspace \/ MoveOldAway \/ MoveNewIn \/ RecordCurrent \/ CommitRaises \/ KillCommit
    \/ BeginDelete \/ MarkDeleted \/ RemoveFiles \/ RemoveRoot

FilesSpec == FilesInit /\ [][FilesNext]_fileVars

-----------------------------------------------------------------------------
(* Properties *)

\* Events are numbered in the order of the log, without a gap. A number comes
\* again only where an append was killed, or raised, between its line and the
\* counter: each such end repeats one number at most.
EventsNumbered ==
    events # <<>> =>
        /\ events[1] = 1
        /\ \A k \in 2..Len(events) : events[k] - events[k - 1] \in {0, 1}
        /\ Len(events) - events[Len(events)] <= kills + raises

\* The build state is there until the Session is deleted, and no append, start
\* or update that has passed the check for a deleted Session brings it back.
BuildGone ==
    /\ ~deleted => "builder" \in entries
    /\ deletion = "done" => "builder" \notin entries

\* A commit that raises, at any step, leaves the Workspace of the last one that
\* succeeded, which is in workspace_versions; only a kill can part the two.
WorkspaceIsCurrent ==
    ~deleted /\ Publication("idle") =>
        /\ current \in versions \cup {0}
        /\ workspaceDir # current => kills > 0
=============================================================================
