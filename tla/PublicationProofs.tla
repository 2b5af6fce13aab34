------------------------- MODULE PublicationProofs --------------------------
(***************************************************************************)
(* Theorems about the files others read: those of a Session, which many    *)
(* processes write and one removes, and those of the published Workspace,  *)
(* which the host and the next follow-up read back.                        *)
(***************************************************************************)
EXTENDS SessionFiles, PublishedFiles, FiniteSetTheorems, TLAPS

(***************************************************************************)
(* Events are numbered without a gap, a deleted build state stays away and *)
(* a failed commit leaves the Workspace it found, for any number of        *)
(* writers, publications, killed processes and operations that raise.      *)
(***************************************************************************)

WriteType == [pc : {"idle", "make", "lock", "locked", "count"},
              op : {"none", "event", "attempt", "update"}, sequence : Nat]

CommitType == [pc : {"idle", "begun", "staged", "moved", "published"}, new : Nat, backup : Nat]

\* The values of each variable of SessionFiles that the argument uses.
FilesTypes ==
    /\ deleted \in BOOLEAN
    /\ events \in Seq(Nat) /\ counter \in Nat
    /\ write \in [Writer -> WriteType]
    /\ deletion \in {"idle", "lock", "remove", "rmdir", "raised", "done"}
    /\ publications \in Nat /\ kills \in Nat /\ raises \in Nat
    /\ commit \in CommitType /\ workspaceDir \in Nat

\* Who holds the Session lock, and only one does.
LockHeld ==
    /\ \A w \in Writer : write[w].pc \in {"locked", "count"} => lock = {w}
    /\ deletion \in {"remove", "rmdir"} => lock = {Deleter}

\* The session is marked before its files go.
MarkedFirst == deletion \in {"remove", "rmdir", "done", "raised"} <=> deleted

LastNumber == IF events = <<>> THEN 0 ELSE events[Len(events)]
Counting == \E w \in Writer : write[w].pc = "count"

\* The log and the counter: a line that is not counted is the last one, and its
\* writer is about to count it, or was killed, or its append raised.
LogCounted ==
    /\ events # <<>> => events[1] = 1
    /\ \A k \in 2..Len(events) : events[k] - events[k - 1] \in {0, 1}
    /\ Len(events) - LastNumber <= kills + raises
    /\ counter = LastNumber \/ counter + 1 = LastNumber
    /\ \A w \in Writer : write[w].pc = "count" =>
          write[w].sequence = LastNumber /\ counter + 1 = LastNumber
    /\ counter + 1 = LastNumber /\ ~Counting => Len(events) - LastNumber < kills + raises

BuilderKept ==
    /\ ~deleted => "builder" \in entries
    /\ deletion \in {"rmdir", "done"} => "builder" \notin entries

\* What a running commit has done with the published Workspace.
CommitKnown ==
    /\ commit.pc # "idle" => commit.new = publications
    /\ ~deleted =>
          /\ current \in versions \cup {0}
          /\ current \in Nat /\ current <= publications
          /\ commit.pc # "idle" => current < commit.new
          /\ commit.pc \in {"staged", "moved", "published"} => commit.new \in versions
          /\ commit.pc = "published" => workspaceDir = commit.new
          /\ kills = 0 =>
                /\ commit.pc \in {"idle", "begun", "staged"} => workspaceDir = current
                /\ commit.pc \in {"moved", "published"} => commit.backup = current

FilesInv == FilesTypes /\ LockHeld /\ MarkedFirst /\ LogCounted /\ BuilderKept /\ CommitKnown

-----------------------------------------------------------------------------

\* The first state: a new Session.
LEMMA FilesStart == FilesInit => FilesInv
<1> SUFFICES ASSUME FilesInit PROVE FilesInv
  OBVIOUS
<1>1. FilesTypes
  <2>1. NoWrite \in WriteType /\ NoCommit \in CommitType
    BY DEF WriteType, CommitType, NoWrite, NoCommit
  <2>2. write \in [Writer -> WriteType] /\ commit \in CommitType
    BY <2>1 DEF FilesInit
  <2>3. events \in Seq(Nat)
    BY DEF FilesInit
  <2> QED BY <2>2, <2>3 DEF FilesInit, FilesTypes
<1>2. LockHeld /\ MarkedFirst /\ BuilderKept
  BY DEF FilesInit, LockHeld, MarkedFirst, BuilderKept, NoWrite
<1>3. LogCounted
  BY DEF FilesInit, LogCounted, LastNumber, NoWrite
<1>4. CommitKnown
  BY DEF FilesInit, CommitKnown, NoCommit
<1> QED BY <1>1, <1>2, <1>3, <1>4 DEF FilesInv

\* What one writer does leaves the operations of the others alone.
WriterActs(w) ==
    \/ BeginWrite(w) \/ MakeDirectories(w) \/ TakeLock(w) \/ AppendEvent(w)
    \/ CountEvent(w) \/ CountRaises(w) \/ WriteAttempt(w) \/ UpdateState(w) \/ WriteRaises(w)
    \/ KillWriter(w)

Commits ==
    \/ BeginCommit \/ StageWorkspace \/ MoveOldAway \/ MoveNewIn \/ RecordCurrent
    \/ CommitRaises \/ KillCommit

Deletes == BeginDelete \/ MarkDeleted \/ RemoveFiles \/ RemoveRoot

\* A writer leaves alone what is of the commit and of the deletion.
LEMMA WriterScope ==
    ASSUME NEW w \in Writer, WriterActs(w)
    PROVE  UNCHANGED <<deleted, deletion, commit, workspaceDir, versions, current, publications>>
BY DEF WriterActs, BeginWrite, MakeDirectories, TakeLock, AppendEvent, CountEvent, CountRaises,
       WriteAttempt, UpdateState, WriteRaises, KillWriter, directory, bounds

\* The types of what the writers change.
LEMMA WriterTypes ==
    ASSUME FilesInv, NEW w \in Writer, WriterActs(w)
    PROVE  /\ events' \in Seq(Nat) /\ counter' \in Nat
           /\ kills' \in Nat /\ raises' \in Nat /\ kills' >= kills
           /\ \E r \in WriteType : write' = [write EXCEPT ![w] = r]
<1>1. /\ events \in Seq(Nat) /\ counter \in Nat /\ kills \in Nat /\ raises \in Nat
      /\ write \in [Writer -> WriteType] /\ write[w] \in WriteType
  BY DEF FilesInv, FilesTypes
<1>2. NoWrite \in WriteType /\ write[w].sequence \in Nat
  BY <1>1 DEF NoWrite, WriteType
<1>3. ASSUME NEW pc \in {"lock", "locked"} PROVE [write[w] EXCEPT !.pc = pc] \in WriteType
  BY <1>1, <1>3 DEF WriteType
<1>4. ASSUME NEW r \in WriteType, write' = [write EXCEPT ![w] = r],
             events' = events \/ events' = Append(events, counter + 1),
             counter' \in {counter, write[w].sequence}, kills' \in {kills, kills + 1},
             raises' \in {raises, raises + 1}
      PROVE  /\ events' \in Seq(Nat) /\ counter' \in Nat
             /\ kills' \in Nat /\ raises' \in Nat /\ kills' >= kills
             /\ \E q \in WriteType : write' = [write EXCEPT ![w] = q]
  <2>1. events' \in Seq(Nat)
    <3>1. counter + 1 \in Nat
      BY <1>1
    <3> QED BY <1>1, <1>4, <3>1
  <2>2. counter' \in Nat /\ kills' \in Nat /\ raises' \in Nat /\ kills' >= kills
    BY <1>1, <1>2, <1>4
  <2> QED BY <1>4, <2>1, <2>2
<1>5. CASE BeginWrite(w)
  <2>1. PICK op \in {"event", "attempt", "update"} :
          write' = [write EXCEPT ![w] = [pc |-> IF op = "update" THEN "lock" ELSE "make",
                                         op |-> op, sequence |-> 0]]
    BY <1>5 DEF BeginWrite
  <2>2. [pc |-> IF op = "update" THEN "lock" ELSE "make", op |-> op, sequence |-> 0] \in WriteType
    BY DEF WriteType
  <2>3. UNCHANGED <<events, counter, kills, raises>>
    BY <1>5 DEF BeginWrite, directory
  <2> QED BY <1>4, <2>1, <2>2, <2>3
<1>6. CASE MakeDirectories(w) \/ TakeLock(w)
  <2>1. PICK pc \in {"lock", "locked"} : write' = [write EXCEPT ![w] = [write[w] EXCEPT !.pc = pc]]
    BY <1>1, <1>6 DEF MakeDirectories, TakeLock, Go
  <2>2. UNCHANGED <<events, counter, kills, raises>>
    BY <1>6 DEF MakeDirectories, TakeLock, directory, bounds
  <2> QED BY <1>3, <1>4, <2>1, <2>2
<1>7. CASE AppendEvent(w)
  <2>1. UNCHANGED <<counter, kills, raises>>
    BY <1>7 DEF AppendEvent, bounds
  <2>2. CASE "directories" \in entries
    <3>1. write' = [write EXCEPT ![w] = [write[w] EXCEPT !.pc = "count", !.sequence = counter + 1]]
      BY <1>1, <1>7, <2>2 DEF AppendEvent
    <3>2. [write[w] EXCEPT !.pc = "count", !.sequence = counter + 1] \in WriteType
      <4>1. counter + 1 \in Nat
        BY <1>1
      <4> QED BY <1>1, <4>1 DEF WriteType
    <3>3. events' = Append(events, counter + 1)
      BY <1>7, <2>2 DEF AppendEvent
    <3> QED BY <1>4, <2>1, <3>1, <3>2, <3>3
  <2>3. CASE "directories" \notin entries
    <3>1. UNCHANGED events /\ write' = [write EXCEPT ![w] = NoWrite]
      BY <1>7, <2>3 DEF AppendEvent, Release
    <3> QED BY <1>2, <1>4, <2>1, <3>1
  <2> QED BY <2>2, <2>3
<1>8. CASE \/ CountEvent(w) \/ CountRaises(w) \/ WriteAttempt(w) \/ UpdateState(w)
         \/ WriteRaises(w) \/ KillWriter(w)
  <2>1. /\ write' = [write EXCEPT ![w] = NoWrite] /\ UNCHANGED events
        /\ counter' \in {counter, write[w].sequence} /\ kills' \in {kills, kills + 1}
        /\ raises' \in {raises, raises + 1}
    BY <1>8 DEF CountEvent, CountRaises, WriteAttempt, UpdateState, WriteRaises, KillWriter, Release,
                bounds, directory
  <2> QED BY <1>2, <1>4, <2>1
<1> QED BY <1>5, <1>6, <1>7, <1>8 DEF WriterActs

\* Every variable keeps its type.
LEMMA TypesStep ==
    ASSUME FilesInv, FilesNext
    PROVE  FilesTypes'
<1> USE DEF FilesInv
<1>1. ASSUME NEW w \in Writer, WriterActs(w) PROVE FilesTypes'
  <2>1. PICK r \in WriteType : write' = [write EXCEPT ![w] = r]
    BY <1>1, WriterTypes
  <2>2. write' \in [Writer -> WriteType]
    BY <2>1 DEF FilesTypes
  <2> QED BY <1>1, <2>2, WriterScope, WriterTypes DEF FilesTypes
<1>2. CASE Commits
  <2>1. UNCHANGED <<deleted, events, counter, write, deletion>>
    BY <1>2 DEF Commits, BeginCommit, StageWorkspace, MoveOldAway, MoveNewIn, RecordCurrent,
                CommitRaises, KillCommit, directory
  <2>2. /\ commit \in CommitType /\ publications \in Nat /\ kills \in Nat /\ raises \in Nat
        /\ workspaceDir \in Nat
    BY DEF FilesTypes
  <2>3. publications' \in Nat /\ kills' \in Nat /\ raises' \in Nat
    BY <1>2, <2>2 DEF Commits, BeginCommit, StageWorkspace, MoveOldAway, MoveNewIn, RecordCurrent,
                      CommitRaises, KillCommit, bounds
  <2>4. commit' \in CommitType
    <3>1. NoCommit \in CommitType
      BY DEF NoCommit, CommitType
    <3>2. CASE BeginCommit
      BY <2>2, <3>2 DEF BeginCommit, CommitType
    <3>3. CASE StageWorkspace \/ MoveNewIn
      BY <2>2, <3>3 DEF StageWorkspace, MoveNewIn, CommitType
    <3>4. CASE MoveOldAway
      BY <2>2, <3>4 DEF MoveOldAway, CommitType
    <3>5. CASE RecordCurrent \/ CommitRaises \/ KillCommit
      BY <3>1, <3>5 DEF RecordCurrent, CommitRaises, KillCommit
    <3> QED BY <1>2, <3>2, <3>3, <3>4, <3>5 DEF Commits
  <2>5. workspaceDir' \in Nat
    <3>1. commit.new \in Nat /\ commit.backup \in Nat
      BY <2>2 DEF CommitType
    <3> QED BY <1>2, <2>2, <3>1 DEF Commits, BeginCommit, StageWorkspace, MoveOldAway, MoveNewIn,
                                    RecordCurrent, CommitRaises, KillCommit, Restored, directory
  <2>6. deleted \in BOOLEAN /\ events \in Seq(Nat) /\ counter \in Nat
    BY DEF FilesTypes
  <2> QED BY <2>1, <2>3, <2>4, <2>5, <2>6 DEF FilesTypes
<1>3. CASE Deletes
  <2>1. commit' \in CommitType
    BY <1>3 DEF Deletes, BeginDelete, MarkDeleted, RemoveFiles, RemoveRoot, FilesTypes, CommitType
  <2>2. UNCHANGED <<write, publications, kills, raises>>
    BY <1>3 DEF Deletes, BeginDelete, MarkDeleted, RemoveFiles, RemoveRoot, bounds
  <2>3. events' \in {events, <<>>} /\ counter' \in {counter, 0} /\ workspaceDir' \in {workspaceDir, 0}
    BY <1>3 DEF Deletes, BeginDelete, MarkDeleted, RemoveFiles, RemoveRoot, directory
  <2>4. events' \in Seq(Nat)
    <3>1. events \in Seq(Nat) /\ <<>> \in Seq(Nat)
      BY DEF FilesTypes
    <3> QED BY <2>3, <3>1
  <2>5. deleted' \in {deleted, TRUE}
    BY <1>3 DEF Deletes, BeginDelete, MarkDeleted, RemoveFiles, RemoveRoot
  <2>6. deletion' \in {"lock", "remove", "rmdir", "raised", "done"}
    BY <1>3 DEF Deletes, BeginDelete, MarkDeleted, RemoveFiles, RemoveRoot
  <2>7. deleted' \in BOOLEAN
    BY <2>5 DEF FilesTypes
  <2> QED BY <2>1, <2>2, <2>3, <2>4, <2>6, <2>7 DEF FilesTypes
<1> QED BY <1>1, <1>2, <1>3 DEF FilesNext, WriterActs, Commits, Deletes

\* The lock goes to a writer, or to the deletion, only when it is free.
LEMMA LockStep ==
    ASSUME FilesInv, FilesNext
    PROVE  LockHeld' /\ MarkedFirst'
<1> USE DEF FilesInv
<1>0. write \in [Writer -> WriteType]
  BY DEF FilesTypes
<1>1. ASSUME NEW w \in Writer, WriterActs(w) PROVE LockHeld' /\ MarkedFirst'
  <2>1. PICK r \in WriteType : write' = [write EXCEPT ![w] = r]
    BY <1>1, WriterTypes
  <2>2. write'[w] = r /\ \A v \in Writer \ {w} : write'[v] = write[v]
    BY <1>0, <2>1
  <2>3. UNCHANGED <<deleted, deletion>>
    BY <1>1, WriterScope
  <2>4. CASE UNCHANGED lock /\ (r.pc \in {"locked", "count"} => write[w].pc \in {"locked", "count"})
    BY <2>2, <2>3, <2>4 DEF LockHeld, MarkedFirst
  <2>5. CASE lock = {} /\ lock' = {w}
    BY <2>2, <2>3, <2>5 DEF LockHeld, MarkedFirst
  <2>6. CASE lock = {w} /\ lock' = {} /\ r = NoWrite
    <3>1. deletion \notin {"remove", "rmdir"}
      BY <2>6, DeleterAssumption DEF LockHeld
    <3> QED BY <2>2, <2>3, <2>6, <3>1 DEF LockHeld, MarkedFirst, NoWrite
  <2>7. CASE lock' = lock \ {w} /\ r = NoWrite
    <3>1. \A v \in Writer \ {w} : write[v].pc \in {"locked", "count"} => lock' = {v}
      BY <2>7 DEF LockHeld
    <3>2. deletion \in {"remove", "rmdir"} => lock' = {Deleter}
      BY <2>7, DeleterAssumption DEF LockHeld
    <3> QED BY <2>2, <2>3, <2>7, <3>1, <3>2 DEF LockHeld, MarkedFirst, NoWrite
  <2>8. CASE BeginWrite(w)
    BY <1>0, <1>1, <2>2, <2>4, <2>8 DEF BeginWrite
  <2>9. CASE MakeDirectories(w)
    <3>1. r.pc = "lock"
      BY <1>0, <2>2, <2>9 DEF MakeDirectories, Go, WriteType
    <3> QED BY <2>4, <2>9, <3>1 DEF MakeDirectories
  <2>10. CASE TakeLock(w)
    BY <2>5, <2>10 DEF TakeLock
  <2>11. CASE AppendEvent(w)
    <3>1. lock = {w} /\ write[w].pc = "locked"
      BY <2>11 DEF AppendEvent, At, LockHeld
    <3> QED BY <1>0, <2>2, <2>4, <2>6, <2>11, <3>1 DEF AppendEvent, Release
  <2>12. CASE CountEvent(w) \/ CountRaises(w) \/ WriteAttempt(w) \/ UpdateState(w)
    <3>1. lock = {w}
      BY <2>12 DEF CountEvent, CountRaises, WriteAttempt, UpdateState, At, LockHeld
    <3> QED BY <1>0, <2>2, <2>6, <2>12, <3>1 DEF CountEvent, CountRaises, WriteAttempt, UpdateState,
                                                 Release
  <2>13. CASE WriteRaises(w) \/ KillWriter(w)
    BY <1>0, <2>2, <2>7, <2>13 DEF WriteRaises, KillWriter
  <2> QED BY <1>1, <2>8, <2>9, <2>10, <2>11, <2>12, <2>13 DEF WriterActs
<1>2. CASE Commits
  BY <1>2 DEF Commits, BeginCommit, StageWorkspace, MoveOldAway, MoveNewIn, RecordCurrent,
              CommitRaises, KillCommit, LockHeld, MarkedFirst
<1>3. CASE BeginDelete
  BY <1>3 DEF BeginDelete, LockHeld, MarkedFirst
<1>4. CASE MarkDeleted
  BY <1>4 DEF MarkDeleted, LockHeld, MarkedFirst
<1>5. CASE RemoveFiles \/ RemoveRoot
  <2>1. lock = {Deleter} /\ deleted
    BY <1>5 DEF RemoveFiles, RemoveRoot, LockHeld, MarkedFirst
  <2>2. \A w \in Writer : write[w].pc \notin {"locked", "count"}
    BY <2>1, DeleterAssumption DEF LockHeld
  <2>3. /\ UNCHANGED <<write, deleted>> /\ deletion' \in {"rmdir", "raised", "done"}
        /\ deletion' = "rmdir" => UNCHANGED lock
    BY <1>5 DEF RemoveFiles, RemoveRoot
  <2> QED BY <2>1, <2>2, <2>3 DEF LockHeld, MarkedFirst
<1> QED BY <1>1, <1>2, <1>3, <1>4, <1>5 DEF FilesNext, WriterActs, Commits

\* The log after another line.
LEMMA LineAppended ==
    ASSUME NEW log \in Seq(Nat), NEW n \in Nat
    PROVE  /\ Append(log, n) # <<>> /\ Len(Append(log, n)) = Len(log) + 1
           /\ Append(log, n)[Len(log) + 1] = n
           /\ \A k \in 1..Len(log) : Append(log, n)[k] = log[k]
           /\ log = <<>> <=> Len(log) = 0
           /\ Len(log) \in Nat
           /\ \A k \in 1..Len(log) : log[k] \in Nat
OBVIOUS

\* The last number is one of the log.
LEMMA LastIsNumber ==
    ASSUME FilesTypes
    PROVE  LastNumber \in Nat /\ Len(events) \in Nat
<1>1. events \in Seq(Nat)
  BY DEF FilesTypes
<1>2. /\ Len(events) \in Nat /\ \A k \in 1..Len(events) : events[k] \in Nat
      /\ events = <<>> <=> Len(events) = 0
  BY <1>1, LineAppended
<1> QED BY <1>2 DEF LastNumber

\* A sum grows with its first part.
LEMMA SumGrows ==
    ASSUME NEW m \in Nat, NEW n \in Nat, NEW k \in Nat, n >= m
    PROVE  n + k \in Nat /\ n + k >= m + k
OBVIOUS

\* The log is numbered, and the counter follows it.
LEMMA LogStep ==
    ASSUME FilesInv, FilesNext
    PROVE  LogCounted'
<1> USE DEF FilesInv
<1>0. /\ write \in [Writer -> WriteType] /\ events \in Seq(Nat) /\ counter \in Nat
      /\ kills \in Nat /\ raises \in Nat /\ LastNumber \in Nat /\ Len(events) \in Nat
  BY LastIsNumber DEF FilesTypes
<1>1. ASSUME UNCHANGED <<events, counter, write, raises>>, kills' \in Nat, kills' >= kills
      PROVE  LogCounted'
  <2>1. raises' = raises /\ kills' + raises >= kills + raises /\ kills' + raises \in Nat
    BY <1>0, <1>1, SumGrows
  <2>2. LastNumber' = LastNumber /\ Len(events') = Len(events) /\ (Counting' <=> Counting)
    BY <1>1 DEF LastNumber, Counting
  <2>3. /\ Len(events) - LastNumber <= kills + raises => Len(events') - LastNumber' <= kills' + raises'
        /\ Len(events) - LastNumber < kills + raises => Len(events') - LastNumber' < kills' + raises'
    BY <1>0, <2>1, <2>2
  <2> QED BY <1>1, <2>2, <2>3 DEF LogCounted
<1>2. ASSUME NEW w \in Writer, WriterActs(w) PROVE LogCounted'
  <2>1. PICK r \in WriteType : write' = [write EXCEPT ![w] = r]
    BY <1>2, WriterTypes
  <2>2. write'[w] = r /\ \A v \in Writer \ {w} : write'[v] = write[v]
    BY <1>0, <2>1
  <2>3. CASE /\ UNCHANGED <<events, counter, kills, raises>>
             /\ write[w].pc # "count" /\ r.pc # "count"
    <3>1. Counting' <=> Counting
      BY <2>2, <2>3 DEF Counting
    <3> QED BY <2>2, <2>3, <3>1 DEF LogCounted, LastNumber
  <2>4. CASE BeginWrite(w)
    <3>1. r.pc # "count"
      BY <1>0, <2>2, <2>4 DEF BeginWrite
    <3> QED BY <2>3, <2>4, <3>1 DEF BeginWrite, At, directory
  <2>5. CASE MakeDirectories(w) \/ TakeLock(w)
    <3>1. r.pc # "count"
      BY <1>0, <2>2, <2>5 DEF MakeDirectories, TakeLock, Go, WriteType
    <3> QED BY <2>3, <2>5, <3>1 DEF MakeDirectories, TakeLock, At, directory, bounds
  <2>6. CASE WriteAttempt(w) \/ UpdateState(w) \/ WriteRaises(w)
    <3>1. r = NoWrite
      BY <1>0, <2>2, <2>6 DEF WriteAttempt, UpdateState, WriteRaises, Release
    <3> QED BY <2>3, <2>6, <3>1 DEF WriteAttempt, UpdateState, WriteRaises, At, bounds, NoWrite
  <2>7. CASE AppendEvent(w) /\ "directories" \notin entries
    <3>1. r = NoWrite
      BY <1>0, <2>2, <2>7 DEF AppendEvent, Release
    <3> QED BY <2>3, <2>7, <3>1 DEF AppendEvent, At, bounds, NoWrite
  <2>8. CASE AppendEvent(w) /\ "directories" \in entries
    <3>1. /\ events' = Append(events, counter + 1) /\ UNCHANGED <<counter, kills, raises>>
          /\ write[w].pc = "locked"
      BY <2>8 DEF AppendEvent, At, bounds
    <3>2. r.pc = "count" /\ r.sequence = counter + 1
      BY <1>0, <2>2, <2>8 DEF AppendEvent, WriteType
    <3>3. \A v \in Writer \ {w} : write[v].pc # "count"
      <4>1. lock = {w}
        BY <3>1 DEF LockHeld
      <4> QED BY <4>1 DEF LockHeld
    <3>4. ~Counting /\ Counting'
      BY <2>2, <3>1, <3>2, <3>3 DEF Counting
    <3>5. counter + 1 \in Nat
      BY <1>0
    <3>6. /\ events' # <<>> /\ Len(events') = Len(events) + 1
          /\ events'[Len(events) + 1] = counter + 1
          /\ \A k \in 1..Len(events) : events'[k] = events[k]
          /\ events = <<>> <=> Len(events) = 0
      BY <1>0, <3>1, <3>5, LineAppended
    <3>7. LastNumber' = counter + 1
      BY <3>6 DEF LastNumber
    <3>8. /\ LastNumber' - LastNumber \in {0, 1} /\ Len(events) - LastNumber <= kills + raises
          /\ LastNumber' = LastNumber => Len(events) - LastNumber < kills + raises
      BY <1>0, <3>4, <3>7 DEF LogCounted
    <3>9. events'[1] = 1
      <4>1. CASE events = <<>>
        <5>1. LastNumber = 0
          BY <4>1 DEF LastNumber
        <5>2. counter = 0
          BY <1>0, <4>1, <5>1, <3>4 DEF LogCounted
        <5> QED BY <3>6, <4>1, <5>2
      <4>2. CASE events # <<>>
        <5>1. 1 \in 1..Len(events)
          BY <1>0, <3>6, <4>2
        <5> QED BY <3>6, <4>2, <5>1 DEF LogCounted
      <4> QED BY <4>1, <4>2
    <3>10. ASSUME NEW k \in 2..Len(events') PROVE events'[k] - events'[k - 1] \in {0, 1}
      <4>1. CASE k \in 2..Len(events)
        <5>1. k \in 1..Len(events) /\ k - 1 \in 1..Len(events)
          BY <1>0, <4>1
        <5> QED BY <3>6, <4>1, <5>1 DEF LogCounted
      <4>2. CASE k = Len(events) + 1
        <5>1. k - 1 = Len(events) /\ k - 1 \in 1..Len(events) /\ events # <<>>
          BY <1>0, <3>6, <3>10, <4>2
        <5>2. events'[k - 1] = LastNumber
          BY <3>6, <5>1 DEF LastNumber
        <5> QED BY <3>6, <3>7, <3>8, <4>2, <5>2
      <4>3. 2..Len(events') = 2..(Len(events) + 1)
        BY <3>6
      <4>4. k \in 2..(Len(events) + 1)
        BY <3>10, <4>3
      <4>5. k \in 2..Len(events) \/ k = Len(events) + 1
        BY <1>0, <4>4
      <4> QED BY <4>1, <4>2, <4>5
    <3>11. Len(events') - LastNumber' <= kills' + raises'
      <4>1. (Len(events) + 1) - (counter + 1) <= kills + raises
        <5>1. LastNumber = counter \/ LastNumber = counter + 1
          BY <1>0, <3>7, <3>8 DEF LogCounted
        <5>2. LastNumber = counter + 1 => Len(events) - LastNumber < kills + raises
          BY <3>7, <3>8
        <5>3. Len(events) - LastNumber <= kills + raises
          BY <3>8
        <5> QED BY <1>0, <5>1, <5>2, <5>3
      <4> QED BY <3>1, <3>6, <3>7, <4>1
    <3>12. \A v \in Writer : write'[v].pc = "count" =>
              write'[v].sequence = LastNumber' /\ counter' + 1 = LastNumber'
      BY <2>2, <3>1, <3>2, <3>3, <3>7
    <3> QED BY <3>1, <3>4, <3>6, <3>7, <3>9, <3>10, <3>11, <3>12 DEF LogCounted
  <2>9. CASE CountEvent(w)
    <3>1. /\ UNCHANGED <<events, kills, raises>> /\ counter' = write[w].sequence /\ write[w].pc = "count"
      BY <2>9 DEF CountEvent, At, bounds
    <3>2. r = NoWrite
      BY <1>0, <2>2, <2>9 DEF CountEvent, Release
    <3>3. counter' = LastNumber /\ LastNumber' = LastNumber
      BY <3>1 DEF LogCounted, LastNumber
    <3>4. \A v \in Writer : write'[v].pc # "count"
      <4>1. lock = {w}
        BY <3>1 DEF LockHeld
      <4>2. \A v \in Writer \ {w} : write[v].pc # "count"
        BY <4>1 DEF LockHeld
      <4> QED BY <2>2, <3>2, <4>2 DEF NoWrite
    <3> QED BY <1>0, <3>1, <3>3, <3>4 DEF LogCounted
  <2>10. CASE CountRaises(w) \/ KillWriter(w)
    <3>1. UNCHANGED <<events, counter>> /\ kills' + raises' = kills + raises + 1
      <4>1. \/ UNCHANGED <<events, counter, kills>> /\ raises' = raises + 1
            \/ UNCHANGED <<events, counter, raises>> /\ kills' = kills + 1
        BY <2>10 DEF CountRaises, KillWriter, directory
      <4> QED BY <1>0, <4>1
    <3>2. r = NoWrite
      BY <1>0, <2>2, <2>10 DEF CountRaises, KillWriter, Release
    <3>3. \A v \in Writer : write'[v].pc = "count" => v # w /\ write'[v] = write[v]
      BY <2>2, <3>2 DEF NoWrite
    <3>4. LastNumber' = LastNumber /\ Len(events') = Len(events)
      BY <3>1 DEF LastNumber
    <3>5. Len(events') - LastNumber' < kills' + raises'
      BY <1>0, <3>1, <3>4 DEF LogCounted
    <3>6. \A v \in Writer : write'[v].pc = "count" =>
             write'[v].sequence = LastNumber' /\ counter' + 1 = LastNumber'
      BY <3>1, <3>3, <3>4 DEF LogCounted
    <3>7. /\ events' # <<>> => events'[1] = 1
          /\ \A k \in 2..Len(events') : events'[k] - events'[k - 1] \in {0, 1}
          /\ counter' = LastNumber' \/ counter' + 1 = LastNumber'
      BY <3>1, <3>4 DEF LogCounted
    <3>8. kills' + raises' \in Nat /\ LastNumber' \in Nat /\ Len(events') \in Nat
      BY <1>0, <3>1, <3>4
    <3>9. Len(events') - LastNumber' <= kills' + raises'
      BY <3>5, <3>8
    <3> QED BY <3>5, <3>6, <3>7, <3>9 DEF LogCounted
  <2> QED BY <1>2, <2>4, <2>5, <2>6, <2>7, <2>8, <2>9, <2>10 DEF WriterActs
<1>3. CASE Commits
  <2>1. UNCHANGED <<events, counter, write, raises>> /\ kills' \in {kills, kills + 1}
    BY <1>3 DEF Commits, BeginCommit, StageWorkspace, MoveOldAway, MoveNewIn, RecordCurrent,
                CommitRaises, KillCommit, directory, bounds
  <2> QED BY <1>0, <1>1, <2>1
<1>4. CASE BeginDelete \/ MarkDeleted \/ RemoveRoot
  <2>1. UNCHANGED <<events, counter, write, kills, raises>>
    BY <1>4 DEF BeginDelete, MarkDeleted, RemoveRoot, directory, bounds
  <2> QED BY <1>0, <1>1, <2>1
<1>5. CASE RemoveFiles
  <2>1. lock = {Deleter} /\ UNCHANGED <<write, kills, raises>> /\ events' = <<>> /\ counter' = 0
    BY <1>5 DEF RemoveFiles, LockHeld, bounds
  <2>2. \A w \in Writer : write'[w].pc # "count"
    BY <2>1, DeleterAssumption DEF LockHeld
  <2>3. LastNumber' = 0 /\ Len(events') = 0
    BY <2>1 DEF LastNumber
  <2> QED BY <1>0, <2>1, <2>2, <2>3 DEF LogCounted
<1> QED BY <1>2, <1>3, <1>4, <1>5 DEF FilesNext, WriterActs, Commits

\* Nobody writes a build state that is not there.
LEMMA BuilderStep ==
    ASSUME FilesInv, FilesNext
    PROVE  BuilderKept'
<1> USE DEF FilesInv
<1>1. ASSUME UNCHANGED <<deleted, deletion>>, "builder" \in entries' <=> "builder" \in entries
      PROVE  BuilderKept'
  BY <1>1 DEF BuilderKept
<1>2. ASSUME NEW w \in Writer, WriterActs(w) PROVE BuilderKept'
  <2>1. entries' \in {entries, entries \cup {"directories"}, entries \cup {"directories", "attempt"}}
    BY <1>2 DEF WriterActs, BeginWrite, MakeDirectories, TakeLock, AppendEvent, CountEvent, CountRaises,
                WriteAttempt, UpdateState, StateWritten, WriteRaises, KillWriter, directory
  <2> QED BY <1>1, <1>2, <2>1, WriterScope
<1>3. CASE Commits
  <2>1. UNCHANGED <<deleted, deletion>> /\ entries' \in {entries, entries \cup {"directories"}}
    BY <1>3 DEF Commits, BeginCommit, StageWorkspace, MoveOldAway, MoveNewIn, RecordCurrent,
                CommitRaises, KillCommit, directory
  <2> QED BY <1>1, <2>1
<1>4. CASE BeginDelete \/ MarkDeleted
  BY <1>4 DEF BeginDelete, MarkDeleted, BuilderKept, directory
<1>5. CASE RemoveFiles \/ RemoveRoot
  BY <1>5 DEF RemoveFiles, RemoveRoot, MarkedFirst, BuilderKept, directory
<1> QED BY <1>2, <1>3, <1>4, <1>5 DEF FilesNext, WriterActs, Commits

\* A commit that is not killed leaves a Workspace that current.json names.
LEMMA CommitStep ==
    ASSUME FilesInv, FilesNext
    PROVE  CommitKnown'
<1> USE DEF FilesInv
<1>0. /\ commit \in CommitType /\ publications \in Nat /\ kills \in Nat
      /\ commit.new \in Nat /\ commit.backup \in Nat
      /\ commit.pc \in {"idle", "begun", "staged", "moved", "published"}
  BY DEF FilesTypes, CommitType
<1>1. ASSUME UNCHANGED <<commit, workspaceDir, versions, current, publications>>,
             deleted => deleted', kills' >= kills, kills' \in Nat
      PROVE  CommitKnown'
  <2>1. kills' = 0 => kills = 0
    BY <1>0, <1>1
  <2> QED BY <1>1, <2>1 DEF CommitKnown
<1>2. ASSUME NEW w \in Writer, WriterActs(w) PROVE CommitKnown'
  <2>1. kills' \in Nat /\ kills' >= kills
    BY <1>2, WriterTypes
  <2> QED BY <1>1, <1>2, <2>1, WriterScope
<1>3. CASE BeginCommit
  <2>1. /\ UNCHANGED <<deleted, workspaceDir, versions, current, kills>>
        /\ commit' = [pc |-> "begun", new |-> publications + 1, backup |-> 0]
        /\ publications' = publications + 1 /\ commit.pc = "idle"
    BY <1>3 DEF BeginCommit, Publication, directory
  <2>2. ~deleted => current \in Nat /\ current < publications + 1 /\ current <= publications + 1
    BY <1>0 DEF CommitKnown
  <2> QED BY <2>1, <2>2 DEF CommitKnown
<1>4. CASE StageWorkspace
  <2>1. /\ UNCHANGED <<deleted, workspaceDir, current, publications, kills>>
        /\ versions' = versions \cup {commit.new} /\ commit.pc = "begun"
    BY <1>4 DEF StageWorkspace, Publication, bounds
  <2>2. commit'.pc = "staged" /\ commit'.new = commit.new
    BY <1>0, <1>4 DEF StageWorkspace, CommitType
  <2> QED BY <2>1, <2>2 DEF CommitKnown
<1>5. CASE MoveOldAway
  <2>1. /\ UNCHANGED <<deleted, versions, current, publications, kills>> /\ commit.pc = "staged"
    BY <1>5 DEF MoveOldAway, Publication, bounds
  <2>2. commit'.pc = "moved" /\ commit'.new = commit.new /\ commit'.backup = workspaceDir
    BY <1>0, <1>5 DEF MoveOldAway, CommitType
  <2> QED BY <2>1, <2>2 DEF CommitKnown
<1>6. CASE MoveNewIn
  <2>1. /\ UNCHANGED <<deleted, versions, current, publications, kills>> /\ commit.pc = "moved"
        /\ workspaceDir' = commit.new
    BY <1>6 DEF MoveNewIn, Publication, bounds
  <2>2. commit'.pc = "published" /\ commit'.new = commit.new /\ commit'.backup = commit.backup
    BY <1>0, <1>6 DEF MoveNewIn, CommitType
  <2> QED BY <2>1, <2>2 DEF CommitKnown
<1>7. CASE RecordCurrent
  <2>1. /\ UNCHANGED <<deleted, workspaceDir, versions, publications, kills>>
        /\ commit.pc = "published" /\ current' = commit.new /\ commit' = NoCommit
    BY <1>7 DEF RecordCurrent, Publication, bounds
  <2> QED BY <1>0, <2>1 DEF CommitKnown, NoCommit
<1>8. CASE CommitRaises
  <2>1. /\ UNCHANGED <<deleted, current, publications, kills>> /\ commit.pc # "idle"
        /\ workspaceDir' = Restored(commit) /\ versions' = versions \ {commit.new}
        /\ commit' = NoCommit
    BY <1>8 DEF CommitRaises, Publication, bounds
  <2>2. ~deleted => current \in versions' \cup {0}
    BY <1>0, <2>1 DEF CommitKnown
  <2>3. ~deleted /\ kills = 0 => workspaceDir' = current
    BY <1>0, <2>1 DEF CommitKnown, Restored
  <2> QED BY <2>1, <2>2, <2>3 DEF CommitKnown, NoCommit
<1>9. CASE KillCommit
  <2>1. /\ UNCHANGED <<deleted, workspaceDir, versions, current, publications>>
        /\ kills' = kills + 1 /\ commit' = NoCommit
    BY <1>9 DEF KillCommit, directory
  <2>2. kills' # 0
    BY <1>0, <2>1
  <2> QED BY <2>1, <2>2 DEF CommitKnown, NoCommit
<1>10. CASE BeginDelete \/ MarkDeleted \/ RemoveRoot
  <2>1. /\ UNCHANGED <<commit, workspaceDir, versions, current, publications, kills>>
        /\ deleted => deleted'
    BY <1>10 DEF BeginDelete, MarkDeleted, RemoveRoot, directory, bounds
  <2> QED BY <1>0, <1>1, <2>1
<1>11. CASE RemoveFiles
  <2>1. deleted' /\ UNCHANGED publications
    BY <1>11 DEF RemoveFiles, MarkedFirst, bounds
  <2>2. commit'.pc = commit.pc /\ commit'.new = commit.new
    BY <1>0, <1>11 DEF RemoveFiles, CommitType
  <2> QED BY <2>1, <2>2 DEF CommitKnown
<1> QED BY <1>2, <1>3, <1>4, <1>5, <1>6, <1>7, <1>8, <1>9, <1>10, <1>11 DEF FilesNext, WriterActs

-----------------------------------------------------------------------------

\* The invariant holds for any writers, commits, kills and a deletion.
THEOREM FilesInvariance == FilesSpec => []FilesInv
<1>1. FilesInv /\ FilesNext => FilesInv'
  BY TypesStep, LockStep, LogStep, BuilderStep, CommitStep DEF FilesInv
<1>2. FilesInv /\ UNCHANGED fileVars => FilesInv'
  BY DEF fileVars, FilesInv, FilesTypes, LockHeld, MarkedFirst, LogCounted, LastNumber, Counting,
         BuilderKept, CommitKnown
<1> QED BY FilesStart, <1>1, <1>2, PTL DEF FilesSpec

\* Events are numbered without a gap, and each number that comes again was left
\* uncounted by a process that was killed or an append that raised.
THEOREM EventsAreNumbered == FilesSpec => []EventsNumbered
<1>1. FilesInv => EventsNumbered
  BY DEF FilesInv, LogCounted, LastNumber, EventsNumbered
<1> QED BY FilesInvariance, <1>1, PTL

\* The build state is there until the Session is deleted, and gone when that is done.
THEOREM BuildStaysGone == FilesSpec => []BuildGone
<1>1. FilesInv => BuildGone
  BY DEF FilesInv, BuilderKept, BuildGone
<1> QED BY FilesInvariance, <1>1, PTL

\* A commit that raises leaves the Workspace it found.
THEOREM WorkspaceStaysCurrent == FilesSpec => []WorkspaceIsCurrent
<1>1. FilesInv => WorkspaceIsCurrent
  BY DEF FilesInv, FilesTypes, CommitKnown, WorkspaceIsCurrent, Publication
<1> QED BY FilesInvariance, <1>1, PTL

(***************************************************************************)
(* The files of a Workspace agree on its facts, for any sources, entities  *)
(* and wordings and any number of follow-ups. The argument keeps the draft *)
(* and the baseline sound, so that what the one file drops no other one    *)
(* mentions, and ties both to the sources of the accepted evidence.        *)
(***************************************************************************)

\* Facts as an extraction may state them: of known entities and sources, with
\* relations only where both of their entities are.
AnyFacts == [entities : SUBSET (Thing \X Document), relations : SUBSET Document]
Sound(f) == f \in AnyFacts /\ (f.relations # {} => Things(f) = Thing)

PublicTypes ==
    /\ sources \in SUBSET Document
    /\ Sound(found) /\ Sound(kept)

\* Facts come from accepted sources, and those of the baseline from sources that
\* are accepted still, or were lost with the text of their step.
Sourced ==
    /\ CitedBy(found) \subseteq sources
    /\ turn = "collect" => found = NoFacts
    /\ CitedBy(kept) \subseteq sources \cup forgotten

\* The README that finalize publishes was rendered from what it publishes.
OverviewCurrent ==
    turn = "finalize" => \E wording \in Wording :
        ReadmeValid(Rendered(wording)) /\ overview = Rendered(wording)

\* The files of w are those of the facts f, with their README.
Publishes(w, f) ==
    /\ w.entities = EntityLines(f) /\ w.relations = RelationLines(f)
    /\ w.chunks = ChunkLines(w.documents)
    /\ w.manifest = [records |-> RecordCounts(f), sources |-> w.documents]
    /\ w.documents = w.readme.links \cup CitedBy(f)
    /\ ReadmeValid(w.readme)
    /\ w.readme.entities = RecordCounts(f).entities
    /\ w.readme.relations = RecordCounts(f).relations

\* What is published stems from sources the build has had, and has or has forgotten.
PublicCurrent ==
    /\ public.files \in BOOLEAN
    /\ turn = "ready" => public.files
    /\ public.files => \E f \in AnyFacts :
          /\ Sound(f) /\ Publishes(public, f)
          /\ public.documents \subseteq sources \cup forgotten
          /\ public.documents \ public.readme.links \subseteq forgotten

PublicInv == PublicTypes /\ Sourced /\ OverviewCurrent /\ PublicCurrent

-----------------------------------------------------------------------------
(* Facts and their lines *)

LEMMA NoFactsSound == Sound(NoFacts) /\ CitedBy(NoFacts) = {}
BY DEF Sound, NoFacts, Known, AnyFacts, CitedBy

\* The entities of sound facts, and the sources they cite.
LEMMA FactsOf ==
    ASSUME NEW f \in AnyFacts
    PROVE  /\ Things(f) \subseteq Thing /\ CitedBy(f) \subseteq Document
           /\ \A t : RefsOf(f, t) \subseteq CitedBy(f)
           /\ \A t, d : <<t, d>> \in f.entities => t \in Things(f) /\ d \in RefsOf(f, t)
           /\ \A t : \A d \in RefsOf(f, t) : <<t, d>> \in f.entities
<1>1. \A e \in f.entities : e \in Thing \X Document /\ e = <<e[1], e[2]>>
  BY DEF AnyFacts
<1>2. f.relations \subseteq Document
  BY DEF AnyFacts
<1>3. Things(f) \subseteq Thing
  BY <1>1 DEF Things
<1>4. CitedBy(f) \subseteq Document
  BY <1>1, <1>2 DEF CitedBy
<1>5. \A t : RefsOf(f, t) \subseteq CitedBy(f)
  BY DEF RefsOf, CitedBy
<1>6. \A t, d : <<t, d>> \in f.entities => t \in Things(f) /\ d \in RefsOf(f, t)
  BY DEF Things, RefsOf
<1>7. \A t : \A d \in RefsOf(f, t) : <<t, d>> \in f.entities
  BY <1>1 DEF RefsOf
<1> QED BY <1>3, <1>4, <1>5, <1>6, <1>7

\* Merging keeps facts sound, and cites what either cites.
LEMMA TogetherSound ==
    ASSUME PublicTypes
    PROVE  Sound(Together) /\ CitedBy(Together) \subseteq CitedBy(found) \cup CitedBy(kept)
<1>1. CASE anew
  BY <1>1 DEF PublicTypes, Together
<1>2. CASE ~anew
  <2>1. Together.entities = found.entities \cup kept.entities
    BY <1>2 DEF Together, Known
  <2>2. Together.relations = found.relations \cup kept.relations
    BY <1>2 DEF Together, Known
  <2>3. Together \in AnyFacts
    BY <1>2 DEF Together, Known, AnyFacts, PublicTypes, Sound
  <2>4. Things(found) \subseteq Things(Together) /\ Things(kept) \subseteq Things(Together)
    BY <2>1 DEF Things
  <2>5. Things(Together) \subseteq Thing
    BY <2>3, FactsOf
  <2>6. Together.relations # {} => Things(Together) = Thing
    BY <2>2, <2>4, <2>5 DEF PublicTypes, Sound
  <2>7. CitedBy(Together) \subseteq CitedBy(found) \cup CitedBy(kept)
    BY <2>1, <2>2 DEF CitedBy
  <2> QED BY <2>3, <2>6, <2>7 DEF Sound
<1> QED BY <1>1, <1>2

\* One line for each entity.
LEMMA LinesCounted ==
    ASSUME NEW f \in AnyFacts
    PROVE  /\ Cardinality(EntityLines(f)) = RecordCounts(f).entities
           /\ Cardinality(RelationLines(f)) = RecordCounts(f).relations
<1>1. IsFiniteSet(Things(f))
  BY FactsOf, ThingAssumption, FS_Subset
<1> DEFINE Line(t) == [key |-> t, refs |-> RefsOf(f, t), whole |-> t \notin torn]
           lines == [t \in Things(f) |-> Line(t)]
<1>2. EntityLines(f) = {Line(t) : t \in Things(f)}
  BY DEF EntityLines
<1>3. \A t, u : Line(t) = Line(u) => t = u
  <2> SUFFICES ASSUME NEW t, NEW u, Line(t) = Line(u) PROVE t = u
    OBVIOUS
  <2>1. Line(t).key = t /\ Line(u).key = u
    OBVIOUS
  <2> QED BY <2>1
<1> HIDE DEF Line
<1>4. lines \in Bijection(Things(f), EntityLines(f))
  BY <1>2, <1>3 DEF Bijection, Injection, Surjection, IsInjective
<1>5. Cardinality(EntityLines(f)) = Cardinality(Things(f))
  BY <1>1, <1>4, FS_Bijection DEF ExistsBijection
<1>6. Cardinality(RelationLines(f)) = IF f.relations = {} THEN 0 ELSE 1
  BY FS_EmptySet, FS_Singleton DEF RelationLines
<1> QED BY <1>5, <1>6 DEF RecordCounts

\* A Workspace gives back the facts it was made of.
LEMMA FactsReadBack ==
    ASSUME NEW f \in AnyFacts, NEW w, Publishes(w, f)
    PROVE  ReadBack(w) = f
<1>1. UNION {l.refs : l \in w.relations} = f.relations
  <2>1. CASE f.relations = {}
    BY <2>1 DEF Publishes, RelationLines
  <2>2. CASE f.relations # {}
    <3>1. w.relations = {[refs |-> f.relations, whole |-> ~tornLinks]}
      BY <2>2 DEF Publishes, RelationLines
    <3> QED BY <3>1
  <2> QED BY <2>1, <2>2
<1>2. UNION {{<<l.key, d>> : d \in l.refs} : l \in w.entities} = f.entities
  <2> DEFINE back == UNION {{<<l.key, d>> : d \in l.refs} : l \in w.entities}
  <2>1. ASSUME NEW x \in back PROVE x \in f.entities
    <3>1. PICK t \in Things(f) : x \in {<<t, d>> : d \in RefsOf(f, t)}
      BY <2>1 DEF Publishes, EntityLines
    <3> QED BY <3>1, FactsOf
  <2>2. ASSUME NEW x \in f.entities PROVE x \in back
    <3>1. x = <<x[1], x[2]>>
      BY DEF AnyFacts
    <3>2. x[1] \in Things(f) /\ x[2] \in RefsOf(f, x[1])
      BY <3>1, FactsOf
    <3> DEFINE l == [key |-> x[1], refs |-> RefsOf(f, x[1]), whole |-> x[1] \notin torn]
    <3>3. l \in w.entities /\ l.key = x[1] /\ l.refs = RefsOf(f, x[1])
      BY <3>2 DEF Publishes, EntityLines
    <3> HIDE DEF l
    <3>4. <<x[1], x[2]>> \in {<<l.key, d>> : d \in l.refs}
      BY <3>2, <3>3
    <3> QED BY <3>1, <3>3, <3>4
  <2> QED BY <2>1, <2>2
<1>3. f = [entities |-> f.entities, relations |-> f.relations]
  BY DEF AnyFacts
<1> QED BY <1>1, <1>2, <1>3 DEF ReadBack, Known

\* The readers refuse a Workspace of sound facts only for a torn line.
LEMMA ReadersAgree ==
    ASSUME NEW f, Sound(f), NEW w, Publishes(w, f)
    PROVE  /\ ReadyValid(w) <=> Legible(w)
           /\ LoaderAccepts(w) <=> Legible(w)
           /\ Served(w) = w.documents
           /\ w.readme.entities = w.manifest.records.entities
           /\ w.readme.relations = w.manifest.records.relations
<1>1. f \in AnyFacts /\ (f.relations # {} => Things(f) = Thing)
  BY DEF Sound
<1>2. w.manifest.sources = w.documents /\ w.manifest.records = RecordCounts(f)
  BY DEF Publishes
<1>3. CitedBy(f) \subseteq w.documents /\ w.chunks = w.documents \ uploaded
  BY DEF Publishes, ChunkLines
<1>4. ChunksValid(w)
  BY <1>2, <1>3 DEF ChunksValid
<1>5. \A l \in w.entities \cup w.relations : l.refs \subseteq CitedBy(f)
  <2>1. \A l \in w.entities : \E t \in Things(f) : l.refs = RefsOf(f, t)
    BY DEF Publishes, EntityLines
  <2>2. \A l \in w.relations : l.refs = f.relations
    BY DEF Publishes, RelationLines
  <2>3. f.relations \subseteq CitedBy(f)
    BY DEF CitedBy
  <2> QED BY <1>1, <2>1, <2>2, <2>3, FactsOf
<1>6. EvidenceValid(w)
  BY <1>3, <1>5 DEF EvidenceValid
<1>7. CountsValid(w)
  BY <1>1, <1>2, LinesCounted DEF CountsValid, Publishes
<1>8. ValidFacts(ReadBack(w), w.manifest.sources)
  BY <1>1, <1>2, <1>3, FactsReadBack DEF ValidFacts
<1>9. \A l, m \in w.entities : l.key = m.key => l = m
  BY DEF Publishes, EntityLines
<1>10. w.relations # {} => {l.key : l \in w.entities} = Thing
  <2>1. w.relations # {} => f.relations # {}
    BY DEF Publishes, RelationLines
  <2>2. \A l \in w.entities : l.key \in Things(f)
    BY DEF Publishes, EntityLines
  <2>3. ASSUME NEW t \in Things(f) PROVE t \in {l.key : l \in w.entities}
    <3> DEFINE l == [key |-> t, refs |-> RefsOf(f, t), whole |-> t \notin torn]
    <3>1. l \in w.entities /\ l.key = t
      BY DEF Publishes, EntityLines
    <3> HIDE DEF l
    <3> QED BY <3>1
  <2> QED BY <1>1, <2>1, <2>2, <2>3
<1>11. ReadyValid(w) <=> Legible(w)
  BY <1>2, <1>4, <1>6, <1>7, <1>8 DEF ReadyValid, Publishes
<1>12. LoaderAccepts(w) <=> Legible(w)
  BY <1>2, <1>3, <1>4, <1>5, <1>6, <1>7, <1>9, <1>10 DEF LoaderAccepts
<1> QED BY <1>2, <1>11, <1>12 DEF Served, Publishes

\* The input of finalize can be published.
LEMMA TogetherCommittable ==
    ASSUME PublicInv, turn = "finalize"
    PROVE  Committable(Together) /\ ReadmeValid(overview)
<1>1. ReadmeValid(overview)
  BY DEF PublicInv, OverviewCurrent
<1>2. Sound(Together)
  BY TogetherSound DEF PublicInv
<1>3. ValidFacts(Together, AllSources(Together))
  BY <1>2 DEF ValidFacts, Sound, AllSources
<1> QED BY <1>1, <1>3 DEF Committable, AllSources, ChunkLines

-----------------------------------------------------------------------------
(* Steps *)

\* What is published stays current while sources come, and go to forgotten.
LEMMA PublicStays ==
    ASSUME PublicCurrent, UNCHANGED <<torn, tornLinks, uploaded, public>>,
           sources \cup forgotten \subseteq sources' \cup forgotten', forgotten \subseteq forgotten',
           turn' = "ready" => turn = "ready"
    PROVE  PublicCurrent'
<1>1. ASSUME public.files
      PROVE  \E f \in AnyFacts : /\ Sound(f) /\ Publishes(public, f)'
                                 /\ public'.documents \subseteq sources' \cup forgotten'
                                 /\ public'.documents \ public'.readme.links \subseteq forgotten'
  <2>1. PICK f \in AnyFacts : /\ Sound(f) /\ Publishes(public, f)
                              /\ public.documents \subseteq sources \cup forgotten
                              /\ public.documents \ public.readme.links \subseteq forgotten
    BY <1>1 DEF PublicCurrent
  <2>2. Publishes(public, f)'
    BY <2>1 DEF Publishes, EntityLines, RelationLines, ChunkLines, RecordCounts, ReadmeValid
  <2> QED BY <2>1, <2>2
<1> QED BY <1>1 DEF PublicCurrent

LEMMA CollectStep ==
    ASSUME PublicInv, CollectSources
    PROVE  PublicInv'
<1>1. PICK chosen \in SUBSET Document :
          sources' = chosen /\ forgotten' = forgotten \cup (sources \ chosen)
  BY DEF CollectSources
<1>2. UNCHANGED <<torn, tornLinks, uploaded, found, kept, public>> /\ turn = "collect" /\ turn' = "extract"
  BY DEF CollectSources, textVars
<1>3. sources \cup forgotten \subseteq sources' \cup forgotten' /\ forgotten \subseteq forgotten'
  BY <1>1
<1>4. PublicCurrent'
  BY <1>2, <1>3, PublicStays DEF PublicInv
<1>5. CitedBy(found') = {}
  BY <1>2, NoFactsSound DEF PublicInv, Sourced
<1> QED BY <1>1, <1>2, <1>3, <1>4, <1>5 DEF PublicInv, PublicTypes, Sourced, OverviewCurrent, CitedBy,
        Sound, Things

\* The facts of an extraction are sound and cite accepted sources.
LEMMA DraftsSound ==
    ASSUME PublicTypes, NEW f \in Drafts(sources)
    PROVE  Sound(f) /\ CitedBy(f) \subseteq sources
<1>1. PICK es \in SUBSET (Thing \X sources), rs \in SUBSET sources : f = Known(es, rs)
  BY DEF Drafts
<1>2. ValidFacts(f, sources)
  BY DEF Drafts
<1>3. Thing \X sources \subseteq Thing \X Document /\ sources \subseteq Document
  BY DEF PublicTypes
<1>4. f \in AnyFacts
  BY <1>1, <1>3 DEF Known, AnyFacts
<1> QED BY <1>2, <1>4 DEF ValidFacts, Sound

LEMMA ExtractStep ==
    ASSUME PublicInv, ExtractRecords
    PROVE  PublicInv'
<1>1. /\ UNCHANGED <<torn, tornLinks, uploaded, sources, forgotten, kept, public>>
      /\ found' \in Drafts(sources) /\ turn' = "document"
  BY DEF ExtractRecords, textVars
<1>2. PublicCurrent'
  BY <1>1, PublicStays DEF PublicInv
<1>3. Sound(found') /\ CitedBy(found') \subseteq sources
  BY <1>1, DraftsSound DEF PublicInv
<1> QED BY <1>1, <1>2, <1>3 DEF PublicInv, PublicTypes, Sourced, OverviewCurrent, CitedBy,
        Sound, Things

\* The README is rendered from the facts and sources that finalize finds.
LEMMA ReadmeStep ==
    ASSUME PublicInv, AcceptReadme \/ RefuseReadme \/ RetryReadme
    PROVE  PublicInv'
<1>1. UNCHANGED <<torn, tornLinks, uploaded, untitled, unstated, sources, forgotten, found, kept, anew, public>>
  BY DEF AcceptReadme, RefuseReadme, RetryReadme, textVars
<1>2. /\ turn' \in {"finalize", "failed", "document"}
      /\ turn' = "finalize" => \E wording \in Wording :
            ReadmeValid(Rendered(wording)) /\ overview' = Rendered(wording)
  BY DEF AcceptReadme, RefuseReadme, RetryReadme
<1>3. PublicCurrent'
  BY <1>1, <1>2, PublicStays DEF PublicInv
<1>4. Together' = Together
  BY <1>1 DEF Together
<1>5. \A wording : Rendered(wording)' = Rendered(wording)
  BY <1>1, <1>4 DEF Rendered, Things
<1>6. OverviewCurrent'
  BY <1>2, <1>5 DEF OverviewCurrent, ReadmeValid
<1> QED BY <1>1, <1>2, <1>3, <1>6 DEF PublicInv, PublicTypes, Sourced, CitedBy, Sound, Things

LEMMA PublishStep ==
    ASSUME PublicInv, PublishFiles
    PROVE  PublicInv'
<1>1. /\ UNCHANGED <<torn, tornLinks, uploaded, sources, forgotten, found, kept, overview>>
      /\ turn = "finalize" /\ turn' = "ready" /\ public' = FilesOf(Together)
  BY DEF PublishFiles, textVars
<1>2. Sound(Together) /\ CitedBy(Together) \subseteq CitedBy(found) \cup CitedBy(kept)
  BY TogetherSound DEF PublicInv
<1>3. PICK wording \in Wording : ReadmeValid(Rendered(wording)) /\ overview = Rendered(wording)
  BY <1>1 DEF PublicInv, OverviewCurrent
<1>4. /\ overview.links = sources
      /\ overview.entities = RecordCounts(Together).entities
      /\ overview.relations = RecordCounts(Together).relations
  BY <1>3 DEF Rendered, RecordCounts
<1>5. PICK g \in AnyFacts : g = Together
  BY <1>2 DEF Sound
<1>6. /\ public'.entities = EntityLines(g)' /\ public'.relations = RelationLines(g)'
      /\ public'.chunks = ChunkLines(AllSources(g))'
      /\ public'.manifest = [records |-> RecordCounts(g)', sources |-> AllSources(g)]
      /\ public'.documents = AllSources(g) /\ public'.readme = overview /\ public'.files = TRUE
  BY <1>1, <1>5 DEF FilesOf, EntityLines, RelationLines, ChunkLines, RecordCounts, AllSources, CitedBy
<1>7. Publishes(public, g)'
  BY <1>1, <1>3, <1>4, <1>5, <1>6 DEF Publishes, AllSources, ReadmeValid, RecordCounts, ChunkLines
<1>8. AllSources(g) \subseteq sources \cup forgotten /\ AllSources(g) \ sources \subseteq forgotten
  BY <1>2, <1>5 DEF AllSources, PublicInv, Sourced
<1>9. PublicCurrent'
  BY <1>1, <1>2, <1>4, <1>5, <1>6, <1>7, <1>8 DEF PublicCurrent, Sound, Things
<1> QED BY <1>1, <1>9 DEF PublicInv, PublicTypes, Sourced, OverviewCurrent, CitedBy, Sound, Things

\* A baseline is what was published.
LEMMA UpdateStep ==
    ASSUME PublicInv, UpdateEvidence \/ UpdateInstances \/ UpdateProblem
    PROVE  PublicInv'
<1>1. /\ UNCHANGED <<torn, tornLinks, uploaded, sources, forgotten, overview, public>>
      /\ turn = "ready" /\ turn' \in {"collect", "extract"}
      /\ kept' = ReadBack(public) /\ found' = NoFacts
  BY DEF UpdateEvidence, UpdateInstances, UpdateProblem, TakeBaseline, textVars
<1>2. PICK f \in AnyFacts : /\ Sound(f) /\ Publishes(public, f)
                            /\ public.documents \subseteq sources \cup forgotten
  BY <1>1 DEF PublicInv, PublicCurrent
<1>3. kept' = f
  BY <1>1, <1>2, FactsReadBack
<1>4. CitedBy(f) \subseteq sources \cup forgotten
  BY <1>2 DEF Publishes
<1>5. PublicCurrent'
  BY <1>1, PublicStays DEF PublicInv
<1>6. Sound(kept)' /\ Sound(found)' /\ CitedBy(found)' = {} /\ CitedBy(kept)' \subseteq sources' \cup forgotten'
  BY <1>1, <1>2, <1>3, <1>4, NoFactsSound DEF Sound, CitedBy, Things
<1> QED BY <1>1, <1>5, <1>6 DEF PublicInv, PublicTypes, Sourced, OverviewCurrent

LEMMA PublicStarts == PublicInit => PublicInv
<1> SUFFICES ASSUME PublicInit PROVE PublicInv
  OBVIOUS
<1>1. found = NoFacts /\ kept = NoFacts /\ sources = {} /\ public = [files |-> FALSE] /\ turn = "collect"
  BY DEF PublicInit, Nowhere
<1>2. public.files = FALSE
  BY <1>1
<1> QED BY <1>1, <1>2, NoFactsSound DEF PublicInv, PublicTypes, Sourced, OverviewCurrent, PublicCurrent

\* The invariant of a Workspace that is published, read back and updated.
THEOREM PublicInvariance == PublicSpec => []PublicInv
<1>1. PublicInv /\ PublicNext => PublicInv'
  BY CollectStep, ExtractStep, ReadmeStep, PublishStep, UpdateStep DEF PublicNext
<1>2. PublicInv /\ UNCHANGED publicVars => PublicInv'
  <2> SUFFICES ASSUME PublicInv, UNCHANGED publicVars PROVE PublicInv'
    OBVIOUS
  <2>1. PublicCurrent'
    BY PublicStays DEF publicVars, textVars, PublicInv
  <2>2. OverviewCurrent'
    BY DEF publicVars, textVars, PublicInv, OverviewCurrent, ReadmeValid, Rendered, Together, Things
  <2> QED BY <2>1, <2>2 DEF publicVars, PublicInv, PublicTypes, Sourced, CitedBy, Sound, Things
<1> QED BY PublicStarts, <1>1, <1>2, PTL DEF PublicSpec

\* FilesAgree: what is accepted can be published, and what is published is read
\* back, for any entities, sources, texts, wordings and follow-ups.
THEOREM PublishedFilesAgree == PublicSpec => []FilesAgree
<1>1. ASSUME PublicInv PROVE FilesAgree
  <2>1. turn = "finalize" => Committable(Together)
    BY <1>1, TogetherCommittable
  <2>2. ASSUME public.files
        PROVE  /\ ReadyValid(public) <=> Legible(public)
               /\ LoaderAccepts(public) <=> Legible(public)
               /\ public.readme.entities = public.manifest.records.entities
               /\ public.readme.relations = public.manifest.records.relations
               /\ public.readme.links \subseteq Served(public)
               /\ Served(public) \ public.readme.links \subseteq forgotten
    <3>1. PICK f \in AnyFacts : /\ Sound(f) /\ Publishes(public, f)
                                /\ public.documents \ public.readme.links \subseteq forgotten
      BY <1>1, <2>2 DEF PublicInv, PublicCurrent
    <3>2. public.readme.links \subseteq public.documents
      BY <3>1 DEF Publishes
    <3> QED BY <3>1, <3>2, ReadersAgree
  <2> QED BY <2>1, <2>2 DEF FilesAgree
<1> QED BY PublicInvariance, <1>1, PTL

=============================================================================
