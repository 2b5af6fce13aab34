----------------------------- MODULE JobsProofs -----------------------------
(***************************************************************************)
(* Detached workers hand over to one another, keep the gates and move the  *)
(* task record forward, for any number of workers, tool calls, commands    *)
(* and kills.                                                              *)
(***************************************************************************)
EXTENDS BackgroundJobs, TLAPS

Status == DOMAIN TaskStatus

\* What happened at each version of builder.json: everything that was ever read
\* from it, and is still in use somewhere, agrees with one history.
Noted(history, b) == b.version <= builder.version /\ b.status = history[b.version]

\* A record that waits for its worker was written for a running build.
StartNoted(history, record) ==
    record.status = "starting" =>
        record.expected <= builder.version /\ history[record.expected] = "running"

Agrees(history) ==
    /\ history[0] = "running"
    /\ history[builder.version] = builder.status
    /\ task.version <= builder.version /\ task.status = TaskStatus[history[task.version]]
    /\ \A w \in Job : Noted(history, held[w]) /\ StartNoted(history, copy[w])
    /\ \A h \in Host : Noted(history, seen[h])
    /\ StartNoted(history, job)

OneHistory == \E history \in [Nat -> Status] : Agrees(history)

\* The status that a worker or a tool call relies on where it stands.
Knows(w) ==
    /\ wpc[w] \in {"starting", "leasing", "driving", "cancelling"} => held[w].status = "running"
    /\ wpc[w] = "backoff" => held[w].status = "failed"
    /\ wpc[w] = "closing" => pending[w] # "running"
    /\ wpc[w] \in {"none", "spawned", "starting"} => pending[w] = "running"

CallKnows(h) ==
    /\ hpc[h] \in {"looking", "dead", "changed", "launch", "waiting", "polled", "cancelling"}
          => seen[h].status = "running"
    /\ hpc[h] \in {"looking", "dead", "polled", "polling"} => tool[h] \in {"wait", "stop"}
    /\ hpc[h] = "looked" /\ tool[h] = "recover" => seen[h].status = "failed"
    /\ hpc[h] = "looked" /\ tool[h] = "decide" => seen[h].status = "review"

AllKnow == (\A w \in Job : Knows(w)) /\ (\A h \in Host : CallKnows(h))

\* One call launches at a time, and a worker for each launch.
OneLauncher ==
    /\ \A g, h \in Host : hpc[g] \in {"waiting", "popen"} /\ hpc[h] \in {"waiting", "popen"} => g = h
    /\ \A w \in Job : w > launched => wpc[w] = "none"
    /\ \A h \in Host : hpc[h] = "popen" => launched \in Job /\ wpc[launched] = "none"

\* A worker that may still work on its phase: it has not closed its record, and
\* its signal handler does not lead past that.
MayEngage(w) ==
    \/ Engaged(w) \/ wpc[w] \in {"none", "closing"}
    \/ wpc[w] \in {"signalled", "cancelling"} /\ unwind[w] = "handler"

\* Its record is active, and so is what its threads are about to write.
Unclosed(record) ==
    \A w \in Job : record.id = w /\ MayEngage(w) => record.status \in Active

Keeps(w) == guard[w] = "beat" \/ (wpc[w] = "starting" /\ guard[w] = "main")

CopyOpen(w) ==
    /\ guard[w] # "free" => copy[w].id = w
    /\ wpc[w] \in {"none", "gone"} => guard[w] = "free" /\ ~beat[w]
    /\ Keeps(w) /\ MayEngage(w) => copy[w].status \in Active
    /\ guard[w] = "main" => wpc[w] \in {"starting", "closing", "signalled", "cancelling"}

RecordsOpen == Unclosed(job) /\ \A w \in Job : CopyOpen(w)

JobsInv == TypeOK /\ OneHistory /\ AllKnow /\ OneLauncher /\ RecordsOpen

-----------------------------------------------------------------------------
(* Types *)

TaskType == [version : Nat, status : {TaskStatus[s] : s \in Status}]
Pending == {"running", "completed", "cancelled", "failed"}
Unwinds == {"gone", "stopping", "handler"}
Guards == {"free", "main", "beat"}

\* The records that steps write.
LEMMA Records ==
    /\ NoBuild \in Build /\ FirstBuild \in Build /\ NoRecord \in JobRecord
    /\ \A b \in Build : b.version \in Nat /\ b.status \in Status /\ TaskOf(b) \in TaskType
    /\ \A v \in Nat, s \in Status : [version |-> v, status |-> s] \in Build
    /\ \A record \in JobRecord : record.expected \in Nat /\ record.id \in Job \cup {NoJob}
<1>1. Status = {"running", "review", "ready", "failed", "cancelled"}
  BY DEF Status, TaskStatus
<1>2. NoBuild \in Build /\ FirstBuild \in Build
  BY <1>1 DEF NoBuild, FirstBuild, Build, Status
<1>3. NoRecord \in JobRecord
  BY DEF NoRecord, JobRecord
<1>4. ASSUME NEW b \in Build
      PROVE  b.version \in Nat /\ b.status \in Status /\ TaskOf(b) \in TaskType
  <2>1. b.version \in Nat /\ b.status \in Status
    BY DEF Build, Status
  <2> QED BY <2>1 DEF TaskOf, TaskType
<1>5. \A v \in Nat, s \in Status : [version |-> v, status |-> s] \in Build
  BY DEF Build, Status
<1>6. \A record \in JobRecord : record.expected \in Nat /\ record.id \in Job \cup {NoJob}
  BY DEF JobRecord
<1> QED BY <1>2, <1>3, <1>4, <1>5, <1>6

\* The records that the main thread and the heartbeat merge.
LEMMA MergedRecords ==
    ASSUME TypeOK, NEW w \in Job
    PROVE  /\ Merged(w) \in JobRecord /\ Merged(w).id = job.id
           /\ Merged(w).status = pending[w] /\ Merged(w).status # "starting"
           /\ \A fresh \in BOOLEAN : [job EXCEPT !.fresh = fresh] \in JobRecord
<1>1. job \in JobRecord /\ pending[w] \in Pending /\ held[w].version \in Nat
  BY Records DEF TypeOK, Pending
<1>2. CASE pending[w] = "running"
  BY <1>1, <1>2 DEF Merged, JobRecord, Active
<1>3. CASE pending[w] = "cancelled"
  BY <1>1, <1>3 DEF Merged, JobRecord, Active
<1>4. CASE pending[w] \in {"completed", "failed"}
  <2>1. Merged(w) = [job EXCEPT !.status = pending[w], !.fresh = FALSE, !.expected = 0,
                                !.result = held[w].version]
    BY <1>4 DEF Merged
  <2>2. ASSUME NEW status \in {"completed", "failed"}, NEW version \in Nat, NEW record,
               record = [job EXCEPT !.status = status, !.fresh = FALSE, !.expected = 0,
                                    !.result = version]
        PROVE  record \in JobRecord /\ record.id = job.id /\ record.status = status
    BY <1>1, <2>2 DEF JobRecord
  <2>3. Merged(w) \in JobRecord /\ Merged(w).id = job.id /\ Merged(w).status = pending[w]
    BY <1>1, <1>4, <2>1, <2>2
  <2>4. \A fresh \in BOOLEAN : [job EXCEPT !.fresh = fresh] \in JobRecord
    BY <1>1 DEF JobRecord
  <2> QED BY <1>4, <2>3, <2>4
<1>5. pending[w] = "running" \/ pending[w] = "cancelled" \/ pending[w] \in {"completed", "failed"}
  BY <1>1 DEF Pending
<1> QED BY <1>2, <1>3, <1>4, <1>5

\* A swap writes a next build.
LEMMA Updated ==
    ASSUME TypeOK, NEW status \in Status, Update(status)
    PROVE  /\ builder' \in Build /\ builder'.version = builder.version + 1
           /\ builder'.status = status /\ builder' # builder
<1>1. builder \in Build /\ builder.version \in Nat /\ builder.version + 1 \in Nat
  BY Records DEF TypeOK
<1>2. builder' = [version |-> builder.version + 1, status |-> status]
  BY DEF Update
<1> QED BY <1>1, <1>2, Records

\* The part of TypeOK that is of the workers, and of one of them.
WorkersTyped ==
    /\ wpc \in [Job -> WorkerPC] /\ held \in [Job -> Build] /\ pending \in [Job -> Pending]
    /\ unwind \in [Job -> Unwinds] /\ beat \in [Job -> BOOLEAN] /\ guard \in [Job -> Guards]
    /\ copy \in [Job -> JobRecord]

\* The step of a worker leaves the others alone.
OthersStay(w) ==
    \A v \in Job \ {w} :
        /\ wpc'[v] = wpc[v] /\ held'[v] = held[v] /\ pending'[v] = pending[v]
        /\ unwind'[v] = unwind[v] /\ beat'[v] = beat[v] /\ guard'[v] = guard[v]
        /\ copy'[v] = copy[v]

\* What an end, or a handled signal, leaves of a worker.
LEMMA Exits ==
    ASSUME TypeOK, NEW w \in Job, Exit(w)
    PROVE  /\ WorkersTyped' /\ OthersStay(w)
           /\ wpc'[w] = "gone" /\ held'[w] = NoBuild /\ ~beat'[w] /\ guard'[w] = "free"
           /\ copy'[w] = NoRecord /\ pending'[w] = "running" /\ unwind'[w] = "gone"
<1>1. WorkersTyped
  BY DEF TypeOK, WorkersTyped, Pending, Unwinds, Guards
<1>2. /\ wpc' \in [Job -> WorkerPC] /\ wpc'[w] = "gone"
      /\ \A v \in Job \ {w} : wpc'[v] = wpc[v]
  BY <1>1 DEF Exit, WorkerAt, WorkersTyped, WorkerPC
<1>3. /\ held' \in [Job -> Build] /\ held'[w] = NoBuild
      /\ \A v \in Job \ {w} : held'[v] = held[v]
  BY <1>1, Records DEF Exit, WorkersTyped
<1>4. /\ pending' \in [Job -> Pending] /\ pending'[w] = "running"
      /\ \A v \in Job \ {w} : pending'[v] = pending[v]
  BY <1>1 DEF Exit, WorkersTyped, Pending
<1>5. /\ unwind' \in [Job -> Unwinds] /\ unwind'[w] = "gone"
      /\ \A v \in Job \ {w} : unwind'[v] = unwind[v]
  BY <1>1 DEF Exit, WorkersTyped, Unwinds
<1>6. /\ beat' \in [Job -> BOOLEAN] /\ ~beat'[w]
      /\ \A v \in Job \ {w} : beat'[v] = beat[v]
  BY <1>1 DEF Exit, WorkersTyped
<1>7. /\ guard' \in [Job -> Guards] /\ guard'[w] = "free"
      /\ \A v \in Job \ {w} : guard'[v] = guard[v]
  BY <1>1 DEF Exit, WorkersTyped, Guards
<1>8. /\ copy' \in [Job -> JobRecord] /\ copy'[w] = NoRecord
      /\ \A v \in Job \ {w} : copy'[v] = copy[v]
  BY <1>1, Records DEF Exit, WorkersTyped
<1> QED BY <1>2, <1>3, <1>4, <1>5, <1>6, <1>7, <1>8 DEF WorkersTyped, OthersStay

\* What an exception of the signal handler leaves.
LEMMA Unwinds_ ==
    ASSUME TypeOK, NEW w \in Job, NEW status \in {"cancelled", "failed"}, Unwind(w, status)
    PROVE  /\ WorkersTyped' /\ OthersStay(w)
           /\ wpc'[w] \in {"stopping", "closing", "failing", "gone"}
           /\ wpc'[w] = "closing" => pending'[w] = "cancelled"
           /\ wpc'[w] \in {"closing", "failing"} => unwind[w] = "handler"
           /\ wpc'[w] = "gone" => guard'[w] = "free" /\ ~beat'[w]
           /\ held'[w] \in {held[w], NoBuild}
           /\ guard'[w] # "main"
           /\ guard'[w] = "beat" => guard[w] = "beat" /\ copy'[w] = copy[w]
           /\ copy'[w] \in {copy[w], NoRecord}
<1>1. WorkersTyped
  BY DEF TypeOK, WorkersTyped, Pending, Unwinds, Guards
<1>2. CASE unwind[w] = "gone" /\ Exit(w)
  BY <1>2, Exits
<1>3. CASE unwind[w] # "gone"
  <2>1. unwind[w] \in {"stopping", "handler"}
    BY <1>1, <1>3 DEF WorkersTyped, Unwinds
  <2>2. PICK pc \in {"stopping", "closing", "failing"} :
          /\ wpc' = [wpc EXCEPT ![w] = pc]
          /\ pc = "closing" => status = "cancelled"
          /\ pc \in {"closing", "failing"} => unwind[w] # "stopping"
    BY <1>3 DEF Unwind, WorkerAt
  <2>3. /\ pending' = [pending EXCEPT ![w] = status]
        /\ unwind' = [unwind EXCEPT ![w] = "gone"]
        /\ guard' = [guard EXCEPT ![w] = IF guard[w] = "main" THEN "free" ELSE guard[w]]
        /\ copy' = [copy EXCEPT ![w] = IF guard[w] = "main" THEN NoRecord ELSE copy[w]]
        /\ UNCHANGED <<held, beat>>
    BY <1>1, <1>3 DEF Unwind, WorkersTyped
  <2>4. /\ wpc' \in [Job -> WorkerPC] /\ wpc'[w] = pc
        /\ \A v \in Job \ {w} : wpc'[v] = wpc[v]
    BY <1>1, <2>2 DEF WorkersTyped, WorkerPC
  <2>5. /\ pending' \in [Job -> Pending] /\ pending'[w] = status
        /\ \A v \in Job \ {w} : pending'[v] = pending[v]
    BY <1>1, <2>3 DEF WorkersTyped, Pending
  <2>6. /\ unwind' \in [Job -> Unwinds]
        /\ \A v \in Job \ {w} : unwind'[v] = unwind[v]
    BY <1>1, <2>3 DEF WorkersTyped, Unwinds
  <2>7. /\ guard' \in [Job -> Guards] /\ guard'[w] # "main"
        /\ guard'[w] = "beat" => guard[w] = "beat"
        /\ \A v \in Job \ {w} : guard'[v] = guard[v]
    BY <1>1, <2>3 DEF WorkersTyped, Guards
  <2>8. /\ copy' \in [Job -> JobRecord] /\ copy'[w] \in {copy[w], NoRecord}
        /\ guard[w] = "beat" => copy'[w] = copy[w]
        /\ \A v \in Job \ {w} : copy'[v] = copy[v]
    BY <1>1, <2>3, Records DEF WorkersTyped
  <2>9. UNCHANGED <<held, beat>> /\ held \in [Job -> Build] /\ beat \in [Job -> BOOLEAN]
    BY <1>1, <2>3 DEF WorkersTyped
  <2>10. WorkersTyped'
    BY <2>4, <2>5, <2>6, <2>7, <2>8, <2>9 DEF WorkersTyped
  <2>11. OthersStay(w)
    BY <2>4, <2>5, <2>6, <2>7, <2>8, <2>9 DEF OthersStay
  <2>12. /\ wpc'[w] \in {"stopping", "closing", "failing"}
         /\ wpc'[w] = "closing" => pending'[w] = "cancelled"
    BY <2>2, <2>4, <2>5
  <2>13. wpc'[w] \in {"closing", "failing"} => unwind[w] = "handler"
    BY <2>1, <2>2, <2>4
  <2> QED BY <2>7, <2>8, <2>9, <2>10, <2>11, <2>12, <2>13
<1> QED BY <1>2, <1>3 DEF Unwind

\* SIGTERM interrupts a worker.
LEMMA Signals ==
    ASSUME TypeOK, NEW w \in Job, Signalled(w), Alive(w), UNCHANGED <<held, pending, beat, guard, copy>>
    PROVE  /\ WorkersTyped' /\ OthersStay(w)
           /\ wpc'[w] = "signalled" /\ unwind'[w] = "handler" => MayEngage(w)
           /\ wpc'[w] = "signalled"
<1>1. WorkersTyped
  BY DEF TypeOK, WorkersTyped, Pending, Unwinds, Guards
<1>2. Escape(w) \in Unwinds /\ (Escape(w) = "handler" => MayEngage(w))
  BY <1>1 DEF Escape, Unwinds, WorkersTyped, MayEngage, Engaged
<1>3. /\ wpc' \in [Job -> WorkerPC] /\ wpc'[w] = "signalled"
      /\ \A v \in Job \ {w} : wpc'[v] = wpc[v]
  BY <1>1 DEF Signalled, WorkerAt, WorkersTyped, WorkerPC
<1>4. /\ unwind' \in [Job -> Unwinds] /\ unwind'[w] = Escape(w)
      /\ \A v \in Job \ {w} : unwind'[v] = unwind[v]
  BY <1>1, <1>2 DEF Signalled, WorkersTyped
<1> QED BY <1>1, <1>2, <1>3, <1>4 DEF WorkersTyped, OthersStay

-----------------------------------------------------------------------------
(* The steps of a worker *)

\* What any step of a worker, its heartbeat or its end does at most.
SwapMove(w) ==
    \/ UNCHANGED builder
    \/ /\ builder.version = held[w].version /\ held[w].status \in {"running", "failed"}
       /\ builder' \in Build /\ builder'.version = builder.version + 1

SyncMove(w) ==
    \/ UNCHANGED task
    \/ task.version <= held[w].version /\ task' = TaskOf(held[w])

RecordMove(w) ==
    \/ UNCHANGED job
    \/ guard[w] # "free" /\ job' = copy[w] /\ (MayEngage(w)' => copy[w].status \in Active)

HeldMove(w) ==
    \/ held'[w] \in {held[w], NoBuild, builder'}
    \/ job.status = "starting" /\ held'[w] = [version |-> job.expected, status |-> "running"]

CopyMove(w) ==
    \/ copy'[w] \in {copy[w], NoRecord}
    \/ copy'[w] = Merged(w)
    \/ \E fresh \in BOOLEAN : copy'[w] = [job EXCEPT !.fresh = fresh]

Moves(w) ==
    /\ wpc[w] # "none"
    /\ WorkersTyped' /\ OthersStay(w)
    /\ UNCHANGED <<launched, host, commands>>
    /\ SwapMove(w) /\ SyncMove(w) /\ RecordMove(w) /\ HeldMove(w) /\ CopyMove(w)
    /\ MayEngage(w)' => MayEngage(w)
    /\ wpc'[w] # "none"
    /\ Knows(w)' /\ CopyOpen(w)'

LEMMA WorkersTypedNow == ASSUME TypeOK PROVE WorkersTyped
  BY DEF TypeOK, WorkersTyped, Pending, Unwinds, Guards

\* The process ends.
LEMMA ExitMoves ==
    ASSUME TypeOK, NEW w \in Job, wpc[w] # "none", Exit(w), UNCHANGED <<disk, host, commands>>
    PROVE  Moves(w)
<1>1. /\ WorkersTyped' /\ OthersStay(w)
      /\ wpc'[w] = "gone" /\ held'[w] = NoBuild /\ ~beat'[w] /\ guard'[w] = "free"
      /\ copy'[w] = NoRecord
  BY Exits
<1>2. ~MayEngage(w)' /\ Knows(w)' /\ CopyOpen(w)'
  BY <1>1 DEF MayEngage, Engaged, Knows, CopyOpen, Keeps
<1> QED BY <1>1, <1>2 DEF Moves, SwapMove, SyncMove, RecordMove, HeldMove, CopyMove, disk

\* A step of the main thread that only goes on, with what it has read and what
\* it is to write.
Goes(w, label) ==
    /\ wpc' = [wpc EXCEPT ![w] = label]
    /\ held' = [held EXCEPT ![w] = held'[w]] /\ held'[w] \in Build
    /\ pending' = [pending EXCEPT ![w] = pending'[w]] /\ pending'[w] \in Pending
    /\ UNCHANGED <<unwind, beat, guard, copy, job, launched, host, commands>>

LEMMA GoesOn ==
    ASSUME TypeOK, NEW w \in Job, NEW label \in WorkerPC, Goes(w, label)
    PROVE  WorkersTyped' /\ OthersStay(w) /\ wpc'[w] = label
<1>1. WorkersTyped
  BY WorkersTypedNow
<1>2. /\ wpc' \in [Job -> WorkerPC] /\ wpc'[w] = label
      /\ \A v \in Job \ {w} : wpc'[v] = wpc[v]
  BY <1>1 DEF WorkersTyped, Goes
<1>3. held' \in [Job -> Build] /\ \A v \in Job \ {w} : held'[v] = held[v]
  <2> DEFINE b == held'[w]
  <2>1. held' = [held EXCEPT ![w] = b] /\ b \in Build
    BY DEF Goes
  <2> HIDE DEF b
  <2> QED BY <1>1, <2>1 DEF WorkersTyped
<1>4. pending' \in [Job -> Pending] /\ \A v \in Job \ {w} : pending'[v] = pending[v]
  <2> DEFINE s == pending'[w]
  <2>1. pending' = [pending EXCEPT ![w] = s] /\ s \in Pending
    BY DEF Goes
  <2> HIDE DEF s
  <2> QED BY <1>1, <2>1 DEF WorkersTyped
<1> QED BY <1>1, <1>2, <1>3, <1>4 DEF WorkersTyped, OthersStay, Goes

\* Such a step is a move when its places fit.
LEMMA GoingMoves ==
    ASSUME TypeOK, NEW w \in Job, NEW label \in WorkerPC \ {"none", "gone", "spawned", "starting"},
           CopyOpen(w), Goes(w, label), wpc[w] \notin {"none", "gone"}, SwapMove(w), SyncMove(w),
           held'[w] \in {held[w], builder'},
           guard[w] = "main" => label \in {"closing", "signalled", "cancelling"},
           label \in {"leasing", "driving", "cancelling"} => held'[w].status = "running",
           label = "backoff" => held'[w].status = "failed",
           label = "closing" => pending'[w] # "running",
           \/ label \in {"rereading", "resyncing", "stopping"}
           \/ label \in {"signalled", "cancelling"} /\ wpc[w] \in {"signalled", "cancelling"}
           \/ label \notin {"signalled", "cancelling"} /\ MayEngage(w)
    PROVE  Moves(w)
<1>1. WorkersTyped' /\ OthersStay(w) /\ wpc'[w] = label
  BY GoesOn
<1>2. UNCHANGED <<unwind, beat, guard, copy, job, launched, host, commands>>
  BY DEF Goes
<1>3. MayEngage(w)' => MayEngage(w)
  BY <1>1, <1>2 DEF MayEngage, Engaged
<1>4. Knows(w)'
  BY <1>1 DEF Knows
<1>5. CopyOpen(w)'
  BY <1>1, <1>2, <1>3 DEF CopyOpen, Keeps
<1> QED BY <1>1, <1>2, <1>3, <1>4, <1>5 DEF Moves, RecordMove, HeldMove, CopyMove

\* The steps of the main thread that touch neither its record nor its copy.
LEMMA MainGoes ==
    ASSUME TypeOK, NEW w \in Job, Knows(w), CopyOpen(w),
           Lease(w) \/ Drive(w) \/ Conflict(w) \/ Raise(w) \/ Backoff(w) \/ Report(w)
             \/ Finish(w) \/ FailPhase(w) \/ Reread(w) \/ Resync(w)
    PROVE  Moves(w)
<1>1. WorkersTyped /\ builder \in Build
  BY WorkersTypedNow DEF TypeOK
<1>2. /\ wpc = [wpc EXCEPT ![w] = wpc[w]] /\ held = [held EXCEPT ![w] = held[w]]
      /\ pending = [pending EXCEPT ![w] = pending[w]]
      /\ held[w] \in Build /\ pending[w] \in Pending
  BY <1>1 DEF WorkersTyped
<1>3. CASE Lease(w)
  <2>1. /\ wpc[w] = "leasing" /\ wpc' = [wpc EXCEPT ![w] = "driving"]
        /\ beat' = [beat EXCEPT ![w] = TRUE]
        /\ UNCHANGED <<disk, held, pending, unwind, guard, copy, host, bounds>>
    BY <1>3 DEF Lease, WorkerAt
  <2>2. /\ wpc' \in [Job -> WorkerPC] /\ wpc'[w] = "driving"
        /\ \A v \in Job \ {w} : wpc'[v] = wpc[v]
    BY <1>1, <2>1 DEF WorkersTyped, WorkerPC
  <2>3. beat' \in [Job -> BOOLEAN] /\ \A v \in Job \ {w} : beat'[v] = beat[v]
    BY <1>1, <2>1 DEF WorkersTyped
  <2>4. WorkersTyped' /\ OthersStay(w)
    BY <1>1, <2>1, <2>2, <2>3 DEF WorkersTyped, OthersStay
  <2>5. (MayEngage(w)' => MayEngage(w)) /\ Knows(w)'
    BY <2>1, <2>2 DEF MayEngage, Engaged, Knows
  <2>6. CopyOpen(w)'
    BY <2>1, <2>2 DEF CopyOpen, Keeps, MayEngage, Engaged
  <2> QED
    BY <2>1, <2>2, <2>4, <2>5, <2>6
    DEF Moves, SwapMove, SyncMove, RecordMove, HeldMove, CopyMove, disk, bounds
<1>4. CASE Drive(w)
  <2>1. PICK status \in {"running", "review", "ready", "failed"}, label \in {"driving", "reporting", "backoff"} :
          /\ Update(status)
          /\ label = "driving" => status = "running"
          /\ label = "backoff" => status = "failed"
          /\ wpc' = [wpc EXCEPT ![w] = label]
    BY <1>4 DEF Drive, WorkerAt
  <2>2. /\ wpc[w] = "driving" /\ builder.version = held[w].version
        /\ held' = [held EXCEPT ![w] = builder']
        /\ UNCHANGED <<task, job, launched, pending, unwind, beat, guard, copy, host, bounds>>
    BY <1>4 DEF Drive, Current
  <2>3. /\ builder' \in Build /\ builder'.version = builder.version + 1 /\ builder'.status = status
    BY <2>1, Updated DEF Status, TaskStatus
  <2>4. held'[w] = builder' /\ held' = [held EXCEPT ![w] = held'[w]]
    BY <1>1, <2>2 DEF WorkersTyped
  <2>5. Goes(w, label) /\ SwapMove(w) /\ SyncMove(w)
    BY <1>2, <2>1, <2>2, <2>3, <2>4 DEF Goes, SwapMove, SyncMove, bounds, Knows
  <2>6. label \in WorkerPC \ {"none", "gone", "spawned", "starting"} /\ MayEngage(w)
    BY <2>2 DEF WorkerPC, MayEngage, Engaged
  <2>7. guard[w] # "main"
    BY <2>2 DEF CopyOpen
  <2> QED BY <2>1, <2>2, <2>3, <2>4, <2>5, <2>6, <2>7, GoingMoves
<1>5. CASE Conflict(w)
  <2>1. PICK label \in {"driving", "reporting", "failing"} :
          /\ wpc' = [wpc EXCEPT ![w] = label]
          /\ \/ label = "failing" /\ held' = held
             \/ held' = [held EXCEPT ![w] = builder] /\ (label = "driving" => builder.status = "running")
    BY <1>5 DEF Conflict, WorkerAt
  <2>2. /\ wpc[w] = "driving" /\ UNCHANGED <<disk, pending, unwind, beat, guard, copy, host, bounds>>
    BY <1>5 DEF Conflict
  <2>3. /\ held'[w] \in {held[w], builder} /\ held' = [held EXCEPT ![w] = held'[w]]
        /\ label = "driving" => held'[w].status = "running"
    BY <1>1, <2>1 DEF WorkersTyped
  <2>4. Goes(w, label) /\ SwapMove(w) /\ SyncMove(w)
    BY <1>1, <1>2, <2>1, <2>2, <2>3 DEF Goes, SwapMove, SyncMove, bounds, disk
  <2>5. label \in WorkerPC \ {"none", "gone", "spawned", "starting"} /\ MayEngage(w)
    BY <2>2 DEF WorkerPC, MayEngage, Engaged
  <2>6. guard[w] # "main"
    BY <2>2 DEF CopyOpen
  <2> QED BY <2>1, <2>2, <2>3, <2>4, <2>5, <2>6, GoingMoves DEF disk
<1>6. CASE Raise(w)
  <2>1. /\ wpc[w] = "driving" /\ wpc' = [wpc EXCEPT ![w] = "failing"]
        /\ UNCHANGED <<disk, held, pending, unwind, beat, guard, copy, host, bounds>>
    BY <1>6 DEF Raise, WorkerAt
  <2>2. Goes(w, "failing") /\ SwapMove(w) /\ SyncMove(w)
    BY <1>2, <2>1 DEF Goes, SwapMove, SyncMove, bounds, disk
  <2>3. "failing" \in WorkerPC \ {"none", "gone", "spawned", "starting"} /\ MayEngage(w)
    BY <2>1 DEF WorkerPC, MayEngage, Engaged
  <2>4. guard[w] # "main"
    BY <2>1 DEF CopyOpen
  <2> QED BY <2>1, <2>2, <2>3, <2>4, GoingMoves
<1>7. CASE Backoff(w)
  <2>1. /\ wpc[w] = "backoff"
        /\ UNCHANGED <<task, job, launched, pending, unwind, beat, guard, copy, host, bounds>>
    BY <1>7 DEF Backoff
  <2>2. MayEngage(w) /\ guard[w] # "main"
    BY <2>1 DEF MayEngage, Engaged, CopyOpen
  <2>3. {"driving", "failing"} \subseteq WorkerPC \ {"none", "gone", "spawned", "starting"}
    BY DEF WorkerPC
  <2>4. CASE Current(held[w])
    <3>1. /\ builder.version = held[w].version /\ Update("running")
          /\ held' = [held EXCEPT ![w] = builder'] /\ wpc' = [wpc EXCEPT ![w] = "driving"]
      BY <1>7, <2>4 DEF Backoff, Current, WorkerAt
    <3>2. builder' \in Build /\ builder'.version = builder.version + 1 /\ builder'.status = "running"
      BY <3>1, Updated DEF Status, TaskStatus
    <3>3. held'[w] = builder' /\ held' = [held EXCEPT ![w] = held'[w]]
      BY <1>1, <3>1 DEF WorkersTyped
    <3>4. Goes(w, "driving") /\ SwapMove(w) /\ SyncMove(w)
      BY <1>2, <2>1, <3>1, <3>2, <3>3 DEF Goes, SwapMove, SyncMove, bounds, Knows
    <3> QED BY <2>1, <2>2, <2>3, <3>2, <3>3, <3>4, GoingMoves
  <2>5. CASE ~Current(held[w])
    <3>1. wpc' = [wpc EXCEPT ![w] = "failing"] /\ UNCHANGED <<builder, held>>
      BY <1>7, <2>5 DEF Backoff, WorkerAt
    <3>2. Goes(w, "failing") /\ SwapMove(w) /\ SyncMove(w)
      BY <1>2, <2>1, <3>1 DEF Goes, SwapMove, SyncMove, bounds
    <3> QED BY <2>1, <2>2, <2>3, <3>1, <3>2, GoingMoves
  <2> QED BY <2>4, <2>5
<1>8. CASE Report(w)
  <2>1. /\ wpc[w] = "reporting" /\ wpc' = [wpc EXCEPT ![w] = "syncing"]
        /\ UNCHANGED <<disk, held, pending, unwind, beat, guard, copy, host, bounds>>
    BY <1>8 DEF Report, WorkerAt
  <2>2. Goes(w, "syncing") /\ SwapMove(w) /\ SyncMove(w)
    BY <1>2, <2>1 DEF Goes, SwapMove, SyncMove, bounds, disk
  <2>3. "syncing" \in WorkerPC \ {"none", "gone", "spawned", "starting"} /\ MayEngage(w)
    BY <2>1 DEF WorkerPC, MayEngage, Engaged
  <2>4. guard[w] # "main"
    BY <2>1 DEF CopyOpen
  <2> QED BY <2>1, <2>2, <2>3, <2>4, GoingMoves
<1>9. CASE Finish(w)
  <2>1. /\ wpc[w] = "syncing"
        /\ UNCHANGED <<builder, job, launched, held, unwind, beat, guard, copy, host, bounds>>
    BY <1>9 DEF Finish
  <2>2. MayEngage(w) /\ guard[w] # "main"
    BY <2>1 DEF MayEngage, Engaged, CopyOpen
  <2>3. {"closing", "failing"} \subseteq WorkerPC \ {"none", "gone", "spawned", "starting"}
    BY DEF WorkerPC
  <2>4. CASE Newer(held[w])
    <3>1. wpc' = [wpc EXCEPT ![w] = "failing"] /\ UNCHANGED <<task, pending>>
      BY <1>9, <2>4 DEF Finish, WorkerAt
    <3>2. Goes(w, "failing") /\ SwapMove(w) /\ SyncMove(w)
      BY <1>2, <2>1, <3>1 DEF Goes, SwapMove, SyncMove, bounds
    <3> QED BY <2>1, <2>2, <2>3, <3>1, <3>2, GoingMoves
  <2>5. CASE ~Newer(held[w])
    <3>1. /\ task' = TaskOf(held[w]) /\ pending' = [pending EXCEPT ![w] = "completed"]
          /\ wpc' = [wpc EXCEPT ![w] = "closing"]
      BY <1>9, <2>5 DEF Finish, WorkerAt
    <3>2. task.version <= held[w].version
      BY <1>2, <2>5, Records DEF Newer, TypeOK
    <3>3. /\ pending'[w] = "completed" /\ pending' = [pending EXCEPT ![w] = pending'[w]]
          /\ pending'[w] \in Pending
      BY <1>1, <3>1 DEF WorkersTyped, Pending
    <3>4. Goes(w, "closing") /\ SwapMove(w) /\ SyncMove(w)
      BY <1>2, <2>1, <3>1, <3>2, <3>3 DEF Goes, SwapMove, SyncMove, bounds
    <3> QED BY <2>1, <2>2, <2>3, <3>3, <3>4, GoingMoves
  <2> QED BY <2>4, <2>5
<1>10. CASE FailPhase(w)
  <2>1. /\ wpc[w] = "failing" /\ wpc' = [wpc EXCEPT ![w] = "closing"]
        /\ held' = [held EXCEPT ![w] = builder] /\ pending' = [pending EXCEPT ![w] = "failed"]
        /\ UNCHANGED <<disk, unwind, beat, guard, copy, host, bounds>>
    BY <1>10 DEF FailPhase, WorkerAt
  <2>2. /\ held'[w] = builder /\ held' = [held EXCEPT ![w] = held'[w]]
        /\ pending'[w] = "failed" /\ pending' = [pending EXCEPT ![w] = pending'[w]]
        /\ pending'[w] \in Pending
    BY <1>1, <2>1 DEF WorkersTyped, Pending
  <2>3. Goes(w, "closing") /\ SwapMove(w) /\ SyncMove(w)
    BY <1>1, <1>2, <2>1, <2>2 DEF Goes, SwapMove, SyncMove, bounds, disk
  <2>4. "closing" \in WorkerPC \ {"none", "gone", "spawned", "starting"} /\ MayEngage(w)
    BY <2>1 DEF WorkerPC, MayEngage, Engaged
  <2> QED BY <2>1, <2>2, <2>3, <2>4, GoingMoves DEF disk
<1>11. CASE Reread(w)
  <2>1. /\ wpc[w] = "rereading" /\ wpc' = [wpc EXCEPT ![w] = "resyncing"]
        /\ held' = [held EXCEPT ![w] = builder]
        /\ UNCHANGED <<disk, pending, unwind, beat, guard, copy, host, bounds>>
    BY <1>11 DEF Reread, WorkerAt
  <2>2. held'[w] = builder /\ held' = [held EXCEPT ![w] = held'[w]]
    BY <1>1, <2>1 DEF WorkersTyped
  <2>3. Goes(w, "resyncing") /\ SwapMove(w) /\ SyncMove(w)
    BY <1>1, <1>2, <2>1, <2>2 DEF Goes, SwapMove, SyncMove, bounds, disk
  <2>4. "resyncing" \in WorkerPC \ {"none", "gone", "spawned", "starting"} /\ guard[w] # "main"
    BY <2>1 DEF WorkerPC, CopyOpen
  <2> QED BY <2>1, <2>2, <2>3, <2>4, GoingMoves DEF disk
<1>12. CASE Resync(w)
  <2>1. /\ wpc[w] = "resyncing" /\ wpc' = [wpc EXCEPT ![w] = "stopping"]
        /\ task' = IF Newer(held[w]) THEN task ELSE TaskOf(held[w])
        /\ UNCHANGED <<builder, job, launched, held, pending, unwind, beat, guard, copy, host, bounds>>
    BY <1>12 DEF Resync, WorkerAt
  <2>2. SyncMove(w)
    BY <1>2, <2>1, Records DEF Newer, TypeOK, SyncMove
  <2>3. Goes(w, "stopping") /\ SwapMove(w)
    BY <1>2, <2>1 DEF Goes, SwapMove, bounds
  <2>4. "stopping" \in WorkerPC \ {"none", "gone", "spawned", "starting"} /\ guard[w] # "main"
    BY <2>1 DEF WorkerPC, CopyOpen
  <2> QED BY <2>1, <2>2, <2>3, <2>4, GoingMoves
<1> QED BY <1>3, <1>4, <1>5, <1>6, <1>7, <1>8, <1>9, <1>10, <1>11, <1>12

\* A worker finds its record, or leaves.
LEMMA IdentifyMoves ==
    ASSUME TypeOK, NEW w \in Job, Knows(w), CopyOpen(w), Identify(w)
    PROVE  Moves(w)
<1>1. WorkersTyped /\ job.expected \in Nat /\ "running" \in Status
  BY WorkersTypedNow, Records DEF TypeOK, Status, TaskStatus
<1>2. wpc[w] = "spawned" /\ UNCHANGED <<disk, host, bounds>>
  BY DEF Identify
<1>3. CASE Exit(w)
  BY <1>2, <1>3, ExitMoves DEF bounds
<1>4. CASE ~Exit(w)
  <2> DEFINE b == [version |-> job.expected, status |-> "running"]
  <2>1. /\ job.status = "starting" /\ wpc' = [wpc EXCEPT ![w] = "starting"]
        /\ held' = [held EXCEPT ![w] = b] /\ b \in Build
        /\ UNCHANGED <<pending, unwind, beat, guard, copy>>
    BY <1>1, <1>4, Records DEF Identify, WorkerAt
  <2>2. held'[w] = b /\ b.status = "running"
    BY <1>1, <2>1 DEF WorkersTyped
  <2>3. Goes(w, "starting") /\ "starting" \in WorkerPC
    <3>1. held' = [held EXCEPT ![w] = held'[w]] /\ held'[w] \in Build
      BY <2>1, <2>2
    <3>2. pending' = [pending EXCEPT ![w] = pending'[w]] /\ pending'[w] \in Pending
      BY <1>1, <2>1 DEF WorkersTyped
    <3> QED BY <1>2, <2>1, <3>1, <3>2 DEF Goes, disk, bounds, WorkerPC
  <2>4. WorkersTyped' /\ OthersStay(w) /\ wpc'[w] = "starting"
    BY <2>3, GoesOn
  <2>5. Knows(w)' /\ (MayEngage(w)' => MayEngage(w))
    BY <1>2, <2>1, <2>2, <2>4 DEF Knows, MayEngage, Engaged
  <2>6. guard[w] # "main" /\ MayEngage(w)
    BY <1>2 DEF CopyOpen, MayEngage, Engaged
  <2>7. CopyOpen(w)'
    BY <2>1, <2>4, <2>6 DEF CopyOpen, Keeps
  <2>8. SwapMove(w) /\ SyncMove(w) /\ RecordMove(w) /\ HeldMove(w) /\ CopyMove(w)
    BY <1>2, <2>1, <2>2 DEF SwapMove, SyncMove, RecordMove, HeldMove, CopyMove, disk
  <2> QED BY <1>2, <2>4, <2>5, <2>7, <2>8 DEF Moves, disk, bounds
<1> QED BY <1>3, <1>4

\* The main thread reads the record and prepares the next one.
LEMMA MainReadMoves ==
    ASSUME TypeOK, NEW w \in Job, Knows(w), CopyOpen(w), Unclosed(job), MainRead(w)
    PROVE  Moves(w)
<1>1. WorkersTyped
  BY WorkersTypedNow
<1>2. /\ wpc[w] \in {"starting", "closing"} /\ guard[w] = "free"
      /\ UNCHANGED <<disk, host, bounds>> /\ MayEngage(w)
  BY DEF MainRead, MayEngage, Engaged
<1>3. CASE wpc[w] = "starting" /\ Exit(w)
  BY <1>3, <1>2, ExitMoves DEF bounds
<1>4. CASE /\ job.id = w /\ copy' = [copy EXCEPT ![w] = Merged(w)]
           /\ guard' = [guard EXCEPT ![w] = "main"]
           /\ UNCHANGED <<wpc, held, pending, unwind, beat>>
  <2>1. /\ Merged(w) \in JobRecord /\ Merged(w).id = w /\ Merged(w).status = pending[w]
    BY <1>4, MergedRecords
  <2>2. copy' \in [Job -> JobRecord] /\ copy'[w] = Merged(w) /\ \A v \in Job \ {w} : copy'[v] = copy[v]
    <3> DEFINE record == Merged(w)
    <3>1. copy' = [copy EXCEPT ![w] = record] /\ record \in JobRecord
      BY <1>4, <2>1
    <3> HIDE DEF record
    <3>2. copy' \in [Job -> JobRecord] /\ copy'[w] = record /\ \A v \in Job \ {w} : copy'[v] = copy[v]
      BY <1>1, <3>1 DEF WorkersTyped
    <3> QED BY <3>2 DEF record
  <2>3. /\ guard' \in [Job -> Guards] /\ guard'[w] = "main"
        /\ \A v \in Job \ {w} : guard'[v] = guard[v]
    BY <1>1, <1>4 DEF WorkersTyped, Guards
  <2>4. WorkersTyped' /\ OthersStay(w)
    BY <1>1, <1>4, <2>2, <2>3 DEF WorkersTyped, OthersStay
  <2>5. Knows(w)' /\ (MayEngage(w)' => MayEngage(w))
    BY <1>4 DEF Knows, MayEngage, Engaged
  <2>6. wpc[w] = "starting" => Merged(w).status \in Active
    BY <2>1 DEF Knows, Active
  <2>7. CopyOpen(w)'
    BY <1>2, <1>4, <2>1, <2>2, <2>3, <2>6 DEF CopyOpen, Keeps
  <2>8. SwapMove(w) /\ SyncMove(w) /\ RecordMove(w) /\ HeldMove(w) /\ CopyMove(w)
    BY <1>2, <1>4, <2>2 DEF SwapMove, SyncMove, RecordMove, HeldMove, CopyMove, disk
  <2> QED BY <1>2, <1>4, <2>4, <2>5, <2>7, <2>8 DEF Moves, disk, bounds
<1>5. CASE /\ wpc[w] = "closing"
           /\ WorkerAt(w, IF pending[w] = "completed" THEN "failing" ELSE "stopping")
           /\ UNCHANGED <<held, pending, unwind, beat, guard, copy>>
  <2>1. PICK label \in {"failing", "stopping"} : wpc' = [wpc EXCEPT ![w] = label]
    BY <1>5 DEF WorkerAt
  <2>2. /\ held = [held EXCEPT ![w] = held[w]] /\ held[w] \in Build
        /\ pending = [pending EXCEPT ![w] = pending[w]] /\ pending[w] \in Pending
    BY <1>1 DEF WorkersTyped
  <2>3. Goes(w, label) /\ SwapMove(w) /\ SyncMove(w)
    BY <1>2, <1>5, <2>1, <2>2 DEF Goes, SwapMove, SyncMove, bounds, disk
  <2>4. label \in WorkerPC \ {"none", "gone", "spawned", "starting"}
    BY DEF WorkerPC
  <2> QED BY <1>2, <1>5, <2>3, <2>4, GoingMoves
<1> QED BY <1>3, <1>4, <1>5 DEF MainRead

\* It replaces the record; a closed one only where its phase is closed.
LEMMA MainWriteMoves ==
    ASSUME TypeOK, NEW w \in Job, Knows(w), CopyOpen(w), MainWrite(w)
    PROVE  Moves(w)
<1>1. WorkersTyped
  BY WorkersTypedNow
<1>2. PICK label \in {"leasing", "stopping", "rereading"} :
        /\ wpc' = [wpc EXCEPT ![w] = label]
        /\ label = "leasing" => pending[w] = "running"
  BY DEF MainWrite, WorkerAt
<1>3. /\ wpc[w] \in {"starting", "closing"} /\ guard[w] = "main" /\ job' = copy[w]
      /\ copy' = [copy EXCEPT ![w] = NoRecord] /\ guard' = [guard EXCEPT ![w] = "free"]
      /\ UNCHANGED <<builder, task, launched, held, pending, unwind, beat, host, bounds>>
  BY DEF MainWrite
<1>4. /\ wpc' \in [Job -> WorkerPC] /\ wpc'[w] = label
      /\ \A v \in Job \ {w} : wpc'[v] = wpc[v]
  BY <1>1, <1>2 DEF WorkersTyped, WorkerPC
<1>5. /\ copy' \in [Job -> JobRecord] /\ copy'[w] = NoRecord
      /\ \A v \in Job \ {w} : copy'[v] = copy[v]
  BY <1>1, <1>3, Records DEF WorkersTyped
<1>6. /\ guard' \in [Job -> Guards] /\ guard'[w] = "free"
      /\ \A v \in Job \ {w} : guard'[v] = guard[v]
  BY <1>1, <1>3 DEF WorkersTyped, Guards
<1>7. WorkersTyped' /\ OthersStay(w)
  BY <1>1, <1>3, <1>4, <1>5, <1>6 DEF WorkersTyped, OthersStay
<1>8. label = "leasing" => wpc[w] = "starting"
  BY <1>2, <1>3 DEF Knows
<1>9. MayEngage(w) /\ (MayEngage(w)' => label = "leasing")
  BY <1>3, <1>4 DEF MayEngage, Engaged
<1>10. RecordMove(w)
  BY <1>3, <1>8, <1>9 DEF RecordMove, CopyOpen, Keeps
<1>11. Knows(w)' /\ CopyOpen(w)'
  BY <1>3, <1>4, <1>6, <1>8 DEF Knows, CopyOpen, Keeps
<1> QED
  BY <1>3, <1>4, <1>5, <1>7, <1>9, <1>10, <1>11
  DEF Moves, SwapMove, SyncMove, HeldMove, CopyMove, bounds

\* The signal handler.
LEMMA HandlerMoves ==
    ASSUME TypeOK, NEW w \in Job, Knows(w), CopyOpen(w), HandleSignal(w) \/ CancelBuild(w)
    PROVE  Moves(w)
<1>1. WorkersTyped /\ builder \in Build /\ wpc[w] \in {"signalled", "cancelling"}
  BY WorkersTypedNow DEF TypeOK, HandleSignal, CancelBuild
<1>2. ASSUME NEW status \in {"cancelled", "failed"}, Unwind(w, status), SwapMove(w),
             UNCHANGED <<task, job, launched, host, bounds>>
      PROVE  Moves(w)
  <2>1. /\ WorkersTyped' /\ OthersStay(w)
        /\ wpc'[w] \in {"stopping", "closing", "failing", "gone"}
        /\ wpc'[w] = "closing" => pending'[w] = "cancelled"
        /\ wpc'[w] \in {"closing", "failing"} => unwind[w] = "handler"
        /\ wpc'[w] = "gone" => guard'[w] = "free" /\ ~beat'[w]
        /\ held'[w] \in {held[w], NoBuild}
        /\ guard'[w] # "main"
        /\ guard'[w] = "beat" => guard[w] = "beat" /\ copy'[w] = copy[w]
        /\ copy'[w] \in {copy[w], NoRecord}
    BY <1>2, Unwinds_
  <2>2. MayEngage(w)' => MayEngage(w)
    BY <1>1, <2>1 DEF MayEngage, Engaged
  <2>3. Knows(w)'
    BY <2>1 DEF Knows
  <2>4. guard'[w] \in Guards
    BY <2>1 DEF WorkersTyped
  <2>5. CopyOpen(w)'
    BY <2>1, <2>2, <2>4 DEF CopyOpen, Keeps, Guards
  <2>6. SyncMove(w) /\ RecordMove(w) /\ HeldMove(w) /\ CopyMove(w)
    BY <1>2, <2>1 DEF SyncMove, RecordMove, HeldMove, CopyMove
  <2> QED BY <1>1, <1>2, <2>1, <2>2, <2>3, <2>5, <2>6 DEF Moves, bounds
<1>3. CASE HandleSignal(w) /\ builder.status # "running"
  <2>1. Unwind(w, "cancelled") /\ UNCHANGED <<disk, host, bounds>>
    BY <1>3 DEF HandleSignal
  <2> QED BY <1>2, <2>1 DEF disk, SwapMove
<1>4. CASE HandleSignal(w) /\ builder.status = "running"
  <2>1. /\ wpc[w] = "signalled" /\ wpc' = [wpc EXCEPT ![w] = "cancelling"]
        /\ held' = [held EXCEPT ![w] = builder]
        /\ UNCHANGED <<pending, unwind, beat, guard, copy>> /\ UNCHANGED <<disk, host, bounds>>
    BY <1>4 DEF HandleSignal, WorkerAt
  <2>2. /\ held'[w] = builder /\ held' = [held EXCEPT ![w] = held'[w]]
        /\ pending = [pending EXCEPT ![w] = pending[w]] /\ pending[w] \in Pending
    BY <1>1, <2>1 DEF WorkersTyped
  <2>3. Goes(w, "cancelling") /\ SwapMove(w) /\ SyncMove(w)
    BY <1>1, <2>1, <2>2 DEF Goes, SwapMove, SyncMove, bounds, disk
  <2>4. "cancelling" \in WorkerPC \ {"none", "gone", "spawned", "starting"}
    BY DEF WorkerPC
  <2> QED BY <1>1, <1>4, <2>1, <2>2, <2>3, <2>4, GoingMoves DEF disk
<1>5. CASE CancelBuild(w) /\ Current(held[w])
  <2>1. /\ wpc[w] = "cancelling" /\ Update("cancelled") /\ Unwind(w, "cancelled")
        /\ UNCHANGED <<task, job, launched, host, bounds>>
    BY <1>5 DEF CancelBuild
  <2>2. SwapMove(w)
    BY <1>5, <2>1, Updated DEF SwapMove, Knows, Current, Status, TaskStatus
  <2> QED BY <1>2, <2>1, <2>2
<1>6. CASE CancelBuild(w) /\ ~Current(held[w])
  <2>1. /\ UNCHANGED builder /\ Unwind(w, "failed")
        /\ UNCHANGED <<task, job, launched, host, bounds>>
    BY <1>6 DEF CancelBuild
  <2> QED BY <1>2, <2>1 DEF SwapMove
<1> QED BY <1>3, <1>4, <1>5, <1>6

\* The heartbeat thread.
LEMMA BeatMoves ==
    ASSUME TypeOK, NEW w \in Job, Knows(w), CopyOpen(w), Unclosed(job), Heartbeat(w)
    PROVE  Moves(w)
<1>1. WorkersTyped /\ wpc[w] \notin {"none", "gone"}
  BY WorkersTypedNow DEF Heartbeat, BeatRead, BeatWrite, CopyOpen
<1>2. ASSUME UNCHANGED <<wpc, held, pending, unwind>>
      PROVE  Knows(w)' /\ (MayEngage(w)' <=> MayEngage(w))
  BY <1>2 DEF Knows, MayEngage, Engaged
<1>3. CASE BeatRead(w) /\ job.id = w
  <2> DEFINE fresh == job.status \in Active
             record == [job EXCEPT !.fresh = fresh]
  <2>1. /\ guard[w] = "free" /\ copy' = [copy EXCEPT ![w] = record]
        /\ guard' = [guard EXCEPT ![w] = "beat"]
        /\ UNCHANGED <<disk, wpc, held, pending, unwind, host, bounds, beat>>
    BY <1>3 DEF BeatRead
  <2>2. fresh \in BOOLEAN /\ record \in JobRecord /\ record.id = w /\ record.status = job.status
    <3>1. fresh \in BOOLEAN
      OBVIOUS
    <3>2. record \in JobRecord
      BY <3>1, MergedRecords
    <3>3. record.id = w /\ record.status = job.status
      BY <1>3 DEF TypeOK, JobRecord
    <3> QED BY <3>1, <3>2, <3>3
  <2> HIDE DEF record
  <2>3. /\ copy' \in [Job -> JobRecord] /\ copy'[w] = record
        /\ \A v \in Job \ {w} : copy'[v] = copy[v]
    BY <1>1, <2>1, <2>2 DEF WorkersTyped
  <2>4. /\ guard' \in [Job -> Guards] /\ guard'[w] = "beat"
        /\ \A v \in Job \ {w} : guard'[v] = guard[v]
    BY <1>1, <2>1 DEF WorkersTyped, Guards
  <2>5. WorkersTyped' /\ OthersStay(w)
    BY <1>1, <2>1, <2>3, <2>4 DEF WorkersTyped, OthersStay
  <2>6. MayEngage(w) => record.status \in Active
    BY <1>3, <2>2 DEF Unclosed
  <2>7. CopyOpen(w)'
    BY <1>1, <1>2, <2>1, <2>2, <2>3, <2>4, <2>6 DEF CopyOpen, Keeps
  <2>8. CopyMove(w)
    BY <2>2, <2>3 DEF CopyMove, record
  <2> QED
    BY <1>1, <1>2, <2>1, <2>5, <2>7, <2>8
    DEF Moves, SwapMove, SyncMove, RecordMove, HeldMove, disk, bounds
<1>4. CASE BeatRead(w) /\ job.id # w
  <2>1. /\ beat' = [beat EXCEPT ![w] = FALSE] /\ UNCHANGED <<copy, guard>>
        /\ UNCHANGED <<disk, wpc, held, pending, unwind, host, bounds>>
    BY <1>4 DEF BeatRead
  <2>2. beat' \in [Job -> BOOLEAN] /\ \A v \in Job \ {w} : beat'[v] = beat[v]
    BY <1>1, <2>1 DEF WorkersTyped
  <2>3. WorkersTyped' /\ OthersStay(w)
    BY <1>1, <2>1, <2>2 DEF WorkersTyped, OthersStay
  <2>4. CopyOpen(w)'
    BY <1>1, <1>2, <2>1 DEF CopyOpen, Keeps
  <2> QED
    BY <1>1, <1>2, <2>1, <2>3, <2>4
    DEF Moves, SwapMove, SyncMove, RecordMove, HeldMove, CopyMove, disk, bounds
<1>5. CASE BeatWrite(w)
  <2>1. /\ guard[w] = "beat" /\ job' = copy[w] /\ copy' = [copy EXCEPT ![w] = NoRecord]
        /\ guard' = [guard EXCEPT ![w] = "free"]
        /\ UNCHANGED <<builder, task, launched, wpc, held, pending, unwind, beat, host, bounds>>
    BY <1>5 DEF BeatWrite
  <2>2. /\ copy' \in [Job -> JobRecord] /\ copy'[w] = NoRecord
        /\ \A v \in Job \ {w} : copy'[v] = copy[v]
    BY <1>1, <2>1, Records DEF WorkersTyped
  <2>3. /\ guard' \in [Job -> Guards] /\ guard'[w] = "free"
        /\ \A v \in Job \ {w} : guard'[v] = guard[v]
    BY <1>1, <2>1 DEF WorkersTyped, Guards
  <2>4. WorkersTyped' /\ OthersStay(w)
    BY <1>1, <2>1, <2>2, <2>3 DEF WorkersTyped, OthersStay
  <2>5. RecordMove(w) /\ CopyOpen(w)'
    BY <1>1, <1>2, <2>1, <2>3 DEF RecordMove, CopyOpen, Keeps
  <2> QED
    BY <1>1, <1>2, <2>1, <2>2, <2>4, <2>5 DEF Moves, SwapMove, SyncMove, HeldMove, CopyMove, bounds
<1> QED BY <1>3, <1>4, <1>5 DEF Heartbeat, BeatRead

\* Every step of a worker is a move.
LEMMA WorkMoves ==
    ASSUME TypeOK, NEW w \in Job, Knows(w), CopyOpen(w), Unclosed(job),
           Work(w) \/ Heartbeat(w) \/ KillWorker(w)
    PROVE  Moves(w)
<1>1. CASE KillWorker(w)
  BY <1>1, ExitMoves DEF KillWorker, Alive
<1>2. CASE StopWorker(w)
  BY <1>2, ExitMoves DEF StopWorker, bounds
<1> QED
  BY <1>1, <1>2, MainGoes, IdentifyMoves, MainReadMoves, MainWriteMoves, HandlerMoves, BeatMoves
  DEF Work

-----------------------------------------------------------------------------
(* The steps of a tool call *)

CallsTyped == hpc \in [Host -> HostPC] /\ tool \in [Host -> Tool] /\ seen \in [Host -> Build]

CallsStay(h) ==
    \A g \in Host \ {h} : hpc'[g] = hpc[g] /\ tool'[g] = tool[g] /\ seen'[g] = seen[g]

\* A call swaps a running or failed build, or decides at a gate.
SwapCall(h) ==
    \/ UNCHANGED builder
    \/ /\ builder.version = seen[h].version
       /\ \/ seen[h].status \in {"running", "failed"}
          \/ seen[h].status = "review" /\ tool[h] = "decide" /\ hpc'[h] = "changed"
       /\ builder' \in Build /\ builder'.version = builder.version + 1

SyncCall(h) ==
    \/ UNCHANGED task
    \/ task.version <= seen[h].version /\ task' = TaskOf(seen[h])

RecordCall(h) ==
    \/ UNCHANGED <<job, launched>>
    \/ /\ job.status \notin Active /\ job' \in JobRecord /\ job'.status = "starting"
       /\ seen[h].status = "running" /\ job'.expected = seen[h].version
       /\ launched' \in Job

Calls(h) ==
    /\ CallsTyped' /\ CallsStay(h) /\ WorkersTyped' /\ UNCHANGED <<held, copy>>
    /\ SwapCall(h) /\ SyncCall(h) /\ RecordCall(h)
    /\ seen'[h] \in {seen[h], NoBuild, builder'}
    /\ CallKnows(h)' /\ OneLauncher'
    /\ \A w \in Job : Knows(w)' /\ CopyOpen(w)' /\ (MayEngage(w)' => MayEngage(w))

CallGoes(h, label) ==
    /\ hpc' = [hpc EXCEPT ![h] = label]
    /\ tool' = [tool EXCEPT ![h] = tool'[h]] /\ tool'[h] \in Tool
    /\ seen' = [seen EXCEPT ![h] = seen'[h]] /\ seen'[h] \in Build

LEMMA CallGoesOn ==
    ASSUME TypeOK, NEW h \in Host, NEW label \in HostPC, CallGoes(h, label)
    PROVE  CallsTyped' /\ CallsStay(h) /\ hpc'[h] = label
<1>1. CallsTyped
  BY DEF TypeOK, CallsTyped
<1>2. /\ hpc' \in [Host -> HostPC] /\ hpc'[h] = label
      /\ \A g \in Host \ {h} : hpc'[g] = hpc[g]
  BY <1>1 DEF CallsTyped, CallGoes
<1>3. tool' \in [Host -> Tool] /\ \A g \in Host \ {h} : tool'[g] = tool[g]
  <2> DEFINE t == tool'[h]
  <2>1. tool' = [tool EXCEPT ![h] = t] /\ t \in Tool
    BY DEF CallGoes
  <2> HIDE DEF t
  <2> QED BY <1>1, <2>1 DEF CallsTyped
<1>4. seen' \in [Host -> Build] /\ \A g \in Host \ {h} : seen'[g] = seen[g]
  <2> DEFINE b == seen'[h]
  <2>1. seen' = [seen EXCEPT ![h] = b] /\ b \in Build
    BY DEF CallGoes
  <2> HIDE DEF b
  <2> QED BY <1>1, <2>1 DEF CallsTyped
<1> QED BY <1>2, <1>3, <1>4 DEF CallsTyped, CallsStay

\* A call returns.
LEMMA Returns ==
    ASSUME TypeOK, NEW h \in Host, Return(h)
    PROVE  CallGoes(h, "idle") /\ seen'[h] = NoBuild /\ "idle" \in HostPC
<1>1. CallsTyped
  BY DEF TypeOK, CallsTyped
<1>2. /\ hpc' = [hpc EXCEPT ![h] = "idle"] /\ tool' = [tool EXCEPT ![h] = "start"]
      /\ seen' = [seen EXCEPT ![h] = NoBuild]
  BY DEF Return, HostAt
<1>3. tool'[h] = "start" /\ seen'[h] = NoBuild
  BY <1>1, <1>2 DEF CallsTyped
<1> QED BY <1>2, <1>3, Records DEF CallGoes, Tool, HostPC

\* A step that leaves the workers and their record alone.
LEMMA QuietCalls ==
    ASSUME TypeOK, NEW h \in Host, NEW label \in HostPC \ {"popen"}, AllKnow, OneLauncher,
           \A w \in Job : CopyOpen(w),
           CallGoes(h, label), UNCHANGED <<worker, job, launched>>,
           SwapCall(h), SyncCall(h), seen'[h] \in {seen[h], NoBuild, builder'},
           label = "waiting" => LockFree,
           label \in {"looking", "dead", "changed", "launch", "waiting", "polled", "cancelling"}
             => seen'[h].status = "running",
           label \in {"looking", "dead", "polled", "polling"} => tool'[h] \in {"wait", "stop"},
           label = "looked" /\ tool'[h] = "recover" => seen'[h].status = "failed",
           label = "looked" /\ tool'[h] = "decide" => seen'[h].status = "review"
    PROVE  Calls(h)
<1>1. CallsTyped' /\ CallsStay(h) /\ hpc'[h] = label
  BY CallGoesOn
<1>2. UNCHANGED <<wpc, held, pending, unwind, beat, guard, copy>>
  BY DEF worker
<1>3. WorkersTyped'
  BY <1>2, WorkersTypedNow DEF WorkersTyped
<1>4. \A w \in Job : Knows(w)' /\ CopyOpen(w)' /\ (MayEngage(w)' => MayEngage(w))
  BY <1>2 DEF AllKnow, Knows, CopyOpen, Keeps, MayEngage, Engaged
<1>5. CallKnows(h)'
  BY <1>1 DEF CallKnows
<1>6. OneLauncher'
  <2>1. \A g \in Host : hpc'[g] \in {"waiting", "popen"} =>
           \/ g # h /\ hpc[g] \in {"waiting", "popen"}
           \/ g = h /\ LockFree
    BY <1>1 DEF CallsStay
  <2>2. ASSUME NEW f \in Host, NEW g \in Host,
               hpc'[f] \in {"waiting", "popen"}, hpc'[g] \in {"waiting", "popen"}
        PROVE  f = g
    BY <2>1, <2>2 DEF OneLauncher, LockFree
  <2>3. \A g \in Host : hpc'[g] = "popen" => hpc[g] = "popen"
    BY <1>1 DEF CallsStay
  <2> QED BY <1>2, <2>2, <2>3 DEF OneLauncher
<1> QED BY <1>1, <1>2, <1>3, <1>4, <1>5, <1>6 DEF Calls, RecordCall

LEMMA QuietCallsMove ==
    ASSUME TypeOK, NEW h \in Host, AllKnow, OneLauncher, \A w \in Job : CopyOpen(w),
           \/ Look(h) \/ Inspect(h) \/ FailBackgroundJob(h) \/ SyncTask(h) \/ Advance(h)
           \/ SyncAdvanced(h) \/ TakeLock(h) \/ RefuseLaunch(h) \/ PollStop(h)
           \/ CancelStopped(h) \/ KillHost(h)
    PROVE  Calls(h)
<1>1. /\ CallsTyped /\ builder \in Build /\ task.version \in Nat /\ seen[h] \in Build
      /\ seen[h].version \in Nat /\ CallKnows(h)
  BY Records DEF TypeOK, CallsTyped, AllKnow, TaskType, Status
<1>2. /\ tool = [tool EXCEPT ![h] = tool[h]] /\ seen = [seen EXCEPT ![h] = seen[h]]
      /\ tool[h] \in Tool
  BY <1>1 DEF CallsTyped
<1>3. ASSUME NEW label \in HostPC, hpc' = [hpc EXCEPT ![h] = label], UNCHANGED <<tool, seen>>
      PROVE  CallGoes(h, label) /\ tool'[h] = tool[h] /\ seen'[h] = seen[h]
  BY <1>1, <1>2, <1>3 DEF CallGoes
<1>4. ASSUME NEW label \in HostPC, hpc' = [hpc EXCEPT ![h] = label], UNCHANGED tool,
             NEW b, b \in Build, seen' = [seen EXCEPT ![h] = b]
      PROVE  CallGoes(h, label) /\ tool'[h] = tool[h] /\ seen'[h] = b
  <2>1. seen'[h] = b
    BY <1>1, <1>4 DEF CallsTyped
  <2> QED BY <1>2, <1>4, <2>1 DEF CallGoes
<1>5. ASSUME Return(h), SwapCall(h), SyncCall(h), UNCHANGED <<worker, job, launched>>
      PROVE  Calls(h)
  BY <1>5, Returns, QuietCalls
<1>6. {"idle", "looking", "dead", "looked", "changed", "launch", "waiting", "polling", "polled",
       "cancelling", "report"} \subseteq HostPC \ {"popen"}
  BY DEF HostPC
<1>7. ASSUME NEW status \in Status, Update(status),
             Current(seen[h]), seen[h].status \in {"running", "failed"}
      PROVE  SwapCall(h) /\ builder' \in Build /\ builder'.status = status
  BY <1>7, Updated DEF SwapCall, Current
<1>8. {"running", "failed", "cancelled"} \subseteq Status
  BY DEF Status, TaskStatus
<1>9. CASE Look(h)
  <2>1. PICK t \in Tool \ {"start"} :
          /\ t = "recover" => builder.status = "failed"
          /\ t = "decide"  => builder.status = "review"
          /\ tool' = [tool EXCEPT ![h] = t]
    BY <1>9 DEF Look
  <2>2. /\ seen' = [seen EXCEPT ![h] = builder]
        /\ UNCHANGED <<disk, worker, kills>>
    BY <1>9 DEF Look
  <2>3. PICK label \in {"looking", "looked"} :
          /\ hpc' = [hpc EXCEPT ![h] = label] /\ (label = "looking" <=> builder.status = "running")
    BY <1>9 DEF Look, HostAt
  <2>4. tool'[h] = t /\ seen'[h] = builder
    BY <1>1, <2>1, <2>2 DEF CallsTyped
  <2>5. CallGoes(h, label) /\ SwapCall(h) /\ SyncCall(h)
    BY <1>1, <2>1, <2>2, <2>3, <2>4 DEF CallGoes, SwapCall, SyncCall, disk
  <2>6. t \in {"recover", "decide", "wait", "stop"}
    BY DEF Tool
  <2> QED BY <1>6, <2>1, <2>2, <2>3, <2>4, <2>5, <2>6, QuietCalls DEF disk
<1>10. CASE Inspect(h)
  <2>1. PICK label \in {"dead", "looked", "cancelling"} :
          /\ hpc' = [hpc EXCEPT ![h] = label]
          /\ hpc[h] \in {"looking", "polled"} /\ UNCHANGED <<disk, worker, tool, seen, bounds>>
    BY <1>10 DEF Inspect, HostAt
  <2>2. seen[h].status = "running" /\ tool[h] \in {"wait", "stop"}
    BY <1>1, <2>1 DEF CallKnows
  <2>3. SwapCall(h) /\ SyncCall(h)
    BY <2>1 DEF SwapCall, SyncCall, disk
  <2>4. CallGoes(h, label) /\ tool'[h] = tool[h] /\ seen'[h] = seen[h]
    BY <1>3, <1>6, <2>1
  <2> QED BY <1>6, <2>1, <2>2, <2>3, <2>4, QuietCalls DEF disk
<1>11. CASE FailBackgroundJob(h)
  <2>1. hpc[h] = "dead" /\ UNCHANGED <<task, job, launched, worker, bounds>>
    BY <1>11 DEF FailBackgroundJob
  <2>2. seen[h].status = "running" /\ tool[h] \in {"wait", "stop"} /\ SyncCall(h)
    BY <1>1, <2>1 DEF CallKnows, SyncCall
  <2>3. CASE Current(seen[h])
    <3>1. /\ Update("failed") /\ seen' = [seen EXCEPT ![h] = builder']
          /\ hpc' = [hpc EXCEPT ![h] = "looked"] /\ UNCHANGED tool
      BY <1>11, <2>3 DEF FailBackgroundJob, HostAt
    <3>2. SwapCall(h) /\ builder' \in Build
      BY <1>7, <1>8, <2>2, <2>3, <3>1
    <3>3. CallGoes(h, "looked") /\ tool'[h] = tool[h] /\ seen'[h] = builder'
      BY <1>4, <1>6, <3>1, <3>2
    <3> QED BY <1>6, <2>1, <2>2, <3>2, <3>3, QuietCalls
  <2>4. CASE ~Current(seen[h])
    <3>1. UNCHANGED builder /\ Return(h)
      BY <1>11, <2>4 DEF FailBackgroundJob
    <3> QED BY <1>5, <2>1, <2>2, <3>1 DEF SwapCall
  <2> QED BY <2>3, <2>4
<1>12. CASE SyncTask(h)
  <2>1. /\ task' = IF Newer(seen[h]) THEN task ELSE TaskOf(seen[h])
        /\ Return(h)
        /\ UNCHANGED <<builder, job, launched, worker, bounds>>
    BY <1>12 DEF SyncTask
  <2>2. SwapCall(h) /\ SyncCall(h)
    BY <1>1, <2>1 DEF SwapCall, SyncCall, Newer
  <2> QED BY <1>5, <2>1, <2>2
<1>13. CASE Advance(h)
  <2>1. /\ hpc[h] = "looked" /\ tool[h] \in {"recover", "decide"}
        /\ UNCHANGED <<task, job, launched, worker, bounds>>
    BY <1>13 DEF Advance
  <2>2. SyncCall(h)
    BY <2>1 DEF SyncCall
  <2>3. CASE Current(seen[h])
    <3>1. /\ Update("running") /\ seen' = [seen EXCEPT ![h] = builder']
          /\ hpc' = [hpc EXCEPT ![h] = "changed"] /\ UNCHANGED tool
      BY <1>13, <2>3 DEF Advance, HostAt
    <3>2. /\ builder' \in Build /\ builder'.version = builder.version + 1
          /\ builder'.status = "running"
      BY <1>8, <3>1, Updated
    <3>3. CallGoes(h, "changed") /\ tool'[h] = tool[h] /\ seen'[h] = builder'
      BY <1>4, <1>6, <3>1, <3>2
    <3>4. hpc'[h] = "changed"
      BY <1>1, <3>1 DEF CallsTyped
    <3>5. SwapCall(h)
      BY <1>1, <2>1, <2>3, <3>2, <3>4 DEF SwapCall, Current, CallKnows
    <3> QED BY <1>6, <2>1, <2>2, <3>2, <3>3, <3>5, QuietCalls
  <2>4. CASE ~Current(seen[h])
    <3>1. UNCHANGED builder /\ Return(h)
      BY <1>13, <2>4 DEF Advance
    <3> QED BY <1>5, <2>1, <2>2, <3>1 DEF SwapCall
  <2> QED BY <2>3, <2>4
<1>14. CASE SyncAdvanced(h)
  <2>1. hpc[h] = "changed" /\ UNCHANGED <<builder, job, launched, worker, bounds>>
    BY <1>14 DEF SyncAdvanced
  <2>2. seen[h].status = "running" /\ SwapCall(h)
    BY <1>1, <2>1 DEF CallKnows, SwapCall
  <2>3. CASE ~Newer(seen[h])
    <3>1. /\ task' = TaskOf(seen[h]) /\ hpc' = [hpc EXCEPT ![h] = "launch"]
          /\ UNCHANGED <<tool, seen>>
      BY <1>14, <2>3 DEF SyncAdvanced, HostAt
    <3>2. SyncCall(h)
      BY <1>1, <2>3, <3>1 DEF SyncCall, Newer
    <3>3. CallGoes(h, "launch") /\ tool'[h] = tool[h] /\ seen'[h] = seen[h]
      BY <1>3, <1>6, <3>1
    <3> QED BY <1>6, <2>1, <2>2, <3>2, <3>3, QuietCalls
  <2>4. CASE Newer(seen[h])
    <3>1. UNCHANGED task /\ Return(h)
      BY <1>14, <2>4 DEF SyncAdvanced
    <3> QED BY <1>5, <2>1, <2>2, <3>1 DEF SyncCall
  <2> QED BY <2>3, <2>4
<1>15. CASE TakeLock(h)
  <2>1. /\ hpc[h] = "launch" /\ LockFree /\ hpc' = [hpc EXCEPT ![h] = "waiting"]
        /\ UNCHANGED <<disk, worker, tool, seen, bounds>>
    BY <1>15 DEF TakeLock, HostAt
  <2>2. seen[h].status = "running" /\ SwapCall(h) /\ SyncCall(h)
    BY <1>1, <2>1 DEF CallKnows, SwapCall, SyncCall, disk
  <2>3. CallGoes(h, "waiting") /\ tool'[h] = tool[h] /\ seen'[h] = seen[h]
    BY <1>3, <1>6, <2>1
  <2> QED BY <1>6, <2>1, <2>2, <2>3, QuietCalls DEF disk
<1>16. CASE RefuseLaunch(h) \/ KillHost(h)
  <2>1. Return(h) /\ UNCHANGED <<disk, worker>>
    BY <1>16 DEF RefuseLaunch, KillHost
  <2> QED BY <1>5, <2>1 DEF SwapCall, SyncCall, disk
<1>17. CASE PollStop(h)
  <2>1. PICK label \in {"polled", "report"} :
          /\ hpc[h] = "polling" /\ hpc' = [hpc EXCEPT ![h] = label]
          /\ label = "polled" => builder.status = "running"
          /\ seen' = [seen EXCEPT ![h] = builder] /\ UNCHANGED <<disk, worker, tool, bounds>>
    BY <1>17 DEF PollStop, HostAt
  <2>2. tool[h] \in {"wait", "stop"} /\ SwapCall(h) /\ SyncCall(h)
    BY <1>1, <2>1 DEF CallKnows, SwapCall, SyncCall, disk
  <2>3. CallGoes(h, label) /\ tool'[h] = tool[h] /\ seen'[h] = builder
    BY <1>1, <1>4, <1>6, <2>1
  <2> QED BY <1>6, <2>1, <2>2, <2>3, QuietCalls DEF disk
<1>18. CASE CancelStopped(h)
  <2>1. hpc[h] = "cancelling" /\ UNCHANGED <<task, job, launched, worker, bounds>>
    BY <1>18 DEF CancelStopped
  <2>2. seen[h].status = "running" /\ SyncCall(h)
    BY <1>1, <2>1 DEF CallKnows, SyncCall
  <2>3. CASE Current(seen[h])
    <3>1. /\ Update("cancelled") /\ seen' = [seen EXCEPT ![h] = builder']
          /\ hpc' = [hpc EXCEPT ![h] = "report"] /\ UNCHANGED tool
      BY <1>18, <2>3 DEF CancelStopped, HostAt
    <3>2. SwapCall(h) /\ builder' \in Build
      BY <1>7, <1>8, <2>2, <2>3, <3>1
    <3>3. CallGoes(h, "report") /\ tool'[h] = tool[h] /\ seen'[h] = builder'
      BY <1>4, <1>6, <3>1, <3>2
    <3> QED BY <1>6, <2>1, <2>2, <3>2, <3>3, QuietCalls
  <2>4. CASE ~Current(seen[h])
    <3>1. UNCHANGED builder /\ Return(h)
      BY <1>18, <2>4 DEF CancelStopped
    <3> QED BY <1>5, <2>1, <2>2, <3>1 DEF SwapCall
  <2> QED BY <2>3, <2>4
<1> QED BY <1>9, <1>10, <1>11, <1>12, <1>13, <1>14, <1>15, <1>16, <1>17, <1>18

\* The record of the next worker.
LEMMA WriteJobMoves ==
    ASSUME TypeOK, NEW h \in Host, AllKnow, OneLauncher, \A w \in Job : CopyOpen(w), WriteJob(h)
    PROVE  Calls(h)
<1>1. /\ CallsTyped /\ seen[h].version \in Nat /\ CallKnows(h) /\ launched \in 0..MaxJobs
      /\ MaxJobs \in Nat
  BY BoundsAssumption, Records DEF TypeOK, CallsTyped, AllKnow
<1>2. /\ hpc[h] = "waiting" /\ job.status \notin Active /\ launched < MaxJobs
      /\ launched' = launched + 1
      /\ job' = [id |-> launched + 1, status |-> "starting", pid |-> FALSE, fresh |-> TRUE,
                 expected |-> seen[h].version, result |-> 0]
      /\ hpc' = [hpc EXCEPT ![h] = "popen"]
      /\ UNCHANGED <<builder, task, worker, tool, seen, bounds>>
  BY DEF WriteJob, HostAt
<1>3. launched + 1 \in Job
  BY <1>1, <1>2 DEF Job
<1>4. job' \in JobRecord /\ job'.status = "starting" /\ job'.expected = seen[h].version
  BY <1>1, <1>2, <1>3 DEF JobRecord, Active
<1>5. seen[h].status = "running"
  BY <1>1, <1>2 DEF CallKnows
<1>6. /\ CallsTyped' /\ CallsStay(h) /\ hpc'[h] = "popen"
      /\ UNCHANGED <<wpc, held, pending, unwind, beat, guard, copy>>
  BY <1>1, <1>2 DEF CallsTyped, CallsStay, HostPC, worker
<1>7. WorkersTyped'
  BY <1>6, WorkersTypedNow DEF WorkersTyped
<1>8. \A w \in Job : Knows(w)' /\ CopyOpen(w)' /\ (MayEngage(w)' => MayEngage(w))
  BY <1>6 DEF AllKnow, Knows, CopyOpen, Keeps, MayEngage, Engaged
<1>9. CallKnows(h)'
  BY <1>6 DEF CallKnows
<1>10. OneLauncher'
  <2>1. \A g \in Host : hpc'[g] \in {"waiting", "popen"} => g = h
    BY <1>2, <1>6 DEF OneLauncher, CallsStay
  <2>2. wpc[launched + 1] = "none"
    BY <1>1, <1>3 DEF OneLauncher
  <2>3. \A w \in Job : w > launched' => wpc'[w] = "none"
    BY <1>1, <1>2, <1>6 DEF OneLauncher, Job
  <2> QED BY <1>2, <1>3, <1>6, <2>1, <2>2, <2>3 DEF OneLauncher
<1>11. seen' = seen
  BY <1>2
<1> QED
  BY <1>2, <1>3, <1>4, <1>5, <1>6, <1>7, <1>8, <1>9, <1>10, <1>11
  DEF Calls, SwapCall, SyncCall, RecordCall

\* A call that starts or signals a worker writes no file.
LEMMA TouchedWorker ==
    ASSUME TypeOK, NEW h \in Host, NEW w \in Job, NEW label \in HostPC \ {"waiting", "popen"},
           AllKnow, OneLauncher, \A v \in Job : CopyOpen(v), CallGoes(h, label),
           UNCHANGED <<disk, held, pending, beat, guard, copy>>, WorkersTyped', OthersStay(w),
           w <= launched, hpc[h] = "popen" \/ wpc[w] # "none",
           MayEngage(w)' => MayEngage(w), Knows(w)', CopyOpen(w)',
           seen'[h] \in {seen[h], NoBuild}, CallKnows(h)'
    PROVE  Calls(h)
<1>1. CallsTyped' /\ CallsStay(h) /\ hpc'[h] = label
  BY CallGoesOn
<1>2. \A v \in Job \ {w} : Knows(v)' /\ CopyOpen(v)' /\ (MayEngage(v)' => MayEngage(v))
  BY DEF OthersStay, AllKnow, Knows, CopyOpen, Keeps, MayEngage, Engaged
<1>3. OneLauncher'
  <2>1. launched' = launched /\ launched \in Nat
    BY DEF disk, TypeOK
  <2>2. \A g \in Host : hpc'[g] \in {"waiting", "popen"} => g # h /\ hpc'[g] = hpc[g]
    BY <1>1 DEF CallsStay
  <2>3. \A v \in Job : v > launched' => wpc'[v] = "none"
    <3>1. ASSUME NEW v \in Job, v > launched' PROVE v # w
      BY <2>1, <3>1 DEF Job
    <3> QED BY <2>1, <3>1 DEF OneLauncher, OthersStay
  <2>4. ASSUME NEW g \in Host, hpc'[g] = "popen"
        PROVE  launched' \in Job /\ wpc'[launched'] = "none"
    <3>1. g # h /\ hpc[g] = "popen" /\ launched \in Job /\ wpc[launched] = "none"
      BY <2>2, <2>4 DEF OneLauncher
    <3>2. hpc[h] # "popen"
      BY <3>1 DEF OneLauncher
    <3>3. w # launched
      BY <3>1, <3>2
    <3> QED BY <2>1, <3>1, <3>3 DEF OthersStay
  <2>5. ASSUME NEW f \in Host, NEW g \in Host,
               hpc'[f] \in {"waiting", "popen"}, hpc'[g] \in {"waiting", "popen"}
        PROVE  f = g
    BY <2>2, <2>5 DEF OneLauncher
  <2> QED BY <2>3, <2>4, <2>5 DEF OneLauncher
<1> QED BY <1>1, <1>2, <1>3 DEF Calls, SwapCall, SyncCall, RecordCall, disk

LEMMA SpawnMoves ==
    ASSUME TypeOK, NEW h \in Host, AllKnow, OneLauncher, \A w \in Job : CopyOpen(w), Spawn(h)
    PROVE  Calls(h)
<1>1. /\ CallsTyped /\ WorkersTyped /\ launched \in Job /\ wpc[launched] = "none"
      /\ hpc[h] = "popen" /\ launched \in Nat
      /\ UNCHANGED <<disk, held, pending, unwind, beat, guard, copy, bounds>>
  BY WorkersTypedNow DEF TypeOK, CallsTyped, OneLauncher, Spawn
<1>2. PICK w \in Job : w = launched
  BY <1>1
<1>3. CASE UNCHANGED wpc /\ Return(h)
  <2>1. CallGoes(h, "idle") /\ seen'[h] = NoBuild /\ "idle" \in HostPC
    BY <1>3, Returns
  <2> QED BY <1>1, <1>3, <2>1, QuietCalls DEF worker, disk, SwapCall, SyncCall
<1>4. CASE WorkerAt(launched, "spawned")
  <2>1. PICK label \in {"idle", "report"} : CallGoes(h, label) /\ seen'[h] \in {seen[h], NoBuild}
    <3>1. CASE Return(h)
      BY <3>1, Returns
    <3>2. CASE HostAt(h, "report") /\ UNCHANGED <<tool, seen>>
      BY <1>1, <3>2 DEF HostAt, CallGoes, CallsTyped
    <3>3. Return(h) \/ (HostAt(h, "report") /\ UNCHANGED <<tool, seen>>)
      BY DEF Spawn
    <3> QED BY <3>1, <3>2, <3>3
  <2>2. label \in HostPC \ {"waiting", "popen"}
    BY DEF HostPC
  <2>3. /\ wpc' \in [Job -> WorkerPC] /\ wpc'[w] = "spawned"
        /\ \A v \in Job \ {w} : wpc'[v] = wpc[v]
    BY <1>1, <1>2, <1>4 DEF WorkerAt, WorkersTyped, WorkerPC
  <2>4. WorkersTyped' /\ OthersStay(w)
    BY <1>1, <2>3 DEF WorkersTyped, OthersStay
  <2>5. Knows(w)' /\ MayEngage(w)
    BY <1>1, <1>2, <2>3 DEF AllKnow, Knows, MayEngage, Engaged
  <2>6. CopyOpen(w)'
    BY <1>1, <1>2, <2>3 DEF CopyOpen, Keeps
  <2>7. CallKnows(h)'
    BY <2>1, <2>2, CallGoesOn DEF CallKnows
  <2> QED BY <1>1, <1>2, <2>1, <2>2, <2>4, <2>5, <2>6, <2>7, TouchedWorker
<1> QED BY <1>1, <1>2, <1>3, <1>4 DEF Spawn

LEMMA RequestCancelMoves ==
    ASSUME TypeOK, NEW h \in Host, AllKnow, OneLauncher, \A w \in Job : CopyOpen(w), RequestCancel(h)
    PROVE  Calls(h)
<1>1. /\ CallsTyped /\ WorkersTyped /\ hpc[h] = "looked" /\ tool[h] = "stop" /\ seen[h] \in Build
      /\ UNCHANGED <<disk, held, pending, beat, guard, copy, bounds>>
  BY WorkersTypedNow DEF TypeOK, CallsTyped, RequestCancel
<1>2. CASE ~JobActive(job)
  <2>1. PICK label \in {"cancelling", "report"} :
          /\ hpc' = [hpc EXCEPT ![h] = label] /\ (label = "cancelling" => seen[h].status = "running")
          /\ UNCHANGED <<wpc, unwind, tool, seen>>
    BY <1>2 DEF RequestCancel, HostAt
  <2>2. CallGoes(h, label) /\ label \in HostPC /\ tool'[h] = tool[h] /\ seen'[h] = seen[h]
    BY <1>1, <2>1 DEF CallGoes, CallsTyped, HostPC
  <2>3. SwapCall(h) /\ SyncCall(h) /\ UNCHANGED <<worker, job, launched>>
    BY <1>1, <2>1 DEF SwapCall, SyncCall, worker, disk
  <2> QED BY <1>1, <2>1, <2>2, <2>3, QuietCalls
<1>3. CASE JobActive(job) /\ ~ProcessAlive(job)
  <2>1. Return(h) /\ UNCHANGED <<wpc, unwind>>
    BY <1>3 DEF RequestCancel
  <2>2. CallGoes(h, "idle") /\ seen'[h] = NoBuild /\ "idle" \in HostPC
    BY <2>1, Returns
  <2>3. SwapCall(h) /\ SyncCall(h) /\ UNCHANGED <<worker, job, launched>>
    BY <1>1, <2>1 DEF SwapCall, SyncCall, worker, disk
  <2> QED BY <2>2, <2>3, QuietCalls
<1>4. CASE JobActive(job) /\ ProcessAlive(job)
  <2>0. PICK w \in Job : w = job.id
    BY <1>4 DEF ProcessAlive
  <2>1. /\ w \in Job /\ Alive(w) /\ Signalled(w) /\ hpc' = [hpc EXCEPT ![h] = "polling"]
        /\ tool' = [tool EXCEPT ![h] = "wait"] /\ UNCHANGED seen
    BY <1>4, <2>0 DEF RequestCancel, ProcessAlive, HostAt
  <2>2. /\ WorkersTyped' /\ OthersStay(w) /\ wpc'[w] = "signalled"
        /\ unwind'[w] = "handler" => MayEngage(w)
    BY <1>1, <2>1, Signals
  <2>3. tool'[h] = "wait" /\ seen'[h] = seen[h] /\ CallGoes(h, "polling") /\ "polling" \in HostPC
    BY <1>1, <2>1 DEF CallsTyped, CallGoes, Tool, HostPC
  <2>4. hpc'[h] = "polling"
    BY <1>1, <2>1 DEF CallsTyped
  <2>5. CallKnows(h)'
    BY <2>3, <2>4 DEF CallKnows
  <2>6. (MayEngage(w)' => MayEngage(w)) /\ Knows(w)'
    BY <2>2 DEF MayEngage, Engaged, Knows
  <2>7. CopyOpen(w)'
    BY <1>1, <2>1, <2>2, <2>6 DEF CopyOpen, Keeps
  <2>8. wpc[w] # "none" /\ w <= launched
    BY <2>1 DEF Alive, OneLauncher, TypeOK, Job
  <2> QED BY <1>1, <2>1, <2>2, <2>3, <2>5, <2>6, <2>7, <2>8, TouchedWorker
<1> QED BY <1>2, <1>3, <1>4

\* Every step of a tool call is such a step.
LEMMA CallMoves ==
    ASSUME TypeOK, NEW h \in Host, AllKnow, OneLauncher, \A w \in Job : CopyOpen(w),
           Call(h) \/ KillHost(h)
    PROVE  Calls(h)
  BY QuietCallsMove, WriteJobMoves, SpawnMoves, RequestCancelMoves DEF Call

-----------------------------------------------------------------------------
(* One history *)

\* Everything in use after a step comes from what was in use before, or from
\* the build that the step writes: the history has one more entry at most.
LEMMA HistoryGoesOn ==
    ASSUME TypeOK, OneHistory,
           \/ UNCHANGED builder
           \/ builder' \in Build /\ builder'.version = builder.version + 1,
           \A w \in Job :
             \/ held'[w] \in {held[w], NoBuild, builder'}
             \/ job.status = "starting" /\ held'[w] = [version |-> job.expected, status |-> "running"],
           \A w \in Job :
             \/ copy'[w] = copy[w] \/ copy'[w].status # "starting"
             \/ copy'[w].status = job.status /\ copy'[w].expected = job.expected,
           \A h \in Host : seen'[h] \in {seen[h], NoBuild, builder'},
           \/ job'.status = job.status /\ job'.expected = job.expected
           \/ \E w \in Job : job' = copy[w]
           \/ \E h \in Host : seen[h].status = "running" /\ job'.expected = seen[h].version,
           \/ UNCHANGED task
           \/ \E w \in Job : task' = TaskOf(held[w])
           \/ \E h \in Host : task' = TaskOf(seen[h])
    PROVE  OneHistory'
<1>1. PICK history \in [Nat -> Status] : Agrees(history)
  BY DEF OneHistory
<1>2. /\ builder \in Build /\ builder' \in Build
      /\ builder.version \in Nat /\ builder'.version \in Nat /\ builder'.status \in Status
      /\ builder.version <= builder'.version
  BY Records DEF TypeOK
<1>n. PICK next \in [Nat -> Status] : next = [history EXCEPT ![builder'.version] = builder'.status]
  BY <1>1, <1>2
<1>3. next[builder'.version] = builder'.status
  BY <1>1, <1>2, <1>n
<1>4. ASSUME NEW v \in Nat, v <= builder.version
      PROVE  v <= builder'.version /\ next[v] = history[v]
  <2>1. CASE UNCHANGED builder
    BY <1>1, <1>2, <1>4, <1>n, <2>1 DEF Agrees
  <2>2. CASE builder'.version = builder.version + 1
    BY <1>1, <1>2, <1>4, <1>n, <2>2
  <2> QED BY <2>1, <2>2
<1>5. ASSUME NEW b \in Build, Noted(history, b)
      PROVE  b.version <= builder'.version /\ b.status = next[b.version]
  BY <1>4, <1>5, Records DEF Noted
<1>6. /\ \A w \in Job : held[w] \in Build /\ copy[w] \in JobRecord
      /\ \A h \in Host : seen[h] \in Build
      /\ job \in JobRecord /\ task.version \in Nat
  BY DEF TypeOK
<1>7. /\ history[0] = "running" /\ history[builder.version] = builder.status
      /\ task.version <= builder.version /\ task.status = TaskStatus[history[task.version]]
      /\ \A w \in Job : Noted(history, held[w]) /\ StartNoted(history, copy[w])
      /\ \A h \in Host : Noted(history, seen[h])
      /\ StartNoted(history, job)
  BY <1>1 DEF Agrees
<1>8. next[0] = "running" /\ NoBuild.version = 0 /\ NoBuild.status = "running"
  BY <1>2, <1>4, <1>7 DEF NoBuild
<1>9. ASSUME NEW record \in JobRecord, StartNoted(history, record), record.status = "starting"
      PROVE  record.expected <= builder'.version /\ next[record.expected] = "running"
  BY <1>4, <1>9, Records DEF StartNoted
<1>10. ASSUME NEW b, b = NoBuild \/ b = builder' \/ (b \in Build /\ Noted(history, b))
       PROVE  b.version <= builder'.version /\ b.status = next[b.version]
  BY <1>2, <1>3, <1>5, <1>8, <1>10
<1>11. ASSUME NEW w \in Job
       PROVE  held'[w].version <= builder'.version /\ held'[w].status = next[held'[w].version]
  <2>1. CASE held'[w] \in {held[w], NoBuild, builder'}
    BY <1>6, <1>7, <1>10, <2>1
  <2>2. CASE job.status = "starting" /\ held'[w] = [version |-> job.expected, status |-> "running"]
    BY <1>6, <1>7, <1>9, <2>2
  <2> QED BY <2>1, <2>2
<1>12. \A h \in Host : seen'[h].version <= builder'.version /\ seen'[h].status = next[seen'[h].version]
  BY <1>6, <1>7, <1>10
<1>13. ASSUME NEW w \in Job, copy'[w].status = "starting"
       PROVE  copy'[w].expected <= builder'.version /\ next[copy'[w].expected] = "running"
  BY <1>6, <1>7, <1>9, <1>13
<1>14. ASSUME job'.status = "starting"
       PROVE  job'.expected <= builder'.version /\ next[job'.expected] = "running"
  <2>1. CASE job'.status = job.status /\ job'.expected = job.expected
    BY <1>6, <1>7, <1>9, <1>14, <2>1
  <2>2. CASE \E w \in Job : job' = copy[w]
    BY <1>6, <1>7, <1>9, <1>14, <2>2
  <2>3. CASE \E h \in Host : seen[h].status = "running" /\ job'.expected = seen[h].version
    BY <1>5, <1>6, <1>7, <2>3
  <2> QED BY <2>1, <2>2, <2>3
<1>15. task'.version <= builder'.version /\ task'.status = TaskStatus[next[task'.version]]
  <2>1. CASE UNCHANGED task
    BY <1>4, <1>6, <1>7, <2>1
  <2>2. ASSUME NEW b \in Build, Noted(history, b), task' = TaskOf(b)
        PROVE  task'.version <= builder'.version /\ task'.status = TaskStatus[next[task'.version]]
    BY <1>5, <2>2 DEF TaskOf
  <2> QED BY <1>6, <1>7, <2>1, <2>2
<1>16. Agrees(next)'
  BY <1>3, <1>8, <1>11, <1>12, <1>13, <1>14, <1>15 DEF Agrees, Noted, StartNoted
<1> QED BY <1>16 DEF OneHistory

-----------------------------------------------------------------------------
(* The invariant *)

LEMMA JobsInit == Init => JobsInv
<1> SUFFICES ASSUME Init PROVE JobsInv
  OBVIOUS
<1>1. PICK starter \in Host :
        /\ hpc = [h \in Host |-> IF h = starter THEN "launch" ELSE "idle"]
        /\ seen = [h \in Host |-> IF h = starter THEN FirstBuild ELSE NoBuild]
  BY DEF Init
<1>2. /\ builder = FirstBuild /\ task = [version |-> 1, status |-> "running"] /\ job = NoRecord
      /\ launched = 0 /\ wpc = [w \in Job |-> "none"] /\ held = [w \in Job |-> NoBuild]
      /\ pending = [w \in Job |-> "running"] /\ unwind = [w \in Job |-> "gone"]
      /\ beat = [w \in Job |-> FALSE] /\ guard = [w \in Job |-> "free"]
      /\ copy = [w \in Job |-> NoRecord] /\ tool = [h \in Host |-> "start"]
      /\ commands = 0 /\ kills = 0
  BY DEF Init
<1>3. /\ NoBuild.version = 0 /\ NoBuild.status = "running" /\ NoRecord.id = 0
      /\ NoRecord.status = "none" /\ FirstBuild.version = 1 /\ FirstBuild.status = "running"
  BY DEF NoBuild, NoRecord, FirstBuild, NoJob
<1>4. TypeOK
  <2>1. builder \in Build /\ job \in JobRecord
    BY <1>2, Records
  <2>2. task \in [version : Nat, status : {TaskStatus[s] : s \in DOMAIN TaskStatus}]
    BY <1>2 DEF TaskStatus
  <2>3. launched \in 0..MaxJobs /\ commands \in 0..MaxCommands /\ kills \in 0..MaxKills
    BY <1>2, BoundsAssumption
  <2>4. /\ wpc \in [Job -> WorkerPC] /\ held \in [Job -> Build]
        /\ pending \in [Job -> {"running", "completed", "cancelled", "failed"}]
        /\ unwind \in [Job -> {"gone", "stopping", "handler"}] /\ beat \in [Job -> BOOLEAN]
        /\ guard \in [Job -> {"free", "main", "beat"}] /\ copy \in [Job -> JobRecord]
    BY <1>2, Records DEF WorkerPC
  <2>5. hpc \in [Host -> HostPC] /\ tool \in [Host -> Tool] /\ seen \in [Host -> Build]
    BY <1>1, <1>2, Records DEF HostPC, Tool
  <2> QED BY <2>1, <2>2, <2>3, <2>4, <2>5 DEF TypeOK
<1>5. OneHistory
  <2> DEFINE history == [v \in Nat |-> "running"]
  <2>1. history \in [Nat -> Status] /\ TaskStatus["running"] = "running"
    BY DEF Status, TaskStatus
  <2>2. Agrees(history)
    BY <1>1, <1>2, <1>3, <2>1 DEF Agrees, Noted, StartNoted
  <2> QED BY <2>1, <2>2 DEF OneHistory
<1>6. AllKnow
  BY <1>1, <1>2, <1>3 DEF AllKnow, Knows, CallKnows
<1>7. OneLauncher
  BY <1>1, <1>2 DEF OneLauncher
<1>8. RecordsOpen
  BY <1>2, <1>3 DEF RecordsOpen, Unclosed, CopyOpen, Keeps, Job
<1> QED BY <1>4, <1>5, <1>6, <1>7, <1>8 DEF JobsInv

\* The bounds on commands and kills.
LEMMA BoundsKept ==
    ASSUME TypeOK, [Next]_vars
    PROVE  commands' \in 0..MaxCommands /\ kills' \in 0..MaxKills
<1>1. commands \in 0..MaxCommands /\ kills \in 0..MaxKills /\ MaxCommands \in Nat /\ MaxKills \in Nat
  BY BoundsAssumption DEF TypeOK
<1>2. CASE \E w \in Job : KillWorker(w)
  BY <1>1, <1>2 DEF KillWorker
<1>3. CASE \E h \in Host : KillHost(h)
  BY <1>1, <1>3 DEF KillHost
<1>4. CASE \E h \in Host : Look(h)
  BY <1>1, <1>4 DEF Look
<1>5. ASSUME NEW w \in Job, Work(w) \/ Heartbeat(w)
      PROVE  UNCHANGED bounds
  BY <1>5
  DEF Work, Heartbeat, Identify, MainRead, MainWrite, Lease, Drive, Conflict, Raise, Backoff,
      Report, Finish, FailPhase, Reread, Resync, StopWorker, HandleSignal, CancelBuild,
      BeatRead, BeatWrite
<1>6. ASSUME NEW h \in Host, Call(h), ~Look(h)
      PROVE  UNCHANGED bounds
  BY <1>6
  DEF Call, Inspect, FailBackgroundJob, SyncTask, Advance, SyncAdvanced, TakeLock, RefuseLaunch,
      WriteJob, Spawn, RequestCancel, PollStop, CancelStopped
<1>7. CASE Lapse \/ UNCHANGED vars
  BY <1>1, <1>7 DEF Lapse, vars, bounds
<1>8. UNCHANGED bounds => commands' = commands /\ kills' = kills
  BY DEF bounds
<1> QED BY <1>1, <1>2, <1>3, <1>4, <1>5, <1>6, <1>7, <1>8 DEF Next

LEMMA WorkerKeepsInv ==
    ASSUME JobsInv, [Next]_vars, NEW w \in Job, Moves(w)
    PROVE  JobsInv'
<1>1. /\ TypeOK /\ OneHistory /\ AllKnow /\ OneLauncher /\ RecordsOpen /\ WorkersTyped /\ CallsTyped
  BY WorkersTypedNow DEF JobsInv, TypeOK, CallsTyped
<1>2. /\ WorkersTyped' /\ OthersStay(w) /\ UNCHANGED <<launched, hpc, tool, seen>>
      /\ SwapMove(w) /\ SyncMove(w) /\ RecordMove(w) /\ HeldMove(w) /\ CopyMove(w)
      /\ (MayEngage(w)' => MayEngage(w)) /\ wpc[w] # "none" /\ Knows(w)' /\ CopyOpen(w)'
  BY DEF Moves, host
<1>3. /\ builder \in Build /\ builder' \in Build /\ task' \in TaskType /\ job' \in JobRecord
  <2>1. /\ builder \in Build /\ task \in TaskType /\ job \in JobRecord /\ held[w] \in Build
        /\ copy[w] \in JobRecord
    BY <1>1 DEF TypeOK, TaskType, Status
  <2> QED BY <1>2, <2>1, Records DEF SwapMove, SyncMove, RecordMove
<1>4. TypeOK'
  BY <1>1, <1>2, <1>3, BoundsKept
  DEF TypeOK, WorkersTyped, Pending, Unwinds, Guards, TaskType, Status
<1>5. OneHistory'
  <2>1. \A v \in Job :
          \/ held'[v] \in {held[v], NoBuild, builder'}
          \/ job.status = "starting" /\ held'[v] = [version |-> job.expected, status |-> "running"]
    BY <1>2 DEF OthersStay, HeldMove
  <2>2. \A fresh \in BOOLEAN : /\ [job EXCEPT !.fresh = fresh].status = job.status
                               /\ [job EXCEPT !.fresh = fresh].expected = job.expected
    BY <1>1 DEF TypeOK, JobRecord
  <2>3. NoRecord.status # "starting" /\ Merged(w).status # "starting"
    BY <1>1, MergedRecords DEF NoRecord
  <2>4. \A v \in Job :
          \/ copy'[v] = copy[v] \/ copy'[v].status # "starting"
          \/ copy'[v].status = job.status /\ copy'[v].expected = job.expected
    BY <1>2, <2>2, <2>3 DEF OthersStay, CopyMove
  <2>5. (job'.status = job.status /\ job'.expected = job.expected) \/ \E v \in Job : job' = copy[v]
    BY <1>2 DEF RecordMove
  <2>6. UNCHANGED builder \/ (builder' \in Build /\ builder'.version = builder.version + 1)
    BY <1>2 DEF SwapMove
  <2>7. UNCHANGED task \/ \E v \in Job : task' = TaskOf(held[v])
    BY <1>2 DEF SyncMove
  <2> QED BY <1>1, <1>2, <2>1, <2>4, <2>5, <2>6, <2>7, HistoryGoesOn
<1>6. \A v \in Job : Knows(v)' /\ CopyOpen(v)' /\ (MayEngage(v)' => MayEngage(v))
  BY <1>1, <1>2 DEF OthersStay, AllKnow, RecordsOpen, Knows, CopyOpen, Keeps, MayEngage, Engaged
<1>7. AllKnow'
  BY <1>1, <1>2, <1>6 DEF AllKnow, CallKnows
<1>8. OneLauncher'
  BY <1>1, <1>2 DEF OneLauncher, OthersStay
<1>9. Unclosed(job)'
  <2>1. CASE UNCHANGED job
    BY <1>1, <1>6, <2>1 DEF RecordsOpen, Unclosed
  <2>2. CASE guard[w] # "free" /\ job' = copy[w] /\ (MayEngage(w)' => copy[w].status \in Active)
    <3>1. job'.id = w
      BY <1>1, <2>2 DEF RecordsOpen, CopyOpen
    <3> QED BY <2>2, <3>1 DEF Unclosed
  <2> QED BY <1>2, <2>1, <2>2 DEF RecordMove
<1> QED BY <1>4, <1>5, <1>6, <1>7, <1>8, <1>9 DEF JobsInv, RecordsOpen

LEMMA CallKeepsInv ==
    ASSUME JobsInv, [Next]_vars, NEW h \in Host, Calls(h)
    PROVE  JobsInv'
<1>1. TypeOK /\ OneHistory /\ AllKnow /\ OneLauncher /\ RecordsOpen
  BY DEF JobsInv
<1>2. /\ CallsTyped' /\ CallsStay(h) /\ WorkersTyped' /\ UNCHANGED <<held, copy>>
      /\ SwapCall(h) /\ SyncCall(h) /\ RecordCall(h)
      /\ seen'[h] \in {seen[h], NoBuild, builder'} /\ CallKnows(h)' /\ OneLauncher'
      /\ \A w \in Job : Knows(w)' /\ CopyOpen(w)' /\ (MayEngage(w)' => MayEngage(w))
  BY DEF Calls
<1>3. /\ builder' \in Build /\ task' \in TaskType /\ job' \in JobRecord /\ launched' \in 0..MaxJobs
  <2>1. /\ builder \in Build /\ task \in TaskType /\ job \in JobRecord /\ seen[h] \in Build
        /\ launched \in 0..MaxJobs
    BY <1>1 DEF TypeOK, TaskType, Status
  <2>2. \A j \in Job : j \in 0..MaxJobs
    BY BoundsAssumption DEF Job
  <2> QED BY <1>2, <2>1, <2>2, Records DEF SwapCall, SyncCall, RecordCall
<1>4. TypeOK'
  BY <1>1, <1>2, <1>3, BoundsKept
  DEF TypeOK, WorkersTyped, CallsTyped, Pending, Unwinds, Guards, TaskType, Status
<1>5. OneHistory'
  <2>1. \A g \in Host : seen'[g] \in {seen[g], NoBuild, builder'}
    BY <1>2 DEF CallsStay
  <2>2. \/ job'.status = job.status /\ job'.expected = job.expected
        \/ \E g \in Host : seen[g].status = "running" /\ job'.expected = seen[g].version
    BY <1>2 DEF RecordCall
  <2>3. UNCHANGED builder \/ (builder' \in Build /\ builder'.version = builder.version + 1)
    BY <1>2 DEF SwapCall
  <2>4. UNCHANGED task \/ \E g \in Host : task' = TaskOf(seen[g])
    BY <1>2 DEF SyncCall
  <2> QED BY <1>1, <1>2, <2>1, <2>2, <2>3, <2>4, HistoryGoesOn
<1>6. AllKnow'
  BY <1>1, <1>2 DEF AllKnow, CallKnows, CallsStay
<1>7. Unclosed(job)'
  BY <1>1, <1>2 DEF RecordsOpen, Unclosed, RecordCall, Active
<1> QED BY <1>2, <1>4, <1>5, <1>6, <1>7 DEF JobsInv, RecordsOpen

LEMMA JobsStep == JobsInv /\ [Next]_vars => JobsInv'
<1> SUFFICES ASSUME JobsInv, [Next]_vars PROVE JobsInv'
  OBVIOUS
<1>1. /\ TypeOK /\ OneHistory /\ AllKnow /\ OneLauncher /\ RecordsOpen
      /\ \A w \in Job : Knows(w) /\ CopyOpen(w)
      /\ Unclosed(job)
  BY DEF JobsInv, AllKnow, RecordsOpen
<1>2. ASSUME NEW w \in Job, Work(w) \/ Heartbeat(w) \/ KillWorker(w) PROVE JobsInv'
  BY <1>1, <1>2, WorkMoves, WorkerKeepsInv
<1>3. ASSUME NEW h \in Host, Call(h) \/ KillHost(h) PROVE JobsInv'
  BY <1>1, <1>3, CallMoves, CallKeepsInv
<1>4. CASE Lapse
  <2>1. /\ UNCHANGED <<builder, task, launched, wpc, held, pending, unwind, beat, guard, copy,
                       hpc, tool, seen, commands, kills>>
        /\ job' = [job EXCEPT !.fresh = FALSE]
    BY <1>4 DEF Lapse, worker, host, bounds
  <2>2. job' \in JobRecord /\ job'.id = job.id /\ job'.status = job.status /\ job'.expected = job.expected
    BY <1>1, <2>1 DEF TypeOK, JobRecord
  <2>3. TypeOK'
    BY <1>1, <2>1, <2>2 DEF TypeOK
  <2>4. OneHistory'
    BY <1>1, <2>1, <2>2, HistoryGoesOn
  <2>5. AllKnow' /\ OneLauncher'
    BY <1>1, <2>1 DEF AllKnow, Knows, CallKnows, OneLauncher
  <2>6. RecordsOpen'
    BY <1>1, <2>1, <2>2 DEF RecordsOpen, Unclosed, CopyOpen, Keeps, MayEngage, Engaged
  <2> QED BY <2>3, <2>4, <2>5, <2>6 DEF JobsInv
<1>5. CASE UNCHANGED vars
  <2>1. UNCHANGED <<builder, task, job, launched, wpc, held, pending, unwind, beat, guard, copy,
                   hpc, tool, seen, commands, kills>>
    BY <1>5 DEF vars, disk, worker, host, bounds
  <2>2. TypeOK'
    BY <1>1, <2>1 DEF TypeOK
  <2>3. OneHistory'
    BY <1>1, <2>1, HistoryGoesOn
  <2>4. AllKnow' /\ OneLauncher'
    BY <1>1, <2>1 DEF AllKnow, Knows, CallKnows, OneLauncher
  <2>5. RecordsOpen'
    BY <1>1, <2>1 DEF RecordsOpen, Unclosed, CopyOpen, Keeps, MayEngage, Engaged
  <2> QED BY <2>2, <2>3, <2>4, <2>5 DEF JobsInv
<1> QED BY <1>2, <1>3, <1>4, <1>5 DEF Next

-----------------------------------------------------------------------------
(* The theorems *)

\* JobsInvariance: one history of builder.json explains every copy that is in
\* use, and every worker that may still work has an active record.
THEOREM JobsInvariance == Spec => []JobsInv
<1>1. Init => JobsInv
  BY JobsInit
<1>2. JobsInv /\ [Next]_vars => JobsInv'
  BY JobsStep
<1> QED BY <1>1, <1>2, PTL DEF Spec

\* JobsTyped: every variable keeps its type, whatever the number of workers.
THEOREM JobsTyped == Spec => []TypeOK
<1>1. JobsInv => TypeOK
  BY DEF JobsInv
<1> QED BY <1>1, JobsInvariance, PTL

\* Whose step it is.
LEMMA StepsOf ==
    ASSUME JobsInv, [Next]_vars
    PROVE  \/ \E w \in Job : Moves(w)
           \/ \E h \in Host : Calls(h)
           \/ UNCHANGED <<builder, task, launched>>
<1>1. TypeOK /\ AllKnow /\ OneLauncher /\ Unclosed(job) /\ \A w \in Job : Knows(w) /\ CopyOpen(w)
  BY DEF JobsInv, AllKnow, RecordsOpen
<1>2. ASSUME NEW w \in Job, Work(w) \/ Heartbeat(w) \/ KillWorker(w) PROVE Moves(w)
  BY <1>1, <1>2, WorkMoves
<1>3. ASSUME NEW h \in Host, Call(h) \/ KillHost(h) PROVE Calls(h)
  BY <1>1, <1>3, CallMoves
<1>4. CASE Lapse \/ UNCHANGED vars
  BY <1>4 DEF Lapse, vars, disk
<1> QED BY <1>2, <1>3, <1>4 DEF Next

\* HandsOver: launch_background_resume replaces no record of a worker that has
\* not closed its phase.
THEOREM HandsOver == Spec => HandedOver
<1>1. ASSUME JobsInv, [Next]_vars, launched' # launched, NEW w \in Job, job.id = w
      PROVE  ~Engaged(w)
  <2>1. job.status \notin Active
    BY <1>1, StepsOf DEF Moves, Calls, RecordCall
  <2>2. Engaged(w) => job.status \in Active
    BY <1>1 DEF JobsInv, RecordsOpen, Unclosed, MayEngage
  <2> QED BY <2>1, <2>2
<1>2. JobsInv /\ [Next]_vars => [launched' # launched => \A w \in Job : job.id = w => ~Engaged(w)]_vars
  BY <1>1
<1> QED BY <1>2, JobsInvariance, PTL DEF Spec, HandedOver

\* Whoever swaps builder.json still knows its status, and whoever syncs the task
\* record with a state of the task's own version writes what is there.
LEMMA CopiesAgree ==
    ASSUME JobsInv, NEW b \in Build,
           (\E w \in Job : b = held[w]) \/ (\E h \in Host : b = seen[h])
    PROVE  /\ b.version <= builder.version
           /\ b.version = builder.version => b = builder
           /\ b.version = task.version => TaskOf(b) = task
<1>1. PICK history \in [Nat -> Status] : Agrees(history)
  BY DEF JobsInv, OneHistory
<1>2. Noted(history, b)
  BY <1>1 DEF Agrees
<1>3. builder \in Build /\ task \in TaskType /\ builder.status = history[builder.version]
  BY <1>1 DEF JobsInv, TypeOK, TaskType, Status, Agrees
<1>4. b.version <= builder.version /\ b.status = history[b.version]
  BY <1>2 DEF Noted
<1>5. ASSUME b.version = builder.version PROVE b = builder
  BY <1>3, <1>4, <1>5 DEF Build
<1>6. ASSUME b.version = task.version PROVE TaskOf(b) = task
  <2>1. task.status = TaskStatus[b.status]
    BY <1>1, <1>4, <1>6 DEF Agrees
  <2>2. task = [version |-> task.version, status |-> task.status]
    BY <1>3 DEF TaskType
  <2> QED BY <1>6, <2>1, <2>2 DEF TaskOf
<1> QED BY <1>4, <1>5, <1>6

\* KeepsGates: no worker, stop or reconciliation leaves a gate or an end.
THEOREM KeepsGates == Spec => GatesKept
<1> DEFINE Kept == /\ builder.status \notin {"ready", "cancelled"}
                   /\ builder.status = "review" =>
                        \E h \in Host : tool[h] = "decide" /\ seen[h] = builder /\ hpc'[h] = "changed"
<1>1. ASSUME JobsInv, [Next]_vars, builder' # builder
      PROVE  Kept
  <2>1. (\A w \in Job : held[w] \in Build) /\ (\A h \in Host : seen[h] \in Build)
    BY <1>1 DEF JobsInv, TypeOK
  <2>2. ASSUME NEW w \in Job, Moves(w) PROVE Kept
    <3>1. builder.version = held[w].version /\ held[w].status \in {"running", "failed"}
      BY <1>1, <2>2 DEF Moves, SwapMove
    <3>2. held[w] = builder
      BY <1>1, <2>1, <3>1, CopiesAgree
    <3> QED BY <3>1, <3>2
  <2>3. ASSUME NEW h \in Host, Calls(h) PROVE Kept
    <3>1. /\ builder.version = seen[h].version
          /\ \/ seen[h].status \in {"running", "failed"}
             \/ seen[h].status = "review" /\ tool[h] = "decide" /\ hpc'[h] = "changed"
      BY <1>1, <2>3 DEF Calls, SwapCall
    <3>2. seen[h] = builder
      BY <1>1, <2>1, <3>1, CopiesAgree
    <3> QED BY <3>1, <3>2
  <2> QED BY <1>1, <2>2, <2>3, StepsOf
<1>2. JobsInv /\ [Next]_vars => [builder' # builder => Kept]_vars
  BY <1>1
<1> QED BY <1>2, JobsInvariance, PTL DEF Spec, GatesKept

\* MovesTaskForward: the task record follows builder.json, forward only.
THEOREM MovesTaskForward == Spec => TaskForward
<1> DEFINE Forward == task.version < task'.version /\ task'.version <= builder.version
<1>1. ASSUME JobsInv, [Next]_vars, task' # task
      PROVE  Forward
  <2>1. (\A w \in Job : held[w] \in Build) /\ (\A h \in Host : seen[h] \in Build) /\ task \in TaskType
    BY <1>1 DEF JobsInv, TypeOK, TaskType, Status
  <2>2. ASSUME NEW b \in Build, (\E w \in Job : b = held[w]) \/ (\E h \in Host : b = seen[h]),
               task.version <= b.version, task' = TaskOf(b)
        PROVE  Forward
    <3>1. b.version <= builder.version /\ b.version # task.version
      BY <1>1, <2>2, CopiesAgree
    <3>2. b.version \in Nat /\ task.version \in Nat /\ task'.version = b.version
      BY <2>1, <2>2, Records DEF TaskType, TaskOf
    <3> QED BY <2>2, <3>1, <3>2
  <2>3. ASSUME NEW w \in Job, Moves(w) PROVE Forward
    BY <1>1, <2>1, <2>2, <2>3 DEF Moves, SyncMove
  <2>4. ASSUME NEW h \in Host, Calls(h) PROVE Forward
    BY <1>1, <2>1, <2>2, <2>4 DEF Calls, SyncCall
  <2> QED BY <1>1, <2>3, <2>4, StepsOf
<1>2. JobsInv /\ [Next]_vars => [task' # task => Forward]_vars
  BY <1>1
<1> QED BY <1>2, JobsInvariance, PTL DEF Spec, TaskForward
=============================================================================
