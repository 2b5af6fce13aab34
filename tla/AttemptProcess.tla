--------------------------- MODULE AttemptProcess ---------------------------
(***************************************************************************)
(* The process behind one attempt. HarnessAgentRunner.run starts a worker, *)
(* registers it, writes the request to its standard input and waits for it *)
(* to end. cancel is called by another thread of the same Builder, or by   *)
(* the signal handler of a background worker, which interrupts run in the  *)
(* same thread and raises SystemExit there. The worker leads a process     *)
(* group of its own, so it survives a Builder that is killed.              *)
(***************************************************************************)
VARIABLES
    run,         \* what run does next; "gone" after the Builder was killed
    worker,      \* none, starting (without a request), working or ended
    registered,  \* the worker is in _processes
    marked,      \* the attempt is in _cancelled_attempts
    held,        \* run holds _lock
    cancel,      \* what cancel does next
    handler      \* cancel is called by the signal handler

processVars == <<run, worker, registered, marked, held, cancel, handler>>

ProcessInit ==
    /\ run = "spawn" /\ worker = "none"
    /\ registered = FALSE /\ marked = FALSE /\ held = FALSE
    /\ cancel = "idle" /\ handler \in BOOLEAN

Living == worker \in {"starting", "working"}
Killed == worker' = IF Living THEN "ended" ELSE worker

\* The handler runs in the middle of a step of run, which goes on after it.
Runs(pc) == run = pc /\ (handler => cancel = "idle")

-----------------------------------------------------------------------------
(* run *)

SpawnWorker ==
    /\ Runs("spawn")
    /\ worker' = "starting" /\ run' = "register"
    /\ UNCHANGED <<registered, marked, held, cancel, handler>>

Lock ==
    /\ Runs("register") /\ ~held
    /\ held' = TRUE /\ run' = "locked"
    /\ UNCHANGED <<worker, registered, marked, cancel, handler>>

\* Mutant: only cancel looks for the other side.
NoticedBySignal == FALSE

\* A cancel that came before the registration found no process.
CancelledBefore == marked

RegisterWorker ==
    /\ Runs("locked")
    /\ registered' = TRUE /\ held' = FALSE
    /\ run' = IF CancelledBefore THEN "refuse" ELSE "request"
    /\ UNCHANGED <<worker, marked, cancel, handler>>

\* SIGTERM, and SIGKILL to a worker that has not ended after CANCEL_GRACE_SECONDS
RefuseCancelled ==
    /\ Runs("refuse")
    /\ Killed /\ run' = "close"
    /\ UNCHANGED <<registered, marked, held, cancel, handler>>

\* Writing to a worker that has ended already raises BrokenPipeError.
WriteRequest ==
    /\ Runs("request")
    /\ IF Living THEN worker' = "working" /\ run' = "wait"
                 ELSE run' = "close" /\ UNCHANGED worker
    /\ UNCHANGED <<registered, marked, held, cancel, handler>>

\* The worker ended, or is killed after the timeout.
AwaitWorker ==
    /\ Runs("wait")
    /\ Killed /\ run' = "close"
    /\ UNCHANGED <<registered, marked, held, cancel, handler>>

Unregister ==
    /\ Runs("close") /\ ~held
    /\ registered' = FALSE /\ run' = "returned"
    /\ UNCHANGED <<worker, marked, held, cancel, handler>>

\* SystemExit of the signal handler. communicate_worker kills a worker that has,
\* or may have, its request; another one is left without a request.
Interrupted ==
    /\ cancel \in {"returned", "raise"} /\ handler /\ run \notin {"returned", "gone"}
    /\ Killed \/ (run # "wait" /\ UNCHANGED worker)
    /\ run' = IF registered /\ run # "close" THEN "close" ELSE "returned"
    /\ cancel' = "idle"
    /\ UNCHANGED <<registered, marked, held, handler>>

-----------------------------------------------------------------------------
(* cancel *)

CancelCalled ==
    /\ cancel = "idle" /\ ~marked /\ run # "gone"
    /\ cancel' = "mark"
    /\ UNCHANGED <<run, worker, registered, marked, held, handler>>

\* The handler cancels a running build only.
HandlerSkips ==
    /\ handler /\ cancel = "idle" /\ run # "gone"
    /\ cancel' = "raise"
    /\ UNCHANGED <<run, worker, registered, marked, held, handler>>

\* A handler that interrupts run while it holds _lock waits for itself.
MarkCancelled ==
    /\ cancel = "mark" /\ ~held
    /\ marked' = TRUE
    /\ cancel' = IF registered /\ Living THEN "signal" ELSE "returned"
    /\ UNCHANGED <<run, worker, registered, held, handler>>

\* As RefuseCancelled; a worker that ends by itself or for run is noticed as well.
SignalWorker ==
    /\ cancel = "signal"
    /\ Killed /\ cancel' = "returned"
    /\ UNCHANGED <<run, registered, marked, held, handler>>

-----------------------------------------------------------------------------
(* The worker, and the end of the Builder *)

\* The worker answers, fails, or follows a signal; without a request it ends by
\* itself when its standard input is closed.
WorkerEnds ==
    /\ Living
    /\ worker' = "ended"
    /\ UNCHANGED <<run, registered, marked, held, cancel, handler>>

KillBuilder ==
    /\ run \notin {"returned", "gone"}
    /\ run' = "gone" /\ cancel' = "idle"
    /\ UNCHANGED <<worker, registered, marked, held, handler>>

ProcessNext ==
    \/ SpawnWorker \/ Lock \/ RegisterWorker \/ RefuseCancelled
    \/ WriteRequest \/ AwaitWorker \/ Unregister \/ Interrupted
    \/ CancelCalled \/ MarkCancelled \/ SignalWorker \/ HandlerSkips
    \/ WorkerEnds \/ KillBuilder

ProcessSpec == ProcessInit /\ [][ProcessNext]_processVars

-----------------------------------------------------------------------------
(* Properties *)

\* Whoever waits for an attempt to stop may rely on it: once run has returned,
\* however it was interrupted, or cancel has, however early it came, no worker
\* goes on with the request, unless the Builder itself was killed.
NothingWorksOn ==
    (run = "returned" \/ cancel = "returned") => worker # "working"
=============================================================================
