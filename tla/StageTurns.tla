----------------------------- MODULE StageTurns -----------------------------
(***************************************************************************)
(* One attempt of one stage inside the Harness worker. The worker lets a   *)
(* specialist Agent talk to a model that calls tools, validates the        *)
(* candidate file the tools have saved, and grants one repair round. The   *)
(* model is free: it calls any tools it is allowed, several in one message *)
(* (they run concurrently), gives up, exceeds its output limit or fails.   *)
(* What the attempt may do is bounded by middleware that looks at the      *)
(* messages of the conversation, and by a ledger of tool calls on disk     *)
(* that all conversations of the attempt share.                            *)
(***************************************************************************)
EXTENDS Naturals, Sequences, FiniteSets, FiniteSetsExt

CONSTANTS MaxArg,          \* bound: different arguments of a tool
          MaxCalls,        \* bound: tool calls in one message
          MaxAsked,        \* bound: tool calls in an attempt of a stage
          MaxSteps,        \* max_steps of harness.json: answers of the model in a conversation
          MaxExternal,     \* MAX_EXTERNAL_SEARCH_FAILURES
          MaxCorrections,  \* MAX_CORRECTIONS
          MaxFailures,     \* MAX_FAILURES_PER_TURN and MAX_PERSISTENCE_FAILURES
          MaxRounds,       \* MAX_VALIDATION_ROUNDS
          Stage            \* the stages considered

ASSUME BoundsAssumption ==
    /\ MaxArg \in Nat \ {0} /\ MaxCalls \in Nat \ {0} /\ MaxAsked \in [Stage -> Nat] /\ MaxSteps \in Nat \ {0}
    /\ MaxExternal \in Nat \ {0} /\ MaxCorrections \in Nat /\ MaxFailures \in Nat \ {0}
    /\ MaxRounds \in Nat \ {0}
    /\ Stage \subseteq {"problem", "evidence", "schema_build", "schema_judge", "extract",
                        "structured_extract", "document"}

VARIABLES
    stage,      \* stage of the attempt
    fresh,      \* schema_build: a Schema is created from evidence; evidence: nothing was uploaded
    active,     \* the attempt's record says running
    pc,         \* what the worker does next
    round,      \* validation round, from 1
    retried,    \* whether the conversation of this round repeats one that was too long
    allowed,    \* tools the specialist is granted
    steps,      \* answers of the model in this conversation
    asked,      \* tool calls so far
    msgs,       \* results and corrections in this conversation
    calls,      \* tool calls of the model's last message
    ledger,     \* tool_calls.json
    script,     \* structured extraction: the parser scripts on disk
    batch,      \* the batch file, by the script that wrote it; 0 is no file
    research,   \* records of the search and fetch ledgers
    candidate,  \* the stage's candidate file, by what the validator will say of it
    answer      \* what the worker has written to its output

worker == <<pc, round, retried, allowed, steps, answer>>
files  == <<ledger, script, batch, research, candidate>>
given  == <<stage, fresh>>
vars   == <<given, active, worker, asked, msgs, calls, files>>

-----------------------------------------------------------------------------
(* Tools *)

Arg == 1..MaxArg

\* STAGE_PERSISTENCE_TOOLS: every stage has one, here "save". "prepare" is
\* build_schema_candidates, which like the extraction tool has no arguments.
StageTools == [problem |-> {"save"}, evidence |-> {"search", "fetch", "save"},
               schema_build |-> {"prepare", "save"}, schema_judge |-> {"save"},
               extract |-> {"save"}, structured_extract |-> {"write", "execute", "save"},
               document |-> {"save"}]

\* VALIDATION_REPAIR_TOOLS
RepairTools == [StageTools EXCEPT !.schema_build = {"save"}]

\* The stages whose persistence tool ends the turn when it succeeds.
StopsAfterSave == {"problem", "schema_judge", "extract", "structured_extract", "document"}

Arguments(tool) ==
    CASE tool = "prepare" -> {0}
      [] tool = "save" /\ stage \in {"extract", "structured_extract"} -> {0}
      [] OTHER -> Arg

\* web_search, fetch_web_pages and the manifest run one phase per message.
Phase == [search |-> 1, fetch |-> 2, save |-> 3]

NewCall(tool, arg) ==
    [tool |-> tool, arg |-> arg, pc |-> "asked", revision |-> 0, result |-> "ok"]

-----------------------------------------------------------------------------
(* What the middleware reads from the messages of the conversation *)

Of(tools) == {i \in DOMAIN msgs : msgs[i].tool \in tools}
Succeeded(tool) == \E i \in Of({tool}) : msgs[i].result = "ok"

\* Failures of the persistence tool since its last success.
LastSave == {0} \cup {i \in Of({"save"}) : msgs[i].result = "ok"}
FailuresSince == Cardinality({i \in Of({"save"}) : msgs[i].result # "ok" /\ \A j \in LastSave : j < i})
FailureCount == Cardinality({i \in Of({"save"}) : msgs[i].result # "ok"})

\* PersistenceDoneStopMiddleware._stop
DoneStops == \/ FailuresSince >= MaxFailures
             \/ Succeeded("save") /\ stage \in StopsAfterSave

\* The searches of a conversation that failed at the service after the last
\* result in closing.
FailuresAfter(seen, closing) ==
    Cardinality({i \in DOMAIN seen :
        /\ seen[i].tool = "search" /\ seen[i].result = "external"
        /\ \A j \in DOMAIN seen : j > i /\ seen[j].tool = "search" => seen[j].result \notin closing})

\* Mutant: any other result of a search closes the streak.
StreakOfFailures(seen) == FailuresAfter(seen, {"ok", "failed", "open"})

\* _consecutive_external_failure_count: only a success closes the streak.
ExternalFailures(seen) == FailuresAfter(seen, {"ok"})

CircuitOpen == stage = "evidence" /\ ExternalFailures(msgs) >= MaxExternal

\* FailedToolCircuitBreakerMiddleware._terminal_failure
CircuitStops == CircuitOpen /\ \E i \in Of({"search"}) : msgs[i].result = "open"

Stops == DoneStops \/ CircuitStops

\* _correction_count; for evidence only those since the last tool result.
Corrections ==
    Cardinality({i \in Of({"correction"}) :
        stage = "evidence" => \A j \in i..Len(msgs) : msgs[j].tool = "correction"})

\* StageCompletionContractMiddleware.after_model, for an answer without calls
Corrects ==
    /\ ~Succeeded("save")
    /\ FailureCount < MaxFailures
    /\ ~(stage = "evidence" /\ \E i \in Of({"search"}) : msgs[i].result = "open")
    /\ Corrections < MaxCorrections

-----------------------------------------------------------------------------
(* The ledger: how many records of each signature are running, completed, failed *)

NoRecords == [open |-> 0, done |-> 0, failed |-> 0]
Records(s) == IF s \in DOMAIN ledger THEN ledger[s] ELSE NoRecords

\* completed_count and finished_count
CompletedCount(tool) ==
    MapThenSumSet(LAMBDA s : ledger[s].done, {s \in DOMAIN ledger : s.tool = tool})
FinishedCount(tool) ==
    MapThenSumSet(LAMBDA s : ledger[s].done + ledger[s].failed, {s \in DOMAIN ledger : s.tool = tool})

SignatureOf(c) == [tool |-> c.tool, arg |-> c.arg, revision |-> c.revision]

\* Mutant: only a completed call is equivalent.
CompletedAlready(s) == Records(s).done > 0

\* ToolCallLedger.start refuses an equivalent call that has not failed.
Equivalent(s) == Records(s).open + Records(s).done > 0

WithRecord(s, r) == [t \in DOMAIN ledger \cup {s} |-> IF t = s THEN r ELSE ledger[t]]

Start(s)  == ledger' = WithRecord(s, [Records(s) EXCEPT !.open = @ + 1])
Finish(s, result) ==
    ledger' = WithRecord(s, IF result = "ok"
                            THEN [Records(s) EXCEPT !.open = @ - 1, !.done = @ + 1]
                            ELSE [Records(s) EXCEPT !.open = @ - 1, !.failed = @ + 1])

-----------------------------------------------------------------------------
(* The worker starts *)

Init ==
    /\ stage \in Stage /\ fresh \in BOOLEAN
    /\ stage \notin {"evidence", "schema_build"} => fresh
    /\ active = TRUE
    /\ pc = "model" /\ round = 1 /\ retried = FALSE /\ steps = 0 /\ asked = 0 /\ answer = "none"
    /\ allowed = StageTools[stage]
    /\ msgs = <<>> /\ calls = <<>>
    /\ ledger = [s \in {} |-> NoRecords]
    /\ script = {} /\ batch = 0 /\ research = 0 /\ candidate = "missing"

\* The first conversation of schema_build has no coordinator above it.
Coordinated == stage # "schema_build" \/ round > 1

Answer(a) ==
    /\ pc' = "end" /\ answer' = a
    /\ UNCHANGED <<round, retried, allowed, steps>>

-----------------------------------------------------------------------------
(* The model *)

EndTurn ==
    /\ pc' = IF Coordinated THEN "reply" ELSE "after"
    /\ UNCHANGED <<round, retried, allowed, steps, answer>>

\* The coordinator answers without handing the stage to the specialist.
NotDelegated ==
    /\ pc = "model" /\ Coordinated /\ steps = 0
    /\ EndTurn
    /\ UNCHANGED <<given, asked, active, msgs, calls, files>>

\* The middleware answers in the model's place.
Stopped ==
    /\ pc = "model" /\ Stops
    /\ EndTurn
    /\ UNCHANGED <<given, asked, active, msgs, calls, files>>

\* The model asks for tools it is allowed, one or more in a message.
Asks ==
    /\ pc = "model" /\ ~Stops /\ steps < MaxSteps
    /\ \E n \in 1..MaxCalls :
         \E new \in [1..n -> {NewCall(t, a) : t \in allowed, a \in 0..MaxArg}] :
            /\ \A i \in 1..n : new[i].arg \in Arguments(new[i].tool)
            /\ calls' = new
         /\ asked' = asked + n
    /\ asked' <= MaxAsked[stage]
    /\ steps' = steps + 1
    /\ pc' = "tools"
    /\ UNCHANGED <<given, active, round, retried, allowed, answer, msgs, files>>

\* The model answers without a tool call: it is sent back, or its turn ends.
GivesUp ==
    /\ pc = "model" /\ ~Stops /\ steps < MaxSteps
    /\ IF Corrects
       THEN /\ msgs' = Append(msgs, [tool |-> "correction", result |-> "ok"])
            /\ steps' = steps + 1
            /\ UNCHANGED <<pc, round, retried, allowed, answer>>
       ELSE EndTurn /\ UNCHANGED msgs
    /\ UNCHANGED <<given, asked, active, calls, files>>

\* Mutant: a conversation is repeated each time it is too long.
RetriesAlways ==
    /\ pc \in {"model", "reply"}
    /\ IF Coordinated
       THEN /\ pc' = "model" /\ retried' = TRUE /\ steps' = 0 /\ msgs' = <<>>
            /\ UNCHANGED <<round, allowed, answer>>
       ELSE Answer("failed") /\ UNCHANGED msgs
    /\ UNCHANGED <<given, asked, active, calls, files>>

\* An output limit repeats a coordinated conversation once, from its start.
TooLong ==
    /\ pc \in {"model", "reply"}
    /\ IF Coordinated /\ ~retried
       THEN /\ pc' = "model" /\ retried' = TRUE /\ steps' = 0 /\ msgs' = <<>>
            /\ UNCHANGED <<round, allowed, answer>>
       ELSE Answer("failed") /\ UNCHANGED msgs
    /\ UNCHANGED <<given, asked, active, calls, files>>

\* The model service fails, or the conversation exceeds its step limit.
ModelFails ==
    /\ pc \in {"model", "reply"}
    /\ Answer("failed")
    /\ UNCHANGED <<given, asked, active, msgs, calls, files>>

\* The coordinator reports the specialist's result.
Replies ==
    /\ pc = "reply"
    /\ pc' = "after"
    /\ UNCHANGED <<given, asked, active, round, retried, allowed, steps, answer, msgs, calls, files>>

-----------------------------------------------------------------------------
(* The calls of one message run concurrently *)

At(i, place) == pc = "tools" /\ i \in DOMAIN calls /\ calls[i].pc = place
Moves(i, c) == calls' = [calls EXCEPT ![i] = c]

\* What _prepare reads into the arguments of a persistence call.
Revision(tool) ==
    IF tool # "save" THEN 0
    ELSE IF stage = "evidence" THEN research
    ELSE IF stage = "structured_extract" THEN batch
    ELSE 0

\* What _prepare reads before the ledger, without a lock, and another call of
\* the message can change.
ReadsFirst(c) == \/ c.tool = "save" /\ stage \in {"evidence", "structured_extract"}
                 \/ c.tool \in {"write", "execute"}

\* RunAttemptGuardMiddleware._prepare, before the ledger.
Checks(i) ==
    /\ At(i, "asked")
    /\ LET c == calls[i]
           refused == \/ ~active
                      \/ /\ stage = "structured_extract" /\ c.tool \in {"write", "execute"}
                         /\ CompletedCount("execute") > FinishedCount("save")
       IN  /\ ReadsFirst(c)
           /\ Moves(i, IF refused THEN [c EXCEPT !.pc = "done", !.result = "failed"]
                       ELSE [c EXCEPT !.pc = "checked", !.revision = Revision(c.tool)])
    /\ UNCHANGED <<given, asked, active, worker, msgs, files>>

\* Mutant: a call of any phase runs.
NeverDeferred(c) == FALSE

\* EvidenceToolBatchMiddleware._deferred_error: an earlier phase is in the message.
Deferred(c) ==
    /\ stage = "evidence"
    /\ \E i \in DOMAIN calls : Phase[calls[i].tool] < Phase[c.tool]

\* The ledger admits the call. Then the other middleware may turn it away, and
\* the ledger has one more failed record.
Enters(i) ==
    /\ \/ At(i, "checked")
       \/ At(i, "asked") /\ ~ReadsFirst(calls[i])
    /\ LET c == calls[i]
           turned == Deferred(c) \/ (c.tool = "search" /\ CircuitOpen)
       IN
       IF Equivalent(SignatureOf(c)) \/ (~active /\ ~ReadsFirst(c))
       THEN Moves(i, [c EXCEPT !.pc = "done", !.result = "failed"]) /\ UNCHANGED ledger
       ELSE IF turned
       THEN /\ Moves(i, [c EXCEPT !.pc = "done", !.result = IF Deferred(c) THEN "failed" ELSE "open"])
            /\ ledger' = WithRecord(SignatureOf(c), [Records(SignatureOf(c)) EXCEPT !.failed = @ + 1])
       ELSE /\ Moves(i, [c EXCEPT !.pc = "running"])
            /\ Start(SignatureOf(c))
    /\ UNCHANGED <<given, asked, active, worker, msgs, script, batch, research, candidate>>

\* What a tool does with the files, for the result it reports. The extraction
\* tool validates what it saves.
Effect(c, result) ==
    /\ result = "external" => c.tool = "search"
    /\ c.tool = "execute" /\ result = "ok" => c.arg \in script
    /\ c.tool = "save" /\ stage = "structured_extract" /\ result = "ok" => batch # 0
    /\ research' = research + (IF c.tool \in {"search", "fetch"} THEN 1 ELSE 0)
    /\ script' = script \cup (IF c.tool = "write" /\ result = "ok" THEN {c.arg} ELSE {})
    /\ batch' = IF c.tool = "execute" /\ result = "ok" THEN c.arg ELSE batch
    /\ IF c.tool = "save" /\ result = "ok"
       THEN candidate' \in IF stage = "extract" THEN {"good"} ELSE {"good", "bad", "broken"}
       ELSE UNCHANGED candidate

Returns(i) ==
    /\ At(i, "running")
    /\ \E result \in {"ok", "failed", "external"} :
         /\ Effect(calls[i], result)
         /\ Finish(SignatureOf(calls[i]), result)
         /\ Moves(i, [calls[i] EXCEPT !.pc = "done", !.result = result])
    /\ UNCHANGED <<given, asked, active, worker, msgs>>

\* The tools that work through all sources stop at a failing model service.
Raises(i) ==
    /\ At(i, "running")
    /\ calls[i].tool = "prepare" \/ stage = "extract"
    /\ Finish(SignatureOf(calls[i]), "failed")
    /\ Answer("failed")
    /\ UNCHANGED <<given, asked, active, msgs, calls, script, batch, research, candidate>>

\* The results enter the conversation in the order of the calls.
Collects ==
    /\ pc = "tools" /\ \A i \in DOMAIN calls : calls[i].pc = "done"
    /\ msgs' = msgs \o [i \in DOMAIN calls |-> [tool |-> calls[i].tool, result |-> calls[i].result]]
    /\ calls' = <<>>
    /\ pc' = "model"
    /\ UNCHANGED <<given, asked, active, round, retried, allowed, steps, answer, files>>

-----------------------------------------------------------------------------
(* After the conversation *)

\* Mutant: only the last message of the conversation is looked at.
LastSucceeded(tool) == msgs # <<>> /\ msgs[Len(msgs)] = [tool |-> tool, result |-> "ok"]

\* _successful_tool_payload
Payload(tool) == Succeeded(tool)

\* The tools a first conversation must have completed.
Required == IF round > 1 \/ stage \notin {"extract", "schema_build"} THEN {}
            ELSE IF stage = "schema_build" /\ fresh THEN {"prepare", "save"}
            ELSE {"save"}

AfterTurn ==
    /\ pc = "after"
    /\ IF \A tool \in Required : Payload(tool)
       THEN pc' = "validate" /\ UNCHANGED <<round, retried, allowed, steps, answer>>
       ELSE Answer("missing")
    /\ UNCHANGED <<given, asked, active, msgs, calls, files>>

\* _unrecovered_evidence_service_failure
ServiceFailed ==
    /\ stage = "evidence" /\ candidate = "missing" /\ fresh
    /\ ~Payload("search")
    /\ \E i \in Of({"search"}) : msgs[i].result \in {"external", "open"}

\* _configure_validation_repair
RepairAllowed == IF stage = "evidence" \/ candidate # "missing" THEN RepairTools[stage] ELSE {"save"}

\* round_index >= MAX_VALIDATION_ROUNDS
LastRound == round >= MaxRounds

\* validate_current_artifact and the loop around it
Validates ==
    /\ pc = "validate"
    /\ IF ServiceFailed THEN Answer("failed") /\ UNCHANGED msgs
       ELSE IF candidate = "good" THEN Answer("ok") /\ UNCHANGED msgs
       ELSE IF candidate = "broken" \/ LastRound THEN Answer("invalid") /\ UNCHANGED msgs
       ELSE /\ round' = round + 1 /\ allowed' = RepairAllowed
            /\ pc' = "model" /\ retried' = FALSE /\ steps' = 0 /\ msgs' = <<>>
            /\ UNCHANGED answer
    /\ UNCHANGED <<given, asked, active, calls, files>>

\* The attempt is cancelled, times out or is closed by a recovery. The worker
\* looks only when it checks a call.
AttemptEnds ==
    /\ pc = "tools" /\ \E i \in DOMAIN calls : calls[i].pc = "asked"
    /\ active /\ active' = FALSE
    /\ UNCHANGED <<given, asked, worker, msgs, calls, files>>

WorkerStep == \/ NotDelegated \/ Stopped \/ Asks \/ GivesUp \/ TooLong \/ ModelFails \/ Replies
              \/ \E i \in DOMAIN calls : Checks(i) \/ Enters(i) \/ Returns(i) \/ Raises(i)
              \/ Collects \/ AfterTurn \/ Validates

Next == WorkerStep \/ AttemptEnds

Spec == Init /\ [][Next]_vars

\* Every await of the worker ends: the model and tool calls have timeouts.
FairSpec == Spec /\ WF_vars(WorkerStep)

-----------------------------------------------------------------------------
(* Properties *)

\* Two equivalent calls of an attempt never both run or complete, in one
\* message, in a repeated conversation or in a repair round: the ledger's test
\* and its record are one step, while everything before them is not.
OneRunPerCall == \A s \in DOMAIN ledger : ledger[s].open + ledger[s].done <= 1

\* A save of the evidence that runs has been admitted under the research
\* that is on disk while it runs: no search or fetch of the same message is
\* still adding to it, so the repetition test of the ledger is not stale.
SaveSeesResearch ==
    \A i \in DOMAIN calls :
        stage = "evidence" /\ calls[i].tool = "save" /\ calls[i].pc = "running"
            => calls[i].revision = research

\* A worker that reports a required tool as not completed has no draft of it on
\* disk, unless the conversation was repeated: the repetition cannot call the
\* tool again, nor see that it has completed.
DraftNotLost ==
    answer = "missing" /\ ~retried /\ (stage = "extract" \/ (stage = "schema_build" /\ ~fresh))
        => candidate = "missing"

\* Once a search was turned away by the open circuit, no further search of the
\* conversation reaches the service.
CircuitStaysOpen ==
    [][\A i \in DOMAIN calls :
          /\ i \in DOMAIN calls' /\ calls[i].pc # "running" /\ calls'[i].pc = "running"
          /\ calls[i].tool = "search"
          => \A j \in DOMAIN msgs : msgs[j].result # "open"]_vars

\* The worker answers: corrections, repetitions and repair rounds are bounded
\* together, whatever the model does.
Answers == <>(answer # "none")
=============================================================================
