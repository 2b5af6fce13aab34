--------------------------- MODULE ParallelUnits ---------------------------
(***************************************************************************)
(* A build tool sends every assigned chunk to the model, a few at a time,  *)
(* and merges what comes back. Answers arrive in any order; some units     *)
(* fail and are skipped, and too many failures in a row stop the stage.    *)
(* Each answer names its entities with ids of its own, so the same id may  *)
(* mean different entities in two answers, and two ids the same entity.    *)
(***************************************************************************)
EXTENDS Naturals, Sequences, FiniteSets, SequencesExt

CONSTANTS Name,          \* normalised names of entities, all of one type
          Id,            \* ids a model gives, disjoint from Name
          MaxUnits,      \* bound: assigned chunks
          Workers,       \* EXTRACTION_WORKERS
          FailureLimit   \* CONSECUTIVE_FAILURE_LIMIT

ASSUME UnitsAssumption ==
    MaxUnits \in Nat /\ Workers \in Nat \ {0} /\ FailureLimit \in Nat \ {0}

\* An id computed from a name is none a model gives (_disambiguated_entity_id).
ASSUME IdsAssumption == Id \cap Name = {}

VARIABLES
    units,      \* the number of units
    future,     \* what became of the operation on each unit
    log,        \* the progress events of collected units, in the order reported
    streak,     \* consecutive_failures
    call,       \* where the tool call is
    answers,    \* the answers of the successful units, by increasing index
    written     \* unstructured_draft.json, <<>> when none is written

unitVars == <<units, future, log, streak, call, answers, written>>

Unit == 1..units
With(status) == {i \in Unit : future[i] = status}
Results == With("done")
Skipped == With("skipped")

\* The pool is filled with the first units.
UnitsInit ==
    /\ units \in 1..MaxUnits
    /\ future = [i \in Unit |-> IF i <= Workers THEN "queued" ELSE "waiting"]
    /\ log = <<>> /\ streak = 0 /\ call = "loop" /\ answers = <<>> /\ written = <<>>

-----------------------------------------------------------------------------
(* The loop of run_parallel_units *)

Advance(i, from, to) ==
    /\ future[i] = from
    /\ future' = [future EXCEPT ![i] = to]
    /\ UNCHANGED <<units, log, streak, call, answers, written>>

\* A thread of the pool takes a unit; its operation returns or raises.
StartUnit(i)  == Advance(i, "queued", "running")
ReturnUnit(i) == Advance(i, "running", "returned")
RaiseUnit(i)  == Advance(i, "running", "raised")

Report(status) == log' = Append(log, status)

\* The next unit takes the place of a collected one.
NextSubmitted(f) ==
    LET waiting == {i \in Unit : f[i] = "waiting"} IN
    IF waiting = {} THEN f
    ELSE [f EXCEPT ![CHOOSE i \in waiting : \A j \in waiting : i <= j] = "queued"]

\* Mutant: the streak goes on over a success.
StreakAfter(old) == old

\* A success ends the streak.
StreakBroken(old) == 0

\* The loop takes any future that has completed.
CollectResult(i) ==
    /\ call = "loop" /\ future[i] = "returned"
    /\ future' = NextSubmitted([future EXCEPT ![i] = "done"])
    /\ Report("done")
    /\ streak' = StreakBroken(streak)
    /\ UNCHANGED <<units, call, answers, written>>

CollectFailure(i) ==
    /\ call = "loop" /\ future[i] = "raised"
    /\ Report("skipped")
    /\ streak' = streak + 1
    /\ IF streak' >= FailureLimit
       THEN /\ call' = "leaving"
            /\ future' = [j \in Unit |-> IF j = i THEN "skipped"
                                         ELSE IF future[j] = "queued" THEN "cancelled"
                                         ELSE future[j]]
       ELSE /\ call' = call
            /\ future' = NextSubmitted([future EXCEPT ![i] = "skipped"])
    /\ UNCHANGED <<units, answers, written>>

\* Mutant: the pool is left without waiting for its threads.
LeaveAtOnce == call = "leaving"

\* Leaving the pool waits for the operations that still run.
PoolEmpty == call = "leaving" /\ With("running") = {}

StopStage ==
    /\ PoolEmpty
    /\ call' = "stopped"
    /\ UNCHANGED <<units, future, log, streak, answers, written>>

AllCollected == call = "loop" /\ Unit = Results \cup Skipped

NoResult ==
    /\ AllCollected /\ Results = {}
    /\ call' = "no_result"
    /\ UNCHANGED <<units, future, log, streak, answers, written>>

-----------------------------------------------------------------------------
(* merge_draft: drafts and answers are [entities, relations], where an     *)
(* entity is [id, name, refs] and a relation [head, tail, refs]; refs are  *)
(* the chunks that state it, each named by the index of its answer.        *)

EmptyDraft == [entities |-> <<>>, relations |-> {}]
Ids(draft) == {draft.entities[k].id : k \in DOMAIN draft.entities}
Names(draft) == {draft.entities[k].name : k \in DOMAIN draft.entities}
IdOfName(draft, name) == {draft.entities[k].id : k \in
                             {m \in DOMAIN draft.entities : draft.entities[m].name = name}}

\* A known name keeps its id; an id in use by another name gives way to one
\* computed from the name, which stands for itself here.
CanonicalId(draft, e) ==
    IF e.name \in Names(draft) THEN CHOOSE id \in IdOfName(draft, e.name) : TRUE
    ELSE IF e.id \in Ids(draft) THEN e.name ELSE e.id

\* A record that is known gains the chunks of the other one; values, of which the
\* preferred one stays, are abstracted.
MergeRecord(current, incoming) == [current EXCEPT !.refs = @ \cup incoming.refs]

\* One entity of an answer; id_aliases are pairs of an old and a new id.
MergeEntity(acc, e) ==
    LET id == CanonicalId(acc.draft, e) IN
    [draft   |-> IF id \in Ids(acc.draft)
                 THEN [acc.draft EXCEPT !.entities =
                          [k \in DOMAIN @ |-> IF @[k].id = id THEN MergeRecord(@[k], e) ELSE @[k]]]
                 ELSE [acc.draft EXCEPT !.entities = Append(@, [e EXCEPT !.id = id])],
     aliases |-> IF id = e.id THEN acc.aliases
                 ELSE {a \in acc.aliases : a[1] # e.id} \cup {<<e.id, id>>}]

\* Mutant: relations keep the ids of their answer.
Unaliased(aliases, id) == id

Rewritten(aliases, id) ==
    IF \E a \in aliases : a[1] = id THEN (CHOOSE a \in aliases : a[1] = id)[2] ELSE id

SameEnds(r, q) == r.head = q.head /\ r.tail = q.tail

\* Relations with the same ends are one relation.
MergeRelations(known, incoming) ==
    {[r EXCEPT !.refs = UNION {q.refs : q \in {p \in known \cup incoming : SameEnds(p, r)}}]
     : r \in known \cup incoming}

\* The states of the loop over the entities of a batch.
EntityLoop(draft, entities) ==
    LET acc[k \in 0..Len(entities)] ==
            IF k = 0 THEN [draft |-> draft, aliases |-> {}] ELSE MergeEntity(acc[k - 1], entities[k])
    IN acc

MergeDraft(draft, batch) ==
    LET acc == EntityLoop(draft, batch.entities)[Len(batch.entities)] IN
    [acc.draft EXCEPT !.relations = MergeRelations(@,
        {[r EXCEPT !.head = Rewritten(acc.aliases, @), !.tail = Rewritten(acc.aliases, @)]
         : r \in batch.relations})]

\* The states of the loop over the batches.
DraftLoop(batches) ==
    LET merged[k \in 0..Len(batches)] ==
            IF k = 0 THEN EmptyDraft ELSE MergeDraft(merged[k - 1], batches[k])
    IN merged

MergeAll(batches) == DraftLoop(batches)[Len(batches)]

\* _remove_relations_with_missing_endpoints
WithoutDangling(draft) == [draft EXCEPT !.relations = {r \in @ : {r.head, r.tail} \subseteq Ids(draft)}]

\* What a model may answer: ids may be reused inside an answer, and a relation
\* may name an id the answer does not define. Entities said twice are left out.
Answer == [entities  : {e \in UNION {[1..k -> [id : Id, name : Name]] : k \in 0..2} : IsInjective(e)},
           relations : {{}} \cup {{r} : r \in {p \in Id \X Id : p[1] # p[2]}}]

\* normalize_instance_batch: what an answer states is bound to the chunk of its
\* unit, since the contract of answers has no references.
GroundedEntity(e, k) == [id |-> e.id, name |-> e.name, refs |-> {k}]
GroundedRelation(r, k) == [head |-> r[1], tail |-> r[2], refs |-> {k}]
Grounded(answer, k) ==
    [entities  |-> [m \in DOMAIN answer.entities |-> GroundedEntity(answer.entities[m], k)],
     relations |-> {GroundedRelation(r, k) : r \in answer.relations}]

\* The answers are merged by unit, not by arrival. The content of an answer
\* matters from here on only, so it is chosen here.
WriteDraft ==
    /\ AllCollected /\ Results # {}
    /\ \E said \in [1..Cardinality(Results) -> Answer] :
         answers' = [k \in DOMAIN said |-> Grounded(said[k], k)]
    /\ written' = <<WithoutDangling(MergeAll(answers'))>>
    /\ call' = "written"
    /\ UNCHANGED <<units, future, log, streak>>

UnitsNext ==
    \/ \E i \in Unit : \/ StartUnit(i) \/ ReturnUnit(i) \/ RaiseUnit(i)
                       \/ CollectResult(i) \/ CollectFailure(i)
    \/ StopStage \/ NoResult \/ WriteDraft

UnitsSpec == UnitsInit /\ [][UnitsNext]_unitVars

-----------------------------------------------------------------------------
(* Properties *)

\* Where a tool call ends, no operation on a unit is still at work: nothing it
\* does can reach a later attempt. Where it ends with a draft, every unit was
\* collected, once, as a result or as skipped.
UnitsAccounted ==
    call \in {"stopped", "no_result", "written"} =>
        /\ With("queued") \cup With("running") = {}
        /\ call = "written" =>
             /\ Len(log) = units
             /\ Results \cup Skipped = Unit
             /\ Len(answers) = Cardinality(Results)

\* The stage stops exactly when the reported units end with a full row of
\* failures, in the order they were reported: slow successes of earlier units
\* do not count, and a success in between starts the row again.
FailedRow == /\ Len(log) >= FailureLimit
             /\ \A k \in (Len(log) - FailureLimit + 1)..Len(log) : log[k] = "skipped"
StopsInRow == call \in {"leaving", "stopped"} <=> FailedRow

\* An id that stands for one entity in an answer, and that entity's name.
OwnName(batch, id) ==
    LET named == {batch.entities[k].name : k \in
                     {m \in DOMAIN batch.entities : batch.entities[m].id = id}} IN
    IF Cardinality(named) = 1 THEN named ELSE {}

\* A draft relates two names, with some references.
Related(draft, h, t, refs) ==
    \E q \in draft.relations :
        OwnName(draft, q.head) = {h} /\ OwnName(draft, q.tail) = {t} /\ refs \subseteq q.refs

\* Each entity of the batches is in the draft under its name, names and ids
\* are unique, and it refers to exactly the chunks that name it. A relation
\* between two entities of an answer still relates the entities with those
\* names, and refers to its chunk.
Faithful(batches, draft) ==
    /\ Names(draft) = UNION {Names(batches[k]) : k \in DOMAIN batches}
    /\ Cardinality(Names(draft)) = Len(draft.entities)
    /\ Cardinality(Ids(draft)) = Len(draft.entities)
    /\ \A e \in ToSet(draft.entities) :
         e.refs = UNION UNION {{b.refs : b \in {c \in ToSet(batches[k].entities) : c.name = e.name}}
                               : k \in DOMAIN batches}
    /\ \A k \in DOMAIN batches : \A r \in batches[k].relations :
         \A h \in OwnName(batches[k], r.head), t \in OwnName(batches[k], r.tail) :
           Related(draft, h, t, r.refs)

\* No answer changes what another one said: reused ids neither join two
\* entities nor move a relation to another entity, and every fact keeps its
\* provenance, in the draft of a stage and in the published facts, where a
\* follow-up's draft is merged with the accepted draft it extends
\* (merge_final_drafts).
DraftFaithful ==
    call = "written" =>
        /\ Faithful(answers, written[1])
        /\ \A k \in 1..Len(answers) - 1 :
            Faithful(answers, MergeAll(<<WithoutDangling(MergeAll(SubSeq(answers, 1, k))),
                                         WithoutDangling(MergeAll(SubSeq(answers, k + 1, Len(answers))))>>))
=============================================================================
