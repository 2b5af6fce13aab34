---------------------------- MODULE SchemaDesign ----------------------------
(***************************************************************************)
(* The schema of a Workspace. A tool asks the model for one candidate per  *)
(* chunk and merges them into advice. The agent then saves batches that    *)
(* change a blueprint; the blueprint is compiled to Python source, which   *)
(* is what the build keeps. The user edits the source as a form, and the   *)
(* next attempt, after a judge, a user or a follow-up asks for it, starts  *)
(* from a blueprint that is read back from the source.                     *)
(***************************************************************************)
EXTENDS Naturals, FiniteSets, Sequences, FiniteSetsExt, SequencesExt

CONSTANTS Type,            \* entity names, and relation names among others
          Relation,        \* further relation names
          Field,           \* attribute names, which a relation may have too
          Spelling,        \* spellings of a name that differ in case only
          Designer,        \* save_schema calls that run at the same time
          MaxCandidates,   \* bound: chunks with a valid candidate
          MaxBatch,        \* bound: definitions and removals in one save
          MaxSaves,        \* bound: save_schema calls
          MaxEdits         \* bound: saved forms, requests to revise, lost attempts

VARIABLES
    design,      \* what the build does next about the schema
    candidates,  \* the valid candidates of the chunks
    advice,      \* schema_candidates.json
    blueprint,   \* schema_blueprint.json of the attempt, {} when there is none
    compiled,    \* schema_draft.py of the attempt, {} when there is none
    source,      \* schema_source of the build, {} before the first
    revalidate,  \* requires_revalidation
    saving,      \* the running saves
    named,       \* what the saves of this attempt, or this form, have named
    saved, edits

schemaVars == <<design, candidates, advice, blueprint, compiled, source, revalidate, saving, named,
                saved, edits>>

-----------------------------------------------------------------------------
(* Candidates. A name is a pair of what casefold makes of it and its       *)
(* spelling; ids, attributes and descriptions are merged like the names.   *)

Spelled == Type \X Spelling
Folded(name) == name[1]

NoAdvice == [entities |-> {}, relations |-> {}]

\* What the model may return for a chunk: two lists.
Candidate ==
    [entities  : {<<>>} \cup {<<a>> : a \in Spelled} \cup {<<p[1], p[2]>> : p \in Spelled \X Spelled},
     relations : {<<>>} \cup {<<[name |-> n, head |-> h, tail |-> t]>> :
                                 n \in Relation \X Spelling, h \in Spelled, t \in Spelled}]

\* Mutant: an endpoint need only be an entity of some chunk.
ValidAlone(c) == c.entities # <<>> \/ c.relations = <<>>

\* _build_one compiles each candidate by itself: names are exact and unique,
\* and a relation joins entities of the same candidate. It would also accept
\* other keys (entity_type, head_entity_type) that the merge does not read; the
\* format the model is asked to answer in has none of them.
ValidCandidate(c) ==
    /\ IsInjective(c.entities)
    /\ \A r \in ToSet(c.relations) : {r.head, r.tail} \subseteq ToSet(c.entities)

\* Where the merge finds records: the chunk, and the place in its list.
Places(lists) == UNION {{k} \X DOMAIN lists[k] : k \in DOMAIN lists}
NotAfter(p, q) == p[1] < q[1] \/ (p[1] = q[1] /\ p[2] <= q[2])

\* The spellings, and the relations, seen under one name, by their places.
SpellingsOf(all, f) ==
    LET places == Places([k \in DOMAIN all |-> all[k].entities])
    IN [p \in {q \in places : Folded(all[q[1]].entities[q[2]]) = f} |-> all[p[1]].entities[p[2]]]
RelationsOf(all, f) ==
    LET places == Places([k \in DOMAIN all |-> all[k].relations])
    IN [p \in {q \in places : Folded(all[q[1]].relations[q[2]].name) = f} |-> all[p[1]].relations[p[2]]]

\* The most frequent value, the first of them on a tie.
Count(values, p) == Cardinality({q \in DOMAIN values : values[q] = values[p]})
Preferred(values) ==
    LET most == {p \in DOMAIN values : \A q \in DOMAIN values : Count(values, q) <= Count(values, p)}
    IN values[CHOOSE p \in most : \A q \in most : NotAfter(p, q)]

\* _merge_candidates
Merged(all) ==
    LET types == {f \in Type : DOMAIN SpellingsOf(all, f) # {}}
        canonical == [f \in types |-> Preferred(SpellingsOf(all, f))]
        chosen == {Preferred(RelationsOf(all, f)) :
                      f \in {g \in Relation : DOMAIN RelationsOf(all, g) # {}}}
    IN [entities  |-> {canonical[f] : f \in types},
        relations |-> {[r EXCEPT !.head = IF Folded(@) \in types THEN canonical[Folded(@)] ELSE @,
                                 !.tail = IF Folded(@) \in types THEN canonical[Folded(@)] ELSE @]
                       : r \in chosen}]

SchemaInit ==
    /\ design = "candidates" /\ candidates = <<>> /\ advice = NoAdvice
    /\ blueprint = {} /\ compiled = {} /\ source = {} /\ revalidate = FALSE
    /\ saving = [s \in Designer |-> [pc |-> "idle", next |-> {}]]
    /\ named = {} /\ saved = 0 /\ edits = 0

\* An invalid candidate is a skipped chunk.
ReturnCandidate ==
    /\ design = "candidates" /\ Len(candidates) < MaxCandidates
    /\ \E c \in Candidate : ValidCandidate(c) /\ candidates' = Append(candidates, c)
    /\ UNCHANGED <<design, advice, blueprint, compiled, source, revalidate, saving, named, saved,
                   edits>>

MergeCandidates ==
    /\ design = "candidates" /\ candidates # <<>>
    /\ advice' = Merged(candidates)
    /\ design' = "advised"
    /\ UNCHANGED <<candidates, blueprint, compiled, source, revalidate, saving, named, saved, edits>>

\* The agent is free in what it makes of the advice.
ReadAdvice ==
    /\ design = "advised"
    /\ design' = "build" /\ candidates' = <<>> /\ advice' = NoAdvice
    /\ UNCHANGED <<blueprint, compiled, source, revalidate, saving, named, saved, edits>>

-----------------------------------------------------------------------------
(* Blueprints are sets of definitions; types and the cardinality of        *)
(* relations are abstracted, and so are descriptions, which the way        *)
(* through docstrings may change: a backslash is read back as an escape,   *)
(* and three double quotes come back as single ones.                       *)

Entity(name, fields) == [kind |-> "entity", name |-> name, fields |-> fields]
Link(name, head, tail) == [kind |-> "relation", name |-> name, head |-> head, tail |-> tail]

Definition ==
    {Entity(n, fields) : n \in Type, fields \in SUBSET (Field \cup {"name"})} \cup
    {Link(n, h, t) : n \in Relation \cup Field, h \in Type, t \in Type}

Key(d) == [kind |-> d.kind, name |-> d.name]
Keys(b) == {Key(d) : d \in b}
Entities(b) == {d \in b : d.kind = "entity"}
Links(b) == {d \in b : d.kind = "relation"}

\* Complete definitions to put, and names to remove.
Batch == {[put |-> Range(change) \cap Definition, drop |-> Range(change) \ Definition] :
             change \in [1..MaxBatch -> Definition \cup Keys(Definition)]}

\* merge_schema_blueprint: a removal must name something, a batch must not
\* contradict itself, and an entity must remain.
WithBatch(b, batch) == {d \in b : Key(d) \notin batch.drop \cup Keys(batch.put)} \cup batch.put
Applies(b, batch) ==
    /\ batch.drop \subseteq Keys(b)
    /\ Cardinality(Keys(batch.put)) = Cardinality(batch.put)
    /\ Entities(WithBatch(b, batch)) # {}

\* schema_from_review gives every entity the attribute name by itself.
Source(b) == {[d EXCEPT !.fields = @ \cup {"name"}] : d \in Entities(b)} \cup Links(b)

\* The annotation of a field tells attributes from relations.
Fields(src, e) == e.fields \cup {r.name : r \in {q \in Links(src) : q.head = e.name}}

\* parse_schema, on what schema_from_review writes: names are unique, relations
\* join entities, and no relation has the name of an attribute of its head.
Compiles(b) ==
    /\ Entities(b) # {} /\ Cardinality(Keys(b)) = Cardinality(b)
    /\ \A r \in Links(b) : {r.head, r.tail} \subseteq {e.name : e \in Entities(b)}
    /\ \A e \in Entities(Source(b)) :
         Cardinality(Fields(Source(b), e)) =
             Cardinality(e.fields) + Cardinality({r \in Links(b) : r.head = e.name})

\* schema_blueprint_from_source and form_from_schema leave the attribute out.
BlueprintOf(src) == {[d EXCEPT !.fields = @ \ {"name"}] : d \in Entities(src)} \cup Links(src)
FormOf(src) == BlueprintOf(src)

-----------------------------------------------------------------------------
(* SchemaWriter.save *)

\* Mutant: an attempt starts from an empty blueprint.
OwnBlueprint == blueprint

\* The attempt's own blueprint, or the schema of the build when it has none yet.
Blueprint == IF blueprint # {} THEN blueprint ELSE BlueprintOf(source)

\* Reading, merging and compiling. A refused batch changes nothing.
BeginSave(s) ==
    /\ design = "build" /\ saving[s].pc = "idle" /\ saved < MaxSaves
    /\ \E batch \in Batch :
         /\ Applies(Blueprint, batch) /\ Compiles(WithBatch(Blueprint, batch))
         /\ saving' = [saving EXCEPT ![s] = [pc |-> "merged", next |-> WithBatch(Blueprint, batch)]]
         /\ named' = named \cup Keys(batch.put) \cup batch.drop
    /\ saved' = saved + 1
    /\ UNCHANGED <<design, candidates, advice, blueprint, compiled, source, revalidate, edits>>

\* The blueprint is written before the draft.
WriteBlueprint(s) ==
    /\ saving[s].pc = "merged"
    /\ blueprint' = saving[s].next
    /\ saving' = [saving EXCEPT ![s].pc = "blueprint"]
    /\ UNCHANGED <<design, candidates, advice, compiled, source, revalidate, named, saved, edits>>

WriteCompiled(s) ==
    /\ saving[s].pc = "blueprint"
    /\ compiled' = Source(saving[s].next)
    /\ saving' = [saving EXCEPT ![s] = [pc |-> "idle", next |-> {}]]
    /\ UNCHANGED <<design, candidates, advice, blueprint, source, revalidate, named, saved, edits>>

\* A write may raise; the agent is told and may go on.
SaveRaises(s) ==
    /\ saving[s].pc # "idle" /\ edits < MaxEdits
    /\ saving' = [saving EXCEPT ![s] = [pc |-> "idle", next |-> {}]]
    /\ edits' = edits + 1
    /\ UNCHANGED <<design, candidates, advice, blueprint, compiled, source, revalidate, named, saved>>

NewAttempt ==
    /\ blueprint' = {} /\ compiled' = {} /\ named' = {}
    /\ saving' = [s \in Designer |-> [pc |-> "idle", next |-> {}]]

\* The attempt is rejected, times out or is killed, and retried.
LoseAttempt ==
    /\ design = "build" /\ edits < MaxEdits
    /\ NewAttempt
    /\ edits' = edits + 1
    /\ UNCHANGED <<design, candidates, advice, source, revalidate, saved>>

-----------------------------------------------------------------------------
(* The schema of the build *)

\* The worker answers when its calls have returned; the draft is accepted.
AcceptSchema ==
    /\ design = "build" /\ compiled # {} /\ \A s \in Designer : saving[s].pc = "idle"
    /\ source' = compiled
    /\ design' = "judge"
    /\ UNCHANGED <<candidates, advice, blueprint, compiled, revalidate, saving, named, saved, edits>>

JudgePasses ==
    /\ design = "judge"
    /\ design' = "gate" /\ revalidate' = FALSE
    /\ UNCHANGED <<candidates, advice, blueprint, compiled, source, saving, named, saved, edits>>

\* The judge, the user at the gate, or a follow-up of a finished build ask for
\* another attempt.
Revise ==
    /\ design \in {"judge", "gate", "documented"} /\ edits < MaxEdits
    /\ NewAttempt
    /\ design' = "build"
    /\ edits' = edits + 1
    /\ UNCHANGED <<candidates, advice, source, revalidate, saved>>

\* ReviewService.save: the form shows the source; the user changes some of it.
\* The form is compiled, and kept only if its outline differs.
SaveForm ==
    /\ design = "gate" /\ edits < MaxEdits
    /\ \E batch \in Batch :
         LET form == WithBatch(FormOf(source), batch) IN
         /\ Compiles(form)
         /\ source' = (IF Source(form) # source THEN Source(form) ELSE source)
         /\ revalidate' = (Source(form) # source)
         /\ named' = Keys(batch.put) \cup batch.drop
    /\ edits' = edits + 1
    /\ UNCHANGED <<design, candidates, advice, blueprint, compiled, saving, saved>>

ConfirmSchema ==
    /\ design = "gate"
    /\ design' = IF revalidate THEN "judge" ELSE "extract"
    /\ UNCHANGED <<candidates, advice, blueprint, compiled, source, revalidate, saving, named,
                   saved, edits>>

\* The input of the document stage parses the schema as one with relations;
\* every other place accepts a schema without.
DocumentInput ==
    /\ design = "extract"
    /\ design' = IF Links(source) = {} THEN "refused" ELSE "documented"
    /\ UNCHANGED <<candidates, advice, blueprint, compiled, source, revalidate, saving, named,
                   saved, edits>>

SchemaNext ==
    \/ ReturnCandidate \/ MergeCandidates \/ ReadAdvice
    \/ \E s \in Designer : BeginSave(s) \/ WriteBlueprint(s) \/ WriteCompiled(s) \/ SaveRaises(s)
    \/ LoseAttempt \/ AcceptSchema \/ JudgePasses \/ Revise \/ SaveForm \/ ConfirmSchema
    \/ DocumentInput

SchemaSpec == SchemaInit /\ [][SchemaNext]_schemaVars

-----------------------------------------------------------------------------
(* Properties *)

\* The merged candidates are closed: whichever spellings and definitions the
\* votes prefer, each endpoint is a merged entity, no name comes twice in two
\* spellings, and no name is lost. The refusal of _merge_candidates over an
\* unknown entity cannot happen.
AdviceResolves ==
    design = "advised" =>
        LET entities == {Folded(n) : n \in advice.entities} IN
        /\ \A r \in advice.relations : {r.head, r.tail} \subseteq advice.entities
        /\ Cardinality(entities) = Cardinality(advice.entities)
        /\ entities = UNION {{Folded(n) : n \in ToSet(c.entities)} : c \in ToSet(candidates)}
        /\ {Folded(r.name) : r \in advice.relations} =
               UNION {{Folded(r.name) : r \in ToSet(c.relations)} : c \in ToSet(candidates)}

\* The schema of the build changes only where an accepted attempt's saves, or
\* the user's form, have named a definition: nothing else is lost or altered on
\* the way from source to blueprint or form and back, whichever attempts failed
\* and whichever saves ran at the same time.
OnlyNamedChange ==
    [][\A d \in Definition : Key(d) \notin named' => (d \in source <=> d \in source')]_source
=============================================================================
