-------------------------- MODULE EvidenceSources --------------------------
(***************************************************************************)
(* The evidence of a Workspace, from the pages a worker fetches to the     *)
(* facts of the published Workspace, and through later follow-ups. A saved *)
(* manifest names chunks of web pages. The chunks are files of the         *)
(* Session, one file per page, shared by all attempts and all follow-ups,  *)
(* and every fact refers to the chunk it was extracted from. A page is the *)
(* same source whenever its address and content are the same, so a later   *)
(* attempt meets the files of an earlier one, also of one that was killed. *)
(* The steps stay the same: a follow-up that extends the problem and words *)
(* them anew is in PublishedFiles.                                         *)
(***************************************************************************)
EXTENDS Naturals, FiniteSets, FiniteSetsExt

CONSTANTS Page,          \* web pages, by address and content
          Chunk,         \* chunks of a page
          Step,          \* confirmed research steps
          Saver,         \* save_evidence_manifest calls that run at the same time
          MaxPicks,      \* bound: chunks selected in one save
          MaxAttempts,   \* bound: attempts that end without an accepted result
          MaxFollowUps   \* bound: follow-ups of the Workspace

ASSUME BoundsAssumption ==
    MaxPicks \in Nat /\ MaxAttempts \in Nat /\ MaxFollowUps \in Nat

\* A page is cut into finitely many chunks, which are counted.
ASSUME ChunksAssumption == IsFiniteSet(Chunk)

VARIABLES
    phase,      \* what the build does next; the schema stages are passed over
    pending,    \* pending_evidence_step_indexes: the steps of the follow-up
    replace,    \* replace_instances
    coverage,   \* accepted chunk_refs of each step
    outcome,    \* what the attempt's fetch ledger says of each page
    saves,      \* the running saves
    manifest,   \* evidence_manifest.json of the attempt, as its chunk_refs
    record,     \* source manifest: the registered chunk_count, 0 when unregistered
    file,       \* chunks.jsonl of each source
    draft,      \* chunk references of the facts in the accepted draft
    processed,  \* processed_source_ids of the extraction
    baseline,   \* chunk references of the facts in stages/baseline
    workspace,  \* chunk references of the facts in the published Workspace
    attempts,   \* attempts that have ended without a result
    followUps   \* follow-ups so far

accepted == <<coverage, draft, processed, baseline, workspace>>
vars == <<phase, pending, replace, accepted, outcome, saves, manifest, record, file, attempts,
          followUps>>

Ref == Page \X Chunk
NoManifest == [step \in {} |-> {}]
Idle == [pc |-> "idle", picks |-> {}, manifest |-> NoManifest, todo |-> {}, page |-> {}]

\* The pages and the chunks of a page in a set of references.
Pages(refs) == {ref[1] : ref \in refs}
ChunksOf(refs, p) == {ref[2] : ref \in {r \in refs : r[1] = p}}
Covered(c) == UNION {c[s] : s \in DOMAIN c}

Init ==
    /\ phase = "collect" /\ pending = {} /\ replace = FALSE
    /\ coverage = [s \in Step |-> {}]
    /\ outcome = [p \in Page |-> "none"]
    /\ saves = [i \in Saver |-> Idle]
    /\ manifest = NoManifest
    /\ record = [p \in Page |-> 0]
    /\ file = [p \in Page |-> {}]
    /\ draft = {} /\ processed = {} /\ baseline = {}
    /\ workspace = {}
    /\ attempts = 0 /\ followUps = 0

-----------------------------------------------------------------------------
(* Collecting evidence *)

\* fetch_web_pages: what the attempt has fetched, or failed to fetch, is not
\* fetched again.
Fetch(p) ==
    /\ phase = "collect"
    /\ outcome[p] = "none"
    /\ \E result \in {"completed", "failed"} : outcome' = [outcome EXCEPT ![p] = result]
    /\ UNCHANGED <<phase, pending, replace, accepted, saves, manifest, record, file, attempts, followUps>>

\* The selected web sources of a save: chunks of fetched pages, bound to steps.
Selections == {picks \in UNION {kSubset(n, Step \X Ref) : n \in 0..MaxPicks} :
                  \A pick \in picks : outcome[pick[2][1]] = "completed"}

Selected(picks, s) == {pick[2] : pick \in {k \in picks : k[1] = s}}
SelectedRefs(picks) == {pick[2] : pick \in picks}

\* Mutant: the selection of a step takes the place of its accepted references.
BoundAnew(picks) ==
    [s \in Step |-> IF Selected(picks, s) # {} THEN Selected(picks, s) ELSE coverage[s]]

\* normalize_evidence_candidate keeps what is accepted for a step.
BoundRefs(picks) == [s \in Step |-> coverage[s] \cup Selected(picks, s)]

\* The registered record differs from the prepared one when their numbers of
\* chunks differ; which chunks they are is not in the record, but its title and
\* the requested address are, and may differ too.
Conflicts(p, n) == record[p] \notin {0, n}
Number(picks, p) == Cardinality(ChunksOf(SelectedRefs(picks), p))

\* EvidenceWriter.save up to the first write: prepare and normalise. A save that
\* is refused here has written nothing.
Prepare(i) ==
    /\ phase = "collect" /\ saves[i].pc = "idle"
    /\ \E picks \in Selections :
         /\ \A p \in Pages(SelectedRefs(picks)) : ~Conflicts(p, Number(picks, p))
         /\ saves' = [saves EXCEPT ![i] =
               [pc |-> "next", picks |-> SelectedRefs(picks), manifest |-> BoundRefs(picks),
                todo |-> Pages(SelectedRefs(picks)), page |-> {}]]
    /\ UNCHANGED <<phase, pending, replace, accepted, outcome, manifest, record, file, attempts, followUps>>

\* register_prepared_fetch_sources writes a page's files ...
WriteFiles(i) ==
    /\ saves[i].pc = "next"
    /\ \E p \in saves[i].todo :
         /\ file' = [file EXCEPT ![p] = ChunksOf(saves[i].picks, p)]
         /\ saves' = [saves EXCEPT ![i].pc = "written", ![i].page = {p}, ![i].todo = @ \ {p}]
    /\ UNCHANGED <<phase, pending, replace, accepted, outcome, manifest, record, attempts, followUps>>

\* ... and then registers it. SourceRepository.register refuses a record that
\* differs from the registered one in any field, which ends the save.
Register(i) ==
    /\ saves[i].pc = "written"
    /\ \E p \in saves[i].page :
         LET n == Cardinality(ChunksOf(saves[i].picks, p)) IN
         \/ /\ record[p] # 0
            /\ saves' = [saves EXCEPT ![i] = Idle] /\ UNCHANGED record
         \/ /\ ~Conflicts(p, n)
            /\ saves' = [saves EXCEPT ![i].pc = "next", ![i].page = {}]
            /\ record' = [record EXCEPT ![p] = n]
    /\ UNCHANGED <<phase, pending, replace, accepted, outcome, manifest, file, attempts, followUps>>

\* Mutant: the manifest is written although a source is still to be registered.
PersistEarly(i) ==
    /\ saves[i].pc = "next"
    /\ manifest' = saves[i].manifest
    /\ saves' = [saves EXCEPT ![i] = Idle]
    /\ UNCHANGED <<phase, pending, replace, accepted, outcome, record, file, attempts, followUps>>

\* The manifest is persisted after all its sources.
Persist(i) ==
    /\ saves[i].pc = "next" /\ saves[i].todo = {}
    /\ manifest' = saves[i].manifest
    /\ saves' = [saves EXCEPT ![i] = Idle]
    /\ UNCHANGED <<phase, pending, replace, accepted, outcome, record, file, attempts, followUps>>

\* The attempt is rejected, times out or its worker is killed, between any two
\* steps of a save; a retry starts another one. Files and records stay.
AttemptEnds ==
    /\ phase = "collect" /\ attempts < MaxAttempts
    /\ attempts' = attempts + 1
    /\ outcome' = [p \in Page |-> "none"]
    /\ saves' = [i \in Saver |-> Idle]
    /\ manifest' = NoManifest
    /\ UNCHANGED <<phase, pending, replace, accepted, record, file, followUps>>

\* The saved manifest is validated and accepted. The validator compares the
\* references with the manifest's own sources only.
Accept ==
    /\ phase = "collect" /\ manifest # NoManifest
    /\ \A i \in Saver : saves[i].pc = "idle"
    /\ coverage' = manifest
    /\ outcome' = [p \in Page |-> "none"]
    /\ manifest' = NoManifest
    /\ phase' = "extract"
    /\ UNCHANGED <<pending, replace, saves, record, file, draft, processed, baseline, workspace,
                   attempts, followUps>>

-----------------------------------------------------------------------------
(* Extraction *)

\* _affected_extraction_step_indexes
Affected == IF pending = {} THEN Step ELSE pending

\* Mutant: every chunk of an assigned page is a unit.
AllChunks(remaining) == {ref \in Ref : ref[1] \in remaining}

\* _extraction_units_for_sources: one unit per selected chunk of a remaining page.
Units(remaining) == {ref \in UNION {coverage[s] : s \in Affected} : ref[1] \in remaining}

\* _sources_for_step_indexes
Assigned == Pages(UNION {coverage[s] : s \in Affected})

\* The assigned pages that no earlier extraction has processed.
Remaining == Assigned \ processed

\* _assigned_chunks skips a reference whose chunk is not in its file.
OnDisk(refs) == {ref \in refs : ref[2] \in file[ref[1]]}

\* Each chunk yields facts or none. All assigned pages count as processed.
Extract ==
    /\ phase = "extract"
    /\ IF Remaining = {}
       THEN draft' = {}
       ELSE /\ OnDisk(Units(Remaining)) # {}
            /\ draft' \in SUBSET OnDisk(Units(Remaining))
    /\ processed' = processed \cup Remaining
    /\ phase' = "finalize"
    /\ UNCHANGED <<pending, replace, coverage, baseline, workspace, outcome, saves,
                   manifest, record, file, attempts, followUps>>

-----------------------------------------------------------------------------
(* Publication *)

\* Mutant: the accepted draft replaces the published facts.
DraftOnly == draft

\* _accepted_draft_paths and merge_final_drafts
Facts == draft \cup (IF replace THEN {} ELSE baseline)

\* _complete_referenced_sources: the accepted sources and those the facts name.
PublishedPages == Pages(Covered(coverage)) \cup Pages(Facts)

\* _chunk_records
KnownRefs == OnDisk({ref \in Ref : ref[1] \in PublishedPages})

\* WorkspaceRepository.commit refuses a reference to an unknown chunk.
Accepts(facts) == facts \subseteq KnownRefs

Finalize ==
    /\ phase = "finalize"
    /\ IF Accepts(Facts)
       THEN /\ workspace' = Facts
            /\ phase' = "ready" /\ pending' = {} /\ replace' = FALSE
       ELSE /\ phase' = "failed"
            /\ UNCHANGED <<workspace, pending, replace>>
    /\ UNCHANGED <<coverage, draft, processed, baseline, outcome, saves, manifest, record, file,
                   attempts, followUps>>

\* A failed build is retried where it failed.
Retry ==
    /\ phase = "failed"
    /\ phase' = "finalize"
    /\ UNCHANGED <<pending, replace, accepted, outcome, saves, manifest, record, file, attempts, followUps>>

\* The published facts are the baseline of the follow-up.
Snapshot == baseline' = workspace

\* A follow-up with new evidence for some steps.
FollowUpEvidence ==
    /\ phase = "ready" /\ followUps < MaxFollowUps
    /\ pending' \in SUBSET Step \ {{}}
    /\ Snapshot
    /\ draft' = {}
    /\ phase' = "collect"
    /\ followUps' = followUps + 1
    /\ UNCHANGED <<replace, coverage, processed, workspace, outcome, saves, manifest,
                   record, file, attempts>>

\* A follow-up that extracts all instances again.
FollowUpInstances ==
    /\ phase = "ready" /\ followUps < MaxFollowUps
    /\ replace' = TRUE
    /\ Snapshot
    /\ draft' = {} /\ processed' = {}
    /\ phase' = "extract"
    /\ followUps' = followUps + 1
    /\ UNCHANGED <<pending, coverage, workspace, outcome, saves, manifest, record, file,
                   attempts>>

Next ==
    \/ \E p \in Page : Fetch(p)
    \/ \E i \in Saver : Prepare(i) \/ WriteFiles(i) \/ Register(i) \/ Persist(i)
    \/ AttemptEnds \/ Accept \/ Extract \/ Finalize \/ Retry \/ FollowUpEvidence \/ FollowUpInstances

Spec == Init /\ [][Next]_vars

-----------------------------------------------------------------------------
(* Properties *)

\* A registered source has its chunks on disk, and every source of a saved or
\* accepted manifest is registered, wherever a worker was killed and whichever
\* of two saves came first.
SourcesRegistered ==
    /\ \A p \in Page : record[p] # 0 => file[p] # {}
    /\ \A p \in Pages(Covered(coverage) \cup Covered(manifest)) : record[p] # 0

\* Evidence accepted for a step is never lost to a later attempt or follow-up.
EvidenceKept == [][\A s \in Step : coverage[s] \subseteq coverage'[s]]_coverage

\* Every fact waiting for publication comes from accepted evidence, through
\* baselines and replaced extractions.
FactsFromEvidence == draft \cup baseline \cup workspace \subseteq Covered(coverage)

\* A follow-up appends to the published facts: only an extraction that replaces
\* the instances may drop one, whatever was accepted, killed or refused between.
FactsKept == [][replace \/ workspace \subseteq workspace']_workspace

\* A finished extraction can be published: what its facts refer to is on disk.
FactsResolve == phase = "finalize" => Facts \subseteq KnownRefs
=============================================================================
