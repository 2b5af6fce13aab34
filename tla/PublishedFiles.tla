--------------------------- MODULE PublishedFiles ---------------------------
(***************************************************************************)
(* The files of a published Workspace as functions of the accepted facts   *)
(* and sources, and those who read them back: validate_ready, the loader   *)
(* that is published with the data, the next follow-up and read_artifact.  *)
(* The README is rendered in the document stage from that stage's input,   *)
(* the other files in finalize, and a follow-up may change what both have  *)
(* in common. A record is one line of a file; a text that contains a line  *)
(* separator JSON does not escape (U+0085, U+2028, U+2029) tears its line  *)
(* for splitlines. How facts get their references is the subject of        *)
(* EvidenceSources; here a fact is known by its name and its sources.      *)
(***************************************************************************)
EXTENDS Naturals, FiniteSets

CONSTANTS Document,     \* sources of evidence
          Thing,        \* entities, by type and id
          MaxUpdates    \* bound: follow-ups of the Workspace

\* Records are the lines of files.
ASSUME ThingAssumption == IsFiniteSet(Thing)

VARIABLES turn,         \* what the build does next; the schema stages are passed over
          torn,         \* entities whose texts contain a line separator
        tornLinks,    \* whether an attribute of a relation contains one
          untitled,     \* sources whose title contains a backslash or a private path
          unstated,     \* whether a research step contains one
          uploaded,     \* sources the user attached; the others are web pages
          sources,      \* sources of the accepted evidence
          reworded,     \* the problem was extended, so steps may have new texts
          forgotten,    \* sources the evidence has lost with the text of their step
          found,        \* facts of the accepted extraction
          kept,         \* facts of stages/baseline
          anew,         \* replace_instances
          overview,     \* the accepted workspace_readme, as what is read from it
          public,       \* the published Workspace
          updates       \* follow-ups so far

textVars   == <<torn, tornLinks, untitled, uploaded>>
publicVars == <<turn, textVars, unstated, sources, reworded, forgotten, found, kept, anew,
                overview, public, updates>>

\* Entities and relations with their sources. A relation needs two entities;
\* which two is left out, so every relation joins all of Thing.
Known(entities, relations) == [entities |-> entities, relations |-> relations]
NoFacts == Known({}, {})
Nowhere == [files |-> FALSE]

Things(f) == {e[1] : e \in f.entities}
RefsOf(f, t) == {e[2] : e \in {x \in f.entities : x[1] = t}}
CitedBy(f) == {e[2] : e \in f.entities} \cup f.relations

\* validate_instance_records: sources are known, endpoints exist.
ValidFacts(f, allowed) ==
    /\ CitedBy(f) \subseteq allowed
    /\ f.relations # {} => Things(f) = Thing

Drafts(allowed) ==
    {f \in {Known(es, rs) : es \in SUBSET (Thing \X allowed), rs \in SUBSET allowed} :
        ValidFacts(f, allowed)}

PublicInit ==
    /\ turn = "collect"
    /\ torn \in SUBSET Thing /\ tornLinks \in BOOLEAN
    /\ untitled \in SUBSET Document
    /\ uploaded \in SUBSET Document
    /\ unstated \in BOOLEAN
    /\ sources = {} /\ reworded = FALSE /\ forgotten = {}
    /\ found = NoFacts /\ kept = NoFacts /\ anew = FALSE
    /\ overview = Nowhere /\ public = Nowhere
    /\ updates = 0

-----------------------------------------------------------------------------
(* Stages *)

\* Accepted coverage is found again by the text of its step; uploads are
\* required in every manifest.
Retained == IF reworded THEN sources \cap uploaded ELSE sources

\* The evidence manifest: what is retained, and what the steps now select.
CollectSources ==
    /\ turn = "collect"
    /\ \E chosen \in SUBSET Document \ {{}} :
         /\ Retained \subseteq chosen
         /\ sources' = chosen
         /\ forgotten' = forgotten \cup (sources \ chosen)
    /\ reworded' = FALSE
    /\ turn' = "extract"
    /\ UNCHANGED <<textVars, unstated, found, kept, anew, overview, public, updates>>

\* The extraction stages: any valid facts from accepted sources.
ExtractRecords ==
    /\ turn = "extract"
    /\ found' \in Drafts(sources)
    /\ turn' = "document"
    /\ UNCHANGED <<textVars, unstated, sources, reworded, forgotten, kept, anew, overview,
                   public, updates>>

\* _accepted_draft_paths and merge_final_drafts
Together ==
    IF anew THEN found
    ELSE Known(found.entities \cup kept.entities, found.relations \cup kept.relations)

\* What the Documenter chooses: a name and a description, which stay on their
\* lines of the front matter or not, and a summary and guidance for the body.
Wording == [oneLine : BOOLEAN, plain : BOOLEAN]

\* render_workspace_readme, from the input of the document stage. Steps and
\* titles go into the body as they are.
Rendered(wording) ==
    [header    |-> wording.oneLine,
     body      |-> wording.plain /\ ~unstated /\ sources \cap untitled = {},
     entities  |-> Cardinality(Things(Together)),
     relations |-> IF Together.relations = {} THEN 0 ELSE 1,
     links     |-> sources]

\* validate_workspace_readme
ReadmeValid(text) == text.header /\ text.body

\* The document stage is accepted, or fails after its validation rounds.
AcceptReadme ==
    /\ turn = "document"
    /\ \E wording \in Wording :
         /\ ReadmeValid(Rendered(wording))
         /\ overview' = Rendered(wording)
    /\ turn' = "finalize"
    /\ UNCHANGED <<textVars, unstated, sources, reworded, forgotten, found, kept, anew, public,
                   updates>>
RefuseReadme ==
    /\ turn = "document"
    /\ \E wording \in Wording : ~ReadmeValid(Rendered(wording))
    /\ turn' = "failed"
    /\ UNCHANGED <<textVars, unstated, sources, reworded, forgotten, found, kept, anew, overview,
                   public, updates>>
RetryReadme ==
    /\ turn = "failed"
    /\ turn' = "document"
    /\ UNCHANGED <<textVars, unstated, sources, reworded, forgotten, found, kept, anew, overview,
                   public, updates>>

-----------------------------------------------------------------------------
(* Publication *)

\* _complete_referenced_sources
AllSources(f) == sources \cup CitedBy(f)

\* _source_documents: a document per source, a chunk record for those with chunks.
ChunkLines(documents) == documents \ uploaded

\* _jsonl: one line for each entity and each relation. The line of a chunk is
\* never torn: its heading comes from a chunks.jsonl that was read by splitlines
\* when its page was fetched.
EntityLines(f) ==
    {[key |-> t, refs |-> RefsOf(f, t), whole |-> t \notin torn] : t \in Things(f)}
RelationLines(f) ==
    IF f.relations = {} THEN {} ELSE {[refs |-> f.relations, whole |-> ~tornLinks]}

\* Mutant: the manifest counts the records of the accepted extraction.
CountsOfDraft(f) ==
    [entities  |-> Cardinality(Things(found)),
     relations |-> IF found.relations = {} THEN 0 ELSE 1]

\* The counts of the manifest.
RecordCounts(f) ==
    [entities  |-> Cardinality(Things(f)),
     relations |-> IF f.relations = {} THEN 0 ELSE 1]

FilesOf(f) ==
    [files     |-> TRUE,
     entities  |-> EntityLines(f),
     relations |-> RelationLines(f),
     chunks    |-> ChunkLines(AllSources(f)),
     manifest  |-> [records |-> RecordCounts(f), sources |-> AllSources(f)],
     documents |-> AllSources(f),
     readme    |-> overview]

\* What WorkspaceRepository.commit tests before it writes.
Committable(f) ==
    /\ ValidFacts(f, AllSources(f))
    /\ CitedBy(f) \ uploaded \subseteq ChunkLines(AllSources(f))
    /\ ReadmeValid(overview)

PublishFiles ==
    /\ turn = "finalize"
    /\ Committable(Together)
    /\ public' = FilesOf(Together)
    /\ turn' = "ready" /\ anew' = FALSE
    /\ UNCHANGED <<textVars, unstated, sources, reworded, forgotten, found, kept, overview, updates>>

-----------------------------------------------------------------------------
(* Readers *)

\* _read_jsonl
Legible(w) == \A l \in w.entities \cup w.relations : l.whole

\* The facts in the lines of a Workspace.
ReadBack(w) ==
    Known(UNION {{<<l.key, d>> : d \in l.refs} : l \in w.entities},
          UNION {l.refs : l \in w.relations})

\* A chunk record belongs to a source of the manifest.
ChunksValid(w) == w.chunks \subseteq w.manifest.sources

\* The web sources of a record are cited by their chunks, which are listed.
EvidenceValid(w) ==
    \A l \in w.entities \cup w.relations : l.refs \ uploaded \subseteq w.chunks

CountsValid(w) ==
    /\ w.manifest.records.entities = Cardinality(w.entities)
    /\ w.manifest.records.relations = Cardinality(w.relations)

\* validate_ready, which read_artifact asks before it hands out the bundle.
ReadyValid(w) ==
    /\ Legible(w)
    /\ ChunksValid(w) /\ EvidenceValid(w) /\ CountsValid(w)
    /\ ValidFacts(ReadBack(w), w.manifest.sources)
    /\ w.manifest.sources \subseteq w.documents
    /\ ReadmeValid(w.readme)

\* load_workspace: entities before relations, each key once.
LoaderAccepts(w) ==
    /\ Legible(w)
    /\ ChunksValid(w) /\ EvidenceValid(w) /\ CountsValid(w)
    /\ \A l, m \in w.entities : l.key = m.key => l = m
    /\ \A l \in w.entities \cup w.relations : l.refs \subseteq w.manifest.sources
    /\ w.relations # {} => {l.key : l \in w.entities} = Thing

\* read_artifact serves a source file that the manifest names.
Served(w) == w.manifest.sources \cap w.documents

\* A follow-up begins with snapshot_workspace_baseline. A torn line is an
\* error there, and the follow-up is refused.
TakeBaseline ==
    /\ turn = "ready" /\ updates < MaxUpdates
    /\ Legible(public)
    /\ kept' = ReadBack(public)
    /\ updates' = updates + 1
    /\ UNCHANGED <<textVars, sources, forgotten, overview, public>>

\* New evidence for the research steps.
UpdateEvidence ==
    /\ TakeBaseline
    /\ turn' = "collect" /\ found' = NoFacts
    /\ UNCHANGED <<unstated, reworded, anew>>

\* Schema or instances: everything is extracted again.
UpdateInstances ==
    /\ TakeBaseline
    /\ turn' = "extract" /\ found' = NoFacts /\ anew' = TRUE
    /\ UNCHANGED <<unstated, reworded>>

\* The problem: its steps are stated anew, and some of them differently.
UpdateProblem ==
    /\ TakeBaseline
    /\ turn' = "collect" /\ found' = NoFacts /\ reworded' = TRUE
    /\ unstated' \in BOOLEAN
    /\ UNCHANGED anew

PublicNext ==
    \/ CollectSources \/ ExtractRecords \/ AcceptReadme \/ RefuseReadme \/ RetryReadme
    \/ PublishFiles \/ UpdateEvidence \/ UpdateInstances \/ UpdateProblem

PublicSpec == PublicInit /\ [][PublicNext]_publicVars

-----------------------------------------------------------------------------
(* Properties *)

\* What is accepted can be published, and the files of the publication agree,
\* through merged baselines, replaced extractions and extended problems: those
\* who read it back accept it exactly when no line is torn; the counts in the
\* README, made one stage earlier from another input, are those of the
\* manifest; what the README links to is served, and it links to every source
\* but those an extension left behind when it changed the text of their step.
FilesAgree ==
    /\ turn = "finalize" => Committable(Together)
    /\ public.files =>
         /\ ReadyValid(public) <=> Legible(public)
         /\ LoaderAccepts(public) <=> Legible(public)
         /\ public.readme.entities = public.manifest.records.entities
         /\ public.readme.relations = public.manifest.records.relations
         /\ public.readme.links \subseteq Served(public)
         /\ Served(public) \ public.readme.links \subseteq forgotten
=============================================================================
