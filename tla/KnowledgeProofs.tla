-------------------------- MODULE KnowledgeProofs ---------------------------
(***************************************************************************)
(* Theorems about what a build knows: its evidence, the units its          *)
(* extraction is made of, its schema, and the stage at which a follow-up   *)
(* with changes to any of them begins.                                     *)
(***************************************************************************)
EXTENDS EvidenceSources, ParallelUnits, SchemaDesign, FollowUpPlan, FiniteSetTheorems,
        SequenceTheorems, TLAPS

(***************************************************************************)
(* Evidence and facts are kept, and come from registered sources, for any  *)
(* pages, research steps and parallel saves, any number of lost attempts   *)
(* and any number of follow-ups.                                           *)
(***************************************************************************)

Coverage == [Step -> SUBSET Ref]

\* The values of each variable of EvidenceSources that the argument uses.
EvidenceTypes ==
    /\ phase \in {"collect", "extract", "finalize", "failed", "ready"}
    /\ replace \in BOOLEAN
    /\ pending \subseteq Step
    /\ coverage \in Coverage
    /\ manifest \in Coverage \cup {NoManifest}
    /\ saves \in [Saver -> [pc : {"idle", "next", "written"}, picks : SUBSET Ref,
                            manifest : Coverage \cup {NoManifest},
                            todo : SUBSET Page, page : SUBSET Page]]
    /\ record \in [Page -> Nat]
    /\ file \in [Page -> SUBSET Chunk]
    /\ draft \subseteq Ref /\ baseline \subseteq Ref /\ workspace \subseteq Ref

\* Outside the collection of evidence nothing is saved and no manifest waits.
QuietOutside ==
    phase # "collect" => manifest = NoManifest /\ \A i \in Saver : saves[i].pc = "idle"

\* A manifest, waiting or in the hands of a save, extends what is accepted.
Extends(m) == m \in Coverage /\ \A s \in Step : coverage[s] \subseteq m[s]
ManifestsExtend ==
    /\ manifest # NoManifest => Extends(manifest)
    /\ \A i \in Saver : saves[i].pc # "idle" => Extends(saves[i].manifest)

\* A save registers only pages it has chunks of, and each page of its manifest
\* is registered or still to be.
SavesRegister ==
    \A i \in Saver : saves[i].pc # "idle" =>
        /\ saves[i].todo \cup saves[i].page \subseteq Pages(saves[i].picks)
        /\ saves[i].pc = "next" => saves[i].page = {}
        /\ \A p, q \in saves[i].page : p = q
        /\ \A p \in saves[i].page : file[p] # {}
        /\ \A s \in Step : \A ref \in saves[i].manifest[s] :
              record[ref[1]] # 0 \/ ref[1] \in saves[i].todo \cup saves[i].page

Registered(c) == \A s \in Step : \A ref \in c[s] : record[ref[1]] # 0
SourcesKnown ==
    /\ \A p \in Page : record[p] # 0 => file[p] # {}
    /\ Registered(coverage)
    /\ manifest # NoManifest => Registered(manifest)

\* While a follow-up runs, its baseline is what was published.
BaselineIsPublished == phase # "ready" => baseline = workspace

EvidenceInv ==
    /\ EvidenceTypes /\ QuietOutside /\ ManifestsExtend /\ SavesRegister
    /\ SourcesKnown /\ BaselineIsPublished /\ FactsFromEvidence

-----------------------------------------------------------------------------

\* What a coverage covers.
LEMMA CoveredBy ==
    ASSUME NEW c \in Coverage
    PROVE  \A ref : ref \in Covered(c) <=> \E s \in Step : ref \in c[s]
BY DEF Covered, Coverage

\* The pages of references are pages, and each has a chunk among them.
LEMMA PagesHaveChunks ==
    ASSUME NEW refs \in SUBSET Ref, NEW p \in Pages(refs)
    PROVE  p \in Page /\ ChunksOf(refs, p) \in SUBSET Chunk /\ ChunksOf(refs, p) # {}
BY DEF Pages, ChunksOf, Ref

\* Their number is not zero.
LEMMA ChunksCounted ==
    ASSUME NEW refs \in SUBSET Ref, NEW p \in Pages(refs)
    PROVE  Cardinality(ChunksOf(refs, p)) \in Nat \ {0}
<1>1. ChunksOf(refs, p) \in SUBSET Chunk /\ ChunksOf(refs, p) # {}
  BY PagesHaveChunks
<1>2. IsFiniteSet(ChunksOf(refs, p))
  BY <1>1, FS_Subset, ChunksAssumption
<1> QED BY <1>1, <1>2, FS_CardinalityType, FS_EmptySet

\* What a save selects refers to pages and chunks, and binds nothing else.
LEMMA SelectionBound ==
    ASSUME EvidenceTypes, NEW picks \in Selections
    PROVE  /\ SelectedRefs(picks) \in SUBSET Ref
           /\ BoundRefs(picks) \in Coverage
           /\ \A s \in Step : /\ coverage[s] \subseteq BoundRefs(picks)[s]
                              /\ BoundRefs(picks)[s] \subseteq coverage[s] \cup SelectedRefs(picks)
<1>1. picks \in SUBSET (Step \X Ref)
  BY DEF Selections, kSubset
<1>2. SelectedRefs(picks) \in SUBSET Ref
  BY <1>1 DEF SelectedRefs
<1>3. \A s \in Step : Selected(picks, s) \subseteq SelectedRefs(picks)
  BY DEF Selected, SelectedRefs
<1> QED BY <1>2, <1>3 DEF BoundRefs, EvidenceTypes, Coverage

\* The first state has no evidence and no facts.
LEMMA EvidenceStarts == Init => EvidenceInv
<1> SUFFICES ASSUME Init PROVE EvidenceInv
  OBVIOUS
<1>1. EvidenceTypes
  BY DEF Init, EvidenceTypes, Coverage, Idle
<1>2. \A i \in Saver : saves[i].pc = "idle"
  BY DEF Init, Idle
<1>3. QuietOutside /\ BaselineIsPublished /\ FactsFromEvidence
  BY DEF Init, QuietOutside, BaselineIsPublished, FactsFromEvidence
<1>4. ManifestsExtend /\ SavesRegister
  BY <1>2 DEF Init, ManifestsExtend, SavesRegister
<1>5. SourcesKnown
  BY DEF Init, SourcesKnown, Registered
<1> QED BY <1>1, <1>3, <1>4, <1>5 DEF EvidenceInv

\* Fetching a page touches nothing that is saved.
LEMMA FetchStep ==
    ASSUME EvidenceInv, NEW p \in Page, Fetch(p)
    PROVE  EvidenceInv' /\ UNCHANGED <<coverage, workspace>>
BY DEF EvidenceInv, Fetch, accepted, EvidenceTypes, QuietOutside, ManifestsExtend, SavesRegister,
       SourcesKnown, Registered, BaselineIsPublished, FactsFromEvidence, Extends, Covered

\* A prepared save extends what is accepted, and has its pages still to register.
LEMMA PrepareStep ==
    ASSUME EvidenceInv, NEW i \in Saver, Prepare(i)
    PROVE  EvidenceInv' /\ UNCHANGED <<coverage, workspace>>
<1> USE DEF EvidenceInv
<1>0. UNCHANGED <<phase, pending, replace, coverage, draft, processed, baseline, workspace,
                  manifest, record, file>> /\ phase = "collect"
  BY DEF Prepare, accepted
<1>1. PICK picks \in Selections :
        saves' = [saves EXCEPT ![i] =
               [pc |-> "next", picks |-> SelectedRefs(picks), manifest |-> BoundRefs(picks),
                todo |-> Pages(SelectedRefs(picks)), page |-> {}]]
  BY DEF Prepare
<1>2. /\ SelectedRefs(picks) \in SUBSET Ref
      /\ BoundRefs(picks) \in Coverage
      /\ \A s \in Step : /\ coverage[s] \subseteq BoundRefs(picks)[s]
                         /\ BoundRefs(picks)[s] \subseteq coverage[s] \cup SelectedRefs(picks)
  BY SelectionBound
<1>3. Pages(SelectedRefs(picks)) \in SUBSET Page
  BY <1>2, PagesHaveChunks
<1>4. /\ saves'[i] = [pc |-> "next", picks |-> SelectedRefs(picks), manifest |-> BoundRefs(picks),
                      todo |-> Pages(SelectedRefs(picks)), page |-> {}]
      /\ \A j \in Saver : j # i => saves'[j] = saves[j]
      /\ DOMAIN saves' = Saver
  BY <1>1 DEF EvidenceTypes
<1>5. EvidenceTypes'
  BY <1>0, <1>1, <1>2, <1>3 DEF EvidenceTypes
<1>6. QuietOutside' /\ BaselineIsPublished' /\ FactsFromEvidence' /\ SourcesKnown'
  BY <1>0 DEF QuietOutside, BaselineIsPublished, FactsFromEvidence, SourcesKnown, Registered, Covered
<1>7. ManifestsExtend'
  BY <1>0, <1>2, <1>4 DEF ManifestsExtend, Extends
<1>8. SavesRegister'
  <2> SUFFICES ASSUME NEW j \in Saver, saves'[j].pc # "idle"
               PROVE  /\ saves'[j].todo \cup saves'[j].page \subseteq Pages(saves'[j].picks)
                      /\ saves'[j].pc = "next" => saves'[j].page = {}
                      /\ \A q, r \in saves'[j].page : q = r
                      /\ \A p \in saves'[j].page : file'[p] # {}
                      /\ \A s \in Step : \A ref \in saves'[j].manifest[s] :
                            record'[ref[1]] # 0 \/ ref[1] \in saves'[j].todo \cup saves'[j].page
    BY DEF SavesRegister
  <2>1. CASE j # i
    BY <2>1, <1>0, <1>4 DEF SavesRegister
  <2>2. CASE j = i
    <3>1. \A s \in Step : \A ref \in BoundRefs(picks)[s] :
             record[ref[1]] # 0 \/ ref[1] \in Pages(SelectedRefs(picks))
      BY <1>2 DEF Pages, SourcesKnown, Registered
    <3> QED BY <2>2, <1>0, <1>4, <3>1
  <2> QED BY <2>1, <2>2
<1> QED BY <1>0, <1>5, <1>6, <1>7, <1>8

\* Writing a page's files leaves it with chunks.
LEMMA WriteFilesStep ==
    ASSUME EvidenceInv, NEW i \in Saver, WriteFiles(i)
    PROVE  EvidenceInv' /\ UNCHANGED <<coverage, workspace>>
<1> USE DEF EvidenceInv
<1>0. UNCHANGED <<phase, pending, replace, coverage, draft, processed, baseline, workspace,
                  manifest, record>> /\ saves[i].pc = "next"
  BY DEF WriteFiles, accepted
<1>1. PICK p \in saves[i].todo :
        /\ file' = [file EXCEPT ![p] = ChunksOf(saves[i].picks, p)]
        /\ saves' = [saves EXCEPT ![i].pc = "written", ![i].page = {p}, ![i].todo = @ \ {p}]
  BY DEF WriteFiles
<1>2. /\ p \in Page
      /\ ChunksOf(saves[i].picks, p) \in SUBSET Chunk
      /\ ChunksOf(saves[i].picks, p) # {}
  BY <1>0, PagesHaveChunks DEF EvidenceTypes, SavesRegister
<1>3. \A q \in Page : file[q] # {} => file'[q] # {}
  BY <1>1, <1>2 DEF EvidenceTypes
<1>4. /\ saves'[i].pc = "written" /\ saves'[i].page = {p} /\ saves'[i].todo = saves[i].todo \ {p}
      /\ saves'[i].picks = saves[i].picks /\ saves'[i].manifest = saves[i].manifest
      /\ \A j \in Saver : j # i => saves'[j] = saves[j]
  BY <1>1 DEF EvidenceTypes
<1>5. EvidenceTypes'
  BY <1>0, <1>1, <1>2 DEF EvidenceTypes
<1>6. QuietOutside' /\ BaselineIsPublished' /\ FactsFromEvidence'
  BY <1>0 DEF QuietOutside, BaselineIsPublished, FactsFromEvidence, Covered
<1>7. SourcesKnown'
  BY <1>0, <1>3 DEF SourcesKnown, Registered
<1>8. ManifestsExtend'
  BY <1>0, <1>4 DEF ManifestsExtend, Extends
<1>9. SavesRegister'
  <2> SUFFICES ASSUME NEW j \in Saver, saves'[j].pc # "idle"
               PROVE  /\ saves'[j].todo \cup saves'[j].page \subseteq Pages(saves'[j].picks)
                      /\ saves'[j].pc = "next" => saves'[j].page = {}
                      /\ \A q, r \in saves'[j].page : q = r
                      /\ \A q \in saves'[j].page : file'[q] # {}
                      /\ \A s \in Step : \A ref \in saves'[j].manifest[s] :
                            record'[ref[1]] # 0 \/ ref[1] \in saves'[j].todo \cup saves'[j].page
    BY DEF SavesRegister
  <2>1. CASE j # i
    BY <2>1, <1>0, <1>3, <1>4 DEF SavesRegister, EvidenceTypes
  <2>2. CASE j = i
    <3>1. /\ saves[i].todo \subseteq Pages(saves[i].picks) /\ saves[i].page = {}
          /\ \A s \in Step : \A ref \in saves[i].manifest[s] :
                record[ref[1]] # 0 \/ ref[1] \in saves[i].todo
      BY <1>0 DEF SavesRegister
    <3>2. file'[p] # {}
      BY <1>1, <1>2 DEF EvidenceTypes
    <3> QED BY <2>2, <1>0, <1>4, <3>1, <3>2
  <2> QED BY <2>1, <2>2
<1> QED BY <1>0, <1>5, <1>6, <1>7, <1>8, <1>9

\* A save that ends leaves the others what they have.
LEMMA SaveEnds ==
    ASSUME EvidenceInv, NEW i \in Saver, saves' = [saves EXCEPT ![i] = Idle],
           UNCHANGED <<coverage, record, file>>
    PROVE  /\ saves' \in [Saver -> [pc : {"idle", "next", "written"}, picks : SUBSET Ref,
                                    manifest : Coverage \cup {NoManifest},
                                    todo : SUBSET Page, page : SUBSET Page]]
           /\ \A j \in Saver : saves'[j].pc # "idle" => saves'[j] = saves[j]
           /\ SavesRegister'
<1>1. saves'[i].pc = "idle" /\ \A j \in Saver : j # i => saves'[j] = saves[j]
  BY DEF EvidenceInv, EvidenceTypes, Idle
<1>2. \A j \in Saver : saves'[j].pc # "idle" => saves'[j] = saves[j]
  BY <1>1
<1>3. SavesRegister'
  BY <1>2 DEF EvidenceInv, SavesRegister
<1> QED BY <1>2, <1>3 DEF EvidenceInv, EvidenceTypes, Idle

\* A registered page has its files; a refused one ends the save.
LEMMA RegisterStep ==
    ASSUME EvidenceInv, NEW i \in Saver, Register(i)
    PROVE  EvidenceInv' /\ UNCHANGED <<coverage, workspace>>
<1> USE DEF EvidenceInv
<1>0. UNCHANGED <<phase, pending, replace, coverage, draft, processed, baseline, workspace,
                  manifest, file>> /\ saves[i].pc = "written"
  BY DEF Register, accepted
<1>2. CASE saves' = [saves EXCEPT ![i] = Idle] /\ UNCHANGED record
  <2>1. /\ EvidenceTypes' /\ SavesRegister'
        /\ \A j \in Saver : saves'[j].pc # "idle" => saves'[j] = saves[j]
    BY <1>0, <1>2, SaveEnds DEF EvidenceTypes
  <2>2. ManifestsExtend'
    BY <1>0, <2>1 DEF ManifestsExtend, Extends
  <2>3. QuietOutside' /\ BaselineIsPublished' /\ FactsFromEvidence' /\ SourcesKnown'
    BY <1>0, <1>2, <2>1 DEF QuietOutside, BaselineIsPublished, FactsFromEvidence, SourcesKnown,
                            Registered, Covered
  <2> QED BY <1>0, <2>1, <2>2, <2>3
<1>3. CASE ~(saves' = [saves EXCEPT ![i] = Idle] /\ UNCHANGED record)
  <2>1. PICK p \in saves[i].page :
          /\ saves' = [saves EXCEPT ![i].pc = "next", ![i].page = {}]
          /\ record' = [record EXCEPT ![p] = Cardinality(ChunksOf(saves[i].picks, p))]
    BY <1>3 DEF Register
  <2>2. p \in Page /\ Cardinality(ChunksOf(saves[i].picks, p)) \in Nat \ {0} /\ file[p] # {}
    BY <1>0, PagesHaveChunks, ChunksCounted DEF EvidenceTypes, SavesRegister
  <2>3. \A q \in Page : record[q] # 0 => record'[q] # 0
    BY <2>1, <2>2 DEF EvidenceTypes
  <2>4. /\ saves'[i].pc = "next" /\ saves'[i].page = {} /\ saves'[i].todo = saves[i].todo
        /\ saves'[i].picks = saves[i].picks /\ saves'[i].manifest = saves[i].manifest
        /\ \A j \in Saver : j # i => saves'[j] = saves[j]
    BY <2>1 DEF EvidenceTypes
  <2>5. EvidenceTypes'
    BY <1>0, <2>1, <2>2 DEF EvidenceTypes
  <2>6. QuietOutside' /\ BaselineIsPublished' /\ FactsFromEvidence'
    BY <1>0, <2>4 DEF QuietOutside, BaselineIsPublished, FactsFromEvidence, Covered
  <2>7. SourcesKnown'
    <3>1. \A q \in Page : record'[q] # 0 => file'[q] # {}
      BY <1>0, <2>1, <2>2 DEF SourcesKnown, EvidenceTypes
    <3>2. ASSUME NEW c \in Coverage, Registered(c) PROVE Registered(c)'
      BY <3>2, <2>3 DEF Registered, Coverage, Ref
    <3> QED BY <1>0, <3>1, <3>2 DEF SourcesKnown, EvidenceTypes
  <2>8. ManifestsExtend'
    BY <1>0, <2>4 DEF ManifestsExtend, Extends
  <2>9. SavesRegister'
    <3> SUFFICES ASSUME NEW j \in Saver, saves'[j].pc # "idle"
                 PROVE  /\ saves'[j].todo \cup saves'[j].page \subseteq Pages(saves'[j].picks)
                        /\ saves'[j].pc = "next" => saves'[j].page = {}
                        /\ \A q, r \in saves'[j].page : q = r
                        /\ \A q \in saves'[j].page : file'[q] # {}
                        /\ \A s \in Step : \A ref \in saves'[j].manifest[s] :
                              record'[ref[1]] # 0 \/ ref[1] \in saves'[j].todo \cup saves'[j].page
      BY DEF SavesRegister
    <3>0. saves[j].pc # "idle" /\ saves[j].manifest \in Coverage
      BY <1>0, <2>4 DEF ManifestsExtend, Extends
    <3>1. \A s \in Step : \A ref \in saves[j].manifest[s] : record[ref[1]] # 0 => record'[ref[1]] # 0
      BY <2>3, <3>0 DEF Coverage, Ref
    <3>2. CASE j # i
      BY <3>0, <3>1, <3>2, <1>0, <2>4 DEF SavesRegister
    <3>3. CASE j = i
      <4>1. saves[i].page = {p}
        BY <1>0, <2>1 DEF SavesRegister
      <4>2. record'[p] # 0
        BY <2>1, <2>2 DEF EvidenceTypes
      <4> QED BY <3>0, <3>1, <3>3, <4>1, <4>2, <1>0, <2>4 DEF SavesRegister
    <3> QED BY <3>2, <3>3
  <2> QED BY <1>0, <2>5, <2>6, <2>7, <2>8, <2>9
<1> QED BY <1>2, <1>3

\* The manifest is written after all its pages are registered.
LEMMA PersistStep ==
    ASSUME EvidenceInv, NEW i \in Saver, Persist(i)
    PROVE  EvidenceInv' /\ UNCHANGED <<coverage, workspace>>
<1> USE DEF EvidenceInv
<1>0. /\ UNCHANGED <<phase, pending, replace, coverage, draft, processed, baseline, workspace,
                     record, file>>
      /\ saves[i].pc = "next" /\ saves[i].todo = {}
      /\ manifest' = saves[i].manifest
      /\ saves' = [saves EXCEPT ![i] = Idle]
  BY DEF Persist, accepted
<1>1. /\ saves' \in [Saver -> [pc : {"idle", "next", "written"}, picks : SUBSET Ref,
                               manifest : Coverage \cup {NoManifest},
                               todo : SUBSET Page, page : SUBSET Page]]
      /\ SavesRegister'
      /\ \A j \in Saver : saves'[j].pc # "idle" => saves'[j] = saves[j]
  BY <1>0, SaveEnds
<1>2. Extends(saves[i].manifest) /\ Registered(saves[i].manifest)
  BY <1>0 DEF ManifestsExtend, SavesRegister, Registered
<1>3. EvidenceTypes'
  BY <1>0, <1>1, <1>2 DEF EvidenceTypes, Extends
<1>4. phase = "collect"
  BY <1>0 DEF QuietOutside
<1>5. QuietOutside' /\ BaselineIsPublished' /\ FactsFromEvidence'
  BY <1>0, <1>4 DEF QuietOutside, BaselineIsPublished, FactsFromEvidence, Covered
<1>6. ManifestsExtend'
  BY <1>0, <1>1, <1>2 DEF ManifestsExtend, Extends
<1>7. SourcesKnown'
  BY <1>0, <1>2 DEF SourcesKnown, Registered
<1> QED BY <1>0, <1>1, <1>3, <1>5, <1>6, <1>7

\* An attempt that ends leaves files and records, but no manifest.
LEMMA AttemptEndsStep ==
    ASSUME EvidenceInv, AttemptEnds
    PROVE  EvidenceInv' /\ UNCHANGED <<coverage, workspace>>
<1> USE DEF EvidenceInv
<1>0. /\ UNCHANGED <<phase, pending, replace, coverage, draft, processed, baseline, workspace,
                     record, file>>
      /\ manifest' = NoManifest /\ saves' = [i \in Saver |-> Idle]
  BY DEF AttemptEnds, accepted
<1>1. \A i \in Saver : saves'[i].pc = "idle"
  BY <1>0 DEF Idle
<1>2. EvidenceTypes'
  BY <1>0 DEF EvidenceTypes, Idle
<1>3. QuietOutside' /\ BaselineIsPublished' /\ FactsFromEvidence'
  BY <1>0, <1>1 DEF QuietOutside, BaselineIsPublished, FactsFromEvidence, Covered
<1>4. ManifestsExtend' /\ SavesRegister' /\ SourcesKnown'
  BY <1>0, <1>1 DEF ManifestsExtend, SavesRegister, SourcesKnown, Registered
<1> QED BY <1>0, <1>2, <1>3, <1>4

\* What is accepted extends what was accepted before.
LEMMA AcceptStep ==
    ASSUME EvidenceInv, Accept
    PROVE  EvidenceInv' /\ UNCHANGED workspace /\ \A s \in Step : coverage[s] \subseteq coverage'[s]
<1> USE DEF EvidenceInv
<1>0. /\ UNCHANGED <<pending, replace, saves, record, file, draft, baseline, workspace>>
      /\ \A i \in Saver : saves[i].pc = "idle"
      /\ phase = "collect" /\ phase' = "extract"
      /\ manifest # NoManifest /\ coverage' = manifest /\ manifest' = NoManifest
  BY DEF Accept
<1>1. coverage' \in Coverage /\ \A s \in Step : coverage[s] \subseteq coverage'[s]
  BY <1>0 DEF ManifestsExtend, Extends
<1>2. Covered(coverage) \subseteq Covered(coverage')
  BY <1>1 DEF Covered, Coverage, EvidenceTypes
<1>3. EvidenceTypes'
  BY <1>0, <1>1 DEF EvidenceTypes
<1>4. QuietOutside' /\ BaselineIsPublished' /\ ManifestsExtend' /\ SavesRegister'
  BY <1>0 DEF QuietOutside, BaselineIsPublished, ManifestsExtend, SavesRegister
<1>5. FactsFromEvidence'
  BY <1>0, <1>2 DEF FactsFromEvidence, Covered
<1>6. SourcesKnown'
  BY <1>0 DEF SourcesKnown, Registered
<1> QED BY <1>0, <1>1, <1>3, <1>4, <1>5, <1>6

\* Steps that leave the evidence alone keep what is said of it.
LEMMA EvidenceAlone ==
    ASSUME EvidenceInv, phase # "collect", UNCHANGED <<coverage, manifest, saves, record, file>>
    PROVE  QuietOutside' /\ ManifestsExtend' /\ SavesRegister' /\ SourcesKnown'
BY DEF EvidenceInv, QuietOutside, ManifestsExtend, SavesRegister, SourcesKnown, Registered, Extends

\* An extraction refers to accepted chunks.
LEMMA ExtractStep ==
    ASSUME EvidenceInv, Extract
    PROVE  EvidenceInv' /\ UNCHANGED <<coverage, workspace>>
<1> USE DEF EvidenceInv
<1>0. /\ UNCHANGED <<pending, replace, coverage, baseline, workspace, saves, manifest, record, file>>
      /\ phase = "extract" /\ phase' = "finalize"
  BY DEF Extract
<1>1. draft' \subseteq UNION {coverage[s] : s \in Affected}
  BY DEF Extract, OnDisk, Units
<1>2. Affected \subseteq Step
  BY DEF Affected, EvidenceTypes
<1>3. draft' \subseteq Covered(coverage) /\ draft' \subseteq Ref
  BY <1>1, <1>2, CoveredBy DEF EvidenceTypes, Coverage
<1>4. EvidenceTypes'
  BY <1>0, <1>3 DEF EvidenceTypes
<1>5. BaselineIsPublished' /\ FactsFromEvidence'
  BY <1>0, <1>3 DEF BaselineIsPublished, FactsFromEvidence, Covered
<1> QED BY <1>0, <1>4, <1>5, EvidenceAlone

\* What is published contains what was published, unless instances are replaced.
LEMMA FinalizeStep ==
    ASSUME EvidenceInv, Finalize
    PROVE  EvidenceInv' /\ UNCHANGED coverage /\ (replace \/ workspace \subseteq workspace')
<1> USE DEF EvidenceInv
<1>0. /\ UNCHANGED <<coverage, draft, baseline, saves, manifest, record, file>>
      /\ phase = "finalize"
      /\ \/ workspace' = Facts /\ phase' = "ready" /\ pending' = {} /\ replace' = FALSE
         \/ UNCHANGED <<workspace, pending, replace>> /\ phase' = "failed"
  BY DEF Finalize
<1>1. /\ Facts \subseteq Ref
      /\ Facts \subseteq Covered(coverage)
      /\ replace \/ workspace \subseteq Facts
  BY <1>0 DEF Facts, EvidenceTypes, FactsFromEvidence, BaselineIsPublished
<1>2. EvidenceTypes'
  BY <1>0, <1>1 DEF EvidenceTypes
<1>3. BaselineIsPublished' /\ FactsFromEvidence' /\ (replace \/ workspace \subseteq workspace')
  BY <1>0, <1>1 DEF BaselineIsPublished, FactsFromEvidence, Covered
<1> QED BY <1>0, <1>2, <1>3, EvidenceAlone

\* A retry, and a follow-up, which takes the published facts as its baseline.
LEMMA RestartStep ==
    ASSUME EvidenceInv, Retry \/ FollowUpEvidence \/ FollowUpInstances
    PROVE  EvidenceInv' /\ UNCHANGED <<coverage, workspace>>
<1> USE DEF EvidenceInv
<1>0. /\ UNCHANGED <<coverage, workspace, saves, manifest, record, file>>
      /\ phase \in {"failed", "ready"} /\ phase' \in {"finalize", "collect", "extract"}
      /\ pending' \subseteq Step /\ replace' \in BOOLEAN
      /\ draft' \in {draft, {}}
      /\ baseline' = workspace
  BY DEF Retry, FollowUpEvidence, FollowUpInstances, Snapshot, accepted, EvidenceTypes,
         BaselineIsPublished
<1>1. EvidenceTypes'
  BY <1>0 DEF EvidenceTypes
<1>2. BaselineIsPublished' /\ FactsFromEvidence'
  BY <1>0 DEF BaselineIsPublished, FactsFromEvidence, Covered
<1> QED BY <1>0, <1>1, <1>2, EvidenceAlone

-----------------------------------------------------------------------------

\* Every step keeps the invariant, and neither loses evidence nor, unless the
\* instances are replaced, a fact.
LEMMA EvidenceStep ==
    ASSUME EvidenceInv, [Next]_vars
    PROVE  /\ EvidenceInv'
           /\ \A s \in Step : coverage[s] \subseteq coverage'[s]
           /\ replace \/ workspace \subseteq workspace'
<1>1. CASE \E p \in Page : Fetch(p)
  BY <1>1, FetchStep
<1>2. CASE \E i \in Saver : Prepare(i)
  BY <1>2, PrepareStep
<1>3. CASE \E i \in Saver : WriteFiles(i)
  BY <1>3, WriteFilesStep
<1>4. CASE \E i \in Saver : Register(i)
  BY <1>4, RegisterStep
<1>5. CASE \E i \in Saver : Persist(i)
  BY <1>5, PersistStep
<1>6. CASE AttemptEnds
  BY <1>6, AttemptEndsStep
<1>7. CASE Accept
  BY <1>7, AcceptStep
<1>8. CASE Extract
  BY <1>8, ExtractStep
<1>9. CASE Finalize
  BY <1>9, FinalizeStep
<1>10. CASE Retry \/ FollowUpEvidence \/ FollowUpInstances
  BY <1>10, RestartStep
<1>11. CASE UNCHANGED vars
  BY <1>11 DEF vars, accepted, EvidenceInv, EvidenceTypes, QuietOutside, ManifestsExtend,
               SavesRegister, SourcesKnown, Registered, BaselineIsPublished, FactsFromEvidence,
               Extends, Covered
<1> QED BY <1>1, <1>2, <1>3, <1>4, <1>5, <1>6, <1>7, <1>8, <1>9, <1>10, <1>11 DEF Next

\* The invariant holds throughout, for any number of saves, attempts and follow-ups.
THEOREM EvidenceInvariance == Spec => []EvidenceInv
<1>1. EvidenceInv /\ [Next]_vars => EvidenceInv'
  BY EvidenceStep
<1> QED BY EvidenceStarts, <1>1, PTL DEF Spec

\* Facts come from accepted evidence, through baselines and replaced extractions.
THEOREM FactsComeFromEvidence == Spec => []FactsFromEvidence
<1>1. EvidenceInv => FactsFromEvidence
  BY DEF EvidenceInv
<1> QED BY EvidenceInvariance, <1>1, PTL

\* Sources precede the manifests that name them, wherever a worker was killed.
THEOREM SourcesAreRegistered == Spec => []SourcesRegistered
<1>1. ASSUME EvidenceInv PROVE SourcesRegistered
  <2>1. ASSUME NEW c \in Coverage, Registered(c)
        PROVE  \A p \in Pages(Covered(c)) : record[p] # 0
    BY <2>1, CoveredBy DEF Pages, Registered
  <2>2. \A p \in Pages(Covered(NoManifest)) : record[p] # 0
    BY DEF Pages, Covered, NoManifest
  <2>3. /\ \A p \in Pages(Covered(coverage)) : record[p] # 0
        /\ \A p \in Pages(Covered(manifest)) : record[p] # 0
    BY <1>1, <2>1, <2>2 DEF EvidenceInv, EvidenceTypes, SourcesKnown
  <2>4. Pages(Covered(coverage) \cup Covered(manifest))
            = Pages(Covered(coverage)) \cup Pages(Covered(manifest))
    BY DEF Pages
  <2> QED BY <1>1, <2>3, <2>4 DEF EvidenceInv, SourcesKnown, SourcesRegistered
<1> QED BY EvidenceInvariance, <1>1, PTL

\* Evidence accepted for a step is never lost again.
THEOREM EvidenceIsKept == Spec => EvidenceKept
<1>1. EvidenceInv /\ [Next]_vars => [\A s \in Step : coverage[s] \subseteq coverage'[s]]_coverage
  BY EvidenceStep
<1> QED BY EvidenceInvariance, <1>1, PTL DEF Spec, EvidenceKept

\* Published facts are dropped only by an extraction that replaces the instances.
THEOREM FactsAreKept == Spec => FactsKept
<1>1. EvidenceInv /\ [Next]_vars => [replace \/ workspace \subseteq workspace']_workspace
  BY EvidenceStep
<1> QED BY EvidenceInvariance, <1>1, PTL DEF Spec, FactsKept

(***************************************************************************)
(* The parallel units of a tool call are all accounted for, and the stage  *)
(* stops exactly after a full row of failures, for any number of units,    *)
(* threads of the pool and limit of failures.                              *)
(***************************************************************************)

Fate == {"waiting", "queued", "running", "returned", "raised", "done", "skipped", "cancelled"}
Place == {"loop", "leaving", "stopped", "no_result", "written"}

Collected == {i \in Unit : future[i] \in {"done", "skipped"}}

UnitsTyped ==
    /\ units \in Nat /\ future \in [Unit -> Fate]
    /\ log \in Seq({"done", "skipped"}) /\ streak \in Nat /\ call \in Place

\* Units are submitted in the order of their index.
InOrder == \E n \in Nat \ {0} : \A i \in Unit : future[i] = "waiting" <=> n <= i

\* Where the loop was left, nothing waits in the queue of the pool, and where
\* the tool call ended, nothing is at work.
Quiet ==
    /\ call # "loop" => \A i \in Unit : future[i] # "queued"
    /\ call \in {"stopped", "no_result", "written"} => \A i \in Unit : future[i] # "running"
    /\ call = "written" => Collected = Unit /\ Len(answers) = Cardinality(Results)

\* The streak is the row of failures that ends the log.
Row ==
    /\ streak <= Len(log)
    /\ \A k \in (Len(log) - streak + 1)..Len(log) : log[k] = "skipped"
    /\ streak < Len(log) => log[Len(log) - streak] = "done"
    /\ call \in {"leaving", "stopped"} <=> streak >= FailureLimit

UnitsInv ==
    /\ UnitsTyped /\ InOrder /\ Quiet /\ Row
    /\ Len(log) = Cardinality(Collected)

-----------------------------------------------------------------------------
(* The steps *)

\* The unit that takes the place of a collected one was waiting, and is the
\* first that was.
LEMMA Submits ==
    ASSUME units \in Nat, NEW f \in [Unit -> Fate],
           NEW n \in Nat \ {0}, \A i \in Unit : f[i] = "waiting" <=> n <= i
    PROVE  /\ NextSubmitted(f) \in [Unit -> Fate]
           /\ \A i \in Unit : NextSubmitted(f)[i] # f[i] => f[i] = "waiting" /\ NextSubmitted(f)[i] = "queued"
           /\ \E m \in Nat \ {0} : \A i \in Unit : NextSubmitted(f)[i] = "waiting" <=> m <= i
<1> DEFINE waiting == {i \in Unit : f[i] = "waiting"}
<1>1. CASE waiting = {}
  BY <1>1 DEF NextSubmitted
<1>2. CASE waiting # {}
  <2> DEFINE first == CHOOSE i \in waiting : \A j \in waiting : i <= j
  <2>1. n \in waiting /\ \A j \in waiting : n <= j
    BY <1>2 DEF Unit
  <2>2. first \in waiting /\ \A j \in waiting : first <= j
    BY <2>1
  <2>3. first = n
    BY <2>1, <2>2 DEF Unit
  <2>4. NextSubmitted(f) = [f EXCEPT ![first] = "queued"]
    BY <1>2 DEF NextSubmitted
  <2> HIDE DEF first
  <2>5. /\ NextSubmitted(f) \in [Unit -> Fate] /\ n \in Unit
        /\ \A i \in Unit : NextSubmitted(f)[i] = IF i = n THEN "queued" ELSE f[i]
    BY <2>1, <2>3, <2>4 DEF Fate
  <2>6. \A i \in Unit : NextSubmitted(f)[i] = "waiting" <=> n + 1 <= i
    BY <2>5 DEF Unit
  <2>7. n + 1 \in Nat \ {0}
    OBVIOUS
  <2> QED BY <2>1, <2>5, <2>6, <2>7
<1> QED BY <1>1, <1>2

LEMMA UnitsAreFinite ==
    ASSUME units \in Nat
    PROVE  /\ IsFiniteSet(Unit) /\ Cardinality(Unit) = units
           /\ IsFiniteSet(Collected) /\ Cardinality(Collected) \in Nat
<1>1. IsFiniteSet(Unit) /\ Cardinality(Unit) = units
  BY FS_Interval DEF Unit
<1>2. Collected \in SUBSET Unit
  BY DEF Collected
<1> QED BY <1>1, <1>2, FS_Subset, FS_CardinalityType

\* A unit is collected once.
LEMMA OneMore ==
    ASSUME UnitsInv, NEW i \in Unit, future[i] \notin {"done", "skipped"},
           NEW status \in {"done", "skipped"}, log' = Append(log, status), units' = units,
           \A j \in Unit : future'[j] \in {"done", "skipped"} <=> j = i \/ future[j] \in {"done", "skipped"}
    PROVE  Len(log') = Cardinality(Collected')
<1>1. Collected' = Collected \cup {i} /\ i \notin Collected
  BY DEF Collected, Unit
<1>2. IsFiniteSet(Collected) /\ Cardinality(Collected) \in Nat
  BY UnitsAreFinite DEF UnitsInv, UnitsTyped
<1>3. Cardinality(Collected') = Cardinality(Collected) + 1
  BY <1>1, <1>2, FS_AddElement
<1>4. Len(log') = Len(log) + 1
  BY DEF UnitsInv, UnitsTyped
<1> QED BY <1>3, <1>4 DEF UnitsInv

LEMMA UnitsInitial == UnitsInit => UnitsInv
<1> SUFFICES ASSUME UnitsInit PROVE UnitsInv
  OBVIOUS
<1>1. /\ units \in Nat /\ future = [i \in Unit |-> IF i <= Workers THEN "queued" ELSE "waiting"]
      /\ log = <<>> /\ streak = 0 /\ call = "loop"
  BY UnitsAssumption DEF UnitsInit
<1>2. UnitsTyped
  BY <1>1 DEF UnitsTyped, Fate, Place
<1>3. InOrder
  <2>1. Workers + 1 \in Nat \ {0} /\ \A i \in Unit : future[i] = "waiting" <=> Workers + 1 <= i
    BY <1>1, UnitsAssumption DEF Unit
  <2> QED BY <2>1 DEF InOrder
<1>4. Quiet /\ Row
  BY <1>1, UnitsAssumption DEF Quiet, Row
<1>5. Collected = {}
  BY <1>1 DEF Collected
<1> QED BY <1>1, <1>2, <1>3, <1>4, <1>5, FS_EmptySet DEF UnitsInv

\* A thread of the pool takes, ends or fails a unit.
LEMMA AdvanceKeeps ==
    ASSUME UnitsInv, NEW i \in Unit, StartUnit(i) \/ ReturnUnit(i) \/ RaiseUnit(i)
    PROVE  UnitsInv'
<1>1. PICK from, to :
        /\ <<from, to>> \in {<<"queued", "running">>, <<"running", "returned">>, <<"running", "raised">>}
        /\ Advance(i, from, to)
  BY DEF StartUnit, ReturnUnit, RaiseUnit
<1>2. /\ from \in {"queued", "running"} /\ to \in {"running", "returned", "raised"}
      /\ to = "running" => from = "queued"
  BY <1>1
<1>3. /\ future[i] = from /\ future' = [future EXCEPT ![i] = to]
      /\ UNCHANGED <<units, log, streak, call, answers, written>>
  BY <1>1 DEF Advance
<1>4. UnitsTyped
  BY DEF UnitsInv
<1>5. /\ future' \in [Unit -> Fate]
      /\ \A j \in Unit : future'[j] = IF j = i THEN to ELSE future[j]
  BY <1>2, <1>3, <1>4 DEF UnitsTyped, Fate
<1>6. UnitsTyped' /\ Unit' = Unit
  BY <1>3, <1>4, <1>5 DEF UnitsTyped, Unit
<1>7. InOrder'
  <2>1. PICK n \in Nat \ {0} : \A j \in Unit : future[j] = "waiting" <=> n <= j
    BY DEF UnitsInv, InOrder
  <2>2. \A j \in Unit : future'[j] = "waiting" <=> n <= j
    BY <1>2, <1>3, <1>5, <2>1
  <2> QED BY <1>6, <2>2 DEF InOrder
<1>8. Collected' = Collected /\ Results' = Results
  BY <1>2, <1>3, <1>5, <1>6 DEF Collected, Results, With
<1>9. Quiet' /\ Row'
  <2>1. call = "written" => Collected = Unit
    BY DEF UnitsInv, Quiet
  <2> QED BY <1>2, <1>3, <1>5, <1>6, <1>8, <2>1 DEF UnitsInv, Quiet, Row
<1> QED BY <1>3, <1>6, <1>7, <1>8, <1>9 DEF UnitsInv

LEMMA CollectResultKeeps ==
    ASSUME UnitsInv, NEW i \in Unit, CollectResult(i)
    PROVE  UnitsInv'
<1> DEFINE f == [future EXCEPT ![i] = "done"]
<1>1. /\ call = "loop" /\ future[i] = "returned" /\ future' = NextSubmitted(f)
      /\ log' = Append(log, "done") /\ streak' = 0
      /\ UNCHANGED <<units, call, answers, written>>
  BY DEF CollectResult, Report, StreakBroken
<1>2. UnitsTyped /\ Row
  BY DEF UnitsInv
<1>3. PICK n \in Nat \ {0} : \A j \in Unit : future[j] = "waiting" <=> n <= j
  BY DEF UnitsInv, InOrder
<1>4. f \in [Unit -> Fate] /\ \A j \in Unit : f[j] = IF j = i THEN "done" ELSE future[j]
  BY <1>2 DEF UnitsTyped, Fate
<1>5. \A j \in Unit : f[j] = "waiting" <=> n <= j
  BY <1>1, <1>3, <1>4
<1> HIDE DEF f
<1>6. /\ future' \in [Unit -> Fate]
      /\ \A j \in Unit : future'[j] # f[j] => f[j] = "waiting" /\ future'[j] = "queued"
      /\ \E m \in Nat \ {0} : \A j \in Unit : future'[j] = "waiting" <=> m <= j
  BY <1>1, <1>2, <1>4, <1>5, Submits DEF UnitsTyped
<1>7. Unit' = Unit /\ UnitsTyped'
  BY <1>1, <1>2, <1>6 DEF UnitsTyped, Unit
<1>8. InOrder'
  BY <1>6, <1>7 DEF InOrder
<1>9. \A j \in Unit : future'[j] \in {"done", "skipped"} <=> j = i \/ future[j] \in {"done", "skipped"}
  BY <1>4, <1>6
<1>10. Len(log') = Cardinality(Collected')
  BY <1>1, <1>9, OneMore
<1>11. Quiet'
  BY <1>1 DEF Quiet
<1>12. Row'
  <2>1. Len(log') = Len(log) + 1 /\ Len(log) \in Nat /\ log'[Len(log) + 1] = "done"
    BY <1>1, <1>2 DEF UnitsTyped
  <2> QED BY <1>1, <2>1, UnitsAssumption DEF Row
<1> QED BY <1>7, <1>8, <1>10, <1>11, <1>12 DEF UnitsInv

LEMMA CollectFailureKeeps ==
    ASSUME UnitsInv, NEW i \in Unit, CollectFailure(i)
    PROVE  UnitsInv'
<1>1. /\ call = "loop" /\ future[i] = "raised" /\ log' = Append(log, "skipped")
      /\ streak' = streak + 1 /\ UNCHANGED <<units, answers, written>>
  BY DEF CollectFailure, Report
<1>2. UnitsTyped /\ Row /\ Unit' = Unit
  BY <1>1 DEF UnitsInv, Unit
<1>3. PICK n \in Nat \ {0} : \A j \in Unit : future[j] = "waiting" <=> n <= j
  BY DEF UnitsInv, InOrder
<1>4. /\ Len(log') = Len(log) + 1 /\ Len(log) \in Nat /\ log' \in Seq({"done", "skipped"})
      /\ log'[Len(log) + 1] = "skipped" /\ \A k \in 1..Len(log) : log'[k] = log[k]
      /\ streak' \in Nat /\ streak \in Nat
  BY <1>1, <1>2 DEF UnitsTyped
<1>5. /\ streak' <= Len(log')
      /\ \A k \in (Len(log') - streak' + 1)..Len(log') : log'[k] = "skipped"
      /\ streak' < Len(log') => log'[Len(log') - streak'] = "done"
  <2>1. /\ Len(log') - streak' = Len(log) - streak /\ streak <= Len(log)
        /\ streak' <= Len(log') /\ (streak' < Len(log') => streak < Len(log))
    BY <1>1, <1>2, <1>4 DEF Row
  <2>2. ASSUME NEW k \in (Len(log) - streak + 1)..(Len(log) + 1) PROVE log'[k] = "skipped"
    <3>1. k = Len(log) + 1 \/ (k \in 1..Len(log) /\ k \in (Len(log) - streak + 1)..Len(log))
      BY <1>4, <2>1
    <3> QED BY <1>2, <1>4, <3>1 DEF Row
  <2>3. ASSUME streak < Len(log) PROVE log'[Len(log) - streak] = "done"
    <3>1. Len(log) - streak \in 1..Len(log)
      BY <1>4, <2>3
    <3> QED BY <1>2, <1>4, <2>3, <3>1 DEF Row
  <2>4. Len(log') = Len(log) + 1
    BY <1>4
  <2> QED BY <2>1, <2>2, <2>3, <2>4
<1>6. ASSUME \A j \in Unit : future'[j] \in {"done", "skipped"} <=> j = i \/ future[j] \in {"done", "skipped"}
      PROVE  Len(log') = Cardinality(Collected')
  BY <1>1, <1>6, OneMore
<1>7. CASE streak' >= FailureLimit
  <2>1. /\ call' = "leaving"
        /\ future' = [j \in Unit |-> IF j = i THEN "skipped"
                                     ELSE IF future[j] = "queued" THEN "cancelled" ELSE future[j]]
    BY <1>7 DEF CollectFailure
  <2>2. UnitsTyped'
    BY <1>1, <1>2, <1>4, <2>1 DEF UnitsTyped, Fate, Place
  <2>3. \A j \in Unit : future'[j] = "waiting" <=> n <= j
    BY <1>1, <1>3, <2>1
  <2>4. InOrder'
    BY <1>2, <2>3 DEF InOrder
  <2>5. Quiet'
    BY <1>2, <2>1 DEF Quiet
  <2>6. Row'
    BY <1>5, <1>7, <2>1 DEF Row
  <2>7. Len(log') = Cardinality(Collected')
    BY <1>6, <2>1
  <2> QED BY <2>2, <2>4, <2>5, <2>6, <2>7 DEF UnitsInv
<1>8. CASE ~(streak' >= FailureLimit)
  <2> DEFINE f == [future EXCEPT ![i] = "skipped"]
  <2>1. call' = call /\ future' = NextSubmitted(f)
    BY <1>8 DEF CollectFailure
  <2>2. f \in [Unit -> Fate] /\ \A j \in Unit : f[j] = IF j = i THEN "skipped" ELSE future[j]
    BY <1>2 DEF UnitsTyped, Fate
  <2>3. \A j \in Unit : f[j] = "waiting" <=> n <= j
    BY <1>1, <1>3, <2>2
  <2> HIDE DEF f
  <2>4. /\ future' \in [Unit -> Fate]
        /\ \A j \in Unit : future'[j] # f[j] => f[j] = "waiting" /\ future'[j] = "queued"
        /\ \E m \in Nat \ {0} : \A j \in Unit : future'[j] = "waiting" <=> m <= j
    BY <1>2, <2>1, <2>2, <2>3, Submits DEF UnitsTyped
  <2>5. UnitsTyped'
    BY <1>1, <1>2, <1>4, <2>1, <2>4 DEF UnitsTyped
  <2>6. InOrder'
    BY <1>2, <2>4 DEF InOrder
  <2>7. Quiet'
    BY <1>1, <2>1 DEF Quiet
  <2>8. Row'
    BY <1>1, <1>5, <1>8, <2>1 DEF Row
  <2>9. Len(log') = Cardinality(Collected')
    BY <1>6, <2>2, <2>4
  <2> QED BY <2>5, <2>6, <2>7, <2>8, <2>9 DEF UnitsInv
<1> QED BY <1>7, <1>8

\* The tool call ends.
LEMMA EndKeeps ==
    ASSUME UnitsInv, StopStage \/ NoResult \/ WriteDraft
    PROVE  UnitsInv'
<1>1. /\ UNCHANGED <<units, future, log, streak>> /\ UnitsTyped
      /\ Unit' = Unit /\ Collected' = Collected /\ Results' = Results
  BY DEF StopStage, NoResult, WriteDraft, UnitsInv, Unit, Collected, Results, With
<1>2. call' \in Place
  BY DEF StopStage, NoResult, WriteDraft, Place
<1>3. UnitsTyped' /\ InOrder' /\ Len(log') = Cardinality(Collected')
  BY <1>1, <1>2 DEF UnitsInv, UnitsTyped, InOrder
<1>4. CASE StopStage
  <2>1. call = "leaving" /\ call' = "stopped" /\ \A i \in Unit : future[i] # "running"
    BY <1>4 DEF StopStage, PoolEmpty, With
  <2> QED BY <1>1, <1>3, <2>1 DEF UnitsInv, Quiet, Row
<1>5. CASE NoResult \/ WriteDraft
  <2>1. call = "loop" /\ call' \in {"no_result", "written"} /\ Unit = Results \cup Skipped
    BY <1>5 DEF NoResult, WriteDraft, AllCollected
  <2>2. Collected = Unit /\ \A i \in Unit : future[i] \notin {"queued", "running"}
    BY <2>1 DEF Collected, Results, Skipped, With
  <2>3. call' = "written" => Len(answers') = Cardinality(Results)
    <3>1. SUFFICES ASSUME WriteDraft PROVE Len(answers') = Cardinality(Results)
      BY <1>5 DEF NoResult
    <3>2. PICK said \in [1..Cardinality(Results) -> Answer] :
            answers' = [k \in DOMAIN said |-> Grounded(said[k], k)]
      BY <3>1 DEF WriteDraft
    <3>3. Results \in SUBSET Unit
      BY DEF Results, With
    <3>4. Cardinality(Results) \in Nat
      BY <1>1, <3>3, UnitsAreFinite, FS_Subset, FS_CardinalityType DEF UnitsTyped
    <3>5. DOMAIN answers' = 1..Cardinality(Results)
      BY <3>2
    <3>6. answers' = [k \in 1..Cardinality(Results) |-> answers'[k]]
      BY <3>2
    <3> QED BY <3>4, <3>6
  <2> QED BY <1>1, <1>3, <2>1, <2>2, <2>3 DEF UnitsInv, Quiet, Row
<1> QED BY <1>4, <1>5

LEMMA UnitsStep == UnitsInv /\ [UnitsNext]_unitVars => UnitsInv'
<1> SUFFICES ASSUME UnitsInv, [UnitsNext]_unitVars PROVE UnitsInv'
  OBVIOUS
<1>1. CASE UNCHANGED unitVars
  <2>1. UNCHANGED <<units, future, log, streak, call, answers>>
    BY <1>1 DEF unitVars
  <2> QED
    BY <2>1 DEF UnitsInv, UnitsTyped, InOrder, Quiet, Row, Unit, Collected, Results, With
<1> QED
  BY <1>1, AdvanceKeeps, CollectResultKeeps, CollectFailureKeeps, EndKeeps DEF UnitsNext

-----------------------------------------------------------------------------
(* The theorems *)

\* UnitsInvariance: the log counts the collected units, its last row of failures
\* is the streak, and nothing is queued once the loop was left.
THEOREM UnitsInvariance == UnitsSpec => []UnitsInv
<1> QED BY UnitsInitial, UnitsStep, PTL DEF UnitsSpec

\* AllAccounted: where a tool call ends, no unit is at work, and where it ends
\* with a draft, every unit was collected once.
THEOREM AllAccounted == UnitsSpec => []UnitsAccounted
<1>1. ASSUME UnitsInv PROVE UnitsAccounted
  <2>1. Unit = Collected => Len(log) = units /\ Results \cup Skipped = Unit
    BY <1>1, UnitsAreFinite DEF UnitsInv, UnitsTyped, Collected, Results, Skipped, With
  <2> QED BY <1>1, <2>1 DEF UnitsInv, Quiet, UnitsAccounted, With
<1> QED BY <1>1, UnitsInvariance, PTL

\* StopsAfterRow: the stage stops exactly when the log ends with a full row of
\* failures.
THEOREM StopsAfterRow == UnitsSpec => []StopsInRow
<1>1. ASSUME UnitsInv PROVE StopsInRow
  <2>1. /\ Row /\ streak \in Nat /\ Len(log) \in Nat /\ FailureLimit \in Nat \ {0}
    BY <1>1, UnitsAssumption DEF UnitsInv, UnitsTyped
  <2>2. streak >= FailureLimit => FailedRow
    BY <2>1 DEF Row, FailedRow
  <2>3. ASSUME FailedRow, streak < FailureLimit PROVE FALSE
    <3>1. streak < Len(log) /\ Len(log) - streak \in (Len(log) - FailureLimit + 1)..Len(log)
      BY <2>1, <2>3 DEF FailedRow
    <3> QED BY <2>1, <2>3, <3>1 DEF Row, FailedRow
  <2> QED BY <2>1, <2>2, <2>3 DEF Row, StopsInRow
<1> QED BY <1>1, UnitsInvariance, PTL

-----------------------------------------------------------------------------
(* Induction up to a bound, and the loops *)

LEMMA LeastNatural ==
    ASSUME NEW T \in SUBSET Nat, T # {}
    PROVE  \E x \in T : \A y \in T : x <= y
<1>1. PICK x \in T : \A y \in T : ~(<<y, x>> \in OpToRel(<, Nat))
  BY NatLessThanWellFounded, WFMin
<1>2. \A y \in T : y < x => <<y, x>> \in OpToRel(<, Nat)
  BY DEF OpToRel
<1>3. \A y \in T : ~(y < x)
  BY <1>1, <1>2, Zenon
<1> QED BY <1>3

\* A set that has 0 and goes on with each of its numbers has all of them.
LEMMA UpTo ==
    ASSUME NEW n \in Nat, NEW S, 0 \in S, \A k \in 0..n : k \in S /\ k < n => k + 1 \in S
    PROVE  \A k \in 0..n : k \in S
<1> SUFFICES ASSUME {k \in 0..n : k \notin S} # {} PROVE FALSE
  OBVIOUS
<1>1. {k \in 0..n : k \notin S} \in SUBSET Nat
  OBVIOUS
<1>2. PICK m \in {k \in 0..n : k \notin S} : \A k \in {k \in 0..n : k \notin S} : m <= k
  BY <1>1, LeastNatural
<1>3. m # 0 /\ m \in 0..n /\ m \notin S
  BY <1>2
<1>4. m - 1 \in 0..n /\ m - 1 < n /\ m - 1 < m
  BY <1>3
<1>5. m - 1 \in S
  BY <1>2, <1>4
<1>6. m - 1 + 1 = m
  BY <1>3
<1> QED BY <1>3, <1>4, <1>5, <1>6

LEMMA EntityLoopIs ==
    ASSUME NEW base, NEW entities, Len(entities) \in Nat
    PROVE  /\ EntityLoop(base, entities)[0] = [draft |-> base, aliases |-> {}]
           /\ \A k \in 1..Len(entities) :
                 EntityLoop(base, entities)[k] =
                     MergeEntity(EntityLoop(base, entities)[k - 1], entities[k])
<1> DEFINE n == Len(entities)
           start == [draft |-> base, aliases |-> {}]
           Runs(f, m) == f[0] = start /\ \A k \in 1..m : f[k] = MergeEntity(f[k - 1], entities[k])
           Body(f) == [k \in 0..n |-> IF k = 0 THEN start ELSE MergeEntity(f[k - 1], entities[k])]
           far == {m \in 0..n : \E f : Runs(f, m)}
<1> HIDE DEF start
<1>1. 0 \in far
  <2>1. Runs([k \in {0} |-> start], 0)
    OBVIOUS
  <2> HIDE DEF Runs
  <2>2. \E f : Runs(f, 0)
    BY <2>1
  <2> QED BY <2>2
<1>2. ASSUME NEW m \in 0..n, m \in far, m < n PROVE m + 1 \in far
  <2>1. PICK f : Runs(f, m)
    BY <1>2
  <2> DEFINE g == [k \in 0..m + 1 |-> IF k = m + 1 THEN MergeEntity(f[m], entities[m + 1]) ELSE f[k]]
  <2>2. g[0] = start
    BY <2>1
  <2>3. ASSUME NEW k \in 1..m + 1 PROVE g[k] = MergeEntity(g[k - 1], entities[k])
    <3>1. k - 1 \in 0..m + 1 /\ k - 1 # m + 1
      OBVIOUS
    <3>2. g[k - 1] = f[k - 1]
      BY <3>1
    <3>3. CASE k = m + 1
      BY <3>2, <3>3
    <3>4. CASE k # m + 1
      BY <2>1, <3>2, <3>4
    <3> QED BY <3>3, <3>4
  <2> HIDE DEF g
  <2>4. Runs(g, m + 1)
    BY <2>2, <2>3
  <2> QED BY <1>2, <2>4
<1>3. n \in far
  <2>1. n \in Nat /\ n \in 0..n
    OBVIOUS
  <2> HIDE DEF far, n
  <2>2. \A k \in 0..n : k \in far /\ k < n => k + 1 \in far
    BY <1>2
  <2>3. \A k \in 0..n : k \in far
    BY <1>1, <2>1, <2>2, UpTo, Zenon
  <2> QED BY <2>1, <2>3
<1>4. PICK f : Runs(f, n)
  BY <1>3
<1> DEFINE h == [k \in 0..n |-> f[k]]
<1>5. h = Body(h)
  <2>1. ASSUME NEW k \in 0..n PROVE h[k] = Body(h)[k]
    <3>1. CASE k = 0
      BY <1>4, <3>1
    <3>2. CASE k # 0
      <4>1. k \in 1..n /\ k - 1 \in 0..n
        BY <3>2
      <4> QED BY <1>4, <3>2, <4>1
    <3> QED BY <3>1, <3>2
  <2> QED BY <2>1
<1>6. EntityLoop(base, entities) = CHOOSE g : g = Body(g)
  BY DEF EntityLoop, start
<1>7. EntityLoop(base, entities) = Body(EntityLoop(base, entities))
  <2> HIDE DEF h, Body
  <2> QED BY <1>5, <1>6, Zenon
<1>8. ASSUME NEW g, g = Body(g)
      PROVE  g[0] = start /\ \A k \in 1..n : g[k] = MergeEntity(g[k - 1], entities[k])
  BY <1>8
<1> HIDE DEF Body
<1> QED BY <1>7, <1>8 DEF start


LEMMA DraftLoopIs ==
    ASSUME NEW batches, Len(batches) \in Nat
    PROVE  /\ DraftLoop(batches)[0] = EmptyDraft
           /\ \A k \in 1..Len(batches) :
                 DraftLoop(batches)[k] =
                     MergeDraft(DraftLoop(batches)[k - 1], batches[k])
<1> DEFINE n == Len(batches)
           start == EmptyDraft
           Runs(f, m) == f[0] = start /\ \A k \in 1..m : f[k] = MergeDraft(f[k - 1], batches[k])
           Body(f) == [k \in 0..n |-> IF k = 0 THEN start ELSE MergeDraft(f[k - 1], batches[k])]
           far == {m \in 0..n : \E f : Runs(f, m)}
<1> HIDE DEF start
<1>1. 0 \in far
  <2>1. Runs([k \in {0} |-> start], 0)
    OBVIOUS
  <2> HIDE DEF Runs
  <2>2. \E f : Runs(f, 0)
    BY <2>1
  <2> QED BY <2>2
<1>2. ASSUME NEW m \in 0..n, m \in far, m < n PROVE m + 1 \in far
  <2>1. PICK f : Runs(f, m)
    BY <1>2
  <2> DEFINE g == [k \in 0..m + 1 |-> IF k = m + 1 THEN MergeDraft(f[m], batches[m + 1]) ELSE f[k]]
  <2>2. g[0] = start
    BY <2>1
  <2>3. ASSUME NEW k \in 1..m + 1 PROVE g[k] = MergeDraft(g[k - 1], batches[k])
    <3>1. k - 1 \in 0..m + 1 /\ k - 1 # m + 1
      OBVIOUS
    <3>2. g[k - 1] = f[k - 1]
      BY <3>1
    <3>3. CASE k = m + 1
      BY <3>2, <3>3
    <3>4. CASE k # m + 1
      BY <2>1, <3>2, <3>4
    <3> QED BY <3>3, <3>4
  <2> HIDE DEF g
  <2>4. Runs(g, m + 1)
    BY <2>2, <2>3
  <2> QED BY <1>2, <2>4
<1>3. n \in far
  <2>1. n \in Nat /\ n \in 0..n
    OBVIOUS
  <2> HIDE DEF far, n
  <2>2. \A k \in 0..n : k \in far /\ k < n => k + 1 \in far
    BY <1>2
  <2>3. \A k \in 0..n : k \in far
    BY <1>1, <2>1, <2>2, UpTo, Zenon
  <2> QED BY <2>1, <2>3
<1>4. PICK f : Runs(f, n)
  BY <1>3
<1> DEFINE h == [k \in 0..n |-> f[k]]
<1>5. h = Body(h)
  <2>1. ASSUME NEW k \in 0..n PROVE h[k] = Body(h)[k]
    <3>1. CASE k = 0
      BY <1>4, <3>1
    <3>2. CASE k # 0
      <4>1. k \in 1..n /\ k - 1 \in 0..n
        BY <3>2
      <4> QED BY <1>4, <3>2, <4>1
    <3> QED BY <3>1, <3>2
  <2> QED BY <2>1
<1>6. DraftLoop(batches) = CHOOSE g : g = Body(g)
  BY DEF DraftLoop, start
<1>7. DraftLoop(batches) = Body(DraftLoop(batches))
  <2> HIDE DEF h, Body
  <2> QED BY <1>5, <1>6, Zenon
<1>8. ASSUME NEW g, g = Body(g)
      PROVE  g[0] = start /\ \A k \in 1..n : g[k] = MergeDraft(g[k - 1], batches[k])
  BY <1>8
<1> HIDE DEF Body
<1> QED BY <1>7, <1>8 DEF start


-----------------------------------------------------------------------------
(* Drafts and answers *)

AnyId == Id \cup Name
EntityRecord == [id : AnyId, name : Name, refs : SUBSET Nat]
LinkRecord == [head : AnyId, tail : AnyId, refs : SUBSET Nat]

\* An id was given by a model, or computed from the name it stands for.
OwnId(e) == e.id \in Id \cup {e.name}

\* What is merged: an answer, or a draft. A draft has one record for each name
\* and one for each id.
Said == {b \in [entities : Seq(EntityRecord), relations : SUBSET LinkRecord] :
            \A k \in DOMAIN b.entities : OwnId(b.entities[k])}
OneEach(base) ==
    \A j, k \in DOMAIN base.entities :
        (base.entities[j].id = base.entities[k].id \/ base.entities[j].name = base.entities[k].name)
            => j = k

\* The ids with their names, and what a name refers to.
Named(b) == {<<b.entities[k].id, b.entities[k].name>> : k \in DOMAIN b.entities}
RefsOfName(b, n) == UNION {b.entities[k].refs : k \in {m \in DOMAIN b.entities : b.entities[m].name = n}}

\* A draft relates what b relates, with the references of b.
Relates(b, base) ==
    \A r \in b.relations : \A h \in OwnName(b, r.head), t \in OwnName(b, r.tail) :
        \E q \in base.relations :
            <<q.head, h>> \in Named(base) /\ <<q.tail, t>> \in Named(base) /\ r.refs \subseteq q.refs

\* A draft says what a set of batches says.
States(base, bs) ==
    /\ base \in Said /\ OneEach(base)
    /\ Names(base) = UNION {Names(b) : b \in bs}
    /\ \A n \in Name : RefsOfName(base, n) = UNION {RefsOfName(b, n) : b \in bs}
    /\ \A b \in bs : Relates(b, base)

LEMMA SaidIs ==
    ASSUME NEW b \in Said
    PROVE  /\ b.entities \in Seq(EntityRecord) /\ b.relations \in SUBSET LinkRecord
           /\ Len(b.entities) \in Nat /\ DOMAIN b.entities = 1..Len(b.entities)
           /\ \A k \in DOMAIN b.entities : b.entities[k] \in EntityRecord /\ OwnId(b.entities[k])
BY DEF Said

LEMMA NamesAre ==
    ASSUME NEW b \in Said
    PROVE  /\ \A n : n \in Names(b) <=> \E k \in DOMAIN b.entities : b.entities[k].name = n
           /\ \A i : i \in Ids(b) <=> \E k \in DOMAIN b.entities : b.entities[k].id = i
           /\ \A i, n : <<i, n>> \in Named(b) <=>
                  \E k \in DOMAIN b.entities : b.entities[k].id = i /\ b.entities[k].name = n
BY DEF Names, Ids, Named

LEMMA NamesFromNamed ==
    ASSUME NEW b \in Said, NEW n
    PROVE  n \in Names(b) <=> \E i : <<i, n>> \in Named(b)
<1>1. ASSUME NEW k \in DOMAIN b.entities, b.entities[k].name = n
      PROVE  <<b.entities[k].id, n>> \in Named(b)
  BY <1>1, NamesAre
<1>2. n \in Names(b) => \E i : <<i, n>> \in Named(b)
  BY <1>1, NamesAre
<1>3. (\E i : <<i, n>> \in Named(b)) => n \in Names(b)
  BY NamesAre
<1> QED BY <1>2, <1>3

\* The id that an entity gets belongs to its name, and to no other one.
LEMMA CanonicalIdFits ==
    ASSUME NEW base \in Said, OneEach(base), NEW e \in EntityRecord, OwnId(e)
    PROVE  LET id == CanonicalId(base, e) IN
           /\ id \in Id \cup {e.name} /\ id \in AnyId
           /\ \A k \in DOMAIN base.entities :
                  base.entities[k].id = id <=> base.entities[k].name = e.name
<1> DEFINE id == CanonicalId(base, e)
<1>1. CASE e.name \in Names(base)
  <2>1. PICK k \in DOMAIN base.entities : base.entities[k].name = e.name
    BY <1>1, NamesAre
  <2>2. base.entities[k].id \in IdOfName(base, e.name)
    BY <2>1 DEF IdOfName
  <2>3. id \in IdOfName(base, e.name)
    BY <1>1, <2>2 DEF CanonicalId
  <2>4. PICK m \in DOMAIN base.entities : base.entities[m].name = e.name /\ id = base.entities[m].id
    BY <2>3 DEF IdOfName
  <2>5. base.entities[m] \in EntityRecord /\ OwnId(base.entities[m])
    BY SaidIs
  <2> QED BY <2>4, <2>5 DEF OneEach, OwnId, EntityRecord
<1>2. CASE e.name \notin Names(base) /\ e.id \notin Ids(base)
  <2>1. id = e.id
    BY <1>2 DEF CanonicalId
  <2> QED BY <1>2, <2>1, NamesAre DEF OwnId, EntityRecord
<1>3. CASE e.name \notin Names(base) /\ e.id \in Ids(base)
  <2>1. id = e.name
    BY <1>3 DEF CanonicalId
  <2>2. ASSUME NEW k \in DOMAIN base.entities, base.entities[k].id = e.name PROVE FALSE
    <3>1. base.entities[k] \in EntityRecord /\ OwnId(base.entities[k])
      BY SaidIs
    <3>2. e.name \notin Id
      BY IdsAssumption DEF EntityRecord
    <3>3. base.entities[k].name = e.name
      BY <2>2, <3>1, <3>2 DEF OwnId
    <3> QED BY <1>3, <3>3, NamesAre
  <2> QED BY <1>3, <2>1, <2>2, NamesAre DEF EntityRecord, AnyId
<1> QED BY <1>1, <1>2, <1>3

\* One entity is merged.
LEMMA EntityMerged ==
    ASSUME NEW acc, acc.draft \in Said, OneEach(acc.draft), NEW e \in EntityRecord, OwnId(e)
    PROVE  LET new == MergeEntity(acc, e).draft IN
           /\ new \in Said /\ OneEach(new) /\ new.relations = acc.draft.relations
           /\ Named(new) = Named(acc.draft) \cup {<<CanonicalId(acc.draft, e), e.name>>}
           /\ \A n \in Name : RefsOfName(new, n) = RefsOfName(acc.draft, n) \cup (IF n = e.name THEN e.refs ELSE {})
<1> DEFINE old == acc.draft
           id == CanonicalId(old, e)
           new == MergeEntity(acc, e).draft
<1>1. /\ id \in Id \cup {e.name} /\ id \in AnyId
      /\ \A k \in DOMAIN old.entities : old.entities[k].id = id <=> old.entities[k].name = e.name
  BY CanonicalIdFits
<1>2. /\ old.entities \in Seq(EntityRecord) /\ old.relations \in SUBSET LinkRecord
      /\ Len(old.entities) \in Nat /\ DOMAIN old.entities = 1..Len(old.entities)
      /\ \A k \in DOMAIN old.entities : old.entities[k] \in EntityRecord /\ OwnId(old.entities[k])
  BY SaidIs
<1>3. /\ old = [entities |-> old.entities, relations |-> old.relations]
      /\ e.name \in Name /\ e.refs \in SUBSET Nat
  BY DEF Said, EntityRecord
<1>4. CASE id \in Ids(old)
  <2> DEFINE merged == [k \in DOMAIN old.entities |->
                 IF old.entities[k].id = id THEN MergeRecord(old.entities[k], e) ELSE old.entities[k]]
  <2>1. new = [old EXCEPT !.entities = merged]
    BY <1>4 DEF MergeEntity
  <2>2. new.entities = merged /\ new.relations = old.relations
        /\ new = [entities |-> merged, relations |-> old.relations]
    BY <1>3, <2>1
  <2>3. ASSUME NEW k \in DOMAIN old.entities
        PROVE  /\ merged[k] \in EntityRecord /\ OwnId(merged[k])
               /\ merged[k].id = old.entities[k].id /\ merged[k].name = old.entities[k].name
               /\ merged[k].refs = old.entities[k].refs
                                     \cup (IF old.entities[k].name = e.name THEN e.refs ELSE {})
    BY <1>1, <1>2, <1>3 DEF MergeRecord, EntityRecord, OwnId
  <2>4. merged \in Seq(EntityRecord) /\ DOMAIN merged = DOMAIN old.entities
    <3>1. merged \in [1..Len(old.entities) -> EntityRecord]
      BY <1>2, <2>3
    <3> QED BY <1>2, <3>1, SeqDef
  <2> HIDE DEF merged, new, old, id
  <2>5. new \in Said
    BY <1>2, <2>2, <2>3, <2>4 DEF Said
  <2>6. OneEach(new)
    BY <2>2, <2>3, <2>4 DEF OneEach, old
  <2>7. PICK m \in DOMAIN old.entities : old.entities[m].id = id /\ old.entities[m].name = e.name
    BY <1>1, <1>4, NamesAre DEF old
  <2>8. Named(new) = Named(old) \cup {<<id, e.name>>}
    <3>1. Named(new) = Named(old)
      BY <2>2, <2>3, <2>4 DEF Named
    <3>2. <<id, e.name>> \in Named(old)
      BY <2>7 DEF Named
    <3> QED BY <3>1, <3>2
  <2>9. ASSUME NEW n \in Name
        PROVE  RefsOfName(new, n) = RefsOfName(old, n) \cup (IF n = e.name THEN e.refs ELSE {})
    BY <2>2, <2>3, <2>4, <2>7 DEF RefsOfName
  <2> QED BY <2>2, <2>5, <2>6, <2>8, <2>9 DEF new, old, id
<1>5. CASE id \notin Ids(old)
  <2> DEFINE more == [e EXCEPT !.id = id]
             longer == Append(old.entities, more)
  <2>1. new = [old EXCEPT !.entities = longer]
    BY <1>5 DEF MergeEntity
  <2>2. new.entities = longer /\ new.relations = old.relations
        /\ new = [entities |-> longer, relations |-> old.relations]
    BY <1>3, <2>1
  <2>3. /\ more \in EntityRecord /\ OwnId(more)
        /\ more.id = id /\ more.name = e.name /\ more.refs = e.refs
    BY <1>1 DEF EntityRecord, OwnId
  <2>4. /\ longer \in Seq(EntityRecord) /\ DOMAIN longer = 1..Len(old.entities) + 1
        /\ \A k \in DOMAIN old.entities : longer[k] = old.entities[k]
        /\ longer[Len(old.entities) + 1] = more
    BY <1>2, <2>3
  <2> DEFINE last == Len(old.entities) + 1
  <2>5. /\ last \notin DOMAIN old.entities /\ DOMAIN longer = DOMAIN old.entities \cup {last}
        /\ \A k \in DOMAIN old.entities : old.entities[k].id # id /\ old.entities[k].name # e.name
    BY <1>1, <1>2, <1>5, <2>4, NamesAre
  <2> HIDE DEF longer, more, new, old, id, last
  <2>6. \A k \in DOMAIN longer : longer[k] \in EntityRecord /\ OwnId(longer[k])
    BY <1>2, <2>3, <2>4, <2>5 DEF last
  <2>7. new \in Said
    BY <1>2, <2>2, <2>4, <2>6 DEF Said
  <2>8. longer[last] = more
    BY <2>4 DEF last
  <2>9. OneEach(new)
    <3> SUFFICES ASSUME NEW j \in DOMAIN longer, NEW k \in DOMAIN longer,
                        longer[j].id = longer[k].id \/ longer[j].name = longer[k].name
                 PROVE  j = k
      BY <2>2 DEF OneEach
    <3>1. CASE j = last \/ k = last
      BY <2>3, <2>4, <2>5, <2>8, <3>1
    <3>2. CASE j # last /\ k # last
      <4>1. j \in DOMAIN old.entities /\ k \in DOMAIN old.entities
        BY <2>5, <3>2
      <4> QED BY <2>4, <4>1 DEF OneEach, old
    <3> QED BY <3>1, <3>2
  <2>10. Named(new) = Named(old) \cup {<<id, e.name>>}
    <3>1. Named(new) = {<<longer[k].id, longer[k].name>> : k \in DOMAIN old.entities \cup {last}}
      BY <2>2, <2>5 DEF Named
    <3>2. Named(old) = {<<longer[k].id, longer[k].name>> : k \in DOMAIN old.entities}
      BY <2>4 DEF Named
    <3> QED BY <2>3, <2>8, <3>1, <3>2
  <2>11. ASSUME NEW n \in Name
         PROVE  RefsOfName(new, n) = RefsOfName(old, n) \cup (IF n = e.name THEN e.refs ELSE {})
    <3>1. ASSUME NEW x
          PROVE  x \in RefsOfName(new, n) <=>
                     \E k \in DOMAIN longer : longer[k].name = n /\ x \in longer[k].refs
      BY <2>2 DEF RefsOfName
    <3>2. ASSUME NEW x
          PROVE  x \in RefsOfName(old, n) <=>
                     \E k \in DOMAIN old.entities : old.entities[k].name = n /\ x \in old.entities[k].refs
      BY DEF RefsOfName
    <3>3. ASSUME NEW x
          PROVE  x \in RefsOfName(new, n) <=> x \in RefsOfName(old, n) \/ (n = e.name /\ x \in e.refs)
      <4>1. \A k \in DOMAIN longer : k \in DOMAIN old.entities \/ k = last
        BY <2>5
      <4>2. (\E k \in DOMAIN longer : longer[k].name = n /\ x \in longer[k].refs)
                <=> \/ \E k \in DOMAIN old.entities : old.entities[k].name = n /\ x \in old.entities[k].refs
                    \/ n = e.name /\ x \in e.refs
        BY <2>3, <2>4, <2>5, <2>8, <4>1
      <4> QED BY <3>1, <3>2, <4>2
    <3> QED BY <3>3
  <2> QED BY <2>2, <2>7, <2>9, <2>10, <2>11 DEF new, old, id
<1> QED BY <1>4, <1>5


-----------------------------------------------------------------------------
(* The entities of one batch *)

OneAlias(aliases) == \A a, b \in aliases : a[1] = b[1] => a = b

LEMMA RewrittenIs ==
    ASSUME NEW aliases, OneAlias(aliases)
    PROVE  /\ \A a \in aliases : Rewritten(aliases, a[1]) = a[2]
           /\ \A i : (\A a \in aliases : a[1] # i) => Rewritten(aliases, i) = i
<1>1. ASSUME NEW a \in aliases PROVE Rewritten(aliases, a[1]) = a[2]
  <2>1. (CHOOSE b \in aliases : b[1] = a[1]) = a
    BY DEF OneAlias
  <2> QED BY <2>1 DEF Rewritten
<1>2. ASSUME NEW i, \A a \in aliases : a[1] # i PROVE Rewritten(aliases, i) = i
  BY <1>2 DEF Rewritten
<1> QED BY <1>1, <1>2

\* After k entities, the draft has their names and references besides its own, and
\* each id that stands for one name among them leads to that name.
Merging(base, entities, k, acc) ==
    /\ acc.draft \in Said /\ OneEach(acc.draft) /\ acc.draft.relations = base.relations
    /\ Named(base) \subseteq Named(acc.draft)
    /\ Names(acc.draft) = Names(base) \cup {entities[j].name : j \in 1..k}
    /\ \A n \in Name : RefsOfName(acc.draft, n) =
           RefsOfName(base, n) \cup UNION {entities[j].refs : j \in {i \in 1..k : entities[i].name = n}}
    /\ OneAlias(acc.aliases)
    /\ \A a \in acc.aliases : a[2] \in AnyId /\ \E j \in 1..k : entities[j].id = a[1]
    /\ \A i \in 1..k :
           (\A j \in 1..k : entities[j].id = entities[i].id => entities[j].name = entities[i].name)
               => <<Rewritten(acc.aliases, entities[i].id), entities[i].name>> \in Named(acc.draft)

LEMMA MergingStep ==
    ASSUME NEW base, NEW entities \in Seq(EntityRecord), NEW k \in Nat, k + 1 \in 1..Len(entities),
           OwnId(entities[k + 1]), NEW acc, Merging(base, entities, k, acc)
    PROVE  Merging(base, entities, k + 1, MergeEntity(acc, entities[k + 1]))
<1> DEFINE e == entities[k + 1]
           id == CanonicalId(acc.draft, e)
           next == MergeEntity(acc, e)
<1>1. e \in EntityRecord /\ OwnId(e) /\ e.name \in Name
  <2>1. e \in EntityRecord
    BY ElementOfSeq
  <2> QED BY <2>1 DEF EntityRecord
<1>2. /\ acc.draft \in Said /\ OneEach(acc.draft)
      /\ OneAlias(acc.aliases)
      /\ \A a \in acc.aliases : a[2] \in AnyId /\ \E j \in 1..k : entities[j].id = a[1]
  BY DEF Merging
<1>3. /\ next.draft \in Said /\ OneEach(next.draft) /\ next.draft.relations = acc.draft.relations
      /\ Named(next.draft) = Named(acc.draft) \cup {<<id, e.name>>}
      /\ \A n \in Name : RefsOfName(next.draft, n) =
             RefsOfName(acc.draft, n) \cup (IF n = e.name THEN e.refs ELSE {})
  BY <1>1, <1>2, EntityMerged
<1>4. id \in AnyId
  BY <1>1, <1>2, CanonicalIdFits
<1>5. next.aliases = IF id = e.id THEN acc.aliases
                     ELSE {a \in acc.aliases : a[1] # e.id} \cup {<<e.id, id>>}
  BY DEF MergeEntity
<1>6. 1..k + 1 = (1..k) \cup {k + 1} /\ k + 1 \notin 1..k
  OBVIOUS
<1> HIDE DEF e, id, next
<1>7. Names(next.draft) = Names(base) \cup {entities[j].name : j \in 1..k + 1}
  <2>1. \A n : n \in Names(next.draft) <=> n \in Names(acc.draft) \/ n = e.name
    <3> SUFFICES ASSUME NEW n PROVE n \in Names(next.draft) <=> n \in Names(acc.draft) \/ n = e.name
      OBVIOUS
    <3>1. n \in Names(next.draft) <=> \E i : <<i, n>> \in Named(next.draft)
      BY <1>3, NamesFromNamed
    <3>2. n \in Names(acc.draft) <=> \E i : <<i, n>> \in Named(acc.draft)
      BY <1>2, NamesFromNamed
    <3> QED BY <1>3, <3>1, <3>2
  <2>2. Names(acc.draft) = Names(base) \cup {entities[j].name : j \in 1..k}
    BY DEF Merging
  <2> QED BY <1>6, <2>1, <2>2 DEF e
<1>8. ASSUME NEW n \in Name
      PROVE  RefsOfName(next.draft, n) =
                 RefsOfName(base, n) \cup UNION {entities[j].refs : j \in {i \in 1..k + 1 : entities[i].name = n}}
  <2>1. RefsOfName(acc.draft, n) =
            RefsOfName(base, n) \cup UNION {entities[j].refs : j \in {i \in 1..k : entities[i].name = n}}
    BY DEF Merging
  <2>2. ASSUME NEW x
        PROVE  x \in UNION {entities[j].refs : j \in {i \in 1..k : entities[i].name = n}}
                   <=> \E j \in 1..k : entities[j].name = n /\ x \in entities[j].refs
    OBVIOUS
  <2>3. ASSUME NEW x
        PROVE  x \in UNION {entities[j].refs : j \in {i \in 1..k + 1 : entities[i].name = n}}
                   <=> \E j \in 1..k + 1 : entities[j].name = n /\ x \in entities[j].refs
    OBVIOUS
  <2>4. ASSUME NEW x
        PROVE  x \in RefsOfName(next.draft, n) <=>
                   x \in RefsOfName(acc.draft, n) \/ (n = e.name /\ x \in e.refs)
    BY <1>3
  <2>5. ASSUME NEW x
        PROVE  (\E j \in 1..k + 1 : entities[j].name = n /\ x \in entities[j].refs)
                   <=> \/ \E j \in 1..k : entities[j].name = n /\ x \in entities[j].refs
                       \/ e.name = n /\ x \in e.refs
    BY <1>6 DEF e
  <2>6. ASSUME NEW x
        PROVE  x \in RefsOfName(next.draft, n) <=>
                   \/ x \in RefsOfName(base, n)
                   \/ x \in UNION {entities[j].refs : j \in {i \in 1..k + 1 : entities[i].name = n}}
    BY <2>1, <2>2, <2>3, <2>4, <2>5
  <2> QED BY <2>6
<1>9. OneAlias(next.aliases)
  BY <1>2, <1>5 DEF OneAlias
<1>10. \A a \in next.aliases : a[2] \in AnyId /\ \E j \in 1..k + 1 : entities[j].id = a[1]
  <2> SUFFICES ASSUME NEW a \in next.aliases
               PROVE  a[2] \in AnyId /\ \E j \in 1..k + 1 : entities[j].id = a[1]
    OBVIOUS
  <2>1. a \in acc.aliases \/ a = <<e.id, id>>
    BY <1>5
  <2> QED BY <1>2, <1>4, <1>6, <2>1 DEF e
<1>11. ASSUME NEW i \in 1..k + 1,
              \A j \in 1..k + 1 : entities[j].id = entities[i].id => entities[j].name = entities[i].name
       PROVE  <<Rewritten(next.aliases, entities[i].id), entities[i].name>> \in Named(next.draft)
  <2> DEFINE x == entities[i].id
  <2>1. \A j \in 1..k : entities[j].id = x =>
            <<Rewritten(acc.aliases, x), entities[j].name>> \in Named(acc.draft)
    <3> SUFFICES ASSUME NEW j \in 1..k, entities[j].id = x
                 PROVE  <<Rewritten(acc.aliases, x), entities[j].name>> \in Named(acc.draft)
      OBVIOUS
    <3>1. \A m \in 1..k : entities[m].id = entities[j].id => entities[m].name = entities[j].name
      BY <1>6, <1>11
    <3> QED BY <3>1 DEF Merging
  <2>2. CASE x = e.id
    <3>1. entities[i].name = e.name
      BY <1>6, <1>11, <2>2 DEF e
    <3>2. CASE id # e.id
      <4>1. <<e.id, id>> \in next.aliases
        BY <1>5, <3>2
      <4>2. Rewritten(next.aliases, e.id) = id
        BY <1>9, <4>1, RewrittenIs
      <4> QED BY <1>3, <2>2, <3>1, <4>2
    <3>3. CASE id = e.id /\ \E j \in 1..k : entities[j].id = x
      <4>1. PICK j \in 1..k : entities[j].id = x
        BY <3>3
      <4>2. entities[j].name = e.name
        BY <1>6, <1>11, <3>1, <4>1
      <4> QED BY <1>3, <1>5, <2>1, <3>1, <3>3, <4>1, <4>2
    <3>4. CASE id = e.id /\ ~\E j \in 1..k : entities[j].id = x
      <4>1. \A a \in acc.aliases : a[1] # x
        BY <1>2, <3>4
      <4>2. Rewritten(acc.aliases, x) = x
        BY <1>2, <4>1, RewrittenIs
      <4> QED BY <1>3, <1>5, <2>2, <3>1, <3>4, <4>2
    <3> QED BY <3>2, <3>3, <3>4
  <2>3. CASE x # e.id
    <3>1. i \in 1..k
      BY <1>6, <2>3 DEF e
    <3>2. Rewritten(next.aliases, x) = Rewritten(acc.aliases, x)
      <4>1. CASE \E a \in acc.aliases : a[1] = x
        <5>1. PICK a \in acc.aliases : a[1] = x
          BY <4>1
        <5>2. a \in next.aliases
          BY <1>5, <2>3, <5>1
        <5> QED BY <1>2, <1>9, <5>1, <5>2, RewrittenIs
      <4>2. CASE \A a \in acc.aliases : a[1] # x
        <5>1. \A a \in next.aliases : a[1] # x
          BY <1>5, <2>3, <4>2
        <5> QED BY <1>2, <1>9, <4>2, <5>1, RewrittenIs
      <4> QED BY <4>1, <4>2
    <3> QED BY <1>3, <2>1, <3>1, <3>2
  <2> QED BY <2>2, <2>3
<1>12. Named(base) \subseteq Named(next.draft) /\ next.draft.relations = base.relations
  BY <1>3 DEF Merging
<1>13. Merging(base, entities, k + 1, next)
  BY <1>3, <1>7, <1>8, <1>9, <1>10, <1>11, <1>12 DEF Merging
<1> QED BY <1>13 DEF next, e

LEMMA EntitiesMerged ==
    ASSUME NEW base \in Said, OneEach(base), NEW entities \in Seq(EntityRecord),
           \A k \in DOMAIN entities : OwnId(entities[k])
    PROVE  Merging(base, entities, Len(entities), EntityLoop(base, entities)[Len(entities)])
<1> DEFINE n == Len(entities)
           acc == EntityLoop(base, entities)
           done == {k \in 0..n : Merging(base, entities, k, acc[k])}
<1>1. n \in Nat /\ DOMAIN entities = 1..n
  BY LenProperties
<1>2. acc[0] = [draft |-> base, aliases |-> {}] /\ \A k \in 1..n : acc[k] = MergeEntity(acc[k - 1], entities[k])
  BY <1>1, EntityLoopIs
<1> HIDE DEF n, acc
<1>3. 0 \in done
  <2>1. acc[0].draft = base /\ acc[0].aliases = {}
    BY <1>2
  <2>2. 1..0 = {} /\ 0 \in 0..n
    BY <1>1
  <2>3. Merging(base, entities, 0, acc[0])
    BY <2>1, <2>2 DEF Merging, OneAlias
  <2> QED BY <2>2, <2>3
<1>4. ASSUME NEW k \in 0..n, k \in done, k < n PROVE k + 1 \in done
  <2>1. k \in Nat /\ k + 1 \in 1..n /\ k + 1 \in 0..n /\ k + 1 - 1 = k
    BY <1>1, <1>4
  <2>2. acc[k + 1] = MergeEntity(acc[k], entities[k + 1])
    BY <1>2, <2>1
  <2>3. OwnId(entities[k + 1]) /\ Merging(base, entities, k, acc[k])
    BY <1>1, <1>4, <2>1
  <2>4. Merging(base, entities, k + 1, MergeEntity(acc[k], entities[k + 1]))
    BY <2>1, <2>3, MergingStep DEF n
  <2> QED BY <2>1, <2>2, <2>4
<1>5. \A k \in 0..n : k \in done
  <2> HIDE DEF done
  <2>1. \A k \in 0..n : k \in done /\ k < n => k + 1 \in done
    BY <1>4
  <2> QED BY <1>1, <1>3, <2>1, UpTo, Zenon
<1>6. n \in 0..n
  BY <1>1
<1> QED BY <1>5, <1>6 DEF n, acc

-----------------------------------------------------------------------------
(* What an id stands for *)

\* The name that an id stands for alone is the name of each entity with that id.
LEMMA OwnNameIs ==
    ASSUME NEW b \in Said, NEW i, NEW h \in OwnName(b, i)
    PROVE  /\ \E k \in DOMAIN b.entities : b.entities[k].id = i /\ b.entities[k].name = h
           /\ \A k \in DOMAIN b.entities : b.entities[k].id = i => b.entities[k].name = h
<1> DEFINE at == {m \in DOMAIN b.entities : b.entities[m].id = i}
           called == {b.entities[k].name : k \in at}
           name == [k \in at |-> b.entities[k].name]
<1>1. DOMAIN b.entities = 1..Len(b.entities) /\ Len(b.entities) \in Nat
  BY SaidIs
<1>2. IsFiniteSet(at)
  <2>1. IsFiniteSet(1..Len(b.entities))
    <3>1. 1 \in Int /\ Len(b.entities) \in Int
      BY <1>1
    <3> QED BY <3>1, FS_Interval, Zenon
  <2>2. at \in SUBSET (1..Len(b.entities))
    BY <1>1
  <2> QED BY <2>1, <2>2, FS_Subset, Zenon
<1>3. IsFiniteSet(called)
  <2>1. name \in Surjection(at, called)
    BY DEF Surjection
  <2> HIDE DEF name, at, called
  <2> QED BY <1>2, <2>1, FS_Surjection, Zenon
<1>4. Cardinality(called) = 1 /\ h \in called
  BY DEF OwnName
<1>5. \E x : called = {x}
  <2> HIDE DEF called
  <2> QED BY <1>3, <1>4, FS_Singleton, Zenon
<1>6. called = {h}
  BY <1>4, <1>5
<1> QED BY <1>6

\* In a draft it is the name of the entity.
LEMMA OwnNameInDraft ==
    ASSUME NEW base \in Said, OneEach(base), NEW i, NEW h, <<i, h>> \in Named(base)
    PROVE  OwnName(base, i) = {h}
<1>1. PICK k \in DOMAIN base.entities : base.entities[k].id = i /\ base.entities[k].name = h
  BY NamesAre
<1>2. {m \in DOMAIN base.entities : base.entities[m].id = i} = {k}
  BY <1>1 DEF OneEach
<1> DEFINE called == {base.entities[m].name : m \in {m \in DOMAIN base.entities : base.entities[m].id = i}}
<1>3. called = {h}
  BY <1>1, <1>2
<1>4. Cardinality(called) = 1
  BY <1>3, FS_Singleton
<1> QED BY <1>3, <1>4 DEF OwnName

-----------------------------------------------------------------------------
(* The merge of one batch *)

\* Each relation is kept, with its references.
KeepsLinks(links, merged) ==
    \A r \in links : \E q \in merged : q.head = r.head /\ q.tail = r.tail /\ r.refs \subseteq q.refs

\* Relations that are merged keep their ends and lose no reference.
LEMMA RelationsMerged ==
    ASSUME NEW old, NEW more, old \subseteq LinkRecord, more \subseteq LinkRecord
    PROVE  /\ MergeRelations(old, more) \in SUBSET LinkRecord
           /\ KeepsLinks(old \cup more, MergeRelations(old, more))
<1> DEFINE all == old \cup more
           refs(r) == UNION {q.refs : q \in {p \in all : SameEnds(p, r)}}
           merged(r) == [r EXCEPT !.refs = refs(r)]
<1>1. ASSUME NEW r \in all
      PROVE  /\ merged(r) \in LinkRecord
             /\ merged(r).head = r.head /\ merged(r).tail = r.tail /\ r.refs \subseteq merged(r).refs
  <2>1. r \in LinkRecord
    OBVIOUS
  <2>2. refs(r) \in SUBSET Nat
    BY DEF LinkRecord
  <2>3. r.refs \subseteq refs(r)
    BY DEF SameEnds
  <2> HIDE DEF refs
  <2> QED BY <2>1, <2>2, <2>3 DEF LinkRecord
<1>2. MergeRelations(old, more) = {merged(r) : r \in all}
  BY DEF MergeRelations
<1> HIDE DEF merged
<1> QED BY <1>1, <1>2 DEF KeepsLinks

LEMMA BatchMerged ==
    ASSUME NEW base, NEW bs, States(base, bs), NEW b \in Said
    PROVE  States(MergeDraft(base, b), bs \cup {b})
<1> DEFINE n == Len(b.entities)
           acc == EntityLoop(base, b.entities)[n]
           from(r) == Rewritten(acc.aliases, r.head)
           to(r) == Rewritten(acc.aliases, r.tail)
           renamed(r) == [r EXCEPT !.head = Rewritten(acc.aliases, @), !.tail = Rewritten(acc.aliases, @)]
           incoming == {renamed(r) : r \in b.relations}
           links == MergeRelations(acc.draft.relations, incoming)
           new == MergeDraft(base, b)
<1>1. /\ b.entities \in Seq(EntityRecord) /\ b.relations \in SUBSET LinkRecord
      /\ n \in Nat /\ DOMAIN b.entities = 1..n
      /\ \A k \in DOMAIN b.entities : b.entities[k] \in EntityRecord /\ OwnId(b.entities[k])
  BY SaidIs
<1>2. base \in Said /\ OneEach(base)
  BY DEF States
<1>3. Merging(base, b.entities, n, acc)
  BY <1>1, <1>2, EntitiesMerged
<1>4. new = [acc.draft EXCEPT !.relations = links]
  BY DEF MergeDraft
<1> HIDE DEF acc
<1>5. acc.draft \in Said /\ OneEach(acc.draft) /\ acc.draft.relations = base.relations
      /\ Named(base) \subseteq Named(acc.draft)
  BY <1>3 DEF Merging
<1>6. new.entities = acc.draft.entities /\ new.relations = links
      /\ new = [entities |-> acc.draft.entities, relations |-> links]
  BY <1>4, <1>5 DEF Said
<1>7. OneAlias(acc.aliases) /\ \A a \in acc.aliases : a[2] \in AnyId
  BY <1>3 DEF Merging
<1>8. ASSUME NEW i \in AnyId PROVE Rewritten(acc.aliases, i) \in AnyId
  <2>1. CASE \E a \in acc.aliases : a[1] = i
    BY <1>7, <2>1, RewrittenIs
  <2>2. CASE \A a \in acc.aliases : a[1] # i
    BY <1>7, <2>2, RewrittenIs
  <2> QED BY <2>1, <2>2
<1>9. ASSUME NEW r \in b.relations
      PROVE  /\ renamed(r) \in LinkRecord
             /\ renamed(r).head = from(r) /\ renamed(r).tail = to(r) /\ renamed(r).refs = r.refs
  <2>1. r \in LinkRecord
    BY <1>1
  <2>2. r.head \in AnyId /\ r.tail \in AnyId
    BY <2>1 DEF LinkRecord
  <2>3. from(r) \in AnyId /\ to(r) \in AnyId
    BY <1>8, <2>2
  <2>4. renamed(r) = [r EXCEPT !.head = from(r), !.tail = to(r)]
    BY <2>1 DEF LinkRecord
  <2> HIDE DEF from, to, renamed
  <2> QED BY <2>1, <2>3, <2>4 DEF LinkRecord
<1> HIDE DEF renamed
<1>10. incoming \in SUBSET LinkRecord /\ acc.draft.relations \in SUBSET LinkRecord
  BY <1>5, <1>9, SaidIs
<1> HIDE DEF incoming
<1>11. /\ links \in SUBSET LinkRecord
       /\ \A r \in acc.draft.relations \cup incoming : \E q \in links :
              q.head = r.head /\ q.tail = r.tail /\ r.refs \subseteq q.refs
  <2> DEFINE known == acc.draft.relations
  <2>1. known \subseteq LinkRecord /\ incoming \subseteq LinkRecord
    BY <1>10
  <2> HIDE DEF known
  <2>2. /\ MergeRelations(known, incoming) \in SUBSET LinkRecord
        /\ KeepsLinks(known \cup incoming, MergeRelations(known, incoming))
    BY <2>1, RelationsMerged, Zenon
  <2> QED BY <2>2 DEF known, KeepsLinks
<1> HIDE DEF links, new
<1>12. new \in Said
  BY <1>5, <1>6, <1>11 DEF Said
<1>13. OneEach(new)
  BY <1>5, <1>6 DEF OneEach
<1>14. Named(new) = Named(acc.draft) /\ Names(new) = Names(acc.draft)
       /\ \A m : RefsOfName(new, m) = RefsOfName(acc.draft, m)
  BY <1>6 DEF Named, Names, RefsOfName
<1>15. Names(new) = UNION {Names(c) : c \in bs \cup {b}}
  <2>1. Names(acc.draft) = Names(base) \cup {b.entities[j].name : j \in 1..n}
    BY <1>3 DEF Merging
  <2>2. Names(b) = {b.entities[j].name : j \in 1..n}
    BY <1>1 DEF Names
  <2>3. Names(base) = UNION {Names(c) : c \in bs}
    BY DEF States
  <2> QED BY <1>14, <2>1, <2>2, <2>3
<1>16. ASSUME NEW m \in Name PROVE RefsOfName(new, m) = UNION {RefsOfName(c, m) : c \in bs \cup {b}}
  <2>1. RefsOfName(acc.draft, m) = RefsOfName(base, m)
            \cup UNION {b.entities[j].refs : j \in {i \in 1..n : b.entities[i].name = m}}
    BY <1>3 DEF Merging
  <2>2. RefsOfName(b, m) = UNION {b.entities[j].refs : j \in {i \in 1..n : b.entities[i].name = m}}
    BY <1>1 DEF RefsOfName
  <2>3. RefsOfName(base, m) = UNION {RefsOfName(c, m) : c \in bs}
    BY DEF States
  <2> QED BY <1>14, <2>1, <2>2, <2>3
<1>17. ASSUME NEW c \in bs PROVE Relates(c, new)
  <2> SUFFICES ASSUME NEW r \in c.relations, NEW h \in OwnName(c, r.head), NEW t \in OwnName(c, r.tail)
               PROVE  \E q \in new.relations :
                          <<q.head, h>> \in Named(new) /\ <<q.tail, t>> \in Named(new) /\ r.refs \subseteq q.refs
    BY DEF Relates
  <2>1. PICK p \in base.relations :
            <<p.head, h>> \in Named(base) /\ <<p.tail, t>> \in Named(base) /\ r.refs \subseteq p.refs
    <3>1. Relates(c, base)
      BY DEF States
    <3> QED BY <3>1 DEF Relates
  <2>2. PICK q \in links : q.head = p.head /\ q.tail = p.tail /\ p.refs \subseteq q.refs
    BY <1>5, <1>11
  <2> QED BY <1>5, <1>6, <1>14, <2>1, <2>2
<1>18. Relates(b, new)
  <2> SUFFICES ASSUME NEW r \in b.relations, NEW h \in OwnName(b, r.head), NEW t \in OwnName(b, r.tail)
               PROVE  \E q \in new.relations :
                          <<q.head, h>> \in Named(new) /\ <<q.tail, t>> \in Named(new) /\ r.refs \subseteq q.refs
    BY DEF Relates
  <2>1. ASSUME NEW i, NEW x \in OwnName(b, i)
        PROVE  <<Rewritten(acc.aliases, i), x>> \in Named(acc.draft)
    <3>1. PICK k \in 1..n : b.entities[k].id = i /\ b.entities[k].name = x
      BY <1>1, OwnNameIs
    <3>2. \A j \in 1..n : b.entities[j].id = b.entities[k].id => b.entities[j].name = b.entities[k].name
      BY <1>1, <3>1, OwnNameIs
    <3>3. <<Rewritten(acc.aliases, b.entities[k].id), b.entities[k].name>> \in Named(acc.draft)
      BY <1>3, <3>2 DEF Merging
    <3> QED BY <3>1, <3>3
  <2>2. <<from(r), h>> \in Named(new) /\ <<to(r), t>> \in Named(new)
    BY <1>14, <2>1
  <2>3. renamed(r) \in incoming
    BY DEF incoming
  <2> HIDE DEF from, to
  <2>4. PICK q \in links : q.head = from(r) /\ q.tail = to(r) /\ r.refs \subseteq q.refs
    BY <1>9, <1>11, <2>3
  <2> QED BY <1>6, <2>2, <2>4
<1>19. States(new, bs \cup {b})
  BY <1>12, <1>13, <1>15, <1>16, <1>17, <1>18 DEF States
<1> QED BY <1>19 DEF new

-----------------------------------------------------------------------------
(* The merge of all batches *)

LEMMA AllMerged ==
    ASSUME NEW batches \in Seq(Said)
    PROVE  States(MergeAll(batches), {batches[k] : k \in DOMAIN batches})
<1> DEFINE n == Len(batches)
           upto(k) == {batches[j] : j \in 1..k}
           merged == DraftLoop(batches)
           done == {k \in 0..n : States(merged[k], upto(k))}
<1>1. n \in Nat /\ DOMAIN batches = 1..n
  BY LenProperties
<1>2. merged[0] = EmptyDraft /\ \A k \in 1..n : merged[k] = MergeDraft(merged[k - 1], batches[k])
  BY <1>1, DraftLoopIs
<1>3. MergeAll(batches) = merged[n]
  BY DEF MergeAll
<1> HIDE DEF n, merged
<1>4. 0 \in done
  <2>1. 0 \in 0..n /\ upto(0) = {}
    BY <1>1
  <2>2. States(EmptyDraft, {})
    <3>1. EmptyDraft.entities = <<>> /\ EmptyDraft.relations = {} /\ DOMAIN EmptyDraft.entities = {}
      BY DEF EmptyDraft
    <3>2. EmptyDraft \in [entities : Seq(EntityRecord), relations : SUBSET LinkRecord]
      BY DEF EmptyDraft
    <3>3. EmptyDraft \in Said
      BY <3>1, <3>2 DEF Said
    <3>4. OneEach(EmptyDraft)
      BY <3>1 DEF OneEach
    <3>5. Names(EmptyDraft) = {} /\ \A m : RefsOfName(EmptyDraft, m) = {}
      BY <3>1 DEF Names, RefsOfName
    <3> QED BY <3>3, <3>4, <3>5 DEF States
  <2> QED BY <1>2, <2>1, <2>2
<1>5. ASSUME NEW k \in 0..n, k \in done, k < n PROVE k + 1 \in done
  <2>1. k + 1 \in 1..n /\ k + 1 \in 0..n /\ k + 1 - 1 = k
    BY <1>1, <1>5
  <2>2. batches[k + 1] \in Said
    BY <2>1, ElementOfSeq DEF n
  <2>3. merged[k + 1] = MergeDraft(merged[k], batches[k + 1])
    BY <1>2, <2>1
  <2>4. upto(k + 1) = upto(k) \cup {batches[k + 1]}
    <3>1. 1..k + 1 = (1..k) \cup {k + 1}
      BY <1>1
    <3> QED BY <3>1
  <2>5. States(merged[k], upto(k))
    BY <1>5
  <2> HIDE DEF upto
  <2>6. States(MergeDraft(merged[k], batches[k + 1]), upto(k) \cup {batches[k + 1]})
    BY <2>2, <2>5, BatchMerged
  <2> QED BY <2>1, <2>3, <2>4, <2>6
<1>6. \A k \in 0..n : k \in done
  <2> HIDE DEF done
  <2>1. \A k \in 0..n : k \in done /\ k < n => k + 1 \in done
    BY <1>5
  <2> QED BY <1>1, <1>4, <2>1, UpTo, Zenon
<1>7. n \in 0..n
  BY <1>1
<1> QED BY <1>1, <1>3, <1>6, <1>7

\* What dangles is not needed.
LEMMA StatesWithoutDangling ==
    ASSUME NEW base, NEW bs, States(base, bs)
    PROVE  States(WithoutDangling(base), bs)
<1> DEFINE new == WithoutDangling(base)
           held == {r \in base.relations : {r.head, r.tail} \subseteq Ids(base)}
<1>1. base \in Said /\ OneEach(base)
  BY DEF States
<1>2. new.entities = base.entities /\ new.relations = held
      /\ new = [entities |-> base.entities, relations |-> held]
  <2>1. base = [entities |-> base.entities, relations |-> base.relations]
    BY <1>1 DEF Said
  <2>2. new = [base EXCEPT !.relations = held]
    BY DEF WithoutDangling
  <2> HIDE DEF new, held
  <2> QED BY <2>1, <2>2
<1> HIDE DEF new
<1>3. new \in Said /\ OneEach(new)
  BY <1>1, <1>2 DEF Said, OneEach
<1>4. Named(new) = Named(base) /\ Names(new) = Names(base)
       /\ \A m : RefsOfName(new, m) = RefsOfName(base, m)
  BY <1>2 DEF Named, Names, RefsOfName
<1>5. ASSUME NEW c \in bs PROVE Relates(c, new)
  <2>1. Relates(c, base)
    BY DEF States
  <2> SUFFICES ASSUME NEW r \in c.relations, NEW h \in OwnName(c, r.head), NEW t \in OwnName(c, r.tail)
               PROVE  \E q \in new.relations :
                          <<q.head, h>> \in Named(new) /\ <<q.tail, t>> \in Named(new) /\ r.refs \subseteq q.refs
    BY DEF Relates
  <2>2. PICK p \in base.relations :
            <<p.head, h>> \in Named(base) /\ <<p.tail, t>> \in Named(base) /\ r.refs \subseteq p.refs
    BY <2>1 DEF Relates
  <2>3. p.head \in Ids(base) /\ p.tail \in Ids(base)
    BY <1>1, <2>2, NamesAre
  <2> QED BY <1>2, <1>4, <2>2, <2>3
<1>6. States(new, bs)
  BY <1>3, <1>4, <1>5 DEF States
<1> QED BY <1>6 DEF new

\* A draft of two drafts says what was said in either.
LEMMA StatesOfBoth ==
    ASSUME NEW one, NEW two, NEW both, NEW bs, NEW cs,
           States(one, bs), States(two, cs), States(both, {one, two})
    PROVE  States(both, bs \cup cs)
<1>1. both \in Said /\ OneEach(both)
  BY DEF States
<1>2. Names(both) = UNION {Names(c) : c \in bs \cup cs}
  <2>1. Names(both) = Names(one) \cup Names(two)
    BY DEF States
  <2>2. Names(one) = UNION {Names(c) : c \in bs} /\ Names(two) = UNION {Names(c) : c \in cs}
    BY DEF States
  <2> QED BY <2>1, <2>2
<1>3. ASSUME NEW m \in Name PROVE RefsOfName(both, m) = UNION {RefsOfName(c, m) : c \in bs \cup cs}
  <2>1. RefsOfName(both, m) = UNION {RefsOfName(c, m) : c \in {one, two}}
    BY DEF States
  <2>2. /\ RefsOfName(one, m) = UNION {RefsOfName(c, m) : c \in bs}
        /\ RefsOfName(two, m) = UNION {RefsOfName(c, m) : c \in cs}
    BY DEF States
  <2> QED BY <2>1, <2>2
<1>4. ASSUME NEW d, NEW ds, States(d, ds), d \in {one, two}, NEW c \in ds PROVE Relates(c, both)
  <2>1. d \in Said /\ OneEach(d) /\ Relates(c, d)
    BY <1>4 DEF States
  <2>2. Relates(d, both)
    BY <1>4 DEF States
  <2> SUFFICES ASSUME NEW r \in c.relations, NEW h \in OwnName(c, r.head), NEW t \in OwnName(c, r.tail)
               PROVE  \E q \in both.relations :
                          <<q.head, h>> \in Named(both) /\ <<q.tail, t>> \in Named(both) /\ r.refs \subseteq q.refs
    BY DEF Relates
  <2>3. PICK p \in d.relations :
            <<p.head, h>> \in Named(d) /\ <<p.tail, t>> \in Named(d) /\ r.refs \subseteq p.refs
    BY <2>1 DEF Relates
  <2>4. h \in OwnName(d, p.head) /\ t \in OwnName(d, p.tail)
    BY <2>1, <2>3, OwnNameInDraft
  <2>5. PICK q \in both.relations :
            <<q.head, h>> \in Named(both) /\ <<q.tail, t>> \in Named(both) /\ p.refs \subseteq q.refs
    BY <2>2, <2>4 DEF Relates
  <2> QED BY <2>3, <2>5
<1>5. ASSUME NEW c \in bs \cup cs PROVE Relates(c, both)
  BY <1>4
<1> QED BY <1>1, <1>2, <1>3, <1>5 DEF States

\* A draft that says what the batches say is faithful to them.
LEMMA StatesFaithfully ==
    ASSUME NEW batches \in Seq(Said), NEW base, States(base, {batches[k] : k \in DOMAIN batches})
    PROVE  Faithful(batches, base)
<1> DEFINE n == Len(base.entities)
           bs == {batches[k] : k \in DOMAIN batches}
<1>1. base \in Said /\ OneEach(base)
  BY DEF States
<1>2. n \in Nat /\ DOMAIN base.entities = 1..n /\ \A k \in 1..n : base.entities[k] \in EntityRecord
  BY <1>1, SaidIs
<1>3. Names(base) = UNION {Names(batches[k]) : k \in DOMAIN batches}
  BY DEF States
<1>4. IsFiniteSet(1..n) /\ Cardinality(1..n) = n
  <2>1. 1 \in Int /\ n \in Int
    BY <1>2
  <2>2. IsFiniteSet(1..n) /\ Cardinality(1..n) = IF 1 > n THEN 0 ELSE n - 1 + 1
    <3> HIDE DEF n
    <3> QED BY <2>1, FS_Interval, Zenon
  <2> HIDE DEF n
  <2> QED BY <1>2, <2>2
<1>5. Cardinality(Names(base)) = n
  <2> DEFINE name == [k \in 1..n |-> base.entities[k].name]
  <2>1. name \in Surjection(1..n, Names(base))
    BY <1>2 DEF Surjection, Names
  <2>2. name \in Injection(1..n, Names(base))
    BY <1>1, <1>2, <2>1 DEF Surjection, Injection, IsInjective, OneEach
  <2> HIDE DEF n, name
  <2> QED BY <1>4, <2>1, <2>2, FS_Surjection
<1>6. Cardinality(Ids(base)) = n
  <2> DEFINE id == [k \in 1..n |-> base.entities[k].id]
  <2>1. id \in Surjection(1..n, Ids(base))
    BY <1>2 DEF Surjection, Ids
  <2>2. id \in Injection(1..n, Ids(base))
    BY <1>1, <1>2, <2>1 DEF Surjection, Injection, IsInjective, OneEach
  <2> HIDE DEF n, id
  <2> QED BY <1>4, <2>1, <2>2, FS_Surjection
<1>7. ASSUME NEW e \in ToSet(base.entities)
      PROVE  e.refs = UNION UNION {{b.refs : b \in {c \in ToSet(batches[k].entities) : c.name = e.name}}
                               : k \in DOMAIN batches}
  <2>1. PICK j \in DOMAIN base.entities : e = base.entities[j]
    BY DEF ToSet
  <2>2. e.name \in Name
    BY <1>2, <2>1 DEF EntityRecord
  <2>3. {m \in DOMAIN base.entities : base.entities[m].name = e.name} = {j}
    BY <1>1, <2>1 DEF OneEach
  <2>4. RefsOfName(base, e.name) = e.refs
    BY <2>1, <2>3 DEF RefsOfName
  <2>5. e.refs = UNION {RefsOfName(b, e.name) : b \in bs}
    BY <2>2, <2>4 DEF States
  <2>6. ASSUME NEW x, NEW k
        PROVE  (\E b \in {c \in ToSet(batches[k].entities) : c.name = e.name} : x \in b.refs)
                   <=> x \in RefsOfName(batches[k], e.name)
    BY DEF ToSet, RefsOfName
  <2>7. ASSUME NEW x
        PROVE  x \in UNION UNION {{b.refs : b \in {c \in ToSet(batches[k].entities) : c.name = e.name}}
                                  : k \in DOMAIN batches}
                   <=> \E k \in DOMAIN batches :
                          \E b \in {c \in ToSet(batches[k].entities) : c.name = e.name} : x \in b.refs
    OBVIOUS
  <2>8. ASSUME NEW x
        PROVE  x \in e.refs <=> \E k \in DOMAIN batches : x \in RefsOfName(batches[k], e.name)
    BY <2>5
  <2> DEFINE mentions(k) == {c \in ToSet(batches[k].entities) : c.name = e.name}
             all == UNION UNION {{b.refs : b \in mentions(k)} : k \in DOMAIN batches}
  <2>9. ASSUME NEW x PROVE x \in e.refs <=> x \in all
    <3>1. x \in all <=> \E k \in DOMAIN batches : \E b \in mentions(k) : x \in b.refs
      BY <2>7
    <3>2. \A k : (\E b \in mentions(k) : x \in b.refs) <=> x \in RefsOfName(batches[k], e.name)
      BY <2>6
    <3> HIDE DEF mentions, all
    <3>3. x \in e.refs <=> \E k \in DOMAIN batches : x \in RefsOfName(batches[k], e.name)
      BY <2>8
    <3> QED BY <3>1, <3>2, <3>3
  <2>10. e.refs = all
    <3> HIDE DEF all
    <3> QED BY <2>9
  <2> QED BY <2>10
<1>8. ASSUME NEW k \in DOMAIN batches, NEW r \in batches[k].relations,
             NEW h \in OwnName(batches[k], r.head), NEW t \in OwnName(batches[k], r.tail)
      PROVE  Related(base, h, t, r.refs)
  <2>1. Relates(batches[k], base)
    BY DEF States
  <2>2. PICK q \in base.relations :
            <<q.head, h>> \in Named(base) /\ <<q.tail, t>> \in Named(base) /\ r.refs \subseteq q.refs
    BY <2>1 DEF Relates
  <2>3. OwnName(base, q.head) = {h} /\ OwnName(base, q.tail) = {t}
    BY <1>1, <2>2, OwnNameInDraft
  <2> QED BY <2>2, <2>3 DEF Related
<1>9. Cardinality(Names(base)) = Len(base.entities) /\ Cardinality(Ids(base)) = Len(base.entities)
  BY <1>5, <1>6
<1> HIDE DEF bs, n
<1> QED BY <1>3, <1>7, <1>8, <1>9 DEF Faithful

-----------------------------------------------------------------------------
(* The draft of a tool call *)

\* What is written merges answers that were bound to their chunks.
WrittenInv == call = "written" => /\ answers \in Seq(Said)
                                  /\ written = <<WithoutDangling(MergeAll(answers))>>

LEMMA GroundedIsSaid ==
    ASSUME NEW a \in Answer, NEW k \in Nat
    PROVE  Grounded(a, k) \in Said
<1> DEFINE g == Grounded(a, k)
<1>1. PICK m \in 0..2 : a.entities \in [1..m -> [id : Id, name : Name]]
  BY DEF Answer
<1>2. ASSUME NEW j \in 1..m PROVE g.entities[j] \in EntityRecord /\ OwnId(g.entities[j])
  <2>1. a.entities[j] \in [id : Id, name : Name] /\ DOMAIN a.entities = 1..m
    BY <1>1
  <2>2. g.entities[j] = [id |-> a.entities[j].id, name |-> a.entities[j].name, refs |-> {k}]
    BY <2>1 DEF Grounded, GroundedEntity
  <2> QED BY <2>1, <2>2 DEF EntityRecord, AnyId, OwnId
<1>3. g.entities \in Seq(EntityRecord) /\ DOMAIN g.entities = 1..m
  <2>1. DOMAIN g.entities = 1..m /\ g.entities = [j \in 1..m |-> g.entities[j]]
    BY <1>1 DEF Grounded
  <2>2. g.entities \in [1..m -> EntityRecord] /\ m \in Nat
    BY <1>2, <2>1
  <2> QED BY <2>1, <2>2, SeqDef
<1>4. g.relations \in SUBSET LinkRecord
  <2>1. a.relations \in SUBSET (Id \X Id)
    BY DEF Answer
  <2>2. ASSUME NEW r \in a.relations PROVE GroundedRelation(r, k) \in LinkRecord
    BY <2>1 DEF GroundedRelation, LinkRecord, AnyId
  <2> QED BY <2>2 DEF Grounded
<1>5. g = [entities |-> g.entities, relations |-> g.relations]
  BY DEF Grounded
<1> HIDE DEF g
<1>6. g \in Said
  BY <1>2, <1>3, <1>4, <1>5 DEF Said
<1> QED BY <1>6 DEF g

LEMMA WrittenStep == UnitsInv /\ WrittenInv /\ [UnitsNext]_unitVars => WrittenInv'
<1> SUFFICES ASSUME UnitsInv, WrittenInv, [UnitsNext]_unitVars PROVE WrittenInv'
  OBVIOUS
<1>1. CASE WriteDraft
  <2>1. PICK said \in [1..Cardinality(Results) -> Answer] :
            answers' = [k \in DOMAIN said |-> Grounded(said[k], k)]
    BY <1>1 DEF WriteDraft
  <2>2. Cardinality(Results) \in Nat
    <3>1. IsFiniteSet(Unit)
      BY UnitsAreFinite DEF UnitsInv, UnitsTyped
    <3>2. Results \in SUBSET Unit
      BY DEF Results, With
    <3> QED BY <3>1, <3>2, FS_Subset, FS_CardinalityType
  <2> DEFINE n == Cardinality(Results)
  <2>3. answers' \in [1..n -> Said]
    <3>1. \A k \in 1..n : Grounded(said[k], k) \in Said
      BY <2>2, GroundedIsSaid
    <3>2. DOMAIN said = 1..n
      BY <2>1
    <3> HIDE DEF n
    <3> QED BY <2>1, <3>1, <3>2
  <2>4. answers' \in Seq(Said)
    <3> HIDE DEF n
    <3>1. n \in Nat
      BY <2>2 DEF n
    <3> QED BY <2>3, <3>1, SeqDef
  <2>5. written' = <<WithoutDangling(MergeAll(answers'))>>
    BY <1>1 DEF WriteDraft
  <2>6. Said' = Said
    BY DEF Said, OwnId, EntityRecord, LinkRecord, AnyId
  <2>7. (WithoutDangling(MergeAll(answers)))' = WithoutDangling(MergeAll(answers'))
    OBVIOUS
  <2> QED BY <2>4, <2>5, <2>6, <2>7 DEF WrittenInv
<1>2. CASE ~WriteDraft
  <2>1. UNCHANGED <<answers, written>> /\ (call' = call \/ call' # "written")
    BY <1>2 DEF UnitsNext, StartUnit, ReturnUnit, RaiseUnit, Advance, CollectResult, CollectFailure,
                StopStage, NoResult, unitVars
  <2> QED BY <2>1 DEF WrittenInv
<1> QED BY <1>1, <1>2

\* A part of what was said.
LEMMA SaidParts ==
    ASSUME NEW batches \in Seq(Said), NEW k \in 1..Len(batches) - 1
    PROVE  LET one == SubSeq(batches, 1, k)
               two == SubSeq(batches, k + 1, Len(batches)) IN
           /\ one \in Seq(Said) /\ two \in Seq(Said)
           /\ {batches[j] : j \in DOMAIN batches} =
                  {one[j] : j \in DOMAIN one} \cup {two[j] : j \in DOMAIN two}
<1> DEFINE n == Len(batches)
           one == SubSeq(batches, 1, k)
           two == SubSeq(batches, k + 1, n)
<1>1. n \in Nat /\ DOMAIN batches = 1..n /\ k \in Nat /\ k >= 1 /\ k < n
  BY LenProperties
<1>2. \A j \in 1..n : batches[j] \in Said
  BY ElementOfSeq
<1> HIDE DEF n
<1>3. one \in Seq(Said) /\ Len(one) = k /\ \A j \in 1..k : one[j] = batches[j]
  <2>1. 1 \in Int /\ k \in Int /\ \A j \in 1..k : batches[j] \in Said
    BY <1>1, <1>2
  <2>2. /\ SubSeq(batches, 1, k) \in Seq(Said)
        /\ Len(SubSeq(batches, 1, k)) = IF 1 <= k THEN k - 1 + 1 ELSE 0
        /\ \A i \in 1..k - 1 + 1 : SubSeq(batches, 1, k)[i] = batches[1 + i - 1]
    BY <2>1, SubSeqProperties
  <2> QED BY <1>1, <2>2
<1>4. two \in Seq(Said) /\ Len(two) = n - k /\ \A j \in 1..n - k : two[j] = batches[k + j]
  <2>1. k + 1 \in Int /\ n \in Int /\ \A j \in k + 1..n : batches[j] \in Said
    BY <1>1, <1>2
  <2>2. /\ SubSeq(batches, k + 1, n) \in Seq(Said)
        /\ Len(SubSeq(batches, k + 1, n)) = IF k + 1 <= n THEN n - (k + 1) + 1 ELSE 0
        /\ \A i \in 1..n - (k + 1) + 1 : SubSeq(batches, k + 1, n)[i] = batches[k + 1 + i - 1]
    BY <2>1, SubSeqProperties
  <2> QED BY <1>1, <2>2
<1> HIDE DEF one, two
<1>5. DOMAIN one = 1..k /\ DOMAIN two = 1..n - k
  BY <1>3, <1>4, LenProperties
<1>6. ASSUME NEW j \in 1..n PROVE \/ \E i \in DOMAIN one : one[i] = batches[j]
                                  \/ \E i \in DOMAIN two : two[i] = batches[j]
  <2>1. CASE j <= k
    BY <1>1, <1>3, <1>5, <2>1
  <2>2. CASE j > k
    <3>1. j - k \in 1..n - k /\ k + (j - k) = j
      BY <1>1, <2>2
    <3> QED BY <1>4, <1>5, <3>1
  <2> QED BY <1>1, <2>1, <2>2
<1>7. ASSUME NEW i \in DOMAIN one PROVE \E j \in 1..n : batches[j] = one[i]
  BY <1>1, <1>3, <1>5
<1>8. ASSUME NEW i \in DOMAIN two PROVE \E j \in 1..n : batches[j] = two[i]
  <2>1. k + i \in 1..n
    BY <1>1, <1>5
  <2> QED BY <1>4, <1>5, <2>1
<1>9. {batches[j] : j \in DOMAIN batches} = {one[j] : j \in DOMAIN one} \cup {two[j] : j \in DOMAIN two}
  BY <1>1, <1>6, <1>7, <1>8
<1> QED BY <1>3, <1>4, <1>9 DEF one, two, n

\* A draft merged from two drafts is as faithful as one that is merged at once.
LEMMA FaithfulInParts ==
    ASSUME NEW batches \in Seq(Said), NEW k \in 1..Len(batches) - 1
    PROVE  Faithful(batches,
               MergeAll(<<WithoutDangling(MergeAll(SubSeq(batches, 1, k))),
                          WithoutDangling(MergeAll(SubSeq(batches, k + 1, Len(batches))))>>))
<1> DEFINE one == SubSeq(batches, 1, k)
           two == SubSeq(batches, k + 1, Len(batches))
           first == WithoutDangling(MergeAll(one))
           second == WithoutDangling(MergeAll(two))
           bs == {one[j] : j \in DOMAIN one}
           cs == {two[j] : j \in DOMAIN two}
<1>1. /\ one \in Seq(Said) /\ two \in Seq(Said)
      /\ {batches[j] : j \in DOMAIN batches} = bs \cup cs
  BY SaidParts, Zenon
<1> HIDE DEF one, two
<1>2. States(first, bs) /\ States(second, cs)
  BY <1>1, AllMerged, StatesWithoutDangling
<1>3. first \in Said /\ second \in Said
  BY <1>2 DEF States
<1> HIDE DEF first, second
<1> DEFINE pair == <<first, second>>
<1>4. pair \in Seq(Said) /\ DOMAIN pair = 1..2 /\ pair[1] = first /\ pair[2] = second
  BY <1>3
<1>5. {pair[j] : j \in DOMAIN pair} = {first, second}
  <2> HIDE DEF pair
  <2>1. 1..2 = {1, 2}
    OBVIOUS
  <2> QED BY <1>4, <2>1
<1> HIDE DEF pair
<1>6. States(MergeAll(pair), {first, second})
  BY <1>4, <1>5, AllMerged
<1>7. States(MergeAll(pair), bs \cup cs)
  <2> HIDE DEF bs, cs
  <2> QED BY <1>2, <1>6, StatesOfBoth
<1>8. States(MergeAll(pair), {batches[j] : j \in DOMAIN batches})
  <2> HIDE DEF bs, cs
  <2> QED BY <1>1, <1>7
<1>9. Faithful(batches, MergeAll(pair))
  BY <1>8, StatesFaithfully
<1> QED BY <1>9 DEF pair, first, second, one, two

\* DraftsAreFaithful: a draft says what the answers it was merged from say: each
\* name once, under an id of its own, with the chunks that name it, and each
\* relation between the entities it was said of, with its chunk; and a draft that
\* extends an accepted one says it of both, for any answers in any number.
THEOREM DraftsAreFaithful == UnitsSpec => []DraftFaithful
<1>1. UnitsInit => WrittenInv
  BY DEF UnitsInit, WrittenInv
<1>2. ASSUME WrittenInv PROVE DraftFaithful
  <2> SUFFICES ASSUME call = "written"
               PROVE  /\ Faithful(answers, written[1])
                      /\ \A k \in 1..Len(answers) - 1 :
                            Faithful(answers,
                                MergeAll(<<WithoutDangling(MergeAll(SubSeq(answers, 1, k))),
                                           WithoutDangling(MergeAll(SubSeq(answers, k + 1, Len(answers))))>>))
    BY DEF DraftFaithful
  <2>1. answers \in Seq(Said) /\ written[1] = WithoutDangling(MergeAll(answers))
    BY <1>2 DEF WrittenInv
  <2>2. States(written[1], {answers[k] : k \in DOMAIN answers})
    BY <2>1, AllMerged, StatesWithoutDangling
  <2>3. Faithful(answers, written[1])
    BY <2>1, <2>2, StatesFaithfully
  <2> QED BY <2>1, <2>3, FaithfulInParts
<1> QED BY <1>1, <1>2, WrittenStep, UnitsInvariance, PTL DEF UnitsSpec

(***************************************************************************)
(* A save of the schema leaves alone what it does not name, for any types, *)
(* relations and attributes and any number of saves that run at the same   *)
(* time. The argument compares every copy of the attempt with the schema   *)
(* of the build.                                                           *)
(***************************************************************************)

EntityDefinition == [kind : {"entity"}, name : Type, fields : SUBSET (Field \cup {"name"})]
LinkDefinition == [kind : {"relation"}, name : Relation \cup Field, head : Type, tail : Type]
Definitions == EntityDefinition \cup LinkDefinition

\* b and c differ only in what the keys name.
AgreeBut(keys, b, c) == \A d \in Definitions : Key(d) \notin keys => (d \in b <=> d \in c)

SchemaTypes ==
    /\ blueprint \subseteq Definitions /\ compiled \subseteq Definitions /\ source \subseteq Definitions
    /\ saving \in [Designer -> [pc : {"idle", "merged", "blueprint"}, next : SUBSET Definitions]]

\* What schema_from_review writes: every entity has the attribute name.
SourceNamed == \A d \in Entities(source) : "name" \in d.fields

\* An attempt's blueprint, its draft and its running saves differ from the schema
\* of the build only in what its saves have named.
AttemptAgrees ==
    design \in {"candidates", "advised", "build"} =>
        /\ blueprint # {} => AgreeBut(named, blueprint, BlueprintOf(source))
        /\ compiled # {} => AgreeBut(named, compiled, source)
        /\ \A s \in Designer : saving[s].pc # "idle" =>
              AgreeBut(named, saving[s].next, BlueprintOf(source))

\* Every entity of a draft has the attribute name, too.
DraftNamed == \A d \in Entities(compiled) : "name" \in d.fields

SchemaInv == SchemaTypes /\ SourceNamed /\ DraftNamed /\ AttemptAgrees

-----------------------------------------------------------------------------
(* Blueprints and sources *)

\* The two kinds of definition.
LEMMA DefinitionsAre == Definition = Definitions
<1>1. ASSUME NEW d \in Definition PROVE d \in Definitions
  <2>1. CASE \E n \in Type, fields \in SUBSET (Field \cup {"name"}) : d = Entity(n, fields)
    BY <2>1 DEF Entity, Definitions, EntityDefinition
  <2>2. CASE \E n \in Relation \cup Field, h \in Type, t \in Type : d = Link(n, h, t)
    BY <2>2 DEF Link, Definitions, LinkDefinition
  <2> QED BY <2>1, <2>2 DEF Definition
<1>2. ASSUME NEW d \in EntityDefinition PROVE d \in Definition
  <2>1. d = Entity(d.name, d.fields) /\ d.name \in Type /\ d.fields \in SUBSET (Field \cup {"name"})
    BY DEF EntityDefinition, Entity
  <2> QED BY <2>1 DEF Definition
<1>3. ASSUME NEW d \in LinkDefinition PROVE d \in Definition
  <2>1. d = Link(d.name, d.head, d.tail) /\ d.name \in Relation \cup Field /\ d.head \in Type /\ d.tail \in Type
    BY DEF LinkDefinition, Link
  <2> QED BY <2>1 DEF Definition
<1> QED BY <1>1, <1>2, <1>3 DEF Definitions

LEMMA KindsOf ==
    ASSUME NEW b \in SUBSET Definitions
    PROVE  /\ Entities(b) = b \cap EntityDefinition
           /\ Links(b) = b \cap LinkDefinition
BY DEF Entities, Links, Definitions, EntityDefinition, LinkDefinition

\* The attribute name, put into an entity and taken out of it.
WithName(d) == [d EXCEPT !.fields = @ \cup {"name"}]
WithoutName(d) == [d EXCEPT !.fields = @ \ {"name"}]

LEMMA NameInAndOut ==
    ASSUME NEW d \in EntityDefinition
    PROVE  /\ WithName(d) \in EntityDefinition /\ WithoutName(d) \in EntityDefinition
           /\ Key(WithName(d)) = Key(d) /\ Key(WithoutName(d)) = Key(d)
           /\ "name" \in WithName(d).fields
           /\ "name" \in d.fields => WithName(WithoutName(d)) = d
<1>1. /\ WithName(d) \in EntityDefinition /\ WithName(d).kind = d.kind /\ WithName(d).name = d.name
      /\ WithName(d).fields = d.fields \cup {"name"}
  BY DEF EntityDefinition, WithName
<1>2. /\ WithoutName(d) \in EntityDefinition /\ WithoutName(d).kind = d.kind /\ WithoutName(d).name = d.name
      /\ WithoutName(d).fields = d.fields \ {"name"}
  BY DEF EntityDefinition, WithoutName
<1>3. ASSUME "name" \in d.fields PROVE WithName(WithoutName(d)) = d
  <2>1. /\ WithName(WithoutName(d)) \in EntityDefinition /\ WithName(WithoutName(d)).kind = d.kind
        /\ WithName(WithoutName(d)).name = d.name
        /\ WithName(WithoutName(d)).fields = (d.fields \ {"name"}) \cup {"name"}
    BY <1>2 DEF EntityDefinition, WithName
  <2>2. (d.fields \ {"name"}) \cup {"name"} = d.fields
    BY <1>3
  <2> QED BY <2>1, <2>2 DEF EntityDefinition
<1> QED BY <1>1, <1>2, <1>3 DEF Key

\* Source and BlueprintOf, definition by definition.
LEMMA SourceOf ==
    ASSUME NEW b \in SUBSET Definitions
    PROVE  /\ Source(b) \in SUBSET Definitions
           /\ \A d \in Entities(Source(b)) : "name" \in d.fields
           /\ \A d \in LinkDefinition : d \in Source(b) <=> d \in b
           /\ \A d \in EntityDefinition : d \in Source(b) <=> \E e \in b \cap EntityDefinition : d = WithName(e)
<1>1. Source(b) = {WithName(d) : d \in b \cap EntityDefinition} \cup (b \cap LinkDefinition)
  BY KindsOf DEF Source, WithName
<1>2. {WithName(d) : d \in b \cap EntityDefinition} \subseteq EntityDefinition
  BY NameInAndOut
<1>3. EntityDefinition \cap LinkDefinition = {}
  BY DEF EntityDefinition, LinkDefinition
<1>4. Source(b) \in SUBSET Definitions
  BY <1>1, <1>2 DEF Definitions
<1>5. \A d \in Entities(Source(b)) : "name" \in d.fields
  <2>1. Entities(Source(b)) = Source(b) \cap EntityDefinition
    BY <1>4, KindsOf
  <2> QED BY <1>1, <1>3, <2>1, NameInAndOut
<1> QED BY <1>1, <1>2, <1>3, <1>4, <1>5

LEMMA BlueprintIs ==
    ASSUME NEW b \in SUBSET Definitions
    PROVE  /\ BlueprintOf(b) \in SUBSET Definitions
           /\ \A d \in LinkDefinition : d \in BlueprintOf(b) <=> d \in b
           /\ \A d \in EntityDefinition :
                 d \in BlueprintOf(b) <=> \E e \in b \cap EntityDefinition : d = WithoutName(e)
<1>1. BlueprintOf(b) = {WithoutName(d) : d \in b \cap EntityDefinition} \cup (b \cap LinkDefinition)
  BY KindsOf DEF BlueprintOf, WithoutName
<1>2. {WithoutName(d) : d \in b \cap EntityDefinition} \subseteq EntityDefinition
  BY NameInAndOut
<1>3. EntityDefinition \cap LinkDefinition = {}
  BY DEF EntityDefinition, LinkDefinition
<1> QED BY <1>1, <1>2, <1>3 DEF Definitions

\* A blueprint that differs from the one read back from a source only in what
\* the keys name compiles to a source that differs from it only there.
LEMMA CompiledAgrees ==
    ASSUME NEW src \in SUBSET Definitions, \A d \in Entities(src) : "name" \in d.fields,
           NEW b \in SUBSET Definitions, NEW keys, AgreeBut(keys, b, BlueprintOf(src))
    PROVE  AgreeBut(keys, Source(b), src)
<1>1. ASSUME NEW d \in EntityDefinition, Key(d) \notin keys
      PROVE  d \in Source(b) <=> d \in src
  <2>1. ASSUME d \in Source(b) PROVE d \in src
    <3>1. PICK e \in b \cap EntityDefinition : d = WithName(e)
      BY <2>1, SourceOf
    <3>2. Key(e) \notin keys
      BY <1>1, <3>1, NameInAndOut
    <3>3. e \in BlueprintOf(src)
      BY <3>1, <3>2 DEF AgreeBut, Definitions
    <3>4. PICK x \in src \cap EntityDefinition : e = WithoutName(x)
      BY <3>1, <3>3, BlueprintIs
    <3>5. "name" \in x.fields
      BY KindsOf
    <3> QED BY <3>1, <3>4, <3>5, NameInAndOut
  <2>2. ASSUME d \in src PROVE d \in Source(b)
    <3>1. WithoutName(d) \in EntityDefinition /\ Key(WithoutName(d)) \notin keys
      BY <1>1, NameInAndOut
    <3>2. WithoutName(d) \in BlueprintOf(src)
      BY <2>2, <3>1, BlueprintIs
    <3>3. WithoutName(d) \in b
      BY <3>1, <3>2 DEF AgreeBut, Definitions
    <3>4. WithName(WithoutName(d)) = d
      BY <2>2, KindsOf, NameInAndOut
    <3> QED BY <3>1, <3>3, <3>4, SourceOf
  <2> QED BY <2>1, <2>2
<1>2. ASSUME NEW d \in LinkDefinition, Key(d) \notin keys
      PROVE  d \in Source(b) <=> d \in src
  BY <1>2, SourceOf, BlueprintIs DEF AgreeBut, Definitions
<1> QED BY <1>1, <1>2 DEF AgreeBut, Definitions

\* A batch changes only what it names.
LEMMA BatchNames ==
    ASSUME NEW b \in SUBSET Definitions, NEW batch \in Batch
    PROVE  /\ WithBatch(b, batch) \in SUBSET Definitions
           /\ \A keys, c : AgreeBut(keys, b, c) =>
                 AgreeBut(keys \cup Keys(batch.put) \cup batch.drop, WithBatch(b, batch), c)
           /\ AgreeBut(Keys(batch.put) \cup batch.drop, WithBatch(b, batch), b)
<1>1. batch.put \subseteq Definitions
  BY DefinitionsAre DEF Batch
<1>2. WithBatch(b, batch) \in SUBSET Definitions
  BY <1>1 DEF WithBatch
<1>3. \A d : Key(d) \notin Keys(batch.put) \cup batch.drop => (d \in WithBatch(b, batch) <=> d \in b)
  BY DEF WithBatch, Keys
<1> QED BY <1>2, <1>3 DEF AgreeBut

-----------------------------------------------------------------------------
(* Steps *)

LEMMA SchemaStarts == SchemaInit => SchemaInv
<1> SUFFICES ASSUME SchemaInit PROVE SchemaInv
  OBVIOUS
<1>1. SchemaTypes
  BY DEF SchemaInit, SchemaTypes
<1>2. Entities({}) = {}
  BY DEF Entities
<1> QED BY <1>1, <1>2 DEF SchemaInit, SchemaInv, SourceNamed, DraftNamed, AttemptAgrees

\* An attempt begins with nothing of its own.
LEMMA AttemptBegins ==
    ASSUME SchemaInv, NewAttempt, source' = source
    PROVE  SchemaInv'
<1>1. /\ blueprint' = {} /\ compiled' = {}
      /\ saving' = [s \in Designer |-> [pc |-> "idle", next |-> {}]]
  BY DEF NewAttempt
<1>2. SchemaTypes'
  BY <1>1 DEF SchemaInv, SchemaTypes
<1>3. Entities({}) = {}
  BY DEF Entities
<1> QED BY <1>1, <1>2, <1>3 DEF SchemaInv, SourceNamed, DraftNamed, AttemptAgrees

\* What a save works on agrees with the schema of the build.
LEMMA WorksOnSource ==
    ASSUME SchemaInv, design = "build"
    PROVE  Blueprint \in SUBSET Definitions /\ AgreeBut(named, Blueprint, BlueprintOf(source))
<1>1. BlueprintOf(source) \in SUBSET Definitions
  BY BlueprintIs DEF SchemaInv, SchemaTypes
<1>2. AgreeBut(named, BlueprintOf(source), BlueprintOf(source))
  BY DEF AgreeBut
<1> QED BY <1>1, <1>2 DEF SchemaInv, SchemaTypes, AttemptAgrees, Blueprint

LEMMA BeginSaveStep ==
    ASSUME SchemaInv, NEW s \in Designer, BeginSave(s)
    PROVE  SchemaInv'
<1>1. PICK batch \in Batch :
          /\ saving' = [saving EXCEPT ![s] = [pc |-> "merged", next |-> WithBatch(Blueprint, batch)]]
          /\ named' = named \cup Keys(batch.put) \cup batch.drop
  BY DEF BeginSave
<1>2. UNCHANGED <<design, blueprint, compiled, source>> /\ design = "build"
  BY DEF BeginSave
<1>3. Blueprint \in SUBSET Definitions /\ AgreeBut(named, Blueprint, BlueprintOf(source))
  BY <1>2, WorksOnSource
<1>4. /\ WithBatch(Blueprint, batch) \in SUBSET Definitions
      /\ AgreeBut(named', WithBatch(Blueprint, batch), BlueprintOf(source))
  BY <1>1, <1>3, BatchNames
<1>5. \A b, c : AgreeBut(named, b, c) => AgreeBut(named', b, c)
  BY <1>1 DEF AgreeBut
<1>6. SchemaTypes'
  BY <1>1, <1>2, <1>4 DEF SchemaInv, SchemaTypes
<1>7. \A t \in Designer : saving'[t] = IF t = s THEN [pc |-> "merged", next |-> WithBatch(Blueprint, batch)]
                                       ELSE saving[t]
  BY <1>1 DEF SchemaInv, SchemaTypes
<1>8. BlueprintOf(source)' = BlueprintOf(source)
  BY <1>2
<1>9. \A t \in Designer : saving'[t].pc # "idle" => AgreeBut(named', saving'[t].next, BlueprintOf(source))
  BY <1>2, <1>4, <1>5, <1>7 DEF SchemaInv, AttemptAgrees
<1>10. AttemptAgrees'
  <2>1. blueprint # {} => AgreeBut(named', blueprint, BlueprintOf(source))
    BY <1>2, <1>5 DEF SchemaInv, AttemptAgrees
  <2>2. compiled # {} => AgreeBut(named', compiled, source)
    BY <1>2, <1>5 DEF SchemaInv, AttemptAgrees
  <2> QED BY <1>2, <1>9, <2>1, <2>2 DEF AttemptAgrees
<1> QED BY <1>2, <1>6, <1>10 DEF SchemaInv, SourceNamed, DraftNamed

LEMMA WriteBlueprintStep ==
    ASSUME SchemaInv, NEW s \in Designer, WriteBlueprint(s)
    PROVE  SchemaInv'
<1>1. /\ UNCHANGED <<design, compiled, source, named>> /\ saving[s].pc = "merged"
      /\ blueprint' = saving[s].next /\ saving' = [saving EXCEPT ![s].pc = "blueprint"]
  BY DEF WriteBlueprint
<1>2. \A t \in Designer : saving'[t].next = saving[t].next
                          /\ (saving'[t].pc # "idle" => saving[t].pc # "idle")
  BY <1>1 DEF SchemaInv, SchemaTypes
<1>3. SchemaTypes'
  BY <1>1 DEF SchemaInv, SchemaTypes
<1>4. AttemptAgrees'
  BY <1>1, <1>2 DEF SchemaInv, AttemptAgrees
<1> QED BY <1>1, <1>3, <1>4 DEF SchemaInv, SourceNamed, DraftNamed

LEMMA WriteCompiledStep ==
    ASSUME SchemaInv, NEW s \in Designer, WriteCompiled(s)
    PROVE  SchemaInv'
<1>1. /\ UNCHANGED <<design, blueprint, source, named>> /\ saving[s].pc = "blueprint"
      /\ compiled' = Source(saving[s].next)
      /\ saving' = [saving EXCEPT ![s] = [pc |-> "idle", next |-> {}]]
  BY DEF WriteCompiled
<1>2. \A t \in Designer : saving'[t].pc # "idle" => saving'[t] = saving[t]
  BY <1>1 DEF SchemaInv, SchemaTypes
<1>3. saving[s].next \in SUBSET Definitions
  BY DEF SchemaInv, SchemaTypes
<1>4. compiled' \in SUBSET Definitions /\ DraftNamed'
  BY <1>1, <1>3, SourceOf DEF DraftNamed
<1>5. SchemaTypes'
  BY <1>1, <1>4 DEF SchemaInv, SchemaTypes
<1>6. design = "build" \/ design \in {"candidates", "advised"} => AgreeBut(named, compiled', source)
  BY <1>1, <1>3, CompiledAgrees DEF SchemaInv, SchemaTypes, SourceNamed, AttemptAgrees
<1>7. AttemptAgrees'
  BY <1>1, <1>2, <1>6 DEF SchemaInv, AttemptAgrees
<1> QED BY <1>1, <1>4, <1>5, <1>7 DEF SchemaInv, SourceNamed

LEMMA SaveRaisesStep ==
    ASSUME SchemaInv, NEW s \in Designer, SaveRaises(s)
    PROVE  SchemaInv'
<1>1. /\ UNCHANGED <<design, blueprint, compiled, source, named>>
      /\ saving' = [saving EXCEPT ![s] = [pc |-> "idle", next |-> {}]]
  BY DEF SaveRaises
<1>2. \A t \in Designer : saving'[t].pc # "idle" => saving'[t] = saving[t]
  BY <1>1 DEF SchemaInv, SchemaTypes
<1>3. SchemaTypes'
  BY <1>1 DEF SchemaInv, SchemaTypes
<1>4. AttemptAgrees'
  BY <1>1, <1>2 DEF SchemaInv, AttemptAgrees
<1> QED BY <1>1, <1>3, <1>4 DEF SchemaInv, SourceNamed, DraftNamed

LEMMA SaveFormStep ==
    ASSUME SchemaInv, SaveForm
    PROVE  SchemaInv' /\ AgreeBut(named', source', source)
<1>1. PICK batch \in Batch :
          /\ source' = (IF Source(WithBatch(FormOf(source), batch)) # source
                        THEN Source(WithBatch(FormOf(source), batch)) ELSE source)
          /\ named' = Keys(batch.put) \cup batch.drop
  BY DEF SaveForm
<1> DEFINE form == WithBatch(FormOf(source), batch)
<1>2. UNCHANGED <<design, blueprint, compiled, saving>> /\ design = "gate"
  BY DEF SaveForm
<1>3. source \in SUBSET Definitions /\ FormOf(source) = BlueprintOf(source)
      /\ BlueprintOf(source) \in SUBSET Definitions
  BY BlueprintIs DEF SchemaInv, SchemaTypes, FormOf
<1>4. form \in SUBSET Definitions /\ AgreeBut(named', form, BlueprintOf(source))
  BY <1>1, <1>3, BatchNames
<1>5. source' = Source(form)
  BY <1>1
<1> HIDE DEF form
<1>6. AgreeBut(named', source', source)
  BY <1>3, <1>4, <1>5, CompiledAgrees DEF SchemaInv, SourceNamed
<1>7. source' \in SUBSET Definitions /\ SourceNamed'
  BY <1>4, <1>5, SourceOf DEF SourceNamed
<1>8. SchemaTypes'
  BY <1>2, <1>7 DEF SchemaInv, SchemaTypes
<1> QED BY <1>2, <1>6, <1>7, <1>8 DEF SchemaInv, DraftNamed, AttemptAgrees

LEMMA SchemaStep ==
    ASSUME SchemaInv, [SchemaNext]_schemaVars
    PROVE  SchemaInv' /\ (source' # source => AgreeBut(named', source', source))
<1>1. ASSUME UNCHANGED <<blueprint, compiled, source, saving, named>>,
             design' \in {"candidates", "advised", "build"} => design \in {"candidates", "advised", "build"}
      PROVE  SchemaInv'
  BY <1>1 DEF SchemaInv, SchemaTypes, SourceNamed, DraftNamed, AttemptAgrees
<1>2. CASE ReturnCandidate \/ MergeCandidates \/ ReadAdvice
  BY <1>2, <1>1 DEF ReturnCandidate, MergeCandidates, ReadAdvice
<1>3. ASSUME NEW s \in Designer, BeginSave(s) \/ WriteBlueprint(s) \/ WriteCompiled(s) \/ SaveRaises(s)
      PROVE  SchemaInv' /\ source' = source
  <2>1. source' = source
    BY <1>3 DEF BeginSave, WriteBlueprint, WriteCompiled, SaveRaises
  <2> QED BY <1>3, <2>1, BeginSaveStep, WriteBlueprintStep, WriteCompiledStep, SaveRaisesStep
<1>4. CASE LoseAttempt \/ Revise
  BY <1>4, AttemptBegins DEF LoseAttempt, Revise
<1>5. CASE AcceptSchema
  <2>1. /\ UNCHANGED <<blueprint, compiled, saving, named>> /\ source' = compiled /\ compiled # {}
        /\ design = "build" /\ design' = "judge"
    BY <1>5 DEF AcceptSchema
  <2>2. AgreeBut(named', source', source)
    BY <2>1 DEF SchemaInv, AttemptAgrees
  <2> QED BY <2>1, <2>2 DEF SchemaInv, SchemaTypes, SourceNamed, DraftNamed, AttemptAgrees
<1>6. CASE JudgePasses \/ ConfirmSchema \/ DocumentInput
  BY <1>6, <1>1 DEF JudgePasses, ConfirmSchema, DocumentInput
<1>7. CASE SaveForm
  BY <1>7, SaveFormStep
<1>8. CASE UNCHANGED schemaVars
  BY <1>8, <1>1 DEF schemaVars
<1>9. CASE ReturnCandidate \/ MergeCandidates \/ ReadAdvice \/ LoseAttempt \/ Revise \/ JudgePasses
           \/ ConfirmSchema \/ DocumentInput \/ UNCHANGED schemaVars
  <2>1. source' = source
    BY <1>9 DEF ReturnCandidate, MergeCandidates, ReadAdvice, LoseAttempt, Revise, JudgePasses,
                ConfirmSchema, DocumentInput, schemaVars
  <2> QED BY <1>9, <2>1, <1>2, <1>4, <1>6, <1>8
<1> QED BY <1>3, <1>5, <1>7, <1>9 DEF SchemaNext

\* OnlyNamedChange: nothing is lost or altered between the source and the
\* blueprints, drafts and forms that are made of it, for any definitions, batches
\* and saves at the same time.
THEOREM OnlyNamedChanges == SchemaSpec => OnlyNamedChange
<1>1. SchemaInv /\ [SchemaNext]_schemaVars
          => [\A d \in Definition : Key(d) \notin named' => (d \in source <=> d \in source')]_source
  BY SchemaStep, DefinitionsAre DEF AgreeBut
<1> QED BY <1>1, SchemaStarts, SchemaStep, PTL DEF SchemaSpec, OnlyNamedChange

-----------------------------------------------------------------------------
(* The merged candidates: what a vote prefers was seen somewhere *)

\* A vote has a winner, and the winners have a first place.
LEMMA MostVotes ==
    ASSUME NEW values, IsFiniteSet(DOMAIN values), DOMAIN values # {}
    PROVE  \E p \in DOMAIN values : \A q \in DOMAIN values : Count(values, q) <= Count(values, p)
<1> DEFINE n == Cardinality(DOMAIN values)
           missing == {n - Count(values, q) : q \in DOMAIN values}
<1>1. n \in Nat /\ \A q \in DOMAIN values : Count(values, q) \in Nat /\ Count(values, q) <= n
  <2> SUFFICES ASSUME NEW q \in DOMAIN values
               PROVE  n \in Nat /\ Count(values, q) \in Nat /\ Count(values, q) <= n
    BY FS_CardinalityType
  <2> DEFINE votes == {r \in DOMAIN values : values[r] = values[q]}
  <2>1. IsFiniteSet(votes) /\ Cardinality(votes) <= n
    BY FS_Subset
  <2> QED BY <2>1, FS_CardinalityType DEF Count
<1>2. missing \in SUBSET Nat /\ missing # {}
  BY <1>1
<1>3. PICK x \in missing : \A y \in missing : x <= y
  BY <1>2, LeastNatural
<1>4. PICK p \in DOMAIN values : x = n - Count(values, p)
  BY <1>3
<1>5. ASSUME NEW q \in DOMAIN values PROVE Count(values, q) <= Count(values, p)
  <2>1. n - Count(values, p) <= n - Count(values, q)
    BY <1>3, <1>4
  <2> QED BY <2>1, <1>1
<1> QED BY <1>5

LEMMA FirstPlace ==
    ASSUME NEW S \in SUBSET (Nat \X Nat), S # {}
    PROVE  \E p \in S : \A q \in S : NotAfter(p, q)
<1>1. {p[1] : p \in S} \in SUBSET Nat /\ {p[1] : p \in S} # {}
  OBVIOUS
<1>2. PICK k \in {p[1] : p \in S} : \A m \in {p[1] : p \in S} : k <= m
  BY <1>1, LeastNatural
<1> DEFINE here == {p \in S : p[1] = k}
<1>3. {p[2] : p \in here} \in SUBSET Nat /\ {p[2] : p \in here} # {}
  BY <1>2
<1>4. PICK j \in {p[2] : p \in here} : \A m \in {p[2] : p \in here} : j <= m
  BY <1>3, LeastNatural
<1>5. PICK p \in here : p[2] = j
  BY <1>4
<1>6. ASSUME NEW q \in S PROVE NotAfter(p, q)
  <2>1. p[1] = k /\ k <= q[1] /\ k \in Nat /\ q[1] \in Nat
    BY <1>1, <1>2
  <2>2. CASE q[1] = k
    BY <2>1, <2>2, <1>4, <1>5 DEF NotAfter
  <2>3. CASE q[1] # k
    BY <2>1, <2>3 DEF NotAfter
  <2> QED BY <2>2, <2>3
<1> QED BY <1>5, <1>6

\* Preferred returns one of the values it is given.
LEMMA PreferredIsSeen ==
    ASSUME NEW values, IsFiniteSet(DOMAIN values), DOMAIN values # {},
           DOMAIN values \subseteq Nat \X Nat
    PROVE  \E p \in DOMAIN values : Preferred(values) = values[p]
<1> DEFINE most == {p \in DOMAIN values : \A q \in DOMAIN values : Count(values, q) <= Count(values, p)}
           first == CHOOSE p \in most : \A q \in most : NotAfter(p, q)
<1>1. most # {} /\ most \in SUBSET (Nat \X Nat)
  BY MostVotes
<1>2. \E p \in most : \A q \in most : NotAfter(p, q)
  BY <1>1, FirstPlace
<1>3. first \in most
  BY <1>2
<1>4. Preferred(values) = values[first]
  BY DEF Preferred
<1> QED BY <1>3, <1>4

-----------------------------------------------------------------------------
(* The places of the records *)

CandidateRelation == [name : Relation \X Spelling, head : Spelled, tail : Spelled]

LEMMA CandidateLists ==
    ASSUME NEW c \in Candidate
    PROVE  /\ DOMAIN c.entities \subseteq 1..2 /\ DOMAIN c.relations \subseteq 1..2
           /\ \A j \in DOMAIN c.entities : c.entities[j] \in Spelled
           /\ \A j \in DOMAIN c.relations : c.relations[j] \in CandidateRelation
<1>1. /\ c.entities \in {<<>>} \cup {<<a>> : a \in Spelled} \cup {<<p[1], p[2]>> : p \in Spelled \X Spelled}
      /\ c.relations \in {<<>>} \cup {<<[name |-> n, head |-> h, tail |-> t]>> :
                                        n \in Relation \X Spelling, h \in Spelled, t \in Spelled}
  BY DEF Candidate
<1>2. DOMAIN c.entities \subseteq 1..2 /\ \A j \in DOMAIN c.entities : c.entities[j] \in Spelled
  <2>1. CASE c.entities = <<>>
    BY <2>1
  <2>2. CASE \E a \in Spelled : c.entities = <<a>>
    BY <2>2
  <2>3. CASE \E p \in Spelled \X Spelled : c.entities = <<p[1], p[2]>>
    BY <2>3
  <2> QED BY <1>1, <2>1, <2>2, <2>3
<1>3. DOMAIN c.relations \subseteq 1..2 /\ \A j \in DOMAIN c.relations : c.relations[j] \in CandidateRelation
  <2>1. CASE c.relations = <<>>
    BY <2>1
  <2>2. CASE \E n \in Relation \X Spelling, h \in Spelled, t \in Spelled :
                c.relations = <<[name |-> n, head |-> h, tail |-> t]>>
    BY <2>2 DEF CandidateRelation
  <2> QED BY <1>1, <2>1, <2>2
<1> QED BY <1>2, <1>3

LEMMA PlacesAre ==
    ASSUME NEW n \in Nat, NEW lists, DOMAIN lists = 1..n,
           \A k \in 1..n : DOMAIN lists[k] \subseteq 1..2
    PROVE  /\ IsFiniteSet(Places(lists)) /\ Places(lists) \subseteq Nat \X Nat
           /\ \A p \in Places(lists) : p[1] \in 1..n /\ p[2] \in DOMAIN lists[p[1]]
           /\ \A k \in 1..n : \A j \in DOMAIN lists[k] : <<k, j>> \in Places(lists)
<1>1. ASSUME NEW p
      PROVE  p \in Places(lists) <=> \E k \in 1..n : p \in {k} \X DOMAIN lists[k]
  BY DEF Places
<1>2. ASSUME NEW p \in Places(lists)
      PROVE  p \in (1..n) \X (1..2) /\ p[1] \in 1..n /\ p[2] \in DOMAIN lists[p[1]]
  <2>1. PICK k \in 1..n : p \in {k} \X DOMAIN lists[k]
    BY <1>1
  <2> QED BY <2>1
<1>3. IsFiniteSet((1..n) \X (1..2))
  <2>1. IsFiniteSet(1..n) /\ IsFiniteSet(1..2)
    <3>1. 1 \in Int /\ 2 \in Int /\ n \in Int
      OBVIOUS
    <3> QED BY <3>1, FS_Interval, Zenon
  <2> QED BY <2>1, FS_Product
<1>4. IsFiniteSet(Places(lists))
  BY <1>2, <1>3, FS_Subset
<1>5. ASSUME NEW k \in 1..n, NEW j \in DOMAIN lists[k] PROVE <<k, j>> \in Places(lists)
  BY <1>1
<1> QED BY <1>2, <1>4, <1>5

LEMMA SpellingsSeen ==
    ASSUME NEW all \in Seq(Candidate), NEW f
    PROVE  LET seen == SpellingsOf(all, f) IN
           /\ IsFiniteSet(DOMAIN seen) /\ DOMAIN seen \subseteq Nat \X Nat
           /\ \A p \in DOMAIN seen :
                 /\ p[1] \in DOMAIN all /\ p[2] \in DOMAIN all[p[1]].entities
                 /\ seen[p] = all[p[1]].entities[p[2]] /\ Folded(seen[p]) = f
           /\ \A k \in DOMAIN all : \A j \in DOMAIN all[k].entities :
                 Folded(all[k].entities[j]) = f => <<k, j>> \in DOMAIN seen
<1> DEFINE lists == [k \in DOMAIN all |-> all[k].entities]
           here == {q \in Places(lists) : Folded(all[q[1]].entities[q[2]]) = f}
<1>1. /\ Len(all) \in Nat /\ DOMAIN all = 1..Len(all)
      /\ \A k \in DOMAIN all : all[k] \in Candidate
  OBVIOUS
<1>2. \A k \in 1..Len(all) : DOMAIN lists[k] \subseteq 1..2
  BY <1>1, CandidateLists
<1>3. /\ IsFiniteSet(Places(lists)) /\ Places(lists) \subseteq Nat \X Nat
      /\ \A p \in Places(lists) : p[1] \in 1..Len(all) /\ p[2] \in DOMAIN lists[p[1]]
      /\ \A k \in 1..Len(all) : \A j \in DOMAIN lists[k] : <<k, j>> \in Places(lists)
  <2>1. DOMAIN lists = 1..Len(all)
    BY <1>1
  <2> HIDE DEF lists
  <2> QED BY <1>1, <1>2, <2>1, PlacesAre
<1>4. SpellingsOf(all, f) = [p \in here |-> all[p[1]].entities[p[2]]]
  BY DEF SpellingsOf
<1>5. IsFiniteSet(here) /\ here \subseteq Nat \X Nat
  BY <1>3, FS_Subset
<1> QED BY <1>1, <1>3, <1>4, <1>5

LEMMA RelationsSeen ==
    ASSUME NEW all \in Seq(Candidate), NEW f
    PROVE  LET seen == RelationsOf(all, f) IN
           /\ IsFiniteSet(DOMAIN seen) /\ DOMAIN seen \subseteq Nat \X Nat
           /\ \A p \in DOMAIN seen :
                 /\ p[1] \in DOMAIN all /\ p[2] \in DOMAIN all[p[1]].relations
                 /\ seen[p] = all[p[1]].relations[p[2]] /\ Folded(seen[p].name) = f
           /\ \A k \in DOMAIN all : \A j \in DOMAIN all[k].relations :
                 Folded(all[k].relations[j].name) = f => <<k, j>> \in DOMAIN seen
<1> DEFINE lists == [k \in DOMAIN all |-> all[k].relations]
           here == {q \in Places(lists) : Folded(all[q[1]].relations[q[2]].name) = f}
<1>1. /\ Len(all) \in Nat /\ DOMAIN all = 1..Len(all)
      /\ \A k \in DOMAIN all : all[k] \in Candidate
  OBVIOUS
<1>2. \A k \in 1..Len(all) : DOMAIN lists[k] \subseteq 1..2
  BY <1>1, CandidateLists
<1>3. /\ IsFiniteSet(Places(lists)) /\ Places(lists) \subseteq Nat \X Nat
      /\ \A p \in Places(lists) : p[1] \in 1..Len(all) /\ p[2] \in DOMAIN lists[p[1]]
      /\ \A k \in 1..Len(all) : \A j \in DOMAIN lists[k] : <<k, j>> \in Places(lists)
  <2>1. DOMAIN lists = 1..Len(all)
    BY <1>1
  <2> HIDE DEF lists
  <2> QED BY <1>1, <1>2, <2>1, PlacesAre
<1>4. RelationsOf(all, f) = [p \in here |-> all[p[1]].relations[p[2]]]
  BY DEF RelationsOf
<1>5. IsFiniteSet(here) /\ here \subseteq Nat \X Nat
  BY <1>3, FS_Subset
<1> QED BY <1>1, <1>3, <1>4, <1>5

-----------------------------------------------------------------------------
(* The merge *)

TypesOf(all) == {f \in Type : DOMAIN SpellingsOf(all, f) # {}}
Canonical(all) == [f \in TypesOf(all) |-> Preferred(SpellingsOf(all, f))]
LinksOf(all) == {f \in Relation : DOMAIN RelationsOf(all, f) # {}}
Joined(all, r) ==
    [r EXCEPT !.head = IF Folded(@) \in TypesOf(all) THEN Canonical(all)[Folded(@)] ELSE @,
              !.tail = IF Folded(@) \in TypesOf(all) THEN Canonical(all)[Folded(@)] ELSE @]

LEMMA MergedIs ==
    ASSUME NEW all
    PROVE  /\ Merged(all).entities = {Canonical(all)[f] : f \in TypesOf(all)}
           /\ Merged(all).relations = {Joined(all, Preferred(RelationsOf(all, f))) : f \in LinksOf(all)}
<1> DEFINE chosen == {Preferred(RelationsOf(all, f)) : f \in LinksOf(all)}
<1>1. Merged(all) = [entities |-> {Canonical(all)[f] : f \in TypesOf(all)},
                     relations |-> {Joined(all, r) : r \in chosen}]
  BY Zenon DEF Merged, Canonical, TypesOf, LinksOf, Joined
<1>2. {Joined(all, r) : r \in chosen} = {Joined(all, Preferred(RelationsOf(all, f))) : f \in LinksOf(all)}
  OBVIOUS
<1> QED BY <1>1, <1>2

\* A canonical spelling is one of the spellings of its name.
LEMMA CanonicalSpelling ==
    ASSUME NEW all \in Seq(Candidate), NEW f \in TypesOf(all)
    PROVE  Folded(Canonical(all)[f]) = f
<1>1. PICK p \in DOMAIN SpellingsOf(all, f) : Preferred(SpellingsOf(all, f)) = SpellingsOf(all, f)[p]
  BY SpellingsSeen, PreferredIsSeen DEF TypesOf
<1>2. Folded(SpellingsOf(all, f)[p]) = f
  BY SpellingsSeen
<1> QED BY <1>1, <1>2 DEF Canonical

\* The names of the merged entities are those of the candidates.
LEMMA TypesSeen ==
    ASSUME NEW all \in Seq(Candidate)
    PROVE  /\ \A k \in DOMAIN all : \A j \in DOMAIN all[k].entities :
                  Folded(all[k].entities[j]) \in TypesOf(all)
           /\ \A f \in TypesOf(all) : \E k \in DOMAIN all : \E j \in DOMAIN all[k].entities :
                  Folded(all[k].entities[j]) = f
<1>1. ASSUME NEW k \in DOMAIN all, NEW j \in DOMAIN all[k].entities
      PROVE  Folded(all[k].entities[j]) \in TypesOf(all)
  <2>1. all[k] \in Candidate
    OBVIOUS
  <2>2. all[k].entities[j] \in Spelled
    BY <2>1, CandidateLists
  <2>3. Folded(all[k].entities[j]) \in Type
    BY <2>2 DEF Spelled, Folded
  <2>4. <<k, j>> \in DOMAIN SpellingsOf(all, Folded(all[k].entities[j]))
    BY SpellingsSeen
  <2> QED BY <2>3, <2>4 DEF TypesOf
<1>2. ASSUME NEW f \in TypesOf(all)
      PROVE  \E k \in DOMAIN all : \E j \in DOMAIN all[k].entities : Folded(all[k].entities[j]) = f
  <2>1. PICK p \in DOMAIN SpellingsOf(all, f) : TRUE
    BY DEF TypesOf
  <2>2. /\ p[1] \in DOMAIN all /\ p[2] \in DOMAIN all[p[1]].entities
        /\ Folded(all[p[1]].entities[p[2]]) = f
    BY SpellingsSeen
  <2> QED BY <2>2
<1> QED BY <1>1, <1>2

\* The relation that is chosen for a name is one of a candidate.
LEMMA ChosenRelation ==
    ASSUME NEW all \in Seq(Candidate), NEW f \in LinksOf(all)
    PROVE  \E k \in DOMAIN all : \E j \in DOMAIN all[k].relations :
              /\ Preferred(RelationsOf(all, f)) = all[k].relations[j]
              /\ Folded(all[k].relations[j].name) = f
<1>1. PICK p \in DOMAIN RelationsOf(all, f) : Preferred(RelationsOf(all, f)) = RelationsOf(all, f)[p]
  BY RelationsSeen, PreferredIsSeen DEF LinksOf
<1>2. /\ p[1] \in DOMAIN all /\ p[2] \in DOMAIN all[p[1]].relations
      /\ RelationsOf(all, f)[p] = all[p[1]].relations[p[2]] /\ Folded(RelationsOf(all, f)[p].name) = f
  BY RelationsSeen
<1> QED BY <1>1, <1>2

\* Each chosen relation keeps its name, and its ends are merged entities: they
\* were entities of its own candidate.
LEMMA JoinedEnds ==
    ASSUME NEW all \in Seq(Candidate), \A k \in DOMAIN all : ValidCandidate(all[k]),
           NEW f \in LinksOf(all), NEW r, r = Joined(all, Preferred(RelationsOf(all, f)))
    PROVE  /\ Folded(r.name) = f
           /\ {r.head, r.tail} \subseteq {Canonical(all)[g] : g \in TypesOf(all)}
<1>1. PICK k \in DOMAIN all : \E j \in DOMAIN all[k].relations :
          /\ Preferred(RelationsOf(all, f)) = all[k].relations[j]
          /\ Folded(all[k].relations[j].name) = f
  BY ChosenRelation
<1>2. PICK j \in DOMAIN all[k].relations :
          /\ Preferred(RelationsOf(all, f)) = all[k].relations[j]
          /\ Folded(all[k].relations[j].name) = f
  BY <1>1
<1> DEFINE c == all[k].relations[j]
<1>3. all[k] \in Candidate
  OBVIOUS
<1>4. c \in CandidateRelation
  BY <1>3, CandidateLists
<1>5. {c.head, c.tail} \subseteq ToSet(all[k].entities)
  BY DEF ValidCandidate, ToSet
<1>6. Folded(c.head) \in TypesOf(all) /\ Folded(c.tail) \in TypesOf(all)
  BY <1>5, TypesSeen DEF ToSet
<1>7. /\ r.name = c.name
      /\ r.head = Canonical(all)[Folded(c.head)] /\ r.tail = Canonical(all)[Folded(c.tail)]
  BY <1>2, <1>4, <1>6 DEF Joined, CandidateRelation
<1> QED BY <1>2, <1>6, <1>7

\* No relation name is lost.
LEMMA LinksSeen ==
    ASSUME NEW all \in Seq(Candidate), NEW k \in DOMAIN all, NEW j \in DOMAIN all[k].relations
    PROVE  Folded(all[k].relations[j].name) \in LinksOf(all)
<1>1. all[k] \in Candidate
  OBVIOUS
<1>2. all[k].relations[j] \in CandidateRelation
  BY <1>1, CandidateLists
<1>3. Folded(all[k].relations[j].name) \in Relation
  BY <1>2 DEF CandidateRelation, Folded
<1>4. <<k, j>> \in DOMAIN RelationsOf(all, Folded(all[k].relations[j].name))
  BY RelationsSeen
<1> QED BY <1>3, <1>4 DEF LinksOf

\* Names come in one spelling each, and there are finitely many.
LEMMA OneSpelling ==
    ASSUME NEW all \in Seq(Candidate)
    PROVE  LET merged == Merged(all).entities IN
           /\ {Folded(n) : n \in merged} = TypesOf(all)
           /\ Cardinality({Folded(n) : n \in merged}) = Cardinality(merged)
<1> DEFINE merged == Merged(all).entities
           spell == [f \in TypesOf(all) |-> Canonical(all)[f]]
<1>1. merged = {Canonical(all)[f] : f \in TypesOf(all)}
  BY MergedIs
<1>2. \A f \in TypesOf(all) : Folded(Canonical(all)[f]) = f
  BY CanonicalSpelling
<1>3. {Folded(n) : n \in merged} = TypesOf(all)
  BY <1>1, <1>2
<1>4. spell \in Bijection(TypesOf(all), merged)
  <2>1. spell \in [TypesOf(all) -> merged]
    BY <1>1
  <2>2. ASSUME NEW f \in TypesOf(all), NEW g \in TypesOf(all), spell[f] = spell[g] PROVE f = g
    BY <1>2, <2>2
  <2>3. \A n \in merged : \E f \in TypesOf(all) : spell[f] = n
    BY <1>1
  <2> HIDE DEF merged, spell
  <2> QED BY <2>1, <2>2, <2>3 DEF Bijection, Injection, Surjection, IsInjective
<1>5. IsFiniteSet(TypesOf(all))
  <2> DEFINE lists == [k \in DOMAIN all |-> all[k].entities]
             name == [p \in Places(lists) |-> Folded(all[p[1]].entities[p[2]])]
  <2>1. /\ Len(all) \in Nat /\ DOMAIN all = 1..Len(all)
        /\ \A k \in DOMAIN all : all[k] \in Candidate
    OBVIOUS
  <2>2. \A k \in 1..Len(all) : DOMAIN lists[k] \subseteq 1..2
    BY <2>1, CandidateLists
  <2>3. DOMAIN lists = 1..Len(all)
    BY <2>1
  <2>4. /\ IsFiniteSet(Places(lists))
        /\ \A p \in Places(lists) : p[1] \in 1..Len(all) /\ p[2] \in DOMAIN lists[p[1]]
        /\ \A k \in 1..Len(all) : \A j \in DOMAIN lists[k] : <<k, j>> \in Places(lists)
    <3> HIDE DEF lists
    <3> QED BY <2>1, <2>2, <2>3, PlacesAre
  <2>5. \A p \in Places(lists) : name[p] \in TypesOf(all)
    BY <2>1, <2>4, TypesSeen
  <2>6. ASSUME NEW f \in TypesOf(all) PROVE \E p \in Places(lists) : name[p] = f
    <3>1. PICK k \in DOMAIN all : \E j \in DOMAIN all[k].entities : Folded(all[k].entities[j]) = f
      BY TypesSeen
    <3>2. PICK j \in DOMAIN all[k].entities : Folded(all[k].entities[j]) = f
      BY <3>1
    <3>3. <<k, j>> \in Places(lists)
      BY <2>1, <2>4
    <3> QED BY <3>2, <3>3
  <2>7. name \in Surjection(Places(lists), TypesOf(all))
    BY <2>5, <2>6 DEF Surjection
  <2> QED BY <2>4, <2>7, FS_Surjection
<1>6. ExistsBijection(TypesOf(all), merged)
  BY <1>4 DEF ExistsBijection
<1>7. Cardinality(merged) = Cardinality(TypesOf(all))
  <2> HIDE DEF merged
  <2> QED BY <1>5, <1>6, FS_Bijection
<1> QED BY <1>3, <1>7

\* The candidates are what the model may return and _build_one accepts, and the
\* advice is what the merge makes of them.
AdviceInv ==
    /\ candidates \in Seq(Candidate)
    /\ \A k \in DOMAIN candidates : ValidCandidate(candidates[k])
    /\ design = "advised" => advice = Merged(candidates)

LEMMA AdviceStep ==
    ASSUME AdviceInv, [SchemaNext]_schemaVars
    PROVE  AdviceInv'
<1>1. CASE ReturnCandidate
  <2>1. PICK c \in Candidate : ValidCandidate(c) /\ candidates' = Append(candidates, c)
    BY <1>1 DEF ReturnCandidate
  <2>2. candidates' \in Seq(Candidate)
    BY <2>1 DEF AdviceInv
  <2>3. \A k \in DOMAIN candidates' : \/ k \in DOMAIN candidates /\ candidates'[k] = candidates[k]
                                      \/ candidates'[k] = c
    BY <2>1 DEF AdviceInv
  <2>4. design' = "candidates"
    BY <1>1 DEF ReturnCandidate
  <2> QED BY <2>1, <2>2, <2>3, <2>4 DEF AdviceInv
<1>2. CASE MergeCandidates
  BY <1>2 DEF MergeCandidates, AdviceInv
<1>3. CASE ReadAdvice
  <2>1. candidates' = <<>> /\ design' = "build"
    BY <1>3 DEF ReadAdvice
  <2> QED BY <2>1 DEF AdviceInv
<1>4. ASSUME candidates' = candidates, advice' = advice, design' = "advised" => design = "advised"
      PROVE  AdviceInv'
  BY <1>4 DEF AdviceInv
<1>5. ASSUME NEW s \in Designer, BeginSave(s) \/ WriteBlueprint(s) \/ WriteCompiled(s) \/ SaveRaises(s)
      PROVE  AdviceInv'
  BY <1>4, <1>5 DEF BeginSave, WriteBlueprint, WriteCompiled, SaveRaises
<1>6. CASE LoseAttempt \/ AcceptSchema \/ JudgePasses \/ Revise
  BY <1>4, <1>6 DEF LoseAttempt, AcceptSchema, JudgePasses, Revise
<1>7. CASE SaveForm \/ ConfirmSchema \/ DocumentInput
  BY <1>4, <1>7 DEF SaveForm, ConfirmSchema, DocumentInput
<1>8. CASE UNCHANGED schemaVars
  BY <1>4, <1>8 DEF schemaVars
<1> QED BY <1>1, <1>2, <1>3, <1>5, <1>6, <1>7, <1>8 DEF SchemaNext

\* AdviceResolves: the merged candidates are closed, for any chunks, types and
\* spellings: the refusal over an unknown entity cannot happen.
THEOREM AdviceIsClosed == SchemaSpec => []AdviceResolves
<1>1. SchemaInit => AdviceInv
  <2> SUFFICES ASSUME SchemaInit PROVE AdviceInv
    OBVIOUS
  <2>1. candidates = <<>> /\ design = "candidates"
    BY DEF SchemaInit
  <2> QED BY <2>1 DEF AdviceInv
<1>2. ASSUME AdviceInv PROVE AdviceResolves
  <2> SUFFICES ASSUME advice = Merged(candidates)
               PROVE  LET entities == {Folded(n) : n \in advice.entities} IN
                      /\ \A r \in advice.relations : {r.head, r.tail} \subseteq advice.entities
                      /\ Cardinality(entities) = Cardinality(advice.entities)
                      /\ entities = UNION {{Folded(n) : n \in ToSet(c.entities)} : c \in ToSet(candidates)}
                      /\ {Folded(r.name) : r \in advice.relations} =
                             UNION {{Folded(r.name) : r \in ToSet(c.relations)} : c \in ToSet(candidates)}
    BY <1>2 DEF AdviceInv, AdviceResolves
  <2> DEFINE all == candidates
  <2>1. all \in Seq(Candidate) /\ \A k \in DOMAIN all : ValidCandidate(all[k])
    BY <1>2 DEF AdviceInv
  <2>2. /\ advice.entities = {Canonical(all)[f] : f \in TypesOf(all)}
        /\ advice.relations = {Joined(all, Preferred(RelationsOf(all, f))) : f \in LinksOf(all)}
    BY MergedIs
  <2>3. \A r \in advice.relations : {r.head, r.tail} \subseteq advice.entities
    BY <2>1, <2>2, JoinedEnds
  <2>4. /\ {Folded(n) : n \in advice.entities} = TypesOf(all)
        /\ Cardinality({Folded(n) : n \in advice.entities}) = Cardinality(advice.entities)
    BY <2>1, OneSpelling
  <2>5. TypesOf(all) = UNION {{Folded(n) : n \in ToSet(c.entities)} : c \in ToSet(all)}
    <3>1. ASSUME NEW f
          PROVE  f \in UNION {{Folded(n) : n \in ToSet(c.entities)} : c \in ToSet(all)} <=>
                     \E k \in DOMAIN all : \E j \in DOMAIN all[k].entities : f = Folded(all[k].entities[j])
      BY DEF ToSet
    <3>2. ASSUME NEW f
          PROVE  f \in TypesOf(all) <=>
                     \E k \in DOMAIN all : \E j \in DOMAIN all[k].entities : f = Folded(all[k].entities[j])
      BY <2>1, TypesSeen
    <3>3. \A f : f \in TypesOf(all) <=> f \in UNION {{Folded(n) : n \in ToSet(c.entities)} : c \in ToSet(all)}
      BY <3>1, <3>2, Zenon
    <3> QED BY <3>3, Zenon
  <2>6. {Folded(r.name) : r \in advice.relations} = LinksOf(all)
    BY <2>1, <2>2, JoinedEnds
  <2>7. LinksOf(all) = UNION {{Folded(r.name) : r \in ToSet(c.relations)} : c \in ToSet(all)}
    <3>1. ASSUME NEW f
          PROVE  f \in UNION {{Folded(r.name) : r \in ToSet(c.relations)} : c \in ToSet(all)} <=>
                     \E k \in DOMAIN all : \E j \in DOMAIN all[k].relations : f = Folded(all[k].relations[j].name)
      BY DEF ToSet
    <3>2. ASSUME NEW f
          PROVE  f \in LinksOf(all) <=>
                     \E k \in DOMAIN all : \E j \in DOMAIN all[k].relations : f = Folded(all[k].relations[j].name)
      BY <2>1, ChosenRelation, LinksSeen
    <3>3. \A f : f \in LinksOf(all) <=> f \in UNION {{Folded(r.name) : r \in ToSet(c.relations)} : c \in ToSet(all)}
      BY <3>1, <3>2, Zenon
    <3> QED BY <3>3, Zenon
  <2> QED BY <2>3, <2>4, <2>5, <2>6, <2>7
<1> QED BY <1>1, <1>2, AdviceStep, PTL DEF SchemaSpec

(***************************************************************************)
(* A follow-up begins no later than the first stage that a change          *)
(* concerns, for any impacts, research steps and uploads. Nothing is       *)
(* counted: an impact set is closed, or it is the answer alone.            *)
(***************************************************************************)

\* The rule on answer_only, without counting.
Yielding(layers) == IF layers = {"answer_only"} THEN layers ELSE layers \ {"answer_only"}

LEMMA AnswerOnlyYields ==
    ASSUME NEW layers \in SUBSET ChangeImpact
    PROVE  (IF Cardinality(layers) > 1 THEN layers \ {"answer_only"} ELSE layers) = Yielding(layers)
<1>1. IsFiniteSet(layers) /\ Cardinality(layers) \in Nat
  <2>1. IsFiniteSet(ChangeImpact)
    <3>1. IsFiniteSet({}) /\ IsFiniteSet({} \cup {"answer_only"})
      BY FS_EmptySet, FS_AddElement
    <3>2. IsFiniteSet(({} \cup {"answer_only"}) \cup {"instances"})
      BY <3>1, FS_AddElement
    <3>3. IsFiniteSet((({} \cup {"answer_only"}) \cup {"instances"}) \cup {"schema"})
      BY <3>2, FS_AddElement
    <3>4. IsFiniteSet(((({} \cup {"answer_only"}) \cup {"instances"}) \cup {"schema"}) \cup {"evidence"})
      BY <3>3, FS_AddElement
    <3>5. IsFiniteSet((((({} \cup {"answer_only"}) \cup {"instances"}) \cup {"schema"}) \cup {"evidence"})
                        \cup {"problem"})
      BY <3>4, FS_AddElement
    <3>6. ChangeImpact = ((((({} \cup {"answer_only"}) \cup {"instances"}) \cup {"schema"})
                             \cup {"evidence"}) \cup {"problem"})
      BY DEF ChangeImpact
    <3> QED BY <3>5, <3>6
  <2> QED BY <2>1, FS_Subset, FS_CardinalityType
<1>2. CASE layers = {"answer_only"}
  <2>1. Cardinality(layers) = 1 /\ ~(1 > 1)
    BY <1>2, FS_Singleton
  <2> QED BY <1>2, <2>1 DEF Yielding
<1>3. CASE layers # {"answer_only"}
  <2>1. CASE Cardinality(layers) > 1
    BY <1>3, <2>1 DEF Yielding
  <2>2. CASE Cardinality(layers) = 0
    <3>1. layers = {}
      BY <1>1, <2>2, FS_EmptySet
    <3> QED BY <3>1, <1>3, <2>2 DEF Yielding
  <2>3. CASE Cardinality(layers) = 1
    <3>1. PICK x : layers = {x}
      BY <1>1, <2>3, FS_Singleton
    <3> QED BY <3>1, <1>3, <2>3 DEF Yielding
  <2> QED BY <1>1, <2>1, <2>2, <2>3
<1> QED BY <1>2, <1>3

\* The impacts of a plan, one by one.
LEMMA ImpactsOf ==
    ASSUME NEW I \in SUBSET ChangeImpact, NEW S
    PROVE  LET P == PlanImpacts(I, S)
               scoped == "problem" \in I
               stepped == PlanSteps(I, S) # {} IN
           /\ P \subseteq ChangeImpact
           /\ "problem" \in P <=> "problem" \in I
           /\ "evidence" \in P <=> "evidence" \in I \/ scoped \/ stepped
           /\ "schema" \in P <=> "schema" \in I
           /\ "instances" \in P <=> I \ {"answer_only"} # {} \/ stepped
           /\ "answer_only" \in P <=> I = {"answer_only"} /\ ~stepped
<1> DEFINE scoped == IF "problem" \in I THEN I \cup {"evidence", "instances"} ELSE I
           stepped == IF PlanSteps(I, S) # {} THEN scoped \cup {"evidence", "instances"} ELSE scoped
           layered == IF {"evidence", "schema"} \cap stepped # {} THEN stepped \cup {"instances"} ELSE stepped
<1>1. I \in SUBSET {"answer_only", "instances", "schema", "evidence", "problem"}
  BY DEF ChangeImpact
<1>2. layered \in SUBSET ChangeImpact
  BY DEF ChangeImpact
<1>3. /\ "problem" \in layered <=> "problem" \in I
      /\ "evidence" \in layered <=> "evidence" \in I \/ "problem" \in I \/ PlanSteps(I, S) # {}
      /\ "schema" \in layered <=> "schema" \in I
      /\ "instances" \in layered <=>
            \/ "instances" \in I \/ "problem" \in I \/ "evidence" \in I \/ "schema" \in I
            \/ PlanSteps(I, S) # {}
      /\ "answer_only" \in layered <=> "answer_only" \in I
  OBVIOUS
<1>4. PlanImpacts(I, S) = IF Cardinality(layered) > 1 THEN layered \ {"answer_only"} ELSE layered
  BY DEF PlanImpacts
<1> HIDE DEF layered
<1>5. PlanImpacts(I, S) = Yielding(layered)
  BY <1>2, <1>4, AnswerOnlyYields
<1>6. I \ {"answer_only"} # {} <=>
          "instances" \in I \/ "problem" \in I \/ "evidence" \in I \/ "schema" \in I
  <2>1. I \ {"answer_only"} # {} <=> \E x \in I : x # "answer_only"
    OBVIOUS
  <2> QED BY <1>1, <2>1
<1>7. layered = {"answer_only"} <=> I = {"answer_only"} /\ PlanSteps(I, S) = {}
  <2>1. layered = {"answer_only"} <=>
           /\ "answer_only" \in layered /\ "problem" \notin layered /\ "evidence" \notin layered
           /\ "schema" \notin layered /\ "instances" \notin layered
    BY <1>2 DEF ChangeImpact
  <2>2. I = {"answer_only"} <=>
           /\ "answer_only" \in I /\ "problem" \notin I /\ "evidence" \notin I
           /\ "schema" \notin I /\ "instances" \notin I
    BY <1>1
  <2> QED BY <1>3, <2>1, <2>2
<1>8. /\ PlanImpacts(I, S) \subseteq layered
      /\ \A x \in ChangeImpact \ {"answer_only"} : x \in PlanImpacts(I, S) <=> x \in layered
      /\ "answer_only" \in PlanImpacts(I, S) <=> layered = {"answer_only"}
  BY <1>2, <1>5 DEF Yielding
<1>9. /\ "problem" \in PlanImpacts(I, S) <=> "problem" \in layered
      /\ "evidence" \in PlanImpacts(I, S) <=> "evidence" \in layered
      /\ "schema" \in PlanImpacts(I, S) <=> "schema" \in layered
      /\ "instances" \in PlanImpacts(I, S) <=> "instances" \in layered
  BY <1>8 DEF ChangeImpact
<1> QED BY <1>2, <1>3, <1>6, <1>7, <1>8, <1>9

\* Where a plan restarts: its first layer in the order of the pipeline.
LEMMA RestartOf ==
    ASSUME NEW I, NEW S, PlanImpacts(I, S) \subseteq ChangeImpact
    PROVE  LET P == PlanImpacts(I, S) IN
           PlanRestarts(I, S) = IF "problem" \in P THEN {"problem"}
                                ELSE IF "evidence" \in P THEN {"evidence"}
                                ELSE IF "schema" \in P THEN {"schema_build"}
                                ELSE IF "instances" \in P THEN {"extract"} ELSE {}
<1> DEFINE P == PlanImpacts(I, S)
           stages == {RestartStage[i] : i \in P \ {"answer_only"}}
<1>1. stages \subseteq {"problem", "evidence", "schema_build", "extract"}
  BY DEF ChangeImpact, RestartStage
<1>2. /\ "problem" \in stages <=> "problem" \in P
      /\ "evidence" \in stages <=> "evidence" \in P
      /\ "schema_build" \in stages <=> "schema" \in P
      /\ "extract" \in stages <=> "instances" \in P
  BY DEF ChangeImpact, RestartStage
<1>3. Pos["problem"] = 1 /\ Pos["evidence"] = 2 /\ Pos["schema_build"] = 3 /\ Pos["extract"] = 5
  BY DEF Pos
<1>4. PlanRestarts(I, S) = {s \in stages : \A t \in stages : Pos[s] <= Pos[t]}
  BY DEF PlanRestarts
<1> HIDE DEF stages, P
<1>5. \A s : s \in PlanRestarts(I, S) <=> s \in stages /\ \A t \in stages : Pos[s] <= Pos[t]
  BY <1>4
<1>6. CASE "problem" \in P
  <2>1. "problem" \in stages /\ \A t \in stages : Pos["problem"] <= Pos[t]
    BY <1>1, <1>2, <1>3, <1>6
  <2>2. ASSUME NEW s \in PlanRestarts(I, S) PROVE s = "problem"
    <3>1. s \in stages /\ Pos[s] <= 1
      BY <1>3, <1>5, <2>1
    <3> QED BY <1>1, <1>2, <1>3, <1>6, <3>1
  <2>3. PlanRestarts(I, S) = {"problem"}
    BY <1>5, <2>1, <2>2
  <2> QED BY <1>6, <2>3 DEF P
<1>7. CASE "problem" \notin P /\ "evidence" \in P
  <2>1. "evidence" \in stages /\ \A t \in stages : Pos["evidence"] <= Pos[t]
    BY <1>1, <1>2, <1>3, <1>7
  <2>2. ASSUME NEW s \in PlanRestarts(I, S) PROVE s = "evidence"
    <3>1. s \in stages /\ Pos[s] <= 2
      BY <1>3, <1>5, <2>1
    <3> QED BY <1>1, <1>2, <1>3, <1>7, <3>1
  <2>3. PlanRestarts(I, S) = {"evidence"}
    BY <1>5, <2>1, <2>2
  <2> QED BY <1>7, <2>3 DEF P
<1>8. CASE "problem" \notin P /\ "evidence" \notin P /\ "schema" \in P
  <2>1. "schema_build" \in stages /\ \A t \in stages : Pos["schema_build"] <= Pos[t]
    BY <1>1, <1>2, <1>3, <1>8
  <2>2. ASSUME NEW s \in PlanRestarts(I, S) PROVE s = "schema_build"
    <3>1. s \in stages /\ Pos[s] <= 3
      BY <1>3, <1>5, <2>1
    <3> QED BY <1>1, <1>2, <1>3, <1>8, <3>1
  <2>3. PlanRestarts(I, S) = {"schema_build"}
    BY <1>5, <2>1, <2>2
  <2> QED BY <1>8, <2>3 DEF P
<1>9. CASE "problem" \notin P /\ "evidence" \notin P /\ "schema" \notin P
  <2>1. \A s \in stages : s = "extract"
    BY <1>1, <1>2, <1>9
  <2>2. \A s : s \in PlanRestarts(I, S) <=> s = "extract" /\ "instances" \in P
    BY <1>2, <1>3, <1>5, <2>1
  <2> QED BY <1>9, <2>2 DEF P
<1> QED BY <1>6, <1>7, <1>8, <1>9

-----------------------------------------------------------------------------

PlanTypes ==
    /\ impacts \in SUBSET ChangeImpact
    /\ steps \in SUBSET ResearchStep
    /\ uploads \in BOOLEAN

\* A plan that is sent back is a fixed point.
LEMMA PlanCloses ==
    ASSUME NEW I \in SUBSET ChangeImpact, NEW S, NEW all
    PROVE  PlanImpacts(PlanImpacts(I, S), ResolvedSteps(I, S, all)) = PlanImpacts(I, S)
<1> DEFINE P == PlanImpacts(I, S)
           R == ResolvedSteps(I, S, all)
           again == PlanImpacts(P, R)
<1>1. /\ P \in SUBSET ChangeImpact
      /\ "problem" \in P <=> "problem" \in I
      /\ "evidence" \in P <=> "evidence" \in I \/ "problem" \in I \/ PlanSteps(I, S) # {}
      /\ "schema" \in P <=> "schema" \in I
      /\ "instances" \in P <=> I \ {"answer_only"} # {} \/ PlanSteps(I, S) # {}
      /\ "answer_only" \in P <=> I = {"answer_only"} /\ PlanSteps(I, S) = {}
  BY ImpactsOf
<1>2. PlanSteps(P, R) # {} => "evidence" \in P /\ "instances" \in P
  <2>1. PlanSteps(P, R) # {} => R # {}
    BY DEF PlanSteps
  <2>2. R # {} => PlanSteps(I, S) # {} \/ "evidence" \in P
    BY DEF ResolvedSteps
  <2>3. "evidence" \in P => "instances" \in P
    <3>1. "problem" \in I \/ "evidence" \in I => I \ {"answer_only"} # {}
      OBVIOUS
    <3> QED BY <1>1, <3>1
  <2> HIDE DEF P, R
  <2> QED BY <1>1, <2>1, <2>2, <2>3
<1>3. /\ again \in SUBSET ChangeImpact
      /\ "problem" \in again <=> "problem" \in P
      /\ "evidence" \in again <=> "evidence" \in P \/ "problem" \in P \/ PlanSteps(P, R) # {}
      /\ "schema" \in again <=> "schema" \in P
      /\ "instances" \in again <=> P \ {"answer_only"} # {} \/ PlanSteps(P, R) # {}
      /\ "answer_only" \in again <=> P = {"answer_only"} /\ PlanSteps(P, R) = {}
  BY <1>1, ImpactsOf
<1>4. P = {"answer_only"} <=> "answer_only" \in P
  <2>1. "answer_only" \in P => "problem" \notin P /\ "evidence" \notin P /\ "schema" \notin P /\ "instances" \notin P
    BY <1>1
  <2> HIDE DEF P
  <2> QED BY <1>1, <2>1 DEF ChangeImpact
<1>5. P \ {"answer_only"} # {} <=> "instances" \in P
  <2>1. "problem" \in P \/ "evidence" \in P \/ "schema" \in P \/ "instances" \in P => "instances" \in P
    <3>1. "problem" \in I \/ "evidence" \in I \/ "schema" \in I => I \ {"answer_only"} # {}
      OBVIOUS
    <3> QED BY <1>1, <3>1
  <2> HIDE DEF P
  <2>2. P \ {"answer_only"} # {} <=> \E x \in P : x # "answer_only"
    OBVIOUS
  <2> QED BY <1>1, <2>1, <2>2 DEF ChangeImpact
<1>6. "evidence" \in P \/ "problem" \in P <=> "evidence" \in P
  BY <1>1
<1> HIDE DEF P, R, again
<1>7. /\ "problem" \in again <=> "problem" \in P
      /\ "evidence" \in again <=> "evidence" \in P
      /\ "schema" \in again <=> "schema" \in P
      /\ "instances" \in again <=> "instances" \in P
      /\ "answer_only" \in again <=> "answer_only" \in P
  BY <1>2, <1>3, <1>4, <1>5, <1>6
<1>8. again = P
  <2>1. \A x \in ChangeImpact : x \in again <=> x \in P
    BY <1>7 DEF ChangeImpact
  <2> QED BY <1>1, <1>3, <2>1
<1> QED BY <1>8 DEF again, P, R

\* What a submission has changed is in its plan.
LEMMA ChangesPlanned ==
    ASSUME PlanTypes
    PROVE  /\ Normalised \in SUBSET ChangeImpact
           /\ Changed \subseteq Normalised \ {"answer_only"}
           /\ Changed = {} <=> Normalised \ {"answer_only"} = {}
           /\ Normalised \ {"answer_only"} # {} <=> "instances" \in Normalised
<1> DEFINE I == Submitted(impacts, uploads)
<1>1. I \in SUBSET ChangeImpact
  BY DEF PlanTypes, Submitted, ChangeImpact
<1>2. /\ Normalised \in SUBSET ChangeImpact
      /\ "problem" \in Normalised <=> "problem" \in I
      /\ "evidence" \in Normalised <=> "evidence" \in I \/ "problem" \in I \/ PlanSteps(I, steps) # {}
      /\ "schema" \in Normalised <=> "schema" \in I
      /\ "instances" \in Normalised <=> I \ {"answer_only"} # {} \/ PlanSteps(I, steps) # {}
  BY <1>1, ImpactsOf DEF Normalised
<1>3. I = IF uploads THEN impacts \cup {"evidence", "instances"} ELSE impacts
  BY DEF Submitted
<1>4. PlanSteps(I, steps) # {} <=> "problem" \notin I /\ steps # {}
  BY DEF PlanSteps
<1> HIDE DEF I
<1>5. ASSUME NEW x \in Changed PROVE x \in Normalised \ {"answer_only"}
  <2>1. CASE x \in impacts \ {"answer_only"}
    <3>1. x \in I /\ I \ {"answer_only"} # {} /\ x \in {"instances", "schema", "evidence", "problem"}
      BY <2>1, <1>3 DEF PlanTypes, ChangeImpact
    <3> QED BY <1>2, <3>1
  <2>2. CASE x = "evidence" /\ (uploads \/ steps # {})
    BY <1>2, <1>3, <1>4, <2>2
  <2> QED BY <2>1, <2>2 DEF Changed
<1>6. ASSUME Changed = {} PROVE "instances" \notin Normalised
  <2>1. impacts \ {"answer_only"} = {} /\ ~uploads /\ steps = {}
    BY <1>6 DEF Changed, PlanTypes
  <2> QED BY <1>2, <1>3, <1>4, <2>1
<1>7. Normalised \ {"answer_only"} # {} <=> "instances" \in Normalised
  <2>1. "problem" \in I \/ "evidence" \in I \/ "schema" \in I => I \ {"answer_only"} # {}
    OBVIOUS
  <2>2. "problem" \in Normalised \/ "evidence" \in Normalised \/ "schema" \in Normalised
            => "instances" \in Normalised
    BY <1>2, <2>1
  <2>3. Normalised \ {"answer_only"} # {} <=> \E x \in Normalised : x # "answer_only"
    OBVIOUS
  <2> QED BY <1>2, <2>2, <2>3 DEF ChangeImpact
<1> QED BY <1>2, <1>5, <1>6, <1>7

\* Each part of RestartsForChanges, for every submission.
LEMMA PlansRestart ==
    ASSUME PlanTypes
    PROVE  RestartsForChanges
<1> DEFINE I == Submitted(impacts, uploads)
<1>1. I \in SUBSET ChangeImpact
  BY DEF PlanTypes, Submitted, ChangeImpact
<1>2. Restart = IF "problem" \in Normalised THEN {"problem"}
                ELSE IF "evidence" \in Normalised THEN {"evidence"}
                ELSE IF "schema" \in Normalised THEN {"schema_build"}
                ELSE IF "instances" \in Normalised THEN {"extract"} ELSE {}
  BY ChangesPlanned, RestartOf DEF Restart, Normalised
<1>3. /\ Normalised \in SUBSET ChangeImpact
      /\ Changed \subseteq Normalised \ {"answer_only"}
      /\ Changed = {} <=> Normalised \ {"answer_only"} = {}
      /\ Normalised \ {"answer_only"} # {} <=> "instances" \in Normalised
  BY ChangesPlanned
<1>4. Changed = {} <=> Restart = {}
  <2>1. "problem" \in Normalised \/ "evidence" \in Normalised \/ "schema" \in Normalised
            => "instances" \in Normalised
    BY <1>3
  <2> QED BY <1>2, <1>3, <2>1
<1>5. Cardinality(Restart) <= 1
  <2>1. Restart = {} \/ \E x : Restart = {x}
    BY <1>2
  <2>2. Cardinality(Restart) \in {0, 1}
    BY <2>1, FS_EmptySet, FS_Singleton
  <2> QED BY <2>2
<1>6. ASSUME NEW r \in Restart
      PROVE  /\ \A i \in Changed : Pos[r] <= Pos[RestartStage[i]]
             /\ "instances" \in Normalised
  <2>1. "instances" \in Normalised
    BY <1>2, <1>3, <1>6
  <2>2. \A i \in Changed : i \in Normalised /\ i \in {"problem", "evidence", "schema", "instances"}
    BY <1>3 DEF ChangeImpact
  <2>3. /\ Pos[RestartStage["problem"]] = 1 /\ Pos[RestartStage["evidence"]] = 2
        /\ Pos[RestartStage["schema"]] = 3 /\ Pos[RestartStage["instances"]] = 5
        /\ Pos["problem"] = 1 /\ Pos["evidence"] = 2 /\ Pos["schema_build"] = 3 /\ Pos["extract"] = 5
    BY DEF Pos, RestartStage
  <2>4. \A i \in Changed : Pos[r] <= Pos[RestartStage[i]]
    BY <1>2, <1>6, <2>2, <2>3
  <2> QED BY <2>1, <2>4
<1>7. PlanImpacts(Normalised, Resolved) = Normalised
  BY <1>1, PlanCloses DEF Normalised, Resolved
<1>8. PlanRestarts(Normalised, Resolved) = Restart
  BY <1>7 DEF PlanRestarts, Restart, Normalised
<1> QED BY <1>4, <1>5, <1>6, <1>7, <1>8 DEF RestartsForChanges

\* A submission, or a plan that is sent back, restarts the build where its
\* first change is, however many research steps there are.
THEOREM ChangesRestart == PlanSpec => []RestartsForChanges
<1>1. PlanInit => PlanTypes
  BY DEF PlanInit, PlanTypes
<1>2. ASSUME PlanTypes, [Resubmit]_planVars PROVE PlanTypes'
  <2>1. CASE Resubmit
    <3>1. Normalised \in SUBSET ChangeImpact
      BY <1>2, ChangesPlanned
    <3>2. Resolved \in SUBSET ResearchStep
      <4>1. PlanSteps(Submitted(impacts, uploads), steps) \subseteq ResearchStep
        BY <1>2 DEF PlanTypes, PlanSteps
      <4> QED BY <4>1 DEF Resolved, ResolvedSteps
    <3> QED BY <2>1, <3>1, <3>2 DEF Resubmit, PlanTypes
  <2>2. CASE UNCHANGED planVars
    BY <1>2, <2>2 DEF planVars, PlanTypes
  <2> QED BY <1>2, <2>1, <2>2
<1>3. PlanTypes => RestartsForChanges
  BY PlansRestart
<1> QED BY <1>1, <1>2, <1>3, PTL DEF PlanSpec

=============================================================================
