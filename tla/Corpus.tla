------------------------------- MODULE Corpus --------------------------------
(***************************************************************************)
(* The evidence side of the planner: the checkout and its manifest, the    *)
(* offline ingest (scripts/ingest_corpus.py, db/corpus.py, rag/), the held *)
(* paragraphs a person clears, the embedding service, and one plan that    *)
(* passes the gate, collects citations and is briefed from them.           *)
(*                                                                         *)
(* A document is known by its place in the sorted order of the manifest's  *)
(* paths, its bytes by a model value that is also their sha256, and its    *)
(* text is a sequence of paragraphs, each normalised and cut as screening  *)
(* leaves it.  The plan is abstracted to what meets the corpus: the        *)
(* decision and the rest of the gate are chosen freely.                    *)
(***************************************************************************)
EXTENDS Retrieval, BriefSeal, Sequences

CONSTANTS
    Airframes,      \* airframe_config_ids
    Paths,          \* 1..n, in the order of sorted(entries.items())
    Files,          \* what a file may hold; also its sha256
    Text,           \* the paragraphs of each of Files
    Paragraphs,
    Furniture,      \* paragraphs shorter than MIN_CHUNK_CHARS
    Tripping,       \* those the IMPERATIVE pattern matches
    Words,          \* of a paragraph
    Numbers,        \* of a paragraph, in tenths
    Listing,        \* [kind, airframe, field] a path is listed with
    Checkout,       \* the files the first ingest finds, listed as they are
    Commits,        \* bound: the <<path, file>> that later commits bring
    Overwrites,     \* bound: those put on disk without the manifest
    Production,     \* whether ingest runs without --allow-eval-traps
    Embedders,      \* providers a process may be configured with
    Services,       \* models the embedding service may run
    Width,          \* the dimension of each
    Asked,          \* per airframe, the CITED_FIELDS that it has a value for
    Query,          \* the question asked for each field
    CalcNumbers,    \* numbers in assessment, calculations and weather
    Prose           \* briefs the language model may write

KindsForbidden == {"eval_trap", "eval_fixture"}
DocumentKinds == {"datasheet", "blue_list", "procedure"} \cup KindsForbidden

ASSUME CorpusAssumption ==
    /\ Paths = 1..Cardinality(Paths)
    /\ Cardinality(Paths) \in Nat \ {0}
    /\ Text \in [Files -> Seq(Paragraphs)]
    /\ \A p \in Paths : Listing[p].airframe \in Airframes \cup {None}
    /\ \A e \in Embedders : e.kind \in {"hashing", "http"}
    /\ Asked \in [Airframes -> Seq(DOMAIN Query)]
    /\ \A f \in DOMAIN Query : IsFiniteSet(Query[f])
    /\ Checkout \in [Paths -> Files \cup {None}]
    /\ Commits \cup Overwrites \subseteq Paths \X Files
    /\ None \notin Files \cup Airframes

VARIABLES
    disk,       \* file at each path of the checkout
    manifest,   \* sha256 recorded for each path, None when it is not listed
    docs,       \* corpus_documents
    chunks,     \* corpus_chunks
    held,       \* corpus_quarantine
    run,        \* the ingest script
    ingester,   \* embedder the script is configured with
    planner,    \* embedder of the API process
    service,    \* model behind the embedding service
    plan        \* a plan, from its calculation to its brief

source == <<disk, manifest>>
corpus == <<docs, chunks, held>>
deployment == <<ingester, planner, service>>
vars == <<source, corpus, run, deployment, plan>>

-----------------------------------------------------------------------------
(* Screening and embedding *)

\* split_paragraphs: positions that survive the length filter.
Split(file) == {i \in DOMAIN Text[file] : Text[file][i] \notin Furniture}

IsClean(paragraph) == paragraph \notin Tripping

Clean(file) == {i \in Split(file) : IsClean(Text[file][i])}

\* The width of what the embedding service answers with.  Its model_id comes along
\* and is not looked at; a service whose width is not its model's refuses instead.
Served == Width[service]

Embeds(e) == e.kind = "hashing" \/ Served = e.dimension

\* What really computed a vector; nothing of it is recorded but e.id.
Computes(e) == IF e.kind = "hashing" THEN e.id ELSE service

-----------------------------------------------------------------------------
(* Rows *)

DocumentRow(p, file) ==
    [path |-> p, sha256 |-> file, airframe |-> Listing[p].airframe]

\* A chunk is known by its path and the clean paragraphs there are before it.
ChunkIdentifier(p, file, i) == <<p, Cardinality({j \in Clean(file) : j < i})>>

ChunkRow(p, file, i, e) ==
    [path |-> p, id |-> ChunkIdentifier(p, file, i),
     text |-> Text[file][i], words |-> Words[Text[file][i]],
     airframe |-> Listing[p].airframe, field |-> Listing[p].field,
     model |-> e.id, length |-> e.dimension, computed |-> Computes(e)]

HeldRow(p, file, i) ==
    [path |-> p, at |-> i, text |-> Text[file][i],
     airframe |-> Listing[p].airframe, cleared |-> FALSE]

\* Mutant: one cleared paragraph clears its whole document.
OpenUnlessOneCleared ==
    {h.airframe : h \in {g \in held : \A k \in held : (k.path = g.path) => ~k.cleared}} \ {None}

OpenQuarantineConfigs == {h.airframe : h \in {g \in held : ~g.cleared}} \ {None}

HasOpenQuarantine(a) == a \in OpenQuarantineConfigs

-----------------------------------------------------------------------------
(* Ingest *)

Idle == [next |-> 0, entries |-> [p \in Paths |-> None]]

\* load_manifest: an unknown kind or a foreign host refuses the whole manifest.
LoadManifest ==
    {p \in Paths : manifest[p] # None /\ Listing[p].kind \notin DocumentKinds} = {}

StartRun ==
    /\ run = Idle
    /\ LoadManifest
    /\ run' = [next |-> 1, entries |-> manifest]
    /\ UNCHANGED <<source, corpus, deployment, plan>>

Verified(p) ==
    /\ ~(Production /\ Listing[p].kind \in KindsForbidden)
    /\ disk[p] = run.entries[p]

\* Neither the path nor the sha256 of a document may be stored twice.
Unique(p, file) == \A d \in docs : d.path # p /\ d.sha256 # file

Advance == run' = IF run.next = Cardinality(Paths)
                  THEN Idle
                  ELSE [run EXCEPT !.next = @ + 1]

SkipUnlisted ==
    /\ run # Idle
    /\ run.entries[run.next] = None
    /\ Advance
    /\ UNCHANGED <<source, corpus, deployment, plan>>

IngestDocument ==
    LET p == run.next
        file == disk[p]
    IN  /\ run # Idle
        /\ run.entries[p] # None
        /\ Verified(p)
        /\ Clean(file) = {} \/ Embeds(ingester)
        /\ Unique(p, file)
        /\ docs' = docs \cup {DocumentRow(p, file)}
        /\ chunks' = chunks \cup {ChunkRow(p, file, i, ingester) : i \in Clean(file)}
        /\ held' = held \cup {HeldRow(p, file, i) : i \in Split(file) \ Clean(file)}
        /\ Advance
        /\ UNCHANGED <<source, deployment, plan>>

\* Mutant: the document and what is held are committed before embedding.
RunDiesHalfStored ==
    LET p == run.next
        file == disk[p]
    IN  /\ run # Idle
        /\ run.entries[p] # None
        /\ Verified(p)
        /\ ~Embeds(ingester)
        /\ Unique(p, file)
        /\ docs' = docs \cup {DocumentRow(p, file)}
        /\ held' = held \cup {HeldRow(p, file, i) : i \in Split(file) \ Clean(file)}
        /\ run' = Idle
        /\ UNCHANGED <<source, chunks, deployment, plan>>

\* ManifestError, OSError, EmbeddingError and the IntegrityError of the commit
\* all end the script; what it committed for earlier documents stays.
RunDies ==
    LET p == run.next
    IN  /\ run # Idle
        /\ run.entries[p] # None
        /\ \/ ~Verified(p)
           \/ (Clean(disk[p]) # {} /\ ~Embeds(ingester))
           \/ ~Unique(p, disk[p])
        /\ run' = Idle
        /\ UNCHANGED <<source, corpus, deployment, plan>>

\* One call over HTTP may fail whatever the service runs.
EmbeddingCallFails ==
    /\ run # Idle
    /\ run.entries[run.next] # None
    /\ Verified(run.next)
    /\ Clean(disk[run.next]) # {}
    /\ ingester.kind = "http"
    /\ run' = Idle
    /\ UNCHANGED <<source, corpus, deployment, plan>>

Clear(h) ==
    /\ h \in held
    /\ ~h.cleared
    /\ held' = (held \ {h}) \cup {[h EXCEPT !.cleared = TRUE]}
    /\ UNCHANGED <<source, docs, chunks, run, deployment, plan>>

-----------------------------------------------------------------------------
(* A plan meets the corpus *)

NoBrief == Deterministic("none")

NoPlan == [stage |-> "none", aircraft |-> None, decision |-> "NO_GO",
           blocked |-> FALSE, next |-> 1, citations |-> {}, status |-> "none",
           brief |-> NoBrief, stored |-> {}, open |-> {}, model |-> None, compared |-> {}]

\* The calculations node; "blocked" is CORPUS_QUARANTINED among the blockers.
\* The fields stored, open, model and compared only remember.
Calculated(a, decision) ==
    [NoPlan EXCEPT
        !.stage = "citing",
        !.aircraft = a,
        !.decision = decision,
        !.blocked = HasOpenQuarantine(a),
        !.stored = {d.path : d \in docs},
        !.open = {h.path : h \in {g \in held : ~g.cleared}},
        !.model = planner.id]

\* A request, or an edit that sends a paused plan back to the calculations.
Calculate ==
    \E a \in Airframes, decision \in {"GO", "NO_GO"} :
        /\ \/ plan.stage \in {"none", "briefed"}
           \/ (plan.stage = "paused" /\ plan.aircraft = a)
        /\ plan' = Calculated(a, decision)
        /\ UNCHANGED <<source, corpus, run, deployment>>

Citing == plan.stage = "citing" /\ plan.next <= Len(Asked[plan.aircraft])

Field == Asked[plan.aircraft][plan.next]

\* Rows of one retrieval: the filter and the limit first, then the floor.
RowSets(query, a) ==
    {{c \in rows : SharesContent(query, c.words)} :
        rows \in Fetched(CandidateStatement(chunks, a, None))}

\* retrieve for one field, on what is committed by then.  The query is embedded
\* only when there is a row to compare it with.
CiteField ==
    /\ Citing
    /\ \E rows \in RowSets(Query[Field], plan.aircraft) :
          LET comparable == Comparable(rows, planner.id)
              first == FirstEvidence(Query[Field], rows, planner)
          IN  /\ comparable = {} \/ Embeds(planner)
              /\ \E found \in IF first = {} THEN {{}} ELSE {{c} : c \in first} :
                    plan' = [plan EXCEPT
                        !.next = @ + 1,
                        !.citations = @ \cup {[field |-> Field, chunk |-> c] : c \in found},
                        !.compared = @ \cup {<<c.computed, Computes(planner)>> :
                                          c \in {d \in comparable : d.length = planner.dimension}}]
    /\ UNCHANGED <<source, corpus, run, deployment>>

\* Mutant: a retrieval that fails is taken for one that found nothing.
CitingFailsUnnoticed ==
    /\ Citing
    /\ planner.kind = "http"
    /\ \E rows \in RowSets(Query[Field], plan.aircraft) :
          Comparable(rows, planner.id) # {}
    /\ plan' = [plan EXCEPT !.next = @ + 1]
    /\ UNCHANGED <<source, corpus, run, deployment>>

\* A SuasError of any retrieval: every citation found so far is given up.
CitingFails ==
    /\ Citing
    /\ planner.kind = "http"
    /\ \E rows \in RowSets(Query[Field], plan.aircraft) :
          Comparable(rows, planner.id) # {}
    /\ plan' = [plan EXCEPT !.stage = "paused", !.citations = {}, !.status = "unavailable"]
    /\ UNCHANGED <<source, corpus, run, deployment>>

CiteLimits ==
    /\ plan.stage = "citing"
    /\ ~Citing
    /\ plan' = [plan EXCEPT
           !.stage = "paused",
           !.status = IF plan.citations = {} THEN "unconfirmed" ELSE "confirmed"]
    /\ UNCHANGED <<source, corpus, run, deployment>>

SupportingNumbers ==
    CalcNumbers \cup UNION {Numbers[cited.chunk.text] : cited \in plan.citations}

\* The report node, once the operator has confirmed.
Brief ==
    /\ plan.stage = "paused"
    /\ \E prose \in Prose :
          plan' = [plan EXCEPT
              !.stage = "briefed",
              !.brief = VetProse(prose, plan.decision, SupportingNumbers)]
    /\ UNCHANGED <<source, corpus, run, deployment>>

\* No key configured, or the call raised ReportGenerationError.
BriefWithoutModel ==
    /\ plan.stage = "paused"
    /\ plan' = [plan EXCEPT !.stage = "briefed", !.brief = FallbackReport]
    /\ UNCHANGED <<source, corpus, run, deployment>>

-----------------------------------------------------------------------------
(* People and the platform *)

\* A reviewed commit that adds or replaces a document together with its sha256.
Commit(p, file) ==
    /\ <<disk[p], manifest[p]>> # <<file, file>>
    /\ disk' = [disk EXCEPT ![p] = file]
    /\ manifest' = [manifest EXCEPT ![p] = file]
    /\ UNCHANGED <<corpus, run, deployment, plan>>

\* A file changed, or put there, without its manifest.
Overwrite(p, file) ==
    /\ disk[p] # file
    /\ disk' = [disk EXCEPT ![p] = file]
    /\ UNCHANGED <<manifest, corpus, run, deployment, plan>>

\* The embedding service is redeployed with another model.
Redeploy(s) ==
    /\ service # s
    /\ service' = s
    /\ UNCHANGED <<source, corpus, run, ingester, planner, plan>>

\* SUAS_EMBEDDING_* of one of the two processes is changed.
Reconfigure(e) ==
    /\ \/ (ingester # e /\ ingester' = e /\ run = Idle /\ UNCHANGED planner)
       \/ (planner # e /\ planner' = e /\ plan.stage # "citing" /\ UNCHANGED ingester)
    /\ UNCHANGED <<source, corpus, run, service, plan>>

-----------------------------------------------------------------------------
(* Specification *)

Init ==
    /\ disk = Checkout
    /\ manifest = Checkout
    /\ docs = {} /\ chunks = {} /\ held = {}
    /\ run = Idle
    /\ ingester \in Embedders
    /\ planner \in Embedders
    /\ service \in Services
    /\ plan = NoPlan

IngestStep ==
    \/ StartRun
    \/ SkipUnlisted
    \/ IngestDocument
    \/ RunDies
    \/ EmbeddingCallFails

PlanStep ==
    \/ Calculate
    \/ CiteField
    \/ CitingFails
    \/ CiteLimits
    \/ Brief
    \/ BriefWithoutModel

PeopleStep ==
    \/ \E h \in held : Clear(h)
    \/ \E c \in Commits : Commit(c[1], c[2])
    \/ \E c \in Overwrites : Overwrite(c[1], c[2])
    \/ \E s \in Services : Redeploy(s)
    \/ \E e \in Embedders : Reconfigure(e)

Next == IngestStep \/ PlanStep \/ PeopleStep

Spec == Init /\ [][Next]_vars

-----------------------------------------------------------------------------
(* Types *)

MaybeAirframe == Airframes \cup {None}

DocumentRows == [path : Paths, sha256 : Files, airframe : MaybeAirframe]

ChunkRows ==
    [path : Paths, id : Paths \X Nat, text : Paragraphs,
     words : {Words[t] : t \in Paragraphs}, airframe : MaybeAirframe,
     field : {Listing[p].field : p \in Paths}, model : {e.id : e \in Embedders},
     length : {e.dimension : e \in Embedders},
     computed : {e.id : e \in Embedders} \cup Services]

HeldRows ==
    [path : Paths, at : Nat, text : Paragraphs, airframe : MaybeAirframe, cleared : BOOLEAN]

Briefs ==
    [by : {"none", "narrative_unavailable", "template", "llm"},
     prose : Prose \cup {Silent}, violations : BOOLEAN]

Plans ==
    [stage : {"none", "citing", "paused", "briefed"}, aircraft : MaybeAirframe,
     decision : {"GO", "NO_GO"}, blocked : BOOLEAN, next : Nat \ {0},
     citations : SUBSET [field : DOMAIN Query, chunk : ChunkRows],
     status : {"none", "unavailable", "unconfirmed", "confirmed"}, brief : Briefs,
     stored : SUBSET Paths, open : SUBSET Paths, model : {e.id : e \in Embedders} \cup {None},
     compared : SUBSET (({e.id : e \in Embedders} \cup Services)
                        \X ({e.id : e \in Embedders} \cup Services))]

\* Every row, copy and cursor is of its kind; the run's cursor is on a path.
TypeOK ==
    /\ disk \in [Paths -> Files \cup {None}]
    /\ manifest \in [Paths -> Files \cup {None}]
    /\ docs \subseteq DocumentRows
    /\ chunks \subseteq ChunkRows
    /\ held \subseteq HeldRows
    /\ run = Idle \/ run \in [next : Paths, entries : [Paths -> Files \cup {None}]]
    /\ ingester \in Embedders
    /\ planner \in Embedders
    /\ service \in Services
    /\ plan \in Plans

-----------------------------------------------------------------------------
(* Properties *)

\* A document is stored whole or not at all, whichever error ends the script:
\* each paragraph that is not page furniture is either evidence or held back
\* with the document it came from, and neither exists without that document.
\* (screening.py: "Quarantine, never drop"; one commit in ingest_document.)
EveryParagraphAccountedFor ==
    /\ \A d \in docs :
          {Text[d.sha256][i] : i \in Split(d.sha256)} =
              {c.text : c \in {e \in chunks : e.path = d.path}}
              \cup {h.text : h \in {g \in held : g.path = d.path}}
    /\ \A r \in chunks \cup held : \E d \in docs : d.path = r.path

OwnChunks == {c \in chunks : c.airframe = plan.aircraft}

\* Whatever an operator is shown comes from the calculator or from screened text
\* about the aircraft of the plan: every citation, and every number with a unit
\* in a published brief, which also never speaks of going when the decision is
\* against it, and is called a model's if and only if a model wrote it.  (retrieve,
\* _screen_document, _vet_prose and report_source together.)
OperatorReadsOwnScreenedText ==
    /\ \A cited \in plan.citations :
          /\ cited.chunk \in OwnChunks
          /\ cited.chunk.text \notin Tripping
    /\ \A l \in plan.brief.prose.states :
          Supported(l, CalcNumbers \cup UNION {Numbers[c.text] : c \in OwnChunks})
    /\ plan.brief.prose.go => (plan.decision = "GO")
    /\ (ReportSource(plan.brief) = "model") <=> (plan.brief.by = "llm")

\* An assessment is barred from operational mode if it comes to cite a document
\* that had a paragraph awaiting review when it was computed, though the citing
\* is done later, after runs of the ingest and clearances.
\* (has_open_quarantine in the calculations node against retrieve in cite_limits.)
GateSeesWhatIsCited ==
    \A cited \in plan.citations : (cited.chunk.path \in plan.open) => plan.blocked

\* A row that answers the question of a field: it is of the model the plan embeds
\* with and shares a subject with the question.
Answers(f, c) == c.model = plan.model /\ SharesContent(Query[f], c.words)

\* A field is left without a citation, and the status is not "unavailable", only
\* if no row of the plan's own model that was stored about the aircraft when the
\* plan was computed answers the question; or if there are so many rows that do
\* not that they may be all that a statement with a limit and no order returns.
\* What rows of another model are worth is left open: retrieve.py says they are
\* "excluded rather than scored", and the code scores their words.
AbstainsOnlyWithoutEvidence ==
    plan.status \in {"confirmed", "unconfirmed"} =>
        \A i \in DOMAIN Asked[plan.aircraft] :
            LET f == Asked[plan.aircraft][i]
            IN  \/ \E cited \in plan.citations : cited.field = f
                \/ \A c \in OwnChunks : (c.path \in plan.stored) => ~Answers(f, c)
                \/ Cardinality({c \in OwnChunks : ~Answers(f, c)}) >= RowLimit

\* No two models behind the service share a width, and no two embedders that are
\* configured with one model differ in kind.
ToldApart ==
    /\ \A s, u \in Services : (Width[s] = Width[u]) => (s = u)
    /\ \A e, f \in Embedders : (e.id = f.id) => (e.kind = f.kind)

\* Two vectors are compared only if one model computed both, however the service
\* and the two processes are reconfigured, provided that the models behind the
\* service are told apart by what is looked at.  (retrieve.py: "Vectors are only
\* compared within one model"; the service's own model_id is not looked at.)
ComparedWithinOneModel ==
    ToldApart => \A pair \in plan.compared : pair[1] = pair[2]

-----------------------------------------------------------------------------
(* A document that is replaced *)

IngestFairness == WF_vars(StartRun) /\ WF_vars(SkipUnlisted \/ IngestDocument \/ RunDies)

IngestSpec == Spec /\ IngestFairness

\* docs/ops.md: "replace the document from the manufacturer, update its sha256 in
\* corpus/manifest.json and re-ingest": once that is done for good, and the
\* ingest is run again and again, the corpus holds the new document.
RevisedDocumentArrives ==
    \A p \in Paths, file \in Files :
        (<>[](disk[p] = file /\ manifest[p] = file))
            => <>(\E d \in docs : d.path = p /\ d.sha256 = file)
=============================================================================
