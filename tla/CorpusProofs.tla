---------------------------- MODULE CorpusProofs -----------------------------
(***************************************************************************)
(* What an operator is shown was screened, is about the aircraft of the    *)
(* plan, and is known to the gate, for any corpus, any plan and any        *)
(* deployment; a stored document is stored whole; and vectors are compared *)
(* within one model as far as the code tells models apart.                 *)
(***************************************************************************)
EXTENDS Corpus, FiniteSetTheorems, FunctionTheorems, TLAPS

-----------------------------------------------------------------------------
(* The inductive invariant *)

\* A row is about the airframe its document is listed with, and what was screened
\* out is no evidence.
RowsInv ==
    /\ \A c \in chunks : c.airframe = Listing[c.path].airframe /\ c.text \notin Tripping
    /\ \A h \in held : h.airframe = Listing[h.path].airframe

\* Citations are stored chunks about the aircraft of the plan.
CitedInv == \A cited \in plan.citations : cited.chunk \in chunks /\ cited.chunk.airframe = plan.aircraft

\* A document with a paragraph awaiting review blocks every plan for its airframe.
BlockedInv ==
    \A p \in plan.open :
        (Listing[p].airframe = plan.aircraft /\ plan.aircraft # None) => plan.blocked

\* Every plan that has got as far as to cite anything is for an airframe.
AircraftInv == plan.citations # {} \/ plan.stage = "citing" => plan.aircraft \in Airframes

\* The brief passed the seal with numbers of stored chunks.
BriefInv ==
    /\ \A l \in plan.brief.prose.states :
          Supported(l, CalcNumbers \cup UNION {Numbers[c.text] : c \in OwnChunks})
    /\ plan.brief.prose.go => (plan.decision = "GO")
    /\ (ReportSource(plan.brief) = "model") <=> (plan.brief.by = "llm")

\* What may have computed a vector that is recorded under an id with a length.
MayCompute(computed, id, length) ==
    \E e \in Embedders :
        /\ e.id = id /\ e.dimension = length
        /\ \/ e.kind = "hashing" /\ computed = e.id
           \/ e.kind # "hashing" /\ computed \in Services /\ Width[computed] = length

VectorInv ==
    /\ \A c \in chunks : MayCompute(c.computed, c.model, c.length)
    /\ \A pair \in plan.compared :
          \E e \in Embedders :
              MayCompute(pair[1], e.id, e.dimension) /\ MayCompute(pair[2], e.id, e.dimension)

IInv ==
    /\ TypeOK
    /\ EveryParagraphAccountedFor
    /\ RowsInv
    /\ CitedInv
    /\ AircraftInv
    /\ BlockedInv
    /\ BriefInv
    /\ VectorInv

-----------------------------------------------------------------------------
(* Lemmas on the operators *)

\* Screening takes paragraphs out of those that were split, and leaves no others.
LEMMA CleanParts ==
    ASSUME NEW file \in Files
    PROVE  /\ Clean(file) \subseteq Split(file)
           /\ Split(file) \subseteq DOMAIN Text[file]
           /\ \A i \in Split(file) : i \in Nat /\ Text[file][i] \in Paragraphs
           /\ \A i \in Clean(file) : Text[file][i] \notin Tripping
<1>1. Text[file] \in Seq(Paragraphs)
  BY CorpusAssumption
<1>2. \A i \in DOMAIN Text[file] : i \in Nat /\ Text[file][i] \in Paragraphs
  BY <1>1
<1> QED BY <1>2 DEF Clean, Split, IsClean

\* The index of a chunk counts finitely many paragraphs.
LEMMA ChunkIndex ==
    ASSUME NEW file \in Files, NEW i
    PROVE  Cardinality({j \in Clean(file) : j < i}) \in Nat
<1>1. Text[file] \in Seq(Paragraphs)
  BY CorpusAssumption
<1>2. DOMAIN Text[file] = 1..Len(Text[file]) /\ Len(Text[file]) \in Nat
  BY <1>1
<1>3. IsFiniteSet(DOMAIN Text[file])
  <2>1. 1 \in Int /\ Len(Text[file]) \in Int
    BY <1>2
  <2>2. IsFiniteSet(1..Len(Text[file]))
    BY <2>1, FS_Interval, Zenon
  <2> QED BY <1>2, <2>2
<1>4. {j \in Clean(file) : j < i} \subseteq DOMAIN Text[file]
  BY CleanParts
<1>5. IsFiniteSet({j \in Clean(file) : j < i})
  BY <1>3, <1>4, FS_Subset
<1> QED BY <1>5, FS_CardinalityType

\* Rows a document brings are rows.
LEMMA NewRows ==
    ASSUME NEW p \in Paths, NEW file \in Files, NEW e \in Embedders, service \in Services
    PROVE  /\ DocumentRow(p, file) \in DocumentRows
           /\ \A i \in Clean(file) : ChunkRow(p, file, i, e) \in ChunkRows
           /\ \A i \in Split(file) \ Clean(file) : HeldRow(p, file, i) \in HeldRows
<1>1. Listing[p].airframe \in MaybeAirframe
  BY CorpusAssumption DEF MaybeAirframe
<1>2. DocumentRow(p, file) \in DocumentRows
  BY <1>1 DEF DocumentRow, DocumentRows
<1>3. ASSUME NEW i \in Clean(file) PROVE ChunkRow(p, file, i, e) \in ChunkRows
  <2>1. Text[file][i] \in Paragraphs
    BY CleanParts
  <2>2. ChunkIdentifier(p, file, i) \in Paths \X Nat
    BY ChunkIndex DEF ChunkIdentifier
  <2>3. Computes(e) \in {f.id : f \in Embedders} \cup Services
    BY DEF Computes
  <2> QED BY <1>1, <2>1, <2>2, <2>3 DEF ChunkRow, ChunkRows
<1>4. ASSUME NEW i \in Split(file) \ Clean(file) PROVE HeldRow(p, file, i) \in HeldRows
  BY <1>1, CleanParts DEF HeldRow, HeldRows
<1> QED BY <1>2, <1>3, <1>4

\* A statement's rows, and what one retrieval compares and returns, are rows of the
\* airframe that was asked for.
LEMMA RetrievedRows ==
    ASSUME NEW query, NEW a, NEW rows \in RowSets(query, a)
    PROVE  \A c \in rows : c \in chunks /\ c.airframe = a
<1>1. PICK fetched \in Fetched(CandidateStatement(chunks, a, None)) :
          rows = {c \in fetched : SharesContent(query, c.words)}
  BY DEF RowSets
<1>2. fetched \subseteq CandidateStatement(chunks, a, None)
  BY DEF Fetched
<1> QED BY <1>1, <1>2 DEF CandidateStatement

LEMMA FirstEvidenceIsOfRows ==
    ASSUME NEW query, NEW rows, NEW e
    PROVE  FirstEvidence(query, rows, e) \subseteq rows
<1> DEFINE lexical == [c \in rows |-> LexicalScore(query, c.words)]
           legs == VectorLegs(Comparable(rows, e.id), e.dimension)
<1>1. ASSUME NEW vector \in legs, NEW order \in Orders(rows)
      PROVE  Winners(lexical, vector, order) \subseteq rows
  <2>1. DOMAIN vector = Comparable(rows, e.id)
    BY DEF VectorLegs
  <2>2. Scored(vector) \subseteq rows
    BY <2>1 DEF Scored, Comparable
  <2>3. Scored(lexical) \subseteq rows
    BY DEF Scored
  <2>4. Winners(lexical, vector, order) \subseteq Scored(lexical) \cup Scored(vector)
    BY DEF Winners
  <2> QED BY <2>2, <2>3, <2>4
<1>2. FirstEvidence(query, rows, e)
          = UNION {Winners(lexical, vector, order) : vector \in legs, order \in Orders(rows)}
  BY DEF FirstEvidence
<1> HIDE DEF lexical, legs
<1> QED BY <1>1, <1>2

\* More to go by supports no fewer literals.
LEMMA SupportedByMore ==
    ASSUME NEW l, NEW some, NEW more, some \subseteq more, Supported(l, some)
    PROVE  Supported(l, more)
BY DEF Supported

-----------------------------------------------------------------------------
(* The beginning *)

\* Prose that code wrote says nothing by itself and is attributed to no model.
LEMMA DeterministicIsSilent ==
    ASSUME NEW by \in {"none", "narrative_unavailable", "template"}
    PROVE  /\ Deterministic(by) \in Briefs
           /\ Deterministic(by).prose.states = {}
           /\ Deterministic(by).prose.go = FALSE
           /\ Deterministic(by).by = by
BY DEF Deterministic, Silent, Briefs

LEMMA NoBriefIsSilent ==
    /\ NoBrief \in Briefs
    /\ NoBrief.prose.states = {}
    /\ NoBrief.prose.go = FALSE
    /\ NoBrief.by = "none"
    /\ ReportSource(NoBrief) = "deterministic"
BY DeterministicIsSilent DEF NoBrief, ReportSource

LEMMA NoPlanFields ==
    /\ NoPlan \in Plans
    /\ NoPlan.citations = {} /\ NoPlan.open = {} /\ NoPlan.compared = {}
    /\ NoPlan.stage = "none" /\ NoPlan.brief = NoBrief
BY NoBriefIsSilent DEF NoPlan, Plans, MaybeAirframe

LEMMA InitIInv == Init => IInv
<1> SUFFICES ASSUME Init PROVE IInv
  OBVIOUS
<1> USE DEF Init
<1>1. TypeOK
  BY NoPlanFields, CorpusAssumption DEF TypeOK
<1>2. EveryParagraphAccountedFor /\ RowsInv
  BY DEF EveryParagraphAccountedFor, RowsInv
<1>3. CitedInv /\ AircraftInv /\ BlockedInv
  BY NoPlanFields DEF CitedInv, AircraftInv, BlockedInv
<1>4. BriefInv
  BY NoPlanFields, NoBriefIsSilent DEF BriefInv
<1>5. VectorInv
  BY NoPlanFields DEF VectorInv
<1> QED BY <1>1, <1>2, <1>3, <1>4, <1>5 DEF IInv

-----------------------------------------------------------------------------
(* The ingest *)

LEMMA Cursor ==
    ASSUME TypeOK, run # Idle
    PROVE  run.next \in Paths /\ run.entries \in [Paths -> Files \cup {None}]
BY DEF TypeOK

LEMMA CursorMoves ==
    ASSUME TypeOK, run # Idle, Advance
    PROVE  run' = Idle \/ run' \in [next : Paths, entries : [Paths -> Files \cup {None}]]
<1>1. run \in [next : Paths, entries : [Paths -> Files \cup {None}]]
  BY DEF TypeOK
<1>2. CASE run.next = Cardinality(Paths)
  BY <1>2 DEF Advance
<1>3. CASE run.next # Cardinality(Paths)
  <2>1. run.next + 1 \in Paths
    BY <1>1, <1>3, CorpusAssumption
  <2> QED BY <1>1, <1>3, <2>1 DEF Advance
<1> QED BY <1>2, <1>3

\* What is read is what the manifest says, so it is a file.
LEMMA ReadFile ==
    ASSUME TypeOK, run # Idle, run.entries[run.next] # None, Verified(run.next)
    PROVE  run.next \in Paths /\ disk[run.next] \in Files
BY Cursor DEF TypeOK, Verified

\* What computes a vector for an embedder that embeds.
LEMMA ComputesMay ==
    ASSUME NEW e \in Embedders, service \in Services, Embeds(e)
    PROVE  MayCompute(Computes(e), e.id, e.dimension)
BY DEF Embeds, Computes, Served, MayCompute

LEMMA IngestTypes ==
    ASSUME TypeOK, IngestDocument
    PROVE  docs' \subseteq DocumentRows /\ chunks' \subseteq ChunkRows /\ held' \subseteq HeldRows
<1>1. run.next \in Paths /\ disk[run.next] \in Files
  BY ReadFile DEF IngestDocument
<1>2. ingester \in Embedders /\ service \in Services
  BY DEF TypeOK
<1> QED BY <1>1, <1>2, NewRows DEF IngestDocument, TypeOK

LEMMA IngestKeepsParagraphs ==
    ASSUME TypeOK, EveryParagraphAccountedFor, IngestDocument
    PROVE  EveryParagraphAccountedFor'
<1> DEFINE p == run.next
           file == disk[run.next]
           newChunks == {ChunkRow(p, file, i, ingester) : i \in Clean(file)}
           newHeld == {HeldRow(p, file, i) : i \in Split(file) \ Clean(file)}
           new == DocumentRow(p, file)
<1>1. p \in Paths /\ file \in Files
  BY ReadFile DEF IngestDocument
<1>2. /\ docs' = docs \cup {new}
      /\ chunks' = chunks \cup newChunks
      /\ held' = held \cup newHeld
      /\ \A d \in docs : d.path # p
  BY DEF IngestDocument, Unique
<1>3. \A c \in newChunks : c.path = p
  BY DEF ChunkRow
<1>4. \A h \in newHeld : h.path = p
  BY DEF HeldRow
<1>5. new.path = p /\ new.sha256 = file
  BY DEF DocumentRow
<1>6. \A r \in chunks \cup held : r.path # p
  BY <1>2 DEF EveryParagraphAccountedFor
<1>7. {c.text : c \in newChunks} = {Text[file][i] : i \in Clean(file)}
  <2>1. \A i : ChunkRow(p, file, i, ingester).text = Text[file][i]
    BY DEF ChunkRow
  <2> QED BY <2>1
<1>8. {h.text : h \in newHeld} = {Text[file][i] : i \in Split(file) \ Clean(file)}
  <2>1. \A i : HeldRow(p, file, i).text = Text[file][i]
    BY DEF HeldRow
  <2> QED BY <2>1
<1>9. {Text[file][i] : i \in Split(file)}
          = {c.text : c \in newChunks} \cup {h.text : h \in newHeld}
  BY <1>1, <1>7, <1>8, CleanParts
<1>10. {e \in chunks' : e.path = p} = newChunks /\ {g \in held' : g.path = p} = newHeld
  BY <1>2, <1>3, <1>4, <1>6
<1>11. ASSUME NEW d \in docs
       PROVE  /\ {e \in chunks' : e.path = d.path} = {e \in chunks : e.path = d.path}
              /\ {g \in held' : g.path = d.path} = {g \in held : g.path = d.path}
  BY <1>2, <1>3, <1>4
<1>12. ASSUME NEW d \in docs'
       PROVE  {Text[d.sha256][i] : i \in Split(d.sha256)} =
                  {c.text : c \in {e \in chunks' : e.path = d.path}}
                  \cup {h.text : h \in {g \in held' : g.path = d.path}}
  <2>1. CASE d \in docs
    BY <2>1, <1>11 DEF EveryParagraphAccountedFor
  <2>2. CASE d = new
    <3>1. {e \in chunks' : e.path = d.path} = newChunks /\ {g \in held' : g.path = d.path} = newHeld
      BY <2>2, <1>5, <1>10
    <3>2. {Text[d.sha256][i] : i \in Split(d.sha256)} = {Text[file][i] : i \in Split(file)}
      BY <2>2, <1>5
    <3> HIDE DEF newChunks, newHeld
    <3> QED BY <3>1, <3>2, <1>9
  <2> QED BY <2>1, <2>2, <1>2
<1>13. \A r \in chunks' \cup held' : \E d \in docs' : d.path = r.path
  BY <1>2, <1>3, <1>4, <1>5 DEF EveryParagraphAccountedFor
<1> QED BY <1>12, <1>13 DEF EveryParagraphAccountedFor, Split

LEMMA ClearKeepsParagraphs ==
    ASSUME TypeOK, EveryParagraphAccountedFor, NEW h \in held, Clear(h)
    PROVE  EveryParagraphAccountedFor' /\ held' \subseteq HeldRows
<1> DEFINE done == [h EXCEPT !.cleared = TRUE]
<1>1. h \in HeldRows
  BY DEF TypeOK
<1>2. done \in HeldRows /\ done.text = h.text /\ done.path = h.path /\ done.airframe = h.airframe
  BY <1>1 DEF HeldRows
<1>3. held' = (held \ {h}) \cup {done} /\ UNCHANGED <<docs, chunks>>
  BY DEF Clear
<1> HIDE DEF done
<1>4. ASSUME NEW d \in docs
      PROVE  {g.text : g \in {k \in held' : k.path = d.path}}
                 = {g.text : g \in {k \in held : k.path = d.path}}
  BY <1>2, <1>3
<1>5. \A r \in held' : \E g \in held : g.path = r.path
  BY <1>2, <1>3
<1>6. \A d \in docs' :
          {Text[d.sha256][i] : i \in Split(d.sha256)} =
              {c.text : c \in {e \in chunks' : e.path = d.path}}
              \cup {k.text : k \in {g \in held' : g.path = d.path}}
  BY <1>3, <1>4 DEF EveryParagraphAccountedFor
<1>7. \A r \in chunks' \cup held' : \E d \in docs' : d.path = r.path
  BY <1>3, <1>5 DEF EveryParagraphAccountedFor
<1>8. EveryParagraphAccountedFor'
  BY <1>6, <1>7 DEF EveryParagraphAccountedFor, Split
<1>9. held' \subseteq HeldRows
  BY <1>2, <1>3 DEF TypeOK
<1> QED BY <1>8, <1>9

\* What any step does to the rows, on which everything else rests.
LEMMA CorpusStep ==
    ASSUME IInv, [Next]_vars
    PROVE  /\ EveryParagraphAccountedFor'
           /\ RowsInv'
           /\ chunks \subseteq chunks'
           /\ docs' \subseteq DocumentRows /\ chunks' \subseteq ChunkRows /\ held' \subseteq HeldRows
           /\ \A c \in chunks' : MayCompute(c.computed, c.model, c.length)
<1> USE DEF IInv
<1>1. CASE IngestDocument
  <2> DEFINE p == run.next
             file == disk[run.next]
  <2>1. p \in Paths /\ file \in Files /\ ingester \in Embedders /\ service \in Services
    BY <1>1, ReadFile DEF IngestDocument, TypeOK
  <2>2. /\ chunks' = chunks \cup {ChunkRow(p, file, i, ingester) : i \in Clean(file)}
        /\ held' = held \cup {HeldRow(p, file, i) : i \in Split(file) \ Clean(file)}
        /\ Clean(file) = {} \/ Embeds(ingester)
    BY <1>1 DEF IngestDocument
  <2>3. ASSUME NEW i \in Clean(file)
        PROVE  LET c == ChunkRow(p, file, i, ingester)
               IN  /\ c.airframe = Listing[c.path].airframe
                   /\ c.text \notin Tripping
                   /\ MayCompute(c.computed, c.model, c.length)
    <3>1. MayCompute(Computes(ingester), ingester.id, ingester.dimension)
      BY <2>1, <2>2, ComputesMay
    <3>2. Text[file][i] \notin Tripping
      BY <2>1, CleanParts
    <3> QED BY <3>1, <3>2 DEF ChunkRow
  <2>4. \A i : HeldRow(p, file, i).airframe = Listing[HeldRow(p, file, i).path].airframe
    BY DEF HeldRow
  <2>5. RowsInv'
    BY <2>2, <2>3, <2>4 DEF RowsInv
  <2>6. \A c \in chunks' : MayCompute(c.computed, c.model, c.length)
    BY <2>2, <2>3 DEF VectorInv
  <2> QED BY <1>1, <2>2, <2>5, <2>6, IngestTypes, IngestKeepsParagraphs
<1>2. ASSUME NEW h \in held, Clear(h)
      PROVE  /\ EveryParagraphAccountedFor'
             /\ RowsInv'
             /\ chunks \subseteq chunks'
             /\ docs' \subseteq DocumentRows /\ chunks' \subseteq ChunkRows /\ held' \subseteq HeldRows
             /\ \A c \in chunks' : MayCompute(c.computed, c.model, c.length)
  <2>1. UNCHANGED <<docs, chunks>>
    BY <1>2 DEF Clear
  <2>2. RowsInv'
    <3>1. h \in HeldRows
      BY DEF TypeOK
    <3>2. [h EXCEPT !.cleared = TRUE].airframe = h.airframe /\ [h EXCEPT !.cleared = TRUE].path = h.path
      BY <3>1 DEF HeldRows
    <3> QED BY <1>2, <2>1, <3>2 DEF Clear, RowsInv
  <2> QED BY <1>2, <2>1, <2>2, ClearKeepsParagraphs DEF TypeOK, VectorInv
<1>3. ASSUME UNCHANGED corpus
      PROVE  /\ EveryParagraphAccountedFor'
             /\ RowsInv'
             /\ chunks \subseteq chunks'
             /\ docs' \subseteq DocumentRows /\ chunks' \subseteq ChunkRows /\ held' \subseteq HeldRows
             /\ \A c \in chunks' : MayCompute(c.computed, c.model, c.length)
  BY <1>3 DEF corpus, EveryParagraphAccountedFor, Split, RowsInv, TypeOK, VectorInv
<1>4. IngestDocument \/ (\E h \in held : Clear(h)) \/ UNCHANGED corpus
  BY DEF Next, IngestStep, StartRun, SkipUnlisted, RunDies, EmbeddingCallFails,
         PlanStep, Calculate, CiteField, CitingFails, CiteLimits, Brief, BriefWithoutModel,
         PeopleStep, Commit, Overwrite, Redeploy, Reconfigure, vars, corpus
<1> QED BY <1>1, <1>2, <1>3, <1>4

-----------------------------------------------------------------------------
(* The plan *)

PlanInv ==
    /\ plan \in Plans
    /\ CitedInv
    /\ AircraftInv
    /\ BlockedInv
    /\ BriefInv
    /\ \A pair \in plan.compared :
          \E e \in Embedders :
              MayCompute(pair[1], e.id, e.dimension) /\ MayCompute(pair[2], e.id, e.dimension)

LEMMA PlanInvHolds == IInv => PlanInv
BY DEF IInv, PlanInv, TypeOK, VectorInv

\* Rows are only added, so a plan that is left alone keeps what it rests on.
LEMMA PlanKept ==
    ASSUME IInv, plan' = plan, chunks \subseteq chunks'
    PROVE  PlanInv'
<1> USE PlanInvHolds DEF PlanInv
<1>1. CitedInv' /\ AircraftInv' /\ BlockedInv'
  BY DEF CitedInv, AircraftInv, BlockedInv
<1>2. UNION {Numbers[c.text] : c \in OwnChunks} \subseteq UNION {Numbers[c.text] : c \in OwnChunks'}
  BY DEF OwnChunks
<1> DEFINE numbers == CalcNumbers \cup UNION {Numbers[c.text] : c \in OwnChunks}
           later == CalcNumbers \cup UNION {Numbers[c.text] : c \in OwnChunks'}
<1>3. ASSUME NEW l \in plan.brief.prose.states
      PROVE  Supported(l, later)
  <2>1. numbers \subseteq later
    BY <1>2
  <2>2. Supported(l, numbers)
    BY DEF BriefInv
  <2> HIDE DEF numbers, later
  <2> QED BY <2>1, <2>2, SupportedByMore
<1>4. BriefInv'
  BY <1>3 DEF BriefInv, Supported
<1> QED BY <1>1, <1>4

LEMMA CalculateKeeps ==
    ASSUME IInv, Calculate
    PROVE  PlanInv'
<1>1. PICK a \in Airframes, decision \in {"GO", "NO_GO"} :
          plan' = Calculated(a, decision) /\ UNCHANGED corpus
  BY DEF Calculate
<1>2. /\ plan'.stage = "citing" /\ plan'.aircraft = a /\ plan'.decision = decision
      /\ plan'.citations = {} /\ plan'.compared = {} /\ plan'.brief = NoBrief
      /\ plan'.blocked = HasOpenQuarantine(a)
      /\ plan'.open = {h.path : h \in {g \in held : ~g.cleared}}
  BY <1>1 DEF Calculated, NoPlan
<1>3. plan' \in Plans
  <2>1. {d.path : d \in docs} \subseteq Paths
    BY DEF IInv, TypeOK, DocumentRows
  <2>2. {h.path : h \in {g \in held : ~g.cleared}} \subseteq Paths
    BY DEF IInv, TypeOK, HeldRows
  <2>3. HasOpenQuarantine(a) \in BOOLEAN
    BY DEF HasOpenQuarantine
  <2>4. plan' = [stage |-> "citing", aircraft |-> a, decision |-> decision,
                 blocked |-> HasOpenQuarantine(a), next |-> 1, citations |-> {}, status |-> "none",
                 brief |-> NoBrief, stored |-> {d.path : d \in docs},
                 open |-> {h.path : h \in {g \in held : ~g.cleared}},
                 model |-> planner.id, compared |-> {}]
    BY <1>1 DEF Calculated, NoPlan
  <2>5. planner.id \in {e.id : e \in Embedders}
    BY DEF IInv, TypeOK
  <2> QED BY <2>1, <2>2, <2>3, <2>4, <2>5, NoBriefIsSilent DEF Plans, MaybeAirframe
<1>4. CitedInv' /\ AircraftInv'
  BY <1>2 DEF CitedInv, AircraftInv
<1>5. BlockedInv'
  <2> SUFFICES ASSUME NEW p \in plan'.open, Listing[p].airframe = a, a # None
               PROVE  HasOpenQuarantine(a)
    BY <1>2 DEF BlockedInv
  <2>1. PICK h \in held : ~h.cleared /\ h.path = p
    BY <1>2
  <2>2. h.airframe = a
    BY <2>1 DEF IInv, RowsInv
  <2> QED BY <2>1, <2>2 DEF HasOpenQuarantine, OpenQuarantineConfigs
<1>6. BriefInv'
  BY <1>2, NoBriefIsSilent DEF BriefInv, ReportSource
<1> QED BY <1>2, <1>3, <1>4, <1>5, <1>6 DEF PlanInv

LEMMA CiteFieldKeeps ==
    ASSUME IInv, CiteField
    PROVE  PlanInv'
<1> USE PlanInvHolds DEF PlanInv
<1> DEFINE comparable(rows) == Comparable(rows, planner.id)
           alike(rows) == {d \in comparable(rows) : d.length = planner.dimension}
<1>1. PICK rows \in RowSets(Query[Field], plan.aircraft) :
          /\ comparable(rows) = {} \/ Embeds(planner)
          /\ \E found \in IF FirstEvidence(Query[Field], rows, planner) = {}
                          THEN {{}}
                          ELSE {{c} : c \in FirstEvidence(Query[Field], rows, planner)} :
                plan' = [plan EXCEPT
                    !.next = @ + 1,
                    !.citations = @ \cup {[field |-> Field, chunk |-> c] : c \in found},
                    !.compared = @ \cup {<<c.computed, Computes(planner)>> : c \in alike(rows)}]
  BY DEF CiteField
<1>2. PICK found \in SUBSET rows :
          plan' = [plan EXCEPT
              !.next = @ + 1,
              !.citations = @ \cup {[field |-> Field, chunk |-> c] : c \in found},
              !.compared = @ \cup {<<c.computed, Computes(planner)>> : c \in alike(rows)}]
  <2>1. FirstEvidence(Query[Field], rows, planner) \subseteq rows
    BY FirstEvidenceIsOfRows
  <2> QED BY <1>1, <2>1
<1>3. \A c \in rows : c \in chunks /\ c.airframe = plan.aircraft
  BY RetrievedRows
<1>4. chunks' = chunks /\ planner \in Embedders /\ service \in Services /\ chunks \subseteq ChunkRows
  BY DEF CiteField, corpus, IInv, TypeOK
<1>5. /\ plan'.citations = plan.citations \cup {[field |-> Field, chunk |-> c] : c \in found}
      /\ plan'.compared = plan.compared \cup {<<c.computed, Computes(planner)>> : c \in alike(rows)}
      /\ plan'.next = plan.next + 1
      /\ plan'.stage = plan.stage /\ plan'.aircraft = plan.aircraft /\ plan'.decision = plan.decision
      /\ plan'.open = plan.open /\ plan'.blocked = plan.blocked /\ plan'.brief = plan.brief
      /\ plan'.status = plan.status /\ plan'.stored = plan.stored
  BY <1>2 DEF Plans
<1>6. Field \in DOMAIN Query
  <2>1. plan.aircraft \in Airframes
    BY DEF CiteField, Citing, IInv, AircraftInv
  <2>2. Asked[plan.aircraft] \in Seq(DOMAIN Query)
    BY <2>1, CorpusAssumption
  <2>3. plan.next \in 1..Len(Asked[plan.aircraft])
    BY <2>2 DEF CiteField, Citing, Plans
  <2> QED BY <2>2, <2>3 DEF Field
<1>7. plan' \in Plans
  <2>1. plan'.citations \subseteq [field : DOMAIN Query, chunk : ChunkRows]
    BY <1>3, <1>4, <1>5, <1>6 DEF Plans
  <2>2. Computes(planner) \in {e.id : e \in Embedders} \cup Services
    BY <1>4 DEF Computes
  <2>3. \A c \in alike(rows) : c.computed \in {e.id : e \in Embedders} \cup Services
    BY <1>3, <1>4 DEF Comparable, ChunkRows
  <2>4. plan'.compared \subseteq ({e.id : e \in Embedders} \cup Services)
                                    \X ({e.id : e \in Embedders} \cup Services)
    BY <1>5, <2>2, <2>3 DEF Plans
  <2>5. plan'.next \in Nat \ {0}
    BY <1>5 DEF Plans
  <2> QED BY <1>2, <2>1, <2>4, <2>5, <1>5 DEF Plans
<1>8. CitedInv'
  BY <1>3, <1>4, <1>5 DEF CitedInv
<1>9. AircraftInv'
  BY <1>5 DEF AircraftInv, IInv, CiteField, Citing
<1>10. BlockedInv'
  BY <1>5 DEF BlockedInv
<1>11. BriefInv'
  <2>1. OwnChunks' = OwnChunks
    BY <1>4, <1>5 DEF OwnChunks
  <2> QED BY <1>5, <2>1 DEF BriefInv
<1>12. ASSUME NEW c \in alike(rows)
       PROVE  /\ MayCompute(c.computed, planner.id, planner.dimension)
              /\ MayCompute(Computes(planner), planner.id, planner.dimension)
  <2>1. c \in rows /\ c.model = planner.id /\ c.length = planner.dimension /\ Embeds(planner)
    BY <1>1 DEF Comparable
  <2>2. MayCompute(c.computed, c.model, c.length)
    BY <1>3, <2>1 DEF IInv, VectorInv
  <2> QED BY <1>4, <2>1, <2>2, ComputesMay
<1>13. \A pair \in plan'.compared :
          \E e \in Embedders :
              MayCompute(pair[1], e.id, e.dimension) /\ MayCompute(pair[2], e.id, e.dimension)
  BY <1>4, <1>5, <1>12
<1> HIDE DEF PlanInv
<1> QED BY <1>7, <1>8, <1>9, <1>10, <1>11, <1>13 DEF PlanInv, MayCompute

LEMMA CitingEnds ==
    ASSUME IInv, CitingFails \/ CiteLimits
    PROVE  PlanInv'
<1> USE PlanInvHolds DEF PlanInv
<1>1. /\ plan' = [plan EXCEPT !.stage = "paused", !.citations = plan'.citations,
                              !.status = plan'.status]
      /\ plan'.citations \in {plan.citations, {}}
      /\ plan'.status \in {"unavailable", "unconfirmed", "confirmed"}
      /\ UNCHANGED <<chunks, held>>
  <2>1. CASE CitingFails
    BY <2>1 DEF CitingFails, corpus, Plans
  <2>2. CASE CiteLimits
    BY <2>2 DEF CiteLimits, corpus, Plans
  <2> QED BY <2>1, <2>2
<1>2. /\ plan'.stage = "paused" /\ plan'.aircraft = plan.aircraft /\ plan'.decision = plan.decision
      /\ plan'.open = plan.open /\ plan'.blocked = plan.blocked /\ plan'.brief = plan.brief
      /\ plan'.compared = plan.compared
  BY <1>1 DEF Plans
<1>3. plan' \in Plans
  BY <1>1 DEF Plans
<1>4. CitedInv' /\ BlockedInv'
  BY <1>1, <1>2 DEF CitedInv, BlockedInv
<1>5. AircraftInv'
  BY <1>1, <1>2 DEF AircraftInv, IInv
<1>6. BriefInv'
  <2>1. OwnChunks' = OwnChunks
    BY <1>1, <1>2 DEF OwnChunks
  <2> QED BY <1>2, <2>1 DEF BriefInv
<1> HIDE DEF PlanInv
<1> QED BY <1>2, <1>3, <1>4, <1>5, <1>6 DEF PlanInv, MayCompute

\* What passes the seal is silent, or says nothing the numbers do not.
LEMMA VettedProse ==
    ASSUME NEW prose \in Prose, NEW decision, NEW numbers
    PROVE  LET brief == VetProse(prose, decision, numbers)
           IN  /\ brief \in Briefs
               /\ \A l \in brief.prose.states : Supported(l, numbers)
               /\ brief.prose.go => (decision = "GO")
               /\ (ReportSource(brief) = "model") <=> (brief.by = "llm")
<1> DEFINE brief == VetProse(prose, decision, numbers)
           withheld == Contradicts(prose, decision) \/ UnsupportedNumerics(prose, numbers) # {}
<1>1. CASE withheld
  <2>1. brief = [by |-> "template", prose |-> Silent, violations |-> TRUE]
    BY <1>1 DEF VetProse, Deterministic
  <2> QED BY <2>1 DEF Silent, Briefs, ReportSource
<1>2. CASE ~withheld
  <2>1. brief = [by |-> "llm", prose |-> prose, violations |-> FALSE]
    BY <1>2 DEF VetProse
  <2>2. \A l \in prose.states : Supported(l, numbers)
    BY <1>2 DEF UnsupportedNumerics
  <2>3. prose.go => (decision = "GO")
    BY <1>2 DEF Contradicts
  <2> QED BY <2>1, <2>2, <2>3 DEF Briefs, ReportSource
<1> QED BY <1>1, <1>2

LEMMA BriefKeeps ==
    ASSUME IInv, Brief \/ BriefWithoutModel
    PROVE  PlanInv'
<1> USE PlanInvHolds DEF PlanInv
<1> DEFINE own == CalcNumbers \cup UNION {Numbers[c.text] : c \in OwnChunks}
<1>1. PICK brief \in Briefs :
          /\ plan' = [plan EXCEPT !.stage = "briefed", !.brief = brief]
          /\ \A l \in brief.prose.states : Supported(l, own)
          /\ brief.prose.go => (plan.decision = "GO")
          /\ (ReportSource(brief) = "model") <=> (brief.by = "llm")
  <2>1. CASE Brief
    <3>1. PICK prose \in Prose :
              plan' = [plan EXCEPT !.stage = "briefed",
                                   !.brief = VetProse(prose, plan.decision, SupportingNumbers)]
      BY <2>1 DEF Brief
    <3>2. SupportingNumbers \subseteq own
      BY DEF SupportingNumbers, CitedInv, OwnChunks
    <3>3. /\ VetProse(prose, plan.decision, SupportingNumbers) \in Briefs
          /\ \A l \in VetProse(prose, plan.decision, SupportingNumbers).prose.states :
                Supported(l, SupportingNumbers)
          /\ VetProse(prose, plan.decision, SupportingNumbers).prose.go => (plan.decision = "GO")
          /\ (ReportSource(VetProse(prose, plan.decision, SupportingNumbers)) = "model")
                <=> (VetProse(prose, plan.decision, SupportingNumbers).by = "llm")
      BY VettedProse
    <3> HIDE DEF own
    <3> QED BY <3>1, <3>2, <3>3, SupportedByMore
  <2>2. CASE BriefWithoutModel
    <3>1. /\ FallbackReport \in Briefs
          /\ FallbackReport.prose.states = {} /\ FallbackReport.prose.go = FALSE
          /\ FallbackReport.by = "narrative_unavailable"
          /\ ReportSource(FallbackReport) = "deterministic"
      BY DeterministicIsSilent DEF FallbackReport, ReportSource
    <3> QED BY <2>2, <3>1 DEF BriefWithoutModel
  <2> QED BY <2>1, <2>2
<1>2. /\ plan' \in Plans
      /\ plan'.stage = "briefed" /\ plan'.aircraft = plan.aircraft /\ plan'.decision = plan.decision
      /\ plan'.open = plan.open /\ plan'.blocked = plan.blocked /\ plan'.brief = brief
      /\ plan'.compared = plan.compared /\ plan'.citations = plan.citations
  BY <1>1 DEF Plans
<1>3. UNCHANGED <<chunks, held>>
  BY DEF Brief, BriefWithoutModel, corpus
<1>4. CitedInv' /\ BlockedInv'
  BY <1>2, <1>3 DEF CitedInv, BlockedInv
<1>5. AircraftInv'
  BY <1>2 DEF AircraftInv, IInv
<1>6. BriefInv'
  <2>1. OwnChunks' = OwnChunks
    BY <1>2, <1>3 DEF OwnChunks
  <2> QED BY <1>1, <1>2, <2>1 DEF BriefInv
<1> HIDE DEF PlanInv
<1> QED BY <1>2, <1>4, <1>5, <1>6 DEF PlanInv, MayCompute

-----------------------------------------------------------------------------
(* Every step *)

LEMMA PlanInvStep ==
    ASSUME IInv, [Next]_vars
    PROVE  PlanInv'
<1>1. CASE PlanStep
  BY <1>1, CalculateKeeps, CiteFieldKeeps, CitingEnds, BriefKeeps DEF PlanStep
<1>2. CASE plan' = plan
  BY <1>2, CorpusStep, PlanKept
<1>3. PlanStep \/ plan' = plan
  BY DEF Next, IngestStep, StartRun, SkipUnlisted, IngestDocument, RunDies, EmbeddingCallFails,
         PeopleStep, Clear, Commit, Overwrite, Redeploy, Reconfigure, vars
<1> QED BY <1>1, <1>2, <1>3

\* The checkout, the script and the deployment.
LEMMA SurroundingsStep ==
    ASSUME TypeOK, [Next]_vars
    PROVE  /\ disk' \in [Paths -> Files \cup {None}]
           /\ manifest' \in [Paths -> Files \cup {None}]
           /\ run' = Idle \/ run' \in [next : Paths, entries : [Paths -> Files \cup {None}]]
           /\ ingester' \in Embedders /\ planner' \in Embedders /\ service' \in Services
<1>1. CASE IngestStep
  <2>1. UNCHANGED <<disk, manifest, ingester, planner, service>>
    BY <1>1 DEF IngestStep, StartRun, SkipUnlisted, IngestDocument, RunDies, EmbeddingCallFails,
                source, deployment
  <2>2. CASE StartRun
    <3>1. 1 \in Paths
      BY CorpusAssumption
    <3> QED BY <2>1, <2>2, <3>1 DEF StartRun, TypeOK
  <2>3. CASE run # Idle /\ Advance
    BY <2>1, <2>3, CursorMoves DEF TypeOK
  <2>4. CASE run' = Idle
    BY <2>1, <2>4 DEF TypeOK
  <2> QED BY <1>1, <2>2, <2>3, <2>4
           DEF IngestStep, SkipUnlisted, IngestDocument, RunDies, EmbeddingCallFails
<1>2. CASE PeopleStep
  <2>1. run' = run
    BY <1>2 DEF PeopleStep, Clear, Commit, Overwrite, Redeploy, Reconfigure
  <2>2. ASSUME NEW c \in Commits, Commit(c[1], c[2])
        PROVE  /\ disk' \in [Paths -> Files \cup {None}] /\ manifest' \in [Paths -> Files \cup {None}]
               /\ UNCHANGED deployment
    BY <2>2, CorpusAssumption DEF Commit, TypeOK
  <2>3. ASSUME NEW c \in Overwrites, Overwrite(c[1], c[2])
        PROVE  /\ disk' \in [Paths -> Files \cup {None}] /\ manifest' \in [Paths -> Files \cup {None}]
               /\ UNCHANGED deployment
    BY <2>3, CorpusAssumption DEF Overwrite, TypeOK
  <2>4. ASSUME NEW s \in Services, Redeploy(s)
        PROVE  UNCHANGED <<disk, manifest>> /\ ingester' = ingester /\ planner' = planner /\ service' = s
    BY <2>4 DEF Redeploy, source
  <2>5. ASSUME NEW e \in Embedders, Reconfigure(e)
        PROVE  /\ UNCHANGED <<disk, manifest>> /\ service' = service
               /\ ingester' \in {ingester, e} /\ planner' \in {planner, e}
    BY <2>5 DEF Reconfigure, source
  <2>6. ASSUME NEW h \in held, Clear(h)
        PROVE  UNCHANGED <<disk, manifest, ingester, planner, service>>
    BY <2>6 DEF Clear, source, deployment
  <2> QED BY <1>2, <2>1, <2>2, <2>3, <2>4, <2>5, <2>6 DEF PeopleStep, TypeOK, deployment
<1>3. CASE PlanStep \/ UNCHANGED vars
  <2>1. UNCHANGED <<disk, manifest, run, ingester, planner, service>>
    BY <1>3 DEF PlanStep, Calculate, CiteField, CitingFails, CiteLimits, Brief, BriefWithoutModel,
                vars, source, deployment
  <2> QED BY <2>1 DEF TypeOK, Idle
<1> QED BY <1>1, <1>2, <1>3 DEF Next

LEMMA IInvStep == IInv /\ [Next]_vars => IInv'
<1> SUFFICES ASSUME IInv, [Next]_vars PROVE IInv'
  OBVIOUS
<1>1. PlanInv'
  BY PlanInvStep
<1>2. TypeOK'
  BY <1>1, CorpusStep, SurroundingsStep DEF IInv, TypeOK, PlanInv, Idle
<1>3. VectorInv'
  BY <1>1, CorpusStep DEF VectorInv, PlanInv
<1> QED BY <1>1, <1>2, <1>3, CorpusStep DEF IInv, PlanInv

LEMMA IInvAlways == Spec => []IInv
BY InitIInv, IInvStep, PTL DEF Spec

-----------------------------------------------------------------------------
(* Retrieval finds something wherever there is something *)

\* How well a chunk is placed is a positive fraction.
Fractions == (Nat \ {0}) \X (Nat \ {0})

LEMMA ProductGrows ==
    ASSUME NEW m \in Nat, NEW n \in Nat, NEW k \in Nat \ {0}
    PROVE  (m > n) <=> (m * k > n * k)
OBVIOUS

LEMMA ProductPositive ==
    ASSUME NEW m \in Nat \ {0}, NEW n \in Nat \ {0}
    PROVE  m * n \in Nat \ {0}
OBVIOUS

LEMMA PrecedesTransitive ==
    ASSUME NEW f \in Fractions, NEW g \in Fractions, NEW h \in Fractions,
           Precedes(f, g), Precedes(g, h)
    PROVE  Precedes(f, h)
<1>1. PICK a \in Nat \ {0}, b \in Nat \ {0} : f = <<a, b>>
  BY DEF Fractions
<1>2. PICK c \in Nat \ {0}, d \in Nat \ {0} : g = <<c, d>>
  BY DEF Fractions
<1>3. PICK x \in Nat \ {0}, y \in Nat \ {0} : h = <<x, y>>
  BY DEF Fractions
<1>4. a * d > c * b /\ c * y > x * d
  BY <1>1, <1>2, <1>3 DEF Precedes
<1>5. a * d \in Nat /\ c * b \in Nat /\ c * y \in Nat /\ x * d \in Nat /\ a * y \in Nat /\ x * b \in Nat
  BY ProductPositive
<1>6. (a * d) * y > (c * b) * y /\ (c * y) * b > (x * d) * b
  BY <1>4, <1>5, ProductGrows
<1>7. (c * b) * y = (c * y) * b /\ (a * d) * y = (a * y) * d /\ (x * d) * b = (x * b) * d
  OBVIOUS
<1>8. (a * d) * y \in Nat /\ (c * b) * y \in Nat /\ (x * d) * b \in Nat
  BY <1>5, ProductPositive
<1>9. (a * y) * d > (x * b) * d
  BY <1>6, <1>7, <1>8
<1>10. a * y > x * b
  BY <1>5, <1>9, ProductGrows
<1> QED BY <1>1, <1>3, <1>10 DEF Precedes

\* Among finitely many placed chunks there is one that no other precedes.  A least
\* set without one would hold a member and, strictly inside, all that precede it.
LEMMA BestExists ==
    ASSUME NEW all, IsFiniteSet(all), all # {}, NEW fused \in [all -> Fractions]
    PROVE  \E c \in all : \A d \in all : ~Precedes(fused[d], fused[c])
<1> DEFINE Before(s, c) == {d \in s : Precedes(fused[d], fused[c])}
           bad == {s \in SUBSET all : s # {} /\ \A c \in s : Before(s, c) # {}}
<1> SUFFICES ASSUME \A c \in all : \E d \in all : Precedes(fused[d], fused[c])
             PROVE  FALSE
  OBVIOUS
<1>1. bad # {}
  <2>1. \A c \in all : Before(all, c) # {}
    OBVIOUS
  <2>2. all \in bad
    BY <2>1
  <2> QED BY <2>2
<1>2. IsWellFoundedOn(StrictSubsetOrdering(all), SUBSET all)
  BY FS_StrictSubsetOrderingWellFounded, FS_FiniteSubsetsOfFinite
<1>3. bad \subseteq SUBSET all
  OBVIOUS
<1>4. \E s \in bad : \A t \in bad : ~(<<t, s>> \in StrictSubsetOrdering(all))
  <2> HIDE DEF bad
  <2> QED BY <1>1, <1>2, <1>3, WFMin
<1>5. PICK s \in bad : \A t \in bad : ~(<<t, s>> \in StrictSubsetOrdering(all))
  BY <1>4
<1>6. PICK c \in s : Before(s, c) # {}
  OBVIOUS
<1> DEFINE t == Before(s, c)
<1>7. t \subseteq s /\ t \in SUBSET all /\ s \in SUBSET all
  OBVIOUS
<1>8. c \notin t
  <2>1. fused[c] \in Fractions
    BY <1>7
  <2>2. ~Precedes(fused[c], fused[c])
    BY <2>1 DEF Precedes, Fractions
  <2> QED BY <2>2
<1>9. \A d \in t : Before(t, d) # {}
  <2> SUFFICES ASSUME NEW d \in t PROVE \E e \in t : Precedes(fused[e], fused[d])
    OBVIOUS
  <2>1. d \in s /\ Precedes(fused[d], fused[c])
    OBVIOUS
  <2>2. PICK e \in s : Precedes(fused[e], fused[d])
    BY <2>1
  <2>3. fused[c] \in Fractions /\ fused[d] \in Fractions /\ fused[e] \in Fractions
    BY <1>7
  <2>4. Precedes(fused[e], fused[c])
    BY <2>1, <2>2, <2>3, PrecedesTransitive
  <2> QED BY <2>2, <2>4
<1>10. t \in bad
  BY <1>6, <1>7, <1>9
<1>11. <<t, s>> \in StrictSubsetOrdering(all)
  BY <1>6, <1>7, <1>8 DEF StrictSubsetOrdering
<1> QED BY <1>5, <1>10, <1>11

LEMMA RankPositive ==
    ASSUME NEW S, IsFiniteSet(S), NEW score \in [S -> Int], NEW order, NEW c
    PROVE  RrfK + Rank(score, order, c) \in Nat \ {0}
<1> DEFINE ahead == {d \in DOMAIN score :
                        \/ score[d] > score[c]
                        \/ (score[d] = score[c] /\ order[d] < order[c])}
<1>1. ahead \in SUBSET S
  OBVIOUS
<1>2. Cardinality(ahead) \in Nat
  <2> HIDE DEF ahead
  <2> QED BY <1>1, FS_Subset, FS_CardinalityType
<1>3. Rank(score, order, c) = 1 + Cardinality(ahead)
  BY DEF Rank
<1> HIDE DEF ahead
<1> QED BY <1>2, <1>3, RetrievalAssumption

LEMMA FusedFraction ==
    ASSUME NEW S, IsFiniteSet(S), NEW lexical \in [S -> Int],
           NEW T, IsFiniteSet(T), NEW vector \in [T -> Int],
           NEW order, NEW c \in Scored(lexical) \cup Scored(vector)
    PROVE  Fused(lexical, vector, order, c) \in Fractions
<1> DEFINE l == RrfK + Rank(lexical, order, c)
           v == RrfK + Rank(vector, order, c)
<1>1. l \in Nat \ {0} /\ v \in Nat \ {0}
  BY RankPositive
<1>2. l * v \in Nat \ {0} /\ l + v \in Nat \ {0}
  <2> HIDE DEF l, v
  <2> QED BY <1>1, ProductPositive
<1>3. Fused(lexical, vector, order, c) =
          CASE c \in Scored(lexical) /\ c \in Scored(vector) -> <<l + v, l * v>>
            [] c \in Scored(lexical) /\ c \notin Scored(vector) -> <<1, l>>
            [] c \notin Scored(lexical) /\ c \in Scored(vector) -> <<1, v>>
  BY DEF Fused
<1> HIDE DEF l, v
<1> QED BY <1>1, <1>2, <1>3 DEF Fractions

\* A text that shares content with the question scores on the words alone.
LEMMA SharingScores ==
    ASSUME NEW query, IsFiniteSet(query), NEW words, SharesContent(query, words)
    PROVE  LexicalScore(query, words) \in Nat /\ LexicalScore(query, words) > 0
<1>1. query \cap words # {}
  BY DEF SharesContent, ContentTerms, SubjectTerms
<1>2. IsFiniteSet(query \cap words)
  BY FS_Subset
<1>3. Cardinality(query \cap words) \in Nat /\ Cardinality(query \cap words) # 0
  BY <1>1, <1>2, FS_CardinalityType, FS_EmptySet
<1> QED BY <1>3 DEF LexicalScore

\* The database returns finitely many rows in some order, and vectors may say nothing.
LEMMA SomeOrder ==
    ASSUME NEW rows, IsFiniteSet(rows)
    PROVE  Orders(rows) # {}
<1>1. Cardinality(rows) \in Nat /\ ExistsBijection(1..Cardinality(rows), rows)
  BY FS_CardinalityType
<1>2. ExistsBijection(rows, 1..Cardinality(rows))
  BY <1>1, Fun_ExistsBijSymmetric
<1>3. PICK f \in Bijection(rows, 1..Cardinality(rows)) : TRUE
  BY <1>2 DEF ExistsBijection
<1>4. f \in Orders(rows)
  BY <1>3 DEF Bijection, Injection, Orders, IsInjective
<1> QED BY <1>4

LEMMA SilentVectors ==
    ASSUME NEW comparable, NEW length
    PROVE  [c \in comparable |-> 0] \in VectorLegs(comparable, length)
BY RetrievalAssumption DEF VectorLegs

\* retrieve returns something if any row shares content with the question, whatever
\* the vectors say and whatever order the rows come in.
LEMMA EvidenceIsFound ==
    ASSUME NEW query, IsFiniteSet(query), NEW rows, IsFiniteSet(rows), rows # {},
           \A c \in rows : SharesContent(query, c.words), NEW e
    PROVE  FirstEvidence(query, rows, e) # {}
<1> DEFINE lexical == [c \in rows |-> LexicalScore(query, c.words)]
           comparable == Comparable(rows, e.id)
           vector == [c \in comparable |-> 0]
           all == Scored(lexical) \cup Scored(vector)
<1>1. PICK order \in Orders(rows) : TRUE
  BY SomeOrder
<1>2. vector \in VectorLegs(comparable, e.dimension)
  BY SilentVectors
<1>3. lexical \in [rows -> Int] /\ Scored(lexical) = rows
  <2>1. \A c \in rows : LexicalScore(query, c.words) \in Nat /\ LexicalScore(query, c.words) > 0
    BY SharingScores
  <2> QED BY <2>1 DEF Scored
<1>4. vector \in [comparable -> Int] /\ comparable \in SUBSET rows
  BY DEF Comparable
<1>5. IsFiniteSet(comparable)
  <2> HIDE DEF comparable
  <2> QED BY <1>4, FS_Subset
<1>6. all = rows
  <2>1. Scored(vector) \subseteq comparable
    BY DEF Scored
  <2> HIDE DEF lexical, vector, comparable
  <2> QED BY <1>3, <1>4, <2>1
<1> DEFINE fused == [c \in all |-> Fused(lexical, vector, order, c)]
<1>7. fused \in [all -> Fractions]
  <2> HIDE DEF lexical, vector, comparable
  <2> QED BY <1>3, <1>4, <1>5, FusedFraction
<1>8. \E c \in all : \A d \in all : ~Precedes(fused[d], fused[c])
  <2> HIDE DEF all, fused
  <2> QED BY <1>6, <1>7, BestExists
<1>9. Winners(lexical, vector, order) # {}
  BY <1>8 DEF Winners
<1> HIDE DEF lexical, vector, comparable
<1> QED BY <1>1, <1>2, <1>9 DEF FirstEvidence, lexical, comparable

-----------------------------------------------------------------------------
(* Every question is answered as far as the corpus answers it *)

\* What a plan remembers as stored is stored for good, under a path nothing is
\* added to any more.
StoredInv == plan.stored \subseteq {d.path : d \in docs}

\* The rows of the aircraft that do not answer the question of a field.
Beside(f) == {c \in OwnChunks : ~Answers(f, c)}

\* A question has a citation, or no evidence was there when the plan was computed,
\* or what is beside it fills a statement's limit.
Answered(i) ==
    LET f == Asked[plan.aircraft][i]
    IN  \/ \E cited \in plan.citations : cited.field = f
        \/ \A c \in OwnChunks : (c.path \in plan.stored) => ~Answers(f, c)
        \/ Cardinality(Beside(f)) >= RowLimit

\* The questions that the plan has got past are answered.
AnsweredInv ==
    (plan.aircraft \in Airframes /\ plan.status # "unavailable")
        => \A i \in DOMAIN Asked[plan.aircraft] : i < plan.next => Answered(i)

\* A plan has no verdict while it is citing, and past all questions when it has one.
FinishedInv ==
    /\ plan.stage = "citing" => plan.status = "none"
    /\ plan.status \in {"unconfirmed", "confirmed"} =>
           plan.aircraft \in Airframes /\ plan.next > Len(Asked[plan.aircraft])

AInv ==
    /\ IInv
    /\ IsFiniteSet(chunks)
    /\ StoredInv
    /\ AnsweredInv
    /\ FinishedInv

\* A finite set's part is no larger.
LEMMA SmallerPart ==
    ASSUME NEW T, IsFiniteSet(T), NEW S \in SUBSET T
    PROVE  Cardinality(S) <= Cardinality(T) /\ Cardinality(S) \in Nat /\ Cardinality(T) \in Nat
<1>1. IsFiniteSet(S) /\ Cardinality(S) <= Cardinality(T)
  BY FS_Subset
<1> QED BY <1>1, FS_CardinalityType

\* A statement whose limit the rows beside the question do not fill returns one that
\* answers it, if there is one.
LEMMA AnswerIsFetched ==
    ASSUME NEW f, IsFiniteSet(OwnChunks), ~(Cardinality(Beside(f)) >= RowLimit),
           NEW c \in OwnChunks, Answers(f, c),
           NEW rows \in RowSets(Query[f], plan.aircraft)
    PROVE  rows # {}
<1>1. CandidateStatement(chunks, plan.aircraft, None) = OwnChunks
  BY DEF CandidateStatement, OwnChunks
<1>2. PICK fetched \in Fetched(OwnChunks) : rows = {d \in fetched : SharesContent(Query[f], d.words)}
  BY <1>1 DEF RowSets
<1>3. CASE fetched = OwnChunks
  BY <1>2, <1>3 DEF Answers
<1>4. CASE fetched # OwnChunks
  <2>1. fetched \in SUBSET OwnChunks /\ Cardinality(fetched) = RowLimit
    BY <1>4 DEF Fetched
  <2>2. SUFFICES ASSUME rows = {} PROVE FALSE
    OBVIOUS
  <2>3. fetched \in SUBSET Beside(f)
    BY <1>2, <2>1, <2>2 DEF Beside, Answers
  <2>4. Beside(f) \in SUBSET OwnChunks
    BY DEF Beside
  <2>5. IsFiniteSet(Beside(f))
    BY <2>4, FS_Subset
  <2>6. Cardinality(fetched) <= Cardinality(Beside(f)) /\ Cardinality(Beside(f)) \in Nat
    BY <2>3, <2>5, SmallerPart
  <2> QED BY <2>1, <2>6, RetrievalAssumption
<1> QED BY <1>3, <1>4

\* What a retrieval returns of stored rows shares the question's subject.
LEMMA RowsShareSubject ==
    ASSUME NEW query, NEW rows \in RowSets(query, plan.aircraft)
    PROVE  rows \in SUBSET OwnChunks /\ \A c \in rows : SharesContent(query, c.words)
<1>1. CandidateStatement(chunks, plan.aircraft, None) = OwnChunks
  BY DEF CandidateStatement, OwnChunks
<1>2. PICK fetched \in Fetched(OwnChunks) : rows = {c \in fetched : SharesContent(query, c.words)}
  BY <1>1 DEF RowSets
<1>3. fetched \subseteq OwnChunks
  BY <1>2 DEF Fetched
<1> QED BY <1>2, <1>3

LEMMA FiniteRows ==
    ASSUME AInv, [Next]_vars
    PROVE  IsFiniteSet(chunks')
<1>1. CASE IngestDocument
  <2> DEFINE p == run.next
             file == disk[run.next]
             row == [i \in Clean(file) |-> ChunkRow(p, file, i, ingester)]
             new == {ChunkRow(p, file, i, ingester) : i \in Clean(file)}
  <2>1. file \in Files
    BY <1>1, ReadFile DEF IngestDocument, AInv, IInv
  <2>2. IsFiniteSet(Clean(file))
    <3>1. DOMAIN Text[file] = 1..Len(Text[file]) /\ Len(Text[file]) \in Nat
      BY <2>1, CorpusAssumption
    <3>2. IsFiniteSet(DOMAIN Text[file])
      <4>1. 1 \in Int /\ Len(Text[file]) \in Int
        BY <3>1
      <4>2. IsFiniteSet(1..Len(Text[file]))
        BY <4>1, FS_Interval, Zenon
      <4> QED BY <3>1, <4>2
    <3>3. Clean(file) \subseteq DOMAIN Text[file]
      BY <2>1, CleanParts
    <3> QED BY <3>2, <3>3, FS_Subset
  <2>3. row \in Surjection(Clean(file), new)
    BY DEF Surjection
  <2>4. IsFiniteSet(new)
    <3> HIDE DEF row, new
    <3> QED BY <2>2, <2>3, FS_Surjection
  <2>5. chunks' = chunks \cup new
    BY <1>1 DEF IngestDocument
  <2> HIDE DEF new
  <2> QED BY <2>4, <2>5, FS_Union DEF AInv
<1>2. CASE chunks' = chunks
  BY <1>2 DEF AInv
<1> QED BY <1>1, <1>2
        DEF Next, IngestStep, StartRun, SkipUnlisted, RunDies, EmbeddingCallFails,
            PlanStep, Calculate, CiteField, CitingFails, CiteLimits, Brief, BriefWithoutModel,
            PeopleStep, Clear, Commit, Overwrite, Redeploy, Reconfigure, vars, corpus

\* Rows that are new belong to documents that are, and no document is taken away.
LEMMA NewRowsAreElsewhere ==
    ASSUME AInv, [Next]_vars
    PROVE  /\ \A c \in chunks' \ chunks : c.path \notin {d.path : d \in docs}
           /\ docs \subseteq docs'
<1>1. CASE IngestDocument
  <2>1. \A d \in docs : d.path # run.next
    BY <1>1 DEF IngestDocument, Unique
  <2>2. \A c \in chunks' \ chunks : c.path = run.next
    BY <1>1 DEF IngestDocument, ChunkRow
  <2>3. docs \subseteq docs'
    BY <1>1 DEF IngestDocument
  <2> QED BY <2>1, <2>2, <2>3
<1>2. CASE UNCHANGED <<docs, chunks>>
  BY <1>2
<1> QED BY <1>1, <1>2
        DEF Next, IngestStep, StartRun, SkipUnlisted, RunDies, EmbeddingCallFails,
            PlanStep, Calculate, CiteField, CitingFails, CiteLimits, Brief, BriefWithoutModel,
            PeopleStep, Clear, Commit, Overwrite, Redeploy, Reconfigure, vars, corpus

\* A plan that is left alone, or goes on to its brief, stays answered.
LEMMA AnsweredKept ==
    ASSUME AInv, [Next]_vars,
           plan'.aircraft = plan.aircraft, plan'.stored = plan.stored, plan'.next = plan.next,
           plan'.model = plan.model,
           plan'.status = "unavailable" \/ plan'.citations = plan.citations,
           plan.status = "unavailable" => plan'.status = "unavailable"
    PROVE  AnsweredInv'
<1> SUFFICES ASSUME plan.aircraft \in Airframes, plan'.status # "unavailable",
                    NEW i \in DOMAIN Asked[plan.aircraft], i < plan.next
             PROVE  Answered(i)'
  BY DEF AnsweredInv
<1> DEFINE f == Asked[plan.aircraft][i]
<1>1. IsFiniteSet(chunks') /\ chunks \subseteq chunks'
  BY FiniteRows, CorpusStep DEF AInv
<1>2. OwnChunks \in SUBSET OwnChunks' /\ OwnChunks' \in SUBSET chunks'
  BY <1>1 DEF OwnChunks
<1>3. IsFiniteSet(OwnChunks')
  BY <1>1, <1>2, FS_Subset
<1>4. \A c : Answers(f, c)' <=> Answers(f, c)
  BY DEF Answers
<1>5. Beside(f) \in SUBSET Beside(f)' /\ Beside(f)' \in SUBSET OwnChunks'
  BY <1>2, <1>4 DEF Beside
<1>6. IsFiniteSet(Beside(f)')
  BY <1>3, <1>5, FS_Subset
<1>7. /\ Cardinality(Beside(f)) <= Cardinality(Beside(f)')
      /\ Cardinality(Beside(f)) \in Nat /\ Cardinality(Beside(f)') \in Nat
  BY <1>5, <1>6, SmallerPart
<1>8. Answered(i)
  BY DEF AInv, AnsweredInv
<1>9. \A c \in OwnChunks' : c.path \in plan.stored => c \in OwnChunks
  BY NewRowsAreElsewhere DEF AInv, StoredInv, OwnChunks
<1>10. CASE Cardinality(Beside(f)) >= RowLimit
  <2>1. Cardinality(Beside(f)') >= RowLimit
    BY <1>7, <1>10, RetrievalAssumption
  <2> QED BY <2>1 DEF Answered
<1>11. CASE \E cited \in plan.citations : cited.field = f
  BY <1>11 DEF Answered
<1>12. CASE \A c \in OwnChunks : (c.path \in plan.stored) => ~Answers(f, c)
  BY <1>4, <1>9, <1>12 DEF Answered
<1> QED BY <1>8, <1>10, <1>11, <1>12 DEF Answered

LEMMA AnsweredByCiting ==
    ASSUME AInv, CiteField
    PROVE  AnsweredInv' /\ StoredInv' /\ FinishedInv'
<1>1. PICK rows \in RowSets(Query[Field], plan.aircraft) :
          \E found \in IF FirstEvidence(Query[Field], rows, planner) = {}
                       THEN {{}}
                       ELSE {{c} : c \in FirstEvidence(Query[Field], rows, planner)} :
                plan' = [plan EXCEPT
                    !.next = @ + 1,
                    !.citations = @ \cup {[field |-> Field, chunk |-> c] : c \in found},
                    !.compared = @ \cup {<<c.computed, Computes(planner)>> :
                        c \in {d \in Comparable(rows, planner.id) : d.length = planner.dimension}}]
  BY DEF CiteField
<1>2. PICK found \in IF FirstEvidence(Query[Field], rows, planner) = {}
                     THEN {{}}
                     ELSE {{c} : c \in FirstEvidence(Query[Field], rows, planner)} :
          /\ plan'.citations = plan.citations \cup {[field |-> Field, chunk |-> c] : c \in found}
          /\ plan'.next = plan.next + 1
          /\ plan'.aircraft = plan.aircraft /\ plan'.stored = plan.stored
          /\ plan'.model = plan.model
          /\ plan'.status = plan.status /\ plan.stage = "citing" /\ plan'.stage = "citing"
  <2> DEFINE choices == IF FirstEvidence(Query[Field], rows, planner) = {}
                        THEN {{}}
                        ELSE {{c} : c \in FirstEvidence(Query[Field], rows, planner)}
             compared(c) == <<c.computed, Computes(planner)>>
             alike == {d \in Comparable(rows, planner.id) : d.length = planner.dimension}
  <2>1. plan \in Plans
    BY DEF AInv, IInv, TypeOK
  <2>2. PICK found \in choices :
            plan' = [plan EXCEPT
                !.next = @ + 1,
                !.citations = @ \cup {[field |-> Field, chunk |-> c] : c \in found},
                !.compared = @ \cup {compared(c) : c \in alike}]
    BY <1>1
  <2> HIDE DEF choices, compared, alike
  <2>3. plan.stage = "citing"
    BY DEF CiteField, Citing
  <2>4. /\ plan'.citations = plan.citations \cup {[field |-> Field, chunk |-> c] : c \in found}
        /\ plan'.next = plan.next + 1
        /\ plan'.aircraft = plan.aircraft /\ plan'.stored = plan.stored
        /\ plan'.model = plan.model
        /\ plan'.status = plan.status /\ plan'.stage = plan.stage
    BY <2>1, <2>2 DEF Plans
  <2> QED BY <2>3, <2>4 DEF choices
<1>3. UNCHANGED <<docs, chunks>>
  BY DEF CiteField, corpus
<1>4. plan.aircraft \in Airframes
  BY <1>2 DEF AInv, IInv, AircraftInv
<1>5. /\ Asked[plan.aircraft] \in Seq(DOMAIN Query)
      /\ plan.next \in 1..Len(Asked[plan.aircraft])
  <2>1. Asked[plan.aircraft] \in Seq(DOMAIN Query)
    BY <1>4, CorpusAssumption
  <2> QED BY <2>1 DEF CiteField, Citing, AInv, IInv, TypeOK, Plans
<1>6. Field \in DOMAIN Query
  BY <1>5 DEF Field
<1>7. IsFiniteSet(Query[Field])
  BY <1>6, CorpusAssumption
<1>8. OwnChunks' = OwnChunks /\ (\A f, c : Answers(f, c)' <=> Answers(f, c))
      /\ \A f : Beside(f)' = Beside(f)
  BY <1>2, <1>3 DEF OwnChunks, Answers, Beside
<1>9. ASSUME NEW i, i = plan.next
      PROVE  Answered(i)'
  <2>1. Field = Asked[plan'.aircraft][i]
    BY <1>2, <1>9 DEF Field
  <2>2. CASE \A c \in OwnChunks : ~Answers(Field, c)
    BY <1>8, <2>1, <2>2 DEF Answered
  <2>3. CASE Cardinality(Beside(Field)) >= RowLimit
    BY <1>8, <2>1, <2>3 DEF Answered
  <2>4. CASE ~(Cardinality(Beside(Field)) >= RowLimit) /\ \E c \in OwnChunks : Answers(Field, c)
    <3>1. IsFiniteSet(OwnChunks)
      <4>1. OwnChunks \in SUBSET chunks
        BY DEF OwnChunks
      <4> QED BY <4>1, FS_Subset DEF AInv
    <3>2. rows # {}
      BY <2>4, <3>1, AnswerIsFetched
    <3>3. rows \in SUBSET OwnChunks /\ \A c \in rows : SharesContent(Query[Field], c.words)
      BY RowsShareSubject
    <3>4. IsFiniteSet(rows)
      BY <3>1, <3>3, FS_Subset
    <3>5. FirstEvidence(Query[Field], rows, planner) # {}
      BY <1>7, <3>2, <3>3, <3>4, EvidenceIsFound
    <3>6. PICK c \in FirstEvidence(Query[Field], rows, planner) : found = {c}
      BY <1>2, <3>5
    <3>7. [field |-> Field, chunk |-> c] \in plan'.citations
      BY <1>2, <3>6
    <3>8. \E cited \in plan'.citations : cited.field = Field
      BY <3>7
    <3> QED BY <2>1, <3>8 DEF Answered
  <2> QED BY <2>2, <2>3, <2>4
<1>10. AnsweredInv'
  <2> SUFFICES ASSUME plan.status # "unavailable",
                      NEW i \in DOMAIN Asked[plan.aircraft], i < plan.next + 1
               PROVE  Answered(i)'
    BY <1>2, <1>8 DEF AnsweredInv
  <2>1. CASE i = plan.next
    BY <2>1, <1>9
  <2>2. CASE i # plan.next
    <3>1. i < plan.next
      BY <2>2, <1>5
    <3>2. Answered(i)
      BY <3>1, <1>4 DEF AInv, AnsweredInv
    <3>3. plan.citations \subseteq plan'.citations
      BY <1>2
    <3> QED BY <1>2, <1>8, <3>2, <3>3 DEF Answered
  <2> QED BY <2>1, <2>2
<1>11. StoredInv'
  BY <1>2, <1>3 DEF AInv, StoredInv
<1>12. FinishedInv'
  BY <1>2, <1>5 DEF AInv, FinishedInv
<1> QED BY <1>10, <1>11, <1>12

LEMMA AnsweredStep ==
    ASSUME AInv, [Next]_vars
    PROVE  AnsweredInv' /\ StoredInv' /\ FinishedInv'
<1>1. CASE Calculate
  <2>1. PICK a \in Airframes, decision \in {"GO", "NO_GO"} :
            plan' = Calculated(a, decision) /\ UNCHANGED corpus
    BY <1>1 DEF Calculate
  <2>2. plan'.aircraft = a /\ plan'.next = 1 /\ plan'.status = "none"
        /\ plan'.stored = {d.path : d \in docs} /\ docs' = docs
    BY <2>1 DEF Calculated, NoPlan, corpus
  <2>3. AnsweredInv'
    <3>1. DOMAIN Asked[a] \subseteq Nat \ {0}
      <4>1. Asked[a] \in Seq(DOMAIN Query)
        BY CorpusAssumption
      <4> QED BY <4>1
    <3>2. \A i \in DOMAIN Asked[a] : ~(i < 1)
      BY <3>1
    <3> QED BY <2>2, <3>2 DEF AnsweredInv
  <2>4. StoredInv' /\ FinishedInv'
    BY <2>2 DEF StoredInv, FinishedInv
  <2> QED BY <2>3, <2>4
<1>2. CASE CiteField
  BY <1>2, AnsweredByCiting
<1>3. CASE CitingFails \/ CiteLimits \/ Brief \/ BriefWithoutModel \/ plan' = plan
  <2>1. plan \in Plans
    BY DEF AInv, IInv, TypeOK
  <2>2. /\ plan'.aircraft = plan.aircraft /\ plan'.stored = plan.stored /\ plan'.next = plan.next
        /\ plan'.model = plan.model
        /\ plan'.status = "unavailable" \/ plan'.citations = plan.citations
    BY <1>3, <2>1 DEF CitingFails, CiteLimits, Brief, BriefWithoutModel, Plans
  <2>3. plan.status = "unavailable" => plan'.status = "unavailable"
    BY <1>3, <2>1 DEF CitingFails, Citing, CiteLimits, Brief, BriefWithoutModel, Plans,
                      AInv, FinishedInv
  <2>4. AnsweredInv'
    BY <2>2, <2>3, AnsweredKept
  <2>5. StoredInv'
    BY <2>2, NewRowsAreElsewhere DEF AInv, StoredInv
  <2>6. FinishedInv'
    <3>1. CASE CiteLimits
      <4>1. plan.aircraft \in Airframes /\ plan.next \in Nat /\ ~Citing
        BY <2>1, <3>1 DEF CiteLimits, AInv, IInv, AircraftInv, Plans
      <4>2. Asked[plan.aircraft] \in Seq(DOMAIN Query)
        BY <4>1, CorpusAssumption
      <4>3. plan.next > Len(Asked[plan.aircraft])
        BY <3>1, <4>1, <4>2 DEF CiteLimits, Citing
      <4>4. plan'.stage = "paused"
        BY <2>1, <3>1 DEF CiteLimits, Plans
      <4> QED BY <2>2, <4>1, <4>3, <4>4 DEF FinishedInv
    <3>2. CASE CitingFails
      <4>1. plan'.stage = "paused" /\ plan'.status = "unavailable"
        BY <2>1, <3>2 DEF CitingFails, Plans
      <4> QED BY <4>1 DEF FinishedInv
    <3>3. CASE Brief \/ BriefWithoutModel \/ plan' = plan
      <4>1. plan'.stage \in {"briefed", plan.stage} /\ plan'.status = plan.status
        BY <2>1, <3>3 DEF Brief, BriefWithoutModel, Plans
      <4> QED BY <2>2, <4>1 DEF AInv, FinishedInv
    <3> QED BY <1>3, <3>1, <3>2, <3>3
  <2> QED BY <2>4, <2>5, <2>6
<1>4. PlanStep \/ plan' = plan
  BY DEF Next, IngestStep, StartRun, SkipUnlisted, IngestDocument, RunDies, EmbeddingCallFails,
         PeopleStep, Clear, Commit, Overwrite, Redeploy, Reconfigure, vars
<1> QED BY <1>1, <1>2, <1>3, <1>4 DEF PlanStep

LEMMA AInvAlways == Spec => []AInv
<1>1. Init => AInv
  <2> SUFFICES ASSUME Init PROVE AInv
    OBVIOUS
  <2>1. plan.stored = {} /\ plan.status = "none" /\ plan.aircraft = None /\ plan.stage = "none"
    BY DEF Init, NoPlan
  <2>2. IsFiniteSet(chunks)
    BY FS_EmptySet DEF Init
  <2>3. StoredInv /\ AnsweredInv /\ FinishedInv
    BY <2>1, CorpusAssumption DEF StoredInv, AnsweredInv, FinishedInv
  <2> QED BY <2>2, <2>3, InitIInv DEF AInv
<1>2. AInv /\ [Next]_vars => AInv'
  <2> SUFFICES ASSUME AInv, [Next]_vars PROVE AInv'
    OBVIOUS
  <2>1. IInv'
    BY IInvStep DEF AInv
  <2> QED BY <2>1, FiniteRows, AnsweredStep DEF AInv
<1> QED BY <1>1, <1>2, PTL DEF Spec

-----------------------------------------------------------------------------
(* Theorems *)

\* Every row, copy and cursor is of its kind.
THEOREM TypeCorrect == Spec => []TypeOK
<1>1. IInv => TypeOK
  BY DEF IInv
<1> QED BY <1>1, IInvAlways, PTL

\* A document is stored whole or not at all, whichever error ends the ingest.
THEOREM NothingIsLost == Spec => []EveryParagraphAccountedFor
<1>1. IInv => EveryParagraphAccountedFor
  BY DEF IInv
<1> QED BY <1>1, IInvAlways, PTL

\* What an operator reads was screened, is about the aircraft of the plan, and is
\* attributed to whoever wrote it.
THEOREM OperatorReadsScreenedText == Spec => []OperatorReadsOwnScreenedText
<1>1. IInv => OperatorReadsOwnScreenedText
  BY DEF IInv, RowsInv, CitedInv, BriefInv, OperatorReadsOwnScreenedText, OwnChunks
<1> QED BY <1>1, IInvAlways, PTL

\* A plan that comes to cite a document which had a paragraph awaiting review when
\* it was computed is barred from operational mode.
THEOREM CitationsAreGated == Spec => []GateSeesWhatIsCited
<1>1. IInv => GateSeesWhatIsCited
  <2> SUFFICES ASSUME IInv, NEW cited \in plan.citations, cited.chunk.path \in plan.open
               PROVE  plan.blocked
    BY DEF GateSeesWhatIsCited
  <2>1. cited.chunk \in chunks /\ cited.chunk.airframe = plan.aircraft
    BY DEF IInv, CitedInv
  <2>2. Listing[cited.chunk.path].airframe = plan.aircraft
    BY <2>1 DEF IInv, RowsInv
  <2>3. plan.aircraft # None
    BY CorpusAssumption DEF IInv, AircraftInv
  <2> QED BY <2>2, <2>3 DEF IInv, BlockedInv
<1> QED BY <1>1, IInvAlways, PTL

\* Vectors are compared within one model, as far as the models are told apart.
THEOREM VectorsOfOneModel == Spec => []ComparedWithinOneModel
<1>1. IInv => ComparedWithinOneModel
  <2> SUFFICES ASSUME IInv, ToldApart, NEW pair \in plan.compared
               PROVE  pair[1] = pair[2]
    BY DEF ComparedWithinOneModel
  <2>1. PICK e \in Embedders :
            MayCompute(pair[1], e.id, e.dimension) /\ MayCompute(pair[2], e.id, e.dimension)
    BY DEF IInv, VectorInv
  <2> QED BY <2>1 DEF MayCompute, ToldApart
<1> QED BY <1>1, IInvAlways, PTL

\* For any corpus, any deployment and any order of ingests, clearances and plans: a
\* field is left without a citation only if no row of the plan's own model that was
\* stored about the aircraft answers the question, or as many rows as one statement
\* returns do not, or the retrieval was unavailable.
THEOREM AbstentionIsJustified == Spec => []AbstainsOnlyWithoutEvidence
<1>1. AInv => AbstainsOnlyWithoutEvidence
  <2> SUFFICES ASSUME AInv, plan.status \in {"confirmed", "unconfirmed"},
                      NEW i \in DOMAIN Asked[plan.aircraft]
               PROVE  Answered(i)
    BY DEF AbstainsOnlyWithoutEvidence, Answered, Beside
  <2>1. plan.aircraft \in Airframes /\ plan.next > Len(Asked[plan.aircraft])
    BY DEF AInv, FinishedInv
  <2>2. Asked[plan.aircraft] \in Seq(DOMAIN Query) /\ plan.next \in Nat
    BY <2>1, CorpusAssumption DEF AInv, IInv, TypeOK, Plans
  <2>3. i < plan.next
    BY <2>1, <2>2
  <2> QED BY <2>1, <2>3 DEF AInv, AnsweredInv
<1> QED BY <1>1, AInvAlways, PTL
=============================================================================
