------------------------------ MODULE Retrieval ------------------------------
(***************************************************************************)
(* What rag/retrieve.py may return for one field of one airframe.  A text  *)
(* is the set of its words.  A chunk is a record with at least the fields  *)
(*                                                                         *)
(*   words     the words of its text                                       *)
(*   airframe  airframe_config_id, or None                                 *)
(*   field     field_path, or None                                         *)
(*   model     the embedding model recorded with its vector                *)
(*   length    the length of that vector                                   *)
(*                                                                         *)
(* Where the code leaves an order to the database (there is no ORDER BY)   *)
(* or to a hash table, every order is possible; a similarity is any number *)
(* a model may come up with.                                               *)
(***************************************************************************)
EXTENDS Integers, FiniteSets

CONSTANTS
    None,           \* Python's None
    Filler,         \* _FILLER
    Qualifier,      \* _QUALIFIER
    RowLimit,       \* candidates * 5
    RrfK,           \* RRF_K
    Similarities    \* cosines a comparison may yield

ASSUME RetrievalAssumption ==
    /\ RowLimit \in Nat \ {0}
    /\ RrfK \in Nat \ {0}
    /\ Similarities \subseteq Int
    /\ 0 \in Similarities

-----------------------------------------------------------------------------
(* What counts as evidence *)

ContentTerms(words) == words \ Filler

SubjectTerms(words) == ContentTerms(words) \ Qualifier

SharesContent(query, words) ==
    IF SubjectTerms(query) = {}
    THEN ContentTerms(query) \cap ContentTerms(words) # {}
    ELSE SubjectTerms(query) \cap SubjectTerms(words) # {}

-----------------------------------------------------------------------------
(* The two legs and their fusion *)

\* Every score is divided by the size of the one query, so their order is this.
LexicalScore(query, words) == Cardinality(query \cap words)

\* sorted(key=-score) is stable: equal scores keep the order of the rows.
Rank(score, order, c) ==
    1 + Cardinality({d \in DOMAIN score :
            \/ score[d] > score[c]
            \/ (score[d] = score[c] /\ order[d] < order[c])})

Scored(score) == {c \in DOMAIN score : score[c] > 0}

\* 1 / (RRF_K + rank) of each leg that has the chunk, as a fraction <<n, d>>.
Fused(lexical, vector, order, c) ==
    LET l == RrfK + Rank(lexical, order, c)
        v == RrfK + Rank(vector, order, c)
        inLexical == c \in Scored(lexical)
        inVector == c \in Scored(vector)
    IN  CASE inLexical /\ inVector -> <<l + v, l * v>>
          [] inLexical /\ ~inVector -> <<1, l>>
          [] ~inLexical /\ inVector -> <<1, v>>

Precedes(f, g) == f[1] * g[2] > g[1] * f[2]

\* fuse(...)[:1], for any order in which equal sums come out of the dictionary.
Winners(lexical, vector, order) ==
    LET all == Scored(lexical) \cup Scored(vector)
        fused == [c \in all |-> Fused(lexical, vector, order, c)]
    IN  {c \in all : \A d \in all : ~Precedes(fused[d], fused[c])}

-----------------------------------------------------------------------------
(* Retrieval *)

\* Mutant: the statement filters on the field alone.
CandidatesOfAnyAirframe(chunks, airframe, field) ==
    {c \in chunks : field = None \/ c.field = field}

CandidateStatement(chunks, airframe, field) ==
    {c \in chunks : c.airframe = airframe /\ (field = None \/ c.field = field)}

\* The row sets that a statement with LIMIT and no ORDER BY may return.
Fetched(matching) ==
    IF Cardinality(matching) <= RowLimit
    THEN {matching}
    ELSE {s \in SUBSET matching : Cardinality(s) = RowLimit}

\* Mutant: the recorded model is not looked at.
ComparableAll(rows, model) == rows

Comparable(rows, model) == {c \in rows : c.model = model}

Orders(rows) ==
    {o \in [rows -> 1..Cardinality(rows)] : \A c, d \in rows : (o[c] = o[d]) => (c = d)}

\* Vectors of unlike lengths have a cosine of 0; otherwise it is the model's say.
VectorLegs(comparable, length) ==
    {v \in [comparable -> Similarities] : \A c \in comparable : (c.length = length) \/ (v[c] = 0)}

\* What retrieve may return with top_k = 1: at most one chunk of rows.
FirstEvidence(query, rows, embedder) ==
    LET lexical == [c \in rows |-> LexicalScore(query, c.words)]
    IN  UNION {Winners(lexical, vector, order) :
                  vector \in VectorLegs(Comparable(rows, embedder.id), embedder.dimension),
                  order \in Orders(rows)}
=============================================================================
