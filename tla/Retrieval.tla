----------------------------- MODULE Retrieval -----------------------------
(***************************************************************************)
(* RetrievalService.Retrieve: the query's vector is searched in the        *)
(* workspace's collection, its words in the full-text index, the two ranks *)
(* are fused, the chunk rows are loaded and a cross-encoder reorders them. *)
(* Each store is read at its own moment, while a run replaces the chunks   *)
(* of a source, or a Delete removes it, store by store.                    *)
(***************************************************************************)
EXTENDS Integers, Sequences, FiniteSets, SequencesExt, FiniteSetsExt

CONSTANTS
  Chunks,       \* chunk IDs
  Former,       \* chunks of the source that a run replaces,
  Fresh,        \* by these
  Foreign,      \* chunks of another workspace
  Orphans,      \* points of sources long deleted: they have no row
  Queries,      \* a query is the set of chunks whose text has its words
  TopKs,        \* values of top_k in a request
  DefaultTopK, MaxTopK, PoolMultiplier, MinPool, RRFK,  \* service.go:25-40
  Scores        \* scores a reranker gives, above what a missing one counts

ASSUME RetrievalAssumption ==
  /\ IsFiniteSet(Chunks)
  /\ \A S \in {Former, Fresh, Foreign, Orphans} \cup Queries : S \subseteq Chunks
  /\ TopKs \subseteq Int
  /\ MaxTopK \in Nat /\ DefaultTopK \in 1..MaxTopK /\ PoolMultiplier \in Nat \ {0}
  /\ MinPool \in Nat /\ RRFK \in Nat
  /\ Scores \subseteq Nat \ {0}

VARIABLES
  rows,     \* ids of table chunks
  points,   \* Qdrant: the points of each collection
  current,  \* the collection that ResolveEmbedder answers
  run,      \* a re-ingest or a Delete of the source: its next step, its collection
  query,    \* the request
  quiet     \* history: no store changed since the request began

vars == <<rows, points, current, run, query, quiet>>

Collections == {"before", "after"}
Source == Former \cup Fresh
Steps == {"none", "rows", "points", "insert", "upsert", "points of it", "row of it", "ended"}

NoQuery == [pc |-> "idle", words |-> {}, asked |-> 0, topK |-> 0, collection |-> "before", vector |-> <<>>,
            lexical |-> <<>>, candidates |-> <<>>, loaded |-> {}, scores |-> <<>>,
            results |-> <<>>]

Init ==
  /\ rows = Chunks \ (Fresh \cup Orphans)
  /\ points = [c \in Collections |-> IF c = "before" THEN Chunks \ Fresh ELSE {}]
  /\ current = "before"
  /\ run = [next |-> "none", collection |-> "before"]
  /\ query = NoQuery
  /\ quiet = TRUE

-----------------------------------------------------------------------------
(* The world around a query: one store call of a run at a time, any of which
   may fail and end the run. *)

Changes(step, then) ==
  /\ run.next = step
  /\ run' = [run EXCEPT !.next = then]
  /\ quiet' = FALSE
  /\ UNCHANGED <<current, query>>

\* It resolves the collection before it deletes anything.
StartRun ==
  /\ run.next = "none"
  /\ \E first \in {"rows", "points of it"} :
       run' = [next |-> first, collection |-> current]
  /\ UNCHANGED <<rows, points, current, query, quiet>>

DeleteChunks == Changes("rows", "points") /\ rows' = rows \ Source /\ UNCHANGED points

DeleteSourceVectors ==
  /\ Changes("points", "insert") \/ Changes("points of it", "row of it")
  /\ points' = [points EXCEPT ![run.collection] = @ \ Source]
  /\ UNCHANGED rows

ChunkSource == Changes("insert", "upsert") /\ rows' = rows \cup Fresh /\ UNCHANGED points

UpsertChunkVectors ==
  /\ Changes("upsert", "ended")
  /\ points' = [points EXCEPT ![run.collection] = @ \cup Fresh]
  /\ UNCHANGED rows

\* ON DELETE CASCADE takes the chunks with the source.
DeleteRow == Changes("row of it", "ended") /\ rows' = rows \ Source /\ UNCHANGED points

RunFails ==
  /\ run.next \notin {"none", "ended"}
  /\ run' = [run EXCEPT !.next = "ended"]
  /\ UNCHANGED <<rows, points, current, query, quiet>>

\* SetEmbedding: the new collection is empty until a run fills it.
SetEmbedding ==
  /\ current = "before" /\ current' = "after"
  /\ quiet' = FALSE
  /\ UNCHANGED <<rows, points, run, query>>

-----------------------------------------------------------------------------
(* Retrieve, one call to a store or a provider at a time. *)

EffectiveTopK(k) == IF k <= 0 THEN DefaultTopK ELSE IF k > MaxTopK THEN MaxTopK ELSE k

\* Mutant: as many as are asked for.
PoolOfTopK(k) == k
candidatePoolSize(k) ==
  IF k * PoolMultiplier < MinPool THEN MinPool ELSE k * PoolMultiplier

\* The lists of at most n of S, best first, that a search may answer.
Rankings(S, n) ==
  UNION {SetToSeqs(T) : T \in kSubset(IF n < Cardinality(S) THEN n ELSE Cardinality(S), S)}

Own(S) == S \ Foreign
Pool == candidatePoolSize(query.topK)

Begin ==
  /\ query.pc = "idle"
  /\ \E k \in TopKs, words \in Queries :
       query' = [NoQuery EXCEPT !.pc = "resolve", !.words = words, !.asked = k,
                                !.topK = EffectiveTopK(k)]
  /\ quiet' = TRUE
  /\ UNCHANGED <<rows, points, current, run>>

\* ResolveEmbedder and Embed: the vector and the collection belong together.
EmbedQuery ==
  /\ query.pc = "resolve"
  /\ query' = [query EXCEPT !.pc = "vector", !.collection = current]
  /\ UNCHANGED <<rows, points, current, run, quiet>>

SearchVectors ==
  /\ query.pc = "vector"
  /\ \E list \in Rankings(Own(points[query.collection]), Pool) :
       query' = [query EXCEPT !.pc = "lexical", !.vector = list]
  /\ UNCHANGED <<rows, points, current, run, quiet>>

lexicalSearch ==
  /\ query.pc = "lexical"
  /\ \E list \in Rankings(Own(rows) \cap query.words, Pool) :
       query' = [query EXCEPT !.lexical = list,
         !.pc = IF query.vector = <<>> /\ list = <<>> THEN "answered" ELSE "load"]
  /\ UNCHANGED <<rows, points, current, run, quiet>>

\* The rank of an ID in a list, from 1 on; 0 if it is not there.
Rank(list, id) == IF \E i \in DOMAIN list : list[i] = id
                  THEN CHOOSE i \in DOMAIN list : list[i] = id ELSE 0

\* 1 / (rrfK + rank) per list, exactly: a fraction stands for the float64.
Share(rank) == IF rank = 0 THEN [num |-> 0, den |-> 1]
               ELSE [num |-> 1, den |-> RRFK + rank]
Plus(x, y) == [num |-> x.num * y.den + y.num * x.den, den |-> x.den * y.den]
Less(x, y) == x.num * y.den < y.num * x.den

\* Mutant: a chunk that both lists have counts once.
FusedFirst(q, id) ==
  Share(IF Rank(q.vector, id) > 0 THEN Rank(q.vector, id) ELSE Rank(q.lexical, id))
Fused(q, id) == Plus(Share(Rank(q.vector, id)), Share(Rank(q.lexical, id)))

\* The union of the lists, and where in it an ID comes first: the IDs of the
\* vector search go before those that only the other one found.
Ids(q) == ToSet(q.vector) \cup ToSet(q.lexical)
IdsIndex(q, id) ==
  IF id \in ToSet(q.vector) THEN Rank(q.vector, id)
  ELSE Len(q.vector) + Rank(q.lexical, id)

Precedes(q, a, b) ==
  \/ Less(Fused(q, b), Fused(q, a))
  \/ ~Less(Fused(q, a), Fused(q, b)) /\ IdsIndex(q, a) < IdsIndex(q, b)

\* The members of S, sorted: the place of each is the number of those before it.
Sorted(S, before) ==
  [i \in 1..Cardinality(S) |->
     CHOOSE x \in S : Cardinality({y \in S : <<y, x>> \in before}) = i - 1]

\* Mutant: the points' payload is taken for the rows.
LoadedPayloads(q) == Ids(q)
Loaded(q) == Ids(q) \cap rows

Candidates(q, found) ==
  Sorted(found, {pair \in found \X found : Precedes(q, pair[1], pair[2])})

loadChunks ==
  /\ query.pc = "load"
  /\ LET found == Own(Loaded(query)) IN
       query' = [query EXCEPT !.pc = IF found = {} THEN "answered" ELSE "rerank",
         !.loaded = rows,
         !.candidates = Candidates(query, found)]
  /\ UNCHANGED <<rows, points, current, run, quiet>>

\* What /rerank may answer: scores for some of the candidates. Anything else
\* (an error, an index out of range) fails the call.
Answers == UNION {[S -> Scores] : S \in SUBSET DOMAIN query.candidates}

Scale(scores, i) == "reranker"
Score(scores, i) == IF i \in DOMAIN scores THEN scores[i] ELSE 0

\* The candidates by falling score; SliceStable keeps the rest of the order.
Above(scores, i, j) ==
  \/ Score(scores, i) > Score(scores, j)
  \/ Score(scores, i) = Score(scores, j) /\ i < j
Reranked(candidates, scores) ==
  LET places == DOMAIN candidates
      order == Sorted(places, {pair \in places \X places : Above(scores, pair[1], pair[2])})
  IN [i \in places |-> [id |-> candidates[order[i]], scale |-> Scale(scores, order[i])]]
Unranked(candidates) ==
  [i \in DOMAIN candidates |-> [id |-> candidates[i], scale |-> "cosine"]]

Truncate(list, topK) == SubSeq(list, 1, IF Len(list) > topK THEN topK ELSE Len(list))

\* Mutant: truncated before it is reranked.
CandidatesOfTopK(q, scores) == Reranked(Truncate(q.candidates, q.topK), scores)
Results(q, scores) == Truncate(Reranked(q.candidates, scores), q.topK)

Rerank ==
  /\ query.pc = "rerank"
  /\ \/ \E scores \in Answers :
          query' = [query EXCEPT !.pc = "answered", !.scores = scores,
                                 !.results = Results(query, scores)]
     \/ query' = [query EXCEPT !.pc = "degraded", !.results = Truncate(Unranked(query.candidates), query.topK)]
  /\ UNCHANGED <<rows, points, current, run, quiet>>

QueryFails ==
  /\ query.pc \in {"resolve", "vector", "lexical", "load"}
  /\ query' = [NoQuery EXCEPT !.pc = "failed"]
  /\ UNCHANGED <<rows, points, current, run, quiet>>

Finish ==
  /\ query.pc \in {"answered", "degraded", "failed"}
  /\ query' = NoQuery
  /\ quiet' = TRUE
  /\ UNCHANGED <<rows, points, current, run>>

-----------------------------------------------------------------------------
World ==
  \/ StartRun \/ DeleteChunks \/ DeleteSourceVectors \/ ChunkSource
  \/ UpsertChunkVectors \/ DeleteRow \/ RunFails \/ SetEmbedding
Retrieve ==
  \/ Begin \/ EmbedQuery \/ SearchVectors \/ lexicalSearch \/ loadChunks
  \/ Rerank \/ QueryFails \/ Finish
Next == World \/ Retrieve

Spec == Init /\ [][Next]_vars

-----------------------------------------------------------------------------
Answered == query.pc \in {"answered", "degraded"}

(* The stores and the request have their shapes; no list repeats a chunk. *)
TypeOK ==
  /\ rows \subseteq Chunks /\ points \in [Collections -> SUBSET Chunks]
  /\ current \in Collections
  /\ run.next \in Steps /\ run.collection \in Collections
  /\ query.pc \in {"idle", "resolve", "vector", "lexical", "load", "rerank",
                   "answered", "degraded", "failed"}
  /\ query.asked \in TopKs \cup {0} /\ query.topK \in 0..MaxTopK
  /\ \A l \in {query.vector, query.lexical, query.candidates} :
       /\ \A i \in DOMAIN l : l[i] \in Chunks
       /\ \A i, j \in DOMAIN l : l[i] = l[j] => i = j
  /\ Len(query.results) <= query.topK
  /\ quiet \in BOOLEAN

(* Reciprocal rank fusion over the union of the lists: what one search found,
   and has a row of the workspace when the rows are read, is a candidate,
   whichever search it was, and no candidate comes before one that both
   searches rank at least as well and one of them better. *)
AtLeast(r, s) == s = 0 \/ (r > 0 /\ r <= s)
Dominates(b, a) ==
  /\ AtLeast(Rank(query.vector, b), Rank(query.vector, a))
  /\ AtLeast(Rank(query.lexical, b), Rank(query.lexical, a))
  /\ \/ Rank(query.vector, b) # Rank(query.vector, a)
     \/ Rank(query.lexical, b) # Rank(query.lexical, a)
FusionRespectsBoth ==
  query.pc = "rerank" =>
    /\ Own(ToSet(query.vector) \cup ToSet(query.lexical)) \cap query.loaded
         \subseteq ToSet(query.candidates)
    /\ \A i, j \in DOMAIN query.candidates :
         i < j => ~Dominates(query.candidates[j], query.candidates[i])

(* loadChunks: points that outlive their rows (a run between two stores, a
   delete that failed) are never answered, nor are another workspace's rows. *)
NoGhosts ==
  \A i \in DOMAIN query.results : query.results[i].id \in query.loaded \ Foreign

(* rerank before the cut to top_k: a candidate that is left out scored no
   higher than any that is answered, and the answer is in falling order, by
   the fused order among equals.  One answer never mixes the reranker's scores
   with cosine similarities (RetrievedChunk.Score). *)
ScoreOf(id) == Score(query.scores, Rank(query.candidates, id))
BestAreAnswered ==
  /\ \A i, j \in DOMAIN query.results :
       query.results[i].scale = query.results[j].scale
  /\ query.pc = "answered" =>
       \A i \in DOMAIN query.results :
         \A id \in ToSet(query.candidates) \ {query.results[j].id : j \in 1..i} :
           LET a == query.results[i].id IN
             \/ ScoreOf(a) > ScoreOf(id)
             \/ /\ ScoreOf(a) = ScoreOf(id)
                /\ Rank(query.candidates, a) < Rank(query.candidates, id)

(* The pool is wider than top_k: with no store changing during the request and
   every row of the workspace in its collection, the answer has as many chunks
   as were asked for or exist, whether their words match or not, as long as
   the points without rows fit into what the pool has to spare. *)
Ghosts == Own(points[current]) \ rows
Smaller(a, b) == IF a < b THEN a ELSE b
Wanted == IF query.asked <= 0 THEN DefaultTopK ELSE Smaller(query.asked, MaxTopK)
QuietQueryFinds ==
  /\ Answered /\ quiet
  /\ Own(rows) \subseteq points[current]
  /\ \/ Cardinality(Ghosts) + Wanted <= MinPool
     \/ Cardinality(Ghosts) + Wanted <= PoolMultiplier * Wanted
  => Len(query.results) = Smaller(Wanted, Cardinality(Own(rows)))
=============================================================================
