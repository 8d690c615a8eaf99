-------------------------- MODULE KnowledgeRetrieval --------------------------
(* How confirmed knowledge is found (application/hybrid_knowledge_retriever.py,  *)
(* domain/knowledge_retrieval.py): by the words it shares with a query, by the   *)
(* likeness of vectors, or by both rankings fused.  An item is                   *)
(* [id, updated, status, fault, words, near]: how many words it shares with the  *)
(* query at hand, and how near its text is to it.  A cache has [id, updated,     *)
(* near] of what was embedded.                                                   *)
EXTENDS Naturals, Sequences, SequencesExt, FiniteSets

CONSTANTS MinNear,  \* min_semantic_score
          MaxBatch  \* max_batch_size: texts the embedding service takes at once

\* MIN_LEXICAL_OVERLAP
MinWords == 2
\* rrf_k
RrfK == 60

Mode(name, fallback) == [mode |-> name, fallback |-> fallback]

Below(limit, ranking) ==
    SubSeq(ranking, 1, IF Len(ranking) < limit THEN Len(ranking) ELSE limit)

Candidates(items, fault) == {i \in items : i.status = "confirmed" /\ i.fault = fault}

(* Scores are fractions. *)
Whole(n) == [over |-> n, under |-> 1]
Higher(x, y) == x.over * y.under > y.over * x.under
Sum(x, y) == [over |-> x.over * y.under + y.over * x.under, under |-> x.under * y.under]

(* The best first, and of equals the smaller id. *)
Ahead(score, i, j) ==
    \/ Higher(score[i], score[j])
    \/ ~Higher(score[j], score[i]) /\ i.id < j.id
Ranking(score) ==
    LET items == DOMAIN score
    IN  [n \in 1..Cardinality(items) |->
            CHOOSE i \in items : Cardinality({j \in items : Ahead(score, j, i)}) = n - 1]

(* _keyword_rank; a blank query shares no word and finds everything. *)
KeywordRank(items, blank) ==
    Ranking([i \in {i \in items : blank \/ i.words >= MinWords} |->
                Whole(IF blank THEN 0 ELSE i.words)])

------------------------------------------------------------------------------
\* _validate_texts
Accepts(texts) == Cardinality(texts) <= MaxBatch
(* The embedding service takes a batch of texts or fails as a whole. *)
Embeds(up, texts) == up /\ Accepts(texts)

Key(item) == <<item.id, item.updated>>
CachedKeys(cache) == {<<v.id, v.updated>> : v \in cache}
Missing(items, cache) == {i \in items : Key(i) \notin CachedKeys(cache)}

(* _candidate_vectors: what is not cached is embedded in one batch, and cached   *)
(* only once all of it came back.                                                *)
CacheAfter(items, cache, up) ==
    IF Embeds(up, Missing(items, cache))
    THEN cache \cup {[id |-> i.id, updated |-> i.updated, near |-> i.near] : i \in Missing(items, cache)}
    ELSE cache

Vector(cache, item) == CHOOSE v \in cache : <<v.id, v.updated>> = Key(item)

(* Whether there are vectors of the query and of all items: up says whether the   *)
(* service embeds the query (BGE refuses a blank one), upAfter whether it still   *)
(* answers for the items.                                                         *)
Embedded(items, cache, up, upAfter) == up /\ Missing(items, CacheAfter(items, cache, upAfter)) = {}

(* _semantic_rank, by the vectors there are. *)
SemanticRank(items, vectors) ==
    LET near == [i \in items |-> Vector(vectors, i).near]
    IN  Ranking([i \in {i \in items : near[i] >= MinNear} |-> Whole(near[i])])

------------------------------------------------------------------------------
Place(ranking, item) == CHOOSE n \in DOMAIN ranking : ranking[n] = item

(* What a ranking gives to an item it found: weight / (k + rank). *)
Share(weight, ranking, item) ==
    IF item \in Range(ranking) THEN [over |-> weight, under |-> RrfK + Place(ranking, item)]
    ELSE Whole(0)

\* Mutation: the second ranking overwrites what the first one gave.
FusedOverwriting(keyword, semantic) ==
    Ranking([i \in Range(keyword) \cup Range(semantic) |->
                IF i \in Range(semantic) THEN Share(10, semantic, i) ELSE Share(12, keyword, i)])
(* Reciprocal rank fusion, with weights 1.2 and 1.0, in tenths. *)
Fused(keyword, semantic) ==
    Ranking([i \in Range(keyword) \cup Range(semantic) |->
                Sum(Share(12, keyword, i), Share(10, semantic, i))])

(* HybridKnowledgeRetriever.search_confirmed: the answer, the diagnostics, and   *)
(* the cache it leaves.                                                          *)
Hybrid(store, fault, blank, limit, cache, up, upAfter) ==
    LET items == Candidates(store, fault)
        after == CacheAfter(items, cache, upAfter)
        keyword == KeywordRank(items, blank)
        embedded == Embedded(items, cache, up, upAfter)
    IN  IF items = {} THEN [found |-> <<>>, how |-> Mode("hybrid", FALSE), cache |-> cache]
        ELSE [found |-> Below(limit, IF embedded THEN Fused(keyword, SemanticRank(items, after))
                                                 ELSE keyword),
              how |-> IF embedded THEN Mode("hybrid", FALSE) ELSE Mode("keyword", TRUE),
              cache |-> IF up THEN after ELSE cache]

(* SemanticKnowledgeRetriever.search_confirmed, which raises where it cannot     *)
(* embed, also if there is nothing to be found.                                  *)
Semantic(store, fault, limit, cache, up, upAfter) ==
    LET items == Candidates(store, fault)
        after == CacheAfter(items, cache, upAfter)
        embedded == Embedded(items, cache, up, upAfter)
    IN  [found |-> IF embedded THEN Below(limit, SemanticRank(items, after)) ELSE <<>>,
         how |-> Mode(IF embedded THEN "semantic" ELSE "error", FALSE),
         cache |-> IF up THEN after ELSE cache]

(* search_confirmed of the repositories, which the runtime uses. *)
Keyword(store, fault, blank, limit, cache) ==
    [found |-> Below(limit, KeywordRank(Candidates(store, fault), blank)),
     how |-> Mode("repository", FALSE), cache |-> cache]

------------------------------------------------------------------------------
(* What a search answers is confirmed, of the fault, found once, and as much as  *)
(* the limit allows of what the ways it used can find.  What is better in every  *)
(* way it used comes first, and before that what both ways found.  A hybrid      *)
(* search gives up the likeness only where the service did not answer.           *)
AnswersWell(store, fault, blank, limit, cache, up, upAfter, answer) ==
    LET how == answer.how.mode
        byWords == how # "semantic"
        byLikeness == how \in {"hybrid", "semantic"}
        hasWords(i) == byWords /\ (blank \/ i.words >= MinWords)
        isNear(i) == byLikeness /\ i.near >= MinNear
        items == {i \in store : i.status = "confirmed" /\ i.fault = fault}
        findable == {i \in items : hasWords(i) \/ isNear(i)}
        ahead(i, j) ==
            \/ hasWords(i) /\ isNear(i) /\ ~(hasWords(j) /\ isNear(j))
            \/ /\ byWords => ~blank /\ hasWords(i) /\ i.words > j.words
               /\ byLikeness => isNear(i) /\ i.near > j.near
        found == answer.found
    IN  how # "error" =>
        /\ Range(found) \subseteq findable /\ Cardinality(Range(found)) = Len(found)
        /\ Len(found) = IF Cardinality(findable) < limit THEN Cardinality(findable) ELSE limit
        /\ \A i, j \in findable :
             ahead(i, j) /\ j \in Range(found) =>
                i \in Range(found) /\ Place(found, i) < Place(found, j)
        /\ answer.how.fallback /\ up /\ upAfter => Cardinality(Missing(items, cache)) > MaxBatch
==============================================================================
