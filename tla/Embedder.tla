------------------------------- MODULE Embedder -------------------------------
(***************************************************************************)
(* The client of the embedding service, with its cache                     *)
(* (backend/app/embeddings/huggingface_tei.py); functions of the texts,    *)
(* the cache and the service's answers.  The vector of a text is the text  *)
(* itself; what the service sends for a batch is put in place by position. *)
(***************************************************************************)
LOCAL INSTANCE Integers
LOCAL INSTANCE Sequences
LOCAL INSTANCE FiniteSets
LOCAL INSTANCE SequencesExt

\* _embed: the texts in batches, and the answers one after the other.
Batches(texts, size) ==
    [b \in 1..((Len(texts) + size - 1) \div size) |->
        SubSeq(texts, (b - 1) * size + 1, IF b * size < Len(texts) THEN b * size ELSE Len(texts))]

EmbedBatches(answers) == FlattenSeq(answers)

\* The cache: who its entries belong to, and the vectors it holds of them.
NoEntry == "none"

\* The positions of the texts the cache does not know.
Uncached(texts, cache) == SelectSeq([i \in DOMAIN texts |-> i], LAMBDA i : cache[texts[i]] = NoEntry)

\* One of the loop's steps after the service has answered with vectors.
StoreVector(st, texts, uncached, k, vectors) ==
    IF ~st.ok \/ k > Len(vectors) THEN [st EXCEPT !.ok = FALSE]
    ELSE [st EXCEPT !.results[uncached[k]] = vectors[k],
                    !.cache[texts[uncached[k]]] = vectors[k]]

\* embed_documents with the cache.  A missing vector raises an IndexError, and
\* what has been cached until then stays.
EmbedDocuments(texts, cache, answers) ==
    LET uncached == Uncached(texts, cache)
        vectors == EmbedBatches(answers)
    IN  FoldLeft(LAMBDA st, k : StoreVector(st, texts, uncached, k, vectors),
                 [ok |-> TRUE, results |-> [i \in DOMAIN texts |-> cache[texts[i]]], cache |-> cache],
                 [k \in DOMAIN uncached |-> k])

-----------------------------------------------------------------------------

SampleTexts == {"a", "b", "c"}

\* A cache that holds nothing but the right vectors.
Caches == {[t \in SampleTexts |-> IF t \in known THEN t ELSE NoEntry] : known \in SUBSET SampleTexts}

Requests3 == BoundedSeq(SampleTexts, 3)

ToEmbed(texts, cache) == LET u == Uncached(texts, cache) IN [k \in DOMAIN u |-> texts[u[k]]]

\* What the service may send for a batch: its vectors, or all but one of them.
Answers(batch) == {batch} \cup {RemoveAt(batch, i) : i \in DOMAIN batch}

AnswersTo(batches) ==
    {answers \in [DOMAIN batches -> UNION {Answers(batches[b]) : b \in DOMAIN batches}] :
        \A b \in DOMAIN batches : answers[b] \in Answers(batches[b])}

RightCache(cache) == \A t \in SampleTexts : cache[t] \in {t, NoEntry}

\* As long as every batch comes back whole, each text gets its own vector,
\* whichever of them were cached and however they fall into batches, and the
\* cache knows them all afterwards.
ASSUME VectorsMeetTexts ==
    \A texts \in Requests3, cache \in Caches, size \in 1..2 :
        LET done == EmbedDocuments(texts, cache, Batches(ToEmbed(texts, cache), size))
        IN  /\ done.ok /\ done.results = texts
            /\ RightCache(done.cache) /\ \A i \in DOMAIN texts : done.cache[texts[i]] = texts[i]

\* A batch that comes back short never goes unnoticed, but the call that fails
\* leaves wrong vectors in the cache unless what is missing is the end: the
\* next call for these texts finds them and succeeds with them.
ASSUME ShortBatchFails ==
    \A texts \in Requests3, cache \in Caches, size \in 1..2 :
        LET wanted == ToEmbed(texts, cache)
        IN  \A answers \in AnswersTo(Batches(wanted, size)) :
                LET done == EmbedDocuments(texts, cache, answers)
                IN  /\ done.ok <=> Len(EmbedBatches(answers)) = Len(wanted)
                    /\ IsPrefix(EmbedBatches(answers), wanted) => RightCache(done.cache)
                    /\ ~RightCache(done.cache) =>
                          /\ ~done.ok
                          /\ \A i \in DOMAIN texts : done.cache[texts[i]] # NoEntry =>
                                EmbedDocuments(<<texts[i]>>, done.cache, <<>>).results
                                    = <<done.cache[texts[i]]>>
=============================================================================
