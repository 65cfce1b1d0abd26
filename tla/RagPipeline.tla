----------------------------- MODULE RagPipeline -----------------------------
(***************************************************************************)
(* One question to the pipeline (backend/app/rag/pipeline.py): retrieval,  *)
(* the cached answer, the call of the language model with its retry, and   *)
(* the keys of the cache with the patterns that should clear them          *)
(* (backend/app/cache).  Functions of what the services do; a key or a     *)
(* pattern is a sequence of the parts between its colons.                  *)
(***************************************************************************)
LOCAL INSTANCE Integers
LOCAL INSTANCE Sequences
LOCAL INSTANCE SequencesExt

\* What a call of the model may come to.
Outcomes == {"answer", "timeout", "connect", "other"}

\* What the decorator would try again.
Transient == {"timeout", "connect"}

\* What leaves _generate_answer: both except clauses turn it into an LLMError.
Raised(outcome) == IF outcome = "answer" THEN "none" ELSE "LLMError"

\* tenacity around _generate_answer: how often it runs when the calls of the
\* model would come to outcomes, and what the caller gets in the end.
Retried(outcomes) ==
    LET again == {i \in DOMAIN outcomes : \A j \in 1..i : Raised(outcomes[j]) \in Transient}
        runs == IF again = DOMAIN outcomes THEN Len(outcomes)
                ELSE CHOOSE i \in DOMAIN outcomes : i \notin again /\ \A j \in 1..(i - 1) : j \in again
    IN  [runs |-> runs,
         result |-> IF again = DOMAIN outcomes THEN "RetryError"
                    ELSE IF Raised(outcomes[runs]) = "none" THEN "answer" ELSE Raised(outcomes[runs])]

\* query: no chunk, no call of the model.
Query(found, cached, outcomes) ==
    CASE found = "failed" -> [runs |-> 0, result |-> "RetrievalError"]
      [] found = "nothing" -> [runs |-> 0, result |-> "unknown"]
      [] found = "chunks" /\ cached -> [runs |-> 0, result |-> "answer"]
      [] found = "chunks" /\ ~cached -> Retried(outcomes)

\* The model is asked at most once, and its failure is told as LLMError at
\* once: whatever the decorator waits for never reaches it.  The docstring of
\* _generate_answer, line 217, promises up to LLM_MAX_RETRIES attempts.
ASSUME NeverRetried ==
    \A outcomes \in [1..3 -> Outcomes], found \in {"failed", "nothing", "chunks"}, cached \in BOOLEAN :
        LET got == Query(found, cached, outcomes)
        IN  /\ got.runs = (IF found = "chunks" /\ ~cached THEN 1 ELSE 0)
            /\ got.result # "RetryError"
            /\ got.runs = 1 =>
                  (got.result = "LLMError" <=> outcomes[1] # "answer")

-----------------------------------------------------------------------------
(* Keys. *)

\* _to_langchain_messages leaves system messages out, and the fingerprint
\* leaves the roles out.
Fingerprint(history) ==
    LET kept == SelectSeq(history, LAMBDA msg : msg.role # "system")
    IN  [i \in DOMAIN kept |-> kept[i].text]

\* The parts of a key that are written out; the last one is a hash, which
\* nothing but its own arguments gives.
Written(parts) == [i \in DOMAIN parts |-> <<parts[i]>>]

\* The model's name holds colons when it is a URL.
LlmKey(model, prompt) ==
    Written(<<"llm">> \o model)
        \o <<<<prompt.context, prompt.question, Fingerprint(prompt.history), model>>>>

DocumentKey(text, mode) == Written(<<"embedding", "doc">>) \o <<<<text, mode>>>>
QueryKey(text) == Written(<<"embedding", "query">>) \o <<<<text, "query">>>>

\* A glob: an asterisk stands for any characters, colons included.  One that
\* makes up a part stands for one part or several.
RECURSIVE Matches(_, _)
Matches(pattern, key) ==
    IF pattern = <<>> THEN key = <<>>
    ELSE IF pattern[1] = "*"
         THEN \E n \in 1..Len(key) : Matches(Tail(pattern), SubSeq(key, n + 1, Len(key)))
         ELSE key # <<>> /\ <<pattern[1]>> = key[1] /\ Matches(Tail(pattern), Tail(key))

\* clear_pattern.
Cleared(keys, pattern) == {key \in keys : Matches(pattern, key)}

InvalidateSource(keys, source) == Cleared(keys, <<"embedding", "*", source, "*">>)
InvalidateScope(keys, scope) == Cleared(keys, <<"*", scope, "*">>)
InvalidateEmbeddings(keys) == Cleared(keys, <<"embedding", "*">>)
InvalidateLlm(keys) == Cleared(keys, <<"llm", "*">>)

-----------------------------------------------------------------------------

Models == {<<"model">>, <<"kaggle", "http", "//host">>}

Turns2 == [role : {"user", "assistant", "system"}, text : {"p", "q"}]

Prompts == [context : {"c", "d"}, question : {"p", "q"}, history : BoundedSeq(Turns2, 2)]

EveryKey ==
    {LlmKey(model, [context |-> "c", question |-> "p", history |-> <<>>]) : model \in Models}
        \cup {DocumentKey("p", "passage"), QueryKey("p")}

\* An answer from the cache was made for the same context, question, history
\* and model; only who said what of the history may differ.
ASSUME CachedAnswerFits ==
    \A x, y \in Prompts : LlmKey(<<"model">>, x) = LlmKey(<<"model">>, y) =>
        /\ x.context = y.context /\ x.question = y.question
        /\ Fingerprint(x.history) = Fingerprint(y.history)

\* The two that the administration route calls clear their own kind and no
\* other.  The two made for a source or a scope clear nothing: no key names
\* the source it came from (cache/invalidation.py:22 and 38), which is safe
\* only because keys are made from the content.
ASSUME InvalidationReach ==
    /\ InvalidateEmbeddings(EveryKey) = {key \in EveryKey : key[1] = <<"embedding">>}
    /\ InvalidateLlm(EveryKey) = {key \in EveryKey : key[1] = <<"llm">>}
    /\ InvalidateSource(EveryKey, "source") = {} /\ InvalidateScope(EveryKey, "scope") = {}
=============================================================================
