------------------------------- MODULE MCChat -------------------------------
(* Small instances of Chat for TLC, with the pipeline that answers. *)
EXTENDS Chat, RagPipeline, TLC

ChatSymmetry == Permutations(Requests)

\* The stages after retrieval.
Answering == {"fallback", "fallingBack", "generate", "reply", "replying", "cite", "title", "done"}

\* Bound: a third request is made, and lives, only while every source is ready,
\* stored and linked, and no request has found less.
ThreeWhileSettled ==
    Cardinality({r \in Requests : pc[r] # "idle"}) > 2 =>
        /\ \A s \in Sources : s \in ready /\ held[s] # None /\ \A c \in chats : <<c, s>> \in links
        /\ \A r \in Requests : pc[r] \in Answering => found[r] # {}
=============================================================================
