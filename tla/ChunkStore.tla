----------------------------- MODULE ChunkStore -----------------------------
(***************************************************************************)
(* What ingestion promises to those who retrieve chunks: each source holds *)
(* one whole version or nothing, and one version gives way to another only *)
(* through nothing.  An uploaded file, once stored, stays stored, and      *)
(* nothing is ever stored for a source whose account has been deleted.     *)
(***************************************************************************)
CONSTANTS Sources, Files, Versions, None

VARIABLES
    held,   \* held[s]: the version a retrieval on s sees, None if it sees no chunk
    gone    \* sources deleted with their account

vars == <<held, gone>>

Init ==
    /\ held = [s \in Sources |-> None]
    /\ gone = {}

\* Variant: no foreign key ties a chunk to its source.
FillOrphans(s, v) ==
    /\ held[s] = None
    /\ held' = [held EXCEPT ![s] = v]
    /\ UNCHANGED gone

\* The chunks of a version are inserted.
Fill(s, v) ==
    /\ s \notin gone
    /\ held[s] = None
    /\ held' = [held EXCEPT ![s] = v]
    /\ UNCHANGED gone

\* They are deleted to make place for another version.
Clear(s) ==
    /\ s \notin Files
    /\ held' = [held EXCEPT ![s] = None]
    /\ UNCHANGED gone

\* Sources are deleted with their account, and their chunks with them.
Drop(lost) ==
    /\ held' = [s \in Sources |-> IF s \in lost THEN None ELSE held[s]]
    /\ gone' = gone \cup lost

Next ==
    \/ \E s \in Sources, v \in Versions : Fill(s, v)
    \/ \E s \in Sources : Clear(s)
    \/ \E lost \in SUBSET Sources : Drop(lost)

Spec == Init /\ [][Next]_vars
=============================================================================
