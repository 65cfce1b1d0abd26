------------------------- MODULE IngestionRollback -------------------------
(***************************************************************************)
(* Ingestion against what backend/docs/backend-architecture.md says of a   *)
(* failure: "All writes happen inside a single `AsyncSession` transaction; *)
(* if any step raises, the session rolls back automatically."              *)
(***************************************************************************)
EXTENDS Ingestion

VARIABLE before   \* history: the rows of its source when each request started

RollbackInit == Init /\ before = [j \in Jobs |-> {}]

Starts(j) == pc[j] # "mark" /\ pc'[j] = "mark"

RollbackNext ==
    /\ Next
    /\ before' = [j \in Jobs |-> IF Starts(j) THEN Rows(src'[j]) ELSE before[j]]

RollbackSpec == RollbackInit /\ [][RollbackNext]_<<vars, before>>

\* What the doc's claim implies: a request that fails, and that no other request
\* of its source overlapped, loses none of the chunks it found.  The code commits
\* the delete on its own, so an embedding that fails after it loses the old ones.
FailureRollsBack ==
    \A j \in Jobs \ disturbed :
        pc[j] = "error" /\ Exists(src[j]) => before[j] \subseteq Rows(src[j])

=============================================================================
