------------------------ MODULE MCIngestionRollback ------------------------
(* One request at a time, of one video whose transcript changes. *)
EXTENDS IngestionRollback

CONSTANTS u1, video, v1, v2

MCOwner == [s \in Sources |-> u1]

MCNChunks == [v \in Versions |-> IF v = v2 THEN 1 ELSE 2]
=============================================================================
