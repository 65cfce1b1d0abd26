------------------------------ MODULE Ingestion ------------------------------
(***************************************************************************)
(* POST /sources/{id}/process: extraction, smart re-ingestion, chunking,   *)
(* embedding and storage of one source (ingestion_application.py), the     *)
(* tables it writes (`sources` and `document_chunks`) and the route around *)
(* it.  Every part of the handler between two awaits is a stage of its     *)
(* own: each database call commits, and each await lets the other requests *)
(* of the event loop run.                                                  *)
(***************************************************************************)
EXTENDS Integers

CONSTANTS
    Users,      \* accounts
    Sources,    \* source ids; an id is a UUID, so it is never used twice
    Owner,      \* Owner[s]: the account that registers source s
    Files,      \* the uploaded PDFs among the sources; the rest are videos
    Jobs,       \* request slots: how many process requests can overlap
    Versions,   \* raw contents an extraction can return, named by their hash
    NChunks,    \* NChunks[v]: into how many chunks version v is cut
    None        \* NULL in a hash column; a field of a request not set yet

ASSUME ConstantsAssumption ==
    /\ Owner \in [Sources -> Users]
    /\ Files \subseteq Sources
    /\ NChunks \in [Versions -> Nat]
    /\ None \notin Versions
    /\ None \notin Sources

VARIABLES
    users,        \* accounts that exist
    status,       \* sources.status, or that the row is not there yet, or any more
    contentHash,  \* sources.content_hash
    chunks,       \* rows of document_chunks
    content,      \* what the file or the transcript service holds now
    pc,           \* the stage each request has reached
    src,          \* the source each request works on
    ver,          \* the version its extraction returned
    disturbed,    \* history: requests that another one of the same source overlapped
    unattended    \* history: sources whose `processing` no request is going to settle

tables == <<users, status, contentHash, chunks>>
history == <<disturbed, unattended>>
vars == <<users, status, contentHash, chunks, content, pc, src, ver,
          disturbed, unattended>>

-----------------------------------------------------------------------------
(* The tables. *)

Stored == {"processing", "ready", "failed"}
Statuses == Stored \cup {"unborn", "deleted"}
Exists(s) == status[s] \in Stored

Rows(s) == {c \in chunks : c.source = s}

\* The rows of version v of source s: the ids `{source_id}-chunk-{N}` count from 0.
ChunksOf(s, v) ==
    {[source |-> s, index |-> i, hash |-> v] : i \in 0 .. (NChunks[v] - 1)}

\* Variant: chunk_id carries no UNIQUE constraint.
IdsUnconstrained(new) == TRUE

\* The UNIQUE constraint on chunk_id.
IdsFree(new) ==
    \A c \in new, d \in chunks : c.source = d.source => c.index # d.index

-----------------------------------------------------------------------------
(* The requests. *)

\* Inside the try block of process_source, where any exception becomes `failed`.
Guarded == {"extract", "lookup", "delete", "embed", "insert", "finish"}

\* A request past its `processing` write that has still to write a final status.
Attending == Guarded \cup {"fail"}
Active == Attending \cup {"mark", "record"}

\* A free slot, a request answered 200, one answered with an error.
Resting == {"idle", "done", "error"}

\* The stages at which a request holds the version it extracted.
Extracted == {"lookup", "delete", "embed", "insert", "finish", "record", "done"}

Goto(j, stage) == pc' = [pc EXCEPT ![j] = stage]

Init ==
    /\ users = Users
    /\ status = [s \in Sources |-> "unborn"]
    /\ contentHash = [s \in Sources |-> None]
    /\ chunks = {}
    /\ content \in [Sources -> Versions]
    /\ pc = [j \in Jobs |-> "idle"]
    /\ src = [j \in Jobs |-> None]
    /\ ver = [j \in Jobs |-> None]
    /\ disturbed = {}
    /\ unattended = {}

-----------------------------------------------------------------------------
(* The environment of the requests. *)

\* POST /sources/upload and /sources/youtube: the row starts in `processing`,
\* although nothing processes it until the client asks for it.
CreateSource(s) ==
    /\ Owner[s] \in users
    /\ status[s] = "unborn"
    /\ status' = [status EXCEPT ![s] = "processing"]
    /\ contentHash' = [contentHash EXCEPT ![s] = IF s \in Files THEN content[s] ELSE None]
    /\ unattended' = unattended \cup {s}
    /\ UNCHANGED <<users, chunks, content, pc, src, ver, disturbed>>

\* DELETE /users/{id}: the ORM deletes the account's sources, the foreign key
\* of document_chunks their chunks, in one transaction.
DeleteUser(u) ==
    LET lost == {s \in Sources : Owner[s] = u /\ Exists(s)}
    IN  /\ u \in users
        /\ users' = users \ {u}
        /\ status' = [s \in Sources |-> IF s \in lost THEN "deleted" ELSE status[s]]
        /\ contentHash' = [s \in Sources |-> IF s \in lost THEN None ELSE contentHash[s]]
        /\ chunks' = {c \in chunks : c.source \notin lost}
        /\ unattended' = unattended \ lost
        /\ UNCHANGED <<content, pc, src, ver, disturbed>>

\* A transcript is edited, withdrawn or regenerated at the video service.
\* Nothing rewrites an uploaded file: each is saved under a fresh UUID name.
ContentChanges(s) ==
    /\ s \notin Files
    /\ \E v \in Versions : content' = [content EXCEPT ![s] = v]
    /\ UNCHANGED <<tables, pc, src, ver, history>>

-----------------------------------------------------------------------------
(* One request, stage by stage. *)

\* The route reads the source, checks its owner and builds the service.
Request(j, s) ==
    LET others == {k \in Jobs \ {j} : src[k] = s}
    IN  /\ pc[j] \in Resting
        /\ Exists(s)
        /\ Goto(j, "mark")
        /\ src' = [src EXCEPT ![j] = s]
        /\ ver' = [ver EXCEPT ![j] = None]
        /\ disturbed' = (disturbed \ {j}) \cup others
                           \cup {k \in {j} : \E o \in others : pc[o] \in Active}
        /\ UNCHANGED <<tables, content, unattended>>

\* update_source_status(processing), ahead of the try block.
MarkProcessing(j) ==
    /\ pc[j] = "mark"
    /\ \/ /\ Exists(src[j])
          /\ status' = [status EXCEPT ![src[j]] = "processing"]
          /\ unattended' = unattended \ {src[j]}
          /\ Goto(j, "extract")
       \/ /\ ~Exists(src[j])
          /\ Goto(j, "error")
          /\ UNCHANGED <<status, unattended>>
    /\ UNCHANGED <<users, contentHash, chunks, content, src, ver, disturbed>>

\* Variant: the hash is left to a later stage that never computes it.
ExtractWithoutHash(j) ==
    /\ pc[j] = "extract"
    /\ Goto(j, "lookup")
    /\ UNCHANGED <<tables, content, src, ver, history>>

\* Extraction and hashing run without an await: one look at the content.  Left
\* out: a PDF that is extracted and cannot be read a moment later to be hashed.
Extract(j) ==
    /\ pc[j] = "extract"
    /\ ver' = [ver EXCEPT ![j] = content[src[j]]]
    /\ Goto(j, "lookup")
    /\ UNCHANGED <<tables, content, src, history>>

\* get_existing_file_hash: the hash of any one stored chunk (LIMIT 1, no order).
ExistingHash(s) ==
    IF Rows(s) = {} THEN {None} ELSE {c.hash : c \in Rows(s)}

\* Variant: every re-ingestion replaces, unchanged content included.
ReplaceAlways(existing, extracted) == IF existing = None THEN "embed" ELSE "delete"

\* Smart re-ingestion: unchanged content is skipped, changed content replaces.
AfterLookup(existing, extracted) ==
    IF existing = extracted THEN "finish"
    ELSE IF existing = None THEN "embed" ELSE "delete"

Lookup(j) ==
    /\ pc[j] = "lookup"
    /\ \E existing \in ExistingHash(src[j]) : Goto(j, AfterLookup(existing, ver[j]))
    /\ UNCHANGED <<tables, content, src, ver, history>>

DeleteChunks(j) ==
    /\ pc[j] = "delete"
    /\ chunks' = chunks \ Rows(src[j])
    /\ Goto(j, "embed")
    /\ UNCHANGED <<users, status, contentHash, content, src, ver, history>>

\* Chunking, then the await of the embedding service.
Embed(j) ==
    /\ pc[j] = "embed"
    /\ Goto(j, "insert")
    /\ UNCHANGED <<tables, content, src, ver, history>>

\* insert_chunks: all rows or none.  A taken chunk id or a vanished source
\* raises, except that an empty list of rows violates no constraint.
Accepted(s, new) == new = {} \/ (Exists(s) /\ IdsFree(new))

Insert(j) ==
    LET new == ChunksOf(src[j], ver[j])
    IN  /\ pc[j] = "insert"
        /\ \/ /\ Accepted(src[j], new)
              /\ chunks' = chunks \cup new
              /\ Goto(j, "finish")
           \/ /\ ~Accepted(src[j], new)
              /\ UNCHANGED chunks
              /\ Goto(j, "fail")
        /\ UNCHANGED <<users, status, contentHash, content, src, ver, history>>

\* update_source_status(ready), whether content was stored or skipped.
Finish(j) ==
    /\ pc[j] = "finish"
    /\ \/ /\ Exists(src[j])
          /\ status' = [status EXCEPT ![src[j]] = "ready"]
          /\ Goto(j, "record")
       \/ /\ ~Exists(src[j])
          /\ UNCHANGED status
          /\ Goto(j, "fail")
    /\ UNCHANGED <<users, contentHash, chunks, content, src, ver, history>>

\* Variant: the route stores the time of the ingestion and forgets the hash.
RecordTimeOnly(j) ==
    /\ pc[j] = "record"
    /\ Goto(j, IF Exists(src[j]) THEN "done" ELSE "error")
    /\ UNCHANGED <<tables, content, src, ver, history>>

\* The route stores the hash of this request's version and answers.
Record(j) ==
    /\ pc[j] = "record"
    /\ \/ /\ Exists(src[j])
          /\ contentHash' = [contentHash EXCEPT ![src[j]] = ver[j]]
          /\ Goto(j, "done")
       \/ /\ ~Exists(src[j])
          /\ UNCHANGED contentHash
          /\ Goto(j, "error")
    /\ UNCHANGED <<users, status, chunks, content, src, ver, history>>

\* Anything inside the try block may raise: a loader, the chunker, the embedding
\* service, the database (whose helpers roll their own statement back).
StageFails(j) ==
    /\ pc[j] \in Guarded
    /\ Goto(j, "fail")
    /\ UNCHANGED <<tables, content, src, ver, history>>

\* Variant: the except clauses re-raise and leave the status alone.
OnlyReraise(j) ==
    /\ pc[j] = "fail"
    /\ Goto(j, "error")
    /\ UNCHANGED <<tables, content, src, ver, history>>

\* The except clauses: update_source_status(failed), then re-raise.
MarkFailed(j) ==
    /\ pc[j] = "fail"
    /\ status' = [status EXCEPT ![src[j]] = IF Exists(src[j]) THEN "failed" ELSE @]
    /\ Goto(j, "error")
    /\ UNCHANGED <<users, contentHash, chunks, content, src, ver, history>>

\* The request ends where no handler runs: the server restarts (every active
\* request dies, in some order) or its status write itself cannot reach the
\* database.
Die(j) ==
    /\ pc[j] \in Active
    /\ Goto(j, "idle")
    /\ src' = [src EXCEPT ![j] = None]
    /\ ver' = [ver EXCEPT ![j] = None]
    /\ unattended' = unattended
          \cup {s \in Sources : s = src[j] /\ pc[j] \in Attending /\ Exists(s)}
    /\ UNCHANGED <<tables, content, disturbed>>

-----------------------------------------------------------------------------

JobStep(j) ==
    \/ MarkProcessing(j) \/ Extract(j) \/ Lookup(j) \/ DeleteChunks(j) \/ Embed(j)
    \/ Insert(j) \/ Finish(j) \/ Record(j) \/ StageFails(j) \/ MarkFailed(j)

Environment ==
    \/ \E s \in Sources : CreateSource(s) \/ ContentChanges(s)
    \/ \E u \in Users : DeleteUser(u)
    \/ \E j \in Jobs, s \in Sources : Request(j, s)
    \/ \E j \in Jobs : Die(j)

Next == (\E j \in Jobs : JobStep(j)) \/ Environment

Spec == Init /\ [][Next]_vars

\* Extraction returns, network calls time out and the database answers: a
\* request that is not killed takes its next step.
FairSpec == Spec /\ \A j \in Jobs : WF_vars(JobStep(j))

-----------------------------------------------------------------------------
(* Properties. *)

\* Every variable has its type; a request past extraction holds a version, and
\* an active request a source that has been registered.
TypeOK ==
    /\ users \subseteq Users
    /\ status \in [Sources -> Statuses]
    /\ contentHash \in [Sources -> Versions \cup {None}]
    /\ chunks \subseteq [source : Sources, index : Nat, hash : Versions]
    /\ content \in [Sources -> Versions]
    /\ pc \in [Jobs -> Active \cup Resting]
    /\ src \in [Jobs -> Sources \cup {None}]
    /\ ver \in [Jobs -> Versions \cup {None}]
    /\ disturbed \subseteq Jobs
    /\ unattended \subseteq Sources
    /\ \A j \in Jobs : pc[j] # "idle" => src[j] \in Sources /\ status[src[j]] # "unborn"
    /\ \A j \in Jobs : pc[j] \in Extracted => ver[j] \in Versions

\* Whatever requests overlap, fail half-way or die, the stored chunks of a
\* source are all the chunks of one version, or there are none: no retrieval
\* ever mixes two versions or sees a truncated one.
WholeVersion ==
    \A s \in Sources : Rows(s) # {} => \E v \in Versions : Rows(s) = ChunksOf(s, v)

\* A request that no other request of its source overlapped leaves a source
\* that agrees with its answer, however earlier requests ended (failed after
\* the delete, dead before the hash was recorded, ...): after a success the
\* source is ready, holds exactly the extracted version and has its hash; after
\* an error it is marked failed.
UndisturbedOutcome ==
    \A j \in Jobs \ disturbed :
        LET s == src[j]
        IN  /\ pc[j] = "done" /\ Exists(s) =>
                  /\ status[s] = "ready"
                  /\ Rows(s) = ChunksOf(s, ver[j])
                  /\ contentHash[s] = ver[j]
            /\ pc[j] = "error" /\ Exists(s) => status[s] = "failed"

\* A source shown as processing is being processed by a request that will write
\* its status again, unless it was never processed or a request died on it.
ProcessingAttended ==
    \A s \in Sources \ unattended :
        status[s] = "processing" => \E j \in Jobs : pc[j] \in Attending /\ src[j] = s

\* The version a retrieval on s sees when it finds these rows.
VersionIn(rows, s) ==
    IF rows = {} THEN None ELSE CHOOSE v \in Versions : rows = ChunksOf(s, v)

Store == INSTANCE ChunkStore WITH
    held <- [s \in Sources |-> VersionIn(Rows(s), s)],
    gone <- {s \in Sources : status[s] = "deleted"}

\* Ingestion implements the store it promises to retrieval: a version appears
\* and disappears in one step, is never replaced in place, and the chunks of an
\* uploaded file are never taken away while its account exists.
ImplementsStore == Store!Spec

\* An attended source leaves `processing`, whatever stage fails and however
\* many requests overlap, unless a request dies on it.
Settles ==
    \A s \in Sources :
        (status[s] = "processing" /\ s \notin unattended)
            ~> (status[s] # "processing" \/ s \in unattended)

=============================================================================
