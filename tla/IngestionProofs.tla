--------------------------- MODULE IngestionProofs ---------------------------
(***************************************************************************)
(* Proofs about Ingestion for any sets of accounts, sources, requests and  *)
(* versions.                                                               *)
(***************************************************************************)
EXTENDS Ingestion, TLAPS

\* The type invariant is inductive: no handler needs anything else to keep it.
THEOREM TypeCorrect == Spec => []TypeOK
<1>1. Init => TypeOK
  BY ConstantsAssumption DEF Init, TypeOK, Statuses, Active, Attending, Guarded, Resting,
     Extracted
<1>2. TypeOK /\ [Next]_vars => TypeOK'
  <2> SUFFICES ASSUME TypeOK, [Next]_vars PROVE TypeOK'
    OBVIOUS
  <2> USE ConstantsAssumption DEF TypeOK, Statuses, Stored, Active, Attending, Guarded,
     Resting, Extracted, Goto, tables, history, Exists
  <2>1. ASSUME NEW j \in Jobs, MarkProcessing(j) PROVE TypeOK'
    BY <2>1 DEF MarkProcessing
  <2>2. ASSUME NEW j \in Jobs, Extract(j) PROVE TypeOK'
    BY <2>2 DEF Extract
  <2>3. ASSUME NEW j \in Jobs, Lookup(j) PROVE TypeOK'
    BY <2>3 DEF Lookup, AfterLookup
  <2>4. ASSUME NEW j \in Jobs, DeleteChunks(j) PROVE TypeOK'
    BY <2>4 DEF DeleteChunks
  <2>5. ASSUME NEW j \in Jobs, Embed(j) PROVE TypeOK'
    BY <2>5 DEF Embed
  <2>6. ASSUME NEW j \in Jobs, Insert(j) PROVE TypeOK'
    <3>1. ChunksOf(src[j], ver[j]) \subseteq [source : Sources, index : Nat, hash : Versions]
      BY <2>6 DEF Insert, ChunksOf
    <3>2. QED
      BY <2>6, <3>1 DEF Insert
  <2>7. ASSUME NEW j \in Jobs, Finish(j) PROVE TypeOK'
    BY <2>7 DEF Finish
  <2>8. ASSUME NEW j \in Jobs, Record(j) PROVE TypeOK'
    BY <2>8 DEF Record
  <2>9. ASSUME NEW j \in Jobs, StageFails(j) PROVE TypeOK'
    BY <2>9 DEF StageFails
  <2>10. ASSUME NEW j \in Jobs, MarkFailed(j) PROVE TypeOK'
    BY <2>10 DEF MarkFailed
  <2>11. ASSUME NEW s \in Sources, CreateSource(s) PROVE TypeOK'
    BY <2>11 DEF CreateSource
  <2>12. ASSUME NEW s \in Sources, ContentChanges(s) PROVE TypeOK'
    BY <2>12 DEF ContentChanges
  <2>13. ASSUME NEW u \in Users, DeleteUser(u) PROVE TypeOK'
    BY <2>13 DEF DeleteUser
  <2>14. ASSUME NEW j \in Jobs, NEW s \in Sources, Request(j, s) PROVE TypeOK'
    BY <2>14 DEF Request
  <2>15. ASSUME NEW j \in Jobs, Die(j) PROVE TypeOK'
    BY <2>15 DEF Die
  <2>16. CASE UNCHANGED vars
    BY <2>16 DEF vars
  <2>17. QED
    BY <2>1, <2>2, <2>3, <2>4, <2>5, <2>6, <2>7, <2>8, <2>9, <2>10, <2>11, <2>12, <2>13,
       <2>14, <2>15, <2>16 DEF Next, JobStep, Environment
<1>3. QED
  BY <1>1, <1>2, PTL DEF Spec

-----------------------------------------------------------------------------
(* The chunk rows of a source. *)

\* Every row of a version names its source and its hash, and a version with any
\* row has the row of index 0: two versions of a source can never both fit.
LEMMA RowsOfAVersion ==
  ASSUME NEW s \in Sources, NEW v \in Versions
  PROVE  /\ \A c \in ChunksOf(s, v) : c.source = s /\ c.hash = v
         /\ ChunksOf(s, v) # {} =>
              [source |-> s, index |-> 0, hash |-> v] \in ChunksOf(s, v)
<1>1. NChunks[v] \in Nat
  BY ConstantsAssumption
<1>2. \A c \in ChunksOf(s, v) : c.source = s /\ c.hash = v
  BY DEF ChunksOf
<1>3. ASSUME ChunksOf(s, v) # {}
      PROVE  [source |-> s, index |-> 0, hash |-> v] \in ChunksOf(s, v)
  <2>1. PICK i \in 0 .. (NChunks[v] - 1) : TRUE
    BY <1>3 DEF ChunksOf
  <2>2. 0 \in 0 .. (NChunks[v] - 1)
    BY <1>1, <2>1
  <2>3. QED
    BY <2>2 DEF ChunksOf
<1>4. QED
  BY <1>2, <1>3

\* The unique chunk ids let a version in only where no version is stored.
LEMMA InsertMeetsNoRows ==
  ASSUME WholeVersion, NEW s \in Sources, NEW v \in Versions,
         IdsFree(ChunksOf(s, v)), ChunksOf(s, v) # {}
  PROVE  Rows(s) = {}
<1>1. SUFFICES ASSUME Rows(s) # {} PROVE FALSE
  OBVIOUS
<1>2. PICK w \in Versions : Rows(s) = ChunksOf(s, w)
  BY <1>1 DEF WholeVersion
<1>3. /\ [source |-> s, index |-> 0, hash |-> w] \in chunks
      /\ [source |-> s, index |-> 0, hash |-> v] \in ChunksOf(s, v)
  BY <1>1, <1>2, RowsOfAVersion DEF Rows
<1>4. QED
  BY <1>3 DEF IdsFree

\* What the three writers of document_chunks do to the rows of each source.
LEMMA RowsAfterInsert ==
  ASSUME NEW s \in Sources, NEW v \in Versions, NEW t,
         chunks' = chunks \cup ChunksOf(s, v)
  PROVE  Rows(t)' = IF t = s THEN Rows(s) \cup ChunksOf(s, v) ELSE Rows(t)
<1>1. \A c \in ChunksOf(s, v) : c.source = s
  BY RowsOfAVersion
<1>2. CASE t = s
  BY <1>1, <1>2 DEF Rows
<1>3. CASE t # s
  BY <1>1, <1>3 DEF Rows
<1>4. QED
  BY <1>2, <1>3

\* What deleting a source leaves in the store.
LEMMA RowsAfterDelete ==
  ASSUME NEW s, NEW t, chunks' = chunks \ Rows(s)
  PROVE  Rows(t)' = IF t = s THEN {} ELSE Rows(t)
BY DEF Rows

\* What deleting the sources of a user leaves in the store.
LEMMA RowsAfterDeleteUser ==
  ASSUME NEW lost, NEW t, chunks' = {c \in chunks : c.source \notin lost}
  PROVE  Rows(t)' = IF t \in lost THEN {} ELSE Rows(t)
BY DEF Rows

\* No interleaving of requests stores a mixture of versions or a part of one.
\* WholeVersion is inductive given the types: a request may insert long after it
\* looked, but then the unique chunk ids refuse it.
THEOREM WholeVersionHolds == Spec => []WholeVersion
<1>1. Init => WholeVersion
  BY DEF Init, WholeVersion, Rows
<1>2. TypeOK /\ WholeVersion /\ [Next]_vars => WholeVersion'
  <2> SUFFICES ASSUME TypeOK, WholeVersion, [Next]_vars PROVE WholeVersion'
    OBVIOUS
  <2>1. CASE UNCHANGED chunks
    BY <2>1 DEF WholeVersion, Rows
  <2>2. ASSUME NEW j \in Jobs, Insert(j) PROVE WholeVersion'
    <3>1. PICK s \in Sources, v \in Versions : s = src[j] /\ v = ver[j]
      BY <2>2 DEF Insert, TypeOK, Extracted
    <3>2. CASE ~Accepted(s, ChunksOf(s, v)) \/ ChunksOf(s, v) = {}
      <4>1. UNCHANGED chunks
        BY <2>2, <3>1, <3>2 DEF Insert
      <4>2. QED
        BY <2>1, <4>1
    <3>3. CASE Accepted(s, ChunksOf(s, v)) /\ ChunksOf(s, v) # {}
      <4>1. chunks' = chunks \cup ChunksOf(s, v)
        BY <2>2, <3>1, <3>3 DEF Insert
      <4>2. Rows(s) = {}
        BY <3>1, <3>3, InsertMeetsNoRows DEF Accepted
      <4>3. \A t \in Sources : Rows(t)' = IF t = s THEN ChunksOf(s, v) ELSE Rows(t)
        BY <3>1, <4>1, <4>2, RowsAfterInsert
      <4>4. QED
        BY <3>1, <4>3 DEF WholeVersion, ChunksOf
    <3>4. QED
      BY <3>2, <3>3
  <2>3. ASSUME NEW j \in Jobs, DeleteChunks(j) PROVE WholeVersion'
    <3>1. \A t \in Sources : Rows(t)' = {} \/ Rows(t)' = Rows(t)
      BY <2>3, RowsAfterDelete DEF DeleteChunks
    <3>2. QED
      BY <3>1 DEF WholeVersion, ChunksOf
  <2>4. ASSUME NEW u \in Users, DeleteUser(u) PROVE WholeVersion'
    <3>1. \A t \in Sources : Rows(t)' = {} \/ Rows(t)' = Rows(t)
      BY <2>4, RowsAfterDeleteUser DEF DeleteUser
    <3>2. QED
      BY <3>1 DEF WholeVersion, ChunksOf
  <2>5. QED
    BY <2>1, <2>2, <2>3, <2>4 DEF Next, JobStep, Environment, vars, tables, MarkProcessing,
       Extract, Lookup, Embed, Finish, Record, StageFails, MarkFailed, CreateSource,
       ContentChanges, Request, Die
<1>3. QED
  BY <1>1, <1>2, TypeCorrect, PTL DEF Spec

-----------------------------------------------------------------------------
(* The status a client polls. *)

\* A source is never left in `processing` by a code path: only a creation that
\* is not followed up, or a death, leaves it there.
THEOREM ProcessingAttendedHolds == Spec => []ProcessingAttended
<1>1. Init => ProcessingAttended
  BY DEF Init, ProcessingAttended
<1>2. TypeOK /\ ProcessingAttended /\ [Next]_vars => ProcessingAttended'
  <2> SUFFICES ASSUME TypeOK, ProcessingAttended, [Next]_vars,
                      NEW s \in Sources, s \notin unattended', status'[s] = "processing"
               PROVE  \E j \in Jobs : pc'[j] \in Attending /\ src'[j] = s
    BY DEF ProcessingAttended, Attending, Guarded
  <2>a. ASSUME s \notin unattended, status[s] = "processing"
        PROVE  \E j \in Jobs : pc[j] \in Attending /\ src[j] = s
    BY <2>a DEF ProcessingAttended
  <2> USE DEF TypeOK, Attending, Guarded, Active, Resting, Goto, tables, history
  <2>1. ASSUME NEW j \in Jobs, MarkProcessing(j)
        PROVE  \E k \in Jobs : pc'[k] \in Attending /\ src'[k] = s
    BY <2>a, <2>1 DEF MarkProcessing
  <2>2. ASSUME NEW j \in Jobs,
               \/ Extract(j) \/ Lookup(j) \/ DeleteChunks(j) \/ Embed(j) \/ Insert(j)
               \/ StageFails(j)
        PROVE  \E k \in Jobs : pc'[k] \in Attending /\ src'[k] = s
    <3>1. /\ pc[j] \in Attending /\ pc'[j] \in Attending
          /\ \A k \in Jobs \ {j} : pc'[k] = pc[k]
          /\ UNCHANGED <<status, src, unattended>>
      BY <2>2 DEF Extract, Lookup, AfterLookup, DeleteChunks, Embed, Insert, StageFails
    <3>2. QED
      BY <3>1, <2>a
  <2>3. ASSUME NEW j \in Jobs, Finish(j)
        PROVE  \E k \in Jobs : pc'[k] \in Attending /\ src'[k] = s
    BY <2>a, <2>3 DEF Finish
  <2>4. ASSUME NEW j \in Jobs, Record(j)
        PROVE  \E k \in Jobs : pc'[k] \in Attending /\ src'[k] = s
    BY <2>a, <2>4 DEF Record
  <2>5. ASSUME NEW j \in Jobs, MarkFailed(j)
        PROVE  \E k \in Jobs : pc'[k] \in Attending /\ src'[k] = s
    BY <2>a, <2>5 DEF MarkFailed, Exists, Stored
  <2>6. ASSUME NEW t \in Sources, CreateSource(t) \/ ContentChanges(t)
        PROVE  \E k \in Jobs : pc'[k] \in Attending /\ src'[k] = s
    BY <2>a, <2>6 DEF CreateSource, ContentChanges
  <2>7. ASSUME NEW u \in Users, DeleteUser(u)
        PROVE  \E k \in Jobs : pc'[k] \in Attending /\ src'[k] = s
    BY <2>a, <2>7 DEF DeleteUser
  <2>8. ASSUME NEW j \in Jobs, NEW t \in Sources, Request(j, t)
        PROVE  \E k \in Jobs : pc'[k] \in Attending /\ src'[k] = s
    BY <2>a, <2>8 DEF Request
  <2>9. ASSUME NEW j \in Jobs, Die(j)
        PROVE  \E k \in Jobs : pc'[k] \in Attending /\ src'[k] = s
    BY <2>a, <2>9 DEF Die, Exists, Stored
  <2>10. CASE UNCHANGED vars
    BY <2>a, <2>10 DEF vars
  <2>11. QED
    BY <2>1, <2>2, <2>3, <2>4, <2>5, <2>6, <2>7, <2>8, <2>9, <2>10
       DEF Next, JobStep, Environment
<1>3. QED
  BY <1>1, <1>2, TypeCorrect, PTL DEF Spec

-----------------------------------------------------------------------------
(* The outcome of a request that nobody overlapped. *)

\* While a request is undisturbed, it is the only active one of its source.
Alone ==
    \A j \in Jobs \ disturbed : \A k \in Jobs \ {j} :
        pc[j] # "idle" /\ src[k] = src[j] => pc[k] \notin Active

\* What is stored for s at each stage of an undisturbed request j.
StageFacts(j, s) ==
    /\ pc[j] \in {"embed", "insert"} => Rows(s) = {}
    /\ pc[j] \in {"finish", "record", "done"} => Rows(s) = ChunksOf(s, ver[j])
    /\ pc[j] \in {"record", "done"} => status[s] = "ready"
    /\ pc[j] = "done" => contentHash[s] = ver[j]
    /\ pc[j] = "error" => status[s] = "failed"

UndisturbedStages ==
    \A j \in Jobs \ disturbed, s \in Sources :
        pc[j] # "idle" /\ src[j] = s /\ Exists(s) => StageFacts(j, s)

UndisturbedInv == Alone /\ UndisturbedStages

\* A step of a request touches its own stage and its own source, nothing else.
LEMMA StepIsLocal ==
  ASSUME TypeOK, NEW k \in Jobs, JobStep(k), NEW s \in Sources, src[k] = s
  PROVE  /\ pc[k] \in Active
         /\ \A j \in Jobs \ {k} : pc'[j] = pc[j] /\ ver'[j] = ver[j]
         /\ UNCHANGED <<src, disturbed, users, content>>
         /\ \A t \in Sources \ {s} :
              /\ status'[t] = status[t]
              /\ contentHash'[t] = contentHash[t]
              /\ Rows(t)' = Rows(t)
         /\ Exists(s)' <=> Exists(s)
<1> USE DEF TypeOK, Active, Attending, Guarded, Goto, tables, history, Exists, Stored
<1>1. CASE Insert(k)
  <2>1. PICK v \in Versions : v = ver[k]
    BY <1>1 DEF Insert, Extracted
  <2>2. chunks' = chunks \/ chunks' = chunks \cup ChunksOf(s, v)
    BY <1>1, <2>1 DEF Insert
  <2>3. \A t \in Sources \ {s} : Rows(t)' = Rows(t)
    BY <2>2, RowsAfterInsert DEF Rows
  <2>4. QED
    BY <1>1, <2>3 DEF Insert
<1>2. CASE DeleteChunks(k)
  <2>1. \A t \in Sources \ {s} : Rows(t)' = Rows(t)
    BY <1>2, RowsAfterDelete DEF DeleteChunks
  <2>2. QED
    BY <1>2, <2>1 DEF DeleteChunks
<1>3. CASE Extract(k) \/ Lookup(k) \/ Embed(k) \/ StageFails(k)
  BY <1>3 DEF Extract, Lookup, AfterLookup, Embed, StageFails, Rows
<1>4. CASE MarkProcessing(k) \/ Finish(k) \/ Record(k) \/ MarkFailed(k)
  BY <1>4 DEF MarkProcessing, Finish, Record, MarkFailed, Rows
<1>5. QED
  BY <1>1, <1>2, <1>3, <1>4 DEF JobStep

\* A step of an undisturbed request carries its stage facts on.
LEMMA OwnStepKeepsFacts ==
  ASSUME TypeOK, WholeVersion, NEW j \in Jobs, JobStep(j),
         NEW s \in Sources, src[j] = s, Exists(s), StageFacts(j, s)
  PROVE  StageFacts(j, s)'
<1> USE DEF Goto, StageFacts, tables, history
<1>1. CASE Insert(j)
  <2>1. PICK v \in Versions : v = ver[j]
    BY <1>1 DEF Insert, TypeOK, Extracted
  <2>2. CASE Accepted(s, ChunksOf(s, v))
    <3>1. /\ chunks' = chunks \cup ChunksOf(s, v)
          /\ pc'[j] = "finish"
          /\ Rows(s) = {}
      BY <1>1, <2>1, <2>2 DEF Insert, TypeOK
    <3>2. Rows(s)' = ChunksOf(s, v)
      BY <3>1, RowsAfterInsert
    <3>3. QED
      BY <1>1, <2>1, <3>1, <3>2 DEF Insert, ChunksOf
  <2>3. CASE ~Accepted(s, ChunksOf(s, v))
    BY <1>1, <2>1, <2>3 DEF Insert, TypeOK
  <2>4. QED
    BY <2>2, <2>3
<1>2. CASE DeleteChunks(j)
  <2>1. Rows(s)' = {} /\ pc'[j] = "embed"
    BY <1>2, RowsAfterDelete DEF DeleteChunks, TypeOK
  <2>2. QED
    BY <2>1
<1>3. CASE Lookup(j)
  <2>1. PICK v \in Versions : v = ver[j]
    BY <1>3 DEF Lookup, TypeOK, Extracted
  <2>2. PICK existing \in ExistingHash(s) : pc'[j] = AfterLookup(existing, v)
    BY <1>3, <2>1 DEF Lookup, TypeOK
  <2>3. UNCHANGED <<chunks, ver>>
    BY <1>3 DEF Lookup
  <2>4. CASE Rows(s) = {}
    BY <2>1, <2>2, <2>3, <2>4, ConstantsAssumption DEF ExistingHash, AfterLookup, Rows
  <2>5. CASE Rows(s) # {}
    <3>1. PICK w \in Versions : Rows(s) = ChunksOf(s, w)
      BY <2>5 DEF WholeVersion
    <3>2. existing = w
      <4>1. PICK c \in Rows(s) : existing = c.hash
        BY <2>2, <2>5 DEF ExistingHash
      <4>2. c \in ChunksOf(s, w)
        BY <3>1
      <4>3. QED
        BY <4>1, <4>2, RowsOfAVersion
    <3>3. pc'[j] = "delete" \/ (pc'[j] = "finish" /\ v = w)
      BY <2>2, <3>2, ConstantsAssumption DEF AfterLookup
    <3>4. QED
      BY <2>1, <2>3, <3>1, <3>3 DEF Rows, ChunksOf
  <2>6. QED
    BY <2>4, <2>5
<1>4. CASE Extract(j) \/ Embed(j) \/ StageFails(j) \/ MarkProcessing(j)
  BY <1>4 DEF Extract, Embed, StageFails, MarkProcessing, TypeOK, Rows, ChunksOf
<1>5. CASE Finish(j) \/ Record(j) \/ MarkFailed(j)
  BY <1>5 DEF Finish, Record, MarkFailed, TypeOK, Rows, ChunksOf
<1>6. QED
  BY <1>1, <1>2, <1>3, <1>4, <1>5 DEF JobStep

\* The strengthening is inductive: no step of another request reaches the source
\* of an undisturbed one, and a request that begins there disturbs it.
LEMMA UndisturbedInvInductive ==
  ASSUME TypeOK, TypeOK', WholeVersion, UndisturbedInv, [Next]_vars
  PROVE  UndisturbedInv'
<1> USE DEF UndisturbedInv
<1>1. ASSUME NEW k \in Jobs, JobStep(k) PROVE UndisturbedInv'
  <2>1. PICK r \in Sources : src[k] = r
    BY <1>1 DEF JobStep, TypeOK, MarkProcessing, Extract, Lookup, DeleteChunks, Embed, Insert,
       Finish, Record, StageFails, MarkFailed, Guarded
  <2>2. /\ pc[k] \in Active
        /\ \A j \in Jobs \ {k} : pc'[j] = pc[j] /\ ver'[j] = ver[j]
        /\ UNCHANGED <<src, disturbed>>
        /\ \A t \in Sources \ {r} :
             /\ status'[t] = status[t]
             /\ contentHash'[t] = contentHash[t]
             /\ Rows(t)' = Rows(t)
        /\ Exists(r)' <=> Exists(r)
    BY <1>1, <2>1, StepIsLocal
  <2>3. Alone'
    BY <2>2 DEF Alone, Active, Attending, Guarded
  <2>4. ASSUME NEW j \in Jobs \ disturbed, NEW s \in Sources,
               pc'[j] # "idle", src'[j] = s, Exists(s)'
        PROVE  StageFacts(j, s)'
    <3>1. CASE j = k
      <4>1. pc[j] # "idle" /\ src[j] = s /\ s = r /\ Exists(s)
        BY <2>1, <2>2, <2>4, <3>1 DEF Active, Attending, Guarded
      <4>2. StageFacts(j, s)
        BY <4>1 DEF UndisturbedStages
      <4>3. QED
        BY <1>1, <3>1, <4>1, <4>2, OwnStepKeepsFacts
    <3>2. CASE j # k
      <4>1. pc'[j] = pc[j] /\ ver'[j] = ver[j] /\ src[j] = s
        BY <2>2, <2>4, <3>2
      <4>2. s # r
        BY <2>1, <2>2, <2>4, <3>2, <4>1 DEF Alone
      <4>3. /\ status'[s] = status[s]
            /\ contentHash'[s] = contentHash[s]
            /\ Rows(s)' = Rows(s)
        BY <2>2, <4>2
      <4>4. StageFacts(j, s)
        BY <2>4, <4>1, <4>3 DEF UndisturbedStages, Exists
      <4>5. QED
        BY <4>1, <4>3, <4>4 DEF StageFacts, ChunksOf
    <3>3. QED
      BY <3>1, <3>2
  <2>5. QED
    BY <2>2, <2>3, <2>4 DEF UndisturbedStages
<1>2. ASSUME NEW s \in Sources, CreateSource(s) PROVE UndisturbedInv'
  <2>1. UNCHANGED <<chunks, pc, src, ver, disturbed>>
    BY <1>2 DEF CreateSource
  <2>2. \A j \in Jobs : pc[j] # "idle" => src[j] # s
    BY <1>2 DEF CreateSource, TypeOK
  <2>3. \A t \in Sources \ {s} :
          status'[t] = status[t] /\ contentHash'[t] = contentHash[t]
    BY <1>2 DEF CreateSource, TypeOK
  <2>4. QED
    BY <2>1, <2>2, <2>3 DEF Alone, UndisturbedStages, StageFacts, Exists, Rows, ChunksOf
<1>3. ASSUME NEW s \in Sources, ContentChanges(s) PROVE UndisturbedInv'
  BY <1>3 DEF ContentChanges, tables, history, Alone, UndisturbedStages, StageFacts, Exists,
     Rows, ChunksOf
<1>4. ASSUME NEW u \in Users, DeleteUser(u) PROVE UndisturbedInv'
  <2>1. PICK lost \in SUBSET Sources :
          /\ lost = {s \in Sources : Owner[s] = u /\ Exists(s)}
          /\ status' = [s \in Sources |-> IF s \in lost THEN "deleted" ELSE status[s]]
          /\ contentHash' = [s \in Sources |-> IF s \in lost THEN None ELSE contentHash[s]]
          /\ chunks' = {c \in chunks : c.source \notin lost}
          /\ UNCHANGED <<pc, src, ver, disturbed>>
    BY <1>4 DEF DeleteUser
  <2>2. ASSUME NEW s \in Sources, Exists(s)'
        PROVE  /\ Exists(s) /\ status'[s] = status[s]
               /\ contentHash'[s] = contentHash[s]
               /\ Rows(s)' = Rows(s)
    <3>1. s \notin lost
      BY <2>1, <2>2 DEF Exists, Stored
    <3>2. QED
      BY <2>1, <2>2, <3>1, RowsAfterDeleteUser DEF Exists
  <2>3. Alone'
    BY <2>1 DEF Alone
  <2>4. UndisturbedStages'
    BY <2>1, <2>2 DEF UndisturbedStages, StageFacts, ChunksOf
  <2>5. QED
    BY <2>3, <2>4
<1>5. ASSUME NEW j \in Jobs, NEW s \in Sources, Request(j, s) PROVE UndisturbedInv'
  <2> USE DEF Request, TypeOK, Goto, tables, Active, Attending, Guarded, Resting
  <2>1. /\ pc'[j] = "mark" /\ src'[j] = s
        /\ \A k \in Jobs \ {j} : pc'[k] = pc[k] /\ src'[k] = src[k] /\ ver'[k] = ver[k]
        /\ UNCHANGED <<status, contentHash, chunks>>
    BY <1>5
  <2>2. \A k \in Jobs \ disturbed' : k # j => k \notin disturbed /\ src[k] # s
    BY <1>5
  <2>3. j \notin disturbed' => \A k \in Jobs \ {j} : src[k] = s => pc[k] \notin Active
    BY <1>5
  <2>4. Alone'
    <3> SUFFICES ASSUME NEW a \in Jobs, a \notin disturbed', NEW b \in Jobs \ {a},
                        pc'[a] # "idle", src'[b] = src'[a]
                 PROVE  pc'[b] \notin Active
      BY DEF Alone
    <3>1. CASE a = j
      BY <2>1, <2>3, <3>1
    <3>2. CASE a # j
      <4>1. b # j
        BY <2>1, <2>2, <3>2
      <4>2. QED
        BY <2>1, <2>2, <3>2, <4>1 DEF Alone
    <3>3. QED
      BY <3>1, <3>2
  <2>5. UndisturbedStages'
    BY <2>1, <2>2 DEF UndisturbedStages, StageFacts, Exists, Rows, ChunksOf
  <2>6. QED
    BY <2>4, <2>5
<1>6. ASSUME NEW j \in Jobs, Die(j) PROVE UndisturbedInv'
  <2>1. /\ pc'[j] = "idle" /\ UNCHANGED <<status, contentHash, chunks, disturbed>>
        /\ src'[j] = None
        /\ \A k \in Jobs \ {j} : pc'[k] = pc[k] /\ src'[k] = src[k] /\ ver'[k] = ver[k]
    BY <1>6 DEF Die, TypeOK, Goto, tables
  <2>2. Alone'
    BY <2>1 DEF Alone, Active, Attending, Guarded
  <2>3. UndisturbedStages'
    BY <2>1 DEF UndisturbedStages, StageFacts, Exists, Rows, ChunksOf
  <2>4. QED
    BY <2>2, <2>3
<1>7. CASE UNCHANGED vars
  BY <1>7 DEF vars, Alone, UndisturbedStages, StageFacts, Exists, Rows, ChunksOf
<1>8. QED
  BY <1>1, <1>2, <1>3, <1>4, <1>5, <1>6, <1>7 DEF Next, Environment

\* A request that nobody overlapped does what its answer says, whatever state
\* earlier failures and deaths left the source in.
THEOREM UndisturbedOutcomeHolds == Spec => []UndisturbedOutcome
<1>1. Init => UndisturbedInv
  BY DEF Init, UndisturbedInv, Alone, UndisturbedStages
<1>2. TypeOK /\ TypeOK' /\ WholeVersion /\ UndisturbedInv /\ [Next]_vars => UndisturbedInv'
  BY UndisturbedInvInductive
<1>3. TypeOK /\ UndisturbedInv => UndisturbedOutcome
  BY DEF TypeOK, UndisturbedInv, UndisturbedStages, StageFacts, UndisturbedOutcome
<1>4. QED
  BY <1>1, <1>2, <1>3, TypeCorrect, WholeVersionHolds, PTL DEF Spec

-----------------------------------------------------------------------------
(* Ingestion implements ChunkStore. *)

\* All that is ever extracted from or stored for an uploaded file is its one
\* content, so a request on it never takes the delete branch.
FileVersions ==
    /\ \A c \in chunks : c.source \in Files => c.hash = content[c.source]
    /\ \A j \in Jobs : pc[j] \in Extracted /\ src[j] \in Files => ver[j] = content[src[j]]
    /\ \A j \in Jobs : pc[j] = "delete" => src[j] \notin Files

\* FileVersions is inductive: content that never changes always matches.
LEMMA FileVersionsInductive ==
  ASSUME TypeOK, FileVersions, [Next]_vars
  PROVE  FileVersions'
<1> USE DEF FileVersions, TypeOK, Extracted, Goto, tables, history
<1>1. ASSUME NEW j \in Jobs, Lookup(j) PROVE FileVersions'
  <2>1. PICK existing \in ExistingHash(src[j]) : pc'[j] = AfterLookup(existing, ver[j])
    BY <1>1 DEF Lookup
  <2>2. ASSUME src[j] \in Files PROVE pc'[j] # "delete"
    <3>1. CASE Rows(src[j]) = {}
      BY <2>1, <3>1 DEF ExistingHash, AfterLookup
    <3>2. CASE Rows(src[j]) # {}
      <4>1. PICK c \in Rows(src[j]) : existing = c.hash
        BY <2>1, <3>2 DEF ExistingHash
      <4>2. existing = content[src[j]] /\ ver[j] = content[src[j]]
        BY <1>1, <2>2, <4>1 DEF Rows, Lookup
      <4>3. QED
        BY <2>1, <4>2 DEF AfterLookup
    <3>3. QED
      BY <3>1, <3>2
  <2>3. QED
    BY <1>1, <2>2 DEF Lookup
<1>2. ASSUME NEW j \in Jobs, Insert(j) PROVE FileVersions'
  <2>1. PICK s \in Sources, v \in Versions : s = src[j] /\ v = ver[j]
    BY <1>2 DEF Insert
  <2>2. \A c \in ChunksOf(s, v) : c.source = s /\ c.hash = v
    BY RowsOfAVersion
  <2>3. chunks' = chunks \/ chunks' = chunks \cup ChunksOf(s, v)
    BY <1>2, <2>1 DEF Insert
  <2>4. \A c \in chunks' : c.source \in Files => c.hash = content[c.source]
    BY <1>2, <2>1, <2>2, <2>3 DEF Insert
  <2>5. QED
    BY <1>2, <2>4 DEF Insert
<1>3. ASSUME NEW j \in Jobs,
             \/ MarkProcessing(j) \/ Extract(j) \/ Embed(j) \/ Finish(j) \/ Record(j)
             \/ StageFails(j) \/ MarkFailed(j)
      PROVE  FileVersions'
  BY <1>3 DEF MarkProcessing, Extract, Embed, Finish, Record, StageFails, MarkFailed
<1>4. ASSUME NEW j \in Jobs, DeleteChunks(j) PROVE FileVersions'
  BY <1>4 DEF DeleteChunks
<1>5. ASSUME NEW s \in Sources, CreateSource(s) \/ ContentChanges(s) PROVE FileVersions'
  BY <1>5 DEF CreateSource, ContentChanges
<1>6. ASSUME NEW u \in Users, DeleteUser(u) PROVE FileVersions'
  BY <1>6 DEF DeleteUser
<1>7. ASSUME NEW j \in Jobs, NEW s \in Sources, Request(j, s) PROVE FileVersions'
  BY <1>7 DEF Request
<1>8. ASSUME NEW j \in Jobs, Die(j) PROVE FileVersions'
  BY <1>8 DEF Die
<1>9. CASE UNCHANGED vars
  BY <1>9 DEF vars
<1>10. QED
  BY <1>1, <1>2, <1>3, <1>4, <1>5, <1>6, <1>7, <1>8, <1>9 DEF Next, JobStep, Environment

\* A retrieval that finds the rows of a version sees that version.
LEMMA VersionInItsRows ==
  ASSUME NEW s \in Sources, NEW v \in Versions, ChunksOf(s, v) # {}
  PROVE  VersionIn(ChunksOf(s, v), s) = v
<1>1. ASSUME NEW w \in Versions, ChunksOf(s, v) = ChunksOf(s, w) PROVE w = v
  <2>1. PICK c : c \in ChunksOf(s, v)
    OBVIOUS
  <2>2. c \in ChunksOf(s, w)
    BY <1>1, <2>1
  <2>3. c.hash = v
    BY <2>1, RowsOfAVersion
  <2>4. c.hash = w
    BY <2>2, RowsOfAVersion
  <2>5. QED
    BY <2>3, <2>4
<1>2. QED
  BY <1>1 DEF VersionIn

\* How the version seen follows the rows of a source.
LEMMA VersionAfterStep ==
  ASSUME NEW t \in Sources
  PROVE  /\ Rows(t)' = {} => VersionIn(Rows(t), t)' = None
         /\ Rows(t)' = Rows(t) => VersionIn(Rows(t), t)' = VersionIn(Rows(t), t)
         /\ \A v \in Versions :
              ChunksOf(t, v) # {} /\ Rows(t)' = ChunksOf(t, v) => VersionIn(Rows(t), t)' = v
<1>1. Rows(t)' = {} => VersionIn(Rows(t), t)' = None
  BY DEF VersionIn
<1>2. Rows(t)' = Rows(t) => VersionIn(Rows(t), t)' = VersionIn(Rows(t), t)
  BY DEF VersionIn, ChunksOf
<1>3. ASSUME NEW v \in Versions, ChunksOf(t, v) # {}, Rows(t)' = ChunksOf(t, v)
      PROVE  VersionIn(Rows(t), t)' = v
  <2>1. VersionIn(Rows(t), t)' = VersionIn(ChunksOf(t, v), t)
    BY <1>3 DEF VersionIn, ChunksOf
  <2>2. QED
    BY <1>3, <2>1, VersionInItsRows
<1>4. QED
  BY <1>1, <1>2, <1>3

\* Every step of ingestion is a step of the store, or changes nothing in it.
LEMMA StepImplementsStore ==
  ASSUME TypeOK, WholeVersion, FileVersions, [Next]_vars
  PROVE  [Store!Next]_(Store!vars)
<1> DEFINE held == [s \in Sources |-> VersionIn(Rows(s), s)]
           gone == {s \in Sources : status[s] = "deleted"}
<1> USE DEF tables, history
<1>1. ASSUME UNCHANGED chunks, gone' = gone PROVE UNCHANGED Store!vars
  BY <1>1 DEF Store!vars, VersionIn, Rows, ChunksOf
<1>2. ASSUME NEW j \in Jobs, Insert(j) PROVE [Store!Next]_(Store!vars)
  <2>1. PICK s \in Sources, v \in Versions : s = src[j] /\ v = ver[j]
    BY <1>2 DEF Insert, TypeOK, Extracted
  <2>2. CASE ~Accepted(s, ChunksOf(s, v)) \/ ChunksOf(s, v) = {}
    BY <1>1, <1>2, <2>1, <2>2 DEF Insert
  <2>3. CASE Accepted(s, ChunksOf(s, v)) /\ ChunksOf(s, v) # {}
    <3>1. chunks' = chunks \cup ChunksOf(s, v) /\ UNCHANGED status
      BY <1>2, <2>1, <2>3 DEF Insert
    <3>2. Rows(s) = {}
      BY <2>3, InsertMeetsNoRows DEF Accepted
    <3>3. \A t \in Sources : Rows(t)' = IF t = s THEN ChunksOf(s, v) ELSE Rows(t)
      BY <3>1, <3>2, RowsAfterInsert
    <3>4. /\ held[s] = None
          /\ held' = [held EXCEPT ![s] = v]
      <4>1. \A t \in Sources :
              VersionIn(Rows(t), t)' = IF t = s THEN v ELSE VersionIn(Rows(t), t)
        <5>1. TAKE t \in Sources
        <5>2. CASE t = s
          BY <2>3, <3>3, <5>2, VersionAfterStep
        <5>3. CASE t # s
          BY <3>3, <5>3, VersionAfterStep
        <5>4. QED
          BY <5>2, <5>3
      <4>2. VersionIn(Rows(s), s) = None
        BY <3>2 DEF VersionIn
      <4>3. QED
        BY <4>1, <4>2
    <3>5. s \notin gone /\ gone' = gone
      BY <2>3, <3>1 DEF Accepted, Exists, Stored
    <3>6. Store!Fill(s, v)
      BY <3>4, <3>5 DEF Store!Fill
    <3>7. QED
      BY <3>6 DEF Store!Next
  <2>4. QED
    BY <2>2, <2>3
<1>3. ASSUME NEW j \in Jobs, DeleteChunks(j) PROVE [Store!Next]_(Store!vars)
  <2>1. PICK s \in Sources : s = src[j] /\ s \notin Files
    BY <1>3 DEF DeleteChunks, TypeOK, FileVersions
  <2>2. \A t \in Sources : Rows(t)' = IF t = s THEN {} ELSE Rows(t)
    BY <1>3, <2>1, RowsAfterDelete DEF DeleteChunks
  <2>3. \A t \in Sources :
          VersionIn(Rows(t), t)' = IF t = s THEN None ELSE VersionIn(Rows(t), t)
    <3>1. TAKE t \in Sources
    <3>2. CASE t = s
      BY <2>2, <3>2, VersionAfterStep
    <3>3. CASE ~(t = s)
      BY <2>2, <3>3, VersionAfterStep
    <3>4. QED
      BY <3>2, <3>3
  <2>4. Store!Clear(s)
    BY <1>3, <2>1, <2>3 DEF DeleteChunks, Store!Clear
  <2>5. QED
    BY <2>4 DEF Store!Next
<1>4. ASSUME NEW u \in Users, DeleteUser(u) PROVE [Store!Next]_(Store!vars)
  <2>1. PICK lost \in SUBSET Sources :
          /\ status' = [s \in Sources |-> IF s \in lost THEN "deleted" ELSE status[s]]
          /\ chunks' = {c \in chunks : c.source \notin lost}
    BY <1>4 DEF DeleteUser
  <2>2. \A t \in Sources : Rows(t)' = IF t \in lost THEN {} ELSE Rows(t)
    BY <2>1, RowsAfterDeleteUser
  <2>3. \A t \in Sources :
          VersionIn(Rows(t), t)' = IF t \in lost THEN None ELSE VersionIn(Rows(t), t)
    <3>1. TAKE t \in Sources
    <3>2. CASE t \in lost
      BY <2>2, <3>2, VersionAfterStep
    <3>3. CASE ~(t \in lost)
      BY <2>2, <3>3, VersionAfterStep
    <3>4. QED
      BY <3>2, <3>3
  <2>4. gone' = gone \cup lost
    BY <2>1
  <2>5. Store!Drop(lost)
    BY <2>3, <2>4 DEF Store!Drop
  <2>6. QED
    BY <2>5 DEF Store!Next
<1>5. ASSUME NEW j \in Jobs,
             \/ MarkProcessing(j) \/ Extract(j) \/ Lookup(j) \/ Embed(j) \/ Finish(j)
             \/ Record(j) \/ StageFails(j) \/ MarkFailed(j)
      PROVE  [Store!Next]_(Store!vars)
  <2>1. UNCHANGED chunks /\ gone' = gone
    BY <1>5 DEF MarkProcessing, Extract, Lookup, Embed, Finish, Record, StageFails,
       MarkFailed, TypeOK, Exists, Stored
  <2>2. QED
    BY <1>1, <2>1
<1>6. ASSUME NEW s \in Sources, CreateSource(s) \/ ContentChanges(s)
      PROVE  [Store!Next]_(Store!vars)
  <2>1. UNCHANGED chunks /\ gone' = gone
    BY <1>6 DEF CreateSource, ContentChanges, TypeOK
  <2>2. QED
    BY <1>1, <2>1
<1>7. ASSUME NEW j \in Jobs, (\E s \in Sources : Request(j, s)) \/ Die(j)
      PROVE  [Store!Next]_(Store!vars)
  BY <1>1, <1>7 DEF Request, Die
<1>8. CASE UNCHANGED vars
  BY <1>1, <1>8 DEF vars
<1>9. QED
  BY <1>2, <1>3, <1>4, <1>5, <1>6, <1>7, <1>8 DEF Next, JobStep, Environment

\* Retrieval may rely on ChunkStore alone: whatever ingestion requests do, a
\* reader sees whole versions that change only through absence, and an uploaded
\* file's chunks stay for as long as its account.
THEOREM IngestionImplementsStore == Spec => ImplementsStore
<1>1. Init => Store!Init
  BY DEF Init, Store!Init, VersionIn, Rows
<1>2. Init => FileVersions
  BY DEF Init, FileVersions, Extracted
<1>3. TypeOK /\ FileVersions /\ [Next]_vars => FileVersions'
  BY FileVersionsInductive
<1>4. TypeOK /\ WholeVersion /\ FileVersions /\ [Next]_vars => [Store!Next]_(Store!vars)
  BY StepImplementsStore
<1>5. QED
  BY <1>1, <1>2, <1>3, <1>4, TypeCorrect, WholeVersionHolds, PTL
     DEF Spec, ImplementsStore, Store!Spec
=============================================================================
