------------------------------ MODULE SourceHook ------------------------------
(***************************************************************************)
(* frontend/hooks/use-sources.ts: the list of sources a panel shows, and   *)
(* the tasks that upload a file or a video, have it processed and poll     *)
(* until its status settles.  Every panel has a copy of the hook of its    *)
(* own: the page (for the bar), the chat input and the source manager.     *)
(* Below it the server's rows, found again by their content.  What the     *)
(* panels do when a task ends is in Sources.                               *)
(***************************************************************************)
EXTENDS Naturals, ApiCalls

CONSTANTS
    Uploads,          \* numbers of the uploads, and ids of the rows they may create
    Kind,             \* uploadPdf or addYoutube
    File,             \* its content: equal for two uploads of the same file or video
    Reloads,          \* bound: calls of refreshSources in flight at once
    PollInterval, PollMaxInterval, PollTimeout

\* The copies of the hook.
Panels == {"bar", "input", "manager"}

Kinds == {"pdf", "video"}
Statuses == {"processing", "ready", "failed"}

ASSUME SourceHookAssumption ==
    /\ Uploads \subseteq Nat
    /\ Kind \in [Uploads -> Kinds] /\ DOMAIN File = Uploads
    /\ \A u, v \in Uploads : File[u] = File[v] => Kind[u] = Kind[v]
    /\ {PollInterval, PollMaxInterval, PollTimeout} \subseteq Nat \ {0}
    /\ PollInterval <= PollMaxInterval
    /\ None \notin Panels \cup Statuses /\ None \notin Uploads

VARIABLES
    mounted,    \* ~isUnmountedRef
    sources,    \* the status a panel shows of each source; None where it shows none
    isLoading,
    marked,     \* processingSourceIds
    reloads,    \* calls of refreshSources in flight
    tasks,      \* the calls of uploadPdf and addYoutube
    jobs,       \* the server: process requests that wait or run
    status,     \* the server: the rows; None for an upload that has none
    linked      \* the server: the rows of each chat

hookVars == <<mounted, sources, isLoading, marked, reloads, tasks>>
server == <<jobs, status, linked>>

Rows == {r \in Uploads : status[r] # None}

\* step: where the task is; chat: the activeChatId it was called with; row:
\* the source it works on; known: latestKnown; reply: the status it was sent.
Idle == [step |-> "idle", panel |-> None, chat |-> None, row |-> None, known |-> None,
         reply |-> None, wait |-> PollInterval, elapsed |-> 0]

Ended == {"done", "error"}

Working(u) == tasks[u].step \notin Ended \cup {"idle"}

Nothing == [r \in Uploads |-> None]

\* Every copy mounts with a reload in flight.
HookInit(present) ==
    /\ mounted = [p \in Panels |-> p \in present]
    /\ sources = [p \in Panels |-> Nothing]
    /\ isLoading = [p \in Panels |-> p \in present]
    /\ marked = [p \in Panels |-> {}]
    /\ reloads = [p \in Panels |-> [i \in Reloads |->
                    IF p \in present /\ i = CHOOSE j \in Reloads : TRUE THEN Sent ELSE None]]
    /\ tasks = [u \in Uploads |-> Idle]
    /\ jobs = [u \in Uploads |-> "none"]
    /\ status = Nothing
    /\ linked = [c \in Chats |-> {}]

-----------------------------------------------------------------------------
(* The list. *)

ShowMounted(p, list) ==
    sources' = IF mounted[p] THEN [sources EXCEPT ![p] = list] ELSE sources

\* Variant: a source that is listed keeps its entry.
InsertSource(p, r, s) ==
    ShowMounted(p, IF sources[p][r] = None THEN [sources[p] EXCEPT ![r] = s] ELSE sources[p])

UpsertSource(p, r, s) == ShowMounted(p, [sources[p] EXCEPT ![r] = s])

\* refreshSources up to its await.
RefreshSources(p) ==
    /\ \E i \in Reloads : reloads[p][i] = None
    /\ reloads' = [reloads EXCEPT ![p][CHOOSE i \in Reloads : reloads[p][i] = None] = Sent]
    /\ isLoading' = [isLoading EXCEPT ![p] = TRUE]
    /\ UNCHANGED <<mounted, sources, marked, tasks, server>>

\* The first 100 rows of the account, which are all of them.
\* Bound: an account has no more sources than that.
AnswerReload(p, i) ==
    /\ Unanswered(reloads[p][i])
    /\ reloads' = [reloads EXCEPT ![p][i].reply = status]
    /\ UNCHANGED <<mounted, sources, isLoading, marked, tasks, server>>

ReloadEnds(p, i, list) ==
    /\ ShowMounted(p, list)
    /\ isLoading' = IF mounted[p] THEN [isLoading EXCEPT ![p] = FALSE] ELSE isLoading
    /\ reloads' = [reloads EXCEPT ![p][i] = None]
    /\ UNCHANGED <<mounted, marked, tasks, server>>

ReceiveReload(p, i) == Answered(reloads[p][i]) /\ ReloadEnds(p, i, reloads[p][i].reply)

\* A failed reload empties the list.
ReloadFails(p, i) == InFlight(reloads[p][i]) /\ ReloadEnds(p, i, Nothing)

-----------------------------------------------------------------------------
(* A task: upload, process, poll. *)

At(u, step) == tasks[u].step = step

Goto(u, step) == tasks' = [tasks EXCEPT ![u].step = step]

\* uploadPdf or addYoutube up to its first await.
BeginUpload(u, p, chat) ==
    /\ At(u, "idle") /\ \A v \in Uploads : File[v] = File[u] /\ At(v, "idle") => u <= v
    /\ tasks' = [tasks EXCEPT ![u] = [Idle EXCEPT !.step = "upload", !.panel = p, !.chat = chat]]
    /\ UNCHANGED <<mounted, sources, isLoading, marked, reloads, server>>

\* The route looks for a source with this content, and creates one only then.
Uploaded(u, r, s) ==
    /\ tasks' = [tasks EXCEPT ![u].step = "uploaded", ![u].row = r, ![u].reply = s]
    /\ linked' = IF tasks[u].chat = None THEN linked
                 ELSE [linked EXCEPT ![tasks[u].chat] = @ \cup {r}]

SameFile(u) == {r \in Rows : File[r] = File[u]}

FindSource(u) ==
    /\ At(u, "upload")
    /\ \/ \E r \in SameFile(u) : Uploaded(u, r, status[r])
       \/ SameFile(u) = {} /\ Goto(u, "create") /\ UNCHANGED linked
    /\ UNCHANGED <<mounted, sources, isLoading, marked, reloads, jobs, status>>

CreateSource(u) ==
    /\ At(u, "create")
    /\ status' = [status EXCEPT ![u] = "processing"]
    /\ Uploaded(u, u, "processing")
    /\ UNCHANGED <<mounted, sources, isLoading, marked, reloads, jobs>>

\* The chat was deleted elsewhere: 404 once the row is there.
CreateUnlinked(u) ==
    /\ At(u, "create") /\ tasks[u].chat # None
    /\ status' = [status EXCEPT ![u] = "processing"]
    /\ Goto(u, "error")
    /\ UNCHANGED <<mounted, sources, isLoading, marked, reloads, jobs, linked>>

UploadFails(u) ==
    /\ tasks[u].step \in {"upload", "create", "uploaded"}
    /\ Goto(u, "error")
    /\ UNCHANGED <<mounted, sources, isLoading, marked, reloads, server>>

\* markProcessing.
Mark(p, r, on) == marked' = [marked EXCEPT ![p] = IF on THEN @ \cup {r} ELSE @ \ {r}]

\* Variant: a task of a panel that is gone stops at the next answer.
RegisteredIfMounted(u) ==
    LET p == tasks[u].panel
    IN  /\ At(u, "uploaded")
        /\ UpsertSource(p, tasks[u].row, tasks[u].reply)
        /\ Mark(p, tasks[u].row, mounted[p])
        /\ tasks' = [tasks EXCEPT ![u].step = IF mounted[p] THEN "process" ELSE "done",
                                  ![u].known = tasks[u].reply, ![u].reply = None]
        /\ jobs' = IF mounted[p] THEN [jobs EXCEPT ![u] = "waiting"] ELSE jobs
        /\ UNCHANGED <<mounted, isLoading, reloads, status, linked>>

\* The source is shown and marked, and its processing is asked for.
Registered(u) ==
    LET p == tasks[u].panel
    IN  /\ At(u, "uploaded")
        /\ UpsertSource(p, tasks[u].row, tasks[u].reply)
        /\ Mark(p, tasks[u].row, TRUE)
        /\ tasks' = [tasks EXCEPT ![u].step = "process", ![u].known = tasks[u].reply,
                                  ![u].reply = None]
        /\ jobs' = [jobs EXCEPT ![u] = "waiting"]
        /\ UNCHANGED <<mounted, isLoading, reloads, status, linked>>

\* The job's answer, if the task still waits for it.
Replied(u, step) == tasks' = IF At(u, "process") THEN [tasks EXCEPT ![u].step = step] ELSE tasks

BeginJob(u) ==
    /\ jobs[u] = "waiting"
    /\ jobs' = [jobs EXCEPT ![u] = "running"]
    /\ status' = [status EXCEPT ![tasks[u].row] = "processing"]
    /\ UNCHANGED <<hookVars, linked>>

FinishJob(u) ==
    /\ jobs[u] = "running"
    /\ jobs' = [jobs EXCEPT ![u] = "none"]
    /\ \/ status' = [status EXCEPT ![tasks[u].row] = "ready"] /\ Replied(u, "processed")
       \/ status' = [status EXCEPT ![tasks[u].row] = "failed"] /\ Replied(u, "refused")
    /\ UNCHANGED <<mounted, sources, isLoading, marked, reloads, linked>>

\* The server dies with the job: the row stays in processing.
JobDies(u) ==
    /\ jobs[u] = "running"
    /\ jobs' = [jobs EXCEPT ![u] = "none"]
    /\ Replied(u, "refused")
    /\ UNCHANGED <<mounted, sources, isLoading, marked, reloads, status, linked>>

\* The request is lost before it arrives, or its answer is.
ProcessLost(u) ==
    /\ At(u, "process")
    /\ Goto(u, "refused")
    /\ jobs' \in {jobs, [jobs EXCEPT ![u] = IF @ = "waiting" THEN "none" ELSE @]}
    /\ UNCHANGED <<mounted, sources, isLoading, marked, reloads, status, linked>>

\* Variant: a task that throws leaves the mark.
EndTaskOnReturn(u, task) ==
    /\ tasks' = [tasks EXCEPT ![u] = task]
    /\ IF task.step = "error" THEN UNCHANGED marked ELSE Mark(task.panel, task.row, FALSE)

\* The task returns or throws: finally, its source is unmarked.
EndTask(u, task) ==
    /\ tasks' = [tasks EXCEPT ![u] = task]
    /\ Mark(task.panel, task.row, FALSE)

\* The head of the loop of pollUntilSettled: another getSource, or the end.
\* Variant: only unmounting ends it.
PollsWhileMounted(task) == mounted[task.panel]

Polls(task) == mounted[task.panel] /\ task.elapsed < PollTimeout

PollNext(u, task) ==
    IF Polls(task) THEN tasks' = [tasks EXCEPT ![u] = [task EXCEPT !.step = "get"]] /\ UNCHANGED marked
                   ELSE EndTask(u, [task EXCEPT !.step = "done"])

Processed(u) ==
    /\ At(u, "processed")
    /\ PollNext(u, tasks[u])
    /\ UNCHANGED <<mounted, sources, isLoading, reloads, server>>

\* processSource threw: one getSource tells whether the source has failed.
Refused(u) ==
    /\ At(u, "refused")
    /\ Goto(u, "check")
    /\ UNCHANGED <<mounted, sources, isLoading, marked, reloads, server>>

AnswerGet(u) ==
    /\ tasks[u].step \in {"check", "get"} /\ tasks[u].reply = None
    /\ tasks' = [tasks EXCEPT ![u].reply = status[tasks[u].row]]
    /\ UNCHANGED <<mounted, sources, isLoading, marked, reloads, server>>

CheckAnswer(u) ==
    LET task == [tasks[u] EXCEPT !.reply = None]
    IN  /\ At(u, "check") /\ tasks[u].reply # None
        /\ UpsertSource(task.panel, task.row, tasks[u].reply)
        /\ IF tasks[u].reply = "failed"
           THEN EndTask(u, [task EXCEPT !.step = "done", !.known = "failed"])
           ELSE PollNext(u, task)
        /\ UNCHANGED <<mounted, isLoading, reloads, server>>

CheckFails(u) ==
    /\ At(u, "check")
    /\ EndTask(u, [tasks[u] EXCEPT !.step = "error", !.reply = None])
    /\ UNCHANGED <<mounted, sources, isLoading, reloads, server>>

\* After a getSource: the end, or a sleep.
Polled(u, task) ==
    IF task.known # "processing" THEN EndTask(u, [task EXCEPT !.step = "done"])
    ELSE tasks' = [tasks EXCEPT ![u] = [task EXCEPT !.step = "sleep"]] /\ UNCHANGED marked

PollAnswer(u) ==
    LET task == [tasks[u] EXCEPT !.known = tasks[u].reply, !.reply = None]
    IN  /\ At(u, "get") /\ tasks[u].reply # None
        /\ UpsertSource(task.panel, task.row, task.known)
        /\ Polled(u, task)
        /\ UNCHANGED <<mounted, isLoading, reloads, server>>

PollFails(u) ==
    /\ At(u, "get")
    /\ Polled(u, [tasks[u] EXCEPT !.reply = None])
    /\ UNCHANGED <<mounted, sources, isLoading, reloads, server>>

\* Variant: the interval grows without a limit.
Doubled(wait) == 2 * wait

NextWait(wait) == IF 2 * wait < PollMaxInterval THEN 2 * wait ELSE PollMaxInterval

\* The sleep is over; slow answers may have used up the time.
Wake(u) ==
    /\ At(u, "sleep")
    /\ \E now \in {tasks[u].elapsed + tasks[u].wait, PollTimeout} :
          PollNext(u, [tasks[u] EXCEPT
              !.elapsed = IF now < PollTimeout THEN now ELSE PollTimeout,
              !.wait = NextWait(@)])
    /\ UNCHANGED <<mounted, sources, isLoading, reloads, server>>

\* The panels unmount; their tasks and requests go on.
Unmount ==
    /\ \E p \in Panels : mounted[p]
    /\ mounted' = [p \in Panels |-> FALSE]
    /\ UNCHANGED <<sources, isLoading, marked, reloads, tasks, server>>
=============================================================================
