----------------------------- MODULE SourcesProofs -----------------------------
(***************************************************************************)
(* Proofs about Sources for any uploads, chats, files, reloads, intervals  *)
(* and plans.                                                              *)
(***************************************************************************)
EXTENDS Sources, FiniteSetTheorems, TLAPS

-----------------------------------------------------------------------------
(* The inductive invariant of a copy of the hook and of the rows. *)

\* A task after its source is shown and marked, until it ends.
Watching == {"process", "processed", "refused", "check", "get", "sleep"}

Lists == [Uploads -> Statuses \cup {None}]

ReloadCall == [reply : Lists \cup {None}]

HookTyped ==
    /\ mounted \in [Panels -> BOOLEAN] /\ isLoading \in [Panels -> BOOLEAN]
    /\ sources \in [Panels -> Lists]
    /\ marked \in [Panels -> SUBSET Uploads]
    /\ reloads \in [Panels -> [Reloads -> ReloadCall \cup {None}]]
    /\ jobs \in [Uploads -> {"none", "waiting", "running"}]
    /\ status \in Lists
    /\ linked \in [Chats -> SUBSET Uploads]

\* What a task has at each step.
TasksTyped ==
    /\ tasks \in [Uploads -> Task]
    /\ \A u \in Uploads :
          /\ tasks[u].wait <= PollMaxInterval
          /\ tasks[u].step # "idle" => tasks[u].panel \in Panels
          /\ tasks[u].step \in Watching \cup {"uploaded"} => tasks[u].row \in Uploads
          /\ tasks[u].step = "uploaded" => tasks[u].reply \in Statuses
          /\ jobs[u] # "none" => tasks[u].step # "idle" /\ tasks[u].row \in Uploads

\* Only rows are shown, answered, worked on or linked.
RowsKnown ==
    /\ \A p \in Panels, r \in Uploads : sources[p][r] # None => status[r] # None
    /\ \A p \in Panels, i \in Reloads, r \in Uploads :
          reloads[p][i] # None /\ reloads[p][i].reply # None /\ reloads[p][i].reply[r] # None =>
              status[r] # None
    /\ \A u \in Uploads : tasks[u].row # None => status[tasks[u].row] # None
    /\ \A c \in Chats : \A r \in linked[c] : status[r] # None

\* MarkedIsWorkedOn, by a task that will take the mark away.
MarkedWatched ==
    \A p \in Panels : \A r \in marked[p] :
        \E u \in Uploads : tasks[u].step \in Watching /\ tasks[u].panel = p /\ tasks[u].row = r

HookInv == HookTyped /\ TasksTyped /\ RowsKnown /\ MarkedWatched

\* What no step of the hook or the server does to the rows and links.
RowsStay ==
    /\ \A r \in Uploads : status[r] # None => status'[r] # None
    /\ \A c \in Chats : linked[c] \subseteq linked'[c]

\* What a step makes of one task: it stays on its panel, and one that is over
\* or not begun stays as it is.
TaskMoves(u) ==
    \E rec \in Task :
        /\ tasks' = [tasks EXCEPT ![u] = rec]
        /\ rec.panel = tasks[u].panel /\ rec.chat = tasks[u].chat /\ rec.step # "idle"
        /\ Working(u) \/ rec = tasks[u]

-----------------------------------------------------------------------------
(* One task moves. *)

\* What a task may become.
GoodTask(u, rec) ==
    /\ rec \in Task /\ tasks[u].step # "idle"
    /\ Working(u) \/ rec = tasks[u]
    /\ rec.panel = tasks[u].panel /\ rec.chat = tasks[u].chat /\ rec.step # "idle"
    /\ rec.wait <= PollMaxInterval
    /\ rec.step \in Watching \cup {"uploaded"} => rec.row \in Uploads
    /\ rec.step = "uploaded" => rec.reply \in Statuses

\* The task keeps what it must have at its step.
LEMMA TaskBecomes ==
    ASSUME HookInv, NEW u \in Uploads, NEW rec, GoodTask(u, rec),
           tasks' = [tasks EXCEPT ![u] = rec],
           \A v \in Uploads : jobs'[v] # "none" =>
                IF v = u THEN rec.row \in Uploads ELSE jobs[v] # "none",
           \A r \in Uploads : status[r] # None => status'[r] # None,
           rec.row # None => status'[rec.row] # None
    PROVE  /\ TasksTyped' /\ TaskMoves(u)
           /\ \A v \in Uploads : tasks'[v].row # None => status'[tasks'[v].row] # None
<1>1. tasks \in [Uploads -> Task] /\ rec \in Task
  BY DEF HookInv, TasksTyped, GoodTask
<1>2. tasks'[u] = rec /\ \A v \in Uploads : v # u => tasks'[v] = tasks[v]
  BY <1>1
<1>3. tasks' \in [Uploads -> Task]
  BY <1>1
<1>4. TasksTyped'
  <2>1. tasks[u].panel \in Panels
    BY DEF HookInv, TasksTyped, GoodTask, Working
  <2>2. QED
    BY <1>2, <1>3, <2>1 DEF HookInv, TasksTyped, GoodTask
<1>5. TaskMoves(u)
  BY <1>1 DEF TaskMoves, GoodTask
<1>6. \A v \in Uploads : tasks[v].row \in Uploads \cup {None}
  BY <1>1 DEF Task
<1>7. \A v \in Uploads : tasks'[v].row # None => status'[tasks'[v].row] # None
  BY <1>2, <1>6 DEF HookInv, RowsKnown
<1>8. QED
  BY <1>4, <1>5, <1>7

\* A task that is watched stays with its source, or was not watched yet.
LEMMA MarksStay ==
    ASSUME HookInv, NEW u \in Uploads, NEW rec, tasks' = [tasks EXCEPT ![u] = rec],
           tasks[u].step \in Watching =>
                rec.step \in Watching /\ rec.panel = tasks[u].panel /\ rec.row = tasks[u].row,
           marked' = marked
    PROVE  MarkedWatched'
<1>1. tasks'[u] = rec /\ \A v \in Uploads : v # u => tasks'[v] = tasks[v]
  BY DEF HookInv, TasksTyped
<1>2. QED
  BY <1>1 DEF HookInv, MarkedWatched

\* A task that ends takes away its own mark, and no other.
LEMMA MarkGoes ==
    ASSUME HookInv, NEW u \in Uploads, NEW rec, tasks' = [tasks EXCEPT ![u] = rec],
           tasks[u].step \in Watching, Mark(tasks[u].panel, tasks[u].row, FALSE)
    PROVE  MarkedWatched' /\ marked' \in [Panels -> SUBSET Uploads]
<1>1. tasks'[u] = rec /\ \A v \in Uploads : v # u => tasks'[v] = tasks[v]
  BY DEF HookInv, TasksTyped
<1>2. tasks[u].panel \in Panels
  BY DEF HookInv, TasksTyped, Watching
<1>3. /\ marked' \in [Panels -> SUBSET Uploads]
      /\ \A p \in Panels : marked'[p] \subseteq marked[p]
      /\ tasks[u].row \notin marked'[tasks[u].panel]
  BY <1>2 DEF HookInv, HookTyped, Mark
<1>4. MarkedWatched'
  <2> SUFFICES ASSUME NEW p \in Panels, NEW r \in marked'[p]
               PROVE  \E v \in Uploads : /\ tasks'[v].step \in Watching /\ tasks'[v].panel = p
                                         /\ tasks'[v].row = r
    BY DEF MarkedWatched
  <2>1. PICK v \in Uploads : tasks[v].step \in Watching /\ tasks[v].panel = p /\ tasks[v].row = r
    BY <1>3 DEF HookInv, MarkedWatched
  <2>2. v # u
    BY <1>3, <2>1
  <2>3. QED
    BY <1>1, <2>1, <2>2
<1>5. QED
  BY <1>3, <1>4

\* A task that begins to watch sets it.
LEMMA MarkComes ==
    ASSUME HookInv, NEW u \in Uploads, NEW rec, tasks' = [tasks EXCEPT ![u] = rec],
           tasks[u].step \notin Watching, rec.step \in Watching,
           rec.panel = tasks[u].panel, rec.row = tasks[u].row,
           tasks[u].panel \in Panels, tasks[u].row \in Uploads,
           Mark(tasks[u].panel, tasks[u].row, TRUE)
    PROVE  MarkedWatched' /\ marked' \in [Panels -> SUBSET Uploads]
<1>1. tasks'[u] = rec /\ \A v \in Uploads : v # u => tasks'[v] = tasks[v]
  BY DEF HookInv, TasksTyped
<1>2. /\ marked' \in [Panels -> SUBSET Uploads]
      /\ \A p \in Panels : \A r \in marked'[p] :
            r \in marked[p] \/ (p = tasks[u].panel /\ r = tasks[u].row)
  BY DEF HookInv, HookTyped, Mark
<1>3. MarkedWatched'
  <2> SUFFICES ASSUME NEW p \in Panels, NEW r \in marked'[p]
               PROVE  \E v \in Uploads : /\ tasks'[v].step \in Watching /\ tasks'[v].panel = p
                                         /\ tasks'[v].row = r
    BY DEF MarkedWatched
  <2>1. CASE p = tasks[u].panel /\ r = tasks[u].row
    BY <1>1, <2>1
  <2>2. CASE r \in marked[p]
    <3>1. PICK v \in Uploads : tasks[v].step \in Watching /\ tasks[v].panel = p /\ tasks[v].row = r
      BY <2>2 DEF HookInv, MarkedWatched
    <3>2. v # u
      BY <3>1
    <3>3. QED
      BY <1>1, <3>1, <3>2
  <2>3. QED
    BY <1>2, <2>1, <2>2
<1>4. QED
  BY <1>2, <1>3

\* What a task does to the rest of the hook and to the rows.
LEMMA TaskKeeps ==
    ASSUME HookInv, NEW u \in Uploads, NEW rec, GoodTask(u, rec),
           tasks' = [tasks EXCEPT ![u] = rec],
           mounted' = mounted, isLoading' = isLoading, reloads' = reloads,
           sources' \in [Panels -> Lists],
           \A p \in Panels, r \in Uploads :
                sources'[p][r] # None => sources[p][r] # None \/ r = tasks[u].row,
           jobs' \in [Uploads -> {"none", "waiting", "running"}],
           \A v \in Uploads : jobs'[v] # "none" =>
                IF v = u THEN rec.row \in Uploads ELSE jobs[v] # "none",
           status' \in Lists,
           \A r \in Uploads : status[r] # None => status'[r] # None,
           rec.row # None => status'[rec.row] # None,
           linked' \in [Chats -> SUBSET Uploads],
           \A c \in Chats : /\ linked[c] \subseteq linked'[c]
                             /\ \A r \in linked'[c] : r \in linked[c] \/ r = rec.row,
           marked' \in [Panels -> SUBSET Uploads], MarkedWatched'
    PROVE  HookInv' /\ RowsStay /\ TaskMoves(u)
<1>1. /\ TasksTyped' /\ TaskMoves(u)
      /\ \A v \in Uploads : tasks'[v].row # None => status'[tasks'[v].row] # None
  BY TaskBecomes
<1>2. HookTyped'
  BY DEF HookInv, HookTyped
<1>3. tasks[u].row # None => tasks[u].row \in Uploads /\ status[tasks[u].row] # None
  BY DEF HookInv, TasksTyped, RowsKnown, Task
<1>4. None \notin Uploads
  BY SourceHookAssumption
<1>5. \A p \in Panels, r \in Uploads : sources'[p][r] # None => status'[r] # None
  BY <1>3, <1>4 DEF HookInv, RowsKnown
<1>6. \A p \in Panels, i \in Reloads, r \in Uploads :
         reloads'[p][i] # None /\ reloads'[p][i].reply # None /\ reloads'[p][i].reply[r] # None =>
             status'[r] # None
  BY DEF HookInv, RowsKnown
<1>7. \A c \in Chats : \A r \in linked'[c] : status'[r] # None
  BY <1>4 DEF HookInv, RowsKnown, HookTyped
<1>8. RowsKnown'
  BY <1>1, <1>5, <1>6, <1>7 DEF RowsKnown
<1>9. QED
  BY <1>1, <1>2, <1>8 DEF HookInv, RowsStay

\* A task that is watched goes on with its source, or ends and unmarks it.
LEMMA WatchedKeeps ==
    ASSUME HookInv, NEW u \in Uploads, NEW rec, tasks[u].step \in Watching,
           rec \in Task, rec.row = tasks[u].row,
           rec.panel = tasks[u].panel, rec.chat = tasks[u].chat, rec.wait <= PollMaxInterval,
           tasks' = [tasks EXCEPT ![u] = rec],
           \/ rec.step \in Watching /\ marked' = marked
           \/ rec.step \in Ended /\ Mark(tasks[u].panel, tasks[u].row, FALSE),
           mounted' = mounted, isLoading' = isLoading, reloads' = reloads,
           sources' \in [Panels -> Lists],
           \A p \in Panels, r \in Uploads :
                sources'[p][r] # None => sources[p][r] # None \/ r = tasks[u].row,
           server' = server
    PROVE  HookInv' /\ RowsStay /\ TaskMoves(u)
<1>1. tasks[u].row \in Uploads /\ status[tasks[u].row] # None /\ None \notin Uploads
  BY SourceHookAssumption DEF HookInv, TasksTyped, RowsKnown
<1>2. tasks[u].step # "idle" /\ Working(u)
  BY DEF Watching, Working, Ended
<1>3. rec.step # "idle" /\ rec.step # "uploaded"
  BY DEF Watching, Ended
<1>4. GoodTask(u, rec)
  BY <1>1, <1>2, <1>3 DEF GoodTask
<1>5. marked' \in [Panels -> SUBSET Uploads] /\ MarkedWatched'
  <2>1. CASE rec.step \in Watching /\ marked' = marked
    BY <2>1, MarksStay DEF HookInv, HookTyped
  <2>2. CASE Mark(tasks[u].panel, tasks[u].row, FALSE)
    BY <2>2, MarkGoes
  <2>3. QED
    BY <2>1, <2>2
<1>6. jobs' = jobs /\ status' = status /\ linked' = linked
  BY DEF server
<1>7. /\ jobs' \in [Uploads -> {"none", "waiting", "running"}]
      /\ status' \in Lists /\ linked' \in [Chats -> SUBSET Uploads]
  BY <1>6 DEF HookInv, HookTyped
<1>8. QED
  BY <1>1, <1>4, <1>5, <1>6, <1>7, TaskKeeps
-----------------------------------------------------------------------------
(* The steps of a task that is watched. *)

\* upsertSource shows the one row it was given.
LEMMA UpsertShows ==
    ASSUME HookInv, NEW p \in Panels, NEW r \in Uploads, NEW s \in Statuses, UpsertSource(p, r, s)
    PROVE  /\ sources' \in [Panels -> Lists]
           /\ \A q \in Panels, x \in Uploads : sources'[q][x] # None => sources[q][x] # None \/ x = r
<1>1. sources \in [Panels -> Lists] /\ sources[p] \in Lists
  BY DEF HookInv, HookTyped
<1>2. [sources[p] EXCEPT ![r] = s] \in Lists
  BY <1>1 DEF Lists
<1>3. CASE mounted[p]
  <2>1. sources' = [sources EXCEPT ![p] = [sources[p] EXCEPT ![r] = s]]
    BY <1>3 DEF UpsertSource, ShowMounted
  <2>2. QED
    BY <1>1, <1>2, <2>1 DEF Lists
<1>4. CASE ~mounted[p]
  BY <1>1, <1>4 DEF UpsertSource, ShowMounted
<1>5. QED
  BY <1>3, <1>4

\* The task with which a step of the poll loop goes on.
GoesOn(u, task) ==
    /\ task \in Task /\ task.row = tasks[u].row
    /\ task.panel = tasks[u].panel /\ task.chat = tasks[u].chat /\ task.wait <= PollMaxInterval

\* What such a step leaves alone, and what it may show.
PollFrame(u) ==
    /\ mounted' = mounted /\ isLoading' = isLoading /\ reloads' = reloads /\ server' = server
    /\ sources' \in [Panels -> Lists]
    /\ \A p \in Panels, r \in Uploads :
            sources'[p][r] # None => sources[p][r] # None \/ r = tasks[u].row

\* A task at another step is otherwise the same.
LEMMA StepOfTask ==
    ASSUME NEW task \in Task,
           NEW step \in {"idle", "upload", "create", "uploaded", "process", "processed", "refused",
                         "check", "get", "sleep"} \cup Ended
    PROVE  /\ [task EXCEPT !.step = step] \in Task
           /\ [task EXCEPT !.step = step].step = step
           /\ [task EXCEPT !.step = step].row = task.row
           /\ [task EXCEPT !.step = step].panel = task.panel
           /\ [task EXCEPT !.step = step].chat = task.chat
           /\ [task EXCEPT !.step = step].wait = task.wait
           /\ [task EXCEPT !.step = step].reply = task.reply
BY DEF Task

\* A watched task that ends keeps the invariant,
LEMMA EndsWell ==
    ASSUME HookInv, NEW u \in Uploads, tasks[u].step \in Watching, PollFrame(u),
           NEW task, GoesOn(u, task), task.step \in Ended, EndTask(u, task)
    PROVE  HookInv' /\ RowsStay /\ TaskMoves(u)
<1>1. tasks' = [tasks EXCEPT ![u] = task] /\ Mark(tasks[u].panel, tasks[u].row, FALSE)
  BY DEF EndTask, GoesOn
<1>2. QED
  BY <1>1, WatchedKeeps DEF PollFrame, GoesOn

\* and one that goes on.
LEMMA GoesOnWell ==
    ASSUME HookInv, NEW u \in Uploads, tasks[u].step \in Watching, PollFrame(u),
           NEW task, GoesOn(u, task), task.step \in Watching,
           tasks' = [tasks EXCEPT ![u] = task], marked' = marked
    PROVE  HookInv' /\ RowsStay /\ TaskMoves(u)
BY WatchedKeeps DEF PollFrame, GoesOn

\* The head of the poll loop keeps the invariant,
LEMMA PollNextKeeps ==
    ASSUME HookInv, NEW u \in Uploads, tasks[u].step \in Watching, PollFrame(u),
           NEW task, GoesOn(u, task), PollNext(u, task)
    PROVE  HookInv' /\ RowsStay /\ TaskMoves(u)
<1>1. CASE Polls(task)
  <2> DEFINE rec == [task EXCEPT !.step = "get"]
  <2>1. tasks' = [tasks EXCEPT ![u] = rec] /\ marked' = marked
    BY <1>1 DEF PollNext
  <2>2. GoesOn(u, rec) /\ rec.step \in Watching
    BY StepOfTask DEF GoesOn, Watching
  <2> HIDE DEF rec
  <2>3. QED
    BY <2>1, <2>2, GoesOnWell
<1>2. CASE ~Polls(task)
  <2> DEFINE rec == [task EXCEPT !.step = "done"]
  <2>1. EndTask(u, rec)
    BY <1>2 DEF PollNext
  <2>2. GoesOn(u, rec) /\ rec.step \in Ended
    BY StepOfTask DEF GoesOn, Ended
  <2> HIDE DEF rec
  <2>3. QED
    BY <2>1, <2>2, EndsWell
<1>3. QED
  BY <1>1, <1>2

\* and its body.
LEMMA PolledKeeps ==
    ASSUME HookInv, NEW u \in Uploads, tasks[u].step \in Watching, PollFrame(u),
           NEW task, GoesOn(u, task), Polled(u, task)
    PROVE  HookInv' /\ RowsStay /\ TaskMoves(u)
<1>1. CASE task.known # "processing"
  <2> DEFINE rec == [task EXCEPT !.step = "done"]
  <2>1. EndTask(u, rec)
    BY <1>1 DEF Polled
  <2>2. GoesOn(u, rec) /\ rec.step \in Ended
    BY StepOfTask DEF GoesOn, Ended
  <2> HIDE DEF rec
  <2>3. QED
    BY <2>1, <2>2, EndsWell
<1>2. CASE task.known = "processing"
  <2> DEFINE rec == [task EXCEPT !.step = "sleep"]
  <2>1. tasks' = [tasks EXCEPT ![u] = rec] /\ marked' = marked
    BY <1>2 DEF Polled
  <2>2. GoesOn(u, rec) /\ rec.step \in Watching
    BY StepOfTask DEF GoesOn, Watching
  <2> HIDE DEF rec
  <2>3. QED
    BY <2>1, <2>2, GoesOnWell
<1>3. QED
  BY <1>1, <1>2

\* A step of the loop that shows nothing,
LEMMA ShowsNothing ==
    ASSUME HookInv, NEW u \in Uploads,
           UNCHANGED <<mounted, sources, isLoading, reloads, server>>
    PROVE  PollFrame(u)
BY DEF HookInv, HookTyped, PollFrame

\* and one that shows the row it was answered.
LEMMA ShowsAnswer ==
    ASSUME HookInv, NEW u \in Uploads, NEW s \in Statuses, tasks[u].step \in Watching,
           UpsertSource(tasks[u].panel, tasks[u].row, s),
           UNCHANGED <<mounted, isLoading, reloads, server>>
    PROVE  PollFrame(u)
<1>1. tasks[u].panel \in Panels /\ tasks[u].row \in Uploads
  BY DEF HookInv, TasksTyped, Watching
<1>2. QED
  BY <1>1, UpsertShows DEF PollFrame

\* The process request was answered.
LEMMA ProcessedKeeps ==
    ASSUME HookInv, NEW u \in Uploads, Processed(u)
    PROVE  HookInv' /\ RowsStay /\ TaskMoves(u)
<1>1. tasks[u].step \in Watching /\ PollNext(u, tasks[u])
  BY DEF Processed, At, Watching
<1>2. GoesOn(u, tasks[u])
  BY DEF GoesOn, HookInv, TasksTyped
<1>3. PollFrame(u)
  BY ShowsNothing DEF Processed
<1>4. QED
  BY <1>1, <1>2, <1>3, PollNextKeeps

\* The process request threw.
LEMMA RefusedKeeps ==
    ASSUME HookInv, NEW u \in Uploads, Refused(u)
    PROVE  HookInv' /\ RowsStay /\ TaskMoves(u)
<1> DEFINE rec == [tasks[u] EXCEPT !.step = "check"]
<1>1. tasks[u].step \in Watching /\ tasks[u] \in Task /\ tasks[u].wait <= PollMaxInterval
  BY DEF Refused, At, Watching, HookInv, TasksTyped
<1>2. tasks' = [tasks EXCEPT ![u] = rec] /\ marked' = marked
  BY DEF Refused, Goto
<1>3. GoesOn(u, rec) /\ rec.step \in Watching
  BY <1>1, StepOfTask DEF GoesOn, Watching
<1>4. PollFrame(u)
  BY ShowsNothing DEF Refused
<1> HIDE DEF rec
<1>5. QED
  BY <1>1, <1>2, <1>3, <1>4, GoesOnWell

\* A task with another answer is otherwise the same,
LEMMA ReplyOfTask ==
    ASSUME NEW task \in Task, NEW s \in Statuses \cup {None}
    PROVE  /\ [task EXCEPT !.reply = s] \in Task
           /\ [task EXCEPT !.reply = s].step = task.step
           /\ [task EXCEPT !.reply = s].row = task.row
           /\ [task EXCEPT !.reply = s].panel = task.panel
           /\ [task EXCEPT !.reply = s].chat = task.chat
           /\ [task EXCEPT !.reply = s].wait = task.wait
BY DEF Task

\* and one with another known status.
LEMMA KnownOfTask ==
    ASSUME NEW task \in Task, NEW s \in Statuses \cup {None}
    PROVE  /\ [task EXCEPT !.known = s] \in Task
           /\ [task EXCEPT !.known = s].step = task.step
           /\ [task EXCEPT !.known = s].row = task.row
           /\ [task EXCEPT !.known = s].panel = task.panel
           /\ [task EXCEPT !.known = s].chat = task.chat
           /\ [task EXCEPT !.known = s].wait = task.wait
           /\ [task EXCEPT !.known = s].reply = task.reply
           /\ [task EXCEPT !.known = s].known = s
BY DEF Task

\* The server answers getSource.
LEMMA AnswerGetKeeps ==
    ASSUME HookInv, NEW u \in Uploads, AnswerGet(u)
    PROVE  HookInv' /\ RowsStay /\ TaskMoves(u)
<1>1. tasks[u].step \in Watching /\ tasks[u] \in Task /\ tasks[u].wait <= PollMaxInterval
  BY DEF AnswerGet, Watching, HookInv, TasksTyped
<1>2. status[tasks[u].row] \in Statuses \cup {None}
  BY <1>1 DEF HookInv, HookTyped, TasksTyped, Lists
<1> DEFINE rec == [tasks[u] EXCEPT !.reply = status[tasks[u].row]]
<1>3. tasks' = [tasks EXCEPT ![u] = rec] /\ marked' = marked
  BY DEF AnswerGet
<1>4. GoesOn(u, rec) /\ rec.step \in Watching
  BY <1>1, <1>2, ReplyOfTask DEF GoesOn
<1>5. PollFrame(u)
  BY ShowsNothing DEF AnswerGet
<1> HIDE DEF rec
<1>6. QED
  BY <1>1, <1>3, <1>4, <1>5, GoesOnWell

\* The answer after a process request that threw.
LEMMA CheckAnswerKeeps ==
    ASSUME HookInv, NEW u \in Uploads, CheckAnswer(u)
    PROVE  HookInv' /\ RowsStay /\ TaskMoves(u)
<1>1. tasks[u].step \in Watching /\ tasks[u] \in Task /\ tasks[u].wait <= PollMaxInterval
  BY DEF CheckAnswer, At, Watching, HookInv, TasksTyped
<1> DEFINE task == [tasks[u] EXCEPT !.reply = None]
<1>2. GoesOn(u, task)
  BY <1>1, ReplyOfTask DEF GoesOn
<1>3. tasks[u].reply \in Statuses
  BY <1>1 DEF CheckAnswer, Task
<1>4. /\ UpsertSource(task.panel, task.row, tasks[u].reply)
      /\ IF tasks[u].reply = "failed"
         THEN EndTask(u, [task EXCEPT !.step = "done", !.known = "failed"])
         ELSE PollNext(u, task)
      /\ UNCHANGED <<mounted, isLoading, reloads, server>>
  BY DEF CheckAnswer
<1> HIDE DEF task
<1>5. PollFrame(u)
  BY <1>1, <1>2, <1>3, <1>4, ShowsAnswer DEF GoesOn
<1>6. CASE tasks[u].reply = "failed"
  <2> DEFINE rec == [task EXCEPT !.step = "done", !.known = "failed"]
  <2>1. EndTask(u, rec)
    BY <1>4, <1>6
  <2>2. GoesOn(u, rec) /\ rec.step \in Ended
    BY <1>2 DEF GoesOn, Task, Ended, Statuses
  <2> HIDE DEF rec
  <2>3. QED
    BY <1>1, <1>5, <2>1, <2>2, EndsWell
<1>7. CASE tasks[u].reply # "failed"
  BY <1>1, <1>2, <1>4, <1>5, <1>7, PollNextKeeps
<1>8. QED
  BY <1>6, <1>7

\* That getSource throws too.
LEMMA CheckFailsKeeps ==
    ASSUME HookInv, NEW u \in Uploads, CheckFails(u)
    PROVE  HookInv' /\ RowsStay /\ TaskMoves(u)
<1>1. tasks[u].step \in Watching /\ tasks[u] \in Task /\ tasks[u].wait <= PollMaxInterval
  BY DEF CheckFails, At, Watching, HookInv, TasksTyped
<1> DEFINE rec == [tasks[u] EXCEPT !.step = "error", !.reply = None]
<1>2. EndTask(u, rec)
  BY DEF CheckFails
<1>3. GoesOn(u, rec) /\ rec.step \in Ended
  BY <1>1 DEF GoesOn, Task, Ended
<1>4. PollFrame(u)
  BY ShowsNothing DEF CheckFails
<1> HIDE DEF rec
<1>5. QED
  BY <1>1, <1>2, <1>3, <1>4, EndsWell

\* An answer inside the loop.
LEMMA PollAnswerKeeps ==
    ASSUME HookInv, NEW u \in Uploads, PollAnswer(u)
    PROVE  HookInv' /\ RowsStay /\ TaskMoves(u)
<1>1. tasks[u].step \in Watching /\ tasks[u] \in Task /\ tasks[u].wait <= PollMaxInterval
  BY DEF PollAnswer, At, Watching, HookInv, TasksTyped
<1>2. tasks[u].reply \in Statuses
  BY <1>1 DEF PollAnswer, Task
<1> DEFINE task == [tasks[u] EXCEPT !.known = tasks[u].reply, !.reply = None]
<1>3. GoesOn(u, task) /\ task.known = tasks[u].reply
  BY <1>1, <1>2 DEF GoesOn, Task
<1>4. /\ UpsertSource(task.panel, task.row, task.known) /\ Polled(u, task)
      /\ UNCHANGED <<mounted, isLoading, reloads, server>>
  BY DEF PollAnswer
<1> HIDE DEF task
<1>5. PollFrame(u)
  BY <1>1, <1>2, <1>3, <1>4, ShowsAnswer DEF GoesOn
<1>6. QED
  BY <1>1, <1>3, <1>4, <1>5, PolledKeeps

\* A getSource that throws inside the loop.
LEMMA PollFailsKeeps ==
    ASSUME HookInv, NEW u \in Uploads, PollFails(u)
    PROVE  HookInv' /\ RowsStay /\ TaskMoves(u)
<1>1. tasks[u].step \in Watching /\ tasks[u] \in Task /\ tasks[u].wait <= PollMaxInterval
  BY DEF PollFails, At, Watching, HookInv, TasksTyped
<1> DEFINE task == [tasks[u] EXCEPT !.reply = None]
<1>2. GoesOn(u, task)
  BY <1>1, ReplyOfTask DEF GoesOn
<1>3. Polled(u, task)
  BY DEF PollFails
<1>4. PollFrame(u)
  BY ShowsNothing DEF PollFails
<1> HIDE DEF task
<1>5. QED
  BY <1>1, <1>2, <1>3, <1>4, PolledKeeps

\* The sleep is over.
LEMMA WakeKeeps ==
    ASSUME HookInv, NEW u \in Uploads, Wake(u)
    PROVE  HookInv' /\ RowsStay /\ TaskMoves(u)
<1>1. tasks[u].step \in Watching /\ tasks[u] \in Task /\ tasks[u].wait <= PollMaxInterval
  BY DEF Wake, At, Watching, HookInv, TasksTyped
<1>2. PICK now \in {tasks[u].elapsed + tasks[u].wait, PollTimeout} :
         PollNext(u, [tasks[u] EXCEPT !.elapsed = IF now < PollTimeout THEN now ELSE PollTimeout,
                                      !.wait = NextWait(@)])
  BY DEF Wake
<1> DEFINE rest == IF now < PollTimeout THEN now ELSE PollTimeout
           task == [tasks[u] EXCEPT !.elapsed = rest, !.wait = NextWait(@)]
<1>3. /\ PollTimeout \in Nat /\ PollMaxInterval \in Nat
      /\ tasks[u].wait \in Nat /\ tasks[u].elapsed \in Nat
  BY <1>1, SourceHookAssumption DEF Task
<1>4. rest \in 0..PollTimeout
  BY <1>2, <1>3
<1>5. NextWait(tasks[u].wait) \in Nat /\ NextWait(tasks[u].wait) <= PollMaxInterval
  BY <1>3 DEF NextWait
<1>6. task = [tasks[u] EXCEPT !.elapsed = rest, !.wait = NextWait(tasks[u].wait)]
  BY <1>1 DEF Task
<1> HIDE DEF rest
<1>7. GoesOn(u, task)
  BY <1>1, <1>4, <1>5, <1>6 DEF GoesOn, Task
<1>8. PollNext(u, task)
  BY <1>2 DEF rest
<1>9. PollFrame(u)
  BY ShowsNothing DEF Wake
<1> HIDE DEF task
<1>10. QED
  BY <1>1, <1>7, <1>8, <1>9, PollNextKeeps
-----------------------------------------------------------------------------
(* The steps of a task before it is watched, and of the server. *)

\* A task begins on a panel, and no other changes.
LEMMA BeginUploadKeeps ==
    ASSUME HookInv, NEW u \in Uploads, NEW p \in Panels, NEW c \in Chats \cup {None},
           BeginUpload(u, p, c)
    PROVE  HookInv' /\ RowsStay
<1> DEFINE rec == [Idle EXCEPT !.step = "upload", !.panel = p, !.chat = c]
<1>1. Idle \in Task
  BY SourceHookAssumption DEF Idle, Task
<1>2. rec \in Task /\ rec.step = "upload" /\ rec.row = None /\ rec.wait = PollInterval /\ rec.panel = p
  BY <1>1 DEF Idle, Task
<1>3. tasks' = [tasks EXCEPT ![u] = rec] /\ tasks[u].step = "idle"
  BY DEF BeginUpload, At
<1> HIDE DEF rec
<1>4. PollInterval <= PollMaxInterval
  BY SourceHookAssumption
<1>5. tasks'[u] = rec /\ \A v \in Uploads : v # u => tasks'[v] = tasks[v]
  BY <1>3 DEF HookInv, TasksTyped
<1>6. tasks' \in [Uploads -> Task]
  BY <1>2, <1>3 DEF HookInv, TasksTyped
<1>7. /\ mounted' = mounted /\ sources' = sources /\ isLoading' = isLoading /\ marked' = marked
      /\ reloads' = reloads /\ jobs' = jobs /\ status' = status /\ linked' = linked
  BY DEF BeginUpload, server
<1>8. HookTyped' /\ RowsStay
  BY <1>7 DEF HookInv, HookTyped, RowsStay
<1>9. TasksTyped'
  BY <1>2, <1>3, <1>4, <1>5, <1>6, <1>7 DEF HookInv, TasksTyped, Watching
<1>10. RowsKnown'
  BY <1>2, <1>5, <1>7 DEF HookInv, RowsKnown
<1>11. MarkedWatched'
  <2> SUFFICES ASSUME NEW q \in Panels, NEW r \in marked[q]
               PROVE  \E v \in Uploads : /\ tasks'[v].step \in Watching /\ tasks'[v].panel = q
                                         /\ tasks'[v].row = r
    BY <1>7 DEF MarkedWatched
  <2>1. PICK v \in Uploads : tasks[v].step \in Watching /\ tasks[v].panel = q /\ tasks[v].row = r
    BY DEF HookInv, MarkedWatched
  <2>2. v # u
    BY <1>3, <2>1 DEF Watching
  <2>3. QED
    BY <1>5, <2>1, <2>2
<1>12. QED
  BY <1>8, <1>9, <1>10, <1>11 DEF HookInv

\* A step that leaves the list alone and the task unwatched.
LEMMA UnwatchedKeeps ==
    ASSUME HookInv, NEW u \in Uploads, NEW rec, GoodTask(u, rec),
           tasks' = [tasks EXCEPT ![u] = rec], tasks[u].step \notin Watching,
           UNCHANGED <<mounted, sources, isLoading, marked, reloads, jobs>>,
           jobs[u] # "none" => rec.row \in Uploads,
           status' \in Lists,
           \A r \in Uploads : status[r] # None => status'[r] # None,
           rec.row # None => status'[rec.row] # None,
           linked' \in [Chats -> SUBSET Uploads],
           \A c \in Chats : /\ linked[c] \subseteq linked'[c]
                             /\ \A r \in linked'[c] : r \in linked[c] \/ r = rec.row
    PROVE  HookInv' /\ RowsStay /\ TaskMoves(u)
<1>1. /\ mounted' = mounted /\ sources' = sources /\ isLoading' = isLoading /\ marked' = marked
      /\ reloads' = reloads /\ jobs' = jobs
  OBVIOUS
<1>2. /\ sources' \in [Panels -> Lists] /\ jobs' \in [Uploads -> {"none", "waiting", "running"}]
      /\ marked' \in [Panels -> SUBSET Uploads]
  BY <1>1 DEF HookInv, HookTyped
<1>3. MarkedWatched'
  BY <1>1, MarksStay
<1>4. QED
  BY <1>1, <1>2, <1>3, TaskKeeps

\* The row of an upload that is found or created is linked to the chat it was
\* begun in.
LEMMA UploadedKeeps ==
    ASSUME HookInv, NEW u \in Uploads, NEW r \in Uploads, NEW s \in Statuses,
           tasks[u].step \in {"upload", "create"}, Uploaded(u, r, s),
           UNCHANGED <<mounted, sources, isLoading, marked, reloads, jobs>>,
           status' \in Lists,
           \A x \in Uploads : status[x] # None => status'[x] # None,
           status'[r] # None
    PROVE  HookInv' /\ RowsStay /\ TaskMoves(u)
<1> DEFINE rec == [tasks[u] EXCEPT !.step = "uploaded", !.row = r, !.reply = s]
<1>1. tasks' = [tasks EXCEPT ![u] = rec]
  BY DEF Uploaded
<1>2. tasks[u] \in Task /\ tasks[u].wait <= PollMaxInterval
  BY DEF HookInv, TasksTyped
<1>3. /\ rec \in Task /\ rec.step = "uploaded" /\ rec.row = r /\ rec.reply = s
      /\ rec.wait = tasks[u].wait /\ rec.panel = tasks[u].panel /\ rec.chat = tasks[u].chat
  BY <1>2 DEF Task
<1> HIDE DEF rec
<1>4. GoodTask(u, rec)
  BY <1>2, <1>3 DEF GoodTask, Working, Ended
<1>5. tasks[u].step \notin Watching
  BY DEF Watching
<1>6. tasks[u].chat \in Chats \cup {None} /\ linked \in [Chats -> SUBSET Uploads]
  BY <1>2 DEF Task, HookInv, HookTyped
<1>7. /\ linked' \in [Chats -> SUBSET Uploads]
      /\ \A c \in Chats : /\ linked[c] \subseteq linked'[c]
                           /\ \A x \in linked'[c] : x \in linked[c] \/ x = rec.row
  <2>1. CASE tasks[u].chat = None
    BY <1>6, <2>1 DEF Uploaded
  <2>2. CASE tasks[u].chat # None
    <3>1. tasks[u].chat \in Chats
      BY <1>6, <2>2
    <3>2. linked' = [linked EXCEPT ![tasks[u].chat] = linked[tasks[u].chat] \cup {r}]
      BY <2>2 DEF Uploaded
    <3>3. QED
      BY <1>3, <1>6, <3>1, <3>2
  <2>3. QED
    BY <2>1, <2>2
<1>8. QED
  BY <1>1, <1>3, <1>4, <1>5, <1>7, UnwatchedKeeps

\* The upload route finds the content, or goes on to create it.
LEMMA FindSourceKeeps ==
    ASSUME HookInv, NEW u \in Uploads, FindSource(u)
    PROVE  HookInv' /\ RowsStay /\ TaskMoves(u)
<1>1. tasks[u].step = "upload" /\ status' = status /\ status \in Lists
  BY DEF FindSource, At, HookInv, HookTyped
<1>2. UNCHANGED <<mounted, sources, isLoading, marked, reloads, jobs>>
  BY DEF FindSource
<1>3. CASE \E r \in SameFile(u) : Uploaded(u, r, status[r])
  <2>1. PICK r \in SameFile(u) : Uploaded(u, r, status[r])
    BY <1>3
  <2>2. r \in Uploads /\ status[r] \in Statuses /\ status'[r] # None
    BY <1>1 DEF SameFile, Rows, Lists
  <2>3. QED
    BY <1>1, <1>2, <2>1, <2>2, UploadedKeeps
<1>4. CASE Goto(u, "create") /\ UNCHANGED linked
  <2> DEFINE rec == [tasks[u] EXCEPT !.step = "create"]
  <2>1. tasks' = [tasks EXCEPT ![u] = rec] /\ linked' = linked
    BY <1>4 DEF Goto
  <2>2. tasks[u] \in Task /\ tasks[u].wait <= PollMaxInterval
    BY DEF HookInv, TasksTyped
  <2>3. /\ rec \in Task /\ rec.step = "create" /\ rec.row = tasks[u].row
        /\ rec.wait = tasks[u].wait /\ rec.panel = tasks[u].panel /\ rec.chat = tasks[u].chat
    BY <2>2 DEF Task
  <2> HIDE DEF rec
  <2>4. GoodTask(u, rec)
    BY <1>1, <2>2, <2>3 DEF GoodTask, Working, Ended, Watching
  <2>5. /\ jobs[u] # "none" => rec.row \in Uploads
        /\ rec.row # None => status'[rec.row] # None
        /\ linked' \in [Chats -> SUBSET Uploads]
    BY <1>1, <2>1, <2>3 DEF HookInv, HookTyped, TasksTyped, RowsKnown
  <2>6. tasks[u].step \notin Watching
    BY <1>1 DEF Watching
  <2>7. QED
    BY <1>1, <1>2, <2>1, <2>4, <2>5, <2>6, UnwatchedKeeps
<1>5. QED
  BY <1>3, <1>4 DEF FindSource

\* It creates the row.
LEMMA CreateSourceKeeps ==
    ASSUME HookInv, NEW u \in Uploads, CreateSource(u)
    PROVE  HookInv' /\ RowsStay /\ TaskMoves(u)
<1>1. tasks[u].step = "create" /\ status \in Lists /\ "processing" \in Statuses
  BY DEF CreateSource, At, HookInv, HookTyped, Statuses
<1>2. status' = [status EXCEPT ![u] = "processing"]
  BY DEF CreateSource
<1>3. "processing" # None
  BY <1>1, SourceHookAssumption
<1>4. /\ status' \in Lists /\ status'[u] # None
      /\ \A x \in Uploads : status[x] # None => status'[x] # None
  BY <1>1, <1>2, <1>3 DEF Lists
<1>5. Uploaded(u, u, "processing") /\ UNCHANGED <<mounted, sources, isLoading, marked, reloads, jobs>>
  BY DEF CreateSource
<1>6. QED
  BY <1>1, <1>4, <1>5, UploadedKeeps

\* A task that fails before it is watched keeps the row it may have.
LEMMA GivesUp ==
    ASSUME HookInv, NEW u \in Uploads, tasks[u].step \in {"upload", "create", "uploaded"},
           Goto(u, "error"), UNCHANGED <<mounted, sources, isLoading, marked, reloads, jobs, linked>>,
           status' \in Lists,
           \A r \in Uploads : status[r] # None => status'[r] # None
    PROVE  HookInv' /\ RowsStay /\ TaskMoves(u)
<1> DEFINE rec == [tasks[u] EXCEPT !.step = "error"]
<1>1. tasks' = [tasks EXCEPT ![u] = rec] /\ linked' = linked
  BY DEF Goto
<1>2. tasks[u] \in Task /\ tasks[u].wait <= PollMaxInterval
  BY DEF HookInv, TasksTyped
<1>3. /\ rec \in Task /\ rec.step = "error" /\ rec.row = tasks[u].row
      /\ rec.wait = tasks[u].wait /\ rec.panel = tasks[u].panel /\ rec.chat = tasks[u].chat
  BY <1>2 DEF Task, Ended
<1> HIDE DEF rec
<1>4. GoodTask(u, rec)
  BY <1>2, <1>3 DEF GoodTask, Working, Ended, Watching
<1>5. rec.row \in Uploads \cup {None}
  BY <1>2, <1>3 DEF Task
<1>6. /\ jobs[u] # "none" => rec.row \in Uploads
      /\ rec.row # None => status'[rec.row] # None
      /\ linked' \in [Chats -> SUBSET Uploads]
  BY <1>1, <1>3, <1>5 DEF HookInv, HookTyped, TasksTyped, RowsKnown
<1>7. tasks[u].step \notin Watching
  BY DEF Watching
<1>8. QED
  BY <1>1, <1>4, <1>6, <1>7, UnwatchedKeeps

\* It creates the row and fails on the chat.
LEMMA CreateUnlinkedKeeps ==
    ASSUME HookInv, NEW u \in Uploads, CreateUnlinked(u)
    PROVE  HookInv' /\ RowsStay /\ TaskMoves(u)
<1>1. tasks[u].step = "create" /\ status \in Lists /\ "processing" \in Statuses
  BY DEF CreateUnlinked, At, HookInv, HookTyped, Statuses
<1>2. status' = [status EXCEPT ![u] = "processing"] /\ "processing" # None
  BY <1>1, SourceHookAssumption DEF CreateUnlinked
<1>3. status' \in Lists /\ \A r \in Uploads : status[r] # None => status'[r] # None
  BY <1>1, <1>2 DEF Lists
<1>4. QED
  BY <1>1, <1>3, GivesUp DEF CreateUnlinked

\* The upload fails for the client.
LEMMA UploadFailsKeeps ==
    ASSUME HookInv, NEW u \in Uploads, UploadFails(u)
    PROVE  HookInv' /\ RowsStay /\ TaskMoves(u)
<1>1. status' = status /\ status \in Lists /\ jobs' = jobs /\ linked' = linked
  BY DEF UploadFails, HookInv, HookTyped, server
<1>2. QED
  BY <1>1, GivesUp DEF UploadFails

\* The client shows and marks the source and asks for its processing.
LEMMA RegisteredKeeps ==
    ASSUME HookInv, NEW u \in Uploads, Registered(u)
    PROVE  HookInv' /\ RowsStay /\ TaskMoves(u)
<1>1. /\ tasks[u].step = "uploaded" /\ tasks[u] \in Task /\ tasks[u].wait <= PollMaxInterval
      /\ tasks[u].row \in Uploads /\ tasks[u].reply \in Statuses /\ tasks[u].panel \in Panels
  BY DEF Registered, At, HookInv, TasksTyped
<1> DEFINE rec == [tasks[u] EXCEPT !.step = "process", !.known = tasks[u].reply, !.reply = None]
<1>2. tasks' = [tasks EXCEPT ![u] = rec]
  BY DEF Registered
<1>3. /\ rec \in Task /\ rec.step = "process" /\ rec.row = tasks[u].row
      /\ rec.wait = tasks[u].wait /\ rec.panel = tasks[u].panel /\ rec.chat = tasks[u].chat
  BY <1>1 DEF Task
<1> HIDE DEF rec
<1>4. GoodTask(u, rec)
  BY <1>1, <1>3 DEF GoodTask, Working, Ended
<1>5. /\ sources' \in [Panels -> Lists]
      /\ \A p \in Panels, r \in Uploads :
             sources'[p][r] # None => sources[p][r] # None \/ r = tasks[u].row
  BY <1>1, UpsertShows DEF Registered
<1>6. MarkedWatched' /\ marked' \in [Panels -> SUBSET Uploads]
  <2>1. tasks[u].step \notin Watching /\ rec.step \in Watching
    BY <1>1, <1>3 DEF Watching
  <2>2. Mark(tasks[u].panel, tasks[u].row, TRUE)
    BY DEF Registered
  <2>3. QED
    BY <1>1, <1>2, <1>3, <2>1, <2>2, MarkComes
<1>7. jobs' = [jobs EXCEPT ![u] = "waiting"] /\ status' = status /\ linked' = linked
  BY DEF Registered
<1>8. /\ jobs' \in [Uploads -> {"none", "waiting", "running"}]
      /\ \A v \in Uploads : v # u => jobs'[v] = jobs[v]
      /\ status' \in Lists /\ linked' \in [Chats -> SUBSET Uploads]
  BY <1>7 DEF HookInv, HookTyped
<1>9. status[tasks[u].row] # None
  BY <1>1, SourceHookAssumption DEF HookInv, RowsKnown
<1>10. mounted' = mounted /\ isLoading' = isLoading /\ reloads' = reloads
  BY DEF Registered
<1>11. \A v \in Uploads : jobs'[v] # "none" =>
          IF v = u THEN rec.row \in Uploads ELSE jobs[v] # "none"
  BY <1>1, <1>3, <1>8
<1>12. /\ \A r \in Uploads : status[r] # None => status'[r] # None
       /\ rec.row # None => status'[rec.row] # None
       /\ \A c \in Chats : /\ linked[c] \subseteq linked'[c]
                            /\ \A r \in linked'[c] : r \in linked[c] \/ r = rec.row
  BY <1>3, <1>7, <1>9
<1>13. QED
  BY <1>2, <1>4, <1>5, <1>6, <1>8, <1>10, <1>11, <1>12, TaskKeeps

-----------------------------------------------------------------------------
(* The jobs of the server. *)

\* A job goes on or ends, with the row it has and perhaps the task's answer.
LEMMA JobKeeps ==
    ASSUME HookInv, NEW u \in Uploads, NEW rec, GoodTask(u, rec), rec.row = tasks[u].row,
           tasks[u].step \in Watching => rec.step \in Watching,
           tasks' = [tasks EXCEPT ![u] = rec],
           UNCHANGED <<mounted, sources, isLoading, marked, reloads, linked>>,
           NEW state \in {"none", "waiting", "running"},
           jobs' = [jobs EXCEPT ![u] = state],
           state # "none" => jobs[u] # "none",
           status' \in Lists,
           \A r \in Uploads : status[r] # None => status'[r] # None
    PROVE  HookInv' /\ RowsStay /\ TaskMoves(u)
<1>1. /\ mounted' = mounted /\ sources' = sources /\ isLoading' = isLoading /\ marked' = marked
      /\ reloads' = reloads /\ linked' = linked
  OBVIOUS
<1>2. /\ sources' \in [Panels -> Lists] /\ linked' \in [Chats -> SUBSET Uploads]
      /\ marked' \in [Panels -> SUBSET Uploads]
  BY <1>1 DEF HookInv, HookTyped
<1>3. /\ jobs' \in [Uploads -> {"none", "waiting", "running"}]
      /\ jobs'[u] = state /\ \A v \in Uploads : v # u => jobs'[v] = jobs[v]
  BY DEF HookInv, HookTyped
<1>4. tasks[u].row \in Uploads \cup {None}
  BY DEF HookInv, TasksTyped, Task
<1>5. /\ jobs'[u] # "none" => rec.row \in Uploads
      /\ rec.row # None => status'[rec.row] # None
  BY <1>3, <1>4 DEF HookInv, TasksTyped, RowsKnown
<1>6. rec.panel = tasks[u].panel
  BY DEF GoodTask
<1>7. MarkedWatched'
  BY <1>1, <1>6, MarksStay
<1>8. QED
  BY <1>1, <1>2, <1>3, <1>5, <1>7, TaskKeeps

\* A task is as it was.
LEMMA SameTask ==
    ASSUME HookInv, NEW u \in Uploads, tasks[u].step # "idle"
    PROVE  GoodTask(u, tasks[u]) /\ tasks = [tasks EXCEPT ![u] = tasks[u]]
BY DEF HookInv, TasksTyped, GoodTask

\* The answer of a job to its task.
AnsweredTask(u, rec) ==
    /\ GoodTask(u, rec) /\ rec.row = tasks[u].row
    /\ tasks[u].step \in Watching => rec.step \in Watching
    /\ tasks' = [tasks EXCEPT ![u] = rec]

\* A job that ends answers its task if it still waits.
LEMMA RepliedTask ==
    ASSUME HookInv, NEW u \in Uploads, NEW step \in {"processed", "refused"}, Replied(u, step),
           jobs[u] # "none"
    PROVE  \E rec \in Task : AnsweredTask(u, rec)
<1>1. /\ tasks[u] \in Task /\ tasks[u].wait <= PollMaxInterval
      /\ tasks[u].step # "idle" /\ tasks[u].row \in Uploads
  BY DEF HookInv, TasksTyped
<1>2. CASE At(u, "process")
  <2> DEFINE rec == [tasks[u] EXCEPT !.step = step]
  <2>1. tasks' = [tasks EXCEPT ![u] = rec]
    BY <1>2 DEF Replied
  <2>2. /\ rec \in Task /\ rec.step = step /\ rec.row = tasks[u].row
        /\ rec.wait = tasks[u].wait /\ rec.panel = tasks[u].panel /\ rec.chat = tasks[u].chat
    BY <1>1, StepOfTask
  <2> HIDE DEF rec
  <2>3. GoodTask(u, rec) /\ rec.step \in Watching
    BY <1>1, <1>2, <2>2 DEF GoodTask, Working, Ended, Watching, At
  <2>4. AnsweredTask(u, rec)
    BY <2>1, <2>2, <2>3 DEF AnsweredTask
  <2>5. QED
    BY <2>2, <2>4
<1>3. CASE ~At(u, "process")
  <2>1. tasks' = tasks
    BY <1>3 DEF Replied
  <2>2. AnsweredTask(u, tasks[u])
    BY <1>1, <2>1, SameTask DEF AnsweredTask
  <2>3. QED
    BY <1>1, <2>2
<1>4. QED
  BY <1>2, <1>3

\* A job begins.
LEMMA BeginJobKeeps ==
    ASSUME HookInv, NEW u \in Uploads, BeginJob(u)
    PROVE  HookInv' /\ RowsStay /\ TaskMoves(u)
<1>1. tasks[u].step # "idle" /\ tasks[u].row \in Uploads /\ jobs[u] # "none"
  BY DEF BeginJob, HookInv, TasksTyped
<1>2. GoodTask(u, tasks[u]) /\ tasks' = [tasks EXCEPT ![u] = tasks[u]]
  BY <1>1, SameTask DEF BeginJob, hookVars
<1>3. "processing" \in Statuses /\ "processing" # None
  BY SourceHookAssumption DEF Statuses
<1>4. status' \in Lists /\ \A r \in Uploads : status[r] # None => status'[r] # None
  BY <1>1, <1>3 DEF BeginJob, HookInv, HookTyped, Lists
<1>5. UNCHANGED <<mounted, sources, isLoading, marked, reloads, linked>>
  BY DEF BeginJob, hookVars
<1>6. jobs' = [jobs EXCEPT ![u] = "running"]
  BY DEF BeginJob
<1>7. QED
  BY <1>1, <1>2, <1>4, <1>5, <1>6, JobKeeps

\* A job ends.
LEMMA FinishJobKeeps ==
    ASSUME HookInv, NEW u \in Uploads, FinishJob(u)
    PROVE  HookInv' /\ RowsStay /\ TaskMoves(u)
<1>1. jobs[u] # "none" /\ tasks[u].row \in Uploads /\ status \in Lists
  BY DEF FinishJob, HookInv, HookTyped, TasksTyped
<1>2. PICK s \in {"ready", "failed"}, step \in {"processed", "refused"} :
         status' = [status EXCEPT ![tasks[u].row] = s] /\ Replied(u, step)
  BY DEF FinishJob
<1>3. s \in Statuses /\ s # None
  BY <1>2, SourceHookAssumption DEF Statuses
<1>4. status' \in Lists /\ \A r \in Uploads : status[r] # None => status'[r] # None
  BY <1>1, <1>2, <1>3 DEF Lists
<1>5. PICK rec \in Task : AnsweredTask(u, rec)
  BY <1>1, <1>2, RepliedTask
<1>6. /\ UNCHANGED <<mounted, sources, isLoading, marked, reloads, linked>>
      /\ jobs' = [jobs EXCEPT ![u] = "none"]
  BY DEF FinishJob
<1>7. QED
  BY <1>4, <1>5, <1>6, JobKeeps DEF AnsweredTask

\* A job dies with the server.
LEMMA JobDiesKeeps ==
    ASSUME HookInv, NEW u \in Uploads, JobDies(u)
    PROVE  HookInv' /\ RowsStay /\ TaskMoves(u)
<1>1. jobs[u] # "none" /\ status' = status /\ status \in Lists
  BY DEF JobDies, HookInv, HookTyped
<1>2. PICK rec \in Task : AnsweredTask(u, rec)
  BY <1>1, RepliedTask DEF JobDies
<1>3. /\ UNCHANGED <<mounted, sources, isLoading, marked, reloads, linked>>
      /\ jobs' = [jobs EXCEPT ![u] = "none"]
  BY DEF JobDies
<1>4. QED
  BY <1>1, <1>2, <1>3, JobKeeps DEF AnsweredTask

\* The process request or its answer is lost.
LEMMA ProcessLostKeeps ==
    ASSUME HookInv, NEW u \in Uploads, ProcessLost(u)
    PROVE  HookInv' /\ RowsStay /\ TaskMoves(u)
<1>1. /\ tasks[u].step = "process" /\ tasks[u] \in Task /\ tasks[u].wait <= PollMaxInterval
      /\ tasks[u].row \in Uploads
  BY DEF ProcessLost, At, HookInv, TasksTyped, Watching
<1> DEFINE rec == [tasks[u] EXCEPT !.step = "refused"]
<1>2. tasks' = [tasks EXCEPT ![u] = rec]
  BY DEF ProcessLost, Goto
<1>3. /\ rec \in Task /\ rec.step = "refused" /\ rec.row = tasks[u].row
      /\ rec.wait = tasks[u].wait /\ rec.panel = tasks[u].panel /\ rec.chat = tasks[u].chat
  BY <1>1, StepOfTask
<1> HIDE DEF rec
<1>4. GoodTask(u, rec) /\ rec.step \in Watching
  BY <1>1, <1>3 DEF GoodTask, Working, Ended, Watching
<1>5. status' = status /\ status \in Lists /\ jobs \in [Uploads -> {"none", "waiting", "running"}]
  BY DEF ProcessLost, HookInv, HookTyped
<1>6. PICK state \in {"none", "waiting", "running"} :
         jobs' = [jobs EXCEPT ![u] = state] /\ (state # "none" => jobs[u] # "none")
  <2>1. CASE jobs' = jobs
    BY <1>5, <2>1
  <2>2. CASE jobs' = [jobs EXCEPT ![u] = IF @ = "waiting" THEN "none" ELSE @]
    BY <1>5, <2>2
  <2>3. QED
    BY <2>1, <2>2 DEF ProcessLost
<1>7. UNCHANGED <<mounted, sources, isLoading, marked, reloads, linked>>
  BY DEF ProcessLost
<1>8. QED
  BY <1>2, <1>3, <1>4, <1>5, <1>6, <1>7, JobKeeps
-----------------------------------------------------------------------------
(* The steps of the list, and the panels leaving. *)

\* A step of the list leaves tasks, marks and rows alone.
LEMMA ListKeeps ==
    ASSUME HookInv, UNCHANGED <<marked, tasks, server>>,
           mounted' \in [Panels -> BOOLEAN], isLoading' \in [Panels -> BOOLEAN],
           sources' \in [Panels -> Lists],
           reloads' \in [Panels -> [Reloads -> ReloadCall \cup {None}]],
           \A p \in Panels, r \in Uploads : sources'[p][r] # None => status[r] # None,
           \A p \in Panels, i \in Reloads, r \in Uploads :
              reloads'[p][i] # None /\ reloads'[p][i].reply # None /\ reloads'[p][i].reply[r] # None =>
                  status[r] # None
    PROVE  HookInv' /\ RowsStay
<1>1. /\ marked' = marked /\ tasks' = tasks /\ jobs' = jobs /\ status' = status /\ linked' = linked
  BY DEF server
<1>2. HookTyped' /\ RowsStay
  BY <1>1 DEF HookInv, HookTyped, RowsStay
<1>3. TasksTyped' /\ MarkedWatched'
  BY <1>1 DEF HookInv, TasksTyped, MarkedWatched
<1>4. RowsKnown'
  BY <1>1 DEF HookInv, RowsKnown
<1>5. QED
  BY <1>2, <1>3, <1>4 DEF HookInv

\* A reload begins.
LEMMA RefreshSourcesKeeps ==
    ASSUME HookInv, NEW p \in Panels, RefreshSources(p)
    PROVE  HookInv' /\ RowsStay
<1>1. PICK i \in Reloads : reloads' = [reloads EXCEPT ![p][i] = Sent]
  BY DEF RefreshSources
<1>2. Sent \in ReloadCall /\ Sent.reply = None
  BY DEF Sent, ReloadCall
<1>3. reloads \in [Panels -> [Reloads -> ReloadCall \cup {None}]]
  BY DEF HookInv, HookTyped
<1>4. reloads' \in [Panels -> [Reloads -> ReloadCall \cup {None}]]
  BY <1>1, <1>2, <1>3
<1>5. \A q \in Panels, j \in Reloads : reloads'[q][j] = reloads[q][j] \/ reloads'[q][j] = Sent
  BY <1>1, <1>3
<1>6. mounted' = mounted /\ sources' = sources /\ isLoading' = [isLoading EXCEPT ![p] = TRUE]
  BY DEF RefreshSources
<1>7. /\ mounted' \in [Panels -> BOOLEAN] /\ isLoading' \in [Panels -> BOOLEAN]
      /\ sources' \in [Panels -> Lists]
  BY <1>6 DEF HookInv, HookTyped
<1>8. \A q \in Panels, r \in Uploads : sources'[q][r] # None => status[r] # None
  BY <1>6 DEF HookInv, RowsKnown
<1>9. \A q \in Panels, j \in Reloads, r \in Uploads :
         reloads'[q][j] # None /\ reloads'[q][j].reply # None /\ reloads'[q][j].reply[r] # None =>
             status[r] # None
  BY <1>2, <1>5 DEF HookInv, RowsKnown
<1>10. UNCHANGED <<marked, tasks, server>>
  BY DEF RefreshSources
<1>11. QED
  BY <1>4, <1>7, <1>8, <1>9, <1>10, ListKeeps

\* The server answers it with its rows.
LEMMA AnswerReloadKeeps ==
    ASSUME HookInv, NEW p \in Panels, NEW i \in Reloads, AnswerReload(p, i)
    PROVE  HookInv' /\ RowsStay
<1>1. /\ reloads \in [Panels -> [Reloads -> ReloadCall \cup {None}]] /\ status \in Lists
      /\ reloads[p][i] \in ReloadCall
  BY DEF HookInv, HookTyped, AnswerReload, Unanswered, InFlight
<1> DEFINE call == [reloads[p][i] EXCEPT !.reply = status]
<1>2. reloads' = [reloads EXCEPT ![p][i] = call]
  BY <1>1 DEF AnswerReload
<1>3. call \in ReloadCall /\ call.reply = status
  BY <1>1 DEF ReloadCall
<1> HIDE DEF call
<1>4. reloads' \in [Panels -> [Reloads -> ReloadCall \cup {None}]]
  BY <1>1, <1>2, <1>3
<1>5. \A q \in Panels, j \in Reloads : reloads'[q][j] = reloads[q][j] \/ reloads'[q][j] = call
  BY <1>1, <1>2
<1>6. mounted' = mounted /\ sources' = sources /\ isLoading' = isLoading
  BY DEF AnswerReload
<1>7. /\ mounted' \in [Panels -> BOOLEAN] /\ isLoading' \in [Panels -> BOOLEAN]
      /\ sources' \in [Panels -> Lists]
  BY <1>6 DEF HookInv, HookTyped
<1>8. \A q \in Panels, r \in Uploads : sources'[q][r] # None => status[r] # None
  BY <1>6 DEF HookInv, RowsKnown
<1>9. \A q \in Panels, j \in Reloads, r \in Uploads :
         reloads'[q][j] # None /\ reloads'[q][j].reply # None /\ reloads'[q][j].reply[r] # None =>
             status[r] # None
  BY <1>3, <1>5 DEF HookInv, RowsKnown
<1>10. UNCHANGED <<marked, tasks, server>>
  BY DEF AnswerReload
<1>11. QED
  BY <1>4, <1>7, <1>8, <1>9, <1>10, ListKeeps

\* The panel shows the list it ends with.
LEMMA ReloadEndsKeeps ==
    ASSUME HookInv, NEW p \in Panels, NEW i \in Reloads, NEW list \in Lists,
           \A r \in Uploads : list[r] # None => status[r] # None,
           ReloadEnds(p, i, list)
    PROVE  HookInv' /\ RowsStay
<1>1. /\ reloads \in [Panels -> [Reloads -> ReloadCall \cup {None}]]
      /\ sources \in [Panels -> Lists] /\ isLoading \in [Panels -> BOOLEAN]
      /\ mounted \in [Panels -> BOOLEAN]
  BY DEF HookInv, HookTyped
<1>2. reloads' = [reloads EXCEPT ![p][i] = None] /\ mounted' = mounted
  BY DEF ReloadEnds
<1>3. reloads' \in [Panels -> [Reloads -> ReloadCall \cup {None}]]
  BY <1>1, <1>2
<1>4. \A q \in Panels, j \in Reloads : reloads'[q][j] = reloads[q][j] \/ reloads'[q][j] = None
  BY <1>1, <1>2
<1>5. isLoading' \in [Panels -> BOOLEAN] /\ mounted' \in [Panels -> BOOLEAN]
  BY <1>1 DEF ReloadEnds
<1>6. /\ sources' \in [Panels -> Lists]
      /\ \A q \in Panels : sources'[q] = sources[q] \/ sources'[q] = list
  BY <1>1 DEF ReloadEnds, ShowMounted
<1>7. \A q \in Panels, r \in Uploads : sources'[q][r] # None => status[r] # None
  BY <1>6 DEF HookInv, RowsKnown
<1>8. \A q \in Panels, j \in Reloads, r \in Uploads :
         reloads'[q][j] # None /\ reloads'[q][j].reply # None /\ reloads'[q][j].reply[r] # None =>
             status[r] # None
  BY <1>4 DEF HookInv, RowsKnown
<1>9. UNCHANGED <<marked, tasks, server>>
  BY DEF ReloadEnds
<1>10. QED
  BY <1>3, <1>5, <1>6, <1>7, <1>8, <1>9, ListKeeps

\* Every step of a reload.
LEMMA ReloadKeeps ==
    ASSUME HookInv, NEW p \in Panels, NEW i \in Reloads,
           AnswerReload(p, i) \/ ReceiveReload(p, i) \/ ReloadFails(p, i)
    PROVE  HookInv' /\ RowsStay
<1>1. CASE AnswerReload(p, i)
  BY <1>1, AnswerReloadKeeps
<1>2. CASE ReceiveReload(p, i)
  <2> DEFINE list == reloads[p][i].reply
  <2>1. reloads[p][i] # None /\ list # None /\ ReloadEnds(p, i, list)
    BY <1>2 DEF ReceiveReload, Answered, InFlight
  <2>2. reloads[p][i] \in ReloadCall
    BY <2>1 DEF HookInv, HookTyped
  <2>3. list \in Lists /\ \A r \in Uploads : list[r] # None => status[r] # None
    BY <2>1, <2>2 DEF HookInv, RowsKnown, ReloadCall
  <2> HIDE DEF list
  <2>4. QED
    BY <2>1, <2>3, ReloadEndsKeeps
<1>3. CASE ReloadFails(p, i)
  <2>1. Nothing \in Lists /\ \A r \in Uploads : Nothing[r] = None
    BY DEF Nothing, Lists
  <2>2. QED
    BY <1>3, <2>1, ReloadEndsKeeps DEF ReloadFails
<1>4. QED
  BY <1>1, <1>2, <1>3

\* The panels leave.
LEMMA UnmountKeeps ==
    ASSUME HookInv, Unmount
    PROVE  HookInv' /\ RowsStay
<1>1. /\ mounted' = [p \in Panels |-> FALSE] /\ sources' = sources /\ isLoading' = isLoading
      /\ reloads' = reloads /\ UNCHANGED <<marked, tasks, server>>
  BY DEF Unmount
<1>2. /\ mounted' \in [Panels -> BOOLEAN] /\ isLoading' \in [Panels -> BOOLEAN]
      /\ sources' \in [Panels -> Lists]
      /\ reloads' \in [Panels -> [Reloads -> ReloadCall \cup {None}]]
  BY <1>1 DEF HookInv, HookTyped
<1>3. \A q \in Panels, r \in Uploads : sources'[q][r] # None => status[r] # None
  BY <1>1 DEF HookInv, RowsKnown
<1>4. \A q \in Panels, j \in Reloads, r \in Uploads :
         reloads'[q][j] # None /\ reloads'[q][j].reply # None /\ reloads'[q][j].reply[r] # None =>
             status[r] # None
  BY <1>1 DEF HookInv, RowsKnown
<1>5. QED
  BY <1>1, <1>2, <1>3, <1>4, ListKeeps

\* The hook as every panel mounts it.
LEMMA HookStarts ==
    ASSUME NEW present \in SUBSET Panels, HookInit(present)
    PROVE  HookInv
<1>1. Nothing \in Lists /\ \A r \in Uploads : Nothing[r] = None
  BY DEF Nothing, Lists
<1>2. Sent \in ReloadCall /\ Sent.reply = None
  BY DEF Sent, ReloadCall
<1>3. /\ reloads \in [Panels -> [Reloads -> ReloadCall \cup {None}]]
      /\ \A p \in Panels, i \in Reloads : reloads[p][i] = Sent \/ reloads[p][i] = None
  BY <1>2 DEF HookInit
<1>4. Idle \in Task /\ Idle.step = "idle" /\ Idle.wait <= PollMaxInterval /\ Idle.row = None
  BY SourceHookAssumption DEF Idle, Task
<1>5. HookTyped
  BY <1>1, <1>3 DEF HookInit, HookTyped
<1>6. TasksTyped
  BY <1>4 DEF HookInit, TasksTyped, Watching
<1>7. RowsKnown
  BY <1>1, <1>2, <1>3, <1>4 DEF HookInit, RowsKnown
<1>8. MarkedWatched
  BY DEF HookInit, MarkedWatched
<1>9. QED
  BY <1>5, <1>6, <1>7, <1>8 DEF HookInv

\* Every step of a task.
LEMMA TaskStepsKeep ==
    ASSUME HookInv, NEW u \in Uploads, ClientStep(u) \/ ServerStep(u)
    PROVE  HookInv' /\ RowsStay /\ TaskMoves(u)
<1>1. CASE ClientStep(u)
  BY <1>1, RegisteredKeeps, ProcessedKeeps, RefusedKeeps, CheckAnswerKeeps, PollAnswerKeeps,
     WakeKeeps, UploadFailsKeeps, CreateUnlinkedKeeps, ProcessLostKeeps, CheckFailsKeeps,
     PollFailsKeeps DEF ClientStep
<1>2. CASE ServerStep(u)
  BY <1>2, FindSourceKeeps, CreateSourceKeeps, BeginJobKeeps, FinishJobKeeps, AnswerGetKeeps,
     JobDiesKeeps DEF ServerStep
<1>3. QED
  BY <1>1, <1>2
-----------------------------------------------------------------------------
(* The invariant of the panels. *)

\* A task that a form of the panel waits for.
Adds(u, p, k) == Working(u) /\ tasks[u].panel = p /\ Kind[u] = k

PlanType ==
    [panels : SUBSET Panels, uploads : SUBSET Uploads,
     moves : Nat, reloads : Nat, links : Nat, leaves : BOOLEAN,
     lost : SUBSET {"upload", "chat", "process", "server", "get", "list", "link"}]

PanelTyped ==
    /\ activeChat \in Chats \cup {None}
    /\ busy \in [Panels -> [Kinds -> BOOLEAN]]
    /\ field \in [Panels -> [Kinds -> Files \cup {None}]]
    /\ barSources \subseteq Uploads /\ managerLinks \subseteq Uploads /\ linking \subseteq Uploads
    /\ chatLoads \in [Displays -> [Loads -> ChatLoad \cup {None}]]
    /\ linkCalls \in [Uploads -> LinkCall \cup {None}]
    /\ plan \in PlanType

\* Only rows are shown or linked, or answered to be.
PanelRows ==
    /\ \A r \in Uploads : r \in barSources \/ r \in managerLinks \/ r \in linking => status[r] # None
    /\ \A p \in Displays, i \in Loads :
          chatLoads[p][i] # None /\ chatLoads[p][i].reply # None =>
              \A r \in chatLoads[p][i].reply : status[r] # None
    /\ \A r \in Uploads : linkCalls[r] # None => status[r] # None

\* A busy form waits for a task; one that is disabled meanwhile for a single
\* one, which it was given by its field when it is locked.
FormsWait ==
    \A p \in Panels, k \in Kinds :
        /\ busy[p][k] => \E u \in Uploads : Adds(u, p, k)
        /\ ~TakesAtOnce(p, k) =>
              \A u \in Uploads : Adds(u, p, k) =>
                  busy[p][k] /\ \A v \in Uploads : Adds(v, p, k) => v = u
        /\ \A u \in Uploads : p # "manager" /\ k = "video" /\ Adds(u, p, k) => field[p][k] = File[u]

LinkedHere == IF activeChat = None THEN {} ELSE linked[activeChat]

NoneLive ==
    \A i \in Loads : chatLoads["manager"][i] # None => chatLoads["manager"][i].live = FALSE

\* The loads of the manager that still count are for the chat on display, and
\* what they and its links are answered is linked there, rows only ever being
\* added; without the manager there are none.
ManagerKnows ==
    /\ \A i \in Loads : chatLoads["manager"][i] # None =>
          /\ chatLoads["manager"][i].live = TRUE => chatLoads["manager"][i].chat = activeChat
          /\ chatLoads["manager"][i].reply # None =>
                chatLoads["manager"][i].reply \subseteq linked[chatLoads["manager"][i].chat]
    /\ \A r \in Uploads : linkCalls[r] # None =>
          /\ "link" \notin strayed => linkCalls[r].chat = activeChat
          /\ linkCalls[r].reply # None => r \in linked[linkCalls[r].chat]
    /\ "link" \notin strayed /\ NoneLive => managerLinks \subseteq LinkedHere
    /\ \A p \in Panels : mounted[p] => p \in plan.panels
    /\ "manager" \notin plan.panels =>
          /\ managerLinks = {} /\ \A r \in Uploads : linkCalls[r] = None
          /\ \A i \in Loads : chatLoads["manager"][i] = None

PanelsInv == HookInv /\ PanelTyped /\ PanelRows /\ FormsWait /\ ManagerKnows
-----------------------------------------------------------------------------
(* What a step disturbs nothing of. *)

\* The video forms, and their field, are locked while one is being added.
LEMMA FormFacts ==
    /\ \A p \in Panels : ~TakesAtOnce(p, "video")
    /\ \A p \in Panels : p # "manager" => "video" \in Form[p].locks
    /\ Kinds = {"pdf", "video"} /\ Kind \in [Uploads -> Kinds]
BY SourceHookAssumption DEF TakesAtOnce, Form, BarForm, InputForm, ManagerForm, Panels, Kinds

\* Observe only adds to strayed.
LEMMA StrayedGrows == ASSUME Observe PROVE strayed \subseteq strayed'
BY DEF Observe

\* What the panels show stays rows when they do not change it,
LEMMA RowsOfPanelsStay ==
    ASSUME PanelTyped, PanelRows, RowsStay,
           barSources' = barSources, managerLinks' = managerLinks, linking' = linking,
           chatLoads' = chatLoads, linkCalls' = linkCalls
    PROVE  PanelRows'
<1>1. \A p \in Displays, i \in Loads :
         chatLoads[p][i] # None /\ chatLoads[p][i].reply # None => chatLoads[p][i].reply \subseteq Uploads
  <2> SUFFICES ASSUME NEW p \in Displays, NEW i \in Loads, chatLoads[p][i] # None,
                      chatLoads[p][i].reply # None
               PROVE  chatLoads[p][i].reply \subseteq Uploads
    OBVIOUS
  <2>1. chatLoads[p][i] \in ChatLoad
    BY DEF PanelTyped
  <2>2. chatLoads[p][i].reply \in SUBSET Uploads
    BY <2>1 DEF ChatLoad
  <2>3. QED
    BY <2>2
<1>2. QED
  BY <1>1 DEF PanelRows, RowsStay

\* their forms stay busy as they were,
LEMMA FormsStay ==
    ASSUME FormsWait, UNCHANGED <<busy, field, tasks>>
    PROVE  FormsWait'
BY DEF FormsWait, Adds, Working

\* the links of the manager stay links,
LEMMA ManagerStays ==
    ASSUME HookInv, PanelTyped, ManagerKnows, RowsStay, strayed \subseteq strayed',
           activeChat' = activeChat, managerLinks' = managerLinks, linkCalls' = linkCalls,
           chatLoads'["manager"] = chatLoads["manager"], plan'.panels = plan.panels,
           \A p \in Panels : mounted'[p] => mounted[p]
    PROVE  ManagerKnows'
<1>1. \A i \in Loads : chatLoads["manager"][i] # None => chatLoads["manager"][i].chat \in Chats
  BY DEF PanelTyped, Displays, ChatLoad
<1>2. \A r \in Uploads : linkCalls[r] # None => linkCalls[r].chat \in Chats
  BY DEF PanelTyped, LinkCall
<1>3. \A c \in Chats : linked[c] \subseteq linked'[c]
  BY DEF RowsStay
<1>4. LinkedHere \subseteq LinkedHere'
  BY <1>3 DEF LinkedHere, PanelTyped
<1>5. NoneLive' <=> NoneLive
  BY DEF NoneLive
<1>6. \A i \in Loads : chatLoads'["manager"][i] # None =>
          /\ chatLoads'["manager"][i].live = TRUE => chatLoads'["manager"][i].chat = activeChat'
          /\ chatLoads'["manager"][i].reply # None =>
                chatLoads'["manager"][i].reply \subseteq linked'[chatLoads'["manager"][i].chat]
  BY <1>1, <1>3 DEF ManagerKnows
<1>7. \A r \in Uploads : linkCalls'[r] # None =>
          /\ "link" \notin strayed' => linkCalls'[r].chat = activeChat'
          /\ linkCalls'[r].reply # None => r \in linked'[linkCalls'[r].chat]
  BY <1>2, <1>3 DEF ManagerKnows
<1>8. "link" \notin strayed' /\ NoneLive' => managerLinks' \subseteq LinkedHere'
  BY <1>4, <1>5 DEF ManagerKnows
<1>9. /\ \A p \in Panels : mounted'[p] => p \in plan'.panels
      /\ "manager" \notin plan'.panels =>
          /\ managerLinks' = {} /\ \A r \in Uploads : linkCalls'[r] = None
          /\ \A i \in Loads : chatLoads'["manager"][i] = None
  BY DEF ManagerKnows
<1>10. QED
  BY <1>6, <1>7, <1>8, <1>9 DEF ManagerKnows

\* and the hook keeps its invariant when it does nothing.
LEMMA HookStays ==
    ASSUME HookInv, UNCHANGED <<hookVars, server>>
    PROVE  HookInv' /\ RowsStay /\ \A p \in Panels : mounted'[p] => mounted[p]
<1>1. /\ marked' = marked /\ tasks' = tasks /\ jobs' = jobs /\ status' = status /\ linked' = linked
      /\ mounted' = mounted /\ isLoading' = isLoading /\ sources' = sources /\ reloads' = reloads
  BY DEF hookVars, server
<1>2. QED
  BY <1>1 DEF HookInv, HookTyped, TasksTyped, RowsKnown, MarkedWatched, RowsStay

\* Whether the panels are mounted is up to Unmount.
LEMMA TaskStepsStayMounted ==
    ASSUME NEW u \in Uploads, ClientStep(u) \/ ServerStep(u)
    PROVE  mounted' = mounted
BY DEF ClientStep, ServerStep, Registered, Processed, Refused, CheckAnswer, PollAnswer, Wake, UploadFails,
       CreateUnlinked, ProcessLost, CheckFails, PollFails, FindSource, CreateSource, BeginJob, FinishJob,
       AnswerGet, JobDies, hookVars

-----------------------------------------------------------------------------
(* The user's steps. *)

\* A field is filled.
LEMMA FillKeeps ==
    ASSUME PanelsInv, Observe, NEW p \in Panels, NEW k \in Kinds, NEW f \in Files, Fill(p, k, f)
    PROVE  PanelsInv'
<1>1. /\ UNCHANGED <<hookVars, server>> /\ activeChat' = activeChat /\ busy' = busy /\ plan' = plan
      /\ barSources' = barSources /\ managerLinks' = managerLinks /\ linking' = linking
      /\ chatLoads' = chatLoads /\ linkCalls' = linkCalls
      /\ field' = [field EXCEPT ![p][k] = f]
  BY DEF Fill, linkVars
<1>2. HookInv' /\ RowsStay /\ \A q \in Panels : mounted'[q] => mounted[q]
  BY <1>1, HookStays DEF PanelsInv
<1>3. PanelTyped'
  BY <1>1 DEF PanelsInv, PanelTyped
<1>4. PanelRows'
  BY <1>1, <1>2, RowsOfPanelsStay DEF PanelsInv
<1>5. ManagerKnows'
  BY <1>1, <1>2, ManagerStays, StrayedGrows DEF PanelsInv
<1>6. FormsWait'
  <2>1. tasks' = tasks
    BY <1>1 DEF hookVars
  <2>2. \A u \in Uploads, q \in Panels, j \in Kinds : Adds(u, q, j)' <=> Adds(u, q, j)
    BY <2>1 DEF Adds, Working
  <2>3. \A q \in Panels, j \in Kinds : q # p \/ j # k => field'[q][j] = field[q][j]
    BY <1>1 DEF PanelsInv, PanelTyped
  <2>4. p # "manager" /\ k = "video" => \A u \in Uploads : ~Adds(u, p, k)
    <3>1. SUFFICES ASSUME p # "manager", k = "video", NEW u \in Uploads, Adds(u, p, k) PROVE FALSE
      OBVIOUS
    <3>2. busy[p][k]
      BY <3>1, FormFacts DEF PanelsInv, FormsWait
    <3>3. QED
      BY <3>1, <3>2, FormFacts DEF Fill, FieldEnabled
  <2>5. QED
    BY <1>1, <2>2, <2>3, <2>4 DEF PanelsInv, FormsWait
<1>7. QED
  BY <1>2, <1>3, <1>4, <1>5, <1>6 DEF PanelsInv

\* A form begins a task.
LEMMA AddKeeps ==
    ASSUME PanelsInv, Observe, NEW p \in Panels, NEW u \in Uploads, Add(p, u)
    PROVE  PanelsInv'
<1> DEFINE k == Kind[u]
<1>1. /\ BeginUpload(u, p, activeChat) /\ AddEnabled(p, k) /\ field[p][k] \in {None, File[u]}
      /\ busy' = [busy EXCEPT ![p][k] = TRUE] /\ activeChat' = activeChat
      /\ field' = field /\ plan' = plan
      /\ barSources' = barSources /\ managerLinks' = managerLinks /\ linking' = linking
      /\ chatLoads' = chatLoads /\ linkCalls' = linkCalls
  BY DEF Add, linkVars
<1>2. k \in Kinds /\ activeChat \in Chats \cup {None}
  BY FormFacts DEF PanelsInv, PanelTyped
<1>3. HookInv' /\ RowsStay
  BY <1>1, <1>2, BeginUploadKeeps DEF PanelsInv
<1>4. mounted' = mounted
  BY <1>1 DEF BeginUpload
<1>5. PanelTyped'
  BY <1>1, <1>2 DEF PanelsInv, PanelTyped
<1>6. PanelRows'
  BY <1>1, <1>3, RowsOfPanelsStay DEF PanelsInv
<1>7. ManagerKnows'
  BY <1>1, <1>3, <1>4, ManagerStays, StrayedGrows DEF PanelsInv
<1>8. FormsWait'
  <2>1. /\ tasks[u].step = "idle" /\ tasks'[u].step = "upload" /\ tasks'[u].panel = p
        /\ \A v \in Uploads : v # u => tasks'[v] = tasks[v]
    <3>1. tasks \in [Uploads -> Task] /\ Idle \in Task
      BY SourceHookAssumption DEF PanelsInv, HookInv, TasksTyped, Idle, Task
    <3>2. QED
      BY <1>1, <3>1 DEF BeginUpload, At, Task
  <2>2. \A q \in Panels, j \in Kinds : ~Adds(u, q, j) /\ (Adds(u, q, j)' <=> (q = p /\ j = k))
    BY <2>1 DEF Adds, Working, Ended
  <2>3. \A v \in Uploads, q \in Panels, j \in Kinds : v # u => (Adds(v, q, j)' <=> Adds(v, q, j))
    BY <2>1 DEF Adds, Working
  <2>4. /\ busy'[p][k] = TRUE
        /\ \A q \in Panels, j \in Kinds : q # p \/ j # k => busy'[q][j] = busy[q][j]
    BY <1>1, <1>2 DEF PanelsInv, PanelTyped
  <2>5. ~TakesAtOnce(p, k) => \A v \in Uploads : ~Adds(v, p, k)
    BY <1>1, <1>2 DEF AddEnabled, PanelsInv, FormsWait
  <2>6. p # "manager" /\ k = "video" => field[p][k] = File[u]
    BY <1>1, FormFacts DEF AddEnabled
  <2> HIDE DEF k
  <2>7. \A q \in Panels, j \in Kinds : busy'[q][j] => \E v \in Uploads : Adds(v, q, j)'
    <3> SUFFICES ASSUME NEW q \in Panels, NEW j \in Kinds, busy'[q][j]
                 PROVE  \E v \in Uploads : Adds(v, q, j)'
      OBVIOUS
    <3>1. CASE q = p /\ j = k
      BY <2>2, <3>1
    <3>2. CASE ~(q = p /\ j = k)
      <4>1. PICK v \in Uploads : Adds(v, q, j)
        BY <2>4, <3>2 DEF PanelsInv, FormsWait
      <4>2. QED
        BY <2>2, <2>3, <4>1
    <3>3. QED
      BY <3>1, <3>2
  <2>8. \A q \in Panels, j \in Kinds : ~TakesAtOnce(q, j) =>
              \A v \in Uploads : Adds(v, q, j)' =>
                  busy'[q][j] /\ \A w \in Uploads : Adds(w, q, j)' => w = v
    <3> SUFFICES ASSUME NEW q \in Panels, NEW j \in Kinds, ~TakesAtOnce(q, j),
                        NEW v \in Uploads, Adds(v, q, j)'
                 PROVE  busy'[q][j] /\ \A w \in Uploads : Adds(w, q, j)' => w = v
      OBVIOUS
    <3>1. CASE q = p /\ j = k
      BY <2>2, <2>3, <2>4, <2>5, <3>1
    <3>2. CASE ~(q = p /\ j = k)
      BY <2>2, <2>3, <2>4, <3>2 DEF PanelsInv, FormsWait
    <3>3. QED
      BY <3>1, <3>2
  <2>9. \A q \in Panels, j \in Kinds :
           \A v \in Uploads : q # "manager" /\ j = "video" /\ Adds(v, q, j)' => field'[q][j] = File[v]
    BY <1>1, <2>2, <2>3, <2>6 DEF PanelsInv, FormsWait
  <2>10. QED
    BY <2>7, <2>8, <2>9 DEF FormsWait
<1>9. QED
  BY <1>3, <1>5, <1>6, <1>7, <1>8 DEF PanelsInv
\* A step that leaves the panels alone.
LEMMA PanelsStay ==
    ASSUME PanelsInv, Observe, HookInv', RowsStay, UNCHANGED <<pageVars, linkVars, tasks>>,
           plan' \in PlanType, plan'.panels = plan.panels,
           \A p \in Panels : mounted'[p] => mounted[p]
    PROVE  PanelsInv'
<1>1. /\ activeChat' = activeChat /\ busy' = busy /\ field' = field
      /\ barSources' = barSources /\ managerLinks' = managerLinks /\ linking' = linking
      /\ chatLoads' = chatLoads /\ linkCalls' = linkCalls /\ tasks' = tasks
  BY DEF pageVars, linkVars
<1>2. PanelTyped'
  BY <1>1 DEF PanelsInv, PanelTyped
<1>3. PanelRows'
  BY <1>1, RowsOfPanelsStay DEF PanelsInv
<1>4. FormsWait'
  BY <1>1, FormsStay DEF PanelsInv
<1>5. ManagerKnows'
  BY <1>1, ManagerStays, StrayedGrows DEF PanelsInv
<1>6. QED
  BY <1>2, <1>3, <1>4, <1>5 DEF PanelsInv

\* The manager reloads its list.
LEMMA RefreshKeeps ==
    ASSUME PanelsInv, Observe, Refresh
    PROVE  PanelsInv'
<1>1. RefreshSources("manager") /\ UNCHANGED <<pageVars, linkVars>> /\ plan.reloads > 0
  BY DEF Refresh
<1>2. HookInv' /\ RowsStay
  BY <1>1, RefreshSourcesKeeps DEF PanelsInv, Panels
<1>3. mounted' = mounted /\ tasks' = tasks
  BY <1>1 DEF RefreshSources
<1>4. plan' = [plan EXCEPT !.reloads = plan.reloads - 1] /\ plan \in PlanType
  BY DEF Refresh, PanelsInv, PanelTyped
<1>5. plan' \in PlanType /\ plan'.panels = plan.panels
  BY <1>1, <1>4 DEF PlanType
<1>6. QED
  BY <1>1, <1>2, <1>3, <1>5, PanelsStay

\* The panels leave.
LEMMA LeavesKeeps ==
    ASSUME PanelsInv, Observe, Unmount, UNCHANGED <<pageVars, linkVars, plan>>
    PROVE  PanelsInv'
<1>1. HookInv' /\ RowsStay
  BY UnmountKeeps DEF PanelsInv
<1>2. (\A p \in Panels : mounted'[p] => mounted[p]) /\ tasks' = tasks
  BY DEF Unmount
<1>3. plan' \in PlanType /\ plan'.panels = plan.panels
  BY DEF PanelsInv, PanelTyped
<1>4. QED
  BY <1>1, <1>2, <1>3, PanelsStay

\* A step of a reload.
LEMMA ReloadStepKeeps ==
    ASSUME PanelsInv, Observe, NEW p \in Panels, ReloadStep(p)
    PROVE  PanelsInv'
<1>1. PICK i \in Reloads : AnswerReload(p, i) \/ ReceiveReload(p, i) \/ ReloadFails(p, i)
  BY DEF ReloadStep
<1>2. HookInv' /\ RowsStay
  BY <1>1, ReloadKeeps DEF PanelsInv
<1>3. mounted' = mounted /\ tasks' = tasks
  BY <1>1 DEF AnswerReload, ReceiveReload, ReloadFails, ReloadEnds
<1>4. UNCHANGED <<pageVars, linkVars>> /\ plan' = plan
  BY DEF ReloadStep
<1>5. plan' \in PlanType /\ plan'.panels = plan.panels
  BY <1>4 DEF PanelsInv, PanelTyped
<1>6. QED
  BY <1>2, <1>3, <1>4, <1>5, PanelsStay

\* A load that begins is for the chat it is given, and counts.
LEMMA WithCalls ==
    ASSUME NEW calls \in [Loads -> ChatLoad \cup {None}], NEW c \in Chats, Free(calls) # {}
    PROVE  /\ With(calls, c) \in [Loads -> ChatLoad \cup {None}]
           /\ \E i \in Loads :
                 /\ With(calls, c)[i] = [chat |-> c, live |-> TRUE, reply |-> None]
                 /\ \A j \in Loads : j # i => With(calls, c)[j] = calls[j]
<1> DEFINE i == CHOOSE j \in Free(calls) : TRUE
           call == [chat |-> c, live |-> TRUE, reply |-> None]
<1>1. i \in Loads
  BY DEF Free
<1>2. call \in ChatLoad
  BY DEF ChatLoad
<1>3. With(calls, c) = [calls EXCEPT ![i] = call]
  BY DEF With
<1> HIDE DEF i, call
<1>4. /\ With(calls, c) \in [Loads -> ChatLoad \cup {None}]
      /\ With(calls, c)[i] = call /\ \A j \in Loads : j # i => With(calls, c)[j] = calls[j]
  BY <1>1, <1>2, <1>3
<1>5. QED
  BY <1>1, <1>4 DEF call

\* The clean-up of the manager keeps the calls and stops them counting.
LEMMA CancelledCalls ==
    ASSUME PanelTyped, NEW p \in Displays
    PROVE  /\ Cancelled(p) \in [Loads -> ChatLoad \cup {None}]
           /\ \A i \in Loads :
                 /\ Cancelled(p)[i] = None <=> chatLoads[p][i] = None
                 /\ Cancelled(p)[i] # None => Cancelled(p)[i].chat = chatLoads[p][i].chat
                                             /\ Cancelled(p)[i].reply = chatLoads[p][i].reply
                 /\ p = "manager" /\ Cancelled(p)[i] # None => Cancelled(p)[i].live = FALSE
<1>1. chatLoads[p] \in [Loads -> ChatLoad \cup {None}] /\ None \notin ChatLoad
  BY SourcesAssumption DEF PanelTyped
<1>2. ASSUME NEW i \in Loads
      PROVE  /\ Cancelled(p)[i] \in ChatLoad \cup {None}
             /\ Cancelled(p)[i] = None <=> chatLoads[p][i] = None
             /\ Cancelled(p)[i] # None => Cancelled(p)[i].chat = chatLoads[p][i].chat
                                          /\ Cancelled(p)[i].reply = chatLoads[p][i].reply
             /\ p = "manager" /\ Cancelled(p)[i] # None => Cancelled(p)[i].live = FALSE
  <2>1. CASE p = "manager" /\ chatLoads[p][i] # None
    <3> DEFINE call == [chatLoads[p][i] EXCEPT !.live = FALSE]
    <3>1. Cancelled(p)[i] = call
      BY <2>1 DEF Cancelled
    <3>2. chatLoads[p][i] \in ChatLoad
      BY <1>1, <2>1
    <3>3. /\ call \in ChatLoad /\ call.live = FALSE
          /\ call.chat = chatLoads[p][i].chat /\ call.reply = chatLoads[p][i].reply
      BY <3>2 DEF ChatLoad
    <3> HIDE DEF call
    <3>4. QED
      BY <1>1, <2>1, <3>1, <3>3
  <2>2. CASE ~(p = "manager" /\ chatLoads[p][i] # None)
    <3>1. Cancelled(p)[i] = chatLoads[p][i]
      BY <2>2 DEF Cancelled
    <3>2. QED
      BY <1>1, <2>2, <3>1
  <2>3. QED
    BY <2>1, <2>2
<1>3. Cancelled(p) \in [Loads -> ChatLoad \cup {None}]
  BY <1>2 DEF Cancelled
<1>4. QED
  BY <1>2, <1>3
\* Another chat is on display.
LEMMA SelectKeeps ==
    ASSUME PanelsInv, Observe, NEW c \in Chats \cup {None}, Select(c)
    PROVE  PanelsInv'
<1> DEFINE fresh == [chat |-> c, live |-> TRUE, reply |-> None]
<1>1. /\ UNCHANGED <<hookVars, server>> /\ busy' = busy /\ field' = field
      /\ linking' = linking /\ linkCalls' = linkCalls
      /\ activeChat' = c /\ c # activeChat
      /\ \A p \in Displays : Free(chatLoads[p]) # {}
      /\ plan.moves > 0
  BY DEF Select
<1>2. HookInv' /\ RowsStay /\ \A q \in Panels : mounted'[q] => mounted[q]
  BY <1>1, HookStays DEF PanelsInv
<1>3. plan' \in PlanType /\ plan'.panels = plan.panels
  <2>1. plan' = [plan EXCEPT !.moves = plan.moves - 1] /\ plan \in PlanType
    BY DEF Select, PanelsInv, PanelTyped
  <2>2. QED
    BY <1>1, <2>1 DEF PlanType
<1>4. /\ barSources' \subseteq barSources /\ managerLinks' \subseteq managerLinks
      /\ c = None => managerLinks' = {}
  BY DEF Select
<1>5. ASSUME NEW p \in Displays
      PROVE  /\ chatLoads'[p] \in [Loads -> ChatLoad \cup {None}]
             /\ \A i \in Loads : chatLoads'[p][i] # None =>
                  \/ /\ chatLoads[p][i] # None
                     /\ chatLoads'[p][i].chat = chatLoads[p][i].chat
                     /\ chatLoads'[p][i].reply = chatLoads[p][i].reply
                     /\ p = "manager" => chatLoads'[p][i].live = FALSE
                  \/ chatLoads'[p][i] = fresh /\ c # None /\ p \in plan.panels
             /\ c # None /\ p \in plan.panels => \E i \in Loads : chatLoads'[p][i] = fresh
  <2>1. /\ Cancelled(p) \in [Loads -> ChatLoad \cup {None}]
        /\ \A i \in Loads :
              /\ Cancelled(p)[i] = None <=> chatLoads[p][i] = None
              /\ Cancelled(p)[i] # None => Cancelled(p)[i].chat = chatLoads[p][i].chat
                                          /\ Cancelled(p)[i].reply = chatLoads[p][i].reply
              /\ p = "manager" /\ Cancelled(p)[i] # None => Cancelled(p)[i].live = FALSE
    BY CancelledCalls DEF PanelsInv
  <2>2. CASE c # None /\ p \in plan.panels
    <3>1. chatLoads'[p] = With(Cancelled(p), c)
      BY <2>2 DEF Select
    <3>2. Free(Cancelled(p)) # {}
      BY <1>1, <2>1 DEF Free
    <3>3. /\ With(Cancelled(p), c) \in [Loads -> ChatLoad \cup {None}]
          /\ \E i \in Loads :
                /\ With(Cancelled(p), c)[i] = fresh
                /\ \A j \in Loads : j # i => With(Cancelled(p), c)[j] = Cancelled(p)[j]
      BY <2>1, <2>2, <3>2, WithCalls
    <3> HIDE DEF fresh
    <3>4. PICK i \in Loads : /\ chatLoads'[p][i] = fresh
                             /\ \A j \in Loads : j # i => chatLoads'[p][j] = Cancelled(p)[j]
      BY <3>1, <3>3
    <3>5. QED
      BY <2>1, <2>2, <3>1, <3>3, <3>4
  <2>3. CASE ~(c # None /\ p \in plan.panels)
    <3>1. chatLoads'[p] = Cancelled(p)
      BY <2>3 DEF Select
    <3>2. QED
      BY <2>1, <2>3, <3>1
  <2>4. QED
    BY <2>2, <2>3
<1>6. chatLoads' \in [Displays -> [Loads -> ChatLoad \cup {None}]]
  <2>1. chatLoads' = [p \in Displays |-> chatLoads'[p]]
    BY DEF Select
  <2>2. QED
    BY <1>5, <2>1
<1>7. PanelTyped'
  BY <1>1, <1>3, <1>4, <1>6 DEF PanelsInv, PanelTyped
<1>8. fresh.chat = c /\ fresh.live = TRUE /\ fresh.reply = None
  OBVIOUS
<1> HIDE DEF fresh
<1>9. PanelRows'
  <2>1. status' = status
    BY <1>1 DEF server
  <2>2. \A p \in Displays, i \in Loads :
           chatLoads'[p][i] # None /\ chatLoads'[p][i].reply # None =>
               \A r \in chatLoads'[p][i].reply : status[r] # None
    BY <1>5, <1>8 DEF PanelsInv, PanelRows
  <2>3. QED
    BY <1>1, <1>4, <2>1, <2>2 DEF PanelsInv, PanelRows
<1>10. FormsWait'
  <2>1. tasks' = tasks
    BY <1>1 DEF hookVars
  <2>2. QED
    BY <1>1, <2>1, FormsStay DEF PanelsInv
<1>11. ManagerKnows'
  <2>1. linked' = linked /\ "manager" \in Displays
    BY <1>1 DEF server, Displays
  <2>2. \A i \in Loads : chatLoads'["manager"][i] # None =>
          /\ chatLoads'["manager"][i].live = TRUE => chatLoads'["manager"][i].chat = activeChat'
          /\ chatLoads'["manager"][i].reply # None =>
                chatLoads'["manager"][i].reply \subseteq linked'[chatLoads'["manager"][i].chat]
    BY <1>1, <1>5, <1>8, <2>1 DEF PanelsInv, ManagerKnows
  <2>3. "link" \notin strayed' => \A r \in Uploads : linkCalls[r] = None
    <3>1. Calling \subseteq strayed'
      BY <1>1 DEF Observe
    <3>2. QED
      BY <3>1 DEF Calling
  <2>4. \A r \in Uploads : linkCalls'[r] # None =>
          /\ "link" \notin strayed' => linkCalls'[r].chat = activeChat'
          /\ linkCalls'[r].reply # None => r \in linked'[linkCalls'[r].chat]
    BY <1>1, <2>1, <2>3 DEF PanelsInv, ManagerKnows
  <2>5. "link" \notin strayed' /\ NoneLive' => managerLinks' \subseteq LinkedHere'
    <3>1. CASE c # None /\ "manager" \in plan.panels
      <4>1. PICK i \in Loads : chatLoads'["manager"][i] = fresh
        BY <1>5, <2>1, <3>1
      <4>2. fresh # None
        <5>1. fresh \in ChatLoad
          BY <3>1 DEF fresh, ChatLoad
        <5>2. QED
          BY <5>1, SourcesAssumption
      <4>3. ~NoneLive'
        BY <1>8, <4>1, <4>2 DEF NoneLive
      <4>4. QED
        BY <4>3
    <3>2. CASE c = None \/ "manager" \notin plan.panels
      <4>1. managerLinks' = {}
        BY <1>4, <3>2 DEF PanelsInv, ManagerKnows
      <4>2. QED
        BY <4>1
    <3>3. QED
      BY <3>1, <3>2
  <2>6. \A p \in Panels : mounted'[p] => p \in plan'.panels
    BY <1>2, <1>3 DEF PanelsInv, ManagerKnows
  <2>7. "manager" \notin plan'.panels =>
          /\ managerLinks' = {} /\ \A r \in Uploads : linkCalls'[r] = None
          /\ \A i \in Loads : chatLoads'["manager"][i] = None
    BY <1>1, <1>3, <1>4, <1>5, <2>1 DEF PanelsInv, ManagerKnows
  <2>8. QED
    BY <2>2, <2>4, <2>5, <2>6, <2>7 DEF ManagerKnows
<1>12. QED
  BY <1>2, <1>7, <1>9, <1>10, <1>11 DEF PanelsInv
-----------------------------------------------------------------------------
(* The calls about the sources of the chat. *)

\* The manager links a source.
LEMMA LinkCallKeeps ==
    ASSUME PanelsInv, Observe, NEW r \in Uploads, Link(r)
    PROVE  PanelsInv'
<1> DEFINE call == [chat |-> activeChat, reply |-> None]
<1>1. /\ UNCHANGED <<hookVars, server>> /\ activeChat' = activeChat /\ busy' = busy /\ field' = field
      /\ barSources' = barSources /\ managerLinks' = managerLinks /\ chatLoads' = chatLoads
      /\ linking' = linking \cup {r} /\ linkCalls' = [linkCalls EXCEPT ![r] = call]
      /\ mounted["manager"] /\ LinkEnabled(r) /\ plan.links > 0
  BY DEF Link, BeginLinking, pageVars
<1>2. HookInv' /\ RowsStay /\ \A q \in Panels : mounted'[q] => mounted[q]
  BY <1>1, HookStays DEF PanelsInv
<1>3. plan' \in PlanType /\ plan'.panels = plan.panels
  <2>1. plan' = [plan EXCEPT !.links = plan.links - 1] /\ plan \in PlanType
    BY DEF Link, PanelsInv, PanelTyped
  <2>2. QED
    BY <1>1, <2>1 DEF PlanType
<1>4. activeChat \in Chats /\ "manager" \in Panels
  BY <1>1 DEF LinkEnabled, LinkDisabled, PanelsInv, PanelTyped, Panels
<1>5. status[r] # None
  BY <1>1, <1>4 DEF LinkEnabled, PanelsInv, HookInv, RowsKnown
<1>6. call \in LinkCall /\ call.chat = activeChat /\ call.reply = None
  BY <1>4 DEF LinkCall
<1> HIDE DEF call
<1>7. PanelTyped'
  BY <1>1, <1>3, <1>6 DEF PanelsInv, PanelTyped
<1>8. /\ linkCalls'[r] = call
      /\ \A x \in Uploads : x # r => linkCalls'[x] = linkCalls[x]
  BY <1>1 DEF PanelsInv, PanelTyped
<1>9. status' = status /\ linked' = linked
  BY <1>1 DEF server
<1>10. PanelRows'
  BY <1>1, <1>5, <1>8, <1>9 DEF PanelsInv, PanelRows
<1>11. FormsWait'
  <2>1. tasks' = tasks
    BY <1>1 DEF hookVars
  <2>2. QED
    BY <1>1, <2>1, FormsStay DEF PanelsInv
<1>12. ManagerKnows'
  <2>1. "manager" \in plan.panels
    BY <1>1, <1>4 DEF PanelsInv, ManagerKnows
  <2>2. strayed \subseteq strayed'
    BY StrayedGrows
  <2>3. \A x \in Uploads : linkCalls'[x] # None =>
          /\ "link" \notin strayed' => linkCalls'[x].chat = activeChat'
          /\ linkCalls'[x].reply # None => x \in linked'[linkCalls'[x].chat]
    BY <1>1, <1>6, <1>8, <1>9, <2>2 DEF PanelsInv, ManagerKnows
  <2>4. "link" \notin strayed' /\ NoneLive' => managerLinks' \subseteq LinkedHere'
    BY <1>1, <1>9, <2>2 DEF PanelsInv, ManagerKnows, NoneLive, LinkedHere
  <2>5. \A i \in Loads : chatLoads'["manager"][i] # None =>
          /\ chatLoads'["manager"][i].live = TRUE => chatLoads'["manager"][i].chat = activeChat'
          /\ chatLoads'["manager"][i].reply # None =>
                chatLoads'["manager"][i].reply \subseteq linked'[chatLoads'["manager"][i].chat]
    BY <1>1, <1>9 DEF PanelsInv, ManagerKnows
  <2>6. /\ \A p \in Panels : mounted'[p] => p \in plan'.panels
        /\ "manager" \in plan'.panels
    BY <1>2, <1>3, <2>1 DEF PanelsInv, ManagerKnows
  <2>7. QED
    BY <2>3, <2>4, <2>5, <2>6 DEF ManagerKnows
<1>13. QED
  BY <1>2, <1>7, <1>10, <1>11, <1>12 DEF PanelsInv

\* The server links it.
LEMMA AnswerLinkKeeps ==
    ASSUME PanelsInv, Observe, NEW r \in Uploads, AnswerLink(r)
    PROVE  PanelsInv'
<1> DEFINE call == [linkCalls[r] EXCEPT !.reply = "ok"]
           chat == linkCalls[r].chat
<1>1. linkCalls[r] # None /\ linkCalls[r] \in LinkCall
  BY DEF AnswerLink, Unanswered, InFlight, PanelsInv, PanelTyped
<1>2. /\ UNCHANGED hookVars /\ jobs' = jobs /\ status' = status
      /\ activeChat' = activeChat /\ busy' = busy /\ field' = field /\ plan' = plan
      /\ barSources' = barSources /\ managerLinks' = managerLinks /\ linking' = linking
      /\ chatLoads' = chatLoads
      /\ linked' = [linked EXCEPT ![chat] = linked[chat] \cup {r}]
      /\ linkCalls' = [linkCalls EXCEPT ![r] = call]
  BY DEF AnswerLink, pageVars
<1>3. chat \in Chats /\ call \in LinkCall /\ call.chat = chat
  BY <1>1 DEF LinkCall
<1> HIDE DEF call, chat
<1>4. status[r] # None
  BY <1>1 DEF PanelsInv, PanelRows
<1>5. /\ marked' = marked /\ tasks' = tasks
      /\ mounted' = mounted /\ isLoading' = isLoading /\ sources' = sources /\ reloads' = reloads
  BY <1>2 DEF hookVars
<1>6. /\ linked' \in [Chats -> SUBSET Uploads]
      /\ \A c \in Chats : /\ linked[c] \subseteq linked'[c]
                           /\ \A x \in linked'[c] : x \in linked[c] \/ x = r
      /\ r \in linked'[chat]
  BY <1>2, <1>3 DEF PanelsInv, HookInv, HookTyped
<1>7. HookInv' /\ RowsStay
  BY <1>2, <1>4, <1>5, <1>6
     DEF PanelsInv, HookInv, HookTyped, TasksTyped, RowsKnown, MarkedWatched, RowsStay
<1>8. PanelTyped'
  BY <1>2, <1>3 DEF PanelsInv, PanelTyped
<1>9. /\ linkCalls'[r] = call
      /\ \A x \in Uploads : x # r => linkCalls'[x] = linkCalls[x]
  BY <1>2 DEF PanelsInv, PanelTyped
<1>10. PanelRows'
  BY <1>2, <1>4, <1>9 DEF PanelsInv, PanelRows
<1>11. FormsWait'
  BY <1>2, <1>5, FormsStay DEF PanelsInv
<1>12. ManagerKnows'
  <2>1. strayed \subseteq strayed'
    BY StrayedGrows
  <2>2. \A x \in Uploads : linkCalls[x] # None => linkCalls[x].chat \in Chats
    BY DEF PanelsInv, PanelTyped, LinkCall
  <2>3. \A x \in Uploads : linkCalls'[x] # None =>
          /\ "link" \notin strayed' => linkCalls'[x].chat = activeChat'
          /\ linkCalls'[x].reply # None => x \in linked'[linkCalls'[x].chat]
    BY <1>1, <1>2, <1>3, <1>6, <1>9, <2>1, <2>2 DEF PanelsInv, ManagerKnows, chat
  <2>4. "link" \notin strayed' /\ NoneLive' => managerLinks' \subseteq LinkedHere'
    BY <1>2, <1>6, <2>1 DEF PanelsInv, PanelTyped, ManagerKnows, NoneLive, LinkedHere
  <2>5. \A i \in Loads : chatLoads["manager"][i] # None => chatLoads["manager"][i].chat \in Chats
    BY DEF PanelsInv, PanelTyped, Displays, ChatLoad
  <2>6. \A i \in Loads : chatLoads'["manager"][i] # None =>
          /\ chatLoads'["manager"][i].live = TRUE => chatLoads'["manager"][i].chat = activeChat'
          /\ chatLoads'["manager"][i].reply # None =>
                chatLoads'["manager"][i].reply \subseteq linked'[chatLoads'["manager"][i].chat]
    BY <1>2, <1>6, <2>5 DEF PanelsInv, ManagerKnows
  <2>7. /\ \A p \in Panels : mounted'[p] => p \in plan'.panels
        /\ "manager" \in plan'.panels
    BY <1>1, <1>2, <1>5 DEF PanelsInv, ManagerKnows
  <2>8. QED
    BY <2>3, <2>4, <2>6, <2>7 DEF ManagerKnows
<1>13. QED
  BY <1>7, <1>8, <1>10, <1>11, <1>12 DEF PanelsInv

\* The call returns or fails.
LEMMA LinkEndsKeeps ==
    ASSUME PanelsInv, Observe, NEW r \in Uploads, Linked(r) \/ LinkFails(r)
    PROVE  PanelsInv'
<1>1. /\ UNCHANGED <<hookVars, server>> /\ activeChat' = activeChat /\ busy' = busy /\ field' = field
      /\ barSources' = barSources /\ chatLoads' = chatLoads /\ plan' = plan
      /\ linking' = linking \ {r} /\ linkCalls' = [linkCalls EXCEPT ![r] = None]
  BY DEF Linked, LinkFails, LinkEnds, EndLinking, pageVars
<1>2. linkCalls[r] # None
  BY DEF Linked, LinkFails, Answered, InFlight
<1>3. \/ managerLinks' = managerLinks
      \/ managerLinks' = managerLinks \cup {r} /\ linkCalls[r].reply # None
  BY DEF Linked, LinkFails, Answered
<1>4. HookInv' /\ RowsStay /\ \A q \in Panels : mounted'[q] => mounted[q]
  BY <1>1, HookStays DEF PanelsInv
<1>5. PanelTyped'
  BY <1>1, <1>3 DEF PanelsInv, PanelTyped
<1>6. \A x \in Uploads : linkCalls'[x] # None => linkCalls'[x] = linkCalls[x]
  BY <1>1 DEF PanelsInv, PanelTyped
<1>7. status' = status /\ linked' = linked
  BY <1>1 DEF server
<1>8. PanelRows'
  BY <1>1, <1>2, <1>3, <1>6, <1>7 DEF PanelsInv, PanelRows
<1>9. FormsWait'
  <2>1. tasks' = tasks
    BY <1>1 DEF hookVars
  <2>2. QED
    BY <1>1, <2>1, FormsStay DEF PanelsInv
<1>10. ManagerKnows'
  <2>1. strayed \subseteq strayed'
    BY StrayedGrows
  <2>2. \A x \in Uploads : linkCalls'[x] # None =>
          /\ "link" \notin strayed' => linkCalls'[x].chat = activeChat'
          /\ linkCalls'[x].reply # None => x \in linked'[linkCalls'[x].chat]
    BY <1>1, <1>6, <1>7, <2>1 DEF PanelsInv, ManagerKnows
  <2>3. "link" \notin strayed' /\ NoneLive' => managerLinks' \subseteq LinkedHere'
    <3> SUFFICES ASSUME "link" \notin strayed', NoneLive' PROVE managerLinks' \subseteq LinkedHere'
      OBVIOUS
    <3>1. managerLinks \subseteq LinkedHere /\ LinkedHere' = LinkedHere
      BY <1>1, <1>7, <2>1 DEF PanelsInv, ManagerKnows, NoneLive, LinkedHere
    <3>2. linkCalls[r].chat = activeChat /\ linkCalls[r].chat \in Chats
      BY <1>2, <2>1 DEF PanelsInv, PanelTyped, ManagerKnows, LinkCall
    <3>3. activeChat # None
      BY <3>2, SourcesAssumption
    <3>4. linkCalls[r].reply # None => r \in linked[activeChat]
      BY <1>2, <3>2 DEF PanelsInv, ManagerKnows
    <3>5. QED
      BY <1>3, <3>1, <3>3, <3>4 DEF LinkedHere
  <2>4. \A i \in Loads : chatLoads'["manager"][i] # None =>
          /\ chatLoads'["manager"][i].live = TRUE => chatLoads'["manager"][i].chat = activeChat'
          /\ chatLoads'["manager"][i].reply # None =>
                chatLoads'["manager"][i].reply \subseteq linked'[chatLoads'["manager"][i].chat]
    BY <1>1, <1>7 DEF PanelsInv, ManagerKnows
  <2>5. /\ \A p \in Panels : mounted'[p] => p \in plan'.panels
        /\ "manager" \in plan'.panels
    BY <1>1, <1>2, <1>4 DEF PanelsInv, ManagerKnows
  <2>6. QED
    BY <2>2, <2>3, <2>4, <2>5 DEF ManagerKnows
<1>11. QED
  BY <1>4, <1>5, <1>8, <1>9, <1>10 DEF PanelsInv
\* A load is answered or over, and the bar or the manager shows it or not.
LEMMA LoadsKeep ==
    ASSUME PanelsInv, Observe, UNCHANGED <<hookVars, server, pageVars, linking, linkCalls, plan>>,
           NEW p \in Displays, NEW i \in Loads, NEW call \in ChatLoad \cup {None},
           chatLoads[p][i] # None, chatLoads' = [chatLoads EXCEPT ![p][i] = call],
           call # None => /\ call.chat = chatLoads[p][i].chat /\ call.live = chatLoads[p][i].live
                          /\ call.reply = linked[chatLoads[p][i].chat],
           \/ barSources' = barSources
           \/ barSources' = chatLoads[p][i].reply /\ chatLoads[p][i].reply # None,
           \/ /\ managerLinks' = managerLinks
              /\ p = "manager" /\ call = None => chatLoads[p][i].live = FALSE
           \/ managerLinks' = {}
           \/ /\ p = "manager" /\ chatLoads[p][i].live = TRUE /\ chatLoads[p][i].reply # None
              /\ managerLinks' = chatLoads[p][i].reply
    PROVE  PanelsInv'
<1> DEFINE old == chatLoads[p][i]
<1>1. /\ activeChat' = activeChat /\ busy' = busy /\ field' = field /\ plan' = plan
      /\ linking' = linking /\ linkCalls' = linkCalls /\ tasks' = tasks
      /\ status' = status /\ linked' = linked
  BY DEF pageVars, hookVars, server
<1>2. HookInv' /\ RowsStay /\ \A q \in Panels : mounted'[q] => mounted[q]
  BY HookStays DEF PanelsInv
<1>3. /\ chatLoads \in [Displays -> [Loads -> ChatLoad \cup {None}]]
      /\ old \in ChatLoad /\ None \notin Chats \cup ChatLoad
  BY SourcesAssumption DEF PanelsInv, PanelTyped
<1>4. old.chat \in Chats /\ old.reply \in (SUBSET Uploads) \cup {None} /\ old.live \in BOOLEAN
  BY <1>3 DEF ChatLoad
<1>5. /\ chatLoads' \in [Displays -> [Loads -> ChatLoad \cup {None}]]
      /\ chatLoads'[p][i] = call
      /\ \A q \in Displays, j \in Loads : q # p \/ j # i => chatLoads'[q][j] = chatLoads[q][j]
  BY <1>3
<1>6. old.reply # None => \A r \in old.reply : status[r] # None
  BY DEF PanelsInv, PanelRows
<1>7. p = "manager" /\ old.reply # None => old.reply \subseteq linked[old.chat]
  BY DEF PanelsInv, ManagerKnows
<1>8. p = "manager" /\ old.live = TRUE => old.chat = activeChat
  BY DEF PanelsInv, ManagerKnows
<1> HIDE DEF old
<1>9. /\ \/ barSources' = barSources
         \/ barSources' = old.reply /\ old.reply # None
      /\ \/ managerLinks' = managerLinks /\ (p = "manager" /\ call = None => old.live = FALSE)
         \/ managerLinks' = {}
         \/ /\ p = "manager" /\ old.live = TRUE /\ old.reply # None
            /\ managerLinks' = old.reply
      /\ call # None => call.chat = old.chat /\ call.live = old.live /\ call.reply = linked[old.chat]
  BY DEF old
<1>10. PanelTyped'
  <2>1. barSources' \subseteq Uploads /\ managerLinks' \subseteq Uploads
    BY <1>4, <1>9 DEF PanelsInv, PanelTyped
  <2>2. QED
    BY <1>1, <1>5, <2>1 DEF PanelsInv, PanelTyped
<1>11. PanelRows'
  <2>1. \A r \in Uploads : r \in barSources' \/ r \in managerLinks' \/ r \in linking' => status[r] # None
    BY <1>1, <1>6, <1>9 DEF PanelsInv, PanelRows
  <2>2. \A r \in linked[old.chat] : status[r] # None
    BY <1>4 DEF PanelsInv, HookInv, RowsKnown
  <2>3. \A q \in Displays, j \in Loads :
          chatLoads'[q][j] # None /\ chatLoads'[q][j].reply # None =>
              \A r \in chatLoads'[q][j].reply : status[r] # None
    BY <1>5, <1>9, <2>2 DEF PanelsInv, PanelRows
  <2>4. QED
    BY <1>1, <2>1, <2>3 DEF PanelsInv, PanelRows
<1>12. FormsWait'
  BY <1>1, FormsStay DEF PanelsInv
<1>13. ManagerKnows'
  <2>1. strayed \subseteq strayed' /\ "manager" \in Displays
    BY StrayedGrows DEF Displays
  <2>2. \A x \in Uploads : linkCalls'[x] # None =>
          /\ "link" \notin strayed' => linkCalls'[x].chat = activeChat'
          /\ linkCalls'[x].reply # None => x \in linked'[linkCalls'[x].chat]
    BY <1>1, <2>1 DEF PanelsInv, ManagerKnows
  <2>3. \A j \in Loads : chatLoads'["manager"][j] # None =>
          /\ chatLoads'["manager"][j].live = TRUE => chatLoads'["manager"][j].chat = activeChat'
          /\ chatLoads'["manager"][j].reply # None =>
                chatLoads'["manager"][j].reply \subseteq linked'[chatLoads'["manager"][j].chat]
    <3> SUFFICES ASSUME NEW j \in Loads, chatLoads'["manager"][j] # None
                 PROVE  /\ chatLoads'["manager"][j].live = TRUE =>
                              chatLoads'["manager"][j].chat = activeChat'
                        /\ chatLoads'["manager"][j].reply # None =>
                              chatLoads'["manager"][j].reply \subseteq
                                  linked'[chatLoads'["manager"][j].chat]
      OBVIOUS
    <3>1. CASE p = "manager" /\ j = i
      BY <1>1, <1>5, <1>8, <1>9, <3>1
    <3>2. CASE ~(p = "manager" /\ j = i)
      BY <1>1, <1>5, <2>1, <3>2 DEF PanelsInv, ManagerKnows
    <3>3. QED
      BY <3>1, <3>2
  <2>4. "link" \notin strayed' /\ NoneLive' => managerLinks' \subseteq LinkedHere'
    <3> SUFFICES ASSUME "link" \notin strayed', NoneLive' PROVE managerLinks' \subseteq LinkedHere'
      OBVIOUS
    <3>1. LinkedHere' = LinkedHere
      BY <1>1 DEF LinkedHere
    <3>2. CASE managerLinks' = managerLinks /\ (p = "manager" /\ call = None => old.live = FALSE)
      <4>1. \A j \in Loads : ~(p = "manager" /\ j = i) =>
               (chatLoads["manager"][j] # None => chatLoads["manager"][j].live = FALSE)
        BY <1>5, <2>1 DEF NoneLive
      <4>2. p = "manager" => old.live = FALSE
        BY <1>5, <1>9, <3>2 DEF NoneLive
      <4>3. NoneLive
        BY <4>1, <4>2 DEF NoneLive, old
      <4>4. QED
        BY <2>1, <3>1, <3>2, <4>3 DEF PanelsInv, ManagerKnows
    <3>3. CASE managerLinks' = {}
      BY <3>3
    <3>4. CASE /\ p = "manager" /\ old.live = TRUE /\ old.reply # None
               /\ managerLinks' = old.reply
      BY <1>3, <1>4, <1>7, <1>8, <3>1, <3>4 DEF LinkedHere
    <3>5. QED
      BY <1>9, <3>2, <3>3, <3>4
  <2>5. \A q \in Panels : mounted'[q] => q \in plan'.panels
    BY <1>1, <1>2 DEF PanelsInv, ManagerKnows
  <2>6. "manager" \notin plan'.panels =>
          /\ managerLinks' = {} /\ \A r \in Uploads : linkCalls'[r] = None
          /\ \A j \in Loads : chatLoads'["manager"][j] = None
    <3> SUFFICES ASSUME "manager" \notin plan.panels
                 PROVE  /\ managerLinks' = {} /\ \A r \in Uploads : linkCalls'[r] = None
                        /\ \A j \in Loads : chatLoads'["manager"][j] = None
      BY <1>1
    <3>1. managerLinks = {} /\ p # "manager"
      BY DEF PanelsInv, ManagerKnows
    <3>2. QED
      BY <1>1, <1>5, <1>9, <2>1, <3>1 DEF PanelsInv, ManagerKnows
  <2>7. QED
    BY <2>2, <2>3, <2>4, <2>5, <2>6 DEF ManagerKnows
<1>14. QED
  BY <1>2, <1>10, <1>11, <1>12, <1>13 DEF PanelsInv

\* Every step of a getChatSources.
LEMMA LoadStepKeeps ==
    ASSUME PanelsInv, Observe, LoadStep
    PROVE  PanelsInv'
<1>1. ASSUME NEW p \in Displays, NEW i \in Loads, AnswerLoad(p, i) PROVE PanelsInv'
  <2> DEFINE call == [chatLoads[p][i] EXCEPT !.reply = linked[chatLoads[p][i].chat]]
  <2>1. /\ chatLoads[p][i] # None /\ chatLoads' = [chatLoads EXCEPT ![p][i] = call]
        /\ barSources' = barSources /\ managerLinks' = managerLinks
        /\ UNCHANGED <<hookVars, server, pageVars, linking, linkCalls, plan>>
    BY <1>1 DEF AnswerLoad, Unanswered, InFlight
  <2>2. chatLoads[p][i] \in ChatLoad /\ chatLoads[p][i].chat \in Chats
    BY <2>1 DEF PanelsInv, PanelTyped, ChatLoad
  <2>3. linked[chatLoads[p][i].chat] \in SUBSET Uploads
    BY <2>2 DEF PanelsInv, HookInv, HookTyped
  <2>4. /\ call \in ChatLoad /\ call.chat = chatLoads[p][i].chat /\ call.live = chatLoads[p][i].live
        /\ call.reply = linked[chatLoads[p][i].chat]
    BY <2>2, <2>3 DEF ChatLoad
  <2>5. call # None
    BY <2>4, SourcesAssumption
  <2> HIDE DEF call
  <2>6. QED
    BY <2>1, <2>4, <2>5, LoadsKeep
<1>2. ASSUME NEW i \in Loads, BarReceives(i) PROVE PanelsInv'
  <2>1. /\ "bar" \in Displays /\ "bar" # "manager"
        /\ chatLoads["bar"][i] # None /\ chatLoads["bar"][i].reply # None
        /\ chatLoads' = [chatLoads EXCEPT !["bar"][i] = None] /\ managerLinks' = managerLinks
        /\ barSources' = barSources \/ barSources' = chatLoads["bar"][i].reply
        /\ UNCHANGED <<hookVars, server, pageVars, linking, linkCalls, plan>>
    BY <1>2 DEF BarReceives, Answered, InFlight, LoadEnds, Displays
  <2>2. QED
    BY <2>1, LoadsKeep
<1>3. ASSUME NEW i \in Loads, ManagerReceives(i) PROVE PanelsInv'
  <2>1. /\ "manager" \in Displays
        /\ chatLoads["manager"][i] # None /\ chatLoads["manager"][i].reply # None
        /\ chatLoads' = [chatLoads EXCEPT !["manager"][i] = None] /\ barSources' = barSources
        /\ managerLinks' = IF chatLoads["manager"][i].live THEN chatLoads["manager"][i].reply
                           ELSE managerLinks
        /\ UNCHANGED <<hookVars, server, pageVars, linking, linkCalls, plan>>
    BY <1>3 DEF ManagerReceives, Answered, InFlight, LoadEnds, Displays
  <2>2. chatLoads["manager"][i].live \in BOOLEAN
    BY <2>1 DEF PanelsInv, PanelTyped, ChatLoad
  <2>3. \/ managerLinks' = managerLinks /\ chatLoads["manager"][i].live = FALSE
        \/ managerLinks' = chatLoads["manager"][i].reply /\ chatLoads["manager"][i].live = TRUE
    BY <2>1, <2>2
  <2>4. QED
    BY <2>1, <2>3, LoadsKeep
<1>4. ASSUME NEW p \in Displays, NEW i \in Loads, LoadFails(p, i) PROVE PanelsInv'
  <2>1. /\ chatLoads[p][i] # None
        /\ chatLoads' = [chatLoads EXCEPT ![p][i] = None] /\ barSources' = barSources
        /\ managerLinks' = IF p = "manager" /\ chatLoads[p][i].live THEN {} ELSE managerLinks
        /\ UNCHANGED <<hookVars, server, pageVars, linking, linkCalls, plan>>
    BY <1>4 DEF LoadFails, InFlight, LoadEnds
  <2>2. chatLoads[p][i].live \in BOOLEAN
    BY <2>1 DEF PanelsInv, PanelTyped, ChatLoad
  <2>3. \/ managerLinks' = managerLinks /\ (p = "manager" => chatLoads[p][i].live = FALSE)
        \/ managerLinks' = {}
    BY <2>1, <2>2
  <2>4. QED
    BY <2>1, <2>3, LoadsKeep
<1>5. QED
  BY <1>1, <1>2, <1>3, <1>4 DEF LoadStep
-----------------------------------------------------------------------------
(* The steps of a task, with what its panel does when it ends. *)

\* A task that ended makes the page reload the sources of its chat.
LEMMA IngestedLoads ==
    ASSUME PanelsInv, NEW u \in Uploads, UNCHANGED chatLoads \/ HandleSourceIngested(u)
    PROVE  /\ chatLoads' \in [Displays -> [Loads -> ChatLoad \cup {None}]]
           /\ chatLoads'["manager"] = chatLoads["manager"]
           /\ \A p \in Displays, i \in Loads :
                 chatLoads'[p][i] = chatLoads[p][i] \/ chatLoads'[p][i].reply = None
<1>1. /\ chatLoads \in [Displays -> [Loads -> ChatLoad \cup {None}]]
      /\ tasks[u].chat \in Chats \cup {None} /\ "bar" \in Displays
  BY DEF PanelsInv, PanelTyped, HookInv, TasksTyped, Task, Displays
<1>2. CASE chatLoads' = chatLoads
  BY <1>1, <1>2
<1>3. CASE ~(chatLoads' = chatLoads)
  <2> DEFINE calls == chatLoads["bar"]
             c == tasks[u].chat
  <2>1. /\ c \in Chats /\ Free(calls) # {} /\ calls \in [Loads -> ChatLoad \cup {None}]
        /\ chatLoads' = [chatLoads EXCEPT !["bar"] = With(calls, c)]
    BY <1>1, <1>3 DEF HandleSourceIngested
  <2>2. chatLoads'["bar"] = With(calls, c)
    BY <1>1, <2>1
  <2> HIDE DEF calls, c
  <2>3. /\ With(calls, c) \in [Loads -> ChatLoad \cup {None}]
        /\ \E i \in Loads :
              /\ With(calls, c)[i] = [chat |-> c, live |-> TRUE, reply |-> None]
              /\ \A j \in Loads : j # i => With(calls, c)[j] = calls[j]
    BY <2>1, WithCalls
  <2>4. \A i \in Loads : With(calls, c)[i] = calls[i] \/ With(calls, c)[i].reply = None
    BY <2>3
  <2>5. QED
    BY <1>1, <2>1, <2>2, <2>3, <2>4 DEF calls
<1>4. QED
  BY <1>2, <1>3

\* A task that does not end is waited for as before.
LEMMA TaskGoesOn ==
    ASSUME PanelsInv, Observe, NEW u \in Uploads, TaskMoves(u), HookInv', RowsStay, mounted' = mounted,
           ~Ends(u), UNCHANGED <<pageVars, linkVars, plan>>
    PROVE  PanelsInv'
<1>1. /\ activeChat' = activeChat /\ busy' = busy /\ field' = field /\ plan' = plan
      /\ barSources' = barSources /\ managerLinks' = managerLinks /\ linking' = linking
      /\ chatLoads' = chatLoads /\ linkCalls' = linkCalls
  BY DEF pageVars, linkVars
<1>2. PICK rec \in Task : /\ tasks' = [tasks EXCEPT ![u] = rec]
                          /\ rec.panel = tasks[u].panel /\ rec.step # "idle"
                          /\ Working(u) \/ rec = tasks[u]
  BY DEF TaskMoves
<1>3. tasks'[u] = rec /\ \A v \in Uploads : v # u => tasks'[v] = tasks[v]
  BY <1>2 DEF PanelsInv, HookInv, TasksTyped
<1>4. \A v \in Uploads, p \in Panels, k \in Kinds : Adds(v, p, k)' <=> Adds(v, p, k)
  BY <1>2, <1>3 DEF Adds, Working, Ends
<1>5. FormsWait'
  BY <1>1, <1>4 DEF PanelsInv, FormsWait
<1>6. PanelTyped'
  BY <1>1 DEF PanelsInv, PanelTyped
<1>7. PanelRows'
  BY <1>1, RowsOfPanelsStay DEF PanelsInv
<1>8. ManagerKnows'
  BY <1>1, ManagerStays, StrayedGrows DEF PanelsInv
<1>9. QED
  BY <1>5, <1>6, <1>7, <1>8 DEF PanelsInv

\* The panel of a task that ended waits for it no longer.
LEMMA TaskSettles ==
    ASSUME PanelsInv, Observe, NEW u \in Uploads, TaskMoves(u), HookInv', RowsStay, mounted' = mounted,
           Ends(u), Settles(u)
    PROVE  PanelsInv'
<1>1. /\ activeChat' = activeChat /\ plan' = plan
      /\ barSources' = barSources /\ managerLinks' = managerLinks /\ linking' = linking
      /\ linkCalls' = linkCalls
      /\ busy' = [busy EXCEPT ![tasks[u].panel][Kind[u]] = FALSE]
      /\ field' = field \/ field' = [field EXCEPT ![tasks[u].panel][Kind[u]] = None]
      /\ UNCHANGED chatLoads \/ HandleSourceIngested(u)
  BY DEF Settles, Reset
<1>2. PICK rec \in Task : /\ tasks' = [tasks EXCEPT ![u] = rec]
                          /\ rec.panel = tasks[u].panel /\ rec.step # "idle"
                          /\ Working(u) \/ rec = tasks[u]
  BY DEF TaskMoves
<1>3. tasks'[u] = rec /\ \A v \in Uploads : v # u => tasks'[v] = tasks[v]
  BY <1>2 DEF PanelsInv, HookInv, TasksTyped
<1>4. Working(u) /\ rec.step \in Ended
  BY <1>3 DEF Ends
<1>5. PICK p \in Panels, k \in Kinds : p = tasks[u].panel /\ k = Kind[u]
  BY <1>4, FormFacts DEF Working, PanelsInv, HookInv, TasksTyped
<1>6. /\ chatLoads' \in [Displays -> [Loads -> ChatLoad \cup {None}]]
      /\ chatLoads'["manager"] = chatLoads["manager"]
      /\ \A q \in Displays, i \in Loads :
            chatLoads'[q][i] = chatLoads[q][i] \/ chatLoads'[q][i].reply = None
  BY <1>1, IngestedLoads
<1>7. /\ busy' \in [Panels -> [Kinds -> BOOLEAN]] /\ busy'[p][k] = FALSE
      /\ \A q \in Panels, j \in Kinds : q # p \/ j # k => busy'[q][j] = busy[q][j]
  BY <1>1, <1>5 DEF PanelsInv, PanelTyped
<1>8. /\ field' \in [Panels -> [Kinds -> Files \cup {None}]]
      /\ \A q \in Panels, j \in Kinds : q # p \/ j # k => field'[q][j] = field[q][j]
  <2>1. CASE field' = field
    BY <2>1 DEF PanelsInv, PanelTyped
  <2>2. CASE field' = [field EXCEPT ![p][k] = None]
    BY <1>5, <2>2 DEF PanelsInv, PanelTyped
  <2>3. QED
    BY <1>1, <1>5, <2>1, <2>2
<1>9. PanelTyped'
  BY <1>1, <1>6, <1>7, <1>8 DEF PanelsInv, PanelTyped
<1>10. PanelRows'
  <2>1. \A r \in Uploads : status[r] # None => status'[r] # None
    BY DEF RowsStay
  <2>2. \A q \in Displays, i \in Loads :
           chatLoads[q][i] # None /\ chatLoads[q][i].reply # None => chatLoads[q][i].reply \subseteq Uploads
    <3> SUFFICES ASSUME NEW q \in Displays, NEW i \in Loads, chatLoads[q][i] # None,
                        chatLoads[q][i].reply # None
                 PROVE  chatLoads[q][i].reply \subseteq Uploads
      OBVIOUS
    <3>1. chatLoads[q][i] \in ChatLoad
      BY DEF PanelsInv, PanelTyped
    <3>2. QED
      BY <3>1 DEF ChatLoad
  <2>3. QED
    BY <1>1, <1>6, <2>1, <2>2 DEF PanelsInv, PanelRows
<1>11. FormsWait'
  <2>1. \A q \in Panels, j \in Kinds : ~Adds(u, q, j)'
    BY <1>3, <1>4 DEF Adds, Working
  <2>2. Adds(u, p, k) /\ \A q \in Panels, j \in Kinds : Adds(u, q, j) => q = p /\ j = k
    BY <1>4, <1>5 DEF Adds
  <2>3. \A v \in Uploads, q \in Panels, j \in Kinds : v # u => (Adds(v, q, j)' <=> Adds(v, q, j))
    BY <1>3 DEF Adds, Working
  <2>4. ~TakesAtOnce(p, k) => \A v \in Uploads : ~Adds(v, p, k)'
    BY <2>1, <2>2, <2>3 DEF PanelsInv, FormsWait
  <2>5. \A q \in Panels, j \in Kinds : busy'[q][j] => \E v \in Uploads : Adds(v, q, j)'
    <3> SUFFICES ASSUME NEW q \in Panels, NEW j \in Kinds, busy'[q][j]
                 PROVE  \E v \in Uploads : Adds(v, q, j)'
      OBVIOUS
    <3>1. ~(q = p /\ j = k) /\ busy[q][j]
      BY <1>7
    <3>2. PICK v \in Uploads : Adds(v, q, j)
      BY <3>1 DEF PanelsInv, FormsWait
    <3>3. QED
      BY <2>2, <2>3, <3>1, <3>2
  <2>6. \A q \in Panels, j \in Kinds : ~TakesAtOnce(q, j) =>
              \A v \in Uploads : Adds(v, q, j)' =>
                  busy'[q][j] /\ \A w \in Uploads : Adds(w, q, j)' => w = v
    <3> SUFFICES ASSUME NEW q \in Panels, NEW j \in Kinds, ~TakesAtOnce(q, j),
                        NEW v \in Uploads, Adds(v, q, j)'
                 PROVE  busy'[q][j] /\ \A w \in Uploads : Adds(w, q, j)' => w = v
      OBVIOUS
    <3>1. ~(q = p /\ j = k) /\ v # u
      BY <2>1, <2>4
    <3>2. QED
      BY <1>7, <2>1, <2>3, <3>1 DEF PanelsInv, FormsWait
  <2>7. \A q \in Panels, j \in Kinds :
           \A v \in Uploads : q # "manager" /\ j = "video" /\ Adds(v, q, j)' => field'[q][j] = File[v]
    <3> SUFFICES ASSUME NEW q \in Panels, NEW j \in Kinds, NEW v \in Uploads,
                        q # "manager", j = "video", Adds(v, q, j)'
                 PROVE  field'[q][j] = File[v]
      OBVIOUS
    <3>1. ~(q = p /\ j = k) /\ v # u
      BY <2>1, <2>4, FormFacts
    <3>2. QED
      BY <1>8, <2>3, <3>1 DEF PanelsInv, FormsWait
  <2>8. QED
    BY <2>5, <2>6, <2>7 DEF FormsWait
<1>12. ManagerKnows'
  BY <1>1, <1>6, ManagerStays, StrayedGrows DEF PanelsInv
<1>13. QED
  BY <1>9, <1>10, <1>11, <1>12 DEF PanelsInv

\* Every step of a task.
LEMMA TaskStepKeeps ==
    ASSUME PanelsInv, Observe, NEW u \in Uploads, TaskStep(u)
    PROVE  PanelsInv'
<1>1. ClientStep(u) \/ ServerStep(u)
  BY DEF TaskStep
<1>2. HookInv' /\ RowsStay /\ TaskMoves(u) /\ mounted' = mounted
  BY <1>1, TaskStepsKeep, TaskStepsStayMounted DEF PanelsInv
<1>3. CASE Ends(u)
  BY <1>2, <1>3, TaskSettles DEF TaskStep
<1>4. CASE ~Ends(u)
  BY <1>2, <1>4, TaskGoesOn DEF TaskStep
<1>5. QED
  BY <1>3, <1>4
-----------------------------------------------------------------------------
(* The theorems. *)

\* The page as it opens.
LEMMA PanelsStart == Init => PanelsInv
<1> SUFFICES ASSUME Init PROVE PanelsInv
  OBVIOUS
<1>1. plan \in PlanType /\ plan.panels \in SUBSET Panels /\ HookInit(plan.panels)
  BY SourcesAssumption DEF Init, PlanType
<1>2. HookInv
  BY <1>1, HookStarts
<1>3. /\ \A p \in Displays, i \in Loads : chatLoads[p][i] = None
      /\ \A r \in Uploads : linkCalls[r] = None
  BY DEF Init
<1>4. PanelTyped
  BY <1>1 DEF Init, PanelTyped
<1>5. PanelRows
  BY <1>3 DEF Init, PanelRows
<1>6. FormsWait
  <2>1. \A u \in Uploads : ~Working(u)
    BY <1>1 DEF HookInit, Working, Idle
  <2>2. \A p \in Panels, k \in Kinds : busy[p][k] = FALSE
    BY DEF Init
  <2>3. QED
    BY <2>1, <2>2 DEF FormsWait, Adds
<1>7. ManagerKnows
  <2>1. \A p \in Panels : mounted[p] => p \in plan.panels
    BY <1>1 DEF HookInit
  <2>2. managerLinks = {} /\ "manager" \in Displays
    BY DEF Init, Displays
  <2>3. QED
    BY <1>3, <2>1, <2>2 DEF ManagerKnows
<1>8. QED
  BY <1>2, <1>4, <1>5, <1>6, <1>7 DEF PanelsInv

\* Every step.
LEMMA PanelsStep == PanelsInv /\ [Next]_vars => PanelsInv'
<1> SUFFICES ASSUME PanelsInv, [Next]_vars PROVE PanelsInv'
  OBVIOUS
<1>1. CASE Next
  <2>1. Observe /\ (UserStep \/ SystemStep)
    BY <1>1 DEF Next
  <2>2. CASE UserStep
    BY <2>1, <2>2, FillKeeps, AddKeeps, RefreshKeeps, SelectKeeps, LinkCallKeeps, LeavesKeeps
       DEF UserStep
  <2>3. CASE SystemStep
    <3>1. ASSUME NEW r \in Uploads, LinkStep(r) PROVE PanelsInv'
      BY <2>1, <3>1, AnswerLinkKeeps, LinkEndsKeeps DEF LinkStep
    <3>2. QED
      BY <2>1, <2>3, <3>1, TaskStepKeeps, ReloadStepKeeps, LoadStepKeeps DEF SystemStep
  <2>4. QED
    BY <2>1, <2>2, <2>3
<1>2. CASE UNCHANGED vars
  <2>1. /\ UNCHANGED <<hookVars, server>>
        /\ activeChat' = activeChat /\ busy' = busy /\ field' = field /\ plan' = plan
        /\ barSources' = barSources /\ managerLinks' = managerLinks /\ linking' = linking
        /\ chatLoads' = chatLoads /\ linkCalls' = linkCalls /\ strayed' = strayed
    BY <1>2 DEF vars, pageVars, linkVars, ghosts
  <2>2. HookInv' /\ RowsStay /\ \A p \in Panels : mounted'[p] => mounted[p]
    BY <2>1, HookStays DEF PanelsInv
  <2>3. tasks' = tasks
    BY <2>1 DEF hookVars
  <2>4. PanelTyped'
    BY <2>1 DEF PanelsInv, PanelTyped
  <2>5. PanelRows' /\ FormsWait' /\ ManagerKnows'
    BY <2>1, <2>2, <2>3, RowsOfPanelsStay, FormsStay, ManagerStays DEF PanelsInv
  <2>6. QED
    BY <2>2, <2>4, <2>5 DEF PanelsInv
<1>3. QED
  BY <1>1, <1>2

\* The inductive invariant of the panels.
THEOREM PanelsInvHolds == Spec => []PanelsInv
BY PanelsStart, PanelsStep, PTL DEF Spec

\* The variables of the panels, their hooks and the rows stay in their types,
\* and only a row is worked on, linked or shown as linked.
THEOREM SourcesTypeCorrect == Spec => []TypeOK
<1>1. PanelsInv => TypeOK
  <2> SUFFICES ASSUME PanelsInv PROVE TypeOK
    OBVIOUS
  <2>1. \A r \in Uploads : r \in Rows <=> status[r] # None
    BY DEF Rows
  <2>2. \A u \in Uploads : jobs[u] # "none" => tasks[u].row \in Rows
    <3> SUFFICES ASSUME NEW u \in Uploads, jobs[u] # "none" PROVE tasks[u].row \in Rows
      OBVIOUS
    <3>1. tasks[u].row \in Uploads
      BY DEF PanelsInv, HookInv, TasksTyped
    <3>2. tasks[u].row # None
      BY <3>1, SourceHookAssumption
    <3>3. QED
      BY <2>1, <3>1, <3>2 DEF PanelsInv, HookInv, RowsKnown
  <2>3. linked \in [Chats -> SUBSET Rows]
    <3>1. linked \in [Chats -> SUBSET Uploads] /\ \A c \in Chats : \A r \in linked[c] : status[r] # None
      BY DEF PanelsInv, HookInv, HookTyped, RowsKnown
    <3>2. QED
      BY <2>1, <3>1
  <2>4. barSources \subseteq Rows /\ managerLinks \subseteq Rows /\ linking \subseteq Rows
    BY <2>1 DEF PanelsInv, PanelTyped, PanelRows
  <2>5. QED
    BY <2>2, <2>3, <2>4 DEF PanelsInv, HookInv, HookTyped, TasksTyped, PanelTyped, TypeOK, Lists
<1>2. QED
  BY <1>1, PanelsInvHolds, PTL

\* However the tasks of several forms, panels and uploads of one file
\* interleave, and however they end, a source is marked only while a task of
\* that panel works on it (markProcessing and the finally of use-sources.ts).
THEOREM MarkedIsWorkedOnHolds == Spec => []MarkedIsWorkedOn
<1>1. PanelsInv => MarkedIsWorkedOn
  <2> SUFFICES ASSUME PanelsInv, NEW p \in Panels, NEW r \in marked[p]
               PROVE  \E u \in Uploads : Working(u) /\ tasks[u].panel = p /\ tasks[u].row = r
    BY DEF MarkedIsWorkedOn
  <2>1. PICK u \in Uploads : tasks[u].step \in Watching /\ tasks[u].panel = p /\ tasks[u].row = r
    BY DEF PanelsInv, HookInv, MarkedWatched
  <2>2. Working(u)
    BY <2>1 DEF Watching, Working, Ended
  <2>3. QED
    BY <2>1, <2>2
<1>2. QED
  BY <1>1, PanelsInvHolds, PTL

\* A form's flag is up only while one of its tasks goes on, and a form that is
\* disabled by it has exactly one then (the finally blocks of the panels).
THEOREM BusyIsAddingHolds == Spec => []BusyIsAdding
<1>1. PanelsInv => BusyIsAdding
  <2> SUFFICES ASSUME PanelsInv, NEW p \in Panels, NEW k \in Kinds
               PROVE  LET adding == {u \in Uploads : Working(u) /\ tasks[u].panel = p /\ Kind[u] = k}
                      IN  /\ busy[p][k] => adding # {}
                          /\ ~TakesAtOnce(p, k) => Cardinality(adding) = IF busy[p][k] THEN 1 ELSE 0
    BY DEF BusyIsAdding
  <2> DEFINE adding == {u \in Uploads : Working(u) /\ tasks[u].panel = p /\ Kind[u] = k}
  <2>1. \A u \in Uploads : u \in adding <=> Adds(u, p, k)
    BY DEF Adds
  <2>2. adding \subseteq Uploads
    OBVIOUS
  <2> HIDE DEF adding
  <2>3. busy[p][k] => adding # {}
    BY <2>1 DEF PanelsInv, FormsWait
  <2>4. ASSUME ~TakesAtOnce(p, k), busy[p][k] PROVE Cardinality(adding) = 1
    <3>1. PICK u \in Uploads : Adds(u, p, k)
      BY <2>4 DEF PanelsInv, FormsWait
    <3>2. \A v \in Uploads : Adds(v, p, k) => v = u
      BY <2>4, <3>1 DEF PanelsInv, FormsWait
    <3>3. adding = {u}
      BY <2>1, <2>2, <3>1, <3>2
    <3>4. QED
      BY <3>3, FS_Singleton
  <2>5. ASSUME ~TakesAtOnce(p, k), ~busy[p][k] PROVE Cardinality(adding) = 0
    <3>1. adding = {}
      BY <2>1, <2>2, <2>5 DEF PanelsInv, FormsWait
    <3>2. QED
      BY <3>1, FS_EmptySet
  <2>6. ~TakesAtOnce(p, k) => Cardinality(adding) = IF busy[p][k] THEN 1 ELSE 0
    BY <2>4, <2>5
  <2>7. QED
    BY <2>3, <2>6 DEF adding
<1>2. QED
  BY <1>1, PanelsInvHolds, PTL

\* What the manager ticks is linked to the chat on display once that chat's
\* load is over, whatever loads of earlier chats still answer (the cancelled
\* flag of source-manager.tsx), unless the chat changed under a link call.
THEOREM ManagerShowsLinksHolds == Spec => []ManagerShowsLinks
<1>1. PanelsInv => ManagerShowsLinks
  BY DEF PanelsInv, ManagerKnows, NoneLive, LinkedHere, ManagerShowsLinks
<1>2. QED
  BY <1>1, PanelsInvHolds, PTL

\* An address in a form that is locked while it is being added is cleared only
\* by the success of adding that same address (chat-sources-bar.tsx,
\* chat-input.tsx).
THEOREM AddressKeptHolds == Spec => AddressKept
<1>1. PanelsInv /\ [Next]_vars =>
         [\A p \in Panels \ {"manager"} :
             field[p]["video"] # None /\ field'[p]["video"] = None =>
                 \E u \in Uploads : Ends(u) /\ File[u] = field[p]["video"]]_vars
  <2> SUFFICES ASSUME PanelsInv, Next, NEW p \in Panels \ {"manager"},
                      field[p]["video"] # None, field'[p]["video"] = None
               PROVE  \E u \in Uploads : Ends(u) /\ File[u] = field[p]["video"]
    OBVIOUS
  <2>1. field' # field
    OBVIOUS
  <2>2. "video" \in Kinds /\ field \in [Panels -> [Kinds -> Files \cup {None}]]
    BY FormFacts DEF PanelsInv, PanelTyped
  <2>3. ~\E q \in Panels, k \in Kinds, f \in Files : Fill(q, k, f)
    <3> SUFFICES ASSUME NEW q \in Panels, NEW k \in Kinds, NEW f \in Files, Fill(q, k, f)
                 PROVE  FALSE
      OBVIOUS
    <3>1. f # None
      BY SourcesAssumption DEF Files
    <3>2. field' = [field EXCEPT ![q][k] = f]
      BY DEF Fill
    <3>3. QED
      BY <2>2, <3>1, <3>2
  <2>4. PICK u \in Uploads : TaskStep(u)
    BY <2>1, <2>3 DEF Next, UserStep, SystemStep, Add, Refresh, Select, Link, LinkStep, AnswerLink, Linked,
       LinkFails, LinkEnds, ReloadStep, LoadStep, AnswerLoad, LoadFails, LoadEnds, BarReceives,
       ManagerReceives, pageVars
  <2>5. Ends(u) /\ Settles(u)
    BY <2>1, <2>4 DEF TaskStep, pageVars
  <2>6. field' = [field EXCEPT ![tasks[u].panel][Kind[u]] = None]
    BY <2>1, <2>5 DEF Settles
  <2>7. tasks[u].panel = p /\ Kind[u] = "video"
    BY <2>2, <2>6
  <2>8. Adds(u, p, "video")
    BY <2>5, <2>7 DEF Ends, Adds
  <2>9. field[p]["video"] = File[u]
    BY <2>2, <2>8 DEF PanelsInv, FormsWait
  <2>10. QED
    BY <2>5, <2>9
<1>2. QED
  BY <1>1, PanelsInvHolds, PTL DEF Spec, AddressKept
=============================================================================
