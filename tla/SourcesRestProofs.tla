--------------------------- MODULE SourcesRestProofs ---------------------------
(***************************************************************************)
(* Proofs about what the panels of Sources show once their calls are over: *)
(* the status of a source that was added, and the sources of the chat.     *)
(***************************************************************************)
EXTENDS SourcesProofs

-----------------------------------------------------------------------------
(* The inductive invariant of a source that was added. *)

\* A task that has no row yet.
Uploading == {"idle", "upload", "create"}

\* A task works on a row of its file, and a row has the upload that created it.
Filed ==
    /\ \A u \in Uploads : tasks[u].row # None => File[tasks[u].row] = File[u]
    /\ \A r \in Uploads : status[r] # None => tasks[r].step \notin Uploading

\* No other upload of the file has begun.
Sole(u) == \A v \in Uploads \ {u} : File[v] = File[u] => At(v, "idle")

\* What such a task knows: it works on the row it created, its job runs only
\* while it waits for it, and what it was answered is what the row has.
TaskKnows(u) ==
    /\ tasks[u].step \in Watching \cup {"uploaded", "done"} => tasks[u].row = u
    /\ jobs[u] # "none" => tasks[u].step = "process"
    /\ tasks[u].step = "uploaded" => tasks[u].reply = "processing"
    /\ tasks[u].step \in Watching => tasks[u].known = "processing"
    /\ tasks[u].step \in Watching \ {"check", "get"} => tasks[u].reply = None
    /\ tasks[u].step \in {"check", "get"} => tasks[u].reply \in {None, status[u]}

\* Once it is over, its panel shows what the row has, and so will every reload
\* of the panel that is answered.
PanelKnows(u) ==
    tasks[u].step = "done" =>
        /\ tasks[u].known # "processing" /\ mounted[tasks[u].panel] =>
               sources[tasks[u].panel][u] = status[u]
        /\ \A i \in Reloads : Answered(reloads[tasks[u].panel][i]) =>
               reloads[tasks[u].panel][i].reply[u] = status[u]

Settled(u) == TaskKnows(u) /\ PanelKnows(u)

SettledInv ==
    /\ Filed
    /\ ~raced /\ plan.lost = {} => \A u \in Uploads : Sole(u) => Settled(u)

-----------------------------------------------------------------------------
(* What a step of a task leaves alone. *)

\* The other tasks and their jobs, and the rows it does not work on.
OthersStay(u) ==
    /\ mounted' = mounted /\ reloads' = reloads
    /\ \A v \in Uploads : v # u => tasks'[v] = tasks[v] /\ jobs'[v] = jobs[v]
    /\ \A r \in Uploads : r # u /\ r # tasks[u].row =>
          status'[r] = status[r] /\ \A p \in Panels : sources'[p][r] = sources[p][r]

\* upsertSource shows the row it was given while the panel is mounted.
LEMMA UpsertFrame ==
    ASSUME HookInv, NEW p \in Panels, NEW r \in Uploads, NEW s, UpsertSource(p, r, s)
    PROVE  /\ \A q \in Panels, x \in Uploads : x # r => sources'[q][x] = sources[q][x]
           /\ mounted[p] => sources'[p][r] = s
<1>1. sources \in [Panels -> Lists] /\ sources[p] \in [Uploads -> Statuses \cup {None}]
  BY DEF HookInv, HookTyped, Lists
<1>2. CASE mounted[p]
  <2>1. sources' = [sources EXCEPT ![p] = [sources[p] EXCEPT ![r] = s]]
    BY <1>2 DEF UpsertSource, ShowMounted
  <2>2. sources'[p] = [sources[p] EXCEPT ![r] = s] /\ \A q \in Panels : q # p => sources'[q] = sources[q]
    BY <1>1, <2>1
  <2>3. QED
    BY <1>1, <2>2
<1>3. CASE ~mounted[p]
  BY <1>3 DEF UpsertSource, ShowMounted
<1>4. QED
  BY <1>2, <1>3

\* Every step of a task.
LEMMA TaskFrame ==
    ASSUME HookInv, NEW u \in Uploads, ClientStep(u) \/ ServerStep(u)
    PROVE  OthersStay(u)
<1>1. TaskMoves(u) /\ mounted' = mounted
  BY TaskStepsKeep, TaskStepsStayMounted
<1>2. reloads' = reloads
  BY DEF ClientStep, ServerStep, Registered, Processed, Refused, CheckAnswer, PollAnswer, Wake, UploadFails,
     CreateUnlinked, ProcessLost, CheckFails, PollFails, FindSource, CreateSource, BeginJob, FinishJob,
     AnswerGet, JobDies, hookVars
<1>3. \A v \in Uploads : v # u => tasks'[v] = tasks[v]
  BY <1>1 DEF TaskMoves, HookInv, TasksTyped
<1>4. jobs' = jobs \/ \E state : jobs' = [jobs EXCEPT ![u] = state]
  BY DEF ClientStep, ServerStep, Registered, Processed, Refused, CheckAnswer, PollAnswer, Wake, UploadFails,
     CreateUnlinked, ProcessLost, CheckFails, PollFails, FindSource, CreateSource, BeginJob, FinishJob,
     AnswerGet, JobDies, server
<1>5. \A v \in Uploads : v # u => jobs'[v] = jobs[v]
  BY <1>4 DEF HookInv, HookTyped
<1>6. \/ status' = status \/ \E s : status' = [status EXCEPT ![u] = s]
      \/ \E s : status' = [status EXCEPT ![tasks[u].row] = s]
  BY DEF ClientStep, ServerStep, Registered, Processed, Refused, CheckAnswer, PollAnswer, Wake, UploadFails,
     CreateUnlinked, ProcessLost, CheckFails, PollFails, FindSource, CreateSource, BeginJob, FinishJob,
     AnswerGet, JobDies, server
<1>7. \A r \in Uploads : r # u /\ r # tasks[u].row => status'[r] = status[r]
  BY <1>6 DEF HookInv, HookTyped, Lists
<1>8. \/ sources' = sources
      \/ /\ tasks[u].step \in Watching \cup {"uploaded"}
         /\ \E s : UpsertSource(tasks[u].panel, tasks[u].row, s)
  <2>1. CASE Registered(u)
    BY <2>1 DEF Registered, At
  <2>2. CASE CheckAnswer(u)
    <3> DEFINE task == [tasks[u] EXCEPT !.reply = None]
    <3>1. UpsertSource(task.panel, task.row, tasks[u].reply) /\ tasks[u].step \in Watching
      BY <2>2 DEF CheckAnswer, At, Watching
    <3>2. task.panel = tasks[u].panel /\ task.row = tasks[u].row
      BY ReplyOfTask DEF HookInv, TasksTyped
    <3>3. QED
      BY <3>1, <3>2
  <2>3. CASE PollAnswer(u)
    <3> DEFINE task == [tasks[u] EXCEPT !.known = tasks[u].reply, !.reply = None]
    <3>1. UpsertSource(task.panel, task.row, task.known) /\ tasks[u].step \in Watching
      BY <2>3 DEF PollAnswer, At, Watching
    <3>2. task.panel = tasks[u].panel /\ task.row = tasks[u].row
      BY DEF HookInv, TasksTyped, Task
    <3>3. QED
      BY <3>1, <3>2
  <2>4. CASE ~(Registered(u) \/ CheckAnswer(u) \/ PollAnswer(u))
    BY <2>4 DEF ClientStep, ServerStep, Processed, Refused, Wake, UploadFails,
       CreateUnlinked, ProcessLost, CheckFails, PollFails, FindSource, CreateSource, BeginJob, FinishJob,
       AnswerGet, JobDies, hookVars
  <2>5. QED
    BY <2>1, <2>2, <2>3, <2>4
<1>9. \A r \in Uploads : r # tasks[u].row => \A p \in Panels : sources'[p][r] = sources[p][r]
  <2>1. ASSUME tasks[u].step \in Watching \cup {"uploaded"}, NEW s,
               UpsertSource(tasks[u].panel, tasks[u].row, s)
        PROVE  \A r \in Uploads : r # tasks[u].row => \A p \in Panels : sources'[p][r] = sources[p][r]
    <3>1. tasks[u].panel \in Panels /\ tasks[u].row \in Uploads
      BY <2>1 DEF HookInv, TasksTyped, Watching
    <3>2. QED
      BY <2>1, <3>1, UpsertFrame
  <2>2. QED
    BY <1>8, <2>1
<1>10. QED
  BY <1>1, <1>2, <1>3, <1>5, <1>7, <1>9 DEF OthersStay

-----------------------------------------------------------------------------
(* What a step makes of its task. *)

\* The head of the poll loop goes on to a getSource or ends the task,
LEMMA PollNextTask ==
    ASSUME HookInv, NEW u \in Uploads, NEW task \in Task, PollNext(u, task)
    PROVE  /\ tasks'[u].step \in {"get", "done"} /\ tasks'[u].row = task.row
           /\ tasks'[u].panel = task.panel /\ tasks'[u].known = task.known
           /\ tasks'[u].reply = task.reply
<1>1. PICK step \in {"get", "done"} : tasks' = [tasks EXCEPT ![u] = [task EXCEPT !.step = step]]
  BY DEF PollNext, EndTask
<1>2. tasks'[u] = [task EXCEPT !.step = step]
  BY <1>1 DEF HookInv, TasksTyped
<1>3. QED
  BY <1>2 DEF Task

\* and what follows a getSource goes on to a sleep or ends it with its status.
LEMMA PolledTask ==
    ASSUME HookInv, NEW u \in Uploads, NEW task \in Task, Polled(u, task)
    PROVE  /\ tasks'[u].step = IF task.known # "processing" THEN "done" ELSE "sleep"
           /\ tasks'[u].row = task.row /\ tasks'[u].panel = task.panel
           /\ tasks'[u].known = task.known /\ tasks'[u].reply = task.reply
<1> DEFINE step == IF task.known # "processing" THEN "done" ELSE "sleep"
<1>1. tasks' = [tasks EXCEPT ![u] = [task EXCEPT !.step = step]]
  BY DEF Polled, EndTask
<1> HIDE DEF step
<1>2. tasks'[u] = [task EXCEPT !.step = step]
  BY <1>1 DEF HookInv, TasksTyped
<1>3. tasks'[u].step = step /\ tasks'[u].row = task.row /\ tasks'[u].panel = task.panel
      /\ tasks'[u].known = task.known /\ tasks'[u].reply = task.reply
  BY <1>2 DEF Task
<1>4. QED
  BY <1>3 DEF step

\* A getSource in the loop was answered.
LEMMA PollAnswerTask ==
    ASSUME HookInv, NEW u \in Uploads, PollAnswer(u)
    PROVE  /\ tasks[u].step = "get" /\ tasks[u].reply \in Statuses /\ UNCHANGED <<jobs, status>>
           /\ UpsertSource(tasks[u].panel, tasks[u].row, tasks[u].reply)
           /\ tasks'[u].step = IF tasks[u].reply # "processing" THEN "done" ELSE "sleep"
           /\ tasks'[u].row = tasks[u].row /\ tasks'[u].panel = tasks[u].panel
           /\ tasks'[u].known = tasks[u].reply /\ tasks'[u].reply = None
<1> DEFINE task == [tasks[u] EXCEPT !.known = tasks[u].reply, !.reply = None]
<1>1. tasks[u] \in Task /\ tasks[u].reply \in Statuses /\ tasks[u].step = "get"
  BY DEF PollAnswer, At, HookInv, TasksTyped, Task
<1>2. /\ task \in Task /\ task.row = tasks[u].row /\ task.panel = tasks[u].panel
      /\ task.known = tasks[u].reply /\ task.reply = None
  BY <1>1 DEF Task
<1>3. UpsertSource(task.panel, task.row, task.known) /\ Polled(u, task) /\ UNCHANGED <<jobs, status>>
  BY DEF PollAnswer, server
<1> HIDE DEF task
<1>4. QED
  BY <1>1, <1>2, <1>3, PolledTask

\* The getSource after a process request that threw was answered.
LEMMA CheckAnswerTask ==
    ASSUME HookInv, NEW u \in Uploads, CheckAnswer(u)
    PROVE  /\ tasks[u].step = "check" /\ tasks[u].reply \in Statuses /\ UNCHANGED <<jobs, status>>
           /\ UpsertSource(tasks[u].panel, tasks[u].row, tasks[u].reply)
           /\ IF tasks[u].reply = "failed" THEN tasks'[u].step = "done" /\ tasks'[u].known = "failed"
              ELSE tasks'[u].step \in {"get", "done"} /\ tasks'[u].known = tasks[u].known
           /\ tasks'[u].row = tasks[u].row /\ tasks'[u].panel = tasks[u].panel /\ tasks'[u].reply = None
<1> DEFINE task == [tasks[u] EXCEPT !.reply = None]
<1>1. tasks[u] \in Task /\ tasks[u].reply \in Statuses /\ tasks[u].step = "check"
  BY DEF CheckAnswer, At, HookInv, TasksTyped, Task
<1>2. /\ task \in Task /\ task.row = tasks[u].row /\ task.panel = tasks[u].panel
      /\ task.known = tasks[u].known /\ task.reply = None
  BY <1>1 DEF Task
<1>3. /\ UpsertSource(task.panel, task.row, tasks[u].reply) /\ UNCHANGED <<jobs, status>>
      /\ IF tasks[u].reply = "failed"
         THEN EndTask(u, [task EXCEPT !.step = "done", !.known = "failed"])
         ELSE PollNext(u, task)
  BY DEF CheckAnswer, server
<1> HIDE DEF task
<1>4. CASE tasks[u].reply = "failed"
  <2>1. tasks' = [tasks EXCEPT ![u] = [task EXCEPT !.step = "done", !.known = "failed"]]
    BY <1>3, <1>4 DEF EndTask
  <2>2. tasks'[u] = [task EXCEPT !.step = "done", !.known = "failed"]
    BY <2>1 DEF HookInv, TasksTyped
  <2>3. /\ tasks'[u].step = "done" /\ tasks'[u].known = "failed" /\ tasks'[u].row = task.row
        /\ tasks'[u].panel = task.panel /\ tasks'[u].reply = task.reply
    BY <1>2, <2>2 DEF Task
  <2>4. QED
    BY <1>1, <1>2, <1>3, <1>4, <2>3
<1>5. CASE tasks[u].reply # "failed"
  BY <1>1, <1>2, <1>3, <1>5, PollNextTask
<1>6. QED
  BY <1>4, <1>5

\* The task woke up.
LEMMA WakeTask ==
    ASSUME HookInv, NEW u \in Uploads, Wake(u)
    PROVE  /\ tasks[u].step = "sleep" /\ UNCHANGED <<jobs, status>>
           /\ tasks'[u].step \in {"get", "done"} /\ tasks'[u].row = tasks[u].row
           /\ tasks'[u].panel = tasks[u].panel /\ tasks'[u].known = tasks[u].known
           /\ tasks'[u].reply = tasks[u].reply
<1>1. /\ tasks[u].step = "sleep" /\ UNCHANGED <<jobs, status>>
      /\ tasks[u] \in Task /\ tasks[u].wait <= PollMaxInterval
  BY DEF Wake, At, server, HookInv, TasksTyped
<1>2. PICK now \in {tasks[u].elapsed + tasks[u].wait, PollTimeout} :
         PollNext(u, [tasks[u] EXCEPT !.elapsed = IF now < PollTimeout THEN now ELSE PollTimeout,
                                      !.wait = NextWait(@)])
  BY DEF Wake
<1> DEFINE rest == IF now < PollTimeout THEN now ELSE PollTimeout
           task == [tasks[u] EXCEPT !.elapsed = rest, !.wait = NextWait(@)]
<1>3. /\ PollTimeout \in Nat /\ PollMaxInterval \in Nat
      /\ tasks[u].wait \in Nat /\ tasks[u].elapsed \in Nat
  BY <1>1, SourceHookAssumption DEF Task
<1>4. rest \in 0..PollTimeout
  BY <1>2, <1>3
<1>5. NextWait(tasks[u].wait) \in Nat
  BY <1>3 DEF NextWait
<1>6. task = [tasks[u] EXCEPT !.elapsed = rest, !.wait = NextWait(tasks[u].wait)]
  BY <1>1 DEF Task
<1> HIDE DEF rest
<1>7. /\ task \in Task /\ task.row = tasks[u].row /\ task.panel = tasks[u].panel
      /\ task.known = tasks[u].known /\ task.reply = tasks[u].reply
  BY <1>1, <1>4, <1>5, <1>6 DEF Task
<1>8. PollNext(u, task)
  BY <1>2 DEF rest
<1> HIDE DEF task
<1>9. QED
  BY <1>1, <1>7, <1>8, PollNextTask

\* The process request was answered.
LEMMA ProcessedTask ==
    ASSUME HookInv, NEW u \in Uploads, Processed(u)
    PROVE  /\ tasks[u].step = "processed" /\ UNCHANGED <<jobs, status>>
           /\ tasks'[u].step \in {"get", "done"} /\ tasks'[u].row = tasks[u].row
           /\ tasks'[u].panel = tasks[u].panel /\ tasks'[u].known = tasks[u].known
           /\ tasks'[u].reply = tasks[u].reply
<1>1. tasks[u] \in Task /\ PollNext(u, tasks[u])
  BY DEF Processed, HookInv, TasksTyped
<1>2. tasks[u].step = "processed" /\ UNCHANGED <<jobs, status>>
  BY DEF Processed, At, server
<1>3. QED
  BY <1>1, <1>2, PollNextTask

\* A task goes to another step and stays otherwise the same.
LEMMA GotoTask ==
    ASSUME HookInv, NEW u \in Uploads,
           NEW step \in {"idle", "upload", "create", "uploaded", "process", "processed", "refused",
                         "check", "get", "sleep"} \cup Ended,
           Goto(u, step)
    PROVE  /\ tasks'[u].step = step /\ tasks'[u].row = tasks[u].row
           /\ tasks'[u].panel = tasks[u].panel /\ tasks'[u].known = tasks[u].known
           /\ tasks'[u].reply = tasks[u].reply
<1>1. tasks'[u] = [tasks[u] EXCEPT !.step = step] /\ tasks[u] \in Task
  BY DEF Goto, HookInv, TasksTyped
<1>2. QED
  BY <1>1 DEF Task

\* The source is there.
LEMMA UploadedTask ==
    ASSUME HookInv, NEW u \in Uploads, NEW r, NEW s, Uploaded(u, r, s)
    PROVE  tasks'[u].step = "uploaded" /\ tasks'[u].row = r /\ tasks'[u].reply = s
<1>1. tasks'[u] = [tasks[u] EXCEPT !.step = "uploaded", !.row = r, !.reply = s] /\ tasks[u] \in Task
  BY DEF Uploaded, HookInv, TasksTyped
<1>2. QED
  BY <1>1 DEF Task

\* The source is shown, and its processing asked for.
LEMMA RegisteredTask ==
    ASSUME HookInv, NEW u \in Uploads, Registered(u)
    PROVE  /\ tasks[u].step = "uploaded" /\ status' = status /\ jobs' = [jobs EXCEPT ![u] = "waiting"]
           /\ tasks'[u].step = "process" /\ tasks'[u].row = tasks[u].row
           /\ tasks'[u].known = tasks[u].reply /\ tasks'[u].reply = None
<1>1. /\ tasks[u].step = "uploaded" /\ status' = status /\ jobs' = [jobs EXCEPT ![u] = "waiting"]
      /\ tasks' = [tasks EXCEPT ![u] = [tasks[u] EXCEPT !.step = "process", !.known = tasks[u].reply,
                                                        !.reply = None]]
      /\ tasks \in [Uploads -> Task]
  BY DEF Registered, At, HookInv, TasksTyped
<1>2. /\ tasks'[u] = [tasks[u] EXCEPT !.step = "process", !.known = tasks[u].reply, !.reply = None]
      /\ tasks[u] \in Task
  BY <1>1
<1>3. QED
  BY <1>1, <1>2 DEF Task

\* The answer of the job reaches the task that still waits for it.
LEMMA RepliedStep ==
    ASSUME HookInv, NEW u \in Uploads, NEW step \in {"processed", "refused"}, Replied(u, step)
    PROVE  /\ tasks'[u].step = IF tasks[u].step = "process" THEN step ELSE tasks[u].step
           /\ tasks'[u].row = tasks[u].row /\ tasks'[u].panel = tasks[u].panel
           /\ tasks'[u].known = tasks[u].known /\ tasks'[u].reply = tasks[u].reply
<1>1. CASE tasks[u].step = "process"
  <2>1. Goto(u, step)
    BY <1>1 DEF Replied, At, Goto
  <2>2. QED
    BY <1>1, <2>1, GotoTask
<1>2. CASE tasks[u].step # "process"
  BY <1>2 DEF Replied, At
<1>3. QED
  BY <1>1, <1>2

\* The server answers a getSource.
LEMMA AnswerGetTask ==
    ASSUME HookInv, NEW u \in Uploads, AnswerGet(u)
    PROVE  /\ tasks[u].step \in {"check", "get"} /\ UNCHANGED <<jobs, status>>
           /\ tasks'[u].step = tasks[u].step /\ tasks'[u].row = tasks[u].row
           /\ tasks'[u].panel = tasks[u].panel /\ tasks'[u].known = tasks[u].known
           /\ tasks'[u].reply = status[tasks[u].row]
<1>1. /\ tasks[u].step \in {"check", "get"} /\ UNCHANGED <<jobs, status>>
      /\ tasks' = [tasks EXCEPT ![u] = [tasks[u] EXCEPT !.reply = status[tasks[u].row]]]
      /\ tasks \in [Uploads -> Task]
  BY DEF AnswerGet, server, HookInv, TasksTyped
<1>2. tasks'[u] = [tasks[u] EXCEPT !.reply = status[tasks[u].row]] /\ tasks[u] \in Task
  BY <1>1
<1>3. QED
  BY <1>1, <1>2 DEF Task

\* A watched task keeps its row and does not go back to the upload.
LEMMA WatchedRow ==
    ASSUME HookInv, NEW u \in Uploads,
           \/ Registered(u) \/ Processed(u) \/ Refused(u) \/ CheckAnswer(u) \/ PollAnswer(u) \/ Wake(u)
           \/ ProcessLost(u) \/ CheckFails(u) \/ PollFails(u) \/ AnswerGet(u)
    PROVE  /\ tasks'[u].row = tasks[u].row /\ tasks'[u].step \notin Uploading /\ status' = status
<1>1. CASE Registered(u)
  BY <1>1, RegisteredTask DEF Uploading
<1>2. CASE Processed(u) \/ CheckAnswer(u) \/ PollAnswer(u) \/ Wake(u) \/ AnswerGet(u)
  BY <1>2, ProcessedTask, CheckAnswerTask, PollAnswerTask, WakeTask, AnswerGetTask DEF Uploading
<1>3. CASE Refused(u)
  <2>1. Goto(u, "check") /\ status' = status
    BY <1>3 DEF Refused, server
  <2>2. QED
    BY <2>1, GotoTask DEF Uploading
<1>4. CASE ProcessLost(u)
  <2>1. Goto(u, "refused") /\ status' = status
    BY <1>4 DEF ProcessLost
  <2>2. QED
    BY <2>1, GotoTask DEF Uploading
<1>5. CASE CheckFails(u)
  <2>1. /\ tasks' = [tasks EXCEPT ![u] = [tasks[u] EXCEPT !.step = "error", !.reply = None]]
        /\ status' = status /\ tasks \in [Uploads -> Task]
    BY <1>5 DEF CheckFails, EndTask, server, HookInv, TasksTyped
  <2>2. tasks'[u] = [tasks[u] EXCEPT !.step = "error", !.reply = None] /\ tasks[u] \in Task
    BY <2>1
  <2>3. tasks'[u].step = "error" /\ tasks'[u].row = tasks[u].row
    BY <2>2 DEF Task
  <2>4. QED
    BY <2>1, <2>3 DEF Uploading
<1>6. CASE PollFails(u)
  <2> DEFINE task == [tasks[u] EXCEPT !.reply = None]
  <2>1. Polled(u, task) /\ status' = status
    BY <1>6 DEF PollFails, server
  <2>2. task \in Task /\ task.row = tasks[u].row
    BY ReplyOfTask DEF HookInv, TasksTyped
  <2> HIDE DEF task
  <2>3. QED
    BY <2>1, <2>2, PolledTask DEF Uploading
<1>7. QED
  BY <1>1, <1>2, <1>3, <1>4, <1>5, <1>6

\* What the server does with a job leaves the task its row, and the rows those
\* there are.
LEMMA JobRow ==
    ASSUME HookInv, NEW u \in Uploads, BeginJob(u) \/ FinishJob(u) \/ JobDies(u)
    PROVE  /\ tasks'[u].row = tasks[u].row
           /\ tasks'[u].step \in Uploading => tasks'[u].step = tasks[u].step
           /\ \A r \in Uploads : status'[r] # None => status[r] # None
<1>1. /\ tasks[u].row \in Uploads /\ status[tasks[u].row] # None
  BY SourceHookAssumption DEF BeginJob, FinishJob, JobDies, HookInv, TasksTyped, RowsKnown
<1>2. /\ tasks'[u].row = tasks[u].row
      /\ tasks'[u].step \in Uploading => tasks'[u].step = tasks[u].step
  <2>1. CASE BeginJob(u)
    BY <2>1 DEF BeginJob, hookVars
  <2>2. CASE FinishJob(u) \/ JobDies(u)
    <3>1. PICK step \in {"processed", "refused"} : Replied(u, step)
      BY <2>2 DEF FinishJob, JobDies
    <3>2. QED
      BY <3>1, RepliedStep DEF Uploading
  <2>3. QED
    BY <2>1, <2>2
<1>3. status' = status \/ \E s : status' = [status EXCEPT ![tasks[u].row] = s]
  BY DEF BeginJob, FinishJob, JobDies
<1>4. \A r \in Uploads : status'[r] # None => status[r] # None
  BY <1>1, <1>3 DEF HookInv, HookTyped, Lists
<1>5. QED
  BY <1>2, <1>4

\* A task gets a row of its file, and creates its own.
LEMMA UploadRow ==
    ASSUME HookInv, NEW u \in Uploads,
           FindSource(u) \/ CreateSource(u) \/ CreateUnlinked(u) \/ UploadFails(u)
    PROVE  /\ tasks'[u].row # None => tasks'[u].row = tasks[u].row \/ File[tasks'[u].row] = File[u]
           /\ tasks'[u].step \in Uploading => tasks[u].step \in Uploading /\ status' = status
           /\ \A r \in Uploads : status'[r] # None =>
                 status[r] # None \/ (r = u /\ tasks'[u].step \notin Uploading)
<1>1. CASE FindSource(u)
  <2>1. status' = status /\ tasks[u].step = "upload"
    BY <1>1 DEF FindSource, At
  <2>2. CASE \E r \in SameFile(u) : Uploaded(u, r, status[r])
    <3>1. PICK r \in SameFile(u) : Uploaded(u, r, status[r])
      BY <2>2
    <3>2. tasks'[u].step = "uploaded" /\ tasks'[u].row = r /\ File[r] = File[u]
      BY <3>1, UploadedTask DEF SameFile
    <3>3. QED
      BY <2>1, <3>2 DEF Uploading
  <2>3. CASE Goto(u, "create")
    BY <2>1, <2>3, GotoTask DEF Uploading
  <2>4. QED
    BY <1>1, <2>2, <2>3 DEF FindSource
<1>2. CASE CreateSource(u)
  <2>1. status' = [status EXCEPT ![u] = "processing"] /\ Uploaded(u, u, "processing")
    BY <1>2 DEF CreateSource
  <2>2. tasks'[u].step = "uploaded" /\ tasks'[u].row = u
    BY <2>1, UploadedTask
  <2>3. QED
    BY <2>1, <2>2 DEF Uploading, HookInv, HookTyped, Lists
<1>3. CASE CreateUnlinked(u)
  <2>1. status' = [status EXCEPT ![u] = "processing"] /\ Goto(u, "error")
    BY <1>3 DEF CreateUnlinked
  <2>2. tasks'[u].step = "error" /\ tasks'[u].row = tasks[u].row
    BY <2>1, GotoTask DEF Ended
  <2>3. QED
    BY <2>1, <2>2 DEF Uploading, HookInv, HookTyped, Lists
<1>4. CASE UploadFails(u)
  <2>1. status' = status /\ Goto(u, "error")
    BY <1>4 DEF UploadFails, server
  <2>2. tasks'[u].step = "error" /\ tasks'[u].row = tasks[u].row
    BY <2>1, GotoTask DEF Ended
  <2>3. QED
    BY <2>1, <2>2 DEF Uploading
<1>5. QED
  BY <1>1, <1>2, <1>3, <1>4

\* Tasks stay with rows of their file, and rows with the upload they came from.
LEMMA FiledStays ==
    ASSUME HookInv, Filed, NEW u \in Uploads, ClientStep(u) \/ ServerStep(u)
    PROVE  Filed'
<1>1. OthersStay(u)
  BY TaskFrame
<1>2. /\ tasks'[u].row # None => tasks'[u].row = tasks[u].row \/ File[tasks'[u].row] = File[u]
      /\ tasks'[u].step \in Uploading => tasks[u].step \in Uploading
      /\ \A r \in Uploads : status'[r] # None =>
            status[r] # None \/ (r = u /\ tasks'[u].step \notin Uploading)
  <2>1. CASE FindSource(u) \/ CreateSource(u) \/ CreateUnlinked(u) \/ UploadFails(u)
    BY <2>1, UploadRow
  <2>2. CASE BeginJob(u) \/ FinishJob(u) \/ JobDies(u)
    BY <2>2, JobRow
  <2>3. CASE \/ Registered(u) \/ Processed(u) \/ Refused(u) \/ CheckAnswer(u) \/ PollAnswer(u) \/ Wake(u)
             \/ ProcessLost(u) \/ CheckFails(u) \/ PollFails(u) \/ AnswerGet(u)
    BY <2>3, WatchedRow
  <2>4. QED
    BY <2>1, <2>2, <2>3 DEF ClientStep, ServerStep
<1>3. \A v \in Uploads : tasks'[v].row # None => File[tasks'[v].row] = File[v]
  BY <1>1, <1>2 DEF Filed, OthersStay
<1>4. \A r \in Uploads : status'[r] # None => tasks'[r].step \notin Uploading
  BY <1>1, <1>2 DEF Filed, OthersStay
<1>5. QED
  BY <1>3, <1>4 DEF Filed

-----------------------------------------------------------------------------
(* A task stays settled. *)

\* No reload of its panel is in flight while the task goes on.
NoReload(u) == Working(u) => \A i \in Reloads : reloads[tasks[u].panel][i] = None

\* By its upload: its file has no row yet.
LEMMA UploadSettled ==
    ASSUME HookInv, Filed, NEW u \in Uploads, Sole(u), TaskKnows(u), FindSource(u) \/ CreateSource(u)
    PROVE  TaskKnows(u)' /\ PanelKnows(u)'
<1>1. jobs' = jobs /\ tasks[u].step \in {"upload", "create"}
  BY DEF FindSource, CreateSource, At
<1>2. jobs'[u] = "none"
  BY <1>1 DEF TaskKnows
<1>3. CASE FindSource(u)
  <2>1. SameFile(u) = {}
    <3> SUFFICES ASSUME NEW r \in SameFile(u) PROVE FALSE
      OBVIOUS
    <3>1. r \in Uploads /\ status[r] # None /\ File[r] = File[u]
      BY DEF SameFile, Rows
    <3>2. tasks[r].step \notin Uploading
      BY <3>1 DEF Filed
    <3>3. r # u
      BY <1>1, <3>2 DEF Uploading
    <3>4. QED
      BY <3>1, <3>2, <3>3 DEF Sole, At, Uploading
  <2>2. Goto(u, "create")
    BY <1>3, <2>1 DEF FindSource
  <2>3. tasks'[u].step = "create"
    BY <2>2, GotoTask
  <2>4. QED
    BY <1>2, <2>3 DEF TaskKnows, PanelKnows, Watching
<1>4. CASE CreateSource(u)
  <2>1. tasks'[u].step = "uploaded" /\ tasks'[u].row = u /\ tasks'[u].reply = "processing"
    BY <1>4, UploadedTask DEF CreateSource
  <2>2. QED
    BY <1>2, <2>1 DEF TaskKnows, PanelKnows, Watching
<1>5. QED
  BY <1>3, <1>4

\* By its job.
LEMMA JobSettled ==
    ASSUME HookInv, NEW u \in Uploads, TaskKnows(u), BeginJob(u) \/ FinishJob(u)
    PROVE  TaskKnows(u)' /\ PanelKnows(u)'
<1>1. tasks[u].step = "process"
  BY DEF BeginJob, FinishJob, TaskKnows
<1>2. tasks[u].row = u /\ tasks[u].known = "processing" /\ tasks[u].reply = None
  BY <1>1 DEF TaskKnows, Watching
<1>3. CASE BeginJob(u)
  <2>1. tasks' = tasks
    BY <1>3 DEF BeginJob, hookVars
  <2>2. QED
    BY <1>1, <1>2, <2>1 DEF TaskKnows, PanelKnows, Watching
<1>4. CASE FinishJob(u)
  <2>1. PICK step \in {"processed", "refused"} : Replied(u, step)
    BY <1>4 DEF FinishJob
  <2>2. /\ tasks'[u].step = step /\ tasks'[u].row = u
        /\ tasks'[u].known = "processing" /\ tasks'[u].reply = None
    BY <1>1, <1>2, <2>1, RepliedStep
  <2>3. jobs'[u] = "none"
    BY <1>4 DEF FinishJob, HookInv, HookTyped
  <2>4. QED
    BY <2>2, <2>3 DEF TaskKnows, PanelKnows, Watching
<1>5. QED
  BY <1>3, <1>4

\* By the end of its upload, the answer of its process request and its sleep.
LEMMA WaitSettled ==
    ASSUME HookInv, NEW u \in Uploads, TaskKnows(u), NoReload(u), reloads' = reloads,
           Registered(u) \/ Processed(u) \/ Refused(u) \/ Wake(u) \/ AnswerGet(u)
    PROVE  TaskKnows(u)' /\ PanelKnows(u)'
<1>1. CASE Registered(u)
  <2>1. /\ tasks'[u].step = "process" /\ tasks'[u].row = u
        /\ tasks'[u].known = "processing" /\ tasks'[u].reply = None
    BY <1>1, RegisteredTask DEF TaskKnows
  <2>2. QED
    BY <2>1 DEF TaskKnows, PanelKnows, Watching
<1>2. CASE Processed(u) \/ Wake(u)
  <2>1. /\ tasks[u].step \in {"processed", "sleep"} /\ jobs' = jobs
        /\ tasks'[u].step \in {"get", "done"} /\ tasks'[u].row = tasks[u].row
        /\ tasks'[u].panel = tasks[u].panel /\ tasks'[u].known = tasks[u].known
        /\ tasks'[u].reply = tasks[u].reply
    BY <1>2, ProcessedTask, WakeTask
  <2>2. jobs'[u] = "none" /\ tasks[u].row = u /\ tasks[u].known = "processing" /\ tasks[u].reply = None
    BY <2>1 DEF TaskKnows, Watching
  <2>3. TaskKnows(u)'
    BY <2>1, <2>2 DEF TaskKnows, Watching
  <2>4. \A i \in Reloads : reloads'[tasks'[u].panel][i] = None
    BY <2>1 DEF NoReload, Working, Ended
  <2>5. PanelKnows(u)'
    BY <2>1, <2>2, <2>4 DEF PanelKnows, Answered, InFlight
  <2>6. QED
    BY <2>3, <2>5
<1>3. CASE Refused(u)
  <2>1. tasks[u].step = "refused" /\ jobs' = jobs /\ status' = status /\ Goto(u, "check")
    BY <1>3 DEF Refused, At, server
  <2>2. /\ tasks'[u].step = "check" /\ tasks'[u].row = tasks[u].row
        /\ tasks'[u].known = tasks[u].known /\ tasks'[u].reply = tasks[u].reply
    BY <2>1, GotoTask
  <2>3. jobs'[u] = "none" /\ tasks[u].row = u /\ tasks[u].known = "processing" /\ tasks[u].reply = None
    BY <2>1 DEF TaskKnows, Watching
  <2>4. QED
    BY <2>2, <2>3 DEF TaskKnows, PanelKnows, Watching
<1>4. CASE AnswerGet(u)
  <2>1. /\ tasks[u].step \in {"check", "get"} /\ jobs' = jobs /\ status' = status
        /\ tasks'[u].step = tasks[u].step /\ tasks'[u].row = tasks[u].row
        /\ tasks'[u].known = tasks[u].known /\ tasks'[u].reply = status[tasks[u].row]
    BY <1>4, AnswerGetTask
  <2>2. jobs'[u] = "none" /\ tasks[u].row = u /\ tasks[u].known = "processing"
    BY <2>1 DEF TaskKnows, Watching
  <2>3. QED
    BY <2>1, <2>2 DEF TaskKnows, PanelKnows, Watching
<1>5. QED
  BY <1>1, <1>2, <1>3, <1>4

\* By an answer about its source, which it shows.
LEMMA AnswerSettled ==
    ASSUME HookInv, NEW u \in Uploads, TaskKnows(u), NoReload(u), mounted' = mounted, reloads' = reloads,
           CheckAnswer(u) \/ PollAnswer(u)
    PROVE  TaskKnows(u)' /\ PanelKnows(u)'
<1>1. /\ tasks[u].step \in {"check", "get"} /\ tasks[u].reply \in Statuses
      /\ jobs' = jobs /\ status' = status
      /\ UpsertSource(tasks[u].panel, tasks[u].row, tasks[u].reply)
      /\ tasks'[u].step \in {"get", "sleep", "done"}
      /\ tasks'[u].step = "done" => tasks'[u].known \in {"processing", tasks[u].reply}
      /\ tasks'[u].step # "done" => tasks'[u].known = "processing"
      /\ tasks'[u].row = tasks[u].row /\ tasks'[u].panel = tasks[u].panel /\ tasks'[u].reply = None
  <2>1. CASE CheckAnswer(u)
    <3>1. tasks[u].step = "check"
      BY <2>1, CheckAnswerTask
    <3>2. tasks[u].known = "processing"
      BY <3>1 DEF TaskKnows, Watching
    <3>3. QED
      BY <2>1, <3>2, CheckAnswerTask
  <2>2. CASE PollAnswer(u)
    BY <2>2, PollAnswerTask
  <2>3. QED
    BY <2>1, <2>2
<1>2. /\ jobs'[u] = "none" /\ tasks[u].row = u /\ tasks[u].reply = status[u]
  <2>1. tasks[u].reply # None
    BY <1>1, SourceHookAssumption
  <2>2. QED
    BY <1>1, <2>1 DEF TaskKnows, Watching
<1>3. TaskKnows(u)'
  BY <1>1, <1>2 DEF TaskKnows, Watching
<1>4. tasks[u].panel \in Panels
  BY <1>1 DEF HookInv, TasksTyped
<1>5. mounted[tasks[u].panel] => sources'[tasks[u].panel][u] = status[u]
  BY <1>1, <1>2, <1>4, UpsertFrame
<1>6. \A i \in Reloads : reloads'[tasks'[u].panel][i] = None
  BY <1>1 DEF NoReload, Working, Ended
<1>7. PanelKnows(u)'
  BY <1>1, <1>5, <1>6 DEF PanelKnows, Answered, InFlight
<1>8. QED
  BY <1>3, <1>7

\* By every step of its own when nothing is lost,
LEMMA OwnStepSettled ==
    ASSUME HookInv, Filed, NEW u \in Uploads, Sole(u), Settled(u), NoReload(u), plan.lost = {},
           ClientStep(u) \/ ServerStep(u)
    PROVE  Settled(u)'
<1>1. mounted' = mounted /\ reloads' = reloads
  BY TaskFrame DEF OthersStay
<1>2. \/ FindSource(u) \/ CreateSource(u) \/ BeginJob(u) \/ FinishJob(u)
      \/ Registered(u) \/ Processed(u) \/ Refused(u) \/ Wake(u) \/ AnswerGet(u)
      \/ CheckAnswer(u) \/ PollAnswer(u)
  BY DEF ClientStep, ServerStep
<1>3. TaskKnows(u)' /\ PanelKnows(u)'
  BY <1>1, <1>2, UploadSettled, JobSettled, WaitSettled, AnswerSettled DEF Settled
<1>4. QED
  BY <1>3 DEF Settled

\* and by every step of another task, which has another file.
LEMMA OtherStepSettled ==
    ASSUME HookInv, Filed, NEW u \in Uploads, ClientStep(u) \/ ServerStep(u),
           NEW v \in Uploads \ {u}, Sole(v)', Settled(v)
    PROVE  Settled(v)'
<1>1. OthersStay(u) /\ TaskMoves(u) /\ tasks[u].step # "idle"
  <2>1. tasks[u].step # "idle"
    BY DEF ClientStep, ServerStep, Registered, Processed, Refused, CheckAnswer, PollAnswer, Wake, UploadFails,
       CreateUnlinked, ProcessLost, CheckFails, PollFails, FindSource, CreateSource, BeginJob, FinishJob,
       AnswerGet, JobDies, At, HookInv, TasksTyped
  <2>2. QED
    BY <2>1, TaskFrame, TaskStepsKeep
<1>2. tasks'[u].step # "idle"
  BY <1>1 DEF TaskMoves, HookInv, TasksTyped
<1>3. File[u] # File[v]
  BY <1>2 DEF Sole, At
<1>4. tasks[u].row # v
  <2>1. v # None
    BY SourceHookAssumption
  <2>2. QED
    BY <1>3, <2>1 DEF Filed
<1>5. /\ tasks'[v] = tasks[v] /\ jobs'[v] = jobs[v] /\ status'[v] = status[v]
      /\ \A p \in Panels : sources'[p][v] = sources[p][v]
      /\ mounted' = mounted /\ reloads' = reloads
  BY <1>1, <1>4 DEF OthersStay
<1>6. TaskKnows(v)'
  BY <1>5 DEF Settled, TaskKnows
<1>7. PanelKnows(v)'
  <2>1. tasks[v].step = "done" => tasks[v].panel \in Panels
    BY DEF HookInv, TasksTyped
  <2>2. QED
    BY <1>5, <2>1 DEF Settled, PanelKnows
<1>8. QED
  BY <1>6, <1>7 DEF Settled

\* By a step of a list, which shows what a reload was answered, or of the page.
LEMMA ListSettled ==
    ASSUME HookInv, NEW u \in Uploads, Settled(u), tasks' = tasks, jobs' = jobs, status' = status,
           \A p \in Panels : mounted'[p] =>
               /\ mounted[p]
               /\ \/ sources'[p] = sources[p]
                  \/ \E i \in Reloads : Answered(reloads[p][i]) /\ sources'[p] = reloads[p][i].reply,
           \A p \in Panels, i \in Reloads : Answered(reloads'[p][i]) =>
               reloads'[p][i] = reloads[p][i] \/ reloads'[p][i].reply = status
    PROVE  Settled(u)'
<1>1. TaskKnows(u)'
  BY DEF Settled, TaskKnows
<1>2. PanelKnows(u)'
  <2> SUFFICES ASSUME tasks[u].step = "done"
               PROVE  /\ tasks[u].known # "processing" /\ mounted'[tasks[u].panel] =>
                            sources'[tasks[u].panel][u] = status[u]
                      /\ \A i \in Reloads : Answered(reloads'[tasks[u].panel][i]) =>
                            reloads'[tasks[u].panel][i].reply[u] = status[u]
    BY DEF PanelKnows
  <2> DEFINE p == tasks[u].panel
  <2>1. p \in Panels
    BY DEF HookInv, TasksTyped
  <2>2. /\ tasks[u].known # "processing" /\ mounted[p] => sources[p][u] = status[u]
        /\ \A i \in Reloads : Answered(reloads[p][i]) => reloads[p][i].reply[u] = status[u]
    BY DEF Settled, PanelKnows
  <2> HIDE DEF p
  <2>3. tasks[u].known # "processing" /\ mounted'[p] => sources'[p][u] = status[u]
    BY <2>1, <2>2
  <2>4. \A i \in Reloads : Answered(reloads'[p][i]) => reloads'[p][i].reply[u] = status[u]
    BY <2>1, <2>2 DEF Answered
  <2>5. QED
    BY <2>3, <2>4 DEF p
<1>3. QED
  BY <1>1, <1>2 DEF Settled

\* The steps of the lists, and the panels leaving.
LEMMA ListStepSettled ==
    ASSUME HookInv, NEW u \in Uploads, Settled(u),
           \/ \E p \in Panels : RefreshSources(p)
           \/ \E p \in Panels, i \in Reloads : AnswerReload(p, i) \/ ReceiveReload(p, i)
           \/ Unmount
           \/ UNCHANGED hookVars /\ jobs' = jobs /\ status' = status
    PROVE  Settled(u)'
<1>1. tasks' = tasks /\ jobs' = jobs /\ status' = status
  BY DEF RefreshSources, AnswerReload, ReceiveReload, ReloadEnds, Unmount, hookVars, server
<1>2. reloads \in [Panels -> [Reloads -> ReloadCall \cup {None}]] /\ sources \in [Panels -> Lists]
  BY DEF HookInv, HookTyped
<1>3. CASE \E p \in Panels : RefreshSources(p)
  <2>1. PICK p \in Panels, i \in Reloads : reloads' = [reloads EXCEPT ![p][i] = Sent]
    BY <1>3 DEF RefreshSources
  <2>2. mounted' = mounted /\ sources' = sources
    BY <1>3 DEF RefreshSources
  <2>3. \A q \in Panels, j \in Reloads : reloads'[q][j] = reloads[q][j] \/ reloads'[q][j] = Sent
    BY <1>2, <2>1
  <2>4. ~Answered(Sent)
    BY DEF Answered, Sent
  <2>5. \A q \in Panels, j \in Reloads : Answered(reloads'[q][j]) => reloads'[q][j] = reloads[q][j]
    BY <2>3, <2>4
  <2>6. QED
    BY <1>1, <2>2, <2>5, ListSettled
<1>4. ASSUME NEW p \in Panels, NEW i \in Reloads, AnswerReload(p, i) PROVE Settled(u)'
  <2> DEFINE call == [reloads[p][i] EXCEPT !.reply = status]
  <2>1. reloads' = [reloads EXCEPT ![p][i] = call] /\ reloads[p][i] \in ReloadCall
    BY <1>2, <1>4 DEF AnswerReload, Unanswered, InFlight
  <2>2. call.reply = status
    BY <2>1 DEF ReloadCall
  <2> HIDE DEF call
  <2>3. \A q \in Panels, j \in Reloads : reloads'[q][j] = reloads[q][j] \/ reloads'[q][j].reply = status
    BY <1>2, <2>1, <2>2
  <2>4. mounted' = mounted /\ sources' = sources
    BY <1>4 DEF AnswerReload
  <2>5. QED
    BY <1>1, <2>3, <2>4, ListSettled
<1>5. ASSUME NEW p \in Panels, NEW i \in Reloads, ReceiveReload(p, i) PROVE Settled(u)'
  <2>1. /\ Answered(reloads[p][i]) /\ ShowMounted(p, reloads[p][i].reply)
        /\ reloads' = [reloads EXCEPT ![p][i] = None] /\ mounted' = mounted
    BY <1>5 DEF ReceiveReload, ReloadEnds
  <2>2. \A q \in Panels : sources'[q] = sources[q] \/ (q = p /\ sources'[q] = reloads[p][i].reply)
    BY <1>2, <2>1 DEF ShowMounted
  <2>3. \A q \in Panels, j \in Reloads : Answered(reloads'[q][j]) => reloads'[q][j] = reloads[q][j]
    BY <1>2, <2>1 DEF Answered, InFlight
  <2>4. QED
    BY <1>1, <2>1, <2>2, <2>3, ListSettled
<1>6. CASE Unmount
  <2>1. (\A p \in Panels : mounted'[p] = FALSE) /\ reloads' = reloads
    BY <1>6 DEF Unmount
  <2>2. QED
    BY <1>1, <2>1, ListSettled
<1>7. CASE UNCHANGED hookVars
  <2>1. mounted' = mounted /\ sources' = sources /\ reloads' = reloads
    BY <1>7 DEF hookVars
  <2>2. QED
    BY <1>1, <2>1, ListSettled
<1>8. QED
  BY <1>3, <1>4, <1>5, <1>6, <1>7

\* A task that begins has no row and no job, and the others stay.
LEMMA BeginSettled ==
    ASSUME HookInv, Filed, NEW u \in Uploads, NEW p \in Panels, NEW c \in Chats \cup {None},
           BeginUpload(u, p, c)
    PROVE  /\ Filed' /\ \A v \in Uploads : Sole(v)' => Sole(v)
           /\ \A v \in Uploads : Settled(v) => Settled(v)'
<1> DEFINE rec == [Idle EXCEPT !.step = "upload", !.panel = p, !.chat = c]
<1>1. tasks' = [tasks EXCEPT ![u] = rec] /\ tasks[u].step = "idle"
  BY DEF BeginUpload, At
<1>2. rec.step = "upload" /\ rec.row = None
  BY DEF Idle
<1> HIDE DEF rec
<1>3. tasks'[u] = rec /\ \A v \in Uploads : v # u => tasks'[v] = tasks[v]
  BY <1>1 DEF HookInv, TasksTyped
<1>4. /\ mounted' = mounted /\ sources' = sources /\ reloads' = reloads
      /\ jobs' = jobs /\ status' = status
  BY DEF BeginUpload, server
<1>5. jobs[u] = "none"
  BY <1>1 DEF HookInv, TasksTyped
<1>6. status[u] = None
  BY <1>1 DEF Filed, Uploading
<1>7. Filed'
  BY <1>2, <1>3, <1>4, <1>6 DEF Filed
<1>8. \A v \in Uploads : Sole(v)' => Sole(v)
  BY <1>1, <1>3 DEF Sole, At
<1>9. Settled(u)'
  BY <1>2, <1>3, <1>4, <1>5 DEF Settled, TaskKnows, PanelKnows, Watching
<1>10. \A v \in Uploads : v # u /\ Settled(v) => Settled(v)'
  BY <1>3, <1>4 DEF Settled, TaskKnows, PanelKnows
<1>11. QED
  BY <1>7, <1>8, <1>9, <1>10

\* What may be lost, and the panels there are, never change.
LEMMA PlanStays ==
    ASSUME PanelsInv, Next
    PROVE  plan'.lost = plan.lost /\ plan'.panels = plan.panels
<1>1. \/ plan' = plan
      \/ plan' = [plan EXCEPT !.reloads = plan.reloads - 1]
      \/ plan' = [plan EXCEPT !.moves = plan.moves - 1]
      \/ plan' = [plan EXCEPT !.links = plan.links - 1]
  BY DEF Next, UserStep, SystemStep, Fill, Add, Refresh, Select, Link, TaskStep, Settles, LinkStep, AnswerLink,
     Linked, LinkFails, LinkEnds, ReloadStep, LoadStep, AnswerLoad, LoadFails, LoadEnds, BarReceives,
     ManagerReceives
<1>2. plan \in PlanType
  BY DEF PanelsInv, PanelTyped
<1>3. QED
  BY <1>1, <1>2 DEF PlanType

\* Every step.
LEMMA SettledStep ==
    PanelsInv /\ SettledInv /\ [Next]_vars => SettledInv'
<1> SUFFICES ASSUME PanelsInv, SettledInv, [Next]_vars PROVE SettledInv'
  OBVIOUS
<1> HookInv /\ Filed
  BY DEF PanelsInv, SettledInv
<1> DEFINE Calm == ~raced /\ plan.lost = {}
<1>1. \A u \in Uploads : Calm /\ Sole(u) => Settled(u)
  BY DEF SettledInv
<1>2. ASSUME UNCHANGED <<tasks, status>>,
             Calm' => /\ Calm
                      /\ \/ \E p \in Panels : RefreshSources(p)
                         \/ \E p \in Panels, i \in Reloads : AnswerReload(p, i) \/ ReceiveReload(p, i)
                         \/ Unmount
                         \/ UNCHANGED hookVars /\ jobs' = jobs /\ status' = status
      PROVE  SettledInv'
  <2>1. Filed'
    BY <1>2 DEF Filed
  <2>2. ASSUME NEW u \in Uploads, Calm', Sole(u)' PROVE Settled(u)'
    <3>1. Sole(u)
      BY <1>2, <2>2 DEF Sole, At
    <3>2. Settled(u)
      BY <1>1, <1>2, <2>2, <3>1
    <3>3. QED
      BY <1>2, <2>2, <3>2, ListStepSettled
  <2>3. QED
    BY <2>1, <2>2 DEF SettledInv
<1>3. CASE UNCHANGED vars
  <2>1. UNCHANGED hookVars /\ jobs' = jobs /\ status' = status /\ plan' = plan /\ raced' = raced
    BY <1>3 DEF vars, server, ghosts
  <2>2. UNCHANGED <<tasks, status>> /\ (Calm' => Calm)
    BY <2>1 DEF hookVars
  <2>3. QED
    BY <1>2, <2>1, <2>2
<1>4. CASE Next
  <2>1. (UserStep \/ SystemStep) /\ plan'.lost = plan.lost
    BY <1>4, PlanStays DEF Next
  <2>2. /\ ~raced' => ~raced
        /\ ~raced' => \A u \in Uploads : NoReload(u)
    BY <1>4 DEF Next, Observe, NoReload
  <2>3. Calm' => Calm /\ \A u \in Uploads : NoReload(u)
    BY <2>1, <2>2
  <2> HIDE DEF Calm
  <2>4. ASSUME NEW u \in Uploads, TaskStep(u) PROVE SettledInv'
    <3>1. (ClientStep(u) \/ ServerStep(u))
      BY <2>4 DEF TaskStep
    <3>2. Filed'
      BY <3>1, FiledStays
    <3>3. TaskMoves(u)
      BY <3>1, TaskStepsKeep
    <3>4. ASSUME NEW v \in Uploads, Calm', Sole(v)' PROVE Settled(v)'
      <4>1. Sole(v)
        BY <3>3, <3>4 DEF Sole, At, TaskMoves, HookInv, TasksTyped
      <4>2. Settled(v) /\ NoReload(v) /\ plan.lost = {}
        BY <1>1, <2>3, <3>4, <4>1 DEF Calm
      <4>3. CASE v = u
        BY <3>1, <4>1, <4>2, <4>3, OwnStepSettled
      <4>4. CASE v # u
        BY <3>1, <3>4, <4>2, <4>4, OtherStepSettled
      <4>5. QED
        BY <4>3, <4>4
    <3>5. QED
      BY <3>2, <3>4 DEF SettledInv, Calm
  <2>5. ASSUME NEW p \in Panels, NEW u \in Uploads, Add(p, u) PROVE SettledInv'
    <3>1. BeginUpload(u, p, activeChat) /\ activeChat \in Chats \cup {None}
      BY <2>5 DEF Add, PanelsInv, PanelTyped
    <3>2. /\ Filed' /\ \A v \in Uploads : Sole(v)' => Sole(v)
          /\ \A v \in Uploads : Settled(v) => Settled(v)'
      BY <3>1, BeginSettled
    <3>3. QED
      BY <1>1, <2>3, <3>2 DEF SettledInv, Calm
  <2>6. ASSUME UNCHANGED hookVars, jobs' = jobs, status' = status PROVE SettledInv'
    BY <1>2, <2>3, <2>6 DEF hookVars
  <2>7. CASE \E p \in Panels, k \in Kinds, f \in Files : Fill(p, k, f)
    BY <2>6, <2>7 DEF Fill, server
  <2>8. CASE Refresh
    <3>1. RefreshSources("manager") /\ "manager" \in Panels
      BY <2>8 DEF Refresh, Panels
    <3>2. UNCHANGED <<tasks, status>>
      BY <3>1 DEF RefreshSources, server
    <3>3. QED
      BY <1>2, <2>3, <3>1, <3>2
  <2>9. CASE \E c \in Chats \cup {None} : Select(c)
    BY <2>6, <2>9 DEF Select, server
  <2>10. CASE \E r \in Uploads : Link(r) \/ LinkStep(r)
    BY <2>6, <2>10 DEF Link, LinkStep, AnswerLink, Linked, LinkFails, LinkEnds, server
  <2>11. CASE Unmount
    <3>1. UNCHANGED <<tasks, status>>
      BY <2>11 DEF Unmount, server
    <3>2. QED
      BY <1>2, <2>3, <2>11, <3>1
  <2>12. ASSUME NEW p \in Panels, ReloadStep(p) PROVE SettledInv'
    <3>1. PICK i \in Reloads : \/ AnswerReload(p, i) \/ ReceiveReload(p, i)
                               \/ "list" \in plan.lost /\ ReloadFails(p, i)
      BY <2>12 DEF ReloadStep
    <3>2. UNCHANGED <<tasks, status>>
      BY <3>1 DEF AnswerReload, ReceiveReload, ReloadFails, ReloadEnds, server
    <3>3. Calm => AnswerReload(p, i) \/ ReceiveReload(p, i)
      BY <3>1 DEF Calm
    <3>4. QED
      BY <1>2, <2>3, <3>2, <3>3
  <2>13. CASE LoadStep
    BY <2>6, <2>13 DEF LoadStep, AnswerLoad, LoadFails, LoadEnds, BarReceives, ManagerReceives, server
  <2>14. CASE UserStep
    BY <2>5, <2>7, <2>8, <2>9, <2>10, <2>11, <2>14 DEF UserStep
  <2>15. CASE SystemStep
    BY <2>4, <2>10, <2>12, <2>13, <2>15 DEF SystemStep
  <2>16. QED
    BY <2>1, <2>14, <2>15
<1>5. QED
  BY <1>3, <1>4

\* A source that was added is shown with the status its row has, once the task
\* is over and no reload is under way, unless a reload overlapped a task of the
\* panel or the file was added again (pollUntilSettled and refreshSources of
\* use-sources.ts, which write the same list).
THEOREM RestShowsStatusHolds == Spec => []RestShowsStatus
<1>1. Init => SettledInv
  <2> SUFFICES ASSUME Init PROVE SettledInv
    OBVIOUS
  <2>1. /\ \A u \in Uploads : tasks[u] = Idle /\ jobs[u] = "none"
        /\ \A r \in Uploads : status[r] = None
    BY DEF Init, HookInit, Nothing
  <2>2. Idle.step = "idle" /\ Idle.row = None
    BY DEF Idle
  <2>3. Filed
    BY <2>1, <2>2 DEF Filed
  <2>4. \A u \in Uploads : Settled(u)
    BY <2>1, <2>2 DEF Settled, TaskKnows, PanelKnows, Watching
  <2>5. QED
    BY <2>3, <2>4 DEF SettledInv
<1>2. Spec => []SettledInv
  BY <1>1, SettledStep, PanelsInvHolds, PTL DEF Spec
<1>3. SettledInv => RestShowsStatus
  <2> SUFFICES ASSUME SettledInv, NEW u \in Uploads, At(u, "done"), mounted[tasks[u].panel],
                      tasks[u].known # "processing", ~raced, plan.lost = {},
                      \A v \in Uploads \ {u} : File[v] = File[u] => At(v, "idle")
               PROVE  sources[tasks[u].panel][tasks[u].row] = status[tasks[u].row]
    BY DEF RestShowsStatus
  <2>1. TaskKnows(u) /\ PanelKnows(u)
    BY DEF SettledInv, Sole, Settled
  <2>2. tasks[u].row = u
    BY <2>1 DEF TaskKnows, At
  <2>3. QED
    BY <2>1, <2>2 DEF PanelKnows, At
<1>4. QED
  BY <1>2, <1>3, PTL

-----------------------------------------------------------------------------
(* The inductive invariant of the sources the bar shows. *)

\* A task works on the source, and the page will be told of it when it ends.
Coming(r) == \E u \in Uploads : tasks[u].step \in Watching \cup {"uploaded"} /\ tasks[u].row = r

\* Tasks and loads are for the chat on display, and of its sources only those
\* are missing from an answer, or from the bar once no load is under way, that
\* a task still works on.
BarFollows ==
    /\ \A u \in Uploads : Working(u) => tasks[u].chat = activeChat
    /\ \A i \in Loads : chatLoads["bar"][i] # None =>
          /\ chatLoads["bar"][i].chat = activeChat
          /\ chatLoads["bar"][i].reply # None =>
                /\ chatLoads["bar"][i].reply \subseteq linked[activeChat]
                /\ \A r \in linked[activeChat] : r \in chatLoads["bar"][i].reply \/ Coming(r)
    /\ activeChat # None /\ (\A i \in Loads : chatLoads["bar"][i] = None) =>
          /\ barSources \subseteq linked[activeChat]
          /\ \A r \in linked[activeChat] : r \in barSources \/ Coming(r)

\* The panels are mounted and leave together, and a task is one of theirs.
Together ==
    /\ \/ \A p \in Panels : mounted[p] <=> p \in plan.panels
       \/ \A p \in Panels : ~mounted[p]
    /\ \A u \in Uploads : Working(u) => tasks[u].panel \in plan.panels

\* Nothing was lost, and the chat did not change under a call.
Undisturbed == strayed = {} /\ plan.lost = {} /\ mounted["bar"] /\ "manager" \notin plan.panels

BarInv == Together /\ (Undisturbed => BarFollows)

-----------------------------------------------------------------------------
(* The steps of a task, as the bar sees them. *)

\* A task that does not end works on its source still.
LEMMA ComingStays ==
    ASSUME HookInv, NEW u \in Uploads, ClientStep(u) \/ ServerStep(u), tasks'[u].step \notin Ended,
           NEW r, Coming(r)
    PROVE  Coming(r)'
<1>1. PICK v \in Uploads : tasks[v].step \in Watching \cup {"uploaded"} /\ tasks[v].row = r
  BY DEF Coming
<1>2. CASE v # u
  <2>1. tasks'[v] = tasks[v]
    BY <1>2, TaskFrame DEF OthersStay
  <2>2. QED
    BY <1>1, <2>1 DEF Coming
<1>3. CASE v = u
  <2>1. tasks[u].step \notin Uploading \cup Ended
    BY <1>1, <1>3 DEF Watching, Uploading, Ended
  <2>2. CASE UploadFails(u)
    <3>1. Goto(u, "error")
      BY <2>2 DEF UploadFails
    <3>2. tasks'[u].step = "error"
      BY <3>1, GotoTask DEF Ended
    <3>3. QED
      BY <3>2 DEF Ended
  <2>3. CASE ~UploadFails(u)
    <3>1. ~(FindSource(u) \/ CreateSource(u) \/ CreateUnlinked(u))
      BY <2>1 DEF FindSource, CreateSource, CreateUnlinked, At, Uploading
    <3>2. tasks'[u].row = tasks[u].row /\ tasks'[u].step \notin Uploading
      BY <2>1, <2>3, <3>1, WatchedRow, JobRow DEF ClientStep, ServerStep
    <3>3. tasks'[u] \in Task
      BY TaskStepsKeep DEF HookInv, TasksTyped
    <3>4. tasks'[u].step \in Watching \cup {"uploaded"}
      BY <3>2, <3>3 DEF Task, Uploading, Watching
    <3>5. QED
      BY <1>1, <1>3, <3>2, <3>4 DEF Coming
  <2>4. QED
    BY <2>2, <2>3
<1>4. QED
  BY <1>2, <1>3

\* A source is linked by the task that begins to work on it.
LEMMA LinkedIsComing ==
    ASSUME HookInv, NEW u \in Uploads, ClientStep(u) \/ ServerStep(u), NEW c \in Chats,
           NEW r \in linked'[c]
    PROVE  r \in linked[c] \/ (tasks'[u].step = "uploaded" /\ tasks'[u].row = r)
<1>1. CASE linked' = linked
  BY <1>1
<1>2. CASE linked' # linked
  <2>1. PICK x, s : Uploaded(u, x, s)
    BY <1>2 DEF ClientStep, ServerStep, Registered, Processed, Refused, CheckAnswer, PollAnswer, Wake,
       UploadFails, CreateUnlinked, ProcessLost, CheckFails, PollFails, FindSource, CreateSource, BeginJob,
       FinishJob, AnswerGet, JobDies, server
  <2>2. tasks'[u].step = "uploaded" /\ tasks'[u].row = x
    BY <2>1, UploadedTask
  <2>3. linked' = [linked EXCEPT ![tasks[u].chat] = @ \cup {x}]
    BY <1>2, <2>1 DEF Uploaded
  <2>4. r \in linked[c] \/ r = x
    BY <2>3 DEF HookInv, HookTyped
  <2>5. QED
    BY <2>2, <2>4
<1>3. QED
  BY <1>1, <1>2

\* When nothing is lost a task ends well.
LEMMA EndsDone ==
    ASSUME HookInv, NEW u \in Uploads, ClientStep(u) \/ ServerStep(u), plan.lost = {}, Ends(u)
    PROVE  tasks'[u].step = "done"
<1>1. tasks'[u].step \in {"done", "error"} /\ tasks[u].step \notin {"done", "error", "idle"}
  BY DEF Ends, Ended, Working
<1>2. \/ FindSource(u) \/ CreateSource(u) \/ BeginJob(u) \/ FinishJob(u)
      \/ Registered(u) \/ Processed(u) \/ Refused(u) \/ Wake(u) \/ AnswerGet(u)
      \/ CheckAnswer(u) \/ PollAnswer(u)
  BY DEF ClientStep, ServerStep
<1>3. CASE FindSource(u)
  <2>1. (\E r : Uploaded(u, r, status[r])) \/ Goto(u, "create")
    BY <1>3 DEF FindSource
  <2>2. QED
    BY <1>1, <2>1, UploadedTask, GotoTask
<1>4. CASE CreateSource(u)
  BY <1>1, <1>4, UploadedTask DEF CreateSource
<1>5. CASE BeginJob(u)
  BY <1>1, <1>5 DEF BeginJob, hookVars
<1>6. CASE FinishJob(u)
  <2>1. PICK step \in {"processed", "refused"} : Replied(u, step)
    BY <1>6 DEF FinishJob
  <2>2. QED
    BY <1>1, <2>1, RepliedStep
<1>7. CASE Refused(u)
  BY <1>1, <1>7, GotoTask DEF Refused
<1>8. CASE \/ Registered(u) \/ Processed(u) \/ Wake(u) \/ AnswerGet(u) \/ CheckAnswer(u) \/ PollAnswer(u)
  BY <1>1, <1>8, RegisteredTask, ProcessedTask, WakeTask, AnswerGetTask, CheckAnswerTask, PollAnswerTask
<1>9. QED
  BY <1>2, <1>3, <1>4, <1>5, <1>6, <1>7, <1>8

-----------------------------------------------------------------------------
(* The bar goes on following the chat. *)

\* When it and its loads stay, and a task that is done with a source of the
\* chat does not go by unnoticed.
LEMMA BarStays ==
    ASSUME PanelsInv, BarFollows, activeChat' = activeChat, barSources' = barSources,
           chatLoads'["bar"] = chatLoads["bar"],
           \A u \in Uploads : Working(u)' => tasks'[u].chat = activeChat,
           \A c \in Chats : linked[c] \subseteq linked'[c],
           \A c \in Chats : \A r \in linked'[c] :
               Coming(r)' \/ (r \in linked[c] /\ (Coming(r) => Coming(r)'))
    PROVE  BarFollows'
<1>1. activeChat # None => activeChat \in Chats
  BY DEF PanelsInv, PanelTyped
<1>2. ASSUME NEW i \in Loads, chatLoads'["bar"][i] # None
      PROVE  /\ chatLoads'["bar"][i].chat = activeChat'
             /\ chatLoads'["bar"][i].reply # None =>
                   /\ chatLoads'["bar"][i].reply \subseteq linked'[activeChat']
                   /\ \A r \in linked'[activeChat'] : r \in chatLoads'["bar"][i].reply \/ Coming(r)'
  <2> DEFINE call == chatLoads["bar"][i]
  <2>1. /\ call.chat = activeChat
        /\ call.reply # None =>
              /\ call.reply \subseteq linked[activeChat]
              /\ \A r \in linked[activeChat] : r \in call.reply \/ Coming(r)
    BY <1>2 DEF BarFollows
  <2>2. activeChat \in Chats
    BY <1>2, <2>1 DEF PanelsInv, PanelTyped, Displays, ChatLoad
  <2>3. chatLoads'["bar"][i] = call
    OBVIOUS
  <2> HIDE DEF call
  <2>4. linked[activeChat] \subseteq linked'[activeChat]
    BY <2>2
  <2>5. call.reply # None => \A r \in linked'[activeChat] : r \in call.reply \/ Coming(r)'
    BY <2>1, <2>2
  <2>6. QED
    BY <2>1, <2>3, <2>4, <2>5
<1>3. activeChat' # None /\ (\A i \in Loads : chatLoads'["bar"][i] = None) =>
         /\ barSources' \subseteq linked'[activeChat']
         /\ \A r \in linked'[activeChat'] : r \in barSources' \/ Coming(r)'
  <2> SUFFICES ASSUME activeChat # None, \A i \in Loads : chatLoads["bar"][i] = None
               PROVE  /\ barSources \subseteq linked'[activeChat]
                      /\ \A r \in linked'[activeChat] : r \in barSources \/ Coming(r)'
    OBVIOUS
  <2>1. /\ barSources \subseteq linked[activeChat]
        /\ \A r \in linked[activeChat] : r \in barSources \/ Coming(r)
    BY DEF BarFollows
  <2>2. linked[activeChat] \subseteq linked'[activeChat]
    BY <1>1
  <2>3. \A r \in linked'[activeChat] : r \in barSources \/ Coming(r)'
    BY <1>1, <2>1
  <2>4. QED
    BY <2>1, <2>2, <2>3
<1>4. QED
  BY <1>2, <1>3 DEF BarFollows

\* When a load begins for the chat on display and no other is under way.
LEMMA BarLoads ==
    ASSUME NEW c \in Chats, activeChat' = c, \A u \in Uploads : Working(u)' => tasks'[u].chat = c,
           Free(chatLoads["bar"]) # {}, chatLoads["bar"] \in [Loads -> ChatLoad \cup {None}],
           chatLoads'["bar"] = With(chatLoads["bar"], c), ~Overlap(chatLoads'["bar"])
    PROVE  BarFollows'
<1> DEFINE calls == chatLoads["bar"]
           fresh == [chat |-> c, live |-> TRUE, reply |-> None]
<1>1. PICK i \in Loads : /\ With(calls, c)[i] = fresh
                         /\ \A j \in Loads : j # i => With(calls, c)[j] = calls[j]
  BY WithCalls
<1>2. fresh \in ChatLoad /\ None \notin ChatLoad
  BY SourcesAssumption DEF ChatLoad
<1>3. fresh.chat = c /\ fresh.reply = None
  OBVIOUS
<1>4. chatLoads'["bar"] = With(calls, c)
  OBVIOUS
<1> HIDE DEF calls, fresh
<1>5. chatLoads'["bar"][i] = fresh /\ chatLoads'["bar"][i] # None
  BY <1>1, <1>2, <1>4
<1>6. \A j \in Loads : j # i => chatLoads'["bar"][j] = None
  BY <1>5 DEF Overlap
<1>7. QED
  BY <1>3, <1>5, <1>6 DEF BarFollows

\* A step of a task, with what its panel does when it ends.
LEMMA TaskBar ==
    ASSUME PanelsInv, PanelsInv', NEW u \in Uploads, TaskStep(u), Together, BarFollows,
           plan.lost = {}, "manager" \notin plan.panels, ~Overlap(chatLoads'["bar"])
    PROVE  BarFollows'
<1>1. ClientStep(u) \/ ServerStep(u)
  BY DEF TaskStep
<1>2. HookInv /\ RowsStay /\ TaskMoves(u) /\ OthersStay(u)
  BY <1>1, TaskStepsKeep, TaskFrame DEF PanelsInv
<1>3. activeChat' = activeChat /\ barSources' = barSources
  BY DEF TaskStep, Settles, pageVars, linkVars
<1>4. \A v \in Uploads : Working(v)' => Working(v) /\ tasks'[v].chat = tasks[v].chat
  <2>1. tasks'[u].chat = tasks[u].chat /\ (Working(u) \/ tasks'[u] = tasks[u])
    BY <1>2 DEF TaskMoves, HookInv, TasksTyped
  <2>2. QED
    BY <1>2, <2>1 DEF OthersStay, Working
<1>5. \A v \in Uploads : Working(v)' => tasks'[v].chat = activeChat
  BY <1>4 DEF BarFollows
<1>6. \A c \in Chats : linked[c] \subseteq linked'[c]
  BY <1>2 DEF RowsStay
<1>7. CASE tasks'[u].step \notin Ended
  <2>1. chatLoads' = chatLoads
    BY <1>7 DEF TaskStep, Ends, linkVars
  <2>2. \A c \in Chats : \A r \in linked'[c] :
            Coming(r)' \/ (r \in linked[c] /\ (Coming(r) => Coming(r)'))
    <3> SUFFICES ASSUME NEW c \in Chats, NEW r \in linked'[c]
                 PROVE  Coming(r)' \/ (r \in linked[c] /\ (Coming(r) => Coming(r)'))
      OBVIOUS
    <3>1. Coming(r) => Coming(r)'
      BY <1>1, <1>2, <1>7, ComingStays
    <3>2. r \in linked[c] \/ (tasks'[u].step = "uploaded" /\ tasks'[u].row = r)
      BY <1>1, <1>2, LinkedIsComing
    <3>3. QED
      BY <3>1, <3>2 DEF Coming
  <2>3. QED
    BY <1>3, <1>5, <1>6, <2>1, <2>2, BarStays
<1>8. CASE tasks'[u].step \in Ended /\ ~Working(u)
  <2>1. tasks' = tasks /\ chatLoads' = chatLoads
    BY <1>2, <1>8 DEF TaskMoves, TaskStep, Ends, linkVars, HookInv, TasksTyped
  <2>2. \A r : Coming(r)' <=> Coming(r)
    BY <2>1 DEF Coming
  <2>3. \A c \in Chats : \A r \in linked'[c] : r \in linked[c]
    BY <1>1, <1>2, <1>8, LinkedIsComing DEF Ended
  <2>4. QED
    BY <1>3, <1>5, <1>6, <2>1, <2>2, <2>3, BarStays
<1>9. CASE tasks'[u].step \in Ended /\ Working(u)
  <2>1. Ends(u) /\ Settles(u)
    BY <1>9 DEF Ends, TaskStep
  <2>2. tasks'[u].step = "done"
    BY <1>1, <1>2, <2>1, EndsDone
  <2>3. HandleSourceIngested(u)
    BY <2>1, <2>2 DEF Settles
  <2>4. tasks[u].chat = activeChat /\ tasks[u].panel # "manager"
    BY <1>9 DEF BarFollows, Together
  <2>5. chatLoads \in [Displays -> [Loads -> ChatLoad \cup {None}]] /\ "bar" \in Displays
    BY DEF PanelsInv, PanelTyped, Displays
  <2>6. CASE activeChat = None
    <3>1. chatLoads' = chatLoads
      BY <2>3, <2>4, <2>6 DEF HandleSourceIngested
    <3>2. \A i \in Loads : chatLoads["bar"][i] # None => chatLoads["bar"][i].chat \in Chats
      BY <2>5 DEF ChatLoad
    <3>3. \A i \in Loads : chatLoads["bar"][i] = None
      BY <2>6, <3>2, SourcesAssumption DEF BarFollows
    <3>4. QED
      BY <1>3, <1>5, <2>6, <3>1, <3>3 DEF BarFollows
  <2>7. CASE activeChat # None
    <3>1. /\ Free(chatLoads["bar"]) # {}
          /\ chatLoads' = [chatLoads EXCEPT !["bar"] = With(chatLoads["bar"], activeChat)]
      BY <2>3, <2>4, <2>7 DEF HandleSourceIngested
    <3>2. chatLoads'["bar"] = With(chatLoads["bar"], activeChat)
      BY <2>5, <3>1
    <3>3. activeChat \in Chats
      BY <2>7 DEF PanelsInv, PanelTyped
    <3>4. QED
      BY <1>3, <1>5, <2>5, <3>1, <3>2, <3>3, BarLoads
  <2>8. QED
    BY <2>6, <2>7
<1>10. QED
  BY <1>7, <1>8, <1>9

\* A load of the bar is answered with the sources of its chat, or they are
\* shown, none of them being lost.
LEMMA LoadBar ==
    ASSUME PanelsInv, LoadStep, BarFollows, plan.lost = {}, mounted["bar"]
    PROVE  BarFollows'
<1>1. /\ UNCHANGED <<hookVars, server>> /\ activeChat' = activeChat
  BY DEF LoadStep, AnswerLoad, LoadFails, LoadEnds, BarReceives, ManagerReceives, pageVars
<1>2. tasks' = tasks /\ linked' = linked
  BY <1>1 DEF hookVars, server
<1>3. /\ \A r : Coming(r)' <=> Coming(r)
      /\ \A u \in Uploads : Working(u)' => tasks'[u].chat = activeChat
  BY <1>2 DEF Coming, BarFollows, Working
<1>4. chatLoads \in [Displays -> [Loads -> ChatLoad \cup {None}]] /\ "bar" \in Displays
  BY DEF PanelsInv, PanelTyped, Displays
<1>5. None \notin ChatLoad
  BY SourcesAssumption
<1>6. CASE barSources' = barSources /\ chatLoads'["bar"] = chatLoads["bar"]
  BY <1>1, <1>2, <1>3, <1>6, BarStays
<1>7. ASSUME NEW i \in Loads, AnswerLoad("bar", i) PROVE BarFollows'
  <2> DEFINE old == chatLoads["bar"][i]
             call == [old EXCEPT !.reply = linked[old.chat]]
  <2>1. old \in ChatLoad /\ barSources' = barSources
    BY <1>4, <1>7 DEF AnswerLoad, Unanswered, InFlight
  <2>2. chatLoads' = [chatLoads EXCEPT !["bar"] = [chatLoads["bar"] EXCEPT ![i] = call]]
    BY <1>4, <1>7 DEF AnswerLoad
  <2>3. old.chat = activeChat
    BY <1>4, <1>5, <2>1 DEF BarFollows
  <2>4. call.chat = activeChat
    BY <2>1, <2>3 DEF ChatLoad
  <2>5. call.reply = linked[activeChat]
    BY <2>1, <2>3 DEF ChatLoad
  <2>6. chatLoads["bar"][i] # None
    BY <1>5, <2>1
  <2> HIDE DEF call, old
  <2>7. chatLoads'["bar"][i] = call /\ \A j \in Loads : j # i => chatLoads'["bar"][j] = chatLoads["bar"][j]
    BY <1>4, <2>2
  <2>8. call # None
    <3>1. call \in ChatLoad
      <4>1. linked[activeChat] \in SUBSET Uploads
        BY <2>1, <2>3 DEF PanelsInv, HookInv, HookTyped, ChatLoad
      <4>2. QED
        BY <2>1, <2>3, <4>1 DEF call, ChatLoad
    <3>2. QED
      BY <1>5, <3>1
  <2>9. ASSUME NEW j \in Loads, chatLoads'["bar"][j] # None
        PROVE  /\ chatLoads'["bar"][j].chat = activeChat'
               /\ chatLoads'["bar"][j].reply # None =>
                     /\ chatLoads'["bar"][j].reply \subseteq linked'[activeChat']
                     /\ \A r \in linked'[activeChat'] : r \in chatLoads'["bar"][j].reply \/ Coming(r)'
    <3>1. CASE j = i
      BY <1>1, <1>2, <2>4, <2>5, <2>7, <3>1
    <3>2. CASE j # i
      BY <1>1, <1>2, <1>3, <2>7, <2>9, <3>2 DEF BarFollows
    <3>3. QED
      BY <3>1, <3>2
  <2>10. QED
    BY <1>1, <1>3, <2>7, <2>8, <2>9 DEF BarFollows
<1>8. ASSUME NEW i \in Loads, BarReceives(i) PROVE BarFollows'
  <2>1. /\ chatLoads["bar"][i] # None /\ chatLoads["bar"][i].reply # None
        /\ chatLoads' = [chatLoads EXCEPT !["bar"] = [chatLoads["bar"] EXCEPT ![i] = None]]
        /\ barSources' = chatLoads["bar"][i].reply
    BY <1>4, <1>8 DEF BarReceives, LoadEnds, Answered, InFlight
  <2>2. /\ barSources' \subseteq linked[activeChat]
        /\ \A r \in linked[activeChat] : r \in barSources' \/ Coming(r)
    BY <2>1 DEF BarFollows
  <2>3. \A j \in Loads : chatLoads'["bar"][j] # None => chatLoads'["bar"][j] = chatLoads["bar"][j]
    BY <1>4, <2>1
  <2>4. ASSUME NEW j \in Loads, chatLoads'["bar"][j] # None
        PROVE  /\ chatLoads'["bar"][j].chat = activeChat'
               /\ chatLoads'["bar"][j].reply # None =>
                     /\ chatLoads'["bar"][j].reply \subseteq linked'[activeChat']
                     /\ \A r \in linked'[activeChat'] : r \in chatLoads'["bar"][j].reply \/ Coming(r)'
    BY <1>1, <1>2, <1>3, <2>3, <2>4 DEF BarFollows
  <2>5. QED
    BY <1>1, <1>2, <1>3, <2>2, <2>4 DEF BarFollows
<1>9. ASSUME NEW i \in Loads, ManagerReceives(i) \/ AnswerLoad("manager", i) PROVE BarFollows'
  <2>1. barSources' = barSources /\ chatLoads'["bar"] = chatLoads["bar"]
    BY <1>4, <1>9 DEF ManagerReceives, AnswerLoad, LoadEnds
  <2>2. QED
    BY <1>6, <2>1
<1>10. QED
  BY <1>7, <1>8, <1>9 DEF LoadStep, Displays

\* Another chat is on display, and no call was under way.
LEMMA SelectBar ==
    ASSUME PanelsInv, NEW c \in Chats \cup {None}, Select(c), Observe, Undisturbed'
    PROVE  BarFollows'
<1>1. /\ UNCHANGED <<hookVars, server>> /\ activeChat' = c /\ c # activeChat
      /\ Free(chatLoads["bar"]) # {}
  BY DEF Select, Displays
<1>2. Calling = {} /\ ~Overlap(chatLoads'["bar"])
  BY <1>1 DEF Observe, Undisturbed
<1>3. /\ \A u \in Uploads : ~Working(u)
      /\ \A i \in Loads : chatLoads["bar"][i] = None
  BY <1>2 DEF Calling
<1>4. \A u \in Uploads : Working(u)' => tasks'[u].chat = c
  BY <1>1, <1>3 DEF Working, hookVars
<1>5. chatLoads \in [Displays -> [Loads -> ChatLoad \cup {None}]] /\ "bar" \in Displays /\ "bar" # "manager"
  BY DEF PanelsInv, PanelTyped, Displays
<1>6. Cancelled("bar") = chatLoads["bar"]
  BY <1>5 DEF Cancelled
<1>7. CASE c = None
  <2>1. chatLoads'["bar"] = chatLoads["bar"]
    BY <1>5, <1>6, <1>7 DEF Select
  <2>2. QED
    BY <1>1, <1>3, <1>4, <1>7, <2>1 DEF BarFollows
<1>8. CASE c # None
  <2>1. "bar" \in plan.panels
    BY <1>1 DEF Undisturbed, hookVars, PanelsInv, ManagerKnows, Panels
  <2>2. chatLoads'["bar"] = With(chatLoads["bar"], c)
    BY <1>5, <1>6, <1>8, <2>1 DEF Select
  <2>3. c \in Chats /\ chatLoads["bar"] \in [Loads -> ChatLoad \cup {None}]
    BY <1>5, <1>8
  <2>4. QED
    BY <1>1, <1>2, <1>4, <2>2, <2>3, BarLoads
<1>9. QED
  BY <1>7, <1>8

\* The panels stay together.
LEMMA TogetherStays ==
    ASSUME PanelsInv, PanelsInv', Together, Next
    PROVE  Together'
<1>1. plan'.panels = plan.panels
  BY PlanStays
<1>2. mounted' = mounted \/ Unmount
  BY TaskStepsStayMounted DEF Next, UserStep, SystemStep, Fill, Add, BeginUpload, Refresh, RefreshSources, Select,
     Link, TaskStep, LinkStep, AnswerLink, Linked, LinkFails, LinkEnds, ReloadStep, AnswerReload,
     ReceiveReload, ReloadFails, ReloadEnds, LoadStep, AnswerLoad, LoadFails, LoadEnds, BarReceives,
     ManagerReceives, hookVars
<1>3. \/ \A p \in Panels : mounted'[p] <=> p \in plan.panels
      \/ \A p \in Panels : ~mounted'[p]
  BY <1>2 DEF Together, Unmount
<1>4. \/ tasks' = tasks
      \/ \E u \in Uploads : ClientStep(u) \/ ServerStep(u)
      \/ \E p \in Panels, u \in Uploads : Add(p, u)
  BY DEF Next, UserStep, SystemStep, Fill, Refresh, RefreshSources, Select,
     Link, TaskStep, LinkStep, AnswerLink, Linked, LinkFails, LinkEnds, ReloadStep, AnswerReload,
     ReceiveReload, ReloadFails, ReloadEnds, LoadStep, AnswerLoad, LoadFails, LoadEnds, BarReceives,
     ManagerReceives, Unmount, hookVars
<1>5. ASSUME NEW u \in Uploads, ClientStep(u) \/ ServerStep(u), NEW v \in Uploads, Working(v)'
      PROVE  tasks'[v].panel \in plan.panels
  <2>1. TaskMoves(u)
    BY <1>5, TaskStepsKeep DEF PanelsInv
  <2>2. Working(v) /\ tasks'[v].panel = tasks[v].panel
    BY <1>5, <2>1 DEF TaskMoves, Working, PanelsInv, HookInv, TasksTyped
  <2>3. QED
    BY <2>2 DEF Together
<1>6. ASSUME NEW p \in Panels, NEW u \in Uploads, Add(p, u), NEW v \in Uploads, Working(v)'
      PROVE  tasks'[v].panel \in plan.panels
  <2>1. /\ mounted[p] /\ BeginUpload(u, p, activeChat)
    BY <1>6 DEF Add
  <2>2. tasks'[u] = [Idle EXCEPT !.step = "upload", !.panel = p, !.chat = activeChat]
    BY <2>1 DEF BeginUpload, PanelsInv, HookInv, TasksTyped
  <2>3. tasks'[u].panel = p
    BY <2>2 DEF Idle
  <2>4. v # u => tasks'[v] = tasks[v]
    BY <2>1 DEF BeginUpload, PanelsInv, HookInv, TasksTyped
  <2>5. p \in plan.panels
    BY <2>1 DEF Together
  <2>6. QED
    BY <1>6, <2>3, <2>4, <2>5 DEF Together, Working
<1>7. \A v \in Uploads : Working(v)' => tasks'[v].panel \in plan.panels
  BY <1>4, <1>5, <1>6 DEF Together, Working
<1>8. QED
  BY <1>1, <1>3, <1>7 DEF Together

\* Every step.
LEMMA BarStep ==
    PanelsInv /\ PanelsInv' /\ BarInv /\ [Next]_vars => BarInv'
<1> SUFFICES ASSUME PanelsInv, PanelsInv', BarInv, [Next]_vars PROVE BarInv'
  OBVIOUS
<1>1. ASSUME UNCHANGED <<tasks, linked, activeChat, barSources>>, chatLoads'["bar"] = chatLoads["bar"],
             BarFollows
      PROVE  BarFollows'
  <2>1. /\ \A r : Coming(r)' <=> Coming(r)
        /\ \A u \in Uploads : Working(u)' => tasks'[u].chat = activeChat
    BY <1>1 DEF Coming, BarFollows, Working
  <2>2. QED
    BY <1>1, <2>1, BarStays
<1>2. CASE UNCHANGED vars
  <2>1. /\ UNCHANGED <<tasks, linked, activeChat, barSources>> /\ chatLoads' = chatLoads
        /\ mounted' = mounted /\ plan' = plan /\ strayed' = strayed
    BY <1>2 DEF vars, hookVars, server, pageVars, linkVars, ghosts
  <2>2. BarFollows => BarFollows'
    BY <1>1, <2>1
  <2>3. QED
    BY <2>1, <2>2 DEF BarInv, Together, Undisturbed, Working
<1>3. CASE Next
  <2>1. Together'
    BY <1>3, TogetherStays DEF BarInv
  <2> SUFFICES ASSUME Undisturbed' PROVE BarFollows'
    BY <2>1 DEF BarInv
  <2>2. /\ Observe /\ (UserStep \/ SystemStep)
        /\ plan'.lost = plan.lost /\ plan'.panels = plan.panels
    BY <1>3, PlanStays DEF Next
  <2>3. /\ strayed = {} /\ plan.lost = {} /\ "manager" \notin plan.panels /\ strayed' = {}
        /\ ~Overlap(chatLoads'["bar"])
    BY <2>2 DEF Undisturbed, Observe
  <2>4. mounted["bar"] /\ mounted'["bar"] /\ ~Unmount
    <3>1. mounted'["bar"] /\ "bar" \in Panels
      BY DEF Undisturbed, Panels
    <3>2. ~Unmount
      BY <3>1 DEF Unmount
    <3>3. mounted' = mounted
      BY <2>2, <3>2, TaskStepsStayMounted DEF UserStep, SystemStep, Fill, Add, BeginUpload, Refresh,
         RefreshSources, Select, Link, TaskStep, LinkStep, AnswerLink, Linked, LinkFails, LinkEnds,
         ReloadStep, AnswerReload, ReceiveReload, ReloadFails, ReloadEnds, LoadStep, AnswerLoad, LoadFails,
         LoadEnds, BarReceives, ManagerReceives, hookVars
    <3>4. QED
      BY <3>1, <3>2, <3>3
  <2>5. Together /\ BarFollows
    BY <2>3, <2>4 DEF BarInv, Undisturbed
  <2>6. ASSUME NEW u \in Uploads, TaskStep(u) PROVE BarFollows'
    BY <2>3, <2>5, <2>6, TaskBar
  <2>7. CASE LoadStep
    BY <2>3, <2>4, <2>5, <2>7, LoadBar
  <2>8. ASSUME NEW c \in Chats \cup {None}, Select(c) PROVE BarFollows'
    BY <2>2, <2>3, <2>8, SelectBar
  <2>9. ASSUME NEW p \in Panels, NEW u \in Uploads, Add(p, u) PROVE BarFollows'
    <3>1. /\ BeginUpload(u, p, activeChat) /\ UNCHANGED <<linked, activeChat, barSources>>
          /\ chatLoads' = chatLoads
      BY <2>9 DEF Add, BeginUpload, server, linkVars
    <3>2. tasks'[u] = [Idle EXCEPT !.step = "upload", !.panel = p, !.chat = activeChat]
      BY <3>1 DEF BeginUpload, PanelsInv, HookInv, TasksTyped
    <3>3. tasks'[u].chat = activeChat
      BY <3>2 DEF Idle
    <3>4. At(u, "idle") /\ \A v \in Uploads : v # u => tasks'[v] = tasks[v]
      BY <3>1 DEF BeginUpload, PanelsInv, HookInv, TasksTyped
    <3>5. \A v \in Uploads : Working(v)' => tasks'[v].chat = activeChat
      BY <2>5, <3>3, <3>4 DEF BarFollows, Working
    <3>6. \A r : Coming(r) => Coming(r)'
      BY <3>4 DEF Coming, At, Watching
    <3>7. QED
      BY <2>5, <3>1, <3>5, <3>6, BarStays
  <2>10. ASSUME NEW r \in Uploads, Link(r) \/ LinkStep(r) PROVE BarFollows'
    <3>1. linkCalls[r] = None /\ ~mounted["manager"]
      BY <2>3 DEF PanelsInv, ManagerKnows, Panels
    <3>2. QED
      BY <2>10, <3>1 DEF Link, LinkStep, AnswerLink, Linked, LinkFails, Unanswered, Answered, InFlight
  <2>11. CASE Refresh
    <3>1. ~mounted["manager"]
      BY <2>3 DEF PanelsInv, ManagerKnows, Panels
    <3>2. QED
      BY <2>11, <3>1 DEF Refresh
  <2>12. CASE \E p \in Panels, k \in Kinds, f \in Files : Fill(p, k, f)
    <3>1. UNCHANGED <<tasks, linked, activeChat, barSources>> /\ chatLoads' = chatLoads
      BY <2>12 DEF Fill, hookVars, server, linkVars
    <3>2. QED
      BY <1>1, <2>5, <3>1
  <2>13. ASSUME NEW p \in Panels, ReloadStep(p) PROVE BarFollows'
    <3>1. UNCHANGED <<tasks, linked, activeChat, barSources>> /\ chatLoads' = chatLoads
      BY <2>13 DEF ReloadStep, AnswerReload, ReceiveReload, ReloadFails, ReloadEnds, server, pageVars,
         linkVars
    <3>2. QED
      BY <1>1, <2>5, <3>1
  <2>14. CASE UserStep
    BY <2>4, <2>8, <2>9, <2>10, <2>11, <2>12, <2>14 DEF UserStep
  <2>15. CASE SystemStep
    BY <2>6, <2>7, <2>10, <2>13, <2>15 DEF SystemStep
  <2>16. QED
    BY <2>2, <2>14, <2>15
<1>4. QED
  BY <1>2, <1>3

\* Once every call is over the bar shows the sources that are linked to the
\* chat on display, although its page is told of a new one only by the end of
\* its task (handleSourceIngested of page.tsx), unless the chat changed under a
\* call or two loads of the bar overlapped.
THEOREM BarShowsSourcesHolds == Spec => []BarShowsSources
<1>1. Init => BarInv
  <2> SUFFICES ASSUME Init PROVE BarInv
    OBVIOUS
  <2>1. /\ \A u \in Uploads : tasks[u] = Idle
        /\ \A p \in Panels : mounted[p] <=> p \in plan.panels
    BY DEF Init, HookInit
  <2>2. \A u \in Uploads : ~Working(u)
    BY <2>1 DEF Idle, Working
  <2>3. activeChat = None /\ \A i \in Loads : chatLoads["bar"][i] = None
    BY DEF Init, Displays
  <2>4. QED
    BY <2>1, <2>2, <2>3 DEF BarInv, Together, BarFollows
<1>2. Spec => []BarInv
  BY <1>1, BarStep, PanelsInvHolds, PTL DEF Spec
<1>3. PanelsInv /\ BarInv => BarShowsSources
  <2> SUFFICES ASSUME PanelsInv, BarInv, mounted["bar"], ~mounted["manager"], ~isLoading["bar"],
                      strayed = {}, Calling = {}, plan.lost = {}
               PROVE  BarShows = (IF activeChat = None THEN {} ELSE linked[activeChat])
    BY DEF BarShowsSources
  <2>1. "manager" \notin plan.panels
    BY DEF BarInv, Together, Panels
  <2>2. BarFollows
    BY <2>1 DEF BarInv, Undisturbed
  <2>3. /\ \A u \in Uploads : ~Working(u)
        /\ \A i \in Loads : chatLoads["bar"][i] = None
    BY DEF Calling
  <2>4. \A r : ~Coming(r)
    BY <2>3 DEF Coming, Working, Watching, Ended
  <2>5. activeChat # None => barSources = linked[activeChat]
    BY <2>2, <2>3, <2>4 DEF BarFollows
  <2>6. QED
    BY <2>5 DEF BarShows
<1>4. QED
  BY <1>2, <1>3, PanelsInvHolds, PTL
=============================================================================
