-------------------------------- MODULE Sources --------------------------------
(***************************************************************************)
(* The panels that add sources and show the ones of a chat:                *)
(* components/chat/chat-sources-bar.tsx with what app/(app)/page.tsx keeps *)
(* for it, the source controls of components/chat/chat-input.tsx, and      *)
(* components/sources/source-manager.tsx, each on its copy of SourceHook.  *)
(* Staging a source for a chat that does not exist yet is in HomePage.     *)
(***************************************************************************)
EXTENDS SourceHook, SourceViews, FiniteSets

CONSTANTS
    Loads,     \* bound: calls of getChatSources in flight at once
    Plans      \* bound: what may happen in one behaviour

\* Calls of getChatSources and of linkSourceToChat: the chat they are for,
\* whether what they answer still counts, and the answer.
ChatLoad == [chat : Chats, live : BOOLEAN, reply : (SUBSET Uploads) \cup {None}]
LinkCall == [chat : Chats, reply : {"ok", None}]

ASSUME SourcesAssumption ==
    /\ Plans \subseteq [panels : SUBSET Panels, uploads : SUBSET Uploads,
                        moves : Nat, reloads : Nat, links : Nat, leaves : BOOLEAN,
                        lost : SUBSET {"upload", "chat", "process", "server", "get", "list", "link"}]
    /\ None \notin Chats \cup ChatLoad \cup LinkCall /\ \A u \in Uploads : File[u] # None

VARIABLES
    activeChat,   \* activeChatId
    busy,         \* isUploadingPdf or isUploading, isAddingYoutube
    field,        \* the file or the address a form holds
    barSources,   \* linkedSources
    managerLinks, \* linkedSourceIds
    linking,      \* linkingSourceIds
    chatLoads,    \* calls of getChatSources in flight
    linkCalls,    \* calls of linkSourceToChat in flight, by source
    plan,         \* what is left of the behaviour's moves, reloads and links, and the rest
    strayed,      \* ghost: the calls the chat changed under; the bar's loads when they overlapped
    raced         \* ghost: a reload of a panel overlapped one of its tasks

pageVars == <<activeChat, busy, field>>
linkVars == <<barSources, managerLinks, linking, chatLoads, linkCalls>>
ghosts == <<strayed, raced>>
vars == <<hookVars, server, pageVars, linkVars, plan, ghosts>>

\* The panels that show the sources of the chat.
Displays == {"bar", "manager"}

Files == {File[u] : u \in Uploads}

Init ==
    /\ plan \in Plans
    /\ HookInit(plan.panels)
    /\ activeChat = None
    /\ busy = [p \in Panels |-> [k \in Kinds |-> FALSE]]
    /\ field = [p \in Panels |-> [k \in Kinds |-> None]]
    /\ barSources = {} /\ managerLinks = {} /\ linking = {}
    /\ chatLoads = [p \in Displays |-> [i \in Loads |-> None]]
    /\ linkCalls = [r \in Uploads |-> None]
    /\ strayed = {} /\ raced = FALSE

-----------------------------------------------------------------------------
(* What the panels let the user do. *)

\* The forms: which kinds are taken as soon as a file is picked or dropped,
\* and whose field is locked while a source is being added.  The buttons for a
\* file stay usable in the bar and the input.
BarForm == [atOnce |-> {"pdf"}, locks |-> {"video"}]
InputForm == [atOnce |-> {"pdf"}, locks |-> {"video"}]
ManagerForm == [atOnce |-> {}, locks |-> {}]

Form == [p \in Panels |-> CASE p = "bar" -> BarForm [] p = "input" -> InputForm [] OTHER -> ManagerForm]

TakesAtOnce(p, k) == k \in Form[p].atOnce

\* Variant: nothing is disabled while a source is being added.
FieldAlways(p, k) == ~TakesAtOnce(p, k)

FieldEnabled(p, k) == ~TakesAtOnce(p, k) /\ ~(k \in Form[p].locks /\ busy[p][k])

AddEnabled(p, k) == TakesAtOnce(p, k) \/ (field[p][k] # None /\ ~busy[p][k])

\* The bar shows the chat's sources, or a spinner while its hook loads.
BarShows == IF isLoading["bar"] \/ activeChat = None THEN {} ELSE barSources

LinkEnabled(r) ==
    /\ ~isLoading["manager"] /\ sources["manager"][r] # None
    /\ ~LinkDisabled(sources["manager"][r], activeChat # None, r \in managerLinks, r \in linking)

Fill(p, k, f) ==
    /\ mounted[p] /\ FieldEnabled(p, k) /\ field[p][k] # f
    /\ \E u \in plan.uploads : Kind[u] = k /\ File[u] = f /\ At(u, "idle")
    /\ field' = [field EXCEPT ![p][k] = f]
    /\ UNCHANGED <<hookVars, server, activeChat, busy, linkVars, plan>>

\* handleUploadPdf, handleFileChange, handleDrop, handleAddYoutube.
Add(p, u) ==
    LET k == Kind[u]
    IN  /\ u \in plan.uploads
        /\ mounted[p] /\ AddEnabled(p, k)
        /\ field[p][k] \in {None, File[u]}
        /\ BeginUpload(u, p, activeChat)
        /\ busy' = [busy EXCEPT ![p][k] = TRUE]
        /\ UNCHANGED <<activeChat, field, linkVars, plan>>

Refresh ==
    /\ mounted["manager"] /\ plan.reloads > 0
    /\ RefreshSources("manager")
    /\ plan' = [plan EXCEPT !.reloads = @ - 1]
    /\ UNCHANGED <<pageVars, linkVars>>

-----------------------------------------------------------------------------
(* The sources of the chat. *)

Free(calls) == {i \in Loads : calls[i] = None}

\* calls with one more getChatSources(c) in flight.
With(calls, c) ==
    [calls EXCEPT ![CHOOSE i \in Free(calls) : TRUE] = [chat |-> c, live |-> TRUE, reply |-> None]]

\* Variant: the manager's effect is not cleaned up.
KeptLoads(p) == chatLoads[p]

\* The clean-up of the manager's effect; the page's has none.
Cancelled(p) ==
    [i \in Loads |-> IF p = "manager" /\ chatLoads[p][i] # None
                     THEN [chatLoads[p][i] EXCEPT !.live = FALSE] ELSE chatLoads[p][i]]

\* The chat on display changes, and the effects of the page and the manager run.
Select(c) ==
    /\ \A p \in plan.panels : mounted[p]
    /\ plan.moves > 0 /\ c # activeChat
    /\ activeChat' = c
    /\ plan' = [plan EXCEPT !.moves = @ - 1]
    /\ \A p \in Displays : Free(chatLoads[p]) # {}
    /\ IF c = None
       THEN /\ barSources' = {} /\ managerLinks' = {}
            /\ chatLoads' = [p \in Displays |-> Cancelled(p)]
       ELSE /\ chatLoads' = [p \in Displays |->
                    IF p \in plan.panels THEN With(Cancelled(p), c) ELSE Cancelled(p)]
            /\ UNCHANGED <<barSources, managerLinks>>
    /\ UNCHANGED <<hookVars, server, busy, field, linking, linkCalls>>

AnswerLoad(p, i) ==
    /\ Unanswered(chatLoads[p][i])
    /\ chatLoads' = [chatLoads EXCEPT ![p][i].reply = linked[chatLoads[p][i].chat]]
    /\ UNCHANGED <<hookVars, server, pageVars, barSources, managerLinks, linking, linkCalls, plan>>

LoadEnds(p, i) ==
    /\ chatLoads' = [chatLoads EXCEPT ![p][i] = None]
    /\ UNCHANGED <<hookVars, server, pageVars, linking, linkCalls, plan>>

\* setLinkedSources, whichever chat is on display by now.
BarReceives(i) ==
    /\ Answered(chatLoads["bar"][i])
    /\ barSources' = IF mounted["bar"] THEN chatLoads["bar"][i].reply ELSE barSources
    /\ LoadEnds("bar", i) /\ UNCHANGED managerLinks

\* setLinkedSourceIds, unless the effect was cleaned up.
ManagerReceives(i) ==
    /\ Answered(chatLoads["manager"][i])
    /\ managerLinks' = IF chatLoads["manager"][i].live THEN chatLoads["manager"][i].reply
                       ELSE managerLinks
    /\ LoadEnds("manager", i) /\ UNCHANGED barSources

LoadFails(p, i) ==
    /\ InFlight(chatLoads[p][i])
    /\ managerLinks' = IF p = "manager" /\ chatLoads[p][i].live THEN {} ELSE managerLinks
    /\ LoadEnds(p, i) /\ UNCHANGED barSources

BeginLinking(r) == linking' = linking \cup {r}
EndLinking(r) == linking' = linking \ {r}

\* handleLinkToChat.
Link(r) ==
    /\ mounted["manager"] /\ LinkEnabled(r) /\ plan.links > 0
    /\ BeginLinking(r)
    /\ linkCalls' = [linkCalls EXCEPT ![r] = [chat |-> activeChat, reply |-> None]]
    /\ plan' = [plan EXCEPT !.links = @ - 1]
    /\ UNCHANGED <<hookVars, server, pageVars, barSources, managerLinks, chatLoads>>

AnswerLink(r) ==
    /\ Unanswered(linkCalls[r])
    /\ linked' = [linked EXCEPT ![linkCalls[r].chat] = @ \cup {r}]
    /\ linkCalls' = [linkCalls EXCEPT ![r].reply = "ok"]
    /\ UNCHANGED <<hookVars, jobs, status, pageVars, barSources, managerLinks, linking, chatLoads, plan>>

LinkEnds(r) ==
    /\ EndLinking(r)
    /\ linkCalls' = [linkCalls EXCEPT ![r] = None]
    /\ UNCHANGED <<hookVars, server, pageVars, barSources, chatLoads, plan>>

\* Whatever chat is on display by now.
Linked(r) == Answered(linkCalls[r]) /\ managerLinks' = managerLinks \cup {r} /\ LinkEnds(r)

LinkFails(r) == InFlight(linkCalls[r]) /\ UNCHANGED managerLinks /\ LinkEnds(r)

-----------------------------------------------------------------------------
(* The panel that waits for a task goes on as soon as the task has ended:  *)
(* finally the flag is reset, and after a success the field is cleared and *)
(* the page reloads the sources of the chat it knew when the task began.   *)

\* The task ends in this step.
Ends(u) == Working(u) /\ tasks'[u].step \in Ended

\* Variant: the flag is reset only after a success.
ResetOnSuccess(u) ==
    busy' = IF tasks'[u].step = "error" THEN busy
            ELSE [busy EXCEPT ![tasks[u].panel][Kind[u]] = FALSE]

Reset(u) == busy' = [busy EXCEPT ![tasks[u].panel][Kind[u]] = FALSE]

\* Variant: the page is not told.
NotIngested(u) == UNCHANGED chatLoads

\* handleSourceIngested with the activeChatId of the render the task began in.
HandleSourceIngested(u) ==
    IF tasks[u].panel = "manager" \/ tasks[u].chat = None THEN UNCHANGED chatLoads
    ELSE /\ Free(chatLoads["bar"]) # {}
         /\ chatLoads' = [chatLoads EXCEPT !["bar"] = With(@, tasks[u].chat)]

Settles(u) ==
    /\ Reset(u)
    /\ IF tasks'[u].step = "done"
       THEN /\ field' = [field EXCEPT ![tasks[u].panel][Kind[u]] = None]
            /\ HandleSourceIngested(u)
       ELSE UNCHANGED <<field, chatLoads>>
    /\ UNCHANGED <<activeChat, barSources, managerLinks, linking, linkCalls, plan>>

-----------------------------------------------------------------------------

\* What the client does with a task, and with requests that are lost.
ClientStep(u) ==
    \/ Registered(u) \/ Processed(u) \/ Refused(u) \/ CheckAnswer(u) \/ PollAnswer(u) \/ Wake(u)
    \/ "upload" \in plan.lost /\ UploadFails(u)
    \/ "chat" \in plan.lost /\ CreateUnlinked(u)
    \/ "process" \in plan.lost /\ ProcessLost(u)
    \/ "get" \in plan.lost /\ (CheckFails(u) \/ PollFails(u))

ServerStep(u) ==
    \/ FindSource(u) \/ CreateSource(u) \/ BeginJob(u) \/ FinishJob(u) \/ AnswerGet(u)
    \/ "server" \in plan.lost /\ JobDies(u)

TaskStep(u) ==
    /\ ClientStep(u) \/ ServerStep(u)
    /\ IF Ends(u) THEN Settles(u) ELSE UNCHANGED <<pageVars, linkVars, plan>>

ReloadStep(p) ==
    /\ \E i \in Reloads : \/ AnswerReload(p, i) \/ ReceiveReload(p, i)
                          \/ "list" \in plan.lost /\ ReloadFails(p, i)
    /\ UNCHANGED <<pageVars, linkVars, plan>>

LoadStep ==
    \/ \E p \in Displays, i \in Loads :
          AnswerLoad(p, i) \/ ("list" \in plan.lost /\ LoadFails(p, i))
    \/ \E i \in Loads : BarReceives(i) \/ ManagerReceives(i)

LinkStep(r) == AnswerLink(r) \/ Linked(r) \/ ("link" \in plan.lost /\ LinkFails(r))

UserStep ==
    \/ \E p \in Panels, k \in Kinds, f \in Files : Fill(p, k, f)
    \/ \E p \in Panels, u \in Uploads : Add(p, u)
    \/ Refresh
    \/ \E c \in Chats \cup {None} : Select(c)
    \/ \E r \in Uploads : Link(r)
    \/ plan.leaves /\ Unmount /\ UNCHANGED <<pageVars, linkVars, plan>>

SystemStep ==
    \/ \E u \in Uploads : TaskStep(u) \/ LinkStep(u)
    \/ \E p \in Panels : ReloadStep(p)
    \/ LoadStep

\* Calls under way that the chat on display may change under.
Calling ==
    {x \in {"task", "link", "load"} :
        \/ x = "task" /\ \E u \in Uploads : Working(u)
        \/ x = "link" /\ \E r \in Uploads : linkCalls[r] # None
        \/ x = "load" /\ \E i \in Loads : chatLoads["bar"][i] # None}

\* Two of the calls are in flight at once.
Overlap(calls) == \E i, j \in Loads : i # j /\ calls[i] # None /\ calls[j] # None

\* The ghosts look at the step.
Observe ==
    /\ strayed' = strayed \cup (IF activeChat' # activeChat THEN Calling ELSE {})
                         \cup (IF Overlap(chatLoads'["bar"]) THEN {"load"} ELSE {})
    /\ raced' = (raced \/ \E u \in Uploads, i \in Reloads :
                           Working(u) /\ reloads[tasks[u].panel][i] # None)

Next == (UserStep \/ SystemStep) /\ Observe

Spec == Init /\ [][Next]_vars

\* Answers, jobs and timers do not all stand still for ever: enough here, since
\* only a bounded number of them follows what the user did.  The user owes
\* nothing.
Fairness == WF_vars(SystemStep /\ Observe)

FairSpec == Spec /\ Fairness

-----------------------------------------------------------------------------
(* Properties. *)

Task == [step : {"idle", "upload", "create", "uploaded", "process", "processed", "refused",
                 "check", "get", "sleep"} \cup Ended,
         panel : Panels \cup {None}, chat : Chats \cup {None}, row : Uploads \cup {None},
         known : Statuses \cup {None}, reply : Statuses \cup {None},
         wait : Nat, elapsed : 0..PollTimeout]

\* The variables stay in their types, no task sleeps longer than the longest
\* interval, and only a row has a job.
TypeOK ==
    /\ mounted \in [Panels -> BOOLEAN] /\ isLoading \in [Panels -> BOOLEAN]
    /\ sources \in [Panels -> [Uploads -> Statuses \cup {None}]]
    /\ marked \in [Panels -> SUBSET Uploads]
    /\ tasks \in [Uploads -> Task]
    /\ \A u \in Uploads : tasks[u].wait <= PollMaxInterval
    /\ jobs \in [Uploads -> {"none", "waiting", "running"}]
    /\ \A u \in Uploads : jobs[u] # "none" => tasks[u].row \in Rows
    /\ status \in [Uploads -> Statuses \cup {None}]
    /\ linked \in [Chats -> SUBSET Rows]
    /\ activeChat \in Chats \cup {None}
    /\ busy \in [Panels -> [Kinds -> BOOLEAN]]
    /\ field \in [Panels -> [Kinds -> Files \cup {None}]]
    /\ barSources \subseteq Rows /\ managerLinks \subseteq Rows /\ linking \subseteq Rows

\* A source is marked as being processed only while a task of the panel works
\* on it, however the task ends.
MarkedIsWorkedOn ==
    \A p \in Panels : \A r \in marked[p] :
        \E u \in Uploads : Working(u) /\ tasks[u].panel = p /\ tasks[u].row = r

\* A form is busy only while a source it was given is being added, and a form
\* that is disabled meanwhile adds one at a time.
BusyIsAdding ==
    \A p \in Panels, k \in Kinds :
        LET adding == {u \in Uploads : Working(u) /\ tasks[u].panel = p /\ Kind[u] = k}
        IN  /\ busy[p][k] => adding # {}
            /\ ~TakesAtOnce(p, k) => Cardinality(adding) = IF busy[p][k] THEN 1 ELSE 0

\* Once its tasks are over, a panel shows every source it added with the status
\* the server has, unless a reload overlapped a task or the file was added again.
RestShowsStatus ==
    \A u \in Uploads :
        At(u, "done") /\ mounted[tasks[u].panel] /\ tasks[u].known # "processing"
        /\ ~raced /\ plan.lost = {} /\ (\A i \in Reloads : reloads[tasks[u].panel][i] = None)
        /\ (\A v \in Uploads \ {u} : File[v] = File[u] => At(v, "idle"))
            => sources[tasks[u].panel][tasks[u].row] = status[tasks[u].row]

\* What the manager ticks as linked to the chat is linked to it, once the load
\* of that chat is over, unless the chat changed under a linkSourceToChat.
ManagerShowsLinks ==
    "link" \notin strayed /\ (\A i \in Loads : chatLoads["manager"][i] = None) =>
        managerLinks \subseteq (IF activeChat = None THEN {} ELSE linked[activeChat])

\* At rest the bar shows the sources of the chat on display, the ones just
\* added included, unless the chat changed under a call or loads overlapped.
\* The manager, which would tell it nothing of its links, is not beside it.
BarShowsSources ==
    mounted["bar"] /\ ~mounted["manager"] /\ ~isLoading["bar"]
    /\ strayed = {} /\ Calling = {} /\ plan.lost = {} =>
        BarShows = (IF activeChat = None THEN {} ELSE linked[activeChat])

\* An address in the bar's or the input's form is cleared only by the success
\* of adding it: nothing else is typed over it meanwhile.
AddressKept ==
    [][\A p \in Panels \ {"manager"} :
          field[p]["video"] # None /\ field'[p]["video"] = None =>
              \E u \in Uploads : Ends(u) /\ File[u] = field[p]["video"]]_vars

\* A form does not stay busy.
BusyEnds ==
    \A p \in Panels, k \in Kinds : busy[p][k] ~> ~busy[p][k]

\* A row that was created does not stay in processing, though only its client
\* asks for the processing, when no request is lost.
SourceSettles ==
    \A r \in Uploads : plan.lost = {} /\ status[r] = "processing" ~> status[r] # "processing"
=============================================================================
