------------------------------- MODULE HomePage -------------------------------
(***************************************************************************)
(* frontend/app/(app)/page.tsx: the page that puts the chat list, the      *)
(* messages and the staged sources together, with the controls of the      *)
(* sidebar and the input as they are rendered.  A handler runs to its next *)
(* await; then React renders and runs the effects whose dependencies       *)
(* changed, before anything else of the page: they are part of the         *)
(* handler's action.                                                       *)
(***************************************************************************)
EXTENDS FiniteSets, MessageHook, ChatListHook, MessageViews

CONSTANTS
    Uploads,     \* every source that is added from this page
    Plans        \* bound: what the user does and what the network loses in one behaviour

ASSUME HomePageAssumption ==
    /\ Sends \subseteq Nat
    /\ None \notin Uploads
    /\ Plans \subseteq [sends : SUBSET Sends, uploads : SUBSET Uploads, edits : Nat, loads : Nat,
                       lost : SUBSET {"list", "create", "send", "history", "link", "upload"}]

VARIABLES
    activeChat,  \* activeChatId
    fresh,       \* isCreatingFreshChat
    skip,        \* skipNextHistoryLoad
    hasText,     \* whether inputValue has text
    pending,     \* pendingSourceIds, and pendingSources with them
    ingest,      \* how far each upload has come
    ingestChat,  \* the activeChatId its handler closed over
    submitted,   \* the sends handleSubmit began; the others regenerate an answer
    waiting,     \* waiting[e]: link calls of submit e in flight
    linkedIds,   \* linkedIds of submit e
    links,       \* the server: chat_session_sources, with those of deleted chats
    made,        \* the server: every chat session there has been
    plan,        \* its sends and uploads, the edits and loads in flight at once, and the calls lost
    overlapped,  \* ghost: a send began while another was under way
    moved        \* ghost: another chat became the active one while something was in flight

ingestVars == <<ingest, ingestChat>>
linkVars == <<waiting, linkedIds>>
pageVars == <<activeChat, fresh, skip, hasText, pending, submitted>>
server == <<history, rows, made, links>>
ghosts == <<overlapped, moved>>
vars == <<hookVars, sendVars, listVars, server, pageVars, ingestVars, linkVars, plan, ghosts>>

\* The user comes back to one chat, or has none yet.
Init ==
    /\ HookInit
    /\ ListInit
    /\ history = [c \in Chats |-> <<>>]
    /\ made \in {{}, {c \in Chats : \A d \in Chats : c <= d}}
    /\ rows = made /\ links = {}
    /\ activeChat = None
    /\ fresh = FALSE /\ skip = FALSE /\ hasText = FALSE
    /\ pending = {} /\ submitted = {}
    /\ ingest = [u \in Uploads |-> "idle"]
    /\ ingestChat = [u \in Uploads |-> None]
    /\ waiting = [e \in Sends |-> {}]
    /\ linkedIds = [e \in Sends |-> {}]
    /\ plan \in Plans
    /\ overlapped = FALSE /\ moved = FALSE

-----------------------------------------------------------------------------
(* What the page renders. *)

\* ChatInput gets disabled = isLoadingHistory || isSending.
InputDisabled == loadingHistory \/ sending

\* The welcome screen, its suggestions live whether the input is disabled or
\* not; the skeletons of a history being loaded; or the messages.
Body ==
    IF shown = <<>> /\ activeChat = None /\ ~loadingHistory THEN "welcome"
    ELSE IF loadingHistory THEN "skeleton" ELSE "messages"

\* One button sends, stops or shows a spinner.
SendButton == IF streaming THEN "stop" ELSE IF sending THEN "spinner" ELSE "send"

\* canSubmit; disabled covers isSending.
CanSubmit == (hasText \/ streaming) /\ ~InputDisabled

\* The sidebar lists a chat, with its menu, unless it shows its skeleton.  A
\* search and the collapsed sidebar only hide what the user can have back.
Listed(c) == ~listLoading /\ c \in chats

\* Regenerate is one of the parts of an answer.
CanRegenerate ==
    /\ Body = "messages"
    /\ \E i \in DOMAIN shown : "regenerate" \in Parts("assistant", shown[i].live, <<>>, TRUE)

-----------------------------------------------------------------------------
(* The effects. *)

\* Variant: an active chat that is not listed any more stays.
AfterEffectsKeeping(a, cs, fr, loading) ==
    IF ~loading /\ a = None /\ cs # {} /\ ~fr THEN Newest(cs) ELSE a

\* Lines 52-69: drop an active chat that is not listed, and pick the newest
\* one unless the user asked for a fresh chat.
AfterEffects(a, cs, fr, loading) ==
    LET kept == IF a \in cs THEN a ELSE None
    IN  IF loading THEN a
        ELSE IF kept = None /\ cs # {} /\ ~fr THEN Newest(cs)
        ELSE kept

\* Bound: histories the page loads at once.
MayLoad == Cardinality({i \in Slots : loads[i] # None}) < plan.loads

\* Variant: the effect loads a history when there is no chat.
ArrivesAnywhere(b) == b # activeChat

Arrives(b) == b \notin {activeChat, None}

\* The page comes to show chat a of the list cs: lines 71-87 clear or load
\* the messages.  On its way the page passes through no chat at all when the
\* active one went away.
Show(a, cs, fr, loading, clear) ==
    LET b == AfterEffects(a, cs, fr, loading)
        left == activeChat # None /\ (a = None \/ (~loading /\ a \notin cs))
        arrives == Arrives(b)
    IN  /\ activeChat' = b
        /\ IF clear \/ left THEN ClearMessages ELSE UNCHANGED <<shown, stream>>
        /\ skip' = (skip /\ ~arrives)
        /\ IF arrives /\ ~skip THEN MayLoad /\ LoadHistory(b) ELSE UNCHANGED <<loads, loadingHistory>>
        /\ UNCHANGED sending

-----------------------------------------------------------------------------
(* The sidebar. *)

SelectChat(c) ==
    /\ Listed(c)
    /\ fresh' = FALSE
    /\ Show(c, chats, FALSE, listLoading, FALSE)
    /\ UNCHANGED <<hasText, pending, submitted, listVars, server, sendVars, ingestVars, linkVars>>

NewChat ==
    /\ fresh' = TRUE /\ hasText' = FALSE
    /\ Show(None, chats, TRUE, listLoading, TRUE)
    /\ UNCHANGED <<pending, submitted, listVars, server, sendVars, ingestVars, linkVars>>

\* Bound: edits of the list in flight.
MayEdit == Cardinality(deleting) + Cardinality(renaming) < plan.edits

DeleteChat(c) ==
    /\ Listed(c) /\ MayEdit
    /\ RemoveFromList(c)
    /\ Show(IF activeChat = c THEN None ELSE activeChat, chats', fresh, listLoading, activeChat = c)
    /\ UNCHANGED <<fresh, hasText, pending, submitted, listLoading, refreshes, renaming, server,
                   sendVars, ingestVars, linkVars>>

RenameChat(c) ==
    /\ Listed(c) /\ MayEdit
    /\ RenameInList(c)
    /\ UNCHANGED <<hookVars, sendVars, chats, listLoading, refreshes, deleting, server, pageVars,
                   ingestVars, linkVars>>

\* The list comes back: the chats may change under the page.
ListAnswer ==
    /\ \E i \in Refreshes : ReceiveRefresh(i) \/ ("list" \in plan.lost /\ RefreshFails(i))
    /\ Show(activeChat, chats', fresh, FALSE, FALSE)
    /\ UNCHANGED <<fresh, hasText, pending, submitted, history, made, links, sendVars, ingestVars,
                   linkVars>>

ListCall ==
    /\ \/ \E i \in Refreshes : AnswerRefresh(i)
       \/ \E c \in Chats : DeleteAnswered(c) \/ RenameAnswered(c)
       \/ \E c \in Chats : "list" \in plan.lost /\ (DeleteFails(c) \/ RenameFails(c))
    /\ UNCHANGED <<hookVars, sendVars, history, made, links, pageVars, ingestVars, linkVars>>

-----------------------------------------------------------------------------
(* The input. *)

\* Typing and deleting.
Type ==
    /\ ~InputDisabled
    /\ hasText' \in BOOLEAN
    /\ UNCHANGED <<hookVars, sendVars, listVars, server, activeChat, fresh, skip, pending, submitted,
                   ingestVars, linkVars>>

\* A suggestion of the welcome screen fills the input.
Suggest ==
    /\ Body = "welcome"
    /\ hasText' = TRUE
    /\ UNCHANGED <<hookVars, sendVars, listVars, server, activeChat, fresh, skip, pending, submitted,
                   ingestVars, linkVars>>

NextSend(e) == e \in plan.sends /\ stage[e] = "idle" /\ \A d \in Sends : d < e => stage[d] # "idle"

\* handleSubmit once it has a chat: the staged sources first, then the message.
LinkThenSend(e, c, ids) ==
    /\ waiting' = [waiting EXCEPT ![e] = ids]
    /\ IF ids = {}
       THEN SendMessage(e, c) /\ hasText' = FALSE
       ELSE /\ Goto(e, "linking")
            /\ target' = [target EXCEPT ![e] = c]
            /\ UNCHANGED <<hookVars, hasText>>

\* Bound: the chats that can still be made.
CanCreate == Cardinality({e \in Sends : stage[e] = "creating"}) < Cardinality(Chats \ made)

\* Enter, or the button when it sends.
Submit(e) ==
    /\ NextSend(e)
    /\ SendButton = "send" /\ CanSubmit
    /\ submitted' = submitted \cup {e}
    /\ IF activeChat = None
       THEN /\ CanCreate
            /\ Goto(e, "creating")
            /\ waiting' = [waiting EXCEPT ![e] = pending]
            /\ UNCHANGED <<hookVars, hasText, target>>
       ELSE LinkThenSend(e, activeChat, pending)
    /\ UNCHANGED <<listVars, server, activeChat, fresh, skip, pending, ingestVars, linkedIds>>

\* POST /chats reaches the server.
CreateChat(e) ==
    /\ stage[e] = "creating"
    /\ \E c \in Chats \ made :
        /\ \A d \in Chats : d < c => d \in made
        /\ rows' = rows \cup {c}
        /\ made' = made \cup {c}
        /\ target' = [target EXCEPT ![e] = c]
    /\ Goto(e, "created")
    /\ UNCHANGED <<hookVars, listVars, history, links, pageVars, ingestVars, linkVars>>

\* The POST or its answer is lost, or createChat throws: the list hook's own
\* copy of useAuth may not know the user yet.
CreateFails(e) ==
    /\ "create" \in plan.lost
    /\ stage[e] \in {"creating", "created"}
    /\ Goto(e, "over")
    /\ UNCHANGED <<hookVars, target, listVars, server, pageVars, ingestVars, linkVars>>

\* handleSubmit after createChat.  skipNextHistoryLoad spares the new chat its
\* history; the flag stays up when a reload of the list has already made the
\* new chat the active one, since no effect runs then.
ChatCreated(e) ==
    /\ stage[e] = "created"
    /\ AddToList(target[e])
    /\ fresh' = FALSE
    /\ activeChat' = target[e]
    /\ skip' = (activeChat = target[e])
    /\ LinkThenSend(e, target[e], waiting[e])
    /\ UNCHANGED <<listLoading, refreshes, deleting, renaming, server, pending, submitted,
                   ingestVars, linkedIds>>

\* One linkSourceToChat call.  A failure, a lost answer or a conflict with a link
\* that exists is skipped silently, and the source stays staged.
LinkSource(e, u) ==
    /\ stage[e] = "linking"
    /\ u \in waiting[e]
    /\ waiting' = [waiting EXCEPT ![e] = @ \ {u}]
    /\ \/ /\ target[e] \in rows /\ <<target[e], u>> \notin links
          /\ links' = links \cup {<<target[e], u>>}
          /\ linkedIds' = [linkedIds EXCEPT ![e] = @ \cup {u}]
       \/ /\ target[e] \notin rows \/ <<target[e], u>> \in links \/ "link" \in plan.lost
          /\ links' \in {links} \cup {links \cup {<<c, u>>} : c \in {target[e]} \cap rows}
          /\ UNCHANGED linkedIds
    /\ UNCHANGED <<hookVars, sendVars, listVars, history, rows, made, pageVars, ingestVars>>

\* Variant: every staged source is unstaged, linked or not.
UnstagedAll(e) == {}

\* setPendingSourceIds after the link calls.
Unstaged(e) == pending \ linkedIds[e]

\* Promise.allSettled resolves: the sources that were linked are unstaged.
LinksSettled(e) ==
    /\ stage[e] = "linking"
    /\ waiting[e] = {}
    /\ pending' = Unstaged(e)
    /\ hasText' = FALSE
    /\ SendMessage(e, target[e])
    /\ UNCHANGED <<listVars, server, activeChat, fresh, skip, submitted, ingestVars, linkVars>>

\* The button while an answer streams.
Stop ==
    /\ SendButton = "stop" /\ CanSubmit
    /\ StopStreaming
    /\ UNCHANGED <<loadingHistory, sending, loads, sendVars, listVars, server, pageVars, ingestVars,
                   linkVars>>

\* handleRegenerate sends the last question of the messages again.
Regenerate(e) ==
    /\ NextSend(e)
    /\ CanRegenerate
    /\ activeChat # None /\ ~sending
    /\ SendMessage(e, activeChat)
    /\ UNCHANGED <<listVars, server, pageVars, ingestVars, linkVars>>

\* The reply may carry a title, which handleSubmit writes back.
SendAnswer(e) ==
    /\ ReceiveAnswer(e)
    /\ \/ e \in submitted /\ MayEdit /\ RenameInList(target[e])
       \/ UNCHANGED renaming
    /\ UNCHANGED <<chats, listLoading, refreshes, deleting, rows, made, links, pageVars, ingestVars,
                   linkVars>>

\* The server has the chat or refuses.
ServerSend(e) ==
    /\ AnswerSend(e)
    /\ target[e] \in rows
    /\ UNCHANGED <<listVars, rows, made, links, pageVars, ingestVars, linkVars>>

ServerHistory(i) ==
    /\ AnswerHistory(i)
    /\ loads[i].chat \in rows
    /\ UNCHANGED <<listVars, rows, made, links, pageVars, ingestVars, linkVars>>

SendLost(e) ==
    /\ SendFails(e)
    /\ "send" \in plan.lost \/ target[e] \notin rows
    /\ UNCHANGED <<listVars, rows, made, links, pageVars, ingestVars, linkVars>>

HistoryAnswer(i) ==
    /\ \/ ReceiveHistory(i)
       \/ HistoryFails(i) /\ ("history" \in plan.lost \/ loads[i].chat \notin rows)
    /\ UNCHANGED <<listVars, rows, made, links, pageVars, ingestVars, linkVars>>

TimerTick(e) ==
    /\ ShowWord(e) \/ FinishStream(e)
    /\ UNCHANGED <<listVars, rows, made, links, pageVars, ingestVars, linkVars>>

-----------------------------------------------------------------------------
(* The sources of the chat. *)

\* onAddPdf, onAddYoutube and the input's attachments: the handler holds the
\* activeChatId of the render it was made in until the source has settled.
StartIngest(u) ==
    /\ u \in plan.uploads
    /\ ingest[u] = "idle"
    /\ ingest' = [ingest EXCEPT ![u] = "running"]
    /\ ingestChat' = [ingestChat EXCEPT ![u] = activeChat]
    /\ UNCHANGED <<hookVars, sendVars, listVars, server, pageVars, linkVars>>

\* handleSourceIngested; a source of a chat was linked to it by its upload.
SourceIngested(u) ==
    /\ ingest[u] = "running"
    /\ ingest' = [ingest EXCEPT ![u] = "over"]
    /\ IF ingestChat[u] = None
       THEN pending' = pending \cup {u} /\ UNCHANGED links
       ELSE links' = links \cup {<<ingestChat[u], u>>} /\ UNCHANGED pending
    /\ UNCHANGED <<hookVars, sendVars, listVars, history, rows, made, activeChat, fresh, skip,
                   hasText, submitted, ingestChat, linkVars>>

\* The upload or its processing throws.
IngestFails(u) ==
    /\ "upload" \in plan.lost
    /\ ingest[u] = "running"
    /\ ingest' = [ingest EXCEPT ![u] = "failed"]
    /\ UNCHANGED <<hookVars, sendVars, listVars, server, pageVars, ingestChat, linkVars>>

-----------------------------------------------------------------------------

Sidebar ==
    \/ NewChat
    \/ \E c \in Chats : SelectChat(c) \/ DeleteChat(c) \/ RenameChat(c)

Input == \/ Type \/ Suggest \/ Stop
         \/ \E e \in Sends : Submit(e) \/ Regenerate(e)

\* A send moves on, whatever becomes of it.
SendStep(e) ==
    \/ CreateChat(e) \/ CreateFails(e) \/ ChatCreated(e)
    \/ \E u \in Uploads : LinkSource(e, u)
    \/ LinksSettled(e)
    \/ ServerSend(e) \/ SendAnswer(e) \/ SendLost(e)

LoadStep(i) == ServerHistory(i) \/ HistoryAnswer(i)

Ingest == \E u \in Uploads : StartIngest(u) \/ SourceIngested(u) \/ IngestFails(u)

Step ==
    \/ Sidebar \/ Input \/ ListAnswer \/ ListCall \/ Ingest
    \/ \E e \in Sends : SendStep(e) \/ TimerTick(e)
    \/ \E i \in Slots \cup Sends : LoadStep(i)

UnderWay(e) == stage[e] \notin {"idle", "over"}

\* Something is in flight that this step is not the end of.
Disturbs ==
    \/ \E e \in Sends : interval[e] # None \/ (UnderWay(e) /\ stage'[e] = stage[e])
    \/ \E i \in Slots \cup Sends : loads[i] # None

Observe ==
    /\ overlapped' = (overlapped \/ \E e, d \in Sends :
                        UnderWay(d) /\ stage[e] = "idle" /\ stage'[e] # "idle")
    /\ moved' = (moved \/ (activeChat' # activeChat /\ Disturbs))
    /\ UNCHANGED plan

Next == Step /\ Observe

Spec == Init /\ [][Next]_vars

\* Timers fire, and every call is answered or fails in the end.  Nothing is
\* assumed of the user.
Fairness ==
    /\ \A e \in Sends : WF_vars((SendStep(e) \/ TimerTick(e) \/ LoadStep(e)) /\ Observe)
    /\ \A i \in Slots : WF_vars(LoadStep(i) /\ Observe)

FairSpec == Spec /\ Fairness

-----------------------------------------------------------------------------
(* Properties. *)

Stages == {"idle", "creating", "created", "linking", "sent", "answered", "over"}
ChatOrNone == Chats \cup {None}
Turns == [send : Sends, words : Nat, live : BOOLEAN]

\* The variables stay in their types: a chat is a listed id or none, a call in
\* flight names its chat, an interval counts words.
TypeOK ==
    /\ shown \in Seq(Turns)
    /\ loadingHistory \in BOOLEAN /\ sending \in BOOLEAN /\ streaming \in BOOLEAN
    /\ interval \in [Sends -> Nat \cup {None}]
    /\ timerRef \in Sends \cup {None} /\ streamRef \in Sends \cup {None}
    /\ loads \in [Slots \cup Sends -> LoadCall \cup {None}]
    /\ stage \in [Sends -> Stages]
    /\ target \in [Sends -> ChatOrNone]
    /\ history \in [Chats -> Seq(Sends)]
    /\ chats \subseteq Chats /\ listLoading \in BOOLEAN
    /\ refreshes \in [Refreshes -> [reply : (SUBSET Chats) \cup {None}] \cup {None}]
    /\ deleting \subseteq Chats /\ renaming \subseteq Chats
    /\ rows \subseteq made /\ made \subseteq Chats
    /\ activeChat \in ChatOrNone
    /\ fresh \in BOOLEAN /\ skip \in BOOLEAN /\ hasText \in BOOLEAN
    /\ pending \subseteq Uploads /\ submitted \subseteq Sends
    /\ ingest \in [Uploads -> {"idle", "running", "over", "failed"}]
    /\ ingestChat \in [Uploads -> ChatOrNone]
    /\ waiting \in [Sends -> SUBSET Uploads] /\ linkedIds \in [Sends -> SUBSET Uploads]
    /\ links \subseteq Chats \X Uploads
    /\ plan \in Plans
    /\ overlapped \in BOOLEAN /\ moved \in BOOLEAN

\* A source added before there was a chat is staged until some chat has it,
\* whatever link calls fail, answers get lost and submits overlap meanwhile.
StagedNeverLost ==
    \A u \in Uploads :
        ingest[u] = "over" /\ ingestChat[u] = None =>
            u \in pending \/ \E c \in Chats : <<c, u>> \in links

\* Whenever the sidebar shows its list, the active chat is in it: reloads from
\* before a creation and failed ones take the page away from a chat, and never
\* leave it on one the user cannot see.
ActiveListed == ~listLoading /\ activeChat # None => activeChat \in chats

\* As long as no send begins while another is under way, an interval that runs
\* is the one the ref holds and has words left: its last word, Stop, New chat and
\* the next send all end it.  It may run on over the messages of another chat,
\* which loadHistory put in their place without stopping it.
OneInterval ==
    ~overlapped => /\ \A e \in Sends : interval[e] # None => timerRef = e /\ interval[e] < Words[e]
                   /\ streaming <=> timerRef # None

\* What use-messages.ts:200 says of the callback of the last word, "Finalize the
\* simulated stream and then sync with server": no interval is left running
\* once its last word was shown.
LastWordStops == \A e \in Sends : interval[e] # None => interval[e] < Words[e]

AtRest ==
    /\ \A e \in Sends : ~UnderWay(e) /\ interval[e] = None
    /\ \A i \in Slots \cup Sends : loads[i] = None

\* A conversation nothing disturbed comes to rest on what the server stored:
\* the whole turns of the active chat in their order.  The stream's own last
\* message is empty, and it is the reload after it that mends the display.
RestShowsHistory ==
    AtRest /\ ~overlapped /\ ~moved /\ plan.lost = {} /\ activeChat \in rows =>
        shown = Complete(history[activeChat])

Deleted(c) == c \in made \ rows

\* An undisturbed send to a chat that stays, whatever the length of its
\* answer, gives the input back in the end.
InputComesBack ==
    sending ~> \/ ~sending
               \/ moved \/ overlapped \/ plan.lost # {}
               \/ \E e \in Sends : Deleted(target[e])

\* Every animation ends.
StreamEnds == streaming ~> ~streaming

\* What use-messages.ts:232 says of isSending, "leave isSending to be cleared
\* when streaming completes or when the zero-word branch handles it": while it
\* is set there is a send, a stream or a final reload that will clear it.
SendingHasOwner ==
    sending => \E e \in Sends : \/ stage[e] \in {"sent", "answered"}
                                \/ interval[e] # None \/ loads[e] # None
=============================================================================
