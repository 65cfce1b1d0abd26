-------------------------------- MODULE Chat --------------------------------
(***************************************************************************)
(* Chats, their links to sources, and POST /messages/send with retrieval:  *)
(* send_message_with_rag and the ChatService calls it makes, each of which *)
(* commits on its own.  A message is stamped when it is inserted and seen  *)
(* by others once it is committed, two steps.  What ingestion does to the  *)
(* sources meanwhile is the abstract ChunkStore, which Ingestion is shown  *)
(* to implement.                                                           *)
(***************************************************************************)
EXTENDS Integers, Sequences, FiniteSets

CONSTANTS
    Chats,      \* chat session ids; a UUID is never used twice
    Requests,   \* every POST /messages/send that is ever made
    MaxTurns,   \* CHAT_HISTORY_MAX_TURNS
    Sources, Files, Versions,
    None

ASSUME ChatAssumption ==
    /\ MaxTurns \in Nat
    /\ None \notin Chats
    /\ None \notin Versions

VARIABLES
    chats,     \* chat_sessions, the rows that exist
    deleted,   \* chats that existed
    title,     \* chat_sessions.title: "none" is NULL or the default "New Chat"
    links,     \* chat_session_sources
    messages,  \* messages[c]: the rows inserted for c, in the order of created_at
    committed, \* the messages whose insert was committed; others see no other
    cites,     \* cites[r]: chat_message_sources of the reply to r
    ready,     \* sources whose status is ready
    held, gone,      \* ChunkStore: the version each source holds, deleted sources
    sessionMaker,    \* app.db.sessions.async_session_maker
    importedMaker,   \* the same name as chat_application imported it
    titleTasks,      \* requests whose background title task has not run
    pc,        \* the stage each request has reached
    chat,      \* the chat it writes to
    history,   \* the trimmed history it read; its order is that of messages
    isFirst,   \* whether that history was empty before trimming
    scope,     \* the ready sources it may retrieve from
    found      \* the versions of sources among the chunks it retrieved

store == <<held, gone>>
tables == <<chats, deleted, title, links, messages, committed, cites, ready>>
process == <<sessionMaker, importedMaker, titleTasks>>
memory == <<chat, history, isFirst, scope, found>>
vars == <<tables, store, process, pc, memory>>

Store == INSTANCE ChunkStore

\* Between an insert and its commit.
Writing == {"posting", "saving", "fallingBack", "replying"}
Stages == {"post", "save", "scope", "fallback", "retrieve", "generate", "reply", "cite", "title"}
              \cup Writing
Ended == {"done", "plain", "failed"}

Titles == {"none", "titled"}

Goto(r, stage) == pc' = [pc EXCEPT ![r] = stage]

Message(r, role) == [turn |-> r, role |-> role]

Init ==
    /\ chats = {} /\ deleted = {}
    /\ title = [c \in Chats |-> "none"]
    /\ links = {}
    /\ messages = [c \in Chats |-> <<>>] /\ committed = {}
    /\ cites = [r \in Requests |-> {}]
    /\ ready = {}
    /\ Store!Init
    /\ sessionMaker = None /\ importedMaker = None
    /\ titleTasks = {}
    /\ pc = [r \in Requests |-> "idle"]
    /\ chat = [r \in Requests |-> None]
    /\ history = [r \in Requests |-> {}]
    /\ isFirst = [r \in Requests |-> FALSE]
    /\ scope = [r \in Requests |-> {}]
    /\ found = [r \in Requests |-> {}]

-----------------------------------------------------------------------------
(* The process, the chats and the sources around the requests. *)

\* init_engine, at startup: it rebinds the name in app.db.sessions only.
Startup ==
    /\ sessionMaker = None
    /\ sessionMaker' = "maker"
    /\ UNCHANGED <<tables, store, importedMaker, titleTasks, pc, memory>>

\* create_chat_session, with a title (the client's or a generated one) or none.
CreateChat(c, t) ==
    /\ sessionMaker # None
    /\ c \notin chats \cup deleted
    /\ chats' = chats \cup {c}
    /\ title' = [title EXCEPT ![c] = t]
    /\ UNCHANGED <<deleted, links, messages, committed, cites, ready, store, process, pc, memory>>

\* PATCH /chats/{id}: update_chat_title.
RenameChat(c) ==
    /\ c \in chats
    /\ title' = [title EXCEPT ![c] = "titled"]
    /\ UNCHANGED <<chats, deleted, links, messages, committed, cites, ready, store, process, pc, memory>>

\* delete_chat_session: the messages, their sources and the links go with it.
\* The row of the chat is locked by the inserts that refer to it until they end.
DeleteChat(c) ==
    /\ c \in chats
    /\ \A r \in Requests : chat[r] = c => pc[r] \notin Writing
    /\ chats' = chats \ {c}
    /\ deleted' = deleted \cup {c}
    /\ title' = [title EXCEPT ![c] = "none"]
    /\ links' = {l \in links : l[1] # c}
    /\ messages' = [messages EXCEPT ![c] = <<>>]
    /\ committed' = {m \in committed : chat[m.turn] # c}
    /\ cites' = [r \in Requests |-> IF chat[r] = c THEN {} ELSE cites[r]]
    /\ UNCHANGED <<ready, store, process, pc, memory>>

\* link_source_to_chat; a link that exists is refused, or returned as it is.
Link(c, s) ==
    /\ c \in chats
    /\ s \notin gone
    /\ links' = links \cup {<<c, s>>}
    /\ UNCHANGED <<chats, deleted, title, messages, committed, cites, ready, store, process, pc, memory>>

\* Ingestion writes a status.
StatusChanges(s) ==
    /\ s \notin gone
    /\ ready' = IF s \in ready THEN ready \ {s} ELSE ready \cup {s}
    /\ UNCHANGED <<chats, deleted, title, links, messages, committed, cites, store, process, pc, memory>>

\* Variant: no foreign key ties a link to its source.
StoreChangesOnly ==
    /\ Store!Next
    /\ ready' = ready \ gone'
    /\ UNCHANGED <<chats, deleted, title, links, messages, committed, cites, process, pc, memory>>

\* Ingestion writes chunks, or sources go with their account, and their links
\* with them.
StoreChanges ==
    /\ Store!Next
    /\ ready' = ready \ gone'
    /\ links' = {l \in links : l[2] \notin gone'}
    /\ UNCHANGED <<chats, deleted, title, messages, committed, cites, process, pc, memory>>

-----------------------------------------------------------------------------
(* One request, stage by stage. *)

\* What a SELECT of the messages of a chat returns.
Visible(c) == {i \in DOMAIN messages[c] : messages[c][i] \in committed}

\* Variant: the cap is taken for a number of messages.
TrimmedToMessages(places) == {i \in places : Cardinality({j \in places : i < j}) < MaxTurns}

\* The newest 2 * MaxTurns of them.
Trimmed(places) == {i \in places : Cardinality({j \in places : i < j}) < 2 * MaxTurns}

\* The route finds the chat; get_chat_history runs before anything is saved.
ReadHistory(r, c) ==
    /\ pc[r] = "idle"
    /\ c \in chats
    /\ chat' = [chat EXCEPT ![r] = c]
    /\ history' = [history EXCEPT ![r] = {messages[c][i] : i \in Trimmed(Visible(c))}]
    /\ isFirst' = [isFirst EXCEPT ![r] = Visible(c) = {}]
    /\ Goto(r, "save")
    /\ UNCHANGED <<tables, store, process, scope, found>>

\* use_rag = false: the route finds the chat, and only the question is saved.
SendPlain(r, c) ==
    /\ pc[r] = "idle"
    /\ c \in chats
    /\ chat' = [chat EXCEPT ![r] = c]
    /\ Goto(r, "post")
    /\ UNCHANGED <<tables, store, process, history, isFirst, scope, found>>

\* Variant: no foreign key ties a message to its chat.
InsertOrphans(r, role, written) ==
    /\ messages' = [messages EXCEPT ![chat[r]] = Append(@, Message(r, role))]
    /\ Goto(r, written)
    /\ UNCHANGED <<chats, deleted, title, links, committed, cites, ready, store, process, memory>>

\* The flush stamps the row and inserts it; a chat that is gone raises.
InsertMessage(r, role, written) ==
    /\ IF chat[r] \in chats
       THEN messages' = [messages EXCEPT ![chat[r]] = Append(@, Message(r, role))] /\ Goto(r, written)
       ELSE UNCHANGED messages /\ Goto(r, "failed")
    /\ UNCHANGED <<chats, deleted, title, links, committed, cites, ready, store, process, memory>>

CommitMessage(r, role, next) ==
    /\ committed' = committed \cup {Message(r, role)}
    /\ Goto(r, next)
    /\ UNCHANGED <<chats, deleted, title, links, messages, cites, ready, store, process, memory>>

\* add_message_to_chat, for either role; other requests run between the two.
AddMessage(r, role, start, written, next) ==
    \/ pc[r] = start /\ InsertMessage(r, role, written)
    \/ pc[r] = written /\ CommitMessage(r, role, next)

Post(r) == AddMessage(r, "user", "post", "posting", "plain")

\* Variant: the history is read again once the user message is saved.
SaveUserThenRead(r) ==
    \/ pc[r] = "save" /\ InsertMessage(r, "user", "saving")
    \/ /\ pc[r] = "saving"
       /\ committed' = committed \cup {Message(r, "user")}
       /\ history' = [history EXCEPT ![r] =
              {messages[chat[r]][i] : i \in Trimmed({j \in DOMAIN messages[chat[r]] :
                                          messages[chat[r]][j] \in committed'})}]
       /\ Goto(r, "scope")
       /\ UNCHANGED <<chats, deleted, title, links, messages, cites, ready, store, process,
                      chat, isFirst, scope, found>>

SaveUser(r) == AddMessage(r, "user", "save", "saving", "scope")

\* Variant: every ready source is in scope, linked or not.
ReadySourcesOfAll(c) == ready

\* list_ready_source_ids_for_chat.
ReadySources(c) == {s \in ready : <<c, s>> \in links}

Scope(r) ==
    /\ pc[r] = "scope"
    /\ scope' = [scope EXCEPT ![r] = ReadySources(chat[r])]
    /\ Goto(r, IF scope'[r] = {} THEN "fallback" ELSE "retrieve")
    /\ UNCHANGED <<tables, store, process, chat, history, isFirst, found>>

\* No ready source is linked: a fixed reply without sources.
Fallback(r) == AddMessage(r, "assistant", "fallback", "fallingBack", "title")

\* The query is embedded, then one SELECT returns the nearest chunks in scope:
\* some, if there is any.
Retrieve(r) ==
    LET hits == {[source |-> s, version |-> held[s]] : s \in {t \in scope[r] : held[t] # None}}
    IN  /\ pc[r] = "retrieve"
        /\ \E best \in SUBSET hits :
              /\ best = {} => hits = {}
              /\ found' = [found EXCEPT ![r] = best]
              /\ Goto(r, IF best = {} THEN "reply" ELSE "generate")
        /\ UNCHANGED <<tables, store, process, chat, history, isFirst, scope>>

\* The language model answers from the chunks and the history.
Generate(r) ==
    /\ pc[r] = "generate"
    /\ Goto(r, "reply")
    /\ UNCHANGED <<tables, store, process, memory>>

\* add_assistant_message_with_sources commits the message ...
Reply(r) == AddMessage(r, "assistant", "reply", "replying", "cite")

\* ... and then its sources, which the foreign key ties to the message.
Cite(r) ==
    /\ pc[r] = "cite"
    /\ \/ /\ chat[r] \in chats
          /\ cites' = [cites EXCEPT ![r] = found[r]]
          /\ Goto(r, "title")
       \/ /\ chat[r] \notin chats
          /\ UNCHANGED cites
          /\ Goto(r, IF found[r] = {} THEN "title" ELSE "failed")
    /\ UNCHANGED <<chats, deleted, title, links, messages, committed, ready, store, process, memory>>

\* The first turn of an untitled chat schedules a title; the chat is read again.
ScheduleTitle(r) ==
    /\ pc[r] = "title"
    /\ Goto(r, IF isFirst[r] /\ chat[r] \notin chats THEN "failed" ELSE "done")
    /\ titleTasks' = titleTasks \cup
          {q \in {r} : isFirst[r] /\ chat[r] \in chats /\ title[chat[r]] = "none"}
    /\ UNCHANGED <<tables, store, sessionMaker, importedMaker, memory>>

\* _background_generate_title: nothing happens without a session maker.
BackgroundTitle(r) ==
    /\ r \in titleTasks
    /\ titleTasks' = titleTasks \ {r}
    /\ title' = IF importedMaker # None /\ chat[r] \in chats
                THEN [title EXCEPT ![chat[r]] = "titled"] ELSE title
    /\ UNCHANGED <<chats, deleted, links, messages, committed, cites, ready, store,
                   sessionMaker, importedMaker, pc, memory>>

\* Any stage may raise (the database, the embedding service, the language model,
\* a message that was deleted before it is read back) or die with the server.
\* An insert that was not committed is rolled back: nobody sees it, ever.
Fail(r) ==
    /\ pc[r] \in Stages
    /\ Goto(r, "failed")
    /\ UNCHANGED <<tables, store, process, memory>>

-----------------------------------------------------------------------------

RequestStep(r) ==
    \/ Post(r) \/ SaveUser(r) \/ Scope(r) \/ Fallback(r) \/ Retrieve(r) \/ Generate(r)
    \/ Reply(r) \/ Cite(r) \/ ScheduleTitle(r) \/ Fail(r)

Next ==
    \/ Startup \/ StoreChanges
    \/ \E c \in Chats : RenameChat(c) \/ DeleteChat(c)
    \/ \E c \in Chats, t \in Titles : CreateChat(c, t)
    \/ \E c \in Chats, s \in Sources : Link(c, s)
    \/ \E s \in Sources : StatusChanges(s)
    \/ \E r \in Requests, c \in Chats : ReadHistory(r, c) \/ SendPlain(r, c)
    \/ \E r \in Requests : RequestStep(r) \/ BackgroundTitle(r)

Spec == Init /\ [][Next]_vars

\* Background tasks are scheduled on the event loop, which runs them.
FairSpec == Spec /\ \A r \in Requests : WF_vars(BackgroundTitle(r)) /\ WF_vars(RequestStep(r))

-----------------------------------------------------------------------------
(* Properties. *)

Messages == [turn : Requests, role : {"user", "assistant"}]

\* Every variable has its type; a request past its first read names its chat.
TypeOK ==
    /\ chats \subseteq Chats /\ deleted \subseteq Chats /\ chats \cap deleted = {}
    /\ title \in [Chats -> Titles]
    /\ links \subseteq chats \X (Sources \ gone)
    /\ messages \in [Chats -> Seq(Messages)] /\ committed \subseteq Messages
    /\ cites \in [Requests -> SUBSET [source : Sources, version : Versions]]
    /\ ready \subseteq Sources \ gone
    /\ held \in [Sources -> Versions \cup {None}]
    /\ gone \subseteq Sources
    /\ titleTasks \subseteq Requests
    /\ pc \in [Requests -> Stages \cup Ended \cup {"idle"}]
    /\ chat \in [Requests -> Chats \cup {None}]
    /\ \A r \in Requests : pc[r] # "idle" => chat[r] \in chats \cup deleted
    /\ history \in [Requests -> SUBSET Messages]
    /\ isFirst \in [Requests -> BOOLEAN]
    /\ scope \in [Requests -> SUBSET Sources]
    /\ found \in [Requests -> SUBSET [source : Sources, version : Versions]]

At(c, r, role) == {i \in Visible(c) : messages[c][i] = Message(r, role)}

\* The history the client reloads is the conversation it was shown: a request
\* answered with a reply left one user message, one later reply, and with the
\* reply the sources it was answered from.  Of a chat that was deleted, while
\* the model answered or at any other stage, nothing is left.
ReloadMatchesResponse ==
    \A r \in Requests :
        /\ pc[r] = "done" /\ chat[r] \in chats =>
              /\ \E i \in DOMAIN messages[chat[r]], j \in DOMAIN messages[chat[r]] :
                    /\ i < j
                    /\ At(chat[r], r, "user") = {i}
                    /\ At(chat[r], r, "assistant") = {j}
              /\ cites[r] = found[r]
        /\ chat[r] \in deleted =>
              messages[chat[r]] = <<>> /\ cites[r] = {} /\ \A m \in committed : m.turn # r

\* Message m is in the prompt of r, or the window left it out: whatever is in
\* the prompt was stamped after it.
InPromptOrOlder(r, m) ==
    \/ m \in history[r]
    \/ \A i, k \in DOMAIN messages[chat[r]] :
          messages[chat[r]][i] = m /\ messages[chat[r]][k] \in history[r] => i < k

\* The model is prompted with what was said before, however many other requests
\* write to the same chat: with messages that were committed and stamped before
\* the question and are not the question, and with no answer but after its own
\* question, unless that one is older than the whole window.
PromptIsThePast ==
    \A r \in Requests :
        pc[r] \in Stages /\ chat[r] \in chats =>
            /\ \A m \in history[r] :
                  \E i \in Visible(chat[r]) :
                      /\ messages[chat[r]][i] = m
                      /\ \A j \in DOMAIN messages[chat[r]] :
                            messages[chat[r]][j].turn = r => i < j
            /\ \A q \in Requests :
                  Message(q, "assistant") \in history[r] => InPromptOrOlder(r, Message(q, "user"))

\* A turn that was answered before the next question is asked is in its prompt,
\* question and answer, unless MaxTurns turns' worth of newer messages is.
AnsweredInPrompt ==
    [][\A r, q \in Requests :
          pc[r] = "idle" /\ pc'[r] = "save" /\ pc[q] = "done" /\ chat'[r] = chat[q] =>
              \A m \in {Message(q, "user"), Message(q, "assistant")} :
                  \/ m \in history'[r]
                  \/ \E i \in DOMAIN messages[chat[q]] :
                        /\ messages[chat[q]][i] = m
                        /\ Cardinality({j \in Visible(chat[q]) : i < j}) >= 2 * MaxTurns]_vars

\* A chat answers only from its own sources: what a reply cites is linked to the
\* chat, or was until the source was deleted.
CitedWereLinked ==
    \A r \in Requests, cite \in [source : Sources, version : Versions] :
        cite \in cites[r] => <<chat[r], cite.source>> \in links \/ cite.source \in gone

\* Chunks of a deleted source are never retrieved: a request whose retrieval
\* follows the deletion finds none of them, although the source was in scope.
NeverFromGone ==
    [][\A r \in Requests : \A f \in found'[r] \ found[r] : f.source \notin gone]_vars

\* A title task that was scheduled gives the chat a title, unless it is deleted.
TitleArrives ==
    \A r \in Requests, c \in Chats :
        (r \in titleTasks /\ chat[r] = c) ~> (title[c] # "none" \/ c \in deleted)

=============================================================================
