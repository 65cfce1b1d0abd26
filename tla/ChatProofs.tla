----------------------------- MODULE ChatProofs -----------------------------
(***************************************************************************)
(* Proofs about Chat for any sets of chats, requests, sources and versions *)
(* and any length of the history.                                          *)
(***************************************************************************)
EXTENDS Chat, SequenceTheorems, FiniteSetTheorems, TLAPS

-----------------------------------------------------------------------------
(* Types. *)

\* A step of the store keeps the types of its variables, and what is deleted
\* stays deleted.
LEMMA StoreStep ==
    ASSUME held \in [Sources -> Versions \cup {None}], gone \subseteq Sources, Store!Next
    PROVE  /\ held' \in [Sources -> Versions \cup {None}]
           /\ gone' \subseteq Sources
           /\ gone \subseteq gone'
<1>1. ASSUME NEW s \in Sources, NEW v \in Versions, Store!Fill(s, v)
      PROVE  held' \in [Sources -> Versions \cup {None}] /\ gone' = gone
  BY <1>1 DEF Store!Fill
<1>2. ASSUME NEW s \in Sources, Store!Clear(s)
      PROVE  held' \in [Sources -> Versions \cup {None}] /\ gone' = gone
  BY <1>2 DEF Store!Clear
<1>3. ASSUME NEW lost \in SUBSET Sources, Store!Drop(lost)
      PROVE  /\ held' \in [Sources -> Versions \cup {None}]
             /\ gone' \subseteq Sources /\ gone \subseteq gone'
  BY <1>3 DEF Store!Drop
<1>4. QED
  BY <1>1, <1>2, <1>3 DEF Store!Next
\* A row inserted at the end of a chat leaves every other place as it was.
LEMMA Appended ==
    ASSUME messages \in [Chats -> Seq(Messages)], NEW c \in Chats, NEW m \in Messages,
           messages' = [messages EXCEPT ![c] = Append(@, m)]
    PROVE  /\ messages' \in [Chats -> Seq(Messages)]
           /\ \A d \in Chats \ {c} : messages'[d] = messages[d]
           /\ \E n \in Nat :
                 /\ DOMAIN messages[c] = 1 .. n /\ DOMAIN messages'[c] = 1 .. (n + 1)
                 /\ \A i \in 1 .. n : messages'[c][i] = messages[c][i]
                 /\ messages'[c][n + 1] = m
<1> DEFINE seq == messages[c]
           n == Len(seq)
<1>1. seq \in Seq(Messages) /\ messages'[c] = Append(seq, m)
  OBVIOUS
<1>2. /\ Append(seq, m) \in Seq(Messages) /\ Len(Append(seq, m)) = n + 1
      /\ \A i \in 1 .. n : Append(seq, m)[i] = seq[i]
      /\ Append(seq, m)[n + 1] = m
  BY <1>1, AppendProperties
<1>3. n \in Nat /\ DOMAIN seq = 1 .. n /\ DOMAIN Append(seq, m) = 1 .. (n + 1)
  BY <1>1, <1>2
<1>4. QED
  BY <1>1, <1>2, <1>3

\* A message of either role, inserted or committed or refused, keeps every type.
LEMMA AddMessageType ==
    ASSUME TypeOK, NEW r \in Requests, NEW role \in {"user", "assistant"},
           NEW start \in Stages, NEW written \in Stages, NEW next \in Stages \cup Ended,
           AddMessage(r, role, start, written, next)
    PROVE  TypeOK'
<1> USE DEF TypeOK, Goto, Stages, Writing, Ended, store, process, memory
<1>1. Message(r, role) \in Messages /\ pc[r] # "idle"
  BY DEF Message, Messages, AddMessage
<1>2. CASE InsertMessage(r, role, written) /\ chat[r] \in chats
  <2>1. messages' \in [Chats -> Seq(Messages)]
    BY <1>1, <1>2, Appended DEF InsertMessage
  <2>2. QED
    BY <1>1, <1>2, <2>1 DEF InsertMessage
<1>3. CASE InsertMessage(r, role, written) /\ chat[r] \notin chats
  BY <1>1, <1>3 DEF InsertMessage
<1>4. CASE CommitMessage(r, role, next)
  BY <1>1, <1>4 DEF CommitMessage
<1>5. QED
  BY <1>2, <1>3, <1>4 DEF AddMessage

\* The type invariant is inductive: links never outlive their chat or source,
\* and a request never writes to a chat that did not exist.
THEOREM ChatTypeCorrect == Spec => []TypeOK
<1>1. Init => TypeOK
  BY DEF Init, TypeOK, Store!Init, Stages, Ended, Titles
<1>2. TypeOK /\ [Next]_vars => TypeOK'
  <2> SUFFICES ASSUME TypeOK, [Next]_vars PROVE TypeOK'
    OBVIOUS
  <2>9. ASSUME NEW r \in Requests, Post(r) \/ SaveUser(r) \/ Fallback(r) \/ Reply(r) PROVE TypeOK'
    BY <2>9, AddMessageType DEF Post, SaveUser, Fallback, Reply, Stages, Writing, Ended
  <2> USE DEF TypeOK, tables, store, process, memory, Stages, Writing, Ended, Titles, Goto
  <2>1. CASE Startup
    BY <2>1 DEF Startup
  <2>2. CASE StoreChanges
    BY <2>2, StoreStep DEF StoreChanges
  <2>3. ASSUME NEW c \in Chats, RenameChat(c) PROVE TypeOK'
    BY <2>3 DEF RenameChat
  <2>4. ASSUME NEW c \in Chats, DeleteChat(c) PROVE TypeOK'
    BY <2>4 DEF DeleteChat
  <2>5. ASSUME NEW c \in Chats, NEW t \in Titles, CreateChat(c, t) PROVE TypeOK'
    BY <2>5 DEF CreateChat
  <2>6. ASSUME NEW c \in Chats, NEW s \in Sources, Link(c, s) PROVE TypeOK'
    BY <2>6 DEF Link
  <2>7. ASSUME NEW s \in Sources, StatusChanges(s) PROVE TypeOK'
    BY <2>7 DEF StatusChanges
  <2>8. ASSUME NEW r \in Requests, NEW c \in Chats, ReadHistory(r, c) PROVE TypeOK'
    <3>1. {messages[c][i] : i \in Trimmed(Visible(c))} \subseteq Messages
      BY DEF Trimmed, Visible
    <3>2. QED
      BY <2>8, <3>1 DEF ReadHistory
  <2>10. ASSUME NEW r \in Requests, NEW c \in Chats, SendPlain(r, c) PROVE TypeOK'
    BY <2>10 DEF SendPlain
  <2>11. ASSUME NEW r \in Requests, Scope(r) PROVE TypeOK'
    BY <2>11 DEF Scope, ReadySources
  <2>12. ASSUME NEW r \in Requests, Retrieve(r) PROVE TypeOK'
    BY <2>12 DEF Retrieve
  <2>13. ASSUME NEW r \in Requests, Generate(r) PROVE TypeOK'
    BY <2>13 DEF Generate
  <2>14. ASSUME NEW r \in Requests, Cite(r) PROVE TypeOK'
    BY <2>14 DEF Cite
  <2>15. ASSUME NEW r \in Requests, ScheduleTitle(r) PROVE TypeOK'
    BY <2>15 DEF ScheduleTitle
  <2>16. ASSUME NEW r \in Requests, Fail(r) PROVE TypeOK'
    BY <2>16 DEF Fail
  <2>17. ASSUME NEW r \in Requests, BackgroundTitle(r) PROVE TypeOK'
    BY <2>17 DEF BackgroundTitle
  <2>18. CASE UNCHANGED vars
    BY <2>18 DEF vars
  <2>19. QED
    BY <2>1, <2>2, <2>3, <2>4, <2>5, <2>6, <2>7, <2>8, <2>9, <2>10, <2>11, <2>12, <2>13,
       <2>14, <2>15, <2>16, <2>17, <2>18 DEF Next, RequestStep
<1>3. QED
  BY <1>1, <1>2, PTL DEF Spec

-----------------------------------------------------------------------------
(* What a step may do to the messages. *)

\* Where the four calls of add_message_to_chat stand in a send.
Writes ==
    {[role |-> "user", start |-> "post", written |-> "posting", next |-> "plain"],
     [role |-> "user", start |-> "save", written |-> "saving", next |-> "scope"],
     [role |-> "assistant", start |-> "fallback", written |-> "fallingBack", next |-> "title"],
     [role |-> "assistant", start |-> "reply", written |-> "replying", next |-> "cite"]}

Inserts(r, w) ==
    /\ pc[r] = w.start /\ chat[r] \in chats
    /\ messages' = [messages EXCEPT ![chat[r]] = Append(@, Message(r, w.role))]
    /\ pc' = [pc EXCEPT ![r] = w.written]
    /\ UNCHANGED <<chats, deleted, committed, chat, history>>

Commits(r, w) ==
    /\ pc[r] = w.written
    /\ committed' = committed \cup {Message(r, w.role)}
    /\ pc' = [pc EXCEPT ![r] = w.next]
    /\ UNCHANGED <<chats, deleted, messages, chat, history>>

Begins(r, c) ==
    /\ pc[r] = "idle" /\ c \in chats
    /\ chat' = [chat EXCEPT ![r] = c]
    /\ \/ /\ pc' = [pc EXCEPT ![r] = "save"]
          /\ history' = [history EXCEPT ![r] = {messages[c][i] : i \in Trimmed(Visible(c))}]
       \/ pc' = [pc EXCEPT ![r] = "post"] /\ UNCHANGED history
    /\ UNCHANGED <<chats, deleted, messages, committed>>

\* The stages that write nothing.
Advances ==
    {<<"scope", "fallback">>, <<"scope", "retrieve">>, <<"retrieve", "reply">>,
     <<"retrieve", "generate">>, <<"generate", "reply">>, <<"cite", "title">>, <<"title", "done">>}

Silent ==
    /\ UNCHANGED <<deleted, messages, committed, chat, history>>
    /\ chats' = chats \/ \E c \in Chats \ (chats \cup deleted) : chats' = chats \cup {c}
    /\ \A r \in Requests : \/ pc'[r] = pc[r]
                           \/ pc[r] \in Stages /\ pc'[r] = "failed"
                           \/ <<pc[r], pc'[r]>> \in Advances

\* Every step is one of these.
LEMMA StepKinds ==
    ASSUME TypeOK, [Next]_vars
    PROVE  \/ \E r \in Requests, w \in Writes : Inserts(r, w) \/ Commits(r, w)
           \/ \E c \in Chats : DeleteChat(c)
           \/ \E r \in Requests, c \in Chats : Begins(r, c)
           \/ Silent
<1> DEFINE Known == \/ \E r \in Requests, w \in Writes : Inserts(r, w) \/ Commits(r, w)
                    \/ \E c \in Chats : DeleteChat(c)
                    \/ \E r \in Requests, c \in Chats : Begins(r, c)
                    \/ Silent
<1> SUFFICES Known
  OBVIOUS
<1>1. ASSUME NEW r \in Requests, NEW w \in Writes,
             AddMessage(r, w.role, w.start, w.written, w.next)
      PROVE  Known
  <2> USE DEF AddMessage, Goto, memory
  <2>1. CASE pc[r] = w.written /\ CommitMessage(r, w.role, w.next)
    BY <2>1 DEF CommitMessage, Commits
  <2>2. CASE pc[r] = w.start /\ InsertMessage(r, w.role, w.written) /\ chat[r] \in chats
    BY <2>2 DEF InsertMessage, Inserts
  <2>3. CASE pc[r] = w.start /\ InsertMessage(r, w.role, w.written) /\ chat[r] \notin chats
    <3>1. w.start \in Stages
      BY DEF Writes, Stages
    <3>2. Silent
      BY <2>3, <3>1 DEF InsertMessage, Silent, TypeOK
    <3>3. QED
      BY <3>2
  <2>4. QED
    BY <1>1, <2>1, <2>2, <2>3
<1>2. ASSUME NEW r \in Requests, Post(r) \/ SaveUser(r) \/ Fallback(r) \/ Reply(r) PROVE Known
  <2>1. \E w \in Writes : AddMessage(r, w.role, w.start, w.written, w.next)
    BY <1>2 DEF Post, SaveUser, Fallback, Reply, Writes
  <2>2. QED
    BY <1>1, <2>1
<1> USE DEF tables, process, memory, Goto
<1>3. CASE Startup \/ StoreChanges \/ UNCHANGED vars
  BY <1>3 DEF Startup, StoreChanges, vars, Silent
<1>4. ASSUME NEW c \in Chats, RenameChat(c) \/ \E t \in Titles : CreateChat(c, t) PROVE Known
  BY <1>4 DEF RenameChat, CreateChat, Silent
<1>5. ASSUME NEW s \in Sources, StatusChanges(s) \/ \E c \in Chats : Link(c, s) PROVE Known
  BY <1>5 DEF StatusChanges, Link, Silent
<1>6. ASSUME NEW r \in Requests, NEW c \in Chats, ReadHistory(r, c) \/ SendPlain(r, c) PROVE Known
  <2>1. Begins(r, c)
    BY <1>6 DEF ReadHistory, SendPlain, Begins
  <2>2. QED
    BY <2>1
<1>7. ASSUME NEW r \in Requests,
             Scope(r) \/ Retrieve(r) \/ Generate(r) \/ Cite(r) \/ ScheduleTitle(r) \/ Fail(r)
      PROVE  Known
  <2>1. UNCHANGED <<chats, deleted, messages, committed, chat, history>>
    BY <1>7 DEF Scope, Retrieve, Generate, Cite, ScheduleTitle, Fail
  <2>2. pc' = [pc EXCEPT ![r] = pc'[r]]
    BY <1>7 DEF Scope, Retrieve, Generate, Cite, ScheduleTitle, Fail, TypeOK
  <2>3. \/ pc[r] \in Stages /\ pc'[r] = "failed"
        \/ <<pc[r], pc'[r]>> \in Advances
    BY <1>7 DEF Scope, Retrieve, Generate, Cite, ScheduleTitle, Fail, TypeOK, Stages, Advances
  <2>4. Silent
    BY <2>1, <2>2, <2>3 DEF Silent, TypeOK
  <2>5. QED
    BY <2>4
<1>8. ASSUME NEW r \in Requests, BackgroundTitle(r) PROVE Known
  BY <1>8 DEF BackgroundTitle, Silent
<1>9. QED
  BY <1>2, <1>3, <1>4, <1>5, <1>6, <1>7, <1>8 DEF Next, RequestStep

-----------------------------------------------------------------------------
(* Conversations: what the sends leave among the messages of a chat. *)

Unsaid == {"idle", "post", "save"}
Unreplied == {"posting", "plain", "saving", "scope", "fallback", "retrieve", "generate", "reply"}
Replying == {"fallingBack", "replying"}
Replied == {"cite", "title", "done"}

\* Every message of a chat belongs to a request that writes to this chat and has
\* inserted its question.
OwnMessages ==
    \A c \in Chats : \A i \in DOMAIN messages[c] :
        LET q == messages[c][i].turn
        IN  chat[q] = c /\ pc[q] \notin Unsaid

\* No message is there twice.
SaidOnce ==
    \A c \in Chats : \A i, j \in DOMAIN messages[c] : messages[c][i] = messages[c][j] => i = j

\* A reply comes after its question, which was committed.
QuestionFirst ==
    \A c \in Chats : \A j \in DOMAIN messages[c] :
        LET question == Message(messages[c][j].turn, "user")
        IN  messages[c][j].role = "assistant" =>
                question \in committed /\ \E i \in DOMAIN messages[c] : i < j /\ messages[c][i] = question

Said(r, role) == \E i \in DOMAIN messages[chat[r]] : messages[chat[r]][i] = Message(r, role)

\* What a request has left of its two messages at each stage.
SaidBy(r) ==
    /\ pc[r] \in Unreplied \cup Replying \cup Replied => Said(r, "user")
    /\ pc[r] \in (Unreplied \ {"posting", "saving"}) \cup Replying \cup Replied =>
           Message(r, "user") \in committed
    /\ pc[r] \in Unreplied => ~Said(r, "assistant")
    /\ pc[r] \in Replying \cup Replied => Said(r, "assistant")
    /\ pc[r] \in Replied => Message(r, "assistant") \in committed

Conversation ==
    /\ OwnMessages /\ SaidOnce /\ QuestionFirst
    /\ \A r \in Requests : chat[r] \in chats => SaidBy(r)

\* Every message names the request it belongs to and its role.
LEMMA TurnIsRequest ==
    ASSUME TypeOK, NEW c \in Chats, NEW i \in DOMAIN messages[c]
    PROVE  /\ messages[c][i].turn \in Requests
           /\ messages[c][i].role \in {"user", "assistant"}
           /\ messages[c][i] = Message(messages[c][i].turn, messages[c][i].role)
<1>1. messages[c][i] \in Messages
  BY DEF TypeOK
<1>2. QED
  BY <1>1 DEF Messages, Message

\* The message a request is about to insert is not in its chat yet; a reply finds
\* its question there.
LEMMA NotSaidYet ==
    ASSUME TypeOK, Conversation, NEW r \in Requests, NEW w \in Writes, Inserts(r, w)
    PROVE  /\ \A i \in DOMAIN messages[chat[r]] : messages[chat[r]][i] # Message(r, w.role)
           /\ w.role = "assistant" => Said(r, "user") /\ Message(r, "user") \in committed
           /\ w.role = "user" => \A i \in DOMAIN messages[chat[r]] : messages[chat[r]][i].turn # r
<1>1. chat[r] \in chats /\ chat[r] \in Chats /\ pc[r] = w.start
  BY DEF Inserts, TypeOK
<1>2. CASE w.role = "user"
  <2>1. pc[r] \in Unsaid
    BY <1>1, <1>2 DEF Writes, Unsaid
  <2>2. \A i \in DOMAIN messages[chat[r]] : messages[chat[r]][i].turn # r
    BY <1>1, <2>1 DEF Conversation, OwnMessages
  <2>3. QED
    BY <1>2, <2>2 DEF Message
<1>3. CASE w.role = "assistant"
  <2>1. pc[r] \in Unreplied \ {"posting", "saving"}
    BY <1>1, <1>3 DEF Writes, Unreplied
  <2>2. SaidBy(r)
    BY <1>1 DEF Conversation
  <2>3. QED
    BY <1>3, <2>1, <2>2 DEF SaidBy, Said
<1>4. QED
  BY <1>2, <1>3 DEF Writes

\* An insert keeps the conversations.
LEMMA InsertKeepsConversation ==
    ASSUME TypeOK, Conversation, NEW r \in Requests, NEW w \in Writes, Inserts(r, w)
    PROVE  Conversation'
<1> DEFINE c == chat[r]
           m == Message(r, w.role)
<1>1. /\ c \in Chats /\ c \in chats /\ m \in Messages
      /\ messages \in [Chats -> Seq(Messages)]
      /\ messages' = [messages EXCEPT ![c] = Append(@, m)]
      /\ UNCHANGED <<chats, committed, chat>>
  BY DEF Inserts, TypeOK, Message, Messages, Writes
<1>2. \A d \in Chats \ {c} : messages'[d] = messages[d]
  BY <1>1, Appended
<1>3. PICK n \in Nat :
         /\ DOMAIN messages[c] = 1 .. n /\ DOMAIN messages'[c] = 1 .. (n + 1)
         /\ \A i \in 1 .. n : messages'[c][i] = messages[c][i]
         /\ messages'[c][n + 1] = m
  BY <1>1, Appended
<1>4. /\ 1 .. (n + 1) = 1 .. n \cup {n + 1} /\ n + 1 \notin 1 .. n
      /\ \A i \in 1 .. n : i < n + 1
  BY <1>3
<1>5. /\ \A i \in 1 .. n : messages[c][i] # m
      /\ w.role = "assistant" => Said(r, "user") /\ Message(r, "user") \in committed
  BY <1>3, NotSaidYet
<1>6. pc'[r] = w.written /\ \A q \in Requests \ {r} : pc'[q] = pc[q]
  BY DEF Inserts, TypeOK
<1>7. m.turn = r /\ m.role = w.role
  BY DEF Message
<1> HIDE DEF m
<1>8. OwnMessages'
  <2> SUFFICES ASSUME NEW d \in Chats, NEW i \in DOMAIN messages'[d]
               PROVE  LET q == messages'[d][i].turn
                      IN  chat[q] = d /\ pc'[q] \notin Unsaid
    BY <1>1 DEF OwnMessages
  <2>1. w.written \notin Unsaid
    BY DEF Writes, Unsaid
  <2>2. CASE d # c \/ i \in 1 .. n
    <3>1. i \in DOMAIN messages[d] /\ messages'[d][i] = messages[d][i]
      BY <1>2, <1>3, <2>2
    <3>2. messages[d][i].turn \in Requests
      BY <3>1, TurnIsRequest
    <3>3. QED
      BY <1>6, <2>1, <3>1, <3>2 DEF Conversation, OwnMessages
  <2>3. CASE d = c /\ i = n + 1
    BY <1>3, <1>6, <1>7, <2>1, <2>3
  <2>4. QED
    BY <1>3, <1>4, <2>2, <2>3
<1>9. SaidOnce'
  <2> SUFFICES ASSUME NEW d \in Chats, NEW i \in DOMAIN messages'[d], NEW j \in DOMAIN messages'[d],
                      messages'[d][i] = messages'[d][j]
               PROVE  i = j
    BY DEF SaidOnce
  <2>1. CASE d # c
    BY <1>2, <2>1 DEF Conversation, SaidOnce
  <2>2. CASE d = c /\ i \in 1 .. n /\ j \in 1 .. n
    BY <1>3, <2>2 DEF Conversation, SaidOnce
  <2>3. CASE d = c /\ (i = n + 1 \/ j = n + 1)
    BY <1>3, <1>4, <1>5, <2>3
  <2>4. QED
    BY <1>3, <1>4, <2>1, <2>2, <2>3
<1>10. QuestionFirst'
  <2> SUFFICES ASSUME NEW d \in Chats, NEW j \in DOMAIN messages'[d],
                      messages'[d][j].role = "assistant"
               PROVE  LET question == Message(messages'[d][j].turn, "user")
                      IN  /\ question \in committed
                          /\ \E i \in DOMAIN messages'[d] : i < j /\ messages'[d][i] = question
    BY <1>1 DEF QuestionFirst
  <2>1. CASE d # c
    BY <1>2, <2>1 DEF Conversation, QuestionFirst
  <2>2. CASE d = c /\ j \in 1 .. n
    <3>1. messages'[c][j] = messages[c][j]
      BY <1>3, <2>2
    <3>2. PICK i \in 1 .. n : i < j /\ messages[c][i] = Message(messages[c][j].turn, "user")
      BY <1>3, <2>2, <3>1 DEF Conversation, QuestionFirst
    <3>3. Message(messages[c][j].turn, "user") \in committed
      BY <1>3, <2>2, <3>1 DEF Conversation, QuestionFirst
    <3>4. QED
      BY <1>3, <1>4, <2>2, <3>1, <3>2, <3>3
  <2>3. CASE d = c /\ j = n + 1
    <3>1. w.role = "assistant" /\ messages'[d][j].turn = r
      BY <1>3, <1>7, <2>3
    <3>2. PICK i \in 1 .. n : messages[c][i] = Message(r, "user")
      BY <1>3, <1>5, <3>1 DEF Said
    <3>3. QED
      BY <1>3, <1>4, <1>5, <2>3, <3>1, <3>2
  <2>4. QED
    BY <1>3, <1>4, <2>1, <2>2, <2>3
<1>11. ASSUME NEW q \in Requests \ {r}, chat[q] \in chats PROVE SaidBy(q)'
  <2>1. chat[q] \in Chats /\ SaidBy(q)
    BY <1>11 DEF TypeOK, Conversation
  <2>2. \A role \in {"user", "assistant"} : Said(q, role)' <=> Said(q, role)
    <3>1. TAKE role \in {"user", "assistant"}
    <3>2. Message(q, role) # m
      BY <1>7 DEF Message
    <3>3. CASE chat[q] # c
      BY <1>1, <1>2, <2>1, <3>3 DEF Said
    <3>4. CASE chat[q] = c
      BY <1>1, <1>3, <1>4, <3>2, <3>4 DEF Said
    <3>5. QED
      BY <3>3, <3>4
  <2>3. QED
    BY <1>1, <1>6, <2>1, <2>2 DEF SaidBy
<1>12. SaidBy(r)'
  <2>1. \A i \in 1 .. n : messages'[c][i] = messages[c][i]
    BY <1>3
  <2>2. Said(r, w.role)'
    BY <1>1, <1>3, <1>4 DEF Said, m
  <2>3. CASE w.role = "user"
    <3>1. \A i \in 1 .. n : messages[c][i].turn # r
      BY <1>3, <2>3, NotSaidYet
    <3>2. ~Said(r, "assistant")'
      BY <1>1, <1>3, <1>4, <1>7, <2>3, <3>1 DEF Said, Message
    <3>3. w.written \in {"posting", "saving"}
      BY <2>3 DEF Writes
    <3>4. QED
      BY <1>6, <2>2, <2>3, <3>2, <3>3 DEF SaidBy, Unreplied, Replying, Replied
  <2>4. CASE w.role = "assistant"
    <3>1. Said(r, "user")'
      BY <1>1, <1>3, <1>4, <1>5, <2>4 DEF Said
    <3>2. w.written \in Replying
      BY <2>4 DEF Writes, Replying
    <3>3. QED
      BY <1>1, <1>5, <1>6, <2>2, <2>4, <3>1, <3>2 DEF SaidBy, Unreplied, Replying, Replied
  <2>5. QED
    BY <2>3, <2>4 DEF Writes
<1>13. QED
  BY <1>1, <1>8, <1>9, <1>10, <1>11, <1>12 DEF Conversation

\* The conversations hold at every stage of every send.
LEMMA ConversationHolds == Spec => []Conversation
<1>1. Init => Conversation
  BY DEF Init, Conversation, OwnMessages, SaidOnce, QuestionFirst
<1>2. TypeOK /\ Conversation /\ [Next]_vars => Conversation'
  <2> SUFFICES ASSUME TypeOK, Conversation, [Next]_vars PROVE Conversation'
    OBVIOUS
  <2>1. ASSUME NEW r \in Requests, NEW w \in Writes, Inserts(r, w) PROVE Conversation'
    BY <2>1, InsertKeepsConversation
  <2>2. ASSUME NEW r \in Requests, NEW w \in Writes, Commits(r, w) PROVE Conversation'
    <3>1. /\ pc[r] = w.written /\ pc'[r] = w.next /\ \A q \in Requests \ {r} : pc'[q] = pc[q]
          /\ committed' = committed \cup {Message(r, w.role)}
          /\ UNCHANGED <<chats, messages, chat>>
      BY <2>2 DEF Commits, TypeOK
    <3>2. w.written \notin Unsaid /\ w.next \notin Unsaid
      BY DEF Writes, Unsaid
    <3>3. OwnMessages'
      BY <3>1, <3>2, TurnIsRequest DEF Conversation, OwnMessages
    <3>4. SaidOnce' /\ QuestionFirst'
      BY <3>1 DEF Conversation, SaidOnce, QuestionFirst
    <3>5. \A q \in Requests \ {r} : chat[q] \in chats => SaidBy(q)'
      BY <3>1 DEF Conversation, SaidBy, Said
    <3>6. ASSUME chat[r] \in chats PROVE SaidBy(r)'
      <4>1. SaidBy(r) /\ (Said(r, "user")' <=> Said(r, "user"))
                      /\ (Said(r, "assistant")' <=> Said(r, "assistant"))
        BY <3>1, <3>6 DEF Conversation, Said
      <4>2. CASE w.role = "user"
        <5>1. w.written \in {"posting", "saving"} /\ w.next \in {"plain", "scope"}
          BY <4>2 DEF Writes
        <5>2. QED
          BY <3>1, <4>1, <4>2, <5>1 DEF SaidBy, Unreplied, Replying, Replied
      <4>3. CASE w.role = "assistant"
        <5>1. w.written \in Replying /\ w.next \in {"title", "cite"}
          BY <4>3 DEF Writes, Replying
        <5>2. QED
          BY <3>1, <4>1, <4>3, <5>1 DEF SaidBy, Unreplied, Replying, Replied
      <4>4. QED
        BY <4>2, <4>3 DEF Writes
    <3>7. QED
      BY <3>1, <3>3, <3>4, <3>5, <3>6 DEF Conversation
  <2>3. ASSUME NEW c \in Chats, DeleteChat(c) PROVE Conversation'
    <3>1. /\ chats' = chats \ {c} /\ UNCHANGED <<pc, chat>>
          /\ committed' = {m \in committed : chat[m.turn] # c}
          /\ messages'[c] = <<>> /\ \A d \in Chats \ {c} : messages'[d] = messages[d]
      BY <2>3 DEF DeleteChat, TypeOK, process, memory
    <3>2. OwnMessages' /\ SaidOnce'
      BY <3>1 DEF Conversation, OwnMessages, SaidOnce
    <3>3. QuestionFirst'
      <4> SUFFICES ASSUME NEW d \in Chats \ {c}, NEW j \in DOMAIN messages[d],
                          messages[d][j].role = "assistant"
                   PROVE  LET question == Message(messages[d][j].turn, "user")
                          IN  /\ question \in committed'
                              /\ \E i \in DOMAIN messages[d] : i < j /\ messages[d][i] = question
        BY <3>1 DEF QuestionFirst
      <4>1. chat[messages[d][j].turn] = d
        BY DEF Conversation, OwnMessages
      <4>2. QED
        BY <3>1, <4>1 DEF Conversation, QuestionFirst, Message
    <3>4. ASSUME NEW q \in Requests, chat[q] \in chats' PROVE SaidBy(q)'
      <4>1. chat[q] \in Chats \ {c} /\ SaidBy(q)
        BY <3>1, <3>4 DEF TypeOK, Conversation
      <4>2. \A role \in {"user", "assistant"} : /\ Said(q, role)' <=> Said(q, role)
                                                /\ Message(q, role) \in committed' <=>
                                                   Message(q, role) \in committed
        BY <3>1, <4>1 DEF Said, Message
      <4>3. QED
        BY <3>1, <4>1, <4>2 DEF SaidBy
    <3>5. QED
      BY <3>1, <3>2, <3>3, <3>4 DEF Conversation
  <2>4. ASSUME NEW r \in Requests, NEW c \in Chats, Begins(r, c) PROVE Conversation'
    <3>1. /\ pc[r] = "idle" /\ pc'[r] \in {"save", "post"}
          /\ \A q \in Requests \ {r} : pc'[q] = pc[q] /\ chat'[q] = chat[q]
          /\ UNCHANGED <<chats, messages, committed>>
      BY <2>4 DEF Begins, TypeOK
    <3>2. ASSUME NEW d \in Chats, NEW i \in DOMAIN messages[d]
          PROVE  messages[d][i].turn \in Requests \ {r}
      BY <3>1, TurnIsRequest DEF Conversation, OwnMessages, Unsaid
    <3>3. OwnMessages'
      BY <3>1, <3>2 DEF Conversation, OwnMessages
    <3>4. SaidOnce' /\ QuestionFirst'
      BY <3>1 DEF Conversation, SaidOnce, QuestionFirst
    <3>5. \A q \in Requests \ {r} : chat[q] \in chats => SaidBy(q)'
      BY <3>1 DEF Conversation, SaidBy, Said
    <3>6. SaidBy(r)'
      BY <3>1 DEF SaidBy, Unreplied, Replying, Replied
    <3>7. QED
      BY <3>1, <3>3, <3>4, <3>5, <3>6 DEF Conversation
  <2>5. CASE Silent
    <3>1. UNCHANGED <<messages, committed, chat>>
      BY <2>5 DEF Silent
    <3>2. \A q \in Requests : pc[q] \notin Unsaid => pc'[q] \notin Unsaid
      BY <2>5 DEF Silent, Advances, Unsaid
    <3>3. OwnMessages'
      BY <3>1, <3>2, TurnIsRequest DEF Conversation, OwnMessages
    <3>4. SaidOnce' /\ QuestionFirst'
      BY <3>1 DEF Conversation, SaidOnce, QuestionFirst
    <3>5. ASSUME NEW q \in Requests, chat[q] \in chats' PROVE SaidBy(q)'
      <4>1. CASE pc'[q] \in {"idle", "failed", "save", "post"}
        BY <4>1 DEF SaidBy, Unreplied, Replying, Replied
      <4>2. CASE pc'[q] \notin {"idle", "failed", "save", "post"}
        <5>1. pc[q] # "idle"
          BY <2>5, <4>2 DEF Silent, Advances
        <5>2. chat[q] \in chats
          BY <2>5, <3>5, <5>1 DEF Silent, TypeOK
        <5>3. SaidBy(q) /\ (pc'[q] = pc[q] \/ <<pc[q], pc'[q]>> \in Advances)
          BY <2>5, <4>2, <5>2 DEF Silent, Conversation
        <5>4. QED
          BY <3>1, <5>3 DEF SaidBy, Said, Advances, Unreplied, Replying, Replied
      <4>3. QED
        BY <4>1, <4>2
    <3>6. QED
      BY <3>1, <3>3, <3>4, <3>5 DEF Conversation
  <2>6. QED
    BY <2>1, <2>2, <2>3, <2>4, <2>5, StepKinds
<1>3. QED
  BY <1>1, <1>2, ChatTypeCorrect, PTL DEF Spec

-----------------------------------------------------------------------------
(* Prompts. *)

\* Trimming keeps the newest: what is newer than a place it keeps is kept, and
\* what it leaves out has 2 * MaxTurns places after it.
LEMMA TrimmedIsNewest ==
    ASSUME NEW places, IsFiniteSet(places), places \subseteq Int, NEW i \in places
    PROVE  /\ \A k \in Trimmed(places) : k < i => i \in Trimmed(places)
           /\ i \notin Trimmed(places) => Cardinality({j \in places : i < j}) >= 2 * MaxTurns
<1> DEFINE After(k) == {j \in places : k < j}
<1>1. \A k \in places : IsFiniteSet(After(k)) /\ Cardinality(After(k)) \in Nat
  BY FS_Subset, FS_CardinalityType
<1>2. ASSUME NEW k \in Trimmed(places), k < i PROVE i \in Trimmed(places)
  <2>1. k \in places /\ Cardinality(After(k)) < 2 * MaxTurns
    BY DEF Trimmed
  <2>2. After(i) \subseteq After(k)
    <3>1. i \in Int /\ k \in Int /\ k < i
      BY <1>2, <2>1
    <3>2. \A j \in places : i < j => k < j
      BY <3>1
    <3>3. QED
      BY <3>2
  <2>3. Cardinality(After(i)) <= Cardinality(After(k))
    BY <1>1, <2>1, <2>2, FS_Subset
  <2>4. Cardinality(After(i)) < 2 * MaxTurns
    BY <1>1, <2>1, <2>3, ChatAssumption
  <2>5. QED
    BY <2>4 DEF Trimmed
<1>3. i \notin Trimmed(places) => Cardinality(After(i)) >= 2 * MaxTurns
  BY <1>1, ChatAssumption DEF Trimmed
<1>4. QED
  BY <1>2, <1>3

\* The places a SELECT returns are finitely many numbers.
LEMMA VisiblePlaces ==
    ASSUME TypeOK, NEW c \in Chats
    PROVE  IsFiniteSet(Visible(c)) /\ Visible(c) \subseteq Int
<1>1. Len(messages[c]) \in Nat /\ DOMAIN messages[c] = 1 .. Len(messages[c])
  BY DEF TypeOK
<1>2. IsFiniteSet(1 .. Len(messages[c]))
  BY <1>1, FS_Interval
<1>3. QED
  BY <1>1, <1>2, FS_Subset DEF Visible

\* The two halves of PromptIsThePast for one request.
PastOnly(r) ==
    \A m \in history[r] :
        \E i \in Visible(chat[r]) :
            /\ messages[chat[r]][i] = m
            /\ \A j \in DOMAIN messages[chat[r]] : messages[chat[r]][j].turn = r => i < j

WholeTurns(r) ==
    \A q \in Requests :
        Message(q, "assistant") \in history[r] => InPromptOrOlder(r, Message(q, "user"))

\* With what it takes to be inductive: a request that has not begun has no prompt.
PromptKept ==
    \A r \in Requests :
        /\ pc[r] = "idle" => history[r] = {}
        /\ pc[r] \in Stages /\ chat[r] \in chats => PastOnly(r) /\ WholeTurns(r)

\* An insert puts nothing before, or into, what any request was prompted with.
LEMMA InsertKeepsPrompt ==
    ASSUME TypeOK, Conversation, PromptKept, NEW r \in Requests, NEW w \in Writes, Inserts(r, w),
           NEW p \in Requests, pc[p] \in Stages, chat[p] \in chats
    PROVE  PastOnly(p)' /\ WholeTurns(p)'
<1> DEFINE c == chat[r]
           m == Message(r, w.role)
<1>1. /\ c \in Chats /\ chat[p] \in Chats /\ m \in Messages
      /\ messages \in [Chats -> Seq(Messages)]
      /\ messages' = [messages EXCEPT ![c] = Append(@, m)]
      /\ UNCHANGED <<chats, committed, chat, history>>
  BY DEF Inserts, TypeOK, Message, Messages, Writes
<1>2. PastOnly(p) /\ WholeTurns(p)
  BY DEF PromptKept
<1>3. CASE chat[p] # c
  <2>1. messages'[chat[p]] = messages[chat[p]]
    BY <1>1, <1>3, Appended
  <2>2. PastOnly(p)'
    BY <1>1, <1>2, <2>1 DEF PastOnly, Visible
  <2>3. WholeTurns(p)'
    BY <1>1, <1>2, <2>1 DEF WholeTurns, InPromptOrOlder
  <2>4. QED
    BY <2>2, <2>3
<1>4. CASE chat[p] = c
  <2>1. PICK n \in Nat :
           /\ DOMAIN messages[c] = 1 .. n /\ DOMAIN messages'[c] = 1 .. (n + 1)
           /\ \A i \in 1 .. n : messages'[c][i] = messages[c][i]
           /\ messages'[c][n + 1] = m
    BY <1>1, Appended
  <2>2. /\ 1 .. (n + 1) = 1 .. n \cup {n + 1} /\ n + 1 \notin 1 .. n
        /\ \A i \in 1 .. n : i < n + 1
    BY <2>1
  <2>3. /\ \A i \in 1 .. n : messages[c][i] # m
        /\ w.role = "user" => \A i \in 1 .. n : messages[c][i].turn # r
    BY <2>1, NotSaidYet
  <2>4. m.turn = r /\ m.role = w.role /\ w.role \in {"user", "assistant"}
    BY DEF Message, Writes
  <2>5. \A x \in history[p] : \E i \in 1 .. n : messages[c][i] = x
    BY <1>2, <1>4, <2>1 DEF PastOnly, Visible
  <2> HIDE DEF m
  <2>6. PastOnly(p)'
    <3> SUFFICES ASSUME NEW x \in history[p]
                 PROVE  \E i \in Visible(c)' :
                           /\ messages'[c][i] = x
                           /\ \A j \in DOMAIN messages'[c] : messages'[c][j].turn = p => i < j
      BY <1>1, <1>4 DEF PastOnly
    <3>1. PICK i \in Visible(c) :
             /\ messages[c][i] = x
             /\ \A j \in DOMAIN messages[c] : messages[c][j].turn = p => i < j
      BY <1>2, <1>4 DEF PastOnly
    <3>2. i \in 1 .. n /\ messages[c][i] \in committed
      BY <2>1, <3>1 DEF Visible
    <3>3. i \in Visible(c)' /\ messages'[c][i] = x
      BY <1>1, <2>1, <2>2, <3>1, <3>2 DEF Visible
    <3>4. \A j \in 1 .. (n + 1) : messages'[c][j].turn = p => i < j
      BY <2>1, <2>2, <3>1, <3>2
    <3>5. QED
      BY <2>1, <3>3, <3>4
  <2>7. WholeTurns(p)'
    <3> SUFFICES ASSUME NEW q \in Requests, Message(q, "assistant") \in history[p],
                        Message(q, "user") \notin history[p],
                        NEW i \in 1 .. (n + 1), NEW k \in 1 .. (n + 1),
                        messages'[c][i] = Message(q, "user"), messages'[c][k] \in history[p]
                 PROVE  i < k
      BY <1>1, <1>4, <2>1 DEF WholeTurns, InPromptOrOlder
    <3>1. k \in 1 .. n /\ messages[c][k] \in history[p]
      BY <2>1, <2>2, <2>3, <2>5
    <3>2. CASE i \in 1 .. n
      <4>1. messages[c][i] = Message(q, "user")
        BY <2>1, <3>2
      <4>2. QED
        BY <1>2, <1>4, <2>1, <3>1, <3>2, <4>1 DEF WholeTurns, InPromptOrOlder
    <3>3. CASE i = n + 1
      <4>1. m = Message(q, "user")
        BY <2>1, <3>3
      <4>2. q = r /\ w.role = "user"
        BY <2>4, <4>1 DEF Message
      <4>3. PICK a \in 1 .. n : messages[c][a] = Message(q, "assistant")
        BY <2>5
      <4>4. messages[c][a].turn = r
        BY <4>2, <4>3 DEF Message
      <4>5. QED
        BY <2>3, <4>2, <4>4
    <3>4. QED
      BY <2>2, <3>2, <3>3
  <2>8. QED
    BY <2>6, <2>7
<1>5. QED
  BY <1>3, <1>4

\* What is read when a send begins is the past, and a window of it.
LEMMA ReadIsThePast ==
    ASSUME TypeOK, Conversation, NEW r \in Requests, NEW c \in Chats, pc[r] = "idle",
           chat'[r] = c, history'[r] = {messages[c][i] : i \in Trimmed(Visible(c))},
           UNCHANGED <<messages, committed>>
    PROVE  PastOnly(r)' /\ WholeTurns(r)'
<1>1. /\ Trimmed(Visible(c)) \subseteq Visible(c) /\ Visible(c) \subseteq DOMAIN messages[c]
      /\ Visible(c)' = Visible(c)
  BY DEF Trimmed, Visible
<1>2. \A i \in DOMAIN messages[c] : messages[c][i].turn # r
  BY DEF Conversation, OwnMessages, Unsaid
<1>3. PastOnly(r)'
  BY <1>1, <1>2 DEF PastOnly
<1>4. WholeTurns(r)'
  <2> SUFFICES ASSUME NEW q \in Requests, Message(q, "assistant") \in history'[r],
                      Message(q, "user") \notin history'[r],
                      NEW i \in DOMAIN messages[c], NEW k \in DOMAIN messages[c],
                      messages[c][i] = Message(q, "user"), messages[c][k] \in history'[r]
               PROVE  i < k
    BY DEF WholeTurns, InPromptOrOlder
  <2>1. PICK j \in Trimmed(Visible(c)) : messages[c][j] = Message(q, "assistant")
    OBVIOUS
  <2>2. messages[c][j].role = "assistant" /\ messages[c][j].turn = q
    BY <2>1 DEF Message
  <2>3. Message(q, "user") \in committed
    BY <1>1, <2>1, <2>2 DEF Conversation, QuestionFirst
  <2>4. i \in Visible(c)
    BY <2>3 DEF Visible
  <2>5. i \notin Trimmed(Visible(c))
    OBVIOUS
  <2>6. k \in Trimmed(Visible(c))
    BY <1>1 DEF Conversation, SaidOnce
  <2>7. i \in Int /\ k \in Int /\ i # k /\ ~(k < i)
    BY <1>1, <2>4, <2>5, <2>6, VisiblePlaces, TrimmedIsNewest
  <2>8. QED
    BY <2>7
<1>5. QED
  BY <1>3, <1>4

\* Every prompt is what was said before its own question, for any number of
\* overlapping sends, whatever the order in which their inserts are committed.
THEOREM PromptIsThePastHolds == Spec => []PromptIsThePast
<1>1. Init => PromptKept
  BY DEF Init, PromptKept, Stages, Writing
<1>2. TypeOK /\ Conversation /\ PromptKept /\ [Next]_vars => PromptKept'
  <2> SUFFICES ASSUME TypeOK, Conversation, PromptKept, [Next]_vars PROVE PromptKept'
    OBVIOUS
  <2>1. ASSUME NEW r \in Requests, NEW w \in Writes, Inserts(r, w) PROVE PromptKept'
    <3>1. w.start \in Stages /\ w.written # "idle" /\ w.start # "idle"
      BY DEF Writes, Stages
    <3>2. \A p \in Requests : /\ pc'[p] \in Stages => pc[p] \in Stages
                              /\ pc'[p] = "idle" => pc[p] = "idle"
      BY <2>1, <3>1 DEF Inserts, TypeOK
    <3>3. UNCHANGED <<chats, chat, history>>
      BY <2>1 DEF Inserts
    <3>4. \A p \in Requests : pc[p] \in Stages /\ chat[p] \in chats => PastOnly(p)' /\ WholeTurns(p)'
      BY <2>1, InsertKeepsPrompt
    <3>5. QED
      BY <3>2, <3>3, <3>4 DEF PromptKept
  <2>2. ASSUME NEW r \in Requests, NEW w \in Writes, Commits(r, w) PROVE PromptKept'
    <3>1. w.written \in Stages /\ w.next # "idle"
      BY DEF Writes, Stages, Writing
    <3>2. /\ UNCHANGED <<chats, messages, chat, history>> /\ committed \subseteq committed'
          /\ \A p \in Requests : /\ pc'[p] \in Stages => pc[p] \in Stages
                                 /\ pc'[p] = "idle" => pc[p] = "idle"
      BY <2>2, <3>1 DEF Commits, TypeOK
    <3>3. QED
      BY <3>2 DEF PromptKept, PastOnly, WholeTurns, InPromptOrOlder, Visible
  <2>3. ASSUME NEW c \in Chats, DeleteChat(c) PROVE PromptKept'
    <3>1. /\ chats' = chats \ {c} /\ UNCHANGED <<pc, chat, history>>
          /\ committed' = {m \in committed : chat[m.turn] # c}
          /\ \A d \in Chats \ {c} : messages'[d] = messages[d]
      BY <2>3 DEF DeleteChat, TypeOK, process, memory
    <3>2. ASSUME NEW p \in Requests, pc[p] \in Stages, chat[p] \in chats'
          PROVE  PastOnly(p)' /\ WholeTurns(p)'
      <4>1. chat[p] \in Chats \ {c} /\ PastOnly(p) /\ WholeTurns(p)
        BY <3>1, <3>2 DEF TypeOK, PromptKept
      <4>2. \A i \in DOMAIN messages[chat[p]] : chat[messages[chat[p]][i].turn] = chat[p]
        BY <4>1 DEF Conversation, OwnMessages
      <4>3. Visible(chat[p])' = Visible(chat[p])
        BY <3>1, <4>1, <4>2 DEF Visible
      <4>4. QED
        BY <3>1, <4>1, <4>3 DEF PastOnly, WholeTurns, InPromptOrOlder
    <3>3. QED
      BY <3>1, <3>2 DEF PromptKept
  <2>4. ASSUME NEW r \in Requests, NEW c \in Chats, Begins(r, c) PROVE PromptKept'
    <3>1. /\ pc[r] = "idle" /\ pc'[r] # "idle" /\ chat'[r] = c
          /\ \A p \in Requests \ {r} :
                pc'[p] = pc[p] /\ chat'[p] = chat[p] /\ history'[p] = history[p]
          /\ UNCHANGED <<chats, messages, committed>>
      BY <2>4 DEF Begins, TypeOK
    <3>2. \A p \in Requests \ {r} :
             pc[p] \in Stages /\ chat[p] \in chats => PastOnly(p)' /\ WholeTurns(p)'
      BY <3>1 DEF PromptKept, PastOnly, WholeTurns, InPromptOrOlder, Visible
    <3>3. PastOnly(r)' /\ WholeTurns(r)'
      <4>1. CASE history'[r] = history[r]
        <5>1. history'[r] = {}
          BY <3>1, <4>1 DEF PromptKept
        <5>2. QED
          BY <5>1 DEF PastOnly, WholeTurns
      <4>2. CASE history'[r] = {messages[c][i] : i \in Trimmed(Visible(c))}
        BY <3>1, <4>2, ReadIsThePast
      <4>3. QED
        BY <2>4, <4>1, <4>2 DEF Begins, TypeOK
    <3>4. QED
      BY <3>1, <3>2, <3>3 DEF PromptKept
  <2>5. CASE Silent
    <3>1. UNCHANGED <<messages, committed, chat, history>>
      BY <2>5 DEF Silent
    <3>2. \A p \in Requests : /\ pc'[p] \in Stages => pc[p] \in Stages
                              /\ pc'[p] = "idle" => pc[p] = "idle"
      BY <2>5 DEF Silent, Advances, Stages
    <3>3. \A p \in Requests : pc[p] \in Stages /\ chat[p] \in chats' => chat[p] \in chats
      BY <2>5 DEF Silent, TypeOK, Stages, Writing
    <3>4. QED
      BY <3>1, <3>2, <3>3 DEF PromptKept, PastOnly, WholeTurns, InPromptOrOlder, Visible
  <2>6. QED
    BY <2>1, <2>2, <2>3, <2>4, <2>5, StepKinds
<1>3. PromptKept => PromptIsThePast
  BY DEF PromptKept, PromptIsThePast, PastOnly, WholeTurns
<1>4. QED
  BY <1>1, <1>2, <1>3, ChatTypeCorrect, ConversationHolds, PTL DEF Spec

\* A turn answered before the next question is asked is in its prompt, unless the
\* window is full of newer messages.
THEOREM AnsweredInPromptHolds == Spec => AnsweredInPrompt
<1> DEFINE Prompted ==
      \A r, q \in Requests :
          pc[r] = "idle" /\ pc'[r] = "save" /\ pc[q] = "done" /\ chat'[r] = chat[q] =>
              \A m \in {Message(q, "user"), Message(q, "assistant")} :
                  \/ m \in history'[r]
                  \/ \E i \in DOMAIN messages[chat[q]] :
                        /\ messages[chat[q]][i] = m
                        /\ Cardinality({j \in Visible(chat[q]) : i < j}) >= 2 * MaxTurns
<1>1. TypeOK /\ Conversation /\ [Next]_vars => Prompted
  <2> SUFFICES ASSUME TypeOK, Conversation, [Next]_vars, NEW r \in Requests, NEW q \in Requests,
                      pc[r] = "idle", pc'[r] = "save", pc[q] = "done", chat'[r] = chat[q],
                      NEW role \in {"user", "assistant"}, Message(q, role) \notin history'[r]
               PROVE  \E i \in DOMAIN messages[chat[q]] :
                         /\ messages[chat[q]][i] = Message(q, role)
                         /\ Cardinality({j \in Visible(chat[q]) : i < j}) >= 2 * MaxTurns
    OBVIOUS
  <2>1. ASSUME NEW p \in Requests, NEW w \in Writes, Inserts(p, w) \/ Commits(p, w) PROVE FALSE
    <3>1. w.written \notin {"idle", "save"} /\ w.next \notin {"idle", "save"}
      BY DEF Writes
    <3>2. QED
      BY <2>1, <3>1 DEF Inserts, Commits, TypeOK
  <2>2. ASSUME NEW d \in Chats, DeleteChat(d) PROVE FALSE
    BY <2>2 DEF DeleteChat
  <2>3. ~Silent
    BY DEF Silent, Advances, Stages, Writing
  <2>4. PICK p \in Requests, c \in Chats : Begins(p, c)
    BY <2>1, <2>2, <2>3, StepKinds
  <2>5. p = r /\ chat'[r] = c /\ c \in chats
        /\ history'[r] = {messages[c][i] : i \in Trimmed(Visible(c))}
    BY <2>4 DEF Begins, TypeOK
  <2>6. SaidBy(q) /\ chat[q] = c
    BY <2>5 DEF Conversation
  <2>7. PICK i \in DOMAIN messages[c] : messages[c][i] = Message(q, role)
    BY <2>6 DEF SaidBy, Said, Replied
  <2>8. i \in Visible(c)
    BY <2>6, <2>7 DEF SaidBy, Replied, Visible
  <2>9. i \notin Trimmed(Visible(c))
    BY <2>5, <2>7
  <2>10. Cardinality({j \in Visible(c) : i < j}) >= 2 * MaxTurns
    BY <2>8, <2>9, VisiblePlaces, TrimmedIsNewest
  <2>11. QED
    BY <2>6, <2>7, <2>10
<1>2. QED
  BY <1>1, ChatTypeCorrect, ConversationHolds, PTL DEF Spec, AnsweredInPrompt

-----------------------------------------------------------------------------
(* Sources: from the scope of a request to what its reply cites. *)

\* What a request knows of sources at each stage: its scope was linked to its
\* chat, what it found was in scope, and its reply, as long as the chat is there,
\* cites what it found and nothing else.
SourcesOfRequest(r) ==
    /\ pc[r] = "idle" => scope[r] = {}
    /\ pc[r] \in {"idle", "post", "posting", "plain", "save", "saving", "scope", "fallback",
                  "fallingBack", "retrieve"} => found[r] = {}
    /\ pc[r] \in (Stages \ {"title"}) \cup {"idle", "plain"} => cites[r] = {}
    /\ pc[r] \in {"title", "done"} /\ chat[r] \in chats => cites[r] = found[r]
    /\ \A s \in scope[r] : <<chat[r], s>> \in links \/ s \in gone \/ chat[r] \in deleted
    /\ \A f \in found[r] : f.source \in scope[r]
    /\ cites[r] \subseteq found[r]
    /\ chat[r] \notin chats => cites[r] = {}

ScopeToCites == \A r \in Requests : SourcesOfRequest(r)

\* Nothing the other actors do to chats, links and sources disturbs it.
LEMMA EnvironmentKeepsSources ==
    ASSUME TypeOK, ScopeToCites, UNCHANGED <<pc, chat, scope, found>>,
           deleted \subseteq deleted', gone \subseteq gone',
           \A r \in Requests : cites'[r] = IF chat[r] \in deleted' THEN {} ELSE cites[r],
           \A r \in Requests : pc[r] # "idle" =>
               (chat[r] \in chats' <=> chat[r] \in chats /\ chat[r] \notin deleted'),
           \A l \in links \ links' : l[1] \in deleted' \/ l[2] \in gone'
    PROVE  ScopeToCites'
<1> SUFFICES ASSUME NEW r \in Requests PROVE SourcesOfRequest(r)'
  BY DEF ScopeToCites
<1> USE DEF SourcesOfRequest
<1>1. SourcesOfRequest(r)
  BY DEF ScopeToCites
<1>2. \A s \in scope[r] : <<chat[r], s>> \in links' \/ s \in gone' \/ chat[r] \in deleted'
  <2> SUFFICES ASSUME NEW s \in scope[r], <<chat[r], s>> \in links, <<chat[r], s>> \notin links'
               PROVE  s \in gone' \/ chat[r] \in deleted'
    BY <1>1
  <2>1. QED
    OBVIOUS
<1>3. CASE pc[r] = "idle"
  BY <1>1, <1>2, <1>3
<1>4. CASE pc[r] # "idle"
  BY <1>1, <1>2, <1>4
<1>5. QED
  BY <1>3, <1>4

\* The invariant holds at every stage of every send.
LEMMA ScopeToCitesHolds == Spec => []ScopeToCites
<1>1. Init => ScopeToCites
  BY DEF Init, ScopeToCites, SourcesOfRequest, Stages
<1>2. TypeOK /\ ScopeToCites /\ [Next]_vars => ScopeToCites'
  <2> SUFFICES ASSUME TypeOK, ScopeToCites, [Next]_vars PROVE ScopeToCites'
    OBVIOUS
  <2> USE DEF tables, store, process, memory, Goto
  <2>0. \A r \in Requests : /\ pc[r] # "idle" => chat[r] \in chats \cup deleted
                            /\ chat[r] \in deleted => cites[r] = {}
    BY DEF TypeOK, ScopeToCites, SourcesOfRequest
  <2>1. CASE Startup \/ UNCHANGED vars \/ (\E r \in Requests : BackgroundTitle(r))
    BY <2>1 DEF Startup, BackgroundTitle, vars, ScopeToCites, SourcesOfRequest
  <2>2. CASE StoreChanges
    <3>1. gone \subseteq gone'
      BY <2>2, StoreStep DEF StoreChanges, TypeOK
    <3>2. QED
      BY <2>0, <2>2, <3>1, EnvironmentKeepsSources DEF StoreChanges, TypeOK
  <2>3. ASSUME NEW c \in Chats, DeleteChat(c) PROVE ScopeToCites'
    BY <2>0, <2>3, EnvironmentKeepsSources DEF DeleteChat, TypeOK
  <2>4. ASSUME NEW c \in Chats, NEW t \in Titles, CreateChat(c, t) PROVE ScopeToCites'
    BY <2>0, <2>4, EnvironmentKeepsSources DEF CreateChat, TypeOK
  <2>5. ASSUME NEW c \in Chats, NEW s \in Sources, Link(c, s) PROVE ScopeToCites'
    BY <2>5 DEF Link, ScopeToCites, SourcesOfRequest
  <2>6. ASSUME NEW c \in Chats, RenameChat(c) PROVE ScopeToCites'
    BY <2>6 DEF RenameChat, ScopeToCites, SourcesOfRequest
  <2>7. ASSUME NEW s \in Sources, StatusChanges(s) PROVE ScopeToCites'
    BY <2>7 DEF StatusChanges, ScopeToCites, SourcesOfRequest
  <2>8. ASSUME NEW r \in Requests,
               \/ \E c \in Chats : ReadHistory(r, c) \/ SendPlain(r, c)
               \/ Post(r) \/ SaveUser(r) \/ Scope(r) \/ Fallback(r) \/ Retrieve(r) \/ Generate(r)
               \/ Reply(r) \/ Cite(r) \/ ScheduleTitle(r) \/ Fail(r)
        PROVE  ScopeToCites'
    <3> DEFINE others == \A q \in Requests \ {r} :
                  /\ pc'[q] = pc[q] /\ chat'[q] = chat[q] /\ scope'[q] = scope[q]
                  /\ found'[q] = found[q] /\ cites'[q] = cites[q]
    <3>1. others /\ UNCHANGED <<chats, deleted, links, gone>>
      <4>1. ASSUME NEW c \in Chats, ReadHistory(r, c) \/ SendPlain(r, c)
            PROVE  others /\ UNCHANGED <<chats, deleted, links, gone>>
        BY <4>1 DEF ReadHistory, SendPlain, TypeOK
      <4>2. ASSUME Post(r) \/ SaveUser(r) \/ Fallback(r) \/ Reply(r)
            PROVE  others /\ UNCHANGED <<chats, deleted, links, gone>>
        BY <4>2 DEF Post, SaveUser, Fallback, Reply, AddMessage, InsertMessage, CommitMessage, TypeOK
      <4>3. ASSUME Scope(r) \/ Retrieve(r) \/ Generate(r) \/ Cite(r) \/ ScheduleTitle(r) \/ Fail(r)
            PROVE  others /\ UNCHANGED <<chats, deleted, links, gone>>
        BY <4>3 DEF Scope, Retrieve, Generate, Cite, ScheduleTitle, Fail, TypeOK
      <4>4. QED
        BY <2>8, <4>1, <4>2, <4>3
    <3>2. \A q \in Requests \ {r} : SourcesOfRequest(q)'
      BY <3>1 DEF ScopeToCites, SourcesOfRequest
    <3>3. SourcesOfRequest(r)
      BY DEF ScopeToCites
    <3> USE DEF SourcesOfRequest, TypeOK, Stages, Writing
    <3>4. ASSUME NEW c \in Chats, ReadHistory(r, c) \/ SendPlain(r, c)
          PROVE  SourcesOfRequest(r)'
      BY <3>3, <3>4 DEF ReadHistory, SendPlain
    <3>5. ASSUME Post(r) \/ SaveUser(r) \/ Fallback(r) \/ Reply(r) PROVE SourcesOfRequest(r)'
      <4>1. UNCHANGED <<chat, scope, found, cites>>
        BY <3>5 DEF Post, SaveUser, Fallback, Reply, AddMessage, InsertMessage, CommitMessage
      <4>2. \/ pc'[r] = "failed"
            \/ <<pc[r], pc'[r]>> \in {<<"post", "posting">>, <<"posting", "plain">>, <<"save", "saving">>,
                   <<"saving", "scope">>, <<"fallback", "fallingBack">>, <<"fallingBack", "title">>,
                   <<"reply", "replying">>, <<"replying", "cite">>}
        BY <3>5 DEF Post, SaveUser, Fallback, Reply, AddMessage, InsertMessage, CommitMessage
      <4>3. QED
        BY <3>1, <3>3, <4>1, <4>2
    <3>6. ASSUME Scope(r) PROVE SourcesOfRequest(r)'
      BY <3>3, <3>6 DEF Scope, ReadySources
    <3>7. ASSUME Retrieve(r) PROVE SourcesOfRequest(r)'
      BY <3>3, <3>7 DEF Retrieve
    <3>8. ASSUME Generate(r) \/ ScheduleTitle(r) \/ Fail(r) PROVE SourcesOfRequest(r)'
      BY <3>3, <3>8 DEF Generate, ScheduleTitle, Fail
    <3>9. ASSUME Cite(r) PROVE SourcesOfRequest(r)'
      BY <3>3, <3>9 DEF Cite
    <3>10. QED
      BY <2>8, <3>2, <3>4, <3>5, <3>6, <3>7, <3>8, <3>9 DEF ScopeToCites
  <2>9. QED
    BY <2>1, <2>2, <2>3, <2>4, <2>5, <2>6, <2>7, <2>8 DEF Next, RequestStep
<1>3. QED
  BY <1>1, <1>2, ChatTypeCorrect, PTL DEF Spec

\* A chat cites only sources that are linked to it, or were until they were
\* deleted, for any number of requests: found is in scope, scope was linked.
THEOREM CitedWereLinkedHolds == Spec => []CitedWereLinked
<1>1. TypeOK /\ ScopeToCites => CitedWereLinked
  <2> SUFFICES ASSUME TypeOK, ScopeToCites, NEW r \in Requests, NEW cite \in cites[r]
               PROVE  <<chat[r], cite.source>> \in links \/ cite.source \in gone
    BY DEF CitedWereLinked
  <2>1. chat[r] \in chats /\ chat[r] \notin deleted /\ cite \in found[r]
    BY DEF TypeOK, ScopeToCites, SourcesOfRequest
  <2>2. QED
    BY <2>1 DEF ScopeToCites, SourcesOfRequest
<1>2. QED
  BY <1>1, ChatTypeCorrect, ScopeToCitesHolds, PTL

\* A deleted source holds nothing.
GoneIsEmpty == \A s \in gone : held[s] = None

\* The store never fills a source that is gone, and empties one that goes.
LEMMA GoneIsEmptyHolds == Spec => []GoneIsEmpty
<1>1. Init => GoneIsEmpty
  BY DEF Init, Store!Init, GoneIsEmpty
<1>2. TypeOK /\ GoneIsEmpty /\ [Next]_vars => GoneIsEmpty'
  <2> SUFFICES ASSUME TypeOK, GoneIsEmpty, [Next]_vars PROVE GoneIsEmpty'
    OBVIOUS
  <2> USE DEF GoneIsEmpty, store
  <2>1. CASE StoreChanges
    <3>1. held \in [Sources -> Versions \cup {None}] /\ gone \subseteq Sources
      BY DEF TypeOK
    <3>2. ASSUME NEW s \in Sources, NEW v \in Versions, Store!Fill(s, v) PROVE GoneIsEmpty'
      BY <3>1, <3>2 DEF Store!Fill
    <3>3. ASSUME NEW s \in Sources, Store!Clear(s) PROVE GoneIsEmpty'
      BY <3>1, <3>3 DEF Store!Clear
    <3>4. ASSUME NEW lost \in SUBSET Sources, Store!Drop(lost) PROVE GoneIsEmpty'
      BY <3>1, <3>4 DEF Store!Drop
    <3>5. QED
      BY <2>1, <3>2, <3>3, <3>4 DEF StoreChanges, Store!Next
  <2>2. CASE UNCHANGED store
    BY <2>2
  <2>3. ASSUME ~StoreChanges PROVE UNCHANGED store
    BY <2>3 DEF Next, RequestStep, vars, Startup, RenameChat, DeleteChat, CreateChat, Link,
       StatusChanges, ReadHistory, SendPlain, Post, SaveUser, AddMessage, InsertMessage,
       CommitMessage, Scope, Fallback, Retrieve, Generate, Reply, Cite, ScheduleTitle, BackgroundTitle, Fail
  <2>4. QED
    BY <2>1, <2>2, <2>3
<1>3. QED
  BY <1>1, <1>2, ChatTypeCorrect, PTL DEF Spec

\* No step ever finds chunks of a source that was deleted before it, although the
\* scope of the request still names the source.
THEOREM NeverFromGoneHolds == Spec => NeverFromGone
<1> DEFINE Finds == \A r \in Requests : \A f \in found'[r] \ found[r] : f.source \notin gone
<1>1. TypeOK /\ GoneIsEmpty /\ [Next]_vars => Finds
  <2> SUFFICES ASSUME TypeOK, GoneIsEmpty, [Next]_vars PROVE Finds
    OBVIOUS
  <2>1. ASSUME NEW r \in Requests, Retrieve(r) PROVE Finds
    <3> DEFINE hits == {[source |-> s, version |-> held[s]] :
                           s \in {t \in scope[r] : held[t] # None}}
    <3>1. PICK best \in SUBSET hits : found' = [found EXCEPT ![r] = best]
      BY <2>1 DEF Retrieve
    <3>2. \A f \in hits : f.source \notin gone
      BY DEF GoneIsEmpty
    <3>3. \A q \in Requests : found'[q] \ found[q] \subseteq hits
      BY <3>1 DEF TypeOK
    <3>4. QED
      BY <3>2, <3>3
  <2>2. CASE UNCHANGED found
    BY <2>2
  <2>3. ASSUME ~\E r \in Requests : Retrieve(r) PROVE UNCHANGED found
    BY <2>3 DEF Next, RequestStep, vars, memory, Startup, StoreChanges, RenameChat, DeleteChat,
       CreateChat, Link, StatusChanges, ReadHistory, SendPlain, Post, SaveUser, AddMessage,
       InsertMessage, CommitMessage, Scope, Fallback, Generate, Reply, Cite, ScheduleTitle, BackgroundTitle, Fail
  <2>4. QED
    BY <2>1, <2>2, <2>3
<1>2. QED
  BY <1>1, ChatTypeCorrect, GoneIsEmptyHolds, PTL DEF Spec, NeverFromGone

-----------------------------------------------------------------------------
(* What is reloaded. *)

\* Of a chat that is deleted nothing is left, and nothing can be added: no insert
\* into it waits for its commit.
NothingLeft ==
    \A c \in deleted :
        /\ messages[c] = <<>>
        /\ \A m \in committed : chat[m.turn] # c
        /\ \A r \in Requests : chat[r] = c => pc[r] \notin Writing

\* A deletion waits for the inserts into its chat, and no insert finds a chat
\* that is gone.
LEMMA NothingLeftHolds == Spec => []NothingLeft
<1>1. Init => NothingLeft
  BY DEF Init, NothingLeft
<1>2. TypeOK /\ NothingLeft /\ [Next]_vars => NothingLeft'
  <2> SUFFICES ASSUME TypeOK, NothingLeft, [Next]_vars PROVE NothingLeft'
    OBVIOUS
  <2>1. ASSUME NEW r \in Requests, NEW w \in Writes, Inserts(r, w) PROVE NothingLeft'
    <3>1. chat[r] \in Chats /\ chat[r] \notin deleted /\ UNCHANGED <<deleted, committed, chat>>
      BY <2>1 DEF Inserts, TypeOK
    <3>2. \A c \in deleted : messages'[c] = messages[c]
      BY <2>1, <3>1 DEF Inserts, TypeOK
    <3>3. \A q \in Requests : chat[q] \in deleted => pc'[q] = pc[q]
      BY <2>1, <3>1 DEF Inserts, TypeOK
    <3>4. QED
      BY <3>1, <3>2, <3>3 DEF NothingLeft
  <2>2. ASSUME NEW r \in Requests, NEW w \in Writes, Commits(r, w) PROVE NothingLeft'
    <3>1. w.written \in Writing /\ w.next \notin Writing
      BY DEF Writes, Writing
    <3>2. chat[r] \notin deleted /\ UNCHANGED <<deleted, messages, chat>>
      BY <2>2, <3>1 DEF Commits, NothingLeft
    <3>3. \A m \in committed' \ committed : m.turn = r
      BY <2>2 DEF Commits, Message
    <3>4. \A q \in Requests : pc'[q] \in Writing => pc[q] \in Writing
      BY <2>2, <3>1 DEF Commits, TypeOK
    <3>5. QED
      BY <3>2, <3>3, <3>4 DEF NothingLeft
  <2>3. ASSUME NEW c \in Chats, DeleteChat(c) PROVE NothingLeft'
    BY <2>3 DEF DeleteChat, NothingLeft, TypeOK, process, memory
  <2>4. ASSUME NEW r \in Requests, NEW c \in Chats, Begins(r, c) PROVE NothingLeft'
    <3>1. /\ chat'[r] = c /\ c \notin deleted /\ UNCHANGED <<deleted, messages, committed>>
          /\ \A q \in Requests \ {r} : pc'[q] = pc[q] /\ chat'[q] = chat[q]
      BY <2>4 DEF Begins, TypeOK
    <3>2. \A m \in committed : m.turn \in Requests
      BY DEF TypeOK, Messages
    <3>3. QED
      BY <3>1, <3>2 DEF NothingLeft
  <2>5. CASE Silent
    <3>1. \A q \in Requests : pc'[q] \in Writing => pc[q] \in Writing
      BY <2>5 DEF Silent, Advances, Writing
    <3>2. QED
      BY <2>5, <3>1 DEF Silent, NothingLeft
  <2>6. QED
    BY <2>1, <2>2, <2>3, <2>4, <2>5, StepKinds
<1>3. QED
  BY <1>1, <1>2, ChatTypeCorrect, PTL DEF Spec

\* What is reloaded is what was answered, for any number of overlapping requests:
\* one question, one later reply, and the sources the reply was answered from;
\* and nothing of a chat that was deleted.
THEOREM ReloadMatchesResponseHolds == Spec => []ReloadMatchesResponse
<1>1. TypeOK /\ ScopeToCites /\ Conversation /\ NothingLeft => ReloadMatchesResponse
  <2> SUFFICES ASSUME TypeOK, ScopeToCites, Conversation, NothingLeft, NEW r \in Requests
               PROVE  /\ pc[r] = "done" /\ chat[r] \in chats =>
                            /\ \E i \in DOMAIN messages[chat[r]], j \in DOMAIN messages[chat[r]] :
                                  /\ i < j
                                  /\ At(chat[r], r, "user") = {i}
                                  /\ At(chat[r], r, "assistant") = {j}
                            /\ cites[r] = found[r]
                      /\ chat[r] \in deleted =>
                            /\ messages[chat[r]] = <<>> /\ cites[r] = {}
                            /\ \A m \in committed : m.turn # r
    BY DEF ReloadMatchesResponse
  <2>1. ASSUME pc[r] = "done", chat[r] \in chats
        PROVE  /\ \E i \in DOMAIN messages[chat[r]], j \in DOMAIN messages[chat[r]] :
                     /\ i < j
                     /\ At(chat[r], r, "user") = {i}
                     /\ At(chat[r], r, "assistant") = {j}
               /\ cites[r] = found[r]
    <3> DEFINE c == chat[r]
    <3>1. SaidBy(r) /\ c \in Chats
      BY <2>1 DEF Conversation, TypeOK
    <3>2. PICK j \in DOMAIN messages[c] : messages[c][j] = Message(r, "assistant")
      BY <2>1, <3>1 DEF SaidBy, Said, Replied
    <3>3. PICK i \in DOMAIN messages[c] : i < j /\ messages[c][i] = Message(r, "user")
      BY <3>1, <3>2 DEF Conversation, QuestionFirst, Message
    <3>4. Message(r, "user") \in committed /\ Message(r, "assistant") \in committed
      BY <2>1, <3>1 DEF SaidBy, Replied
    <3>5. At(c, r, "user") = {i} /\ At(c, r, "assistant") = {j}
      BY <3>1, <3>2, <3>3, <3>4 DEF Conversation, SaidOnce, At, Visible
    <3>6. cites[r] = found[r]
      BY <2>1 DEF ScopeToCites, SourcesOfRequest
    <3>7. QED
      BY <3>3, <3>5, <3>6
  <2>2. ASSUME chat[r] \in deleted
        PROVE  messages[chat[r]] = <<>> /\ cites[r] = {} /\ \A m \in committed : m.turn # r
    BY <2>2 DEF TypeOK, ScopeToCites, SourcesOfRequest, NothingLeft
  <2>3. QED
    BY <2>1, <2>2
<1>2. QED
  BY <1>1, ChatTypeCorrect, ScopeToCitesHolds, ConversationHolds, NothingLeftHolds, PTL

=============================================================================
