---------------------------- MODULE HomePageProofs ----------------------------
(***************************************************************************)
(* Proofs about HomePage for any chats, sends, sources, answers, bounds    *)
(* and plans: types, what is staged, what the page shows of its list.      *)
(***************************************************************************)
EXTENDS HomePage, SequenceTheorems, TLAPS

-----------------------------------------------------------------------------
(* The inductive invariant. *)

HookTyped ==
    /\ shown \in Seq(Turns)
    /\ loadingHistory \in BOOLEAN /\ sending \in BOOLEAN /\ streaming \in BOOLEAN
    /\ interval \in [Sends -> Nat \cup {None}]
    /\ timerRef \in Sends \cup {None} /\ streamRef \in Sends \cup {None}
    /\ loads \in [Slots \cup Sends -> LoadCall \cup {None}]

\* The refs of the stream are set and reset together, while their interval runs.
StreamHeld ==
    /\ streamRef = timerRef
    /\ streaming <=> timerRef # None
    /\ timerRef # None => interval[timerRef] # None

\* A send that has its chat, or an interval left of it, is for a chat that was
\* made: the call that follows the animation names it.
SendTyped ==
    /\ stage \in [Sends -> Stages]
    /\ target \in [Sends -> ChatOrNone]
    /\ history \in [Chats -> Seq(Sends)]
    /\ \A e \in Sends :
          stage[e] \in {"created", "linking", "sent", "answered"} \/ interval[e] # None =>
              target[e] \in made

\* The page only ever learns of chats that were made.
ListCalls == [reply : (SUBSET made) \cup {None}]

ListTyped ==
    /\ rows \subseteq made /\ made \subseteq Chats
    /\ chats \subseteq made /\ listLoading \in BOOLEAN
    /\ refreshes \in [Refreshes -> ListCalls \cup {None}]
    /\ deleting \subseteq Chats /\ renaming \subseteq Chats

PageTyped ==
    /\ activeChat \in made \cup {None}
    /\ fresh \in BOOLEAN /\ skip \in BOOLEAN /\ hasText \in BOOLEAN
    /\ pending \subseteq Uploads /\ submitted \subseteq Sends
    /\ ingest \in [Uploads -> {"idle", "running", "over", "failed"}]
    /\ ingestChat \in [Uploads -> ChatOrNone]
    /\ waiting \in [Sends -> SUBSET Uploads] /\ linkedIds \in [Sends -> SUBSET Uploads]
    /\ links \subseteq Chats \X Uploads

\* Chats are made in their order, one at a time: any list of them has a newest,
\* however many chats there may be.
MadeInOrder ==
    /\ \A c \in made, d \in Chats : d < c => d \in made
    /\ \A cs \in SUBSET made : cs # {} => \E c \in cs : \A d \in cs : d <= c

HomeInv == HookTyped /\ StreamHeld /\ SendTyped /\ ListTyped /\ PageTyped /\ MadeInOrder

-----------------------------------------------------------------------------
(* The operators of the model. *)

\* A turn of a send is a turn.
LEMMA TurnTyped ==
    ASSUME NEW e \in Sends, NEW w \in Nat, NEW l \in BOOLEAN
    PROVE  Turn(e, w, l) \in Turns
BY DEF Turn, Turns

\* Changing a turn of the messages leaves their number.
LEMMA WithTurnTyped ==
    ASSUME NEW turns \in Seq(Turns), NEW e \in Sends, NEW w \in Nat, NEW l \in BOOLEAN
    PROVE  WithTurn(turns, e, w, l) \in Seq(Turns) /\ Len(WithTurn(turns, e, w, l)) = Len(turns)
BY DEF WithTurn, Turns, Turn

\* A stored chat is shown turn by turn.
LEMMA CompleteTyped ==
    ASSUME NEW turns \in Seq(Sends)
    PROVE  /\ Complete(turns) \in Seq(Turns) /\ Len(Complete(turns)) = Len(turns)
           /\ \A i \in 1..Len(turns) : Complete(turns)[i] = Turn(turns[i], Words[turns[i]], FALSE)
<1>1. /\ Len(turns) \in Nat /\ DOMAIN turns = 1..Len(turns)
      /\ \A i \in DOMAIN turns : turns[i] \in Sends /\ Words[turns[i]] \in Nat
  BY MessageHookAssumption
<1>2. Complete(turns) \in [1..Len(turns) -> Turns]
  BY <1>1 DEF Complete, Turns, Turn
<1>3. Complete(turns) \in Seq(Turns) /\ Len(Complete(turns)) = Len(turns)
  BY <1>1, <1>2
<1>4. \A i \in 1..Len(turns) : Complete(turns)[i] = Turn(turns[i], Words[turns[i]], FALSE)
  BY <1>1 DEF Complete
<1>5. QED
  BY <1>3, <1>4

\* The newest of some chats that were made is one of them.
LEMMA NewestIsListed ==
    ASSUME MadeInOrder, NEW cs \in SUBSET made, cs # {}
    PROVE  Newest(cs) \in cs /\ \A d \in cs : d <= Newest(cs)
BY DEF MadeInOrder, Newest

\* What the effects make of the active chat: one of the list, once it is there.
LEMMA EffectsPickListed ==
    ASSUME MadeInOrder, made \subseteq Chats, NEW cs \in SUBSET made, NEW a \in made \cup {None},
           NEW fr, NEW loading \in BOOLEAN
    PROVE  /\ AfterEffects(a, cs, fr, loading) \in made \cup {None}
           /\ ~loading => AfterEffects(a, cs, fr, loading) \in cs \cup {None}
           /\ loading => AfterEffects(a, cs, fr, loading) = a
           /\ a \in cs => AfterEffects(a, cs, fr, loading) = a
           /\ a = None /\ fr => AfterEffects(a, cs, fr, loading) = None
<1>1. cs # {} => Newest(cs) \in cs
  BY NewestIsListed
<1>2. None \notin cs
  BY MessageHookAssumption
<1>3. QED
  BY <1>1, <1>2 DEF AfterEffects

-----------------------------------------------------------------------------
(* The routines of the message hook. *)

\* An interval is cleared, or runs on where it was.
LEMMA InterruptedTyped ==
    ASSUME HookTyped
    PROVE  /\ Interrupted \in [Sends -> Nat \cup {None}]
           /\ \A e \in Sends : Interrupted[e] # None => Interrupted[e] = interval[e]
BY DEF HookTyped, Interrupted

\* Resetting the stream: no interval begins.
LEMMA ResetStreamKeeps ==
    ASSUME HookTyped, ResetStream
    PROVE  /\ interval' \in [Sends -> Nat \cup {None}]
           /\ \A e \in Sends : interval'[e] # None => interval[e] # None
           /\ streaming' = FALSE /\ timerRef' = None /\ streamRef' = None
           /\ StreamHeld'
BY InterruptedTyped DEF ResetStream, NotStreaming, StreamHeld

\* Stopping it leaves messages.
LEMMA StopStreamingKeeps ==
    ASSUME HookTyped, StopStreaming
    PROVE  shown' \in Seq(Turns)
<1>1. CASE streamRef = None
  BY <1>1 DEF StopStreaming, HookTyped
<1>2. CASE streamRef # None
  <2>1. streamRef \in Sends /\ Words[streamRef] \in Nat
    BY <1>2, MessageHookAssumption DEF HookTyped
  <2>2. PICK words \in {0, Words[streamRef]} : shown' = WithTurn(shown, streamRef, words, FALSE)
    BY <1>2 DEF StopStreaming
  <2>3. QED
    BY <2>1, <2>2, WithTurnTyped DEF HookTyped
<1>3. QED
  BY <1>1, <1>2

\* A send that is begun, or goes on, for a chat that was made.
LEMMA SendMessageKeeps ==
    ASSUME HookTyped, SendTyped, NEW e \in Sends, NEW c \in made, made \subseteq Chats,
           SendMessage(e, c), UNCHANGED <<history, made>>
    PROVE  HookTyped' /\ StreamHeld' /\ SendTyped'
<1>1. /\ ResetStream /\ sending' = TRUE /\ loadingHistory' = loadingHistory /\ loads' = loads
      /\ stage' = [stage EXCEPT ![e] = "sent"] /\ target' = [target EXCEPT ![e] = c]
  BY DEF SendMessage, StopStreaming, Goto
<1>2. shown' \in Seq(Turns)
  BY StopStreamingKeeps DEF SendMessage
<1>3. HookTyped' /\ StreamHeld'
  BY <1>1, <1>2, ResetStreamKeeps DEF HookTyped
<1>4. stage' \in [Sends -> Stages] /\ target' \in [Sends -> ChatOrNone]
  BY <1>1 DEF SendTyped, Stages, ChatOrNone
<1>5. ASSUME NEW d \in Sends,
             stage'[d] \in {"created", "linking", "sent", "answered"} \/ interval'[d] # None
      PROVE  target'[d] \in made'
  <2>1. CASE d = e
    BY <1>1, <2>1 DEF SendTyped
  <2>2. CASE d # e
    BY <1>1, <1>5, <2>2, ResetStreamKeeps DEF SendTyped
  <2>3. QED
    BY <2>1, <2>2
<1>6. QED
  BY <1>3, <1>4, <1>5 DEF SendTyped

\* What the page comes to show, of a list of chats that were made.
LEMMA ShowKeeps ==
    ASSUME HookTyped, StreamHeld, MadeInOrder, made \subseteq Chats,
           activeChat \in made \cup {None}, skip \in BOOLEAN,
           NEW a \in made \cup {None}, NEW cs \in SUBSET made, NEW fr, NEW loading \in BOOLEAN,
           NEW clear, Show(a, cs, fr, loading, clear)
    PROVE  /\ HookTyped' /\ StreamHeld' /\ activeChat' \in made \cup {None} /\ skip' \in BOOLEAN
           /\ activeChat' = AfterEffects(a, cs, fr, loading)
           /\ \A e \in Sends : interval'[e] # None => interval[e] # None
<1>1. activeChat' = AfterEffects(a, cs, fr, loading) /\ activeChat' \in made \cup {None}
  BY EffectsPickListed DEF Show
<1>2. /\ interval' \in [Sends -> Nat \cup {None}] /\ StreamHeld' /\ shown' \in Seq(Turns)
      /\ streaming' \in BOOLEAN
      /\ timerRef' \in Sends \cup {None} /\ streamRef' \in Sends \cup {None}
      /\ \A e \in Sends : interval'[e] # None => interval[e] # None
  <2>1. CASE ClearMessages
    BY <2>1, ResetStreamKeeps DEF ClearMessages
  <2>2. CASE UNCHANGED <<shown, stream>>
    BY <2>2 DEF stream, StreamHeld, HookTyped
  <2>3. QED
    BY <2>1, <2>2 DEF Show
<1>3. skip' \in BOOLEAN /\ sending' = sending
  BY DEF Show
<1>4. loads' \in [Slots \cup Sends -> LoadCall \cup {None}] /\ loadingHistory' \in BOOLEAN
  <2>1. CASE UNCHANGED <<loads, loadingHistory>>
    BY <2>1 DEF HookTyped
  <2>2. CASE Arrives(activeChat') /\ LoadHistory(activeChat')
    <3>1. activeChat' \in Chats
      BY <1>1, <2>2 DEF Arrives
    <3>2. PICK i \in Slots : loads' = [loads EXCEPT ![i] = Load(activeChat')] /\ loadingHistory' = TRUE
      BY <2>2 DEF LoadHistory, FreeSlots
    <3>3. Load(activeChat') \in LoadCall
      BY <3>1 DEF Load, LoadCall
    <3>4. QED
      BY <3>2, <3>3 DEF HookTyped
  <2>3. QED
    BY <1>1, <2>1, <2>2 DEF Show
<1>5. QED
  BY <1>1, <1>2, <1>3, <1>4 DEF HookTyped

-----------------------------------------------------------------------------
(* What a step leaves alone stays as it must be. *)

\* The hook,
LEMMA HookStays ==
    ASSUME HookTyped, StreamHeld, UNCHANGED hookVars
    PROVE  HookTyped' /\ StreamHeld'
BY DEF HookTyped, StreamHeld, hookVars, stream

\* the sends, as long as no interval begins,
LEMMA SendsStay ==
    ASSUME SendTyped, UNCHANGED <<stage, target, history, made>>,
           \A e \in Sends : interval'[e] # None => interval[e] # None
    PROVE  SendTyped'
BY DEF SendTyped

\* the list and the chats on the server.
LEMMA ListStays ==
    ASSUME ListTyped, MadeInOrder, UNCHANGED <<listVars, rows, made>>
    PROVE  ListTyped' /\ MadeInOrder'
BY DEF ListTyped, MadeInOrder, ListCalls, listVars

-----------------------------------------------------------------------------
(* The sidebar and the list. *)

\* A chat of the list is opened.
LEMMA SelectChatKeeps ==
    ASSUME HomeInv, NEW c \in Chats, SelectChat(c)
    PROVE  HomeInv'
<1>1. /\ c \in made /\ chats \in SUBSET made /\ made \subseteq Chats /\ listLoading \in BOOLEAN
      /\ activeChat \in made \cup {None} /\ skip \in BOOLEAN
  BY DEF HomeInv, ListTyped, PageTyped, SelectChat, Listed
<1>2. Show(c, chats, FALSE, listLoading, FALSE)
  BY DEF SelectChat
<1>3. /\ HookTyped' /\ StreamHeld' /\ activeChat' \in made \cup {None} /\ skip' \in BOOLEAN
      /\ \A e \in Sends : interval'[e] # None => interval[e] # None
  BY <1>1, <1>2, ShowKeeps DEF HomeInv
<1>4. SendTyped' /\ ListTyped' /\ MadeInOrder'
  BY <1>3, SendsStay, ListStays DEF HomeInv, SelectChat, sendVars, server
<1>5. PageTyped'
  BY <1>3 DEF HomeInv, PageTyped, SelectChat, server, ingestVars, linkVars
<1>6. QED
  BY <1>3, <1>4, <1>5 DEF HomeInv

\* New chat.
LEMMA NewChatKeeps ==
    ASSUME HomeInv, NewChat
    PROVE  HomeInv'
<1>1. /\ chats \in SUBSET made /\ made \subseteq Chats /\ listLoading \in BOOLEAN
      /\ activeChat \in made \cup {None} /\ skip \in BOOLEAN
  BY DEF HomeInv, ListTyped, PageTyped
<1>2. Show(None, chats, TRUE, listLoading, TRUE)
  BY DEF NewChat
<1>3. /\ HookTyped' /\ StreamHeld' /\ activeChat' \in made \cup {None} /\ skip' \in BOOLEAN
      /\ \A e \in Sends : interval'[e] # None => interval[e] # None
  BY <1>1, <1>2, ShowKeeps DEF HomeInv
<1>4. SendTyped' /\ ListTyped' /\ MadeInOrder'
  BY <1>3, SendsStay, ListStays DEF HomeInv, NewChat, sendVars, server
<1>5. PageTyped'
  BY <1>3 DEF HomeInv, PageTyped, NewChat, server, ingestVars, linkVars
<1>6. QED
  BY <1>3, <1>4, <1>5 DEF HomeInv

\* A chat leaves the list before it leaves the server.
LEMMA DeleteChatKeeps ==
    ASSUME HomeInv, NEW c \in Chats, DeleteChat(c)
    PROVE  HomeInv'
<1> DEFINE a == IF activeChat = c THEN None ELSE activeChat
<1>1. /\ chats' \in SUBSET made /\ made \subseteq Chats /\ listLoading \in BOOLEAN
      /\ activeChat \in made \cup {None} /\ skip \in BOOLEAN /\ a \in made \cup {None}
  BY DEF HomeInv, ListTyped, PageTyped, DeleteChat, RemoveFromList
<1>2. Show(a, chats', fresh, listLoading, activeChat = c)
  BY DEF DeleteChat
<1> HIDE DEF a
<1>3. /\ HookTyped' /\ StreamHeld' /\ activeChat' \in made \cup {None} /\ skip' \in BOOLEAN
      /\ \A e \in Sends : interval'[e] # None => interval[e] # None
  BY <1>1, <1>2, ShowKeeps DEF HomeInv
<1>4. SendTyped'
  BY <1>3, SendsStay DEF HomeInv, DeleteChat, sendVars, server
<1>5. ListTyped' /\ MadeInOrder'
  BY <1>1 DEF HomeInv, ListTyped, MadeInOrder, ListCalls, DeleteChat, RemoveFromList, server
<1>6. PageTyped'
  BY <1>3 DEF HomeInv, PageTyped, DeleteChat, server, ingestVars, linkVars
<1>7. QED
  BY <1>3, <1>4, <1>5, <1>6 DEF HomeInv

\* A title is changed.
LEMMA RenameChatKeeps ==
    ASSUME HomeInv, NEW c \in Chats, RenameChat(c)
    PROVE  HomeInv'
<1>1. HookTyped' /\ StreamHeld' /\ SendTyped'
  BY HookStays, SendsStay DEF HomeInv, RenameChat, hookVars, stream, sendVars, server
<1>2. ListTyped' /\ MadeInOrder' /\ PageTyped'
  BY DEF HomeInv, ListTyped, ListCalls, MadeInOrder, PageTyped, RenameChat, RenameInList, server,
         pageVars, ingestVars, linkVars
<1>3. QED
  BY <1>1, <1>2 DEF HomeInv

\* What a reload of the list is answered is a list of chats that were made.
LEMMA ReloadListsMade ==
    ASSUME ListTyped, \E i \in Refreshes : ReceiveRefresh(i) \/ RefreshFails(i)
    PROVE  /\ chats' \in SUBSET made /\ listLoading' = FALSE
           /\ refreshes' \in [Refreshes -> ListCalls \cup {None}]
           /\ UNCHANGED <<deleting, renaming, rows>>
<1> PICK i \in Refreshes : ReceiveRefresh(i) \/ RefreshFails(i)
  OBVIOUS
<1>1. /\ refreshes' = [refreshes EXCEPT ![i] = None] /\ listLoading' = FALSE
      /\ UNCHANGED <<deleting, renaming, rows>>
  BY DEF ReceiveRefresh, RefreshFails
<1>2. CASE RefreshFails(i)
  BY <1>1, <1>2 DEF ListTyped, RefreshFails
<1>3. CASE ReceiveRefresh(i)
  <2>1. refreshes[i] \in ListCalls /\ refreshes[i].reply # None /\ chats' = refreshes[i].reply
    BY <1>3 DEF ListTyped, ReceiveRefresh, Answered, InFlight
  <2>2. refreshes[i].reply \in SUBSET made
    BY <2>1 DEF ListCalls
  <2>3. QED
    BY <1>1, <2>1, <2>2 DEF ListTyped
<1>4. QED
  BY <1>2, <1>3

\* The list comes back.
LEMMA ListAnswerKeeps ==
    ASSUME HomeInv, ListAnswer
    PROVE  HomeInv'
<1>1. /\ chats' \in SUBSET made /\ listLoading' = FALSE
      /\ refreshes' \in [Refreshes -> ListCalls \cup {None}]
      /\ UNCHANGED <<deleting, renaming, rows>>
  BY ReloadListsMade DEF HomeInv, ListAnswer
<1>2. made \subseteq Chats /\ activeChat \in made \cup {None} /\ skip \in BOOLEAN
  BY DEF HomeInv, ListTyped, PageTyped
<1>3. Show(activeChat, chats', fresh, FALSE, FALSE)
  BY DEF ListAnswer
<1>4. /\ HookTyped' /\ StreamHeld' /\ activeChat' \in made \cup {None} /\ skip' \in BOOLEAN
      /\ \A e \in Sends : interval'[e] # None => interval[e] # None
  BY <1>1, <1>2, <1>3, ShowKeeps DEF HomeInv
<1>5. SendTyped'
  BY <1>4, SendsStay DEF HomeInv, ListAnswer, sendVars
<1>6. ListTyped' /\ MadeInOrder'
  BY <1>1 DEF HomeInv, ListTyped, ListCalls, MadeInOrder, ListAnswer
<1>7. PageTyped'
  BY <1>4 DEF HomeInv, PageTyped, ListAnswer, ingestVars, linkVars
<1>8. QED
  BY <1>4, <1>5, <1>6, <1>7 DEF HomeInv

\* The server answers a call of the list hook, or it fails and the list is
\* reloaded.
LEMMA ListCallKeeps ==
    ASSUME HomeInv, ListCall
    PROVE  HomeInv'
<1>1. HookTyped' /\ StreamHeld' /\ SendTyped' /\ PageTyped' /\ MadeInOrder'
  <2>1. HookTyped' /\ StreamHeld'
    BY HookStays DEF HomeInv, ListCall
  <2>2. SendTyped'
    BY SendsStay DEF HomeInv, ListCall, hookVars, stream, sendVars
  <2>3. PageTyped' /\ MadeInOrder'
    BY DEF HomeInv, PageTyped, MadeInOrder, ListCall, pageVars, ingestVars, linkVars
  <2>4. QED
    BY <2>1, <2>2, <2>3
<1>2. made' = made
  BY DEF ListCall
<1>3. ASSUME RefreshChats
      PROVE  refreshes' \in [Refreshes -> ListCalls \cup {None}] /\ listLoading' \in BOOLEAN
  <2>1. PICK i \in Refreshes : refreshes[i] = None
    BY <1>3 DEF RefreshChats
  <2>2. Sent \in ListCalls
    BY DEF Sent, ListCalls
  <2>3. QED
    BY <1>3, <2>1, <2>2 DEF RefreshChats, HomeInv, ListTyped
<1>4. CASE \E i \in Refreshes : AnswerRefresh(i)
  <2>1. PICK i \in Refreshes : AnswerRefresh(i)
    BY <1>4
  <2>2. refreshes[i] \in ListCalls /\ refreshes' = [refreshes EXCEPT ![i].reply = rows]
    BY <2>1 DEF AnswerRefresh, Unanswered, InFlight, HomeInv, ListTyped
  <2>3. [refreshes[i] EXCEPT !.reply = rows] \in ListCalls
    BY <2>2 DEF HomeInv, ListTyped, ListCalls
  <2>4. refreshes' \in [Refreshes -> ListCalls \cup {None}]
    BY <2>2, <2>3 DEF HomeInv, ListTyped
  <2>5. ListTyped'
    BY <1>2, <2>1, <2>4 DEF AnswerRefresh, HomeInv, ListTyped, ListCalls
  <2>6. QED
    BY <1>1, <2>5 DEF HomeInv
<1>5. CASE \E c \in Chats : DeleteAnswered(c) \/ RenameAnswered(c)
  <2>1. ListTyped'
    BY <1>2, <1>5 DEF DeleteAnswered, RenameAnswered, HomeInv, ListTyped, ListCalls
  <2>2. QED
    BY <1>1, <2>1 DEF HomeInv
<1>6. CASE \E c \in Chats : DeleteFails(c) \/ RenameFails(c)
  <2>1. RefreshChats /\ UNCHANGED chats /\ rows' \subseteq rows
    BY <1>6 DEF DeleteFails, RenameFails
  <2>2. deleting' \subseteq Chats /\ renaming' \subseteq Chats
    BY <1>6 DEF DeleteFails, RenameFails, HomeInv, ListTyped
  <2>3. ListTyped'
    BY <1>2, <1>3, <2>1, <2>2 DEF HomeInv, ListTyped, ListCalls
  <2>4. QED
    BY <1>1, <2>3 DEF HomeInv
<1>7. QED
  BY <1>4, <1>5, <1>6 DEF ListCall

-----------------------------------------------------------------------------
(* The input and the sends. *)

\* The text of the input changes.
LEMMA TypeKeeps ==
    ASSUME HomeInv, Type \/ Suggest
    PROVE  HomeInv'
<1>1. UNCHANGED <<hookVars, sendVars, listVars, server, activeChat, fresh, skip, pending, submitted,
                  ingestVars, linkVars>> /\ hasText' \in BOOLEAN
  BY DEF Type, Suggest
<1>2. HookTyped' /\ StreamHeld' /\ SendTyped' /\ ListTyped' /\ MadeInOrder'
  BY <1>1, HookStays, SendsStay, ListStays DEF HomeInv, hookVars, stream, sendVars, server
<1>3. PageTyped'
  BY <1>1 DEF HomeInv, PageTyped, server, ingestVars, linkVars
<1>4. QED
  BY <1>2, <1>3 DEF HomeInv

\* A send that only moves on to another stage keeps its chat.
LEMMA GotoKeeps ==
    ASSUME HookTyped, SendTyped, NEW e \in Sends, NEW s \in Stages, Goto(e, s),
           s \in {"created", "linking", "sent", "answered"} => target[e] \in made,
           UNCHANGED <<target, history, interval, made>>
    PROVE  SendTyped'
BY DEF SendTyped, Goto

\* handleSubmit once it has a chat.
LEMMA LinkThenSendKeeps ==
    ASSUME HookTyped, StreamHeld, SendTyped, waiting \in [Sends -> SUBSET Uploads],
           hasText \in BOOLEAN, made \subseteq Chats,
           NEW e \in Sends, NEW c \in made, NEW ids \in SUBSET Uploads,
           LinkThenSend(e, c, ids), UNCHANGED <<history, made>>
    PROVE  /\ HookTyped' /\ StreamHeld' /\ SendTyped'
           /\ waiting' \in [Sends -> SUBSET Uploads] /\ hasText' \in BOOLEAN
<1>1. waiting' \in [Sends -> SUBSET Uploads] /\ hasText' \in BOOLEAN
  BY DEF LinkThenSend
<1>2. CASE SendMessage(e, c)
  BY <1>1, <1>2, SendMessageKeeps
<1>3. CASE Goto(e, "linking") /\ target' = [target EXCEPT ![e] = c] /\ UNCHANGED hookVars
  <2>1. HookTyped' /\ StreamHeld' /\ interval' = interval
    BY <1>3, HookStays DEF hookVars, stream
  <2>2. SendTyped'
    BY <1>3, <2>1 DEF SendTyped, Goto, Stages, ChatOrNone
  <2>3. QED
    BY <1>1, <2>1, <2>2
<1>4. QED
  BY <1>2, <1>3 DEF LinkThenSend

\* The user submits a question.
LEMMA SubmitKeeps ==
    ASSUME HomeInv, NEW e \in Sends, Submit(e)
    PROVE  HomeInv'
<1>1. ListTyped' /\ MadeInOrder' /\ UNCHANGED <<history, made>>
  BY ListStays DEF HomeInv, Submit, server
<1>2. /\ activeChat \in made \cup {None} /\ pending \in SUBSET Uploads /\ hasText \in BOOLEAN
      /\ waiting \in [Sends -> SUBSET Uploads] /\ made \subseteq Chats
  BY DEF HomeInv, PageTyped, ListTyped
<1>3. /\ HookTyped' /\ StreamHeld' /\ SendTyped'
      /\ waiting' \in [Sends -> SUBSET Uploads] /\ hasText' \in BOOLEAN
  <2>1. CASE activeChat = None
    <3>1. /\ Goto(e, "creating") /\ waiting' = [waiting EXCEPT ![e] = pending]
          /\ UNCHANGED <<hookVars, hasText, target>>
      BY <2>1 DEF Submit
    <3>2. HookTyped' /\ StreamHeld' /\ interval' = interval
      BY <3>1, HookStays DEF HomeInv, hookVars, stream
    <3>3. SendTyped'
      BY <1>1, <3>1, <3>2, GotoKeeps DEF HomeInv, Stages
    <3>4. QED
      BY <1>2, <3>1, <3>2, <3>3
  <2>2. CASE activeChat # None
    <3>1. LinkThenSend(e, activeChat, pending)
      BY <2>2 DEF Submit
    <3>2. QED
      BY <1>1, <1>2, <2>2, <3>1, LinkThenSendKeeps DEF HomeInv
  <2>3. QED
    BY <2>1, <2>2
<1>4. PageTyped'
  BY <1>1, <1>3 DEF HomeInv, PageTyped, Submit, server, ingestVars
<1>5. QED
  BY <1>1, <1>3, <1>4 DEF HomeInv

\* A chat is made, the newest of them all.
LEMMA CreateChatKeeps ==
    ASSUME HomeInv, NEW e \in Sends, CreateChat(e)
    PROVE  HomeInv'
<1> PICK c \in Chats \ made :
        /\ \A d \in Chats : d < c => d \in made
        /\ rows' = rows \cup {c} /\ made' = made \cup {c}
        /\ target' = [target EXCEPT ![e] = c]
  BY DEF CreateChat
<1>1. \A d \in made : d < c
  <2> SUFFICES ASSUME NEW d \in made, ~(d < c)
               PROVE  FALSE
    OBVIOUS
  <2>1. c < d
    BY ChatListAssumption DEF HomeInv, ListTyped
  <2>2. c \in made
    BY <2>1 DEF HomeInv, MadeInOrder
  <2>3. QED
    BY <2>2
<1>2. MadeInOrder'
  <2>1. \A b \in made', d \in Chats : d < b => d \in made'
    BY DEF HomeInv, MadeInOrder
  <2>2. ASSUME NEW cs \in SUBSET made', cs # {}
        PROVE  \E b \in cs : \A d \in cs : d <= b
    <3>1. CASE c \in cs
      <4>1. \A d \in cs : d <= c
        BY <1>1, ChatListAssumption DEF HomeInv, ListTyped
      <4>2. QED
        BY <3>1, <4>1
    <3>2. CASE c \notin cs
      <4>1. cs \in SUBSET made
        BY <3>2
      <4>2. QED
        BY <2>2, <4>1 DEF HomeInv, MadeInOrder
    <3>3. QED
      BY <3>1, <3>2
  <2>3. QED
    BY <2>1, <2>2 DEF MadeInOrder
<1>3. HookTyped' /\ StreamHeld' /\ interval' = interval
  BY HookStays DEF HomeInv, CreateChat, hookVars, stream
<1>4. SendTyped'
  <2>1. stage' = [stage EXCEPT ![e] = "created"] /\ history' = history
    BY DEF CreateChat, Goto
  <2>2. QED
    BY <1>3, <2>1 DEF HomeInv, SendTyped, Stages, ChatOrNone
<1>5. ListTyped'
  BY DEF HomeInv, ListTyped, ListCalls, CreateChat, listVars
<1>6. PageTyped'
  BY DEF HomeInv, PageTyped, CreateChat, pageVars, ingestVars, linkVars
<1>7. QED
  BY <1>2, <1>3, <1>4, <1>5, <1>6 DEF HomeInv

\* A send that ends without its answer leaves everything else.
LEMMA SendEndsKeeps ==
    ASSUME HomeInv, NEW e \in Sends, CreateFails(e) \/ SendLost(e)
    PROVE  HomeInv'
<1>1. /\ Goto(e, "over")
      /\ UNCHANGED <<hookVars, target, listVars, server, pageVars, ingestVars, linkVars>>
  BY DEF CreateFails, SendLost, SendFails, server
<1>2. HookTyped' /\ StreamHeld' /\ ListTyped' /\ MadeInOrder' /\ interval' = interval
  BY <1>1, HookStays, ListStays DEF HomeInv, server, hookVars, stream
<1>3. SendTyped'
  BY <1>1, <1>2, GotoKeeps DEF HomeInv, Stages, server
<1>4. PageTyped'
  BY <1>1 DEF HomeInv, PageTyped, server, pageVars, ingestVars, linkVars
<1>5. QED
  BY <1>2, <1>3, <1>4 DEF HomeInv

\* handleSubmit goes on with the chat it made.
LEMMA ChatCreatedKeeps ==
    ASSUME HomeInv, NEW e \in Sends, ChatCreated(e)
    PROVE  HomeInv'
<1>1. target[e] \in made /\ waiting[e] \in SUBSET Uploads
  BY DEF HomeInv, SendTyped, PageTyped, ChatCreated
<1>2. UNCHANGED <<history, made, rows, listLoading, refreshes, deleting, renaming>>
  BY DEF ChatCreated, server
<1>3. /\ hasText \in BOOLEAN /\ waiting \in [Sends -> SUBSET Uploads] /\ made \subseteq Chats
  BY DEF HomeInv, PageTyped, ListTyped
<1>4. /\ HookTyped' /\ StreamHeld' /\ SendTyped'
      /\ waiting' \in [Sends -> SUBSET Uploads] /\ hasText' \in BOOLEAN
  <2>1. LinkThenSend(e, target[e], waiting[e])
    BY DEF ChatCreated
  <2>2. QED
    BY <1>1, <1>2, <1>3, <2>1, LinkThenSendKeeps DEF HomeInv
<1>5. ListTyped' /\ MadeInOrder'
  BY <1>1, <1>2 DEF HomeInv, ListTyped, ListCalls, MadeInOrder, ChatCreated, AddToList
<1>6. PageTyped'
  BY <1>1, <1>2, <1>4 DEF HomeInv, PageTyped, ChatCreated, server, ingestVars
<1>7. QED
  BY <1>4, <1>5, <1>6 DEF HomeInv

\* A source is linked, or is not.
LEMMA LinkSourceKeeps ==
    ASSUME HomeInv, NEW e \in Sends, NEW u \in Uploads, LinkSource(e, u)
    PROVE  HomeInv'
<1>1. HookTyped' /\ StreamHeld' /\ SendTyped' /\ ListTyped' /\ MadeInOrder'
  BY HookStays, SendsStay, ListStays DEF HomeInv, LinkSource, hookVars, stream, sendVars
<1>2. links' \subseteq Chats \X Uploads
  BY DEF HomeInv, LinkSource, SendTyped, ListTyped, PageTyped
<1>3. linkedIds' \in [Sends -> SUBSET Uploads] /\ waiting' \in [Sends -> SUBSET Uploads]
  BY DEF HomeInv, LinkSource, PageTyped
<1>4. PageTyped'
  BY <1>2, <1>3 DEF HomeInv, PageTyped, LinkSource, pageVars, ingestVars
<1>5. QED
  BY <1>1, <1>4 DEF HomeInv

\* The question follows its sources,
LEMMA LinksSettledKeeps ==
    ASSUME HomeInv, NEW e \in Sends, LinksSettled(e)
    PROVE  HomeInv'
<1>1. target[e] \in made /\ made \subseteq Chats
  BY DEF HomeInv, SendTyped, ListTyped, LinksSettled
<1>2. HookTyped' /\ StreamHeld' /\ SendTyped'
  BY <1>1, SendMessageKeeps DEF HomeInv, LinksSettled, server
<1>3. ListTyped' /\ MadeInOrder'
  BY ListStays DEF HomeInv, LinksSettled, server
<1>4. PageTyped'
  BY DEF HomeInv, PageTyped, LinksSettled, Unstaged, server, ingestVars, linkVars
<1>5. QED
  BY <1>2, <1>3, <1>4 DEF HomeInv

\* or is asked again.
LEMMA RegenerateKeeps ==
    ASSUME HomeInv, NEW e \in Sends, Regenerate(e)
    PROVE  HomeInv'
<1>1. activeChat \in made /\ made \subseteq Chats
  BY DEF HomeInv, PageTyped, ListTyped, Regenerate
<1>2. HookTyped' /\ StreamHeld' /\ SendTyped'
  BY <1>1, SendMessageKeeps DEF HomeInv, Regenerate, server
<1>3. ListTyped' /\ MadeInOrder' /\ PageTyped'
  BY ListStays DEF HomeInv, PageTyped, Regenerate, server, pageVars, ingestVars, linkVars
<1>4. QED
  BY <1>2, <1>3 DEF HomeInv

\* The stop button.
LEMMA StopKeeps ==
    ASSUME HomeInv, Stop
    PROVE  HomeInv'
<1>1. StopStreaming /\ ResetStream
  BY DEF Stop, StopStreaming
<1>2. HookTyped' /\ StreamHeld'
  BY <1>1, StopStreamingKeeps, ResetStreamKeeps DEF HomeInv, HookTyped, Stop
<1>3. SendTyped'
  BY <1>1, ResetStreamKeeps, SendsStay DEF HomeInv, Stop, sendVars, server
<1>4. ListTyped' /\ MadeInOrder' /\ PageTyped'
  BY ListStays DEF HomeInv, PageTyped, Stop, server, pageVars, ingestVars, linkVars
<1>5. QED
  BY <1>2, <1>3, <1>4 DEF HomeInv

-----------------------------------------------------------------------------
(* Answers and timers. *)

\* A turn is appended, and perhaps animated.
LEMMA ReceiveAnswerKeeps ==
    ASSUME HomeInv, NEW e \in Sends, ReceiveAnswer(e), UNCHANGED made
    PROVE  HookTyped' /\ StreamHeld' /\ SendTyped'
<1>1. Words[e] \in Nat /\ e # None /\ target[e] \in made
  BY MessageHookAssumption DEF HomeInv, SendTyped, ReceiveAnswer
<1>2. shown' \in Seq(Turns)
  <2> DEFINE t == Turn(e, 0, Words[e] > 0)
  <2>1. t \in Turns
    <3>1. (Words[e] > 0) \in BOOLEAN
      OBVIOUS
    <3>2. QED
      BY <3>1, TurnTyped
  <2>2. shown' = Append(shown, t)
    BY DEF ReceiveAnswer
  <2> HIDE DEF t
  <2>3. QED
    BY <2>1, <2>2, AppendProperties DEF HomeInv, HookTyped
<1>3. /\ stage' = [stage EXCEPT ![e] = "over"]
      /\ UNCHANGED <<loadingHistory, loads, target, history>>
  BY DEF ReceiveAnswer, Goto
<1>4. CASE Words[e] = 0
  <2>1. sending' = FALSE /\ UNCHANGED stream
    BY <1>4 DEF ReceiveAnswer
  <2>2. HookTyped' /\ StreamHeld'
    BY <1>2, <1>3, <2>1 DEF HomeInv, HookTyped, StreamHeld, stream
  <2>3. SendTyped'
    BY <1>3, <2>1 DEF HomeInv, SendTyped, Stages, stream
  <2>4. QED
    BY <2>2, <2>3
<1>5. CASE Words[e] # 0
  <2>1. /\ streaming' = TRUE /\ streamRef' = e /\ timerRef' = e
        /\ interval' = [interval EXCEPT ![e] = 0] /\ sending' = sending
    BY <1>5 DEF ReceiveAnswer
  <2>2. interval' \in [Sends -> Nat \cup {None}] /\ interval'[e] # None
    BY <2>1, MessageHookAssumption DEF HomeInv, HookTyped
  <2>3. HookTyped' /\ StreamHeld'
    BY <1>1, <1>2, <1>3, <2>1, <2>2 DEF HomeInv, HookTyped, StreamHeld
  <2>4. SendTyped'
    BY <1>1, <1>3, <2>1 DEF HomeInv, SendTyped, HookTyped, Stages
  <2>5. QED
    BY <2>3, <2>4
<1>6. QED
  BY <1>4, <1>5

\* The answer to a send.
LEMMA SendAnswerKeeps ==
    ASSUME HomeInv, NEW e \in Sends, SendAnswer(e)
    PROVE  HomeInv'
<1>1. ReceiveAnswer(e) /\ UNCHANGED <<chats, listLoading, refreshes, deleting, rows, made, links>>
  BY DEF SendAnswer
<1>2. target[e] \in Chats
  BY DEF HomeInv, SendTyped, ListTyped, SendAnswer, ReceiveAnswer
<1>3. HookTyped' /\ StreamHeld' /\ SendTyped'
  BY <1>1, ReceiveAnswerKeeps
<1>4. renaming' \subseteq Chats
  BY <1>2 DEF HomeInv, ListTyped, SendAnswer, RenameInList
<1>5. ListTyped' /\ MadeInOrder'
  BY <1>1, <1>4 DEF HomeInv, ListTyped, ListCalls, MadeInOrder
<1>6. PageTyped'
  BY <1>1 DEF HomeInv, PageTyped, SendAnswer, pageVars, ingestVars, linkVars
<1>7. QED
  BY <1>3, <1>5, <1>6 DEF HomeInv

\* The server stores the turn.
LEMMA ServerSendKeeps ==
    ASSUME HomeInv, NEW e \in Sends, ServerSend(e)
    PROVE  HomeInv'
<1>1. /\ Goto(e, "answered") /\ UNCHANGED <<hookVars, target>> /\ target[e] \in made
      /\ history' = [history EXCEPT ![target[e]] = Append(@, e)]
  BY DEF HomeInv, SendTyped, ServerSend, AnswerSend
<1>2. HookTyped' /\ StreamHeld' /\ interval' = interval
  BY <1>1, HookStays DEF HomeInv, hookVars, stream
<1>3. ListTyped' /\ MadeInOrder' /\ made' = made
  BY ListStays DEF HomeInv, ServerSend
<1>4. history' \in [Chats -> Seq(Sends)]
  <2>1. history \in [Chats -> Seq(Sends)] /\ target[e] \in Chats
    BY <1>1 DEF HomeInv, SendTyped, ListTyped
  <2>2. history[target[e]] \in Seq(Sends)
    BY <2>1
  <2>3. Append(history[target[e]], e) \in Seq(Sends)
    BY <2>2, AppendProperties
  <2>4. QED
    BY <1>1, <2>1, <2>3
<1>5. SendTyped'
  BY <1>1, <1>2, <1>3, <1>4 DEF HomeInv, SendTyped, Goto, Stages
<1>6. PageTyped'
  BY <1>3 DEF HomeInv, PageTyped, ServerSend, pageVars, ingestVars, linkVars
<1>7. QED
  BY <1>2, <1>3, <1>5, <1>6 DEF HomeInv

\* The server answers with a history,
LEMMA ServerHistoryKeeps ==
    ASSUME HomeInv, NEW i \in Slots \cup Sends, ServerHistory(i)
    PROVE  HomeInv'
<1>1. /\ loads[i] \in LoadCall /\ loads' = [loads EXCEPT ![i].reply = history[loads[i].chat]]
      /\ UNCHANGED <<shown, loadingHistory, sending, stream, sendVars, history>>
  BY DEF HomeInv, HookTyped, ServerHistory, AnswerHistory, Unanswered, InFlight
<1>2. loads[i].chat \in Chats
  BY <1>1 DEF LoadCall
<1>3. [loads[i] EXCEPT !.reply = history[loads[i].chat]] \in LoadCall
  BY <1>1, <1>2 DEF LoadCall, HomeInv, SendTyped
<1>4. HookTyped' /\ StreamHeld'
  BY <1>1, <1>3 DEF HomeInv, HookTyped, StreamHeld, stream
<1>5. SendTyped' /\ ListTyped' /\ MadeInOrder'
  BY <1>1, SendsStay, ListStays DEF HomeInv, ServerHistory, stream, sendVars
<1>6. PageTyped'
  BY DEF HomeInv, PageTyped, ServerHistory, pageVars, ingestVars, linkVars
<1>7. QED
  BY <1>4, <1>5, <1>6 DEF HomeInv

\* which the page shows.
LEMMA HistoryAnswerKeeps ==
    ASSUME HomeInv, NEW i \in Slots \cup Sends, HistoryAnswer(i)
    PROVE  HomeInv'
<1>1. EndLoad(i)
  BY DEF HistoryAnswer, ReceiveHistory, HistoryFails
<1>2. shown' \in Seq(Turns)
  <2>1. CASE HistoryFails(i)
    BY <2>1 DEF HistoryFails, HomeInv, HookTyped
  <2>2. CASE ReceiveHistory(i)
    <3>1. loads[i] \in LoadCall /\ loads[i].reply # None /\ shown' = Complete(loads[i].reply)
      BY <2>2 DEF ReceiveHistory, Answered, InFlight, HomeInv, HookTyped
    <3>2. loads[i].reply \in Seq(Sends)
      BY <3>1 DEF LoadCall
    <3>3. QED
      BY <3>1, <3>2, CompleteTyped
  <2>3. QED
    BY <2>1, <2>2 DEF HistoryAnswer
<1>3. HookTyped' /\ StreamHeld'
  BY <1>1, <1>2 DEF EndLoad, stream, HomeInv, HookTyped, StreamHeld
<1>4. SendTyped' /\ ListTyped' /\ MadeInOrder'
  BY <1>1, SendsStay, ListStays DEF HomeInv, HistoryAnswer, EndLoad, stream, sendVars
<1>5. PageTyped'
  BY DEF HomeInv, PageTyped, HistoryAnswer, pageVars, ingestVars, linkVars
<1>6. QED
  BY <1>3, <1>4, <1>5 DEF HomeInv

\* A word appears,
LEMMA ShowWordKeeps ==
    ASSUME HookTyped, StreamHeld, NEW e \in Sends, ShowWord(e)
    PROVE  /\ HookTyped' /\ StreamHeld'
           /\ \A d \in Sends : interval'[d] # None => interval[d] # None
<1>1. /\ interval[e] \in Nat /\ interval[e] + 1 \in Nat
      /\ interval' = [interval EXCEPT ![e] = interval[e] + 1]
      /\ shown' = WithTurn(shown, e, interval[e] + 1, TRUE)
      /\ UNCHANGED <<loadingHistory, sending, streaming, timerRef, streamRef, loads>>
  BY DEF HookTyped, ShowWord, NextWord
<1>2. shown' \in Seq(Turns)
  BY <1>1, WithTurnTyped DEF HookTyped
<1>3. interval[e] + 1 # None
  BY <1>1, MessageHookAssumption
<1>4. HookTyped'
  BY <1>1, <1>2 DEF HookTyped
<1>5. ASSUME NEW d \in Sends
      PROVE  interval'[d] # None <=> interval[d] # None
  <2>1. CASE d = e
    BY <1>1, <1>3, <2>1, MessageHookAssumption DEF HookTyped
  <2>2. CASE d # e
    BY <1>1, <2>2 DEF HookTyped
  <2>3. QED
    BY <2>1, <2>2
<1>6. StreamHeld'
  BY <1>1, <1>5 DEF HookTyped, StreamHeld
<1>7. QED
  BY <1>4, <1>5, <1>6

\* or the last one has, and the chat is loaded again.
LEMMA FinishStreamKeeps ==
    ASSUME HookTyped, SendTyped, made \subseteq Chats, NEW e \in Sends, FinishStream(e)
    PROVE  /\ HookTyped' /\ StreamHeld'
           /\ \A d \in Sends : interval'[d] # None => interval[d] # None
<1>1. Words[e] \in Nat /\ interval[e] # None /\ target[e] \in Chats
  BY MessageHookAssumption DEF FinishStream, SendTyped
<1>2. /\ interval' \in [Sends -> Nat \cup {None}]
      /\ \A d \in Sends : interval'[d] # None => interval[d] # None
  <2> DEFINE counted == [interval EXCEPT ![e] = Words[e]]
  <2>1. /\ counted \in [Sends -> Nat \cup {None}]
        /\ \A d \in Sends : counted[d] # None => interval[d] # None
    BY <1>1 DEF HookTyped
  <2>2. interval' = IF timerRef = None THEN counted ELSE [counted EXCEPT ![timerRef] = None]
    BY DEF FinishStream
  <2> HIDE DEF counted
  <2>3. QED
    BY <2>1, <2>2
<1>3. streaming' = FALSE /\ timerRef' = None /\ streamRef' = None
  BY DEF FinishStream, NotStreaming
<1>4. shown' \in Seq(Turns)
  BY WithTurnTyped DEF FinishStream, HookTyped
<1>5. Load(target[e]) \in LoadCall
  BY <1>1 DEF Load, LoadCall
<1>6. /\ loads' = [loads EXCEPT ![e] = Load(target[e])] /\ loadingHistory' = TRUE
      /\ sending' = sending
  BY DEF FinishStream, SyncWithServer
<1>7. HookTyped' /\ StreamHeld'
  BY <1>2, <1>3, <1>4, <1>5, <1>6 DEF HookTyped, StreamHeld
<1>8. QED
  BY <1>2, <1>7

LEMMA TimerTickKeeps ==
    ASSUME HomeInv, NEW e \in Sends, TimerTick(e)
    PROVE  HomeInv'
<1>1. /\ HookTyped' /\ StreamHeld'
      /\ \A d \in Sends : interval'[d] # None => interval[d] # None
  BY ShowWordKeeps, FinishStreamKeeps DEF HomeInv, ListTyped, TimerTick
<1>2. UNCHANGED <<sendVars, history>>
  BY DEF TimerTick, ShowWord, FinishStream
<1>3. SendTyped' /\ ListTyped' /\ MadeInOrder'
  BY <1>1, <1>2, SendsStay, ListStays DEF HomeInv, TimerTick, sendVars
<1>4. PageTyped'
  BY DEF HomeInv, PageTyped, TimerTick, pageVars, ingestVars, linkVars
<1>5. QED
  BY <1>1, <1>3, <1>4 DEF HomeInv

-----------------------------------------------------------------------------
(* The sources, and every step. *)

LEMMA IngestKeeps ==
    ASSUME HomeInv, NEW u \in Uploads, StartIngest(u) \/ SourceIngested(u) \/ IngestFails(u)
    PROVE  HomeInv'
<1>1. UNCHANGED <<hookVars, sendVars, listVars, history, rows, made, activeChat, fresh, skip,
                  hasText, submitted, linkVars>>
  BY DEF StartIngest, SourceIngested, IngestFails, server, pageVars
<1>2. HookTyped' /\ StreamHeld' /\ SendTyped' /\ ListTyped' /\ MadeInOrder'
  BY <1>1, HookStays, SendsStay, ListStays DEF HomeInv, hookVars, stream, sendVars
<1>3. activeChat \in ChatOrNone /\ ingestChat \in [Uploads -> ChatOrNone]
  BY DEF HomeInv, PageTyped, ListTyped, ChatOrNone
<1>4. /\ ingest' \in [Uploads -> {"idle", "running", "over", "failed"}]
      /\ ingestChat' \in [Uploads -> ChatOrNone]
  BY <1>3 DEF HomeInv, PageTyped, StartIngest, SourceIngested, IngestFails
<1>5. pending' \subseteq Uploads /\ links' \subseteq Chats \X Uploads
  <2>1. CASE SourceIngested(u)
    BY <2>1, <1>3 DEF HomeInv, PageTyped, SourceIngested, ChatOrNone
  <2>2. CASE StartIngest(u) \/ IngestFails(u)
    BY <2>2 DEF HomeInv, PageTyped, StartIngest, IngestFails, server, pageVars
  <2>3. QED
    BY <2>1, <2>2
<1>6. PageTyped'
  BY <1>1, <1>4, <1>5 DEF HomeInv, PageTyped, linkVars
<1>7. QED
  BY <1>2, <1>6 DEF HomeInv

LEMMA HomeStarts == Init => HomeInv
<1> SUFFICES ASSUME Init PROVE HomeInv
  OBVIOUS
<1>1. HookTyped /\ StreamHeld
  <2>1. shown \in Seq(Turns)
    BY DEF Init, HookInit
  <2>2. HookTyped
    BY <2>1 DEF Init, HookInit, HookTyped
  <2>3. StreamHeld
    BY DEF Init, HookInit, StreamHeld
  <2>4. QED
    BY <2>2, <2>3
<1>2. SendTyped
  BY DEF Init, HookInit, SendTyped, Stages, ChatOrNone
<1>3. made \subseteq Chats /\ rows = made /\ chats = {}
  BY DEF Init, ListInit
<1>4. ListTyped
  <2>1. refreshes \in [Refreshes -> ListCalls \cup {None}]
    BY DEF Init, ListInit, Sent, ListCalls
  <2>2. QED
    BY <1>3, <2>1 DEF Init, ListInit, ListTyped
<1>5. PageTyped
  BY DEF Init, PageTyped, ChatOrNone
<1>6. MadeInOrder
  <2>1. \A c \in made, d \in Chats : c <= d
    BY DEF Init
  <2>2. \A c \in made, d \in Chats : ~(d < c)
    BY <1>3, <2>1, ChatListAssumption
  <2>3. ASSUME NEW cs \in SUBSET made, cs # {}
        PROVE  \E c \in cs : \A d \in cs : d <= c
    <3>1. PICK c \in cs : TRUE
      BY <2>3
    <3>2. \A d \in cs : d <= c
      BY <1>3, <2>1, <3>1
    <3>3. QED
      BY <3>1, <3>2
  <2>4. QED
    BY <2>2, <2>3 DEF MadeInOrder
<1>7. QED
  BY <1>1, <1>2, <1>4, <1>5, <1>6 DEF HomeInv

LEMMA HomeStep == HomeInv /\ [Next]_vars => HomeInv'
<1> SUFFICES ASSUME HomeInv, [Next]_vars PROVE HomeInv'
  OBVIOUS
<1>1. CASE UNCHANGED vars
  <2>1. /\ UNCHANGED <<hookVars, sendVars, listVars, server, pageVars, ingestVars, linkVars>>
    BY <1>1 DEF vars
  <2>2. HookTyped' /\ StreamHeld' /\ SendTyped' /\ ListTyped' /\ MadeInOrder'
    BY <2>1, HookStays, SendsStay, ListStays DEF HomeInv, server, hookVars, stream, sendVars
  <2>3. PageTyped'
    BY <2>1 DEF HomeInv, PageTyped, server, pageVars, ingestVars, linkVars
  <2>4. QED
    BY <2>2, <2>3 DEF HomeInv
<1>2. CASE Sidebar
  BY <1>2, NewChatKeeps, SelectChatKeeps, DeleteChatKeeps, RenameChatKeeps DEF Sidebar
<1>3. CASE Input
  BY <1>3, TypeKeeps, StopKeeps, SubmitKeeps, RegenerateKeeps DEF Input
<1>4. CASE ListAnswer \/ ListCall
  BY <1>4, ListAnswerKeeps, ListCallKeeps
<1>5. CASE Ingest
  BY <1>5, IngestKeeps DEF Ingest
<1>6. CASE \E e \in Sends : SendStep(e)
  BY <1>6, CreateChatKeeps, SendEndsKeeps, ChatCreatedKeeps, LinkSourceKeeps, LinksSettledKeeps,
     ServerSendKeeps, SendAnswerKeeps DEF SendStep
<1>7. CASE \E e \in Sends : TimerTick(e)
  BY <1>7, TimerTickKeeps
<1>8. CASE \E i \in Slots \cup Sends : LoadStep(i)
  BY <1>8, ServerHistoryKeeps, HistoryAnswerKeeps DEF LoadStep
<1>9. QED
  BY <1>1, <1>2, <1>3, <1>4, <1>5, <1>6, <1>7, <1>8 DEF Next, Step

\* The page is in HomeInv whatever the user, the network and the timers do.
THEOREM HomeInvHolds == Spec => []HomeInv
BY HomeStarts, HomeStep, PTL DEF Spec

\* The plan of a behaviour stays one of Plans, and the ghosts stay truth values.
LEMMA PlanKept == Spec => [](plan \in Plans /\ overlapped \in BOOLEAN /\ moved \in BOOLEAN)
<1> DEFINE PlanTyped == plan \in Plans /\ overlapped \in BOOLEAN /\ moved \in BOOLEAN
<1>1. Init => PlanTyped
  BY DEF Init
<1>2. PlanTyped /\ [Next]_vars => PlanTyped'
  <2> SUFFICES ASSUME PlanTyped, [Next]_vars PROVE PlanTyped'
    OBVIOUS
  <2>1. CASE UNCHANGED vars
    BY <2>1 DEF vars, ghosts
  <2>2. CASE Observe
    BY <2>2 DEF Observe
  <2>3. QED
    BY <2>1, <2>2 DEF Next
<1>3. QED
  BY <1>1, <1>2, PTL DEF Spec

\* TypeOK: ids of chats, sends and sources stay what they are.
THEOREM HomePageTypeCorrect == Spec => []TypeOK
<1>1. HomeInv /\ plan \in Plans /\ overlapped \in BOOLEAN /\ moved \in BOOLEAN => TypeOK
  <2> SUFFICES ASSUME HomeInv, plan \in Plans, overlapped \in BOOLEAN, moved \in BOOLEAN
               PROVE  TypeOK
    OBVIOUS
  <2>1. refreshes \in [Refreshes -> [reply : (SUBSET Chats) \cup {None}] \cup {None}]
    <3>1. ListCalls \subseteq [reply : (SUBSET Chats) \cup {None}]
      BY DEF ListCalls, HomeInv, ListTyped
    <3>2. QED
      BY <3>1 DEF HomeInv, ListTyped
  <2>2. QED
    BY <2>1 DEF TypeOK, HomeInv, HookTyped, SendTyped, ListTyped, PageTyped, ChatOrNone
<1>2. QED
  BY <1>1, HomeInvHolds, PlanKept, PTL

-----------------------------------------------------------------------------
(* The staged sources. *)

\* What a submit took for linked is linked: setPendingSourceIds drops no other
\* source.
LinkedAreLinks == \A e \in Sends : \A u \in linkedIds[e] : \E c \in Chats : <<c, u>> \in links

\* Which steps touch what is staged or linked.
LEMMA StagingSteps ==
    ASSUME [Next]_vars
    PROVE  \/ UNCHANGED <<pending, ingest, ingestChat, linkedIds, links>>
           \/ \E e \in Sends, u \in Uploads : LinkSource(e, u)
           \/ \E e \in Sends : LinksSettled(e)
           \/ Ingest
<1> DEFINE Still == UNCHANGED <<pending, ingest, ingestChat, linkedIds, links>>
<1>1. CASE UNCHANGED vars
  BY <1>1 DEF vars, pageVars, ingestVars, linkVars, server
<1>2. Sidebar => Still
  BY DEF Sidebar, NewChat, SelectChat, DeleteChat, RenameChat, pageVars, ingestVars, linkVars, server
<1>3. Input => Still
  <2>1. Type \/ Suggest \/ Stop => Still
    BY DEF Type, Suggest, Stop, pageVars, ingestVars, linkVars, server
  <2>2. ASSUME NEW e \in Sends PROVE Submit(e) \/ Regenerate(e) => Still
    BY DEF Submit, Regenerate, pageVars, ingestVars, linkVars, server
  <2>3. QED
    BY <2>1, <2>2 DEF Input
<1>4. ListAnswer \/ ListCall => Still
  BY DEF ListAnswer, ListCall, pageVars, ingestVars, linkVars
<1>5. ASSUME NEW e \in Sends,
             \/ CreateChat(e) \/ CreateFails(e) \/ ChatCreated(e)
             \/ ServerSend(e) \/ SendAnswer(e) \/ SendLost(e)
      PROVE  Still
  BY <1>5 DEF CreateChat, CreateFails, ChatCreated, ServerSend, SendAnswer, SendLost,
              pageVars, ingestVars, linkVars, server
<1>6. ASSUME NEW e \in Sends PROVE TimerTick(e) => Still
  BY DEF TimerTick, pageVars, ingestVars, linkVars
<1>7. ASSUME NEW i \in Slots \cup Sends PROVE LoadStep(i) => Still
  BY DEF LoadStep, ServerHistory, HistoryAnswer, pageVars, ingestVars, linkVars
<1> HIDE DEF Still
<1>8. ASSUME NEW e \in Sends, SendStep(e)
      PROVE  Still \/ (\E u \in Uploads : LinkSource(e, u)) \/ LinksSettled(e)
  BY <1>5, <1>8 DEF SendStep
<1>9. CASE \E e \in Sends : SendStep(e) \/ TimerTick(e)
  BY <1>6, <1>8, <1>9 DEF Still
<1>10. CASE Sidebar \/ Input \/ ListAnswer \/ ListCall \/ Ingest
  BY <1>2, <1>3, <1>4, <1>10 DEF Still
<1>11. CASE \E i \in Slots \cup Sends : LoadStep(i)
  BY <1>7, <1>11 DEF Still
<1>12. QED
  BY <1>1, <1>9, <1>10, <1>11 DEF Next, Step

\* No link ever goes away, and a source leaves the staged ones for a link.
LEMMA StagedStep == HomeInv /\ LinkedAreLinks /\ StagedNeverLost /\ [Next]_vars
                        => LinkedAreLinks' /\ StagedNeverLost'
<1> SUFFICES ASSUME HomeInv, LinkedAreLinks, StagedNeverLost, [Next]_vars
             PROVE  LinkedAreLinks' /\ StagedNeverLost'
  OBVIOUS
<1>1. CASE UNCHANGED <<pending, ingest, ingestChat, linkedIds, links>>
  BY <1>1 DEF LinkedAreLinks, StagedNeverLost
<1>2. ASSUME NEW e \in Sends, NEW u \in Uploads, LinkSource(e, u)
      PROVE  LinkedAreLinks' /\ StagedNeverLost'
  <2>1. links \subseteq links' /\ UNCHANGED <<pending, ingest, ingestChat>>
    BY <1>2 DEF LinkSource, pageVars, ingestVars
  <2>2. StagedNeverLost'
    BY <2>1 DEF StagedNeverLost
  <2>3. CASE UNCHANGED linkedIds
    BY <2>1, <2>2, <2>3 DEF LinkedAreLinks
  <2>4. CASE /\ target[e] \in rows /\ links' = links \cup {<<target[e], u>>}
             /\ linkedIds' = [linkedIds EXCEPT ![e] = @ \cup {u}]
    <3>1. target[e] \in Chats /\ <<target[e], u>> \in links'
      BY <2>4 DEF HomeInv, ListTyped
    <3>2. \A d \in Sends : \A v \in linkedIds'[d] : v \in linkedIds[d] \/ v = u
      BY <2>4 DEF HomeInv, PageTyped
    <3>3. LinkedAreLinks'
      BY <2>1, <3>1, <3>2 DEF LinkedAreLinks
    <3>4. QED
      BY <2>2, <3>3
  <2>5. QED
    BY <1>2, <2>3, <2>4 DEF LinkSource
<1>3. ASSUME NEW e \in Sends, LinksSettled(e)
      PROVE  LinkedAreLinks' /\ StagedNeverLost'
  <2>1. pending' = pending \ linkedIds[e] /\ UNCHANGED <<ingest, ingestChat, linkedIds, links>>
    BY <1>3 DEF LinksSettled, Unstaged, server, ingestVars, linkVars
  <2>2. QED
    BY <2>1 DEF LinkedAreLinks, StagedNeverLost
<1>4. ASSUME NEW u \in Uploads, StartIngest(u) \/ SourceIngested(u) \/ IngestFails(u)
      PROVE  LinkedAreLinks' /\ StagedNeverLost'
  <2>1. links \subseteq links' /\ pending \subseteq pending' /\ linkedIds' = linkedIds
    BY <1>4 DEF StartIngest, SourceIngested, IngestFails, server, pageVars, linkVars
  <2>2. LinkedAreLinks'
    BY <2>1 DEF LinkedAreLinks
  <2>3. ASSUME NEW v \in Uploads, ingest'[v] = "over", ingestChat'[v] = None
        PROVE  \/ ingest[v] = "over" /\ ingestChat[v] = None
               \/ v \in pending'
    <3>1. CASE v = u
      BY <1>4, <2>3, <3>1 DEF HomeInv, PageTyped, StartIngest, SourceIngested, IngestFails
    <3>2. CASE v # u
      BY <1>4, <2>3, <3>2 DEF HomeInv, PageTyped, StartIngest, SourceIngested, IngestFails
    <3>3. QED
      BY <3>1, <3>2
  <2>4. StagedNeverLost'
    BY <2>1, <2>3 DEF StagedNeverLost
  <2>5. QED
    BY <2>2, <2>4
<1>5. QED
  BY <1>1, <1>2, <1>3, <1>4, StagingSteps DEF Ingest

\* StagedNeverLost: a source that was ingested before there was a chat waits
\* until a chat has it, whatever fails, gets lost or overlaps meanwhile.
THEOREM StagedNeverLostHolds == Spec => []StagedNeverLost
<1>1. Init => LinkedAreLinks /\ StagedNeverLost
  BY DEF Init, LinkedAreLinks, StagedNeverLost
<1>2. QED
  BY <1>1, StagedStep, HomeInvHolds, PTL DEF Spec

-----------------------------------------------------------------------------
(* The active chat. *)

\* Which steps move the page or change its list.
LEMMA ActiveSteps ==
    ASSUME [Next]_vars
    PROVE  \/ UNCHANGED <<activeChat, chats>> /\ (listLoading' = TRUE \/ UNCHANGED listLoading)
           \/ NewChat \/ ListAnswer
           \/ \E c \in Chats : SelectChat(c) \/ DeleteChat(c)
           \/ \E e \in Sends : ChatCreated(e)
<1> DEFINE Still == UNCHANGED <<activeChat, chats>> /\ (listLoading' = TRUE \/ UNCHANGED listLoading)
<1>1. CASE UNCHANGED vars
  BY <1>1 DEF vars, pageVars, listVars
<1>2. ASSUME NEW c \in Chats PROVE RenameChat(c) => Still
  BY DEF RenameChat, pageVars
<1>3. Input => Still
  <2>1. Type \/ Suggest \/ Stop => Still
    BY DEF Type, Suggest, Stop, pageVars, listVars
  <2>2. ASSUME NEW e \in Sends PROVE Submit(e) \/ Regenerate(e) => Still
    BY DEF Submit, Regenerate, pageVars, listVars
  <2>3. QED
    BY <2>1, <2>2 DEF Input
<1>4. ListCall => Still
  BY DEF ListCall, pageVars, AnswerRefresh, DeleteAnswered, RenameAnswered, DeleteFails,
         RenameFails, RefreshChats
<1>5. ASSUME NEW e \in Sends,
             \/ CreateChat(e) \/ CreateFails(e) \/ LinksSettled(e)
             \/ ServerSend(e) \/ SendAnswer(e) \/ SendLost(e)
      PROVE  Still
  BY <1>5 DEF CreateChat, CreateFails, LinksSettled, ServerSend, SendAnswer, SendLost, pageVars,
              listVars, server
<1>6. ASSUME NEW e \in Sends, NEW u \in Uploads PROVE LinkSource(e, u) => Still
  BY DEF LinkSource, pageVars, listVars
<1>7. ASSUME NEW e \in Sends PROVE TimerTick(e) => Still
  BY DEF TimerTick, pageVars, listVars
<1>8. ASSUME NEW i \in Slots \cup Sends PROVE LoadStep(i) => Still
  BY DEF LoadStep, ServerHistory, HistoryAnswer, pageVars, listVars
<1>9. Ingest => Still
  BY DEF Ingest, StartIngest, SourceIngested, IngestFails, pageVars, listVars
<1> HIDE DEF Still
<1>10. ASSUME NEW e \in Sends, SendStep(e)
       PROVE  Still \/ ChatCreated(e)
  BY <1>5, <1>6, <1>10 DEF SendStep
<1>11. CASE \E e \in Sends : SendStep(e) \/ TimerTick(e)
  BY <1>7, <1>10, <1>11 DEF Still
<1>12. CASE Sidebar
  BY <1>2, <1>12 DEF Sidebar, Still
<1>13. CASE Input \/ ListAnswer \/ ListCall \/ Ingest
  BY <1>3, <1>4, <1>9, <1>13 DEF Still
<1>14. CASE \E i \in Slots \cup Sends : LoadStep(i)
  BY <1>8, <1>14 DEF Still
<1>15. QED
  BY <1>1, <1>11, <1>12, <1>13, <1>14 DEF Next, Step

\* What the effects make of the active chat when the user moves or the list
\* changes.
LEMMA ShowPicksListed ==
    ASSUME HomeInv,
           \/ NewChat \/ ListAnswer
           \/ \E c \in Chats : SelectChat(c) \/ DeleteChat(c)
    PROVE  /\ ~listLoading' => activeChat' \in chats' \cup {None}
           /\ listLoading' => listLoading
<1>1. made \subseteq Chats /\ chats \in SUBSET made /\ activeChat \in made \cup {None} /\ MadeInOrder
      /\ listLoading \in BOOLEAN
  BY DEF HomeInv, ListTyped, PageTyped
<1>2. CASE NewChat
  <2>1. activeChat' = AfterEffects(None, chats, TRUE, listLoading) /\ UNCHANGED <<chats, listLoading>>
    BY <1>2 DEF NewChat, Show, listVars
  <2>2. ~listLoading => activeChat' \in chats \cup {None}
    BY <1>1, <2>1, EffectsPickListed
  <2>3. QED
    BY <2>1, <2>2
<1>3. CASE ListAnswer
  <2>1. activeChat' = AfterEffects(activeChat, chats', fresh, FALSE) /\ chats' \in SUBSET made
        /\ listLoading' = FALSE
    BY <1>3, ReloadListsMade DEF HomeInv, ListAnswer, Show
  <2>2. activeChat' \in chats' \cup {None}
    BY <1>1, <2>1, EffectsPickListed
  <2>3. QED
    BY <2>1, <2>2
<1>4. ASSUME NEW c \in Chats, SelectChat(c)
      PROVE  /\ ~listLoading' => activeChat' \in chats' \cup {None}
             /\ UNCHANGED listLoading
  <2>1. /\ activeChat' = AfterEffects(c, chats, FALSE, listLoading) /\ UNCHANGED <<chats, listLoading>>
        /\ c \in made
    BY <1>1, <1>4 DEF SelectChat, Listed, Show, listVars
  <2>2. QED
    BY <1>1, <2>1, EffectsPickListed
<1>5. ASSUME NEW c \in Chats, DeleteChat(c)
      PROVE  /\ ~listLoading' => activeChat' \in chats' \cup {None}
             /\ UNCHANGED listLoading
  <2> DEFINE a == IF activeChat = c THEN None ELSE activeChat
  <2>1. /\ activeChat' = AfterEffects(a, chats', fresh, listLoading) /\ chats' \in SUBSET made
        /\ UNCHANGED listLoading
    BY <1>1, <1>5 DEF DeleteChat, RemoveFromList, Show
  <2>2. a \in made \cup {None} /\ (activeChat = None => a = None)
    BY <1>1
  <2> HIDE DEF a
  <2>3. QED
    BY <1>1, <2>1, <2>2, EffectsPickListed
<1>6. QED
  BY <1>2, <1>3, <1>4, <1>5

\* ActiveListed: the page is never left on a chat its list does not show.
THEOREM ActiveListedHolds == Spec => []ActiveListed
<1>1. Init => ActiveListed
  BY DEF Init, ActiveListed
<1>2. HomeInv /\ ActiveListed /\ [Next]_vars => ActiveListed'
  <2> SUFFICES ASSUME HomeInv, ActiveListed, [Next]_vars PROVE ActiveListed'
    OBVIOUS
  <2>1. CASE UNCHANGED <<activeChat, chats>> /\ (listLoading' = TRUE \/ UNCHANGED listLoading)
    BY <2>1 DEF ActiveListed
  <2>2. CASE \E e \in Sends : ChatCreated(e)
    BY <2>2 DEF ActiveListed, ChatCreated, AddToList
  <2>3. CASE \/ NewChat \/ ListAnswer
             \/ \E c \in Chats : SelectChat(c) \/ DeleteChat(c)
    BY <2>3, ShowPicksListed DEF ActiveListed
  <2>4. QED
    BY <2>1, <2>2, <2>3, ActiveSteps
<1>3. QED
  BY <1>1, <1>2, HomeInvHolds, PTL DEF Spec

=============================================================================
