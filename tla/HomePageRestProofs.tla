-------------------------- MODULE HomePageRestProofs --------------------------
(***************************************************************************)
(* Proofs about HomePage: the one interval of sends that do not overlap,   *)
(* and what the page shows when a conversation comes to rest.              *)
(***************************************************************************)
EXTENDS HomePageProofs

-----------------------------------------------------------------------------
(* One send, one interval. *)

\* Of sends that do not overlap one is under way at most.
OneSend == \A e, d \in Sends : UnderWay(e) /\ UnderWay(d) => e = d

\* Every interval is the one the ref holds, short of its last word; none is left
\* while an answer is awaited, or the next one would overwrite the ref.
OneTimer ==
    /\ \A e \in Sends : interval[e] # None => timerRef = e /\ interval[e] < Words[e]
    /\ \A e \in Sends : stage[e] \in {"sent", "answered"} => timerRef = None

InOrder == ~overlapped => OneSend /\ OneTimer

\* A step begins one send, moves one on, or leaves them.
LEMMA StageSteps ==
    ASSUME HomeInv, [Next]_vars
    PROVE  \/ UNCHANGED stage
           \/ \E e \in Sends, s \in Stages : /\ stage' = [stage EXCEPT ![e] = s]
                                             /\ UnderWay(e) \/ (stage[e] = "idle" /\ s # "idle")
<1> DEFINE Moves == \E e \in Sends, s \in Stages : /\ stage' = [stage EXCEPT ![e] = s]
                                                   /\ UnderWay(e) \/ (stage[e] = "idle" /\ s # "idle")
<1>1. CASE UNCHANGED vars
  BY <1>1 DEF vars, sendVars
<1>2. Sidebar \/ ListAnswer \/ ListCall \/ Ingest => UNCHANGED stage
  BY DEF Sidebar, NewChat, SelectChat, DeleteChat, RenameChat, ListAnswer, ListCall, Ingest,
         StartIngest, SourceIngested, IngestFails, sendVars
<1>3. Type \/ Suggest \/ Stop => UNCHANGED stage
  BY DEF Type, Suggest, Stop, sendVars
<1>4. ASSUME NEW e \in Sends, Submit(e) \/ Regenerate(e)
      PROVE  Moves
  <2>1. stage[e] = "idle"
    BY <1>4 DEF Submit, Regenerate, NextSend
  <2>2. Goto(e, "creating") \/ Goto(e, "linking") \/ Goto(e, "sent")
    BY <1>4 DEF Submit, Regenerate, LinkThenSend, SendMessage
  <2>3. PICK s \in {"creating", "linking", "sent"} : stage' = [stage EXCEPT ![e] = s]
    BY <2>2 DEF Goto
  <2>4. s \in Stages /\ s # "idle"
    BY DEF Stages
  <2>5. QED
    BY <2>1, <2>3, <2>4
<1>5. ASSUME NEW e \in Sends, SendStep(e)
      PROVE  Moves \/ UNCHANGED stage
  <2>1. ASSUME \E s \in Stages : Goto(e, s), stage[e] \notin {"idle", "over"}
        PROVE  Moves
    BY <2>1 DEF Goto, UnderWay
  <2>2. CASE CreateChat(e) \/ CreateFails(e) \/ SendAnswer(e) \/ ServerSend(e) \/ SendLost(e)
    BY <2>1, <2>2 DEF CreateChat, CreateFails, SendAnswer, ReceiveAnswer, ServerSend, AnswerSend,
                      SendLost, SendFails, Stages
  <2>3. CASE ChatCreated(e) \/ LinksSettled(e)
    BY <2>1, <2>3 DEF ChatCreated, LinksSettled, LinkThenSend, SendMessage, Stages
  <2>4. CASE \E u \in Uploads : LinkSource(e, u)
    BY <2>4 DEF LinkSource, sendVars
  <2>5. QED
    BY <1>5, <2>2, <2>3, <2>4 DEF SendStep
<1>6. ASSUME NEW e \in Sends, TimerTick(e) PROVE UNCHANGED stage
  BY <1>6 DEF TimerTick, ShowWord, FinishStream, sendVars
<1>7. ASSUME NEW i \in Slots \cup Sends, LoadStep(i) PROVE UNCHANGED stage
  BY <1>7 DEF LoadStep, ServerHistory, AnswerHistory, HistoryAnswer, ReceiveHistory, HistoryFails,
              EndLoad, sendVars
<1> HIDE DEF Moves
<1>8. ASSUME Input PROVE Moves \/ UNCHANGED stage
  BY <1>3, <1>4, <1>8 DEF Input
<1>9. ASSUME Step PROVE Moves \/ UNCHANGED stage
  BY <1>2, <1>5, <1>6, <1>7, <1>8, <1>9 DEF Step
<1>10. QED
  BY <1>1, <1>9 DEF Next, Moves

\* A send that begins while another is under way overlaps it.
LEMMA SendsStayOne ==
    ASSUME HomeInv, OneSend, [Next]_vars, ~overlapped'
    PROVE  OneSend'
<1>1. CASE UNCHANGED stage
  BY <1>1 DEF OneSend, UnderWay
<1>2. ASSUME NEW e \in Sends, NEW s \in Stages, stage' = [stage EXCEPT ![e] = s],
             UnderWay(e) \/ (stage[e] = "idle" /\ s # "idle")
      PROVE  OneSend'
  <2>1. \A d \in Sends : d # e => (UnderWay(d)' <=> UnderWay(d))
    BY <1>2 DEF UnderWay, HomeInv, SendTyped
  <2>2. CASE UnderWay(e)
    BY <2>1, <2>2 DEF OneSend
  <2>3. CASE stage[e] = "idle" /\ s # "idle"
    <3>1. stage'[e] # "idle" /\ Observe
      BY <1>2, <2>3 DEF HomeInv, SendTyped, Next, vars, sendVars
    <3>2. \A d \in Sends : ~UnderWay(d)
      BY <2>3, <3>1 DEF Observe
    <3>3. QED
      BY <2>1, <3>2 DEF OneSend
  <2>4. QED
    BY <1>2, <2>2, <2>3
<1>3. QED
  BY <1>1, <1>2, StageSteps

\* What a step does to the intervals: it leaves the ref and starts none, it
\* clears the one the ref holds, or it is an answer.
LeavesTimers ==
    /\ timerRef' = timerRef
    /\ \A e \in Sends : interval'[e] # None =>
          interval[e] # None /\ (interval'[e] = interval[e] \/ interval'[e] < Words[e])
    /\ \A e \in Sends : stage'[e] \in {"sent", "answered"} => stage[e] \in {"sent", "answered"}

ClearsTimer ==
    /\ timerRef' = None
    /\ \A e \in Sends : interval'[e] # None => interval[e] # None /\ e # timerRef

\* Resetting the stream clears the interval of the ref.
LEMMA ResetClears ==
    ASSUME HookTyped, ResetStream
    PROVE  ClearsTimer
<1>1. timerRef' = None /\ interval' = Interrupted
  BY DEF ResetStream, NotStreaming
<1>2. \A e \in Sends : Interrupted[e] # None => interval[e] # None /\ e # timerRef
  BY MessageHookAssumption DEF HookTyped, Interrupted
<1>3. QED
  BY <1>1, <1>2 DEF ClearsTimer

\* So does sending a message.
LEMMA SendMessageClears ==
    ASSUME HookTyped, NEW e \in Sends, NEW c, SendMessage(e, c)
    PROVE  ClearsTimer
BY ResetClears DEF SendMessage, StopStreaming

\* Showing another chat does, or leaves the stream.
LEMMA ShowTimers ==
    ASSUME HookTyped, NEW a, NEW cs, NEW fr, NEW loading, NEW clear,
           Show(a, cs, fr, loading, clear), UNCHANGED sendVars
    PROVE  LeavesTimers \/ ClearsTimer
<1>1. CASE ClearMessages
  BY <1>1, ResetClears DEF ClearMessages
<1>2. CASE UNCHANGED <<shown, stream>>
  BY <1>2 DEF stream, LeavesTimers, sendVars
<1>3. QED
  BY <1>1, <1>2 DEF Show

LEMMA TimerSteps ==
    ASSUME HomeInv, [Next]_vars
    PROVE  LeavesTimers \/ ClearsTimer \/ \E e \in Sends : ReceiveAnswer(e)
<1>1. CASE UNCHANGED vars
  BY <1>1 DEF vars, hookVars, stream, sendVars, LeavesTimers
<1>2. ASSUME \/ NewChat \/ ListAnswer
             \/ \E c \in Chats : SelectChat(c) \/ DeleteChat(c)
      PROVE  LeavesTimers \/ ClearsTimer
  BY <1>2, ShowTimers DEF HomeInv, NewChat, ListAnswer, SelectChat, DeleteChat
<1>3. ASSUME UNCHANGED <<hookVars, stage>>
      PROVE  LeavesTimers
  BY <1>3 DEF hookVars, stream, LeavesTimers
<1>4. CASE \/ ListCall \/ Ingest \/ Type \/ Suggest
           \/ \E c \in Chats : RenameChat(c)
           \/ \E e \in Sends, u \in Uploads : LinkSource(e, u)
  BY <1>3, <1>4 DEF ListCall, Ingest, StartIngest, SourceIngested, IngestFails, Type, Suggest,
                    RenameChat, LinkSource, sendVars
<1>5. CASE Stop
  BY <1>5, ResetClears DEF HomeInv, Stop, StopStreaming
<1>6. ASSUME NEW e \in Sends, NEW s, s \notin {"sent", "answered"}, Goto(e, s), UNCHANGED hookVars
      PROVE  LeavesTimers
  BY <1>6 DEF HomeInv, SendTyped, Goto, hookVars, stream, LeavesTimers
<1>7. ASSUME NEW e \in Sends, NEW c, NEW ids, LinkThenSend(e, c, ids)
      PROVE  LeavesTimers \/ ClearsTimer
  BY <1>6, <1>7, SendMessageClears DEF HomeInv, LinkThenSend
<1>8. ASSUME NEW e \in Sends,
             Submit(e) \/ Regenerate(e) \/ ChatCreated(e) \/ LinksSettled(e)
      PROVE  LeavesTimers \/ ClearsTimer
  <2>1. CASE Submit(e)
    BY <1>6, <1>7, <2>1 DEF Submit
  <2>2. CASE Regenerate(e) \/ LinksSettled(e)
    BY <2>2, SendMessageClears DEF HomeInv, Regenerate, LinksSettled
  <2>3. CASE ChatCreated(e)
    BY <1>7, <2>3 DEF ChatCreated
  <2>4. QED
    BY <1>8, <2>1, <2>2, <2>3
<1>9. ASSUME NEW e \in Sends, CreateChat(e) \/ CreateFails(e) \/ SendLost(e)
      PROVE  LeavesTimers
  BY <1>6, <1>9 DEF CreateChat, CreateFails, SendLost, SendFails
<1>10. ASSUME NEW e \in Sends, ServerSend(e)
       PROVE  LeavesTimers
  BY <1>10 DEF HomeInv, SendTyped, ServerSend, AnswerSend, Goto, hookVars, stream, LeavesTimers
<1>11. ASSUME NEW e \in Sends, TimerTick(e)
       PROVE  LeavesTimers \/ ClearsTimer
  <2>1. CASE ShowWord(e)
    BY <2>1 DEF HomeInv, HookTyped, ShowWord, sendVars, LeavesTimers
  <2>2. CASE FinishStream(e)
    <3>1. /\ \A d \in Sends : interval'[d] # None => interval[d] # None
          /\ timerRef' = None
      BY <2>2, FinishStreamKeeps DEF HomeInv, ListTyped, FinishStream, NotStreaming
    <3>2. timerRef \in Sends => interval'[timerRef] = None
      BY <2>2, MessageHookAssumption DEF HomeInv, HookTyped, FinishStream
    <3>3. QED
      BY <3>1, <3>2 DEF ClearsTimer
  <2>3. QED
    BY <1>11, <2>1, <2>2 DEF TimerTick
<1>12. ASSUME NEW i \in Slots \cup Sends, LoadStep(i)
       PROVE  LeavesTimers
  BY <1>12 DEF LoadStep, ServerHistory, AnswerHistory, HistoryAnswer, ReceiveHistory, HistoryFails,
               EndLoad, sendVars, stream, LeavesTimers
<1>13. CASE \E e \in Sends : SendStep(e) \/ TimerTick(e)
  BY <1>4, <1>8, <1>9, <1>10, <1>11, <1>13 DEF SendStep, SendAnswer
<1>14. CASE Sidebar \/ Input
  BY <1>2, <1>4, <1>5, <1>8, <1>14 DEF Sidebar, Input
<1>15. QED
  BY <1>1, <1>2, <1>4, <1>12, <1>13, <1>14 DEF Next, Step

\* The timer of an answer is the only one.
LEMMA InOrderStep == HomeInv /\ InOrder /\ [Next]_vars => InOrder'
<1> SUFFICES ASSUME HomeInv, InOrder, [Next]_vars, ~overlapped'
             PROVE  OneSend' /\ OneTimer'
  BY DEF InOrder
<1>1. ~overlapped
  BY DEF Next, Observe, vars, ghosts
<1>2. OneSend /\ OneTimer /\ OneSend'
  BY <1>1, SendsStayOne DEF InOrder
<1>3. CASE LeavesTimers
  BY <1>2, <1>3 DEF OneTimer, LeavesTimers
<1>4. CASE ClearsTimer
  BY <1>2, <1>4 DEF OneTimer, ClearsTimer
<1>5. ASSUME NEW e \in Sends, ReceiveAnswer(e)
      PROVE  OneTimer'
  <2>1. UnderWay(e) /\ timerRef = None /\ stage' = [stage EXCEPT ![e] = "over"]
    BY <1>2, <1>5 DEF ReceiveAnswer, UnderWay, OneTimer, Goto
  <2>2. \A d \in Sends : interval[d] = None
    BY <1>2, <2>1, MessageHookAssumption DEF OneTimer
  <2>3. \A d \in Sends : stage'[d] \notin {"sent", "answered"}
    <3> SUFFICES ASSUME NEW d \in Sends, stage'[d] \in {"sent", "answered"} PROVE FALSE
      OBVIOUS
    <3>1. d # e /\ stage[d] = stage'[d]
      BY <2>1 DEF HomeInv, SendTyped
    <3>2. UnderWay(d)
      BY <3>1 DEF UnderWay
    <3>3. QED
      BY <1>2, <2>1, <3>1, <3>2 DEF OneSend
  <2>4. \A d \in Sends : interval'[d] # None => timerRef' = d /\ interval'[d] < Words[d]
    <3>1. CASE Words[e] = 0
      BY <1>5, <2>2, <3>1 DEF ReceiveAnswer, stream
    <3>2. CASE Words[e] # 0
      <4>1. 0 < Words[e]
        BY <3>2, MessageHookAssumption
      <4>2. QED
        BY <1>5, <2>2, <3>2, <4>1 DEF ReceiveAnswer, HomeInv, HookTyped
    <3>3. QED
      BY <3>1, <3>2
  <2>5. QED
    BY <2>3, <2>4 DEF OneTimer
<1>6. QED
  BY <1>2, <1>3, <1>4, <1>5, TimerSteps

LEMMA InOrderHolds == Spec => []InOrder
<1>1. Init => InOrder
  BY DEF Init, HookInit, InOrder, OneSend, OneTimer, UnderWay
<1>2. QED
  BY <1>1, InOrderStep, HomeInvHolds, PTL DEF Spec

\* OneInterval: as long as sends do not overlap, an interval that runs is the one
\* the ref holds and has words left, so its last word and every call of
\* stopStreaming end it.  A change of chat need not call it: see OneInterval.
THEOREM OneIntervalHolds == Spec => []OneInterval
<1>1. HomeInv /\ InOrder => OneInterval
  BY DEF HomeInv, StreamHeld, InOrder, OneTimer, OneInterval
<1>2. QED
  BY <1>1, HomeInvHolds, InOrderHolds, PTL

-----------------------------------------------------------------------------
(* The conversation nothing disturbed. *)

Quiet == ~overlapped /\ ~moved /\ plan.lost = {}

\* A chat has no turns before it is made.
UnmadeEmpty == \A c \in Chats \ made : history[c] = <<>>

\* The page shows the chat of the send under way, or none until it is made,
\* and the input is disabled from the question to the end of the answer.
SendsInPlace ==
    /\ ~skip
    /\ \A e \in Sends : stage[e] \in {"creating", "created"} => activeChat = None
    /\ \A e \in Sends : stage[e] = "created" => history[target[e]] = <<>>
    /\ \A e \in Sends : stage[e] \in {"linking", "sent", "answered"} => target[e] = activeChat
    /\ \A e \in Sends : stage[e] \in {"sent", "answered"} => sending
    /\ \A e \in Sends : interval[e] # None => target[e] = activeChat /\ sending

NoSend == \A e \in Sends : ~UnderWay(e)
NoTimer == \A e \in Sends : interval[e] = None
NoLoad == \A i \in Slots \cup Sends : loads[i] = None

\* A send, its animation and the reload after it come one after the other.
OneThing ==
    /\ NoTimer \/ (NoSend /\ NoLoad)
    /\ NoLoad \/ (NoSend /\ loadingHistory)
    /\ \A i \in Slots \cup Sends : loads[i] # None =>
          /\ loads[i].chat = activeChat
          /\ loads[i].reply \in {None, history[activeChat]}
          /\ \A j \in Slots \cup Sends : loads[j] # None => j = i

\* The messages are what the server has, but for the answer on its way.
ShowsHistory ==
    /\ activeChat = None => shown = <<>>
    /\ activeChat \in rows /\ NoLoad /\ NoTimer =>
          /\ (\A e \in Sends : stage[e] # "answered") => shown = Complete(history[activeChat])
          /\ \A e \in Sends : stage[e] = "answered" =>
                Complete(history[activeChat]) = Append(shown, Turn(e, Words[e], FALSE))

InStep == SendsInPlace /\ OneThing /\ ShowsHistory

QuietInv == UnmadeEmpty /\ (Quiet => InStep)

\* The stored chat with one more turn is shown with one more turn.
LEMMA CompleteAppend ==
    ASSUME NEW turns \in Seq(Sends), NEW e \in Sends
    PROVE  Complete(Append(turns, e)) = Append(Complete(turns), Turn(e, Words[e], FALSE))
<1> DEFINE more == Append(turns, e)
           x == Turn(e, Words[e], FALSE)
           q == Complete(turns)
           r == Append(q, x)
<1>1. /\ more \in Seq(Sends) /\ Len(more) = Len(turns) + 1
      /\ more[Len(turns) + 1] = e /\ \A i \in 1..Len(turns) : more[i] = turns[i]
  BY AppendProperties
<1>2. x \in Turns /\ q \in Seq(Turns) /\ Len(q) = Len(turns) /\ Len(turns) \in Nat
  <2>1. Words[e] \in Nat
    BY MessageHookAssumption
  <2>2. x \in Turns
    BY <2>1, TurnTyped
  <2>3. q \in Seq(Turns) /\ Len(q) = Len(turns)
    BY CompleteTyped
  <2>4. Len(turns) \in Nat
    OBVIOUS
  <2> HIDE DEF x, q
  <2>5. QED
    BY <2>2, <2>3, <2>4
<1>3. \A i \in 1..Len(turns) : q[i] = Turn(turns[i], Words[turns[i]], FALSE)
  BY CompleteTyped
<1>4. /\ Complete(more) \in Seq(Turns) /\ Len(Complete(more)) = Len(turns) + 1
      /\ \A i \in 1..(Len(turns) + 1) : Complete(more)[i] = Turn(more[i], Words[more[i]], FALSE)
  <2> HIDE DEF more
  <2>1. QED
    BY <1>1, CompleteTyped
<1>5. x = Turn(e, Words[e], FALSE)
  OBVIOUS
<1> HIDE DEF more, x, q
<1>6. r \in Seq(Turns) /\ Len(r) = Len(turns) + 1
  BY <1>2, AppendProperties
<1>7. r[Len(turns) + 1] = x /\ \A i \in 1..Len(turns) : r[i] = q[i]
  BY <1>2, AppendProperties
<1> HIDE DEF r
<1>8. ASSUME NEW i \in 1..(Len(turns) + 1)
      PROVE  Complete(more)[i] = r[i]
  <2>1. CASE i = Len(turns) + 1
    BY <1>1, <1>4, <1>5, <1>7, <2>1
  <2>2. CASE i \in 1..Len(turns)
    BY <1>1, <1>2, <1>3, <1>4, <1>7, <2>2
  <2>3. QED
    BY <1>2, <2>1, <2>2
<1>9. Complete(more) = r
  BY <1>4, <1>6, <1>8, SeqEqual
<1>10. QED
  BY <1>9 DEF more, x, q, r

\* Where no interval runs, stopping the stream changes nothing.
LEMMA NothingToStop ==
    ASSUME HookTyped, StreamHeld, NoTimer, StopStreaming
    PROVE  UNCHANGED <<shown, interval>>
<1>1. timerRef = None /\ streamRef = None
  BY DEF HookTyped, StreamHeld, NoTimer
<1>2. QED
  BY <1>1 DEF StopStreaming, ResetStream, Interrupted

\* What the display rests on, unchanged; the server may have dropped chats.
LEMMA NothingMoves ==
    ASSUME InStep,
           UNCHANGED <<shown, loadingHistory, sending, loads, stage, target, history, activeChat, skip>>,
           \A e \in Sends : interval'[e] # None <=> interval[e] # None,
           rows' \subseteq rows
    PROVE  InStep'
<1>1. SendsInPlace'
  BY DEF InStep, SendsInPlace
<1>2. /\ NoSend' <=> NoSend
      /\ NoTimer' <=> NoTimer
      /\ NoLoad' <=> NoLoad
  BY DEF NoSend, UnderWay, NoTimer, NoLoad
<1>3. OneThing'
  BY <1>2 DEF InStep, OneThing
<1>4. ShowsHistory'
  BY <1>2 DEF InStep, ShowsHistory
<1>5. QED
  BY <1>1, <1>3, <1>4 DEF InStep

\* While a send is under way nothing else is.
LEMMA BusySend ==
    ASSUME InStep, NEW e \in Sends, UnderWay(e)
    PROVE  NoTimer /\ NoLoad
BY DEF InStep, OneThing, NoSend

\* The only send under way moves on, for the chat the page shows.
LEMMA SendMovesOn ==
    ASSUME HomeInv, NoTimer', NoLoad', ~skip',
           NEW e \in Sends, NEW s, stage' = [stage EXCEPT ![e] = s],
           \A d \in Sends : d # e => ~UnderWay(d),
           s \in {"creating", "created"} => activeChat' = None,
           s = "created" => history'[target'[e]] = <<>>,
           s \in {"linking", "sent", "answered"} => target'[e] = activeChat',
           s \in {"sent", "answered"} => sending',
           activeChat' = None => shown' = <<>>,
           activeChat' \in rows' /\ s # "answered" => shown' = Complete(history'[activeChat']),
           activeChat' \in rows' /\ s = "answered" =>
               Complete(history'[activeChat']) = Append(shown', Turn(e, Words[e], FALSE))
    PROVE  InStep'
<1>1. \A d \in Sends : stage'[d] = IF d = e THEN s ELSE stage[d]
  BY DEF HomeInv, SendTyped
<1>2. \A d \in Sends : d # e => stage'[d] \in {"idle", "over"}
  BY <1>1 DEF UnderWay
<1>3. SendsInPlace'
  BY <1>1, <1>2 DEF SendsInPlace, NoTimer
<1>4. OneThing'
  BY DEF OneThing, NoLoad
<1>5. ShowsHistory'
  BY <1>1, <1>2 DEF ShowsHistory
<1>6. QED
  BY <1>3, <1>4, <1>5 DEF InStep

\* A chat without turns is shown without messages.
LEMMA CompleteEmpty == Complete(<<>>) = <<>>
<1>1. <<>> \in Seq(Sends) /\ Len(<<>>) = 0
  OBVIOUS
<1>2. Complete(<<>>) \in Seq(Turns) /\ Len(Complete(<<>>)) = 0
  BY <1>1, CompleteTyped
<1>3. QED
  BY <1>2, EmptySeq

\* handleSubmit once it has its chat, and what follows it.
LEMMA SendInStep ==
    ASSUME HomeInv, InStep, NoTimer, NoLoad, NEW e \in Sends, stage[e] # "answered",
           \A d \in Sends : d # e => ~UnderWay(d),
           SendMessage(e, activeChat') \/ \E ids : LinkThenSend(e, activeChat', ids),
           ~skip', UNCHANGED <<history, rows>>, activeChat' \in Chats,
           activeChat' = activeChat \/ (activeChat = None /\ history[activeChat'] = <<>>)
    PROVE  InStep'
<1>1. PICK s \in {"linking", "sent"} :
          /\ stage' = [stage EXCEPT ![e] = s]
          /\ s = "sent" => sending'
  BY DEF SendMessage, LinkThenSend, Goto
<1>2. target' = [target EXCEPT ![e] = activeChat'] /\ UNCHANGED <<loads, shown, interval>>
  <2>1. CASE SendMessage(e, activeChat')
    <3>1. UNCHANGED <<shown, interval>>
      BY <2>1, NothingToStop DEF HomeInv, SendMessage
    <3>2. QED
      BY <2>1, <3>1 DEF SendMessage
  <2>2. CASE target' = [target EXCEPT ![e] = activeChat'] /\ UNCHANGED hookVars
    BY <2>2 DEF hookVars, stream
  <2>3. QED
    BY <2>1, <2>2 DEF LinkThenSend
<1>3. target'[e] = activeChat' /\ activeChat' # None
  BY <1>2, MessageHookAssumption DEF HomeInv, SendTyped
<1>4. NoTimer' /\ NoLoad'
  BY <1>2 DEF NoTimer, NoLoad
<1>5. \A d \in Sends : stage[d] # "answered"
  BY DEF UnderWay
<1>6. activeChat' \in rows => shown' = Complete(history[activeChat'])
  <2>1. CASE activeChat' = activeChat
    BY <1>2, <1>5, <2>1 DEF InStep, ShowsHistory
  <2>2. CASE activeChat = None /\ history[activeChat'] = <<>>
    BY <1>2, <2>2, CompleteEmpty DEF InStep, ShowsHistory
  <2>3. QED
    BY <2>1, <2>2
<1>7. QED
  BY <1>1, <1>3, <1>4, <1>6, SendMovesOn

\* The input is enabled only where nothing is under way.
LEMMA BeginsAlone ==
    ASSUME InStep, ~sending, ~loadingHistory, Observe, ~overlapped',
           NEW e \in Sends, stage[e] = "idle", stage'[e] # "idle"
    PROVE  NoTimer /\ NoLoad /\ NoSend
<1>1. NoTimer /\ NoLoad
  BY DEF InStep, SendsInPlace, OneThing, NoTimer
<1>2. NoSend
  BY DEF Observe, NoSend
<1>3. QED
  BY <1>1, <1>2

LEMMA SubmitInStep ==
    ASSUME HomeInv, InStep, Observe, ~overlapped', NEW e \in Sends, Submit(e)
    PROVE  InStep'
<1>1. stage[e] = "idle" /\ ~sending /\ ~loadingHistory
  BY DEF Submit, NextSend, CanSubmit, InputDisabled
<1>2. /\ UNCHANGED <<history, rows, activeChat, skip>>
      /\ activeChat = None => Goto(e, "creating") /\ UNCHANGED <<hookVars, target>>
      /\ activeChat # None => LinkThenSend(e, activeChat, pending)
  BY DEF Submit, server
<1>3. stage'[e] # "idle"
  BY <1>2 DEF LinkThenSend, SendMessage, Goto, HomeInv, SendTyped
<1>4. NoTimer /\ NoLoad /\ NoSend
  BY <1>1, <1>3, BeginsAlone
<1>5. CASE activeChat = None
  <2>1. UNCHANGED <<shown, interval, loads>> /\ stage' = [stage EXCEPT ![e] = "creating"]
    BY <1>2, <1>5 DEF hookVars, stream, Goto
  <2>2. NoTimer' /\ NoLoad'
    BY <1>4, <2>1 DEF NoTimer, NoLoad
  <2>3. activeChat' = None /\ shown' = <<>> /\ ~skip' /\ None \notin rows'
    BY <1>2, <1>5, <2>1, MessageHookAssumption
       DEF InStep, SendsInPlace, ShowsHistory, HomeInv, ListTyped
  <2>4. QED
    BY <1>4, <2>1, <2>2, <2>3, SendMovesOn DEF NoSend
<1>6. CASE activeChat # None
  <2>1. activeChat \in Chats
    BY <1>6 DEF HomeInv, PageTyped, ListTyped
  <2>2. QED
    BY <1>1, <1>2, <1>4, <1>6, <2>1, SendInStep DEF NoSend, InStep, SendsInPlace
<1>7. QED
  BY <1>5, <1>6

LEMMA RegenerateInStep ==
    ASSUME HomeInv, InStep, Observe, ~overlapped', NEW e \in Sends, Regenerate(e)
    PROVE  InStep'
<1>1. stage[e] = "idle" /\ ~sending /\ ~loadingHistory
  BY DEF Regenerate, NextSend, CanRegenerate, Body
<1>2. /\ UNCHANGED <<history, rows, activeChat, skip>>
      /\ activeChat # None /\ SendMessage(e, activeChat)
  BY DEF Regenerate, server, pageVars
<1>3. stage'[e] # "idle"
  BY <1>2 DEF SendMessage, Goto, HomeInv, SendTyped
<1>4. NoTimer /\ NoLoad /\ NoSend
  BY <1>1, <1>3, BeginsAlone
<1>5. activeChat \in Chats
  BY <1>2 DEF HomeInv, PageTyped, ListTyped
<1>6. QED
  BY <1>1, <1>2, <1>4, <1>5, SendInStep DEF NoSend, InStep, SendsInPlace

LEMMA CreateInStep ==
    ASSUME HomeInv, UnmadeEmpty, OneSend, InStep, NEW e \in Sends, CreateChat(e)
    PROVE  InStep'
<1>1. UnderWay(e) /\ activeChat = None
  BY DEF CreateChat, UnderWay, InStep, SendsInPlace
<1>2. NoTimer /\ NoLoad /\ \A d \in Sends : d # e => ~UnderWay(d)
  BY <1>1, BusySend DEF OneSend
<1>3. PICK c \in Chats \ made : rows' = rows \cup {c} /\ target' = [target EXCEPT ![e] = c]
  BY DEF CreateChat
<1>4. UNCHANGED <<shown, interval, loads, history, activeChat, skip>>
      /\ stage' = [stage EXCEPT ![e] = "created"]
  BY DEF CreateChat, hookVars, stream, pageVars, Goto
<1>5. target'[e] = c /\ history'[c] = <<>>
  BY <1>3, <1>4 DEF HomeInv, SendTyped, UnmadeEmpty
<1>6. NoTimer' /\ NoLoad'
  BY <1>2, <1>4 DEF NoTimer, NoLoad
<1>7. activeChat' = None /\ shown' = <<>> /\ ~skip' /\ None \notin rows'
  BY <1>1, <1>3, <1>4, MessageHookAssumption
     DEF InStep, SendsInPlace, ShowsHistory, HomeInv, ListTyped
<1>8. QED
  BY <1>2, <1>4, <1>5, <1>6, <1>7, SendMovesOn

LEMMA ChatCreatedInStep ==
    ASSUME HomeInv, OneSend, InStep, NEW e \in Sends, ChatCreated(e)
    PROVE  InStep'
<1>1. UnderWay(e) /\ activeChat = None /\ history[target[e]] = <<>>
  BY DEF ChatCreated, UnderWay, InStep, SendsInPlace
<1>2. NoTimer /\ NoLoad /\ \A d \in Sends : d # e => ~UnderWay(d)
  BY <1>1, BusySend DEF OneSend
<1>3. target[e] \in Chats
  BY DEF HomeInv, SendTyped, ListTyped, ChatCreated
<1>4. /\ activeChat' = target[e] /\ UNCHANGED <<history, rows>> /\ stage[e] # "answered"
      /\ LinkThenSend(e, activeChat', waiting[e])
      /\ skip' = (activeChat = target[e])
  BY DEF ChatCreated, server
<1>5. ~skip'
  BY <1>1, <1>3, <1>4, MessageHookAssumption
<1>6. QED
  BY <1>1, <1>2, <1>3, <1>4, <1>5, SendInStep

LEMMA LinksSettledInStep ==
    ASSUME HomeInv, OneSend, InStep, NEW e \in Sends, LinksSettled(e)
    PROVE  InStep'
<1>1. UnderWay(e) /\ activeChat = target[e] /\ ~skip
  BY DEF LinksSettled, UnderWay, InStep, SendsInPlace
<1>2. NoTimer /\ NoLoad /\ \A d \in Sends : d # e => ~UnderWay(d)
  BY <1>1, BusySend DEF OneSend
<1>3. target[e] \in Chats
  BY DEF HomeInv, SendTyped, ListTyped, LinksSettled
<1>4. /\ UNCHANGED <<history, rows, activeChat, skip>> /\ stage[e] # "answered"
      /\ SendMessage(e, activeChat')
  BY <1>1 DEF LinksSettled, server
<1>5. QED
  BY <1>1, <1>2, <1>3, <1>4, SendInStep

\* The turn the server stores is the one on its way.
LEMMA ServerSendInStep ==
    ASSUME HomeInv, OneSend, InStep, NEW e \in Sends, ServerSend(e)
    PROVE  InStep'
<1>1. UnderWay(e) /\ activeChat = target[e] /\ ~skip /\ sending /\ target[e] \in rows
  BY DEF ServerSend, AnswerSend, UnderWay, InStep, SendsInPlace
<1>2. NoTimer /\ NoLoad /\ \A d \in Sends : d # e => ~UnderWay(d)
  BY <1>1, BusySend DEF OneSend
<1>3. /\ UNCHANGED <<shown, interval, loads, sending, target, activeChat, skip, rows>>
      /\ stage' = [stage EXCEPT ![e] = "answered"]
      /\ history' = [history EXCEPT ![target[e]] = Append(@, e)]
  BY DEF ServerSend, AnswerSend, Goto, hookVars, stream, pageVars
<1>4. activeChat \in Chats /\ activeChat # None
  BY <1>1, MessageHookAssumption DEF HomeInv, ListTyped
<1>5. shown = Complete(history[activeChat])
  <2>1. \A d \in Sends : stage[d] # "answered"
    BY <1>2 DEF UnderWay, ServerSend, AnswerSend
  <2>2. QED
    BY <1>1, <1>2, <2>1 DEF InStep, ShowsHistory
<1>6. Complete(history'[activeChat]) = Append(shown, Turn(e, Words[e], FALSE))
  <2>1. history[activeChat] \in Seq(Sends)
    BY <1>4 DEF HomeInv, SendTyped
  <2>2. history'[activeChat] = Append(history[activeChat], e)
    BY <1>1, <1>3, <1>4 DEF HomeInv, SendTyped
  <2>3. QED
    BY <1>5, <2>1, <2>2, CompleteAppend
<1>7. NoTimer' /\ NoLoad'
  BY <1>2, <1>3 DEF NoTimer, NoLoad
<1>8. QED
  BY <1>1, <1>2, <1>3, <1>4, <1>6, <1>7, SendMovesOn

\* A send is lost only to a chat that went away.
LEMMA SendLostInStep ==
    ASSUME HomeInv, OneSend, InStep, plan.lost = {}, NEW e \in Sends, SendLost(e)
    PROVE  InStep'
<1>1. UnderWay(e) /\ activeChat = target[e] /\ ~skip /\ target[e] \notin rows
  BY DEF SendLost, SendFails, UnderWay, InStep, SendsInPlace
<1>2. NoTimer /\ NoLoad /\ \A d \in Sends : d # e => ~UnderWay(d)
  BY <1>1, BusySend DEF OneSend
<1>3. /\ UNCHANGED <<shown, interval, loads, activeChat, skip, rows>>
      /\ stage' = [stage EXCEPT ![e] = "over"]
  BY DEF SendLost, SendFails, Goto, hookVars, stream, pageVars
<1>4. activeChat # None
  BY <1>1, MessageHookAssumption DEF HomeInv, SendTyped, ListTyped, SendLost, SendFails
<1>5. NoTimer' /\ NoLoad'
  BY <1>2, <1>3 DEF NoTimer, NoLoad
<1>6. QED
  BY <1>1, <1>2, <1>3, <1>4, <1>5, SendMovesOn

\* The answer is appended whole, or its animation begins.
LEMMA SendAnswerInStep ==
    ASSUME HomeInv, OneSend, InStep, NEW e \in Sends, SendAnswer(e)
    PROVE  InStep'
<1>1. UnderWay(e) /\ activeChat = target[e] /\ ~skip /\ sending
  BY DEF SendAnswer, ReceiveAnswer, UnderWay, InStep, SendsInPlace
<1>2. NoTimer /\ NoLoad /\ \A d \in Sends : d # e => ~UnderWay(d)
  BY <1>1, BusySend DEF OneSend
<1>3. /\ UNCHANGED <<loads, target, history, activeChat, skip, rows>>
      /\ stage' = [stage EXCEPT ![e] = "over"] /\ stage[e] = "answered"
      /\ shown' = Append(shown, Turn(e, 0, Words[e] > 0))
  BY DEF SendAnswer, ReceiveAnswer, Goto, pageVars
<1>4. activeChat # None /\ activeChat \in made
  BY <1>1, <1>3, MessageHookAssumption DEF HomeInv, SendTyped, ListTyped
<1>5. NoLoad'
  BY <1>2, <1>3 DEF NoLoad
<1>6. CASE Words[e] = 0
  <2>1. NoTimer'
    BY <1>2, <1>6 DEF SendAnswer, ReceiveAnswer, stream, NoTimer
  <2>2. activeChat \in rows => shown' = Complete(history[activeChat])
    <3>1. (Words[e] > 0) = FALSE
      BY <1>6
    <3>2. Turn(e, 0, Words[e] > 0) = Turn(e, Words[e], FALSE)
      BY <1>6, <3>1
    <3>3. QED
      BY <1>2, <1>3, <3>2 DEF InStep, ShowsHistory
  <2>3. QED
    BY <1>1, <1>2, <1>3, <1>4, <1>5, <2>1, <2>2, SendMovesOn
<1>7. CASE Words[e] # 0
  <2>1. interval' = [interval EXCEPT ![e] = 0] /\ sending' = sending
    BY <1>7 DEF SendAnswer, ReceiveAnswer
  <2>2. /\ \A d \in Sends : interval'[d] # None => d = e
        /\ ~NoTimer'
    BY <1>2, <2>1, MessageHookAssumption DEF HomeInv, HookTyped, NoTimer
  <2>3. \A d \in Sends : stage'[d] \in {"idle", "over"}
    BY <1>2, <1>3 DEF UnderWay, HomeInv, SendTyped
  <2>4. SendsInPlace'
    BY <1>1, <1>3, <2>1, <2>2, <2>3 DEF SendsInPlace
  <2>5. OneThing'
    BY <1>5, <2>3 DEF OneThing, NoSend, UnderWay, NoLoad
  <2>6. ShowsHistory'
    BY <1>3, <1>4, <2>2 DEF ShowsHistory
  <2>7. QED
    BY <2>4, <2>5, <2>6 DEF InStep
<1>8. QED
  BY <1>6, <1>7

\* The server answers a reload with the turns there are,
LEMMA ServerHistoryInStep ==
    ASSUME HomeInv, InStep, NEW i \in Slots \cup Sends, ServerHistory(i)
    PROVE  InStep'
<1>1. /\ loads[i] # None /\ loads' = [loads EXCEPT ![i].reply = history[loads[i].chat]]
      /\ UNCHANGED <<shown, loadingHistory, sending, interval, stage, target, history, activeChat,
                     skip, rows>>
  BY DEF ServerHistory, AnswerHistory, Unanswered, InFlight, stream, sendVars, pageVars
<1>2. loads[i].chat = activeChat /\ loads[i] \in LoadCall
  BY <1>1 DEF InStep, OneThing, HomeInv, HookTyped
<1>3. /\ loads'[i] \in LoadCall
      /\ loads'[i].chat = activeChat /\ loads'[i].reply = history[activeChat]
      /\ \A j \in Slots \cup Sends : j # i => loads'[j] = loads[j]
  BY <1>1, <1>2 DEF HomeInv, HookTyped, SendTyped, LoadCall
<1>4. \A j \in Slots \cup Sends : loads'[j] # None <=> loads[j] # None
  BY <1>1, <1>3, MessageHookAssumption
<1>5. /\ NoLoad' <=> NoLoad
      /\ NoTimer' <=> NoTimer
      /\ NoSend' <=> NoSend
  BY <1>1, <1>4 DEF NoLoad, NoTimer, NoSend, UnderWay
<1>6. SendsInPlace'
  BY <1>1 DEF InStep, SendsInPlace
<1>7. OneThing'
  BY <1>1, <1>3, <1>4, <1>5 DEF InStep, OneThing
<1>8. ShowsHistory'
  BY <1>1, <1>5 DEF InStep, ShowsHistory
<1>9. QED
  BY <1>6, <1>7, <1>8 DEF InStep

\* and the page comes to show them, or the chat went away.
LEMMA HistoryAnswerInStep ==
    ASSUME HomeInv, InStep, plan.lost = {}, NEW i \in Slots \cup Sends, HistoryAnswer(i)
    PROVE  InStep'
<1>1. /\ loads[i] # None /\ EndLoad(i)
      /\ UNCHANGED <<rows, activeChat, skip, interval, stage, target, history>>
  BY DEF HistoryAnswer, ReceiveHistory, HistoryFails, Answered, InFlight, EndLoad, pageVars, stream,
         sendVars
<1>2. /\ loads[i].chat = activeChat /\ loads[i].reply \in {None, history[activeChat]}
      /\ NoSend /\ NoTimer /\ \A j \in Slots \cup Sends : j # i => loads[j] = None
      /\ loads[i] \in LoadCall
  BY <1>1 DEF InStep, OneThing, NoLoad, HomeInv, HookTyped
<1>3. activeChat # None
  BY <1>2, MessageHookAssumption DEF LoadCall
<1>4. NoLoad'
  BY <1>1, <1>2 DEF EndLoad, NoLoad, HomeInv, HookTyped
<1>5. NoSend' /\ NoTimer' /\ \A e \in Sends : stage[e] \in {"idle", "over"}
  BY <1>1, <1>2 DEF NoSend, UnderWay, NoTimer
<1>6. SendsInPlace'
  BY <1>1, <1>5 DEF InStep, SendsInPlace, NoTimer
<1>7. OneThing'
  BY <1>4, <1>5 DEF OneThing, NoLoad
<1>8. activeChat \in rows => shown' = Complete(history[activeChat])
  <2>1. CASE ReceiveHistory(i)
    BY <1>2, <2>1 DEF ReceiveHistory, Answered
  <2>2. CASE loads[i].chat \notin rows
    BY <1>2, <2>2
  <2>3. QED
    BY <2>1, <2>2 DEF HistoryAnswer
<1>9. ShowsHistory'
  BY <1>1, <1>3, <1>5, <1>8 DEF ShowsHistory
<1>10. QED
  BY <1>6, <1>7, <1>9 DEF InStep

\* A word appears while nothing else is under way,
LEMMA ShowWordInStep ==
    ASSUME HomeInv, InStep, NEW e \in Sends, ShowWord(e), UNCHANGED <<rows, activeChat, skip>>
    PROVE  InStep'
<1>1. /\ interval[e] # None /\ ~NoTimer
      /\ UNCHANGED <<loadingHistory, sending, loads, stage, target, history>>
  BY DEF ShowWord, NoTimer, sendVars
<1>2. \A d \in Sends : interval'[d] # None <=> interval[d] # None
  <2> TAKE d \in Sends
  <2>1. interval[e] \in Nat /\ interval[e] + 1 # None
    BY <1>1, MessageHookAssumption DEF HomeInv, HookTyped
  <2>2. interval'[d] = IF d = e THEN interval[e] + 1 ELSE interval[d]
    BY DEF ShowWord, NextWord, HomeInv, HookTyped
  <2>3. QED
    BY <1>1, <2>1, <2>2
<1>3. activeChat # None
  BY <1>1, MessageHookAssumption DEF InStep, SendsInPlace, HomeInv, SendTyped, ListTyped
<1>4. NoSend' /\ NoLoad' /\ ~NoTimer'
  BY <1>1, <1>2 DEF InStep, OneThing, NoSend, UnderWay, NoLoad, NoTimer
<1>5. SendsInPlace'
  BY <1>1, <1>2 DEF InStep, SendsInPlace
<1>6. OneThing'
  BY <1>4 DEF OneThing, NoLoad
<1>7. ShowsHistory'
  BY <1>3, <1>4 DEF ShowsHistory
<1>8. QED
  BY <1>5, <1>6, <1>7 DEF InStep

\* or the last one has, and the only reload is of the chat on display.
LEMMA FinishStreamInStep ==
    ASSUME HomeInv, OneTimer, InStep, NEW e \in Sends, FinishStream(e),
           UNCHANGED <<rows, activeChat, skip>>
    PROVE  InStep'
<1>1. /\ interval[e] # None /\ timerRef = e
      /\ UNCHANGED <<sending, stage, target, history>>
      /\ loads' = [loads EXCEPT ![e] = Load(target[e])] /\ loadingHistory' = TRUE
  BY DEF FinishStream, SyncWithServer, sendVars, OneTimer
<1>2. target[e] = activeChat /\ NoSend /\ NoLoad
  BY <1>1 DEF InStep, SendsInPlace, OneThing, NoTimer
<1>3. NoTimer'
  <2>1. \A d \in Sends : interval'[d] # None => interval[d] # None
    BY FinishStreamKeeps DEF HomeInv, ListTyped
  <2>2. interval'[e] = None
    BY <1>1, MessageHookAssumption DEF FinishStream, HomeInv, HookTyped
  <2>3. QED
    BY <1>1, <2>1, <2>2 DEF NoTimer, OneTimer
<1>4. activeChat # None /\ activeChat \in Chats
  BY <1>1, <1>2, MessageHookAssumption DEF HomeInv, SendTyped, ListTyped
<1>5. /\ loads'[e] = Load(activeChat)
      /\ \A j \in Slots \cup Sends : j # e => loads'[j] = None
  BY <1>1, <1>2 DEF NoLoad, HomeInv, HookTyped
<1>6. /\ loads'[e].chat = activeChat /\ loads'[e].reply = None /\ loads'[e] # None
  BY <1>4, <1>5, MessageHookAssumption DEF Load, LoadCall
<1>7. NoSend' /\ ~NoLoad' /\ \A d \in Sends : stage'[d] \in {"idle", "over"}
  BY <1>1, <1>2, <1>6 DEF NoSend, UnderWay, NoLoad
<1>8. SendsInPlace'
  BY <1>3, <1>7 DEF InStep, SendsInPlace, NoTimer
<1>9. OneThing'
  BY <1>1, <1>3, <1>5, <1>6, <1>7 DEF OneThing
<1>10. ShowsHistory'
  BY <1>4, <1>7 DEF ShowsHistory
<1>11. QED
  BY <1>8, <1>9, <1>10 DEF InStep

\* The effects never come back to the chat the page just left.
LEMMA LeavesOrStays ==
    ASSUME MadeInOrder, made \subseteq Chats, NEW cs \in SUBSET made, NEW a \in made \cup {None},
           NEW fr, NEW loading \in BOOLEAN, NEW clear,
           a \in cs \cup {None, activeChat}, a = None => fr \/ activeChat \notin cs, clear => a = None,
           activeChat # None
    PROVE  LET b == AfterEffects(a, cs, fr, loading)
               left == a = None \/ (~loading /\ a \notin cs)
           IN  /\ b = activeChat => ~left /\ ~clear
               /\ b = None => left
<1> DEFINE b == AfterEffects(a, cs, fr, loading)
<1>1. None \notin cs
  BY MessageHookAssumption
<1>2. /\ ~loading => b \in cs \cup {None}
      /\ loading => b = a
      /\ a \in cs => b = a
  BY EffectsPickListed
<1>3. a = None /\ fr => b = None
  BY DEF AfterEffects
<1> HIDE DEF b
<1>4. b = activeChat => ~(a = None) /\ ~(~loading /\ a \notin cs)
  BY <1>1, <1>2, <1>3
<1>5. b = None => a = None \/ (~loading /\ a \notin cs)
  BY <1>1, <1>2
<1>6. QED
  BY <1>4, <1>5 DEF b

\* A page that stays on its chat keeps its messages, its loads and its timers.
LEMMA ShowStays ==
    ASSUME HomeInv, InStep, NEW cs \in SUBSET made, NEW a \in made \cup {None}, NEW fr,
           NEW loading \in BOOLEAN, NEW clear, Show(a, cs, fr, loading, clear),
           a \in cs \cup {None, activeChat}, a = None => fr \/ activeChat \notin cs, clear => a = None,
           activeChat' = activeChat
    PROVE  /\ UNCHANGED <<shown, loads, loadingHistory, sending>> /\ ~skip'
           /\ \A e \in Sends : interval'[e] # None <=> interval[e] # None
<1> DEFINE left == a = None \/ (~loading /\ a \notin cs)
<1>1. /\ made \subseteq Chats /\ MadeInOrder /\ activeChat \in made \cup {None}
      /\ skip \in BOOLEAN /\ ~skip
  BY DEF HomeInv, ListTyped, PageTyped, InStep, SendsInPlace
<1>2. /\ activeChat' = AfterEffects(a, cs, fr, loading)
      /\ \A e \in Sends : interval'[e] # None => interval[e] # None
  BY <1>1, ShowKeeps DEF HomeInv
<1>3. activeChat # None => ~left /\ ~clear
  BY <1>1, <1>2, LeavesOrStays
<1>4. /\ IF clear \/ (activeChat # None /\ left) THEN ClearMessages ELSE UNCHANGED <<shown, stream>>
      /\ ~skip' /\ sending' = sending
      /\ UNCHANGED <<loads, loadingHistory>>
  BY <1>1, <1>2 DEF Show, Arrives
<1> HIDE DEF left
<1>5. CASE activeChat # None
  BY <1>3, <1>4, <1>5 DEF stream
<1>6. CASE activeChat = None
  <2>1. NoTimer /\ shown = <<>>
    BY <1>6, MessageHookAssumption
       DEF NoTimer, InStep, SendsInPlace, ShowsHistory, HomeInv, SendTyped, ListTyped
  <2>2. shown' = <<>>
    BY <1>4, <2>1 DEF ClearMessages
  <2>3. QED
    BY <1>2, <1>4, <2>1, <2>2 DEF NoTimer
<1>7. QED
  BY <1>5, <1>6

\* The page leaves a chat with nothing in flight, and clears or loads.
LEMMA ShowInStep ==
    ASSUME HomeInv, InStep, Observe, ~moved', UNCHANGED <<sendVars, history, rows>>,
           NEW cs \in SUBSET made, NEW a \in made \cup {None}, NEW fr, NEW loading \in BOOLEAN,
           NEW clear, Show(a, cs, fr, loading, clear),
           a \in cs \cup {None, activeChat}, a = None => fr \/ activeChat \notin cs, clear => a = None
    PROVE  InStep'
<1> DEFINE left == a = None \/ (~loading /\ a \notin cs)
<1>1. /\ made \subseteq Chats /\ MadeInOrder /\ activeChat \in made \cup {None}
      /\ skip \in BOOLEAN /\ ~skip
  BY DEF HomeInv, ListTyped, PageTyped, InStep, SendsInPlace
<1>2. /\ activeChat' = AfterEffects(a, cs, fr, loading) /\ activeChat' \in made \cup {None}
      /\ skip' \in BOOLEAN
      /\ \A e \in Sends : interval'[e] # None => interval[e] # None
  BY <1>1, ShowKeeps DEF HomeInv
<1>3. activeChat # None => /\ activeChat' = activeChat => ~left /\ ~clear
                           /\ activeChat' = None => left
  BY <1>1, <1>2, LeavesOrStays
<1>4. /\ IF clear \/ (activeChat # None /\ left) THEN ClearMessages ELSE UNCHANGED <<shown, stream>>
      /\ ~skip' /\ sending' = sending
      /\ IF Arrives(activeChat') THEN LoadHistory(activeChat') ELSE UNCHANGED <<loads, loadingHistory>>
  BY <1>1, <1>2 DEF Show
<1> HIDE DEF left
<1>5. CASE activeChat' = activeChat
  <2>1. /\ UNCHANGED <<shown, loads, loadingHistory, sending>> /\ ~skip'
        /\ \A e \in Sends : interval'[e] # None <=> interval[e] # None
    BY <1>5, ShowStays
  <2>2. /\ UNCHANGED <<stage, target, history, activeChat, skip>>
        /\ rows' \subseteq rows
    BY <1>1, <1>2, <1>5, <2>1 DEF sendVars
  <2>3. QED
    BY <2>1, <2>2, NothingMoves
<1>6. CASE activeChat' # activeChat
  <2>1. NoTimer /\ NoLoad /\ NoSend
    BY <1>6 DEF Observe, Disturbs, sendVars, NoTimer, NoLoad, NoSend
  <2>2. NoTimer' /\ NoSend' /\ \A e \in Sends : stage'[e] \in {"idle", "over"}
    BY <1>2, <2>1 DEF NoTimer, NoSend, UnderWay, sendVars
  <2>3. SendsInPlace'
    BY <1>4, <2>2 DEF SendsInPlace, NoTimer
  <2>4. CASE activeChat' = None
    <3>1. NoLoad' /\ shown' = <<>>
      BY <1>3, <1>4, <1>6, <2>1, <2>4 DEF Arrives, ClearMessages, NoLoad
    <3>2. activeChat' \notin rows'
      BY <1>1, <2>4, MessageHookAssumption DEF HomeInv, ListTyped
    <3>3. OneThing' /\ ShowsHistory'
      BY <2>2, <3>1, <3>2 DEF OneThing, NoLoad, ShowsHistory
    <3>4. QED
      BY <2>3, <3>3 DEF InStep
  <2>5. CASE activeChat' # None
    <3>1. LoadHistory(activeChat')
      BY <1>4, <1>6, <2>5 DEF Arrives
    <3>2. PICK i \in Slots : loads' = [loads EXCEPT ![i] = Load(activeChat')] /\ loadingHistory' = TRUE
      BY <3>1 DEF LoadHistory, FreeSlots
    <3>3. /\ loads'[i] = Load(activeChat')
          /\ \A j \in Slots \cup Sends : j # i => loads'[j] = None
      BY <2>1, <3>2 DEF NoLoad, HomeInv, HookTyped
    <3>4. loads'[i].chat = activeChat' /\ loads'[i].reply = None /\ loads'[i] # None
      BY <1>1, <1>2, <2>5, <3>3, MessageHookAssumption DEF Load, LoadCall
    <3>5. OneThing'
      BY <2>2, <3>2, <3>3, <3>4 DEF OneThing
    <3>6. ShowsHistory'
      BY <2>5, <3>4 DEF ShowsHistory, NoLoad
    <3>7. QED
      BY <2>3, <3>5, <3>6 DEF InStep
  <2>6. QED
    BY <2>4, <2>5
<1>7. QED
  BY <1>5, <1>6

\* The four ways to another chat.
Shows ==
    /\ UNCHANGED <<sendVars, history, rows>>
    /\ \E cs \in SUBSET made, a \in made \cup {None}, fr, loading, clear \in BOOLEAN :
          /\ Show(a, cs, fr, loading, clear)
          /\ a \in cs \cup {None, activeChat}
          /\ a = None => fr \/ activeChat \notin cs
          /\ clear => a = None

LEMMA SidebarShows ==
    ASSUME HomeInv,
           \/ NewChat \/ ListAnswer
           \/ \E c \in Chats : SelectChat(c) \/ DeleteChat(c)
    PROVE  Shows
<1>1. /\ made \subseteq Chats /\ chats \in SUBSET made /\ activeChat \in made \cup {None}
      /\ listLoading \in BOOLEAN /\ fresh \in BOOLEAN /\ None \notin made
  BY MessageHookAssumption DEF HomeInv, ListTyped, PageTyped
<1>2. CASE NewChat
  <2>1. Show(None, chats, TRUE, listLoading, TRUE) /\ UNCHANGED <<sendVars, history, rows>>
    BY <1>2 DEF NewChat, server
  <2>2. QED
    BY <1>1, <2>1 DEF Shows
<1>3. CASE ListAnswer
  <2>1. /\ Show(activeChat, chats', fresh, FALSE, FALSE) /\ UNCHANGED <<sendVars, history, rows>>
        /\ chats' \in SUBSET made
    BY <1>3, ReloadListsMade DEF HomeInv, ListAnswer
  <2>2. activeChat = None => activeChat \notin chats'
    BY <1>1, <2>1
  <2>3. QED
    BY <1>1, <2>1, <2>2 DEF Shows
<1>4. ASSUME NEW c \in Chats, SelectChat(c)
      PROVE  Shows
  <2>1. /\ Show(c, chats, FALSE, listLoading, FALSE) /\ UNCHANGED <<sendVars, history, rows>>
        /\ c \in chats
    BY <1>4 DEF SelectChat, Listed, server
  <2>2. c \in made /\ c # None
    BY <1>1, <2>1
  <2>3. QED
    BY <1>1, <2>1, <2>2 DEF Shows
<1>5. ASSUME NEW c \in Chats, DeleteChat(c)
      PROVE  Shows
  <2>1. /\ chats' = chats \ {c} /\ UNCHANGED <<sendVars, history, rows>>
        /\ Show(IF activeChat = c THEN None ELSE activeChat, chats', fresh, listLoading, activeChat = c)
        /\ listLoading = FALSE
    BY <1>1, <1>5 DEF DeleteChat, Listed, RemoveFromList, server
  <2>2. chats' \in SUBSET made /\ None \notin chats'
    BY <1>1, <2>1
  <2>3. CASE activeChat = c
    <3>1. Show(None, chats', fresh, FALSE, TRUE)
      BY <2>1, <2>3
    <3>2. activeChat \notin chats'
      BY <2>1, <2>3
    <3>3. QED
      BY <1>1, <2>1, <2>2, <3>1, <3>2 DEF Shows
  <2>4. CASE activeChat # c
    <3>1. Show(activeChat, chats', fresh, FALSE, FALSE)
      BY <2>1, <2>4
    <3>2. activeChat = None => activeChat \notin chats'
      BY <2>2
    <3>3. QED
      BY <1>1, <2>1, <2>2, <3>1, <3>2 DEF Shows
  <2>5. QED
    BY <2>3, <2>4
<1>6. QED
  BY <1>2, <1>3, <1>4, <1>5

LEMMA SidebarInStep ==
    ASSUME HomeInv, InStep, Observe, ~moved',
           \/ NewChat \/ ListAnswer
           \/ \E c \in Chats : SelectChat(c) \/ DeleteChat(c)
    PROVE  InStep'
BY SidebarShows, ShowInStep DEF Shows

\* A chat has no turns before it is made, since a send is for one that was.
LEMMA UnmadeStaysEmpty ==
    ASSUME HomeInv, UnmadeEmpty, [Next]_vars
    PROVE  UnmadeEmpty'
<1>1. made \subseteq made'
  <2>1. CASE UNCHANGED vars
    BY <2>1 DEF vars, server
  <2>2. Sidebar \/ ListAnswer \/ ListCall \/ Ingest => made' = made
    BY DEF Sidebar, NewChat, SelectChat, DeleteChat, RenameChat, ListAnswer, ListCall, Ingest,
           StartIngest, SourceIngested, IngestFails, server
  <2>3. Input => made' = made
    BY DEF Input, Type, Suggest, Stop, Submit, Regenerate, server
  <2>4. ASSUME NEW e \in Sends, SendStep(e) \/ TimerTick(e)
        PROVE  made \subseteq made'
    BY <2>4 DEF SendStep, CreateChat, CreateFails, ChatCreated, LinkSource, LinksSettled, ServerSend,
                SendAnswer, SendLost, TimerTick, server
  <2>5. ASSUME NEW i \in Slots \cup Sends, LoadStep(i)
        PROVE  made' = made
    BY <2>5 DEF LoadStep, ServerHistory, HistoryAnswer
  <2>6. QED
    BY <2>1, <2>2, <2>3, <2>4, <2>5 DEF Next, Step
<1>2. history' = history \/ \E e \in Sends : ServerSend(e)
  <2>1. CASE UNCHANGED vars
    BY <2>1 DEF vars, server
  <2>2. Sidebar \/ ListAnswer \/ ListCall \/ Ingest => history' = history
    BY DEF Sidebar, NewChat, SelectChat, DeleteChat, RenameChat, ListAnswer, ListCall, Ingest,
           StartIngest, SourceIngested, IngestFails, server
  <2>3. Input => history' = history
    BY DEF Input, Type, Suggest, Stop, Submit, Regenerate, server
  <2>4. ASSUME NEW e \in Sends, SendStep(e) \/ TimerTick(e)
        PROVE  history' = history \/ ServerSend(e)
    BY <2>4 DEF SendStep, CreateChat, CreateFails, ChatCreated, LinkSource, LinksSettled,
                SendAnswer, ReceiveAnswer, SendLost, SendFails, TimerTick, ShowWord, FinishStream, server
  <2>5. ASSUME NEW i \in Slots \cup Sends, LoadStep(i)
        PROVE  history' = history
    BY <2>5 DEF LoadStep, ServerHistory, AnswerHistory, HistoryAnswer, ReceiveHistory, HistoryFails,
                EndLoad
  <2>6. QED
    BY <2>1, <2>2, <2>3, <2>4, <2>5 DEF Next, Step
<1>3. ASSUME NEW e \in Sends, ServerSend(e)
      PROVE  \A c \in Chats \ made : history'[c] = history[c]
  <2>1. target[e] \in made /\ history' = [history EXCEPT ![target[e]] = Append(@, e)]
    BY <1>3 DEF ServerSend, AnswerSend, HomeInv, SendTyped
  <2>2. QED
    BY <2>1 DEF HomeInv, SendTyped
<1>4. QED
  BY <1>1, <1>2, <1>3 DEF UnmadeEmpty

LEMMA QuietStep == HomeInv /\ InOrder /\ QuietInv /\ [Next]_vars => QuietInv'
<1> SUFFICES ASSUME HomeInv, InOrder, QuietInv, [Next]_vars PROVE QuietInv'
  OBVIOUS
<1>1. UnmadeEmpty'
  BY UnmadeStaysEmpty DEF QuietInv
<1>2. ASSUME Quiet' PROVE InStep'
  <2>1. Quiet /\ ~overlapped' /\ ~moved'
    <3>1. ~overlapped' /\ ~moved' /\ plan'.lost = {}
      BY <1>2 DEF Quiet
    <3>2. CASE UNCHANGED vars
      BY <3>1, <3>2 DEF Quiet, vars, ghosts
    <3>3. CASE Observe
      BY <3>1, <3>3 DEF Quiet, Observe
    <3>4. QED
      BY <3>1, <3>2, <3>3 DEF Next
  <2>2. InStep /\ UnmadeEmpty /\ OneSend /\ OneTimer /\ plan.lost = {}
    BY <2>1 DEF QuietInv, InOrder, Quiet
  <2>3. ASSUME UNCHANGED <<hookVars, sendVars, history, activeChat, skip>>, rows' \subseteq rows
        PROVE  InStep'
    BY <2>2, <2>3, NothingMoves DEF hookVars, stream, sendVars
  <2>4. CASE UNCHANGED vars
    BY <2>3, <2>4 DEF vars, server, pageVars
  <2>5. CASE Step /\ Observe
    <3>1. CASE Sidebar \/ ListAnswer
      <4>1. \A c \in Chats : RenameChat(c) => InStep'
        BY <2>3 DEF RenameChat, pageVars, server
      <4>2. QED
        BY <2>1, <2>2, <2>5, <3>1, <4>1, SidebarInStep DEF Sidebar
    <3>2. CASE ListCall
      BY <2>3, <3>2 DEF ListCall, AnswerRefresh, DeleteAnswered, RenameAnswered, DeleteFails,
                        RenameFails, pageVars
    <3>3. CASE Ingest
      BY <2>3, <3>3 DEF Ingest, StartIngest, SourceIngested, IngestFails, pageVars, server
    <3>4. CASE Type \/ Suggest
      BY <2>3, <3>4 DEF Type, Suggest, server
    <3>5. CASE Stop
      <4>1. timerRef # None /\ ~sending
        BY <3>5 DEF Stop, SendButton, CanSubmit, InputDisabled, HomeInv, StreamHeld
      <4>2. timerRef \in Sends /\ interval[timerRef] # None
        BY <4>1 DEF HomeInv, HookTyped, StreamHeld
      <4>3. QED
        BY <2>2, <4>1, <4>2 DEF InStep, SendsInPlace
    <3>6. CASE \E e \in Sends : Submit(e) \/ Regenerate(e)
      BY <2>1, <2>2, <2>5, <3>6, SubmitInStep, RegenerateInStep
    <3>7. ASSUME NEW e \in Sends, SendStep(e) PROVE InStep'
      <4>1. CASE CreateFails(e)
        BY <2>2, <4>1 DEF CreateFails
      <4>2. CASE \E u \in Uploads : LinkSource(e, u)
        BY <2>3, <4>2 DEF LinkSource, pageVars
      <4>3. CASE CreateChat(e) \/ ChatCreated(e) \/ LinksSettled(e)
        BY <2>2, <4>3, CreateInStep, ChatCreatedInStep, LinksSettledInStep
      <4>4. CASE ServerSend(e) \/ SendAnswer(e) \/ SendLost(e)
        BY <2>2, <4>4, ServerSendInStep, SendAnswerInStep, SendLostInStep
      <4>5. QED
        BY <3>7, <4>1, <4>2, <4>3, <4>4 DEF SendStep
    <3>8. ASSUME NEW e \in Sends, TimerTick(e) PROVE InStep'
      BY <2>2, <3>8, ShowWordInStep, FinishStreamInStep DEF TimerTick, pageVars
    <3>9. ASSUME NEW i \in Slots \cup Sends, LoadStep(i) PROVE InStep'
      BY <2>2, <3>9, ServerHistoryInStep, HistoryAnswerInStep DEF LoadStep
    <3>10. QED
      BY <2>5, <3>1, <3>2, <3>3, <3>4, <3>5, <3>6, <3>7, <3>8, <3>9 DEF Step, Input
  <2>6. QED
    BY <2>4, <2>5 DEF Next
<1>3. QED
  BY <1>1, <1>2 DEF QuietInv

LEMMA QuietInvHolds == Spec => []QuietInv
<1>1. Init => QuietInv
  <2> SUFFICES ASSUME Init PROVE QuietInv
    OBVIOUS
  <2>1. UnmadeEmpty /\ \A c \in Chats : history[c] = <<>>
    BY DEF Init, UnmadeEmpty
  <2>2. NoSend /\ NoTimer /\ NoLoad /\ SendsInPlace
    BY DEF Init, HookInit, NoSend, UnderWay, NoTimer, NoLoad, SendsInPlace
  <2>3. OneThing
    BY <2>2 DEF OneThing, NoLoad
  <2>4. None \notin rows
    BY MessageHookAssumption DEF Init
  <2>5. ShowsHistory
    BY <2>4 DEF Init, HookInit, ShowsHistory
  <2>6. QED
    BY <2>1, <2>2, <2>3, <2>5 DEF QuietInv, InStep
<1>2. QED
  BY <1>1, QuietStep, HomeInvHolds, InOrderHolds, PTL DEF Spec

\* RestShowsHistory: a conversation nothing disturbed comes to rest on the
\* turns the server stored, in their order, however long its answers are.
THEOREM RestShowsHistoryHolds == Spec => []RestShowsHistory
<1>1. QuietInv => RestShowsHistory
  <2> SUFFICES ASSUME QuietInv, AtRest, ~overlapped, ~moved, plan.lost = {}, activeChat \in rows
               PROVE  shown = Complete(history[activeChat])
    BY DEF RestShowsHistory
  <2>1. ShowsHistory
    BY DEF QuietInv, Quiet, InStep
  <2>2. NoLoad /\ NoTimer /\ \A e \in Sends : stage[e] # "answered"
    BY DEF AtRest, NoLoad, NoTimer, UnderWay
  <2>3. QED
    BY <2>1, <2>2 DEF ShowsHistory
<1>2. QED
  BY <1>1, QuietInvHolds, PTL

-----------------------------------------------------------------------------
(* The owner of isSending. *)

\* Something is under way that will clear isSending.
Owns(e) == stage[e] \in {"sent", "answered"} \/ interval[e] # None \/ loads[e] # None

Owned == sending => (\E e \in Sends : Owns(e)) \/ (\E e \in Sends : Deleted(target[e]))

\* A send names no chat before it has one.
Targetless == \A e \in Sends : stage[e] \in {"idle", "creating"} => target[e] = None

\* What a step does to the chats the sends name.
LEMMA TargetSteps ==
    ASSUME HomeInv, Targetless, [Next]_vars
    PROVE  /\ Targetless'
           /\ \A e \in Sends : target[e] \in made => target'[e] = target[e]
<1> DEFINE Goal == /\ Targetless'
                   /\ \A e \in Sends : target[e] \in made => target'[e] = target[e]
<1>1. None \notin made /\ stage \in [Sends -> Stages] /\ target \in [Sends -> ChatOrNone]
  BY MessageHookAssumption DEF HomeInv, SendTyped, ListTyped
<1>2. ASSUME UNCHANGED sendVars PROVE Goal
  BY <1>2 DEF Targetless, sendVars
<1>3. ASSUME NEW e \in Sends, NEW s, s # "idle", Goto(e, s),
             \/ target' = target /\ (s = "creating" => stage[e] \in {"idle", "creating"})
             \/ s # "creating" /\ \E c : /\ target' = [target EXCEPT ![e] = c]
                                         /\ target[e] \in made => c = target[e]
      PROVE  Goal
  BY <1>1, <1>3 DEF Targetless, Goto
<1>4. ASSUME UNCHANGED vars PROVE Goal
  BY <1>2, <1>4 DEF vars
<1>5. ASSUME Sidebar \/ ListAnswer \/ ListCall \/ Ingest \/ Type \/ Suggest \/ Stop PROVE Goal
  BY <1>2, <1>5 DEF Sidebar, NewChat, SelectChat, DeleteChat, RenameChat, ListAnswer, ListCall, Ingest,
     StartIngest, SourceIngested, IngestFails, Type, Suggest, Stop
<1>6. ASSUME NEW e \in Sends, Submit(e) \/ Regenerate(e) PROVE Goal
  <2>1. stage[e] = "idle" /\ target[e] \notin made
    BY <1>1, <1>6 DEF Submit, Regenerate, NextSend, Targetless
  <2>2. \/ Goto(e, "creating") /\ target' = target
        \/ \E s \in {"linking", "sent"} : Goto(e, s) /\ target' = [target EXCEPT ![e] = activeChat]
    BY <1>6 DEF Submit, Regenerate, LinkThenSend, SendMessage
  <2>3. QED
    BY <1>3, <2>1, <2>2
<1>7. ASSUME NEW e \in Sends, SendStep(e) PROVE Goal
  <2>1. CASE CreateChat(e)
    <3>1. target[e] \notin made
      BY <1>1, <2>1 DEF CreateChat, Targetless
    <3>2. Goto(e, "created") /\ \E c : target' = [target EXCEPT ![e] = c]
      BY <2>1 DEF CreateChat
    <3>3. QED
      BY <1>3, <3>1, <3>2
  <2>2. CASE CreateFails(e) \/ ServerSend(e) \/ SendAnswer(e) \/ SendLost(e)
    BY <1>3, <2>2 DEF CreateFails, ServerSend, AnswerSend, SendAnswer, ReceiveAnswer, SendLost, SendFails
  <2>3. CASE ChatCreated(e) \/ LinksSettled(e)
    <3>1. \E s \in {"linking", "sent"} : Goto(e, s) /\ target' = [target EXCEPT ![e] = target[e]]
      BY <2>3 DEF ChatCreated, LinksSettled, LinkThenSend, SendMessage
    <3>2. QED
      BY <1>3, <3>1
  <2>4. CASE \E u \in Uploads : LinkSource(e, u)
    BY <1>2, <2>4 DEF LinkSource
  <2>5. QED
    BY <1>7, <2>1, <2>2, <2>3, <2>4 DEF SendStep
<1>8. ASSUME NEW e \in Sends, TimerTick(e) PROVE Goal
  BY <1>2, <1>8 DEF TimerTick, ShowWord, FinishStream
<1>9. ASSUME NEW i \in Slots \cup Sends, LoadStep(i) PROVE Goal
  BY <1>2, <1>9 DEF LoadStep, ServerHistory, AnswerHistory, HistoryAnswer, ReceiveHistory, HistoryFails,
                    EndLoad
<1> HIDE DEF Goal
<1>10. Input => Goal
  BY <1>5, <1>6 DEF Input
<1>11. (\E e \in Sends : SendStep(e) \/ TimerTick(e)) => Goal
  BY <1>7, <1>8
<1>12. (\E i \in Slots \cup Sends : LoadStep(i)) => Goal
  BY <1>9
<1>13. Goal
  BY <1>4, <1>5, <1>10, <1>11, <1>12 DEF Next, Step
<1>14. QED
  BY <1>13 DEF Goal

\* A chat that was deleted does not come back.
LEMMA DeletedStays ==
    ASSUME HomeInv, [Next]_vars, NEW c, Deleted(c)
    PROVE  Deleted(c)'
<1>1. CASE \E e \in Sends : CreateChat(e)
  BY <1>1 DEF CreateChat, Deleted
<1>2. CASE ~\E e \in Sends : CreateChat(e)
  <2>1. made' = made /\ rows' \subseteq rows
    <3>1. CASE UNCHANGED vars
      BY <3>1 DEF vars, server
    <3>2. Sidebar \/ Ingest \/ Input => made' = made /\ rows' = rows
      BY DEF Sidebar, NewChat, SelectChat, DeleteChat, RenameChat, Ingest, StartIngest, SourceIngested,
             IngestFails, Input, Type, Suggest, Stop, Submit, Regenerate, server
    <3>3. ListAnswer \/ ListCall => made' = made /\ rows' \subseteq rows
      BY DEF ListAnswer, ReceiveRefresh, RefreshFails, ListCall, AnswerRefresh, DeleteAnswered,
             RenameAnswered, DeleteFails, RenameFails
    <3>4. ASSUME NEW e \in Sends, SendStep(e) \/ TimerTick(e)
          PROVE  made' = made /\ rows' = rows
      BY <1>2, <3>4 DEF SendStep, CreateFails, ChatCreated, LinkSource, LinksSettled, ServerSend,
                        SendAnswer, SendLost, TimerTick, server
    <3>5. ASSUME NEW i \in Slots \cup Sends, LoadStep(i)
          PROVE  made' = made /\ rows' = rows
      BY <3>5 DEF LoadStep, ServerHistory, HistoryAnswer
    <3>6. QED
      BY <3>1, <3>2, <3>3, <3>4, <3>5 DEF Next, Step
  <2>2. QED
    BY <2>1 DEF Deleted
<1>3. QED
  BY <1>1, <1>2

\* What will clear isSending goes on, passes to what follows it, or clears it.
LEMMA OwnedStep ==
    HomeInv /\ InOrder /\ QuietInv /\ Targetless /\ (Quiet => Owned) /\ [Next]_vars => (Quiet => Owned)'
<1> SUFFICES ASSUME HomeInv, InOrder, QuietInv, Targetless, Quiet => Owned, [Next]_vars, Quiet'
             PROVE  Owned'
  OBVIOUS
<1>1. Quiet /\ ~moved'
  <2>1. ~overlapped' /\ ~moved' /\ plan'.lost = {}
    BY DEF Quiet
  <2>2. CASE UNCHANGED vars
    BY <2>1, <2>2 DEF Quiet, vars, ghosts
  <2>3. CASE Observe
    BY <2>1, <2>3 DEF Quiet, Observe
  <2>4. QED
    BY <2>1, <2>2, <2>3 DEF Next
<1>2. InStep /\ OneSend /\ plan.lost = {} /\ Owned
  BY <1>1 DEF QuietInv, InOrder, Quiet
<1>3. ASSUME NEW e \in Sends, Deleted(target[e]) PROVE Deleted(target[e])'
  <2>1. target'[e] = target[e]
    BY <1>3, TargetSteps DEF Deleted
  <2>2. QED
    BY <1>3, <2>1, DeletedStays DEF Deleted
<1>4. ASSUME sending' => sending, \A e \in Sends : Owns(e) => Owns(e)' PROVE Owned'
  BY <1>2, <1>3, <1>4 DEF Owned
<1>5. ASSUME UNCHANGED <<hookVars, stage>> PROVE Owned'
  BY <1>4, <1>5 DEF hookVars, stream, Owns
<1>6. ASSUME NEW e \in Sends, NEW s, stage[e] \notin {"sent", "answered"}, Goto(e, s), UNCHANGED hookVars
      PROVE  Owned'
  BY <1>4, <1>6 DEF Goto, hookVars, stream, Owns, HomeInv, SendTyped
<1>7. ASSUME NEW e \in Sends, NEW c, SendMessage(e, c) PROVE Owned'
  <2>1. stage'[e] = "sent"
    BY <1>7 DEF SendMessage, Goto, HomeInv, SendTyped
  <2>2. QED
    BY <2>1 DEF Owned, Owns
<1>8. ASSUME NEW e \in Sends, NEW c, NEW ids, stage[e] \notin {"sent", "answered"}, LinkThenSend(e, c, ids)
      PROVE  Owned'
  BY <1>6, <1>7, <1>8 DEF LinkThenSend
<1>9. CASE UNCHANGED vars
  BY <1>5, <1>9 DEF vars, sendVars
<1>10. ASSUME Observe,
              \/ NewChat \/ ListAnswer
              \/ \E c \in Chats : SelectChat(c) \/ DeleteChat(c)
       PROVE  Owned'
  <2>1. Shows /\ UNCHANGED <<sendVars, rows>>
    BY <1>10, SidebarShows DEF Shows
  <2>2. CASE activeChat' = activeChat
    <3>1. /\ UNCHANGED <<loads, sending>>
          /\ \A e \in Sends : interval'[e] # None <=> interval[e] # None
      BY <1>2, <2>1, <2>2, ShowStays DEF Shows
    <3>2. QED
      BY <1>4, <2>1, <3>1 DEF Owns, sendVars
  <2>3. CASE activeChat' # activeChat
    <3>1. \A e \in Sends : ~Owns(e)
      BY <1>1, <1>10, <2>1, <2>3 DEF Observe, Disturbs, UnderWay, Owns, sendVars
    <3>2. sending' = sending
      BY <2>1 DEF Shows, Show
    <3>3. QED
      BY <1>4, <3>1, <3>2
  <2>4. QED
    BY <2>2, <2>3
<1>11. CASE ListCall \/ Ingest \/ Type \/ Suggest \/ \E c \in Chats : RenameChat(c)
  BY <1>5, <1>11 DEF ListCall, Ingest, StartIngest, SourceIngested, IngestFails, Type, Suggest, RenameChat,
                     sendVars
<1>12. CASE Stop
  <2>1. timerRef # None /\ ~sending
    BY <1>12 DEF Stop, SendButton, CanSubmit, InputDisabled, HomeInv, StreamHeld
  <2>2. timerRef \in Sends /\ interval[timerRef] # None
    BY <2>1 DEF HomeInv, HookTyped, StreamHeld
  <2>3. QED
    BY <1>2, <2>1, <2>2 DEF InStep, SendsInPlace
<1>13. ASSUME NEW e \in Sends, Submit(e) \/ Regenerate(e) PROVE Owned'
  <2>1. stage[e] = "idle"
    BY <1>13 DEF Submit, Regenerate, NextSend
  <2>2. CASE Submit(e)
    BY <1>6, <1>8, <2>1, <2>2 DEF Submit
  <2>3. CASE Regenerate(e)
    BY <1>7, <2>3 DEF Regenerate
  <2>4. QED
    BY <1>13, <2>2, <2>3
<1>14. ASSUME NEW e \in Sends, SendStep(e) PROVE Owned'
  <2>1. CASE CreateChat(e) \/ CreateFails(e)
    BY <1>6, <2>1 DEF CreateChat, CreateFails
  <2>2. CASE ChatCreated(e)
    BY <1>8, <2>2 DEF ChatCreated
  <2>3. CASE \E u \in Uploads : LinkSource(e, u)
    BY <1>5, <2>3 DEF LinkSource, sendVars
  <2>4. CASE LinksSettled(e)
    BY <1>7, <2>4 DEF LinksSettled
  <2>5. CASE ServerSend(e)
    <3>1. stage'[e] = "answered"
      BY <2>5 DEF ServerSend, AnswerSend, Goto, HomeInv, SendTyped
    <3>2. QED
      BY <3>1 DEF Owned, Owns
  <2>6. CASE SendAnswer(e)
    <3>1. CASE Words[e] = 0
      BY <2>6, <3>1 DEF SendAnswer, ReceiveAnswer, Owned
    <3>2. CASE Words[e] # 0
      <4>1. interval'[e] # None
        BY <2>6, <3>2, MessageHookAssumption DEF SendAnswer, ReceiveAnswer, HomeInv, HookTyped
      <4>2. QED
        BY <4>1 DEF Owned, Owns
    <3>3. QED
      BY <3>1, <3>2
  <2>7. CASE SendLost(e)
    <3>1. target[e] \notin rows /\ stage[e] \in {"sent", "answered"}
      BY <1>2, <2>7 DEF SendLost, SendFails
    <3>2. Deleted(target[e])
      BY <3>1 DEF HomeInv, SendTyped, Deleted
    <3>3. QED
      BY <1>3, <3>2 DEF Owned
  <2>8. QED
    BY <1>14, <2>1, <2>2, <2>3, <2>4, <2>5, <2>6, <2>7 DEF SendStep
<1>15. ASSUME NEW e \in Sends, TimerTick(e) PROVE Owned'
  <2>1. CASE ShowWord(e)
    <3>1. interval'[e] # None
      <4>1. interval'[e] = interval[e] + 1 /\ interval[e] \in Nat
        BY <2>1 DEF ShowWord, NextWord, HomeInv, HookTyped
      <4>2. QED
        BY <4>1, MessageHookAssumption
    <3>2. QED
      BY <3>1 DEF Owned, Owns
  <2>2. CASE FinishStream(e)
    <3>1. target[e] \in Chats
      BY <2>2 DEF FinishStream, HomeInv, SendTyped, ListTyped
    <3>2. loads'[e] = Load(target[e]) /\ Load(target[e]) # None
      BY <2>2, <3>1, MessageHookAssumption
         DEF FinishStream, SyncWithServer, Load, LoadCall, HomeInv, HookTyped
    <3>3. QED
      BY <3>2 DEF Owned, Owns
  <2>3. QED
    BY <1>15, <2>1, <2>2 DEF TimerTick
<1>16. ASSUME NEW i \in Slots \cup Sends, LoadStep(i) PROVE Owned'
  <2>1. CASE ServerHistory(i)
    <3>1. /\ UNCHANGED <<sending, interval, stage>>
          /\ loads' = [loads EXCEPT ![i].reply = history[loads[i].chat]]
          /\ loads[i] \in LoadCall /\ loads[i].chat \in Chats
      BY <2>1 DEF ServerHistory, AnswerHistory, Unanswered, InFlight, stream, sendVars, HomeInv, HookTyped,
                  LoadCall
    <3>2. loads'[i] # None /\ \A e \in Sends : e # i => loads'[e] = loads[e]
      BY <3>1, MessageHookAssumption DEF HomeInv, HookTyped, SendTyped, LoadCall
    <3>3. QED
      BY <1>4, <3>1, <3>2 DEF Owns
  <2>2. CASE HistoryAnswer(i)
    <3>1. EndLoad(i)
      BY <2>2 DEF HistoryAnswer, ReceiveHistory, HistoryFails
    <3>2. CASE i \in Sends
      BY <3>1, <3>2 DEF EndLoad, Owned
    <3>3. CASE i \notin Sends
      <4>1. /\ UNCHANGED <<interval, stage>> /\ (sending' => sending)
            /\ \A e \in Sends : loads'[e] = loads[e]
        BY <3>1, <3>3 DEF EndLoad, stream, sendVars, HomeInv, HookTyped
      <4>2. QED
        BY <1>4, <4>1 DEF Owns
    <3>4. QED
      BY <3>2, <3>3
  <2>3. QED
    BY <1>16, <2>1, <2>2 DEF LoadStep
<1>17. CASE Step /\ Observe
  BY <1>10, <1>11, <1>12, <1>13, <1>14, <1>15, <1>16, <1>17 DEF Step, Sidebar, Input
<1>18. QED
  BY <1>9, <1>17 DEF Next

\* While isSending keeps the input disabled there is, in a conversation nothing
\* disturbed, a send, a stream or a final reload that will clear it, as the
\* comment at use-messages.ts:232 says, unless the chat of a send was deleted.
\* The run home_page_sending shows that elsewhere there may be none.
THEOREM QuietSendingHasOwner ==
    Spec => [](Quiet => SendingHasOwner \/ \E e \in Sends : Deleted(target[e]))
<1>1. Init => Targetless /\ (Quiet => Owned)
  BY DEF Init, HookInit, Targetless, Owned
<1>2. HomeInv /\ InOrder /\ QuietInv /\ Targetless /\ (Quiet => Owned) /\ [Next]_vars
          => Targetless' /\ (Quiet => Owned)'
  BY OwnedStep, TargetSteps
<1>3. (Quiet => Owned) => (Quiet => SendingHasOwner \/ \E e \in Sends : Deleted(target[e]))
  BY DEF Owned, Owns, SendingHasOwner
<1>4. QED
  BY <1>1, <1>2, <1>3, HomeInvHolds, InOrderHolds, QuietInvHolds, PTL DEF Spec
=============================================================================
