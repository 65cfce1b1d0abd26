----------------------------- MODULE MessageHook -----------------------------
(***************************************************************************)
(* frontend/hooks/use-messages.ts: the messages on display, the requests   *)
(* for a chat's history, and the word-by-word animation of an answer.      *)
(* A question and its answer are stored, returned and shown together; the  *)
(* pair is a turn, named by the send that made it.  JavaScript runs a      *)
(* callback up to its next await without interruption: one action each.    *)
(* What the page calls is an operator on this module's variables; what the *)
(* browser calls back (an answer, a timer) is an action of its own.        *)
(***************************************************************************)
EXTENDS Integers, Sequences, ApiCalls

CONSTANTS
    Sends,     \* every call of sendMessage that is ever made
    Slots,     \* bound: calls of loadHistory by the page in flight at once
    Words      \* Words[e]: how many words the answer to e has

\* Calls of loadHistory: the chat and the turns it was answered.
LoadCall == [chat : Chats, reply : Seq(Sends) \cup {None}]

ASSUME MessageHookAssumption ==
    /\ Words \in [Sends -> Nat]
    /\ None \notin Chats /\ None \notin Sends
    /\ None \notin Nat /\ None \notin LoadCall
    /\ Slots \cap Sends = {}

VARIABLES
    shown,           \* messages, in the order of display
    loadingHistory,  \* isLoadingHistory
    sending,         \* isSending
    streaming,       \* isStreaming
    interval,        \* interval[e]: words shown so far by the interval of e, None when none runs
    timerRef,        \* streamTimerRef: the send whose interval it holds
    streamRef,       \* streamingMessageIdRef and streamingFinalContentRef, set and reset together
    loads,           \* loads[i]: a call of loadHistory in flight; i \in Sends is the sync after e
    stage,           \* how far each send has come
    target,          \* the chat each send is for
    history          \* the server: the turns each chat has stored

stream == <<streaming, interval, timerRef, streamRef>>
hookVars == <<shown, loadingHistory, sending, stream, loads>>
sendVars == <<stage, target>>

Turn(e, words, live) == [send |-> e, words |-> words, live |-> live]

\* mapChatMessageReadToMessage over a stored chat.
Complete(turns) == [i \in DOMAIN turns |-> Turn(turns[i], Words[turns[i]], FALSE)]

\* setMessages with a map that changes the turn of e and no other.
WithTurn(turns, e, words, live) ==
    [i \in DOMAIN turns |->
        IF turns[i].send = e THEN Turn(e, words, live) ELSE turns[i]]

HookInit ==
    /\ shown = <<>>
    /\ loadingHistory = FALSE /\ sending = FALSE /\ streaming = FALSE
    /\ interval = [e \in Sends |-> None]
    /\ timerRef = None /\ streamRef = None
    /\ loads = [i \in Slots \cup Sends |-> None]
    /\ stage = [e \in Sends |-> "idle"]
    /\ target = [e \in Sends |-> None]

Goto(e, s) == stage' = [stage EXCEPT ![e] = s]

-----------------------------------------------------------------------------
(* What the page calls. *)

\* Variant: stopStreaming forgets to clear the interval.
NotInterrupted == interval

\* clearInterval(streamTimerRef.current).
Interrupted == IF timerRef = None THEN interval ELSE [interval EXCEPT ![timerRef] = None]

NotStreaming == timerRef' = None /\ streamRef' = None /\ streaming' = FALSE

ResetStream == interval' = Interrupted /\ NotStreaming

\* stopStreaming.  The updater reads streamingFinalContentRef when React runs
\* it: at once when no update is queued, and otherwise at the next render,
\* by which time line 116 has emptied the ref.
StopStreaming ==
    /\ ResetStream
    /\ IF streamRef = None THEN UNCHANGED shown
       ELSE \E words \in {0, Words[streamRef]} :
                shown' = WithTurn(shown, streamRef, words, FALSE)

ClearMessages ==
    /\ ResetStream
    /\ shown' = <<>>

Load(c) == [chat |-> c, reply |-> None]

FreeSlots == {i \in Slots : loads[i] = None}

\* loadHistory up to its await.
LoadHistory(c) ==
    /\ \E i \in FreeSlots :
        /\ i = CHOOSE j \in FreeSlots : TRUE
        /\ loads' = [loads EXCEPT ![i] = Load(c)]
    /\ loadingHistory' = TRUE

\* sendMessage up to its await.
SendMessage(e, c) ==
    /\ StopStreaming
    /\ sending' = TRUE
    /\ Goto(e, "sent")
    /\ target' = [target EXCEPT ![e] = c]
    /\ UNCHANGED <<loadingHistory, loads>>

-----------------------------------------------------------------------------
(* What the browser calls back. *)

\* Variant: the index is not advanced.
SameWord(e) == interval[e]

NextWord(e) == interval[e] + 1

\* The interval callback short of the last word.
ShowWord(e) ==
    /\ interval[e] # None
    /\ NextWord(e) < Words[e]
    /\ interval' = [interval EXCEPT ![e] = NextWord(e)]
    /\ shown' = WithTurn(shown, e, NextWord(e), TRUE)
    /\ UNCHANGED <<loadingHistory, sending, streaming, timerRef, streamRef, loads,
                   sendVars, history>>

\* Variant: the stream ends without the final reload.
NoSync(e) == sending' = FALSE /\ UNCHANGED <<loads, loadingHistory>>

\* "Sync final persisted state from server", for the chat of the send.
SyncWithServer(e) ==
    /\ loads' = [loads EXCEPT ![e] = Load(target[e])]
    /\ loadingHistory' = TRUE
    /\ UNCHANGED sending

\* The interval callback at the last word, and again for as long as the
\* interval lives: it stops the interval the ref names, which is another one
\* when a later send overwrote the ref.  The second setMessages of the batch
\* is applied when React renders, after line 214 emptied the content ref.
\* Bound: one reload of a send in flight (loads[e] = None).
FinishStream(e) ==
    /\ interval[e] # None
    /\ NextWord(e) >= Words[e]
    /\ loads[e] = None
    /\ interval' = LET counted == [interval EXCEPT ![e] = Words[e]]
                   IN  IF timerRef = None THEN counted
                       ELSE [counted EXCEPT ![timerRef] = None]
    /\ NotStreaming
    /\ shown' = WithTurn(shown, e, 0, FALSE)
    /\ SyncWithServer(e)
    /\ UNCHANGED <<sendVars, history>>

\* The answer to the POST, in sendMessage.
ReceiveAnswer(e) ==
    /\ stage[e] = "answered"
    /\ Goto(e, "over")
    /\ shown' = Append(shown, Turn(e, 0, Words[e] > 0))
    /\ IF Words[e] = 0
       THEN /\ sending' = FALSE
            /\ UNCHANGED stream
       ELSE /\ streaming' = TRUE
            /\ streamRef' = e /\ timerRef' = e
            /\ interval' = [interval EXCEPT ![e] = 0]
            /\ UNCHANGED sending
    /\ UNCHANGED <<loadingHistory, loads, target, history>>

\* The POST fails: the finally block does nothing and the page's handler only
\* shows a toast.
SendFails(e) ==
    /\ stage[e] \in {"sent", "answered"}
    /\ Goto(e, "over")
    /\ UNCHANGED <<hookVars, target, history>>

\* Variant: the finally block after the final reload is lost.
EndLoadOnly(i) ==
    /\ loads' = [loads EXCEPT ![i] = None]
    /\ loadingHistory' = FALSE
    /\ UNCHANGED <<sending, stream, sendVars, history>>

\* The second half of loadHistory; the sync after a stream clears isSending
\* in its finally block.
EndLoad(i) ==
    /\ loads' = [loads EXCEPT ![i] = None]
    /\ loadingHistory' = FALSE
    /\ sending' = (sending /\ i \notin Sends)
    /\ UNCHANGED <<stream, sendVars, history>>

ReceiveHistory(i) ==
    /\ Answered(loads[i])
    /\ shown' = Complete(loads[i].reply)
    /\ EndLoad(i)

HistoryFails(i) ==
    /\ InFlight(loads[i])
    /\ UNCHANGED shown
    /\ EndLoad(i)

-----------------------------------------------------------------------------
(* The server. *)

AnswerHistory(i) ==
    /\ Unanswered(loads[i])
    /\ loads' = [loads EXCEPT ![i].reply = history[loads[i].chat]]
    /\ UNCHANGED <<shown, loadingHistory, sending, stream, sendVars, history>>

AnswerSend(e) ==
    /\ stage[e] = "sent"
    /\ Goto(e, "answered")
    /\ history' = [history EXCEPT ![target[e]] = Append(@, e)]
    /\ UNCHANGED <<hookVars, target>>
=============================================================================
