----------------------------- MODULE ChatListHook -----------------------------
(***************************************************************************)
(* frontend/hooks/use-chats.ts: the list of chats in the sidebar, kept by  *)
(* optimistic updates whose requests nobody awaits, and reloaded whole     *)
(* when one of them fails.  Titles are left out: renaming matters to the   *)
(* list only through the reload after a failure.                           *)
(***************************************************************************)
EXTENDS Integers, ApiCalls

CONSTANTS Refreshes   \* bound: calls of refreshChats in flight at once

ASSUME ChatListAssumption ==
    /\ Chats \subseteq Nat   \* numbered in the order of creation
    /\ Refreshes # {}

VARIABLES
    chats,       \* chats, the list on display
    listLoading, \* isLoading
    refreshes,   \* refreshes[i]: a call of refreshChats in flight and the list it was answered
    deleting,    \* chats with a DELETE in flight
    renaming,    \* chats with a PATCH in flight
    rows         \* the server: the user's chat sessions

listVars == <<chats, listLoading, refreshes, deleting, renaming>>

\* The list is sorted by created_at, newest first.
Newest(cs) == CHOOSE c \in cs : \A d \in cs : d <= c

\* useChats mounts with a reload in flight.
ListInit ==
    /\ chats = {}
    /\ listLoading = TRUE
    /\ \E i \in Refreshes :
        /\ i = CHOOSE j \in Refreshes : TRUE
        /\ refreshes = [j \in Refreshes |-> IF j = i THEN Sent ELSE None]
    /\ deleting = {} /\ renaming = {}

-----------------------------------------------------------------------------

\* refreshChats up to its await.
RefreshChats ==
    /\ \E i \in Refreshes : refreshes[i] = None
    /\ LET i == CHOOSE j \in Refreshes : refreshes[j] = None
       IN  refreshes' = [refreshes EXCEPT ![i] = Sent]
    /\ listLoading' = TRUE

\* deleteChat and updateChatTitle: the list changes before the server does.
RemoveFromList(c) ==
    /\ chats' = chats \ {c}
    /\ deleting' = deleting \cup {c}

RenameInList(c) == renaming' = renaming \cup {c}

\* createChat after its await.
AddToList(c) == chats' = chats \cup {c}

-----------------------------------------------------------------------------
(* Answers.  The page reacts to the ones that change the list. *)

AnswerRefresh(i) ==
    /\ Unanswered(refreshes[i])
    /\ refreshes' = [refreshes EXCEPT ![i].reply = rows]
    /\ UNCHANGED <<chats, listLoading, deleting, renaming, rows>>

ReceiveRefresh(i) ==
    /\ Answered(refreshes[i])
    /\ chats' = refreshes[i].reply
    /\ listLoading' = FALSE
    /\ refreshes' = [refreshes EXCEPT ![i] = None]
    /\ UNCHANGED <<deleting, renaming, rows>>

\* A failed reload empties the list.
RefreshFails(i) ==
    /\ InFlight(refreshes[i])
    /\ chats' = {}
    /\ listLoading' = FALSE
    /\ refreshes' = [refreshes EXCEPT ![i] = None]
    /\ UNCHANGED <<deleting, renaming, rows>>

DeleteAnswered(c) ==
    /\ c \in deleting
    /\ deleting' = deleting \ {c}
    /\ rows' = rows \ {c}
    /\ UNCHANGED <<chats, listLoading, refreshes, renaming>>

\* The request or only its answer is lost.
DeleteFails(c) ==
    /\ c \in deleting
    /\ deleting' = deleting \ {c}
    /\ rows' \in {rows, rows \ {c}}
    /\ RefreshChats
    /\ UNCHANGED <<chats, renaming>>

RenameAnswered(c) ==
    /\ c \in renaming
    /\ renaming' = renaming \ {c}
    /\ UNCHANGED <<chats, listLoading, refreshes, deleting, rows>>

RenameFails(c) ==
    /\ c \in renaming
    /\ renaming' = renaming \ {c}
    /\ RefreshChats
    /\ UNCHANGED <<chats, deleting, rows>>
=============================================================================
