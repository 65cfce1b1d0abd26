------------------------------- MODULE ApiCalls -------------------------------
(***************************************************************************)
(* A request of the frontend in flight (frontend/lib/api/client.ts): the   *)
(* server answers it with what it holds at that moment, and the browser    *)
(* applies the answer later, in any order with the others, or the request  *)
(* or its answer is lost.  Nothing in the client cancels a request.        *)
(***************************************************************************)
CONSTANTS
    Chats,  \* ids of chat sessions
    None

\* A call nobody has answered yet; None where no call is in flight.
Sent == [reply |-> None]

InFlight(call) == call # None
Unanswered(call) == InFlight(call) /\ call.reply = None
Answered(call) == InFlight(call) /\ call.reply # None
=============================================================================
