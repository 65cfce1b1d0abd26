------------------------------- MODULE ApiErrors -------------------------------
(***************************************************************************)
(* What apiRequest (frontend/lib/api/client.ts) makes of an answer, and    *)
(* what the user is told of a failure: functions of the answer, checked    *)
(* against what they are for over every combination of its features.       *)
(***************************************************************************)
LOCAL INSTANCE Integers

\* Times are in tenths of a second; "number" and "date" are what the header
\* parses as, and a date is given by its distance from now.
RetryHeaders ==
    [kind : {"number"}, tenths : 0..25] \cup [kind : {"date"}, tenths : -12..25]
        \cup [kind : {"absent", "other"}, tenths : {0}]

Ceil(tenths) == (tenths + 9) \div 10

\* parseRetryAfterHeader: the seconds to wait, if it finds any.
RetryAfterSeconds(header) ==
    CASE header.kind = "number" -> {Ceil(header.tenths)}
      [] header.kind = "date" -> {IF header.tenths > 0 THEN Ceil(header.tenths) ELSE 0}
      [] OTHER -> {}

\* An answer: its status; whether the body is JSON; its detail or text, "list"
\* being the detail of a validation error; and its Retry-After.
Replies ==
    [status : {200, 204, 401, 404, 422, 429, 500, 503}, json : BOOLEAN,
     body : {"absent", "null", "text", "list"}, retry : RetryHeaders]

\* readErrorMessage; "reason" is the status text, which may be empty.
ReadErrorMessage(reply) ==
    CASE reply.json -> CASE reply.body = "text" -> "text"
                         [] reply.body = "list" -> "[object Object]"
                         [] OTHER -> "reason"
      [] OTHER -> IF reply.body = "absent" THEN "reason" ELSE "text"

\* getApiErrorMessage.
ErrorMessage(reply) ==
    LET wait == RetryAfterSeconds(reply.retry)
    IN  CASE reply.status = 503 -> "unavailable"
          [] reply.status = 429 /\ wait # {} -> "wait for the seconds"
          [] reply.status = 429 /\ wait = {} -> "wait a moment"
          [] OTHER -> ReadErrorMessage(reply)

\* How a call ends: apiRequest returns, throws an ApiError it has told the
\* user of, or throws something else.  fetch rejects when the network fails,
\* and the import of the toast library may.
Outcomes == {"value", "notified", "unknown"}

Outcome(answered, reply, toastLoads) ==
    CASE ~answered -> "unknown"
      [] answered /\ reply.status < 300 -> "value"
      [] OTHER -> IF toastLoads THEN "notified" ELSE "unknown"

\* The catch clause of the page's and the panels' handlers.
CatchTells(outcome) == outcome = "unknown"

\* The toasts one call leads to in a handler that has such a clause.
Toasts(outcome) ==
    (IF outcome = "notified" THEN 1 ELSE 0) + (IF CatchTells(outcome) THEN 1 ELSE 0)

\* A client that waits as long as it is told to waits long enough, and less
\* than a second too long (parseRetryAfterHeader rounds up; the server's own
\* rounding is in RateLimiter).
ASSUME WaitsLongEnough ==
    \A h \in RetryHeaders :
        h.kind \in {"number", "date"} =>
            \E seconds \in RetryAfterSeconds(h) :
                /\ 10 * seconds >= h.tenths
                /\ 10 * seconds < h.tenths + 10 \/ seconds = 0

\* Every failure is told exactly once, by apiRequest or by the handler that
\* catches it, and a success not at all.
ASSUME ToldOnce ==
    \A answered, toastLoads \in BOOLEAN, reply \in Replies :
        Toasts(Outcome(answered, reply, toastLoads)) =
            IF answered /\ reply.status < 300 THEN 0 ELSE 1

\* The text the server wrote reaches the user, unless the status has a text
\* of its own or the detail is a list.
ASSUME ServerTextShown ==
    \A reply \in Replies :
        reply.status \notin {429, 503} /\ reply.body = "text" => ErrorMessage(reply) = "text"
=============================================================================
