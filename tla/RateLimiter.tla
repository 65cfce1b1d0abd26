---------------------------- MODULE RateLimiter ----------------------------
(***************************************************************************)
(* The sliding window of middleware/rate_limit.py: check_rate_limit, run   *)
(* under the limiter's lock for every request that is not whitelisted, and *)
(* the periodic cleanup inside it.  A check reads the clock up to three    *)
(* times; time may pass between its readings.                              *)
(***************************************************************************)
EXTENDS Integers, FiniteSets

CONSTANTS
    Users,            \* identifiers: `user:{id}` or `ip:{address}`
    Limit,            \* RATE_LIMIT_PER_MINUTE
    Window,           \* RATE_LIMIT_WINDOW_SECONDS, in clock ticks
    CleanupInterval,  \* RATE_LIMIT_CLEANUP_INTERVAL, in clock ticks
    Second,           \* clock ticks in a second
    Delay,            \* ticks that can pass during one check
    Horizon           \* bound: the clock stops here

ASSUME LimiterAssumption ==
    /\ Limit \in Nat \ {0}
    /\ Window \in Nat \ {0}
    /\ CleanupInterval \in Nat
    /\ Second \in Nat \ {0}
    /\ Delay \in 0 .. (Window - 1)
    /\ Horizon \in Nat

VARIABLES
    now,          \* time.time()
    requests,     \* _requests: the admissions remembered, {} for an absent user
    lastCleanup,  \* _last_cleanup
    log,          \* history: every admission
    promised,     \* history: when the rejections since the last admission said to retry
    lastCheck     \* history: the first clock reading of the last check

vars == <<now, requests, lastCleanup, log, promised, lastCheck>>

\* A timestamp of the list; the number keeps equal timestamps apart.
Admissions == [at : Nat, nth : Nat]

Init ==
    /\ now = 0
    /\ requests = [u \in Users |-> {}]
    /\ lastCleanup = 0
    /\ log = [u \in Users |-> {}]
    /\ promised = [u \in Users |-> {}]
    /\ lastCheck = 0

Tick ==
    /\ now < Horizon
    /\ now' = now + 1
    /\ UNCHANGED <<requests, lastCleanup, log, promised, lastCheck>>

\* Variant: a timestamp leaves the list a tick before it leaves the window.
RecentShort(stamps, time) == {r \in stamps : r.at > time - Window + 1}

\* The timestamps after the cutoff.
Recent(stamps, time) == {r \in stamps : r.at > time - Window}

CleanupDue == now - lastCleanup > CleanupInterval

\* Variant: the time the next cleanup is due is stored as that of the last one.
NextCleanup(cleaned) == IF CleanupDue THEN cleaned + CleanupInterval ELSE lastCleanup

\* _last_cleanup after a check whose cleanup, if one is due, reads `cleaned`.
LastCleanup(cleaned) == IF CleanupDue THEN cleaned ELSE lastCleanup

\* Variant: the cleanup never runs.
NothingSwept(cleaned) == requests

\* Variant: the cleanup's cutoff is its own interval, not the window.
SweptByInterval(cleaned) ==
    IF CleanupDue
    THEN [u \in Users |-> {r \in requests[u] : r.at > cleaned - CleanupInterval}]
    ELSE requests

\* _cleanup_old_entries, when the interval has passed.
Swept(cleaned) ==
    IF CleanupDue THEN [u \in Users |-> Recent(requests[u], cleaned)] ELSE requests

\* _get_user_requests.
Counted(u, cleaned, read) == Recent(Swept(cleaned)[u], read)

\* Variant: the wait is cut to whole seconds.
RetryAfterTruncated(oldest) == Second * ((Window - (now - oldest)) \div Second)

\* retry_after: whole seconds, truncated, plus one.
RetryAfter(oldest) == Second * ((Window - (now - oldest)) \div Second + 1)

\* Room is left: the first reading is the timestamp stored.
Admit(u, cleaned, read) ==
    LET mine == Counted(u, cleaned, read)
        new == [at |-> now, nth |-> Cardinality(log[u])]
    IN  /\ Cardinality(mine) < Limit
        /\ requests' = [Swept(cleaned) EXCEPT ![u] = mine \cup {new}]
        /\ log' = [log EXCEPT ![u] = @ \cup {new}]
        /\ promised' = [promised EXCEPT ![u] = {}]

\* Variant: a rejected request takes a place in the window too.
RejectCounted(u, cleaned, read) ==
    LET mine == Counted(u, cleaned, read)
    IN  /\ Cardinality(mine) >= Limit
        /\ requests' = [Swept(cleaned) EXCEPT ![u] =
                           mine \cup {[at |-> now, nth |-> Cardinality(mine) + Horizon]}]
        /\ \E oldest \in mine :
              /\ \A r \in mine : oldest.at <= r.at
              /\ promised' = [promised EXCEPT ![u] = @ \cup {now + RetryAfter(oldest.at)}]
        /\ UNCHANGED log

\* The window is full: the caller is told when its oldest request leaves it.
Reject(u, cleaned, read) ==
    LET mine == Counted(u, cleaned, read)
    IN  /\ Cardinality(mine) >= Limit
        /\ requests' = [Swept(cleaned) EXCEPT ![u] = mine]
        /\ \E oldest \in mine :
              /\ \A r \in mine : oldest.at <= r.at
              /\ promised' = [promised EXCEPT ![u] = @ \cup {now + RetryAfter(oldest.at)}]
        /\ UNCHANGED log

\* check_rate_limit: the cleanup and the pruning read the clock again.
Check(u) ==
    \E cleaned, read \in now .. (now + Delay) :
        /\ cleaned <= read
        /\ read <= Horizon
        /\ Admit(u, cleaned, read) \/ Reject(u, cleaned, read)
        /\ lastCleanup' = LastCleanup(cleaned)
        /\ lastCheck' = now
        /\ now' = read

Next == Tick \/ \E u \in Users : Check(u)

Spec == Init /\ [][Next]_vars

-----------------------------------------------------------------------------
(* Properties. *)

\* Every variable has its type; the clock only moves forward.
TypeOK ==
    /\ now \in Nat
    /\ requests \in [Users -> SUBSET Admissions]
    /\ lastCleanup \in 0 .. now
    /\ log \in [Users -> SUBSET Admissions]
    /\ promised \in [Users -> SUBSET Nat]
    /\ lastCheck \in 0 .. now

\* The limit itself, across checks, cleanups and forgotten timestamps: whatever
\* window one looks at, it holds at most Limit admissions of a user.  The window
\* is shorter by what a check may take, because a check stores its first clock
\* reading and prunes by its last.
AtMostLimit ==
    \A u \in Users, t \in 0 .. Horizon :
        Cardinality({r \in log[u] : t - (Window - Delay) < r.at /\ r.at <= t}) <= Limit

\* Retry-After is right up to its rounding: the moment from which the window has
\* room again (unless the user is admitted before) lies before the announced
\* one, and by no more than a second.  It is a whole second when the wait is a
\* whole number of seconds: the code adds one to that number too.
RetryAfterExact ==
    \A u \in Users : \A p \in promised[u] :
        \E free \in (p - Second) .. (p - 1) :
            /\ Cardinality(Recent(log[u], free)) < Limit
            /\ Cardinality(Recent(log[u], free - 1)) >= Limit

\* A client that comes back when told, or later, is never turned away again.
PromiseKept ==
    [][\A u \in Users : \A cleaned, read \in now .. (now + Delay) :
          cleaned <= read /\ Reject(u, cleaned, read) => \A p \in promised[u] : now < p]_vars

\* The lists do not grow with the users that ever came: after a check nothing
\* older than a window and a cleanup interval is remembered of anybody.
StaleBounded ==
    \A u \in Users : \A r \in requests[u] : r.at > lastCheck - Window - CleanupInterval

Unforgetting == INSTANCE SlidingWindow

\* What the lists have forgotten, in a cleanup or in the pruning of a check,
\* never shows: every decision and every announced moment is one of a limiter
\* that remembers all admissions.
ImplementsWindow == Unforgetting!Spec

=============================================================================
