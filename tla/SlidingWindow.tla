---------------------------- MODULE SlidingWindow ----------------------------
(***************************************************************************)
(* What the rate limiter promises to those who call: it decides as one     *)
(* that remembers every admission ever.  Nothing is pruned, there is no    *)
(* cleanup, and a rejection announces any moment within a second after the *)
(* oldest admission has left the window.                                   *)
(***************************************************************************)
EXTENDS Integers, FiniteSets

CONSTANTS Users, Limit, Window, Second, Delay, Horizon

VARIABLES
    now,       \* the clock
    log,       \* log[u]: every admission of u
    promised   \* when the rejections since the last admission said to retry

vars == <<now, log, promised>>

Init ==
    /\ now = 0
    /\ log = [u \in Users |-> {}]
    /\ promised = [u \in Users |-> {}]

Tick ==
    /\ now < Horizon
    /\ now' = now + 1
    /\ UNCHANGED <<log, promised>>

\* The admissions of a user that a decision made at `read` counts.
InWindow(u, read) == {r \in log[u] : r.at > read - Window}

Admit(u, read) ==
    /\ Cardinality(InWindow(u, read)) < Limit
    /\ log' = [log EXCEPT ![u] = @ \cup {[at |-> now, nth |-> Cardinality(@)]}]
    /\ promised' = [promised EXCEPT ![u] = {}]

\* The caller is told a moment: the oldest has left the window by then.
Reject(u, read) ==
    /\ Cardinality(InWindow(u, read)) >= Limit
    /\ \E oldest \in InWindow(u, read) :
          /\ \A r \in InWindow(u, read) : oldest.at <= r.at
          /\ \E moment \in (oldest.at + Window + 1) .. (oldest.at + Window + Second) :
                promised' = [promised EXCEPT ![u] = @ \cup {moment}]
    /\ UNCHANGED log

\* A call begins now and is decided within the delay.
Check(u) ==
    \E read \in now .. (now + Delay) :
        /\ read <= Horizon
        /\ Admit(u, read) \/ Reject(u, read)
        /\ now' = read

Next == Tick \/ \E u \in Users : Check(u)

Spec == Init /\ [][Next]_vars
=============================================================================
