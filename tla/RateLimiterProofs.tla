------------------------- MODULE RateLimiterProofs -------------------------
(***************************************************************************)
(* Proofs about RateLimiter, for every number of users, limit, window,     *)
(* cleanup interval, clock resolution, duration of a check and horizon.    *)
(***************************************************************************)
EXTENDS RateLimiter, FiniteSetTheorems, TLAPS

(* The inductive invariant, in named parts. *)

\* What is remembered of a user are admissions, and every admission that the
\* window still reaches is remembered: pruning forgets nothing that counts.
Remembered ==
    \A u \in Users :
        /\ IsFiniteSet(log[u])
        /\ requests[u] \subseteq log[u]
        /\ \A r \in log[u] : r.at <= now
        /\ Recent(log[u], now) \subseteq requests[u]

\* A list never holds more than the limit.
WithinLimit == \A u \in Users : Cardinality(requests[u]) <= Limit

\* Nothing remembered is a window older than the last cleanup, and the last
\* check ran a cleanup if one was due.
SweptInTime ==
    /\ \A u \in Users : \A r \in requests[u] : r.at > lastCleanup - Window
    /\ lastCheck - lastCleanup <= CleanupInterval

LimiterInv == TypeOK /\ Remembered /\ WithinLimit /\ SweptInTime

\* The clock readings of a check that starts now.
Readings(cleaned, read) ==
    /\ cleaned \in Int /\ read \in Int
    /\ now <= cleaned /\ cleaned <= read /\ read <= now + Delay

\* What a check of u writes besides the decision.
Bookkeeping(cleaned, read) ==
    /\ lastCleanup' = LastCleanup(cleaned)
    /\ lastCheck' = now
    /\ now' = read

-----------------------------------------------------------------------------

\* Pruning drops, and drops only what the window no longer reaches.
LEMMA RecentFacts ==
  ASSUME NEW S \in SUBSET Admissions, NEW a \in Int, NEW b \in Int, a <= b
  PROVE  /\ Recent(S, b) \subseteq Recent(S, a)
         /\ Recent(S, a) \subseteq S
         /\ Recent(Recent(S, a), b) = Recent(S, b)
BY LimiterAssumption DEF Recent, Admissions

\* A cleanup leaves every list between its part in the window and itself.
LEMMA SweptFacts ==
  ASSUME TypeOK, NEW cleaned \in Int, now <= cleaned, NEW u \in Users
  PROVE  /\ Swept(cleaned) \in [Users -> SUBSET Admissions]
         /\ Recent(requests[u], cleaned) \subseteq Swept(cleaned)[u]
         /\ Swept(cleaned)[u] \subseteq requests[u]
<1>1. CASE CleanupDue
  BY <1>1 DEF TypeOK, Swept, Recent
<1>2. CASE ~CleanupDue
  BY <1>2 DEF TypeOK, Swept, Recent
<1>3. QED
  BY <1>1, <1>2

\* A check counts exactly the admissions in the window of its last reading,
\* whether or not a cleanup ran: what was forgotten never changes a decision.
LEMMA CountIsExact ==
  ASSUME LimiterInv, NEW u \in Users, NEW cleaned, NEW read, Readings(cleaned, read)
  PROVE  /\ Counted(u, cleaned, read) = Recent(log[u], read)
         /\ Counted(u, cleaned, read) \subseteq requests[u]
         /\ IsFiniteSet(Counted(u, cleaned, read))
         /\ Cardinality(Counted(u, cleaned, read)) \in Nat
         /\ Cardinality(Counted(u, cleaned, read)) <= Limit
<1> DEFINE mine == Counted(u, cleaned, read)
<1>1. now \in Int /\ cleaned \in Int /\ read \in Int /\ now <= read /\ cleaned <= read
      /\ now <= cleaned
  BY DEF LimiterInv, TypeOK, Readings
<1>2. log[u] \in SUBSET Admissions /\ requests[u] \in SUBSET Admissions
  BY DEF LimiterInv, TypeOK
<1>3. Recent(log[u], read) \subseteq requests[u]
  BY <1>1, <1>2, RecentFacts DEF LimiterInv, Remembered
<1>4. /\ Recent(requests[u], cleaned) \subseteq Swept(cleaned)[u]
      /\ Swept(cleaned)[u] \subseteq requests[u]
  BY <1>1, SweptFacts DEF LimiterInv
<1>5. requests[u] \subseteq log[u]
  BY DEF LimiterInv, Remembered
<1>6. Recent(log[u], read) \subseteq Recent(requests[u], cleaned)
  BY <1>1, <1>2, <1>3, LimiterAssumption DEF Recent, Admissions
<1>7. mine = Recent(log[u], read)
  BY <1>4, <1>5, <1>6 DEF Counted, Recent
<1>8. mine \subseteq requests[u]
  BY <1>4 DEF Counted, Recent
<1>9. IsFiniteSet(requests[u]) /\ Cardinality(requests[u]) <= Limit
  <2>1. IsFiniteSet(requests[u])
    BY <1>5, FS_Subset DEF LimiterInv, Remembered
  <2>2. QED
    BY <2>1 DEF LimiterInv, WithinLimit
<1>10. IsFiniteSet(mine) /\ Cardinality(mine) <= Cardinality(requests[u])
  BY <1>8, <1>9, FS_Subset
<1>11. Cardinality(mine) \in Nat /\ Cardinality(requests[u]) \in Nat
  BY <1>9, <1>10, FS_CardinalityType
<1>12. QED
  BY <1>7, <1>8, <1>9, <1>10, <1>11, LimiterAssumption

\* The cleanup's bookkeeping: it ran in time, and nothing older than its window
\* is left anywhere.
LEMMA SweepInTime ==
  ASSUME LimiterInv, NEW cleaned, NEW read, Readings(cleaned, read),
         Bookkeeping(cleaned, read)
  PROVE  /\ now' \in Nat /\ lastCleanup' \in 0 .. now' /\ lastCheck' \in 0 .. now'
         /\ now <= now'
         /\ lastCheck' - lastCleanup' <= CleanupInterval
         /\ lastCleanup' <= now + Delay
         /\ \A x \in Users : \A r \in Swept(cleaned)[x] : r.at > lastCleanup' - Window
<1>1. /\ now \in Nat /\ lastCleanup \in 0 .. now /\ lastCheck \in 0 .. now
      /\ requests \in [Users -> SUBSET Admissions]
  BY DEF LimiterInv, TypeOK
<1>2. /\ cleaned \in Int /\ read \in Int /\ now <= cleaned /\ cleaned <= read
      /\ read <= now + Delay /\ lastCheck' = now /\ now' = read
      /\ lastCleanup' = LastCleanup(cleaned)
  BY DEF Readings, Bookkeeping
<1>3. CASE CleanupDue
  <2>1. lastCleanup' = cleaned
    BY <1>2, <1>3 DEF LastCleanup
  <2>2. \A x \in Users : Swept(cleaned)[x] = Recent(requests[x], cleaned)
    BY <1>3 DEF Swept
  <2>3. \A x \in Users : \A r \in Swept(cleaned)[x] : r.at > cleaned - Window
    BY <2>2 DEF Recent
  <2>4. QED
    BY <1>1, <1>2, <2>1, <2>3, LimiterAssumption
<1>4. CASE ~CleanupDue
  <2>1. lastCleanup' = lastCleanup
    BY <1>2, <1>4 DEF LastCleanup
  <2>2. now - lastCleanup <= CleanupInterval
    BY <1>1, <1>4, LimiterAssumption DEF CleanupDue
  <2>3. \A x \in Users : \A r \in Swept(cleaned)[x] : r.at > lastCleanup - Window
    BY <1>4 DEF Swept, LimiterInv, SweptInTime
  <2>4. QED
    BY <1>1, <1>2, <2>1, <2>2, <2>3, LimiterAssumption
<1>5. QED
  BY <1>3, <1>4

\* A rejected check keeps the invariant: it only prunes.
LEMMA RejectKeepsInv ==
  ASSUME LimiterInv, NEW u \in Users, NEW cleaned, NEW read, Readings(cleaned, read),
         Bookkeeping(cleaned, read), Reject(u, cleaned, read)
  PROVE  LimiterInv'
<1> DEFINE mine == Counted(u, cleaned, read)
<1>1. /\ now \in Nat /\ now' = read /\ read \in Int /\ cleaned \in Int
      /\ now <= cleaned /\ cleaned <= read
  BY DEF LimiterInv, TypeOK, Readings, Bookkeeping
<1>2. /\ mine = Recent(log[u], read) /\ mine \subseteq requests[u]
      /\ Cardinality(mine) <= Limit
  BY CountIsExact
<1>3. /\ requests \in [Users -> SUBSET Admissions] /\ log \in [Users -> SUBSET Admissions]
      /\ promised \in [Users -> SUBSET Nat]
  BY DEF LimiterInv, TypeOK
<1>4. /\ requests' = [Swept(cleaned) EXCEPT ![u] = mine]
      /\ log' = log
      /\ \E oldest \in mine :
           promised' = [promised EXCEPT ![u] = @ \cup {now + RetryAfter(oldest.at)}]
  BY DEF Reject
<1>5. Swept(cleaned) \in [Users -> SUBSET Admissions]
  BY <1>1, SweptFacts DEF LimiterInv
<1>6. \A x \in Users :
        /\ Recent(requests[x], cleaned) \subseteq Swept(cleaned)[x]
        /\ Swept(cleaned)[x] \subseteq requests[x]
  BY <1>1, SweptFacts DEF LimiterInv
<1>7. /\ requests'[u] = mine
      /\ \A x \in Users \ {u} : requests'[x] = Swept(cleaned)[x]
  BY <1>4, <1>5
<1>8. requests' \in [Users -> SUBSET Admissions]
  BY <1>2, <1>3, <1>4, <1>5
<1>9. PICK oldest \in mine :
        promised' = [promised EXCEPT ![u] = @ \cup {now + RetryAfter(oldest.at)}]
  BY <1>4
<1>10. now + RetryAfter(oldest.at) \in Nat
  <2>1. oldest.at \in Nat /\ oldest.at > read - Window /\ oldest.at <= now
    BY <1>2, <1>3 DEF Recent, Admissions, LimiterInv, Remembered
  <2>2. Window - (now - oldest.at) \in Nat
    BY <1>1, <2>1, LimiterAssumption
  <2>3. (Window - (now - oldest.at)) \div Second \in Nat
    BY <2>2, LimiterAssumption
  <2> DEFINE whole == (Window - (now - oldest.at)) \div Second
  <2>4. \A k \in Nat : Second * (k + 1) \in Nat
    BY LimiterAssumption
  <2>5. QED
    BY <1>1, <2>3, <2>4 DEF RetryAfter
<1>11. promised' \in [Users -> SUBSET Nat]
  BY <1>3, <1>9, <1>10
<1>12. TypeOK'
  BY <1>3, <1>4, <1>8, <1>11, SweepInTime DEF TypeOK
<1>13. ASSUME NEW x \in Users
       PROVE  /\ requests'[x] \subseteq requests[x]
              /\ Recent(log[x], read) \subseteq requests'[x]
  <2>1. CASE x = u
    BY <1>2, <1>7, <2>1
  <2>2. CASE x # u
    <3>1. Recent(log[x], now) \subseteq requests[x]
      BY DEF LimiterInv, Remembered
    <3>2. Recent(log[x], read) \subseteq Recent(requests[x], cleaned)
      BY <1>1, <1>3, <3>1, LimiterAssumption DEF Recent, Admissions
    <3>3. QED
      BY <1>6, <1>7, <2>2, <3>2
  <2>3. QED
    BY <2>1, <2>2
<1>14. Remembered'
  BY <1>1, <1>3, <1>4, <1>13 DEF Remembered, Recent, LimiterInv, Admissions
<1>15. ASSUME NEW x \in Users PROVE Cardinality(requests'[x]) <= Limit
  <2>1. IsFiniteSet(requests[x]) /\ Cardinality(requests[x]) <= Limit
    BY FS_Subset DEF LimiterInv, Remembered, WithinLimit
  <2>2. /\ IsFiniteSet(requests'[x])
        /\ Cardinality(requests'[x]) <= Cardinality(requests[x])
    BY <1>13, <2>1, FS_Subset
  <2>3. Cardinality(requests'[x]) \in Nat /\ Cardinality(requests[x]) \in Nat
    BY <2>1, <2>2, FS_CardinalityType
  <2>4. QED
    BY <2>1, <2>2, <2>3, LimiterAssumption
<1>16. SweptInTime'
  <2>1. mine \subseteq Swept(cleaned)[u]
    BY DEF Counted, Recent
  <2>2. QED
    BY <1>7, <2>1, SweepInTime DEF SweptInTime
<1>17. QED
  BY <1>12, <1>14, <1>15, <1>16 DEF LimiterInv, WithinLimit

\* The entry an admission adds, and what the log and the list become.
LEMMA AdmitEffect ==
  ASSUME LimiterInv, NEW u \in Users, NEW cleaned, NEW read, Readings(cleaned, read),
         Admit(u, cleaned, read)
  PROVE  \E new \in Admissions :
           /\ new.at = now
           /\ log' = [log EXCEPT ![u] = @ \cup {new}]
           /\ requests' = [Swept(cleaned) EXCEPT ![u] = Counted(u, cleaned, read) \cup {new}]
           /\ promised' = [promised EXCEPT ![u] = {}]
           /\ Cardinality(Counted(u, cleaned, read)) < Limit
<1> DEFINE new == [at |-> now, nth |-> Cardinality(log[u])]
<1>1. Cardinality(log[u]) \in Nat
  BY FS_CardinalityType DEF LimiterInv, Remembered
<1>2. new \in Admissions /\ new.at = now
  BY <1>1 DEF Admissions, LimiterInv, TypeOK
<1>3. QED
  BY <1>2 DEF Admit

\* An admitted check keeps the invariant: it prunes, and adds its own entry.
LEMMA AdmitKeepsInv ==
  ASSUME LimiterInv, NEW u \in Users, NEW cleaned, NEW read, Readings(cleaned, read),
         Bookkeeping(cleaned, read), Admit(u, cleaned, read)
  PROVE  LimiterInv'
<1> DEFINE mine == Counted(u, cleaned, read)
<1>1. /\ now \in Nat /\ now' = read /\ read \in Int /\ cleaned \in Int
      /\ now <= cleaned /\ cleaned <= read
  BY DEF LimiterInv, TypeOK, Readings, Bookkeeping
<1>2. /\ mine = Recent(log[u], read) /\ mine \subseteq requests[u]
      /\ IsFiniteSet(mine) /\ Cardinality(mine) \in Nat
  BY CountIsExact
<1>3. /\ requests \in [Users -> SUBSET Admissions] /\ log \in [Users -> SUBSET Admissions]
      /\ promised \in [Users -> SUBSET Nat]
  BY DEF LimiterInv, TypeOK
<1>4. PICK new \in Admissions :
        /\ new.at = now
        /\ log' = [log EXCEPT ![u] = @ \cup {new}]
        /\ requests' = [Swept(cleaned) EXCEPT ![u] = mine \cup {new}]
        /\ promised' = [promised EXCEPT ![u] = {}]
        /\ Cardinality(mine) < Limit
  BY AdmitEffect
<1>5. /\ Swept(cleaned) \in [Users -> SUBSET Admissions]
      /\ \A x \in Users :
           /\ Recent(requests[x], cleaned) \subseteq Swept(cleaned)[x]
           /\ Swept(cleaned)[x] \subseteq requests[x]
  BY <1>1, SweptFacts DEF LimiterInv
<1>6. /\ requests'[u] = mine \cup {new} /\ log'[u] = log[u] \cup {new}
      /\ \A x \in Users \ {u} : requests'[x] = Swept(cleaned)[x] /\ log'[x] = log[x]
  BY <1>3, <1>4, <1>5
<1>7. /\ requests' \in [Users -> SUBSET Admissions]
      /\ log' \in [Users -> SUBSET Admissions]
      /\ promised' \in [Users -> SUBSET Nat]
  <2>1. mine \cup {new} \in SUBSET Admissions
    BY <1>2, <1>3
  <2>2. QED
    BY <1>3, <1>4, <1>5, <2>1
<1>8. TypeOK'
  BY <1>7, SweepInTime DEF TypeOK
<1>9. ASSUME NEW x \in Users
      PROVE  /\ IsFiniteSet(log'[x])
             /\ requests'[x] \subseteq log'[x]
             /\ \A r \in log'[x] : r.at <= read
             /\ Recent(log'[x], read) \subseteq requests'[x]
             /\ Cardinality(requests'[x]) <= Limit
  <2>1. /\ IsFiniteSet(log[x]) /\ requests[x] \subseteq log[x]
        /\ \A r \in log[x] : r.at <= now
        /\ Recent(log[x], now) \subseteq requests[x]
        /\ Cardinality(requests[x]) <= Limit
    BY DEF LimiterInv, Remembered, WithinLimit
  <2>2. \A r \in log[x] : r.at <= read
    BY <1>1, <1>3, <2>1 DEF Admissions
  <2>3. CASE x = u
    <3>1. IsFiniteSet(log'[u])
      BY <1>6, <2>1, <2>3, FS_AddElement
    <3>2. Cardinality(mine \cup {new}) <= Limit
      <4>1. Cardinality(mine \cup {new}) =
              IF new \in mine THEN Cardinality(mine) ELSE Cardinality(mine) + 1
        BY <1>2, FS_AddElement
      <4> HIDE DEF mine
      <4>2. QED
        BY <1>2, <1>4, <4>1, LimiterAssumption
    <3>3. Recent(log[u] \cup {new}, read) \subseteq mine \cup {new}
      BY <1>2 DEF Recent
    <3>4. \A r \in log[u] \cup {new} : r.at <= read
      BY <1>1, <1>4, <2>2, <2>3
    <3>5. mine \cup {new} \subseteq log[u] \cup {new}
      BY <1>2, <2>1, <2>3
    <3>6. QED
      BY <1>6, <2>3, <3>1, <3>2, <3>3, <3>4, <3>5
  <2>4. CASE x # u
    <3>1. Recent(log[x], read) \subseteq Recent(requests[x], cleaned)
      BY <1>1, <1>3, <2>1, LimiterAssumption DEF Recent, Admissions
    <3>2. IsFiniteSet(requests[x]) /\ Swept(cleaned)[x] \subseteq requests[x]
      BY <1>5, <2>1, FS_Subset
    <3>3. /\ IsFiniteSet(Swept(cleaned)[x])
          /\ Cardinality(Swept(cleaned)[x]) <= Cardinality(requests[x])
      BY <3>2, FS_Subset
    <3>4. Cardinality(Swept(cleaned)[x]) \in Nat /\ Cardinality(requests[x]) \in Nat
      BY <3>2, <3>3, FS_CardinalityType
    <3>5. Cardinality(Swept(cleaned)[x]) <= Limit
      BY <2>1, <3>3, <3>4, LimiterAssumption
    <3>6. QED
      BY <1>5, <1>6, <2>1, <2>2, <2>4, <3>1, <3>2, <3>5
  <2>5. QED
    BY <2>3, <2>4
<1>10. Remembered' /\ WithinLimit'
  <2>1. \A x \in Users : Recent(log[x], now)' = Recent(log'[x], read)
    BY <1>1 DEF Recent
  <2>2. QED
    BY <1>1, <1>9, <2>1 DEF Remembered, WithinLimit
<1>11. SweptInTime'
  <2>1. mine \subseteq Swept(cleaned)[u]
    BY DEF Counted, Recent
  <2>2. lastCleanup' <= now + Delay /\ lastCleanup' \in Int
    BY <1>1, SweepInTime
  <2>3. \A time \in Int : time <= now + Delay => now > time - Window
    BY <1>1, LimiterAssumption
  <2>4. new.at > lastCleanup' - Window
    BY <1>4, <2>2, <2>3
  <2>5. QED
    BY <1>6, <2>1, <2>4, SweepInTime DEF SweptInTime
<1>12. QED
  BY <1>8, <1>10, <1>11 DEF LimiterInv

\* Time passing keeps the invariant.
LEMMA TickKeepsInv ==
  ASSUME LimiterInv, Tick
  PROVE  LimiterInv'
<1>1. /\ now \in Nat /\ now' = now + 1
      /\ requests' = requests /\ log' = log /\ lastCleanup' = lastCleanup
      /\ promised' = promised /\ lastCheck' = lastCheck
  BY DEF LimiterInv, TypeOK, Tick
<1>2. TypeOK'
  BY <1>1 DEF LimiterInv, TypeOK
<1>3. Remembered'
  <2> SUFFICES ASSUME NEW u \in Users
               PROVE  /\ IsFiniteSet(log[u])
                      /\ requests[u] \subseteq log[u]
                      /\ \A r \in log[u] : r.at <= now + 1
                      /\ Recent(log[u], now + 1) \subseteq requests[u]
    BY <1>1 DEF Remembered, Recent
  <2>1. /\ IsFiniteSet(log[u]) /\ requests[u] \subseteq log[u]
        /\ \A r \in log[u] : r.at <= now
        /\ Recent(log[u], now) \subseteq requests[u]
        /\ log[u] \in SUBSET Admissions
    BY DEF LimiterInv, TypeOK, Remembered
  <2>2. \A r \in log[u] : r.at <= now + 1
    BY <1>1, <2>1 DEF Admissions
  <2>3. Recent(log[u], now + 1) \subseteq Recent(log[u], now)
    BY <1>1, <2>1, RecentFacts
  <2>4. QED
    BY <2>1, <2>2, <2>3
<1>4. WithinLimit' /\ SweptInTime'
  BY <1>1 DEF LimiterInv, WithinLimit, SweptInTime
<1>5. QED
  BY <1>2, <1>3, <1>4 DEF LimiterInv

\* A check is an admission or a rejection between clock readings.
LEMMA CheckCases ==
  ASSUME LimiterInv, NEW u \in Users, Check(u)
  PROVE  \E cleaned, read \in now .. (now + Delay) :
            /\ Readings(cleaned, read) /\ Bookkeeping(cleaned, read)
            /\ read <= Horizon
            /\ Admit(u, cleaned, read) \/ Reject(u, cleaned, read)
BY DEF Check, Readings, Bookkeeping, LimiterInv, TypeOK

\* The inductive invariant holds of every reachable state.
THEOREM LimiterInvHolds == Spec => []LimiterInv
<1>1. Init => LimiterInv
  <2> SUFFICES ASSUME Init PROVE LimiterInv
    OBVIOUS
  <2>1. TypeOK
    BY DEF Init, TypeOK
  <2>2. Remembered /\ WithinLimit
    BY FS_EmptySet, LimiterAssumption DEF Init, Remembered, WithinLimit, Recent
  <2>3. SweptInTime
    BY LimiterAssumption DEF Init, SweptInTime
  <2>4. QED
    BY <2>1, <2>2, <2>3 DEF LimiterInv
<1>2. LimiterInv /\ [Next]_vars => LimiterInv'
  <2> SUFFICES ASSUME LimiterInv, [Next]_vars PROVE LimiterInv'
    OBVIOUS
  <2>1. CASE Tick
    BY <2>1, TickKeepsInv
  <2>2. ASSUME NEW u \in Users, Check(u) PROVE LimiterInv'
    BY <2>2, CheckCases, AdmitKeepsInv, RejectKeepsInv
  <2>3. CASE UNCHANGED vars
    BY <2>3 DEF vars, LimiterInv, TypeOK, Remembered, WithinLimit, SweptInTime, Recent
  <2>4. QED
    BY <2>1, <2>2, <2>3 DEF Next
<1>3. QED
  BY <1>1, <1>2, PTL DEF Spec

\* Every variable has its type; the clock only moves forward (rate_limit.py).
THEOREM LimiterTypeCorrect == Spec => []TypeOK
<1>1. LimiterInv => TypeOK
  BY DEF LimiterInv
<1>2. QED
  BY <1>1, LimiterInvHolds, PTL

\* After a check the limiter remembers nothing older than a window and a cleanup
\* interval, of any user (_cleanup_old_entries).
THEOREM StaleBoundedHolds == Spec => []StaleBounded
<1>1. LimiterInv => StaleBounded
  <2> SUFFICES ASSUME LimiterInv, NEW u \in Users, NEW r \in requests[u]
               PROVE  r.at > lastCheck - Window - CleanupInterval
    BY DEF StaleBounded
  <2>1. /\ r.at \in Nat /\ lastCleanup \in Int /\ lastCheck \in Int
        /\ r.at > lastCleanup - Window
        /\ lastCheck - lastCleanup <= CleanupInterval
    BY DEF LimiterInv, TypeOK, SweptInTime, Admissions
  <2>2. QED
    BY <2>1, LimiterAssumption
<1>2. QED
  BY <1>1, LimiterInvHolds, PTL

-----------------------------------------------------------------------------
(* The limit. *)

\* The admissions of u in the window that AtMostLimit looks at.
WindowOf(u, t) == {r \in log[u] : t - (Window - Delay) < r.at /\ r.at <= t}

\* No window of any user ever holds more than Limit admissions: the promise of
\* check_rate_limit, with the cleanup and the pruning between the checks.
THEOREM AtMostLimitHolds == Spec => []AtMostLimit
<1>1. Init => AtMostLimit
  <2> SUFFICES ASSUME Init, NEW u \in Users, NEW t \in 0 .. Horizon
               PROVE  Cardinality(WindowOf(u, t)) <= Limit
    BY DEF AtMostLimit, WindowOf
  <2>1. WindowOf(u, t) = {}
    BY DEF Init, WindowOf
  <2>2. QED
    BY <2>1, FS_EmptySet, LimiterAssumption
<1>2. LimiterInv /\ AtMostLimit /\ [Next]_vars => AtMostLimit'
  <2> SUFFICES ASSUME LimiterInv, AtMostLimit, [Next]_vars,
                      NEW x \in Users, NEW t \in 0 .. Horizon
               PROVE  Cardinality(WindowOf(x, t)') <= Limit
    BY DEF AtMostLimit, WindowOf
  <2>1. Cardinality(WindowOf(x, t)) <= Limit
    BY DEF AtMostLimit, WindowOf
  <2>2. ASSUME log'[x] = log[x] PROVE Cardinality(WindowOf(x, t)') <= Limit
    BY <2>1, <2>2 DEF WindowOf
  <2>3. CASE Tick \/ UNCHANGED vars
    BY <2>2, <2>3 DEF Tick, vars
  <2>4. ASSUME NEW u \in Users, Check(u)
        PROVE  Cardinality(WindowOf(x, t)') <= Limit
    <3>1. PICK cleaned, read \in now .. (now + Delay) :
            /\ Readings(cleaned, read)
            /\ Admit(u, cleaned, read) \/ Reject(u, cleaned, read)
      BY <2>4, CheckCases
    <3>2. CASE Reject(u, cleaned, read)
      BY <2>2, <3>2 DEF Reject
    <3>3. CASE Admit(u, cleaned, read)
      <4> DEFINE mine == Counted(u, cleaned, read)
      <4>1. PICK new \in Admissions :
              /\ new.at = now
              /\ log' = [log EXCEPT ![u] = @ \cup {new}]
              /\ Cardinality(mine) < Limit
        BY <3>1, <3>3, AdmitEffect
      <4>2. CASE x # u
        BY <2>2, <4>1, <4>2
      <4>3. CASE x = u
        <5>1. log'[u] = log[u] \cup {new}
          BY <4>1 DEF LimiterInv, TypeOK
        <5>2. CASE ~(t - (Window - Delay) < now /\ now <= t)
          <6>1. WindowOf(u, t)' = WindowOf(u, t)
            BY <4>1, <5>1, <5>2 DEF WindowOf
          <6>2. QED
            BY <2>1, <4>3, <6>1
        <5>3. CASE t - (Window - Delay) < now /\ now <= t
          <6>1. WindowOf(u, t)' \subseteq mine \cup {new}
            <7>1. mine = Recent(log[u], read)
              BY <3>1, CountIsExact
            <7>2. now \in Int /\ read \in Int /\ read <= now + Delay /\ t \in Int
              BY <3>1 DEF Readings, LimiterInv, TypeOK
            <7>3. \A r \in log[u] : t - (Window - Delay) < r.at => r.at > read - Window
              BY <5>3, <7>2, LimiterAssumption DEF LimiterInv, TypeOK, Admissions
            <7>4. QED
              BY <5>1, <7>1, <7>3 DEF WindowOf, Recent
          <6>2. IsFiniteSet(mine) /\ Cardinality(mine) \in Nat
            BY <3>1, CountIsExact
          <6> HIDE DEF mine
          <6>3. /\ IsFiniteSet(mine \cup {new})
                /\ Cardinality(mine \cup {new}) =
                     IF new \in mine THEN Cardinality(mine) ELSE Cardinality(mine) + 1
            BY <6>2, FS_AddElement
          <6>4. Cardinality(mine \cup {new}) \in Nat /\ Cardinality(mine \cup {new}) <= Limit
            BY <4>1, <6>2, <6>3, LimiterAssumption
          <6>5. /\ IsFiniteSet(WindowOf(u, t)')
                /\ Cardinality(WindowOf(u, t)') <= Cardinality(mine \cup {new})
            BY <6>1, <6>3, FS_Subset
          <6>6. Cardinality(WindowOf(u, t)') \in Nat
            BY <6>5, FS_CardinalityType
          <6>7. QED
            BY <4>3, <6>4, <6>5, <6>6, LimiterAssumption
        <5>4. QED
          BY <5>2, <5>3
      <4>4. QED
        BY <4>2, <4>3
    <3>4. QED
      BY <3>1, <3>2, <3>3
  <2>5. QED
    BY <2>3, <2>4 DEF Next
<1>3. QED
  BY <1>1, <1>2, LimiterInvHolds, PTL DEF Spec

-----------------------------------------------------------------------------
(* Retry-After. *)

\* The moment a rejection announces: after the oldest timestamp has left the
\* window, and at most a second after.
LEMMA RetryTime ==
  ASSUME NEW time \in Nat, NEW oldest \in Nat, oldest <= time, time - Window < oldest,
         now = time
  PROVE  /\ now + RetryAfter(oldest) \in Nat
         /\ now + RetryAfter(oldest) > oldest + Window
         /\ now + RetryAfter(oldest) <= oldest + Window + Second
<1> DEFINE left == Window - (time - oldest)
           whole == left \div Second
<1>1. left \in Nat
  BY LimiterAssumption
<1>2. \A n \in Nat : /\ n \div Second \in Nat
                     /\ n < Second * (n \div Second + 1)
                     /\ Second * (n \div Second + 1) <= n + Second
  BY LimiterAssumption
<1>3. /\ whole \in Nat /\ left < Second * (whole + 1)
      /\ Second * (whole + 1) <= left + Second
  BY <1>1, <1>2
<1>4. RetryAfter(oldest) = Second * (whole + 1)
  BY DEF RetryAfter
<1> DEFINE wait == Second * (whole + 1)
<1>5. wait \in Nat
  BY <1>3, LimiterAssumption
<1> HIDE DEF wait
<1>6. left < wait /\ wait <= left + Second
  BY <1>3 DEF wait
<1>7. QED
  BY <1>4, <1>5, <1>6, LimiterAssumption DEF wait

\* What RetryAfterExact says of one promise to one user.
ExactFor(u, p) ==
    \E free \in (p - Second) .. (p - 1) :
        /\ Cardinality(Recent(log[u], free)) < Limit
        /\ Cardinality(Recent(log[u], free - 1)) >= Limit

\* A rejection announces a moment that is exact.
LEMMA RejectionIsExact ==
  ASSUME LimiterInv, NEW u \in Users, NEW cleaned, NEW read, Readings(cleaned, read),
         NEW oldest \in Counted(u, cleaned, read),
         \A r \in Counted(u, cleaned, read) : oldest.at <= r.at,
         Cardinality(Counted(u, cleaned, read)) >= Limit
  PROVE  ExactFor(u, now + RetryAfter(oldest.at))
<1> DEFINE mine == Counted(u, cleaned, read)
           p == now + RetryAfter(oldest.at)
<1>1. /\ now \in Nat /\ read \in Int /\ now <= read
      /\ log[u] \in SUBSET Admissions /\ IsFiniteSet(log[u])
  BY DEF LimiterInv, TypeOK, Readings, Remembered
<1>2. /\ mine = Recent(log[u], read) /\ IsFiniteSet(mine)
      /\ Cardinality(mine) = Limit
  BY CountIsExact, LimiterAssumption
<1>3. /\ oldest \in log[u] /\ oldest.at \in Nat /\ oldest.at > read - Window
      /\ oldest.at <= now
  BY <1>1, <1>2 DEF Recent, Admissions, LimiterInv, Remembered
<1>4. now - Window < oldest.at
  BY <1>1, <1>3, LimiterAssumption
<1>5. p \in Nat /\ p > oldest.at + Window /\ p <= oldest.at + Window + Second
  BY <1>1, <1>3, <1>4, RetryTime
<1> HIDE DEF p
<1> DEFINE free == oldest.at + Window
<1>6. free \in (p - Second) .. (p - 1) /\ free > read
  BY <1>1, <1>3, <1>5, LimiterAssumption
<1>7. Cardinality(Recent(log[u], free)) < Limit
  <2>1. Recent(log[u], free) \subseteq mine \ {oldest}
    BY <1>1, <1>2, <1>3, <1>6, LimiterAssumption DEF Recent, Admissions
  <2>2. /\ IsFiniteSet(mine \ {oldest})
        /\ Cardinality(mine \ {oldest}) = Limit - 1
    BY <1>2, FS_RemoveElement
  <2>3. /\ IsFiniteSet(Recent(log[u], free))
        /\ Cardinality(Recent(log[u], free)) <= Limit - 1
    BY <2>1, <2>2, FS_Subset
  <2>4. Cardinality(Recent(log[u], free)) \in Nat
    BY <2>3, FS_CardinalityType
  <2>5. QED
    BY <2>3, <2>4, LimiterAssumption
<1>8. Cardinality(Recent(log[u], free - 1)) >= Limit
  <2> DEFINE earlier == Recent(log[u], free - 1)
  <2>1. mine \subseteq earlier
    <3>1. \A r \in mine : r \in log[u] /\ r.at \in Nat /\ oldest.at <= r.at
      BY <1>1, <1>2 DEF Recent, Admissions
    <3>2. \A r \in mine : r.at > free - 1 - Window
      BY <1>3, <3>1, LimiterAssumption
    <3>3. QED
      BY <3>1, <3>2 DEF Recent
  <2>2. IsFiniteSet(earlier)
    BY <1>1, FS_Subset DEF Recent
  <2>3. Cardinality(mine) <= Cardinality(earlier)
    BY <2>1, <2>2, FS_Subset
  <2>4. Cardinality(earlier) \in Nat
    BY <2>2, FS_CardinalityType
  <2> HIDE DEF earlier
  <2>5. Cardinality(earlier) >= Limit
    BY <1>2, <2>3, <2>4, LimiterAssumption
  <2>6. QED
    BY <2>5 DEF earlier
<1>9. QED
  BY <1>6, <1>7, <1>8 DEF ExactFor, p

\* Retry-After is exact up to its rounding: the window has room again before the
\* moment a rejection announced, and not more than a second before it
\* (check_rate_limit's retry_after).
THEOREM RetryAfterExactHolds == Spec => []RetryAfterExact
<1>1. Init => RetryAfterExact
  BY DEF Init, RetryAfterExact
<1>2. LimiterInv /\ RetryAfterExact /\ [Next]_vars => RetryAfterExact'
  <2> SUFFICES ASSUME LimiterInv, RetryAfterExact, [Next]_vars,
                      NEW x \in Users, NEW p \in promised'[x]
               PROVE  ExactFor(x, p)'
    BY DEF RetryAfterExact, ExactFor
  <2>1. ASSUME log'[x] = log[x], p \in promised[x] PROVE ExactFor(x, p)'
    BY <2>1 DEF RetryAfterExact, ExactFor, Recent
  <2>2. CASE Tick \/ UNCHANGED vars
    BY <2>1, <2>2 DEF Tick, vars
  <2>3. ASSUME NEW u \in Users, Check(u) PROVE ExactFor(x, p)'
    <3>1. PICK cleaned, read \in now .. (now + Delay) :
            /\ Readings(cleaned, read)
            /\ Admit(u, cleaned, read) \/ Reject(u, cleaned, read)
      BY <2>3, CheckCases
    <3>2. log \in [Users -> SUBSET Admissions] /\ promised \in [Users -> SUBSET Nat]
      BY DEF LimiterInv, TypeOK
    <3>3. CASE Admit(u, cleaned, read)
      <4>1. x # u
        BY <3>2, <3>3 DEF Admit
      <4>2. log'[x] = log[x] /\ promised'[x] = promised[x]
        BY <3>2, <3>3, <4>1 DEF Admit
      <4>3. QED
        BY <2>1, <4>2
    <3>4. CASE Reject(u, cleaned, read)
      <4>1. /\ log' = log
            /\ Cardinality(Counted(u, cleaned, read)) >= Limit
        BY <3>4 DEF Reject
      <4>2. PICK oldest \in Counted(u, cleaned, read) :
              /\ \A r \in Counted(u, cleaned, read) : oldest.at <= r.at
              /\ promised' = [promised EXCEPT ![u] = @ \cup {now + RetryAfter(oldest.at)}]
        BY <3>4 DEF Reject
      <4>3. CASE p \in promised[x]
        BY <2>1, <4>1, <4>3
      <4>4. CASE p \notin promised[x]
        <5>1. x = u /\ p = now + RetryAfter(oldest.at)
          BY <3>2, <4>2, <4>4
        <5>2. ExactFor(u, now + RetryAfter(oldest.at))
          BY <3>1, <4>1, <4>2, RejectionIsExact
        <5>3. ExactFor(x, p)
          BY <5>1, <5>2
        <5>4. QED
          BY <4>1, <5>3 DEF ExactFor, Recent
      <4>5. QED
        BY <4>3, <4>4
    <3>5. QED
      BY <3>1, <3>3, <3>4
  <2>4. QED
    BY <2>2, <2>3 DEF Next
<1>3. QED
  BY <1>1, <1>2, LimiterInvHolds, PTL DEF Spec

\* A client that comes back at the time it was told, or later, is admitted.
THEOREM PromiseKeptHolds == Spec => PromiseKept
<1> DEFINE NoBrokenPromise ==
             \A u \in Users : \A cleaned, read \in now .. (now + Delay) :
               cleaned <= read /\ Reject(u, cleaned, read) =>
                 \A p \in promised[u] : now < p
<1>1. LimiterInv /\ RetryAfterExact => NoBrokenPromise
  <2> SUFFICES ASSUME LimiterInv, RetryAfterExact, NEW u \in Users,
                      NEW cleaned \in now .. (now + Delay),
                      NEW read \in now .. (now + Delay),
                      cleaned <= read, Reject(u, cleaned, read),
                      NEW p \in promised[u], p <= now
               PROVE  FALSE
    BY DEF LimiterInv, TypeOK
  <2> DEFINE mine == Counted(u, cleaned, read)
  <2>1. /\ now \in Nat /\ p \in Nat /\ read \in Int /\ p <= read
        /\ log[u] \in SUBSET Admissions /\ IsFiniteSet(log[u])
    BY DEF LimiterInv, TypeOK, Remembered
  <2>2. Readings(cleaned, read)
    BY <2>1 DEF Readings
  <2>3. mine = Recent(log[u], read) /\ Cardinality(mine) \in Nat
    BY <2>2, CountIsExact
  <2>4. Cardinality(mine) >= Limit
    BY DEF Reject
  <2>5. PICK free \in (p - Second) .. (p - 1) : Cardinality(Recent(log[u], free)) < Limit
    BY DEF RetryAfterExact
  <2>6. free \in Int /\ free <= read
    BY <2>1, LimiterAssumption
  <2>7. mine \subseteq Recent(log[u], free) /\ Recent(log[u], free) \subseteq log[u]
    BY <2>1, <2>3, <2>6, RecentFacts
  <2>8. IsFiniteSet(Recent(log[u], free))
    BY <2>1, <2>7, FS_Subset
  <2>9. Cardinality(mine) <= Cardinality(Recent(log[u], free))
    BY <2>7, <2>8, FS_Subset
  <2>10. Cardinality(Recent(log[u], free)) \in Nat
    BY <2>8, FS_CardinalityType
  <2>11. QED
    BY <2>3, <2>4, <2>5, <2>9, <2>10, LimiterAssumption
<1>2. LimiterInv /\ RetryAfterExact /\ [Next]_vars => [NoBrokenPromise]_vars
  BY <1>1
<1>3. QED
  BY <1>2, LimiterInvHolds, RetryAfterExactHolds, PTL DEF Spec, PromiseKept

-----------------------------------------------------------------------------
(* The limiter and the one that forgets nothing. *)

\* Both modules count with the same operator.
LEMMA SameCardinality == ASSUME NEW S PROVE Unforgetting!Cardinality(S) = Cardinality(S)
BY DEF Unforgetting!Cardinality, Cardinality

\* The decision of a check is one that the whole log allows.
LEMMA CheckImplementsWindow ==
  ASSUME LimiterInv, NEW u \in Users, Check(u)
  PROVE  Unforgetting!Check(u)
<1>1. PICK cleaned \in now .. (now + Delay), read \in now .. (now + Delay) :
        /\ Readings(cleaned, read) /\ Bookkeeping(cleaned, read)
        /\ read <= Horizon
        /\ Admit(u, cleaned, read) \/ Reject(u, cleaned, read)
  BY CheckCases
<1> DEFINE mine == Counted(u, cleaned, read)
<1>2. Unforgetting!InWindow(u, read) = mine
  BY <1>1, CountIsExact DEF Unforgetting!InWindow, Recent
<1>3. CASE Admit(u, cleaned, read)
  <2>1. /\ Cardinality(mine) < Limit
        /\ log' = [log EXCEPT ![u] = @ \cup {[at |-> now, nth |-> Cardinality(log[u])]}]
        /\ promised' = [promised EXCEPT ![u] = {}]
    BY <1>3 DEF Admit
  <2>2. Unforgetting!Admit(u, read)
    BY <1>2, <2>1, SameCardinality DEF Unforgetting!Admit
  <2>3. QED
    BY <1>1, <2>2 DEF Unforgetting!Check, Bookkeeping
<1>4. CASE Reject(u, cleaned, read)
  <2>1. PICK oldest \in mine :
          /\ \A r \in mine : oldest.at <= r.at
          /\ promised' = [promised EXCEPT ![u] = @ \cup {now + RetryAfter(oldest.at)}]
    BY <1>4 DEF Reject
  <2> DEFINE moment == now + RetryAfter(oldest.at)
  <2>2. /\ now \in Nat /\ read \in Int /\ now <= read
        /\ log[u] \in SUBSET Admissions /\ \A r \in log[u] : r.at <= now
    BY <1>1 DEF LimiterInv, TypeOK, Remembered, Readings
  <2>3. oldest.at \in Nat /\ oldest.at <= now /\ now - Window < oldest.at
    <3>1. oldest \in log[u] /\ oldest.at > read - Window
      BY <1>2 DEF Unforgetting!InWindow
    <3>2. QED
      BY <2>2, <3>1, LimiterAssumption DEF Admissions
  <2>4. moment \in (oldest.at + Window + 1) .. (oldest.at + Window + Second)
    BY <2>2, <2>3, RetryTime, LimiterAssumption
  <2>5. promised' = [promised EXCEPT ![u] = @ \cup {moment}]
    BY <2>1
  <2>6. Cardinality(mine) >= Limit /\ UNCHANGED log
    BY <1>4 DEF Reject
  <2> HIDE DEF mine, moment
  <2>7. Unforgetting!Reject(u, read)
    BY <1>2, <2>1, <2>4, <2>5, <2>6, SameCardinality DEF Unforgetting!Reject
  <2>8. QED
    BY <1>1, <2>7 DEF Unforgetting!Check, Bookkeeping
<1>5. QED
  BY <1>1, <1>3, <1>4

\* ImplementsWindow: whatever cleanups and prunings forget, the limiter decides
\* and announces as one that remembers every admission (check_rate_limit).
THEOREM LimiterImplementsWindow == Spec => ImplementsWindow
<1>1. Init => Unforgetting!Init
  BY DEF Init, Unforgetting!Init
<1>2. LimiterInv /\ [Next]_vars => [Unforgetting!Next]_(Unforgetting!vars)
  <2>1. Tick => Unforgetting!Tick
    BY DEF Tick, Unforgetting!Tick
  <2>2. UNCHANGED vars => UNCHANGED Unforgetting!vars
    BY DEF vars, Unforgetting!vars
  <2>3. QED
    BY <2>1, <2>2, CheckImplementsWindow DEF Next, Unforgetting!Next
<1>3. QED
  BY <1>1, <1>2, LimiterInvHolds, PTL DEF Spec, ImplementsWindow, Unforgetting!Spec
=============================================================================
