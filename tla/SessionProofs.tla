----------------------------- MODULE SessionProofs -----------------------------
(***************************************************************************)
(* Proofs about Session for any number of tabs, tokens, users and requests *)
(* in flight, and any plan.                                                *)
(***************************************************************************)
EXTENDS Session, TLAPS

-----------------------------------------------------------------------------
(* The inductive invariant. *)

\* TypeOK without its last part.
Typed ==
    /\ stored \in Tokens \cup {None} /\ legacy \in Tokens \cup {None}
    /\ tokenState \in [Tokens -> {"none", "valid", "expired"}]
    /\ path \in [Tabs -> Paths \cup {None}]
    /\ leaving \in [Tabs -> BOOLEAN] /\ crashed \in [Tabs -> BOOLEAN]
    /\ auth \in [Tabs -> [Copies -> Copy \cup {None}]]
    /\ form \in [Tabs -> {"idle", "submitting", "incorrect", "failed", "taken"}]
    /\ calls \in [CallIds -> RequestRecord \cup {None}]
    /\ left \in [Deeds -> Nat]
    /\ ended \in [Tabs -> SUBSET Tokens]

\* A copy is loading only while its own request is under way.
LoadingAttended ==
    \A t \in Tabs, c \in Copies :
        auth[t][c] # None /\ auth[t][c].loading =>
            \E i \in CallIds : calls[i] # None /\ calls[i].tab = t /\ calls[i].copy = c
                              /\ calls[i].kind = "hydrate"

\* Each page has the copy of useAuth it shows itself by, and a request is
\* attached to no copy but a mounted one, a submission to the form's.
CopiesMounted ==
    /\ \A t \in Tabs : path[t] = "/" => auth[t]["layout"] \in Copy
    /\ \A t \in Tabs : path[t] \in {"/login", "/register"} => auth[t]["form"] \in Copy
    /\ \A i \in CallIds : calls[i] # None /\ calls[i].copy # None =>
            auth[calls[i].tab][calls[i].copy] \in Copy
    /\ \A i \in CallIds : calls[i] # None /\ calls[i].kind \in {"register", "login"} =>
            calls[i].copy \in {"form", None}

\* What a request carries: a token is issued by then, and expired if it was
\* refused; a sign-in has one from its answer on.
TokensCarried ==
    \A i \in CallIds : calls[i] # None =>
        /\ calls[i].kind = "hydrate" => calls[i].token \in Tokens
        /\ calls[i].kind = "register" => calls[i].token = None
        /\ calls[i].kind = "login" => (calls[i].token \in Tokens <=> calls[i].reply = "ok")
        /\ calls[i].token \in Tokens => tokenState[calls[i].token] # "none"
        /\ calls[i].token \in Tokens /\ calls[i].reply \in {"unauthorized", "thrown"} =>
                tokenState[calls[i].token] = "expired"

\* The answer to a sign-in that has not been taken yet.
Issued(i) == calls[i] # None /\ calls[i].kind = "login" /\ calls[i].reply = "ok"

\* Its token is known to nobody else, like one that is not issued yet.
Untouched(k) == stored # k /\ legacy # k /\ \A t \in Tabs : k \notin ended[t]

IssuedOnce ==
    /\ \A i \in CallIds : Issued(i) => Untouched(calls[i].token)
    /\ \A i, j \in CallIds : Issued(i) /\ Issued(j) /\ i # j => calls[i].token # calls[j].token
    /\ \A k \in Tokens : tokenState[k] = "none" => Untouched(k)

\* EndedTabLeaves, before the layout knows its user.
RefusedTabLeaves ==
    \A t \in Tabs : path[t] = "/" /\ auth[t]["layout"].token \in ended[t] => leaving[t]

SessionInv ==
    /\ Typed /\ LoadingAttended /\ CopiesMounted /\ TokensCarried
    /\ IssuedOnce /\ EndedStaysEnded /\ RefusedTabLeaves

-----------------------------------------------------------------------------
(* The storage. *)

\* What a step may do to the storage: move tokens between the keys, or remove
\* them, in a tab that remembers them.
StorageStep ==
    \/ stored' \in {stored, legacy, None} /\ legacy' \in {stored, legacy, None} /\ ended' = ended
    \/ \E t \in Tabs : ClearStoredToken(t)

\* What it may do to the answers of sign-ins: take them.
NoneIssued ==
    \A i \in CallIds :
        calls'[i] # None /\ calls'[i].kind = "login" /\ calls'[i].reply = "ok" =>
            Issued(i) /\ calls'[i].token = calls[i].token

\* Such a step spreads no token that nobody knows, and revives none.
LEMMA StorageKept ==
    ASSUME SessionInv, StorageStep, NoneIssued,
           \A k \in Tokens : tokenState'[k] = "none" => tokenState[k] = "none"
    PROVE  IssuedOnce' /\ EndedStaysEnded'
<1> USE SessionAssumption DEF SessionInv, Typed
<1>1. ASSUME NEW k \in Tokens, Untouched(k) PROVE Untouched(k)'
  <2>1. CASE stored' \in {stored, legacy, None} /\ legacy' \in {stored, legacy, None} /\ ended' = ended
    BY <1>1, <2>1 DEF Untouched
  <2>2. ASSUME NEW t \in Tabs, ClearStoredToken(t) PROVE Untouched(k)'
    BY <1>1, <2>2 DEF Untouched, ClearStoredToken
  <2>3. QED
    BY <2>1, <2>2 DEF StorageStep
<1>2. \A i \in CallIds : Issued(i) => calls[i].token \in Tokens
  BY DEF Issued, TokensCarried
<1>3. IssuedOnce'
  BY <1>1, <1>2 DEF IssuedOnce, NoneIssued, Issued
<1>4. EndedStaysEnded'
  <2>1. CASE stored' \in {stored, legacy, None} /\ legacy' \in {stored, legacy, None} /\ ended' = ended
    BY <2>1 DEF EndedStaysEnded
  <2>2. ASSUME NEW t \in Tabs, ClearStoredToken(t) PROVE EndedStaysEnded'
    BY <2>2 DEF EndedStaysEnded, ClearStoredToken
  <2>3. QED
    BY <2>1, <2>2 DEF StorageStep
<1>5. QED
  BY <1>3, <1>4

\* Reading the token moves it to the new key at most.
LEMMA MigrateIsStorageStep ==
    ASSUME Migrate, ended' = ended PROVE StorageStep
BY DEF Migrate, GetStoredToken, StorageStep

-----------------------------------------------------------------------------
(* Requests. *)

\* A new request takes a free place and leaves the others where they are.
LEMMA WithPlaces ==
    ASSUME NEW cs, cs \in [CallIds -> RequestRecord \cup {None}], Room(cs), NEW call
    PROVE  \E i \in CallIds : cs[i] = None /\ With(cs, call) = [cs EXCEPT ![i] = call]
<1>1. PICK i \in CallIds : i = CHOOSE j \in CallIds : cs[j] = None
  BY DEF Room
<1>2. cs[i] = None
  BY <1>1 DEF Room
<1>3. QED
  BY <1>1, <1>2 DEF With

\* The requests that are left when tab t goes to another page: some are gone,
\* and none of the tab's is attached to a copy any more.
Thinned(cs, t) ==
    /\ cs \in [CallIds -> RequestRecord \cup {None}]
    /\ \A i \in CallIds : cs[i] # None =>
            /\ calls[i] # None
            /\ cs[i] \in {calls[i], [calls[i] EXCEPT !.copy = None]}
            /\ cs[i].tab = t => cs[i].copy = None
    /\ \A i \in CallIds : calls[i] # None /\ calls[i].tab # t => cs[i] = calls[i]

\* Dropping a copy takes its requests away and adds none.
LEMMA DroppedThins ==
    ASSUME Typed, NEW t \in Tabs PROVE Thinned(Dropped(t), t)
BY DEF Typed, Thinned, Dropped

\* So does cancelling the requests of a page that is left.
LEMMA CancelledThins ==
    ASSUME Typed, NEW t \in Tabs PROVE Thinned(Cancelled(calls, t, Copies), t)
<1>1. \A i \in CallIds : calls[i] # None => [calls[i] EXCEPT !.copy = None] \in RequestRecord
  BY DEF Typed, RequestRecord
<1>2. \A i \in CallIds : calls[i] # None => calls[i].copy \in Copies \cup {None}
  BY DEF Typed, RequestRecord
<1>3. QED
  BY <1>1, <1>2 DEF Typed, Thinned, Cancelled, RequestRecord

\* ... also when the answer that moves the tab has been taken.
LEMMA AnswerThins ==
    ASSUME Typed, NEW i \in CallIds, calls[i] # None
    PROVE  Thinned(Cancelled(Without(i), calls[i].tab, Copies), calls[i].tab)
<1>1. \A j \in CallIds : calls[j] # None => [calls[j] EXCEPT !.copy = None] \in RequestRecord
  BY DEF Typed, RequestRecord
<1>2. \A j \in CallIds : calls[j] # None => calls[j].copy \in Copies \cup {None}
  BY DEF Typed, RequestRecord
<1>3. \A j \in CallIds : Without(i)[j] = IF j = i THEN None ELSE calls[j]
  BY DEF Without, Typed
<1>4. QED
  BY <1>1, <1>2, <1>3 DEF Typed, Thinned, Cancelled, RequestRecord

\* The requests after hydrateAuth has been called on them.
LEMMA HydrateCalls ==
    ASSUME Typed, NEW cs, cs \in [CallIds -> RequestRecord \cup {None}], NEW t \in Tabs,
           NEW copy \in Copies, Hydrate(t, copy, cs)
    PROVE  /\ stored' \in Tokens \cup {None} /\ legacy' \in Tokens \cup {None}
           /\ calls' \in [CallIds -> RequestRecord \cup {None}]
           /\ \/ GetStoredToken = None /\ calls' = cs
              \/ /\ GetStoredToken \in Tokens
                 /\ \E i \in CallIds :
                       /\ cs[i] = None
                       /\ calls' = [cs EXCEPT ![i] = Call(t, "hydrate", None, copy, GetStoredToken)]
<1>1. GetStoredToken \in Tokens \cup {None}
  BY DEF Typed, GetStoredToken
<1>2. stored' \in Tokens \cup {None} /\ legacy' \in Tokens \cup {None}
  BY <1>1 DEF Typed, Hydrate, Migrate
<1>3. CASE GetStoredToken = None
  BY <1>2, <1>3 DEF Hydrate
<1>4. CASE GetStoredToken # None
  <2> DEFINE call == Call(t, "hydrate", None, copy, GetStoredToken)
  <2>1. call \in RequestRecord
    BY <1>1 DEF Call, RequestRecord
  <2>2. PICK i \in CallIds : cs[i] = None /\ calls' = [cs EXCEPT ![i] = call]
    BY <1>4, WithPlaces DEF Hydrate
  <2>3. QED
    BY <1>1, <1>2, <1>4, <2>1, <2>2
<1>5. QED
  BY <1>3, <1>4

-----------------------------------------------------------------------------
(* A tab goes to another page. *)

FormOrLayout(p) == IF p = "/" THEN "layout" ELSE "form"

\* What hydrateAuth leaves in flight for a tab that was placed with a token.
Asks(t, p, token, cs) ==
    \/ token = None /\ calls' = cs
    \/ /\ token \in Tokens
       /\ \E i \in CallIds :
             /\ cs[i] = None
             /\ calls' = [cs EXCEPT ![i] = Call(t, "hydrate", None, FormOrLayout(p), token)]

\* A page that is entered with a token of the storage, or with none.
LEMMA PlaceKeeps ==
    ASSUME SessionInv, NEW t \in Tabs, NEW p \in Paths, NEW token \in {stored, legacy, None},
           NEW cs, Thinned(cs, t), Place(t, p, token), Asks(t, p, token, cs),
           stored' \in {stored, legacy, None}, legacy' \in {stored, legacy, None},
           tokenState' = tokenState, ended' = ended, left' \in [Deeds -> Nat],
           leaving' \in [Tabs -> BOOLEAN], \A u \in Tabs : u # t => leaving'[u] = leaving[u]
    PROVE  SessionInv'
<1> DEFINE q == IF p = "/" /\ token = None THEN "/login" ELSE p
           copy == IF q = "/" THEN "layout" ELSE "form"
           call == Call(t, "hydrate", None, FormOrLayout(p), token)
<1> USE SessionAssumption
<1>1. Typed /\ token \in Tokens \cup {None}
  BY DEF SessionInv, Typed
<1>2. q \in Paths /\ copy \in Copies /\ (token # None => copy = FormOrLayout(p))
  BY DEF Paths, Copies, FormOrLayout
<1>3. Hydrating(token) \in Copy
  BY <1>1 DEF Hydrating, Copy
<1>4. /\ path' = [path EXCEPT ![t] = q]
      /\ auth' = [auth EXCEPT ![t] = [Unmounted EXCEPT ![copy] = Hydrating(token)]]
      /\ crashed' = [crashed EXCEPT ![t] = FALSE]
      /\ form' = [form EXCEPT ![t] = "idle"]
  BY DEF Place
<1>5. [Unmounted EXCEPT ![copy] = Hydrating(token)] \in [Copies -> Copy \cup {None}]
  BY <1>3 DEF Unmounted
<1>6. auth' \in [Tabs -> [Copies -> Copy \cup {None}]]
  BY <1>1, <1>4, <1>5 DEF Typed
<1>7. /\ \A u \in Tabs : u # t => auth'[u] = auth[u] /\ path'[u] = path[u]
      /\ path'[t] = q /\ auth'[t][copy] = Hydrating(token)
      /\ \A c \in Copies : c # copy => auth'[t][c] = None
  BY <1>1, <1>2, <1>4 DEF Typed, Unmounted
<1>8. token # None => call \in RequestRecord /\ call # None
  BY <1>1 DEF Call, RequestRecord, FormOrLayout, Copies
<1>9. calls' \in [CallIds -> RequestRecord \cup {None}]
  BY <1>8 DEF Asks, Thinned
<1>10. Typed'
  BY <1>1, <1>2, <1>4, <1>6, <1>9 DEF Typed
<1>11. \A i \in CallIds : calls'[i] # None =>
          \/ calls'[i] = cs[i] /\ cs[i] # None
          \/ token # None /\ calls'[i] = call
  BY DEF Asks, Thinned
<1>12. ASSUME NEW i \in CallIds, cs[i] # None
       PROVE  /\ calls[i] # None /\ cs[i].kind = calls[i].kind /\ cs[i].token = calls[i].token
              /\ cs[i].reply = calls[i].reply /\ cs[i].tab = calls[i].tab
              /\ cs[i].copy \in {calls[i].copy, None}
              /\ cs[i].tab = t => cs[i].copy = None
              /\ cs[i].copy # None => cs[i] = calls[i]
  <2>1. calls[i] # None /\ calls[i] \in RequestRecord
    BY <1>1, <1>12 DEF Thinned, Typed
  <2>2. cs[i] \in {calls[i], [calls[i] EXCEPT !.copy = None]} /\ (cs[i].tab = t => cs[i].copy = None)
    BY <1>12 DEF Thinned
  <2>3. CASE cs[i] = calls[i]
    BY <2>1, <2>2, <2>3
  <2>4. CASE cs[i] = [calls[i] EXCEPT !.copy = None]
    BY <2>1, <2>2, <2>4 DEF RequestRecord
  <2>5. QED
    BY <2>2, <2>3, <2>4
<1>13. token # None =>
          /\ call.tab = t /\ call.kind = "hydrate" /\ call.copy = copy
          /\ call.token = token /\ call.reply = None
  BY <1>2 DEF Call
<1>14. LoadingAttended'
  <2> SUFFICES ASSUME NEW u \in Tabs, NEW c \in Copies, auth'[u][c] # None, auth'[u][c].loading
               PROVE  \E i \in CallIds : /\ calls'[i] # None /\ calls'[i].tab = u
                                         /\ calls'[i].copy = c /\ calls'[i].kind = "hydrate"
    BY DEF LoadingAttended
  <2>1. CASE u = t
    <3>1. c = copy /\ token # None
      <4>1. c = copy
        BY <1>7, <2>1
      <4>2. Hydrating(token).loading
        BY <1>7, <2>1, <4>1
      <4>3. Hydrating(token).loading = (token # None)
        BY DEF Hydrating
      <4>4. QED
        BY <4>1, <4>2, <4>3
    <3>2. PICK i \in CallIds : cs[i] = None /\ calls' = [cs EXCEPT ![i] = call]
      BY <3>1 DEF Asks
    <3>3. calls'[i] = call
      BY <3>2 DEF Thinned
    <3>4. QED
      BY <1>8, <1>13, <2>1, <3>1, <3>3
  <2>2. CASE u # t
    <3>1. auth[u][c] # None /\ auth[u][c].loading
      BY <1>7, <2>2
    <3>2. PICK i \in CallIds : /\ calls[i] # None /\ calls[i].tab = u
                              /\ calls[i].copy = c /\ calls[i].kind = "hydrate"
      BY <3>1 DEF SessionInv, LoadingAttended
    <3>3. cs[i] = calls[i]
      BY <2>2, <3>2 DEF Thinned
    <3>4. calls'[i] = calls[i]
      BY <3>2, <3>3 DEF Asks, Thinned
    <3>5. QED
      BY <3>2, <3>4
  <2>3. QED
    BY <2>1, <2>2
<1>15. CopiesMounted'
  <2>1. ASSUME NEW u \in Tabs
        PROVE  /\ path'[u] = "/" => auth'[u]["layout"] \in Copy
               /\ path'[u] \in {"/login", "/register"} => auth'[u]["form"] \in Copy
    BY <1>3, <1>7 DEF SessionInv, CopiesMounted, Paths
  <2>2. ASSUME NEW i \in CallIds, calls'[i] # None, calls'[i].copy # None
        PROVE  auth'[calls'[i].tab][calls'[i].copy] \in Copy
    <3>1. CASE calls'[i] = cs[i] /\ cs[i] # None
      <4>1. calls[i] # None /\ cs[i] = calls[i] /\ calls[i].tab # t
        BY <1>12, <2>2, <3>1
      <4>2. calls[i].tab \in Tabs
        BY <1>1, <4>1 DEF Typed, RequestRecord
      <4>3. auth[calls[i].tab][calls[i].copy] \in Copy
        BY <2>2, <3>1, <4>1 DEF SessionInv, CopiesMounted
      <4>4. QED
        BY <1>7, <3>1, <4>1, <4>2, <4>3
    <3>2. CASE token # None /\ calls'[i] = call
      BY <1>3, <1>7, <1>13, <3>2
    <3>3. QED
      BY <1>11, <2>2, <3>1, <3>2
  <2>3. ASSUME NEW i \in CallIds, calls'[i] # None, calls'[i].kind \in {"register", "login"}
        PROVE  calls'[i].copy \in {"form", None}
    <3>1. calls'[i] = cs[i] /\ cs[i] # None
      BY <1>11, <1>13, <2>3
    <3>2. QED
      BY <1>12, <2>3, <3>1 DEF SessionInv, CopiesMounted
  <2>4. QED
    BY <2>1, <2>2, <2>3 DEF CopiesMounted
<1>16. token # None => tokenState[token] # "none" /\ \A u \in Tabs : token \notin ended[u]
  BY <1>1 DEF SessionInv, IssuedOnce, Untouched, EndedStaysEnded
<1>17. TokensCarried'
  <2> SUFFICES ASSUME NEW i \in CallIds, calls'[i] # None
               PROVE  /\ calls'[i].kind = "hydrate" => calls'[i].token \in Tokens
                      /\ calls'[i].kind = "register" => calls'[i].token = None
                      /\ calls'[i].kind = "login" =>
                            (calls'[i].token \in Tokens <=> calls'[i].reply = "ok")
                      /\ calls'[i].token \in Tokens => tokenState[calls'[i].token] # "none"
                      /\ calls'[i].token \in Tokens /\ calls'[i].reply \in {"unauthorized", "thrown"} =>
                            tokenState[calls'[i].token] = "expired"
    BY DEF TokensCarried
  <2>1. CASE calls'[i] = cs[i] /\ cs[i] # None
    BY <1>12, <2>1 DEF SessionInv, TokensCarried
  <2>2. CASE token # None /\ calls'[i] = call
    BY <1>1, <1>13, <1>16, <2>2
  <2>3. QED
    BY <1>11, <2>1, <2>2
<1>18. NoneIssued
  BY <1>11, <1>12, <1>13 DEF NoneIssued, Issued
<1>19. IssuedOnce' /\ EndedStaysEnded'
  BY <1>18, StorageKept DEF StorageStep
<1>20. RefusedTabLeaves'
  <2>1. auth'[t]["layout"].token \in ended[t] => path'[t] # "/"
    <3>1. path'[t] = "/" => auth'[t]["layout"].token = token /\ token # None
      BY <1>7 DEF Hydrating
    <3>2. QED
      BY <1>16, <3>1
  <2>2. QED
    BY <1>7, <2>1 DEF SessionInv, RefusedTabLeaves
<1>21. QED
  BY <1>10, <1>14, <1>15, <1>17, <1>19, <1>20 DEF SessionInv

\* Enter, as Open, Link, Leave and the answers that move a tab use it.
LEMMA EnterKeeps ==
    ASSUME SessionInv, NEW t \in Tabs, NEW p \in Paths, NEW cs, Thinned(cs, t), Enter(t, p, cs),
           tokenState' = tokenState, ended' = ended, left' \in [Deeds -> Nat],
           leaving' \in [Tabs -> BOOLEAN], \A u \in Tabs : u # t => leaving'[u] = leaving[u]
    PROVE  SessionInv'
<1>1. Place(t, p, GetStoredToken) /\ Hydrate(t, FormOrLayout(p), cs)
  BY DEF Enter, FormOrLayout
<1>2. FormOrLayout(p) \in Copies
  BY DEF FormOrLayout, Copies
<1>3. Asks(t, p, GetStoredToken, cs)
  BY <1>1, <1>2, HydrateCalls DEF Asks, Thinned, SessionInv
<1>4. GetStoredToken \in {stored, legacy, None}
  BY DEF GetStoredToken
<1>5. stored' \in {stored, legacy, None} /\ legacy' \in {stored, legacy, None}
  BY <1>1 DEF Hydrate, Migrate, GetStoredToken
<1>6. QED
  BY <1>1, <1>3, <1>4, <1>5, PlaceKeeps

-----------------------------------------------------------------------------
(* The steps of the user and of the clock. *)

\* A request begins, with a token that was issued.
LEMMA RequestStarts ==
    ASSUME SessionInv, NEW t \in Tabs,
           NEW call \in RequestRecord, Room(calls), calls' = With(calls, call),
           call.reply = None, call.kind # "hydrate",
           call.copy # None => auth[call.tab][call.copy] \in Copy,
           call.kind \in {"register", "login"} => call.token = None /\ call.copy = "form",
           call.token \in Tokens => tokenState[call.token] # "none",
           StorageStep, ended' = ended, auth' = auth, path' = path, crashed' = crashed,
           leaving' = leaving, tokenState' = tokenState,
           stored' \in Tokens \cup {None}, legacy' \in Tokens \cup {None},
           left' \in [Deeds -> Nat],
           form' \in [Tabs -> {"idle", "submitting", "incorrect", "failed", "taken"}]
    PROVE  SessionInv'
<1> USE SessionAssumption
<1>1. Typed
  BY DEF SessionInv
<1>2. PICK i \in CallIds : calls[i] = None /\ calls' = [calls EXCEPT ![i] = call]
  BY <1>1, WithPlaces DEF Typed
<1>3. /\ \A j \in CallIds : j # i => calls'[j] = calls[j]
      /\ calls'[i] = call
  BY <1>1, <1>2 DEF Typed
<1>4. Typed'
  BY <1>1, <1>2 DEF Typed
<1>5. LoadingAttended'
  <2>1. \A j \in CallIds : calls[j] # None => j # i
    BY <1>2
  <2>2. QED
    BY <1>3, <2>1 DEF SessionInv, LoadingAttended
<1>6. CopiesMounted'
  BY <1>3 DEF SessionInv, CopiesMounted
<1>7. TokensCarried'
  BY <1>3 DEF SessionInv, TokensCarried
<1>8. NoneIssued
  BY <1>3 DEF NoneIssued, Issued
<1>9. IssuedOnce' /\ EndedStaysEnded'
  BY <1>8, StorageKept
<1>10. RefusedTabLeaves'
  BY DEF SessionInv, RefusedTabLeaves
<1>11. QED
  BY <1>4, <1>5, <1>6, <1>7, <1>9, <1>10 DEF SessionInv

\* Submitting a form keeps the invariant.
LEMMA SubmitKeeps ==
    ASSUME SessionInv, NEW t \in Tabs, Submit(t) PROVE SessionInv'
<1> USE SessionAssumption
<1>1. Typed
  BY DEF SessionInv
<1>2. PICK kind \in {"login", "register"} :
          SignRequest(t, kind) /\ path[t] \in {"/login", "/register"}
  BY DEF Submit, SignIn, SignUp, SignInForm, RegisterForm
<1> DEFINE call == Call(t, kind, path[t], "form", None)
<1>3. /\ call.tab = t /\ call.kind = kind /\ call.copy = "form" /\ call.token = None
      /\ call.reply = None /\ call \in RequestRecord
  BY <1>1, <1>2 DEF Call, RequestRecord, Copies, Typed
<1>4. auth[call.tab][call.copy] \in Copy
  BY <1>2, <1>3 DEF SessionInv, CopiesMounted
<1>5. calls' = With(calls, call) /\ Room(calls)
  BY <1>2 DEF SignRequest, Submit
<1>6. left' \in [Deeds -> Nat]
  BY <1>1 DEF Submit, Does, Typed, Deeds
<1>7. form' \in [Tabs -> {"idle", "submitting", "incorrect", "failed", "taken"}]
  BY <1>1 DEF Submit, Typed
<1>8. /\ stored' = stored /\ legacy' = legacy /\ ended' = ended /\ auth' = auth /\ path' = path
      /\ crashed' = crashed /\ leaving' = leaving /\ tokenState' = tokenState
  BY DEF Submit, storage
<1>9. StorageStep
  BY <1>8 DEF StorageStep
<1>10. stored' \in Tokens \cup {None} /\ legacy' \in Tokens \cup {None}
  BY <1>1, <1>8 DEF Typed
<1> HIDE DEF call
<1>11. QED
  BY <1>3, <1>4, <1>5, <1>6, <1>7, <1>8, <1>9, <1>10, RequestStarts

\* So does an API request of the page,
LEMMA RequestKeeps ==
    ASSUME SessionInv, NEW t \in Tabs, Request(t) PROVE SessionInv'
<1> USE SessionAssumption
<1>1. Typed
  BY DEF SessionInv
<1> DEFINE call == Call(t, "data", None, None, GetStoredToken)
<1>2. GetStoredToken \in Tokens \cup {None} /\ GetStoredToken \in {stored, legacy}
  BY <1>1 DEF Typed, GetStoredToken
<1>3. /\ call.tab = t /\ call.kind = "data" /\ call.copy = None /\ call.token = GetStoredToken
      /\ call.reply = None /\ call \in RequestRecord
  BY <1>2 DEF Call, RequestRecord
<1>4. call.token \in Tokens => tokenState[call.token] # "none"
  BY <1>2, <1>3 DEF SessionInv, IssuedOnce, Untouched
<1>5. calls' = With(calls, call) /\ Room(calls) /\ Migrate
  BY DEF Request
<1>6. left' \in [Deeds -> Nat]
  BY <1>1 DEF Request, Does, Typed, Deeds
<1>7. /\ ended' = ended /\ auth' = auth /\ path' = path /\ form' = form
      /\ crashed' = crashed /\ leaving' = leaving /\ tokenState' = tokenState
  BY DEF Request, document
<1>8. StorageStep
  BY <1>5, <1>7, MigrateIsStorageStep
<1>9. stored' \in Tokens \cup {None} /\ legacy' \in Tokens \cup {None}
  BY <1>1, <1>2, <1>5 DEF Typed, Migrate
<1>10. form' \in [Tabs -> {"idle", "submitting", "incorrect", "failed", "taken"}]
  BY <1>1, <1>7 DEF Typed
<1> HIDE DEF call
<1>11. QED
  BY <1>3, <1>4, <1>5, <1>6, <1>7, <1>8, <1>9, <1>10, RequestStarts

\* a sign-out,
LEMMA LogoutKeeps ==
    ASSUME SessionInv, NEW t \in Tabs, Logout(t) PROVE SessionInv'
<1> USE SessionAssumption
<1>1. Typed
  BY DEF SessionInv
<1>2. /\ stored' = None /\ legacy' = None /\ calls' = calls /\ tokenState' = tokenState
      /\ path' = path /\ crashed' = crashed /\ form' = form
      /\ ended' = [ended EXCEPT ![t] = @ \cup ({stored, legacy} \ {None})]
      /\ leaving' = [leaving EXCEPT ![t] = @ \/ path[t] # "/login"]
      /\ auth' = [auth EXCEPT ![t]["page"] = Hydrating(None)]
      /\ path[t] = "/"
  BY DEF Logout, ClearStoredToken, RedirectToLogin, Shown
<1>3. Hydrating(None) \in Copy /\ ~Hydrating(None).loading
  BY DEF Hydrating, Copy
<1>4. left' \in [Deeds -> Nat]
  BY <1>1 DEF Logout, Does, Typed, Deeds
<1>5. leaving' \in [Tabs -> BOOLEAN] /\ leaving'[t] = TRUE
  BY <1>1, <1>2 DEF Typed
<1>6. auth' \in [Tabs -> [Copies -> Copy \cup {None}]]
  BY <1>1, <1>2, <1>3 DEF Typed, Copies
<1>7. ended' \in [Tabs -> SUBSET Tokens]
  BY <1>1, <1>2 DEF Typed
<1>8. Typed'
  BY <1>1, <1>2, <1>4, <1>5, <1>6, <1>7 DEF Typed
<1>9. /\ \A u \in Tabs, c \in Copies : u # t \/ c # "page" => auth'[u][c] = auth[u][c]
      /\ auth'[t]["page"] = Hydrating(None)
  BY <1>1, <1>2 DEF Typed, Copies
<1>10. LoadingAttended'
  BY <1>2, <1>3, <1>9 DEF SessionInv, LoadingAttended
<1>11. CopiesMounted'
  <2>1. \A i \in CallIds : calls[i] # None /\ calls[i].copy # None =>
            calls[i].tab \in Tabs /\ calls[i].copy \in Copies
    BY <1>1 DEF Typed, RequestRecord
  <2>2. QED
    BY <1>2, <1>3, <1>9, <2>1 DEF SessionInv, CopiesMounted, Copies
<1>12. TokensCarried'
  BY <1>2 DEF SessionInv, TokensCarried
<1>13. IssuedOnce' /\ EndedStaysEnded'
  <2>1. StorageStep
    BY DEF Logout, StorageStep
  <2>2. NoneIssued
    BY <1>2 DEF NoneIssued, Issued
  <2>3. QED
    BY <1>2, <2>1, <2>2, StorageKept
<1>14. RefusedTabLeaves'
  <2>1. ASSUME NEW u \in Tabs, u # t PROVE ended'[u] = ended[u] /\ leaving'[u] = leaving[u]
    BY <1>1, <1>2, <2>1 DEF Typed
  <2>2. QED
    BY <1>2, <1>5, <1>9, <2>1 DEF SessionInv, RefusedTabLeaves, Copies
<1>15. QED
  BY <1>8, <1>10, <1>11, <1>12, <1>13, <1>14 DEF SessionInv

\* a page that crashes,
LEMMA CrashKeeps ==
    ASSUME SessionInv, NEW t \in Tabs, Crash(t) PROVE SessionInv'
<1> USE SessionAssumption
<1>1. Typed
  BY DEF SessionInv
<1>2. /\ stored' = stored /\ legacy' = legacy /\ tokenState' = tokenState /\ path' = path
      /\ form' = form /\ leaving' = leaving /\ ended' = ended
      /\ crashed' = [crashed EXCEPT ![t] = TRUE]
      /\ auth' = [auth EXCEPT ![t]["page"] = None]
      /\ calls' = Cancelled(calls, t, {"page"})
  BY DEF Crash, storage
<1>3. left' \in [Deeds -> Nat]
  BY <1>1 DEF Crash, Does, Typed, Deeds
<1>4. /\ \A u \in Tabs, c \in Copies : u # t \/ c # "page" => auth'[u][c] = auth[u][c]
      /\ auth'[t]["page"] = None
      /\ auth' \in [Tabs -> [Copies -> Copy \cup {None}]]
  BY <1>1, <1>2 DEF Typed, Copies
<1>5. ASSUME NEW i \in CallIds
      PROVE  calls'[i] = IF calls[i] # None /\ calls[i].tab = t /\ calls[i].copy = "page"
                         THEN [calls[i] EXCEPT !.copy = None] ELSE calls[i]
  BY <1>2 DEF Cancelled
<1>6. ASSUME NEW i \in CallIds, calls[i] # None, calls[i].tab = t, calls[i].copy = "page"
      PROVE  /\ calls'[i] \in RequestRecord /\ calls'[i].copy = None
             /\ calls'[i].tab = calls[i].tab /\ calls'[i].kind = calls[i].kind
             /\ calls'[i].token = calls[i].token /\ calls'[i].reply = calls[i].reply
  <2>1. calls[i] \in RequestRecord
    BY <1>1, <1>6 DEF Typed
  <2>2. calls'[i] = [calls[i] EXCEPT !.copy = None]
    BY <1>5, <1>6
  <2>3. QED
    BY <2>1, <2>2 DEF RequestRecord
<1>7. ASSUME NEW i \in CallIds, ~(calls[i] # None /\ calls[i].tab = t /\ calls[i].copy = "page")
      PROVE  calls'[i] = calls[i]
  BY <1>5, <1>7
<1>8. calls' \in [CallIds -> RequestRecord \cup {None}]
  <2>1. \A i \in CallIds : calls'[i] \in RequestRecord \cup {None}
    BY <1>1, <1>6, <1>7 DEF Typed
  <2>2. QED
    BY <1>2, <2>1 DEF Cancelled
<1>9. Typed'
  BY <1>1, <1>2, <1>3, <1>4, <1>8 DEF Typed
<1>10. LoadingAttended'
  <2> SUFFICES ASSUME NEW u \in Tabs, NEW c \in Copies, auth'[u][c] # None, auth'[u][c].loading
               PROVE  \E i \in CallIds : /\ calls'[i] # None /\ calls'[i].tab = u
                                         /\ calls'[i].copy = c /\ calls'[i].kind = "hydrate"
    BY DEF LoadingAttended
  <2>1. (u # t \/ c # "page") /\ auth[u][c] # None /\ auth[u][c].loading
    BY <1>4
  <2>2. PICK i \in CallIds : /\ calls[i] # None /\ calls[i].tab = u
                            /\ calls[i].copy = c /\ calls[i].kind = "hydrate"
    BY <2>1 DEF SessionInv, LoadingAttended
  <2>3. QED
    BY <1>7, <2>1, <2>2
<1>11. CopiesMounted'
  <2>1. ASSUME NEW i \in CallIds, calls'[i] # None, calls'[i].copy # None
        PROVE  auth'[calls'[i].tab][calls'[i].copy] \in Copy
    <3>1. calls'[i] = calls[i] /\ ~(calls[i].tab = t /\ calls[i].copy = "page")
      BY <1>6, <1>7, <2>1
    <3>2. calls[i].tab \in Tabs /\ calls[i].copy \in Copies
      BY <1>1, <2>1, <3>1 DEF Typed, RequestRecord
    <3>3. QED
      BY <1>4, <2>1, <3>1, <3>2 DEF SessionInv, CopiesMounted
  <2>2. ASSUME NEW i \in CallIds, calls'[i] # None, calls'[i].kind \in {"register", "login"}
        PROVE  calls'[i].copy \in {"form", None}
    BY <1>6, <1>7, <2>2 DEF SessionInv, CopiesMounted
  <2>3. QED
    BY <1>2, <1>4, <2>1, <2>2 DEF SessionInv, CopiesMounted, Copies
<1>12. \A i \in CallIds : calls'[i] # None =>
          /\ calls[i] # None /\ calls'[i].kind = calls[i].kind
          /\ calls'[i].token = calls[i].token /\ calls'[i].reply = calls[i].reply
  BY <1>6, <1>7
<1>13. TokensCarried'
  BY <1>2, <1>12 DEF SessionInv, TokensCarried
<1>14. IssuedOnce' /\ EndedStaysEnded'
  <2>1. NoneIssued
    BY <1>12 DEF NoneIssued, Issued
  <2>2. QED
    BY <1>2, <2>1, StorageKept DEF StorageStep
<1>15. RefusedTabLeaves'
  BY <1>2, <1>4 DEF SessionInv, RefusedTabLeaves, Copies
<1>16. QED
  BY <1>9, <1>10, <1>11, <1>13, <1>14, <1>15 DEF SessionInv

\* a token that expires on the server,
LEMMA ExpireKeeps ==
    ASSUME SessionInv, NEW k \in Tokens, Expire(k), left' = left PROVE SessionInv'
<1> USE SessionAssumption
<1>1. Typed
  BY DEF SessionInv
<1>2. /\ tokenState[k] = "valid" /\ tokenState' = [tokenState EXCEPT ![k] = "expired"]
      /\ stored' = stored /\ legacy' = legacy /\ path' = path /\ auth' = auth
      /\ crashed' = crashed /\ form' = form /\ leaving' = leaving /\ calls' = calls
      /\ ended' = ended
  BY DEF Expire, storage, document
<1>3. Typed'
  BY <1>1, <1>2 DEF Typed
<1>4. LoadingAttended' /\ CopiesMounted' /\ RefusedTabLeaves'
  BY <1>2 DEF SessionInv, LoadingAttended, CopiesMounted, RefusedTabLeaves
<1>5. TokensCarried'
  BY <1>1, <1>2 DEF SessionInv, TokensCarried, Typed
<1>6. IssuedOnce' /\ EndedStaysEnded'
  <2>1. NoneIssued /\ StorageStep
    BY <1>2 DEF NoneIssued, Issued, StorageStep
  <2>2. \A j \in Tokens : tokenState'[j] = "none" => tokenState[j] = "none"
    BY <1>1, <1>2 DEF Typed
  <2>3. QED
    BY <2>1, <2>2, StorageKept
<1>7. QED
  BY <1>3, <1>4, <1>5, <1>6 DEF SessionInv

-----------------------------------------------------------------------------
(* The page mounts: its copy of useAuth asks in its turn. *)

\* a page that mounts, with its copies of useAuth validating the token,
LEMMA PageMounts ==
    ASSUME SessionInv, NEW t \in Tabs,
           NEW cs, cs \in [CallIds -> RequestRecord \cup {None}],
           \A i \in CallIds : cs[i] # None => cs[i] = calls[i],
           Hydrate(t, "page", cs),
           auth' \in [Tabs -> [Copies -> Copy \cup {None}]],
           auth'[t]["page"] = Hydrating(GetStoredToken),
           \A u \in Tabs, c \in Copies : auth[u][c] \in Copy => auth'[u][c] \in Copy,
           \A u \in Tabs : auth[u]["layout"] \in Copy =>
                auth'[u]["layout"].token = auth[u]["layout"].token,
           \A u \in Tabs, c \in Copies :
                (u # t \/ c # "page") /\ auth'[u][c] # None /\ auth'[u][c].loading =>
                    \E i \in CallIds : cs[i] # None /\ cs[i].tab = u /\ cs[i].copy = c
                                      /\ cs[i].kind = "hydrate",
           path' = path, form' = form, leaving' = leaving, tokenState' = tokenState,
           ended' = ended, left' = left, crashed' \in [Tabs -> BOOLEAN]
    PROVE  SessionInv'
<1> DEFINE call == Call(t, "hydrate", None, "page", GetStoredToken)
<1> USE SessionAssumption
<1>1. Typed /\ "page" \in Copies
  BY DEF SessionInv, Copies
<1>2. /\ stored' \in Tokens \cup {None} /\ legacy' \in Tokens \cup {None}
      /\ calls' \in [CallIds -> RequestRecord \cup {None}]
      /\ \/ GetStoredToken = None /\ calls' = cs
         \/ /\ GetStoredToken \in Tokens
            /\ \E i \in CallIds : cs[i] = None /\ calls' = [cs EXCEPT ![i] = call]
  BY <1>1, HydrateCalls
<1>3. /\ call.tab = t /\ call.kind = "hydrate" /\ call.copy = "page"
      /\ call.token = GetStoredToken /\ call.reply = None
  BY DEF Call
<1>4. GetStoredToken \in Tokens => call \in RequestRecord
  BY DEF Call, RequestRecord, Copies
<1> HIDE DEF call
<1>5. Typed'
  BY <1>1, <1>2 DEF Typed
<1>6. \A i \in CallIds : calls'[i] # None =>
          \/ calls'[i] = calls[i]
          \/ GetStoredToken \in Tokens /\ calls'[i] = call
  BY <1>2
<1>7. \A i \in CallIds : cs[i] # None => calls'[i] = cs[i]
  BY <1>2
<1>8. LoadingAttended'
  <2> SUFFICES ASSUME NEW u \in Tabs, NEW c \in Copies, auth'[u][c] # None, auth'[u][c].loading
               PROVE  \E i \in CallIds : /\ calls'[i] # None /\ calls'[i].tab = u
                                         /\ calls'[i].copy = c /\ calls'[i].kind = "hydrate"
    BY DEF LoadingAttended
  <2>1. CASE u = t /\ c = "page"
    <3>1. Hydrating(GetStoredToken).loading
      BY <2>1
    <3>2. Hydrating(GetStoredToken).loading = (GetStoredToken # None)
      BY DEF Hydrating
    <3>3. GetStoredToken # None
      BY <3>1, <3>2
    <3>4. PICK i \in CallIds : calls' = [cs EXCEPT ![i] = call]
      BY <1>2, <3>3
    <3>5. calls'[i] = call /\ call # None
      BY <1>2, <1>4, <3>3, <3>4
    <3>6. QED
      BY <1>3, <2>1, <3>5
  <2>2. CASE u # t \/ c # "page"
    BY <1>7, <2>2
  <2>3. QED
    BY <2>1, <2>2
<1>9. CopiesMounted'
  <2>1. Hydrating(GetStoredToken) \in Copy
    BY <1>1 DEF Hydrating, Copy, GetStoredToken, Typed
  <2>2. ASSUME NEW i \in CallIds, calls'[i] # None, calls'[i].copy # None
        PROVE  auth'[calls'[i].tab][calls'[i].copy] \in Copy
    <3>1. CASE calls'[i] = calls[i]
      <4>1. calls[i].tab \in Tabs /\ calls[i].copy \in Copies
        BY <1>1, <2>2, <3>1 DEF Typed, RequestRecord
      <4>2. QED
        BY <2>2, <3>1, <4>1 DEF SessionInv, CopiesMounted
    <3>2. CASE calls'[i] = call
      BY <1>3, <2>1, <3>2
    <3>3. QED
      BY <1>6, <2>2, <3>1, <3>2
  <2>3. ASSUME NEW i \in CallIds, calls'[i] # None, calls'[i].kind \in {"register", "login"}
        PROVE  calls'[i].copy \in {"form", None}
    BY <1>3, <1>6, <2>3 DEF SessionInv, CopiesMounted
  <2>4. QED
    BY <2>2, <2>3 DEF SessionInv, CopiesMounted, Copies
<1>10. GetStoredToken \in Tokens => tokenState[GetStoredToken] # "none"
  BY DEF GetStoredToken, SessionInv, IssuedOnce, Untouched
<1>11. TokensCarried'
  <2> SUFFICES ASSUME NEW i \in CallIds, calls'[i] # None
               PROVE  /\ calls'[i].kind = "hydrate" => calls'[i].token \in Tokens
                      /\ calls'[i].kind = "register" => calls'[i].token = None
                      /\ calls'[i].kind = "login" =>
                            (calls'[i].token \in Tokens <=> calls'[i].reply = "ok")
                      /\ calls'[i].token \in Tokens => tokenState[calls'[i].token] # "none"
                      /\ calls'[i].token \in Tokens /\ calls'[i].reply \in {"unauthorized", "thrown"} =>
                            tokenState[calls'[i].token] = "expired"
    BY DEF TokensCarried
  <2>1. CASE calls'[i] = calls[i]
    BY <2>1 DEF SessionInv, TokensCarried
  <2>2. CASE GetStoredToken \in Tokens /\ calls'[i] = call
    BY <1>3, <1>10, <2>2
  <2>3. QED
    BY <1>6, <2>1, <2>2
<1>12. IssuedOnce' /\ EndedStaysEnded'
  <2>1. NoneIssued
    BY <1>3, <1>6 DEF NoneIssued, Issued
  <2>2. StorageStep
    BY MigrateIsStorageStep DEF Hydrate
  <2>3. QED
    BY <2>1, <2>2, StorageKept
<1>13. RefusedTabLeaves'
  BY DEF SessionInv, RefusedTabLeaves, CopiesMounted
<1>14. QED
  BY <1>5, <1>8, <1>9, <1>11, <1>12, <1>13 DEF SessionInv

\* a crashed page that is tried again,
LEMMA RetryKeeps ==
    ASSUME SessionInv, NEW t \in Tabs, Retry(t), left' = left PROVE SessionInv'
<1> USE SessionAssumption
<1>1. Typed
  BY DEF SessionInv
<1>2. /\ crashed' = [crashed EXCEPT ![t] = FALSE]
      /\ auth' = [auth EXCEPT ![t]["page"] = Hydrating(GetStoredToken)]
      /\ Hydrate(t, "page", calls)
      /\ tokenState' = tokenState /\ path' = path /\ form' = form /\ leaving' = leaving
      /\ ended' = ended
  BY DEF Retry
<1>3. Hydrating(GetStoredToken) \in Copy
  BY <1>1 DEF Hydrating, Copy, GetStoredToken, Typed
<1>4. /\ auth' \in [Tabs -> [Copies -> Copy \cup {None}]]
      /\ auth'[t]["page"] = Hydrating(GetStoredToken)
      /\ \A u \in Tabs, c \in Copies : u # t \/ c # "page" => auth'[u][c] = auth[u][c]
  BY <1>1, <1>2, <1>3 DEF Typed, Copies
<1>5. \A u \in Tabs, c \in Copies : auth[u][c] \in Copy => auth'[u][c] \in Copy
  BY <1>3, <1>4
<1>6. \A u \in Tabs : auth'[u]["layout"] = auth[u]["layout"]
  BY <1>4 DEF Copies
<1>7. crashed' \in [Tabs -> BOOLEAN] /\ calls \in [CallIds -> RequestRecord \cup {None}]
  BY <1>1, <1>2 DEF Typed
<1>8. \A u \in Tabs, c \in Copies :
         (u # t \/ c # "page") /\ auth'[u][c] # None /\ auth'[u][c].loading =>
             \E i \in CallIds : calls[i] # None /\ calls[i].tab = u /\ calls[i].copy = c
                               /\ calls[i].kind = "hydrate"
  BY <1>4 DEF SessionInv, LoadingAttended
<1>9. QED
  BY <1>2, <1>4, <1>5, <1>6, <1>7, <1>8, PageMounts

-----------------------------------------------------------------------------
(* Answers that leave their request under way. *)

\* A request that becomes rec, in the same tab, attached to the same copy.
LEMMA CallMovesOn ==
    ASSUME SessionInv, NEW i \in CallIds, calls[i] # None,
           NEW rec \in RequestRecord, calls' = [calls EXCEPT ![i] = rec],
           rec.tab = calls[i].tab, rec.copy = calls[i].copy,
           rec.kind = "hydrate" <=> calls[i].kind = "hydrate",
           rec.kind \in {"register", "login"} => calls[i].kind \in {"register", "login"},
           rec.kind = "hydrate" => rec.token \in Tokens,
           rec.kind = "register" => rec.token = None,
           rec.kind = "login" => (rec.token \in Tokens <=> rec.reply = "ok"),
           rec.token \in Tokens => tokenState'[rec.token] # "none",
           rec.token \in Tokens /\ rec.reply \in {"unauthorized", "thrown"} =>
                tokenState'[rec.token] = "expired",
           \A k \in Tokens : tokenState[k] # "none" => tokenState'[k] # "none",
           \A k \in Tokens : tokenState[k] = "expired" => tokenState'[k] = "expired",
           path' = path,
           \A u \in Tabs, c \in Copies : auth[u][c] \in Copy => auth'[u][c] \in Copy,
           \A u \in Tabs, c \in Copies : auth'[u][c] # None /\ auth'[u][c].loading =>
                auth[u][c] # None /\ auth[u][c].loading
    PROVE  /\ calls' \in [CallIds -> RequestRecord \cup {None}]
           /\ LoadingAttended' /\ CopiesMounted' /\ TokensCarried'
<1> USE SessionAssumption
<1>1. Typed
  BY DEF SessionInv
<1>2. calls' \in [CallIds -> RequestRecord \cup {None}]
  BY <1>1 DEF Typed
<1>3. /\ calls'[i] = rec /\ rec # None
      /\ \A j \in CallIds : j # i => calls'[j] = calls[j]
  BY <1>1 DEF Typed
<1>4. LoadingAttended'
  BY <1>3 DEF SessionInv, LoadingAttended
<1>5. CopiesMounted'
  <2>1. \A j \in CallIds : calls[j] # None /\ calls[j].copy # None =>
            calls[j].tab \in Tabs /\ calls[j].copy \in Copies
    BY <1>1 DEF Typed, RequestRecord
  <2>2. QED
    BY <1>3, <2>1 DEF SessionInv, CopiesMounted, Copies
<1>6. TokensCarried'
  BY <1>3 DEF SessionInv, TokensCarried
<1>7. QED
  BY <1>2, <1>4, <1>5, <1>6

\* What Reply makes of a request.
LEMMA ReplyRecord ==
    ASSUME Typed, NEW i \in CallIds, calls[i] # None,
           NEW r \in {"ok", "error", "conflict", "unauthorized", "thrown"}, Reply(i, r)
    PROVE  \E rec \in RequestRecord :
              /\ calls' = [calls EXCEPT ![i] = rec]
              /\ rec.tab = calls[i].tab /\ rec.copy = calls[i].copy /\ rec.kind = calls[i].kind
              /\ rec.token = calls[i].token /\ rec.reply = r
<1> DEFINE rec == [calls[i] EXCEPT !.reply = r]
<1>1. calls[i] \in RequestRecord
  BY DEF Typed
<1>2. /\ rec \in RequestRecord
      /\ rec.tab = calls[i].tab /\ rec.copy = calls[i].copy /\ rec.kind = calls[i].kind
      /\ rec.token = calls[i].token /\ rec.reply = r
  BY <1>1 DEF RequestRecord
<1>3. calls' = [calls EXCEPT ![i] = rec]
  BY DEF Reply
<1>4. QED
  BY <1>2, <1>3

\* The server answers a request; only the answer to a sign-in issues a token.
LEMMA AnswerKeeps ==
    ASSUME SessionInv, NEW i \in CallIds, Answer(i), left' = left PROVE SessionInv'
<1> USE SessionAssumption
<1>1. Typed
  BY DEF SessionInv
<1>2. calls[i] # None /\ calls[i].reply = None /\ calls[i] \in RequestRecord
  BY <1>1 DEF Answer, Typed
<1>3. /\ stored' = stored /\ legacy' = legacy /\ path' = path /\ auth' = auth
      /\ crashed' = crashed /\ form' = form /\ leaving' = leaving /\ ended' = ended
  BY DEF Answer, storage, document
<1>4. RefusedTabLeaves'
  BY <1>3 DEF SessionInv, RefusedTabLeaves
<1>5. StorageStep
  BY <1>3 DEF StorageStep
<1>6. /\ calls[i].kind = "hydrate" => calls[i].token \in Tokens
      /\ calls[i].kind = "register" => calls[i].token = None
      /\ calls[i].kind = "login" => calls[i].token \notin Tokens
      /\ calls[i].token \in Tokens => tokenState[calls[i].token] \in {"valid", "expired"}
      /\ calls[i].token \in Tokens \cup {None}
  BY <1>1, <1>2 DEF SessionInv, TokensCarried, Typed, RequestRecord
<1>7. ASSUME NEW r \in {"ok", "error", "conflict", "unauthorized", "thrown"}, Reply(i, r),
             tokenState' = tokenState, r # "thrown",
             calls[i].kind = "login" => r \in {"error", "unauthorized"},
             r = "unauthorized" /\ calls[i].token \in Tokens => tokenState[calls[i].token] = "expired"
      PROVE  SessionInv'
  <2>1. PICK rec \in RequestRecord :
              /\ calls' = [calls EXCEPT ![i] = rec]
              /\ rec.tab = calls[i].tab /\ rec.copy = calls[i].copy /\ rec.kind = calls[i].kind
              /\ rec.token = calls[i].token /\ rec.reply = r
    BY <1>1, <1>2, <1>7, ReplyRecord
  <2>2. /\ calls' \in [CallIds -> RequestRecord \cup {None}]
        /\ LoadingAttended' /\ CopiesMounted' /\ TokensCarried'
    <3>1. rec.kind = "login" => (rec.token \in Tokens <=> rec.reply = "ok")
      BY <1>6, <1>7, <2>1
    <3>2. rec.token \in Tokens => tokenState'[rec.token] # "none"
      BY <1>6, <1>7, <2>1
    <3>3. rec.token \in Tokens /\ rec.reply \in {"unauthorized", "thrown"} =>
              tokenState'[rec.token] = "expired"
      BY <1>6, <1>7, <2>1
    <3>4. QED
      BY <1>2, <1>3, <1>6, <1>7, <2>1, <3>1, <3>2, <3>3, CallMovesOn
  <2>3. Typed'
    BY <1>1, <1>3, <1>7, <2>2 DEF Typed
  <2>4. NoneIssued
    BY <1>1, <1>7, <2>1 DEF NoneIssued, Issued, Typed
  <2>5. IssuedOnce' /\ EndedStaysEnded'
    BY <1>5, <1>7, <2>4, StorageKept
  <2>6. QED
    BY <1>4, <2>2, <2>3, <2>5 DEF SessionInv
<1>8. CASE Reply(i, "error") /\ tokenState' = tokenState
  BY <1>7, <1>8
<1>9. CASE /\ calls[i].kind \in {"hydrate", "me", "data"}
           /\ Reply(i, IF calls[i].token # None /\ tokenState[calls[i].token] = "valid"
                       THEN "ok" ELSE "unauthorized")
           /\ tokenState' = tokenState
  <2>1. CASE calls[i].token # None /\ tokenState[calls[i].token] = "valid"
    BY <1>7, <1>9, <2>1
  <2>2. CASE ~(calls[i].token # None /\ tokenState[calls[i].token] = "valid")
    BY <1>6, <1>7, <1>9, <2>2
  <2>3. QED
    BY <2>1, <2>2
<1>10. CASE calls[i].kind = "register" /\ Reply(i, "ok") /\ tokenState' = tokenState
  BY <1>7, <1>10
<1>11. CASE calls[i].kind = "register" /\ Reply(i, "conflict") /\ tokenState' = tokenState
  BY <1>7, <1>11
<1>12. CASE calls[i].kind = "login" /\ Reply(i, "unauthorized") /\ tokenState' = tokenState
  BY <1>6, <1>7, <1>12
<1>13. ASSUME calls[i].kind = "login",
              NEW k \in Tokens, tokenState[k] = "none",
              tokenState' = [tokenState EXCEPT ![k] = "valid"],
              calls' = [calls EXCEPT ![i].reply = "ok", ![i].token = k]
       PROVE  SessionInv'
  <2> DEFINE rec == [calls[i] EXCEPT !.reply = "ok", !.token = k]
  <2>1. /\ rec \in RequestRecord
        /\ rec.tab = calls[i].tab /\ rec.copy = calls[i].copy /\ rec.kind = calls[i].kind
        /\ rec.token = k /\ rec.reply = "ok"
    BY <1>2 DEF RequestRecord
  <2>2. calls' = [calls EXCEPT ![i] = rec]
    BY <1>1, <1>13 DEF Typed
  <2> HIDE DEF rec
  <2>3. /\ tokenState'[k] = "valid"
        /\ \A j \in Tokens : j # k => tokenState'[j] = tokenState[j]
    BY <1>1, <1>13 DEF Typed
  <2>4. /\ calls' \in [CallIds -> RequestRecord \cup {None}]
        /\ LoadingAttended' /\ CopiesMounted' /\ TokensCarried'
    <3>1. \A j \in Tokens : tokenState[j] # "none" => tokenState'[j] # "none"
      BY <2>3
    <3>2. \A j \in Tokens : tokenState[j] = "expired" => tokenState'[j] = "expired"
      BY <1>13, <2>3
    <3>3. QED
      BY <1>2, <1>3, <1>13, <2>1, <2>2, <2>3, <3>1, <3>2, CallMovesOn
  <2>5. Typed'
    BY <1>1, <1>3, <1>13, <2>4 DEF Typed
  <2>6. IssuedOnce'
    <3>1. Untouched(k)
      BY <1>13 DEF SessionInv, IssuedOnce
    <3>2. \A j \in CallIds : Issued(j) => j # i /\ calls[j].token \in Tokens /\ calls[j].token # k
      BY <1>2, <1>13 DEF SessionInv, Issued, TokensCarried
    <3>3. calls'[i] = rec /\ \A j \in CallIds : j # i => calls'[j] = calls[j]
      BY <1>1, <2>1, <2>2 DEF Typed
    <3>4. \A j \in Tokens : Untouched(j)' <=> Untouched(j)
      BY <1>3 DEF Untouched
    <3>5. ASSUME NEW j \in CallIds, Issued(j)'
          PROVE  /\ stored' # calls'[j].token /\ legacy' # calls'[j].token
                 /\ \A t \in Tabs : calls'[j].token \notin ended'[t]
      <4>1. CASE j = i
        BY <1>3, <2>1, <3>1, <3>3, <4>1 DEF Untouched
      <4>2. CASE j # i
        <5>1. Issued(j) /\ calls'[j] = calls[j]
          BY <3>3, <3>5, <4>2 DEF Issued
        <5>2. Untouched(calls[j].token)
          BY <5>1 DEF SessionInv, IssuedOnce
        <5>3. QED
          BY <1>3, <5>1, <5>2 DEF Untouched
      <4>3. QED
        BY <4>1, <4>2
    <3>6. \A j \in CallIds : Issued(j)' => Untouched(calls[j].token)'
      BY <3>5 DEF Untouched
    <3>7. \A j, l \in CallIds : Issued(j)' /\ Issued(l)' /\ j # l => calls'[j].token # calls'[l].token
      BY <2>1, <3>2, <3>3 DEF SessionInv, IssuedOnce, Issued
    <3>8. \A j \in Tokens : tokenState'[j] = "none" => Untouched(j)'
      BY <2>3, <3>4 DEF SessionInv, IssuedOnce
    <3>9. QED
      BY <3>6, <3>7, <3>8 DEF IssuedOnce
  <2>7. EndedStaysEnded'
    BY <1>3 DEF SessionInv, EndedStaysEnded
  <2>8. QED
    BY <1>4, <2>4, <2>5, <2>6, <2>7 DEF SessionInv
<1>14. QED
  BY <1>8, <1>9, <1>10, <1>11, <1>12, <1>13 DEF Answer

\* The storage is cleared, and the tab remembers what it held.
LEMMA UnauthorizedKeeps ==
    ASSUME SessionInv, NEW i \in CallIds, Unauthorized(i), left' = left PROVE SessionInv'
<1> USE SessionAssumption
<1> DEFINE t == calls[i].tab
<1>1. Typed
  BY DEF SessionInv
<1>2. /\ calls[i] # None /\ calls[i].reply = "unauthorized" /\ calls[i] \in RequestRecord
      /\ t \in Tabs
  BY <1>1 DEF Unauthorized, Answered, SignsOut, Typed, RequestRecord
<1>3. /\ stored' = None /\ legacy' = None /\ path' = path /\ auth' = auth
      /\ crashed' = crashed /\ form' = form /\ tokenState' = tokenState
      /\ ended' = [ended EXCEPT ![t] = @ \cup ({stored, legacy} \ {None})]
      /\ leaving' = [leaving EXCEPT ![t] = @ \/ path[t] # "/login"]
      /\ Reply(i, "thrown")
  BY DEF Unauthorized, ClearStoredToken, RedirectToLogin, document
<1>4. PICK rec \in RequestRecord :
              /\ calls' = [calls EXCEPT ![i] = rec]
              /\ rec.tab = t /\ rec.copy = calls[i].copy /\ rec.kind = calls[i].kind
              /\ rec.token = calls[i].token /\ rec.reply = "thrown"
  BY <1>1, <1>2, <1>3, ReplyRecord
<1>5. /\ calls' \in [CallIds -> RequestRecord \cup {None}]
      /\ LoadingAttended' /\ CopiesMounted' /\ TokensCarried'
  <2>1. /\ rec.kind = "hydrate" => rec.token \in Tokens
        /\ rec.kind = "register" => rec.token = None
        /\ rec.kind = "login" => (rec.token \in Tokens <=> rec.reply = "ok")
        /\ rec.token \in Tokens => tokenState'[rec.token] # "none"
        /\ rec.token \in Tokens /\ rec.reply \in {"unauthorized", "thrown"} =>
                tokenState'[rec.token] = "expired"
    BY <1>2, <1>3, <1>4 DEF SessionInv, TokensCarried
  <2>2. QED
    BY <1>2, <1>3, <1>4, <2>1, CallMovesOn
<1>6. leaving' \in [Tabs -> BOOLEAN] /\ ended' \in [Tabs -> SUBSET Tokens]
  BY <1>1, <1>2, <1>3 DEF Typed
<1>7. Typed'
  BY <1>1, <1>3, <1>5, <1>6 DEF Typed
<1>8. IssuedOnce' /\ EndedStaysEnded'
  <2>1. StorageStep
    BY <1>2 DEF Unauthorized, StorageStep
  <2>2. NoneIssued
    BY <1>1, <1>4 DEF NoneIssued, Issued, Typed
  <2>3. QED
    BY <1>3, <2>1, <2>2, StorageKept
<1>9. RefusedTabLeaves'
  <2>1. path[t] = "/" => leaving'[t] = TRUE
    BY <1>1, <1>2, <1>3 DEF Typed
  <2>2. ASSUME NEW u \in Tabs, u # t PROVE ended'[u] = ended[u] /\ leaving'[u] = leaving[u]
    BY <1>1, <1>2, <1>3, <2>2 DEF Typed
  <2>3. QED
    BY <1>3, <2>1, <2>2 DEF SessionInv, RefusedTabLeaves
<1>10. QED
  BY <1>5, <1>7, <1>8, <1>9 DEF SessionInv

\* a registration that goes on to sign in,
LEMMA RegisteredKeeps ==
    ASSUME SessionInv, NEW i \in CallIds, Registered(i), left' = left PROVE SessionInv'
<1> USE SessionAssumption
<1> DEFINE rec == [calls[i] EXCEPT !.kind = "login", !.reply = None]
<1>1. Typed
  BY DEF SessionInv
<1>2. calls[i] # None /\ calls[i].kind = "register" /\ calls[i] \in RequestRecord
  BY <1>1 DEF Registered, Answered, Typed
<1>3. /\ stored' = stored /\ legacy' = legacy /\ path' = path /\ auth' = auth
      /\ crashed' = crashed /\ form' = form /\ leaving' = leaving /\ ended' = ended
      /\ tokenState' = tokenState
  BY DEF Registered, storage, document
<1>4. /\ rec \in RequestRecord
      /\ rec.tab = calls[i].tab /\ rec.copy = calls[i].copy /\ rec.kind = "login"
      /\ rec.token = calls[i].token /\ rec.reply = None
  BY <1>2 DEF RequestRecord
<1>5. calls' = [calls EXCEPT ![i] = rec]
  BY <1>1 DEF Registered, Typed
<1> HIDE DEF rec
<1>6. rec.token = None
  BY <1>2, <1>4 DEF SessionInv, TokensCarried
<1>7. /\ calls' \in [CallIds -> RequestRecord \cup {None}]
      /\ LoadingAttended' /\ CopiesMounted' /\ TokensCarried'
  BY <1>2, <1>3, <1>4, <1>5, <1>6, CallMovesOn
<1>8. Typed'
  BY <1>1, <1>3, <1>7 DEF Typed
<1>9. IssuedOnce' /\ EndedStaysEnded'
  <2>1. StorageStep
    BY <1>3 DEF StorageStep
  <2>2. NoneIssued
    BY <1>1, <1>4, <1>5 DEF NoneIssued, Issued, Typed
  <2>3. QED
    BY <1>3, <2>1, <2>2, StorageKept
<1>10. RefusedTabLeaves'
  BY <1>3 DEF SessionInv, RefusedTabLeaves
<1>11. QED
  BY <1>7, <1>8, <1>9, <1>10 DEF SessionInv

\* The token of a sign-in enters the storage: no tab has ended it.
LEMMA SignedInKeeps ==
    ASSUME SessionInv, NEW i \in CallIds, SignedIn(i), left' = left PROVE SessionInv'
<1> USE SessionAssumption
<1> DEFINE t == calls[i].tab
           k == calls[i].token
           rec == [calls[i] EXCEPT !.kind = "me", !.reply = None]
<1>1. Typed
  BY DEF SessionInv
<1>2. calls[i] # None /\ Issued(i) /\ calls[i] \in RequestRecord /\ t \in Tabs /\ k \in Tokens
  BY <1>1 DEF SignedIn, Answered, Typed, RequestRecord, SessionInv, TokensCarried, Issued
<1>3. /\ stored' = k /\ legacy' = legacy /\ path' = path
      /\ auth' = IF calls[i].copy = None THEN auth ELSE [auth EXCEPT ![t]["form"].token = k]
      /\ crashed' = crashed /\ form' = form /\ leaving' = leaving /\ ended' = ended
      /\ tokenState' = tokenState
  BY DEF SignedIn, SetStoredToken
<1>4. /\ rec \in RequestRecord
      /\ rec.tab = t /\ rec.copy = calls[i].copy /\ rec.kind = "me"
      /\ rec.token = k /\ rec.reply = None
  BY <1>2 DEF RequestRecord
<1>5. calls' = [calls EXCEPT ![i] = rec]
  BY <1>1 DEF SignedIn, Typed
<1> HIDE DEF rec
<1>6. tokenState[k] # "none" /\ Untouched(k)
  BY <1>2 DEF SessionInv, TokensCarried, IssuedOnce
<1>7. /\ auth' \in [Tabs -> [Copies -> Copy \cup {None}]]
      /\ \A u \in Tabs, c \in Copies : auth[u][c] \in Copy => auth'[u][c] \in Copy
      /\ \A u \in Tabs, c \in Copies : auth'[u][c] # None /\ auth'[u][c].loading =>
                auth[u][c] # None /\ auth[u][c].loading
      /\ \A u \in Tabs : auth'[u]["layout"] = auth[u]["layout"]
  <2>1. CASE calls[i].copy = None
    BY <1>1, <1>3, <2>1 DEF Typed
  <2>2. CASE calls[i].copy # None
    <3> DEFINE a == auth[t]["form"]
               b == [a EXCEPT !.token = k]
    <3>1. a \in Copy
      BY <1>2, <2>2 DEF SessionInv, CopiesMounted, Issued
    <3>2. b \in Copy /\ b.loading = a.loading
      BY <1>2, <3>1 DEF Copy
    <3>3. auth' = [auth EXCEPT ![t]["form"] = b]
      BY <1>1, <1>2, <1>3, <2>2 DEF Typed, Copies
    <3> HIDE DEF b
    <3>4. /\ auth' \in [Tabs -> [Copies -> Copy \cup {None}]]
          /\ auth'[t]["form"] = b
          /\ \A u \in Tabs, c \in Copies : u # t \/ c # "form" => auth'[u][c] = auth[u][c]
      BY <1>1, <1>2, <3>2, <3>3 DEF Typed, Copies
    <3>5. a # None
      BY <3>1
    <3>6. QED
      BY <3>1, <3>2, <3>4, <3>5 DEF Copies
  <2>3. QED
    BY <2>1, <2>2
<1>8. /\ calls' \in [CallIds -> RequestRecord \cup {None}]
      /\ LoadingAttended' /\ CopiesMounted' /\ TokensCarried'
  BY <1>2, <1>3, <1>4, <1>5, <1>6, <1>7, CallMovesOn DEF Issued
<1>9. Typed'
  BY <1>1, <1>2, <1>3, <1>7, <1>8 DEF Typed
<1>10. \A j \in CallIds : Issued(j)' => j # i /\ Issued(j) /\ calls'[j] = calls[j]
  BY <1>1, <1>4, <1>5 DEF Issued, Typed
<1>11. IssuedOnce'
  BY <1>2, <1>3, <1>6, <1>10 DEF SessionInv, IssuedOnce, Untouched
<1>12. EndedStaysEnded'
  BY <1>3, <1>6 DEF SessionInv, EndedStaysEnded, Untouched
<1>13. RefusedTabLeaves'
  BY <1>3, <1>7 DEF SessionInv, RefusedTabLeaves
<1>14. QED
  BY <1>8, <1>9, <1>11, <1>12, <1>13 DEF SessionInv

-----------------------------------------------------------------------------
(* Answers that end their request. *)

\* The copy the request was for, if it was for one, is not loading any more.
LEMMA AnswerTaken ==
    ASSUME SessionInv, NEW i \in CallIds, calls[i] # None, calls' = Without(i),
           auth' \in [Tabs -> [Copies -> Copy \cup {None}]],
           \A u \in Tabs, c \in Copies : auth[u][c] \in Copy => auth'[u][c] \in Copy,
           \A u \in Tabs, c \in Copies : auth'[u][c] # None /\ auth'[u][c].loading =>
                /\ auth[u][c] # None /\ auth[u][c].loading
                /\ ~(calls[i].kind = "hydrate" /\ u = calls[i].tab /\ c = calls[i].copy),
           \A u \in Tabs : auth[u]["layout"] \in Copy =>
                auth'[u]["layout"].token = auth[u]["layout"].token,
           form' \in [Tabs -> {"idle", "submitting", "incorrect", "failed", "taken"}],
           stored' \in {stored, None}, legacy' \in {legacy, None},
           path' = path, crashed' = crashed, leaving' = leaving, tokenState' = tokenState,
           ended' = ended, left' = left
    PROVE  SessionInv'
<1> USE SessionAssumption
<1>1. Typed
  BY DEF SessionInv
<1>2. /\ calls'[i] = None /\ calls' \in [CallIds -> RequestRecord \cup {None}]
      /\ \A j \in CallIds : j # i => calls'[j] = calls[j]
  BY <1>1 DEF Typed, Without
<1>3. Typed'
  BY <1>1, <1>2 DEF Typed
<1>4. LoadingAttended'
  <2> SUFFICES ASSUME NEW u \in Tabs, NEW c \in Copies, auth'[u][c] # None, auth'[u][c].loading
               PROVE  \E j \in CallIds : /\ calls'[j] # None /\ calls'[j].tab = u
                                         /\ calls'[j].copy = c /\ calls'[j].kind = "hydrate"
    BY DEF LoadingAttended
  <2>1. PICK j \in CallIds : /\ calls[j] # None /\ calls[j].tab = u
                            /\ calls[j].copy = c /\ calls[j].kind = "hydrate"
    BY DEF SessionInv, LoadingAttended
  <2>2. QED
    BY <1>2, <2>1
<1>5. CopiesMounted'
  <2>1. \A j \in CallIds : calls[j] # None /\ calls[j].copy # None =>
            calls[j].tab \in Tabs /\ calls[j].copy \in Copies
    BY <1>1 DEF Typed, RequestRecord
  <2>2. QED
    BY <1>2, <2>1 DEF SessionInv, CopiesMounted, Copies
<1>6. TokensCarried'
  BY <1>2 DEF SessionInv, TokensCarried
<1>7. IssuedOnce' /\ EndedStaysEnded'
  <2>1. NoneIssued /\ StorageStep
    BY <1>2 DEF NoneIssued, Issued, StorageStep
  <2>2. QED
    BY <2>1, StorageKept
<1>8. RefusedTabLeaves'
  BY DEF SessionInv, RefusedTabLeaves, CopiesMounted
<1>9. QED
  BY <1>3, <1>4, <1>5, <1>6, <1>7, <1>8 DEF SessionInv

\* ... also when nothing shows it: the request was not for a user, or for a
\* copy that is gone.
LEMMA AnswerUnseen ==
    ASSUME SessionInv, NEW i \in CallIds, calls[i] # None, calls' = Without(i),
           calls[i].kind # "hydrate" \/ calls[i].copy = None, auth' = auth,
           form' \in [Tabs -> {"idle", "submitting", "incorrect", "failed", "taken"}],
           stored' \in {stored, None}, legacy' \in {legacy, None},
           path' = path, crashed' = crashed, leaving' = leaving, tokenState' = tokenState,
           ended' = ended, left' = left
    PROVE  SessionInv'
<1>1. auth' \in [Tabs -> [Copies -> Copy \cup {None}]]
  BY DEF SessionInv, Typed
<1>2. None \notin Copies
  BY SessionAssumption
<1>3. QED
  BY <1>1, <1>2, AnswerTaken

\* a form whose request fails,
LEMMA SubmitFailsKeeps ==
    ASSUME SessionInv, NEW i \in CallIds, SubmitFails(i), left' = left PROVE SessionInv'
<1>1. Typed
  BY DEF SessionInv
<1>2. calls[i] # None /\ calls[i].kind # "hydrate" /\ calls' = Without(i)
  BY DEF SubmitFails, Answered
<1>3. form' \in [Tabs -> {"idle", "submitting", "incorrect", "failed", "taken"}]
  BY <1>1 DEF SubmitFails, Notice, Typed
<1>4. /\ stored' = stored /\ legacy' = legacy /\ path' = path /\ auth' = auth
      /\ crashed' = crashed /\ leaving' = leaving /\ tokenState' = tokenState /\ ended' = ended
  BY DEF SubmitFails, storage
<1>5. QED
  BY <1>2, <1>3, <1>4, AnswerUnseen

\* a request that ends,
LEMMA RequestEndsKeeps ==
    ASSUME SessionInv, NEW i \in CallIds, RequestEnds(i), left' = left PROVE SessionInv'
<1>1. calls[i] # None /\ calls[i].kind # "hydrate" /\ calls' = Without(i)
  BY DEF RequestEnds, Answered
<1>2. /\ stored' = stored /\ legacy' = legacy /\ path' = path /\ auth' = auth /\ form' = form
      /\ crashed' = crashed /\ leaving' = leaving /\ tokenState' = tokenState /\ ended' = ended
  BY DEF RequestEnds, storage, document
<1>3. form' \in [Tabs -> {"idle", "submitting", "incorrect", "failed", "taken"}]
  BY <1>2 DEF SessionInv, Typed
<1>4. QED
  BY <1>1, <1>2, <1>3, AnswerUnseen

\* and a sign-in that lands.
LEMMA LandedKeeps ==
    ASSUME SessionInv, NEW i \in CallIds, Landed(i), left' = left PROVE SessionInv'
<1> DEFINE t == calls[i].tab
<1>1. Typed
  BY DEF SessionInv
<1>2. calls[i] # None /\ calls[i].kind # "hydrate" /\ calls[i] \in RequestRecord /\ t \in Tabs
  BY <1>1 DEF Landed, Answered, Typed, RequestRecord
<1>3. tokenState' = tokenState /\ leaving' = leaving /\ ended' = ended
  BY DEF Landed
<1>4. leaving' \in [Tabs -> BOOLEAN] /\ left' \in [Deeds -> Nat] /\ "/" \in Paths
  BY <1>1, <1>3 DEF Typed, Paths
<1>5. CASE path[t] = "/"
  <2>1. /\ stored' = stored /\ legacy' = legacy /\ path' = path /\ auth' = auth /\ form' = form
        /\ crashed' = crashed /\ calls' = Without(i)
    BY <1>5 DEF Landed, storage, document
  <2>2. form' \in [Tabs -> {"idle", "submitting", "incorrect", "failed", "taken"}]
    BY <1>1, <2>1 DEF Typed
  <2>3. QED
    BY <1>2, <1>3, <2>1, <2>2, AnswerUnseen
<1>6. CASE path[t] # "/"
  <2>1. Enter(t, "/", Cancelled(Without(i), t, Copies))
    BY <1>6 DEF Landed, Navigate
  <2>2. Thinned(Cancelled(Without(i), t, Copies), t)
    BY <1>1, <1>2, AnswerThins
  <2>3. QED
    BY <1>2, <1>3, <1>4, <2>1, <2>2, EnterKeeps
<1>7. QED
  BY <1>5, <1>6

\* The user of a copy is known; the layout's mounts the page.
LEMMA HydratedKeeps ==
    ASSUME SessionInv, NEW i \in CallIds, Hydrated(i), left' = left PROVE SessionInv'
<1> USE SessionAssumption
<1> DEFINE t == calls[i].tab
           copy == calls[i].copy
           user == Owner[calls[i].token]
           a == auth[t][copy]
           b == [a EXCEPT !.user = user, !.loading = FALSE]
<1>1. Typed
  BY DEF SessionInv
<1>2. /\ calls[i] # None /\ calls[i].kind = "hydrate" /\ calls[i] \in RequestRecord
      /\ t \in Tabs /\ copy \in Copies \cup {None}
  BY <1>1 DEF Hydrated, Answered, Typed, RequestRecord
<1>3. calls[i].token \in Tokens
  BY <1>2 DEF SessionInv, TokensCarried
<1>4. /\ tokenState' = tokenState /\ path' = path /\ crashed' = crashed /\ form' = form
      /\ leaving' = leaving /\ ended' = ended
  BY DEF Hydrated
<1>5. copy # None => a \in Copy
  BY <1>2 DEF SessionInv, CopiesMounted
<1>6. copy # None => b \in Copy /\ b.token = a.token /\ b.loading = FALSE
  BY <1>3, <1>5 DEF Copy
<1>7. copy # None => [auth[t] EXCEPT ![copy].user = user, ![copy].loading = FALSE] = [auth[t] EXCEPT ![copy] = b]
  BY <1>1, <1>2, <1>5 DEF Typed
<1>8. /\ form' \in [Tabs -> {"idle", "submitting", "incorrect", "failed", "taken"}]
      /\ crashed' \in [Tabs -> BOOLEAN]
  BY <1>1, <1>4 DEF Typed
<1> HIDE DEF b
<1>9. CASE copy = "layout"
  <2> DEFINE h == Hydrating(GetStoredToken)
  <2>1. /\ auth' = [auth EXCEPT ![t] = [[auth[t] EXCEPT ![copy] = b] EXCEPT !["page"] = h]]
        /\ Hydrate(t, "page", Without(i))
    BY <1>2, <1>7, <1>9 DEF Hydrated, Copies
  <2>2. h \in Copy
    BY <1>1 DEF Hydrating, Copy, GetStoredToken, Typed
  <2> HIDE DEF h
  <2>3. /\ auth' \in [Tabs -> [Copies -> Copy \cup {None}]]
        /\ auth'[t]["page"] = h /\ auth'[t]["layout"] = b
        /\ \A u \in Tabs, c \in Copies : u # t \/ c \notin {"page", "layout"} => auth'[u][c] = auth[u][c]
    BY <1>1, <1>2, <1>6, <1>9, <2>1, <2>2 DEF Typed, Copies
  <2>4. \A u \in Tabs, c \in Copies : auth[u][c] \in Copy => auth'[u][c] \in Copy
    BY <1>2, <1>6, <1>9, <2>2, <2>3
  <2>5. \A u \in Tabs : auth[u]["layout"] \in Copy =>
            auth'[u]["layout"].token = auth[u]["layout"].token
    BY <1>2, <1>6, <1>9, <2>3 DEF Copies
  <2>6. /\ Without(i) \in [CallIds -> RequestRecord \cup {None}]
        /\ \A j \in CallIds : Without(i)[j] = IF j = i THEN None ELSE calls[j]
    BY <1>1 DEF Without, Typed
  <2>7. ASSUME NEW u \in Tabs, NEW c \in Copies, u # t \/ c # "page",
               auth'[u][c] # None, auth'[u][c].loading
        PROVE  \E j \in CallIds : /\ Without(i)[j] # None /\ Without(i)[j].tab = u
                                  /\ Without(i)[j].copy = c /\ Without(i)[j].kind = "hydrate"
    <3>1. u # t \/ c # "layout"
      <4>1. CASE u = t /\ c = "layout"
        <5>1. b.loading
          BY <2>3, <2>7, <4>1
        <5>2. QED
          BY <1>2, <1>6, <1>9, <5>1
      <4>2. QED
        BY <4>1
    <3>2. auth[u][c] # None /\ auth[u][c].loading
      BY <2>3, <2>7, <3>1
    <3>3. PICK j \in CallIds : /\ calls[j] # None /\ calls[j].tab = u
                              /\ calls[j].copy = c /\ calls[j].kind = "hydrate"
      BY <3>2 DEF SessionInv, LoadingAttended
    <3>4. QED
      BY <1>9, <2>6, <3>1, <3>3
  <2>8. \A j \in CallIds : Without(i)[j] # None => Without(i)[j] = calls[j]
    BY <2>6
  <2>9. auth'[t]["page"] = Hydrating(GetStoredToken)
    BY <2>3 DEF h
  <2>10. ASSUME NEW tab \in Tabs, NEW cs, tab = t, cs = Without(i) PROVE SessionInv'
    <3>1. /\ cs \in [CallIds -> RequestRecord \cup {None}]
          /\ \A j \in CallIds : cs[j] # None => cs[j] = calls[j]
          /\ Hydrate(tab, "page", cs)
          /\ auth'[tab]["page"] = Hydrating(GetStoredToken)
      BY <2>1, <2>6, <2>8, <2>9, <2>10
    <3>2. \A u \in Tabs, c \in Copies :
             (u # tab \/ c # "page") /\ auth'[u][c] # None /\ auth'[u][c].loading =>
                 \E j \in CallIds : cs[j] # None /\ cs[j].tab = u /\ cs[j].copy = c
                                   /\ cs[j].kind = "hydrate"
      BY <2>7, <2>10
    <3>3. QED
      BY <1>4, <1>8, <2>3, <2>4, <2>5, <3>1, <3>2, PageMounts
  <2>11. QED
    BY <1>2, <2>10
<1>10. CASE copy \in {"page", "form"}
  <2>1. /\ auth' = [auth EXCEPT ![t] = [auth[t] EXCEPT ![copy] = b]]
        /\ calls' = Without(i) /\ stored' = stored /\ legacy' = legacy
    BY <1>2, <1>7, <1>10 DEF Hydrated, Copies, storage
  <2>2. /\ auth' \in [Tabs -> [Copies -> Copy \cup {None}]]
        /\ auth'[t][copy] = b
        /\ \A u \in Tabs, c \in Copies : u # t \/ c # copy => auth'[u][c] = auth[u][c]
    BY <1>1, <1>2, <1>6, <1>10, <2>1 DEF Typed, Copies
  <2>3. \A u \in Tabs, c \in Copies : auth[u][c] \in Copy => auth'[u][c] \in Copy
    BY <1>2, <1>6, <1>10, <2>2
  <2>4. \A u \in Tabs : auth[u]["layout"] \in Copy =>
            auth'[u]["layout"].token = auth[u]["layout"].token
    BY <1>10, <2>2 DEF Copies
  <2>5. ASSUME NEW u \in Tabs, NEW c \in Copies, auth'[u][c] # None, auth'[u][c].loading
        PROVE  /\ auth[u][c] # None /\ auth[u][c].loading
               /\ ~(u = t /\ c = copy)
    <3>1. u # t \/ c # copy
      <4>1. CASE u = t /\ c = copy
        <5>1. b.loading
          BY <2>2, <2>5, <4>1
        <5>2. QED
          BY <1>2, <1>6, <1>10, <5>1
      <4>2. QED
        BY <4>1
    <3>2. QED
      BY <2>2, <2>5, <3>1
  <2>6. QED
    BY <1>2, <1>4, <1>8, <2>1, <2>2, <2>3, <2>4, <2>5, AnswerTaken
<1>11. CASE copy = None
  <2>1. calls' = Without(i) /\ auth' = auth /\ stored' = stored /\ legacy' = legacy
    BY <1>11 DEF Hydrated, storage, Copies
  <2>2. QED
    BY <1>2, <1>4, <1>8, <1>11, <2>1, AnswerUnseen
<1>12. QED
  BY <1>2, <1>9, <1>10, <1>11 DEF Copies

\* A layout without a user sends its tab away; any other copy just knows none.
LEMMA HydrateFailsKeeps ==
    ASSUME SessionInv, NEW i \in CallIds, HydrateFails(i), left' = left PROVE SessionInv'
<1> USE SessionAssumption
<1> DEFINE t == calls[i].tab
           copy == calls[i].copy
           refused == calls[i].reply = "thrown"
           b == Unknown(copy, IF refused THEN None ELSE calls[i].token)
<1>1. Typed
  BY DEF SessionInv
<1>2. /\ calls[i] # None /\ calls[i].kind = "hydrate" /\ calls[i] \in RequestRecord
      /\ t \in Tabs /\ copy \in Copies \cup {None}
  BY <1>1 DEF HydrateFails, Answered, Typed, RequestRecord
<1>3. calls[i].token \in Tokens
  BY <1>2 DEF SessionInv, TokensCarried
<1>4. b \in Copy /\ b.loading = FALSE
  BY <1>3 DEF Unknown, Copy
<1>5. tokenState' = tokenState /\ leaving' = leaving /\ leaving' \in [Tabs -> BOOLEAN]
  BY <1>1 DEF HydrateFails, Typed
<1>6. left' \in [Deeds -> Nat] /\ "/login" \in Paths
  BY <1>1 DEF Typed, Paths
<1>7. Thinned(Cancelled(Without(i), t, Copies), t)
  BY <1>1, <1>2, AnswerThins
<1>8. CASE copy = "layout" /\ refused
  <2>1. /\ ClearAgain /\ Place(t, "/login", None)
        /\ calls' = Cancelled(Without(i), t, Copies)
    BY <1>4, <1>8 DEF HydrateFails
  <2>2. Asks(t, "/login", None, Cancelled(Without(i), t, Copies))
    BY <2>1 DEF Asks
  <2>3. stored' = None /\ legacy' = None /\ ended' = ended
    BY <2>1 DEF ClearAgain
  <2>4. QED
    BY <1>2, <1>5, <1>6, <1>7, <2>1, <2>2, <2>3, PlaceKeeps
<1>9. CASE copy = "layout" /\ ~refused
  <2>1. Enter(t, "/login", Cancelled(Without(i), t, Copies)) /\ ended' = ended
    BY <1>4, <1>9 DEF HydrateFails, Navigate
  <2>2. QED
    BY <1>2, <1>5, <1>6, <1>7, <2>1, EnterKeeps
<1>10. CASE copy # "layout"
  <2>1. /\ auth' = IF copy = None THEN auth ELSE [auth EXCEPT ![t][copy] = b]
        /\ IF refused THEN ClearAgain ELSE UNCHANGED <<storage, ended>>
        /\ calls' = Without(i) /\ path' = path /\ crashed' = crashed /\ form' = form
    BY <1>10 DEF HydrateFails
  <2>2. stored' \in {stored, None} /\ legacy' \in {legacy, None} /\ ended' = ended
    BY <2>1 DEF ClearAgain, storage
  <2>3. form' \in [Tabs -> {"idle", "submitting", "incorrect", "failed", "taken"}]
    BY <1>1, <2>1 DEF Typed
  <2>4. CASE copy = None
    BY <1>2, <1>5, <2>1, <2>2, <2>3, <2>4, AnswerUnseen
  <2>5. CASE copy # None
    <3> HIDE DEF b
    <3>1. /\ auth' \in [Tabs -> [Copies -> Copy \cup {None}]]
          /\ auth'[t][copy] = b
          /\ \A u \in Tabs, c \in Copies : u # t \/ c # copy => auth'[u][c] = auth[u][c]
      BY <1>1, <1>2, <1>4, <2>1, <2>5 DEF Typed
    <3>2. \A u \in Tabs, c \in Copies : auth[u][c] \in Copy => auth'[u][c] \in Copy
      BY <1>4, <3>1
    <3>3. \A u \in Tabs : auth[u]["layout"] \in Copy =>
              auth'[u]["layout"].token = auth[u]["layout"].token
      BY <1>10, <3>1 DEF Copies
    <3>4. ASSUME NEW u \in Tabs, NEW c \in Copies, auth'[u][c] # None, auth'[u][c].loading
          PROVE  /\ auth[u][c] # None /\ auth[u][c].loading
                 /\ ~(u = t /\ c = copy)
      <4>1. u # t \/ c # copy
        <5>1. CASE u = t /\ c = copy
          <6>1. b.loading
            BY <3>1, <3>4, <5>1
          <6>2. QED
            BY <1>4, <6>1
        <5>2. QED
          BY <5>1
      <4>2. QED
        BY <3>1, <3>4, <4>1
    <3>5. QED
      BY <1>2, <1>5, <2>1, <2>2, <2>3, <3>1, <3>2, <3>3, <3>4, AnswerTaken
  <2>6. QED
    BY <2>4, <2>5
<1>11. QED
  BY <1>8, <1>9, <1>10

-----------------------------------------------------------------------------
(* The theorems. *)

\* The invariant holds when no page is open yet.
LEMMA InitInv == Init => SessionInv
<1> SUFFICES ASSUME Init PROVE SessionInv
  OBVIOUS
<1> USE SessionAssumption DEF Init
<1>1. Typed
  BY DEF Typed
<1>2. LoadingAttended
  BY DEF LoadingAttended
<1>3. CopiesMounted /\ TokensCarried /\ RefusedTabLeaves
  BY DEF CopiesMounted, TokensCarried, RefusedTabLeaves, Paths
<1>4. EndedStaysEnded
  BY DEF EndedStaysEnded
<1>5. IssuedOnce
  BY DEF IssuedOnce, Issued, Untouched
<1>6. QED
  BY <1>1, <1>2, <1>3, <1>4, <1>5 DEF SessionInv

\* Every step keeps it.
LEMMA StepKeeps == SessionInv /\ [Next]_vars => SessionInv'
<1> SUFFICES ASSUME SessionInv, [Next]_vars PROVE SessionInv'
  OBVIOUS
<1>1. Typed
  BY DEF SessionInv
<1>2. ASSUME NEW t \in Tabs, NEW p \in Paths, Open(t, p) PROVE SessionInv'
  <2>1. Enter(t, p, Dropped(t)) /\ tokenState' = tokenState /\ ended' = ended
    BY <1>2 DEF Open
  <2>2. left' \in [Deeds -> Nat]
    BY <1>1, <1>2 DEF Open, Does, Typed, Deeds
  <2>3. leaving' \in [Tabs -> BOOLEAN] /\ \A u \in Tabs : u # t => leaving'[u] = leaving[u]
    BY <1>1, <1>2 DEF Open, Typed
  <2>4. QED
    BY <1>1, <2>1, <2>2, <2>3, DroppedThins, EnterKeeps
<1>3. ASSUME NEW t \in Tabs, NEW p \in Paths, Link(t, p) PROVE SessionInv'
  <2>1. /\ Enter(t, p, Cancelled(calls, t, Copies)) /\ tokenState' = tokenState
        /\ ended' = ended /\ leaving' = leaving
    BY <1>3 DEF Link, Navigate
  <2>2. left' \in [Deeds -> Nat] /\ leaving' \in [Tabs -> BOOLEAN]
    BY <1>1, <1>3 DEF Link, Does, Typed, Deeds
  <2>3. QED
    BY <1>1, <2>1, <2>2, CancelledThins, EnterKeeps
<1>4. ASSUME NEW t \in Tabs, Leave(t), left' = left PROVE SessionInv'
  <2>1. Enter(t, "/login", Dropped(t)) /\ tokenState' = tokenState /\ ended' = ended
    BY <1>4 DEF Leave
  <2>2. left' \in [Deeds -> Nat] /\ "/login" \in Paths
    BY <1>1, <1>4 DEF Typed, Paths
  <2>3. leaving' \in [Tabs -> BOOLEAN] /\ \A u \in Tabs : u # t => leaving'[u] = leaving[u]
    BY <1>1, <1>4 DEF Leave, Typed
  <2>4. QED
    BY <1>1, <2>1, <2>2, <2>3, DroppedThins, EnterKeeps
<1>5. ASSUME NEW t \in Tabs, UserStep(t) PROVE SessionInv'
  BY <1>2, <1>3, <1>5, SubmitKeeps, LogoutKeeps, RequestKeeps, CrashKeeps, RetryKeeps
     DEF UserStep
<1>6. ASSUME NEW i \in CallIds, CallStep(i) PROVE SessionInv'
  BY <1>6, AnswerKeeps, UnauthorizedKeeps, HydratedKeeps, HydrateFailsKeeps, RegisteredKeeps,
     SignedInKeeps, LandedKeeps, SubmitFailsKeeps, RequestEndsKeeps DEF CallStep
<1>7. CASE UNCHANGED vars
  BY <1>7 DEF vars, storage, document, SessionInv, Typed, LoadingAttended, CopiesMounted,
     TokensCarried, IssuedOnce, Issued, Untouched, EndedStaysEnded, RefusedTabLeaves
<1>8. QED
  BY <1>4, <1>5, <1>6, <1>7, ExpireKeeps DEF Next

\* The inductive invariant of the tabs, their copies of useAuth and the storage.
THEOREM InvHolds == Spec => []SessionInv
BY InitInv, StepKeeps, PTL DEF Spec

\* The variables stay in their types, and no copy of useAuth waits for a
\* request that is not there.
THEOREM SessionTypeCorrect == Spec => []TypeOK
<1>1. SessionInv => TypeOK
  BY DEF SessionInv, Typed, LoadingAttended, TypeOK
<1>2. QED
  BY <1>1, InvHolds, PTL

\* A token that a tab gave up does not come back, whatever answers are still
\* under way and whatever the other tabs do.
THEOREM EndedStaysEndedHolds == Spec => []EndedStaysEnded
<1>1. SessionInv => EndedStaysEnded
  BY DEF SessionInv
<1>2. QED
  BY <1>1, InvHolds, PTL

\* A tab that gave up the token it shows the app with is on its way out.
THEOREM EndedTabLeavesHolds == Spec => []EndedTabLeaves
<1>1. SessionInv => EndedTabLeaves
  BY DEF SessionInv, RefusedTabLeaves, EndedTabLeaves, Shown
<1>2. QED
  BY <1>1, InvHolds, PTL

\* A valid token leaves the storage by a sign-out, or with a request that
\* carried something else.
THEOREM SessionEndsOnlyByHolds == Spec => SessionEndsOnlyBy
<1>1. SessionInv /\ [Next]_vars =>
        [(stored \in Tokens /\ tokenState[stored] = "valid" /\ stored' = None) =>
          \/ \E t \in Tabs : Logout(t)
          \/ \E i \in CallIds : Answered(i, {"hydrate", "me", "data", "login", "register"},
                                         {"unauthorized", "thrown"})
                                /\ calls[i].token # stored]_vars
  <2> DEFINE Allowed == \/ \E t \in Tabs : Logout(t)
                        \/ \E i \in CallIds :
                              /\ Answered(i, {"hydrate", "me", "data", "login", "register"},
                                             {"unauthorized", "thrown"})
                              /\ calls[i].token # stored
  <2> SUFFICES ASSUME SessionInv, Next, stored \in Tokens, tokenState[stored] = "valid",
                      stored' = None
               PROVE  Allowed
    OBVIOUS
  <2> USE SessionAssumption
  <2>1. stored # None /\ stored' # stored
    OBVIOUS
  <2>2. ~Migrate
    BY <2>1 DEF Migrate, GetStoredToken
  <2>3. \A t \in Tabs, c \in Copies : \A cs : ~Hydrate(t, c, cs)
    BY <2>2 DEF Hydrate
  <2>4. \A t \in Tabs, p \in Paths : \A cs : ~Enter(t, p, cs)
    BY <2>2 DEF Enter, Hydrate
  <2>5. ASSUME NEW t \in Tabs, UserStep(t) PROVE Allowed
    <3>1. \A p \in Paths : ~Open(t, p) /\ ~Link(t, p)
      BY <2>4 DEF Open, Link, Navigate
    <3>2. ~Submit(t) /\ ~Crash(t)
      BY <2>1 DEF Submit, Crash, storage
    <3>3. ~Request(t) /\ ~Retry(t)
      BY <2>2 DEF Request, Retry, Hydrate
    <3>4. QED
      BY <2>5, <3>1, <3>2, <3>3 DEF UserStep
  <2>6. \A t \in Tabs : ~Leave(t)
    BY <2>4 DEF Leave, Paths
  <2>7. \A k \in Tokens : ~Expire(k)
    BY <2>1 DEF Expire, storage
  <2>8. ASSUME NEW i \in CallIds, CallStep(i) PROVE Allowed
    <3>1. ASSUME Answered(i, {"hydrate", "me", "data", "login", "register"}, {"unauthorized", "thrown"})
          PROVE  Allowed
      <4>1. calls[i].token \in Tokens => tokenState[calls[i].token] = "expired"
        BY <3>1 DEF Answered, SessionInv, TokensCarried
      <4>2. calls[i].token # stored
        BY <4>1
      <4>3. QED
        BY <3>1, <4>2
    <3>2. CASE Unauthorized(i)
      BY <3>1, <3>2 DEF Unauthorized, Answered, SignsOut
    <3>3. CASE HydrateFails(i)
      <4>1. CASE calls[i].reply = "thrown"
        BY <3>1, <3>3, <4>1 DEF HydrateFails, Answered
      <4>2. CASE calls[i].reply # "thrown"
        <5>1. calls[i].tab \in Tabs
          BY <3>3 DEF HydrateFails, Answered, SessionInv, Typed, RequestRecord
        <5>2. ~Navigate(calls[i].tab, "/login", Without(i))
          BY <2>4, <5>1 DEF Navigate, Paths
        <5>3. UNCHANGED storage
          BY <3>3, <4>2, <5>2 DEF HydrateFails
        <5>4. QED
          BY <2>1, <5>3 DEF storage
      <4>3. QED
        BY <4>1, <4>2
    <3>4. ~Answer(i) /\ ~Registered(i) /\ ~SubmitFails(i) /\ ~RequestEnds(i)
      BY <2>1 DEF Answer, Registered, SubmitFails, RequestEnds, storage
    <3>5. ~Landed(i)
      <4> SUFFICES ASSUME Landed(i) PROVE FALSE
        OBVIOUS
      <4>1. calls[i].tab \in Tabs
        BY DEF Landed, Answered, SessionInv, Typed, RequestRecord
      <4>2. ~Navigate(calls[i].tab, "/", Without(i))
        BY <2>4, <4>1 DEF Navigate, Paths
      <4>3. stored' = stored
        BY <4>2 DEF Landed, storage
      <4>4. QED
        BY <2>1, <4>3
    <3>6. ~SignedIn(i)
      <4> SUFFICES ASSUME SignedIn(i) PROVE FALSE
        OBVIOUS
      <4>1. calls[i].token \in Tokens
        BY DEF SignedIn, Answered, SessionInv, TokensCarried
      <4>2. QED
        BY <4>1 DEF SignedIn, SetStoredToken
    <3>7. ~Hydrated(i)
      <4> SUFFICES ASSUME Hydrated(i) PROVE FALSE
        OBVIOUS
      <4>1. calls[i].tab \in Tabs /\ calls[i].copy \in Copies \cup {None}
        BY DEF Hydrated, Answered, SessionInv, Typed, RequestRecord
      <4>2. ~Hydrate(calls[i].tab, "page", Without(i))
        BY <2>3, <4>1 DEF Copies
      <4>3. stored' = stored
        BY <4>1, <4>2 DEF Hydrated, Copies, storage
      <4>4. QED
        BY <2>1, <4>3
    <3>8. QED
      BY <2>8, <3>2, <3>3, <3>4, <3>5, <3>6, <3>7 DEF CallStep
  <2>9. QED
    BY <2>5, <2>6, <2>7, <2>8 DEF Next
<1>2. QED
  BY <1>1, InvHolds, PTL DEF Spec, SessionEndsOnlyBy
=============================================================================
