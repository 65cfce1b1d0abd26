-------------------------------- MODULE Session --------------------------------
(***************************************************************************)
(* The session of the frontend: the token in localStorage and the requests *)
(* that carry and clear it (frontend/lib/api/client.ts, auth.ts), the      *)
(* copies of useAuth, the layout that guards the app, and the sign-in and  *)
(* registration pages.  Tabs share the storage.  A copy of useAuth is the  *)
(* layout's, the page's (useChats has a third one of the same kind), or    *)
(* the form's on /login and /register.  Leaving a page inside the app      *)
(* cancels what its copies do with late answers and leaves the requests in *)
(* flight; a full load drops them.                                         *)
(***************************************************************************)
EXTENDS Naturals

CONSTANTS
    Tabs,
    Tokens,    \* every access token there is
    Old,       \* the tokens of earlier visits
    Owner,     \* the user a token was issued to
    CallIds,   \* bound: requests in flight at once
    Plans,     \* bound: how often the user does what in one behaviour
    None

Copies == {"layout", "page", "form"}
Paths == {"/", "/login", "/register"}

\* What a copy of useAuth knows.
Copy == [token : Tokens \cup {None}, user : {Owner[k] : k \in Tokens} \cup {None}, loading : BOOLEAN]

\* A request: where it comes from, what it carries, and what became of it.
RequestRecord == [tab : Tabs, kind : {"hydrate", "me", "data", "login", "register"},
             page : Paths \cup {None}, copy : Copies \cup {None}, token : Tokens \cup {None},
             reply : {None, "ok", "error", "conflict", "unauthorized", "thrown"}]

Deeds == {"open", "link", "submit", "request", "logout", "crash"}

ASSUME SessionAssumption ==
    /\ Old \subseteq Tokens
    /\ None \notin Tokens \cup Paths \cup Copies \cup RequestRecord \cup Copy
    /\ None \notin {"ok", "error", "conflict", "unauthorized", "thrown"}
    /\ DOMAIN Owner = Tokens
    /\ Plans \subseteq [Deeds -> Nat]

VARIABLES
    stored,     \* localStorage rag_token
    legacy,     \* localStorage rag_researcher_token
    tokenState, \* the server: tokens not issued yet, valid and expired
    path,       \* location.pathname of each tab; None before it is opened
    leaving,    \* location.assign("/login") under way
    auth,       \* the copies of useAuth: token, user and isLoading; None when unmounted
    crashed,    \* hasError of the error boundary
    form,       \* the form: idle, submitting, or the error it shows
    calls,      \* requests in flight
    left,       \* how often the user may still do what
    ended       \* ghost: the tokens each tab removed on a 401 or a sign-out

storage == <<stored, legacy>>
document == <<path, auth, crashed, form>>
vars == <<storage, tokenState, document, leaving, calls, left, ended>>

Init ==
    /\ stored \in Old \cup {None} /\ legacy \in Old \cup {None}
    /\ tokenState \in {s \in [Tokens -> {"none", "valid", "expired"}] :
                         \A k \in Tokens : s[k] = "none" <=> k \notin Old}
    /\ path = [t \in Tabs |-> None]
    /\ leaving = [t \in Tabs |-> FALSE]
    /\ auth = [t \in Tabs |-> [c \in Copies |-> None]]
    /\ crashed = [t \in Tabs |-> FALSE]
    /\ form = [t \in Tabs |-> "idle"]
    /\ calls = [i \in CallIds |-> None]
    /\ left \in Plans
    /\ ended = [t \in Tabs |-> {}]

-----------------------------------------------------------------------------
(* The storage. *)

\* getStoredToken: the legacy key counts when the current one is empty.
GetStoredToken == IF stored # None THEN stored ELSE legacy

\* ... and moves to the current key when it is read.
Migrate ==
    /\ stored' = GetStoredToken
    /\ legacy' = IF stored # None THEN legacy ELSE None

\* Variant: the legacy key survives.
ClearCurrentKey(t) ==
    /\ stored' = None /\ UNCHANGED legacy
    /\ ended' = [ended EXCEPT ![t] = @ \cup ({stored, legacy} \ {None})]

SetStoredToken(k) == stored' = k /\ UNCHANGED legacy

ClearStoredToken(t) ==
    /\ stored' = None /\ legacy' = None
    /\ ended' = [ended EXCEPT ![t] = @ \cup ({stored, legacy} \ {None})]

\* hydrateAuth clears the storage once more when getMe has thrown a 401, after
\* the awaits in between and wherever the tab is by then.
ClearAgain == stored' = None /\ legacy' = None /\ UNCHANGED ended

\* Variant: the tab stays where it is.
StayOnPage(t) == UNCHANGED leaving

RedirectToLogin(t) == leaving' = [leaving EXCEPT ![t] = @ \/ path[t] # "/login"]

-----------------------------------------------------------------------------
(* Requests. *)

Call(t, kind, page, copy, token) ==
    [tab |-> t, kind |-> kind, page |-> page, copy |-> copy, token |-> token, reply |-> None]

Room(cs) == \E i \in CallIds : cs[i] = None

With(cs, call) == [cs EXCEPT ![CHOOSE i \in CallIds : cs[i] = None] = call]

Without(i) == [calls EXCEPT ![i] = None]

\* The copies of a tab unmount: isCancelled, and no state is set any more.
Cancelled(cs, t, copies) ==
    [i \in CallIds |->
        IF cs[i] # None /\ cs[i].tab = t /\ cs[i].copy \in copies
        THEN [cs[i] EXCEPT !.copy = None] ELSE cs[i]]

\* The document is gone.
Dropped(t) == [i \in CallIds |-> IF calls[i] # None /\ calls[i].tab = t THEN None ELSE calls[i]]

-----------------------------------------------------------------------------
(* Mounting. *)

Unmounted == [c \in Copies |-> None]

\* Variant: isLoading stays set when there is no token to ask about.
LoadingAlways(token) == [token |-> token, user |-> None, loading |-> TRUE]

\* useAuth as its effect leaves it when it mounts with a token or without.
Hydrating(token) == [token |-> token, user |-> None, loading |-> token # None]

\* hydrateAuth asks who the token belongs to, if there is one.
Hydrate(t, copy, cs) ==
    /\ Migrate
    /\ IF GetStoredToken = None THEN calls' = cs
       ELSE /\ Room(cs)
            /\ calls' = With(cs, Call(t, "hydrate", None, copy, GetStoredToken))

\* The document of a tab that comes to path p with this token in the storage:
\* the layout sends a tab without one on to /login.
Place(t, p, token) ==
    LET q == IF p = "/" /\ token = None THEN "/login" ELSE p
        copy == IF q = "/" THEN "layout" ELSE "form"
    IN  /\ path' = [path EXCEPT ![t] = q]
        /\ auth' = [auth EXCEPT ![t] = [Unmounted EXCEPT ![copy] = Hydrating(token)]]
        /\ crashed' = [crashed EXCEPT ![t] = FALSE]
        /\ form' = [form EXCEPT ![t] = "idle"]

Enter(t, p, cs) ==
    /\ Place(t, p, GetStoredToken)
    /\ Hydrate(t, IF p = "/" THEN "layout" ELSE "form", cs)

\* router.replace and Link.
Navigate(t, p, cs) == Enter(t, p, Cancelled(cs, t, Copies))

\* The layout shows the app to a user it knows, and "Validating session..." before.
Validating(t) == path[t] = "/" /\ auth[t]["layout"].loading
Shown(t) == path[t] = "/" /\ auth[t]["layout"].user # None

-----------------------------------------------------------------------------
(* The user. *)

Does(deed) == left[deed] > 0 /\ left' = [left EXCEPT ![deed] = @ - 1]

\* A full load of a page; nobody opens another while one is being validated.
Open(t, p) ==
    /\ Does("open")
    /\ ~Validating(t)
    /\ Enter(t, p, Dropped(t))
    /\ leaving' = [leaving EXCEPT ![t] = FALSE]
    /\ UNCHANGED <<tokenState, ended>>

\* The pages outside the app: a link to the other one, and a form whose button
\* is disabled while a submission is under way.
SignInForm(t) == [shown |-> path[t] = "/login", link |-> "/register",
                  disabled |-> form[t] = "submitting"]
RegisterForm(t) == [shown |-> path[t] = "/register", link |-> "/login",
                    disabled |-> form[t] = "submitting"]

Link(t, p) ==
    /\ Does("link")
    /\ \E f \in {SignInForm(t), RegisterForm(t)} : f.shown /\ f.link = p
    /\ Navigate(t, p, calls)
    /\ UNCHANGED <<tokenState, leaving, ended>>

\* login and register: the requests that carry no token.
SignRequest(t, kind) == calls' = With(calls, Call(t, kind, path[t], "form", None))

\* handleSubmit of either page, up to its first await.
SignIn(t) == SignInForm(t).shown /\ ~SignInForm(t).disabled /\ SignRequest(t, "login")

SignUp(t) == RegisterForm(t).shown /\ ~RegisterForm(t).disabled /\ SignRequest(t, "register")

Submit(t) ==
    /\ Does("submit")
    /\ Room(calls)
    /\ SignIn(t) \/ SignUp(t)
    /\ form' = [form EXCEPT ![t] = "submitting"]
    /\ UNCHANGED <<storage, tokenState, path, auth, crashed, leaving, ended>>

\* logout, on the page's own copy.
Logout(t) ==
    /\ Does("logout")
    /\ Shown(t) /\ ~crashed[t]
    /\ ClearStoredToken(t)
    /\ auth' = [auth EXCEPT ![t]["page"] = Hydrating(None)]
    /\ RedirectToLogin(t)
    /\ UNCHANGED <<tokenState, path, crashed, form, calls>>

\* Any request of the app.
Request(t) ==
    /\ Does("request")
    /\ Shown(t) /\ ~crashed[t]
    /\ Room(calls)
    /\ Migrate
    /\ calls' = With(calls, Call(t, "data", None, None, GetStoredToken))
    /\ UNCHANGED <<tokenState, document, leaving, ended>>

\* The app throws while it renders, and the user tries again.
Crash(t) ==
    /\ Does("crash")
    /\ Shown(t) /\ ~crashed[t]
    /\ crashed' = [crashed EXCEPT ![t] = TRUE]
    /\ auth' = [auth EXCEPT ![t]["page"] = None]
    /\ calls' = Cancelled(calls, t, {"page"})
    /\ UNCHANGED <<storage, tokenState, path, form, leaving, ended>>

Retry(t) ==
    /\ crashed[t]
    /\ crashed' = [crashed EXCEPT ![t] = FALSE]
    /\ auth' = [auth EXCEPT ![t]["page"] = Hydrating(GetStoredToken)]
    /\ Hydrate(t, "page", calls)
    /\ UNCHANGED <<tokenState, path, form, leaving, ended>>

-----------------------------------------------------------------------------
(* The server. *)

Expire(k) ==
    /\ tokenState[k] = "valid"
    /\ tokenState' = [tokenState EXCEPT ![k] = "expired"]
    /\ UNCHANGED <<storage, document, leaving, calls, ended>>

Reply(i, r) == calls' = [calls EXCEPT ![i].reply = r]

\* A request with a token succeeds as long as the token is valid, any request
\* may fail, and a sign-in issues a token or is refused.
Answer(i) ==
    /\ calls[i] # None /\ calls[i].reply = None
    /\ \/ Reply(i, "error") /\ UNCHANGED tokenState
       \/ /\ calls[i].kind \in {"hydrate", "me", "data"}
          /\ Reply(i, IF calls[i].token # None /\ tokenState[calls[i].token] = "valid"
                      THEN "ok" ELSE "unauthorized")
          /\ UNCHANGED tokenState
       \/ calls[i].kind = "register" /\ Reply(i, "ok") /\ UNCHANGED tokenState
       \/ calls[i].kind = "register" /\ Reply(i, "conflict") /\ UNCHANGED tokenState
       \/ calls[i].kind = "login" /\ Reply(i, "unauthorized") /\ UNCHANGED tokenState
       \/ /\ calls[i].kind = "login"
          /\ \E k \in Tokens :
                /\ tokenState[k] = "none"
                /\ tokenState' = [tokenState EXCEPT ![k] = "valid"]
                /\ calls' = [calls EXCEPT ![i].reply = "ok", ![i].token = k]
    /\ UNCHANGED <<storage, document, leaving, ended>>

-----------------------------------------------------------------------------
(* Answers. *)

Answered(i, kinds, replies) ==
    calls[i] # None /\ calls[i].kind \in kinds /\ calls[i].reply \in replies

\* Variant: any failed answer counts as an invalid token.
SignsOutOnError == {"unauthorized", "error", "conflict"}

SignsOut == {"unauthorized"}

\* apiRequest clears the token that is stored, whichever the request carried,
\* then awaits the error's text and the toast before it throws.
Unauthorized(i) ==
    /\ Answered(i, {"hydrate", "me", "data", "login", "register"}, SignsOut)
    /\ ClearStoredToken(calls[i].tab)
    /\ RedirectToLogin(calls[i].tab)
    /\ Reply(i, "thrown")
    /\ UNCHANGED <<tokenState, document>>

\* hydrateAuth with the answer to getMe; the layout's user mounts the page.
Hydrated(i) ==
    LET t == calls[i].tab
        copy == calls[i].copy
        known == [auth[t] EXCEPT ![copy].user = Owner[calls[i].token], ![copy].loading = FALSE]
    IN  /\ Answered(i, {"hydrate"}, {"ok"})
        /\ CASE copy = "layout" ->
                  /\ auth' = [auth EXCEPT ![t] = [known EXCEPT !["page"] = Hydrating(GetStoredToken)]]
                  /\ Hydrate(t, "page", Without(i))
             [] copy \in {"page", "form"} ->
                  /\ auth' = [auth EXCEPT ![t] = known]
                  /\ calls' = Without(i) /\ UNCHANGED storage
             [] OTHER -> calls' = Without(i) /\ UNCHANGED <<auth, storage>>
        /\ UNCHANGED <<tokenState, path, crashed, form, leaving, ended>>

\* Variant: the loading state outlives a failed getMe.
KeepsLoading(copy, token) == [token |-> token, user |-> None, loading |-> TRUE]

\* useAuth after a failed getMe.
Unknown(copy, token) == [token |-> token, user |-> None, loading |-> FALSE]

\* hydrateAuth when getMe failed: after a 401 it clears the storage once more.
\* A layout that is left without a user sends the tab to /login.
HydrateFails(i) ==
    LET t == calls[i].tab
        copy == calls[i].copy
        refused == calls[i].reply = "thrown"
        unknown == Unknown(copy, IF refused THEN None ELSE calls[i].token)
    IN  /\ Answered(i, {"hydrate"}, {"error", "thrown"})
        /\ IF copy = "layout" /\ ~unknown.loading
           THEN IF refused
                THEN /\ ClearAgain
                     /\ Place(t, "/login", None)
                     /\ calls' = Cancelled(Without(i), t, Copies)
                ELSE Navigate(t, "/login", Without(i)) /\ UNCHANGED ended
           ELSE /\ auth' = IF copy = None THEN auth ELSE [auth EXCEPT ![t][copy] = unknown]
                /\ IF refused THEN ClearAgain ELSE UNCHANGED <<storage, ended>>
                /\ calls' = Without(i)
                /\ UNCHANGED <<path, crashed, form>>
        /\ UNCHANGED <<tokenState, leaving>>

\* register, then login with the same credentials.
Registered(i) ==
    /\ Answered(i, {"register"}, {"ok"})
    /\ calls' = [calls EXCEPT ![i].kind = "login", ![i].reply = None]
    /\ UNCHANGED <<storage, tokenState, document, leaving, ended>>

\* login: the token is stored, by loginApi and by the hook in one go, then getMe
\* asks for its user.
SignedIn(i) ==
    /\ Answered(i, {"login"}, {"ok"})
    /\ SetStoredToken(calls[i].token)
    /\ auth' = IF calls[i].copy = None THEN auth
               ELSE [auth EXCEPT ![calls[i].tab]["form"].token = calls[i].token]
    /\ calls' = [calls EXCEPT ![i].kind = "me", ![i].reply = None]
    /\ UNCHANGED <<tokenState, path, crashed, form, leaving, ended>>

\* handleSubmit once login is over: router.replace, wherever the tab is now.
Landed(i) ==
    LET t == calls[i].tab
    IN  /\ Answered(i, {"me"}, {"ok"})
        /\ IF path[t] = "/" THEN calls' = Without(i) /\ UNCHANGED <<document, storage>>
           ELSE Navigate(t, "/", Without(i))
        /\ UNCHANGED <<tokenState, leaving, ended>>

\* Variant: isSubmitting is reset only after a refused sign-in.
NoticeOnlyRefusal(call) ==
    IF call.page = "/login" /\ call.reply = "thrown" THEN "incorrect" ELSE "submitting"

\* What the form says of a failure.
Notice(call) ==
    CASE call.page = "/login" /\ call.reply = "thrown" -> "incorrect"
      [] call.page = "/register" /\ call.reply = "conflict" -> "taken"
      [] OTHER -> "failed"

SubmitFails(i) ==
    /\ Answered(i, {"register", "login", "me"}, {"error", "conflict", "thrown"})
    /\ form' = IF calls[i].copy = None THEN form
               ELSE [form EXCEPT ![calls[i].tab] = Notice(calls[i])]
    /\ calls' = Without(i)
    /\ UNCHANGED <<storage, tokenState, path, auth, crashed, leaving, ended>>

RequestEnds(i) ==
    /\ Answered(i, {"data"}, {"ok", "error", "thrown"})
    /\ calls' = Without(i)
    /\ UNCHANGED <<storage, tokenState, document, leaving, ended>>

\* The full load that location.assign began.
Leave(t) ==
    /\ leaving[t]
    /\ Enter(t, "/login", Dropped(t))
    /\ leaving' = [leaving EXCEPT ![t] = FALSE]
    /\ UNCHANGED <<tokenState, ended>>

-----------------------------------------------------------------------------

CallStep(i) ==
    /\ \/ Answer(i) \/ Unauthorized(i)
       \/ Hydrated(i) \/ HydrateFails(i)
       \/ Registered(i) \/ SignedIn(i) \/ Landed(i) \/ SubmitFails(i)
       \/ RequestEnds(i)
    /\ UNCHANGED left

UserStep(t) ==
    \/ \E p \in Paths : Open(t, p) \/ Link(t, p)
    \/ Submit(t) \/ Logout(t) \/ Request(t) \/ Crash(t)
    \/ Retry(t) /\ UNCHANGED left

Next ==
    \/ \E t \in Tabs : UserStep(t) \/ (Leave(t) /\ UNCHANGED left)
    \/ \E i \in CallIds : CallStep(i)
    \/ \E k \in Tokens : Expire(k) /\ UNCHANGED left

Spec == Init /\ [][Next]_vars

\* Every request is answered or fails in the end, and a load that began comes
\* through.  The user and the server's clock owe nothing.
Fairness ==
    /\ \A i \in CallIds : WF_vars(CallStep(i))
    /\ \A t \in Tabs : WF_vars(Leave(t) /\ UNCHANGED left)

FairSpec == Spec /\ Fairness

-----------------------------------------------------------------------------
(* Properties. *)

\* The variables stay in their types, and a copy of useAuth is loading only
\* while its own request for the user is under way.
TypeOK ==
    /\ stored \in Tokens \cup {None} /\ legacy \in Tokens \cup {None}
    /\ tokenState \in [Tokens -> {"none", "valid", "expired"}]
    /\ path \in [Tabs -> Paths \cup {None}]
    /\ leaving \in [Tabs -> BOOLEAN] /\ crashed \in [Tabs -> BOOLEAN]
    /\ auth \in [Tabs -> [Copies -> Copy \cup {None}]]
    /\ form \in [Tabs -> {"idle", "submitting", "incorrect", "failed", "taken"}]
    /\ calls \in [CallIds -> RequestRecord \cup {None}]
    /\ left \in [Deeds -> Nat]
    /\ ended \in [Tabs -> SUBSET Tokens]
    /\ \A t \in Tabs, c \in Copies :
          auth[t][c] # None /\ auth[t][c].loading =>
              \E i \in CallIds : calls[i] # None /\ calls[i].tab = t /\ calls[i].copy = c
                                /\ calls[i].kind = "hydrate"

\* A valid token leaves the storage only when a user signs out, or when a
\* request that carried something else, an older token or wrong credentials,
\* was refused: the token's own requests never end its session.
SessionEndsOnlyBy ==
    [][(stored \in Tokens /\ tokenState[stored] = "valid" /\ stored' = None) =>
          \/ \E t \in Tabs : Logout(t)
          \/ \E i \in CallIds : Answered(i, {"hydrate", "me", "data", "login", "register"},
                                         {"unauthorized", "thrown"})
                                /\ calls[i].token # stored]_vars

\* A token that was removed from the storage does not come back from the
\* legacy key or from an answer that was still under way.
EndedStaysEnded ==
    \A t \in Tabs : stored \notin ended[t] /\ legacy \notin ended[t]

\* A tab that removed the token it shows the app with is on its way to
\* /login, though its other copies of useAuth still believe in the session.
\* (The second removal of hydrateAuth, ClearAgain, gives no such promise: it
\* can take away the token of a sign-in that has just landed.)
EndedTabLeaves ==
    \A t \in Tabs : Shown(t) /\ auth[t]["layout"].token \in ended[t] => leaving[t]

\* "Validating session..." does not stay: the app or the sign-in page follows.
ValidationEnds == \A t \in Tabs : Validating(t) ~> ~Validating(t)

\* A form that is being submitted becomes usable again or is left.
SubmitEnds == \A t \in Tabs : form[t] = "submitting" ~> form[t] # "submitting"
=============================================================================
