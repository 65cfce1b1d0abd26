------------------------------ MODULE ToastStore ------------------------------
(***************************************************************************)
(* The toast store of the UI kit (frontend/hooks/use-toast.ts) and the     *)
(* Toaster that shows it.  No page mounts that Toaster: the app's own      *)
(* toasts are sonner's (ApiErrors).  Every short sequence of calls is      *)
(* explored by Reached.                                                    *)
(***************************************************************************)
LOCAL INSTANCE Naturals
LOCAL INSTANCE Sequences
LOCAL INSTANCE SequencesExt

TOAST_LIMIT == 1

MaxId == 1000     \* bound: stands for Number.MAX_SAFE_INTEGER
MaxCalls == 5     \* bound: length of the sequences explored

\* The components that call useToast.
Toasters == {"early", "late"}

\* toasts: memoryState, newest first; timers: toastTimeouts; shown: the state a
\* component renders, once it is rendered; listening: those whose effect has
\* run; ghosts: those a dispatch passed by between the two, and the toasts that
\* were updated.
Store == [toasts |-> <<>>, timers |-> {}, count |-> 0, shown |-> [c \in Toasters |-> <<>>],
          rendered |-> {}, listening |-> {}, missed |-> {}, updated |-> {}]

-----------------------------------------------------------------------------
(* The reducer. *)

\* genId.
NextId(s) == (s.count + 1) % MaxId

AddToast(s, toast) ==
    LET toasts == <<toast>> \o s.toasts
    IN  [s EXCEPT !.toasts = SubSeq(toasts, 1, IF Len(toasts) < TOAST_LIMIT THEN Len(toasts)
                                               ELSE TOAST_LIMIT)]

\* The toasts with these ids are given this value of open.
WithOpen(toasts, ids, open) ==
    [i \in DOMAIN toasts |-> IF toasts[i].id \in ids THEN [toasts[i] EXCEPT !.open = open]
                             ELSE toasts[i]]

UpdateToast(s, id, open) ==
    [s EXCEPT !.toasts = WithOpen(@, {id}, open), !.updated = @ \cup {id}]

\* addToRemoveQueue: a toast that has a timer keeps it.
AddToRemoveQueue(s, ids) == [s EXCEPT !.timers = @ \cup ids]

\* Of one toast, listed or not, or of all.
DismissToast(s, ids) ==
    [AddToRemoveQueue(s, ids) EXCEPT !.toasts = WithOpen(@, ids, FALSE)]

RemoveToast(s, id) == [s EXCEPT !.toasts = SelectSeq(@, LAMBDA toast : toast.id # id)]

\* Every listener is given the new state.
Dispatch(s) ==
    [s EXCEPT !.shown = [c \in Toasters |-> IF c \in s.listening THEN s.toasts ELSE @[c]],
              !.missed = s.rendered \ s.listening]

-----------------------------------------------------------------------------
(* The calls. *)

Ids(s) == {s.toasts[i].id : i \in DOMAIN s.toasts}

\* toast, and the update and dismiss it returns, which may come late.
Toast(s) == Dispatch(AddToast([s EXCEPT !.count = NextId(s)], [id |-> NextId(s), open |-> TRUE]))
Updated(s) == {Dispatch(UpdateToast(s, id, open)) : id \in 1..s.count, open \in BOOLEAN}
Dismissed(s) == {Dispatch(DismissToast(s, ids)) : ids \in {Ids(s)} \cup {{id} : id \in 1..s.count}}

\* A timer fires.
TimedOut(s) == {Dispatch(RemoveToast([s EXCEPT !.timers = @ \ {id}], id)) : id \in s.timers}

\* useToast: the first render reads the store, the effect subscribes after it.
\* (The effect runs again whenever the state changes, to the same end.)
Rendered(s) ==
    {[s EXCEPT !.rendered = @ \cup {c}, !.shown[c] = s.toasts] : c \in Toasters \ s.rendered}
Subscribed(s) == {[s EXCEPT !.listening = @ \cup {c}] : c \in s.rendered}
Unsubscribed(s) ==
    {[s EXCEPT !.rendered = @ \ {c}, !.listening = @ \ {c}, !.missed = @ \ {c}] : c \in s.listening}

Calls(s) ==
    {Toast(s)} \cup Updated(s) \cup Dismissed(s) \cup TimedOut(s)
        \cup Rendered(s) \cup Subscribed(s) \cup Unsubscribed(s)

\* The stores that n calls may lead to.
Reached[n \in 0..MaxCalls] == IF n = 0 THEN {Store} ELSE UNION {Calls(s) : s \in Reached[n - 1]}

\* Toaster: one card for each toast it is given, the open ones visible.
Toaster(s, c) == {t \in ToSet(s.shown[c]) : t.open}

-----------------------------------------------------------------------------
(* What the calls lead to. *)

\* A toast that was dismissed is on its way out: a timer will remove it from
\* the store.  One that an update closed has none and stays.
ASSUME DismissedGoes ==
    \A s \in Reached[MaxCalls] : \A i \in DOMAIN s.toasts :
        ~s.toasts[i].open => s.toasts[i].id \in s.timers \cup s.updated

\* A timer takes away no toast the user still looks at: the toast that took the
\* place of a dismissed one has an id of its own.  Only an update that opens a
\* dismissed toast again is undone by the old timer.
ASSUME LateTimerHarmless ==
    \A s \in Reached[MaxCalls] : \A id \in s.timers \ s.updated : \A i \in DOMAIN s.toasts :
        s.toasts[i].open => s.toasts[i] \in ToSet(RemoveToast(s, id).toasts)

\* A Toaster shows the open toasts of the store, though one that comes between
\* its first render and its subscription is missed until the next call.
ASSUME ToasterShowsStore ==
    \A s \in Reached[MaxCalls] : \A c \in s.listening \ s.missed :
        Toaster(s, c) = {t \in ToSet(s.toasts) : t.open}
=============================================================================
