----------------------------- MODULE SidebarViews -----------------------------
(***************************************************************************)
(* What the sidebar (frontend/components/chat/sidebar.tsx) makes of the    *)
(* list of chats: the groups by date, the search, the shortened titles and *)
(* the controls it offers; functions of the list, checked over every small *)
(* one.  Days are numbers.                                                 *)
(***************************************************************************)
LOCAL INSTANCE Integers
LOCAL INSTANCE Sequences
LOCAL INSTANCE SequencesExt

GroupNames == <<"Today", "Yesterday", "Last 7 days", "Older">>

\* groupSessionsByDate.
GroupOf(day, today) ==
    CASE day = today -> "Today"
      [] day = today - 1 -> "Yesterday"
      [] day \notin {today, today - 1} /\ day >= today - 7 -> "Last 7 days"
      [] OTHER -> "Older"

GroupSessions(days, today) ==
    [g \in 1..4 |-> SelectSeq(days, LAMBDA d : GroupOf(d, today) = GroupNames[g])]

\* The list of useChats, by the days of its chats: newest first.
Lists(days) ==
    {l \in BoundedSeq(days, 3) : \A i, j \in DOMAIN l : i < j => l[i] >= l[j]}

\* No chat is lost or listed twice by the grouping, and the groups keep the
\* order of the list, unless a chat carries a date of tomorrow, which the
\* clock of the server may give it.
ASSUME GroupsKeepOrder ==
    \A l \in Lists(0..11) :
        LET groups == FlattenSeq(GroupSessions(l, 10))
        IN  /\ Len(groups) = Len(l)
            /\ (\A i \in DOMAIN l : l[i] <= 10) => groups = l

-----------------------------------------------------------------------------
(* Titles.  A title is a sequence of letters and blanks. *)

Titles == BoundedSeq({"x", "_"}, 6)

\* The characters that stay: replace(/\s+/g, " ").trim().
Kept(title) ==
    {i \in DOMAIN title :
        \/ title[i] # "_"
        \/ /\ i > 1 /\ title[i - 1] # "_"
           /\ \E j \in i + 1 .. Len(title) : title[j] # "_"}

Normalized(title) ==
    LET at == SetToSortSeq(Kept(title), <)
    IN  [i \in DOMAIN at |-> title[at[i]]]

TrimEnd(title) ==
    IF title # <<>> /\ title[Len(title)] = "_" THEN SubSeq(title, 1, Len(title) - 1) ELSE title

Dots == <<".", ".", ".">>

\* truncateChatTitle.
TruncateChatTitle(title, maxLength) ==
    LET normalized == Normalized(title)
    IN  IF Len(normalized) <= maxLength THEN normalized
        ELSE TrimEnd(SubSeq(normalized, 1, maxLength - 3)) \o Dots

\* A shortened title fits, begins as the chat's title does, and never ends in
\* a blank before its dots.
ASSUME TitlesFit ==
    \A title \in Titles, maxLength \in 4..6 :
        LET short == TruncateChatTitle(title, maxLength)
            n == Len(short) - 3
        IN  /\ Len(short) <= maxLength
            /\ \/ short = Normalized(title)
               \/ /\ SubSeq(short, n + 1, n + 3) = Dots
                  /\ SubSeq(short, 1, n) = SubSeq(Normalized(title), 1, n)
                  /\ n > 0 => short[n] # "_"

\* The title the search looks at, and the one the list shows: the API may
\* send none, or an empty one.
SearchedTitle(title) == IF title = "none" THEN "Untitled chat" ELSE title
FullTitle(title) == IF title \in {"none", "empty", "blank"} THEN "Untitled chat" ELSE title

\* filtered, for a search for nothing or for a whole title.
Filtered(titles, query) == SelectSeq(titles, LAMBDA t : query \in {"", SearchedTitle(t)})

\* A chat is found by what the list calls it, unless its title is empty, and a
\* search for nothing finds every chat.
ASSUME SearchFindsTitle ==
    \A titles \in BoundedSeq({"none", "empty", "blank", "text"}, 2) :
        /\ Filtered(titles, "") = titles
        /\ \A i \in DOMAIN titles :
              \/ titles[i] \in ToSet(Filtered(titles, FullTitle(titles[i])))
              \/ titles[i] \in {"empty", "blank"}

-----------------------------------------------------------------------------
(* Controls. *)

\* What can be used above the list, below it, and of a chat in it.
TopControls(collapsed) == {"new chat"} \cup (IF collapsed THEN {} ELSE {"search"})
BottomControls == {"sign out", "toggle"}
ChatControls(collapsed) == {"select"} \cup (IF collapsed THEN {} ELSE {"rename", "delete"})

\* What stands where the list is.
ListShows(isLoading, collapsed, filtered, searching) ==
    CASE isLoading -> "skeleton"
      [] ~isLoading /\ filtered -> "chats"
      [] OTHER -> IF collapsed THEN "nothing" ELSE IF searching THEN "No chats found" ELSE "No chats yet"

\* Whoever can search is told when nothing is found; behind a collapsed
\* sidebar the search goes on hiding chats, and neither is to be seen.
ASSUME SearchExplained ==
    \A collapsed \in BOOLEAN :
        "search" \in TopControls(collapsed)
            <=> ListShows(FALSE, collapsed, FALSE, TRUE) = "No chats found"
=============================================================================
