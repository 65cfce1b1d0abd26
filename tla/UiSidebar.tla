------------------------------- MODULE UiSidebar -------------------------------
(***************************************************************************)
(* The collapsible sidebar of the UI kit (frontend/components/ui/sidebar   *)
(* with hooks/use-mobile): no page mounts it, the app's own is in HomePage *)
(* and SidebarViews.  Every short sequence of what a user does with it is  *)
(* explored by Lived.                                                      *)
(***************************************************************************)
LOCAL INSTANCE Naturals

MaxMoves == 5     \* bound: length of the sequences explored

\* How a page may use it: whether it passes open, and onOpenChange.
Uses == [open : BOOLEAN, onOpenChange : BOOLEAN]

\* wide: the window; isMobile: what useIsMobile has found, if its effect ran;
\* own: the provider's own state, passed: the page's; cookie: sidebar_state.
Fresh(use, wide) ==
    [use |-> use, wide |-> wide, isMobile |-> "undefined", own |-> TRUE, passed |-> TRUE,
     openMobile |-> FALSE, cookie |-> <<>>]

IsMobile(s) == s.isMobile = "yes"

\* The effect of useIsMobile, and its listener when the width crosses 768.
Measured(s, wide) == [s EXCEPT !.wide = wide, !.isMobile = IF wide THEN "no" ELSE "yes"]

-----------------------------------------------------------------------------
(* The provider. *)

IsOpen(s) == IF s.use.open THEN s.passed ELSE s.own

\* setOpen: a page that passes onOpenChange is told and nothing else is set; it
\* is taken to remember what it is told.
SetOpen(s, open) ==
    [s EXCEPT !.passed = IF s.use.onOpenChange THEN open ELSE @,
              !.own = IF s.use.onOpenChange THEN @ ELSE open,
              !.cookie = <<open>>]

\* toggleSidebar called n times in one handler: each call on a wide window
\* negates the value that was rendered, on a narrow one the last value.
Toggled(s, n) ==
    IF IsMobile(s) THEN [s EXCEPT !.openMobile = IF n % 2 = 0 THEN @ ELSE ~@]
    ELSE IF n = 0 THEN s ELSE SetOpen(s, ~IsOpen(s))

\* The trigger calls a handler of the page's first, which may toggle as well;
\* the rail and the shortcut just toggle, the latter on Ctrl or Meta with B.
TriggerClick(s, onClick) == Toggled(s, onClick + 1)
RailClick(s) == Toggled(s, 1)
KeyDown(s, modified) == IF modified THEN Toggled(s, 1) ELSE s

\* The sheet reports that it was closed by a click beside it.
SheetClosed(s) == [s EXCEPT !.openMobile = FALSE]

Moves(s) ==
    {TriggerClick(s, n) : n \in {0, 1}} \cup {RailClick(s), KeyDown(s, TRUE), KeyDown(s, FALSE)}
        \cup {Measured(s, wide) : wide \in BOOLEAN} \cup {SheetClosed(s)}

\* The states n moves may lead to.
Lived[n \in 0..MaxMoves] ==
    IF n = 0 THEN {Fresh(use, wide) : use \in Uses, wide \in BOOLEAN}
    ELSE UNION {Moves(s) : s \in Lived[n - 1]}

-----------------------------------------------------------------------------
(* What is to be seen. *)

Collapsibles == {"offcanvas", "icon", "none"}

\* Sidebar: the wide form is hidden by the style sheet on a narrow window.
View(s, collapsible) ==
    CASE collapsible = "none" -> "full"
      [] collapsible # "none" /\ IsMobile(s) -> IF s.openMobile THEN "sheet" ELSE "hidden"
      [] OTHER -> IF ~s.wide THEN "hidden"
                  ELSE IF IsOpen(s) THEN "full"
                  ELSE IF collapsible = "icon" THEN "icons" ELSE "hidden"

\* SidebarMenuButton: whether hovering it shows its tooltip.
TooltipShown(s) == ~IsOpen(s) /\ ~IsMobile(s)

\* Pages that pass both of the properties, or neither.
Coherent(s) == s.use.open = s.use.onOpenChange

\* A click, the rail and the shortcut change what is to be seen, if the window
\* has been measured and the page uses the sidebar coherently: the one that
\* passes only one of the two properties has a sidebar that never moves.
ASSUME ToggleShows ==
    \A s \in Lived[MaxMoves], collapsible \in Collapsibles \ {"none"} :
        s.isMobile # "undefined" =>
            (View(RailClick(s), collapsible) # View(s, collapsible) <=> Coherent(s) \/ IsMobile(s))

\* A page that toggles in its own handler of the trigger's click toggles once
\* on a wide window and to no effect on a narrow one.
ASSUME DoubleToggle ==
    \A s \in Lived[MaxMoves] : TriggerClick(s, 1) = IF IsMobile(s) THEN s ELSE TriggerClick(s, 0)

\* The cookie holds the state the sidebar is in, however often the window was
\* resized meanwhile: what is done on a narrow window does not touch it.
ASSUME CookieTellsState ==
    \A s \in Lived[MaxMoves] : Coherent(s) => s.cookie \in {<<>>, <<IsOpen(s)>>}

\* A tooltip stands in for a label that is hidden; beside one that is shown it
\* appears only in a sidebar that cannot collapse but was toggled.
ASSUME TooltipStandsIn ==
    \A s \in Lived[MaxMoves], collapsible \in Collapsibles :
        TooltipShown(s) /\ View(s, collapsible) \in {"full", "sheet"} => collapsible = "none"
=============================================================================
