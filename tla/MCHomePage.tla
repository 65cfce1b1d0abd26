----------------------------- MODULE MCHomePage -----------------------------
(* HomePage for TLC. *)
EXTENDS HomePage, SidebarViews, TLC

\* The answer to the first send has two words, the answer to the second one.
MCWords == 1 :> 2 @@ 2 :> 1

Plan(sends, uploads, edits, pages, lost) ==
    [sends |-> sends, uploads |-> uploads, edits |-> edits, loads |-> pages, lost |-> lost]

\* What is combined in one behaviour: two sends that race, or one amid edits
\* of the list, sources being added, histories out of order, or lost calls.
MCPlans ==
    {Plan({1, 2}, {}, 0, 1, {}),
     Plan({1, 2}, Uploads, 0, 0, {}),
     Plan({1}, Uploads, 1, 1, {}),
     Plan({1}, {}, 1, 1, {"list", "send", "history", "create"}),
     Plan({1}, Uploads, 0, 1, {"link", "upload", "create"}),
     Plan({1}, {}, 0, 2, {})}

=============================================================================
