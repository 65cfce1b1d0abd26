------------------------------ MODULE MCSources ------------------------------
(* Sources for TLC. *)
EXTENDS Sources, TLC

CONSTANTS f, v, w

\* Uploads 1 and 2 are the same file, uploads 3 and 4 are two videos.
MCKind == 1 :> "pdf" @@ 2 :> "pdf" @@ 3 :> "video" @@ 4 :> "video"
MCFile == 1 :> f @@ 2 :> f @@ 3 :> v @@ 4 :> w

Plan(panels, uploads, moves, pages, links, leaves, lost) ==
    [panels |-> panels, uploads |-> uploads, moves |-> moves, reloads |-> pages, links |-> links,
     leaves |-> leaves, lost |-> lost]

\* What is combined in one behaviour: the page with its two forms and a change
\* of chat, one file twice, two videos, leaving amid an upload; the manager with
\* changes of chat and a link, a reload, two forms; and lost calls in each.
MCPlans ==
    {Plan({"bar", "input"}, {1}, 1, 0, 0, FALSE, {}),
     Plan({"bar"}, {1, 2}, 0, 0, 0, FALSE, {}),
     Plan({"bar"}, {3, 4}, 0, 0, 0, FALSE, {}),
     Plan({"bar"}, {3}, 0, 0, 0, TRUE, {}),
     Plan({"manager"}, {1}, 2, 0, 1, FALSE, {}),
     Plan({"manager"}, {1}, 0, 1, 0, FALSE, {}),
     Plan({"manager"}, {1, 3}, 0, 0, 0, FALSE, {}),
     Plan({"bar"}, {1}, 1, 0, 0, FALSE, {"upload", "chat", "process", "server", "get"}),
     Plan({"manager"}, {1}, 1, 0, 1, FALSE, {"list", "link"})}

=============================================================================
