------------------------------ MODULE MCSession ------------------------------
(* Session for TLC, with the modules of functions that no component extends. *)
EXTENDS Session, ApiErrors, ToastStore, UiSidebar, UiCarousel, UiChart, TLC

CONSTANTS t1, t2, o1, n1, alice, bob

MCOwner == o1 :> alice @@ n1 :> bob

Plan(opens, links, submits, requests, logouts, crashes) ==
    "open" :> opens @@ "link" :> links @@ "submit" :> submits @@
    "request" :> requests @@ "logout" :> logouts @@ "crash" :> crashes

\* What is combined in one behaviour: a sign-in beside an earlier session, an
\* attempt amid changes of page, sign-outs amid requests, and a crash.
MCPlans ==
    {Plan(2, 0, 1, 0, 0, 0), Plan(1, 1, 1, 0, 0, 0), Plan(2, 0, 0, 1, 1, 0),
     Plan(1, 0, 1, 1, 0, 1)}

=============================================================================
