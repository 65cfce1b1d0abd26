------------------------------ MODULE SourceViews ------------------------------
(***************************************************************************)
(* What the panels show of a source: the dot and the badge of its status,  *)
(* and the box that links it to the chat (chat-sources-bar.tsx,            *)
(* source-manager.tsx).                                                    *)
(***************************************************************************)

\* statusDot, in the bar.
StatusDot(status) ==
    CASE status = "ready" -> "emerald" [] status = "failed" -> "rose" [] OTHER -> "amber"

\* statusBadge, in the manager: a mark does not outweigh a settled status.
StatusBadge(status, isProcessing) ==
    CASE status = "ready" -> "ready"
      [] status = "failed" -> "failed"
      [] OTHER -> IF isProcessing THEN "spinner" ELSE "processing"

\* The two panels call a source the same.
ASSUME PanelsAgree ==
    \A s, t \in {"processing", "ready", "failed"}, isProcessing \in BOOLEAN :
        StatusBadge(s, isProcessing) = StatusBadge(t, isProcessing) <=> StatusDot(s) = StatusDot(t)

\* The box of a source, and the words beside it.
LinkDisabled(status, hasChat, isLinked, isLinking) ==
    status # "ready" \/ ~hasChat \/ isLinked \/ isLinking

LinkLabel(hasChat, isLinked, isLinking) ==
    CASE ~hasChat -> "Select a chat first to link"
      [] hasChat /\ isLinked -> "Linked to current chat"
      [] OTHER -> IF isLinking THEN "Linking..." ELSE "Link to current chat"

\* A ready source can be linked exactly when the words say so; beside the
\* others they may say so in vain.
ASSUME LabelTellsTruth ==
    \A hasChat, isLinked, isLinking \in BOOLEAN :
        LinkDisabled("ready", hasChat, isLinked, isLinking)
            <=> LinkLabel(hasChat, isLinked, isLinking) # "Link to current chat"
=============================================================================
