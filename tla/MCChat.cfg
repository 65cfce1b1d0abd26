\* Two requests to one chat while ingestion, links and deletions change its source;
\* three while the source stays ready.
CONSTANTS
    None = None
    Chats = {c1}
    Requests = {r1, r2, r3}
    MaxTurns = 1
    Sources = {s1}
    Files = {}
    Versions = {v1}
SYMMETRY ChatSymmetry
CONSTRAINT ThreeWhileSettled
SPECIFICATION Spec
INVARIANTS
    TypeOK
    ReloadMatchesResponse
    PromptIsThePast
    CitedWereLinked
PROPERTIES
    AnsweredInPrompt
    NeverFromGone
