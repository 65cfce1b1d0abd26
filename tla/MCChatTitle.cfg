\* One request to a chat created without a title: its title task does nothing.
CONSTANTS
    None = None
    Chats = {c1}
    Requests = {r1}
    MaxTurns = 1
    Sources = {}
    Files = {}
    Versions = {}
SPECIFICATION FairSpec
PROPERTY TitleArrives
CHECK_DEADLOCK FALSE
