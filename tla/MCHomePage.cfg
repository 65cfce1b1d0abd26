SPECIFICATION FairSpec
CONSTANTS
    None = None
    Chats = {1, 2}
    Sends = {1, 2}
    Slots = {s1, s2}
    Refreshes = {r1}
    Uploads = {u1}
    Words <- MCWords
    Plans <- MCPlans
\* The user may stop using the page.
CHECK_DEADLOCK FALSE
INVARIANTS
    TypeOK
    StagedNeverLost
    ActiveListed
    OneInterval
    RestShowsHistory
PROPERTIES
    InputComesBack
    StreamEnds
