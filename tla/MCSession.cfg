SPECIFICATION FairSpec
CONSTANTS
    None = None
    t1 = t1
    t2 = t2
    o1 = o1
    n1 = n1
    alice = alice
    bob = bob
    Tabs = {t1, t2}
    Tokens = {o1, n1}
    Old = {o1}
    Owner <- MCOwner
    CallIds = {1, 2}
    Plans <- MCPlans
CHECK_DEADLOCK FALSE
INVARIANTS
    TypeOK
    EndedStaysEnded
    EndedTabLeaves
PROPERTIES
    SessionEndsOnlyBy
    ValidationEnds
    SubmitEnds
