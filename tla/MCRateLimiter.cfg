\* Two users, two ticks to a second, two admissions per window.
CONSTANTS
    Users = {u1, u2}
    Limit = 2
    Window = 4
    CleanupInterval = 2
    Second = 2
    Delay = 1
    Horizon = 7
SYMMETRY UserSymmetry
SPECIFICATION Spec
INVARIANTS
    TypeOK
    AtMostLimit
    RetryAfterExact
    StaleBounded
PROPERTIES
    PromiseKept
    ImplementsWindow
