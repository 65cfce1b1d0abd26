\* Three overlapping requests of one video whose transcript changes.
CONSTANTS
    u1 = u1
    pdf = pdf
    video = video
    v1 = v1
    v2 = v2
    vEmpty = vEmpty
    None = None
    Users = {u1}
    Sources = {video}
    Files = {}
    Jobs = {j1, j2, j3}
    Versions = {v1, v2, vEmpty}
    Owner <- MCOwner
    NChunks <- MCNChunks
SYMMETRY JobSymmetry
SPECIFICATION Spec
INVARIANTS
    TypeOK
    WholeVersion
    UndisturbedOutcome
    ProcessingAttended
