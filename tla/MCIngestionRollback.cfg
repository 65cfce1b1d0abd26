\* One request of one video: the claim of a single transaction is refuted.
CONSTANTS
    u1 = u1
    video = video
    v1 = v1
    v2 = v2
    None = None
    Users = {u1}
    Sources = {video}
    Files = {}
    Jobs = {j1}
    Versions = {v1, v2}
    Owner <- MCOwner
    NChunks <- MCNChunks
SPECIFICATION RollbackSpec
INVARIANT FailureRollsBack
