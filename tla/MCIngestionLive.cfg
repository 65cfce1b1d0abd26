\* Two overlapping requests of one video, each taking its next step unless killed.
CONSTANTS
    u1 = u1
    pdf = pdf
    video = video
    v1 = v1
    v2 = v2
    vEmpty = vEmpty
    None = None
    Users = {u1}
    Sources = {video}
    Files = {}
    Jobs = {j1, j2}
    Versions = {v1, v2, vEmpty}
    Owner <- MCOwner
    NChunks <- MCNChunks
SPECIFICATION FairSpec
PROPERTY Settles
