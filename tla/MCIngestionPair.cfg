\* Two overlapping requests on an uploaded file and a video.
CONSTANTS
    u1 = u1
    pdf = pdf
    video = video
    v1 = v1
    v2 = v2
    vEmpty = vEmpty
    None = None
    Users = {u1}
    Sources = {pdf, video}
    Files = {pdf}
    Jobs = {j1, j2}
    Versions = {v1, v2}
    Owner <- MCOwner
    NChunks <- MCNChunks
SYMMETRY JobSymmetry
SPECIFICATION Spec
PROPERTY ImplementsStore
