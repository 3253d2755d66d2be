SPECIFICATION Spec
CONSTANTS
    Clips = {clip}
    Tasks = {k1, k2}
    Dawn = dawn
INVARIANTS
    UploadedIsArchived
    MeteorKept
    RawOnlyOnRequest
