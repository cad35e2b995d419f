\* One play: the write of its manifest fails after the rename.
SPECIFICATION Spec
CONSTANTS
    Plays = {p1}
    NoPlay = NoPlay
    Images = {v1, v2}
    NoImage = NoImage
    MaxFailures = 1
INVARIANT FailedKeepsManifest
