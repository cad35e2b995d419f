\* Two versions, three plays, three failures in any of their commands.
SPECIFICATION Spec
CONSTANTS
    Versions = {v1, v2}
    NoFile = NoFile
    Mixed = Mixed
    Unknown = Unknown
    MaxPlays = 3
    MaxFailures = 3
INVARIANTS
    TypeOK
    NeverRunsUnprotected
    RunsWholeAdapter
    FailedCutoverTakenBack
PROPERTIES
    ManifestIsHonest
