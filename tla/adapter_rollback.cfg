\* A deployment and a rollback, one command that fails.
SPECIFICATION Spec
CONSTANTS
    Versions = {v1, v2}
    NoFile = NoFile
    Mixed = Mixed
    Unknown = Unknown
    MaxPlays = 2
    MaxFailures = 1
INVARIANTS
    FailedRollbackRestoresSafety
