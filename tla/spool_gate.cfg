\* Two processes, two probes in each of two attempts.
SPECIFICATION FairSpec
CONSTANTS
    Procs = {p1, p2}
    QuietRetries = 2
    GateAttempts = 2
INVARIANTS
    TypeOK
    WindowIsQuiet
    LeftPausedLoudly
PROPERTIES
    OperatorPauseRespected
    OperationEnds ImplementsWindow
