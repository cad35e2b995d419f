\* Two calls, two rotations, two deaths of process or host.
SPECIFICATION FairSpec
CONSTANTS
    Calls = {c1, c2}
    MaxTokens = 2
    MaxDeaths = 2
    NoFile = NoFile
    NoToken = NoToken
    Nobody = Nobody
INVARIANTS
    TypeOK
    RotationDurableFirst
    LockedOutOnlyAfterLoss
PROPERTIES
    TokenNeverGoesBack
    EveryCallReturns
