\* One receipt, two payloads, three handlers, three deaths of process or host.
SPECIFICATION Spec
CONSTANTS
    Ids = {i1}
    Amounts = {a1, a2}
    Uuids = {u1, u2}
    NoAmount = NoAmount
    NoUuid = NoUuid
    NoId = NoId
    Reqs = {r1, r2, r3}
    MaxCrashes = 3
    CutAnswers = TRUE
SYMMETRY Symmetry
INVARIANTS
    TypeOK
    AtMostOneIncome
    RequestPersistedFirst
    RecordsMatchFns
    OutboxMatchesReceipts
    MemoryIsCommitted
    OneWorkerPerReceipt
    StuckOnlyAfterFault
    AckedIsRegistered
    ConfirmedSurvives
PROPERTY NeverRepeatsRequest
