\* One receipt and one handler suffice.
SPECIFICATION Spec
CONSTANTS
    Ids = {i1}
    Amounts = {a1}
    Uuids = {u1}
    NoAmount = NoAmount
    NoUuid = NoUuid
    NoId = NoId
    Reqs = {r1, r2}
    MaxCrashes = 0
    CutAnswers = TRUE
INVARIANT FailedIsNotRegistered
