\* Two receipts, two handlers, one death of process or host, readable answers.
SPECIFICATION Spec
CONSTANTS
    Ids = {i1, i2}
    Amounts = {a1}
    Uuids = {u1, u2, u3}
    NoAmount = NoAmount
    NoUuid = NoUuid
    NoId = NoId
    Reqs = {r1, r2}
    MaxCrashes = 1
    CutAnswers = FALSE
SYMMETRY Symmetry
CONSTRAINT FewSurvivors
INVARIANTS
    FailedIsNotRegistered
    CancelIsTracked
PROPERTY RecordsMoveForward
