\* One receipt, two payloads, three handlers, two deaths, readable answers;
\* fair handlers.
SPECIFICATION FairSpec
CONSTANTS
    Ids = {i1}
    Amounts = {a1, a2}
    Uuids = {u1, u2}
    NoAmount = NoAmount
    NoUuid = NoUuid
    NoId = NoId
    Reqs = {r1, r2, r3}
    MaxCrashes = 2
    CutAnswers = FALSE
PROPERTIES
    ImplementsLifecycle
    EveryReceiptSettles
