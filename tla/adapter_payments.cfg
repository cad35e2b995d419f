\* Two processes of one payment; one edit, one death of the service.
\* It stops when the payment is marked, or not fiscal.
SPECIFICATION FairSpec
CONSTANTS
    Payments = {pay1}
    Details = {d1, d2}
    NotFiscal = NotFiscal
    Procs = {p1, p2}
    Uuids = {u1, u2}
    NoUuid = NoUuid
    MaxChanges = 1
    MaxDeaths = 1
INVARIANTS
    TypeOK
    OneIncomePerPayment
    MarkIsItsReceipt
PROPERTIES
    PaidIsSettled
CHECK_DEADLOCK FALSE
