------------------------------ MODULE ShmAdapter ------------------------------
(***************************************************************************)
(* The SHM adapter, srv_customlab_nalog.cgi, in front of the receipt       *)
(* service. SHM runs a CGI process for a payment, again and again until    *)
(* one says it is done, and several at once; a process reads the payment,  *)
(* posts it to the service, waits for 45 seconds and marks the payment as  *)
(* sent with the receipt it was answered. A request outlives the process   *)
(* that sent it, the answer may be lost, the commit may fail, the payment  *)
(* or the configuration may change in between, and the service may die.    *)
(*                                                                         *)
(* Of the service only its promise is used: receipts and incomes change by *)
(* the steps of ReceiptLifecycle, which ReceiptService implements.         *)
(***************************************************************************)
EXTENDS Naturals, FiniteSets

CONSTANTS
    Payments,
    Details,        \* amount, service name and time of a payment, as posted
    NotFiscal,      \* of a payment that is skipped or refused
    Procs,          \* CGI processes that run at once
    Uuids, NoUuid,
    MaxChanges,     \* bound of the model: edits of payments or configuration
    MaxDeaths       \* bound of the model: deaths of the service

ASSUME AdapterAssumption ==
    /\ NotFiscal \notin Details /\ NoUuid \notin Uuids
    /\ MaxChanges \in Nat /\ MaxDeaths \in Nat

VARIABLES
    receipts, incomes, annulled, rolledBack,    \* the service and the FNS
    details,        \* details[pay]: what SHM would post now
    mark,           \* mark[pay]: receiptUuid of the comment
    cgi,            \* cgi[p]: idle, waiting for an answer, or marking
    request,        \* request[p]: the POST of slot p, which may outlive it
    changes, deaths

(* History: what the marked payment was posted with.                       *)
VARIABLE markedFor

service == <<receipts, incomes, annulled, rolledBack>>
shm == <<details, mark, markedFor>>
vars == <<service, shm, cgi, request, changes, deaths>>

(* An external id says whose it is: "shm:$pay_id".                         *)
Ids == [pay : Payments, by : Procs \cup {"shm"}]

Life == INSTANCE ReceiptLifecycle WITH
    Amounts <- Details, NoAmount <- NotFiscal

(* Mutant: the id of the process is part of it.                            *)
ExternalIdPerCall(p, pay) == [pay |-> pay, by |-> p]

ExternalId(p, pay) == [pay |-> pay, by |-> "shm"]

(* A request is on its way (sent), its receipt is being created by its     *)
(* handler (creating), or the answer is on its way back. An answer carries *)
(* a receipt or is an error.                                               *)
Request(at, p, pay, sent, uuid) ==
    [at |-> at, id |-> ExternalId(p, pay), pay |-> pay, sent |-> sent, uuid |-> uuid]

NoRequest == [at |-> "none"]

Requests ==
    [at : {"sent", "creating", "answered"}, id : Ids, pay : Payments,
     sent : Details, uuid : Uuids \cup {NoUuid}]

TypeOK ==
    /\ receipts \in [Ids ->
            [status : {"none"}, amount : {NotFiscal}, uuid : {NoUuid}]
                \cup [status : {"creating", "failed", "unknown"},
                      amount : Details, uuid : {NoUuid}]
                \cup [status : {"created", "cancelling", "cancelled", "cancel_unknown"},
                      amount : Details, uuid : Uuids]]
    /\ incomes \in SUBSET [uuid : Uuids, id : Ids, amount : Details]
    /\ annulled \in SUBSET Uuids /\ rolledBack \in SUBSET Ids
    /\ details \in [Payments -> Details \cup {NotFiscal}]
    /\ mark \in [Payments -> Uuids \cup {NoUuid}]
    /\ markedFor \in [Payments -> Details \cup {NotFiscal}]
    /\ cgi \in [Procs -> {"idle", "waiting", "marking"}]
    /\ request \in [Procs -> Requests \cup {NoRequest}]
    /\ \A p \in Procs : cgi[p] = "marking" => request[p].uuid # NoUuid
    /\ changes \in 0..MaxChanges /\ deaths \in 0..MaxDeaths

Init ==
    /\ Life!Init
    /\ details \in [Payments -> Details \cup {NotFiscal}]
    /\ mark = [pay \in Payments |-> NoUuid]
    /\ markedFor = [pay \in Payments |-> NotFiscal]
    /\ cgi = [p \in Procs |-> "idle"]
    /\ request = [p \in Procs |-> NoRequest]
    /\ changes = 0 /\ deaths = 0

-----------------------------------------------------------------------------
(* A process for a payment that is marked, or is not fiscal, ends without  *)
(* a request. Slots are only names, taken again when the request is gone.  *)
Posts(p, pay) ==
    /\ cgi[p] = "idle" /\ request[p] = NoRequest
    /\ mark[pay] = NoUuid /\ details[pay] # NotFiscal
    /\ cgi' = [cgi EXCEPT ![p] = "waiting"]
    /\ request' = [request EXCEPT ![p] = Request("sent", p, pay, details[pay], NoUuid)]
    /\ UNCHANGED <<service, shm, changes, deaths>>

-----------------------------------------------------------------------------
(* The service. Nobody takes an answer the process did not wait for.       *)
Answers(p, uuid) ==
    request' = [request EXCEPT ![p] =
        IF cgi[p] = "waiting" THEN [@ EXCEPT !.at = "answered", !.uuid = uuid]
        ELSE NoRequest]

OnlyRequest == UNCHANGED <<shm, cgi, changes, deaths>>

(* An id without a record: it is reserved, unless the write fails; after a *)
(* durable write the handler goes on.                                      *)
Reserves(p) ==
    /\ request[p].at = "sent"
    /\ Life!Reserve(request[p].id, request[p].sent)
    /\ request' = [request EXCEPT ![p].at = "creating"] \/ Answers(p, NoUuid)
    /\ OnlyRequest

ReserveFails(p) ==
    /\ request[p].at = "sent"
    /\ Life!HasStatus(request[p].id, {"none"})
    /\ Answers(p, NoUuid)
    /\ OnlyRequest /\ UNCHANGED service

(* An id with a record: 200 for the same data and a receipt that was       *)
(* created, whether or not it was cancelled since; 409 otherwise. Mutants: *)
(* 200 for any data; 409 for a retry of what was created.                  *)
RecordAnswerForAny(record, sent) ==
    IF record.status \in {"created", "cancelled"} THEN record.uuid ELSE NoUuid

RecordAnswerConflict(record, sent) ==
    IF record.status = "cancelled" /\ record.amount = sent THEN record.uuid ELSE NoUuid

RecordAnswer(record, sent) ==
    IF record.status \in {"created", "cancelled"} /\ record.amount = sent
    THEN record.uuid ELSE NoUuid

AnswersFromRecord(p) ==
    /\ request[p].at = "sent"
    /\ ~Life!HasStatus(request[p].id, {"none"})
    /\ Answers(p, RecordAnswer(receipts[request[p].id], request[p].sent))
    /\ OnlyRequest /\ UNCHANGED service

(* The call of the handler ends, and its outcome is stored and answered; a *)
(* write that failed, or is uncertain, is answered by 500.                 *)
Settles(p) ==
    /\ request[p].at = "creating"
    /\ LET id == request[p].id IN
       \/ /\ Life!Created(id)
          /\ \E uuid \in {receipts'[id].uuid, NoUuid} : Answers(p, uuid)
       \/ (Life!Failed(id) \/ Life!Unknown(id)) /\ Answers(p, NoUuid)
       \/ UNCHANGED service /\ Answers(p, NoUuid)
    /\ OnlyRequest

(* The FNS, and other clients of the API who cancel receipts.              *)
FnsActs(id) ==
    /\ \E uuid \in Uuids : Life!Register(id, uuid)
    /\ UNCHANGED <<shm, cgi, request, changes, deaths>>

OthersCancel(id) ==
    /\ \/ Life!Cancelling(id) \/ Life!Annul(id)
       \/ Life!Cancelled(id) \/ Life!CancelUnknown(id) \/ Life!CancelFailed(id)
    /\ UNCHANGED <<shm, cgi, request, changes, deaths>>

(* The service dies with all its handlers, or its host with the file: a    *)
(* record is then what it is, or an earlier one.                           *)
LeftOf(id) ==
    [status : {"creating", "created", "cancelling"},
     amount : {receipts[id].amount}, uuid : {receipts[id].uuid, NoUuid}]
        \cup {receipts[id], Life!NoReceipt}

LosesPower ==
    LET known == { id \in Ids : ~Life!HasStatus(id, {"none"}) } IN
    /\ \E back \in [known -> UNION { LeftOf(id) : id \in known }] :
        receipts' = [id \in Ids |-> IF id \in known THEN back[id] ELSE receipts[id]]
    /\ Life!PowerLoss

ServiceDies ==
    /\ deaths < MaxDeaths /\ deaths' = deaths + 1
    /\ UNCHANGED service \/ LosesPower
    /\ request' = [p \in Procs |->
            CASE cgi[p] = "waiting" -> [request[p] EXCEPT !.at = "answered", !.uuid = NoUuid]
              [] cgi[p] = "marking" -> request[p]
              [] OTHER -> NoRequest]
    /\ UNCHANGED <<shm, cgi, changes>>

-----------------------------------------------------------------------------
(* The process again: an answer, 45 seconds without one, or its own death; *)
(* then the comment and the commit, which fails or works. Mutant: the      *)
(* answer is not looked at.                                                *)
ReceivesAnything(p) ==
    /\ cgi[p] = "waiting" /\ request[p].at = "answered"
    /\ cgi' = [cgi EXCEPT ![p] = "marking"]
    /\ UNCHANGED <<service, shm, request, changes, deaths>>

Receives(p) ==
    /\ cgi[p] = "waiting" /\ request[p].at = "answered"
    /\ IF request[p].uuid # NoUuid
       THEN cgi' = [cgi EXCEPT ![p] = "marking"] /\ UNCHANGED request
       ELSE /\ cgi' = [cgi EXCEPT ![p] = "idle"]
            /\ request' = [request EXCEPT ![p] = NoRequest]
    /\ UNCHANGED <<service, shm, changes, deaths>>

GivesUp(p) ==
    /\ cgi[p] \in {"waiting", "marking"}
    /\ cgi' = [cgi EXCEPT ![p] = "idle"]
    /\ request' = IF request[p].at = "answered"
                  THEN [request EXCEPT ![p] = NoRequest] ELSE request
    /\ UNCHANGED <<service, shm, changes, deaths>>

Marks(p) ==
    /\ cgi[p] = "marking"
    /\ mark' = [mark EXCEPT ![request[p].pay] = request[p].uuid]
    /\ markedFor' = [markedFor EXCEPT ![request[p].pay] = request[p].sent]
    /\ cgi' = [cgi EXCEPT ![p] = "idle"]
    /\ request' = [request EXCEPT ![p] = NoRequest]
    /\ UNCHANGED <<service, details, changes, deaths>>

(* The payment is edited, charged back or confirmed, or the service name   *)
(* of the configuration changes.                                           *)
PaymentChanges(pay) ==
    /\ changes < MaxChanges /\ changes' = changes + 1
    /\ \E new \in Details \cup {NotFiscal} : details' = [details EXCEPT ![pay] = new]
    /\ UNCHANGED <<service, mark, markedFor, cgi, request, deaths>>

-----------------------------------------------------------------------------
Serves(p) == Reserves(p) \/ ReserveFails(p) \/ AnswersFromRecord(p) \/ Settles(p)

Next ==
    \/ \E p \in Procs :
        \/ \E pay \in Payments : Posts(p, pay)
        \/ Serves(p) \/ Receives(p) \/ GivesUp(p) \/ Marks(p)
    \/ \E id \in Ids : FnsActs(id) \/ OthersCancel(id)
    \/ \E pay \in Payments : PaymentChanges(pay)
    \/ ServiceDies

Spec == Init /\ [][Next]_vars

(* SHM repeats a payment until it is marked; the service serves its        *)
(* requests; of attempts that are repeated for ever, not all are given up  *)
(* before they are served, and not all writes, answers and commits fail.   *)
FairSpec ==
    /\ Spec
    /\ \A pay \in Payments : SF_vars(\E p \in Procs : Posts(p, pay))
    /\ \A p \in Procs :
        /\ WF_vars(Serves(p)) /\ SF_vars(cgi[p] = "waiting" /\ Serves(p))
        /\ SF_vars(Reserves(p)) /\ SF_vars(Receives(p)) /\ SF_vars(Marks(p))

-----------------------------------------------------------------------------
IdOf(pay) == [pay |-> pay, by |-> "shm"]

(* README: "Requests are idempotent by external_id". However processes of  *)
(* one payment race, time out and are repeated, and however the payment is *)
(* edited, it is declared once.                                            *)
OneIncomePerPayment ==
    \A i, j \in incomes : i.id.pay = j.id.pay => i = j

(* A payment is marked with the income that was declared for it, with the  *)
(* data the process had read.                                              *)
MarkIsItsReceipt ==
    \A pay \in Payments : mark[pay] # NoUuid =>
        \E i \in incomes :
            i.id.pay = pay /\ i.uuid = mark[pay] /\ i.amount = markedFor[pay]

(* A payment is marked in the end, though answers be lost or late and      *)
(* commits fail, unless an operator has to look at it: its receipt failed, *)
(* is unknown, is held by a cancellation or was left behind by a handler   *)
(* that is gone, or the payment is no longer what was declared.            *)
NeedsOperator(pay) ==
    LET record == receipts[IdOf(pay)] IN
    \/ record.status \in {"failed", "unknown", "cancelling", "cancel_unknown"}
    \/ /\ record.status = "creating"
       /\ \A p \in Procs : request[p].at = "creating" => request[p].pay # pay
    \/ record.status # "none" /\ record.amount # details[pay]

PaidIsSettled ==
    \A pay \in Payments :
        []<>(details[pay] = NotFiscal \/ mark[pay] # NoUuid \/ NeedsOperator(pay))
=============================================================================
