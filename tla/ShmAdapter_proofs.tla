-------------------------- MODULE ShmAdapter_proofs --------------------------
(***************************************************************************)
(* Proofs about ShmAdapter: a payment is declared once and is marked with  *)
(* its own receipt, however many processes race, time out and are          *)
(* repeated. The service is known by the steps of ReceiptLifecycle only,   *)
(* so the proofs go by what such a step leaves (ServiceOK, Keeps) and by   *)
(* what a request then knows (RequestFits).                                *)
(***************************************************************************)
EXTENDS ShmAdapter, TLAPS

-----------------------------------------------------------------------------
(* The service.                                                            *)
Blank == [status : {"none"}, amount : {NotFiscal}, uuid : {NoUuid}]

Pending ==
    [status : {"creating", "failed", "unknown"}, amount : Details,
     uuid : {NoUuid}]

CreatedStatuses == {"created", "cancelling", "cancelled", "cancel_unknown"}

Made == [status : CreatedStatuses, amount : Details, uuid : Uuids]

Receipt == Blank \cup Pending \cup Made

Income(uuid, id, amount) == [uuid |-> uuid, id |-> id, amount |-> amount]

Reserved(id) == receipts[id].status # "none"

ServiceType ==
    /\ receipts \in [Ids -> Receipt]
    /\ incomes \in SUBSET [uuid : Uuids, id : Ids, amount : Details]
    /\ annulled \in SUBSET Uuids /\ rolledBack \in SUBSET Ids

(* The income of an id is that of its record, and there is no other.       *)
IncomesKnown ==
    /\ \A i, j \in incomes : i.id = j.id => i = j
    /\ \A i \in incomes : Reserved(i.id) /\ receipts[i.id].amount = i.amount

(* Only the ids of payments are used, and a created record has an income.  *)
RecordIsTrue(id, record) ==
    /\ record.status # "none" => id = IdOf(id.pay)
    /\ record.status \in CreatedStatuses =>
            Income(record.uuid, id, record.amount) \in incomes

ReceiptsTrue == \A id \in Ids : RecordIsTrue(id, receipts[id])

ServiceOK == ServiceType /\ IncomesKnown /\ ReceiptsTrue

(* What a step of the service leaves, unless its host loses power.         *)
Keeps ==
    /\ incomes \subseteq incomes'
    /\ \A id \in Ids : Reserved(id) =>
            Reserved(id)' /\ receipts'[id].amount = receipts[id].amount

-----------------------------------------------------------------------------
(* The slots: what a request knows that was sent by a process of state s.  *)
RequestFits(q, s) ==
    /\ q # NoRequest => q.id = IdOf(q.pay)
    /\ q.at = "creating" =>
            Reserved(q.id) /\ receipts[q.id].amount = q.sent
    /\ q.at = "answered" /\ q.uuid # NoUuid =>
            Income(q.uuid, q.id, q.sent) \in incomes
    /\ s = "marking" => q.at = "answered" /\ q.uuid # NoUuid
    /\ s # "idle" => q # NoRequest

States == {"idle", "waiting", "marking"}

SlotsOK ==
    /\ cgi \in [Procs -> States]
    /\ request \in [Procs -> Requests \cup {NoRequest}]
    /\ \A p \in Procs : RequestFits(request[p], cgi[p])

ShmOK ==
    /\ details \in [Payments -> Details \cup {NotFiscal}]
    /\ mark \in [Payments -> Uuids \cup {NoUuid}]
    /\ markedFor \in [Payments -> Details \cup {NotFiscal}]
    /\ MarkIsItsReceipt

BoundsOK == changes \in 0..MaxChanges /\ deaths \in 0..MaxDeaths

AdapterInv == ServiceOK /\ SlotsOK /\ ShmOK /\ BoundsOK

-----------------------------------------------------------------------------
(* Records.                                                                *)
LEMMA ReceiptKinds ==
    ASSUME NEW record \in Receipt
    PROVE  /\ record.status = "none" <=> record \in Blank
           /\ record.status \in {"creating", "failed", "unknown"}
                <=> record \in Pending
           /\ record.status \in CreatedStatuses <=> record \in Made
           /\ record.status # "none" => record.amount \in Details
           /\ record.status \in CreatedStatuses => record.uuid \in Uuids
           /\ record.status \notin CreatedStatuses => record.uuid = NoUuid
BY DEF Receipt, Blank, Pending, Made, CreatedStatuses

LEMMA MovedRecord ==
    ASSUME NEW old \in Receipt, NEW status,
           \/ old.status = "creating" /\ status \in {"failed", "unknown"}
           \/ old.status \in CreatedStatuses /\ status \in CreatedStatuses
    PROVE  LET new == [old EXCEPT !.status = status] IN
           /\ new \in Receipt /\ new.status = status
           /\ new.amount = old.amount /\ new.uuid = old.uuid
<1>1. CASE old \in Pending
    BY <1>1 DEF Receipt, Pending, CreatedStatuses
<1>2. CASE old \in Made
    BY <1>2 DEF Receipt, Made, CreatedStatuses
<1>3. old \in Pending \/ old \in Made
    BY ReceiptKinds
<1> QED BY <1>1, <1>2, <1>3

LEMMA CreatedRecord ==
    ASSUME NEW old \in Receipt, old.status = "creating", NEW uuid \in Uuids
    PROVE  LET new == [old EXCEPT !.status = "created", !.uuid = uuid] IN
           /\ new \in Receipt /\ new.status = "created"
           /\ new.amount = old.amount /\ new.uuid = uuid
<1>1. old \in Pending
    BY ReceiptKinds
<1> QED BY <1>1 DEF Receipt, Pending, Made, CreatedStatuses

-----------------------------------------------------------------------------
(* The steps of the service.                                               *)

(* One record is replaced by one that is true.                             *)
LEMMA RecordReplaced ==
    ASSUME ServiceOK, NEW id \in Ids, NEW record \in Receipt,
           receipts' = [receipts EXCEPT ![id] = record],
           UNCHANGED <<incomes, annulled, rolledBack>>,
           record.status # "none", RecordIsTrue(id, record),
           Reserved(id) => record.amount = receipts[id].amount
    PROVE  ServiceOK' /\ Keeps
<1>1. receipts \in [Ids -> Receipt]
    BY DEF ServiceOK, ServiceType
<1>2. \A x \in Ids : receipts'[x] = IF x = id THEN record ELSE receipts[x]
    BY <1>1
<1>3. Keeps
    BY <1>2 DEF Keeps, Reserved
<1>4. ServiceType'
    BY <1>1 DEF ServiceOK, ServiceType
<1>5. IncomesKnown'
    <2>1. \A i \in incomes : i.id \in Ids
        BY DEF ServiceOK, ServiceType
    <2> QED BY <1>3, <2>1 DEF ServiceOK, IncomesKnown, Keeps
<1>6. ReceiptsTrue'
    BY <1>2 DEF ServiceOK, ReceiptsTrue, RecordIsTrue
<1> QED BY <1>3, <1>4, <1>5, <1>6 DEF ServiceOK

LEMMA NothingServed ==
    ASSUME ServiceOK, UNCHANGED service PROVE ServiceOK' /\ Keeps
BY DEF ServiceOK, ServiceType, IncomesKnown, ReceiptsTrue, RecordIsTrue,
       Reserved, Keeps, service

LEMMA ReserveServed ==
    ASSUME ServiceOK, NEW id \in Ids, id = IdOf(id.pay),
           NEW amount \in Details, Life!Reserve(id, amount)
    PROVE  /\ ServiceOK' /\ Keeps
           /\ receipts'[id].status # "none" /\ receipts'[id].amount = amount
<1> DEFINE record ==
        [status |-> "creating", amount |-> amount, uuid |-> NoUuid]
<1>1. /\ receipts' = [receipts EXCEPT ![id] = record]
      /\ UNCHANGED <<incomes, annulled, rolledBack>> /\ ~Reserved(id)
    BY DEF Life!Reserve, Life!HasStatus, Reserved
<1>2. /\ record \in Receipt /\ record.status = "creating"
      /\ record.amount = amount
    BY DEF Receipt, Pending
<1> HIDE DEF record
<1>3. RecordIsTrue(id, record)
    BY <1>2 DEF RecordIsTrue, CreatedStatuses
<1>4. ServiceOK' /\ Keeps
    BY <1>1, <1>2, <1>3, RecordReplaced
<1>5. receipts'[id] = record
    BY <1>1 DEF ServiceOK, ServiceType
<1> QED BY <1>2, <1>4, <1>5

LEMMA CreatedServed ==
    ASSUME ServiceOK, NEW id \in Ids, Life!Created(id)
    PROVE  /\ ServiceOK' /\ Keeps /\ receipts'[id].uuid \in Uuids
           /\ Income(receipts'[id].uuid, id, receipts[id].amount) \in incomes'
<1>1. PICK i \in incomes :
        /\ i.id = id /\ receipts[id].status = "creating"
        /\ receipts' = [receipts EXCEPT ![id].status = "created",
                                        ![id].uuid = i.uuid]
        /\ UNCHANGED <<incomes, annulled, rolledBack>>
    BY DEF Life!Created, Life!HasStatus, Life!IncomeOf
<1> DEFINE record ==
        [receipts[id] EXCEPT !.status = "created", !.uuid = i.uuid]
<1>2. receipts' = [receipts EXCEPT ![id] = record]
    BY <1>1
<1>3. /\ receipts \in [Ids -> Receipt] /\ i.uuid \in Uuids
      /\ i = Income(i.uuid, i.id, i.amount)
      /\ receipts[id].amount = i.amount
    BY <1>1 DEF ServiceOK, ServiceType, IncomesKnown, Income
<1>4. /\ record \in Receipt /\ record.status = "created"
      /\ record.amount = receipts[id].amount /\ record.uuid = i.uuid
    <2>1. PICK old \in Receipt, uuid \in Uuids :
            /\ old = receipts[id] /\ uuid = i.uuid
            /\ old.status = "creating"
        BY <1>1, <1>3
    <2> DEFINE new == [old EXCEPT !.status = "created", !.uuid = uuid]
    <2>2. /\ new \in Receipt /\ new.status = "created"
          /\ new.amount = old.amount /\ new.uuid = uuid
        BY <2>1, CreatedRecord
    <2>3. record = new
        BY <2>1
    <2> HIDE DEF record, new
    <2> QED BY <2>1, <2>2, <2>3
<1> HIDE DEF record
<1>5. Income(record.uuid, id, record.amount) \in incomes
    BY <1>1, <1>3, <1>4
<1>6. RecordIsTrue(id, record)
    BY <1>1, <1>5 DEF RecordIsTrue, ServiceOK, ReceiptsTrue
<1>7. ServiceOK' /\ Keeps
    BY <1>1, <1>2, <1>4, <1>6, RecordReplaced
<1>8. receipts'[id] = record
    BY <1>2, <1>3
<1> QED BY <1>1, <1>3, <1>4, <1>5, <1>7, <1>8

LEMMA MoveServed ==
    ASSUME ServiceOK, NEW id \in Ids, NEW status, Life!Move(id, status),
           \/ /\ receipts[id].status = "creating"
              /\ status \in {"failed", "unknown"}
           \/ /\ receipts[id].status \in CreatedStatuses
              /\ status \in CreatedStatuses
    PROVE  ServiceOK' /\ Keeps
<1> DEFINE record == [receipts[id] EXCEPT !.status = status]
<1>1. /\ receipts' = [receipts EXCEPT ![id] = record]
      /\ UNCHANGED <<incomes, annulled, rolledBack>>
      /\ receipts[id] \in Receipt
    BY DEF Life!Move, ServiceOK, ServiceType
<1>2. /\ record \in Receipt /\ record.status = status
      /\ record.amount = receipts[id].amount /\ record.uuid = receipts[id].uuid
    BY <1>1, MovedRecord
<1> HIDE DEF record
<1>3. RecordIsTrue(id, record)
    <2>1. RecordIsTrue(id, receipts[id]) /\ receipts[id].status # "none"
        BY DEF ServiceOK, ReceiptsTrue, CreatedStatuses
    <2>2. record.status \in CreatedStatuses =>
                receipts[id].status \in CreatedStatuses
        BY <1>2 DEF CreatedStatuses
    <2> QED BY <1>2, <2>1, <2>2 DEF RecordIsTrue
<1>4. record.status # "none"
    BY <1>2 DEF CreatedStatuses
<1> QED BY <1>1, <1>2, <1>3, <1>4, RecordReplaced

LEMMA RegisterServed ==
    ASSUME ServiceOK, NEW id \in Ids, NEW uuid \in Uuids,
           Life!Register(id, uuid)
    PROVE  ServiceOK' /\ Keeps
<1> DEFINE i == Income(uuid, id, receipts[id].amount)
<1>1. /\ receipts[id].status \in {"creating", "unknown"}
      /\ \A j \in incomes : j.id # id
      /\ incomes' = incomes \cup {i}
      /\ UNCHANGED <<receipts, annulled, rolledBack>>
    BY DEF Life!Register, Life!HasStatus, Life!IncomeOf, Income
<1>2. receipts[id].amount \in Details
    <2>1. receipts[id] \in Receipt
        BY DEF ServiceOK, ServiceType
    <2> QED BY <1>1, <2>1, ReceiptKinds
<1>3. /\ i \in [uuid : Uuids, id : Ids, amount : Details]
      /\ i.id = id /\ i.amount = receipts[id].amount
    BY <1>2 DEF Income
<1> HIDE DEF i
<1>4. ServiceType'
    BY <1>1, <1>3 DEF ServiceOK, ServiceType
<1>5. IncomesKnown'
    BY <1>1, <1>3 DEF ServiceOK, IncomesKnown, Reserved
<1>6. ReceiptsTrue' /\ Keeps
    BY <1>1 DEF ServiceOK, ReceiptsTrue, RecordIsTrue, Keeps, Reserved
<1> QED BY <1>4, <1>5, <1>6 DEF ServiceOK

LEMMA CancelServed ==
    ASSUME ServiceOK, NEW id \in Ids,
           \/ Life!Cancelling(id) \/ Life!Annul(id) \/ Life!Cancelled(id)
           \/ Life!CancelUnknown(id) \/ Life!CancelFailed(id)
    PROVE  ServiceOK' /\ Keeps
<1>1. CASE Life!Annul(id)
    <2>1. /\ annulled' = annulled \cup { i.uuid : i \in Life!IncomeOf(id) }
          /\ UNCHANGED <<receipts, incomes, rolledBack>>
        BY <1>1 DEF Life!Annul
    <2>2. annulled' \subseteq Uuids
        BY <2>1 DEF Life!IncomeOf, ServiceOK, ServiceType
    <2> QED BY <2>1, <2>2
            DEF ServiceOK, ServiceType, IncomesKnown, ReceiptsTrue,
                RecordIsTrue, Reserved, Keeps
<1>2. CASE ~Life!Annul(id)
    <2>1. \E status \in CreatedStatuses :
            /\ Life!Move(id, status)
            /\ receipts[id].status \in {"created", "cancelling"}
        BY <1>2 DEF Life!Cancelling, Life!Cancelled, Life!CancelUnknown,
                    Life!CancelFailed, Life!HasStatus, CreatedStatuses
    <2> QED BY <2>1, MoveServed DEF CreatedStatuses
<1> QED BY <1>1, <1>2

(* A power loss leaves records, each what it was or an earlier one.        *)
IsRecord(record) ==
    record = [status |-> record.status, amount |-> record.amount,
              uuid |-> record.uuid]

LEMMA LeftIsRecord ==
    ASSUME ServiceOK, NEW id \in Ids, Reserved(id), NEW record \in LeftOf(id)
    PROVE  /\ IsRecord(record)
           /\ record.status = "none" => record = Life!NoReceipt
<1>1. receipts[id] \in Receipt /\ receipts[id].status # "none"
    BY DEF ServiceOK, ServiceType, Reserved
<1>2. CASE record = Life!NoReceipt
    BY <1>2 DEF IsRecord, Life!NoReceipt
<1>3. CASE record = receipts[id]
    <2>1. IsRecord(receipts[id])
        BY <1>1 DEF IsRecord, Receipt, Blank, Pending, Made
    <2> QED BY <1>1, <1>3, <2>1
<1>4. CASE record \in [status : {"creating", "created", "cancelling"},
                       amount : {receipts[id].amount},
                       uuid : {receipts[id].uuid, NoUuid}]
    BY <1>4 DEF IsRecord
<1> QED BY <1>2, <1>3, <1>4 DEF LeftOf

LEMMA PowerLossLeaves ==
    ASSUME ServiceOK, LosesPower
    PROVE  \A id \in Ids :
            /\ receipts'[id] = receipts[id] \/ Life!TakenBack(id)
            /\ receipts'[id] # receipts[id] =>
                /\ IsRecord(receipts'[id])
                /\ receipts'[id].status = "none" =>
                        receipts'[id] = Life!NoReceipt
<1> SUFFICES ASSUME NEW id \in Ids
             PROVE  /\ receipts'[id] = receipts[id] \/ Life!TakenBack(id)
                    /\ receipts'[id] # receipts[id] =>
                        /\ IsRecord(receipts'[id])
                        /\ receipts'[id].status = "none" =>
                                receipts'[id] = Life!NoReceipt
    OBVIOUS
<1> DEFINE known == { x \in Ids : ~Life!HasStatus(x, {"none"}) }
<1>1. receipts'[id] = receipts[id] \/ Life!TakenBack(id)
    BY DEF LosesPower, Life!PowerLoss
<1>2. PICK back \in [known -> UNION { LeftOf(x) : x \in known }] :
        receipts' = [x \in Ids |-> IF x \in known THEN back[x] ELSE receipts[x]]
    BY DEF LosesPower
<1>3. \A x \in known : x \in Ids /\ Reserved(x)
    BY DEF Life!HasStatus, Reserved
<1> HIDE DEF known
<1>4. \/ receipts'[id] = receipts[id]
      \/ \E x \in known : receipts'[id] \in LeftOf(x)
    BY <1>2
<1> QED BY <1>1, <1>3, <1>4, LeftIsRecord

LEMMA TakenBackIs ==
    ASSUME ServiceOK, NEW id \in Ids, Life!TakenBack(id),
           IsRecord(receipts'[id]),
           receipts'[id].status = "none" => receipts'[id] = Life!NoReceipt
    PROVE  /\ receipts'[id] \in Receipt
           /\ RecordIsTrue(id, receipts'[id])
           /\ \A i \in incomes : i.id = id =>
                /\ receipts'[id].status # "none"
                /\ receipts'[id].amount = i.amount
<1> DEFINE old == receipts[id]
           new == receipts'[id]
<1>1. /\ old \in Receipt /\ RecordIsTrue(id, old)
      /\ \A i \in incomes : i.id = id => old.amount = i.amount
    BY DEF ServiceOK, ServiceType, ReceiptsTrue, IncomesKnown
<1>2. /\ new.status \in Life!Earlier[old.status]
      /\ new.status = "none" => \A i \in incomes : i.id # id
      /\ new.status # "none" => new.amount = old.amount
      /\ new.uuid = IF new.status \in {"none", "creating"} THEN NoUuid
                    ELSE old.uuid
    BY DEF Life!TakenBack, Life!IncomeOf
<1>3. new = [status |-> new.status, amount |-> new.amount, uuid |-> new.uuid]
    BY DEF IsRecord
<1>4. new.status = "none" => new \in Blank
    BY DEF Life!NoReceipt, Blank
<1> HIDE DEF old, new
<1>5. old.status \in {"none", "creating", "failed", "unknown"} \cup CreatedStatuses
    BY <1>1 DEF Receipt, Blank, Pending, Made
<1>6. /\ old.status # "none"
      /\ new.status \in {"none", "creating", "created", "cancelling"}
      /\ new.status \in CreatedStatuses => old.status \in CreatedStatuses
    BY <1>2, <1>5 DEF Life!Earlier, CreatedStatuses
<1>7. new \in Receipt
    <2>1. CASE new.status = "none"
        BY <1>4, <2>1 DEF Receipt
    <2>2. CASE new.status = "creating"
        <3>1. new.amount \in Details /\ new.uuid = NoUuid
            BY <1>1, <1>2, <1>6, <2>2, ReceiptKinds
        <3> QED BY <1>3, <2>2, <3>1 DEF Receipt, Pending
    <2>3. CASE new.status \in {"created", "cancelling"}
        <3>1. new.status \in CreatedStatuses
            BY <2>3 DEF CreatedStatuses
        <3>2. new.amount \in Details /\ new.uuid \in Uuids
            BY <1>1, <1>2, <1>6, <2>3, <3>1, ReceiptKinds
        <3> QED BY <1>3, <3>1, <3>2 DEF Receipt, Made
    <2> QED BY <1>6, <2>1, <2>2, <2>3
<1>8. RecordIsTrue(id, new)
    <2>1. new.status \in CreatedStatuses =>
            new.uuid = old.uuid /\ new.amount = old.amount
        BY <1>2 DEF CreatedStatuses
    <2> QED BY <1>1, <1>6, <2>1 DEF RecordIsTrue
<1>9. \A i \in incomes : i.id = id =>
            new.status # "none" /\ new.amount = i.amount
    BY <1>1, <1>2
<1> QED BY <1>7, <1>8, <1>9 DEF new

LEMMA PowerLossServed ==
    ASSUME ServiceOK, LosesPower
    PROVE  ServiceOK' /\ incomes' = incomes
<1>1. /\ UNCHANGED <<incomes, annulled>>
      /\ rolledBack' \in SUBSET Ids
    BY DEF LosesPower, Life!PowerLoss, ServiceOK, ServiceType
<1>2. ASSUME NEW id \in Ids
      PROVE  /\ receipts'[id] \in Receipt
             /\ RecordIsTrue(id, receipts'[id])
             /\ \A i \in incomes : i.id = id =>
                    /\ receipts'[id].status # "none"
                    /\ receipts'[id].amount = i.amount
    <2>1. CASE receipts'[id] = receipts[id]
        BY <2>1 DEF ServiceOK, ServiceType, ReceiptsTrue, IncomesKnown, Reserved
    <2>2. CASE receipts'[id] # receipts[id]
        BY <2>2, PowerLossLeaves, TakenBackIs
    <2> QED BY <2>1, <2>2
<1>3. receipts' \in [Ids -> Receipt]
    <2>1. \E known, back :
            receipts' = [x \in Ids |-> IF x \in known THEN back[x]
                                       ELSE receipts[x]]
        BY DEF LosesPower
    <2>2. receipts' = [x \in Ids |-> receipts'[x]]
        BY <2>1
    <2> QED BY <1>2, <2>2
<1>4. ServiceType'
    BY <1>1, <1>3 DEF ServiceOK, ServiceType
<1>5. \A i \in incomes : i.id \in Ids
    BY DEF ServiceOK, ServiceType
<1>6. IncomesKnown'
    BY <1>1, <1>2, <1>5 DEF ServiceOK, IncomesKnown, Reserved
<1>7. ReceiptsTrue'
    BY <1>1, <1>2 DEF ReceiptsTrue, RecordIsTrue
<1> QED BY <1>1, <1>4, <1>6, <1>7 DEF ServiceOK

-----------------------------------------------------------------------------
(* The requests.                                                           *)
LEMMA RequestIs ==
    ASSUME NEW q \in Requests \cup {NoRequest}, q.at # "none"
    PROVE  q \in Requests
BY DEF NoRequest

LEMMA RequestNone ==
    /\ NoRequest.at = "none"
    /\ \A q \in Requests : q.at # "none" /\ q # NoRequest
BY DEF NoRequest, Requests

(* A slot changes, the others know what they knew.                         *)
LEMMA OneSlot ==
    ASSUME SlotsOK, Keeps, NEW p \in Procs,
           NEW q \in Requests \cup {NoRequest}, NEW s \in States,
           request' = [request EXCEPT ![p] = q],
           \/ cgi' = [cgi EXCEPT ![p] = s]
           \/ cgi' = cgi /\ cgi[p] = s,
           request'[p] = q /\ cgi'[p] = s => RequestFits(request[p], cgi[p])'
    PROVE  SlotsOK'
<1>1. /\ request' \in [Procs -> Requests \cup {NoRequest}]
      /\ cgi' \in [Procs -> States]
      /\ request'[p] = q /\ cgi'[p] = s
      /\ \A o \in Procs \ {p} : request'[o] = request[o] /\ cgi'[o] = cgi[o]
    BY DEF SlotsOK
<1>2. ASSUME NEW o \in Procs, o # p PROVE RequestFits(request[o], cgi[o])'
    <2> DEFINE x == request[o]
               y == cgi[o]
    <2>1. /\ x \in Requests \cup {NoRequest} /\ RequestFits(x, y)
          /\ request'[o] = x /\ cgi'[o] = y
        BY <1>1, <1>2 DEF SlotsOK
    <2> QED BY <2>1, RequestIs DEF RequestFits, Keeps, Requests
<1> QED BY <1>1, <1>2 DEF SlotsOK

LEMMA SlotsStay ==
    ASSUME SlotsOK, Keeps, UNCHANGED <<request, cgi>>
    PROVE  SlotsOK'
<1> SUFFICES ASSUME NEW o \in Procs PROVE RequestFits(request[o], cgi[o])'
    BY DEF SlotsOK
<1>1. request[o] \in Requests \cup {NoRequest} /\ RequestFits(request[o], cgi[o])
    BY DEF SlotsOK
<1> QED BY <1>1, RequestIs DEF RequestFits, Keeps, Requests

(* An answer with a receipt names the income of the data that was sent.    *)
LEMMA AnswersFit ==
    ASSUME SlotsOK, Keeps, NEW p \in Procs,
           request[p].at \in {"sent", "creating"},
           NEW uuid \in Uuids \cup {NoUuid}, Answers(p, uuid), cgi' = cgi,
           uuid # NoUuid =>
                Income(uuid, request[p].id, request[p].sent) \in incomes'
    PROVE  SlotsOK'
<1> DEFINE q == [request[p] EXCEPT !.at = "answered", !.uuid = uuid]
<1>1. /\ request[p] \in Requests /\ RequestFits(request[p], cgi[p])
      /\ cgi[p] \in States
    BY RequestIs DEF SlotsOK
<1>2. CASE cgi[p] = "waiting"
    <2>1. request' = [request EXCEPT ![p] = q]
        BY <1>2 DEF Answers
    <2>2. /\ q \in Requests /\ q.at = "answered" /\ q.uuid = uuid
          /\ q.id = request[p].id /\ q.sent = request[p].sent
          /\ q.pay = request[p].pay
        BY <1>1 DEF Requests
    <2> HIDE DEF q
    <2>3. request'[p] = q /\ cgi'[p] = "waiting"
            => RequestFits(request[p], cgi[p])'
        BY <1>1, <2>2, RequestNone DEF RequestFits
    <2> QED BY <1>1, <1>2, <2>1, <2>2, <2>3, OneSlot
<1>3. CASE cgi[p] # "waiting"
    <2>1. request' = [request EXCEPT ![p] = NoRequest] /\ cgi[p] = "idle"
        BY <1>1, <1>3 DEF Answers, RequestFits, States
    <2>2. request'[p] = NoRequest /\ cgi'[p] = "idle"
            => RequestFits(request[p], cgi[p])'
        BY RequestNone DEF RequestFits
    <2> QED BY <1>1, <2>1, <2>2, OneSlot
<1> QED BY <1>2, <1>3

(* The rest of the state stays.                                            *)
LEMMA ShmStays ==
    ASSUME ShmOK, UNCHANGED shm, incomes \subseteq incomes'
    PROVE  ShmOK'
BY DEF ShmOK, MarkIsItsReceipt, shm

-----------------------------------------------------------------------------
(* The invariant after each action.                                        *)
LEMMA PostsInv ==
    ASSUME AdapterInv, NEW p \in Procs, NEW pay \in Payments, Posts(p, pay)
    PROVE  AdapterInv'
<1> DEFINE q == Request("sent", p, pay, details[pay], NoUuid)
<1>1. /\ request' = [request EXCEPT ![p] = q]
      /\ cgi' = [cgi EXCEPT ![p] = "waiting"]
      /\ UNCHANGED <<service, shm, changes, deaths>>
    BY DEF Posts
<1>2. ServiceOK' /\ Keeps
    BY <1>1, NothingServed DEF AdapterInv
<1>3. /\ q \in Requests /\ q.at = "sent" /\ q.pay = pay /\ q.id = IdOf(pay)
    <2>1. details[pay] \in Details
        BY DEF Posts, AdapterInv, ShmOK
    <2> QED BY <2>1 DEF Request, Requests, ExternalId, IdOf, Ids
<1> HIDE DEF q
<1>4. request'[p] = q /\ cgi'[p] = "waiting"
        => RequestFits(request[p], cgi[p])'
    BY <1>3, RequestNone DEF RequestFits
<1>5. SlotsOK'
    BY <1>1, <1>2, <1>3, <1>4, OneSlot DEF AdapterInv, States
<1> QED BY <1>1, <1>2, <1>5, ShmStays DEF AdapterInv, BoundsOK, Keeps

(* The requests the service serves.                                        *)
LEMMA ServingRequest ==
    ASSUME AdapterInv, NEW p \in Procs, request[p].at \in {"sent", "creating"}
    PROVE  /\ request[p] \in Requests /\ RequestFits(request[p], cgi[p])
           /\ request[p].id \in Ids /\ request[p].sent \in Details
           /\ request[p].id = IdOf(request[p].id.pay)
<1>1. request[p] \in Requests /\ RequestFits(request[p], cgi[p])
    BY RequestIs DEF AdapterInv, SlotsOK
<1>2. request[p].id = IdOf(request[p].pay)
    BY <1>1, RequestNone DEF RequestFits
<1> QED BY <1>1, <1>2 DEF Requests, IdOf

LEMMA ServedInv ==
    ASSUME AdapterInv, ServiceOK', Keeps, SlotsOK',
           UNCHANGED <<shm, changes, deaths>>
    PROVE  AdapterInv'
BY ShmStays DEF AdapterInv, BoundsOK, Keeps

LEMMA ReservesInv ==
    ASSUME AdapterInv, NEW p \in Procs, Reserves(p) PROVE AdapterInv'
<1> DEFINE q == [request[p] EXCEPT !.at = "creating"]
<1>1. /\ request[p].at = "sent" /\ cgi' = cgi
      /\ Life!Reserve(request[p].id, request[p].sent)
      /\ UNCHANGED <<shm, changes, deaths>>
    BY DEF Reserves, OnlyRequest
<1>2. /\ request[p] \in Requests /\ RequestFits(request[p], cgi[p])
      /\ cgi[p] \in States
      /\ request[p].id \in Ids /\ request[p].sent \in Details
      /\ request[p].id = IdOf(request[p].id.pay)
    BY <1>1, ServingRequest DEF AdapterInv, SlotsOK
<1>3. /\ ServiceOK' /\ Keeps
      /\ receipts'[request[p].id].status # "none"
      /\ receipts'[request[p].id].amount = request[p].sent
    <2>1. PICK id \in Ids, amount \in Details :
            id = request[p].id /\ amount = request[p].sent
        BY <1>2
    <2>2. id = IdOf(id.pay) /\ Life!Reserve(id, amount)
        BY <1>1, <1>2, <2>1
    <2> QED BY <2>1, <2>2, ReserveServed DEF AdapterInv
<1>4. CASE request' = [request EXCEPT ![p].at = "creating"]
    <2>1. request' = [request EXCEPT ![p] = q]
        BY <1>4
    <2>2. /\ q \in Requests /\ q.at = "creating"
          /\ q.id = request[p].id /\ q.sent = request[p].sent
          /\ q.pay = request[p].pay
        BY <1>2 DEF Requests
    <2> HIDE DEF q
    <2>3. cgi[p] # "marking"
        BY <1>1, <1>2 DEF RequestFits
    <2>4. request'[p] = q /\ cgi'[p] = cgi[p]
            => RequestFits(request[p], cgi[p])'
        BY <1>1, <1>2, <1>3, <2>2, <2>3, RequestNone DEF RequestFits, Reserved
    <2>5. SlotsOK'
        BY <1>1, <1>2, <1>3, <2>1, <2>2, <2>4, OneSlot DEF AdapterInv
    <2> QED BY <1>1, <1>3, <2>5, ServedInv
<1>5. CASE Answers(p, NoUuid)
    <2>1. SlotsOK'
        BY <1>1, <1>3, <1>5, AnswersFit DEF AdapterInv
    <2> QED BY <1>1, <1>3, <2>1, ServedInv
<1> QED BY <1>4, <1>5 DEF Reserves

LEMMA ReserveFailsInv ==
    ASSUME AdapterInv, NEW p \in Procs, ReserveFails(p) PROVE AdapterInv'
<1>1. /\ request[p].at = "sent" /\ Answers(p, NoUuid)
      /\ cgi' = cgi /\ UNCHANGED <<shm, changes, deaths, service>>
    BY DEF ReserveFails, OnlyRequest
<1>2. ServiceOK' /\ Keeps
    BY <1>1, NothingServed DEF AdapterInv
<1>3. SlotsOK'
    BY <1>1, <1>2, AnswersFit DEF AdapterInv
<1> QED BY <1>1, <1>2, <1>3, ServedInv

(* What is answered from a record is its income, and that of the data.     *)
LEMMA AnswersFromRecordInv ==
    ASSUME AdapterInv, NEW p \in Procs, AnswersFromRecord(p)
    PROVE  AdapterInv'
<1>1. /\ request[p].at = "sent" /\ cgi' = cgi
      /\ Answers(p, RecordAnswer(receipts[request[p].id], request[p].sent))
      /\ UNCHANGED <<shm, changes, deaths, service>>
    BY DEF AnswersFromRecord, OnlyRequest
<1>2. ServiceOK' /\ Keeps
    BY <1>1, NothingServed DEF AdapterInv
<1>3. PICK id \in Ids, sent \in Details :
        id = request[p].id /\ sent = request[p].sent
    BY <1>1, ServingRequest
<1>4. PICK record \in Receipt :
        record = receipts[id] /\ RecordIsTrue(id, record)
    BY DEF AdapterInv, ServiceOK, ServiceType, ReceiptsTrue
<1>5. PICK uuid \in Uuids \cup {NoUuid} :
        /\ uuid = RecordAnswer(record, sent)
        /\ uuid # NoUuid => Income(uuid, id, sent) \in incomes
    <2>1. CASE record.status \in {"created", "cancelled"} /\ record.amount = sent
        <3>1. record.status \in CreatedStatuses
            BY <2>1 DEF CreatedStatuses
        <3>2. /\ record.uuid \in Uuids
              /\ Income(record.uuid, id, record.amount) \in incomes
            BY <1>4, <3>1, ReceiptKinds DEF RecordIsTrue
        <3> QED BY <2>1, <3>2 DEF RecordAnswer
    <2>2. CASE ~(record.status \in {"created", "cancelled"} /\ record.amount = sent)
        BY <2>2 DEF RecordAnswer
    <2> QED BY <2>1, <2>2
<1>6. Answers(p, uuid)
    BY <1>1, <1>3, <1>4, <1>5
<1>7. uuid # NoUuid =>
            Income(uuid, request[p].id, request[p].sent) \in incomes'
    BY <1>1, <1>3, <1>5 DEF service
<1>8. SlotsOK'
    BY <1>1, <1>2, <1>6, <1>7, AnswersFit DEF AdapterInv
<1> QED BY <1>1, <1>2, <1>8, ServedInv

LEMMA SettlesInv ==
    ASSUME AdapterInv, NEW p \in Procs, Settles(p) PROVE AdapterInv'
<1>1. /\ request[p].at = "creating" /\ cgi' = cgi
      /\ UNCHANGED <<shm, changes, deaths>>
    BY DEF Settles, OnlyRequest
<1>2. PICK id \in Ids : id = request[p].id
    BY <1>1, ServingRequest
<1>3. receipts[id].amount = request[p].sent
    BY <1>1, <1>2, ServingRequest DEF RequestFits
<1>4. \/ /\ Life!Created(id)
         /\ \E uuid \in {receipts'[id].uuid, NoUuid} : Answers(p, uuid)
      \/ (Life!Failed(id) \/ Life!Unknown(id)) /\ Answers(p, NoUuid)
      \/ UNCHANGED service /\ Answers(p, NoUuid)
    BY <1>2 DEF Settles
<1>5. CASE /\ Life!Created(id)
           /\ \E uuid \in {receipts'[id].uuid, NoUuid} : Answers(p, uuid)
    <2>1. /\ ServiceOK' /\ Keeps /\ receipts'[id].uuid \in Uuids
          /\ Income(receipts'[id].uuid, id, receipts[id].amount) \in incomes'
        BY <1>5, CreatedServed DEF AdapterInv
    <2>2. PICK uuid \in Uuids \cup {NoUuid} :
            /\ Answers(p, uuid)
            /\ uuid = receipts'[id].uuid \/ uuid = NoUuid
        BY <1>5, <2>1
    <2>3. uuid # NoUuid =>
                Income(uuid, request[p].id, request[p].sent) \in incomes'
        BY <1>2, <1>3, <2>1, <2>2
    <2>4. SlotsOK'
        BY <1>1, <2>1, <2>2, <2>3, AnswersFit DEF AdapterInv
    <2> QED BY <1>1, <2>1, <2>4, ServedInv
<1>6. CASE Answers(p, NoUuid) /\ (Life!Failed(id) \/ Life!Unknown(id))
    <2>1. \E status \in {"failed", "unknown"} :
            Life!Move(id, status) /\ receipts[id].status = "creating"
        BY <1>6 DEF Life!Failed, Life!Unknown, Life!HasStatus
    <2>2. ServiceOK' /\ Keeps
        BY <2>1, MoveServed DEF AdapterInv
    <2>3. SlotsOK'
        BY <1>1, <1>6, <2>2, AnswersFit DEF AdapterInv
    <2> QED BY <1>1, <2>2, <2>3, ServedInv
<1>7. CASE Answers(p, NoUuid) /\ UNCHANGED service
    <2>1. ServiceOK' /\ Keeps
        BY <1>7, NothingServed DEF AdapterInv
    <2>2. SlotsOK'
        BY <1>1, <1>7, <2>1, AnswersFit DEF AdapterInv
    <2> QED BY <1>1, <2>1, <2>2, ServedInv
<1> QED BY <1>4, <1>5, <1>6, <1>7

LEMMA OthersInv ==
    ASSUME AdapterInv, NEW id \in Ids, FnsActs(id) \/ OthersCancel(id)
    PROVE  AdapterInv'
<1>1. UNCHANGED <<shm, cgi, request, changes, deaths>>
    BY DEF FnsActs, OthersCancel
<1>2. ServiceOK' /\ Keeps
    BY RegisterServed, CancelServed DEF FnsActs, OthersCancel, AdapterInv
<1>3. SlotsOK'
    BY <1>1, <1>2, SlotsStay DEF AdapterInv
<1> QED BY <1>1, <1>2, <1>3, ServedInv

(* A slot whose request is gone, or whose answer is being looked at.       *)
LEMMA ProcessInv ==
    ASSUME AdapterInv, NEW p \in Procs,
           Receives(p) \/ GivesUp(p) \/ Marks(p)
    PROVE  SlotsOK' /\ ServiceOK' /\ Keeps
<1>1. UNCHANGED service
    BY DEF Receives, GivesUp, Marks
<1>2. ServiceOK' /\ Keeps
    BY <1>1, NothingServed DEF AdapterInv
<1>3. /\ request[p] \in Requests \cup {NoRequest} /\ cgi[p] \in States
      /\ request \in [Procs -> Requests \cup {NoRequest}]
      /\ RequestFits(request[p], cgi[p]) /\ SlotsOK
    BY DEF AdapterInv, SlotsOK
<1>4. CASE cgi' = [cgi EXCEPT ![p] = "idle"]
    <2>1. \/ request' = [request EXCEPT ![p] = NoRequest]
          \/ request' = request /\ request[p].at # "answered"
        <3>1. cgi'[p] = "idle" /\ cgi \in [Procs -> States]
            BY <1>4 DEF AdapterInv, SlotsOK
        <3>2. CASE Receives(p)
            BY <3>1, <3>2 DEF Receives
        <3>3. CASE GivesUp(p) \/ Marks(p)
            BY <3>3 DEF GivesUp, Marks
        <3> QED BY <3>2, <3>3
    <2>2. CASE request' = [request EXCEPT ![p] = NoRequest]
        <3>1. request'[p] = NoRequest /\ cgi'[p] = "idle"
                => RequestFits(request[p], cgi[p])'
            BY RequestNone DEF RequestFits
        <3> QED BY <1>2, <1>3, <1>4, <2>2, <3>1, OneSlot DEF States
    <2>3. CASE request' = request /\ request[p].at # "answered"
        <3>1. request' = [request EXCEPT ![p] = request[p]]
            BY <1>3, <2>3
        <3>2. request'[p] = request[p] /\ cgi'[p] = "idle"
                => RequestFits(request[p], cgi[p])'
            BY <1>2, <1>3, <2>3, RequestIs DEF RequestFits, Keeps, Requests
        <3> QED BY <1>2, <1>3, <1>4, <3>1, <3>2, OneSlot DEF States
    <2> QED BY <2>1, <2>2, <2>3
<1>5. CASE cgi' = [cgi EXCEPT ![p] = "marking"]
    <2>1. /\ request' = request /\ request[p].at = "answered"
          /\ request[p].uuid # NoUuid
        BY <1>3, <1>5 DEF Receives, GivesUp, Marks, States, AdapterInv, SlotsOK
    <2>2. request' = [request EXCEPT ![p] = request[p]]
        BY <1>3, <2>1
    <2>3. request'[p] = request[p] /\ cgi'[p] = "marking"
            => RequestFits(request[p], cgi[p])'
        BY <1>2, <1>3, <2>1, RequestNone, RequestIs
           DEF RequestFits, Keeps, Requests
    <2> QED BY <1>2, <1>3, <1>5, <2>2, <2>3, OneSlot DEF States
<1>6. \/ cgi' = [cgi EXCEPT ![p] = "idle"]
      \/ cgi' = [cgi EXCEPT ![p] = "marking"]
    BY DEF Receives, GivesUp, Marks
<1> QED BY <1>2, <1>4, <1>5, <1>6

LEMMA MarksInv ==
    ASSUME AdapterInv, NEW p \in Procs, Marks(p) PROVE AdapterInv'
<1>1. /\ SlotsOK' /\ ServiceOK' /\ Keeps /\ incomes' = incomes
      /\ UNCHANGED <<details, changes, deaths>>
    BY ProcessInv DEF Marks, service
<1>2. /\ request[p] \in Requests /\ request[p].at = "answered"
      /\ request[p].uuid # NoUuid
      /\ RequestFits(request[p], cgi[p])
    BY RequestIs DEF Marks, AdapterInv, SlotsOK, RequestFits
<1>3. PICK pay \in Payments, uuid \in Uuids, sent \in Details, id \in Ids :
        /\ pay = request[p].pay /\ uuid = request[p].uuid
        /\ sent = request[p].sent /\ id = request[p].id
    BY <1>2 DEF Requests
<1>4. Income(uuid, id, sent) \in incomes /\ id = IdOf(pay)
    BY <1>2, <1>3, RequestNone DEF RequestFits
<1>5. /\ mark' = [mark EXCEPT ![pay] = uuid]
      /\ markedFor' = [markedFor EXCEPT ![pay] = sent]
    BY <1>3 DEF Marks
<1>6. /\ mark' \in [Payments -> Uuids \cup {NoUuid}]
      /\ markedFor' \in [Payments -> Details \cup {NotFiscal}]
      /\ \A x \in Payments :
            /\ mark'[x] = IF x = pay THEN uuid ELSE mark[x]
            /\ markedFor'[x] = IF x = pay THEN sent ELSE markedFor[x]
    BY <1>5 DEF AdapterInv, ShmOK
<1>7. \E i \in incomes : i.id.pay = pay /\ i.uuid = uuid /\ i.amount = sent
    <2> DEFINE i == Income(uuid, id, sent)
    <2>1. i.id.pay = pay /\ i.uuid = uuid /\ i.amount = sent
        BY <1>4 DEF Income, IdOf
    <2> QED BY <1>4, <2>1
<1>8. MarkIsItsReceipt'
    BY <1>1, <1>6, <1>7 DEF AdapterInv, ShmOK, MarkIsItsReceipt
<1> QED BY <1>1, <1>6, <1>8 DEF AdapterInv, ShmOK, BoundsOK

LEMMA PaymentChangesInv ==
    ASSUME AdapterInv, NEW pay \in Payments, PaymentChanges(pay)
    PROVE  AdapterInv'
<1>1. /\ UNCHANGED <<service, mark, markedFor, cgi, request, deaths>>
      /\ details' \in [Payments -> Details \cup {NotFiscal}]
    BY DEF PaymentChanges, AdapterInv, ShmOK
<1>2. ServiceOK' /\ Keeps
    BY <1>1, NothingServed DEF AdapterInv
<1>3. SlotsOK'
    BY <1>1, <1>2, SlotsStay DEF AdapterInv
<1>4. ShmOK'
    BY <1>1 DEF AdapterInv, ShmOK, MarkIsItsReceipt, service
<1>5. BoundsOK'
    BY <1>1, AdapterAssumption DEF PaymentChanges, AdapterInv, BoundsOK
<1> QED BY <1>2, <1>3, <1>4, <1>5 DEF AdapterInv

(* The requests die with the service, but for the answer a process has.    *)
LEMMA ServiceDiesInv ==
    ASSUME AdapterInv, ServiceDies PROVE AdapterInv'
<1>1. ServiceOK' /\ incomes' = incomes
    BY NothingServed, PowerLossServed DEF ServiceDies, AdapterInv, service
<1>2. ASSUME NEW p \in Procs
      PROVE  /\ request'[p] \in Requests \cup {NoRequest}
             /\ RequestFits(request[p], cgi[p])'
    <2>1. /\ request[p] \in Requests \cup {NoRequest} /\ cgi[p] \in States
          /\ RequestFits(request[p], cgi[p]) /\ cgi'[p] = cgi[p]
        BY DEF AdapterInv, SlotsOK, ServiceDies
    <2>2. CASE cgi[p] = "waiting"
        <3> DEFINE q == [request[p] EXCEPT !.at = "answered", !.uuid = NoUuid]
        <3>1. request'[p] = q
            BY <2>2 DEF ServiceDies
        <3>2. request[p] \in Requests
            BY <2>1, <2>2 DEF RequestFits
        <3>3. /\ q \in Requests /\ q.at = "answered" /\ q.uuid = NoUuid
              /\ q.id = request[p].id /\ q.pay = request[p].pay
            BY <3>2 DEF Requests
        <3> HIDE DEF q
        <3> QED BY <2>1, <2>2, <3>1, <3>2, <3>3, RequestNone DEF RequestFits
    <2>3. CASE cgi[p] = "marking"
        <3>1. request'[p] = request[p]
            BY <2>3 DEF ServiceDies
        <3> QED BY <1>1, <2>1, <2>3, <3>1 DEF RequestFits
    <2>4. CASE cgi[p] = "idle"
        <3>1. request'[p] = NoRequest
            BY <2>4 DEF ServiceDies
        <3> QED BY <2>1, <2>4, <3>1, RequestNone DEF RequestFits
    <2> QED BY <2>1, <2>2, <2>3, <2>4 DEF States
<1>3. SlotsOK'
    <2>1. request' = [p \in Procs |-> request'[p]]
        BY DEF ServiceDies
    <2>2. cgi' = cgi
        BY DEF ServiceDies
    <2> QED BY <1>2, <2>1, <2>2 DEF AdapterInv, SlotsOK
<1>4. ShmOK'
    BY <1>1, ShmStays DEF ServiceDies, AdapterInv
<1>5. BoundsOK'
    <2>1. deaths < MaxDeaths /\ deaths' = deaths + 1 /\ changes' = changes
        BY DEF ServiceDies
    <2> QED BY <2>1, AdapterAssumption DEF AdapterInv, BoundsOK
<1> QED BY <1>1, <1>3, <1>4, <1>5 DEF AdapterInv

-----------------------------------------------------------------------------
(* The theorems.                                                           *)
LEMMA AdapterInit == Init => AdapterInv
<1> SUFFICES ASSUME Init PROVE AdapterInv
    OBVIOUS
<1>1. /\ receipts = [id \in Ids |-> Life!NoReceipt]
      /\ incomes = {} /\ annulled = {} /\ rolledBack = {}
    BY DEF Init, Life!Init
<1>2. Life!NoReceipt \in Receipt /\ Life!NoReceipt.status = "none"
    BY DEF Life!NoReceipt, Receipt, Blank
<1>3. ServiceOK
    BY <1>1, <1>2
       DEF ServiceOK, ServiceType, IncomesKnown, ReceiptsTrue, RecordIsTrue,
           CreatedStatuses
<1>4. SlotsOK
    BY RequestNone DEF Init, SlotsOK, RequestFits, States
<1>5. ShmOK /\ BoundsOK
    BY AdapterAssumption DEF Init, ShmOK, BoundsOK, MarkIsItsReceipt
<1> QED BY <1>3, <1>4, <1>5 DEF AdapterInv

LEMMA AdapterStep == AdapterInv /\ [Next]_vars => AdapterInv'
<1> SUFFICES ASSUME AdapterInv, [Next]_vars PROVE AdapterInv'
    OBVIOUS
<1>1. CASE UNCHANGED vars
    <2>1. UNCHANGED <<service, shm, cgi, request, changes, deaths>>
        BY <1>1 DEF vars
    <2>2. ServiceOK' /\ Keeps
        BY <2>1, NothingServed DEF AdapterInv
    <2>3. SlotsOK'
        BY <2>1, <2>2, SlotsStay DEF AdapterInv
    <2> QED BY <2>1, <2>2, <2>3, ServedInv
<1>2. ASSUME NEW p \in Procs, NEW pay \in Payments, Posts(p, pay)
      PROVE  AdapterInv'
    BY <1>2, PostsInv
<1>3. ASSUME NEW p \in Procs, Serves(p) PROVE AdapterInv'
    BY <1>3, ReservesInv, ReserveFailsInv, AnswersFromRecordInv, SettlesInv
       DEF Serves
<1>4. ASSUME NEW p \in Procs, Receives(p) \/ GivesUp(p) PROVE AdapterInv'
    <2>1. UNCHANGED <<shm, changes, deaths>>
        BY <1>4 DEF Receives, GivesUp
    <2> QED BY <1>4, <2>1, ProcessInv, ServedInv
<1>5. ASSUME NEW p \in Procs, Marks(p) PROVE AdapterInv'
    BY <1>5, MarksInv
<1>6. ASSUME NEW id \in Ids, FnsActs(id) \/ OthersCancel(id)
      PROVE  AdapterInv'
    BY <1>6, OthersInv
<1>7. ASSUME NEW pay \in Payments, PaymentChanges(pay) PROVE AdapterInv'
    BY <1>7, PaymentChangesInv
<1>8. CASE ServiceDies
    BY <1>8, ServiceDiesInv
<1> QED BY <1>1, <1>2, <1>3, <1>4, <1>5, <1>6, <1>7, <1>8 DEF Next

LEMMA AdapterInvariance == Spec => []AdapterInv
BY AdapterInit, AdapterStep, PTL DEF Spec

(* The variables keep their types, for any number of payments, processes,  *)
(* edits and deaths of the service.                                        *)
THEOREM TypeCorrect == Spec => []TypeOK
<1>1. AdapterInv => TypeOK
    BY DEF AdapterInv, ServiceOK, ServiceType, SlotsOK, RequestFits, ShmOK,
           BoundsOK, States, TypeOK, Receipt, Blank, Pending, Made,
           CreatedStatuses
<1> QED BY <1>1, AdapterInvariance, PTL

(* A payment is declared to the FNS at most once, however its processes    *)
(* race, time out and are repeated and however it is edited.               *)
THEOREM DeclaredOnce == Spec => []OneIncomePerPayment
<1>1. AdapterInv => OneIncomePerPayment
    <2> SUFFICES ASSUME AdapterInv, NEW i \in incomes, NEW j \in incomes,
                        i.id.pay = j.id.pay
                 PROVE  i = j
        BY DEF OneIncomePerPayment
    <2>1. \A k \in incomes : k.id = IdOf(k.id.pay)
        BY DEF AdapterInv, ServiceOK, ServiceType, IncomesKnown, Reserved,
               ReceiptsTrue, RecordIsTrue
    <2>2. i.id = j.id
        BY <2>1
    <2> QED BY <2>2 DEF AdapterInv, ServiceOK, IncomesKnown
<1> QED BY <1>1, AdapterInvariance, PTL

(* A payment is marked with the receipt of its own income, declared with   *)
(* the data that the marking process had read.                             *)
THEOREM MarkedWithItsReceipt == Spec => []MarkIsItsReceipt
<1>1. AdapterInv => MarkIsItsReceipt
    BY DEF AdapterInv, ShmOK
<1> QED BY <1>1, AdapterInvariance, PTL
=============================================================================
