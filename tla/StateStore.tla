------------------------------ MODULE StateStore ------------------------------
(***************************************************************************)
(* internal/state: the receipts and the notification outbox in the state   *)
(* file, and the methods of Store that change them.                        *)
(*                                                                         *)
(* Each method of Store holds the mutex from its first read to its return, *)
(* so a method is one step. Every mutation clones the data, changes the    *)
(* clone and writes the whole file (mutateLocked): the methods below only  *)
(* differ in the clone they write and in the check they make before.       *)
(***************************************************************************)
EXTENDS StateFile

CONSTANTS
    Ids,        \* external ids
    Amounts,    \* receipt payloads (amount, service name, operation time)
    Uuids       \* receipt UUIDs the FNS hands out

CONSTANTS NoAmount, NoUuid

ASSUME StoreAssumption == NoAmount \notin Amounts /\ NoUuid \notin Uuids

Statuses == {"creating", "created", "failed", "unknown",
             "cancelling", "cancelled", "cancel_unknown"}

Record(status, amount, uuid) ==
    [status |-> status, amount |-> amount, uuid |-> uuid]

NoReceipt == Record("none", NoAmount, NoUuid)

ReceiptRecord ==
    [status: Statuses, amount: Amounts, uuid: Uuids \cup {NoUuid}]
        \cup {NoReceipt}

(* The outbox key is a hash of event type and external id: the pair.       *)
EventTypes == {"failed", "unknown"}

FileData ==
    [receipts: [Ids -> ReceiptRecord], outbox: SUBSET (Ids \X EventTypes)]

(* newFileData                                                             *)
NewFileData == [receipts |-> [id \in Ids |-> NoReceipt], outbox |-> {}]

-----------------------------------------------------------------------------
WithReceipt(data, id, record) ==
    [receipts |-> [data.receipts EXCEPT ![id] = record],
     outbox |-> data.outbox]

WithEvent(data, id, type) ==
    [receipts |-> data.receipts, outbox |-> data.outbox \cup {<<id, type>>}]

Exists(id) == mem.receipts[id] # NoReceipt

Status(id) == mem.receipts[id].status

(* PutReceipt: no check.                                                   *)
PutReceipt(id, record, w) == Persist(WithReceipt(mem, id, record), w)

(* ReserveReceipt, for an id without a record. A reservation whose         *)
(* durability is uncertain is reported as an error, like a failed one, but *)
(* the record is there. Mutant: an existing record is overwritten.         *)
ReserveReceiptUnchecked(id, record, w) ==
    Persist(WithReceipt(mem, id, record), w)

ReserveReceipt(id, record, w) ==
    /\ ~Exists(id)
    /\ Persist(WithReceipt(mem, id, record), w)

(* TransitionReceipt changes nothing unless the record has the expected    *)
(* status (ErrReceiptNotFound, ErrReceiptStatusMismatch). Mutant: any      *)
(* status will do.                                                         *)
CanTransitionFromAny(id, expected) == Exists(id)

CanTransition(id, expected) == Exists(id) /\ Status(id) = expected

TransitionReceipt(id, expected, record, w) ==
    IF CanTransition(id, expected)
    THEN Persist(WithReceipt(mem, id, record), w)
    ELSE UNCHANGED storeVars

(* TransitionReceiptWithEvent stores the record and the event in one       *)
(* write; an event already in the outbox is an error too. Mutant: the      *)
(* record alone is stored.                                                 *)
CanTransitionWithEvent(id, expected, type) ==
    CanTransition(id, expected) /\ <<id, type>> \notin mem.outbox

TransitionReceiptWithoutEvent(id, expected, record, type, w) ==
    IF CanTransitionWithEvent(id, expected, type)
    THEN Persist(WithReceipt(mem, id, record), w)
    ELSE UNCHANGED storeVars

TransitionReceiptWithEvent(id, expected, record, type, w) ==
    IF CanTransitionWithEvent(id, expected, type)
    THEN Persist(WithEvent(WithReceipt(mem, id, record), id, type), w)
    ELSE UNCHANGED storeVars

-----------------------------------------------------------------------------
StoreInit == FileInit(NewFileData)

StoreTypeOK ==
    /\ up \in BOOLEAN
    /\ mem \in FileData
    /\ disk \in FileData
    /\ survivors \in SUBSET FileData
=============================================================================
