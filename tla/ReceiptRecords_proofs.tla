----------------------- MODULE ReceiptRecords_proofs -----------------------
(***************************************************************************)
(* What the records of ReceiptService say is true: proofs that a record of *)
(* created stands for an income, that the outbox is that of the records,   *)
(* that an answered client has its income, that no receipt is left behind  *)
(* without a fault, and that a record only moves forward. They rest on Inv *)
(* and on RecordInv, which is inductive next to it.                        *)
(***************************************************************************)
EXTENDS ReceiptService_proofs

-----------------------------------------------------------------------------
(* The invariant.                                                          *)
HasIncome(id, record) ==
    [uuid |-> record.uuid, id |-> id, amount |-> record.amount] \in incomes

Succeeded(r) == pc[r] = "settling" /\ call[r].outcome = "ok"

(* What is on the wire of a handler is what it asked for and waits for.    *)
WireFits(r) ==
    /\ pc[r] \in {"read", "reread", "calling"} => wire[r] = NoRequest
    /\ pc[r] = "waiting" /\ wire[r] # NoRequest =>
            wire[r] = Request(call[r].op, call[r].id, call[r].record.amount,
                              call[r].record.uuid)

(* A handler that cancels, or was told of a success, knows an income, and  *)
(* one told that the cancellation succeeded an annulled one.               *)
CallFits(r) ==
    Active(r) =>
        /\ call[r].op = "cancel" \/ Succeeded(r) =>
                HasIncome(call[r].id, call[r].record)
        /\ call[r].op = "cancel" /\ Succeeded(r) =>
                call[r].record.uuid \in annulled

SlotFits(r) == WireFits(r) /\ CallFits(r)

SlotsFit == \A r \in Reqs : SlotFits(r)

(* StuckOnlyAfterFault of the file, also while the service is down.        *)
DiskTended ==
    \A id \in Ids : disk.receipts[id].status \in {"creating", "cancelling"} =>
        id \in Owned \cup orphaned \cup rolledBack

RecordInv ==
    /\ SlotsFit
    /\ RecordsMatchFns
    /\ OutboxMatchesReceipts
    /\ DiskTended
    /\ AckedIsRegistered
    /\ ConfirmedSurvives

-----------------------------------------------------------------------------
(* What the store writes, with the events of the outbox.                   *)
Candidate(id, record) ==
    [receipts |-> [mem.receipts EXCEPT ![id] = record],
     outbox |-> IF record.status \in EventTypes
                THEN mem.outbox \cup {<<id, record.status>>}
                ELSE mem.outbox]

(* The next record of an id in its life.                                   *)
MovesTo(id, record) ==
    /\ id \in Ids /\ record \in RealRecord
    /\ record.status \in NextStatuses[Status(id)]
    /\ Exists(id) => record.amount = mem.receipts[id].amount

(* A record that is true of the FNS.                                       *)
IsTrue(id, record) ==
    /\ record.status \in CreatedStatuses => HasIncome(id, record)
    /\ record.status = "cancelled" => record.uuid \in annulled

LEMMA CandidateReceipts ==
    ASSUME TypeInv, NEW id \in Ids, NEW record
    PROVE  \A i \in Ids :
                Candidate(id, record).receipts[i] =
                    IF i = id THEN record ELSE mem.receipts[i]
BY DEF Candidate, TypeInv, TypeOK, StoreTypeOK, FileData

LEMMA CandidateOutbox ==
    ASSUME NEW id, NEW record
    PROVE  Candidate(id, record).outbox =
                IF record.status \in EventTypes
                THEN mem.outbox \cup {<<id, record.status>>}
                ELSE mem.outbox
BY DEF Candidate

LEMMA PersistLeaves ==
    ASSUME MemoryIsCommitted, up, NEW candidate, NEW w \in WriteOutcomes,
           Persist(candidate, w)
    PROVE  /\ mem = disk /\ mem \in survivors
           /\ survivors' \subseteq survivors \cup {candidate}
           /\ Committed(w) => mem' = candidate /\ disk' = candidate
           /\ ~Committed(w) => UNCHANGED storeVars
           /\ w = "durable" => survivors' = {candidate}
BY DEF MemoryIsCommitted, Persist, WriteOutcomes, Committed, storeVars

(* How far the statuses go, for the status of any record.                  *)
LEMMA NextStatusesAre ==
    ASSUME NEW status \in Statuses \cup {"none"},
           NEW next \in NextStatuses[status]
    PROVE  /\ status = "none" <=> next = "creating"
           /\ status \notin EventTypes
           /\ status \in CreatedStatuses => next \in CreatedStatuses
           /\ next \in EventTypes => status = "creating"
           /\ next \in Statuses
BY DEF NextStatuses, Statuses, EventTypes, CreatedStatuses

LEMMA RecordStatus ==
    ASSUME NEW record \in ReceiptRecord
    PROVE  /\ record.status \in Statuses \cup {"none"}
           /\ record.status = "none" <=> record = NoReceipt
BY RealRecordType DEF RealRecord, Statuses

(* A write of the next record of an id, true of the FNS, keeps what the    *)
(* records and the outbox say.                                             *)
LEMMA StoredFits ==
    ASSUME Inv, RecordsMatchFns, OutboxMatchesReceipts, up,
           NEW id, NEW record, NEW w \in WriteOutcomes,
           Persist(Candidate(id, record), w), MovesTo(id, record),
           IsTrue(id, record), UNCHANGED <<incomes, annulled>>
    PROVE  RecordsMatchFns' /\ OutboxMatchesReceipts'
<1> DEFINE new == Candidate(id, record)
<1>1. TypeInv /\ MemoryIsCommitted /\ id \in Ids
    BY DEF Inv, MovesTo
<1>2. \A i \in Ids :
        new.receipts[i] = IF i = id THEN record ELSE mem.receipts[i]
    BY <1>1, CandidateReceipts
<1>3. new.outbox = IF record.status \in EventTypes
                   THEN mem.outbox \cup {<<id, record.status>>}
                   ELSE mem.outbox
    BY CandidateOutbox
<1>4. survivors' \subseteq survivors \cup {new} /\ mem \in survivors
    BY <1>1, PersistLeaves
<1> HIDE DEF new
<1>5. RecordsMatchFns'
    <2>1. \A i \in Ids : IsTrue(i, mem.receipts[i])
        BY <1>4 DEF RecordsMatchFns, IsTrue, HasIncome
    <2>2. \A i \in Ids : IsTrue(i, new.receipts[i])
        BY <1>2, <2>1
    <2> QED BY <1>4, <2>2 DEF RecordsMatchFns, IsTrue, HasIncome
<1>6. OutboxMatchesReceipts'
    <2>1. mem.outbox = { e \in Ids \X EventTypes :
                            mem.receipts[e[1]].status = e[2] }
        BY <1>4 DEF OutboxMatchesReceipts
    <2>2. mem.receipts[id].status \notin EventTypes
        <3>1. mem.receipts[id] \in ReceiptRecord
            BY <1>1, MemRecord
        <3> QED BY <3>1, RecordStatus, NextStatusesAre DEF MovesTo, Status
    <2>3. new.outbox = { e \in Ids \X EventTypes :
                            new.receipts[e[1]].status = e[2] }
        BY <1>1, <1>2, <1>3, <2>1, <2>2
    <2> QED BY <1>4, <2>3 DEF OutboxMatchesReceipts
<1> QED BY <1>5, <1>6

(* Such a write keeps every created record, and makes one if it says so.   *)
LEMMA StoredKeepsCreated ==
    ASSUME Inv, up, NEW id, NEW record, NEW w \in WriteOutcomes,
           Persist(Candidate(id, record), w), MovesTo(id, record),
           NEW i \in Ids,
           \A d \in survivors : d.receipts[i].status \in CreatedStatuses
    PROVE  \A d \in survivors' : d.receipts[i].status \in CreatedStatuses
<1> DEFINE new == Candidate(id, record)
<1>1. TypeInv /\ MemoryIsCommitted /\ id \in Ids
    BY DEF Inv, MovesTo
<1>2. new.receipts[i] = IF i = id THEN record ELSE mem.receipts[i]
    BY <1>1, CandidateReceipts
<1>3. survivors' \subseteq survivors \cup {new} /\ mem \in survivors
    BY <1>1, PersistLeaves
<1> HIDE DEF new
<1>4. mem.receipts[i].status \in CreatedStatuses
    BY <1>3
<1>5. new.receipts[i].status \in CreatedStatuses
    <2>1. CASE i = id
        <3>1. mem.receipts[id] \in ReceiptRecord
            BY <1>1, MemRecord
        <3> QED BY <1>2, <1>4, <2>1, <3>1, RecordStatus, NextStatusesAre
                DEF MovesTo, Status
    <2>2. CASE i # id
        BY <1>2, <1>4, <2>2
    <2> QED BY <2>1, <2>2
<1> QED BY <1>3, <1>5

(* A step that leaves only contents that might have been left before.      *)
LEMMA QuietStore ==
    ASSUME RecordInv, survivors' \subseteq survivors,
           incomes \subseteq incomes', annulled \subseteq annulled',
           UNCHANGED <<acked, confirmed>>
    PROVE  /\ RecordsMatchFns' /\ OutboxMatchesReceipts'
           /\ AckedIsRegistered' /\ ConfirmedSurvives'
<1>1. RecordsMatchFns'
    BY DEF RecordInv, RecordsMatchFns
<1>2. OutboxMatchesReceipts'
    BY DEF RecordInv, OutboxMatchesReceipts
<1>3. AckedIsRegistered' /\ ConfirmedSurvives'
    BY DEF RecordInv, AckedIsRegistered, ConfirmedSurvives
<1> QED BY <1>1, <1>2, <1>3

-----------------------------------------------------------------------------
(* The slots.                                                              *)
Others(r) ==
    \A s \in Reqs \ {r} :
        pc'[s] = pc[s] /\ call'[s] = call[s] /\ wire'[s] = wire[s]

LEMMA OneSlot ==
    ASSUME SlotsFit, NEW r \in Reqs, Others(r), SlotFits(r)',
           incomes \subseteq incomes', annulled \subseteq annulled'
    PROVE  SlotsFit'
<1> SUFFICES ASSUME NEW s \in Reqs, s # r PROVE SlotFits(s)'
    BY DEF SlotsFit
<1>1. /\ pc'[s] = pc[s] /\ call'[s] = call[s] /\ wire'[s] = wire[s]
      /\ SlotFits(s)
    BY DEF Others, SlotsFit
<1>2. WireFits(s)'
    BY <1>1 DEF SlotFits, WireFits
<1>3. CallFits(s)'
    BY <1>1 DEF SlotFits, CallFits, Active, Succeeded, HasIncome
<1> QED BY <1>2, <1>3 DEF SlotFits

LEMMA GotoOthers ==
    ASSUME TypeInv, NEW r \in Reqs, NEW label, NEW c, Goto(r, label, c),
           wire' = wire
    PROVE  Others(r) /\ pc'[r] = label /\ call'[r] = c
BY DEF Goto, Others, TypeInv, TypeOK

(* A slot that goes idle, or stays so, fits.                               *)
LEMMA IdleFits ==
    ASSUME NEW r, pc'[r] = "idle" PROVE SlotFits(r)'
BY DEF SlotFits, WireFits, CallFits, Active

(* Who was tended stays so when no slot drops its receipt.                 *)
LEMMA StaysTended ==
    ASSUME DiskTended, NEW r \in Reqs, Others(r), disk' = disk,
           Working(r) => Working(r)' /\ call'[r].id = call[r].id,
           UNCHANGED <<orphaned, rolledBack>>
    PROVE  DiskTended'
<1>1. Owned \subseteq Owned'
    BY DEF Owned, Working, Others
<1> QED BY <1>1 DEF DiskTended

(* Everyone is tended after the handler of one receipt left it, settled or *)
(* orphaned.                                                               *)
LEMMA SettledTended ==
    ASSUME Inv, DiskTended, up, NEW r \in Reqs, Others(r), Active(r),
           NEW record, NEW w \in WriteOutcomes,
           Persist(Candidate(call[r].id, record), w),
           record.status \notin {"creating", "cancelling"},
           Committed(w) \/ call[r].id \in orphaned',
           orphaned \subseteq orphaned', UNCHANGED rolledBack
    PROVE  DiskTended'
<1> DEFINE id == call[r].id
           new == Candidate(id, record)
<1>1. TypeInv /\ MemoryIsCommitted /\ id \in Ids
    BY ActiveCall DEF Inv
<1>2. Owned \subseteq Owned' \cup {id}
    BY DEF Owned, Working, Others
<1>3. /\ Committed(w) => disk' = new
      /\ ~Committed(w) => disk' = disk
      /\ mem = disk
    BY <1>1, PersistLeaves DEF storeVars
<1> HIDE DEF id
<1>4. \A i \in Ids :
        new.receipts[i] = IF i = id THEN record ELSE mem.receipts[i]
    BY <1>1, CandidateReceipts
<1> HIDE DEF new
<1>5. \A i \in Ids \ {id} : disk'.receipts[i] = disk.receipts[i]
    BY <1>3, <1>4
<1>6. Committed(w) => disk'.receipts[id] = record
    BY <1>1, <1>3, <1>4
<1> QED BY <1>1, <1>2, <1>5, <1>6 DEF DiskTended, id

-----------------------------------------------------------------------------
(* What the writing actions do, in the terms above.                        *)

(* The record a working handler stores at the end moves its receipt on,    *)
(* and the write is never refused.                                         *)
Settles(r, status, w) ==
    LET record == [call[r].record EXCEPT !.status = status] IN
    /\ Persist(Candidate(call[r].id, record), w)
    /\ MovesTo(call[r].id, record)

LEMMA WorkingStatus ==
    ASSUME Inv, NEW r \in Reqs, Working(r)
    PROVE  /\ Active(r) /\ up /\ TypeInv /\ MemoryIsCommitted
           /\ call[r].id \in Ids /\ Exists(call[r].id)
           /\ Status(call[r].id) = IF call[r].op = "create" THEN "creating"
                                   ELSE "cancelling"
<1>1. Active(r)
    BY DEF Working, Active
<1> QED BY <1>1, ActiveKnows DEF Inv, Exists, Status

(* Any status after that of its op is such a move.                         *)
LEMMA WorkingMoves ==
    ASSUME Inv, NEW r \in Reqs, Working(r), NEW status \in Statuses,
           status \in NextStatuses[IF call[r].op = "create" THEN "creating"
                                   ELSE "cancelling"]
    PROVE  MovesTo(call[r].id, [call[r].record EXCEPT !.status = status])
<1> DEFINE record == [call[r].record EXCEPT !.status = status]
<1>1. /\ Active(r) /\ TypeInv /\ call[r].id \in Ids
      /\ Status(call[r].id) = IF call[r].op = "create" THEN "creating"
                              ELSE "cancelling"
    BY WorkingStatus
<1>2. /\ record \in RealRecord /\ record.status = status
      /\ record.amount = call[r].record.amount
    BY <1>1, ActiveCall
<1>3. mem.receipts[call[r].id].amount = call[r].record.amount
    BY <1>1, ActiveKnows
<1> HIDE DEF record
<1>4. record.status \in NextStatuses[Status(call[r].id)]
    <2> DEFINE now == IF call[r].op = "create" THEN "creating"
                      ELSE "cancelling"
    <2>1. Status(call[r].id) = now /\ status \in NextStatuses[now]
        BY <1>1
    <2> HIDE DEF now
    <2> QED BY <1>2, <2>1
<1>5. MovesTo(call[r].id, record)
    BY <1>1, <1>2, <1>3, <1>4 DEF MovesTo
<1> QED BY <1>5 DEF record

LEMMA PutIsCandidate ==
    ASSUME NEW id, NEW record, record.status \notin EventTypes
    PROVE  WithReceipt(mem, id, record) = Candidate(id, record)
BY DEF WithReceipt, Candidate

LEMMA EventIsCandidate ==
    ASSUME NEW id, NEW record, record.status \in EventTypes
    PROVE  WithEvent(WithReceipt(mem, id, record), id, record.status) =
                Candidate(id, record)
BY DEF WithReceipt, WithEvent, Candidate

LEMMA CreateSucceedsStores ==
    ASSUME Inv, NEW r \in Reqs, NEW w \in WriteOutcomes, CreateSucceeds(r, w)
    PROVE  Working(r) /\ Settles(r, "created", w)
<1> DEFINE record == [call[r].record EXCEPT !.status = "created"]
<1>1. /\ Working(r) /\ call[r].op = "create"
      /\ PutReceipt(call[r].id, record, w)
    BY DEF CreateSucceeds, Working
<1>2. "created" \in NextStatuses["creating"] /\ "created" \in Statuses
    BY DEF NextStatuses, Statuses
<1>3. MovesTo(call[r].id, record)
    BY <1>1, <1>2, WorkingMoves
<1>4. record.status = "created"
    BY <1>1, <1>2, WorkingStatus, ActiveCall
<1>5. Persist(Candidate(call[r].id, record), w)
    <2> HIDE DEF record
    <2> QED BY <1>1, <1>4, PutIsCandidate DEF PutReceipt, EventTypes
<1> QED BY <1>1, <1>3, <1>5 DEF Settles

LEMMA CreateFailsStores ==
    ASSUME Inv, OutboxMatchesReceipts, NEW r \in Reqs,
           NEW w \in WriteOutcomes, CreateFails(r, w)
    PROVE  /\ Working(r) /\ Settles(r, call[r].outcome, w)
           /\ call[r].outcome \in EventTypes
           /\ CanTransitionWithEvent(call[r].id, "creating", call[r].outcome)
<1> DEFINE id == call[r].id
           status == call[r].outcome
           record == [call[r].record EXCEPT !.status = status]
<1>1. /\ Working(r) /\ call[r].op = "create"
      /\ TransitionReceiptWithEvent(id, "creating", record, status, w)
    BY DEF CreateFails, Working
<1>2. /\ Active(r) /\ TypeInv /\ id \in Ids /\ MemoryIsCommitted /\ up
      /\ CanTransition(id, "creating")
    BY <1>1, WorkingStatus DEF CanTransition
<1>3. status \in EventTypes /\ status \in Statuses
    BY <1>2, ActiveCall DEF CreateFails, Outcomes, EventTypes, Statuses
<1>4. record.status = status
    BY <1>2, <1>3, ActiveCall
<1>5. MovesTo(id, record)
    <2>1. status \in NextStatuses["creating"]
        BY <1>3 DEF NextStatuses, Statuses, EventTypes
    <2> QED BY <1>1, <1>3, <2>1, WorkingMoves
<1> HIDE DEF record, id, status
<1>6. CanTransitionWithEvent(id, "creating", status)
    <2>1. mem \in survivors
        BY <1>2 DEF MemoryIsCommitted
    <2>2. <<id, status>> \in mem.outbox => mem.receipts[id].status = status
        BY <2>1 DEF OutboxMatchesReceipts
    <2>3. mem.receipts[id].status = "creating" /\ status # "creating"
        BY <1>2, <1>3 DEF CanTransition, Status, EventTypes
    <2> QED BY <1>2, <2>2, <2>3 DEF CanTransitionWithEvent
<1>7. Persist(Candidate(id, record), w)
    BY <1>1, <1>3, <1>4, <1>6, EventIsCandidate
       DEF TransitionReceiptWithEvent
<1> QED BY <1>1, <1>3, <1>5, <1>6, <1>7 DEF Settles, record, id, status

LEMMA CancelSettlesStores ==
    ASSUME Inv, NEW r \in Reqs, NEW w \in WriteOutcomes, CancelSettles(r, w)
    PROVE  /\ Working(r) /\ Settles(r, CancelStatus(call[r].outcome), w)
           /\ CancelStatus(call[r].outcome)
                \in {"cancelled", "cancel_unknown", "created"}
           /\ CanTransition(call[r].id, "cancelling")
<1> DEFINE id == call[r].id
           status == CancelStatus(call[r].outcome)
           record == [call[r].record EXCEPT !.status = status]
<1>1. /\ Working(r) /\ call[r].op = "cancel"
      /\ TransitionReceipt(id, "cancelling", record, w)
    BY DEF CancelSettles, Working
<1>2. Active(r) /\ TypeInv /\ CanTransition(id, "cancelling")
    BY <1>1, WorkingStatus DEF CanTransition
<1>3. status \in {"cancelled", "cancel_unknown", "created"}
    BY <1>2, ActiveCall, CancelStatusType DEF CancelSettles
<1>4. status \in Statuses /\ status \in NextStatuses["cancelling"]
    BY <1>3 DEF NextStatuses, Statuses
<1>5. record.status = status
    BY <1>2, <1>4, ActiveCall
<1>6. MovesTo(id, record)
    BY <1>1, <1>4, WorkingMoves
<1> HIDE DEF record, id, status
<1>7. Persist(Candidate(id, record), w)
    BY <1>1, <1>2, <1>3, <1>5, PutIsCandidate
       DEF TransitionReceipt, EventTypes
<1> QED BY <1>1, <1>2, <1>3, <1>6, <1>7 DEF Settles, record, id, status

LEMMA CancelBeginsStores ==
    ASSUME Inv, NEW r \in Reqs, NEW w \in WriteOutcomes, CancelBegins(r, w)
    PROVE  /\ Active(r) /\ Settles(r, "cancelling", w)
           /\ Status(call[r].id) = "created"
<1> DEFINE id == call[r].id
           record == [call[r].record EXCEPT !.status = "cancelling"]
<1>1. /\ Active(r) /\ TypeInv
      /\ Exists(id) /\ Status(id) = "created"
      /\ Persist(WithReceipt(mem, id, record), w)
    BY DEF CancelBegins, Active, Inv, TransitionReceipt, CanTransition
<1>2. "cancelling" \in Statuses /\ "cancelling" \in NextStatuses["created"]
    BY DEF NextStatuses, Statuses
<1>3. /\ id \in Ids /\ record \in RealRecord
      /\ record.amount = call[r].record.amount
      /\ record.status = "cancelling"
    BY <1>1, <1>2, ActiveCall
<1>4. mem.receipts[id].amount = call[r].record.amount
    BY <1>1, ActiveKnows
<1> HIDE DEF record, id
<1>5. Persist(Candidate(id, record), w)
    BY <1>1, <1>3, PutIsCandidate DEF EventTypes
<1>6. MovesTo(id, record)
    BY <1>1, <1>2, <1>3, <1>4 DEF MovesTo
<1> QED BY <1>1, <1>5, <1>6 DEF Settles, record, id

LEMMA CreateReservesStores ==
    ASSUME Inv, NEW r \in Reqs, NEW id \in Ids, NEW amount \in Amounts,
           NEW w \in WriteOutcomes, CreateReserves(r, id, amount, w)
    PROVE  LET record == Record("creating", amount, NoUuid) IN
           /\ up /\ ~Active(r) /\ wire[r] = NoRequest
           /\ mem.receipts[id] = NoReceipt
           /\ record \in RealRecord /\ record.status = "creating"
           /\ record.amount = amount /\ record.uuid = NoUuid
           /\ Persist(Candidate(id, record), w) /\ MovesTo(id, record)
<1> DEFINE record == Record("creating", amount, NoUuid)
<1>1. /\ up /\ ~Active(r) /\ wire[r] = NoRequest
      /\ mem.receipts[id] = NoReceipt
      /\ Persist(WithReceipt(mem, id, record), w)
    BY DEF CreateReserves, Free, Active, ReserveReceipt, Exists
<1>2. /\ record \in RealRecord /\ record.status = "creating"
      /\ record.amount = amount /\ record.uuid = NoUuid
    BY DEF Record, RealRecord, Statuses
<1> HIDE DEF record
<1>3. Persist(Candidate(id, record), w)
    BY <1>1, <1>2, PutIsCandidate DEF EventTypes
<1>4. "creating" \in NextStatuses["none"]
    BY DEF NextStatuses
<1>5. MovesTo(id, record)
    BY <1>1, <1>2, <1>4, RealRecordType DEF MovesTo, Exists, Status
<1> QED BY <1>1, <1>2, <1>3, <1>5 DEF record

(* A new access token is stored with the receipts as they are.             *)
LEMMA TokenStores ==
    ASSUME Inv, NEW r \in Reqs, NEW w \in WriteOutcomes,
           SendsWithNewToken(r, w)
    PROVE  UNCHANGED <<mem, disk>> /\ survivors' \subseteq survivors
<1>1. up /\ MemoryIsCommitted /\ Persist(mem, w)
    <2>1. Working(r)
        BY DEF SendsWithNewToken, Working
    <2> QED BY <2>1, WorkingStatus DEF SendsWithNewToken
<1>2. mem = disk /\ mem \in survivors
    BY <1>1 DEF MemoryIsCommitted
<1> QED BY <1>1, <1>2 DEF Persist, WriteOutcomes

-----------------------------------------------------------------------------
(* RecordInv holds after every step. First the handlers that settle.       *)
LEMMA SettlesRecords ==
    ASSUME Inv, RecordInv, NEW r \in Reqs, Working(r), NEW status \in Statuses,
           NEW w \in WriteOutcomes, Settles(r, status, w), Reply(r),
           status \notin {"creating", "cancelling"},
           status \in CreatedStatuses => HasIncome(call[r].id, call[r].record),
           status = "cancelled" => call[r].record.uuid \in annulled,
           Committed(w) \/ call[r].id \in orphaned',
           orphaned \subseteq orphaned',
           UNCHANGED <<external, rolledBack>>
    PROVE  /\ SlotsFit' /\ RecordsMatchFns' /\ OutboxMatchesReceipts'
           /\ DiskTended'
           /\ \A i \in confirmed, d \in survivors' :
                d.receipts[i].status \in CreatedStatuses
           /\ w = "durable" => \A d \in survivors' :
                d.receipts[call[r].id].status = status
<1> DEFINE id == call[r].id
           record == [call[r].record EXCEPT !.status = status]
<1>1. /\ Active(r) /\ up /\ TypeInv /\ MemoryIsCommitted /\ id \in Ids
      /\ UNCHANGED <<wire, incomes, annulled, rolledBack>>
    BY WorkingStatus DEF external
<1>2. /\ record.status = status /\ record.uuid = call[r].record.uuid
      /\ record.amount = call[r].record.amount
    BY <1>1, ActiveCall
<1>3. Persist(Candidate(id, record), w) /\ MovesTo(id, record)
    BY DEF Settles
<1> HIDE DEF record
<1>4. IsTrue(id, record)
    BY <1>2 DEF IsTrue, HasIncome
<1>5. Others(r) /\ pc'[r] = "idle"
    BY <1>1, GotoOthers DEF Reply
<1>6. SlotsFit'
    <2>1. SlotFits(r)'
        BY <1>5, IdleFits
    <2> QED BY <1>1, <1>5, <2>1, OneSlot DEF RecordInv
<1>7. DiskTended'
    BY <1>1, <1>2, <1>3, <1>5, SettledTended DEF RecordInv
<1> HIDE DEF id
<1>8. RecordsMatchFns' /\ OutboxMatchesReceipts'
    BY <1>1, <1>3, <1>4, StoredFits DEF RecordInv
<1>9. \A i \in confirmed, d \in survivors' :
            d.receipts[i].status \in CreatedStatuses
    <2>1. confirmed \subseteq Ids
        BY <1>1 DEF TypeInv, TypeOK
    <2> QED BY <1>1, <1>3, <2>1, StoredKeepsCreated
            DEF RecordInv, ConfirmedSurvives
<1>10. w = "durable" => \A d \in survivors' : d.receipts[id].status = status
    <2>1. Candidate(id, record).receipts[id] = record
        BY <1>1, CandidateReceipts
    <2>2. w = "durable" => survivors' = {Candidate(id, record)}
        BY <1>1, <1>3, PersistLeaves
    <2> QED BY <1>2, <2>1, <2>2
<1> QED BY <1>6, <1>7, <1>8, <1>9, <1>10 DEF id

LEMMA CreateSucceedsRecords ==
    ASSUME Inv, RecordInv, NEW r \in Reqs, NEW w \in WriteOutcomes,
           CreateSucceeds(r, w)
    PROVE  RecordInv'
<1> DEFINE record == [call[r].record EXCEPT !.status = "created"]
<1>1. Working(r) /\ Settles(r, "created", w) /\ Active(r) /\ TypeInv
    BY CreateSucceedsStores, WorkingStatus
<1>2. HasIncome(call[r].id, call[r].record)
    <2>1. Succeeded(r) /\ CallFits(r)
        BY DEF CreateSucceeds, Succeeded, RecordInv, SlotsFit, SlotFits
    <2> QED BY <1>1, <2>1 DEF CallFits
<1>3. /\ Reply(r) /\ UNCHANGED <<external, rolledBack>>
      /\ Committed(w) \/ call[r].id \in orphaned'
      /\ orphaned \subseteq orphaned'
    BY DEF CreateSucceeds
<1>4. "created" \in Statuses /\ "created" \in CreatedStatuses
    BY DEF Statuses, CreatedStatuses
<1>5. /\ SlotsFit' /\ RecordsMatchFns' /\ OutboxMatchesReceipts'
      /\ DiskTended'
      /\ \A i \in confirmed, d \in survivors' :
            d.receipts[i].status \in CreatedStatuses
      /\ w = "durable" => \A d \in survivors' :
            d.receipts[call[r].id].status = "created"
    BY <1>1, <1>2, <1>3, <1>4, SettlesRecords
<1>6. AckedIsRegistered'
    <2>1. record.amount = call[r].record.amount
        BY <1>1, <1>4, ActiveCall
    <2>2. acked' \subseteq acked \cup {<<call[r].id, record.amount>>}
        BY DEF CreateSucceeds
    <2> HIDE DEF record
    <2>3. \E i \in incomes : i.id = call[r].id /\ i.amount = record.amount
        BY <1>2, <2>1 DEF HasIncome
    <2>4. incomes' = incomes
        BY <1>3 DEF external
    <2> QED BY <2>2, <2>3, <2>4 DEF RecordInv, AckedIsRegistered
<1>7. ConfirmedSurvives'
    <2>1. confirmed' = IF w = "durable" THEN confirmed \cup {call[r].id}
                       ELSE confirmed
        BY DEF CreateSucceeds
    <2> QED BY <1>4, <1>5, <2>1 DEF ConfirmedSurvives
<1> QED BY <1>5, <1>6, <1>7 DEF RecordInv

LEMMA CreateFailsRecords ==
    ASSUME Inv, RecordInv, NEW r \in Reqs, NEW w \in WriteOutcomes,
           CreateFails(r, w)
    PROVE  RecordInv'
<1> DEFINE status == call[r].outcome
<1>1. /\ Working(r) /\ Settles(r, status, w) /\ status \in EventTypes
      /\ CanTransitionWithEvent(call[r].id, "creating", status)
    BY CreateFailsStores DEF RecordInv
<1>2. status \in Statuses \ CreatedStatuses /\ status # "creating"
    BY <1>1 DEF EventTypes, Statuses, CreatedStatuses
<1>3. /\ Reply(r) /\ UNCHANGED <<external, rolledBack, acked, confirmed>>
      /\ Committed(w) \/ call[r].id \in orphaned'
      /\ orphaned \subseteq orphaned'
    BY <1>1 DEF CreateFails
<1> HIDE DEF status
<1>4. status # "cancelling" /\ status # "cancelled"
    BY <1>2 DEF CreatedStatuses
<1>5. /\ SlotsFit' /\ RecordsMatchFns' /\ OutboxMatchesReceipts'
      /\ DiskTended'
      /\ \A i \in confirmed, d \in survivors' :
            d.receipts[i].status \in CreatedStatuses
    BY <1>1, <1>2, <1>3, <1>4, SettlesRecords
<1>6. AckedIsRegistered' /\ ConfirmedSurvives'
    BY <1>3, <1>5 DEF external, RecordInv, AckedIsRegistered, ConfirmedSurvives
<1> QED BY <1>5, <1>6 DEF RecordInv

LEMMA CancelSettlesRecords ==
    ASSUME Inv, RecordInv, NEW r \in Reqs, NEW w \in WriteOutcomes,
           CancelSettles(r, w)
    PROVE  RecordInv'
<1> DEFINE status == CancelStatus(call[r].outcome)
<1>1. /\ Working(r) /\ Active(r) /\ TypeInv /\ Settles(r, status, w)
      /\ status \in {"cancelled", "cancel_unknown", "created"}
      /\ CanTransition(call[r].id, "cancelling")
    BY CancelSettlesStores, WorkingStatus
<1>2. status \in Statuses /\ status \notin {"creating", "cancelling"}
    BY <1>1 DEF Statuses
<1>3. /\ Reply(r) /\ UNCHANGED <<external, rolledBack, acked, confirmed>>
      /\ Committed(w) \/ call[r].id \in orphaned'
      /\ orphaned \subseteq orphaned'
    BY <1>1 DEF CancelSettles
<1>4. CallFits(r) /\ pc[r] = "settling" /\ call[r].op = "cancel"
    BY DEF CancelSettles, RecordInv, SlotsFit, SlotFits
<1>5. HasIncome(call[r].id, call[r].record)
    BY <1>1, <1>4 DEF CallFits
<1>6. status = "cancelled" => call[r].record.uuid \in annulled
    <2>1. status = "cancelled" => call[r].outcome = "ok"
        BY <1>1, <1>4, ActiveCall DEF CancelStatus, Outcomes
    <2> QED BY <1>1, <1>4, <2>1 DEF CallFits, Succeeded
<1> HIDE DEF status
<1>7. /\ SlotsFit' /\ RecordsMatchFns' /\ OutboxMatchesReceipts'
      /\ DiskTended'
      /\ \A i \in confirmed, d \in survivors' :
            d.receipts[i].status \in CreatedStatuses
    BY <1>1, <1>2, <1>3, <1>5, <1>6, SettlesRecords
<1>8. AckedIsRegistered' /\ ConfirmedSurvives'
    BY <1>3, <1>7 DEF external, RecordInv, AckedIsRegistered, ConfirmedSurvives
<1> QED BY <1>7, <1>8 DEF RecordInv

(* The handlers that begin.                                                *)
LEMMA CancelBeginsRecords ==
    ASSUME Inv, RecordInv, NEW r \in Reqs, NEW w \in WriteOutcomes,
           CancelBegins(r, w)
    PROVE  RecordInv'
<1> DEFINE id == call[r].id
           record == [call[r].record EXCEPT !.status = "cancelling"]
           c == Call("cancel", id, record, "none")
<1>1. /\ Active(r) /\ Settles(r, "cancelling", w) /\ TypeInv /\ up
      /\ Status(id) = "created" /\ MemoryIsCommitted
      /\ pc[r] = "read" /\ call[r].op = "cancel" /\ id \in Ids
    BY CancelBeginsStores, ActiveCall, ActiveKnows DEF Inv, CancelBegins
<1>2. /\ record \in RealRecord /\ record.status = "cancelling"
      /\ record.uuid = call[r].record.uuid
      /\ record.amount = call[r].record.amount
    <2>1. "cancelling" \in Statuses
        BY DEF Statuses
    <2> QED BY <1>1, <2>1, ActiveCall
<1>3. Persist(Candidate(id, record), w) /\ MovesTo(id, record)
    BY <1>1 DEF Settles
<1>4. /\ UNCHANGED <<wire, incomes, annulled, acked, confirmed, orphaned,
                     rolledBack>>
      /\ Committed(w) => Goto(r, "calling", c)
      /\ ~Committed(w) => Goto(r, "idle", NoCall)
    BY DEF CancelBegins, Reply, external, history
<1>5. c.op = "cancel" /\ c.id = id /\ c.record = record /\ c.outcome = "none"
    BY DEF Call
<1>6. HasIncome(id, call[r].record) /\ wire[r] = NoRequest
    BY <1>1 DEF RecordInv, SlotsFit, SlotFits, CallFits, WireFits
<1> HIDE DEF id, record, c
<1>7. IsTrue(id, record) /\ HasIncome(id, record)
    BY <1>2, <1>6 DEF IsTrue, HasIncome
<1>8. RecordsMatchFns' /\ OutboxMatchesReceipts'
    BY <1>1, <1>3, <1>4, <1>7, StoredFits DEF RecordInv
<1>9. ConfirmedSurvives'
    <2>1. confirmed \subseteq Ids /\ confirmed' = confirmed
        BY <1>1, <1>4 DEF TypeInv, TypeOK
    <2> QED BY <1>1, <1>3, <2>1, StoredKeepsCreated
            DEF RecordInv, ConfirmedSurvives
<1>10. Others(r)
    BY <1>1, <1>4, GotoOthers
<1>11. CASE Committed(w)
    <2>1. pc'[r] = "calling" /\ call'[r] = c /\ wire'[r] = NoRequest
        BY <1>1, <1>4, <1>6, <1>11, GotoOthers
    <2>2. SlotFits(r)'
        BY <1>4, <1>5, <1>7, <2>1
           DEF SlotFits, WireFits, CallFits, Succeeded, HasIncome
    <2>3. DiskTended'
        <3>1. Owned \subseteq Owned' /\ id \in Owned'
            BY <1>1, <1>5, <1>10, <2>1 DEF Owned, Working, Others
        <3>2. mem = disk /\ disk' = Candidate(id, record)
            BY <1>1, <1>3, <1>11, PersistLeaves
        <3>3. \A i \in Ids \ {id} : disk'.receipts[i] = disk.receipts[i]
            BY <1>1, <3>2, CandidateReceipts
        <3> QED BY <1>4, <3>1, <3>3 DEF RecordInv, DiskTended
    <2>4. SlotsFit'
        BY <1>4, <1>10, <2>2, OneSlot DEF RecordInv
    <2> QED BY <1>4, <1>8, <1>9, <2>3, <2>4
            DEF RecordInv, AckedIsRegistered
<1>12. CASE ~Committed(w)
    <2>1. pc'[r] = "idle"
        BY <1>1, <1>4, <1>12, GotoOthers
    <2>2. SlotsFit'
        BY <1>4, <1>10, <2>1, IdleFits, OneSlot DEF RecordInv
    <2>3. disk' = disk
        BY <1>1, <1>3, <1>12, PersistLeaves DEF storeVars
    <2>4. DiskTended'
        BY <1>1, <1>4, <1>10, <2>3, StaysTended DEF Working, RecordInv
    <2> QED BY <1>4, <1>8, <1>9, <2>2, <2>4
            DEF RecordInv, AckedIsRegistered
<1> QED BY <1>11, <1>12

LEMMA CreateReservesRecords ==
    ASSUME Inv, RecordInv, NEW r \in Reqs, NEW id \in Ids,
           NEW amount \in Amounts, NEW w \in WriteOutcomes,
           CreateReserves(r, id, amount, w)
    PROVE  RecordInv'
<1> DEFINE record == Record("creating", amount, NoUuid)
           c == Call("create", id, record, "none")
<1>1. /\ up /\ ~Active(r) /\ wire[r] = NoRequest /\ TypeInv
      /\ MemoryIsCommitted
      /\ record.status = "creating"
      /\ Persist(Candidate(id, record), w) /\ MovesTo(id, record)
    BY CreateReservesStores DEF Inv
<1>2. /\ UNCHANGED <<wire, incomes, annulled, acked, confirmed, rolledBack>>
      /\ w = "durable" => Goto(r, "calling", c) /\ orphaned' = orphaned
      /\ w # "durable" => UNCHANGED <<pc, call>>
      /\ w = "uncertain" => id \in orphaned'
      /\ orphaned \subseteq orphaned'
    BY DEF CreateReserves, external
<1>3. c.op = "create" /\ c.id = id /\ c.outcome = "none"
    BY DEF Call
<1> HIDE DEF record, c
<1>4. IsTrue(id, record)
    BY <1>1 DEF IsTrue, CreatedStatuses
<1>5. RecordsMatchFns' /\ OutboxMatchesReceipts'
    BY <1>1, <1>2, <1>4, StoredFits DEF RecordInv
<1>6. ConfirmedSurvives'
    <2>1. confirmed \subseteq Ids /\ confirmed' = confirmed
        BY <1>1, <1>2 DEF TypeInv, TypeOK
    <2> QED BY <1>1, <2>1, StoredKeepsCreated
            DEF RecordInv, ConfirmedSurvives
<1>7. /\ \A i \in Ids \ {id} : disk'.receipts[i] = disk.receipts[i]
      /\ ~Committed(w) => disk' = disk
    <2>1. /\ mem = disk
          /\ Committed(w) => disk' = Candidate(id, record)
          /\ ~Committed(w) => disk' = disk
        BY <1>1, PersistLeaves DEF storeVars
    <2> QED BY <1>1, <2>1, CandidateReceipts
<1>8. SlotsFit' /\ DiskTended'
    <2>1. CASE w = "durable"
        <3>1. Others(r) /\ pc'[r] = "calling" /\ call'[r] = c
            BY <1>1, <1>2, <2>1, GotoOthers
        <3>2. SlotFits(r)'
            BY <1>1, <1>2, <1>3, <3>1
               DEF SlotFits, WireFits, CallFits, Succeeded
        <3>3. Owned \subseteq Owned' /\ id \in Owned'
            BY <1>1, <1>3, <3>1 DEF Owned, Working, Others, Active
        <3>4. SlotsFit'
            BY <1>2, <3>1, <3>2, OneSlot DEF RecordInv
        <3>5. DiskTended'
            BY <1>2, <1>7, <3>3 DEF RecordInv, DiskTended
        <3> QED BY <3>4, <3>5
    <2>2. CASE w # "durable"
        <3>1. Others(r) /\ pc'[r] = "idle"
            BY <1>1, <1>2, <2>2 DEF Others, Active
        <3>2. SlotsFit'
            BY <1>2, <3>1, IdleFits, OneSlot DEF RecordInv
        <3>3. Owned' = Owned
            BY <1>2, <2>2 DEF Owned, Working
        <3>4. disk' = disk \/ id \in orphaned'
            BY <1>2, <1>7, <2>2 DEF WriteOutcomes, Committed
        <3>5. DiskTended'
            BY <1>2, <1>7, <3>3, <3>4 DEF RecordInv, DiskTended
        <3> QED BY <3>2, <3>5
    <2> QED BY <2>1, <2>2
<1> QED BY <1>2, <1>5, <1>6, <1>8 DEF RecordInv, AckedIsRegistered

(* Steps that leave the receipts as they are.                              *)
LEMMA QuietRecords ==
    ASSUME Inv, RecordInv, NEW r \in Reqs, Others(r), SlotFits(r)',
           Working(r) => Working(r)' /\ call'[r].id = call[r].id,
           disk' = disk, survivors' \subseteq survivors,
           UNCHANGED <<incomes, annulled, acked, confirmed, orphaned,
                       rolledBack>>
    PROVE  RecordInv'
<1>1. SlotsFit'
    BY OneSlot DEF RecordInv
<1>2. DiskTended'
    BY StaysTended DEF RecordInv
<1> QED BY <1>1, <1>2, QuietStore DEF RecordInv

LEMMA CreateAnsweredFromRecordRecords ==
    ASSUME Inv, RecordInv, NEW r \in Reqs, NEW id \in Ids,
           NEW amount \in Amounts, CreateAnsweredFromRecord(r, id, amount)
    PROVE  RecordInv'
<1>1. /\ UNCHANGED <<pc, call, wire, incomes, annulled, disk, survivors,
                     confirmed, orphaned, rolledBack>>
      /\ up
    BY DEF CreateAnsweredFromRecord, Free, external, storeVars
<1>2. SlotsFit'
    BY <1>1 DEF RecordInv, SlotsFit, SlotFits, WireFits, CallFits, Active,
                Succeeded, HasIncome
<1>3. DiskTended'
    BY <1>1 DEF RecordInv, DiskTended, Owned, Working
<1>4. /\ RecordsMatchFns' /\ OutboxMatchesReceipts' /\ ConfirmedSurvives'
    BY <1>1 DEF RecordInv, RecordsMatchFns, OutboxMatchesReceipts,
                ConfirmedSurvives
<1>5. AckedIsRegistered'
    <2>1. mem \in survivors
        BY <1>1 DEF Inv, MemoryIsCommitted
    <2>2. ASSUME mem.receipts[id].amount = amount,
                 mem.receipts[id].status \in {"created", "cancelled"}
          PROVE  \E i \in incomes : i.id = id /\ i.amount = amount
        BY <2>1, <2>2 DEF RecordInv, RecordsMatchFns, CreatedStatuses
    <2>3. \/ acked' = acked
          \/ /\ acked' = acked \cup {<<id, amount>>}
             /\ \E i \in incomes : i.id = id /\ i.amount = amount
        BY <2>2 DEF CreateAnsweredFromRecord, PayloadMatches
    <2> QED BY <1>1, <2>3 DEF RecordInv, AckedIsRegistered
<1> QED BY <1>2, <1>3, <1>4, <1>5 DEF RecordInv

LEMMA CancelReadsRecords ==
    ASSUME Inv, RecordInv, NEW r \in Reqs, NEW id \in Ids, CancelReads(r, id)
    PROVE  RecordInv'
<1> DEFINE record == mem.receipts[id]
           c == Call("cancel", id, record, "none")
<1>1. /\ up /\ pc[r] = "idle" /\ wire[r] = NoRequest
      /\ record.status = "created" /\ Goto(r, "read", c)
      /\ UNCHANGED <<wire, incomes, annulled, disk, survivors, acked,
                     confirmed, orphaned, rolledBack>>
    BY DEF CancelReads, Free, Status, external, history, storeVars
<1>2. HasIncome(id, record)
    <2>1. mem \in survivors
        BY <1>1 DEF Inv, MemoryIsCommitted
    <2> QED BY <1>1, <2>1
            DEF RecordInv, RecordsMatchFns, CreatedStatuses, HasIncome
<1>3. c.op = "cancel" /\ c.id = id /\ c.record = record /\ c.outcome = "none"
    BY DEF Call
<1> HIDE DEF c, record
<1>4. Others(r) /\ pc'[r] = "read" /\ call'[r] = c
    BY <1>1, GotoOthers DEF Inv
<1>5. SlotFits(r)'
    BY <1>1, <1>2, <1>3, <1>4
       DEF SlotFits, WireFits, CallFits, Succeeded, HasIncome
<1> QED BY <1>1, <1>4, <1>5, QuietRecords DEF Working

LEMMA CancelLosesRaceRecords ==
    ASSUME Inv, RecordInv, NEW r \in Reqs, CancelLosesRace(r)
    PROVE  RecordInv'
<1>1. /\ pc[r] = "read" /\ Goto(r, "reread", call[r])
      /\ UNCHANGED <<wire, incomes, annulled, disk, survivors, acked,
                     confirmed, orphaned, rolledBack>>
    BY DEF CancelLosesRace, external, history, storeVars
<1>2. Others(r) /\ pc'[r] = "reread" /\ call'[r] = call[r]
    BY <1>1, GotoOthers DEF Inv
<1>3. SlotFits(r)'
    BY <1>1, <1>2 DEF RecordInv, SlotsFit, SlotFits, WireFits, CallFits,
                      Active, Succeeded, HasIncome
<1> QED BY <1>1, <1>2, <1>3, QuietRecords DEF Working

LEMMA CancelRereadsRecords ==
    ASSUME Inv, RecordInv, NEW r \in Reqs, CancelRereads(r)
    PROVE  RecordInv'
<1>1. /\ pc[r] = "reread" /\ Goto(r, "idle", NoCall)
      /\ UNCHANGED <<wire, incomes, annulled, disk, survivors, acked,
                     confirmed, orphaned, rolledBack>>
    BY DEF CancelRereads, Reply, external, history, storeVars
<1>2. Others(r) /\ pc'[r] = "idle"
    BY <1>1, GotoOthers DEF Inv
<1> QED BY <1>1, <1>2, IdleFits, QuietRecords DEF Working

(* The request goes out, or the call is over without one.                  *)
LEMMA SendFits ==
    ASSUME Inv, RecordInv, NEW r \in Reqs, pc[r] = "calling", Send(r),
           UNCHANGED <<incomes, annulled>>
    PROVE  /\ Others(r) /\ SlotFits(r)'
           /\ Working(r)' /\ call'[r].id = call[r].id
<1>1. /\ pc'[r] = "waiting" /\ call' = call /\ Others(r)
      /\ wire'[r] = Request(call[r].op, call[r].id, call[r].record.amount,
                            call[r].record.uuid)
    BY DEF Send, Others, Inv, TypeInv, TypeOK
<1>2. CallFits(r) /\ Active(r)
    BY DEF RecordInv, SlotsFit, SlotFits, Active
<1>3. SlotFits(r)'
    BY <1>1, <1>2 DEF SlotFits, WireFits, CallFits, Active, Succeeded, HasIncome
<1> QED BY <1>1, <1>3 DEF Working

LEMMA SettleFits ==
    ASSUME Inv, RecordInv, NEW r \in Reqs, Active(r), NEW outcome,
           Settle(r, outcome), outcome # "ok",
           UNCHANGED <<wire, incomes, annulled>>
    PROVE  /\ Others(r) /\ SlotFits(r)'
           /\ Working(r)' /\ call'[r].id = call[r].id
<1> DEFINE c == Call(call[r].op, call[r].id, call[r].record, outcome)
<1>1. /\ c.op = call[r].op /\ c.id = call[r].id
      /\ c.record = call[r].record /\ c.outcome = outcome
    BY DEF Call
<1>2. Goto(r, "settling", c) /\ TypeInv
    BY DEF Settle, Inv
<1> HIDE DEF c
<1>3. Others(r) /\ pc'[r] = "settling" /\ call'[r] = c
    BY <1>2, GotoOthers
<1>4. CallFits(r)
    BY DEF RecordInv, SlotsFit, SlotFits
<1>5. SlotFits(r)'
    BY <1>1, <1>3, <1>4 DEF SlotFits, WireFits, CallFits, Succeeded, HasIncome
<1> QED BY <1>1, <1>3, <1>5 DEF Working

(* Only the absence of an error is a success.                              *)
LEMMA OutcomeOk ==
    ASSUME NEW e, e # NoError PROVE Outcome(e) # "ok"
BY DEF Outcome, ClassifyUpstream

LEMMA NoResponseFails ==
    ASSUME NEW op \in {"create", "cancel"},
           NEW failure \in {"timeout", "transport"}
    PROVE  CallError(op, NoResponse(failure)) # NoError
BY DEF CallError, IncomeError, CancelError, DoJSON, NoResponse, ApiError,
       NoError

LEMMA SendsWithCachedTokenRecords ==
    ASSUME Inv, RecordInv, NEW r \in Reqs, SendsWithCachedToken(r)
    PROVE  RecordInv'
<1>1. /\ pc[r] = "calling" /\ Send(r)
      /\ UNCHANGED <<incomes, annulled, disk, survivors, acked, confirmed,
                     orphaned, rolledBack>>
    BY DEF SendsWithCachedToken, storeVars
<1> QED BY <1>1, SendFits, QuietRecords

LEMMA SendsWithNewTokenRecords ==
    ASSUME Inv, RecordInv, NEW r \in Reqs, NEW w \in WriteOutcomes,
           SendsWithNewToken(r, w)
    PROVE  RecordInv'
<1>1. /\ pc[r] = "calling" /\ Active(r)
      /\ disk' = disk /\ survivors' \subseteq survivors
      /\ UNCHANGED <<incomes, annulled, acked, confirmed, orphaned,
                     rolledBack>>
    BY TokenStores DEF SendsWithNewToken, Active
<1>2. CASE w = "durable"
    BY <1>1, <1>2, SendFits, QuietRecords DEF SendsWithNewToken
<1>3. CASE w # "durable"
    <2>1. Settle(r, Outcome(PlainError)) /\ UNCHANGED wire
        BY <1>3 DEF SendsWithNewToken
    <2>2. PlainError # NoError
        BY DEF PlainError, NoError
    <2> QED BY <1>1, <2>1, <2>2, OutcomeOk, SettleFits, QuietRecords
<1> QED BY <1>2, <1>3

LEMMA TokenRefusedRecords ==
    ASSUME Inv, RecordInv, NEW r \in Reqs, TokenRefused(r)
    PROVE  RecordInv'
<1>1. /\ Active(r)
      /\ UNCHANGED <<wire, incomes, annulled, disk, survivors, acked,
                     confirmed, orphaned, rolledBack>>
      /\ \E e \in TokenErrors \ {NoError} : Settle(r, Outcome(e))
    BY DEF TokenRefused, Active, external, history, storeVars
<1> QED BY <1>1, OutcomeOk, SettleFits, QuietRecords

LEMMA GivesUpRecords ==
    ASSUME Inv, RecordInv, NEW r \in Reqs,
           NEW failure \in {"timeout", "transport"}, GivesUp(r, failure)
    PROVE  RecordInv'
<1>1. /\ Active(r) /\ call[r].op \in {"create", "cancel"}
      /\ UNCHANGED <<wire, incomes, annulled, disk, survivors, acked,
                     confirmed, orphaned, rolledBack>>
      /\ Settle(r, Outcome(CallError(call[r].op, NoResponse(failure))))
    BY ActiveCall
       DEF GivesUp, Active, external, history, storeVars, Inv
<1> QED BY <1>1, NoResponseFails, OutcomeOk, SettleFits, QuietRecords

(* The FNS. A refusal is no success, and neither is a 2xx answer to a      *)
(* create without the UUID.                                                *)
LEMMA RefusedIsNotOk ==
    ASSUME NEW op \in {"create", "cancel"}
    PROVE  "ok" \notin RefusedOutcomes[op]
<1>1. \A x \in RefusedAnswers : DoJSON(x) # NoError
    BY DEF RefusedAnswers, Response, DoJSON, ApiError, NoError, IsSuccess
<1>2. \A x \in EmptyAnswers : IncomeError(x) # NoError
    BY DEF EmptyAnswers, Response, DoJSON, IncomeError, ApiError, NoError,
           IsSuccess
<1>3. \A x \in RefusedAnswers :
        IncomeError(x) # NoError /\ CancelError(x) # NoError
    BY <1>1 DEF IncomeError, CancelError
<1>4. \A x \in IF op = "create" THEN RefusedAnswers \cup EmptyAnswers
               ELSE RefusedAnswers : CallError(op, x) # NoError
    BY <1>2, <1>3 DEF CallError
<1> QED BY <1>4, OutcomeOk DEF RefusedOutcomes, OutcomesOf

(* An answer that reaches its handler is that to its request.              *)
LEMMA AnsweredFits ==
    ASSUME Inv, RecordInv, NEW r \in Reqs, wire[r] # NoRequest,
           NEW uuid \in Uuids \cup {NoUuid}, NEW outcome,
           Answered(r, uuid, outcome), wire' = [wire EXCEPT ![r] = NoRequest],
           incomes \subseteq incomes', annulled \subseteq annulled',
           outcome = "ok" /\ wire[r].op = "create" =>
              [uuid |-> uuid, id |-> wire[r].id, amount |-> wire[r].amount]
                \in incomes',
           outcome = "ok" /\ wire[r].op = "cancel" =>
              wire[r].uuid \in annulled'
    PROVE  /\ Others(r) /\ SlotFits(r)'
           /\ Working(r) => Working(r)' /\ call'[r].id = call[r].id
<1>1. /\ wire'[r] = NoRequest
      /\ \A s \in Reqs \ {r} : wire'[s] = wire[s]
    BY DEF Inv, TypeInv, TypeOK
<1>2. SlotFits(r)
    BY DEF RecordInv, SlotsFit
<1>3. CASE outcome = "lost"
    <2>1. UNCHANGED <<pc, call>>
        BY <1>3 DEF Answered
    <2>2. Others(r) /\ WireFits(r)'
        BY <1>1, <2>1 DEF Others, WireFits
    <2>3. CallFits(r)'
        BY <1>2, <2>1 DEF SlotFits, CallFits, Active, Succeeded, HasIncome
    <2> QED BY <2>1, <2>2, <2>3 DEF SlotFits, Working
<1>4. CASE outcome # "lost"
    <2> DEFINE record == Record(call[r].record.status, call[r].record.amount,
                             IF outcome = "ok" /\ call[r].op = "create"
                             THEN uuid ELSE call[r].record.uuid)
               c == Call(call[r].op, call[r].id, record, outcome)
    <2>1. pc[r] = "waiting" /\ Active(r) /\ Goto(r, "settling", c)
        BY <1>4 DEF Answered, Active
    <2>2. /\ c.op = call[r].op /\ c.id = call[r].id
          /\ c.record = record /\ c.outcome = outcome
        BY DEF Call
    <2>3. /\ record.amount = call[r].record.amount
          /\ record.uuid = IF outcome = "ok" /\ call[r].op = "create"
                           THEN uuid ELSE call[r].record.uuid
        BY DEF Record
    <2>4. /\ wire[r].op = call[r].op /\ wire[r].id = call[r].id
          /\ wire[r].amount = call[r].record.amount
          /\ wire[r].uuid = call[r].record.uuid
          /\ call[r].op \in {"create", "cancel"}
        BY <1>2, <2>1, ActiveCall DEF SlotFits, WireFits, Request, Inv
    <2> HIDE DEF c, record
    <2>5. /\ pc'[r] = "settling" /\ call'[r] = c /\ Others(r)
        BY <1>1, <2>1 DEF Goto, Others, Inv, TypeInv, TypeOK
    <2>6. WireFits(r)'
        BY <2>5 DEF WireFits
    <2>7. CallFits(r)'
        <3>1. call[r].op = "cancel" => HasIncome(call[r].id, call[r].record)
            BY <1>2, <2>1 DEF SlotFits, CallFits
        <3>2. call[r].op = "cancel" =>
                    [uuid |-> c.record.uuid, id |-> c.id,
                     amount |-> c.record.amount] \in incomes'
            BY <2>2, <2>3, <3>1 DEF HasIncome
        <3>3. call[r].op = "create" /\ outcome = "ok" =>
                    [uuid |-> c.record.uuid, id |-> c.id,
                     amount |-> c.record.amount] \in incomes'
            BY <2>2, <2>3, <2>4 DEF HasIncome
        <3>4. call[r].op = "cancel" /\ outcome = "ok" =>
                    c.record.uuid \in annulled'
            BY <2>2, <2>3, <2>4
        <3> QED BY <2>2, <2>4, <2>5, <3>2, <3>3, <3>4
                DEF CallFits, Succeeded, HasIncome
    <2> QED BY <2>2, <2>5, <2>6, <2>7 DEF SlotFits, Working
<1> QED BY <1>3, <1>4

LEMMA FnsRecords ==
    ASSUME Inv, RecordInv, NEW r \in Reqs, Others(r), SlotFits(r)',
           Working(r) => Working(r)' /\ call'[r].id = call[r].id,
           incomes \subseteq incomes', annulled \subseteq annulled',
           UNCHANGED <<storeVars, history>>
    PROVE  RecordInv'
<1>1. UNCHANGED <<disk, survivors, acked, confirmed, orphaned, rolledBack>>
    BY DEF storeVars, history
<1>2. SlotsFit'
    BY OneSlot DEF RecordInv
<1>3. DiskTended'
    BY <1>1, StaysTended DEF RecordInv
<1> QED BY <1>1, <1>2, <1>3, QuietStore DEF RecordInv

LEMMA FnsRegistersRecords ==
    ASSUME Inv, RecordInv, NEW r \in Reqs, NEW uuid \in Uuids,
           FnsRegisters(r, uuid)
    PROVE  RecordInv'
<1>1. /\ wire[r].op = "create" /\ wire[r] # NoRequest
      /\ [uuid |-> uuid, id |-> wire[r].id, amount |-> wire[r].amount]
            \in incomes'
      /\ incomes \subseteq incomes' /\ annulled' = annulled
      /\ wire' = [wire EXCEPT ![r] = NoRequest]
      /\ UNCHANGED <<storeVars, history>>
      /\ \E outcome \in DoneOutcomes["create"] : Answered(r, uuid, outcome)
    BY NoRequestOp DEF FnsRegisters
<1>2. /\ Others(r) /\ SlotFits(r)'
      /\ Working(r) => Working(r)' /\ call'[r].id = call[r].id
    BY <1>1, AnsweredFits
<1> QED BY <1>1, <1>2, FnsRecords

LEMMA FnsAnnulsRecords ==
    ASSUME Inv, RecordInv, NEW r \in Reqs, FnsAnnuls(r)
    PROVE  RecordInv'
<1>1. /\ wire[r].op = "cancel" /\ wire[r] # NoRequest
      /\ wire[r].uuid \in annulled'
      /\ incomes' = incomes /\ annulled \subseteq annulled'
      /\ wire' = [wire EXCEPT ![r] = NoRequest]
      /\ UNCHANGED <<storeVars, history>>
      /\ \E outcome \in DoneOutcomes["cancel"] :
            Answered(r, wire[r].uuid, outcome)
    BY NoRequestOp DEF FnsAnnuls
<1>2. wire[r].uuid \in Uuids
    BY <1>1, WireType DEF Inv, Requests
<1>3. /\ Others(r) /\ SlotFits(r)'
      /\ Working(r) => Working(r)' /\ call'[r].id = call[r].id
    BY <1>1, <1>2, AnsweredFits
<1> QED BY <1>1, <1>3, FnsRecords

LEMMA FnsRefusesRecords ==
    ASSUME Inv, RecordInv, NEW r \in Reqs, FnsRefuses(r)
    PROVE  RecordInv'
<1>1. /\ wire[r] # NoRequest
      /\ incomes' = incomes /\ annulled' = annulled
      /\ wire' = [wire EXCEPT ![r] = NoRequest]
      /\ UNCHANGED <<storeVars, history>>
      /\ \E outcome \in RefusedOutcomes[wire[r].op] :
            Answered(r, wire[r].uuid, outcome)
    BY DEF FnsRefuses
<1>2. wire[r].uuid \in Uuids \cup {NoUuid} /\ wire[r].op \in {"create", "cancel"}
    BY <1>1, WireType DEF Inv, Requests
<1>3. \A outcome \in RefusedOutcomes[wire[r].op] : outcome # "ok"
    BY <1>2, RefusedIsNotOk
<1>4. /\ Others(r) /\ SlotFits(r)'
      /\ Working(r) => Working(r)' /\ call'[r].id = call[r].id
    BY <1>1, <1>2, <1>3, AnsweredFits
<1> QED BY <1>1, <1>4, FnsRecords

(* Deaths and restarts.                                                    *)
LEMMA DeathRecords ==
    ASSUME Inv, RecordInv, HandlersDie, survivors' \subseteq survivors,
           \A id \in Ids : disk'.receipts[id] = disk.receipts[id]
                            \/ id \in rolledBack',
           rolledBack \subseteq rolledBack'
    PROVE  RecordInv'
<1>1. /\ \A r \in Reqs : pc'[r] = "idle"
      /\ orphaned' = orphaned \cup Owned
      /\ UNCHANGED <<incomes, annulled, acked, confirmed>>
    BY DEF HandlersDie, external
<1>2. SlotsFit'
    BY <1>1, IdleFits DEF SlotsFit
<1>3. DiskTended'
    BY <1>1 DEF RecordInv, DiskTended
<1> QED BY <1>1, <1>2, <1>3, QuietStore DEF RecordInv

LEMMA CrashRecords ==
    ASSUME Inv, RecordInv, Crash
    PROVE  RecordInv'
BY DeathRecords DEF Crash, ProcessDies

LEMMA PowerLossRecords ==
    ASSUME Inv, RecordInv, PowerLoss
    PROVE  RecordInv'
<1>1. /\ HandlersDie /\ disk' \in survivors /\ survivors' = {disk'}
      /\ rolledBack' = rolledBack \cup
            { id \in Ids : disk'.receipts[id] # disk.receipts[id] }
    BY DEF PowerLoss, PowerFails
<1> QED BY <1>1, DeathRecords

LEMMA RestartRecords ==
    ASSUME Inv, RecordInv, Restart
    PROVE  RecordInv'
<1>1. UNCHANGED <<disk, survivors, pc, call, wire, incomes, annulled, acked,
                  confirmed, orphaned, rolledBack>>
    BY DEF Restart, Open, external, history
<1>2. SlotsFit'
    BY <1>1 DEF RecordInv, SlotsFit, SlotFits, WireFits, CallFits, Active,
                Succeeded, HasIncome
<1>3. DiskTended'
    BY <1>1 DEF RecordInv, DiskTended, Owned, Working
<1> QED BY <1>1, <1>2, <1>3, QuietStore DEF RecordInv

LEMMA RecordInit == Init => RecordInv
<1> SUFFICES ASSUME Init PROVE RecordInv
    OBVIOUS
<1>1. survivors = {NewFileData} /\ disk = NewFileData
    BY DEF Init, StoreInit, FileInit
<1>2. /\ \A id \in Ids : NewFileData.receipts[id].status = "none"
      /\ NewFileData.outbox = {}
    BY DEF NewFileData, NoReceipt, Record
<1>3. SlotsFit
    BY DEF Init, SlotsFit, SlotFits, WireFits, CallFits, Active
<1>4. RecordsMatchFns
    BY <1>1, <1>2 DEF RecordsMatchFns, CreatedStatuses
<1>5. OutboxMatchesReceipts
    BY <1>1, <1>2 DEF OutboxMatchesReceipts, EventTypes
<1>6. DiskTended
    BY <1>1, <1>2 DEF DiskTended
<1>7. AckedIsRegistered /\ ConfirmedSurvives
    BY DEF Init, AckedIsRegistered, ConfirmedSurvives
<1> QED BY <1>3, <1>4, <1>5, <1>6, <1>7 DEF RecordInv

LEMMA RecordStep == Inv /\ RecordInv /\ [Next]_vars => RecordInv'
<1> SUFFICES ASSUME Inv, RecordInv, [Next]_vars PROVE RecordInv'
    OBVIOUS
<1>1. ASSUME NEW r \in Reqs, HandlerStep(r) PROVE RecordInv'
    <2>1. CASE CreateSteps(r)
        BY <2>1, CreateSucceedsRecords, CreateFailsRecords DEF CreateSteps
    <2>2. CASE CancelSteps(r)
        BY <2>2, CancelBeginsRecords, CancelLosesRaceRecords,
           CancelRereadsRecords, CancelSettlesRecords
           DEF CancelSteps
    <2>3. CASE CallSteps(r)
        BY <2>3, SendsWithCachedTokenRecords, SendsWithNewTokenRecords,
           TokenRefusedRecords, GivesUpRecords
           DEF CallSteps
    <2> QED BY <1>1, <2>1, <2>2, <2>3 DEF HandlerStep
<1>2. ASSUME NEW r \in Reqs, ClientStep(r) PROVE RecordInv'
    BY <1>2, CreateReservesRecords, CreateAnsweredFromRecordRecords,
       CancelReadsRecords
       DEF ClientStep
<1>3. ASSUME NEW r \in Reqs, FnsStep(r) PROVE RecordInv'
    BY <1>3, FnsRegistersRecords, FnsAnnulsRecords, FnsRefusesRecords
       DEF FnsStep
<1>4. CASE Crash
    BY <1>4, CrashRecords
<1>5. CASE PowerLoss
    BY <1>5, PowerLossRecords
<1>6. CASE Restart
    BY <1>6, RestartRecords
<1>7. CASE UNCHANGED vars
    <2>1. UNCHANGED <<disk, survivors, pc, call, wire, incomes, annulled,
                      acked, confirmed, orphaned, rolledBack>>
        BY <1>7 DEF vars
    <2>2. SlotsFit'
        BY <2>1 DEF RecordInv, SlotsFit, SlotFits, WireFits, CallFits, Active,
                    Succeeded, HasIncome
    <2>3. DiskTended'
        BY <2>1 DEF RecordInv, DiskTended, Owned, Working
    <2> QED BY <2>1, <2>2, <2>3, QuietStore DEF RecordInv
<1> QED BY <1>1, <1>2, <1>3, <1>4, <1>5, <1>6, <1>7 DEF Next

LEMMA RecordInvariance == Spec => [](Inv /\ RecordInv)
<1>1. Init => Inv /\ RecordInv
    BY InvInit, RecordInit
<1>2. Inv /\ RecordInv /\ [Next]_vars => (Inv /\ RecordInv)'
    BY InvStep, RecordStep
<1> QED BY <1>1, <1>2, PTL DEF Spec

-----------------------------------------------------------------------------
(* The theorems.                                                           *)

(* A record of created, or of what comes after it, names an income the FNS *)
(* registered for the id and the payload, and cancelled an annulled one,   *)
(* in the file and in whatever a power loss may leave of it.               *)
THEOREM RecordsMatch == Spec => []RecordsMatchFns
<1>1. RecordInv => RecordsMatchFns
    BY DEF RecordInv
<1> QED BY <1>1, RecordInvariance, PTL

(* The outbox holds one event for each failed or unknown receipt and no    *)
(* other, through every crash, failed write and power loss.                *)
THEOREM OutboxMatches == Spec => []OutboxMatchesReceipts
<1>1. RecordInv => OutboxMatchesReceipts
    BY DEF RecordInv
<1> QED BY <1>1, RecordInvariance, PTL

(* A client that was answered 200 or 201 has an income of its payload.     *)
THEOREM AckedRegistered == Spec => []AckedIsRegistered
<1>1. RecordInv => AckedIsRegistered
    BY DEF RecordInv
<1> QED BY <1>1, RecordInvariance, PTL

(* A receipt answered with 201 is not lost to any power loss.              *)
THEOREM ConfirmedKept == Spec => []ConfirmedSurvives
<1>1. RecordInv => ConfirmedSurvives
    BY DEF RecordInv
<1> QED BY <1>1, RecordInvariance, PTL

(* A receipt is left in creating or cancelling with nobody working on it   *)
(* only by a fault of a write, of the process or of the host.              *)
THEOREM StuckAfterFault == Spec => []StuckOnlyAfterFault
<1>1. Inv /\ RecordInv => StuckOnlyAfterFault
    BY DEF Inv, MemoryIsCommitted, RecordInv, DiskTended,
           StuckOnlyAfterFault, Status
<1> QED BY <1>1, RecordInvariance, PTL

-----------------------------------------------------------------------------
(* What a step does to one record while the service runs.                  *)
MovesForward(id) ==
    LET old == disk.receipts[id]
        new == disk'.receipts[id] IN
    old # new =>
        /\ new.status \in NextStatuses[old.status]
        /\ old # NoReceipt => new.amount = old.amount

LEMMA StoredMovesForward ==
    ASSUME Inv, up, NEW id, NEW record, NEW w \in WriteOutcomes,
           Persist(Candidate(id, record), w), MovesTo(id, record)
    PROVE  \A i \in Ids : MovesForward(i)
<1>1. TypeInv /\ MemoryIsCommitted /\ id \in Ids
    BY DEF Inv, MovesTo
<1>2. /\ mem = disk
      /\ disk' = disk \/ disk' = Candidate(id, record)
    BY <1>1, PersistLeaves DEF storeVars
<1>3. \A i \in Ids : Candidate(id, record).receipts[i] =
                        IF i = id THEN record ELSE mem.receipts[i]
    BY <1>1, CandidateReceipts
<1> QED BY <1>2, <1>3 DEF MovesForward, MovesTo, Exists, Status

(* Every step of a handler keeps the file or moves one record on.          *)
LEMMA HandlersMoveForward ==
    ASSUME Inv, RecordInv, NEW r \in Reqs,
           HandlerStep(r) \/ ClientStep(r) \/ FnsStep(r)
    PROVE  \A i \in Ids : MovesForward(i)
<1>1. ASSUME disk' = disk PROVE \A i \in Ids : MovesForward(i)
    BY <1>1 DEF MovesForward
<1>2. ASSUME NEW status, NEW w \in WriteOutcomes, Active(r),
             Settles(r, status, w)
      PROVE  \A i \in Ids : MovesForward(i)
    BY <1>2, ActiveKnows, StoredMovesForward DEF Settles
<1>3. CASE CreateSteps(r)
    <2>1. OutboxMatchesReceipts
        BY DEF RecordInv
    <2> QED BY <1>2, <1>3, <2>1, CreateSucceedsStores, CreateFailsStores,
               WorkingStatus
            DEF CreateSteps
<1>4. CASE CancelSteps(r)
    <2>1. CancelLosesRace(r) \/ CancelRereads(r) => disk' = disk
        BY DEF CancelLosesRace, CancelRereads, storeVars
    <2> QED BY <1>1, <1>2, <1>4, <2>1, CancelBeginsStores,
               CancelSettlesStores, WorkingStatus
            DEF CancelSteps
<1>5. CASE CallSteps(r)
    <2>1. ASSUME NEW w \in WriteOutcomes, SendsWithNewToken(r, w)
          PROVE  disk' = disk
        BY <2>1, TokenStores
    <2> QED BY <1>1, <1>5, <2>1
            DEF CallSteps, SendsWithCachedToken, TokenRefused, GivesUp,
                storeVars
<1>6. CASE ClientStep(r)
    <2>1. ASSUME NEW id \in Ids, NEW amount \in Amounts,
                 NEW w \in WriteOutcomes, CreateReserves(r, id, amount, w)
          PROVE  \A i \in Ids : MovesForward(i)
        BY <2>1, CreateReservesStores, StoredMovesForward
    <2> QED BY <1>1, <1>6, <2>1
            DEF ClientStep, CreateAnsweredFromRecord, CancelReads, storeVars
<1>7. CASE FnsStep(r)
    BY <1>1, <1>7
       DEF FnsStep, FnsRegisters, FnsAnnuls, FnsRefuses, storeVars
<1> QED BY <1>3, <1>4, <1>5, <1>6, <1>7 DEF HandlerStep

(* While the service runs a receipt only moves forward through its life    *)
(* and keeps its payload: failed, unknown, cancelled and cancel_unknown    *)
(* are final. A power loss alone can take a receipt back.                  *)
THEOREM MoveForward == Spec => RecordsMoveForward
<1>1. Inv /\ RecordInv /\ [Next]_vars =>
        [up' => \A id \in Ids : MovesForward(id)]_disk
    <2> SUFFICES ASSUME Inv, RecordInv, Next, up', disk' # disk
                 PROVE  \A id \in Ids : MovesForward(id)
        BY DEF vars
    <2>1. ~Crash /\ ~PowerLoss /\ ~Restart
        BY DEF Crash, ProcessDies, PowerLoss, PowerFails, Restart, Open
    <2> QED BY <2>1, HandlersMoveForward DEF Next
<1>2. [][up' => \A id \in Ids : MovesForward(id)]_disk => RecordsMoveForward
    BY DEF RecordsMoveForward, MovesForward
<1> QED BY <1>1, <1>2, RecordInvariance, PTL DEF Spec
=============================================================================
