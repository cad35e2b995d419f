----------------------- MODULE ReceiptLifecycle_proofs -----------------------
(***************************************************************************)
(* Proofs that ReceiptService implements ReceiptLifecycle when the FNS     *)
(* never answers a success that cannot be read, and of what rests on that: *)
(* a failed receipt has no income, and a cancellation is not forgotten.    *)
(*                                                                         *)
(* Two more invariants do it. PastInv says how the contents that a power   *)
(* loss may leave lag behind the file; it needs no assumption. OpenInv     *)
(* says what the FNS did, or may still do, about a receipt; it needs       *)
(* readable answers.                                                       *)
(***************************************************************************)
EXTENDS ReceiptRecords_proofs

-----------------------------------------------------------------------------
(* What a power loss may leave.                                            *)

(* A receipt being created is creating for good, and has no UUID yet.      *)
Holding(r) ==
    Working(r) /\ call[r].op = "create" =>
        /\ \A d \in survivors : d.receipts[call[r].id].status = "creating"
        /\ ~Succeeded(r) => call[r].record.uuid = NoUuid

(* A cancellation on the wire is that of the income of its id.             *)
WireKnown(r) ==
    wire[r].op = "cancel" =>
        \E i \in incomes : i.uuid = wire[r].uuid /\ i.id = wire[r].id

PastSlots == \A r \in Reqs : Holding(r) /\ WireKnown(r)

(* Only a record that stands for an income has a UUID.                     *)
Shapes ==
    \A d \in survivors, id \in Ids :
        d.receipts[id].status \notin CreatedStatuses =>
            d.receipts[id].uuid = NoUuid

(* An older record of the same receipt.                                    *)
Behind(old, new) ==
    \/ old = new
    \/ /\ old.status \in Lifecycle!Earlier[new.status]
       /\ old.status # "none" => old.amount = new.amount

Lineage ==
    \A d \in survivors, id \in Ids : Behind(d.receipts[id], disk.receipts[id])

UuidsUnique == \A i, j \in incomes : i.uuid = j.uuid => i = j

AnnulledKnown == \A u \in annulled : \E i \in incomes : i.uuid = u

PastInv ==
    PastSlots /\ Shapes /\ Lineage /\ UuidsUnique /\ AnnulledKnown

-----------------------------------------------------------------------------
(* Records of one id that both stand for an income stand for the same one. *)
LEMMA OneRecord ==
    ASSUME AtMostOneIncome, NEW id, NEW a, NEW b,
           HasIncome(id, a), HasIncome(id, b)
    PROVE  a.uuid = b.uuid /\ a.amount = b.amount
<1> DEFINE i == [uuid |-> a.uuid, id |-> id, amount |-> a.amount]
           j == [uuid |-> b.uuid, id |-> id, amount |-> b.amount]
<1>1. i = j
    BY DEF HasIncome, AtMostOneIncome
<1>2. /\ i.uuid = a.uuid /\ i.amount = a.amount
      /\ j.uuid = b.uuid /\ j.amount = b.amount
    OBVIOUS
<1> HIDE DEF i, j
<1> QED BY <1>1, <1>2

LEMMA SameRecord ==
    ASSUME NEW a \in ReceiptRecord, NEW b \in ReceiptRecord,
           a.status = b.status, a.amount = b.amount, a.uuid = b.uuid
    PROVE  a = b
BY DEF ReceiptRecord, NoReceipt, Record

(* One move on from a status, what was earlier is earlier still, but for   *)
(* what moves back and forth, and for a receipt that was never reserved.   *)
LEMMA EarlierStill ==
    ASSUME NEW status \in Statuses \cup {"none"},
           NEW next \in NextStatuses[status],
           NEW past, past = status \/ past \in Lifecycle!Earlier[status]
    PROVE  \/ past \in Lifecycle!Earlier[next]
           \/ past = next /\ next \in CreatedStatuses
                          /\ past \in CreatedStatuses
           \/ past = "none" /\ status = "creating"
BY DEF NextStatuses, Statuses, Lifecycle!Earlier, CreatedStatuses

(* What a survivor has for an id has its type.                             *)
LEMMA SurvivorType ==
    ASSUME TypeInv, NEW d \in survivors, NEW id \in Ids
    PROVE  /\ d.receipts[id] \in ReceiptRecord
           /\ d.receipts[id].status \in Statuses \cup {"none"}
BY RecordStatus DEF TypeInv, TypeOK, StoreTypeOK, FileData

(* A write of the next record of an id.                                    *)
LEMMA StoredPast ==
    ASSUME Inv, RecordInv, Shapes, Lineage, up,
           NEW id, NEW record, NEW w \in WriteOutcomes,
           Persist(Candidate(id, record), w), MovesTo(id, record),
           record.status \in CreatedStatuses => HasIncome(id, record),
           record.status \notin CreatedStatuses => record.uuid = NoUuid,
           Status(id) = "creating" =>
                \A d \in survivors : d.receipts[id].status = "creating"
    PROVE  Shapes' /\ Lineage'
<1> DEFINE new == Candidate(id, record)
<1>1. /\ TypeInv /\ MemoryIsCommitted /\ AtMostOneIncome
      /\ id \in Ids /\ record \in RealRecord
    BY DEF Inv, MovesTo
<1>2. \A i \in Ids :
        new.receipts[i] = IF i = id THEN record ELSE mem.receipts[i]
    BY <1>1, CandidateReceipts
<1>3. /\ mem = disk /\ mem \in survivors
      /\ survivors' \subseteq survivors \cup {new}
      /\ Committed(w) => disk' = new
      /\ ~Committed(w) => UNCHANGED <<disk, survivors>>
    BY <1>1, PersistLeaves DEF storeVars
<1> HIDE DEF new
<1>4. Shapes'
    <2>1. \A i \in Ids : mem.receipts[i].status \notin CreatedStatuses =>
                            mem.receipts[i].uuid = NoUuid
        BY <1>3 DEF Shapes
    <2> QED BY <1>2, <1>3, <2>1 DEF Shapes
<1>5. ASSUME NEW d \in survivors PROVE Behind(d.receipts[id], record)
    <2> DEFINE past == d.receipts[id]
               old == mem.receipts[id]
    <2>1. Behind(past, old)
        BY <1>1, <1>3 DEF Lineage
    <2>2. past \in ReceiptRecord /\ old \in ReceiptRecord
        BY <1>1, <1>3, SurvivorType
    <2>3. /\ record.status \in NextStatuses[old.status]
          /\ old # NoReceipt => record.amount = old.amount
        BY DEF MovesTo, Exists, Status
    <2>4. ~(past.status = "none" /\ old.status = "creating")
        BY DEF Status
    <2>5. past.status \in CreatedStatuses => HasIncome(id, past)
        BY <1>1 DEF RecordInv, RecordsMatchFns, HasIncome
    <2> HIDE DEF past, old
    <2>6. past.status = old.status
            \/ past.status \in Lifecycle!Earlier[old.status]
        BY <2>1 DEF Behind
    <2>7. old.status \in Statuses \cup {"none"}
        BY <2>2, RecordStatus
    <2>8. ASSUME past.status \in Lifecycle!Earlier[record.status]
          PROVE  Behind(past, record)
        <3>1. past.status # "none" => past.amount = record.amount
            <4>1. past.status # "none" => old # NoReceipt
                <5>1. old.status = "none" => past.status = "none"
                    BY <2>6 DEF Lifecycle!Earlier
                <5> QED BY <5>1, RealRecordType
            <4>2. past.status # "none" => past.amount = old.amount
                BY <2>1 DEF Behind
            <4> QED BY <2>3, <4>1, <4>2
        <3> QED BY <2>8, <3>1 DEF Behind
    <2>9. ASSUME past.status = record.status,
                 record.status \in CreatedStatuses
          PROVE  Behind(past, record)
        <3>1. past.uuid = record.uuid /\ past.amount = record.amount
            BY <1>1, <2>5, <2>9, OneRecord
        <3>2. record \in ReceiptRecord
            BY <1>1, RealRecordType
        <3>3. past = record
            BY <2>2, <2>9, <3>1, <3>2, SameRecord
        <3> QED BY <3>3 DEF Behind
    <2>10. Behind(past, record)
        BY <2>3, <2>4, <2>6, <2>7, <2>8, <2>9, EarlierStill
    <2> QED BY <2>10 DEF past
<1>6. Lineage'
    <2>1. CASE Committed(w)
        <3>1. \A d \in survivors, i \in Ids :
                    Behind(d.receipts[i], new.receipts[i])
            <4>1. \A d \in survivors, i \in Ids :
                        Behind(d.receipts[i], mem.receipts[i])
                BY <1>3 DEF Lineage
            <4> QED BY <1>2, <1>5, <4>1
        <3>2. \A i \in Ids : Behind(new.receipts[i], new.receipts[i])
            BY DEF Behind
        <3> QED BY <1>3, <2>1, <3>1, <3>2 DEF Lineage
    <2>2. CASE ~Committed(w)
        BY <1>3, <2>2 DEF Lineage
    <2> QED BY <2>1, <2>2
<1> QED BY <1>4, <1>6

(* The survivors of one id change only by a write of that id.              *)
LEMMA StaysCreating ==
    ASSUME Inv, up, NEW id \in Ids, NEW record, NEW w \in WriteOutcomes,
           Persist(Candidate(id, record), w), NEW i \in Ids \ {id},
           \A d \in survivors : d.receipts[i].status = "creating"
    PROVE  \A d \in survivors' : d.receipts[i].status = "creating"
<1>1. Candidate(id, record).receipts[i] = mem.receipts[i]
    BY CandidateReceipts DEF Inv
<1>2. mem \in survivors /\ survivors' \subseteq survivors \cup {Candidate(id, record)}
    BY PersistLeaves DEF Inv
<1> QED BY <1>1, <1>2

(* What the other slots hold.                                              *)
LEMMA OneSlotPast ==
    ASSUME PastSlots, NEW r \in Reqs, Others(r), Holding(r)', WireKnown(r)',
           incomes \subseteq incomes',
           \A s \in Reqs \ {r} : Working(s) /\ call[s].op = "create" =>
                \A d \in survivors' : d.receipts[call[s].id].status = "creating"
    PROVE  PastSlots'
<1> SUFFICES ASSUME NEW s \in Reqs, s # r PROVE (Holding(s) /\ WireKnown(s))'
    BY DEF PastSlots
<1>1. /\ pc'[s] = pc[s] /\ call'[s] = call[s] /\ wire'[s] = wire[s]
      /\ Holding(s) /\ WireKnown(s)
    BY DEF Others, PastSlots
<1>2. Holding(s)'
    BY <1>1 DEF Holding, Working, Succeeded
<1>3. WireKnown(s)'
    BY <1>1 DEF WireKnown
<1> QED BY <1>2, <1>3

(* A step that stores the next record of an id nobody else works on.       *)
LEMMA StoringPast ==
    ASSUME Inv, RecordInv, PastInv, up, NEW r \in Reqs, Others(r),
           NEW id, NEW record, NEW w \in WriteOutcomes, NoOther(r, id),
           Persist(Candidate(id, record), w), MovesTo(id, record),
           record.status \in CreatedStatuses => HasIncome(id, record),
           record.status \notin CreatedStatuses => record.uuid = NoUuid,
           Status(id) = "creating" =>
                \A d \in survivors : d.receipts[id].status = "creating",
           Holding(r)', WireKnown(r)', UNCHANGED <<incomes, annulled>>
    PROVE  PastInv'
<1>1. Shapes' /\ Lineage'
    BY StoredPast DEF PastInv
<1>2. ASSUME NEW s \in Reqs \ {r}, Working(s), call[s].op = "create"
      PROVE  \A d \in survivors' : d.receipts[call[s].id].status = "creating"
    <2>1. /\ call[s].id \in Ids \ {id} /\ id \in Ids
          /\ \A d \in survivors : d.receipts[call[s].id].status = "creating"
        BY <1>2, WorkingStatus DEF NoOther, PastInv, PastSlots, Holding, MovesTo
    <2> DEFINE i == call[s].id
    <2> HIDE DEF i
    <2>2. \A d \in survivors' : d.receipts[i].status = "creating"
        BY <2>1, StaysCreating DEF i
    <2> QED BY <2>2 DEF i
<1>3. PastSlots'
    BY <1>2, OneSlotPast DEF PastInv
<1>4. UuidsUnique' /\ AnnulledKnown'
    BY DEF PastInv, UuidsUnique, AnnulledKnown
<1> QED BY <1>1, <1>3, <1>4 DEF PastInv

(* A step that leaves the receipts as they are.                            *)
LEMMA QuietPast ==
    ASSUME PastInv, NEW r \in Reqs, Others(r), Holding(r)', WireKnown(r)',
           disk' = disk, survivors' \subseteq survivors,
           UNCHANGED <<incomes, annulled>>
    PROVE  PastInv'
<1>1. Shapes' /\ Lineage'
    BY DEF PastInv, Shapes, Lineage
<1>2. PastSlots'
    BY OneSlotPast DEF PastInv, PastSlots, Holding
<1>3. UuidsUnique' /\ AnnulledKnown'
    BY DEF PastInv, UuidsUnique, AnnulledKnown
<1> QED BY <1>1, <1>2, <1>3 DEF PastInv

(* A creating handler that goes on, and has no UUID but by a success.      *)
LEMMA QuietHolding ==
    ASSUME PastInv, NEW r \in Reqs, survivors' \subseteq survivors,
           (Working(r) /\ call[r].op = "create")' =>
                /\ Working(r) /\ call[r].op = "create"
                /\ call'[r].id = call[r].id
                /\ \/ Succeeded(r)'
                   \/ /\ ~Succeeded(r)
                      /\ call'[r].record.uuid = call[r].record.uuid
    PROVE  Holding(r)'
BY DEF PastInv, PastSlots, Holding

LEMMA IdleHolds ==
    ASSUME NEW r \in Reqs, ~Working(r)' \/ call'[r].op # "create"
    PROVE  Holding(r)'
BY DEF Holding

LEMMA SameWire ==
    ASSUME PastInv, NEW r \in Reqs, wire'[r] = wire[r], incomes' = incomes
    PROVE  WireKnown(r)'
BY DEF PastInv, PastSlots, WireKnown

(* A handler that settles its receipt.                                     *)
LEMMA SettlesPast ==
    ASSUME Inv, RecordInv, PastInv, NEW r \in Reqs, Working(r),
           NEW status \in Statuses, NEW w \in WriteOutcomes,
           Settles(r, status, w), Reply(r), UNCHANGED external,
           status \in CreatedStatuses => HasIncome(call[r].id, call[r].record),
           status \notin CreatedStatuses =>
                call[r].op = "create" /\ ~Succeeded(r)
    PROVE  PastInv'
<1> DEFINE id == call[r].id
           record == [call[r].record EXCEPT !.status = status]
<1>1. /\ Active(r) /\ up /\ TypeInv
      /\ Status(id) = IF call[r].op = "create" THEN "creating" ELSE "cancelling"
      /\ UNCHANGED <<wire, incomes, annulled>>
    BY WorkingStatus DEF external
<1>2. /\ record.status = status /\ record.uuid = call[r].record.uuid
      /\ record.amount = call[r].record.amount
    BY <1>1, ActiveCall
<1>3. Persist(Candidate(id, record), w) /\ MovesTo(id, record)
    BY DEF Settles
<1> HIDE DEF record
<1>4. Others(r) /\ pc'[r] = "idle"
    BY <1>1, GotoOthers DEF Reply
<1>5. Holding(r)' /\ WireKnown(r)'
    BY <1>1, <1>4, IdleHolds, SameWire DEF Working
<1>6. /\ NoOther(r, id)
      /\ record.status \in CreatedStatuses => HasIncome(id, record)
      /\ record.status \notin CreatedStatuses => record.uuid = NoUuid
      /\ Status(id) = "creating" =>
            \A d \in survivors : d.receipts[id].status = "creating"
    <2>1. Holding(r)
        BY DEF PastInv, PastSlots
    <2> QED BY <1>1, <1>2, <2>1, ActiveKnows DEF Holding, HasIncome
<1> HIDE DEF id
<1> QED BY <1>1, <1>3, <1>4, <1>5, <1>6, StoringPast

(* What a handler that settles stores, for each outcome.                   *)
LEMMA CreateSucceedsKnows ==
    ASSUME Inv, RecordInv, NEW r \in Reqs, NEW w \in WriteOutcomes,
           CreateSucceeds(r, w)
    PROVE  /\ Working(r) /\ Settles(r, "created", w) /\ Reply(r)
           /\ UNCHANGED external
           /\ HasIncome(call[r].id, call[r].record)
           /\ "created" \in Statuses /\ "created" \in CreatedStatuses
<1>1. Succeeded(r) /\ Active(r) /\ CallFits(r)
    BY DEF CreateSucceeds, Succeeded, Active, RecordInv, SlotsFit, SlotFits
<1> QED BY <1>1, CreateSucceedsStores
        DEF CreateSucceeds, CallFits, Statuses, CreatedStatuses

LEMMA CreateFailsKnows ==
    ASSUME Inv, RecordInv, NEW r \in Reqs, NEW w \in WriteOutcomes,
           CreateFails(r, w)
    PROVE  /\ Working(r) /\ Settles(r, call[r].outcome, w) /\ Reply(r)
           /\ UNCHANGED external
           /\ call[r].op = "create" /\ ~Succeeded(r)
           /\ call[r].outcome \in EventTypes
           /\ call[r].outcome \in Statuses \ CreatedStatuses
<1>1. /\ Working(r) /\ Settles(r, call[r].outcome, w)
      /\ call[r].outcome \in EventTypes
    BY CreateFailsStores DEF RecordInv
<1>2. call[r].outcome \in Statuses \ CreatedStatuses
    BY <1>1 DEF EventTypes, Statuses, CreatedStatuses
<1> QED BY <1>1, <1>2 DEF CreateFails, Succeeded

LEMMA CancelSettlesKnows ==
    ASSUME Inv, RecordInv, NEW r \in Reqs, NEW w \in WriteOutcomes,
           CancelSettles(r, w)
    PROVE  /\ Working(r) /\ Settles(r, CancelStatus(call[r].outcome), w)
           /\ Reply(r) /\ UNCHANGED external /\ call[r].op = "cancel"
           /\ CancelStatus(call[r].outcome) \in Statuses \cap CreatedStatuses
           /\ HasIncome(call[r].id, call[r].record)
<1>1. /\ Working(r) /\ Settles(r, CancelStatus(call[r].outcome), w)
      /\ CancelStatus(call[r].outcome)
            \in {"cancelled", "cancel_unknown", "created"}
    BY CancelSettlesStores
<1>2. CancelStatus(call[r].outcome) \in Statuses \cap CreatedStatuses
    BY <1>1 DEF Statuses, CreatedStatuses
<1>3. CallFits(r) /\ Active(r) /\ call[r].op = "cancel"
    BY <1>1 DEF CancelSettles, Active, RecordInv, SlotsFit, SlotFits
<1> QED BY <1>1, <1>2, <1>3 DEF CancelSettles, CallFits

LEMMA CreateStepsPast ==
    ASSUME Inv, RecordInv, PastInv, NEW r \in Reqs, CreateSteps(r)
    PROVE  PastInv'
<1>1. ASSUME NEW w \in WriteOutcomes, CreateSucceeds(r, w) PROVE PastInv'
    BY <1>1, CreateSucceedsKnows, SettlesPast
<1>2. ASSUME NEW w \in WriteOutcomes, CreateFails(r, w) PROVE PastInv'
    BY <1>2, CreateFailsKnows, SettlesPast
<1> QED BY <1>1, <1>2 DEF CreateSteps

(* The beginning of a cancellation.                                        *)
LEMMA CancelBeginsKnows ==
    ASSUME Inv, RecordInv, NEW r \in Reqs, NEW w \in WriteOutcomes,
           CancelBegins(r, w)
    PROVE  LET id == call[r].id
               record == [call[r].record EXCEPT !.status = "cancelling"]
               c == Call("cancel", id, record, "none") IN
           /\ Active(r) /\ up /\ TypeInv /\ id \in Ids
           /\ Status(id) = "created" /\ NoOther(r, id)
           /\ Persist(Candidate(id, record), w) /\ MovesTo(id, record)
           /\ record.status = "cancelling"
           /\ record.uuid = call[r].record.uuid
           /\ record.amount = call[r].record.amount
           /\ HasIncome(id, call[r].record) /\ HasIncome(id, record)
           /\ Others(r) /\ wire[r] = NoRequest
           /\ UNCHANGED <<external, history>>
           /\ Committed(w) => pc'[r] = "calling" /\ call'[r] = c
           /\ ~Committed(w) => pc'[r] = "idle"
<1> DEFINE id == call[r].id
           record == [call[r].record EXCEPT !.status = "cancelling"]
           c == Call("cancel", id, record, "none")
<1>1. /\ Active(r) /\ up /\ TypeInv /\ id \in Ids
      /\ Status(id) = "created" /\ Settles(r, "cancelling", w)
      /\ pc[r] = "read" /\ call[r].op = "cancel"
    BY CancelBeginsStores, ActiveCall, ActiveKnows DEF Inv, CancelBegins
<1>2. /\ record.status = "cancelling" /\ record.uuid = call[r].record.uuid
      /\ record.amount = call[r].record.amount
    <2>1. "cancelling" \in Statuses
        BY DEF Statuses
    <2> QED BY <1>1, <2>1, ActiveCall
<1>3. Persist(Candidate(id, record), w) /\ MovesTo(id, record)
    BY <1>1 DEF Settles
<1>4. /\ UNCHANGED <<external, history>> /\ wire' = wire
      /\ Committed(w) => Goto(r, "calling", c)
      /\ ~Committed(w) => Goto(r, "idle", NoCall)
    BY DEF CancelBegins, Reply, external, history
<1> HIDE DEF record
<1>5. /\ HasIncome(id, call[r].record) /\ HasIncome(id, record)
      /\ wire[r] = NoRequest
    BY <1>1, <1>2
       DEF RecordInv, SlotsFit, SlotFits, CallFits, WireFits, HasIncome
<1>6. NoOther(r, id)
    <2>1. \A s \in Reqs : Working(s) =>
            Status(call[s].id) \in {"creating", "cancelling"}
        BY WorkingStatus
    <2> QED BY <1>1, <2>1 DEF NoOther
<1> HIDE DEF c
<1>7. /\ Others(r)
      /\ Committed(w) => pc'[r] = "calling" /\ call'[r] = c
      /\ ~Committed(w) => pc'[r] = "idle"
    BY <1>1, <1>4, GotoOthers
<1> QED BY <1>1, <1>2, <1>3, <1>4, <1>5, <1>6, <1>7 DEF record, c

LEMMA CancelBeginsPast ==
    ASSUME Inv, RecordInv, PastInv, NEW r \in Reqs, NEW w \in WriteOutcomes,
           CancelBegins(r, w)
    PROVE  PastInv'
<1> DEFINE id == call[r].id
           record == [call[r].record EXCEPT !.status = "cancelling"]
           c == Call("cancel", id, record, "none")
<1>1. /\ up /\ id \in Ids /\ Status(id) = "created" /\ NoOther(r, id)
      /\ Persist(Candidate(id, record), w) /\ MovesTo(id, record)
      /\ record.status = "cancelling" /\ HasIncome(id, record) /\ Others(r)
      /\ UNCHANGED <<external, history>>
      /\ Committed(w) => pc'[r] = "calling" /\ call'[r] = c
      /\ ~Committed(w) => pc'[r] = "idle"
    BY CancelBeginsKnows
<1>2. c.op = "cancel"
    BY DEF Call
<1> HIDE DEF id, record, c
<1>3. Holding(r)' /\ WireKnown(r)'
    BY <1>1, <1>2, IdleHolds, SameWire DEF Working, external
<1>4. record.status \in CreatedStatuses
    BY <1>1 DEF CreatedStatuses
<1> QED BY <1>1, <1>3, <1>4, StoringPast DEF external

LEMMA CreateReservesKnows ==
    ASSUME Inv, NEW r \in Reqs, NEW id \in Ids, NEW amount \in Amounts,
           NEW w \in WriteOutcomes, CreateReserves(r, id, amount, w)
    PROVE  LET record == Record("creating", amount, NoUuid)
               c == Call("create", id, record, "none") IN
           /\ up /\ TypeInv /\ NoOther(r, id) /\ ~Working(r)
           /\ wire[r] = NoRequest /\ mem.receipts[id] = NoReceipt
           /\ Status(id) = "none"
           /\ Persist(Candidate(id, record), w) /\ MovesTo(id, record)
           /\ record.status = "creating" /\ record.uuid = NoUuid
           /\ record.amount = amount
           /\ Others(r) /\ UNCHANGED <<external, rolledBack>>
           /\ w = "durable" => pc'[r] = "calling" /\ call'[r] = c
           /\ w # "durable" => UNCHANGED <<pc, call>>
<1> DEFINE record == Record("creating", amount, NoUuid)
           c == Call("create", id, record, "none")
<1>1. /\ up /\ ~Active(r) /\ wire[r] = NoRequest
      /\ mem.receipts[id] = NoReceipt
      /\ record.status = "creating" /\ record.uuid = NoUuid
      /\ record.amount = amount
      /\ Persist(Candidate(id, record), w) /\ MovesTo(id, record)
    BY CreateReservesStores
<1>2. /\ TypeInv /\ ~Working(r) /\ Status(id) = "none"
    BY <1>1 DEF Inv, Working, Active, Status, NoReceipt, Record
<1>3. NoOther(r, id)
    <2>1. \A s \in Reqs : Working(s) =>
            Status(call[s].id) \in {"creating", "cancelling"}
        BY WorkingStatus
    <2> QED BY <1>2, <2>1 DEF NoOther
<1>4. /\ UNCHANGED <<external, rolledBack>> /\ wire' = wire
      /\ w = "durable" => Goto(r, "calling", c)
      /\ w # "durable" => UNCHANGED <<pc, call>>
    BY DEF CreateReserves, external
<1> HIDE DEF record, c
<1>5. /\ Others(r)
      /\ w = "durable" => pc'[r] = "calling" /\ call'[r] = c
    <2>1. CASE w = "durable"
        BY <1>2, <1>4, <2>1, GotoOthers
    <2>2. CASE w # "durable"
        BY <1>4, <2>2 DEF Others
    <2> QED BY <2>1, <2>2
<1> QED BY <1>1, <1>2, <1>3, <1>4, <1>5 DEF record, c

LEMMA CreateReservesPast ==
    ASSUME Inv, RecordInv, PastInv, NEW r \in Reqs, NEW id \in Ids,
           NEW amount \in Amounts, NEW w \in WriteOutcomes,
           CreateReserves(r, id, amount, w)
    PROVE  PastInv'
<1> DEFINE record == Record("creating", amount, NoUuid)
           c == Call("create", id, record, "none")
<1>1. /\ up /\ TypeInv /\ NoOther(r, id) /\ ~Working(r) /\ Status(id) = "none"
      /\ Persist(Candidate(id, record), w) /\ MovesTo(id, record)
      /\ record.status = "creating" /\ record.uuid = NoUuid
      /\ Others(r) /\ UNCHANGED <<external, rolledBack>>
      /\ w = "durable" => pc'[r] = "calling" /\ call'[r] = c
      /\ w # "durable" => UNCHANGED <<pc, call>>
    BY CreateReservesKnows
<1>2. c.id = id /\ c.record = record
    BY DEF Call
<1> HIDE DEF record, c
<1>3. Holding(r)'
    <2>1. CASE w = "durable"
        <3>1. survivors' = {Candidate(id, record)}
            BY <1>1, <2>1, PersistLeaves DEF Inv
        <3>2. Candidate(id, record).receipts[id] = record
            BY <1>1, CandidateReceipts
        <3> QED BY <1>1, <1>2, <2>1, <3>1, <3>2 DEF Holding
    <2>2. CASE w # "durable"
        BY <1>1, <2>2, IdleHolds DEF Working
    <2> QED BY <2>1, <2>2
<1>4. WireKnown(r)'
    BY <1>1, SameWire DEF external
<1>5. record.status \notin CreatedStatuses
    BY <1>1 DEF CreatedStatuses
<1> QED BY <1>1, <1>3, <1>4, <1>5, StoringPast DEF external

-----------------------------------------------------------------------------
(* The other steps, by what they do to the receipts and the FNS.           *)

(* The receipts and what the FNS did stay as they are.                     *)
Quiet ==
    /\ disk' = disk /\ survivors' \subseteq survivors
    /\ UNCHANGED <<incomes, annulled, rolledBack>>

(* A request is read, or answered from what is stored.                     *)
Looks(r) ==
    /\ Quiet /\ Others(r) /\ wire' = wire
    /\ pc'[r] \in {"idle", "read", "reread"}

(* A call ends that was not answered: it was sent or it failed for sure.   *)
Ends(r) ==
    /\ Quiet /\ Others(r) /\ wire' = wire
    /\ pc[r] \in {"calling", "waiting"} /\ pc'[r] = "settling"
    /\ call'[r].op = call[r].op /\ call'[r].id = call[r].id
    /\ call'[r].record = call[r].record
    /\ call'[r].outcome \in {"failed", "unknown"}
    /\ call'[r].outcome = "failed" => pc[r] = "calling"

Sends(r) == Quiet /\ pc[r] = "calling" /\ Send(r)

Same ==
    UNCHANGED <<disk, survivors, pc, call, wire, incomes, annulled, rolledBack>>

Dies ==
    /\ HandlersDie /\ survivors' \subseteq survivors
    /\ \/ UNCHANGED <<disk, rolledBack>>
       \/ PowerLoss

LEMMA LookingSteps ==
    ASSUME Inv, NEW r \in Reqs,
           \/ \E id \in Ids : CancelReads(r, id)
           \/ CancelLosesRace(r) \/ CancelRereads(r)
    PROVE  Looks(r)
<1>1. Quiet /\ wire' = wire
    BY DEF Quiet, CancelReads, CancelLosesRace, CancelRereads, external,
           history, storeVars
<1>2. \E label \in {"idle", "read", "reread"} : \E c : Goto(r, label, c)
    BY DEF CancelReads, CancelLosesRace, CancelRereads, Reply
<1> QED BY <1>1, <1>2, GotoOthers DEF Looks, Inv

(* A timeout or a broken connection leaves the outcome unknown.            *)
LEMMA NoResponseIsUnknown ==
    ASSUME NEW op \in {"create", "cancel"},
           NEW failure \in {"timeout", "transport"}
    PROVE  Outcome(CallError(op, NoResponse(failure))) = "unknown"
<1> DEFINE e == CallError(op, NoResponse(failure))
<1>1. e = ApiError(0, failure)
    BY DEF CallError, IncomeError, CancelError, DoJSON, NoResponse, ApiError,
           NoError
<1> HIDE DEF e
<1>2. e # NoError
    BY <1>1 DEF ApiError, NoError
<1>3. UpstreamErrorCode(e) \in {"upstream_timeout", "upstream_transport"}
    BY <1>1 DEF UpstreamErrorCode, ApiError
<1> QED BY <1>2, <1>3 DEF Outcome, ClassifyUpstream, AmbiguousCodes, e

LEMMA SettleEnds ==
    ASSUME Inv, NEW r \in Reqs, pc[r] \in {"calling", "waiting"}, Quiet,
           NEW outcome \in {"failed", "unknown"}, Settle(r, outcome),
           outcome = "failed" => pc[r] = "calling", wire' = wire
    PROVE  Ends(r)
<1> DEFINE c == Call(call[r].op, call[r].id, call[r].record, outcome)
<1>1. /\ c.op = call[r].op /\ c.id = call[r].id
      /\ c.record = call[r].record /\ c.outcome = outcome
    BY DEF Call
<1>2. Goto(r, "settling", c) /\ TypeInv
    BY DEF Settle, Inv
<1> HIDE DEF c
<1>3. Others(r) /\ pc'[r] = "settling" /\ call'[r] = c
    BY <1>2, GotoOthers
<1> QED BY <1>1, <1>3 DEF Ends

LEMMA CallingSteps ==
    ASSUME Inv, NEW r \in Reqs, CallSteps(r)
    PROVE  Sends(r) \/ Ends(r)
<1>1. ASSUME NEW e, e # NoError PROVE Outcome(e) \in {"failed", "unknown"}
    BY <1>1, OutcomeOk, OutcomeType DEF Outcomes
<1>2. CASE SendsWithCachedToken(r)
    BY <1>2 DEF SendsWithCachedToken, Sends, Quiet, storeVars
<1>3. ASSUME NEW w \in WriteOutcomes, SendsWithNewToken(r, w)
      PROVE  Sends(r) \/ Ends(r)
    <2>1. Quiet /\ pc[r] = "calling"
        BY <1>3, TokenStores DEF SendsWithNewToken, Quiet
    <2>2. CASE w = "durable"
        BY <1>3, <2>1, <2>2 DEF SendsWithNewToken, Sends
    <2>3. CASE w # "durable"
        <3>1. Settle(r, Outcome(PlainError)) /\ wire' = wire
            BY <1>3, <2>3 DEF SendsWithNewToken
        <3>2. PlainError # NoError
            BY DEF PlainError, NoError
        <3> QED BY <1>1, <2>1, <3>1, <3>2, SettleEnds
    <2> QED BY <2>2, <2>3
<1>4. CASE TokenRefused(r)
    <2>1. /\ pc[r] = "calling" /\ Quiet /\ wire' = wire
          /\ \E e \in TokenErrors \ {NoError} : Settle(r, Outcome(e))
        BY <1>4 DEF TokenRefused, Quiet, external, history, storeVars
    <2> QED BY <1>1, <2>1, SettleEnds
<1>5. ASSUME NEW failure \in {"timeout", "transport"}, GivesUp(r, failure)
      PROVE  Ends(r)
    <2>1. /\ pc[r] = "waiting" /\ Quiet /\ wire' = wire
          /\ Settle(r, Outcome(CallError(call[r].op, NoResponse(failure))))
        BY <1>5 DEF GivesUp, Quiet, external, history, storeVars
    <2>2. call[r].op \in {"create", "cancel"}
        BY <2>1, ActiveCall DEF Active, Inv
    <2> QED BY <2>1, <2>2, NoResponseIsUnknown, SettleEnds
<1> QED BY <1>2, <1>3, <1>4, <1>5 DEF CallSteps

LEMMA StepKinds ==
    ASSUME Inv, [Next]_vars
    PROVE  \/ Same \/ Dies
           \/ \E r \in Reqs :
                \/ Looks(r) \/ Sends(r) \/ Ends(r) \/ FnsStep(r)
                \/ CreateSteps(r)
                \/ \E w \in WriteOutcomes :
                        CancelBegins(r, w) \/ CancelSettles(r, w)
                \/ \E id \in Ids, amount \in Amounts, w \in WriteOutcomes :
                        CreateReserves(r, id, amount, w)
<1>1. UNCHANGED vars \/ Restart => Same
    BY DEF vars, Restart, Open, Same, external, history
<1>2. Crash \/ PowerLoss => Dies
    BY DEF Crash, ProcessDies, PowerLoss, PowerFails, Dies
<1>3. ASSUME NEW r \in Reqs, HandlerStep(r)
      PROVE  \/ Looks(r) \/ Sends(r) \/ Ends(r) \/ CreateSteps(r)
             \/ \E w \in WriteOutcomes :
                    CancelBegins(r, w) \/ CancelSettles(r, w)
    BY <1>3, LookingSteps, CallingSteps DEF HandlerStep, CancelSteps
<1>4. ASSUME NEW r \in Reqs, ClientStep(r)
      PROVE  \/ Looks(r) \/ Same
             \/ \E id \in Ids, amount \in Amounts, w \in WriteOutcomes :
                    CreateReserves(r, id, amount, w)
    <2>1. ASSUME NEW id \in Ids, NEW amount \in Amounts,
                 CreateAnsweredFromRecord(r, id, amount)
          PROVE  Same
        BY <2>1 DEF CreateAnsweredFromRecord, Same, storeVars, external
    <2> QED BY <1>4, <2>1, LookingSteps DEF ClientStep
<1> QED BY <1>1, <1>2, <1>3, <1>4 DEF Next

(* An answer, which the handler sees if it still waits for it.             *)
AnswerArrives(r, outcome) ==
    /\ pc[r] = "waiting" /\ pc'[r] = "settling"
    /\ call'[r].op = call[r].op /\ call'[r].id = call[r].id
    /\ call'[r].outcome = outcome
    /\ outcome # "ok" => call'[r].record.uuid = call[r].record.uuid
    /\ wire[r].op = call[r].op /\ wire[r].id = call[r].id
    /\ wire[r].uuid = call[r].record.uuid

LEMMA AnsweredIs ==
    ASSUME Inv, RecordInv, NEW r \in Reqs, wire[r] # NoRequest,
           NEW uuid, NEW outcome, Answered(r, uuid, outcome),
           wire' = [wire EXCEPT ![r] = NoRequest]
    PROVE  /\ Others(r) /\ wire'[r] = NoRequest
           /\ \/ AnswerArrives(r, outcome)
              \/ pc'[r] = pc[r] /\ call'[r] = call[r]
<1>1. /\ wire'[r] = NoRequest
      /\ \A s \in Reqs \ {r} : wire'[s] = wire[s]
    BY DEF Inv, TypeInv, TypeOK
<1>2. CASE outcome = "lost"
    BY <1>1, <1>2 DEF Answered, Others
<1>3. CASE outcome # "lost"
    <2> DEFINE record == Record(call[r].record.status, call[r].record.amount,
                             IF outcome = "ok" /\ call[r].op = "create"
                             THEN uuid ELSE call[r].record.uuid)
               c == Call(call[r].op, call[r].id, record, outcome)
    <2>1. pc[r] = "waiting" /\ Goto(r, "settling", c)
        BY <1>3 DEF Answered
    <2>2. /\ c.op = call[r].op /\ c.id = call[r].id
          /\ c.record = record /\ c.outcome = outcome
        BY DEF Call
    <2>3. outcome # "ok" => record.uuid = call[r].record.uuid
        BY DEF Record
    <2>4. /\ wire[r].op = call[r].op /\ wire[r].id = call[r].id
          /\ wire[r].uuid = call[r].record.uuid
        <3>1. wire[r] = Request(call[r].op, call[r].id, call[r].record.amount,
                                call[r].record.uuid)
            BY <2>1 DEF RecordInv, SlotsFit, SlotFits, WireFits
        <3> QED BY <3>1 DEF Request
    <2> HIDE DEF c, record
    <2>5. pc'[r] = "settling" /\ call'[r] = c /\ Others(r)
        BY <1>1, <2>1 DEF Goto, Others, Inv, TypeInv, TypeOK
    <2> QED BY <1>1, <2>1, <2>2, <2>3, <2>4, <2>5 DEF AnswerArrives
<1> QED BY <1>2, <1>3

(* The three things the FNS may do with a request.                         *)
Registers(r, uuid) ==
    /\ wire[r].op = "create" /\ uuid \in Uuids
    /\ \A i \in incomes : i.uuid # uuid
    /\ incomes' = incomes \cup
            {[uuid |-> uuid, id |-> wire[r].id, amount |-> wire[r].amount]}
    /\ annulled' = annulled

Annuls(r) ==
    /\ wire[r].op = "cancel" /\ incomes' = incomes
    /\ annulled' = annulled \cup {wire[r].uuid}

Refuses == UNCHANGED <<incomes, annulled>>

FnsOutcomes(r) ==
    \/ \E uuid \in Uuids : Registers(r, uuid)
    \/ Annuls(r)

LEMMA FnsStepsAre ==
    ASSUME Inv, RecordInv, NEW r \in Reqs, FnsStep(r)
    PROVE  /\ UNCHANGED <<disk, survivors, rolledBack>>
           /\ wire[r] \in Requests /\ Others(r) /\ wire'[r] = NoRequest
           /\ \E outcome :
                /\ \/ AnswerArrives(r, outcome)
                   \/ pc'[r] = pc[r] /\ call'[r] = call[r]
                /\ \/ /\ FnsOutcomes(r)
                      /\ outcome \in DoneOutcomes[wire[r].op]
                   \/ /\ Refuses
                      /\ outcome # "ok"
<1>1. /\ wire[r] # NoRequest /\ wire' = [wire EXCEPT ![r] = NoRequest]
      /\ UNCHANGED <<disk, survivors, rolledBack>>
    BY NoRequestOp
       DEF FnsStep, FnsRegisters, FnsAnnuls, FnsRefuses, storeVars, history
<1>2. wire[r] \in Requests /\ wire[r].op \in {"create", "cancel"}
    BY <1>1, WireType DEF Inv, Requests
<1>3. \E outcome, uuid :
        /\ Answered(r, uuid, outcome)
        /\ \/ FnsOutcomes(r) /\ outcome \in DoneOutcomes[wire[r].op]
           \/ Refuses /\ outcome # "ok"
    <2>1. ASSUME NEW uuid \in Uuids, FnsRegisters(r, uuid)
          PROVE  FnsOutcomes(r) /\ \E outcome \in DoneOutcomes[wire[r].op] :
                                        Answered(r, uuid, outcome)
        BY <2>1 DEF FnsRegisters, FnsOutcomes, Registers
    <2>2. ASSUME FnsAnnuls(r)
          PROVE  FnsOutcomes(r) /\ \E outcome \in DoneOutcomes[wire[r].op] :
                                        Answered(r, wire[r].uuid, outcome)
        BY <2>2 DEF FnsAnnuls, FnsOutcomes, Annuls
    <2>3. ASSUME FnsRefuses(r)
          PROVE  Refuses /\ \E outcome : outcome # "ok"
                                /\ Answered(r, wire[r].uuid, outcome)
        BY <1>2, <2>3, RefusedIsNotOk DEF FnsRefuses, Refuses
    <2> QED BY <2>1, <2>2, <2>3 DEF FnsStep
<1> QED BY <1>1, <1>2, <1>3, AnsweredIs

-----------------------------------------------------------------------------
(* PastInv after each of them.                                             *)
LEMMA LooksPast ==
    ASSUME PastInv, NEW r \in Reqs, Looks(r) PROVE PastInv'
BY IdleHolds, SameWire, QuietPast DEF Looks, Quiet, Working

LEMMA EndsPast ==
    ASSUME PastInv, NEW r \in Reqs, Ends(r) PROVE PastInv'
<1>1. Working(r) /\ ~Succeeded(r)
    BY DEF Ends, Working, Succeeded
<1>2. Holding(r)'
    BY <1>1, QuietHolding DEF Ends, Quiet
<1>3. WireKnown(r)'
    BY SameWire DEF Ends, Quiet
<1> QED BY <1>2, <1>3, QuietPast DEF Ends, Quiet

LEMMA SendsKnows ==
    ASSUME Inv, RecordInv, NEW r \in Reqs, Sends(r)
    PROVE  /\ Quiet /\ Others(r) /\ call' = call
           /\ pc[r] = "calling" /\ pc'[r] = "waiting" /\ wire[r] = NoRequest
           /\ wire'[r].op = call[r].op /\ wire'[r].id = call[r].id
           /\ wire'[r].uuid = call[r].record.uuid
           /\ call[r].op = "cancel" => HasIncome(call[r].id, call[r].record)
<1>1. /\ Quiet /\ Others(r) /\ call' = call
      /\ pc[r] = "calling" /\ pc'[r] = "waiting"
      /\ wire'[r] = Request(call[r].op, call[r].id, call[r].record.amount,
                            call[r].record.uuid)
    BY DEF Sends, Send, Others, Inv, TypeInv, TypeOK
<1>2. /\ wire[r] = NoRequest
      /\ call[r].op = "cancel" => HasIncome(call[r].id, call[r].record)
    BY <1>1 DEF RecordInv, SlotsFit, SlotFits, WireFits, CallFits, Active
<1> QED BY <1>1, <1>2 DEF Request

LEMMA SendsPast ==
    ASSUME Inv, RecordInv, PastInv, NEW r \in Reqs, Sends(r) PROVE PastInv'
<1>1. /\ Quiet /\ Others(r) /\ call' = call
      /\ pc[r] = "calling" /\ pc'[r] = "waiting"
      /\ wire'[r].op = call[r].op /\ wire'[r].id = call[r].id
      /\ wire'[r].uuid = call[r].record.uuid
      /\ call[r].op = "cancel" => HasIncome(call[r].id, call[r].record)
    BY SendsKnows
<1>2. Holding(r)'
    BY <1>1, QuietHolding DEF Working, Succeeded, Quiet
<1>3. WireKnown(r)'
    <2> DEFINE i == [uuid |-> call[r].record.uuid, id |-> call[r].id,
                     amount |-> call[r].record.amount]
    <2>1. i.uuid = call[r].record.uuid /\ i.id = call[r].id
        OBVIOUS
    <2>2. call[r].op = "cancel" => i \in incomes'
        BY <1>1 DEF HasIncome, Quiet
    <2> HIDE DEF i
    <2> QED BY <1>1, <2>1, <2>2 DEF WireKnown
<1> QED BY <1>1, <1>2, <1>3, QuietPast DEF Quiet

LEMMA CancelSettlesPast ==
    ASSUME Inv, RecordInv, PastInv, NEW r \in Reqs, NEW w \in WriteOutcomes,
           CancelSettles(r, w)
    PROVE  PastInv'
BY CancelSettlesKnows, SettlesPast

LEMMA FnsPast ==
    ASSUME Inv, RecordInv, PastInv, NEW r \in Reqs, FnsStep(r) PROVE PastInv'
<1>1. /\ UNCHANGED <<disk, survivors>>
      /\ Others(r) /\ wire'[r] = NoRequest
      /\ FnsOutcomes(r) \/ Refuses
    BY FnsStepsAre
<1>2. \E outcome : \/ AnswerArrives(r, outcome)
                   \/ pc'[r] = pc[r] /\ call'[r] = call[r]
    BY FnsStepsAre
<1>3. Holding(r)'
    <2>1. CASE pc'[r] = pc[r] /\ call'[r] = call[r]
        BY <1>1, <2>1 DEF PastInv, PastSlots, Holding, Working, Succeeded
    <2>2. ASSUME NEW outcome, AnswerArrives(r, outcome) PROVE Holding(r)'
        BY <1>1, <2>2, QuietHolding DEF AnswerArrives, Working, Succeeded
    <2> QED BY <1>2, <2>1, <2>2
<1>4. WireKnown(r)'
    BY <1>1, NoRequestOp DEF WireKnown
<1>5. incomes \subseteq incomes'
    BY <1>1 DEF FnsOutcomes, Registers, Annuls, Refuses
<1>6. PastSlots'
    BY <1>1, <1>3, <1>4, <1>5, OneSlotPast DEF PastInv, PastSlots, Holding
<1>7. Shapes' /\ Lineage'
    BY <1>1 DEF PastInv, Shapes, Lineage
<1>8. UuidsUnique'
    <2>1. CASE \E uuid \in Uuids : Registers(r, uuid)
        BY <2>1 DEF Registers, PastInv, UuidsUnique
    <2>2. CASE incomes' = incomes
        BY <2>2 DEF PastInv, UuidsUnique
    <2> QED BY <1>1, <2>1, <2>2 DEF FnsOutcomes, Annuls, Refuses
<1>9. AnnulledKnown'
    <2>1. CASE Annuls(r)
        BY <2>1 DEF Annuls, PastInv, PastSlots, WireKnown, AnnulledKnown
    <2>2. CASE annulled' = annulled
        BY <1>5, <2>2 DEF PastInv, AnnulledKnown
    <2> QED BY <1>1, <2>1, <2>2 DEF FnsOutcomes, Registers, Refuses
<1> QED BY <1>6, <1>7, <1>8, <1>9 DEF PastInv

LEMMA DiesPast ==
    ASSUME Inv, PastInv, Dies PROVE PastInv'
<1>1. /\ \A r \in Reqs : pc'[r] = "idle"
      /\ UNCHANGED <<wire, incomes, annulled>> /\ survivors' \subseteq survivors
    BY DEF Dies, HandlersDie, external
<1>2. PastSlots'
    BY <1>1, IdleHolds, SameWire DEF PastSlots, Working
<1>3. Shapes' /\ UuidsUnique' /\ AnnulledKnown'
    BY <1>1 DEF PastInv, Shapes, UuidsUnique, AnnulledKnown
<1>4. Lineage'
    <2>1. CASE disk' = disk
        BY <1>1, <2>1 DEF PastInv, Lineage
    <2>2. CASE PowerLoss
        BY <2>2 DEF PowerLoss, PowerFails, Lineage, Behind
    <2> QED BY <2>1, <2>2 DEF Dies
<1> QED BY <1>2, <1>3, <1>4 DEF PastInv

LEMMA SamePast ==
    ASSUME PastInv, Same PROVE PastInv'
<1>1. PastSlots'
    BY DEF Same, PastInv, PastSlots, Holding, WireKnown, Working, Succeeded
<1> QED BY <1>1 DEF Same, PastInv, Shapes, Lineage, UuidsUnique, AnnulledKnown

LEMMA PastInit == Init => PastInv
<1> SUFFICES ASSUME Init PROVE PastInv
    OBVIOUS
<1>1. survivors = {NewFileData} /\ disk = NewFileData
    BY DEF Init, StoreInit, FileInit
<1>2. PastSlots
    BY NoRequestOp DEF Init, PastSlots, Holding, WireKnown, Working
<1>3. Shapes /\ Lineage
    BY <1>1 DEF Shapes, Lineage, Behind, NewFileData, NoReceipt, Record
<1> QED BY <1>2, <1>3 DEF Init, PastInv, UuidsUnique, AnnulledKnown

LEMMA PastStep == Inv /\ RecordInv /\ PastInv /\ [Next]_vars => PastInv'
<1> SUFFICES ASSUME Inv, RecordInv, PastInv, [Next]_vars PROVE PastInv'
    OBVIOUS
<1> QED BY StepKinds, SamePast, DiesPast, LooksPast, SendsPast, EndsPast,
           FnsPast, CreateStepsPast, CancelBeginsPast, CancelSettlesPast,
           CreateReservesPast

-----------------------------------------------------------------------------
(* What the FNS did, or may still do. From here on every success it        *)
(* answers can be read.                                                    *)
Annulling(r, uuid) == wire[r].op = "cancel" /\ wire[r].uuid = uuid

Uncancelled(uuid) ==
    uuid \notin annulled /\ \A r \in Reqs : ~Annulling(r, uuid)

Unasked(id) ==
    /\ \A i \in incomes : i.id # id
    /\ \A r \in Reqs : ~(Asking(r) /\ wire[r].id = id)

Failing(r) == pc[r] = "settling" /\ call[r].outcome = "failed"

(* A handler told of a failure, and one about to cancel, are right.        *)
FailedFits(r) ==
    Active(r) =>
        /\ call[r].op = "create" /\ Failing(r) => Unasked(call[r].id)
        /\ /\ call[r].op = "cancel" /\ (pc[r] = "calling" \/ Failing(r))
           /\ call[r].id \notin rolledBack
           => Uncancelled(call[r].record.uuid)

FailuresFit == \A r \in Reqs : FailedFits(r)

(* The status an income may have at the service.                           *)
TracksAs(i, status) ==
    /\ i.uuid \in annulled =>
            /\ status \in {"cancelling", "cancelled", "cancel_unknown"}
            /\ \A r \in Reqs : ~Annulling(r, i.uuid)
    /\ \A r \in Reqs : Annulling(r, i.uuid) =>
            status \in {"cancelling", "cancel_unknown"}
    /\ \A r, s \in Reqs :
            Annulling(r, i.uuid) /\ Annulling(s, i.uuid) => r = s

Tracks(i) ==
    i.id \notin rolledBack => TracksAs(i, disk.receipts[i.id].status)

Tracked == \A i \in incomes : Tracks(i)

OpenInv == FailuresFit /\ Tracked /\ FailedIsNotRegistered

(* What was done is never answered as a definite failure.                  *)
LEMMA DoneIsNotFailed ==
    ASSUME CutAnswers = FALSE, NEW op \in {"create", "cancel"}
    PROVE  "failed" \notin DoneOutcomes[op]
<1>1. ASSUME NEW x \in DoneAnswers
      PROVE  /\ Outcome(IncomeError(x)) # "failed"
             /\ Outcome(CancelError(x)) # "failed"
    <2>1. PICK status \in {200, 500}, body \in Bodies :
                x = Response(status, body)
        BY <1>1 DEF DoneAnswers
    <2>2. status = 200 => body \in {"empty", "lacking", "full"}
        BY <1>1, <2>1 DEF DoneAnswers, Unreadable, Bodies
    <2>3. x.do = "ok" /\ x.status = status /\ x.body = body
        BY <2>1 DEF Response
    <2>4. CASE status = 200
        <3>1. DoJSON(x) = NoError
            BY <2>2, <2>3, <2>4 DEF DoJSON, IsSuccess
        <3>2. Outcome(CancelError(x)) = "ok"
            BY <3>1 DEF CancelError, Outcome
        <3>3. IncomeError(x) \in {NoError, ApiError(0, "empty_uuid")}
            BY <3>1 DEF IncomeError
        <3>4. UpstreamErrorCode(ApiError(0, "empty_uuid"))
                    = "upstream_invalid_response"
            BY DEF UpstreamErrorCode, ApiError
        <3>5. Outcome(IncomeError(x)) \in {"ok", "unknown"}
            BY <3>3, <3>4 DEF Outcome, ClassifyUpstream, AmbiguousCodes
        <3> QED BY <3>2, <3>5
    <2>5. CASE status = 500
        <3> DEFINE e == DoJSON(x)
        <3>1. \E cause \in {"transport", "timeout", "none"} :
                    e = ApiError(500, cause)
            BY <2>3, <2>5 DEF DoJSON, IsSuccess
        <3> HIDE DEF e
        <3>2. e # NoError /\ e.api /\ e.status = 500 /\ e.cause # "empty_uuid"
            BY <3>1 DEF ApiError, NoError
        <3>3. UpstreamErrorCode(e) = "upstream_5xx"
            <4>1. StatusCode(500) = "upstream_5xx"
                BY DEF StatusCode
            <4> QED BY <3>2, <4>1 DEF UpstreamErrorCode
        <3>4. Outcome(e) = "unknown"
            BY <3>2, <3>3 DEF Outcome, ClassifyUpstream, AmbiguousCodes
        <3>5. IncomeError(x) = e /\ CancelError(x) = e
            BY <3>2 DEF IncomeError, CancelError, e
        <3> QED BY <3>4, <3>5
    <2> QED BY <2>4, <2>5
<1> QED BY <1>1 DEF DoneOutcomes, OutcomesOf, CallError

(* Records after a write of the next record of an id.                      *)
LEMMA StoredTracked ==
    ASSUME Inv, Tracked, up, NEW id, NEW record, NEW w \in WriteOutcomes,
           Persist(Candidate(id, record), w), MovesTo(id, record),
           \A i \in incomes : i.id = id /\ i.id \notin rolledBack =>
                TracksAs(i, record.status),
           UNCHANGED <<wire, incomes, annulled, rolledBack>>
    PROVE  Tracked'
<1>1. TypeInv /\ MemoryIsCommitted /\ id \in Ids
    BY DEF Inv, MovesTo
<1>2. /\ mem = disk
      /\ disk' = disk \/ disk' = Candidate(id, record)
    BY <1>1, PersistLeaves DEF storeVars
<1>3. \A i \in Ids : Candidate(id, record).receipts[i] =
                        IF i = id THEN record ELSE mem.receipts[i]
    BY <1>1, CandidateReceipts
<1>4. \A i \in incomes : i.id \in Ids
    BY <1>1 DEF TypeInv, TypeOK, Incomes
<1>5. ASSUME NEW i \in incomes, i.id \notin rolledBack
      PROVE  TracksAs(i, disk'.receipts[i.id].status)
    <2>1. TracksAs(i, disk.receipts[i.id].status)
        BY <1>5 DEF Tracked, Tracks
    <2> QED BY <1>2, <1>3, <1>4, <1>5, <2>1
<1>6. ASSUME NEW i, NEW status, TracksAs(i, status)
      PROVE  TracksAs(i, status)'
    BY <1>6 DEF TracksAs, Annulling
<1> QED BY <1>5, <1>6 DEF Tracked, Tracks, TracksAs, Annulling

LEMMA StoredFailed ==
    ASSUME Inv, FailedIsNotRegistered, up, NEW id, NEW record,
           NEW w \in WriteOutcomes,
           Persist(Candidate(id, record), w), MovesTo(id, record),
           record.status = "failed" => Unasked(id),
           UNCHANGED <<wire, incomes>>
    PROVE  FailedIsNotRegistered'
<1>1. TypeInv /\ MemoryIsCommitted /\ id \in Ids
    BY DEF Inv, MovesTo
<1>2. /\ mem \in survivors
      /\ survivors' \subseteq survivors \cup {Candidate(id, record)}
    BY <1>1, PersistLeaves
<1>3. \A i \in Ids : Candidate(id, record).receipts[i] =
                        IF i = id THEN record ELSE mem.receipts[i]
    BY <1>1, CandidateReceipts
<1>4. ASSUME NEW d \in survivors', NEW i \in Ids,
             d.receipts[i].status = "failed"
      PROVE  Unasked(i)
    BY <1>2, <1>3, <1>4 DEF FailedIsNotRegistered, Unasked, Asking
<1> QED BY <1>4 DEF FailedIsNotRegistered, Unasked, Asking

(* The others are right as before if nothing is sent or done.              *)
LEMMA OneSlotOpen ==
    ASSUME FailuresFit, NEW r \in Reqs, Others(r), FailedFits(r)',
           UNCHANGED <<wire, incomes, annulled, rolledBack>>
    PROVE  FailuresFit'
<1> SUFFICES ASSUME NEW s \in Reqs, s # r PROVE FailedFits(s)'
    BY DEF FailuresFit
<1>1. pc'[s] = pc[s] /\ call'[s] = call[s] /\ FailedFits(s)
    BY DEF Others, FailuresFit
<1> QED BY <1>1 DEF FailedFits, Active, Failing, Unasked, Asking, Uncancelled,
                    Annulling

LEMMA IdleFailedFits ==
    ASSUME NEW r \in Reqs, pc'[r] \in {"idle", "read", "reread", "waiting"}
    PROVE  FailedFits(r)'
BY DEF FailedFits, Failing, Active

(* A step of a handler or client that stores the next record of an id.     *)
LEMMA StoringOpen ==
    ASSUME Inv, OpenInv, up, NEW r \in Reqs, Others(r), FailedFits(r)',
           NEW id, NEW record, NEW w \in WriteOutcomes,
           Persist(Candidate(id, record), w), MovesTo(id, record),
           \A i \in incomes : i.id = id /\ i.id \notin rolledBack =>
                TracksAs(i, record.status),
           record.status = "failed" => Unasked(id),
           UNCHANGED <<external, rolledBack>>
    PROVE  OpenInv'
<1>1. UNCHANGED <<wire, incomes, annulled, rolledBack>>
    BY DEF external
<1>2. FailuresFit'
    BY <1>1, OneSlotOpen DEF OpenInv
<1>3. Tracked'
    BY <1>1, StoredTracked DEF OpenInv
<1>4. FailedIsNotRegistered'
    BY <1>1, StoredFailed DEF OpenInv
<1> QED BY <1>2, <1>3, <1>4 DEF OpenInv

(* An income of a receipt whose cancellation has not begun was not and is  *)
(* not being cancelled; it fits any status.                                *)
LEMMA NotBegun ==
    ASSUME OpenInv, NEW i \in incomes, i.id \notin rolledBack,
           disk.receipts[i.id].status
                \notin {"cancelling", "cancelled", "cancel_unknown"},
           NEW status
    PROVE  Uncancelled(i.uuid) /\ TracksAs(i, status)
BY DEF OpenInv, Tracked, Tracks, TracksAs, Uncancelled

(* Nobody asked for a receipt whose call is about to go out.               *)
LEMMA NotYetAsked ==
    ASSUME Inv, NEW r \in Reqs, pc[r] = "calling", call[r].op = "create"
    PROVE  Unasked(call[r].id)
<1>1. call[r].id \notin asked
    BY DEF Inv, CreatesKnown, Working
<1> QED BY <1>1 DEF Inv, AskedOnce, Unasked, Asking

-----------------------------------------------------------------------------
(* OpenInv after each step.                                                *)
LEMMA QuietOpen ==
    ASSUME OpenInv, NEW r \in Reqs, Quiet, Others(r), wire' = wire,
           FailedFits(r)'
    PROVE  OpenInv'
<1>1. FailuresFit'
    BY OneSlotOpen DEF OpenInv, Quiet
<1>2. Tracked'
    BY DEF OpenInv, Quiet, Tracked, Tracks, TracksAs, Annulling
<1>3. FailedIsNotRegistered'
    BY DEF OpenInv, Quiet, FailedIsNotRegistered
<1> QED BY <1>1, <1>2, <1>3 DEF OpenInv

LEMMA LooksOpen ==
    ASSUME OpenInv, NEW r \in Reqs, Looks(r) PROVE OpenInv'
BY IdleFailedFits, QuietOpen DEF Looks

LEMMA EndsOpen ==
    ASSUME Inv, OpenInv, NEW r \in Reqs, Ends(r) PROVE OpenInv'
<1>1. FailedFits(r)'
    <2>1. ASSUME call'[r].op = "create", Failing(r)'
          PROVE  Unasked(call[r].id)'
        <3>1. Unasked(call[r].id) /\ call'[r].id = call[r].id
            BY <2>1, NotYetAsked DEF Ends, Failing
        <3> QED BY <3>1 DEF Unasked, Asking, Ends, Quiet
    <2>2. ASSUME call'[r].op = "cancel",
                 (pc[r] = "calling" \/ Failing(r))',
                 call'[r].id \notin rolledBack'
          PROVE  Uncancelled(call[r].record.uuid)'
        <3>1. Uncancelled(call[r].record.uuid)
            BY <2>2 DEF Ends, Quiet, Failing, OpenInv, FailuresFit, FailedFits,
                        Active
        <3> QED BY <3>1 DEF Uncancelled, Annulling, Ends, Quiet
    <2> QED BY <2>1, <2>2 DEF FailedFits
<1> QED BY <1>1, QuietOpen DEF Ends

LEMMA SameOpen ==
    ASSUME OpenInv, Same PROVE OpenInv'
<1>1. FailuresFit'
    BY DEF Same, OpenInv, FailuresFit, FailedFits, Active, Failing, Unasked,
           Asking, Uncancelled, Annulling
<1>2. Tracked' /\ FailedIsNotRegistered'
    BY DEF Same, OpenInv, Tracked, Tracks, TracksAs, Annulling,
           FailedIsNotRegistered
<1> QED BY <1>1, <1>2 DEF OpenInv

LEMMA DiesOpen ==
    ASSUME Inv, OpenInv, Dies PROVE OpenInv'
<1>1. /\ \A r \in Reqs : pc'[r] = "idle"
      /\ UNCHANGED <<wire, incomes, annulled>> /\ survivors' \subseteq survivors
    BY DEF Dies, HandlersDie, external
<1>2. FailuresFit'
    BY <1>1, IdleFailedFits DEF FailuresFit
<1>3. FailedIsNotRegistered'
    BY <1>1 DEF OpenInv, FailedIsNotRegistered
<1>4. \A id \in Ids : id \notin rolledBack' =>
            /\ id \notin rolledBack
            /\ disk'.receipts[id] = disk.receipts[id]
    BY DEF Dies, PowerLoss
<1>5. \A i \in incomes : i.id \in Ids
    BY DEF Inv, TypeInv, TypeOK, Incomes
<1>6. Tracked'
    BY <1>1, <1>4, <1>5 DEF OpenInv, Tracked, Tracks, TracksAs, Annulling
<1> QED BY <1>2, <1>3, <1>6 DEF OpenInv

(* What a working handler does is about its own id alone.                  *)
LEMMA OneIdPerUuid ==
    ASSUME UuidsUnique, NEW id, NEW other, NEW a, NEW b,
           HasIncome(id, a), HasIncome(other, b), a.uuid = b.uuid
    PROVE  id = other
<1> DEFINE i == [uuid |-> a.uuid, id |-> id, amount |-> a.amount]
           j == [uuid |-> b.uuid, id |-> other, amount |-> b.amount]
<1>1. i.uuid = j.uuid /\ i.id = id /\ j.id = other
    OBVIOUS
<1>2. i \in incomes /\ j \in incomes
    BY DEF HasIncome
<1> HIDE DEF i, j
<1> QED BY <1>1, <1>2 DEF UuidsUnique

LEMMA IncomeOfUuid ==
    ASSUME UuidsUnique, NEW id, NEW a, HasIncome(id, a),
           NEW i \in incomes, i.uuid = a.uuid
    PROVE  i.id = id /\ i.amount = a.amount
<1> DEFINE j == [uuid |-> a.uuid, id |-> id, amount |-> a.amount]
<1>1. j.uuid = a.uuid /\ j.id = id /\ j.amount = a.amount /\ j \in incomes
    BY DEF HasIncome
<1> HIDE DEF j
<1> QED BY <1>1 DEF UuidsUnique

LEMMA SendsOpen ==
    ASSUME Inv, RecordInv, PastInv, OpenInv, NEW r \in Reqs, Sends(r)
    PROVE  OpenInv'
<1>1. /\ Quiet /\ Others(r) /\ call' = call
      /\ pc[r] = "calling" /\ pc'[r] = "waiting" /\ wire[r] = NoRequest
      /\ wire'[r].op = call[r].op /\ wire'[r].id = call[r].id
      /\ wire'[r].uuid = call[r].record.uuid
      /\ call[r].op = "cancel" => HasIncome(call[r].id, call[r].record)
    BY SendsKnows
<1>2. /\ Working(r) /\ call[r].op \in {"create", "cancel"}
      /\ Status(call[r].id) =
            IF call[r].op = "create" THEN "creating" ELSE "cancelling"
      /\ mem = disk
    BY <1>1, WorkingStatus, ActiveCall
       DEF Working, Active, Inv, MemoryIsCommitted
<1>3. \A s \in Reqs : Working(s) /\ call[s].id = call[r].id => s = r
    BY <1>2 DEF Inv, OneWorkerPerReceipt
<1>4. ASSUME NEW s \in Reqs, s # r, FailedFits(s) PROVE FailedFits(s)'
    <2>1. /\ pc'[s] = pc[s] /\ call'[s] = call[s]
          /\ \A t \in Reqs \ {r} : wire'[t] = wire[t]
          /\ UNCHANGED <<incomes, annulled, rolledBack>>
        BY <1>1, <1>4 DEF Others, Quiet
    <2>2. ASSUME Active(s), call[s].op = "create", Failing(s)
          PROVE  Unasked(call[s].id)'
        <3>1. Unasked(call[s].id) /\ call[s].id # call[r].id
            BY <1>3, <1>4, <2>2 DEF FailedFits, Failing, Working
        <3> QED BY <1>1, <2>1, <3>1 DEF Unasked, Asking
    <2>3. ASSUME Active(s), call[s].op = "cancel",
                 pc[s] = "calling" \/ Failing(s),
                 call[s].id \notin rolledBack
          PROVE  Uncancelled(call[s].record.uuid)'
        <3>1. Uncancelled(call[s].record.uuid)
            BY <1>4, <2>3 DEF FailedFits
        <3>2. HasIncome(call[s].id, call[s].record)
            BY <2>3 DEF RecordInv, SlotsFit, SlotFits, CallFits
        <3>3. call[s].id # call[r].id
            BY <1>3, <1>4, <2>3 DEF Failing, Working
        <3>4. ~Annulling(r, call[s].record.uuid)'
            BY <1>1, <2>1, <3>2, <3>3, OneIdPerUuid DEF Annulling, PastInv
        <3> QED BY <2>1, <3>1, <3>4 DEF Uncancelled, Annulling
    <2> QED BY <2>1, <2>2, <2>3 DEF FailedFits, Active, Failing
<1>5. FailuresFit'
    BY <1>1, <1>4, IdleFailedFits DEF FailuresFit, OpenInv
<1>6. ASSUME NEW i \in incomes, i.id \notin rolledBack
      PROVE  TracksAs(i, disk.receipts[i.id].status)'
    <2>1. TracksAs(i, disk.receipts[i.id].status)
        BY <1>6 DEF OpenInv, Tracked, Tracks
    <2>2. /\ disk' = disk /\ annulled' = annulled
          /\ \A t \in Reqs \ {r} : wire'[t] = wire[t]
          /\ ~Annulling(r, i.uuid)
        BY <1>1, NoRequestOp DEF Others, Quiet, Annulling
    <2>3. CASE ~Annulling(r, i.uuid)'
        BY <2>1, <2>2, <2>3 DEF TracksAs, Annulling
    <2>4. CASE Annulling(r, i.uuid)'
        <3>1. call[r].op = "cancel" /\ i.uuid = call[r].record.uuid
            BY <1>1, <2>4 DEF Annulling
        <3>2. i.id = call[r].id
            BY <1>1, <3>1, IncomeOfUuid DEF PastInv
        <3>3. Uncancelled(i.uuid)
            BY <1>1, <1>2, <1>6, <3>1, <3>2
               DEF OpenInv, FailuresFit, FailedFits, Active
        <3>4. disk.receipts[i.id].status = "cancelling"
            BY <1>2, <3>1, <3>2 DEF Status
        <3>5. \A t \in Reqs \ {r} : ~Annulling(t, i.uuid)'
            BY <2>2, <3>3 DEF Uncancelled, Annulling
        <3> QED BY <2>2, <3>3, <3>4, <3>5 DEF TracksAs, Uncancelled
    <2> QED BY <2>3, <2>4
<1>7. Tracked'
    BY <1>1, <1>6 DEF Tracked, Tracks, Quiet
<1>8. FailedIsNotRegistered'
    <2>1. call[r].op = "create" =>
            \A d \in survivors : d.receipts[call[r].id].status = "creating"
        BY <1>2 DEF PastInv, PastSlots, Holding
    <2> QED BY <1>1, <2>1 DEF OpenInv, FailedIsNotRegistered, Quiet, Others
<1> QED BY <1>5, <1>7, <1>8 DEF OpenInv

(* The FNS registers what was asked for and annuls what it was told to.    *)
LEMMA FnsLeaves ==
    ASSUME Inv, NEW r \in Reqs, Others(r), wire'[r] = NoRequest,
           FnsOutcomes(r) \/ Refuses
    PROVE  /\ \A id : Unasked(id) => Unasked(id)'
           /\ \A uuid : Uncancelled(uuid) => Uncancelled(uuid)'
<1>1. /\ \A s \in Reqs : \A id :
            (Asking(s) /\ wire[s].id = id)' => Asking(s) /\ wire[s].id = id
      /\ \A s \in Reqs : \A uuid : Annulling(s, uuid)' => Annulling(s, uuid)
    BY NoRequestOp DEF Others, Asking, Annulling
<1>2. ASSUME NEW i \in incomes', i \notin incomes
      PROVE  Asking(r) /\ wire[r].id = i.id
    <2>1. PICK uuid \in Uuids : Registers(r, uuid)
        BY <1>2 DEF FnsOutcomes, Annuls, Refuses
    <2> QED BY <1>2, <2>1 DEF Registers, Asking
<1>3. \A uuid \in annulled' : uuid \in annulled \/ Annulling(r, uuid)
    BY DEF FnsOutcomes, Registers, Annuls, Refuses, Annulling
<1> QED BY <1>1, <1>2, <1>3 DEF Unasked, Uncancelled

(* A refusal leaves nothing behind: it was the only request.               *)
LEMMA RefusedFits ==
    ASSUME Inv, PastInv, OpenInv, NEW r \in Reqs, Others(r),
           wire'[r] = NoRequest, Refuses, rolledBack' = rolledBack,
           AnswerArrives(r, "failed")
    PROVE  FailedFits(r)'
<1>1. /\ call'[r].id = call[r].id /\ call'[r].op = call[r].op
      /\ call'[r].record.uuid = call[r].record.uuid
      /\ wire[r].op = call[r].op /\ wire[r].id = call[r].id
      /\ wire[r].uuid = call[r].record.uuid /\ pc'[r] = "settling"
    BY DEF AnswerArrives
<1>2. ASSUME call[r].op = "create" PROVE Unasked(call[r].id)'
    BY <1>1, <1>2, NoRequestOp
       DEF Inv, AskedOnce, Unasked, Asking, Others, Refuses
<1>3. ASSUME call[r].op = "cancel", call[r].id \notin rolledBack
      PROVE  Uncancelled(call[r].record.uuid)'
    <2>1. PICK i \in incomes : i.uuid = wire[r].uuid /\ i.id = wire[r].id
        BY <1>1, <1>3 DEF PastInv, PastSlots, WireKnown
    <2>2. TracksAs(i, disk.receipts[i.id].status) /\ Annulling(r, i.uuid)
        BY <1>1, <1>3, <2>1 DEF OpenInv, Tracked, Tracks, Annulling
    <2>3. i.uuid \notin annulled /\ \A s \in Reqs \ {r} : ~Annulling(s, i.uuid)
        BY <2>2 DEF TracksAs
    <2> QED BY <1>1, <2>1, <2>3, NoRequestOp
            DEF Uncancelled, Annulling, Others, Refuses
<1> QED BY <1>1, <1>2, <1>3 DEF FailedFits

LEMMA FnsTracked ==
    ASSUME PastInv, OpenInv, NEW r \in Reqs, Others(r), wire'[r] = NoRequest,
           FnsOutcomes(r) \/ Refuses, UNCHANGED <<disk, rolledBack>>
    PROVE  Tracked'
<1>1. \A s \in Reqs : \A uuid : Annulling(s, uuid)' => Annulling(s, uuid) /\ s # r
    BY NoRequestOp DEF Others, Annulling
<1>2. ASSUME NEW i \in incomes, i.id \notin rolledBack
      PROVE  TracksAs(i, disk.receipts[i.id].status)'
    <2>1. TracksAs(i, disk.receipts[i.id].status)
        BY <1>2 DEF OpenInv, Tracked, Tracks
    <2>2. CASE annulled' = annulled
        BY <1>1, <2>1, <2>2 DEF TracksAs
    <2>3. CASE Annuls(r) /\ i.uuid # wire[r].uuid
        BY <1>1, <2>1, <2>3 DEF TracksAs, Annuls
    <2>4. CASE Annuls(r) /\ i.uuid = wire[r].uuid
        <3>1. Annulling(r, i.uuid)
            BY <2>4 DEF Annuls, Annulling
        <3>2. /\ disk.receipts[i.id].status \in {"cancelling", "cancel_unknown"}
              /\ \A s \in Reqs : Annulling(s, i.uuid) => s = r
            BY <2>1, <3>1 DEF TracksAs
        <3> QED BY <1>1, <3>2 DEF TracksAs
    <2> QED BY <2>2, <2>3, <2>4 DEF FnsOutcomes, Registers, Refuses
<1>3. ASSUME NEW uuid \in Uuids, Registers(r, uuid), NEW status
      PROVE  /\ uuid \notin annulled'
             /\ \A s \in Reqs : ~Annulling(s, uuid)'
    BY <1>1, <1>3
       DEF Registers, PastInv, AnnulledKnown, PastSlots, WireKnown, Annulling
<1>4. ASSUME NEW uuid \in Uuids, Registers(r, uuid), NEW i \in incomes',
             i \notin incomes
      PROVE  i.uuid = uuid
    BY <1>4 DEF Registers
<1>5. ASSUME NEW i \in incomes', i \notin incomes
      PROVE  TracksAs(i, disk.receipts[i.id].status)'
    BY <1>3, <1>4, <1>5 DEF FnsOutcomes, Annuls, Refuses, TracksAs
<1> QED BY <1>2, <1>5 DEF Tracked, Tracks

LEMMA FnsOpen ==
    ASSUME CutAnswers = FALSE, Inv, RecordInv, PastInv, OpenInv,
           NEW r \in Reqs, FnsStep(r)
    PROVE  OpenInv'
<1>1. /\ UNCHANGED <<disk, survivors, rolledBack>>
      /\ wire[r] \in Requests /\ Others(r) /\ wire'[r] = NoRequest
    BY FnsStepsAre
<1>2. PICK outcome :
        /\ \/ AnswerArrives(r, outcome)
           \/ pc'[r] = pc[r] /\ call'[r] = call[r]
        /\ \/ FnsOutcomes(r) /\ outcome \in DoneOutcomes[wire[r].op]
           \/ Refuses /\ outcome # "ok"
    BY FnsStepsAre
<1>3. outcome = "failed" => Refuses
    <2>1. wire[r].op \in {"create", "cancel"}
        BY <1>1 DEF Requests
    <2>2. "failed" \notin DoneOutcomes[wire[r].op]
        BY <2>1, DoneIsNotFailed
    <2> QED BY <1>2, <2>2
<1>4. /\ \A id : Unasked(id) => Unasked(id)'
      /\ \A uuid : Uncancelled(uuid) => Uncancelled(uuid)'
    BY <1>1, <1>2, FnsLeaves
<1>5. ASSUME NEW s \in Reqs, pc'[s] = pc[s], call'[s] = call[s]
      PROVE  FailedFits(s)'
    <2>1. FailedFits(s)
        BY DEF OpenInv, FailuresFit
    <2> QED BY <1>1, <1>4, <1>5, <2>1 DEF FailedFits, Active, Failing
<1>6. ASSUME AnswerArrives(r, outcome) PROVE FailedFits(r)'
    <2>1. CASE outcome = "failed"
        BY <1>1, <1>2, <1>3, <1>6, <2>1, RefusedFits
    <2>2. CASE outcome # "failed"
        BY <1>6, <2>2 DEF AnswerArrives, FailedFits, Failing
    <2> QED BY <2>1, <2>2
<1>7. FailuresFit'
    BY <1>1, <1>2, <1>5, <1>6 DEF FailuresFit, Others
<1>8. FailedIsNotRegistered'
    <2>1. \A d \in survivors, id \in Ids :
                d.receipts[id].status = "failed" => Unasked(id)
        BY DEF OpenInv, FailedIsNotRegistered, Unasked, Asking
    <2>2. \A d \in survivors', id \in Ids :
                d.receipts[id].status = "failed" => Unasked(id)'
        BY <1>1, <1>4, <2>1
    <2> QED BY <2>2 DEF FailedIsNotRegistered, Unasked, Asking
<1>9. Tracked'
    BY <1>1, <1>2, FnsTracked
<1> QED BY <1>7, <1>8, <1>9 DEF OpenInv

(* A handler that settles its receipt.                                     *)
LEMMA SettlesOpen ==
    ASSUME Inv, OpenInv, NEW r \in Reqs, Working(r), NEW status \in Statuses,
           NEW w \in WriteOutcomes, Settles(r, status, w), Reply(r),
           UNCHANGED <<external, rolledBack>>,
           \A i \in incomes : i.id = call[r].id /\ i.id \notin rolledBack =>
                TracksAs(i, status),
           status = "failed" => Unasked(call[r].id)
    PROVE  OpenInv'
<1> DEFINE id == call[r].id
           record == [call[r].record EXCEPT !.status = status]
<1>1. up /\ TypeInv /\ wire' = wire /\ Active(r)
    BY WorkingStatus DEF external
<1>2. record.status = status
    BY <1>1, ActiveCall
<1>3. Persist(Candidate(id, record), w) /\ MovesTo(id, record)
    BY DEF Settles
<1> HIDE DEF record
<1>4. Others(r) /\ pc'[r] = "idle"
    BY <1>1, GotoOthers DEF Reply
<1>5. FailedFits(r)'
    BY <1>4, IdleFailedFits
<1>6. /\ \A i \in incomes : i.id = id /\ i.id \notin rolledBack =>
            TracksAs(i, record.status)
      /\ record.status = "failed" => Unasked(id)
    BY <1>2
<1> HIDE DEF id
<1> QED BY <1>1, <1>3, <1>4, <1>5, <1>6, StoringOpen

LEMMA CreateStepsOpen ==
    ASSUME Inv, RecordInv, OpenInv, NEW r \in Reqs, CreateSteps(r)
    PROVE  OpenInv'
<1>1. ASSUME Working(r), call[r].op = "create",
             NEW i \in incomes, i.id = call[r].id, i.id \notin rolledBack,
             NEW status
      PROVE  TracksAs(i, status)
    <2>1. disk.receipts[i.id].status = "creating"
        BY <1>1, WorkingStatus DEF MemoryIsCommitted, Status
    <2> QED BY <1>1, <2>1, NotBegun
<1>2. ASSUME NEW w \in WriteOutcomes, CreateSucceeds(r, w) PROVE OpenInv'
    <2>1. call[r].op = "create" /\ rolledBack' = rolledBack
        BY <1>2 DEF CreateSucceeds
    <2> QED BY <1>1, <1>2, <2>1, CreateSucceedsKnows, SettlesOpen
<1>3. ASSUME NEW w \in WriteOutcomes, CreateFails(r, w) PROVE OpenInv'
    <2>1. rolledBack' = rolledBack /\ pc[r] = "settling"
        BY <1>3 DEF CreateFails
    <2>2. /\ Working(r) /\ Settles(r, call[r].outcome, w) /\ Reply(r)
          /\ UNCHANGED external /\ call[r].op = "create"
          /\ call[r].outcome \in Statuses
        BY <1>3, CreateFailsKnows
    <2>3. call[r].outcome = "failed" => Unasked(call[r].id)
        BY <2>1, <2>2
           DEF OpenInv, FailuresFit, FailedFits, Failing, Active
    <2> QED BY <1>1, <2>1, <2>2, <2>3, SettlesOpen
<1> QED BY <1>2, <1>3 DEF CreateSteps

LEMMA CancelSettlesOpen ==
    ASSUME Inv, RecordInv, OpenInv, NEW r \in Reqs, NEW w \in WriteOutcomes,
           CancelSettles(r, w)
    PROVE  OpenInv'
<1> DEFINE status == CancelStatus(call[r].outcome)
<1>1. /\ Working(r) /\ Settles(r, status, w) /\ Reply(r) /\ UNCHANGED external
      /\ call[r].op = "cancel" /\ status \in Statuses
      /\ HasIncome(call[r].id, call[r].record)
    BY CancelSettlesKnows
<1>2. pc[r] = "settling" /\ rolledBack' = rolledBack
    BY DEF CancelSettles
<1>3. ASSUME NEW i \in incomes, i.id = call[r].id, i.id \notin rolledBack
      PROVE  TracksAs(i, status)
    <2>1. disk.receipts[i.id].status = "cancelling"
        BY <1>1, <1>3, WorkingStatus DEF MemoryIsCommitted, Status
    <2>2. TracksAs(i, "cancelling")
        BY <1>3, <2>1 DEF OpenInv, Tracked, Tracks
    <2>3. i.uuid = call[r].record.uuid
        <3> DEFINE j == [uuid |-> call[r].record.uuid, id |-> call[r].id,
                         amount |-> call[r].record.amount]
        <3>1. j.uuid = call[r].record.uuid /\ j.id = call[r].id
            OBVIOUS
        <3>2. j \in incomes
            BY <1>1 DEF HasIncome
        <3> HIDE DEF j
        <3> QED BY <1>3, <3>1, <3>2 DEF Inv, AtMostOneIncome
    <2>4. Active(r) /\ call[r].outcome \in {"ok", "unknown", "failed"}
        BY <1>1, <1>2, WorkingStatus, ActiveCall DEF Outcomes
    <2>5. CASE call[r].outcome = "ok"
        <3>1. call[r].record.uuid \in annulled /\ status = "cancelled"
            BY <1>1, <1>2, <2>4, <2>5
               DEF RecordInv, SlotsFit, SlotFits, CallFits, Succeeded,
                   CancelStatus
        <3> QED BY <2>2, <2>3, <3>1 DEF TracksAs
    <2>6. CASE call[r].outcome = "unknown"
        BY <2>2, <2>6 DEF TracksAs, CancelStatus
    <2>7. CASE call[r].outcome = "failed"
        <3>1. Uncancelled(call[r].record.uuid)
            BY <1>1, <1>2, <1>3, <2>4, <2>7
               DEF OpenInv, FailuresFit, FailedFits, Failing
        <3> QED BY <2>3, <3>1 DEF TracksAs, Uncancelled
    <2> QED BY <2>4, <2>5, <2>6, <2>7
<1>4. status # "failed"
    <2>1. status \in CreatedStatuses
        BY CancelSettlesKnows
    <2> QED BY <2>1 DEF CreatedStatuses
<1> HIDE DEF status
<1> QED BY <1>1, <1>2, <1>3, <1>4, SettlesOpen

LEMMA CancelBeginsOpen ==
    ASSUME Inv, RecordInv, OpenInv, NEW r \in Reqs, NEW w \in WriteOutcomes,
           CancelBegins(r, w)
    PROVE  OpenInv'
<1> DEFINE id == call[r].id
           record == [call[r].record EXCEPT !.status = "cancelling"]
           c == Call("cancel", id, record, "none")
<1>1. /\ up /\ id \in Ids /\ Status(id) = "created"
      /\ Persist(Candidate(id, record), w) /\ MovesTo(id, record)
      /\ record.status = "cancelling" /\ HasIncome(id, record) /\ Others(r)
      /\ UNCHANGED <<external, history>>
      /\ Committed(w) => pc'[r] = "calling" /\ call'[r] = c
      /\ ~Committed(w) => pc'[r] = "idle"
    BY CancelBeginsKnows
<1>2. c.op = "cancel" /\ c.id = id /\ c.record = record
    BY DEF Call
<1> HIDE DEF id, record, c
<1>3. disk.receipts[id].status = "created"
    BY <1>1 DEF Inv, MemoryIsCommitted, Status
<1>4. \A i \in incomes : i.id = id /\ i.id \notin rolledBack =>
            Uncancelled(i.uuid) /\ TracksAs(i, record.status)
    BY <1>3, NotBegun
<1>5. UNCHANGED <<external, rolledBack>>
    BY <1>1 DEF history
<1>6. id \notin rolledBack => Uncancelled(record.uuid)
    <2> DEFINE i == [uuid |-> record.uuid, id |-> id, amount |-> record.amount]
    <2>1. i \in incomes /\ i.uuid = record.uuid /\ i.id = id
        BY <1>1 DEF HasIncome
    <2> HIDE DEF i
    <2> QED BY <1>4, <2>1
<1>7. FailedFits(r)'
    <2>1. CASE Committed(w)
        <3>1. /\ pc'[r] = "calling" /\ call'[r].op = "cancel"
              /\ call'[r].id = id /\ call'[r].record = record
            BY <1>1, <1>2, <2>1
        <3>2. id \notin rolledBack' => Uncancelled(call'[r].record.uuid)
            BY <1>5, <1>6, <3>1
        <3> QED BY <1>5, <3>1, <3>2
                DEF FailedFits, Uncancelled, Annulling, external
    <2>2. CASE ~Committed(w)
        BY <1>1, <2>2, IdleFailedFits
    <2> QED BY <2>1, <2>2
<1> QED BY <1>1, <1>4, <1>5, <1>7, StoringOpen

LEMMA CreateReservesOpen ==
    ASSUME Inv, OpenInv, NEW r \in Reqs, NEW id \in Ids,
           NEW amount \in Amounts, NEW w \in WriteOutcomes,
           CreateReserves(r, id, amount, w)
    PROVE  OpenInv'
<1> DEFINE record == Record("creating", amount, NoUuid)
           c == Call("create", id, record, "none")
<1>1. /\ up /\ TypeInv /\ ~Working(r) /\ Status(id) = "none"
      /\ Persist(Candidate(id, record), w) /\ MovesTo(id, record)
      /\ record.status = "creating"
      /\ Others(r) /\ UNCHANGED <<external, rolledBack>>
      /\ w = "durable" => pc'[r] = "calling" /\ call'[r] = c
      /\ w # "durable" => UNCHANGED <<pc, call>>
    BY CreateReservesKnows
<1>2. c.op = "create"
    BY DEF Call
<1> HIDE DEF record, c
<1>3. FailedFits(r)'
    <2>1. CASE w = "durable"
        BY <1>1, <1>2, <2>1 DEF FailedFits, Failing
    <2>2. CASE w # "durable"
        <3>1. pc'[r] \in {"idle", "read", "reread"}
            BY <1>1, <2>2 DEF TypeInv, TypeOK, PCs, Working
        <3> QED BY <3>1, IdleFailedFits
    <2> QED BY <2>1, <2>2
<1>4. \A i \in incomes : i.id = id /\ i.id \notin rolledBack =>
            TracksAs(i, record.status)
    <2>1. disk.receipts[id].status = "none"
        BY <1>1 DEF Inv, MemoryIsCommitted, Status
    <2> QED BY <2>1, NotBegun
<1> QED BY <1>1, <1>3, <1>4, StoringOpen

LEMMA OpenInit == Init => OpenInv
<1> SUFFICES ASSUME Init PROVE OpenInv
    OBVIOUS
<1>1. FailuresFit
    BY DEF Init, FailuresFit, FailedFits, Active
<1>2. Tracked /\ FailedIsNotRegistered
    BY NoRequestOp
       DEF Init, StoreInit, FileInit, NewFileData, NoReceipt, Record, Tracked,
           FailedIsNotRegistered
<1> QED BY <1>1, <1>2 DEF OpenInv

LEMMA OpenStep ==
    ASSUME CutAnswers = FALSE
    PROVE  Inv /\ RecordInv /\ PastInv /\ OpenInv /\ [Next]_vars => OpenInv'
<1> SUFFICES ASSUME Inv, RecordInv, PastInv, OpenInv, [Next]_vars
             PROVE  OpenInv'
    OBVIOUS
<1> QED BY StepKinds, SameOpen, DiesOpen, LooksOpen, SendsOpen, EndsOpen,
           FnsOpen, CreateStepsOpen, CancelBeginsOpen, CancelSettlesOpen,
           CreateReservesOpen

LEMMA OpenInvariance ==
    ASSUME CutAnswers = FALSE
    PROVE  Spec => [](Inv /\ RecordInv /\ PastInv /\ OpenInv)
<1>1. Init => Inv /\ RecordInv /\ PastInv /\ OpenInv
    BY InvInit, RecordInit, PastInit, OpenInit
<1>2. Inv /\ RecordInv /\ PastInv /\ OpenInv /\ [Next]_vars
        => (Inv /\ RecordInv /\ PastInv /\ OpenInv)'
    BY InvStep, RecordStep, PastStep, OpenStep
<1> QED BY <1>1, <1>2, PTL DEF Spec

-----------------------------------------------------------------------------
(* The theorems.                                                           *)

(* A receipt of failed has no income, and no request is left that could    *)
(* still make one, in the file and in whatever a power loss may leave of   *)
(* it: when no 2xx answer is unreadable, a client that is told of a        *)
(* failure may try again under another id.                                 *)
THEOREM FailedNotRegistered ==
    ASSUME CutAnswers = FALSE
    PROVE  Spec => []FailedIsNotRegistered
<1>1. OpenInv => FailedIsNotRegistered
    BY DEF OpenInv
<1> QED BY <1>1, OpenInvariance, PTL

(* An income that was cancelled at the FNS, or may still be by a request   *)
(* on the wire, is not shown as created, unless a power loss took the      *)
(* record back: when no 2xx answer is unreadable.                          *)
THEOREM CancelTracked ==
    ASSUME CutAnswers = FALSE
    PROVE  Spec => []CancelIsTracked
<1>1. OpenInv => CancelIsTracked
    BY DEF OpenInv, Tracked, Tracks, TracksAs, Annulling, CancelIsTracked
<1> QED BY <1>1, OpenInvariance, PTL

-----------------------------------------------------------------------------
(* Each step is one of the life of a receipt, or none.                     *)
LifecycleStep == [Lifecycle!Next]_(Lifecycle!vars)

(* Replacing a record is moving it, when the rest of it stays.             *)
LEMMA ReplacedIsMoved ==
    ASSUME NEW f \in [Ids -> ReceiptRecord], NEW id \in Ids,
           NEW record \in RealRecord, f[id] # NoReceipt,
           record.amount = f[id].amount
    PROVE  /\ record.uuid = f[id].uuid =>
                [f EXCEPT ![id] = record]
                    = [f EXCEPT ![id].status = record.status]
           /\ [f EXCEPT ![id] = record]
                = [f EXCEPT ![id].status = record.status,
                            ![id].uuid = record.uuid]
<1> DEFINE old == f[id]
           moved == [old EXCEPT !.status = record.status]
           made == [old EXCEPT !.status = record.status, !.uuid = record.uuid]
<1>1. old \in RealRecord
    BY RealRecordType
<1>2. record.uuid = old.uuid => moved = record
    BY <1>1 DEF RealRecord
<1>3. made = record
    BY <1>1 DEF RealRecord
<1>4. /\ [f EXCEPT ![id].status = record.status] = [f EXCEPT ![id] = moved]
      /\ [f EXCEPT ![id].status = record.status, ![id].uuid = record.uuid]
            = [f EXCEPT ![id] = made]
    OBVIOUS
<1> QED BY <1>2, <1>3, <1>4

LEMMA StoredReceipts ==
    ASSUME Inv, up, NEW id, NEW record, NEW w \in WriteOutcomes,
           Persist(Candidate(id, record), w), MovesTo(id, record)
    PROVE  \/ disk' = disk
           \/ disk'.receipts = [disk.receipts EXCEPT ![id] = record]
<1>1. mem = disk /\ (disk' = disk \/ disk' = Candidate(id, record))
    BY PersistLeaves DEF Inv, storeVars
<1>2. Candidate(id, record).receipts = [mem.receipts EXCEPT ![id] = record]
    BY DEF Candidate
<1> QED BY <1>1, <1>2

LEMMA Stutters ==
    ASSUME disk' = disk, UNCHANGED <<incomes, annulled, rolledBack>>
    PROVE  LifecycleStep
BY DEF LifecycleStep, Lifecycle!vars

(* The record of a handler is that of the file, but for its status and, of *)
(* a create that succeeded, its UUID.                                      *)
LEMMA SameUuid ==
    ASSUME Inv, RecordInv, PastInv, NEW r \in Reqs, Active(r),
           \/ Working(r) /\ (call[r].op = "create" => ~Succeeded(r))
           \/ call[r].op = "cancel" /\ Status(call[r].id) = "created"
    PROVE  disk.receipts[call[r].id].uuid = call[r].record.uuid
<1> DEFINE id == call[r].id
           old == disk.receipts[id]
<1>1. /\ id \in Ids /\ disk \in survivors /\ mem = disk
      /\ call[r].op \in {"create", "cancel"}
    BY ActiveKnows, ActiveCall DEF Inv, MemoryIsCommitted
<1>2. CASE call[r].op = "create"
    <2>1. /\ Working(r) /\ old.status = "creating"
          /\ call[r].record.uuid = NoUuid
        BY <1>1, <1>2, WorkingStatus
           DEF Status, PastInv, PastSlots, Holding
    <2> QED BY <1>1, <2>1 DEF PastInv, Shapes, CreatedStatuses
<1>3. CASE call[r].op = "cancel"
    <2>1. old.status \in CreatedStatuses
        BY <1>1, <1>3, WorkingStatus DEF Status, CreatedStatuses
    <2>2. HasIncome(id, old)
        BY <1>1, <2>1 DEF RecordInv, RecordsMatchFns, HasIncome
    <2>3. HasIncome(id, call[r].record)
        BY <1>3 DEF RecordInv, SlotsFit, SlotFits, CallFits
    <2> HIDE DEF old, id
    <2>4. old.uuid = call[r].record.uuid
        BY <2>2, <2>3, OneRecord DEF Inv
    <2> QED BY <2>4 DEF old, id
<1> QED BY <1>1, <1>2, <1>3

(* What a handler that moves its receipt on does to the file.              *)
LEMMA SettlesMoves ==
    ASSUME Inv, RecordInv, PastInv, NEW r \in Reqs, Active(r),
           NEW status \in Statuses, NEW w \in WriteOutcomes,
           Settles(r, status, w)
    PROVE  LET id == call[r].id IN
           /\ id \in Ids /\ disk.receipts[id].status = Status(id)
           /\ \/ disk' = disk
              \/ /\ disk.receipts[id].uuid = call[r].record.uuid =>
                        disk'.receipts =
                            [disk.receipts EXCEPT ![id].status = status]
                 /\ disk'.receipts =
                        [disk.receipts EXCEPT ![id].status = status,
                                    ![id].uuid = call[r].record.uuid]
<1> DEFINE id == call[r].id
           record == [call[r].record EXCEPT !.status = status]
<1>1. /\ up /\ id \in Ids /\ mem = disk /\ disk.receipts[id] # NoReceipt
      /\ disk.receipts[id].amount = call[r].record.amount
      /\ disk.receipts \in [Ids -> ReceiptRecord]
    BY ActiveKnows DEF Inv, MemoryIsCommitted, TypeInv, TypeOK, StoreTypeOK,
                       FileData
<1>2. /\ record \in RealRecord /\ record.amount = call[r].record.amount
      /\ record.uuid = call[r].record.uuid /\ record.status = status
    BY ActiveCall DEF Inv
<1>3. Persist(Candidate(id, record), w) /\ MovesTo(id, record)
    BY DEF Settles
<1> HIDE DEF record, id
<1>4. \/ disk' = disk
      \/ disk'.receipts = [disk.receipts EXCEPT ![id] = record]
    BY <1>1, <1>3, StoredReceipts
<1>5. /\ record.uuid = disk.receipts[id].uuid =>
            [disk.receipts EXCEPT ![id] = record]
                = [disk.receipts EXCEPT ![id].status = record.status]
      /\ [disk.receipts EXCEPT ![id] = record]
            = [disk.receipts EXCEPT ![id].status = record.status,
                                    ![id].uuid = record.uuid]
    <2> DEFINE f == disk.receipts
    <2>1. /\ f \in [Ids -> ReceiptRecord] /\ id \in Ids
          /\ record \in RealRecord /\ f[id] # NoReceipt
          /\ record.amount = f[id].amount
        BY <1>1, <1>2
    <2> HIDE DEF f
    <2>2. /\ record.uuid = f[id].uuid =>
                [f EXCEPT ![id] = record]
                    = [f EXCEPT ![id].status = record.status]
          /\ [f EXCEPT ![id] = record]
                = [f EXCEPT ![id].status = record.status,
                            ![id].uuid = record.uuid]
        BY <2>1, ReplacedIsMoved
    <2> QED BY <2>2 DEF f
<1>6. disk.receipts[id].status = Status(id)
    BY <1>1 DEF Status
<1> QED BY <1>1, <1>2, <1>4, <1>5, <1>6 DEF id

-----------------------------------------------------------------------------
(* The actions of the life of a receipt, as what they are made of.         *)
LEMMA MoveSteps ==
    ASSUME NEW id \in Ids, UNCHANGED <<incomes, annulled, rolledBack>>,
           NEW from, disk.receipts[id].status = from,
           NEW status,
           disk'.receipts = [disk.receipts EXCEPT ![id].status = status],
           \/ /\ from = "creating" /\ status = "failed"
              /\ \A i \in incomes : i.id # id
           \/ from = "creating" /\ status = "unknown"
           \/ from = "created" /\ status = "cancelling"
           \/ /\ from = "cancelling" /\ status = "cancelled"
              /\ disk.receipts[id].uuid \in annulled
           \/ from = "cancelling" /\ status = "cancel_unknown"
           \/ /\ from = "cancelling" /\ status = "created"
              /\ disk.receipts[id].uuid \notin annulled \/ id \in rolledBack
    PROVE  LifecycleStep
<1>1. Lifecycle!Move(id, status)
    BY DEF Lifecycle!Move
<1>2. \/ Lifecycle!Failed(id) \/ Lifecycle!Unknown(id)
      \/ Lifecycle!Cancelling(id) \/ Lifecycle!Cancelled(id)
      \/ Lifecycle!CancelUnknown(id) \/ Lifecycle!CancelFailed(id)
    BY <1>1
       DEF Lifecycle!Failed, Lifecycle!Unknown, Lifecycle!Cancelling,
           Lifecycle!Cancelled, Lifecycle!CancelUnknown,
           Lifecycle!CancelFailed, Lifecycle!HasStatus, Lifecycle!IncomeOf
<1> QED BY <1>2 DEF LifecycleStep, Lifecycle!Next

LEMMA CreateStepsRefine ==
    ASSUME Inv, RecordInv, PastInv, OpenInv, NEW r \in Reqs, CreateSteps(r)
    PROVE  LifecycleStep
<1> DEFINE id == call[r].id
<1>1. ASSUME NEW w \in WriteOutcomes, CreateSucceeds(r, w)
      PROVE  LifecycleStep
    <2> DEFINE i == [uuid |-> call[r].record.uuid, id |-> id,
                     amount |-> call[r].record.amount]
    <2>1. /\ Working(r) /\ Active(r) /\ Settles(r, "created", w)
          /\ UNCHANGED <<incomes, annulled, rolledBack>>
          /\ HasIncome(id, call[r].record) /\ "created" \in Statuses
          /\ Status(id) = "creating"
        BY <1>1, CreateSucceedsKnows, WorkingStatus
           DEF external, CreateSucceeds
    <2>2. CASE disk' = disk
        BY <2>1, <2>2, Stutters
    <2>3. CASE disk' # disk
        <3>1. /\ id \in Ids /\ disk.receipts[id].status = "creating"
              /\ disk'.receipts =
                    [disk.receipts EXCEPT ![id].status = "created",
                                          ![id].uuid = call[r].record.uuid]
            BY <2>1, <2>3, SettlesMoves
        <3>2. /\ i \in incomes /\ i.id = id /\ i.uuid = call[r].record.uuid
            BY <2>1 DEF HasIncome
        <3> HIDE DEF i
        <3>3. Lifecycle!Created(id)
            BY <2>1, <3>1, <3>2
               DEF Lifecycle!Created, Lifecycle!HasStatus, Lifecycle!IncomeOf
        <3> QED BY <3>1, <3>3 DEF LifecycleStep, Lifecycle!Next
    <2> QED BY <2>2, <2>3
<1>2. ASSUME NEW w \in WriteOutcomes, CreateFails(r, w) PROVE LifecycleStep
    <2>1. /\ Working(r) /\ Active(r) /\ Settles(r, call[r].outcome, w)
          /\ UNCHANGED <<incomes, annulled, rolledBack>>
          /\ call[r].op = "create" /\ ~Succeeded(r) /\ pc[r] = "settling"
          /\ call[r].outcome \in EventTypes /\ call[r].outcome \in Statuses
          /\ Status(id) = "creating"
        BY <1>2, CreateFailsKnows, WorkingStatus DEF external, CreateFails
    <2>2. CASE disk' = disk
        BY <2>1, <2>2, Stutters
    <2>3. CASE disk' # disk
        <3>1. /\ id \in Ids /\ disk.receipts[id].status = "creating"
              /\ disk'.receipts =
                    [disk.receipts EXCEPT ![id].status = call[r].outcome]
            BY <2>1, <2>3, SettlesMoves, SameUuid
        <3>2. call[r].outcome = "failed" => \A i \in incomes : i.id # id
            BY <2>1
               DEF OpenInv, FailuresFit, FailedFits, Failing, Unasked
        <3> QED BY <2>1, <3>1, <3>2, MoveSteps DEF EventTypes
    <2> QED BY <2>2, <2>3
<1> QED BY <1>1, <1>2 DEF CreateSteps

LEMMA CancelBeginsRefines ==
    ASSUME Inv, RecordInv, PastInv, NEW r \in Reqs, NEW w \in WriteOutcomes,
           CancelBegins(r, w)
    PROVE  LifecycleStep
<1> DEFINE id == call[r].id
<1>1. /\ Active(r) /\ Settles(r, "cancelling", w) /\ call[r].op = "cancel"
      /\ Status(id) = "created" /\ "cancelling" \in Statuses
      /\ UNCHANGED <<incomes, annulled, rolledBack>>
    BY CancelBeginsStores, ActiveCall
       DEF Inv, CancelBegins, external, history, Statuses
<1>2. CASE disk' = disk
    BY <1>1, <1>2, Stutters
<1>3. CASE disk' # disk
    <2>1. /\ id \in Ids /\ disk.receipts[id].status = "created"
          /\ disk'.receipts = [disk.receipts EXCEPT ![id].status = "cancelling"]
        BY <1>1, <1>3, SettlesMoves, SameUuid
    <2> QED BY <1>1, <2>1, MoveSteps
<1> QED BY <1>2, <1>3

LEMMA CancelSettlesRefines ==
    ASSUME Inv, RecordInv, PastInv, OpenInv, NEW r \in Reqs,
           NEW w \in WriteOutcomes, CancelSettles(r, w)
    PROVE  LifecycleStep
<1> DEFINE id == call[r].id
           status == CancelStatus(call[r].outcome)
<1>1. /\ Working(r) /\ Active(r) /\ Settles(r, status, w)
      /\ call[r].op = "cancel" /\ status \in Statuses /\ pc[r] = "settling"
      /\ Status(id) = "cancelling"
      /\ UNCHANGED <<incomes, annulled, rolledBack>>
    BY CancelSettlesKnows, WorkingStatus DEF external, CancelSettles
<1>2. CASE disk' = disk
    BY <1>1, <1>2, Stutters
<1>3. CASE disk' # disk
    <2>1. /\ id \in Ids /\ disk.receipts[id].status = "cancelling"
          /\ disk.receipts[id].uuid = call[r].record.uuid
          /\ disk'.receipts = [disk.receipts EXCEPT ![id].status = status]
        BY <1>1, <1>3, SettlesMoves, SameUuid
    <2>2. call[r].outcome \in {"ok", "unknown", "failed"}
        BY <1>1, ActiveCall DEF Inv, Outcomes
    <2>3. CASE call[r].outcome = "ok"
        <3>1. call[r].record.uuid \in annulled /\ status = "cancelled"
            BY <1>1, <2>3
               DEF RecordInv, SlotsFit, SlotFits, CallFits, Succeeded,
                   CancelStatus
        <3> HIDE DEF status
        <3> QED BY <1>1, <2>1, <3>1, MoveSteps
    <2>4. CASE call[r].outcome = "unknown"
        <3>1. status = "cancel_unknown"
            BY <2>4 DEF CancelStatus
        <3> HIDE DEF status
        <3> QED BY <1>1, <2>1, <3>1, MoveSteps
    <2>5. CASE call[r].outcome = "failed"
        <3>1. /\ status = "created"
              /\ call[r].record.uuid \notin annulled \/ id \in rolledBack
            BY <1>1, <2>5
               DEF CancelStatus, OpenInv, FailuresFit, FailedFits, Failing,
                   Uncancelled
        <3> HIDE DEF status
        <3> QED BY <1>1, <2>1, <3>1, MoveSteps
    <2> QED BY <2>2, <2>3, <2>4, <2>5
<1> QED BY <1>2, <1>3

LEMMA CreateReservesRefines ==
    ASSUME Inv, NEW r \in Reqs, NEW id \in Ids, NEW amount \in Amounts,
           NEW w \in WriteOutcomes, CreateReserves(r, id, amount, w)
    PROVE  LifecycleStep
<1> DEFINE record == Record("creating", amount, NoUuid)
<1>1. /\ up /\ Status(id) = "none" /\ mem = disk
      /\ Persist(Candidate(id, record), w) /\ MovesTo(id, record)
      /\ UNCHANGED <<incomes, annulled, rolledBack>>
    BY CreateReservesKnows DEF external, Inv, MemoryIsCommitted
<1>2. record = [status |-> "creating", amount |-> amount, uuid |-> NoUuid]
    BY DEF Record
<1> HIDE DEF record
<1>3. CASE disk' = disk
    BY <1>1, <1>3, Stutters
<1>4. CASE disk' # disk
    <2>1. disk'.receipts = [disk.receipts EXCEPT ![id] = record]
        BY <1>1, <1>4, StoredReceipts
    <2>2. Lifecycle!Reserve(id, amount)
        BY <1>1, <1>2, <2>1 DEF Lifecycle!Reserve, Lifecycle!HasStatus, Status
    <2> QED BY <2>2 DEF LifecycleStep, Lifecycle!Next
<1> QED BY <1>3, <1>4

(* The FNS registers an income only for a receipt of creating or unknown,  *)
(* and annuls one only of a receipt whose cancellation is known.           *)
LEMMA AskedStatus ==
    ASSUME Inv, RecordInv, OpenInv, NEW r \in Reqs, Asking(r)
    PROVE  LET id == wire[r].id IN
           /\ id \in Ids /\ wire[r].amount = disk.receipts[id].amount
           /\ disk.receipts[id].status \in {"creating", "unknown"}
           /\ \A i \in incomes : i.id # id
<1> DEFINE id == wire[r].id
           old == disk.receipts[id]
<1>1. wire[r] \in Requests /\ wire[r].op = "create"
    BY NoRequestOp DEF Asking, Inv, TypeInv, TypeOK
<1>2. id \in Ids /\ wire[r].amount \in Amounts
    BY <1>1 DEF Requests
<1>3. disk \in survivors /\ TypeInv
    BY DEF Inv, MemoryIsCommitted
<1>4. old.amount = wire[r].amount /\ \A i \in incomes : i.id # id
    BY <1>1, <1>3 DEF Inv, RequestPersistedFirst, AskedOnce, Asking
<1>5. old.status \in Statuses \cup {"none"} /\ old \in ReceiptRecord
    BY <1>2, <1>3, SurvivorType
<1>6. old.status # "none"
    <2>1. NoReceipt.amount = NoAmount
        BY DEF NoReceipt, Record
    <2> QED BY <1>2, <1>4, <1>5, <2>1, RecordStatus, StoreAssumption
<1>7. old.status \notin CreatedStatuses
    <2> DEFINE i == [uuid |-> old.uuid, id |-> id, amount |-> old.amount]
    <2>1. i.id = id
        OBVIOUS
    <2>2. old.status \in CreatedStatuses => i \in incomes
        BY <1>2, <1>3 DEF RecordInv, RecordsMatchFns
    <2> HIDE DEF i
    <2> QED BY <1>4, <2>1, <2>2
<1>8. old.status # "failed"
    BY <1>1, <1>2, <1>3 DEF OpenInv, FailedIsNotRegistered
<1>9. old.status \in {"creating", "unknown"}
    BY <1>5, <1>6, <1>7, <1>8 DEF Statuses, CreatedStatuses
<1> QED BY <1>2, <1>4, <1>9

LEMMA FnsRefines ==
    ASSUME Inv, RecordInv, PastInv, OpenInv, NEW r \in Reqs, FnsStep(r)
    PROVE  LifecycleStep
<1>1. /\ UNCHANGED <<disk, rolledBack>> /\ wire[r] \in Requests
      /\ FnsOutcomes(r) \/ Refuses
    BY FnsStepsAre
<1>2. CASE Refuses
    BY <1>1, <1>2, Stutters DEF Refuses
<1>3. ASSUME NEW uuid \in Uuids, Registers(r, uuid) PROVE LifecycleStep
    <2> DEFINE id == wire[r].id
    <2>1. /\ id \in Ids /\ wire[r].amount = disk.receipts[id].amount
          /\ disk.receipts[id].status \in {"creating", "unknown"}
          /\ \A i \in incomes : i.id # id
        BY <1>3, AskedStatus DEF Registers, Asking
    <2>2. Lifecycle!Register(id, uuid)
        BY <1>1, <1>3, <2>1
           DEF Registers, Lifecycle!Register, Lifecycle!HasStatus,
               Lifecycle!IncomeOf
    <2> QED BY <2>1, <2>2 DEF LifecycleStep, Lifecycle!Next
<1>4. CASE Annuls(r)
    <2>1. PICK i \in incomes : i.uuid = wire[r].uuid /\ i.id = wire[r].id
        BY <1>4 DEF Annuls, PastInv, PastSlots, WireKnown
    <2>2. i.id \in Ids /\ Annulling(r, i.uuid)
        BY <1>4, <2>1
           DEF Inv, TypeInv, TypeOK, Incomes, Annuls, Annulling
    <2>3. \/ disk.receipts[i.id].status \in {"cancelling", "cancel_unknown"}
          \/ i.id \in rolledBack
        BY <2>2 DEF OpenInv, Tracked, Tracks, TracksAs
    <2>4. { j.uuid : j \in Lifecycle!IncomeOf(i.id) } = {wire[r].uuid}
        BY <2>1 DEF Lifecycle!IncomeOf, Inv, AtMostOneIncome
    <2>5. Lifecycle!Annul(i.id)
        BY <1>1, <1>4, <2>3, <2>4
           DEF Annuls, Lifecycle!Annul, Lifecycle!HasStatus
    <2> QED BY <2>2, <2>5 DEF LifecycleStep, Lifecycle!Next
<1> QED BY <1>1, <1>2, <1>3, <1>4 DEF FnsOutcomes

(* A power loss takes a record back to one of its earlier ones.            *)
LEMMA GoesBack ==
    ASSUME Inv, RecordInv, PastInv, PowerLoss, NEW id \in Ids,
           disk'.receipts[id] # disk.receipts[id]
    PROVE  Lifecycle!TakenBack(id)
<1> DEFINE old == disk.receipts[id]
           new == disk'.receipts[id]
<1>1. disk \in survivors /\ disk' \in survivors /\ TypeInv
    BY DEF PowerLoss, PowerFails, Inv, MemoryIsCommitted
<1>2. /\ new.status \in Lifecycle!Earlier[old.status]
      /\ new.status # "none" => new.amount = old.amount
    BY <1>1 DEF PastInv, Lineage, Behind
<1>3. /\ new \in ReceiptRecord
      /\ old.status \in Statuses \cup {"none"}
      /\ new.status \in Statuses \cup {"none"}
    BY <1>1, SurvivorType
<1>4. new.status = "none" => \A i \in incomes : i.id # id
    <2>1. \A i \in incomes : i.id = id => new.amount = i.amount
        BY <1>1 DEF Inv, RequestPersistedFirst
    <2>2. \A i \in incomes : i.amount \in Amounts
        BY <1>1 DEF TypeInv, TypeOK, Incomes
    <2>3. new.status = "none" => new.amount = NoAmount
        BY <1>3, RecordStatus DEF NoReceipt, Record
    <2> QED BY <2>1, <2>2, <2>3, StoreAssumption
<1>5. new.uuid = IF new.status \in {"none", "creating"} THEN NoUuid
                 ELSE old.uuid
    <2>1. CASE new.status \in {"none", "creating"}
        BY <1>1, <2>1 DEF PastInv, Shapes, CreatedStatuses
    <2>2. CASE new.status \notin {"none", "creating"}
        <3>1. /\ old.status \in CreatedStatuses
              /\ new.status \in CreatedStatuses
            BY <1>2, <1>3, <2>2
               DEF Lifecycle!Earlier, Statuses, CreatedStatuses
        <3>2. HasIncome(id, old) /\ HasIncome(id, new)
            BY <1>1, <3>1 DEF RecordInv, RecordsMatchFns, HasIncome
        <3> HIDE DEF old, new
        <3>3. new.uuid = old.uuid
            BY <3>2, OneRecord DEF Inv
        <3> QED BY <2>2, <3>3
    <2> QED BY <2>1, <2>2
<1> QED BY <1>2, <1>4, <1>5 DEF Lifecycle!TakenBack, Lifecycle!IncomeOf

LEMMA DiesRefines ==
    ASSUME Inv, RecordInv, PastInv, Dies
    PROVE  LifecycleStep
<1>1. UNCHANGED <<incomes, annulled>>
    BY DEF Dies, HandlersDie, external
<1>2. CASE UNCHANGED <<disk, rolledBack>>
    BY <1>1, <1>2, Stutters
<1>3. CASE PowerLoss
    <2>1. \A id \in Ids : \/ disk'.receipts[id] = disk.receipts[id]
                          \/ Lifecycle!TakenBack(id)
        BY <1>3, GoesBack
    <2>2. rolledBack' = rolledBack \cup
            { id \in Ids : disk'.receipts[id] # disk.receipts[id] }
        BY <1>3 DEF PowerLoss
    <2>3. Lifecycle!PowerLoss
        BY <1>1, <2>1, <2>2 DEF Lifecycle!PowerLoss
    <2> QED BY <2>3 DEF LifecycleStep, Lifecycle!Next
<1> QED BY <1>2, <1>3 DEF Dies

LEMMA StepRefines ==
    ASSUME Inv, RecordInv, PastInv, OpenInv, [Next]_vars
    PROVE  LifecycleStep
<1>1. \/ Same \/ \E r \in Reqs : Looks(r) \/ Sends(r) \/ Ends(r)
      => LifecycleStep
    BY Stutters DEF Same, Looks, Sends, Ends, Quiet
<1> QED BY <1>1, StepKinds, DiesRefines, FnsRefines, CreateStepsRefine,
           CancelBeginsRefines, CancelSettlesRefines, CreateReservesRefines

(* The service implements the life of a receipt: whatever its handlers,    *)
(* its store, the network and the host do, what a client may read moves    *)
(* next to what the FNS did as ReceiptLifecycle says, when no 2xx answer   *)
(* is unreadable.                                                          *)
THEOREM Implements ==
    ASSUME CutAnswers = FALSE
    PROVE  Spec => ImplementsLifecycle
<1>1. Init => Lifecycle!Init
    BY DEF Init, StoreInit, FileInit, NewFileData, NoReceipt, Record,
           Lifecycle!Init, Lifecycle!NoReceipt
<1>2. Inv /\ RecordInv /\ PastInv /\ OpenInv /\ [Next]_vars
        => [Lifecycle!Next]_(Lifecycle!vars)
    BY StepRefines DEF LifecycleStep
<1> QED BY <1>1, <1>2, OpenInvariance, PTL
        DEF Spec, ImplementsLifecycle, Lifecycle!Spec
=============================================================================
