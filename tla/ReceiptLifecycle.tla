-------------------------- MODULE ReceiptLifecycle --------------------------
(***************************************************************************)
(* What the receipt service promises about an external id, whatever its    *)
(* handlers, its store, the network and the host do: the life of a receipt *)
(* next to the life of its income at the FNS. It says nothing of handlers, *)
(* memory, files or requests; ReceiptService implements it.                *)
(***************************************************************************)
CONSTANTS Ids, Amounts, Uuids, NoAmount, NoUuid

VARIABLES
    receipts,       \* what a client may read about an id
    incomes,        \* what the FNS registered
    annulled,       \* UUIDs of the incomes it cancelled
    rolledBack      \* ids of which a power loss made the service forget a step

vars == <<receipts, incomes, annulled, rolledBack>>

NoReceipt == [status |-> "none", amount |-> NoAmount, uuid |-> NoUuid]

Init ==
    /\ receipts = [id \in Ids |-> NoReceipt]
    /\ incomes = {} /\ annulled = {} /\ rolledBack = {}

HasStatus(id, statuses) == receipts[id].status \in statuses

IncomeOf(id) == { i \in incomes : i.id = id }

Move(id, status) ==
    /\ receipts' = [receipts EXCEPT ![id].status = status]
    /\ UNCHANGED <<incomes, annulled, rolledBack>>

(* A client asks for a receipt: the id is taken, for good, by its payload. *)
Reserve(id, amount) ==
    /\ HasStatus(id, {"none"})
    /\ receipts' = [receipts EXCEPT ![id] =
            [status |-> "creating", amount |-> amount, uuid |-> NoUuid]]
    /\ UNCHANGED <<incomes, annulled, rolledBack>>

(* The FNS registers the income: once, with the payload of the receipt,    *)
(* and never when the client may have been told that it failed.            *)
Register(id, uuid) ==
    /\ HasStatus(id, {"creating", "unknown"})
    /\ IncomeOf(id) = {} /\ \A i \in incomes : i.uuid # uuid
    /\ incomes' = incomes \cup
            {[uuid |-> uuid, id |-> id, amount |-> receipts[id].amount]}
    /\ UNCHANGED <<receipts, annulled, rolledBack>>

Created(id) ==
    /\ HasStatus(id, {"creating"})
    /\ \E i \in IncomeOf(id) :
            receipts' = [receipts EXCEPT ![id].status = "created",
                                         ![id].uuid = i.uuid]
    /\ UNCHANGED <<incomes, annulled, rolledBack>>

Failed(id) ==
    /\ HasStatus(id, {"creating"}) /\ IncomeOf(id) = {}
    /\ Move(id, "failed")

Unknown(id) == HasStatus(id, {"creating"}) /\ Move(id, "unknown")

Cancelling(id) == HasStatus(id, {"created"}) /\ Move(id, "cancelling")

(* The FNS cancels an income only while the service says so, or after it   *)
(* lost the record of having asked.                                        *)
Annul(id) ==
    /\ HasStatus(id, {"cancelling", "cancel_unknown"}) \/ id \in rolledBack
    /\ annulled' = annulled \cup { i.uuid : i \in IncomeOf(id) }
    /\ UNCHANGED <<receipts, incomes, rolledBack>>

Cancelled(id) ==
    /\ HasStatus(id, {"cancelling"}) /\ receipts[id].uuid \in annulled
    /\ Move(id, "cancelled")

CancelUnknown(id) == HasStatus(id, {"cancelling"}) /\ Move(id, "cancel_unknown")

CancelFailed(id) ==
    /\ HasStatus(id, {"cancelling"})
    /\ receipts[id].uuid \notin annulled \/ id \in rolledBack
    /\ Move(id, "created")

(* A power loss takes receipts back to something they were before, but     *)
(* never forgets an id for which there is an income.                       *)
Earlier ==
    [status \in {"none", "creating", "created", "failed", "unknown",
                 "cancelling", "cancelled", "cancel_unknown"} |->
        CASE status = "none" -> {}
          [] status = "creating" -> {"none"}
          [] status \in {"failed", "unknown"} -> {"creating"}
          [] status = "created" -> {"creating", "cancelling"}
          [] status = "cancelling" -> {"creating", "created"}
          [] OTHER -> {"creating", "created", "cancelling"}]

TakenBack(id) ==
    LET old == receipts[id] new == receipts'[id] IN
    /\ new.status \in Earlier[old.status]
    /\ IF new.status = "none"
       THEN IncomeOf(id) = {}
       ELSE new.amount = old.amount
    /\ new.uuid = IF new.status \in {"none", "creating"} THEN NoUuid
                  ELSE old.uuid

PowerLoss ==
    /\ \A id \in Ids : receipts'[id] = receipts[id] \/ TakenBack(id)
    /\ rolledBack' = rolledBack \cup
            { id \in Ids : receipts'[id] # receipts[id] }
    /\ UNCHANGED <<incomes, annulled>>

Next ==
    \/ \E id \in Ids :
        \/ \E amount \in Amounts : Reserve(id, amount)
        \/ \E uuid \in Uuids : Register(id, uuid)
        \/ Created(id) \/ Failed(id) \/ Unknown(id)
        \/ Cancelling(id) \/ Annul(id)
        \/ Cancelled(id) \/ CancelUnknown(id) \/ CancelFailed(id)
    \/ PowerLoss

Spec == Init /\ [][Next]_vars
=============================================================================
