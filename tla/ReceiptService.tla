---------------------------- MODULE ReceiptService ----------------------------
(***************************************************************************)
(* The HTTP service of vff-fiscal: POST /v1/receipts and POST              *)
(* /v1/receipts/{id}/cancel (internal/httpapi), run by any number of       *)
(* concurrent handlers over one state store, each making at most one call  *)
(* to the FNS through internal/lknpd. The process may die and the host may *)
(* lose power between any two steps.                                       *)
(*                                                                         *)
(* A handler slot r is a goroutine serving one request after another. Its  *)
(* program counter:                                                        *)
(*   idle      no request                                                  *)
(*   read      cancel: the record was read, nothing written                *)
(*   reread    cancel: the transition to cancelling met another status     *)
(*   calling   the store says creating (cancelling); the call to the FNS   *)
(*             is next, and first of all its access token                  *)
(*   waiting   the request went out, its answer is awaited                 *)
(*   settling  the call returned; its outcome is to be stored              *)
(***************************************************************************)
EXTENDS StateStore, Upstream

CONSTANTS
    Reqs,           \* handler slots
    MaxCrashes,     \* bound on process deaths and power losses
    CutAnswers      \* may the body of a 2xx answer be unreadable?

ASSUME ServiceAssumption ==
    MaxCrashes \in Nat /\ CutAnswers \in BOOLEAN

VARIABLES
    pc,             \* pc[r]: where slot r is in its request
    call,           \* call[r]: the local variables of its handler
    wire,           \* wire[r]: the request of slot r the FNS has yet to see
    incomes,        \* the FNS: registered incomes
    annulled,       \* the FNS: UUIDs of cancelled incomes
    crashes         \* deaths so far

(* History, read by no action: what the properties refer to.               *)
VARIABLES
    asked,          \* ids whose income the FNS was asked to register
    acked,          \* <<id, amount>>: a create was answered with 200 or 201
    confirmed,      \* ids for which it was 201
    orphaned,       \* ids whose handler died or could not store its outcome
    rolledBack      \* ids whose record a power loss changed

external == <<wire, incomes, annulled>>
history == <<asked, acked, confirmed, orphaned, rolledBack>>
vars == <<up, mem, disk, survivors, pc, call, wire, incomes, annulled,
          crashes, asked, acked, confirmed, orphaned, rolledBack>>

PCs == {"idle", "read", "reread", "calling", "waiting", "settling"}
Ops == {"none", "create", "cancel"}

Call(op, id, record, outcome) ==
    [op |-> op, id |-> id, record |-> record, outcome |-> outcome]

CONSTANT NoId
ASSUME NoIdAssumption == NoId \notin Ids

NoCall == Call("none", NoId, NoReceipt, "none")

CallType == [op: Ops, id: Ids \cup {NoId}, record: ReceiptRecord,
             outcome: Outcomes \cup {"none"}]

(* A request on the wire carries the amount or the UUID; the id it is for  *)
(* is kept to state properties, the FNS does not know it.                  *)
Request(op, id, amount, uuid) ==
    [op |-> op, id |-> id, amount |-> amount, uuid |-> uuid]

NoRequest == Request("none", NoId, NoAmount, NoUuid)

Requests ==
    [op: {"create"}, id: Ids, amount: Amounts, uuid: Uuids \cup {NoUuid}]
        \cup [op: {"cancel"}, id: Ids, amount: Amounts, uuid: Uuids]

Incomes == [uuid: Uuids, id: Ids, amount: Amounts]

TypeOK ==
    /\ StoreTypeOK
    /\ pc \in [Reqs -> PCs]
    /\ call \in [Reqs -> CallType]
    /\ wire \in [Reqs -> Requests \cup {NoRequest}]
    /\ incomes \in SUBSET Incomes
    /\ annulled \in SUBSET Uuids
    /\ crashes \in 0..MaxCrashes
    /\ asked \in SUBSET Ids
    /\ acked \in SUBSET (Ids \X Amounts)
    /\ confirmed \in SUBSET Ids
    /\ orphaned \in SUBSET Ids
    /\ rolledBack \in SUBSET Ids

Init ==
    /\ StoreInit
    /\ pc = [r \in Reqs |-> "idle"]
    /\ call = [r \in Reqs |-> NoCall]
    /\ wire = [r \in Reqs |-> NoRequest]
    /\ incomes = {} /\ annulled = {}
    /\ crashes = 0
    /\ asked = {} /\ acked = {} /\ confirmed = {} /\ orphaned = {} /\ rolledBack = {}

Goto(r, label, c) ==
    /\ pc' = [pc EXCEPT ![r] = label]
    /\ call' = [call EXCEPT ![r] = c]

Reply(r) == Goto(r, "idle", NoCall)

(* A slot takes a request when it serves none and the FNS is done with the *)
(* last one it sent: slots are only names, so this bounds the requests     *)
(* that are out at once and nothing else.                                  *)
Free(r) == up /\ pc[r] = "idle" /\ wire[r] = NoRequest

-----------------------------------------------------------------------------
(* createReceipt, up to the call. A request that fails validation changes  *)
(* nothing and is left out. Mutant: a committed reservation is enough.     *)
CreateReservesUncertain(r, id, amount, w) ==
    LET record == Record("creating", amount, NoUuid) IN
    /\ Free(r)
    /\ ReserveReceipt(id, record, w)
    /\ IF Committed(w)
       THEN Goto(r, "calling", Call("create", id, record, "none"))
       ELSE UNCHANGED <<pc, call>>
    /\ UNCHANGED <<up, external, crashes, history>>

CreateReserves(r, id, amount, w) ==
    LET record == Record("creating", amount, NoUuid) IN
    /\ Free(r)
    /\ ReserveReceipt(id, record, w)
    /\ IF w = "durable"
       THEN Goto(r, "calling", Call("create", id, record, "none"))
       ELSE UNCHANGED <<pc, call>>      \* 500: failed to persist
    /\ orphaned' = IF w = "uncertain" THEN orphaned \cup {id} ELSE orphaned
    /\ UNCHANGED <<up, external, crashes, asked, acked, confirmed, rolledBack>>

(* The id has a record: the answer comes from it, 200 when the payload is  *)
(* the same and the status created or cancelled, 409 otherwise. Mutant: no *)
(* comparison.                                                             *)
PayloadAlwaysMatches(record, amount) == TRUE

PayloadMatches(record, amount) == record.amount = amount

CreateAnsweredFromRecord(r, id, amount) ==
    LET record == mem.receipts[id]
        ok == /\ PayloadMatches(record, amount)
              /\ record.status \in {"created", "cancelled"} IN
    /\ Free(r)
    /\ Exists(id)
    /\ acked' = IF ok THEN acked \cup {<<id, amount>>} ELSE acked
    /\ UNCHANGED <<up, storeVars, pc, call, external, crashes, asked,
                   confirmed, orphaned, rolledBack>>

(* cancelReceipt, up to the first write. A record with another status is   *)
(* answered from (respondExistingCancel, or 409).                          *)
CancelReads(r, id) ==
    /\ Free(r)
    /\ Status(id) = "created" /\ mem.receipts[id].uuid # NoUuid
    /\ Goto(r, "read", Call("cancel", id, mem.receipts[id], "none"))
    /\ UNCHANGED <<up, storeVars, external, crashes, history>>

(* The record written is the one read before, with the status cancelling.  *)
(* Here an uncertain write counts as done. Mutant: a mismatch of the       *)
(* status is taken for one too.                                            *)
CancelBeginsAnyway(r, w) ==
    LET id == call[r].id
        record == [call[r].record EXCEPT !.status = "cancelling"] IN
    /\ pc[r] = "read"
    /\ TransitionReceipt(id, "created", record, w)
    /\ IF Committed(w) \/ ~CanTransition(id, "created")
       THEN Goto(r, "calling", Call("cancel", id, record, "none"))
       ELSE Reply(r)
    /\ UNCHANGED <<up, external, crashes, history>>

CancelBegins(r, w) ==
    LET id == call[r].id
        record == [call[r].record EXCEPT !.status = "cancelling"] IN
    /\ pc[r] = "read"
    /\ CanTransition(id, "created")
    /\ TransitionReceipt(id, "created", record, w)
    /\ IF Committed(w)
       THEN Goto(r, "calling", Call("cancel", id, record, "none"))
       ELSE Reply(r)                    \* 500: failed to persist
    /\ UNCHANGED <<up, external, crashes, history>>

(* Another handler was faster: the record is read again for the answer.    *)
CancelLosesRace(r) ==
    /\ pc[r] = "read"
    /\ ~CanTransition(call[r].id, "created")
    /\ Goto(r, "reread", call[r])
    /\ UNCHANGED <<up, storeVars, external, crashes, history>>

CancelRereads(r) ==
    /\ pc[r] = "reread"
    /\ Reply(r)
    /\ UNCHANGED <<up, storeVars, external, crashes, history>>

-----------------------------------------------------------------------------
(* The call: authorizedJSON gets the access token, then sends. The token   *)
(* is the cached one, or a new one, which is stored with the rotated       *)
(* refresh token before it is used; the auth part of the file is not       *)
(* modelled here, the write is.                                            *)
Send(r) ==
    /\ pc' = [pc EXCEPT ![r] = "waiting"]
    /\ wire' = [wire EXCEPT ![r] =
            Request(call[r].op, call[r].id, call[r].record.amount,
                    call[r].record.uuid)]
    /\ asked' = IF call[r].op = "create" THEN asked \cup {call[r].id}
                ELSE asked
    /\ UNCHANGED call

Settle(r, outcome) ==
    Goto(r, "settling", Call(call[r].op, call[r].id, call[r].record, outcome))

SendsWithCachedToken(r) ==
    /\ pc[r] = "calling"
    /\ Send(r)
    /\ UNCHANGED <<up, storeVars, incomes, annulled, crashes, acked, confirmed,
                   orphaned, rolledBack>>

SendsWithNewToken(r, w) ==
    /\ pc[r] = "calling"
    /\ Persist(mem, w)
    /\ IF w = "durable"
       THEN Send(r)
       ELSE Settle(r, Outcome(PlainError)) /\ UNCHANGED <<wire, asked>>
    /\ UNCHANGED <<up, incomes, annulled, crashes, acked, confirmed, orphaned,
                   rolledBack>>

(* INN, refresh token or device id missing: no exchange at all. Otherwise  *)
(* the exchange for the token fails, and the call with it.                 *)
TokenExchanges ==
    { Response(status, body) : status \in {200, 401, 500}, body \in Bodies }
        \cup { NoResponse(failure) : failure \in {"timeout", "transport"} }

TokenErrors == { TokenError(x) : x \in TokenExchanges } \cup {PlainError}

TokenRefused(r) ==
    /\ pc[r] = "calling"
    /\ \E e \in TokenErrors \ {NoError} : Settle(r, Outcome(e))
    /\ UNCHANGED <<up, storeVars, external, crashes, history>>

-----------------------------------------------------------------------------
(* The FNS. It acts on a request it got and answers; the answer reaches    *)
(* the handler that still waits for it, which sees an outcome, or is lost. *)
CallError(op, x) == IF op = "create" THEN IncomeError(x) ELSE CancelError(x)

OutcomesOf(answers) ==
    [op \in {"create", "cancel"} |->
        { Outcome(CallError(op, x)) : x \in answers } \cup {"lost"}]

Unreadable == {"cut", "late", "garbage"}

(* What the FNS answers once it did what was asked: a success, or an error *)
(* of a server or gateway behind which the request was carried out.        *)
DoneAnswers ==
    { Response(status, body) : status \in {200, 500}, body \in Bodies }
        \ (IF CutAnswers THEN {}
           ELSE { Response(200, body) : body \in Unreadable })

(* What it answers when it did not: any refusal, and to a create also a    *)
(* 2xx without approvedReceiptUuid (errCodeInvalidResponse).               *)
RefusedAnswers ==
    { Response(status, body) :
        status \in {400, 401, 404, 429, 500}, body \in Bodies }

EmptyAnswers == { Response(200, body) : body \in {"empty", "lacking"} }

DoneOutcomes == OutcomesOf(DoneAnswers)
RefusedOutcomes ==
    [op \in {"create", "cancel"} |->
        OutcomesOf(IF op = "create" THEN RefusedAnswers \cup EmptyAnswers
                   ELSE RefusedAnswers)[op]]

(* On success CreateIncome returns the UUID, which goes into the record.   *)
Answered(r, uuid, outcome) ==
    LET record == Record(call[r].record.status, call[r].record.amount,
                         IF outcome = "ok" /\ call[r].op = "create" THEN uuid
                         ELSE call[r].record.uuid) IN
    IF outcome = "lost"
    THEN UNCHANGED <<pc, call>>
    ELSE /\ pc[r] = "waiting"
         /\ Goto(r, "settling", Call(call[r].op, call[r].id, record, outcome))

FnsRegisters(r, uuid) ==
    /\ wire[r].op = "create"
    /\ \A i \in incomes : i.uuid # uuid
    /\ incomes' = incomes \cup
            {[uuid |-> uuid, id |-> wire[r].id, amount |-> wire[r].amount]}
    /\ \E outcome \in DoneOutcomes["create"] : Answered(r, uuid, outcome)
    /\ wire' = [wire EXCEPT ![r] = NoRequest]
    /\ UNCHANGED <<up, storeVars, annulled, crashes, history>>

FnsAnnuls(r) ==
    /\ wire[r].op = "cancel"
    /\ annulled' = annulled \cup {wire[r].uuid}
    /\ \E outcome \in DoneOutcomes["cancel"] :
            Answered(r, wire[r].uuid, outcome)
    /\ wire' = [wire EXCEPT ![r] = NoRequest]
    /\ UNCHANGED <<up, storeVars, incomes, crashes, history>>

(* The request is refused, or it never reached the FNS.                    *)
FnsRefuses(r) ==
    /\ wire[r] # NoRequest
    /\ \E outcome \in RefusedOutcomes[wire[r].op] :
            Answered(r, wire[r].uuid, outcome)
    /\ wire' = [wire EXCEPT ![r] = NoRequest]
    /\ UNCHANGED <<up, storeVars, incomes, annulled, crashes, history>>

(* The client gives up: its timeout, a broken connection, or the client of *)
(* the handler is gone. A request already sent may still be carried out.   *)
(* Mutant: no timeout, so that nothing ends the wait for a lost answer.    *)
GivesUpWithoutTimeout(r, failure) ==
    /\ pc[r] = "waiting" /\ wire[r] # NoRequest /\ failure = "transport"
    /\ Settle(r, Outcome(CallError(call[r].op, NoResponse(failure))))
    /\ UNCHANGED <<up, storeVars, external, crashes, history>>

GivesUp(r, failure) ==
    /\ pc[r] = "waiting"
    /\ Settle(r, Outcome(CallError(call[r].op, NoResponse(failure))))
    /\ UNCHANGED <<up, storeVars, external, crashes, history>>

-----------------------------------------------------------------------------
(* createReceipt after the call returned. On success the record is put     *)
(* without a check, and any error of the write, even an uncertain one, is  *)
(* answered with 500. Mutant: an uncertain write is answered with 201.     *)
CreateSucceedsUncertain(r, w) ==
    LET id == call[r].id
        record == [call[r].record EXCEPT !.status = "created"] IN
    /\ pc[r] = "settling" /\ call[r].op = "create" /\ call[r].outcome = "ok"
    /\ PutReceipt(id, record, w)
    /\ acked' = IF Committed(w) THEN acked \cup {<<id, record.amount>>}
                ELSE acked
    /\ confirmed' = IF Committed(w) THEN confirmed \cup {id} ELSE confirmed
    /\ orphaned' = IF Committed(w) THEN orphaned ELSE orphaned \cup {id}
    /\ Reply(r)
    /\ UNCHANGED <<up, external, crashes, asked, rolledBack>>

CreateSucceeds(r, w) ==
    LET id == call[r].id
        record == [call[r].record EXCEPT !.status = "created"] IN
    /\ pc[r] = "settling" /\ call[r].op = "create" /\ call[r].outcome = "ok"
    /\ PutReceipt(id, record, w)
    /\ acked' = IF w = "durable" THEN acked \cup {<<id, record.amount>>}
                ELSE acked
    /\ confirmed' = IF w = "durable" THEN confirmed \cup {id} ELSE confirmed
    /\ orphaned' = IF Committed(w) THEN orphaned ELSE orphaned \cup {id}
    /\ Reply(r)
    /\ UNCHANGED <<up, external, crashes, asked, rolledBack>>

(* On failure the record and its event are stored in one write. When that  *)
(* is refused or fails the answer is 500 and the record stays as it was.   *)
(* Mutant: an unknown outcome is not stored.                               *)
CreateFailsDefinitely(r, w) ==
    LET id == call[r].id
        status == call[r].outcome
        record == [call[r].record EXCEPT !.status = status]
        stored == /\ CanTransitionWithEvent(id, "creating", status)
                  /\ Committed(w) IN
    /\ pc[r] = "settling" /\ call[r].op = "create" /\ status # "ok"
    /\ IF status = "failed"
       THEN TransitionReceiptWithEvent(id, "creating", record, status, w)
       ELSE UNCHANGED storeVars
    /\ orphaned' = IF stored THEN orphaned ELSE orphaned \cup {id}
    /\ Reply(r)
    /\ UNCHANGED <<up, external, crashes, asked, acked, confirmed, rolledBack>>

CreateFails(r, w) ==
    LET id == call[r].id
        status == call[r].outcome
        record == [call[r].record EXCEPT !.status = status]
        stored == /\ CanTransitionWithEvent(id, "creating", status)
                  /\ Committed(w) IN
    /\ pc[r] = "settling" /\ call[r].op = "create" /\ status # "ok"
    /\ TransitionReceiptWithEvent(id, "creating", record, status, w)
    /\ orphaned' = IF stored THEN orphaned ELSE orphaned \cup {id}
    /\ Reply(r)
    /\ UNCHANGED <<up, external, crashes, asked, acked, confirmed, rolledBack>>

(* cancelReceipt and finishCancelUpstream: a failed cancellation goes back *)
(* to created, one that may have happened to cancel_unknown. Mutants: the  *)
(* outcome itself is stored; any failure goes back to created.             *)
CancelStatusRaw(outcome) ==
    IF outcome = "unknown" THEN "cancel_unknown" ELSE outcome

CancelStatusBack(outcome) == IF outcome = "ok" THEN "cancelled" ELSE "created"

CancelStatus(outcome) ==
    CASE outcome = "ok" -> "cancelled"
      [] outcome = "unknown" -> "cancel_unknown"
      [] outcome = "failed" -> "created"

CancelSettles(r, w) ==
    LET id == call[r].id
        record == [call[r].record EXCEPT
                      !.status = CancelStatus(call[r].outcome)]
        stored == CanTransition(id, "cancelling") /\ Committed(w) IN
    /\ pc[r] = "settling" /\ call[r].op = "cancel"
    /\ TransitionReceipt(id, "cancelling", record, w)
    /\ orphaned' = IF stored THEN orphaned ELSE orphaned \cup {id}
    /\ Reply(r)
    /\ UNCHANGED <<up, external, crashes, asked, acked, confirmed, rolledBack>>

-----------------------------------------------------------------------------
(* The end of a process (a crash, a kill, or a shutdown whose ten seconds  *)
(* are over before a handler is done) and the next one.                    *)
Working(r) == pc[r] \in {"calling", "waiting", "settling"}

Owned == { call[r].id : r \in {s \in Reqs : Working(s)} }

HandlersDie ==
    /\ pc' = [r \in Reqs |-> "idle"]
    /\ call' = [r \in Reqs |-> NoCall]
    /\ orphaned' = orphaned \cup Owned
    /\ crashes < MaxCrashes /\ crashes' = crashes + 1
    /\ UNCHANGED <<external, asked, acked, confirmed>>

Crash ==
    /\ ProcessDies(NewFileData)
    /\ HandlersDie
    /\ UNCHANGED rolledBack

PowerLoss ==
    /\ PowerFails(NewFileData)
    /\ HandlersDie
    /\ rolledBack' = rolledBack \cup
            { id \in Ids : disk'.receipts[id] # disk.receipts[id] }

Restart ==
    /\ Open
    /\ UNCHANGED <<pc, call, external, crashes, history>>

-----------------------------------------------------------------------------
CreateSteps(r) ==
    \/ \E w \in WriteOutcomes : CreateSucceeds(r, w)
    \/ \E w \in WriteOutcomes : CreateFails(r, w)

CancelSteps(r) ==
    \/ \E w \in WriteOutcomes : CancelBegins(r, w)
    \/ CancelLosesRace(r)
    \/ CancelRereads(r)
    \/ \E w \in WriteOutcomes : CancelSettles(r, w)

CallSteps(r) ==
    \/ SendsWithCachedToken(r)
    \/ \E w \in WriteOutcomes : SendsWithNewToken(r, w)
    \/ TokenRefused(r)
    \/ \E failure \in {"timeout", "transport"} : GivesUp(r, failure)

HandlerStep(r) == CreateSteps(r) \/ CancelSteps(r) \/ CallSteps(r)

ClientStep(r) ==
    \/ \E id \in Ids, amount \in Amounts, w \in WriteOutcomes :
            CreateReserves(r, id, amount, w)
    \/ \E id \in Ids, amount \in Amounts :
            CreateAnsweredFromRecord(r, id, amount)
    \/ \E id \in Ids : CancelReads(r, id)

FnsStep(r) ==
    \/ \E uuid \in Uuids : FnsRegisters(r, uuid)
    \/ FnsAnnuls(r)
    \/ FnsRefuses(r)

Next ==
    \/ \E r \in Reqs : HandlerStep(r) \/ ClientStep(r) \/ FnsStep(r)
    \/ Crash
    \/ PowerLoss
    \/ Restart

Spec == Init /\ [][Next]_vars

(* A handler that can go on goes on: the HTTP client's timeout ends every  *)
(* wait and the store's mutex is held for one write. Nothing is assumed of *)
(* clients, of the FNS or of restarts.                                     *)
FairSpec == Spec /\ \A r \in Reqs : WF_vars(HandlerStep(r))

-----------------------------------------------------------------------------
(***************************************************************************)
(* Safety. What a power loss may leave is in `survivors`, which contains   *)
(* the file (MemoryIsCommitted); so a property of every survivor is one of *)
(* the file and of memory, and stays true after any power loss.            *)
(***************************************************************************)
CreatedStatuses == {"created", "cancelling", "cancelled", "cancel_unknown"}

(* Whatever crashes, retries and races happen, the FNS registers at most   *)
(* one income for an external id (createReceipt, README "idempotent").     *)
AtMostOneIncome ==
    \A i, j \in incomes : i.id = j.id => i = j

(* The service asks the FNS to register the income of an id once in its    *)
(* life, however the first request ended and however often the client      *)
(* retries, the process dies or the host loses power (README: the service  *)
(* will not repeat an operation that may already have succeeded).          *)
NeverRepeatsRequest ==
    [][\A r \in Reqs :
            wire'[r] # wire[r] /\ wire'[r].op = "create" =>
                wire'[r].id \notin asked]_wire

(* No income is asked for, and none exists, that the file does not know    *)
(* with the same payload, even after a power loss: the reservation is on   *)
(* the device before the call (createReceipt, ReserveReceipt).             *)
RequestPersistedFirst ==
    \A d \in survivors :
        /\ \A i \in incomes : d.receipts[i.id].amount = i.amount
        /\ \A r \in Reqs : wire[r].op = "create" =>
                d.receipts[wire[r].id].amount = wire[r].amount

(* A record that says created, or went on from there, names an income the  *)
(* FNS registered for that id with that payload, and one that says         *)
(* cancelled names an income the FNS annulled.                             *)
RecordsMatchFns ==
    \A d \in survivors, id \in Ids :
        LET record == d.receipts[id] IN
        /\ record.status \in CreatedStatuses =>
                [uuid |-> record.uuid, id |-> id, amount |-> record.amount]
                    \in incomes
        /\ record.status = "cancelled" => record.uuid \in annulled

(* The outbox holds exactly one event for each failed or unknown receipt,  *)
(* of that type, and no other: both are written at once                    *)
(* (TransitionReceiptWithEvent).                                           *)
OutboxMatchesReceipts ==
    \A d \in survivors :
        d.outbox = { e \in Ids \X EventTypes :
                        d.receipts[e[1]].status = e[2] }

(* A running service has in memory what is in the file: it adopts a write  *)
(* exactly when the rename happened (mutateLocked). The file is one of the *)
(* contents a power loss may leave.                                        *)
MemoryIsCommitted ==
    /\ up => mem = disk
    /\ disk \in survivors

(* While a handler talks to the FNS about a receipt no other one does, and *)
(* nobody changes the record under it: what it finds when it stores the    *)
(* outcome is what it left.                                                *)
OneWorkerPerReceipt ==
    /\ \A r, s \in Reqs :
            Working(r) /\ Working(s) /\ call[r].id = call[s].id => r = s
    /\ \A r \in Reqs : Working(r) =>
            Status(call[r].id) = IF call[r].op = "create" THEN "creating"
                                 ELSE "cancelling"

(* A receipt stays in creating or cancelling with nobody working on it     *)
(* only if a write failed or was uncertain, or the process or the host     *)
(* went down.                                                              *)
StuckOnlyAfterFault ==
    up => \A id \in Ids :
        Status(id) \in {"creating", "cancelling"} =>
            id \in Owned \cup orphaned \cup rolledBack

(* A client that got 200 or 201 for a payload has an income of it.         *)
AckedIsRegistered ==
    \A a \in acked :
        \E i \in incomes : i.id = a[1] /\ i.amount = a[2]

(* After a 201 the receipt survives every power loss.                      *)
ConfirmedSurvives ==
    \A id \in confirmed, d \in survivors :
        d.receipts[id].status \in CreatedStatuses

(* README: failed means the FNS returned a definite error; notify.go: it   *)
(* is definitely not registered, and no request is left that could still   *)
(* register it.                                                            *)
FailedIsNotRegistered ==
    \A d \in survivors, id \in Ids :
        d.receipts[id].status = "failed" =>
            /\ \A i \in incomes : i.id # id
            /\ \A r \in Reqs : ~(wire[r].op = "create" /\ wire[r].id = id)

(* README: unknown means the create request may have reached the FNS, and  *)
(* notify.go that a call whose request was never sent, for want of a       *)
(* token, is a definite failure.                                           *)
UnknownWasAsked ==
    \A d \in survivors, id \in Ids :
        d.receipts[id].status = "unknown" => id \in asked

(* An income that was cancelled at the FNS, or may still be by a request   *)
(* on the wire, is not shown as created: a cancellation is not forgotten,  *)
(* and not tried twice, unless a power loss took the record back.          *)
CancelIsTracked ==
    \A i \in incomes :
        /\ \/ i.uuid \in annulled
           \/ \E r \in Reqs : wire[r].op = "cancel" /\ wire[r].uuid = i.uuid
        /\ i.id \notin rolledBack
        => disk.receipts[i.id].status # "created"

(* How a record may change while the service runs.                         *)
NextStatuses ==
    [status \in Statuses \cup {"none"} |->
        CASE status = "none" -> {"creating"}
          [] status = "creating" -> {"created", "failed", "unknown"}
          [] status = "created" -> {"cancelling"}
          [] status = "cancelling" -> {"created", "cancelled", "cancel_unknown"}
          [] OTHER -> {}]

(* A receipt only moves forward through its life, failed, unknown,         *)
(* cancelled and cancel_unknown are final, and its payload never changes;  *)
(* a power loss alone can take it back.                                    *)
RecordsMoveForward ==
    [][up' => \A id \in Ids :
            LET old == disk.receipts[id]
                new == disk'.receipts[id] IN
            old # new =>
                /\ new.status \in NextStatuses[old.status]
                /\ old # NoReceipt => new.amount = old.amount]_disk

-----------------------------------------------------------------------------
(***************************************************************************)
(* The inductive invariant behind AtMostOneIncome, RequestPersistedFirst,  *)
(* NeverRepeatsRequest, OneWorkerPerReceipt and MemoryIsCommitted.         *)
(***************************************************************************)
Active(r) == pc[r] # "idle"

RealRecord ==
    [status: Statuses, amount: Amounts, uuid: Uuids \cup {NoUuid}]

(* What the local variables of a handler hold while it serves a request.   *)
CallsOK ==
    \A r \in Reqs : Active(r) =>
        /\ call[r].op \in {"create", "cancel"}
        /\ call[r].id \in Ids
        /\ call[r].record \in RealRecord
        /\ call[r].op = "cancel" => call[r].record.uuid \in Uuids
        /\ pc[r] \in {"read", "reread"} => call[r].op = "cancel"
        /\ pc[r] = "settling" => call[r].outcome \in Outcomes

TypeInv == TypeOK /\ CallsOK

(* No handler outlives its process, and none has an outdated payload.      *)
HandlersOK ==
    \A r \in Reqs : Active(r) =>
        /\ up
        /\ call[r].record.amount = mem.receipts[call[r].id].amount

(* Every content a power loss may leave has the payload for the id.        *)
Known(id, amount) == \A d \in survivors : d.receipts[id].amount = amount

(* The reservation is durable before the call and while it lasts.          *)
CreatesKnown ==
    \A r \in Reqs : Working(r) /\ call[r].op = "create" =>
        /\ Known(call[r].id, call[r].record.amount)
        /\ pc[r] = "calling" => call[r].id \notin asked

(* An id once asked for is never free again, even after a power loss.      *)
AskedKnown == \A id \in asked : \E amount \in Amounts : Known(id, amount)

Asking(r) == wire[r].op = "create"

(* There is one request or one income for an id, and never both.           *)
AskedOnce ==
    /\ \A r \in Reqs : Asking(r) =>
            /\ wire[r].id \in asked
            /\ \A i \in incomes : i.id # wire[r].id
    /\ \A r, s \in Reqs :
            Asking(r) /\ Asking(s) /\ wire[r].id = wire[s].id => r = s
    /\ \A i \in incomes : i.id \in asked

Inv ==
    /\ TypeInv
    /\ MemoryIsCommitted
    /\ HandlersOK
    /\ OneWorkerPerReceipt
    /\ CreatesKnown
    /\ AskedKnown
    /\ AskedOnce
    /\ RequestPersistedFirst
    /\ AtMostOneIncome

-----------------------------------------------------------------------------
(* Liveness. Every receipt that entered creating or cancelling leaves it,  *)
(* also when no answer ever comes from the FNS, unless a fault of a write, *)
(* of the process or of the host orphaned it.                              *)
InProgress(id) == disk.receipts[id].status \in {"creating", "cancelling"}

EveryReceiptSettles ==
    \A id \in Ids :
        InProgress(id) ~> ~InProgress(id) \/ id \in orphaned \cup rolledBack

-----------------------------------------------------------------------------
(* The service implements the life of a receipt (ReceiptLifecycle) when no *)
(* 2xx answer is unreadable: what a client may read is the file.           *)
Lifecycle == INSTANCE ReceiptLifecycle WITH receipts <- disk.receipts

ImplementsLifecycle == Lifecycle!Spec
=============================================================================
