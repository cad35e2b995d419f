----------------------- MODULE ReceiptService_proofs -----------------------
(***************************************************************************)
(* Proofs about ReceiptService: its type invariant, and the inductive      *)
(* invariant Inv from which it follows that the service asks for an income *)
(* of an id at most once, after it has stored the request for good, and    *)
(* that one handler at a time works on a receipt.                          *)
(***************************************************************************)
EXTENDS ReceiptService, TLAPS

-----------------------------------------------------------------------------
(* The store.                                                              *)

(* A real record is one a receipt may have, and not the missing one.       *)
LEMMA RealRecordType ==
    /\ RealRecord \subseteq ReceiptRecord
    /\ ReceiptRecord = RealRecord \cup {NoReceipt}
    /\ NoReceipt \notin RealRecord
    /\ \A record \in RealRecord : record.amount \in Amounts
    /\ NoReceipt.amount = NoAmount /\ NoAmount \notin Amounts
    /\ NoReceipt.status = "none"
BY StoreAssumption DEF RealRecord, ReceiptRecord, NoReceipt, Record

LEMMA NewFileDataType == NewFileData \in FileData
BY RealRecordType DEF NewFileData, FileData

LEMMA WithReceiptType ==
    ASSUME NEW data \in FileData, NEW id \in Ids, NEW record \in RealRecord
    PROVE  /\ WithReceipt(data, id, record) \in FileData
           /\ WithReceipt(data, id, record).receipts =
                  [data.receipts EXCEPT ![id] = record]
BY RealRecordType DEF WithReceipt, FileData

LEMMA WithEventType ==
    ASSUME NEW data \in FileData, NEW id \in Ids, NEW type \in EventTypes
    PROVE  /\ WithEvent(data, id, type) \in FileData
           /\ WithEvent(data, id, type).receipts = data.receipts
BY DEF WithEvent, FileData

(* What every write of the store does: nothing, or one record is replaced. *)
Writes(id, record) ==
    \/ UNCHANGED storeVars
    \/ \E candidate \in FileData, w \in WriteOutcomes :
        /\ Persist(candidate, w)
        /\ candidate.receipts = [mem.receipts EXCEPT ![id] = record]

LEMMA PutWrites ==
    ASSUME mem \in FileData, NEW id \in Ids, NEW record \in RealRecord,
           NEW w \in WriteOutcomes, PutReceipt(id, record, w)
    PROVE  Writes(id, record)
BY WithReceiptType DEF PutReceipt, Writes

LEMMA TransitionWrites ==
    ASSUME mem \in FileData, NEW id \in Ids, NEW record \in RealRecord,
           NEW w \in WriteOutcomes, NEW expected,
           TransitionReceipt(id, expected, record, w)
    PROVE  Writes(id, record)
BY WithReceiptType DEF TransitionReceipt, Writes

LEMMA TransitionWithEventWrites ==
    ASSUME mem \in FileData, NEW id \in Ids, NEW record \in RealRecord,
           NEW w \in WriteOutcomes, NEW expected, NEW type \in EventTypes,
           TransitionReceiptWithEvent(id, expected, record, type, w)
    PROVE  Writes(id, record)
<1>1. CASE CanTransitionWithEvent(id, expected, type)
    <2> DEFINE put == WithReceipt(mem, id, record)
    <2>1. /\ put \in FileData
          /\ put.receipts = [mem.receipts EXCEPT ![id] = record]
        BY WithReceiptType
    <2> HIDE DEF put
    <2>2. /\ WithEvent(put, id, type) \in FileData
          /\ WithEvent(put, id, type).receipts = put.receipts
        BY <2>1, WithEventType
    <2>3. Persist(WithEvent(put, id, type), w)
        BY <1>1 DEF TransitionReceiptWithEvent, put
    <2> QED BY <2>1, <2>2, <2>3 DEF Writes
<1>2. CASE ~CanTransitionWithEvent(id, expected, type)
    BY <1>2 DEF TransitionReceiptWithEvent, Writes
<1> QED BY <1>1, <1>2

LEMMA PersistType ==
    ASSUME StoreTypeOK, UNCHANGED up, NEW candidate \in FileData,
           NEW w \in WriteOutcomes, Persist(candidate, w)
    PROVE  StoreTypeOK'
BY DEF Persist, StoreTypeOK, WriteOutcomes, Committed

LEMMA WritesType ==
    ASSUME StoreTypeOK, UNCHANGED up, NEW id, NEW record, Writes(id, record)
    PROVE  StoreTypeOK'
<1>1. CASE UNCHANGED storeVars
    BY <1>1 DEF StoreTypeOK, storeVars
<1>2. CASE \E candidate \in FileData, w \in WriteOutcomes :
                Persist(candidate, w)
    BY <1>2, PersistType
<1> QED BY <1>1, <1>2 DEF Writes

LEMMA PowerFailsType ==
    ASSUME StoreTypeOK, PowerFails(NewFileData)
    PROVE  StoreTypeOK'
BY NewFileDataType DEF PowerFails, StoreTypeOK

-----------------------------------------------------------------------------
(* Outcomes of calls.                                                      *)

LEMMA OutcomeType == \A e : Outcome(e) \in Outcomes
BY DEF Outcome, Outcomes, ClassifyUpstream

LEMMA OutcomesOfType ==
    ASSUME NEW answers, NEW op \in {"create", "cancel"}
    PROVE  OutcomesOf(answers)[op] \subseteq Outcomes \cup {"lost"}
BY OutcomeType DEF OutcomesOf

LEMMA FnsOutcomesType ==
    ASSUME NEW op \in {"create", "cancel"}
    PROVE  /\ DoneOutcomes[op] \subseteq Outcomes \cup {"lost"}
           /\ RefusedOutcomes[op] \subseteq Outcomes \cup {"lost"}
BY OutcomesOfType DEF DoneOutcomes, RefusedOutcomes

-----------------------------------------------------------------------------
(* Type correctness, together with what the local variables of an active   *)
(* handler hold (CallsOK): the record a handler writes is a real one.      *)

LEMMA TypeInit == Init => TypeInv
<1> SUFFICES ASSUME Init PROVE TypeInv
    OBVIOUS
<1>1. StoreTypeOK
    BY NewFileDataType DEF Init, StoreInit, FileInit, StoreTypeOK
<1>2. pc \in [Reqs -> PCs] /\ CallsOK
    BY DEF Init, PCs, CallsOK, Active
<1>3. call \in [Reqs -> CallType]
    <2>1. NoCall \in CallType
        BY RealRecordType DEF NoCall, Call, CallType, Ops
    <2> QED BY <2>1 DEF Init
<1>4. crashes \in 0..MaxCrashes
    BY ServiceAssumption DEF Init
<1> QED BY <1>1, <1>2, <1>3, <1>4 DEF Init, TypeInv, TypeOK

(* A handler that goes on to a label with a call of the right type.        *)
LEMMA GotoType ==
    ASSUME TypeInv, NEW r \in Reqs, NEW label \in PCs, NEW c \in CallType,
           Goto(r, label, c),
           label # "idle" => /\ c.op \in {"create", "cancel"}
                             /\ c.id \in Ids
                             /\ c.record \in RealRecord
                             /\ c.op = "cancel" => c.record.uuid \in Uuids
                             /\ label \in {"read", "reread"} =>
                                    c.op = "cancel"
                             /\ label = "settling" => c.outcome \in Outcomes
    PROVE  /\ pc' \in [Reqs -> PCs] /\ call' \in [Reqs -> CallType]
           /\ CallsOK'
BY DEF Goto, TypeInv, TypeOK, CallsOK, Active

LEMMA ReplyType ==
    ASSUME TypeInv, NEW r \in Reqs, Reply(r)
    PROVE  /\ pc' \in [Reqs -> PCs] /\ call' \in [Reqs -> CallType]
           /\ CallsOK'
<1>1. NoCall \in CallType /\ "idle" \in PCs
    BY RealRecordType DEF NoCall, Call, CallType, Ops, PCs
<1> QED BY <1>1, GotoType DEF Reply

LEMMA SameCallsType ==
    ASSUME TypeInv, UNCHANGED <<pc, call>>
    PROVE  /\ pc' \in [Reqs -> PCs] /\ call' \in [Reqs -> CallType]
           /\ CallsOK'
BY DEF TypeInv, TypeOK, CallsOK, Active

(* The shape of a call.                                                    *)
LEMMA CallIsCall ==
    ASSUME NEW op \in {"create", "cancel"}, NEW id \in Ids,
           NEW record \in RealRecord, NEW outcome \in Outcomes \cup {"none"}
    PROVE  LET c == Call(op, id, record, outcome) IN
           /\ c \in CallType
           /\ c.op = op /\ c.id = id /\ c.record = record
           /\ c.outcome = outcome
BY RealRecordType DEF Call, CallType, Ops

LEMMA CreateReservesType ==
    ASSUME TypeInv, NEW r \in Reqs, NEW id \in Ids, NEW amount \in Amounts,
           NEW w \in WriteOutcomes, CreateReserves(r, id, amount, w)
    PROVE  TypeInv'
<1> DEFINE record == Record("creating", amount, NoUuid)
           c == Call("create", id, record, "none")
<1>1. record \in RealRecord
    BY DEF Record, RealRecord, Statuses
<1>2. StoreTypeOK'
    <2>1. Writes(id, record)
        BY <1>1, PutWrites
           DEF CreateReserves, ReserveReceipt, PutReceipt, TypeInv, TypeOK,
               StoreTypeOK
    <2> QED BY <2>1, WritesType DEF CreateReserves, TypeInv, TypeOK
<1>3. /\ pc' \in [Reqs -> PCs] /\ call' \in [Reqs -> CallType]
      /\ CallsOK'
    <2>1. CASE w = "durable"
        <3>1. /\ c \in CallType /\ c.op = "create" /\ c.id = id
              /\ c.record = record
            BY <1>1, CallIsCall
        <3>2. Goto(r, "calling", c)
            BY <2>1 DEF CreateReserves
        <3> HIDE DEF c, record
        <3> QED BY <1>1, <3>1, <3>2, GotoType DEF PCs
    <2>2. CASE w # "durable"
        BY <2>2, SameCallsType DEF CreateReserves
    <2> QED BY <2>1, <2>2
<1>4. orphaned' \in SUBSET Ids
    BY DEF CreateReserves, TypeInv, TypeOK
<1> QED BY <1>2, <1>3, <1>4
        DEF CreateReserves, TypeInv, TypeOK, external

LEMMA CreateAnsweredFromRecordType ==
    ASSUME TypeInv, NEW r \in Reqs, NEW id \in Ids, NEW amount \in Amounts,
           CreateAnsweredFromRecord(r, id, amount)
    PROVE  TypeInv'
<1>1. StoreTypeOK'
    BY DEF CreateAnsweredFromRecord, TypeInv, TypeOK, StoreTypeOK, storeVars
<1>2. /\ pc' \in [Reqs -> PCs] /\ call' \in [Reqs -> CallType]
      /\ CallsOK'
    BY SameCallsType DEF CreateAnsweredFromRecord
<1>3. acked' \in SUBSET (Ids \X Amounts)
    BY DEF CreateAnsweredFromRecord, TypeInv, TypeOK
<1> QED BY <1>1, <1>2, <1>3
        DEF CreateAnsweredFromRecord, TypeInv, TypeOK, external

LEMMA CancelReadsType ==
    ASSUME TypeInv, NEW r \in Reqs, NEW id \in Ids, CancelReads(r, id)
    PROVE  TypeInv'
<1> DEFINE record == mem.receipts[id]
           c == Call("cancel", id, record, "none")
<1>1. record \in RealRecord /\ record.uuid \in Uuids
    <2>1. record \in RealRecord /\ record.uuid # NoUuid
        BY RealRecordType
           DEF CancelReads, Status, TypeInv, TypeOK, StoreTypeOK, FileData
    <2> HIDE DEF record
    <2> QED BY <2>1 DEF RealRecord
<1>2. /\ c \in CallType /\ c.op = "cancel" /\ c.id = id
      /\ c.record = record
    BY <1>1, CallIsCall
<1>3. Goto(r, "read", c)
    BY DEF CancelReads
<1> HIDE DEF c, record
<1>4. /\ pc' \in [Reqs -> PCs] /\ call' \in [Reqs -> CallType]
      /\ CallsOK'
    BY <1>1, <1>2, <1>3, GotoType DEF PCs
<1>5. StoreTypeOK'
    BY DEF CancelReads, TypeInv, TypeOK, StoreTypeOK, storeVars
<1> QED BY <1>4, <1>5
        DEF CancelReads, TypeInv, TypeOK, external, history

(* An active handler has a real record, and every status it gives it       *)
(* makes a real one.                                                       *)
LEMMA ActiveCall ==
    ASSUME TypeInv, NEW r \in Reqs, Active(r)
    PROVE  /\ call[r].op \in {"create", "cancel"}
           /\ call[r].id \in Ids
           /\ call[r].record \in RealRecord
           /\ call[r].op = "cancel" => call[r].record.uuid \in Uuids
           /\ pc[r] \in {"read", "reread"} => call[r].op = "cancel"
           /\ pc[r] = "settling" => call[r].outcome \in Outcomes
           /\ \A status \in Statuses :
                LET record == [call[r].record EXCEPT !.status = status] IN
                /\ record \in RealRecord
                /\ record.amount = call[r].record.amount
                /\ record.uuid = call[r].record.uuid
                /\ record.status = status
BY DEF TypeInv, CallsOK, RealRecord

LEMMA CancelBeginsType ==
    ASSUME TypeInv, NEW r \in Reqs, NEW w \in WriteOutcomes,
           CancelBegins(r, w)
    PROVE  TypeInv'
<1> DEFINE id == call[r].id
           record == [call[r].record EXCEPT !.status = "cancelling"]
           c == Call("cancel", id, record, "none")
<1>1. id \in Ids /\ record \in RealRecord /\ record.uuid \in Uuids
    BY ActiveCall DEF CancelBegins, Active, Statuses
<1>2. StoreTypeOK'
    <2>1. TransitionReceipt(id, "created", record, w)
        BY DEF CancelBegins
    <2>2. Writes(id, record)
        BY <1>1, <2>1, TransitionWrites DEF TypeInv, TypeOK, StoreTypeOK
    <2> QED BY <2>2, WritesType DEF CancelBegins, TypeInv, TypeOK
<1>3. /\ pc' \in [Reqs -> PCs] /\ call' \in [Reqs -> CallType]
      /\ CallsOK'
    <2>1. CASE Committed(w)
        <3>1. /\ c \in CallType /\ c.op = "cancel" /\ c.id = id
              /\ c.record = record
            BY <1>1, CallIsCall
        <3>2. Goto(r, "calling", c)
            BY <2>1 DEF CancelBegins
        <3> HIDE DEF c, record, id
        <3> QED BY <1>1, <3>1, <3>2, GotoType DEF PCs
    <2>2. CASE ~Committed(w)
        BY <2>2, ReplyType DEF CancelBegins
    <2> QED BY <2>1, <2>2
<1> QED BY <1>2, <1>3
        DEF CancelBegins, TypeInv, TypeOK, external, history

LEMMA CancelLosesRaceType ==
    ASSUME TypeInv, NEW r \in Reqs, CancelLosesRace(r)
    PROVE  TypeInv'
<1>1. /\ pc' \in [Reqs -> PCs] /\ call' \in [Reqs -> CallType]
      /\ CallsOK'
    BY ActiveCall, GotoType
       DEF CancelLosesRace, Active, PCs, TypeInv, TypeOK
<1>2. StoreTypeOK'
    BY DEF CancelLosesRace, TypeInv, TypeOK, StoreTypeOK, storeVars
<1> QED BY <1>1, <1>2
        DEF CancelLosesRace, TypeInv, TypeOK, external, history

LEMMA CancelRereadsType ==
    ASSUME TypeInv, NEW r \in Reqs, CancelRereads(r)
    PROVE  TypeInv'
<1>1. StoreTypeOK'
    BY DEF CancelRereads, TypeInv, TypeOK, StoreTypeOK, storeVars
<1> QED BY <1>1, ReplyType
        DEF CancelRereads, TypeInv, TypeOK, external, history

(* The call.                                                               *)
LEMMA SendType ==
    ASSUME TypeInv, NEW r \in Reqs, pc[r] = "calling", Send(r)
    PROVE  /\ pc' \in [Reqs -> PCs] /\ call' \in [Reqs -> CallType]
           /\ CallsOK'
           /\ wire' \in [Reqs -> Requests \cup {NoRequest}]
           /\ asked' \in SUBSET Ids
<1>1. Request(call[r].op, call[r].id, call[r].record.amount,
              call[r].record.uuid) \in Requests
    BY ActiveCall DEF Active, RealRecord, Request, Requests
<1>2. wire' \in [Reqs -> Requests \cup {NoRequest}]
    BY <1>1 DEF Send, TypeInv, TypeOK
<1>3. /\ pc' \in [Reqs -> PCs] /\ call' \in [Reqs -> CallType]
      /\ CallsOK'
    BY DEF Send, TypeInv, TypeOK, CallsOK, Active, PCs
<1>4. asked' \in SUBSET Ids
    BY ActiveCall DEF Active, Send, TypeInv, TypeOK
<1> QED BY <1>2, <1>3, <1>4

LEMMA SettleType ==
    ASSUME TypeInv, NEW r \in Reqs, Active(r), NEW outcome \in Outcomes,
           Settle(r, outcome)
    PROVE  /\ pc' \in [Reqs -> PCs] /\ call' \in [Reqs -> CallType]
           /\ CallsOK'
<1> DEFINE c == Call(call[r].op, call[r].id, call[r].record, outcome)
<1>1. /\ c \in CallType /\ c.op = call[r].op /\ c.id = call[r].id
      /\ c.record = call[r].record /\ c.outcome = outcome
    BY ActiveCall, CallIsCall
<1>2. Goto(r, "settling", c)
    BY DEF Settle
<1> HIDE DEF c
<1> QED BY <1>1, <1>2, ActiveCall, GotoType DEF PCs

LEMMA SendsWithCachedTokenType ==
    ASSUME TypeInv, NEW r \in Reqs, SendsWithCachedToken(r)
    PROVE  TypeInv'
<1>1. StoreTypeOK'
    BY DEF SendsWithCachedToken, TypeInv, TypeOK, StoreTypeOK, storeVars
<1> QED BY <1>1, SendType DEF SendsWithCachedToken, TypeInv, TypeOK

LEMMA SendsWithNewTokenType ==
    ASSUME TypeInv, NEW r \in Reqs, NEW w \in WriteOutcomes,
           SendsWithNewToken(r, w)
    PROVE  TypeInv'
<1>1. StoreTypeOK'
    BY PersistType DEF SendsWithNewToken, TypeInv, TypeOK, StoreTypeOK
<1>2. /\ pc' \in [Reqs -> PCs] /\ call' \in [Reqs -> CallType]
      /\ CallsOK'
      /\ wire' \in [Reqs -> Requests \cup {NoRequest}]
      /\ asked' \in SUBSET Ids
    <2>1. CASE w = "durable"
        BY <2>1, SendType DEF SendsWithNewToken
    <2>2. CASE w # "durable"
        BY <2>2, SettleType, OutcomeType
           DEF SendsWithNewToken, Active, TypeInv, TypeOK
    <2> QED BY <2>1, <2>2
<1> QED BY <1>1, <1>2 DEF SendsWithNewToken, TypeInv, TypeOK

LEMMA TokenRefusedType ==
    ASSUME TypeInv, NEW r \in Reqs, TokenRefused(r)
    PROVE  TypeInv'
<1>1. StoreTypeOK'
    BY DEF TokenRefused, TypeInv, TypeOK, StoreTypeOK, storeVars
<1>2. /\ pc' \in [Reqs -> PCs] /\ call' \in [Reqs -> CallType]
      /\ CallsOK'
    BY SettleType, OutcomeType DEF TokenRefused, Active
<1> QED BY <1>1, <1>2
        DEF TokenRefused, TypeInv, TypeOK, external, history

LEMMA GivesUpType ==
    ASSUME TypeInv, NEW r \in Reqs, NEW failure, GivesUp(r, failure)
    PROVE  TypeInv'
<1>1. StoreTypeOK'
    BY DEF GivesUp, TypeInv, TypeOK, StoreTypeOK, storeVars
<1>2. /\ pc' \in [Reqs -> PCs] /\ call' \in [Reqs -> CallType]
      /\ CallsOK'
    BY SettleType, OutcomeType DEF GivesUp, Active
<1> QED BY <1>1, <1>2 DEF GivesUp, TypeInv, TypeOK, external, history

(* The FNS.                                                                *)
LEMMA WireType ==
    ASSUME TypeInv, NEW r \in Reqs, wire[r] # NoRequest
    PROVE  /\ wire[r] \in Requests
           /\ [wire EXCEPT ![r] = NoRequest]
                \in [Reqs -> Requests \cup {NoRequest}]
BY DEF TypeInv, TypeOK

LEMMA NoRequestOp == NoRequest.op = "none"
BY DEF NoRequest, Request

LEMMA AnsweredType ==
    ASSUME TypeInv, NEW r \in Reqs, NEW uuid \in Uuids \cup {NoUuid},
           NEW outcome \in Outcomes \cup {"lost"}, Answered(r, uuid, outcome)
    PROVE  /\ pc' \in [Reqs -> PCs] /\ call' \in [Reqs -> CallType]
           /\ CallsOK'
<1>1. CASE outcome = "lost"
    BY <1>1, SameCallsType DEF Answered
<1>2. CASE outcome # "lost"
    <2> DEFINE record == Record(call[r].record.status, call[r].record.amount,
                             IF outcome = "ok" /\ call[r].op = "create"
                             THEN uuid ELSE call[r].record.uuid)
               c == Call(call[r].op, call[r].id, record, outcome)
    <2>1. Active(r) /\ Goto(r, "settling", c)
        BY <1>2 DEF Answered, Active
    <2>2. /\ record \in RealRecord
          /\ call[r].op = "cancel" => record.uuid \in Uuids
        BY <2>1, ActiveCall DEF RealRecord, Record
    <2>3. /\ c \in CallType /\ c.op = call[r].op /\ c.id = call[r].id
          /\ c.record = record /\ c.outcome = outcome
        <3>1. call[r].op \in {"create", "cancel"} /\ call[r].id \in Ids
            BY <2>1, ActiveCall
        <3>2. outcome \in Outcomes
            BY <1>2
        <3> HIDE DEF record
        <3> QED BY <2>2, <3>1, <3>2, CallIsCall
    <2> HIDE DEF c, record
    <2> QED BY <1>2, <2>1, <2>2, <2>3, ActiveCall, GotoType DEF PCs
<1> QED BY <1>1, <1>2

LEMMA FnsRegistersType ==
    ASSUME TypeInv, NEW r \in Reqs, NEW uuid \in Uuids, FnsRegisters(r, uuid)
    PROVE  TypeInv'
<1>1. wire[r] # NoRequest
    BY NoRequestOp DEF FnsRegisters
<1>2. [uuid |-> uuid, id |-> wire[r].id, amount |-> wire[r].amount] \in Incomes
    BY <1>1, WireType DEF Requests, Incomes
<1>3. PICK outcome \in DoneOutcomes["create"] : Answered(r, uuid, outcome)
    BY DEF FnsRegisters
<1>4. /\ pc' \in [Reqs -> PCs] /\ call' \in [Reqs -> CallType]
      /\ CallsOK'
    BY <1>3, AnsweredType, FnsOutcomesType
<1>5. StoreTypeOK'
    BY DEF FnsRegisters, TypeInv, TypeOK, StoreTypeOK, storeVars
<1> QED BY <1>1, <1>2, <1>4, <1>5, WireType
        DEF FnsRegisters, TypeInv, TypeOK, history

LEMMA FnsAnnulsType ==
    ASSUME TypeInv, NEW r \in Reqs, FnsAnnuls(r)
    PROVE  TypeInv'
<1>1. wire[r] # NoRequest /\ wire[r].uuid \in Uuids
    BY NoRequestOp, WireType DEF FnsAnnuls, Requests
<1>3. PICK outcome \in DoneOutcomes["cancel"] :
            Answered(r, wire[r].uuid, outcome)
    BY DEF FnsAnnuls
<1>4. /\ pc' \in [Reqs -> PCs] /\ call' \in [Reqs -> CallType]
      /\ CallsOK'
    BY <1>1, <1>3, AnsweredType, FnsOutcomesType
<1>5. StoreTypeOK'
    BY DEF FnsAnnuls, TypeInv, TypeOK, StoreTypeOK, storeVars
<1> QED BY <1>1, <1>4, <1>5, WireType
        DEF FnsAnnuls, TypeInv, TypeOK, history

LEMMA FnsRefusesType ==
    ASSUME TypeInv, NEW r \in Reqs, FnsRefuses(r)
    PROVE  TypeInv'
<1>1. wire[r] \in Requests
    BY WireType DEF FnsRefuses
<1>2. /\ wire[r].op \in {"create", "cancel"}
      /\ wire[r].uuid \in Uuids \cup {NoUuid}
    BY <1>1 DEF Requests
<1>3. PICK outcome \in RefusedOutcomes[wire[r].op] :
            Answered(r, wire[r].uuid, outcome)
    BY DEF FnsRefuses
<1>4. /\ pc' \in [Reqs -> PCs] /\ call' \in [Reqs -> CallType]
      /\ CallsOK'
    BY <1>2, <1>3, AnsweredType, FnsOutcomesType
<1>5. StoreTypeOK'
    BY DEF FnsRefuses, TypeInv, TypeOK, StoreTypeOK, storeVars
<1> QED BY <1>4, <1>5, WireType
        DEF FnsRefuses, TypeInv, TypeOK, history

(* Settling.                                                               *)
LEMMA CreateSucceedsType ==
    ASSUME TypeInv, NEW r \in Reqs, NEW w \in WriteOutcomes,
           CreateSucceeds(r, w)
    PROVE  TypeInv'
<1> DEFINE record == [call[r].record EXCEPT !.status = "created"]
<1>1. call[r].id \in Ids /\ record \in RealRecord
    BY ActiveCall DEF CreateSucceeds, Active, Statuses
<1>2. PutReceipt(call[r].id, record, w) /\ Reply(r)
    BY DEF CreateSucceeds
<1>3. StoreTypeOK'
    BY <1>1, <1>2, PutWrites, WritesType
       DEF CreateSucceeds, TypeInv, TypeOK, StoreTypeOK
<1>4. /\ acked' \in SUBSET (Ids \X Amounts) /\ confirmed' \in SUBSET Ids
      /\ orphaned' \in SUBSET Ids
    <2>1. <<call[r].id, record.amount>> \in Ids \X Amounts
        BY <1>1 DEF RealRecord
    <2> QED BY <1>1, <2>1 DEF CreateSucceeds, TypeInv, TypeOK
<1> QED BY <1>2, <1>3, <1>4, ReplyType
        DEF CreateSucceeds, TypeInv, TypeOK, external

LEMMA CreateFailsType ==
    ASSUME TypeInv, NEW r \in Reqs, NEW w \in WriteOutcomes,
           CreateFails(r, w)
    PROVE  TypeInv'
<1> DEFINE status == call[r].outcome
           record == [call[r].record EXCEPT !.status = status]
<1>1. status \in EventTypes /\ status \in Statuses
    BY ActiveCall DEF CreateFails, Active, Outcomes, EventTypes, Statuses
<1>2. call[r].id \in Ids /\ record \in RealRecord
    BY <1>1, ActiveCall DEF CreateFails, Active
<1>3. /\ TransitionReceiptWithEvent(call[r].id, "creating", record, status, w)
      /\ Reply(r)
    BY DEF CreateFails
<1> HIDE DEF record
<1>4. Writes(call[r].id, record)
    BY <1>1, <1>2, <1>3, TransitionWithEventWrites
       DEF TypeInv, TypeOK, StoreTypeOK
<1>5. StoreTypeOK'
    BY <1>4, WritesType DEF CreateFails, TypeInv, TypeOK
<1>6. orphaned' \in SUBSET Ids
    BY <1>2 DEF CreateFails, TypeInv, TypeOK
<1> QED BY <1>3, <1>5, <1>6, ReplyType
        DEF CreateFails, TypeInv, TypeOK, external

LEMMA CancelStatusType ==
    \A outcome \in Outcomes :
        CancelStatus(outcome) \in {"cancelled", "cancel_unknown", "created"}
BY DEF CancelStatus, Outcomes

LEMMA CancelSettlesType ==
    ASSUME TypeInv, NEW r \in Reqs, NEW w \in WriteOutcomes,
           CancelSettles(r, w)
    PROVE  TypeInv'
<1> DEFINE status == CancelStatus(call[r].outcome)
           record == [call[r].record EXCEPT !.status = status]
<1>1. status \in Statuses
    BY ActiveCall, CancelStatusType DEF CancelSettles, Active, Statuses
<1>2. call[r].id \in Ids /\ record \in RealRecord
    BY <1>1, ActiveCall DEF CancelSettles, Active
<1>3. TransitionReceipt(call[r].id, "cancelling", record, w) /\ Reply(r)
    BY DEF CancelSettles
<1> HIDE DEF record
<1>4. Writes(call[r].id, record)
    BY <1>2, <1>3, TransitionWrites DEF TypeInv, TypeOK, StoreTypeOK
<1>5. StoreTypeOK'
    BY <1>4, WritesType DEF CancelSettles, TypeInv, TypeOK
<1>6. orphaned' \in SUBSET Ids
    BY <1>2 DEF CancelSettles, TypeInv, TypeOK
<1> QED BY <1>3, <1>5, <1>6, ReplyType
        DEF CancelSettles, TypeInv, TypeOK, external

(* Deaths and restarts.                                                    *)
LEMMA HandlersDieType ==
    ASSUME TypeInv, HandlersDie
    PROVE  /\ pc' \in [Reqs -> PCs] /\ call' \in [Reqs -> CallType]
           /\ CallsOK'
           /\ orphaned' \in SUBSET Ids /\ crashes' \in 0..MaxCrashes
<1>1. NoCall \in CallType
    BY RealRecordType DEF NoCall, Call, CallType, Ops
<1>2. Owned \subseteq Ids
    BY ActiveCall DEF Owned, Working, Active
<1>3. crashes' \in 0..MaxCrashes
    BY ServiceAssumption DEF HandlersDie, TypeInv, TypeOK
<1>4. orphaned' \in SUBSET Ids
    BY <1>2 DEF HandlersDie, TypeInv, TypeOK
<1> QED BY <1>1, <1>3, <1>4 DEF HandlersDie, CallsOK, Active, PCs

LEMMA CrashType ==
    ASSUME TypeInv, Crash
    PROVE  TypeInv'
<1>1. StoreTypeOK'
    BY NewFileDataType DEF Crash, ProcessDies, TypeInv, TypeOK, StoreTypeOK
<1>2. HandlersDie
    BY DEF Crash
<1> QED BY <1>1, <1>2, HandlersDieType
        DEF Crash, HandlersDie, TypeInv, TypeOK, external

LEMMA PowerLossType ==
    ASSUME TypeInv, PowerLoss
    PROVE  TypeInv'
<1>1. StoreTypeOK'
    BY PowerFailsType DEF PowerLoss, TypeInv, TypeOK
<1>2. HandlersDie
    BY DEF PowerLoss
<1>3. rolledBack' \in SUBSET Ids
    BY DEF PowerLoss, TypeInv, TypeOK
<1> QED BY <1>1, <1>2, <1>3, HandlersDieType
        DEF HandlersDie, TypeInv, TypeOK, external

LEMMA RestartType ==
    ASSUME TypeInv, Restart
    PROVE  TypeInv'
<1>1. StoreTypeOK'
    BY DEF Restart, Open, TypeInv, TypeOK, StoreTypeOK
<1> QED BY <1>1, SameCallsType
        DEF Restart, TypeInv, TypeOK, external, history

LEMMA TypeStep == TypeInv /\ [Next]_vars => TypeInv'
<1> SUFFICES ASSUME TypeInv, [Next]_vars PROVE TypeInv'
    OBVIOUS
<1>1. ASSUME NEW r \in Reqs, HandlerStep(r) PROVE TypeInv'
    <2>1. ASSUME NEW w \in WriteOutcomes, CreateSucceeds(r, w) PROVE TypeInv'
        BY <2>1, CreateSucceedsType
    <2>2. ASSUME NEW w \in WriteOutcomes, CreateFails(r, w) PROVE TypeInv'
        BY <2>2, CreateFailsType
    <2>3. ASSUME NEW w \in WriteOutcomes, CancelBegins(r, w) PROVE TypeInv'
        BY <2>3, CancelBeginsType
    <2>4. CASE CancelLosesRace(r)
        BY <2>4, CancelLosesRaceType
    <2>5. CASE CancelRereads(r)
        BY <2>5, CancelRereadsType
    <2>6. ASSUME NEW w \in WriteOutcomes, CancelSettles(r, w) PROVE TypeInv'
        BY <2>6, CancelSettlesType
    <2>7. CASE SendsWithCachedToken(r)
        BY <2>7, SendsWithCachedTokenType
    <2>8. ASSUME NEW w \in WriteOutcomes, SendsWithNewToken(r, w)
          PROVE  TypeInv'
        BY <2>8, SendsWithNewTokenType
    <2>9. CASE TokenRefused(r)
        BY <2>9, TokenRefusedType
    <2>10. ASSUME NEW failure \in {"timeout", "transport"},
                  GivesUp(r, failure)
           PROVE  TypeInv'
        BY <2>10, GivesUpType
    <2> QED BY <1>1, <2>1, <2>2, <2>3, <2>4, <2>5, <2>6, <2>7, <2>8, <2>9,
               <2>10
            DEF HandlerStep, CreateSteps, CancelSteps, CallSteps
<1>2. ASSUME NEW r \in Reqs, ClientStep(r) PROVE TypeInv'
    BY <1>2, CreateReservesType, CreateAnsweredFromRecordType, CancelReadsType
       DEF ClientStep
<1>3. ASSUME NEW r \in Reqs, FnsStep(r) PROVE TypeInv'
    BY <1>3, FnsRegistersType, FnsAnnulsType, FnsRefusesType DEF FnsStep
<1>4. CASE Crash
    BY <1>4, CrashType
<1>5. CASE PowerLoss
    BY <1>5, PowerLossType
<1>6. CASE Restart
    BY <1>6, RestartType
<1>7. CASE UNCHANGED vars
    <2>1. StoreTypeOK'
        BY <1>7 DEF vars, TypeInv, TypeOK, StoreTypeOK
    <2> QED BY <1>7, <2>1 DEF vars, TypeInv, TypeOK, CallsOK, Active
<1> QED BY <1>1, <1>2, <1>3, <1>4, <1>5, <1>6, <1>7 DEF Next

(* Every variable has its type in every reachable state, whatever the      *)
(* numbers of receipts, handlers, payloads and deaths.                     *)
THEOREM TypeCorrect == Spec => []TypeOK
<1>1. Init => TypeInv
    BY TypeInit
<1>2. TypeInv /\ [Next]_vars => TypeInv'
    BY TypeStep
<1>3. TypeInv => TypeOK
    BY DEF TypeInv
<1> QED BY <1>1, <1>2, <1>3, PTL DEF Spec

-----------------------------------------------------------------------------
(* The inductive invariant. A step keeps what is known when no content a   *)
(* power loss may leave loses or changes the payload of an id that every   *)
(* one of them had.                                                        *)
KeepsKnown ==
    \A id \in Ids, amount \in Amounts : Known(id, amount) => Known(id, amount)'

(* A step keeps payloads when no record in memory changes its payload.     *)
KeepsPayloads ==
    \A id \in Ids : mem.receipts[id] # NoReceipt =>
        mem'.receipts[id].amount = mem.receipts[id].amount

(* The hypotheses of SlotStep: nobody else works on the id, or is about to *)
(* send for one that is asked for in this step; only the record of the id  *)
(* is written; the handler itself goes to a place where it may be.         *)
NoOther(r, id) == \A s \in Reqs \ {r} : Working(s) => call[s].id # id

NoneAsked(r) ==
    \A s \in Reqs \ {r} :
        Working(s) /\ call[s].op = "create" /\ pc[s] = "calling" =>
            call[s].id \notin asked'

OnlyWritten(id) == \A i \in Ids \ {id} : mem'.receipts[i] = mem.receipts[i]

MayGo(r, label, c) ==
    /\ label # "idle" => c.record.amount = mem'.receipts[c.id].amount
    /\ label \in {"calling", "waiting", "settling"} =>
        /\ NoOther(r, c.id)
        /\ mem'.receipts[c.id].status =
                IF c.op = "create" THEN "creating" ELSE "cancelling"
        /\ c.op = "create" =>
            /\ \A d \in survivors' : d.receipts[c.id].amount = c.record.amount
            /\ label = "calling" => c.id \notin asked'

LEMMA MemRecord ==
    ASSUME TypeInv, NEW id \in Ids
    PROVE  /\ mem.receipts[id] \in ReceiptRecord
           /\ mem.receipts[id].amount \in Amounts =>
                mem.receipts[id] # NoReceipt
           /\ mem.receipts[id].status # "none" =>
                mem.receipts[id] # NoReceipt
BY RealRecordType DEF TypeInv, TypeOK, StoreTypeOK, FileData

(* A write of a record that does not change the payload of its id, or of   *)
(* the first record of an id.                                              *)
LEMMA WritesKeep ==
    ASSUME TypeInv, MemoryIsCommitted, up, up' = up,
           NEW id \in Ids, NEW record \in RealRecord, Writes(id, record),
           \/ mem.receipts[id] = NoReceipt
           \/ record.amount = mem.receipts[id].amount
    PROVE  /\ MemoryIsCommitted' /\ KeepsKnown /\ KeepsPayloads
           /\ OnlyWritten(id)
           /\ mem'.receipts[id] \in {mem.receipts[id], record}
<1>1. CASE UNCHANGED storeVars
    BY <1>1 DEF storeVars, OnlyWritten, MemoryIsCommitted, KeepsKnown, KeepsPayloads, Known
<1>2. ASSUME NEW candidate \in FileData, NEW w \in WriteOutcomes,
             Persist(candidate, w),
             candidate.receipts = [mem.receipts EXCEPT ![id] = record]
      PROVE  /\ MemoryIsCommitted' /\ KeepsKnown /\ KeepsPayloads
             /\ OnlyWritten(id)
             /\ mem'.receipts[id] \in {mem.receipts[id], record}
    <2>1. mem = disk /\ mem \in survivors
        BY DEF MemoryIsCommitted
    <2>2. /\ mem' \in {mem, candidate}
          /\ mem' = disk' /\ disk' \in survivors'
          /\ survivors' \subseteq survivors \cup {candidate}
        BY <1>2, <2>1 DEF Persist, WriteOutcomes, Committed
    <2>3. mem.receipts \in [Ids -> ReceiptRecord]
        BY DEF TypeInv, TypeOK, StoreTypeOK, FileData
    <2>4. /\ \A i \in Ids \ {id} : candidate.receipts[i] = mem.receipts[i]
          /\ candidate.receipts[id] = record
        BY <1>2, <2>3
    <2>5. KeepsPayloads
        BY <2>2, <2>4 DEF KeepsPayloads
    <2>6. KeepsKnown
        <3> SUFFICES ASSUME NEW i \in Ids, NEW amount \in Amounts,
                            Known(i, amount), NEW d \in survivors'
                     PROVE  d.receipts[i].amount = amount
            BY DEF KeepsKnown, Known
        <3>1. mem.receipts[i].amount = amount
            BY <2>1 DEF Known
        <3>2. mem.receipts[i] # NoReceipt
            BY <3>1, MemRecord
        <3>3. candidate.receipts[i].amount = amount
            BY <2>4, <3>1, <3>2
        <3> QED BY <2>2, <3>3 DEF Known
    <2> QED BY <2>2, <2>4, <2>5, <2>6 DEF MemoryIsCommitted, OnlyWritten
<1> QED BY <1>1, <1>2 DEF Writes

(* A step that neither asks nor answers the FNS.                           *)
LEMMA QuietStep ==
    ASSUME Inv, KeepsKnown, UNCHANGED <<asked, wire, incomes>>
    PROVE  AskedKnown' /\ AskedOnce' /\ RequestPersistedFirst'
               /\ AtMostOneIncome'
<1>1. AskedKnown'
    <2> SUFFICES ASSUME NEW id \in asked
                 PROVE  \E amount \in Amounts : Known(id, amount)'
        BY DEF AskedKnown
    <2>1. id \in Ids
        BY DEF Inv, TypeInv, TypeOK
    <2>2. PICK amount \in Amounts : Known(id, amount)
        BY DEF Inv, AskedKnown
    <2> QED BY <2>1, <2>2 DEF KeepsKnown
<1>2. AskedOnce' /\ AtMostOneIncome'
    BY DEF Inv, AskedOnce, Asking, AtMostOneIncome
<1>3. RequestPersistedFirst'
    <2>1. \A i \in incomes : Known(i.id, i.amount)'
        <3> TAKE i \in incomes
        <3>1. i.id \in Ids /\ i.amount \in Amounts
            BY DEF Inv, TypeInv, TypeOK, Incomes
        <3>2. Known(i.id, i.amount)
            BY DEF Inv, RequestPersistedFirst, Known
        <3> QED BY <3>1, <3>2 DEF KeepsKnown
    <2>2. \A r \in Reqs : wire[r].op = "create" =>
                Known(wire[r].id, wire[r].amount)'
        <3> SUFFICES ASSUME NEW r \in Reqs, wire[r].op = "create"
                     PROVE  Known(wire[r].id, wire[r].amount)'
            OBVIOUS
        <3>1. wire[r].id \in Ids /\ wire[r].amount \in Amounts
            BY NoRequestOp, WireType DEF Inv, Requests
        <3>2. Known(wire[r].id, wire[r].amount)
            BY DEF Inv, RequestPersistedFirst, Known
        <3> QED BY <3>1, <3>2 DEF KeepsKnown
    <2> QED BY <2>1, <2>2 DEF RequestPersistedFirst, Known
<1> QED BY <1>1, <1>2, <1>3

(* A step of one handler that writes at most the record of one id: the     *)
(* others keep what they rely on if none of them works on that id.         *)
LEMMA SlotStep ==
    ASSUME Inv, TypeInv', up, up' = up, KeepsKnown, KeepsPayloads,
           NEW r \in Reqs, NEW label \in PCs, NEW c \in CallType,
           pc' = [pc EXCEPT ![r] = label], call' = [call EXCEPT ![r] = c],
           NEW id \in Ids, OnlyWritten(id), mem' = mem \/ NoOther(r, id),
           NoneAsked(r), MayGo(r, label, c)
    PROVE  HandlersOK' /\ OneWorkerPerReceipt' /\ CreatesKnown'
<1>1. /\ pc'[r] = label /\ call'[r] = c
      /\ \A s \in Reqs \ {r} : pc'[s] = pc[s] /\ call'[s] = call[s]
    BY DEF Inv, TypeInv, TypeOK
<1>2. \A s \in Reqs : Active(s) =>
            /\ call[s].id \in Ids
            /\ call[s].record.amount \in Amounts
            /\ mem.receipts[call[s].id].amount = call[s].record.amount
            /\ mem.receipts[call[s].id] # NoReceipt
    BY ActiveCall, RealRecordType, MemRecord DEF Inv, HandlersOK
<1>3. HandlersOK'
    <2> SUFFICES ASSUME NEW s \in Reqs, Active(s)'
                 PROVE  call'[s].record.amount =
                            mem'.receipts[call'[s].id].amount
        BY DEF HandlersOK
    <2>1. CASE s = r
        BY <1>1, <2>1 DEF Active, MayGo
    <2>2. CASE s # r
        BY <1>1, <1>2, <2>2 DEF Active, KeepsPayloads
    <2> QED BY <2>1, <2>2
<1>4. OneWorkerPerReceipt'
    <2>1. ASSUME NEW s \in Reqs, NEW t \in Reqs, Working(s)', Working(t)',
                 call'[s].id = call'[t].id
          PROVE  s = t
        <3>1. CASE s # r /\ t # r
            BY <1>1, <2>1, <3>1 DEF Inv, OneWorkerPerReceipt, Working
        <3>2. CASE s = r \/ t = r
            BY <1>1, <2>1, <3>2 DEF Working, MayGo, NoOther
        <3> QED BY <3>1, <3>2
    <2>2. ASSUME NEW s \in Reqs, Working(s)'
          PROVE  mem'.receipts[call'[s].id].status =
                    IF call'[s].op = "create" THEN "creating" ELSE "cancelling"
        <3>1. CASE s = r
            BY <1>1, <2>2, <3>1 DEF Working, MayGo
        <3>2. CASE s # r
            <4>1. Working(s) /\ Active(s)
                BY <1>1, <2>2, <3>2 DEF Working, Active
            <4>2. mem.receipts[call[s].id].status =
                    IF call[s].op = "create" THEN "creating" ELSE "cancelling"
                BY <4>1 DEF Inv, OneWorkerPerReceipt, Status
            <4> QED BY <1>1, <1>2, <3>2, <4>1, <4>2 DEF OnlyWritten, NoOther
        <3> QED BY <3>1, <3>2
    <2> QED BY <2>1, <2>2 DEF OneWorkerPerReceipt, Status
<1>5. CreatesKnown'
    <2> SUFFICES ASSUME NEW s \in Reqs, Working(s)', call'[s].op = "create"
                 PROVE  /\ Known(call[s].id, call[s].record.amount)'
                        /\ pc'[s] = "calling" => call'[s].id \notin asked'
        BY DEF CreatesKnown
    <2>1. CASE s = r
        BY <1>1, <2>1 DEF Working, Known, MayGo
    <2>2. CASE s # r
        <3>1. Working(s) /\ Active(s) /\ call[s].op = "create"
            BY <1>1, <2>2 DEF Working, Active
        <3>2. Known(call[s].id, call[s].record.amount)
            BY <3>1 DEF Inv, CreatesKnown
        <3>3. Known(call[s].id, call[s].record.amount)'
            BY <1>1, <1>2, <2>2, <3>1, <3>2 DEF KeepsKnown, Known
        <3> QED BY <1>1, <2>2, <3>1, <3>3 DEF NoneAsked
    <2> QED BY <2>1, <2>2
<1> QED BY <1>3, <1>4, <1>5

(* The call a slot is left with when it replies.                           *)
LEMMA IdleCall == NoCall \in CallType /\ "idle" \in PCs
BY RealRecordType DEF NoCall, Call, CallType, Ops, PCs

(* What an active handler relies on.                                       *)
LEMMA ActiveKnows ==
    ASSUME Inv, NEW r \in Reqs, Active(r)
    PROVE  /\ up
           /\ call[r].id \in Ids
           /\ call[r].record \in RealRecord
           /\ call[r].record.amount \in Amounts
           /\ mem.receipts[call[r].id] # NoReceipt
           /\ mem.receipts[call[r].id].amount = call[r].record.amount
           /\ Working(r) =>
                /\ NoOther(r, call[r].id)
                /\ mem.receipts[call[r].id].status =
                        IF call[r].op = "create" THEN "creating"
                        ELSE "cancelling"
                /\ call[r].op = "create" =>
                        Known(call[r].id, call[r].record.amount)
BY ActiveCall, MemRecord, RealRecordType
   DEF Inv, HandlersOK, OneWorkerPerReceipt, CreatesKnown, Status, NoOther

(* A handler that stores an outcome for its receipt and replies.           *)
LEMMA SettleStep ==
    ASSUME Inv, TypeInv', NEW r \in Reqs, Working(r), up' = up,
           NEW record \in RealRecord, record.amount = call[r].record.amount,
           Writes(call[r].id, record), Reply(r),
           UNCHANGED <<asked, wire, incomes>>
    PROVE  Inv'
<1>1. Active(r)
    BY DEF Working, Active
<1>2. /\ MemoryIsCommitted' /\ KeepsKnown /\ KeepsPayloads
      /\ OnlyWritten(call[r].id)
    BY <1>1, ActiveKnows, WritesKeep DEF Inv
<1>3. /\ NoOther(r, call[r].id) /\ NoneAsked(r)
      /\ MayGo(r, "idle", NoCall)
    BY <1>1, ActiveKnows DEF Inv, CreatesKnown, NoneAsked, MayGo
<1>4. /\ pc' = [pc EXCEPT ![r] = "idle"] /\ call' = [call EXCEPT ![r] = NoCall]
    BY DEF Reply, Goto
<1>5. call[r].id \in Ids /\ up
    BY <1>1, ActiveKnows
<1>6. HandlersOK' /\ OneWorkerPerReceipt' /\ CreatesKnown'
    BY <1>2, <1>3, <1>4, <1>5, IdleCall, SlotStep
<1> QED BY <1>2, <1>6, QuietStep DEF Inv

LEMMA CreateSucceedsInv ==
    ASSUME Inv, TypeInv', NEW r \in Reqs, NEW w \in WriteOutcomes,
           CreateSucceeds(r, w)
    PROVE  Inv'
<1> DEFINE record == [call[r].record EXCEPT !.status = "created"]
<1>1. Working(r) /\ Active(r) /\ TypeInv
    BY DEF CreateSucceeds, Working, Active, Inv
<1>2. /\ call[r].id \in Ids /\ record \in RealRecord
      /\ record.amount = call[r].record.amount
    BY <1>1, ActiveCall DEF Statuses
<1>3. /\ PutReceipt(call[r].id, record, w) /\ Reply(r)
      /\ UNCHANGED <<up, asked, wire, incomes>>
    BY DEF CreateSucceeds, external
<1> HIDE DEF record
<1>4. Writes(call[r].id, record)
    BY <1>1, <1>2, <1>3, PutWrites DEF TypeInv, TypeOK, StoreTypeOK
<1> QED BY <1>1, <1>2, <1>3, <1>4, SettleStep

LEMMA CreateFailsInv ==
    ASSUME Inv, TypeInv', NEW r \in Reqs, NEW w \in WriteOutcomes,
           CreateFails(r, w)
    PROVE  Inv'
<1> DEFINE status == call[r].outcome
           record == [call[r].record EXCEPT !.status = status]
<1>1. Working(r) /\ Active(r) /\ TypeInv
    BY DEF CreateFails, Working, Active, Inv
<1>2. status \in EventTypes /\ status \in Statuses
    BY <1>1, ActiveCall DEF CreateFails, Outcomes, EventTypes, Statuses
<1>3. /\ call[r].id \in Ids /\ record \in RealRecord
      /\ record.amount = call[r].record.amount
    BY <1>1, <1>2, ActiveCall
<1>4. /\ TransitionReceiptWithEvent(call[r].id, "creating", record, status, w)
      /\ Reply(r) /\ UNCHANGED <<up, asked, wire, incomes>>
    BY DEF CreateFails, external
<1> HIDE DEF record
<1>5. Writes(call[r].id, record)
    BY <1>1, <1>2, <1>3, <1>4, TransitionWithEventWrites
       DEF TypeInv, TypeOK, StoreTypeOK
<1> QED BY <1>1, <1>3, <1>4, <1>5, SettleStep

LEMMA CancelSettlesInv ==
    ASSUME Inv, TypeInv', NEW r \in Reqs, NEW w \in WriteOutcomes,
           CancelSettles(r, w)
    PROVE  Inv'
<1> DEFINE status == CancelStatus(call[r].outcome)
           record == [call[r].record EXCEPT !.status = status]
<1>1. Working(r) /\ Active(r) /\ TypeInv
    BY DEF CancelSettles, Working, Active, Inv
<1>2. status \in Statuses
    BY <1>1, ActiveCall, CancelStatusType DEF CancelSettles, Statuses
<1>3. /\ call[r].id \in Ids /\ record \in RealRecord
      /\ record.amount = call[r].record.amount
    BY <1>1, <1>2, ActiveCall
<1>4. /\ TransitionReceipt(call[r].id, "cancelling", record, w)
      /\ Reply(r) /\ UNCHANGED <<up, asked, wire, incomes>>
    BY DEF CancelSettles, external
<1> HIDE DEF record
<1>5. Writes(call[r].id, record)
    BY <1>1, <1>3, <1>4, TransitionWrites DEF TypeInv, TypeOK, StoreTypeOK
<1> QED BY <1>1, <1>3, <1>4, <1>5, SettleStep

LEMMA NoWriteKeeps ==
    ASSUME Inv, UNCHANGED <<up, storeVars>>
    PROVE  MemoryIsCommitted' /\ KeepsKnown /\ KeepsPayloads /\ mem' = mem
BY DEF Inv, storeVars, MemoryIsCommitted, KeepsKnown, KeepsPayloads, Known

(* A working handler that goes on with the same receipt.                   *)
LEMMA GoesOn ==
    ASSUME Inv, TypeInv', NEW r \in Reqs, Working(r), up' = up, mem' = mem,
           KeepsKnown, NEW label \in {"waiting", "settling"},
           NEW c \in CallType,
           c.op = call[r].op, c.id = call[r].id,
           c.record.amount = call[r].record.amount,
           pc' = [pc EXCEPT ![r] = label], call' = [call EXCEPT ![r] = c],
           asked' \subseteq asked \cup {call[r].id}
    PROVE  HandlersOK' /\ OneWorkerPerReceipt' /\ CreatesKnown'
<1>1. Active(r)
    BY DEF Working, Active
<1>2. NoneAsked(r) /\ NoOther(r, call[r].id)
    BY <1>1, ActiveKnows DEF Inv, CreatesKnown, NoneAsked, NoOther
<1>3. ASSUME c.op = "create"
      PROVE  \A d \in survivors' : d.receipts[c.id].amount = c.record.amount
    <2>1. /\ c.id \in Ids /\ c.record.amount \in Amounts
          /\ Known(c.id, c.record.amount)
        BY <1>1, <1>3, ActiveKnows DEF Known
    <2> QED BY <2>1 DEF KeepsKnown, Known
<1>4. KeepsPayloads /\ OnlyWritten(call[r].id) /\ up /\ call[r].id \in Ids
    BY <1>1, ActiveKnows DEF KeepsPayloads, OnlyWritten
<1>5. label \in PCs /\ label # "calling"
    BY DEF PCs
<1>6. MayGo(r, label, c)
    BY <1>1, <1>2, <1>3, <1>5, ActiveKnows DEF MayGo
<1> QED BY <1>2, <1>4, <1>5, <1>6, SlotStep

(* One that waits, or is about to, and sees an outcome.                    *)
LEMMA SettledStep ==
    ASSUME Inv, TypeInv', NEW r \in Reqs, Working(r), up' = up, mem' = mem,
           KeepsKnown, NEW outcome \in Outcomes, Settle(r, outcome),
           asked' = asked
    PROVE  HandlersOK' /\ OneWorkerPerReceipt' /\ CreatesKnown'
<1> DEFINE c == Call(call[r].op, call[r].id, call[r].record, outcome)
<1>1. Active(r) /\ TypeInv
    BY DEF Working, Active, Inv
<1>2. /\ c \in CallType /\ c.op = call[r].op /\ c.id = call[r].id
      /\ c.record = call[r].record
    BY <1>1, ActiveCall, CallIsCall
<1>3. pc' = [pc EXCEPT ![r] = "settling"] /\ call' = [call EXCEPT ![r] = c]
    BY DEF Settle, Goto
<1> HIDE DEF c
<1> QED BY <1>2, <1>3, GoesOn

LEMMA TokenRefusedInv ==
    ASSUME Inv, TypeInv', NEW r \in Reqs, TokenRefused(r)
    PROVE  Inv'
<1>1. /\ Working(r)
      /\ UNCHANGED <<up, storeVars, asked, wire, incomes>>
      /\ \E outcome \in Outcomes : Settle(r, outcome)
    BY OutcomeType DEF TokenRefused, Working, external, history
<1>2. MemoryIsCommitted' /\ KeepsKnown /\ mem' = mem
    BY <1>1, NoWriteKeeps
<1>3. HandlersOK' /\ OneWorkerPerReceipt' /\ CreatesKnown'
    BY <1>1, <1>2, SettledStep
<1> QED BY <1>1, <1>2, <1>3, QuietStep DEF Inv

LEMMA GivesUpInv ==
    ASSUME Inv, TypeInv', NEW r \in Reqs, NEW failure, GivesUp(r, failure)
    PROVE  Inv'
<1>1. /\ Working(r)
      /\ UNCHANGED <<up, storeVars, asked, wire, incomes>>
      /\ \E outcome \in Outcomes : Settle(r, outcome)
    BY OutcomeType DEF GivesUp, Working, external, history
<1>2. MemoryIsCommitted' /\ KeepsKnown /\ mem' = mem
    BY <1>1, NoWriteKeeps
<1>3. HandlersOK' /\ OneWorkerPerReceipt' /\ CreatesKnown'
    BY <1>1, <1>2, SettledStep
<1> QED BY <1>1, <1>2, <1>3, QuietStep DEF Inv

(* A handler that sends: a create for an id never asked for before.        *)
LEMMA SendStep ==
    ASSUME Inv, TypeInv', NEW r \in Reqs, pc[r] = "calling", Send(r),
           up' = up, mem' = mem, KeepsKnown, MemoryIsCommitted',
           incomes' = incomes
    PROVE  Inv'
<1> DEFINE id == call[r].id
<1>1. Working(r) /\ Active(r) /\ TypeInv
    BY DEF Working, Active, Inv
<1>2. /\ id \in Ids /\ call[r].record.amount \in Amounts
      /\ call[r].op = "create" =>
            Known(id, call[r].record.amount) /\ id \notin asked
    BY <1>1, ActiveKnows DEF Inv, CreatesKnown
<1>3. HandlersOK' /\ OneWorkerPerReceipt' /\ CreatesKnown'
    <2>1. /\ call[r] \in CallType
          /\ pc' = [pc EXCEPT ![r] = "waiting"]
          /\ call' = [call EXCEPT ![r] = call[r]]
        BY <1>1 DEF Send, TypeInv, TypeOK
    <2>2. asked' \subseteq asked \cup {call[r].id}
        BY DEF Send
    <2> QED BY <1>1, <2>1, <2>2, GoesOn
<1>4. /\ wire'[r].op = call[r].op /\ wire'[r].id = id
      /\ wire'[r].amount = call[r].record.amount
      /\ \A s \in Reqs \ {r} : wire'[s] = wire[s]
      /\ asked' = IF call[r].op = "create" THEN asked \cup {id} ELSE asked
    BY <1>1 DEF Send, Request, TypeInv, TypeOK
<1> HIDE DEF id
<1>5. AskedKnown'
    <2> SUFFICES ASSUME NEW i \in asked'
                 PROVE  \E amount \in Amounts : Known(i, amount)'
        BY DEF AskedKnown
    <2>1. i \in Ids /\ \E amount \in Amounts : Known(i, amount)
        BY <1>1, <1>2, <1>4 DEF Inv, AskedKnown, TypeInv, TypeOK
    <2> QED BY <2>1 DEF KeepsKnown
<1>6. AskedOnce' /\ AtMostOneIncome'
    <2>1. \A s \in Reqs : Asking(s)' =>
            /\ wire'[s].id \in asked'
            /\ \A i \in incomes' : i.id # wire'[s].id
        BY <1>2, <1>4 DEF Inv, AskedOnce, Asking
    <2>2. \A s, t \in Reqs :
            Asking(s)' /\ Asking(t)' /\ wire'[s].id = wire'[t].id => s = t
        BY <1>2, <1>4 DEF Inv, AskedOnce, Asking
    <2>3. \A i \in incomes' : i.id \in asked'
        BY <1>4 DEF Inv, AskedOnce
    <2> QED BY <2>1, <2>2, <2>3 DEF Inv, AskedOnce, AtMostOneIncome
<1>7. RequestPersistedFirst'
    <2>1. \A i \in incomes : Known(i.id, i.amount)'
        <3> TAKE i \in incomes
        <3>1. i.id \in Ids /\ i.amount \in Amounts
            BY <1>1 DEF TypeInv, TypeOK, Incomes
        <3>2. Known(i.id, i.amount)
            BY DEF Inv, RequestPersistedFirst, Known
        <3> QED BY <3>1, <3>2 DEF KeepsKnown
    <2>2. ASSUME NEW s \in Reqs, wire'[s].op = "create"
          PROVE  \A d \in survivors' :
                    d.receipts[wire'[s].id].amount = wire'[s].amount
        <3>1. CASE s = r
            BY <1>2, <1>4, <2>2, <3>1 DEF KeepsKnown, Known
        <3>2. CASE s # r
            <4>1. wire[s].op = "create"
                BY <1>4, <2>2, <3>2
            <4>2. wire[s].id \in Ids /\ wire[s].amount \in Amounts
                BY <1>1, <4>1, NoRequestOp, WireType DEF Requests
            <4>3. Known(wire[s].id, wire[s].amount)
                BY <4>1 DEF Inv, RequestPersistedFirst, Known
            <4> QED BY <1>4, <3>2, <4>2, <4>3 DEF KeepsKnown, Known
        <3> QED BY <3>1, <3>2
    <2> QED BY <2>1, <2>2 DEF RequestPersistedFirst, Known
<1> QED BY <1>3, <1>5, <1>6, <1>7 DEF Inv

LEMMA SendsWithCachedTokenInv ==
    ASSUME Inv, TypeInv', NEW r \in Reqs, SendsWithCachedToken(r)
    PROVE  Inv'
<1>1. pc[r] = "calling" /\ Send(r) /\ UNCHANGED <<up, storeVars, incomes>>
    BY DEF SendsWithCachedToken
<1> QED BY <1>1, NoWriteKeeps, SendStep

LEMMA SendsWithNewTokenInv ==
    ASSUME Inv, TypeInv', NEW r \in Reqs, NEW w \in WriteOutcomes,
           SendsWithNewToken(r, w)
    PROVE  Inv'
<1> DEFINE id == call[r].id
           record == mem.receipts[id]
<1>1. /\ pc[r] = "calling" /\ Persist(mem, w) /\ UNCHANGED <<up, incomes>>
      /\ Working(r) /\ Active(r) /\ TypeInv
    BY DEF SendsWithNewToken, Working, Active, Inv
<1>2. id \in Ids /\ record \in RealRecord /\ up
    BY <1>1, ActiveKnows, MemRecord, RealRecordType
<1>3. Writes(id, record)
    <2>1. mem \in FileData /\ mem.receipts = [mem.receipts EXCEPT ![id] = record]
        BY <1>1 DEF TypeInv, TypeOK, StoreTypeOK, FileData
    <2> QED BY <1>1, <2>1 DEF Writes
<1>4. MemoryIsCommitted' /\ KeepsKnown /\ mem' = mem
    <2> HIDE DEF record
    <2>1. record.amount = mem.receipts[id].amount
        BY DEF record
    <2>2. mem' = mem
        BY <1>1 DEF Persist
    <2> QED BY <1>1, <1>2, <1>3, <2>1, <2>2, WritesKeep DEF Inv
<1>5. CASE w = "durable"
    BY <1>1, <1>4, <1>5, SendStep DEF SendsWithNewToken
<1>6. CASE w # "durable"
    <2>1. /\ Settle(r, Outcome(PlainError))
          /\ UNCHANGED <<asked, wire, incomes>>
        BY <1>6 DEF SendsWithNewToken
    <2>2. HandlersOK' /\ OneWorkerPerReceipt' /\ CreatesKnown'
        BY <1>1, <1>4, <2>1, OutcomeType, SettledStep
    <2> QED BY <1>4, <2>1, <2>2, QuietStep DEF Inv
<1> QED BY <1>5, <1>6

(* Steps of clients.                                                       *)

(* An id without a record was never asked for.                             *)
LEMMA FreshId ==
    ASSUME Inv, up, NEW id \in Ids, mem.receipts[id] = NoReceipt
    PROVE  id \notin asked
<1>1. mem \in survivors
    BY DEF Inv, MemoryIsCommitted
<1>2. mem.receipts[id].amount \notin Amounts
    BY RealRecordType
<1> QED BY <1>1, <1>2 DEF Inv, AskedKnown, Known

LEMMA CreateReservesInv ==
    ASSUME Inv, TypeInv', NEW r \in Reqs, NEW id \in Ids,
           NEW amount \in Amounts, NEW w \in WriteOutcomes,
           CreateReserves(r, id, amount, w)
    PROVE  Inv'
<1> DEFINE record == Record("creating", amount, NoUuid)
           c == Call("create", id, record, "none")
<1>1. /\ record \in RealRecord /\ record.amount = amount
      /\ record.status = "creating"
    BY DEF Record, RealRecord, Statuses
<1>2. /\ up /\ up' = up /\ pc[r] = "idle" /\ mem.receipts[id] = NoReceipt
      /\ Persist(WithReceipt(mem, id, record), w)
      /\ UNCHANGED <<asked, wire, incomes>>
    BY DEF CreateReserves, Free, ReserveReceipt, Exists, external
<1>3. TypeInv /\ MemoryIsCommitted
    BY DEF Inv
<1>4. mem \in FileData
    BY <1>3 DEF TypeInv, TypeOK, StoreTypeOK
<1>5. c \in CallType /\ c.op = "create" /\ c.id = id /\ c.record = record
    BY <1>1, CallIsCall
<1>6. /\ WithReceipt(mem, id, record) \in FileData
      /\ WithReceipt(mem, id, record).receipts =
            [mem.receipts EXCEPT ![id] = record]
      /\ WithReceipt(mem, id, record).receipts[id] = record
    BY <1>1, <1>4, WithReceiptType DEF FileData
<1>7. w = "durable" => pc' = [pc EXCEPT ![r] = "calling"]
                        /\ call' = [call EXCEPT ![r] = c]
    BY DEF CreateReserves, Goto
<1>8. w # "durable" => UNCHANGED <<pc, call>>
    BY DEF CreateReserves
<1> HIDE DEF record, c
<1>9. Writes(id, record)
    BY <1>2, <1>6 DEF Writes
<1>10. /\ MemoryIsCommitted' /\ KeepsKnown /\ KeepsPayloads
       /\ OnlyWritten(id)
    BY <1>1, <1>2, <1>3, <1>9, WritesKeep
<1>11. NoOther(r, id) /\ NoneAsked(r)
    <2>1. \A s \in Reqs : Working(s) => Active(s)
        BY DEF Working, Active
    <2>2. NoOther(r, id)
        BY <1>2, <2>1, ActiveKnows DEF NoOther
    <2>3. NoneAsked(r)
        BY <1>2 DEF Inv, CreatesKnown, NoneAsked
    <2> QED BY <2>2, <2>3
<1>12. HandlersOK' /\ OneWorkerPerReceipt' /\ CreatesKnown'
    <2>1. CASE w = "durable"
        <3>1. mem' = WithReceipt(mem, id, record) /\ survivors' = {mem'}
            BY <1>2, <2>1 DEF Persist, Committed
        <3>2. id \notin asked'
            BY <1>2, FreshId
        <3>3. /\ c.record.amount = mem'.receipts[c.id].amount
              /\ mem'.receipts[c.id].status = "creating"
              /\ \A d \in survivors' :
                    d.receipts[c.id].amount = c.record.amount
            BY <1>1, <1>5, <1>6, <3>1
        <3>4. MayGo(r, "calling", c)
            BY <1>5, <1>11, <3>2, <3>3 DEF MayGo
        <3>5. "calling" \in PCs
            BY DEF PCs
        <3> QED BY <1>2, <1>5, <1>7, <1>10, <1>11, <2>1, <3>4, <3>5, SlotStep
    <2>2. CASE w # "durable"
        <3>1. /\ call[r] \in CallType
              /\ pc' = [pc EXCEPT ![r] = "idle"]
              /\ call' = [call EXCEPT ![r] = call[r]]
            BY <1>2, <1>3, <1>8, <2>2 DEF TypeInv, TypeOK
        <3>2. MayGo(r, "idle", call[r])
            BY DEF MayGo
        <3> QED BY <1>2, <1>10, <1>11, <3>1, <3>2, IdleCall, SlotStep
    <2> QED BY <2>1, <2>2
<1> QED BY <1>2, <1>10, <1>12, QuietStep DEF Inv

(* A step that writes nothing and moves one handler to a place outside the *)
(* call.                                                                   *)
LEMMA ReadStep ==
    ASSUME Inv, TypeInv', up, UNCHANGED <<up, storeVars, asked, wire, incomes>>,
           NEW r \in Reqs, NEW label \in {"idle", "read", "reread"},
           NEW c \in CallType, Goto(r, label, c), NEW id \in Ids,
           label # "idle" => c.record.amount = mem.receipts[c.id].amount
    PROVE  Inv'
<1>1. MemoryIsCommitted' /\ KeepsKnown /\ KeepsPayloads /\ mem' = mem
    BY NoWriteKeeps
<1>2. OnlyWritten(id) /\ NoneAsked(r) /\ label \in PCs
    BY <1>1 DEF Inv, CreatesKnown, NoneAsked, OnlyWritten, PCs
<1>3. MayGo(r, label, c)
    BY <1>1 DEF MayGo
<1>4. HandlersOK' /\ OneWorkerPerReceipt' /\ CreatesKnown'
    BY <1>1, <1>2, <1>3, SlotStep DEF Goto
<1> QED BY <1>1, <1>4, QuietStep DEF Inv

LEMMA CreateAnsweredFromRecordInv ==
    ASSUME Inv, TypeInv', NEW r \in Reqs, NEW id \in Ids,
           NEW amount \in Amounts, CreateAnsweredFromRecord(r, id, amount)
    PROVE  Inv'
<1>1. /\ up /\ UNCHANGED <<up, storeVars, asked, wire, incomes>>
      /\ Goto(r, "idle", call[r]) /\ call[r] \in CallType
    BY DEF CreateAnsweredFromRecord, Free, Goto, external, Inv, TypeInv, TypeOK
<1> QED BY <1>1, ReadStep

LEMMA CancelReadsInv ==
    ASSUME Inv, TypeInv', NEW r \in Reqs, NEW id \in Ids, CancelReads(r, id)
    PROVE  Inv'
<1> DEFINE record == mem.receipts[id]
           c == Call("cancel", id, record, "none")
<1>1. /\ up /\ UNCHANGED <<up, storeVars, asked, wire, incomes>>
      /\ Goto(r, "read", c) /\ record.status = "created"
    BY DEF CancelReads, Free, Status, external, history
<1>2. record \in RealRecord
    BY <1>1, MemRecord, RealRecordType DEF Inv
<1>3. c \in CallType /\ c.id = id /\ c.record = record
    BY <1>2, CallIsCall
<1>4. c.record.amount = mem.receipts[c.id].amount
    BY <1>3
<1> HIDE DEF c, record
<1> QED BY <1>1, <1>3, <1>4, ReadStep

LEMMA CancelLosesRaceInv ==
    ASSUME Inv, TypeInv', NEW r \in Reqs, CancelLosesRace(r)
    PROVE  Inv'
<1>1. /\ Active(r) /\ UNCHANGED <<up, storeVars, asked, wire, incomes>>
      /\ Goto(r, "reread", call[r]) /\ call[r] \in CallType
    BY DEF CancelLosesRace, Active, external, history, Inv, TypeInv, TypeOK
<1>2. /\ up /\ call[r].id \in Ids
      /\ call[r].record.amount = mem.receipts[call[r].id].amount
    BY <1>1, ActiveKnows
<1> QED BY <1>1, <1>2, ReadStep

LEMMA CancelRereadsInv ==
    ASSUME Inv, TypeInv', NEW r \in Reqs, CancelRereads(r)
    PROVE  Inv'
<1>1. /\ Active(r) /\ UNCHANGED <<up, storeVars, asked, wire, incomes>>
      /\ Goto(r, "idle", NoCall)
    BY DEF CancelRereads, Active, Reply, external, history
<1>2. up /\ call[r].id \in Ids
    BY <1>1, ActiveKnows
<1> QED BY <1>1, <1>2, IdleCall, ReadStep

LEMMA CancelBeginsInv ==
    ASSUME Inv, TypeInv', NEW r \in Reqs, NEW w \in WriteOutcomes,
           CancelBegins(r, w)
    PROVE  Inv'
<1> DEFINE id == call[r].id
           record == [call[r].record EXCEPT !.status = "cancelling"]
           c == Call("cancel", id, record, "none")
<1>1. /\ Active(r) /\ TypeInv /\ MemoryIsCommitted
      /\ mem.receipts[id].status = "created"
      /\ TransitionReceipt(id, "created", record, w)
      /\ UNCHANGED <<up, asked, wire, incomes>>
    BY DEF CancelBegins, Active, Inv, CanTransition, Status, external, history
<1>2. /\ up /\ id \in Ids /\ record \in RealRecord
      /\ record.amount = mem.receipts[id].amount
      /\ record.status = "cancelling"
    <2>1. "cancelling" \in Statuses
        BY DEF Statuses
    <2>2. up /\ id \in Ids /\ call[r].record.amount = mem.receipts[id].amount
        BY <1>1, ActiveKnows
    <2>3. /\ record \in RealRecord
          /\ record.amount = call[r].record.amount
          /\ record.status = "cancelling"
        BY <1>1, <2>1, ActiveCall
    <2> QED BY <2>2, <2>3
<1>3. mem \in FileData /\ CanTransition(id, "created")
    BY <1>1 DEF TypeInv, TypeOK, StoreTypeOK, CancelBegins
<1>4. Writes(id, record)
    <2> HIDE DEF id, record
    <2> QED BY <1>1, <1>2, <1>3, TransitionWrites
<1>5. /\ MemoryIsCommitted' /\ KeepsKnown /\ KeepsPayloads
      /\ OnlyWritten(id)
    <2> HIDE DEF id, record
    <2> QED BY <1>1, <1>2, <1>4, WritesKeep
<1>6. NoOther(r, id) /\ NoneAsked(r)
    <2>1. \A s \in Reqs : Working(s) =>
            mem.receipts[call[s].id].status \in {"creating", "cancelling"}
        BY DEF Inv, OneWorkerPerReceipt, Status
    <2>2. NoOther(r, id)
        BY <1>1, <2>1 DEF NoOther
    <2>3. NoneAsked(r)
        BY <1>1 DEF Inv, CreatesKnown, NoneAsked
    <2> QED BY <2>2, <2>3
<1>7. HandlersOK' /\ OneWorkerPerReceipt' /\ CreatesKnown'
    <2>1. CASE Committed(w)
        <3>1. Persist(WithReceipt(mem, id, record), w)
            BY <1>1, <1>3 DEF TransitionReceipt
        <3>2. c \in CallType /\ c.op = "cancel" /\ c.id = id /\ c.record = record
            BY <1>2, CallIsCall
        <3>3. /\ pc' = [pc EXCEPT ![r] = "calling"]
              /\ call' = [call EXCEPT ![r] = c]
            BY <2>1 DEF CancelBegins, Goto
        <3> HIDE DEF id, record, c
        <3>4. mem'.receipts[id] = record
            <4>1. mem' = WithReceipt(mem, id, record)
                BY <2>1, <3>1 DEF Persist
            <4>2. WithReceipt(mem, id, record).receipts =
                    [mem.receipts EXCEPT ![id] = record]
                BY <1>2, <1>3, WithReceiptType
            <4>3. mem.receipts \in [Ids -> ReceiptRecord]
                BY <1>3 DEF FileData
            <4> QED BY <1>2, <4>1, <4>2, <4>3
        <3>5. MayGo(r, "calling", c)
            BY <1>2, <1>6, <3>2, <3>4 DEF MayGo
        <3>6. "calling" \in PCs
            BY DEF PCs
        <3> QED BY <1>1, <1>2, <1>5, <1>6, <3>2, <3>3, <3>5, <3>6, SlotStep
    <2>2. CASE ~Committed(w)
        <3>1. Goto(r, "idle", NoCall)
            BY <2>2 DEF CancelBegins, Reply
        <3>2. MayGo(r, "idle", NoCall)
            BY DEF MayGo
        <3> HIDE DEF id, record, c
        <3> QED BY <1>1, <1>2, <1>5, <1>6, <3>1, <3>2, IdleCall, SlotStep
                DEF Goto
    <2> QED BY <2>1, <2>2
<1> QED BY <1>1, <1>5, <1>7, QuietStep DEF Inv

(* Steps of the FNS.                                                       *)

(* The answer reaches the handler that waits for it, or none.              *)
LEMMA AnsweredStep ==
    ASSUME Inv, TypeInv', NEW r \in Reqs, NEW uuid \in Uuids \cup {NoUuid},
           NEW outcome \in Outcomes \cup {"lost"}, Answered(r, uuid, outcome),
           UNCHANGED <<up, storeVars, asked>>
    PROVE  HandlersOK' /\ OneWorkerPerReceipt' /\ CreatesKnown'
<1>1. CASE outcome = "lost"
    <2>1. UNCHANGED <<pc, call>>
        BY <1>1 DEF Answered
    <2> QED BY <2>1 DEF Inv, storeVars, HandlersOK, OneWorkerPerReceipt,
                        CreatesKnown, Active, Working, Known, Status
<1>2. CASE outcome # "lost"
    <2> DEFINE record == Record(call[r].record.status, call[r].record.amount,
                             IF outcome = "ok" /\ call[r].op = "create"
                             THEN uuid ELSE call[r].record.uuid)
               c == Call(call[r].op, call[r].id, record, outcome)
    <2>1. Working(r) /\ Active(r) /\ Goto(r, "settling", c) /\ TypeInv
        BY <1>2 DEF Answered, Active, Working, Inv
    <2>2. record \in RealRecord /\ record.amount = call[r].record.amount
        BY <2>1, ActiveCall DEF RealRecord, Record
    <2>3. /\ c \in CallType /\ c.op = call[r].op /\ c.id = call[r].id
          /\ c.record = record
        <3>1. call[r].op \in {"create", "cancel"} /\ call[r].id \in Ids
            BY <2>1, ActiveCall
        <3>2. outcome \in Outcomes
            BY <1>2
        <3> HIDE DEF record
        <3> QED BY <2>2, <3>1, <3>2, CallIsCall
    <2> HIDE DEF c, record
    <2> QED BY <2>1, <2>2, <2>3, NoWriteKeeps, GoesOn DEF Goto
<1> QED BY <1>1, <1>2

(* A request that is gone is one less to care about.                       *)
LEMMA WireEmptied ==
    ASSUME Inv, NEW r \in Reqs, wire' = [wire EXCEPT ![r] = NoRequest]
    PROVE  /\ wire'[r].op = "none"
           /\ \A s \in Reqs \ {r} : wire'[s] = wire[s]
BY NoRequestOp DEF Inv, TypeInv, TypeOK

LEMMA NoIncomeStep ==
    ASSUME Inv, TypeInv', NEW r \in Reqs,
           wire' = [wire EXCEPT ![r] = NoRequest],
           UNCHANGED <<up, storeVars, incomes, asked>>,
           HandlersOK', OneWorkerPerReceipt', CreatesKnown'
    PROVE  Inv'
<1>1. MemoryIsCommitted' /\ AskedKnown'
    BY DEF Inv, storeVars, MemoryIsCommitted, AskedKnown, Known
<1>2. \A s \in Reqs : wire'[s].op = "create" =>
            wire[s].op = "create" /\ wire'[s] = wire[s]
    BY WireEmptied
<1>3. AskedOnce' /\ AtMostOneIncome'
    BY <1>2 DEF Inv, AskedOnce, Asking, AtMostOneIncome
<1>4. RequestPersistedFirst'
    BY <1>2 DEF Inv, storeVars, RequestPersistedFirst
<1> QED BY <1>1, <1>3, <1>4 DEF Inv

LEMMA FnsAnnulsInv ==
    ASSUME Inv, TypeInv', NEW r \in Reqs, FnsAnnuls(r)
    PROVE  Inv'
<1>1. wire[r].uuid \in Uuids
    BY NoRequestOp, WireType DEF FnsAnnuls, Inv, Requests
<1>2. /\ \E outcome \in Outcomes \cup {"lost"} :
            Answered(r, wire[r].uuid, outcome)
      /\ wire' = [wire EXCEPT ![r] = NoRequest]
      /\ UNCHANGED <<up, storeVars, incomes, asked>>
    BY FnsOutcomesType DEF FnsAnnuls, history
<1>3. HandlersOK' /\ OneWorkerPerReceipt' /\ CreatesKnown'
    BY <1>1, <1>2, AnsweredStep
<1> QED BY <1>2, <1>3, NoIncomeStep

LEMMA FnsRefusesInv ==
    ASSUME Inv, TypeInv', NEW r \in Reqs, FnsRefuses(r)
    PROVE  Inv'
<1>1. /\ wire[r].op \in {"create", "cancel"}
      /\ wire[r].uuid \in Uuids \cup {NoUuid}
    BY WireType DEF FnsRefuses, Inv, Requests
<1>2. /\ \E outcome \in Outcomes \cup {"lost"} :
            Answered(r, wire[r].uuid, outcome)
      /\ wire' = [wire EXCEPT ![r] = NoRequest]
      /\ UNCHANGED <<up, storeVars, incomes, asked>>
    BY <1>1, FnsOutcomesType DEF FnsRefuses, history
<1>3. HandlersOK' /\ OneWorkerPerReceipt' /\ CreatesKnown'
    BY <1>1, <1>2, AnsweredStep
<1> QED BY <1>2, <1>3, NoIncomeStep

(* The one request for an id becomes its one income.                       *)
LEMMA FnsRegistersInv ==
    ASSUME Inv, TypeInv', NEW r \in Reqs, NEW uuid \in Uuids,
           FnsRegisters(r, uuid)
    PROVE  Inv'
<1> DEFINE new == [uuid |-> uuid, id |-> wire[r].id, amount |-> wire[r].amount]
<1>1. /\ wire[r].op = "create"
      /\ incomes' = incomes \cup {new}
      /\ \E outcome \in Outcomes \cup {"lost"} : Answered(r, uuid, outcome)
      /\ wire' = [wire EXCEPT ![r] = NoRequest]
      /\ UNCHANGED <<up, storeVars, asked>>
    BY FnsOutcomesType DEF FnsRegisters, history
<1>2. HandlersOK' /\ OneWorkerPerReceipt' /\ CreatesKnown'
    BY <1>1, AnsweredStep
<1>3. MemoryIsCommitted' /\ AskedKnown'
    BY <1>1 DEF Inv, storeVars, MemoryIsCommitted, AskedKnown, Known
<1>4. \A s \in Reqs : wire'[s].op = "create" =>
            s # r /\ wire[s].op = "create" /\ wire'[s] = wire[s]
    BY <1>1, WireEmptied
<1>5. /\ wire[r].id \in asked
      /\ \A i \in incomes : i.id # wire[r].id
      /\ \A s \in Reqs \ {r} :
            wire[s].op = "create" => wire[s].id # wire[r].id
    BY <1>1 DEF Inv, AskedOnce, Asking
<1>6. AskedOnce' /\ AtMostOneIncome'
    BY <1>1, <1>4, <1>5 DEF Inv, AskedOnce, Asking, AtMostOneIncome
<1>7. RequestPersistedFirst'
    BY <1>1, <1>4 DEF Inv, storeVars, RequestPersistedFirst
<1> QED BY <1>2, <1>3, <1>6, <1>7 DEF Inv

(* Deaths and restarts: no handler is left, and the contents that may be   *)
(* found are among those that might have been.                             *)
LEMMA DeathStep ==
    ASSUME Inv, TypeInv', HandlersDie, up' = FALSE, disk' \in survivors',
           survivors' \subseteq survivors
    PROVE  Inv'
<1>1. \A r \in Reqs : pc'[r] = "idle"
    BY DEF HandlersDie
<1>2. HandlersOK' /\ OneWorkerPerReceipt' /\ CreatesKnown' /\ MemoryIsCommitted'
    BY <1>1 DEF HandlersOK, OneWorkerPerReceipt, CreatesKnown,
                MemoryIsCommitted, Active, Working
<1>3. KeepsKnown /\ UNCHANGED <<asked, wire, incomes>>
    BY DEF KeepsKnown, Known, HandlersDie, external
<1> QED BY <1>2, <1>3, QuietStep DEF Inv

LEMMA CrashInv ==
    ASSUME Inv, TypeInv', Crash
    PROVE  Inv'
BY DeathStep DEF Crash, ProcessDies, Inv, MemoryIsCommitted

LEMMA PowerLossInv ==
    ASSUME Inv, TypeInv', PowerLoss
    PROVE  Inv'
BY DeathStep DEF PowerLoss, PowerFails

LEMMA RestartInv ==
    ASSUME Inv, TypeInv', Restart
    PROVE  Inv'
<1>1. /\ ~up /\ mem' = disk
      /\ UNCHANGED <<disk, survivors, pc, call, asked, wire, incomes>>
    BY DEF Restart, Open, external, history
<1>2. \A r \in Reqs : ~Active(r) /\ ~Working(r)
    BY <1>1 DEF Inv, HandlersOK, Active, Working
<1>3. HandlersOK' /\ OneWorkerPerReceipt' /\ CreatesKnown' /\ MemoryIsCommitted'
    BY <1>1, <1>2 DEF HandlersOK, OneWorkerPerReceipt, CreatesKnown,
                      Inv, MemoryIsCommitted, Active, Working
<1>4. KeepsKnown
    BY <1>1 DEF KeepsKnown, Known
<1> QED BY <1>1, <1>3, <1>4, QuietStep DEF Inv

LEMMA InvInit == Init => Inv
<1> SUFFICES ASSUME Init PROVE Inv
    OBVIOUS
<1>1. TypeInv
    BY TypeInit
<1>2. MemoryIsCommitted
    BY DEF Init, StoreInit, FileInit, MemoryIsCommitted
<1>3. HandlersOK /\ OneWorkerPerReceipt /\ CreatesKnown
    BY DEF Init, HandlersOK, OneWorkerPerReceipt, CreatesKnown, Active, Working
<1>4. AskedKnown /\ AtMostOneIncome
    BY DEF Init, AskedKnown, AtMostOneIncome
<1>5. AskedOnce /\ RequestPersistedFirst
    <2>1. \A r \in Reqs : wire[r].op # "create"
        BY NoRequestOp DEF Init
    <2> QED BY <2>1 DEF Init, AskedOnce, Asking, RequestPersistedFirst
<1> QED BY <1>1, <1>2, <1>3, <1>4, <1>5 DEF Inv

LEMMA InvStep == Inv /\ [Next]_vars => Inv'
<1> SUFFICES ASSUME Inv, [Next]_vars PROVE Inv'
    OBVIOUS
<1>1. TypeInv'
    BY TypeStep DEF Inv
<1>2. ASSUME NEW r \in Reqs, HandlerStep(r) PROVE Inv'
    <2>1. ASSUME NEW w \in WriteOutcomes, CreateSucceeds(r, w) PROVE Inv'
        BY <1>1, <2>1, CreateSucceedsInv
    <2>2. ASSUME NEW w \in WriteOutcomes, CreateFails(r, w) PROVE Inv'
        BY <1>1, <2>2, CreateFailsInv
    <2>3. ASSUME NEW w \in WriteOutcomes, CancelBegins(r, w) PROVE Inv'
        BY <1>1, <2>3, CancelBeginsInv
    <2>4. CASE CancelLosesRace(r)
        BY <1>1, <2>4, CancelLosesRaceInv
    <2>5. CASE CancelRereads(r)
        BY <1>1, <2>5, CancelRereadsInv
    <2>6. ASSUME NEW w \in WriteOutcomes, CancelSettles(r, w) PROVE Inv'
        BY <1>1, <2>6, CancelSettlesInv
    <2>7. CASE SendsWithCachedToken(r)
        BY <1>1, <2>7, SendsWithCachedTokenInv
    <2>8. ASSUME NEW w \in WriteOutcomes, SendsWithNewToken(r, w) PROVE Inv'
        BY <1>1, <2>8, SendsWithNewTokenInv
    <2>9. CASE TokenRefused(r)
        BY <1>1, <2>9, TokenRefusedInv
    <2>10. ASSUME NEW failure \in {"timeout", "transport"},
                  GivesUp(r, failure)
           PROVE  Inv'
        BY <1>1, <2>10, GivesUpInv
    <2> QED BY <1>2, <2>1, <2>2, <2>3, <2>4, <2>5, <2>6, <2>7, <2>8, <2>9,
               <2>10
            DEF HandlerStep, CreateSteps, CancelSteps, CallSteps
<1>3. ASSUME NEW r \in Reqs, ClientStep(r) PROVE Inv'
    BY <1>1, <1>3, CreateReservesInv, CreateAnsweredFromRecordInv,
       CancelReadsInv
       DEF ClientStep
<1>4. ASSUME NEW r \in Reqs, FnsStep(r) PROVE Inv'
    BY <1>1, <1>4, FnsRegistersInv, FnsAnnulsInv, FnsRefusesInv DEF FnsStep
<1>5. CASE Crash
    BY <1>1, <1>5, CrashInv
<1>6. CASE PowerLoss
    BY <1>1, <1>6, PowerLossInv
<1>7. CASE Restart
    BY <1>1, <1>7, RestartInv
<1>8. CASE UNCHANGED vars
    <2>1. /\ MemoryIsCommitted' /\ HandlersOK' /\ OneWorkerPerReceipt'
          /\ CreatesKnown'
        BY <1>8 DEF vars, Inv, MemoryIsCommitted, HandlersOK,
                    OneWorkerPerReceipt, CreatesKnown, Active, Working,
                    Status, Known
    <2>2. KeepsKnown /\ UNCHANGED <<asked, wire, incomes>>
        BY <1>8 DEF vars, KeepsKnown, Known
    <2> QED BY <1>1, <2>1, <2>2, QuietStep DEF Inv
<1> QED BY <1>2, <1>3, <1>4, <1>5, <1>6, <1>7, <1>8 DEF Next

LEMMA Invariance == Spec => []Inv
BY InvInit, InvStep, PTL DEF Spec

(* An external id has at most one income at the FNS, through any retries,  *)
(* races, lost answers, crashes and power losses.                          *)
THEOREM OneIncome == Spec => []AtMostOneIncome
<1>1. Inv => AtMostOneIncome
    BY DEF Inv
<1> QED BY <1>1, Invariance, PTL

(* Whatever the FNS was asked to register, or registered, is in the file   *)
(* with the same payload, and stays there through every power loss.        *)
THEOREM PersistedFirst == Spec => []RequestPersistedFirst
<1>1. Inv => RequestPersistedFirst
    BY DEF Inv
<1> QED BY <1>1, Invariance, PTL

(* One handler at a time talks to the FNS about a receipt, and nobody      *)
(* changes the record under it.                                            *)
THEOREM OneWorker == Spec => []OneWorkerPerReceipt
<1>1. Inv => OneWorkerPerReceipt
    BY DEF Inv
<1> QED BY <1>1, Invariance, PTL

(* The memory of a running service is the file, which is one of the        *)
(* contents a power loss may leave.                                        *)
THEOREM MemoryCommitted == Spec => []MemoryIsCommitted
<1>1. Inv => MemoryIsCommitted
    BY DEF Inv
<1> QED BY <1>1, Invariance, PTL

-----------------------------------------------------------------------------
(* Only sending puts a create on the wire.                                 *)
LEMMA OnlySendAsks ==
    ASSUME Inv, [Next]_vars, NEW r \in Reqs, wire'[r] # wire[r],
           wire'[r].op = "create"
    PROVE  wire'[r].id \notin asked
<1>1. ASSUME NEW s \in Reqs, pc[s] = "calling", Send(s)
      PROVE  wire'[r].id \notin asked
    <2>1. s = r /\ wire'[r].op = call[r].op /\ wire'[r].id = call[r].id
        BY <1>1 DEF Send, Request, Inv, TypeInv, TypeOK
    <2> QED BY <1>1, <2>1 DEF Inv, CreatesKnown, Working
<1>2. ASSUME NEW s \in Reqs, HandlerStep(s) PROVE wire'[r].id \notin asked
    <2>1. \/ UNCHANGED wire
          \/ pc[s] = "calling" /\ Send(s)
        BY <1>2 DEF HandlerStep, CreateSteps, CancelSteps, CallSteps,
                    CreateSucceeds, CreateFails, CancelBegins,
                    CancelLosesRace, CancelRereads, CancelSettles,
                    SendsWithCachedToken, SendsWithNewToken, TokenRefused,
                    GivesUp, external
    <2> QED BY <1>1, <2>1
<1>3. ASSUME NEW s \in Reqs, FnsStep(s) PROVE FALSE
    <2>1. wire' = [wire EXCEPT ![s] = NoRequest]
        BY <1>3 DEF FnsStep, FnsRegisters, FnsAnnuls, FnsRefuses
    <2> QED BY <2>1, WireEmptied
<1>4. ASSUME NEW s \in Reqs, ClientStep(s) PROVE FALSE
    BY <1>4 DEF ClientStep, CreateReserves, CreateAnsweredFromRecord,
                CancelReads, external
<1>5. Crash \/ PowerLoss \/ Restart \/ UNCHANGED vars => UNCHANGED wire
    BY DEF Crash, PowerLoss, Restart, HandlersDie, external, vars
<1> QED BY <1>2, <1>3, <1>4, <1>5 DEF Next

(* The service never asks twice for the income of an id.                   *)
THEOREM AsksOnce == Spec => NeverRepeatsRequest
<1>1. Inv /\ [Next]_vars =>
        [\A r \in Reqs :
            wire'[r] # wire[r] /\ wire'[r].op = "create" =>
                wire'[r].id \notin asked]_wire
    BY OnlySendAsks
<1> QED BY <1>1, Invariance, PTL DEF Spec, NeverRepeatsRequest
=============================================================================
