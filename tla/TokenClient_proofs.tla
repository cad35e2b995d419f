-------------------------- MODULE TokenClient_proofs --------------------------
(***************************************************************************)
(* Theorems about TokenClient, for any set of calls and any number of      *)
(* rotations and deaths.                                                   *)
(***************************************************************************)
EXTENDS TokenClient, TLAPS

(* The mutex is held through the exchange and the write, and nobody        *)
(* exchanges a token while a fresh one is cached.                          *)
LockInv ==
    /\ \A c \in Calls : pc[c] \in {"exchanging", "storing"} => mu = c
    /\ \A c \in Calls : pc[c] # "idle" => up
    /\ cached = "fresh" => up /\ mu = Nobody

(* Memory is the file, and the file one that a power loss may leave; a     *)
(* fresh token has made it the only one.                                   *)
FileInv ==
    /\ disk \in survivors
    /\ up => mem = disk /\ mem # NoFile
    /\ cached = "fresh" => survivors = {mem}

(* No token is newer than the last one issued.                             *)
IssuedInv ==
    /\ \A t \in accepted : t <= issued
    /\ \A t \in survivors \cap Tokens : t <= issued

(* An exchange is for the token of the file, which nobody writes meanwhile,*)
(* and the answer names that token or a newer one.                         *)
ExchangeInv ==
    \A c \in Calls :
        /\ pc[c] = "exchanging" => auth[c] = mem /\ wire[c] \in {mem, NoToken}
        /\ pc[c] = "storing" => mem \in Tokens /\ mem <= auth[c] /\ auth[c] <= issued

(* While nothing is lost, the FNS accepts the token of the file, or the    *)
(* one that is about to be stored; and that of the environment until there *)
(* is one in the file.                                                     *)
LossInv ==
    ~lost => /\ \A c \in Calls : pc[c] = "storing" => auth[c] \in accepted
             /\ disk \in Tokens \ accepted => \E c \in Calls : pc[c] = "storing"
             /\ disk \notin Tokens => 0 \in accepted

Inv == TypeOK /\ LockInv /\ FileInv /\ IssuedInv /\ ExchangeInv /\ LossInv

-----------------------------------------------------------------------------
LEMMA NoTokenIsNone == NoToken \notin Tokens /\ NoFile \notin Tokens
BY TokenAssumption DEF Tokens

LEMMA TypeInit == Init => TypeOK
<1> SUFFICES ASSUME Init PROVE TypeOK
    OBVIOUS
<1>1. up \in BOOLEAN /\ lost \in BOOLEAN
    BY Zenon DEF Init, FileInit
<1>2. deaths \in 0..MaxDeaths /\ issued \in Tokens /\ accepted \in SUBSET Tokens
    BY TokenAssumption DEF Init, Tokens
<1> QED BY <1>1, <1>2 DEF TypeOK, Init, FileInit, Contents

LEMMA InvInit == Init => Inv
<1> SUFFICES ASSUME Init PROVE Inv
    OBVIOUS
<1>1. TypeOK
    BY TypeInit
<1>2. LockInv /\ FileInv /\ ExchangeInv
    BY DEF LockInv, FileInv, ExchangeInv, Init, FileInit
<1>3. IssuedInv
    BY NoTokenIsNone DEF IssuedInv, Init, FileInit
<1>4. LossInv
    BY NoTokenIsNone DEF LossInv, Init, FileInit
<1> QED BY <1>1, <1>2, <1>3, <1>4 DEF Inv

-----------------------------------------------------------------------------
(* The invariants, one action at a time.                                   *)

LEMMA StartStep ==
    ASSUME Inv, NEW w \in WriteOutcomes, Start(w)
    PROVE  Inv'
<1>0. /\ InitialToken \in Contents \ {NoFile}
      /\ disk \in Tokens => InitialToken = disk
      /\ disk \notin Tokens => InitialToken \in {0, NoToken}
    BY TokenAssumption DEF Inv, TypeOK, InitialToken, Contents, Tokens
<1>w. \/ UNCHANGED <<disk, survivors>>
      \/ disk' = InitialToken /\ survivors' \in {{InitialToken}, survivors \cup {InitialToken}}
    BY DEF Start, Open, Persist, Committed, WriteOutcomes
<1>m. /\ mem' \in {disk, InitialToken, mem}
      /\ up' => mem' = disk' /\ disk' = InitialToken
    BY DEF Start, Open, Persist, Committed, WriteOutcomes
<1>1. TypeOK'
    <2>1. up' \in BOOLEAN
        BY Zenon DEF Start, Open
    <2>2. lost' \in BOOLEAN
        BY Zenon DEF Inv, TypeOK, Start
    <2>3. mem' \in Contents /\ disk' \in Contents /\ survivors' \in SUBSET Contents
        BY <1>0, <1>w, <1>m DEF Inv, TypeOK
    <2>4. \A x \in Calls : pc'[x] \in {"exchanging", "storing"} => auth'[x] \in Tokens
        BY DEF Inv, TypeOK, Start
    <2>5. deaths' \in 0..MaxDeaths /\ issued' \in Tokens /\ accepted' \in SUBSET Tokens
        BY DEF Inv, TypeOK, Start, fns
    <2> QED BY <2>1, <2>2, <2>3, <2>4, <2>5 DEF Inv, TypeOK, Start
<1>2. LockInv'
    BY DEF Inv, LockInv, Start
<1>3. FileInv'
    BY <1>0, <1>w, <1>m DEF Inv, LockInv, FileInv, Start
<1>4. IssuedInv'
    <2>1. \A t \in survivors \cap Tokens : t <= issued
        BY DEF Inv, IssuedInv
    <2>2. disk \in Tokens => disk <= issued
        BY <2>1 DEF Inv, FileInv
    <2>3. InitialToken \in Tokens => InitialToken <= issued
        BY <1>0, <2>2, NoTokenIsNone DEF Inv, TypeOK, Tokens
    <2> QED BY <1>w, <2>1, <2>3 DEF Inv, IssuedInv, Start, fns
<1>5. ExchangeInv'
    BY DEF Inv, LockInv, ExchangeInv, Start
<1>6. LossInv'
    BY <1>0, <1>w, NoTokenIsNone DEF Inv, LossInv, Start, fns
<1> QED BY <1>1, <1>2, <1>3, <1>4, <1>5, <1>6 DEF Inv

LEMMA CallStep ==
    ASSUME Inv, NEW c \in Calls, Call(c)
    PROVE  Inv'
<1>1. TypeOK'
    <2>1. up' \in BOOLEAN
        BY Zenon DEF Call
    <2>2. lost' \in BOOLEAN
        BY Zenon DEF Inv, TypeOK, Call
    <2>3. mem' \in Contents /\ disk' \in Contents /\ survivors' \in SUBSET Contents
        BY DEF Inv, TypeOK, Call, storeVars
    <2>4. \A x \in Calls : pc'[x] \in {"exchanging", "storing"} => auth'[x] \in Tokens
        BY DEF Inv, TypeOK, Call
    <2>5. deaths' \in 0..MaxDeaths /\ issued' \in Tokens /\ accepted' \in SUBSET Tokens
        BY DEF Inv, TypeOK, Call, fns
    <2> QED BY <2>1, <2>2, <2>3, <2>4, <2>5 DEF Inv, TypeOK, Call
<1>2. LockInv'
    BY DEF Inv, LockInv, Call
<1>3. FileInv'
    BY DEF Inv, FileInv, Call, storeVars
<1>4. IssuedInv'
    BY DEF Inv, IssuedInv, Call, storeVars, fns
<1>5. ExchangeInv'
    BY DEF Inv, ExchangeInv, Call, storeVars, fns
<1>6. LossInv'
    BY DEF Inv, LossInv, Call, storeVars, fns
<1> QED BY <1>1, <1>2, <1>3, <1>4, <1>5, <1>6 DEF Inv

LEMMA WritesReceiptStep ==
    ASSUME Inv, NEW w \in WriteOutcomes, WritesReceipt(w)
    PROVE  Inv'
<1>1. TypeOK'
    <2>1. up' \in BOOLEAN
        BY Zenon DEF WritesReceipt
    <2>2. lost' \in BOOLEAN
        BY Zenon DEF Inv, TypeOK, WritesReceipt
    <2>3. mem' \in Contents /\ disk' \in Contents /\ survivors' \in SUBSET Contents
        BY DEF Inv, TypeOK, WritesReceipt, Persist, WriteOutcomes
    <2>4. \A x \in Calls : pc'[x] \in {"exchanging", "storing"} => auth'[x] \in Tokens
        BY DEF Inv, TypeOK, WritesReceipt
    <2>5. deaths' \in 0..MaxDeaths /\ issued' \in Tokens /\ accepted' \in SUBSET Tokens
        BY DEF Inv, TypeOK, WritesReceipt, fns
    <2> QED BY <2>1, <2>2, <2>3, <2>4, <2>5 DEF Inv, TypeOK, WritesReceipt
<1>2. LockInv'
    BY DEF Inv, LockInv, WritesReceipt
<1>3. FileInv'
    BY DEF Inv, FileInv, WritesReceipt, Persist, WriteOutcomes
<1>4. IssuedInv'
    BY DEF Inv, FileInv, IssuedInv, WritesReceipt, fns, Persist, WriteOutcomes
<1>5. ExchangeInv'
    BY DEF Inv, ExchangeInv, WritesReceipt, fns, Persist
<1>6. LossInv'
    BY DEF Inv, FileInv, LossInv, WritesReceipt, fns, Persist
<1> QED BY <1>1, <1>2, <1>3, <1>4, <1>5, <1>6 DEF Inv

LEMMA UsesCachedStep ==
    ASSUME Inv, NEW c \in Calls, UsesCached(c)
    PROVE  Inv'
<1>1. TypeOK'
    <2>1. up' \in BOOLEAN
        BY Zenon DEF Inv, TypeOK, UsesCached
    <2>2. lost' \in BOOLEAN
        BY Zenon DEF Inv, TypeOK, UsesCached
    <2>3. mem' \in Contents /\ disk' \in Contents /\ survivors' \in SUBSET Contents
        BY DEF Inv, TypeOK, UsesCached, storeVars
    <2>4. \A x \in Calls : pc'[x] \in {"exchanging", "storing"} => auth'[x] \in Tokens
        BY DEF Inv, TypeOK, UsesCached
    <2>5. deaths' \in 0..MaxDeaths /\ issued' \in Tokens /\ accepted' \in SUBSET Tokens
        BY DEF Inv, TypeOK, UsesCached, fns
    <2> QED BY <2>1, <2>2, <2>3, <2>4, <2>5 DEF Inv, TypeOK, UsesCached
<1>2. LockInv'
    BY DEF Inv, LockInv, UsesCached
<1>3. FileInv'
    BY DEF Inv, FileInv, UsesCached, storeVars
<1>4. IssuedInv'
    BY DEF Inv, IssuedInv, UsesCached, storeVars, fns
<1>5. ExchangeInv'
    BY DEF Inv, ExchangeInv, UsesCached, storeVars, fns
<1>6. LossInv'
    BY TokenAssumption DEF Inv, LockInv, LossInv, UsesCached, storeVars, fns
<1> QED BY <1>1, <1>2, <1>3, <1>4, <1>5, <1>6 DEF Inv

LEMMA LacksCredentialsStep ==
    ASSUME Inv, NEW c \in Calls, LacksCredentials(c)
    PROVE  Inv'
<1>1. TypeOK'
    <2>1. up' \in BOOLEAN
        BY Zenon DEF Inv, TypeOK, LacksCredentials
    <2>2. lost' \in BOOLEAN
        BY Zenon DEF Inv, TypeOK, LacksCredentials
    <2>3. mem' \in Contents /\ disk' \in Contents /\ survivors' \in SUBSET Contents
        BY DEF Inv, TypeOK, LacksCredentials, storeVars
    <2>4. \A x \in Calls : pc'[x] \in {"exchanging", "storing"} => auth'[x] \in Tokens
        BY DEF Inv, TypeOK, LacksCredentials
    <2>5. deaths' \in 0..MaxDeaths /\ issued' \in Tokens /\ accepted' \in SUBSET Tokens
        BY DEF Inv, TypeOK, LacksCredentials, fns
    <2> QED BY <2>1, <2>2, <2>3, <2>4, <2>5 DEF Inv, TypeOK, LacksCredentials
<1>2. LockInv'
    BY DEF Inv, LockInv, LacksCredentials
<1>3. FileInv'
    BY DEF Inv, FileInv, LacksCredentials, storeVars
<1>4. IssuedInv'
    BY DEF Inv, IssuedInv, LacksCredentials, storeVars, fns
<1>5. ExchangeInv'
    BY DEF Inv, ExchangeInv, LacksCredentials, storeVars, fns
<1>6. LossInv'
    BY DEF Inv, LossInv, LacksCredentials, storeVars, fns, Locks
<1> QED BY <1>1, <1>2, <1>3, <1>4, <1>5, <1>6 DEF Inv

LEMMA ExchangesStep ==
    ASSUME Inv, NEW c \in Calls, Exchanges(c)
    PROVE  Inv'
<1>1. TypeOK'
    <2>1. up' \in BOOLEAN
        BY Zenon DEF Inv, TypeOK, Exchanges
    <2>2. lost' \in BOOLEAN
        BY Zenon DEF Inv, TypeOK, Exchanges
    <2>3. mem' \in Contents /\ disk' \in Contents /\ survivors' \in SUBSET Contents
        BY DEF Inv, TypeOK, Exchanges, storeVars
    <2>4. \A x \in Calls : pc'[x] \in {"exchanging", "storing"} => auth'[x] \in Tokens
        BY DEF Inv, TypeOK, LockInv, FileInv, Exchanges, Contents, Locks, HasCredentials
    <2>5. deaths' \in 0..MaxDeaths /\ issued' \in Tokens /\ accepted' \in SUBSET Tokens
        BY DEF Inv, TypeOK, Exchanges, fns
    <2> QED BY <2>1, <2>2, <2>3, <2>4, <2>5 DEF Inv, TypeOK, Exchanges
<1>2. LockInv'
    BY TokenAssumption DEF Inv, LockInv, Exchanges, Locks
<1>3. FileInv'
    BY DEF Inv, FileInv, Exchanges, storeVars
<1>4. IssuedInv'
    BY DEF Inv, IssuedInv, Exchanges, storeVars, fns
<1>5. ExchangeInv'
    BY DEF Inv, TypeOK, ExchangeInv, Exchanges, storeVars, fns
<1>6. LossInv'
    BY DEF Inv, LossInv, Exchanges, storeVars, fns, Locks
<1> QED BY <1>1, <1>2, <1>3, <1>4, <1>5, <1>6 DEF Inv

LEMMA ExchangeFailsStep ==
    ASSUME Inv, NEW c \in Calls, ExchangeFails(c)
    PROVE  Inv'
<1>1. TypeOK'
    <2>1. up' \in BOOLEAN
        BY Zenon DEF Inv, TypeOK, ExchangeFails
    <2>2. lost' \in BOOLEAN
        BY Zenon DEF Inv, TypeOK, ExchangeFails
    <2>3. mem' \in Contents /\ disk' \in Contents /\ survivors' \in SUBSET Contents
        BY DEF Inv, TypeOK, ExchangeFails, storeVars
    <2>4. \A x \in Calls : pc'[x] \in {"exchanging", "storing"} => auth'[x] \in Tokens
        BY DEF Inv, TypeOK, ExchangeFails
    <2>5. deaths' \in 0..MaxDeaths /\ issued' \in Tokens /\ accepted' \in SUBSET Tokens
        BY DEF Inv, TypeOK, ExchangeFails, fns
    <2> QED BY <2>1, <2>2, <2>3, <2>4, <2>5 DEF Inv, TypeOK, ExchangeFails
<1>2. LockInv'
    BY DEF Inv, TypeOK, LockInv, ExchangeFails
<1>3. FileInv'
    BY DEF Inv, FileInv, ExchangeFails, storeVars
<1>4. IssuedInv'
    BY DEF Inv, IssuedInv, ExchangeFails, storeVars, fns
<1>5. ExchangeInv'
    BY DEF Inv, TypeOK, LockInv, ExchangeInv, ExchangeFails
<1>6. LossInv'
    BY DEF Inv, LossInv, ExchangeFails, storeVars, fns
<1> QED BY <1>1, <1>2, <1>3, <1>4, <1>5, <1>6 DEF Inv

LEMMA StoresStep ==
    ASSUME Inv, NEW c \in Calls, NEW w \in WriteOutcomes, Stores(c, w)
    PROVE  Inv'
<1>1. TypeOK'
    <2>1. up' \in BOOLEAN
        BY Zenon DEF Inv, TypeOK, Stores
    <2>2. lost' \in BOOLEAN
        BY Zenon DEF Stores
    <2>3. mem' \in Contents /\ disk' \in Contents /\ survivors' \in SUBSET Contents
        BY DEF Inv, TypeOK, Stores, Persist, Contents, WriteOutcomes
    <2>4. \A x \in Calls : pc'[x] \in {"exchanging", "storing"} => auth'[x] \in Tokens
        BY DEF Inv, TypeOK, Stores
    <2>5. deaths' \in 0..MaxDeaths /\ issued' \in Tokens /\ accepted' \in SUBSET Tokens
        BY DEF Inv, TypeOK, Stores, fns
    <2> QED BY <2>1, <2>2, <2>3, <2>4, <2>5 DEF Inv, TypeOK, Stores
<1>2. LockInv'
    BY DEF Inv, TypeOK, LockInv, Stores
<1>3. FileInv'
    <2>1. mu = c /\ c # Nobody /\ cached # "fresh" /\ up
        BY TokenAssumption DEF Inv, LockInv, Stores
    <2>2. auth[c] # NoFile
        BY NoTokenIsNone DEF Inv, TypeOK, Stores
    <2>3. CASE w = "durable"
        BY <2>1, <2>2, <2>3 DEF FileInv, Stores, Persist, Committed
    <2>4. CASE w # "durable"
        <3>1. cached' # "fresh" /\ up'
            BY <2>1, <2>4 DEF Stores
        <3> QED BY <2>1, <2>2, <2>4, <3>1
                DEF Inv, FileInv, Stores, Persist, Committed, WriteOutcomes
    <2> QED BY <2>3, <2>4
<1>4. IssuedInv'
    <2>1. auth[c] <= issued
        BY DEF Inv, ExchangeInv, Stores
    <2>2. survivors' \in {survivors, {auth[c]}, survivors \cup {auth[c]}}
        BY DEF Stores, Persist, WriteOutcomes
    <2> QED BY <2>1, <2>2 DEF Inv, IssuedInv, Stores, fns
<1>5. ExchangeInv'
    BY DEF Inv, TypeOK, LockInv, ExchangeInv, Stores
<1>6. LossInv'
    BY DEF Inv, TypeOK, LockInv, FileInv, LossInv, Stores, fns, Persist, Committed
<1> QED BY <1>1, <1>2, <1>3, <1>4, <1>5, <1>6 DEF Inv

LEMMA ExpiresStep ==
    ASSUME Inv, Expires
    PROVE  Inv'
<1>1. TypeOK'
    <2>1. up' \in BOOLEAN
        BY Zenon DEF Inv, TypeOK, Expires
    <2>2. lost' \in BOOLEAN
        BY Zenon DEF Inv, TypeOK, Expires
    <2>3. mem' \in Contents /\ disk' \in Contents /\ survivors' \in SUBSET Contents
        BY DEF Inv, TypeOK, Expires, storeVars
    <2>4. \A x \in Calls : pc'[x] \in {"exchanging", "storing"} => auth'[x] \in Tokens
        BY DEF Inv, TypeOK, Expires
    <2>5. deaths' \in 0..MaxDeaths /\ issued' \in Tokens /\ accepted' \in SUBSET Tokens
        BY DEF Inv, TypeOK, Expires, fns
    <2> QED BY <2>1, <2>2, <2>3, <2>4, <2>5 DEF Inv, TypeOK, Expires
<1>2. LockInv'
    BY DEF Inv, LockInv, Expires
<1>3. FileInv'
    BY DEF Inv, FileInv, Expires, storeVars
<1>4. IssuedInv'
    BY DEF Inv, IssuedInv, Expires, storeVars, fns
<1>5. ExchangeInv'
    BY DEF Inv, ExchangeInv, Expires, storeVars, fns
<1>6. LossInv'
    BY DEF Inv, LossInv, Expires, storeVars, fns
<1> QED BY <1>1, <1>2, <1>3, <1>4, <1>5, <1>6 DEF Inv

LEMMA FnsGrantsStep ==
    ASSUME Inv, NEW c \in Calls, FnsGrants(c)
    PROVE  Inv'
<1>1. TypeOK'
    <2>1. up' \in BOOLEAN
        BY Zenon DEF Inv, TypeOK, FnsGrants
    <2>2. lost' \in BOOLEAN
        BY Zenon DEF Inv, TypeOK, FnsGrants, Answers
    <2>3. mem' \in Contents /\ disk' \in Contents /\ survivors' \in SUBSET Contents
        BY DEF Inv, TypeOK, FnsGrants, storeVars
    <2>4. \A x \in Calls : pc'[x] \in {"exchanging", "storing"} => auth'[x] \in Tokens
        BY DEF Inv, TypeOK, FnsGrants, Answers
    <2>5. deaths' \in 0..MaxDeaths /\ issued' \in Tokens /\ accepted' \in SUBSET Tokens
        BY DEF Inv, TypeOK, FnsGrants, fns
    <2> QED BY <2>1, <2>2, <2>3, <2>4, <2>5 DEF Inv, TypeOK, FnsGrants, Answers
<1>2. LockInv'
    BY DEF Inv, TypeOK, LockInv, FnsGrants, Answers
<1>3. FileInv'
    BY DEF Inv, FileInv, FnsGrants, storeVars
<1>4. IssuedInv'
    BY DEF Inv, IssuedInv, FnsGrants, storeVars, fns
<1>5. ExchangeInv'
    <2>1. CASE pc[c] = "exchanging" /\ pc' = [pc EXCEPT ![c] = "storing"]
               /\ auth' = [auth EXCEPT ![c] = wire[c]]
        <3>1. wire[c] = mem /\ mem \in accepted
            BY <2>1, NoTokenIsNone DEF Inv, TypeOK, ExchangeInv, FnsGrants
        <3>2. mem \in Tokens /\ mem <= mem /\ mem <= issued
            BY <3>1 DEF Inv, TypeOK, IssuedInv, Tokens
        <3> QED BY <2>1, <3>1, <3>2 DEF Inv, ExchangeInv, FnsGrants, storeVars, fns
    <2>2. CASE UNCHANGED <<pc, auth>>
        BY <2>2 DEF Inv, ExchangeInv, FnsGrants, storeVars, fns
    <2> QED BY <2>1, <2>2 DEF FnsGrants, Answers
<1>6. LossInv'
    <2>1. /\ UNCHANGED <<disk, accepted>>
          /\ ~lost' => ~lost
          /\ \A x \in Calls : pc[x] = "storing" => pc'[x] = "storing"
        BY DEF Inv, TypeOK, FnsGrants, Answers, storeVars, fns
    <2>2. \A x \in Calls : pc'[x] = "storing" =>
             (pc[x] = "storing" /\ auth'[x] = auth[x]) \/ auth'[x] \in accepted
        BY DEF Inv, TypeOK, FnsGrants, Answers
    <2> QED BY <2>1, <2>2 DEF Inv, LossInv
<1> QED BY <1>1, <1>2, <1>3, <1>4, <1>5, <1>6 DEF Inv

LEMMA FnsRotatesStep ==
    ASSUME Inv, NEW c \in Calls, FnsRotates(c)
    PROVE  Inv'
<1>1. TypeOK'
    <2>1. up' \in BOOLEAN
        BY Zenon DEF Inv, TypeOK, FnsRotates
    <2>2. lost' \in BOOLEAN
        BY Zenon DEF Inv, TypeOK, FnsRotates, Answers
    <2>3. mem' \in Contents /\ disk' \in Contents /\ survivors' \in SUBSET Contents
        BY DEF Inv, TypeOK, FnsRotates, storeVars
    <2>4. \A x \in Calls : pc'[x] \in {"exchanging", "storing"} => auth'[x] \in Tokens
        BY DEF Inv, TypeOK, FnsRotates, Answers, Tokens
    <2>5. deaths' \in 0..MaxDeaths /\ issued' \in Tokens /\ accepted' \in SUBSET Tokens
        BY DEF Inv, TypeOK, FnsRotates, Tokens
    <2> QED BY <2>1, <2>2, <2>3, <2>4, <2>5 DEF Inv, TypeOK, FnsRotates, Answers
<1>2. LockInv'
    BY DEF Inv, TypeOK, LockInv, FnsRotates, Answers
<1>3. FileInv'
    BY DEF Inv, FileInv, FnsRotates, storeVars
<1>4. IssuedInv'
    BY DEF Inv, TypeOK, IssuedInv, FnsRotates, storeVars, Tokens
<1>5. ExchangeInv'
    BY DEF Inv, TypeOK, LockInv, FileInv, IssuedInv, ExchangeInv, FnsRotates, storeVars,
           Answers, Tokens
<1>6. LossInv'
    <2>1. CASE pc[c] = "exchanging" /\ pc' = [pc EXCEPT ![c] = "storing"]
               /\ auth' = [auth EXCEPT ![c] = issued + 1]
        <3>1. \A x \in Calls : pc'[x] = "storing" => x = c
            BY <2>1 DEF Inv, LockInv
        <3>2. pc'[c] = "storing" /\ auth'[c] \in accepted'
            BY <2>1 DEF Inv, TypeOK, FnsRotates
        <3>3. disk' \in Tokens
            BY <2>1
            DEF Inv, TypeOK, LockInv, FileInv, ExchangeInv, FnsRotates, storeVars
        <3> QED BY <3>1, <3>2, <3>3 DEF LossInv
    <2>2. CASE lost' = (lost \/ issued + 1 # wire[c])
        <3>1. issued + 1 # wire[c]
            BY DEF Inv, TypeOK, IssuedInv, Tokens, FnsRotates
        <3> QED BY <2>2, <3>1 DEF LossInv
    <2> QED BY <2>1, <2>2 DEF FnsRotates, Answers
<1> QED BY <1>1, <1>2, <1>3, <1>4, <1>5, <1>6 DEF Inv

LEMMA FnsRefusesStep ==
    ASSUME Inv, NEW c \in Calls, FnsRefuses(c)
    PROVE  Inv'
<1>1. TypeOK'
    <2>1. up' \in BOOLEAN
        BY Zenon DEF Inv, TypeOK, FnsRefuses
    <2>2. lost' \in BOOLEAN
        BY Zenon DEF Inv, TypeOK, FnsRefuses
    <2>3. mem' \in Contents /\ disk' \in Contents /\ survivors' \in SUBSET Contents
        BY DEF Inv, TypeOK, FnsRefuses, storeVars
    <2>4. \A x \in Calls : pc'[x] \in {"exchanging", "storing"} => auth'[x] \in Tokens
        BY DEF Inv, TypeOK, FnsRefuses
    <2>5. deaths' \in 0..MaxDeaths /\ issued' \in Tokens /\ accepted' \in SUBSET Tokens
        BY DEF Inv, TypeOK, FnsRefuses, fns
    <2> QED BY <2>1, <2>2, <2>3, <2>4, <2>5 DEF Inv, TypeOK, FnsRefuses
<1>2. LockInv'
    BY DEF Inv, LockInv, FnsRefuses
<1>3. FileInv'
    BY DEF Inv, FileInv, FnsRefuses, storeVars
<1>4. IssuedInv'
    BY DEF Inv, IssuedInv, FnsRefuses, storeVars, fns
<1>5. ExchangeInv'
    BY DEF Inv, ExchangeInv, FnsRefuses, storeVars, fns
<1>6. LossInv'
    BY DEF Inv, LossInv, FnsRefuses, storeVars, fns
<1> QED BY <1>1, <1>2, <1>3, <1>4, <1>5, <1>6 DEF Inv

LEMMA CrashStep ==
    ASSUME Inv, Crash
    PROVE  Inv'
<1>1. TypeOK'
    <2>1. up' \in BOOLEAN
        BY Zenon DEF Crash, ProcessDies
    <2>2. lost' \in BOOLEAN
        BY Zenon DEF Crash
    <2>3. mem' \in Contents /\ disk' \in Contents /\ survivors' \in SUBSET Contents
        BY DEF Inv, TypeOK, Crash, ProcessDies, Contents
    <2>4. \A x \in Calls : pc'[x] \in {"exchanging", "storing"} => auth'[x] \in Tokens
        BY DEF Crash, CallsDie
    <2>5. deaths' \in 0..MaxDeaths /\ issued' \in Tokens /\ accepted' \in SUBSET Tokens
        BY TokenAssumption DEF Inv, TypeOK, Crash, fns, CallsDie
    <2> QED BY <2>1, <2>2, <2>3, <2>4, <2>5 DEF Inv, TypeOK, Crash, CallsDie
<1>2. LockInv'
    BY DEF LockInv, Crash, CallsDie
<1>3. FileInv'
    BY DEF Inv, FileInv, Crash, ProcessDies, CallsDie
<1>4. IssuedInv'
    BY DEF Inv, IssuedInv, Crash, fns, ProcessDies, CallsDie
<1>5. ExchangeInv'
    BY DEF ExchangeInv, Crash, CallsDie
<1>6. LossInv'
    <2>1. ~lost' => ~lost /\ \A c \in Calls : pc[c] = "storing" => auth[c] = mem
        BY DEF Crash, Unstored
    <2>2. UNCHANGED <<disk, accepted>> /\ pc' = [c \in Calls |-> "idle"]
        BY DEF Crash, ProcessDies, CallsDie, fns
    <2>3. \A c \in Calls : pc[c] = "storing" => mem = disk
        BY DEF Inv, LockInv, FileInv
    <2> QED BY <2>1, <2>2, <2>3 DEF Inv, LossInv
<1> QED BY <1>1, <1>2, <1>3, <1>4, <1>5, <1>6 DEF Inv

LEMMA PowerLossStep ==
    ASSUME Inv, PowerLoss
    PROVE  Inv'
<1>1. TypeOK'
    <2>1. up' \in BOOLEAN
        BY Zenon DEF PowerLoss, PowerFails
    <2>2. lost' \in BOOLEAN
        BY Zenon DEF PowerLoss
    <2>3. mem' \in Contents /\ disk' \in Contents /\ survivors' \in SUBSET Contents
        BY DEF Inv, TypeOK, PowerLoss, PowerFails, Contents
    <2>4. \A x \in Calls : pc'[x] \in {"exchanging", "storing"} => auth'[x] \in Tokens
        BY DEF PowerLoss, CallsDie
    <2>5. deaths' \in 0..MaxDeaths /\ issued' \in Tokens /\ accepted' \in SUBSET Tokens
        BY TokenAssumption DEF Inv, TypeOK, PowerLoss, fns, CallsDie
    <2> QED BY <2>1, <2>2, <2>3, <2>4, <2>5 DEF Inv, TypeOK, PowerLoss, CallsDie
<1>2. LockInv'
    BY DEF LockInv, PowerLoss, CallsDie
<1>3. FileInv'
    BY DEF FileInv, PowerLoss, PowerFails, CallsDie
<1>4. IssuedInv'
    BY DEF Inv, IssuedInv, PowerLoss, fns, PowerFails, CallsDie
<1>5. ExchangeInv'
    BY DEF ExchangeInv, PowerLoss, CallsDie
<1>6. LossInv'
    <2>1. ~lost' => ~lost /\ disk' = disk /\ \A c \in Calls : pc[c] = "storing" => auth[c] = mem
        BY DEF PowerLoss, Unstored
    <2>2. accepted' = accepted /\ pc' = [c \in Calls |-> "idle"]
        BY DEF PowerLoss, CallsDie, fns
    <2>3. \A c \in Calls : pc[c] = "storing" => mem = disk
        BY DEF Inv, LockInv, FileInv
    <2> QED BY <2>1, <2>2, <2>3 DEF Inv, LossInv
<1> QED BY <1>1, <1>2, <1>3, <1>4, <1>5, <1>6 DEF Inv

LEMMA StutterStep ==
    ASSUME Inv, UNCHANGED vars
    PROVE  Inv'
<1>1. TypeOK'
    <2>1. up' \in BOOLEAN
        BY Zenon DEF Inv, TypeOK, vars
    <2>2. lost' \in BOOLEAN
        BY Zenon DEF Inv, TypeOK, vars
    <2>3. mem' \in Contents /\ disk' \in Contents /\ survivors' \in SUBSET Contents
        BY DEF Inv, TypeOK, vars
    <2>4. \A x \in Calls : pc'[x] \in {"exchanging", "storing"} => auth'[x] \in Tokens
        BY DEF Inv, TypeOK, vars
    <2>5. deaths' \in 0..MaxDeaths /\ issued' \in Tokens /\ accepted' \in SUBSET Tokens
        BY DEF Inv, TypeOK, vars
    <2> QED BY <2>1, <2>2, <2>3, <2>4, <2>5 DEF Inv, TypeOK, vars
<1>2. LockInv'
    BY DEF Inv, LockInv, vars
<1>3. FileInv'
    BY DEF Inv, FileInv, vars
<1>4. IssuedInv'
    BY DEF Inv, IssuedInv, vars
<1>5. ExchangeInv'
    BY DEF Inv, ExchangeInv, vars
<1>6. LossInv'
    BY DEF Inv, LossInv, vars
<1> QED BY <1>1, <1>2, <1>3, <1>4, <1>5, <1>6 DEF Inv

LEMMA InvStep == Inv /\ [Next]_vars => Inv'
<1> SUFFICES ASSUME Inv, [Next]_vars PROVE Inv'
    OBVIOUS
<1>1. ASSUME NEW c \in Calls,
             \/ Call(c) \/ LockStep(c) \/ HolderStep(c)
             \/ FnsGrants(c) \/ FnsRotates(c) \/ FnsRefuses(c)
      PROVE  Inv'
    BY <1>1, CallStep, UsesCachedStep, LacksCredentialsStep, ExchangesStep,
       ExchangeFailsStep, StoresStep, FnsGrantsStep, FnsRotatesStep, FnsRefusesStep
    DEF LockStep, HolderStep
<1> QED
    BY <1>1, StartStep, WritesReceiptStep, ExpiresStep, CrashStep, PowerLossStep,
       StutterStep
    DEF Next

LEMMA Invariance == Spec => []Inv
BY InvInit, InvStep, PTL DEF Spec

-----------------------------------------------------------------------------
(* The theorems.                                                           *)

(* Every variable of the client, the file and the FNS keeps its type: a    *)
(* call never exchanges a token it does not have.                          *)
THEOREM TypeCorrect == Spec => []TypeOK
<1>1. Inv => TypeOK
    BY DEF Inv
<1> QED BY <1>1, Invariance, PTL

(* An access token is used only when the refresh token it came with is on  *)
(* the device.                                                             *)
THEOREM DurableFirst == Spec => []RotationDurableFirst
<1>1. Inv => RotationDurableFirst
    BY DEF Inv, FileInv, RotationDurableFirst
<1> QED BY <1>1, Invariance, PTL

(* The service keeps a refresh token the FNS accepts, through races of     *)
(* calls, late requests and restarts, unless an answer, a write, the       *)
(* process or the host that had the successor was lost.                    *)
THEOREM LockedOutByLoss == Spec => []LockedOutOnlyAfterLoss
<1>1. Inv => LockedOutOnlyAfterLoss
    <2> SUFFICES ASSUME Inv, up, mem \in Tokens, mem \notin accepted, ~lost
                 PROVE  \E c \in Calls : pc[c] = "storing"
        BY DEF LockedOutOnlyAfterLoss
    <2>1. disk \in Tokens \ accepted
        BY DEF Inv, FileInv
    <2> QED BY <2>1 DEF Inv, LossInv
<1> QED BY <1>1, Invariance, PTL

(* No write replaces the refresh token of the file by an older one.        *)
THEOREM NeverGoesBack == Spec => TokenNeverGoesBack
<1> DEFINE Forward == deaths' = deaths /\ disk \in Tokens => disk' \in Tokens /\ disk' >= disk
<1>1. Inv /\ [Next]_vars => [Forward]_disk
    <2> SUFFICES ASSUME Inv, [Next]_vars, disk' # disk, deaths' = deaths, disk \in Tokens
                 PROVE  disk' \in Tokens /\ disk' >= disk
        OBVIOUS
    <2>1. \/ \E w \in WriteOutcomes : Start(w) \/ WritesReceipt(w)
          \/ \E c \in Calls, w \in WriteOutcomes : Stores(c, w)
          \/ PowerLoss
        BY DEF Next, LockStep, HolderStep, Call, UsesCached, LacksCredentials, Exchanges,
               ExchangeFails, FnsGrants, FnsRotates, FnsRefuses, Expires, Crash,
               ProcessDies, storeVars, vars
    <2>2. ASSUME NEW w \in WriteOutcomes, Start(w) PROVE FALSE
        BY <2>2, NoTokenIsNone DEF Start, Open, InitialToken, Persist
    <2>3. ASSUME NEW w \in WriteOutcomes, WritesReceipt(w) PROVE FALSE
        BY <2>3 DEF Inv, FileInv, WritesReceipt, Persist
    <2>4. ASSUME NEW c \in Calls, NEW w \in WriteOutcomes, Stores(c, w)
          PROVE  disk' \in Tokens /\ disk' >= disk
        <3>1. disk' = auth[c] /\ up
            BY <2>4 DEF Inv, LockInv, Stores, Persist
        <3>2. auth[c] \in Tokens /\ mem <= auth[c] /\ mem = disk
            BY <2>4, <3>1 DEF Inv, TypeOK, FileInv, ExchangeInv, Stores
        <3> QED BY <3>1, <3>2 DEF Tokens
    <2>5. ~PowerLoss
        BY DEF Inv, TypeOK, PowerLoss, CallsDie
    <2> QED BY <2>1, <2>2, <2>3, <2>4, <2>5
<1> QED BY <1>1, Invariance, PTL DEF Spec, TokenNeverGoesBack
=============================================================================
