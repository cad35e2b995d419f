----------------------------- MODULE TokenClient -----------------------------
(***************************************************************************)
(* The access token of the lknpd client (Client.accessTokenFor): calls     *)
(* share a cached access token; when it is about to expire one of them     *)
(* exchanges the refresh token at the FNS, which may rotate it, and stores *)
(* the rotated one (Store.UpdateAuth) before the others go on. A refresh   *)
(* token that is used up and whose successor is lost locks the service out.*)
(*                                                                         *)
(* The state file is StateFile with the refresh token as its contents: the *)
(* receipts, which other handlers write meanwhile, leave it alone.         *)
(*                                                                         *)
(* A call c is in one of                                                   *)
(*   idle        no call, or it has got its access token or an error       *)
(*   locking     it wants the mutex of the client                          *)
(*   exchanging  it holds it and waits for POST /auth/token                *)
(*   storing     it holds it and has got an access token                   *)
(***************************************************************************)
EXTENDS StateFile, Integers

CONSTANTS
    Calls,          \* concurrent calls
    MaxTokens,      \* bound on the refresh tokens the FNS issues
    MaxDeaths,      \* bound on deaths of the process and power losses
    NoFile,         \* there is no state file yet
    NoToken,        \* it has no refresh token, or LKNPD_REFRESH_TOKEN is not set
    Nobody

ASSUME TokenAssumption ==
    /\ MaxTokens \in Nat /\ MaxDeaths \in Nat
    /\ NoFile \notin Nat /\ NoToken \notin Nat /\ NoFile # NoToken
    /\ Nobody \notin Calls

VARIABLES
    env,            \* LKNPD_REFRESH_TOKEN
    mu,             \* which call holds Client.mu
    pc,
    auth,           \* auth[c]: the refresh token in the local variables of c
    cached,         \* Client.accessToken and expiresAt
    wire,           \* wire[c]: the refresh token the FNS is to exchange for c
    accepted,       \* the FNS: refresh tokens it accepts
    issued,         \* the FNS: the last refresh token it issued
    deaths

(* History: a successor of a used refresh token did not reach the file, or *)
(* a power loss took it away.                                              *)
VARIABLE lost

fns == <<accepted, issued>>
vars == <<up, mem, disk, survivors, env, mu, pc, auth, cached, wire,
          accepted, issued, deaths, lost>>

(* Refresh tokens in the order in which the FNS issues them; the first is  *)
(* that of the environment.                                                *)
Tokens == 0..MaxTokens

Contents == Tokens \cup {NoFile, NoToken}

TypeOK ==
    /\ up \in BOOLEAN
    /\ mem \in Contents /\ disk \in Contents
    /\ survivors \in SUBSET Contents
    /\ env \in {0, NoToken}
    /\ mu \in Calls \cup {Nobody}
    /\ pc \in [Calls -> {"idle", "locking", "exchanging", "storing"}]
    /\ auth \in [Calls -> Tokens \cup {NoToken}]
    /\ cached \in {"none", "fresh", "stale"}
    /\ wire \in [Calls -> Tokens \cup {NoToken}]
    /\ accepted \in SUBSET Tokens
    /\ issued \in Tokens
    /\ deaths \in 0..MaxDeaths
    /\ lost \in BOOLEAN
    /\ \A c \in Calls : pc[c] \in {"exchanging", "storing"} => auth[c] \in Tokens

Init ==
    /\ \E data \in {NoFile, NoToken} : FileInit(data)
    /\ env \in {0, NoToken}
    /\ mu = Nobody
    /\ pc = [c \in Calls |-> "idle"]
    /\ auth = [c \in Calls |-> NoToken]
    /\ cached = "none"
    /\ wire = [c \in Calls |-> NoToken]
    /\ accepted = {0} /\ issued = 0
    /\ deaths = 0
    /\ lost = FALSE

-----------------------------------------------------------------------------
(* state.Open: a file without a refresh token gets that of the environment,*)
(* a file with one keeps it. A write that is not durable ends the process. *)
InitialToken ==
    IF disk \in {NoFile, NoToken} THEN env ELSE disk

Start(w) ==
    /\ ~up
    /\ IF InitialToken = disk
       THEN Open
       ELSE Persist(InitialToken, w) /\ up' = (w = "durable")
    /\ UNCHANGED <<env, mu, pc, auth, cached, wire, fns, deaths, lost>>

Call(c) ==
    /\ up
    /\ pc[c] = "idle" /\ wire[c] = NoToken
    /\ pc' = [pc EXCEPT ![c] = "locking"]
    /\ UNCHANGED <<up, storeVars, env, mu, auth, cached, wire, fns, deaths, lost>>

(* Some other handler writes a receipt: the whole file, the token with it. *)
WritesReceipt(w) ==
    /\ up
    /\ Persist(mem, w)
    /\ UNCHANGED <<up, env, mu, pc, auth, cached, wire, fns, deaths, lost>>

-----------------------------------------------------------------------------
Locks(c) == pc[c] = "locking" /\ mu = Nobody

(* A token that is good for five more minutes is returned.                 *)
UsesCached(c) ==
    /\ Locks(c)
    /\ cached = "fresh"
    /\ pc' = [pc EXCEPT ![c] = "idle"]
    /\ UNCHANGED <<up, storeVars, env, mu, auth, cached, wire, fns, deaths, lost>>

HasCredentials == mem # NoToken

LacksCredentials(c) ==
    /\ Locks(c)
    /\ cached # "fresh" /\ ~HasCredentials
    /\ pc' = [pc EXCEPT ![c] = "idle"]
    /\ UNCHANGED <<up, storeVars, env, mu, auth, cached, wire, fns, deaths, lost>>

(* The mutex is kept while the request is out. Mutants: it is not; the     *)
(* credentials are not looked at.                                          *)
ExchangesUnlocked(c) ==
    /\ Locks(c)
    /\ cached # "fresh" /\ HasCredentials
    /\ pc' = [pc EXCEPT ![c] = "exchanging"]
    /\ auth' = [auth EXCEPT ![c] = mem]
    /\ wire' = [wire EXCEPT ![c] = mem]
    /\ UNCHANGED <<up, storeVars, env, mu, cached, fns, deaths, lost>>

ExchangesUnchecked(c) ==
    /\ Locks(c)
    /\ cached # "fresh"
    /\ mu' = c
    /\ pc' = [pc EXCEPT ![c] = "exchanging"]
    /\ auth' = [auth EXCEPT ![c] = mem]
    /\ wire' = [wire EXCEPT ![c] = mem]
    /\ UNCHANGED <<up, storeVars, env, cached, fns, deaths, lost>>

Exchanges(c) ==
    /\ Locks(c)
    /\ cached # "fresh" /\ HasCredentials
    /\ mu' = c
    /\ pc' = [pc EXCEPT ![c] = "exchanging"]
    /\ auth' = [auth EXCEPT ![c] = mem]
    /\ wire' = [wire EXCEPT ![c] = mem]
    /\ UNCHANGED <<up, storeVars, env, cached, fns, deaths, lost>>

(* doJSON returns an error, or the response has no token: refused, timed   *)
(* out, unreadable. The request may still reach the FNS. Mutant: the mutex *)
(* is not given back.                                                      *)
ExchangeFailsLocked(c) ==
    /\ pc[c] = "exchanging"
    /\ pc' = [pc EXCEPT ![c] = "idle"]
    /\ UNCHANGED <<up, storeVars, env, mu, auth, cached, wire, fns, deaths, lost>>

ExchangeFails(c) ==
    /\ pc[c] = "exchanging"
    /\ mu' = Nobody
    /\ pc' = [pc EXCEPT ![c] = "idle"]
    /\ UNCHANGED <<up, storeVars, env, auth, cached, wire, fns, deaths, lost>>

(* UpdateAuth, then the cache. After an error of the write the new access  *)
(* token is dropped, and the call fails. The token may come with an expiry *)
(* in less than five minutes. Mutants: an uncertain write is good enough;  *)
(* the rotated token is not taken into the stored one.                     *)
StoresUncertain(c, w) ==
    /\ pc[c] = "storing"
    /\ Persist(auth[c], w)
    /\ IF Committed(w) THEN cached' \in {"fresh", "stale"}
                       ELSE UNCHANGED cached
    /\ lost' = (lost \/ (w = "failed" /\ auth[c] # mem))
    /\ mu' = Nobody
    /\ pc' = [pc EXCEPT ![c] = "idle"]
    /\ UNCHANGED <<up, env, auth, wire, fns, deaths>>

StoresOldToken(c, w) ==
    /\ pc[c] = "storing"
    /\ Persist(mem, w)
    /\ IF w = "durable" THEN cached' \in {"fresh", "stale"}
                        ELSE UNCHANGED cached
    /\ lost' = (lost \/ (w = "failed" /\ auth[c] # mem))
    /\ mu' = Nobody
    /\ pc' = [pc EXCEPT ![c] = "idle"]
    /\ UNCHANGED <<up, env, auth, wire, fns, deaths>>

Stores(c, w) ==
    /\ pc[c] = "storing"
    /\ Persist(auth[c], w)
    /\ IF w = "durable" THEN cached' \in {"fresh", "stale"}
                        ELSE UNCHANGED cached
    /\ lost' = (lost \/ (w = "failed" /\ auth[c] # mem))
    /\ mu' = Nobody
    /\ pc' = [pc EXCEPT ![c] = "idle"]
    /\ UNCHANGED <<up, env, auth, wire, fns, deaths>>

(* Time passes.                                                            *)
Expires ==
    /\ cached = "fresh"
    /\ cached' = "stale"
    /\ UNCHANGED <<up, storeVars, env, mu, pc, auth, wire, fns, deaths, lost>>

-----------------------------------------------------------------------------
(* The FNS exchanges a refresh token it accepts, at any time after it was  *)
(* sent: for an access token alone, or with a successor, after which the   *)
(* old one may or may not be good any more. The answer may be lost.        *)
Answers(c, token) ==
    \/ /\ pc[c] = "exchanging"
       /\ pc' = [pc EXCEPT ![c] = "storing"]
       /\ auth' = [auth EXCEPT ![c] = token]
       /\ UNCHANGED lost
    \/ /\ lost' = (lost \/ token # wire[c])
       /\ UNCHANGED <<pc, auth>>

FnsGrants(c) ==
    /\ wire[c] \in accepted
    /\ Answers(c, wire[c])
    /\ wire' = [wire EXCEPT ![c] = NoToken]
    /\ UNCHANGED <<up, storeVars, env, mu, cached, fns, deaths>>

FnsRotates(c) ==
    LET new == issued + 1 IN
    /\ wire[c] \in accepted /\ new <= MaxTokens
    /\ issued' = new
    /\ accepted' \in { accepted \cup {new}, (accepted \ {wire[c]}) \cup {new} }
    /\ Answers(c, new)
    /\ wire' = [wire EXCEPT ![c] = NoToken]
    /\ UNCHANGED <<up, storeVars, env, mu, cached, deaths>>

(* The request is refused, or never reaches the FNS.                       *)
FnsRefuses(c) ==
    /\ wire[c] # NoToken
    /\ wire' = [wire EXCEPT ![c] = NoToken]
    /\ UNCHANGED <<up, storeVars, env, mu, pc, auth, cached, fns, deaths, lost>>

-----------------------------------------------------------------------------
Unstored == \E c \in Calls : pc[c] = "storing" /\ auth[c] # mem

CallsDie ==
    /\ mu' = Nobody
    /\ pc' = [c \in Calls |-> "idle"]
    /\ auth' = [c \in Calls |-> NoToken]
    /\ cached' = "none"
    /\ deaths < MaxDeaths /\ deaths' = deaths + 1
    /\ UNCHANGED <<env, wire, fns>>

Crash ==
    /\ ProcessDies(NoToken)
    /\ CallsDie
    /\ lost' = (lost \/ Unstored)

PowerLoss ==
    /\ PowerFails(NoToken)
    /\ CallsDie
    /\ lost' = (lost \/ Unstored \/ disk' # disk)

-----------------------------------------------------------------------------
LockStep(c) == UsesCached(c) \/ LacksCredentials(c) \/ Exchanges(c)

HolderStep(c) == ExchangeFails(c) \/ \E w \in WriteOutcomes : Stores(c, w)

Next ==
    \/ \E c \in Calls :
        \/ Call(c) \/ LockStep(c) \/ HolderStep(c)
        \/ FnsGrants(c) \/ FnsRotates(c) \/ FnsRefuses(c)
    \/ \E w \in WriteOutcomes : Start(w) \/ WritesReceipt(w)
    \/ Expires
    \/ Crash
    \/ PowerLoss

Spec == Init /\ [][Next]_vars

(* The HTTP timeout ends each exchange, and Go's mutex hands itself to a   *)
(* waiter that is starving: a call that finds it free again and again gets *)
(* it. Nothing is assumed of the FNS.                                      *)
FairSpec ==
    /\ Spec
    /\ \A c \in Calls : WF_vars(HolderStep(c)) /\ SF_vars(LockStep(c))

-----------------------------------------------------------------------------
(* The file never goes back to an older refresh token, unless a power loss *)
(* takes it there: neither a late exchange nor the environment of the next *)
(* start overwrites what was stored since (accessTokenFor reads the token  *)
(* before the exchange and writes it after; Open).                         *)
TokenNeverGoesBack ==
    [][deaths' = deaths /\ disk \in Tokens =>
            disk' \in Tokens /\ disk' >= disk]_disk

(* An access token in use is one whose exchange no power loss can undo:    *)
(* the rotated refresh token was on the device first.                      *)
RotationDurableFirst == cached = "fresh" => survivors = {mem}

(* The FNS accepts the refresh token of the file unless an exchange is     *)
(* under way or its successor was lost: with the answer, the write, the    *)
(* process or the host.                                                    *)
LockedOutOnlyAfterLoss ==
    up /\ mem \in Tokens /\ mem \notin accepted =>
        lost \/ \E c \in Calls : pc[c] = "storing"

(* Every call gets an access token or an error, however long the queue at  *)
(* the mutex and whatever the FNS does.                                    *)
EveryCallReturns == \A c \in Calls : pc[c] # "idle" ~> pc[c] = "idle"
=============================================================================
