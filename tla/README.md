# vff-fiscal: specification and proofs

TLA+ models of vff-fiscal, checked with TLC and, for the core, proved with
TLAPS. vff-fiscal registers and cancels the receipts of a self-employed
person at the FNS (lknpd.nalog.ru) on behalf of the SHM billing system. Its
one promise is that money is declared once: an income is never registered
twice, whatever crashes, times out or is retried, and what the service says of
a receipt is what happened to it.

Paths below are relative to the repository. Line numbers of every definition
are in `PROJECT.json` under `map`.

## 1. The system

| part | code | state it keeps | operations |
|---|---|---|---|
| receipt API | `internal/httpapi/server.go`, `receipt_match.go` | none of its own | `createReceipt`, `cancelReceipt`, `getReceipt` |
| error classification | `internal/httpapi/notify.go` | none | `classifyUpstream`, `upstreamErrorCode` |
| state store | `internal/state` | `state.json` and its copy in memory: auth, receipts, outbox | `Open`, `ReserveReceipt`, `PutReceipt`, `TransitionReceipt`, `TransitionReceiptWithEvent`, `UpdateAuth` |
| notification outbox | `internal/state/notification_event.go`, `notify.go` | part of `state.json` | an event is added with a failure; nothing delivers it |
| lknpd client | `internal/lknpd/client.go` | access token and its expiry, in memory | `CreateIncome`, `CancelIncome`, `GetUser`, each over `accessTokenFor` |
| process | `cmd/vff-fiscal/main.go`, `internal/config` | none | start, shutdown with ten seconds of grace |
| SHM adapter | `adapters/shm/srv_customlab_nalog.cgi` | the comment of a payment in SHM's database | `send_receipt`, run by SHM's spool |
| payment extraction | `adapters/shm/lib/VFFFiscal` | none | `extract_fiscal_payment` and its parsers |
| deployment lock | `deploy_lock.py` | a directory on the host | acquire, release |
| spool gate | `spool_cutover_gate.py` | the pause of the container `shm-spool-1` | wait, pause, probe, undo |
| service role | `roles/vff_fiscal_service*` | container, image, env, manifest | preflight, cutover, rescue, rollback |
| adapter role | `roles/vff_fiscal_adapter*` | the live CGI and its immutable flag, manifest | cutover, restore, rollback |
| manifests | `write_manifest.py`, `service_manifest_reconcile.py`, `service_bootstrap_gate.py` | `deploy-state` files | write, reconcile |
| outside | the FNS, SHM, Docker | incomes, payments, containers | seen through the code that uses them |

How they interact. The adapter POSTs a payment to the receipt API. The handler
reserves the external id in the store, calls the FNS through the lknpd client
and stores the outcome. Handlers share one store (a mutex held for one method)
and one client (a mutex held while the access token is obtained, across its
HTTP exchange; the token exchange itself writes the store). The deployment
roles take a lock on the host, pause the spool, look into `state.json` for
receipts in flight, replace the container or the CGI and resume the spool. An
operator may pause and resume the spool at any time.

What is hard here:

* Concurrency: requests for one id race (create with create, cancel with
  cancel); a cancellation reads the record, and writes its copy later.
* Failure in the middle: a call has effects at the FNS, on the disk and in the
  answer to the client, and any of them can be missing. A write has three
  results: it failed, it is durable, or it is visible and may not survive a
  power loss (`ErrStateDurabilityUncertain`).
* Time: the client gives up on a request that the FNS may still carry out.
  The process may be gone by then.
* Classification: an error must be called definite or ambiguous from what is
  left of it.
* Deployments: any command of a play may fail, with or without its effect, and
  its rescue and `always` sections decide from Ansible facts what to undo, and
  whether the spool may run again. They fail, too; and a play that loses its
  connection runs none of them.

What makes each part correct is listed with its properties in section 3.

## 2. Modules

| module | models | state and actions |
|---|---|---|
| `Upstream` | `doJSON`, `CreateIncome`, `CancelIncome`, `classifyUpstream` | no state: from what came back on the wire to the error, and from the error to the status |
| `StateFile` | `mutateLocked`, `persistLocked`, `Open`, of any contents | `up`, `mem` (`Store.data`), `disk` (the file every process sees), `survivors` (what a power loss may leave); `Persist`, `Open`, `ProcessDies`, `PowerFails` |
| `StateStore` | `internal/state` for receipts and events | one operator per method of `Store`, all over `Persist` |
| `ReceiptService` | `createReceipt`, `cancelReceipt`, `finishCancelUpstream`, the call, the FNS, death and restart | `pc`, `call` (the locals of a handler), `wire`, `incomes`, `annulled`; one action per stretch of a handler between two points where others can act |
| `ReceiptLifecycle` | the promise | a receipt next to its income, nothing else |
| `MCReceiptService` | instances for TLC | symmetry and one bound |
| `TokenClient` | `accessTokenFor`, `UpdateAuth`, the auth section in `Open` | `mu` (`Client.mu`), `cached`, `auth` (a local of the exchange), `wire`, `accepted`; calls queue, use the cache or exchange, the FNS grants, rotates or refuses |
| `SpoolGate` | `spool_cutover_gate.py`, `spool_cutover_gate.yml`, `unpause_spool.yml` | `spool`, `cgis`, and the script: `pc`, `attempt`, `probes`, `byGate`; one action per docker command |
| `SpoolWindow` | what gate and release promise a role | `spool` (running, or paused: by the gate, by the operator, or left by an earlier operation), `window`, `byOperation` |
| `ShmAdapter` | `send_receipt` and SHM's repetitions | `cgi`, `request` (which outlives its process), `mark` (the comment of the payment), over the receipts and incomes of `ReceiptLifecycle` |
| `AdapterDeploy` | `vff_fiscal_adapter`, `vff_fiscal_adapter_rollback` | `cgi`, `helpers`, `immutable`, `manifest`, `backups`, the play with its `stage`, `pc` and `facts` |
| `DeployLock` | `deploy_lock.py` and its two tasks | `lockDir`, `token`, `metadata`, `at[play]` |
| `ServiceDeploy` | `vff_fiscal_service`, `vff_fiscal_service_rollback` | `compose`, `container`, `manifest`, `flight` (a receipt in work), the play with its `step` and `facts` |
| `MCServiceDeploy` | instance for TLC | symmetry |
| `ReceiptService_proofs`, `ReceiptRecords_proofs`, `ReceiptLifecycle_proofs` | theorems about `ReceiptService`, each module over the invariant of the one before | |
| `TokenClient_proofs`, `ShmAdapter_proofs`, `SpoolGate_proofs`, `AdapterDeploy_proofs`, `ServiceDeploy_proofs` | theorems about the module of that name | |

`StateStore` and `TokenClient` EXTEND `StateFile`. `ReceiptService` EXTENDS
`StateStore` and `Upstream`, and instantiates `ReceiptLifecycle` with
`receipts <- disk.receipts`. There the token step of a call is a choice of
three outcomes; `TokenClient` is where they come from. `ShmAdapter` runs over
the steps of `ReceiptLifecycle`, not over the service, so that what it shows
rests on the promise alone. `SpoolGate` implements `SpoolWindow`;
`AdapterDeploy` and `ServiceDeploy` EXTEND `SpoolWindow`, and `ServiceDeploy`
also `DeployLock`. So the state space of the gate's retries is not paid again
by the roles.

### How the actions follow the code

A method of the store holds the mutex from the first read to the return, so it
is one step; between two of them any other handler may run. A handler is cut
there and around the call:

| action | code |
|---|---|
| `CreateReserves` | `createReceipt` to `ReserveReceipt`; goes on only after a durable write |
| `CreateAnsweredFromRecord` | the answer for an id that has a record: 200 or 409 |
| `CancelReads`, `CancelBegins`, `CancelLosesRace`, `CancelRereads` | `cancelReceipt` to the call: the read, the transition to `cancelling` (which goes on after an uncertain write), the mismatch and the second read |
| `SendsWithCachedToken`, `SendsWithNewToken`, `TokenRefused` | `accessTokenFor`, then the request goes out, or the call ends without one |
| `FnsRegisters`, `FnsAnnuls`, `FnsRefuses` | the FNS gets the request, at any later time, and answers; or never gets it. The answer may be lost |
| `GivesUp` | `httpClient.Do` returns an error: timeout, broken connection, client gone |
| `CreateSucceeds`, `CreateFails`, `CancelSettles` | what the handler stores after the call |
| `Crash`, `PowerLoss`, `Restart` | the process or the host goes down, at any point; `Open` reads the file |

Data is abstract: an amount stands for the payload that `receiptPayloadMatches`
compares, an event for the pair (receipt, type) its id is a hash of, and a
record keeps status, payload and UUID. Validation of requests, URLs, texts of
errors and times change no decision and are left out. `Open` is modelled for a
file of the current version; a first start writes the empty file.

`survivors` is the model of durability. A durable write (file and directory
synced) leaves one content. A rename whose directory sync failed adds the new
content to those that were possible before. A power loss picks one. A write
that failed before the rename changes nothing.

The wire is what makes late effects possible: a request stays on it after the
handler gave up or died, and the FNS may act on it later. A handler slot takes
no new request while its last one is on the wire; slots are only names, so
this bounds the number of requests that are out at once.

`TokenClient` has the same file, with the refresh token as its contents: the
receipts that other handlers write carry the token along (`WritesReceipt`).
Refresh tokens are numbered in the order the FNS issues them, so that "an
older token" has a meaning. After a rotation the FNS may or may not accept the
old token; nothing is assumed of it. The token in memory of the client is
`fresh` or, from five minutes before its expiry, `stale`.

In `SpoolGate` each docker command is one step and may fail without effect.
Between two of them the spool starts and ends CGI processes, and the operator
pauses it or resumes a pause of his own, or one that was left; a pause of the
gate he leaves alone
while the play runs. `byGate` is first the local `paused_by_gate`, then the
fact recorded from what the script printed. What the deployment does behind
the gate is one step, `Work`: `ImplementsWindow` shows that everything the
script does is a step of `SpoolWindow` or invisible to it, and the roles put
their transactions there.

A pause that a dead play or a failed release left is nobody's to the next
operation: the script finds the spool paused, prints `was_already_paused=1` and
`paused_by_gate=0`, and the release leaves it alone. It is `leftPaused` from
the moment a window is asked for (`AsksForWindow`), and one of the states
`SpoolGate` starts in.

In `ShmAdapter` a slot of `cgi` is a process that waits for 45 seconds, and
`request` its POST, which goes on without it: to the service, through the
handler, and back as an answer. The service reserves, answers from the record
or settles as `ReceiptLifecycle` allows; it dies with its handlers, and the FNS
may act on what they sent. Payment and configuration are edited between a
request and its retry, other clients cancel.

`AdapterDeploy` has one copy of the transaction that five places of the roles
share (cutover, its rescue, the restoration after a failed validation, the
requested rollback, the safety backup): `stage` says which, `Want` what it
installs, `Broken` and `Abandon` where a failure leads. A command that fails may
have done its work (`chattr -i`, a part of the helper modules, `chattr +i` that
`lsattr` does not confirm, `docker unpause`, the manifest). A deployment backs
up what it found, with the commit that `deploy-state.json` names at that moment
(`BacksUp`); a rollback takes the files of such a backup and the commit of its
metadata (`Rollback`), and that commit is what it writes into the manifest
(`LiveManifest`), next to the checksum of the live file. `Unknown` is
`unknown-pre-manifest`, or no commit: an adapter may be older than the
manifest. A `docker exec`
fails in a paused container. The fact names are those of the roles
(`leavePaused`, `immutableRestored`, ...), including which of them
`restore_adapter.yml` resets and which it does not. The lock admits one play at
a time, so this module has one.

`DeployLock` cuts `acquire` and `release` at each change of the directory, so
that plays race and die between them; the operator removes a stale lock when
no play is at work. `ServiceDeploy` puts the role where the lock is held. A
receipt is reserved only while its CGI waits, hence while the spool runs
(`ReceiptStarts`); it may still be worked on when that CGI has given up. A cancellation comes from
any client at any time. `docker compose up` replaces the process and ends the
work on it; it may leave a process that runs the same image already. A
deployment of the image that runs is skipped if `/healthz` answers ok and goes
through the cutover if it does not (`Deploy`); the skipped one checks the
manifest against the backup it names (`Reconciles`). A play for the adapter
takes the same lock, writes its own backup into the same manifest and may leave
the spool paused; here it is one step (`AdapterRole`).

The operator follows the documentation: he resumes his own pauses whenever he
likes, a pause a play left behind only when no play is at work, and for the
adapter after verifying the files and `chattr +i` (`OperatorRecovers`).

History variables (`asked`, `acked`, `confirmed`, `orphaned`, `rolledBack`,
`lost`, `resumed`, `markedFor`, `touched`, `unrecorded`, `rescueFailed`) are read by no
action.

## 3. Properties and runs

| run | instance | properties |
|---|---|---|
| `receipts_faults` | 1 id, 2 payloads, 2 UUIDs, 3 handlers, 3 deaths, unreadable answers | `TypeOK`, `AtMostOneIncome`, `NeverRepeatsRequest`, `RequestPersistedFirst`, `RecordsMatchFns`, `OutboxMatchesReceipts`, `MemoryIsCommitted`, `OneWorkerPerReceipt`, `StuckOnlyAfterFault`, `AckedIsRegistered`, `ConfirmedSurvives` |
| `receipts_two` | 2 ids, 1 payload, 3 UUIDs, 2 handlers, 1 death | `FailedIsNotRegistered`, `CancelIsTracked`, `RecordsMoveForward` |
| `receipts_lifecycle` | 1 id, 2 payloads, 2 UUIDs, 3 handlers, 2 deaths, fairness | `ImplementsLifecycle`, `EveryReceiptSettles` |
| `token_client` | 2 calls, 2 rotations, 2 deaths, fairness | `TypeOK`, `RotationDurableFirst`, `LockedOutOnlyAfterLoss`, `TokenNeverGoesBack`, `EveryCallReturns` |
| `adapter_payments` | 1 payment, 2 details, 2 processes, 1 edit, 1 death, fairness | `TypeOK`, `OneIncomePerPayment`, `MarkIsItsReceipt`, `PaidIsSettled` |
| `spool_gate` | 2 CGI processes, 2 probes, 2 attempts, fairness | `TypeOK`, `WindowIsQuiet`, `LeftPausedLoudly`, `OperatorPauseRespected`, `OperationEnds`, `ImplementsWindow` |
| `adapter_deploy` | 2 versions, 3 plays, 3 failures | `TypeOK`, `NeverRunsUnprotected`, `RunsWholeAdapter`, `FailedCutoverTakenBack`, `ManifestIsHonest` |
| `service_deploy` | 3 plays, 2 images, 3 failures | `TypeOK`, `OneOperator`, `CutoverIsAllOrNothing`, `CreatingSurvivesCutover` |
| `receipts_failed` | 1 id, no death, unreadable answers | `FailedIsNotRegistered` is violated |
| `receipts_unknown` | 1 id, no death | `UnknownWasAsked` is violated |
| `adapter_rollback` | 2 versions, 2 plays, 1 failure | `FailedRollbackRestoresSafety` is violated |
| `service_manifest` | 1 play, 1 failure | `FailedKeepsManifest` is violated |

What they say:

* `AtMostOneIncome`, `NeverRepeatsRequest`: an id is declared once, and asked
  for once, in all lives of the service. This is what the order *reserve
  durably, then call* is for, and why an uncertain reservation is an error.
* `RequestPersistedFirst`: any file a power loss may leave knows the income.
* `RecordsMatchFns`, `AckedIsRegistered`, `ConfirmedSurvives`: what a client
  reads or was told exists at the FNS, and a 201 survives a power loss.
* `OutboxMatchesReceipts`: failure and notification are one write.
* `OneWorkerPerReceipt`, `RecordsMoveForward`: a handler owns the receipt it
  calls for, nobody changes the record under it, final statuses are final.
* `MemoryIsCommitted`: an error after the rename is still a commit.
* `StuckOnlyAfterFault`, `EveryReceiptSettles`: a receipt remains in
  `creating` or `cancelling` only because of a fault the operator can see.
* `FailedIsNotRegistered`, `CancelIsTracked`: a definite status is definite.
* `ImplementsLifecycle`: all of it at once, as one small state machine.
* `TokenNeverGoesBack`, `RotationDurableFirst`: what `accessTokenFor` read
  before an exchange is still the latest when it writes the successor, because
  the mutex is held; an access token is used only once its refresh token is on
  the device.
* `LockedOutOnlyAfterLoss`: the refresh token of the file is one the FNS
  accepts, unless an answer, a write or a process was lost after a rotation.
  The code cannot close that gap: the exchange and the write are two systems.
* `EveryCallReturns`: the queue at the mutex moves whatever the FNS does.
* `WindowIsQuiet`: the second probe of the gate sees what the spool started
  between the first one and the pause. It holds until the operator resumes a
  pause of his own, which nothing in the service role notices.
* `LeftPausedLoudly`, `OperatorPauseRespected`: who paused the spool is never
  forgotten, on any early return. One exception is stated in the property: an
  undoing that could not be verified (`unpause_and_verify`) is reported as a
  pause of the gate, and if the operator pauses the spool just then, the
  release takes his pause for the gate's. A pause that an earlier operation
  left is never ended by this one, without exception.
* `OperationEnds`: the retries of the gate are bounded.
* `ImplementsWindow`: what the roles rely on. Whoever paused the spool, the
  gate's answer and the release never confuse it beyond what `SpoolWindow`
  states.
* `OneIncomePerPayment`, `MarkIsItsReceipt`: SHM repeats a payment through
  timeouts, late answers, edits and deaths, and it is declared once; what is
  written into its comment is that declaration, with the data it was made for.
* `PaidIsSettled`: a fiscal payment is marked in the end, unless it
  `NeedsOperator`, which lists the five ways in which the code gives up on it.
* `NeverRunsUnprotected`, `RunsWholeAdapter`: the spool runs only in front of a
  complete adapter with `chattr +i`, through every failing command of cutover,
  rescue, restoration and finalization. The first is about hosts where a play
  has had a window: before that the adapter need not be sealed.
* `FailedCutoverTakenBack`: a play that failed in its cutover leaves what it
  found, or a paused spool.
* `ManifestIsHonest`: the manifest gets the checksum of a CGI that is live,
  whole and sealed, and the commit of that CGI. A deployment never writes
  another one. A rollback may, in two cases the property names: the backup says
  `unknown-pre-manifest`; or some play that did not end well, or the operator,
  had left an adapter under a manifest that names another commit
  (`unrecorded`), and a backup copied it. The code does the latter: v1 is live,
  v2 is accepted and the write of its manifest fails, v3 is deployed, and a
  rollback to the backup of v3's deployment makes v2 live under the
  `adapter_commit` of v1. No document promises otherwise, so this is a hazard
  in `PROJECT.json` and not a finding; the property says that there is no other
  way to a wrong commit.
* `OneOperator`: the lock excludes, and its holder finds its own token in it.
* `CutoverIsAllOrNothing`: new service or old one, unless a task of the rescue
  fails, too. A first deployment leaves no container it has seen started.
* `CreatingSurvivesCutover`: the check for receipts in `creating` is done once,
  and holds until the process is replaced or removed, under the same image or
  another, also by a rescue much later, because the spool is paused. It does
  not hold for cancellations, nor once the
  operator resumes the spool.

### Bounds

One id is enough for most: handlers of different ids share only the store,
whose writes carry the whole file. `receipts_two` has two ids to check just
that. Two payloads show a retry with another one; three handlers let a third
one in while two race; two UUIDs let a wrong second income be registered
(three with two ids). Three deaths let a receipt be reserved, called for and
settled by three processes. `MaxCrashes` is the only bound in a guard.
`receipts_two` also bounds the set of survivors to two by a CONSTRAINT, i.e.
one uncertain write at a time; `receipts_faults` has no such bound. Handlers,
UUIDs, payloads and ids are interchangeable, and the runs of safety properties
use that symmetry; the liveness run does not.

Two calls at the mutex are a holder and one that waits; two rotations let a
late exchange write over a newer token if the mutex did not prevent it
(`MaxTokens`, `MaxDeaths` are the bounds in guards). Two attempts of the gate
show a second one after an undone first, two probes a wait that goes on; its
safety is proved for any number.

The adapter's two processes are a request and its retry, its two details a
payment before and after an edit. Two versions and three failures of
`adapter_deploy` let a cutover fail, then its rescue, then the sealing; or a
play die and the next one meet what it left. Three plays are what a wrong
commit takes: one whose manifest is not written, one that backs up what it left,
and a rollback to that backup. A rollback needs a backup, hence a deployment
before it, so `adapter_rollback` has two plays. In `service_deploy` three plays
are a holder, one that races it and one after them; three failures a command of
the cutover, one of the rescue, and a death in the lock. `MaxChanges`,
`MaxDeaths`, `MaxPlays` and `MaxFailures` are bounds in guards; the safety
properties of both roles and of the lock are proved for any value. `Plays` and
`Images` are interchangeable, and the run uses it.

`CutAnswers` tells whether a 2xx answer can be unreadable (connection or
timeout in the body, no JSON). It is TRUE wherever the property holds with it.
`FailedIsNotRegistered`, `CancelIsTracked` and `ImplementsLifecycle` need it to
be FALSE: see the first finding.

### Fairness

`FairSpec` assumes that a handler that can take a step takes one. The code
justifies it: the wait for an answer ends with the timeout of the HTTP client
(`lknpd.New`), and the mutex of the store is held for one file write. Nothing
is assumed about clients, about the FNS, which may never answer, or about
restarts after a death.

`TokenClient` assumes it of the call that holds the mutex (the timeout again),
and strong fairness of a call that waits for it: Go's mutex hands itself to a
waiter that starves. `SpoolGate` assumes that the play goes on, i.e. that its
commands return; the spool and the operator owe nothing.

`ShmAdapter` assumes that the service serves its requests, as above; that SHM
repeats a payment until it is marked (it repeats whatever is not answered with
a success); and that of attempts repeated for ever not all writes, answers and
commits fail, and not all processes give up before their request is served
(strong fairness). Without the latter no system could promise the mark.

The roles have safety properties only: a play may die at any step.

Deadlock is checked in every run but `adapter_payments`, which stops when the
payment is marked or not fiscal.

## 4. Findings

1. `receipts_failed`: headers of a 2xx answer arrive, its body does not, or is
   not JSON. `doJSON` returns an `APIError` with the status 2xx, so
   `upstreamErrorCode` does not look for a timeout and says `upstream_error`:
   the receipt becomes `failed` with its event, and the income is registered.
   `notify.go` says of `failed` "definitely not registered upstream", the
   README that a network timeout of `POST /income` produces `unknown`. For a
   cancellation the same answer takes the record back to `created`.
2. `receipts_unknown`: a timeout, transport error or 5xx of `POST /auth/token`
   makes the receipt `unknown` although `/income` was never called. The
   comment in `classifyUpstream` calls a token failure definite.
3. `adapter_rollback`: `docs/DEPLOYMENT.md` promises that the safety backup is
   restored when a manual rollback fails. A rollback that fails after its first
   file keeps the spool paused, and the restoration begins with `docker exec` in
   that spool and refuses one that is paused. It fails before it touches a file.
   (The spool stays paused, so `RunsWholeAdapter` holds nevertheless.) In the
   run v2 was deployed over v1, a rollback to v1 fails between helpers and CGI,
   and stays there.
4. `service_manifest`: the documentation says of a failed write of the manifest
   that the prior one is retained. The write can fail after its rename; the
   rescue takes back the service and not the manifest.

## 5. Proofs

`ReceiptService_proofs` proves, for every choice of ids, payloads, UUIDs,
handlers and number of deaths, from `StoreAssumption`, `ServiceAssumption` and
`NoIdAssumption` (the placeholders are no members of the sets they stand
beside):

| theorem | statement |
|---|---|
| `TypeCorrect` | `Spec => []TypeOK` |
| `OneIncome` | `Spec => []AtMostOneIncome` |
| `AsksOnce` | `Spec => NeverRepeatsRequest` |
| `PersistedFirst` | `Spec => []RequestPersistedFirst` |
| `OneWorker` | `Spec => []OneWorkerPerReceipt` |
| `MemoryCommitted` | `Spec => []MemoryIsCommitted` |

The argument. `AtMostOneIncome` is not inductive: it needs to know that no
request for an id is on the wire once its income exists (`AskedOnce`), hence
that no handler is about to send a second one (`CreatesKnown`), hence that no
handler can reserve an id that was asked for. That last step is the heart: a
reservation needs an id without a record, in memory. Memory is the file
(`MemoryIsCommitted`), the file is a survivor, and every survivor knows an
asked id (`AskedKnown`), because the request went out only after a durable
reservation left a single survivor with it, and each later write or power loss
starts from contents that have it. `OneWorkerPerReceipt` keeps a second handler
from the call meanwhile, and `HandlersOK` says that handlers exist only in a
running process and work with the stored payload. `Inv` is the conjunction;
TLC checked it as an invariant before it was proved.

`ReceiptService_proofs` proves types first (`TypeInv`), one step per action. Three lemmas
carry most of the rest: `WritesKeep` (what every write of the store preserves),
`SlotStep` and `GoesOn` (steps that change one handler), and `DeathStep`
(crash and power loss); then one lemma per action, `InvStep`, `Invariance`.

`ReceiptRecords_proofs` proves, from the same assumptions and over `Inv`, that
what the records say is true:

| theorem | statement |
|---|---|
| `RecordsMatch` | `Spec => []RecordsMatchFns` |
| `OutboxMatches` | `Spec => []OutboxMatchesReceipts` |
| `AckedRegistered` | `Spec => []AckedIsRegistered` |
| `ConfirmedKept` | `Spec => []ConfirmedSurvives` |
| `StuckAfterFault` | `Spec => []StuckOnlyAfterFault` |
| `MoveForward` | `Spec => RecordsMoveForward` |

Its invariant `RecordInv` adds to these properties what a handler knows
(`SlotsFit`): on the wire is what it asked for and waits for, a handler told of
a success has an income to store, one told of a cancellation an annulled one.
That makes the record true when it is written; the write then reaches every
survivor or leaves those that were there, and both were true (the lemmas on
`Candidate`, the content a write adds). `StuckOnlyAfterFault` speaks of a
running service only; `DiskTended` is its form for the file, which holds while
the service is down as well. `MoveForward` combines it with `OneWorker`: the handler
that writes is the only one at the receipt and finds the record as it left it.

`ReceiptLifecycle_proofs` proves what rests on a readable answer. Each theorem
says so: `ASSUME CutAnswers = FALSE`, which `receipts_failed` shows to be
necessary (the first finding).

| theorem | statement |
|---|---|
| `FailedNotRegistered` | `Spec => []FailedIsNotRegistered` |
| `CancelTracked` | `Spec => []CancelIsTracked` |
| `Implements` | `Spec => ImplementsLifecycle` |

The assumption enters in one place: with it no answer to a request the FNS
carried out is taken for a definite failure (`DoneIsNotFailed`, from
`classifyUpstream`). `OpenInv` follows the consequences: a handler
that is told of a failure has nothing on the wire and no income
(`FailuresFit`), and every income that is annulled, or about to be, is tracked
by its record, unless rolled back (`Tracked`). `PastInv` needs no assumption: what
a power loss may leave is, receipt by receipt, an older record of the same
receipt (`Lineage`), a receipt in creation is `creating` in all of it
(`Holding`), and a UUID is that of one income. TLC finds no violation of
`RecordInv`, `PastInv` and `OpenInv` on the instance of `receipts_two`.

`Implements` is the refinement, with `receipts <- disk.receipts`. It takes each
action to one of `ReceiptLifecycle` or to a stutter: `CreateReserves`,
`CreateSucceeds`, `CreateFails`, `CancelBegins` and `CancelSettles` change one
record when their write gets as far as the rename and stutter otherwise; the
steps of the FNS are those of the lifecycle; a power loss replaces records by
older ones, by `Lineage`, and a crash is a stutter, because the lifecycle has no
process.

`ShmAdapter_proofs` proves, from `AdapterAssumption`, for any payments,
details, processes and number of edits and deaths:

| theorem | statement |
|---|---|
| `TypeCorrect` | `Spec => []TypeOK` |
| `DeclaredOnce` | `Spec => []OneIncomePerPayment` |
| `MarkedWithItsReceipt` | `Spec => []MarkIsItsReceipt` |

The service is known by the steps of `ReceiptLifecycle` only. What is needed of
it are two facts: what holds of receipts and incomes after each step
(`ServiceOK`: an id has one income, that of its record), and what a step that is
no power loss never takes back (`Keeps`: incomes, and the payload of an id in
use). `RequestFits` says what a request knows: one in creation finds its id
reserved with what it sent, and an answer with a receipt names an income of
that id with what was sent, even if the process that sent it is gone. It is kept
by `Keeps`, whoever else moves. `MarkIsItsReceipt` follows when the
process marks, and stays true because incomes do. A power loss is the one step
`Keeps` does not hold for; it ends the service and with it every request in
creation. `AdapterInv`, the conjunction, was checked by TLC first.

`TokenClient_proofs` proves, from `TokenAssumption` (the placeholders are no
tokens and no call), for any set of calls and number of rotations and deaths:

| theorem | statement |
|---|---|
| `TypeCorrect` | `Spec => []TypeOK` |
| `DurableFirst` | `Spec => []RotationDurableFirst` |
| `LockedOutByLoss` | `Spec => []LockedOutOnlyAfterLoss` |
| `NeverGoesBack` | `Spec => TokenNeverGoesBack` |

The argument: the mutex is held through exchange and write (`LockInv`), so the
token of the file does not change under an exchange and its answer is that token
or a newer one (`ExchangeInv`, with `IssuedInv`). While nothing is lost the FNS
accepts the token of the file or the one about to be stored (`LossInv`): a
request that outlived its call can rotate the token away, but then its answer is
lost.

`SpoolGate_proofs` proves, from `GateAssumption` (both bounds are positive):

| theorem | statement |
|---|---|
| `TypeCorrect` | `Spec => []TypeOK` |
| `QuietWindow` | `Spec => []WindowIsQuiet` |
| `PausesAreReported` | `Spec => []LeftPausedLoudly` |
| `RespectsOperator` | `Spec => OperatorPauseRespected` |
| `KeepsWindow` | `Spec => ImplementsWindow` |

Its invariant says whose the pause is at each step of the script: a pause of
the gate is claimed by `byGate` (`PauseIsOwned`), the claim is true wherever
the release relies on it (`ClaimIsTrue`), an attempt starts without one
(`AttemptIsFresh`), a confirmed pause lasts until the operator resumes
(`PauseLasts`), and one that was left is claimed by nobody (`LeftIsNotOwned`). `KeepsWindow` is the refinement: under that invariant each
action maps to one of `SpoolWindow` or to a stutter (`WindowStep`).

`AdapterDeploy_proofs` proves, from `AdapterAssumption`, for any versions and any
number of plays and failures:

| theorem | statement |
|---|---|
| `TypeCorrect` | `Spec => []TypeOK` |
| `NeverUnprotected` | `Spec => []NeverRunsUnprotected` |
| `WholeAdapter` | `Spec => []RunsWholeAdapter` |
| `TakenBack` | `Spec => []FailedCutoverTakenBack` |
| `HonestManifest` | `Spec => ManifestIsHonest` |

The two properties of the running spool become inductive once they say when it
*may* be resumed: unless the gate has paused it, and while a window is asked
for, the adapter is whole and sealed (`SafeInv`). Files change only behind a
pause of the gate (`WindowInv`). A transaction knows how far it is (`FilesInv`).
With `leavePaused` unset the files are of one version when the always section is
reached, and `immutableRestored`, a stale fact of an earlier window included, is
true only of a sealed CGI when the release reads it (`AlwaysInv`). `ClaimInv` is
what the manifest rests on, `PriorInv` what the rescue has put back. Each
action has a lemma with one step per part. `NamesInv`, proved over the rest, is
about the commits: unless an adapter was left under a manifest that does not
name it, the manifest names the live adapter between plays and the one that was
found during a play, and every backup its own version, or none of them any. A
play takes its commit from there (`NamesAtTheStart`), keeps it
(`NamesWhileAtWork`), and ends with the adapter it found, with a manifest that
names another, or with an entry in the history (`NamesAtTheEnd`).
`HonestManifest` follows from it and `ClaimInv`.

`ServiceDeploy_proofs` proves, from the assumptions of `DeployLock` and
`ServiceDeploy`, for any plays, images and number of failures:

| theorem | statement |
|---|---|
| `TypeCorrect` | `Spec => []TypeOK` |
| `OnePlay` | `Spec => []OneOperator` |
| `AllOrNothing` | `Spec => []CutoverIsAllOrNothing` |
| `CreatingSurvives` | `Spec => CreatingSurvivesCutover` |

`LockInv` says who is in the directory at each step of `acquire` and `release`
and whose token is in it; `RoleInv` that the role belongs to the holder of the
lock; `FactsInv` what the facts say of the files; `HostInv` what the host is at
each step of cutover and rescue, and `FlightInv` that no receipt is in
creation from the check on, unless the operator has resumed the spool.

Only model-checked: the liveness properties (`EveryReceiptSettles`,
`EveryCallReturns`, `OperationEnds`, `PaidIsSettled`), which rest on fairness and
are out of the prover's reach. Every other property of a passing run has a
theorem. `UnknownWasAsked`, `FailedRollbackRestoresSafety`, `FailedKeepsManifest`
and, where an answer can be unreadable, `FailedIsNotRegistered` are violated by
the code (section 4).

## 6. Not modelled

Read-only endpoints, authorization, logging and configuration (no state).
Migration of old state files. Delivery of notifications: the repository has no
code that does it. HTTP redirects and retries inside Go's transport. A second
process on the same file: compose runs one container. Corruption of the file
other than by a power loss.

Of the adapter, the extraction and formatting of amounts and times (pure
functions over text: their result is a value here), and so the range of
`normalizeAmount`. Of the deployments, the preflights, the status role and the
one-off bootstrap gate: they read the host and fail or print. Of a backup the
versions and commits in it are modelled, and what the service's reconciliation
asks of it; checksums, owners and modes, whose mismatch refuses a rollback, are
not, nor a second rollback to the safety backup of a first one, whose layout
the role does not accept. A power loss of the host in a deployment. An operator who does not
follow the documentation: who resumes a spool in front of a CGI without its
flag, or runs Docker by hand under a play.

## 7. Plan

Done: the receipt service with its store, token client and lifecycle; the SHM
adapter over that lifecycle; the gate, its window, both deployment roles and
the lock; the theorems of section 5. Left, in this order:

1. The migration of old state files in `Open`, and `PaymentData` with
   `normalizeAmount`: pure functions against a reference definition.
2. The bootstrap gate and the rest of the metadata of backups, next to the
   reconciliation of `ServiceDeploy`.
