----------------------------- MODULE ServiceDeploy -----------------------------
(***************************************************************************)
(* Deployments and rollbacks of the receipt service: the roles             *)
(* vff_fiscal_service and vff_fiscal_service_rollback. Behind the          *)
(* deployment lock and the gate of the spool a play replaces the Compose   *)
(* file and the container, asks the new service, writes the manifest, and  *)
(* puts the previous service back when one of these fails. Meanwhile the   *)
(* old service works on receipts.                                          *)
(*                                                                         *)
(* The play that holds the lock is at                                      *)
(*   idle       before its role, or after it                               *)
(*   window     at the gate                                                *)
(*   assert, backup, swap, up, health, manifest    the cutover             *)
(*   restore, reup, recheck, remove                its rescue              *)
(*   release    the always section                                         *)
(***************************************************************************)
EXTENDS DeployLock, SpoolWindow, Naturals

CONSTANTS
    Images,         \* of the service, one for each commit
    NoImage,
    MaxFailures     \* bound of the model: commands that fail, plays that die

ASSUME ServiceAssumption ==
    NoImage \notin Images /\ MaxFailures \in Nat

VARIABLES
    compose,        \* the image of the production Compose file
    container,      \* its image, and whether it runs
    manifest,       \* service_image, and what backup_directory is a backup for
    flight,         \* a receipt the service works on: none, creating, cancelling
    play,           \* who, which role, which image, and what it found
    step, result,
    facts,          \* of Ansible
    failures

(* History: the operator has resumed the spool since the gate, and a task  *)
(* of the rescue failed.                                                   *)
VARIABLES resumed, rescueFailed

host == <<compose, container, manifest>>
vars == <<lockVars, windowVars, host, flight, play, step, result, facts,
          failures, resumed, rescueFailed>>

Container(image, up) == [image |-> image, up |-> up]

NoContainer == Container(NoImage, FALSE)

NoManifest == [image |-> NoImage, backupOf |-> NoImage, previous |-> NoImage]

NoFacts == [replaced |-> FALSE, started |-> FALSE]

AnyImage == Images \cup {NoImage}

Manifests == [image : AnyImage, backupOf : AnyImage, previous : AnyImage]

HostTypeOK ==
    /\ compose \in AnyImage
    /\ container \in [image : AnyImage, up : BOOLEAN]
    /\ manifest \in Manifests
    /\ flight \in {"none", "creating", "cancelling"}
    /\ flight # "none" => container.up

RoleTypeOK ==
    /\ play \in [by : Plays \cup {NoPlay}, job : {"deploy", "rollback"},
                 to : AnyImage, was : AnyImage, had : BOOLEAN,
                 compose : AnyImage, manifest : Manifests]
    /\ step \in {"idle", "window", "assert", "backup", "swap", "up", "health",
                 "manifest", "restore", "reup", "recheck", "remove", "release"}
    /\ result \in {"none", "ok", "failed"}
    /\ facts \in [replaced : BOOLEAN, started : BOOLEAN]
    /\ failures \in 0..MaxFailures
    /\ resumed \in BOOLEAN /\ rescueFailed \in BOOLEAN

TypeOK == LockTypeOK /\ WindowTypeOK /\ HostTypeOK /\ RoleTypeOK

(* A host without the service, or as a deployment left it, or with a       *)
(* container that has lost its Compose file.                               *)
Init ==
    /\ LockInit
    /\ spool \in {"running", "pausedByOperator"}
    /\ window = "closed" /\ byOperation = FALSE
    /\ \/ compose = NoImage /\ container = NoContainer /\ manifest = NoManifest
       \/ \E image, previous \in Images :
            /\ compose \in {image, NoImage} /\ container = Container(image, TRUE)
            /\ manifest = [image |-> image, backupOf |-> image, previous |-> previous]
    /\ flight = "none"
    /\ play = [by |-> NoPlay, job |-> "deploy", to |-> NoImage, was |-> NoImage,
               had |-> FALSE, compose |-> NoImage, manifest |-> NoManifest]
    /\ step = "idle" /\ result = "none" /\ facts = NoFacts
    /\ failures = 0 /\ resumed = FALSE /\ rescueFailed = FALSE

-----------------------------------------------------------------------------
(* The old service at work. A receipt is reserved while the CGI that asks  *)
(* for it waits, hence while the spool runs, and may be worked on after    *)
(* that CGI has given up; a cancellation comes from any client.            *)
ReceiptStarts ==
    /\ container.up /\ flight = "none"
    /\ \/ spool = "running" /\ flight' = "creating"
       \/ flight' = "cancelling"
    /\ UNCHANGED <<lockVars, windowVars, host, play, step, result, facts,
                   failures, resumed, rescueFailed>>

ReceiptEnds ==
    /\ flight # "none" /\ flight' = "none"
    /\ UNCHANGED <<lockVars, windowVars, host, play, step, result, facts,
                   failures, resumed, rescueFailed>>

-----------------------------------------------------------------------------
Fails == failures < MaxFailures /\ failures' = failures + 1

Holder == play.by

(* The role is over, and the play goes to its always section.              *)
RoleEnds(p, outcome) ==
    /\ Becomes(p, "holding", "leaving")
    /\ step' = "idle" /\ result' = outcome
    /\ UNCHANGED <<lockDir, token, metadata>>

Begins(p, job, image) ==
    /\ at[p] = "holding" /\ step = "idle"
    /\ play' = [by |-> p, job |-> job, to |-> image,
                was |-> IF container.up \/ job = "rollback" THEN container.image ELSE NoImage,
                had |-> container.up, compose |-> NoImage, manifest |-> manifest]
    /\ facts' = NoFacts
    /\ rescueFailed' = FALSE
    /\ UNCHANGED <<compose, container, flight>>

EntersWindow ==
    /\ AsksForWindow
    /\ step' = "window" /\ result' = "none" /\ resumed' = FALSE
    /\ UNCHANGED <<lockVars, manifest>>

(* The manifest is checked against, and restored from, the backup it       *)
(* names, which must be the one of a deployment of this image.             *)
Reconciles(p, image) ==
    /\ UNCHANGED <<windowVars, resumed>>
    /\ \/ /\ manifest.backupOf = image /\ manifest.previous # NoImage
          /\ manifest' = [manifest EXCEPT !.image = image]
          /\ RoleEnds(p, "ok") /\ UNCHANGED failures
       \/ /\ IF manifest.backupOf = image /\ manifest.previous # NoImage
             THEN Fails ELSE UNCHANGED failures
          /\ RoleEnds(p, "failed") /\ UNCHANGED manifest

(* A deployment whose image runs and answers ok at /healthz skips the      *)
(* cutover; one that runs and does not answer is deployed again.           *)
Deploy(p, image) ==
    /\ Begins(p, "deploy", image)
    /\ \/ container = Container(image, TRUE) /\ Reconciles(p, image)
       \/ container = Container(image, TRUE) /\ Fails /\ EntersWindow
       \/ container # Container(image, TRUE) /\ UNCHANGED failures /\ EntersWindow

(* A rollback goes back to the backup of a deployment over another image,  *)
(* and wants the Compose file of the container it may have to restore.     *)
Rollback(p, image) ==
    /\ manifest.previous # NoImage
    /\ container # NoContainer => compose # NoImage
    /\ Begins(p, "rollback", image)
    /\ EntersWindow
    /\ UNCHANGED failures

(* The preflights fail, or the requested rollback cannot be undone.        *)
Refuses(p) ==
    /\ at[p] = "holding" /\ step = "idle"
    /\ Fails /\ RoleEnds(p, "failed")
    /\ facts' = NoFacts
    /\ UNCHANGED <<windowVars, host, flight, play, resumed, rescueFailed>>

(* A play for the adapter (AdapterDeploy), under the same lock. The        *)
(* backup it records in the manifest, if it makes one, is none of the      *)
(* service; and a failure may leave the spool paused.                      *)
AdapterRole(p) ==
    /\ at[p] = "holding" /\ step = "idle"
    /\ manifest' \in {manifest, [manifest EXCEPT !.backupOf = NoImage]}
    /\ \/ ~Paused /\ RoleEnds(p, "ok") /\ UNCHANGED <<spool, failures>>
       \/ /\ Fails /\ RoleEnds(p, "failed")
          /\ spool' \in {spool, IF Paused THEN spool ELSE "pausedByGate"}
    /\ UNCHANGED <<window, byOperation, compose, container, flight, play, facts,
                   resumed, rescueFailed>>

-----------------------------------------------------------------------------
(* The gate. A spool the operator had paused will do, and stays his.       *)
AtTheGate ==
    /\ step = "window"
    /\ GatePauses \/ GateUndoes
    /\ UNCHANGED <<lockVars, host, flight, play, step, result, facts, failures,
                   resumed, rescueFailed>>

Admitted ==
    /\ step = "window"
    /\ GateAcquires
    /\ step' = "assert" /\ resumed' = ~Paused
    /\ UNCHANGED <<lockVars, host, flight, play, result, facts, failures, rescueFailed>>

Refused ==
    /\ step = "window"
    /\ GateGivesUp
    /\ Fails
    /\ step' = "release" /\ result' = "failed"
    /\ UNCHANGED <<lockVars, host, flight, play, facts, resumed, rescueFailed>>

-----------------------------------------------------------------------------
(* The cutover. The rescue has nothing to do before the Compose file was   *)
(* replaced; then it restores the previous one if there was one, and else  *)
(* a deployment removes the container it started. Mutant: nothing is       *)
(* restored once the new container has started.                            *)
RescueUnlessStarted ==
    /\ result' = "failed" /\ UNCHANGED facts
    /\ step' = IF facts.replaced /\ ~facts.started /\ play.compose # NoImage
               THEN "restore" ELSE "release"

Rescue ==
    /\ result' = "failed" /\ UNCHANGED facts
    /\ step' = IF facts.replaced /\ play.compose # NoImage THEN "restore"
               ELSE IF facts.started /\ ~play.had /\ play.job = "deploy" THEN "remove"
               ELSE "release"

Stays == UNCHANGED <<lockVars, windowVars, resumed>>

GoesOn(next) == step' = next /\ UNCHANGED <<result, facts, failures>>

CommandFails == Fails /\ Rescue

(* inspect-state.py reads the file once, and looks for creating only.      *)
(* Mutant: it does not.                                                    *)
AssertsNothing ==
    /\ step = "assert"
    /\ \/ GoesOn("backup")
       \/ CommandFails
    /\ Stays /\ UNCHANGED <<host, flight, play, rescueFailed>>

AssertsNoCreating ==
    /\ step = "assert"
    /\ \/ flight # "creating" /\ GoesOn("backup")
       \/ flight = "creating" /\ Rescue /\ UNCHANGED failures
       \/ CommandFails
    /\ Stays /\ UNCHANGED <<host, flight, play, rescueFailed>>

(* Without a Compose file a running service could not be put back.         *)
Restorable == play.job = "deploy" /\ play.had => compose # NoImage

BacksUp ==
    /\ step = "backup"
    /\ \/ /\ Restorable
          /\ play' = [play EXCEPT !.compose = compose]
          /\ GoesOn("swap")
       \/ ~Restorable /\ Rescue /\ UNCHANGED <<play, failures>>
       \/ CommandFails /\ UNCHANGED play
    /\ Stays /\ UNCHANGED <<host, flight, rescueFailed>>

Swaps ==
    /\ step = "swap"
    /\ \/ /\ compose' = play.to
          /\ facts' = [facts EXCEPT !.replaced = TRUE]
          /\ step' = "up" /\ UNCHANGED <<result, failures>>
       \/ CommandFails /\ UNCHANGED compose
    /\ Stays /\ UNCHANGED <<container, manifest, flight, play, rescueFailed>>

(* docker compose up replaces the container, and with it the process and   *)
(* what it worked on; it may leave one that runs the same image. The new   *)
(* one may end at once; or the command fails, with or without a new        *)
(* container. Mutant: the work goes on without a process.                  *)
RecreatesKeepsFlight(image, up) ==
    /\ container' = Container(image, up)
    /\ UNCHANGED flight

Recreates(image, up) ==
    /\ container' = Container(image, up)
    /\ flight' = "none" \/ (up /\ container = container' /\ UNCHANGED flight)

Ups ==
    /\ step = "up"
    /\ \/ /\ Recreates(compose, TRUE) /\ UNCHANGED failures
          /\ facts' = [facts EXCEPT !.started = TRUE]
          /\ step' = "health" /\ UNCHANGED result
       \/ /\ Recreates(compose, FALSE) /\ Fails
          /\ facts' = [facts EXCEPT !.started = TRUE]
          /\ step' = "health" /\ UNCHANGED result
       \/ /\ CommandFails
          /\ \/ UNCHANGED <<container, flight>>
             \/ \E up \in BOOLEAN : Recreates(compose, up)
    /\ Stays /\ UNCHANGED <<compose, manifest, play, rescueFailed>>

(* /healthz, the health of the container, and an authenticated request.    *)
ChecksHealth ==
    /\ step = "health"
    /\ \/ container.up /\ GoesOn("manifest")
       \/ ~container.up /\ Rescue /\ UNCHANGED failures
       \/ CommandFails
    /\ Stays /\ UNCHANGED <<host, flight, play, rescueFailed>>

(* The backup of a rollback has no metadata. A write that fails may have   *)
(* replaced the file: write_manifest.py syncs the directory after that,    *)
(* and the payload is removed after that.                                  *)
NewManifest ==
    [image |-> play.to,
     backupOf |-> IF play.job = "deploy" THEN play.to ELSE NoImage,
     previous |-> play.was]

WritesManifest ==
    /\ step = "manifest"
    /\ \/ /\ manifest' = NewManifest
          /\ step' = "release" /\ result' = "ok" /\ UNCHANGED <<facts, failures>>
       \/ /\ CommandFails
          /\ manifest' \in {manifest, NewManifest}
    /\ Stays /\ UNCHANGED <<compose, container, flight, play, rescueFailed>>

-----------------------------------------------------------------------------
(* The rescue. A task of it that fails ends it.                            *)
RescueTaskFails ==
    /\ Fails
    /\ rescueFailed' = TRUE
    /\ step' = "release" /\ UNCHANGED <<result, facts>>

Restores ==
    /\ step = "restore"
    /\ \/ compose' = play.compose /\ GoesOn("reup") /\ UNCHANGED rescueFailed
       \/ RescueTaskFails /\ UNCHANGED compose
    /\ Stays /\ UNCHANGED <<container, manifest, flight, play>>

UpsAgain ==
    /\ step = "reup"
    /\ \/ Recreates(compose, TRUE) /\ GoesOn("recheck") /\ UNCHANGED rescueFailed
       \/ /\ RescueTaskFails
          /\ \/ UNCHANGED <<container, flight>>
             \/ \E up \in BOOLEAN : Recreates(compose, up)
    /\ Stays /\ UNCHANGED <<compose, manifest, play>>

ChecksAgain ==
    /\ step = "recheck"
    /\ \/ GoesOn("release") /\ UNCHANGED rescueFailed
       \/ RescueTaskFails
    /\ Stays /\ UNCHANGED <<host, flight, play>>

Removes ==
    /\ step = "remove"
    /\ \/ /\ container' = NoContainer /\ flight' = "none"
          /\ GoesOn("release") /\ UNCHANGED rescueFailed
       \/ RescueTaskFails /\ UNCHANGED <<container, flight>>
    /\ Stays /\ UNCHANGED <<compose, manifest, play>>

-----------------------------------------------------------------------------
(* unpause_spool.yml, and the end of the role.                             *)
ReleasesWindow ==
    /\ step = "release"
    /\ window' = "closed"
    /\ Becomes(Holder, "holding", "leaving") /\ step' = "idle"
    /\ \/ ~byOperation /\ UNCHANGED <<spool, result, failures>>
       \/ byOperation /\ Paused /\ spool' = "running" /\ UNCHANGED <<result, failures>>
       \/ byOperation /\ spool' \in {spool, "running"} /\ Fails /\ result' = "failed"
    /\ UNCHANGED <<lockDir, token, metadata, byOperation, host, flight, play,
                   facts, resumed, rescueFailed>>

(* The connection breaks or the control host dies, anywhere in a play.     *)
PlayDies(p) ==
    /\ Dies(p) /\ Fails
    /\ IF at[p] = "holding" /\ step # "idle"
       THEN step' = "idle" /\ result' = "none" /\ window' = "closed"
       ELSE UNCHANGED <<step, result, window>>
    /\ UNCHANGED <<spool, byOperation, host, flight, play, facts, resumed, rescueFailed>>

LockSteps ==
    /\ \/ \E p \in Plays : Acquires(p) \/ Releases(p)
       \/ OperatorRemovesLock
    /\ UNCHANGED <<windowVars, host, flight, play, step, result, facts, failures,
                   resumed, rescueFailed>>

OperatorActs ==
    /\ \/ OperatorPauses /\ UNCHANGED resumed
       \/ OperatorResumes /\ resumed' = TRUE
    /\ UNCHANGED <<lockVars, host, flight, play, step, result, facts, failures,
                   rescueFailed>>

RoleStep ==
    \/ AtTheGate \/ Admitted \/ Refused
    \/ AssertsNoCreating \/ BacksUp \/ Swaps \/ Ups \/ ChecksHealth
    \/ WritesManifest
    \/ Restores \/ UpsAgain \/ ChecksAgain \/ Removes
    \/ ReleasesWindow

Next ==
    \/ LockSteps \/ OperatorActs
    \/ ReceiptStarts \/ ReceiptEnds
    \/ \E p \in Plays :
         \/ \E image \in Images : Deploy(p, image) \/ Rollback(p, image)
         \/ Refuses(p) \/ AdapterRole(p) \/ PlayDies(p)
    \/ RoleStep

Spec == Init /\ [][Next]_vars

-----------------------------------------------------------------------------
(* No step of a play ends the work on a receipt that is being created,     *)
(* by replacing or removing its process, neither in the cutover nor in a   *)
(* rescue, unless the operator has resumed the spool under it: the check   *)
(* reads the state file once, and what makes it hold until the end is the  *)
(* paused spool.                                                           *)
CreatingSurvivesCutover ==
    [][flight = "creating" /\ step' # step /\ ~resumed => flight' = "creating"]_vars

(* When a cutover ends, whatever plays died or failed before it, the host  *)
(* is as the new deployment wants it, or the previous Compose file and its *)
(* container are back, unless the rescue failed too. A first deployment    *)
(* leaves no container that it has seen started.                           *)
CutoverIsAllOrNothing ==
    /\ step = "release" /\ result = "ok" =>
         /\ compose = play.to /\ manifest.image = play.to
         /\ container = Container(play.to, TRUE)
    /\ step = "release" /\ result = "failed" /\ facts.replaced /\ ~rescueFailed =>
         IF play.compose # NoImage
         THEN compose = play.compose /\ container = Container(play.compose, TRUE)
         ELSE facts.started /\ play.job = "deploy" => container = NoContainer

(* docs/DEPLOYMENT.md: "manifest write failure | Deployment marked failed; *)
(* prior manifest retained".                                               *)
FailedKeepsManifest ==
    step = "release" /\ result = "failed" => manifest = play.manifest
=============================================================================
