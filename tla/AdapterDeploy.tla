----------------------------- MODULE AdapterDeploy -----------------------------
(***************************************************************************)
(* Deployments and rollbacks of the SHM adapter: the roles                 *)
(* vff_fiscal_adapter and vff_fiscal_adapter_rollback, which share         *)
(* restore_adapter.yml and finalize_adapter_immutable.yml. A play replaces *)
(* the helper modules and the CGI under a window of the spool, with the    *)
(* immutable flag of the CGI taken off, and puts back what was there when  *)
(* a command fails. The deployment lock admits one play at a time.         *)
(*                                                                         *)
(* Five transactions do the same in the same order and differ in what they *)
(* install and in what a failure leads to (`stage`):                       *)
(*   cutover    the deployment installs the new version                    *)
(*   putBack    its rescue, in the same window                             *)
(*   restore    after a failed validation, in a window of its own          *)
(*   rollback   the requested version of a manual rollback                 *)
(*   safety     the rescue of that                                         *)
(* A play is at                                                            *)
(*   precheck   a restoration compiles its candidates in both containers   *)
(*   window     at the gate                                                *)
(*   backup     a deployment copies what it found                          *)
(*   unprotect, helpers, cgi, checks   the transaction                     *)
(*   finalize, release   the always section                                *)
(*   diagnose, validate  the spool runs again and is asked                 *)
(*   manifest   the success manifest; and idle                             *)
(***************************************************************************)
EXTENDS SpoolWindow, Naturals

CONSTANTS
    Versions,       \* of the adapter
    NoFile,         \* there is none yet
    Mixed,          \* helper modules of two versions
    Unknown,        \* the manifest names no commit, or unknown-pre-manifest
    MaxPlays,       \* bound of the model: plays
    MaxFailures     \* bound of the model: commands that fail, plays that die

ASSUME AdapterAssumption ==
    /\ NoFile \notin Versions /\ Mixed \notin Versions /\ NoFile # Mixed
    /\ Unknown \notin Versions
    /\ MaxPlays \in Nat /\ MaxFailures \in Nat

VARIABLES
    cgi, helpers,   \* what is installed
    immutable,      \* chattr +i of the CGI
    manifest,       \* adapter_commit and adapter_sha256 of deploy-state.json
    backups,        \* of deployments: the version of the files, and the
                    \* commit the metadata gives for them
    play,           \* the job, its version and the commit it will record for
                    \* it, and the version it found
    stage, pc, result,
    facts,          \* of Ansible, see NoFacts
    plays, failures

(* History: a play has had a window of its own; and an adapter was left    *)
(* under a manifest that names another commit, by a play that did not end  *)
(* well or by the operator who recovered.                                  *)
VARIABLES touched, unrecorded

files == <<cgi, helpers, immutable>>
counts == <<plays, failures>>
record == <<manifest, backups>>
history == <<touched, unrecorded>>
vars == <<windowVars, files, record, play, stage, pc, result, facts, counts, history>>

NoFacts == [modified |-> FALSE, immutableRestored |-> FALSE,
            leavePaused |-> FALSE, cutoverFailed |-> FALSE,
            restorationFailed |-> FALSE]

Installed == Versions \cup {NoFile}

Commits == Versions \cup {Unknown}

FilesTypeOK ==
    /\ cgi \in Installed /\ helpers \in Installed \cup {Mixed}
    /\ immutable \in BOOLEAN /\ (immutable => cgi # NoFile)
    /\ manifest \in [commit : Commits, sha256 : Installed]
    /\ backups \subseteq [version : Versions, commit : Commits]

PlayTypeOK ==
    /\ play \in [job : {"deploy", "rollback"}, to : Installed, commit : Commits,
                 prior : Installed]
    /\ stage \in {"cutover", "putBack", "restore", "rollback", "safety"}
    /\ pc \in {"idle", "precheck", "window", "backup", "unprotect", "helpers",
               "cgi", "checks", "finalize", "release", "diagnose", "validate",
               "manifest"}
    /\ result \in {"none", "ok", "failed", "died"}
    /\ facts \in [modified : BOOLEAN, immutableRestored : BOOLEAN,
                  leavePaused : BOOLEAN, cutoverFailed : BOOLEAN,
                  restorationFailed : BOOLEAN]
    /\ plays \in 0..MaxPlays /\ failures \in 0..MaxFailures
    /\ touched \in BOOLEAN /\ unrecorded \in BOOLEAN

TypeOK == WindowTypeOK /\ FilesTypeOK /\ PlayTypeOK

(* The adapter found before the first play need not be protected, and may  *)
(* be older than the manifest.                                             *)
Init ==
    /\ spool \in {"running", "pausedByOperator"}
    /\ window = "closed" /\ byOperation = FALSE
    /\ cgi \in Installed /\ helpers = cgi
    /\ immutable \in { flag \in BOOLEAN : cgi = NoFile => ~flag }
    /\ \/ manifest = [commit |-> Unknown, sha256 |-> NoFile]
       \/ cgi # NoFile /\ manifest = [commit |-> cgi, sha256 |-> cgi]
    /\ backups = {}
    /\ play = [job |-> "deploy", to |-> NoFile, commit |-> Unknown, prior |-> NoFile]
    /\ stage = "cutover" /\ pc = "idle" /\ result = "none"
    /\ facts = NoFacts
    /\ plays = 0 /\ failures = 0
    /\ touched = FALSE /\ unrecorded = FALSE

-----------------------------------------------------------------------------
Fails == failures < MaxFailures /\ failures' = failures + 1

(* `docker exec` fails, too, in a paused container.                        *)
SpoolExecFails == IF Paused THEN UNCHANGED failures ELSE Fails

SpoolExecWorks == ~Paused /\ UNCHANGED failures

EndPlay(outcome) == pc' = "idle" /\ result' = outcome

(* What the history notes when a play is over: it did not end well, left   *)
(* another adapter than it found, and the manifest does not name that one. *)
LeavesUnrecorded ==
    /\ pc' = "idle" /\ result' # "ok"
    /\ cgi # play.prior /\ manifest'.commit \notin {cgi, Unknown}

Noted == UNCHANGED touched /\ unrecorded' = (unrecorded \/ LeavesUnrecorded)

(* What a transaction installs. Mutant: the rescue installs what failed.   *)
WantAlwaysNew == IF stage \in {"restore", "safety"} THEN play.prior ELSE play.to

Want == IF stage \in {"cutover", "rollback"} THEN play.to ELSE play.prior

(* The rescue section of a transaction in which a command failed: with a   *)
(* file replaced the spool is to stay paused, until the rescue of a        *)
(* cutover has put the previous files back. Mutant: it is not.             *)
BrokenForgetsPause ==
    /\ stage' = IF stage = "cutover" /\ facts.modified THEN "putBack" ELSE stage
    /\ pc' = IF stage = "cutover" /\ facts.modified THEN "unprotect" ELSE "finalize"
    /\ facts' = [facts EXCEPT !.cutoverFailed = @ \/ stage = "cutover",
                              !.restorationFailed = @ \/ stage \in {"restore", "rollback", "safety"}]

Broken ==
    /\ stage' = IF stage = "cutover" /\ facts.modified THEN "putBack" ELSE stage
    /\ pc' = IF stage = "cutover" /\ facts.modified THEN "unprotect" ELSE "finalize"
    /\ facts' = [facts EXCEPT !.cutoverFailed = @ \/ stage = "cutover",
                              !.restorationFailed = @ \/ stage \in {"restore", "rollback", "safety"},
                              !.leavePaused = @ \/ facts.modified]

(* A transaction that failed, its always section included: a rollback goes *)
(* on with the files it found, any other play is over.                     *)
Abandon ==
    IF stage = "rollback"
    THEN stage' = "safety" /\ pc' = "precheck" /\ UNCHANGED result
    ELSE EndPlay("failed") /\ UNCHANGED stage

-----------------------------------------------------------------------------
(* A deployment stages and compiles its files, and skips the cutover when  *)
(* they are installed and protected and SHM is content with them. A        *)
(* rollback installs the files of a backup, and takes the commit they will *)
(* be recorded under from its metadata.                                    *)
Begin(job, version, commit) ==
    /\ pc = "idle" /\ plays < MaxPlays
    /\ plays' = plays + 1
    /\ play' = [job |-> job, to |-> version, commit |-> commit, prior |-> cgi]
    /\ facts' = NoFacts
    /\ stage' = IF job = "deploy" THEN "cutover" ELSE "rollback"
    /\ UNCHANGED <<files, record, history>>

Deploy(version) ==
    /\ Begin("deploy", version, version)
    /\ SpoolExecWorks
    /\ result' = "none"
    /\ \/ pc' = "window" /\ AsksForWindow
       \/ /\ cgi = version /\ helpers = version /\ immutable
          /\ pc' = "manifest" /\ UNCHANGED windowVars

DeployRefused(version) ==
    /\ Begin("deploy", version, version)
    /\ SpoolExecFails /\ EndPlay("failed")
    /\ UNCHANGED windowVars

Rollback(backup) ==
    /\ cgi # NoFile
    /\ Begin("rollback", backup.version, backup.commit)
    /\ pc' = "precheck" /\ result' = "none"
    /\ UNCHANGED <<windowVars, failures>>

(* restore_adapter.yml, up to its gate. What it resets is not all there    *)
(* is: modified and immutableRestored stay as an earlier window left them. *)
PreCheck ==
    /\ pc = "precheck"
    /\ \/ /\ SpoolExecWorks
          /\ facts' = [facts EXCEPT !.restorationFailed = FALSE, !.leavePaused = FALSE]
          /\ pc' = "window" /\ AsksForWindow
          /\ UNCHANGED <<stage, result>>
       \/ SpoolExecFails /\ Abandon /\ UNCHANGED <<windowVars, facts>>
    /\ UNCHANGED <<files, record, play, plays>>
    /\ Noted

(* The gate. A spool that the operator had paused is refused.              *)
AtTheGate ==
    /\ pc = "window"
    /\ GatePauses \/ GateUndoes
    /\ UNCHANGED <<files, record, play, stage, pc, result, facts, counts, history>>

Admitted ==
    /\ pc = "window"
    /\ GateAcquires
    /\ IF byOperation'
       THEN /\ pc' = IF stage = "cutover" THEN "backup" ELSE "unprotect"
            /\ touched' = TRUE /\ UNCHANGED <<stage, facts>>
       ELSE Broken /\ UNCHANGED touched
    /\ UNCHANGED <<files, record, play, result, counts, unrecorded>>

Refused ==
    /\ pc = "window"
    /\ GateGivesUp
    /\ Fails /\ Broken
    /\ UNCHANGED <<files, record, play, result, plays, history>>

-----------------------------------------------------------------------------
(* A deployment backs up the adapter it found, if it found one. The commit *)
(* in the metadata is the one that deploy-state.json names. (The safety    *)
(* backup of a rollback has another layout, and cannot be rolled back to.) *)
(* Mutant: the commit is that of the deployment.                           *)
BacksUpTarget ==
    /\ pc = "backup"
    /\ \/ /\ backups' = backups \cup { [version |-> found, commit |-> play.commit] :
                                         found \in {cgi} \ {NoFile} }
          /\ pc' = "unprotect" /\ UNCHANGED <<stage, facts, failures>>
       \/ Fails /\ Broken /\ UNCHANGED backups
    /\ UNCHANGED <<windowVars, files, manifest, play, result, plays, history>>

BacksUp ==
    /\ pc = "backup"
    /\ \/ /\ backups' = backups \cup { [version |-> found, commit |-> manifest.commit] :
                                         found \in {cgi} \ {NoFile} }
          /\ pc' = "unprotect" /\ UNCHANGED <<stage, facts, failures>>
       \/ Fails /\ Broken /\ UNCHANGED backups
    /\ UNCHANGED <<windowVars, files, manifest, play, result, plays, history>>

(* The transaction. A command that fails may have done part of its work.   *)
(* chattr -i is verified, and the update marker of SHM cleared, before the *)
(* first file; the previous files can be put back if there were any.       *)
Unprotect ==
    /\ pc = "unprotect"
    /\ \/ /\ stage = "putBack" => play.prior # NoFile
          /\ immutable' = FALSE
          /\ facts' = [facts EXCEPT !.modified = TRUE]
          /\ pc' = "helpers"
          /\ UNCHANGED <<stage, failures>>
       \/ /\ IF stage = "putBack" /\ play.prior = NoFile
             THEN UNCHANGED failures ELSE Fails
          /\ immutable' \in {immutable, FALSE}
          /\ Broken
    /\ UNCHANGED <<windowVars, cgi, helpers, record, play, result, plays, history>>

InstallHelpers ==
    /\ pc = "helpers"
    /\ \/ helpers' = Want /\ pc' = "cgi" /\ UNCHANGED <<stage, facts, failures>>
       \/ /\ helpers' \in {helpers, Want} \cup (IF helpers = Want THEN {} ELSE {Mixed})
          /\ Fails /\ Broken
    /\ UNCHANGED <<windowVars, cgi, immutable, record, play, result, plays, history>>

(* The file that is moved in place is a new one, without the flag.         *)
InstallCgi ==
    /\ pc = "cgi"
    /\ \/ /\ cgi' = Want /\ immutable' = FALSE
          /\ pc' = "checks"
          /\ UNCHANGED <<stage, facts, failures>>
       \/ Fails /\ Broken /\ UNCHANGED <<cgi, immutable>>
    /\ UNCHANGED <<windowVars, helpers, record, play, result, plays, history>>

(* Checksums, perl -c, the enabled flag, the diagnostic: in the core.      *)
Check ==
    /\ pc = "checks"
    /\ \/ /\ pc' = "finalize"
          /\ facts' = [facts EXCEPT !.leavePaused = @ /\ stage # "putBack"]
          /\ UNCHANGED <<stage, failures>>
       \/ Fails /\ Broken
    /\ UNCHANGED <<windowVars, files, record, play, result, plays, history>>

-----------------------------------------------------------------------------
(* finalize_adapter_immutable.yml. chattr +i may fail, and lsattr may not  *)
(* confirm what it did. Mutants: a CGI that is not there gets the flag;    *)
(* chattr is believed.                                                     *)
FinalizeBlindly(sealed, confirmed) ==
    /\ immutable' = (immutable \/ sealed)
    /\ facts' = [facts EXCEPT !.immutableRestored = confirmed,
                              !.leavePaused = @ \/ (byOperation /\ ~confirmed)]

Finalize(sealed, confirmed) ==
    /\ immutable' = (cgi # NoFile /\ (immutable \/ sealed))
    /\ facts' = [facts EXCEPT !.immutableRestored = confirmed,
                              !.leavePaused = @ \/ (byOperation /\ ~confirmed)]

CloseWindow ==
    /\ window' = "releasing"
    /\ pc' = "release"
    /\ UNCHANGED <<spool, byOperation, cgi, helpers, record, play, stage, result,
                   plays, history>>

ProtectUnconfirmed ==
    /\ pc = "finalize"
    /\ CloseWindow
    /\ IF facts.modified \/ byOperation
       THEN \/ Finalize(TRUE, TRUE) /\ UNCHANGED failures
            \/ Fails /\ Finalize(FALSE, TRUE)
       ELSE UNCHANGED <<immutable, facts, failures>>

Protect ==
    /\ pc = "finalize"
    /\ CloseWindow
    /\ IF facts.modified \/ byOperation
       THEN \/ Finalize(TRUE, cgi # NoFile) /\ UNCHANGED failures
            \/ \E sealed \in BOOLEAN : Fails /\ Finalize(sealed, FALSE)
       ELSE UNCHANGED <<immutable, facts, failures>>

(* What follows a window that was closed in order.                         *)
Proceed ==
    \/ /\ stage = "cutover" /\ ~facts.cutoverFailed
       /\ pc' = "validate" /\ UNCHANGED result
    \/ /\ stage = "putBack" \/ (stage = "cutover" /\ facts.cutoverFailed)
       /\ EndPlay("failed")
    \/ /\ stage \notin {"cutover", "putBack"}
       /\ pc' = "diagnose" /\ UNCHANGED result

(* The spool is resumed if it may be; the play fails unless everything is  *)
(* as it should be.                                                        *)
MayUnpause ==
    byOperation /\ facts.immutableRestored /\ ~facts.leavePaused

InOrder ==
    /\ facts.modified \/ byOperation => facts.immutableRestored
    /\ byOperation => ~facts.leavePaused
    /\ ~facts.restorationFailed

Release ==
    /\ pc = "release"
    /\ window' = "closed"
    /\ \/ /\ MayUnpause /\ Paused
          /\ spool' = "running"
          /\ UNCHANGED failures
          /\ IF InOrder THEN Proceed /\ UNCHANGED stage ELSE Abandon
       \/ /\ MayUnpause                 \* docker unpause or its verification
          /\ IF Paused THEN Fails /\ spool' \in {spool, "running"}
             ELSE UNCHANGED <<spool, failures>>
          /\ Abandon
       \/ /\ ~MayUnpause
          /\ UNCHANGED <<spool, failures>>
          /\ IF InOrder THEN Proceed /\ UNCHANGED stage ELSE Abandon
    /\ UNCHANGED <<byOperation, files, record, play, facts, plays>>
    /\ Noted

-----------------------------------------------------------------------------
(* The validation of a deployment in the running spool. If it fails, what  *)
(* was found is restored, in a window of its own.                          *)
Validate ==
    /\ pc = "validate"
    /\ \/ SpoolExecWorks /\ pc' = "manifest" /\ UNCHANGED <<stage, result>>
       \/ /\ SpoolExecFails
          /\ IF play.prior = NoFile
             THEN EndPlay("failed") /\ UNCHANGED stage
             ELSE stage' = "restore" /\ pc' = "precheck" /\ UNCHANGED result
    /\ UNCHANGED <<windowVars, files, record, play, facts, plays>>
    /\ Noted

(* The end of restore_adapter.yml. Only a manual rollback is a success.    *)
Diagnose ==
    /\ pc = "diagnose"
    /\ \/ /\ SpoolExecWorks
          /\ UNCHANGED stage
          /\ IF stage = "rollback" THEN pc' = "manifest" /\ UNCHANGED result
             ELSE EndPlay("failed")
       \/ SpoolExecFails /\ Abandon
    /\ UNCHANGED <<windowVars, files, record, play, facts, plays>>
    /\ Noted

(* The checksum is read from the live CGI, the commit is the one the play  *)
(* was asked for, or the one its backup names.                             *)
LiveManifest == [commit |-> play.commit, sha256 |-> cgi]

(* A write that fails may have replaced the file: write_manifest.py syncs  *)
(* the directory after the rename, and the task removes its payload.       *)
WriteManifest ==
    /\ pc = "manifest"
    /\ \/ EndPlay("ok") /\ manifest' = LiveManifest /\ UNCHANGED failures
       \/ Fails /\ EndPlay("failed") /\ manifest' \in {manifest, LiveManifest}
    /\ UNCHANGED <<windowVars, files, backups, play, stage, facts, plays>>
    /\ Noted

(* The connection breaks or the control host dies, anywhere in a play.     *)
PlayDies ==
    /\ pc # "idle"
    /\ Fails /\ EndPlay("died")
    /\ window' = "closed"
    /\ UNCHANGED <<spool, byOperation, files, record, play, stage, facts, plays>>
    /\ Noted

-----------------------------------------------------------------------------
(* The operator pauses the spool and resumes his pauses. A spool that a    *)
(* play left paused he resumes as documented: the files verified, chattr   *)
(* +i first.                                                               *)
OperatorActs ==
    /\ OperatorPauses \/ (spool = "pausedByOperator" /\ OperatorResumes)
    /\ UNCHANGED <<files, record, play, stage, pc, result, facts, counts, history>>

OperatorRecovers ==
    /\ pc = "idle" /\ spool = "pausedByGate"
    /\ OperatorResumes
    /\ cgi' \in Installed /\ helpers' = cgi' /\ immutable' = (cgi' # NoFile)
    /\ result' = "none"
    /\ UNCHANGED <<record, play, stage, pc, facts, counts, touched>>
    /\ unrecorded' = (unrecorded \/ manifest.commit \notin {cgi', Unknown})

PlayStep ==
    \/ \E v \in Versions : Deploy(v) \/ DeployRefused(v)
    \/ \E backup \in backups : Rollback(backup)
    \/ PreCheck \/ AtTheGate \/ Admitted \/ Refused
    \/ BacksUp \/ Unprotect \/ InstallHelpers \/ InstallCgi \/ Check
    \/ Protect \/ Release
    \/ Validate \/ Diagnose \/ WriteManifest
    \/ PlayDies

Next == PlayStep \/ OperatorActs \/ OperatorRecovers

Spec == Init /\ [][Next]_vars

-----------------------------------------------------------------------------
(* docs/DEPLOYMENT.md: at no point may the spool run while the live CGI    *)
(* lacks chattr +i, once a play has opened a window: however installing,   *)
(* rescuing, restoring and sealing fail, and whoever pauses and resumes.   *)
NeverRunsUnprotected ==
    touched /\ spool = "running" /\ cgi # NoFile => immutable

(* The spool never runs a CGI with the helper modules of another version,  *)
(* or with a mixture of them: a transaction that broke off leaves it       *)
(* paused until the previous files are back.                               *)
RunsWholeAdapter == spool = "running" => helpers = cgi

(* A manifest is written with the checksum of the CGI that is live, whole  *)
(* and sealed, and names its commit, never one that a rescue or a          *)
(* restoration has taken back. Only a rollback may name another one, when  *)
(* its backup says unknown-pre-manifest, or copied its commit from a       *)
(* manifest that some play or operator had left behind the files.          *)
ManifestIsHonest ==
    [][manifest' # manifest =>
            /\ manifest'.sha256 = cgi /\ helpers = cgi /\ immutable
            /\ \/ manifest'.commit = cgi
               \/ play.job = "rollback" /\ (manifest'.commit = Unknown \/ unrecorded)]_vars

(* A deployment whose cutover failed ends with the adapter it found, or    *)
(* with the spool paused.                                                  *)
FailedCutoverTakenBack ==
    pc = "idle" /\ result = "failed" /\ facts.cutoverFailed /\ ~Paused
        => cgi = play.prior

(* docs/DEPLOYMENT.md: "If manual rollback fails, the safety backup is     *)
(* restored before the play fails", here for one command that failed, with *)
(* files replaced in a spool that only the gate has paused.                *)
FailedRollbackRestoresSafety ==
    /\ result = "failed" /\ stage = "safety" /\ facts.modified
    /\ failures <= 1 /\ spool = "pausedByGate"
    => cgi = play.prior /\ helpers = play.prior
=============================================================================
