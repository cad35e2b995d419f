------------------------- MODULE AdapterDeploy_proofs -------------------------
(***************************************************************************)
(* Theorems about AdapterDeploy, for any versions of the adapter and any   *)
(* number of plays and failures.                                           *)
(***************************************************************************)
EXTENDS AdapterDeploy, TLAPS

(* An adapter the spool may run.                                           *)
Whole == helpers = cgi
Sealed == touched /\ cgi # NoFile => immutable

(* The spool runs, or may be resumed by anybody, only in front of such an  *)
(* adapter; and a window is asked for from there.                          *)
SafeInv == spool # "pausedByGate" \/ window = "acquiring" => Whole /\ Sealed

(* Files are replaced in a spool that the gate has paused.                 *)
WindowInv ==
    /\ window = "acquiring" <=> pc = "window"
    /\ pc \in {"backup", "unprotect", "helpers", "cgi", "checks"} =>
         window = "open" /\ spool = "pausedByGate" /\ byOperation

(* How far a transaction has come.                                         *)
FilesInv ==
    /\ pc = "backup" => Whole /\ stage = "cutover"
    /\ pc = "unprotect" => Whole \/ (stage = "putBack" /\ facts.leavePaused)
    /\ pc \in {"helpers", "cgi", "checks"} => facts.modified
    /\ pc \in {"cgi", "checks"} => helpers = Want
    /\ pc = "checks" => cgi = Want
    /\ pc = "unprotect" /\ stage = "putBack" => facts.modified
    /\ pc \in {"unprotect", "helpers", "cgi", "checks"} /\ stage = "putBack"
          => facts.leavePaused

(* What the always section may rely on: with leavePaused unset the files   *)
(* are those of one version, and immutableRestored was verified.           *)
AlwaysInv ==
    /\ pc \in {"finalize", "release"} /\ ~facts.leavePaused => Whole
    /\ pc = "release" /\ (facts.modified \/ byOperation) /\ facts.immutableRestored
          => immutable

(* What a play may claim in the manifest is live.                          *)
ClaimInv ==
    /\ pc \in {"finalize", "release"} /\ stage = "cutover" /\ ~facts.cutoverFailed
          => facts.modified /\ Whole /\ cgi = play.to
    /\ pc \in {"finalize", "release"} /\ stage = "rollback" /\ ~facts.restorationFailed
          => facts.modified /\ Whole /\ cgi = play.to
    /\ pc \in {"validate", "manifest"} \/ (pc = "diagnose" /\ stage = "rollback")
          => Whole /\ immutable /\ cgi = play.to

(* The rescue of a cutover puts the previous CGI back before the spool may *)
(* run again.                                                              *)
PriorInv ==
    /\ stage = "cutover" /\ pc \in {"window", "backup", "unprotect", "helpers", "cgi"}
          => cgi = play.prior /\ ~facts.cutoverFailed
    /\ stage = "cutover" /\ pc \in {"window", "backup", "unprotect"} => ~facts.modified
    /\ stage = "cutover" /\ pc = "checks" => ~facts.cutoverFailed
    /\ pc = "precheck" => stage # "cutover"
    /\ pc \in {"precheck", "window"} => stage # "putBack"
    /\ facts.cutoverFailed =>
         /\ stage \in {"cutover", "putBack"}
         /\ pc \in {"unprotect", "helpers", "cgi", "checks", "finalize", "release", "idle"}
         /\ \/ cgi = play.prior
            \/ spool = "pausedByGate" /\ (pc \in {"finalize", "release"} => facts.leavePaused)
            \/ pc = "idle" /\ result = "none"

(* The commits that the manifest, the play and the backups give for a      *)
(* version. They are right, or unknown, as long as nobody has left another *)
(* adapter under a manifest that does not name it.                         *)
NamesInv ==
    /\ pc # "idle" /\ play.job = "deploy" => play.commit = play.to
    /\ ~unrecorded =>
         /\ pc = "idle" => manifest.commit \in {cgi, Unknown}
         /\ pc # "idle" => /\ manifest.commit \in {play.prior, Unknown}
                           /\ play.commit \in {play.to, Unknown}
         /\ \A backup \in backups : backup.commit \in {backup.version, Unknown}

Inv == TypeOK /\ SafeInv /\ WindowInv /\ FilesInv /\ AlwaysInv /\ ClaimInv /\ PriorInv

Facts == [modified : BOOLEAN, immutableRestored : BOOLEAN, leavePaused : BOOLEAN,
          cutoverFailed : BOOLEAN, restorationFailed : BOOLEAN]

PlayRecords == [job : {"deploy", "rollback"}, to : Installed, commit : Commits,
                prior : Installed]

-----------------------------------------------------------------------------
(* What the rescue section and the finalization do to the facts, field by  *)
(* field.                                                                  *)

LEMMA BrokenDoes ==
    ASSUME TypeOK, Broken
    PROVE  /\ facts' \in Facts
           /\ facts'.modified = facts.modified
           /\ facts'.leavePaused = (facts.leavePaused \/ facts.modified)
           /\ facts'.cutoverFailed = (facts.cutoverFailed \/ stage = "cutover")
           /\ facts'.restorationFailed =
                (facts.restorationFailed \/ stage \in {"restore", "rollback", "safety"})
           /\ \/ stage = "cutover" /\ facts.modified
                    /\ stage' = "putBack" /\ pc' = "unprotect"
              \/ ~(stage = "cutover" /\ facts.modified)
                    /\ stage' = stage /\ pc' = "finalize"
<1>1. facts \in Facts
    BY DEF TypeOK, PlayTypeOK, Facts
<1> QED BY <1>1 DEF Broken, Facts

LEMMA FinalizeDoes ==
    ASSUME TypeOK, NEW sealed \in BOOLEAN, NEW confirmed \in BOOLEAN,
           Finalize(sealed, confirmed)
    PROVE  /\ facts' \in Facts
           /\ facts'.modified = facts.modified
           /\ facts'.immutableRestored = confirmed
           /\ facts'.leavePaused = (facts.leavePaused \/ (byOperation /\ ~confirmed))
           /\ facts'.cutoverFailed = facts.cutoverFailed
           /\ facts'.restorationFailed = facts.restorationFailed
           /\ immutable' = (cgi # NoFile /\ (immutable \/ sealed))
<1>1. facts \in Facts
    BY DEF TypeOK, PlayTypeOK, Facts
<1>2. byOperation \in BOOLEAN
    BY DEF TypeOK, WindowTypeOK
<1> QED BY <1>1, <1>2 DEF Finalize, Facts

LEMMA WantType == TypeOK => Want \in Installed
BY DEF TypeOK, PlayTypeOK, Want

LEMMA FailsType == TypeOK /\ Fails => failures' \in 0..MaxFailures
BY AdapterAssumption DEF TypeOK, PlayTypeOK, Fails

LEMMA SpoolExecType ==
    TypeOK /\ (SpoolExecFails \/ SpoolExecWorks) => failures' \in 0..MaxFailures
BY FailsType DEF SpoolExecFails, SpoolExecWorks, TypeOK, PlayTypeOK

-----------------------------------------------------------------------------
(* Types.                                                                  *)

LEMMA TypeInit == Init => TypeOK
<1> SUFFICES ASSUME Init PROVE TypeOK
    OBVIOUS
<1>1. play \in PlayRecords
    BY DEF Init, Installed, Commits, PlayRecords
<1>2. facts \in Facts
    BY DEF Init, NoFacts, Facts
<1>3. FilesTypeOK
    <2>1. manifest \in [commit : Commits, sha256 : Installed]
        BY DEF Init, Installed, Commits
    <2> QED BY <2>1 DEF Init, FilesTypeOK
<1>4. plays \in 0..MaxPlays /\ failures \in 0..MaxFailures
    BY AdapterAssumption DEF Init
<1>5. touched \in BOOLEAN /\ unrecorded \in BOOLEAN
    BY Zenon DEF Init
<1> QED
    BY <1>1, <1>2, <1>3, <1>4, <1>5
    DEF Init, TypeOK, WindowTypeOK, PlayTypeOK, Facts, PlayRecords

LEMMA WindowTypeStep == TypeOK /\ [Next]_vars => WindowTypeOK'
<1> SUFFICES ASSUME TypeOK, [Next]_vars PROVE WindowTypeOK'
    OBVIOUS
<1> USE DEF TypeOK, WindowTypeOK
<1>1. CASE UNCHANGED windowVars
    BY <1>1 DEF windowVars
<1>2. ASSUME NEW v \in Versions, Deploy(v) PROVE WindowTypeOK'
    BY <1>2 DEF Deploy, AsksForWindow, windowVars
<1>3. CASE PreCheck
    BY <1>3 DEF PreCheck, AsksForWindow, windowVars
<1>4. CASE AtTheGate \/ Admitted \/ Refused
    BY <1>4 DEF AtTheGate, Admitted, Refused, GatePauses, GateUndoes, GateAcquires, GateGivesUp
<1>5. CASE Protect \/ Release \/ PlayDies
    BY <1>5 DEF Protect, CloseWindow, Release, PlayDies
<1>6. CASE OperatorActs \/ OperatorRecovers
    BY <1>6 DEF OperatorActs, OperatorRecovers, OperatorPauses, OperatorResumes
<1> QED
    BY <1>1, <1>2, <1>3, <1>4, <1>5, <1>6
    DEF Next, PlayStep, DeployRefused, Rollback, BacksUp, Unprotect, InstallHelpers,
        InstallCgi, Check, Validate, Diagnose, WriteManifest, vars

LEMMA FilesTypeStep == TypeOK /\ [Next]_vars => FilesTypeOK'
<1> SUFFICES ASSUME TypeOK, [Next]_vars PROVE FilesTypeOK'
    OBVIOUS
<1> USE DEF TypeOK, FilesTypeOK, record
<1>1. CASE UNCHANGED <<files, record>>
    BY <1>1 DEF files
<1>2. CASE Unprotect
    <2>1. UNCHANGED <<cgi, helpers, record>>
        BY <1>2 DEF Unprotect
    <2>2. immutable' \in {immutable, FALSE}
        <3>1. \/ immutable' = FALSE
              \/ immutable' \in {immutable, FALSE}
            BY <1>2, Zenon DEF Unprotect
        <3> QED BY <3>1, Zenon
    <2>3. immutable' \in BOOLEAN
        BY <2>2, Zenon
    <2>4. immutable' => immutable
        BY <2>2, Zenon
    <2> QED BY <2>1, <2>3, <2>4
<1>3. CASE InstallHelpers
    BY <1>3, WantType DEF InstallHelpers
<1>4. CASE InstallCgi
    <2>1. cgi' \in Installed /\ UNCHANGED <<helpers, record>>
        BY <1>4, WantType DEF InstallCgi
    <2>2. (cgi' = cgi /\ immutable' = immutable) \/ immutable' = FALSE
        <3>1. UNCHANGED <<cgi, immutable>> \/ immutable' = FALSE
            BY <1>4, Zenon DEF InstallCgi
        <3> QED BY <3>1, Zenon
    <2>3. immutable' \in BOOLEAN
        BY <2>2, Zenon
    <2>4. immutable' => cgi' # NoFile
        BY <2>2, Zenon
    <2> QED BY <2>1, <2>3, <2>4
<1>5. CASE Protect
    <2>1. UNCHANGED <<cgi, helpers, record>>
        BY <1>5 DEF Protect, CloseWindow
    <2>2. immutable' = immutable \/ immutable' = (cgi # NoFile /\ (immutable \/ TRUE))
             \/ immutable' = (cgi # NoFile /\ (immutable \/ FALSE))
        BY <1>5 DEF Protect, Finalize
    <2>3. immutable' \in BOOLEAN
        BY <2>2, Zenon
    <2>4. immutable' => cgi # NoFile
        BY <2>2
    <2> QED BY <2>1, <2>3, <2>4
<1>6. CASE WriteManifest
    <2>1. LiveManifest \in [commit : Commits, sha256 : Installed]
        BY DEF LiveManifest, PlayTypeOK
    <2> QED BY <1>6, <2>1 DEF WriteManifest, files
<1>7. CASE OperatorRecovers
    BY <1>7 DEF OperatorRecovers
<1>8. CASE BacksUp
    <2>1. UNCHANGED <<files, manifest>>
        BY <1>8 DEF BacksUp
    <2>2. \/ UNCHANGED backups
          \/ backups' = backups \cup { [version |-> found, commit |-> manifest.commit] :
                                       found \in {cgi} \ {NoFile} }
        BY <1>8, Zenon DEF BacksUp
    <2>3. backups' \subseteq [version : Versions, commit : Commits]
        BY <2>2 DEF Installed
    <2> QED BY <2>1, <2>3 DEF files
<1> QED
    BY <1>1, <1>2, <1>3, <1>4, <1>5, <1>6, <1>7, <1>8
    DEF Next, PlayStep, Deploy, DeployRefused, Rollback, Begin, PreCheck, AtTheGate, Admitted,
        Refused, Check, Release, Validate, Diagnose, PlayDies, OperatorActs, files, vars

LEMMA HistoryType == TypeOK /\ [Next]_vars => unrecorded' \in BOOLEAN
<1> SUFFICES ASSUME TypeOK, [Next]_vars PROVE unrecorded' \in BOOLEAN
    OBVIOUS
<1>1. unrecorded \in BOOLEAN
    BY DEF TypeOK, PlayTypeOK
<1>2. CASE UNCHANGED unrecorded
    BY <1>1, <1>2, Zenon
<1>3. CASE PreCheck \/ Release \/ Validate \/ Diagnose \/ WriteManifest \/ PlayDies
    <2>1. unrecorded' = (unrecorded \/ LeavesUnrecorded)
        BY <1>3, Zenon DEF PreCheck, Release, Validate, Diagnose, WriteManifest, PlayDies, Noted
    <2> QED BY <2>1, Zenon
<1>4. CASE OperatorRecovers
    <2>1. unrecorded' = (unrecorded \/ manifest.commit \notin {cgi', Unknown})
        BY <1>4, Zenon DEF OperatorRecovers
    <2> QED BY <2>1, Zenon
<1> QED
    BY <1>2, <1>3, <1>4
    DEF Next, PlayStep, Deploy, DeployRefused, Rollback, Begin, AtTheGate, Admitted, Refused,
        BacksUp, Unprotect, InstallHelpers, InstallCgi, Check, Protect, CloseWindow,
        OperatorActs, vars, history

LEMMA PlayTypeStep == TypeOK /\ [Next]_vars => PlayTypeOK'
<1> SUFFICES ASSUME TypeOK, [Next]_vars PROVE PlayTypeOK'
    OBVIOUS
<1> USE DEF PlayTypeOK, PlayRecords, Facts, counts, history
<1>0. /\ play \in PlayRecords
      /\ facts \in Facts
      /\ PlayTypeOK
      /\ unrecorded' \in BOOLEAN
    BY HistoryType DEF TypeOK
<1>1. CASE UNCHANGED <<play, stage, pc, result, facts, counts, touched>>
    BY <1>0, <1>1
<1>2. ASSUME NEW job \in {"deploy", "rollback"}, NEW v \in Versions, NEW commit \in Commits,
             Begin(job, v, commit),
             pc' \in {"idle", "precheck", "window", "manifest"},
             result' \in {"none", "failed"}, failures' \in 0..MaxFailures
      PROVE  PlayTypeOK'
    <2>1. play' \in PlayRecords
        BY <1>2 DEF Begin, Installed, TypeOK, FilesTypeOK
    <2>2. facts' \in Facts
        BY <1>2 DEF Begin, NoFacts
    <2>3. plays' \in 0..MaxPlays
        BY <1>2, AdapterAssumption DEF Begin, TypeOK
    <2> QED BY <1>0, <1>2, <2>1, <2>2, <2>3 DEF Begin
<1>3. ASSUME NEW v \in Versions, Deploy(v) \/ DeployRefused(v)
      PROVE  PlayTypeOK'
    BY <1>0, <1>2, <1>3, SpoolExecType DEF Deploy, DeployRefused, EndPlay, Commits
<1>4. CASE PreCheck
    <2>1. facts' \in Facts
        BY <1>0, <1>4 DEF PreCheck
    <2> QED BY <1>0, <1>4, <2>1, SpoolExecType DEF PreCheck, Abandon, EndPlay, Noted
<1>5. CASE AtTheGate
    BY <1>0, <1>5 DEF AtTheGate
<1>6. CASE Admitted
    BY <1>0, <1>6, BrokenDoes DEF Admitted
<1>7. CASE Refused
    BY <1>0, <1>7, BrokenDoes, FailsType DEF Refused
<1>8. CASE Unprotect
    <2>1. facts' \in Facts
        BY <1>0, <1>8, BrokenDoes DEF Unprotect
    <2> QED BY <1>0, <1>8, <2>1, BrokenDoes, FailsType DEF Unprotect
<1>9. CASE InstallHelpers
    BY <1>0, <1>9, BrokenDoes, FailsType DEF InstallHelpers
<1>10. CASE InstallCgi
    BY <1>0, <1>10, BrokenDoes, FailsType DEF InstallCgi
<1>11. CASE Check
    <2>1. facts' \in Facts
        BY <1>0, <1>11, BrokenDoes DEF Check
    <2> QED BY <1>0, <1>11, <2>1, BrokenDoes, FailsType DEF Check
<1>12. CASE Protect
    <2>1. facts' \in Facts
        BY <1>0, <1>12, FinalizeDoes DEF Protect
    <2>2. failures' \in 0..MaxFailures
        BY <1>0, <1>12, FailsType DEF Protect
    <2> QED BY <1>0, <1>12, <2>1, <2>2 DEF Protect, CloseWindow
<1>13. CASE Release
    <2>1. failures' \in 0..MaxFailures
        BY <1>0, <1>13, FailsType DEF Release
    <2> QED BY <1>0, <1>13, <2>1 DEF Release, Proceed, Abandon, EndPlay, Noted
<1>14. CASE Validate
    BY <1>0, <1>14, SpoolExecType DEF Validate, EndPlay, Noted
<1>15. CASE Diagnose
    BY <1>0, <1>15, SpoolExecType DEF Diagnose, Abandon, EndPlay, Noted
<1>16. CASE WriteManifest
    BY <1>0, <1>16, FailsType DEF WriteManifest, EndPlay, Noted
<1>17. CASE PlayDies
    BY <1>0, <1>17, FailsType DEF PlayDies, EndPlay, Noted
<1>18. CASE OperatorActs
    BY <1>0, <1>18 DEF OperatorActs
<1>19. CASE OperatorRecovers
    BY <1>0, <1>19 DEF OperatorRecovers
<1>20. CASE BacksUp
    BY <1>0, <1>20, BrokenDoes, FailsType DEF BacksUp
<1>21. ASSUME NEW backup \in backups, Rollback(backup)
       PROVE  PlayTypeOK'
    <2>1. backup.version \in Versions /\ backup.commit \in Commits
        BY DEF TypeOK, FilesTypeOK
    <2> QED BY <1>0, <1>2, <1>21, <2>1 DEF Rollback
<1> QED
    BY <1>1, <1>3, <1>4, <1>5, <1>6, <1>7, <1>8, <1>9, <1>10, <1>11, <1>12, <1>13, <1>14,
       <1>15, <1>16, <1>17, <1>18, <1>19, <1>20, <1>21 DEF Next, PlayStep, vars

LEMMA TypeStep == TypeOK /\ [Next]_vars => TypeOK'
BY WindowTypeStep, FilesTypeStep, PlayTypeStep DEF TypeOK

-----------------------------------------------------------------------------
(* The invariants, one action at a time.                                   *)

LEMMA InvInit == Init => Inv
BY TypeInit DEF Init, NoFacts, Inv, SafeInv, Whole, Sealed, WindowInv, FilesInv, AlwaysInv,
   ClaimInv, PriorInv

LEMMA DeployStep ==
    ASSUME Inv, NEW v \in Versions, Deploy(v)
    PROVE  Inv'
<1>1. TypeOK'
    BY TypeStep DEF Inv, Next, PlayStep
<1>2. SafeInv'
    BY DEF Inv, SafeInv, Whole, Sealed, history, Paused, files, Deploy, Begin, SpoolExecWorks
<1>3. WindowInv'
    BY DEF Inv, WindowInv, windowVars, Deploy, Begin, AsksForWindow
<1>4. FilesInv'
    BY DEF FilesInv, Deploy
<1>5. AlwaysInv'
    BY DEF AlwaysInv, Deploy
<1>6. ClaimInv'
    BY DEF Whole, ClaimInv, files, Deploy, Begin
<1>7. PriorInv'
    BY DEF PriorInv, files, Deploy, Begin, NoFacts
<1> QED BY <1>1, <1>2, <1>3, <1>4, <1>5, <1>6, <1>7 DEF Inv

LEMMA DeployRefusedStep ==
    ASSUME Inv, NEW v \in Versions, DeployRefused(v)
    PROVE  Inv'
<1>1. TypeOK'
    BY TypeStep DEF Inv, Next, PlayStep
<1>2. SafeInv'
    BY DEF Inv, SafeInv, Whole, Sealed, history, windowVars, files, DeployRefused, Begin
<1>3. WindowInv'
    BY DEF Inv, WindowInv, windowVars, DeployRefused, Begin, EndPlay
<1>4. FilesInv'
    BY DEF FilesInv, DeployRefused, EndPlay
<1>5. AlwaysInv'
    BY DEF AlwaysInv, DeployRefused, EndPlay
<1>6. ClaimInv'
    BY DEF ClaimInv, DeployRefused, EndPlay
<1>7. PriorInv'
    BY DEF PriorInv, files, DeployRefused, Begin, EndPlay
<1> QED BY <1>1, <1>2, <1>3, <1>4, <1>5, <1>6, <1>7 DEF Inv

LEMMA RollbackStep ==
    ASSUME Inv, NEW backup \in backups, Rollback(backup)
    PROVE  Inv'
<1>1. TypeOK'
    BY TypeStep DEF Inv, Next, PlayStep
<1>2. SafeInv'
    BY DEF Inv, SafeInv, Whole, Sealed, history, windowVars, files, Rollback, Begin
<1>3. WindowInv'
    BY DEF Inv, WindowInv, windowVars, Rollback, Begin
<1>4. FilesInv'
    BY DEF FilesInv, Rollback
<1>5. AlwaysInv'
    BY DEF AlwaysInv, Rollback
<1>6. ClaimInv'
    BY DEF ClaimInv, Rollback
<1>7. PriorInv'
    BY DEF PriorInv, Rollback, Begin, NoFacts
<1> QED BY <1>1, <1>2, <1>3, <1>4, <1>5, <1>6, <1>7 DEF Inv

LEMMA PreCheckStep ==
    ASSUME Inv, PreCheck
    PROVE  Inv'
<1>1. TypeOK'
    BY TypeStep DEF Inv, Next, PlayStep
<1>2. SafeInv'
    BY DEF Inv, SafeInv, Whole, Sealed, Noted, Paused, windowVars, files, PreCheck, SpoolExecWorks
<1>3. WindowInv'
    BY DEF Inv, WindowInv, windowVars, PreCheck, AsksForWindow, Abandon, EndPlay
<1>4. FilesInv'
    BY DEF FilesInv, PreCheck, Abandon, EndPlay
<1>5. AlwaysInv'
    BY DEF AlwaysInv, PreCheck, Abandon, EndPlay
<1>6. ClaimInv'
    BY DEF ClaimInv, PreCheck, Abandon, EndPlay
<1>7. PriorInv'
    <2>1. facts'.cutoverFailed = facts.cutoverFailed
        BY DEF Inv, PreCheck, TypeOK, PlayTypeOK
    <2>2. ~facts.cutoverFailed /\ stage \notin {"cutover", "putBack"}
        BY DEF Inv, PriorInv, PreCheck
    <2>3. stage' \notin {"cutover", "putBack"}
        BY <2>2 DEF PreCheck, Abandon
    <2> QED BY <2>1, <2>2, <2>3 DEF PriorInv
<1> QED BY <1>1, <1>2, <1>3, <1>4, <1>5, <1>6, <1>7 DEF Inv

LEMMA AtTheGateStep ==
    ASSUME Inv, AtTheGate
    PROVE  Inv'
<1>1. TypeOK'
    BY TypeStep DEF Inv, Next, PlayStep
<1>2. SafeInv'
    BY DEF Inv, SafeInv, Whole, Sealed, history, WindowInv, files, AtTheGate
<1>3. WindowInv'
    BY DEF WindowInv, AtTheGate, GatePauses, GateUndoes
<1>4. FilesInv'
    BY DEF FilesInv, AtTheGate
<1>5. AlwaysInv'
    BY DEF AlwaysInv, AtTheGate
<1>6. ClaimInv'
    BY DEF ClaimInv, AtTheGate
<1>7. PriorInv'
    BY DEF Inv, PriorInv, files, AtTheGate
<1> QED BY <1>1, <1>2, <1>3, <1>4, <1>5, <1>6, <1>7 DEF Inv

LEMMA AdmittedStep ==
    ASSUME Inv, Admitted
    PROVE  Inv'
<1>1. TypeOK'
    BY TypeStep DEF Inv, Next, PlayStep
<1>2. SafeInv'
    BY BrokenDoes DEF Inv, SafeInv, Whole, Sealed, files, Admitted, GateAcquires
<1>3. WindowInv'
    BY BrokenDoes DEF Inv, WindowInv, PriorInv, Admitted, GateAcquires
<1>4. FilesInv'
    BY BrokenDoes DEF Inv, SafeInv, Whole, WindowInv, FilesInv, PriorInv, files, Admitted
<1>5. AlwaysInv'
    BY BrokenDoes DEF Inv, SafeInv, Whole, WindowInv, AlwaysInv, files, Admitted
<1>6. ClaimInv'
    BY BrokenDoes DEF Inv, ClaimInv, Admitted
<1>7. PriorInv'
    BY BrokenDoes DEF Inv, PriorInv, files, Admitted
<1> QED BY <1>1, <1>2, <1>3, <1>4, <1>5, <1>6, <1>7 DEF Inv

LEMMA RefusedStep ==
    ASSUME Inv, Refused
    PROVE  Inv'
<1>1. TypeOK'
    BY TypeStep DEF Inv, Next, PlayStep
<1>2. SafeInv'
    BY BrokenDoes DEF Inv, SafeInv, Whole, Sealed, history, WindowInv, files, Refused
<1>3. WindowInv'
    BY BrokenDoes DEF Inv, WindowInv, PriorInv, Refused, GateGivesUp
<1>4. FilesInv'
    BY BrokenDoes DEF Inv, FilesInv, Refused
<1>5. AlwaysInv'
    BY BrokenDoes DEF Inv, SafeInv, Whole, WindowInv, AlwaysInv, files, Refused
<1>6. ClaimInv'
    BY BrokenDoes DEF Inv, ClaimInv, Refused
<1>7. PriorInv'
    BY BrokenDoes DEF Inv, PriorInv, files, Refused
<1> QED BY <1>1, <1>2, <1>3, <1>4, <1>5, <1>6, <1>7 DEF Inv

LEMMA BacksUpStep ==
    ASSUME Inv, BacksUp
    PROVE  Inv'
<1>1. TypeOK'
    BY TypeStep DEF Inv, Next, PlayStep
<1>2. SafeInv'
    BY BrokenDoes DEF Inv, SafeInv, WindowInv, windowVars, BacksUp
<1>3. WindowInv'
    BY BrokenDoes DEF Inv, WindowInv, windowVars, BacksUp
<1>4. FilesInv'
    BY BrokenDoes DEF Inv, Whole, FilesInv, PriorInv, files, BacksUp
<1>5. AlwaysInv'
    BY BrokenDoes DEF Inv, Whole, FilesInv, AlwaysInv, files, BacksUp
<1>6. ClaimInv'
    BY BrokenDoes DEF Inv, FilesInv, ClaimInv, BacksUp
<1>7. PriorInv'
    BY BrokenDoes DEF Inv, FilesInv, PriorInv, files, BacksUp
<1> QED BY <1>1, <1>2, <1>3, <1>4, <1>5, <1>6, <1>7 DEF Inv

LEMMA UnprotectStep ==
    ASSUME Inv, Unprotect
    PROVE  Inv'
<1>1. TypeOK'
    BY TypeStep DEF Inv, Next, PlayStep
<1>2. SafeInv'
    BY BrokenDoes DEF Inv, SafeInv, WindowInv, windowVars, Unprotect
<1>3. WindowInv'
    BY BrokenDoes DEF Inv, WindowInv, windowVars, Unprotect
<1>4. FilesInv'
    BY BrokenDoes DEF Inv, FilesInv, Unprotect, TypeOK, PlayTypeOK
<1>5. AlwaysInv'
    BY BrokenDoes DEF Inv, Whole, FilesInv, AlwaysInv, Unprotect
<1>6. ClaimInv'
    BY BrokenDoes DEF Inv, ClaimInv, Unprotect
<1>7. PriorInv'
    BY BrokenDoes DEF Inv, FilesInv, PriorInv, windowVars, Unprotect, TypeOK, PlayTypeOK
<1> QED BY <1>1, <1>2, <1>3, <1>4, <1>5, <1>6, <1>7 DEF Inv

LEMMA InstallHelpersStep ==
    ASSUME Inv, InstallHelpers
    PROVE  Inv'
<1>1. TypeOK'
    BY TypeStep DEF Inv, Next, PlayStep
<1>2. SafeInv'
    BY BrokenDoes DEF Inv, SafeInv, WindowInv, windowVars, InstallHelpers
<1>3. WindowInv'
    BY BrokenDoes DEF Inv, WindowInv, windowVars, InstallHelpers
<1>4. FilesInv'
    BY BrokenDoes DEF Inv, FilesInv, Want, InstallHelpers
<1>5. AlwaysInv'
    BY BrokenDoes DEF Inv, FilesInv, AlwaysInv, InstallHelpers
<1>6. ClaimInv'
    BY BrokenDoes DEF Inv, ClaimInv, InstallHelpers
<1>7. PriorInv'
    BY BrokenDoes DEF Inv, FilesInv, PriorInv, windowVars, InstallHelpers
<1> QED BY <1>1, <1>2, <1>3, <1>4, <1>5, <1>6, <1>7 DEF Inv

LEMMA InstallCgiStep ==
    ASSUME Inv, InstallCgi
    PROVE  Inv'
<1>1. TypeOK'
    BY TypeStep DEF Inv, Next, PlayStep
<1>2. SafeInv'
    BY BrokenDoes DEF Inv, SafeInv, WindowInv, windowVars, InstallCgi
<1>3. WindowInv'
    BY BrokenDoes DEF Inv, WindowInv, windowVars, InstallCgi
<1>4. FilesInv'
    BY BrokenDoes DEF Inv, FilesInv, Want, InstallCgi
<1>5. AlwaysInv'
    BY BrokenDoes DEF Inv, FilesInv, AlwaysInv, InstallCgi
<1>6. ClaimInv'
    BY BrokenDoes DEF Inv, ClaimInv, InstallCgi
<1>7. PriorInv'
    BY BrokenDoes DEF Inv, SafeInv, Whole, FilesInv, PriorInv, windowVars, InstallCgi
<1> QED BY <1>1, <1>2, <1>3, <1>4, <1>5, <1>6, <1>7 DEF Inv

LEMMA CheckStep ==
    ASSUME Inv, Check
    PROVE  Inv'
<1>1. TypeOK'
    BY TypeStep DEF Inv, Next, PlayStep
<1>2. SafeInv'
    BY BrokenDoes DEF Inv, SafeInv, WindowInv, windowVars, Check
<1>3. WindowInv'
    BY BrokenDoes DEF Inv, WindowInv, windowVars, Check
<1>4. FilesInv'
    BY BrokenDoes DEF Inv, FilesInv, Check
<1>5. AlwaysInv'
    BY BrokenDoes DEF Inv, Whole, FilesInv, AlwaysInv, files, Check
<1>6. ClaimInv'
    BY BrokenDoes DEF Inv, Whole, FilesInv, Want, ClaimInv, files, Check, TypeOK, PlayTypeOK
<1>7. PriorInv'
    BY BrokenDoes DEF Inv, WindowInv, FilesInv, Want, PriorInv, windowVars, files,
                       Check, TypeOK, PlayTypeOK
<1> QED BY <1>1, <1>2, <1>3, <1>4, <1>5, <1>6, <1>7 DEF Inv

LEMMA ProtectStep ==
    ASSUME Inv, Protect
    PROVE  Inv'
<1>1. TypeOK'
    BY TypeStep DEF Inv, Next, PlayStep
<1>2. SafeInv'
    BY FinalizeDoes DEF Inv, SafeInv, Whole, Sealed, history, Protect, CloseWindow
<1>3. WindowInv'
    BY DEF WindowInv, Protect, CloseWindow
<1>4. FilesInv'
    BY DEF FilesInv, Protect, CloseWindow
<1>5. AlwaysInv'
    BY FinalizeDoes DEF Inv, Whole, AlwaysInv, Protect, CloseWindow
<1>6. ClaimInv'
    BY FinalizeDoes DEF Inv, Whole, ClaimInv, Protect, CloseWindow
<1>7. PriorInv'
    BY FinalizeDoes DEF Inv, PriorInv, Protect, CloseWindow
<1> QED BY <1>1, <1>2, <1>3, <1>4, <1>5, <1>6, <1>7 DEF Inv

LEMMA ReleaseStep ==
    ASSUME Inv, Release
    PROVE  Inv'
<1>1. TypeOK'
    BY TypeStep DEF Inv, Next, PlayStep
<1>2. SafeInv'
    BY DEF Inv, SafeInv, Whole, Sealed, Noted, AlwaysInv, files, Release, MayUnpause
<1>3. WindowInv'
    BY DEF WindowInv, Release, Proceed, Abandon, EndPlay
<1>4. FilesInv'
    BY DEF FilesInv, Release, Proceed, Abandon, EndPlay
<1>5. AlwaysInv'
    BY DEF Inv, Whole, AlwaysInv, files, Release
<1>6. ClaimInv'
    BY DEF Inv, Whole, AlwaysInv, ClaimInv, files, Release, InOrder, Proceed, Abandon, EndPlay
<1>7. PriorInv'
    BY DEF Inv, PriorInv, files, Release, MayUnpause, Proceed, Abandon, EndPlay
<1> QED BY <1>1, <1>2, <1>3, <1>4, <1>5, <1>6, <1>7 DEF Inv

LEMMA ValidateStep ==
    ASSUME Inv, Validate
    PROVE  Inv'
<1>1. TypeOK'
    BY TypeStep DEF Inv, Next, PlayStep
<1>2. SafeInv'
    BY DEF Inv, SafeInv, Whole, Sealed, Noted, ClaimInv, files, Validate
<1>3. WindowInv'
    BY DEF Inv, WindowInv, windowVars, Validate, EndPlay
<1>4. FilesInv'
    BY DEF FilesInv, Validate, EndPlay
<1>5. AlwaysInv'
    BY DEF Inv, Whole, AlwaysInv, ClaimInv, files, Validate
<1>6. ClaimInv'
    BY DEF Inv, Whole, ClaimInv, files, Validate, EndPlay
<1>7. PriorInv'
    BY DEF Inv, PriorInv, Validate, EndPlay
<1> QED BY <1>1, <1>2, <1>3, <1>4, <1>5, <1>6, <1>7 DEF Inv

LEMMA DiagnoseStep ==
    ASSUME Inv, Diagnose
    PROVE  Inv'
<1>1. TypeOK'
    BY TypeStep DEF Inv, Next, PlayStep
<1>2. SafeInv'
    BY DEF Inv, SafeInv, Whole, Sealed, Noted, windowVars, files, Diagnose
<1>3. WindowInv'
    BY DEF Inv, WindowInv, windowVars, Diagnose, Abandon, EndPlay
<1>4. FilesInv'
    BY DEF FilesInv, Diagnose, Abandon, EndPlay
<1>5. AlwaysInv'
    BY DEF AlwaysInv, Diagnose, Abandon, EndPlay
<1>6. ClaimInv'
    BY DEF Inv, Whole, ClaimInv, files, Diagnose, Abandon, EndPlay
<1>7. PriorInv'
    BY DEF Inv, PriorInv, Diagnose, Abandon, EndPlay
<1> QED BY <1>1, <1>2, <1>3, <1>4, <1>5, <1>6, <1>7 DEF Inv

LEMMA WriteManifestStep ==
    ASSUME Inv, WriteManifest
    PROVE  Inv'
<1>1. TypeOK'
    BY TypeStep DEF Inv, Next, PlayStep
<1>2. SafeInv'
    BY DEF Inv, SafeInv, Whole, Sealed, Noted, ClaimInv, files, WriteManifest
<1>3. WindowInv'
    BY DEF Inv, WindowInv, windowVars, WriteManifest, EndPlay
<1>4. FilesInv'
    BY DEF FilesInv, WriteManifest, EndPlay
<1>5. AlwaysInv'
    BY DEF Inv, Whole, AlwaysInv, ClaimInv, files, WriteManifest
<1>6. ClaimInv'
    BY DEF ClaimInv, WriteManifest, EndPlay
<1>7. PriorInv'
    BY DEF Inv, PriorInv, WriteManifest, EndPlay
<1> QED BY <1>1, <1>2, <1>3, <1>4, <1>5, <1>6, <1>7 DEF Inv

LEMMA PlayDiesStep ==
    ASSUME Inv, PlayDies
    PROVE  Inv'
<1>1. TypeOK'
    BY TypeStep DEF Inv, Next, PlayStep
<1>2. SafeInv'
    BY DEF Inv, SafeInv, Whole, Sealed, Noted, files, PlayDies
<1>3. WindowInv'
    BY DEF WindowInv, PlayDies, EndPlay
<1>4. FilesInv'
    BY DEF FilesInv, PlayDies, EndPlay
<1>5. AlwaysInv'
    BY DEF AlwaysInv, PlayDies, EndPlay
<1>6. ClaimInv'
    BY DEF ClaimInv, PlayDies, EndPlay
<1>7. PriorInv'
    BY DEF Inv, PriorInv, files, PlayDies, EndPlay
<1> QED BY <1>1, <1>2, <1>3, <1>4, <1>5, <1>6, <1>7 DEF Inv

LEMMA OperatorActsStep ==
    ASSUME Inv, OperatorActs
    PROVE  Inv'
<1>1. TypeOK'
    BY TypeStep DEF Inv, Next
<1>2. SafeInv'
    BY DEF Inv, SafeInv, Whole, Sealed, history, Paused, files, OperatorActs, OperatorPauses
<1>3. WindowInv'
    BY DEF Inv, WindowInv, Paused, OperatorActs, OperatorPauses, OperatorResumes
<1>4. FilesInv'
    BY DEF Inv, Whole, FilesInv, Want, files, OperatorActs
<1>5. AlwaysInv'
    BY DEF Inv, Whole, AlwaysInv, files, OperatorActs, OperatorPauses, OperatorResumes
<1>6. ClaimInv'
    BY DEF Inv, Whole, ClaimInv, files, OperatorActs
<1>7. PriorInv'
    BY DEF Inv, PriorInv, Paused, files, OperatorActs, OperatorPauses
<1> QED BY <1>1, <1>2, <1>3, <1>4, <1>5, <1>6, <1>7 DEF Inv

LEMMA OperatorRecoversStep ==
    ASSUME Inv, OperatorRecovers
    PROVE  Inv'
<1>1. TypeOK'
    BY TypeStep DEF Inv, Next
<1>2. SafeInv'
    BY DEF SafeInv, Whole, Sealed, OperatorRecovers
<1>3. WindowInv'
    BY DEF WindowInv, OperatorRecovers, OperatorResumes
<1>4. FilesInv'
    BY DEF FilesInv, OperatorRecovers
<1>5. AlwaysInv'
    BY DEF AlwaysInv, OperatorRecovers
<1>6. ClaimInv'
    BY DEF ClaimInv, OperatorRecovers
<1>7. PriorInv'
    BY DEF Inv, PriorInv, OperatorRecovers
<1> QED BY <1>1, <1>2, <1>3, <1>4, <1>5, <1>6, <1>7 DEF Inv

LEMMA InvStep == Inv /\ [Next]_vars => Inv'
<1> SUFFICES ASSUME Inv, [Next]_vars PROVE Inv'
    OBVIOUS
<1>1. CASE UNCHANGED vars
    <2>1. TypeOK'
        BY TypeStep DEF Inv
    <2> QED
        BY <1>1, <2>1 DEF Inv, SafeInv, Whole, Sealed, WindowInv, FilesInv, Want, AlwaysInv,
            ClaimInv, PriorInv, vars, windowVars, files, counts, history
<1> QED
    BY <1>1, DeployStep, DeployRefusedStep, RollbackStep, PreCheckStep, AtTheGateStep,
       AdmittedStep, RefusedStep, BacksUpStep, UnprotectStep, InstallHelpersStep, InstallCgiStep, CheckStep,
       ProtectStep, ReleaseStep, ValidateStep, DiagnoseStep, WriteManifestStep, PlayDiesStep,
       OperatorActsStep, OperatorRecoversStep
    DEF Next, PlayStep

LEMMA Invariance == Spec => []Inv
BY InvInit, InvStep, PTL DEF Spec

-----------------------------------------------------------------------------
(* The commits, by what a step does to the play and to the record.         *)

LEMMA ManifestSteps ==
    ASSUME [Next]_vars, manifest' # manifest
    PROVE  WriteManifest
BY DEF Next, PlayStep, Deploy, DeployRefused, Rollback, Begin, PreCheck, AtTheGate, Admitted,
       Refused, BacksUp, Unprotect, InstallHelpers, InstallCgi, Check, Protect, CloseWindow,
       Release, Validate, Diagnose, PlayDies, OperatorActs, OperatorRecovers, vars, record

LEMMA BackupSteps ==
    ASSUME [Next]_vars, backups' # backups
    PROVE  BacksUp
BY DEF Next, PlayStep, Deploy, DeployRefused, Rollback, Begin, PreCheck, AtTheGate, Admitted,
       Refused, Unprotect, InstallHelpers, InstallCgi, Check, Protect, CloseWindow, Release,
       Validate, Diagnose, WriteManifest, PlayDies, OperatorActs, OperatorRecovers, vars, record

(* A play that goes on leaves its commits alone.                           *)
LEMMA NamesWhileAtWork ==
    ASSUME Inv, NamesInv, UNCHANGED <<manifest, play>>, pc # "idle", pc' # "idle",
           unrecorded => unrecorded',
           backups' = backups \/ BacksUp
    PROVE  NamesInv'
<1>1. ASSUME ~unrecorded', NEW backup \in backups'
      PROVE  backup.commit \in {backup.version, Unknown}
    <2>1. manifest.commit \in {play.prior, Unknown}
        BY <1>1 DEF NamesInv
    <2>2. CASE backup \in backups
        BY <1>1, <2>2 DEF NamesInv
    <2>3. CASE backup \notin backups
        <3>1. pc = "backup" /\ backup = [version |-> cgi, commit |-> manifest.commit]
            BY <1>1, <2>3 DEF BacksUp
        <3>2. cgi = play.prior
            BY <3>1 DEF Inv, FilesInv, PriorInv
        <3> QED BY <2>1, <3>1, <3>2
    <2> QED BY <2>2, <2>3
<1> QED BY <1>1 DEF NamesInv

(* A play that ends leaves the adapter it found, or one that its manifest  *)
(* names, or an entry in the history.                                      *)
LEMMA NamesAtTheEnd ==
    ASSUME Inv, NamesInv, UNCHANGED <<cgi, backups, play>>, pc # "idle", pc' = "idle",
           Noted,
           manifest' = manifest \/ (pc = "manifest" /\ manifest' = LiveManifest),
           result' # "ok" \/ (pc = "manifest" /\ manifest' = LiveManifest)
    PROVE  NamesInv'
<1> SUFFICES ASSUME ~unrecorded' PROVE manifest'.commit \in {cgi, Unknown}
                                       /\ ~unrecorded
    BY DEF NamesInv
<1>1. ~unrecorded /\ ~LeavesUnrecorded
    BY Zenon DEF Noted
<1>2. CASE pc = "manifest" /\ manifest' = LiveManifest
    BY <1>1, <1>2 DEF NamesInv, LiveManifest, Inv, ClaimInv
<1>3. CASE manifest' = manifest /\ result' # "ok"
    <2>1. cgi = play.prior \/ manifest'.commit \in {cgi, Unknown}
        BY <1>1, <1>3 DEF LeavesUnrecorded
    <2>2. manifest.commit \in {play.prior, Unknown}
        BY <1>1 DEF NamesInv
    <2> QED BY <1>1, <1>3, <2>1, <2>2
<1> QED BY <1>2, <1>3

(* A play that begins takes its commit from its version or from a backup.  *)
LEMMA NamesAtTheStart ==
    ASSUME Inv, NamesInv, NEW job, NEW version, NEW commit, Begin(job, version, commit),
           job = "deploy" => commit = version,
           job = "rollback" => \E backup \in backups :
                                  version = backup.version /\ commit = backup.commit,
           job \in {"deploy", "rollback"}
    PROVE  NamesInv'
<1>1. ~unrecorded => commit \in {version, Unknown}
    BY DEF NamesInv
<1> QED BY <1>1 DEF NamesInv, Begin, files, record, history

LEMMA NamesStep == Inv /\ NamesInv /\ [Next]_vars => NamesInv'
<1> SUFFICES ASSUME Inv, NamesInv, [Next]_vars PROVE NamesInv'
    OBVIOUS
<1>1. ASSUME NEW v \in Versions, Deploy(v) \/ DeployRefused(v) PROVE NamesInv'
    BY <1>1, NamesAtTheStart DEF Deploy, DeployRefused
<1>2. ASSUME NEW backup \in backups, Rollback(backup) PROVE NamesInv'
    BY <1>2, NamesAtTheStart DEF Rollback
<1>3. CASE AtTheGate \/ Admitted \/ Refused \/ BacksUp
    BY <1>3, NamesWhileAtWork, BrokenDoes
    DEF AtTheGate, Admitted, Refused, BacksUp, record, history, Inv
<1>4. CASE Unprotect \/ InstallHelpers \/ InstallCgi \/ Check \/ Protect
    <2>1. CASE Unprotect
        BY <2>1, NamesWhileAtWork, BrokenDoes DEF Unprotect, record, history, Inv
    <2>2. CASE InstallHelpers \/ InstallCgi \/ Check
        BY <2>2, NamesWhileAtWork, BrokenDoes
        DEF InstallHelpers, InstallCgi, Check, record, history, Inv
    <2>3. CASE Protect
        BY <2>3, NamesWhileAtWork DEF Protect, CloseWindow, record, history
    <2> QED BY <1>4, <2>1, <2>2, <2>3
<1>5. CASE PreCheck \/ Release \/ Validate \/ Diagnose
    <2>1. pc # "idle" /\ Noted /\ UNCHANGED <<files, record, play>>
        BY <1>5 DEF PreCheck, Release, Validate, Diagnose
    <2>2. pc' = "idle" => result' # "ok"
        BY <1>5 DEF PreCheck, Release, Validate, Diagnose, Proceed, Abandon, EndPlay
    <2>3. unrecorded => unrecorded'
        BY <2>1, Zenon DEF Noted
    <2> QED
        BY <2>1, <2>2, <2>3, NamesWhileAtWork, NamesAtTheEnd DEF files, record
<1>6. CASE WriteManifest \/ PlayDies
    <2>1. pc # "idle" /\ pc' = "idle" /\ Noted /\ UNCHANGED <<cgi, backups, play>>
        BY <1>6 DEF WriteManifest, PlayDies, EndPlay, files, record
    <2>2. /\ manifest' = manifest \/ (pc = "manifest" /\ manifest' = LiveManifest)
          /\ result' # "ok" \/ (pc = "manifest" /\ manifest' = LiveManifest)
        BY <1>6 DEF WriteManifest, PlayDies, EndPlay, record
    <2> QED BY <2>1, <2>2, NamesAtTheEnd
<1>7. CASE OperatorActs
    BY <1>7 DEF OperatorActs, NamesInv, files, record, history
<1>8. CASE OperatorRecovers
    <2>1. ~unrecorded' => ~unrecorded /\ manifest.commit \in {cgi', Unknown}
        BY <1>8, Zenon DEF OperatorRecovers
    <2>2. pc' = "idle" /\ UNCHANGED <<manifest, backups, play>>
        BY <1>8 DEF OperatorRecovers, record
    <2> QED BY <2>1, <2>2 DEF NamesInv
<1>9. CASE UNCHANGED vars
    BY <1>9 DEF NamesInv, vars, files, record, history
<1> QED BY <1>1, <1>2, <1>3, <1>4, <1>5, <1>6, <1>7, <1>8, <1>9 DEF Next, PlayStep

LEMMA Names == Spec => []NamesInv
<1>1. Init => NamesInv
    BY DEF Init, NamesInv
<1> QED BY <1>1, NamesStep, Invariance, PTL DEF Spec

-----------------------------------------------------------------------------
(* The theorems.                                                           *)

(* Every variable of the window, the files and the play keeps its type.    *)
THEOREM TypeCorrect == Spec => []TypeOK
<1>1. Inv => TypeOK
    BY DEF Inv
<1> QED BY <1>1, Invariance, PTL

(* Once a play has had a window, the spool never runs a CGI that lacks     *)
(* chattr +i, however the commands of cutover, rescue, restoration and     *)
(* finalization fail, wherever plays die and whoever pauses and resumes.   *)
THEOREM NeverUnprotected == Spec => []NeverRunsUnprotected
<1>1. Inv => NeverRunsUnprotected
    BY DEF Inv, SafeInv, Sealed, NeverRunsUnprotected
<1> QED BY <1>1, Invariance, PTL

(* The spool never runs a CGI with helper modules of another version.      *)
THEOREM WholeAdapter == Spec => []RunsWholeAdapter
<1>1. Inv => RunsWholeAdapter
    BY DEF Inv, SafeInv, Whole, RunsWholeAdapter
<1> QED BY <1>1, Invariance, PTL

(* A deployment whose cutover failed leaves the adapter it found, or a     *)
(* paused spool.                                                           *)
THEOREM TakenBack == Spec => []FailedCutoverTakenBack
<1>1. Inv => FailedCutoverTakenBack
    BY DEF Inv, PriorInv, FailedCutoverTakenBack, Paused
<1> QED BY <1>1, Invariance, PTL

(* The manifest is only ever changed to the checksum of the CGI that is    *)
(* live, whole and sealed, and by a deployment to its commit; by a         *)
(* rollback, too, as long as nobody has left another adapter under a       *)
(* manifest that does not name it, or else to unknown-pre-manifest.        *)
THEOREM HonestManifest == Spec => ManifestIsHonest
<1> DEFINE Honest == manifest' # manifest =>
                /\ manifest'.sha256 = cgi /\ helpers = cgi /\ immutable
                /\ \/ manifest'.commit = cgi
                   \/ play.job = "rollback" /\ (manifest'.commit = Unknown \/ unrecorded)
<1>1. Inv /\ NamesInv /\ [Next]_vars => [Honest]_vars
    <2> SUFFICES ASSUME Inv, NamesInv, [Next]_vars, manifest' # manifest PROVE Honest
        OBVIOUS
    <2>1. WriteManifest
        BY ManifestSteps
    <2>2. manifest' = LiveManifest /\ pc = "manifest"
        BY <2>1 DEF WriteManifest
    <2>3. cgi = play.to /\ helpers = cgi /\ immutable
        BY <2>2 DEF Inv, ClaimInv, Whole
    <2>4. manifest'.commit = play.commit /\ manifest'.sha256 = cgi
        BY <2>2 DEF LiveManifest
    <2>5. play.job \in {"deploy", "rollback"}
        BY DEF Inv, TypeOK, PlayTypeOK
    <2>6. play.job = "rollback" /\ ~unrecorded => play.commit \in {cgi, Unknown}
        BY <2>2, <2>3 DEF NamesInv
    <2>7. play.job = "deploy" => play.commit = cgi
        BY <2>2, <2>3 DEF NamesInv
    <2> QED BY <2>3, <2>4, <2>5, <2>6, <2>7
<1> QED BY <1>1, Invariance, Names, PTL DEF Spec, ManifestIsHonest
=============================================================================
