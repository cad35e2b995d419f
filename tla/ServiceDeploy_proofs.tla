------------------------- MODULE ServiceDeploy_proofs -------------------------
(***************************************************************************)
(* Theorems about DeployLock and ServiceDeploy, for any plays, any images  *)
(* and any number of failures.                                             *)
(***************************************************************************)
EXTENDS ServiceDeploy, TLAPS

(* One play is at work, with the directory, and its token is there from    *)
(* the write of it to its removal.                                         *)
LockInv ==
    /\ \A p, q \in Plays : AtWork(p) /\ AtWork(q) => p = q
    /\ \A p \in Plays : AtWork(p) => lockDir
    /\ \A p \in Plays :
          at[p] \in {"tokened", "holding", "leaving", "emptying"} => token = p

(* A role is run by the play that holds the lock, for an image.            *)
RoleInv ==
    step # "idle" => play.by \in Plays /\ at[play.by] = "holding" /\ play.to \in Images

(* What the facts of Ansible and the result say at each step. A container  *)
(* that ran had a Compose file, or the cutover would not have begun.       *)
FactsInv ==
    /\ step \in {"window", "assert", "backup", "swap"} => ~facts.replaced /\ ~facts.started
    /\ step \in {"up", "health", "manifest"} => facts.replaced
    /\ step = "up" => ~facts.started
    /\ step \in {"health", "manifest"} => facts.started
    /\ step \in {"swap", "up", "health", "manifest"} /\ play.job = "deploy" /\ play.had
          => play.compose # NoImage
    /\ step \in {"restore", "reup", "recheck"} => facts.replaced /\ play.compose # NoImage
    /\ step = "remove" => play.compose = NoImage
    /\ step \in {"restore", "reup", "recheck", "remove"} => result = "failed"

(* And what the host is like.                                              *)
HostInv ==
    /\ step \in {"up", "health", "manifest"} => compose = play.to
    /\ step = "health" => container \in {Container(play.to, TRUE), Container(play.to, FALSE)}
    /\ step = "manifest" => container = Container(play.to, TRUE)
    /\ step \in {"reup", "recheck"} => compose = play.compose
    /\ step = "recheck" => container = Container(play.compose, TRUE)

(* Behind the gate no receipt is reserved, and behind the check none is in *)
(* creation.                                                               *)
FlightInv ==
    /\ step \notin {"idle", "window", "release"} => resumed \/ Paused
    /\ step \notin {"idle", "window", "assert", "release"} => resumed \/ flight # "creating"

Inv == TypeOK /\ LockInv /\ RoleInv /\ FactsInv /\ HostInv /\ FlightInv /\ CutoverIsAllOrNothing

-----------------------------------------------------------------------------
(* The lock, alone.                                                        *)

LEMMA LockStep ==
    ASSUME LockTypeOK, LockInv,
           \/ \E p \in Plays : Acquires(p) \/ Releases(p) \/ Dies(p)
           \/ \E p \in Plays : /\ Becomes(p, "holding", "leaving")
                               /\ UNCHANGED <<lockDir, token, metadata>>
           \/ OperatorRemovesLock
           \/ UNCHANGED lockVars
    PROVE  LockTypeOK' /\ LockInv'
<1> USE DEF LockTypeOK, LockInv, AtWork, Becomes
<1>1. ASSUME NEW p \in Plays, MakesDir(p) PROVE LockTypeOK' /\ LockInv'
    BY <1>1 DEF MakesDir
<1>2. ASSUME NEW p \in Plays, WritesToken(p) PROVE LockTypeOK' /\ LockInv'
    BY <1>2 DEF WritesToken
<1>3. ASSUME NEW p \in Plays, WritesMetadata(p) PROVE LockTypeOK' /\ LockInv'
    BY <1>3 DEF WritesMetadata
<1>4. ASSUME NEW p \in Plays, Unlinks(p) PROVE LockTypeOK' /\ LockInv'
    BY <1>4 DEF Unlinks
<1>5. ASSUME NEW p \in Plays, UnlinksToken(p) PROVE LockTypeOK' /\ LockInv'
    BY <1>5 DEF UnlinksToken
<1>6. ASSUME NEW p \in Plays, RemovesDir(p) PROVE LockTypeOK' /\ LockInv'
    BY <1>6 DEF RemovesDir
<1>7. ASSUME NEW p \in Plays, Dies(p) PROVE LockTypeOK' /\ LockInv'
    BY <1>7 DEF Dies
<1>8. ASSUME NEW p \in Plays, Becomes(p, "holding", "leaving"),
             UNCHANGED <<lockDir, token, metadata>>
      PROVE  LockTypeOK' /\ LockInv'
    BY <1>8
<1>9. CASE OperatorRemovesLock
    BY <1>9 DEF OperatorRemovesLock
<1>10. CASE UNCHANGED lockVars
    BY <1>10 DEF lockVars
<1> QED
    BY <1>1, <1>2, <1>3, <1>4, <1>5, <1>6, <1>7, <1>8, <1>9, <1>10
    DEF Acquires, Releases

LEMMA LockIsExclusive == LockInv => OneOperator
BY DEF LockInv, OneOperator, AtWork

(* What any step of the specification does to the lock.                    *)
LEMMA LockMoves ==
    ASSUME RoleInv, [Next]_vars
    PROVE  \/ \E p \in Plays : Acquires(p) \/ Releases(p) \/ Dies(p)
           \/ \E p \in Plays : /\ Becomes(p, "holding", "leaving")
                               /\ UNCHANGED <<lockDir, token, metadata>>
           \/ OperatorRemovesLock
           \/ UNCHANGED lockVars
<1>1. ASSUME NEW p \in Plays, NEW image \in Images, Deploy(p, image)
      PROVE  \/ Becomes(p, "holding", "leaving") /\ UNCHANGED <<lockDir, token, metadata>>
             \/ UNCHANGED lockVars
    BY <1>1 DEF Deploy, Reconciles, EntersWindow, RoleEnds
<1>2. ASSUME NEW p \in Plays, NEW image \in Images, Rollback(p, image)
      PROVE  UNCHANGED lockVars
    BY <1>2 DEF Rollback, EntersWindow
<1>3. ASSUME NEW p \in Plays, Refuses(p)
      PROVE  Becomes(p, "holding", "leaving") /\ UNCHANGED <<lockDir, token, metadata>>
    BY <1>3 DEF Refuses, RoleEnds
<1>4. CASE ReleasesWindow
    BY <1>4 DEF ReleasesWindow, RoleInv, Holder
<1>5. CASE ReceiptStarts \/ ReceiptEnds \/ OperatorActs
    BY <1>5 DEF ReceiptStarts, ReceiptEnds, OperatorActs
<1>6. CASE AtTheGate \/ Admitted \/ Refused
    BY <1>6 DEF AtTheGate, Admitted, Refused
<1>7. CASE AssertsNoCreating \/ BacksUp \/ Swaps \/ Ups \/ ChecksHealth \/ WritesManifest
    BY <1>7 DEF AssertsNoCreating, BacksUp, Swaps, Ups, ChecksHealth, WritesManifest, Stays
<1>8. CASE Restores \/ UpsAgain \/ ChecksAgain \/ Removes
    BY <1>8 DEF Restores, UpsAgain, ChecksAgain, Removes, Stays
<1>9. CASE UNCHANGED vars
    BY <1>9 DEF vars
<1>10. ASSUME NEW p \in Plays, AdapterRole(p)
       PROVE  Becomes(p, "holding", "leaving") /\ UNCHANGED <<lockDir, token, metadata>>
    BY <1>10 DEF AdapterRole, RoleEnds
<1> QED
    BY <1>1, <1>2, <1>3, <1>4, <1>5, <1>6, <1>7, <1>8, <1>9, <1>10
    DEF Next, RoleStep, LockSteps, PlayDies

-----------------------------------------------------------------------------
(* Types. What the lock, the window and the play of a role do is common to *)
(* many steps.                                                             *)

LEMMA CommandTypes ==
    ASSUME TypeOK, Fails PROVE failures' \in 0..MaxFailures
BY ServiceAssumption DEF TypeOK, RoleTypeOK, Fails

LEMMA RescueTypes ==
    ASSUME TypeOK, Rescue
    PROVE  /\ result' \in {"none", "ok", "failed"} /\ facts' \in [replaced : BOOLEAN, started : BOOLEAN]
           /\ step' \in {"restore", "remove", "release"}
BY DEF TypeOK, RoleTypeOK, Rescue

LEMMA RecreateTypes ==
    ASSUME NEW image \in AnyImage, NEW up \in BOOLEAN, Recreates(image, up)
    PROVE  /\ container' \in [image : AnyImage, up : BOOLEAN]
           /\ flight' = "none" \/ (flight' = flight /\ container'.up)
BY DEF Recreates, Container

LEMMA BeginTypes ==
    ASSUME TypeOK, NEW p \in Plays, NEW job \in {"deploy", "rollback"}, NEW image \in Images,
           Begins(p, job, image)
    PROVE  /\ play' \in [by : Plays \cup {NoPlay}, job : {"deploy", "rollback"},
                         to : AnyImage, was : AnyImage, had : BOOLEAN,
                         compose : AnyImage, manifest : Manifests]
           /\ facts' \in [replaced : BOOLEAN, started : BOOLEAN]
           /\ rescueFailed' \in BOOLEAN
<1>1. container.image \in AnyImage /\ container.up \in BOOLEAN
    BY DEF TypeOK, HostTypeOK
<1> QED
    BY <1>1 DEF TypeOK, HostTypeOK, Begins, AnyImage, NoFacts

LEMMA BeginFacts ==
    ASSUME NEW p, NEW job, NEW image, Begins(p, job, image)
    PROVE  /\ play'.by = p /\ play'.to = image
           /\ ~facts'.replaced /\ ~facts'.started
           /\ step = "idle" /\ at[p] = "holding"
BY DEF Begins, NoFacts

LEMMA TypeInit == Init => TypeOK
<1> SUFFICES ASSUME Init PROVE TypeOK
    OBVIOUS
<1>1. NoManifest \in Manifests
    BY DEF NoManifest, Manifests, AnyImage
<1>2. manifest \in Manifests /\ container \in [image : AnyImage, up : BOOLEAN]
        /\ compose \in AnyImage
    <2>1. CASE compose = NoImage /\ container = NoContainer /\ manifest = NoManifest
        BY <1>1, <2>1 DEF NoContainer, Container, AnyImage
    <2>2. ASSUME NEW image \in Images, NEW previous \in Images,
                 compose \in {image, NoImage}, container = Container(image, TRUE),
                 manifest = [image |-> image, backupOf |-> image, previous |-> previous]
          PROVE  manifest \in Manifests /\ container \in [image : AnyImage, up : BOOLEAN]
                    /\ compose \in AnyImage
        BY <2>2 DEF Container, AnyImage, Manifests
    <2> QED BY <2>1, <2>2 DEF Init
<1>3. HostTypeOK
    BY <1>2 DEF HostTypeOK, Init
<1>4. RoleTypeOK
    <2>1. play \in [by : Plays \cup {NoPlay}, job : {"deploy", "rollback"},
                    to : AnyImage, was : AnyImage, had : BOOLEAN,
                    compose : AnyImage, manifest : Manifests]
        BY <1>1 DEF Init, AnyImage
    <2>2. facts \in [replaced : BOOLEAN, started : BOOLEAN]
        BY DEF Init, NoFacts
    <2>3. failures \in 0..MaxFailures
        BY ServiceAssumption DEF Init
    <2>4. resumed \in BOOLEAN /\ rescueFailed \in BOOLEAN
        BY DEF Init
    <2> QED
        BY <2>1, <2>2, <2>3, <2>4 DEF RoleTypeOK, Init
<1> QED
    BY <1>3, <1>4 DEF Init, TypeOK, LockInit, LockTypeOK, WindowTypeOK

LEMMA HostTypeStep ==
    ASSUME TypeOK, [Next]_vars
    PROVE  HostTypeOK'
<1> USE DEF TypeOK, HostTypeOK
<1>1. CASE UNCHANGED <<host, flight>>
    BY <1>1 DEF host
<1>2. CASE ReceiptStarts \/ ReceiptEnds
    BY <1>2 DEF ReceiptStarts, ReceiptEnds, host
<1>3. ASSUME NEW p \in Plays, NEW image \in Images, Deploy(p, image) PROVE HostTypeOK'
    <2>1. manifest' \in Manifests
        <3>1. UNCHANGED manifest \/ manifest' = [manifest EXCEPT !.image = image]
            BY <1>3 DEF Deploy, Reconciles, EntersWindow
        <3> QED BY <3>1 DEF Manifests, AnyImage
    <2> QED BY <1>3, <2>1 DEF Deploy, Begins
<1>4. ASSUME NEW p \in Plays, NEW image \in Images, Rollback(p, image) PROVE HostTypeOK'
    BY <1>4 DEF Rollback, Begins, EntersWindow
<1>5. CASE Swaps
    BY <1>5 DEF Swaps, RoleTypeOK
<1>6. ASSUME \E up \in BOOLEAN : Recreates(compose, up), UNCHANGED <<compose, manifest>>
      PROVE  HostTypeOK'
    BY <1>6, RecreateTypes
<1>7. CASE Ups
    <2>1. CASE UNCHANGED <<container, flight>>
        BY <1>7, <2>1 DEF Ups
    <2>2. CASE \E up \in BOOLEAN : Recreates(compose, up)
        BY <1>6, <1>7, <2>2 DEF Ups
    <2> QED BY <1>7, <2>1, <2>2 DEF Ups
<1>8. CASE UpsAgain
    <2>1. CASE UNCHANGED <<container, flight>>
        BY <1>8, <2>1 DEF UpsAgain
    <2>2. CASE \E up \in BOOLEAN : Recreates(compose, up)
        BY <1>6, <1>8, <2>2 DEF UpsAgain
    <2> QED BY <1>8, <2>1, <2>2 DEF UpsAgain
<1>9. CASE WritesManifest
    <2>1. NewManifest \in Manifests
        BY DEF NewManifest, Manifests, AnyImage, RoleTypeOK
    <2> QED BY <1>9, <2>1 DEF WritesManifest
<1>10. CASE Restores
    BY <1>10 DEF Restores, RoleTypeOK
<1>11. CASE Removes
    <2>1. NoContainer \in [image : AnyImage, up : BOOLEAN]
        BY DEF NoContainer, Container, AnyImage
    <2> QED BY <1>11, <2>1 DEF Removes
<1>12. ASSUME NEW p \in Plays, AdapterRole(p) PROVE HostTypeOK'
    <2>1. manifest' \in Manifests
        BY <1>12 DEF AdapterRole, Manifests, AnyImage
    <2> QED BY <1>12, <2>1 DEF AdapterRole
<1> QED
    BY <1>1, <1>2, <1>3, <1>4, <1>5, <1>7, <1>8, <1>9, <1>10, <1>11, <1>12
    DEF Next, RoleStep, LockSteps, OperatorActs, Refuses, PlayDies, AtTheGate, Admitted,
        Refused, AssertsNoCreating, BacksUp, ChecksHealth, ChecksAgain, ReleasesWindow, vars

LEMMA WindowTypeStep ==
    ASSUME TypeOK, [Next]_vars
    PROVE  WindowTypeOK'
<1> USE DEF TypeOK, WindowTypeOK
<1>1. CASE UNCHANGED windowVars
    BY <1>1 DEF windowVars
<1>2. ASSUME NEW p \in Plays, NEW image \in Images, Deploy(p, image) PROVE WindowTypeOK'
    BY <1>2 DEF Deploy, Begins, Reconciles, EntersWindow, AsksForWindow, windowVars
<1>3. ASSUME NEW p \in Plays, NEW image \in Images, Rollback(p, image) PROVE WindowTypeOK'
    BY <1>3 DEF Rollback, Begins, EntersWindow, AsksForWindow
<1>4. CASE OperatorActs
    BY <1>4 DEF OperatorActs, OperatorPauses, OperatorResumes
<1>5. CASE AtTheGate
    BY <1>5 DEF AtTheGate, GatePauses, GateUndoes
<1>6. CASE Admitted \/ Refused
    BY <1>6 DEF Admitted, Refused, GateAcquires, GateGivesUp
<1>7. CASE ReleasesWindow
    BY <1>7 DEF ReleasesWindow
<1>8. ASSUME NEW p \in Plays, PlayDies(p) PROVE WindowTypeOK'
    BY <1>8 DEF PlayDies
<1>9. ASSUME NEW p \in Plays, AdapterRole(p) PROVE WindowTypeOK'
    BY <1>9 DEF AdapterRole
<1> QED
    BY <1>1, <1>2, <1>3, <1>4, <1>5, <1>6, <1>7, <1>8, <1>9
    DEF Next, RoleStep, LockSteps, ReceiptStarts, ReceiptEnds, Refuses, Stays,
        AssertsNoCreating, BacksUp, Swaps, Ups, ChecksHealth, WritesManifest,
        Restores, UpsAgain, ChecksAgain, Removes, vars

LEMMA RoleTypeStep ==
    ASSUME TypeOK, [Next]_vars
    PROVE  RoleTypeOK'
<1> USE DEF TypeOK, RoleTypeOK
<1>1. CASE UNCHANGED <<play, step, result, facts, failures, resumed, rescueFailed>>
    BY <1>1
<1>2. ASSUME NEW p \in Plays, NEW image \in Images, Deploy(p, image) PROVE RoleTypeOK'
    <2>1. Begins(p, "deploy", image)
        BY <1>2 DEF Deploy
    <2>2. /\ play' \in [by : Plays \cup {NoPlay}, job : {"deploy", "rollback"},
                         to : AnyImage, was : AnyImage, had : BOOLEAN,
                         compose : AnyImage, manifest : Manifests]
          /\ facts' \in [replaced : BOOLEAN, started : BOOLEAN]
          /\ rescueFailed' \in BOOLEAN
        BY <2>1, BeginTypes
    <2>3. CASE Reconciles(p, image)
        <3>1. failures' \in 0..MaxFailures
            BY <2>3, CommandTypes DEF Reconciles
        <3>2. step' = "idle" /\ result' \in {"ok", "failed"} /\ UNCHANGED resumed
            BY <2>3 DEF Reconciles, RoleEnds
        <3> QED BY <2>2, <3>1, <3>2
    <2>4. CASE EntersWindow /\ (Fails \/ UNCHANGED failures)
        BY <2>2, <2>4, CommandTypes DEF EntersWindow
    <2> QED BY <1>2, <2>3, <2>4 DEF Deploy
<1>3. ASSUME NEW p \in Plays, NEW image \in Images, Rollback(p, image) PROVE RoleTypeOK'
    <2>1. Begins(p, "rollback", image) /\ EntersWindow /\ UNCHANGED failures
        BY <1>3 DEF Rollback
    <2>2. /\ play' \in [by : Plays \cup {NoPlay}, job : {"deploy", "rollback"},
                         to : AnyImage, was : AnyImage, had : BOOLEAN,
                         compose : AnyImage, manifest : Manifests]
          /\ facts' \in [replaced : BOOLEAN, started : BOOLEAN]
          /\ rescueFailed' \in BOOLEAN
        BY <2>1, BeginTypes
    <2> QED BY <2>1, <2>2 DEF EntersWindow
<1>4. ASSUME NEW p \in Plays, Refuses(p) PROVE RoleTypeOK'
    BY <1>4, CommandTypes DEF Refuses, RoleEnds, NoFacts
<1>5. ASSUME NEW p \in Plays, PlayDies(p) PROVE RoleTypeOK'
    BY <1>5, CommandTypes DEF PlayDies
<1>6. CASE OperatorActs
    <2>1. resumed' \in BOOLEAN
        BY <1>6 DEF OperatorActs
    <2>2. UNCHANGED <<play, step, result, facts, failures, rescueFailed>>
        BY <1>6 DEF OperatorActs
    <2> QED BY <2>1, <2>2
<1>7. CASE Admitted \/ Refused
    BY <1>7, CommandTypes DEF Admitted, Refused, Paused
<1>8. CASE AssertsNoCreating \/ ChecksHealth
    BY <1>8, CommandTypes, RescueTypes
    DEF AssertsNoCreating, ChecksHealth, GoesOn, CommandFails, Stays
<1>9. CASE BacksUp
    <2>1. play' \in [by : Plays \cup {NoPlay}, job : {"deploy", "rollback"},
                     to : AnyImage, was : AnyImage, had : BOOLEAN,
                     compose : AnyImage, manifest : Manifests]
        BY <1>9 DEF BacksUp, HostTypeOK
    <2> QED
        BY <1>9, <2>1, CommandTypes, RescueTypes DEF BacksUp, GoesOn, CommandFails, Stays
<1>10. CASE Swaps
    BY <1>10, CommandTypes, RescueTypes DEF Swaps, CommandFails, Stays
<1>11. CASE Ups
    BY <1>11, CommandTypes, RescueTypes DEF Ups, CommandFails, Stays
<1>12. CASE WritesManifest
    BY <1>12, CommandTypes, RescueTypes DEF WritesManifest, CommandFails, Stays
<1>13. CASE Restores \/ ChecksAgain \/ Removes
    BY <1>13, CommandTypes DEF Restores, ChecksAgain, Removes, GoesOn, RescueTaskFails, Stays
<1>14. CASE UpsAgain
    BY <1>14, CommandTypes DEF UpsAgain, GoesOn, RescueTaskFails, Stays
<1>15. CASE ReleasesWindow
    BY <1>15, CommandTypes DEF ReleasesWindow
<1>16. ASSUME NEW p \in Plays, AdapterRole(p) PROVE RoleTypeOK'
    BY <1>16, CommandTypes DEF AdapterRole, RoleEnds
<1> QED
    BY <1>1, <1>2, <1>3, <1>4, <1>5, <1>6, <1>7, <1>8, <1>9, <1>10, <1>11, <1>12,
       <1>13, <1>14, <1>15, <1>16
    DEF Next, RoleStep, LockSteps, ReceiptStarts, ReceiptEnds, AtTheGate, vars

LEMMA TypeStep ==
    ASSUME TypeOK, LockInv, RoleInv, [Next]_vars
    PROVE  TypeOK' /\ LockInv'
BY LockMoves, LockStep, HostTypeStep, WindowTypeStep, RoleTypeStep DEF TypeOK

-----------------------------------------------------------------------------
(* The role. A step of it, or of its play, is taken by the holder alone.   *)

RoleOnly ==
    AtTheGate \/ Admitted \/ Refused \/ AssertsNoCreating \/ BacksUp \/ Swaps \/ Ups
        \/ ChecksHealth \/ WritesManifest \/ Restores \/ UpsAgain \/ ChecksAgain \/ Removes

LEMMA RoleStaysWithHolder ==
    ASSUME TypeOK, LockInv, RoleInv, [Next]_vars
    PROVE  RoleInv'
<1> USE DEF RoleInv
<1>1. CASE UNCHANGED <<play, step, at>>
    BY <1>1
<1>2. ASSUME NEW p \in Plays, NEW image \in Images, Deploy(p, image) PROVE RoleInv'
    <2>1. Begins(p, "deploy", image)
        BY <1>2 DEF Deploy
    <2>2. CASE Reconciles(p, image)
        BY <2>2 DEF Reconciles, RoleEnds
    <2>3. CASE EntersWindow
        BY <2>1, <2>3, BeginFacts DEF EntersWindow, lockVars
    <2> QED BY <1>2, <2>2, <2>3 DEF Deploy
<1>3. ASSUME NEW p \in Plays, NEW image \in Images, Rollback(p, image) PROVE RoleInv'
    <2>1. Begins(p, "rollback", image) /\ EntersWindow
        BY <1>3 DEF Rollback
    <2> QED BY <2>1, BeginFacts DEF EntersWindow, lockVars
<1>4. ASSUME NEW p \in Plays, Refuses(p) \/ AdapterRole(p) PROVE RoleInv'
    BY <1>4 DEF Refuses, AdapterRole, RoleEnds
<1>5. ASSUME NEW p \in Plays, Acquires(p) \/ Releases(p), UNCHANGED <<play, step>>
      PROVE  RoleInv'
    <2>1. at[p] # "holding"
        BY <1>5 DEF Acquires, Releases, MakesDir, WritesToken, WritesMetadata, Unlinks,
                    UnlinksToken, RemovesDir, Becomes
    <2>2. \A q \in Plays : q # p => at'[q] = at[q]
        BY <1>5 DEF Acquires, Releases, MakesDir, WritesToken, WritesMetadata, Unlinks,
                    UnlinksToken, RemovesDir, Becomes, TypeOK, LockTypeOK
    <2> QED BY <1>5, <2>1, <2>2
<1>6. ASSUME NEW p \in Plays, PlayDies(p) PROVE RoleInv'
    <2>1. CASE at[p] = "holding"
        BY <1>6, <2>1 DEF PlayDies
    <2>2. CASE at[p] # "holding"
        BY <1>6, <2>2 DEF PlayDies, Dies, TypeOK, LockTypeOK
    <2> QED BY <2>1, <2>2
<1>7. CASE ReleasesWindow
    BY <1>7 DEF ReleasesWindow
<1>8. CASE RoleOnly
    <2>1. UNCHANGED <<at, play>> \/ BacksUp
        BY <1>8 DEF RoleOnly, AtTheGate, Admitted, Refused, AssertsNoCreating, Swaps, Ups,
                    ChecksHealth, WritesManifest, Restores, UpsAgain, ChecksAgain, Removes,
                    Stays, lockVars
    <2>2. BacksUp => at' = at /\ play'.by = play.by /\ play'.to = play.to
        BY DEF BacksUp, Stays, lockVars, TypeOK, RoleTypeOK
    <2>3. step # "idle"
        BY <1>8 DEF RoleOnly, AtTheGate, Admitted, Refused, AssertsNoCreating, BacksUp, Swaps,
                    Ups, ChecksHealth, WritesManifest, Restores, UpsAgain, ChecksAgain, Removes
    <2> QED BY <2>1, <2>2, <2>3
<1> QED
    BY <1>1, <1>2, <1>3, <1>4, <1>5, <1>6, <1>7, <1>8
    DEF Next, RoleStep, RoleOnly, LockSteps, OperatorRemovesLock, OperatorActs,
        ReceiptStarts, ReceiptEnds, lockVars, vars

(* Away from its steps the role is in its first step or over.              *)
LEMMA OutsideRole ==
    ASSUME TypeOK, LockInv, RoleInv, [Next]_vars
    PROVE  \/ RoleOnly
           \/ step' = "idle"
           \/ step' = "window" /\ ~facts'.replaced /\ ~facts'.started
           \/ UNCHANGED <<play, step, result, facts, rescueFailed, host>>
<1>1. ASSUME NEW p \in Plays, NEW image \in Images, Deploy(p, image) \/ Rollback(p, image)
      PROVE  step' = "idle" \/ (step' = "window" /\ ~facts'.replaced /\ ~facts'.started)
    BY <1>1, BeginFacts DEF Deploy, Rollback, Reconciles, RoleEnds, EntersWindow
<1>2. ASSUME NEW p \in Plays, Refuses(p) \/ AdapterRole(p) PROVE step' = "idle"
    BY <1>2 DEF Refuses, AdapterRole, RoleEnds
<1>3. ASSUME NEW p \in Plays, PlayDies(p)
      PROVE  step' = "idle" \/ UNCHANGED <<play, step, result, facts, rescueFailed, host>>
    BY <1>3 DEF PlayDies
<1>4. CASE ReleasesWindow
    BY <1>4 DEF ReleasesWindow
<1> QED
    BY <1>1, <1>2, <1>3, <1>4
    DEF Next, RoleStep, RoleOnly, LockSteps, OperatorActs, ReceiptStarts, ReceiptEnds, vars

LEMMA FactsStep ==
    ASSUME TypeOK, LockInv, RoleInv, FactsInv, [Next]_vars
    PROVE  FactsInv'
<1> USE DEF FactsInv
<1>0. facts \in [replaced : BOOLEAN, started : BOOLEAN]
    BY DEF TypeOK, RoleTypeOK
<1>1. CASE step' = "idle"
    BY <1>1
<1>2. CASE step' = "window" /\ ~facts'.replaced /\ ~facts'.started
    BY <1>2
<1>3. CASE UNCHANGED <<play, step, result, facts>>
    BY <1>3
<1>4. CASE AtTheGate \/ Admitted \/ Refused
    BY <1>4 DEF AtTheGate, Admitted, Refused
<1>5. CASE AssertsNoCreating
    BY <1>5 DEF AssertsNoCreating, GoesOn, CommandFails, Rescue
<1>6. CASE BacksUp
    <2>1. CASE Restorable /\ play' = [play EXCEPT !.compose = compose] /\ GoesOn("swap")
        BY <1>6, <2>1 DEF BacksUp, GoesOn, Restorable, TypeOK, RoleTypeOK
    <2>2. CASE Rescue /\ UNCHANGED play
        BY <1>6, <2>2 DEF BacksUp, Rescue
    <2> QED BY <1>6, <2>1, <2>2 DEF BacksUp, CommandFails
<1>7. CASE Swaps
    <2>1. CASE facts' = [facts EXCEPT !.replaced = TRUE] /\ step' = "up" /\ UNCHANGED result
        BY <1>0, <1>7, <2>1 DEF Swaps
    <2>2. CASE Rescue
        BY <1>7, <2>2 DEF Swaps, Rescue
    <2> QED BY <1>7, <2>1, <2>2 DEF Swaps, CommandFails
<1>8. CASE Ups
    <2>1. CASE facts' = [facts EXCEPT !.started = TRUE] /\ step' = "health" /\ UNCHANGED result
        BY <1>0, <1>8, <2>1 DEF Ups
    <2>2. CASE Rescue
        BY <1>8, <2>2 DEF Ups, Rescue
    <2> QED BY <1>8, <2>1, <2>2 DEF Ups, CommandFails
<1>9. CASE ChecksHealth
    BY <1>9 DEF ChecksHealth, GoesOn, CommandFails, Rescue
<1>10. CASE WritesManifest
    BY <1>10 DEF WritesManifest, CommandFails, Rescue
<1>11. CASE Restores \/ UpsAgain \/ ChecksAgain \/ Removes
    BY <1>11 DEF Restores, UpsAgain, ChecksAgain, Removes, GoesOn, RescueTaskFails
<1> QED
    BY <1>1, <1>2, <1>3, <1>4, <1>5, <1>6, <1>7, <1>8, <1>9, <1>10, <1>11, OutsideRole
    DEF RoleOnly

LEMMA HostStep ==
    ASSUME TypeOK, LockInv, RoleInv, FactsInv, HostInv, CutoverIsAllOrNothing, [Next]_vars
    PROVE  HostInv' /\ CutoverIsAllOrNothing'
<1> USE DEF HostInv, CutoverIsAllOrNothing
<1>1. CASE step' \in {"idle", "window"}
    BY <1>1
<1>2. CASE UNCHANGED <<play, step, result, facts, rescueFailed, host>>
    BY <1>2 DEF host
<1>3. CASE AtTheGate \/ Admitted
    BY <1>3 DEF AtTheGate, Admitted, host
<1>4. CASE Refused
    BY <1>4 DEF Refused, FactsInv
<1>5. ASSUME Rescue, UNCHANGED play
      PROVE  /\ step' = "release" => ~facts.replaced \/ play.compose = NoImage
             /\ step' \in {"restore", "remove", "release"}
             /\ result' = "failed" /\ UNCHANGED facts
             /\ step' = "release" => ~(facts.started /\ ~play.had /\ play.job = "deploy")
    BY <1>5 DEF Rescue
<1>6. ASSUME Rescue, UNCHANGED play,
             facts.replaced /\ play.job = "deploy" /\ play.had => play.compose # NoImage
      PROVE  HostInv' /\ CutoverIsAllOrNothing'
    BY <1>5, <1>6
<1>7. CASE AssertsNoCreating
    <2>1. CASE GoesOn("backup")
        BY <1>7, <2>1 DEF GoesOn
    <2>2. CASE Rescue
        BY <1>6, <1>7, <2>2 DEF AssertsNoCreating, FactsInv
    <2> QED BY <1>7, <2>1, <2>2 DEF AssertsNoCreating, CommandFails
<1>8. CASE BacksUp
    <2>1. CASE GoesOn("swap")
        BY <1>8, <2>1 DEF GoesOn
    <2>2. CASE Rescue /\ UNCHANGED play
        BY <1>6, <1>8, <2>2 DEF BacksUp, FactsInv
    <2> QED BY <1>8, <2>1, <2>2 DEF BacksUp, CommandFails
<1>9. CASE Swaps
    <2>1. CASE compose' = play.to /\ step' = "up"
        BY <1>9, <2>1 DEF Swaps
    <2>2. CASE Rescue
        BY <1>6, <1>9, <2>2 DEF Swaps, FactsInv
    <2> QED BY <1>9, <2>1, <2>2 DEF Swaps, CommandFails
<1>10. CASE Ups
    <2>1. ASSUME NEW up \in BOOLEAN, Recreates(compose, up), step' = "health"
          PROVE  HostInv' /\ CutoverIsAllOrNothing'
        BY <1>10, <2>1 DEF Ups, Recreates
    <2>2. CASE Rescue
        BY <1>6, <1>10, <2>2 DEF Ups, FactsInv
    <2> QED BY <1>10, <2>1, <2>2 DEF Ups, CommandFails
<1>11. CASE ChecksHealth
    <2>1. CASE container.up /\ GoesOn("manifest")
        <3>1. container # Container(play.to, FALSE)
            BY <2>1 DEF Container
        <3> QED BY <1>11, <2>1, <3>1 DEF ChecksHealth, GoesOn, host
    <2>2. CASE Rescue
        BY <1>6, <1>11, <2>2 DEF ChecksHealth, FactsInv
    <2> QED BY <1>11, <2>1, <2>2 DEF ChecksHealth, CommandFails
<1>12. CASE WritesManifest
    <2>1. CASE manifest' = NewManifest /\ step' = "release" /\ result' = "ok"
        BY <1>12, <2>1 DEF WritesManifest, NewManifest
    <2>2. CASE Rescue
        BY <1>6, <1>12, <2>2 DEF WritesManifest, FactsInv
    <2> QED BY <1>12, <2>1, <2>2 DEF WritesManifest, CommandFails
<1>13. CASE Restores
    BY <1>13 DEF Restores, GoesOn, RescueTaskFails, FactsInv
<1>14. CASE UpsAgain
    <2>1. CASE Recreates(compose, TRUE) /\ GoesOn("recheck")
        BY <1>14, <2>1 DEF UpsAgain, Recreates, GoesOn
    <2>2. CASE RescueTaskFails
        BY <1>14, <2>2 DEF UpsAgain, RescueTaskFails, FactsInv
    <2> QED BY <1>14, <2>1, <2>2 DEF UpsAgain
<1>15. CASE ChecksAgain
    BY <1>15 DEF ChecksAgain, GoesOn, RescueTaskFails, FactsInv, host
<1>16. CASE Removes
    BY <1>16 DEF Removes, GoesOn, RescueTaskFails, FactsInv
<1> QED
    BY <1>1, <1>2, <1>3, <1>4, <1>7, <1>8, <1>9, <1>10, <1>11, <1>12, <1>13, <1>14, <1>15,
       <1>16, OutsideRole DEF RoleOnly

LEMMA FlightStep ==
    ASSUME TypeOK, LockInv, RoleInv, FactsInv, FlightInv, [Next]_vars
    PROVE  FlightInv'
<1> USE DEF FlightInv, Paused
<1>1. CASE step' \in {"idle", "window"}
    BY <1>1
<1>2. CASE UNCHANGED <<spool, flight, step, resumed>>
    BY <1>2
<1>3. CASE OperatorActs
    BY <1>3 DEF OperatorActs, OperatorPauses, OperatorResumes
<1>4. CASE ReceiptStarts \/ ReceiptEnds
    BY <1>4 DEF ReceiptStarts, ReceiptEnds, windowVars
<1>5. CASE Admitted
    BY <1>5 DEF Admitted, GateAcquires
<1>6. CASE Refused
    BY <1>6 DEF Refused
<1>7. CASE AssertsNoCreating
    <2>1. CASE flight # "creating" /\ GoesOn("backup")
        BY <1>7, <2>1 DEF AssertsNoCreating, Stays, windowVars, GoesOn
    <2>2. CASE Rescue
        BY <1>7, <2>2 DEF AssertsNoCreating, Rescue, FactsInv
    <2> QED BY <1>7, <2>1, <2>2 DEF AssertsNoCreating, CommandFails
<1>8. CASE BacksUp \/ Swaps \/ Ups \/ ChecksHealth \/ WritesManifest \/ Restores \/ UpsAgain
               \/ ChecksAgain \/ Removes
    <2>1. UNCHANGED <<spool, resumed>>
        BY <1>8 DEF BacksUp, Swaps, Ups, ChecksHealth, WritesManifest, Restores, UpsAgain,
                    ChecksAgain, Removes, Stays, windowVars
    <2>2. flight' \in {flight, "none"}
        BY <1>8 DEF BacksUp, Swaps, Ups, ChecksHealth, WritesManifest, Restores, UpsAgain,
                    ChecksAgain, Removes, Recreates
    <2>3. step \notin {"idle", "window", "assert", "release"}
        BY <1>8 DEF BacksUp, Swaps, Ups, ChecksHealth, WritesManifest, Restores, UpsAgain,
                    ChecksAgain, Removes
    <2> QED BY <2>1, <2>2, <2>3
<1>9. CASE LockSteps
    BY <1>9 DEF LockSteps, windowVars
<1>10. CASE AtTheGate
    BY <1>10 DEF AtTheGate
<1>11. ASSUME NEW p \in Plays, NEW image \in Images, Deploy(p, image) \/ Rollback(p, image)
       PROVE  step' \in {"idle", "window"}
    BY <1>11 DEF Deploy, Rollback, Reconciles, RoleEnds, EntersWindow
<1>12. ASSUME NEW p \in Plays, Refuses(p) \/ AdapterRole(p) PROVE step' = "idle"
    BY <1>12 DEF Refuses, AdapterRole, RoleEnds
<1>13. ASSUME NEW p \in Plays, PlayDies(p)
       PROVE  step' = "idle" \/ UNCHANGED <<spool, flight, step, resumed>>
    BY <1>13 DEF PlayDies
<1>14. CASE ReleasesWindow
    BY <1>14 DEF ReleasesWindow
<1>15. CASE UNCHANGED vars
    BY <1>15 DEF vars, windowVars
<1> QED
    BY <1>1, <1>2, <1>3, <1>4, <1>5, <1>6, <1>7, <1>8, <1>9, <1>10, <1>11, <1>12, <1>13,
       <1>14, <1>15 DEF Next, RoleStep

-----------------------------------------------------------------------------
(* The theorems.                                                           *)

LEMMA InvInit == Init => Inv
<1> SUFFICES ASSUME Init PROVE Inv
    OBVIOUS
<1>1. LockInv
    BY DEF Init, LockInit, LockInv, AtWork
<1> QED
    BY <1>1, TypeInit DEF Init, Inv, RoleInv, FactsInv, HostInv, FlightInv, CutoverIsAllOrNothing

LEMMA InvStep == Inv /\ [Next]_vars => Inv'
BY TypeStep, RoleStaysWithHolder, FactsStep, HostStep, FlightStep DEF Inv

LEMMA Invariance == Spec => []Inv
BY InvInit, InvStep, PTL DEF Spec

(* Every variable of the lock, the host and the role keeps its type.       *)
THEOREM TypeCorrect == Spec => []TypeOK
<1>1. Inv => TypeOK
    BY DEF Inv
<1> QED BY <1>1, Invariance, PTL

(* deploy_lock.py lets one play at a time change the host, which finds its *)
(* own token in the directory, however many race, die and are cleaned up   *)
(* after.                                                                  *)
THEOREM OnePlay == Spec => []OneOperator
<1>1. Inv => OneOperator
    BY LockIsExclusive DEF Inv
<1> QED BY <1>1, Invariance, PTL

(* A cutover ends with the new service or with the previous one, unless    *)
(* its rescue failed too, wherever the one before it was cut off.          *)
THEOREM AllOrNothing == Spec => []CutoverIsAllOrNothing
<1>1. Inv => CutoverIsAllOrNothing
    BY DEF Inv
<1> QED BY <1>1, Invariance, PTL

(* No step of a play replaces or removes the process that works on a       *)
(* receipt in creation, while the gate keeps the spool paused.             *)
THEOREM CreatingSurvives == Spec => CreatingSurvivesCutover
<1> DEFINE Survives == flight = "creating" /\ step' # step /\ ~resumed => flight' = "creating"
<1>1. Inv /\ [Next]_vars => [Survives]_vars
    <2> SUFFICES ASSUME Inv, [Next]_vars, flight' # flight, step' # step, ~resumed
                 PROVE  flight # "creating"
        OBVIOUS
    <2>1. Ups \/ UpsAgain \/ Removes
        BY DEF Next, RoleStep, LockSteps, OperatorActs, ReceiptStarts, ReceiptEnds, Deploy,
               Rollback, Begins, Refuses, AdapterRole, PlayDies, AtTheGate, Admitted, Refused,
               AssertsNoCreating, BacksUp, Swaps, ChecksHealth, WritesManifest, Restores,
               ChecksAgain, ReleasesWindow, vars
    <2> QED BY <2>1 DEF Ups, UpsAgain, Removes, Inv, FlightInv
<1> QED BY <1>1, Invariance, PTL DEF Spec, CreatingSurvivesCutover
=============================================================================
