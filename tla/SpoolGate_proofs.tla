--------------------------- MODULE SpoolGate_proofs ---------------------------
(***************************************************************************)
(* Theorems about SpoolGate, for any processes the spool may start and any *)
(* numbers of probes and attempts.                                         *)
(***************************************************************************)
EXTENDS SpoolGate, TLAPS

(* A pause of the gate is known to the gate, and nobody else ends it while *)
(* the play runs. `byGate` claims a pause that may not be there only after *)
(* an undoing that could not be verified.                                  *)
PauseIsOwned ==
    spool = "pausedByGate" =>
        /\ byGate
        /\ pc \in {"confirming", "reprobing", "undoing", "working", "releasing", "ended"}
        /\ pc = "ended" => alarm

ClaimIsTrue ==
    /\ byGate /\ pc \in {"confirming", "reprobing", "undoing", "working"}
           => spool = "pausedByGate"
    /\ byGate /\ pc = "releasing" /\ acquired => spool = "pausedByGate"

AttemptIsFresh ==
    /\ pc \in {"probing", "inspecting", "pausing"} => ~byGate
    /\ pc \in {"undoing", "verifying"} => byGate
    /\ acquired => pc \in {"working", "releasing", "released", "ended"}

(* What an earlier operation left is not claimed.                          *)
LeftIsNotOwned == spool = "leftPaused" => ~byGate

(* What the confirmation saw lasts until the operator resumes.             *)
PauseLasts == pc \in {"reprobing", "working"} /\ ~resumed => Paused

Ownership == PauseIsOwned /\ ClaimIsTrue /\ AttemptIsFresh /\ LeftIsNotOwned

Inv == TypeOK /\ Ownership /\ PauseLasts /\ WindowIsQuiet

-----------------------------------------------------------------------------
(* Types.                                                                  *)

LEMMA TypeInit == Init => TypeOK
<1>1. 1 \in 1..GateAttempts /\ 0 \in 0..(QuietRetries - 1)
    BY GateAssumption
<1> QED BY <1>1 DEF Init, TypeOK

(* The three ways an attempt ends keep the types of the gate.              *)
LEMMA AttemptEndsType ==
    ASSUME TypeOK, UNCHANGED <<spool, cgis, alarm, resumed>>,
           \/ GateFails(TRUE) \/ GateFails(FALSE)
           \/ NextAttempt
           \/ Undo(TRUE) \/ Undo(FALSE)
    PROVE  TypeOK'
<1>1. CASE GateFails(TRUE) \/ GateFails(FALSE)
    BY <1>1 DEF TypeOK, GateFails
<1>2. CASE NextAttempt
    <2>1. attempt < GateAttempts => attempt + 1 \in 1..GateAttempts
        BY GateAssumption DEF TypeOK
    <2>2. 0 \in 0..(QuietRetries - 1)
        BY GateAssumption
    <2> QED BY <1>2, <2>1, <2>2 DEF TypeOK, NextAttempt, GateFails
<1>3. CASE Undo(TRUE) \/ Undo(FALSE)
    BY <1>3 DEF TypeOK, Undo
<1> QED BY <1>1, <1>2, <1>3

LEMMA TypeStep == TypeOK /\ [Next]_vars => TypeOK'
<1> SUFFICES ASSUME TypeOK, [Next]_vars PROVE TypeOK'
    OBVIOUS
<1>1. ASSUME NEW p \in Procs, CgiStarts(p) \/ CgiEnds(p) PROVE TypeOK'
    BY <1>1 DEF TypeOK, CgiStarts, CgiEnds, gate
<1>2. CASE OperatorPauses \/ OperatorResumes
    BY <1>2 DEF TypeOK, OperatorPauses, OperatorResumes, gate
<1>3. CASE ProbeIsQuiet
    BY <1>3 DEF TypeOK, ProbeIsQuiet, gate
<1>4. CASE ProbeIsBusy
    <2>1. CASE probes + 1 < QuietRetries
        BY <1>4, <2>1, GateAssumption DEF TypeOK, ProbeIsBusy
    <2>2. CASE ~(probes + 1 < QuietRetries)
        BY <1>4, <2>2, AttemptEndsType DEF ProbeIsBusy
    <2> QED BY <2>1, <2>2
<1>5. CASE Inspect
    BY <1>5 DEF TypeOK, Inspect, GateFails, gate
<1>6. CASE Pause
    BY <1>6 DEF TypeOK, Pause, GateFails
<1>7. CASE Confirm
    <2>1. CASE Paused /\ pc' = "reprobing" /\ UNCHANGED gate
        BY <1>7, <2>1 DEF TypeOK, Confirm, gate
    <2>2. CASE IF byGate THEN Undo(FALSE) ELSE GateFails(FALSE)
        BY <1>7, <2>2, AttemptEndsType DEF Confirm
    <2> QED BY <1>7, <2>1, <2>2 DEF Confirm
<1>8. CASE ReprobeIsQuiet
    BY <1>8 DEF TypeOK, ReprobeIsQuiet
<1>9. CASE ReprobeIsBusy
    BY <1>9, AttemptEndsType DEF ReprobeIsBusy
<1>10. CASE Unpause
    BY <1>10 DEF TypeOK, Unpause, GateFails, gate
<1>11. CASE VerifyUnpaused
    BY <1>11, AttemptEndsType DEF VerifyUnpaused
<1>12. CASE Work
    BY <1>12 DEF TypeOK, Work, gate
<1>13. CASE Release
    BY <1>13 DEF TypeOK, Release, gate
<1>14. CASE VerifyReleased
    BY <1>14 DEF TypeOK, VerifyReleased, gate
<1>15. CASE UNCHANGED vars
    BY <1>15 DEF TypeOK, vars, gate
<1> QED
    BY <1>1, <1>2, <1>3, <1>4, <1>5, <1>6, <1>7, <1>8, <1>9, <1>10, <1>11,
       <1>12, <1>13, <1>14, <1>15 DEF Next, OperationStep, GateStep

(* Every variable keeps its type: the attempts and probes of               *)
(* spool_cutover_gate.py stay within their bounds, whatever these are.     *)
THEOREM TypeCorrect == Spec => []TypeOK
BY TypeInit, TypeStep, PTL DEF Spec

-----------------------------------------------------------------------------
(* The invariant.                                                          *)

LEMMA InvInit == Init => Inv
BY TypeInit DEF Init, Inv, Ownership, PauseIsOwned, ClaimIsTrue, AttemptIsFresh,
                LeftIsNotOwned, PauseLasts, WindowIsQuiet

LEMMA OwnershipStep == TypeOK /\ Ownership /\ [Next]_vars => Ownership'
<1> SUFFICES ASSUME TypeOK, Ownership, [Next]_vars PROVE Ownership'
    OBVIOUS
<1> USE DEF Ownership, PauseIsOwned, ClaimIsTrue, AttemptIsFresh, LeftIsNotOwned
<1>1. ASSUME NEW p \in Procs, CgiStarts(p) \/ CgiEnds(p) PROVE Ownership'
    BY <1>1 DEF CgiStarts, CgiEnds, gate
<1>2. CASE OperatorPauses \/ OperatorResumes
    BY <1>2 DEF OperatorPauses, OperatorResumes, Paused, gate
<1>3. CASE ProbeIsQuiet
    BY <1>3 DEF ProbeIsQuiet, gate
<1>4. CASE ProbeIsBusy
    BY <1>4 DEF ProbeIsBusy, GateFails
<1>5. CASE Inspect
    BY <1>5 DEF Inspect, GateFails, gate
<1>6. CASE Pause
    BY <1>6 DEF Pause, GateFails
<1>7. CASE Confirm
    BY <1>7 DEF Confirm, Undo, GateFails, gate
<1>8. CASE ReprobeIsQuiet
    BY <1>8 DEF ReprobeIsQuiet
<1>9. CASE ReprobeIsBusy
    <2>1. CASE byGate
        BY <1>9, <2>1 DEF ReprobeIsBusy, Undo
    <2>2. CASE ~byGate
        BY <1>9, <2>2 DEF ReprobeIsBusy, NextAttempt, GateFails
    <2> QED BY <2>1, <2>2
<1>10. CASE Unpause
    <2>1. CASE GateFails(TRUE) /\ UNCHANGED spool
        BY <1>10, <2>1 DEF Unpause, GateFails
    <2>2. CASE spool' = "running" /\ pc' = "verifying" /\ UNCHANGED gate
        BY <1>10, <2>2 DEF Unpause, gate
    <2> QED BY <1>10, <2>1, <2>2 DEF Unpause
<1>11. CASE VerifyUnpaused
    BY <1>11 DEF VerifyUnpaused, NextAttempt, GateFails
<1>12. CASE Work
    BY <1>12 DEF Work, gate
<1>13. CASE Release
    BY <1>13 DEF Release, gate
<1>14. CASE VerifyReleased
    BY <1>14 DEF VerifyReleased, gate
<1>15. CASE UNCHANGED vars
    BY <1>15 DEF vars, gate
<1> QED
    BY <1>1, <1>2, <1>3, <1>4, <1>5, <1>6, <1>7, <1>8, <1>9, <1>10, <1>11,
       <1>12, <1>13, <1>14, <1>15 DEF Next, OperationStep, GateStep

LEMMA QuietStep == Inv /\ [Next]_vars => (PauseLasts /\ WindowIsQuiet)'
<1> SUFFICES ASSUME Inv, [Next]_vars PROVE (PauseLasts /\ WindowIsQuiet)'
    OBVIOUS
<1> USE DEF Inv, Ownership, ClaimIsTrue, PauseLasts, WindowIsQuiet, Paused
<1>1. ASSUME NEW p \in Procs, CgiStarts(p) \/ CgiEnds(p)
      PROVE  (PauseLasts /\ WindowIsQuiet)'
    BY <1>1 DEF CgiStarts, CgiEnds, gate
<1>2. CASE OperatorPauses \/ OperatorResumes
    BY <1>2 DEF OperatorPauses, OperatorResumes, gate
<1>3. CASE ProbeIsQuiet \/ ProbeIsBusy \/ Inspect \/ Pause
    BY <1>3 DEF ProbeIsQuiet, ProbeIsBusy, Inspect, Pause, GateFails, gate
<1>4. CASE Confirm
    BY <1>4 DEF Confirm, Undo, GateFails, gate
<1>5. CASE ReprobeIsQuiet
    BY <1>5 DEF ReprobeIsQuiet
<1>6. CASE ReprobeIsBusy \/ Unpause \/ VerifyUnpaused
    BY <1>6 DEF ReprobeIsBusy, Unpause, VerifyUnpaused, Undo, NextAttempt,
                GateFails, gate
<1>7. CASE Work \/ Release \/ VerifyReleased
    BY <1>7 DEF Work, Release, VerifyReleased, gate
<1>8. CASE UNCHANGED vars
    BY <1>8 DEF vars, gate
<1> QED
    BY <1>1, <1>2, <1>3, <1>4, <1>5, <1>6, <1>7, <1>8
    DEF Next, OperationStep, GateStep

LEMMA Invariance == Spec => []Inv
<1>1. Inv /\ [Next]_vars => Inv'
    BY TypeStep, OwnershipStep, QuietStep DEF Inv
<1> QED BY InvInit, <1>1, PTL DEF Spec

(* Behind an acquired gate no CGI runs and none can start, unless the      *)
(* operator resumes a pause of his own: main in spool_cutover_gate.py,     *)
(* however many processes, probes and attempts there are.                  *)
THEOREM QuietWindow == Spec => []WindowIsQuiet
BY Invariance, PTL DEF Inv

(* A pause of the gate outlives the operation only with a failed play.     *)
THEOREM PausesAreReported == Spec => []LeftPausedLoudly
<1>1. Inv => LeftPausedLoudly
    BY DEF Inv, Ownership, PauseIsOwned, LeftPausedLoudly
<1> QED BY <1>1, Invariance, PTL

(* The operation ends a pause that is not the gate's only if it is one of  *)
(* the operator, after an undoing that could not be verified.              *)
THEOREM RespectsOperator == Spec => OperatorPauseRespected
<1> DEFINE Respects == Paused /\ spool' = "running" /\ pc' # pc
                           => \/ spool = "pausedByGate"
                              \/ spool = "pausedByOperator" /\ byGate /\ ~acquired
<1>1. Inv /\ [Next]_vars => [Respects]_vars
    <2> SUFFICES ASSUME Inv, [Next]_vars,
                        Paused, spool' = "running", pc' # pc
                 PROVE  \/ spool = "pausedByGate"
                        \/ spool = "pausedByOperator" /\ byGate /\ ~acquired
        OBVIOUS
    <2>0. spool \in {"pausedByGate", "pausedByOperator", "leftPaused"}
        BY DEF Inv, TypeOK, Paused
    <2>1. Unpause \/ Release
        BY DEF Next, OperationStep, GateStep, CgiStarts, CgiEnds, OperatorPauses,
               OperatorResumes, ProbeIsQuiet, ProbeIsBusy, Inspect, Pause, Confirm,
               ReprobeIsQuiet, ReprobeIsBusy, VerifyUnpaused, Work,
               VerifyReleased, Paused, vars
    <2>2. CASE Unpause
        BY <2>0, <2>2 DEF Unpause, Inv, Ownership, ClaimIsTrue, AttemptIsFresh
    <2>3. CASE Release
        BY <2>0, <2>3 DEF Release, Inv, Ownership, ClaimIsTrue, LeftIsNotOwned
    <2> QED BY <2>1, <2>2, <2>3
<1> QED BY <1>1, Invariance, PTL DEF Spec, OperatorPauseRespected

-----------------------------------------------------------------------------
(* The refinement.                                                         *)

(* The steps of the promise, written over the gate.                        *)
LEMMA WindowActions ==
    /\ Window!OperatorPauses <=> /\ spool = "running" /\ spool' = "pausedByOperator"
                                 /\ UNCHANGED <<WindowState, PausedByOperation>>
    /\ Window!OperatorResumes <=>
            /\ spool # "running" /\ (spool = "pausedByGate" => WindowState = "closed")
            /\ spool' = "running" /\ UNCHANGED <<WindowState, PausedByOperation>>
    /\ Window!GatePauses <=> /\ WindowState = "acquiring" /\ spool = "running"
                             /\ spool' = "pausedByGate"
                             /\ UNCHANGED <<WindowState, PausedByOperation>>
    /\ Window!GateUndoes <=> /\ WindowState = "acquiring" /\ spool = "pausedByGate"
                             /\ spool' = "running"
                             /\ UNCHANGED <<WindowState, PausedByOperation>>
    /\ Window!GateAcquires <=> /\ WindowState = "acquiring" /\ WindowState' = "open"
                               /\ PausedByOperation' = (spool = "pausedByGate")
                               /\ UNCHANGED spool
    /\ Window!GateGivesUp <=> /\ WindowState = "acquiring" /\ WindowState' = "releasing"
                              /\ PausedByOperation' \in { owned \in BOOLEAN :
                                                    /\ spool = "pausedByGate" => owned
                                                    /\ spool = "leftPaused" => ~owned }
                              /\ UNCHANGED spool
    /\ Window!WorkEnds <=> /\ WindowState = "open" /\ WindowState' = "releasing"
                           /\ UNCHANGED <<spool, PausedByOperation>>
    /\ Window!Unpauses <=> /\ WindowState = "releasing" /\ PausedByOperation /\ spool # "running"
                           /\ spool' = "running" /\ UNCHANGED <<WindowState, PausedByOperation>>
    /\ Window!WindowCloses <=> /\ WindowState = "releasing" /\ WindowState' = "closed"
                               /\ UNCHANGED <<spool, PausedByOperation>>
BY DEF Window!OperatorPauses, Window!OperatorResumes, Window!GatePauses,
       Window!GateUndoes, Window!GateAcquires, Window!GateGivesUp, Window!WorkEnds,
       Window!Unpauses, Window!WindowCloses, Window!Paused, WindowState, PausedByOperation

LEMMA WindowNextIs ==
    ASSUME \/ Window!OperatorPauses \/ Window!OperatorResumes
           \/ Window!GatePauses \/ Window!GateUndoes \/ Window!GateAcquires
           \/ Window!GateGivesUp \/ Window!WorkEnds \/ Window!Unpauses
           \/ Window!WindowCloses
           \/ UNCHANGED <<spool, WindowState, PausedByOperation>>
    PROVE  [Window!WindowNext]_(Window!windowVars)
BY DEF Window!WindowNext, Window!windowVars, WindowState, PausedByOperation

LEMMA WindowStep == Inv /\ [Next]_vars /\ Inv' => [Window!WindowNext]_(Window!windowVars)
<1> SUFFICES ASSUME Inv, [Next]_vars, Inv'
             PROVE  [Window!WindowNext]_(Window!windowVars)
    OBVIOUS
<1> USE DEF WindowState, PausedByOperation, Inv, Ownership, PauseIsOwned, ClaimIsTrue,
            AttemptIsFresh, LeftIsNotOwned
<1> DEFINE Same == UNCHANGED <<spool, WindowState, PausedByOperation>>
           Promised ==
             \/ Window!OperatorPauses \/ Window!OperatorResumes
             \/ Window!GatePauses \/ Window!GateUndoes \/ Window!GateAcquires
             \/ Window!GateGivesUp \/ Window!WorkEnds \/ Window!Unpauses
             \/ Window!WindowCloses
<1> SUFFICES Same \/ Promised
    BY WindowNextIs
<1>1. ASSUME NEW p \in Procs, CgiStarts(p) \/ CgiEnds(p) PROVE Same \/ Promised
    BY <1>1 DEF CgiStarts, CgiEnds, gate
<1>2. CASE OperatorPauses
    BY <1>2, WindowActions DEF OperatorPauses, Paused, gate
<1>3. CASE OperatorResumes
    BY <1>3, WindowActions DEF OperatorResumes, Paused, gate
<1>4. ASSUME GateFails(TRUE) \/ GateFails(FALSE), UNCHANGED spool,
             pc \notin {"working", "releasing", "released", "ended"}
      PROVE  Window!GateGivesUp
    BY <1>4, WindowActions DEF GateFails
<1>5. ASSUME NextAttempt, UNCHANGED spool,
             pc \notin {"working", "releasing", "released", "ended"}
      PROVE  Same \/ Window!GateGivesUp
    BY <1>4, <1>5 DEF NextAttempt
<1>6. CASE ProbeIsQuiet
    BY <1>6 DEF ProbeIsQuiet, gate
<1>7. CASE ProbeIsBusy
    <2>1. CASE probes + 1 < QuietRetries
        BY <1>7, <2>1 DEF ProbeIsBusy
    <2>2. CASE ~(probes + 1 < QuietRetries)
        BY <1>7, <2>2, <1>4 DEF ProbeIsBusy
    <2> QED BY <2>1, <2>2
<1>8. CASE Inspect
    <2>1. CASE GateFails(FALSE)
        BY <1>8, <2>1, <1>4 DEF Inspect
    <2>2. CASE ~GateFails(FALSE)
        BY <1>8, <2>2 DEF Inspect, gate
    <2> QED BY <2>1, <2>2
<1>9. CASE Pause
    <2>1. CASE GateFails(FALSE) /\ UNCHANGED spool
        BY <1>9, <2>1, <1>4 DEF Pause
    <2>2. CASE pc' = "confirming" /\ spool' = "pausedByGate"
        BY <1>9, <2>2, WindowActions DEF Pause, Paused
    <2> QED BY <1>9, <2>1, <2>2 DEF Pause
<1>10. CASE Confirm
    <2>1. CASE GateFails(FALSE)
        BY <1>10, <2>1, <1>4 DEF Confirm
    <2>2. CASE ~GateFails(FALSE)
        BY <1>10, <2>2 DEF Confirm, Undo, gate
    <2> QED BY <2>1, <2>2
<1>11. CASE ReprobeIsQuiet
    BY <1>11, WindowActions DEF ReprobeIsQuiet
<1>12. CASE ReprobeIsBusy
    BY <1>12, <1>5 DEF ReprobeIsBusy, Undo
<1>13. CASE Unpause
    <2>1. CASE GateFails(TRUE) /\ UNCHANGED spool
        BY <1>13, <2>1, <1>4 DEF Unpause
    <2>2. CASE pc' = "verifying" /\ spool' = "running" /\ UNCHANGED gate
        BY <1>13, <2>2, WindowActions DEF Unpause, gate
    <2> QED BY <1>13, <2>1, <2>2 DEF Unpause
<1>14. CASE VerifyUnpaused
    BY <1>14, <1>4, <1>5 DEF VerifyUnpaused
<1>15. CASE Work
    BY <1>15, WindowActions DEF Work, gate
<1>16. CASE Release
    BY <1>16, WindowActions DEF Release, Paused, gate
<1>17. CASE VerifyReleased
    BY <1>17, WindowActions DEF VerifyReleased, gate
<1>18. CASE UNCHANGED vars
    BY <1>18 DEF vars, gate
<1> QED
    BY <1>1, <1>2, <1>3, <1>6, <1>7, <1>8, <1>9, <1>10, <1>11, <1>12, <1>13,
       <1>14, <1>15, <1>16, <1>17, <1>18 DEF Next, OperationStep, GateStep

(* The script and the release keep the promise SpoolWindow makes to the    *)
(* roles: a pause that the gate reports as its own is its own, and nothing *)
(* else is resumed, for any bounds on probes and attempts.                 *)
THEOREM KeepsWindow == Spec => ImplementsWindow
<1>1. Init => Window!WindowInit
    BY DEF Init, Window!WindowInit, WindowState, PausedByOperation
<1> QED BY <1>1, WindowStep, Invariance, PTL DEF Spec, ImplementsWindow, Window!WindowSpec
=============================================================================
