------------------------------ MODULE SpoolWindow ------------------------------
(***************************************************************************)
(* What the gate and the release promise a role about the container        *)
(* shm-spool-1: who paused it, and who may resume it. SpoolGate, the       *)
(* script and its tasks command by command, implements it; the roles of    *)
(* the deployment are built over it.                                       *)
(*                                                                         *)
(* A window is closed, then the gate is acquiring it, then it is open (the *)
(* role does its work) and releasing, and closed again.                    *)
(***************************************************************************)
VARIABLES
    spool,          \* the container: running, or paused by whom; leftPaused
                    \* by the gate of an earlier operation
    window,
    byOperation     \* vff_fiscal_spool_paused_by_operation

windowVars == <<spool, window, byOperation>>

Paused == spool # "running"

WindowTypeOK ==
    /\ spool \in {"running", "pausedByGate", "pausedByOperator", "leftPaused"}
    /\ window \in {"closed", "acquiring", "open", "releasing"}
    /\ byOperation \in BOOLEAN

-----------------------------------------------------------------------------
(* The operator pauses the spool, and resumes a pause of his own or one    *)
(* that was left at any time, one of the gate only when it has no window.  *)
OperatorPauses ==
    /\ ~Paused
    /\ spool' = "pausedByOperator"
    /\ UNCHANGED <<window, byOperation>>

OperatorResumes ==
    /\ Paused
    /\ spool = "pausedByGate" => window = "closed"
    /\ spool' = "running"
    /\ UNCHANGED <<window, byOperation>>

-----------------------------------------------------------------------------
(* A pause that an earlier operation left is nobody's to the new one.      *)
AsksForWindow ==
    /\ window = "closed"
    /\ window' = "acquiring" /\ byOperation' = FALSE
    /\ spool' = IF spool = "pausedByGate" THEN "leftPaused" ELSE spool

(* An attempt of the gate, and its undoing.                                *)
GatePauses ==
    /\ window = "acquiring" /\ ~Paused
    /\ spool' = "pausedByGate"
    /\ UNCHANGED <<window, byOperation>>

GateUndoes ==
    /\ window = "acquiring" /\ spool = "pausedByGate"
    /\ spool' = "running"
    /\ UNCHANGED <<window, byOperation>>

(* The gate returns 0 and says truthfully whose the pause is.              *)
GateAcquires ==
    /\ window = "acquiring"
    /\ window' = "open" /\ byOperation' = (spool = "pausedByGate")
    /\ UNCHANGED spool

(* The gate returns 1. A pause it could not undo, or could not see undone, *)
(* is its own; one that was left when it began is not.                     *)
GateGivesUp ==
    /\ window = "acquiring"
    /\ window' = "releasing"
    /\ byOperation' \in { owned \in BOOLEAN : /\ spool = "pausedByGate" => owned
                                              /\ spool = "leftPaused" => ~owned }
    /\ UNCHANGED spool

WorkEnds ==
    /\ window = "open"
    /\ window' = "releasing"
    /\ UNCHANGED <<spool, byOperation>>

(* The release: what the operation paused, it may resume; or it leaves the *)
(* pause, and the play fails.                                              *)
Unpauses ==
    /\ window = "releasing" /\ byOperation /\ Paused
    /\ spool' = "running"
    /\ UNCHANGED <<window, byOperation>>

WindowCloses ==
    /\ window = "releasing"
    /\ window' = "closed"
    /\ UNCHANGED <<spool, byOperation>>

-----------------------------------------------------------------------------
WindowInit ==
    /\ spool \in {"running", "pausedByOperator", "leftPaused"}
    /\ window = "acquiring" /\ byOperation = FALSE

WindowNext ==
    \/ OperatorPauses \/ OperatorResumes
    \/ AsksForWindow
    \/ GatePauses \/ GateUndoes \/ GateAcquires \/ GateGivesUp
    \/ WorkEnds \/ Unpauses \/ WindowCloses

WindowSpec == WindowInit /\ [][WindowNext]_windowVars
=============================================================================
