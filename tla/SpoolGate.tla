------------------------------ MODULE SpoolGate ------------------------------
(***************************************************************************)
(* The gate through which a deployment goes before it touches the service  *)
(* or the live CGI (spool_cutover_gate.py), the work behind it, and the    *)
(* release (unpause_spool.yml). SHM's spool, a container, starts CGI       *)
(* processes whenever it is not paused; the gate waits until none runs,    *)
(* pauses the container, and looks again. An operator may pause the spool, *)
(* and resume a pause of his own, at any time; an earlier operation may    *)
(* have left its pause. Every docker command may fail, without effect.     *)
(*                                                                         *)
(* The operation is at                                                     *)
(*   probing     wait_quiet: docker top until no CGI runs                  *)
(*   inspecting  the state of the container, before the pause              *)
(*   pausing     docker pause                                              *)
(*   confirming  the state of the container, after it                      *)
(*   reprobing   docker top on the paused container                        *)
(*   undoing, verifying   unpause_and_verify after a failed attempt        *)
(*   working     the gate is acquired, the deployment does its work        *)
(*   releasing, released  unpause_spool.yml: docker unpause, then inspect  *)
(*   ended                                                                 *)
(***************************************************************************)
EXTENDS Integers

CONSTANTS
    Procs,          \* CGI processes the spool may start
    QuietRetries,   \* QUIET_RETRIES
    GateAttempts    \* GATE_ATTEMPTS

ASSUME GateAssumption ==
    QuietRetries \in Nat \ {0} /\ GateAttempts \in Nat \ {0}

VARIABLES
    spool,      \* the container: running, or paused by whom; leftPaused by
                \* the gate of an earlier operation
    cgis,       \* CGI processes in it
    pc,
    attempt,    \* of GATE_ATTEMPTS
    probes,     \* done in this wait_quiet
    byGate,     \* paused_by_gate; then vff_fiscal_spool_paused_by_operation
    again,      \* is the attempt undone for another one?
    acquired,   \* the gate has returned 0
    alarm       \* the release failed, and the play with it

(* History: the operator has resumed the spool since the gate inspected it.*)
VARIABLE resumed

gate == <<attempt, probes, byGate, again, acquired>>
vars == <<spool, cgis, pc, gate, alarm, resumed>>

Paused == spool # "running"

TypeOK ==
    /\ spool \in {"running", "pausedByGate", "pausedByOperator", "leftPaused"}
    /\ cgis \in SUBSET Procs
    /\ pc \in {"probing", "inspecting", "pausing", "confirming", "reprobing",
               "undoing", "verifying", "working", "releasing", "released",
               "ended"}
    /\ attempt \in 1..GateAttempts
    /\ probes \in 0..(QuietRetries - 1)
    /\ byGate \in BOOLEAN /\ again \in BOOLEAN /\ acquired \in BOOLEAN
    /\ alarm \in BOOLEAN /\ resumed \in BOOLEAN

Init ==
    /\ spool \in {"running", "pausedByOperator", "leftPaused"}
    /\ cgis \in SUBSET Procs
    /\ pc = "probing"
    /\ attempt = 1 /\ probes = 0
    /\ byGate = FALSE /\ again = FALSE /\ acquired = FALSE
    /\ alarm = FALSE /\ resumed = FALSE

-----------------------------------------------------------------------------
(* The spool and its operator. The operator leaves a pause of the gate     *)
(* alone as long as the play runs.                                         *)
CgiStarts(p) ==
    /\ ~Paused
    /\ cgis' = cgis \cup {p}
    /\ UNCHANGED <<spool, pc, gate, alarm, resumed>>

CgiEnds(p) ==
    /\ ~Paused
    /\ cgis' = cgis \ {p}
    /\ UNCHANGED <<spool, pc, gate, alarm, resumed>>

OperatorPauses ==
    /\ ~Paused
    /\ spool' = "pausedByOperator"
    /\ UNCHANGED <<cgis, pc, gate, alarm, resumed>>

OperatorResumes ==
    /\ Paused
    /\ spool = "pausedByGate" => pc = "ended"
    /\ spool' = "running"
    /\ resumed' = TRUE
    /\ UNCHANGED <<cgis, pc, gate, alarm>>

-----------------------------------------------------------------------------
(* The gate returns 1; the facts are recorded and the cutover block ends   *)
(* in its always section. `owned` is what it printed as paused_by_gate.    *)
GateFails(owned) ==
    /\ pc' = "releasing"
    /\ byGate' = owned
    /\ UNCHANGED <<attempt, probes, again, acquired>>

(* The next turn of the loop of main, if there is one.                     *)
NextAttempt ==
    IF attempt < GateAttempts
    THEN /\ pc' = "probing"
         /\ attempt' = attempt + 1
         /\ probes' = 0 /\ byGate' = FALSE
         /\ UNCHANGED <<again, acquired>>
    ELSE GateFails(FALSE)

(* An attempt that failed after the pause is undone if it paused.          *)
Undo(forAnother) ==
    /\ pc' = "undoing"
    /\ again' = forAnother
    /\ UNCHANGED <<attempt, probes, byGate, acquired>>

(* wait_quiet. A probe that fails counts as one that finds a CGI. Mutants: *)
(* one probe too many; no bound on the probes.                             *)
ProbeIsQuiet ==
    /\ pc = "probing"
    /\ cgis = {}
    /\ pc' = "inspecting"
    /\ UNCHANGED <<spool, cgis, gate, alarm, resumed>>

ProbeIsBusyOnceMore ==
    /\ pc = "probing"
    /\ IF probes < QuietRetries
       THEN probes' = probes + 1 /\ UNCHANGED <<pc, attempt, byGate, again, acquired>>
       ELSE GateFails(FALSE)
    /\ UNCHANGED <<spool, cgis, alarm, resumed>>

ProbeIsBusyForever ==
    /\ pc = "probing"
    /\ UNCHANGED vars

ProbeIsBusy ==
    /\ pc = "probing"
    /\ IF probes + 1 < QuietRetries
       THEN probes' = probes + 1 /\ UNCHANGED <<pc, attempt, byGate, again, acquired>>
       ELSE GateFails(FALSE)
    /\ UNCHANGED <<spool, cgis, alarm, resumed>>

(* paused_state fails, or says who has to pause. Mutant: the gate takes    *)
(* the pause it finds for its own.                                         *)
InspectTakesAll ==
    /\ pc = "inspecting"
    /\ \/ GateFails(FALSE) /\ UNCHANGED resumed
       \/ /\ pc' = IF Paused THEN "confirming" ELSE "pausing"
          /\ byGate' = TRUE
          /\ resumed' = FALSE
          /\ UNCHANGED <<attempt, probes, again, acquired>>
    /\ UNCHANGED <<spool, cgis, alarm>>

Inspect ==
    /\ pc = "inspecting"
    /\ \/ GateFails(FALSE) /\ UNCHANGED resumed
       \/ /\ pc' = IF Paused THEN "confirming" ELSE "pausing"
          /\ resumed' = FALSE
          /\ UNCHANGED gate
    /\ UNCHANGED <<spool, cgis, alarm>>

(* docker refuses to pause a container that is paused.                     *)
Pause ==
    /\ pc = "pausing"
    /\ \/ /\ ~Paused
          /\ spool' = "pausedByGate"
          /\ byGate' = TRUE
          /\ pc' = "confirming"
          /\ UNCHANGED <<attempt, probes, again, acquired>>
       \/ GateFails(FALSE) /\ UNCHANGED spool
    /\ UNCHANGED <<cgis, alarm, resumed>>

Confirm ==
    /\ pc = "confirming"
    /\ \/ Paused /\ pc' = "reprobing" /\ UNCHANGED gate
       \/ IF byGate THEN Undo(FALSE) ELSE GateFails(FALSE)
    /\ UNCHANGED <<spool, cgis, alarm, resumed>>

(* The second look, which sees what the spool started between the first    *)
(* one and the pause. Mutants: there is none; a failing attempt leaves the *)
(* spool as it is.                                                         *)
ReprobeIsQuietAssumed ==
    /\ pc = "reprobing"
    /\ pc' = "working" /\ acquired' = TRUE
    /\ UNCHANGED <<spool, cgis, attempt, probes, byGate, again, alarm, resumed>>

ReprobeIsQuiet ==
    /\ pc = "reprobing"
    /\ cgis = {}
    /\ pc' = "working" /\ acquired' = TRUE
    /\ UNCHANGED <<spool, cgis, attempt, probes, byGate, again, alarm, resumed>>

ReprobeIsBusyKeepsPause ==
    /\ pc = "reprobing"
    /\ NextAttempt
    /\ UNCHANGED <<spool, cgis, alarm, resumed>>

ReprobeIsBusy ==
    /\ pc = "reprobing"
    /\ IF byGate THEN Undo(TRUE) ELSE NextAttempt
    /\ UNCHANGED <<spool, cgis, alarm, resumed>>

(* unpause_and_verify. What could not be verified is reported as paused by *)
(* the gate, and is left to the release.                                   *)
Unpause ==
    /\ pc = "undoing"
    /\ \/ /\ Paused
          /\ spool' = "running"
          /\ pc' = "verifying"
          /\ UNCHANGED gate
       \/ GateFails(TRUE) /\ UNCHANGED spool
    /\ UNCHANGED <<cgis, alarm, resumed>>

VerifyUnpaused ==
    /\ pc = "verifying"
    /\ \/ ~Paused /\ IF again THEN NextAttempt ELSE GateFails(FALSE)
       \/ GateFails(TRUE)
    /\ UNCHANGED <<spool, cgis, alarm, resumed>>

-----------------------------------------------------------------------------
(* The deployment does its work, successfully or not; then the always      *)
(* section releases what the operation paused. A task that fails fails the *)
(* play.                                                                   *)
Work ==
    /\ pc = "working"
    /\ pc' = "releasing"
    /\ UNCHANGED <<spool, cgis, gate, alarm, resumed>>

Release ==
    /\ pc = "releasing"
    /\ \/ ~byGate /\ pc' = "ended" /\ UNCHANGED <<spool, alarm>>
       \/ byGate /\ Paused /\ spool' = "running" /\ pc' = "released" /\ UNCHANGED alarm
       \/ byGate /\ alarm' = TRUE /\ pc' = "ended" /\ UNCHANGED spool
    /\ UNCHANGED <<cgis, gate, resumed>>

VerifyReleased ==
    /\ pc = "released"
    /\ \/ ~Paused /\ UNCHANGED alarm
       \/ alarm' = TRUE
    /\ pc' = "ended"
    /\ UNCHANGED <<spool, cgis, gate, resumed>>

-----------------------------------------------------------------------------
GateStep ==
    \/ ProbeIsQuiet \/ ProbeIsBusy
    \/ Inspect \/ Pause \/ Confirm
    \/ ReprobeIsQuiet \/ ReprobeIsBusy
    \/ Unpause \/ VerifyUnpaused

OperationStep == GateStep \/ Work \/ Release \/ VerifyReleased

Next ==
    \/ \E p \in Procs : CgiStarts(p) \/ CgiEnds(p)
    \/ OperatorPauses \/ OperatorResumes
    \/ OperationStep

Spec == Init /\ [][Next]_vars

(* The play runs; its commands return.                                     *)
FairSpec == Spec /\ WF_vars(OperationStep)

-----------------------------------------------------------------------------
(* While the deployment works, no CGI runs and none can start, unless the  *)
(* operator resumed a pause of his own under it: the second probe of main  *)
(* sees what was started between the first one and the pause.              *)
WindowIsQuiet == pc = "working" /\ ~resumed => Paused /\ cgis = {}

(* A pause of the gate outlives the operation only with a failed play: no  *)
(* path through the attempts, the undoing and the early returns forgets it.*)
LeftPausedLoudly == pc = "ended" /\ spool = "pausedByGate" => alarm

(* A pause of the operator is ended by the operation only after the gate   *)
(* could not verify its own undoing, in which case it takes the pause it   *)
(* finds for its own; one that an earlier operation left, never.           *)
OperatorPauseRespected ==
    [][Paused /\ spool' = "running" /\ pc' # pc =>
            \/ spool = "pausedByGate"
            \/ spool = "pausedByOperator" /\ byGate /\ ~acquired]_vars

WindowState ==
    IF pc = "working" THEN "open"
    ELSE IF pc \in {"releasing", "released"} THEN "releasing"
    ELSE IF pc = "ended" THEN "closed"
    ELSE "acquiring"

PausedByOperation ==
    byGate /\ pc \in {"working", "releasing", "released", "ended"}

Window == INSTANCE SpoolWindow
    WITH window <- WindowState, byOperation <- PausedByOperation

(* The script and its tasks keep the promise the roles are built on: what  *)
(* the gate reports as its pause is its pause, on every path.              *)
ImplementsWindow == Window!WindowSpec

(* However busy the spool and however often docker fails, the operation    *)
(* comes to its end: every loop of the gate is bounded.                    *)
OperationEnds == <>(pc = "ended")
=============================================================================
