------------------------------ MODULE StateFile ------------------------------
(***************************************************************************)
(* The state file of the service (internal/state), whatever its contents:  *)
(* how it is written, read and lost. `mem` is the copy in the memory of a  *)
(* running service; `survivors` are the contents that a loss of power may  *)
(* leave at the path of the file.                                          *)
(***************************************************************************)
VARIABLES
    up,         \* is the service process running?
    mem,        \* Store.data
    disk,       \* the file every process sees
    survivors   \* the contents a power loss may leave at the path

storeVars == <<mem, disk, survivors>>

FileInit(data) ==
    /\ up = FALSE
    /\ mem = data
    /\ disk = data
    /\ survivors = {data}

(***************************************************************************)
(* persistLocked writes a temporary file, syncs it, renames it over the    *)
(* state file and syncs the directory. An error up to the rename leaves    *)
(* everything as it was ("failed"). Once renamed, the new contents are     *)
(* what every process sees; if the sync of the directory then fails        *)
(* ("uncertain", ErrStateDurabilityUncertain), a power loss may still      *)
(* bring back any contents it could have left before.                      *)
(***************************************************************************)
WriteOutcomes == {"durable", "uncertain", "failed"}

Committed(w) == w # "failed"

(* mutateLocked: memory adopts the candidate exactly when it committed.    *)
(* Mutants: memory adopts it only without an error; the directory is not   *)
(* synced at all.                                                          *)
PersistAdoptsDurableOnly(candidate, w) ==
    /\ mem' = IF w = "durable" THEN candidate ELSE mem
    /\ disk' = IF Committed(w) THEN candidate ELSE disk
    /\ survivors' = CASE w = "durable" -> {candidate}
                      [] w = "uncertain" -> survivors \cup {candidate}
                      [] w = "failed" -> survivors

PersistWithoutSync(candidate, w) ==
    /\ mem' = IF Committed(w) THEN candidate ELSE mem
    /\ disk' = IF Committed(w) THEN candidate ELSE disk
    /\ survivors' = IF Committed(w) THEN survivors \cup {candidate}
                    ELSE survivors

Persist(candidate, w) ==
    /\ mem' = IF Committed(w) THEN candidate ELSE mem
    /\ disk' = IF Committed(w) THEN candidate ELSE disk
    /\ survivors' = CASE w = "durable" -> {candidate}
                      [] w = "uncertain" -> survivors \cup {candidate}
                      [] w = "failed" -> survivors

-----------------------------------------------------------------------------
(* Open, on a file of the current version with its auth fields filled: it  *)
(* reads the file and writes nothing. A missing file is taken for the      *)
(* empty one Open writes in its place.                                     *)
Open ==
    /\ ~up
    /\ up' = TRUE
    /\ mem' = disk
    /\ UNCHANGED <<disk, survivors>>

(* The process dies: its memory goes (`blank`), the file stays.            *)
ProcessDies(blank) ==
    /\ up
    /\ up' = FALSE
    /\ mem' = blank
    /\ UNCHANGED <<disk, survivors>>

(* The host loses power: the file is whatever had reached the device.      *)
PowerFails(blank) ==
    /\ up' = FALSE
    /\ mem' = blank
    /\ disk' \in survivors
    /\ survivors' = {disk'}
=============================================================================
