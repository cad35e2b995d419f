------------------------------ MODULE DeployLock ------------------------------
(***************************************************************************)
(* The host-side lock of the mutating playbooks (deploy_lock.py): a        *)
(* directory with the token of its owner and metadata for a reader, made   *)
(* and emptied command by command. A play whose acquisition fails is over  *)
(* at once; one that dies leaves what it has made, and no release removes  *)
(* that: an operator does, when no play is at work.                        *)
(*                                                                         *)
(* A play is                                                               *)
(*   ready      not started yet                                            *)
(*   made       it made the directory                                      *)
(*   tokened    and wrote its token                                        *)
(*   holding    and the metadata: it has the lock and does its work        *)
(*   leaving    in its always section                                      *)
(*   emptying, emptied   the metadata is gone, and the token               *)
(*   over                                                                  *)
(***************************************************************************)
CONSTANTS
    Plays,          \* each with a token of its own
    NoPlay

ASSUME LockAssumption == NoPlay \notin Plays

VARIABLES
    at,             \* at[p]
    lockDir,        \* does the directory exist?
    token,          \* in it, or NoPlay
    metadata        \* is there metadata in it?

lockVars == <<at, lockDir, token, metadata>>

LockTypeOK ==
    /\ at \in [Plays -> {"ready", "made", "tokened", "holding", "leaving",
                         "emptying", "emptied", "over"}]
    /\ lockDir \in BOOLEAN
    /\ token \in Plays \cup {NoPlay}
    /\ metadata \in BOOLEAN

LockInit ==
    /\ at = [p \in Plays |-> "ready"]
    /\ lockDir = FALSE /\ token = NoPlay /\ metadata = FALSE

Becomes(p, from, to) == at[p] = from /\ at' = [at EXCEPT ![p] = to]

AtWork(p) == at[p] \notin {"ready", "over"}

-----------------------------------------------------------------------------
(* mkdir makes the directory or finds it, in one step. Mutant: an existing *)
(* one will do.                                                            *)
MakesDirAnyway(p) ==
    /\ Becomes(p, "ready", "made")
    /\ lockDir' = TRUE
    /\ UNCHANGED <<token, metadata>>

MakesDir(p) ==
    /\ Becomes(p, "ready", IF lockDir THEN "over" ELSE "made")
    /\ lockDir' = TRUE
    /\ UNCHANGED <<token, metadata>>

WritesToken(p) ==
    /\ Becomes(p, "made", "tokened")
    /\ token' = p
    /\ UNCHANGED <<lockDir, metadata>>

WritesMetadata(p) ==
    /\ Becomes(p, "tokened", "holding")
    /\ metadata' = TRUE
    /\ UNCHANGED <<lockDir, token>>

Acquires(p) == MakesDir(p) \/ WritesToken(p) \/ WritesMetadata(p)

(* The release of a play that holds the lock: it looks at the token, and   *)
(* takes the directory apart.                                              *)
Unlinks(p) ==
    /\ Becomes(p, "leaving", IF lockDir /\ token = p THEN "emptying" ELSE "over")
    /\ metadata' = (metadata /\ token # p)
    /\ UNCHANGED <<lockDir, token>>

UnlinksToken(p) ==
    /\ Becomes(p, "emptying", "emptied")
    /\ token' = NoPlay
    /\ UNCHANGED <<lockDir, metadata>>

RemovesDir(p) ==
    /\ Becomes(p, "emptied", "over")
    /\ lockDir' = FALSE
    /\ UNCHANGED <<token, metadata>>

Releases(p) == Unlinks(p) \/ UnlinksToken(p) \/ RemovesDir(p)

(* A connection or a host is lost.                                         *)
Dies(p) ==
    /\ AtWork(p)
    /\ at' = [at EXCEPT ![p] = "over"]
    /\ UNCHANGED <<lockDir, token, metadata>>

(* docs/DEPLOYMENT.md: the operator has verified that no play runs.        *)
OperatorRemovesLock ==
    /\ lockDir
    /\ \A p \in Plays : ~AtWork(p)
    /\ lockDir' = FALSE /\ token' = NoPlay /\ metadata' = FALSE
    /\ UNCHANGED at

-----------------------------------------------------------------------------
(* At most one play has the lock, and it finds its own token in it,        *)
(* whatever plays race for it, die half-way through, or are cleaned up     *)
(* after.                                                                  *)
OneOperator ==
    \A p, q \in Plays :
        at[p] \in {"holding", "leaving"} /\ at[q] \in {"holding", "leaving"}
            => p = q /\ lockDir /\ token = p
=============================================================================
