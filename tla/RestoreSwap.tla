---------------------------- MODULE RestoreSwap ----------------------------
(***************************************************************************)
(* How a directory is replaced by a snapshot: Restore in                   *)
(* internal/osix/snapshot.go and ExtractSnapshotPath in                    *)
(* internal/osix/extract.go.  The snapshot is first built and verified in  *)
(* a sibling stage.  A target that exists is then parked under a backup    *)
(* name, the stage is renamed to the target and the backup is removed; the *)
(* next call repairs what an interrupted one left.  The two commands share *)
(* one mutex per target but use different backup names.  The threads are   *)
(* those of one process, the only ones the mutex excludes.                 *)
(***************************************************************************)
EXTENDS Naturals, FiniteSets

CONSTANTS
    Threads,    \* goroutines that restore or extract onto one target
    NoThread,   \* holder of a mutex that is free
    Snapshots,  \* the trees that calls install
    Original,   \* a tree that was at the target before the first call
    EmptyDir,   \* the tree of an empty directory
    NoDir,     \* a path where nothing exists
    Kinds,      \* the commands in use: "restore", "extract"
    Mixed,      \* whether calls of both commands meet on the target
    Faults      \* the failures a run explores

ASSUME SwapConstants ==
    /\ NoThread \notin Threads
    /\ Kinds \subseteq {"restore", "extract"} /\ Mixed \in BOOLEAN
    /\ Faults \subseteq {"stage", "rename", "rollback", "remove", "crash"}
    /\ EmptyDir \notin Snapshots
    /\ NoDir \notin [tree : Snapshots \cup {Original, EmptyDir}, whole : BOOLEAN]

AnyTree == Snapshots \cup {Original, EmptyDir}
Dir == [tree : AnyTree, whole : BOOLEAN]
Job == [kind : Kinds, force : BOOLEAN, tree : Snapshots]
Whole(tree) == [tree |-> tree, whole |-> TRUE]

VARIABLES
    target,     \* what is at the target path
    backup,     \* what is at each command's backup path
    lock,       \* the target's entry of restoreTargetLocks
    pc,         \* where each thread is in its call
    job,        \* the call's arguments
    before      \* history: the tree the caller found when it got the mutex

swapVars == <<target, backup, lock, pc, job, before>>

Locked == {"recover", "repair", "validate", "stage", "commit", "place",
           "clear", "park", "swap", "rollback", "discard", "fail", "done", "unclean"}

SwapTypeOK ==
    /\ target \in Dir \cup {NoDir}
    /\ backup \in [Kinds -> Dir \cup {NoDir}]
    /\ lock \in Threads \cup {NoThread}
    /\ pc \in [Threads -> Locked \cup {"idle", "waiting"}]
    /\ job \in [Threads -> Job]
    /\ before \in [Threads -> Dir \cup {NoDir}]

SwapInit ==
    /\ target \in {NoDir, Whole(EmptyDir), Whole(Original)}
    /\ backup = [k \in Kinds |-> NoDir]
    /\ lock = NoThread
    /\ pc = [t \in Threads |-> "idle"]
    /\ job \in [Threads -> Job]
    /\ ~Mixed => \A t, u \in Threads : job[t].kind = job[u].kind
    /\ before = [t \in Threads |-> NoDir]

-----------------------------------------------------------------------------
Goto(t, label) == pc' = [pc EXCEPT ![t] = label]
Own(t) == backup[job[t].kind]

(* validateRestoreTarget accepts an empty directory, validateExtractTarget *)
(* only a path where nothing exists.                                       *)
Accepts(j) ==
    \/ target = NoDir
    \/ j.force
    \/ j.kind = "restore" /\ target \in [tree : {EmptyDir}, whole : BOOLEAN]

(* Restore validates the target once before it waits for the mutex. *)
Call(t) ==
    /\ pc[t] = "idle"
    /\ \E j \in Job :
         /\ ~Mixed => j.kind = job[t].kind
         /\ j.kind = "restore" => Accepts(j)
         /\ job' = [job EXCEPT ![t] = j]
    /\ Goto(t, "waiting")
    /\ UNCHANGED <<target, backup, lock, before>>

(* The tree that a user of t's command has: recovery brings it back. *)
Found(t) == IF target = NoDir THEN Own(t) ELSE target

(* Mutant of Lock: the mutex does not exclude. *)
LockWithoutWaiting(t) ==
    /\ pc[t] = "waiting"
    /\ lock' = t
    /\ before' = [before EXCEPT ![t] = Found(t)]
    /\ Goto(t, "recover")
    /\ UNCHANGED <<target, backup, job>>

Lock(t) ==
    /\ pc[t] = "waiting" /\ lock = NoThread
    /\ lock' = t
    /\ before' = [before EXCEPT ![t] = Found(t)]
    /\ Goto(t, "recover")
    /\ UNCHANGED <<target, backup, job>>

(* Mutant of Recover: a backup is stale whether or not there is a target. *)
RecoverDropsBackup(t) ==
    /\ pc[t] = "recover"
    /\ Goto(t, IF Own(t) = NoDir THEN "validate"
               ELSE IF job[t].kind = "restore" THEN "repair" ELSE "fail")
    /\ UNCHANGED <<target, backup, lock, job, before>>

(* recoverRestoreBackup, recoverExtractTarget: with no backup there is     *)
(* nothing to do; with both, restore drops the backup and extract refuses. *)
Recover(t) ==
    /\ pc[t] = "recover"
    /\ Own(t) = NoDir \/ target # NoDir
    /\ Goto(t, IF Own(t) = NoDir THEN "validate"
               ELSE IF job[t].kind = "restore" THEN "repair" ELSE "fail")
    /\ UNCHANGED <<target, backup, lock, job, before>>

(* With only the backup, it is renamed back. *)
RenameBack(t) ==
    /\ pc[t] = "recover"
    /\ Own(t) # NoDir /\ target = NoDir
    /\ target' = Own(t)
    /\ backup' = [backup EXCEPT ![job[t].kind] = NoDir]
    /\ Goto(t, "validate")
    /\ UNCHANGED <<lock, job, before>>

RenameBackFails(t) ==
    /\ pc[t] = "recover" /\ "rename" \in Faults
    /\ Own(t) # NoDir /\ target = NoDir
    /\ Goto(t, "fail")
    /\ UNCHANGED <<target, backup, lock, job, before>>

(* removeRestoreTree first changes the modes, then removes one file after  *)
(* another: the tree is damaged before it is gone.                         *)
Damage(t) ==
    /\ pc[t] \in {"repair", "clear", "discard"}
    /\ Own(t) # NoDir /\ Own(t).whole
    /\ backup' = [backup EXCEPT ![job[t].kind].whole = FALSE]
    /\ UNCHANGED <<target, lock, pc, job, before>>

Remove(t) ==
    /\ pc[t] \in {"repair", "clear", "discard"}
    /\ Own(t) # NoDir => ~Own(t).whole
    /\ backup' = [backup EXCEPT ![job[t].kind] = NoDir]
    /\ Goto(t, CASE pc[t] = "repair"  -> "validate"
                 [] pc[t] = "clear"   -> "park"
                 [] pc[t] = "discard" -> "done")
    /\ UNCHANGED <<target, lock, job, before>>

(* An error too; after the swap, the target has been replaced by then. *)
RemoveFails(t) ==
    /\ pc[t] \in {"repair", "clear", "discard"} /\ "remove" \in Faults
    /\ Own(t) # NoDir
    /\ Goto(t, IF pc[t] = "discard" THEN "unclean" ELSE "fail")
    /\ UNCHANGED <<target, backup, lock, job, before>>

Validate(t) ==
    /\ pc[t] = "validate"
    /\ Goto(t, IF Accepts(job[t]) THEN "stage" ELSE "fail")
    /\ UNCHANGED <<target, backup, lock, job, before>>

(* The stage is made, filled by restoreIntoTarget and verified. *)
Stage(t) ==
    /\ pc[t] = "stage"
    /\ Goto(t, "commit")
    /\ UNCHANGED <<target, backup, lock, job, before>>

StageFails(t) ==
    /\ pc[t] = "stage" /\ "stage" \in Faults
    /\ Goto(t, "fail")
    /\ UNCHANGED <<target, backup, lock, job, before>>

(* commitRestoreTarget, commitExtractTarget: where nothing exists the      *)
(* stage is renamed at once; restore clears its backup path, extract       *)
(* checks again that it may replace the target and that the path is free.  *)
Commit(t) ==
    /\ pc[t] = "commit"
    /\ Goto(t, IF target = NoDir THEN "place"
               ELSE IF job[t].kind = "restore" THEN "clear"
               ELSE IF job[t].force /\ Own(t) = NoDir THEN "park" ELSE "fail")
    /\ UNCHANGED <<target, backup, lock, job, before>>

(* Mutant of Park: the target is removed rather than renamed. *)
ParkRemoving(t) ==
    /\ pc[t] = "park"
    /\ target' = NoDir
    /\ Goto(t, "swap")
    /\ UNCHANGED <<backup, lock, job, before>>

(* rename(target, backup) *)
Park(t) ==
    /\ pc[t] = "park" /\ target # NoDir
    /\ backup' = [backup EXCEPT ![job[t].kind] = target]
    /\ target' = NoDir
    /\ Goto(t, "swap")
    /\ UNCHANGED <<lock, job, before>>

ParkFails(t) ==
    /\ pc[t] = "park"
    /\ target = NoDir \/ "rename" \in Faults
    /\ Goto(t, "fail")
    /\ UNCHANGED <<target, backup, lock, job, before>>

(* rename(stage, target); os.Rename refuses to replace a directory. *)
Install(t) ==
    /\ pc[t] \in {"place", "swap"} /\ target = NoDir
    /\ target' = Whole(job[t].tree)
    /\ Goto(t, IF pc[t] = "swap" THEN "discard" ELSE "done")
    /\ UNCHANGED <<backup, lock, job, before>>

InstallFails(t) ==
    /\ pc[t] \in {"place", "swap"}
    /\ target # NoDir \/ "rename" \in Faults
    /\ Goto(t, IF pc[t] = "swap" THEN "rollback" ELSE "fail")
    /\ UNCHANGED <<target, backup, lock, job, before>>

(* os.Rename(backup, target), and the error of the failed rename. *)
Rollback(t) ==
    /\ pc[t] = "rollback" /\ target = NoDir
    /\ target' = Own(t)
    /\ backup' = [backup EXCEPT ![job[t].kind] = NoDir]
    /\ Goto(t, "fail")
    /\ UNCHANGED <<lock, job, before>>

RollbackFails(t) ==
    /\ pc[t] = "rollback"
    /\ target # NoDir \/ "rollback" \in Faults
    /\ Goto(t, "fail")
    /\ UNCHANGED <<target, backup, lock, job, before>>

(* The deferred removal of the stage and the deferred Unlock. *)
Return(t) ==
    /\ pc[t] \in {"fail", "done", "unclean"}
    /\ lock' = NoThread
    /\ Goto(t, "idle")
    /\ UNCHANGED <<target, backup, job, before>>

(* The process dies.  The stages it leaves are named like no later one. *)
Crash ==
    /\ "crash" \in Faults
    /\ \E t \in Threads : pc[t] \in Locked
    /\ lock' = NoThread
    /\ pc' = [t \in Threads |-> "idle"]
    /\ UNCHANGED <<target, backup, job, before>>

Step(t) ==
    \/ Recover(t) \/ RenameBack(t) \/ RenameBackFails(t)
    \/ Damage(t) \/ Remove(t) \/ RemoveFails(t)
    \/ Validate(t) \/ Stage(t) \/ StageFails(t) \/ Commit(t)
    \/ Park(t) \/ ParkFails(t) \/ Install(t) \/ InstallFails(t)
    \/ Rollback(t) \/ RollbackFails(t) \/ Return(t)

SwapNext ==
    \/ \E t \in Threads : Call(t) \/ Lock(t) \/ Step(t)
    \/ Crash

SwapSpec == SwapInit /\ [][SwapNext]_swapVars

-----------------------------------------------------------------------------
(***************************************************************************)
(* Correctness.                                                            *)
(***************************************************************************)

(* Whatever fails, and wherever the process dies, the next call finds a    *)
(* complete tree, at the target or in the backup it will rename back,      *)
(* never one that removeRestoreTree has begun on.                          *)
VisibleWhole ==
    \A t \in Threads : Found(t) # NoDir => Found(t).whole

(* The tree a user has is replaced in one step, by the rename of a stage   *)
(* that was verified, although the directory is moved twice and its backup *)
(* is removed piecemeal; failed calls, rollbacks, crashes and recoveries   *)
(* leave the same tree (snapshot.go 1193-1234, extract.go 213-262).        *)
OnlyInstallsReplace ==
    [][\A t \in Threads :
         Found(t)' # Found(t) =>
            \E u \in Threads : /\ pc[u] \in {"place", "swap"}
                               /\ Found(t)' = Whole(job[u].tree)]_swapVars

(* A call that returns an error has not replaced the target, unless it is  *)
(* the cleanup after the swap that failed: what was there is at the        *)
(* target, or in the backup that the next call renames back when the       *)
(* rollback failed too.                                                    *)
FailedCallsKeepTarget ==
    \A t \in Threads : pc[t] = "fail" => Found(t) = before[t]
=============================================================================
