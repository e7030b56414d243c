------------------------------- MODULE RefTxn -------------------------------
(***************************************************************************)
(* The ref directory of a workspace (.osix/refs) and the transaction that  *)
(* moves refs, writeRefsIfExpected in internal/osix/store.go.  A call      *)
(* takes a mutex that is private to its process, reads and checks every    *)
(* ref while it writes the new values to temporary files, renames the      *)
(* temporary files over the refs, and, when a rename fails, puts the refs  *)
(* it has already moved back one at a time.  Readers take no lock.         *)
(***************************************************************************)
EXTENDS AtomicRefs

CONSTANTS
    Threads,    \* goroutines that may call writeRefsIfExpected
    Procs,      \* operating-system processes that share the directory
    ProcOf,     \* the process of each thread
    NoThread,   \* holder of a mutex that is free
    Torn,       \* an existing ref file that was truncated and not written
    Faults      \* the failures a run explores

(* refUpdate.  NoDigest as "digest" stands for one that digestHex rejects. *)
Update == [name : Names \cup {Blank}, digest : Digests \cup {NoDigest},
           expected : Digests \cup {NoDigest}]

ASSUME TxnConstants ==
    /\ ProcOf \in [Threads -> Procs]
    /\ NoThread \notin Threads
    /\ Torn \notin Content \cup {NoDigest}
    /\ Faults \subseteq {"prepare", "rename", "rollback", "crash"}
    /\ Batches \subseteq Seq(Update)
    /\ \A b \in Batches : \A j, k \in Named(b) : b[j].name = b[k].name => j = k

VARIABLES
    temps,      \* .ref-*.tmp files of the calls in progress
    orphans,    \* content of the .ref-*.tmp files that crashed calls left
    lock,       \* refTransactionLocks: one mutex per process
    pc,         \* where each thread is in writeRefsIfExpected
    batch,      \* its argument: the updates
    pos,        \* loop index of the loop it is in
    prepared    \* its slice of saved refs, in the order they were prepared

vars == <<refs, temps, orphans, lock, pc, batch, pos, prepared>>

FileContent == Content \cup {Torn}
Saved == [path : Paths, old : FileContent, digest : Digests,
          expected : Digests \cup {NoDigest}]
Temp == [owner : Threads, slot : Nat \ {0}, digest : Digests]
Locked == {"prepare", "commit", "rollback", "rewrite", "cleanup"}

TypeOK ==
    /\ refs \in [Paths -> FileContent]
    /\ temps \subseteq Temp
    /\ orphans \subseteq Digests
    /\ lock \in [Procs -> Threads \cup {NoThread}]
    /\ pc \in [Threads -> Locked \cup {"idle", "waiting"}]
    /\ batch \in [Threads -> Seq(Update)]
    /\ pos \in [Threads -> Nat]
    /\ prepared \in [Threads -> Seq(Saved)]

TxnInit ==
    /\ Init
    /\ temps = {} /\ orphans = {}
    /\ lock = [p \in Procs |-> NoThread]
    /\ pc = [t \in Threads |-> "idle"]
    /\ batch = [t \in Threads |-> <<>>]
    /\ pos = [t \in Threads |-> 0]
    /\ prepared = [t \in Threads |-> <<>>]

-----------------------------------------------------------------------------
TempsOf(t) == {tmp \in temps : tmp.owner = t}

Goto(t, label, index) ==
    /\ pc' = [pc EXCEPT ![t] = label]
    /\ pos' = [pos EXCEPT ![t] = index]

(* A caller enters writeRefsIfExpected with some batch. *)
Call(t) ==
    /\ pc[t] = "idle"
    /\ \E b \in Batches : batch' = [batch EXCEPT ![t] = b]
    /\ Goto(t, "waiting", 0)
    /\ UNCHANGED <<refs, temps, orphans, lock, prepared>>

(* Mutant of Lock: the mutex does not exclude. *)
LockWithoutWaiting(t) ==
    /\ pc[t] = "waiting"
    /\ lock' = [lock EXCEPT ![ProcOf[t]] = t]
    /\ Goto(t, "prepare", 1)
    /\ UNCHANGED <<refs, temps, orphans, batch, prepared>>

(* lock.Lock(): the mutex is shared by the threads of one process only. *)
Lock(t) ==
    /\ pc[t] = "waiting"
    /\ lock[ProcOf[t]] = NoThread
    /\ lock' = [lock EXCEPT ![ProcOf[t]] = t]
    /\ Goto(t, "prepare", 1)
    /\ UNCHANGED <<refs, temps, orphans, batch, prepared>>

(* Two different names of the batch that are stored in one file. *)
Collides(t, update) ==
    \E k \in 1..(pos[t] - 1) :
        /\ k \in Named(batch[t])
        /\ Target(batch[t][k]) = Target(update)
        /\ batch[t][k].name # update.name

(* current is the file's content; a torn file exists and holds "". *)
Conflicts(update, current) ==
    /\ update.expected # NoDigest
    /\ current # NoRef
    /\ current # update.expected

Rejected(t, update) ==
    \/ update.digest \notin Digests
    \/ Collides(t, update)
    \/ Conflicts(update, refs[Target(update)])

CurrentUpdate(t) == batch[t][pos[t]]

(* The loop skips an update whose name is blank. *)
SkipBlank(t) ==
    /\ pc[t] = "prepare" /\ pos[t] \in DOMAIN batch[t]
    /\ CurrentUpdate(t).name = Blank
    /\ Goto(t, "prepare", pos[t] + 1)
    /\ UNCHANGED <<refs, temps, orphans, lock, batch, prepared>>

(* The ref is read and checked, its new value is written to a temporary. *)
Prepare(t) ==
    /\ pc[t] = "prepare" /\ pos[t] \in DOMAIN batch[t]
    /\ LET u == CurrentUpdate(t) IN
         /\ u.name # Blank
         /\ ~Rejected(t, u)
         /\ prepared' = [prepared EXCEPT ![t] = Append(@,
                [path |-> Target(u), old |-> refs[Target(u)],
                 digest |-> u.digest, expected |-> u.expected])]
         /\ temps' = temps \cup {[owner |-> t, slot |-> Len(prepared[t]) + 1,
                                  digest |-> u.digest]}
    /\ Goto(t, "prepare", pos[t] + 1)
    /\ UNCHANGED <<refs, orphans, lock, batch>>

(* An early return: a bad update, a conflict, or a failed file operation. *)
PrepareFails(t) ==
    /\ pc[t] = "prepare" /\ pos[t] \in DOMAIN batch[t]
    /\ CurrentUpdate(t).name # Blank
    /\ Rejected(t, CurrentUpdate(t)) \/ "prepare" \in Faults
    /\ Goto(t, "cleanup", 0)
    /\ UNCHANGED <<refs, temps, orphans, lock, batch, prepared>>

(* The first loop is over: rename the temporaries, if there are any. *)
PrepareDone(t) ==
    /\ pc[t] = "prepare" /\ pos[t] \notin DOMAIN batch[t]
    /\ IF prepared[t] = <<>> THEN Goto(t, "cleanup", 0)
                             ELSE Goto(t, "commit", 1)
    /\ UNCHANGED <<refs, temps, orphans, lock, batch, prepared>>

(* renameRefFile(item.tmp, item.path) succeeds, and replaces the ref. *)
Rename(t) ==
    /\ pc[t] = "commit"
    /\ refs' = [refs EXCEPT ![prepared[t][pos[t]].path] =
                              prepared[t][pos[t]].digest]
    /\ temps' = {tmp \in temps : ~(tmp.owner = t /\ tmp.slot = pos[t])}
    /\ IF pos[t] = Len(prepared[t]) THEN Goto(t, "cleanup", 0)
                                    ELSE Goto(t, "commit", pos[t] + 1)
    /\ UNCHANGED <<orphans, lock, batch, prepared>>

(* Mutants of RenameFails: the rollback starts one ref too low; it starts  *)
(* below the slice when the first rename fails.                            *)
RenameFailsSkipsLast(t) ==
    /\ pc[t] = "commit" /\ "rename" \in Faults
    /\ Goto(t, "rollback", IF pos[t] > 1 THEN pos[t] - 2 ELSE 0)
    /\ UNCHANGED <<refs, temps, orphans, lock, batch, prepared>>

RenameFailsUnderflows(t) ==
    /\ pc[t] = "commit" /\ "rename" \in Faults
    /\ Goto(t, "rollback", pos[t] - 2)
    /\ UNCHANGED <<refs, temps, orphans, lock, batch, prepared>>

(* It fails: the refs renamed so far are put back, the latest first. *)
RenameFails(t) ==
    /\ pc[t] = "commit" /\ "rename" \in Faults
    /\ Goto(t, "rollback", pos[t] - 1)
    /\ UNCHANGED <<refs, temps, orphans, lock, batch, prepared>>

(* os.WriteFile on a ref that existed truncates it before it writes. *)
Truncate(t) ==
    /\ pc[t] = "rollback" /\ pos[t] > 0
    /\ prepared[t][pos[t]].old # NoRef
    /\ refs' = [refs EXCEPT ![prepared[t][pos[t]].path] = Torn]
    /\ Goto(t, "rewrite", pos[t])
    /\ UNCHANGED <<temps, orphans, lock, batch, prepared>>

Rewrite(t) ==
    /\ pc[t] = "rewrite"
    /\ refs' = [refs EXCEPT ![prepared[t][pos[t]].path] =
                              prepared[t][pos[t]].old]
    /\ Goto(t, "rollback", pos[t] - 1)
    /\ UNCHANGED <<temps, orphans, lock, batch, prepared>>

(* os.Remove of a ref that the call created. *)
RemoveCreated(t) ==
    /\ pc[t] = "rollback" /\ pos[t] > 0
    /\ prepared[t][pos[t]].old = NoRef
    /\ refs' = [refs EXCEPT ![prepared[t][pos[t]].path] = NoRef]
    /\ Goto(t, "rollback", pos[t] - 1)
    /\ UNCHANGED <<temps, orphans, lock, batch, prepared>>

(* A rollback error is collected and the rollback goes on with the next. *)
RollbackFails(t) ==
    /\ "rollback" \in Faults
    /\ pc[t] = "rewrite" \/ (pc[t] = "rollback" /\ pos[t] > 0)
    /\ Goto(t, "rollback", pos[t] - 1)
    /\ UNCHANGED <<refs, temps, orphans, lock, batch, prepared>>

RollbackDone(t) ==
    /\ pc[t] = "rollback" /\ pos[t] = 0
    /\ Goto(t, "cleanup", 0)
    /\ UNCHANGED <<refs, temps, orphans, lock, batch, prepared>>

(* The deferred loop removes the temporaries that are still there. *)
RemoveTemp(t) ==
    /\ pc[t] = "cleanup"
    /\ \E tmp \in TempsOf(t) : temps' = temps \ {tmp}
    /\ UNCHANGED <<refs, orphans, lock, pc, batch, pos, prepared>>

(* Mutants of Return: no unlock on a path that returns early; temporaries  *)
(* of a failed call are left behind.                                       *)
ReturnHoldingLock(t) ==
    /\ pc[t] = "cleanup" /\ TempsOf(t) = {}
    /\ prepared' = [prepared EXCEPT ![t] = <<>>]
    /\ batch' = [batch EXCEPT ![t] = <<>>]
    /\ Goto(t, "idle", 0)
    /\ UNCHANGED <<refs, temps, orphans, lock>>

ReturnLeavingTemps(t) ==
    /\ pc[t] = "cleanup"
    /\ lock' = [lock EXCEPT ![ProcOf[t]] = NoThread]
    /\ prepared' = [prepared EXCEPT ![t] = <<>>]
    /\ batch' = [batch EXCEPT ![t] = <<>>]
    /\ Goto(t, "idle", 0)
    /\ UNCHANGED <<refs, temps, orphans>>

(* The deferred Unlock, and the return to the caller. *)
Return(t) ==
    /\ pc[t] = "cleanup" /\ TempsOf(t) = {}
    /\ lock' = [lock EXCEPT ![ProcOf[t]] = NoThread]
    /\ prepared' = [prepared EXCEPT ![t] = <<>>]
    /\ batch' = [batch EXCEPT ![t] = <<>>]
    /\ Goto(t, "idle", 0)
    /\ UNCHANGED <<refs, temps, orphans>>

(* A process dies: its mutex is gone, its temporary files are not. *)
Crash(p) ==
    LET dead == {t \in Threads : ProcOf[t] = p} IN
    /\ "crash" \in Faults
    /\ \E t \in dead : pc[t] \in Locked
    /\ orphans' = orphans \cup {tmp.digest : tmp \in {x \in temps : x.owner \in dead}}
    /\ temps' = {tmp \in temps : tmp.owner \notin dead}
    /\ lock' = [lock EXCEPT ![p] = NoThread]
    /\ pc' = [t \in Threads |-> IF t \in dead THEN "idle" ELSE pc[t]]
    /\ batch' = [t \in Threads |-> IF t \in dead THEN <<>> ELSE batch[t]]
    /\ pos' = [t \in Threads |-> IF t \in dead THEN 0 ELSE pos[t]]
    /\ prepared' = [t \in Threads |-> IF t \in dead THEN <<>> ELSE prepared[t]]
    /\ UNCHANGED refs

Step(t) ==
    \/ SkipBlank(t) \/ Prepare(t) \/ PrepareFails(t) \/ PrepareDone(t)
    \/ Rename(t) \/ RenameFails(t)
    \/ Truncate(t) \/ Rewrite(t) \/ RemoveCreated(t) \/ RollbackFails(t)
    \/ RollbackDone(t) \/ RemoveTemp(t) \/ Return(t)

TxnNext ==
    \/ \E t \in Threads : Call(t) \/ Lock(t) \/ Step(t)
    \/ \E p \in Procs : Crash(p)

TxnSpec == TxnInit /\ [][TxnNext]_vars

(***************************************************************************)
(* A thread that is inside the call keeps running, and sync.Mutex hands    *)
(* the lock to a waiter that has been passed over (its starvation mode).   *)
(***************************************************************************)
FairTxnSpec ==
    TxnSpec /\ \A t \in Threads : WF_vars(Step(t)) /\ SF_vars(Lock(t))

-----------------------------------------------------------------------------
(***************************************************************************)
(* Correctness.                                                            *)
(***************************************************************************)

(* The compare-and-swap holds up to the rename: a ref that the call is     *)
(* about to replace still is what the update expected, or is missing,      *)
(* although it was compared many steps earlier (store.go 312-317).         *)
HeadsAsExpected ==
    \A t \in Threads : pc[t] = "commit" =>
        \A k \in pos[t]..Len(prepared[t]) :
            MatchesExpected(prepared[t][k], refs[prepared[t][k].path])

(* Without crashes, a temporary file belongs to a call that is still in    *)
(* writeRefsIfExpected, whichever way the call goes (store.go 289-293).    *)
(* A temporary left behind would be listed as a ref by listRefs.           *)
TempsBelongToCalls ==
    /\ orphans = {}
    /\ \A tmp \in temps : pc[tmp.owner] \in Locked

(* Every call returns, whatever fails on the way (the deferred Unlock).    *)
CallsReturn == \A t \in Threads : pc[t] # "idle" ~> pc[t] = "idle"

(***************************************************************************)
(* Refinement: while a call is renaming or rolling back, the abstract refs *)
(* are the ones it saved.  Its last rename is the abstract Commit.         *)
(***************************************************************************)
Moved(t) ==
    CASE pc[t] = "commit" -> 1..(pos[t] - 1)
      [] pc[t] \in {"rollback", "rewrite"} -> 1..pos[t]
      [] OTHER -> {}

StableRefs ==
    [p \in Paths |->
        IF \E t \in Threads : \E k \in Moved(t) : prepared[t][k].path = p
          THEN LET t == CHOOSE t \in Threads :
                          \E k \in Moved(t) : prepared[t][k].path = p
               IN  prepared[t][CHOOSE k \in Moved(t) :
                                  prepared[t][k].path = p].old
          ELSE refs[p]]

Abstract == INSTANCE AtomicRefs WITH refs <- StableRefs

(* Threads of one process move refs as atomic batches: each call applies   *)
(* all its updates, against the heads it expected, or none of them.        *)
AppliesBatchesAtomically == Abstract!Spec
=============================================================================
