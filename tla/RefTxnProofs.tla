---------------------------- MODULE RefTxnProofs ----------------------------
(***************************************************************************)
(* Proofs about RefTxn, for every set of threads, names, batches and       *)
(* failures.                                                               *)
(***************************************************************************)
EXTENDS RefTxn, TLAPS

(* The loop index of a call that walks its saved refs points at one. *)
IndexOK(t) ==
    /\ pc[t] = "prepare" => pos[t] \in Nat \ {0}
    /\ pc[t] \in {"commit", "rewrite"} => pos[t] \in 1..Len(prepared[t])
    /\ pc[t] = "rollback" => pos[t] \in 0..Len(prepared[t])
    /\ pc[t] \in {"idle", "waiting"} => prepared[t] = <<>>

TypeInv == TypeOK /\ \A t \in Threads : IndexOK(t)

LEMMA TypeInvInit == TxnInit => TypeInv
BY RefConstants, TxnConstants
   DEF TxnInit, Init, TypeInv, TypeOK, IndexOK, Content, FileContent, Locked

Labels == Locked \cup {"idle", "waiting"}

LEMMA GotoType ==
    ASSUME TypeOK, NEW t \in Threads, NEW label \in Labels, NEW index \in Nat,
           Goto(t, label, index)
    PROVE  pc' \in [Threads -> Labels] /\ pos' \in [Threads -> Nat]
BY DEF TypeOK, Goto, Labels

(* A call moves to another label and keeps its saved refs. *)
LEMMA TypeInvCall ==
    ASSUME TypeInv, NEW t \in Threads, Call(t) \/ Lock(t) \/ SkipBlank(t)
    PROVE  TypeInv'
<1>1. CASE Call(t)
  BY <1>1, TxnConstants DEF Call, Goto, TypeInv, TypeOK, IndexOK, Locked
<1>2. CASE Lock(t)
  <2>1. lock' \in [Procs -> Threads \cup {NoThread}]
    BY <1>2, TxnConstants DEF Lock, TypeInv, TypeOK
  <2>2. TypeOK'
    BY <1>2, <2>1 DEF Lock, Goto, TypeInv, TypeOK, Locked
  <2>3. \A s \in Threads : IndexOK(s)'
    BY <1>2 DEF Lock, Goto, TypeInv, TypeOK, IndexOK
  <2> QED BY <2>2, <2>3 DEF TypeInv
<1>3. CASE SkipBlank(t)
  BY <1>3 DEF SkipBlank, Goto, TypeInv, TypeOK, IndexOK, Locked
<1> QED BY <1>1, <1>2, <1>3

LEMMA TypeInvPrepare ==
    ASSUME TypeInv, NEW t \in Threads, Prepare(t)
    PROVE  TypeInv'
<1> DEFINE u == CurrentUpdate(t)
           item == [path |-> Target(u), old |-> refs[Target(u)],
                    digest |-> u.digest, expected |-> u.expected]
           tmp == [owner |-> t, slot |-> Len(prepared[t]) + 1,
                   digest |-> u.digest]
<1>1. u \in Update /\ u.name # Blank /\ u.digest \in Digests
  BY DEF Prepare, TypeInv, TypeOK, CurrentUpdate, Rejected
<1>2. Target(u) \in Paths
  BY <1>1, RefConstants DEF Update, Target
<1>3. item \in Saved
  BY <1>1, <1>2 DEF Saved, Update, TypeInv, TypeOK
<1>4. tmp \in Temp
  BY <1>1 DEF Temp, TypeInv, TypeOK
<1>5. /\ prepared' = [prepared EXCEPT ![t] = Append(prepared[t], item)]
      /\ temps' = temps \cup {tmp}
      /\ pc' = [pc EXCEPT ![t] = "prepare"]
      /\ pos' = [pos EXCEPT ![t] = pos[t] + 1]
      /\ UNCHANGED <<refs, orphans, lock, batch>>
  BY DEF Prepare, Goto
<1> HIDE DEF u, item, tmp
<1>6. prepared[t] \in Seq(Saved) /\ pos[t] \in Nat
  BY DEF TypeInv, TypeOK
<1>7. Append(prepared[t], item) \in Seq(Saved)
  BY <1>3, <1>6
<1>8. TypeOK'
  <2>1. pc' \in [Threads -> Labels] /\ pos' \in [Threads -> Nat]
    BY <1>6, GotoType DEF Prepare, TypeInv, Labels, Locked
  <2>2. prepared' \in [Threads -> Seq(Saved)] /\ temps' \subseteq Temp
    BY <1>4, <1>5, <1>7 DEF TypeInv, TypeOK
  <2> QED BY <1>5, <2>1, <2>2 DEF TypeInv, TypeOK, Labels
<1>9. \A s \in Threads : IndexOK(s)'
  <2>1. pc[t] = "prepare" /\ pc \in [Threads -> Locked \cup {"idle", "waiting"}]
        /\ pos \in [Threads -> Nat] /\ DOMAIN prepared = Threads
    BY DEF Prepare, TypeInv, TypeOK
  <2>2. IndexOK(t)'
    BY <1>5, <1>6, <2>1 DEF IndexOK
  <2>3. ASSUME NEW s \in Threads, s # t PROVE IndexOK(s)'
    BY <1>5, <2>1, <2>3 DEF IndexOK, TypeInv
  <2> QED BY <2>2, <2>3
<1> QED BY <1>8, <1>9 DEF TypeInv

LEMMA TypeInvCommit ==
    ASSUME TypeInv, NEW t \in Threads,
           PrepareFails(t) \/ PrepareDone(t) \/ Rename(t) \/ RenameFails(t)
    PROVE  TypeInv'
<1>0. prepared[t] \in Seq(Saved) /\ pos[t] \in Nat /\ Len(prepared[t]) \in Nat
  BY DEF TypeInv, TypeOK
<1>1. CASE PrepareFails(t)
  BY <1>1 DEF PrepareFails, Goto, TypeInv, TypeOK, IndexOK, Locked
<1>2. CASE PrepareDone(t)
  <2>1. prepared[t] # <<>> => 1 \in 1..Len(prepared[t])
    BY <1>0
  <2>2. TypeOK'
    <3>1. pc' \in [Threads -> Labels] /\ pos' \in [Threads -> Nat]
      BY <1>2, GotoType DEF PrepareDone, TypeInv, Labels, Locked
    <3> QED BY <1>2, <3>1 DEF PrepareDone, TypeInv, TypeOK, Labels
  <2>3. CASE prepared[t] = <<>>
    BY <1>2, <2>2, <2>3 DEF PrepareDone, Goto, TypeInv, TypeOK, IndexOK
  <2>4. CASE prepared[t] # <<>>
    BY <1>2, <2>1, <2>2, <2>4 DEF PrepareDone, Goto, TypeInv, TypeOK, IndexOK
  <2> QED BY <2>3, <2>4
<1>3. CASE Rename(t)
  <2>1. pos[t] \in 1..Len(prepared[t])
    BY <1>3 DEF Rename, TypeInv, IndexOK
  <2>2. prepared[t][pos[t]] \in Saved
    BY <1>0, <2>1
  <2>3. refs' \in [Paths -> FileContent] /\ temps' \subseteq Temp
    BY <1>3, <2>2 DEF Rename, TypeInv, TypeOK, Saved, FileContent, Content
  <2>4. pos[t] # Len(prepared[t]) => pos[t] + 1 \in 1..Len(prepared[t])
    BY <1>0, <2>1
  <2>5. /\ pc' \in [Threads -> Locked \cup {"idle", "waiting"}]
        /\ pos' \in [Threads -> Nat]
    <3>1. CASE Goto(t, "cleanup", 0)
      BY <3>1, GotoType DEF TypeInv, Labels, Locked
    <3>2. CASE Goto(t, "commit", pos[t] + 1)
      BY <1>0, <3>2, GotoType DEF TypeInv, Labels, Locked
    <3> QED BY <1>3, <3>1, <3>2 DEF Rename
  <2>6. TypeOK'
    BY <1>3, <2>3, <2>5 DEF Rename, TypeInv, TypeOK
  <2>7. \A s \in Threads : IndexOK(s)'
    <3>1. CASE pos[t] = Len(prepared[t])
      BY <1>3, <3>1 DEF Rename, Goto, TypeInv, TypeOK, IndexOK
    <3>2. CASE pos[t] # Len(prepared[t])
      BY <1>3, <2>4, <3>2 DEF Rename, Goto, TypeInv, TypeOK, IndexOK
    <3> QED BY <3>1, <3>2
  <2> QED BY <2>6, <2>7 DEF TypeInv
<1>4. CASE RenameFails(t)
  <2>1. pos[t] \in 1..Len(prepared[t])
    BY <1>4 DEF RenameFails, TypeInv, IndexOK
  <2>2. pos[t] - 1 \in 0..Len(prepared[t]) /\ pos[t] - 1 \in Nat
    BY <1>0, <2>1
  <2> QED BY <1>4, <2>2 DEF RenameFails, Goto, TypeInv, TypeOK, IndexOK, Locked
<1> QED BY <1>1, <1>2, <1>3, <1>4

LEMMA TypeInvRollback ==
    ASSUME TypeInv, NEW t \in Threads,
           \/ Truncate(t) \/ Rewrite(t) \/ RemoveCreated(t)
           \/ RollbackFails(t) \/ RollbackDone(t)
    PROVE  TypeInv'
<1>0. prepared[t] \in Seq(Saved) /\ pos[t] \in Nat /\ Len(prepared[t]) \in Nat
  BY DEF TypeInv, TypeOK
<1>1. CASE RollbackDone(t)
  BY <1>1 DEF RollbackDone, Goto, TypeInv, TypeOK, IndexOK, Locked
<1>2. ~RollbackDone(t) => pos[t] \in 1..Len(prepared[t])
  BY <1>0 DEF Truncate, Rewrite, RemoveCreated, RollbackFails, TypeInv, IndexOK
<1>3. pos[t] \in 1..Len(prepared[t]) =>
        /\ prepared[t][pos[t]] \in Saved
        /\ pos[t] - 1 \in 0..Len(prepared[t]) /\ pos[t] - 1 \in Nat
  BY <1>0
<1>4. CASE Truncate(t)
  <2>1. refs' \in [Paths -> FileContent]
    BY <1>2, <1>3, <1>4 DEF Truncate, TypeInv, TypeOK, Saved, FileContent
  <2> QED BY <1>1, <1>2, <1>4, <2>1
          DEF Truncate, Goto, TypeInv, TypeOK, IndexOK, Locked
<1>5. CASE Rewrite(t)
  <2>1. refs' \in [Paths -> FileContent]
    BY <1>1, <1>2, <1>3, <1>5 DEF Rewrite, TypeInv, TypeOK, Saved, FileContent
  <2> QED BY <1>1, <1>2, <1>3, <1>5, <2>1
          DEF Rewrite, Goto, TypeInv, TypeOK, IndexOK, Locked
<1>6. CASE RemoveCreated(t)
  <2>1. refs' \in [Paths -> FileContent]
    BY <1>1, <1>2, <1>3, <1>6
       DEF RemoveCreated, TypeInv, TypeOK, Saved, FileContent, Content
  <2> QED BY <1>1, <1>2, <1>3, <1>6, <2>1
          DEF RemoveCreated, Goto, TypeInv, TypeOK, IndexOK, Locked
<1>7. CASE RollbackFails(t)
  BY <1>1, <1>2, <1>3, <1>7
     DEF RollbackFails, Goto, TypeInv, TypeOK, IndexOK, Locked
<1> QED BY <1>1, <1>4, <1>5, <1>6, <1>7

LEMMA TypeInvReturn ==
    ASSUME TypeInv, NEW t \in Threads, RemoveTemp(t) \/ Return(t)
    PROVE  TypeInv'
<1>1. CASE RemoveTemp(t)
  BY <1>1 DEF RemoveTemp, TypeInv, TypeOK, IndexOK
<1>2. CASE Return(t)
  <2>1. lock' \in [Procs -> Threads \cup {NoThread}]
    BY <1>2 DEF Return, TypeInv, TypeOK
  <2>2. TypeOK'
    BY <1>2, <2>1 DEF Return, Goto, TypeInv, TypeOK
  <2>3. \A s \in Threads : IndexOK(s)'
    BY <1>2 DEF Return, Goto, TypeInv, TypeOK, IndexOK
  <2> QED BY <2>2, <2>3 DEF TypeInv
<1> QED BY <1>1, <1>2

LEMMA TypeInvCrash ==
    ASSUME TypeInv, NEW p \in Procs, Crash(p)
    PROVE  TypeInv'
<1>1. temps' \subseteq Temp /\ orphans' \subseteq Digests
  BY DEF Crash, TypeInv, TypeOK, Temp
<1>2. /\ lock' \in [Procs -> Threads \cup {NoThread}]
      /\ pc' \in [Threads -> Locked \cup {"idle", "waiting"}]
      /\ pos' \in [Threads -> Nat]
  BY DEF Crash, TypeInv, TypeOK
<1>3. batch' \in [Threads -> Seq(Update)] /\ prepared' \in [Threads -> Seq(Saved)]
  BY DEF Crash, TypeInv, TypeOK
<1>4. TypeOK'
  BY <1>1, <1>2, <1>3 DEF Crash, TypeInv, TypeOK
<1>5. \A s \in Threads : IndexOK(s)'
  BY DEF Crash, TypeInv, TypeOK, IndexOK
<1> QED BY <1>4, <1>5 DEF TypeInv

LEMMA TypeInvStep == TypeInv /\ [TxnNext]_vars => TypeInv'
<1> SUFFICES ASSUME TypeInv, [TxnNext]_vars PROVE TypeInv'
  OBVIOUS
<1>1. CASE UNCHANGED vars
  BY <1>1 DEF vars, TypeInv, TypeOK, IndexOK
<1>2. ASSUME NEW t \in Threads, Call(t) \/ Lock(t) \/ Step(t) PROVE TypeInv'
  BY <1>2, TypeInvCall, TypeInvPrepare, TypeInvCommit, TypeInvRollback,
     TypeInvReturn DEF Step
<1>3. ASSUME NEW p \in Procs, Crash(p) PROVE TypeInv'
  BY <1>3, TypeInvCrash
<1> QED BY <1>1, <1>2, <1>3 DEF TxnNext

LEMMA TypeInvAlways == TxnSpec => []TypeInv
BY TypeInvInit, TypeInvStep, PTL DEF TxnSpec

(* Every reachable state is type correct; in particular a call never        *)
(* indexes outside its slice of saved refs, in any loop of                  *)
(* writeRefsIfExpected and after any failure.                               *)
THEOREM TypeCorrect == TxnSpec => []TypeOK
BY TypeInvAlways, PTL DEF TypeInv

-----------------------------------------------------------------------------
(***************************************************************************)
(* The compare-and-swap.  It holds because the threads of one process      *)
(* exclude each other from the first read to the last rename, and because  *)
(* no two updates of a batch end up in the same file.                      *)
(***************************************************************************)

Excluded == \A t \in Threads : pc[t] \in Locked => lock[ProcOf[t]] = t

BatchOK(t) == pc[t] # "idle" => batch[t] \in Batches

Holding(t) == pc[t] \in {"prepare", "commit", "rollback", "rewrite"}

(* What Prepare saved passed its check, and no file was saved twice. *)
SavedOK(t) ==
    Holding(t) =>
      /\ \A k \in DOMAIN prepared[t] :
            MatchesExpected(prepared[t][k], prepared[t][k].old)
      /\ \A j, k \in DOMAIN prepared[t] :
            prepared[t][j].path = prepared[t][k].path => j = k

(* While the first loop runs, each saved file is the file of an update     *)
(* that the loop has passed.                                               *)
SourceOK(t) ==
    pc[t] = "prepare" =>
      \A k \in DOMAIN prepared[t] :
        \E i \in 1..(pos[t] - 1) :
            i \in Named(batch[t]) /\ Target(batch[t][i]) = prepared[t][k].path

(* A file that was saved and not renamed yet still has the saved content. *)
CurrentOK(t) ==
    /\ pc[t] = "prepare" =>
          \A k \in DOMAIN prepared[t] : refs[prepared[t][k].path] = prepared[t][k].old
    /\ pc[t] = "commit" =>
          \A k \in pos[t]..Len(prepared[t]) :
              refs[prepared[t][k].path] = prepared[t][k].old

CasInv ==
    /\ TypeInv
    /\ Excluded
    /\ \A t \in Threads : BatchOK(t) /\ SavedOK(t) /\ SourceOK(t) /\ CurrentOK(t)

SingleProcess == \A s, t \in Threads : ProcOf[s] = ProcOf[t]

LEMMA CasInvInit == TxnInit => CasInv
BY TypeInvInit
   DEF TxnInit, CasInv, Excluded, BatchOK, SavedOK, SourceOK, CurrentOK,
       Holding, Locked

LEMMA CasInvHeads == CasInv => HeadsAsExpected
<1> SUFFICES ASSUME CasInv, NEW t \in Threads, pc[t] = "commit",
                    NEW k \in pos[t]..Len(prepared[t])
             PROVE  MatchesExpected(prepared[t][k], refs[prepared[t][k].path])
  BY DEF HeadsAsExpected
<1>1. k \in DOMAIN prepared[t]
  BY DEF CasInv, TypeInv, TypeOK, IndexOK
<1> QED BY <1>1 DEF CasInv, SavedOK, CurrentOK, Holding

(* At most one thread of a process is past Lock. *)
LEMMA OneHolder ==
    ASSUME SingleProcess, Excluded, NEW s \in Threads, NEW t \in Threads,
           pc[s] \in Locked, pc[t] \in Locked
    PROVE  s = t
BY DEF SingleProcess, Excluded

(* A step of t leaves the private state of the other threads alone. *)
OthersKept(t) ==
    \A s \in Threads \ {t} :
        /\ pc'[s] = pc[s] /\ pos'[s] = pos[s]
        /\ batch'[s] = batch[s] /\ prepared'[s] = prepared[s]

LEMMA StepKeepsOthers ==
    ASSUME TypeInv, NEW t \in Threads, Call(t) \/ Lock(t) \/ Step(t)
    PROVE  OthersKept(t)
BY DEF TypeInv, TypeOK, OthersKept, Call, Lock, Step, SkipBlank, Prepare,
       PrepareFails, PrepareDone, Rename, RenameFails, Truncate, Rewrite,
       RemoveCreated, RollbackFails, RollbackDone, RemoveTemp, Return, Goto

LEMMA ExcludedStep ==
    ASSUME TypeInv, Excluded, NEW t \in Threads, Call(t) \/ Lock(t) \/ Step(t)
    PROVE  Excluded'
<1>0. OthersKept(t)
  BY StepKeepsOthers
<1>1. CASE Lock(t)
  <2>1. lock' = [lock EXCEPT ![ProcOf[t]] = t] /\ lock[ProcOf[t]] = NoThread
        /\ ProcOf[t] \in Procs /\ DOMAIN lock = Procs
    BY <1>1, TxnConstants DEF Lock, TypeInv, TypeOK
  <2>2. ASSUME NEW s \in Threads, s # t, pc'[s] \in Locked
        PROVE  lock'[ProcOf[s]] = s
    <3>1. lock[ProcOf[s]] = s
      BY <1>0, <2>2 DEF Excluded, OthersKept
    <3>2. s # NoThread
      BY TxnConstants
    <3> QED BY <2>1, <3>1, <3>2
  <2>3. lock'[ProcOf[t]] = t
    BY <2>1
  <2> QED BY <2>2, <2>3 DEF Excluded
<1>2. CASE Return(t)
  <2>1. pc'[t] = "idle"
    BY <1>2 DEF Return, Goto, TypeInv, TypeOK
  <2>2. ASSUME NEW s \in Threads, s # t, pc'[s] \in Locked
        PROVE  lock'[ProcOf'[s]] = s
    BY <1>0, <1>2, <2>2, TxnConstants
       DEF Return, TypeInv, TypeOK, Excluded, OthersKept, Locked
  <2> QED BY <2>1, <2>2 DEF Excluded, Locked
<1>3. CASE lock' = lock /\ (pc'[t] \in Locked => pc[t] \in Locked)
  BY <1>0, <1>3 DEF Excluded, OthersKept
<1>4. CASE Call(t)
  BY <1>3, <1>4 DEF Call, Goto, TypeInv, TypeOK, Locked
<1>5. ~Call(t) /\ ~Lock(t) /\ ~Return(t) => lock' = lock /\ pc[t] \in Locked
  BY DEF Step, SkipBlank, Prepare, PrepareFails, PrepareDone, Rename,
         RenameFails, Truncate, Rewrite, RemoveCreated, RollbackFails,
         RollbackDone, RemoveTemp, Locked
<1> QED BY <1>1, <1>2, <1>3, <1>4, <1>5

LEMMA BatchStep ==
    ASSUME TypeInv, NEW t \in Threads, Call(t) \/ Lock(t) \/ Step(t),
           \A s \in Threads : BatchOK(s)
    PROVE  \A s \in Threads : BatchOK(s)'
<1>0. OthersKept(t)
  BY StepKeepsOthers
<1>1. CASE Call(t)
  <2>1. batch'[t] \in Batches
    BY <1>1 DEF Call, TypeInv, TypeOK
  <2> QED BY <1>0, <2>1 DEF BatchOK, OthersKept
<1>2. CASE Return(t)
  BY <1>0, <1>2 DEF Return, Goto, TypeInv, TypeOK, BatchOK, OthersKept
<1>3. ~Call(t) /\ ~Return(t) => batch' = batch /\ pc[t] # "idle"
  BY DEF Lock, Step, SkipBlank, Prepare, PrepareFails, PrepareDone, Rename,
         RenameFails, Truncate, Rewrite, RemoveCreated, RollbackFails,
         RollbackDone, RemoveTemp
<1> QED BY <1>0, <1>1, <1>2, <1>3 DEF BatchOK, OthersKept

(* The other threads are not past Lock, so nothing is claimed of them. *)
LEMMA OthersUnclaimed ==
    ASSUME SingleProcess, CasInv, NEW t \in Threads, pc[t] \in Locked,
           Step(t), NEW s \in Threads, s # t
    PROVE  SavedOK(s)' /\ SourceOK(s)' /\ CurrentOK(s)'
<1>1. pc[s] \notin Locked
  BY OneHolder DEF CasInv
<1>2. pc'[s] = pc[s]
  BY StepKeepsOthers DEF CasInv, OthersKept
<1> QED BY <1>1, <1>2 DEF SavedOK, SourceOK, CurrentOK, Holding, Locked

LEMMA PrepareCas ==
    ASSUME SingleProcess, CasInv, NEW t \in Threads, Prepare(t)
    PROVE  SavedOK(t)' /\ SourceOK(t)' /\ CurrentOK(t)'
<1> DEFINE u == CurrentUpdate(t)
           n == Len(prepared[t])
           item == [path |-> Target(u), old |-> refs[Target(u)],
                    digest |-> u.digest, expected |-> u.expected]
<1>1. /\ pc[t] = "prepare" /\ pos[t] \in DOMAIN batch[t]
      /\ u.name # Blank /\ ~Rejected(t, u)
      /\ prepared'[t] = Append(prepared[t], item)
      /\ pc'[t] = "prepare" /\ pos'[t] = pos[t] + 1
      /\ refs' = refs /\ batch' = batch
  BY DEF Prepare, Goto, CasInv, TypeInv, TypeOK
<1>2. pos[t] \in Nat \ {0} /\ n \in Nat /\ prepared[t] \in Seq(Saved)
      /\ batch[t] \in Batches /\ batch[t] \in Seq(Update)
  BY <1>1 DEF CasInv, TypeInv, TypeOK, IndexOK, BatchOK
<1>3. u \in Update /\ pos[t] \in Named(batch[t])
  BY <1>1, <1>2 DEF CurrentUpdate, Named
<1>4. /\ DOMAIN prepared'[t] = 1..(n + 1)
      /\ prepared'[t][n + 1] = item
      /\ \A k \in 1..n : prepared'[t][k] = prepared[t][k]
      /\ DOMAIN prepared[t] = 1..n
  BY <1>1, <1>2
<1>5. item.path = Target(u) /\ item.old = refs[Target(u)]
      /\ item.expected = u.expected
  OBVIOUS
<1>6. MatchesExpected(item, item.old)
  BY <1>1, <1>5 DEF MatchesExpected, Rejected, Conflicts
<1>7. \A k \in 1..n : prepared[t][k].path # item.path
  <2> SUFFICES ASSUME NEW k \in 1..n, prepared[t][k].path = Target(u)
               PROVE  FALSE
    BY <1>5
  <2>1. PICK i \in 1..(pos[t] - 1) :
            i \in Named(batch[t]) /\ Target(batch[t][i]) = prepared[t][k].path
    BY <1>1, <1>4 DEF CasInv, SourceOK
  <2>2. batch[t][i].name = u.name
    BY <1>1, <2>1 DEF Rejected, Collides
  <2>3. i = pos[t]
    BY <1>2, <1>3, <2>1, <2>2, TxnConstants DEF CurrentUpdate
  <2> QED BY <1>2, <2>1, <2>3
<1> HIDE DEF u, n, item
<1>8. SavedOK(t)'
  <2>1. \A k \in 1..n : MatchesExpected(prepared[t][k], prepared[t][k].old)
    BY <1>1, <1>4 DEF CasInv, SavedOK, Holding
  <2>2. \A j, k \in 1..n : prepared[t][j].path = prepared[t][k].path => j = k
    BY <1>1, <1>4 DEF CasInv, SavedOK, Holding
  <2>3. \A k \in 1..(n + 1) : k \in 1..n \/ k = n + 1
    BY <1>2
  <2>4. \A k \in 1..(n + 1) :
            MatchesExpected(prepared'[t][k], prepared'[t][k].old)
    BY <1>4, <1>6, <2>1, <2>3
  <2>5. \A j, k \in 1..(n + 1) :
            prepared'[t][j].path = prepared'[t][k].path => j = k
    BY <1>4, <1>7, <2>2, <2>3
  <2> QED BY <1>4, <2>4, <2>5 DEF SavedOK, MatchesExpected
<1>9. SourceOK(t)'
  <2> SUFFICES ASSUME NEW k \in 1..(n + 1)
               PROVE  \E i \in 1..pos[t] :
                        /\ i \in Named(batch[t])
                        /\ Target(batch[t][i]) = prepared'[t][k].path
    BY <1>1, <1>2, <1>4 DEF SourceOK, Named, Target
  <2>1. CASE k = n + 1
    BY <1>2, <1>3, <1>4, <1>5, <2>1 DEF u, CurrentUpdate
  <2>2. CASE k \in 1..n
    <3>1. PICK i \in 1..(pos[t] - 1) :
            i \in Named(batch[t]) /\ Target(batch[t][i]) = prepared[t][k].path
      BY <1>1, <1>4, <2>2 DEF CasInv, SourceOK
    <3>2. i \in 1..pos[t]
      BY <1>2
    <3> QED BY <1>4, <2>2, <3>1, <3>2
  <2> QED BY <1>2, <2>1, <2>2
<1>10. CurrentOK(t)'
  <2>1. \A k \in 1..n : refs[prepared[t][k].path] = prepared[t][k].old
    BY <1>1, <1>4 DEF CasInv, CurrentOK
  <2>2. \A k \in 1..(n + 1) : k \in 1..n \/ k = n + 1
    BY <1>2
  <2> QED BY <1>1, <1>4, <1>5, <2>1, <2>2 DEF CurrentOK
<1> QED BY <1>8, <1>9, <1>10

LEMMA RenameCas ==
    ASSUME SingleProcess, CasInv, NEW t \in Threads, Rename(t)
    PROVE  SavedOK(t)' /\ SourceOK(t)' /\ CurrentOK(t)'
<1> DEFINE i == pos[t]
           n == Len(prepared[t])
<1>1. /\ pc[t] = "commit" /\ prepared' = prepared
      /\ refs' = [refs EXCEPT ![prepared[t][i].path] = prepared[t][i].digest]
      /\ \/ pc'[t] = "cleanup"
         \/ pc'[t] = "commit" /\ pos'[t] = i + 1
  BY DEF Rename, Goto, CasInv, TypeInv, TypeOK
<1>2. i \in 1..n /\ n \in Nat /\ prepared[t] \in Seq(Saved) /\ DOMAIN prepared[t] = 1..n
  BY <1>1 DEF CasInv, TypeInv, TypeOK, IndexOK
<1>3. SavedOK(t)' /\ SourceOK(t)'
  BY <1>1 DEF CasInv, SavedOK, SourceOK, Holding, MatchesExpected
<1>4. ASSUME NEW k \in (i + 1)..n
      PROVE  refs'[prepared[t][k].path] = prepared[t][k].old
  <2>1. k \in 1..n /\ k \in i..n /\ k # i
    BY <1>2
  <2>2. prepared[t][k].path # prepared[t][i].path
    BY <1>1, <1>2, <2>1 DEF CasInv, SavedOK, Holding
  <2>3. prepared[t][k].path \in Paths /\ refs \in [Paths -> FileContent]
    <3>1. prepared[t][k] \in Saved
      BY <1>2, <2>1
    <3> QED BY <3>1 DEF CasInv, TypeInv, TypeOK, Saved
  <2>4. refs[prepared[t][k].path] = prepared[t][k].old
    BY <1>1, <2>1 DEF CasInv, CurrentOK
  <2> QED BY <1>1, <2>2, <2>3, <2>4
<1> QED BY <1>1, <1>3, <1>4 DEF CurrentOK

LEMMA StepCas ==
    ASSUME SingleProcess, CasInv, NEW t \in Threads, Step(t)
    PROVE  SavedOK(t)' /\ SourceOK(t)' /\ CurrentOK(t)'
<1>0. TypeOK /\ IndexOK(t) /\ SavedOK(t) /\ SourceOK(t) /\ CurrentOK(t)
  BY DEF CasInv, TypeInv
<1>1. CASE SkipBlank(t)
  <2>1. /\ pc[t] = "prepare" /\ pc'[t] = "prepare" /\ pos'[t] = pos[t] + 1
        /\ prepared' = prepared /\ batch' = batch /\ refs' = refs
        /\ pos[t] \in Nat
    BY <1>0, <1>1 DEF SkipBlank, Goto, TypeOK
  <2>2. \A k \in 1..(pos[t] - 1) : k \in 1..(pos'[t] - 1)
    BY <2>1
  <2>3. SourceOK(t)'
    BY <1>0, <2>1, <2>2 DEF SourceOK, Named, Target
  <2> QED BY <1>0, <2>1, <2>3 DEF SavedOK, CurrentOK, Holding, MatchesExpected
<1>2. CASE Prepare(t)
  BY <1>2, PrepareCas
<1>3. CASE Rename(t)
  BY <1>3, RenameCas
<1>4. CASE PrepareDone(t)
  <2>1. /\ pc[t] = "prepare" /\ prepared' = prepared /\ refs' = refs
        /\ pc'[t] = "cleanup" \/ (pc'[t] = "commit" /\ pos'[t] = 1)
    <3>1. CASE Goto(t, "cleanup", 0)
      BY <1>0, <1>4, <3>1 DEF PrepareDone, Goto, TypeOK
    <3>2. CASE Goto(t, "commit", 1)
      BY <1>0, <1>4, <3>2 DEF PrepareDone, Goto, TypeOK
    <3> QED BY <1>4, <3>1, <3>2 DEF PrepareDone
  <2>2. DOMAIN prepared[t] = 1..Len(prepared[t])
    BY <1>0 DEF TypeOK
  <2> QED BY <1>0, <2>1, <2>2
          DEF SavedOK, SourceOK, CurrentOK, Holding, MatchesExpected
<1>5. CASE RenameFails(t) \/ Truncate(t) \/ Rewrite(t) \/ RemoveCreated(t)
           \/ RollbackFails(t)
  <2>1. Holding(t) /\ prepared' = prepared /\ pc'[t] \in {"rollback", "rewrite"}
    BY <1>0, <1>5 DEF RenameFails, Truncate, Rewrite, RemoveCreated,
                      RollbackFails, Goto, TypeOK, Holding
  <2> QED BY <1>0, <2>1 DEF SavedOK, SourceOK, CurrentOK, MatchesExpected
<1>6. CASE PrepareFails(t) \/ RollbackDone(t) \/ RemoveTemp(t) \/ Return(t)
  <2>1. pc'[t] \in {"cleanup", "idle"}
    BY <1>0, <1>6 DEF PrepareFails, RollbackDone, RemoveTemp, Return, Goto, TypeOK
  <2> QED BY <2>1 DEF SavedOK, SourceOK, CurrentOK, Holding
<1> QED BY <1>1, <1>2, <1>3, <1>4, <1>5, <1>6 DEF Step

(* A call that has not entered its critical section has saved nothing. *)
LEMMA CallCas ==
    ASSUME CasInv, NEW t \in Threads, Call(t) \/ Lock(t), NEW s \in Threads
    PROVE  SavedOK(s)' /\ SourceOK(s)' /\ CurrentOK(s)'
<1>1. prepared' = prepared /\ refs' = refs
  BY DEF Call, Lock
<1>2. CASE s = t
  <2>1. prepared[t] = <<>> /\ pc'[t] \in {"waiting", "prepare"}
    BY DEF Call, Lock, Goto, CasInv, TypeInv, TypeOK, IndexOK
  <2> QED BY <1>1, <1>2, <2>1 DEF SavedOK, SourceOK, CurrentOK
<1>3. CASE s # t
  <2>1. pc'[s] = pc[s] /\ pos'[s] = pos[s] /\ batch'[s] = batch[s]
    BY <1>3, StepKeepsOthers DEF CasInv, OthersKept
  <2> QED BY <1>1, <2>1
          DEF CasInv, SavedOK, SourceOK, CurrentOK, Holding, MatchesExpected,
              Named, Target
<1> QED BY <1>2, <1>3

LEMMA CrashCas ==
    ASSUME CasInv, NEW p \in Procs, Crash(p)
    PROVE  CasInv'
<1>1. TypeInv'
  BY TypeInvCrash DEF CasInv
<1>2. ASSUME NEW s \in Threads, ProcOf[s] = p
      PROVE  pc'[s] = "idle"
  BY <1>2 DEF Crash
<1>3. ASSUME NEW s \in Threads, ProcOf[s] # p
      PROVE  /\ pc'[s] = pc[s] /\ pos'[s] = pos[s] /\ batch'[s] = batch[s]
             /\ prepared'[s] = prepared[s] /\ lock'[ProcOf[s]] = lock[ProcOf[s]]
  BY <1>3, TxnConstants DEF Crash, CasInv, TypeInv, TypeOK
<1>4. refs' = refs
  BY DEF Crash
<1>5. Excluded'
  BY <1>2, <1>3 DEF CasInv, Excluded, Locked
<1>6. ASSUME NEW s \in Threads
      PROVE  BatchOK(s)' /\ SavedOK(s)' /\ SourceOK(s)' /\ CurrentOK(s)'
  <2>1. CASE ProcOf[s] = p
    BY <1>2, <2>1 DEF BatchOK, SavedOK, SourceOK, CurrentOK, Holding
  <2>2. CASE ProcOf[s] # p
    BY <1>3, <1>4, <2>2
       DEF CasInv, BatchOK, SavedOK, SourceOK, CurrentOK, Holding,
           MatchesExpected, Named, Target
  <2> QED BY <2>1, <2>2
<1> QED BY <1>1, <1>5, <1>6 DEF CasInv

LEMMA CasInvStep ==
    ASSUME SingleProcess, CasInv, [TxnNext]_vars
    PROVE  CasInv'
<1>1. CASE UNCHANGED vars
  BY <1>1, TypeInvStep
     DEF vars, CasInv, Excluded, BatchOK, SavedOK, SourceOK, CurrentOK, Holding,
         MatchesExpected, Named, Target
<1>2. ASSUME NEW t \in Threads, Call(t) \/ Lock(t) \/ Step(t) PROVE CasInv'
  <2>1. TypeInv'
    BY <1>2, TypeInvStep DEF CasInv, TxnNext
  <2>2. Excluded'
    BY <1>2, ExcludedStep DEF CasInv
  <2>3. \A s \in Threads : BatchOK(s)'
    BY <1>2, BatchStep DEF CasInv
  <2>4. ASSUME NEW s \in Threads PROVE SavedOK(s)' /\ SourceOK(s)' /\ CurrentOK(s)'
    <3>1. CASE Call(t) \/ Lock(t)
      BY <3>1, CallCas
    <3>2. CASE Step(t)
      <4>1. pc[t] \in Locked
        BY <3>2 DEF Step, SkipBlank, Prepare, PrepareFails, PrepareDone, Rename,
               RenameFails, Truncate, Rewrite, RemoveCreated, RollbackFails,
               RollbackDone, RemoveTemp, Return, Locked
      <4>2. CASE s = t
        BY <3>2, <4>2, StepCas
      <4>3. CASE s # t
        BY <3>2, <4>1, <4>3, OthersUnclaimed
      <4> QED BY <4>2, <4>3
    <3> QED BY <1>2, <3>1, <3>2
  <2> QED BY <2>1, <2>2, <2>3, <2>4 DEF CasInv
<1>3. ASSUME NEW p \in Procs, Crash(p) PROVE CasInv'
  BY <1>3, CrashCas
<1> QED BY <1>1, <1>2, <1>3 DEF TxnNext

(* In a workspace that a single process writes, every rename of a          *)
(* conditional update replaces the digest the caller expected (or creates  *)
(* the ref), under any interleaving of the process's goroutines and any    *)
(* mix of failed preparations, renames and rollbacks, and of crashes.      *)
THEOREM SwapsRespectExpected ==
    ASSUME SingleProcess
    PROVE  TxnSpec => []HeadsAsExpected
<1>1. CasInv /\ [TxnNext]_vars => CasInv'
  BY CasInvStep
<1> QED BY <1>1, CasInvInit, CasInvHeads, PTL DEF TxnSpec

-----------------------------------------------------------------------------
(***************************************************************************)
(* Temporary files.  No call leaves one behind: each is renamed, or        *)
(* removed by the deferred loop before the mutex is released.              *)
(***************************************************************************)
LEMMA TempsInit == TxnInit => TempsBelongToCalls
BY DEF TxnInit, TempsBelongToCalls

LEMMA TempsStep ==
    ASSUME "crash" \notin Faults, TypeInv, TempsBelongToCalls, [TxnNext]_vars
    PROVE  TempsBelongToCalls'
<1>1. CASE UNCHANGED vars
  BY <1>1 DEF vars, TempsBelongToCalls
<1>2. ASSUME NEW t \in Threads, Call(t) \/ Lock(t) \/ Step(t)
      PROVE  TempsBelongToCalls'
  <2>0. OthersKept(t)
    BY <1>2, StepKeepsOthers
  <2>1. \A tmp \in temps : tmp.owner \in Threads
    BY DEF TypeInv, TypeOK, Temp
  <2>2. CASE Prepare(t)
    <3>1. \A tmp \in temps' : tmp \in temps \/ tmp.owner = t
      BY <2>2 DEF Prepare
    <3>2. pc'[t] = "prepare" /\ orphans' = orphans
      BY <2>2 DEF Prepare, Goto, TypeInv, TypeOK
    <3> QED BY <2>0, <2>1, <3>1, <3>2
            DEF TempsBelongToCalls, OthersKept, Locked
  <2>3. CASE Return(t)
    <3>1. temps' = temps /\ orphans' = orphans /\ \A tmp \in temps : tmp.owner # t
      BY <2>3 DEF Return, TempsOf
    <3> QED BY <2>0, <2>1, <3>1 DEF TempsBelongToCalls, OthersKept
  <2>4. CASE ~Prepare(t) /\ ~Return(t)
    <3> DEFINE Kept == /\ temps' \subseteq temps /\ orphans' = orphans
                       /\ pc[t] \in Locked => pc'[t] \in Locked
    <3>1. Kept
      <4>1. CASE Call(t) \/ Lock(t) \/ SkipBlank(t) \/ PrepareFails(t)
        BY <4>1 DEF Call, Lock, SkipBlank, PrepareFails, Goto, TypeInv, TypeOK,
                    Locked
      <4>2. CASE PrepareDone(t) \/ Rename(t) \/ RenameFails(t)
        BY <4>2 DEF PrepareDone, Rename, RenameFails, Goto, TypeInv, TypeOK,
                    Locked
      <4>3. CASE \/ Truncate(t) \/ Rewrite(t) \/ RemoveCreated(t)
                 \/ RollbackFails(t) \/ RollbackDone(t)
        BY <4>3 DEF Truncate, Rewrite, RemoveCreated, RollbackFails,
                    RollbackDone, Goto, TypeInv, TypeOK, Locked
      <4>4. CASE RemoveTemp(t)
        BY <4>4 DEF RemoveTemp
      <4> QED BY <1>2, <2>4, <4>1, <4>2, <4>3, <4>4 DEF Step
    <3> QED BY <2>0, <2>1, <3>1 DEF TempsBelongToCalls, OthersKept
  <2> QED BY <2>2, <2>3, <2>4
<1>3. ASSUME NEW p \in Procs, Crash(p) PROVE FALSE
  BY <1>3 DEF Crash
<1> QED BY <1>1, <1>2, <1>3 DEF TxnNext

(* As long as no process dies, a temporary file in .osix/refs belongs to a *)
(* call that is still running, with any number of processes and whatever   *)
(* else fails: listRefs never finds one that was left behind.              *)
THEOREM NoTempLeftBehind ==
    ASSUME "crash" \notin Faults
    PROVE  TxnSpec => []TempsBelongToCalls
<1>1. TypeInv /\ TempsBelongToCalls /\ [TxnNext]_vars => TempsBelongToCalls'
  BY TempsStep
<1> QED BY <1>1, TempsInit, TypeInvAlways, PTL DEF TxnSpec

-----------------------------------------------------------------------------
(***************************************************************************)
(* The refinement.  The saved refs are exactly the named updates that the  *)
(* first loop has passed, one file each; the refs that were renamed hold   *)
(* their new digests until a rollback; so the last rename completes the    *)
(* whole batch, and a complete rollback leaves nothing of it.              *)
(***************************************************************************)

Passed(t) ==
    IF pc[t] = "prepare" THEN {i \in Named(batch[t]) : i < pos[t]}
                         ELSE Named(batch[t])

SavedAs(item, update) ==
    /\ item.path = Target(update)
    /\ item.digest = update.digest
    /\ item.expected = update.expected

MatchOK(t) ==
    Holding(t) =>
      /\ \A i \in Passed(t) : \E k \in DOMAIN prepared[t] :
            SavedAs(prepared[t][k], batch[t][i])
      /\ \A k \in DOMAIN prepared[t] : \E i \in Passed(t) :
            SavedAs(prepared[t][k], batch[t][i])
      /\ \A i, j \in Passed(t) : Target(batch[t][i]) = Target(batch[t][j]) => i = j

RenamedOK(t) ==
    pc[t] = "commit" =>
      \A k \in 1..(pos[t] - 1) : refs[prepared[t][k].path] = prepared[t][k].digest

RefineInv ==
    CasInv /\ \A t \in Threads : MatchOK(t) /\ RenamedOK(t)

LEMMA RefineInvInit == TxnInit => RefineInv
BY CasInvInit DEF TxnInit, RefineInv, MatchOK, RenamedOK, Holding

LEMMA PrepareMatch ==
    ASSUME RefineInv, NEW t \in Threads, Prepare(t)
    PROVE  MatchOK(t)'
<1> DEFINE u == CurrentUpdate(t)
           n == Len(prepared[t])
           item == [path |-> Target(u), old |-> refs[Target(u)],
                    digest |-> u.digest, expected |-> u.expected]
<1>1. /\ pc[t] = "prepare" /\ pos[t] \in DOMAIN batch[t]
      /\ u.name # Blank /\ ~Rejected(t, u)
      /\ prepared'[t] = Append(prepared[t], item)
      /\ pc'[t] = "prepare" /\ pos'[t] = pos[t] + 1 /\ batch' = batch
  BY DEF Prepare, Goto, RefineInv, CasInv, TypeInv, TypeOK
<1>2. pos[t] \in Nat \ {0} /\ n \in Nat /\ prepared[t] \in Seq(Saved)
      /\ batch[t] \in Batches /\ batch[t] \in Seq(Update)
  BY <1>1 DEF RefineInv, CasInv, TypeInv, TypeOK, IndexOK, BatchOK
<1>3. /\ DOMAIN prepared'[t] = 1..(n + 1) /\ DOMAIN prepared[t] = 1..n
      /\ prepared'[t][n + 1] = item
      /\ \A k \in 1..n : prepared'[t][k] = prepared[t][k]
  BY <1>1, <1>2
<1>4. SavedAs(item, batch[t][pos[t]])
  BY DEF SavedAs, CurrentUpdate
<1>5. pos[t] \in Named(batch[t])
  BY <1>1 DEF Named, CurrentUpdate
<1>6. Named(batch[t]) \subseteq Nat
  BY <1>2 DEF Named
<1>7. Passed(t)' = Passed(t) \cup {pos[t]}
  <2>1. Passed(t) = {i \in Named(batch[t]) : i < pos[t]}
    BY <1>1 DEF Passed
  <2>2. Passed(t)' = {i \in Named(batch[t]) : i < pos[t] + 1}
    BY <1>1 DEF Passed, Named
  <2> QED BY <1>2, <1>5, <1>6, <2>1, <2>2
<1>8. MatchOK(t) /\ Holding(t)
  BY <1>1 DEF RefineInv, Holding
<1>9. \A i \in Passed(t) : Target(batch[t][i]) # Target(u)
  <2> SUFFICES ASSUME NEW i \in Passed(t), Target(batch[t][i]) = Target(u)
               PROVE  FALSE
    OBVIOUS
  <2>1. i \in Named(batch[t]) /\ i \in 1..(pos[t] - 1)
    BY <1>1, <1>2 DEF Passed, Named
  <2>2. batch[t][i].name = u.name
    BY <1>1, <2>1 DEF Rejected, Collides
  <2>3. i = pos[t]
    BY <1>2, <1>5, <2>1, <2>2, TxnConstants DEF CurrentUpdate
  <2> QED BY <1>2, <2>1, <2>3
<1> HIDE DEF item, n
<1>10. \A i \in Passed(t)' : \E k \in 1..(n + 1) :
            SavedAs(prepared'[t][k], batch[t][i])
  <2>1. ASSUME NEW i \in Passed(t)
        PROVE  \E k \in 1..(n + 1) : SavedAs(prepared'[t][k], batch[t][i])
    <3>1. PICK k \in 1..n : SavedAs(prepared[t][k], batch[t][i])
      BY <1>3, <1>8 DEF MatchOK
    <3>2. k \in 1..(n + 1)
      BY <1>2
    <3> QED BY <1>3, <3>1, <3>2
  <2>2. n + 1 \in 1..(n + 1)
    BY <1>2
  <2> QED BY <1>3, <1>4, <1>7, <2>1, <2>2
<1>11. \A k \in 1..(n + 1) : \E i \in Passed(t)' :
            SavedAs(prepared'[t][k], batch[t][i])
  <2>1. \A k \in 1..(n + 1) : k \in 1..n \/ k = n + 1
    BY <1>2
  <2>2. ASSUME NEW k \in 1..n
        PROVE  \E i \in Passed(t) : SavedAs(prepared'[t][k], batch[t][i])
    BY <1>3, <1>8 DEF MatchOK
  <2> QED BY <1>3, <1>4, <1>7, <2>1, <2>2
<1>12. \A i, j \in Passed(t)' :
            Target(batch[t][i]) = Target(batch[t][j]) => i = j
  BY <1>7, <1>8, <1>9 DEF MatchOK, CurrentUpdate
<1> QED BY <1>1, <1>3, <1>10, <1>11, <1>12 DEF MatchOK, SavedAs, Target

(* The updates are looked at in the first loop only. *)
LEMMA StepMatch ==
    ASSUME RefineInv, NEW t \in Threads, Step(t)
    PROVE  MatchOK(t)'
<1>0. TypeOK /\ IndexOK(t) /\ MatchOK(t)
  BY DEF RefineInv, CasInv, TypeInv
<1>1. CASE Prepare(t)
  BY <1>1, PrepareMatch
<1>2. CASE PrepareFails(t) \/ RollbackDone(t) \/ RemoveTemp(t) \/ Return(t)
  <2>1. pc'[t] \in {"cleanup", "idle"}
    BY <1>0, <1>2 DEF PrepareFails, RollbackDone, RemoveTemp, Return, Goto, TypeOK
  <2> QED BY <2>1 DEF MatchOK, Holding
<1>3. ASSUME prepared' = prepared, batch' = batch, Passed(t)' = Passed(t),
             Holding(t)
      PROVE  MatchOK(t)'
  BY <1>0, <1>3 DEF MatchOK, SavedAs, Target
<1>4. CASE SkipBlank(t)
  <2>1. /\ pc[t] = "prepare" /\ pc'[t] = "prepare" /\ pos'[t] = pos[t] + 1
        /\ prepared' = prepared /\ batch' = batch
        /\ pos[t] \in Nat /\ pos[t] \notin Named(batch[t])
        /\ batch[t] \in Seq(Update)
    BY <1>0, <1>4 DEF SkipBlank, Goto, TypeOK, Named, CurrentUpdate
  <2>2. Named(batch[t]) \subseteq Nat
    BY <2>1 DEF Named
  <2>3. Passed(t)' = Passed(t)
    BY <2>1, <2>2 DEF Passed, Named
  <2> QED BY <1>3, <2>1, <2>3 DEF Holding
<1>5. CASE PrepareDone(t)
  <2>1. /\ pc[t] = "prepare" /\ pc'[t] \in {"cleanup", "commit"}
        /\ prepared' = prepared /\ batch' = batch
        /\ pos[t] \in Nat \ {0} /\ pos[t] \notin DOMAIN batch[t]
        /\ batch[t] \in Seq(Update)
    BY <1>0, <1>5 DEF PrepareDone, Goto, TypeOK, IndexOK
  <2>2. \A i \in DOMAIN batch[t] : i < pos[t]
    BY <2>1
  <2>3. Passed(t)' = Passed(t)
    BY <2>1, <2>2 DEF Passed, Named
  <2> QED BY <1>3, <2>1, <2>3 DEF Holding
<1>6. CASE \/ Rename(t) \/ RenameFails(t) \/ Truncate(t) \/ Rewrite(t)
           \/ RemoveCreated(t) \/ RollbackFails(t)
  <2>1. /\ pc[t] \in {"commit", "rollback", "rewrite"}
        /\ pc'[t] \in {"commit", "rollback", "rewrite", "cleanup"}
        /\ prepared' = prepared /\ batch' = batch
    BY <1>0, <1>6 DEF Rename, RenameFails, Truncate, Rewrite, RemoveCreated,
                      RollbackFails, Goto, TypeOK
  <2>2. Passed(t)' = Passed(t)
    BY <2>1 DEF Passed, Named
  <2> QED BY <1>3, <2>1, <2>2 DEF Holding
<1> QED BY <1>1, <1>2, <1>4, <1>5, <1>6 DEF Step

LEMMA StepRenamed ==
    ASSUME RefineInv, NEW t \in Threads, Step(t)
    PROVE  RenamedOK(t)'
<1>0. TypeOK /\ IndexOK(t) /\ SavedOK(t) /\ RenamedOK(t)
  BY DEF RefineInv, CasInv, TypeInv
<1>1. CASE Rename(t)
  <2> DEFINE i == pos[t]
             n == Len(prepared[t])
  <2>1. /\ pc[t] = "commit" /\ prepared' = prepared
        /\ refs' = [refs EXCEPT ![prepared[t][i].path] = prepared[t][i].digest]
        /\ \/ pc'[t] = "cleanup"
           \/ pc'[t] = "commit" /\ pos'[t] = i + 1
    BY <1>0, <1>1 DEF Rename, Goto, TypeOK
  <2>2. i \in 1..n /\ n \in Nat /\ prepared[t] \in Seq(Saved)
        /\ DOMAIN prepared[t] = 1..n
    BY <1>0, <2>1 DEF TypeOK, IndexOK
  <2>3. ASSUME NEW k \in 1..i
        PROVE  refs'[prepared[t][k].path] = prepared[t][k].digest
    <3>1. k \in 1..n /\ (k = i \/ k \in 1..(i - 1))
      BY <2>2
    <3>2. prepared[t][k] \in Saved
      BY <2>2, <3>1
    <3>3. prepared[t][k].path \in DOMAIN refs
      BY <1>0, <3>2 DEF Saved, TypeOK
    <3>4. CASE k = i
      BY <2>1, <3>3, <3>4
    <3>5. CASE k \in 1..(i - 1)
      <4>1. k # i
        BY <2>2, <3>5
      <4>2. prepared[t][k].path # prepared[t][i].path
        BY <1>0, <2>1, <2>2, <3>1, <4>1 DEF SavedOK, Holding
      <4>3. refs[prepared[t][k].path] = prepared[t][k].digest
        BY <1>0, <2>1, <3>5 DEF RenamedOK
      <4> QED BY <2>1, <3>3, <4>2, <4>3
    <3> QED BY <3>1, <3>4, <3>5
  <2>4. (i + 1) - 1 = i
    BY <2>2
  <2> QED BY <2>1, <2>3, <2>4 DEF RenamedOK
<1>2. CASE PrepareDone(t)
  <2>1. pc'[t] = "commit" => pos'[t] = 1
    BY <1>0, <1>2 DEF PrepareDone, Goto, TypeOK
  <2> QED BY <2>1 DEF RenamedOK
<1>3. ~Rename(t) /\ ~PrepareDone(t) => pc'[t] # "commit"
  BY <1>0 DEF Step, SkipBlank, Prepare, PrepareFails, RenameFails, Truncate,
         Rewrite, RemoveCreated, RollbackFails, RollbackDone, RemoveTemp,
         Return, Goto, TypeOK
<1> QED BY <1>1, <1>2, <1>3 DEF RenamedOK

LEMMA RefineInvStep ==
    ASSUME SingleProcess, "crash" \notin Faults, RefineInv, [TxnNext]_vars
    PROVE  RefineInv'
<1>0. CasInv'
  BY CasInvStep DEF RefineInv
<1>1. CASE UNCHANGED vars
  BY <1>0, <1>1 DEF vars, RefineInv, MatchOK, RenamedOK, Holding, Passed, Named,
                    SavedAs, Target
<1>2. ASSUME NEW t \in Threads, Call(t) \/ Lock(t) \/ Step(t), NEW s \in Threads
      PROVE  MatchOK(s)' /\ RenamedOK(s)'
  <2>1. OthersKept(t)
    BY <1>2, StepKeepsOthers DEF RefineInv, CasInv
  <2>2. CASE Step(t)
    <3>1. CASE s = t
      BY <2>2, <3>1, StepMatch, StepRenamed
    <3>2. CASE s # t
      <4>1. pc[t] \in Locked
        BY <2>2 DEF Step, SkipBlank, Prepare, PrepareFails, PrepareDone, Rename,
               RenameFails, Truncate, Rewrite, RemoveCreated, RollbackFails,
               RollbackDone, RemoveTemp, Return, Locked
      <4>2. pc'[s] \notin Locked
        BY <2>1, <3>2, <4>1, OneHolder DEF RefineInv, CasInv, OthersKept
      <4> QED BY <4>2 DEF MatchOK, RenamedOK, Holding, Locked
    <3> QED BY <3>1, <3>2
  <2>3. CASE Call(t) \/ Lock(t)
    <3>1. prepared' = prepared /\ refs' = refs
      BY <2>3 DEF Call, Lock
    <3>2. CASE s = t
      <4>1. prepared[t] = <<>> /\ batch[t] \in Seq(Update)
            /\ (pc'[t] = "waiting" \/ (pc'[t] = "prepare" /\ pos'[t] = 1
                                       /\ batch' = batch))
        BY <2>3 DEF Call, Lock, Goto, RefineInv, CasInv, TypeInv, TypeOK, IndexOK
      <4>2. pc'[t] = "prepare" => Passed(t)' = {}
        BY <4>1 DEF Passed, Named
      <4> QED BY <3>1, <3>2, <4>1, <4>2 DEF MatchOK, RenamedOK, Holding
    <3>3. CASE s # t
      <4>1. pc'[s] = pc[s] /\ pos'[s] = pos[s] /\ batch'[s] = batch[s]
        BY <2>1, <3>3 DEF OthersKept
      <4> QED BY <3>1, <4>1 DEF RefineInv, MatchOK, RenamedOK, Holding, Passed,
                                Named, SavedAs, Target
    <3> QED BY <3>2, <3>3
  <2> QED BY <1>2, <2>2, <2>3
<1>3. ASSUME NEW p \in Procs, Crash(p) PROVE FALSE
  BY <1>3 DEF Crash
<1> QED BY <1>0, <1>1, <1>2, <1>3 DEF TxnNext, RefineInv

(* Only the holder of the mutex has moved refs, at most one per file. *)
LEMMA MovedSaved ==
    ASSUME SingleProcess, CasInv, NEW t \in Threads, NEW k \in Moved(t)
    PROVE  /\ Holding(t) /\ k \in DOMAIN prepared[t]
           /\ prepared[t][k].path \in Paths
           /\ \A s \in Threads : \A j \in Moved(s) :
                prepared[s][j].path = prepared[t][k].path => s = t /\ j = k
<1>1. ASSUME NEW s \in Threads, NEW j \in Moved(s)
      PROVE  Holding(s) /\ j \in DOMAIN prepared[s] /\ pc[s] \in Locked
  <2>1. prepared[s] \in Seq(Saved) /\ Len(prepared[s]) \in Nat
        /\ DOMAIN prepared[s] = 1..Len(prepared[s])
    BY DEF CasInv, TypeInv, TypeOK
  <2>2. IndexOK(s) /\ pos[s] \in Nat
    BY DEF CasInv, TypeInv, TypeOK
  <2>3. pc[s] \in {"commit", "rollback", "rewrite"}
    BY <1>1 DEF Moved
  <2>4. Moved(s) \subseteq 1..Len(prepared[s])
    <3>1. CASE pc[s] = "commit"
      BY <2>1, <2>2, <3>1 DEF Moved, IndexOK
    <3>2. CASE pc[s] \in {"rollback", "rewrite"}
      BY <2>1, <2>2, <3>2 DEF Moved, IndexOK
    <3> QED BY <2>3, <3>1, <3>2
  <2> QED BY <1>1, <2>1, <2>3, <2>4 DEF Holding, Locked
<1>2. prepared[t][k] \in Saved
  BY <1>1 DEF CasInv, TypeInv, TypeOK
<1>3. ASSUME NEW s \in Threads, NEW j \in Moved(s),
             prepared[s][j].path = prepared[t][k].path
      PROVE  s = t /\ j = k
  <2>1. s = t
    BY <1>1, <1>3, OneHolder DEF CasInv
  <2> QED BY <1>1, <1>3, <2>1 DEF CasInv, SavedOK
<1> QED BY <1>1, <1>2, <1>3 DEF Saved

(* What the mapping says of the abstract refs. *)
StableIs ==
    /\ StableRefs = [p \in Paths |-> StableRefs[p]]
    /\ \A t \in Threads : \A k \in Moved(t) :
          /\ prepared[t][k].path \in Paths
          /\ StableRefs[prepared[t][k].path] = prepared[t][k].old
    /\ \A p \in Paths :
          (\A t \in Threads : \A k \in Moved(t) : prepared[t][k].path # p)
             => StableRefs[p] = refs[p]

LEMMA MappedRefs == SingleProcess /\ CasInv => StableIs
<1> SUFFICES ASSUME SingleProcess, CasInv PROVE StableIs
  OBVIOUS
<1>1. StableRefs = [p \in Paths |-> StableRefs[p]]
  <2> DEFINE Val(p) ==
        IF \E t \in Threads : \E k \in Moved(t) : prepared[t][k].path = p
          THEN LET t == CHOOSE t \in Threads :
                          \E k \in Moved(t) : prepared[t][k].path = p
               IN  prepared[t][CHOOSE k \in Moved(t) :
                                  prepared[t][k].path = p].old
          ELSE refs[p]
  <2>1. StableRefs = [p \in Paths |-> Val(p)]
    BY Zenon DEF StableRefs
  <2> HIDE DEF Val
  <2> QED BY <2>1
<1>2. ASSUME NEW t \in Threads, NEW k \in Moved(t)
      PROVE  /\ prepared[t][k].path \in Paths
             /\ StableRefs[prepared[t][k].path] = prepared[t][k].old
  <2> DEFINE p == prepared[t][k].path
             s == CHOOSE s \in Threads : \E j \in Moved(s) : prepared[s][j].path = p
             j == CHOOSE j \in Moved(s) : prepared[s][j].path = p
  <2>1. p \in Paths
    BY MovedSaved
  <2>2. s \in Threads /\ \E i \in Moved(s) : prepared[s][i].path = p
    BY <1>2
  <2>3. j \in Moved(s) /\ prepared[s][j].path = p
    BY <2>2
  <2>4. StableRefs[p] = prepared[s][j].old
    BY <1>2, <2>1 DEF StableRefs
  <2>5. \A r \in Threads : \A i \in Moved(r) :
            prepared[r][i].path = p => r = t /\ i = k
    BY MovedSaved
  <2> HIDE DEF p, s, j
  <2>6. s = t /\ j = k
    BY <2>2, <2>3, <2>5
  <2> QED BY <2>1, <2>4, <2>6 DEF p
<1>3. ASSUME NEW p \in Paths,
             \A t \in Threads : \A k \in Moved(t) : prepared[t][k].path # p
      PROVE  StableRefs[p] = refs[p]
  BY <1>3 DEF StableRefs
<1> QED BY <1>1, <1>2, <1>3 DEF StableIs

LEMMA MappedRefsNext ==
    ASSUME SingleProcess, CasInv' PROVE StableIs'
<1>1. SingleProcess' /\ CasInv' => StableIs'
  BY MappedRefs, PTL
<1> QED BY <1>1 DEF SingleProcess

(* A step keeps the abstract refs when a saved ref joins the moved ones    *)
(* with its old content, leaves them with it, and nothing else changes.    *)
LEMMA StableKept ==
    ASSUME StableIs, StableIs',
           \A s \in Threads : \A k \in Moved(s)' :
              /\ prepared'[s][k] = prepared[s][k]
              /\ \/ k \in Moved(s)
                 \/ StableRefs[prepared[s][k].path] = prepared[s][k].old,
           \A s \in Threads : \A k \in Moved(s) :
              k \in Moved(s)' \/ refs'[prepared[s][k].path] = prepared[s][k].old,
           \A p \in Paths :
              \/ refs'[p] = refs[p]
              \/ \E s \in Threads : \E k \in Moved(s) \cup Moved(s)' :
                    prepared[s][k].path = p
    PROVE  StableRefs' = StableRefs
<1> SUFFICES ASSUME NEW p \in Paths PROVE StableRefs'[p] = StableRefs[p]
  BY DEF StableIs
<1>1. ASSUME NEW s \in Threads, NEW k \in Moved(s)', prepared[s][k].path = p
      PROVE  StableRefs'[p] = StableRefs[p]
  BY <1>1 DEF StableIs
<1>2. ASSUME NEW s \in Threads, NEW k \in Moved(s), prepared[s][k].path = p,
             \A r \in Threads : \A j \in Moved(r)' : prepared'[r][j].path # p
      PROVE  StableRefs'[p] = StableRefs[p]
  <2>1. k \notin Moved(s)'
    BY <1>2
  <2> QED BY <1>2, <2>1 DEF StableIs
<1>3. ASSUME \A r \in Threads : \A j \in Moved(r)' : prepared'[r][j].path # p,
             \A r \in Threads : \A j \in Moved(r) : prepared[r][j].path # p
      PROVE  StableRefs'[p] = StableRefs[p]
  <2>1. refs'[p] = refs[p]
    BY <1>3
  <2> QED BY <1>3, <2>1 DEF StableIs
<1> QED BY <1>1, <1>2, <1>3

(* Steps that touch no ref move none either. *)
LEMMA QuietStep ==
    ASSUME SingleProcess, RefineInv, RefineInv', NEW t \in Threads,
           \/ Call(t) \/ Lock(t) \/ SkipBlank(t) \/ Prepare(t) \/ PrepareFails(t)
           \/ PrepareDone(t) \/ RenameFails(t) \/ RollbackDone(t)
           \/ RemoveTemp(t) \/ Return(t)
    PROVE  StableRefs' = StableRefs
<1>0. TypeOK /\ OthersKept(t)
  BY StepKeepsOthers DEF RefineInv, CasInv, TypeInv, Step
<1>1. refs' = refs
  BY DEF Call, Lock, SkipBlank, Prepare, PrepareFails, PrepareDone,
         RenameFails, RollbackDone, RemoveTemp, Return
<1>2. Moved(t)' = Moved(t) /\ (Moved(t) = {} \/ prepared' = prepared)
  <2>1. CASE RenameFails(t)
    <3>1. pc[t] = "commit" /\ pc'[t] = "rollback" /\ pos'[t] = pos[t] - 1
          /\ prepared' = prepared
      BY <1>0, <2>1 DEF RenameFails, Goto, TypeOK
    <3> QED BY <3>1 DEF Moved
  <2>2. CASE RollbackDone(t)
    <3>1. pc[t] = "rollback" /\ pos[t] = 0 /\ pc'[t] = "cleanup"
      BY <1>0, <2>2 DEF RollbackDone, Goto, TypeOK
    <3> QED BY <3>1 DEF Moved
  <2>3. CASE PrepareDone(t)
    <3>1. pc[t] = "prepare" /\ (pc'[t] = "cleanup" \/ (pc'[t] = "commit" /\ pos'[t] = 1))
      BY <1>0, <2>3 DEF PrepareDone, Goto, TypeOK
    <3> QED BY <3>1 DEF Moved
  <2>4. CASE Call(t) \/ Lock(t) \/ SkipBlank(t) \/ Prepare(t) \/ PrepareFails(t)
             \/ RemoveTemp(t) \/ Return(t)
    <3>1. pc[t] \notin {"commit", "rollback", "rewrite"}
          /\ pc'[t] \notin {"commit", "rollback", "rewrite"}
      BY <1>0, <2>4 DEF Call, Lock, SkipBlank, Prepare, PrepareFails, RemoveTemp,
                        Return, Goto, TypeOK
    <3> QED BY <3>1 DEF Moved
  <2> QED BY <2>1, <2>2, <2>3, <2>4
<1>3. \A s \in Threads : Moved(s)' = Moved(s)
  BY <1>0, <1>2 DEF OthersKept, Moved
<1>4. \A s \in Threads : \A k \in Moved(s) : prepared'[s][k] = prepared[s][k]
  BY <1>0, <1>2 DEF OthersKept
<1>5. StableIs /\ StableIs'
  BY MappedRefs, MappedRefsNext DEF RefineInv
<1> QED BY <1>1, <1>3, <1>4, <1>5, StableKept

(* The holder of the mutex is the only thread that has moved refs. *)
LEMMA OthersUnmoved ==
    ASSUME SingleProcess, RefineInv, NEW t \in Threads, pc[t] \in Locked,
           OthersKept(t), NEW s \in Threads, s # t
    PROVE  Moved(s) = {} /\ Moved(s)' = {}
<1>1. pc[s] \notin Locked /\ pc'[s] = pc[s]
  BY OneHolder DEF RefineInv, CasInv, OthersKept
<1> QED BY <1>1 DEF Moved, Locked

LEMMA RollbackStep ==
    ASSUME SingleProcess, RefineInv, RefineInv', NEW t \in Threads,
           Truncate(t) \/ Rewrite(t) \/ RemoveCreated(t)
    PROVE  StableRefs' = StableRefs
<1> DEFINE i == pos[t]
           path == prepared[t][i].path
<1>0. TypeOK /\ OthersKept(t) /\ IndexOK(t)
  BY StepKeepsOthers DEF RefineInv, CasInv, TypeInv, Step
<1>1. /\ pc[t] \in {"rollback", "rewrite"} /\ prepared' = prepared
      /\ \E c : refs' = [refs EXCEPT ![path] = c]
      /\ \/ pc'[t] = "rewrite" /\ pos'[t] = i
         \/ /\ pc'[t] = "rollback" /\ pos'[t] = i - 1
            /\ refs' = [refs EXCEPT ![path] = prepared[t][i].old]
  BY <1>0 DEF Truncate, Rewrite, RemoveCreated, Goto, TypeOK
<1>2. i \in 1..Len(prepared[t]) /\ Len(prepared[t]) \in Nat
      /\ prepared[t] \in Seq(Saved) /\ DOMAIN prepared[t] = 1..Len(prepared[t])
  BY <1>0 DEF TypeOK, IndexOK, Truncate, Rewrite, RemoveCreated
<1>3. path \in Paths /\ refs \in [Paths -> FileContent]
  <2>1. prepared[t][i] \in Saved
    BY <1>2
  <2> QED BY <1>0, <2>1 DEF Saved, TypeOK
<1>4. Moved(t) = 1..i /\ Moved(t)' \in {1..i, 1..(i - 1)}
      /\ (Moved(t)' = 1..i \/ refs'[path] = prepared[t][i].old)
  BY <1>1, <1>3 DEF Moved
<1> HIDE DEF i, path
<1>5. i \in 1..i /\ \A k \in 1..i : k = i \/ k \in 1..(i - 1)
  BY <1>2
<1>6. \A k \in 1..(i - 1) : k \in 1..i
  BY <1>2
<1>7. \A s \in Threads \ {t} : Moved(s) = {} /\ Moved(s)' = {}
  BY <1>0, <1>1, OthersUnmoved DEF Locked
<1>8. StableIs /\ StableIs'
  BY MappedRefs, MappedRefsNext DEF RefineInv
<1>9. \A s \in Threads : \A k \in Moved(s)' :
        prepared'[s][k] = prepared[s][k] /\ k \in Moved(s)
  BY <1>1, <1>4, <1>6, <1>7
<1>10. \A s \in Threads : \A k \in Moved(s) :
        k \in Moved(s)' \/ refs'[prepared[s][k].path] = prepared[s][k].old
  BY <1>4, <1>5, <1>7 DEF path
<1>11. \A p \in Paths : refs'[p] = refs[p] \/ p = path
  BY <1>1, <1>3
<1>12. \A p \in Paths : refs'[p] = refs[p]
         \/ \E s \in Threads : \E k \in Moved(s) \cup Moved(s)' :
                prepared[s][k].path = p
  BY <1>4, <1>5, <1>11 DEF path
<1> QED BY <1>8, <1>9, <1>10, <1>12, StableKept

(* A rename before the last one moves a ref that had its old content. *)
LEMMA EarlyRenameStep ==
    ASSUME SingleProcess, RefineInv, RefineInv', NEW t \in Threads, Rename(t),
           pos[t] # Len(prepared[t])
    PROVE  StableRefs' = StableRefs
<1> DEFINE i == pos[t]
           path == prepared[t][i].path
<1>0. TypeOK /\ OthersKept(t) /\ IndexOK(t) /\ SavedOK(t) /\ CurrentOK(t)
  BY StepKeepsOthers DEF RefineInv, CasInv, TypeInv, Step
<1>1. /\ pc[t] = "commit" /\ prepared' = prepared
      /\ refs' = [refs EXCEPT ![path] = prepared[t][i].digest]
      /\ pc'[t] = "commit" /\ pos'[t] = i + 1
  BY <1>0 DEF Rename, Goto, TypeOK
<1>2. i \in 1..Len(prepared[t]) /\ Len(prepared[t]) \in Nat
      /\ prepared[t] \in Seq(Saved) /\ DOMAIN prepared[t] = 1..Len(prepared[t])
  BY <1>0, <1>1 DEF TypeOK, IndexOK
<1>3. path \in Paths /\ refs \in [Paths -> FileContent]
  <2>1. prepared[t][i] \in Saved
    BY <1>2
  <2> QED BY <1>0, <2>1 DEF Saved, TypeOK
<1>4. Moved(t) = 1..(i - 1) /\ Moved(t)' = 1..i
  BY <1>1, <1>2 DEF Moved
<1>5. refs[path] = prepared[t][i].old
  BY <1>0, <1>1, <1>2 DEF CurrentOK
<1>6. \A k \in 1..(i - 1) : prepared[t][k].path # path
  <2> SUFFICES ASSUME NEW k \in 1..(i - 1), prepared[t][k].path = path
               PROVE  FALSE
    OBVIOUS
  <2>1. k \in DOMAIN prepared[t] /\ i \in DOMAIN prepared[t] /\ k # i
    BY <1>2
  <2> QED BY <1>0, <1>1, <2>1 DEF SavedOK, Holding
<1> HIDE DEF i, path
<1>7. \A s \in Threads \ {t} : Moved(s) = {} /\ Moved(s)' = {}
  BY <1>0, <1>1, OthersUnmoved DEF Locked
<1>8. StableIs /\ StableIs'
  BY MappedRefs, MappedRefsNext DEF RefineInv
<1>9. StableRefs[path] = prepared[t][i].old
  BY <1>3, <1>4, <1>5, <1>6, <1>7, <1>8 DEF StableIs
<1>10. i \in 1..i /\ \A k \in 1..i : k = i \/ k \in 1..(i - 1)
  BY <1>2
<1>11. \A k \in 1..(i - 1) : k \in 1..i
  BY <1>2
<1>12. \A s \in Threads : \A k \in Moved(s)' :
         /\ prepared'[s][k] = prepared[s][k]
         /\ \/ k \in Moved(s)
            \/ StableRefs[prepared[s][k].path] = prepared[s][k].old
  BY <1>1, <1>4, <1>7, <1>9, <1>10 DEF path
<1>13. \A s \in Threads : \A k \in Moved(s) : k \in Moved(s)'
  BY <1>4, <1>7, <1>11
<1>14. \A p \in Paths : refs'[p] = refs[p]
         \/ \E s \in Threads : \E k \in Moved(s) \cup Moved(s)' :
                prepared[s][k].path = p
  <2>1. \A p \in Paths : refs'[p] = refs[p] \/ p = path
    BY <1>1, <1>3
  <2> QED BY <1>4, <1>10, <2>1 DEF path
<1> QED BY <1>8, <1>12, <1>13, <1>14, StableKept

(* The last rename is the abstract commit of the call's batch. *)
LEMMA LastRenameStep ==
    ASSUME SingleProcess, RefineInv, RefineInv', NEW t \in Threads, Rename(t),
           pos[t] = Len(prepared[t])
    PROVE  Abstract!Commit(batch[t])
<1> DEFINE n == pos[t]
           b == batch[t]
           saved(k) == prepared[t][k]
<1>0. /\ TypeOK /\ OthersKept(t) /\ IndexOK(t) /\ SavedOK(t) /\ CurrentOK(t)
      /\ MatchOK(t) /\ RenamedOK(t)
  BY StepKeepsOthers DEF RefineInv, CasInv, TypeInv, Step
<1>1. /\ pc[t] = "commit" /\ prepared' = prepared
      /\ refs' = [refs EXCEPT ![saved(n).path] = saved(n).digest]
      /\ pc'[t] = "cleanup"
  BY <1>0 DEF Rename, Goto, TypeOK
<1>2. n \in Nat \ {0} /\ prepared[t] \in Seq(Saved) /\ DOMAIN prepared[t] = 1..n
  BY <1>0, <1>1 DEF TypeOK, IndexOK
<1>3. \A k \in 1..n : saved(k) \in Saved
  BY <1>2
<1>4. refs \in [Paths -> FileContent] /\ \A k \in 1..n : saved(k).path \in Paths
  BY <1>0, <1>3 DEF Saved, TypeOK
<1>5. \A j, k \in 1..n : saved(j).path = saved(k).path => j = k
  BY <1>0, <1>1, <1>2 DEF SavedOK, Holding
<1>6. /\ Moved(t) = 1..(n - 1) /\ Moved(t)' = {}
      /\ \A s \in Threads \ {t} : Moved(s) = {} /\ Moved(s)' = {}
  BY <1>0, <1>1, OthersUnmoved DEF Moved, Locked
<1>7. StableIs /\ StableIs'
  BY MappedRefs, MappedRefsNext DEF RefineInv
<1>8. n \in 1..n /\ (\A k \in 1..n : k = n \/ k \in 1..(n - 1))
      /\ \A k \in 1..(n - 1) : k \in 1..n /\ k # n
  BY <1>2
<1>9. \A k \in 1..n : StableRefs[saved(k).path] = saved(k).old
  <2>1. \A k \in 1..(n - 1) : StableRefs[saved(k).path] = saved(k).old
    BY <1>6, <1>7 DEF StableIs
  <2>2. StableRefs[saved(n).path] = refs[saved(n).path]
    <3>1. \A k \in 1..(n - 1) : saved(k).path # saved(n).path
      BY <1>5, <1>8
    <3>2. \A s \in Threads : \A k \in Moved(s) :
              prepared[s][k].path # saved(n).path
      BY <1>6, <3>1
    <3>3. saved(n).path \in Paths
      BY <1>4, <1>8
    <3> HIDE DEF n, saved
    <3> QED BY <1>7, <3>2, <3>3 DEF StableIs
  <2>3. refs[saved(n).path] = saved(n).old
    BY <1>0, <1>1, <1>8 DEF CurrentOK
  <2> QED BY <1>8, <2>1, <2>2, <2>3
<1>10. \A k \in 1..n : refs'[saved(k).path] = saved(k).digest
  <2>1. \A k \in 1..(n - 1) : refs[saved(k).path] = saved(k).digest
    BY <1>0, <1>1 DEF RenamedOK
  <2>2. refs'[saved(n).path] = saved(n).digest
    BY <1>1, <1>4, <1>8
  <2>3. \A k \in 1..(n - 1) : saved(k).path # saved(n).path
    BY <1>5, <1>8
  <2> QED BY <1>1, <1>4, <1>8, <2>1, <2>2, <2>3
<1>11. \A p \in Paths :
         (\A k \in 1..n : saved(k).path # p)
            => refs'[p] = refs[p] /\ StableRefs[p] = refs[p]
  <2> SUFFICES ASSUME NEW p \in Paths, \A k \in 1..n : saved(k).path # p
               PROVE  refs'[p] = refs[p] /\ StableRefs[p] = refs[p]
    OBVIOUS
  <2>1. refs'[p] = refs[p]
    BY <1>1, <1>4, <1>8
  <2>2. StableRefs[p] = refs[p]
    BY <1>6, <1>7, <1>8 DEF StableIs
  <2> QED BY <2>1, <2>2
<1>12. StableRefs' = [p \in Paths |-> refs'[p]]
  BY <1>6, <1>7 DEF StableIs
<1>13. /\ \A i \in Named(b) : \E k \in 1..n : SavedAs(saved(k), b[i])
       /\ \A k \in 1..n : \E i \in Named(b) : SavedAs(saved(k), b[i])
       /\ \A i, j \in Named(b) : Target(b[i]) = Target(b[j]) => i = j
  BY <1>0, <1>1, <1>2 DEF MatchOK, Holding, Passed
<1>14. Abstract!Named(b) = Named(b)
       /\ \A i \in Named(b) : Abstract!Target(b[i]) = Target(b[i])
  BY DEF Abstract!Named, Named, Abstract!Target, Target
<1>15. \A k \in 1..n : saved(k).digest \in Digests
  BY <1>3 DEF Saved
<1>16. \A k \in 1..n : MatchesExpected(saved(k), saved(k).old)
  BY <1>0, <1>1, <1>2 DEF SavedOK, Holding
<1> HIDE DEF n, b, saved
<1>17. Abstract!WellFormed(b)
  <2>1. \A i \in Named(b) : b[i].digest \in Digests
    BY <1>13, <1>15 DEF SavedAs
  <2> QED BY <1>13, <1>14, <2>1 DEF Abstract!WellFormed
<1>18. \A i \in Abstract!Named(b) :
         Abstract!MatchesExpected(b[i], StableRefs[Abstract!Target(b[i])])
  <2> SUFFICES ASSUME NEW i \in Named(b)
               PROVE  Abstract!MatchesExpected(b[i], StableRefs[Target(b[i])])
    BY <1>14
  <2>1. PICK k \in 1..n : SavedAs(saved(k), b[i])
    BY <1>13
  <2>2. StableRefs[Target(b[i])] = saved(k).old /\ saved(k).expected = b[i].expected
    BY <1>9, <2>1 DEF SavedAs
  <2> QED BY <1>16, <2>2 DEF Abstract!MatchesExpected, MatchesExpected
<1>19. ASSUME NEW p \in Paths
       PROVE  refs'[p] = IF \E i \in Named(b) : Target(b[i]) = p
                           THEN b[CHOOSE i \in Named(b) : Target(b[i]) = p].digest
                           ELSE StableRefs[p]
  <2>1. CASE \E i \in Named(b) : Target(b[i]) = p
    <3> DEFINE i == CHOOSE i \in Named(b) : Target(b[i]) = p
    <3>1. i \in Named(b) /\ Target(b[i]) = p
      BY <2>1
    <3> HIDE DEF i
    <3>2. PICK k \in 1..n : SavedAs(saved(k), b[i])
      BY <1>13, <3>1
    <3>3. refs'[p] = b[i].digest
      BY <1>10, <3>1, <3>2 DEF SavedAs
    <3> QED BY <2>1, <3>3 DEF i
  <2>2. CASE ~\E i \in Named(b) : Target(b[i]) = p
    <3>1. \A k \in 1..n : saved(k).path # p
      BY <1>13, <2>2 DEF SavedAs
    <3> QED BY <1>11, <2>2, <3>1
  <2> QED BY <2>1, <2>2
<1>20. StableRefs' = [p \in Paths |->
                        IF \E i \in Abstract!Named(b) : Abstract!Target(b[i]) = p
                          THEN b[CHOOSE i \in Abstract!Named(b) :
                                    Abstract!Target(b[i]) = p].digest
                          ELSE StableRefs[p]]
  <2>1. Abstract!Named(b) = Named(b) /\ \A u : Abstract!Target(u) = Target(u)
    BY <1>14 DEF Abstract!Target, Target
  <2> QED BY <1>12, <1>19 DEF Abstract!Named, Named, Abstract!Target, Target
<1> QED BY <1>17, <1>18, <1>20 DEF Abstract!Commit, b

LEMMA RefinementStep ==
    ASSUME SingleProcess, "crash" \notin Faults, "rollback" \notin Faults,
           RefineInv, RefineInv', [TxnNext]_vars
    PROVE  [Abstract!Next]_StableRefs
<1>1. CASE UNCHANGED vars
  <2>1. refs' = refs /\ prepared' = prepared
        /\ \A s \in Threads : Moved(s)' = Moved(s)
    BY <1>1 DEF vars, Moved
  <2>2. StableIs /\ StableIs'
    BY MappedRefs, MappedRefsNext DEF RefineInv
  <2> QED BY <2>1, <2>2, StableKept
<1>2. ASSUME NEW t \in Threads, Call(t) \/ Lock(t) \/ Step(t)
      PROVE  [Abstract!Next]_StableRefs
  <2>1. CASE Rename(t) /\ pos[t] = Len(prepared[t])
    <3>1. batch[t] \in Batches
      BY <2>1 DEF Rename, RefineInv, CasInv, BatchOK
    <3> QED BY <2>1, <3>1, LastRenameStep DEF Abstract!Next
  <2>2. CASE Rename(t) /\ pos[t] # Len(prepared[t])
    BY <2>2, EarlyRenameStep
  <2>3. CASE Truncate(t) \/ Rewrite(t) \/ RemoveCreated(t)
    BY <2>3, RollbackStep
  <2>4. ~RollbackFails(t)
    BY DEF RollbackFails
  <2> QED BY <1>2, <2>1, <2>2, <2>3, <2>4, QuietStep DEF Step
<1>3. ASSUME NEW p \in Procs, Crash(p) PROVE FALSE
  BY <1>3 DEF Crash
<1> QED BY <1>1, <1>2, <1>3 DEF TxnNext

(* The threads of one process move refs as atomic batches, for any set of  *)
(* threads, names, files and batches: each call of writeRefsIfExpected     *)
(* applies all its updates, against the heads it expected, or none, also   *)
(* when preparations and renames fail.  (A failed rollback, or a crash     *)
(* between two renames, does break a batch up.)                            *)
THEOREM RefinesAtomicRefs ==
    ASSUME SingleProcess, "crash" \notin Faults, "rollback" \notin Faults
    PROVE  TxnSpec => AppliesBatchesAtomically
<1>1. TxnInit => Abstract!Init
  <2> SUFFICES ASSUME TxnInit PROVE Abstract!Init
    OBVIOUS
  <2>1. refs \in [Paths -> Content] /\ \A t \in Threads : Moved(t) = {}
    BY DEF TxnInit, Init, Moved
  <2>2. StableRefs = refs
    BY <2>1 DEF StableRefs
  <2> QED BY <2>1, <2>2 DEF Abstract!Init, Abstract!Content, Content
<1>2. RefineInv /\ [TxnNext]_vars => RefineInv'
  BY RefineInvStep
<1>3. RefineInv /\ RefineInv' /\ [TxnNext]_vars => [Abstract!Next]_StableRefs
  BY RefinementStep
<1> QED
  BY <1>1, <1>2, <1>3, RefineInvInit, PTL
     DEF TxnSpec, AppliesBatchesAtomically, Abstract!Spec
=============================================================================
