--------------------------- MODULE CsiNodeProofs ---------------------------
(***************************************************************************)
(* Proofs about CsiNode, for every number of volumes, writes, failures and *)
(* restarts: the invariant below is inductive.                             *)
(***************************************************************************)
EXTENDS CsiNode, FiniteSetTheorems, TLAPS

(* Workers and calls are at labels of their own. *)
Labels ==
    /\ \A h \in Handles : pc[h] \in WorkerPC
    /\ \A v \in Volumes : pc[v] \in CallPC

(* volumeSnapshotLock is held by the snapshot of its volume that is under  *)
(* way, and a snapshot under way holds it.                                 *)
LockInv ==
    /\ \A v \in Volumes : lock[v] # Nobody => VolumeOf(lock[v]) = v
    /\ \A a \in Actors : pc[a] = "push" => lock[VolumeOf(a)] = a

(* The pod is gone from the moment the kubelet unpublishes. *)
Closing == {"wait", "snapshot", "push", "remove"}
Quiet == \A v \in Volumes : pc[v] \in Closing => v \notin running

(* While a volume is unpublished, a snapshot of it that has still to be    *)
(* pushed is one of the final tree, unless its worker is waited for.       *)
FinalInv ==
    \A v \in Volumes :
        /\ pc[v] = "push" => snap[v] = target[v]
        /\ pc[v] = "remove" /\ want[v] = "auto" => remote[v] = target[v]
        /\ pc[v] \in Closing =>
            \A h \in Handles :
                pc[h] = "push" /\ volume[h] = v =>
                    snap[h] = target[v] \/ (pc[v] = "wait" /\ await[v] = h)

(* Whoever uses credentials of its own holds registryEnvMu, and without    *)
(* secrets nobody ever does.                                               *)
EnvInv ==
    /\ \A a \in Actors :
        pc[a] \in {"push", "fetch"} /\ HasCredentials(VolumeOf(a)) => env = a
    /\ Secrets = {} => env = Nobody

CoreInv == TypeOK /\ Labels /\ WorkersReachable
IInv == CoreInv /\ LockInv /\ Quiet /\ FinalInv /\ EnvInv

-----------------------------------------------------------------------------
(* start always finds a handle: the others in the map and the ones that    *)
(* are waited for are fewer than Handles.                                  *)
LEMMA IdleHandle ==
    ASSUME TypeOK, WorkersReachable, NEW v \in Volumes, workers[v] = Nobody
    PROVE  \E h \in Handles : Idle(h)
<1> DEFINE Others == Volumes \ {v}
           M == {workers[u] : u \in Others}
           A == {await[u] : u \in Volumes}
<1>1. IsFiniteSet(Others) /\ Cardinality(Others) = Cardinality(Volumes) - 1
  BY FS_RemoveElement, EnoughHandles
<1>2. IsFiniteSet(M) /\ Cardinality(M) <= Cardinality(Others)
  <2>1. [u \in Others |-> workers[u]] \in Surjection(Others, M)
    BY DEF Surjection
  <2> QED BY <1>1, <2>1, FS_Surjection
<1>3. IsFiniteSet(A) /\ Cardinality(A) <= Cardinality(Volumes)
  <2>1. [u \in Volumes |-> await[u]] \in Surjection(Volumes, A)
    BY DEF Surjection
  <2> QED BY <2>1, FS_Surjection, EnoughHandles
<1> HIDE DEF M, A, Others
<1>4. /\ Cardinality(M \cup A) < Cardinality(Handles)
      /\ IsFiniteSet(M \cup A)
  <2>1. IsFiniteSet(M \cup A)
        /\ Cardinality(M \cup A) =
             Cardinality(M) + Cardinality(A) - Cardinality(M \cap A)
    BY <1>2, <1>3, FS_Union
  <2>2. IsFiniteSet(M \cap A)
    BY <1>2, FS_Intersection
  <2>3. /\ Cardinality(M) \in Nat /\ Cardinality(A) \in Nat
        /\ Cardinality(M \cap A) \in Nat /\ Cardinality(Volumes) \in Nat
        /\ Cardinality(Handles) \in Nat
    BY <1>2, <1>3, <2>2, FS_CardinalityType, EnoughHandles
  <2> QED BY <1>1, <1>2, <1>3, <2>1, <2>3, EnoughHandles
<1>5. PICK h \in Handles : h \notin M \cup A
  <2> SUFFICES ASSUME Handles \subseteq M \cup A PROVE FALSE
    OBVIOUS
  <2>1. Cardinality(Handles) <= Cardinality(M \cup A)
    BY <1>4, FS_Subset
  <2>2. Cardinality(Handles) \in Nat /\ Cardinality(M \cup A) \in Nat
    BY <1>4, FS_CardinalityType, EnoughHandles
  <2> QED BY <1>4, <2>1, <2>2
<1>6. \A u \in Volumes : await[u] # h
  BY <1>5 DEF A
<1>7. pc[h] = "free"
  <2> SUFFICES ASSUME pc[h] # "free" PROVE FALSE
    OBVIOUS
  <2>1. workers[volume[h]] = h /\ volume[h] \in Volumes
    BY DEF WorkersReachable, TypeOK
  <2>2. volume[h] # v
    BY <2>1, CsiConstants
  <2> QED BY <1>5, <2>1, <2>2 DEF M, Others
<1> QED BY <1>6, <1>7 DEF Idle

(* What start does when it starts the goroutine of handle h. *)
Started(v, h, go) ==
    /\ workers[v] = Nobody /\ Idle(h)
    /\ workers' = [workers EXCEPT ![v] = h]
    /\ volume' = [volume EXCEPT ![h] = v]
    /\ cancelled' = cancelled \ {h}
    /\ pc' = [go EXCEPT ![h] = "read"]

LEMMA StartWorkerCases ==
    ASSUME TypeOK, WorkersReachable, NEW v \in Volumes, NEW go,
           StartWorker(v, go)
    PROVE  \/ pc' = go /\ UNCHANGED <<workers, volume, cancelled>>
           \/ \E h \in Handles : Started(v, h, go)
<1>1. CASE workers[v] # Nobody
  BY <1>1 DEF StartWorker
<1>2. CASE workers[v] = Nobody
  <2> DEFINE h == CHOOSE g \in Handles : Idle(g)
  <2>1. h \in Handles /\ Idle(h)
    BY <1>2, IdleHandle
  <2>2. Started(v, h, go)
    BY <1>2, <2>1 DEF StartWorker, Started
  <2> QED BY <2>1, <2>2
<1> QED BY <1>1, <1>2

(* Types, and a held lock is held by a snapshot under way. *)
LEMMA TypeStep ==
    ASSUME CoreInv, LockInv, [Next]_vars
    PROVE  TypeOK'
<1> USE CsiConstants DEF disk, reconciling, counters, CoreInv, TypeOK,
        Actors, WorkerPC, CallPC
<1>1. ASSUME NEW v \in Volumes, Write(v) PROVE TypeOK'
  BY <1>1 DEF Write, Trees
<1>2. ASSUME NEW v \in Volumes, PodEnds(v) PROVE TypeOK'
  BY <1>2 DEF PodEnds
<1>3. ASSUME NEW v \in Volumes, NEW context \in Context, PublishCall(v, context)
      PROVE  TypeOK'
  BY <1>3 DEF PublishCall, Goto, Context, Record
<1>4. ASSUME NEW v \in Volumes, PublishPull(v) PROVE TypeOK'
  BY <1>4 DEF PublishPull, Credentials, Goto
<1>5. ASSUME NEW v \in Volumes, PublishFetch(v) PROVE TypeOK'
  BY <1>5 DEF PublishFetch, Goto, Digest, NoSnapshot
<1>6. ASSUME NEW v \in Volumes, PublishMount(v) PROVE TypeOK'
  BY <1>6 DEF PublishMount, Goto, Digest, NoSnapshot
<1>7. ASSUME NEW v \in Volumes, PublishRecord(v) PROVE TypeOK'
  BY <1>7 DEF PublishRecord, Goto
<1>8. ASSUME NEW v \in Volumes, PublishStart(v) PROVE TypeOK'
  <2>1. CASE /\ pc' = [pc EXCEPT ![v] = "idle"]
             /\ UNCHANGED <<workers, volume, cancelled>>
    BY <1>8, <2>1 DEF PublishStart, Record, Labels
  <2>2. ASSUME NEW h \in Handles, Started(v, h, [pc EXCEPT ![v] = "idle"])
        PROVE  TypeOK'
    <3>1. pc' = [pc EXCEPT ![v] = "idle", ![h] = "read"]
      BY <2>2 DEF Started
    <3> QED
      BY <1>8, <2>2, <3>1 DEF PublishStart, Started, Idle, Record, Labels
  <2> QED BY <1>8, <2>1, <2>2, StartWorkerCases DEF PublishStart
<1>9. ASSUME NEW v \in Volumes, PublishFails(v) PROVE TypeOK'
  BY <1>9 DEF PublishFails, Goto, Fail, Record, Digest
<1>10. ASSUME NEW v \in Volumes, UnpublishCall(v) PROVE TypeOK'
  BY <1>10 DEF UnpublishCall, Goto
<1>11. ASSUME NEW v \in Volumes, UnpublishWait(v) PROVE TypeOK'
  BY <1>11 DEF UnpublishWait, Goto, Final, Ended
<1>12. ASSUME NEW v \in Volumes, UnpublishFails(v) PROVE TypeOK'
  BY <1>12 DEF UnpublishFails, Goto, Fail, Record
<1>13. ASSUME NEW v \in Volumes, UnpublishRemove(v) PROVE TypeOK'
  BY <1>13 DEF UnpublishRemove, Goto, Record
<1>14. ASSUME NEW h \in Handles, WorkerRead(h) PROVE TypeOK'
  BY <1>14 DEF WorkerRead, Finish, Goto
<1>15. ASSUME NEW a \in Actors, TakeSnapshot(a) PROVE TypeOK'
  BY <1>15 DEF TakeSnapshot, Credentials, Goto, Digest, Labels, VolumeOf
<1>16. ASSUME NEW a \in Actors, Push(a) PROVE TypeOK'
  BY <1>16 DEF Push, Release, Goto, Digest, LockInv, VolumeOf
<1>17. ASSUME NEW a \in Actors, SnapshotFails(a) PROVE TypeOK'
  BY <1>17 DEF SnapshotFails, Release, Failed, Fail, Goto, Digest, LockInv,
     VolumeOf
<1>18. ASSUME NEW v \in Volumes, ReconcileRead(v) PROVE TypeOK'
  BY <1>18 DEF ReconcileRead, Record
<1>19. ASSUME NEW v \in Volumes, ReconcileRecord(v) PROVE TypeOK'
  <2>1. CASE /\ pc' = pc
             /\ UNCHANGED <<workers, volume>>
    BY <1>19, <2>1 DEF ReconcileRecord, StartWorker
  <2>2. ASSUME NEW h \in Handles, Started(v, h, pc)
        PROVE  TypeOK'
    BY <1>19, <2>2 DEF ReconcileRecord, Started, Idle
  <2> QED BY <1>19, <2>1, <2>2, StartWorkerCases DEF ReconcileRecord
<1>20. CASE ReconcileList
  BY <1>20 DEF ReconcileList, Record
<1>21. CASE ReconcileUnseen
  BY <1>21 DEF ReconcileUnseen, Record
<1>22. CASE Crash
  BY <1>22 DEF Crash, Fresh, Record, Digest
<1>23. CASE UNCHANGED vars
  BY <1>23 DEF vars
<1> QED
  BY <1>1, <1>2, <1>3, <1>4, <1>5, <1>6, <1>7, <1>8, <1>9, <1>10, <1>11,
     <1>12, <1>13, <1>14, <1>15, <1>16, <1>17, <1>18, <1>19, <1>20, <1>21,
     <1>22, <1>23 DEF Next, CallStep, WorkerStep, Reconcile

(* A worker never takes the label of a call, nor a call that of a worker. *)
LEMMA LabelsStep ==
    ASSUME CoreInv, [Next]_vars
    PROVE  Labels'
<1> USE CsiConstants DEF disk, reconciling, counters, CoreInv, TypeOK,
        Labels, Actors, WorkerPC, CallPC
<1>1. ASSUME NEW v \in Volumes, Write(v) PROVE Labels'
  BY <1>1 DEF Write
<1>2. ASSUME NEW v \in Volumes, PodEnds(v) PROVE Labels'
  BY <1>2 DEF PodEnds
<1>3. ASSUME NEW v \in Volumes, NEW context \in Context, PublishCall(v, context)
      PROVE  Labels'
  BY <1>3 DEF PublishCall, Goto, Context
<1>4. ASSUME NEW v \in Volumes, PublishPull(v) PROVE Labels'
  BY <1>4 DEF PublishPull, Credentials, Goto
<1>5. ASSUME NEW v \in Volumes, PublishFetch(v) PROVE Labels'
  BY <1>5 DEF PublishFetch, Goto
<1>6. ASSUME NEW v \in Volumes, PublishMount(v) PROVE Labels'
  BY <1>6 DEF PublishMount, Goto
<1>7. ASSUME NEW v \in Volumes, PublishRecord(v) PROVE Labels'
  BY <1>7 DEF PublishRecord, Goto
<1>8. ASSUME NEW v \in Volumes, PublishStart(v) PROVE Labels'
  <2>1. CASE /\ pc' = [pc EXCEPT ![v] = "idle"]
             /\ UNCHANGED <<workers, volume, cancelled>>
    BY <1>8, <2>1 DEF PublishStart
  <2>2. ASSUME NEW h \in Handles, Started(v, h, [pc EXCEPT ![v] = "idle"])
        PROVE  Labels'
    <3>1. pc' = [pc EXCEPT ![v] = "idle", ![h] = "read"]
      BY <2>2 DEF Started
    <3> QED
      BY <1>8, <2>2, <3>1 DEF PublishStart, Started, Idle
  <2> QED BY <1>8, <2>1, <2>2, StartWorkerCases DEF PublishStart
<1>9. ASSUME NEW v \in Volumes, PublishFails(v) PROVE Labels'
  BY <1>9 DEF PublishFails, Goto, Fail
<1>10. ASSUME NEW v \in Volumes, UnpublishCall(v) PROVE Labels'
  BY <1>10 DEF UnpublishCall, Goto
<1>11. ASSUME NEW v \in Volumes, UnpublishWait(v) PROVE Labels'
  BY <1>11 DEF UnpublishWait, Goto, Final, Ended
<1>12. ASSUME NEW v \in Volumes, UnpublishFails(v) PROVE Labels'
  BY <1>12 DEF UnpublishFails, Goto, Fail
<1>13. ASSUME NEW v \in Volumes, UnpublishRemove(v) PROVE Labels'
  BY <1>13 DEF UnpublishRemove, Goto
<1>14. ASSUME NEW h \in Handles, WorkerRead(h) PROVE Labels'
  BY <1>14 DEF WorkerRead, Finish, Goto
<1>15. ASSUME NEW a \in Actors, TakeSnapshot(a) PROVE Labels'
  BY <1>15 DEF TakeSnapshot, Credentials, Goto
<1>16. ASSUME NEW a \in Actors, Push(a) PROVE Labels'
  BY <1>16 DEF Push, Release, Goto
<1>17. ASSUME NEW a \in Actors, SnapshotFails(a) PROVE Labels'
  BY <1>17 DEF SnapshotFails, Release, Failed, Fail, Goto
<1>18. ASSUME NEW v \in Volumes, ReconcileRead(v) PROVE Labels'
  BY <1>18 DEF ReconcileRead
<1>19. ASSUME NEW v \in Volumes, ReconcileRecord(v) PROVE Labels'
  <2>1. CASE /\ pc' = pc
             /\ UNCHANGED <<workers, volume>>
    BY <1>19, <2>1 DEF ReconcileRecord, StartWorker
  <2>2. ASSUME NEW h \in Handles, Started(v, h, pc)
        PROVE  Labels'
    BY <1>19, <2>2 DEF ReconcileRecord, Started, Idle
  <2> QED BY <1>19, <2>1, <2>2, StartWorkerCases DEF ReconcileRecord
<1>20. CASE ReconcileList
  BY <1>20 DEF ReconcileList
<1>21. CASE ReconcileUnseen
  BY <1>21 DEF ReconcileUnseen
<1>22. CASE Crash
  BY <1>22 DEF Crash, Fresh
<1>23. CASE UNCHANGED vars
  BY <1>23 DEF vars
<1> QED
  BY <1>1, <1>2, <1>3, <1>4, <1>5, <1>6, <1>7, <1>8, <1>9, <1>10, <1>11,
     <1>12, <1>13, <1>14, <1>15, <1>16, <1>17, <1>18, <1>19, <1>20, <1>21,
     <1>22, <1>23 DEF Next, CallStep, WorkerStep, Reconcile

(* start keeps the map and the goroutines together, finish takes both away. *)
LEMMA ReachableStep ==
    ASSUME CoreInv, [Next]_vars
    PROVE  WorkersReachable'
<1> USE CsiConstants DEF disk, reconciling, counters, CoreInv, TypeOK,
        WorkersReachable, Actors
<1>1. ASSUME NEW v \in Volumes, Write(v) PROVE WorkersReachable'
  BY <1>1 DEF Write
<1>2. ASSUME NEW v \in Volumes, PodEnds(v) PROVE WorkersReachable'
  BY <1>2 DEF PodEnds
<1>3. ASSUME NEW v \in Volumes, NEW context \in Context, PublishCall(v, context)
      PROVE  WorkersReachable'
  BY <1>3 DEF PublishCall, Goto, Context
<1>4. ASSUME NEW v \in Volumes, PublishPull(v) PROVE WorkersReachable'
  BY <1>4 DEF PublishPull, Credentials, Goto
<1>5. ASSUME NEW v \in Volumes, PublishFetch(v) PROVE WorkersReachable'
  BY <1>5 DEF PublishFetch, Goto
<1>6. ASSUME NEW v \in Volumes, PublishMount(v) PROVE WorkersReachable'
  BY <1>6 DEF PublishMount, Goto
<1>7. ASSUME NEW v \in Volumes, PublishRecord(v) PROVE WorkersReachable'
  BY <1>7 DEF PublishRecord, Goto
<1>8. ASSUME NEW v \in Volumes, PublishStart(v) PROVE WorkersReachable'
  <2>1. CASE /\ pc' = [pc EXCEPT ![v] = "idle"]
             /\ UNCHANGED <<workers, volume, cancelled>>
    BY <1>8, <2>1 DEF PublishStart
  <2>2. ASSUME NEW h \in Handles, Started(v, h, [pc EXCEPT ![v] = "idle"])
        PROVE  WorkersReachable'
    <3>1. pc' = [pc EXCEPT ![v] = "idle", ![h] = "read"]
      BY <2>2 DEF Started
    <3> QED
      BY <1>8, <2>2, <3>1 DEF PublishStart, Started, Idle
  <2> QED BY <1>8, <2>1, <2>2, StartWorkerCases DEF PublishStart
<1>9. ASSUME NEW v \in Volumes, PublishFails(v) PROVE WorkersReachable'
  BY <1>9 DEF PublishFails, Goto, Fail
<1>10. ASSUME NEW v \in Volumes, UnpublishCall(v) PROVE WorkersReachable'
  BY <1>10 DEF UnpublishCall, Goto
<1>11. ASSUME NEW v \in Volumes, UnpublishWait(v) PROVE WorkersReachable'
  BY <1>11 DEF UnpublishWait, Goto, Final, Ended
<1>12. ASSUME NEW v \in Volumes, UnpublishFails(v) PROVE WorkersReachable'
  BY <1>12 DEF UnpublishFails, Goto, Fail
<1>13. ASSUME NEW v \in Volumes, UnpublishRemove(v) PROVE WorkersReachable'
  BY <1>13 DEF UnpublishRemove, Goto
<1>14. ASSUME NEW h \in Handles, WorkerRead(h) PROVE WorkersReachable'
  BY <1>14 DEF WorkerRead, Finish, Goto
<1>15. ASSUME NEW a \in Actors, TakeSnapshot(a) PROVE WorkersReachable'
  BY <1>15 DEF TakeSnapshot, Credentials, Goto
<1>16. ASSUME NEW a \in Actors, Push(a) PROVE WorkersReachable'
  BY <1>16 DEF Push, Release, Goto
<1>17. ASSUME NEW a \in Actors, SnapshotFails(a) PROVE WorkersReachable'
  BY <1>17 DEF SnapshotFails, Release, Failed, Fail, Goto
<1>18. ASSUME NEW v \in Volumes, ReconcileRead(v) PROVE WorkersReachable'
  BY <1>18 DEF ReconcileRead
<1>19. ASSUME NEW v \in Volumes, ReconcileRecord(v) PROVE WorkersReachable'
  <2>1. CASE /\ pc' = pc
             /\ UNCHANGED <<workers, volume>>
    BY <1>19, <2>1 DEF ReconcileRecord, StartWorker
  <2>2. ASSUME NEW h \in Handles, Started(v, h, pc)
        PROVE  WorkersReachable'
    BY <1>19, <2>2 DEF ReconcileRecord, Started, Idle
  <2> QED BY <1>19, <2>1, <2>2, StartWorkerCases DEF ReconcileRecord
<1>20. CASE ReconcileList
  BY <1>20 DEF ReconcileList
<1>21. CASE ReconcileUnseen
  BY <1>21 DEF ReconcileUnseen
<1>22. CASE Crash
  BY <1>22 DEF Crash, Fresh
<1>23. CASE UNCHANGED vars
  BY <1>23 DEF vars
<1> QED
  BY <1>1, <1>2, <1>3, <1>4, <1>5, <1>6, <1>7, <1>8, <1>9, <1>10, <1>11,
     <1>12, <1>13, <1>14, <1>15, <1>16, <1>17, <1>18, <1>19, <1>20, <1>21,
     <1>22, <1>23 DEF Next, CallStep, WorkerStep, Reconcile

(* The lock of a volume goes to one snapshot and back. *)
LEMMA LockStep ==
    ASSUME CoreInv, LockInv, [Next]_vars
    PROVE  LockInv'
<1> USE CsiConstants DEF disk, reconciling, counters, CoreInv, TypeOK,
        LockInv, VolumeOf, Actors
<1>1. ASSUME NEW v \in Volumes, Write(v) PROVE LockInv'
  BY <1>1 DEF Write
<1>2. ASSUME NEW v \in Volumes, PodEnds(v) PROVE LockInv'
  BY <1>2 DEF PodEnds
<1>3. ASSUME NEW v \in Volumes, NEW context \in Context, PublishCall(v, context)
      PROVE  LockInv'
  BY <1>3 DEF PublishCall, Goto, Context
<1>4. ASSUME NEW v \in Volumes, PublishPull(v) PROVE LockInv'
  BY <1>4 DEF PublishPull, Credentials, Goto
<1>5. ASSUME NEW v \in Volumes, PublishFetch(v) PROVE LockInv'
  BY <1>5 DEF PublishFetch, Goto
<1>6. ASSUME NEW v \in Volumes, PublishMount(v) PROVE LockInv'
  BY <1>6 DEF PublishMount, Goto
<1>7. ASSUME NEW v \in Volumes, PublishRecord(v) PROVE LockInv'
  BY <1>7 DEF PublishRecord, Goto
<1>8. ASSUME NEW v \in Volumes, PublishStart(v) PROVE LockInv'
  <2>1. CASE /\ pc' = [pc EXCEPT ![v] = "idle"]
             /\ UNCHANGED <<workers, volume, cancelled>>
    BY <1>8, <2>1 DEF PublishStart
  <2>2. ASSUME NEW h \in Handles, Started(v, h, [pc EXCEPT ![v] = "idle"])
        PROVE  LockInv'
    <3>1. pc' = [pc EXCEPT ![v] = "idle", ![h] = "read"]
      BY <2>2 DEF Started
    <3> QED
      BY <1>8, <2>2, <3>1 DEF PublishStart, Started, Idle
  <2> QED BY <1>8, <2>1, <2>2, StartWorkerCases DEF PublishStart
<1>9. ASSUME NEW v \in Volumes, PublishFails(v) PROVE LockInv'
  BY <1>9 DEF PublishFails, Goto, Fail
<1>10. ASSUME NEW v \in Volumes, UnpublishCall(v) PROVE LockInv'
  BY <1>10 DEF UnpublishCall, Goto
<1>11. ASSUME NEW v \in Volumes, UnpublishWait(v) PROVE LockInv'
  BY <1>11 DEF UnpublishWait, Goto, Final, Ended
<1>12. ASSUME NEW v \in Volumes, UnpublishFails(v) PROVE LockInv'
  BY <1>12 DEF UnpublishFails, Goto, Fail
<1>13. ASSUME NEW v \in Volumes, UnpublishRemove(v) PROVE LockInv'
  BY <1>13 DEF UnpublishRemove, Goto
<1>14. ASSUME NEW h \in Handles, WorkerRead(h) PROVE LockInv'
  BY <1>14 DEF WorkerRead, Finish, Goto
<1>15. ASSUME NEW a \in Actors, TakeSnapshot(a) PROVE LockInv'
  BY <1>15 DEF TakeSnapshot, Credentials, Goto
<1>16. ASSUME NEW a \in Actors, Push(a) PROVE LockInv'
  BY <1>16 DEF Push, Release, Goto
<1>17. ASSUME NEW a \in Actors, SnapshotFails(a) PROVE LockInv'
  BY <1>17 DEF SnapshotFails, Release, Failed, Fail, Goto
<1>18. ASSUME NEW v \in Volumes, ReconcileRead(v) PROVE LockInv'
  BY <1>18 DEF ReconcileRead
<1>19. ASSUME NEW v \in Volumes, ReconcileRecord(v) PROVE LockInv'
  <2>1. CASE /\ pc' = pc
             /\ UNCHANGED <<workers, volume>>
    BY <1>19, <2>1 DEF ReconcileRecord, StartWorker
  <2>2. ASSUME NEW h \in Handles, Started(v, h, pc)
        PROVE  LockInv'
    BY <1>19, <2>2 DEF ReconcileRecord, Started, Idle
  <2> QED BY <1>19, <2>1, <2>2, StartWorkerCases DEF ReconcileRecord
<1>20. CASE ReconcileList
  BY <1>20 DEF ReconcileList
<1>21. CASE ReconcileUnseen
  BY <1>21 DEF ReconcileUnseen
<1>22. CASE Crash
  BY <1>22 DEF Crash, Fresh
<1>23. CASE UNCHANGED vars
  BY <1>23 DEF vars
<1> QED
  BY <1>1, <1>2, <1>3, <1>4, <1>5, <1>6, <1>7, <1>8, <1>9, <1>10, <1>11,
     <1>12, <1>13, <1>14, <1>15, <1>16, <1>17, <1>18, <1>19, <1>20, <1>21,
     <1>22, <1>23 DEF Next, CallStep, WorkerStep, Reconcile

(* Only an answer to a publish starts a pod. *)
LEMMA QuietStep ==
    ASSUME CoreInv, Quiet, [Next]_vars
    PROVE  Quiet'
<1> USE CsiConstants DEF disk, reconciling, counters, CoreInv, TypeOK,
        Labels, Quiet, Closing, Actors
<1>1. ASSUME NEW v \in Volumes, Write(v) PROVE Quiet'
  BY <1>1 DEF Write
<1>2. ASSUME NEW v \in Volumes, PodEnds(v) PROVE Quiet'
  BY <1>2 DEF PodEnds
<1>3. ASSUME NEW v \in Volumes, NEW context \in Context, PublishCall(v, context)
      PROVE  Quiet'
  BY <1>3 DEF PublishCall, Goto, Context
<1>4. ASSUME NEW v \in Volumes, PublishPull(v) PROVE Quiet'
  BY <1>4 DEF PublishPull, Credentials, Goto
<1>5. ASSUME NEW v \in Volumes, PublishFetch(v) PROVE Quiet'
  BY <1>5 DEF PublishFetch, Goto
<1>6. ASSUME NEW v \in Volumes, PublishMount(v) PROVE Quiet'
  BY <1>6 DEF PublishMount, Goto
<1>7. ASSUME NEW v \in Volumes, PublishRecord(v) PROVE Quiet'
  BY <1>7 DEF PublishRecord, Goto
<1>8. ASSUME NEW v \in Volumes, PublishStart(v) PROVE Quiet'
  <2>1. CASE /\ pc' = [pc EXCEPT ![v] = "idle"]
             /\ UNCHANGED <<workers, volume, cancelled>>
    BY <1>8, <2>1 DEF PublishStart
  <2>2. ASSUME NEW h \in Handles, Started(v, h, [pc EXCEPT ![v] = "idle"])
        PROVE  Quiet'
    <3>1. pc' = [pc EXCEPT ![v] = "idle", ![h] = "read"]
      BY <2>2 DEF Started
    <3> QED
      BY <1>8, <2>2, <3>1 DEF PublishStart, Started, Idle
  <2> QED BY <1>8, <2>1, <2>2, StartWorkerCases DEF PublishStart
<1>9. ASSUME NEW v \in Volumes, PublishFails(v) PROVE Quiet'
  BY <1>9 DEF PublishFails, Goto, Fail
<1>10. ASSUME NEW v \in Volumes, UnpublishCall(v) PROVE Quiet'
  BY <1>10 DEF UnpublishCall, Goto
<1>11. ASSUME NEW v \in Volumes, UnpublishWait(v) PROVE Quiet'
  BY <1>11 DEF UnpublishWait, Goto, Final, Ended
<1>12. ASSUME NEW v \in Volumes, UnpublishFails(v) PROVE Quiet'
  BY <1>12 DEF UnpublishFails, Goto, Fail
<1>13. ASSUME NEW v \in Volumes, UnpublishRemove(v) PROVE Quiet'
  BY <1>13 DEF UnpublishRemove, Goto
<1>14. ASSUME NEW h \in Handles, WorkerRead(h) PROVE Quiet'
  BY <1>14 DEF WorkerRead, Finish, Goto
<1>15. ASSUME NEW a \in Actors, TakeSnapshot(a) PROVE Quiet'
  BY <1>15 DEF TakeSnapshot, Credentials, Goto
<1>16. ASSUME NEW a \in Actors, Push(a) PROVE Quiet'
  BY <1>16 DEF Push, Release, Goto
<1>17. ASSUME NEW a \in Actors, SnapshotFails(a) PROVE Quiet'
  BY <1>17 DEF SnapshotFails, Release, Failed, Fail, Goto
<1>18. ASSUME NEW v \in Volumes, ReconcileRead(v) PROVE Quiet'
  BY <1>18 DEF ReconcileRead
<1>19. ASSUME NEW v \in Volumes, ReconcileRecord(v) PROVE Quiet'
  <2>1. CASE /\ pc' = pc
             /\ UNCHANGED <<workers, volume>>
    BY <1>19, <2>1 DEF ReconcileRecord, StartWorker
  <2>2. ASSUME NEW h \in Handles, Started(v, h, pc)
        PROVE  Quiet'
    BY <1>19, <2>2 DEF ReconcileRecord, Started, Idle
  <2> QED BY <1>19, <2>1, <2>2, StartWorkerCases DEF ReconcileRecord
<1>20. CASE ReconcileList
  BY <1>20 DEF ReconcileList
<1>21. CASE ReconcileUnseen
  BY <1>21 DEF ReconcileUnseen
<1>22. CASE Crash
  BY <1>22 DEF Crash, Fresh
<1>23. CASE UNCHANGED vars
  BY <1>23 DEF vars
<1> QED
  BY <1>1, <1>2, <1>3, <1>4, <1>5, <1>6, <1>7, <1>8, <1>9, <1>10, <1>11,
     <1>12, <1>13, <1>14, <1>15, <1>16, <1>17, <1>18, <1>19, <1>20, <1>21,
     <1>22, <1>23 DEF Next, CallStep, WorkerStep, Reconcile

(* The target does not change while its volume is unpublished. *)
LEMMA FinalStep ==
    ASSUME CoreInv, Quiet, FinalInv, [Next]_vars
    PROVE  FinalInv'
<1> USE CsiConstants DEF disk, reconciling, counters, CoreInv, TypeOK,
        Labels, WorkersReachable, Quiet, FinalInv, Closing, VolumeOf,
        Actors
<1>1. ASSUME NEW v \in Volumes, Write(v) PROVE FinalInv'
  BY <1>1 DEF Write
<1>2. ASSUME NEW v \in Volumes, PodEnds(v) PROVE FinalInv'
  BY <1>2 DEF PodEnds
<1>3. ASSUME NEW v \in Volumes, NEW context \in Context, PublishCall(v, context)
      PROVE  FinalInv'
  BY <1>3 DEF PublishCall, Goto, Context
<1>4. ASSUME NEW v \in Volumes, PublishPull(v) PROVE FinalInv'
  BY <1>4 DEF PublishPull, Credentials, Goto
<1>5. ASSUME NEW v \in Volumes, PublishFetch(v) PROVE FinalInv'
  BY <1>5 DEF PublishFetch, Goto
<1>6. ASSUME NEW v \in Volumes, PublishMount(v) PROVE FinalInv'
  BY <1>6 DEF PublishMount, Goto
<1>7. ASSUME NEW v \in Volumes, PublishRecord(v) PROVE FinalInv'
  BY <1>7 DEF PublishRecord, Goto
<1>8. ASSUME NEW v \in Volumes, PublishStart(v) PROVE FinalInv'
  <2>1. CASE /\ pc' = [pc EXCEPT ![v] = "idle"]
             /\ UNCHANGED <<workers, volume, cancelled>>
    BY <1>8, <2>1 DEF PublishStart
  <2>2. ASSUME NEW h \in Handles, Started(v, h, [pc EXCEPT ![v] = "idle"])
        PROVE  FinalInv'
    <3>1. pc' = [pc EXCEPT ![v] = "idle", ![h] = "read"]
      BY <2>2 DEF Started
    <3> QED
      BY <1>8, <2>2, <3>1 DEF PublishStart, Started, Idle
  <2> QED BY <1>8, <2>1, <2>2, StartWorkerCases DEF PublishStart
<1>9. ASSUME NEW v \in Volumes, PublishFails(v) PROVE FinalInv'
  BY <1>9 DEF PublishFails, Goto, Fail
<1>10. ASSUME NEW v \in Volumes, UnpublishCall(v) PROVE FinalInv'
  BY <1>10 DEF UnpublishCall, Goto
<1>11. ASSUME NEW v \in Volumes, UnpublishWait(v) PROVE FinalInv'
  BY <1>11 DEF UnpublishWait, Goto, Final, Ended
<1>12. ASSUME NEW v \in Volumes, UnpublishFails(v) PROVE FinalInv'
  BY <1>12 DEF UnpublishFails, Goto, Fail
<1>13. ASSUME NEW v \in Volumes, UnpublishRemove(v) PROVE FinalInv'
  BY <1>13 DEF UnpublishRemove, Goto
<1>14. ASSUME NEW h \in Handles, WorkerRead(h) PROVE FinalInv'
  BY <1>14 DEF WorkerRead, Finish, Goto
<1>15. ASSUME NEW a \in Actors, TakeSnapshot(a) PROVE FinalInv'
  BY <1>15 DEF TakeSnapshot, Credentials, Goto
<1>16. ASSUME NEW a \in Actors, Push(a) PROVE FinalInv'
  BY <1>16 DEF Push, Release, Goto
<1>17. ASSUME NEW a \in Actors, SnapshotFails(a) PROVE FinalInv'
  BY <1>17 DEF SnapshotFails, Release, Failed, Fail, Goto
<1>18. ASSUME NEW v \in Volumes, ReconcileRead(v) PROVE FinalInv'
  BY <1>18 DEF ReconcileRead
<1>19. ASSUME NEW v \in Volumes, ReconcileRecord(v) PROVE FinalInv'
  <2>1. CASE /\ pc' = pc
             /\ UNCHANGED <<workers, volume>>
    BY <1>19, <2>1 DEF ReconcileRecord, StartWorker
  <2>2. ASSUME NEW h \in Handles, Started(v, h, pc)
        PROVE  FinalInv'
    BY <1>19, <2>2 DEF ReconcileRecord, Started, Idle
  <2> QED BY <1>19, <2>1, <2>2, StartWorkerCases DEF ReconcileRecord
<1>20. CASE ReconcileList
  BY <1>20 DEF ReconcileList
<1>21. CASE ReconcileUnseen
  BY <1>21 DEF ReconcileUnseen
<1>22. CASE Crash
  BY <1>22 DEF Crash, Fresh
<1>23. CASE UNCHANGED vars
  BY <1>23 DEF vars
<1> QED
  BY <1>1, <1>2, <1>3, <1>4, <1>5, <1>6, <1>7, <1>8, <1>9, <1>10, <1>11,
     <1>12, <1>13, <1>14, <1>15, <1>16, <1>17, <1>18, <1>19, <1>20, <1>21,
     <1>22, <1>23 DEF Next, CallStep, WorkerStep, Reconcile

(* The mutex keeps out whoever has credentials. *)
LEMMA EnvStep ==
    ASSUME CoreInv, EnvInv, [Next]_vars
    PROVE  EnvInv'
<1> USE CsiConstants DEF disk, reconciling, counters, CoreInv, TypeOK,
        EnvInv, HasCredentials, VolumeOf, Actors
<1>1. ASSUME NEW v \in Volumes, Write(v) PROVE EnvInv'
  BY <1>1 DEF Write
<1>2. ASSUME NEW v \in Volumes, PodEnds(v) PROVE EnvInv'
  BY <1>2 DEF PodEnds
<1>3. ASSUME NEW v \in Volumes, NEW context \in Context, PublishCall(v, context)
      PROVE  EnvInv'
  BY <1>3 DEF PublishCall, Goto, Context
<1>4. ASSUME NEW v \in Volumes, PublishPull(v) PROVE EnvInv'
  BY <1>4 DEF PublishPull, Credentials, Goto
<1>5. ASSUME NEW v \in Volumes, PublishFetch(v) PROVE EnvInv'
  BY <1>5 DEF PublishFetch, Goto
<1>6. ASSUME NEW v \in Volumes, PublishMount(v) PROVE EnvInv'
  BY <1>6 DEF PublishMount, Goto
<1>7. ASSUME NEW v \in Volumes, PublishRecord(v) PROVE EnvInv'
  BY <1>7 DEF PublishRecord, Goto
<1>8. ASSUME NEW v \in Volumes, PublishStart(v) PROVE EnvInv'
  <2>1. CASE /\ pc' = [pc EXCEPT ![v] = "idle"]
             /\ UNCHANGED <<workers, volume, cancelled>>
    BY <1>8, <2>1 DEF PublishStart
  <2>2. ASSUME NEW h \in Handles, Started(v, h, [pc EXCEPT ![v] = "idle"])
        PROVE  EnvInv'
    <3>1. pc' = [pc EXCEPT ![v] = "idle", ![h] = "read"]
      BY <2>2 DEF Started
    <3> QED
      BY <1>8, <2>2, <3>1 DEF PublishStart, Started, Idle
  <2> QED BY <1>8, <2>1, <2>2, StartWorkerCases DEF PublishStart
<1>9. ASSUME NEW v \in Volumes, PublishFails(v) PROVE EnvInv'
  BY <1>9 DEF PublishFails, Goto, Fail
<1>10. ASSUME NEW v \in Volumes, UnpublishCall(v) PROVE EnvInv'
  BY <1>10 DEF UnpublishCall, Goto
<1>11. ASSUME NEW v \in Volumes, UnpublishWait(v) PROVE EnvInv'
  BY <1>11 DEF UnpublishWait, Goto, Final, Ended
<1>12. ASSUME NEW v \in Volumes, UnpublishFails(v) PROVE EnvInv'
  BY <1>12 DEF UnpublishFails, Goto, Fail
<1>13. ASSUME NEW v \in Volumes, UnpublishRemove(v) PROVE EnvInv'
  BY <1>13 DEF UnpublishRemove, Goto
<1>14. ASSUME NEW h \in Handles, WorkerRead(h) PROVE EnvInv'
  BY <1>14 DEF WorkerRead, Finish, Goto
<1>15. ASSUME NEW a \in Actors, TakeSnapshot(a) PROVE EnvInv'
  BY <1>15 DEF TakeSnapshot, Credentials, Goto
<1>16. ASSUME NEW a \in Actors, Push(a) PROVE EnvInv'
  BY <1>16 DEF Push, Release, Goto
<1>17. ASSUME NEW a \in Actors, SnapshotFails(a) PROVE EnvInv'
  BY <1>17 DEF SnapshotFails, Release, Failed, Fail, Goto
<1>18. ASSUME NEW v \in Volumes, ReconcileRead(v) PROVE EnvInv'
  BY <1>18 DEF ReconcileRead
<1>19. ASSUME NEW v \in Volumes, ReconcileRecord(v) PROVE EnvInv'
  <2>1. CASE /\ pc' = pc
             /\ UNCHANGED <<workers, volume>>
    BY <1>19, <2>1 DEF ReconcileRecord, StartWorker
  <2>2. ASSUME NEW h \in Handles, Started(v, h, pc)
        PROVE  EnvInv'
    BY <1>19, <2>2 DEF ReconcileRecord, Started, Idle
  <2> QED BY <1>19, <2>1, <2>2, StartWorkerCases DEF ReconcileRecord
<1>20. CASE ReconcileList
  BY <1>20 DEF ReconcileList
<1>21. CASE ReconcileUnseen
  BY <1>21 DEF ReconcileUnseen
<1>22. CASE Crash
  BY <1>22 DEF Crash, Fresh
<1>23. CASE UNCHANGED vars
  BY <1>23 DEF vars
<1> QED
  BY <1>1, <1>2, <1>3, <1>4, <1>5, <1>6, <1>7, <1>8, <1>9, <1>10, <1>11,
     <1>12, <1>13, <1>14, <1>15, <1>16, <1>17, <1>18, <1>19, <1>20, <1>21,
     <1>22, <1>23 DEF Next, CallStep, WorkerStep, Reconcile

-----------------------------------------------------------------------------
LEMMA IInvInit == Init => IInv
<1> SUFFICES ASSUME Init PROVE IInv
  OBVIOUS
<1>1. (CHOOSE v \in Volumes : TRUE) \in Volumes
  BY EnoughHandles
<1>2. TypeOK
  BY <1>1, CsiConstants
     DEF Init, Fresh, TypeOK, Record, Trees, Digest, WorkerPC, CallPC
<1>3. Labels /\ WorkersReachable /\ LockInv /\ Quiet /\ FinalInv /\ EnvInv
  BY CsiConstants
     DEF Init, Fresh, Labels, WorkersReachable, LockInv, Quiet, Closing,
         FinalInv, EnvInv, Actors, WorkerPC, CallPC
<1> QED BY <1>2, <1>3 DEF IInv, CoreInv

LEMMA IInvStep == IInv /\ [Next]_vars => IInv'
BY TypeStep, LabelsStep, ReachableStep, LockStep, QuietStep, FinalStep, EnvStep
   DEF IInv, CoreInv

LEMMA IInvAlways == Spec => []IInv
BY IInvInit, IInvStep, PTL DEF Spec

(* The driver's state keeps its types, and volumeSnapshotLock is held only *)
(* by a snapshot that is under way, for any number of volumes.             *)
THEOREM TypeCorrect == Spec => []TypeOK
<1>1. IInv => TypeOK
  BY DEF IInv, CoreInv
<1> QED BY <1>1, IInvAlways, PTL

(* Publish, unpublish, reconcile and the workers' own exits, in any order  *)
(* and across restarts, never leave a goroutine that the manager's map     *)
(* does not lead to, and never give a volume two.                          *)
THEOREM WorkersStayReachable == Spec => []WorkersReachable
<1>1. IInv => WorkersReachable
  BY DEF IInv, CoreInv
<1> QED BY <1>1, IInvAlways, PTL

(* NodeUnpublishVolume drops the record of an autosnapshot volume only     *)
(* when the registry has the tree that the pod left.                       *)
THEOREM FinalTreePushed == Spec => []UnpublishedIsPushed
<1>1. IInv => UnpublishedIsPushed
  BY DEF IInv, FinalInv, UnpublishedIsPushed
<1> QED BY <1>1, IInvAlways, PTL

(* A pull or a push runs with its own volume's credentials, when all       *)
(* volumes have a secret or none has.                                      *)
THEOREM CredentialsAreOwn ==
    ASSUME Secrets = Volumes \/ Secrets = {}
    PROVE  Spec => []OwnCredentials
<1>1. IInv => OwnCredentials
  <2> SUFFICES ASSUME IInv PROVE OwnCredentials
    OBVIOUS
  <2>1. \A a \in Actors : VolumeOf(a) \in Volumes
    BY DEF IInv, CoreInv, TypeOK, Actors, VolumeOf
  <2>2. CASE Secrets = Volumes
    BY <2>1, <2>2 DEF IInv, EnvInv, OwnCredentials, HasCredentials
  <2>3. CASE Secrets = {}
    BY <2>3 DEF IInv, EnvInv, OwnCredentials, HasCredentials
  <2> QED BY <2>2, <2>3
<1> QED BY <1>1, IInvAlways, PTL

(* Whichever volumes have a secret, a volume that has one never runs with  *)
(* the credentials of another, nor without any.                            *)
THEOREM SecretsAreOwn ==
    Spec => [](\A a \in Actors :
                pc[a] \in {"push", "fetch"} /\ HasCredentials(VolumeOf(a))
                    => env = a)
<1>1. IInv => \A a \in Actors :
                pc[a] \in {"push", "fetch"} /\ HasCredentials(VolumeOf(a))
                    => env = a
  BY DEF IInv, EnvInv
<1> QED BY <1>1, IInvAlways, PTL

(* A worker's snapshot and the final snapshot of an unpublish never run at *)
(* once for a volume (volumeSnapshotLock).                                 *)
THEOREM OneSnapshotAtOnce ==
    Spec => [](\A a, b \in Actors :
                pc[a] = "push" /\ pc[b] = "push" /\ VolumeOf(a) = VolumeOf(b)
                    => a = b)
<1>1. IInv => \A a, b \in Actors :
                pc[a] = "push" /\ pc[b] = "push" /\ VolumeOf(a) = VolumeOf(b)
                    => a = b
  BY DEF IInv, LockInv
<1> QED BY <1>1, IInvAlways, PTL
============================================================================
