------------------------------ MODULE CsiNode ------------------------------
(***************************************************************************)
(* The CSI node driver (internal/csinode): NodePublishVolume and           *)
(* NodeUnpublishVolume, the snapshot worker of each volume, the manager    *)
(* that reconciles workers with the mount records on disk, the lock around *)
(* a volume's snapshots and the registry credentials in the environment    *)
(* of the process.  The kubelet runs one call at a time for a volume,      *)
(* starts the pod after a publish and ends it before it unpublishes.       *)
(*                                                                         *)
(* A file tree is the number of the write that made it.  The volume        *)
(* context of a volume changes only in autoSnapshot and sourceRef, so      *)
(* ReconfigureWorkspace and its rollback rewrite the same settings and are *)
(* left out.  Node.Snapshot runs one iteration of osix.Watch; what it does *)
(* in the store is ImageStore, what a push does is Registry.               *)
(***************************************************************************)
EXTENDS Integers, FiniteSets

CONSTANTS
    Volumes,        \* volume IDs; a volume also names the call about it
    Handles,        \* workerHandle values that can exist at once
    Nobody,         \* no handle, no holder of a lock, no credentials
    Secrets,        \* volumes with a registrySecretRef
    MaxDirty,       \* maxDirtyBytes of the policy, in writes; 0 is unset
    MaxWrites,      \* bound on the writes of the workloads
    MaxFails,       \* bound on the failures of calls to store and registry
    MaxCrashes      \* bound on the restarts of the driver

ASSUME CsiConstants ==
    /\ Nobody \notin Volumes \cup Handles /\ Volumes \cap Handles = {}
    /\ Secrets \subseteq Volumes
    /\ {MaxDirty, MaxWrites, MaxFails, MaxCrashes} \subseteq Nat

(* The code allocates a workerHandle whenever it starts a goroutine.  At   *)
(* most one per volume is in the map and each unpublish waits for one, so  *)
(* twice as many handles as volumes always leave one to start.             *)
ASSUME EnoughHandles ==
    /\ Volumes # {} /\ IsFiniteSet(Volumes) /\ IsFiniteSet(Handles)
    /\ Cardinality(Handles) >= 2 * Cardinality(Volumes)

NoSnapshot == -1
Trees == 0..MaxWrites
Digest == Trees \cup {NoSnapshot}
Actors == Handles \cup Volumes

VARIABLES
    record,     \* csi/volumes/*.json: "none", "manual" or "auto" (AutoSnapshot)
    target,     \* what the target directory holds
    head,       \* the workspace's branch ref
    remote,     \* the branch tag in the registry
    running,    \* volumes whose pod runs
    workers,    \* WorkerManager.workers
    volume,     \* the volume a handle's goroutine works for
    cancelled,  \* handles whose context is cancelled
    pc,         \* where each worker and each call is
    snap,       \* the snapshot a worker or a call has taken and not pushed
    want,       \* the record a call has read, or has been asked to write
    await,      \* the handle whose done channel an unpublish waits for
    lock,       \* holder of volumeSnapshotLock, by volume
    env,        \* holder of registryEnvMu: its credentials are in the environment
    manager,    \* where WorkerManager.Run is
    unread,     \* records that a reconcile has listed and not read yet
    listed,     \* what it has read
    todo,       \* records that it has read and not acted on yet
    writes, fails, crashes  \* counters for the bounds

disk == <<record, target, head, remote, running>>
reconciling == <<manager, unread, listed, todo>>
counters == <<writes, fails, crashes>>
vars == <<disk, workers, volume, cancelled, pc, snap, want, await, lock, env,
          reconciling, counters>>

(* volumeContext, as far as the driver's control depends on it: whether    *)
(* autosnapshot is on, and whether the source is the branch ("mount") or a *)
(* remote reference ("pull").                                              *)
Context == [record : {"manual", "auto"}, source : {"mount", "pull"}]

(* registryCredentials: the secret of the volume holds some. *)
HasCredentials(v) == v \in Secrets

Record == {"none", "manual", "auto"}
WorkerPC == {"free", "read", "snapshot", "push"}
CallPC == {"idle", "pull", "fetch", "mount", "record", "start", "wait",
           "snapshot", "push", "remove"}

(* Types; and a held lock belongs to a snapshot that is under way. *)
TypeOK ==
    /\ record \in [Volumes -> Record]
    /\ target \in [Volumes -> Trees]
    /\ head \in [Volumes -> Digest] /\ remote \in [Volumes -> Digest]
    /\ running \subseteq Volumes
    /\ workers \in [Volumes -> Handles \cup {Nobody}]
    /\ volume \in [Handles -> Volumes]
    /\ cancelled \subseteq Handles
    /\ pc \in [Actors -> WorkerPC \cup CallPC]
    /\ snap \in [Actors -> Digest]
    /\ want \in [Volumes -> Record]
    /\ await \in [Volumes -> Handles \cup {Nobody}]
    /\ lock \in [Volumes -> Actors \cup {Nobody}]
    /\ \A v \in Volumes : lock[v] # Nobody => pc[lock[v]] = "push"
    /\ env \in Actors \cup {Nobody}
    /\ manager \in {"first", "idle", "read", "firstread", "stopped"}
    /\ unread \subseteq Volumes /\ todo \subseteq Volumes
    /\ listed \in [Volumes -> Record]
    /\ writes \in 0..MaxWrites /\ fails \in 0..MaxFails
    /\ crashes \in 0..MaxCrashes

(* What a process that has just started holds in memory. *)
Fresh ==
    [workers |-> [v \in Volumes |-> Nobody], cancelled |-> {},
     pc |-> [a \in Actors |-> IF a \in Handles THEN "free" ELSE "idle"],
     snap |-> [a \in Actors |-> NoSnapshot],
     want |-> [v \in Volumes |-> "none"],
     await |-> [v \in Volumes |-> Nobody],
     lock |-> [v \in Volumes |-> Nobody],
     listed |-> [v \in Volumes |-> "none"]]

Init ==
    /\ record = [v \in Volumes |-> "none"]
    /\ target = [v \in Volumes |-> 0]
    /\ head = [v \in Volumes |-> NoSnapshot]
    /\ remote = [v \in Volumes |-> NoSnapshot]
    /\ running = {}
    /\ volume = [h \in Handles |-> CHOOSE v \in Volumes : TRUE]
    /\ workers = Fresh.workers /\ cancelled = Fresh.cancelled
    /\ pc = Fresh.pc /\ snap = Fresh.snap /\ want = Fresh.want
    /\ await = Fresh.await /\ lock = Fresh.lock /\ env = Nobody
    /\ manager = "first" /\ unread = {} /\ todo = {} /\ listed = Fresh.listed
    /\ writes = 0 /\ fails = 0 /\ crashes = 0

-----------------------------------------------------------------------------
VolumeOf(a) == IF a \in Volumes THEN a ELSE volume[a]
Goto(a, label) == pc' = [pc EXCEPT ![a] = label]

(* Where a worker and a call go when Node.Snapshot returns an error: the   *)
(* worker reports it, sleeps and tries again; the call returns it.         *)
Failed(a) == IF a \in Volumes THEN "idle" ELSE "read"

(* One of the calls into the store, the registry or Kubernetes fails. *)
Fail ==
    /\ fails < MaxFails
    /\ fails' = fails + 1
    /\ UNCHANGED <<writes, crashes>>

-----------------------------------------------------------------------------
(* The pod writes while it runs. *)
Write(v) ==
    /\ v \in running
    /\ writes < MaxWrites
    /\ writes' = writes + 1
    /\ target' = [target EXCEPT ![v] = writes + 1]
    /\ UNCHANGED <<record, head, remote, running, workers, volume, cancelled,
                   pc, snap, want, await, lock, env, reconciling, fails, crashes>>

PodEnds(v) ==
    /\ v \in running
    /\ pc[v] = "idle"
    /\ running' = running \ {v}
    /\ UNCHANGED <<record, target, head, remote, workers, volume, cancelled,
                   pc, snap, want, await, lock, env, reconciling, counters>>

-----------------------------------------------------------------------------
(* start does nothing while the map has a handle of the volume.  A handle  *)
(* is free when its goroutine has ended and no call waits for it.          *)
Idle(h) == pc[h] = "free" /\ \A v \in Volumes : await[v] # h

(* Mutant of StartWorker: the map is not asked. *)
StartAnyway(v, go) ==
    LET h == CHOOSE g \in Handles : Idle(g) IN
        /\ workers' = [workers EXCEPT ![v] = h]
        /\ volume' = [volume EXCEPT ![h] = v]
        /\ cancelled' = cancelled \ {h}
        /\ pc' = [go EXCEPT ![h] = "read"]

StartWorker(v, go) ==
    IF workers[v] # Nobody
    THEN pc' = go /\ UNCHANGED <<workers, volume, cancelled>>
    ELSE LET h == CHOOSE g \in Handles : Idle(g) IN
            /\ workers' = [workers EXCEPT ![v] = h]
            /\ volume' = [volume EXCEPT ![h] = v]
            /\ cancelled' = cancelled \ {h}
            /\ pc' = [go EXCEPT ![h] = "read"]

(* finish runs when the goroutine returns and closes the done channel. *)
(* Mutant of Finish: the handle stays in the map. *)
FinishStaysListed(h) ==
    /\ Goto(h, "free")
    /\ cancelled' = cancelled \ {h}
    /\ UNCHANGED workers

Finish(h) ==
    /\ Goto(h, "free")
    /\ cancelled' = cancelled \ {h}
    /\ workers' = [v \in Volumes |->
                     IF v = volume[h] /\ workers[v] = h THEN Nobody ELSE workers[v]]

(* SnapshotNeeded: TargetChanges against the local branch ref. *)
Needed(v) ==
    \/ head[v] = NoSnapshot
    \/ target[v] # head[v] /\ (MaxDirty = 0 \/ target[v] - head[v] >= MaxDirty)

(* runWorker's loop up to the snapshot: the context, the record, the       *)
(* decision; without a change it sleeps and starts over.                   *)
WorkerRead(h) ==
    /\ pc[h] = "read"
    /\ IF h \in cancelled \/ record[volume[h]] # "auto"
       THEN Finish(h)
       ELSE /\ Needed(volume[h])
            /\ Goto(h, "snapshot")
            /\ UNCHANGED <<cancelled, workers>>
    /\ UNCHANGED <<disk, volume, snap, want, await, lock, env, reconciling, counters>>

-----------------------------------------------------------------------------
(* withRegistryCredentials: a volume without a secret takes no mutex. *)
(* Mutant of Credentials: the environment is set without the mutex. *)
CredentialsUnlocked(a) ==
    env' = IF HasCredentials(VolumeOf(a)) THEN a ELSE env

Credentials(a) ==
    IF HasCredentials(VolumeOf(a))
    THEN env = Nobody /\ env' = a
    ELSE UNCHANGED env

(* Node.Snapshot, in a worker or in a call, takes the lock of the volume,  *)
(* then the credentials, and runs one iteration of osix.Watch, which first *)
(* takes the local snapshot.                                               *)
TakeSnapshot(a) ==
    /\ pc[a] = "snapshot"
    /\ lock[VolumeOf(a)] = Nobody
    /\ lock' = [lock EXCEPT ![VolumeOf(a)] = a]
    /\ Credentials(a)
    /\ head' = [head EXCEPT ![VolumeOf(a)] = target[VolumeOf(a)]]
    /\ snap' = [snap EXCEPT ![a] = target[VolumeOf(a)]]
    /\ Goto(a, "push")
    /\ UNCHANGED <<record, target, remote, running, workers, volume, cancelled,
                   want, await, reconciling, counters>>

(* Both locks are deferred, so every return path releases them. *)
Release(a) ==
    /\ lock' = [lock EXCEPT ![VolumeOf(a)] = Nobody]
    /\ env' = IF env = a THEN Nobody ELSE env
    /\ snap' = [snap EXCEPT ![a] = NoSnapshot]

(* The push sets the tags in the registry; a worker reports the result     *)
(* (snapshotEvent), a call goes on to unmount.                             *)
Push(a) ==
    /\ pc[a] = "push"
    /\ remote' = [remote EXCEPT ![VolumeOf(a)] = snap[a]]
    /\ Release(a)
    /\ Goto(a, IF a \in Volumes THEN "remove" ELSE "read")
    /\ UNCHANGED <<record, target, head, running, workers, volume, cancelled, want,
                   await, reconciling, counters>>

(* Mutant of SnapshotFails: an error return without the deferred unlock. *)
SnapshotFailsLocked(a) ==
    /\ pc[a] \in {"snapshot", "push"}
    /\ Fail
    /\ env' = IF env = a THEN Nobody ELSE env
    /\ snap' = [snap EXCEPT ![a] = NoSnapshot]
    /\ Goto(a, Failed(a))
    /\ UNCHANGED <<disk, workers, volume, cancelled, want, await, lock, reconciling>>

(* The credentials, the local snapshot or the push fails.  A snapshot that *)
(* was taken stays the head of the local branch.                           *)
SnapshotFails(a) ==
    /\ pc[a] \in {"snapshot", "push"}
    /\ Fail
    /\ IF pc[a] = "push" THEN Release(a) ELSE UNCHANGED <<lock, env, snap>>
    /\ Goto(a, Failed(a))
    /\ UNCHANGED <<record, target, head, remote, running, workers, volume, cancelled,
                   want, await, reconciling>>

-----------------------------------------------------------------------------
(* NodePublishVolume.  The kubelet may repeat it while the pod runs.       *)
PublishCall(v, context) ==
    /\ pc[v] = "idle"
    /\ want' = [want EXCEPT ![v] = context.record]
    /\ Goto(v, context.source)
    /\ UNCHANGED <<disk, workers, volume, cancelled, snap, await, lock, env,
                   reconciling, counters>>

(* PullSnapshot runs with the credentials of the volume. *)
PublishPull(v) ==
    /\ pc[v] = "pull"
    /\ Credentials(v)
    /\ Goto(v, "fetch")
    /\ UNCHANGED <<disk, workers, volume, cancelled, snap, want, await, lock, reconciling,
                   counters>>

PublishFetch(v) ==
    /\ pc[v] = "fetch"
    /\ remote[v] # NoSnapshot
    /\ snap' = [snap EXCEPT ![v] = remote[v]]
    /\ env' = IF env = v THEN Nobody ELSE env
    /\ Goto(v, "mount")
    /\ UNCHANGED <<disk, workers, volume, cancelled, want, await, lock, reconciling,
                   counters>>

(* After verifySource, Mount with Force replaces the target by the source  *)
(* snapshot; without one the directory is only created.                    *)
PublishMount(v) ==
    /\ pc[v] = "mount"
    /\ LET source == IF snap[v] # NoSnapshot THEN snap[v] ELSE head[v]
       IN target' = [target EXCEPT ![v] = IF source = NoSnapshot THEN @ ELSE source]
    /\ snap' = [snap EXCEPT ![v] = NoSnapshot]
    /\ Goto(v, "record")
    /\ UNCHANGED <<record, head, remote, running, workers, volume, cancelled,
                   want, await, lock, env, reconciling, counters>>

(* writeMountRecord replaces the file by a rename. *)
PublishRecord(v) ==
    /\ pc[v] = "record"
    /\ record' = [record EXCEPT ![v] = want[v]]
    /\ Goto(v, "start")
    /\ UNCHANGED <<target, head, remote, running, workers, volume, cancelled,
                   snap, want, await, lock, env, reconciling, counters>>

(* StartRecord, and the answer that lets the kubelet start the pod. *)
PublishStart(v) ==
    /\ pc[v] = "start"
    /\ LET return == [pc EXCEPT ![v] = "idle"] IN
       IF want[v] = "auto"
       THEN StartWorker(v, return)
       ELSE pc' = return /\ UNCHANGED <<workers, volume, cancelled>>
    /\ running' = running \cup {v}
    /\ want' = [want EXCEPT ![v] = "none"]
    /\ UNCHANGED <<record, target, head, remote, snap, await, lock, env,
                   reconciling, counters>>

(* The pull (also of a tag that does not exist), the verification or the   *)
(* mount fails.                                                            *)
PublishFails(v) ==
    /\ \/ pc[v] \in {"fetch", "mount", "record"} /\ Fail
       \/ pc[v] = "fetch" /\ remote[v] = NoSnapshot /\ UNCHANGED counters
    /\ snap' = [snap EXCEPT ![v] = NoSnapshot]
    /\ env' = IF env = v THEN Nobody ELSE env
    /\ want' = [want EXCEPT ![v] = "none"]
    /\ Goto(v, "idle")
    /\ UNCHANGED <<disk, workers, volume, cancelled, await, lock, reconciling>>

-----------------------------------------------------------------------------
(* NodeUnpublishVolume reads the record and cancels the worker; it waits   *)
(* for the worker that was in the map (stopAndWait).                       *)
UnpublishCall(v) ==
    /\ pc[v] = "idle"
    /\ v \notin running
    /\ want' = [want EXCEPT ![v] = record[v]]
    /\ await' = [await EXCEPT ![v] = workers[v]]
    /\ cancelled' = cancelled \cup ({workers[v]} \ {Nobody})
    /\ Goto(v, "wait")
    /\ UNCHANGED <<disk, workers, volume, snap, lock, env, reconciling, counters>>

(* Mutant of Final: the final snapshot is left out when the branch is up   *)
(* to date.                                                                *)
FinalWhenChanged(v) ==
    IF want[v] = "auto" /\ Needed(v) THEN "snapshot" ELSE "remove"

(* Unpublish with finalSnapshot = record.AutoSnapshot. *)
Final(v) == IF want[v] = "auto" THEN "snapshot" ELSE "remove"

(* Mutant of Ended: the call waits until the map has no worker. *)
EndedInMap(v) == workers[v] = Nobody

(* The done channel of the worker that was in the map is closed. *)
Ended(v) == await[v] # Nobody => pc[await[v]] = "free"

UnpublishWait(v) ==
    /\ pc[v] = "wait"
    /\ Ended(v)
    /\ await' = [await EXCEPT ![v] = Nobody]
    /\ Goto(v, Final(v))
    /\ UNCHANGED <<disk, workers, volume, cancelled, snap, want, lock, env,
                   reconciling, counters>>

(* The deadline of the call passes first, or the unmount fails. *)
UnpublishFails(v) ==
    /\ pc[v] \in {"wait", "remove"}
    /\ Fail
    /\ await' = [await EXCEPT ![v] = Nobody]
    /\ want' = [want EXCEPT ![v] = "none"]
    /\ Goto(v, "idle")
    /\ UNCHANGED <<disk, workers, volume, cancelled, snap, lock, env, reconciling>>

(* Unmount with Force and removeMountRecord. *)
UnpublishRemove(v) ==
    /\ pc[v] = "remove"
    /\ record' = [record EXCEPT ![v] = "none"]
    /\ want' = [want EXCEPT ![v] = "none"]
    /\ Goto(v, "idle")
    /\ UNCHANGED <<target, head, remote, running, workers, volume, cancelled,
                   snap, await, lock, env, reconciling, counters>>

-----------------------------------------------------------------------------
(* WorkerManager.Run and reconcile: listMountRecords lists the directory,  *)
(* then reads the files one by one.                                        *)
ReconcileList ==
    /\ manager \in {"first", "idle"}
    /\ manager' = IF manager = "first" THEN "firstread" ELSE "read"
    /\ unread' = {v \in Volumes : record[v] # "none"}
    /\ listed' = [v \in Volumes |-> "none"]
    /\ todo' = unread'
    /\ UNCHANGED <<disk, workers, volume, cancelled, pc, snap, want, await, lock, env,
                   counters>>

(* A record that is gone by now makes listMountRecords fail: the first     *)
(* reconcile then ends Run, a later one waits for the next tick.           *)
ReconcileRead(v) ==
    /\ v \in unread
    /\ IF record[v] = "none"
       THEN /\ manager' = IF manager = "firstread" THEN "stopped" ELSE "idle"
            /\ unread' = {} /\ todo' = {}
            /\ listed' = [u \in Volumes |-> "none"]
       ELSE /\ unread' = unread \ {v}
            /\ listed' = [listed EXCEPT ![v] = record[v]]
            /\ UNCHANGED <<manager, todo>>
    /\ UNCHANGED <<disk, workers, volume, cancelled, pc, snap, want, await, lock, env,
                   counters>>

(* start, or stop, for one of the records that were read. *)
ReconcileRecord(v) ==
    /\ unread = {}
    /\ v \in todo
    /\ todo' = todo \ {v}
    /\ IF listed[v] = "auto"
       THEN StartWorker(v, pc)
       ELSE /\ cancelled' = cancelled \cup ({workers[v]} \ {Nobody})
            /\ UNCHANGED <<pc, workers, volume>>
    /\ UNCHANGED <<disk, snap, want, await, lock, env, manager, unread, listed, counters>>

(* Workers of volumes that were not listed are cancelled. *)
ReconcileUnseen ==
    /\ manager \in {"read", "firstread"}
    /\ unread = {} /\ todo = {}
    /\ cancelled' = cancelled \cup
         {h \in Handles : \E v \in Volumes : listed[v] = "none" /\ workers[v] = h}
    /\ manager' = "idle"
    /\ listed' = [v \in Volumes |-> "none"]
    /\ UNCHANGED <<disk, workers, volume, pc, snap, want, await, lock, env, unread, todo,
                   counters>>

-----------------------------------------------------------------------------
(* The driver dies and is started again (ServeCSI): what is in files and   *)
(* in the registry stays, and pods that run go on.                         *)
Crash ==
    /\ crashes < MaxCrashes
    /\ crashes' = crashes + 1
    /\ workers' = Fresh.workers /\ cancelled' = Fresh.cancelled
    /\ pc' = Fresh.pc /\ snap' = Fresh.snap /\ want' = Fresh.want
    /\ await' = Fresh.await /\ lock' = Fresh.lock /\ env' = Nobody
    /\ manager' = "first" /\ unread' = {} /\ todo' = {} /\ listed' = Fresh.listed
    /\ UNCHANGED <<disk, volume, writes, fails>>

WorkerStep(h) == WorkerRead(h) \/ TakeSnapshot(h) \/ Push(h)
CallStep(v) ==
    \/ PublishPull(v) \/ PublishFetch(v) \/ PublishMount(v) \/ PublishRecord(v)
    \/ PublishStart(v) \/ UnpublishWait(v) \/ UnpublishRemove(v)
    \/ TakeSnapshot(v) \/ Push(v)
Reconcile ==
    \/ ReconcileList \/ ReconcileUnseen
    \/ \E v \in Volumes : ReconcileRead(v) \/ ReconcileRecord(v)

Next ==
    \/ \E v \in Volumes :
        \/ Write(v) \/ PodEnds(v) \/ CallStep(v)
        \/ UnpublishCall(v) \/ PublishFails(v) \/ UnpublishFails(v)
        \/ \E context \in Context : PublishCall(v, context)
    \/ \E h \in Handles : WorkerStep(h)
    \/ \E a \in Actors : SnapshotFails(a)
    \/ Reconcile
    \/ Crash

Spec == Init /\ [][Next]_vars

(* Goroutines are scheduled, the reconcile ticker fires and mutexes are    *)
(* granted; the kubelet, the workload and failures owe nothing.            *)
Fairness ==
    /\ \A h \in Handles : WF_vars(WorkerStep(h)) /\ SF_vars(TakeSnapshot(h))
    /\ \A v \in Volumes :
        /\ WF_vars(CallStep(v) \/ PublishFails(v))
        /\ SF_vars(TakeSnapshot(v)) /\ SF_vars(PublishPull(v))
    /\ WF_vars(ReconcileList) /\ WF_vars(ReconcileUnseen)
    /\ \A v \in Volumes : WF_vars(ReconcileRead(v)) /\ WF_vars(ReconcileRecord(v))

FairSpec == Spec /\ Fairness

-----------------------------------------------------------------------------
(* Every goroutine that works for a volume is the one the manager's map    *)
(* leads to, so that stop, stopAndWait and stopAll reach it, and no volume *)
(* has two.                                                                *)
WorkersReachable ==
    \A h \in Handles : pc[h] # "free" => workers[volume[h]] = h

(* When NodeUnpublishVolume is about to drop the record of an autosnapshot *)
(* volume, the registry has what the pod left in the target: after failed  *)
(* pushes, restarts and repeated calls, and with a worker that the         *)
(* reconcile restarts behind stopAndWait.                                  *)
UnpublishedIsPushed ==
    \A v \in Volumes :
        pc[v] = "remove" /\ want[v] = "auto" => remote[v] = target[v]

(* A pull or a push runs with the credentials of its own volume and of no  *)
(* other (withRegistryCredentials; every volume has a secret, or none).    *)
OwnCredentials ==
    \A a \in Actors :
        pc[a] \in {"push", "fetch"}
            => env = IF HasCredentials(VolumeOf(a)) THEN a ELSE Nobody

(* Changes of an autosnapshot volume are eventually in the local branch,   *)
(* whatever restarts, failures and races of reconcile with publish do to   *)
(* the workers; unless the volume stops being one, or the first reconcile  *)
(* of the process has failed.                                              *)
ChangesSnapshotted ==
    \A v \in Volumes :
        (record[v] = "auto" /\ target[v] # head[v] /\ Needed(v))
            ~> (target[v] = head[v] \/ record[v] # "auto" \/ manager = "stopped")

(* NodeUnpublishVolume always returns: it is not left waiting for a worker *)
(* or for a lock.                                                          *)
UnpublishReturns ==
    \A v \in Volumes : pc[v] \in {"wait", "snapshot"} ~> pc[v] = "idle"
=============================================================================
