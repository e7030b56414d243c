----------------------------- MODULE ImageStore -----------------------------
(***************************************************************************)
(* The content-addressed store of a workspace (.osix) and the commands     *)
(* that fill it and collect it: Snapshot, Fork, Mount, Compact with        *)
(* pruneLocalSnapshots (internal/osix/snapshot.go, compact.go, store.go).  *)
(* A command is a process that works file by file; the store has no lock   *)
(* across files.  Snapshots are numbered in the order they are scanned;    *)
(* the number stands for the manifest digest.  A layer is named by what    *)
(* it holds, so equal layers are one blob.  Chains are plain delta chains: *)
(* encryption, and with it the lazy indexes, is off.  A batch of refs is   *)
(* written ref by ref, in any order; RefTxn has the transaction in full.   *)
(***************************************************************************)
EXTENDS Naturals, Sequences, FiniteSets

CONSTANTS
    Actors,         \* processes that run commands
    Targets,        \* directories agents work in
    Names,          \* ref names
    Latest,         \* the ref every snapshot moves
    Blank,          \* a tag that is not given
    SeqTag,         \* snap-%06d: the tag of an untagged snapshot, by sequence
    Requests,       \* options of the snapshot commands that are explored
    Policies,       \* policies of the compact commands that are explored
    Forks,          \* names that Fork creates
    Mounted,        \* targets that get mounted
    ByDigest,       \* whether Fork and Mount are also given digests
    Contents,       \* file trees, as far as they are told apart
    NoTree,         \* the tree below a snapshot that has no parent
    Elsewhere,      \* Compact's temporary directory
    MaxSnapshots,   \* bound on the snapshots of a behaviour
    Faults          \* the failures a run explores

None == 0
Digests == 1..MaxSnapshots

(* SnapshotOptions *)
Request == [tag : Names \cup {Blank}, alsoTag : Names \cup {Blank}, sign : BOOLEAN]

(* CompactPolicy.  fromTarget says that SourceTarget is given, as Watch    *)
(* does; checkpointTag is the given tag or checkpoint-%06d.                *)
Policy == [squashEvery : Nat, keep : SUBSET Names, preserveSigned : BOOLEAN,
           pruneLocal : BOOLEAN, pruneSource : BOOLEAN, fromTarget : BOOLEAN,
           checkpointTag : Names, checkpointTags : SUBSET Names]

ASSUME StoreConstants ==
    /\ Latest \in Names /\ Blank \notin Names
    /\ MaxSnapshots \in Nat
    /\ SeqTag \in [1..(MaxSnapshots + 1) -> Names]
    /\ Requests \subseteq Request
    /\ Policies \subseteq Policy
    /\ Forks \subseteq Names /\ Mounted \subseteq Targets /\ ByDigest \in BOOLEAN
    /\ NoTree \notin Contents
    /\ Elsewhere \notin Targets
    /\ Faults \subseteq {"sign", "publish", "crash", "torn", "busy"}

VARIABLES
    images,     \* every snapshot composed so far, written out or not
    whole,      \* blobs whose file is complete
    torn,       \* blobs whose file exists and is not complete
    refs,       \* .osix/refs: the digest of each name, or None
    signed,     \* snapshots that have a signature ref
    mount,      \* SourceDigest of each target's mount record, or None
    disk,       \* what each target holds
    pc,         \* where each actor is in its command
    job         \* the locals of its command

vars == <<images, whole, torn, refs, signed, mount, disk, pc, job>>

(* The config of a snapshot: its parent link, its ID, its tree; "chain" is *)
(* what the parent links lead to, which never changes as blobs are         *)
(* immutable; "sign" and "source" say how it was asked for.                *)
Image == [parent : Digests \cup {None}, chain : SUBSET Digests, id : Names,
          tree : Contents, sign : BOOLEAN, source : Digests \cup {None}]

Layer(from, to) == <<"layer", from, to>>
Config(d) == <<"config", d>>
Manifest(d) == <<"manifest", d>>
Blob == {Layer(f, t) : f \in Contents \cup {NoTree}, t \in Contents}
        \cup {Config(d) : d \in Digests} \cup {Manifest(d) : d \in Digests}

Job == [target : Targets \cup {Elsewhere}, parent : Digests \cup {None},
        request : Request, source : Digests \cup {None},
        snap : Digests \cup {None}, todo : Seq(Blob), sign : BOOLEAN,
        tags : SUBSET Names, pruneLocal : BOOLEAN, doomed : SUBSET Digests,
        doomedRefs : SUBSET Names, sweep : SUBSET Blob]

TypeOK ==
    /\ images \in Seq(Image) /\ Len(images) <= MaxSnapshots
    /\ whole \subseteq Blob /\ torn \subseteq Blob /\ whole \cap torn = {}
    /\ refs \in [Names -> Digests \cup {None}]
    /\ signed \subseteq Digests
    /\ mount \in [Targets -> Digests \cup {None}]
    /\ disk \in [Targets -> Contents]
    /\ pc \in [Actors -> {"idle", "scan", "write", "create", "fill", "refs",
                          "prune", "unref", "sweep"}]
    /\ job \in [Actors -> Job]

IdleJob ==
    [target |-> Elsewhere, parent |-> None,
     request |-> [tag |-> Blank, alsoTag |-> Blank, sign |-> FALSE],
     source |-> None, snap |-> None, todo |-> <<>>,
     sign |-> FALSE, tags |-> {}, pruneLocal |-> FALSE, doomed |-> {},
     doomedRefs |-> {}, sweep |-> {}]

Init ==
    /\ images = <<>> /\ whole = {} /\ torn = {} /\ signed = {}
    /\ refs = [n \in Names |-> None]
    /\ mount = [t \in Targets |-> None]
    /\ disk \in [Targets -> Contents]
    /\ pc = [a \in Actors |-> "idle"]
    /\ job = [a \in Actors |-> IdleJob]

-----------------------------------------------------------------------------
TreeOf(d) == IF d = None THEN NoTree ELSE images[d].tree
LayerOf(d) == Layer(TreeOf(images[d].parent), images[d].tree)
BlobsOf(d) == {Manifest(d), Config(d), LayerOf(d)}

(* loadManifest: readBlob verifies the digest, so a torn file is an error. *)
Loads(d) == {Manifest(d), Config(d)} \subseteq whole

(* snapshotChainWithDigests succeeds; its result is images[d].chain. *)
ChainLoads(d) == \A c \in images[d].chain : Loads(c)

(* Restore succeeds. *)
Restorable(d) == \A c \in images[d].chain : BlobsOf(c) \subseteq whole

uniqueTags(tags) == tags \ {Blank}

Start(a, label, locals) ==
    /\ pc[a] = "idle"
    /\ pc' = [pc EXCEPT ![a] = label]
    /\ job' = [job EXCEPT ![a] = locals]

Goto(a, label) ==
    /\ pc' = [pc EXCEPT ![a] = label]
    /\ UNCHANGED job

Finish(a) ==
    /\ pc' = [pc EXCEPT ![a] = "idle"]
    /\ job' = [job EXCEPT ![a] = IdleJob]

-----------------------------------------------------------------------------
(* The bound: a command that composes a snapshot starts while there is room. *)
Room == Len(images) + Cardinality({a \in Actors : pc[a] = "scan"}) < MaxSnapshots

(* Snapshot: the parent is the source of the target's mount, else latest. *)
ParentOf(target) == IF mount[target] # None THEN mount[target] ELSE refs[Latest]

Snapshot(a, target, request) ==
    /\ Room
    /\ Start(a, "scan", [IdleJob EXCEPT !.target = target, !.request = request,
                                        !.parent = ParentOf(target),
                                        !.sign = request.sign])
    /\ UNCHANGED <<images, whole, torn, refs, signed, mount, disk>>

(* The parent's manifest or config cannot be read. *)
ParentMissing(a) ==
    /\ pc[a] = "scan"
    /\ job[a].parent # None
    /\ ~Loads(job[a].parent)
    /\ Finish(a)
    /\ UNCHANGED <<images, whole, torn, refs, signed, mount, disk>>

Scanned(j) ==
    IF j.target = Elsewhere THEN images[j.source].tree ELSE disk[j.target]

Ancestors(d) == IF d = None THEN {} ELSE images[d].chain

(* scanTree, diffLayerEntries, makeLayer: the snapshot's content is fixed. *)
Compose(a) ==
    LET j  == job[a]
        d  == Len(images) + 1
        id == IF j.request.tag # Blank THEN j.request.tag
              ELSE SeqTag[Cardinality(Ancestors(j.parent)) + 1]
    IN  /\ pc[a] = "scan"
        /\ j.parent = None \/ Loads(j.parent)
        /\ Len(images) < MaxSnapshots
        /\ images' = Append(images,
              [parent |-> j.parent, chain |-> Ancestors(j.parent) \cup {d},
               id |-> id, tree |-> Scanned(j), sign |-> j.sign,
               source |-> j.source])
        /\ pc' = [pc EXCEPT ![a] = "write"]
        /\ job' = [job EXCEPT ![a].snap = d,
                     ![a].todo = <<Layer(TreeOf(j.parent), Scanned(j)), Config(d),
                                   Manifest(d)>>,
                     ![a].tags = uniqueTags({id, j.request.tag, j.request.alsoTag,
                                             Latest}) \cup j.tags]
        /\ UNCHANGED <<whole, torn, refs, signed, mount, disk>>

-----------------------------------------------------------------------------
(* writeBlob.  os.Stat finds no file. *)
StatBlob(a) ==
    /\ pc[a] = "write" /\ job[a].todo # <<>>
    /\ Head(job[a].todo) \notin whole \cup torn
    /\ Goto(a, "create")
    /\ UNCHANGED <<images, whole, torn, refs, signed, mount, disk>>

(* Mutant of CreateBlob: an existing file is not truncated. *)
CreateBlobInPlace(a) ==
    /\ pc[a] = "create"
    /\ torn' = torn \cup {Head(job[a].todo)}
    /\ Goto(a, "fill")
    /\ UNCHANGED <<images, whole, refs, signed, mount, disk>>

(* os.WriteFile creates the file, or truncates the one that is there now. *)
CreateBlob(a) ==
    /\ pc[a] = "create"
    /\ torn' = torn \cup {Head(job[a].todo)}
    /\ whole' = whole \ {Head(job[a].todo)}
    /\ Goto(a, "fill")
    /\ UNCHANGED <<images, refs, signed, mount, disk>>

Filling(a, blob) == pc[a] = "fill" /\ Head(job[a].todo) = blob

(* os.WriteFile has written it all.  The file stays incomplete while       *)
(* another process writes it too, and is gone if it was removed meanwhile. *)
FillBlob(a) ==
    LET blob   == Head(job[a].todo)
        shared == \E b \in Actors \ {a} : Filling(b, blob)
    IN  /\ pc[a] = "fill"
        /\ IF blob \in torn /\ ~shared
           THEN torn' = torn \ {blob} /\ whole' = whole \cup {blob}
           ELSE UNCHANGED <<torn, whole>>
        /\ pc' = [pc EXCEPT ![a] = "write"]
        /\ job' = [job EXCEPT ![a].todo = Tail(@)]
        /\ UNCHANGED <<images, refs, signed, mount, disk>>

(* os.Stat finds a file of that name: it is taken for the blob. *)
SkipBlob(a) ==
    /\ pc[a] = "write" /\ job[a].todo # <<>>
    /\ Head(job[a].todo) \in whole \cup torn
    /\ job' = [job EXCEPT ![a].todo = Tail(@)]
    /\ UNCHANGED <<images, whole, torn, refs, signed, mount, disk, pc>>

(* signForPublication, when a signer was given. *)
SignSnapshot(a) ==
    /\ pc[a] = "write" /\ job[a].todo = <<>> /\ job[a].sign
    /\ Loads(job[a].snap)
    /\ signed' = signed \cup {job[a].snap}
    /\ job' = [job EXCEPT ![a].sign = FALSE]
    /\ UNCHANGED <<images, whole, torn, refs, mount, disk, pc>>

(* It fails, before or after it wrote the signature ref: Snapshot returns. *)
SignFails(a) ==
    /\ pc[a] = "write" /\ job[a].todo = <<>> /\ job[a].sign
    /\ "sign" \in Faults \/ ~Loads(job[a].snap)
    /\ signed' \in {signed} \cup
          (IF Loads(job[a].snap) THEN {signed \cup {job[a].snap}} ELSE {})
    /\ Finish(a)
    /\ UNCHANGED <<images, whole, torn, refs, mount, disk>>

(* Mutant of StartRefs: the refs move before the blobs are written. *)
StartRefsEarly(a) ==
    /\ pc[a] = "write" /\ ~job[a].sign
    /\ Goto(a, "refs")
    /\ UNCHANGED <<images, whole, torn, refs, signed, mount, disk>>

(* Mutant of StartRefs: the refs move whether or not the signature is made. *)
StartRefsUnsigned(a) ==
    /\ pc[a] = "write" /\ job[a].todo = <<>>
    /\ Goto(a, "refs")
    /\ UNCHANGED <<images, whole, torn, refs, signed, mount, disk>>

(* writeRefsIfExpected is entered. *)
StartRefs(a) ==
    /\ pc[a] = "write" /\ job[a].todo = <<>> /\ ~job[a].sign
    /\ Goto(a, "refs")
    /\ UNCHANGED <<images, whole, torn, refs, signed, mount, disk>>

(* It reports a conflict or an error before it moved any ref. *)
RefsRejected(a) ==
    /\ pc[a] = "write" /\ job[a].todo = <<>> /\ ~job[a].sign
    /\ "publish" \in Faults
    /\ Finish(a)
    /\ UNCHANGED <<images, whole, torn, refs, signed, mount, disk>>

WriteRef(a, tag) ==
    /\ pc[a] = "refs" /\ tag \in job[a].tags
    /\ refs' = [refs EXCEPT ![tag] = job[a].snap]
    /\ job' = [job EXCEPT ![a].tags = @ \ {tag}]
    /\ UNCHANGED <<images, whole, torn, signed, mount, disk, pc>>

RefsWritten(a) ==
    /\ pc[a] = "refs" /\ job[a].tags = {}
    /\ IF job[a].pruneLocal /\ job[a].doomed # {} THEN Goto(a, "prune")
       ELSE Finish(a)
    /\ UNCHANGED <<images, whole, torn, refs, signed, mount, disk>>

-----------------------------------------------------------------------------
(* resolveRef: a command names a snapshot by a ref or by its digest. *)
Resolvable ==
    ({refs[n] : n \in Names} \ {None}) \cup (IF ByDigest THEN DOMAIN images ELSE {})

(* Fork: ValidateChain, then writeRef. *)
Fork(a, source, name) ==
    /\ ChainLoads(source)
    /\ Start(a, "refs", [IdleJob EXCEPT !.snap = source, !.tags = {name}])
    /\ UNCHANGED <<images, whole, torn, refs, signed, mount, disk>>

(* materializedRuntime.Mount: Restore into the target, then writeMount. *)
Mount(a, source, target) ==
    /\ pc[a] = "idle"
    /\ Restorable(source)
    /\ mount' = [mount EXCEPT ![target] = source]
    /\ disk' = [disk EXCEPT ![target] = images[source].tree]
    /\ UNCHANGED <<images, whole, torn, refs, signed, pc, job>>

(* The agent works in its directory.  Unless "busy" is explored it is      *)
(* paused while a command runs.                                            *)
AgentWrites(target) ==
    /\ "busy" \in Faults \/ \A a \in Actors : pc[a] = "idle"
    /\ \E tree \in Contents : disk' = [disk EXCEPT ![target] = tree]
    /\ UNCHANGED <<images, whole, torn, refs, signed, mount, pc, job>>

-----------------------------------------------------------------------------
(* Compact *)
Kept(d, source, policy) ==
    \/ \E k \in policy.keep : refs[k] = d \/ images[d].id = k
    \/ policy.preserveSigned /\ d \in signed
    \/ d = source /\ ~policy.pruneSource

DeleteCandidates(source, policy) ==
    {d \in images[source].chain : ~Kept(d, source, policy)}

(* Mutant of SourceUnchanged: the target is not compared with the source. *)
SourceUnchecked(source, policy, target) ==
    policy.fromTarget \/ Restorable(source)

(* The checkpoint is taken from the target when it still holds the source  *)
(* tree, or from a restored copy.                                          *)
SourceUnchanged(source, policy, target) ==
    IF policy.fromTarget THEN disk[target] = images[source].tree
    ELSE Restorable(source)

Compact(a, source, target, policy) ==
    /\ Room
    /\ ChainLoads(source)
    /\ Cardinality(images[source].chain) >= policy.squashEvery
    /\ SourceUnchanged(source, policy, target)
    /\ Start(a, "scan",
             [IdleJob EXCEPT
                !.target = IF policy.fromTarget THEN target ELSE Elsewhere,
                !.request = [tag |-> policy.checkpointTag, alsoTag |-> Latest,
                             sign |-> FALSE],
                !.source = source,
                !.tags = uniqueTags({policy.checkpointTag} \cup policy.checkpointTags),
                !.pruneLocal = policy.pruneLocal,
                !.doomed = DeleteCandidates(source, policy)])
    /\ UNCHANGED <<images, whole, torn, refs, signed, mount, disk>>

(* pruneLocalSnapshots: the blobs and the refs of the candidates. *)
CandidateBlobs(doomed) ==
    UNION {IF Loads(d) THEN BlobsOf(d) ELSE {Manifest(d)} : d \in doomed}

ListCandidates(a) ==
    /\ pc[a] = "prune"
    /\ pc' = [pc EXCEPT ![a] = "unref"]
    /\ job' = [job EXCEPT ![a].sweep = CandidateBlobs(job[a].doomed),
                          ![a].doomedRefs = {n \in Names : refs[n] \in job[a].doomed}]
    /\ UNCHANGED <<images, whole, torn, refs, signed, mount, disk>>

(* os.Remove of the ref's file, whatever it holds by now. *)
RemoveRef(a, name) ==
    /\ pc[a] = "unref" /\ name \in job[a].doomedRefs
    /\ refs' = [refs EXCEPT ![name] = None]
    /\ job' = [job EXCEPT ![a].doomedRefs = @ \ {name}]
    /\ UNCHANGED <<images, whole, torn, signed, mount, disk, pc>>

(* Mutant of reachableBlobDigests: only the snapshots that refs name. *)
reachableHeadsOnly ==
    UNION {BlobsOf(d) : d \in {refs[n] : n \in Names} \ {None}}

(* Chains that do not load are passed over. *)
reachableBlobDigests ==
    LET heads == {refs[n] : n \in Names} \ {None}
    IN  {Manifest(d) : d \in heads} \cup
        UNION {UNION {BlobsOf(c) : c \in images[d].chain} :
                  d \in {h \in heads : ChainLoads(h)}}

Mark(a) ==
    /\ pc[a] = "unref" /\ job[a].doomedRefs = {}
    /\ pc' = [pc EXCEPT ![a] = "sweep"]
    /\ job' = [job EXCEPT ![a].sweep = @ \ reachableBlobDigests]
    /\ UNCHANGED <<images, whole, torn, refs, signed, mount, disk>>

RemoveBlob(a, blob) ==
    /\ pc[a] = "sweep" /\ blob \in job[a].sweep
    /\ whole' = whole \ {blob}
    /\ torn' = torn \ {blob}
    /\ job' = [job EXCEPT ![a].sweep = @ \ {blob}]
    /\ UNCHANGED <<images, refs, signed, mount, disk, pc>>

Pruned(a) ==
    /\ pc[a] = "sweep" /\ job[a].sweep = {}
    /\ Finish(a)
    /\ UNCHANGED <<images, whole, torn, refs, signed, mount, disk>>

(* The process dies.  While it writes a blob it dies only if "torn" is     *)
(* explored.                                                               *)
Crash(a) ==
    /\ "crash" \in Faults /\ pc[a] # "idle"
    /\ pc[a] = "fill" => "torn" \in Faults
    /\ Finish(a)
    /\ UNCHANGED <<images, whole, torn, refs, signed, mount, disk>>

-----------------------------------------------------------------------------
Command(a) ==
    \/ \E t \in Targets, r \in Requests : Snapshot(a, t, r)
    \/ \E source \in Resolvable, name \in Forks : Fork(a, source, name)
    \/ \E source \in Resolvable, t \in Mounted : Mount(a, source, t)
    \/ \E d \in DOMAIN images, t \in Targets, p \in Policies : Compact(a, d, t, p)

Step(a) ==
    \/ ParentMissing(a) \/ Compose(a)
    \/ StatBlob(a) \/ CreateBlob(a) \/ FillBlob(a) \/ SkipBlob(a)
    \/ SignSnapshot(a) \/ SignFails(a)
    \/ StartRefs(a) \/ RefsRejected(a) \/ (\E n \in Names : WriteRef(a, n)) \/ RefsWritten(a)
    \/ ListCandidates(a) \/ (\E n \in Names : RemoveRef(a, n))
    \/ Mark(a) \/ (\E b \in job[a].sweep : RemoveBlob(a, b)) \/ Pruned(a)
    \/ Crash(a)

Next ==
    \/ \E a \in Actors : Command(a) \/ Step(a)
    \/ \E t \in Targets : AgentWrites(t)

Spec == Init /\ [][Next]_vars

-----------------------------------------------------------------------------
(* Every ref leads to a snapshot that restores: its manifest, its config,  *)
(* its layer and those of all its ancestors are in the store.  Snapshot    *)
(* must write them before it moves a ref, and pruneLocalSnapshots must not *)
(* delete one that some other chain shares, wherever a command is cut off. *)
(* (Five snapshots can break it where a mounted one is pruned around: see  *)
(* the bounds in the README.)                                              *)
RefsComplete == \A n \in Names : refs[n] # None => Restorable(refs[n])

(* With several processes writing, a blob that a ref leads to may still be *)
(* on its way, as writeBlob takes any existing file for the blob, but then *)
(* a live process is writing it.                                           *)
RefsBacked ==
    \A n \in Names : refs[n] # None =>
        \A c \in images[refs[n]].chain : \A b \in BlobsOf(c) :
            b \in whole \/ \E a \in Actors : Filling(a, b)

(* A ref never shows a snapshot that was to be signed and has no           *)
(* signature: Snapshot signs before it publishes.                          *)
SignedWhenPublished ==
    \A n \in Names :
        refs[n] # None /\ images[refs[n]].sign => refs[n] \in signed

(* A checkpoint restores to the tree of the snapshot it was compacted      *)
(* from ("Restoring before and after compaction produces the same          *)
(* filesystem state").                                                     *)
CheckpointsPreserveState ==
    \A d \in DOMAIN images :
        images[d].source # None => images[d].tree = images[images[d].source].tree

(* Signed snapshots stay restorable ("Compaction MUST preserve manifests   *)
(* required by configured audit, signature, retention, or legal hold       *)
(* policy").                                                               *)
SignedRestorable == \A d \in signed : Restorable(d)
=============================================================================
