-------------------------- MODULE ImageStoreProofs --------------------------
(***************************************************************************)
(* Proofs about ImageStore for every set of processes, targets, tags and   *)
(* contents.  TypeInv holds of every behaviour; BackedInv holds as long as *)
(* nothing prunes and no process dies in the middle of a blob.             *)
(***************************************************************************)
EXTENDS ImageStore, FiniteSetTheorems, TLAPS

Known == DOMAIN images
KnownOrNone == Known \cup {None}

(* Every digest the state mentions is the digest of a composed snapshot. *)
ImagesLinked ==
    \A d \in Known : /\ images[d].parent \in KnownOrNone
                     /\ images[d].source \in KnownOrNone
                     /\ images[d].chain \subseteq Known
                     /\ d \in images[d].chain

RefsLinked ==
    /\ \A n \in Names : refs[n] \in KnownOrNone
    /\ \A t \in Targets : mount[t] \in KnownOrNone

JobLinked(a) ==
    /\ job[a].parent \in KnownOrNone
    /\ job[a].source \in KnownOrNone
    /\ job[a].snap \in KnownOrNone
    /\ job[a].doomed \subseteq Known
    /\ pc[a] = "scan" /\ job[a].target = Elsewhere => job[a].source # None
    /\ pc[a] \in {"write", "create", "fill", "refs"} => job[a].snap # None
    /\ pc[a] \in {"create", "fill"} => job[a].todo # <<>>

TypeInv ==
    /\ TypeOK
    /\ ImagesLinked
    /\ RefsLinked
    /\ \A a \in Actors : JobLinked(a)

-----------------------------------------------------------------------------
(* What is known of the constants. *)
LEMMA NumberFacts ==
    /\ None = 0 /\ MaxSnapshots \in Nat
    /\ Digests = 1..MaxSnapshots
    /\ None \notin Digests
BY StoreConstants DEF StoreConstants, None, Digests

(* Blob names are typed. *)
LEMMA BlobTypes ==
    /\ \A f \in Contents \cup {NoTree}, t \in Contents : Layer(f, t) \in Blob
    /\ \A d \in Digests : Config(d) \in Blob /\ Manifest(d) \in Blob
BY DEF Blob

(* The snapshots composed so far. *)
LEMMA KnownFacts ==
    ASSUME TypeOK
    PROVE  /\ Len(images) \in Nat /\ Len(images) <= MaxSnapshots
           /\ Known = 1..Len(images)
           /\ Known \subseteq Digests
           /\ \A d \in Known : images[d] \in Image
           /\ None \notin Known
BY NumberFacts DEF TypeOK, Known

(* A chain has a cardinality between 0 and MaxSnapshots. *)
LEMMA ChainLength ==
    ASSUME NEW S \in SUBSET Digests
    PROVE  Cardinality(S) \in 0..MaxSnapshots
<1>1. IsFiniteSet(Digests) /\ Cardinality(Digests) = MaxSnapshots
  BY NumberFacts, FS_Interval
<1>2. IsFiniteSet(S) /\ Cardinality(S) <= Cardinality(Digests)
  BY <1>1, FS_Subset
<1>3. Cardinality(S) \in Nat
  BY <1>2, FS_CardinalityType
<1> QED
  BY <1>1, <1>2, <1>3, NumberFacts

(* The blobs of a known snapshot are typed. *)
LEMMA BlobsTyped ==
    ASSUME TypeInv, NEW d \in Known
    PROVE  BlobsOf(d) \subseteq Blob
<1>1. images[d].tree \in Contents
  BY KnownFacts DEF TypeInv, Image
<1>2. TreeOf(images[d].parent) \in Contents \cup {NoTree}
  BY KnownFacts DEF TypeInv, ImagesLinked, KnownOrNone, TreeOf, Image
<1> QED
  BY <1>1, <1>2, BlobTypes, KnownFacts DEF TypeInv, BlobsOf, LayerOf

(* A fresh job is well formed. *)
LEMMA IdleJobTyped == IdleJob \in Job
<1>1. <<>> \in Seq(Blob)
  OBVIOUS
<1> QED
  BY <1>1 DEF IdleJob, Job, Request

LEMMA TypeInit == Init => TypeInv
<1> SUFFICES ASSUME Init PROVE TypeInv
  OBVIOUS
<1> USE NumberFacts DEF Init
<1>1. images \in Seq(Image) /\ Len(images) = 0
  OBVIOUS
<1>2. TypeOK
  BY <1>1, IdleJobTyped DEF TypeOK
<1>3. Known = {}
  BY <1>1 DEF Known
<1>4. \A a \in Actors : JobLinked(a)
  BY DEF JobLinked, KnownOrNone, IdleJob
<1> QED
  BY <1>2, <1>3, <1>4 DEF TypeInv, ImagesLinked, RefsLinked, KnownOrNone

(* A step of actor a that keeps the snapshots keeps the type invariant if  *)
(* what it changes is well formed.                                         *)
LEMMA SameImages ==
    ASSUME TypeInv, NEW a \in Actors, UNCHANGED images,
           whole' \subseteq Blob, torn' \subseteq Blob, whole' \cap torn' = {},
           refs' \in [Names -> KnownOrNone], signed' \subseteq Digests,
           mount' \in [Targets -> KnownOrNone], disk' \in [Targets -> Contents],
           NEW label \in {"idle", "scan", "write", "create", "fill", "refs",
                         "prune", "unref", "sweep"},
           pc' = [pc EXCEPT ![a] = label],
           NEW locals \in Job,
           job' = [job EXCEPT ![a] = locals],
           JobLinked(a)'
    PROVE  TypeInv'
<1>1. Known' = Known
  BY DEF Known
<1>2. KnownOrNone' = KnownOrNone /\ KnownOrNone \subseteq Digests \cup {None}
  BY <1>1, KnownFacts DEF TypeInv, KnownOrNone
<1>3. TypeOK'
  BY <1>2 DEF TypeInv, TypeOK
<1>4. ImagesLinked' /\ RefsLinked'
  BY <1>1, <1>2 DEF TypeInv, ImagesLinked, RefsLinked
<1>5. ASSUME NEW b \in Actors PROVE JobLinked(b)'
  <2>1. CASE b = a
    BY <2>1
  <2>2. CASE b # a
    <3>1. job'[b] = job[b] /\ pc'[b] = pc[b]
      BY <2>2 DEF TypeInv, TypeOK
    <3> QED
      BY <3>1, <1>2, <1>1 DEF TypeInv, JobLinked
  <2> QED
    BY <2>1, <2>2
<1> QED
  BY <1>3, <1>4, <1>5 DEF TypeInv

(* An actor whose command ends. *)
LEMMA FinishStep ==
    ASSUME TypeInv, NEW a \in Actors, Finish(a),
           UNCHANGED <<images, whole, torn, refs, mount, disk>>,
           signed' \subseteq Digests
    PROVE  TypeInv'
<1>1. job'[a] = IdleJob /\ pc'[a] = "idle"
  BY DEF TypeInv, TypeOK, Finish
<1>2. JobLinked(a)'
  BY <1>1 DEF JobLinked, IdleJob, KnownOrNone
<1>3. refs \in [Names -> KnownOrNone] /\ mount \in [Targets -> KnownOrNone]
  BY DEF TypeInv, TypeOK, RefsLinked
<1> QED
  BY <1>2, <1>3, SameImages, IdleJobTyped DEF TypeInv, TypeOK, Finish

-----------------------------------------------------------------------------
(* Facts that every step lemma starts from. *)
LEMMA Typed ==
    ASSUME TypeInv, NEW a \in Actors
    PROVE  /\ refs \in [Names -> KnownOrNone]
           /\ mount \in [Targets -> KnownOrNone]
           /\ job[a] \in Job
           /\ pc[a] \in {"idle", "scan", "write", "create", "fill", "refs",
                          "prune", "unref", "sweep"}
           /\ KnownOrNone \subseteq Digests \cup {None}
BY KnownFacts DEF TypeInv, TypeOK, RefsLinked, KnownOrNone

LEMMA SnapshotTyped ==
    ASSUME TypeInv, NEW a \in Actors, NEW t \in Targets, NEW r \in Requests,
           Snapshot(a, t, r)
    PROVE  TypeInv'
<1> DEFINE locals == [IdleJob EXCEPT !.target = t, !.request = r,
                                     !.parent = ParentOf(t), !.sign = r.sign]
<1>1. ParentOf(t) \in KnownOrNone
  BY Typed, StoreConstants DEF ParentOf, StoreConstants
<1>2. locals \in Job
  BY <1>1, Typed, StoreConstants, IdleJobTyped
     DEF StoreConstants, Job, Request, IdleJob
<1>3. /\ job' = [job EXCEPT ![a] = locals]
      /\ pc' = [pc EXCEPT ![a] = "scan"]
      /\ UNCHANGED <<images, whole, torn, refs, signed, mount, disk>>
  BY DEF Snapshot, Start
<1>4. job'[a] = locals /\ pc'[a] = "scan"
  BY <1>3 DEF TypeInv, TypeOK
<1>5. /\ locals.parent \in KnownOrNone /\ locals.source = None /\ locals.snap = None
      /\ locals.doomed = {} /\ locals.target # Elsewhere
  BY <1>1, StoreConstants DEF IdleJob, StoreConstants
<1>6. JobLinked(a)'
  <2> HIDE DEF locals
  <2> QED
    BY <1>3, <1>4, <1>5 DEF JobLinked, KnownOrNone, Known
<1> QED
  BY <1>2, <1>3, <1>6, Typed, SameImages DEF TypeInv, TypeOK

LEMMA ForkTyped ==
    ASSUME TypeInv, NEW a \in Actors, NEW d \in Known, NEW n \in Names,
           Fork(a, d, n)
    PROVE  TypeInv'
<1> DEFINE locals == [IdleJob EXCEPT !.snap = d, !.tags = {n}]
<1>1. locals \in Job
  BY Typed, IdleJobTyped DEF Job, IdleJob, KnownOrNone
<1>2. /\ job' = [job EXCEPT ![a] = locals]
      /\ pc' = [pc EXCEPT ![a] = "refs"]
      /\ UNCHANGED <<images, whole, torn, refs, signed, mount, disk>>
  BY DEF Fork, Start
<1>3. job'[a] = locals /\ pc'[a] = "refs"
  BY <1>2 DEF TypeInv, TypeOK
<1>4. /\ locals.parent = None /\ locals.source = None /\ locals.snap = d
      /\ locals.doomed = {}
  BY DEF IdleJob
<1>5. JobLinked(a)'
  <2> HIDE DEF locals
  <2> QED
    BY <1>2, <1>3, <1>4, KnownFacts DEF TypeInv, JobLinked, KnownOrNone, Known
<1> QED
  BY <1>1, <1>2, <1>5, Typed, SameImages DEF TypeInv, TypeOK

LEMMA MountTyped ==
    ASSUME TypeInv, NEW a \in Actors, NEW d \in Known, NEW t \in Targets,
           Mount(a, d, t)
    PROVE  TypeInv'
<1>1. mount' \in [Targets -> KnownOrNone]
  BY Typed DEF Mount, KnownOrNone
<1>2. disk' \in [Targets -> Contents]
  BY KnownFacts DEF Mount, TypeInv, TypeOK, Image
<1>3. pc' = [pc EXCEPT ![a] = pc[a]] /\ job' = [job EXCEPT ![a] = job[a]]
  BY DEF Mount, TypeInv, TypeOK
<1>4. JobLinked(a)'
  BY DEF Mount, TypeInv, JobLinked, Known, KnownOrNone
<1> QED
  BY <1>1, <1>2, <1>3, <1>4, Typed, SameImages DEF Mount, TypeInv, TypeOK

LEMMA CompactTyped ==
    ASSUME TypeInv, NEW a \in Actors, NEW d \in Known, NEW t \in Targets,
           NEW p \in Policies, Compact(a, d, t, p)
    PROVE  TypeInv'
<1> DEFINE locals ==
      [IdleJob EXCEPT
         !.target = IF p.fromTarget THEN t ELSE Elsewhere,
         !.request = [tag |-> p.checkpointTag, alsoTag |-> Latest, sign |-> FALSE],
         !.source = d,
         !.tags = uniqueTags({p.checkpointTag} \cup p.checkpointTags),
         !.pruneLocal = p.pruneLocal,
         !.doomed = DeleteCandidates(d, p)]
<1>1. p \in Policy
  BY StoreConstants DEF StoreConstants
<1>2. DeleteCandidates(d, p) \subseteq Known
  BY DEF DeleteCandidates, TypeInv, ImagesLinked
<1>3. uniqueTags({p.checkpointTag} \cup p.checkpointTags) \subseteq Names
  BY <1>1 DEF uniqueTags, Policy
<1>4. locals \in Job
  <2>1. [tag |-> p.checkpointTag, alsoTag |-> Latest, sign |-> FALSE] \in Request
    BY <1>1, StoreConstants DEF StoreConstants, Request, Policy
  <2>2. (IF p.fromTarget THEN t ELSE Elsewhere) \in Targets \cup {Elsewhere}
    OBVIOUS
  <2>3. /\ d \in Digests \cup {None} /\ p.pruneLocal \in BOOLEAN
        /\ DeleteCandidates(d, p) \subseteq Digests
    BY <1>1, <1>2, KnownFacts DEF TypeInv, Policy
  <2> QED
    BY <1>3, <2>1, <2>2, <2>3, IdleJobTyped DEF Job
<1>5. /\ job' = [job EXCEPT ![a] = locals]
      /\ pc' = [pc EXCEPT ![a] = "scan"]
      /\ UNCHANGED <<images, whole, torn, refs, signed, mount, disk>>
  BY DEF Compact, Start
<1>6. job'[a] = locals /\ pc'[a] = "scan"
  BY <1>5 DEF TypeInv, TypeOK
<1>7. /\ locals.parent = None /\ locals.source = d /\ locals.snap = None
      /\ locals.doomed = DeleteCandidates(d, p)
  BY DEF IdleJob
<1>8. JobLinked(a)'
  <2> HIDE DEF locals
  <2> QED
    BY <1>2, <1>5, <1>6, <1>7, KnownFacts DEF TypeInv, JobLinked, KnownOrNone, Known
<1> QED
  BY <1>4, <1>5, <1>8, Typed, SameImages DEF TypeInv, TypeOK

(* A step that leaves all variables but pc[a] and job[a]. *)
LEMMA LocalStep ==
    ASSUME TypeInv, NEW a \in Actors,
           UNCHANGED <<images, whole, torn, refs, signed, mount, disk>>,
           NEW label \in {"idle", "scan", "write", "create", "fill", "refs",
                         "prune", "unref", "sweep"},
           pc' = [pc EXCEPT ![a] = label],
           NEW locals \in Job,
           job' = [job EXCEPT ![a] = locals],
           JobLinked(a)'
    PROVE  TypeInv'
BY Typed, SameImages DEF TypeInv, TypeOK

LEMMA GotoTyped ==
    ASSUME TypeInv, NEW a \in Actors, Goto(a, "create") \/ Goto(a, "refs"),
           pc[a] = "write",
           UNCHANGED <<images, whole, torn, refs, signed, mount, disk>>,
           Goto(a, "create") => job[a].todo # <<>>
    PROVE  TypeInv'
<1>1. job' = [job EXCEPT ![a] = job[a]] /\ job'[a] = job[a]
  BY DEF Goto, TypeInv, TypeOK
<1>2. PICK label \in {"create", "refs"} :
        pc' = [pc EXCEPT ![a] = label] /\ Goto(a, label) /\ pc'[a] = label
  BY DEF Goto, TypeInv, TypeOK
<1>3. JobLinked(a)'
  BY <1>1, <1>2 DEF TypeInv, JobLinked, Known, KnownOrNone
<1> QED
  BY <1>1, <1>2, <1>3, Typed, LocalStep

LEMMA CreateTyped ==
    ASSUME TypeInv, NEW a \in Actors, CreateBlob(a)
    PROVE  TypeInv'
<1>1. Head(job[a].todo) \in Blob
  BY Typed DEF CreateBlob, TypeInv, JobLinked, Job
<1>2. job' = [job EXCEPT ![a] = job[a]] /\ pc' = [pc EXCEPT ![a] = "fill"]
      /\ pc'[a] = "fill" /\ job'[a] = job[a]
  BY DEF CreateBlob, Goto, TypeInv, TypeOK
<1>3. JobLinked(a)'
  BY <1>2 DEF CreateBlob, TypeInv, JobLinked, Known, KnownOrNone
<1>4. whole' \subseteq Blob /\ torn' \subseteq Blob /\ whole' \cap torn' = {}
  BY <1>1 DEF CreateBlob, TypeInv, TypeOK
<1> QED
  BY <1>2, <1>3, <1>4, Typed, SameImages DEF CreateBlob, TypeInv, TypeOK

LEMMA TodoShrinks ==
    ASSUME TypeInv, NEW a \in Actors, job[a].todo # <<>>,
           NEW locals, locals = [job[a] EXCEPT !.todo = Tail(@)]
    PROVE  /\ locals \in Job
           /\ locals.parent = job[a].parent /\ locals.source = job[a].source
           /\ locals.snap = job[a].snap /\ locals.doomed = job[a].doomed
<1>1. Tail(job[a].todo) \in Seq(Blob)
  BY Typed DEF Job
<1> QED
  BY <1>1, Typed DEF Job

LEMMA FillTyped ==
    ASSUME TypeInv, NEW a \in Actors, FillBlob(a)
    PROVE  TypeInv'
<1> DEFINE locals == [job[a] EXCEPT !.todo = Tail(@)]
<1>1. job[a].todo # <<>> /\ job[a].snap # None /\ Head(job[a].todo) \in Blob
  BY Typed DEF FillBlob, TypeInv, JobLinked, Job
<1>2. /\ job' = [job EXCEPT ![a] = locals] /\ pc' = [pc EXCEPT ![a] = "write"]
      /\ pc'[a] = "write" /\ job'[a] = locals
      /\ UNCHANGED <<images, refs, signed, mount, disk>>
  BY DEF FillBlob, TypeInv, TypeOK
<1>3. /\ locals \in Job
      /\ locals.parent = job[a].parent /\ locals.source = job[a].source
      /\ locals.snap = job[a].snap /\ locals.doomed = job[a].doomed
  BY <1>1, TodoShrinks
<1>4. JobLinked(a)'
  <2> HIDE DEF locals
  <2> QED
    BY <1>1, <1>2, <1>3 DEF TypeInv, JobLinked, Known, KnownOrNone
<1>5. whole' \subseteq Blob /\ torn' \subseteq Blob /\ whole' \cap torn' = {}
  BY <1>1 DEF FillBlob, TypeInv, TypeOK
<1> QED
  BY <1>2, <1>3, <1>4, <1>5, Typed, SameImages DEF TypeInv, TypeOK

LEMMA SkipTyped ==
    ASSUME TypeInv, NEW a \in Actors, SkipBlob(a)
    PROVE  TypeInv'
<1> DEFINE locals == [job[a] EXCEPT !.todo = Tail(@)]
<1>1. job[a].todo # <<>> /\ job[a].snap # None
  BY DEF SkipBlob, TypeInv, JobLinked
<1>2. /\ job' = [job EXCEPT ![a] = locals] /\ pc' = [pc EXCEPT ![a] = "write"]
      /\ pc'[a] = "write" /\ job'[a] = locals
      /\ UNCHANGED <<images, whole, torn, refs, signed, mount, disk>>
  BY DEF SkipBlob, TypeInv, TypeOK
<1>3. /\ locals \in Job
      /\ locals.parent = job[a].parent /\ locals.source = job[a].source
      /\ locals.snap = job[a].snap /\ locals.doomed = job[a].doomed
  BY <1>1, TodoShrinks
<1>4. JobLinked(a)'
  <2> HIDE DEF locals
  <2> QED
    BY <1>1, <1>2, <1>3 DEF TypeInv, JobLinked, Known, KnownOrNone
<1> QED
  BY <1>2, <1>3, <1>4, LocalStep

(* A step that changes job[a] only in a field that TypeInv does not link,  *)
(* and that stays outside the phases in which a blob is written.           *)
LEMMA FieldStep ==
    ASSUME TypeInv, NEW a \in Actors,
           UNCHANGED images,
           whole' \subseteq whole, torn' \subseteq torn,
           refs' \in [Names -> KnownOrNone], signed' \subseteq Digests,
           UNCHANGED <<mount, disk>>,
           NEW label \in {"write", "refs", "prune", "unref", "sweep"},
           pc' = [pc EXCEPT ![a] = label],
           label \in {"write", "refs"} => label = pc[a],
           NEW locals \in Job,
           job' = [job EXCEPT ![a] = locals],
           locals.parent = job[a].parent, locals.source = job[a].source,
           locals.snap = job[a].snap, locals.doomed = job[a].doomed
    PROVE  TypeInv'
<1>1. pc'[a] = label /\ job'[a] = locals
  BY DEF TypeInv, TypeOK
<1>2. JobLinked(a)'
  BY <1>1 DEF TypeInv, JobLinked, Known, KnownOrNone
<1>3. whole' \subseteq Blob /\ torn' \subseteq Blob /\ whole' \cap torn' = {}
  BY DEF TypeInv, TypeOK
<1> QED
  BY <1>2, <1>3, Typed, SameImages DEF TypeInv, TypeOK

LEMMA SignTyped ==
    ASSUME TypeInv, NEW a \in Actors, SignSnapshot(a)
    PROVE  TypeInv'
<1> DEFINE locals == [job[a] EXCEPT !.sign = FALSE]
<1>1. job[a].snap \in Digests
  BY Typed DEF SignSnapshot, TypeInv, JobLinked
<1>2. /\ job' = [job EXCEPT ![a] = locals] /\ pc' = [pc EXCEPT ![a] = "write"]
      /\ pc[a] = "write" /\ signed' \subseteq Digests
      /\ UNCHANGED <<images, whole, torn, refs, mount, disk>>
  BY <1>1 DEF SignSnapshot, TypeInv, TypeOK
<1>3. /\ locals \in Job
      /\ locals.parent = job[a].parent /\ locals.source = job[a].source
      /\ locals.snap = job[a].snap /\ locals.doomed = job[a].doomed
  BY Typed DEF Job
<1> HIDE DEF locals
<1> QED
  BY <1>2, <1>3, Typed, FieldStep

LEMMA SignFailsTyped ==
    ASSUME TypeInv, NEW a \in Actors, SignFails(a)
    PROVE  TypeInv'
<1>1. job[a].snap \in Digests
  BY Typed DEF SignFails, TypeInv, JobLinked
<1>2. signed' \subseteq Digests
  BY <1>1 DEF SignFails, TypeInv, TypeOK
<1> QED
  BY <1>2, FinishStep DEF SignFails

LEMMA WriteRefTyped ==
    ASSUME TypeInv, NEW a \in Actors, NEW n \in Names, WriteRef(a, n)
    PROVE  TypeInv'
<1> DEFINE locals == [job[a] EXCEPT !.tags = @ \ {n}]
<1>1. refs' \in [Names -> KnownOrNone]
  BY Typed DEF WriteRef, TypeInv, JobLinked
<1>2. /\ job' = [job EXCEPT ![a] = locals] /\ pc' = [pc EXCEPT ![a] = "refs"]
      /\ pc[a] = "refs"
      /\ UNCHANGED <<images, whole, torn, signed, mount, disk>>
  BY DEF WriteRef, TypeInv, TypeOK
<1>3. /\ locals \in Job
      /\ locals.parent = job[a].parent /\ locals.source = job[a].source
      /\ locals.snap = job[a].snap /\ locals.doomed = job[a].doomed
  BY Typed DEF Job
<1> HIDE DEF locals
<1> QED
  BY <1>1, <1>2, <1>3, FieldStep DEF TypeInv, TypeOK

LEMMA RefsWrittenTyped ==
    ASSUME TypeInv, NEW a \in Actors, RefsWritten(a)
    PROVE  TypeInv'
<1>1. CASE Goto(a, "prune")
  <2>1. /\ job' = [job EXCEPT ![a] = job[a]] /\ pc' = [pc EXCEPT ![a] = "prune"]
        /\ UNCHANGED <<images, whole, torn, refs, signed, mount, disk>>
    BY <1>1 DEF RefsWritten, Goto, TypeInv, TypeOK
  <2> QED
    BY <2>1, Typed, FieldStep DEF TypeInv, TypeOK
<1>2. CASE Finish(a)
  BY <1>2, FinishStep DEF RefsWritten, TypeInv, TypeOK
<1> QED
  BY <1>1, <1>2 DEF RefsWritten

LEMMA ListTyped ==
    ASSUME TypeInv, NEW a \in Actors, ListCandidates(a)
    PROVE  TypeInv'
<1> DEFINE found == CandidateBlobs(job[a].doomed)
           names == {n \in Names : refs[n] \in job[a].doomed}
           locals == [job[a] EXCEPT !.sweep = found, !.doomedRefs = names]
<1>1. ASSUME NEW d \in job[a].doomed
      PROVE  BlobsOf(d) \subseteq Blob /\ Manifest(d) \in Blob
  <2>1. d \in Known
    BY DEF TypeInv, JobLinked
  <2> QED
    BY <2>1, BlobsTyped, BlobTypes, KnownFacts DEF TypeInv
<1>2. found \subseteq Blob
  BY <1>1 DEF CandidateBlobs
<1>3. names \subseteq Names
  OBVIOUS
<1>4. /\ job' = [job EXCEPT ![a] = locals] /\ pc' = [pc EXCEPT ![a] = "unref"]
      /\ UNCHANGED <<images, whole, torn, refs, signed, mount, disk>>
  BY DEF ListCandidates, TypeInv, TypeOK
<1> HIDE DEF found, names
<1>5. /\ locals \in Job
      /\ locals.parent = job[a].parent /\ locals.source = job[a].source
      /\ locals.snap = job[a].snap /\ locals.doomed = job[a].doomed
  BY <1>2, <1>3, Typed DEF Job
<1> HIDE DEF locals
<1> QED
  BY <1>4, <1>5, Typed, FieldStep DEF TypeInv, TypeOK

LEMMA RemoveRefTyped ==
    ASSUME TypeInv, NEW a \in Actors, NEW n \in Names, RemoveRef(a, n)
    PROVE  TypeInv'
<1> DEFINE locals == [job[a] EXCEPT !.doomedRefs = @ \ {n}]
<1>1. refs' \in [Names -> KnownOrNone]
  BY Typed DEF RemoveRef, KnownOrNone
<1>2. /\ job' = [job EXCEPT ![a] = locals] /\ pc' = [pc EXCEPT ![a] = "unref"]
      /\ UNCHANGED <<images, whole, torn, signed, mount, disk>>
  BY DEF RemoveRef, TypeInv, TypeOK
<1>3. /\ locals \in Job
      /\ locals.parent = job[a].parent /\ locals.source = job[a].source
      /\ locals.snap = job[a].snap /\ locals.doomed = job[a].doomed
  BY Typed DEF Job
<1> HIDE DEF locals
<1> QED
  BY <1>1, <1>2, <1>3, FieldStep DEF TypeInv, TypeOK

LEMMA MarkTyped ==
    ASSUME TypeInv, NEW a \in Actors, Mark(a)
    PROVE  TypeInv'
<1> DEFINE locals == [job[a] EXCEPT !.sweep = @ \ reachableBlobDigests]
<1>1. /\ job' = [job EXCEPT ![a] = locals] /\ pc' = [pc EXCEPT ![a] = "sweep"]
      /\ UNCHANGED <<images, whole, torn, refs, signed, mount, disk>>
  BY DEF Mark, TypeInv, TypeOK
<1>2. /\ locals \in Job
      /\ locals.parent = job[a].parent /\ locals.source = job[a].source
      /\ locals.snap = job[a].snap /\ locals.doomed = job[a].doomed
  BY Typed DEF Job
<1> HIDE DEF locals
<1> QED
  BY <1>1, <1>2, Typed, FieldStep DEF TypeInv, TypeOK

LEMMA RemoveBlobTyped ==
    ASSUME TypeInv, NEW a \in Actors, NEW b, RemoveBlob(a, b)
    PROVE  TypeInv'
<1> DEFINE locals == [job[a] EXCEPT !.sweep = @ \ {b}]
<1>1. /\ job' = [job EXCEPT ![a] = locals] /\ pc' = [pc EXCEPT ![a] = "sweep"]
      /\ whole' \subseteq whole /\ torn' \subseteq torn
      /\ UNCHANGED <<images, refs, signed, mount, disk>>
  BY DEF RemoveBlob, TypeInv, TypeOK
<1>2. /\ locals \in Job
      /\ locals.parent = job[a].parent /\ locals.source = job[a].source
      /\ locals.snap = job[a].snap /\ locals.doomed = job[a].doomed
  BY Typed DEF Job
<1> HIDE DEF locals
<1> QED
  BY <1>1, <1>2, Typed, FieldStep DEF TypeInv, TypeOK

LEMMA AgentTyped ==
    ASSUME TypeInv, NEW t \in Targets, AgentWrites(t)
    PROVE  TypeInv'
<1>1. TypeOK'
  BY DEF AgentWrites, TypeInv, TypeOK
<1> QED
  BY <1>1 DEF AgentWrites, TypeInv, ImagesLinked, RefsLinked, JobLinked, Known,
              KnownOrNone

(* What Compose adds: one image, under the next number. *)
LEMMA ComposeFacts ==
    ASSUME TypeInv, NEW a \in Actors, Compose(a)
    PROVE  LET d == Len(images) + 1
           IN  /\ d \in Digests /\ d \notin Known
               /\ images' \in Seq(Image) /\ Len(images') = d
               /\ Known' = Known \cup {d}
               /\ \A c \in Known : images'[c] = images[c]
               /\ images'[d].parent = job[a].parent
               /\ images'[d].chain = Ancestors(job[a].parent) \cup {d}
               /\ images'[d].tree = Scanned(job[a])
               /\ images'[d].sign = job[a].sign /\ images'[d].source = job[a].source
               /\ Ancestors(job[a].parent) \subseteq Known
               /\ Scanned(job[a]) \in Contents
               /\ TreeOf(job[a].parent) \in Contents \cup {NoTree}
<1> DEFINE j  == job[a]
           d  == Len(images) + 1
           id == IF j.request.tag # Blank THEN j.request.tag
                 ELSE SeqTag[Cardinality(Ancestors(j.parent)) + 1]
           new == [parent |-> j.parent, chain |-> Ancestors(j.parent) \cup {d},
                   id |-> id, tree |-> Scanned(j), sign |-> j.sign,
                   source |-> j.source]
<1>1. j \in Job /\ j.parent \in KnownOrNone /\ j.source \in KnownOrNone
      /\ (j.target = Elsewhere => j.source \in Known)
  BY Typed DEF Compose, TypeInv, JobLinked, KnownOrNone
<1>2. d \in Digests /\ d \notin Known
  BY KnownFacts, NumberFacts DEF Compose, TypeInv
<1>3. Ancestors(j.parent) \subseteq Known
  BY <1>1 DEF Ancestors, TypeInv, ImagesLinked, KnownOrNone
<1>4. Scanned(j) \in Contents
  BY <1>1, KnownFacts DEF Scanned, Job, Image, TypeInv, TypeOK
<1>5. TreeOf(j.parent) \in Contents \cup {NoTree}
  BY <1>1, KnownFacts DEF TreeOf, Image, TypeInv, KnownOrNone
<1>6. id \in Names
  <2>1. Cardinality(Ancestors(j.parent)) \in 0..MaxSnapshots
    BY <1>3, ChainLength, KnownFacts DEF TypeInv
  <2>2. Cardinality(Ancestors(j.parent)) + 1 \in 1..(MaxSnapshots + 1)
    BY <2>1, NumberFacts
  <2> QED
    BY <2>2, <1>1, StoreConstants DEF StoreConstants, Job, Request
<1>7. new \in Image
  BY <1>1, <1>2, <1>3, <1>4, <1>6, KnownFacts DEF Image, Job, TypeInv, KnownOrNone
<1>8. images' = Append(images, new)
  BY DEF Compose
<1> HIDE DEF id
<1>9. /\ new.parent = j.parent /\ new.chain = Ancestors(j.parent) \cup {d}
      /\ new.tree = Scanned(j) /\ new.sign = j.sign /\ new.source = j.source
  OBVIOUS
<1> HIDE DEF new, j
<1>10. /\ images' \in Seq(Image) /\ Len(images') = d
       /\ images'[d] = new
       /\ \A c \in 1..Len(images) : images'[c] = images[c]
  BY <1>7, <1>8 DEF TypeInv, TypeOK
<1>11. Known' = Known \cup {d}
  BY <1>10, KnownFacts DEF TypeInv, Known
<1> QED
  BY <1>2, <1>3, <1>4, <1>5, <1>9, <1>10, <1>11, KnownFacts DEF TypeInv, j

LEMMA ComposeTyped ==
    ASSUME TypeInv, NEW a \in Actors, Compose(a)
    PROVE  TypeInv'
<1> DEFINE d  == Len(images) + 1
           todo == <<Layer(TreeOf(job[a].parent), Scanned(job[a])), Config(d),
                     Manifest(d)>>
           locals == job'[a]
<1> HIDE DEF d
<1>1. /\ d \in Digests /\ d \notin Known
      /\ images' \in Seq(Image) /\ Len(images') = d
      /\ Known' = Known \cup {d}
      /\ \A c \in Known : images'[c] = images[c]
      /\ images'[d].parent = job[a].parent /\ images'[d].source = job[a].source
      /\ images'[d].chain = Ancestors(job[a].parent) \cup {d}
      /\ Ancestors(job[a].parent) \subseteq Known
      /\ Scanned(job[a]) \in Contents
      /\ TreeOf(job[a].parent) \in Contents \cup {NoTree}
  BY ComposeFacts DEF d
<1>2. todo \in Seq(Blob) /\ todo # <<>>
  <2>1. /\ Layer(TreeOf(job[a].parent), Scanned(job[a])) \in Blob
        /\ Config(d) \in Blob /\ Manifest(d) \in Blob
    BY <1>1, BlobTypes
  <2> QED
    BY <2>1
<1>3. PICK tags \in SUBSET Names :
        job' = [job EXCEPT ![a] = [job[a] EXCEPT !.snap = d, !.todo = todo, !.tags = tags]]
  <2> DEFINE id == IF job[a].request.tag # Blank THEN job[a].request.tag
                   ELSE SeqTag[Cardinality(Ancestors(job[a].parent)) + 1]
             tags == uniqueTags({id, job[a].request.tag, job[a].request.alsoTag,
                                 Latest}) \cup job[a].tags
  <2>1. id \in Names
    <3>1. Cardinality(Ancestors(job[a].parent)) \in 0..MaxSnapshots
      BY <1>1, ChainLength, KnownFacts DEF TypeInv
    <3>2. Cardinality(Ancestors(job[a].parent)) + 1 \in 1..(MaxSnapshots + 1)
      BY <3>1, NumberFacts
    <3> QED
      BY <3>2, Typed, StoreConstants DEF StoreConstants, Job, Request
  <2> HIDE DEF id
  <2>2. tags \in SUBSET Names
    BY <2>1, Typed, StoreConstants DEF StoreConstants, uniqueTags, Job, Request
  <2>3. job' = [job EXCEPT ![a] = [job[a] EXCEPT !.snap = d, !.todo = todo, !.tags = tags]]
    BY DEF Compose, d, id, TypeInv, TypeOK
  <2> QED
    BY <2>2, <2>3
<1>4. /\ locals = [job[a] EXCEPT !.snap = d, !.todo = todo, !.tags = tags]
      /\ pc' = [pc EXCEPT ![a] = "write"] /\ pc'[a] = "write"
      /\ UNCHANGED <<whole, torn, refs, signed, mount, disk>>
  BY <1>3 DEF Compose, TypeInv, TypeOK
<1> HIDE DEF todo
<1>5. /\ locals \in Job
      /\ locals.parent = job[a].parent /\ locals.source = job[a].source
      /\ locals.snap = d /\ locals.doomed = job[a].doomed
  BY <1>1, <1>2, <1>4, Typed DEF Job
<1>6. TypeOK'
  <2>1. Len(images') <= MaxSnapshots
    BY <1>1, NumberFacts
  <2>2. job' \in [Actors -> Job]
    BY <1>3, <1>4, <1>5 DEF TypeInv, TypeOK
  <2> QED
    BY <1>1, <1>4, <2>1, <2>2 DEF TypeInv, TypeOK
<1>7. ImagesLinked'
  <2>1. job[a].parent \in KnownOrNone /\ job[a].source \in KnownOrNone
    BY DEF TypeInv, JobLinked
  <2> QED
    BY <1>1, <2>1 DEF TypeInv, ImagesLinked, KnownOrNone
<1>8. RefsLinked'
  BY <1>1, <1>4 DEF TypeInv, RefsLinked, KnownOrNone
<1>9. ASSUME NEW b \in Actors PROVE JobLinked(b)'
  <2>1. CASE b = a
    BY <2>1, <1>1, <1>4, <1>5, NumberFacts DEF TypeInv, JobLinked, KnownOrNone
  <2>2. CASE b # a
    <3>1. job'[b] = job[b] /\ pc'[b] = pc[b]
      BY <2>2, <1>3, <1>4 DEF TypeInv, TypeOK
    <3> QED
      BY <3>1, <1>1 DEF TypeInv, JobLinked, KnownOrNone
  <2> QED
    BY <2>1, <2>2
<1> QED
  BY <1>6, <1>7, <1>8, <1>9 DEF TypeInv

-----------------------------------------------------------------------------
LEMMA StepTyped ==
    ASSUME TypeInv, NEW a \in Actors, Command(a) \/ Step(a)
    PROVE  TypeInv'
<1>1. Resolvable \subseteq Known /\ Forks \subseteq Names /\ Mounted \subseteq Targets
  BY Typed, StoreConstants DEF Resolvable, StoreConstants, Known, KnownOrNone
<1>2. CASE Command(a)
  BY <1>1, <1>2, SnapshotTyped, ForkTyped, MountTyped, CompactTyped
     DEF Command, Known
<1>3. CASE ParentMissing(a) \/ RefsRejected(a) \/ Pruned(a) \/ Crash(a)
  BY <1>3, FinishStep
     DEF ParentMissing, RefsRejected, Pruned, Crash, TypeInv, TypeOK
<1>4. CASE StatBlob(a)
  BY <1>4, GotoTyped DEF StatBlob
<1>5. CASE StartRefs(a)
  <2>1. ~Goto(a, "create")
    BY <1>5 DEF StartRefs, Goto, TypeInv, TypeOK
  <2> QED
    BY <1>5, <2>1, GotoTyped DEF StartRefs
<1>6. CASE Compose(a) \/ CreateBlob(a) \/ FillBlob(a) \/ SkipBlob(a)
  BY <1>6, ComposeTyped, CreateTyped, FillTyped, SkipTyped
<1>7. CASE SignSnapshot(a) \/ SignFails(a) \/ RefsWritten(a)
           \/ \E n \in Names : WriteRef(a, n)
  BY <1>7, SignTyped, SignFailsTyped, RefsWrittenTyped, WriteRefTyped
<1>8. CASE ListCandidates(a) \/ Mark(a) \/ (\E n \in Names : RemoveRef(a, n))
           \/ \E b \in job[a].sweep : RemoveBlob(a, b)
  BY <1>8, ListTyped, MarkTyped, RemoveRefTyped, RemoveBlobTyped
<1> QED
  BY <1>2, <1>3, <1>4, <1>5, <1>6, <1>7, <1>8 DEF Step

LEMMA TypeStep == TypeInv /\ [Next]_vars => TypeInv'
<1> SUFFICES ASSUME TypeInv, [Next]_vars PROVE TypeInv'
  OBVIOUS
<1>1. CASE UNCHANGED vars
  BY <1>1 DEF vars, TypeInv, TypeOK, ImagesLinked, RefsLinked, JobLinked, Known,
              KnownOrNone
<1>2. CASE Next
  BY <1>2, StepTyped, AgentTyped DEF Next
<1> QED
  BY <1>1, <1>2

(* Every variable keeps its type, and no blob file is complete and         *)
(* incomplete at once, whatever fails and however many processes run; the  *)
(* invariant under it says that every digest in the state is that of a     *)
(* composed snapshot.                                                      *)
THEOREM StoreTyped == Spec => []TypeOK
<1>1. TypeInv => TypeOK
  BY DEF TypeInv
<1> QED
  BY <1>1, TypeInit, TypeStep, PTL DEF Spec

-----------------------------------------------------------------------------
(***************************************************************************)
(* Writers only.  The invariant behind RefsBacked: a manifest is the last  *)
(* blob of its snapshot to get a file, so a manifest that has one stands   *)
(* for a chain whose blobs all have one, and a file that is not complete   *)
(* has a live writer.                                                      *)
(***************************************************************************)
WritersOnly ==
    /\ \A p \in Policies : ~p.pruneLocal
    /\ "torn" \notin Faults

Stored == whole \cup torn

ManifestsKnown == \A d \in Digests : Manifest(d) \in Stored => d \in Known

ManifestLast ==
    \A d \in Known : Manifest(d) \in Stored =>
        \A c \in images[d].chain : BlobsOf(c) \subseteq Stored

RefsStored == \A n \in Names : refs[n] # None => Manifest(refs[n]) \in Stored

TornFilled == \A b \in torn : \E a \in Actors : Filling(a, b)

(* The blobs of the snapshot being written that still have to be looked at. *)
TodoShape(d, todo) ==
    \/ todo = <<LayerOf(d), Config(d), Manifest(d)>>
    \/ todo = <<Config(d), Manifest(d)>> /\ LayerOf(d) \in Stored
    \/ todo = <<Manifest(d)>> /\ {LayerOf(d), Config(d)} \subseteq Stored
    \/ todo = <<>> /\ BlobsOf(d) \subseteq Stored

JobBacked(a) ==
    /\ ~job[a].pruneLocal
    /\ pc[a] \notin {"prune", "unref", "sweep"}
    /\ pc[a] \in {"write", "create", "fill"} =>
          /\ TodoShape(job[a].snap, job[a].todo)
          /\ \A c \in images[job[a].snap].chain \ {job[a].snap} :
                BlobsOf(c) \subseteq Stored
    /\ pc[a] = "fill" => Head(job[a].todo) \in Stored
    /\ pc[a] = "refs" => Manifest(job[a].snap) \in Stored

BackedInv ==
    /\ ManifestsKnown
    /\ ManifestLast
    /\ RefsStored
    /\ TornFilled
    /\ \A a \in Actors : JobBacked(a)

(* Blobs of different kinds, and of different snapshots, differ. *)
LEMMA BlobsDiffer ==
    /\ \A d, e : Manifest(d) = Manifest(e) => d = e
    /\ \A d, e : Config(d) # Manifest(e)
    /\ \A d, f, t : Layer(f, t) # Manifest(d)
BY DEF Manifest, Config, Layer

(* The blobs of a snapshot never change. *)
LEMMA BlobsStable ==
    ASSUME TypeInv, \A c \in Known : images'[c] = images[c], NEW d \in Known
    PROVE  /\ LayerOf(d)' = LayerOf(d)
           /\ BlobsOf(d)' = BlobsOf(d)
<1>1. images[d].parent \in KnownOrNone
  BY DEF TypeInv, ImagesLinked
<1>2. TreeOf(images[d].parent)' = TreeOf(images[d].parent)
  BY <1>1 DEF TreeOf, KnownOrNone
<1> QED
  BY <1>2 DEF LayerOf, BlobsOf

(* An actor that does not step stays backed while files are only added. *)
LEMMA Bystander ==
    ASSUME TypeInv, \A c \in Known : images'[c] = images[c],
           Stored \subseteq Stored', NEW b \in Actors, JobBacked(b),
           job'[b] = job[b], pc'[b] = pc[b]
    PROVE  JobBacked(b)'
<1>1. CASE pc[b] \in {"write", "create", "fill"}
  <2>1. job[b].snap \in Known /\ images[job[b].snap].chain \subseteq Known
    BY <1>1 DEF TypeInv, JobLinked, ImagesLinked, KnownOrNone
  <2>2. /\ LayerOf(job[b].snap)' = LayerOf(job[b].snap)
        /\ BlobsOf(job[b].snap)' = BlobsOf(job[b].snap)
        /\ \A c \in images[job[b].snap].chain : BlobsOf(c)' = BlobsOf(c)
    BY <2>1, BlobsStable
  <2>3. TodoShape(job[b].snap, job[b].todo)'
    BY <1>1, <2>2 DEF JobBacked, TodoShape
  <2> QED
    BY <1>1, <2>1, <2>2, <2>3 DEF JobBacked
<1>2. CASE pc[b] \notin {"write", "create", "fill"}
  BY <1>2 DEF JobBacked
<1> QED
  BY <1>1, <1>2

(* A step of actor a that adds files, and no manifest's. *)
LEMMA BackedStep ==
    ASSUME TypeInv, TypeInv', BackedInv, NEW a \in Actors, UNCHANGED images,
           Stored \subseteq Stored',
           \A d \in Known : Manifest(d) \in Stored' \ Stored =>
               \A c \in images[d].chain : BlobsOf(c) \subseteq Stored',
           \A d \in Digests : Manifest(d) \in Stored' => d \in Known,
           RefsStored', TornFilled', JobBacked(a)',
           \A b \in Actors \ {a} : job'[b] = job[b] /\ pc'[b] = pc[b]
    PROVE  BackedInv'
<1>1. Known' = Known
  BY DEF Known
<1>2. \A c \in Known : images'[c] = images[c] /\ BlobsOf(c)' = BlobsOf(c)
  BY BlobsStable
<1>3. ManifestsKnown'
  BY <1>1 DEF ManifestsKnown
<1>4. ManifestLast'
  <2> SUFFICES ASSUME NEW d \in Known, Manifest(d) \in Stored',
                      NEW c \in images[d].chain
               PROVE  BlobsOf(c) \subseteq Stored'
    BY <1>1, <1>2 DEF ManifestLast, TypeInv, ImagesLinked
  <2> QED
    BY DEF BackedInv, ManifestLast
<1>5. ASSUME NEW b \in Actors PROVE JobBacked(b)'
  <2>1. CASE b = a
    BY <2>1
  <2>2. CASE b # a
    BY <2>2, Bystander DEF BackedInv
  <2> QED
    BY <2>1, <2>2
<1> QED
  BY <1>3, <1>4, <1>5 DEF BackedInv

(* A step that writes no blob. *)
LEMMA BackedSameFiles ==
    ASSUME TypeInv, TypeInv', BackedInv, NEW a \in Actors,
           UNCHANGED <<images, whole, torn>>, RefsStored', JobBacked(a)',
           pc[a] # "fill",
           \A b \in Actors \ {a} : job'[b] = job[b] /\ pc'[b] = pc[b]
    PROVE  BackedInv'
<1>1. Stored' = Stored
  BY DEF Stored
<1>2. TornFilled'
  <2> SUFFICES ASSUME NEW b \in torn PROVE \E c \in Actors : Filling(c, b)'
    BY DEF TornFilled
  <2>1. PICK c \in Actors : Filling(c, b)
    BY DEF BackedInv, TornFilled
  <2>2. c # a
    BY <2>1 DEF Filling
  <2> QED
    BY <2>1, <2>2 DEF Filling
<1>3. \A d \in Digests : Manifest(d) \in Stored' => d \in Known
  BY <1>1 DEF BackedInv, ManifestsKnown
<1> QED
  BY <1>1, <1>2, <1>3, BackedStep

LEMMA FinishBacked ==
    ASSUME TypeInv, TypeInv', BackedInv, NEW a \in Actors, Finish(a),
           pc[a] # "fill", UNCHANGED <<images, whole, torn, refs>>
    PROVE  BackedInv'
<1>1. job'[a] = IdleJob /\ pc'[a] = "idle"
      /\ \A b \in Actors \ {a} : job'[b] = job[b] /\ pc'[b] = pc[b]
  BY DEF Finish, TypeInv, TypeOK
<1>2. JobBacked(a)'
  BY <1>1 DEF JobBacked, IdleJob
<1>3. RefsStored'
  BY DEF BackedInv, RefsStored, Stored
<1> QED
  BY <1>1, <1>2, <1>3, BackedSameFiles

LEMMA CommandBacked ==
    ASSUME WritersOnly, TypeInv, TypeInv', BackedInv, NEW a \in Actors, Command(a)
    PROVE  BackedInv'
<1>1. UNCHANGED <<images, whole, torn, refs>> /\ pc[a] = "idle"
      /\ \A b \in Actors \ {a} : job'[b] = job[b] /\ pc'[b] = pc[b]
  BY DEF Command, Snapshot, Fork, Mount, Compact, Start, TypeInv, TypeOK
<1>2. RefsStored'
  BY <1>1 DEF BackedInv, RefsStored, Stored
<1>3. JobBacked(a)'
  <2>1. ASSUME NEW t \in Targets, NEW r \in Requests, Snapshot(a, t, r)
        PROVE  JobBacked(a)'
    <3>1. pc'[a] = "scan" /\ ~job'[a].pruneLocal
      BY <2>1 DEF Snapshot, Start, IdleJob, TypeInv, TypeOK
    <3> QED
      BY <3>1 DEF JobBacked
  <2>2. ASSUME NEW d \in Resolvable, NEW n \in Forks, Fork(a, d, n)
        PROVE  JobBacked(a)'
    <3>1. pc'[a] = "refs" /\ ~job'[a].pruneLocal /\ job'[a].snap = d
      BY <2>2 DEF Fork, Start, IdleJob, TypeInv, TypeOK
    <3>2. d \in images[d].chain => Manifest(d) \in Stored
      BY <2>2 DEF Fork, ChainLoads, Loads, Stored
    <3>3. d \in Known
      BY Typed DEF Resolvable, Known, KnownOrNone
    <3>4. Manifest(d) \in Stored
      BY <3>2, <3>3 DEF TypeInv, ImagesLinked
    <3> QED
      BY <3>1, <3>4, <1>1 DEF JobBacked, Stored
  <2>3. ASSUME NEW d, NEW t, Mount(a, d, t)
        PROVE  JobBacked(a)'
    BY <2>3, <1>1 DEF Mount, BackedInv, JobBacked, Stored
  <2>4. ASSUME NEW d \in DOMAIN images, NEW t \in Targets, NEW p \in Policies,
               Compact(a, d, t, p)
        PROVE  JobBacked(a)'
    <3>1. pc'[a] = "scan" /\ job'[a].pruneLocal = p.pruneLocal
      BY <2>4 DEF Compact, Start, IdleJob, TypeInv, TypeOK
    <3> QED
      BY <3>1 DEF JobBacked, WritersOnly
  <2> QED
    BY <2>1, <2>2, <2>3, <2>4 DEF Command
<1> QED
  BY <1>1, <1>2, <1>3, BackedSameFiles

LEMMA ComposeBacked ==
    ASSUME TypeInv, TypeInv', BackedInv, NEW a \in Actors, Compose(a)
    PROVE  BackedInv'
<1>1. PICK d \in Digests :
      /\ d = Len(images) + 1 /\ d \notin Known
      /\ Known' = Known \cup {d}
      /\ \A c \in Known : images'[c] = images[c]
      /\ images'[d].parent = job[a].parent
      /\ images'[d].chain = Ancestors(job[a].parent) \cup {d}
      /\ images'[d].tree = Scanned(job[a])
      /\ Ancestors(job[a].parent) \subseteq Known
  BY ComposeFacts
<1>2. /\ UNCHANGED <<whole, torn, refs>> /\ pc'[a] = "write" /\ pc[a] = "scan"
      /\ job'[a].snap = d /\ job'[a].pruneLocal = job[a].pruneLocal
      /\ job'[a].todo = <<Layer(TreeOf(job[a].parent), Scanned(job[a])), Config(d),
                          Manifest(d)>>
      /\ \A b \in Actors \ {a} : job'[b] = job[b] /\ pc'[b] = pc[b]
  BY <1>1, Typed DEF Compose, TypeInv, TypeOK, Job
<1>3. Stored' = Stored
  BY <1>2 DEF Stored
<1>4. \A c \in Known : BlobsOf(c)' = BlobsOf(c)
  BY <1>1, BlobsStable
<1>5. Manifest(d) \notin Stored
  BY <1>1 DEF BackedInv, ManifestsKnown
<1>6. ManifestsKnown' /\ RefsStored'
  BY <1>1, <1>2, <1>3 DEF BackedInv, ManifestsKnown, RefsStored
<1>7. ManifestLast'
  <2> SUFFICES ASSUME NEW e \in Known, Manifest(e) \in Stored,
                      NEW c \in images[e].chain
               PROVE  BlobsOf(c)' \subseteq Stored
    BY <1>1, <1>3, <1>5 DEF ManifestLast
  <2> QED
    BY <1>4 DEF BackedInv, ManifestLast, TypeInv, ImagesLinked
<1>8. TornFilled'
  <2> SUFFICES ASSUME NEW b \in torn PROVE \E c \in Actors : Filling(c, b)'
    BY <1>2 DEF TornFilled
  <2>1. PICK c \in Actors : Filling(c, b)
    BY DEF BackedInv, TornFilled
  <2> QED
    BY <2>1, <1>2 DEF Filling
<1>9. JobBacked(a)'
  <2>1. job[a].parent \in KnownOrNone /\ job[a].parent # d
    BY <1>1, NumberFacts DEF TypeInv, JobLinked, KnownOrNone
  <2>2. LayerOf(d)' = Layer(TreeOf(job[a].parent), Scanned(job[a]))
    BY <1>1, <2>1 DEF LayerOf, TreeOf, KnownOrNone
  <2>3. job'[a].todo = <<LayerOf(d)', Config(d), Manifest(d)>>
    BY <1>2, <2>2
  <2>4. \A c \in Ancestors(job[a].parent) : BlobsOf(c) \subseteq Stored
    <3>1. CASE job[a].parent = None
      BY <3>1 DEF Ancestors
    <3>2. CASE job[a].parent # None
      <4>1. job[a].parent \in Known /\ Manifest(job[a].parent) \in Stored
        BY <3>2, <2>1 DEF Compose, Loads, Stored, KnownOrNone
      <4> QED
        BY <3>2, <4>1 DEF Ancestors, BackedInv, ManifestLast
    <3> QED
      BY <3>1, <3>2
  <2>5. TodoShape(job[a].snap, job[a].todo)'
    BY <1>2, <2>3 DEF TodoShape
  <2>6. ~job[a].pruneLocal
    BY DEF BackedInv, JobBacked
  <2>7. \A c \in images'[d].chain \ {d} : BlobsOf(c)' \subseteq Stored'
    BY <1>1, <1>3, <1>4, <2>4
  <2> QED
    BY <1>2, <2>5, <2>6, <2>7 DEF JobBacked
<1>10. ASSUME NEW b \in Actors PROVE JobBacked(b)'
  <2>1. CASE b = a
    BY <2>1, <1>9
  <2>2. CASE b # a
    BY <2>2, <1>1, <1>2, <1>3, Bystander DEF BackedInv
  <2> QED
    BY <2>1, <2>2
<1> QED
  BY <1>6, <1>7, <1>8, <1>10 DEF BackedInv

(* The blob an actor is looking at: if it is a manifest, it is that of its *)
(* own snapshot and the other blobs of the chain have their files.         *)
LEMMA HeadFacts ==
    ASSUME TypeInv, BackedInv, NEW a \in Actors,
           pc[a] \in {"write", "create", "fill"}, job[a].todo # <<>>,
           NEW blob, blob = Head(job[a].todo)
    PROVE  /\ job[a].snap \in Known
           /\ TodoShape(job[a].snap, job[a].todo)
           /\ \A d \in Digests : blob = Manifest(d) =>
                  /\ d = job[a].snap
                  /\ \A c \in images[d].chain : BlobsOf(c) \subseteq Stored \cup {blob}
<1>1. job[a].snap \in Known /\ TodoShape(job[a].snap, job[a].todo)
      /\ \A c \in images[job[a].snap].chain \ {job[a].snap} : BlobsOf(c) \subseteq Stored
  BY DEF TypeInv, JobLinked, KnownOrNone, BackedInv, JobBacked
<1>2. ASSUME NEW d \in Digests, blob = Manifest(d)
      PROVE  d = job[a].snap /\ BlobsOf(d) \subseteq Stored \cup {blob}
  BY <1>1, <1>2, BlobsDiffer DEF TodoShape, LayerOf, BlobsOf
<1> QED
  BY <1>1, <1>2

(* Passing the blob in hand keeps the shape of what is left. *)
LEMMA TailShape ==
    ASSUME NEW d, NEW todo, TodoShape(d, todo), todo # <<>>,
           Head(todo) \in Stored
    PROVE  TodoShape(d, Tail(todo))
<1>1. CASE todo = <<LayerOf(d), Config(d), Manifest(d)>>
  BY <1>1 DEF TodoShape
<1>2. CASE todo = <<Config(d), Manifest(d)>> /\ LayerOf(d) \in Stored
  BY <1>2 DEF TodoShape
<1>3. CASE todo = <<Manifest(d)>> /\ {LayerOf(d), Config(d)} \subseteq Stored
  BY <1>3 DEF TodoShape, BlobsOf
<1> QED
  BY <1>1, <1>2, <1>3 DEF TodoShape

(* So does a step that keeps the images and the files. *)
LEMMA PassBlob ==
    ASSUME TypeInv, BackedInv, NEW a \in Actors, UNCHANGED images, Stored' = Stored,
           pc[a] \in {"write", "create", "fill"}, job[a].todo # <<>>,
           Head(job[a].todo) \in Stored,
           job'[a].todo = Tail(job[a].todo), job'[a].snap = job[a].snap,
           job'[a].pruneLocal = job[a].pruneLocal, pc'[a] = "write"
    PROVE  JobBacked(a)'
<1>1. PICK d, todo : d = job[a].snap /\ todo = job[a].todo
  OBVIOUS
<1>2. TodoShape(d, Tail(todo)) /\ d \in Known
  BY <1>1, HeadFacts, TailShape
<1>3. /\ LayerOf(d)' = LayerOf(d) /\ BlobsOf(d)' = BlobsOf(d)
      /\ \A c \in images[d].chain : BlobsOf(c)' = BlobsOf(c)
  BY <1>2, BlobsStable DEF TypeInv, ImagesLinked
<1>4. TodoShape(d, Tail(todo))'
  BY <1>2, <1>3 DEF TodoShape
<1>5. TodoShape(job[a].snap, job[a].todo)'
  BY <1>1, <1>4 DEF TodoShape
<1>6. \A c \in images[d].chain \ {d} : BlobsOf(c)' \subseteq Stored'
  BY <1>1, <1>3 DEF BackedInv, JobBacked
<1>7. ~job[a].pruneLocal
  BY DEF BackedInv, JobBacked
<1> QED
  BY <1>1, <1>5, <1>6, <1>7 DEF JobBacked

LEMMA SkipBacked ==
    ASSUME TypeInv, TypeInv', BackedInv, NEW a \in Actors, SkipBlob(a)
    PROVE  BackedInv'
<1>1. /\ job'[a].todo = Tail(job[a].todo) /\ job'[a].snap = job[a].snap
      /\ job'[a].pruneLocal = job[a].pruneLocal
      /\ pc'[a] = "write" /\ pc[a] = "write"
      /\ UNCHANGED <<images, whole, torn, refs>>
      /\ \A b \in Actors \ {a} : job'[b] = job[b] /\ pc'[b] = pc[b]
  BY Typed DEF SkipBlob, TypeInv, TypeOK, Job
<1>2. Stored' = Stored /\ Head(job[a].todo) \in Stored /\ job[a].todo # <<>>
  BY <1>1 DEF SkipBlob, Stored
<1>3. JobBacked(a)'
  BY <1>1, <1>2, PassBlob
<1>4. RefsStored'
  BY <1>1 DEF BackedInv, RefsStored, Stored
<1> QED
  BY <1>1, <1>3, <1>4, BackedSameFiles

LEMMA CreateBacked ==
    ASSUME TypeInv, TypeInv', BackedInv, NEW a \in Actors, CreateBlob(a)
    PROVE  BackedInv'
<1>1. PICK blob : blob = Head(job[a].todo)
  OBVIOUS
<1>2. /\ Stored' = Stored \cup {blob} /\ torn' = torn \cup {blob}
      /\ job' = job /\ pc'[a] = "fill" /\ pc[a] = "create"
      /\ UNCHANGED <<images, refs>> /\ job[a].todo # <<>>
      /\ \A b \in Actors \ {a} : job'[b] = job[b] /\ pc'[b] = pc[b]
  BY <1>1 DEF CreateBlob, Goto, Stored, TypeInv, TypeOK, JobLinked
<1>3. RefsStored'
  BY <1>2 DEF BackedInv, RefsStored
<1>4. TornFilled'
  <2> SUFFICES ASSUME NEW b \in torn \cup {blob} PROVE \E c \in Actors : Filling(c, b)'
    BY <1>2 DEF TornFilled
  <2>1. CASE b = blob
    BY <2>1, <1>1, <1>2 DEF Filling
  <2>2. CASE b \in torn
    BY <2>2, <1>2 DEF BackedInv, TornFilled, Filling
  <2> QED
    BY <2>1, <2>2
<1>5. JobBacked(a)'
  <2>1. PICK d : d = job[a].snap
    OBVIOUS
  <2>2. d \in Known /\ TodoShape(d, job[a].todo)
    BY <2>1, <1>2, HeadFacts
  <2>3. /\ LayerOf(d)' = LayerOf(d) /\ BlobsOf(d)' = BlobsOf(d)
        /\ \A c \in images[d].chain : BlobsOf(c)' = BlobsOf(c)
    BY <2>2, <1>2, BlobsStable DEF TypeInv, ImagesLinked
  <2>4. TodoShape(job[a].snap, job[a].todo)'
    BY <2>1, <2>2, <2>3, <1>2 DEF TodoShape
  <2>5. \A c \in images[d].chain \ {d} : BlobsOf(c)' \subseteq Stored'
    BY <2>1, <2>3, <1>2 DEF BackedInv, JobBacked
  <2>6. ~job[a].pruneLocal
    BY DEF BackedInv, JobBacked
  <2> QED
    BY <1>1, <1>2, <2>1, <2>4, <2>5, <2>6 DEF JobBacked
<1>6. \A d \in Known : Manifest(d) \in Stored' \ Stored =>
          \A c \in images[d].chain : BlobsOf(c) \subseteq Stored'
  BY <1>1, <1>2, HeadFacts, KnownFacts DEF TypeInv
<1>7. \A d \in Digests : Manifest(d) \in Stored' => d \in Known
  BY <1>1, <1>2, HeadFacts DEF BackedInv, ManifestsKnown
<1> QED
  BY <1>2, <1>3, <1>4, <1>5, <1>6, <1>7, BackedStep

LEMMA FillBacked ==
    ASSUME TypeInv, TypeInv', BackedInv, NEW a \in Actors, FillBlob(a)
    PROVE  BackedInv'
<1>1. PICK blob : blob = Head(job[a].todo)
  OBVIOUS
<1>2. /\ job'[a].todo = Tail(job[a].todo) /\ job'[a].snap = job[a].snap
      /\ job'[a].pruneLocal = job[a].pruneLocal
      /\ pc'[a] = "write" /\ pc[a] = "fill"
      /\ UNCHANGED <<images, refs>> /\ job[a].todo # <<>>
      /\ \A b \in Actors \ {a} : job'[b] = job[b] /\ pc'[b] = pc[b]
  BY Typed DEF FillBlob, TypeInv, TypeOK, Job, JobLinked
<1>3. Stored' = Stored
  BY <1>1 DEF FillBlob, Stored
<1>4. RefsStored'
  BY <1>2, <1>3 DEF BackedInv, RefsStored
<1>5. TornFilled'
  <2> SUFFICES ASSUME NEW b \in torn' PROVE \E c \in Actors : Filling(c, b)'
    BY DEF TornFilled
  <2>1. PICK c \in Actors : Filling(c, b) /\ c # a
    <3>1. CASE b = blob
      BY <3>1, <1>1 DEF FillBlob
    <3>2. CASE b # blob
      BY <3>2, <1>1 DEF FillBlob, BackedInv, TornFilled, Filling
    <3> QED
      BY <3>1, <3>2
  <2> QED
    BY <2>1, <1>2 DEF Filling
<1>6. JobBacked(a)'
  <2>1. blob \in Stored
    BY <1>1, <1>2 DEF BackedInv, JobBacked
  <2> QED
    BY <2>1, <1>1, <1>2, <1>3, PassBlob
<1>7. \A d \in Digests : Manifest(d) \in Stored' => d \in Known
  BY <1>3 DEF BackedInv, ManifestsKnown
<1> QED
  BY <1>2, <1>3, <1>4, <1>5, <1>6, <1>7, BackedStep

(* The other steps of a writer keep the images and the files. *)
LEMMA QuietBacked ==
    ASSUME TypeInv, TypeInv', BackedInv, NEW a \in Actors,
           \/ StatBlob(a) \/ SignSnapshot(a) \/ StartRefs(a)
           \/ \E n \in Names : WriteRef(a, n)
    PROVE  BackedInv'
<1>1. /\ UNCHANGED <<images, whole, torn>> /\ Stored' = Stored
      /\ job'[a].snap = job[a].snap /\ job'[a].todo = job[a].todo
      /\ job'[a].pruneLocal = job[a].pruneLocal
      /\ \A b \in Actors \ {a} : job'[b] = job[b] /\ pc'[b] = pc[b]
  BY Typed DEF StatBlob, SignSnapshot, StartRefs, WriteRef, Goto, TypeInv, TypeOK, Job,
               Stored
<1>2. /\ pc[a] \in {"write", "refs"}
      /\ \/ pc'[a] = pc[a]
         \/ pc[a] = "write" /\ pc'[a] = "create"
         \/ pc[a] = "write" /\ pc'[a] = "refs" /\ job[a].todo = <<>>
  BY DEF StatBlob, SignSnapshot, StartRefs, WriteRef, Goto, TypeInv, TypeOK
<1>3. RefsStored'
  <2>1. CASE UNCHANGED refs
    BY <2>1, <1>1 DEF BackedInv, RefsStored
  <2>2. CASE \E n \in Names : WriteRef(a, n)
    BY <2>2, <1>1 DEF WriteRef, BackedInv, RefsStored, JobBacked, TypeInv, TypeOK
  <2> QED
    BY <2>1, <2>2 DEF StatBlob, SignSnapshot, StartRefs
<1>4. JobBacked(a)'
  <2>1. PICK d, todo : d = job[a].snap /\ todo = job[a].todo
    OBVIOUS
  <2>2. ~job[a].pruneLocal
    BY DEF BackedInv, JobBacked
  <2>3. CASE pc[a] = "write"
    <3>1. d \in Known /\ TodoShape(d, todo)
      BY <2>1, <2>3 DEF BackedInv, JobBacked, TypeInv, JobLinked, KnownOrNone
    <3>2. /\ LayerOf(d)' = LayerOf(d) /\ BlobsOf(d)' = BlobsOf(d)
          /\ \A c \in images[d].chain : BlobsOf(c)' = BlobsOf(c)
      BY <3>1, <1>1, BlobsStable DEF TypeInv, ImagesLinked
    <3>3. TodoShape(job[a].snap, job[a].todo)'
      BY <2>1, <3>1, <3>2, <1>1 DEF TodoShape
    <3>4. \A c \in images[d].chain \ {d} : BlobsOf(c)' \subseteq Stored'
      BY <2>1, <2>3, <3>2, <1>1 DEF BackedInv, JobBacked
    <3>5. todo = <<>> => Manifest(d) \in Stored
      BY <3>1 DEF TodoShape, BlobsOf
    <3> QED
      BY <1>1, <1>2, <2>1, <2>2, <2>3, <3>3, <3>4, <3>5 DEF JobBacked
  <2>4. CASE pc[a] = "refs"
    BY <2>4, <2>2, <1>1, <1>2 DEF BackedInv, JobBacked
  <2> QED
    BY <1>2, <2>3, <2>4
<1> QED
  BY <1>1, <1>2, <1>3, <1>4, BackedSameFiles

LEMMA StepBacked ==
    ASSUME WritersOnly, TypeInv, TypeInv', BackedInv, NEW a \in Actors, Step(a)
    PROVE  BackedInv'
<1>1. JobBacked(a)
  BY DEF BackedInv
<1>2. CASE Compose(a) \/ CreateBlob(a) \/ FillBlob(a) \/ SkipBlob(a)
  BY <1>2, ComposeBacked, CreateBacked, FillBacked, SkipBacked
<1>3. CASE StatBlob(a) \/ SignSnapshot(a) \/ StartRefs(a)
           \/ \E n \in Names : WriteRef(a, n)
  BY <1>3, QuietBacked
<1>4. CASE ParentMissing(a) \/ SignFails(a) \/ RefsRejected(a)
  BY <1>4, FinishBacked DEF ParentMissing, SignFails, RefsRejected
<1>5. CASE RefsWritten(a)
  BY <1>1, <1>5, FinishBacked DEF RefsWritten, JobBacked
<1>6. CASE Crash(a)
  BY <1>6, FinishBacked DEF Crash, WritersOnly
<1>7. CASE ListCandidates(a) \/ Mark(a) \/ Pruned(a)
           \/ (\E n \in Names : RemoveRef(a, n))
           \/ \E b \in job[a].sweep : RemoveBlob(a, b)
  BY <1>1, <1>7 DEF ListCandidates, Mark, Pruned, RemoveRef, RemoveBlob, JobBacked
<1> QED
  BY <1>2, <1>3, <1>4, <1>5, <1>6, <1>7 DEF Step

LEMMA BackedInit == Init => BackedInv
<1> SUFFICES ASSUME Init PROVE BackedInv
  OBVIOUS
<1>1. \A a \in Actors : JobBacked(a)
  BY DEF Init, JobBacked, IdleJob
<1> QED
  BY <1>1 DEF Init, BackedInv, ManifestsKnown, ManifestLast, RefsStored, TornFilled,
              Stored, Known

LEMMA BackedNext ==
    ASSUME WritersOnly
    PROVE  TypeInv /\ TypeInv' /\ BackedInv /\ [Next]_vars => BackedInv'
<1> SUFFICES ASSUME TypeInv, TypeInv', BackedInv, [Next]_vars PROVE BackedInv'
  OBVIOUS
<1>1. CASE UNCHANGED <<images, whole, torn, refs, pc, job>>
  BY <1>1 DEF BackedInv, ManifestsKnown, ManifestLast, RefsStored, TornFilled, Filling,
              JobBacked, TodoShape, LayerOf, TreeOf, BlobsOf, Stored, Known
<1>2. CASE \E a \in Actors : Command(a) \/ Step(a)
  BY <1>2, CommandBacked, StepBacked
<1> QED
  BY <1>1, <1>2 DEF Next, AgentWrites, vars

LEMMA BackedSuffices == TypeInv /\ BackedInv => RefsBacked
<1> SUFFICES ASSUME TypeInv, BackedInv, NEW n \in Names, refs[n] # None,
                    NEW c \in images[refs[n]].chain, NEW b \in BlobsOf(c)
             PROVE  b \in whole \/ \E a \in Actors : Filling(a, b)
  BY DEF RefsBacked
<1>1. refs[n] \in Known
  BY DEF TypeInv, RefsLinked, KnownOrNone
<1>2. b \in Stored
  BY <1>1 DEF BackedInv, RefsStored, ManifestLast
<1> QED
  BY <1>2 DEF BackedInv, TornFilled, Stored

(* However many processes write snapshots, fork, mount and checkpoint at   *)
(* once, and wherever between two files they die, every blob that a ref    *)
(* leads to is complete or has a live process writing it, as long as       *)
(* nothing prunes the store and no process dies while it writes a blob:    *)
(* Snapshot's order (layer, config, manifest, then refs) is what it rests  *)
(* on.                                                                     *)
THEOREM WritersBackRefs ==
    ASSUME WritersOnly
    PROVE  Spec => []RefsBacked
<1>1. Init => TypeInv /\ BackedInv
  BY TypeInit, BackedInit
<1>2. TypeInv /\ BackedInv /\ [Next]_vars => (TypeInv /\ BackedInv)'
  BY TypeStep, BackedNext
<1>3. TypeInv /\ BackedInv => RefsBacked
  BY BackedSuffices
<1> QED
  BY <1>1, <1>2, <1>3, PTL DEF Spec

-----------------------------------------------------------------------------
(***************************************************************************)
(* Signatures.  A command that was told to sign has the signature before   *)
(* it enters writeRefsIfExpected, and signatures are never taken back.     *)
(* Fork moves a ref to whatever digest it is given: the theorem is about   *)
(* forks of what refs show.                                                *)
(***************************************************************************)
ForksOfRefs == ~ByDigest \/ Forks = {}

SignJob(a) ==
    /\ pc[a] \in {"write", "create", "fill"} /\ images[job[a].snap].sign =>
          job[a].snap \in signed \/ job[a].sign
    /\ pc[a] = "refs" /\ images[job[a].snap].sign => job[a].snap \in signed

SignInv == SignedWhenPublished /\ \A a \in Actors : SignJob(a)

(* A step of one actor leaves the others where they are. *)
LEMMA OthersStay ==
    ASSUME TypeInv, NEW a \in Actors, Command(a) \/ Step(a)
    PROVE  \A b \in Actors \ {a} : job'[b] = job[b] /\ pc'[b] = pc[b]
<1> USE DEF TypeInv, TypeOK
<1>1. CASE Command(a)
  BY <1>1 DEF Command, Snapshot, Fork, Mount, Compact, Start
<1>2. CASE \/ ParentMissing(a) \/ SignFails(a) \/ RefsRejected(a) \/ RefsWritten(a)
           \/ Pruned(a) \/ Crash(a) \/ StatBlob(a) \/ CreateBlob(a) \/ StartRefs(a)
  BY <1>2 DEF ParentMissing, SignFails, RefsRejected, RefsWritten, Pruned, Crash,
              StatBlob, CreateBlob, StartRefs, Goto, Finish
<1>3. CASE Compose(a) \/ FillBlob(a) \/ SkipBlob(a) \/ SignSnapshot(a)
  BY <1>3 DEF Compose, FillBlob, SkipBlob, SignSnapshot
<1>4. CASE \/ ListCandidates(a) \/ Mark(a) \/ (\E n \in Names : WriteRef(a, n))
           \/ (\E n \in Names : RemoveRef(a, n))
           \/ \E b \in job[a].sweep : RemoveBlob(a, b)
  BY <1>4 DEF ListCandidates, Mark, WriteRef, RemoveRef, RemoveBlob
<1> QED
  BY <1>1, <1>2, <1>3, <1>4 DEF Step

(* A step of actor a that only adds snapshots and signatures. *)
LEMMA SignStep ==
    ASSUME TypeInv, SignInv, NEW a \in Actors,
           \A c \in Known : images'[c] = images[c], signed \subseteq signed',
           \A b \in Actors \ {a} : job'[b] = job[b] /\ pc'[b] = pc[b],
           SignJob(a)',
           \A n \in Names : \/ refs'[n] \in {refs[n], None}
                            \/ refs'[n] \in Known /\ (images[refs'[n]].sign => refs'[n] \in signed)
    PROVE  SignInv'
<1>1. SignedWhenPublished'
  <2> SUFFICES ASSUME NEW n \in Names, refs'[n] # None, images'[refs'[n]].sign
               PROVE  refs'[n] \in signed'
    BY DEF SignedWhenPublished
  <2>1. refs[n] \in KnownOrNone
    BY DEF TypeInv, RefsLinked
  <2>2. refs'[n] \in Known
    BY <2>1 DEF KnownOrNone
  <2>3. images'[refs'[n]] = images[refs'[n]]
    BY <2>2
  <2> QED
    BY <2>3 DEF SignInv, SignedWhenPublished
<1>2. ASSUME NEW b \in Actors, b # a
      PROVE  SignJob(b)'
  <2>1. job'[b] = job[b] /\ pc'[b] = pc[b] /\ SignJob(b)
    BY <1>2 DEF SignInv
  <2>2. pc[b] \in {"write", "create", "fill", "refs"} => job[b].snap \in Known
    BY DEF TypeInv, JobLinked, KnownOrNone
  <2> QED
    BY <2>1, <2>2 DEF SignJob
<1> QED
  BY <1>1, <1>2 DEF SignInv

LEMMA CommandSigns ==
    ASSUME ForksOfRefs, TypeInv, SignInv, NEW a \in Actors, Command(a)
    PROVE  SignInv'
<1>1. /\ UNCHANGED <<images, refs, signed>>
      /\ \A b \in Actors \ {a} : job'[b] = job[b] /\ pc'[b] = pc[b]
  BY OthersStay DEF Command, Snapshot, Fork, Mount, Compact
<1>2. ASSUME NEW t \in Targets, NEW r \in Requests, Snapshot(a, t, r)
      PROVE  SignJob(a)'
  BY <1>2 DEF Snapshot, Start, SignJob, TypeInv, TypeOK
<1>3. ASSUME NEW d \in Resolvable, NEW n \in Forks, Fork(a, d, n)
      PROVE  SignJob(a)'
  <2>1. pc'[a] = "refs" /\ job'[a].snap = d
    BY <1>3 DEF Fork, Start, IdleJob, TypeInv, TypeOK
  <2>2. PICK m \in Names : d = refs[m] /\ d # None
    BY DEF ForksOfRefs, Resolvable
  <2> QED
    BY <1>1, <2>1, <2>2 DEF SignJob, SignInv, SignedWhenPublished
<1>4. ASSUME NEW d, NEW t, Mount(a, d, t)
      PROVE  SignJob(a)'
  BY <1>1, <1>4 DEF Mount, SignInv, SignJob
<1>5. ASSUME NEW d, NEW t, NEW p, Compact(a, d, t, p)
      PROVE  SignJob(a)'
  BY <1>5 DEF Compact, Start, SignJob, TypeInv, TypeOK
<1>6. SignJob(a)'
  BY <1>2, <1>3, <1>4, <1>5 DEF Command
<1> QED
  BY <1>1, <1>6, SignStep

LEMMA StepSigns ==
    ASSUME TypeInv, SignInv, NEW a \in Actors, Step(a)
    PROVE  SignInv'
<1>1. \A b \in Actors \ {a} : job'[b] = job[b] /\ pc'[b] = pc[b]
  BY OthersStay
<1>2. /\ pc[a] \in {"write", "create", "fill", "refs"} => job[a].snap \in Known
      /\ SignJob(a)
  BY DEF TypeInv, JobLinked, KnownOrNone, SignInv
<1>3. CASE Compose(a)
  <2>1. PICK d : /\ d = Len(images) + 1 /\ \A c \in Known : images'[c] = images[c]
                 /\ images'[d].sign = job[a].sign
    BY <1>3, ComposeFacts
  <2>2. /\ job'[a].snap = d /\ job'[a].sign = job[a].sign /\ pc'[a] = "write"
        /\ UNCHANGED <<refs, signed>>
    BY <1>3, <2>1, Typed DEF Compose, TypeInv, TypeOK, Job
  <2>3. SignJob(a)'
    BY <2>1, <2>2 DEF SignJob
  <2> QED
    BY <1>1, <2>1, <2>2, <2>3, SignStep
<1>4. CASE StatBlob(a) \/ CreateBlob(a) \/ FillBlob(a) \/ SkipBlob(a)
  <2>1. /\ UNCHANGED <<images, refs, signed>> /\ pc[a] \in {"write", "create", "fill"}
        /\ pc'[a] \in {"write", "create", "fill"}
        /\ job'[a].snap = job[a].snap /\ job'[a].sign = job[a].sign
    BY <1>4, Typed DEF StatBlob, CreateBlob, FillBlob, SkipBlob, Goto, TypeInv, TypeOK, Job
  <2>2. SignJob(a)'
    BY <1>2, <2>1 DEF SignJob
  <2> QED
    BY <1>1, <2>1, <2>2, SignStep
<1>5. CASE SignSnapshot(a)
  <2>1. /\ UNCHANGED <<images, refs>> /\ signed' = signed \cup {job[a].snap}
        /\ pc'[a] = "write" /\ job'[a].snap = job[a].snap
    BY <1>5, Typed DEF SignSnapshot, TypeInv, TypeOK, Job
  <2>2. SignJob(a)'
    BY <2>1 DEF SignJob
  <2> QED
    BY <1>1, <2>1, <2>2, SignStep
<1>6. CASE StartRefs(a)
  <2>1. /\ UNCHANGED <<images, refs, signed>> /\ pc[a] = "write" /\ ~job[a].sign
        /\ pc'[a] = "refs" /\ job'[a] = job[a]
    BY <1>6 DEF StartRefs, Goto, TypeInv, TypeOK
  <2>2. SignJob(a)'
    BY <1>2, <2>1 DEF SignJob
  <2> QED
    BY <1>1, <2>1, <2>2, SignStep
<1>7. CASE \E n \in Names : WriteRef(a, n)
  <2>1. /\ UNCHANGED <<images, signed>> /\ pc[a] = "refs" /\ pc'[a] = "refs"
        /\ job'[a].snap = job[a].snap
        /\ \A n \in Names : refs'[n] \in {refs[n], job[a].snap}
    BY <1>7, Typed DEF WriteRef, TypeInv, TypeOK, Job
  <2>2. SignJob(a)'
    BY <1>2, <2>1 DEF SignJob
  <2>3. job[a].snap \in Known /\ (images[job[a].snap].sign => job[a].snap \in signed)
    BY <1>2, <2>1 DEF SignJob
  <2> QED
    BY <1>1, <2>1, <2>2, <2>3, SignStep
<1>8. CASE \/ ParentMissing(a) \/ SignFails(a) \/ RefsRejected(a) \/ RefsWritten(a)
           \/ Pruned(a) \/ Crash(a) \/ ListCandidates(a) \/ Mark(a)
  <2>1. /\ UNCHANGED <<images, refs>> /\ signed \subseteq signed'
        /\ pc'[a] \in {"idle", "prune", "unref", "sweep"}
    BY <1>8 DEF ParentMissing, SignFails, RefsRejected, RefsWritten, Pruned, Crash,
                ListCandidates, Mark, Goto, Finish, TypeInv, TypeOK
  <2>2. SignJob(a)'
    BY <2>1 DEF SignJob
  <2> QED
    BY <1>1, <2>1, <2>2, SignStep
<1>9. CASE (\E n \in Names : RemoveRef(a, n)) \/ \E b \in job[a].sweep : RemoveBlob(a, b)
  <2>1. /\ UNCHANGED <<images, signed>> /\ \A n \in Names : refs'[n] \in {refs[n], None}
        /\ pc'[a] \in {"unref", "sweep"}
    BY <1>9 DEF RemoveRef, RemoveBlob, TypeInv, TypeOK
  <2>2. SignJob(a)'
    BY <2>1 DEF SignJob
  <2> QED
    BY <1>1, <2>1, <2>2, SignStep
<1> QED
  BY <1>3, <1>4, <1>5, <1>6, <1>7, <1>8, <1>9 DEF Step

(* Whatever fails and however many processes publish, compact and prune at *)
(* once, a ref never shows a snapshot that was to be signed and is not, as *)
(* long as forks start from refs: a fork of the digest of a snapshot whose *)
(* signing failed publishes it unsigned.                                   *)
THEOREM NothingUnsignedPublished ==
    ASSUME ForksOfRefs
    PROVE  Spec => []SignedWhenPublished
<1>1. Init => TypeInv /\ SignInv
  BY TypeInit DEF Init, SignInv, SignedWhenPublished, SignJob
<1>2. TypeInv /\ SignInv /\ [Next]_vars => (TypeInv /\ SignInv)'
  <2> SUFFICES ASSUME TypeInv, SignInv, [Next]_vars
               PROVE  SignInv'
    BY TypeStep
  <2>1. CASE UNCHANGED <<images, refs, signed, pc, job>>
    BY <2>1 DEF SignInv, SignedWhenPublished, SignJob
  <2>2. CASE \E a \in Actors : Command(a) \/ Step(a)
    BY <2>2, CommandSigns, StepSigns
  <2> QED
    BY <2>1, <2>2 DEF Next, AgentWrites, vars
<1>3. SignInv => SignedWhenPublished
  BY DEF SignInv
<1> QED
  BY <1>1, <1>2, <1>3, PTL DEF Spec

-----------------------------------------------------------------------------

(***************************************************************************)
(* Checkpoints.  Between Compact's comparison of the target with the       *)
(* source and the scan of Snapshot nothing may touch the target: the agent *)
(* is paused, and no other process mounts into it.                         *)
(***************************************************************************)
Undisturbed ==
    /\ "busy" \notin Faults
    /\ Mounted = {} \/ \A a, b \in Actors : a = b

CheckJob(a) ==
    pc[a] = "scan" /\ job[a].source # None =>
        Scanned(job[a]) = images[job[a].source].tree

CheckInv == CheckpointsPreserveState /\ \A a \in Actors : CheckJob(a)

(* A step of actor a that leaves the snapshots and the targets. *)
LEMMA CheckStep ==
    ASSUME CheckInv, NEW a \in Actors, UNCHANGED <<images, disk>>,
           \A b \in Actors \ {a} : job'[b] = job[b] /\ pc'[b] = pc[b],
           CheckJob(a)'
    PROVE  CheckInv'
<1>1. CheckpointsPreserveState'
  BY DEF CheckInv, CheckpointsPreserveState
<1>2. ASSUME NEW b \in Actors, b # a
      PROVE  CheckJob(b)'
  BY <1>2 DEF CheckInv, CheckJob, Scanned
<1> QED
  BY <1>1, <1>2 DEF CheckInv

LEMMA CommandChecks ==
    ASSUME Undisturbed, TypeInv, CheckInv, NEW a \in Actors, Command(a)
    PROVE  CheckInv'
<1>1. \A b \in Actors \ {a} : job'[b] = job[b] /\ pc'[b] = pc[b]
  BY OthersStay
<1>2. ASSUME NEW t \in Targets, NEW r \in Requests, Snapshot(a, t, r)
      PROVE  CheckInv'
  <2>1. UNCHANGED <<images, disk>> /\ job'[a].source = None
    BY <1>2 DEF Snapshot, Start, IdleJob, TypeInv, TypeOK
  <2>2. CheckJob(a)'
    BY <2>1 DEF CheckJob
  <2> QED
    BY <1>1, <2>1, <2>2, CheckStep
<1>3. ASSUME NEW d, NEW n, Fork(a, d, n)
      PROVE  CheckInv'
  <2>1. UNCHANGED <<images, disk>> /\ pc'[a] = "refs"
    BY <1>3 DEF Fork, Start, TypeInv, TypeOK
  <2>2. CheckJob(a)'
    BY <2>1 DEF CheckJob
  <2> QED
    BY <1>1, <2>1, <2>2, CheckStep
<1>4. ASSUME NEW d, NEW t \in Mounted, Mount(a, d, t)
      PROVE  CheckInv'
  <2>1. UNCHANGED <<images, pc, job>> /\ \A b \in Actors : pc[b] = "idle"
    BY <1>4 DEF Mount, Undisturbed
  <2> QED
    BY <2>1 DEF CheckInv, CheckJob, CheckpointsPreserveState
<1>5. ASSUME NEW d \in Known, NEW t \in Targets, NEW p \in Policies, Compact(a, d, t, p)
      PROVE  CheckInv'
  <2>1. /\ UNCHANGED <<images, disk>> /\ job'[a].source = d
        /\ job'[a].target = IF p.fromTarget THEN t ELSE Elsewhere
        /\ p.fromTarget => disk[t] = images[d].tree
    BY <1>5 DEF Compact, SourceUnchanged, Start, IdleJob, TypeInv, TypeOK
  <2>2. CheckJob(a)'
    BY <2>1, StoreConstants DEF CheckJob, Scanned, StoreConstants
  <2> QED
    BY <1>1, <2>1, <2>2, CheckStep
<1> QED
  BY <1>2, <1>3, <1>4, <1>5 DEF Command, Known

LEMMA StepChecks ==
    ASSUME TypeInv, CheckInv, NEW a \in Actors, Step(a)
    PROVE  CheckInv'
<1>1. \A b \in Actors \ {a} : job'[b] = job[b] /\ pc'[b] = pc[b]
  BY OthersStay
<1>2. CASE Compose(a)
  <2>1. PICK d : /\ d \notin Known /\ Known' = Known \cup {d}
                 /\ \A c \in Known : images'[c] = images[c]
                 /\ images'[d].tree = Scanned(job[a]) /\ images'[d].source = job[a].source
    BY <1>2, ComposeFacts
  <2>2. pc[a] = "scan" /\ pc'[a] = "write" /\ UNCHANGED disk
    BY <1>2 DEF Compose, TypeInv, TypeOK
  <2>3. CheckpointsPreserveState'
    <3> SUFFICES ASSUME NEW c \in Known \cup {d}, images'[c].source # None
                 PROVE  images'[c].tree = images'[images'[c].source].tree
      BY <2>1 DEF CheckpointsPreserveState, Known
    <3>1. CASE c = d
      <4>1. job[a].source \in Known
        BY <2>1, <3>1 DEF TypeInv, JobLinked, KnownOrNone
      <4> QED
        BY <2>1, <2>2, <3>1, <4>1 DEF CheckInv, CheckJob
    <3>2. CASE c \in Known
      <4>1. images'[c] = images[c]
        BY <2>1, <3>2
      <4>2. images[c].source \in Known
        BY <3>2, <4>1 DEF TypeInv, ImagesLinked, KnownOrNone
      <4> QED
        BY <2>1, <3>2, <4>1, <4>2 DEF CheckInv, CheckpointsPreserveState, Known
    <3> QED
      BY <3>1, <3>2
  <2>4. ASSUME NEW b \in Actors
        PROVE  CheckJob(b)'
    <3>1. CASE b = a
      BY <2>2, <3>1 DEF CheckJob
    <3>2. CASE b # a
      <4>1. job'[b] = job[b] /\ pc'[b] = pc[b] /\ job[b].source \in KnownOrNone
        BY <1>1, <3>2 DEF TypeInv, JobLinked
      <4>2. job[b].source # None => images'[job[b].source] = images[job[b].source]
        BY <2>1, <4>1 DEF KnownOrNone
      <4>3. pc[b] = "scan" /\ job[b].target = Elsewhere => job[b].source # None
        BY DEF TypeInv, JobLinked
      <4> QED
        BY <2>2, <4>1, <4>2, <4>3 DEF CheckInv, CheckJob, Scanned
    <3> QED
      BY <3>1, <3>2
  <2> QED
    BY <2>3, <2>4 DEF CheckInv
<1>3. CASE ~Compose(a)
  <2>1. UNCHANGED <<images, disk>>
    BY <1>3 DEF Step, ParentMissing, StatBlob, CreateBlob, FillBlob, SkipBlob,
                SignSnapshot, SignFails, StartRefs, RefsRejected, WriteRef, RefsWritten,
                ListCandidates, RemoveRef, Mark, RemoveBlob, Pruned, Crash
  <2>2. pc'[a] # "scan"
    <3> USE DEF TypeInv, TypeOK
    <3>1. CASE \/ ParentMissing(a) \/ SignFails(a) \/ RefsRejected(a) \/ RefsWritten(a)
               \/ Pruned(a) \/ Crash(a) \/ StatBlob(a) \/ CreateBlob(a) \/ StartRefs(a)
      BY <3>1 DEF ParentMissing, SignFails, RefsRejected, RefsWritten, Pruned, Crash,
                  StatBlob, CreateBlob, StartRefs, Goto, Finish
    <3>2. CASE \/ FillBlob(a) \/ SkipBlob(a) \/ SignSnapshot(a) \/ ListCandidates(a)
               \/ Mark(a) \/ (\E n \in Names : WriteRef(a, n) \/ RemoveRef(a, n))
               \/ \E b \in job[a].sweep : RemoveBlob(a, b)
      BY <3>2 DEF FillBlob, SkipBlob, SignSnapshot, ListCandidates, Mark, WriteRef,
                  RemoveRef, RemoveBlob
    <3> QED
      BY <1>3, <3>1, <3>2 DEF Step
  <2>3. CheckJob(a)'
    BY <2>2 DEF CheckJob
  <2> QED
    BY <1>1, <2>1, <2>3, CheckStep
<1> QED
  BY <1>2, <1>3

(* For any number of processes, targets and contents, a checkpoint holds   *)
(* the tree of the snapshot that it was compacted from, whatever fails, as *)
(* long as the agent rests while a command runs and no other process       *)
(* mounts into the target.                                                 *)
THEOREM CheckpointsKeepTheTree ==
    ASSUME Undisturbed
    PROVE  Spec => []CheckpointsPreserveState
<1>1. Init => TypeInv /\ CheckInv
  <2>1. Init => CheckInv
    BY DEF Init, CheckInv, CheckpointsPreserveState, CheckJob
  <2> QED
    BY <2>1, TypeInit
<1>2. TypeInv /\ CheckInv /\ [Next]_vars => (TypeInv /\ CheckInv)'
  <2> SUFFICES ASSUME TypeInv, CheckInv, [Next]_vars
               PROVE  CheckInv'
    BY TypeStep
  <2>1. CASE UNCHANGED vars
    BY <2>1 DEF vars, CheckInv, CheckpointsPreserveState, CheckJob, Scanned
  <2>2. CASE \E a \in Actors : Command(a) \/ Step(a)
    BY <2>2, CommandChecks, StepChecks
  <2>3. CASE \E t \in Targets : AgentWrites(t)
    <3>1. UNCHANGED <<images, pc, job>> /\ \A a \in Actors : pc[a] = "idle"
      BY <2>3 DEF AgentWrites, Undisturbed
    <3> QED
      BY <3>1 DEF CheckInv, CheckpointsPreserveState, CheckJob
  <2> QED
    BY <2>1, <2>2, <2>3 DEF Next
<1>3. CheckInv => CheckpointsPreserveState
  BY DEF CheckInv
<1> QED
  BY <1>1, <1>2, <1>3, PTL DEF Spec

-----------------------------------------------------------------------------

(***************************************************************************)
(* One process.  It may prune, unless a mount or a digest leads it to      *)
(* snapshots that no ref protects.                                         *)
(***************************************************************************)
NoPrune == \A p \in Policies : ~p.pruneLocal

OneProcess ==
    /\ \A a, b \in Actors : a = b
    /\ "torn" \notin Faults
    /\ (Mounted = {} /\ ~ByDigest) \/ NoPrune

(* What is left to write of a snapshot when these blobs are complete. *)
Shape(d, todo, blobs) ==
    \/ todo = <<LayerOf(d), Config(d), Manifest(d)>>
    \/ todo = <<Config(d), Manifest(d)>> /\ LayerOf(d) \in blobs
    \/ todo = <<Manifest(d)>> /\ {LayerOf(d), Config(d)} \subseteq blobs
    \/ todo = <<>> /\ BlobsOf(d) \subseteq blobs

(* What refs lead to is out of the sweep's way. *)
Spared(blobs) ==
    \A n \in Names : refs[n] # None =>
        \A c \in images[refs[n]].chain : BlobsOf(c) \cap blobs = {}

CompleteJob(a) ==
    /\ NoPrune => ~job[a].pruneLocal /\ pc[a] \notin {"prune", "unref", "sweep"}
    /\ torn = IF pc[a] = "fill" THEN {Head(job[a].todo)} ELSE {}
    /\ pc[a] = "create" => Head(job[a].todo) \notin whole
    /\ pc[a] = "scan" /\ job[a].parent # None /\ Loads(job[a].parent) =>
          Restorable(job[a].parent)
    /\ pc[a] \in {"write", "create", "fill"} =>
          /\ Shape(job[a].snap, job[a].todo, whole)
          /\ job[a].todo # <<>> => Manifest(job[a].snap) \notin whole
          /\ \A c \in images[job[a].snap].chain \ {job[a].snap} : BlobsOf(c) \subseteq whole
    /\ pc[a] = "refs" => Restorable(job[a].snap)
    /\ pc[a] = "sweep" => Spared(job[a].sweep)

(* Without pruning a manifest that loads stands for its whole chain;       *)
(* without mounts every parent is what latest shows.                       *)
CompleteInv ==
    /\ RefsComplete
    /\ \A d \in Digests : Manifest(d) \in whole => d \in Known
    /\ NoPrune => \A d \in Known : Loads(d) => Restorable(d)
    /\ Mounted = {} => \A t \in Targets : mount[t] = None
    /\ \A a \in Actors : CompleteJob(a)

LEMMA ShapeTail ==
    ASSUME NEW d, NEW todo, NEW S, NEW T, Shape(d, todo, S), todo # <<>>,
           S \cup {Head(todo)} \subseteq T
    PROVE  Shape(d, Tail(todo), T)
<1>1. CASE todo = <<LayerOf(d), Config(d), Manifest(d)>>
  BY <1>1 DEF Shape
<1>2. CASE todo = <<Config(d), Manifest(d)>> /\ LayerOf(d) \in S
  BY <1>2 DEF Shape
<1>3. CASE todo = <<Manifest(d)>> /\ {LayerOf(d), Config(d)} \subseteq S
  BY <1>3 DEF Shape, BlobsOf
<1> QED
  BY <1>1, <1>2, <1>3 DEF Shape

LEMMA ShapeHead ==
    ASSUME NEW d, NEW todo, NEW S, Shape(d, todo, S), todo # <<>>
    PROVE  /\ Head(todo) \in BlobsOf(d)
           /\ Head(todo) = Manifest(d) => BlobsOf(d) \subseteq S \cup {Manifest(d)}
           /\ Head(todo) = Manifest(d) <=> Tail(todo) = <<>>
<1>1. CASE todo = <<LayerOf(d), Config(d), Manifest(d)>>
  BY <1>1, BlobsDiffer DEF BlobsOf, LayerOf
<1>2. CASE todo = <<Config(d), Manifest(d)>> /\ LayerOf(d) \in S
  BY <1>2, BlobsDiffer DEF BlobsOf
<1>3. CASE todo = <<Manifest(d)>> /\ {LayerOf(d), Config(d)} \subseteq S
  BY <1>3 DEF BlobsOf
<1> QED
  BY <1>1, <1>2, <1>3 DEF Shape

(* The process where it stands, and the snapshot that it works on. *)
LEMMA JobFacts ==
    ASSUME TypeInv, CompleteInv, NEW a \in Actors
    PROVE  /\ CompleteJob(a)
           /\ pc[a] # "fill" => torn = {}
           /\ pc[a] \in {"write", "create", "fill", "refs"} =>
                 /\ job[a].snap \in Known /\ job[a].snap \in Digests
                 /\ job[a].snap \in images[job[a].snap].chain
                 /\ images[job[a].snap].chain \subseteq Known
           /\ pc[a] \in {"create", "fill"} => job[a].todo # <<>>
BY KnownFacts DEF TypeInv, JobLinked, ImagesLinked, KnownOrNone, CompleteInv, CompleteJob

(* A step that keeps the snapshots and the complete files. *)
LEMMA CompleteSame ==
    ASSUME OneProcess, TypeInv, CompleteInv, NEW a \in Actors,
           UNCHANGED <<images, whole>>,
           \A n \in Names : \/ refs'[n] \in {refs[n], None}
                            \/ refs'[n] \in Known /\ Restorable(refs'[n]),
           Mounted = {} => UNCHANGED mount,
           CompleteJob(a)'
    PROVE  CompleteInv'
<1>1. /\ \A c : BlobsOf(c)' = BlobsOf(c) /\ Loads(c)' = Loads(c)
      /\ Known' = Known
  BY DEF BlobsOf, LayerOf, TreeOf, Loads, Known
<1>2. \A c : Restorable(c)' = Restorable(c)
  BY <1>1 DEF Restorable
<1>3. RefsComplete'
  <2> SUFFICES ASSUME NEW n \in Names, refs'[n] # None
               PROVE  \A c \in images'[refs'[n]].chain : BlobsOf(c)' \subseteq whole'
    BY DEF RefsComplete, Restorable
  <2>1. Restorable(refs'[n])
    BY DEF CompleteInv, RefsComplete
  <2> QED
    BY <1>1, <2>1 DEF Restorable
<1>4. \A b \in Actors : CompleteJob(b)'
  BY DEF OneProcess
<1> QED
  BY <1>1, <1>2, <1>3, <1>4 DEF CompleteInv

LEMMA CommandComplete ==
    ASSUME OneProcess, TypeInv, CompleteInv, NEW a \in Actors, Command(a)
    PROVE  CompleteInv'
<1>1. /\ pc[a] = "idle" /\ torn = {}
      /\ UNCHANGED <<images, whole, torn, refs>>
  <2>1. pc[a] = "idle" /\ UNCHANGED <<images, whole, torn, refs>>
    BY DEF Command, Snapshot, Fork, Mount, Compact, Start
  <2> QED
    BY <2>1, JobFacts
<1>2. /\ \A c : BlobsOf(c)' = BlobsOf(c) /\ Loads(c)' = Loads(c)
      /\ \A c : Restorable(c)' = Restorable(c)
  BY <1>1 DEF BlobsOf, LayerOf, TreeOf, Loads, Restorable
<1>3. ASSUME NEW t \in Targets, NEW r \in Requests, Snapshot(a, t, r)
      PROVE  CompleteInv'
  <2>1. /\ UNCHANGED mount /\ pc'[a] = "scan" /\ job'[a].parent = ParentOf(t)
        /\ ~job'[a].pruneLocal
    BY <1>3 DEF Snapshot, Start, IdleJob, TypeInv, TypeOK
  <2>2. ParentOf(t) # None /\ Loads(ParentOf(t)) => Restorable(ParentOf(t))
    <3>1. CASE mount[t] # None
      <4>1. ParentOf(t) = mount[t] /\ mount[t] \in Known
        BY <3>1 DEF ParentOf, TypeInv, RefsLinked, KnownOrNone
      <4>2. NoPrune
        BY <3>1 DEF CompleteInv, OneProcess
      <4> QED
        BY <4>1, <4>2 DEF CompleteInv
    <3>2. CASE mount[t] = None
      BY <3>2, StoreConstants DEF ParentOf, CompleteInv, RefsComplete, StoreConstants
    <3> QED
      BY <3>1, <3>2
  <2>3. (job[a].parent # None /\ Loads(job[a].parent) => Restorable(job[a].parent))'
    BY <1>1, <2>1, <2>2 DEF Loads, Restorable, BlobsOf, LayerOf, TreeOf
  <2>4. CompleteJob(a)'
    BY <1>1, <2>1, <2>3 DEF CompleteJob
  <2> QED
    BY <1>1, <2>1, <2>4, CompleteSame
<1>4. ASSUME NEW d \in Resolvable, NEW n \in Forks, Fork(a, d, n)
      PROVE  CompleteInv'
  <2>1. /\ UNCHANGED mount /\ pc'[a] = "refs" /\ job'[a].snap = d /\ ~job'[a].pruneLocal
    BY <1>4 DEF Fork, Start, IdleJob, TypeInv, TypeOK
  <2>2. Restorable(d)
    <3>1. CASE NoPrune
      <4>1. d \in Known
        BY Typed DEF Resolvable, Known, KnownOrNone
      <4>2. Loads(d)
        BY <1>4, <4>1 DEF Fork, ChainLoads, TypeInv, ImagesLinked
      <4> QED
        BY <3>1, <4>1, <4>2 DEF CompleteInv
    <3>2. CASE ~ByDigest
      BY <3>2 DEF Resolvable, CompleteInv, RefsComplete
    <3> QED
      BY <3>1, <3>2 DEF OneProcess
  <2>3. Restorable(job[a].snap)'
    BY <1>1, <2>1, <2>2 DEF Restorable, BlobsOf, LayerOf, TreeOf
  <2>4. CompleteJob(a)'
    BY <1>1, <2>1, <2>3 DEF CompleteJob
  <2> QED
    BY <1>1, <2>1, <2>4, CompleteSame
<1>5. ASSUME NEW d, NEW t \in Mounted, Mount(a, d, t)
      PROVE  CompleteInv'
  <2>1. UNCHANGED <<pc, job>> /\ Mounted # {}
    BY <1>5 DEF Mount
  <2>2. CompleteJob(a)'
    BY <1>1, <2>1, JobFacts DEF CompleteJob
  <2> QED
    BY <1>1, <2>1, <2>2, CompleteSame
<1>6. ASSUME NEW d, NEW t \in Targets, NEW p \in Policies, Compact(a, d, t, p)
      PROVE  CompleteInv'
  <2>1. /\ UNCHANGED mount /\ pc'[a] = "scan" /\ job'[a].parent = None
        /\ job'[a].pruneLocal = p.pruneLocal
    BY <1>6 DEF Compact, Start, IdleJob, TypeInv, TypeOK
  <2>2. CompleteJob(a)'
    BY <1>1, <2>1 DEF CompleteJob, NoPrune
  <2> QED
    BY <1>1, <2>1, <2>2, CompleteSame
<1> QED
  BY <1>3, <1>4, <1>5, <1>6 DEF Command

LEMMA ComposeComplete ==
    ASSUME OneProcess, TypeInv, CompleteInv, NEW a \in Actors, Compose(a)
    PROVE  CompleteInv'
<1>1. PICK d \in Digests :
      /\ d = Len(images) + 1 /\ d \notin Known
      /\ Known' = Known \cup {d}
      /\ \A c \in Known : images'[c] = images[c]
      /\ images'[d].parent = job[a].parent
      /\ images'[d].chain = Ancestors(job[a].parent) \cup {d}
      /\ images'[d].tree = Scanned(job[a])
      /\ Ancestors(job[a].parent) \subseteq Known
  BY ComposeFacts
<1>2. /\ UNCHANGED <<whole, torn, refs, mount>> /\ pc'[a] = "write" /\ pc[a] = "scan"
      /\ job'[a].snap = d /\ job'[a].pruneLocal = job[a].pruneLocal
      /\ job'[a].todo = <<Layer(TreeOf(job[a].parent), Scanned(job[a])), Config(d),
                          Manifest(d)>>
      /\ job[a].parent = None \/ Loads(job[a].parent)
  BY <1>1, Typed DEF Compose, TypeInv, TypeOK, Job
<1>3. torn = {} /\ Manifest(d) \notin whole /\ CompleteJob(a)
  BY <1>1, <1>2, JobFacts DEF CompleteInv
<1>4. /\ \A c \in Known : BlobsOf(c)' = BlobsOf(c) /\ images'[c].chain \subseteq Known
      /\ \A c : Loads(c)' = Loads(c)
  BY <1>1, <1>2, BlobsStable DEF TypeInv, ImagesLinked, Loads
<1>5. \A e \in Known : Restorable(e) => Restorable(e)'
  BY <1>1, <1>2, <1>4 DEF Restorable
<1>6. RefsComplete'
  <2> SUFFICES ASSUME NEW n \in Names, refs[n] # None
               PROVE  \A c \in images'[refs[n]].chain : BlobsOf(c)' \subseteq whole'
    BY <1>2 DEF RefsComplete, Restorable
  <2>1. refs[n] \in Known /\ Restorable(refs[n])
    BY DEF TypeInv, RefsLinked, KnownOrNone, CompleteInv, RefsComplete
  <2> QED
    BY <1>5, <2>1 DEF Restorable
<1>7. \A e \in Digests : Manifest(e) \in whole' => e \in Known'
  BY <1>1, <1>2 DEF CompleteInv
<1>8. NoPrune => \A e \in Known' : Loads(e)' => Restorable(e)'
  <2>1. ~Loads(d)
    BY <1>3 DEF Loads
  <2> QED
    BY <1>1, <1>4, <1>5, <2>1 DEF CompleteInv
<1>9. CompleteJob(a)'
  <2>1. job[a].parent \in KnownOrNone /\ job[a].parent # d
    BY <1>1, NumberFacts DEF TypeInv, JobLinked, KnownOrNone
  <2>2. LayerOf(d)' = Layer(TreeOf(job[a].parent), Scanned(job[a]))
    BY <1>1, <2>1 DEF LayerOf, TreeOf, KnownOrNone
  <2>3. Shape(job[a].snap, job[a].todo, whole)'
    BY <1>2, <2>2 DEF Shape
  <2>4. \A c \in Ancestors(job[a].parent) : BlobsOf(c) \subseteq whole
    BY <1>2, <1>3 DEF Ancestors, CompleteJob, Restorable
  <2>5. \A c \in images'[d].chain \ {d} : BlobsOf(c)' \subseteq whole'
    BY <1>1, <1>2, <1>4, <2>4
  <2> QED
    BY <1>2, <1>3, <2>3, <2>5 DEF CompleteJob
<1>10. \A b \in Actors : CompleteJob(b)'
  BY <1>9 DEF OneProcess
<1>11. Mounted = {} => \A t \in Targets : mount'[t] = None
  BY <1>2 DEF CompleteInv
<1> QED
  BY <1>6, <1>7, <1>8, <1>10, <1>11 DEF CompleteInv

(* Writing a blob. *)
LEMMA FillComplete ==
    ASSUME OneProcess, TypeInv, CompleteInv, NEW a \in Actors, FillBlob(a)
    PROVE  CompleteInv'
<1>0. PICK d, blob : d = job[a].snap /\ blob = Head(job[a].todo)
  OBVIOUS
<1>1. /\ pc[a] = "fill" /\ pc'[a] = "write" /\ UNCHANGED <<images, refs, mount>>
      /\ job'[a].snap = d /\ job'[a].todo = Tail(job[a].todo)
      /\ job'[a].pruneLocal = job[a].pruneLocal
  BY <1>0, Typed DEF FillBlob, TypeInv, TypeOK, Job
<1>2. /\ CompleteJob(a) /\ torn = {blob}
      /\ d \in Known /\ d \in images[d].chain /\ images[d].chain \subseteq Known
      /\ job[a].todo # <<>> /\ d \in Digests
  BY <1>0, <1>1, JobFacts DEF CompleteJob
<1>3. torn' = {} /\ whole' = whole \cup {blob}
  BY <1>0, <1>1, <1>2 DEF FillBlob, Filling, OneProcess
<1>4. /\ Shape(d, job[a].todo, whole) /\ Manifest(d) \notin whole
      /\ \A c \in images[d].chain \ {d} : BlobsOf(c) \subseteq whole
  BY <1>0, <1>1, <1>2 DEF CompleteJob
<1>5. /\ blob \in BlobsOf(d)
      /\ blob = Manifest(d) => BlobsOf(d) \subseteq whole \cup {Manifest(d)}
      /\ blob = Manifest(d) <=> Tail(job[a].todo) = <<>>
  BY <1>0, <1>2, <1>4, ShapeHead
<1>6. Known' = Known /\ \A c : BlobsOf(c)' = BlobsOf(c) /\ LayerOf(c)' = LayerOf(c)
  BY <1>1 DEF BlobsOf, LayerOf, TreeOf, Known
<1>7. \A e \in Known : Restorable(e) => Restorable(e)'
  BY <1>1, <1>3, <1>6 DEF Restorable
<1>8. RefsComplete'
  <2> SUFFICES ASSUME NEW n \in Names, refs[n] # None
               PROVE  \A c \in images'[refs[n]].chain : BlobsOf(c)' \subseteq whole'
    BY <1>1 DEF RefsComplete, Restorable
  <2>1. refs[n] \in Known /\ Restorable(refs[n])
    BY DEF TypeInv, RefsLinked, KnownOrNone, CompleteInv, RefsComplete
  <2> QED
    BY <1>7, <2>1 DEF Restorable
<1>9. \A e \in Digests : Manifest(e) \in whole' => e \in Known'
  <2>1. \A e \in Digests : Manifest(e) = blob => e = d
    BY <1>5, BlobsDiffer DEF BlobsOf, LayerOf
  <2> QED
    BY <1>2, <1>3, <1>6, <2>1 DEF CompleteInv
<1>10. blob = Manifest(d) => Restorable(d)'
  <2>1. ASSUME blob = Manifest(d), NEW c \in images[d].chain
        PROVE  BlobsOf(c)' \subseteq whole'
    BY <1>3, <1>4, <1>5, <1>6, <2>1
  <2> QED
    BY <1>1, <2>1 DEF Restorable
<1>11. NoPrune => \A e \in Known' : Loads(e)' => Restorable(e)'
  <2> SUFFICES ASSUME NoPrune, NEW e \in Known, Loads(e)'
               PROVE  Restorable(e)'
    BY <1>6
  <2>1. CASE Loads(e)
    BY <1>7, <2>1 DEF CompleteInv
  <2>2. CASE ~Loads(e)
    <3>1. blob \in {Manifest(e), Config(e)} /\ {Manifest(e), Config(e)} \subseteq whole \cup {blob}
      BY <1>3, <2>2 DEF Loads
    <3>2. e = d
      BY <1>5, <3>1, BlobsDiffer DEF BlobsOf, LayerOf, Config, Manifest, Layer
    <3>3. blob = Manifest(d)
      BY <1>4, <3>1, <3>2
    <3> QED
      BY <1>10, <3>2, <3>3
  <2> QED
    BY <2>1, <2>2
<1>12. CompleteJob(a)'
  <2>1. Shape(d, Tail(job[a].todo), whole')
    BY <1>0, <1>2, <1>3, <1>4, ShapeTail
  <2>2. Shape(job[a].snap, job[a].todo, whole)'
    BY <1>1, <1>6, <2>1 DEF Shape
  <2>3. \A c \in images'[d].chain \ {d} : BlobsOf(c)' \subseteq whole'
    BY <1>1, <1>3, <1>4, <1>6
  <2>4. Tail(job[a].todo) # <<>> => Manifest(d) \notin whole'
    BY <1>3, <1>4, <1>5
  <2>5. NoPrune => ~job[a].pruneLocal
    BY <1>2 DEF CompleteJob
  <2> QED
    BY <1>0, <1>1, <1>3, <2>2, <2>3, <2>4, <2>5 DEF CompleteJob
<1>13. \A b \in Actors : CompleteJob(b)'
  BY <1>12 DEF OneProcess
<1>14. Mounted = {} => \A t \in Targets : mount'[t] = None
  BY <1>1 DEF CompleteInv
<1> QED
  BY <1>8, <1>9, <1>11, <1>13, <1>14 DEF CompleteInv

(* Removing a blob that no ref leads to. *)
LEMMA RemoveBlobComplete ==
    ASSUME OneProcess, TypeInv, CompleteInv, NEW a \in Actors,
           NEW blob \in job[a].sweep, RemoveBlob(a, blob)
    PROVE  CompleteInv'
<1>1. /\ pc[a] = "sweep" /\ pc'[a] = "sweep" /\ UNCHANGED <<images, refs, mount>>
      /\ whole' = whole \ {blob} /\ torn' = torn \ {blob}
      /\ job'[a].sweep = job[a].sweep \ {blob}
  BY Typed DEF RemoveBlob, TypeInv, TypeOK, Job
<1>2. CompleteJob(a) /\ torn = {} /\ Spared(job[a].sweep) /\ ~NoPrune
  BY <1>1, JobFacts DEF CompleteJob
<1>3. Known' = Known /\ \A c : BlobsOf(c)' = BlobsOf(c)
  BY <1>1 DEF BlobsOf, LayerOf, TreeOf, Known
<1>4. RefsComplete'
  <2> SUFFICES ASSUME NEW n \in Names, refs[n] # None, NEW c \in images[refs[n]].chain
               PROVE  BlobsOf(c)' \subseteq whole'
    BY <1>1 DEF RefsComplete, Restorable
  <2>1. BlobsOf(c) \subseteq whole /\ blob \notin BlobsOf(c)
    BY <1>2 DEF CompleteInv, RefsComplete, Restorable, Spared
  <2> QED
    BY <1>1, <1>3, <2>1
<1>5. \A e \in Digests : Manifest(e) \in whole' => e \in Known'
  BY <1>1, <1>3 DEF CompleteInv
<1>6. Spared(job[a].sweep)'
  BY <1>1, <1>2, <1>3 DEF Spared
<1>7. \A b \in Actors : CompleteJob(b)'
  BY <1>1, <1>2, <1>6 DEF OneProcess, CompleteJob
<1>8. Mounted = {} => \A t \in Targets : mount'[t] = None
  BY <1>1 DEF CompleteInv
<1> QED
  BY <1>2, <1>4, <1>5, <1>7, <1>8 DEF CompleteInv

(* The steps that write or find a blob's file without completing it. *)
LEMMA WriteComplete ==
    ASSUME OneProcess, TypeInv, CompleteInv, NEW a \in Actors,
           StatBlob(a) \/ CreateBlob(a) \/ SkipBlob(a)
    PROVE  CompleteInv'
<1>0. PICK d : d = job[a].snap
  OBVIOUS
<1>1. /\ UNCHANGED <<images, refs, mount>>
      /\ job'[a].snap = d /\ job'[a].pruneLocal = job[a].pruneLocal
      /\ pc[a] \in {"write", "create"} /\ job[a].todo # <<>>
  BY <1>0, Typed, JobFacts DEF StatBlob, CreateBlob, SkipBlob, Goto, TypeInv, TypeOK, Job
<1>2. /\ CompleteJob(a) /\ torn = {} /\ Shape(d, job[a].todo, whole)
      /\ Manifest(d) \notin whole
      /\ \A c \in images[d].chain \ {d} : BlobsOf(c) \subseteq whole
      /\ NoPrune => ~job[a].pruneLocal
  BY <1>0, <1>1, JobFacts DEF CompleteJob
<1>3. \A c : BlobsOf(c)' = BlobsOf(c) /\ LayerOf(c)' = LayerOf(c)
  BY <1>1 DEF BlobsOf, LayerOf, TreeOf
<1>4. /\ UNCHANGED whole
      /\ pc'[a] \in {"write", "create", "fill"}
      /\ torn' = IF pc'[a] = "fill" THEN {Head(job'[a].todo)} ELSE {}
      /\ pc'[a] = "create" => Head(job'[a].todo) \notin whole
      /\ \/ job'[a].todo = job[a].todo
         \/ job'[a].todo = Tail(job[a].todo) /\ Head(job[a].todo) \in whole
  <2>1. CASE StatBlob(a)
    BY <1>2, <2>1 DEF StatBlob, Goto, TypeInv, TypeOK
  <2>2. CASE CreateBlob(a)
    <3>1. Head(job[a].todo) \notin whole
      BY <1>2, <2>2 DEF CreateBlob, CompleteJob
    <3> QED
      BY <1>2, <2>2, <3>1 DEF CreateBlob, Goto, TypeInv, TypeOK
  <2>3. CASE SkipBlob(a)
    BY <1>2, <2>3, Typed DEF SkipBlob, TypeInv, TypeOK, Job
  <2> QED
    BY <2>1, <2>2, <2>3
<1>5. Shape(d, job'[a].todo, whole)
  BY <1>1, <1>2, <1>4, ShapeTail
<1>6. Shape(job[a].snap, job[a].todo, whole)'
  BY <1>1, <1>3, <1>4, <1>5 DEF Shape
<1>7. \A c \in images'[d].chain \ {d} : BlobsOf(c)' \subseteq whole'
  BY <1>1, <1>2, <1>3, <1>4
<1>8. CompleteJob(a)'
  BY <1>1, <1>2, <1>4, <1>6, <1>7 DEF CompleteJob
<1> QED
  BY <1>1, <1>4, <1>8, CompleteSame

(* Publishing: all that the snapshot needs is in the store. *)
LEMMA PublishComplete ==
    ASSUME OneProcess, TypeInv, CompleteInv, NEW a \in Actors,
           SignSnapshot(a) \/ StartRefs(a) \/ \E n \in Names : WriteRef(a, n)
    PROVE  CompleteInv'
<1>0. PICK d : d = job[a].snap
  OBVIOUS
<1>1. /\ UNCHANGED <<images, whole, torn, mount>>
      /\ job'[a].snap = d /\ job'[a].pruneLocal = job[a].pruneLocal
      /\ job'[a].todo = job[a].todo
      /\ pc[a] \in {"write", "refs"} /\ pc'[a] \in {"write", "refs"}
      /\ pc[a] = "write" => job[a].todo = <<>>
      /\ pc'[a] = "write" => pc[a] = "write"
      /\ \A n \in Names : refs'[n] \in {refs[n], d}
  <2>1. CASE SignSnapshot(a)
    BY <1>0, <2>1, Typed DEF SignSnapshot, TypeInv, TypeOK, Job
  <2>2. CASE StartRefs(a)
    BY <1>0, <2>2 DEF StartRefs, Goto, TypeInv, TypeOK
  <2>3. CASE \E n \in Names : WriteRef(a, n)
    BY <1>0, <2>3, Typed DEF WriteRef, TypeInv, TypeOK, Job
  <2> QED
    BY <2>1, <2>2, <2>3
<1>2. /\ CompleteJob(a) /\ torn = {} /\ d \in Known
      /\ NoPrune => ~job[a].pruneLocal
      /\ pc[a] = "write" =>
            /\ Shape(d, job[a].todo, whole)
            /\ \A c \in images[d].chain \ {d} : BlobsOf(c) \subseteq whole
      /\ pc[a] = "refs" => Restorable(d)
  BY <1>0, <1>1, JobFacts DEF CompleteJob
<1>3. Restorable(d)
  <2>1. CASE pc[a] = "write"
    <3>0. Shape(d, <<>>, whole)
      BY <1>1, <1>2, <2>1
    <3>1. BlobsOf(d) \subseteq whole
      BY <3>0 DEF Shape
    <3> QED
      BY <1>2, <2>1, <3>1 DEF Restorable
  <2> QED
    BY <1>1, <1>2, <2>1
<1>4. \A c : BlobsOf(c)' = BlobsOf(c) /\ LayerOf(c)' = LayerOf(c)
  BY <1>1 DEF BlobsOf, LayerOf, TreeOf
<1>5. \A c \in images'[d].chain : BlobsOf(c)' \subseteq whole'
  BY <1>1, <1>3, <1>4 DEF Restorable
<1>6. Restorable(job[a].snap)'
  BY <1>1, <1>5 DEF Restorable
<1>7. pc'[a] = "write" => Shape(job[a].snap, job[a].todo, whole)'
  BY <1>1, <1>2, <1>4 DEF Shape
<1>8. pc'[a] = "write" => job'[a].todo = <<>>
  BY <1>1
<1>9. NoPrune => ~job'[a].pruneLocal
  BY <1>1, <1>2 DEF CompleteJob
<1>10. CompleteJob(a)'
  BY <1>1, <1>2, <1>5, <1>6, <1>7, <1>8, <1>9 DEF CompleteJob
<1> QED
  BY <1>1, <1>2, <1>3, <1>10, CompleteSame

(* Marking: the chains of all refs load, so nothing of them is swept. *)
LEMMA MarkComplete ==
    ASSUME OneProcess, TypeInv, CompleteInv, NEW a \in Actors, Mark(a)
    PROVE  CompleteInv'
<1>1. /\ UNCHANGED <<images, whole, torn, refs, mount>>
      /\ pc[a] = "unref" /\ pc'[a] = "sweep"
      /\ job'[a].sweep = job[a].sweep \ reachableBlobDigests
      /\ job'[a].pruneLocal = job[a].pruneLocal
  BY Typed DEF Mark, TypeInv, TypeOK, Job
<1>2. CompleteJob(a) /\ torn = {} /\ ~NoPrune
  BY <1>1, JobFacts DEF CompleteJob
<1>3. ASSUME NEW n \in Names, refs[n] # None, NEW c \in images[refs[n]].chain
      PROVE  BlobsOf(c) \cap job'[a].sweep = {}
  <2>1. ChainLoads(refs[n])
    BY <1>3 DEF CompleteInv, RefsComplete, Restorable, ChainLoads, Loads, BlobsOf
  <2>2. BlobsOf(c) \subseteq reachableBlobDigests
    BY <1>3, <2>1 DEF reachableBlobDigests
  <2> QED
    BY <1>1, <2>2
<1>4. \A c : BlobsOf(c)' = BlobsOf(c)
  BY <1>1 DEF BlobsOf, LayerOf, TreeOf
<1>5. Spared(job[a].sweep)'
  BY <1>1, <1>3, <1>4 DEF Spared
<1>6. CompleteJob(a)'
  BY <1>1, <1>2, <1>5 DEF CompleteJob
<1> QED
  BY <1>1, <1>6, CompleteSame

LEMMA StepComplete ==
    ASSUME OneProcess, TypeInv, CompleteInv, NEW a \in Actors, Step(a)
    PROVE  CompleteInv'
<1>1. CASE \/ ParentMissing(a) \/ SignFails(a) \/ RefsRejected(a) \/ RefsWritten(a)
           \/ Pruned(a) \/ Crash(a)
  <2>1. /\ UNCHANGED <<images, whole, torn, refs, mount>> /\ pc[a] # "fill"
        /\ \/ pc'[a] = "idle" /\ ~job'[a].pruneLocal
           \/ pc'[a] = "prune" /\ job[a].pruneLocal
    BY <1>1 DEF ParentMissing, SignFails, RefsRejected, RefsWritten, Pruned, Crash, Goto,
                Finish, IdleJob, TypeInv, TypeOK, OneProcess
  <2>2. torn = {} /\ (NoPrune => ~job[a].pruneLocal)
    BY <2>1, JobFacts DEF CompleteJob
  <2>3. CompleteJob(a)'
    BY <2>1, <2>2 DEF CompleteJob
  <2> QED
    BY <2>1, <2>3, CompleteSame
<1>2. CASE ListCandidates(a) \/ \E n \in Names : RemoveRef(a, n)
  <2>1. /\ UNCHANGED <<images, whole, torn, mount>> /\ pc[a] \in {"prune", "unref"}
        /\ pc'[a] = "unref"
        /\ \A n \in Names : refs'[n] \in {refs[n], None}
    BY <1>2 DEF ListCandidates, RemoveRef, TypeInv, TypeOK
  <2>2. torn = {} /\ ~NoPrune
    BY <2>1, JobFacts DEF CompleteJob
  <2>3. CompleteJob(a)'
    BY <2>1, <2>2 DEF CompleteJob
  <2> QED
    BY <2>1, <2>3, CompleteSame
<1> QED
  BY <1>1, <1>2, ComposeComplete, WriteComplete, FillComplete, PublishComplete,
     MarkComplete, RemoveBlobComplete DEF Step

(* One process at a time, with failures and crashes between any two file   *)
(* operations (but not inside one), leaves every ref restorable, pruning   *)
(* included: blobs go in before refs, and pruneLocalSnapshots collects     *)
(* what the remaining refs lead to after it removed refs.  With mounts,    *)
(* or forks of digests, the theorem is about stores that are not pruned:   *)
(* the parent that a mount record names is not protected from pruning.     *)
THEOREM RefsStayComplete ==
    ASSUME OneProcess
    PROVE  Spec => []RefsComplete
<1>1. Init => TypeInv /\ CompleteInv
  <2> SUFFICES ASSUME Init PROVE CompleteInv
    BY TypeInit
  <2>1. Known = {}
    BY DEF Init, Known
  <2>2. \A a \in Actors : CompleteJob(a)
    BY DEF Init, CompleteJob, IdleJob
  <2> QED
    BY <2>1, <2>2 DEF Init, CompleteInv, RefsComplete
<1>2. TypeInv /\ CompleteInv /\ [Next]_vars => (TypeInv /\ CompleteInv)'
  <2> SUFFICES ASSUME TypeInv, CompleteInv, [Next]_vars
               PROVE  CompleteInv'
    BY TypeStep
  <2>1. CASE UNCHANGED <<images, whole, torn, refs, mount, pc, job>>
    <3>1. \A c : BlobsOf(c)' = BlobsOf(c) /\ Loads(c)' = Loads(c) /\ LayerOf(c)' = LayerOf(c)
      BY <2>1 DEF BlobsOf, LayerOf, TreeOf, Loads
    <3>2. \A c : Restorable(c)' = Restorable(c)
      BY <2>1, <3>1 DEF Restorable
    <3> QED
      BY <2>1, <3>1, <3>2 DEF CompleteInv, RefsComplete, Known, CompleteJob, Shape, Spared,
         Restorable, Loads
  <2>2. CASE \E a \in Actors : Command(a) \/ Step(a)
    BY <2>2, CommandComplete, StepComplete
  <2> QED
    BY <2>1, <2>2 DEF Next, AgentWrites, vars
<1>3. CompleteInv => RefsComplete
  BY DEF CompleteInv
<1> QED
  BY <1>1, <1>2, <1>3, PTL DEF Spec
=============================================================================
