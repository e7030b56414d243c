------------------------------ MODULE Registry ------------------------------
(***************************************************************************)
(* The registry client (internal/osix/registry.go): PushSnapshotWithOptions*)
(* with the expected-parent check, the referrers of each snapshot and the  *)
(* remote prune of a compacted watch, and PullSnapshotWithOptions, all     *)
(* against one repository.  Every request is a step of its own; a request  *)
(* can fail, and the answer to one that took effect can be lost.           *)
(*                                                                         *)
(* A snapshot stands for its manifest digest and for its ID, a branch for  *)
(* any other tag.  Content is addressed by digest, so a blob is named by   *)
(* the snapshot and the part it is of.  Credentials and the token exchange *)
(* are part of whether a request fails.                                    *)
(***************************************************************************)
EXTENDS Integers, Sequences

CONSTANTS
    Pushers,        \* processes that push, each from a store of its own
    Snapshots,
    Branches,       \* tags that are not snapshot IDs
    None,           \* no digest, no expected parent, no request
    Chain,          \* snapshotChainWithDigests: from the root to the snapshot
    Requests,       \* the pushes of each process, in order
    MaxPulls,       \* bound on the pulls
    MaxFaults       \* bound on requests that fail or whose answer is lost

(* Referrers of a snapshot: osix stands for the signature and the          *)
(* provenance, sig and att for the two Sigstore bundles.                   *)
Bundles == {"sig", "att"}
Kinds == {"osix", "cosign", "lazy"} \cup Bundles
Referrers == Snapshots \X Kinds

Request == [snap : Snapshots, tags : Seq(Branches), expected : Snapshots \cup {None},
            referrers : SUBSET Referrers, prune : Seq(Snapshots)]

(* A chain ends with its snapshot, which is not its own ancestor.  What a  *)
(* compaction prunes is older than the checkpoint that it pushes.          *)
ASSUME RegistryConstants ==
    /\ None \notin Snapshots \cup Branches /\ Snapshots \cap Branches = {}
    /\ Chain \in [Snapshots -> Seq(Snapshots)]
    /\ \A s \in Snapshots :
         /\ Len(Chain[s]) > 0
         /\ \A i \in 1..Len(Chain[s]) : Chain[s][i] = s <=> i = Len(Chain[s])
    /\ Requests \in [Pushers -> Seq(Request)]
    /\ \A p \in Pushers : \A i \in 1..Len(Requests[p]) :
         \A j \in 1..Len(Requests[p][i].prune) :
            Requests[p][i].prune[j] # Requests[p][i].snap
    /\ {MaxPulls, MaxFaults} \subseteq Nat

VARIABLES
    \* the repository
    blobs, manifests, tags,
    listed,     \* referrer manifests, which the referrers API lists
    attached,   \* referrers that their own tag leads to
    index,      \* the index behind the Sigstore referrers tag
    \* the pushes
    current,    \* the push of each process that runs, or ran last
    todo,       \* requests that it still has to make
    result,     \* how the last push ended
    seen,       \* the index that putReferrersTag has read
    passed,     \* history: the tag check of this push has passed once
    moved,      \* history: tags that others moved since this push began
    \* the store that pulls
    pull, have, refs, localTag, pulled,
    owed,       \* history: referrers that are published since the pull began
    pulls, faults

repository == <<blobs, manifests, tags, listed, attached, index>>
pushes == <<current, todo, result, seen, passed, moved>>
local == <<pull, have, refs, localTag, pulled, owed>>
vars == <<repository, pushes, local, pulls, faults>>

(* A request carries its place in the order of all: the snapshot of the    *)
(* chain, the stage within it and the turn within the stage.               *)
Place == Nat \X Nat \X Nat
Earlier(a, b) ==
    \/ a[1] < b[1]
    \/ a[1] = b[1] /\ (a[2] < b[2] \/ (a[2] = b[2] /\ a[3] < b[3]))
First(ops, o) == \A x \in ops : ~Earlier(x.at, o.at)

PushOp ==
    [op : {"check"}, tag : Branches, at : Place]
    \cup [op : {"blobs"}, of : SUBSET (Snapshots \X (Kinds \cup {"config", "layer"})), at : Place]
    \cup [op : {"tag"}, of : Snapshots, tag : Branches \cup Snapshots, at : Place]
    \cup [op : {"referrer", "attach"}, of : Referrers, at : Place]
    \cup [op : {"readIndex", "putIndex"}, of : Snapshots, add : SUBSET Bundles, at : Place]
    \cup [op : {"delete"}, of : Snapshots, at : Place]
PullOp ==
    [op : {"resolve"}, of : Branches, at : Place]
    \cup [op : {"config", "layer", "source", "ID", "parent", "list", "tagged", "localTag"},
          of : Snapshots, at : Place]

(* Types; and a referrer that the API lists, a tag leads to or the index   *)
(* names has its blob and, but for cosign, its manifest in the registry.   *)
TypeOK ==
    /\ \A s \in Snapshots, k \in Kinds :
        /\ <<s, k>> \in listed \cup attached => <<s, k>> \in blobs
        /\ k \in index[s] => <<s, k>> \in listed
    /\ blobs \subseteq Snapshots \X (Kinds \cup {"config", "layer"})
    /\ manifests \subseteq Snapshots
    /\ tags \in [Branches \cup Snapshots -> Snapshots \cup {None}]
    /\ listed \subseteq Referrers /\ attached \subseteq Referrers
    /\ index \in [Snapshots -> SUBSET Bundles]
    /\ current \in [Pushers -> Nat]
    /\ \A p \in Pushers : current[p] <= Len(Requests[p])
    /\ todo \in [Pushers -> SUBSET PushOp]
    /\ result \in [Pushers -> {"none", "ok", "failed", "conflict"}]
    /\ seen \in [Pushers -> SUBSET Bundles]
    /\ passed \subseteq Pushers
    /\ moved \in [Pushers -> SUBSET Branches]
    /\ pull \subseteq PullOp
    /\ have \subseteq Snapshots \X (Kinds \cup {"manifest", "config", "layer", "source"})
    /\ refs \subseteq Snapshots /\ localTag \in Snapshots \cup {None}
    /\ pulled \in BOOLEAN
    /\ owed \subseteq Referrers
    /\ pulls \in 0..MaxPulls /\ faults \in 0..MaxFaults

Init ==
    /\ blobs = {} /\ manifests = {} /\ listed = {} /\ attached = {}
    /\ tags = [t \in Branches \cup Snapshots |-> None]
    /\ index = [s \in Snapshots |-> {}]
    /\ current = [p \in Pushers |-> 0] /\ todo = [p \in Pushers |-> {}]
    /\ result = [p \in Pushers |-> "none"] /\ seen = [p \in Pushers |-> {}]
    /\ passed = {} /\ moved = [p \in Pushers |-> {}]
    /\ pull = {} /\ have = {} /\ refs = {} /\ localTag = None /\ pulled = FALSE
    /\ owed = {}
    /\ pulls = 0 /\ faults = 0

-----------------------------------------------------------------------------
(* What a push asks of the registry.  Mutant of Checks: the head is pushed *)
(* without looking at its tags.                                            *)
ChecksNothing(r) == {}

(* checkRemoteTagPreconditions, before anything is uploaded. *)
Checks(r) ==
    IF r.expected = None THEN {}
    ELSE {[op |-> "check", tag |-> r.tags[j], at |-> <<0, 0, j>>] : j \in 1..Len(r.tags)}

(* pushSnapshotReferrers: the referrers of a snapshot in this order; stage *)
(* 7 is the one update of the index for both bundles.                      *)
Stage == [osix |-> 3, cosign |-> 4, sig |-> 5, att |-> 6, lazy |-> 8]

(* Mutant of ReferrerOps: the blob comes last. *)
ReferrerBlobLast(s, k, item) ==
    {[op |-> "blobs", of |-> {<<s, k>>}, at |-> <<item, Stage[k], 4>>]}
    \cup (IF k = "cosign" THEN {}
          ELSE {[op |-> "referrer", of |-> <<s, k>>, at |-> <<item, Stage[k], 2>>]})
    \cup (IF k \in Bundles THEN {}
          ELSE {[op |-> "attach", of |-> <<s, k>>, at |-> <<item, Stage[k], 3>>]})

(* The referrer manifest is put by digest and then, but for the bundles,   *)
(* under a tag; the cosign manifest has no subject and only a tag.         *)
ReferrerOps(s, k, item) ==
    {[op |-> "blobs", of |-> {<<s, k>>}, at |-> <<item, Stage[k], 1>>]}
    \cup (IF k = "cosign" THEN {}
          ELSE {[op |-> "referrer", of |-> <<s, k>>, at |-> <<item, Stage[k], 2>>]})
    \cup (IF k \in Bundles THEN {}
          ELSE {[op |-> "attach", of |-> <<s, k>>, at |-> <<item, Stage[k], 3>>]})

IndexOps(s, add, item) ==
    IF add = {} THEN {}
    ELSE {[op |-> "readIndex", of |-> s, add |-> add, at |-> <<item, 7, 1>>],
          [op |-> "putIndex", of |-> s, add |-> add, at |-> <<item, 7, 2>>]}

PushReferrers(s, referrers, item) ==
    LET some == {k \in Kinds : <<s, k>> \in referrers}
    IN  (UNION {ReferrerOps(s, k, item) : k \in some})
        \cup IndexOps(s, some \cap Bundles, item)

(* One snapshot of the chain: its blobs, its manifest under its ID, for    *)
(* the head also under the other tags, and its referrers.                  *)
PushItem(r, s, item) ==
    LET Put(tag, j) == [op |-> "tag", of |-> s, tag |-> tag, at |-> <<item, 2, j>>]
    IN  {[op |-> "blobs", of |-> {s} \X {"config", "layer"}, at |-> <<item, 1, 0>>],
         Put(s, 0)}
        \cup (IF s = r.snap THEN {Put(r.tags[j], j) : j \in 1..Len(r.tags)} ELSE {})
        \cup PushReferrers(s, r.referrers, item)

(* Mutant of PushChain: from the head to the root. *)
PushHeadFirst(r) ==
    LET n == Len(Chain[r.snap])
    IN  UNION {PushItem(r, Chain[r.snap][i], n + 1 - i) : i \in 1..n}

PushChain(r) ==
    UNION {PushItem(r, Chain[r.snap][i], i) : i \in 1..Len(Chain[r.snap])}

(* maybeCompactWatchSnapshot prunes when the checkpoint has been pushed. *)
PruneOps(r) ==
    {[op |-> "delete", of |-> r.prune[j], at |-> <<Len(Chain[r.snap]) + 1, 0, j>>] :
        j \in 1..Len(r.prune)}

PushPlan(r) == Checks(r) \cup PushChain(r) \cup PruneOps(r)

Pushing(p) == Requests[p][current[p]]

(* The next push, or the one that failed once more. *)
PushStart(p) ==
    /\ todo[p] = {}
    /\ current' = [current EXCEPT ![p] = IF result[p] = "failed" THEN @ ELSE @ + 1]
    /\ current'[p] <= Len(Requests[p])
    /\ todo' = [todo EXCEPT ![p] = PushPlan(Requests[p][current'[p]])]
    /\ IF result[p] = "failed" THEN UNCHANGED <<passed, moved>>
       ELSE passed' = passed \ {p} /\ moved' = [moved EXCEPT ![p] = {}]
    /\ result' = [result EXCEPT ![p] = "none"]
    /\ UNCHANGED <<repository, seen, local, pulls, faults>>

-----------------------------------------------------------------------------
(* What a request does to the repository.  Blobs are uploaded unless they  *)
(* are there (putBlob); nobody looks for them before a manifest names them.*)
PutBlobs(o) ==
    /\ o.op = "blobs"
    /\ blobs' = blobs \cup o.of
    /\ UNCHANGED <<manifests, tags, listed, attached, index, moved, seen, owed>>

Others(p, changed) ==
    moved' = [q \in Pushers |-> IF q = p THEN moved[q] ELSE moved[q] \cup changed]

(* putManifest under an ID or a tag. *)
PutTag(p, o) ==
    /\ o.op = "tag"
    /\ manifests' = manifests \cup {o.of}
    /\ tags' = [tags EXCEPT ![o.tag] = o.of]
    /\ Others(p, {o.tag} \cap Branches)
    /\ UNCHANGED <<blobs, listed, attached, index, seen, owed>>

PutReferrer(o) ==
    /\ o.op = "referrer"
    /\ listed' = listed \cup {o.of}
    /\ UNCHANGED <<blobs, manifests, tags, attached, index, moved, seen, owed>>

AttachReferrer(o) ==
    /\ o.op = "attach"
    /\ attached' = attached \cup {o.of}
    /\ UNCHANGED <<blobs, manifests, tags, listed, index, moved, seen, owed>>

(* putReferrersTag reads the index and writes it with its own added. *)
ReadIndex(p, o) ==
    /\ o.op = "readIndex"
    /\ seen' = [seen EXCEPT ![p] = index[o.of]]
    /\ UNCHANGED <<blobs, manifests, tags, listed, attached, index, moved, owed>>

(* Mutant of Merge: the index is replaced by the own bundles. *)
MergeNothing(existing, add) == add

Merge(existing, add) == existing \cup add

PutIndex(p, o) ==
    /\ o.op = "putIndex"
    /\ index' = [index EXCEPT ![o.of] = Merge(seen[p], o.add)]
    /\ owed' = IF seen[p] = index[o.of] THEN owed
               ELSE owed \ ({o.of} \X (Bundles \ index'[o.of]))
    /\ UNCHANGED <<blobs, manifests, tags, listed, attached, moved, seen>>

(* deleteManifest; the registry drops the tags of a deleted manifest.      *)
(* "not found" is not an error here.                                       *)
DeleteManifest(p, o) ==
    /\ o.op = "delete"
    /\ manifests' = manifests \ {o.of}
    /\ tags' = [t \in DOMAIN tags |-> IF tags[t] = o.of THEN None ELSE tags[t]]
    /\ Others(p, {t \in Branches : tags[t] = o.of})
    /\ UNCHANGED <<blobs, listed, attached, index, seen, owed>>

Apply(p, o) ==
    \/ PutBlobs(o) \/ PutTag(p, o) \/ PutReferrer(o) \/ AttachReferrer(o)
    \/ ReadIndex(p, o) \/ PutIndex(p, o) \/ DeleteManifest(p, o)

Due(p, o) == o \in todo[p] /\ First(todo[p], o)
Made(p, o) == todo' = [todo EXCEPT ![p] = @ \ {o}]

Ends(p, how) ==
    /\ todo' = [todo EXCEPT ![p] = {}]
    /\ result' = [result EXCEPT ![p] = how]

PushRequest(p) ==
    /\ \E o \in todo[p] : Due(p, o) /\ Apply(p, o) /\ Made(p, o)
    /\ result' = IF todo'[p] = {} THEN [result EXCEPT ![p] = "ok"] ELSE result
    /\ UNCHANGED <<current, passed, pull, have, refs, localTag, pulled, pulls, faults>>

(* Mutant of Acceptable: only the expected parent will do. *)
OnlyExpected(r, digest) == digest = r.expected

(* A tag may be the expected parent, or have been moved to the head before. *)
Acceptable(r, digest) == digest \in {r.snap, r.expected}

(* The current digest of a tag is read; a tag that is missing, or another  *)
(* snapshot, is a RemoteBranchConflictError.                               *)
CheckTag(p) ==
    /\ \E o \in todo[p] :
        /\ o.op = "check" /\ Due(p, o)
        /\ IF Acceptable(Pushing(p), tags[o.tag])
           THEN /\ Made(p, o) /\ UNCHANGED result
                /\ passed' = IF \E x \in todo'[p] : x.op = "check" THEN passed
                             ELSE passed \cup {p}
           ELSE Ends(p, "conflict") /\ UNCHANGED passed
    /\ UNCHANGED <<repository, current, seen, moved, local, pulls, faults>>

-----------------------------------------------------------------------------
(* The request fails without effect, or its answer is lost: the push ends  *)
(* with an error either way.                                               *)
PushFails(p) ==
    /\ faults < MaxFaults
    /\ faults' = faults + 1
    /\ \E o \in todo[p] :
        /\ Due(p, o)
        /\ Apply(p, o) \/ UNCHANGED <<repository, moved, seen, owed>>
    /\ Ends(p, "failed")
    /\ UNCHANGED <<current, passed, pull, have, refs, localTag, pulled, pulls>>

-----------------------------------------------------------------------------
(* The last request of a referrer has been made. *)
Published(s, k) == IF k \in Bundles THEN k \in index[s] ELSE <<s, k>> \in attached

(* pullManifestRecursive: a snapshot's config, layers and ID ref, then the *)
(* parent, and the referrers when the parent is complete; at the end the   *)
(* local tag.                                                              *)
PullOf(op, s, at) == [op |-> op, of |-> s, at |-> at]

PullSnapshot(s, lazy, turn) ==
    {PullOf("config", s, <<1, turn, 1>>),
     PullOf(IF lazy THEN "source" ELSE "layer", s, <<1, turn, 2>>),
     PullOf("ID", s, <<1, turn, 3>>)}

PullChain(s, lazy) ==
    LET n == Len(Chain[s])
    IN  (UNION {PullSnapshot(Chain[s][i], lazy, n - i) : i \in 1..n})
        \cup {PullOf("parent", Chain[s][i], <<1, n - i, 0>>) : i \in 1..(n - 1)}
        \cup {PullOf("list", Chain[s][i], <<2, i, 1>>) : i \in 1..n}
        \cup {PullOf("tagged", Chain[s][i], <<2, i, 2>>) : i \in 1..n}

(* Mutant of PullPlan: the local tag is written when the head is there. *)
PullTagFirst(s, lazy) == PullChain(s, lazy) \cup {PullOf("localTag", s, <<1, 0, 4>>)}

PullPlan(s, lazy) == PullChain(s, lazy) \cup {PullOf("localTag", s, <<3, 0, 0>>)}

PullStart(t) ==
    /\ pull = {}
    /\ pulls < MaxPulls
    /\ pulls' = pulls + 1
    /\ pull' = {PullOf("resolve", t, <<0, 0, 0>>)}
    /\ pulled' = FALSE
    /\ owed' = {x \in Referrers : Published(x[1], x[2])}
    /\ UNCHANGED <<repository, pushes, have, refs, localTag, faults>>

PullDue(o) == First(pull, o)

(* The manifest of the tag, and with it the digests of the whole pull. *)
PullResolve(lazy) ==
    /\ \E o \in pull :
        /\ o.op = "resolve" /\ PullDue(o) /\ tags[o.of] # None
        /\ have' = have \cup {<<tags[o.of], "manifest">>}
        /\ pull' = PullPlan(tags[o.of], lazy)
    /\ UNCHANGED <<repository, pushes, refs, localTag, pulled, owed, pulls, faults>>

(* getManifest by digest and getBlob, each written to the store. *)
PullGet ==
    /\ \E o \in pull :
        /\ \/ /\ o.op = "parent" /\ o.of \in manifests
              /\ have' = have \cup {<<o.of, "manifest">>}
           \/ /\ o.op \in {"config", "layer"} /\ <<o.of, o.op>> \in blobs
              /\ have' = have \cup {<<o.of, o.op>>}
           \/ /\ o.op = "source"
              /\ have' = have \cup {<<o.of, "source">>}
        /\ PullDue(o) /\ pull' = pull \ {o}
    /\ UNCHANGED <<repository, pushes, refs, localTag, pulled, owed, pulls, faults>>

PullWriteRef ==
    /\ \E o \in pull :
        /\ \/ o.op = "ID" /\ refs' = refs \cup {o.of} /\ UNCHANGED localTag
           \/ o.op = "localTag" /\ localTag' = o.of /\ UNCHANGED refs
        /\ PullDue(o) /\ pull' = pull \ {o}
    /\ pulled' = (pull' = {})
    /\ UNCHANGED <<repository, pushes, have, owed, pulls, faults>>

(* pullReferrerManifest and pullCosignSignature.  The registry has the     *)
(* blob of every referrer it knows, and keeps it.                          *)
PullReferrers(items) == have' = have \cup (items \cap blobs)

(* The referrers API answers, or there is none or its answer is lost. *)
Listed(s, answered) == IF answered THEN {x \in listed : x[1] = s} ELSE {}

(* Mutant of Fallback: what the API knows is not looked up again. *)
FallbackUnlessListed(s) ==
    IF \E x \in listed : x[1] = s THEN {} ELSE {x \in Referrers : x[1] = s /\ Published(x[1], x[2])}

(* What the tags lead to, which are looked up whatever the API listed (but *)
(* for osix, which is pulled once); what is not found is skipped.          *)
Fallback(s) == {x \in Referrers : x[1] = s /\ Published(x[1], x[2])}

(* pullSnapshotReferrers: the referrers API, where no answer is no error,  *)
(* then the tags.                                                          *)
PullSnapshotReferrers ==
    /\ \E o \in pull :
        /\ \/ o.op = "list" /\ \E answered \in BOOLEAN : PullReferrers(Listed(o.of, answered))
           \/ o.op = "tagged" /\ PullReferrers(Fallback(o.of))
        /\ PullDue(o) /\ pull' = pull \ {o}
    /\ UNCHANGED <<repository, pushes, refs, localTag, pulled, owed, pulls, faults>>

Missing(o) ==
    \/ o.op = "resolve" /\ tags[o.of] = None
    \/ o.op = "parent" /\ o.of \notin manifests

(* The pull ends with an error; what it has written stays in the store. *)
PullFails ==
    /\ \E o \in pull :
        /\ \/ Missing(o) /\ UNCHANGED faults
           \/ faults < MaxFaults /\ faults' = faults + 1
        /\ PullDue(o)
    /\ pull' = {}
    /\ UNCHANGED <<repository, pushes, have, refs, localTag, pulled, owed, pulls>>

(* fetchRemoteBlobFromSource, when a layer of a lazy pull is first read. *)
LazyFetch(s) ==
    /\ pulled
    /\ <<s, "source">> \in have /\ <<s, "layer">> \notin have
    /\ <<s, "layer">> \in blobs
    /\ have' = have \cup {<<s, "layer">>}
    /\ UNCHANGED <<repository, pushes, pull, refs, localTag, pulled, owed, pulls, faults>>

-----------------------------------------------------------------------------
Next ==
    \/ \E p \in Pushers :
        \/ PushStart(p) \/ PushRequest(p) \/ CheckTag(p) \/ PushFails(p)
    \/ \E t \in Branches : PullStart(t)
    \/ \E lazy \in BOOLEAN : PullResolve(lazy)
    \/ PullGet \/ PullWriteRef \/ PullSnapshotReferrers \/ PullFails
    \/ \E s \in Snapshots : LazyFetch(s)

Spec == Init /\ [][Next]_vars

-----------------------------------------------------------------------------
Puts(r, t) == \E j \in 1..Len(r.tags) : r.tags[j] = t
Prunes(r, s) == \E j \in 1..Len(r.prune) : r.prune[j] = s
BuildsOn(r, s) == s # r.snap /\ \E i \in 1..Len(Chain[r.snap]) : Chain[r.snap][i] = s

(* What RemoteComplete needs of the pushes, and no code ensures: on what a *)
(* push prunes only earlier pushes of the same process build, and the push *)
(* moves the tags that they put.  A compaction of one workspace whose      *)
(* branch nobody has forked is like that.                                  *)
PrunesOwn ==
    \A p, q \in Pushers : \A i \in 1..Len(Requests[p]), j \in 1..Len(Requests[q]) :
        \A s \in Snapshots : Prunes(Requests[p][i], s) /\ BuildsOn(Requests[q][j], s) =>
            /\ q = p /\ j < i
            /\ \A t \in Branches : Puts(Requests[q][j], t) => Puts(Requests[p][i], t)

(* A branch tag leads to a complete snapshot: the manifests, configs and   *)
(* layers of its whole chain are in the registry, at every moment of every *)
(* push, after pushes that failed half way and after remote prunes.        *)
RemoteComplete ==
    \A t \in Branches : tags[t] # None =>
        \A i \in 1..Len(Chain[tags[t]]) :
            LET s == Chain[tags[t]][i]
            IN  s \in manifests /\ {s} \X {"config", "layer"} \subseteq blobs

(* The local tag of a pull leads to a chain that can be restored: its      *)
(* manifests and configs are in the store, and its layers are there or     *)
(* have a remote source.                                                   *)
PulledComplete ==
    localTag # None =>
        \A i \in 1..Len(Chain[localTag]) :
            LET s == Chain[localTag][i]
            IN  /\ {s} \X {"manifest", "config"} \subseteq have
                /\ {<<s, "layer">>, <<s, "source">>} \cap have # {}

(* A pull that succeeds has the signatures, attestations and lazy indexes  *)
(* that were published when it began, from a registry with the referrers   *)
(* API as from one without; except bundles that a push dropped which wrote *)
(* back an index that it had read before another push extended it.         *)
ReferrersArrive ==
    pulled => \A i \in 1..Len(Chain[localTag]) :
        \A k \in Kinds : <<Chain[localTag][i], k>> \in owed => <<Chain[localTag][i], k>> \in have

(* A push that has once passed the expected-parent check and is repeated   *)
(* after a failure, at whatever request, is refused only if another push   *)
(* moved a tag.                                                            *)
RetryAccepted ==
    \A p \in Pushers : result[p] = "conflict" /\ p \in passed => moved[p] # {}

(* A push with an expected parent moves a branch away from a snapshot it   *)
(* did not expect only when another push moved the branch while it ran.    *)
StaleHeadDetected ==
    [][\A p \in Pushers, t \in Branches :
        (todo[p] # {} /\ todo'[p] # todo[p] /\ tags'[t] # tags[t]
         /\ Pushing(p).expected # None /\ tags'[t] = Pushing(p).snap)
            => (Acceptable(Pushing(p), tags[t]) \/ t \in moved[p])]_vars
=============================================================================
