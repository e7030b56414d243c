--------------------------- MODULE RegistryProofs ---------------------------
(***************************************************************************)
(* Proofs about Registry, for any number of processes, snapshots, branches *)
(* and pushes, every chain and every failure.                              *)
(***************************************************************************)
EXTENDS Registry, TLAPS

-----------------------------------------------------------------------------
(* The requests of a push and their places.                                *)

LEMMA RequestType ==
    ASSUME NEW p \in Pushers, NEW i \in 1..Len(Requests[p])
    PROVE  /\ Requests[p][i] \in Request
           /\ \A j \in 1..Len(Requests[p][i].prune) :
                Requests[p][i].prune[j] # Requests[p][i].snap
<1>1. Requests[p] \in Seq(Request)
  BY RegistryConstants
<1>2. Requests[p][i] \in Request
  BY <1>1
<1> QED BY <1>2, RegistryConstants, Zenon

LEMMA RequestFields ==
    ASSUME NEW r \in Request
    PROVE  /\ r.snap \in Snapshots /\ r.expected \in Snapshots \cup {None}
           /\ r.tags \in Seq(Branches) /\ r.prune \in Seq(Snapshots)
           /\ Len(r.tags) \in Nat /\ Len(r.prune) \in Nat
           /\ \A j \in 1..Len(r.tags) : r.tags[j] \in Branches
           /\ \A j \in 1..Len(r.prune) : r.prune[j] \in Snapshots
<1>1. r.tags \in Seq(Branches) /\ r.prune \in Seq(Snapshots)
  BY DEF Request
<1> QED BY <1>1 DEF Request

LEMMA ChainType ==
    ASSUME NEW s \in Snapshots
    PROVE  /\ Len(Chain[s]) \in Nat \ {0}
           /\ \A i \in 1..Len(Chain[s]) :
                Chain[s][i] \in Snapshots /\ (Chain[s][i] = s <=> i = Len(Chain[s]))
<1>1. Chain[s] \in Seq(Snapshots)
  BY RegistryConstants
<1>2. /\ Len(Chain[s]) > 0
      /\ \A i \in 1..Len(Chain[s]) : Chain[s][i] = s <=> i = Len(Chain[s])
  BY RegistryConstants, Zenon
<1>3. Len(Chain[s]) \in Nat /\ \A i \in 1..Len(Chain[s]) : Chain[s][i] \in Snapshots
  BY <1>1
<1> QED BY <1>2, <1>3

(* The bundles of a snapshot that a push has. *)
Added(r, s) == {k \in Bundles : <<s, k>> \in r.referrers}

(* The requests for one snapshot of the chain. *)
ItemOf(r, i, o) ==
    LET s == Chain[r.snap][i] IN
    \/ o = [op |-> "blobs", of |-> {s} \X {"config", "layer"}, at |-> <<i, 1, 0>>]
    \/ o = [op |-> "tag", of |-> s, tag |-> s, at |-> <<i, 2, 0>>]
    \/ s = r.snap /\ \E j \in 1..Len(r.tags) :
            o = [op |-> "tag", of |-> s, tag |-> r.tags[j], at |-> <<i, 2, j>>]
    \/ \E k \in Kinds : <<s, k>> \in r.referrers /\
          \/ o = [op |-> "blobs", of |-> {<<s, k>>}, at |-> <<i, Stage[k], 1>>]
          \/ k # "cosign" /\ o = [op |-> "referrer", of |-> <<s, k>>, at |-> <<i, Stage[k], 2>>]
          \/ k \notin Bundles /\ o = [op |-> "attach", of |-> <<s, k>>, at |-> <<i, Stage[k], 3>>]
    \/ Added(r, s) # {} /\
          \/ o = [op |-> "readIndex", of |-> s, add |-> Added(r, s), at |-> <<i, 7, 1>>]
          \/ o = [op |-> "putIndex", of |-> s, add |-> Added(r, s), at |-> <<i, 7, 2>>]

LEMMA ReferrerPlan ==
    ASSUME NEW s, NEW referrers, NEW item, NEW o
    PROVE  o \in PushReferrers(s, referrers, item) <=>
             \/ \E k \in Kinds : <<s, k>> \in referrers /\ o \in ReferrerOps(s, k, item)
             \/ o \in IndexOps(s, {k \in Bundles : <<s, k>> \in referrers}, item)
<1>1. {k \in Kinds : <<s, k>> \in referrers} \cap Bundles = {k \in Bundles : <<s, k>> \in referrers}
  BY DEF Kinds
<1>2. o \in PushReferrers(s, referrers, item) <=>
        \/ o \in UNION {ReferrerOps(s, k, item) : k \in {k \in Kinds : <<s, k>> \in referrers}}
        \/ o \in IndexOps(s, {k \in Kinds : <<s, k>> \in referrers} \cap Bundles, item)
  BY Zenon DEF PushReferrers
<1>3. o \in UNION {ReferrerOps(s, k, item) : k \in {k \in Kinds : <<s, k>> \in referrers}}
        <=> \E k \in Kinds : <<s, k>> \in referrers /\ o \in ReferrerOps(s, k, item)
  OBVIOUS
<1> QED BY <1>1, <1>2, <1>3, Zenon

LEMMA ItemOps ==
    ASSUME NEW r \in Request, NEW i \in 1..Len(Chain[r.snap]), NEW o
    PROVE  o \in PushItem(r, Chain[r.snap][i], i) <=> ItemOf(r, i, o)
<1> DEFINE s == Chain[r.snap][i]
           some == {k \in Kinds : <<s, k>> \in r.referrers}
<1>1. o \in PushReferrers(s, r.referrers, i) <=>
        \/ \E k \in some : o \in ReferrerOps(s, k, i)
        \/ o \in IndexOps(s, Added(r, s), i)
  BY ReferrerPlan DEF Added
<1>2. ASSUME NEW k \in Kinds
      PROVE  o \in ReferrerOps(s, k, i) <=>
          \/ o = [op |-> "blobs", of |-> {<<s, k>>}, at |-> <<i, Stage[k], 1>>]
          \/ k # "cosign" /\ o = [op |-> "referrer", of |-> <<s, k>>, at |-> <<i, Stage[k], 2>>]
          \/ k \notin Bundles /\ o = [op |-> "attach", of |-> <<s, k>>, at |-> <<i, Stage[k], 3>>]
  BY DEF ReferrerOps
<1>3. o \in IndexOps(s, Added(r, s), i) <=> Added(r, s) # {} /\
          \/ o = [op |-> "readIndex", of |-> s, add |-> Added(r, s), at |-> <<i, 7, 1>>]
          \/ o = [op |-> "putIndex", of |-> s, add |-> Added(r, s), at |-> <<i, 7, 2>>]
  BY DEF IndexOps
<1>4. o \in PushItem(r, s, i) <=>
        \/ o = [op |-> "blobs", of |-> {s} \X {"config", "layer"}, at |-> <<i, 1, 0>>]
        \/ o = [op |-> "tag", of |-> s, tag |-> s, at |-> <<i, 2, 0>>]
        \/ s = r.snap /\ \E j \in 1..Len(r.tags) :
               o = [op |-> "tag", of |-> s, tag |-> r.tags[j], at |-> <<i, 2, j>>]
        \/ o \in PushReferrers(s, r.referrers, i)
  BY DEF PushItem
<1> QED BY <1>1, <1>2, <1>3, <1>4, Zenon DEF ItemOf

LEMMA PlanOps ==
    ASSUME NEW r \in Request, NEW o
    PROVE  o \in PushPlan(r) <=>
             \/ r.expected # None /\ \E j \in 1..Len(r.tags) :
                    o = [op |-> "check", tag |-> r.tags[j], at |-> <<0, 0, j>>]
             \/ \E i \in 1..Len(Chain[r.snap]) : ItemOf(r, i, o)
             \/ \E j \in 1..Len(r.prune) :
                    o = [op |-> "delete", of |-> r.prune[j],
                         at |-> <<Len(Chain[r.snap]) + 1, 0, j>>]
<1>1. o \in PushChain(r) <=> \E i \in 1..Len(Chain[r.snap]) : ItemOf(r, i, o)
  BY ItemOps DEF PushChain
<1>2. o \in Checks(r) <=> r.expected # None /\ \E j \in 1..Len(r.tags) :
                    o = [op |-> "check", tag |-> r.tags[j], at |-> <<0, 0, j>>]
  BY DEF Checks
<1>3. o \in PruneOps(r) <=> \E j \in 1..Len(r.prune) :
                    o = [op |-> "delete", of |-> r.prune[j],
                         at |-> <<Len(Chain[r.snap]) + 1, 0, j>>]
  BY DEF PruneOps
<1> QED BY <1>1, <1>2, <1>3 DEF PushPlan

LEMMA StageNat == \A k \in Kinds : Stage[k] \in {3, 4, 5, 6, 8}
BY DEF Kinds, Bundles, Stage

LEMMA StageOfBundles == \A k \in Bundles : Stage[k] \in {5, 6}
BY DEF Bundles, Stage

LEMMA PlanType ==
    ASSUME NEW r \in Request
    PROVE  PushPlan(r) \subseteq PushOp
<1> SUFFICES ASSUME NEW o \in PushPlan(r) PROVE o \in PushOp
  OBVIOUS
<1>0. Len(Chain[r.snap]) \in Nat /\ \A i \in 1..Len(Chain[r.snap]) : Chain[r.snap][i] \in Snapshots
  BY RequestFields, ChainType
<1>1. CASE \E j \in 1..Len(r.tags) : o = [op |-> "check", tag |-> r.tags[j], at |-> <<0, 0, j>>]
  <2>1. PICK j \in 1..Len(r.tags) : o = [op |-> "check", tag |-> r.tags[j], at |-> <<0, 0, j>>]
    BY <1>1
  <2>2. r.tags[j] \in Branches /\ <<0, 0, j>> \in Place
    BY RequestFields DEF Place
  <2> QED BY <2>1, <2>2 DEF PushOp
<1>2. CASE \E j \in 1..Len(r.prune) :
        o = [op |-> "delete", of |-> r.prune[j], at |-> <<Len(Chain[r.snap]) + 1, 0, j>>]
  <2>1. PICK j \in 1..Len(r.prune) :
          o = [op |-> "delete", of |-> r.prune[j], at |-> <<Len(Chain[r.snap]) + 1, 0, j>>]
    BY <1>2
  <2>2. r.prune[j] \in Snapshots /\ <<Len(Chain[r.snap]) + 1, 0, j>> \in Place
    BY <1>0, RequestFields DEF Place
  <2> QED BY <2>1, <2>2 DEF PushOp
<1>3. ASSUME NEW i \in 1..Len(Chain[r.snap]), ItemOf(r, i, o) PROVE o \in PushOp
  <2> DEFINE s == Chain[r.snap][i]
  <2>0. s \in Snapshots /\ i \in Nat
    BY <1>0
  <2> HIDE DEF s
  <2>1. CASE o = [op |-> "blobs", of |-> {s} \X {"config", "layer"}, at |-> <<i, 1, 0>>]
    BY <2>0, <2>1 DEF PushOp, Place
  <2>2. CASE o = [op |-> "tag", of |-> s, tag |-> s, at |-> <<i, 2, 0>>]
    BY <2>0, <2>2 DEF PushOp, Place
  <2>3. CASE \E j \in 1..Len(r.tags) :
            o = [op |-> "tag", of |-> s, tag |-> r.tags[j], at |-> <<i, 2, j>>]
    BY <2>0, <2>3, RequestFields DEF PushOp, Place
  <2>4. ASSUME NEW k \in Kinds,
          \/ o = [op |-> "blobs", of |-> {<<s, k>>}, at |-> <<i, Stage[k], 1>>]
          \/ o = [op |-> "referrer", of |-> <<s, k>>, at |-> <<i, Stage[k], 2>>]
          \/ o = [op |-> "attach", of |-> <<s, k>>, at |-> <<i, Stage[k], 3>>]
        PROVE  o \in PushOp
    <3>1. Stage[k] \in Nat
      BY StageNat
    <3>2. \A j \in Nat : <<i, Stage[k], j>> \in Place
      BY <2>0, <3>1 DEF Place
    <3>3. <<s, k>> \in Referrers
      BY <2>0 DEF Referrers
    <3>4. <<s, k>> \in Snapshots \X (Kinds \cup {"config", "layer"})
      BY <2>0
    <3>5. CASE o = [op |-> "blobs", of |-> {<<s, k>>}, at |-> <<i, Stage[k], 1>>]
      <4>1. {<<s, k>>} \in SUBSET (Snapshots \X (Kinds \cup {"config", "layer"}))
        BY <3>4, Zenon
      <4> QED BY <3>2, <3>5, <4>1 DEF PushOp
    <3>6. CASE \/ o = [op |-> "referrer", of |-> <<s, k>>, at |-> <<i, Stage[k], 2>>]
               \/ o = [op |-> "attach", of |-> <<s, k>>, at |-> <<i, Stage[k], 3>>]
      <4>1. o \in [op : {"referrer", "attach"}, of : Referrers, at : Place]
        BY <3>2, <3>3, <3>6
      <4> QED BY <4>1, Zenon DEF PushOp
    <3> QED BY <2>4, <3>5, <3>6
  <2>5. CASE \/ o = [op |-> "readIndex", of |-> s, add |-> Added(r, s), at |-> <<i, 7, 1>>]
             \/ o = [op |-> "putIndex", of |-> s, add |-> Added(r, s), at |-> <<i, 7, 2>>]
    <3>1. Added(r, s) \in SUBSET Bundles
      BY DEF Added
    <3>2. <<i, 7, 1>> \in Place /\ <<i, 7, 2>> \in Place
      BY <2>0 DEF Place
    <3>3. o \in [op : {"readIndex", "putIndex"}, of : Snapshots, add : SUBSET Bundles,
                 at : Place]
      <4>1. CASE o = [op |-> "readIndex", of |-> s, add |-> Added(r, s), at |-> <<i, 7, 1>>]
        BY <2>0, <3>1, <3>2, <4>1, Zenon
      <4>2. CASE o = [op |-> "putIndex", of |-> s, add |-> Added(r, s), at |-> <<i, 7, 2>>]
        BY <2>0, <3>1, <3>2, <4>2, Zenon
      <4> QED BY <2>5, <4>1, <4>2
    <3> QED BY <3>3, Zenon DEF PushOp
  <2> QED BY <1>3, <2>1, <2>2, <2>3, <2>4, <2>5 DEF ItemOf, s
<1> QED BY <1>1, <1>2, <1>3, PlanOps

-----------------------------------------------------------------------------
(***************************************************************************)
(* What a plan puts before a request.                                      *)
(***************************************************************************)
Before(r, o, x) == x \in PushPlan(r) /\ Earlier(x.at, o.at)

LEMMA EarlierOrder ==
    ASSUME NEW a \in Place, NEW b \in Place
    PROVE  ~(Earlier(a, b) /\ Earlier(b, a)) /\ ~Earlier(a, a)
BY DEF Earlier, Place

LEMMA PlanAt ==
    ASSUME NEW r \in Request, NEW o \in PushPlan(r)
    PROVE  o.at \in Place
BY PlanType DEF PushOp

(* The fields of each kind of request. *)
IsTag(r, i, o) ==
    \/ o = [op |-> "tag", of |-> Chain[r.snap][i], tag |-> Chain[r.snap][i], at |-> <<i, 2, 0>>]
    \/ /\ Chain[r.snap][i] = r.snap
       /\ \E j \in 1..Len(r.tags) :
            o = [op |-> "tag", of |-> r.snap, tag |-> r.tags[j], at |-> <<i, 2, j>>]

IsReferrer(r, i, o) ==
    \E k \in Kinds :
        /\ <<Chain[r.snap][i], k>> \in r.referrers
        /\ o.of = <<Chain[r.snap][i], k>>
        /\ o.at = <<i, Stage[k], 2>> \/ o.at = <<i, Stage[k], 3>>

IsIndex(r, i, o) ==
    LET add == Added(r, Chain[r.snap][i]) IN
    /\ add # {}
    /\ \/ o = [op |-> "readIndex", of |-> Chain[r.snap][i], add |-> add, at |-> <<i, 7, 1>>]
       \/ o = [op |-> "putIndex", of |-> Chain[r.snap][i], add |-> add, at |-> <<i, 7, 2>>]

LEMMA ItemKind ==
    ASSUME NEW r, NEW i, NEW o, ItemOf(r, i, o)
    PROVE  \/ o.op = "blobs"
           \/ o.op = "tag" /\ IsTag(r, i, o)
           \/ o.op \in {"referrer", "attach"} /\ IsReferrer(r, i, o)
           \/ o.op \in {"readIndex", "putIndex"} /\ IsIndex(r, i, o)
<1> DEFINE s == Chain[r.snap][i]
<1>1. CASE o = [op |-> "blobs", of |-> {s} \X {"config", "layer"}, at |-> <<i, 1, 0>>]
  BY <1>1
<1>2. CASE o = [op |-> "tag", of |-> s, tag |-> s, at |-> <<i, 2, 0>>]
  BY <1>2 DEF IsTag
<1>3. CASE s = r.snap /\ \E j \in 1..Len(r.tags) :
            o = [op |-> "tag", of |-> s, tag |-> r.tags[j], at |-> <<i, 2, j>>]
  <2>1. PICK j \in 1..Len(r.tags) :
            o = [op |-> "tag", of |-> r.snap, tag |-> r.tags[j], at |-> <<i, 2, j>>]
    BY <1>3
  <2> QED BY <1>3, <2>1 DEF IsTag
<1>4. CASE \E k \in Kinds : <<s, k>> \in r.referrers /\
          \/ o = [op |-> "blobs", of |-> {<<s, k>>}, at |-> <<i, Stage[k], 1>>]
          \/ k # "cosign" /\ o = [op |-> "referrer", of |-> <<s, k>>, at |-> <<i, Stage[k], 2>>]
          \/ k \notin Bundles /\ o = [op |-> "attach", of |-> <<s, k>>, at |-> <<i, Stage[k], 3>>]
  <2>1. PICK k \in Kinds : <<s, k>> \in r.referrers /\
          \/ o = [op |-> "blobs", of |-> {<<s, k>>}, at |-> <<i, Stage[k], 1>>]
          \/ k # "cosign" /\ o = [op |-> "referrer", of |-> <<s, k>>, at |-> <<i, Stage[k], 2>>]
          \/ k \notin Bundles /\ o = [op |-> "attach", of |-> <<s, k>>, at |-> <<i, Stage[k], 3>>]
    BY <1>4
  <2>2. PICK at : at = <<i, Stage[k], 2>>
    OBVIOUS
  <2>3. PICK bt : bt = <<i, Stage[k], 3>>
    OBVIOUS
  <2>4. CASE o = [op |-> "referrer", of |-> <<s, k>>, at |-> at]
    <3>1. o.op = "referrer" /\ o.of = <<s, k>> /\ o.at = at
      BY <2>4
    <3> QED BY <2>1, <2>2, <3>1, Zenon DEF IsReferrer
  <2>5. CASE o = [op |-> "attach", of |-> <<s, k>>, at |-> bt]
    <3>1. o.op = "attach" /\ o.of = <<s, k>> /\ o.at = bt
      BY <2>5
    <3> QED BY <2>1, <2>3, <3>1, Zenon DEF IsReferrer
  <2>6. CASE o = [op |-> "blobs", of |-> {<<s, k>>}, at |-> <<i, Stage[k], 1>>]
    BY <2>6
  <2> QED BY <2>1, <2>2, <2>3, <2>4, <2>5, <2>6, Zenon
<1>5. CASE Added(r, s) # {} /\
          \/ o = [op |-> "readIndex", of |-> s, add |-> Added(r, s), at |-> <<i, 7, 1>>]
          \/ o = [op |-> "putIndex", of |-> s, add |-> Added(r, s), at |-> <<i, 7, 2>>]
  <2>1. PICK add : add = Added(r, s)
    OBVIOUS
  <2>2. CASE o = [op |-> "readIndex", of |-> s, add |-> add, at |-> <<i, 7, 1>>]
    <3>1. o.op = "readIndex" /\ o.of = s /\ o.add = add /\ o.at = <<i, 7, 1>>
      BY <2>2
    <3> QED BY <1>5, <2>1, <3>1 DEF IsIndex
  <2>3. CASE o = [op |-> "putIndex", of |-> s, add |-> add, at |-> <<i, 7, 2>>]
    <3>1. o.op = "putIndex" /\ o.of = s /\ o.add = add /\ o.at = <<i, 7, 2>>
      BY <2>3
    <3> QED BY <1>5, <2>1, <3>1 DEF IsIndex
  <2> QED BY <1>5, <2>1, <2>2, <2>3, Zenon
<1> QED BY <1>1, <1>2, <1>3, <1>4, <1>5, Zenon DEF ItemOf

LEMMA PlanKind ==
    ASSUME NEW r \in Request, NEW o \in PushPlan(r)
    PROVE  \/ o.op = "check" /\ r.expected # None /\ Puts(r, o.tag)
           \/ o.op \in {"blobs", "tag", "referrer", "attach", "readIndex", "putIndex"}
              /\ \E i \in 1..Len(Chain[r.snap]) : ItemOf(r, i, o)
           \/ o.op = "delete" /\ \E j \in 1..Len(r.prune) :
                  o = [op |-> "delete", of |-> r.prune[j], at |-> <<Len(Chain[r.snap]) + 1, 0, j>>]
<1>1. ASSUME r.expected # None, NEW j \in 1..Len(r.tags),
             o = [op |-> "check", tag |-> r.tags[j], at |-> <<0, 0, j>>]
      PROVE  o.op = "check" /\ r.expected # None /\ Puts(r, o.tag)
  BY <1>1 DEF Puts
<1>2. ASSUME NEW i \in 1..Len(Chain[r.snap]), ItemOf(r, i, o)
      PROVE  o.op \in {"blobs", "tag", "referrer", "attach", "readIndex", "putIndex"}
  BY <1>2, ItemKind
<1>3. ASSUME NEW j \in 1..Len(r.prune),
             o = [op |-> "delete", of |-> r.prune[j], at |-> <<Len(Chain[r.snap]) + 1, 0, j>>]
      PROVE  o.op = "delete"
  BY <1>3
<1> QED BY <1>1, <1>2, <1>3, PlanOps, Zenon

LEMMA CheckOf ==
    ASSUME NEW r \in Request, NEW o \in PushPlan(r), o.op = "check"
    PROVE  r.expected # None /\ Puts(r, o.tag)
BY PlanKind

LEMMA DeleteOf ==
    ASSUME NEW r \in Request, NEW o \in PushPlan(r), o.op = "delete"
    PROVE  \E j \in 1..Len(r.prune) :
              o = [op |-> "delete", of |-> r.prune[j], at |-> <<Len(Chain[r.snap]) + 1, 0, j>>]
BY PlanKind

LEMMA TagOf ==
    ASSUME NEW r \in Request, NEW o \in PushPlan(r), o.op = "tag"
    PROVE  \E i \in 1..Len(Chain[r.snap]) : IsTag(r, i, o)
BY PlanKind, ItemKind

LEMMA ReferrerOf ==
    ASSUME NEW r \in Request, NEW o \in PushPlan(r), o.op \in {"referrer", "attach"}
    PROVE  \E i \in 1..Len(Chain[r.snap]) : IsReferrer(r, i, o)
BY PlanKind, ItemKind

LEMMA IndexOf ==
    ASSUME NEW r \in Request, NEW o \in PushPlan(r), o.op \in {"readIndex", "putIndex"}
    PROVE  \E i \in 1..Len(Chain[r.snap]) : IsIndex(r, i, o)
BY PlanKind, ItemKind

(* One snapshot has one update of the index. *)
LEMMA SameIndex ==
    ASSUME NEW r \in Request, NEW x \in PushPlan(r), NEW z \in PushPlan(r),
           x.op = "readIndex", z.op = "readIndex", x.at = z.at
    PROVE  x = z
<1>1. PICK i \in 1..Len(Chain[r.snap]) : IsIndex(r, i, x)
  BY IndexOf
<1>2. PICK j \in 1..Len(Chain[r.snap]) : IsIndex(r, j, z)
  BY IndexOf
<1>3. x = [op |-> "readIndex", of |-> Chain[r.snap][i], add |-> Added(r, Chain[r.snap][i]),
           at |-> <<i, 7, 1>>]
  BY <1>1 DEF IsIndex
<1>4. z = [op |-> "readIndex", of |-> Chain[r.snap][j], add |-> Added(r, Chain[r.snap][j]),
           at |-> <<j, 7, 1>>]
  BY <1>2 DEF IsIndex
<1>5. x.at = <<i, 7, 1>> /\ z.at = <<j, 7, 1>>
  BY <1>3, <1>4
<1>6. i = j
  <2>1. <<i, 7, 1>> = <<j, 7, 1>>
    BY <1>5
  <2> QED BY <2>1, Zenon
<1> QED BY <1>3, <1>4, <1>6

LEMMA BranchTag ==
    ASSUME NEW r \in Request, NEW o \in PushPlan(r), o.op = "tag", o.tag \in Branches
    PROVE  \E m \in 1..Len(Chain[r.snap]), j \in 1..Len(r.tags) :
              /\ Chain[r.snap][m] = r.snap
              /\ o = [op |-> "tag", of |-> r.snap, tag |-> r.tags[j], at |-> <<m, 2, j>>]
<1>1. PICK m \in 1..Len(Chain[r.snap]) : IsTag(r, m, o)
  BY TagOf
<1>2. Chain[r.snap][m] \in Snapshots
  BY RequestFields, ChainType
<1>3. ASSUME o = [op |-> "tag", of |-> Chain[r.snap][m], tag |-> Chain[r.snap][m],
                  at |-> <<m, 2, 0>>]
      PROVE  FALSE
  <2>1. o.tag = Chain[r.snap][m]
    BY <1>3
  <2> QED BY <1>2, <2>1, RegistryConstants
<1> QED BY <1>1, <1>3, Zenon DEF IsTag

(* A tag that a push moves was checked. *)
LEMMA CheckedBefore ==
    ASSUME NEW r \in Request, r.expected # None,
           NEW o \in PushPlan(r), o.op = "tag", o.tag \in Branches
    PROVE  \E x : Before(r, o, x) /\ x.op = "check" /\ x.tag = o.tag
<1>1. PICK i \in 1..Len(Chain[r.snap]), j \in 1..Len(r.tags) :
        o = [op |-> "tag", of |-> r.snap, tag |-> r.tags[j], at |-> <<i, 2, j>>]
  BY BranchTag
<1> DEFINE x == [op |-> "check", tag |-> r.tags[j], at |-> <<0, 0, j>>]
<1>2. x \in PushPlan(r)
  BY PlanOps
<1>3. Earlier(x.at, o.at)
  BY <1>1 DEF Earlier
<1> QED BY <1>1, <1>2, <1>3 DEF Before

(* A branch is moved to the head, when its chain has been uploaded. *)
LEMMA CompleteBefore ==
    ASSUME NEW r \in Request, NEW o \in PushPlan(r), o.op = "tag", o.tag \in Branches,
           NEW i \in 1..Len(Chain[r.snap])
    PROVE  /\ o.of = r.snap /\ Puts(r, o.tag)
           /\ \E x : /\ Before(r, o, x) /\ x.op = "blobs"
                     /\ x.of = {Chain[r.snap][i]} \X {"config", "layer"}
           /\ Chain[r.snap][i] # r.snap =>
                \E x : Before(r, o, x) /\ x.op = "tag" /\ x.of = Chain[r.snap][i]
<1> DEFINE n == Len(Chain[r.snap])
<1>0. n \in Nat /\ r.snap \in Snapshots
  BY RequestFields, ChainType
<1>1. PICK m \in 1..n, j \in 1..Len(r.tags) :
        /\ Chain[r.snap][m] = r.snap
        /\ o = [op |-> "tag", of |-> r.snap, tag |-> r.tags[j], at |-> <<m, 2, j>>]
  BY BranchTag
<1>2. m = n
  BY <1>0, <1>1, ChainType
<1> DEFINE x == [op |-> "blobs", of |-> {Chain[r.snap][i]} \X {"config", "layer"},
                 at |-> <<i, 1, 0>>]
           y == [op |-> "tag", of |-> Chain[r.snap][i], tag |-> Chain[r.snap][i],
                 at |-> <<i, 2, 0>>]
<1>3. ItemOf(r, i, x) /\ ItemOf(r, i, y)
  BY DEF ItemOf
<1>4. x \in PushPlan(r) /\ y \in PushPlan(r)
  BY <1>3, PlanOps
<1>5. Earlier(<<i, 1, 0>>, <<m, 2, j>>) /\ Earlier(<<i, 2, 0>>, <<m, 2, j>>)
  BY <1>0, <1>2, RequestFields DEF Earlier
<1>6. Earlier(x.at, o.at) /\ Earlier(y.at, o.at)
  BY <1>1, <1>5
<1>7. Before(r, o, x) /\ Before(r, o, y)
  BY <1>4, <1>6 DEF Before
<1>8. o.of = r.snap /\ Puts(r, o.tag)
  BY <1>1 DEF Puts
<1> QED BY <1>7, <1>8

(* A manifest is deleted when all tags have been moved to the head. *)
LEMMA MovedBefore ==
    ASSUME NEW r \in Request, NEW o \in PushPlan(r), o.op = "delete",
           NEW t, Puts(r, t)
    PROVE  \E x : Before(r, o, x) /\ x.op = "tag" /\ x.tag = t /\ x.of = r.snap
<1> DEFINE n == Len(Chain[r.snap])
<1>0. n \in Nat \ {0} /\ r.snap \in Snapshots /\ Chain[r.snap][n] = r.snap
  BY RequestFields, ChainType
<1>1. PICK j \in 1..Len(r.tags) : r.tags[j] = t
  BY DEF Puts
<1>2. PICK k \in 1..Len(r.prune) : o = [op |-> "delete", of |-> r.prune[k], at |-> <<n + 1, 0, k>>]
  BY DeleteOf
<1> DEFINE x == [op |-> "tag", of |-> r.snap, tag |-> r.tags[j], at |-> <<n, 2, j>>]
<1>3. ItemOf(r, n, x)
  BY <1>0 DEF ItemOf
<1>4. x \in PushPlan(r)
  BY <1>0, <1>3, PlanOps
<1>5. Earlier(<<n, 2, j>>, <<n + 1, 0, k>>)
  BY <1>0 DEF Earlier
<1> QED BY <1>1, <1>2, <1>4, <1>5 DEF Before

(* The blob of a referrer is uploaded before its manifest. *)
LEMMA BlobBefore ==
    ASSUME NEW r \in Request, NEW o \in PushPlan(r), o.op \in {"referrer", "attach"}
    PROVE  \E x : Before(r, o, x) /\ x.op = "blobs" /\ o.of \in x.of
<1>1. PICK i \in 1..Len(Chain[r.snap]), k \in Kinds :
        /\ <<Chain[r.snap][i], k>> \in r.referrers
        /\ o.of = <<Chain[r.snap][i], k>>
        /\ o.at = <<i, Stage[k], 2>> \/ o.at = <<i, Stage[k], 3>>
  BY ReferrerOf DEF IsReferrer
<1> DEFINE x == [op |-> "blobs", of |-> {<<Chain[r.snap][i], k>>}, at |-> <<i, Stage[k], 1>>]
<1>2. ItemOf(r, i, x)
  BY <1>1 DEF ItemOf
<1>3. x \in PushPlan(r)
  BY <1>2, PlanOps
<1>4. Earlier(<<i, Stage[k], 1>>, o.at)
  BY <1>1 DEF Earlier
<1> QED BY <1>1, <1>3, <1>4 DEF Before

(* The index is written when it has been read and the bundles it gets have *)
(* been put.                                                               *)
LEMMA BundlesBefore ==
    ASSUME NEW r \in Request, NEW o \in PushPlan(r), o.op = "putIndex"
    PROVE  /\ \E x : /\ Before(r, o, x) /\ x.op = "readIndex" /\ x.of = o.of
                     /\ x.at[1] = o.at[1]
           /\ \A k \in o.add : \E x :
                Before(r, o, x) /\ x.op = "referrer" /\ x.of = <<o.of, k>>
<1>1. PICK i \in 1..Len(Chain[r.snap]) :
        /\ Added(r, Chain[r.snap][i]) # {}
        /\ o.of = Chain[r.snap][i] /\ o.add = Added(r, Chain[r.snap][i])
        /\ o.at = <<i, 7, 2>>
  <2>1. PICK i \in 1..Len(Chain[r.snap]) : IsIndex(r, i, o)
    BY IndexOf
  <2>2. PICK s, add : s = Chain[r.snap][i] /\ add = Added(r, s)
    OBVIOUS
  <2>3. /\ add # {}
        /\ \/ o = [op |-> "readIndex", of |-> s, add |-> add, at |-> <<i, 7, 1>>]
           \/ o = [op |-> "putIndex", of |-> s, add |-> add, at |-> <<i, 7, 2>>]
    BY <2>1, <2>2, Zenon DEF IsIndex
  <2>4. o = [op |-> "putIndex", of |-> s, add |-> add, at |-> <<i, 7, 2>>]
    BY <2>3
  <2>5. o.of = s /\ o.add = add /\ o.at = <<i, 7, 2>>
    BY <2>4
  <2> QED BY <2>2, <2>3, <2>5
<1>0. i \in Nat
  BY RequestFields, ChainType
<1>2. \E x : Before(r, o, x) /\ x.op = "readIndex" /\ x.of = o.of /\ x.at[1] = o.at[1]
  <2> DEFINE x == [op |-> "readIndex", of |-> Chain[r.snap][i],
                   add |-> Added(r, Chain[r.snap][i]), at |-> <<i, 7, 1>>]
  <2>1. ItemOf(r, i, x)
    BY <1>1 DEF ItemOf
  <2>2. x \in PushPlan(r)
    BY <2>1, PlanOps
  <2>3. Earlier(<<i, 7, 1>>, <<i, 7, 2>>)
    BY <1>0 DEF Earlier
  <2>4. x.at = <<i, 7, 1>> /\ x.op = "readIndex" /\ x.of = o.of /\ x.at[1] = o.at[1]
    <3>1. x.at = <<i, 7, 1>> /\ x.op = "readIndex" /\ x.of = o.of
      BY <1>1
    <3>2. x.at[1] = i /\ o.at[1] = i
      BY <1>0, <1>1
    <3> QED BY <3>1, <3>2
  <2> QED BY <1>1, <2>2, <2>3, <2>4 DEF Before
<1>3. ASSUME NEW k \in o.add
      PROVE  \E x : Before(r, o, x) /\ x.op = "referrer" /\ x.of = <<o.of, k>>
  <2> DEFINE x == [op |-> "referrer", of |-> <<Chain[r.snap][i], k>>, at |-> <<i, Stage[k], 2>>]
  <2>1. k \in Bundles /\ k \in Kinds /\ k # "cosign" /\ <<Chain[r.snap][i], k>> \in r.referrers
    BY <1>1, <1>3 DEF Added, Kinds, Bundles
  <2>2. ItemOf(r, i, x)
    BY <2>1 DEF ItemOf
  <2>3. x \in PushPlan(r)
    BY <2>2, PlanOps
  <2>4. Stage[k] \in {5, 6}
    BY <2>1, StageOfBundles
  <2>5. Earlier(<<i, Stage[k], 2>>, <<i, 7, 2>>)
    BY <1>0, <2>4 DEF Earlier
  <2>6. x.at = <<i, Stage[k], 2>> /\ x.op = "referrer" /\ x.of = <<o.of, k>>
    BY <1>1
  <2> QED BY <1>1, <2>3, <2>5, <2>6 DEF Before
<1> QED BY <1>2, <1>3

-----------------------------------------------------------------------------
(***************************************************************************)
(* What is left of a push is the end of its plan, and what of the plan is  *)
(* not left has had its effect.                                            *)
(***************************************************************************)
Running == {p \in Pushers : todo[p] # {}}
Plan(p) == PushPlan(Pushing(p))
Done(p) == Plan(p) \ todo[p]

PlanInv ==
    \A p \in Running :
        /\ current[p] \in 1..Len(Requests[p])
        /\ todo[p] \subseteq Plan(p)
        /\ \A o \in todo[p], x \in Plan(p) : Earlier(o.at, x.at) => x \in todo[p]

Started == \A p \in Pushers : result[p] = "failed" => current[p] \in 1..Len(Requests[p])

(* TypeOK without what it says of referrers, and without the pull. *)
Types ==
    /\ blobs \subseteq Snapshots \X (Kinds \cup {"config", "layer"})
    /\ manifests \subseteq Snapshots
    /\ tags \in [Branches \cup Snapshots -> Snapshots \cup {None}]
    /\ listed \subseteq Referrers /\ attached \subseteq Referrers
    /\ index \in [Snapshots -> SUBSET Bundles]
    /\ current \in [Pushers -> Nat]
    /\ \A p \in Pushers : current[p] <= Len(Requests[p])
    /\ todo \in [Pushers -> SUBSET PushOp]
    /\ result \in [Pushers -> {"none", "ok", "failed", "conflict"}]
    /\ seen \in [Pushers -> SUBSET Bundles]
    /\ passed \subseteq Pushers
    /\ moved \in [Pushers -> SUBSET Branches]

PushInv == Types /\ PlanInv /\ Started

LEMMA OpFields ==
    ASSUME NEW o \in PushOp
    PROVE  /\ o.op = "check" => o.tag \in Branches
           /\ o.op = "blobs" => o.of \in SUBSET (Snapshots \X (Kinds \cup {"config", "layer"}))
           /\ o.op = "tag" => o.of \in Snapshots /\ o.tag \in Branches \cup Snapshots
           /\ o.op \in {"referrer", "attach"} => o.of \in Referrers
           /\ o.op \in {"readIndex", "putIndex"} => o.of \in Snapshots /\ o.add \in SUBSET Bundles
           /\ o.op = "delete" => o.of \in Snapshots
           /\ o.at \in Place
BY DEF PushOp

(***************************************************************************)
(* A step starts a push, makes a request of one, or leaves the repository  *)
(* and the pushes alone.                                                   *)
(***************************************************************************)
Accepted(p, o) ==
    /\ o.op = "check" /\ Acceptable(Pushing(p), tags[o.tag])
    /\ UNCHANGED <<repository, moved, seen>>
PushStep(p, o) ==
    /\ Due(p, o) /\ UNCHANGED current
    /\ \/ Made(p, o) /\ Apply(p, o) /\ UNCHANGED passed
          /\ result' = IF todo'[p] = {} THEN [result EXCEPT ![p] = "ok"] ELSE result
       \/ Made(p, o) /\ Accepted(p, o) /\ UNCHANGED result
          /\ passed' = IF \E x \in todo'[p] : x.op = "check" THEN passed ELSE passed \cup {p}
       \/ Ends(p, "conflict") /\ UNCHANGED <<repository, moved, seen, passed>>
          /\ o.op = "check" /\ ~Acceptable(Pushing(p), tags[o.tag])
       \/ Ends(p, "failed") /\ UNCHANGED passed
          /\ (Apply(p, o) \/ UNCHANGED <<repository, moved, seen>>)

LEMMA NextKinds ==
    ASSUME [Next]_vars
    PROVE  \/ \E p \in Pushers : PushStart(p)
           \/ \E p \in Pushers : \E o \in todo[p] : PushStep(p, o)
           \/ UNCHANGED <<repository, pushes>>
<1>1. ASSUME NEW p \in Pushers, PushRequest(p) PROVE \E o \in todo[p] : PushStep(p, o)
  BY <1>1 DEF PushRequest, PushStep
<1>2. ASSUME NEW p \in Pushers, CheckTag(p) PROVE \E o \in todo[p] : PushStep(p, o)
  BY <1>2 DEF CheckTag, PushStep, Accepted
<1>3. ASSUME NEW p \in Pushers, PushFails(p) PROVE \E o \in todo[p] : PushStep(p, o)
  BY <1>3 DEF PushFails, PushStep
<1>4. ASSUME \/ \E t \in Branches : PullStart(t)
             \/ \E lazy \in BOOLEAN : PullResolve(lazy)
             \/ PullGet \/ PullWriteRef \/ PullSnapshotReferrers \/ PullFails
             \/ \E s \in Snapshots : LazyFetch(s)
             \/ UNCHANGED vars
      PROVE  UNCHANGED <<repository, pushes>>
  BY <1>4, Zenon DEF PullStart, PullResolve, PullGet, PullWriteRef, PullSnapshotReferrers,
     PullFails, LazyFetch, vars
<1> QED BY <1>1, <1>2, <1>3, <1>4, Zenon DEF Next

(* What a request leaves of the types, and what it can change. *)
RepositoryTypes ==
    /\ blobs \subseteq Snapshots \X (Kinds \cup {"config", "layer"})
    /\ manifests \subseteq Snapshots
    /\ tags \in [Branches \cup Snapshots -> Snapshots \cup {None}]
    /\ listed \subseteq Referrers /\ attached \subseteq Referrers
    /\ index \in [Snapshots -> SUBSET Bundles]
    /\ seen \in [Pushers -> SUBSET Bundles]
    /\ moved \in [Pushers -> SUBSET Branches]

LEMMA ApplyTypes ==
    ASSUME Types, NEW p \in Pushers, NEW o \in todo[p], Apply(p, o)
    PROVE  RepositoryTypes'
<1>0. o \in PushOp
  BY DEF Types
<1> USE OpFields, <1>0 DEF Types, RepositoryTypes
<1>1. CASE PutBlobs(o)
  BY <1>1 DEF PutBlobs, Apply
<1>2. CASE PutTag(p, o)
  BY <1>2 DEF PutTag, Apply, Others
<1>3. CASE PutReferrer(o)
  BY <1>3 DEF PutReferrer, Apply
<1>4. CASE AttachReferrer(o)
  BY <1>4 DEF AttachReferrer, Apply
<1>5. CASE ReadIndex(p, o)
  BY <1>5 DEF ReadIndex, Apply
<1>6. CASE PutIndex(p, o)
  <2>1. o.of \in Snapshots /\ o.add \in SUBSET Bundles
    BY <1>6 DEF PutIndex
  <2>2. Merge(seen[p], o.add) \in SUBSET Bundles
    BY <2>1 DEF Merge
  <2> QED BY <1>6, <2>1, <2>2 DEF PutIndex, Apply
<1>7. CASE DeleteManifest(p, o)
  BY <1>7 DEF DeleteManifest, Apply, Others
<1> QED BY <1>1, <1>2, <1>3, <1>4, <1>5, <1>6, <1>7 DEF Apply

(* The places before a request that is due are empty. *)
LEMMA BeforeDone ==
    ASSUME PushInv, NEW p \in Pushers, NEW o, Due(p, o),
           NEW x, Before(Pushing(p), o, x)
    PROVE  p \in Running /\ x \in Done(p)
<1>1. p \in Running /\ o \in todo[p] /\ o \in Plan(p) /\ current[p] \in 1..Len(Requests[p])
  BY DEF Due, Running, PushInv, PlanInv
<1>2. Pushing(p) \in Request
  BY <1>1, RequestType DEF Pushing
<1>3. x \in Plan(p) /\ Earlier(x.at, o.at)
  BY DEF Before, Plan
<1>4. x.at \in Place /\ o.at \in Place
  BY <1>1, <1>2, <1>3, PlanAt DEF Plan
<1>5. x \notin todo[p]
  BY <1>3, <1>4, EarlierOrder DEF Due, First
<1> QED BY <1>1, <1>3, <1>5 DEF Done

LEMMA DuePlan ==
    ASSUME PushInv, NEW p \in Pushers, NEW o, Due(p, o)
    PROVE  /\ p \in Running /\ current[p] \in 1..Len(Requests[p])
           /\ Pushing(p) \in Request /\ o \in PushPlan(Pushing(p)) /\ o \in PushOp
<1>1. p \in Running /\ o \in todo[p] /\ o \in Plan(p) /\ current[p] \in 1..Len(Requests[p])
  BY DEF Due, Running, PushInv, PlanInv
<1> QED BY <1>1, RequestType, PlanType DEF Pushing, Plan

LEMMA RunningPlan ==
    ASSUME PushInv, NEW p \in Running
    PROVE  /\ p \in Pushers /\ current[p] \in 1..Len(Requests[p])
           /\ Pushing(p) \in Request /\ Plan(p) = PushPlan(Pushing(p))
BY RequestType DEF Running, PushInv, PlanInv, Pushing, Plan

(* The push that starts next. *)
LEMMA StartPlan ==
    ASSUME PushInv, NEW p \in Pushers, PushStart(p)
    PROVE  /\ current' \in [Pushers -> Nat]
           /\ current'[p] \in 1..Len(Requests[p])
           /\ Requests[p][current'[p]] \in Request
           /\ todo' = [todo EXCEPT ![p] = PushPlan(Requests[p][current'[p]])]
           /\ todo[p] = {}
<1>0. Types /\ Started
  BY DEF PushInv
<1>1. current'[p] = IF result[p] = "failed" THEN current[p] ELSE current[p] + 1
  BY <1>0 DEF PushStart, Types
<1>2. current' \in [Pushers -> Nat]
  BY <1>0 DEF PushStart, Types
<1>3. Len(Requests[p]) \in Nat
  <2>1. Requests[p] \in Seq(Request)
    BY RegistryConstants
  <2> QED BY <2>1
<1>4. current'[p] \in 1..Len(Requests[p])
  <2>1. current'[p] <= Len(Requests[p])
    BY DEF PushStart
  <2>2. current[p] \in Nat
    BY <1>0 DEF Types
  <2> QED BY <1>0, <1>1, <1>3, <2>1, <2>2 DEF Started
<1>5. Requests[p][current'[p]] \in Request
  BY <1>4, RequestType
<1> QED BY <1>2, <1>4, <1>5 DEF PushStart

LEMMA PushInvStep == PushInv /\ [Next]_vars => PushInv'
<1> SUFFICES ASSUME PushInv, [Next]_vars PROVE PushInv'
  OBVIOUS
<1>0. Types /\ PlanInv /\ Started
  BY DEF PushInv
<1>1. ASSUME NEW p \in Pushers, PushStart(p) PROVE PushInv'
  <2>0. /\ current'[p] \in 1..Len(Requests[p]) /\ current' \in [Pushers -> Nat]
        /\ PushPlan(Requests[p][current'[p]]) \subseteq PushOp
        /\ todo' = [todo EXCEPT ![p] = PushPlan(Requests[p][current'[p]])]
    BY <1>1, StartPlan, PlanType
  <2>1. \A q \in Pushers : q # p => current'[q] = current[q] /\ todo'[q] = todo[q]
    BY <1>0, <1>1, <2>0 DEF PushStart, Types
  <2>2. todo'[p] = Plan(p)'
    BY <1>0, <2>0 DEF Plan, Pushing, Types
  <2>3. todo' \in [Pushers -> SUBSET PushOp]
    BY <1>0, <2>0 DEF Types
  <2>4. \A q \in Pushers : current'[q] <= Len(Requests[q])
    <3>1. current'[p] <= Len(Requests[p])
      BY <1>1 DEF PushStart
    <3> QED BY <1>0, <2>1, <3>1 DEF Types
  <2>5. result' = [result EXCEPT ![p] = "none"] /\ passed' \subseteq Pushers
        /\ moved' \in [Pushers -> SUBSET Branches] /\ UNCHANGED <<repository, seen>>
    BY <1>0, <1>1 DEF PushStart, Types
  <2>6. Types'
    BY <1>0, <2>0, <2>3, <2>4, <2>5 DEF Types, repository
  <2>7. Started'
    BY <1>0, <2>1, <2>5 DEF Started, Types
  <2>8. PlanInv'
    <3> SUFFICES ASSUME NEW q \in Running'
                 PROVE  /\ current'[q] \in 1..Len(Requests[q])
                        /\ todo'[q] \subseteq Plan(q)'
                        /\ \A o \in todo'[q], x \in Plan(q)' :
                              Earlier(o.at, x.at) => x \in todo'[q]
      BY DEF PlanInv
    <3>1. CASE q = p
      BY <2>0, <2>2, <3>1
    <3>2. CASE q # p
      <4>1. q \in Running /\ current'[q] = current[q] /\ todo'[q] = todo[q] /\ Plan(q)' = Plan(q)
        BY <2>1, <3>2 DEF Running, Plan, Pushing
      <4> QED BY <1>0, <4>1 DEF PlanInv
    <3> QED BY <3>1, <3>2
  <2> QED BY <2>6, <2>7, <2>8 DEF PushInv
<1>2. ASSUME NEW p \in Pushers, NEW o \in todo[p], PushStep(p, o) PROVE PushInv'
  <2>1. p \in Running /\ current[p] \in 1..Len(Requests[p])
    BY <1>2, DuePlan DEF PushStep
  <2>2. RepositoryTypes'
    <3>1. CASE Apply(p, o)
      BY <1>0, <3>1, ApplyTypes
    <3>2. CASE UNCHANGED <<repository, moved, seen>>
      BY <1>0, <3>2 DEF RepositoryTypes, Types, repository
    <3> QED BY <1>2, <3>1, <3>2 DEF PushStep, Accepted
  <2>3. PICK left : /\ left \in SUBSET todo[p] /\ todo' = [todo EXCEPT ![p] = left]
                    /\ left = todo[p] \ {o} \/ left = {}
    BY <1>2 DEF PushStep, Made, Ends
  <2>4. /\ result' \in [Pushers -> {"none", "ok", "failed", "conflict"}]
        /\ \A q \in Pushers : q # p => result'[q] = result[q]
        /\ passed' \subseteq Pushers /\ current' = current
    BY <1>0, <1>2 DEF PushStep, Ends, Types
  <2>5. Types'
    <3>1. todo' \in [Pushers -> SUBSET PushOp]
      BY <1>0, <2>3 DEF Types
    <3> QED BY <1>0, <2>2, <2>4, <3>1 DEF Types, RepositoryTypes
  <2>6. Started'
    BY <1>0, <2>1, <2>4 DEF Started
  <2>7. PlanInv'
    <3> SUFFICES ASSUME NEW q \in Running'
                 PROVE  /\ current'[q] \in 1..Len(Requests[q])
                        /\ todo'[q] \subseteq Plan(q)'
                        /\ \A y \in todo'[q], x \in Plan(q)' :
                              Earlier(y.at, x.at) => x \in todo'[q]
      BY DEF PlanInv
    <3>1. Plan(q)' = Plan(q) /\ current'[q] = current[q]
      BY <2>4 DEF Plan, Pushing
    <3>2. q \in Running /\ todo'[q] \subseteq todo[q]
      BY <1>0, <2>3 DEF Running, Types
    <3>3. CASE q = p
      <4>1. todo'[p] = todo[p] \ {o}
        BY <1>0, <2>3, <3>3 DEF Running, Types
      <4>2. ASSUME NEW y \in todo'[p], NEW x \in Plan(p), Earlier(y.at, x.at)
            PROVE  x \in todo'[p]
        <5>1. x \in todo[p] /\ y \in todo[p] /\ y # o
          BY <1>0, <2>1, <4>1, <4>2 DEF PlanInv
        <5>2. ~Earlier(y.at, o.at)
          BY <1>2, <5>1 DEF PushStep, Due, First
        <5>3. x # o
          BY <4>2, <5>2
        <5> QED BY <4>1, <5>1, <5>3
      <4> QED BY <1>0, <2>1, <3>1, <3>2, <3>3, <4>2 DEF PlanInv
    <3>4. CASE q # p
      <4>1. todo'[q] = todo[q]
        BY <1>0, <2>3, <3>2, <3>4 DEF Types, Running
      <4> QED BY <1>0, <3>1, <3>2, <4>1 DEF PlanInv
    <3> QED BY <3>3, <3>4
  <2> QED BY <2>5, <2>6, <2>7 DEF PushInv
<1>3. CASE UNCHANGED <<repository, pushes>>
  <2>1. UNCHANGED <<blobs, manifests, tags, listed, attached, index,
                    current, todo, result, seen, passed, moved>>
    BY <1>3 DEF repository, pushes
  <2>2. Types' /\ Started'
    BY <1>0, <2>1 DEF Types, Started
  <2>3. PlanInv'
    BY <1>0, <2>1 DEF PlanInv, Running, Plan, Pushing
  <2> QED BY <2>2, <2>3 DEF PushInv
<1> QED BY <1>1, <1>2, <1>3, NextKinds

(* What is done after a step was done before or is what the step did. *)
LEMMA DoneFrom ==
    ASSUME PushInv, [Next]_vars, NEW q \in Running', NEW x \in Done(q)'
    PROVE  /\ q \in Running /\ Pushing(q)' = Pushing(q) /\ Plan(q)' = Plan(q)
           /\ todo'[q] \subseteq todo[q]
           /\ x \in Done(q) \/ (Due(q, x) /\ (Apply(q, x) \/ Accepted(q, x)))
<1>0. Types /\ q \in Pushers
  BY DEF PushInv, Running
<1>1. ASSUME NEW p \in Pushers, PushStart(p)
      PROVE  q \in Running /\ todo'[q] = todo[q] /\ current'[q] = current[q]
  <2>1. todo' = [todo EXCEPT ![p] = PushPlan(Requests[p][current'[p]])]
    BY <1>1, StartPlan
  <2>2. todo'[p] = Plan(p)'
    BY <1>0, <2>1 DEF Plan, Pushing, Types
  <2>3. q # p
    BY <2>2 DEF Done
  <2> QED BY <1>0, <1>1, <2>1, <2>3 DEF Running, Types, PushStart
<1>2. ASSUME NEW p \in Pushers, NEW o \in todo[p], PushStep(p, o)
      PROVE  /\ q \in Running /\ todo'[q] \subseteq todo[q] /\ current'[q] = current[q]
             /\ \/ todo'[q] = todo[q]
                \/ q = p /\ todo'[q] = todo[q] \ {o} /\ (Apply(p, o) \/ Accepted(p, o))
  <2>1. CASE q = p
    <3>1. ~Ends(p, "conflict") /\ ~Ends(p, "failed")
      BY <1>0, <2>1 DEF Ends, Running, Types
    <3>2. Made(p, o) /\ (Apply(p, o) \/ Accepted(p, o))
      BY <1>2, <3>1 DEF PushStep
    <3> QED BY <1>0, <1>2, <2>1, <3>2 DEF Made, Types, Running, PushStep
  <2>2. CASE q # p
    <3>1. todo'[q] = todo[q]
      BY <1>0, <1>2, <2>2 DEF PushStep, Made, Ends, Types
    <3>2. current' = current
      BY <1>2 DEF PushStep
    <3> QED BY <1>0, <3>1, <3>2 DEF Running
  <2> QED BY <2>1, <2>2
<1>3. ASSUME UNCHANGED <<repository, pushes>>
      PROVE  x \in Done(q) /\ q \in Running /\ Pushing(q)' = Pushing(q) /\ Plan(q)' = Plan(q)
             /\ todo'[q] \subseteq todo[q]
  <2>1. todo' = todo /\ current' = current
    BY <1>3 DEF pushes
  <2>2. Pushing(q)' = Pushing(q) /\ Plan(q)' = Plan(q)
    BY <2>1 DEF Pushing, Plan
  <2> QED BY <1>0, <2>1, <2>2 DEF Running, Done
<1>4. ASSUME current'[q] = current[q] PROVE Pushing(q)' = Pushing(q) /\ Plan(q)' = Plan(q)
  BY <1>4 DEF Pushing, Plan
<1>5. ASSUME NEW p \in Pushers, PushStart(p)
      PROVE  x \in Done(q) /\ q \in Running /\ Pushing(q)' = Pushing(q) /\ Plan(q)' = Plan(q)
             /\ todo'[q] \subseteq todo[q]
  BY <1>1, <1>4, <1>5 DEF Done
<1>6. ASSUME NEW p \in Pushers, NEW o \in todo[p], PushStep(p, o)
      PROVE  /\ q \in Running /\ Pushing(q)' = Pushing(q) /\ Plan(q)' = Plan(q)
             /\ todo'[q] \subseteq todo[q]
             /\ x \in Done(q) \/ (Due(q, x) /\ (Apply(q, x) \/ Accepted(q, x)))
  <2>1. Due(p, o)
    BY <1>6 DEF PushStep
  <2>2. /\ q \in Running /\ todo'[q] \subseteq todo[q] /\ current'[q] = current[q]
        /\ \/ todo'[q] = todo[q]
           \/ q = p /\ todo'[q] = todo[q] \ {o} /\ (Apply(p, o) \/ Accepted(p, o))
    BY <1>2, <1>6
  <2>3. Pushing(q)' = Pushing(q) /\ Plan(q)' = Plan(q)
    BY <1>4, <2>2
  <2>4. x \in Plan(q) /\ x \notin todo'[q]
    BY <2>3 DEF Done
  <2>5. x \in Done(q) \/ (q = p /\ x = o /\ (Apply(p, o) \/ Accepted(p, o)))
    BY <2>2, <2>4 DEF Done
  <2> QED BY <2>1, <2>2, <2>3, <2>5
<1> QED BY <1>3, <1>5, <1>6, NextKinds

(* Only requests change the repository. *)
LEMMA RepositoryChange ==
    ASSUME [Next]_vars
    PROVE  \/ UNCHANGED <<repository, seen>>
           \/ \E p \in Pushers : \E o \in todo[p] : Due(p, o) /\ Apply(p, o)
<1>1. ASSUME NEW p \in Pushers, PushStart(p) PROVE UNCHANGED <<repository, seen>>
  BY <1>1 DEF PushStart
<1>2. ASSUME NEW p \in Pushers, NEW o \in todo[p], PushStep(p, o)
      PROVE  (Due(p, o) /\ Apply(p, o)) \/ UNCHANGED <<repository, seen>>
  BY <1>2 DEF PushStep, Accepted
<1>3. CASE UNCHANGED <<repository, pushes>>
  BY <1>3 DEF pushes
<1> QED BY <1>1, <1>2, <1>3, NextKinds

(* Nothing but manifests, tags and entries of the index is ever removed. *)
LEMMA UploadsStay ==
    ASSUME [Next]_vars
    PROVE  blobs \subseteq blobs' /\ listed \subseteq listed' /\ attached \subseteq attached'
<1>1. CASE UNCHANGED <<repository, seen>>
  BY <1>1 DEF repository
<1>2. ASSUME NEW p \in Pushers, NEW o \in todo[p], Apply(p, o)
      PROVE  blobs \subseteq blobs' /\ listed \subseteq listed' /\ attached \subseteq attached'
  BY <1>2 DEF Apply, PutBlobs, PutTag, PutReferrer, AttachReferrer, ReadIndex, PutIndex,
     DeleteManifest
<1> QED BY <1>1, <1>2, RepositoryChange

UploadsDone ==
    \A p \in Running : \A x \in Done(p) :
        /\ x.op = "blobs" => x.of \subseteq blobs
        /\ x.op = "referrer" => x.of \in listed

(* The index that was read names referrers that the registry has. *)
SeenListed ==
    \A p \in Running : \A x \in Done(p), o \in todo[p] :
        x.op = "readIndex" /\ o.op = "putIndex" /\ o.at[1] = x.at[1]
            => {x.of} \X seen[p] \subseteq listed

ReferrersKnown ==
    \A s \in Snapshots, k \in Kinds :
        /\ <<s, k>> \in listed \cup attached => <<s, k>> \in blobs
        /\ k \in index[s] => <<s, k>> \in listed

ReferrerInv == UploadsDone /\ SeenListed /\ ReferrersKnown

LEMMA UploadsStep ==
    ASSUME PushInv, UploadsDone, [Next]_vars
    PROVE  UploadsDone'
<1> SUFFICES ASSUME NEW q \in Running', NEW x \in Done(q)'
             PROVE  /\ x.op = "blobs" => x.of \subseteq blobs'
                    /\ x.op = "referrer" => x.of \in listed'
  BY DEF UploadsDone
<1>0. q \in Running /\ (x \in Done(q) \/ (Due(q, x) /\ (Apply(q, x) \/ Accepted(q, x))))
  BY DoneFrom
<1>1. CASE x \in Done(q)
  BY <1>0, <1>1, UploadsStay DEF UploadsDone
<1>2. CASE Apply(q, x)
  BY <1>2 DEF Apply, PutBlobs, PutTag, PutReferrer, AttachReferrer, ReadIndex, PutIndex,
     DeleteManifest
<1>3. CASE Accepted(q, x)
  BY <1>3 DEF Accepted
<1> QED BY <1>0, <1>1, <1>2, <1>3

LEMMA ReferrersStep ==
    ASSUME PushInv, ReferrerInv, [Next]_vars
    PROVE  ReferrersKnown'
<1>0. Types /\ ReferrersKnown /\ UploadsDone /\ SeenListed
  BY DEF PushInv, ReferrerInv
<1>1. CASE UNCHANGED <<repository, seen>>
  BY <1>0, <1>1 DEF repository, ReferrersKnown
<1>2. ASSUME NEW p \in Pushers, NEW o \in todo[p], Due(p, o), Apply(p, o)
      PROVE  ReferrersKnown'
  <2>0. Pushing(p) \in Request /\ o \in PushPlan(Pushing(p)) /\ o \in PushOp /\ p \in Running
    BY <1>2, DuePlan
  <2>1. CASE o.op \in {"referrer", "attach"}
    <3>1. PICK x : Before(Pushing(p), o, x) /\ x.op = "blobs" /\ o.of \in x.of
      BY <2>0, <2>1, BlobBefore
    <3>2. x \in Done(p)
      BY <1>2, <3>1, BeforeDone
    <3>3. o.of \in blobs
      BY <1>0, <2>0, <3>1, <3>2 DEF UploadsDone
    <3>4. blobs' = blobs /\ index' = index /\ listed \subseteq listed'
          /\ listed' \cup attached' = listed \cup attached \cup {o.of}
      BY <1>2, <2>1 DEF Apply, PutBlobs, PutTag, PutReferrer, AttachReferrer, ReadIndex,
         PutIndex, DeleteManifest
    <3> QED BY <1>0, <3>3, <3>4 DEF ReferrersKnown
  <2>2. CASE o.op = "putIndex"
    <3>1. PutIndex(p, o) /\ o.of \in Snapshots /\ o.add \in SUBSET Bundles
      BY <1>2, <2>0, <2>2, OpFields DEF Apply, PutBlobs, PutTag, PutReferrer, AttachReferrer,
         ReadIndex, DeleteManifest
    <3>2. PICK x : /\ Before(Pushing(p), o, x) /\ x.op = "readIndex" /\ x.of = o.of
                   /\ x.at[1] = o.at[1]
      BY <2>0, <2>2, BundlesBefore
    <3>3. x \in Done(p)
      BY <1>2, <3>2, BeforeDone
    <3>4. {o.of} \X seen[p] \subseteq listed
      BY <1>0, <2>0, <2>2, <3>2, <3>3 DEF SeenListed
    <3>5. ASSUME NEW k \in o.add PROVE <<o.of, k>> \in listed
      <4>1. PICK y : Before(Pushing(p), o, y) /\ y.op = "referrer" /\ y.of = <<o.of, k>>
        BY <2>0, <2>2, BundlesBefore
      <4>2. y \in Done(p)
        BY <1>2, <4>1, BeforeDone
      <4> QED BY <1>0, <2>0, <4>1, <4>2 DEF UploadsDone
    <3>6. index' = [index EXCEPT ![o.of] = seen[p] \cup o.add]
          /\ UNCHANGED <<blobs, listed, attached>>
      BY <3>1 DEF PutIndex, Merge
    <3>7. \A s \in Snapshots : \A k \in index'[s] : <<s, k>> \in listed
      <4> SUFFICES ASSUME NEW s \in Snapshots, NEW k \in index'[s]
                   PROVE  <<s, k>> \in listed
        OBVIOUS
      <4>1. CASE s = o.of
        <5>1. k \in seen[p] \cup o.add
          BY <1>0, <3>1, <3>6, <4>1 DEF Types
        <5> QED BY <3>4, <3>5, <4>1, <5>1
      <4>2. CASE s # o.of
        <5>1. k \in index[s] /\ k \in Kinds
          BY <1>0, <3>6, <4>2 DEF Types, Kinds
        <5> QED BY <1>0, <5>1 DEF ReferrersKnown
      <4> QED BY <4>1, <4>2
    <3> QED BY <1>0, <3>6, <3>7 DEF ReferrersKnown
  <2>3. CASE o.op \notin {"referrer", "attach", "putIndex"}
    <3>1. blobs \subseteq blobs' /\ UNCHANGED <<listed, attached, index>>
      BY <1>2, <2>3 DEF Apply, PutBlobs, PutTag, PutReferrer, AttachReferrer, ReadIndex,
         PutIndex, DeleteManifest
    <3> QED BY <1>0, <3>1 DEF ReferrersKnown
  <2> QED BY <2>1, <2>2, <2>3
<1> QED BY <1>1, <1>2, RepositoryChange

LEMMA SeenStep ==
    ASSUME PushInv, ReferrerInv, [Next]_vars
    PROVE  SeenListed'
<1> SUFFICES ASSUME NEW q \in Running', NEW x \in Done(q)', NEW o \in todo'[q],
                    x.op = "readIndex", o.op = "putIndex", o.at[1] = x.at[1]
             PROVE  {x.of} \X seen'[q] \subseteq listed'
  BY DEF SeenListed
<1>0. Types /\ PlanInv /\ ReferrersKnown /\ SeenListed
  BY DEF PushInv, ReferrerInv
<1>1. /\ q \in Running /\ q \in Pushers /\ o \in todo[q]
      /\ x \in Done(q) \/ (Due(q, x) /\ (Apply(q, x) \/ Accepted(q, x)))
  BY DoneFrom DEF Running
<1>2. listed \subseteq listed'
  BY UploadsStay
<1>3. CASE x \in Done(q)
  <2>1. {x.of} \X seen[q] \subseteq listed
    BY <1>0, <1>1, <1>3 DEF SeenListed
  <2>2. seen'[q] = seen[q]
    <3>1. CASE UNCHANGED <<repository, seen>>
      BY <3>1
    <3>2. ASSUME NEW p \in Pushers, NEW z \in todo[p], Due(p, z), Apply(p, z)
          PROVE  seen'[q] = seen[q]
      <4>1. CASE p # q \/ z.op # "readIndex"
        BY <1>0, <1>1, <3>2, <4>1 DEF Types, Apply, PutBlobs, PutTag, PutReferrer,
           AttachReferrer, ReadIndex, PutIndex, DeleteManifest
      <4>2. CASE p = q /\ z.op = "readIndex"
        <5>0. Pushing(q) \in Request /\ Plan(q) = PushPlan(Pushing(q)) /\ todo[q] \subseteq Plan(q)
          BY <1>0, <1>1, RunningPlan DEF PlanInv
        <5>1. x \in PushPlan(Pushing(q)) /\ z \in PushPlan(Pushing(q)) /\ o \in PushPlan(Pushing(q))
              /\ x \notin todo[q]
          BY <1>1, <1>3, <3>2, <4>2, <5>0 DEF Done
        <5>2. x.at \in Place /\ z.at \in Place /\ o.at \in Place
          BY <5>0, <5>1, PlanAt
        <5>3. PICK i : x.at = <<i, 7, 1>>
          BY <5>0, <5>1, IndexOf DEF IsIndex
        <5>4. PICK j : z.at = <<j, 7, 1>>
          BY <4>2, <5>0, <5>1, IndexOf DEF IsIndex
        <5>5. PICK m : o.at = <<m, 7, 2>>
          BY <5>0, <5>1, IndexOf DEF IsIndex
        <5>6. i = x.at[1] /\ j = z.at[1] /\ m = o.at[1] /\ i \in Nat /\ j \in Nat /\ m = i
          BY <5>2, <5>3, <5>4, <5>5 DEF Place
        <5>7. ~Earlier(o.at, z.at)
          BY <1>1, <3>2, <4>2 DEF Due, First
        <5>8. j <= i
          BY <5>4, <5>5, <5>6, <5>7 DEF Earlier
        <5>9. ~Earlier(z.at, x.at)
          BY <1>0, <1>1, <3>2, <4>2, <5>0, <5>1 DEF PlanInv
        <5>10. j = i
          BY <5>3, <5>4, <5>6, <5>8, <5>9 DEF Earlier
        <5>11. x = z
          BY <4>2, <5>0, <5>1, <5>3, <5>4, <5>6, <5>10, SameIndex
        <5> QED BY <3>2, <4>2, <5>1, <5>11
      <4> QED BY <4>1, <4>2
    <3> QED BY <3>1, <3>2, RepositoryChange
  <2> QED BY <1>2, <2>1, <2>2
<1>4. CASE Apply(q, x)
  <2>1. seen' = [seen EXCEPT ![q] = index[x.of]]
    BY <1>4 DEF Apply, PutBlobs, PutTag, PutReferrer, AttachReferrer, ReadIndex, PutIndex,
       DeleteManifest
  <2>2. x.of \in Snapshots
    <3>1. CASE x \in Done(q)
      BY <1>1, <3>1, RunningPlan, PlanType, OpFields DEF Done
    <3>2. CASE Due(q, x)
      BY <1>1, <3>2, DuePlan, OpFields
    <3> QED BY <1>1, <3>1, <3>2
  <2>3. seen'[q] = index[x.of] /\ index[x.of] \subseteq Kinds
    BY <1>0, <1>1, <2>1, <2>2 DEF Types, Kinds
  <2>4. {x.of} \X index[x.of] \subseteq listed
    BY <1>0, <2>2, <2>3 DEF ReferrersKnown
  <2> QED BY <1>2, <2>3, <2>4
<1>5. CASE Accepted(q, x)
  BY <1>5 DEF Accepted
<1> QED BY <1>1, <1>3, <1>4, <1>5

-----------------------------------------------------------------------------
(***************************************************************************)
(* The pull.  What is left of it is part of the plan for the snapshot that *)
(* was resolved, and what of the plan is not left is in the store.         *)
(***************************************************************************)
PullTypes ==
    /\ pull \subseteq PullOp
    /\ have \subseteq Snapshots \X (Kinds \cup {"manifest", "config", "layer", "source"})
    /\ refs \subseteq Snapshots /\ localTag \in Snapshots \cup {None}
    /\ pulled \in BOOLEAN
    /\ owed \subseteq Referrers
    /\ pulls \in 0..MaxPulls /\ faults \in 0..MaxFaults

Fetched(x) ==
    /\ x.op = "parent" => <<x.of, "manifest">> \in have
    /\ x.op \in {"config", "layer", "source"} => <<x.of, x.op>> \in have
    /\ x.op = "tagged" => \A k \in Kinds : <<x.of, k>> \in owed => <<x.of, k>> \in have

LocalTag(s) == PullOf("localTag", s, <<3, 0, 0>>)

PullsPlan(s, lazy) ==
    /\ pull \subseteq PullPlan(s, lazy)
    /\ LocalTag(s) \in pull
    /\ <<s, "manifest">> \in have
    /\ \A x \in PullPlan(s, lazy) : x \in pull \/ Fetched(x)

Resolves == \E t \in Branches : pull = {PullOf("resolve", t, <<0, 0, 0>>)}
Fetches == \E s \in Snapshots, lazy \in BOOLEAN : PullsPlan(s, lazy)

PullInv ==
    pull # {} => /\ ~pulled
                 /\ \A s \in Snapshots, k \in Kinds : <<s, k>> \in owed => Published(s, k)
                 /\ Resolves \/ Fetches

Arrived == pulled => localTag \in Snapshots

LEMMA PullPlanOps ==
    ASSUME NEW s \in Snapshots, NEW lazy \in BOOLEAN, NEW x \in PullPlan(s, lazy)
    PROVE  /\ x \in PullOp /\ x.op # "resolve"
           /\ x = LocalTag(s) \/ (x.op # "localTag" /\ Earlier(x.at, <<3, 0, 0>>))
<1> DEFINE n == Len(Chain[s])
<1>0. n \in Nat \ {0} /\ \A i \in 1..n : Chain[s][i] \in Snapshots
  BY ChainType
<1>1. ASSUME NEW i \in 1..n, x \in PullSnapshot(Chain[s][i], lazy, n - i)
      PROVE  /\ x \in PullOp /\ x.op \notin {"resolve", "localTag"}
             /\ Earlier(x.at, <<3, 0, 0>>)
  <2>1. n - i \in Nat
    BY <1>0
  <2>2. PICK op \in {"config", "layer", "source", "ID"}, j \in {1, 2, 3} :
          x = [op |-> op, of |-> Chain[s][i], at |-> <<1, n - i, j>>]
    BY <1>1 DEF PullSnapshot, PullOf
  <2>3. <<1, n - i, j>> \in Place /\ Earlier(<<1, n - i, j>>, <<3, 0, 0>>)
    BY <2>1 DEF Place, Earlier
  <2>4. x.op = op /\ x.at = <<1, n - i, j>>
    BY <2>2
  <2>5. x \in PullOp
    BY <1>0, <2>2, <2>3 DEF PullOp
  <2> QED BY <2>3, <2>4, <2>5
<1>2. ASSUME NEW i \in 1..n, i <= n - 1, x = PullOf("parent", Chain[s][i], <<1, n - i, 0>>)
      PROVE  /\ x \in PullOp /\ x.op \notin {"resolve", "localTag"}
             /\ Earlier(x.at, <<3, 0, 0>>)
  <2>1. <<1, n - i, 0>> \in Place /\ Earlier(<<1, n - i, 0>>, <<3, 0, 0>>)
    BY <1>0 DEF Place, Earlier
  <2>2. x = [op |-> "parent", of |-> Chain[s][i], at |-> <<1, n - i, 0>>]
    BY <1>2 DEF PullOf
  <2> QED BY <1>0, <2>1, <2>2 DEF PullOp
<1>3. ASSUME NEW i \in 1..n, NEW op \in {"list", "tagged"}, NEW j \in {1, 2},
             x = PullOf(op, Chain[s][i], <<2, i, j>>)
      PROVE  /\ x \in PullOp /\ x.op \notin {"resolve", "localTag"}
             /\ Earlier(x.at, <<3, 0, 0>>)
  <2>1. <<2, i, j>> \in Place /\ Earlier(<<2, i, j>>, <<3, 0, 0>>)
    BY <1>0 DEF Place, Earlier
  <2>2. x = [op |-> op, of |-> Chain[s][i], at |-> <<2, i, j>>]
    BY <1>3 DEF PullOf
  <2> QED BY <1>0, <2>1, <2>2 DEF PullOp
<1>4. LocalTag(s) \in PullOp /\ LocalTag(s).op = "localTag"
  <2>1. <<3, 0, 0>> \in Place
    BY DEF Place
  <2> QED BY <2>1 DEF LocalTag, PullOf, PullOp
<1>5. \/ x = LocalTag(s)
      \/ \E i \in 1..n : x \in PullSnapshot(Chain[s][i], lazy, n - i)
      \/ \E i \in 1..n : i <= n - 1 /\ x = PullOf("parent", Chain[s][i], <<1, n - i, 0>>)
      \/ \E i \in 1..n : \/ x = PullOf("list", Chain[s][i], <<2, i, 1>>)
                        \/ x = PullOf("tagged", Chain[s][i], <<2, i, 2>>)
  <2>1. \/ x = LocalTag(s)
        \/ \E i \in 1..n : x \in PullSnapshot(Chain[s][i], lazy, n - i)
        \/ \E i \in 1..(n - 1) : x = PullOf("parent", Chain[s][i], <<1, n - i, 0>>)
        \/ \E i \in 1..n : x = PullOf("list", Chain[s][i], <<2, i, 1>>)
        \/ \E i \in 1..n : x = PullOf("tagged", Chain[s][i], <<2, i, 2>>)
    BY Zenon DEF PullPlan, PullChain, LocalTag
  <2>2. 1..(n - 1) \subseteq 1..n /\ \A i \in 1..(n - 1) : i <= n - 1
    BY <1>0
  <2> HIDE DEF n
  <2> QED BY <2>1, <2>2, Zenon
<1> HIDE DEF n
<1> QED BY <1>1, <1>2, <1>3, <1>4, <1>5

(* Every snapshot of the chain has its part in the plan. *)
LEMMA PullPlanHas ==
    ASSUME NEW s \in Snapshots, NEW lazy \in BOOLEAN, NEW i \in 1..Len(Chain[s])
    PROVE  /\ \E x \in PullPlan(s, lazy) : x.op = "config" /\ x.of = Chain[s][i]
           /\ \E x \in PullPlan(s, lazy) : x.op \in {"layer", "source"} /\ x.of = Chain[s][i]
           /\ \E x \in PullPlan(s, lazy) : x.op = "tagged" /\ x.of = Chain[s][i]
           /\ Chain[s][i] # s =>
                \E x \in PullPlan(s, lazy) : x.op = "parent" /\ x.of = Chain[s][i]
           /\ LocalTag(s) \in PullPlan(s, lazy)
<1> DEFINE n == Len(Chain[s])
<1>0. n \in Nat \ {0} /\ (Chain[s][i] # s => i \in 1..(n - 1))
  BY ChainType
<1>1. \A x \in PullSnapshot(Chain[s][i], lazy, n - i) : x \in PullPlan(s, lazy)
  BY Zenon DEF PullPlan, PullChain
<1>2. PullOf("tagged", Chain[s][i], <<2, i, 2>>) \in PullPlan(s, lazy)
  BY Zenon DEF PullPlan, PullChain
<1>3. i \in 1..(n - 1) => PullOf("parent", Chain[s][i], <<1, n - i, 0>>) \in PullPlan(s, lazy)
  BY Zenon DEF PullPlan, PullChain
<1>4. LocalTag(s) \in PullPlan(s, lazy)
  BY Zenon DEF PullPlan, LocalTag
<1>5. \A op, at : PullOf(op, Chain[s][i], at).op = op /\ PullOf(op, Chain[s][i], at).of = Chain[s][i]
  BY DEF PullOf
<1>6. /\ PullOf("config", Chain[s][i], <<1, n - i, 1>>) \in PullPlan(s, lazy)
      /\ \/ PullOf("layer", Chain[s][i], <<1, n - i, 2>>) \in PullPlan(s, lazy)
         \/ PullOf("source", Chain[s][i], <<1, n - i, 2>>) \in PullPlan(s, lazy)
  BY <1>1 DEF PullSnapshot
<1> HIDE DEF n
<1> QED BY <1>0, <1>2, <1>3, <1>4, <1>5, <1>6

(* What is published while a pull runs stays so, or is no longer owed. *)
LEMMA OwedPublished ==
    ASSUME Types, [Next]_vars, NEW p \in Pushers, NEW o \in todo[p], Apply(p, o)
    PROVE  /\ owed' \subseteq owed
           /\ \A s \in Snapshots, k \in Kinds :
                <<s, k>> \in owed' /\ Published(s, k) => Published(s, k)'
<1>0. o \in PushOp
  BY DEF Types
<1>1. CASE o.op = "putIndex"
  <2>1. PutIndex(p, o) /\ o.of \in Snapshots
    BY <1>0, <1>1, OpFields DEF Apply, PutBlobs, PutTag, PutReferrer, AttachReferrer,
       ReadIndex, DeleteManifest
  <2>2. owed' \subseteq owed /\ attached' = attached
    BY <2>1 DEF PutIndex
  <2> SUFFICES ASSUME NEW s \in Snapshots, NEW k \in Kinds, <<s, k>> \in owed',
                      Published(s, k)
               PROVE  Published(s, k)'
    BY <2>2
  <2>3. CASE k \notin Bundles
    BY <2>2, <2>3 DEF Published
  <2>4. CASE k \in Bundles /\ s # o.of
    BY <2>1, <2>4 DEF Published, PutIndex, Types
  <2>5. CASE k \in Bundles /\ s = o.of /\ seen[p] = index[o.of]
    <3>1. index'[s] = seen[p] \cup o.add /\ k \in index[s]
      BY <2>1, <2>5 DEF Published, PutIndex, Merge, Types
    <3> QED BY <2>5, <3>1 DEF Published
  <2>6. CASE k \in Bundles /\ s = o.of /\ seen[p] # index[o.of]
    <3>1. owed' = owed \ ({o.of} \X (Bundles \ index'[o.of]))
      BY <2>1, <2>6 DEF PutIndex
    <3>2. k \in index'[s]
      BY <2>6, <3>1
    <3> QED BY <2>6, <3>2 DEF Published
  <2> QED BY <2>3, <2>4, <2>5, <2>6
<1>2. CASE o.op # "putIndex"
  <2>1. owed' = owed /\ index' = index /\ attached \subseteq attached'
    BY <1>2 DEF Apply, PutBlobs, PutTag, PutReferrer, AttachReferrer, ReadIndex, PutIndex,
       DeleteManifest
  <2> QED BY <2>1 DEF Published
<1> QED BY <1>1, <1>2

LEMMA PublishedInStore ==
    ASSUME Types, ReferrersKnown, NEW s \in Snapshots, NEW k \in Kinds, Published(s, k)
    PROVE  <<s, k>> \in Fallback(s) \cap blobs
<1>1. <<s, k>> \in blobs
  BY DEF ReferrersKnown, Published
<1>2. <<s, k>> \in Referrers
  BY DEF Referrers
<1> QED BY <1>1, <1>2 DEF Fallback

(***************************************************************************)
(* The steps of the pull and of the pushes, for the pull.                  *)
(***************************************************************************)
PullIdle ==
    /\ UNCHANGED <<pull, have, refs, localTag, pulled>>
    /\ owed' \subseteq owed
    /\ \A s \in Snapshots, k \in Kinds : <<s, k>> \in owed' /\ Published(s, k) => Published(s, k)'

LEMMA PushesIdle ==
    ASSUME Types, [Next]_vars, NEW p \in Pushers,
           PushStart(p) \/ PushRequest(p) \/ CheckTag(p) \/ PushFails(p)
    PROVE  PullIdle
<1>1. ASSUME UNCHANGED <<repository, owed, pull, have, refs, localTag, pulled>> PROVE PullIdle
  BY <1>1 DEF PullIdle, Published, repository
<1>2. CASE PushStart(p)
  BY <1>1, <1>2 DEF PushStart, local
<1>3. CASE CheckTag(p)
  BY <1>1, <1>3 DEF CheckTag, local
<1>4. CASE PushRequest(p)
  BY <1>4, OwedPublished DEF PushRequest, PullIdle
<1>5. CASE PushFails(p)
  <2>1. PICK o \in todo[p] : Apply(p, o) \/ UNCHANGED <<repository, moved, seen, owed>>
    BY <1>5 DEF PushFails
  <2>2. UNCHANGED <<pull, have, refs, localTag, pulled>>
    BY <1>5 DEF PushFails
  <2>3. CASE Apply(p, o)
    BY <2>2, <2>3, OwedPublished DEF PullIdle
  <2>4. CASE UNCHANGED <<repository, moved, seen, owed>>
    BY <1>1, <2>2, <2>4
  <2> QED BY <2>1, <2>3, <2>4
<1> QED BY <1>2, <1>3, <1>4, <1>5

LEMMA IdleKeeps ==
    ASSUME PullInv, PulledComplete, ReferrersArrive, Arrived, PullIdle
    PROVE  PullInv' /\ PulledComplete' /\ ReferrersArrive' /\ Arrived'
<1>1. PulledComplete' /\ Arrived'
  BY DEF PulledComplete, Arrived, PullIdle
<1>2. ReferrersArrive'
  BY DEF ReferrersArrive, PullIdle
<1>3. ASSUME pull # {} PROVE Resolves' \/ Fetches'
  <2>1. CASE Resolves
    BY <2>1 DEF Resolves, PullIdle
  <2>2. CASE Fetches
    <3>1. PICK s \in Snapshots, lazy \in BOOLEAN : PullsPlan(s, lazy)
      BY <2>2 DEF Fetches
    <3>2. \A x : Fetched(x) => Fetched(x)'
      BY DEF Fetched, PullIdle
    <3>3. PullsPlan(s, lazy)'
      BY <3>1, <3>2 DEF PullsPlan, PullIdle
    <3> QED BY <3>3 DEF Fetches
  <2> QED BY <1>3, <2>1, <2>2 DEF PullInv
<1>4. PullInv'
  BY <1>3 DEF PullInv, PullIdle
<1> QED BY <1>1, <1>2, <1>4

(* The pull moves on by the request o, which is not the last one. *)
LEMMA PullProgress ==
    ASSUME PullTypes, PullInv, PulledComplete, NEW o \in pull, o.op \notin {"resolve", "localTag"},
           pull' = pull \ {o}, have \subseteq have', Fetched(o)',
           UNCHANGED <<repository, localTag, owed>>, ~pulled'
    PROVE  PullInv' /\ PulledComplete' /\ ReferrersArrive' /\ Arrived'
<1>1. ~Resolves
  BY DEF Resolves, PullOf
<1>2. PICK s \in Snapshots, lazy \in BOOLEAN : PullsPlan(s, lazy)
  BY <1>1 DEF PullInv, Fetches
<1>3. \A x : Fetched(x) => Fetched(x)'
  BY DEF Fetched
<1>4. LocalTag(s).op = "localTag"
  BY DEF LocalTag, PullOf
<1>5. PullsPlan(s, lazy)'
  BY <1>2, <1>3, <1>4 DEF PullsPlan
<1>6. \A x \in Snapshots, k \in Kinds : Published(x, k)' = Published(x, k)
  BY DEF Published, repository
<1>7. PullInv'
  BY <1>5, <1>6 DEF PullInv, Fetches
<1>8. PulledComplete'
  BY DEF PulledComplete
<1> QED BY <1>7, <1>8 DEF ReferrersArrive, Arrived

(* The local tag is the last that a pull writes, and leads to what it has  *)
(* fetched.                                                                *)
LEMMA PullTag ==
    ASSUME PullTypes, PullInv, NEW o \in pull, PullDue(o), o.op = "localTag",
           pull' = pull \ {o}, localTag' = o.of, UNCHANGED <<have, owed>>
    PROVE  pull' = {} /\ PulledComplete' /\ ReferrersArrive' /\ Arrived'
<1>1. ~Resolves
  BY DEF Resolves, PullOf
<1>2. PICK s \in Snapshots, lazy \in BOOLEAN : PullsPlan(s, lazy)
  BY <1>1 DEF PullInv, Fetches
<1>3. o = LocalTag(s)
  BY <1>2, PullPlanOps DEF PullsPlan
<1>4. o.at = <<3, 0, 0>> /\ o.of = s
  BY <1>3 DEF LocalTag, PullOf
<1>5. ASSUME NEW x \in pull, x # o PROVE FALSE
  <2>1. Earlier(o.at, x.at) /\ Earlier(x.at, o.at)
    BY <1>2, <1>3, <1>4, <1>5, PullPlanOps DEF PullDue, First, PullsPlan
  <2>2. x.at \in Place /\ o.at \in Place
    BY DEF PullTypes, PullOp
  <2> QED BY <2>1, <2>2, EarlierOrder
<1>6. pull' = {}
  BY <1>5
<1>7. \A x \in PullPlan(s, lazy) : x = o \/ Fetched(x)
  BY <1>2, <1>5 DEF PullsPlan
<1>8. localTag' = s /\ s # None
  BY <1>4, RegistryConstants
<1>9. ASSUME NEW i \in 1..Len(Chain[s])
      PROVE  /\ <<Chain[s][i], "manifest">> \in have /\ <<Chain[s][i], "config">> \in have
             /\ <<Chain[s][i], "layer">> \in have \/ <<Chain[s][i], "source">> \in have
             /\ \A k \in Kinds : <<Chain[s][i], k>> \in owed => <<Chain[s][i], k>> \in have
  <2>1. <<Chain[s][i], "config">> \in have
    <3>1. PICK x \in PullPlan(s, lazy) : x.op = "config" /\ x.of = Chain[s][i]
      BY PullPlanHas
    <3> QED BY <1>7, <3>1 DEF Fetched
  <2>2. <<Chain[s][i], "layer">> \in have \/ <<Chain[s][i], "source">> \in have
    <3>1. PICK x \in PullPlan(s, lazy) : x.op \in {"layer", "source"} /\ x.of = Chain[s][i]
      BY PullPlanHas
    <3> QED BY <1>7, <3>1 DEF Fetched
  <2>3. \A k \in Kinds : <<Chain[s][i], k>> \in owed => <<Chain[s][i], k>> \in have
    <3>1. PICK x \in PullPlan(s, lazy) : x.op = "tagged" /\ x.of = Chain[s][i]
      BY PullPlanHas
    <3> QED BY <1>7, <3>1 DEF Fetched
  <2>4. <<Chain[s][i], "manifest">> \in have
    <3>1. CASE Chain[s][i] = s
      BY <1>2, <3>1 DEF PullsPlan
    <3>2. CASE Chain[s][i] # s
      <4>1. PICK x \in PullPlan(s, lazy) : x.op = "parent" /\ x.of = Chain[s][i]
        BY <3>2, PullPlanHas
      <4> QED BY <1>7, <4>1 DEF Fetched
    <3> QED BY <3>1, <3>2
  <2> QED BY <2>1, <2>2, <2>3, <2>4
<1>10. PulledComplete'
  <2> SUFFICES ASSUME NEW i \in 1..Len(Chain[s])
               PROVE  /\ {Chain[s][i]} \X {"manifest", "config"} \subseteq have
                      /\ {<<Chain[s][i], "layer">>, <<Chain[s][i], "source">>} \cap have # {}
    BY <1>8 DEF PulledComplete
  <2>1. PICK c : c = Chain[s][i]
    OBVIOUS
  <2>2. /\ <<c, "manifest">> \in have /\ <<c, "config">> \in have
        /\ <<c, "layer">> \in have \/ <<c, "source">> \in have
    BY <1>9, <2>1
  <2>3. {c} \X {"manifest", "config"} \subseteq have
    BY <2>2
  <2> QED BY <2>1, <2>2, <2>3
<1>11. ReferrersArrive'
  BY <1>8, <1>9 DEF ReferrersArrive
<1> QED BY <1>6, <1>8, <1>10, <1>11 DEF Arrived

PullSafe == PullTypes /\ PullInv /\ PulledComplete /\ ReferrersArrive /\ Arrived

LEMMA PullSafeStep ==
    ASSUME Types, ReferrersKnown, PullInv, PulledComplete, ReferrersArrive, Arrived, PullTypes,
           [Next]_vars
    PROVE  PullInv' /\ PulledComplete' /\ ReferrersArrive' /\ Arrived'
<1>1. ASSUME NEW p \in Pushers,
             PushStart(p) \/ PushRequest(p) \/ CheckTag(p) \/ PushFails(p)
      PROVE  PullInv' /\ PulledComplete' /\ ReferrersArrive' /\ Arrived'
  BY <1>1, PushesIdle, IdleKeeps
<1>2. ASSUME NEW t \in Branches, PullStart(t)
      PROVE  PullInv' /\ PulledComplete' /\ ReferrersArrive' /\ Arrived'
  <2>1. /\ pull' = {PullOf("resolve", t, <<0, 0, 0>>)} /\ ~pulled'
        /\ owed' = {x \in Referrers : Published(x[1], x[2])}
        /\ UNCHANGED <<repository, have, localTag>>
    BY <1>2 DEF PullStart
  <2>2. Resolves'
    BY <2>1 DEF Resolves
  <2>3. \A s \in Snapshots, k \in Kinds : <<s, k>> \in owed' => Published(s, k)
    BY <2>1
  <2>4. \A s \in Snapshots, k \in Kinds : Published(s, k)' = Published(s, k)
    BY <2>1 DEF Published, repository
  <2> QED BY <2>1, <2>2, <2>3, <2>4 DEF PullInv, PulledComplete, ReferrersArrive, Arrived
<1>3. ASSUME NEW lazy \in BOOLEAN, PullResolve(lazy)
      PROVE  PullInv' /\ PulledComplete' /\ ReferrersArrive' /\ Arrived'
  <2>1. PICK o \in pull : /\ o.op = "resolve" /\ tags[o.of] # None
                          /\ have' = have \cup {<<tags[o.of], "manifest">>}
                          /\ pull' = PullPlan(tags[o.of], lazy)
    BY <1>3 DEF PullResolve
  <2>2. o.of \in Branches
    BY <2>1 DEF PullTypes, PullOp
  <2>3. PICK s \in Snapshots : s = tags[o.of]
    BY <2>1, <2>2 DEF Types
  <2>4. UNCHANGED <<repository, localTag, pulled, owed>> /\ ~pulled
    BY <1>3, <2>1 DEF PullResolve, PullInv
  <2>5. LocalTag(s) \in PullPlan(s, lazy)
    BY Zenon DEF PullPlan, LocalTag
  <2>6. PullsPlan(s, lazy)'
    BY <2>1, <2>3, <2>5 DEF PullsPlan
  <2>7. \A x \in Snapshots, k \in Kinds : Published(x, k)' = Published(x, k)
    BY <2>4 DEF Published, repository
  <2>8. PullInv'
    BY <2>1, <2>4, <2>6, <2>7 DEF PullInv, Fetches
  <2>9. PulledComplete'
    BY <2>1, <2>4 DEF PulledComplete
  <2> QED BY <2>4, <2>8, <2>9 DEF ReferrersArrive, Arrived
<1>4. ASSUME PullGet PROVE PullInv' /\ PulledComplete' /\ ReferrersArrive' /\ Arrived'
  <2>1. PICK o \in pull :
          /\ pull' = pull \ {o}
          /\ \/ o.op = "parent" /\ have' = have \cup {<<o.of, "manifest">>}
             \/ o.op \in {"config", "layer"} /\ have' = have \cup {<<o.of, o.op>>}
             \/ o.op = "source" /\ have' = have \cup {<<o.of, "source">>}
    BY <1>4 DEF PullGet
  <2>2. UNCHANGED <<repository, localTag, pulled, owed>> /\ ~pulled
    BY <1>4, <2>1 DEF PullGet, PullInv
  <2>3. o.op \notin {"resolve", "localTag"} /\ have \subseteq have' /\ Fetched(o)'
    BY <2>1 DEF Fetched
  <2> QED BY <2>1, <2>2, <2>3, PullProgress
<1>5. ASSUME PullWriteRef PROVE PullInv' /\ PulledComplete' /\ ReferrersArrive' /\ Arrived'
  <2>1. PICK o \in pull :
          /\ PullDue(o) /\ pull' = pull \ {o}
          /\ \/ o.op = "ID" /\ localTag' = localTag
             \/ o.op = "localTag" /\ localTag' = o.of
    BY <1>5 DEF PullWriteRef
  <2>2. UNCHANGED <<repository, have, owed>> /\ pulled' = (pull' = {})
    BY <1>5 DEF PullWriteRef
  <2>3. CASE o.op = "localTag"
    BY <2>1, <2>2, <2>3, PullTag DEF PullInv
  <2>4. CASE o.op = "ID"
    <3>1. ~Resolves
      BY <2>1, <2>4 DEF Resolves, PullOf
    <3>2. PICK s \in Snapshots : LocalTag(s) \in pull
      BY <2>1, <3>1 DEF PullInv, Fetches, PullsPlan
    <3>3. LocalTag(s).op = "localTag"
      BY DEF LocalTag, PullOf
    <3>4. ~pulled'
      BY <2>1, <2>2, <2>4, <3>2, <3>3
    <3>5. Fetched(o)'
      BY <2>4 DEF Fetched
    <3> QED BY <2>1, <2>2, <2>4, <3>4, <3>5, PullProgress
  <2> QED BY <2>1, <2>3, <2>4
<1>6. ASSUME PullSnapshotReferrers
      PROVE  PullInv' /\ PulledComplete' /\ ReferrersArrive' /\ Arrived'
  <2>1. PICK o \in pull :
          /\ pull' = pull \ {o}
          /\ \/ o.op = "list" /\ \E answered \in BOOLEAN : PullReferrers(Listed(o.of, answered))
             \/ o.op = "tagged" /\ PullReferrers(Fallback(o.of))
    BY <1>6 DEF PullSnapshotReferrers
  <2>2. UNCHANGED <<repository, localTag, pulled, owed>> /\ ~pulled
    BY <1>6, <2>1 DEF PullSnapshotReferrers, PullInv
  <2>3. have \subseteq have'
    BY <2>1 DEF PullReferrers
  <2>4. Fetched(o)'
    <3>1. CASE o.op = "list"
      BY <3>1 DEF Fetched
    <3>2. CASE o.op = "tagged"
      <4>1. o.of \in Snapshots
        BY <3>2 DEF PullTypes, PullOp
      <4>2. ASSUME NEW k \in Kinds, <<o.of, k>> \in owed PROVE <<o.of, k>> \in have'
        <5>1. Published(o.of, k)
          BY <2>1, <4>1, <4>2 DEF PullInv
        <5>2. <<o.of, k>> \in Fallback(o.of) \cap blobs
          BY <4>1, <5>1, PublishedInStore
        <5> QED BY <2>1, <3>2, <5>2 DEF PullReferrers
      <4> QED BY <2>2, <3>2, <4>2 DEF Fetched
    <3> QED BY <2>1, <3>1, <3>2
  <2> QED BY <2>1, <2>2, <2>3, <2>4, PullProgress
<1>7. ASSUME PullFails PROVE PullInv' /\ PulledComplete' /\ ReferrersArrive' /\ Arrived'
  BY <1>7 DEF PullFails, PullInv, PulledComplete, ReferrersArrive, Arrived
<1>8. ASSUME NEW s \in Snapshots, LazyFetch(s)
      PROVE  PullInv' /\ PulledComplete' /\ ReferrersArrive' /\ Arrived'
  <2>1. pull = {} /\ have \subseteq have' /\ UNCHANGED <<pull, localTag, pulled, owed>>
    BY <1>8 DEF LazyFetch, PullInv
  <2> QED BY <2>1 DEF PullInv, PulledComplete, ReferrersArrive, Arrived
<1>9. ASSUME UNCHANGED vars
      PROVE  PullInv' /\ PulledComplete' /\ ReferrersArrive' /\ Arrived'
  <2>1. PullIdle
    BY <1>9 DEF vars, local, repository, PullIdle, Published
  <2> QED BY <2>1, IdleKeeps
<1> QED BY <1>1, <1>2, <1>3, <1>4, <1>5, <1>6, <1>7, <1>8, <1>9 DEF Next

LEMMA PullTypesStep ==
    ASSUME Types, PullTypes, PullInv, [Next]_vars
    PROVE  PullTypes'
<1> DEFINE Stored == Snapshots \X (Kinds \cup {"manifest", "config", "layer", "source"})
<1>0. MaxPulls \in Nat /\ MaxFaults \in Nat
  BY RegistryConstants
<1>1. ASSUME NEW p \in Pushers,
             PushStart(p) \/ PushRequest(p) \/ CheckTag(p) \/ PushFails(p)
      PROVE  PullTypes'
  <2>1. PullIdle
    BY <1>1, PushesIdle
  <2>2. pulls' = pulls /\ faults' \in 0..MaxFaults
    BY <1>0, <1>1 DEF PullTypes, PushStart, PushRequest, CheckTag, PushFails
  <2> QED BY <2>1, <2>2 DEF PullTypes, PullIdle
<1>2. ASSUME NEW t \in Branches, PullStart(t) PROVE PullTypes'
  <2>1. PullOf("resolve", t, <<0, 0, 0>>) \in PullOp
    <3>1. <<0, 0, 0>> \in Place
      BY DEF Place
    <3> QED BY <3>1 DEF PullOf, PullOp
  <2>2. pull' \subseteq PullOp /\ pulls' \in 0..MaxPulls /\ owed' \subseteq Referrers
    BY <1>0, <1>2, <2>1 DEF PullStart, PullTypes
  <2> QED BY <1>2, <2>2 DEF PullStart, PullTypes
<1>3. ASSUME NEW lazy \in BOOLEAN, PullResolve(lazy) PROVE PullTypes'
  <2>1. PICK o \in pull : /\ o.op = "resolve" /\ tags[o.of] # None
                          /\ have' = have \cup {<<tags[o.of], "manifest">>}
                          /\ pull' = PullPlan(tags[o.of], lazy)
    BY <1>3 DEF PullResolve
  <2>2. o.of \in Branches
    BY <2>1 DEF PullTypes, PullOp
  <2>3. PICK s \in Snapshots : s = tags[o.of]
    BY <2>1, <2>2 DEF Types
  <2>4. pull' \subseteq PullOp
    BY <2>1, <2>3, PullPlanOps
  <2>5. have' \subseteq Stored
    BY <2>1, <2>3 DEF PullTypes
  <2> QED BY <1>3, <2>4, <2>5 DEF PullResolve, PullTypes
<1>4. ASSUME PullGet PROVE PullTypes'
  <2>1. PICK o \in pull :
          /\ pull' = pull \ {o}
          /\ \/ o.op = "parent" /\ have' = have \cup {<<o.of, "manifest">>}
             \/ o.op \in {"config", "layer"} /\ have' = have \cup {<<o.of, o.op>>}
             \/ o.op = "source" /\ have' = have \cup {<<o.of, "source">>}
    BY <1>4 DEF PullGet
  <2>2. o.of \in Snapshots
    BY <2>1 DEF PullTypes, PullOp
  <2>3. have' \subseteq Stored
    BY <2>1, <2>2 DEF PullTypes
  <2> QED BY <1>4, <2>1, <2>3 DEF PullGet, PullTypes
<1>5. ASSUME PullWriteRef PROVE PullTypes'
  <2>1. PICK o \in pull :
          /\ pull' = pull \ {o}
          /\ \/ o.op = "ID" /\ refs' = refs \cup {o.of} /\ localTag' = localTag
             \/ o.op = "localTag" /\ localTag' = o.of /\ refs' = refs
    BY <1>5 DEF PullWriteRef
  <2>2. o.of \in Snapshots
    BY <2>1 DEF PullTypes, PullOp
  <2> QED BY <1>5, <2>1, <2>2 DEF PullWriteRef, PullTypes
<1>6. ASSUME PullSnapshotReferrers PROVE PullTypes'
  <2>1. PICK o \in pull :
          /\ pull' = pull \ {o}
          /\ \/ o.op = "list" /\ \E answered \in BOOLEAN : PullReferrers(Listed(o.of, answered))
             \/ o.op = "tagged" /\ PullReferrers(Fallback(o.of))
    BY <1>6 DEF PullSnapshotReferrers
  <2>2. (\A answered : Listed(o.of, answered) \subseteq Referrers) /\ Fallback(o.of) \subseteq Referrers
    BY DEF Listed, Fallback, Types
  <2>3. have' \subseteq Stored
    BY <2>1, <2>2 DEF PullReferrers, PullTypes, Referrers
  <2> QED BY <1>6, <2>1, <2>3 DEF PullSnapshotReferrers, PullTypes
<1>7. ASSUME PullFails PROVE PullTypes'
  BY <1>0, <1>7 DEF PullFails, PullTypes
<1>8. ASSUME NEW s \in Snapshots, LazyFetch(s) PROVE PullTypes'
  BY <1>8 DEF LazyFetch, PullTypes
<1>9. ASSUME UNCHANGED vars PROVE PullTypes'
  BY <1>9 DEF vars, local, PullTypes
<1> QED BY <1>1, <1>2, <1>3, <1>4, <1>5, <1>6, <1>7, <1>8, <1>9 DEF Next

-----------------------------------------------------------------------------
SafeInv == PushInv /\ ReferrerInv /\ PullSafe

LEMMA SafeInit == Init => SafeInv
<1> SUFFICES ASSUME Init PROVE SafeInv
  OBVIOUS
<1>1. Types
  <2>1. ASSUME NEW p \in Pushers PROVE 0 <= Len(Requests[p])
    <3>1. Requests[p] \in Seq(Request)
      BY RegistryConstants
    <3> QED BY <3>1
  <2> QED BY <2>1 DEF Init, Types
<1>2. Running = {} /\ Started
  BY DEF Init, Running, Started
<1>3. PushInv
  BY <1>1, <1>2 DEF PushInv, PlanInv
<1>4. ReferrersKnown
  BY DEF Init, ReferrersKnown
<1>5. ReferrerInv
  BY <1>2, <1>4 DEF ReferrerInv, UploadsDone, SeenListed
<1>6. MaxPulls \in Nat /\ MaxFaults \in Nat
  BY RegistryConstants
<1>7. PullSafe
  <2>1. PullTypes
    <3>1. 0 \in 0..MaxPulls /\ 0 \in 0..MaxFaults
      BY <1>6
    <3> QED BY <3>1, Zenon DEF Init, PullTypes
  <2>2. PullInv /\ ReferrersArrive /\ Arrived
    BY DEF Init, PullInv, ReferrersArrive, Arrived
  <2>3. PulledComplete
    BY DEF Init, PulledComplete
  <2> QED BY <2>1, <2>2, <2>3 DEF PullSafe
<1> QED BY <1>3, <1>5, <1>7 DEF SafeInv

LEMMA SafeStep == SafeInv /\ [Next]_vars => SafeInv'
<1> SUFFICES ASSUME SafeInv, [Next]_vars PROVE SafeInv'
  OBVIOUS
<1>1. PushInv'
  BY PushInvStep DEF SafeInv
<1>2. ReferrerInv'
  BY UploadsStep, SeenStep, ReferrersStep DEF SafeInv, ReferrerInv
<1>3. PullSafe'
  BY PullSafeStep, PullTypesStep DEF SafeInv, PullSafe, PushInv, ReferrerInv
<1> QED BY <1>1, <1>2, <1>3 DEF SafeInv

LEMMA SafeAlways == Spec => []SafeInv
BY SafeInit, SafeStep, PTL DEF Spec

(***************************************************************************)
(* Every part of the state keeps its type, and whatever the referrers API  *)
(* lists, a tag leads to or the index names is in the registry.            *)
(***************************************************************************)
THEOREM RegistryTyped == Spec => []TypeOK
<1>1. SafeInv => TypeOK
  BY DEF SafeInv, PushInv, Types, ReferrerInv, ReferrersKnown, PullSafe, PullTypes, TypeOK
<1> QED BY <1>1, SafeAlways, PTL

(***************************************************************************)
(* The local tag of a pull leads to a chain that can be restored, after    *)
(* any number of pulls that failed half way and while others push and      *)
(* prune.                                                                  *)
(***************************************************************************)
THEOREM PulledChainsComplete == Spec => []PulledComplete
<1>1. SafeInv => PulledComplete
  BY DEF SafeInv, PullSafe
<1> QED BY <1>1, SafeAlways, PTL

(***************************************************************************)
(* A pull that succeeds has every referrer that was published when it      *)
(* began, with and without the referrers API, but for the bundles that a   *)
(* push of an index read too early dropped.                                *)
(***************************************************************************)
THEOREM ReferrersPulled == Spec => []ReferrersArrive
<1>1. SafeInv => ReferrersArrive
  BY DEF SafeInv, PullSafe
<1> QED BY <1>1, SafeAlways, PTL

-----------------------------------------------------------------------------
(***************************************************************************)
(* The expected parent.  A tag that was checked is acceptable, and a tag   *)
(* that was moved is at the head, unless another push moved it.            *)
(***************************************************************************)
ChecksDone ==
    \A p \in Running : \A x \in Done(p) : x.op = "check" =>
        Acceptable(Pushing(p), tags[x.tag]) \/ x.tag \in moved[p]

TagsDone ==
    \A p \in Running : \A x \in Done(p) : x.op = "tag" /\ x.tag \in Branches =>
        tags[x.tag] = Pushing(p).snap \/ x.tag \in moved[p]

PassedKept ==
    \A p \in passed :
        /\ current[p] \in 1..Len(Requests[p])
        /\ \A j \in 1..Len(Pushing(p).tags) :
            \/ Acceptable(Pushing(p), tags[Pushing(p).tags[j]])
            \/ Pushing(p).tags[j] \in moved[p]

(* A push that runs has no result yet. *)
Unsettled == \A p \in Running : result[p] = "none"

TagInv == ChecksDone /\ TagsDone /\ PassedKept /\ Unsettled

(* Who moves a branch: another process, or the push itself by a request. *)
Moves(q, t, o) ==
    /\ Due(q, o)
    /\ \/ o.op = "tag" /\ o.tag = t /\ tags'[t] = o.of /\ o.of = Pushing(q).snap
       \/ o.op = "delete" /\ tags[t] = o.of /\ tags'[t] = None

LEMMA TagMover ==
    ASSUME PushInv, [Next]_vars, NEW t \in Branches, tags'[t] # tags[t]
    PROVE  \E p \in Pushers, o \in PushOp :
             Moves(p, t, o) /\ Apply(p, o) /\ \A q \in Pushers \ {p} : t \in moved'[q]
<1>0. Types
  BY DEF PushInv
<1>1. ~UNCHANGED <<repository, seen>>
  BY DEF repository
<1>2. PICK p \in Pushers : \E o \in todo[p] : Due(p, o) /\ Apply(p, o)
  BY <1>1, RepositoryChange
<1>3. PICK o \in todo[p] : Due(p, o) /\ Apply(p, o)
  BY <1>2
<1>4. o \in PushOp /\ Pushing(p) \in Request /\ o \in PushPlan(Pushing(p))
  BY <1>3, DuePlan
<1>5. CASE PutTag(p, o)
  <2>1. o.op = "tag" /\ o.tag = t /\ tags'[t] = o.of
    BY <1>0, <1>4, <1>5, OpFields DEF PutTag, Types
  <2>2. o.of = Pushing(p).snap
    <3>1. PICK i \in 1..Len(Chain[Pushing(p).snap]) : TRUE
      BY <1>4, RequestFields, ChainType
    <3> QED BY <1>4, <2>1, CompleteBefore
  <2>3. \A q \in Pushers \ {p} : t \in moved'[q]
    BY <1>5, <2>1 DEF PutTag, Others
  <2> QED BY <1>3, <1>4, <2>1, <2>2, <2>3 DEF Moves
<1>6. CASE DeleteManifest(p, o)
  <2>1. o.op = "delete" /\ tags[t] = o.of /\ tags'[t] = None
    BY <1>0, <1>6 DEF DeleteManifest, Types
  <2>2. \A q \in Pushers \ {p} : t \in moved'[q]
    BY <1>6, <2>1 DEF DeleteManifest, Others
  <2> QED BY <1>3, <1>4, <2>1, <2>2 DEF Moves
<1>7. CASE UNCHANGED tags
  BY <1>7
<1> QED BY <1>3, <1>5, <1>6, <1>7 DEF Apply, PutBlobs, PutReferrer, AttachReferrer, ReadIndex,
           PutIndex

LEMMA TagMoves ==
    ASSUME PushInv, [Next]_vars, NEW q \in Pushers, NEW t \in Branches, tags'[t] # tags[t]
    PROVE  t \in moved'[q] \/ \E o : Moves(q, t, o)
<1>1. PICK p \in Pushers, o \in PushOp :
        Moves(p, t, o) /\ Apply(p, o) /\ \A x \in Pushers \ {p} : t \in moved'[x]
  BY TagMover
<1> QED BY <1>1

(* What others moved is remembered until the process starts another push. *)
LEMMA MovedKept ==
    ASSUME Types, [Next]_vars, NEW q \in Pushers
    PROVE  \/ moved[q] \subseteq moved'[q]
           \/ PushStart(q) /\ todo[q] = {} /\ q \notin passed' /\ result'[q] = "none"
<1>1. ASSUME NEW p \in Pushers, PushStart(p)
      PROVE  \/ moved[q] \subseteq moved'[q]
             \/ PushStart(q) /\ todo[q] = {} /\ q \notin passed' /\ result'[q] = "none"
  <2>1. CASE q = p /\ result[p] # "failed"
    BY <1>1, <2>1 DEF PushStart, Types
  <2>2. CASE q # p \/ result[p] = "failed"
    BY <1>1, <2>2 DEF PushStart, Types
  <2> QED BY <2>1, <2>2
<1>2. ASSUME NEW p \in Pushers, NEW o \in todo[p], PushStep(p, o)
      PROVE  moved[q] \subseteq moved'[q]
  <2>1. CASE Apply(p, o)
    BY <2>1 DEF Apply, PutBlobs, PutTag, PutReferrer, AttachReferrer, ReadIndex, PutIndex,
       DeleteManifest, Others
  <2>2. CASE moved' = moved
    BY <2>2
  <2> QED BY <1>2, <2>1, <2>2 DEF PushStep, Accepted
<1>3. CASE UNCHANGED <<repository, pushes>>
  BY <1>3 DEF pushes
<1> QED BY <1>1, <1>2, <1>3, NextKinds

(* The own requests of a push leave its tags acceptable. *)
LEMMA OwnMoves ==
    ASSUME PushInv, TagsDone, NEW q \in Pushers, NEW t \in Branches, NEW o, Moves(q, t, o),
           Puts(Pushing(q), t), moved[q] \subseteq moved'[q]
    PROVE  tags'[t] = Pushing(q).snap \/ t \in moved'[q]
<1>0. q \in Running /\ Pushing(q) \in Request /\ o \in PushPlan(Pushing(q))
      /\ current[q] \in 1..Len(Requests[q])
  BY DuePlan DEF Moves
<1>1. CASE o.op = "tag"
  BY <1>1 DEF Moves
<1>2. CASE o.op = "delete"
  <2>1. PICK x : /\ Before(Pushing(q), o, x) /\ x.op = "tag" /\ x.tag = t
    BY <1>0, <1>2, MovedBefore
  <2>2. x \in Done(q)
    BY <1>0, <2>1, BeforeDone DEF Moves
  <2>3. tags[t] = Pushing(q).snap \/ t \in moved[q]
    BY <1>0, <2>1, <2>2 DEF TagsDone
  <2>4. PICK j \in 1..Len(Pushing(q).prune) :
          o = [op |-> "delete", of |-> Pushing(q).prune[j],
               at |-> <<Len(Chain[Pushing(q).snap]) + 1, 0, j>>]
    BY <1>0, <1>2, DeleteOf
  <2>5. o.of # Pushing(q).snap
    BY <1>0, <2>4, RequestType DEF Pushing
  <2>6. tags[t] = o.of
    BY <1>2 DEF Moves
  <2> QED BY <2>3, <2>5, <2>6
<1> QED BY <1>1, <1>2 DEF Moves

LEMMA ChecksStep ==
    ASSUME PushInv, TagInv, [Next]_vars
    PROVE  ChecksDone' /\ TagsDone'
<1>0. Types /\ ChecksDone /\ TagsDone
  BY DEF PushInv, TagInv
<1> SUFFICES ASSUME NEW q \in Running', NEW x \in Done(q)'
             PROVE  /\ x.op = "check" =>
                         Acceptable(Pushing(q)', tags'[x.tag]) \/ x.tag \in moved'[q]
                    /\ x.op = "tag" /\ x.tag \in Branches =>
                         tags'[x.tag] = Pushing(q)'.snap \/ x.tag \in moved'[q]
  BY DEF ChecksDone, TagsDone, Acceptable
<1>1. /\ q \in Running /\ q \in Pushers /\ Pushing(q)' = Pushing(q) /\ Plan(q)' = Plan(q)
      /\ x \in Done(q) \/ (Due(q, x) /\ (Apply(q, x) \/ Accepted(q, x)))
  BY DoneFrom DEF Running
<1>2. Pushing(q) \in Request /\ x \in PushPlan(Pushing(q)) /\ todo[q] # {}
  BY <1>1, RunningPlan DEF Done, Running
<1>3. moved[q] \subseteq moved'[q]
  BY <1>0, <1>1, <1>2, MovedKept
<1>4. ASSUME x.op \in {"check", "tag"}, x.op = "tag" => x.tag \in Branches
      PROVE  x.tag \in Branches /\ Puts(Pushing(q), x.tag)
  <2>1. CASE x.op = "check"
    BY <1>2, <2>1, CheckOf, PlanType, OpFields
  <2>2. CASE x.op = "tag"
    <3>1. PICK i \in 1..Len(Chain[Pushing(q).snap]) : TRUE
      BY <1>2, RequestFields, ChainType
    <3> QED BY <1>2, <1>4, <2>2, CompleteBefore
  <2> QED BY <1>4, <2>1, <2>2
<1>5. ASSUME x.op \in {"check", "tag"}, x.op = "tag" => x.tag \in Branches,
             tags'[x.tag] # tags[x.tag]
      PROVE  tags'[x.tag] = Pushing(q).snap \/ x.tag \in moved'[q]
  BY <1>0, <1>1, <1>3, <1>4, <1>5, TagMoves, OwnMoves
<1>6. CASE x \in Done(q)
  <2>1. CASE x.op = "check"
    <3>1. Acceptable(Pushing(q), tags[x.tag]) \/ x.tag \in moved[q]
      BY <1>0, <1>1, <1>6, <2>1 DEF ChecksDone
    <3> QED BY <1>1, <1>3, <1>5, <2>1, <3>1 DEF Acceptable
  <2>2. CASE x.op = "tag" /\ x.tag \in Branches
    <3>1. tags[x.tag] = Pushing(q).snap \/ x.tag \in moved[q]
      BY <1>0, <1>1, <1>6, <2>2 DEF TagsDone
    <3> QED BY <1>1, <1>3, <1>5, <2>2, <3>1
  <2> QED BY <2>1, <2>2
<1>7. CASE Due(q, x) /\ Apply(q, x)
  <2>1. x.op # "check"
    BY <1>7 DEF Apply, PutBlobs, PutTag, PutReferrer, AttachReferrer, ReadIndex, PutIndex,
       DeleteManifest
  <2>2. ASSUME x.op = "tag", x.tag \in Branches PROVE tags'[x.tag] = Pushing(q).snap
    <3>1. tags' = [tags EXCEPT ![x.tag] = x.of]
      BY <1>7, <2>2 DEF Apply, PutBlobs, PutTag, PutReferrer, AttachReferrer, ReadIndex,
         PutIndex, DeleteManifest
    <3>2. PICK i \in 1..Len(Chain[Pushing(q).snap]) : TRUE
      BY <1>2, RequestFields, ChainType
    <3>3. x.of = Pushing(q).snap
      BY <1>2, <2>2, CompleteBefore
    <3> QED BY <1>0, <2>2, <3>1, <3>3 DEF Types
  <2> QED BY <1>1, <2>1, <2>2
<1>8. CASE Due(q, x) /\ Accepted(q, x)
  BY <1>1, <1>8 DEF Accepted, repository
<1> QED BY <1>1, <1>6, <1>7, <1>8

LEMMA PassedStep ==
    ASSUME PushInv, TagInv, [Next]_vars
    PROVE  PassedKept'
<1>0. Types /\ ChecksDone /\ TagsDone /\ PassedKept
  BY DEF PushInv, TagInv
<1> SUFFICES ASSUME NEW q \in passed'
             PROVE  /\ current'[q] \in 1..Len(Requests[q])
                    /\ \A j \in 1..Len(Pushing(q)'.tags) :
                        \/ Acceptable(Pushing(q)', tags'[Pushing(q)'.tags[j]])
                        \/ Pushing(q)'.tags[j] \in moved'[q]
  BY DEF PassedKept, Acceptable
<1> DEFINE New == \E o \in todo[q] :
                    /\ Due(q, o) /\ Accepted(q, o) /\ todo'[q] = todo[q] \ {o}
                    /\ \A x \in todo'[q] : x.op # "check"
<1>1. q \in Pushers /\ current'[q] = current[q] /\ (q \in passed \/ New)
  <2>1. ASSUME NEW p \in Pushers, PushStart(p)
        PROVE  q \in passed /\ current'[q] = current[q]
    BY <1>0, <2>1 DEF PushStart, Types
  <2>2. ASSUME NEW p \in Pushers, NEW o \in todo[p], PushStep(p, o)
        PROVE  current'[q] = current[q] /\ (q \in passed \/ New)
    <3>1. current' = current /\ Due(p, o)
      BY <2>2 DEF PushStep
    <3>2. CASE q \notin passed
      <4>1. /\ Made(p, o) /\ Accepted(p, o)
            /\ passed' = IF \E x \in todo'[p] : x.op = "check" THEN passed ELSE passed \cup {p}
        BY <2>2, <3>2 DEF PushStep
      <4>2. q = p /\ \A x \in todo'[p] : x.op # "check"
        BY <3>2, <4>1
      <4>3. todo'[q] = todo[q] \ {o}
        BY <1>0, <4>1, <4>2 DEF Made, Types
      <4> QED BY <3>1, <4>1, <4>2, <4>3
    <3> QED BY <3>1, <3>2
  <2>3. ASSUME UNCHANGED <<repository, pushes>> PROVE q \in passed /\ current'[q] = current[q]
    BY <2>3 DEF pushes
  <2>4. q \in Pushers
    <3>1. PushInv'
      BY PushInvStep
    <3> QED BY <3>1 DEF PushInv, Types
  <2> QED BY <2>1, <2>2, <2>3, <2>4, NextKinds
<1>2. Pushing(q)' = Pushing(q)
  BY <1>1 DEF Pushing
<1>3. moved[q] \subseteq moved'[q]
  BY <1>0, <1>1, MovedKept
<1>4. CASE q \in passed
  <2>1. current[q] \in 1..Len(Requests[q])
    BY <1>0, <1>4 DEF PassedKept
  <2>2. Pushing(q) \in Request
    BY <1>1, <2>1, RequestType DEF Pushing
  <2> SUFFICES ASSUME NEW j \in 1..Len(Pushing(q).tags)
               PROVE  \/ Acceptable(Pushing(q), tags'[Pushing(q).tags[j]])
                      \/ Pushing(q).tags[j] \in moved'[q]
    BY <1>1, <1>2, <2>1
  <2>3. PICK t : t = Pushing(q).tags[j]
    OBVIOUS
  <2>4. t \in Branches /\ Puts(Pushing(q), t)
    BY <2>2, <2>3, RequestFields DEF Puts
  <2>5. Acceptable(Pushing(q), tags[t]) \/ t \in moved[q]
    BY <1>0, <1>4, <2>3 DEF PassedKept
  <2>6. CASE tags'[t] = tags[t]
    BY <1>3, <2>3, <2>5, <2>6
  <2>7. CASE tags'[t] # tags[t]
    <3>1. tags'[t] = Pushing(q).snap \/ t \in moved'[q]
      BY <1>0, <1>1, <1>3, <2>4, <2>7, TagMoves, OwnMoves
    <3> QED BY <2>3, <3>1 DEF Acceptable
  <2> QED BY <2>6, <2>7
<1>5. CASE New
  <2>1. PICK o \in todo[q] : /\ Due(q, o) /\ Accepted(q, o) /\ todo'[q] = todo[q] \ {o}
                             /\ \A x \in todo'[q] : x.op # "check"
    BY <1>5
  <2>2. /\ q \in Running /\ current[q] \in 1..Len(Requests[q])
        /\ Pushing(q) \in Request /\ o \in PushPlan(Pushing(q))
    BY <1>1, <2>1, DuePlan
  <2>3. Pushing(q).expected # None
    BY <2>1, <2>2, CheckOf DEF Accepted
  <2> SUFFICES ASSUME NEW j \in 1..Len(Pushing(q).tags)
               PROVE  \/ Acceptable(Pushing(q), tags'[Pushing(q).tags[j]])
                      \/ Pushing(q).tags[j] \in moved'[q]
    BY <1>1, <1>2, <2>2
  <2>4. PICK x : x = [op |-> "check", tag |-> Pushing(q).tags[j], at |-> <<0, 0, j>>]
    OBVIOUS
  <2>5. x \in PushPlan(Pushing(q)) /\ x.op = "check" /\ x.tag = Pushing(q).tags[j]
    BY <2>2, <2>3, <2>4, PlanOps
  <2>6. x = o \/ x \in Done(q)
    BY <2>1, <2>5 DEF Done, Plan
  <2>7. Acceptable(Pushing(q), tags[x.tag]) \/ x.tag \in moved[q]
    BY <1>0, <2>1, <2>2, <2>5, <2>6 DEF ChecksDone, Accepted
  <2>8. tags' = tags
    BY <2>1 DEF Accepted, repository
  <2> QED BY <1>3, <2>5, <2>7, <2>8
<1> QED BY <1>1, <1>4, <1>5

LEMMA UnsettledStep ==
    ASSUME PushInv, Unsettled, [Next]_vars
    PROVE  Unsettled'
<1>0. Types
  BY DEF PushInv
<1> SUFFICES ASSUME NEW q \in Pushers, todo'[q] # {} PROVE result'[q] = "none"
  BY DEF Unsettled, Running
<1>1. ASSUME NEW p \in Pushers, PushStart(p) PROVE result'[q] = "none"
  BY <1>0, <1>1 DEF PushStart, Types, Unsettled, Running
<1>2. ASSUME NEW p \in Pushers, NEW o \in todo[p], PushStep(p, o) PROVE result'[q] = "none"
  <2>1. CASE q = p
    <3>1. ~Ends(p, "conflict") /\ ~Ends(p, "failed")
      BY <1>0, <2>1 DEF Ends, Types
    <3>2. result' = result
      BY <1>2, <2>1, <3>1 DEF PushStep
    <3> QED BY <1>2, <2>1, <3>2 DEF Unsettled, Running
  <2>2. CASE q # p
    <3>1. result'[q] = result[q] /\ todo'[q] = todo[q]
      BY <1>0, <1>2, <2>2 DEF PushStep, Made, Ends, Types
    <3> QED BY <3>1 DEF Unsettled, Running
  <2> QED BY <2>1, <2>2
<1>3. CASE UNCHANGED <<repository, pushes>>
  BY <1>3 DEF pushes, Unsettled, Running
<1> QED BY <1>1, <1>2, <1>3, NextKinds

LEMMA RetryStep ==
    ASSUME PushInv, TagInv, RetryAccepted, [Next]_vars
    PROVE  RetryAccepted'
<1>0. Types /\ PassedKept /\ Unsettled
  BY DEF PushInv, TagInv
<1> SUFFICES ASSUME NEW q \in Pushers, result'[q] = "conflict", q \in passed'
             PROVE  moved'[q] # {}
  BY DEF RetryAccepted
<1>1. moved[q] \subseteq moved'[q]
  BY <1>0, MovedKept
<1>2. ASSUME result[q] = "conflict", q \in passed PROVE moved'[q] # {}
  BY <1>1, <1>2 DEF RetryAccepted
<1>3. ASSUME NEW p \in Pushers, PushStart(p) PROVE result[q] = "conflict" /\ q \in passed
  BY <1>0, <1>3 DEF PushStart, Types
<1>4. ASSUME NEW p \in Pushers, NEW o \in todo[p], PushStep(p, o) PROVE moved'[q] # {}
  <2>1. CASE q # p
    <3>1. result'[q] = result[q] /\ q \in passed
      BY <1>0, <1>4, <2>1 DEF PushStep, Ends, Types
    <3> QED BY <1>2, <3>1
  <2>2. CASE q = p
    <3>1. result[p] = "none"
      BY <1>0 DEF Unsettled, Running
    <3>2. /\ Ends(p, "conflict") /\ UNCHANGED <<moved, passed>> /\ Due(p, o)
          /\ o.op = "check" /\ ~Acceptable(Pushing(p), tags[o.tag])
      BY <1>0, <1>4, <2>2, <3>1 DEF PushStep, Ends, Types
    <3>3. Pushing(p) \in Request /\ o \in PushPlan(Pushing(p))
      BY <3>2, DuePlan
    <3>4. PICK j \in 1..Len(Pushing(p).tags) : Pushing(p).tags[j] = o.tag
      BY <3>2, <3>3, CheckOf DEF Puts
    <3>5. o.tag \in moved[p]
      BY <1>0, <2>2, <3>2, <3>4 DEF PassedKept
    <3> QED BY <1>1, <2>2, <3>5
  <2> QED BY <2>1, <2>2
<1>5. ASSUME UNCHANGED <<repository, pushes>> PROVE result[q] = "conflict" /\ q \in passed
  BY <1>5 DEF pushes
<1> QED BY <1>2, <1>3, <1>4, <1>5, NextKinds

RetryInv == SafeInv /\ TagInv /\ RetryAccepted

LEMMA RetryAlways == Spec => []RetryInv
<1>1. Init => RetryInv
  <2> SUFFICES ASSUME Init PROVE RetryInv
    OBVIOUS
  <2>1. Running = {} /\ passed = {}
    BY DEF Init, Running
  <2> QED BY <2>1, SafeInit DEF RetryInv, TagInv, ChecksDone, TagsDone, PassedKept, Unsettled,
             RetryAccepted
<1>2. RetryInv /\ [Next]_vars => RetryInv'
  BY SafeStep, ChecksStep, PassedStep, UnsettledStep, RetryStep
     DEF RetryInv, TagInv, SafeInv
<1> QED BY <1>1, <1>2, PTL DEF Spec

(***************************************************************************)
(* A push that has passed the expected-parent check once and is repeated   *)
(* after a failure is refused only if another push moved one of its tags,  *)
(* however many requests of the first attempt took effect.                 *)
(***************************************************************************)
THEOREM RetriesAccepted == Spec => []RetryAccepted
<1>1. RetryInv => RetryAccepted
  BY DEF RetryInv
<1> QED BY <1>1, RetryAlways, PTL

LEMMA StaleHeadStep ==
    ASSUME RetryInv, [Next]_vars, NEW p \in Pushers, NEW t \in Branches,
           todo[p] # {}, todo'[p] # todo[p], tags'[t] # tags[t],
           Pushing(p).expected # None, tags'[t] = Pushing(p).snap
    PROVE  Acceptable(Pushing(p), tags[t]) \/ t \in moved[p]
<1>0. PushInv /\ Types /\ ChecksDone /\ p \in Running
  BY DEF RetryInv, SafeInv, PushInv, TagInv, Running
<1>1. PICK q \in Pushers, o \in PushOp :
        Moves(q, t, o) /\ Apply(q, o) /\ \A x \in Pushers \ {q} : t \in moved'[x]
  BY <1>0, TagMover
<1>2. PICK r \in Pushers : \E y \in todo[r] : PushStep(r, y)
  <2>1. ASSUME NEW x \in Pushers, PushStart(x) PROVE FALSE
    BY <2>1 DEF PushStart, repository
  <2>2. ~UNCHANGED <<repository, pushes>>
    BY DEF repository
  <2> QED BY <2>1, <2>2, NextKinds
<1>3. r = p
  BY <1>0, <1>2 DEF PushStep, Made, Ends, Types
<1>4. PICK y \in todo[p] : Apply(p, y) \/ moved' = moved
  BY <1>2, <1>3 DEF PushStep, Accepted
<1>5. moved'[p] = moved[p]
  BY <1>0, <1>4 DEF Apply, PutBlobs, PutTag, PutReferrer, AttachReferrer, ReadIndex, PutIndex,
     DeleteManifest, Others
<1>6. CASE q # p
  BY <1>1, <1>5, <1>6
<1>7. CASE q = p
  <2>1. Due(p, o) /\ Pushing(p) \in Request /\ o \in PushPlan(Pushing(p))
    BY <1>0, <1>1, <1>7, DuePlan DEF Moves
  <2>2. Pushing(p).snap # None
    BY <2>1, RequestFields, RegistryConstants
  <2>3. o.op = "tag" /\ o.tag = t
    BY <1>1, <1>7, <2>2 DEF Moves
  <2>4. PICK x : Before(Pushing(p), o, x) /\ x.op = "check" /\ x.tag = t
    BY <2>1, <2>3, CheckedBefore
  <2>5. x \in Done(p)
    BY <1>0, <2>1, <2>4, BeforeDone
  <2> QED BY <1>0, <2>4, <2>5 DEF ChecksDone
<1> QED BY <1>6, <1>7

(***************************************************************************)
(* A push with an expected parent moves a branch away from a snapshot that *)
(* it did not expect only when another push moved the branch while it ran: *)
(* the check and the move are separate requests, and nothing else can come *)
(* between them.                                                           *)
(***************************************************************************)
THEOREM StaleHeadsDetected == Spec => StaleHeadDetected
<1>1. RetryInv /\ [Next]_vars =>
        [\A p \in Pushers, t \in Branches :
            (todo[p] # {} /\ todo'[p] # todo[p] /\ tags'[t] # tags[t]
             /\ Pushing(p).expected # None /\ tags'[t] = Pushing(p).snap)
                => (Acceptable(Pushing(p), tags[t]) \/ t \in moved[p])]_vars
  BY StaleHeadStep
<1> QED BY <1>1, RetryAlways, PTL DEF Spec, StaleHeadDetected

-----------------------------------------------------------------------------
(* The tag t was pushed to s by the process q, in its first n pushes. *)
Pushed(n, q, t, s) ==
    \E j \in 1..n :
        j <= Len(Requests[q]) /\ Requests[q][j].snap = s /\ Puts(Requests[q][j], t)

TagsPushed ==
    \A t \in Branches : tags[t] # None => \E q \in Pushers : Pushed(current[q], q, t, tags[t])

TagsOwned ==
    \A p \in Running : \A x \in Done(p) : x.op = "tag" /\ x.tag \in Branches =>
        \/ tags[x.tag] \in {Pushing(p).snap, None}
        \/ \E q \in Pushers \ {p} : Pushed(current[q], q, x.tag, tags[x.tag])

AncestorsDone ==
    \A p \in Running : \A x \in Done(p) :
        x.op = "tag" /\ x.of # Pushing(p).snap => x.of \in manifests

RemoteInv == TagsPushed /\ TagsOwned /\ AncestorsDone /\ RemoteComplete

LEMMA PushedStays ==
    ASSUME PushInv, [Next]_vars, NEW q \in Pushers, NEW t, NEW s, Pushed(current[q], q, t, s)
    PROVE  Pushed(current'[q], q, t, s)
<1>0. Types
  BY DEF PushInv
<1>1. current[q] \in Nat /\ current'[q] \in Nat /\ current[q] <= current'[q]
  <2>1. ASSUME NEW p \in Pushers, PushStart(p) PROVE current[q] <= current'[q]
    BY <1>0, <2>1 DEF PushStart, Types
  <2>2. ASSUME NEW p \in Pushers, NEW o \in todo[p], PushStep(p, o)
        PROVE  current[q] <= current'[q]
    BY <1>0, <2>2 DEF PushStep, Types
  <2>3. ASSUME UNCHANGED <<repository, pushes>> PROVE current[q] <= current'[q]
    BY <1>0, <2>3 DEF pushes, Types
  <2>4. PushInv'
    BY PushInvStep
  <2> QED BY <1>0, <2>1, <2>2, <2>3, <2>4, NextKinds DEF PushInv, Types
<1> QED BY <1>1 DEF Pushed

(* The branch that a push has moved is pushed. *)
LEMMA MovedPushed ==
    ASSUME PushInv, [Next]_vars, NEW p \in Pushers, NEW t \in Branches, NEW o,
           Moves(p, t, o), o.op = "tag"
    PROVE  Pushed(current'[p], p, t, tags'[t])
<1>1. /\ current[p] \in 1..Len(Requests[p]) /\ Pushing(p) \in Request
      /\ o \in PushPlan(Pushing(p)) /\ o.tag = t /\ tags'[t] = Pushing(p).snap
  BY DuePlan DEF Moves
<1>2. PICK i \in 1..Len(Chain[Pushing(p).snap]) : TRUE
  BY <1>1, RequestFields, ChainType
<1>3. Puts(Pushing(p), t)
  BY <1>1, CompleteBefore
<1>4. Pushed(current[p], p, t, Pushing(p).snap)
  BY <1>1, <1>3 DEF Pushed, Pushing
<1>5. PICK h : h = Pushing(p).snap
  OBVIOUS
<1>6. Pushed(current'[p], p, t, h)
  BY <1>4, <1>5, PushedStays
<1> QED BY <1>1, <1>5, <1>6 DEF Pushed

LEMMA TagsPushedStep ==
    ASSUME PushInv, TagsPushed, [Next]_vars
    PROVE  TagsPushed'
<1> SUFFICES ASSUME NEW t \in Branches, tags'[t] # None
             PROVE  \E q \in Pushers : Pushed(current'[q], q, t, tags'[t])
  BY DEF TagsPushed, Pushed
<1>1. CASE tags'[t] = tags[t]
  <2>1. PICK q \in Pushers : Pushed(current[q], q, t, tags[t])
    BY <1>1 DEF TagsPushed
  <2>2. PICK s : s = tags[t]
    OBVIOUS
  <2>3. Pushed(current'[q], q, t, s)
    BY <2>1, <2>2, PushedStays
  <2> QED BY <1>1, <2>2, <2>3 DEF Pushed
<1>2. CASE tags'[t] # tags[t]
  <2>1. PICK p \in Pushers, o \in PushOp : Moves(p, t, o)
    BY <1>2, TagMover
  <2>2. o.op = "tag"
    BY <2>1 DEF Moves
  <2> QED BY <2>1, <2>2, MovedPushed
<1> QED BY <1>1, <1>2

LEMMA TagsOwnedStep ==
    ASSUME PushInv, TagsOwned, [Next]_vars
    PROVE  TagsOwned'
<1>0. Types
  BY DEF PushInv
<1> SUFFICES ASSUME NEW p \in Running', NEW x \in Done(p)', x.op = "tag", x.tag \in Branches
             PROVE  \/ tags'[x.tag] \in {Pushing(p)'.snap, None}
                    \/ \E q \in Pushers \ {p} : Pushed(current'[q], q, x.tag, tags'[x.tag])
  BY DEF TagsOwned, Pushed
<1>1. /\ p \in Running /\ p \in Pushers /\ Pushing(p)' = Pushing(p) /\ Plan(p)' = Plan(p)
      /\ x \in Done(p) \/ (Due(p, x) /\ (Apply(p, x) \/ Accepted(p, x)))
  BY DoneFrom DEF Running
<1>2. CASE tags'[x.tag] # tags[x.tag]
  <2>1. PICK q \in Pushers, o \in PushOp : Moves(q, x.tag, o)
    BY <1>2, TagMover
  <2>2. CASE o.op = "delete"
    BY <2>1, <2>2 DEF Moves
  <2>3. CASE o.op = "tag" /\ q = p
    BY <1>1, <2>1, <2>3 DEF Moves
  <2>4. CASE o.op = "tag" /\ q # p
    BY <2>1, <2>4, MovedPushed
  <2> QED BY <2>1, <2>2, <2>3, <2>4 DEF Moves
<1>3. CASE tags'[x.tag] = tags[x.tag] /\ x \in Done(p)
  <2>1. \/ tags[x.tag] \in {Pushing(p).snap, None}
        \/ \E q \in Pushers \ {p} : Pushed(current[q], q, x.tag, tags[x.tag])
    BY <1>1, <1>3 DEF TagsOwned
  <2>2. ASSUME NEW q \in Pushers \ {p}, Pushed(current[q], q, x.tag, tags[x.tag])
        PROVE  Pushed(current'[q], q, x.tag, tags'[x.tag])
    <3>1. PICK s : s = tags[x.tag]
      OBVIOUS
    <3>2. Pushed(current'[q], q, x.tag, s)
      BY <2>2, <3>1, PushedStays
    <3> QED BY <1>3, <3>1, <3>2 DEF Pushed
  <2> QED BY <1>1, <1>3, <2>1, <2>2
<1>4. CASE x \notin Done(p)
  <2>1. Due(p, x) /\ Apply(p, x)
    BY <1>1, <1>4 DEF Accepted
  <2>2. tags' = [tags EXCEPT ![x.tag] = x.of]
    BY <2>1 DEF Apply, PutBlobs, PutTag, PutReferrer, AttachReferrer, ReadIndex, PutIndex,
       DeleteManifest
  <2>3. Pushing(p) \in Request /\ x \in PushPlan(Pushing(p))
    BY <1>1, <2>1, DuePlan
  <2>4. PICK i \in 1..Len(Chain[Pushing(p).snap]) : TRUE
    BY <2>3, RequestFields, ChainType
  <2>5. x.of = Pushing(p).snap
    BY <2>3, CompleteBefore
  <2> QED BY <1>0, <1>1, <2>2, <2>5 DEF Types
<1> QED BY <1>2, <1>3, <1>4

(* A manifest goes only when a push prunes it. *)
LEMMA ManifestGone ==
    ASSUME PushInv, [Next]_vars, NEW s \in manifests, s \notin manifests'
    PROVE  \E p \in Pushers, o \in PushOp :
             /\ Due(p, o) /\ DeleteManifest(p, o) /\ o.op = "delete" /\ o.of = s
             /\ Prunes(Pushing(p), s) /\ s \in Snapshots
             /\ current[p] \in 1..Len(Requests[p]) /\ Pushing(p) \in Request
             /\ o \in PushPlan(Pushing(p))
<1>1. ~UNCHANGED <<repository, seen>>
  BY DEF repository
<1>2. PICK p \in Pushers : \E o \in todo[p] : Due(p, o) /\ Apply(p, o)
  BY <1>1, RepositoryChange
<1>3. PICK o \in todo[p] : Due(p, o) /\ Apply(p, o)
  BY <1>2
<1>4. DeleteManifest(p, o) /\ o.op = "delete" /\ o.of = s
  BY <1>3 DEF Apply, PutBlobs, PutTag, PutReferrer, AttachReferrer, ReadIndex, PutIndex,
     DeleteManifest
<1>5. /\ current[p] \in 1..Len(Requests[p]) /\ Pushing(p) \in Request
      /\ o \in PushPlan(Pushing(p)) /\ o \in PushOp
  BY <1>3, DuePlan
<1>6. PICK j \in 1..Len(Pushing(p).prune) :
        o = [op |-> "delete", of |-> Pushing(p).prune[j],
             at |-> <<Len(Chain[Pushing(p).snap]) + 1, 0, j>>]
  BY <1>4, <1>5, DeleteOf
<1>7. Prunes(Pushing(p), s)
  BY <1>4, <1>6 DEF Prunes
<1>8. s \in Snapshots
  BY DEF PushInv, Types
<1> QED BY <1>3, <1>4, <1>5, <1>7, <1>8

LEMMA AncestorsStep ==
    ASSUME PrunesOwn, PushInv, AncestorsDone, [Next]_vars
    PROVE  AncestorsDone'
<1> SUFFICES ASSUME NEW p \in Running', NEW x \in Done(p)', x.op = "tag",
                    x.of # Pushing(p)'.snap
             PROVE  x.of \in manifests'
  BY DEF AncestorsDone
<1>1. /\ p \in Running /\ p \in Pushers /\ Pushing(p)' = Pushing(p) /\ Plan(p)' = Plan(p)
      /\ x \in Done(p) \/ (Due(p, x) /\ (Apply(p, x) \/ Accepted(p, x)))
  BY DoneFrom DEF Running
<1>2. CASE x \in Done(p)
  <2>1. x.of \in manifests
    BY <1>1, <1>2 DEF AncestorsDone
  <2>2. /\ current[p] \in 1..Len(Requests[p]) /\ Pushing(p) \in Request
        /\ x \in PushPlan(Pushing(p))
    BY <1>1, <1>2, RunningPlan DEF Done
  <2>3. PICK i \in 1..Len(Chain[Pushing(p).snap]) : IsTag(Pushing(p), i, x)
    BY <2>2, TagOf
  <2>4. x.of = Chain[Pushing(p).snap][i]
    BY <2>3 DEF IsTag
  <2>5. BuildsOn(Requests[p][current[p]], x.of)
    BY <1>1, <2>4 DEF BuildsOn, Pushing
  <2>6. ASSUME x.of \notin manifests' PROVE FALSE
    <3>1. PICK q \in Pushers :
            /\ Prunes(Pushing(q), x.of) /\ x.of \in Snapshots
            /\ current[q] \in 1..Len(Requests[q])
      BY <2>1, <2>6, ManifestGone
    <3>2. p = q /\ current[p] < current[q]
      BY <1>1, <2>2, <2>5, <3>1 DEF PrunesOwn, Pushing
    <3> QED BY <3>1, <3>2
  <2> QED BY <2>6
<1>3. CASE x \notin Done(p)
  BY <1>1, <1>3 DEF Accepted, Apply, PutBlobs, PutTag, PutReferrer, AttachReferrer, ReadIndex,
     PutIndex, DeleteManifest
<1> QED BY <1>2, <1>3

(* A prune does not reach the chain of a branch: it is of a push that came *)
(* before and whose tags have been moved.                                  *)
LEMMA ChainKept ==
    ASSUME PrunesOwn, PushInv, TagsPushed, TagsOwned, [Next]_vars,
           NEW t \in Branches, tags'[t] = tags[t], tags[t] # None,
           NEW i \in 1..Len(Chain[tags[t]]), Chain[tags[t]][i] \in manifests
    PROVE  Chain[tags[t]][i] \in manifests'
<1>0. Types
  BY DEF PushInv
<1>1. PICK h, s : h = tags[t] /\ s = Chain[h][i]
  OBVIOUS
<1> SUFFICES ASSUME s \notin manifests' PROVE FALSE
  BY <1>1
<1>2. PICK p \in Pushers, o \in PushOp :
        /\ Due(p, o) /\ DeleteManifest(p, o) /\ o.op = "delete" /\ o.of = s
        /\ Prunes(Pushing(p), s) /\ s \in Snapshots
        /\ current[p] \in 1..Len(Requests[p]) /\ Pushing(p) \in Request
        /\ o \in PushPlan(Pushing(p))
  BY <1>1, ManifestGone
<1>3. s # h
  <2>1. tags' = [x \in DOMAIN tags |-> IF tags[x] = s THEN None ELSE tags[x]]
    BY <1>2 DEF DeleteManifest
  <2> QED BY <1>0, <1>1, <2>1 DEF Types
<1>4. ASSUME NEW q \in Pushers, Pushed(current[q], q, t, h)
      PROVE  q = p /\ Puts(Pushing(p), t)
  <2>1. PICK j \in 1..current[q] :
          j <= Len(Requests[q]) /\ Requests[q][j].snap = h /\ Puts(Requests[q][j], t)
    BY <1>4 DEF Pushed
  <2>2. BuildsOn(Requests[q][j], s)
    BY <1>1, <1>3, <2>1 DEF BuildsOn
  <2>3. j \in 1..Len(Requests[q])
    <3>1. Requests[q] \in Seq(Request)
      BY RegistryConstants
    <3> QED BY <1>0, <2>1, <3>1 DEF Types
  <2> QED BY <1>2, <2>1, <2>2, <2>3 DEF PrunesOwn, Pushing
<1>5. Puts(Pushing(p), t)
  BY <1>1, <1>4 DEF TagsPushed
<1>6. PICK x : Before(Pushing(p), o, x) /\ x.op = "tag" /\ x.tag = t
  BY <1>2, <1>5, MovedBefore
<1>7. p \in Running /\ x \in Done(p)
  BY <1>2, <1>6, BeforeDone
<1>8. h = Pushing(p).snap
  BY <1>1, <1>4, <1>6, <1>7 DEF TagsOwned
<1>9. BuildsOn(Requests[p][current[p]], s)
  BY <1>1, <1>3, <1>8 DEF BuildsOn, Pushing
<1>10. current[p] < current[p]
  BY <1>2, <1>9 DEF PrunesOwn, Pushing
<1> QED BY <1>2, <1>10

LEMMA RemoteStep ==
    ASSUME PrunesOwn, PushInv, ReferrerInv, RemoteInv, [Next]_vars
    PROVE  RemoteComplete'
<1>0. Types /\ UploadsDone /\ TagsPushed /\ TagsOwned /\ AncestorsDone /\ RemoteComplete
  BY DEF PushInv, ReferrerInv, RemoteInv
<1> SUFFICES ASSUME NEW t \in Branches, tags'[t] # None, NEW i \in 1..Len(Chain[tags'[t]])
             PROVE  /\ Chain[tags'[t]][i] \in manifests'
                    /\ {Chain[tags'[t]][i]} \X {"config", "layer"} \subseteq blobs'
  BY DEF RemoteComplete
<1>1. CASE tags'[t] = tags[t]
  <2>1. /\ Chain[tags[t]][i] \in manifests
        /\ {Chain[tags[t]][i]} \X {"config", "layer"} \subseteq blobs
    BY <1>0, <1>1 DEF RemoteComplete
  <2>2. Chain[tags[t]][i] \in manifests'
    BY <1>0, <1>1, <2>1, ChainKept
  <2>3. blobs \subseteq blobs'
    BY UploadsStay
  <2> QED BY <1>1, <2>1, <2>2, <2>3
<1>2. CASE tags'[t] # tags[t]
  <2>1. PICK p \in Pushers, o \in PushOp : Moves(p, t, o) /\ Apply(p, o)
    BY <1>2, TagMover
  <2>2. o.op = "tag" /\ o.tag = t /\ o.of = Pushing(p).snap /\ tags'[t] = Pushing(p).snap
    BY <2>1 DEF Moves
  <2>3. Due(p, o) /\ Pushing(p) \in Request /\ o \in PushPlan(Pushing(p)) /\ p \in Running
    BY <2>1, DuePlan DEF Moves
  <2>4. PICK s : s = Chain[Pushing(p).snap][i]
    OBVIOUS
  <2>5. manifests' = manifests \cup {Pushing(p).snap}
    BY <2>1, <2>2 DEF Apply, PutBlobs, PutTag, PutReferrer, AttachReferrer, ReadIndex, PutIndex,
       DeleteManifest
  <2>6. {s} \X {"config", "layer"} \subseteq blobs'
    <3>1. PICK x : /\ Before(Pushing(p), o, x) /\ x.op = "blobs"
                   /\ x.of = {s} \X {"config", "layer"}
      BY <2>2, <2>3, <2>4, CompleteBefore
    <3>2. x \in Done(p)
      BY <2>3, <3>1, BeforeDone
    <3>3. x.of \subseteq blobs
      BY <1>0, <2>3, <3>1, <3>2 DEF UploadsDone
    <3> QED BY <3>1, <3>3, UploadsStay
  <2>7. s \in manifests'
    <3>1. CASE s = Pushing(p).snap
      BY <2>5, <3>1
    <3>2. CASE s # Pushing(p).snap
      <4>1. PICK x : Before(Pushing(p), o, x) /\ x.op = "tag" /\ x.of = s
        BY <2>2, <2>3, <2>4, <3>2, CompleteBefore
      <4>2. x \in Done(p)
        BY <2>3, <4>1, BeforeDone
      <4> QED BY <1>0, <2>3, <2>5, <3>2, <4>1, <4>2 DEF AncestorsDone
    <3> QED BY <3>1, <3>2
  <2> QED BY <2>2, <2>4, <2>6, <2>7
<1> QED BY <1>1, <1>2

(***************************************************************************)
(* A branch leads to a complete snapshot at every moment of every push,    *)
(* after pushes that failed half way and after remote prunes, if a prune   *)
(* deletes only what the own earlier pushes to the same tags built on.     *)
(* Nothing in the registry protects the ancestors of other branches.       *)
(***************************************************************************)
THEOREM BranchesComplete ==
    ASSUME PrunesOwn
    PROVE  Spec => []RemoteComplete
<1> DEFINE Inv == SafeInv /\ RemoteInv
<1>1. Init => Inv
  <2> SUFFICES ASSUME Init PROVE Inv
    OBVIOUS
  <2>1. Running = {} /\ \A t \in Branches : tags[t] = None
    BY DEF Init, Running
  <2> QED BY <2>1, SafeInit DEF RemoteInv, TagsPushed, TagsOwned, AncestorsDone, RemoteComplete
<1>2. Inv /\ [Next]_vars => Inv'
  BY SafeStep, TagsPushedStep, TagsOwnedStep, AncestorsStep, RemoteStep
     DEF SafeInv, RemoteInv
<1>3. Inv => RemoteComplete
  BY DEF RemoteInv
<1> QED BY <1>1, <1>2, <1>3, PTL DEF Spec

=============================================================================
