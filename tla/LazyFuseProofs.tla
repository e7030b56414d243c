--------------------------- MODULE LazyFuseProofs ---------------------------
(***************************************************************************)
(* Proofs about LazyFuse, for every set of names that are at most one      *)
(* directory deep, every snapshot, any number of clients and any length.   *)
(* The upper directory stays well formed whatever the requests do and      *)
(* wherever the server dies, and over a well formed upper directory the    *)
(* tree that Snapshot records is the tree that the mount shows.  And while *)
(* the server gets no request wrong, that tree is the one that the         *)
(* requests amount to.                                                     *)
(***************************************************************************)
EXTENDS LazyFuse, TLAPS

(* A tree that a snapshot can have. *)
GoodTree(t) == t \in FileSystem /\ \A p \in Path : IsDir(t, p) => p \in Top

(* An upper directory: entries and .wh. files are in its directories, and  *)
(* only a file can be in it together with its .wh. file.                   *)
GoodUpper(u) ==
    /\ u \in [tree : Tree, wh : SUBSET Path]
    /\ \A p \in Path : u.tree[p] # Absent \/ p \in u.wh => InDir(u.tree, p)
    /\ \A p \in Path : IsDir(u.tree, p) => p \in Top /\ p \notin u.wh

(* The path is in directories of the mount: they can be copied up. *)
Ready(u, p) ==
    \A a \in Ancestors[p] : a \notin u.wh /\ (u.tree[a] # Absent => IsDir(u.tree, a))

-----------------------------------------------------------------------------
(* The paths. *)
LEMMA PathFacts ==
    /\ \A p \in Path : Ancestors[p] \subseteq Path /\ p \notin Ancestors[p]
    /\ \A p \in Path : \A a \in Ancestors[p] : Ancestors[a] = {} /\ a \in Top
    /\ \A p \in Top : p \in Path /\ Ancestors[p] = {}
    /\ \A p \in Path : \A a, b \in Ancestors[p] : a = b
<1>1. /\ \A p \in Path : Ancestors[p] \subseteq Path /\ Depth[p] \in Nat
      /\ \A p \in Path : \A a \in Ancestors[p] :
            Depth[a] < Depth[p] /\ Ancestors[a] \subseteq Ancestors[p]
      /\ \A p \in Path : \A a, b \in Ancestors[p] : a = b
  BY TreeConstants, LazyFuseConstants DEF TreeConstants, LazyFuseConstants
<1>2. ASSUME NEW p \in Path, p \in Ancestors[p]
      PROVE  FALSE
  <2>1. Depth[p] < Depth[p] /\ Depth[p] \in Nat
    BY <1>1, <1>2
  <2> QED
    BY <2>1
<1>3. ASSUME NEW p \in Path, NEW a \in Ancestors[p]
      PROVE  Ancestors[a] = {}
  BY <1>1, <1>2
<1> QED
  BY <1>1, <1>2, <1>3 DEF Top

LEMMA EntryFacts ==
    /\ Absent \notin Entry
    /\ DirEntry \in Entry /\ TypeOf[DirEntry] = "dir"
    /\ LinkEntry \in Entry /\ TypeOf[LinkEntry] = "symlink"
    /\ \A e \in Data : e \in Entry /\ TypeOf[e] = "file"
    /\ NoData \in Data /\ Written \subseteq Data
    /\ NoPath \notin Path /\ NoTree \notin Tree /\ Unknown \notin Tree
    /\ \A e \in Entry : TypeOf[e] = "dir" => e = DirEntry
BY TreeConstants, LazyFuseConstants DEF TreeConstants, LazyFuseConstants, Data

(* A path that is visible, or whose directory is, is ready. *)
LEMMA VisibleReady ==
    ASSUME NEW u, NEW p \in Path,
           Visible(u, p) # Absent \/ InDir(VisibleTree(u), p)
    PROVE  Ready(u, p)
<1> SUFFICES ASSUME NEW a \in Ancestors[p]
             PROVE  a \notin u.wh /\ (u.tree[a] # Absent => IsDir(u.tree, a))
  BY DEF Ready
<1>1. Found(u, a) # Absent /\ TypeOf[Found(u, a)] = "dir"
  <2>1. CASE Visible(u, p) # Absent
    BY <2>1 DEF Visible
  <2>2. CASE InDir(VisibleTree(u), p)
    <3>1. a \in Path /\ Ancestors[a] = {}
      BY PathFacts
    <3> QED
      BY <2>2, <3>1 DEF InDir, IsDir, VisibleTree, Visible
  <2> QED
    BY <2>1, <2>2
<1> QED
  BY <1>1 DEF Found, IsDir

(* Nothing is below what is not a directory. *)
LEMMA NothingBelow ==
    ASSUME NEW u, GoodUpper(u), NEW p \in Path, ~IsDir(u.tree, p),
           NEW r \in Path, p \in Ancestors[r]
    PROVE  u.tree[r] = Absent /\ r \notin u.wh
BY DEF GoodUpper, InDir

LEMMA ParentMade ==
    ASSUME NEW u, GoodUpper(u), NEW p \in Path, Ready(u, p),
           NEW v, v = ensureParentDir(u, p)
    PROVE  /\ GoodUpper(v) /\ InDir(v.tree, p) /\ v.wh = u.wh
           /\ \A r \in Path : v.tree[r] = IF r \in Ancestors[p] /\ u.tree[r] = Absent
                                          THEN DirEntry ELSE u.tree[r]
<1>1. /\ v.wh = u.wh /\ v.tree \in Tree /\ v \in [tree : Tree, wh : SUBSET Path]
      /\ \A r \in Path : v.tree[r] = IF r \in Ancestors[p] /\ u.tree[r] = Absent
                                     THEN DirEntry ELSE u.tree[r]
  BY EntryFacts DEF ensureParentDir, GoodUpper, Tree
<1>2. \A r \in Path : IsDir(u.tree, r) => IsDir(v.tree, r)
  BY <1>1 DEF IsDir
<1>3. \A a \in Ancestors[p] : IsDir(v.tree, a)
  BY <1>1, EntryFacts, PathFacts DEF IsDir, Ready
<1>4. ASSUME NEW r \in Path, v.tree[r] # Absent \/ r \in v.wh
      PROVE  InDir(v.tree, r)
  <2>1. CASE u.tree[r] # Absent \/ r \in u.wh
    BY <1>2, <2>1, PathFacts DEF GoodUpper, InDir
  <2>2. CASE r \in Ancestors[p]
    BY <2>2, PathFacts DEF InDir
  <2> QED
    BY <1>1, <1>4, <2>1, <2>2
<1>5. ASSUME NEW r \in Path, IsDir(v.tree, r)
      PROVE  r \in Top /\ r \notin v.wh
  <2>1. CASE IsDir(u.tree, r)
    BY <1>1, <2>1 DEF GoodUpper
  <2>2. CASE r \in Ancestors[p]
    BY <1>1, <2>2, PathFacts DEF Ready
  <2> QED
    BY <1>1, <1>5, <2>1, <2>2 DEF IsDir
<1> QED
  BY <1>1, <1>3, <1>4, <1>5 DEF GoodUpper, InDir

LEMMA PutGood ==
    ASSUME NEW u, GoodUpper(u), NEW p \in Path, Ready(u, p), NEW e \in Entry,
           TypeOf[e] = "dir" => p \in Top,
           TypeOf[e] # "dir" => ~IsDir(u.tree, p),
           NEW v, v = Put(u, p, e)
    PROVE  /\ GoodUpper(v) /\ InDir(v.tree, p) /\ v.wh = u.wh \ {p}
           /\ \A r \in Path : v.tree[r] = IF r = p THEN e
                                          ELSE IF r \in Ancestors[p] /\ u.tree[r] = Absent
                                          THEN DirEntry ELSE u.tree[r]
<1>0. PICK w : w = ensureParentDir(u, p)
  OBVIOUS
<1>1. /\ GoodUpper(w) /\ InDir(w.tree, p) /\ w.wh = u.wh
      /\ \A r \in Path : w.tree[r] = IF r \in Ancestors[p] /\ u.tree[r] = Absent
                                     THEN DirEntry ELSE u.tree[r]
  BY <1>0, ParentMade
<1>2. /\ v \in [tree : Tree, wh : SUBSET Path] /\ v.wh = u.wh \ {p}
      /\ \A r \in Path : v.tree[r] = IF r = p THEN e ELSE w.tree[r]
  BY <1>0, <1>1 DEF Put, GoodUpper, Tree
<1>3. InDir(v.tree, p)
  BY <1>1, <1>2, PathFacts DEF InDir, IsDir
<1>4. p \notin Ancestors[p]
  BY PathFacts
<1>5. ASSUME NEW r \in Path, v.tree[r] # Absent \/ r \in v.wh
      PROVE  InDir(v.tree, r)
  <2>1. CASE r = p
    BY <1>3, <2>1
  <2>2. CASE r # p
    <3>1. InDir(w.tree, r)
      BY <1>1, <1>2, <1>5, <2>2 DEF GoodUpper
    <3>2. p \in Ancestors[r] => TypeOf[e] = "dir" /\ e # Absent
      <4>1. p \in Ancestors[r] => IsDir(w.tree, p)
        BY <3>1 DEF InDir
      <4> QED
        BY <1>1, <1>4, <4>1, EntryFacts DEF IsDir
    <3> QED
      BY <1>2, <3>1, <3>2, PathFacts DEF InDir, IsDir
  <2> QED
    BY <2>1, <2>2
<1>6. \A r \in Path : IsDir(v.tree, r) => r \in Top /\ r \notin v.wh
  BY <1>1, <1>2 DEF IsDir, GoodUpper
<1>7. \A r \in Path : v.tree[r] = IF r = p THEN e
                                  ELSE IF r \in Ancestors[p] /\ u.tree[r] = Absent
                                  THEN DirEntry ELSE u.tree[r]
  BY <1>1, <1>2
<1> QED
  BY <1>2, <1>3, <1>5, <1>6, <1>7 DEF GoodUpper

LEMMA CopyUpGood ==
    ASSUME NEW u, GoodUpper(u), GoodTree(lower), NEW p \in Path, Ready(u, p),
           u.tree[p] # Absent \/ lower[p] # Absent,
           NEW v, v = copyUp(u, p)
    PROVE  /\ GoodUpper(v) /\ InDir(v.tree, p) /\ v.wh \subseteq u.wh
           /\ v.tree[p] = (IF u.tree[p] # Absent THEN u.tree[p] ELSE lower[p])
           /\ v.tree[p] # Absent /\ v.tree[p] \in Entry
           /\ \A r \in Path : u.tree[r] # Absent => v.tree[r] = u.tree[r]
           /\ \A r \in Path : r = p \/ v.tree[r] = u.tree[r] \/ (r \in Ancestors[p] /\ v.tree[r] = DirEntry)
           /\ \A r \in Path : r # p => (r \in v.wh <=> r \in u.wh)
<1>1. CASE u.tree[p] # Absent
  <2>1. v = u
    BY <1>1 DEF copyUp
  <2>2. InDir(u.tree, p) /\ u.tree[p] \in Entry
    BY <1>1 DEF GoodUpper, Tree
  <2> QED
    BY <1>1, <2>1, <2>2
<1>2. CASE u.tree[p] = Absent
  <2>1. v = Put(u, p, lower[p]) /\ lower[p] \in Entry
    BY <1>2 DEF copyUp, GoodTree, FileSystem, Tree
  <2>2. TypeOf[lower[p]] = "dir" => p \in Top
    BY <1>2 DEF GoodTree, IsDir
  <2>3. ~IsDir(u.tree, p)
    BY <1>2 DEF IsDir
  <2>4. /\ GoodUpper(v) /\ InDir(v.tree, p) /\ v.wh = u.wh \ {p}
        /\ \A r \in Path : v.tree[r] = IF r = p THEN lower[p]
                                       ELSE IF r \in Ancestors[p] /\ u.tree[r] = Absent
                                       THEN DirEntry ELSE u.tree[r]
    BY <2>1, <2>2, <2>3, PutGood
  <2>5. v.tree[p] = lower[p] /\ lower[p] # Absent
    BY <2>1, <2>4, EntryFacts
  <2>6. /\ \A r \in Path : u.tree[r] # Absent => v.tree[r] = u.tree[r]
        /\ \A r \in Path : r = p \/ v.tree[r] = u.tree[r] \/ (r \in Ancestors[p] /\ v.tree[r] = DirEntry)
    BY <1>2, <2>4
  <2>7. v.wh \subseteq u.wh /\ \A r \in Path : r # p => (r \in v.wh <=> r \in u.wh)
    BY <2>4
  <2> QED
    BY <1>2, <2>1, <2>4, <2>5, <2>6, <2>7
<1> QED
  BY <1>1, <1>2

LEMMA RemoveAllGood ==
    ASSUME NEW u, GoodUpper(u), NEW p \in Path, NEW v, v = RemoveAll(u, p)
    PROVE  /\ GoodUpper(v)
           /\ \A r \in Path : v.tree[r] = IF Within(r, p) THEN Absent ELSE u.tree[r]
           /\ v.wh = {q \in u.wh : p \notin Ancestors[q]}
           /\ Ready(u, p) => Ready(v, p)
<1>1. /\ v \in [tree : Tree, wh : SUBSET Path]
      /\ \A r \in Path : v.tree[r] = IF Within(r, p) THEN Absent ELSE u.tree[r]
      /\ v.wh = {q \in u.wh : p \notin Ancestors[q]}
  BY DEF RemoveAll, GoodUpper, Tree
<1>2. ASSUME NEW r \in Path, v.tree[r] # Absent \/ r \in v.wh, NEW a \in Ancestors[r]
      PROVE  IsDir(v.tree, a)
  <2>1. IsDir(u.tree, a) /\ a \in Path
    BY <1>1, <1>2, PathFacts DEF GoodUpper, InDir
  <2>2. a # p /\ p \notin Ancestors[a]
    BY <1>1, <1>2, PathFacts DEF Within
  <2> QED
    BY <1>1, <2>1, <2>2 DEF IsDir, Within
<1>3. \A r \in Path : IsDir(v.tree, r) => r \in Top /\ r \notin v.wh
  BY <1>1 DEF IsDir, GoodUpper
<1>4. Ready(u, p) => Ready(v, p)
  BY <1>1, PathFacts DEF Ready, IsDir, Within
<1> QED
  BY <1>1, <1>2, <1>3, <1>4 DEF GoodUpper, InDir

LEMMA WhiteoutGood ==
    ASSUME NEW u, GoodUpper(u), NEW p \in Path, Ready(u, p), ~IsDir(u.tree, p),
           NEW v, v = createWhiteout(u, p)
    PROVE  /\ GoodUpper(v) /\ v.wh = u.wh \cup {p}
           /\ \A r \in Path : v.tree[r] = IF r \in Ancestors[p] /\ u.tree[r] = Absent
                                          THEN DirEntry ELSE u.tree[r]
<1>0. PICK w : w = ensureParentDir(u, p)
  OBVIOUS
<1>1. /\ GoodUpper(w) /\ InDir(w.tree, p) /\ w.wh = u.wh
      /\ \A r \in Path : w.tree[r] = IF r \in Ancestors[p] /\ u.tree[r] = Absent
                                     THEN DirEntry ELSE u.tree[r]
  BY <1>0, ParentMade
<1>2. /\ v \in [tree : Tree, wh : SUBSET Path] /\ v.wh = u.wh \cup {p}
      /\ v.tree = w.tree
  BY <1>0, <1>1 DEF createWhiteout, GoodUpper
<1>3. ~IsDir(w.tree, p)
  BY <1>1, PathFacts DEF IsDir
<1> QED
  BY <1>1, <1>2, <1>3 DEF GoodUpper

LEMMA UnlinkGood ==
    ASSUME NEW u, GoodUpper(u), NEW p \in Path, Ready(u, p),
           NEW v, v = unlink(u, p)
    PROVE  /\ GoodUpper(v)
           /\ \A r \in Path : Within(r, p) => v.tree[r] = Absent
           /\ \A r \in Path : ~Within(r, p) =>
                 /\ v.tree[r] = u.tree[r] \/ (r \in Ancestors[p] /\ v.tree[r] = DirEntry)
                 /\ u.tree[r] # Absent => v.tree[r] = u.tree[r]
           /\ \A r \in Path : ~Within(r, p) => (r \in v.wh <=> r \in u.wh)
           /\ \A r \in Path : p \in Ancestors[r] => r \notin v.wh
           /\ lower[p] # Absent => p \in v.wh
<1>0. PICK w : w = RemoveAll(u, p)
  OBVIOUS
<1>1. /\ GoodUpper(w) /\ Ready(w, p)
      /\ \A r \in Path : w.tree[r] = IF Within(r, p) THEN Absent ELSE u.tree[r]
      /\ w.wh = {q \in u.wh : p \notin Ancestors[q]}
  BY <1>0, RemoveAllGood
<1>2. ~IsDir(w.tree, p)
  BY <1>1 DEF IsDir, Within
<1>3. CASE lower[p] = Absent
  BY <1>0, <1>1, <1>3 DEF unlink, Within
<1>4. CASE lower[p] # Absent
  <2>1. v = createWhiteout(w, p)
    BY <1>0, <1>4 DEF unlink
  <2>2. /\ GoodUpper(v) /\ v.wh = w.wh \cup {p}
        /\ \A r \in Path : v.tree[r] = IF r \in Ancestors[p] /\ w.tree[r] = Absent
                                       THEN DirEntry ELSE w.tree[r]
    BY <1>1, <1>2, <2>1, WhiteoutGood
  <2> QED
    BY <1>1, <2>2, PathFacts DEF Within
<1> QED
  BY <1>3, <1>4

-----------------------------------------------------------------------------
(* Renaming. *)
LEMMA FromFacts ==
    ASSUME NEW p \in Path, NEW q \in Path, NEW r \in Path, Within(r, q)
    PROVE  /\ r = q => From(p, q, r) = p
           /\ From(p, q, r) \in Path \cup {NoPath}
           /\ r # q /\ From(p, q, r) # NoPath => p \in Ancestors[From(p, q, r)]
<1> DEFINE origin == {s \in Path : p \in Ancestors[s] /\ Base[s] = Base[r]}
<1>1. r # q /\ origin # {} => From(p, q, r) \in origin
  BY DEF From
<1>2. r # q /\ origin = {} => From(p, q, r) = NoPath
  BY DEF From
<1>3. r = q => From(p, q, r) = p
  BY DEF From
<1> QED
  BY <1>1, <1>2, <1>3

(* The directories have the same names in them. *)
LEMMA SameNames ==
    \A p, q \in Top : {Base[r] : r \in {r \in Path : p \in Ancestors[r]}}
                     = {Base[r] : r \in {r \in Path : q \in Ancestors[r]}}
BY LazyFuseConstants DEF LazyFuseConstants

(* Everything below p has its place below q. *)
LEMMA ToFacts ==
    ASSUME NEW p \in Path, NEW q \in Path, NEW r \in Path, Within(r, p),
           r # p => q \in Top
    PROVE  /\ To(p, q, r) \in Path /\ Within(To(p, q, r), q)
           /\ From(p, q, To(p, q, r)) = r
<1>1. \E s \in Path : Within(s, q) /\ From(p, q, s) = r
  <2>1. CASE r = p
    BY <2>1, FromFacts DEF Within
  <2>2. CASE r # p
    <3>1. p \in Ancestors[r] /\ p \in Top /\ q \in Top
      BY <2>2, PathFacts DEF Within
    <3>2. PICK s \in Path : q \in Ancestors[s] /\ Base[s] = Base[r]
      <4>1. Base[r] \in {Base[x] : x \in {x \in Path : p \in Ancestors[x]}}
        BY <3>1
      <4>2. {Base[x] : x \in {x \in Path : p \in Ancestors[x]}}
            = {Base[x] : x \in {x \in Path : q \in Ancestors[x]}}
        BY <3>1, SameNames, Zenon
      <4> QED
        BY <4>1, <4>2
    <3>3. \A x \in Path : p \in Ancestors[x] /\ Base[x] = Base[r] => x = r
      <4> SUFFICES ASSUME NEW x \in Path, p \in Ancestors[x], Base[x] = Base[r]
                   PROVE  x = r
        OBVIOUS
      <4>1. Ancestors[x] = {p} /\ Ancestors[r] = {p}
        BY <3>1, PathFacts
      <4> QED
        BY <4>1, LazyFuseConstants DEF LazyFuseConstants
    <3>4. {x \in Path : p \in Ancestors[x] /\ Base[x] = Base[s]} = {r}
      BY <3>1, <3>2, <3>3
    <3>5. s # q
      BY <3>2, PathFacts
    <3>6. From(p, q, s) = r
      BY <3>4, <3>5 DEF From
    <3> QED
      BY <3>2, <3>6 DEF Within
  <2> QED
    BY <2>1, <2>2
<1>2. To(p, q, r) = CHOOSE s \in Path : Within(s, q) /\ From(p, q, s) = r
  BY DEF To
<1> QED
  BY <1>1, <1>2

LEMMA MoveTyped ==
    ASSUME NEW t \in Tree, NEW p \in Path, NEW q \in Path
    PROVE  Move(t, p, q) \in Tree
BY FromFacts DEF Move, Tree

LEMMA MoveGood ==
    ASSUME NEW u, GoodUpper(u), NEW p \in Path, NEW q \in Path,
           ~Within(p, q), ~Within(q, p),
           u.tree[p] # Absent, InDir(u.tree, q), q \notin u.wh, ~IsDir(u.tree, q),
           IsDir(u.tree, p) => q \in Top,
           NEW v, v = MoveUpper(u, p, q)
    PROVE  /\ GoodUpper(v)
           /\ \A r \in Path : Within(r, p) => v.tree[r] = Absent
           /\ \A r \in Path : ~Within(r, p) /\ ~Within(r, q) => v.tree[r] = u.tree[r]
           /\ \A r \in Path : Within(r, q) =>
                 v.tree[r] = IF From(p, q, r) = NoPath THEN Absent ELSE u.tree[From(p, q, r)]
           /\ \A r \in Path : ~Within(r, q) /\ p \notin Ancestors[r] => (r \in v.wh <=> r \in u.wh)
           /\ \A r \in Path : p \in Ancestors[r] => r \notin v.wh
           /\ \A r \in Path : q \in Ancestors[r] => (r \in v.wh <=> From(p, q, r) \in u.wh)
           /\ q \notin v.wh
<1>1. \A r \in Path : ~(Within(r, p) /\ Within(r, q))
  BY PathFacts DEF Within
<1>2. /\ v.tree = Move(u.tree, p, q)
      /\ v.wh = {r \in u.wh : p \notin Ancestors[r]}
                \cup {r \in Path : q \in Ancestors[r] /\ From(p, q, r) \in u.wh}
      /\ v \in [tree : Tree, wh : SUBSET Path]
  BY MoveTyped DEF MoveUpper, GoodUpper
<1>3. /\ \A r \in Path : Within(r, p) => v.tree[r] = Absent
      /\ \A r \in Path : ~Within(r, p) /\ ~Within(r, q) => v.tree[r] = u.tree[r]
      /\ \A r \in Path : Within(r, q) =>
            v.tree[r] = IF From(p, q, r) = NoPath THEN Absent ELSE u.tree[From(p, q, r)]
  BY <1>1, <1>2 DEF Move
<1>4. \A r \in Path : q \in Ancestors[r] => r \notin u.wh /\ u.tree[r] = Absent
  BY NothingBelow
<1>5. v.tree[q] = u.tree[p]
  BY <1>3, FromFacts, EntryFacts DEF Within
<1>6. /\ \A r \in Path : ~Within(r, q) /\ p \notin Ancestors[r] => (r \in v.wh <=> r \in u.wh)
      /\ \A r \in Path : p \in Ancestors[r] => r \notin v.wh
      /\ \A r \in Path : q \in Ancestors[r] => (r \in v.wh <=> From(p, q, r) \in u.wh)
      /\ q \notin v.wh
  BY <1>1, <1>2, <1>4, PathFacts DEF Within
<1>7. ASSUME NEW r \in Path, v.tree[r] # Absent \/ r \in v.wh, NEW a \in Ancestors[r]
      PROVE  IsDir(v.tree, a)
  <2>0. a \in Path /\ a \in Top /\ Ancestors[a] = {} /\ a # r
    BY PathFacts
  <2>1. CASE q \in Ancestors[r]
    <3>1. a = q
      BY <2>1, PathFacts
    <3>2. PICK s : s = From(p, q, r)
      OBVIOUS
    <3>3. r # q /\ Within(r, q) /\ s \in Path \cup {NoPath}
      BY <2>1, <3>2, PathFacts, FromFacts DEF Within
    <3>4. s \in u.wh \/ (s # NoPath /\ u.tree[s] # Absent)
      BY <1>3, <1>6, <1>7, <2>1, <3>2, <3>3
    <3>5. s \in Path /\ p \in Ancestors[s]
      BY <3>2, <3>3, <3>4, FromFacts, EntryFacts DEF GoodUpper
    <3>6. IsDir(u.tree, p)
      BY <3>4, <3>5 DEF GoodUpper, InDir
    <3> QED
      BY <1>5, <3>1, <3>6 DEF IsDir
  <2>2. CASE r = q
    <3>1. IsDir(u.tree, a)
      BY <2>2 DEF InDir
    <3>2. ~Within(a, p) /\ ~Within(a, q)
      BY <2>0, <2>2, PathFacts DEF Within
    <3> QED
      BY <1>3, <2>0, <3>1, <3>2 DEF IsDir
  <2>3. CASE ~Within(r, q)
    <3>1. r = p => r \in u.wh
      BY <1>3, <1>6, <1>7, <2>3, PathFacts DEF Within
    <3>2. p \notin Ancestors[r]
      BY <1>3, <1>6, <1>7 DEF Within
    <3>3. IsDir(u.tree, a)
      BY <1>3, <1>6, <1>7, <2>3, <3>1, <3>2 DEF GoodUpper, InDir, Within
    <3>4. ~Within(a, p) /\ ~Within(a, q)
      BY <2>0, <2>3, <3>2 DEF Within
    <3> QED
      BY <1>3, <2>0, <3>3, <3>4 DEF IsDir
  <2> QED
    BY <2>1, <2>2, <2>3 DEF Within
<1>8. ASSUME NEW r \in Path, IsDir(v.tree, r)
      PROVE  r \in Top /\ r \notin v.wh
  <2>1. CASE r = q
    BY <1>5, <1>6, <1>8, <2>1 DEF IsDir
  <2>2. CASE q \in Ancestors[r]
    <3>1. PICK s : s = From(p, q, r)
      OBVIOUS
    <3>2. r # q /\ Within(r, q)
      BY <2>2, PathFacts DEF Within
    <3>3. s \in Path /\ p \in Ancestors[s] /\ v.tree[r] = u.tree[s]
      BY <1>3, <1>8, <3>1, <3>2, FromFacts DEF IsDir
    <3>4. s \in Top
      BY <1>8, <3>3 DEF GoodUpper, IsDir
    <3> QED
      BY <3>3, <3>4, PathFacts
  <2>3. CASE ~Within(r, q)
    BY <1>3, <1>6, <1>8, <2>3 DEF IsDir, GoodUpper, Within
  <2> QED
    BY <2>1, <2>2, <2>3 DEF Within
<1> QED
  BY <1>2, <1>3, <1>6, <1>7, <1>8 DEF GoodUpper, InDir

(* What the kernel lets through, for a well formed upper and lower. *)
RenameOK(u, p, q) ==
    /\ Visible(u, p) # Absent
    /\ Visible(u, q) # Absent \/ InDir(VisibleTree(u), q)
    /\ ~Within(p, q) /\ ~Within(q, p)
    /\ TypeOf[Visible(u, p)] = "dir" => q \in Top

LEMMA MakeWayGood ==
    ASSUME NEW u, GoodUpper(u), GoodTree(lower), NEW p \in Path, NEW q \in Path,
           RenameOK(u, p, q), NEW v, v = MakeWay(u, p, q)
    PROVE  /\ GoodUpper(v) /\ InDir(v.tree, q) /\ q \notin v.wh /\ ~IsDir(v.tree, q)
           /\ v.tree[p] = Visible(u, p) /\ v.tree[p] # Absent
           /\ Ready(v, p) /\ p \notin v.wh
           /\ \A r \in Path : ~Within(r, q) /\ u.tree[r] # Absent => v.tree[r] = u.tree[r]
           /\ v.tree[q] # Absent => q \in u.wh /\ v.tree[q] = u.tree[q]
           /\ \A r \in Path : ~Within(r, q) =>
                 \/ v.tree[r] = u.tree[r] \/ r = p
                 \/ r \in Ancestors[p] \cup Ancestors[q] /\ v.tree[r] = DirEntry
           /\ \A r \in Path : ~Within(r, q) => (r \in v.wh <=> r \in u.wh)
<1>1. Ready(u, p) /\ Ready(u, q)
  BY VisibleReady DEF RenameOK
<1>2. /\ p \notin u.wh
      /\ Visible(u, p) = IF u.tree[p] # Absent THEN u.tree[p] ELSE lower[p]
      /\ u.tree[p] # Absent \/ lower[p] # Absent
  BY DEF RenameOK, Visible, Found
<1>3. PICK c : c = copyUp(u, p)
  OBVIOUS
<1>4. /\ GoodUpper(c) /\ InDir(c.tree, p) /\ c.wh = u.wh
      /\ c.tree[p] = Visible(u, p) /\ c.tree[p] # Absent
      /\ \A r \in Path : u.tree[r] # Absent => c.tree[r] = u.tree[r]
      /\ \A r \in Path : r = p \/ c.tree[r] = u.tree[r] \/ (r \in Ancestors[p] /\ c.tree[r] = DirEntry)
  <2>1. /\ GoodUpper(c) /\ InDir(c.tree, p) /\ c.wh \subseteq u.wh
        /\ c.tree[p] = (IF u.tree[p] # Absent THEN u.tree[p] ELSE lower[p])
        /\ c.tree[p] # Absent
        /\ \A r \in Path : u.tree[r] # Absent => c.tree[r] = u.tree[r]
        /\ \A r \in Path : r = p \/ c.tree[r] = u.tree[r] \/ (r \in Ancestors[p] /\ c.tree[r] = DirEntry)
        /\ \A r \in Path : r # p => (r \in c.wh <=> r \in u.wh)
    BY <1>1, <1>2, <1>3, CopyUpGood
  <2>2. c.wh = u.wh
    BY <1>2, <2>1 DEF GoodUpper
  <2> QED
    BY <1>2, <2>1, <2>2
<1>5. PICK d : d = ensureParentDir(c, q)
  OBVIOUS
<1>6. Ready(c, q)
  <2> SUFFICES ASSUME NEW a \in Ancestors[q], c.tree[a] # Absent
               PROVE  IsDir(c.tree, a)
    BY <1>1, <1>4 DEF Ready
  <2>1. a \in Path /\ a # p
    BY PathFacts DEF RenameOK, Within
  <2> QED
    BY <1>1, <1>4, <2>1, EntryFacts DEF Ready, IsDir
<1>7. /\ GoodUpper(d) /\ InDir(d.tree, q) /\ d.wh = u.wh
      /\ \A r \in Path : d.tree[r] = IF r \in Ancestors[q] /\ c.tree[r] = Absent
                                     THEN DirEntry ELSE c.tree[r]
  BY <1>4, <1>5, <1>6, ParentMade
<1>8. /\ \A r \in Path : u.tree[r] # Absent => d.tree[r] = u.tree[r]
      /\ \A r \in Path : \/ d.tree[r] = u.tree[r] \/ r = p
                         \/ r \in Ancestors[p] \cup Ancestors[q] /\ d.tree[r] = DirEntry
      /\ d.tree[p] = Visible(u, p) /\ d.tree[p] # Absent
  BY <1>4, <1>7
<1>9. d.tree[q] = u.tree[q]
  <2>1. q # p /\ q \notin Ancestors[p] /\ q \notin Ancestors[q]
    BY PathFacts DEF RenameOK, Within
  <2> QED
    BY <1>4, <1>7, <2>1
<1>10. Ready(d, q)
  BY <1>7, PathFacts DEF Ready, GoodUpper, InDir
<1>11. PICK f : f = IF Found(d, q) # Absent THEN unlink(d, q) ELSE d
  OBVIOUS
<1>12. v = [f EXCEPT !.wh = @ \ {q}]
  BY <1>3, <1>5, <1>11 DEF MakeWay
<1>13. /\ GoodUpper(f) /\ ~IsDir(f.tree, q)
       /\ f.tree[q] # Absent => q \in u.wh /\ f.tree[q] = u.tree[q]
       /\ \A r \in Path : ~Within(r, q) /\ d.tree[r] # Absent => f.tree[r] = d.tree[r]
       /\ \A r \in Path : ~Within(r, q) =>
             f.tree[r] = d.tree[r] \/ (r \in Ancestors[q] /\ f.tree[r] = DirEntry)
       /\ \A r \in Path : ~Within(r, q) => (r \in f.wh <=> r \in u.wh)
  <2>1. CASE Found(d, q) # Absent
    <3>1. f = unlink(d, q)
      BY <1>11, <2>1
    <3>2. f.tree[q] = Absent
      BY <1>7, <1>10, <3>1, UnlinkGood DEF Within
    <3> QED
      BY <1>7, <1>10, <3>1, <3>2, UnlinkGood DEF IsDir
  <2>2. CASE Found(d, q) = Absent
    <3>1. f = d /\ (d.tree[q] # Absent => q \in d.wh)
      BY <1>11, <2>2 DEF Found
    <3> QED
      BY <1>7, <1>9, <3>1 DEF GoodUpper, IsDir
  <2> QED
    BY <2>1, <2>2
<1>14. v.tree = f.tree /\ v.wh = f.wh \ {q} /\ v \in [tree : Tree, wh : SUBSET Path]
  BY <1>12, <1>13 DEF GoodUpper
<1>15. GoodUpper(v)
  BY <1>13, <1>14 DEF GoodUpper
<1>16. \A a \in Ancestors[p] \cup Ancestors[q] \cup {p} : a \in Path /\ ~Within(a, q)
  BY PathFacts DEF RenameOK, Within
<1>17. InDir(v.tree, q)
  BY <1>7, <1>13, <1>14, <1>16 DEF InDir, IsDir
<1>18. InDir(v.tree, p)
  <2>1. ASSUME NEW a \in Ancestors[p] PROVE IsDir(v.tree, a)
    <3>1. IsDir(c.tree, a) /\ a \in Path
      BY <1>4, <1>16 DEF InDir
    <3>2. IsDir(d.tree, a)
      BY <1>7, <3>1 DEF IsDir
    <3> QED
      BY <1>13, <1>14, <1>16, <3>2 DEF IsDir
  <2> QED
    BY <2>1 DEF InDir
<1>19. Ready(v, p) /\ p \notin v.wh
  BY <1>1, <1>2, <1>13, <1>14, <1>16, <1>18 DEF Ready, InDir
<1>20. v.tree[p] = Visible(u, p) /\ v.tree[p] # Absent
  BY <1>8, <1>13, <1>14, <1>16
<1>21. /\ \A r \in Path : ~Within(r, q) /\ u.tree[r] # Absent => v.tree[r] = u.tree[r]
       /\ \A r \in Path : ~Within(r, q) =>
             \/ v.tree[r] = u.tree[r] \/ r = p
             \/ r \in Ancestors[p] \cup Ancestors[q] /\ v.tree[r] = DirEntry
       /\ \A r \in Path : ~Within(r, q) => (r \in v.wh <=> r \in u.wh)
  BY <1>8, <1>13, <1>14 DEF Within
<1> QED
  BY <1>13, <1>14, <1>15, <1>17, <1>19, <1>20, <1>21

(* A rename, whether it ends before or after the source is hidden. *)
LEMMA RenameGood ==
    ASSUME NEW u, GoodUpper(u), GoodTree(lower), NEW p \in Path, NEW q \in Path,
           RenameOK(u, p, q)
    PROVE  /\ GoodUpper(MakeWay(u, p, q))
           /\ GoodUpper(MoveUpper(MakeWay(u, p, q), p, q))
           /\ GoodUpper(Renamed(u, p, q))
           /\ \A r \in Path : ~Within(r, p) /\ ~Within(r, q) /\ u.tree[r] # Absent =>
                 Renamed(u, p, q).tree[r] = u.tree[r]
           /\ \A r, s \in Path :
                 Within(r, p) /\ Within(s, q) /\ From(p, q, s) = r /\ u.tree[r] # Absent =>
                    Renamed(u, p, q).tree[s] = u.tree[r]
<1>1. PICK m : m = MakeWay(u, p, q)
  OBVIOUS
<1>2. PICK v : v = MoveUpper(m, p, q)
  OBVIOUS
<1>3. /\ GoodUpper(m) /\ InDir(m.tree, q) /\ q \notin m.wh /\ ~IsDir(m.tree, q)
      /\ m.tree[p] = Visible(u, p) /\ m.tree[p] # Absent
      /\ Ready(m, p)
      /\ \A r \in Path : ~Within(r, q) /\ u.tree[r] # Absent => m.tree[r] = u.tree[r]
  BY <1>1, MakeWayGood
<1>4. /\ ~Within(p, q) /\ ~Within(q, p)
      /\ IsDir(m.tree, p) => q \in Top
  BY <1>3 DEF RenameOK, IsDir
<1>5. /\ GoodUpper(v)
      /\ \A r \in Path : Within(r, p) => v.tree[r] = Absent
      /\ \A r \in Path : ~Within(r, p) /\ ~Within(r, q) => v.tree[r] = m.tree[r]
      /\ \A r \in Path : Within(r, q) =>
            v.tree[r] = IF From(p, q, r) = NoPath THEN Absent ELSE m.tree[From(p, q, r)]
      /\ \A r \in Path : ~Within(r, q) /\ p \notin Ancestors[r] => (r \in v.wh <=> r \in m.wh)
  BY <1>2, <1>3, <1>4, MoveGood
<1>6. Renamed(u, p, q) = IF lower[p] # Absent THEN createWhiteout(v, p) ELSE v
  BY <1>1, <1>2 DEF Renamed, HideSource
<1>7. ~IsDir(v.tree, p)
  BY <1>5 DEF IsDir, Within
<1>8. \A a \in Ancestors[p] : a \in Path /\ ~Within(a, q) /\ ~Within(a, p) /\ p \notin Ancestors[a]
  BY <1>4, PathFacts DEF Within
<1>9. Ready(v, p)
  BY <1>3, <1>5, <1>8 DEF Ready, IsDir
<1>10. PICK w : w = createWhiteout(v, p)
  OBVIOUS
<1>11. /\ GoodUpper(w)
       /\ \A r \in Path : v.tree[r] # Absent => w.tree[r] = v.tree[r]
  BY <1>5, <1>7, <1>9, <1>10, WhiteoutGood
<1>12. \A r \in Path : v.tree[r] # Absent => Renamed(u, p, q).tree[r] = v.tree[r]
  BY <1>6, <1>10, <1>11
<1>13. ASSUME NEW r \in Path, NEW s \in Path, Within(r, p), Within(s, q),
              From(p, q, s) = r, u.tree[r] # Absent
       PROVE  Renamed(u, p, q).tree[s] = u.tree[r]
  <2>1. ~Within(r, q)
    BY <1>4, <1>13, PathFacts DEF Within
  <2>2. v.tree[s] = m.tree[r] /\ m.tree[r] = u.tree[r]
    BY <1>3, <1>5, <1>13, <2>1, EntryFacts
  <2> QED
    BY <1>12, <1>13, <2>2
<1>14. \A r \in Path : ~Within(r, p) /\ ~Within(r, q) /\ u.tree[r] # Absent =>
          Renamed(u, p, q).tree[r] = u.tree[r]
  BY <1>3, <1>5, <1>12
<1> QED
  BY <1>1, <1>2, <1>3, <1>5, <1>6, <1>10, <1>11, <1>13, <1>14

-----------------------------------------------------------------------------
(* Snapshot of an upper directory. *)
Changes(u) == changedOverlayEntries(source, u)
Deletions(u) ==
    effectiveOverlayWhiteouts(source, u) \cup typeChangeWhiteouts(source, u.tree, Changes(u))
Deleted(u, p) == \E w \in Deletions(u) : Within(p, w)

(* Dropping the whiteouts below other whiteouts deletes as much. *)
LEMMA MergeSame ==
    ASSUME NEW S \in SUBSET Path, NEW p \in Path
    PROVE  (\E w \in mergeWhiteouts(S) : Within(p, w)) <=> (\E w \in S : Within(p, w))
<1>1. mergeWhiteouts(S) \subseteq S
  BY DEF mergeWhiteouts
<1>2. ASSUME NEW w \in S, Within(p, w)
      PROVE  \E v \in mergeWhiteouts(S) : Within(p, v)
  <2>1. CASE Ancestors[w] \cap S = {}
    BY <1>2, <2>1 DEF mergeWhiteouts
  <2>2. CASE Ancestors[w] \cap S # {}
    <3>1. PICK a \in Ancestors[w] : a \in S
      BY <2>2
    <3>2. Ancestors[a] = {}
      BY PathFacts
    <3>3. w = p
      BY <1>2, <3>1, PathFacts DEF Within
    <3> QED
      BY <3>1, <3>2, <3>3 DEF mergeWhiteouts, Within
  <2> QED
    BY <2>1, <2>2
<1> QED
  BY <1>1, <1>2

LEMMA RecordedAt ==
    ASSUME NEW u, GoodUpper(u)
    PROVE  \A p \in Path :
             Recorded(u)[p] =
               IF p \in Changes(u) THEN u.tree[p]
               ELSE IF Deleted(u, p)
               THEN IF IsDir(source, p) /\ \E c \in Changes(u) : p \in Ancestors[c]
                    THEN source[p] ELSE Absent
               ELSE source[p]
<1> SUFFICES ASSUME NEW p \in Path
             PROVE  Recorded(u)[p] =
                       IF p \in Changes(u) THEN u.tree[p]
                       ELSE IF Deleted(u, p)
                       THEN IF IsDir(source, p) /\ \E c \in Changes(u) : p \in Ancestors[c]
                            THEN source[p] ELSE Absent
                       ELSE source[p]
  OBVIOUS
<1>1. Deletions(u) \in SUBSET Path
  BY DEF Deletions, effectiveOverlayWhiteouts, typeChangeWhiteouts, Changes,
         changedOverlayEntries, upperEntries, GoodUpper
<1>2. (\E w \in mergeWhiteouts(Deletions(u)) : Within(p, w)) <=> Deleted(u, p)
  BY <1>1, MergeSame DEF Deleted
<1>3. Recorded(u) = mergeOverlayTree(source, u, Changes(u), mergeWhiteouts(Deletions(u)))
  BY DEF Recorded, Changes, Deletions
<1> QED
  BY <1>2, <1>3 DEF mergeOverlayTree

(* What it means to be changed, and to be deleted. *)
LEMMA ChangeFacts ==
    ASSUME NEW u, GoodUpper(u), NEW p \in Path
    PROVE  /\ p \in Changes(u) <=>
                 /\ u.tree[p] # Absent /\ u.tree[p] # source[p]
                 /\ ~\E w \in u.wh : Within(p, w)
           /\ p \in Deletions(u) <=>
                 \/ p \in u.wh /\ source[p] # Absent
                 \/ /\ p \in Changes(u) /\ source[p] # Absent
                    /\ TypeOf[source[p]] # TypeOf[u.tree[p]]
BY DEF Changes, changedOverlayEntries, upperEntries, Deletions, effectiveOverlayWhiteouts,
       typeChangeWhiteouts, GoodUpper

(* A snapshot of a well formed upper directory is a well formed tree. *)
LEMMA RecordedGood ==
    ASSUME NEW u, GoodUpper(u), GoodTree(source), NEW t, t = Recorded(u)
    PROVE  GoodTree(t)
<1>1. u.tree \in Tree /\ source \in Tree
  BY DEF GoodUpper, GoodTree, FileSystem
<1>2. \A p \in Path : t[p] = IF p \in Changes(u) THEN u.tree[p]
                             ELSE IF Deleted(u, p)
                             THEN IF IsDir(source, p) /\ \E c \in Changes(u) : p \in Ancestors[c]
                                  THEN source[p] ELSE Absent
                             ELSE source[p]
  BY RecordedAt
<1>3. t \in Tree
  <2>1. t = [p \in Path |-> t[p]]
    BY DEF Recorded, mergeOverlayTree
  <2>2. \A p \in Path : t[p] \in Entry \cup {Absent}
    BY <1>1, <1>2 DEF Tree
  <2> QED
    BY <2>1, <2>2 DEF Tree
<1>4. ASSUME NEW p \in Path, t[p] # Absent, NEW a \in Ancestors[p]
      PROVE  IsDir(t, a)
  <2>0. a \in Path /\ Ancestors[a] = {} /\ p # a
    BY PathFacts
  <2>1. CASE p \in Changes(u)
    <3>1. IsDir(u.tree, a) /\ a \notin u.wh
      BY <1>2, <1>4, <2>0, <2>1, ChangeFacts DEF GoodUpper, InDir
    <3>2. a \in Changes(u) <=> u.tree[a] # source[a]
      BY <2>0, <3>1, ChangeFacts DEF IsDir, Within
    <3>3. CASE a \in Changes(u)
      BY <1>2, <2>0, <3>1, <3>3 DEF IsDir
    <3>4. CASE a \notin Changes(u)
      <4>1. source[a] = u.tree[a] /\ IsDir(source, a)
        BY <3>1, <3>2, <3>4 DEF IsDir
      <4>2. t[a] = source[a]
        BY <1>2, <2>0, <2>1, <3>4, <4>1
      <4> QED
        BY <4>1, <4>2 DEF IsDir
    <3> QED
      BY <3>3, <3>4
  <2>2. CASE p \notin Changes(u) /\ Deleted(u, p)
    <3>1. IsDir(source, p)
      BY <1>2, <1>4, <2>2
    <3> QED
      BY <2>0, <3>1, PathFacts DEF GoodTree
  <2>3. CASE p \notin Changes(u) /\ ~Deleted(u, p)
    <3>1. source[p] # Absent /\ IsDir(source, a)
      BY <1>2, <1>4, <2>0, <2>3 DEF GoodTree, FileSystem, WellFormed
    <3>2. ~Deleted(u, a) /\ a \notin Deletions(u)
      BY <2>0, <2>3 DEF Deleted, Within
    <3>3. CASE a \in Changes(u)
      BY <1>2, <2>0, <3>1, <3>2, <3>3, ChangeFacts DEF IsDir
    <3>4. CASE a \notin Changes(u)
      BY <1>2, <2>0, <3>1, <3>2, <3>4 DEF IsDir
    <3> QED
      BY <3>3, <3>4
  <2> QED
    BY <2>1, <2>2, <2>3
<1>5. ASSUME NEW p \in Path, IsDir(t, p)
      PROVE  p \in Top
  <2>1. IsDir(u.tree, p) \/ IsDir(source, p)
    BY <1>2, <1>5 DEF IsDir
  <2> QED
    BY <2>1 DEF GoodUpper, GoodTree
<1> QED
  BY <1>3, <1>4, <1>5 DEF GoodTree, FileSystem, WellFormed

(* What a server shows over a tree t: Found and Visible for any lower.     *)
FoundIn(t, u, p) ==
    IF p \in u.wh THEN Absent ELSE IF u.tree[p] # Absent THEN u.tree[p] ELSE t[p]

Over(t, u, p) ==
    IF \A a \in Ancestors[p] : FoundIn(t, u, a) # Absent /\ TypeOf[FoundIn(t, u, a)] = "dir"
    THEN FoundIn(t, u, p) ELSE Absent

(* The snapshot of a well formed upper directory is what a mount of its    *)
(* parent shows, path by path.                                             *)
LEMMA RecordedOver ==
    ASSUME NEW u, GoodUpper(u), GoodTree(source)
    PROVE  \A p \in Path : Recorded(u)[p] = Over(source, u, p)
<1>1. \A p \in Path : Recorded(u)[p] =
                         IF p \in Changes(u) THEN u.tree[p]
                         ELSE IF Deleted(u, p)
                         THEN IF IsDir(source, p) /\ \E c \in Changes(u) : p \in Ancestors[c]
                              THEN source[p] ELSE Absent
                         ELSE source[p]
  BY RecordedAt
<1>2. \A p \in Path : u.tree[p] # Absent \/ p \in u.wh => InDir(u.tree, p)
  BY DEF GoodUpper
<1>3. \A p \in Path : source[p] # Absent => InDir(source, p)
  BY DEF GoodTree, FileSystem, WellFormed, InDir
<1>4. ASSUME NEW p \in Path, p \in Top
      PROVE  Recorded(u)[p] = Over(source, u, p)
  <2>0. Ancestors[p] = {} /\ Over(source, u, p) = FoundIn(source, u, p)
    BY <1>4, PathFacts DEF Over
  <2>1. Deleted(u, p) <=> p \in Deletions(u)
    BY <2>0 DEF Deleted, Within
  <2>2. CASE p \in u.wh
    <3>1. p \notin Changes(u)
      BY <2>2, ChangeFacts DEF Within
    <3>2. \A c \in Path : p \in Ancestors[c] => c \notin Changes(u)
      BY <2>2, ChangeFacts DEF Within
    <3>3. Changes(u) \subseteq Path
      BY DEF Changes, changedOverlayEntries, upperEntries
    <3>4. source[p] # Absent => p \in Deletions(u)
      BY <2>2, ChangeFacts
    <3> QED
      BY <1>1, <2>0, <2>1, <2>2, <3>1, <3>2, <3>3, <3>4 DEF FoundIn
  <2>3. CASE p \notin u.wh /\ u.tree[p] # Absent
    <3>1. p \in Changes(u) <=> u.tree[p] # source[p]
      BY <2>0, <2>3, ChangeFacts DEF Within
    <3>2. p \in Deletions(u) => p \in Changes(u)
      BY <2>3, ChangeFacts
    <3> QED
      BY <1>1, <2>0, <2>1, <2>3, <3>1, <3>2 DEF FoundIn
  <2>4. CASE p \notin u.wh /\ u.tree[p] = Absent
    <3>1. p \notin Changes(u) /\ p \notin Deletions(u)
      BY <2>4, ChangeFacts
    <3> QED
      BY <1>1, <2>0, <2>1, <2>4, <3>1 DEF FoundIn
  <2> QED
    BY <2>2, <2>3, <2>4
<1>5. ASSUME NEW p \in Path, NEW a \in Ancestors[p]
      PROVE  Recorded(u)[p] = Over(source, u, p)
  <2>0. /\ a \in Path /\ a # p /\ Ancestors[p] = {a} /\ Ancestors[a] = {} /\ p \notin Top
        /\ \A c \in Path : p \notin Ancestors[c]
    BY PathFacts
  <2>1. Over(source, u, p) = IF FoundIn(source, u, a) # Absent /\ TypeOf[FoundIn(source, u, a)] = "dir"
                        THEN FoundIn(source, u, p) ELSE Absent
    BY <2>0 DEF Over
  <2>2. Deleted(u, p) <=> p \in Deletions(u) \/ a \in Deletions(u)
    BY <2>0 DEF Deleted, Within
  <2>3. ~IsDir(source, p)
    BY <2>0 DEF GoodTree
  <2>4. source[p] # Absent => source[a] # Absent /\ TypeOf[source[a]] = "dir"
    BY <1>3, <2>0 DEF InDir, IsDir
  <2>5. /\ p \in Changes(u) <=> /\ u.tree[p] # Absent /\ u.tree[p] # source[p]
                                /\ p \notin u.wh /\ a \notin u.wh
        /\ a \in Changes(u) <=> /\ u.tree[a] # Absent /\ u.tree[a] # source[a]
                                /\ a \notin u.wh
    BY <2>0, ChangeFacts DEF Within
  <2>6. /\ a \in Deletions(u) <=>
              \/ a \in u.wh /\ source[a] # Absent
              \/ a \in Changes(u) /\ source[a] # Absent /\ TypeOf[source[a]] # TypeOf[u.tree[a]]
        /\ p \in Deletions(u) <=>
              \/ p \in u.wh /\ source[p] # Absent
              \/ p \in Changes(u) /\ source[p] # Absent /\ TypeOf[source[p]] # TypeOf[u.tree[p]]
    BY <2>0, ChangeFacts
  <2>7. u.tree[p] # Absent \/ p \in u.wh => u.tree[a] # Absent /\ TypeOf[u.tree[a]] = "dir"
    BY <1>2, <2>0 DEF InDir, IsDir
  <2>8. Recorded(u)[p] = IF p \in Changes(u) THEN u.tree[p]
                         ELSE IF p \in Deletions(u) \/ a \in Deletions(u) THEN Absent
                         ELSE source[p]
    BY <1>1, <2>2, <2>3
  <2>9. CASE a \in u.wh
    BY <2>1, <2>4, <2>5, <2>6, <2>8, <2>9 DEF FoundIn
  <2>10. CASE a \notin u.wh /\ u.tree[a] # Absent
    BY <2>1, <2>4, <2>5, <2>6, <2>7, <2>8, <2>10 DEF FoundIn
  <2>11. CASE a \notin u.wh /\ u.tree[a] = Absent
    BY <2>1, <2>4, <2>5, <2>6, <2>7, <2>8, <2>11 DEF FoundIn
  <2> QED
    BY <2>9, <2>10, <2>11
<1> QED
  BY <1>4, <1>5 DEF Top

LEMMA RecordedVisible ==
    ASSUME NEW u, GoodUpper(u), GoodTree(source), lower = source
    PROVE  Recorded(u) = VisibleTree(u)
<1>1. \A p \in Path : Recorded(u)[p] = Visible(u, p)
  BY RecordedOver DEF Over, FoundIn, Visible, Found
<1> QED
  BY <1>1 DEF VisibleTree, Recorded, mergeOverlayTree

(* The index is empty exactly when the snapshot is its parent. *)
LEMMA RecordedDirty ==
    ASSUME NEW u, GoodUpper(u), GoodTree(source)
    PROVE  DirtyPaths(u) = {} <=> Recorded(u) = source
<1>1. \A p \in Path : Recorded(u)[p] =
                         IF p \in Changes(u) THEN u.tree[p]
                         ELSE IF Deleted(u, p)
                         THEN IF IsDir(source, p) /\ \E c \in Changes(u) : p \in Ancestors[c]
                              THEN source[p] ELSE Absent
                         ELSE source[p]
  BY RecordedAt
<1>2. /\ DirtyPaths(u) = Changes(u) \cup effectiveOverlayWhiteouts(source, u)
      /\ Changes(u) \subseteq Path /\ effectiveOverlayWhiteouts(source, u) \subseteq Path
  BY DEF DirtyPaths, Changes, changedOverlayEntries, upperEntries, GoodUpper,
         effectiveOverlayWhiteouts
<1>3. ASSUME DirtyPaths(u) = {}
      PROVE  Recorded(u) = source
  <2>1. Changes(u) = {} /\ Deletions(u) = {}
    BY <1>2, <1>3 DEF Deletions, typeChangeWhiteouts
  <2>2. \A p \in Path : Recorded(u)[p] = source[p]
    BY <1>1, <2>1 DEF Deleted
  <2>3. Recorded(u) = [p \in Path |-> Recorded(u)[p]] /\ source = [p \in Path |-> source[p]]
    BY DEF Recorded, mergeOverlayTree, GoodTree, FileSystem, Tree
  <2> QED
    BY <2>2, <2>3
<1>4. ASSUME Recorded(u) = source, NEW p \in DirtyPaths(u)
      PROVE  FALSE
  <2>1. CASE p \in Changes(u)
    BY <1>1, <1>2, <1>4, <2>1, ChangeFacts
  <2>2. CASE p \in effectiveOverlayWhiteouts(source, u)
    <3>1. p \in Path /\ p \in u.wh /\ source[p] # Absent /\ p \in Deletions(u)
      BY <1>2, <2>2 DEF effectiveOverlayWhiteouts, Deletions
    <3>2. Deleted(u, p) /\ p \notin Changes(u)
      BY <3>1, ChangeFacts DEF Deleted, Within
    <3>3. \A c \in Changes(u) : p \notin Ancestors[c]
      BY <1>2, <3>1, ChangeFacts DEF Within
    <3> QED
      BY <1>1, <1>4, <3>1, <3>2, <3>3
  <2> QED
    BY <1>2, <2>1, <2>2
<1> QED
  BY <1>3, <1>4

-----------------------------------------------------------------------------
(***************************************************************************)
(* The inductive invariant.  A client has a file open only while the       *)
(* server runs, and the file that an OPEN is writing is a file of the      *)
(* upper directory wherever it was renamed to.                             *)
(***************************************************************************)
Known == Tree \cup {Unknown}

MountInv ==
    /\ mnt \in {"none", "live", "dead"}
    /\ IF mnt = "live" THEN GoodTree(lower) ELSE lower = NoTree
    /\ IF source = NoTree THEN posix = NoTree /\ mnt = "none"
       ELSE GoodTree(source) /\ posix \in Known
    /\ last = NoTree \/ GoodTree(last)
    /\ snapshots \in 0..MaxSnapshots /\ requests \in 0..MaxRequests

IsFile(tree, p) == tree[p] # Absent /\ TypeOf[tree[p]] = "file"

OpenInv(c) ==
    /\ open[c] # NoPath => mnt = "live"
    /\ copying[c] # "no" => open[c] # NoPath
    /\ copying[c] \in {"create", "fill"} => IsFile(lower, open[c])
    /\ file[c] # NoPath => copying[c] = "fill" /\ IsFile(upper.tree, file[c])

ClientInv ==
    /\ open \in [Clients -> Path \cup {NoPath}]
    /\ file \in [Clients -> Path \cup {NoPath}]
    /\ copying \in [Clients -> {"no", "create", "fill", "unhide"}]
    /\ \A c \in Clients : OpenInv(c)

IInv == GoodUpper(upper) /\ MountInv /\ ClientInv

LEMMA FuseInit == Init => IInv
<1> SUFFICES ASSUME Init PROVE IInv
  OBVIOUS
<1>1. GoodUpper(upper)
  BY DEF Init, GoodUpper, NoUpper, Empty, Tree, IsDir
<1>2. MountInv
  BY LazyFuseConstants DEF Init, MountInv, LazyFuseConstants
<1>3. ClientInv
  BY DEF Init, ClientInv, OpenInv
<1> QED
  BY <1>1, <1>2, <1>3 DEF IInv

(* While the server runs there is a record, a lower tree and a history. *)
LEMMA LiveFacts ==
    ASSUME IInv, mnt = "live"
    PROVE  /\ GoodUpper(upper) /\ GoodTree(lower) /\ lower \in Tree
           /\ source # NoTree /\ GoodTree(source) /\ posix \in Known
BY EntryFacts DEF IInv, MountInv, GoodTree, FileSystem

LEMMA AmountsTyped ==
    ASSUME posix \in Known, NEW t, NEW wrong, posix \in Tree => t \in Tree,
           Amounts(t, wrong)
    PROVE  posix' \in Known
BY DEF Known, Amounts

(* A request that changes names or attributes. *)
LEMMA NameStep ==
    ASSUME IInv, mnt = "live", UNCHANGED kept, Counted,
           GoodUpper(upper'), posix' \in Known,
           file' \in [Clients -> Path \cup {NoPath}],
           \A c \in Clients : file'[c] # NoPath =>
               file[c] # NoPath /\ IsFile(upper'.tree, file'[c])
    PROVE  IInv'
<1>1. UNCHANGED <<lower, mnt, source, open, copying, last, snapshots>>
  BY DEF kept
<1>2. requests' \in 0..MaxRequests
  BY LazyFuseConstants DEF Counted, IInv, MountInv, LazyFuseConstants
<1>3. MountInv'
  BY <1>1, <1>2, LiveFacts DEF IInv, MountInv, GoodTree
<1>4. ClientInv'
  BY <1>1 DEF IInv, ClientInv, OpenInv, IsFile
<1>5. GoodUpper(upper)'
  BY DEF GoodUpper, InDir, IsDir, Top, Tree
<1> QED
  BY <1>3, <1>4, <1>5 DEF IInv

(* What a path shows that is visible, and one that is free. *)
LEMMA SeenFacts ==
    ASSUME NEW u, NEW p \in Path, Visible(u, p) # Absent
    PROVE  /\ Ready(u, p) /\ p \notin u.wh
           /\ Visible(u, p) = (IF u.tree[p] # Absent THEN u.tree[p] ELSE lower[p])
           /\ u.tree[p] # Absent \/ lower[p] # Absent
BY VisibleReady DEF Visible, Found

LEMMA FreeFacts ==
    ASSUME NEW u, GoodUpper(u), NEW p \in Path,
           Visible(u, p) = Absent, InDir(VisibleTree(u), p)
    PROVE  /\ Ready(u, p) /\ ~IsDir(u.tree, p) /\ Found(u, p) = Absent
<1>1. \A a \in Ancestors[p] : Found(u, a) # Absent /\ TypeOf[Found(u, a)] = "dir"
  BY PathFacts DEF InDir, IsDir, VisibleTree, Visible
<1>2. Found(u, p) = Absent
  BY <1>1 DEF Visible
<1>3. ~IsDir(u.tree, p)
  BY <1>2 DEF Found, GoodUpper, IsDir
<1> QED
  BY <1>2, <1>3, VisibleReady

LEMMA MakeStep ==
    ASSUME IInv, NEW p \in Path, NEW e \in Entry, Make(p, e)
    PROVE  IInv'
<1>1. /\ mnt = "live" /\ UNCHANGED kept /\ UNCHANGED file /\ Counted
      /\ Visible(upper, p) = Absent /\ InDir(VisibleTree(upper), p)
      /\ e \in {NoData, LinkEntry} \cup (IF p \in Top THEN {DirEntry} ELSE {})
  BY DEF Make, Free
<1>2. GoodUpper(upper) /\ Ready(upper, p) /\ ~IsDir(upper.tree, p) /\ posix \in Known
  BY <1>1, FreeFacts, LiveFacts
<1>3. TypeOf[e] = "dir" => p \in Top
  BY <1>1, EntryFacts
<1>4. posix' \in Known
  <2>1. posix \in Tree => [posix EXCEPT ![p] = e] \in Tree
    BY DEF Tree
  <2> QED
    BY <1>2, <2>1, AmountsTyped DEF Make
<1>5. \A c \in Clients : file[c] # NoPath => file[c] \in Path /\ IsFile(upper.tree, file[c])
  BY DEF IInv, ClientInv, OpenInv
<1>6. CASE upper.tree[p] # Absent /\ e # NoData
  <2>1. upper'.tree = upper.tree /\ GoodUpper(upper')
    BY <1>2, <1>6 DEF Make, GoodUpper
  <2> QED
    BY <1>1, <1>4, <1>5, <2>1, NameStep DEF IInv, ClientInv, IsFile
<1>7. CASE ~(upper.tree[p] # Absent /\ e # NoData)
  <2>1. upper' = Put(upper, p, e)
    BY <1>7 DEF Make
  <2>2. /\ GoodUpper(upper')
        /\ \A r \in Path : upper'.tree[r] = IF r = p THEN e
                                            ELSE IF r \in Ancestors[p] /\ upper.tree[r] = Absent
                                            THEN DirEntry ELSE upper.tree[r]
    BY <1>2, <1>3, <2>1, PutGood
  <2>3. \A r \in Path : IsFile(upper.tree, r) => IsFile(upper'.tree, r)
    BY <1>7, <2>2, EntryFacts DEF IsFile
  <2> QED
    BY <1>1, <1>4, <1>5, <2>2, <2>3, NameStep DEF IInv, ClientInv
<1> QED
  BY <1>6, <1>7

LEMMA SetattrStep ==
    ASSUME IInv, NEW p \in Path, NEW truncate \in BOOLEAN, Setattr(p, truncate)
    PROVE  IInv'
<1>1. /\ mnt = "live" /\ UNCHANGED kept /\ UNCHANGED file /\ Counted
      /\ Visible(upper, p) # Absent /\ (truncate => TypeOf[Visible(upper, p)] = "file")
  BY DEF Setattr, Seen, SeenType
<1>2. /\ GoodUpper(upper) /\ Ready(upper, p) /\ GoodTree(lower) /\ posix \in Known
      /\ Visible(upper, p) = (IF upper.tree[p] # Absent THEN upper.tree[p] ELSE lower[p])
      /\ upper.tree[p] # Absent \/ lower[p] # Absent
  BY <1>1, SeenFacts, LiveFacts
<1>3. PICK v : v = copyUp(upper, p)
  OBVIOUS
<1>4. /\ GoodUpper(v) /\ InDir(v.tree, p) /\ v.tree[p] = Visible(upper, p)
      /\ \A r \in Path : upper.tree[r] # Absent => v.tree[r] = upper.tree[r]
  BY <1>2, <1>3, CopyUpGood
<1>5. posix' \in Known
  <2>1. posix \in Tree => (IF truncate THEN [posix EXCEPT ![p] = NoData] ELSE posix) \in Tree
    BY EntryFacts DEF Tree
  <2> QED
    BY <1>2, <2>1, AmountsTyped DEF Setattr
<1>6. \A c \in Clients : file[c] # NoPath => file[c] \in Path /\ IsFile(upper.tree, file[c])
  BY DEF IInv, ClientInv, OpenInv
<1>7. /\ GoodUpper(upper')
      /\ \A r \in Path : IsFile(upper.tree, r) => IsFile(upper'.tree, r)
  <2>1. CASE ~truncate
    BY <1>3, <1>4, <2>1 DEF Setattr, IsFile
  <2>2. CASE truncate
    <3>1. upper' = Put(v, p, NoData)
      BY <1>3, <2>2 DEF Setattr
    <3>2. ~IsDir(v.tree, p) /\ Ready(v, p)
      BY <1>1, <1>4, <2>2, PathFacts DEF IsDir, Ready, GoodUpper, InDir
    <3>3. /\ GoodUpper(upper')
          /\ \A r \in Path : upper'.tree[r] = IF r = p THEN NoData
                                              ELSE IF r \in Ancestors[p] /\ v.tree[r] = Absent
                                              THEN DirEntry ELSE v.tree[r]
      BY <1>4, <3>1, <3>2, PutGood, EntryFacts
    <3> QED
      BY <1>4, <3>3, EntryFacts DEF IsFile
  <2> QED
    BY <2>1, <2>2
<1> QED
  BY <1>1, <1>5, <1>6, <1>7, NameStep DEF IInv, ClientInv

LEMMA UnlinkStep ==
    ASSUME IInv, NEW p \in Path, Unlink(p)
    PROVE  IInv'
<1>1. /\ mnt = "live" /\ UNCHANGED kept /\ Counted /\ Visible(upper, p) # Absent
      /\ upper' = unlink(upper, p)
      /\ file' = [c \in Clients |-> IF file[c] = NoPath THEN NoPath
                                    ELSE [r \in Path |-> Gone(p, r)][file[c]]]
  BY DEF Unlink, Seen, Follow
<1>2. GoodUpper(upper) /\ Ready(upper, p) /\ posix \in Known
  BY <1>1, SeenFacts, LiveFacts
<1>3. /\ GoodUpper(upper')
      /\ \A r \in Path : ~Within(r, p) => (upper.tree[r] # Absent => upper'.tree[r] = upper.tree[r])
  BY <1>1, <1>2, UnlinkGood
<1>4. posix' \in Known
  <2>1. posix \in Tree => [r \in Path |-> IF Within(r, p) THEN Absent ELSE posix[r]] \in Tree
    BY DEF Tree
  <2> QED
    BY <1>2, <2>1, AmountsTyped DEF Unlink
<1>5. \A c \in Clients : /\ file[c] \in Path \cup {NoPath}
                         /\ file[c] # NoPath => IsFile(upper.tree, file[c])
  BY DEF IInv, ClientInv, OpenInv
<1>6. \A c \in Clients : file'[c] = IF file[c] = NoPath \/ Within(file[c], p) THEN NoPath
                                    ELSE file[c]
  BY <1>1, <1>5 DEF Gone
<1>7. file' \in [Clients -> Path \cup {NoPath}]
  BY <1>1, <1>5, <1>6
<1>8. \A c \in Clients : file'[c] # NoPath =>
         file[c] # NoPath /\ IsFile(upper'.tree, file'[c])
  BY <1>3, <1>5, <1>6 DEF IsFile
<1> QED
  BY <1>1, <1>3, <1>4, <1>7, <1>8, NameStep

LEMMA CanRenameFacts ==
    ASSUME IInv, NEW p \in Path, NEW q \in Path, CanRename(p, q)
    PROVE  /\ mnt = "live" /\ GoodUpper(upper) /\ GoodTree(lower) /\ posix \in Known
           /\ RenameOK(upper, p, q)
           /\ posix \in Tree => Move(posix, p, q) \in Tree
BY LiveFacts, MoveTyped DEF CanRename, Seen, Free, SeenType, RenameOK

LEMMA RenameStep ==
    ASSUME IInv, NEW p \in Path, NEW q \in Path, Rename(p, q)
    PROVE  IInv'
<1>1. /\ CanRename(p, q) /\ UNCHANGED kept /\ Counted
      /\ upper' = Renamed(upper, p, q)
      /\ file' = [c \in Clients |-> IF file[c] = NoPath THEN NoPath
                                    ELSE [r \in Path |-> To(p, q, r)][file[c]]]
  BY DEF Rename, Follow
<1>2. /\ mnt = "live" /\ GoodUpper(upper) /\ GoodTree(lower) /\ posix \in Known
      /\ RenameOK(upper, p, q)
      /\ posix \in Tree => Move(posix, p, q) \in Tree
  BY <1>1, CanRenameFacts
<1>3. /\ GoodUpper(upper')
      /\ \A r \in Path : ~Within(r, p) /\ ~Within(r, q) /\ upper.tree[r] # Absent =>
            upper'.tree[r] = upper.tree[r]
      /\ \A r, s \in Path :
            Within(r, p) /\ Within(s, q) /\ From(p, q, s) = r /\ upper.tree[r] # Absent =>
               upper'.tree[s] = upper.tree[r]
  BY <1>1, <1>2, RenameGood
<1>4. posix' \in Known
  BY <1>2, AmountsTyped DEF Rename
<1>5. \A c \in Clients : /\ file[c] \in Path \cup {NoPath}
                         /\ file[c] # NoPath => IsFile(upper.tree, file[c])
  BY DEF IInv, ClientInv, OpenInv
<1>6. ASSUME NEW c \in Clients, file[c] # NoPath
      PROVE  /\ file'[c] \in Path \cup {NoPath}
             /\ file'[c] # NoPath => IsFile(upper'.tree, file'[c])
  <2>1. PICK r \in Path : r = file[c]
    BY <1>5, <1>6
  <2>2. file'[c] = To(p, q, r) /\ IsFile(upper.tree, r)
    BY <1>1, <1>5, <1>6, <2>1
  <2>3. CASE Within(r, p)
    <3>1. r # p => q \in Top
      <4>1. r # p => IsDir(upper.tree, p)
        BY <2>2, <2>3, <1>2 DEF Within, GoodUpper, InDir, IsFile
      <4>2. Visible(upper, p) = (IF upper.tree[p] # Absent THEN upper.tree[p] ELSE lower[p])
        BY <1>2, SeenFacts DEF RenameOK
      <4> QED
        BY <1>2, <4>1, <4>2 DEF RenameOK, IsDir
    <3>2. /\ To(p, q, r) \in Path /\ Within(To(p, q, r), q)
          /\ From(p, q, To(p, q, r)) = r
      BY <2>3, <3>1, ToFacts
    <3>3. upper'.tree[To(p, q, r)] = upper.tree[r]
      BY <1>3, <2>2, <2>3, <3>2 DEF IsFile
    <3> QED
      BY <2>2, <3>2, <3>3 DEF IsFile
  <2>4. CASE ~Within(r, p)
    <3>1. To(p, q, r) = Gone(q, r)
      BY <2>4 DEF To
    <3> QED
      BY <1>3, <2>2, <2>4, <3>1 DEF Gone, IsFile
  <2> QED
    BY <2>3, <2>4
<1>7. \A c \in Clients : file[c] = NoPath => file'[c] = NoPath
  BY <1>1
<1>8. file' \in [Clients -> Path \cup {NoPath}]
  <2>1. \A c \in Clients : file'[c] \in Path \cup {NoPath}
    BY <1>6, <1>7
  <2> QED
    BY <1>1, <2>1
<1> QED
  BY <1>1, <1>2, <1>3, <1>4, <1>6, <1>7, <1>8, NameStep

LEMMA RenameFailsStep ==
    ASSUME IInv, NEW p \in Path, NEW q \in Path, RenameFails(p, q)
    PROVE  IInv'
<1>1. /\ CanRename(p, q) /\ UNCHANGED kept /\ UNCHANGED file /\ Counted
      /\ upper' = MakeWay(upper, p, q) /\ upper'.tree[q] # Absent
  BY DEF RenameFails, Blocked
<1>2. /\ mnt = "live" /\ GoodUpper(upper) /\ GoodTree(lower) /\ posix \in Known
      /\ RenameOK(upper, p, q)
  BY <1>1, CanRenameFacts
<1>3. /\ GoodUpper(upper')
      /\ \A r \in Path : ~Within(r, q) /\ upper.tree[r] # Absent => upper'.tree[r] = upper.tree[r]
      /\ q \in upper.wh /\ upper'.tree[q] = upper.tree[q]
  BY <1>1, <1>2, MakeWayGood
<1>4. posix' \in Known
  BY <1>2, AmountsTyped DEF RenameFails
<1>5. \A r \in Path : q \in Ancestors[r] => upper.tree[r] = Absent
  BY <1>2, <1>3 DEF GoodUpper, InDir
<1>6. \A r \in Path : IsFile(upper.tree, r) => IsFile(upper'.tree, r)
  BY <1>3, <1>5 DEF IsFile, Within
<1>7. \A c \in Clients : file[c] # NoPath => file[c] \in Path /\ IsFile(upper.tree, file[c])
  BY DEF IInv, ClientInv, OpenInv
<1> QED
  BY <1>1, <1>2, <1>3, <1>4, <1>6, <1>7, NameStep DEF IInv, ClientInv

-----------------------------------------------------------------------------
(* A step of one client's OPEN, WRITE or CLOSE. *)
LEMMA ClientStep ==
    ASSUME IInv, mnt = "live", UNCHANGED rest, NEW c \in Clients,
           GoodUpper(upper'), posix' \in Known,
           NEW o \in Path \cup {NoPath}, NEW f \in Path \cup {NoPath},
           NEW l \in {"no", "create", "fill", "unhide"},
           open' = [open EXCEPT ![c] = o], file' = [file EXCEPT ![c] = f],
           copying' = [copying EXCEPT ![c] = l],
           l # "no" => o # NoPath,
           l \in {"create", "fill"} => IsFile(lower, o),
           f # NoPath => l = "fill" /\ IsFile(upper'.tree, f),
           \A r \in Path : IsFile(upper.tree, r) => IsFile(upper'.tree, r)
    PROVE  IInv'
<1>1. UNCHANGED <<lower, mnt, source, last, snapshots, requests>>
  BY DEF rest
<1>2. MountInv'
  BY <1>1, LiveFacts DEF IInv, MountInv, GoodTree
<1>3. ClientInv'
  <2>1. /\ open' \in [Clients -> Path \cup {NoPath}]
        /\ file' \in [Clients -> Path \cup {NoPath}]
        /\ copying' \in [Clients -> {"no", "create", "fill", "unhide"}]
    BY DEF IInv, ClientInv
  <2>2. ASSUME NEW d \in Clients PROVE OpenInv(d)'
    <3>1. CASE d = c
      BY <1>1, <3>1 DEF IInv, ClientInv, OpenInv, IsFile
    <3>2. CASE d # c
      <4>1. open'[d] = open[d] /\ file'[d] = file[d] /\ copying'[d] = copying[d]
        BY <3>2 DEF IInv, ClientInv
      <4>2. OpenInv(d) /\ file[d] \in Path \cup {NoPath}
        BY DEF IInv, ClientInv
      <4> QED
        BY <1>1, <4>1, <4>2 DEF OpenInv, IsFile
    <3> QED
      BY <3>1, <3>2
  <2> QED
    BY <2>1, <2>2 DEF ClientInv
<1>4. GoodUpper(upper)'
  BY DEF GoodUpper, InDir, IsDir, Top, Tree
<1> QED
  BY <1>2, <1>3, <1>4 DEF IInv

(* A file is written in place. *)
LEMMA SetFileGood ==
    ASSUME NEW u, GoodUpper(u), NEW p \in Path, InDir(u.tree, p), ~IsDir(u.tree, p),
           NEW e \in Entry, TypeOf[e] = "file",
           NEW v, v \in [tree : Tree, wh : SUBSET Path], v.wh = u.wh,
           \A r \in Path : v.tree[r] = IF r = p THEN e ELSE u.tree[r]
    PROVE  /\ GoodUpper(v) /\ v.tree[p] = e
           /\ \A r \in Path : IsFile(u.tree, r) => IsFile(v.tree, r)
<1>1. /\ v \in [tree : Tree, wh : SUBSET Path] /\ v.wh = u.wh
      /\ \A r \in Path : v.tree[r] = IF r = p THEN e ELSE u.tree[r]
  OBVIOUS
<1>2. e # Absent
  BY EntryFacts
<1>3. ASSUME NEW r \in Path, v.tree[r] # Absent \/ r \in v.wh, NEW a \in Ancestors[r]
      PROVE  IsDir(v.tree, a)
  <2>1. IsDir(u.tree, a)
    BY <1>1, <1>3 DEF GoodUpper, InDir
  <2>2. a \in Path /\ a # p
    BY <2>1, PathFacts
  <2> QED
    BY <1>1, <2>1, <2>2 DEF IsDir
<1>4. \A r \in Path : IsDir(v.tree, r) => r \in Top /\ r \notin v.wh
  BY <1>1 DEF IsDir, GoodUpper
<1>5. \A r \in Path : IsFile(u.tree, r) => IsFile(v.tree, r)
  BY <1>1, <1>2 DEF IsFile
<1> QED
  BY <1>1, <1>3, <1>4, <1>5 DEF GoodUpper, InDir

LEMMA OpenStartStep ==
    ASSUME IInv, NEW c \in Clients, NEW p \in Path, OpenStart(c, p)
    PROVE  IInv'
<1>1. /\ mnt = "live" /\ UNCHANGED <<rest, file, posix>> /\ open[c] = NoPath
      /\ Visible(upper, p) # Absent /\ TypeOf[Visible(upper, p)] = "file"
      /\ open' = [open EXCEPT ![c] = p]
  BY DEF OpenStart, Seen, SeenType
<1>2. /\ GoodUpper(upper) /\ Ready(upper, p) /\ posix \in Known
      /\ Visible(upper, p) = (IF upper.tree[p] # Absent THEN upper.tree[p] ELSE lower[p])
  BY <1>1, SeenFacts, LiveFacts
<1>3. /\ copying[c] = "no" /\ file[c] = NoPath
      /\ copying = [copying EXCEPT ![c] = "no"] /\ file = [file EXCEPT ![c] = NoPath]
  BY <1>1 DEF IInv, ClientInv, OpenInv
<1>4. CASE upper.tree[p] # Absent
  <2>1. upper' = upper /\ copying' = [copying EXCEPT ![c] = "no"]
        /\ file' = [file EXCEPT ![c] = NoPath] /\ posix' \in Known /\ GoodUpper(upper')
    BY <1>1, <1>2, <1>3, <1>4 DEF OpenStart
  <2>2. \A r \in Path : IsFile(upper.tree, r) => IsFile(upper'.tree, r)
    BY <2>1
  <2>3. UNCHANGED rest /\ p \in Path \cup {NoPath} /\ NoPath \in Path \cup {NoPath}
        /\ "no" \in {"no", "create", "fill", "unhide"}
    BY <1>1
  <2> QED
    BY <1>1, <2>1, <2>2, <2>3, ClientStep
<1>5. CASE upper.tree[p] = Absent
  <2>1. upper' = ensureParentDir(upper, p) /\ copying' = [copying EXCEPT ![c] = "create"]
    BY <1>5 DEF OpenStart
  <2>2. /\ GoodUpper(upper')
        /\ \A r \in Path : upper'.tree[r] = IF r \in Ancestors[p] /\ upper.tree[r] = Absent
                                            THEN DirEntry ELSE upper.tree[r]
    BY <1>2, <2>1, ParentMade
  <2>3. IsFile(lower, p) /\ \A r \in Path : IsFile(upper.tree, r) => IsFile(upper'.tree, r)
    BY <1>1, <1>2, <1>5, <2>2 DEF IsFile
  <2>4. /\ UNCHANGED rest /\ p \in Path \cup {NoPath} /\ NoPath \in Path \cup {NoPath}
        /\ "create" \in {"no", "create", "fill", "unhide"} /\ p # NoPath
        /\ file' = [file EXCEPT ![c] = NoPath] /\ posix' \in Known
    BY <1>1, <1>2, <1>3, EntryFacts
  <2> QED
    BY <1>1, <2>1, <2>2, <2>3, <2>4, ClientStep
<1> QED
  BY <1>4, <1>5

LEMMA OpenCreateStep ==
    ASSUME IInv, NEW c \in Clients, OpenCreate(c)
    PROVE  IInv'
<1>1. /\ copying[c] = "create" /\ mnt = "live" /\ UNCHANGED rest
      /\ open[c] \in Path /\ IsFile(lower, open[c]) /\ file[c] = NoPath
      /\ open = [open EXCEPT ![c] = open[c]] /\ file = [file EXCEPT ![c] = NoPath]
  BY DEF OpenCreate, IInv, ClientInv, OpenInv
<1>2. GoodUpper(upper) /\ posix \in Known
  BY <1>1, LiveFacts
<1>3. PICK p \in Path : p = open[c]
  BY <1>1
<1>4. CASE InDir(upper.tree, p) /\ (upper.tree[p] # Absent => TypeOf[upper.tree[p]] = "file")
  <2>1. /\ upper' = [upper EXCEPT !.tree[p] = NoData]
        /\ copying' = [copying EXCEPT ![c] = "fill"]
        /\ file' = [file EXCEPT ![c] = p]
        /\ UNCHANGED open
        /\ Amounts(posix, upper.tree[p] # Absent)
    BY <1>3, <1>4 DEF OpenCreate
  <2>2. posix' \in Known
    BY <1>2, <2>1, AmountsTyped
  <2>3. ~IsDir(upper.tree, p) /\ NoData \in Entry /\ TypeOf[NoData] = "file"
    BY <1>4, EntryFacts DEF IsDir
  <2>4. /\ GoodUpper(upper') /\ upper'.tree[p] = NoData
        /\ \A r \in Path : IsFile(upper.tree, r) => IsFile(upper'.tree, r)
    <3>1. /\ upper' \in [tree : Tree, wh : SUBSET Path] /\ upper'.wh = upper.wh
          /\ \A r \in Path : upper'.tree[r] = IF r = p THEN NoData ELSE upper.tree[r]
      BY <1>2, <2>1, <2>3 DEF GoodUpper, Tree
    <3> QED
      BY <1>2, <1>4, <2>3, <3>1, SetFileGood
  <2>5. IsFile(upper'.tree, p)
    BY <2>3, <2>4, EntryFacts DEF IsFile
  <2> QED
    <3>1. /\ p \in Path \cup {NoPath} /\ p # NoPath /\ open' = [open EXCEPT ![c] = p]
          /\ "fill" \in {"no", "create", "fill", "unhide"} /\ IsFile(lower, p)
      BY <1>1, <1>3, <2>1, EntryFacts
    <3> QED
      BY <1>1, <2>1, <2>2, <2>4, <2>5, <3>1, ClientStep
<1>5. CASE ~(InDir(upper.tree, p) /\ (upper.tree[p] # Absent => TypeOf[upper.tree[p]] = "file"))
  <2>1. /\ copying' = [copying EXCEPT ![c] = "no"]
        /\ open' = [open EXCEPT ![c] = NoPath]
        /\ UNCHANGED <<upper, file, posix>>
    BY <1>3, <1>5 DEF OpenCreate
  <2> QED
    BY <1>1, <1>2, <2>1, ClientStep
<1> QED
  BY <1>4, <1>5

LEMMA OpenFillStep ==
    ASSUME IInv, NEW c \in Clients, OpenFill(c)
    PROVE  IInv'
<1>1. /\ copying[c] = "fill" /\ mnt = "live" /\ UNCHANGED <<rest, open, posix>>
      /\ open[c] \in Path /\ IsFile(lower, open[c])
      /\ open = [open EXCEPT ![c] = open[c]]
      /\ copying' = [copying EXCEPT ![c] = "unhide"]
      /\ file' = [file EXCEPT ![c] = NoPath]
      /\ file[c] \in Path \cup {NoPath} /\ (file[c] # NoPath => IsFile(upper.tree, file[c]))
  BY DEF OpenFill, IInv, ClientInv, OpenInv
<1>2. GoodUpper(upper) /\ posix \in Known /\ lower \in Tree
  BY <1>1, LiveFacts
<1>3. /\ GoodUpper(upper')
      /\ \A r \in Path : IsFile(upper.tree, r) => IsFile(upper'.tree, r)
  <2>1. CASE file[c] = NoPath
    BY <1>2, <2>1 DEF OpenFill
  <2>2. CASE file[c] # NoPath
    <3>1. upper' = [upper EXCEPT !.tree[file[c]] = lower[open[c]]]
      BY <2>2 DEF OpenFill
    <3>2. /\ lower[open[c]] \in Entry /\ TypeOf[lower[open[c]]] = "file"
          /\ file[c] \in Path /\ InDir(upper.tree, file[c]) /\ ~IsDir(upper.tree, file[c])
      BY <1>1, <1>2, <2>2 DEF IsFile, Tree, GoodUpper, IsDir
    <3>3. PICK q \in Path, e \in Entry : q = file[c] /\ e = lower[open[c]]
      BY <3>2
    <3>4. /\ upper' \in [tree : Tree, wh : SUBSET Path] /\ upper'.wh = upper.wh
          /\ \A r \in Path : upper'.tree[r] = IF r = q THEN e ELSE upper.tree[r]
      BY <1>2, <3>1, <3>3 DEF GoodUpper, Tree
    <3> QED
      BY <1>2, <3>2, <3>3, <3>4, SetFileGood
  <2> QED
    BY <2>1, <2>2
<1> QED
  BY <1>1, <1>2, <1>3, ClientStep, EntryFacts

LEMMA OpenDoneStep ==
    ASSUME IInv, NEW c \in Clients, OpenDone(c)
    PROVE  IInv'
<1>1. /\ copying[c] = "unhide" /\ mnt = "live" /\ UNCHANGED <<rest, open, file, posix>>
      /\ open[c] \in Path /\ file[c] = NoPath
      /\ open = [open EXCEPT ![c] = open[c]] /\ file = [file EXCEPT ![c] = NoPath]
      /\ copying' = [copying EXCEPT ![c] = "no"]
      /\ upper' = [upper EXCEPT !.wh = @ \ {open[c]}]
  BY DEF OpenDone, IInv, ClientInv, OpenInv
<1>2. GoodUpper(upper) /\ posix \in Known
  BY <1>1, LiveFacts
<1>3. GoodUpper(upper') /\ upper'.tree = upper.tree
  BY <1>1, <1>2 DEF GoodUpper
<1>4. \A r \in Path : IsFile(upper.tree, r) => IsFile(upper'.tree, r)
  BY <1>3
<1> QED
  BY <1>1, <1>2, <1>3, <1>4, ClientStep

LEMMA WriteStep ==
    ASSUME IInv, NEW c \in Clients, NEW e \in Written, Write(c, e)
    PROVE  IInv'
<1>1. /\ copying[c] = "no" /\ mnt = "live" /\ UNCHANGED <<rest, open, copying, file>>
      /\ open[c] \in Path /\ file[c] = NoPath
      /\ open = [open EXCEPT ![c] = open[c]] /\ file = [file EXCEPT ![c] = NoPath]
      /\ copying = [copying EXCEPT ![c] = "no"]
  BY DEF Write, IInv, ClientInv, OpenInv
<1>2. GoodUpper(upper) /\ GoodTree(lower) /\ posix \in Known
  BY <1>1, LiveFacts
<1>3. PICK p \in Path : p = open[c]
  BY <1>1
<1>4. /\ CanCopyUp(upper, p) /\ TypeOf[copyUp(upper, p).tree[p]] = "file"
      /\ upper' = [copyUp(upper, p) EXCEPT !.tree[p] = e]
      /\ Amounts([posix EXCEPT ![p] = e], HalfCopied(p))
  BY <1>3 DEF Write
<1>5. /\ upper.tree[p] # Absent \/ lower[p] # Absent
      /\ Ready(upper, p)
  <2>1. CASE upper.tree[p] # Absent
    BY <1>2, <2>1, PathFacts DEF GoodUpper, InDir, Ready
  <2>2. CASE upper.tree[p] = Absent
    BY <1>4, <2>2, VisibleReady DEF CanCopyUp
  <2> QED
    BY <2>1, <2>2
<1>6. PICK v : v = copyUp(upper, p)
  OBVIOUS
<1>7. /\ GoodUpper(v) /\ InDir(v.tree, p)
      /\ \A r \in Path : upper.tree[r] # Absent => v.tree[r] = upper.tree[r]
  BY <1>2, <1>5, <1>6, CopyUpGood
<1>8. ~IsDir(v.tree, p) /\ e \in Entry /\ TypeOf[e] = "file"
  BY <1>4, <1>6, EntryFacts DEF IsDir
<1>9. /\ GoodUpper(upper')
      /\ \A r \in Path : IsFile(v.tree, r) => IsFile(upper'.tree, r)
  <2>1. /\ upper' \in [tree : Tree, wh : SUBSET Path] /\ upper'.wh = v.wh
        /\ \A r \in Path : upper'.tree[r] = IF r = p THEN e ELSE v.tree[r]
    BY <1>4, <1>6, <1>7, <1>8 DEF GoodUpper, Tree
  <2> QED
    BY <1>7, <1>8, <2>1, SetFileGood
<1>10. \A r \in Path : IsFile(upper.tree, r) => IsFile(upper'.tree, r)
  BY <1>7, <1>9 DEF IsFile
<1>11. posix' \in Known
  <2>1. posix \in Tree => [posix EXCEPT ![p] = e] \in Tree
    BY <1>8 DEF Tree
  <2> QED
    BY <1>2, <1>4, <2>1, AmountsTyped
<1> QED
  BY <1>1, <1>9, <1>10, <1>11, ClientStep

LEMMA CloseStep ==
    ASSUME IInv, NEW c \in Clients, Close(c)
    PROVE  IInv'
<1>1. /\ copying[c] = "no" /\ mnt = "live" /\ UNCHANGED <<rest, upper, copying, file, posix>>
      /\ file[c] = NoPath /\ file = [file EXCEPT ![c] = NoPath]
      /\ copying = [copying EXCEPT ![c] = "no"]
      /\ open' = [open EXCEPT ![c] = NoPath]
  BY DEF Close, IInv, ClientInv, OpenInv
<1> QED
  BY <1>1, LiveFacts, ClientStep

-----------------------------------------------------------------------------
(* Nobody has a file open. *)
LEMMA NobodyStep ==
    ASSUME IInv, GoodUpper(upper'), MountInv',
           open' = [c \in Clients |-> NoPath], copying' = [c \in Clients |-> "no"],
           file' = [c \in Clients |-> NoPath]
    PROVE  IInv'
<1>1. ClientInv'
  BY DEF ClientInv, OpenInv
<1>2. GoodUpper(upper)'
  BY DEF GoodUpper, InDir, IsDir, Top, Tree
<1> QED
  BY <1>1, <1>2 DEF IInv

LEMMA ClosedFacts ==
    ASSUME IInv, mnt # "live" \/ \A c \in Clients : open[c] = NoPath
    PROVE  /\ open = [c \in Clients |-> NoPath] /\ copying = [c \in Clients |-> "no"]
           /\ file = [c \in Clients |-> NoPath]
BY DEF IInv, ClientInv, OpenInv

LEMMA MountStep ==
    ASSUME IInv, NEW t, Mount(t) \/ MountUnrecorded(t)
    PROVE  IInv'
<1>1. /\ mnt = "none" /\ mnt' = "live" /\ lower' = t
      /\ t \in (IF source = NoTree THEN Sources ELSE {source, last} \ {NoTree})
      /\ UNCHANGED <<upper, open, copying, file, last, snapshots, requests>>
  BY DEF Mount, MountUnrecorded, MountSource
<1>2. GoodTree(t) /\ t \in Tree
  BY <1>1, LazyFuseConstants DEF LazyFuseConstants, GoodTree, FileSystem, IInv, MountInv
<1>3. source' # NoTree /\ GoodTree(source') /\ posix' \in Known
  <2>1. CASE source = NoTree
    BY <1>2, <2>1, EntryFacts DEF Mount, MountUnrecorded, Known
  <2>2. CASE source # NoTree
    <3>1. posix \in Known /\ GoodTree(source)
      BY <2>2 DEF IInv, MountInv
    <3>2. posix' \in Known
      BY <2>2, <3>1, AmountsTyped DEF Mount, MountUnrecorded
    <3> QED
      BY <1>2, <2>2, <3>1, <3>2, EntryFacts DEF Mount, MountUnrecorded
  <2> QED
    BY <2>1, <2>2
<1>4. MountInv'
  BY <1>1, <1>2, <1>3 DEF IInv, MountInv, GoodTree
<1> QED
  BY <1>1, <1>4, NobodyStep, ClosedFacts DEF IInv

LEMMA UnmountStep ==
    ASSUME IInv, Unmount
    PROVE  IInv'
<1>1. MountInv'
  BY DEF Unmount, IInv, MountInv, GoodTree
<1> QED
  BY <1>1, NobodyStep, ClosedFacts DEF Unmount, IInv

LEMMA KilledStep ==
    ASSUME IInv, NEW halfway, Killed(halfway), GoodUpper(upper'),
           UNCHANGED requests \/ Counted
    PROVE  IInv'
<1>1. posix' \in Known
  BY LiveFacts, AmountsTyped DEF Killed
<1>2. requests' \in 0..MaxRequests
  BY LazyFuseConstants DEF LazyFuseConstants, Counted, IInv, MountInv
<1>3. MountInv'
  BY <1>1, <1>2, LiveFacts DEF Killed, IInv, MountInv, GoodTree
<1> QED
  BY <1>3, NobodyStep DEF Killed

LEMMA SnapshotStep ==
    ASSUME IInv, Snapshot
    PROVE  IInv'
<1>1. GoodTree(last')
  BY RecordedGood DEF Snapshot, IInv, MountInv
<1>2. snapshots' \in 0..MaxSnapshots
  BY LazyFuseConstants DEF LazyFuseConstants, Snapshot, IInv, MountInv
<1>3. MountInv'
  BY <1>1, <1>2 DEF Snapshot, IInv, MountInv, GoodTree
<1>4. ClientInv' /\ GoodUpper(upper')
  BY DEF Snapshot, IInv, ClientInv, OpenInv, IsFile
<1>5. GoodUpper(upper)'
  BY <1>4 DEF GoodUpper, InDir, IsDir, Top, Tree
<1> QED
  BY <1>3, <1>4, <1>5 DEF IInv

LEMMA FuseNext == IInv /\ [Next]_vars => IInv'
<1> SUFFICES ASSUME IInv, [Next]_vars PROVE IInv'
  OBVIOUS
<1>1. CASE Request
  BY <1>1, MakeStep, SetattrStep, UnlinkStep, RenameStep, RenameFailsStep, OpenStartStep,
     OpenCreateStep, OpenFillStep, OpenDoneStep, WriteStep, CloseStep DEF Request
<1>2. CASE Command
  BY <1>2, MountStep, UnmountStep, SnapshotStep DEF Command
<1>3. CASE ServerDies
  BY <1>3, KilledStep DEF ServerDies, IInv
<1>4. ASSUME NEW p \in Path, NEW q \in Path, RenameStops(p, q)
      PROVE  IInv'
  <2>1. CanRename(p, q) /\ Killed(TRUE) /\ Counted
    BY <1>4 DEF RenameStops
  <2>2. GoodUpper(upper')
    BY <1>4, <2>1, CanRenameFacts, RenameGood DEF RenameStops
  <2> QED
    BY <2>1, <2>2, KilledStep
<1>5. CASE UNCHANGED vars
  BY <1>5 DEF vars, IInv, MountInv, ClientInv, OpenInv, IsFile, GoodUpper, GoodTree, InDir,
              IsDir
<1> QED
  BY <1>1, <1>2, <1>3, <1>4, <1>5 DEF Next

LEMMA FuseAlways == Spec => []IInv
BY FuseInit, FuseNext, PTL DEF Spec

(* Whatever clients ask, and wherever the server dies, the upper directory *)
(* is well formed: what is in it, .wh. files included, is in directories   *)
(* of it.                                                                  *)
THEOREM UpperWellFormed == Spec => []TypeOK
<1>1. IInv => TypeOK
  BY DEF IInv, MountInv, ClientInv, GoodUpper, GoodTree, FileSystem, TypeOK, Known
<1> QED
  BY <1>1, FuseAlways, PTL

(* Snapshot records exactly what the mount shows, for every sequence of    *)
(* requests of any number of clients, in the middle of a copy-up and on an *)
(* upper directory that a killed rename has left.                          *)
THEOREM SnapshotMatchesMount == Spec => []SnapshotSeesMount
<1>1. IInv => SnapshotSeesMount
  BY LiveFacts, RecordedVisible DEF IInv, SnapshotSeesMount
<1> QED
  BY <1>1, FuseAlways, PTL

(* The dirty index that rebuildDirtyIndex writes is empty exactly when a   *)
(* snapshot would record its parent's tree again.                          *)
THEOREM DirtyIndexIsExact == Spec => []DirtyIndexExact
<1>1. IInv => DirtyIndexExact
  BY RecordedDirty DEF IInv, MountInv, DirtyIndexExact
<1> QED
  BY <1>1, FuseAlways, PTL

-----------------------------------------------------------------------------
(***************************************************************************)
(* What the requests show.  While the server has got no request wrong, no  *)
(* entry of the upper directory is under a .wh. file, and each operation   *)
(* changes what is visible as its request would in any file system.        *)
(***************************************************************************)
Clean(u) == \A p \in u.wh : u.tree[p] = Absent

(* The directories of a path are visible. *)
Reached(u, p) == InDir(VisibleTree(u), p)

LEMMA ReachedFound ==
    ASSUME NEW u, GoodUpper(u), GoodTree(lower), NEW p \in Path,
           Reached(u, p) \/ Visible(u, p) # Absent
    PROVE  /\ Reached(u, p) /\ Visible(u, p) = Found(u, p)
           /\ \A a \in Ancestors[p] :
                 /\ a \in Path /\ Found(u, a) = DirEntry /\ a \notin u.wh
                 /\ Visible(u, a) = DirEntry
<1>1. \A a \in Ancestors[p] : Found(u, a) # Absent /\ TypeOf[Found(u, a)] = "dir"
  <2>1. CASE Visible(u, p) # Absent
    BY <2>1 DEF Visible
  <2>2. CASE Reached(u, p)
    BY <2>2, PathFacts DEF Reached, InDir, IsDir, VisibleTree, Visible
  <2> QED
    BY <2>1, <2>2
<1>2. ASSUME NEW a \in Ancestors[p]
      PROVE  /\ a \in Path /\ Found(u, a) = DirEntry /\ a \notin u.wh
             /\ Visible(u, a) = DirEntry
  <2>1. a \in Path /\ Ancestors[a] = {}
    BY PathFacts
  <2>2. Found(u, a) \in Entry /\ a \notin u.wh
    BY <1>1, <2>1 DEF Found, GoodUpper, GoodTree, FileSystem, Tree
  <2>3. Found(u, a) = DirEntry
    BY <1>1, <2>2, EntryFacts
  <2> QED
    BY <2>1, <2>2, <2>3 DEF Visible
<1>3. Visible(u, p) = Found(u, p)
  BY <1>1 DEF Visible
<1>4. Reached(u, p)
  BY <1>2, EntryFacts DEF Reached, InDir, IsDir, VisibleTree
<1> QED
  BY <1>2, <1>3, <1>4

(* What a path shows depends on itself and on its directory. *)
LEMMA VisibleSame ==
    ASSUME NEW u, NEW v, NEW r \in Path,
           Found(v, r) = Found(u, r), \A a \in Ancestors[r] : Found(v, a) = Found(u, a)
    PROVE  Visible(v, r) = Visible(u, r)
BY DEF Visible

(* A directory that appears in the upper was visible. *)
LEMMA FoundSame ==
    ASSUME NEW u, NEW v, NEW r \in Path, r \in v.wh <=> r \in u.wh,
           v.tree[r] = u.tree[r] \/ (v.tree[r] = DirEntry /\ Found(u, r) = DirEntry)
    PROVE  Found(v, r) = Found(u, r)
BY EntryFacts DEF Found

LEMMA ParentShows ==
    ASSUME NEW u, GoodUpper(u), GoodTree(lower), NEW p \in Path, Reached(u, p),
           NEW v, v = ensureParentDir(u, p)
    PROVE  /\ \A r \in Path : Found(v, r) = Found(u, r) /\ Visible(v, r) = Visible(u, r)
           /\ Clean(u) => Clean(v)
<1>1. /\ v.wh = u.wh
      /\ \A r \in Path : v.tree[r] = IF r \in Ancestors[p] /\ u.tree[r] = Absent
                                     THEN DirEntry ELSE u.tree[r]
  BY ParentMade, VisibleReady DEF Reached
<1>2. \A a \in Ancestors[p] : a \in Path /\ Found(u, a) = DirEntry /\ a \notin u.wh
  BY ReachedFound
<1>3. \A r \in Path : Found(v, r) = Found(u, r)
  BY <1>1, <1>2, FoundSame
<1>4. \A r \in Path : Visible(v, r) = Visible(u, r)
  <2>1. \A r \in Path : \A a \in Ancestors[r] : a \in Path
    BY PathFacts
  <2> QED
    BY <1>3, <2>1, VisibleSame
<1>5. Clean(u) => Clean(v)
  BY <1>1, <1>2 DEF Clean, GoodUpper
<1> QED
  BY <1>3, <1>4, <1>5

(* Put shows the entry, and nothing below it but in a directory that was   *)
(* there.                                                                  *)
LEMMA PutShows ==
    ASSUME NEW u, GoodUpper(u), GoodTree(lower), NEW p \in Path, Reached(u, p),
           NEW e \in Entry,
           TypeOf[e] = "dir" => p \in Top /\ (Found(u, p) # e => ~HasBelow(lower, p)),
           TypeOf[e] # "dir" => ~IsDir(u.tree, p),
           NEW v, v = Put(u, p, e)
    PROVE  /\ Visible(v, p) = e
           /\ \A r \in Path : ~Within(r, p) => Visible(v, r) = Visible(u, r)
           /\ \A r \in Path : p \in Ancestors[r] =>
                 Visible(v, r) = IF Found(u, p) = e THEN Visible(u, r) ELSE Absent
           /\ Clean(u) => Clean(v)
<1>1. /\ v.wh = u.wh \ {p} /\ GoodUpper(v)
      /\ \A r \in Path : v.tree[r] = IF r = p THEN e
                                     ELSE IF r \in Ancestors[p] /\ u.tree[r] = Absent
                                     THEN DirEntry ELSE u.tree[r]
  BY PutGood, VisibleReady DEF Reached
<1>2. \A a \in Ancestors[p] : a \in Path /\ Found(u, a) = DirEntry /\ a \notin u.wh /\ a # p
  BY ReachedFound, PathFacts
<1>3. \A r \in Path : r # p => Found(v, r) = Found(u, r)
  BY <1>1, <1>2, FoundSame
<1>4. Found(v, p) = e /\ e # Absent
  BY <1>1, EntryFacts DEF Found
<1>5. Visible(v, p) = e
  <2>1. \A a \in Ancestors[p] : Found(v, a) = DirEntry
    BY <1>2, <1>3
  <2> QED
    BY <1>4, <2>1, EntryFacts DEF Visible
<1>6. \A r \in Path : ~Within(r, p) => Visible(v, r) = Visible(u, r)
  BY <1>3, VisibleSame, PathFacts DEF Within
<1>7. ASSUME NEW r \in Path, p \in Ancestors[r]
      PROVE  Visible(v, r) = IF Found(u, p) = e THEN Visible(u, r) ELSE Absent
  <2>0. Ancestors[r] = {p} /\ r # p
    BY <1>7, PathFacts
  <2>1. CASE TypeOf[e] # "dir"
    BY <1>4, <2>0, <2>1 DEF Visible
  <2>2. CASE TypeOf[e] = "dir" /\ Found(u, p) = e
    BY <1>3, <1>4, <2>0, <2>2, VisibleSame
  <2>3. CASE TypeOf[e] = "dir" /\ Found(u, p) # e
    <3>1. ~IsDir(u.tree, p)
      <4>1. IsDir(u.tree, p) => u.tree[p] = e /\ p \notin u.wh
        BY <2>3, EntryFacts DEF IsDir, GoodUpper, Tree
      <4> QED
        BY <2>3, <4>1, EntryFacts DEF Found
    <3>2. u.tree[r] = Absent /\ r \notin u.wh /\ lower[r] = Absent
      BY <1>7, <2>3, <3>1, NothingBelow DEF HasBelow
    <3>3. Found(v, r) = Absent
      BY <1>3, <2>0, <3>2 DEF Found
    <3> QED
      BY <2>3, <3>3 DEF Visible
  <2> QED
    BY <2>1, <2>2, <2>3
<1>8. Clean(u) => Clean(v)
  BY <1>1, <1>2 DEF Clean, GoodUpper
<1> QED
  BY <1>5, <1>6, <1>7, <1>8

(* Copying up shows nothing new. *)
LEMMA CopyUpShows ==
    ASSUME NEW u, GoodUpper(u), GoodTree(lower), NEW p \in Path, Visible(u, p) # Absent,
           NEW v, v = copyUp(u, p)
    PROVE  /\ \A r \in Path : Visible(v, r) = Visible(u, r)
           /\ Clean(u) => Clean(v)
<1>1. CASE u.tree[p] # Absent
  BY <1>1 DEF copyUp
<1>2. CASE u.tree[p] = Absent
  <2>1. v = Put(u, p, lower[p]) /\ Found(u, p) = lower[p] /\ Visible(u, p) = lower[p]
    BY <1>2, SeenFacts, ReachedFound DEF copyUp
  <2>2. lower[p] \in Entry /\ (TypeOf[lower[p]] = "dir" => p \in Top)
    BY <2>1 DEF GoodTree, FileSystem, Tree, IsDir
  <2>3. ~IsDir(u.tree, p) /\ Reached(u, p)
    BY <1>2, ReachedFound DEF IsDir
  <2>4. /\ Visible(v, p) = lower[p]
        /\ \A r \in Path : ~Within(r, p) => Visible(v, r) = Visible(u, r)
        /\ \A r \in Path : p \in Ancestors[r] => Visible(v, r) = Visible(u, r)
        /\ Clean(u) => Clean(v)
    BY <2>1, <2>2, <2>3, PutShows
  <2> QED
    BY <2>1, <2>4 DEF Within
<1> QED
  BY <1>1, <1>2

(* Removing takes away what is below, and shows nothing that lower has. *)
LEMMA UnlinkShows ==
    ASSUME NEW u, GoodUpper(u), GoodTree(lower), NEW p \in Path, Visible(u, p) # Absent,
           NEW v, v = unlink(u, p)
    PROVE  /\ \A r \in Path : Visible(v, r) = IF Within(r, p) THEN Absent ELSE Visible(u, r)
           /\ Clean(u) => Clean(v)
<1>1. /\ GoodUpper(v)
      /\ \A r \in Path : Within(r, p) => v.tree[r] = Absent
      /\ \A r \in Path : ~Within(r, p) =>
            /\ v.tree[r] = u.tree[r] \/ (r \in Ancestors[p] /\ v.tree[r] = DirEntry)
            /\ u.tree[r] # Absent => v.tree[r] = u.tree[r]
      /\ \A r \in Path : ~Within(r, p) => (r \in v.wh <=> r \in u.wh)
      /\ lower[p] # Absent => p \in v.wh
  BY UnlinkGood, VisibleReady
<1>2. \A a \in Ancestors[p] : a \in Path /\ Found(u, a) = DirEntry /\ a \notin u.wh
  BY ReachedFound
<1>3. \A r \in Path : ~Within(r, p) => Found(v, r) = Found(u, r)
  BY <1>1, <1>2, FoundSame
<1>4. Found(v, p) = Absent
  BY <1>1 DEF Found, Within
<1>5. \A r \in Path : Within(r, p) => Visible(v, r) = Absent
  BY <1>4 DEF Within, Visible
<1>6. \A r \in Path : ~Within(r, p) => \A a \in Ancestors[r] : a \in Path /\ ~Within(a, p)
  BY PathFacts DEF Within
<1>7. \A r \in Path : ~Within(r, p) => Visible(v, r) = Visible(u, r)
  BY <1>3, <1>6, VisibleSame
<1>8. Clean(u) => Clean(v)
  <2> SUFFICES ASSUME Clean(u), NEW r \in v.wh PROVE v.tree[r] = Absent
    BY DEF Clean
  <2>1. r \in Path
    BY <1>1 DEF GoodUpper
  <2> QED
    BY <1>1, <1>2, <2>1 DEF Clean
<1> QED
  BY <1>5, <1>7, <1>8

(* The upper directory between the two halves of a rename: p is copied up, *)
(* and the upper has nothing at q.                                         *)
LEMMA MadeWay ==
    ASSUME NEW u, GoodUpper(u), GoodTree(lower), Clean(u), NEW p \in Path, NEW q \in Path,
           RenameOK(u, p, q), NEW m, m = MakeWay(u, p, q)
    PROVE  /\ GoodUpper(m) /\ InDir(m.tree, q) /\ q \notin m.wh /\ ~IsDir(m.tree, q)
           /\ m.tree[p] = Visible(u, p) /\ m.tree[p] # Absent /\ p \notin m.wh
           /\ \A r \in Path : Within(r, q) => m.tree[r] = Absent /\ r \notin m.wh
           /\ \A r \in Path : ~Within(r, q) => Found(m, r) = Found(u, r)
           /\ \A r \in Path : ~Within(r, q) =>
                 \/ m.tree[r] = u.tree[r] \/ r = p
                 \/ r \in Ancestors[p] \cup Ancestors[q] /\ m.tree[r] = DirEntry
           /\ \A r \in Path : ~Within(r, q) => (r \in m.wh <=> r \in u.wh)
           /\ Clean(m)
<1>1. /\ GoodUpper(m) /\ InDir(m.tree, q) /\ q \notin m.wh /\ ~IsDir(m.tree, q)
      /\ m.tree[p] = Visible(u, p) /\ m.tree[p] # Absent /\ p \notin m.wh
      /\ m.tree[q] # Absent => q \in u.wh /\ m.tree[q] = u.tree[q]
      /\ \A r \in Path : ~Within(r, q) =>
            \/ m.tree[r] = u.tree[r] \/ r = p
            \/ r \in Ancestors[p] \cup Ancestors[q] /\ m.tree[r] = DirEntry
      /\ \A r \in Path : ~Within(r, q) => (r \in m.wh <=> r \in u.wh)
  BY MakeWayGood
<1>2. /\ \A a \in Ancestors[p] : a \in Path /\ Found(u, a) = DirEntry /\ a \notin u.wh
      /\ \A a \in Ancestors[q] : a \in Path /\ Found(u, a) = DirEntry /\ a \notin u.wh
      /\ Visible(u, p) = Found(u, p)
  BY ReachedFound DEF RenameOK, Reached
<1>3. \A r \in Path : Within(r, q) => m.tree[r] = Absent /\ r \notin m.wh
  BY <1>1, NothingBelow DEF Clean, Within
<1>4. \A r \in Path : ~Within(r, q) => Found(m, r) = Found(u, r)
  <2> SUFFICES ASSUME NEW r \in Path, ~Within(r, q) PROVE Found(m, r) = Found(u, r)
    OBVIOUS
  <2>1. CASE r = p
    BY <1>1, <1>2, <2>1 DEF Found
  <2>2. CASE r # p
    BY <1>1, <1>2, <2>2, FoundSame
  <2> QED
    BY <2>1, <2>2
<1>5. Clean(m)
  <2> SUFFICES ASSUME NEW r \in m.wh PROVE m.tree[r] = Absent
    BY DEF Clean
  <2>1. r \in Path /\ ~Within(r, q) /\ r \in u.wh /\ r # p
    BY <1>1, <1>3 DEF GoodUpper
  <2> QED
    BY <1>1, <1>2, <2>1 DEF Clean
<1> QED
  BY <1>1, <1>3, <1>4, <1>5

(* A rename moves what is visible, when lower has nothing in a directory   *)
(* that moves, nor in one that it replaces.                                *)
LEMMA RenameShows ==
    ASSUME NEW u, GoodUpper(u), GoodTree(lower), Clean(u), NEW p \in Path, NEW q \in Path,
           RenameOK(u, p, q),
           TypeOf[Visible(u, p)] = "dir" => ~HasBelow(lower, p) /\ ~HasBelow(lower, q),
           NEW v, v = Renamed(u, p, q)
    PROVE  /\ \A r \in Path : Visible(v, r) = Move(VisibleTree(u), p, q)[r]
           /\ \A r \in Path : ~Within(r, p) /\ ~Within(r, q) =>
                 /\ r \in v.wh <=> r \in u.wh
                 /\ \/ v.tree[r] = u.tree[r]
                    \/ r \in Ancestors[p] \cup Ancestors[q] /\ v.tree[r] = DirEntry
           /\ Clean(v)
<1>1. PICK m : m = MakeWay(u, p, q)
  OBVIOUS
<1>2. /\ GoodUpper(m) /\ InDir(m.tree, q) /\ q \notin m.wh /\ ~IsDir(m.tree, q)
      /\ m.tree[p] = Visible(u, p) /\ m.tree[p] # Absent /\ p \notin m.wh
      /\ \A r \in Path : Within(r, q) => m.tree[r] = Absent /\ r \notin m.wh
      /\ \A r \in Path : ~Within(r, q) => Found(m, r) = Found(u, r)
      /\ \A r \in Path : ~Within(r, q) =>
            \/ m.tree[r] = u.tree[r] \/ r = p
            \/ r \in Ancestors[p] \cup Ancestors[q] /\ m.tree[r] = DirEntry
      /\ \A r \in Path : ~Within(r, q) => (r \in m.wh <=> r \in u.wh)
      /\ Clean(m)
  BY <1>1, MadeWay
<1>3. PICK n : n = MoveUpper(m, p, q)
  OBVIOUS
<1>4. /\ ~Within(p, q) /\ ~Within(q, p)
      /\ IsDir(m.tree, p) => q \in Top
  BY <1>2 DEF RenameOK, IsDir
<1>5. /\ GoodUpper(n)
      /\ \A r \in Path : Within(r, p) => n.tree[r] = Absent
      /\ \A r \in Path : ~Within(r, p) /\ ~Within(r, q) => n.tree[r] = m.tree[r]
      /\ \A r \in Path : Within(r, q) =>
            n.tree[r] = IF From(p, q, r) = NoPath THEN Absent ELSE m.tree[From(p, q, r)]
      /\ \A r \in Path : ~Within(r, q) /\ p \notin Ancestors[r] => (r \in n.wh <=> r \in m.wh)
      /\ \A r \in Path : p \in Ancestors[r] => r \notin n.wh
      /\ \A r \in Path : q \in Ancestors[r] => (r \in n.wh <=> From(p, q, r) \in m.wh)
      /\ q \notin n.wh
  BY <1>2, <1>3, <1>4, MoveGood
<1>6. InDir(m.tree, p) /\ \A a \in Ancestors[p] : a \in Path /\ ~Within(a, p) /\ ~Within(a, q)
  BY <1>2, <1>4, PathFacts DEF GoodUpper, Within
<1>7. InDir(n.tree, p) /\ ~IsDir(n.tree, p)
  BY <1>5, <1>6 DEF InDir, IsDir, Within
<1>8. v = IF lower[p] # Absent THEN createWhiteout(n, p) ELSE n
  BY <1>1, <1>3 DEF Renamed, HideSource
<1>9. /\ \A r \in Path : v.tree[r] = n.tree[r]
      /\ \A r \in Path : r # p => (r \in v.wh <=> r \in n.wh)
      /\ v.wh \subseteq Path
      /\ lower[p] # Absent => p \in v.wh
  <2>1. CASE lower[p] = Absent
    BY <1>5, <1>8, <2>1 DEF GoodUpper
  <2>2. CASE lower[p] # Absent
    <3>1. Ready(n, p)
      BY <1>5, <1>7, PathFacts DEF Ready, InDir, GoodUpper
    <3>2. /\ v.wh = n.wh \cup {p}
          /\ \A r \in Path : v.tree[r] = IF r \in Ancestors[p] /\ n.tree[r] = Absent
                                         THEN DirEntry ELSE n.tree[r]
      BY <1>5, <1>7, <1>8, <2>2, <3>1, WhiteoutGood
    <3> QED
      BY <1>5, <1>7, <3>2 DEF InDir, IsDir, GoodUpper
  <2> QED
    BY <2>1, <2>2
<1>10. ASSUME NEW r \in Path, ~Within(r, p), ~Within(r, q)
       PROVE  /\ Found(v, r) = Found(u, r)
              /\ r \in v.wh <=> r \in u.wh
              /\ \/ v.tree[r] = u.tree[r]
                 \/ r \in Ancestors[p] \cup Ancestors[q] /\ v.tree[r] = DirEntry
  <2>1. r # p /\ p \notin Ancestors[r]
    BY <1>10 DEF Within
  <2>2. v.tree[r] = m.tree[r] /\ (r \in v.wh <=> r \in m.wh)
    BY <1>5, <1>9, <1>10, <2>1
  <2>3. Found(v, r) = Found(m, r)
    BY <2>2 DEF Found
  <2> QED
    BY <1>2, <1>10, <2>1, <2>2, <2>3
<1>11. Found(v, p) = Absent
  BY <1>5, <1>9 DEF Found, Within
<1>12. Found(v, q) = Visible(u, p) /\ v.tree[q] # Absent
  <2>1. v.tree[q] = m.tree[p] /\ q # p
    BY <1>4, <1>5, <1>9, FromFacts, EntryFacts DEF Within
  <2> QED
    BY <1>2, <1>5, <1>9, <2>1 DEF Found
<1>13. ASSUME NEW r \in Path
       PROVE  Visible(v, r) = Move(VisibleTree(u), p, q)[r]
  <2>1. CASE Within(r, p)
    <3>1. Visible(v, r) = Absent
      BY <1>11, <2>1 DEF Within, Visible
    <3> QED
      BY <2>1, <3>1 DEF Move
  <2>2. CASE ~Within(r, p) /\ ~Within(r, q)
    <3>1. \A a \in Ancestors[r] : a \in Path /\ ~Within(a, p) /\ ~Within(a, q)
      BY <2>2, PathFacts DEF Within
    <3>2. Visible(v, r) = Visible(u, r)
      BY <1>10, <2>2, <3>1, VisibleSame
    <3> QED
      BY <2>2, <3>2 DEF Move, VisibleTree
  <2>3. CASE r = q
    <3>1. Reached(u, q)
      BY ReachedFound DEF RenameOK, Reached
    <3>2. \A a \in Ancestors[q] : /\ a \in Path /\ Found(u, a) = DirEntry
                                  /\ ~Within(a, p) /\ ~Within(a, q)
      BY <1>4, <3>1, ReachedFound, PathFacts DEF Within
    <3>3. Visible(v, q) = Visible(u, p)
      BY <1>10, <1>12, <3>2, EntryFacts DEF Visible
    <3>4. Move(VisibleTree(u), p, q)[q] = Visible(u, p)
      BY <1>4, FromFacts, EntryFacts DEF Move, VisibleTree, Within
    <3> QED
      BY <2>3, <3>3, <3>4
  <2>4. CASE q \in Ancestors[r]
    <3>0. Ancestors[r] = {q} /\ r # q /\ Within(r, q) /\ ~Within(r, p) /\ r # p
      BY <1>4, <2>4, PathFacts DEF Within
    <3>1. PICK s : s = From(p, q, r)
      OBVIOUS
    <3>2. s \in Path \cup {NoPath} /\ (s # NoPath => s \in Path /\ p \in Ancestors[s])
      BY <3>0, <3>1, FromFacts
    <3>3. Move(VisibleTree(u), p, q)[r] = IF s = NoPath THEN Absent ELSE Visible(u, s)
      BY <3>0, <3>1, <3>2 DEF Move, VisibleTree
    <3>4. Visible(v, r) = IF TypeOf[Visible(u, p)] = "dir" THEN Found(v, r) ELSE Absent
      BY <1>2, <1>12, <3>0 DEF Visible
    <3>5. ASSUME s # NoPath
          PROVE  /\ Ancestors[s] = {p} /\ ~Within(s, q)
                 /\ Visible(u, s) = IF TypeOf[Visible(u, p)] = "dir" THEN Found(u, s) ELSE Absent
      <4>1. s \in Path /\ Ancestors[s] = {p}
        BY <3>2, <3>5, PathFacts
      <4>2. ~Within(s, q)
        BY <1>4, <4>1, PathFacts DEF Within
      <4>3. Visible(u, p) = Found(u, p) /\ Visible(u, p) # Absent
        BY ReachedFound DEF RenameOK
      <4> QED
        BY <4>1, <4>2, <4>3 DEF Visible
    <3>6. CASE TypeOf[Visible(u, p)] # "dir"
      BY <3>3, <3>4, <3>5, <3>6
    <3>7. CASE TypeOf[Visible(u, p)] = "dir"
      <4>1. lower[r] = Absent /\ (s # NoPath => lower[s] = Absent)
        BY <2>4, <3>2, <3>7 DEF HasBelow
      <4>2. /\ v.tree[r] = IF s = NoPath THEN Absent ELSE m.tree[s]
            /\ r \in v.wh <=> s \in m.wh
        BY <1>5, <1>9, <2>4, <3>0, <3>1
      <4>3. CASE s = NoPath
        <5>1. Found(v, r) = Absent
          BY <4>1, <4>2, <4>3 DEF Found
        <5> QED
          BY <3>3, <3>4, <3>7, <4>3, <5>1
      <4>4. CASE s # NoPath
        <5>1. Found(v, r) = Found(m, s)
          BY <4>1, <4>2, <4>4 DEF Found
        <5>2. Found(m, s) = Found(u, s)
          BY <1>2, <3>2, <3>5, <4>4
        <5> QED
          BY <3>3, <3>4, <3>5, <3>7, <4>4, <5>1, <5>2
      <4> QED
        BY <4>3, <4>4
    <3> QED
      BY <3>6, <3>7
  <2> QED
    BY <2>1, <2>2, <2>3, <2>4 DEF Within
<1>14. ASSUME NEW r \in v.wh
       PROVE  v.tree[r] = Absent
  <2>1. CASE Within(r, p)
    BY <1>5, <1>9, <1>14, <2>1
  <2>2. CASE ~Within(r, p) /\ ~Within(r, q)
    BY <1>2, <1>5, <1>9, <1>14, <2>2 DEF Clean, Within
  <2>3. CASE Within(r, q) /\ ~Within(r, p)
    <3>1. r \in Path /\ r # q /\ q \in Ancestors[r] /\ r # p
      BY <1>4, <1>5, <1>9, <1>14, <2>3 DEF Within
    <3>2. From(p, q, r) \in m.wh
      BY <1>5, <1>9, <1>14, <3>1
    <3> QED
      BY <1>2, <1>5, <1>9, <2>3, <3>1, <3>2, EntryFacts DEF Clean, GoodUpper
  <2> QED
    BY <2>1, <2>2, <2>3
<1> QED
  BY <1>10, <1>13, <1>14 DEF Clean

-----------------------------------------------------------------------------
(***************************************************************************)
(* The invariant behind ChangesKept.  It speaks of histories in which the  *)
(* server has got nothing wrong so far (posix is a tree).                  *)
(***************************************************************************)
Filling(r) == \E d \in Clients : copying[d] = "fill" /\ open[d] = r

(* An open file is one in the history as well.  One that is half copied    *)
(* has not changed there, it cannot be hidden, and the upper has nothing   *)
(* of it, or all, or somebody is filling it.                               *)
OpenKept(c) ==
    open[c] # NoPath =>
        /\ IsFile(posix, open[c])
        /\ copying[c] # "no" => /\ open[c] \notin upper.wh /\ InDir(upper.tree, open[c])
                                /\ posix[open[c]] = lower[open[c]]
        /\ copying[c] = "create" => \/ upper.tree[open[c]] \in {Absent, lower[open[c]]}
                                    \/ Filling(open[c])
        /\ copying[c] = "fill" => file[c] = open[c]
        /\ copying[c] = "unhide" => upper.tree[open[c]] = lower[open[c]]

Sound ==
    /\ mnt = "live" => lower = source
    /\ Clean(upper)
    /\ \A p \in Path : HalfCopied(p) \/ Over(source, upper, p) = posix[p]
    /\ \A c \in Clients : OpenKept(c)

KeptInv ==
    /\ source = NoTree => upper = NoUpper
    /\ posix \in Tree => Sound

LEMMA KeptInit == Init => KeptInv
BY EntryFacts DEF Init, KeptInv

(* While the server runs. *)
LEMMA SoundLive ==
    ASSUME IInv, KeptInv, mnt = "live", posix \in Tree
    PROVE  /\ lower = source /\ Clean(upper)
           /\ \A p \in Path : HalfCopied(p) \/ Visible(upper, p) = posix[p]
           /\ \A c \in Clients : OpenKept(c)
<1>1. Sound
  BY DEF KeptInv
<1>2. lower = source
  BY <1>1 DEF Sound
<1>3. \A p \in Path : Over(source, upper, p) = Visible(upper, p)
  BY <1>2 DEF Over, FoundIn, Visible, Found
<1> QED
  BY <1>1, <1>2, <1>3 DEF Sound

(* A half copied file is a visible file. *)
LEMMA HalfFacts ==
    ASSUME IInv, KeptInv, mnt = "live", posix \in Tree, NEW r \in Path, HalfCopied(r)
    PROVE  /\ r \notin upper.wh /\ InDir(upper.tree, r)
           /\ posix[r] = lower[r] /\ IsFile(lower, r)
           /\ Visible(upper, r) = (IF upper.tree[r] # Absent THEN upper.tree[r] ELSE lower[r])
           /\ IsFile(VisibleTree(upper), r)
<1>1. PICK c \in Clients : copying[c] # "no" /\ open[c] = r
  BY DEF HalfCopied
<1>2. OpenKept(c) /\ open[c] # NoPath
  BY <1>1, SoundLive, EntryFacts
<1>3. /\ r \notin upper.wh /\ InDir(upper.tree, r) /\ posix[r] = lower[r] /\ IsFile(lower, r)
  BY <1>1, <1>2 DEF OpenKept, IsFile
<1>4. Visible(upper, r) = (IF upper.tree[r] # Absent THEN upper.tree[r] ELSE lower[r])
  <2>1. \A a \in Ancestors[r] : Found(upper, a) # Absent /\ TypeOf[Found(upper, a)] = "dir"
    BY <1>3, PathFacts DEF IInv, GoodUpper, InDir, IsDir, Found
  <2> QED
    BY <1>3, <2>1 DEF Visible, Found
<1>5. ASSUME NEW d \in Clients, copying[d] = "fill", open[d] = r
      PROVE  IsFile(upper.tree, r)
  <2>1. OpenKept(d) /\ open[d] # NoPath
    BY <1>5, SoundLive, EntryFacts
  <2>2. file[d] = r /\ r # NoPath
    BY <1>5, <2>1 DEF OpenKept
  <2> QED
    BY <2>2 DEF IInv, ClientInv, OpenInv
<1>6. upper.tree[r] \in {Absent, lower[r]} \/ IsFile(upper.tree, r)
  <2>1. copying[c] \in {"create", "fill", "unhide"}
    BY <1>1 DEF IInv, ClientInv
  <2> QED
    BY <1>1, <1>2, <1>5, <2>1 DEF OpenKept, Filling
<1> QED
  BY <1>3, <1>4, <1>6 DEF IsFile, VisibleTree

(* Every open file is a visible file. *)
LEMMA OpenFacts ==
    ASSUME IInv, KeptInv, mnt = "live", posix \in Tree, NEW c \in Clients, open[c] # NoPath
    PROVE  open[c] \in Path /\ IsFile(posix, open[c]) /\ IsFile(VisibleTree(upper), open[c])
<1>1. open[c] \in Path /\ OpenKept(c)
  BY SoundLive DEF IInv, ClientInv
<1>2. IsFile(posix, open[c])
  BY <1>1 DEF OpenKept
<1>3. CASE HalfCopied(open[c])
  BY <1>1, <1>2, <1>3, HalfFacts
<1>4. CASE ~HalfCopied(open[c])
  BY <1>1, <1>2, <1>4, SoundLive DEF IsFile, VisibleTree
<1> QED
  BY <1>1, <1>2, <1>3, <1>4

(* A request that the server got wrong says no more. *)
LEMMA AmountsKept ==
    ASSUME posix \in Known, NEW t, NEW wrong, Amounts(t, wrong), posix' \in Tree
    PROVE  posix \in Tree /\ ~wrong /\ posix' = t
BY EntryFacts DEF Known, Amounts

LEMMA LostStep ==
    ASSUME source' # NoTree, posix' \notin Tree
    PROVE  KeptInv'
BY DEF KeptInv, Tree

(* A request that changes names or attributes. *)
LEMMA NameKept ==
    ASSUME IInv, KeptInv, mnt = "live", posix \in Tree, UNCHANGED kept,
           Clean(upper'),
           \A r \in Path : HalfCopied(r) \/ Visible(upper', r) = posix'[r],
           \A r \in Path : HalfCopied(r) =>
               /\ upper'.tree[r] = upper.tree[r] /\ r \notin upper'.wh
               /\ InDir(upper'.tree, r) /\ posix'[r] = posix[r],
           \A c \in Clients : open[c] # NoPath => IsFile(posix', open[c]),
           \A c \in Clients : copying[c] = "fill" => file'[c] = file[c]
    PROVE  KeptInv'
<1>1. UNCHANGED <<lower, mnt, source, open, copying>>
  BY DEF kept
<1>2. lower = source /\ source # NoTree /\ \A c \in Clients : OpenKept(c)
  BY SoundLive, LiveFacts
<1>3. \A p \in Path : HalfCopied(p)' <=> HalfCopied(p)
  BY <1>1 DEF HalfCopied
<1>4. \A p \in Path : Over(source, upper, p)' = Visible(upper', p)
  BY <1>1, <1>2 DEF Over, FoundIn, Visible, Found
<1>5. \A p \in Path : HalfCopied(p)' \/ Over(source, upper, p)' = posix'[p]
  BY <1>3, <1>4
<1>6. ASSUME NEW c \in Clients
      PROVE  OpenKept(c)'
  <2>1. CASE open[c] = NoPath
    BY <1>1, <2>1 DEF OpenKept
  <2>2. CASE open[c] # NoPath
    <3>1. open[c] \in Path
      BY <2>2 DEF IInv, ClientInv
    <3>2. IsFile(posix, open[c])'
      BY <1>1, <2>2 DEF IsFile
    <3>3. copying[c] # "no" => HalfCopied(open[c])
      BY DEF HalfCopied
    <3>4. Filling(open[c])' <=> Filling(open[c])
      BY <1>1 DEF Filling
    <3>5. /\ copying[c] # "no" => /\ open[c] \notin upper'.wh /\ InDir(upper'.tree, open[c])
                                  /\ posix'[open[c]] = lower[open[c]]
          /\ copying[c] = "create" => \/ upper'.tree[open[c]] \in {Absent, lower[open[c]]}
                                      \/ Filling(open[c])
          /\ copying[c] = "fill" => file'[c] = open[c]
          /\ copying[c] = "unhide" => upper'.tree[open[c]] = lower[open[c]]
      BY <1>2, <2>2, <3>1, <3>3 DEF OpenKept
    <3> QED
      BY <1>1, <3>2, <3>4, <3>5 DEF OpenKept, InDir, IsDir
  <2> QED
    BY <2>1, <2>2
<1>7. Sound'
  BY <1>1, <1>2, <1>5, <1>6 DEF Sound, Clean
<1> QED
  BY <1>1, <1>2, <1>7 DEF KeptInv

(* A file that is half copied is no directory of a path that is reached. *)
LEMMA HalfElsewhere ==
    ASSUME IInv, KeptInv, mnt = "live", posix \in Tree, NEW p \in Path,
           Reached(upper, p) \/ Visible(upper, p) # Absent,
           NEW r \in Path, HalfCopied(r)
    PROVE  r \notin Ancestors[p]
<1>1. \A a \in Ancestors[p] : Visible(upper, a) = DirEntry
  BY LiveFacts, ReachedFound
<1>2. TypeOf[Visible(upper, r)] = "file"
  BY HalfFacts DEF IsFile, VisibleTree
<1> QED
  BY <1>1, <1>2, EntryFacts

LEMMA HalfInUse ==
    ASSUME IInv, NEW p \in Path, ~InUse(p)
    PROVE  /\ \A r \in Path : HalfCopied(r) => ~Within(r, p)
           /\ \A c \in Clients : open[c] # NoPath => open[c] \in Path /\ ~Within(open[c], p)
BY EntryFacts DEF InUse, HalfCopied, IInv, ClientInv

LEMMA MakeKept ==
    ASSUME IInv, KeptInv, NEW p \in Path, NEW e \in Entry, Make(p, e), posix' \in Tree
    PROVE  KeptInv'
<1>1. /\ mnt = "live" /\ UNCHANGED kept /\ UNCHANGED file
      /\ Visible(upper, p) = Absent /\ InDir(VisibleTree(upper), p)
      /\ e \in {NoData, LinkEntry} \cup (IF p \in Top THEN {DirEntry} ELSE {})
      /\ upper' = IF upper.tree[p] # Absent /\ e # NoData
                  THEN [upper EXCEPT !.wh = @ \ {p}] ELSE Put(upper, p, e)
  BY DEF Make, Free
<1>2. /\ GoodUpper(upper) /\ GoodTree(lower) /\ posix \in Known
      /\ Ready(upper, p) /\ ~IsDir(upper.tree, p) /\ Found(upper, p) = Absent
  BY <1>1, FreeFacts, LiveFacts
<1>3. /\ posix \in Tree /\ posix' = [posix EXCEPT ![p] = e]
      /\ ~InUse(p) /\ ~(e = DirEntry /\ HasBelow(lower, p))
  BY <1>2, AmountsKept DEF Make
<1>4. Clean(upper) /\ \A r \in Path : HalfCopied(r) \/ Visible(upper, r) = posix[r]
  BY <1>1, <1>3, SoundLive
<1>5. upper.tree[p] = Absent /\ upper' = Put(upper, p, e)
  BY <1>1, <1>2, <1>4 DEF Clean, Found
<1>6. /\ TypeOf[e] = "dir" => p \in Top /\ ~HasBelow(lower, p)
      /\ TypeOf[e] # "dir" => ~IsDir(upper.tree, p)
      /\ Reached(upper, p) /\ Found(upper, p) # e
  BY <1>1, <1>2, <1>3, EntryFacts DEF Reached
<1>7. /\ Visible(upper', p) = e /\ Clean(upper')
      /\ \A r \in Path : ~Within(r, p) => Visible(upper', r) = Visible(upper, r)
      /\ \A r \in Path : p \in Ancestors[r] => Visible(upper', r) = Absent
  BY <1>2, <1>4, <1>5, <1>6, PutShows
<1>8. /\ upper'.wh = upper.wh \ {p}
      /\ \A r \in Path : upper'.tree[r] = IF r = p THEN e
                                          ELSE IF r \in Ancestors[p] /\ upper.tree[r] = Absent
                                          THEN DirEntry ELSE upper.tree[r]
  BY <1>2, <1>5, <1>6, PutGood
<1>9. /\ \A r \in Path : HalfCopied(r) => ~Within(r, p) /\ r # p
      /\ \A c \in Clients : open[c] # NoPath => open[c] \in Path /\ open[c] # p
  BY <1>3, HalfInUse DEF Within
<1>10. \A r \in Path : posix'[r] = IF r = p THEN e ELSE posix[r]
  BY <1>3 DEF Tree
<1>11. \A r \in Path : p \in Ancestors[r] => Visible(upper, r) = Absent /\ r # p
  BY <1>2, PathFacts DEF Visible
<1>12. \A r \in Path : HalfCopied(r) \/ Visible(upper', r) = posix'[r]
  BY <1>4, <1>7, <1>10, <1>11 DEF Within
<1>13. ASSUME NEW r \in Path, HalfCopied(r)
       PROVE  /\ upper'.tree[r] = upper.tree[r] /\ r \notin upper'.wh
              /\ InDir(upper'.tree, r) /\ posix'[r] = posix[r]
  <2>1. r # p /\ r \notin Ancestors[p] /\ r \notin upper.wh /\ InDir(upper.tree, r)
    BY <1>1, <1>3, <1>6, <1>9, <1>13, HalfElsewhere, HalfFacts
  <2>2. InDir(upper'.tree, r)
    BY <1>2, <1>8, <2>1, PathFacts DEF InDir, IsDir
  <2> QED
    BY <1>8, <1>10, <2>1, <2>2
<1>14. \A c \in Clients : open[c] # NoPath => IsFile(posix', open[c])
  BY <1>1, <1>3, <1>9, <1>10, OpenFacts DEF IsFile
<1> QED
  BY <1>1, <1>3, <1>7, <1>12, <1>13, <1>14, NameKept

LEMMA SetattrKept ==
    ASSUME IInv, KeptInv, NEW p \in Path, NEW truncate \in BOOLEAN, Setattr(p, truncate),
           posix' \in Tree
    PROVE  KeptInv'
<1>1. /\ mnt = "live" /\ UNCHANGED kept /\ UNCHANGED file
      /\ Visible(upper, p) # Absent /\ (truncate => TypeOf[Visible(upper, p)] = "file")
      /\ upper' = IF truncate THEN Put(copyUp(upper, p), p, NoData) ELSE copyUp(upper, p)
  BY DEF Setattr, Seen, SeenType
<1>2. /\ GoodUpper(upper) /\ Ready(upper, p) /\ GoodTree(lower) /\ posix \in Known
      /\ Visible(upper, p) = (IF upper.tree[p] # Absent THEN upper.tree[p] ELSE lower[p])
      /\ upper.tree[p] # Absent \/ lower[p] # Absent
      /\ Reached(upper, p)
  BY <1>1, SeenFacts, LiveFacts, ReachedFound
<1>3. /\ posix \in Tree /\ ~HalfCopied(p)
      /\ posix' = IF truncate THEN [posix EXCEPT ![p] = NoData] ELSE posix
  BY <1>2, AmountsKept DEF Setattr
<1>4. Clean(upper) /\ \A r \in Path : HalfCopied(r) \/ Visible(upper, r) = posix[r]
  BY <1>1, <1>3, SoundLive
<1>5. PICK v : v = copyUp(upper, p)
  OBVIOUS
<1>6. /\ GoodUpper(v) /\ InDir(v.tree, p) /\ v.tree[p] = Visible(upper, p)
      /\ v.wh \subseteq upper.wh
      /\ \A r \in Path : upper.tree[r] # Absent => v.tree[r] = upper.tree[r]
      /\ \A r \in Path : r = p \/ v.tree[r] = upper.tree[r]
                         \/ (r \in Ancestors[p] /\ v.tree[r] = DirEntry)
  BY <1>2, <1>5, CopyUpGood
<1>7. Clean(v) /\ \A r \in Path : Visible(v, r) = Visible(upper, r)
  BY <1>1, <1>2, <1>4, <1>5, CopyUpShows
<1>8. ASSUME NEW r \in Path, HalfCopied(r)
      PROVE  r # p /\ r \notin Ancestors[p] /\ r \notin upper.wh /\ InDir(upper.tree, r)
  BY <1>1, <1>2, <1>3, <1>8, HalfElsewhere, HalfFacts
<1>9. ASSUME NEW r \in Path, HalfCopied(r)
      PROVE  v.tree[r] = upper.tree[r] /\ r \notin v.wh /\ InDir(v.tree, r)
  <2>1. InDir(v.tree, r)
    BY <1>6, <1>8, <1>9, PathFacts DEF InDir, IsDir
  <2> QED
    BY <1>6, <1>8, <1>9, <2>1
<1>10. CASE ~truncate
  <2>1. upper' = v /\ posix' = posix
    BY <1>1, <1>3, <1>5, <1>10
  <2>2. \A c \in Clients : open[c] # NoPath => IsFile(posix', open[c])
    BY <1>1, <1>3, <2>1, OpenFacts
  <2> QED
    BY <1>1, <1>3, <1>4, <1>7, <1>9, <2>1, <2>2, NameKept
<1>11. CASE truncate
  <2>1. /\ upper' = Put(v, p, NoData) /\ posix' = [posix EXCEPT ![p] = NoData]
        /\ NoData \in Entry /\ TypeOf[NoData] = "file" /\ NoData # Absent
    BY <1>1, <1>3, <1>5, <1>11, EntryFacts
  <2>2. ~IsDir(v.tree, p) /\ Reached(v, p) /\ Ready(v, p)
    <3>1. ~IsDir(v.tree, p)
      BY <1>1, <1>6, <1>11 DEF IsDir
    <3>2. Reached(v, p)
      BY <1>1, <1>6, <1>7, <1>2, ReachedFound
    <3> QED
      BY <3>1, <3>2, VisibleReady DEF Reached
  <2>3. /\ Visible(upper', p) = NoData /\ Clean(upper')
        /\ \A r \in Path : ~Within(r, p) => Visible(upper', r) = Visible(v, r)
        /\ \A r \in Path : p \in Ancestors[r] =>
              Visible(upper', r) = IF Found(v, p) = NoData THEN Visible(v, r) ELSE Absent
    BY <1>2, <1>6, <1>7, <2>1, <2>2, PutShows
  <2>4. /\ upper'.wh = v.wh \ {p}
        /\ \A r \in Path : upper'.tree[r] = IF r = p THEN NoData
                                            ELSE IF r \in Ancestors[p] /\ v.tree[r] = Absent
                                            THEN DirEntry ELSE v.tree[r]
    BY <1>6, <2>1, <2>2, PutGood
  <2>5. \A r \in Path : p \in Ancestors[r] => Visible(v, r) = Absent /\ r # p
    <3>1. Found(v, p) = Visible(v, p)
      BY <1>2, <1>6, <2>2, ReachedFound
    <3>2. TypeOf[Found(v, p)] # "dir"
      BY <1>1, <1>7, <1>11, <3>1
    <3> QED
      BY <3>2, PathFacts DEF Visible
  <2>6. \A r \in Path : posix'[r] = IF r = p THEN NoData ELSE posix[r]
    BY <1>3, <2>1 DEF Tree
  <2>7. \A r \in Path : HalfCopied(r) \/ Visible(upper', r) = posix'[r]
    BY <1>4, <1>7, <2>3, <2>5, <2>6 DEF Within
  <2>8. ASSUME NEW r \in Path, HalfCopied(r)
        PROVE  /\ upper'.tree[r] = upper.tree[r] /\ r \notin upper'.wh
               /\ InDir(upper'.tree, r) /\ posix'[r] = posix[r]
    <3>1. InDir(upper'.tree, r)
      BY <1>9, <2>2, <2>4, <2>8, PathFacts DEF InDir, IsDir
    <3> QED
      BY <1>8, <1>9, <2>4, <2>6, <2>8, <3>1
  <2>9. \A c \in Clients : open[c] # NoPath => IsFile(posix', open[c])
    BY <1>1, <1>3, <2>1, <2>6, OpenFacts DEF IsFile
  <2> QED
    BY <1>1, <1>3, <2>3, <2>7, <2>8, <2>9, NameKept
<1> QED
  BY <1>10, <1>11

LEMMA UnlinkKept ==
    ASSUME IInv, KeptInv, NEW p \in Path, Unlink(p), posix' \in Tree
    PROVE  KeptInv'
<1>1. /\ mnt = "live" /\ UNCHANGED kept /\ Visible(upper, p) # Absent
      /\ upper' = unlink(upper, p)
      /\ file' = [c \in Clients |-> IF file[c] = NoPath THEN NoPath
                                    ELSE [r \in Path |-> Gone(p, r)][file[c]]]
  BY DEF Unlink, Seen, Follow
<1>2. GoodUpper(upper) /\ GoodTree(lower) /\ Ready(upper, p) /\ posix \in Known
  BY <1>1, SeenFacts, LiveFacts
<1>3. /\ posix \in Tree /\ ~InUse(p)
      /\ posix' = [r \in Path |-> IF Within(r, p) THEN Absent ELSE posix[r]]
  BY <1>2, AmountsKept DEF Unlink
<1>4. /\ Clean(upper) /\ \A r \in Path : HalfCopied(r) \/ Visible(upper, r) = posix[r]
      /\ \A c \in Clients : OpenKept(c)
  BY <1>1, <1>3, SoundLive
<1>5. /\ Clean(upper')
      /\ \A r \in Path : Visible(upper', r) = IF Within(r, p) THEN Absent ELSE Visible(upper, r)
  BY <1>1, <1>2, <1>4, UnlinkShows
<1>6. /\ \A r \in Path : ~Within(r, p) =>
            /\ upper'.tree[r] = upper.tree[r] \/ (r \in Ancestors[p] /\ upper'.tree[r] = DirEntry)
            /\ upper.tree[r] # Absent => upper'.tree[r] = upper.tree[r]
      /\ \A r \in Path : ~Within(r, p) => (r \in upper'.wh <=> r \in upper.wh)
  BY <1>1, <1>2, UnlinkGood
<1>7. /\ \A r \in Path : HalfCopied(r) => ~Within(r, p)
      /\ \A c \in Clients : open[c] # NoPath => open[c] \in Path /\ ~Within(open[c], p)
  BY <1>3, HalfInUse
<1>8. \A r \in Path : HalfCopied(r) \/ Visible(upper', r) = posix'[r]
  BY <1>3, <1>4, <1>5
<1>9. ASSUME NEW r \in Path, HalfCopied(r)
      PROVE  /\ upper'.tree[r] = upper.tree[r] /\ r \notin upper'.wh
             /\ InDir(upper'.tree, r) /\ posix'[r] = posix[r]
  <2>1. r \notin Ancestors[p] /\ r \notin upper.wh /\ InDir(upper.tree, r) /\ ~Within(r, p)
    BY <1>1, <1>3, <1>7, <1>9, HalfElsewhere, HalfFacts
  <2>2. \A a \in Ancestors[r] : a \in Path /\ ~Within(a, p)
    BY <2>1, PathFacts DEF Within
  <2>3. InDir(upper'.tree, r)
    BY <1>6, <2>1, <2>2 DEF InDir, IsDir
  <2> QED
    BY <1>3, <1>6, <2>1, <2>3
<1>10. \A c \in Clients : open[c] # NoPath => IsFile(posix', open[c])
  BY <1>1, <1>3, <1>7, OpenFacts DEF IsFile
<1>11. ASSUME NEW c \in Clients, copying[c] = "fill"
       PROVE  file'[c] = file[c]
  <2>1. open[c] # NoPath
    BY <1>11 DEF IInv, ClientInv, OpenInv
  <2>2. file[c] = open[c]
    BY <1>4, <1>11, <2>1 DEF OpenKept
  <2> QED
    BY <1>1, <1>7, <2>1, <2>2 DEF Gone
<1> QED
  BY <1>1, <1>3, <1>5, <1>8, <1>9, <1>10, <1>11, NameKept

LEMMA RenameKept ==
    ASSUME IInv, KeptInv, NEW p \in Path, NEW q \in Path, Rename(p, q), posix' \in Tree
    PROVE  KeptInv'
<1>1. /\ CanRename(p, q) /\ UNCHANGED kept /\ upper' = Renamed(upper, p, q)
      /\ file' = [c \in Clients |-> IF file[c] = NoPath THEN NoPath
                                    ELSE [r \in Path |-> To(p, q, r)][file[c]]]
  BY DEF Rename, Follow
<1>2. /\ mnt = "live" /\ GoodUpper(upper) /\ GoodTree(lower) /\ posix \in Known
      /\ RenameOK(upper, p, q)
  BY <1>1, CanRenameFacts
<1>3. posix \in Tree /\ posix' = Move(posix, p, q) /\ ~RenameIsWrong(p, q)
  BY <1>2, AmountsKept DEF Rename
<1>4. /\ ~InUse(p) /\ ~InUse(q)
      /\ TypeOf[Visible(upper, p)] = "dir" => ~HasBelow(lower, p) /\ ~HasBelow(lower, q)
  BY <1>3 DEF RenameIsWrong, SeenType
<1>5. /\ Clean(upper) /\ \A r \in Path : HalfCopied(r) \/ Visible(upper, r) = posix[r]
      /\ \A c \in Clients : OpenKept(c)
  BY <1>2, <1>3, SoundLive
<1>6. /\ \A r \in Path : Visible(upper', r) = Move(VisibleTree(upper), p, q)[r]
      /\ \A r \in Path : ~Within(r, p) /\ ~Within(r, q) =>
            /\ r \in upper'.wh <=> r \in upper.wh
            /\ \/ upper'.tree[r] = upper.tree[r]
               \/ r \in Ancestors[p] \cup Ancestors[q] /\ upper'.tree[r] = DirEntry
      /\ Clean(upper')
  BY <1>1, <1>2, <1>4, <1>5, RenameShows
<1>7. /\ \A r \in Path : HalfCopied(r) => ~Within(r, p) /\ ~Within(r, q)
      /\ \A c \in Clients : open[c] # NoPath =>
            open[c] \in Path /\ ~Within(open[c], p) /\ ~Within(open[c], q)
  BY <1>4, HalfInUse
<1>8. ASSUME NEW r \in Path, ~HalfCopied(r)
      PROVE  Visible(upper', r) = posix'[r]
  <2>1. CASE Within(r, p)
    BY <1>3, <1>6, <2>1 DEF Move
  <2>2. CASE ~Within(r, p) /\ ~Within(r, q)
    BY <1>3, <1>5, <1>6, <1>8, <2>2 DEF Move, VisibleTree
  <2>3. CASE ~Within(r, p) /\ Within(r, q)
    <3>1. PICK s : s = From(p, q, r)
      OBVIOUS
    <3>2. s \in Path \cup {NoPath} /\ (s # NoPath => s \in Path /\ Within(s, p))
      BY <2>3, <3>1, FromFacts DEF Within
    <3>3. s # NoPath => Visible(upper, s) = posix[s]
      BY <1>5, <1>7, <3>2
    <3>4. /\ Move(VisibleTree(upper), p, q)[r] = IF s = NoPath THEN Absent ELSE Visible(upper, s)
          /\ Move(posix, p, q)[r] = IF s = NoPath THEN Absent ELSE posix[s]
      BY <2>3, <3>1, <3>2 DEF Move, VisibleTree
    <3> QED
      BY <1>3, <1>6, <3>3, <3>4
  <2> QED
    BY <2>1, <2>2, <2>3
<1>9. ASSUME NEW r \in Path, HalfCopied(r)
      PROVE  /\ upper'.tree[r] = upper.tree[r] /\ r \notin upper'.wh
             /\ InDir(upper'.tree, r) /\ posix'[r] = posix[r]
  <2>1. r \notin upper.wh /\ InDir(upper.tree, r) /\ ~Within(r, p) /\ ~Within(r, q)
    BY <1>2, <1>3, <1>7, <1>9, HalfFacts
  <2>2. r \notin Ancestors[p] /\ r \notin Ancestors[q]
    BY <1>2, <1>3, <1>9, HalfElsewhere DEF RenameOK, Reached
  <2>3. \A a \in Ancestors[r] : a \in Path /\ ~Within(a, p) /\ ~Within(a, q)
    BY <2>1, PathFacts DEF Within
  <2>4. InDir(upper'.tree, r)
    BY <1>6, <2>1, <2>3, EntryFacts DEF InDir, IsDir
  <2> QED
    BY <1>3, <1>6, <2>1, <2>2, <2>4 DEF Move
<1>10. \A c \in Clients : open[c] # NoPath => IsFile(posix', open[c])
  <2>1. \A r \in Path : ~Within(r, p) /\ ~Within(r, q) => posix'[r] = posix[r]
    BY <1>3 DEF Move
  <2> QED
    BY <1>2, <1>3, <1>7, <2>1, OpenFacts DEF IsFile
<1>11. ASSUME NEW c \in Clients, copying[c] = "fill"
       PROVE  file'[c] = file[c]
  <2>1. open[c] # NoPath
    BY <1>11 DEF IInv, ClientInv, OpenInv
  <2>2. file[c] = open[c]
    BY <1>5, <1>11, <2>1 DEF OpenKept
  <2> QED
    BY <1>1, <1>7, <2>1, <2>2 DEF To, Gone
<1> QED
  BY <1>1, <1>2, <1>3, <1>6, <1>8, <1>9, <1>10, <1>11, NameKept

-----------------------------------------------------------------------------
(* A client's own step. *)
LEMMA ClientKept ==
    ASSUME IInv, KeptInv, mnt = "live", posix \in Tree, UNCHANGED rest,
           Clean(upper'),
           \A r \in Path : HalfCopied(r)' \/ Visible(upper', r) = posix'[r],
           \A c \in Clients : OpenKept(c)'
    PROVE  KeptInv'
<1>1. UNCHANGED <<lower, mnt, source>>
  BY DEF rest
<1>2. lower = source /\ source # NoTree
  BY SoundLive, LiveFacts
<1>3. \A p \in Path : Over(source, upper, p)' = Visible(upper', p)
  BY <1>1, <1>2 DEF Over, FoundIn, Visible, Found
<1>4. \A p \in Path : HalfCopied(p)' \/ Over(source, upper, p)' = posix'[p]
  BY <1>3
<1>5. Sound'
  BY <1>1, <1>2, <1>4 DEF Sound, Clean
<1> QED
  BY <1>1, <1>2, <1>5 DEF KeptInv

(* A visible file gets other data. *)
LEMMA FileShows ==
    ASSUME NEW u, GoodUpper(u), GoodTree(lower), NEW p \in Path,
           IsFile(VisibleTree(u), p), NEW e \in Entry, TypeOf[e] = "file",
           NEW v, v.wh = u.wh, \A r \in Path : v.tree[r] = IF r = p THEN e ELSE u.tree[r]
    PROVE  /\ Visible(v, p) = e
           /\ \A r \in Path : r # p => Visible(v, r) = Visible(u, r)
           /\ Clean(u) => Clean(v)
           /\ \A r \in Path : InDir(u.tree, r) => InDir(v.tree, r)
<1>1. /\ p \notin u.wh /\ Visible(u, p) # Absent /\ TypeOf[Visible(u, p)] = "file"
      /\ Visible(u, p) = (IF u.tree[p] # Absent THEN u.tree[p] ELSE lower[p])
      /\ e # Absent
  BY SeenFacts, EntryFacts DEF IsFile, VisibleTree
<1>2. /\ Visible(u, p) = Found(u, p)
      /\ \A a \in Ancestors[p] : a \in Path /\ Found(u, a) = DirEntry /\ a # p
  BY <1>1, ReachedFound, PathFacts
<1>3. /\ Found(v, p) = e
      /\ \A r \in Path : r # p => Found(v, r) = Found(u, r)
  BY <1>1 DEF Found
<1>4. Visible(v, p) = e
  BY <1>2, <1>3, EntryFacts DEF Visible
<1>5. ASSUME NEW r \in Path, r # p
      PROVE  Visible(v, r) = Visible(u, r)
  <2>1. CASE p \in Ancestors[r]
    BY <1>1, <1>2, <1>3, <2>1 DEF Visible
  <2>2. CASE p \notin Ancestors[r]
    BY <1>3, <1>5, <2>2, VisibleSame, PathFacts
  <2> QED
    BY <2>1, <2>2
<1>6. Clean(u) => Clean(v)
  BY <1>1 DEF Clean, GoodUpper
<1>7. \A r \in Path : InDir(u.tree, r) => InDir(v.tree, r)
  BY <1>1, PathFacts DEF InDir, IsDir
<1> QED
  BY <1>4, <1>5, <1>6, <1>7

LEMMA OpenStartKept ==
    ASSUME IInv, KeptInv, NEW c \in Clients, NEW p \in Path, OpenStart(c, p), posix' \in Tree
    PROVE  KeptInv'
<1>1. /\ mnt = "live" /\ UNCHANGED <<rest, file, posix>> /\ open[c] = NoPath
      /\ Visible(upper, p) # Absent /\ TypeOf[Visible(upper, p)] = "file"
      /\ open' = [open EXCEPT ![c] = p] /\ lower' = lower
  BY DEF OpenStart, Seen, SeenType, rest
<1>2. /\ GoodUpper(upper) /\ GoodTree(lower) /\ Ready(upper, p) /\ Reached(upper, p)
      /\ p \notin upper.wh
      /\ Visible(upper, p) = (IF upper.tree[p] # Absent THEN upper.tree[p] ELSE lower[p])
  BY <1>1, SeenFacts, LiveFacts, ReachedFound
<1>3. /\ posix \in Tree /\ Clean(upper)
      /\ \A r \in Path : HalfCopied(r) \/ Visible(upper, r) = posix[r]
      /\ \A d \in Clients : OpenKept(d)
  BY <1>1, SoundLive
<1>4. /\ copying[c] = "no" /\ \A d \in Clients : d # c => open'[d] = open[d]
      /\ open'[c] = p
  BY <1>1 DEF IInv, ClientInv, OpenInv
<1>5. IsFile(posix, p) /\ (upper.tree[p] = Absent => posix[p] = lower[p])
  <2>1. CASE HalfCopied(p)
    BY <1>1, <1>3, <2>1, HalfFacts DEF IsFile
  <2>2. CASE ~HalfCopied(p)
    BY <1>1, <1>2, <1>3, <2>2 DEF IsFile
  <2> QED
    BY <2>1, <2>2
<1>6. CASE upper.tree[p] # Absent
  <2>1. upper' = upper /\ copying' = copying
    BY <1>6 DEF OpenStart
  <2>2. \A r \in Path : HalfCopied(r)' <=> HalfCopied(r)
    BY <1>4, <2>1 DEF HalfCopied
  <2>3. \A r : Filling(r)' <=> Filling(r)
    BY <1>4, <2>1 DEF Filling
  <2>4. OpenKept(c)'
    BY <1>1, <1>4, <1>5, <2>1 DEF OpenKept, IsFile
  <2>5. \A d \in Clients : OpenKept(d)'
    BY <1>1, <1>3, <1>4, <2>1, <2>3, <2>4 DEF OpenKept, IsFile, InDir, IsDir
  <2> QED
    BY <1>1, <1>3, <2>1, <2>2, <2>5, ClientKept
<1>7. CASE upper.tree[p] = Absent
  <2>1. upper' = ensureParentDir(upper, p) /\ copying' = [copying EXCEPT ![c] = "create"]
    BY <1>7 DEF OpenStart
  <2>2. /\ copying'[c] = "create"
        /\ \A d \in Clients : d # c => copying'[d] = copying[d]
    BY <2>1 DEF IInv, ClientInv
  <2>3. /\ InDir(upper'.tree, p) /\ upper'.wh = upper.wh
        /\ \A r \in Path : upper'.tree[r] = IF r \in Ancestors[p] /\ upper.tree[r] = Absent
                                            THEN DirEntry ELSE upper.tree[r]
    BY <1>2, <2>1, ParentMade
  <2>4. Clean(upper') /\ \A r \in Path : Visible(upper', r) = Visible(upper, r)
    BY <1>2, <1>3, <2>1, ParentShows
  <2>5. \A r \in Path : HalfCopied(r) => HalfCopied(r)'
    BY <1>4, <2>2 DEF HalfCopied
  <2>6. \A r : Filling(r)' <=> Filling(r)
    BY <1>4, <2>2 DEF Filling
  <2>7. upper'.tree[p] = Absent
    BY <1>7, <2>3, PathFacts
  <2>8. OpenKept(c)'
    BY <1>1, <1>2, <1>4, <1>5, <1>7, <2>2, <2>3, <2>7 DEF OpenKept, IsFile, InDir, IsDir
  <2>9. ASSUME NEW d \in Clients, d # c, open[d] # NoPath, copying[d] # "no"
        PROVE  upper'.tree[open[d]] = upper.tree[open[d]] /\ InDir(upper'.tree, open[d])
    <3>1. open[d] \in Path /\ HalfCopied(open[d])
      BY <2>9 DEF HalfCopied, IInv, ClientInv
    <3>2. open[d] \notin Ancestors[p] /\ InDir(upper.tree, open[d])
      BY <1>1, <1>2, <1>3, <3>1, HalfElsewhere, HalfFacts
    <3> QED
      BY <2>3, <3>1, <3>2, PathFacts DEF InDir, IsDir
  <2>10. ASSUME NEW d \in Clients, d # c
         PROVE  OpenKept(d)'
    <3>1. open'[d] = open[d] /\ copying'[d] = copying[d] /\ file'[d] = file[d] /\ OpenKept(d)
      BY <1>1, <1>3, <1>4, <2>2, <2>10
    <3>2. copying[d] # "no" /\ open[d] # NoPath =>
            upper'.tree[open[d]] = upper.tree[open[d]] /\ InDir(upper'.tree, open[d])
      BY <2>9, <2>10
    <3> QED
      BY <1>1, <2>3, <2>6, <3>1, <3>2 DEF OpenKept, IsFile, InDir, IsDir
  <2>11. \A r \in Path : HalfCopied(r)' \/ Visible(upper', r) = posix'[r]
    BY <1>1, <1>3, <2>4, <2>5
  <2>12. \A d \in Clients : OpenKept(d)'
    BY <2>8, <2>10
  <2> QED
    BY <1>1, <1>3, <2>4, <2>11, <2>12, ClientKept
<1> QED
  BY <1>6, <1>7

(* The file of an OPEN in progress gets data. *)
LEMMA FileKept ==
    ASSUME IInv, KeptInv, mnt = "live", posix \in Tree, UNCHANGED <<rest, open, posix>>,
           NEW c \in Clients, copying[c] # "no", NEW p \in Path, p = open[c],
           NEW e \in Entry, TypeOf[e] = "file",
           upper' = [upper EXCEPT !.tree[p] = e],
           NEW l \in {"fill", "unhide"}, copying' = [copying EXCEPT ![c] = l],
           NEW f \in {p, NoPath}, file' = [file EXCEPT ![c] = f],
           \/ l = "fill" /\ f = p /\ upper.tree[p] = Absent
           \/ l = "unhide" /\ e = lower[p]
    PROVE  KeptInv'
<1>1. /\ GoodUpper(upper) /\ GoodTree(lower) /\ HalfCopied(p) /\ lower' = lower
      /\ Clean(upper) /\ \A r \in Path : HalfCopied(r) \/ Visible(upper, r) = posix[r]
      /\ \A d \in Clients : OpenKept(d)
  BY LiveFacts, SoundLive DEF HalfCopied, rest
<1>2. p \notin upper.wh /\ InDir(upper.tree, p) /\ posix[p] = lower[p]
      /\ IsFile(lower, p) /\ IsFile(VisibleTree(upper), p)
  BY <1>1, HalfFacts
<1>3. /\ upper'.wh = upper.wh
      /\ \A r \in Path : upper'.tree[r] = IF r = p THEN e ELSE upper.tree[r]
  BY <1>1 DEF GoodUpper, Tree
<1>4. /\ \A r \in Path : r # p => Visible(upper', r) = Visible(upper, r)
      /\ Clean(upper')
      /\ \A r \in Path : InDir(upper.tree, r) => InDir(upper'.tree, r)
  <2>1. PICK v : v = upper'
    OBVIOUS
  <2>2. v.wh = upper.wh /\ \A r \in Path : v.tree[r] = IF r = p THEN e ELSE upper.tree[r]
    BY <1>3, <2>1
  <2>3. /\ \A r \in Path : r # p => Visible(v, r) = Visible(upper, r)
        /\ Clean(upper) => Clean(v)
        /\ \A r \in Path : InDir(upper.tree, r) => InDir(v.tree, r)
    BY <1>1, <1>2, <2>2, FileShows
  <2> QED
    BY <1>1, <2>1, <2>3
<1>5. /\ copying'[c] = l /\ file'[c] = f
      /\ \A d \in Clients : d # c => copying'[d] = copying[d] /\ file'[d] = file[d]
  BY DEF IInv, ClientInv
<1>6. /\ \A r \in Path : HalfCopied(r) => HalfCopied(r)'
      /\ HalfCopied(p)'
  BY <1>5 DEF HalfCopied
<1>7. \A r \in Path : HalfCopied(r)' \/ Visible(upper', r) = posix'[r]
  BY <1>1, <1>4, <1>6
<1>8. OpenKept(c)'
  BY <1>1, <1>2, <1>3, <1>4, <1>5, EntryFacts DEF OpenKept, IsFile, InDir, IsDir
<1>9. ASSUME NEW d \in Clients, d # c
      PROVE  OpenKept(d)'
  <2>1. open'[d] = open[d] /\ copying'[d] = copying[d] /\ file'[d] = file[d] /\ OpenKept(d)
    BY <1>1, <1>5, <1>9
  <2>2. open[d] # NoPath => open[d] \in Path
    BY DEF IInv, ClientInv
  <2>3. open[d] # p /\ Filling(open[d]) => Filling(open[d])'
    BY <1>5, <2>1 DEF Filling
  <2>4. l = "fill" => Filling(p)'
    BY <1>5 DEF Filling
  <2>5. CASE open[d] # p
    BY <1>1, <1>3, <1>4, <2>1, <2>2, <2>3, <2>5 DEF OpenKept, IsFile, InDir, IsDir
  <2>6. CASE open[d] = p /\ l = "unhide"
    BY <1>1, <1>2, <1>3, <1>4, <2>1, <2>6 DEF OpenKept, IsFile, InDir, IsDir
  <2>7. CASE open[d] = p /\ l = "fill"
    <3>1. copying[d] # "unhide"
      BY <1>2, <2>1, <2>7, EntryFacts DEF OpenKept, IsFile
    <3> QED
      BY <1>1, <1>2, <1>3, <1>4, <2>1, <2>4, <2>7, <3>1 DEF OpenKept, IsFile, InDir, IsDir
  <2> QED
    BY <2>5, <2>6, <2>7
<1>10. \A d \in Clients : OpenKept(d)'
  BY <1>8, <1>9
<1> QED
  BY <1>4, <1>7, <1>10, ClientKept

LEMMA OpenCreateKept ==
    ASSUME IInv, KeptInv, NEW c \in Clients, OpenCreate(c), posix' \in Tree
    PROVE  KeptInv'
<1>1. /\ copying[c] = "create" /\ mnt = "live" /\ UNCHANGED rest
      /\ open[c] \in Path /\ open[c] # NoPath /\ posix \in Known
  BY LiveFacts DEF OpenCreate, IInv, ClientInv, OpenInv
<1>2. PICK p \in Path : p = open[c]
  BY <1>1
<1>3. posix \in Tree
  BY <1>1, AmountsKept DEF OpenCreate
<1>4. HalfCopied(p)
  BY <1>1, <1>2 DEF HalfCopied
<1>5. InDir(upper.tree, p) /\ (upper.tree[p] # Absent => TypeOf[upper.tree[p]] = "file")
  BY <1>1, <1>3, <1>4, HalfFacts DEF IsFile, VisibleTree
<1>6. /\ upper' = [upper EXCEPT !.tree[p] = NoData]
      /\ copying' = [copying EXCEPT ![c] = "fill"]
      /\ file' = [file EXCEPT ![c] = p]
      /\ UNCHANGED open
      /\ Amounts(posix, upper.tree[p] # Absent)
  BY <1>2, <1>5 DEF OpenCreate
<1>7. upper.tree[p] = Absent /\ posix' = posix
  BY <1>1, <1>6, AmountsKept
<1>8. NoData \in Entry /\ TypeOf[NoData] = "file" /\ "fill" \in {"fill", "unhide"}
  BY EntryFacts
<1> QED
  BY <1>1, <1>2, <1>3, <1>6, <1>7, <1>8, FileKept

LEMMA OpenFillKept ==
    ASSUME IInv, KeptInv, NEW c \in Clients, OpenFill(c), posix' \in Tree
    PROVE  KeptInv'
<1>1. /\ copying[c] = "fill" /\ mnt = "live" /\ UNCHANGED <<rest, open, posix>>
      /\ open[c] \in Path /\ IsFile(lower, open[c]) /\ open[c] # NoPath
      /\ copying' = [copying EXCEPT ![c] = "unhide"]
      /\ file' = [file EXCEPT ![c] = NoPath]
  BY DEF OpenFill, IInv, ClientInv, OpenInv
<1>2. posix \in Tree /\ lower \in Tree /\ OpenKept(c)
  BY <1>1, SoundLive, LiveFacts
<1>3. PICK p \in Path, e \in Entry : p = open[c] /\ e = lower[p] /\ TypeOf[e] = "file"
  BY <1>1, <1>2 DEF IsFile, Tree
<1>4. file[c] = p
  BY <1>1, <1>2, <1>3 DEF OpenKept
<1>5. upper' = [upper EXCEPT !.tree[p] = e]
  BY <1>3, <1>4, EntryFacts DEF OpenFill
<1> QED
  BY <1>1, <1>2, <1>3, <1>5, FileKept

LEMMA OpenDoneKept ==
    ASSUME IInv, KeptInv, NEW c \in Clients, OpenDone(c), posix' \in Tree
    PROVE  KeptInv'
<1>1. /\ copying[c] = "unhide" /\ mnt = "live" /\ UNCHANGED <<rest, open, file, posix>>
      /\ open[c] \in Path /\ open[c] # NoPath /\ lower' = lower
      /\ copying' = [copying EXCEPT ![c] = "no"]
      /\ upper' = [upper EXCEPT !.wh = @ \ {open[c]}]
  BY DEF OpenDone, IInv, ClientInv, OpenInv, rest
<1>2. /\ posix \in Tree /\ GoodUpper(upper) /\ Clean(upper)
      /\ \A r \in Path : HalfCopied(r) \/ Visible(upper, r) = posix[r]
      /\ \A d \in Clients : OpenKept(d)
  BY <1>1, SoundLive, LiveFacts
<1>3. PICK p \in Path : p = open[c]
  BY <1>1
<1>4. HalfCopied(p) /\ OpenKept(c)
  BY <1>1, <1>2, <1>3 DEF HalfCopied
<1>5. p \notin upper.wh /\ posix[p] = lower[p] /\ Visible(upper, p) = posix[p]
  <2>1. /\ p \notin upper.wh /\ posix[p] = lower[p] /\ upper.tree[p] = lower[p]
    BY <1>1, <1>3, <1>4 DEF OpenKept
  <2> QED
    BY <1>1, <1>2, <1>4, <2>1, HalfFacts
<1>6. upper'.wh = upper.wh /\ upper'.tree = upper.tree
  BY <1>1, <1>2, <1>3, <1>5 DEF GoodUpper
<1>7. \A r \in Path : Visible(upper', r) = Visible(upper, r)
  BY <1>6 DEF Visible, Found
<1>8. /\ copying'[c] = "no"
      /\ \A d \in Clients : d # c => copying'[d] = copying[d]
  BY <1>1 DEF IInv, ClientInv
<1>9. /\ \A r \in Path : HalfCopied(r) => HalfCopied(r)' \/ r = p
      /\ \A r : Filling(r) <=> Filling(r)'
  BY <1>1, <1>3, <1>8 DEF HalfCopied, Filling
<1>10. \A r \in Path : HalfCopied(r)' \/ Visible(upper', r) = posix'[r]
  BY <1>1, <1>2, <1>5, <1>7, <1>9
<1>11. Clean(upper')
  BY <1>2, <1>6 DEF Clean
<1>12. ASSUME NEW d \in Clients
       PROVE  OpenKept(d)'
  <2>1. open'[d] = open[d] /\ file'[d] = file[d] /\ OpenKept(d)
        /\ copying'[d] \in {copying[d], "no"}
    BY <1>1, <1>2, <1>8
  <2> QED
    BY <1>1, <1>6, <1>9, <2>1 DEF OpenKept, IsFile, InDir, IsDir
<1> QED
  BY <1>1, <1>2, <1>10, <1>11, <1>12, ClientKept

LEMMA WriteKept ==
    ASSUME IInv, KeptInv, NEW c \in Clients, NEW e \in Written, Write(c, e), posix' \in Tree
    PROVE  KeptInv'
<1>1. /\ copying[c] = "no" /\ mnt = "live" /\ UNCHANGED <<rest, open, copying, file>>
      /\ open[c] \in Path /\ open[c] # NoPath /\ lower' = lower
  BY DEF Write, IInv, ClientInv, OpenInv, rest
<1>2. GoodUpper(upper) /\ GoodTree(lower) /\ posix \in Known
  BY <1>1, LiveFacts
<1>3. PICK p \in Path : p = open[c]
  BY <1>1
<1>4. /\ upper' = [copyUp(upper, p) EXCEPT !.tree[p] = e]
      /\ Amounts([posix EXCEPT ![p] = e], HalfCopied(p))
  BY <1>3 DEF Write
<1>5. posix \in Tree /\ posix' = [posix EXCEPT ![p] = e] /\ ~HalfCopied(p)
  BY <1>2, <1>4, AmountsKept
<1>6. /\ Clean(upper) /\ \A r \in Path : HalfCopied(r) \/ Visible(upper, r) = posix[r]
      /\ \A d \in Clients : OpenKept(d)
  BY <1>1, <1>5, SoundLive
<1>7. Visible(upper, p) # Absent /\ TypeOf[Visible(upper, p)] = "file"
  BY <1>1, <1>3, <1>5, OpenFacts DEF IsFile, VisibleTree
<1>8. /\ Ready(upper, p) /\ (upper.tree[p] # Absent \/ lower[p] # Absent)
      /\ p \notin upper.wh
  BY <1>7, SeenFacts
<1>9. PICK v : v = copyUp(upper, p)
  OBVIOUS
<1>10. /\ GoodUpper(v) /\ v.wh \subseteq upper.wh
       /\ \A r \in Path : upper.tree[r] # Absent => v.tree[r] = upper.tree[r]
       /\ \A r \in Path : r = p \/ v.tree[r] = upper.tree[r]
                          \/ (r \in Ancestors[p] /\ v.tree[r] = DirEntry)
  BY <1>2, <1>8, <1>9, CopyUpGood
<1>11. Clean(v) /\ \A r \in Path : Visible(v, r) = Visible(upper, r)
  BY <1>2, <1>6, <1>7, <1>9, CopyUpShows
<1>12. e \in Entry /\ TypeOf[e] = "file" /\ e # Absent /\ IsFile(VisibleTree(v), p)
  BY <1>7, <1>11, EntryFacts DEF IsFile, VisibleTree
<1>13. /\ upper'.wh = v.wh
       /\ \A r \in Path : upper'.tree[r] = IF r = p THEN e ELSE v.tree[r]
  BY <1>4, <1>9, <1>10 DEF GoodUpper, Tree
<1>14. /\ Visible(upper', p) = e /\ Clean(upper')
       /\ \A r \in Path : r # p => Visible(upper', r) = Visible(v, r)
       /\ \A r \in Path : InDir(v.tree, r) => InDir(upper'.tree, r)
  BY <1>2, <1>10, <1>11, <1>12, <1>13, FileShows
<1>15. \A r \in Path : posix'[r] = IF r = p THEN e ELSE posix[r]
  BY <1>5 DEF Tree
<1>16. /\ \A r \in Path : HalfCopied(r)' <=> HalfCopied(r)
       /\ \A r : Filling(r)' <=> Filling(r)
  BY <1>1 DEF HalfCopied, Filling
<1>17. \A r \in Path : HalfCopied(r)' \/ Visible(upper', r) = posix'[r]
  BY <1>6, <1>11, <1>14, <1>15, <1>16
<1>18. ASSUME NEW r \in Path, HalfCopied(r)
       PROVE  /\ upper'.tree[r] = upper.tree[r] /\ r \notin upper'.wh
              /\ InDir(upper'.tree, r) /\ posix'[r] = posix[r]
  <2>1. /\ r # p /\ r \notin Ancestors[p] /\ r \notin upper.wh /\ InDir(upper.tree, r)
    BY <1>1, <1>5, <1>7, <1>18, HalfElsewhere, HalfFacts
  <2>2. InDir(v.tree, r)
    BY <1>10, <2>1, PathFacts DEF InDir, IsDir
  <2> QED
    BY <1>10, <1>13, <1>14, <1>15, <2>1, <2>2
<1>19. ASSUME NEW d \in Clients
       PROVE  OpenKept(d)'
  <2>1. /\ open'[d] = open[d] /\ copying'[d] = copying[d] /\ file'[d] = file[d] /\ OpenKept(d)
        /\ open[d] # NoPath => open[d] \in Path
    BY <1>1, <1>6 DEF IInv, ClientInv
  <2>2. open[d] # NoPath => IsFile(posix', open[d])
    BY <1>12, <1>15, <2>1 DEF OpenKept, IsFile
  <2>3. copying[d] # "no" /\ open[d] # NoPath => HalfCopied(open[d])
    BY DEF HalfCopied
  <2> QED
    BY <1>1, <1>16, <1>18, <2>1, <2>2, <2>3 DEF OpenKept, IsFile, InDir, IsDir
<1> QED
  BY <1>1, <1>5, <1>14, <1>17, <1>19, ClientKept

LEMMA CloseKept ==
    ASSUME IInv, KeptInv, NEW c \in Clients, Close(c), posix' \in Tree
    PROVE  KeptInv'
<1>1. /\ copying[c] = "no" /\ mnt = "live" /\ UNCHANGED <<rest, upper, copying, file, posix>>
      /\ open' = [open EXCEPT ![c] = NoPath] /\ lower' = lower
  BY DEF Close, IInv, ClientInv, OpenInv, rest
<1>2. /\ posix \in Tree /\ Clean(upper)
      /\ \A r \in Path : HalfCopied(r) \/ Visible(upper, r) = posix[r]
      /\ \A d \in Clients : OpenKept(d)
  BY <1>1, SoundLive
<1>3. open'[c] = NoPath /\ \A d \in Clients : d # c => open'[d] = open[d]
  BY <1>1 DEF IInv, ClientInv
<1>4. /\ \A r \in Path : HalfCopied(r)' <=> HalfCopied(r)
      /\ \A r : Filling(r)' <=> Filling(r)
  BY <1>1, <1>3 DEF HalfCopied, Filling
<1>5. \A d \in Clients : OpenKept(d)'
  BY <1>1, <1>2, <1>3, <1>4 DEF OpenKept, IsFile, InDir, IsDir
<1>6. \A r \in Path : HalfCopied(r)' \/ Visible(upper', r) = posix'[r]
  BY <1>1, <1>2, <1>4
<1> QED
  BY <1>1, <1>2, <1>5, <1>6, ClientKept

-----------------------------------------------------------------------------
(* Mounting the snapshot of an upper directory under that directory shows  *)
(* the snapshot.                                                           *)
LEMMA OverAgain ==
    ASSUME NEW s, NEW u, NEW t, \A p \in Path : t[p] = Over(s, u, p), NEW p \in Path
    PROVE  Over(t, u, p) = t[p]
<1>1. ASSUME NEW a \in Top
      PROVE  FoundIn(t, u, a) = FoundIn(s, u, a)
  <2>1. t[a] = FoundIn(s, u, a)
    BY PathFacts DEF Over
  <2> QED
    BY <2>1 DEF FoundIn
<1>2. \A a \in Ancestors[p] : FoundIn(t, u, a) = FoundIn(s, u, a)
  BY <1>1, PathFacts
<1>3. CASE \A a \in Ancestors[p] : FoundIn(s, u, a) # Absent /\ TypeOf[FoundIn(s, u, a)] = "dir"
  <2>1. t[p] = FoundIn(s, u, p) /\ Over(t, u, p) = FoundIn(t, u, p)
    BY <1>2, <1>3 DEF Over
  <2> QED
    BY <2>1 DEF FoundIn
<1>4. CASE ~\A a \in Ancestors[p] : FoundIn(s, u, a) # Absent /\ TypeOf[FoundIn(s, u, a)] = "dir"
  BY <1>2, <1>4 DEF Over
<1> QED
  BY <1>3, <1>4

(* Nobody has a file open. *)
LEMMA NobodyKept ==
    ASSUME IInv, source' # NoTree, mnt' = "live" => lower' = source', Clean(upper'),
           \A p \in Path : Over(source', upper', p) = posix'[p],
           open' = [c \in Clients |-> NoPath]
    PROVE  KeptInv'
<1>1. \A c \in Clients : OpenKept(c)'
  BY DEF OpenKept
<1>2. \A p \in Path : Over(source, upper, p)' = posix'[p]
  BY DEF Over, FoundIn
<1>3. Sound'
  BY <1>1, <1>2 DEF Sound, Clean
<1> QED
  BY <1>3 DEF KeptInv

(* What a closed mount says of the history. *)
LEMMA ClosedKept ==
    ASSUME IInv, KeptInv, posix \in Tree,
           mnt # "live" \/ \A c \in Clients : open[c] = NoPath
    PROVE  /\ Clean(upper) /\ \A p \in Path : Over(source, upper, p) = posix[p]
           /\ source # NoTree /\ open = [c \in Clients |-> NoPath]
<1>1. /\ open = [c \in Clients |-> NoPath] /\ copying = [c \in Clients |-> "no"]
  BY ClosedFacts
<1>2. Sound
  BY DEF KeptInv
<1>3. \A p \in Path : ~HalfCopied(p)
  BY <1>1 DEF HalfCopied
<1> QED
  BY <1>1, <1>2, <1>3, EntryFacts DEF Sound, IInv, MountInv

LEMMA MountKept ==
    ASSUME IInv, KeptInv, NEW t, Mount(t) \/ MountUnrecorded(t), posix' \in Tree
    PROVE  KeptInv'
<1>1. /\ mnt = "none" /\ mnt' = "live" /\ lower' = t
      /\ t \in (IF source = NoTree THEN Sources ELSE {source, last} \ {NoTree})
      /\ upper' = upper /\ open' = open
  BY DEF Mount, MountUnrecorded, MountSource
<1>2. GoodTree(t) /\ t \in Tree /\ t # NoTree
  BY <1>1, LazyFuseConstants, EntryFacts
     DEF LazyFuseConstants, GoodTree, FileSystem, IInv, MountInv
<1>3. open' = [c \in Clients |-> NoPath]
  BY <1>1, ClosedFacts
<1>4. CASE source = NoTree
  <2>1. source' = t /\ posix' = t /\ upper = NoUpper
    BY <1>4 DEF Mount, MountUnrecorded, KeptInv
  <2>2. ASSUME NEW p \in Path
        PROVE  Over(t, NoUpper, p) = t[p]
    <3>1. \A r \in Path : FoundIn(t, NoUpper, r) = t[r]
      BY DEF FoundIn, NoUpper, Empty
    <3>2. t[p] # Absent => \A a \in Ancestors[p] : IsDir(t, a)
      BY <1>2 DEF GoodTree, FileSystem, WellFormed
    <3>3. \A a \in Ancestors[p] : a \in Path
      BY PathFacts
    <3> QED
      BY <3>1, <3>2, <3>3 DEF Over, IsDir
  <2>3. Clean(NoUpper)
    BY DEF Clean, NoUpper
  <2> QED
    BY <1>1, <1>2, <1>3, <2>1, <2>2, <2>3, NobodyKept
<1>5. CASE source # NoTree
  <2>1. posix \in Known
    BY <1>5 DEF IInv, MountInv
  <2>2. /\ posix \in Tree /\ posix' = posix /\ source' = t
        /\ t = source \/ t = posix
    <3>1. CASE Mount(t)
      <4>1. Amounts(posix, t \notin {source, posix}) /\ source' = t
        BY <1>5, <3>1 DEF Mount
      <4> QED
        BY <2>1, <4>1, AmountsKept
    <3>2. CASE MountUnrecorded(t)
      <4>1. Amounts(posix, t # source) /\ source' = source
        BY <3>2 DEF MountUnrecorded
      <4> QED
        BY <2>1, <4>1, AmountsKept
    <3> QED
      BY <3>1, <3>2
  <2>3. Clean(upper) /\ \A p \in Path : posix[p] = Over(source, upper, p)
    BY <1>1, <2>2, ClosedKept
  <2>4. \A p \in Path : Over(t, upper, p) = posix[p]
    <3>1. CASE t = source
      BY <2>3, <3>1
    <3>2. CASE t = posix
      BY <2>3, <3>2, OverAgain
    <3> QED
      BY <2>2, <3>1, <3>2
  <2> QED
    BY <1>1, <1>2, <1>3, <2>2, <2>3, <2>4, NobodyKept
<1> QED
  BY <1>4, <1>5

LEMMA UnmountKept ==
    ASSUME IInv, KeptInv, Unmount, posix' \in Tree
    PROVE  KeptInv'
<1>1. /\ mnt' = "none" /\ \A c \in Clients : open[c] = NoPath
      /\ UNCHANGED <<upper, source, open, posix>>
  BY DEF Unmount
<1>2. /\ Clean(upper) /\ \A p \in Path : Over(source, upper, p) = posix[p]
      /\ source # NoTree /\ open = [c \in Clients |-> NoPath]
  BY <1>1, ClosedKept
<1> QED
  BY <1>1, <1>2, NobodyKept

(* A copy-up that is killed while nobody fills has left nothing of the     *)
(* file, or all.                                                           *)
LEMMA DiesKept ==
    ASSUME IInv, KeptInv, ServerDies, posix' \in Tree
    PROVE  KeptInv'
<1>1. /\ mnt = "live" /\ mnt' = "dead" /\ open' = [c \in Clients |-> NoPath]
      /\ UNCHANGED <<upper, source>>
      /\ Amounts(posix, FALSE \/ \E c \in Clients : copying[c] = "fill")
  BY DEF ServerDies, Killed
<1>2. posix \in Known /\ source # NoTree
  BY <1>1, LiveFacts
<1>3. posix \in Tree /\ posix' = posix /\ ~\E c \in Clients : copying[c] = "fill"
  BY <1>1, <1>2, AmountsKept
<1>4. /\ lower = source /\ Clean(upper)
      /\ \A p \in Path : HalfCopied(p) \/ Visible(upper, p) = posix[p]
      /\ \A c \in Clients : OpenKept(c)
  BY <1>1, <1>3, SoundLive
<1>5. ASSUME NEW p \in Path, HalfCopied(p)
      PROVE  Visible(upper, p) = posix[p]
  <2>1. PICK c \in Clients : copying[c] # "no" /\ open[c] = p
    BY <1>5 DEF HalfCopied
  <2>2. copying[c] \in {"create", "unhide"} /\ OpenKept(c) /\ open[c] # NoPath
    BY <1>3, <1>4, <2>1, EntryFacts DEF IInv, ClientInv
  <2>3. upper.tree[p] \in {Absent, lower[p]}
    BY <1>3, <2>1, <2>2 DEF OpenKept, Filling
  <2> QED
    BY <1>1, <1>3, <1>5, <2>3, HalfFacts
<1>6. \A p \in Path : Over(source, upper, p) = Visible(upper, p)
  BY <1>4 DEF Over, FoundIn, Visible, Found
<1>7. \A p \in Path : Over(source, upper, p) = posix[p]
  BY <1>4, <1>5, <1>6
<1> QED
  BY <1>1, <1>2, <1>3, <1>4, <1>7, NobodyKept

LEMMA SameKept ==
    ASSUME KeptInv, UNCHANGED <<upper, lower, mnt, source, open, copying, file, posix>>
    PROVE  KeptInv'
<1>1. \A c \in Clients : OpenKept(c) => OpenKept(c)'
  BY DEF OpenKept, Filling, IsFile, InDir, IsDir
<1>2. \A p \in Path : (HalfCopied(p)' <=> HalfCopied(p))
                      /\ Over(source, upper, p)' = Over(source, upper, p)
  BY DEF HalfCopied, Over, FoundIn
<1>3. Sound => Sound'
  BY <1>1, <1>2 DEF Sound, Clean
<1> QED
  BY <1>3 DEF KeptInv, Tree, NoUpper, Empty

(* Without a record nothing happens but a mount. *)
LEMMA NoRecordStep ==
    ASSUME IInv, Next
    PROVE  source' # NoTree
<1>1. CASE mnt = "live"
  <2>1. source # NoTree
    BY <1>1, LiveFacts
  <2>2. CASE Request
    BY <2>1, <2>2 DEF Request, Make, Setattr, Unlink, Rename, RenameFails, OpenStart,
          OpenCreate, OpenFill, OpenDone, Write, Close, kept, rest
  <2>3. CASE Command
    BY <1>1, <2>1, <2>3 DEF Command, Mount, MountUnrecorded, MountSource, Unmount, Snapshot
  <2>4. CASE ServerDies \/ \E p, q \in Path : RenameStops(p, q)
    BY <2>1, <2>4 DEF ServerDies, RenameStops, Killed
  <2> QED
    BY <2>2, <2>3, <2>4 DEF Next
<1>2. CASE mnt # "live"
  <2>1. \A c \in Clients : open[c] = NoPath /\ copying[c] = "no"
    BY <1>2 DEF IInv, ClientInv, OpenInv
  <2>2. Command
    BY <1>2, <2>1 DEF Next, Request, Make, Setattr, Unlink, Rename, RenameFails, CanRename,
          OpenStart, OpenCreate, OpenFill, OpenDone, Write, Close, Free, Seen, ServerDies,
          RenameStops, Killed
  <2>3. NoTree \notin Sources
    BY LazyFuseConstants DEF LazyFuseConstants
  <2> QED
    BY <2>2, <2>3 DEF Command, Mount, MountUnrecorded, MountSource, Unmount, Snapshot
<1> QED
  BY <1>1, <1>2

LEMMA KeptNext == IInv /\ KeptInv /\ [Next]_vars => KeptInv'
<1> SUFFICES ASSUME IInv, KeptInv, [Next]_vars PROVE KeptInv'
  OBVIOUS
<1>1. CASE UNCHANGED vars
  BY <1>1, SameKept DEF vars
<1>2. CASE Next /\ posix' \notin Tree
  BY <1>2, NoRecordStep, LostStep
<1>3. CASE Next /\ posix' \in Tree
  <2>1. CASE Request
    <3>1. ASSUME NEW p \in Path, NEW q \in Path, RenameFails(p, q)
          PROVE  FALSE
      BY <1>3, <3>1, CanRenameFacts, AmountsKept DEF RenameFails
    <3> QED
      BY <1>3, <2>1, <3>1, MakeKept, SetattrKept, UnlinkKept, RenameKept, OpenStartKept,
         OpenCreateKept, OpenFillKept, OpenDoneKept, WriteKept, CloseKept DEF Request
  <2>2. CASE Command
    <3>1. CASE Snapshot
      BY <3>1, SameKept DEF Snapshot
    <3> QED
      BY <1>3, <2>2, <3>1, MountKept, UnmountKept DEF Command
  <2>3. CASE ServerDies
    BY <1>3, <2>3, DiesKept
  <2>4. ASSUME NEW p \in Path, NEW q \in Path, RenameStops(p, q)
        PROVE  FALSE
    <3>1. Amounts(posix, TRUE \/ \E c \in Clients : copying[c] = "fill") /\ posix \in Known
      BY <2>4, CanRenameFacts DEF RenameStops, Killed
    <3> QED
      BY <1>3, <3>1, AmountsKept
  <2> QED
    BY <1>3, <2>1, <2>2, <2>3, <2>4 DEF Next
<1> QED
  BY <1>1, <1>2, <1>3

(* A snapshot holds what the clients' requests amount to: while the server *)
(* gets no request wrong, every path that no OPEN is copying up is         *)
(* recorded as any file system would have it, across unmounts, mounts of   *)
(* earlier snapshots and deaths of the server.                             *)
THEOREM RequestsAreKept == Spec => []ChangesKept
<1>1. IInv /\ KeptInv => ChangesKept
  <2> SUFFICES ASSUME IInv, KeptInv, posix \notin {NoTree, Unknown}, NEW p \in Path
               PROVE  HalfCopied(p) \/ Recorded(upper)[p] = posix[p]
    BY DEF ChangesKept
  <2>1. posix \in Tree /\ source # NoTree /\ GoodTree(source) /\ GoodUpper(upper)
    BY DEF IInv, MountInv, Known
  <2>2. HalfCopied(p) \/ Over(source, upper, p) = posix[p]
    BY <2>1 DEF KeptInv, Sound
  <2> QED
    BY <2>1, <2>2, RecordedOver
<1>2. Spec => []KeptInv
  <2>1. Init => KeptInv
    BY KeptInit
  <2> QED
    BY <2>1, KeptNext, FuseAlways, PTL DEF Spec
<1> QED
  BY <1>1, <1>2, FuseAlways, PTL
=============================================================================
