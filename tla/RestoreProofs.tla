--------------------------- MODULE RestoreProofs ---------------------------
(***************************************************************************)
(* Proofs about what a restore does.  First about Trees and LayerExtract,  *)
(* for every set of paths and every pair of trees: the layer that a        *)
(* snapshot makes can be extracted, and extracting it yields the recorded  *)
(* tree.  Then about RestoreSwap, for any number of threads and snapshots  *)
(* and every failure, where all calls on the target use the same command:  *)
(* how the tree that was built replaces what is at the target.             *)
(***************************************************************************)
EXTENDS LayerExtract, RestoreSwap, WellFoundedInduction, TLAPS

LEMMA DepthMinimum ==
    ASSUME NEW S \in SUBSET Path, S # {}
    PROVE  \E w \in S : \A s \in S : Depth[w] <= Depth[s]
<1> DEFINE D == {Depth[s] : s \in S}
<1>1. D \subseteq Nat /\ D # {}
  BY TreeConstants
<1>2. PICK n \in D : \A m \in D : ~(<<m, n>> \in OpToRel(<, Nat))
  <2> HIDE DEF D
  <2> QED BY <1>1, NatLessThanWellFounded, WFMin, Zenon
<1>3. \A m \in D : n <= m
  <2>1. ASSUME NEW m \in Nat, NEW k \in Nat, m < k
        PROVE  <<m, k>> \in OpToRel(<, Nat)
    BY <2>1 DEF OpToRel
  <2>2. \A m \in D : ~(m < n)
    <3> HIDE DEF D
    <3> QED BY <1>1, <1>2, <2>1, Zenon
  <2> QED BY <1>1, <2>2
<1> QED BY <1>3

(* Dropping the whiteouts below other whiteouts deletes as much. *)
LEMMA MergeCovers ==
    ASSUME NEW S \in SUBSET Path, NEW s \in S
    PROVE  \E w \in mergeWhiteouts(S) : Within(s, w)
<1> DEFINE up == {w \in S : Within(s, w)}
<1>1. up \in SUBSET Path /\ s \in up
  BY DEF Within
<1>2. PICK w \in up : \A v \in up : Depth[w] <= Depth[v]
  BY <1>1, DepthMinimum
<1>3. \A a \in Ancestors[w] \cap S : a \in up /\ Depth[a] < Depth[w]
  BY <1>1, TreeConstants DEF Within
<1>4. \A a \in Path : Depth[a] \in Nat
  BY TreeConstants
<1>5. Ancestors[w] \cap S = {}
  BY <1>1, <1>2, <1>3, <1>4
<1> QED BY <1>5 DEF mergeWhiteouts

LEMMA WithinTransitive ==
    ASSUME NEW p \in Path, NEW q \in Path, NEW r \in Path,
           Within(p, q), Within(q, r)
    PROVE  Within(p, r)
BY TreeConstants DEF Within

-----------------------------------------------------------------------------
Whiteouts == diffWhiteouts(parent, scanned)
Changed == ChangedEntries(parent, scanned)
Covered(p) == \E w \in Whiteouts : Within(p, w)

(* The facts about a layer that its extraction depends on. *)
DiffFacts ==
    /\ \A p \in Path : Covered(p) /\ p \notin Changed => scanned[p] = Absent
    /\ \A p \in Path : ~Covered(p) /\ p \notin Changed => parent[p] = scanned[p]
    /\ \A p \in Changed : ~Covered(p) =>
          parent[p] = Absent \/ TypeOf[parent[p]] = TypeOf[scanned[p]]

LEMMA DiffIsComplete ==
    ASSUME parent \in FileSystem, scanned \in FileSystem
    PROVE  DiffFacts
<1> DEFINE gone == {p \in Path : parent[p] # Absent /\ scanned[p] = Absent}
           turned == typeChangeWhiteouts(parent, scanned, Changed)
           S == gone \cup turned
<1>1. S \in SUBSET Path /\ Whiteouts = mergeWhiteouts(S)
  BY DEF Whiteouts, diffWhiteouts, typeChangeWhiteouts, ChangedEntries, Changed
<1>2. \A s \in S : Covered(s)
  BY <1>1, MergeCovers DEF Covered
<1>3. Whiteouts \subseteq S
  BY <1>1 DEF mergeWhiteouts
<1>4. ASSUME NEW p \in Path, Covered(p), p \notin Changed
      PROVE  scanned[p] = Absent
  <2> SUFFICES ASSUME scanned[p] # Absent PROVE FALSE
    OBVIOUS
  <2>1. PICK w \in Whiteouts : Within(p, w)
    BY <1>4 DEF Covered
  <2>2. parent[p] = scanned[p]
    BY <1>4 DEF Changed, ChangedEntries
  <2>3. CASE w = p
    BY <1>3, <1>4, <2>2, <2>3 DEF typeChangeWhiteouts
  <2>4. CASE w \in Ancestors[p]
    <3>1. IsDir(parent, w) /\ IsDir(scanned, w)
      BY <2>2, <2>4 DEF FileSystem, WellFormed
    <3> QED BY <1>3, <3>1 DEF typeChangeWhiteouts, IsDir
  <2> QED BY <2>1, <2>3, <2>4 DEF Within
<1>5. ASSUME NEW p \in Path, ~Covered(p), p \notin Changed
      PROVE  parent[p] = scanned[p]
  BY <1>2, <1>5 DEF Changed, ChangedEntries
<1>6. ASSUME NEW p \in Changed, ~Covered(p)
      PROVE  parent[p] = Absent \/ TypeOf[parent[p]] = TypeOf[scanned[p]]
  BY <1>2, <1>6 DEF typeChangeWhiteouts
<1> QED BY <1>4, <1>5, <1>6 DEF DiffFacts, Changed, ChangedEntries

-----------------------------------------------------------------------------
(***************************************************************************)
(* The inductive invariant: what is at each path of the stage, in terms of *)
(* the whiteouts and entries that have been applied.                       *)
(***************************************************************************)
Cleared(p) == \E w \in Whiteouts \ whiteouts : Within(p, w)

StageAt(p) ==
    stage[p] = IF p \in Changed \ entries THEN recorded[p]
               ELSE IF Cleared(p) THEN Absent
               ELSE parent[p]

Shape ==
    /\ stage \in Tree
    /\ scanned \in FileSystem
    /\ parent \in FileSystem
    /\ recorded = redactedSnapshotTree(scanned)
    /\ redactedSnapshotTree(parent) = parent
    /\ status \in {"extracting", "extracted"}
    /\ status = "extracted" => whiteouts = {} /\ entries = {}

Progress ==
    /\ whiteouts \subseteq Whiteouts
    /\ entries \subseteq Changed
    /\ whiteouts # {} => entries = Changed
    /\ \A p \in Changed \ entries : Ancestors[p] \cap entries = {}
    /\ \A p \in Path : StageAt(p)

ExtractInv == Shape /\ Progress

(* Redaction keeps the shape of a tree and is done once. *)
LEMMA Redaction ==
    ASSUME NEW t \in FileSystem, NEW r, r = redactedSnapshotTree(t)
    PROVE  /\ r \in FileSystem
           /\ redactedSnapshotTree(r) = r
           /\ \A p \in Path : r[p] = Absent <=> t[p] = Absent
           /\ \A p \in Path : t[p] # Absent => TypeOf[r[p]] = TypeOf[t[p]]
<1>1. t \in Tree
  BY DEF FileSystem
<1>2. \A p \in Path : r[p] = IF p \in LogPath /\ t[p] # Absent THEN Redact[t[p]]
                                                              ELSE t[p]
  BY DEF redactedSnapshotTree
<1>3. \A p \in Path : t[p] # Absent => t[p] \in Entry
  BY <1>1 DEF Tree
<1>4. r \in Tree
  BY <1>1, <1>3, TreeConstants DEF Tree, redactedSnapshotTree
<1>5. ASSUME NEW p \in Path PROVE r[p] = Absent <=> t[p] = Absent
  <2>1. t[p] \in Entry => Redact[t[p]] # Absent
    BY TreeConstants
  <2> QED BY <1>2, <1>3, <2>1
<1>6. ASSUME NEW p \in Path, t[p] # Absent PROVE TypeOf[r[p]] = TypeOf[t[p]]
  <2>1. t[p] \in Entry /\ (r[p] = t[p] \/ r[p] = Redact[t[p]])
    BY <1>2, <1>3, <1>6
  <2> QED BY <2>1, TreeConstants
<1>7. WellFormed(r)
  <2> SUFFICES ASSUME NEW p \in Path, r[p] # Absent, NEW a \in Ancestors[p]
               PROVE  r[a] # Absent /\ TypeOf[r[a]] = "dir"
    BY DEF WellFormed, IsDir
  <2>1. a \in Path
    BY TreeConstants
  <2>2. t[a] # Absent /\ TypeOf[t[a]] = "dir"
    BY <1>5 DEF FileSystem, WellFormed, IsDir
  <2> QED BY <1>5, <1>6, <2>1, <2>2
<1>8. ASSUME NEW p \in Path PROVE redactedSnapshotTree(r)[p] = r[p]
  <2>1. redactedSnapshotTree(r)[p] =
            IF p \in LogPath /\ r[p] # Absent THEN Redact[r[p]] ELSE r[p]
    BY DEF redactedSnapshotTree
  <2>2. CASE p \in LogPath /\ t[p] # Absent
    BY <1>2, <1>3, <2>1, <2>2, TreeConstants
  <2>3. CASE ~(p \in LogPath /\ t[p] # Absent)
    BY <1>5, <2>1, <2>3
  <2> QED BY <2>2, <2>3
<1>9. redactedSnapshotTree(r) = r
  BY <1>4, <1>8 DEF Tree, redactedSnapshotTree
<1> QED BY <1>4, <1>5, <1>6, <1>7, <1>9 DEF FileSystem

LEMMA RecordedTree ==
    ASSUME Shape
    PROVE  /\ recorded \in FileSystem
           /\ redactedSnapshotTree(recorded) = recorded
           /\ \A p \in Path : recorded[p] = Absent <=> scanned[p] = Absent
           /\ \A p \in Path : scanned[p] # Absent =>
                                 TypeOf[recorded[p]] = TypeOf[scanned[p]]
<1>1. scanned \in FileSystem /\ recorded = redactedSnapshotTree(scanned)
  BY DEF Shape
<1>2. /\ recorded \in FileSystem
      /\ redactedSnapshotTree(recorded) = recorded
      /\ \A p \in Path : recorded[p] = Absent <=> scanned[p] = Absent
      /\ \A p \in Path : scanned[p] # Absent =>
                            TypeOf[recorded[p]] = TypeOf[scanned[p]]
  BY ONLY <1>1, Redaction
<1> QED BY <1>2

LEMMA EmptyIsFileSystem == Empty \in FileSystem /\ redactedSnapshotTree(Empty) = Empty
BY DEF Empty, FileSystem, Tree, WellFormed, redactedSnapshotTree

(* A fresh layer over a stage that holds the parent's tree. *)
LEMMA FreshLayer ==
    ASSUME Shape, stage = parent, status = "extracting",
           whiteouts = Whiteouts, entries = Changed
    PROVE  ExtractInv
<1>1. \A p \in Path : StageAt(p)
  BY DEF StageAt, Cleared
<1> QED BY <1>1 DEF ExtractInv, Progress

LEMMA ExtractInit == Init => ExtractInv
<1> SUFFICES ASSUME Init PROVE ExtractInv
  OBVIOUS
<1>1. Shape
  BY EmptyIsFileSystem DEF Init, Shape, FileSystem
<1> QED BY <1>1, FreshLayer DEF Init, Whiteouts, Changed

(* What the invariant says when a layer has been extracted. *)
LEMMA ExtractedMatches ==
    ASSUME ExtractInv, whiteouts = {}, entries = {}
    PROVE  stage = recorded
<1>1. DiffFacts /\ scanned \in FileSystem /\ parent \in FileSystem
  BY DiffIsComplete DEF ExtractInv, Shape
<1>2. \A p \in Path : Cleared(p) <=> Covered(p)
  BY DEF Cleared, Covered
<1>3. ASSUME NEW p \in Path PROVE stage[p] = recorded[p]
  <2>1. stage[p] = IF p \in Changed THEN recorded[p]
                   ELSE IF Covered(p) THEN Absent ELSE parent[p]
    BY <1>2 DEF ExtractInv, Progress, StageAt
  <2>2. CASE p \in Changed
    BY <2>1, <2>2
  <2>3. CASE p \notin Changed /\ Covered(p)
    BY <1>1, <2>1, <2>3 DEF DiffFacts, ExtractInv, Shape, redactedSnapshotTree
  <2>4. CASE p \notin Changed /\ ~Covered(p)
    <3>1. parent[p] = scanned[p]
      BY <1>1, <2>4 DEF DiffFacts
    <3>2. parent[p] = redactedSnapshotTree(parent)[p]
      BY DEF ExtractInv, Shape
    <3> QED BY <2>1, <2>4, <3>1, <3>2
            DEF ExtractInv, Shape, redactedSnapshotTree
  <2> QED BY <2>2, <2>3, <2>4
<1>4. recorded \in Tree /\ stage \in Tree
  BY RecordedTree DEF ExtractInv, Shape, FileSystem
<1> QED BY <1>3, <1>4 DEF Tree

(* Once the whiteouts are applied, a path whose ancestors are all          *)
(* extracted is in directories, and holds nothing that the entry cannot    *)
(* replace.                                                                *)
LEMMA ReadyEntry ==
    ASSUME ExtractInv, NEW p \in Path, InOrder(p)
    PROVE  /\ \A a \in Ancestors[p] : IsDir(stage, a)
           /\ stage[p] # Absent => TypeOf[stage[p]] = TypeOf[recorded[p]]
           /\ recorded[p] \in Entry
<1>1. DiffFacts /\ scanned \in FileSystem /\ parent \in FileSystem
  BY DiffIsComplete DEF ExtractInv, Shape
<1>2. \A q \in Path : Cleared(q) <=> Covered(q)
  BY DEF Cleared, Covered, InOrder
<1>3. p \in entries /\ p \in Changed /\ scanned[p] # Absent
  BY DEF InOrder, ExtractInv, Progress, Changed, ChangedEntries
<1>4. \A q \in Path : /\ recorded[q] = Absent <=> scanned[q] = Absent
                      /\ scanned[q] # Absent => TypeOf[recorded[q]] = TypeOf[scanned[q]]
  BY RecordedTree DEF ExtractInv
<1>5. recorded \in Tree
  BY RecordedTree DEF ExtractInv, Shape, FileSystem
<1>6. recorded[p] \in Entry
  BY <1>3, <1>4, <1>5 DEF Tree
<1>7. ASSUME NEW a \in Ancestors[p] PROVE IsDir(stage, a)
  <2>1. a \in Path /\ a \notin entries
    BY TreeConstants DEF InOrder
  <2>2. scanned[a] # Absent /\ TypeOf[scanned[a]] = "dir"
    BY <1>1, <1>3 DEF FileSystem, WellFormed, IsDir
  <2>3. stage[a] = IF a \in Changed THEN recorded[a]
                   ELSE IF Covered(a) THEN Absent ELSE parent[a]
    BY <1>2, <2>1 DEF ExtractInv, Progress, StageAt
  <2>4. CASE a \in Changed
    BY <1>4, <2>1, <2>2, <2>3, <2>4 DEF IsDir
  <2>5. CASE a \notin Changed
    BY <1>1, <2>1, <2>2, <2>3, <2>5 DEF IsDir, DiffFacts
  <2> QED BY <2>4, <2>5
<1>8. ASSUME stage[p] # Absent PROVE TypeOf[stage[p]] = TypeOf[recorded[p]]
  <2>1. stage[p] = IF Covered(p) THEN Absent ELSE parent[p]
    BY <1>2, <1>3 DEF ExtractInv, Progress, StageAt
  <2> QED BY <1>1, <1>3, <1>4, <1>8, <2>1 DEF DiffFacts
<1> QED BY <1>6, <1>7, <1>8

(* Nothing is below an entry that is about to be written, unless it is a   *)
(* directory.                                                              *)
LEMMA NothingBelow ==
    ASSUME ExtractInv, NEW p \in Path, InOrder(p), TypeOf[recorded[p]] # "dir",
           NEW q \in Path, p \in Ancestors[q]
    PROVE  stage[q] = Absent
<1> SUFFICES ASSUME stage[q] # Absent PROVE FALSE
  OBVIOUS
<1>1. DiffFacts /\ scanned \in FileSystem /\ parent \in FileSystem
  BY DiffIsComplete DEF ExtractInv, Shape
<1>2. \A x \in Path : Cleared(x) <=> Covered(x)
  BY DEF Cleared, Covered, InOrder
<1>3. p \in entries /\ p \in Changed
  BY DEF InOrder, ExtractInv, Progress
<1>4. scanned[p] # Absent /\ TypeOf[scanned[p]] # "dir"
  BY <1>1, <1>3, RecordedTree DEF ExtractInv, Changed, ChangedEntries
<1>5. q \notin Changed \ entries
  BY <1>3 DEF ExtractInv, Progress
<1>6. stage[q] = IF Covered(q) THEN Absent ELSE parent[q]
  BY <1>2, <1>5 DEF ExtractInv, Progress, StageAt
<1>7. parent[p] # Absent /\ TypeOf[parent[p]] = "dir"
  BY <1>1, <1>6 DEF FileSystem, WellFormed, IsDir
<1>8. Covered(p)
  BY <1>1, <1>3, <1>4, <1>7 DEF DiffFacts
<1>9. Covered(q)
  <2>1. PICK w \in Whiteouts : Within(p, w)
    BY <1>8 DEF Covered
  <2>2. w \in Path
    BY <2>1, TreeConstants DEF Whiteouts, diffWhiteouts, mergeWhiteouts,
       typeChangeWhiteouts, ChangedEntries
  <2> QED BY <2>1, <2>2, WithinTransitive DEF Covered, Within
<1> QED BY <1>6, <1>9

-----------------------------------------------------------------------------
(* A whiteout is applied: its ancestors are directories. *)
LEMMA WhiteoutRemoves ==
    ASSUME ExtractInv, NEW w \in Path, ApplyWhiteout(w)
    PROVE  /\ status = "extracting" /\ w \in whiteouts /\ entries = Changed
           /\ whiteouts \subseteq Whiteouts /\ Whiteouts \subseteq Path
           /\ \A p \in Path : stage[p] = IF Cleared(p) THEN Absent ELSE parent[p]
           /\ stage' = Removed(w) /\ whiteouts' = whiteouts \ {w}
           /\ UNCHANGED <<entries, status, scanned, recorded, parent>>
<1>1. /\ status = "extracting" /\ w \in whiteouts /\ entries = Changed
      /\ whiteouts \subseteq Whiteouts /\ Whiteouts \subseteq Path
  BY DEF ApplyWhiteout, ExtractInv, Progress, Whiteouts, diffWhiteouts,
         mergeWhiteouts, typeChangeWhiteouts, ChangedEntries
<1>2. \A p \in Path : stage[p] = IF Cleared(p) THEN Absent ELSE parent[p]
  BY <1>1 DEF ExtractInv, Progress, StageAt
<1>3. parent[w] # Absent
  BY <1>1 DEF Whiteouts, diffWhiteouts, mergeWhiteouts, typeChangeWhiteouts
<1>4. ensureNoSymlinkInPath(Ancestors[w])
  <2> SUFFICES ASSUME NEW a \in Ancestors[w], stage[a] # Absent
               PROVE  IsDir(stage, a)
    BY DEF ensureNoSymlinkInPath
  <2>1. a \in Path /\ IsDir(parent, a)
    BY <1>3, TreeConstants DEF ExtractInv, Shape, FileSystem, WellFormed
  <2> QED BY <1>2, <2>1 DEF IsDir
<1>5. /\ stage' = Removed(w) /\ whiteouts' = whiteouts \ {w}
      /\ UNCHANGED <<entries, status, scanned, recorded, parent>>
  BY <1>4 DEF ApplyWhiteout
<1> QED BY <1>1, <1>2, <1>5

LEMMA WhiteoutStep ==
    ASSUME ExtractInv, NEW w \in Path, ApplyWhiteout(w)
    PROVE  ExtractInv'
<1>1. /\ status = "extracting" /\ w \in whiteouts /\ entries = Changed
      /\ whiteouts \subseteq Whiteouts /\ Whiteouts \subseteq Path
  BY WhiteoutRemoves
<1>2. \A p \in Path : stage[p] = IF Cleared(p) THEN Absent ELSE parent[p]
  BY WhiteoutRemoves
<1>5. /\ stage' = Removed(w) /\ whiteouts' = whiteouts \ {w}
      /\ UNCHANGED <<entries, status, scanned, recorded, parent>>
  BY WhiteoutRemoves
<1>6. Whiteouts' = Whiteouts /\ Changed' = Changed
  BY <1>5 DEF Whiteouts, Changed
<1>7. Shape'
  BY <1>1, <1>5 DEF ExtractInv, Shape, Removed, Tree
<1>8. ASSUME NEW p \in Path PROVE StageAt(p)'
  <2>1. Cleared(p)' <=> Cleared(p) \/ Within(p, w)
    BY <1>1, <1>5, <1>6 DEF Cleared, Within
  <2>2. stage'[p] = IF Within(p, w) THEN Absent ELSE stage[p]
    BY <1>5 DEF Removed
  <2>3. p \notin Changed' \ entries'
    BY <1>1, <1>5, <1>6
  <2> QED BY <1>2, <1>5, <2>1, <2>2, <2>3 DEF StageAt
<1>9. Progress'
  BY <1>1, <1>5, <1>6, <1>8 DEF Progress
<1> QED BY <1>7, <1>9 DEF ExtractInv

(* Writing one entry, its parents being there already. *)
LEMMA EntryStep ==
    ASSUME ExtractInv, NEW p \in Path, InOrder(p),
           stage' = [stage EXCEPT ![p] = recorded[p]],
           entries' = entries \ {p},
           UNCHANGED <<whiteouts, status, scanned, recorded, parent>>
    PROVE  ExtractInv'
<1>1. p \in entries /\ p \in Changed /\ whiteouts = {} /\ status = "extracting"
  BY DEF InOrder, ExtractInv, Progress
<1>2. Whiteouts' = Whiteouts /\ Changed' = Changed
  BY DEF Whiteouts, Changed
<1>3. stage \in Tree /\ recorded[p] \in Entry
  BY ReadyEntry DEF ExtractInv, Shape
<1>4. Shape'
  BY <1>1, <1>3 DEF ExtractInv, Shape, Tree
<1>5. ASSUME NEW q \in Path PROVE StageAt(q)'
  <2>1. Cleared(q)' <=> Cleared(q)
    BY <1>2 DEF Cleared
  <2>2. CASE q = p
    BY <1>1, <1>2, <1>3, <2>2 DEF StageAt, Tree
  <2>3. CASE q # p
    <3>1. stage'[q] = stage[q] /\ (q \in Changed' \ entries' <=> q \in Changed \ entries)
      BY <1>2, <1>3, <2>3 DEF Tree
    <3> QED BY <2>1, <3>1 DEF ExtractInv, Progress, StageAt
  <2> QED BY <2>2, <2>3
<1>6. \A q \in Changed' \ entries' : Ancestors[q] \cap entries' = {}
  BY <1>2 DEF ExtractInv, Progress, InOrder
<1>7. Progress'
  BY <1>1, <1>2, <1>5, <1>6 DEF ExtractInv, Progress
<1> QED BY <1>4, <1>7 DEF ExtractInv

(* An entry is extracted: it replaces what is at its path, and nothing else. *)
LEMMA ExtractWrites ==
    ASSUME ExtractInv, NEW p \in Path,
           ExtractDir(p) \/ ExtractFile(p) \/ ExtractSymlink(p)
    PROVE  /\ InOrder(p)
           /\ stage' = [stage EXCEPT ![p] = recorded[p]]
           /\ entries' = entries \ {p}
           /\ UNCHANGED <<whiteouts, status, scanned, recorded, parent>>
<1>1. InOrder(p)
  BY DEF ExtractDir, ExtractFile, ExtractSymlink
<1>2. LayerEntry(p) = recorded[p]
  BY DEF LayerEntry, ExtractInv, Shape
<1>3. /\ \A a \in Ancestors[p] : IsDir(stage, a)
      /\ stage[p] # Absent => TypeOf[stage[p]] = TypeOf[recorded[p]]
  BY <1>1, ReadyEntry
<1>4. \A made : Created(p, recorded[p], made) = [stage EXCEPT ![p] = recorded[p]]
  <2>1. \A a \in Ancestors[p] : stage[a] # Absent
    BY <1>3 DEF IsDir
  <2>2. stage \in Tree
    BY DEF ExtractInv, Shape
  <2> QED BY <2>1, <2>2 DEF Created, Tree
<1>5. ensureNoSymlinkInPath(Ancestors[p])
  BY <1>3 DEF ensureNoSymlinkInPath
<1>6. CASE ExtractDir(p)
  <2>1. ensureNoSymlinkInPath(Ancestors[p] \cup {p})
    BY <1>2, <1>3, <1>6 DEF ensureNoSymlinkInPath, ExtractDir, IsDir
  <2> QED BY <1>1, <1>2, <1>4, <1>6, <2>1 DEF ExtractDir, Extracted
<1>7. CASE ExtractFile(p)
  <2>1. Writable(p)
    BY <1>2, <1>3, <1>7 DEF Writable, ExtractFile
  <2> QED BY <1>1, <1>2, <1>4, <1>5, <1>7, <2>1 DEF ExtractFile, Extracted
<1>8. CASE ExtractSymlink(p)
  <2>1. TypeOf[recorded[p]] # "dir"
    BY <1>2, <1>8 DEF ExtractSymlink
  <2>2. \A q \in Path : p \in Ancestors[q] => stage[q] = Absent /\ q # p
    BY <1>1, <2>1, NothingBelow, TreeConstants
  <2>3. [q \in Path |-> IF p \in Ancestors[q] THEN Absent
                        ELSE Created(p, recorded[p], Dir0755)[q]]
        = [stage EXCEPT ![p] = recorded[p]]
    BY <1>4, <2>2 DEF ExtractInv, Shape, Tree
  <2>4. stage' = [stage EXCEPT ![p] = recorded[p]]
    BY <1>2, <1>5, <1>8, <2>3 DEF ExtractSymlink, Extracted
  <2> QED BY <1>1, <1>5, <1>8, <2>4 DEF ExtractSymlink, Extracted
<1> QED BY <1>6, <1>7, <1>8

LEMMA ExtractStep ==
    ASSUME ExtractInv, NEW p \in Path,
           ExtractDir(p) \/ ExtractFile(p) \/ ExtractSymlink(p)
    PROVE  ExtractInv'
BY ExtractWrites, EntryStep

LEMMA NextLayerStep ==
    ASSUME ExtractInv, NextLayer
    PROVE  ExtractInv'
<1>1. stage = recorded
  BY ExtractedMatches DEF NextLayer, ExtractInv, Shape
<1>2. PICK current \in FileSystem : IsLayer(recorded, current)
  BY DEF NextLayer
<1>3. Shape'
  BY <1>1, <1>2, RecordedTree DEF IsLayer, NextLayer, ExtractInv, Shape, FileSystem
<1>4. /\ stage' = parent' /\ status' = "extracting"
      /\ whiteouts' = Whiteouts' /\ entries' = Changed'
  BY <1>1, <1>2 DEF IsLayer, NextLayer, Whiteouts, Changed
<1>5. \A p \in Path : StageAt(p)'
  BY <1>4 DEF StageAt, Cleared
<1>6. Progress'
  BY <1>4, <1>5 DEF Progress
<1> QED BY <1>3, <1>6 DEF ExtractInv

LEMMA ExtractInvStep == ExtractInv /\ [Next]_vars => ExtractInv'
<1> SUFFICES ASSUME ExtractInv, [Next]_vars PROVE ExtractInv'
  OBVIOUS
<1>1. CASE UNCHANGED vars
  BY <1>1 DEF vars, ExtractInv, Shape, Progress, StageAt, Cleared, Whiteouts, Changed
<1>2. CASE EndOfLayer
  BY <1>2 DEF EndOfLayer, ExtractInv, Shape, Progress, StageAt, Cleared,
              Whiteouts, Changed
<1>3. CASE NextLayer
  BY <1>3, NextLayerStep
<1>4. ASSUME NEW p \in Path, \/ ApplyWhiteout(p) \/ ExtractDir(p)
                              \/ ExtractFile(p) \/ ExtractSymlink(p)
      PROVE  ExtractInv'
  BY <1>4, WhiteoutStep, ExtractStep
<1> QED BY <1>1, <1>2, <1>3, <1>4 DEF Next

LEMMA ExtractInvAlways == Spec => []ExtractInv
BY ExtractInit, ExtractInvStep, PTL DEF Spec

(* extractLayer accepts every layer of every chain of snapshots: no        *)
(* whiteout or entry leads through a symlink or a file, and none is        *)
(* written over something of another type.                                 *)
THEOREM EveryLayerExtracts == Spec => []LayersAreExtractable
<1>1. ExtractInv => LayersAreExtractable
  BY DEF ExtractInv, Shape, LayersAreExtractable
<1> QED BY <1>1, ExtractInvAlways, PTL

(* Restoring any chain of snapshots reproduces exactly the tree that each  *)
(* snapshot recorded, for every sequence of agent states, type changes     *)
(* and redacted logs included.                                             *)
THEOREM RestoreReproduces == Spec => []RestoredTreeMatches
<1>1. ExtractInv => RestoredTreeMatches
  BY ExtractedMatches DEF ExtractInv, Shape, RestoredTreeMatches
<1> QED BY <1>1, ExtractInvAlways, PTL

-----------------------------------------------------------------------------
(***************************************************************************)
(* The stage is a file system after every single removal and every single  *)
(* entry, not only at the end of a layer.                                  *)
(***************************************************************************)
StageInv == ExtractInv /\ stage \in FileSystem

LEMMA StageStep == StageInv /\ [Next]_vars => StageInv'
<1> SUFFICES ASSUME ExtractInv, stage \in FileSystem, [Next]_vars
             PROVE  stage' \in FileSystem
  BY ExtractInvStep DEF StageInv
<1>0. stage \in Tree
  BY DEF FileSystem
<1>1. CASE UNCHANGED stage
  BY <1>1
<1>2. ASSUME NEW w \in Path, ApplyWhiteout(w)
      PROVE  stage' \in FileSystem
  <2>1. stage' = Removed(w)
    BY <1>2, WhiteoutRemoves
  <2>2. stage' \in Tree
    BY <1>0, <2>1 DEF Removed, Tree
  <2>3. ASSUME NEW p \in Path, stage'[p] # Absent, NEW a \in Ancestors[p]
        PROVE  IsDir(stage', a)
    <3>1. ~Within(p, w) /\ stage[p] # Absent
      BY <2>1, <2>3 DEF Removed
    <3>2. a \in Path /\ ~Within(a, w)
      BY <3>1, TreeConstants DEF Within
    <3>3. IsDir(stage, a) /\ stage'[a] = stage[a]
      BY <2>1, <3>1, <3>2 DEF Removed, FileSystem, WellFormed
    <3> QED BY <3>3 DEF IsDir
  <2> QED BY <2>2, <2>3 DEF FileSystem, WellFormed
<1>3. ASSUME NEW p \in Path, ExtractDir(p) \/ ExtractFile(p) \/ ExtractSymlink(p)
      PROVE  stage' \in FileSystem
  <2>1. InOrder(p) /\ stage' = [stage EXCEPT ![p] = recorded[p]]
    BY <1>3, ExtractWrites
  <2>2. /\ \A a \in Ancestors[p] : IsDir(stage, a)
        /\ recorded[p] \in Entry
    BY <2>1, ReadyEntry
  <2>3. stage' \in Tree
    BY <1>0, <2>1, <2>2 DEF Tree
  <2>4. ASSUME NEW q \in Path, stage'[q] # Absent, NEW a \in Ancestors[q]
        PROVE  IsDir(stage', a)
    <3>0. a \in Path /\ p \notin Ancestors[p]
      BY TreeConstants
    <3>1. CASE q = p
      BY <1>0, <2>1, <2>2, <3>0, <3>1 DEF IsDir, Tree
    <3>2. CASE q # p
      <4>1. stage[q] # Absent
        BY <1>0, <2>1, <2>4, <3>2 DEF Tree
      <4>2. IsDir(stage, a)
        BY <4>1 DEF FileSystem, WellFormed
      <4>3. a = p => TypeOf[recorded[p]] = "dir"
        BY <2>1, <4>1, NothingBelow
      <4>4. recorded[p] # Absent
        BY <2>2, TreeConstants
      <4> QED BY <1>0, <2>1, <3>0, <4>2, <4>3, <4>4 DEF IsDir, Tree
    <3> QED BY <3>1, <3>2
  <2> QED BY <2>3, <2>4 DEF FileSystem, WellFormed
<1> QED BY <1>1, <1>2, <1>3 DEF Next, NextLayer, EndOfLayer, vars

(* At every moment of every restore the stage is a file system in which    *)
(* each path is in directories, and all that is left of the layer is about *)
(* paths: extractLayer can be interrupted anywhere without leaving a file  *)
(* below a symlink or below another file.                                  *)
THEOREM StageIsFileSystem == Spec => []TypeOK
<1>1. Init => StageInv
  BY ExtractInit, EmptyIsFileSystem DEF StageInv, Init
<1>2. StageInv => TypeOK
  <2> SUFFICES ASSUME StageInv PROVE TypeOK
    OBVIOUS
  <2>1. recorded \in FileSystem
    BY RecordedTree DEF StageInv, ExtractInv
  <2>2. Whiteouts \subseteq Path /\ Changed \subseteq Path
    BY DEF Whiteouts, Changed, diffWhiteouts, mergeWhiteouts, typeChangeWhiteouts,
           ChangedEntries
  <2> QED BY <2>1, <2>2 DEF StageInv, ExtractInv, Shape, Progress, TypeOK
<1> QED BY <1>1, <1>2, StageStep, PTL DEF Spec

-----------------------------------------------------------------------------
(* The calls on one target are all restores or all extractions. *)
SingleKind == ~Mixed

-----------------------------------------------------------------------------
(* Type correctness.                                                       *)

LEMMA WholeIsDir ==
    ASSUME NEW tree \in AnyTree
    PROVE  /\ Whole(tree) \in Dir
           /\ Whole(tree).whole
           /\ Whole(tree) # NoDir
<1>1. Whole(tree) \in Dir /\ Whole(tree).whole
  BY DEF Whole, Dir
<1>2. NoDir \notin Dir
  BY SwapConstants DEF Dir, AnyTree
<1> QED BY <1>1, <1>2

LEMMA SwapTypeStep == SwapTypeOK /\ [SwapNext]_swapVars => SwapTypeOK'
<1> SUFFICES ASSUME SwapTypeOK, [SwapNext]_swapVars
             PROVE  SwapTypeOK'
  OBVIOUS
<1> USE DEF SwapTypeOK, Goto, Own, Found, Locked
<1>1. ASSUME NEW t \in Threads, Call(t) PROVE SwapTypeOK'
  BY <1>1 DEF Call
<1>2. ASSUME NEW t \in Threads, Lock(t) PROVE SwapTypeOK'
  <2>1. job[t].kind \in Kinds
    BY DEF Job
  <2> QED BY <1>2, <2>1 DEF Lock
<1>3. ASSUME NEW t \in Threads, Step(t) PROVE SwapTypeOK'
  <2>1. job[t].kind \in Kinds /\ job[t].tree \in AnyTree
    BY DEF Job, AnyTree
  <2>2. CASE Recover(t)
    BY <2>2 DEF Recover
  <2>3. CASE RenameBack(t)
    BY <2>3, <2>1 DEF RenameBack
  <2>4. CASE RenameBackFails(t)
    BY <2>4 DEF RenameBackFails
  <2>5. CASE Damage(t)
    <3>1. Own(t) \in Dir
      BY <2>5, <2>1 DEF Damage
    <3>2. [Own(t) EXCEPT !.whole = FALSE] \in Dir
      BY <3>1 DEF Dir
    <3>3. backup' = [backup EXCEPT ![job[t].kind] = [Own(t) EXCEPT !.whole = FALSE]]
      BY <2>5, <2>1 DEF Damage
    <3> QED BY <2>5, <2>1, <3>2, <3>3 DEF Damage
  <2>6. CASE Remove(t)
    BY <2>6, <2>1 DEF Remove
  <2>7. CASE RemoveFails(t)
    BY <2>7 DEF RemoveFails
  <2>8. CASE Validate(t)
    BY <2>8 DEF Validate
  <2>9. CASE Stage(t)
    BY <2>9 DEF Stage
  <2>10. CASE StageFails(t)
    BY <2>10 DEF StageFails
  <2>11. CASE Commit(t)
    BY <2>11 DEF Commit
  <2>12. CASE Park(t)
    BY <2>12, <2>1 DEF Park
  <2>13. CASE ParkFails(t)
    BY <2>13 DEF ParkFails
  <2>14. CASE Install(t)
    BY <2>14, <2>1, WholeIsDir DEF Install
  <2>15. CASE InstallFails(t)
    BY <2>15 DEF InstallFails
  <2>16. CASE Rollback(t)
    BY <2>16, <2>1 DEF Rollback
  <2>17. CASE RollbackFails(t)
    BY <2>17 DEF RollbackFails
  <2>18. CASE Return(t)
    BY <2>18 DEF Return
  <2> QED
    BY <1>3, <2>2, <2>3, <2>4, <2>5, <2>6, <2>7, <2>8, <2>9, <2>10, <2>11,
       <2>12, <2>13, <2>14, <2>15, <2>16, <2>17, <2>18 DEF Step
<1>4. CASE Crash
  BY <1>4 DEF Crash
<1>5. CASE UNCHANGED swapVars
  BY <1>5 DEF swapVars
<1> QED BY <1>1, <1>2, <1>3, <1>4, <1>5 DEF SwapNext

(* Every file, mutex and program counter keeps its type. *)
THEOREM SwapTyped == SwapSpec => []SwapTypeOK
<1>1. SwapInit => SwapTypeOK
  <2> SUFFICES ASSUME SwapInit PROVE SwapTypeOK
    OBVIOUS
  <2>1. Whole(EmptyDir) \in Dir /\ Whole(Original) \in Dir
    BY WholeIsDir DEF AnyTree
  <2> QED BY <2>1 DEF SwapInit, SwapTypeOK, Locked
<1> QED BY <1>1, SwapTypeStep, PTL DEF SwapSpec

-----------------------------------------------------------------------------
(***************************************************************************)
(* The inductive invariant: one thread at a time is inside the mutex; a    *)
(* tree is only ever removed, and a removal only ever interrupted, while   *)
(* a complete tree is at the target.                                       *)
(***************************************************************************)
Exclusive == \A t \in Threads : pc[t] \in Locked => lock = t
TargetWhole == target # NoDir => target.whole
PartialShadowed ==
    \A t \in Threads : Own(t) # NoDir /\ ~Own(t).whole => target # NoDir
OneKind == \A t, u \in Threads : job[t].kind = job[u].kind
RemovesShadowed ==
    \A t \in Threads : pc[t] \in {"repair", "clear", "discard"} => target # NoDir

SwapInv ==
    /\ SwapTypeOK /\ OneKind /\ Exclusive
    /\ TargetWhole /\ PartialShadowed /\ RemovesShadowed

(* What a step of the thread that holds the mutex does to the others. *)
LEMMA OthersOutside ==
    ASSUME SwapTypeOK, Exclusive, NEW t \in Threads, pc[t] \in Locked,
           NEW u \in Threads, u # t
    PROVE  pc[u] \notin Locked
BY DEF Exclusive

LEMMA SwapStep ==
    ASSUME SingleKind
    PROVE  SwapInv /\ [SwapNext]_swapVars => SwapInv'
<1> SUFFICES ASSUME SwapInv, [SwapNext]_swapVars
             PROVE  SwapInv'
  OBVIOUS
<1>0. SwapTypeOK /\ SwapTypeOK'
  BY SwapTypeStep DEF SwapInv
<1> USE DEF Exclusive, TargetWhole, PartialShadowed, RemovesShadowed, Goto, Own, Locked, OneKind
<1>1. ASSUME NEW t \in Threads, Call(t) PROVE SwapInv'
  <2>1. \A u \in Threads : job'[u].kind = job[u].kind
    BY <1>0, <1>1 DEF Call, SingleKind, SwapTypeOK
  <2>2. OneKind' /\ PartialShadowed'
    BY <2>1, <1>1 DEF Call, SwapInv
  <2> QED BY <1>0, <1>1, <2>2 DEF Call, SwapInv, SwapTypeOK
<1>2. ASSUME NEW t \in Threads, Lock(t) PROVE SwapInv'
  BY <1>0, <1>2, SwapConstants DEF Lock, SwapInv, SwapTypeOK
<1>3. ASSUME NEW t \in Threads, Step(t) PROVE SwapInv'
  <2>1. job[t].kind \in Kinds /\ job[t].tree \in AnyTree
    BY <1>0 DEF Job, AnyTree, SwapTypeOK
  <2>2. pc[t] \in Locked
    BY <1>3 DEF Step, Recover, RenameBack, RenameBackFails, Damage, Remove,
       RemoveFails, Validate, Stage, StageFails, Commit, Park, ParkFails,
       Install, InstallFails, Rollback, RollbackFails, Return
  <2>3. \A u \in Threads : u # t => pc[u] \notin Locked
    BY <1>0, <2>2, OthersOutside DEF SwapInv
  <2>4. \A u \in Threads : job[u].kind = job[t].kind
    BY DEF SwapInv
  <2>5. lock = t /\ t # NoThread
    BY <2>2, SwapConstants DEF SwapInv
  <2> USE <1>0, <2>1, <2>2, <2>3, <2>4, <2>5 DEF SwapTypeOK, SwapInv
  <2>6. CASE Recover(t)
    BY <2>6 DEF Recover
  <2>7. CASE RenameBack(t)
    BY <2>7 DEF RenameBack
  <2>8. CASE RenameBackFails(t)
    BY <2>8 DEF RenameBackFails
  <2>9. CASE Damage(t)
    BY <2>9 DEF Damage
  <2>10. CASE Remove(t)
    BY <2>10 DEF Remove
  <2>11. CASE RemoveFails(t)
    BY <2>11 DEF RemoveFails
  <2>12. CASE Validate(t)
    BY <2>12 DEF Validate
  <2>13. CASE Stage(t)
    BY <2>13 DEF Stage
  <2>14. CASE StageFails(t)
    BY <2>14 DEF StageFails
  <2>15. CASE Commit(t)
    BY <2>15 DEF Commit
  <2>16. CASE Park(t)
    BY <2>16 DEF Park
  <2>17. CASE ParkFails(t)
    BY <2>17 DEF ParkFails
  <2>18. CASE Install(t)
    BY <2>18, WholeIsDir DEF Install
  <2>19. CASE InstallFails(t)
    BY <2>19 DEF InstallFails
  <2>20. CASE Rollback(t)
    BY <2>20 DEF Rollback
  <2>21. CASE RollbackFails(t)
    BY <2>21 DEF RollbackFails
  <2>22. CASE Return(t)
    BY <2>22 DEF Return
  <2> QED
    BY <1>3, <2>6, <2>7, <2>8, <2>9, <2>10, <2>11, <2>12, <2>13, <2>14,
       <2>15, <2>16, <2>17, <2>18, <2>19, <2>20, <2>21, <2>22 DEF Step
<1>4. CASE Crash
  BY <1>0, <1>4 DEF Crash, SwapInv, SwapTypeOK
<1>5. CASE UNCHANGED swapVars
  BY <1>0, <1>5 DEF swapVars, SwapInv
<1> QED BY <1>1, <1>2, <1>3, <1>4, <1>5 DEF SwapNext

LEMMA SwapInvariant ==
    ASSUME SingleKind
    PROVE  SwapSpec => []SwapInv
<1>1. SwapInit => SwapInv
  <2> SUFFICES ASSUME SwapInit PROVE SwapInv
    OBVIOUS
  <2>1. /\ Whole(EmptyDir) \in Dir /\ Whole(Original) \in Dir
        /\ Whole(EmptyDir).whole /\ Whole(Original).whole
    BY WholeIsDir DEF AnyTree
  <2>2. \A t \in Threads : job[t].kind \in Kinds
    BY DEF SwapInit, Job
  <2> QED BY <2>1, <2>2 DEF SwapInit, SwapInv, SwapTypeOK, Locked, Exclusive, TargetWhole,
             PartialShadowed, RemovesShadowed, OneKind, Own, SingleKind
<1>2. SwapInv /\ [SwapNext]_swapVars => SwapInv'
  BY SwapStep
<1> QED BY <1>1, <1>2, PTL DEF SwapSpec

(***************************************************************************)
(* A restore, or an extraction, always finds a complete tree, at the       *)
(* target or in the backup it renames back.                                *)
(***************************************************************************)
THEOREM RecoveryFindsWholeTree ==
    ASSUME SingleKind
    PROVE  SwapSpec => []VisibleWhole
<1>1. SwapInv => VisibleWhole
  BY DEF SwapInv, VisibleWhole, Found, TargetWhole, PartialShadowed
<1> QED BY <1>1, SwapInvariant, PTL

(***************************************************************************)
(* The tree a user has is replaced only by the rename of a stage: not by   *)
(* parking, removing backups, rolling back, crashing or recovering.        *)
(***************************************************************************)
THEOREM ReplacedByRenameOnly ==
    ASSUME SingleKind
    PROVE  SwapSpec => OnlyInstallsReplace
<1> DEFINE Replaced == \A t \in Threads :
        Found(t)' # Found(t) =>
           \E u \in Threads : /\ pc[u] \in {"place", "swap"}
                              /\ Found(t)' = Whole(job[u].tree)
<1>1. SwapInv /\ [SwapNext]_swapVars => [Replaced]_swapVars
  <2> SUFFICES ASSUME SwapInv, SwapNext
               PROVE  Replaced
    BY DEF swapVars, Found, Own
  <2> SUFFICES ASSUME NEW t \in Threads, Found(t)' # Found(t)
               PROVE  \E u \in Threads : /\ pc[u] \in {"place", "swap"}
                                         /\ Found(t)' = Whole(job[u].tree)
    OBVIOUS
  <2>1. ASSUME NEW u \in Threads, Call(u) PROVE FALSE
    BY <2>1 DEF Call, Found, Own, SwapInv, SwapTypeOK, SingleKind
  <2>2. PICK u \in Threads : Step(u)
    BY <2>1 DEF SwapNext, Crash, Lock, Found, Own
  <2>3. job[u].kind \in Kinds /\ job[u].tree \in AnyTree
    BY DEF Job, AnyTree, SwapTypeOK, SwapInv
  <2>4. job[t].kind = job[u].kind
    BY DEF SwapInv, OneKind
  <2>5. CASE Install(u)
    BY <2>5, <2>3, WholeIsDir DEF Install, Found
  <2>6. CASE RenameBack(u)
    BY <2>6, <2>3, <2>4 DEF RenameBack, Found, Own, SwapTypeOK, SwapInv
  <2>7. CASE Rollback(u)
    BY <2>7, <2>3, <2>4 DEF Rollback, Found, Own, SwapTypeOK, SwapInv
  <2>8. CASE Park(u)
    BY <2>8, <2>3, <2>4 DEF Park, Found, Own, SwapTypeOK, SwapInv
  <2>9. CASE Damage(u) \/ Remove(u)
    BY <2>9 DEF Damage, Remove, Found, RemovesShadowed, SwapInv
  <2>10. CASE UNCHANGED <<target, backup, job>>
    BY <2>10 DEF Found, Own
  <2> QED
    BY <2>2, <2>5, <2>6, <2>7, <2>8, <2>9, <2>10 DEF Step, Recover,
       RenameBackFails, RemoveFails, Validate, Stage, StageFails, Commit,
       ParkFails, InstallFails, RollbackFails, Return
<1> QED BY <1>1, SwapInvariant, PTL DEF SwapSpec, OnlyInstallsReplace

-----------------------------------------------------------------------------
(* Until its stage is installed, the caller finds what it found at first. *)
BeforeKept ==
    \A t \in Threads :
        pc[t] \in Locked \ {"discard", "done", "unclean"} => Found(t) = before[t]

LEMMA KeptStep == SwapInv /\ BeforeKept /\ [SwapNext]_swapVars => BeforeKept'
<1> SUFFICES ASSUME SwapInv, BeforeKept, [SwapNext]_swapVars
             PROVE  BeforeKept'
  OBVIOUS
<1>0. SwapTypeOK /\ SwapTypeOK'
  BY SwapTypeStep DEF SwapInv
<1> USE DEF Goto, Own, Found, Locked
<1>1. ASSUME NEW t \in Threads, Call(t) PROVE BeforeKept'
  BY <1>0, <1>1 DEF Call, BeforeKept, SwapTypeOK
<1>2. ASSUME NEW t \in Threads, Lock(t) PROVE BeforeKept'
  BY <1>0, <1>2 DEF Lock, BeforeKept, SwapTypeOK
<1>3. ASSUME NEW t \in Threads, Step(t) PROVE BeforeKept'
  <2>1. job[t].kind \in Kinds /\ job[t].tree \in AnyTree
    BY <1>0 DEF Job, AnyTree, SwapTypeOK
  <2>2. pc[t] \in Locked
    BY <1>3 DEF Step, Recover, RenameBack, RenameBackFails, Damage, Remove,
       RemoveFails, Validate, Stage, StageFails, Commit, Park, ParkFails,
       Install, InstallFails, Rollback, RollbackFails, Return
  <2>3. \A u \in Threads : u # t => pc[u] \notin Locked
    BY <1>0, <2>2, OthersOutside DEF SwapInv
  <2>4. UNCHANGED <<job, before>> /\ \A u \in Threads : u # t => pc'[u] = pc[u]
    BY <1>0, <1>3 DEF Step, Recover, RenameBack, RenameBackFails, Damage,
       Remove, RemoveFails, Validate, Stage, StageFails, Commit, Park,
       ParkFails, Install, InstallFails, Rollback, RollbackFails, Return, SwapTypeOK
  <2> SUFFICES ASSUME pc'[t] \in Locked \ {"discard", "done", "unclean"}
               PROVE  Found(t)' = before[t]
    BY <2>3, <2>4 DEF BeforeKept
  <2> USE <1>0, <2>1 DEF SwapTypeOK, BeforeKept
  <2>5. CASE UNCHANGED <<target, backup>> /\ pc[t] \notin {"discard", "done", "unclean"}
    BY <2>5, <2>2, <2>4
  <2>6. CASE RenameBack(t)
    BY <2>6 DEF RenameBack
  <2>7. CASE Rollback(t)
    BY <2>7 DEF Rollback
  <2>8. CASE Park(t)
    BY <2>8 DEF Park
  <2>9. CASE Damage(t)
    BY <2>9 DEF Damage, SwapInv, RemovesShadowed
  <2>10. CASE Remove(t)
    BY <2>10 DEF Remove, SwapInv, RemovesShadowed
  <2>11. CASE Install(t) \/ Return(t)
    BY <2>11 DEF Install, Return
  <2>12. CASE RemoveFails(t)
    BY <2>12, <2>5 DEF RemoveFails
  <2> QED
    BY <1>3, <2>5, <2>6, <2>7, <2>8, <2>9, <2>10, <2>11, <2>12 DEF Step,
       Recover, RenameBackFails, Validate, Stage, StageFails, Commit,
       ParkFails, InstallFails, RollbackFails
<1>4. CASE Crash
  BY <1>4 DEF Crash, BeforeKept
<1>5. CASE UNCHANGED swapVars
  BY <1>5 DEF swapVars, BeforeKept
<1> QED BY <1>1, <1>2, <1>3, <1>4, <1>5 DEF SwapNext

(***************************************************************************)
(* A call that fails before its stage is installed leaves what the caller  *)
(* had at the target, or in the backup that the next call renames back.    *)
(***************************************************************************)
THEOREM FailuresKeepTarget ==
    ASSUME SingleKind
    PROVE  SwapSpec => []FailedCallsKeepTarget
<1>1. SwapInit => BeforeKept
  BY DEF SwapInit, BeforeKept, Locked
<1>2. BeforeKept => FailedCallsKeepTarget
  BY DEF BeforeKept, FailedCallsKeepTarget, Locked
<1> QED BY <1>1, <1>2, SwapInvariant, KeptStep, PTL DEF SwapSpec
=============================================================================
